-------------------------------- MODULE Ppp ---------------------------------
(***************************************************************************)
(* PPP over the emulated modem's data link: two PppPeer objects of         *)
(* tools/ppp.py, the dial-in server and its caller, each with its LCP and  *)
(* IPCP automata, its authenticator and its framer, bridged by LapmPppLink *)
(* to a byte stream that keeps order and may lose frames.                  *)
(*                                                                         *)
(* A peer is one record.  The two automata share the code of class         *)
(* ControlProtocol; here they are the fields p.lcp and p.ipcp, and the     *)
(* operators take the field's name k, as the methods take self.            *)
(*                                                                         *)
(* A configuration option is a pair <<type, value>>.  MRU, ACCM, PFC and   *)
(* ACFC, which this implementation always asks for and always grants, are  *)
(* one option "framing"; DNS servers go with the address.  A frame carries *)
(* lean = TRUE when it was encoded under a negotiated ACCM, control        *)
(* characters unescaped: a receiver still on the default ACCM discards     *)
(* those characters, the FCS fails and the frame is gone.                  *)
(***************************************************************************)
EXTENDS Naturals, Sequences

CONSTANTS
  Auth,           \* what the server demands: "none", "pap" or "chap"
  Refuses,        \* what the caller Rejects in LCP; a PppPeer refuses nothing
  GoodPassword,   \* whether the server's secrets know the caller
  IdMod,          \* the identifier modulus, 256 in the code
  MaxRestarts,    \* max_restarts of LCP and IPCP
  AuthRestarts,   \* max_restarts of ChapServer
  EchoFailures    \* echo_failures; 0 stands for no keepalive

CONSTANTS
  MaxLoss,        \* bound: frames lost one at a time (the raw fallback)
  MaxReset,       \* bound: re-establishments of the data link
  MaxStop,        \* bound: calls cleared by stop()
  MaxQueue,       \* bound: timers wait while the queue is this long
  PromptLine      \* no timer expires while a frame is under way

ASSUME PppAssumption ==
  /\ Auth \in {"none", "pap", "chap"} /\ Refuses \subseteq {"pap", "chap"}
  /\ GoodPassword \in BOOLEAN /\ PromptLine \in BOOLEAN
  /\ IdMod \in Nat \ {0} /\ MaxRestarts \in Nat \ {0}
  /\ AuthRestarts \in Nat \ {0} /\ EchoFailures \in Nat
  /\ MaxLoss \in Nat /\ MaxReset \in Nat /\ MaxStop \in Nat /\ MaxQueue \in Nat

VARIABLES
  peer,    \* [Peers -> peer record]
  faults   \* what the line and the operator have done so far

vars == <<peer, faults>>

Peers == {"server", "client"}
Other(e) == IF e = "server" THEN "client" ELSE "server"

Protocols == {"lcp", "ipcp"}
States == {"closed", "req-sent", "ack-rcvd", "ack-sent", "opened", "closing"}
Ids == 0 .. (IdMod - 1)
Addresses == {"0.0.0.0", "assigned", "gateway"}
Options == {<<"framing", "lean">>}
             \cup ({"auth"} \X {"pap", "chap"}) \cup ({"addr"} \X Addresses)
Codes == {"conf-req", "conf-ack", "conf-nak", "conf-rej", "term-req",
          "term-ack", "echo-req", "echo-rep", "proto-rej",
          "request", "challenge", "response", "grant", "deny"}
Frame == [proto : Protocols \cup {"pap", "chap"}, code : Codes, id : Ids,
          opts : SUBSET Options, lean : BOOLEAN]

-----------------------------------------------------------------------------
(* ControlProtocol: transmission.                                           *)

\* Mutation of NextId: the identifier is not reduced to its octet.
NextIdUnwrapped(c) == c.identifier + 1

\* _next_id
NextId(c) == (c.identifier + 1) % IdMod

Transmit(p, proto, code, id, opts) ==
  [p EXCEPT !.tx = Append(@, [proto |-> proto, code |-> code, id |-> id,
                              opts |-> opts, lean |-> p.tx_lean])]

\* A packet of the automaton's own, under the next identifier.
SendNew(p, k, code) ==
  Transmit([p EXCEPT ![k].identifier = NextId(p[k])], k, code, NextId(p[k]), {})

\* Lcp.local_options and Ipcp.local_options
LcpLocalOptions(p) ==
  {<<"framing", "lean">>} \cup {<<"auth", a>> : a \in {p.require_auth} \ {"none"}}

IpcpLocalOptions(p) == {<<"addr", p.address>>}

LocalOptions(p, k) ==
  IF k = "lcp" THEN LcpLocalOptions(p) ELSE IpcpLocalOptions(p)

SendConfigureRequest(p, k) ==
  LET id == NextId(p[k])
      opts == LocalOptions(p, k)
  IN Transmit([p EXCEPT ![k].identifier = id, ![k].last_id = id,
                        ![k].last_req = opts, ![k].armed = TRUE],
              k, "conf-req", id, opts)

\* open
Open(p, k) ==
  IF p[k].state # "closed" THEN p
  ELSE SendConfigureRequest([p EXCEPT ![k].restarts = MaxRestarts,
                                      ![k].naks = 0, ![k].failed = FALSE,
                                      ![k].state = "req-sent"], k)

\* Lcp.open: the only place that restores the default framing.
OpenLcp(p) ==
  Open(IF p.lcp.state = "closed"
       THEN [p EXCEPT !.tx_lean = FALSE, !.rx_lean = FALSE] ELSE p, "lcp")

-----------------------------------------------------------------------------
(* Layer events.                                                            *)

\* Mutation of OnLcpDown: IPCP is left as it was when LCP goes down.
OnLcpDownIpcpStays(p) == [p EXCEPT !.authenticated = FALSE, !.auth = "none"]

\* on_lcp_down: authentication and IPCP go with LCP.
OnLcpDown(p) ==
  [p EXCEPT !.authenticated = FALSE, !.auth = "none", !.up = FALSE,
            !.ipcp.state = "closed",
            !.ipcp.armed = IF p.ipcp.state = "closed" THEN @ ELSE FALSE]

\* this_layer_down
LayerDown(p, k) ==
  IF k = "ipcp" THEN [p EXCEPT !.up = FALSE]
  ELSE OnLcpDown([p EXCEPT !.pend_tx = FALSE, !.pend_rx = FALSE])

Close(p, k) ==
  LET q == [SendNew(p, k, "term-req") EXCEPT
              ![k].state = "closing", ![k].restarts = MaxRestarts,
              ![k].armed = TRUE]
  IN CASE p[k].state \in {"closed", "closing"} -> p
       [] p[k].state = "opened" -> LayerDown(q, k)
       [] p[k].state \in {"req-sent", "ack-rcvd", "ack-sent"} -> q

Fail(p, k) ==
  LET q == [p EXCEPT ![k].state = "closed", ![k].armed = FALSE,
                     ![k].failed = TRUE]
  IN IF p[k].state = "opened" THEN LayerDown(q, k) ELSE q

\* on_auth_result
OnAuthResult(p, ok) ==
  IF ok THEN Open([p EXCEPT !.authenticated = TRUE], "ipcp")
  ELSE IF p.role = "server" THEN Close(p, "lcp") ELSE p

\* ChapServer.start and _send_challenge.  Each ChapServer is new, so its one
\* challenge has the identifier 1.
SendChallenge(p) ==
  Transmit([p EXCEPT !.auth_armed = TRUE], "chap", "challenge", 1 % IdMod, {})

\* Mutation of OnLcpUp: what was configured decides, not what was negotiated.
OnLcpUpConfigured(p) ==
  LET demand == IF p.role = "server" THEN Auth ELSE p.peer_auth
      q == [p EXCEPT !.auth = demand, !.auth_restarts = AuthRestarts,
                     !.auth_armed = FALSE, !.auth_done = FALSE]
  IN CASE demand = "none" -> Open([p EXCEPT !.authenticated = TRUE], "ipcp")
       [] demand = "chap" -> IF p.role = "server" THEN SendChallenge(q) ELSE q
       [] demand = "pap" -> IF p.role = "server" THEN q
                            ELSE Transmit(q, "pap", "request", 1 % IdMod, {})

\* on_lcp_up: what was negotiated decides who speaks next.
OnLcpUp(p) ==
  LET demand == IF p.role = "server" THEN p.require_auth ELSE p.peer_auth
      q == [p EXCEPT !.auth = demand, !.auth_restarts = AuthRestarts,
                     !.auth_armed = FALSE, !.auth_done = FALSE]
  IN CASE demand = "none" -> Open([p EXCEPT !.authenticated = TRUE], "ipcp")
       [] demand = "chap" -> IF p.role = "server" THEN SendChallenge(q) ELSE q
       [] demand = "pap" -> IF p.role = "server" THEN q
                            ELSE Transmit(q, "pap", "request", 1 % IdMod, {})

\* Mutation of LcpUp: the transmitter changes over, the receiver does not.
LcpUpTxOnly(p) == OnLcpUp([p EXCEPT !.tx_lean = p.pend_tx])

\* Lcp.this_layer_up: the staged framing takes effect now.
LcpUp(p) == OnLcpUp([p EXCEPT !.tx_lean = p.pend_tx, !.rx_lean = p.pend_rx])

\* on_ipcp_up: IP may flow.
OnIpcpUp(p) == [p EXCEPT !.up = TRUE]

\* _enter_opened
EnterOpened(p, k) ==
  LET q == [p EXCEPT ![k].state = "opened", ![k].armed = FALSE]
  IN IF k = "lcp" THEN LcpUp(q) ELSE OnIpcpUp(q)

-----------------------------------------------------------------------------
(* ControlProtocol: reception.                                              *)

\* Lcp.review_peer_option.  Only a caller lets itself be authenticated.
ReviewLcp(p, opt) ==
  IF opt[1] = "auth" /\ (p.role = "server" \/ opt[2] \in Refuses)
  THEN "rej" ELSE "ack"

\* Ipcp.review_peer_option: the server insists on the address it hands out.
ReviewIpcp(p, opt) ==
  IF p.role = "client" \/ opt[2] = "assigned" THEN "ack" ELSE "nak"

Review(p, k, opt) ==
  IF k = "lcp" THEN ReviewLcp(p, opt) ELSE ReviewIpcp(p, opt)

\* The value an option list gives for a type, if it has that type.
Value(opts, type, default) ==
  IF \E o \in opts : o[1] = type
  THEN (CHOOSE o \in opts : o[1] = type)[2] ELSE default

HasFraming(opts) == \E o \in opts : o[1] = "framing"

\* apply_peer_option for every option of an acknowledged request.
ApplyLcp(p, opts) ==
  [p EXCEPT !.pend_tx = @ \/ HasFraming(opts),
            !.peer_auth = Value(opts, "auth", @)]

ApplyIpcp(p, opts) == [p EXCEPT !.assigned = Value(opts, "addr", @)]

ApplyPeerOptions(p, k, opts) ==
  IF k = "lcp" THEN ApplyLcp(p, opts) ELSE ApplyIpcp(p, opts)

\* Lcp.apply_local_option
ApplyLocalOptions(p, opts) == [p EXCEPT !.pend_rx = @ \/ HasFraming(opts)]

\* _not_acknowledged; an opened layer was already taken down by RecvRequest.
NotAcknowledged(p, k) ==
  [p EXCEPT ![k].state = IF @ = "ack-sent" THEN "req-sent" ELSE @]

\* _recv_1: Configure-Request.
RecvRequest(r, k, f) ==
  LET p == IF r[k].state = "opened"
           THEN SendConfigureRequest(
                  [LayerDown(r, k) EXCEPT ![k].state = "req-sent"], k)
           ELSE r
      rejected == {o \in f.opts : Review(p, k, o) = "rej"}
      nakked == {o \in f.opts : Review(p, k, o) = "nak"}
      n == [p EXCEPT ![k].naks = @ + 1]
      a == Transmit(ApplyPeerOptions(p, k, f.opts), k, "conf-ack",
                    f.id, f.opts)
  IN CASE rejected # {} ->
            NotAcknowledged(Transmit(p, k, "conf-rej", f.id, rejected), k)
       [] rejected = {} /\ nakked # {} ->
            IF n[k].naks > MaxRestarts THEN Fail(n, k)
            ELSE NotAcknowledged(Transmit(n, k, "conf-nak", f.id,
                                          {<<"addr", "assigned">>}), k)
       [] rejected = {} /\ nakked = {} ->
            IF p[k].state = "ack-rcvd" THEN EnterOpened(a, k)
            ELSE [a EXCEPT ![k].state = "ack-sent"]

\* _recv_2: Configure-Ack.
RecvAck(r, k, f) ==
  LET p == [ApplyLocalOptions(r, f.opts) EXCEPT ![k].restarts = MaxRestarts]
  IN CASE f.id # r[k].last_id \/ f.opts # r[k].last_req -> r
       [] f.id = r[k].last_id /\ f.opts = r[k].last_req ->
            IF r[k].state = "ack-sent" THEN EnterOpened(p, k)
            ELSE IF r[k].state = "req-sent"
            THEN [p EXCEPT ![k].state = "ack-rcvd", ![k].armed = FALSE]
            ELSE p

\* _resend_after_negotiation
Resend(p, k) ==
  SendConfigureRequest(
    [p EXCEPT ![k].restarts = MaxRestarts,
              ![k].state = IF @ = "ack-rcvd" THEN "req-sent" ELSE @], k)

\* Ipcp.accept_nak
AcceptNak(p, opts) == [p EXCEPT !.address = Value(opts, "addr", @)]

\* _recv_3: Configure-Nak.
RecvNak(p, k, f) ==
  IF f.id # p[k].last_id THEN p ELSE Resend(AcceptNak(p, f.opts), k)

\* Lcp.reject_local_option: CHAP gives way to PAP; a caller that refuses both
\* has refused the service.
RejectLocalOptions(p, opts) ==
  IF \A o \in opts : o[1] # "auth" THEN p
  ELSE IF p.require_auth = "chap" THEN [p EXCEPT !.require_auth = "pap"]
  ELSE Fail(p, "lcp")

\* _recv_4: Configure-Reject.
RecvReject(p, k, f) ==
  IF f.id # p[k].last_id THEN p ELSE Resend(RejectLocalOptions(p, f.opts), k)

\* _recv_5: Terminate-Request.
RecvTermRequest(p, k, f) ==
  LET q == Transmit(p, k, "term-ack", f.id, {})
      d == IF p[k].state = "opened" THEN LayerDown(q, k) ELSE q
  IN [d EXCEPT ![k].state = "closed", ![k].armed = FALSE]

\* _recv_6: Terminate-Ack.
RecvTermAck(p, k) ==
  IF p[k].state # "closing" THEN p
  ELSE [p EXCEPT ![k].state = "closed", ![k].armed = FALSE]

\* ControlProtocol.feed
FeedControl(p, k, f) ==
  CASE f.code = "conf-req" -> RecvRequest(p, k, f)
    [] f.code = "conf-ack" -> RecvAck(p, k, f)
    [] f.code = "conf-nak" -> RecvNak(p, k, f)
    [] f.code = "conf-rej" -> RecvReject(p, k, f)
    [] f.code = "term-req" -> RecvTermRequest(p, k, f)
    [] f.code = "term-ack" -> RecvTermAck(p, k)
    [] f.code = "proto-rej" -> p
    [] f.code = "echo-req" ->
         IF p.lcp.state = "opened"
         THEN Transmit(p, "lcp", "echo-rep", f.id, {}) ELSE p
    [] f.code = "echo-rep" -> [p EXCEPT !.echo_outstanding = 0]

-----------------------------------------------------------------------------
(* Authentication.                                                          *)

\* PapServer.feed
PapServerFeed(p, f) ==
  IF f.code # "request" THEN p
  ELSE OnAuthResult(Transmit(p, "pap", IF GoodPassword THEN "grant" ELSE "deny",
                             f.id, {}), GoodPassword)

\* ChapServer.feed
ChapServerFeed(p, f) ==
  IF f.code # "response" THEN p
  ELSE OnAuthResult(
         [Transmit(p, "chap", IF GoodPassword THEN "grant" ELSE "deny", f.id, {})
            EXCEPT !.auth_armed = FALSE, !.auth_done = GoodPassword],
         GoodPassword)

\* AuthClient.feed
AuthClientFeed(p, f) ==
  CASE f.code = "challenge" -> Transmit(p, "chap", "response", f.id, {})
    [] f.code \in {"grant", "deny"} -> OnAuthResult(p, f.code = "grant")
    [] f.code \in {"request", "response"} -> p

FeedAuth(p, f) ==
  CASE p.role = "client" -> AuthClientFeed(p, f)
    [] p.role = "server" /\ p.auth = "pap" -> PapServerFeed(p, f)
    [] p.role = "server" /\ p.auth = "chap" -> ChapServerFeed(p, f)

-----------------------------------------------------------------------------
(* PppPeer.                                                                 *)

\* HdlcFramer.next_frame: an unescaped control character the receiver still
\* expects escaped is discarded, and the frame fails its FCS.
Legible(p, f) == f.lean => p.rx_lean

\* _dispatch: nothing but LCP is legal before LCP opens; an unauthenticated
\* caller gets no IPCP.
Dispatch(p, f) ==
  CASE f.proto = "lcp" -> FeedControl(p, "lcp", f)
    [] f.proto # "lcp" /\ p.lcp.state # "opened" -> p
    [] f.proto = "ipcp" /\ p.lcp.state = "opened" ->
         IF p.require_auth # "none" /\ ~ p.authenticated THEN p
         ELSE FeedControl(p, "ipcp", f)
    [] f.proto \in {"pap", "chap"} /\ p.lcp.state = "opened" ->
         IF p.auth = f.proto THEN FeedAuth(p, f)
         ELSE SendNew(p, "lcp", "proto-rej")

\* feed
FeedPeer(p, f) == IF Legible(p, f) THEN Dispatch(p, f) ELSE p

NewAutomaton ==
  [state |-> "closed", identifier |-> 0, last_id |-> 0, last_req |-> {},
   restarts |-> MaxRestarts, armed |-> FALSE, naks |-> 0, failed |-> FALSE]

NewPeer(e) ==
  [role |-> e, started |-> FALSE, lcp |-> NewAutomaton, ipcp |-> NewAutomaton,
   require_auth |-> IF e = "server" THEN Auth ELSE "none",
   peer_auth |-> "none", auth |-> "none", auth_restarts |-> 0,
   auth_armed |-> FALSE, auth_done |-> FALSE, authenticated |-> FALSE,
   up |-> FALSE,
   address |-> IF e = "server" THEN "gateway" ELSE "0.0.0.0",
   assigned |-> "0.0.0.0", echo_outstanding |-> 0,
   tx_lean |-> FALSE, rx_lean |-> FALSE, pend_tx |-> FALSE, pend_rx |-> FALSE,
   tx |-> <<>>]

Init ==
  /\ peer = [e \in Peers |-> NewPeer(e)]
  /\ faults = [lost |-> 0, resets |-> 0, stops |-> 0]

\* start
StartPeer(p) == IF p.started THEN p ELSE OpenLcp([p EXCEPT !.started = TRUE])

\* start(), from LapmPppLink.pump on the first tick with a data link.
Start(e) ==
  /\ ~ peer[e].started
  /\ peer' = [peer EXCEPT ![e] = StartPeer(@)]
  /\ UNCHANGED faults

\* stop(): the call is cleared.
Stop(e) ==
  /\ faults.stops < MaxStop
  /\ peer[e].started
  /\ peer' = [peer EXCEPT ![e] =
       Close(IF @.ipcp.state = "opened" THEN Close(@, "ipcp") ELSE @, "lcp")]
  /\ faults' = [faults EXCEPT !.stops = @ + 1]

Feed(e) ==
  LET in == peer[Other(e)].tx
  IN /\ in # <<>>
     /\ peer' = [d \in Peers |->
          IF d = e THEN FeedPeer(StartPeer(peer[e]), Head(in))
          ELSE [peer[d] EXCEPT !.tx = Tail(@)]]
     /\ UNCHANGED faults

\* Timers.  Each is the part of tick() that its deadline guards.
LineIdle == \A e \in Peers : peer[e].tx = <<>>

TimersRun(e) ==
  /\ peer[e].started
  /\ Len(peer[e].tx) < MaxQueue
  /\ PromptLine => LineIdle

\* ControlProtocol.tick
Expire(r, k) ==
  LET p == [r EXCEPT ![k].restarts = @ - 1]
      idle == [p EXCEPT ![k].armed = FALSE, ![k].state = "closed"]
  IN IF p[k].restarts = 0
     THEN IF p[k].state = "closing" THEN idle ELSE Fail(p, k)
     ELSE IF p[k].state = "closing" THEN SendNew(p, k, "term-req")
     ELSE IF p[k].state \in {"req-sent", "ack-rcvd", "ack-sent"}
          THEN SendConfigureRequest(p, k) ELSE p

ControlTick(e, k) ==
  /\ TimersRun(e)
  /\ peer[e][k].armed
  /\ peer' = [peer EXCEPT ![e] = Expire(@, k)]
  /\ UNCHANGED faults

\* ChapServer.tick
AuthTick(e) ==
  LET p == [peer[e] EXCEPT !.auth_restarts = @ - 1]
  IN /\ TimersRun(e)
     /\ e = "server" /\ p.auth = "chap" /\ p.auth_armed /\ ~ p.auth_done
     /\ peer' = [peer EXCEPT ![e] =
          IF p.auth_restarts = 0
          THEN OnAuthResult([p EXCEPT !.auth_armed = FALSE], FALSE)
          ELSE SendChallenge(p)]
     /\ UNCHANGED faults

\* _echo_tick
EchoTick(e) ==
  LET p == peer[e]
  IN /\ TimersRun(e)
     /\ EchoFailures > 0 /\ p.lcp.state = "opened"
     /\ peer' = [peer EXCEPT ![e] =
          IF p.echo_outstanding >= EchoFailures THEN Fail(p, "lcp")
          ELSE [SendNew(p, "lcp", "echo-req") EXCEPT !.echo_outstanding = @ + 1]]
     /\ UNCHANGED faults

\* A frame is lost: without error correction (the raw fallback) any may be.
Lose(e) ==
  /\ faults.lost < MaxLoss
  /\ peer[e].tx # <<>>
  /\ peer' = [peer EXCEPT ![e].tx = Tail(@)]
  /\ faults' = [faults EXCEPT !.lost = @ + 1]

\* LapmPppLink.pump sees a new generation of the data link: what was queued
\* or under way in either direction belonged to the old one.
LinkReset ==
  /\ faults.resets < MaxReset
  /\ ~ LineIdle
  /\ peer' = [e \in Peers |-> [peer[e] EXCEPT !.tx = <<>>]]
  /\ faults' = [faults EXCEPT !.resets = @ + 1]

Next ==
  \/ \E e \in Peers :
       \/ Start(e) \/ Stop(e) \/ Feed(e) \/ AuthTick(e) \/ EchoTick(e)
       \/ Lose(e)
       \/ \E k \in Protocols : ControlTick(e, k)
  \/ LinkReset

Spec == Init /\ [][Next]_vars

\* pump() runs every media tick of the call: it starts the peer, feeds what
\* has arrived and runs the timers.
Fairness ==
  \A e \in Peers :
    /\ WF_vars(Start(e)) /\ WF_vars(Feed(e)) /\ WF_vars(AuthTick(e))
    /\ \A k \in Protocols : WF_vars(ControlTick(e, k))

FairSpec == Spec /\ Fairness

-----------------------------------------------------------------------------
(* Properties.                                                              *)

Automaton ==
  [state : States, identifier : Ids, last_id : Ids, last_req : SUBSET Options,
   restarts : Nat, armed : BOOLEAN, naks : Nat, failed : BOOLEAN]

PeerType ==
  [role : Peers, started : BOOLEAN, lcp : Automaton, ipcp : Automaton,
   require_auth : {"none", "pap", "chap"}, peer_auth : {"none", "pap", "chap"},
   auth : {"none", "pap", "chap"}, auth_restarts : Nat, auth_armed : BOOLEAN,
   auth_done : BOOLEAN, authenticated : BOOLEAN, up : BOOLEAN,
   address : Addresses, assigned : Addresses, echo_outstanding : Nat,
   tx_lean : BOOLEAN, rx_lean : BOOLEAN, pend_tx : BOOLEAN, pend_rx : BOOLEAN,
   tx : Seq(Frame)]

\* Every attribute keeps its type; restart counters never go below zero.
TypeOK ==
  /\ peer \in [Peers -> PeerType]
  /\ faults \in [lost : Nat, resets : Nat, stops : Nat]

\* IP flows only inside an open, authenticated link: whatever order the layers
\* came up and went down in, an end that considers itself up has LCP and IPCP
\* open and knows who it talks to.
UpMeansAuthenticated ==
  \A e \in Peers :
    peer[e].up => /\ peer[e].lcp.state = "opened"
                  /\ peer[e].ipcp.state = "opened"
                  /\ peer[e].authenticated

\* A caller negotiates no address before the server knows it.
NoAddressBeforeAuth ==
  peer["server"].ipcp.state # "closed" => peer["server"].authenticated

\* On a quiet line: with LCP open at both ends, the caller authenticates with
\* the protocol the server demands, and the framing one end sends under is the
\* framing the other receives under; with both ends up, the caller uses the
\* address the server set aside for it, and the server knows that it does.
TermsAgreed ==
  LineIdle =>
    /\ (\A e \in Peers : peer[e].lcp.state = "opened")
         => /\ peer["client"].peer_auth = peer["server"].require_auth
            /\ \A e \in Peers : peer[e].tx_lean = peer[Other(e)].rx_lean
    /\ (\A e \in Peers : peer[e].up)
         => /\ peer["client"].address = "assigned"
            /\ peer["server"].assigned = "assigned"

BothUp == \A e \in Peers : peer[e].up

\* A call to a server that knows the caller comes up, and stays up.
ComesUp == <>[]BothUp
=============================================================================

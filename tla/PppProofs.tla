----------------------------- MODULE PppProofs ------------------------------
(***************************************************************************)
(* Proofs about module Ppp, for every authentication demand, every refusal *)
(* of the caller, every counter setting and every number of lost frames:   *)
(* the type invariant, and that nothing above LCP runs outside an open     *)
(* link, nor anything of the server's for a caller it does not know.       *)
(*                                                                         *)
(* The argument: a peer is "in order" (InOrder) when its fields have their *)
(* types, its queue holds only frames its receiver has a case for, a timer *)
(* that runs has a restart left to count down (Good), and its layers are   *)
(* nested (Layered): IP above IPCP above an open, authenticated LCP.  One  *)
(* lemma per method of ControlProtocol, the authenticators and PppPeer     *)
(* shows that the method keeps a peer in order, and one per action that it *)
(* keeps both; NextInOrder puts them together.  Between the assignments of *)
(* one method a peer may be out of order; those lemmas are about Good and  *)
(* about the fields Layers collects.                                       *)
(***************************************************************************)
EXTENDS Ppp, TLAPS, SequenceTheorems

\* The codes of a control packet, and the frames a peer may queue: those that
\* FeedControl or an authenticator has a case for.
ControlCodes == Codes \ {"request", "challenge", "response", "grant", "deny"}
GoodFrame == {f \in Frame : f.proto \in Protocols <=> f.code \in ControlCodes}

\* A timer that runs, and an automaton that may restart without a new count,
\* has a restart left: the decrement of tick never goes below zero.
Counts(a) == a.armed \/ a.state \in {"ack-rcvd", "opened"} => a.restarts >= 1

\* The types of a peer's fields, its queue and its counters.
Good(p) ==
  /\ p \in PeerType
  /\ p.tx \in Seq(GoodFrame)
  /\ Counts(p.lcp) /\ Counts(p.ipcp)
  /\ p.auth_armed => p.auth_restarts >= 1

\* The fields that say which layers are up, and for whom.
Layers(p) == <<p.role, p.require_auth, p.authenticated, p.up,
               p.lcp.state, p.ipcp.state>>

\* IP runs above IPCP, IPCP above an open LCP; who is known is known of this
\* link only; and the server's IPCP runs only for a caller it knows.
Layered(p) ==
  /\ p.up => p.ipcp.state = "opened"
  /\ p.ipcp.state # "closed" => p.lcp.state = "opened"
  /\ p.authenticated => p.lcp.state = "opened"
  /\ p.role = "server" =>
       /\ p.ipcp.state # "closed" => p.authenticated
       /\ p.lcp.state = "opened" /\ p.require_auth = "none" => p.authenticated

\* A peer in order.
InOrder(p) == Good(p) /\ Layered(p)

\* Nesting depends on nothing but the layers.
LEMMA SameLayers ==
  ASSUME NEW p, NEW q, Layered(p), Layers(q) = Layers(p)
  PROVE  Layered(q)
  BY DEF Layered, Layers

\* _next_id stays in its octet.
LEMMA NextIdType ==
  ASSUME NEW c \in Automaton
  PROVE  NextId(c) \in Ids
  BY PppAssumption DEF NextId, Automaton, Ids

\* Queueing a frame changes nothing but the queue.
LEMMA TransmitOK ==
  ASSUME NEW p, Good(p), NEW proto \in Protocols \cup {"pap", "chap"},
         NEW code \in Codes, NEW id \in Ids, NEW opts \in SUBSET Options,
         proto \in Protocols <=> code \in ControlCodes
  PROVE  LET q == Transmit(p, proto, code, id, opts)
         IN /\ Good(q) /\ Layers(q) = Layers(p)
            /\ q.lcp = p.lcp /\ q.ipcp = p.ipcp
  <1> DEFINE f == [proto |-> proto, code |-> code, id |-> id, opts |-> opts,
                   lean |-> p.tx_lean]
             t == Append(p.tx, f)
             q == [p EXCEPT !.tx = t]
  <1>1. f \in GoodFrame
    <2>1. p.tx_lean \in BOOLEAN
      BY DEF Good, PeerType
    <2>2. QED BY <2>1 DEF GoodFrame, Frame
  <1>2. t \in Seq(GoodFrame) /\ t \in Seq(Frame)
    <2>1. p.tx \in Seq(GoodFrame) /\ p.tx \in Seq(Frame) /\ f \in Frame
      BY <1>1 DEF Good, PeerType, GoodFrame
    <2>2. QED BY <1>1, <2>1
  <1>3. q = Transmit(p, proto, code, id, opts)
    BY DEF Transmit
  <1> HIDE DEF t
  <1>4. q \in PeerType /\ q.tx = t
    BY <1>2 DEF Good, PeerType
  <1>5. Layers(q) = Layers(p) /\ q.lcp = p.lcp /\ q.ipcp = p.ipcp
        /\ q.auth_armed = p.auth_armed /\ q.auth_restarts = p.auth_restarts
    BY DEF Good, PeerType, Layers
  <1> HIDE DEF q
  <1>6. QED BY <1>2, <1>3, <1>4, <1>5 DEF Good

\* A packet under the next identifier leaves state and timer alone.
LEMMA SendNewOK ==
  ASSUME NEW p, Good(p), NEW k \in Protocols, NEW code \in ControlCodes
  PROVE  LET q == SendNew(p, k, code)
         IN /\ Good(q) /\ Layers(q) = Layers(p)
            /\ q[k].state = p[k].state
            /\ q[k].restarts = p[k].restarts /\ q[k].armed = p[k].armed
  <1> DEFINE id == NextId(p[k])
             r == [p EXCEPT ![k].identifier = id]
  <1>1. id \in Ids
    BY NextIdType DEF Good, PeerType, Protocols
  <1> HIDE DEF id
  <1>2. /\ Good(r) /\ Layers(r) = Layers(p)
        /\ r[k].state = p[k].state
        /\ r[k].restarts = p[k].restarts /\ r[k].armed = p[k].armed
    <2>1. CASE k = "lcp"
      BY <1>1, <2>1 DEF Good, PeerType, Automaton, Counts, Layers
    <2>2. CASE k = "ipcp"
      BY <1>1, <2>2 DEF Good, PeerType, Automaton, Counts, Layers
    <2>3. QED BY <2>1, <2>2 DEF Protocols
  <1> DEFINE q == Transmit(r, k, code, id, {})
  <1>3. /\ Good(q) /\ Layers(q) = Layers(r)
        /\ q.lcp = r.lcp /\ q.ipcp = r.ipcp
    <2>1. /\ k \in Protocols \cup {"pap", "chap"} /\ code \in Codes
          /\ {} \in SUBSET Options
          /\ k \in Protocols <=> code \in ControlCodes
      BY DEF ControlCodes
    <2> HIDE DEF r
    <2>2. QED BY <1>1, <1>2, <2>1, TransmitOK
  <1>4. q = SendNew(p, k, code)
    BY DEF SendNew, id
  <1> HIDE DEF q, r
  <1>5. QED BY <1>2, <1>3, <1>4 DEF Protocols

\* _send_configure_request arms the timer, with a restart to count down.
LEMMA SendConfigureRequestOK ==
  ASSUME NEW p, Good(p), NEW k \in Protocols, p[k].restarts >= 1
  PROVE  LET q == SendConfigureRequest(p, k)
         IN Good(q) /\ Layers(q) = Layers(p)
  <1> DEFINE id == NextId(p[k])
             opts == LocalOptions(p, k)
             r == [p EXCEPT ![k].identifier = id, ![k].last_id = id,
                            ![k].last_req = opts, ![k].armed = TRUE]
  <1>1. id \in Ids
    BY NextIdType DEF Good, PeerType, Protocols
  <1>2. opts \in SUBSET Options
    <2>1. p.require_auth \in {"none", "pap", "chap"} /\ p.address \in Addresses
      BY DEF Good, PeerType
    <2>2. LcpLocalOptions(p) \in SUBSET Options
      BY <2>1 DEF LcpLocalOptions, Options
    <2>3. IpcpLocalOptions(p) \in SUBSET Options
      BY <2>1 DEF IpcpLocalOptions, Options
    <2>4. QED BY <2>2, <2>3 DEF LocalOptions
  <1> HIDE DEF id, opts
  <1>3. Good(r) /\ Layers(r) = Layers(p)
    <2>1. CASE k = "lcp"
      BY <1>1, <1>2, <2>1 DEF Good, PeerType, Automaton, Counts, Layers
    <2>2. CASE k = "ipcp"
      BY <1>1, <1>2, <2>2 DEF Good, PeerType, Automaton, Counts, Layers
    <2>3. QED BY <2>1, <2>2 DEF Protocols
  <1> DEFINE q == Transmit(r, k, "conf-req", id, opts)
  <1>4. Good(q) /\ Layers(q) = Layers(r)
    <2>1. /\ k \in Protocols \cup {"pap", "chap"} /\ "conf-req" \in Codes
          /\ k \in Protocols <=> "conf-req" \in ControlCodes
      BY DEF ControlCodes, Codes
    <2> HIDE DEF r
    <2>2. QED BY <1>1, <1>2, <1>3, <2>1, TransmitOK
  <1>5. q = SendConfigureRequest(p, k)
    BY DEF SendConfigureRequest, id, opts
  <1> HIDE DEF q, r
  <1>6. QED BY <1>3, <1>4, <1>5

\* The peer of open just before its request goes out.
Opened(p, k) ==
  [p EXCEPT ![k].restarts = MaxRestarts, ![k].naks = 0, ![k].failed = FALSE,
            ![k].state = "req-sent"]

\* The assignments of open.
LEMMA OpenedOK ==
  ASSUME NEW p, Good(p), NEW k \in Protocols
  PROVE  LET q == Opened(p, k)
         IN /\ Good(q) /\ q[k].restarts >= 1
            /\ q.role = p.role /\ q.require_auth = p.require_auth
            /\ q.authenticated = p.authenticated /\ q.up = p.up
            /\ k = "lcp" => q.lcp.state = "req-sent" /\ q.ipcp.state = p.ipcp.state
            /\ k = "ipcp" => q.ipcp.state = "req-sent" /\ q.lcp.state = p.lcp.state
  <1>0. MaxRestarts \in Nat /\ MaxRestarts >= 1 /\ "req-sent" \in States
    BY PppAssumption DEF States
  <1>1. CASE k = "lcp"
    BY <1>0, <1>1 DEF Good, PeerType, Automaton, Counts, Opened
  <1>2. CASE k = "ipcp"
    BY <1>0, <1>2 DEF Good, PeerType, Automaton, Counts, Opened
  <1>3. QED BY <1>1, <1>2 DEF Protocols

\* open, of either automaton.
LEMMA OpenOK ==
  ASSUME NEW p, Good(p), NEW k \in Protocols
  PROVE  LET q == Open(p, k)
         IN /\ Good(q)
            /\ q.role = p.role /\ q.require_auth = p.require_auth
            /\ q.authenticated = p.authenticated /\ q.up = p.up
            /\ k = "lcp" =>
                 /\ q.ipcp.state = p.ipcp.state
                 /\ q.lcp.state = IF p.lcp.state = "closed" THEN "req-sent"
                                  ELSE p.lcp.state
            /\ k = "ipcp" =>
                 /\ q.lcp.state = p.lcp.state
                 /\ q.ipcp.state = IF p.ipcp.state = "closed" THEN "req-sent"
                                   ELSE p.ipcp.state
  <1>1. CASE p[k].state # "closed"
    <2>1. Open(p, k) = p
      BY <1>1 DEF Open
    <2>2. QED BY <1>1, <2>1
  <1>2. CASE p[k].state = "closed"
    <2> DEFINE r == Opened(p, k)
               q == SendConfigureRequest(r, k)
    <2>1. q = Open(p, k)
      BY <1>2 DEF Open, Opened
    <2>2. /\ Good(r) /\ r[k].restarts >= 1
          /\ r.role = p.role /\ r.require_auth = p.require_auth
          /\ r.authenticated = p.authenticated /\ r.up = p.up
          /\ k = "lcp" => r.lcp.state = "req-sent" /\ r.ipcp.state = p.ipcp.state
          /\ k = "ipcp" => r.ipcp.state = "req-sent" /\ r.lcp.state = p.lcp.state
      BY OpenedOK
    <2> HIDE DEF r
    <2>3. Good(q) /\ Layers(q) = Layers(r)
      BY <2>2, SendConfigureRequestOK
    <2> HIDE DEF q
    <2>4. QED BY <1>2, <2>1, <2>2, <2>3 DEF Layers
  <1>3. QED BY <1>1, <1>2

\* Lcp.open
LEMMA OpenLcpInOrder ==
  ASSUME NEW p, InOrder(p)
  PROVE  InOrder(OpenLcp(p)) /\ OpenLcp(p).role = p.role
  <1> DEFINE r == IF p.lcp.state = "closed"
                  THEN [p EXCEPT !.tx_lean = FALSE, !.rx_lean = FALSE] ELSE p
             q == Open(r, "lcp")
  <1>1. Good(r) /\ Layers(r) = Layers(p)
    <2> DEFINE s == [p EXCEPT !.tx_lean = FALSE, !.rx_lean = FALSE]
    <2>1. Good(s) /\ Layers(s) = Layers(p)
      BY DEF InOrder, Good, PeerType, Layers
    <2>2. r = s \/ r = p
      OBVIOUS
    <2> HIDE DEF s, r
    <2>3. QED BY <2>1, <2>2 DEF InOrder
  <1>2. Layered(r)
    BY <1>1, SameLayers DEF InOrder
  <1>3. "lcp" \in Protocols
    BY DEF Protocols
  <1> HIDE DEF r
  <1>4. /\ Good(q)
        /\ q.role = r.role /\ q.require_auth = r.require_auth
        /\ q.authenticated = r.authenticated /\ q.up = r.up
        /\ q.ipcp.state = r.ipcp.state
        /\ q.lcp.state = IF r.lcp.state = "closed" THEN "req-sent"
                         ELSE r.lcp.state
    BY <1>1, <1>3, OpenOK
  <1>5. q = OpenLcp(p)
    BY DEF OpenLcp, r
  <1> HIDE DEF q
  <1>6. Layered(q)
    BY <1>2, <1>4 DEF Layered
  <1>7. q.role = p.role
    BY <1>1, <1>4 DEF Layers
  <1>8. QED BY <1>4, <1>5, <1>6, <1>7 DEF InOrder

\* Open, for IPCP of an open and authenticated link.
LEMMA OpenIpcpInOrder ==
  ASSUME NEW p, InOrder(p), p.lcp.state = "opened", p.authenticated
  PROVE  InOrder(Open(p, "ipcp")) /\ Open(p, "ipcp").role = p.role
  <1> DEFINE q == Open(p, "ipcp")
  <1>1. "ipcp" \in Protocols
    BY DEF Protocols
  <1>4. /\ Good(q)
        /\ q.role = p.role /\ q.require_auth = p.require_auth
        /\ q.authenticated = p.authenticated /\ q.up = p.up
        /\ q.lcp.state = p.lcp.state
        /\ q.ipcp.state = IF p.ipcp.state = "closed" THEN "req-sent"
                          ELSE p.ipcp.state
    BY <1>1, OpenOK DEF InOrder
  <1> HIDE DEF q
  <1>6. Layered(q)
    BY <1>4 DEF Layered, InOrder
  <1>7. QED BY <1>4, <1>6 DEF InOrder, q

\* LCP going down takes authentication, IPCP and IP with it.
LEMMA LcpDownOK ==
  ASSUME NEW p, Good(p)
  PROVE  LET q == LayerDown(p, "lcp")
         IN /\ Good(q) /\ q.role = p.role /\ q.require_auth = p.require_auth
            /\ q.authenticated = FALSE /\ q.up = FALSE
            /\ q.lcp = p.lcp /\ q.ipcp.state = "closed"
  <1> DEFINE r == [p EXCEPT !.pend_tx = FALSE, !.pend_rx = FALSE]
             q == OnLcpDown(r)
  <1>1. /\ Good(r) /\ r.role = p.role /\ r.require_auth = p.require_auth
        /\ r.lcp = p.lcp
    BY DEF Good, PeerType
  <1> HIDE DEF r
  <1>2. r.ipcp \in Automaton /\ Counts(r.ipcp) /\ "closed" \in States
    BY <1>1 DEF Good, PeerType, States
  <1> DEFINE a == [r.ipcp EXCEPT !.state = "closed",
                     !.armed = IF r.ipcp.state = "closed" THEN @ ELSE FALSE]
  <1>3. a \in Automaton /\ Counts(a) /\ a.state = "closed"
    BY <1>2 DEF Automaton, Counts
  <1>4. q = [r EXCEPT !.authenticated = FALSE, !.auth = "none", !.up = FALSE,
                      !.ipcp = a]
    BY <1>1 DEF OnLcpDown, Good, PeerType, Automaton
  <1> HIDE DEF a, q
  <1>5. /\ Good(q) /\ q.role = r.role /\ q.require_auth = r.require_auth
        /\ q.authenticated = FALSE /\ q.up = FALSE /\ q.ipcp = a
        /\ q.lcp = r.lcp
    BY <1>1, <1>3, <1>4 DEF Good, PeerType
  <1>6. q = LayerDown(p, "lcp")
    BY DEF LayerDown, q, r
  <1>7. QED BY <1>1, <1>3, <1>5, <1>6

\* IPCP going down takes IP with it and leaves the link alone.
LEMMA IpcpDownOK ==
  ASSUME NEW p, Good(p)
  PROVE  LET q == LayerDown(p, "ipcp")
         IN /\ Good(q) /\ q.role = p.role /\ q.require_auth = p.require_auth
            /\ q.authenticated = p.authenticated /\ q.up = FALSE
            /\ q.lcp = p.lcp /\ q.ipcp = p.ipcp
  BY DEF LayerDown, Good, PeerType

\* A layer going down, whichever it is.
LEMMA DownOK ==
  ASSUME NEW p, Good(p), NEW k \in Protocols
  PROVE  LET d == LayerDown(p, k)
         IN /\ Good(d) /\ d.role = p.role /\ d.require_auth = p.require_auth
            /\ d.up = FALSE /\ d[k] = p[k]
            /\ k = "lcp" => d.ipcp.state = "closed" /\ d.authenticated = FALSE
            /\ k = "ipcp" => d.lcp = p.lcp /\ d.authenticated = p.authenticated
  <1>1. CASE k = "lcp"
    BY <1>1, LcpDownOK
  <1>2. CASE k = "ipcp"
    BY <1>2, IpcpDownOK
  <1>3. QED BY <1>1, <1>2 DEF Protocols

\* Where an automaton may run: LCP always, IPCP of an open link only, and the
\* server's only for a caller it knows.
Admitted(p, k) ==
  k = "ipcp" => /\ p.lcp.state = "opened"
                /\ p.role = "server" => p.authenticated

\* A step that sets k's state and timer, the rest of the peer as it was.
Moved(p, q, k, state) ==
  /\ Good(q) /\ q.role = p.role /\ q.require_auth = p.require_auth
  /\ q.authenticated = p.authenticated /\ q.up = p.up
  /\ k = "lcp" => q.lcp.state = state /\ q.ipcp.state = p.ipcp.state
  /\ k = "ipcp" => q.ipcp.state = state /\ q.lcp.state = p.lcp.state

\* A layer that moves out of "opened", or was not open, and is taken down.
LEMMA LeaveInOrder ==
  ASSUME NEW p, InOrder(p), NEW k \in Protocols, NEW q, NEW state,
         Moved(p, q, k, state), state # "opened",
         state = "closed" \/ Admitted(p, k)
  PROVE  /\ LET r == LayerDown(q, k)
            IN InOrder(r) /\ r.role = p.role
         /\ p[k].state # "opened" => InOrder(q) /\ q.role = p.role
  <1>1. CASE k = "lcp"
    <2> DEFINE r == LayerDown(q, "lcp")
    <2>1. Good(q)
      BY DEF Moved
    <2>2. /\ Good(r) /\ r.role = q.role /\ r.require_auth = q.require_auth
          /\ r.authenticated = FALSE /\ r.up = FALSE
          /\ r.lcp = q.lcp /\ r.ipcp.state = "closed"
      BY <2>1, LcpDownOK
    <2> HIDE DEF r
    <2>3. Layered(r)
      BY <1>1, <2>2 DEF Layered, Moved
    <2>4. p.lcp.state # "opened" => Layered(q)
      BY <1>1 DEF Layered, Moved, InOrder
    <2>5. QED BY <1>1, <2>1, <2>2, <2>3, <2>4 DEF InOrder, Moved, r
  <1>2. CASE k = "ipcp"
    <2> DEFINE r == LayerDown(q, "ipcp")
    <2>1. Good(q)
      BY DEF Moved
    <2>2. /\ Good(r) /\ r.role = q.role /\ r.require_auth = q.require_auth
          /\ r.authenticated = q.authenticated /\ r.up = FALSE
          /\ r.lcp = q.lcp /\ r.ipcp = q.ipcp
      BY <2>1, IpcpDownOK
    <2> HIDE DEF r
    <2>3. Layered(r)
      BY <1>2, <2>2 DEF Layered, Moved, InOrder, Admitted
    <2>4. p.ipcp.state # "opened" => Layered(q)
      BY <1>2 DEF Layered, Moved, InOrder, Admitted
    <2>5. QED BY <1>2, <2>1, <2>2, <2>3, <2>4 DEF InOrder, Moved, r
  <1>3. QED BY <1>1, <1>2 DEF Protocols

\* close
LEMMA CloseInOrder ==
  ASSUME NEW p, InOrder(p), NEW k \in Protocols
  PROVE  InOrder(Close(p, k)) /\ Close(p, k).role = p.role
  <1> DEFINE r == SendNew(p, k, "term-req")
             q == [r EXCEPT ![k].state = "closing", ![k].restarts = MaxRestarts,
                            ![k].armed = TRUE]
  <1>1. p[k].state \in States
    BY DEF InOrder, Good, PeerType, Automaton, Protocols
  <1>2. Good(r) /\ Layers(r) = Layers(p)
    <2>1. "term-req" \in ControlCodes
      BY DEF ControlCodes, Codes
    <2>2. QED BY <2>1, SendNewOK DEF InOrder
  <1>3. MaxRestarts \in Nat /\ MaxRestarts >= 1 /\ "closing" \in States
    BY PppAssumption DEF States
  <1>4. /\ p[k].state \in {"closed", "closing"} => Close(p, k) = p
        /\ p[k].state = "opened" => Close(p, k) = LayerDown(q, k)
        /\ p[k].state \in {"req-sent", "ack-rcvd", "ack-sent"}
             => Close(p, k) = q
    BY <1>1, Zenon DEF Close
  <1> HIDE DEF r
  <1>5. Moved(r, q, k, "closing")
    <2>1. CASE k = "lcp"
      BY <1>2, <1>3, <2>1 DEF Moved, Good, PeerType, Automaton, Counts
    <2>2. CASE k = "ipcp"
      BY <1>2, <1>3, <2>2 DEF Moved, Good, PeerType, Automaton, Counts
    <2>3. QED BY <2>1, <2>2 DEF Protocols
  <1> HIDE DEF q
  <1>6. Moved(p, q, k, "closing")
    BY <1>2, <1>5 DEF Moved, Layers
  <1>7. CASE p[k].state \in {"closed", "closing"}
    BY <1>4, <1>7
  <1>8. CASE p[k].state \notin {"closed", "closing"}
    <2>1. Admitted(p, k)
      BY <1>8 DEF Admitted, InOrder, Layered
    <2>2. /\ InOrder(LayerDown(q, k)) /\ LayerDown(q, k).role = p.role
          /\ p[k].state # "opened" => InOrder(q) /\ q.role = p.role
      BY <1>6, <2>1, LeaveInOrder
    <2>3. QED BY <1>1, <1>4, <1>8, <2>2 DEF States
  <1>9. QED BY <1>7, <1>8

\* _fail
LEMMA FailInOrder ==
  ASSUME NEW p, InOrder(p), NEW k \in Protocols
  PROVE  InOrder(Fail(p, k)) /\ Fail(p, k).role = p.role
         /\ Fail(p, k).require_auth = p.require_auth
  <1> DEFINE q == [p EXCEPT ![k].state = "closed", ![k].armed = FALSE,
                            ![k].failed = TRUE]
  <1>1. Moved(p, q, k, "closed") /\ "closed" \in States
    <2>1. CASE k = "lcp"
      BY <2>1 DEF InOrder, Moved, Good, PeerType, Automaton, Counts, States
    <2>2. CASE k = "ipcp"
      BY <2>2 DEF InOrder, Moved, Good, PeerType, Automaton, Counts, States
    <2>3. QED BY <2>1, <2>2 DEF Protocols
  <1>2. Fail(p, k) = IF p[k].state = "opened" THEN LayerDown(q, k) ELSE q
    BY DEF Fail
  <1> HIDE DEF q
  <1>3. /\ InOrder(LayerDown(q, k)) /\ LayerDown(q, k).role = p.role
        /\ p[k].state # "opened" => InOrder(q) /\ q.role = p.role
    BY <1>1, LeaveInOrder
  <1>4. LayerDown(q, k).require_auth = q.require_auth
    BY <1>1, LcpDownOK, IpcpDownOK DEF Moved, Protocols
  <1>5. QED BY <1>1, <1>2, <1>3, <1>4 DEF Moved

\* The identifier of a first challenge or request.
LEMMA ConstantId == 1 % IdMod \in Ids
  BY PppAssumption DEF Ids

\* on_auth_result
LEMMA OnAuthResultInOrder ==
  ASSUME NEW p, InOrder(p), NEW ok \in BOOLEAN, ok => p.lcp.state = "opened"
  PROVE  InOrder(OnAuthResult(p, ok)) /\ OnAuthResult(p, ok).role = p.role
  <1>1. CASE ok
    <2> DEFINE q == [p EXCEPT !.authenticated = TRUE]
    <2>1. Good(q) /\ q.role = p.role /\ q.authenticated = TRUE
          /\ q.up = p.up /\ q.lcp = p.lcp /\ q.ipcp = p.ipcp
      BY DEF InOrder, Good, PeerType
    <2>2. OnAuthResult(p, ok) = Open(q, "ipcp")
      BY <1>1 DEF OnAuthResult
    <2> HIDE DEF q
    <2>3. InOrder(q)
      BY <1>1, <2>1 DEF InOrder, Layered
    <2>4. QED BY <1>1, <2>1, <2>2, <2>3, OpenIpcpInOrder
  <1>2. CASE ~ ok
    <2>1. "lcp" \in Protocols
      BY DEF Protocols
    <2>2. InOrder(Close(p, "lcp")) /\ Close(p, "lcp").role = p.role
      BY <2>1, CloseInOrder
    <2>3. QED BY <1>2, <2>2 DEF OnAuthResult
  <1>3. QED BY <1>1, <1>2

\* A frame of an authenticator keeps the peer in order.
LEMMA AuthFrameOK ==
  ASSUME NEW p, Good(p), NEW proto \in {"pap", "chap"},
         NEW code \in {"request", "challenge", "response", "grant", "deny"},
         NEW id \in Ids
  PROVE  LET q == Transmit(p, proto, code, id, {})
         IN /\ Good(q) /\ Layers(q) = Layers(p)
            /\ q.lcp = p.lcp /\ q.ipcp = p.ipcp
  <1>1. /\ proto \in Protocols \cup {"pap", "chap"} /\ code \in Codes
        /\ {} \in SUBSET Options
        /\ proto \in Protocols <=> code \in ControlCodes
    BY DEF ControlCodes, Codes, Protocols
  <1>2. QED BY <1>1, TransmitOK

\* _send_challenge
LEMMA SendChallengeOK ==
  ASSUME NEW p, Good(p), p.auth_restarts >= 1
  PROVE  LET q == SendChallenge(p)
         IN Good(q) /\ Layers(q) = Layers(p)
  <1> DEFINE r == [p EXCEPT !.auth_armed = TRUE]
  <1>1. Good(r) /\ Layers(r) = Layers(p)
    BY DEF Good, PeerType, Layers
  <1>2. SendChallenge(p) = Transmit(r, "chap", "challenge", 1 % IdMod, {})
    BY DEF SendChallenge
  <1> HIDE DEF r
  <1>3. QED BY <1>1, <1>2, ConstantId, AuthFrameOK

\* on_lcp_up, on a link that has just opened: nothing above LCP is up yet.
LEMMA OnLcpUpInOrder ==
  ASSUME NEW p, Good(p), p.lcp.state = "opened", p.ipcp.state = "closed",
         ~ p.up, ~ p.authenticated
  PROVE  InOrder(OnLcpUp(p)) /\ OnLcpUp(p).role = p.role
  <1> DEFINE demand == IF p.role = "server" THEN p.require_auth ELSE p.peer_auth
             n == [p EXCEPT !.authenticated = TRUE]
             q == [p EXCEPT !.auth = demand, !.auth_restarts = AuthRestarts,
                            !.auth_armed = FALSE, !.auth_done = FALSE]
             t == Transmit(q, "pap", "request", 1 % IdMod, {})
  <1>1. demand \in {"none", "pap", "chap"}
    BY DEF Good, PeerType
  <1>2. /\ demand = "none" => OnLcpUp(p) = Open(n, "ipcp")
        /\ demand = "chap" /\ p.role = "server" => OnLcpUp(p) = SendChallenge(q)
        /\ demand = "chap" /\ p.role # "server" => OnLcpUp(p) = q
        /\ demand = "pap" /\ p.role = "server" => OnLcpUp(p) = q
        /\ demand = "pap" /\ p.role # "server" => OnLcpUp(p) = t
    BY DEF OnLcpUp
  <1>3. demand # "none" => p.role # "server" \/ p.require_auth # "none"
    OBVIOUS
  <1> HIDE DEF demand
  <1>4. /\ Good(n) /\ n.lcp = p.lcp /\ n.ipcp = p.ipcp /\ n.up = p.up
        /\ n.role = p.role /\ n.authenticated = TRUE
    BY DEF Good, PeerType
  <1>5. AuthRestarts \in Nat /\ AuthRestarts >= 1
    BY PppAssumption
  <1>6. Good(q) /\ Layers(q) = Layers(p) /\ q.auth_restarts >= 1
    BY <1>1, <1>5 DEF Good, PeerType, Layers
  <1> HIDE DEF n, q
  <1>7. CASE demand = "none"
    <2>1. InOrder(n)
      BY <1>4 DEF InOrder, Layered
    <2>2. QED BY <1>2, <1>4, <1>7, <2>1, OpenIpcpInOrder
  <1>8. CASE demand # "none"
    <2>1. Layered(p)
      BY <1>3, <1>8 DEF Layered
    <2>2. Good(t) /\ Layers(t) = Layers(q)
      BY <1>6, ConstantId, AuthFrameOK
    <2>3. Good(SendChallenge(q)) /\ Layers(SendChallenge(q)) = Layers(q)
      BY <1>6, SendChallengeOK
    <2> HIDE DEF t
    <2>4. OnLcpUp(p) \in {t, q, SendChallenge(q)}
      BY <1>1, <1>2, <1>8
    <2>5. Good(OnLcpUp(p)) /\ Layers(OnLcpUp(p)) = Layers(p)
      BY <1>6, <2>2, <2>3, <2>4
    <2>6. Layered(OnLcpUp(p)) /\ OnLcpUp(p).role = p.role
      BY <2>1, <2>5, SameLayers DEF Layers
    <2>7. QED BY <2>5, <2>6 DEF InOrder
  <1>9. QED BY <1>7, <1>8

\* _enter_opened
LEMMA EnterOpenedInOrder ==
  ASSUME NEW p, InOrder(p), NEW k \in Protocols, p[k].state # "opened",
         p[k].restarts >= 1, Admitted(p, k)
  PROVE  InOrder(EnterOpened(p, k)) /\ EnterOpened(p, k).role = p.role
  <1> DEFINE q == [p EXCEPT ![k].state = "opened", ![k].armed = FALSE]
  <1>1. Moved(p, q, k, "opened")
    <2>1. CASE k = "lcp"
      BY <2>1 DEF InOrder, Moved, Good, PeerType, Automaton, Counts, States
    <2>2. CASE k = "ipcp"
      BY <2>2 DEF InOrder, Moved, Good, PeerType, Automaton, Counts, States
    <2>3. QED BY <2>1, <2>2 DEF Protocols
  <1>2. EnterOpened(p, k) = IF k = "lcp" THEN LcpUp(q) ELSE OnIpcpUp(q)
    BY DEF EnterOpened
  <1> HIDE DEF q
  <1>3. CASE k = "lcp"
    <2> DEFINE r == [q EXCEPT !.tx_lean = q.pend_tx, !.rx_lean = q.pend_rx]
    <2>1. Good(r) /\ Layers(r) = Layers(q)
      BY <1>1 DEF Moved, Good, PeerType, Layers
    <2>2. LcpUp(q) = OnLcpUp(r)
      BY DEF LcpUp
    <2> HIDE DEF r
    <2>3. /\ p.lcp.state # "opened" /\ p.ipcp.state = "closed"
          /\ ~ p.up /\ ~ p.authenticated
      BY <1>3 DEF InOrder, Layered
    <2>4. /\ r.lcp.state = "opened" /\ r.ipcp.state = "closed" /\ ~ r.up
          /\ ~ r.authenticated /\ r.role = p.role
      BY <1>1, <1>3, <2>1, <2>3 DEF Layers, Moved
    <2>5. QED BY <1>2, <1>3, <2>1, <2>2, <2>4, OnLcpUpInOrder
  <1>4. CASE k = "ipcp"
    <2> DEFINE r == [q EXCEPT !.up = TRUE]
    <2>1. /\ Good(r) /\ r.up = TRUE /\ r.role = q.role
          /\ r.require_auth = q.require_auth
          /\ r.authenticated = q.authenticated
          /\ r.lcp = q.lcp /\ r.ipcp = q.ipcp
      BY <1>1 DEF Moved, Good, PeerType
    <2>2. OnIpcpUp(q) = r
      BY DEF OnIpcpUp
    <2> HIDE DEF r
    <2>3. Layered(r)
      BY <1>1, <1>4, <2>1 DEF Moved, InOrder, Layered, Admitted
    <2>4. QED BY <1>1, <1>2, <1>4, <2>1, <2>2, <2>3 DEF InOrder, Moved
  <1>5. QED BY <1>3, <1>4 DEF Protocols

-----------------------------------------------------------------------------
(* Reception.                                                               *)

\* A control packet keeps the peer in order.
LEMMA ControlFrameOK ==
  ASSUME NEW p, Good(p), NEW k \in Protocols, NEW code \in ControlCodes,
         NEW id \in Ids, NEW opts \in SUBSET Options
  PROVE  LET q == Transmit(p, k, code, id, opts)
         IN /\ Good(q) /\ Layers(q) = Layers(p)
            /\ q.lcp = p.lcp /\ q.ipcp = p.ipcp
  <1>1. /\ k \in Protocols \cup {"pap", "chap"} /\ code \in Codes
        /\ k \in Protocols <=> code \in ControlCodes
    BY DEF ControlCodes
  <1>2. QED BY <1>1, TransmitOK

\* What an option list gives for a type is of that type.
LEMMA ValueType ==
  ASSUME NEW opts \in SUBSET Options
  PROVE  /\ \A d \in {"none", "pap", "chap"} :
              Value(opts, "auth", d) \in {"none", "pap", "chap"}
         /\ \A d \in Addresses : Value(opts, "addr", d) \in Addresses
  <1>1. /\ \A o \in opts : o[1] = "auth" => o[2] \in {"pap", "chap"}
        /\ \A o \in opts : o[1] = "addr" => o[2] \in Addresses
    BY DEF Options
  <1>2. ASSUME NEW d \in {"none", "pap", "chap"}
        PROVE  Value(opts, "auth", d) \in {"none", "pap", "chap"}
    BY <1>1 DEF Value
  <1>3. ASSUME NEW d \in Addresses
        PROVE  Value(opts, "addr", d) \in Addresses
    BY <1>1 DEF Value
  <1>4. QED BY <1>2, <1>3

\* apply_peer_option
LEMMA ApplyPeerOptionsOK ==
  ASSUME NEW p, Good(p), NEW k \in Protocols, NEW opts \in SUBSET Options
  PROVE  LET q == ApplyPeerOptions(p, k, opts)
         IN /\ Good(q) /\ Layers(q) = Layers(p)
            /\ q.lcp = p.lcp /\ q.ipcp = p.ipcp
  <1> DEFINE a == Value(opts, "auth", p.peer_auth)
             b == Value(opts, "addr", p.assigned)
             h == p.pend_tx \/ HasFraming(opts)
             q == [p EXCEPT !.pend_tx = h, !.peer_auth = a]
             r == [p EXCEPT !.assigned = b]
  <1>1. p.peer_auth \in {"none", "pap", "chap"} /\ p.assigned \in Addresses
    BY DEF Good, PeerType
  <1>2. a \in {"none", "pap", "chap"} /\ b \in Addresses
    BY <1>1, ValueType
  <1>3. h \in BOOLEAN
    OBVIOUS
  <1>4. ApplyLcp(p, opts) = q /\ ApplyIpcp(p, opts) = r
    BY DEF ApplyLcp, ApplyIpcp
  <1> HIDE DEF a, b, h
  <1>5. /\ Good(q) /\ Layers(q) = Layers(p)
        /\ q.lcp = p.lcp /\ q.ipcp = p.ipcp
    BY <1>2, <1>3 DEF Good, PeerType, Layers
  <1>6. /\ Good(r) /\ Layers(r) = Layers(p)
        /\ r.lcp = p.lcp /\ r.ipcp = p.ipcp
    BY <1>2 DEF Good, PeerType, Layers
  <1> HIDE DEF q, r
  <1>7. QED BY <1>4, <1>5, <1>6 DEF ApplyPeerOptions

\* _not_acknowledged
LEMMA NotAcknowledgedInOrder ==
  ASSUME NEW p, InOrder(p), NEW k \in Protocols
  PROVE  LET q == NotAcknowledged(p, k)
         IN InOrder(q) /\ q.role = p.role
  <1> DEFINE q == [p EXCEPT ![k].state = "req-sent"]
             r == NotAcknowledged(p, k)
  <1>1. CASE p[k].state = "ack-sent"
    <2>1. r = q
      BY <1>1 DEF NotAcknowledged
    <2>2. Moved(p, q, k, "req-sent")
      <3>1. CASE k = "lcp"
        BY <1>1, <3>1 DEF InOrder, Moved, Good, PeerType, Automaton, Counts, States
      <3>2. CASE k = "ipcp"
        BY <1>1, <3>2 DEF InOrder, Moved, Good, PeerType, Automaton, Counts, States
      <3>3. QED BY <3>1, <3>2 DEF Protocols
    <2> HIDE DEF q
    <2>3. Admitted(p, k)
      BY <1>1 DEF Admitted, InOrder, Layered
    <2>4. QED BY <1>1, <2>1, <2>2, <2>3, LeaveInOrder
  <1>2. CASE p[k].state # "ack-sent"
    <2> DEFINE st == p[k].state
    <2>1. r = [p EXCEPT ![k].state = st]
      BY <1>2 DEF NotAcknowledged
    <2>2. Moved(p, r, k, st)
      <3>1. CASE k = "lcp"
        BY <2>1, <3>1 DEF InOrder, Moved, Good, PeerType, Automaton, Counts
      <3>2. CASE k = "ipcp"
        BY <2>1, <3>2 DEF InOrder, Moved, Good, PeerType, Automaton, Counts
      <3>3. QED BY <3>1, <3>2 DEF Protocols
    <2> HIDE DEF r
    <2>3. Layers(r) = Layers(p)
      BY <2>2 DEF Moved, Layers, Protocols
    <2>4. QED BY <2>2, <2>3, SameLayers DEF Moved, InOrder, r
  <1>3. QED BY <1>1, <1>2

\* A Configure-Request that reaches an open automaton restarts it.
Restarted(r, k) ==
  IF r[k].state = "opened"
  THEN SendConfigureRequest([LayerDown(r, k) EXCEPT ![k].state = "req-sent"], k)
  ELSE r

\* A restarted automaton is not open, and may still run.
LEMMA RestartedInOrder ==
  ASSUME NEW r, InOrder(r), NEW k \in Protocols, Admitted(r, k)
  PROVE  LET p == Restarted(r, k)
         IN /\ InOrder(p) /\ p.role = r.role /\ Admitted(p, k)
            /\ p[k].state # "opened"
  <1> DEFINE d == LayerDown(r, k)
             q == [d EXCEPT ![k].state = "req-sent"]
             p == SendConfigureRequest(q, k)
  <1>1. CASE r[k].state # "opened"
    BY <1>1 DEF Restarted
  <1>2. CASE r[k].state = "opened"
    <2>1. r[k].restarts >= 1
      BY <1>2 DEF InOrder, Good, Counts, Protocols
    <2>2. /\ Good(d) /\ d.role = r.role /\ d.require_auth = r.require_auth
          /\ d.up = FALSE /\ d[k] = r[k]
          /\ k = "lcp" => d.ipcp.state = "closed" /\ d.authenticated = FALSE
          /\ k = "ipcp" => d.lcp = r.lcp /\ d.authenticated = r.authenticated
      BY DownOK DEF InOrder
    <2> HIDE DEF d
    <2>3. Moved(d, q, k, "req-sent") /\ q[k].restarts = d[k].restarts
      <3>1. CASE k = "lcp"
        BY <2>2, <3>1 DEF Moved, Good, PeerType, Automaton, Counts, States
      <3>2. CASE k = "ipcp"
        BY <2>2, <3>2 DEF Moved, Good, PeerType, Automaton, Counts, States
      <3>3. QED BY <3>1, <3>2 DEF Protocols
    <2> HIDE DEF q
    <2>4. Good(p) /\ Layers(p) = Layers(q)
      BY <2>1, <2>2, <2>3, SendConfigureRequestOK DEF Moved
    <2>5. p = Restarted(r, k)
      BY <1>2 DEF Restarted, q, d
    <2> HIDE DEF p
    <2>6. Layered(q) /\ Admitted(q, k) /\ q[k].state = "req-sent" /\ q.role = r.role
      BY <2>2, <2>3 DEF Moved, Layered, Admitted, InOrder, Protocols
    <2>7. Layered(p)
      BY <2>4, <2>6, SameLayers
    <2>8. QED BY <2>4, <2>5, <2>6, <2>7 DEF InOrder, Layers, Admitted, Protocols
  <1>3. QED BY <1>1, <1>2

\* A change that leaves the layers alone keeps the peer in order.
LEMMA SameInOrder ==
  ASSUME NEW p, InOrder(p), NEW q, Good(q), Layers(q) = Layers(p)
  PROVE  InOrder(q) /\ q.role = p.role
         /\ \A k \in Protocols : /\ q[k].state = p[k].state
                                 /\ Admitted(p, k) => Admitted(q, k)
  BY SameLayers DEF InOrder, Layers, Protocols, Admitted

\* A change of k's nak counter only.
LEMMA NaksOK ==
  ASSUME NEW p, Good(p), NEW k \in Protocols, NEW n \in Nat
  PROVE  LET q == [p EXCEPT ![k].naks = n]
         IN Good(q) /\ Layers(q) = Layers(p)
  <1>1. CASE k = "lcp"
    BY <1>1 DEF Good, PeerType, Automaton, Counts, Layers
  <1>2. CASE k = "ipcp"
    BY <1>2 DEF Good, PeerType, Automaton, Counts, Layers
  <1>3. QED BY <1>1, <1>2 DEF Protocols

\* A change of k's restart counter only.
LEMMA RestartsOK ==
  ASSUME NEW p, Good(p), NEW k \in Protocols, NEW n \in Nat, n >= 1
  PROVE  LET q == [p EXCEPT ![k].restarts = n]
         IN Good(q) /\ Layers(q) = Layers(p) /\ q[k].restarts = n
  <1>1. CASE k = "lcp"
    BY <1>1 DEF Good, PeerType, Automaton, Counts, Layers
  <1>2. CASE k = "ipcp"
    BY <1>2 DEF Good, PeerType, Automaton, Counts, Layers
  <1>3. QED BY <1>1, <1>2 DEF Protocols

\* An acknowledged request, in an automaton that is not open.
LEMMA AckSentInOrder ==
  ASSUME NEW a, InOrder(a), NEW k \in Protocols, Admitted(a, k),
         a[k].state # "opened"
  PROVE  LET q == [a EXCEPT ![k].state = "ack-sent"]
         IN InOrder(q) /\ q.role = a.role
  <1> DEFINE q == [a EXCEPT ![k].state = "ack-sent"]
  <1>1. Moved(a, q, k, "ack-sent")
    <2>1. CASE k = "lcp"
      BY <2>1 DEF InOrder, Moved, Good, PeerType, Automaton, Counts, States
    <2>2. CASE k = "ipcp"
      BY <2>2 DEF InOrder, Moved, Good, PeerType, Automaton, Counts, States
    <2>3. QED BY <2>1, <2>2 DEF Protocols
  <1> HIDE DEF q
  <1>2. QED BY <1>1, LeaveInOrder DEF q

\* _recv_1 with a refused option.
LEMMA RejectedInOrder ==
  ASSUME NEW p, InOrder(p), NEW k \in Protocols, NEW id \in Ids,
         NEW bad \in SUBSET Options
  PROVE  LET q == NotAcknowledged(Transmit(p, k, "conf-rej", id, bad), k)
         IN InOrder(q) /\ q.role = p.role
  <1> DEFINE t == Transmit(p, k, "conf-rej", id, bad)
  <1>0. "conf-rej" \in ControlCodes
    BY DEF ControlCodes, Codes
  <1>1. Good(t) /\ Layers(t) = Layers(p)
    BY <1>0, ControlFrameOK DEF InOrder
  <1> HIDE DEF t
  <1>2. InOrder(t) /\ t.role = p.role
    BY <1>1, SameInOrder
  <1>3. QED BY <1>2, NotAcknowledgedInOrder DEF t

\* _recv_1 with an option to be asked for differently.
LEMMA NakkedInOrder ==
  ASSUME NEW p, InOrder(p), NEW k \in Protocols, NEW id \in Ids
  PROVE  LET n == [p EXCEPT ![k].naks = @ + 1]
             q == NotAcknowledged(Transmit(n, k, "conf-nak", id,
                                           {<<"addr", "assigned">>}), k)
         IN /\ InOrder(Fail(n, k)) /\ Fail(n, k).role = p.role
            /\ InOrder(q) /\ q.role = p.role
  <1> DEFINE m == p[k].naks + 1
             n == [p EXCEPT ![k].naks = m]
             t == Transmit(n, k, "conf-nak", id, {<<"addr", "assigned">>})
  <1>1. m \in Nat /\ "conf-nak" \in ControlCodes
    BY DEF InOrder, Good, PeerType, Automaton, Protocols, ControlCodes, Codes
  <1>2. n = [p EXCEPT ![k].naks = @ + 1]
    OBVIOUS
  <1> HIDE DEF m
  <1>3. Good(n) /\ Layers(n) = Layers(p)
    BY <1>1, NaksOK DEF InOrder
  <1> HIDE DEF n
  <1>4. InOrder(n) /\ n.role = p.role
    BY <1>3, SameInOrder
  <1>5. {<<"addr", "assigned">>} \in SUBSET Options
    BY DEF Options, Addresses
  <1>6. Good(t) /\ Layers(t) = Layers(n)
    BY <1>1, <1>3, <1>5, ControlFrameOK
  <1> HIDE DEF t
  <1>7. InOrder(t) /\ t.role = p.role
    BY <1>4, <1>6, SameInOrder
  <1>8. InOrder(Fail(n, k)) /\ Fail(n, k).role = p.role
    BY <1>4, FailInOrder
  <1>9. QED BY <1>2, <1>7, <1>8, NotAcknowledgedInOrder DEF t

\* _recv_1 with nothing to object to, in an automaton that is not open.
LEMMA AcknowledgedInOrder ==
  ASSUME NEW p, InOrder(p), NEW k \in Protocols, Admitted(p, k),
         p[k].state # "opened", NEW id \in Ids, NEW opts \in SUBSET Options
  PROVE  LET a == Transmit(ApplyPeerOptions(p, k, opts), k, "conf-ack",
                           id, opts)
             q == [a EXCEPT ![k].state = "ack-sent"]
         IN /\ InOrder(q) /\ q.role = p.role
            /\ p[k].state = "ack-rcvd" =>
                 InOrder(EnterOpened(a, k)) /\ EnterOpened(a, k).role = p.role
  <1> DEFINE b == ApplyPeerOptions(p, k, opts)
             a == Transmit(b, k, "conf-ack", id, opts)
  <1>0. "conf-ack" \in ControlCodes
    BY DEF ControlCodes, Codes
  <1>1. /\ Good(b) /\ Layers(b) = Layers(p)
        /\ b.lcp = p.lcp /\ b.ipcp = p.ipcp
    BY ApplyPeerOptionsOK DEF InOrder
  <1> HIDE DEF b
  <1>2. /\ Good(a) /\ Layers(a) = Layers(b)
        /\ a.lcp = b.lcp /\ a.ipcp = b.ipcp
    BY <1>0, <1>1, ControlFrameOK
  <1> HIDE DEF a
  <1>3. /\ InOrder(a) /\ a.role = p.role /\ Admitted(a, k)
        /\ a[k].state # "opened"
    BY <1>1, <1>2, SameInOrder
  <1>4. p[k].state = "ack-rcvd" => a[k].restarts >= 1
    BY <1>1, <1>2 DEF InOrder, Good, Counts, Protocols
  <1>5. p[k].state = "ack-rcvd" =>
          InOrder(EnterOpened(a, k)) /\ EnterOpened(a, k).role = p.role
    BY <1>3, <1>4, EnterOpenedInOrder
  <1>6. QED BY <1>3, <1>5, AckSentInOrder DEF a, b

\* _recv_1
LEMMA RecvRequestInOrder ==
  ASSUME NEW r, InOrder(r), NEW k \in Protocols, Admitted(r, k),
         NEW f \in GoodFrame
  PROVE  InOrder(RecvRequest(r, k, f)) /\ RecvRequest(r, k, f).role = r.role
  <1> DEFINE p == Restarted(r, k)
             rejected == {o \in f.opts : Review(p, k, o) = "rej"}
             nakked == {o \in f.opts : Review(p, k, o) = "nak"}
             n == [p EXCEPT ![k].naks = @ + 1]
             a == Transmit(ApplyPeerOptions(p, k, f.opts), k, "conf-ack",
                           f.id, f.opts)
             q1 == NotAcknowledged(Transmit(p, k, "conf-rej", f.id, rejected), k)
             q2 == NotAcknowledged(Transmit(n, k, "conf-nak", f.id,
                                            {<<"addr", "assigned">>}), k)
             q3 == [a EXCEPT ![k].state = "ack-sent"]
             w == RecvRequest(r, k, f)
  <1>1. /\ InOrder(p) /\ p.role = r.role /\ Admitted(p, k)
        /\ p[k].state # "opened"
    BY RestartedInOrder
  <1>2. f.id \in Ids /\ f.opts \in SUBSET Options
    BY DEF GoodFrame, Frame
  <1>3. \/ w = q1 \/ w = Fail(n, k) \/ w = q2 \/ w = q3
        \/ w = EnterOpened(a, k) /\ p[k].state = "ack-rcvd"
    BY DEF RecvRequest, Restarted
  <1>4. rejected \in SUBSET Options
    BY <1>2
  <1> HIDE DEF rejected, nakked, p
  <1>5. InOrder(q1) /\ q1.role = p.role
    BY <1>1, <1>2, <1>4, RejectedInOrder
  <1>6. /\ InOrder(Fail(n, k)) /\ Fail(n, k).role = p.role
        /\ InOrder(q2) /\ q2.role = p.role
    BY <1>1, <1>2, NakkedInOrder
  <1>7. /\ InOrder(q3) /\ q3.role = p.role
        /\ p[k].state = "ack-rcvd" =>
             InOrder(EnterOpened(a, k)) /\ EnterOpened(a, k).role = p.role
    BY <1>1, <1>2, AcknowledgedInOrder
  <1> HIDE DEF q1, q2, q3, n, a, w
  <1>8. InOrder(w) /\ w.role = r.role
    BY <1>1, <1>3, <1>5, <1>6, <1>7
  <1>9. QED BY <1>8 DEF w

\* _recv_2
LEMMA RecvAckInOrder ==
  ASSUME NEW r, InOrder(r), NEW k \in Protocols, Admitted(r, k),
         NEW f \in GoodFrame
  PROVE  InOrder(RecvAck(r, k, f)) /\ RecvAck(r, k, f).role = r.role
  <1> DEFINE h == r.pend_rx \/ HasFraming(f.opts)
             l == [r EXCEPT !.pend_rx = h]
             p == [l EXCEPT ![k].restarts = MaxRestarts]
             q == [p EXCEPT ![k].state = "ack-rcvd", ![k].armed = FALSE]
             w == RecvAck(r, k, f)
  <1>1. \/ w = r \/ w = p
        \/ w = EnterOpened(p, k) /\ r[k].state = "ack-sent"
        \/ w = q /\ r[k].state = "req-sent"
    BY DEF RecvAck, ApplyLocalOptions
  <1>2. h \in BOOLEAN /\ MaxRestarts \in Nat /\ MaxRestarts >= 1
    BY PppAssumption
  <1> HIDE DEF h
  <1>3. Good(l) /\ Layers(l) = Layers(r)
    BY <1>2 DEF InOrder, Good, PeerType, Layers
  <1> HIDE DEF l
  <1>4. Good(p) /\ Layers(p) = Layers(l) /\ p[k].restarts = MaxRestarts
    BY <1>2, <1>3, RestartsOK
  <1> HIDE DEF p
  <1>5. /\ InOrder(p) /\ p.role = r.role /\ p[k].state = r[k].state
        /\ Admitted(p, k)
    BY <1>3, <1>4, SameInOrder
  <1>6. r[k].state = "ack-sent" =>
          InOrder(EnterOpened(p, k)) /\ EnterOpened(p, k).role = p.role
    BY <1>2, <1>4, <1>5, EnterOpenedInOrder
  <1>7. r[k].state = "req-sent" => InOrder(q) /\ q.role = p.role
    <2>1. Moved(p, q, k, "ack-rcvd")
      <3>1. CASE k = "lcp"
        BY <1>2, <1>4, <3>1 DEF Moved, Good, PeerType, Automaton, Counts, States
      <3>2. CASE k = "ipcp"
        BY <1>2, <1>4, <3>2 DEF Moved, Good, PeerType, Automaton, Counts, States
      <3>3. QED BY <3>1, <3>2 DEF Protocols
    <2> HIDE DEF q
    <2>2. QED BY <1>5, <2>1, LeaveInOrder
  <1> HIDE DEF q, w
  <1>8. InOrder(w) /\ w.role = r.role
    BY <1>1, <1>5, <1>6, <1>7
  <1>9. QED BY <1>8 DEF w

\* _resend_after_negotiation
LEMMA ResendInOrder ==
  ASSUME NEW p, InOrder(p), NEW k \in Protocols
  PROVE  InOrder(Resend(p, k)) /\ Resend(p, k).role = p.role
  <1> DEFINE st == IF p[k].state = "ack-rcvd" THEN "req-sent" ELSE p[k].state
             q == [p EXCEPT ![k].restarts = MaxRestarts, ![k].state = st]
             w == SendConfigureRequest(q, k)
  <1>1. w = Resend(p, k)
    BY DEF Resend
  <1>2. /\ MaxRestarts \in Nat /\ MaxRestarts >= 1
        /\ st \in States
        /\ st = p[k].state \/ (p[k].state = "ack-rcvd" /\ st = "req-sent")
    BY PppAssumption
       DEF InOrder, Good, PeerType, Automaton, States, Protocols
  <1> HIDE DEF st
  <1>3. Moved(p, q, k, st) /\ q[k].restarts >= 1
    <2>1. CASE k = "lcp"
      BY <1>2, <2>1 DEF InOrder, Moved, Good, PeerType, Automaton, Counts
    <2>2. CASE k = "ipcp"
      BY <1>2, <2>2 DEF InOrder, Moved, Good, PeerType, Automaton, Counts
    <2>3. QED BY <2>1, <2>2 DEF Protocols
  <1> HIDE DEF q
  <1>4. Layered(q) /\ Good(q) /\ q.role = p.role
    BY <1>2, <1>3 DEF InOrder, Layered, Moved, Protocols
  <1>5. Good(w) /\ Layers(w) = Layers(q)
    BY <1>3, <1>4, SendConfigureRequestOK
  <1> HIDE DEF w
  <1>6. InOrder(q)
    BY <1>4 DEF InOrder
  <1>7. QED BY <1>1, <1>4, <1>5, <1>6, SameInOrder

\* _recv_3
LEMMA RecvNakInOrder ==
  ASSUME NEW p, InOrder(p), NEW k \in Protocols, NEW f \in GoodFrame
  PROVE  InOrder(RecvNak(p, k, f)) /\ RecvNak(p, k, f).role = p.role
  <1> DEFINE a == Value(f.opts, "addr", p.address)
             q == [p EXCEPT !.address = a]
  <1>1. p.address \in Addresses /\ f.opts \in SUBSET Options
    BY DEF InOrder, Good, PeerType, GoodFrame, Frame
  <1>2. a \in Addresses
    BY <1>1, ValueType
  <1>3. RecvNak(p, k, f) = p \/ RecvNak(p, k, f) = Resend(q, k)
    BY DEF RecvNak, AcceptNak
  <1> HIDE DEF a
  <1>4. Good(q) /\ Layers(q) = Layers(p)
    BY <1>2 DEF InOrder, Good, PeerType, Layers
  <1> HIDE DEF q
  <1>5. InOrder(q) /\ q.role = p.role
    BY <1>4, SameInOrder
  <1>6. QED BY <1>3, <1>5, ResendInOrder

\* _recv_4
LEMMA RecvRejectInOrder ==
  ASSUME NEW p, InOrder(p), NEW k \in Protocols, NEW f \in GoodFrame
  PROVE  InOrder(RecvReject(p, k, f)) /\ RecvReject(p, k, f).role = p.role
  <1> DEFINE q == [p EXCEPT !.require_auth = "pap"]
             r == RejectLocalOptions(p, f.opts)
  <1>1. r = p \/ r = Fail(p, "lcp") \/ r = q
    BY DEF RejectLocalOptions
  <1>2. RecvReject(p, k, f) = p \/ RecvReject(p, k, f) = Resend(r, k)
    BY DEF RecvReject
  <1>3. /\ Good(q) /\ q.require_auth = "pap" /\ q.role = p.role
        /\ q.authenticated = p.authenticated /\ q.up = p.up
        /\ q.lcp = p.lcp /\ q.ipcp = p.ipcp
    BY DEF InOrder, Good, PeerType
  <1> HIDE DEF q, r
  <1>4. InOrder(q)
    BY <1>3 DEF InOrder, Layered
  <1>5. InOrder(Fail(p, "lcp")) /\ Fail(p, "lcp").role = p.role
    BY FailInOrder DEF Protocols
  <1>6. InOrder(r) /\ r.role = p.role
    BY <1>1, <1>3, <1>4, <1>5
  <1>7. QED BY <1>2, <1>6, ResendInOrder

\* An automaton that stops.
LEMMA StopsOK ==
  ASSUME NEW p, Good(p), NEW k \in Protocols
  PROVE  Moved(p, [p EXCEPT ![k].state = "closed", ![k].armed = FALSE], k,
               "closed")
  <1>1. CASE k = "lcp"
    BY <1>1 DEF Moved, Good, PeerType, Automaton, Counts, States
  <1>2. CASE k = "ipcp"
    BY <1>2 DEF Moved, Good, PeerType, Automaton, Counts, States
  <1>3. QED BY <1>1, <1>2 DEF Protocols

\* _recv_5
LEMMA RecvTermRequestInOrder ==
  ASSUME NEW p, InOrder(p), NEW k \in Protocols, NEW f \in GoodFrame
  PROVE  InOrder(RecvTermRequest(p, k, f))
         /\ RecvTermRequest(p, k, f).role = p.role
  <1> DEFINE t == Transmit(p, k, "term-ack", f.id, {})
             d == LayerDown(t, k)
             e == IF p[k].state = "opened" THEN d ELSE t
             w == [e EXCEPT ![k].state = "closed", ![k].armed = FALSE]
  <1>1. w = RecvTermRequest(p, k, f)
    BY DEF RecvTermRequest
  <1>2. Good(t) /\ Layers(t) = Layers(p)
    <2>1. /\ f.id \in Ids /\ {} \in SUBSET Options
          /\ "term-ack" \in ControlCodes
      BY DEF GoodFrame, Frame, ControlCodes, Codes
    <2>2. QED BY <2>1, ControlFrameOK DEF InOrder
  <1> HIDE DEF t
  <1>3. InOrder(t) /\ t.role = p.role
    BY <1>2, SameInOrder
  <1>4. /\ Good(d) /\ d.role = t.role /\ d.require_auth = t.require_auth
        /\ d.up = FALSE /\ d[k] = t[k]
        /\ k = "lcp" => d.ipcp.state = "closed" /\ d.authenticated = FALSE
        /\ k = "ipcp" => d.lcp = t.lcp /\ d.authenticated = t.authenticated
    BY <1>3, DownOK DEF InOrder
  <1> HIDE DEF d
  <1>5. Good(e)
    BY <1>3, <1>4 DEF InOrder
  <1> HIDE DEF e
  <1>6. Moved(e, w, k, "closed")
    BY <1>5, StopsOK
  <1> HIDE DEF w
  <1>7. CASE p[k].state = "opened"
    <2>1. e = d
      BY <1>7 DEF e
    <2>2. Layered(w) /\ w.role = p.role
      BY <1>3, <1>4, <1>6, <2>1 DEF Moved, Layered, InOrder, Protocols
    <2>3. QED BY <1>1, <1>6, <2>2 DEF InOrder, Moved
  <1>8. CASE p[k].state # "opened"
    <2>1. e = t
      BY <1>8 DEF e
    <2>2. t[k].state # "opened"
      BY <1>2, <1>8, SameInOrder
    <2>3. QED BY <1>1, <1>3, <1>6, <2>1, <2>2, LeaveInOrder
  <1>9. QED BY <1>7, <1>8

\* _recv_6
LEMMA RecvTermAckInOrder ==
  ASSUME NEW p, InOrder(p), NEW k \in Protocols
  PROVE  InOrder(RecvTermAck(p, k)) /\ RecvTermAck(p, k).role = p.role
  <1> DEFINE q == [p EXCEPT ![k].state = "closed", ![k].armed = FALSE]
  <1>1. CASE p[k].state # "closing"
    BY <1>1 DEF RecvTermAck
  <1>2. CASE p[k].state = "closing"
    <2>1. RecvTermAck(p, k) = q
      BY <1>2 DEF RecvTermAck
    <2>2. Moved(p, q, k, "closed")
      BY StopsOK DEF InOrder
    <2> HIDE DEF q
    <2>3. QED BY <1>2, <2>1, <2>2, LeaveInOrder
  <1>3. QED BY <1>1, <1>2

\* ControlProtocol.feed
LEMMA FeedControlInOrder ==
  ASSUME NEW p, InOrder(p), NEW k \in Protocols, Admitted(p, k),
         NEW f \in GoodFrame, f.code \in ControlCodes
  PROVE  InOrder(FeedControl(p, k, f)) /\ FeedControl(p, k, f).role = p.role
  <1> DEFINE w == FeedControl(p, k, f)
             t == Transmit(p, "lcp", "echo-rep", f.id, {})
             z == [p EXCEPT !.echo_outstanding = 0]
  <1>1. \/ w = p \/ w = t \/ w = z
        \/ w = RecvRequest(p, k, f) \/ w = RecvAck(p, k, f)
        \/ w = RecvNak(p, k, f) \/ w = RecvReject(p, k, f)
        \/ w = RecvTermRequest(p, k, f) \/ w = RecvTermAck(p, k)
    BY DEF FeedControl, ControlCodes, Codes
  <1>2. Good(t) /\ Layers(t) = Layers(p)
    <2>1. /\ f.id \in Ids /\ {} \in SUBSET Options /\ "lcp" \in Protocols
          /\ "echo-rep" \in ControlCodes
      BY DEF GoodFrame, Frame, ControlCodes, Codes, Protocols
    <2>2. QED BY <2>1, ControlFrameOK DEF InOrder
  <1>3. Good(z) /\ Layers(z) = Layers(p)
    BY DEF InOrder, Good, PeerType, Layers
  <1> HIDE DEF w, t, z
  <1>4. InOrder(t) /\ t.role = p.role /\ InOrder(z) /\ z.role = p.role
    BY <1>2, <1>3, SameInOrder
  <1>5. InOrder(w) /\ w.role = p.role
    <2>1. /\ InOrder(RecvRequest(p, k, f)) /\ RecvRequest(p, k, f).role = p.role
          /\ InOrder(RecvAck(p, k, f)) /\ RecvAck(p, k, f).role = p.role
      BY RecvRequestInOrder, RecvAckInOrder
    <2>2. /\ InOrder(RecvNak(p, k, f)) /\ RecvNak(p, k, f).role = p.role
          /\ InOrder(RecvReject(p, k, f)) /\ RecvReject(p, k, f).role = p.role
      BY RecvNakInOrder, RecvRejectInOrder
    <2>3. /\ InOrder(RecvTermRequest(p, k, f))
          /\ RecvTermRequest(p, k, f).role = p.role
          /\ InOrder(RecvTermAck(p, k)) /\ RecvTermAck(p, k).role = p.role
      BY RecvTermRequestInOrder, RecvTermAckInOrder
    <2>4. QED BY <1>1, <1>4, <2>1, <2>2, <2>3
  <1>6. QED BY <1>5 DEF w

-----------------------------------------------------------------------------
(* Authentication and dispatch.                                             *)

\* PapServer.feed, ChapServer.feed and AuthClient.feed
LEMMA FeedAuthInOrder ==
  ASSUME NEW p, InOrder(p), p.lcp.state = "opened",
         NEW f \in GoodFrame, f.code \notin ControlCodes,
         p.auth \in {"pap", "chap"}
  PROVE  InOrder(FeedAuth(p, f)) /\ FeedAuth(p, f).role = p.role
  <1> DEFINE answer == IF GoodPassword THEN "grant" ELSE "deny"
             s == Transmit(p, "pap", answer, f.id, {})
             t == Transmit(p, "chap", answer, f.id, {})
             c == [t EXCEPT !.auth_armed = FALSE, !.auth_done = GoodPassword]
             u == Transmit(p, "chap", "response", f.id, {})
             w == FeedAuth(p, f)
  <1>0. /\ f.id \in Ids /\ GoodPassword \in BOOLEAN /\ p.role \in Peers
        /\ f.code \in {"request", "challenge", "response", "grant", "deny"}
    BY PppAssumption
       DEF GoodFrame, Frame, InOrder, Good, PeerType, ControlCodes
  <1>1. \/ w = p \/ w = u \/ w = OnAuthResult(s, GoodPassword)
        \/ w = OnAuthResult(c, GoodPassword)
        \/ w = OnAuthResult(p, f.code = "grant")
    BY <1>0 DEF FeedAuth, PapServerFeed, ChapServerFeed, AuthClientFeed, Peers
  <1>2. answer \in {"request", "challenge", "response", "grant", "deny"}
    OBVIOUS
  <1> HIDE DEF answer
  <1>3. /\ Good(s) /\ Layers(s) = Layers(p)
        /\ Good(t) /\ Layers(t) = Layers(p)
        /\ Good(u) /\ Layers(u) = Layers(p)
    BY <1>0, <1>2, AuthFrameOK DEF InOrder
  <1> HIDE DEF s, t, u
  <1>4. Good(c) /\ Layers(c) = Layers(t)
    BY <1>0, <1>3 DEF Good, PeerType, Layers
  <1> HIDE DEF c
  <1>5. /\ InOrder(s) /\ s.role = p.role /\ s.lcp.state = "opened"
        /\ InOrder(c) /\ c.role = p.role /\ c.lcp.state = "opened"
        /\ InOrder(u) /\ u.role = p.role
    BY <1>3, <1>4, SameInOrder DEF Protocols, Layers
  <1> HIDE DEF w
  <1>6. InOrder(w) /\ w.role = p.role
    BY <1>0, <1>1, <1>5, OnAuthResultInOrder
  <1>7. QED BY <1>6 DEF w

\* _dispatch and feed
LEMMA FeedPeerInOrder ==
  ASSUME NEW p, InOrder(p), NEW f \in GoodFrame
  PROVE  InOrder(FeedPeer(p, f)) /\ FeedPeer(p, f).role = p.role
  <1> DEFINE w == FeedPeer(p, f)
             j == SendNew(p, "lcp", "proto-rej")
  <1>0. /\ f.proto \in {"lcp", "ipcp", "pap", "chap"}
        /\ f.proto \in {"lcp", "ipcp"} <=> f.code \in ControlCodes
    BY DEF GoodFrame, Frame, Protocols
  <1>1. \/ w = p
        \/ w = j
        \/ w = FeedControl(p, "lcp", f) /\ f.code \in ControlCodes
        \/ /\ w = FeedControl(p, "ipcp", f) /\ f.code \in ControlCodes
           /\ p.lcp.state = "opened"
           /\ p.require_auth = "none" \/ p.authenticated
        \/ /\ w = FeedAuth(p, f) /\ f.code \notin ControlCodes
           /\ p.lcp.state = "opened" /\ p.auth \in {"pap", "chap"}
    BY <1>0 DEF FeedPeer, Dispatch
  <1>2. "lcp" \in Protocols /\ "ipcp" \in Protocols
        /\ "proto-rej" \in ControlCodes
    BY DEF Protocols, ControlCodes, Codes
  <1>3. InOrder(j) /\ j.role = p.role
    <2>1. Good(j) /\ Layers(j) = Layers(p)
      BY <1>2, SendNewOK DEF InOrder
    <2> HIDE DEF j
    <2>2. QED BY <2>1, SameInOrder
  <1>4. Admitted(p, "lcp")
    BY DEF Admitted
  <1>5. p.lcp.state = "opened" /\ (p.require_auth = "none" \/ p.authenticated)
          => Admitted(p, "ipcp")
    BY DEF Admitted, InOrder, Layered
  <1> HIDE DEF w, j
  <1>6. InOrder(w) /\ w.role = p.role
    BY <1>1, <1>2, <1>3, <1>4, <1>5, FeedControlInOrder, FeedAuthInOrder
  <1>7. QED BY <1>6 DEF w

-----------------------------------------------------------------------------
(* The actions.                                                             *)

\* The inductive invariant: both peers are in order and know their role.
PeersInOrder ==
  /\ peer = [e \in Peers |-> peer[e]]
  /\ \A e \in Peers : InOrder(peer[e]) /\ peer[e].role = e
  /\ faults \in [lost : Nat, resets : Nat, stops : Nat]

\* start
LEMMA StartPeerInOrder ==
  ASSUME NEW p, InOrder(p)
  PROVE  InOrder(StartPeer(p)) /\ StartPeer(p).role = p.role
  <1> DEFINE q == [p EXCEPT !.started = TRUE]
  <1>1. Good(q) /\ Layers(q) = Layers(p)
    BY DEF InOrder, Good, PeerType, Layers
  <1>2. StartPeer(p) = p \/ StartPeer(p) = OpenLcp(q)
    BY DEF StartPeer
  <1> HIDE DEF q
  <1>3. InOrder(q) /\ q.role = p.role
    BY <1>1, SameInOrder
  <1>4. QED BY <1>2, <1>3, OpenLcpInOrder

\* ControlProtocol.tick
LEMMA ExpireInOrder ==
  ASSUME NEW r, InOrder(r), NEW k \in Protocols, r[k].armed
  PROVE  InOrder(Expire(r, k)) /\ Expire(r, k).role = r.role
  <1> DEFINE n == r[k].restarts - 1
             p == [r EXCEPT ![k].restarts = n]
             z == [p EXCEPT ![k].armed = FALSE, ![k].state = "closed"]
             w == Expire(r, k)
  <1>1. n \in Nat
    BY DEF InOrder, Good, PeerType, Automaton, Counts, Protocols
  <1>2. /\ p[k].restarts = n /\ p[k].state = r[k].state
    BY DEF InOrder, Good, PeerType, Automaton, Protocols
  <1>3. \/ /\ n = 0
           /\ (w = z /\ r[k].state = "closing") \/ w = Fail(p, k)
        \/ /\ n # 0
           /\ \/ w = p \/ w = SendNew(p, k, "term-req")
              \/ w = SendConfigureRequest(p, k)
    BY <1>2 DEF Expire
  <1> DEFINE q == [p EXCEPT ![k].state = "closed", ![k].armed = FALSE,
                            ![k].failed = TRUE]
             t == SendNew(p, k, "term-req")
             c == SendConfigureRequest(p, k)
  <1>4. Fail(p, k) = IF p[k].state = "opened" THEN LayerDown(q, k) ELSE q
    BY DEF Fail
  <1> HIDE DEF n, w
  <1>5. CASE n # 0
    <2>1. Good(p) /\ Layers(p) = Layers(r)
      BY <1>1, <1>5, RestartsOK DEF InOrder
    <2> HIDE DEF p
    <2>2. "term-req" \in ControlCodes /\ n >= 1
      BY <1>1, <1>5 DEF ControlCodes, Codes
    <2>3. Good(t) /\ Layers(t) = Layers(p)
      BY <2>1, <2>2, SendNewOK
    <2>4. Good(c) /\ Layers(c) = Layers(p)
      BY <1>2, <2>1, <2>2, SendConfigureRequestOK
    <2> HIDE DEF t, c
    <2>5. /\ InOrder(p) /\ p.role = r.role /\ InOrder(t) /\ t.role = r.role
          /\ InOrder(c) /\ c.role = r.role
      BY <2>1, <2>3, <2>4, SameInOrder
    <2>6. w = p \/ w = t \/ w = c
      BY <1>3, <1>5 DEF t, c
    <2>7. QED BY <2>5, <2>6 DEF w
  <1>6. CASE n = 0
    <2>a. /\ p \in PeerType /\ p.tx \in Seq(GoodFrame)
          /\ p.auth_armed => p.auth_restarts >= 1
          /\ Layers(p) = Layers(r)
          /\ k = "lcp" => Counts(p.ipcp)
          /\ k = "ipcp" => Counts(p.lcp)
      <3>1. CASE k = "lcp"
        BY <1>1, <3>1 DEF InOrder, Good, PeerType, Automaton, Layers
      <3>2. CASE k = "ipcp"
        BY <1>1, <3>2 DEF InOrder, Good, PeerType, Automaton, Layers
      <3>3. QED BY <3>1, <3>2 DEF Protocols
    <2> HIDE DEF p
    <2>b. Moved(p, z, k, "closed")
      <3>1. CASE k = "lcp"
        BY <2>a, <3>1 DEF Moved, Good, PeerType, Automaton, Counts, States
      <3>2. CASE k = "ipcp"
        BY <2>a, <3>2 DEF Moved, Good, PeerType, Automaton, Counts, States
      <3>3. QED BY <3>1, <3>2 DEF Protocols
    <2>c. Moved(p, q, k, "closed")
      <3>1. CASE k = "lcp"
        BY <2>a, <3>1 DEF Moved, Good, PeerType, Automaton, Counts, States
      <3>2. CASE k = "ipcp"
        BY <2>a, <3>2 DEF Moved, Good, PeerType, Automaton, Counts, States
      <3>3. QED BY <3>1, <3>2 DEF Protocols
    <2> HIDE DEF z, q
    <2>1. Moved(r, z, k, "closed") /\ Moved(r, q, k, "closed")
      BY <2>a, <2>b, <2>c DEF Moved, Layers
    <2>2. /\ r[k].state = "closing" => InOrder(z) /\ z.role = r.role
          /\ InOrder(LayerDown(q, k)) /\ LayerDown(q, k).role = r.role
          /\ r[k].state # "opened" => InOrder(q) /\ q.role = r.role
      BY <2>1, LeaveInOrder
    <2>3. (w = z /\ r[k].state = "closing") \/ w = Fail(p, k)
      BY <1>3, <1>6
    <2>4. QED BY <1>2, <1>4, <2>2, <2>3 DEF w
  <1>7. QED BY <1>5, <1>6

\* A step of one peer that keeps it in order, the other's as it was.
LEMMA OnePeer ==
  ASSUME PeersInOrder, NEW e \in Peers, NEW q, InOrder(q), q.role = e,
         peer' = [peer EXCEPT ![e] = q],
         faults' \in [lost : Nat, resets : Nat, stops : Nat]
  PROVE  PeersInOrder'
  BY DEF PeersInOrder

\* A peer whose queue is shortened or emptied.
LEMMA QueueCutInOrder ==
  ASSUME NEW p, InOrder(p)
  PROVE  /\ LET q == [p EXCEPT !.tx = <<>>]
            IN InOrder(q) /\ q.role = p.role
         /\ p.tx # <<>> =>
              LET q == [p EXCEPT !.tx = Tail(@)]
              IN Head(p.tx) \in GoodFrame /\ InOrder(q) /\ q.role = p.role
  <1>1. ASSUME NEW t \in Seq(GoodFrame), t \in Seq(Frame)
        PROVE  LET q == [p EXCEPT !.tx = t]
               IN InOrder(q) /\ q.role = p.role
    <2> DEFINE q == [p EXCEPT !.tx = t]
    <2>1. Good(q) /\ Layers(q) = Layers(p)
      BY <1>1 DEF InOrder, Good, PeerType, Layers
    <2> HIDE DEF q
    <2>2. InOrder(q) /\ q.role = p.role
      BY <2>1, SameInOrder
    <2>3. QED BY <2>2 DEF q
  <1>2. <<>> \in Seq(GoodFrame) /\ <<>> \in Seq(Frame)
    OBVIOUS
  <1>3. ASSUME p.tx # <<>>
        PROVE  /\ Head(p.tx) \in GoodFrame /\ Tail(p.tx) \in Seq(GoodFrame)
               /\ Tail(p.tx) \in Seq(Frame)
    <2>1. p.tx \in Seq(GoodFrame) /\ p.tx \in Seq(Frame)
      BY DEF InOrder, Good, PeerType
    <2>2. QED BY <1>3, <2>1
  <1>4. QED BY <1>1, <1>2, <1>3

\* Stop
LEMMA StopKeeps ==
  ASSUME PeersInOrder, NEW e \in Peers, Stop(e)
  PROVE  PeersInOrder'
  <1> DEFINE p == peer[e]
             i == IF p.ipcp.state = "opened" THEN Close(p, "ipcp") ELSE p
             q == Close(i, "lcp")
  <1>1. "lcp" \in Protocols /\ "ipcp" \in Protocols
    BY DEF Protocols
  <1>2. InOrder(p) /\ p.role = e
    BY DEF PeersInOrder
  <1>3. peer' = [peer EXCEPT ![e] = q]
    BY DEF Stop
  <1> HIDE DEF p
  <1>4. InOrder(i) /\ i.role = e
    BY <1>1, <1>2, CloseInOrder
  <1> HIDE DEF i
  <1>5. InOrder(q) /\ q.role = e
    BY <1>1, <1>4, CloseInOrder
  <1> HIDE DEF q
  <1>6. faults' \in [lost : Nat, resets : Nat, stops : Nat]
    BY DEF PeersInOrder, Stop
  <1>7. QED BY <1>3, <1>5, <1>6, OnePeer

\* Feed
LEMMA FeedKeeps ==
  ASSUME PeersInOrder, NEW e \in Peers, Feed(e)
  PROVE  PeersInOrder'
  <1> DEFINE o == Other(e)
             p == peer[e]
             s == peer[o]
             q == FeedPeer(StartPeer(p), Head(s.tx))
             c == [s EXCEPT !.tx = Tail(@)]
  <1>1. o \in Peers /\ o # e /\ \A d \in Peers : d = e \/ d = o
    BY DEF Other, Peers
  <1>2. InOrder(p) /\ p.role = e /\ InOrder(s) /\ s.role = o
    BY <1>1 DEF PeersInOrder
  <1>3. s.tx # <<>>
    BY DEF Feed
  <1>4. peer' = [d \in Peers |-> IF d = e THEN q
                                 ELSE [peer[d] EXCEPT !.tx = Tail(@)]]
    BY DEF Feed
  <1>5. UNCHANGED faults
    BY DEF Feed
  <1>6. peer'[e] = q /\ peer'[o] = c
    BY <1>1, <1>4
  <1> HIDE DEF o, p, s
  <1>7. Head(s.tx) \in GoodFrame /\ InOrder(c) /\ c.role = o
    BY <1>2, <1>3, QueueCutInOrder
  <1>8. InOrder(StartPeer(p)) /\ StartPeer(p).role = e
    BY <1>2, StartPeerInOrder
  <1>9. InOrder(q) /\ q.role = e
    BY <1>7, <1>8, FeedPeerInOrder
  <1>10. peer' = [d \in Peers |-> peer'[d]]
    BY <1>4
  <1> HIDE DEF q, c
  <1>11. QED BY <1>1, <1>5, <1>6, <1>7, <1>9, <1>10 DEF PeersInOrder

\* AuthTick
LEMMA AuthTickKeeps ==
  ASSUME PeersInOrder, NEW e \in Peers, AuthTick(e)
  PROVE  PeersInOrder'
  <1> DEFINE n == peer[e].auth_restarts - 1
             p == [peer[e] EXCEPT !.auth_restarts = n]
             d == [p EXCEPT !.auth_armed = FALSE]
             q == IF n = 0 THEN OnAuthResult(d, FALSE) ELSE SendChallenge(p)
  <1>1. InOrder(peer[e]) /\ peer[e].role = e
    BY DEF PeersInOrder
  <1>2. /\ p.auth_armed /\ p.auth_armed = peer[e].auth_armed
        /\ p.auth_restarts = n /\ p.auth = "chap"
        /\ p.auth = peer[e].auth
    BY <1>1 DEF AuthTick, InOrder, Good, PeerType
  <1>3. n \in Nat
    BY <1>1, <1>2 DEF InOrder, Good, PeerType
  <1>4. peer' = [peer EXCEPT ![e] = q] /\ faults' = faults
    BY <1>2 DEF AuthTick
  <1> HIDE DEF n
  <1>5. CASE n = 0
    <2>1. Good(d) /\ Layers(d) = Layers(peer[e])
      BY <1>1, <1>3 DEF InOrder, Good, PeerType, Layers
    <2> HIDE DEF d
    <2>2. InOrder(d) /\ d.role = e
      BY <1>1, <2>1, SameInOrder
    <2>3. InOrder(OnAuthResult(d, FALSE)) /\ OnAuthResult(d, FALSE).role = e
      BY <2>2, OnAuthResultInOrder
    <2>4. q = OnAuthResult(d, FALSE)
      BY <1>5
    <2> HIDE DEF q
    <2>5. QED BY <1>4, <2>3, <2>4, OnePeer DEF PeersInOrder
  <1>6. CASE n # 0
    <2>1. Good(p) /\ Layers(p) = Layers(peer[e]) /\ p.auth_restarts >= 1
      BY <1>1, <1>3, <1>6 DEF InOrder, Good, PeerType, Layers
    <2>2. q = SendChallenge(p)
      BY <1>6
    <2> HIDE DEF p, q
    <2>3. Good(q) /\ Layers(q) = Layers(peer[e])
      BY <2>1, <2>2, SendChallengeOK
    <2>4. InOrder(q) /\ q.role = e
      BY <1>1, <2>3, SameInOrder
    <2>5. QED BY <1>4, <2>4, OnePeer DEF PeersInOrder
  <1>7. QED BY <1>5, <1>6

\* EchoTick
LEMMA EchoTickKeeps ==
  ASSUME PeersInOrder, NEW e \in Peers, EchoTick(e)
  PROVE  PeersInOrder'
  <1> DEFINE p == peer[e]
             t == SendNew(p, "lcp", "echo-req")
             u == [t EXCEPT !.echo_outstanding = @ + 1]
             q == IF p.echo_outstanding >= EchoFailures THEN Fail(p, "lcp")
                  ELSE u
  <1>1. InOrder(p) /\ p.role = e
    BY DEF PeersInOrder
  <1>2. peer' = [peer EXCEPT ![e] = q] /\ faults' = faults
    BY DEF EchoTick
  <1> HIDE DEF p
  <1>3. "lcp" \in Protocols /\ "echo-req" \in ControlCodes
    BY DEF Protocols, ControlCodes, Codes
  <1>4. Good(t) /\ Layers(t) = Layers(p)
    BY <1>1, <1>3, SendNewOK DEF InOrder
  <1> HIDE DEF t
  <1>5. Good(u) /\ Layers(u) = Layers(t)
    BY <1>4 DEF Good, PeerType, Layers
  <1> HIDE DEF u
  <1>6. InOrder(u) /\ u.role = e
    BY <1>1, <1>4, <1>5, SameInOrder
  <1>7. InOrder(Fail(p, "lcp")) /\ Fail(p, "lcp").role = e
    BY <1>1, <1>3, FailInOrder
  <1>8. InOrder(q) /\ q.role = e
    BY <1>6, <1>7
  <1> HIDE DEF q
  <1>9. QED BY <1>2, <1>8, OnePeer DEF PeersInOrder

\* ControlTick
LEMMA ControlTickKeeps ==
  ASSUME PeersInOrder, NEW e \in Peers, NEW k \in Protocols, ControlTick(e, k)
  PROVE  PeersInOrder'
  <1> DEFINE q == Expire(peer[e], k)
  <1>1. InOrder(peer[e]) /\ peer[e].role = e /\ peer[e][k].armed
    BY DEF PeersInOrder, ControlTick
  <1>2. peer' = [peer EXCEPT ![e] = q] /\ faults' = faults
    BY DEF ControlTick
  <1>3. InOrder(q) /\ q.role = e
    BY <1>1, ExpireInOrder
  <1> HIDE DEF q
  <1>4. QED BY <1>2, <1>3, OnePeer DEF PeersInOrder

\* Start
LEMMA StartKeeps ==
  ASSUME PeersInOrder, NEW e \in Peers, Start(e)
  PROVE  PeersInOrder'
  <1> DEFINE q == StartPeer(peer[e])
  <1>1. InOrder(peer[e]) /\ peer[e].role = e
    BY DEF PeersInOrder
  <1>2. peer' = [peer EXCEPT ![e] = q] /\ faults' = faults
    BY DEF Start
  <1>3. InOrder(q) /\ q.role = e
    BY <1>1, StartPeerInOrder
  <1> HIDE DEF q
  <1>4. QED BY <1>2, <1>3, OnePeer DEF PeersInOrder

\* Lose
LEMMA LoseKeeps ==
  ASSUME PeersInOrder, NEW e \in Peers, Lose(e)
  PROVE  PeersInOrder'
  <1> DEFINE q == [peer[e] EXCEPT !.tx = Tail(@)]
  <1>1. InOrder(peer[e]) /\ peer[e].role = e /\ peer[e].tx # <<>>
    BY DEF PeersInOrder, Lose
  <1>2. peer' = [peer EXCEPT ![e] = q]
    BY DEF Lose
  <1>3. faults' \in [lost : Nat, resets : Nat, stops : Nat]
    BY DEF PeersInOrder, Lose
  <1>4. InOrder(q) /\ q.role = e
    BY <1>1, QueueCutInOrder
  <1> HIDE DEF q
  <1>5. QED BY <1>2, <1>3, <1>4, OnePeer

\* LinkReset
LEMMA LinkResetKeeps ==
  ASSUME PeersInOrder, LinkReset
  PROVE  PeersInOrder'
  <1>1. ASSUME NEW e \in Peers
        PROVE  InOrder(peer'[e]) /\ peer'[e].role = e
    <2>1. InOrder(peer[e]) /\ peer[e].role = e
      BY DEF PeersInOrder
    <2>2. peer'[e] = [peer[e] EXCEPT !.tx = <<>>]
      BY DEF LinkReset
    <2>3. QED BY <2>1, <2>2, QueueCutInOrder
  <1>2. peer' = [e \in Peers |-> peer'[e]]
    BY DEF LinkReset
  <1>3. faults' \in [lost : Nat, resets : Nat, stops : Nat]
    BY DEF PeersInOrder, LinkReset
  <1>4. QED BY <1>1, <1>2, <1>3 DEF PeersInOrder

\* Two peers that have not started are in order.
LEMMA InitInOrder == Init => PeersInOrder
  <1> SUFFICES ASSUME Init PROVE PeersInOrder
    OBVIOUS
  <1>0. NewAutomaton \in Automaton /\ Counts(NewAutomaton)
        /\ NewAutomaton.state = "closed"
    BY PppAssumption DEF NewAutomaton, Automaton, Counts, States, Ids
  <1>1. ASSUME NEW e \in Peers
        PROVE  InOrder(peer[e]) /\ peer[e].role = e
    <2> DEFINE p == NewPeer(e)
    <2>1. p \in PeerType /\ p.tx = <<>>
      BY <1>0, PppAssumption DEF NewPeer, PeerType, Addresses, Peers
    <2>2. /\ p.role = e /\ p.lcp = NewAutomaton /\ p.ipcp = NewAutomaton
          /\ p.up = FALSE /\ p.authenticated = FALSE /\ p.auth_armed = FALSE
      BY DEF NewPeer
    <2>3. peer[e] = p
      BY DEF Init
    <2> HIDE DEF p
    <2>4. <<>> \in Seq(GoodFrame)
      OBVIOUS
    <2>5. Good(p)
      BY <1>0, <2>1, <2>2, <2>4 DEF Good
    <2>6. Layered(p)
      BY <1>0, <2>2 DEF Layered
    <2>7. QED BY <2>2, <2>3, <2>5, <2>6 DEF InOrder
  <1>2. QED BY <1>1 DEF PeersInOrder, Init

\* Every step keeps both peers in order.
LEMMA NextInOrder == PeersInOrder /\ [Next]_vars => PeersInOrder'
  <1> SUFFICES ASSUME PeersInOrder, [Next]_vars PROVE PeersInOrder'
    OBVIOUS
  <1>1. CASE UNCHANGED vars
    BY <1>1 DEF vars, PeersInOrder
  <1>2. CASE Next
    BY <1>2, StartKeeps, StopKeeps, FeedKeeps, AuthTickKeeps, EchoTickKeeps,
       LoseKeeps, ControlTickKeeps, LinkResetKeeps DEF Next
  <1>3. QED BY <1>1, <1>2

\* Both peers are in order in every reachable state.
THEOREM AlwaysInOrder == Spec => []PeersInOrder
  BY InitInOrder, NextInOrder, PTL DEF Spec

\* Every attribute of a PppPeer keeps its type and no restart counter goes
\* below zero, whatever is lost, retransmitted, refused or cleared.
THEOREM TypeCorrect == Spec => []TypeOK
  <1>1. PeersInOrder => TypeOK
    BY DEF PeersInOrder, InOrder, Good, TypeOK
  <1>2. QED BY <1>1, AlwaysInOrder, PTL

\* The gate of _dispatch and on_lcp_down suffice: the server's IPCP is closed
\* whenever the caller is not authenticated, in whatever order frames, timers
\* and losses come.
THEOREM ServerAuthenticates == Spec => []NoAddressBeforeAuth
  <1>1. PeersInOrder => NoAddressBeforeAuth
    BY DEF PeersInOrder, InOrder, Layered, NoAddressBeforeAuth, Peers
  <1>2. QED BY <1>1, AlwaysInOrder, PTL

\* The part of UpMeansAuthenticated that does not depend on how soon an
\* identifier comes round: an end that is up has LCP and IPCP open, and a
\* server that is up knows its caller.
UpMeansNested ==
  /\ \A e \in Peers : peer[e].up => /\ peer[e].lcp.state = "opened"
                                    /\ peer[e].ipcp.state = "opened"
  /\ peer["server"].up => peer["server"].authenticated

\* However the layers came up and went down, IP flows only through a link both
\* of whose layers are open, and at the server only for a caller it knows.
THEOREM UpIsNested == Spec => []UpMeansNested
  <1>1. PeersInOrder => UpMeansNested
    BY DEF PeersInOrder, InOrder, Layered, UpMeansNested, Peers
  <1>2. QED BY <1>1, AlwaysInOrder, PTL
=============================================================================

-------------------------------- MODULE Lapm --------------------------------
(***************************************************************************)
(* The V.42 LAPM data link of tools/v42_lapm.py: two LapmEndpoint objects, *)
(* the originator and the answerer of one call, joined by the bit pipe of  *)
(* the emulated modem.                                                     *)
(*                                                                         *)
(* The state of an endpoint is one record, whose fields are the attributes *)
(* of the Python object; every method of the class is an operator from     *)
(* such a record to the record the method leaves behind, so a handler is   *)
(* the composition of the same helper calls as in the source.  Entry       *)
(* points (send, take, feed, line_disturbed, line_restored) are actions.   *)
(*                                                                         *)
(* HDLC framing is abstracted to its effect: a frame arrives whole or not  *)
(* at all, and frames of one direction arrive in order.  Field tx is the   *)
(* endpoint's transmit queue together with what is already on the line:    *)
(* its head is the next frame the peer's decoder will complete.            *)
(*                                                                         *)
(* Application octets are numbered 1, 2, 3, ... in the order of send(), so *)
(* that loss, duplication and reordering are visible in rx_data.           *)
(***************************************************************************)
EXTENDS Integers, Sequences

CONSTANTS
  Originator, Answerer,  \* the two endpoints
  Mod,                   \* the sequence-number modulus, 128 in the code
  Window,                \* the constructor's window, per endpoint (k)
  N401,                  \* the constructor's n401, per endpoint
  Compression,           \* whether the constructor asked for a compressor
  PollAfter,             \* poll_after, in take() calls
  RetransmitAfter,       \* retransmit_after, in take() calls
  N400,                  \* n400
  Reestablish,           \* reestablish
  InactivityAfter        \* inactivity_after; 0 stands for None

CONSTANTS
  MaxSend,               \* bound: octets the application sends, per endpoint
  MaxLoss,               \* bound: frames the line destroys
  MaxDisturb,            \* bound: calls of line_disturbed
  MaxBusy,               \* bound: RNR frames from a foreign peer
  MaxQueue,              \* bound: take() waits while tx is this long
  PromptLine             \* T401 outlasts a round trip (see TakeGuard)

Endpoints == {Originator, Answerer}

ASSUME EndpointsAssumption == Originator # Answerer

ASSUME SequenceAssumption ==
  /\ Mod \in Nat \ {0}
  /\ Window \in [Endpoints -> 1 .. (Mod - 1)]
  /\ N401 \in [Endpoints -> Nat \ {0}]

ASSUME TimerAssumption ==
  /\ PollAfter \in Nat \ {0}
  /\ RetransmitAfter \in Nat /\ RetransmitAfter > PollAfter
  /\ N400 \in Nat \ {0}
  /\ Reestablish \in Nat
  /\ InactivityAfter \in Nat

ASSUME BoundAssumption ==
  /\ Compression \in [Endpoints -> BOOLEAN]
  /\ MaxSend \in [Endpoints -> Nat]
  /\ MaxLoss \in Nat /\ MaxDisturb \in Nat /\ MaxBusy \in Nat
  /\ MaxQueue \in Nat
  /\ PromptLine \in BOOLEAN

VARIABLES
  ep,       \* [Endpoints -> endpoint record]
  faults    \* what the environment has done: frames lost, disturbances, RNRs

vars == <<ep, faults>>

-----------------------------------------------------------------------------
(* Frames.  U frames carry a type only; the P/F bit of SABME, DISC and UA   *)
(* decides nothing in the code.                                             *)

SeqNo == 0 .. (Mod - 1)
Octets == Seq(Nat)
Garbage == 0      \* an octet that came out of the wrong decoder

UFrame == [type : {"SABME", "UA", "DISC", "FRMR"}]
XidFrame == [type : {"XID"}, n401 : Nat \ {0}, k : Nat \ {0}, comp : BOOLEAN]
SFrame == [type : {"RR", "RNR", "REJ"}, nr : SeqNo, pf : BOOLEAN, cmd : BOOLEAN]
IFrame == [type : {"I"}, ns : SeqNo, nr : SeqNo, comp : BOOLEAN, base : Nat,
           data : Octets]
Frame == UFrame \cup XidFrame \cup SFrame \cup IFrame

U(t) == [type |-> t]
Supervisory(t, s, pf, cmd) == [type |-> t, nr |-> s.vr, pf |-> pf, cmd |-> cmd]

Peer(e) == IF e = Originator THEN Answerer ELSE Originator

Smaller(a, b) == IF a <= b THEN a ELSE b

\* Add and Sub are the code's "& 0x7F" arithmetic.
AddNoWrap(i, n) == i + n   \* mutation of Add: the mask forgotten
Add(i, n) == (i + n) % Mod
Sub(i, j) == (i - j) % Mod

-----------------------------------------------------------------------------
(* Methods of LapmEndpoint.  The dictionary unacked is two fields: held, its *)
(* keys, and unacked, the octets under each key (<<>> where there is none).  *)

Queue(s, f) == [s EXCEPT !.tx = Append(@, f)]

Outstanding(s) == Sub(s.vs, s.va)

\* _fill_window: compress what is pending, then emit as many I frames of at
\* most n401 octets as the window and the data allow.
Source(s) == IF s.codec THEN s.tx_transfer \o s.tx_stream ELSE s.tx_stream

Fitting(s) ==
  LET len == Len(Source(s))
      room == s.window - Outstanding(s)
  IN IF room <= 0 \/ len = 0 THEN 0
     ELSE Smaller(room, ((len - 1) \div s.n401) + 1)

Chunk(s, i) ==
  SubSeq(Source(s), (i - 1) * s.n401 + 1, Smaller(i * s.n401, Len(Source(s))))

\* What a compressor makes of an octet depends on every octet it has taken
\* since it was reset, and those are a run of the stream: tx_base is the first
\* of them, 0 while there is none.
Base(s) ==
  IF s.codec /\ s.tx_base = 0 /\ s.tx_stream # <<>> THEN s.tx_stream[1]
  ELSE s.tx_base

InfoFrame(s, ns, data) ==
  [type |-> "I", ns |-> ns, nr |-> s.vr, comp |-> s.codec, base |-> Base(s),
   data |-> data]

FillWindow(s) ==
  LET n == Fitting(s)
      rest == SubSeq(Source(s), Smaller(n * s.n401, Len(Source(s))) + 1,
                     Len(Source(s)))
      fresh == {Add(s.vs, i - 1) : i \in 1 .. n}
  IN IF ~ s.connected \/ s.peer_busy THEN s
     ELSE [s EXCEPT
       !.tx_stream = IF s.codec THEN <<>> ELSE rest,
       !.tx_transfer = IF s.codec THEN rest ELSE @,
       !.tx_base = Base(s),
       !.held = @ \cup fresh,
       !.unacked = [q \in SeqNo |->
          IF q \in fresh THEN Chunk(s, Sub(q, s.vs) + 1) ELSE s.unacked[q]],
       !.tx = @ \o [i \in 1 .. n |->
          InfoFrame(s, Add(s.vs, i - 1), Chunk(s, i))],
       !.vs = Add(@, n)]

\* _ack: the test that rejects an impossible N(R), and the release.  acked is
\* history: the octets the application may believe the peer has.
AckValid(s, nr) == Sub(nr, s.va) <= Outstanding(s)

\* Mutation of Released: the frame N(R) names is released too.
ReleasedOneMore(s, nr) == {q \in s.held : Sub(q, s.va) <= Sub(nr, s.va)}

Released(s, nr) == {q \in s.held : Sub(q, s.va) < Sub(nr, s.va)}

\* The dictionary unacked with only the keys in D left.
Keep(s, D) == [q \in SeqNo |-> IF q \in D THEN s.unacked[q] ELSE <<>>]

Ack(s, nr) ==
  LET gone == Released(s, nr)
  IN [s EXCEPT
       !.va = nr,
       !.held = @ \ gone,
       !.unacked = Keep(s, s.held \ gone),
       !.since_ack = IF gone # {} THEN 0 ELSE @,
       !.retries = IF gone # {} THEN 0 ELSE @,
       !.acked = @ \cup UNION {{s.unacked[q][i] : i \in 1 .. Len(s.unacked[q])}
                               : q \in gone}]

\* _retransmit_from: go back N.  The unbroken run of held frames that starts
\* at nr is sent again, numbered as before, with the current N(R).
RunLength(s, nr) ==
  CHOOSE n \in 0 .. (Mod - 1) :
    /\ \A i \in 0 .. (n - 1) : Add(nr, i) \in s.held
    /\ Add(nr, n) \notin s.held

\* Mutation of RetransmitFrom: V(S) is rewound and left there.
RetransmitNoAdvance(s, nr) ==
  LET n == RunLength(s, nr)
  IN [s EXCEPT
       !.va = nr, !.vs = nr, !.since_ack = 0,
       !.tx = @ \o [i \in 1 .. n |->
          InfoFrame(s, Add(nr, i - 1), s.unacked[Add(nr, i - 1)])]]

RetransmitFrom(s, nr) ==
  LET n == RunLength(s, nr)
      run == {Add(nr, i - 1) : i \in 1 .. n}
  IN [s EXCEPT
       !.va = nr,
       !.vs = Add(nr, n),
       !.held = run,
       !.unacked = Keep(s, run),
       !.tx = @ \o [i \in 1 .. n |->
          InfoFrame(s, Add(nr, i - 1), s.unacked[Add(nr, i - 1)])],
       !.since_ack = 0]

\* _resume
Resume(s) == [s EXCEPT !.since_ack = 0, !.establish_ticks = 0,
                       !.inactivity = 0, !.retries = 0]

\* _reset_transmit
NoFrames == [q \in SeqNo |-> <<>>]

ResetTransmit(s) ==
  [s EXCEPT !.vs = 0, !.va = 0, !.held = {}, !.unacked = NoFrames,
            !.peer_busy = FALSE, !.since_ack = 0, !.retries = 0, !.tx_transfer = <<>>]

\* Mutation of Establish: the decompressor keeps the old link's dictionary.
EstablishKeepsDictionary(s) ==
  [ResetTransmit(s) EXCEPT
     !.connected = TRUE, !.awaiting_ua = FALSE, !.vr = 0, !.inactivity = 0,
     !.establish_ticks = 0, !.failed = FALSE, !.reestablish_left = Reestablish,
     !.tx_base = 0]

\* _establish, which resets both codecs.  The generation counter is left out:
\* nothing in LAPM reads it.
Establish(s) ==
  [ResetTransmit(s) EXCEPT
     !.connected = TRUE, !.awaiting_ua = FALSE, !.vr = 0, !.inactivity = 0,
     !.establish_ticks = 0, !.failed = FALSE, !.reestablish_left = Reestablish,
     !.tx_base = 0, !.rx_dict = <<>>]

\* _disconnect
Disconnect(s) ==
  LET t == IF s.connected THEN Queue(s, U("DISC")) ELSE s
  IN IF s.failed THEN s
     ELSE [ResetTransmit(t) EXCEPT !.connected = FALSE, !.awaiting_ua = FALSE,
                                   !.tx_stream = <<>>, !.failed = TRUE]

\* _link_failure
LinkFailure(s) ==
  IF s.reestablish_left <= 0 \/ ~ s.connected THEN Disconnect(s)
  ELSE Queue([ResetTransmit(s) EXCEPT
                !.reestablish_left = @ - 1, !.connected = FALSE,
                !.tx_stream = <<>>, !.awaiting_ua = TRUE,
                !.establish_ticks = 0],
             U("SABME"))

\* _send_frmr
SendFrmr(s) == Disconnect(Queue(s, U("FRMR")))

-----------------------------------------------------------------------------
(* feed: one good frame has come out of the HDLC decoder of endpoint e.     *)

\* Mutation of HandleXid: the originator ignores the XID response.
HandleXidAnswererOnly(e, s, f) ==
  LET t == [s EXCEPT !.n401 = Smaller(@, f.n401), !.window = Smaller(@, f.k),
                     !.codec = Compression[e] /\ f.comp, !.tx_transfer = <<>>,
                     !.tx_base = 0, !.rx_dict = <<>>]
  IN IF e = Originator THEN s
     ELSE Queue(t, [type |-> "XID", n401 |-> t.n401, k |-> t.window,
                    comp |-> t.codec])

\* XID: both ends settle on the smaller values and, if both asked for it,
\* install the codecs; only the answerer responds.
HandleXid(e, s, f) ==
  LET t == [s EXCEPT !.n401 = Smaller(@, f.n401), !.window = Smaller(@, f.k),
                     !.codec = Compression[e] /\ f.comp, !.tx_transfer = <<>>,
                     !.tx_base = 0, !.rx_dict = <<>>]
  IN IF e = Originator THEN t
     ELSE Queue(t, [type |-> "XID", n401 |-> t.n401, k |-> t.window,
                    comp |-> t.codec])

\* The field is in the coding this end reads and, if it is compressed, the
\* decompressor's dictionary was built from what the compressor's was.
Tuned(s, f) ==
  /\ s.codec = f.comp
  /\ s.codec => s.rx_dict = [i \in 1 .. (f.data[1] - f.base) |-> f.base + i - 1]

\* What the frame's octets are to this end: a field read without its codec,
\* or with the wrong dictionary, is noise (the worst it can be).
Decode(s, f) ==
  IF Tuned(s, f) THEN f.data ELSE [i \in 1 .. Len(f.data) |-> Garbage]

\* Mutation of HandleI: every field N401 allows is acknowledged, in sequence
\* or not.
HandleIAnyOrder(s, f, cerror) ==
  LET t == Ack(s, f.nr)
      u == [t EXCEPT !.vr = Add(f.ns, 1)]
  IN IF Len(f.data) > s.n401 \/ ~ AckValid(s, f.nr) THEN SendFrmr(s)
     ELSE IF f.ns # s.vr \/ cerror
          THEN Queue(u, Supervisory("RR", u, FALSE, FALSE))
     ELSE LET v == [u EXCEPT !.rx_data = @ \o Decode(s, f),
                             !.rx_dict = IF s.codec THEN @ \o Decode(s, f)
                                         ELSE @]
          IN Queue(v, Supervisory("RR", v, FALSE, FALSE))

\* I frame.  cerror says that the decompressor, given octets that were never
\* compressed, or with another dictionary, raised an error; otherwise it makes
\* noise of them.
HandleI(s, f, cerror) ==
  LET t == Ack(s, f.nr)
  IN IF Len(f.data) > s.n401 \/ ~ AckValid(s, f.nr) THEN SendFrmr(s)
     ELSE IF f.ns # s.vr THEN Queue(t, Supervisory("REJ", t, FALSE, FALSE))
     ELSE IF cerror /\ s.codec /\ ~ Tuned(s, f) THEN Disconnect(t)
     ELSE LET u == [t EXCEPT !.vr = Add(@, 1),
                             !.rx_data = @ \o Decode(s, f),
                             !.rx_dict = IF s.codec THEN @ \o Decode(s, f)
                                         ELSE @]
          IN Queue(u, Supervisory("RR", u, FALSE, FALSE))

\* RR, RNR and REJ.
HandleS(s, f) ==
  LET busy == f.type = "RNR"
      t == [Ack(s, f.nr) EXCEPT !.peer_busy = busy,
                                !.retries = IF busy THEN 0 ELSE @,
                                !.since_ack = IF busy THEN 0 ELSE @]
      u == IF f.type = "REJ"
           THEN [RetransmitFrom(t, f.nr) EXCEPT !.retries = 0] ELSE t
  IN IF ~ AckValid(s, f.nr) THEN SendFrmr(s)
     ELSE IF f.pf /\ f.cmd THEN Queue(u, Supervisory("RR", u, TRUE, FALSE))
     ELSE u

Handle(e, r, f, cerror) ==
  LET s == [r EXCEPT !.inactivity = 0]
  IN CASE f.type = "XID" -> HandleXid(e, s, f)
       [] f.type = "UA" -> IF s.awaiting_ua THEN Establish(s) ELSE s
       [] f.type = "SABME" -> Queue(Establish(s), U("UA"))
       [] f.type = "DISC" ->
            Disconnect(Queue([s EXCEPT !.connected = FALSE], U("UA")))
       [] f.type = "FRMR" -> SendFrmr(s)
       [] f.type \in {"I", "RR", "RNR", "REJ"} /\ s.awaiting_ua -> s
       [] f.type = "I" /\ ~ s.awaiting_ua -> HandleI(s, f, cerror)
       [] f.type \in {"RR", "RNR", "REJ"} /\ ~ s.awaiting_ua -> HandleS(s, f)

-----------------------------------------------------------------------------
(* take: the endpoint's clock.  Its _service runs once per datagram.        *)

Suspended(s) == s.suspended_for > 0

\* The hold after a line disturbance.
HoldTick(s) ==
  LET t == [s EXCEPT !.suspended_for = @ - 1]
  IN IF t.suspended_for = 0 THEN Resume(t) ELSE t

\* T403.
InactivityDue(s) ==
  InactivityAfter > 0 /\ s.inactivity + 1 >= InactivityAfter

\* T401 on a SABME that has had no UA.
EstablishDue(s) ==
  s.awaiting_ua /\ s.establish_ticks + 1 >= RetransmitAfter

\* Mutation of EstablishTick: T401 expires and nothing is done about it.
EstablishTickNoRetry(s) ==
  IF ~ s.awaiting_ua THEN s
  ELSE IF ~ EstablishDue(s) THEN [s EXCEPT !.establish_ticks = @ + 1]
  ELSE [s EXCEPT !.establish_ticks = 0]

EstablishTick(s) ==
  IF ~ s.awaiting_ua THEN s
  ELSE IF ~ EstablishDue(s) THEN [s EXCEPT !.establish_ticks = @ + 1]
  ELSE Queue([s EXCEPT !.retries = @ + 1, !.establish_ticks = 0], U("SABME"))

\* Mutation of BusyTick: the busy condition is waited out without asking.
BusyTickNoEnquiry(s) ==
  IF s.since_ack + 1 < RetransmitAfter THEN [s EXCEPT !.since_ack = @ + 1]
  ELSE [s EXCEPT !.since_ack = 0]

\* A busy peer is asked, every T401, whether it still is.
BusyTick(s) ==
  IF s.since_ack + 1 < RetransmitAfter THEN [s EXCEPT !.since_ack = @ + 1]
  ELSE IF s.retries >= N400 THEN LinkFailure(s)
  ELSE [Queue(s, Supervisory("RR", s, TRUE, TRUE))
          EXCEPT !.retries = @ + 1, !.since_ack = 0]

\* An unacknowledged window is probed, then sent again, N400 times.
WindowTick(s) ==
  LET t == [s EXCEPT !.since_ack = @ + 1]
  IN IF Outstanding(s) = 0 THEN [s EXCEPT !.since_ack = 0]
     ELSE IF t.since_ack = PollAfter
          THEN Queue(t, Supervisory("RR", t, TRUE, TRUE))
     ELSE IF t.since_ack < RetransmitAfter THEN t
     ELSE IF t.retries >= N400 THEN LinkFailure(t)
     ELSE [RetransmitFrom(t, t.va) EXCEPT !.retries = @ + 1]

\* Mutation of Service: the timers run on through a retrain.
ServiceNoHold(r) ==
  LET f == FillWindow(r)
      t == EstablishTick(f)
  IN IF r.failed THEN r
     ELSE IF EstablishDue(f) /\ f.retries >= N400 THEN Disconnect(f)
     ELSE IF t.peer_busy THEN BusyTick(t) ELSE WindowTick(t)

Service(r) ==
  LET f == FillWindow(r)
      s == IF InactivityAfter > 0 THEN [f EXCEPT !.inactivity = @ + 1] ELSE f
      t == EstablishTick(s)
  IN CASE r.failed -> r
       [] ~ r.failed /\ Suspended(r) -> HoldTick(r)
       [] ~ r.failed /\ ~ Suspended(r) ->
            IF InactivityDue(f) \/ (EstablishDue(s) /\ s.retries >= N400)
            THEN Disconnect(s)
            ELSE IF t.peer_busy THEN BusyTick(t) ELSE WindowTick(t)

-----------------------------------------------------------------------------
(* Actions.                                                                 *)

NewEndpoint(e) ==
  [connected |-> FALSE, awaiting_ua |-> FALSE, failed |-> FALSE,
   vr |-> 0, vs |-> 0, va |-> 0, held |-> {}, unacked |-> NoFrames,
   window |-> Window[e], n401 |-> N401[e], codec |-> FALSE,
   tx_stream |-> <<>>, tx_transfer |-> <<>>, rx_data |-> <<>>, tx |-> <<>>,
   tx_base |-> 0, rx_dict |-> <<>>,
   peer_busy |-> FALSE, since_ack |-> 0, retries |-> 0, inactivity |-> 0,
   establish_ticks |-> 0, suspended_for |-> 0,
   reestablish_left |-> Reestablish, sent |-> 0, acked |-> {}]

\* _begin_originator_protocol: XID and SABME, back to back.
BeginOriginatorProtocol(s) ==
  [s EXCEPT !.awaiting_ua = TRUE,
     !.tx = <<[type |-> "XID", n401 |-> s.n401, k |-> s.window,
               comp |-> Compression[Originator]], U("SABME")>>]

Init ==
  /\ ep = [e \in Endpoints |->
             IF e = Originator THEN BeginOriginatorProtocol(NewEndpoint(e))
             ELSE NewEndpoint(e)]
  /\ faults = [lost |-> 0, disturbed |-> 0, busy |-> 0]

\* send(): the application queues its next octet.
Send(e) ==
  /\ ep[e].sent < MaxSend[e]
  /\ ep' = [ep EXCEPT ![e].sent = @ + 1,
                      ![e].tx_stream = Append(@, ep[e].sent + 1)]
  /\ UNCHANGED faults

\* A prompt line is one on which T401 outlasts the round trip: no timer of
\* this end expires while a frame is still under way in either direction.
LineIdle == \A e \in Endpoints : ep[e].tx = <<>>

TimerDue(s) ==
  /\ ~ s.failed /\ ~ Suspended(s)
  /\ \/ EstablishDue(s)
     \/ /\ Outstanding(s) > 0 \/ s.peer_busy
        /\ s.since_ack + 1 = PollAfter \/ s.since_ack + 1 >= RetransmitAfter

TakeGuard(e) ==
  /\ Len(ep[e].tx) < MaxQueue
  /\ PromptLine /\ TimerDue(ep[e]) => LineIdle

Take(e) ==
  /\ TakeGuard(e)
  /\ ep' = [ep EXCEPT ![e] = Service(@)]
  /\ UNCHANGED faults

\* Both ends take a datagram before either has heard the other's.
TakeTogether ==
  /\ \A e \in Endpoints : TakeGuard(e)
  /\ ep' = [e \in Endpoints |-> Service(ep[e])]
  /\ UNCHANGED faults

\* feed(): the frame at the head of the peer's queue reaches endpoint e.
Feed(e) ==
  /\ ep[Peer(e)].tx # <<>>
  /\ \E cerror \in BOOLEAN :
       ep' = [d \in Endpoints |->
                IF d = e THEN Handle(e, ep[e], Head(ep[Peer(e)].tx), cerror)
                ELSE [ep[d] EXCEPT !.tx = Tail(@)]]
  /\ UNCHANGED faults

\* The line destroys a frame: its FCS fails at the receiver.
Lose(e) ==
  /\ faults.lost < MaxLoss
  /\ ep[e].tx # <<>>
  /\ ep' = [ep EXCEPT ![e].tx = Tail(@)]
  /\ faults' = [faults EXCEPT !.lost = @ + 1]

\* line_disturbed(): hold the timers and drop what the pump has not taken;
\* the first n frames of the queue were already on the line.
LineDisturbed(e) ==
  /\ faults.disturbed < MaxDisturb
  /\ \E n \in 0 .. Len(ep[e].tx) :
       ep' = [ep EXCEPT ![e].suspended_for =
                           IF @ < RetransmitAfter THEN RetransmitAfter ELSE @,
                        ![e].tx = SubSeq(@, 1, n)]
  /\ faults' = [faults EXCEPT !.disturbed = @ + 1]

\* line_restored(): the pump reports synchronous state.
LineRestored(e) ==
  /\ Suspended(ep[e])
  /\ ep' = [ep EXCEPT ![e] = Resume([@ EXCEPT !.suspended_for = 0])]
  /\ UNCHANGED faults

\* This endpoint never sends RNR; the modems it talks to do.  A foreign peer
\* that is otherwise a LapmEndpoint says that its receiver is busy.
ForeignBusy(e) ==
  /\ faults.busy < MaxBusy
  /\ ep[e].connected
  /\ ep' = [ep EXCEPT ![e] = Queue(@, Supervisory("RNR", @, FALSE, FALSE))]
  /\ faults' = [faults EXCEPT !.busy = @ + 1]

Next ==
  \/ \E e \in Endpoints :
       \/ Send(e) \/ Take(e) \/ Feed(e) \/ Lose(e)
       \/ LineDisturbed(e) \/ LineRestored(e) \/ ForeignBusy(e)
  \/ TakeTogether

Spec == Init /\ [][Next]_vars

\* The data pump asks for a datagram every few samples for as long as the
\* call is up, and hands over what the peer's pump sent.
Fairness ==
  \A e \in Endpoints : WF_vars(Take(e)) /\ WF_vars(Feed(e))

FairSpec == Spec /\ Fairness

-----------------------------------------------------------------------------
(* Properties.                                                              *)

EndpointType ==
  [connected : BOOLEAN, awaiting_ua : BOOLEAN, failed : BOOLEAN,
   vr : SeqNo, vs : SeqNo, va : SeqNo,
   held : SUBSET SeqNo, unacked : [SeqNo -> Octets],
   window : 1 .. (Mod - 1), n401 : Nat \ {0}, codec : BOOLEAN,
   tx_stream : Octets, tx_transfer : Octets, rx_data : Octets,
   tx_base : Nat, rx_dict : Octets,
   tx : Seq(Frame), peer_busy : BOOLEAN, since_ack : Nat, retries : Nat,
   inactivity : Nat, establish_ticks : Nat, suspended_for : Nat,
   reestablish_left : Nat, sent : Nat, acked : SUBSET Nat]

\* The attributes of an endpoint have the types the class declares; in
\* particular every sequence variable stays below the modulus.
TypeOK ==
  /\ ep \in [Endpoints -> EndpointType]
  /\ faults \in [lost : Nat, disturbed : Nat, busy : Nat]

\* The dictionary unacked holds exactly the frames from V(A) up to V(S), whatever _ack,
\* _retransmit_from and _fill_window did to the two edges, so go-back-N
\* finds every frame the peer may still ask for; and there are never more of
\* them than k.
WindowExact ==
  \A e \in Endpoints :
    LET s == ep[e]
    IN /\ s.held = {q \in SeqNo : Sub(q, s.va) < Outstanding(s)}
       /\ Outstanding(s) <= Window[e]

\* What a link hands up is what the peer's application sent, each octet at
\* most once and in the order of send(), across loss, retransmission,
\* modulus wrap and any number of re-establishments.
NoDuplicateNoReorder ==
  \A e \in Endpoints :
    LET d == ep[e].rx_data
    IN /\ \A i \in 1 .. Len(d) : d[i] \in 1 .. ep[Peer(e)].sent
       /\ \A i \in 1 .. (Len(d) - 1) : d[i] < d[i + 1]

HandedUp(e, x) ==
  \E i \in 1 .. Len(ep[e].rx_data) : ep[e].rx_data[i] = x

\* An octet the sender has seen acknowledged has been handed up by the peer.
AckedDelivered ==
  \A e \in Endpoints : \A x \in ep[e].acked : HandedUp(Peer(e), x)

\* An acknowledgement accepted by _ack is the truth, as long as the peer has
\* not declared the link down: what it releases, the peer has handed up.
AckIsTruthful ==
  [][\A e \in Endpoints : \A x \in ep'[e].acked \ ep[e].acked :
       ep[Peer(e)].failed \/ HandedUp(Peer(e), x)]_vars

\* The two ends of an established, idle link work with the same parameters,
\* if no frame of the negotiation was lost: no end sends fields the other
\* calls too long, or octets the other cannot decode.
NegotiatedAlike ==
  faults.lost = 0 /\ LineIdle /\ (\A e \in Endpoints : ep[e].connected)
    => LET a == ep[Originator]
           b == ep[Answerer]
       IN a.n401 = b.n401 /\ a.window = b.window /\ a.codec = b.codec

\* Two ends that both installed their codecs decode each other: whatever is
\* lost, sent again or established again, every octet is read with the
\* dictionary it was written with, and the data comes out once and in order.
DictionariesAgree ==
  (\A e \in Endpoints : ep[e].codec)
    => NoDuplicateNoReorder

\* While the timers are held after a line disturbance no recovery budget is
\* spent: not a retry, not a re-establishment.
HoldSpendsNothing ==
  [][\A e \in Endpoints :
       Suspended(ep[e]) => /\ ep'[e].retries <= ep[e].retries
                           /\ ep'[e].reestablish_left >= ep[e].reestablish_left
    ]_vars

\* A SABME is answered or given up on: no end awaits its UA for ever.
EstablishmentEnds ==
  \A e \in Endpoints : ep[e].awaiting_ua ~> ~ ep[e].awaiting_ua

Holds(s, x) ==
  \/ \E i \in 1 .. Len(s.tx_stream) : s.tx_stream[i] = x
  \/ \E i \in 1 .. Len(s.tx_transfer) : s.tx_transfer[i] = x
  \/ \E q \in s.held : \E i \in 1 .. Len(s.unacked[q]) : s.unacked[q][i] = x

\* A connected link does not sit on data: an octet the window or the stream
\* holds leaves the sender's custody, unless the link itself goes first.
NothingStuck ==
  \A e \in Endpoints : \A x \in 1 .. MaxSend[e] :
    (ep[e].connected /\ Holds(ep[e], x))
      ~> (~ ep[e].connected \/ ~ Holds(ep[e], x))
=============================================================================

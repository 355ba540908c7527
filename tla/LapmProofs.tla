----------------------------- MODULE LapmProofs -----------------------------
(***************************************************************************)
(* Proofs about module Lapm, for every modulus, window, N401 and timer     *)
(* setting: the type invariant, the exactness of the transmit window and   *)
(* that a held link spends no recovery budget.                             *)
(*                                                                         *)
(* The argument: an endpoint is "in order" (EndpointOK) when its fields    *)
(* have their types, its held frames are exactly those from V(A) up to     *)
(* V(S), and neither the window nor the negotiated k exceeds the           *)
(* constructor's k.  One lemma per method of LapmEndpoint shows that the   *)
(* method keeps an endpoint in order; NextOK puts them together.           *)
(* For the budgets a second, smaller family of lemmas follows each method  *)
(* in the two counters only (Frugal, SpendsOne).                           *)
(***************************************************************************)
EXTENDS Lapm, TLAPS, SequenceTheorems

\* A residue of a number below the modulus is the number.
LEMMA ModSmall ==
  ASSUME NEW M \in Nat \ {0}, NEW x \in 0 .. (M - 1)
  PROVE  x % M = x
  OBVIOUS

\* One wrap upwards of "& 0x7F".
LEMMA ModOver ==
  ASSUME NEW M \in Nat \ {0}, NEW x \in M .. (2 * M - 1)
  PROVE  x % M = x - M
  OBVIOUS

\* One wrap downwards of "& 0x7F".
LEMMA ModUnder ==
  ASSUME NEW M \in Nat \ {0}, NEW x \in (-M) .. (-1)
  PROVE  x % M = x + M
  OBVIOUS

\* Add stays in the number space, by at most one wrap.
LEMMA AddValue ==
  ASSUME NEW i \in SeqNo, NEW n \in 0 .. (Mod - 1)
  PROVE  /\ Add(i, n) \in SeqNo
         /\ Add(i, n) = IF i + n < Mod THEN i + n ELSE i + n - Mod
  <1>1. /\ Mod \in Nat \ {0} /\ i \in Nat /\ n \in Nat
        /\ i < Mod /\ n < Mod
    BY SequenceAssumption DEF SeqNo
  <1>2. CASE i + n < Mod
    <2>1. (i + n) % Mod = i + n
      BY <1>1, <1>2, ModSmall
    <2>2. QED BY <1>1, <1>2, <2>1 DEF Add, SeqNo
  <1>3. CASE ~ (i + n < Mod)
    <2>0. i + n \in Mod .. (2 * Mod - 1)
      BY <1>1, <1>3
    <2>1. (i + n) % Mod = i + n - Mod
      BY <1>1, <2>0, ModOver
    <2>2. QED BY <1>1, <1>3, <2>1 DEF Add, SeqNo
  <1>4. QED BY <1>2, <1>3

\* How far i is ahead of j in a number space of size M.
Distance(i, j, M) == IF i >= j THEN i - j ELSE i - j + M

\* Moving V(A) to a valid N(R) takes exactly the frames before N(R) out of the
\* window (the arithmetic of _ack).
LEMMA AckArithmetic ==
  ASSUME NEW M \in Nat, NEW va \in 0 .. (M - 1), NEW vs \in 0 .. (M - 1),
         NEW nr \in 0 .. (M - 1), NEW q \in 0 .. (M - 1),
         Distance(nr, va, M) <= Distance(vs, va, M)
  PROVE  /\ Distance(vs, nr, M) = Distance(vs, va, M) - Distance(nr, va, M)
         /\ Distance(q, nr, M) < Distance(vs, nr, M)
              <=> /\ Distance(q, va, M) < Distance(vs, va, M)
                  /\ ~ (Distance(q, va, M) < Distance(nr, va, M))
  BY DEF Distance

\* Integer division of naturals.
LEMMA DivideNat ==
  ASSUME NEW a \in Nat, NEW b \in Nat \ {0}
  PROVE  a \div b \in Nat
  OBVIOUS

\* Sub stays in the number space, by at most one wrap.
LEMMA SubValue ==
  ASSUME NEW i \in SeqNo, NEW j \in SeqNo
  PROVE  /\ Sub(i, j) \in SeqNo
         /\ Sub(i, j) = IF i >= j THEN i - j ELSE i - j + Mod
  <1>1. /\ Mod \in Nat \ {0} /\ i \in Nat /\ j \in Nat
        /\ i < Mod /\ j < Mod
    BY SequenceAssumption DEF SeqNo
  <1>2. CASE i >= j
    <2>1. (i - j) % Mod = i - j
      BY <1>1, <1>2, ModSmall
    <2>2. QED BY <1>1, <1>2, <2>1 DEF Sub, SeqNo
  <1>3. CASE ~ (i >= j)
    <2>1. (i - j) % Mod = i - j + Mod
      BY <1>1, <1>3, ModUnder
    <2>2. QED BY <1>1, <1>3, <2>1 DEF Sub, SeqNo
  <1>4. QED BY <1>2, <1>3

\* Sub is the distance going round the number space.
LEMMA SubIsDistance ==
  ASSUME NEW i \in SeqNo, NEW j \in SeqNo
  PROVE  Sub(i, j) = Distance(i, j, Mod) /\ Sub(i, j) \in SeqNo
  BY SubValue DEF Distance

\* What moving V(S) forward by n does to the distances from V(A).
LEMMA FillDistance ==
  ASSUME NEW va \in SeqNo, NEW vs \in SeqNo, NEW n \in 0 .. (Mod - 1),
         Sub(vs, va) + n <= Mod - 1
  PROVE  /\ Sub(Add(vs, n), va) = Sub(vs, va) + n
         /\ \A q \in SeqNo : Sub(q, va) < Sub(vs, va) + n
              <=> Sub(q, va) < Sub(vs, va) \/ Sub(q, vs) < n
  <1> DEFINE w == Add(vs, n)
  <1>1. w \in SeqNo /\ w = IF vs + n < Mod THEN vs + n ELSE vs + n - Mod
    BY AddValue
  <1> HIDE DEF w
  <1>2. Mod \in Nat /\ Sub(vs, va) = Distance(vs, va, Mod)
    BY SequenceAssumption, SubIsDistance
  <1>3. Sub(w, va) = Distance(w, va, Mod)
    BY <1>1, SubIsDistance
  <1>4. Sub(w, va) = Sub(vs, va) + n
    BY <1>1, <1>2, <1>3 DEF Distance, SeqNo
  <1>5. ASSUME NEW q \in SeqNo
        PROVE  Sub(q, va) < Sub(vs, va) + n
                 <=> Sub(q, va) < Sub(vs, va) \/ Sub(q, vs) < n
    <2>1. /\ Sub(q, va) = Distance(q, va, Mod)
          /\ Sub(q, vs) = Distance(q, vs, Mod)
      BY SubIsDistance
    <2>2. QED BY <1>2, <2>1 DEF Distance, SeqNo
  <1>6. QED BY <1>4, <1>5 DEF w

\* The held frames are those from V(A) up to V(S).
WindowOK(s) == s.held = {q \in SeqNo : Sub(q, s.va) < Outstanding(s)}

\* An endpoint in order.
EndpointOK(e, s) ==
  /\ s \in EndpointType
  /\ WindowOK(s)
  /\ Outstanding(s) <= Window[e]
  /\ s.window <= Window[e]

\* _queue keeps an endpoint in order.
LEMMA QueueOK ==
  ASSUME NEW e \in Endpoints, NEW s, EndpointOK(e, s), NEW f \in Frame
  PROVE  EndpointOK(e, Queue(s, f))
  <1>0. Append(s.tx, f) \in Seq(Frame)
    BY DEF EndpointOK, EndpointType
  <1>1. Queue(s, f) \in EndpointType
    BY <1>0 DEF EndpointOK, Queue, EndpointType
  <1>2. /\ Queue(s, f).vs = s.vs /\ Queue(s, f).va = s.va
        /\ Queue(s, f).held = s.held /\ Queue(s, f).window = s.window
    BY DEF EndpointOK, Queue, EndpointType
  <1>3. QED BY <1>1, <1>2 DEF EndpointOK, WindowOK, Outstanding

\* _resume keeps an endpoint in order.
LEMMA ResumeOK ==
  ASSUME NEW e \in Endpoints, NEW s, EndpointOK(e, s)
  PROVE  EndpointOK(e, Resume(s))
  BY DEF EndpointOK, Resume, EndpointType, WindowOK, Outstanding

\* _reset_transmit leaves an empty, exact window.
LEMMA ResetTransmitOK ==
  ASSUME NEW e \in Endpoints, NEW s, EndpointOK(e, s)
  PROVE  EndpointOK(e, ResetTransmit(s))
  <1>0. /\ 0 \in SeqNo /\ <<>> \in Octets
        /\ NoFrames \in [SeqNo -> Octets] /\ {} \in SUBSET SeqNo
    BY SequenceAssumption DEF SeqNo, Octets, NoFrames
  <1>1. ResetTransmit(s) \in EndpointType
    BY <1>0 DEF EndpointOK, ResetTransmit, EndpointType
  <1>2. /\ ResetTransmit(s).vs = 0 /\ ResetTransmit(s).va = 0
        /\ ResetTransmit(s).held = {}
        /\ ResetTransmit(s).window = s.window
    BY DEF EndpointOK, EndpointType, ResetTransmit
  <1>3. Sub(0, 0) = 0 /\ \A q \in SeqNo : Sub(q, 0) \in Nat
    BY <1>0, SubValue DEF SeqNo
  <1>4. WindowOK(ResetTransmit(s)) /\ Outstanding(ResetTransmit(s)) = 0
    BY <1>2, <1>3 DEF WindowOK, Outstanding
  <1>5. QED
    BY <1>1, <1>2, <1>4, SequenceAssumption DEF EndpointOK

\* Sub undoes Add.
LEMMA SubAdd ==
  ASSUME NEW i \in SeqNo, NEW n \in 0 .. (Mod - 1)
  PROVE  Sub(Add(i, n), i) = n
  <1> DEFINE q == Add(i, n)
  <1>1. q \in SeqNo /\ q = IF i + n < Mod THEN i + n ELSE i + n - Mod
    BY AddValue
  <1> HIDE DEF q
  <1>2. Sub(q, i) = IF q >= i THEN q - i ELSE q - i + Mod
    BY <1>1, SubValue
  <1>3. QED
    BY <1>1, <1>2, SequenceAssumption DEF SeqNo, q

\* Add undoes Sub.
LEMMA AddSub ==
  ASSUME NEW i \in SeqNo, NEW q \in SeqNo
  PROVE  Add(i, Sub(q, i)) = q
  <1> DEFINE n == Sub(q, i)
  <1>1. n \in 0 .. (Mod - 1) /\ n = IF q >= i THEN q - i ELSE q - i + Mod
    BY SubValue DEF SeqNo
  <1> HIDE DEF n
  <1>2. Add(i, n) = IF i + n < Mod THEN i + n ELSE i + n - Mod
    BY <1>1, AddValue
  <1>3. QED
    BY <1>1, <1>2, SequenceAssumption DEF SeqNo, n

\* A change that leaves V(S), V(A), the held frames and k alone keeps an
\* endpoint in order, given that it keeps its types.
LEMMA SameWindow ==
  ASSUME NEW e \in Endpoints, NEW s, EndpointOK(e, s), NEW t \in EndpointType,
         t.vs = s.vs, t.va = s.va, t.held = s.held, t.window = s.window
  PROVE  EndpointOK(e, t)
  BY DEF EndpointOK, WindowOK, Outstanding

\* A function on 1 .. n is a sequence.
LEMMA FunctionIsSeq ==
  ASSUME NEW S, NEW n \in Nat, NEW f \in [1 .. n -> S]
  PROVE  f \in Seq(S)
  BY SeqDef

\* Where the compressor started is an octet of the stream, or 0.
LEMMA BaseOK ==
  ASSUME NEW s \in EndpointType
  PROVE  Base(s) \in Nat
  <1>1. s.tx_base \in Nat /\ s.tx_stream \in Seq(Nat)
    BY DEF EndpointType, Octets
  <1>2. s.tx_stream # <<>> => s.tx_stream[1] \in Nat
    BY <1>1
  <1>3. QED BY <1>1, <1>2 DEF Base

\* The frames the endpoint builds are frames.
LEMMA FramesOK ==
  /\ \A t \in {"SABME", "UA", "DISC", "FRMR"} : U(t) \in Frame
  /\ \A t \in {"RR", "RNR", "REJ"}, s \in EndpointType, pf, cmd \in BOOLEAN :
       Supervisory(t, s, pf, cmd) \in Frame
  /\ \A s \in EndpointType, ns \in SeqNo, data \in Octets :
       InfoFrame(s, ns, data) \in Frame
  <1>1. \A t \in {"SABME", "UA", "DISC", "FRMR"} : U(t) \in Frame
    BY DEF U, Frame, UFrame
  <1>2. \A t \in {"RR", "RNR", "REJ"}, s \in EndpointType, pf, cmd \in BOOLEAN :
          Supervisory(t, s, pf, cmd) \in Frame
    BY DEF Supervisory, Frame, SFrame, EndpointType
  <1>3. \A s \in EndpointType, ns \in SeqNo, data \in Octets :
          InfoFrame(s, ns, data) \in Frame
    BY BaseOK DEF InfoFrame, Frame, IFrame, EndpointType
  <1>4. QED BY <1>1, <1>2, <1>3

\* _establish keeps an endpoint in order.
LEMMA EstablishOK ==
  ASSUME NEW e \in Endpoints, NEW s, EndpointOK(e, s)
  PROVE  EndpointOK(e, Establish(s))
  <1> DEFINE r == ResetTransmit(s)
  <1> DEFINE d == [r EXCEPT
          !.connected = TRUE, !.awaiting_ua = FALSE, !.vr = 0, !.inactivity = 0,
          !.establish_ticks = 0, !.failed = FALSE,
          !.reestablish_left = Reestablish,
          !.tx_base = 0, !.rx_dict = <<>>]
  <1>1. EndpointOK(e, r)
    BY ResetTransmitOK
  <1>2. Establish(s) = d
    BY DEF Establish
  <1>3. 0 \in SeqNo /\ Reestablish \in Nat /\ <<>> \in Octets
    BY SequenceAssumption, TimerAssumption DEF SeqNo, Octets
  <1> HIDE DEF r
  <1>4. d \in EndpointType
    BY <1>1, <1>3 DEF EndpointOK, EndpointType
  <1>5. d.vs = r.vs /\ d.va = r.va /\ d.held = r.held /\ d.window = r.window
    BY <1>1 DEF EndpointOK, EndpointType
  <1>6. QED BY <1>1, <1>2, <1>4, <1>5, SameWindow

\* _disconnect keeps an endpoint in order.
LEMMA DisconnectOK ==
  ASSUME NEW e \in Endpoints, NEW s, EndpointOK(e, s)
  PROVE  EndpointOK(e, Disconnect(s))
  <1> DEFINE t == IF s.connected THEN Queue(s, U("DISC")) ELSE s
  <1> DEFINE r == ResetTransmit(t)
  <1>1. EndpointOK(e, t)
    BY QueueOK, FramesOK
  <1> HIDE DEF t
  <1>2. EndpointOK(e, r)
    BY <1>1, ResetTransmitOK
  <1>3. <<>> \in Octets
    BY DEF Octets
  <1> HIDE DEF r
  <1> DEFINE d == [r EXCEPT !.connected = FALSE, !.awaiting_ua = FALSE,
                            !.tx_stream = <<>>, !.failed = TRUE]
  <1>4. d \in EndpointType
    BY <1>2, <1>3 DEF EndpointOK, EndpointType
  <1>5. d.vs = r.vs /\ d.va = r.va /\ d.held = r.held /\ d.window = r.window
    BY <1>2 DEF EndpointOK, EndpointType
  <1>6. EndpointOK(e, d)
    BY <1>2, <1>4, <1>5, SameWindow
  <1>7. Disconnect(s) = IF s.failed THEN s ELSE d
    BY DEF Disconnect, r, t
  <1>8. QED BY <1>6, <1>7

\* _link_failure keeps an endpoint in order.
LEMMA LinkFailureOK ==
  ASSUME NEW e \in Endpoints, NEW s, EndpointOK(e, s)
  PROVE  EndpointOK(e, LinkFailure(s))
  <1>1. CASE s.reestablish_left <= 0 \/ ~ s.connected
    BY <1>1, DisconnectOK DEF LinkFailure
  <1>2. CASE ~ (s.reestablish_left <= 0 \/ ~ s.connected)
    <2> DEFINE r == ResetTransmit(s)
    <2> DEFINE d == [r EXCEPT !.reestablish_left = @ - 1, !.connected = FALSE,
                              !.tx_stream = <<>>, !.awaiting_ua = TRUE,
                              !.establish_ticks = 0]
    <2>1. EndpointOK(e, r) /\ <<>> \in Octets
      BY ResetTransmitOK DEF Octets
    <2>0. s.reestablish_left \in Nat /\ r.reestablish_left = s.reestablish_left
      BY DEF EndpointOK, EndpointType, ResetTransmit
    <2>2. r.reestablish_left - 1 \in Nat
      BY <1>2, <2>0
    <2>3. LinkFailure(s) = Queue(d, U("SABME"))
      BY <1>2 DEF LinkFailure
    <2> HIDE DEF r
    <2>4. d \in EndpointType
      BY <2>1, <2>2 DEF EndpointOK, EndpointType
    <2>5. d.vs = r.vs /\ d.va = r.va /\ d.held = r.held /\ d.window = r.window
      BY <2>1 DEF EndpointOK, EndpointType
    <2>6. EndpointOK(e, d)
      BY <2>1, <2>4, <2>5, SameWindow
    <2> HIDE DEF d
    <2>7. QED BY <2>3, <2>6, QueueOK, FramesOK
  <1>3. QED BY <1>1, <1>2

\* _send_frmr keeps an endpoint in order.
LEMMA SendFrmrOK ==
  ASSUME NEW e \in Endpoints, NEW s, EndpointOK(e, s)
  PROVE  EndpointOK(e, SendFrmr(s))
  BY QueueOK, DisconnectOK, FramesOK DEF SendFrmr

\* _ack with an N(R) that passed its test keeps the window exact and puts its
\* lower edge at N(R).
LEMMA AckOK ==
  ASSUME NEW e \in Endpoints, NEW s, EndpointOK(e, s), NEW nr \in SeqNo,
         AckValid(s, nr)
  PROVE  /\ EndpointOK(e, Ack(s, nr))
         /\ Ack(s, nr).va = nr
         /\ Ack(s, nr).vr = s.vr
  <1> DEFINE gone == Released(s, nr)
  <1> DEFINE octets == UNION {{s.unacked[q][i] : i \in 1 .. Len(s.unacked[q])}
                              : q \in gone}
  <1>1. /\ s.va \in SeqNo /\ s.vs \in SeqNo /\ s.held \in SUBSET SeqNo
        /\ s.unacked \in [SeqNo -> Seq(Nat)] /\ s.acked \in SUBSET Nat
        /\ s.window \in 1 .. (Mod - 1)
    BY DEF EndpointOK, EndpointType, Octets
  <1>2. gone \in SUBSET SeqNo
    BY <1>1 DEF Released
  <1>3. s.held \ gone \in SUBSET SeqNo
    BY <1>1
  <1>4. s.acked \cup octets \in SUBSET Nat
    <2>1. \A q \in gone : \A i \in 1 .. Len(s.unacked[q]) : s.unacked[q][i] \in Nat
      BY <1>1, <1>2
    <2>2. QED BY <1>1, <2>1
  <1>5. Keep(s, s.held \ gone) \in [SeqNo -> Octets]
    BY <1>1 DEF Keep, Octets
  <1>6. Ack(s, nr) = [s EXCEPT
          !.va = nr, !.held = @ \ gone, !.unacked = Keep(s, s.held \ gone),
          !.since_ack = IF gone # {} THEN 0 ELSE @,
          !.retries = IF gone # {} THEN 0 ELSE @,
          !.acked = @ \cup octets]
    BY DEF Ack
  <1> DEFINE a == [s EXCEPT
          !.va = nr, !.held = @ \ gone, !.unacked = Keep(s, s.held \ gone),
          !.since_ack = IF gone # {} THEN 0 ELSE @,
          !.retries = IF gone # {} THEN 0 ELSE @,
          !.acked = @ \cup octets]
  <1>7. /\ a.va = nr /\ a.vs = s.vs /\ a.held = s.held \ gone
        /\ a.window = s.window /\ a.vr = s.vr
    BY DEF EndpointOK, EndpointType
  <1>8. a \in EndpointType
    <2> HIDE DEF gone, octets
    <2>1. QED BY <1>3, <1>4, <1>5 DEF EndpointOK, EndpointType
  <1>9. /\ Mod \in Nat
        /\ s.va \in 0 .. (Mod - 1) /\ s.vs \in 0 .. (Mod - 1)
        /\ nr \in 0 .. (Mod - 1)
        /\ Distance(nr, s.va, Mod) <= Distance(s.vs, s.va, Mod)
    BY <1>1, SequenceAssumption, SubIsDistance DEF SeqNo, AckValid, Outstanding
  <1>10. /\ Outstanding(s) = Distance(s.vs, s.va, Mod)
         /\ Outstanding(a) = Distance(s.vs, nr, Mod)
    BY <1>1, <1>7, SubIsDistance DEF Outstanding
  <1> HIDE DEF a
  <1>11. \A q \in SeqNo : Sub(q, nr) < Outstanding(a)
            <=> /\ Sub(q, s.va) < Outstanding(s)
                /\ ~ (Sub(q, s.va) < Sub(nr, s.va))
    <2> SUFFICES ASSUME NEW q \in SeqNo
                 PROVE  Sub(q, nr) < Outstanding(a)
                          <=> /\ Sub(q, s.va) < Outstanding(s)
                              /\ ~ (Sub(q, s.va) < Sub(nr, s.va))
      OBVIOUS
    <2>1. q \in 0 .. (Mod - 1)
      BY DEF SeqNo
    <2>2. /\ Distance(q, nr, Mod) < Distance(s.vs, nr, Mod)
            <=> /\ Distance(q, s.va, Mod) < Distance(s.vs, s.va, Mod)
                /\ ~ (Distance(q, s.va, Mod) < Distance(nr, s.va, Mod))
      BY <1>9, <2>1, AckArithmetic
    <2>3. QED BY <1>1, <1>10, <2>2, SubIsDistance
  <1>12. WindowOK(a)
    BY <1>7, <1>11 DEF WindowOK, Released, EndpointOK
  <1>13. Outstanding(a) <= Window[e]
    <2>1. Outstanding(a) = Outstanding(s) - Distance(nr, s.va, Mod)
      BY <1>9, <1>10, AckArithmetic
    <2>2. Window[e] \in Nat /\ Outstanding(s) <= Window[e]
      BY SequenceAssumption DEF EndpointOK
    <2>3. Sub(s.vs, s.va) \in SeqNo /\ Sub(nr, s.va) \in SeqNo
      BY <1>1, SubIsDistance
    <2>4. Outstanding(s) \in Nat /\ Distance(nr, s.va, Mod) \in Nat
      <3>1. Sub(nr, s.va) = Distance(nr, s.va, Mod)
        BY <1>1, SubIsDistance
      <3>2. \A i \in SeqNo : i \in Nat
        BY SequenceAssumption DEF SeqNo
      <3>3. QED BY <2>3, <3>1, <3>2 DEF Outstanding
    <2>5. QED BY <2>1, <2>2, <2>4
  <1>14. QED BY <1>6, <1>7, <1>8, <1>12, <1>13 DEF EndpointOK, a

\* The numbers Add(i, 0), Add(i, 1), ..., Add(i, n - 1) are those less than n
\* ahead of i.
LEMMA RunMembers ==
  ASSUME NEW i \in SeqNo, NEW n \in 0 .. (Mod - 1)
  PROVE  {Add(i, j - 1) : j \in 1 .. n} = {q \in SeqNo : Sub(q, i) < n}
  <1>1. ASSUME NEW j \in 1 .. n
        PROVE  Add(i, j - 1) \in SeqNo /\ Sub(Add(i, j - 1), i) < n
    <2>1. j - 1 \in 0 .. (Mod - 1) /\ j - 1 < n
      BY SequenceAssumption
    <2>2. QED BY <2>1, AddValue, SubAdd
  <1>2. ASSUME NEW q \in SeqNo, Sub(q, i) < n
        PROVE  \E j \in 1 .. n : q = Add(i, j - 1)
    <2>1. Sub(q, i) \in Nat /\ Sub(q, i) + 1 \in 1 .. n
      <3>1. Sub(q, i) \in SeqNo
        BY SubIsDistance
      <3>2. QED BY <1>2, <3>1, SequenceAssumption DEF SeqNo
    <2>2. (Sub(q, i) + 1) - 1 = Sub(q, i)
      BY <2>1
    <2>3. q = Add(i, (Sub(q, i) + 1) - 1)
      BY <2>2, AddSub
    <2>4. QED BY <2>1, <2>3
  <1>3. QED BY <1>1, <1>2

\* The unbroken run of held frames from V(A) on is the whole window.
LEMMA RunLengthOK ==
  ASSUME NEW e \in Endpoints, NEW s, EndpointOK(e, s)
  PROVE  /\ RunLength(s, s.va) = Outstanding(s)
         /\ Outstanding(s) \in 0 .. (Mod - 1)
         /\ {Add(s.va, i - 1) : i \in 1 .. Outstanding(s)} = s.held
  <1> DEFINE O == Outstanding(s)
  <1> DEFINE n == RunLength(s, s.va)
  <1>1. /\ s.va \in SeqNo /\ s.vs \in SeqNo
        /\ s.held = {q \in SeqNo : Sub(q, s.va) < O}
    BY DEF EndpointOK, EndpointType, WindowOK
  <1>2. O \in 0 .. (Mod - 1) /\ Mod \in Nat \ {0}
    BY <1>1, SubIsDistance, SequenceAssumption DEF Outstanding, SeqNo
  <1>3. \A i \in 0 .. (Mod - 1) : Add(s.va, i) \in s.held <=> i < O
    BY <1>1, AddValue, SubAdd
  <1> HIDE DEF O
  <1>4. n = O
    <2> DEFINE P(m) == /\ \A i \in 0 .. (m - 1) : Add(s.va, i) \in s.held
                       /\ Add(s.va, m) \notin s.held
    <2>1. P(O)
      BY <1>2, <1>3
    <2>2. \A m \in 0 .. (Mod - 1) : P(m) => m = O
      <3> SUFFICES ASSUME NEW m \in 0 .. (Mod - 1), P(m)
                   PROVE  m = O
        OBVIOUS
      <3>1. ~ (m < O)
        BY <1>3
      <3>2. ~ (O < m)
        <4>1. SUFFICES ASSUME O < m PROVE FALSE
          OBVIOUS
        <4>2. O \in 0 .. (m - 1)
          BY <1>2, <4>1
        <4>3. QED BY <1>2, <1>3, <4>2
      <3>3. QED BY <1>2, <3>1, <3>2
    <2>3. n = CHOOSE m \in 0 .. (Mod - 1) : P(m)
      BY DEF RunLength
    <2> HIDE DEF P, n
    <2>4. QED BY <1>2, <2>1, <2>2, <2>3
  <1>5. {Add(s.va, i - 1) : i \in 1 .. O} = s.held
    BY <1>1, <1>2, RunMembers
  <1>6. QED BY <1>2, <1>4, <1>5 DEF O

\* _retransmit_from, called with N(R) = V(A) as every caller does, finds every
\* held frame and leaves the window as it was.
LEMMA RetransmitOK ==
  ASSUME NEW e \in Endpoints, NEW s, EndpointOK(e, s)
  PROVE  EndpointOK(e, RetransmitFrom(s, s.va))
  <1> DEFINE O == Outstanding(s)
  <1> DEFINE n == RunLength(s, s.va)
  <1> DEFINE run == {Add(s.va, i - 1) : i \in 1 .. n}
  <1> DEFINE new == [i \in 1 .. n |->
               InfoFrame(s, Add(s.va, i - 1), s.unacked[Add(s.va, i - 1)])]
  <1>1. /\ s.va \in SeqNo /\ s.vs \in SeqNo
        /\ s.unacked \in [SeqNo -> Octets] /\ s.tx \in Seq(Frame)
        /\ s \in EndpointType
    BY DEF EndpointOK, EndpointType
  <1>2. O \in 0 .. (Mod - 1) /\ Mod \in Nat \ {0}
    BY RunLengthOK, SequenceAssumption
  <1>4. n = O
    BY RunLengthOK
  <1>5. run = s.held
    BY RunLengthOK
  <1> HIDE DEF O, n
  <1>6. Add(s.va, n) = s.vs
    BY <1>1, <1>4, AddSub DEF O, Outstanding
  <1>7. new \in Seq(Frame)
    <2>1. \A i \in 1 .. n : Add(s.va, i - 1) \in SeqNo
      BY <1>1, <1>2, <1>4, AddValue
    <2>2. new \in [1 .. n -> Frame] /\ n \in Nat
      BY <1>1, <1>2, <1>4, <2>1, FramesOK
    <2>3. QED BY <2>2, FunctionIsSeq
  <1>8. s.tx \o new \in Seq(Frame)
    BY <1>1, <1>7, ConcatProperties
  <1>9. Keep(s, run) \in [SeqNo -> Octets]
    BY <1>1 DEF Keep, Octets
  <1> DEFINE r == [s EXCEPT !.va = s.va, !.vs = Add(s.va, n), !.held = run,
                            !.unacked = Keep(s, run), !.tx = @ \o new,
                            !.since_ack = 0]
  <1>10. RetransmitFrom(s, s.va) = r
    BY DEF RetransmitFrom, n
  <1> HIDE DEF run, new
  <1>11. r \in EndpointType
    BY <1>1, <1>5, <1>6, <1>8, <1>9 DEF EndpointType
  <1>12. r.vs = s.vs /\ r.va = s.va /\ r.held = s.held /\ r.window = s.window
    BY <1>1, <1>5, <1>6 DEF EndpointType
  <1>13. QED BY <1>10, <1>11, <1>12, SameWindow

\* What _fill_window reads from is a sequence of octets.
LEMMA SourceOK ==
  ASSUME NEW s \in EndpointType
  PROVE  Source(s) \in Seq(Nat)
  BY ConcatProperties DEF Source, EndpointType, Octets

\* A slice of the stream that ends no later than the stream does.
LEMMA SliceOK ==
  ASSUME NEW q \in Seq(Nat), NEW m \in Nat \ {0}, NEW n \in Nat, n <= Len(q)
  PROVE  SubSeq(q, m, n) \in Seq(Nat)
  <1>1. \A i \in m .. n : q[i] \in Nat
    <2>1. \A i \in m .. n : i \in 1 .. Len(q)
      OBVIOUS
    <2>2. QED BY <2>1
  <1>2. QED BY <1>1, SubSeqProperties

\* Products of naturals are naturals.
LEMMA ProductNat ==
  ASSUME NEW a \in Nat, NEW b \in Nat
  PROVE  a * b \in Nat
  OBVIOUS

\* The information field of a frame is a sequence of octets.
LEMMA ChunkOK ==
  ASSUME NEW s \in EndpointType, NEW i \in Nat \ {0}
  PROVE  Chunk(s, i) \in Octets
  <1> DEFINE src == Source(s)
  <1>1. src \in Seq(Nat) /\ Len(src) \in Nat
    BY SourceOK
  <1> HIDE DEF src
  <1>2. s.n401 \in Nat /\ i - 1 \in Nat
    BY DEF EndpointType
  <1>3. (i - 1) * s.n401 \in Nat /\ i * s.n401 \in Nat
    BY <1>2, ProductNat
  <1>4. (i - 1) * s.n401 + 1 \in Nat \ {0}
    BY <1>3
  <1>5. /\ Smaller(i * s.n401, Len(src)) \in Nat
        /\ Smaller(i * s.n401, Len(src)) <= Len(src)
    BY <1>1, <1>3 DEF Smaller
  <1>6. SubSeq(src, (i - 1) * s.n401 + 1, Smaller(i * s.n401, Len(src)))
          \in Seq(Nat)
    BY <1>1, <1>4, <1>5, SliceOK
  <1>7. QED BY <1>6 DEF Chunk, Octets, src

\* _fill_window never emits more frames than the window has room for.
LEMMA FittingOK ==
  ASSUME NEW s \in EndpointType
  PROVE  /\ Fitting(s) \in Nat
         /\ Fitting(s) > 0 => Outstanding(s) + Fitting(s) <= s.window
  <1> DEFINE len == Len(Source(s))
  <1> DEFINE room == s.window - Outstanding(s)
  <1>1. len \in Nat /\ s.n401 \in Nat \ {0} /\ s.window \in Nat
    BY SourceOK, SequenceAssumption DEF EndpointType
  <1>2. Outstanding(s) \in Nat
    <2>1. Sub(s.vs, s.va) \in SeqNo
      BY SubIsDistance DEF EndpointType
    <2>2. QED BY <2>1, SequenceAssumption DEF Outstanding, SeqNo
  <1> HIDE DEF len
  <1>3. CASE room <= 0 \/ len = 0
    BY <1>3 DEF Fitting, len
  <1>4. CASE ~ (room <= 0 \/ len = 0)
    <2>1. ((len - 1) \div s.n401) + 1 \in Nat
      <3>1. len - 1 \in Nat
        BY <1>1, <1>4
      <3>2. (len - 1) \div s.n401 \in Nat
        BY <1>1, <3>1, DivideNat
      <3>3. QED BY <3>2
    <2>2. Fitting(s) = Smaller(room, ((len - 1) \div s.n401) + 1)
      BY <1>4 DEF Fitting, len
    <2>3. room \in Nat
      BY <1>1, <1>2, <1>4
    <2> DEFINE k == ((len - 1) \div s.n401) + 1
    <2> HIDE DEF k
    <2>4. Smaller(room, k) \in Nat /\ Smaller(room, k) <= room
      BY <2>1, <2>3 DEF Smaller, k
    <2>5. QED BY <1>1, <1>2, <2>2, <2>4 DEF k
  <1>5. QED BY <1>3, <1>4

\* _fill_window keeps the window exact while it moves V(S).
LEMMA FillWindowOK ==
  ASSUME NEW e \in Endpoints, NEW s, EndpointOK(e, s)
  PROVE  EndpointOK(e, FillWindow(s))
  <1> DEFINE n == Fitting(s)
  <1> DEFINE src == Source(s)
  <1> DEFINE rest == SubSeq(src, Smaller(n * s.n401, Len(src)) + 1, Len(src))
  <1> DEFINE fresh == {Add(s.vs, i - 1) : i \in 1 .. n}
  <1> DEFINE held == [q \in SeqNo |-> IF q \in fresh
                       THEN Chunk(s, Sub(q, s.vs) + 1) ELSE s.unacked[q]]
  <1> DEFINE new == [i \in 1 .. n |->
                       InfoFrame(s, Add(s.vs, i - 1), Chunk(s, i))]
  <1> DEFINE d == [s EXCEPT
       !.tx_stream = IF s.codec THEN <<>> ELSE rest,
       !.tx_transfer = IF s.codec THEN rest ELSE @,
       !.tx_base = Base(s),
       !.held = @ \cup fresh, !.unacked = held, !.tx = @ \o new,
       !.vs = Add(@, n)]
  <1>1. FillWindow(s) = IF ~ s.connected \/ s.peer_busy THEN s ELSE d
    BY DEF FillWindow
  <1>2. /\ s \in EndpointType /\ s.va \in SeqNo /\ s.vs \in SeqNo
        /\ s.held = {q \in SeqNo : Sub(q, s.va) < Outstanding(s)}
        /\ s.unacked \in [SeqNo -> Octets] /\ s.tx \in Seq(Frame)
        /\ s.n401 \in Nat /\ s.window \in 1 .. (Mod - 1)
        /\ s.window <= Window[e] /\ Outstanding(s) <= Window[e]
        /\ s.tx_transfer \in Octets /\ Base(s) \in Nat
    BY BaseOK DEF EndpointOK, EndpointType, WindowOK
  <1>3. /\ Mod \in Nat \ {0} /\ Window[e] \in 1 .. (Mod - 1)
    BY SequenceAssumption
  <1>4. /\ n \in Nat
        /\ n > 0 => Outstanding(s) + n <= s.window
        /\ Outstanding(s) \in 0 .. (Mod - 1)
        /\ Outstanding(s) = Distance(s.vs, s.va, Mod)
    BY <1>2, FittingOK, SubIsDistance DEF Outstanding, SeqNo
  <1> HIDE DEF n
  <1>5. Outstanding(s) + n <= Window[e] /\ n \in 0 .. (Mod - 1)
    BY <1>2, <1>3, <1>4
  <1>6. fresh = {q \in SeqNo : Sub(q, s.vs) < n}
    BY <1>2, <1>5, RunMembers
  <1>7. rest \in Octets /\ <<>> \in Octets
    <2>1. src \in Seq(Nat) /\ Len(src) \in Nat
      BY <1>2, SourceOK
    <2> HIDE DEF src
    <2>2. n * s.n401 \in Nat
      BY <1>2, <1>4, ProductNat
    <2>3. Smaller(n * s.n401, Len(src)) + 1 \in Nat \ {0}
      BY <2>1, <2>2 DEF Smaller
    <2>4. QED BY <2>1, <2>3, SliceOK DEF Octets
  <1>8. held \in [SeqNo -> Octets]
    <2>0. \A q \in SeqNo : q \in Nat
      BY <1>3 DEF SeqNo
    <2>1. \A q \in SeqNo : Sub(q, s.vs) + 1 \in Nat \ {0}
      <3> SUFFICES ASSUME NEW q \in SeqNo
                   PROVE  Sub(q, s.vs) + 1 \in Nat \ {0}
        OBVIOUS
      <3>1. Sub(q, s.vs) \in Nat
        BY <1>2, <2>0, SubIsDistance
      <3>2. QED BY <3>1
    <2>2. \A q \in SeqNo : Chunk(s, Sub(q, s.vs) + 1) \in Octets
      BY <1>2, <2>1, ChunkOK
    <2>3. QED BY <1>2, <2>2
  <1>9. s.tx \o new \in Seq(Frame)
    <2>1. \A i \in 1 .. n : Add(s.vs, i - 1) \in SeqNo /\ Chunk(s, i) \in Octets
      <3> SUFFICES ASSUME NEW i \in 1 .. n
                   PROVE  Add(s.vs, i - 1) \in SeqNo /\ Chunk(s, i) \in Octets
        OBVIOUS
      <3>1. i - 1 \in 0 .. (Mod - 1) /\ i \in Nat \ {0}
        BY <1>3, <1>5
      <3>2. QED BY <1>2, <3>1, AddValue, ChunkOK
    <2>2. new \in [1 .. n -> Frame]
      BY <1>2, <2>1, FramesOK
    <2>3. new \in Seq(Frame)
      BY <1>4, <2>2, FunctionIsSeq
    <2>4. QED BY <1>2, <2>3, ConcatProperties
  <1> DEFINE w == Add(s.vs, n)
  <1>10. /\ w \in SeqNo
         /\ w = IF s.vs + n < Mod THEN s.vs + n ELSE s.vs + n - Mod
    BY <1>2, <1>5, AddValue
  <1>11. s.held \cup fresh \in SUBSET SeqNo
    BY <1>2, <1>6
  <1> HIDE DEF rest, fresh, held, new, w
  <1>12. d \in EndpointType
    BY <1>2, <1>7, <1>8, <1>9, <1>10, <1>11 DEF EndpointType, w
  <1>13. /\ d.vs = w /\ d.va = s.va /\ d.held = s.held \cup fresh
         /\ d.window = s.window
    BY <1>2 DEF EndpointType, w
  <1> HIDE DEF d
  <1>14. /\ Outstanding(d) = Outstanding(s) + n
         /\ \A q \in SeqNo : Sub(q, s.va) < Outstanding(s) + n
              <=> Sub(q, s.va) < Outstanding(s) \/ Sub(q, s.vs) < n
    <2>1. Sub(s.vs, s.va) + n <= Mod - 1
      BY <1>3, <1>4, <1>5 DEF Outstanding
    <2>2. QED BY <1>2, <1>5, <1>13, <2>1, FillDistance DEF Outstanding, w
  <1>15. WindowOK(d)
    BY <1>2, <1>6, <1>13, <1>14 DEF WindowOK
  <1>16. Outstanding(d) <= Window[e]
    BY <1>5, <1>14
  <1>17. EndpointOK(e, d)
    BY <1>2, <1>12, <1>13, <1>15, <1>16 DEF EndpointOK
  <1>18. QED BY <1>1, <1>17

-----------------------------------------------------------------------------
(* feed.                                                                    *)

\* XID only ever lowers k, so the window bound survives negotiation.
LEMMA HandleXidOK ==
  ASSUME NEW e \in Endpoints, NEW s, EndpointOK(e, s), NEW f \in XidFrame
  PROVE  EndpointOK(e, HandleXid(e, s, f))
  <1> DEFINE t == [s EXCEPT !.n401 = Smaller(@, f.n401),
                            !.window = Smaller(@, f.k),
                            !.codec = Compression[e] /\ f.comp,
                            !.tx_transfer = <<>>,
                            !.tx_base = 0, !.rx_dict = <<>>]
  <1>1. /\ s.n401 \in Nat \ {0} /\ s.window \in 1 .. (Mod - 1)
        /\ f.n401 \in Nat \ {0} /\ f.k \in Nat \ {0}
        /\ s.window <= Window[e] /\ Mod \in Nat
    BY SequenceAssumption DEF EndpointOK, EndpointType, XidFrame
  <1>2. /\ Smaller(s.n401, f.n401) \in Nat \ {0}
        /\ Smaller(s.window, f.k) \in 1 .. (Mod - 1)
        /\ Smaller(s.window, f.k) <= s.window
    BY <1>1 DEF Smaller
  <1>3. (Compression[e] /\ f.comp) \in BOOLEAN /\ <<>> \in Octets
    BY DEF Octets
  <1>4. t \in EndpointType
    BY <1>2, <1>3 DEF EndpointOK, EndpointType
  <1>5. /\ t.vs = s.vs /\ t.va = s.va /\ t.held = s.held
        /\ t.window = Smaller(s.window, f.k)
    BY DEF EndpointOK, EndpointType
  <1> HIDE DEF t
  <1>6. t.window <= Window[e]
    <2>1. Window[e] \in Nat /\ t.window \in Nat /\ s.window \in Nat
      BY <1>1, <1>2, <1>5, SequenceAssumption
    <2>2. QED BY <1>1, <1>2, <1>5, <2>1
  <1>7. EndpointOK(e, t)
    BY <1>4, <1>5, <1>6 DEF EndpointOK, WindowOK, Outstanding
  <1> DEFINE x == [type |-> "XID", n401 |-> t.n401, k |-> t.window,
                   comp |-> t.codec]
  <1>8. x \in Frame
    <2>1. /\ t.n401 \in Nat \ {0} /\ t.window \in Nat \ {0}
          /\ t.codec \in BOOLEAN
      BY <1>4, SequenceAssumption DEF EndpointType
    <2>2. QED BY <2>1 DEF Frame, XidFrame
  <1> HIDE DEF x
  <1>9. HandleXid(e, s, f) = IF e = Originator THEN t ELSE Queue(t, x)
    BY DEF HandleXid, t, x
  <1>10. QED BY <1>7, <1>8, <1>9, QueueOK

\* What comes out of the decoder is a sequence of octets.
LEMMA DecodeOK ==
  ASSUME NEW s, NEW f, f.data \in Octets
  PROVE  Decode(s, f) \in Seq(Nat)
  <1>1. f.data \in Seq(Nat) /\ Len(f.data) \in Nat
    BY DEF Octets
  <1>2. [i \in 1 .. Len(f.data) |-> Garbage] \in [1 .. Len(f.data) -> Nat]
    BY DEF Garbage
  <1>3. [i \in 1 .. Len(f.data) |-> Garbage] \in Seq(Nat)
    BY <1>1, <1>2, FunctionIsSeq
  <1>4. QED BY <1>1, <1>3 DEF Decode

\* The number after a number is a number.
LEMMA NextNumber ==
  ASSUME NEW i \in SeqNo
  PROVE  Add(i, 1) \in SeqNo
  <1>1. i + 1 \in Nat /\ Mod \in Nat \ {0}
    BY SequenceAssumption DEF SeqNo
  <1>2. QED BY <1>1 DEF Add, SeqNo

\* An I frame keeps an endpoint in order.
LEMMA HandleIOK ==
  ASSUME NEW e \in Endpoints, NEW s, EndpointOK(e, s), NEW f \in IFrame,
         NEW cerror \in BOOLEAN
  PROVE  EndpointOK(e, HandleI(s, f, cerror))
  <1> DEFINE t == Ack(s, f.nr)
  <1> DEFINE u == [t EXCEPT !.vr = Add(@, 1), !.rx_data = @ \o Decode(s, f),
                            !.rx_dict = IF s.codec THEN @ \o Decode(s, f)
                                        ELSE @]
  <1>1. f.nr \in SeqNo /\ f.data \in Octets /\ s \in EndpointType
    BY DEF IFrame, EndpointOK
  <1>2. CASE Len(f.data) > s.n401 \/ ~ AckValid(s, f.nr)
    BY <1>2, SendFrmrOK DEF HandleI
  <1>3. CASE ~ (Len(f.data) > s.n401 \/ ~ AckValid(s, f.nr))
    <2>1. EndpointOK(e, t) /\ t \in EndpointType
      BY <1>1, <1>3, AckOK DEF EndpointOK
    <2>2. HandleI(s, f, cerror) =
            IF f.ns # s.vr THEN Queue(t, Supervisory("REJ", t, FALSE, FALSE))
            ELSE IF cerror /\ s.codec /\ ~ Tuned(s, f) THEN Disconnect(t)
            ELSE Queue(u, Supervisory("RR", u, FALSE, FALSE))
      BY <1>3 DEF HandleI
    <2>3. Decode(s, f) \in Seq(Nat)
      BY <1>1, DecodeOK
    <2> HIDE DEF t
    <2>4. /\ t.rx_data \o Decode(s, f) \in Octets
          /\ (IF s.codec THEN t.rx_dict \o Decode(s, f) ELSE t.rx_dict)
               \in Octets
      BY <2>1, <2>3, ConcatProperties DEF EndpointType, Octets
    <2>5. Add(t.vr, 1) \in SeqNo
      BY <2>1, NextNumber DEF EndpointType
    <2>6. u \in EndpointType
      BY <2>1, <2>4, <2>5 DEF EndpointType
    <2>7. u.vs = t.vs /\ u.va = t.va /\ u.held = t.held /\ u.window = t.window
      BY <2>1 DEF EndpointType
    <2> HIDE DEF u
    <2>8. EndpointOK(e, u)
      BY <2>1, <2>6, <2>7, SameWindow
    <2>9. /\ EndpointOK(e, Queue(t, Supervisory("REJ", t, FALSE, FALSE)))
          /\ EndpointOK(e, Queue(u, Supervisory("RR", u, FALSE, FALSE)))
      BY <2>1, <2>6, <2>8, QueueOK, FramesOK
    <2>10. EndpointOK(e, Disconnect(t))
      BY <2>1, DisconnectOK
    <2>11. QED BY <2>2, <2>9, <2>10
  <1>4. QED BY <1>2, <1>3

\* RR, RNR and REJ keep an endpoint in order.
LEMMA HandleSOK ==
  ASSUME NEW e \in Endpoints, NEW s, EndpointOK(e, s), NEW f \in SFrame
  PROVE  EndpointOK(e, HandleS(s, f))
  <1> DEFINE busy == f.type = "RNR"
  <1> DEFINE a == Ack(s, f.nr)
  <1> DEFINE t == [a EXCEPT !.peer_busy = busy,
                            !.retries = IF busy THEN 0 ELSE @,
                            !.since_ack = IF busy THEN 0 ELSE @]
  <1> DEFINE r == RetransmitFrom(t, f.nr)
  <1> DEFINE v == [r EXCEPT !.retries = 0]
  <1> DEFINE u == IF f.type = "REJ" THEN v ELSE t
  <1>1. f.nr \in SeqNo
    BY DEF SFrame
  <1>2. CASE ~ AckValid(s, f.nr)
    BY <1>2, SendFrmrOK DEF HandleS
  <1>3. CASE AckValid(s, f.nr)
    <2>1. EndpointOK(e, a) /\ a \in EndpointType /\ a.va = f.nr
      BY <1>1, <1>3, AckOK DEF EndpointOK
    <2>2. HandleS(s, f) = IF f.pf /\ f.cmd
                          THEN Queue(u, Supervisory("RR", u, TRUE, FALSE)) ELSE u
      BY <1>3 DEF HandleS
    <2> HIDE DEF a
    <2>3. busy \in BOOLEAN
      OBVIOUS
    <2> HIDE DEF busy
    <2>4. t \in EndpointType
      BY <2>1, <2>3 DEF EndpointType
    <2>5. t.vs = a.vs /\ t.va = a.va /\ t.held = a.held /\ t.window = a.window
      BY <2>1 DEF EndpointType
    <2> HIDE DEF t
    <2>6. EndpointOK(e, t)
      BY <2>1, <2>4, <2>5, SameWindow
    <2>7. EndpointOK(e, r) /\ r \in EndpointType
      BY <2>1, <2>5, <2>6, RetransmitOK DEF EndpointOK
    <2> HIDE DEF r
    <2>8. v \in EndpointType
      BY <2>7 DEF EndpointType
    <2>9. v.vs = r.vs /\ v.va = r.va /\ v.held = r.held /\ v.window = r.window
      BY <2>7 DEF EndpointType
    <2> HIDE DEF v
    <2>10. EndpointOK(e, u) /\ u \in EndpointType
      BY <2>4, <2>6, <2>7, <2>8, <2>9, SameWindow
    <2> HIDE DEF u
    <2>11. EndpointOK(e, Queue(u, Supervisory("RR", u, TRUE, FALSE)))
      BY <2>10, QueueOK, FramesOK
    <2>12. QED BY <2>2, <2>10, <2>11
  <1>4. QED BY <1>2, <1>3

\* _handle as a whole keeps an endpoint in order.
LEMMA HandleOK ==
  ASSUME NEW e \in Endpoints, NEW r, EndpointOK(e, r), NEW f \in Frame,
         NEW cerror \in BOOLEAN
  PROVE  EndpointOK(e, Handle(e, r, f, cerror))
  <1> DEFINE s == [r EXCEPT !.inactivity = 0]
  <1> DEFINE c == [s EXCEPT !.connected = FALSE]
  <1>1. /\ s \in EndpointType /\ c \in EndpointType
        /\ s.vs = r.vs /\ s.va = r.va /\ s.held = r.held /\ s.window = r.window
        /\ c.vs = r.vs /\ c.va = r.va /\ c.held = r.held /\ c.window = r.window
    BY DEF EndpointOK, EndpointType
  <1>2. EndpointOK(e, s) /\ EndpointOK(e, c)
    BY <1>1, SameWindow
  <1>h. Handle(e, r, f, cerror) =
       CASE f.type = "XID" -> HandleXid(e, s, f)
         [] f.type = "UA" -> IF s.awaiting_ua THEN Establish(s) ELSE s
         [] f.type = "SABME" -> Queue(Establish(s), U("UA"))
         [] f.type = "DISC" -> Disconnect(Queue(c, U("UA")))
         [] f.type = "FRMR" -> SendFrmr(s)
         [] f.type \in {"I", "RR", "RNR", "REJ"} /\ s.awaiting_ua -> s
         [] f.type = "I" /\ ~ s.awaiting_ua -> HandleI(s, f, cerror)
         [] f.type \in {"RR", "RNR", "REJ"} /\ ~ s.awaiting_ua -> HandleS(s, f)
    BY DEF Handle
  <1> HIDE DEF s, c
  <1>3. CASE f \in XidFrame
    <2>1. f.type = "XID"
      BY <1>3 DEF XidFrame
    <2>2. Handle(e, r, f, cerror) = HandleXid(e, s, f)
      BY <1>h, <2>1
    <2>3. QED BY <1>2, <1>3, <2>2, HandleXidOK
  <1>4. CASE f \in UFrame
    <2>1. f.type \in {"SABME", "UA", "DISC", "FRMR"}
      BY <1>4 DEF UFrame
    <2>2. Handle(e, r, f, cerror) \in
            {s, Establish(s), Queue(Establish(s), U("UA")),
             Disconnect(Queue(c, U("UA"))), SendFrmr(s)}
      BY <1>h, <2>1
    <2>3. EndpointOK(e, Establish(s))
      BY <1>2, EstablishOK
    <2>4. EndpointOK(e, Queue(Establish(s), U("UA")))
      BY <2>3, QueueOK, FramesOK
    <2>5. EndpointOK(e, Disconnect(Queue(c, U("UA"))))
      BY <1>2, QueueOK, DisconnectOK, FramesOK
    <2>6. EndpointOK(e, SendFrmr(s))
      BY <1>2, SendFrmrOK
    <2>7. QED BY <1>2, <2>2, <2>3, <2>4, <2>5, <2>6
  <1>5. CASE f \in IFrame
    <2>1. f.type = "I"
      BY <1>5 DEF IFrame
    <2>2. Handle(e, r, f, cerror) \in {s, HandleI(s, f, cerror)}
      BY <1>h, <2>1
    <2>3. QED BY <1>2, <1>5, <2>2, HandleIOK
  <1>6. CASE f \in SFrame
    <2>1. f.type \in {"RR", "RNR", "REJ"}
      BY <1>6 DEF SFrame
    <2>2. Handle(e, r, f, cerror) \in {s, HandleS(s, f)}
      BY <1>h, <2>1
    <2>3. QED BY <1>2, <1>6, <2>2, HandleSOK
  <1>7. QED BY <1>3, <1>4, <1>5, <1>6 DEF Frame

-----------------------------------------------------------------------------
(* take.                                                                    *)

\* A step that only moves timers and counters leaves an endpoint in order.
LEMMA TimersOK ==
  ASSUME NEW e \in Endpoints, NEW s, EndpointOK(e, s), NEW n \in Nat, NEW m \in Nat
  PROVE  /\ EndpointOK(e, [s EXCEPT !.since_ack = n])
         /\ EndpointOK(e, [s EXCEPT !.inactivity = n])
         /\ EndpointOK(e, [s EXCEPT !.establish_ticks = n])
         /\ EndpointOK(e, [s EXCEPT !.suspended_for = n])
         /\ EndpointOK(e, [s EXCEPT !.retries = n])
         /\ EndpointOK(e, [s EXCEPT !.retries = n, !.establish_ticks = m])
         /\ EndpointOK(e, [s EXCEPT !.retries = n, !.since_ack = m])
  <1>1. s \in EndpointType
    BY DEF EndpointOK
  <1>2. EndpointOK(e, [s EXCEPT !.since_ack = n])
    <2> DEFINE d == [s EXCEPT !.since_ack = n]
    <2>1. d \in EndpointType
      BY <1>1 DEF EndpointType
    <2>2. d.vs = s.vs /\ d.va = s.va /\ d.held = s.held /\ d.window = s.window
      BY <1>1 DEF EndpointType
    <2> HIDE DEF d
    <2>3. EndpointOK(e, d)
      BY <2>1, <2>2, SameWindow
    <2>4. QED BY <2>3 DEF d
  <1>3. EndpointOK(e, [s EXCEPT !.inactivity = n])
    <2> DEFINE d == [s EXCEPT !.inactivity = n]
    <2>1. d \in EndpointType
      BY <1>1 DEF EndpointType
    <2>2. d.vs = s.vs /\ d.va = s.va /\ d.held = s.held /\ d.window = s.window
      BY <1>1 DEF EndpointType
    <2> HIDE DEF d
    <2>3. EndpointOK(e, d)
      BY <2>1, <2>2, SameWindow
    <2>4. QED BY <2>3 DEF d
  <1>4. EndpointOK(e, [s EXCEPT !.establish_ticks = n])
    <2> DEFINE d == [s EXCEPT !.establish_ticks = n]
    <2>1. d \in EndpointType
      BY <1>1 DEF EndpointType
    <2>2. d.vs = s.vs /\ d.va = s.va /\ d.held = s.held /\ d.window = s.window
      BY <1>1 DEF EndpointType
    <2> HIDE DEF d
    <2>3. EndpointOK(e, d)
      BY <2>1, <2>2, SameWindow
    <2>4. QED BY <2>3 DEF d
  <1>5. EndpointOK(e, [s EXCEPT !.suspended_for = n])
    <2> DEFINE d == [s EXCEPT !.suspended_for = n]
    <2>1. d \in EndpointType
      BY <1>1 DEF EndpointType
    <2>2. d.vs = s.vs /\ d.va = s.va /\ d.held = s.held /\ d.window = s.window
      BY <1>1 DEF EndpointType
    <2> HIDE DEF d
    <2>3. EndpointOK(e, d)
      BY <2>1, <2>2, SameWindow
    <2>4. QED BY <2>3 DEF d
  <1>6. EndpointOK(e, [s EXCEPT !.retries = n])
    <2> DEFINE d == [s EXCEPT !.retries = n]
    <2>1. d \in EndpointType
      BY <1>1 DEF EndpointType
    <2>2. d.vs = s.vs /\ d.va = s.va /\ d.held = s.held /\ d.window = s.window
      BY <1>1 DEF EndpointType
    <2> HIDE DEF d
    <2>3. EndpointOK(e, d)
      BY <2>1, <2>2, SameWindow
    <2>4. QED BY <2>3 DEF d
  <1>7. EndpointOK(e, [s EXCEPT !.retries = n, !.establish_ticks = m])
    <2> DEFINE d == [s EXCEPT !.retries = n, !.establish_ticks = m]
    <2>1. d \in EndpointType
      BY <1>1 DEF EndpointType
    <2>2. d.vs = s.vs /\ d.va = s.va /\ d.held = s.held /\ d.window = s.window
      BY <1>1 DEF EndpointType
    <2> HIDE DEF d
    <2>3. EndpointOK(e, d)
      BY <2>1, <2>2, SameWindow
    <2>4. QED BY <2>3 DEF d
  <1>8. EndpointOK(e, [s EXCEPT !.retries = n, !.since_ack = m])
    <2> DEFINE d == [s EXCEPT !.retries = n, !.since_ack = m]
    <2>1. d \in EndpointType
      BY <1>1 DEF EndpointType
    <2>2. d.vs = s.vs /\ d.va = s.va /\ d.held = s.held /\ d.window = s.window
      BY <1>1 DEF EndpointType
    <2> HIDE DEF d
    <2>3. EndpointOK(e, d)
      BY <2>1, <2>2, SameWindow
    <2>4. QED BY <2>3 DEF d
  <1>9. QED BY <1>2, <1>3, <1>4, <1>5, <1>6, <1>7, <1>8

\* The hold after a disturbance counts down to a resumption.
LEMMA HoldTickOK ==
  ASSUME NEW e \in Endpoints, NEW s, EndpointOK(e, s), Suspended(s)
  PROVE  EndpointOK(e, HoldTick(s))
  <1> DEFINE t == [s EXCEPT !.suspended_for = @ - 1]
  <1>1. s.suspended_for \in Nat
    BY DEF EndpointOK, EndpointType
  <1>2. s.suspended_for - 1 \in Nat
    BY <1>1 DEF Suspended
  <1>3. EndpointOK(e, t)
    BY <1>2, TimersOK
  <1>4. HoldTick(s) = IF t.suspended_for = 0 THEN Resume(t) ELSE t
    BY DEF HoldTick
  <1> HIDE DEF t
  <1>5. QED BY <1>3, <1>4, ResumeOK

\* T401 of the establishment either counts or sends the SABME again.
LEMMA EstablishTickOK ==
  ASSUME NEW e \in Endpoints, NEW s, EndpointOK(e, s)
  PROVE  EndpointOK(e, EstablishTick(s))
  <1> DEFINE a == [s EXCEPT !.establish_ticks = @ + 1]
  <1> DEFINE b == [s EXCEPT !.retries = @ + 1, !.establish_ticks = 0]
  <1>1. s.establish_ticks + 1 \in Nat /\ s.retries + 1 \in Nat
    BY DEF EndpointOK, EndpointType
  <1>2. EndpointOK(e, a) /\ EndpointOK(e, b)
    BY <1>1, TimersOK
  <1>3. EstablishTick(s) \in {s, a, Queue(b, U("SABME"))}
    BY DEF EstablishTick
  <1> HIDE DEF a, b
  <1>4. QED BY <1>2, <1>3, QueueOK, FramesOK

\* Waiting on a busy peer counts, enquires, or gives the link up.
LEMMA BusyTickOK ==
  ASSUME NEW e \in Endpoints, NEW s, EndpointOK(e, s)
  PROVE  EndpointOK(e, BusyTick(s))
  <1> DEFINE a == [s EXCEPT !.since_ack = @ + 1]
  <1> DEFINE q == Queue(s, Supervisory("RR", s, TRUE, TRUE))
  <1> DEFINE b == [q EXCEPT !.retries = @ + 1, !.since_ack = 0]
  <1>1. s.since_ack + 1 \in Nat /\ s \in EndpointType
    BY DEF EndpointOK, EndpointType
  <1>2. EndpointOK(e, a)
    BY <1>1, TimersOK
  <1>3. EndpointOK(e, q)
    BY <1>1, QueueOK, FramesOK
  <1>4. BusyTick(s) \in {a, b, LinkFailure(s)}
    BY DEF BusyTick
  <1> HIDE DEF a, q
  <1>5. q.retries + 1 \in Nat
    <2>1. q.retries \in Nat
      BY <1>3 DEF EndpointOK, EndpointType
    <2>2. QED BY <2>1
  <1>6. EndpointOK(e, b)
    BY <1>3, <1>5, TimersOK
  <1> HIDE DEF b
  <1>7. EndpointOK(e, LinkFailure(s))
    BY LinkFailureOK
  <1>8. QED BY <1>2, <1>4, <1>6, <1>7

\* The window timer counts, polls, goes back N, or gives the link up.
LEMMA WindowTickOK ==
  ASSUME NEW e \in Endpoints, NEW s, EndpointOK(e, s)
  PROVE  EndpointOK(e, WindowTick(s))
  <1> DEFINE z == [s EXCEPT !.since_ack = 0]
  <1> DEFINE t == [s EXCEPT !.since_ack = @ + 1]
  <1> DEFINE q == Queue(t, Supervisory("RR", t, TRUE, TRUE))
  <1> DEFINE g == RetransmitFrom(t, t.va)
  <1> DEFINE b == [g EXCEPT !.retries = @ + 1]
  <1>1. s.since_ack + 1 \in Nat /\ s \in EndpointType
    BY DEF EndpointOK, EndpointType
  <1>2. EndpointOK(e, z) /\ EndpointOK(e, t)
    BY <1>1, TimersOK
  <1>3. WindowTick(s) \in {z, t, q, b, LinkFailure(t)}
    BY DEF WindowTick
  <1> HIDE DEF z, t
  <1>4. EndpointOK(e, q)
    BY <1>2, QueueOK, FramesOK DEF EndpointOK
  <1>5. EndpointOK(e, g)
    BY <1>2, RetransmitOK
  <1>6. EndpointOK(e, LinkFailure(t))
    BY <1>2, LinkFailureOK
  <1> HIDE DEF q, g
  <1>7. g.retries + 1 \in Nat
    <2>1. g.retries \in Nat
      BY <1>5 DEF EndpointOK, EndpointType
    <2>2. QED BY <2>1
  <1>8. EndpointOK(e, b)
    BY <1>5, <1>7, TimersOK
  <1> HIDE DEF b
  <1>9. QED BY <1>2, <1>3, <1>4, <1>6, <1>8

\* _service as a whole.
LEMMA ServiceOK ==
  ASSUME NEW e \in Endpoints, NEW r, EndpointOK(e, r)
  PROVE  EndpointOK(e, Service(r))
  <1> DEFINE f == FillWindow(r)
  <1> DEFINE i == [f EXCEPT !.inactivity = @ + 1]
  <1> DEFINE s == IF InactivityAfter > 0 THEN i ELSE f
  <1> DEFINE t == EstablishTick(s)
  <1>1. EndpointOK(e, f)
    BY FillWindowOK
  <1>2. Service(r) =
          CASE r.failed -> r
            [] ~ r.failed /\ Suspended(r) -> HoldTick(r)
            [] ~ r.failed /\ ~ Suspended(r) ->
                 IF InactivityDue(f) \/ (EstablishDue(s) /\ s.retries >= N400)
                 THEN Disconnect(s)
                 ELSE IF t.peer_busy THEN BusyTick(t) ELSE WindowTick(t)
    BY DEF Service
  <1> HIDE DEF f
  <1>3. f.inactivity + 1 \in Nat
    <2>1. f.inactivity \in Nat
      BY <1>1 DEF EndpointOK, EndpointType
    <2>2. QED BY <2>1
  <1>4. EndpointOK(e, i)
    BY <1>1, <1>3, TimersOK
  <1> HIDE DEF i
  <1>5. EndpointOK(e, s)
    BY <1>1, <1>4
  <1> HIDE DEF s
  <1>6. EndpointOK(e, t)
    BY <1>5, EstablishTickOK
  <1> HIDE DEF t
  <1>7. /\ EndpointOK(e, Disconnect(s))
        /\ EndpointOK(e, BusyTick(t))
        /\ EndpointOK(e, WindowTick(t))
    BY <1>5, <1>6, DisconnectOK, BusyTickOK, WindowTickOK
  <1>8. CASE r.failed
    BY <1>2, <1>8
  <1>9. CASE ~ r.failed /\ Suspended(r)
    BY <1>2, <1>9, HoldTickOK
  <1>10. CASE ~ r.failed /\ ~ Suspended(r)
    <2>1. Service(r) \in {Disconnect(s), BusyTick(t), WindowTick(t)}
      BY <1>2, <1>10
    <2>2. QED BY <1>7, <2>1
  <1>11. QED BY <1>8, <1>9, <1>10

-----------------------------------------------------------------------------
(* The inductive invariant and the two theorems.                            *)

\* Every endpoint has its types and an exact window that never exceeds the
\* constructor's k, which the negotiated k never exceeds either.
IInv ==
  /\ ep \in [Endpoints -> EndpointType]
  /\ \A e \in Endpoints : EndpointOK(e, ep[e])
  /\ faults \in [lost : Nat, disturbed : Nat, busy : Nat]

\* The endpoints the constructor makes, one of them with its XID and SABME
\* queued, satisfy the invariant.
LEMMA InitOK ==
  Init => IInv
  <1> SUFFICES ASSUME Init PROVE IInv
    OBVIOUS
  <1>1. ASSUME NEW e \in Endpoints
        PROVE  EndpointOK(e, NewEndpoint(e))
    <2> DEFINE s == NewEndpoint(e)
    <2>1. /\ 0 \in SeqNo /\ NoFrames \in [SeqNo -> Octets] /\ <<>> \in Octets
          /\ Window[e] \in 1 .. (Mod - 1) /\ N401[e] \in Nat \ {0}
          /\ Reestablish \in Nat /\ Mod \in Nat
      BY SequenceAssumption, TimerAssumption DEF NoFrames, SeqNo, Octets
    <2>2. s \in EndpointType
      BY <2>1 DEF NewEndpoint, EndpointType
    <2>3. s.vs = 0 /\ s.va = 0 /\ s.held = {} /\ s.window = Window[e]
      BY DEF NewEndpoint
    <2> HIDE DEF s
    <2>4. Outstanding(s) = 0
      BY <2>1, <2>3, SubValue DEF Outstanding
    <2>5. \A q \in SeqNo : Sub(q, s.va) \in Nat
      <3>1. \A q \in SeqNo : Sub(q, s.va) \in SeqNo
        BY <2>1, <2>3, SubIsDistance
      <3>2. QED BY <2>1, <3>1 DEF SeqNo
    <2>6. WindowOK(s)
      BY <2>3, <2>4, <2>5 DEF WindowOK
    <2>7. Window[e] \in Nat /\ Window[e] >= 0
      BY <2>1
    <2>8. EndpointOK(e, s)
      BY <2>2, <2>3, <2>4, <2>6, <2>7 DEF EndpointOK
    <2>9. QED BY <2>8 DEF s
  <1>2. EndpointOK(Originator, BeginOriginatorProtocol(NewEndpoint(Originator)))
    <2> DEFINE s == NewEndpoint(Originator)
    <2> DEFINE x == [type |-> "XID", n401 |-> s.n401, k |-> s.window,
                     comp |-> Compression[Originator]]
    <2> DEFINE d == [s EXCEPT !.awaiting_ua = TRUE, !.tx = <<x, U("SABME")>>]
    <2>1. EndpointOK(Originator, s)
      BY <1>1 DEF Endpoints
    <2>2. BeginOriginatorProtocol(s) = d
      BY DEF BeginOriginatorProtocol
    <2> HIDE DEF s
    <2>3. x \in Frame
      <3>1. /\ s.n401 \in Nat \ {0} /\ s.window \in Nat \ {0}
            /\ Compression[Originator] \in BOOLEAN
        BY <2>1, SequenceAssumption, BoundAssumption
           DEF EndpointOK, EndpointType, Endpoints
      <3>2. QED BY <3>1 DEF Frame, XidFrame
    <2> HIDE DEF x
    <2>4. <<x, U("SABME")>> \in Seq(Frame)
      BY <2>3, FramesOK
    <2>5. d \in EndpointType
      BY <2>1, <2>4 DEF EndpointOK, EndpointType
    <2>6. d.vs = s.vs /\ d.va = s.va /\ d.held = s.held /\ d.window = s.window
      BY <2>1 DEF EndpointOK, EndpointType
    <2> HIDE DEF d
    <2>7. EndpointOK(Originator, d)
      BY <2>1, <2>5, <2>6, SameWindow DEF Endpoints
    <2>8. QED BY <2>2, <2>7 DEF s
  <1>3. \A e \in Endpoints : EndpointOK(e, ep[e])
    BY <1>1, <1>2 DEF Init
  <1>4. ep \in [Endpoints -> EndpointType]
    BY <1>3 DEF Init, EndpointOK
  <1>5. faults \in [lost : Nat, disturbed : Nat, busy : Nat]
    BY DEF Init
  <1>6. QED BY <1>3, <1>4, <1>5 DEF IInv

\* Replacing one endpoint, or both, by endpoints in order keeps the
\* invariant's part about ep.
LEMMA EndpointsOK ==
  ASSUME NEW g, g = [d \in Endpoints |-> g[d]],
         \A d \in Endpoints : EndpointOK(d, g[d])
  PROVE  g \in [Endpoints -> EndpointType]
  BY DEF EndpointOK

\* A queue that lost frames at either end is still a queue of frames, and
\* changes nothing else.
LEMMA ShorterQueueOK ==
  ASSUME NEW e \in Endpoints, NEW s, EndpointOK(e, s)
  PROVE  /\ s.tx # <<>> => /\ EndpointOK(e, [s EXCEPT !.tx = Tail(@)])
                           /\ Head(s.tx) \in Frame
         /\ \A n \in 0 .. Len(s.tx), h \in Nat :
              EndpointOK(e, [s EXCEPT !.suspended_for = h,
                                      !.tx = SubSeq(@, 1, n)])
  <1>1. s \in EndpointType /\ s.tx \in Seq(Frame)
    BY DEF EndpointOK, EndpointType
  <1>2. ASSUME NEW q \in Seq(Frame), NEW h \in Nat
        PROVE  /\ EndpointOK(e, [s EXCEPT !.suspended_for = h, !.tx = q])
               /\ EndpointOK(e, [s EXCEPT !.tx = q])
    <2> DEFINE d == [s EXCEPT !.suspended_for = h, !.tx = q]
    <2> DEFINE c == [s EXCEPT !.tx = q]
    <2>1. d \in EndpointType
      BY <1>1 DEF EndpointType
    <2>2. c \in EndpointType
      BY <1>1 DEF EndpointType
    <2>3. /\ d.vs = s.vs /\ d.va = s.va /\ d.held = s.held
          /\ d.window = s.window
      BY <1>1 DEF EndpointType
    <2>4. /\ c.vs = s.vs /\ c.va = s.va /\ c.held = s.held
          /\ c.window = s.window
      BY <1>1 DEF EndpointType
    <2> HIDE DEF d, c
    <2>5. EndpointOK(e, d) /\ EndpointOK(e, c)
      BY <2>1, <2>2, <2>3, <2>4, SameWindow
    <2>6. QED BY <2>5 DEF d, c
  <1>3. ASSUME s.tx # <<>>
        PROVE  /\ EndpointOK(e, [s EXCEPT !.tx = Tail(@)])
               /\ Head(s.tx) \in Frame
    <2>1. Tail(s.tx) \in Seq(Frame) /\ Head(s.tx) \in Frame
      BY <1>1, <1>3, HeadTailProperties
    <2>2. QED BY <1>2, <2>1
  <1>4. ASSUME NEW n \in 0 .. Len(s.tx), NEW h \in Nat
        PROVE  EndpointOK(e, [s EXCEPT !.suspended_for = h,
                                       !.tx = SubSeq(@, 1, n)])
    <2>1. SubSeq(s.tx, 1, n) \in Seq(Frame)
      BY <1>1, SubSeqProperties
    <2>2. QED BY <1>2, <2>1
  <1>5. QED BY <1>3, <1>4

\* Every action of either end, and every fault of the line, keeps the
\* invariant.
LEMMA NextOK ==
  IInv /\ [Next]_vars => IInv'
  <1> SUFFICES ASSUME IInv, [Next]_vars PROVE IInv'
    OBVIOUS
  <1>0. /\ ep \in [Endpoints -> EndpointType]
        /\ \A e \in Endpoints : EndpointOK(e, ep[e])
        /\ faults \in [lost : Nat, disturbed : Nat, busy : Nat]
    BY DEF IInv
  <1>e. \A e \in Endpoints : Peer(e) \in Endpoints
    BY DEF Peer, Endpoints
  \* A step that gives endpoint e a new record r, in order, is a good one.
  <1>a. ASSUME NEW e \in Endpoints, NEW r, EndpointOK(e, r),
               ep' = [ep EXCEPT ![e] = r],
               faults' \in [lost : Nat, disturbed : Nat, busy : Nat]
        PROVE  IInv'
    <2>1. \A d \in Endpoints : EndpointOK(d, ep'[d])
      BY <1>0, <1>a
    <2>2. ep' \in [Endpoints -> EndpointType]
      BY <1>0, <1>a DEF EndpointOK
    <2>3. QED BY <2>1, <2>2, <1>a DEF IInv, EndpointOK, WindowOK, Outstanding
  <1>1. ASSUME NEW e \in Endpoints, Send(e) PROVE IInv'
    <2> DEFINE s == ep[e]
    <2> DEFINE r == [s EXCEPT !.sent = @ + 1,
                              !.tx_stream = Append(@, s.sent + 1)]
    <2>1. ep' = [ep EXCEPT ![e] = r] /\ UNCHANGED faults
      BY <1>0, <1>1 DEF Send, EndpointType
    <2>2. s \in EndpointType /\ EndpointOK(e, s)
      BY <1>0
    <2> HIDE DEF s
    <2>3. s.sent + 1 \in Nat /\ Append(s.tx_stream, s.sent + 1) \in Octets
      BY <2>2 DEF EndpointType, Octets
    <2>4. r \in EndpointType
      BY <2>2, <2>3 DEF EndpointType
    <2>5. r.vs = s.vs /\ r.va = s.va /\ r.held = s.held /\ r.window = s.window
      BY <2>2 DEF EndpointType
    <2> HIDE DEF r
    <2>6. EndpointOK(e, r)
      BY <2>2, <2>4, <2>5, SameWindow
    <2>7. QED BY <1>0, <1>a, <2>1, <2>6
  <1>2. ASSUME NEW e \in Endpoints, Take(e) PROVE IInv'
    <2>1. ep' = [ep EXCEPT ![e] = Service(ep[e])] /\ UNCHANGED faults
      BY <1>2 DEF Take
    <2>2. EndpointOK(e, Service(ep[e]))
      BY <1>0, ServiceOK
    <2>3. QED BY <1>0, <1>a, <2>1, <2>2
  <1>3. ASSUME TakeTogether PROVE IInv'
    <2>1. ep' = [e \in Endpoints |-> Service(ep[e])] /\ UNCHANGED faults
      BY <1>3 DEF TakeTogether
    <2>2. \A e \in Endpoints : EndpointOK(e, Service(ep[e]))
      BY <1>0, ServiceOK
    <2>3. \A e \in Endpoints : EndpointOK(e, ep'[e])
      BY <2>1, <2>2
    <2>4. ep' \in [Endpoints -> EndpointType]
      BY <2>1, <2>3, EndpointsOK
    <2>5. QED BY <1>0, <2>1, <2>3, <2>4 DEF IInv, EndpointOK, WindowOK, Outstanding
  <1>4. ASSUME NEW e \in Endpoints, Feed(e) PROVE IInv'
    <2> DEFINE p == ep[Peer(e)]
    <2>1. PICK cerror \in BOOLEAN :
            ep' = [d \in Endpoints |->
                     IF d = e THEN Handle(e, ep[e], Head(p.tx), cerror)
                     ELSE [ep[d] EXCEPT !.tx = Tail(@)]]
      BY <1>4 DEF Feed
    <2>2. p.tx # <<>> /\ UNCHANGED faults
      BY <1>4 DEF Feed
    <2>3. EndpointOK(Peer(e), p) /\ Head(p.tx) \in Frame
      BY <1>0, <1>e, <2>2, ShorterQueueOK
    <2>4. EndpointOK(e, Handle(e, ep[e], Head(p.tx), cerror))
      BY <1>0, <2>3, HandleOK
    <2>5. ASSUME NEW d \in Endpoints, d # e
          PROVE  EndpointOK(d, [ep[d] EXCEPT !.tx = Tail(@)])
      <3>1. d = Peer(e)
        BY <2>5 DEF Peer, Endpoints
      <3>2. QED BY <1>0, <2>2, <3>1, ShorterQueueOK
    <2>6. \A d \in Endpoints : EndpointOK(d, ep'[d])
      BY <2>1, <2>4, <2>5
    <2>7. ep' = [d \in Endpoints |-> ep'[d]]
      BY <2>1
    <2>8. ep' \in [Endpoints -> EndpointType]
      BY <2>6, <2>7, EndpointsOK
    <2>9. QED BY <1>0, <2>2, <2>6, <2>8 DEF IInv, EndpointOK, WindowOK, Outstanding
  <1>5. ASSUME NEW e \in Endpoints, Lose(e) PROVE IInv'
    <2> DEFINE r == [ep[e] EXCEPT !.tx = Tail(@)]
    <2>1. ep' = [ep EXCEPT ![e] = r]
      BY <1>0, <1>5 DEF Lose
    <2>2. EndpointOK(e, r)
      BY <1>0, <1>5, ShorterQueueOK DEF Lose
    <2>3. faults' \in [lost : Nat, disturbed : Nat, busy : Nat]
      BY <1>0, <1>5 DEF Lose
    <2>4. QED BY <1>a, <2>1, <2>2, <2>3
  <1>6. ASSUME NEW e \in Endpoints, LineDisturbed(e) PROVE IInv'
    <2> DEFINE h == IF ep[e].suspended_for < RetransmitAfter
                    THEN RetransmitAfter ELSE ep[e].suspended_for
    <2>1. PICK n \in 0 .. Len(ep[e].tx) :
            ep' = [ep EXCEPT ![e].suspended_for =
                           IF @ < RetransmitAfter THEN RetransmitAfter ELSE @,
                        ![e].tx = SubSeq(@, 1, n)]
      BY <1>6 DEF LineDisturbed
    <2> DEFINE r == [ep[e] EXCEPT !.suspended_for = h, !.tx = SubSeq(@, 1, n)]
    <2>2. ep' = [ep EXCEPT ![e] = r]
      BY <1>0, <2>1 DEF EndpointType
    <2>3. h \in Nat
      BY <1>0, TimerAssumption DEF EndpointType
    <2>4. EndpointOK(e, r)
      BY <1>0, <2>3, ShorterQueueOK
    <2>5. faults' \in [lost : Nat, disturbed : Nat, busy : Nat]
      BY <1>0, <1>6 DEF LineDisturbed
    <2>6. QED BY <1>a, <2>2, <2>4, <2>5
  <1>7. ASSUME NEW e \in Endpoints, LineRestored(e) PROVE IInv'
    <2> DEFINE r == [ep[e] EXCEPT !.suspended_for = 0]
    <2>1. ep' = [ep EXCEPT ![e] = Resume(r)] /\ UNCHANGED faults
      BY <1>7 DEF LineRestored
    <2>2. EndpointOK(e, r)
      BY <1>0, TimersOK
    <2> HIDE DEF r
    <2>3. EndpointOK(e, Resume(r))
      BY <2>2, ResumeOK
    <2>4. QED BY <1>0, <1>a, <2>1, <2>3
  <1>8. ASSUME NEW e \in Endpoints, ForeignBusy(e) PROVE IInv'
    <2> DEFINE r == Queue(ep[e], Supervisory("RNR", ep[e], FALSE, FALSE))
    <2>1. ep' = [ep EXCEPT ![e] = r]
      BY <1>8 DEF ForeignBusy
    <2>2. EndpointOK(e, r)
      BY <1>0, QueueOK, FramesOK
    <2>3. faults' \in [lost : Nat, disturbed : Nat, busy : Nat]
      BY <1>0, <1>8 DEF ForeignBusy
    <2>4. QED BY <1>a, <2>1, <2>2, <2>3
  <1>9. CASE UNCHANGED vars
    BY <1>0, <1>9 DEF vars, IInv, EndpointOK, WindowOK, Outstanding
  <1>10. QED
    BY <1>1, <1>2, <1>3, <1>4, <1>5, <1>6, <1>7, <1>8, <1>9 DEF Next

\* The endpoint's attributes keep their types for every modulus, window, N401
\* and timer setting: no sequence variable of v42_lapm.py leaves its range.
THEOREM TypeCorrect ==
  Spec => []TypeOK
  <1>1. IInv => TypeOK
    BY DEF IInv, TypeOK
  <1>2. QED BY InitOK, NextOK, <1>1, PTL DEF Spec

\* For every modulus and window, under any loss, disturbance, retransmission
\* and re-establishment, the dictionary unacked holds exactly the frames from
\* V(A) up to V(S), and at most k of them.
THEOREM WindowExactTheorem ==
  Spec => []WindowExact
  <1>1. IInv => WindowExact
    BY DEF IInv, EndpointOK, WindowOK, WindowExact
  <1>2. QED BY InitOK, NextOK, <1>1, PTL DEF Spec

-----------------------------------------------------------------------------
(* Recovery budgets: retries (N400) and re-establishments.                  *)

\* The budgets of an endpoint, as far as they are used here.
HasBudgets(s) == {"retries", "reestablish_left"} \subseteq DOMAIN s

\* From s to t no budget is spent: each is as it was, or full again.
Frugal(s, t) ==
  /\ HasBudgets(t)
  /\ t.retries \in {0, s.retries}
  /\ t.reestablish_left \in {s.reestablish_left, Reestablish}

\* From s to t at most one re-establishment is spent.
SpendsOne(s, t) ==
  /\ HasBudgets(t)
  /\ t.reestablish_left \in {s.reestablish_left, s.reestablish_left - 1,
                             Reestablish}

\* Two frugal methods, one after the other.
LEMMA FrugalTrans ==
  ASSUME NEW s, NEW t, NEW u, Frugal(s, t), Frugal(t, u)
  PROVE  Frugal(s, u)
  BY DEF Frugal

\* Queueing a frame spends nothing.
LEMMA QueueFrugal ==
  ASSUME NEW s, HasBudgets(s), NEW f
  PROVE  Frugal(s, Queue(s, f))
  BY DEF Queue, Frugal, HasBudgets

\* Nor do _reset_transmit and _establish, which refill.
LEMMA ResetFrugal ==
  ASSUME NEW s, HasBudgets(s)
  PROVE  /\ Frugal(s, ResetTransmit(s))
         /\ Frugal(s, Establish(s))
  <1>1. Frugal(s, ResetTransmit(s))
    BY DEF ResetTransmit, Frugal, HasBudgets
  <1>2. QED BY <1>1 DEF Establish, Frugal, HasBudgets

\* Giving the link up spends nothing.
LEMMA DisconnectFrugal ==
  ASSUME NEW s, HasBudgets(s)
  PROVE  Frugal(s, Disconnect(s))
  <1> DEFINE t == IF s.connected THEN Queue(s, U("DISC")) ELSE s
             r == ResetTransmit(t)
  <1>1. Frugal(s, t)
    BY QueueFrugal DEF Frugal
  <1> HIDE DEF t
  <1>2. Frugal(s, r)
    BY <1>1, ResetFrugal, FrugalTrans DEF Frugal
  <1> HIDE DEF r
  <1>3. Disconnect(s) = IF s.failed THEN s
                        ELSE [r EXCEPT !.connected = FALSE,
                                       !.awaiting_ua = FALSE,
                                       !.tx_stream = <<>>, !.failed = TRUE]
    BY DEF Disconnect, r, t
  <1>4. QED BY <1>2, <1>3 DEF Frugal, HasBudgets

\* Nor does rejecting a frame.
LEMMA SendFrmrFrugal ==
  ASSUME NEW s, HasBudgets(s)
  PROVE  Frugal(s, SendFrmr(s))
  BY QueueFrugal, DisconnectFrugal, FrugalTrans DEF SendFrmr, Frugal

\* _ack only refills the retries, and _retransmit_from leaves them alone.
LEMMA AckFrugal ==
  ASSUME NEW s, HasBudgets(s), NEW nr
  PROVE  Frugal(s, Ack(s, nr)) /\ Frugal(s, RetransmitFrom(s, nr))
  BY DEF Ack, RetransmitFrom, Frugal, HasBudgets

\* XID changes parameters only.
LEMMA HandleXidFrugal ==
  ASSUME NEW s, HasBudgets(s), NEW e, NEW f
  PROVE  Frugal(s, HandleXid(e, s, f))
  <1> DEFINE t == [s EXCEPT !.n401 = Smaller(@, f.n401),
                            !.window = Smaller(@, f.k),
                            !.codec = Compression[e] /\ f.comp,
                            !.tx_transfer = <<>>,
                            !.tx_base = 0, !.rx_dict = <<>>]
             x == [type |-> "XID", n401 |-> t.n401, k |-> t.window,
                   comp |-> t.codec]
  <1>1. Frugal(s, t)
    BY DEF Frugal, HasBudgets
  <1>2. HandleXid(e, s, f) = IF e = Originator THEN t ELSE Queue(t, x)
    BY DEF HandleXid
  <1> HIDE DEF t, x
  <1>3. Frugal(s, Queue(t, x))
    BY <1>1, QueueFrugal, FrugalTrans DEF Frugal
  <1>4. QED BY <1>1, <1>2, <1>3

\* Whatever becomes of an I frame, no budget is spent.
LEMMA HandleIFrugal ==
  ASSUME NEW s, HasBudgets(s), NEW f, NEW cerror
  PROVE  Frugal(s, HandleI(s, f, cerror))
  <1> DEFINE t == Ack(s, f.nr)
             u == [t EXCEPT !.vr = Add(@, 1), !.rx_data = @ \o Decode(s, f),
                            !.rx_dict = IF s.codec THEN @ \o Decode(s, f)
                                        ELSE @]
             rej == Supervisory("REJ", t, FALSE, FALSE)
             rr == Supervisory("RR", u, FALSE, FALSE)
  <1>1. HandleI(s, f, cerror) \in
            {SendFrmr(s), Queue(t, rej), Disconnect(t), Queue(u, rr)}
    BY DEF HandleI
  <1>2. Frugal(s, t)
    BY AckFrugal
  <1> HIDE DEF t, rej, rr
  <1>3. Frugal(s, u)
    BY <1>2 DEF Frugal, HasBudgets
  <1> HIDE DEF u
  <1>4. /\ Frugal(s, SendFrmr(s)) /\ Frugal(s, Queue(t, rej))
        /\ Frugal(s, Disconnect(t)) /\ Frugal(s, Queue(u, rr))
    <2>1. HasBudgets(t) /\ HasBudgets(u)
      BY <1>2, <1>3 DEF Frugal
    <2>2. Frugal(s, SendFrmr(s))
      BY SendFrmrFrugal
    <2>3. Frugal(s, Queue(t, rej)) /\ Frugal(s, Queue(u, rr))
      BY <1>2, <1>3, <2>1, QueueFrugal, FrugalTrans
    <2>4. Frugal(s, Disconnect(t))
      BY <1>2, <2>1, DisconnectFrugal, FrugalTrans
    <2>5. QED BY <2>2, <2>3, <2>4
  <1>5. QED BY <1>1, <1>4

\* Nor of a supervisory frame, though a REJ sends the window again.
LEMMA HandleSFrugal ==
  ASSUME NEW s, HasBudgets(s), NEW f
  PROVE  Frugal(s, HandleS(s, f))
  <1> DEFINE busy == f.type = "RNR"
             a == Ack(s, f.nr)
             t == [a EXCEPT !.peer_busy = busy,
                            !.retries = IF busy THEN 0 ELSE @,
                            !.since_ack = IF busy THEN 0 ELSE @]
             w == RetransmitFrom(t, f.nr)
             x == [w EXCEPT !.retries = 0]
             u == IF f.type = "REJ" THEN x ELSE t
             rr == Supervisory("RR", u, TRUE, FALSE)
  <1>1. HandleS(s, f) \in {SendFrmr(s), Queue(u, rr), u}
    BY DEF HandleS
  <1>2. Frugal(s, a)
    BY AckFrugal
  <1> HIDE DEF a, busy
  <1>3. Frugal(s, t)
    BY <1>2 DEF Frugal, HasBudgets
  <1> HIDE DEF t
  <1>4. Frugal(s, w)
    BY <1>3, AckFrugal, FrugalTrans DEF Frugal
  <1> HIDE DEF w
  <1>5. Frugal(s, x)
    BY <1>4 DEF Frugal, HasBudgets
  <1> HIDE DEF x
  <1>6. Frugal(s, u)
    BY <1>3, <1>5
  <1> HIDE DEF u, rr
  <1>7. Frugal(s, Queue(u, rr))
    BY <1>6, QueueFrugal, FrugalTrans DEF Frugal
  <1>8. Frugal(s, SendFrmr(s))
    BY SendFrmrFrugal
  <1>9. QED BY <1>1, <1>6, <1>7, <1>8

\* feed spends nothing, whatever the frame.
LEMMA HandleFrugal ==
  ASSUME NEW r, HasBudgets(r), NEW e, NEW f \in Frame, NEW cerror
  PROVE  Frugal(r, Handle(e, r, f, cerror))
  <1> DEFINE s == [r EXCEPT !.inactivity = 0]
             b == Establish(s)
             d == [s EXCEPT !.connected = FALSE]
             q == Queue(d, U("UA"))
  <1>0. f.type \in {"XID", "UA", "SABME", "DISC", "FRMR", "I", "RR", "RNR",
                    "REJ"}
    BY DEF Frame, UFrame, XidFrame, SFrame, IFrame
  <1>1. Handle(e, r, f, cerror) \in
            {HandleXid(e, s, f), b, s, Queue(b, U("UA")), Disconnect(q),
             SendFrmr(s), HandleI(s, f, cerror), HandleS(s, f)}
    BY <1>0 DEF Handle
  <1>2. Frugal(r, s)
    BY DEF Frugal, HasBudgets
  <1> HIDE DEF s
  <1>3. Frugal(r, d)
    BY <1>2 DEF Frugal, HasBudgets
  <1> HIDE DEF d
  <1>4. HasBudgets(s) /\ HasBudgets(d)
    BY <1>2, <1>3 DEF Frugal
  <1>5. Frugal(r, b)
    BY <1>2, <1>4, ResetFrugal, FrugalTrans
  <1>6. Frugal(r, q)
    BY <1>3, <1>4, QueueFrugal, FrugalTrans
  <1> HIDE DEF b, q
  <1>7. HasBudgets(b) /\ HasBudgets(q)
    BY <1>5, <1>6 DEF Frugal
  <1>8. Frugal(r, Queue(b, U("UA"))) /\ Frugal(r, Disconnect(q))
    BY <1>5, <1>6, <1>7, QueueFrugal, DisconnectFrugal, FrugalTrans
  <1>9. Frugal(r, HandleXid(e, s, f)) /\ Frugal(r, SendFrmr(s))
    BY <1>2, <1>4, HandleXidFrugal, SendFrmrFrugal, FrugalTrans
  <1>10. Frugal(r, HandleI(s, f, cerror)) /\ Frugal(r, HandleS(s, f))
    BY <1>2, <1>4, HandleIFrugal, HandleSFrugal, FrugalTrans
  <1>11. QED BY <1>1, <1>2, <1>5, <1>8, <1>9, <1>10

\* While it holds the timers, take spends nothing; at other times one
\* re-establishment at most.
LEMMA ServiceSpends ==
  ASSUME NEW r, HasBudgets(r)
  PROVE  /\ SpendsOne(r, Service(r))
         /\ Suspended(r) => Frugal(r, Service(r))
  <1> DEFINE f == FillWindow(r)
             s == IF InactivityAfter > 0 THEN [f EXCEPT !.inactivity = @ + 1]
                  ELSE f
             t == EstablishTick(s)
  \* What only LinkFailure changes.
  <1> DEFINE Same(x) == HasBudgets(x)
                        /\ x.reestablish_left = r.reestablish_left
  <1>1. Same(f)
    BY DEF FillWindow, HasBudgets
  <1>2. Service(r) \in {r, HoldTick(r), Disconnect(s), BusyTick(t),
                        WindowTick(t)}
    BY DEF Service
  <1>3. Suspended(r) => Service(r) \in {r, HoldTick(r)}
    BY DEF Service
  <1>4. Frugal(r, HoldTick(r))
    BY DEF HoldTick, Resume, Frugal, HasBudgets
  <1> HIDE DEF f
  <1>5. Same(s)
    BY <1>1 DEF HasBudgets
  <1> HIDE DEF s
  <1>6. Same(t)
    BY <1>5 DEF EstablishTick, Queue, HasBudgets
  <1> HIDE DEF t
  \* What a method does that starts from such a record.
  <1>7. ASSUME NEW x, Same(x)
        PROVE  /\ SpendsOne(r, LinkFailure(x))
               /\ SpendsOne(r, Disconnect(x))
               /\ \A g : Same(Queue(x, g))
               /\ \A n : Same(RetransmitFrom(x, n))
    <2>1. Frugal(x, Disconnect(x)) /\ Frugal(x, ResetTransmit(x))
      BY <1>7, DisconnectFrugal, ResetFrugal
    <2>2. SpendsOne(r, Disconnect(x))
      BY <1>7, <2>1 DEF Frugal, SpendsOne
    <2> DEFINE y == ResetTransmit(x)
               z == [y EXCEPT !.reestablish_left = @ - 1, !.connected = FALSE,
                              !.tx_stream = <<>>, !.awaiting_ua = TRUE,
                              !.establish_ticks = 0]
    <2>3. LinkFailure(x) \in {Disconnect(x), Queue(z, U("SABME"))}
      BY DEF LinkFailure
    <2>4. Same(y)
      BY <1>7 DEF ResetTransmit, HasBudgets
    <2> HIDE DEF y
    <2>5. HasBudgets(z) /\ z.reestablish_left = r.reestablish_left - 1
      BY <2>4 DEF HasBudgets
    <2> HIDE DEF z
    <2>6. SpendsOne(r, Queue(z, U("SABME")))
      BY <2>5 DEF Queue, SpendsOne, HasBudgets
    <2>7. SpendsOne(r, LinkFailure(x))
      BY <2>2, <2>3, <2>6
    <2>8. \A g : Same(Queue(x, g))
      BY <1>7 DEF Queue, HasBudgets
    <2>9. \A n : Same(RetransmitFrom(x, n))
      BY <1>7 DEF RetransmitFrom, HasBudgets
    <2>10. QED BY <2>2, <2>7, <2>8, <2>9
  <1>8. SpendsOne(r, BusyTick(t))
    <2> DEFINE u == [t EXCEPT !.since_ack = @ + 1]
               v == Queue(t, Supervisory("RR", t, TRUE, TRUE))
               w == [v EXCEPT !.retries = @ + 1, !.since_ack = 0]
    <2>1. BusyTick(t) \in {u, LinkFailure(t), w}
      BY DEF BusyTick
    <2>2. Same(v) /\ SpendsOne(r, LinkFailure(t))
      BY <1>6, <1>7
    <2> HIDE DEF v
    <2>3. Same(u) /\ Same(w)
      BY <1>6, <2>2 DEF HasBudgets
    <2>4. QED BY <2>1, <2>2, <2>3 DEF SpendsOne
  <1>9. SpendsOne(r, WindowTick(t))
    <2> DEFINE u == [t EXCEPT !.since_ack = @ + 1]
               v == Queue(u, Supervisory("RR", u, TRUE, TRUE))
               z == [t EXCEPT !.since_ack = 0]
               g == RetransmitFrom(u, u.va)
               w == [g EXCEPT !.retries = @ + 1]
    <2>1. WindowTick(t) \in {z, v, u, LinkFailure(u), w}
      BY DEF WindowTick
    <2>2. Same(u) /\ Same(z)
      BY <1>6 DEF HasBudgets
    <2> HIDE DEF u, z
    <2>3. Same(v) /\ Same(g) /\ SpendsOne(r, LinkFailure(u))
      BY <1>7, <2>2
    <2> HIDE DEF v, g
    <2>4. Same(w)
      BY <2>3 DEF HasBudgets
    <2>5. QED BY <2>1, <2>2, <2>3, <2>4 DEF SpendsOne
  <1>10. SpendsOne(r, Disconnect(s))
    BY <1>5, <1>7
  <1>11. SpendsOne(r, r) /\ SpendsOne(r, HoldTick(r)) /\ Frugal(r, r)
    BY <1>4 DEF SpendsOne, Frugal
  <1>12. QED BY <1>2, <1>3, <1>4, <1>8, <1>9, <1>10, <1>11

\* The budget of re-establishments never exceeds what the constructor gave.
BudgetBounded == \A e \in Endpoints : ep[e].reestablish_left <= Reestablish

\* What a step of either end, or of the line, does to an endpoint's budgets.
LEMMA NextSpends ==
  ASSUME IInv, [Next]_vars, NEW e \in Endpoints
  PROVE  /\ SpendsOne(ep[e], ep'[e])
         /\ Suspended(ep[e]) => Frugal(ep[e], ep'[e])
  <1>0. /\ ep \in [Endpoints -> EndpointType]
        /\ \A d \in Endpoints : HasBudgets(ep[d])
    BY DEF IInv, EndpointType, HasBudgets
  \* A step that leaves the budgets as they are.
  <1>a. ASSUME HasBudgets(ep'[e]), ep'[e].retries \in {0, ep[e].retries},
               ep'[e].reestablish_left = ep[e].reestablish_left
        PROVE  SpendsOne(ep[e], ep'[e]) /\ Frugal(ep[e], ep'[e])
    BY <1>a DEF SpendsOne, Frugal
  <1>b. ASSUME Frugal(ep[e], ep'[e])
        PROVE  SpendsOne(ep[e], ep'[e])
    BY <1>b DEF SpendsOne, Frugal
  <1>1. ASSUME NEW d \in Endpoints, Send(d)
        PROVE  SpendsOne(ep[e], ep'[e]) /\ Frugal(ep[e], ep'[e])
    BY <1>0, <1>1, <1>a DEF Send, HasBudgets
  <1>2. ASSUME NEW d \in Endpoints, Take(d)
        PROVE  /\ SpendsOne(ep[e], ep'[e])
               /\ Suspended(ep[e]) => Frugal(ep[e], ep'[e])
    <2>1. ep'[e] = IF d = e THEN Service(ep[e]) ELSE ep[e]
      BY <1>0, <1>2 DEF Take
    <2>2. QED BY <1>0, <1>a, <2>1, ServiceSpends
  <1>3. ASSUME TakeTogether
        PROVE  /\ SpendsOne(ep[e], ep'[e])
               /\ Suspended(ep[e]) => Frugal(ep[e], ep'[e])
    <2>1. ep'[e] = Service(ep[e])
      BY <1>3 DEF TakeTogether
    <2>2. QED BY <1>0, <2>1, ServiceSpends
  <1>4. ASSUME NEW d \in Endpoints, Feed(d)
        PROVE  SpendsOne(ep[e], ep'[e]) /\ Frugal(ep[e], ep'[e])
    <2> DEFINE f == Head(ep[Peer(d)].tx)
    <2>1. PICK cerror \in BOOLEAN :
            ep'[e] = IF e = d THEN Handle(e, ep[e], f, cerror)
                     ELSE [ep[e] EXCEPT !.tx = Tail(@)]
      BY <1>4 DEF Feed
    <2>2. f \in Frame
      <3>1. Peer(d) \in Endpoints
        BY DEF Peer, Endpoints
      <3>2. ep[Peer(d)].tx # <<>> /\ ep[Peer(d)].tx \in Seq(Frame)
        BY <1>0, <1>4, <3>1 DEF Feed, EndpointType
      <3>3. QED BY <3>2
    <2> HIDE DEF f
    <2>3. CASE e = d
      BY <1>0, <1>b, <2>1, <2>2, <2>3, HandleFrugal
    <2>4. CASE e # d
      BY <1>0, <1>a, <2>1, <2>4 DEF HasBudgets
    <2>5. QED BY <2>3, <2>4
  <1>5. ASSUME NEW d \in Endpoints, Lose(d)
        PROVE  SpendsOne(ep[e], ep'[e]) /\ Frugal(ep[e], ep'[e])
    BY <1>0, <1>5, <1>a DEF Lose, HasBudgets
  <1>6. ASSUME NEW d \in Endpoints, LineDisturbed(d)
        PROVE  SpendsOne(ep[e], ep'[e]) /\ Frugal(ep[e], ep'[e])
    BY <1>0, <1>6, <1>a DEF LineDisturbed, HasBudgets
  <1>7. ASSUME NEW d \in Endpoints, LineRestored(d)
        PROVE  SpendsOne(ep[e], ep'[e]) /\ Frugal(ep[e], ep'[e])
    BY <1>0, <1>7, <1>a DEF LineRestored, Resume, HasBudgets
  <1>8. ASSUME NEW d \in Endpoints, ForeignBusy(d)
        PROVE  SpendsOne(ep[e], ep'[e]) /\ Frugal(ep[e], ep'[e])
    BY <1>0, <1>8, <1>a DEF ForeignBusy, Queue, HasBudgets
  <1>9. CASE UNCHANGED vars
    BY <1>0, <1>9, <1>a DEF vars
  <1>10. QED
    BY <1>1, <1>2, <1>3, <1>4, <1>5, <1>6, <1>7, <1>8, <1>9 DEF Next

\* While the timers are held after a line disturbance no retry and no
\* re-establishment is spent, for every timer setting and however often the
\* line is disturbed: feed only ever refills a budget, and a held take touches
\* none.
THEOREM HoldIsFree ==
  Spec => HoldSpendsNothing
  <1>1. Init => BudgetBounded
    <2> SUFFICES ASSUME Init, NEW e \in Endpoints
                 PROVE  ep[e].reestablish_left <= Reestablish
      BY DEF BudgetBounded
    <2> DEFINE n == NewEndpoint(e)
    <2>1. n.reestablish_left = Reestablish /\ "reestablish_left" \in DOMAIN n
      BY DEF NewEndpoint
    <2>2. ep[e] = IF e = Originator THEN BeginOriginatorProtocol(n) ELSE n
      BY DEF Init
    <2> HIDE DEF n
    <2>3. ep[e].reestablish_left = Reestablish
      BY <2>1, <2>2 DEF BeginOriginatorProtocol
    <2>4. QED BY <2>3, TimerAssumption
  <1>2. IInv /\ BudgetBounded /\ [Next]_vars => BudgetBounded'
    <2> SUFFICES ASSUME IInv, BudgetBounded, [Next]_vars,
                        NEW e \in Endpoints
                 PROVE  ep'[e].reestablish_left <= Reestablish
      BY DEF BudgetBounded
    <2>1. /\ ep[e].reestablish_left \in Nat
          /\ ep[e].reestablish_left <= Reestablish
      BY DEF IInv, EndpointType, BudgetBounded
    <2>2. ep'[e].reestablish_left \in
              {ep[e].reestablish_left, ep[e].reestablish_left - 1, Reestablish}
      BY NextSpends DEF SpendsOne
    <2>3. QED BY <2>1, <2>2, TimerAssumption
  <1> DEFINE Free == \A e \in Endpoints :
       Suspended(ep[e]) => /\ ep'[e].retries <= ep[e].retries
                           /\ ep'[e].reestablish_left >= ep[e].reestablish_left
  <1>3. IInv /\ BudgetBounded /\ [Next]_vars => [Free]_vars
    <2> SUFFICES ASSUME IInv, BudgetBounded, [Next]_vars,
                        NEW e \in Endpoints, Suspended(ep[e])
                 PROVE  /\ ep'[e].retries <= ep[e].retries
                        /\ ep'[e].reestablish_left >= ep[e].reestablish_left
      OBVIOUS
    <2>1. /\ ep[e].reestablish_left \in Nat /\ ep[e].retries \in Nat
          /\ ep[e].reestablish_left <= Reestablish
      BY DEF IInv, EndpointType, BudgetBounded
    <2>2. /\ ep'[e].retries \in {0, ep[e].retries}
          /\ ep'[e].reestablish_left \in {ep[e].reestablish_left, Reestablish}
      BY NextSpends DEF Frugal
    <2>3. QED BY <2>1, <2>2, TimerAssumption
  <1>4. QED BY InitOK, NextOK, <1>1, <1>2, <1>3, PTL DEF Spec, HoldSpendsNothing
=============================================================================

-------------------------- MODULE V90SegmentProofs ---------------------------
(***************************************************************************)
(* Proofs about the scan for training segments in module V90Bridge: that a *)
(* segment takes the transmitter on by one phase and never again, although *)
(* every scan offers the whole list from the start; and the types.         *)
(*                                                                         *)
(* The invariant counts: as many reported segments are marked accepted as  *)
(* the transmitter has left phases behind (Scanned).  bridge_events keeps  *)
(* it segment by segment, since it marks a segment exactly when it moves   *)
(* the transmitter on and offers none that is marked; nothing else in the  *)
(* frame moves the transmitter before DATA, and no CP recognised live or   *)
(* in a replay does (TxType).                                              *)
(***************************************************************************)
EXTENDS V90HandoverProofs, FiniteSetTheorems

PhaseSet == {"WAIT_JA", "JD", "DIL", "RI", "DATA"}
CpKinds == {"none", "CPt", "CP", "CP'"}
TxType == [phase : PhaseSet, cp : CpKinds]

SegmentType == [start : Nat, type : {"S", "S_BAR", "J"}]
Entries == [segment : SegmentType, last_phase : PhaseSet, accepted : BOOLEAN]

\* The phases the transmitter has left behind, each by a segment it accepted.
Left(phase) == CASE phase = "WAIT_JA" -> 0 [] phase = "JD" -> 1
                 [] phase = "DIL" -> 2 [] OTHER -> 3

AcceptedIn(reported) == {k \in DOMAIN reported : reported[k].accepted}

Scanned(reported, phase) ==
  /\ reported \in Seq(Entries) /\ Len(reported) <= MaxReported
  /\ phase \in PhaseSet
  /\ Cardinality(AcceptedIn(reported)) = Left(phase)

\* The transmitter of t is the one of s, but for the CP it has.
SameTx(v, w) == w \in TxType /\ w.phase = v.phase

-----------------------------------------------------------------------------
(* The receiver gives the transmitter a CP and nothing else.               *)

LEMMA SetCp ==
  ASSUME NEW v \in TxType, NEW kind \in CpKinds
  PROVE  SameTx(v, [v EXCEPT !.cp = kind])
  BY DEF TxType, SameTx

LEMMA HearTx ==
  ASSUME NEW s, Pair(s), s.v90 \in TxType, NEW at, NEW signal, NEW c
  PROVE  LET h == HearFrame(s, at, signal, c) IN Pair(h) /\ SameTx(s.v90, h.v90)
  <1> DEFINE t == IF s.rx.started \/ signal \notin {"CP", "CP'"} THEN s
                  ELSE CpFrame(s, signal, c)
             r == IF t.rx.started THEN t.rx ELSE PutBit(t.rx, at, signal)
             w == [r EXCEPT !.last = at, !.mute = (signal = "silence"),
                            !.heard = IF r.started THEN @ + 1 ELSE 0]
  <1>1. Pair(t) /\ SameTx(s.v90, t.v90)
    <2>1. CASE t = s
      BY <2>1 DEF SameTx
    <2>2. CASE t # s
      <3>1. signal \in {"CP", "CP'"} /\ t = CpFrame(s, signal, c)
        BY <2>2
      <3> HIDE DEF t
      <3> DEFINE x == [s.rx EXCEPT !.look_for_e = TRUE, !.prepared = @ \/ c.ready]
                 v == [s.v90 EXCEPT !.cp = signal]
      <3>2. t = [rx |-> x, v90 |-> v]
        BY <2>2, <3>1 DEF CpFrame
      <3>3. SameTx(s.v90, v)
        BY <3>1, SetCp DEF CpKinds
      <3> HIDE DEF x, v
      <3>4. QED BY <3>2, <3>3 DEF Pair
    <2>3. QED BY <2>1, <2>2
  <1>2. HearFrame(s, at, signal, c) = [t EXCEPT !.rx = w]
    BY DEF HearFrame
  <1> HIDE DEF t, r, w
  <1>3. HearFrame(s, at, signal, c) = [rx |-> w, v90 |-> t.v90]
    BY <1>1, <1>2 DEF Pair
  <1>4. QED BY <1>1, <1>3 DEF Pair

LEMMA ReplayTx ==
  ASSUME NEW s, Pair(s), s.v90 \in TxType, NEW a \in Nat, NEW live,
         Len(live) \in Nat, a <= Len(live), NEW c
  PROVE  SameTx(s.v90, Replay(s, a, live, c).v90)
  <1> DEFINE n == Len(live)
  <1>1. n \in Nat /\ a <= n
    OBVIOUS
  <1>2. PICK f : HeardAll(f, s, a, live, c) /\ Replay(s, a, live, c) = f[n]
    BY ReplayIs, <1>1
  <1>3. /\ f[a] = s
        /\ \A k \in a + 1 .. n : f[k] = HearFrame(f[k - 1], k - 1, live[k], c)
    BY <1>2 DEF HeardAll
  <1> HIDE DEF n
  <1> DEFINE Good(k) == Pair(f[k]) /\ SameTx(s.v90, f[k].v90)
             Bad == {k \in a .. n : ~ Good(k)}
  <1>4. Good(a)
    BY <1>3 DEF SameTx
  <1>5. ASSUME NEW k \in a + 1 .. n, Good(k - 1) PROVE Good(k)
    <2>1. f[k] = HearFrame(f[k - 1], k - 1, live[k], c)
      BY <1>3
    <2>2. Pair(f[k]) /\ SameTx(f[k - 1].v90, f[k].v90)
      BY <2>1, <1>5, HearTx DEF SameTx
    <2>3. QED BY <2>2, <1>5 DEF SameTx
  <1> HIDE DEF Good
  <1>6. Bad = {}
    <2>1. ASSUME Bad # {} PROVE FALSE
      <3>1. Bad \subseteq Nat
        BY <1>1
      <3>2. PICK x \in Bad : \A y \in Bad : x <= y
        <4> HIDE DEF Bad
        <4> QED BY <2>1, <3>1, LeastFrame
      <3>3. x \in a .. n /\ ~ Good(x) /\ x # a
        BY <1>4
      <3>4. x - 1 \in a .. n /\ x \in a + 1 .. n /\ ~ (x <= x - 1)
        BY <3>3, <1>1
      <3>5. Good(x - 1)
        BY <3>2, <3>4
      <3>6. QED BY <3>3, <3>4, <3>5, <1>5
    <2>2. QED BY <2>1
  <1>7. Good(n)
    <2>1. n \in a .. n
      BY <1>1
    <2>2. QED BY <2>1, <1>6
  <1>8. QED BY <1>2, <1>7 DEF Good

-----------------------------------------------------------------------------
(* The media loop: what it leaves alone.                                   *)

SameScan(l, k) == k.reported = l.reported /\ k.found = l.found /\ k.attempts = l.attempts

LEMMA ForgetPair ==
  ASSUME NEW s, Pair(s)
  PROVE  Pair(ForgetE(s)) /\ ForgetE(s).v90 = s.v90
  <1> DEFINE w == [s.rx EXCEPT !.e_complete = FALSE]
  <1>1. ForgetE(s) = [s EXCEPT !.rx = w]
    BY DEF Pair, ForgetE
  <1> HIDE DEF w
  <1>2. ForgetE(s) = [rx |-> w, v90 |-> s.v90]
    BY <1>1 DEF Pair
  <1>3. QED BY <1>2 DEF Pair

LEMMA FirstDataCpTx ==
  ASSUME NEW s, IsState(s), s.v90 \in TxType, Len(s.m.live) \in Nat,
         NEW r, r.last \in Nat, NEW c
  PROVE  LET f == FirstDataCp(s, r, c) IN SameScan(s.m, f.m) /\ SameTx(s.v90, f.v90)
  <1> DEFINE t == [s EXCEPT !.m.data_cp_accepted = TRUE, !.rx.look_for_e = TRUE,
                            !.m.begin_pending = TRUE]
             newly == ~t.rx.prepared /\ c.ready
             u == [t EXCEPT !.rx.prepared = @ \/ newly,
                            !.m.prepare_at = IF ~t.rx.prepared /\ ~newly /\ @ < 0
                                               THEN r.last ELSE @]
             g == ForgetE([rx |-> u.rx, v90 |-> u.v90])
             h == Replay(g, r.last, u.m.live, c)
  <1>1. IsState(t) /\ SameScan(s.m, t.m) /\ t.v90 = s.v90 /\ t.m.live = s.m.live
    BY DEF IsState, IsLoop, LoopFields, SameScan
  <1> HIDE DEF t
  <1>2. IsState(u) /\ SameScan(t.m, u.m) /\ u.v90 = t.v90 /\ u.m.live = t.m.live
    <2> DEFINE b == t.rx.prepared \/ newly
               d == IF ~t.rx.prepared /\ ~newly /\ t.m.prepare_at < 0
                      THEN r.last ELSE t.m.prepare_at
    <2>1. u = [t EXCEPT !.rx.prepared = b, !.m.prepare_at = d]
      BY <1>1 DEF IsState, IsLoop, LoopFields
    <2> HIDE DEF b, d, newly, u
    <2>2. QED BY <2>1, <1>1 DEF IsState, IsLoop, LoopFields, SameScan
  <1> HIDE DEF u
  <1>3. Pair(g) /\ g.v90 = s.v90
    <2> DEFINE b == [rx |-> u.rx, v90 |-> u.v90]
    <2>1. Pair(b) /\ b.v90 = s.v90 /\ g = ForgetE(b)
      BY <1>1, <1>2 DEF Pair
    <2> HIDE DEF b, g
    <2>2. QED BY <2>1, ForgetPair
  <1> HIDE DEF g
  <1>4. ASSUME r.last < Len(u.m.live) PROVE SameTx(s.v90, h.v90)
    <2>1. Len(u.m.live) \in Nat /\ r.last <= Len(u.m.live)
      BY <1>1, <1>2, <1>4
    <2>2. SameTx(g.v90, h.v90)
      BY <1>3, <2>1, ReplayTx
    <2>3. QED BY <1>3, <2>2
  <1>5. FirstDataCp(s, r, c) = IF newly /\ r.last < Len(u.m.live)
          THEN [m |-> [u.m EXCEPT !.replayed = TRUE], rx |-> h.rx, v90 |-> h.v90]
          ELSE u
    BY DEF FirstDataCp, u, t, g
  <1> HIDE DEF h, newly
  <1>6. CASE newly /\ r.last < Len(u.m.live)
    <2>1. SameScan(u.m, [u.m EXCEPT !.replayed = TRUE])
      BY <1>2 DEF IsState, IsLoop, LoopFields, SameScan
    <2>2. FirstDataCp(s, r, c) =
            [m |-> [u.m EXCEPT !.replayed = TRUE], rx |-> h.rx, v90 |-> h.v90]
      BY <1>5, <1>6
    <2> DEFINE l == [u.m EXCEPT !.replayed = TRUE]
    <2> HIDE DEF l
    <2>3. FirstDataCp(s, r, c).m = l /\ FirstDataCp(s, r, c).v90 = h.v90
      BY <2>2 DEF l
    <2>4. SameScan(u.m, l)
      BY <2>1 DEF l
    <2>5. SameScan(s.m, l)
      BY <2>4, <1>1, <1>2 DEF SameScan
    <2>6. QED BY <2>3, <2>5, <1>4, <1>6
  <1>7. CASE ~ (newly /\ r.last < Len(u.m.live))
    BY <1>1, <1>2, <1>5, <1>7 DEF SameScan, SameTx
  <1>8. QED BY <1>6, <1>7

LEMMA AcknowledgedCpTx ==
  ASSUME NEW s, IsState(s), s.v90 \in TxType, Len(s.m.live) \in Nat,
         NEW r, r.last \in Nat, NEW c
  PROVE  LET f == AcknowledgedCp(s, r, c) IN SameScan(s.m, f.m) /\ SameTx(s.v90, f.v90)
  <1> DEFINE t == [s EXCEPT !.m.cp_done = TRUE]
             g == ForgetE([rx |-> [t.rx EXCEPT !.prepared = TRUE, !.look_for_e = TRUE],
                           v90 |-> t.v90])
             h == Replay(g, r.last, t.m.live, c)
  <1>1. IsState(t) /\ SameScan(s.m, t.m) /\ t.v90 = s.v90 /\ t.m.live = s.m.live
    BY DEF IsState, IsLoop, LoopFields, SameScan
  <1> HIDE DEF t
  <1>2. Pair(g) /\ g.v90 = s.v90
    BY <1>1 DEF ForgetE, Pair
  <1>3. AcknowledgedCp(s, r, c) =
          IF r.kind = "CP'" /\ ~t.rx.started /\ c.again /\ r.last < Len(t.m.live)
            THEN [m |-> [t.m EXCEPT !.replayed = TRUE], rx |-> h.rx, v90 |-> h.v90]
            ELSE IF r.kind = "CP'" THEN t ELSE s
    BY DEF AcknowledgedCp, t
  <1> HIDE DEF g
  <1>4. ASSUME r.last < Len(t.m.live) PROVE SameTx(s.v90, h.v90)
    BY <1>1, <1>2, <1>4, ReplayTx
  <1> HIDE DEF h
  <1>5. SameScan(t.m, [t.m EXCEPT !.replayed = TRUE])
    BY <1>1 DEF IsState, IsLoop, LoopFields, SameScan
  <1>6. \/ AcknowledgedCp(s, r, c) \in {t, s}
        \/ /\ r.last < Len(t.m.live)
           /\ AcknowledgedCp(s, r, c) =
                [m |-> [t.m EXCEPT !.replayed = TRUE], rx |-> h.rx, v90 |-> h.v90]
    BY <1>3
  <1> DEFINE l == [t.m EXCEPT !.replayed = TRUE]
  <1>7. CASE AcknowledgedCp(s, r, c) \in {t, s}
    BY <1>1, <1>7 DEF SameScan, SameTx
  <1>8. CASE /\ r.last < Len(t.m.live)
             /\ AcknowledgedCp(s, r, c) = [m |-> l, rx |-> h.rx, v90 |-> h.v90]
    <2> HIDE DEF l
    <2>1. AcknowledgedCp(s, r, c).m = l /\ AcknowledgedCp(s, r, c).v90 = h.v90
      BY <1>8
    <2>2. SameScan(s.m, l)
      BY <1>1, <1>5 DEF SameScan, l
    <2>3. QED BY <2>1, <2>2, <1>4, <1>8
  <1>9. QED BY <1>6, <1>7, <1>8

LEMMA ApplyResultTx ==
  ASSUME NEW s, IsState(s), s.v90 \in TxType, Len(s.m.live) \in Nat,
         NEW r, r.found => r.last \in Nat /\ r.kind \in CpKinds, NEW c
  PROVE  LET f == ApplyResult(s, r, c) IN SameScan(s.m, f.m) /\ SameTx(s.v90, f.v90)
  <1> DEFINE v == [s.v90 EXCEPT !.cp = r.kind]
             t == [s EXCEPT !.m.cp_accepted = TRUE, !.v90.cp = r.kind]
             f == FirstDataCp(t, r, c)
  <1>1. IsState(t) /\ SameScan(s.m, t.m) /\ t.v90 = v /\ t.m.live = s.m.live
    BY DEF IsState, IsLoop, LoopFields, SameScan
  <1>2. CASE ~ r.found
    <2>1. ApplyResult(s, r, c) = s
      BY <1>2 DEF ApplyResult
    <2>2. QED BY <2>1 DEF SameScan, SameTx
  <1>3. CASE r.found
    <2>1. \/ ApplyResult(s, r, c) = s
          \/ ApplyResult(s, r, c) = t
          \/ ApplyResult(s, r, c) = AcknowledgedCp(f, r, c)
      BY DEF ApplyResult
    <2>2. SameTx(s.v90, v)
      BY <1>3, SetCp
    <2> HIDE DEF t, v
    <2>3. SameTx(s.v90, t.v90) /\ t.v90 \in TxType
      BY <2>2, <1>1 DEF SameTx
    <2>4. SameScan(t.m, f.m) /\ SameTx(t.v90, f.v90)
      BY <1>1, <1>3, <2>3, FirstDataCpTx
    <2>5. IsState(f) /\ f.m.live = s.m.live /\ f.v90 \in TxType
      BY <1>1, <2>4, FirstDataCpKeeps, FirstDataCpLine DEF SameLine, SameTx
    <2> HIDE DEF f
    <2>6. LET x == AcknowledgedCp(f, r, c) IN SameScan(f.m, x.m) /\ SameTx(f.v90, x.v90)
      BY <1>3, <2>5, AcknowledgedCpTx
    <2>7. LET x == AcknowledgedCp(f, r, c) IN SameScan(s.m, x.m) /\ SameTx(s.v90, x.v90)
      BY <1>1, <2>3, <2>4, <2>6 DEF SameScan, SameTx
    <2>8. QED BY <1>1, <2>1, <2>3, <2>7 DEF SameScan, SameTx
  <1>4. QED BY <1>2, <1>3

LEMMA FeedFrameTx ==
  ASSUME NEW s, IsState(s), s.v90 \in TxType, NEW signal, NEW c
  PROVE  LET f == FeedFrame(s, signal, c) IN SameScan(s.m, f.m) /\ SameTx(s.v90, f.v90)
  <1>1. CASE s.m.replayed
    <2>1. FeedFrame(s, signal, c) = [s EXCEPT !.m.replayed = FALSE]
      BY <1>1 DEF FeedFrame
    <2>2. QED BY <2>1 DEF IsState, IsLoop, LoopFields, SameScan, SameTx
  <1>2. CASE ~ s.m.replayed /\ Delay > 0
    <2> DEFINE at == s.m.sample_offset - Delay
               p == [s.rx EXCEPT !.prepared = @ \/ (s.m.prepare_at >= 0
                                           /\ at + 1 >= s.m.prepare_at /\ c.ready)]
               begins == s.m.begin_pending /\ p.prepared /\ ~p.started
               r == IF begins THEN [p EXCEPT !.started = TRUE, !.begun = at] ELSE p
               b == [rx |-> r, v90 |-> s.v90]
               h == HearFrame(b, at, Delayed(s.m), c)
               l == [s.m EXCEPT !.begin_pending = @ /\ ~begins]
    <2>1. FeedFrame(s, signal, c) = [m |-> l, rx |-> h.rx, v90 |-> h.v90]
      BY <1>2 DEF FeedFrame, FeedDelayed
    <2>2. Pair(b) /\ b.v90 = s.v90
      BY DEF Pair
    <2>3. SameScan(s.m, l)
      BY DEF IsState, IsLoop, LoopFields, SameScan
    <2> HIDE DEF l, b
    <2>4. SameTx(s.v90, h.v90)
      BY <2>2, HearTx
    <2> HIDE DEF h
    <2>5. QED BY <2>1, <2>3, <2>4
  <1>3. CASE ~ s.m.replayed /\ ~ (Delay > 0)
    <2> DEFINE b == [rx |-> s.rx, v90 |-> s.v90]
               h == HearFrame(b, s.m.sample_offset, signal, c)
    <2>1. FeedFrame(s, signal, c) = [m |-> s.m, rx |-> h.rx, v90 |-> h.v90]
      BY <1>3 DEF FeedFrame
    <2>2. Pair(b) /\ b.v90 = s.v90
      BY DEF Pair
    <2> HIDE DEF b
    <2>3. SameTx(s.v90, h.v90)
      BY <2>2, HearTx
    <2> HIDE DEF h
    <2>4. QED BY <2>1, <2>3 DEF SameScan
  <1>4. QED BY <1>1, <1>2, <1>3

-----------------------------------------------------------------------------
(* bridge_events.                                                          *)

\* The entry found for a segment is an entry of the list.
EntryOf(reported, segment) == SelectInSeq(reported, LAMBDA x : x.segment = segment)

LEMMA FoundEntry ==
  ASSUME NEW reported \in Seq(Entries), NEW segment
  PROVE  LET k == EntryOf(reported, segment) IN k = 0 \/ k \in 1 .. Len(reported)
  <1> DEFINE k == EntryOf(reported, segment)
             I == {i \in 1 .. Len(reported) : reported[i].segment = segment}
  <1>1. k = IF I # {} THEN Min(I) ELSE 0
    BY DEF SelectInSeq, EntryOf
  <1>2. I \subseteq Nat /\ I \subseteq 1 .. Len(reported)
    OBVIOUS
  <1> HIDE DEF I, k
  <1>3. ASSUME I # {} PROVE Min(I) \in I
    <2>1. \E x \in I : \A y \in I : x <= y
      BY <1>2, <1>3, LeastFrame
    <2>2. QED BY <2>1 DEF Min
  <1>4. QED BY <1>1, <1>2, <1>3 DEF k

\* Marking a segment counts one more, and only then.
LEMMA MarkEntry ==
  ASSUME NEW reported \in Seq(Entries), NEW k \in 1 .. Len(reported),
         reported[k].accepted = FALSE, NEW entry \in Entries
  PROVE  LET q == [reported EXCEPT ![k] = entry]
         IN  /\ q \in Seq(Entries) /\ Len(q) = Len(reported)
             /\ IsFiniteSet(AcceptedIn(reported)) /\ Cardinality(AcceptedIn(reported)) \in Nat
             /\ Cardinality(AcceptedIn(q)) =
                  Cardinality(AcceptedIn(reported)) + One(entry.accepted)
  <1> DEFINE q == [reported EXCEPT ![k] = entry]
             A == AcceptedIn(reported)
  <1>1. q \in Seq(Entries) /\ Len(q) = Len(reported) /\ DOMAIN reported = 1 .. Len(reported)
        /\ DOMAIN q = 1 .. Len(reported)
    OBVIOUS
  <1>2. q[k] = entry /\ \A i \in 1 .. Len(reported) : i # k => q[i] = reported[i]
    OBVIOUS
  <1> HIDE DEF q
  <1>3. IsFiniteSet(A) /\ k \notin A
    <2>1. A \subseteq 1 .. Len(reported)
      BY <1>1 DEF AcceptedIn
    <2>2. IsFiniteSet(1 .. Len(reported))
      BY FS_Interval
    <2>3. k \notin A
      BY DEF AcceptedIn
    <2> HIDE DEF A
    <2>4. QED BY <2>1, <2>2, <2>3, FS_Subset
  <1>4. Cardinality(A) \in Nat
    BY <1>3, FS_CardinalityType
  <1>5. entry.accepted \in BOOLEAN
    BY DEF Entries
  <1>6. CASE entry.accepted = TRUE
    <2>1. AcceptedIn(q) = A \cup {k}
      BY <1>1, <1>2, <1>6 DEF AcceptedIn
    <2> HIDE DEF A
    <2>2. Cardinality(A \cup {k}) = Cardinality(A) + 1
      BY <1>3, FS_AddElement
    <2>3. One(entry.accepted) = 1
      BY <1>6 DEF One
    <2>4. QED BY <1>1, <1>3, <1>4, <2>1, <2>2, <2>3 DEF A, q
  <1>7. CASE entry.accepted = FALSE
    <2>1. AcceptedIn(q) = A
      BY <1>1, <1>2, <1>7 DEF AcceptedIn
    <2>2. One(entry.accepted) = 0
      BY <1>7 DEF One
    <2> HIDE DEF A
    <2>3. QED BY <1>1, <1>3, <1>4, <2>1, <2>2 DEF A, q
  <1>8. QED BY <1>5, <1>6, <1>7

\* So does a new entry.
LEMMA AddEntry ==
  ASSUME NEW reported \in Seq(Entries), NEW entry \in Entries
  PROVE  LET q == Append(reported, entry)
         IN  /\ q \in Seq(Entries) /\ Len(q) = Len(reported) + 1
             /\ IsFiniteSet(AcceptedIn(reported)) /\ Cardinality(AcceptedIn(reported)) \in Nat
             /\ Cardinality(AcceptedIn(q)) =
                  Cardinality(AcceptedIn(reported)) + One(entry.accepted)
  <1> DEFINE q == Append(reported, entry)
             A == AcceptedIn(reported)
             n == Len(reported)
  <1>1. q \in Seq(Entries) /\ Len(q) = n + 1 /\ DOMAIN reported = 1 .. n
        /\ DOMAIN q = 1 .. n + 1 /\ n \in Nat
    OBVIOUS
  <1>2. q[n + 1] = entry /\ \A i \in 1 .. n : q[i] = reported[i]
    OBVIOUS
  <1> HIDE DEF q, n
  <1>3. IsFiniteSet(A) /\ n + 1 \notin A
    <2>1. A \subseteq 1 .. n
      BY <1>1 DEF AcceptedIn
    <2>2. IsFiniteSet(1 .. n) /\ n + 1 \notin 1 .. n
      BY <1>1, FS_Interval
    <2> HIDE DEF A
    <2>3. QED BY <2>1, <2>2, FS_Subset
  <1>4. Cardinality(A) \in Nat
    BY <1>3, FS_CardinalityType
  <1>5. entry.accepted \in BOOLEAN
    BY DEF Entries
  <1>6. CASE entry.accepted = TRUE
    <2>1. AcceptedIn(q) = A \cup {n + 1}
      BY <1>1, <1>2, <1>6 DEF AcceptedIn
    <2> HIDE DEF A
    <2>2. Cardinality(A \cup {n + 1}) = Cardinality(A) + 1
      BY <1>3, FS_AddElement
    <2>3. One(entry.accepted) = 1
      BY <1>6 DEF One
    <2>4. QED BY <1>1, <1>3, <1>4, <2>1, <2>2, <2>3 DEF A, q, n
  <1>7. CASE entry.accepted = FALSE
    <2>1. AcceptedIn(q) = A
      BY <1>1, <1>2, <1>7 DEF AcceptedIn
    <2>2. One(entry.accepted) = 0
      BY <1>7 DEF One
    <2> HIDE DEF A
    <2>3. QED BY <1>1, <1>3, <1>4, <2>1, <2>2 DEF A, q, n
  <1>8. QED BY <1>5, <1>6, <1>7

\* report_event and v90_handle_rx_event: one phase for one segment.
LEMMA OnePhase ==
  ASSUME NEW phase \in PhaseSet, NEW segment \in SegmentType
  PROVE  LET accepted == Accepts(phase, segment.type)
             next == IF accepted THEN After(phase) ELSE phase
         IN  /\ accepted \in BOOLEAN /\ next \in PhaseSet
             /\ Left(phase) \in Nat /\ Left(next) = Left(phase) + One(accepted)
  <1> DEFINE accepted == Accepts(phase, segment.type)
  <1>1. segment.type \in {"S", "S_BAR", "J"}
    BY DEF SegmentType
  <1>2. /\ Left("WAIT_JA") = 0 /\ Left("JD") = 1 /\ Left("DIL") = 2
        /\ Left("RI") = 3 /\ Left("DATA") = 3
    BY DEF Left
  <1>3. After("WAIT_JA") = "JD" /\ After("JD") = "DIL" /\ After("DIL") = "RI"
    BY DEF After
  <1>4. accepted \in BOOLEAN /\ (accepted => phase \in {"WAIT_JA", "JD", "DIL"})
    <2>1. CASE segment.type = "J"
      <3>1. accepted = (phase = "WAIT_JA")
        BY <2>1 DEF Accepts
      <3> HIDE DEF accepted
      <3>2. QED BY <3>1, Zenon
    <2>2. CASE segment.type \in {"S", "S_BAR"}
      <3>1. accepted = (phase \in {"JD", "DIL"})
        BY <2>2 DEF Accepts
      <3> DEFINE b == phase \in {"JD", "DIL"}
      <3>2. b \in BOOLEAN /\ (b => phase \in {"WAIT_JA", "JD", "DIL"})
        OBVIOUS
      <3>3. accepted = b
        BY <3>1
      <3> HIDE DEF accepted, b
      <3>4. QED BY <3>2, <3>3
    <2>3. QED BY <1>1, <2>1, <2>2
  <1> HIDE DEF accepted
  <1>5. Left(phase) \in Nat
    BY <1>2 DEF PhaseSet
  <1>6. CASE accepted = TRUE
    <2>1. One(accepted) = 1 /\ (IF accepted THEN After(phase) ELSE phase) = After(phase)
      BY <1>6 DEF One
    <2>2. After(phase) \in PhaseSet /\ Left(After(phase)) = Left(phase) + 1
      BY <1>2, <1>3, <1>4, <1>6 DEF PhaseSet
    <2>3. QED BY <1>4, <1>5, <2>1, <2>2 DEF accepted
  <1>7. CASE accepted = FALSE
    <2>1. One(accepted) = 0 /\ (IF accepted THEN After(phase) ELSE phase) = phase
      BY <1>7 DEF One
    <2>2. QED BY <1>4, <1>5, <2>1 DEF accepted
  <1>8. QED BY <1>4, <1>6, <1>7

\* One segment offered: the count and the phase go on together or not at all.
LEMMA OfferScanned ==
  ASSUME NEW e, e = [reported |-> e.reported, phase |-> e.phase],
         Scanned(e.reported, e.phase), NEW segment \in SegmentType
  PROVE  LET f == OfferSegment(e, segment)
         IN  f = [reported |-> f.reported, phase |-> f.phase] /\ Scanned(f.reported, f.phase)
  <1> DEFINE k == EntryOf(e.reported, segment)
             accepted == Accepts(e.phase, segment.type)
             entry == [segment |-> segment, last_phase |-> e.phase, accepted |-> accepted]
             phase == IF accepted THEN After(e.phase) ELSE e.phase
             marked == [e.reported EXCEPT ![k] = entry]
             added == Append(e.reported, entry)
  <1>1. e.reported \in Seq(Entries) /\ Len(e.reported) <= MaxReported /\ e.phase \in PhaseSet
        /\ Cardinality(AcceptedIn(e.reported)) = Left(e.phase)
    BY DEF Scanned
  <1>2. k = 0 \/ k \in 1 .. Len(e.reported)
    BY <1>1, FoundEntry
  <1>3. /\ accepted \in BOOLEAN /\ phase \in PhaseSet
        /\ Left(e.phase) \in Nat /\ Left(phase) = Left(e.phase) + One(accepted)
    BY <1>1, OnePhase
  <1> HIDE DEF k, accepted, phase
  <1>4. entry \in Entries /\ entry.accepted = accepted
    BY <1>1, <1>3 DEF Entries
  <1> HIDE DEF entry
  <1>5. \/ OfferSegment(e, segment) = e
        \/ /\ k > 0 /\ Offers(e.reported, k, e.phase)
           /\ OfferSegment(e, segment) = [reported |-> marked, phase |-> phase]
        \/ /\ Len(e.reported) < MaxReported
           /\ OfferSegment(e, segment) = [reported |-> added, phase |-> phase]
    BY DEF OfferSegment, EntryOf, k, accepted, entry, phase
  <1>6. CASE OfferSegment(e, segment) = e
    BY <1>6
  <1>7. CASE /\ k > 0 /\ Offers(e.reported, k, e.phase)
             /\ OfferSegment(e, segment) = [reported |-> marked, phase |-> phase]
    <2>1. k \in 1 .. Len(e.reported)
      BY <1>2, <1>7
    <2>2. e.reported[k].accepted = FALSE
      <3>1. e.reported[k] \in Entries
        BY <1>1, <2>1
      <3>2. e.reported[k].accepted \in BOOLEAN
        BY <3>1 DEF Entries
      <3>3. QED BY <3>2, <1>7 DEF Offers
    <2>3. /\ marked \in Seq(Entries) /\ Len(marked) = Len(e.reported)
          /\ Cardinality(AcceptedIn(marked)) =
               Cardinality(AcceptedIn(e.reported)) + One(entry.accepted)
      BY <1>1, <1>4, <2>1, <2>2, MarkEntry
    <2> HIDE DEF marked
    <2>4. Scanned(marked, phase)
      BY <1>1, <1>3, <1>4, <2>3 DEF Scanned
    <2>5. QED BY <1>7, <2>4
  <1>8. CASE /\ Len(e.reported) < MaxReported
             /\ OfferSegment(e, segment) = [reported |-> added, phase |-> phase]
    <2>1. /\ added \in Seq(Entries) /\ Len(added) = Len(e.reported) + 1
          /\ Cardinality(AcceptedIn(added)) =
               Cardinality(AcceptedIn(e.reported)) + One(entry.accepted)
      BY <1>1, <1>4, AddEntry
    <2>2. Len(added) <= MaxReported
      <3>1. Len(e.reported) \in Nat /\ MaxReported \in Nat
        BY <1>1, V90BridgeAssumption
      <3> HIDE DEF added
      <3>2. QED BY <3>1, <2>1, <1>8
    <2> HIDE DEF added
    <2>3. Scanned(added, phase)
      BY <1>1, <1>3, <1>4, <2>1, <2>2 DEF Scanned
    <2>4. QED BY <1>8, <2>3
  <1>9. QED BY <1>5, <1>6, <1>7, <1>8

\* f gives the list and the phase after each segment up to n.
Offered(f, n, e, segments) ==
  f = [k \in 0 .. n |-> IF k = 0 THEN e ELSE OfferSegment(f[k - 1], segments[k])]

\* The recursion in Events is well founded.
LEMMA EventsExist ==
  ASSUME NEW e, NEW segments, NEW n \in Nat
  PROVE  \E f : Offered(f, n, e, segments)
  <1> DEFINE Bad == {k \in 0 .. n : ~ \E f : Offered(f, k, e, segments)}
  <1>1. ASSUME Bad # {} PROVE FALSE
    <2>1. PICK x \in Bad : \A y \in Bad : x <= y
      <3>1. Bad \subseteq Nat
        OBVIOUS
      <3> HIDE DEF Bad
      <3> QED BY <1>1, <3>1, LeastFrame
    <2>2. x \in 0 .. n /\ ~ \E f : Offered(f, x, e, segments)
      OBVIOUS
    <2>3. CASE x = 0
      <3> DEFINE f == [k \in 0 .. 0 |-> e]
      <3>1. f = [k \in 0 .. 0 |-> IF k = 0 THEN e ELSE OfferSegment(f[k - 1], segments[k])]
        <4> \A k \in 0 .. 0 : k = 0
          OBVIOUS
        <4> QED OBVIOUS
      <3> HIDE DEF f
      <3>2. Offered(f, 0, e, segments)
        BY <3>1 DEF Offered
      <3>3. QED BY <3>2, <2>2, <2>3
    <2>4. CASE x # 0
      <3>1. x - 1 \in 0 .. n /\ x - 1 \notin Bad
        BY <2>1, <2>2, <2>4
      <3>2. PICK f : Offered(f, x - 1, e, segments)
        BY <3>1
      <3> DEFINE H(k, y) == IF k = 0 THEN e ELSE OfferSegment(y, segments[k])
                 g == [k \in 0 .. x |-> IF k = x THEN H(x, f[x - 1]) ELSE f[k]]
      <3>3. f = [k \in 0 .. x - 1 |-> H(k, f[k - 1])]
        BY <3>2 DEF Offered
      <3> HIDE DEF H
      <3>4. \A k \in 0 .. x - 1 : g[k] = f[k] /\ f[k] = H(k, f[k - 1])
        BY <3>3, <2>2
      <3>5. ASSUME NEW k \in 0 .. x PROVE g[k] = H(k, g[k - 1])
        <4>1. CASE k = x
          <5>1. g[x - 1] = f[x - 1]
            BY <3>4, <2>2, <2>4
          <5>2. g[x] = H(x, f[x - 1])
            BY <2>2
          <5>3. QED BY <5>1, <5>2, <4>1
        <4>2. CASE k # x /\ k # 0
          <5>1. k \in 0 .. x - 1 /\ k - 1 \in 0 .. x - 1
            BY <4>2, <2>2
          <5>2. QED BY <5>1, <3>4
        <4>3. CASE k # x /\ k = 0
          <5>1. k \in 0 .. x - 1
            BY <4>3, <2>2
          <5>2. g[k] = f[k] /\ f[k] = H(k, f[k - 1])
            BY <5>1, <3>4
          <5>3. H(k, f[k - 1]) = e /\ H(k, g[k - 1]) = e
            BY <4>3 DEF H
          <5>4. QED BY <5>2, <5>3
        <4>4. QED BY <4>1, <4>2, <4>3
      <3>6. g = [k \in 0 .. x |-> g[k]]
        OBVIOUS
      <3> HIDE DEF g
      <3>7. g = [k \in 0 .. x |-> H(k, g[k - 1])]
        BY <3>5, <3>6
      <3>8. Offered(g, x, e, segments)
        BY <3>7 DEF Offered, H
      <3>9. QED BY <3>8, <2>2
    <2>5. QED BY <2>3, <2>4
  <1>2. n \in 0 .. n
    OBVIOUS
  <1>3. QED BY <1>1, <1>2

\* A whole scan: segment by segment.
LEMMA EventsScanned ==
  ASSUME NEW e, e = [reported |-> e.reported, phase |-> e.phase],
         Scanned(e.reported, e.phase), NEW segments \in Seq(SegmentType)
  PROVE  LET f == Events(e, segments) IN Scanned(f.reported, f.phase)
  <1> DEFINE n == Len(segments)
             h == CHOOSE f : Offered(f, n, e, segments)
             H(k, y) == IF k = 0 THEN e ELSE OfferSegment(y, segments[k])
  <1>1. n \in Nat /\ \A k \in 1 .. n : segments[k] \in SegmentType
    OBVIOUS
  <1>2. Offered(h, n, e, segments)
    BY <1>1, EventsExist
  <1>3. Events(e, segments) = h[n]
    BY DEF Events, Offered
  <1> HIDE DEF h, n
  <1>4. h = [k \in 0 .. n |-> H(k, h[k - 1])]
    BY <1>2 DEF Offered
  <1> HIDE DEF H
  <1>5. \A k \in 0 .. n : h[k] = H(k, h[k - 1])
    BY <1>4
  <1> DEFINE Good(k) == /\ h[k] = [reported |-> h[k].reported, phase |-> h[k].phase]
                        /\ Scanned(h[k].reported, h[k].phase)
             Bad == {k \in 0 .. n : ~ Good(k)}
  <1>6. Good(0)
    <2>1. h[0] = e
      BY <1>1, <1>5 DEF H
    <2>2. QED BY <2>1
  <1>7. ASSUME NEW k \in 1 .. n, Good(k - 1) PROVE Good(k)
    <2>1. h[k] = OfferSegment(h[k - 1], segments[k])
      BY <1>1, <1>5 DEF H
    <2>2. segments[k] \in SegmentType
      BY <1>1
    <2>3. QED BY <1>7, <2>1, <2>2, OfferScanned
  <1> HIDE DEF Good
  <1>8. Bad = {}
    <2>1. ASSUME Bad # {} PROVE FALSE
      <3>1. Bad \subseteq Nat
        BY <1>1
      <3>2. PICK x \in Bad : \A y \in Bad : x <= y
        <4> HIDE DEF Bad
        <4> QED BY <2>1, <3>1, LeastFrame
      <3>3. x \in 0 .. n /\ ~ Good(x) /\ x # 0
        BY <1>6
      <3>4. x - 1 \in 0 .. n /\ x \in 1 .. n /\ ~ (x <= x - 1)
        BY <3>3, <1>1
      <3>5. Good(x - 1)
        BY <3>2, <3>4
      <3>6. QED BY <3>3, <3>4, <3>5, <1>7
    <2>2. QED BY <2>1
  <1>9. Good(n)
    <2>1. n \in 0 .. n
      BY <1>1
    <2>2. QED BY <2>1, <1>8
  <1>10. QED BY <1>3, <1>9 DEF Good

-----------------------------------------------------------------------------
(* The steps.                                                              *)

Counters ==
  /\ pc \in {"input", "media", "control", "join", "done"}
  /\ m.sample_offset <= MaxFrames /\ (pc = "media" => m.sample_offset < MaxFrames)
  /\ m.found \in 0 .. Len(Heard) /\ m.attempts \in 0 .. MaxAttempts
  /\ resets \in 0 .. MaxResets

Held ==
  /\ live_job_samples \in Snapshots /\ worker.samples \in Snapshots
  /\ live_result.found => live_result.kind \in CpKinds

Training == v90 \in TxType /\ Scanned(m.reported, v90.phase)

GInv == HInv /\ Counters /\ Held /\ Training

LEMMA Sizes == /\ Len(Heard) \in Nat /\ MaxFrames \in Nat /\ MaxAttempts \in Nat
               /\ MaxResets \in Nat
  BY V90BridgeAssumption

\* A frame takes the loop on by one position and moves no phase.
LEMMA MediaTraining ==
  ASSUME GInv, Media
  PROVE  /\ m'.found \in 0 .. Len(Heard) /\ m'.attempts = m.attempts
         /\ m'.reported = m.reported
         /\ v90' \in TxType /\ v90'.phase = v90.phase
         /\ live_result'.found = live_result.found
         /\ live_result'.kind = live_result.kind
  <1>1. IsLoop(m) /\ IsResult(live_result)
    BY DEF GInv, HInv, IInv, Shapes
  <1>2. PICK n \in Peer, found \in IF m.connected THEN {m.found} ELSE SegmentsFound,
             c \in Choice :
          LET signal == Signals[n]
              takes == Live /\ ~m.connected /\ live_result.ready
              l == [m EXCEPT !.live = Recorded(signal), !.found = found]
              a == IF takes THEN ApplyResult([m |-> l, rx |-> rx, v90 |-> v90],
                                             live_result, c)
                   ELSE [m |-> l, rx |-> rx, v90 |-> v90]
              f == FeedFrame(a, signal, c)
          IN  /\ m' = [f.m EXCEPT !.sample_offset = @ + 1]
              /\ rx' = f.rx /\ v90' = f.v90
              /\ peer' = [sends |-> n, e_at |-> IF signal = "E" THEN m.sample_offset
                                                ELSE peer.e_at]
              /\ live_result' = IF takes THEN [live_result EXCEPT !.ready = FALSE]
                                ELSE live_result
    BY DEF Media
  <1> DEFINE signal == Signals[n]
             takes == Live /\ ~m.connected /\ live_result.ready
             later == Recorded(signal)
             l == [m EXCEPT !.live = later, !.found = found]
             b == [m |-> l, rx |-> rx, v90 |-> v90]
             a == IF takes THEN ApplyResult(b, live_result, c) ELSE b
             f == FeedFrame(a, signal, c)
  <1>3. /\ m' = [f.m EXCEPT !.sample_offset = @ + 1] /\ v90' = f.v90
        /\ live_result' = IF takes THEN [live_result EXCEPT !.ready = FALSE]
                          ELSE live_result
    BY <1>2
  <1>4. found \in 0 .. Len(Heard)
    <2>1. m.found \in 0 .. Len(Heard)
      BY DEF GInv, Counters
    <2>2. found = m.found \/ found \in m.found .. Len(Heard)
      BY <1>2 DEF SegmentsFound
    <2>3. QED BY <2>1, <2>2, Sizes
  <1>5. Len(later) \in Nat
    <2>1. m.live \in Seq(Signal)
      BY DEF GInv, HInv, Line
    <2>2. later = m.live \/ later = Append(m.live, signal)
      BY DEF Recorded
    <2>3. n \in 1 .. 6
      BY DEF Peer, Signals
    <2>4. signal \in Signal
      BY <2>3 DEF Signal
    <2> HIDE DEF later, signal
    <2>5. later \in Seq(Signal)
      BY <2>1, <2>2, <2>4
    <2>6. QED BY <2>5
  <1> HIDE DEF later, signal
  <1>6. /\ IsState(b) /\ b.m.live = later /\ b.v90 = v90
        /\ b.m.reported = m.reported /\ b.m.attempts = m.attempts /\ b.m.found = found
    BY <1>1 DEF IsState, IsLoop, LoopFields
  <1> HIDE DEF b, l
  <1>7. v90 \in TxType
    BY DEF GInv, Training
  <1>8. live_result.found => live_result.last \in Nat /\ live_result.kind \in CpKinds
    BY DEF GInv, HInv, Copies, Held
  <1>9. IsState(a) /\ SameScan(b.m, a.m) /\ SameTx(v90, a.v90)
    <2>1. CASE takes
      <3>1. a = ApplyResult(b, live_result, c)
        BY <2>1
      <3>2. QED BY <3>1, <1>5, <1>6, <1>7, <1>8, ApplyResultTx, ApplyResultAdvances
    <2>2. CASE ~ takes
      BY <2>2, <1>6, <1>7 DEF SameScan, SameTx
    <2>3. QED BY <2>1, <2>2
  <1> HIDE DEF a
  <1>10. IsLoop(f.m) /\ SameScan(a.m, f.m) /\ SameTx(a.v90, f.v90)
    BY <1>9, FeedFrameTx, FeedFrameKeeps DEF Keeps, SameTx
  <1> HIDE DEF f
  <1>11. /\ m'.found = f.m.found /\ m'.attempts = f.m.attempts
         /\ m'.reported = f.m.reported
    BY <1>3, <1>10 DEF IsLoop, LoopFields
  <1>12. live_result'.found = live_result.found /\ live_result'.kind = live_result.kind
    BY <1>1, <1>3 DEF IsResult
  <1>13. QED BY <1>3, <1>4, <1>6, <1>9, <1>10, <1>11, <1>12 DEF SameScan, SameTx

LEMMA MediaGInv == ASSUME GInv, Media PROVE GInv'
  <1>1. HInv'
    BY MediaHInv DEF GInv
  <1>2. pc = "media" /\ pc' = "control" /\ UNCHANGED <<live_job_samples, worker, resets>>
    BY DEF Media
  <1>3. m'.sample_offset = m.sample_offset + 1
    BY MediaStep DEF GInv
  <1>4. Counters'
    <2>1. m.sample_offset \in Nat /\ m.sample_offset < MaxFrames
      BY <1>2 DEF GInv, Counters, HInv, Line
    <2>2. m'.sample_offset <= MaxFrames
      BY <1>3, <2>1, Sizes
    <2>3. QED BY <1>2, <2>2, MediaTraining DEF GInv, Counters
  <1>5. Held'
    BY <1>2, MediaTraining DEF GInv, Held
  <1>6. Training'
    BY MediaTraining DEF GInv, Training
  <1>7. QED BY <1>1, <1>4, <1>5, <1>6 DEF GInv

LEMMA SnapshotType ==
  ASSUME NEW l, l.live \in Seq(Signal), resets \in Nat
  PROVE  Snapshot(l) \in Snapshots
  <1>1. CopyOf(Snapshot(l), l.live)
    BY SnapshotCopies
  <1>2. Snapshot(l).samples \in Seq(Signal) /\ Snapshot(l).offset \in Nat
    BY <1>1 DEF CopyOf
  <1>3. Snapshot(l).call = resets /\ Snapshot(l) =
          [call |-> Snapshot(l).call, offset |-> Snapshot(l).offset,
           samples |-> Snapshot(l).samples]
    BY DEF Snapshot
  <1>4. QED BY <1>2, <1>3 DEF Snapshots

LEMMA ScanStep ==
  ASSUME NEW l, IsLoop(l), l.found \in 0 .. Len(Heard),
         NEW phase, Scanned(l.reported, phase)
  PROVE  LET e == Scan(l, phase)
         IN  /\ Scanned(e.m.reported, e.phase)
             /\ e.m.found = l.found /\ e.m.attempts = l.attempts
  <1> DEFINE g == [reported |-> l.reported, phase |-> phase]
             q == SubSeq(Heard, 1, l.found)
             e == Events(g, q)
  <1>1. CASE l.connected
    <2>1. Scan(l, phase) = [m |-> l, phase |-> phase]
      BY <1>1 DEF Scan
    <2>2. QED BY <2>1
  <1>2. CASE ~ l.connected /\ l.segment_scan_frames + 1 < SegmentScan
    <2>1. Scan(l, phase) = [m |-> [l EXCEPT !.segment_scan_frames = @ + 1], phase |-> phase]
      BY <1>2 DEF Scan
    <2>2. QED BY <2>1 DEF IsLoop, LoopFields
  <1>3. CASE ~ l.connected /\ ~ (l.segment_scan_frames + 1 < SegmentScan)
    <2>1. Scan(l, phase) =
            [m |-> [l EXCEPT !.segment_scan_frames = 0, !.reported = e.reported],
             phase |-> e.phase]
      BY <1>3 DEF Scan
    <2>2. q \in Seq(SegmentType)
      <3>1. Heard \in Seq(SegmentType)
        BY V90BridgeAssumption DEF SegmentType
      <3>2. \A k \in 1 .. l.found : Heard[k] \in SegmentType
        BY <3>1, Sizes
      <3>3. l.found \in Nat /\ l.found <= Len(Heard)
        BY Sizes
      <3>4. QED BY <3>1, <3>2, <3>3
    <2>3. g = [reported |-> g.reported, phase |-> g.phase]
          /\ g.reported = l.reported /\ g.phase = phase
      OBVIOUS
    <2> HIDE DEF g, q
    <2>4. Scanned(e.reported, e.phase)
      BY <2>2, <2>3, EventsScanned
    <2> HIDE DEF e
    <2> DEFINE k == [l EXCEPT !.segment_scan_frames = 0, !.reported = e.reported]
    <2>5. k.reported = e.reported /\ k.found = l.found /\ k.attempts = l.attempts
      BY DEF IsLoop, LoopFields
    <2> HIDE DEF k
    <2>6. Scan(l, phase).m = k /\ Scan(l, phase).phase = e.phase
      BY <2>1 DEF k
    <2>7. QED BY <2>4, <2>5, <2>6
  <1>4. QED BY <1>1, <1>2, <1>3

LEMMA ControlGInv == ASSUME GInv, Control PROVE GInv'
  <1>1. HInv' /\ IsLoop(m) /\ resets \in Nat
    BY ControlHInv DEF GInv, HInv, IInv, Shapes
  <1>2. pc' = "input" /\ UNCHANGED <<live_result, worker, resets>>
    BY DEF Control
  <1> DEFINE e == Scan(m, v90.phase)
             n == NotePhase4(e.m, e.phase)
             l == [n EXCEPT !.connected = @ \/ e.phase = "DATA"]
  <1>3. /\ IsLoop(e.m) /\ SameLine(m, e.m) /\ Scanned(e.m.reported, e.phase)
        /\ e.m.found = m.found /\ e.m.attempts = m.attempts
    BY <1>1, ScanKeeps, ScanLine, ScanStep DEF Keeps, GInv, Counters, Training
  <1>4. PICK data \in BOOLEAN :
          /\ data => e.phase = "RI" /\ v90.cp \in {"CP", "CP'"}
          /\ v90' = [v90 EXCEPT !.phase = IF data THEN "DATA" ELSE e.phase]
          /\ \/ MayTry(n) /\ SearchFree /\ LiveCpTry(l)
             \/ NoTry(l)
    BY DEF Control
  <1> HIDE DEF e
  <1>5. IsLoop(n) /\ SameLine(e.m, n) /\ SameScan(e.m, n)
    <2>1. IsLoop(n) /\ SameLine(e.m, n)
      BY <1>3, NotePhase4Keeps, NotePhase4Line DEF Keeps
    <2>2. SameScan(e.m, n)
      BY <1>3 DEF NotePhase4, IsLoop, LoopFields, SameScan
    <2>3. QED BY <2>1, <2>2
  <1> HIDE DEF n
  <1>6. IsLoop(l) /\ SameScan(n, l) /\ l.live = n.live
    BY <1>5 DEF IsLoop, LoopFields, SameScan
  <1> HIDE DEF l
  <1>7. Training'
    <2> DEFINE phase == IF data THEN "DATA" ELSE e.phase
    <2>1. phase \in PhaseSet /\ Left(phase) = Left(e.phase)
      <3>1. Left("RI") = 3 /\ Left("DATA") = 3
        BY DEF Left
      <3>2. QED BY <3>1, <1>3, <1>4 DEF Scanned, PhaseSet
    <2>2. v90' = [v90 EXCEPT !.phase = phase]
      BY <1>4
    <2>3. Scanned(e.m.reported, phase)
      BY <2>1, <1>3 DEF Scanned
    <2> HIDE DEF phase
    <2>4. v90' \in TxType /\ v90'.phase = phase
      BY <2>1, <2>2 DEF GInv, Training, TxType
    <2>5. m'.reported = e.m.reported
      <3>1. CASE NoTry(l)
        BY <3>1, <1>5, <1>6 DEF NoTry, SameScan
      <3>2. CASE LiveCpTry(l)
        <4>1. m'.reported = l.reported
          BY <3>2, <1>6 DEF LiveCpTry, IsLoop, LoopFields
        <4>2. QED BY <4>1, <1>5, <1>6 DEF SameScan
      <3>3. QED BY <1>4, <3>1, <3>2
    <2>6. QED BY <2>3, <2>4, <2>5 DEF Training
  <1>8. l.found = m.found /\ l.attempts = m.attempts /\ n.attempts = m.attempts
    BY <1>3, <1>5, <1>6 DEF SameScan
  <1>9. m.found \in 0 .. Len(Heard) /\ m.attempts \in 0 .. MaxAttempts
    BY DEF GInv, Counters
  <1>10. Counters'
    <2>1. m'.sample_offset = m.sample_offset
      <3>1. l.sample_offset = m.sample_offset
        BY <1>3, <1>5 DEF SameLine, l, IsLoop, LoopFields
      <3>2. CASE NoTry(l)
        BY <3>1, <3>2 DEF NoTry
      <3>3. CASE LiveCpTry(l)
        BY <3>1, <3>3, <1>6 DEF LiveCpTry, IsLoop, LoopFields
      <3>4. QED BY <1>4, <3>2, <3>3
    <2>2. m'.found = m.found /\ m'.attempts \in 0 .. MaxAttempts
      <3>1. CASE NoTry(l)
        BY <3>1, <1>8, <1>9 DEF NoTry
      <3>2. CASE MayTry(n) /\ LiveCpTry(l)
        <4>1. m'.found = l.found /\ m'.attempts = l.attempts + 1
          BY <3>2, <1>6 DEF LiveCpTry, IsLoop, LoopFields
        <4>2. n.attempts < MaxAttempts
          BY <3>2 DEF MayTry
        <4>3. QED BY <4>1, <4>2, <1>8, <1>9, Sizes
      <3>3. QED BY <1>4, <3>1, <3>2
    <2>3. QED BY <1>2, <1>9, <2>1, <2>2 DEF GInv, Counters
  <1>11. Held'
    <2>1. l.live \in Seq(Signal)
      BY <1>3, <1>5, <1>6 DEF SameLine, GInv, HInv, Line
    <2>2. Snapshot(l) \in Snapshots
      BY <1>1, <2>1, SnapshotType
    <2>3. live_job_samples' \in {live_job_samples, Snapshot(l)}
      BY <1>4 DEF NoTry, LiveCpTry
    <2>4. QED BY <1>2, <2>2, <2>3 DEF GInv, Held
  <1>12. QED BY <1>1, <1>7, <1>10, <1>11 DEF GInv

\* The worker hands on what it was given.
LEMMA WorkerGInv == ASSUME GInv, Worker PROVE GInv'
  <1>1. HInv' /\ IsWorker(worker)
    BY WorkerHInv DEF GInv, HInv, IInv, Shapes
  <1>2. UNCHANGED <<pc, m, v90, resets>>
    BY DEF Worker, WorkerTake, WorkerExit, WorkerPublish
  <1>3. Counters' /\ Training'
    BY <1>2 DEF GInv, Counters, Training
  <1>4. NULL \in Snapshots
    BY DEF NULL, Snapshots
  <1>5. Held'
    <2>1. CASE WorkerTake
      BY <1>4, <2>1 DEF GInv, Held, WorkerTake
    <2>2. CASE WorkerExit
      <3>1. worker'.samples = worker.samples /\ live_job_samples' = live_job_samples
            /\ live_result' = live_result
        BY <1>1, <2>2 DEF WorkerExit, IsWorker, shared
      <3>2. QED BY <3>1 DEF GInv, Held
    <2>3. CASE WorkerPublish
      <3>1. worker'.samples = NULL /\ live_job_samples' = live_job_samples
        BY <2>3 DEF WorkerPublish
      <3>2. ASSUME live_result'.found PROVE live_result'.kind \in CpKinds
        <4>1. CASE live_result' = live_result
          BY <3>2, <4>1 DEF GInv, Held
        <4>2. CASE live_result' =
                     [NoResult EXCEPT !.ready = TRUE, !.call = worker.samples.call,
                                      !.expected = worker.expected]
          <5>1. live_result'.found = FALSE
            BY <4>2 DEF NoResult
          <5>2. QED BY <5>1, <3>2
        <4>3. ASSUME NEW i \in Recoverable(worker.expected, worker.samples),
                     live_result' = [ready |-> TRUE, found |-> TRUE,
                                     expected |-> worker.expected,
                                     kind |-> worker.samples.samples[i],
                                     last |-> worker.samples.offset + i,
                                     call |-> worker.samples.call]
              PROVE  live_result'.kind \in CpKinds
          <5>1. live_result'.kind = worker.samples.samples[i]
            BY <4>3
          <5>2. QED BY <5>1 DEF Recoverable, CpKinds
        <4>4. QED BY <2>3, <4>1, <4>2, <4>3 DEF WorkerPublish
      <3>3. QED BY <1>4, <3>1, <3>2 DEF GInv, Held
    <2>4. QED BY <2>1, <2>2, <2>3 DEF Worker
  <1>6. QED BY <1>1, <1>3, <1>5 DEF GInv

\* A call that begins has reported nothing.
LEMMA FreshTraining ==
  ASSUME NEW l, l = NewLoop, NEW v, v = NewTransmitter
  PROVE  /\ l.sample_offset = 0 /\ l.found \in 0 .. Len(Heard)
         /\ l.attempts \in 0 .. MaxAttempts
         /\ v \in TxType /\ Scanned(l.reported, v.phase)
  <1>1. l.sample_offset = 0 /\ l.found = 0 /\ l.attempts = 0 /\ l.reported = <<>>
    BY DEF NewLoop
  <1>2. v \in TxType /\ v.phase = "WAIT_JA"
    BY DEF NewTransmitter, TxType, PhaseSet, CpKinds
  <1>3. AcceptedIn(<<>>) = {}
    BY DEF AcceptedIn
  <1>4. Scanned(<<>>, "WAIT_JA")
    <2>1. <<>> \in Seq(Entries) /\ Len(<<>>) <= MaxReported
      BY V90BridgeAssumption
    <2>2. Cardinality(AcceptedIn(<<>>)) = 0 /\ Left("WAIT_JA") = 0
      BY <1>3, FS_EmptySet DEF Left
    <2>3. QED BY <2>1, <2>2 DEF Scanned, PhaseSet
  <1>5. l.found \in 0 .. Len(Heard) /\ l.attempts \in 0 .. MaxAttempts
    BY <1>1, Sizes
  <1>6. QED BY <1>1, <1>2, <1>4, <1>5

LEMMA InitGInv == ASSUME Init PROVE GInv
  <1>1. HInv
    BY InitHInv
  <1>2. m = NewLoop /\ v90 = NewTransmitter /\ pc = "input" /\ resets = 0
    BY DEF Init
  <1>3. Counters
    <2>1. m.sample_offset = 0 /\ m.found \in 0 .. Len(Heard) /\ m.attempts \in 0 .. MaxAttempts
      BY <1>2, FreshTraining
    <2>2. QED BY <1>2, <2>1, Sizes DEF Counters
  <1>4. Training
    BY <1>2, FreshTraining DEF Training
  <1>5. Held
    <2>1. live_job_samples = NULL /\ worker.samples = NULL /\ live_result.found = FALSE
      BY DEF Init, NewWorker, NoResult
    <2>2. NULL \in Snapshots
      BY DEF NULL, Snapshots
    <2>3. QED BY <2>1, <2>2 DEF Held
  <1>6. QED BY <1>1, <1>3, <1>4, <1>5 DEF GInv

LEMMA JoinGInv == ASSUME GInv, Join PROVE GInv'
  <1>1. HInv'
    BY JoinHInv DEF GInv
  <1>2. live_job_samples' = NULL /\ resets' = resets /\ NULL \in Snapshots
    BY DEF Join, NULL, Snapshots
  <1>3. CASE m.sample_offset = MaxFrames
    <2>1. pc' = "done" /\ UNCHANGED <<m, v90, live_result, worker>>
      BY <1>3 DEF Join
    <2>2. QED BY <1>1, <1>2, <2>1 DEF GInv, Counters, Training, Held
  <1>4. CASE m.sample_offset # MaxFrames
    <2>1. /\ m' = NewLoop /\ v90' = NewTransmitter /\ pc' = "media"
          /\ live_result' = NoResult /\ worker' = NewWorker
      BY <1>4 DEF Join, Joined
    <2>2. 0 < MaxFrames
      BY <1>4, Sizes DEF GInv, Counters, HInv, Line
    <2>3. /\ m'.sample_offset = 0 /\ m'.found \in 0 .. Len(Heard)
          /\ m'.attempts \in 0 .. MaxAttempts
          /\ v90' \in TxType /\ Scanned(m'.reported, v90'.phase)
      BY <2>1, FreshTraining
    <2>4. Training'
      BY <2>3 DEF Training
    <2>8. resets' \in 0 .. MaxResets /\ m'.sample_offset < MaxFrames
      BY <1>2, <2>2, <2>3 DEF GInv, Counters
    <2>9. Counters'
      BY <2>1, <2>2, <2>3, <2>8, Sizes DEF Counters
    <2>5. worker'.samples = NULL /\ live_result'.found = FALSE
      BY <2>1 DEF NewWorker, NoResult
    <2>6. Held'
      BY <1>2, <2>5 DEF Held
    <2>7. QED BY <1>1, <2>4, <2>6, <2>9 DEF GInv
  <1>5. QED BY <1>3, <1>4

LEMMA OtherGInv ==
  ASSUME GInv, Reset \/ InputEnds \/ StartFrame \/ UNCHANGED vars
  PROVE  GInv'
  <1>1. HInv'
    BY OtherHInv DEF GInv
  <1>2. UNCHANGED <<m, v90, live_job_samples, live_result, worker>>
    BY DEF Reset, InputEnds, StopWorker, StartFrame, vars, shared
  <1>3. Training' /\ Held'
    BY <1>2 DEF GInv, Training, Held
  <1>4. Counters'
    <2>1. CASE Reset
      <3>1. resets' \in 0 .. MaxResets
        BY <2>1, Sizes DEF Reset, GInv, Counters
      <3>2. pc' = "join"
        BY <2>1 DEF Reset, StopWorker
      <3>3. QED BY <1>2, <3>1, <3>2 DEF GInv, Counters
    <2>2. CASE InputEnds
      BY <1>2, <2>2 DEF InputEnds, StopWorker, GInv, Counters
    <2>3. CASE StartFrame
      BY <1>2, <2>3 DEF StartFrame, GInv, Counters
    <2>4. CASE UNCHANGED vars
      BY <2>4 DEF vars, GInv, Counters
    <2>5. QED BY <2>1, <2>2, <2>3, <2>4
  <1>5. QED BY <1>1, <1>3, <1>4 DEF GInv

LEMMA TrainingInvariance == Spec => []GInv
  <1>1. GInv /\ [Next]_vars => GInv'
    BY MediaGInv, ControlGInv, WorkerGInv, JoinGInv, OtherGInv DEF Next, Loop
  <1>2. QED BY InitGInv, <1>1, PTL DEF Spec

-----------------------------------------------------------------------------
(* The receiver keeps its type, whatever the delay and the history.        *)

LEMMA HearType ==
  ASSUME NEW s, Pair(s), s.rx \in ReceiverType, NEW at \in Int, NEW signal,
         NEW c \in Choice
  PROVE  LET h == HearFrame(s, at, signal, c) IN Pair(h) /\ h.rx \in ReceiverType
  <1> DEFINE t == IF s.rx.started \/ signal \notin {"CP", "CP'"} THEN s
                  ELSE CpFrame(s, signal, c)
             r == IF t.rx.started THEN t.rx ELSE PutBit(t.rx, at, signal)
             n == IF r.started THEN r.heard + 1 ELSE 0
             b == (signal = "silence")
             w == [r EXCEPT !.last = at, !.mute = b, !.heard = n]
  <1>1. Pair(t) /\ t.rx \in ReceiverType
    <2>1. CASE t = s
      BY <2>1
    <2>2. CASE t # s
      <3> DEFINE q == s.rx
                 k == q.prepared \/ c.ready
                 x == [q EXCEPT !.look_for_e = TRUE, !.prepared = k]
                 v == [s.v90 EXCEPT !.cp = signal]
      <3>1. t = CpFrame(s, signal, c)
        BY <2>2
      <3> HIDE DEF t
      <3>2. k \in BOOLEAN
        OBVIOUS
      <3>3. x \in ReceiverType
        <4> HIDE DEF k, q
        <4>1. q \in ReceiverType
          BY DEF q
        <4> QED BY <4>1, <3>2, Asked
      <3>4. [s.rx EXCEPT !.look_for_e = TRUE, !.prepared = @ \/ c.ready] = x
        BY DEF ReceiverType
      <3>5. t = [rx |-> x, v90 |-> v]
        <4> HIDE DEF x, q, k
        <4> QED BY <2>2, <3>1, <3>4 DEF CpFrame
      <3> HIDE DEF x, v, k, q
      <3>6. QED BY <3>3, <3>5 DEF Pair
    <2>3. QED BY <2>1, <2>2
  <1> HIDE DEF t
  <1>2. r \in ReceiverType
    <2> DEFINE q == t.rx
               d == (signal = "E")
    <2>1. q \in ReceiverType /\ d \in BOOLEAN
      BY <1>1
    <2>2. \/ r = q
          \/ r = [q EXCEPT !.e_complete = d]
          \/ r = [q EXCEPT !.started = TRUE, !.begun = at]
      BY DEF PutBit
    <2> HIDE DEF q, d, r
    <2>3. CASE r = [q EXCEPT !.e_complete = d]
      BY <2>1, <2>3, SawE
    <2>4. CASE r = [q EXCEPT !.started = TRUE, !.begun = at]
      BY <2>1, <2>4, Begun
    <2>5. QED BY <2>1, <2>2, <2>3, <2>4
  <1>3. r.heard \in Nat /\ r.started \in BOOLEAN
    <2> HIDE DEF r
    <2> QED BY <1>2 DEF ReceiverType
  <1>4. HearFrame(s, at, signal, c) = [t EXCEPT !.rx = w]
    BY DEF HearFrame, t
  <1> HIDE DEF r
  <1>5. n \in Nat /\ b \in BOOLEAN
    BY <1>3
  <1> HIDE DEF n, b
  <1>6. w \in ReceiverType
    BY <1>2, <1>5 DEF ReceiverType
  <1> HIDE DEF w
  <1>7. HearFrame(s, at, signal, c) = [rx |-> w, v90 |-> t.v90]
    BY <1>1, <1>4 DEF Pair
  <1>8. QED BY <1>6, <1>7 DEF Pair

LEMMA ReplayType ==
  ASSUME NEW s, Pair(s), s.rx \in ReceiverType, NEW a \in Nat, NEW live,
         Len(live) \in Nat, a <= Len(live), NEW c \in Choice
  PROVE  Replay(s, a, live, c).rx \in ReceiverType
  <1> DEFINE n == Len(live)
  <1>1. n \in Nat /\ a <= n
    OBVIOUS
  <1>2. PICK f : HeardAll(f, s, a, live, c) /\ Replay(s, a, live, c) = f[n]
    BY ReplayIs, <1>1
  <1>3. /\ f[a] = s
        /\ \A k \in a + 1 .. n : f[k] = HearFrame(f[k - 1], k - 1, live[k], c)
    BY <1>2 DEF HeardAll
  <1> HIDE DEF n
  <1> DEFINE Good(k) == Pair(f[k]) /\ f[k].rx \in ReceiverType
             Bad == {k \in a .. n : ~ Good(k)}
  <1>4. Good(a)
    BY <1>3
  <1>5. ASSUME NEW k \in a + 1 .. n, Good(k - 1) PROVE Good(k)
    <2>1. f[k] = HearFrame(f[k - 1], k - 1, live[k], c) /\ k - 1 \in Int
      BY <1>1, <1>3
    <2>2. QED BY <2>1, <1>5, HearType
  <1> HIDE DEF Good
  <1>6. Bad = {}
    <2>1. ASSUME Bad # {} PROVE FALSE
      <3>1. Bad \subseteq Nat
        BY <1>1
      <3>2. PICK x \in Bad : \A y \in Bad : x <= y
        <4> HIDE DEF Bad
        <4> QED BY <2>1, <3>1, LeastFrame
      <3>3. x \in a .. n /\ ~ Good(x) /\ x # a
        BY <1>4
      <3>4. x - 1 \in a .. n /\ x \in a + 1 .. n /\ ~ (x <= x - 1)
        BY <3>3, <1>1
      <3>5. Good(x - 1)
        BY <3>2, <3>4
      <3>6. QED BY <3>3, <3>4, <3>5, <1>5
    <2>2. QED BY <2>1
  <1>7. Good(n)
    <2>1. n \in a .. n
      BY <1>1
    <2>2. QED BY <2>1, <1>6
  <1>8. QED BY <1>2, <1>7 DEF Good

\* upstream_e_complete is cleared and the history heard from there.
LEMMA HeardAgain ==
  ASSUME NEW r \in ReceiverType, NEW v, NEW a \in Nat, NEW live,
         Len(live) \in Nat, a <= Len(live), NEW c \in Choice
  PROVE  Replay(ForgetE([rx |-> r, v90 |-> v]), a, live, c).rx \in ReceiverType
  <1> DEFINE w == [r EXCEPT !.e_complete = FALSE]
             b == [rx |-> r, v90 |-> v]
             g == ForgetE(b)
  <1>1. w \in ReceiverType
    BY DEF ReceiverType
  <1>2. g = [rx |-> w, v90 |-> v]
    <2>1. Pair(b) /\ b.rx = r /\ b.v90 = v
      BY DEF Pair
    <2> HIDE DEF b
    <2>2. g = [b EXCEPT !.rx = [b.rx EXCEPT !.e_complete = FALSE]]
      BY <2>1 DEF Pair, ForgetE
    <2>3. g = [b EXCEPT !.rx = w]
      BY <2>1, <2>2
    <2> HIDE DEF g, w
    <2>4. QED BY <2>1, <2>3 DEF Pair
  <1> HIDE DEF w, g
  <1>3. Pair(g) /\ g.rx \in ReceiverType
    BY <1>1, <1>2 DEF Pair
  <1>4. Replay(g, a, live, c).rx \in ReceiverType
    BY <1>3, ReplayType
  <1>5. QED BY <1>4 DEF g, b

LEMMA FirstDataCpType ==
  ASSUME NEW s, IsState(s), s.rx \in ReceiverType, Len(s.m.live) \in Nat,
         NEW r, r.last \in Nat, NEW c \in Choice
  PROVE  FirstDataCp(s, r, c).rx \in ReceiverType
  <1> DEFINE t == [s EXCEPT !.m.data_cp_accepted = TRUE, !.rx.look_for_e = TRUE,
                            !.m.begin_pending = TRUE]
             newly == ~t.rx.prepared /\ c.ready
             u == [t EXCEPT !.rx.prepared = @ \/ newly,
                            !.m.prepare_at = IF ~t.rx.prepared /\ ~newly /\ @ < 0
                                               THEN r.last ELSE @]
             h == Replay(ForgetE([rx |-> u.rx, v90 |-> u.v90]), r.last, u.m.live, c)
  <1>1. IsState(t) /\ t.rx \in ReceiverType /\ t.m.live = s.m.live
    <2>1. IsState(t) /\ t.m.live = s.m.live /\ t.rx = [s.rx EXCEPT !.look_for_e = TRUE]
      BY DEF IsState, IsLoop, LoopFields
    <2> DEFINE w == [s.rx EXCEPT !.look_for_e = TRUE]
    <2>2. w \in ReceiverType
      BY DEF ReceiverType
    <2> HIDE DEF t, w
    <2>3. QED BY <2>1, <2>2 DEF w
  <1> HIDE DEF t
  <1>2. u.rx \in ReceiverType /\ u.m.live = s.m.live
    <2> DEFINE q == t.rx
               b == q.prepared \/ newly
               d == IF ~t.rx.prepared /\ ~newly /\ t.m.prepare_at < 0
                      THEN r.last ELSE t.m.prepare_at
               w == [q EXCEPT !.prepared = b]
    <2>1. u = [t EXCEPT !.rx.prepared = b, !.m.prepare_at = d]
      BY <1>1 DEF IsState, IsLoop, LoopFields
    <2>2. q \in ReceiverType /\ b \in BOOLEAN
      BY <1>1
    <2> HIDE DEF b, d, newly, u
    <2>3. u.rx = w /\ u.m.live = t.m.live
      BY <2>1, <1>1 DEF IsState, IsLoop, LoopFields
    <2> HIDE DEF q
    <2>4. w \in ReceiverType
      BY <2>2 DEF ReceiverType
    <2> HIDE DEF w
    <2>5. QED BY <1>1, <2>3, <2>4
  <1> HIDE DEF u
  <1>3. ASSUME r.last < Len(u.m.live) PROVE h.rx \in ReceiverType
    <2>1. Len(u.m.live) \in Nat /\ r.last <= Len(u.m.live)
      BY <1>2, <1>3
    <2>2. QED BY <1>2, <2>1, HeardAgain
  <1>4. FirstDataCp(s, r, c) = IF newly /\ r.last < Len(u.m.live)
          THEN [m |-> [u.m EXCEPT !.replayed = TRUE], rx |-> h.rx, v90 |-> h.v90]
          ELSE u
    BY DEF FirstDataCp, u, t
  <1> HIDE DEF h, newly
  <1>5. QED BY <1>2, <1>3, <1>4

LEMMA AcknowledgedCpType ==
  ASSUME NEW s, IsState(s), s.rx \in ReceiverType, Len(s.m.live) \in Nat,
         NEW r, r.last \in Nat, NEW c \in Choice
  PROVE  AcknowledgedCp(s, r, c).rx \in ReceiverType
  <1> DEFINE t == [s EXCEPT !.m.cp_done = TRUE]
             w == [t.rx EXCEPT !.prepared = TRUE, !.look_for_e = TRUE]
             h == Replay(ForgetE([rx |-> w, v90 |-> t.v90]), r.last, t.m.live, c)
  <1>1. IsState(t) /\ t.rx = s.rx /\ t.m.live = s.m.live
    BY DEF IsState, IsLoop, LoopFields
  <1> HIDE DEF t
  <1>2. w \in ReceiverType
    BY <1>1 DEF ReceiverType
  <1>3. AcknowledgedCp(s, r, c) =
          IF r.kind = "CP'" /\ ~t.rx.started /\ c.again /\ r.last < Len(t.m.live)
            THEN [m |-> [t.m EXCEPT !.replayed = TRUE], rx |-> h.rx, v90 |-> h.v90]
            ELSE IF r.kind = "CP'" THEN t ELSE s
    BY DEF AcknowledgedCp, t
  <1> HIDE DEF w
  <1>4. ASSUME r.last < Len(t.m.live) PROVE h.rx \in ReceiverType
    <2>1. Len(t.m.live) \in Nat /\ r.last <= Len(t.m.live)
      BY <1>1, <1>4
    <2>2. QED BY <1>2, <2>1, HeardAgain
  <1> HIDE DEF h
  <1>5. QED BY <1>1, <1>3, <1>4

LEMMA ApplyResultType ==
  ASSUME NEW s, IsState(s), s.rx \in ReceiverType, Len(s.m.live) \in Nat,
         NEW r, r.found => r.last \in Nat, NEW c \in Choice
  PROVE  ApplyResult(s, r, c).rx \in ReceiverType
  <1> DEFINE t == [s EXCEPT !.m.cp_accepted = TRUE, !.v90.cp = r.kind]
             f == FirstDataCp(t, r, c)
  <1>1. IsState(t) /\ t.rx = s.rx /\ t.m.live = s.m.live
    BY DEF IsState, IsLoop, LoopFields
  <1>2. CASE ~ r.found
    BY <1>2 DEF ApplyResult
  <1>3. CASE r.found
    <2>1. \/ ApplyResult(s, r, c) = s
          \/ ApplyResult(s, r, c) = t
          \/ ApplyResult(s, r, c) = AcknowledgedCp(f, r, c)
      BY DEF ApplyResult
    <2> HIDE DEF t
    <2>2. f.rx \in ReceiverType
      BY <1>1, <1>3, FirstDataCpType
    <2>3. IsState(f) /\ f.m.live = s.m.live
      BY <1>1, FirstDataCpKeeps, FirstDataCpLine DEF SameLine
    <2> HIDE DEF f
    <2>4. AcknowledgedCp(f, r, c).rx \in ReceiverType
      BY <1>3, <2>2, <2>3, AcknowledgedCpType
    <2>5. QED BY <1>1, <2>1, <2>4
  <1>4. QED BY <1>2, <1>3

LEMMA FeedFrameType ==
  ASSUME NEW s, IsState(s), s.rx \in ReceiverType, s.m.sample_offset \in Int,
         NEW signal, NEW c \in Choice
  PROVE  FeedFrame(s, signal, c).rx \in ReceiverType
  <1>1. CASE s.m.replayed
    <2>1. FeedFrame(s, signal, c) = [s EXCEPT !.m.replayed = FALSE]
      BY <1>1 DEF FeedFrame
    <2>2. QED BY <2>1 DEF IsState
  <1>2. CASE ~ s.m.replayed /\ Delay > 0
    <2> DEFINE at == s.m.sample_offset - Delay
               p == [s.rx EXCEPT !.prepared = @ \/ (s.m.prepare_at >= 0
                                           /\ at + 1 >= s.m.prepare_at /\ c.ready)]
               begins == s.m.begin_pending /\ p.prepared /\ ~p.started
               r == IF begins THEN [p EXCEPT !.started = TRUE, !.begun = at] ELSE p
               b == [rx |-> r, v90 |-> s.v90]
               h == HearFrame(b, at, Delayed(s.m), c)
    <2>1. FeedFrame(s, signal, c) =
            [m |-> [s.m EXCEPT !.begin_pending = @ /\ ~begins], rx |-> h.rx, v90 |-> h.v90]
      BY <1>2 DEF FeedFrame, FeedDelayed
    <2>2. at \in Int
      BY V90BridgeAssumption
    <2>3. p \in ReceiverType
      <3> DEFINE q == s.rx
                 k == q.prepared \/ (s.m.prepare_at >= 0
                                     /\ at + 1 >= s.m.prepare_at /\ c.ready)
      <3>1. k \in BOOLEAN /\ q \in ReceiverType
        OBVIOUS
      <3>2. p = [q EXCEPT !.prepared = k]
        BY DEF ReceiverType
      <3> HIDE DEF p, q, k
      <3>3. QED BY <3>1, <3>2 DEF ReceiverType
    <2> HIDE DEF p, at
    <2>4. r \in ReceiverType
      BY <2>2, <2>3, Begun
    <2> HIDE DEF r, begins
    <2>5. Pair(b) /\ b.rx \in ReceiverType
      BY <2>4 DEF Pair
    <2> HIDE DEF b
    <2>6. h.rx \in ReceiverType
      BY <2>2, <2>5, HearType
    <2> HIDE DEF h
    <2>7. QED BY <2>1, <2>6
  <1>3. CASE ~ s.m.replayed /\ ~ (Delay > 0)
    <2> DEFINE b == [rx |-> s.rx, v90 |-> s.v90]
               h == HearFrame(b, s.m.sample_offset, signal, c)
    <2>1. FeedFrame(s, signal, c) = [m |-> s.m, rx |-> h.rx, v90 |-> h.v90]
      BY <1>3 DEF FeedFrame
    <2>2. Pair(b) /\ b.rx \in ReceiverType
      BY DEF Pair
    <2> HIDE DEF b
    <2>3. h.rx \in ReceiverType
      BY <2>2, HearType
    <2> HIDE DEF h
    <2>4. QED BY <2>1, <2>3
  <1>4. QED BY <1>1, <1>2, <1>3

LEMMA MediaType == ASSUME GInv, rx \in ReceiverType, Media PROVE rx' \in ReceiverType
  <1>1. IsLoop(m) /\ m.sample_offset \in Nat
    BY DEF GInv, HInv, IInv, Shapes, Line
  <1>2. PICK n \in Peer, found \in IF m.connected THEN {m.found} ELSE SegmentsFound,
             c \in Choice :
          LET signal == Signals[n]
              takes == Live /\ ~m.connected /\ live_result.ready
              l == [m EXCEPT !.live = Recorded(signal), !.found = found]
              a == IF takes THEN ApplyResult([m |-> l, rx |-> rx, v90 |-> v90],
                                             live_result, c)
                   ELSE [m |-> l, rx |-> rx, v90 |-> v90]
              f == FeedFrame(a, signal, c)
          IN  /\ m' = [f.m EXCEPT !.sample_offset = @ + 1]
              /\ rx' = f.rx /\ v90' = f.v90
              /\ peer' = [sends |-> n, e_at |-> IF signal = "E" THEN m.sample_offset
                                                ELSE peer.e_at]
              /\ live_result' = IF takes THEN [live_result EXCEPT !.ready = FALSE]
                                ELSE live_result
    BY DEF Media
  <1> DEFINE signal == Signals[n]
             takes == Live /\ ~m.connected /\ live_result.ready
             later == Recorded(signal)
             l == [m EXCEPT !.live = later, !.found = found]
             b == [m |-> l, rx |-> rx, v90 |-> v90]
             a == IF takes THEN ApplyResult(b, live_result, c) ELSE b
  <1>3. rx' = FeedFrame(a, signal, c).rx
    BY <1>2
  <1>4. Len(later) \in Nat
    <2>1. m.live \in Seq(Signal)
      BY DEF GInv, HInv, Line
    <2>2. later = m.live \/ later = Append(m.live, signal)
      BY DEF Recorded
    <2>3. n \in 1 .. 6
      BY DEF Peer, Signals
    <2>4. signal \in Signal
      BY <2>3 DEF Signal
    <2> HIDE DEF later, signal
    <2>5. later \in Seq(Signal)
      BY <2>1, <2>2, <2>4
    <2>6. QED BY <2>5
  <1> HIDE DEF later, signal
  <1>5. /\ IsState(b) /\ b.m.live = later /\ b.rx = rx
        /\ b.m.sample_offset = m.sample_offset
    BY <1>1 DEF IsState, IsLoop, LoopFields
  <1> HIDE DEF b, l
  <1>6. live_result.found => live_result.last \in Nat
    BY DEF GInv, HInv, Copies
  <1>7. IsState(a) /\ a.rx \in ReceiverType /\ a.m.sample_offset \in Int
    <2>1. CASE takes
      <3>1. a = ApplyResult(b, live_result, c)
        BY <2>1
      <3> HIDE DEF a
      <3>2. a.rx \in ReceiverType
        BY <3>1, <1>4, <1>5, <1>6, ApplyResultType
      <3>3. IsState(a)
        BY <3>1, <1>5, ApplyResultAdvances
      <3>4. a.m.sample_offset = b.m.sample_offset
        BY <3>1, <1>5, ApplyResultLine DEF SameLine
      <3>5. QED BY <3>2, <3>3, <3>4, <1>1, <1>5
    <2>2. CASE ~ takes
      BY <2>2, <1>1, <1>5
    <2>3. QED BY <2>1, <2>2
  <1> HIDE DEF a
  <1>8. QED BY <1>3, <1>7, FeedFrameType

LEMMA TypesInvariance == Spec => [](GInv /\ rx \in ReceiverType)
  <1>1. Init => GInv /\ rx \in ReceiverType
    <2>1. Init => rx \in ReceiverType
      BY DEF Init, NewReceiver, ReceiverType
    <2>2. QED BY <2>1, InitGInv
  <1>2. GInv /\ rx \in ReceiverType /\ [Next]_vars => (GInv /\ rx \in ReceiverType)'
    <2> SUFFICES ASSUME GInv, rx \in ReceiverType, [Next]_vars
                 PROVE  GInv' /\ rx' \in ReceiverType
      OBVIOUS
    <2>1. GInv'
      BY MediaGInv, ControlGInv, WorkerGInv, JoinGInv, OtherGInv DEF Next, Loop
    <2>2. CASE Media
      BY <2>1, <2>2, MediaType
    <2>3. CASE Join
      <3>1. rx' = rx \/ rx' = NewReceiver
        BY <2>3 DEF Join
      <3>2. NewReceiver \in ReceiverType
        BY DEF NewReceiver, ReceiverType
      <3>3. QED BY <2>1, <3>1, <3>2
    <2>4. CASE ~ Media /\ ~ Join
      <3>1. Control \/ Worker \/ Reset \/ InputEnds \/ StartFrame \/ UNCHANGED vars
        BY <2>4 DEF Next, Loop
      <3>2. UNCHANGED rx
        BY <3>1 DEF Control, Worker, WorkerTake, WorkerPublish, WorkerExit, Reset,
                    InputEnds, StopWorker, StartFrame, vars
      <3>3. QED BY <2>1, <3>2
    <2>5. QED BY <2>2, <2>3, <2>4
  <1>3. QED BY <1>1, <1>2, PTL DEF Spec

-----------------------------------------------------------------------------
\* The fields of the media loop, of the receiver, of the transmitter and of
\* the search keep their types for every delay and history: the list of
\* reported events, the attempts and the positions stay within their limits.
THEOREM TypeCorrect == Spec => []TypeOK
  <1>1. GInv /\ rx \in ReceiverType => TypeOK
    <2> SUFFICES ASSUME GInv, rx \in ReceiverType PROVE TypeOK
      OBVIOUS
    <2>1. /\ pc \in {"input", "media", "control", "join", "done"}
          /\ m.live \in Seq(Signal) /\ m.sample_offset \in 0 .. MaxFrames
          /\ m.found \in 0 .. Len(Heard) /\ m.attempts \in 0 .. MaxAttempts
          /\ resets \in 0 .. MaxResets
      BY Sizes DEF GInv, Counters, HInv, Line
    <2>2. Len(m.reported) \in 0 .. MaxReported
      BY V90BridgeAssumption DEF GInv, Training, Scanned
    <2>3. rx.last \in Int /\ rx.begun \in Int
      BY DEF ReceiverType
    <2>4. /\ v90.phase \in {Phases[i] : i \in 1 .. 5}
          /\ v90.cp \in {"none", "CPt", "CP", "CP'"}
      <3>1. v90.phase \in PhaseSet /\ v90.cp \in CpKinds
        BY DEF GInv, Training, TxType
      <3>2. PhaseSet \subseteq {Phases[i] : i \in 1 .. 5}
        BY DEF PhaseSet, Phases
      <3>3. QED BY <3>1, <3>2 DEF CpKinds
    <2>5. peer.sends \in 1 .. Len(Signals)
      BY DEF GInv, HInv, Line, PeerInOrder, Signals
    <2>6. {live_job, live_job_expected, live_worker_running, live_stop} \subseteq BOOLEAN
      BY DEF GInv, HInv, IInv, Shapes
    <2>7. {live_job_samples, worker.samples} \subseteq Snapshots
      BY DEF GInv, Held
    <2>8. worker.at \in {"off", "wait", "recover", "exited"}
      BY DEF GInv, HInv, IInv, Shapes, IsWorker
    <2>9. heap \in Nat
      BY DEF GInv, HInv, IInv, SnapshotsOwned, One
    <2>10. QED BY <2>1, <2>2, <2>3, <2>4, <2>5, <2>6, <2>7, <2>8, <2>9 DEF TypeOK
  <1>2. QED BY <1>1, TypesInvariance, PTL

\* Every scan offers the whole list from the start, and yet a segment takes
\* the transmitter on by one phase and never again: as many are marked
\* accepted as phases have been left, whatever the order they are found in,
\* however often they are offered and wherever the list is full.
THEOREM SegmentsCountOnce == Spec => []OneAdvancePerSegment
  <1>1. GInv => OneAdvancePerSegment
    BY DEF GInv, Training, Scanned, OneAdvancePerSegment, AcceptedIn, Left
  <1>2. QED BY <1>1, TrainingInvariance, PTL
=============================================================================

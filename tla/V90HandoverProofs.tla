-------------------------- MODULE V90HandoverProofs --------------------------
(***************************************************************************)
(* Proofs about the handover to data in module V90Bridge: the receiver is  *)
(* started on the frame after E and hears every frame from there on once,  *)
(* whether the CP that announces E was decoded as it arrived or recognised *)
(* by the search long after, and the history replayed.                     *)
(*                                                                         *)
(* The invariant has three parts.  The history is a prefix of what the     *)
(* line carried, in which E and what follows it are where the peer put     *)
(* them (Line).  A snapshot, and a result that comes of it, names places   *)
(* in that history, and a result names a frame before E (Copies).  The     *)
(* receiver has heard the frames up to the present one, and where it is    *)
(* with respect to E is told by its flags (Receiver).  A replay starts     *)
(* behind the recognised CP, so E is still ahead of it; that is why it     *)
(* suffices to forget e_complete before it.                                *)
(***************************************************************************)
EXTENDS V90BridgeProofs, WellFoundedInduction

\* The frame at position q is one of a line that carries E at position e, if
\* e is not negative, and data from then on.
Carries(q, signal, e) ==
  /\ signal = "E" <=> q = e
  /\ signal = "B1" <=> e >= 0 /\ q > e

ReceiverType ==
  [look_for_e : BOOLEAN, e_complete : BOOLEAN, prepared : BOOLEAN,
   started : BOOLEAN, begun : Int, last : Int, heard : Nat, mute : BOOLEAN]

\* A receiver that has heard the line up to position p, when E is at e.
InStep(r, p, e) ==
  /\ r.started => /\ r.prepared /\ e >= 0 /\ p > e
                  /\ r.begun = e + 1 /\ r.heard = p - e
  /\ ~ r.started => /\ r.heard = 0
                    /\ r.e_complete => e >= 0 /\ p >= e
                    /\ r.prepared => r.look_for_e
                    /\ r.prepared /\ e >= 0 /\ p >= e => p = e /\ r.e_complete

\* The same, and p was the last position it heard.
HeardTo(r, p, e) == r \in ReceiverType /\ InStep(r, p, e) /\ r.last = p

\* The peer sends E once, and data after it.
PeerInOrder(p, offset) ==
  /\ p = [sends |-> p.sends, e_at |-> p.e_at]
  /\ p.sends \in 1 .. 6 /\ p.e_at \in Int
  /\ p.sends < 5 => p.e_at = -1
  /\ p.sends = 5 => p.e_at = offset - 1 /\ offset > 0
  /\ p.sends = 6 => 0 <= p.e_at /\ p.e_at < offset - 1

Line ==
  /\ m.live \in Seq(Signal) /\ m.sample_offset \in Nat
  /\ m.connected \in BOOLEAN
  /\ Len(m.live) <= m.sample_offset
  /\ Live /\ ~ m.connected /\ Len(m.live) < MaxLive => Len(m.live) = m.sample_offset
  /\ PeerInOrder(peer, m.sample_offset)
  /\ \A i \in 1 .. Len(m.live) : Carries(i - 1, m.live[i], peer.e_at)

\* A snapshot is a piece of the history.
CopyOf(s, live) ==
  /\ s.samples \in Seq(Signal) /\ s.offset \in Nat
  /\ \A i \in 1 .. Len(s.samples) :
       s.offset + i \in 1 .. Len(live) /\ s.samples[i] = live[s.offset + i]

Copies ==
  /\ CopyOf(live_job_samples, m.live) /\ CopyOf(worker.samples, m.live)
  /\ live_result.found =>
       /\ live_result.last \in 1 .. Len(m.live)
       /\ m.live[live_result.last] \in {"CPt", "CP", "CP'"}

Receiver ==
  Delay = 0 /\ Len(m.live) < MaxLive =>
    m.replayed = FALSE /\ HeardTo(rx, m.sample_offset - 1, peer.e_at)

HInv == IInv /\ Line /\ Copies /\ Receiver
-----------------------------------------------------------------------------
\* What the provers need of induction over frames.
LEMMA LeastFrame ==
  ASSUME NEW T, T \subseteq Nat, T # {}
  PROVE  \E x \in T : \A y \in T : x <= y
  <1> DEFINE Below == {p \in Nat \X Nat : p[1] < p[2]}
  <1>1. IsWellFoundedOn(Below, Nat)
    BY NatLessThanWellFounded, Zenon DEF OpToRel
  <1>2. \A x, y \in T : y < x => <<y, x>> \in Below
    OBVIOUS
  <1> HIDE DEF Below
  <1>3. PICK x \in T : \A y \in T : <<y, x>> \notin Below
    BY <1>1, WFMin, Zenon
  <1>4. \A y \in T : ~ (y < x)
    BY <1>2, <1>3
  <1>5. QED BY <1>4

-----------------------------------------------------------------------------
(* One frame.                                                              *)

Pair(s) == s = [rx |-> s.rx, v90 |-> s.v90]

\* The assignments to the receiver's fields.
LEMMA Asked ==
  ASSUME NEW r \in ReceiverType, NEW k \in BOOLEAN
  PROVE  LET w == [r EXCEPT !.look_for_e = TRUE, !.prepared = k]
         IN  /\ w \in ReceiverType /\ w.look_for_e = TRUE /\ w.prepared = k
             /\ w.e_complete = r.e_complete /\ w.started = r.started
             /\ w.begun = r.begun /\ w.heard = r.heard /\ w.last = r.last
  BY DEF ReceiverType

LEMMA SawE ==
  ASSUME NEW r \in ReceiverType, NEW b \in BOOLEAN
  PROVE  LET w == [r EXCEPT !.e_complete = b]
         IN  /\ w \in ReceiverType /\ w.e_complete = b /\ w.look_for_e = r.look_for_e
             /\ w.prepared = r.prepared /\ w.started = r.started
             /\ w.begun = r.begun /\ w.heard = r.heard /\ w.last = r.last
  BY DEF ReceiverType

LEMMA Begun ==
  ASSUME NEW r \in ReceiverType, NEW p \in Int
  PROVE  LET w == [r EXCEPT !.started = TRUE, !.begun = p]
         IN  /\ w \in ReceiverType /\ w.started = TRUE /\ w.begun = p
             /\ w.prepared = r.prepared /\ w.heard = r.heard
  BY DEF ReceiverType

\* bridge_cp_frame asks for E before it comes.
LEMMA CpFrameInStep ==
  ASSUME NEW s, Pair(s), s.rx \in ReceiverType, s.rx.started = FALSE,
         NEW p \in Int, NEW e \in Int, InStep(s.rx, p, e),
         NEW signal \in {"CP", "CP'"}, Carries(p + 1, signal, e), NEW c \in Choice
  PROVE  LET t == CpFrame(s, signal, c)
         IN  /\ Pair(t) /\ t.rx \in ReceiverType /\ t.rx.started = FALSE
             /\ InStep(t.rx, p, e)
  <1> DEFINE r == s.rx
             w == [r EXCEPT !.look_for_e = TRUE, !.prepared = r.prepared \/ c.ready]
  <1>1. r = [look_for_e |-> r.look_for_e, e_complete |-> r.e_complete,
             prepared |-> r.prepared, started |-> r.started, begun |-> r.begun,
             last |-> r.last, heard |-> r.heard, mute |-> r.mute]
    BY DEF ReceiverType
  <1>2. (r.prepared \/ c.ready) \in BOOLEAN
    OBVIOUS
  <1>4. ~ (e >= 0 /\ p >= e)
    BY DEF Carries
  <1>5. w \in ReceiverType /\ w.started = FALSE /\ w.look_for_e = TRUE
        /\ w.heard = r.heard /\ w.e_complete = r.e_complete
    BY <1>2, Asked
  <1>6. InStep(w, p, e)
    <2> HIDE DEF w
    <2>1. r.heard = 0 /\ r.e_complete = FALSE
      BY <1>4 DEF InStep, ReceiverType
    <2> HIDE DEF r
    <2>2. QED BY <2>1, <1>4, <1>5 DEF InStep
  <1>7. \/ CpFrame(s, signal, c) = s
        \/ CpFrame(s, signal, c) = [rx |-> w, v90 |-> [s.v90 EXCEPT !.cp = signal]]
    <2>1. [s.rx EXCEPT !.look_for_e = TRUE, !.prepared = @ \/ c.ready] = w
      BY <1>1
    <2> HIDE DEF w, r
    <2>2. QED BY <2>1 DEF CpFrame
  <1> HIDE DEF w, r
  <1>8. CASE CpFrame(s, signal, c) = s
    BY <1>8
  <1>9. CASE CpFrame(s, signal, c) = [rx |-> w, v90 |-> [s.v90 EXCEPT !.cp = signal]]
    BY <1>9, <1>5, <1>6 DEF Pair
  <1>10. QED BY <1>7, <1>8, <1>9

\* bridge_put_bit: the receiver is handed over on the frame after E.
LEMMA PutBitInStep ==
  ASSUME NEW r \in ReceiverType, r.started = FALSE,
         NEW p \in Int, p >= -1, NEW e \in Int, InStep(r, p, e),
         NEW signal, Carries(p + 1, signal, e)
  PROVE  LET u == PutBit(r, p + 1, signal)
         IN  /\ u \in ReceiverType
             /\ InStep([u EXCEPT !.heard = IF u.started THEN u.heard + 1 ELSE 0], p + 1, e)
  <1>1. r = [look_for_e |-> r.look_for_e, e_complete |-> r.e_complete,
             prepared |-> r.prepared, started |-> FALSE, begun |-> r.begun,
             last |-> r.last, heard |-> 0, mute |-> r.mute]
    BY DEF ReceiverType, InStep
  <1>2. /\ r.look_for_e \in BOOLEAN /\ r.e_complete \in BOOLEAN /\ r.prepared \in BOOLEAN
        /\ r.begun \in Int /\ r.last \in Int /\ r.mute \in BOOLEAN
    BY DEF ReceiverType
  <1>3. /\ r.e_complete => e >= 0 /\ p >= e
        /\ r.prepared => r.look_for_e
        /\ r.prepared /\ e >= 0 /\ p >= e => p = e /\ r.e_complete
    BY DEF InStep
  <1>4. CASE r.look_for_e = FALSE
    <2>1. PutBit(r, p + 1, signal) = r /\ r.prepared = FALSE
      BY <1>2, <1>3, <1>4 DEF PutBit
    <2>2. [r EXCEPT !.heard = IF r.started THEN r.heard + 1 ELSE 0] = r
      BY <1>1
    <2>3. InStep(r, p + 1, e)
      BY <1>1, <1>2, <1>3, <2>1 DEF InStep
    <2>4. QED BY <2>1, <2>2, <2>3
  <1>5. CASE r.look_for_e = TRUE /\ r.e_complete = FALSE
    <2> DEFINE u == [r EXCEPT !.e_complete = (signal = "E")]
               b == (signal = "E")
    <2>1. PutBit(r, p + 1, signal) = u
      BY <1>5 DEF PutBit
    <2>2. b \in BOOLEAN /\ (b <=> p + 1 = e)
      BY DEF Carries
    <2>3. u \in ReceiverType /\ u.started = FALSE /\ u.heard = 0
          /\ u.look_for_e = TRUE /\ u.e_complete = b /\ u.prepared = r.prepared
      <3>1. u = [r EXCEPT !.e_complete = b] /\ r.heard = 0
        BY <1>1
      <3> HIDE DEF u, b
      <3>2. QED BY <3>1, <2>2, <1>5, SawE
    <2> HIDE DEF u, b
    <2>5. [u EXCEPT !.heard = IF u.started THEN u.heard + 1 ELSE 0] = u
      <3>1. (IF u.started THEN u.heard + 1 ELSE 0) = u.heard
        BY <2>3
      <3>2. [u EXCEPT !.heard = u.heard] = u
        BY <2>3 DEF ReceiverType
      <3> QED BY <3>1, <3>2
    <2>7. r.prepared => ~ (e >= 0 /\ p >= e)
      BY <1>3, <1>5
    <2>8. InStep(u, p + 1, e)
      <3>1. b => e >= 0
        BY <2>2
      <3>2. QED BY <1>2, <2>2, <3>1, <2>3, <2>7 DEF InStep
    <2>9. QED BY <2>1, <2>3, <2>5, <2>8
  <1>6. CASE r.look_for_e = TRUE /\ r.e_complete = TRUE /\ r.prepared = TRUE
    <2> DEFINE u == [r EXCEPT !.started = TRUE, !.begun = p + 1]
               v == [u EXCEPT !.heard = IF u.started THEN u.heard + 1 ELSE 0]
    <2>1. PutBit(r, p + 1, signal) = u
      BY <1>6 DEF PutBit
    <2>2. u \in ReceiverType /\ u.started = TRUE /\ u.begun = p + 1
          /\ u.prepared = TRUE /\ u.heard = 0
      <3>1. p + 1 \in Int /\ r.heard = 0
        BY <1>1
      <3> QED BY <3>1, <1>6, Begun
    <2> HIDE DEF u
    <2>4. v.started = TRUE /\ v.prepared = TRUE /\ v.begun = p + 1 /\ v.heard = 1
      BY <2>2 DEF ReceiverType
    <2>5. e >= 0 /\ p = e
      BY <1>3, <1>6
    <2>6. InStep(v, p + 1, e)
      <3> HIDE DEF v
      <3> QED BY <2>4, <2>5 DEF InStep
    <2>7. QED BY <2>1, <2>2, <2>6
  <1>7. CASE r.look_for_e = TRUE /\ r.e_complete = TRUE /\ r.prepared = FALSE
    <2>1. PutBit(r, p + 1, signal) = r
      BY <1>7 DEF PutBit
    <2>2. [r EXCEPT !.heard = IF r.started THEN r.heard + 1 ELSE 0] = r
      BY <1>1
    <2>3. InStep(r, p + 1, e)
      BY <1>1, <1>3, <1>7 DEF InStep
    <2>4. QED BY <2>1, <2>2, <2>3
  <1>8. QED BY <1>2, <1>4, <1>5, <1>6, <1>7

\* v34_rx with its callbacks: one frame on.
LEMMA HearStep ==
  ASSUME NEW s, Pair(s), s.rx \in ReceiverType,
         NEW p \in Int, p >= -1, NEW e \in Int, InStep(s.rx, p, e),
         NEW signal, Carries(p + 1, signal, e), NEW c \in Choice
  PROVE  LET h == HearFrame(s, p + 1, signal, c)
         IN  Pair(h) /\ HeardTo(h.rx, p + 1, e)
  <1> DEFINE t == IF s.rx.started \/ signal \notin {"CP", "CP'"} THEN s
                  ELSE CpFrame(s, signal, c)
             r == IF t.rx.started THEN t.rx ELSE PutBit(t.rx, p + 1, signal)
             v == [r EXCEPT !.heard = IF r.started THEN r.heard + 1 ELSE 0]
             w == [r EXCEPT !.last = p + 1, !.mute = (signal = "silence"),
                            !.heard = IF r.started THEN r.heard + 1 ELSE 0]
  <1>0. s.rx.started \in BOOLEAN
    BY DEF ReceiverType
  <1>1. /\ Pair(t) /\ t.rx \in ReceiverType /\ InStep(t.rx, p, e)
        /\ t.rx.started \in BOOLEAN
    <2>1. CASE s.rx.started \/ signal \notin {"CP", "CP'"}
      BY <2>1, <1>0
    <2>2. CASE s.rx.started = FALSE /\ signal \in {"CP", "CP'"}
      <3>1. t = CpFrame(s, signal, c)
        BY <2>2
      <3>2. QED BY <3>1, <2>2, CpFrameInStep, <1>0
    <2>3. QED BY <1>0, <2>1, <2>2
  <1> HIDE DEF t
  <1>2. r \in ReceiverType /\ InStep(v, p + 1, e)
    <2>1. CASE t.rx.started = TRUE
      <3>1. r = t.rx
        BY <2>1
      <3> HIDE DEF r
      <3>2. /\ r \in ReceiverType /\ r.started = TRUE /\ r.prepared = TRUE
            /\ e >= 0 /\ p > e /\ r.begun = e + 1 /\ r.heard = p - e
        BY <1>1, <2>1, <3>1 DEF InStep, ReceiverType
      <3>3. v.started = TRUE /\ v.prepared = TRUE /\ v.begun = e + 1 /\ v.heard = p + 1 - e
        BY <3>2 DEF ReceiverType
      <3> HIDE DEF v
      <3>4. QED BY <3>2, <3>3 DEF InStep
    <2>2. CASE t.rx.started = FALSE
      <3>1. r = PutBit(t.rx, p + 1, signal)
        BY <2>2
      <3>2. QED BY <3>1, <2>2, <1>1, PutBitInStep
    <2>3. QED BY <1>1, <2>1, <2>2
  <1> HIDE DEF r
  <1>3. /\ r = [look_for_e |-> r.look_for_e, e_complete |-> r.e_complete,
                prepared |-> r.prepared, started |-> r.started, begun |-> r.begun,
                last |-> r.last, heard |-> r.heard, mute |-> r.mute]
        /\ r.started \in BOOLEAN /\ r.heard \in Nat
    BY <1>2 DEF ReceiverType
  <1>4. /\ w.look_for_e = v.look_for_e /\ w.e_complete = v.e_complete
        /\ w.prepared = v.prepared /\ w.started = v.started
        /\ w.begun = v.begun /\ w.heard = v.heard /\ w.last = p + 1
        /\ w \in ReceiverType
    <2> DEFINE n == IF r.started THEN r.heard + 1 ELSE 0
               b == (signal = "silence")
    <2>1. n \in Nat /\ b \in BOOLEAN /\ p + 1 \in Int
      BY <1>3
    <2>2. w = [r EXCEPT !.last = p + 1, !.mute = b, !.heard = n]
          /\ v = [r EXCEPT !.heard = n]
      OBVIOUS
    <2> HIDE DEF n, b, w, v
    <2>3. r \in ReceiverType
      BY <1>2
    <2>4. /\ w \in ReceiverType /\ w.last = p + 1
          /\ w.look_for_e = v.look_for_e /\ w.e_complete = v.e_complete
          /\ w.prepared = v.prepared /\ w.started = v.started
          /\ w.begun = v.begun /\ w.heard = v.heard
      BY <2>1, <2>2, <2>3 DEF ReceiverType
    <2>5. QED BY <2>4
  <1>6. InStep(w, p + 1, e)
    <2> HIDE DEF w, v
    <2> QED BY <1>2, <1>4 DEF InStep
  <1>7. HearFrame(s, p + 1, signal, c) = [t EXCEPT !.rx = w]
    <2>1. HearFrame(s, p + 1, signal, c) =
            [t EXCEPT !.rx = [r EXCEPT !.last = p + 1, !.mute = (signal = "silence"),
                              !.heard = IF r.started THEN @ + 1 ELSE 0]]
      BY DEF HearFrame, t, r
    <2>2. [r EXCEPT !.last = p + 1, !.mute = (signal = "silence"),
                              !.heard = IF r.started THEN @ + 1 ELSE 0] = w
      BY <1>3
    <2> HIDE DEF w
    <2>3. QED BY <2>1, <2>2
  <1> HIDE DEF w, v
  <1>8. HearFrame(s, p + 1, signal, c) = [rx |-> w, v90 |-> t.v90]
    BY <1>1, <1>7 DEF Pair
  <1>9. QED BY <1>4, <1>6, <1>8 DEF Pair, HeardTo

-----------------------------------------------------------------------------
(* The replay.                                                             *)

\* f gives what has been heard after each frame from a to n.
Unrolled(f, n, s, a, live, c) ==
  f = [k \in a .. n |-> IF k = a THEN s ELSE HearFrame(f[k - 1], k - 1, live[k], c)]

\* There is such a function: the recursion in Replay is well founded.
LEMMA ReplayExists ==
  ASSUME NEW s, NEW a \in Nat, NEW live, NEW c, NEW n \in Nat, a <= n
  PROVE  \E f : Unrolled(f, n, s, a, live, c)
  <1> DEFINE Bad == {k \in a .. n : ~ \E f : Unrolled(f, k, s, a, live, c)}
  <1>1. ASSUME Bad # {} PROVE FALSE
    <2>1. PICK x \in Bad : \A y \in Bad : x <= y
      <3>1. Bad \subseteq Nat
        OBVIOUS
      <3> HIDE DEF Bad
      <3> QED BY <1>1, <3>1, LeastFrame
    <2>2. x \in a .. n /\ ~ \E f : Unrolled(f, x, s, a, live, c)
      OBVIOUS
    <2>3. CASE x = a
      <3> DEFINE f == [k \in a .. a |-> s]
      <3>1. f = [k \in a .. a |-> IF k = a THEN s
                                  ELSE HearFrame(f[k - 1], k - 1, live[k], c)]
        <4> \A k \in a .. a : k = a
          OBVIOUS
        <4> QED OBVIOUS
      <3> HIDE DEF f
      <3>2. Unrolled(f, a, s, a, live, c)
        BY <3>1 DEF Unrolled
      <3>3. QED BY <3>2, <2>2, <2>3
    <2>4. CASE x # a
      <3>1. x - 1 \in a .. n /\ x - 1 \notin Bad
        BY <2>1, <2>2, <2>4
      <3>2. PICK f : Unrolled(f, x - 1, s, a, live, c)
        BY <3>1
      <3> DEFINE H(k, y) == IF k = a THEN s ELSE HearFrame(y, k - 1, live[k], c)
                 g == [k \in a .. x |-> IF k = x THEN H(x, f[x - 1]) ELSE f[k]]
      <3>3. f = [k \in a .. x - 1 |-> H(k, f[k - 1])]
        BY <3>2 DEF Unrolled
      <3> HIDE DEF H
      <3>4. \A k \in a .. x - 1 : g[k] = f[k] /\ f[k] = H(k, f[k - 1])
        BY <3>3, <2>2
      <3>5. ASSUME NEW k \in a .. x PROVE g[k] = H(k, g[k - 1])
        <4>1. CASE k = x
          <5>1. g[x - 1] = f[x - 1]
            BY <3>4, <2>2, <2>4
          <5>2. g[x] = H(x, f[x - 1])
            BY <2>2
          <5>3. QED BY <5>1, <5>2, <4>1
        <4>2. CASE k # x /\ k # a
          <5>1. k \in a .. x - 1 /\ k - 1 \in a .. x - 1
            BY <4>2, <2>2
          <5>2. QED BY <5>1, <3>4
        <4>3. CASE k # x /\ k = a
          <5>1. k \in a .. x - 1
            BY <4>3, <2>2
          <5>2. g[k] = f[k] /\ f[k] = H(k, f[k - 1])
            BY <5>1, <3>4
          <5>3. H(k, f[k - 1]) = s /\ H(k, g[k - 1]) = s
            BY <4>3 DEF H
          <5>4. QED BY <5>2, <5>3
        <4>4. QED BY <4>1, <4>2, <4>3
      <3>6. g = [k \in a .. x |-> g[k]]
        OBVIOUS
      <3> HIDE DEF g
      <3>7. g = [k \in a .. x |-> H(k, g[k - 1])]
        BY <3>5, <3>6
      <3>8. Unrolled(g, x, s, a, live, c)
        BY <3>7 DEF Unrolled, H
      <3>9. QED BY <3>8, <2>2
    <2>5. QED BY <2>3, <2>4
  <1>2. n \in a .. n
    OBVIOUS
  <1>3. QED BY <1>1, <1>2

\* What Replay computes: the frames one after the other, from s on.
HeardAll(f, s, a, live, c) ==
  /\ f[a] = s
  /\ \A k \in a + 1 .. Len(live) : f[k] = HearFrame(f[k - 1], k - 1, live[k], c)

LEMMA ReplayIs ==
  ASSUME NEW s, NEW a \in Nat, NEW live, Len(live) \in Nat, a <= Len(live), NEW c
  PROVE  \E f : HeardAll(f, s, a, live, c) /\ Replay(s, a, live, c) = f[Len(live)]
  <1> DEFINE n == Len(live)
             h == CHOOSE f : Unrolled(f, n, s, a, live, c)
             H(k, y) == IF k = a THEN s ELSE HearFrame(y, k - 1, live[k], c)
  <1>1. \E f : Unrolled(f, n, s, a, live, c)
    BY ReplayExists
  <1>2. Unrolled(h, n, s, a, live, c)
    BY <1>1
  <1>3. Replay(s, a, live, c) = h[n]
    BY DEF Replay, Unrolled
  <1> HIDE DEF h, n
  <1>4. h = [k \in a .. n |-> H(k, h[k - 1])]
    BY <1>2 DEF Unrolled
  <1> HIDE DEF H
  <1>5. \A k \in a .. n : h[k] = H(k, h[k - 1])
    BY <1>4
  <1>6. h[a] = s
    BY <1>5 DEF H, n
  <1>7. ASSUME NEW k \in a + 1 .. n PROVE h[k] = HearFrame(h[k - 1], k - 1, live[k], c)
    <2>1. k \in a .. n /\ k # a
      BY DEF n
    <2>2. QED BY <2>1, <1>5 DEF H
  <1>8. QED BY <1>3, <1>6, <1>7 DEF n, HeardAll

\* The same, as one fact about the arguments.
Replays(s, a, live, c) ==
  \E f : HeardAll(f, s, a, live, c) /\ Replay(s, a, live, c) = f[Len(live)]

LEMMA ReplayRuns ==
  ASSUME NEW s, NEW a \in Nat, NEW live, Len(live) \in Nat, a <= Len(live), NEW c
  PROVE  Replays(s, a, live, c)
  BY ReplayIs DEF Replays

LEMMA LengthNat == ASSUME NEW S, NEW q \in Seq(S) PROVE Len(q) \in Nat
  OBVIOUS

\* bridge_v34_rx on the history: behind E's announcement it comes out where
\* the line is.
LEMMA ReplayStep ==
  ASSUME NEW s, Pair(s), s.rx \in ReceiverType, NEW a \in Nat, NEW live \in Seq(Signal),
         a < Len(live), NEW e \in Int, InStep(s.rx, a - 1, e), NEW c \in Choice,
         \A i \in 1 .. Len(live) : Carries(i - 1, live[i], e)
  PROVE  LET h == Replay(s, a, live, c)
         IN  Pair(h) /\ HeardTo(h.rx, Len(live) - 1, e)
  <1> DEFINE n == Len(live)
  <1>1. n \in Nat /\ a < n
    <2>1. n \in Nat
      BY LengthNat
    <2>2. QED BY <2>1
  <1>a. Len(live) \in Nat /\ a <= Len(live)
    BY <1>1
  <1>2. PICK f : HeardAll(f, s, a, live, c) /\ Replay(s, a, live, c) = f[n]
    <2>1. Replays(s, a, live, c)
      BY <1>a, ReplayRuns
    <2>2. QED BY <2>1 DEF Replays
  <1>3. /\ f[a] = s
        /\ \A k \in a + 1 .. n : f[k] = HearFrame(f[k - 1], k - 1, live[k], c)
    BY <1>2 DEF HeardAll
  <1> HIDE DEF n
  <1> DEFINE Good(k) == Pair(f[k]) /\ HeardTo(f[k].rx, k - 1, e)
             Bad == {k \in a + 1 .. n : ~ Good(k)}
  <1>4. ASSUME NEW k \in a + 1 .. n, k = a + 1 \/ Good(k - 1) PROVE Good(k)
    <2>1. /\ Pair(f[k - 1]) /\ f[k - 1].rx \in ReceiverType
          /\ InStep(f[k - 1].rx, k - 2, e)
      <3>1. CASE k = a + 1
        <4>1. k - 1 = a /\ k - 2 = a - 1
          BY <3>1
        <4>2. QED BY <4>1, <1>3
      <3>2. CASE Good(k - 1)
        <4>1. (k - 1) - 1 = k - 2
          BY <1>1
        <4>2. QED BY <4>1, <3>2 DEF HeardTo
      <3>3. QED BY <1>4, <3>1, <3>2
    <2>2. /\ k - 2 \in Int /\ k - 2 >= -1 /\ (k - 2) + 1 = k - 1
          /\ k \in 1 .. Len(live)
      BY <1>1 DEF n
    <2>3. Carries((k - 2) + 1, live[k], e)
      BY <2>2
    <2>4. LET h == HearFrame(f[k - 1], (k - 2) + 1, live[k], c)
          IN  Pair(h) /\ HeardTo(h.rx, (k - 2) + 1, e)
      BY <2>1, <2>2, <2>3, HearStep
    <2>5. f[k] = HearFrame(f[k - 1], k - 1, live[k], c)
      BY <1>3
    <2>6. QED BY <2>2, <2>4, <2>5
  <1>5. Bad = {}
    <2>1. ASSUME Bad # {} PROVE FALSE
      <3>1. Bad \subseteq Nat
        BY <1>1
      <3>2. PICK x \in Bad : \A y \in Bad : x <= y
        <4> HIDE DEF Bad
        <4> QED BY <2>1, <3>1, LeastFrame
      <3>3. x \in a + 1 .. n /\ ~ Good(x)
        OBVIOUS
      <3>4. x = a + 1 \/ Good(x - 1)
        <4>1. CASE x # a + 1
          <5>1. x - 1 \in a + 1 .. n /\ ~ (x <= x - 1)
            BY <4>1, <3>3, <1>1
          <5>2. x - 1 \notin Bad
            <6> HIDE DEF Bad
            <6> QED BY <5>1, <3>2
          <5>3. QED BY <5>1, <5>2
        <4>2. QED BY <4>1
      <3> HIDE DEF Good, Bad
      <3>5. QED BY <3>3, <3>4, <1>4
    <2>2. QED BY <2>1
  <1>6. Good(n)
    <2>1. n \in a + 1 .. n
      BY <1>1
    <2> QED BY <2>1, <1>5
  <1>7. QED BY <1>2, <1>6 DEF n
-----------------------------------------------------------------------------
(* bridge_live_cp_apply: what the media loop makes of a result.            *)

SameLine(l, k) ==
  k.live = l.live /\ k.sample_offset = l.sample_offset /\ k.connected = l.connected

\* Once the CP at r is recognised, the history and the clock stay as they are.
LEMMA FirstDataCpLine ==
  ASSUME NEW s, IsState(s), NEW r, NEW c
  PROVE  SameLine(s.m, FirstDataCp(s, r, c).m)
  <1> DEFINE t == [s EXCEPT !.m.data_cp_accepted = TRUE, !.rx.look_for_e = TRUE,
                            !.m.begin_pending = TRUE]
             newly == ~t.rx.prepared /\ c.ready
             u == [t EXCEPT !.rx.prepared = @ \/ newly,
                            !.m.prepare_at = IF ~t.rx.prepared /\ ~newly /\ @ < 0
                                               THEN r.last ELSE @]
             h == Replay(ForgetE([rx |-> u.rx, v90 |-> u.v90]), r.last, u.m.live, c)
  <1>1. IsState(t) /\ SameLine(s.m, t.m)
    BY DEF IsState, IsLoop, LoopFields, SameLine
  <1> HIDE DEF t
  <1>2. ASSUME NEW p, NEW at
        PROVE  LET v == [t EXCEPT !.rx.prepared = p, !.m.prepare_at = at]
               IN  IsState(v) /\ SameLine(t.m, v.m)
    BY <1>1 DEF IsState, IsLoop, LoopFields, SameLine
  <1>3. IsState(u) /\ SameLine(t.m, u.m)
    <2>1. u = [t EXCEPT !.rx.prepared = t.rx.prepared \/ newly,
                        !.m.prepare_at = IF ~t.rx.prepared /\ ~newly /\ t.m.prepare_at < 0
                                           THEN r.last ELSE t.m.prepare_at]
      BY <1>1 DEF IsState, IsLoop, LoopFields
    <2>2. QED BY <2>1, <1>2
  <1> HIDE DEF h, newly, u, t
  <1>4. FirstDataCp(s, r, c) = IF newly /\ r.last < Len(u.m.live)
          THEN [m |-> [u.m EXCEPT !.replayed = TRUE], rx |-> h.rx, v90 |-> h.v90]
          ELSE u
    BY DEF FirstDataCp, h, newly, u, t
  <1>5. QED
    BY <1>1, <1>3, <1>4 DEF IsState, IsLoop, LoopFields, SameLine

LEMMA AcknowledgedCpLine ==
  ASSUME NEW s, IsState(s), NEW r, NEW c
  PROVE  SameLine(s.m, AcknowledgedCp(s, r, c).m)
  BY DEF AcknowledgedCp, IsState, IsLoop, LoopFields, SameLine

LEMMA ApplyResultLine ==
  ASSUME NEW s, IsState(s), NEW r, NEW c
  PROVE  SameLine(s.m, ApplyResult(s, r, c).m)
  <1> DEFINE t == [s EXCEPT !.m.cp_accepted = TRUE, !.v90.cp = r.kind]
  <1>1. IsState(t) /\ SameLine(s.m, t.m)
    BY DEF IsState, IsLoop, LoopFields, SameLine
  <1> HIDE DEF t
  <1>2. SameLine(t.m, AcknowledgedCp(FirstDataCp(t, r, c), r, c).m)
    <2>1. IsState(FirstDataCp(t, r, c)) /\ SameLine(t.m, FirstDataCp(t, r, c).m)
      BY <1>1, FirstDataCpKeeps, FirstDataCpLine
    <2>2. SameLine(FirstDataCp(t, r, c).m, AcknowledgedCp(FirstDataCp(t, r, c), r, c).m)
      BY <2>1, AcknowledgedCpLine
    <2>3. QED BY <2>1, <2>2 DEF SameLine
  <1>3. \/ ApplyResult(s, r, c) = s
        \/ ApplyResult(s, r, c) = t
        \/ ApplyResult(s, r, c) = AcknowledgedCp(FirstDataCp(t, r, c), r, c)
    BY DEF ApplyResult, t
  <1>4. QED BY <1>1, <1>2, <1>3 DEF SameLine

LEMMA FeedFrameLine ==
  ASSUME NEW s, IsState(s), NEW signal, NEW c
  PROVE  SameLine(s.m, FeedFrame(s, signal, c).m)
  BY DEF FeedFrame, FeedDelayed, IsState, IsLoop, LoopFields, SameLine

LEMMA ScanLine ==
  ASSUME NEW l, IsLoop(l), NEW phase
  PROVE  SameLine(l, Scan(l, phase).m) /\ Scan(l, phase).m.replayed = l.replayed
  BY DEF Scan, IsLoop, LoopFields, SameLine

LEMMA NotePhase4Line ==
  ASSUME NEW l, IsLoop(l), NEW phase
  PROVE  SameLine(l, NotePhase4(l, phase)) /\ NotePhase4(l, phase).replayed = l.replayed
  BY DEF NotePhase4, IsLoop, LoopFields, SameLine

\* A CP, however late it is recognised, was sent before E.
LEMMA BeforeE ==
  ASSUME NEW q \in Int, NEW e \in Int, NEW signal \in {"CPt", "CP", "CP'"},
         Carries(q, signal, e)
  PROVE  ~ (e >= 0 /\ q >= e)
  BY DEF Carries

\* Between the result and the frame: a replay has taken the receiver to the
\* frame under way, or it still is where the frame before left it.
Midway(s, q, e) ==
  /\ s.m.replayed \in BOOLEAN
  /\ s.m.replayed = TRUE => HeardTo(s.rx, q, e)
  /\ s.m.replayed = FALSE => HeardTo(s.rx, q - 1, e)

\* What a replay starts from: prepared, E not yet heard.
LEMMA ReplayFrom ==
  ASSUME NEW r \in ReceiverType, r.started = FALSE, r.heard = 0,
         NEW v, NEW q \in Nat, NEW e \in Int, NEW c \in Choice,
         NEW live \in Seq(Signal), Len(live) = q + 1,
         \A i \in 1 .. Len(live) : Carries(i - 1, live[i], e),
         NEW last \in 1 .. q, live[last] \in {"CPt", "CP", "CP'"},
         r.look_for_e = TRUE
  PROVE  HeardTo(Replay(ForgetE([rx |-> r, v90 |-> v]), last, live, c).rx, q, e)
  <1> DEFINE g == ForgetE([rx |-> r, v90 |-> v])
             w == [r EXCEPT !.e_complete = FALSE]
  <1>1. g = [rx |-> w, v90 |-> v]
    <2> DEFINE s == [rx |-> r, v90 |-> v]
    <2>1. s.rx = r /\ s.v90 = v /\ s = [rx |-> s.rx, v90 |-> s.v90]
      OBVIOUS
    <2>2. g = ForgetE(s)
      OBVIOUS
    <2> HIDE DEF g, s
    <2>3. ForgetE(s) = [s EXCEPT !.rx = [s.rx EXCEPT !.e_complete = FALSE]]
      BY <2>1 DEF ForgetE
    <2>4. QED BY <2>1, <2>2, <2>3
  <1>2. /\ w \in ReceiverType /\ w.e_complete = FALSE /\ w.started = FALSE
        /\ w.heard = 0 /\ w.look_for_e = TRUE
    BY SawE
  <1> HIDE DEF w
  <1>3. last \in Nat /\ last < Len(live) /\ last \in 1 .. Len(live) /\ last - 1 \in Int
    OBVIOUS
  <1>4. ~ (e >= 0 /\ last - 1 >= e)
    BY <1>3, BeforeE
  <1>5. InStep(w, last - 1, e)
    BY <1>2, <1>4 DEF InStep
  <1>6. Pair(g) /\ g.rx = w
    BY <1>1 DEF Pair
  <1> HIDE DEF g
  <1>7. HeardTo(Replay(g, last, live, c).rx, Len(live) - 1, e)
    BY <1>2, <1>3, <1>5, <1>6, ReplayStep
  <1>8. QED BY <1>7 DEF g

\* A data-mode CP: nothing of the line is lost or heard twice.
LEMMA FirstDataCpStep ==
  ASSUME NEW s, IsState(s), NEW q \in Nat, NEW e \in Int, NEW c \in Choice,
         Midway(s, q, e), s.m.replayed = FALSE,
         s.m.live \in Seq(Signal), Len(s.m.live) = q + 1,
         \A i \in 1 .. Len(s.m.live) : Carries(i - 1, s.m.live[i], e),
         NEW r, r.last \in 1 .. q, s.m.live[r.last] \in {"CPt", "CP", "CP'"}
  PROVE  Midway(FirstDataCp(s, r, c), q, e)
  <1> DEFINE t == [s EXCEPT !.m.data_cp_accepted = TRUE, !.rx.look_for_e = TRUE,
                            !.m.begin_pending = TRUE]
             newly == ~t.rx.prepared /\ c.ready
             u == [t EXCEPT !.rx.prepared = @ \/ newly,
                            !.m.prepare_at = IF ~t.rx.prepared /\ ~newly /\ @ < 0
                                               THEN r.last ELSE @]
             h == Replay(ForgetE([rx |-> u.rx, v90 |-> u.v90]), r.last, u.m.live, c)
             w == [s.rx EXCEPT !.look_for_e = TRUE]
  <1>1. IsState(t) /\ t.m.replayed = s.m.replayed /\ t.m.live = s.m.live /\ t.rx = w
    BY DEF IsState, IsLoop, LoopFields
  <1>2. HeardTo(s.rx, q - 1, e)
    BY DEF Midway
  <1>3. /\ w \in ReceiverType /\ w.look_for_e = TRUE /\ w.prepared = s.rx.prepared
        /\ w.e_complete = s.rx.e_complete /\ w.started = s.rx.started
        /\ w.begun = s.rx.begun /\ w.heard = s.rx.heard /\ w.last = s.rx.last
    BY <1>2 DEF HeardTo, ReceiverType
  <1> HIDE DEF t, w
  <1>4. HeardTo(w, q - 1, e)
    BY <1>2, <1>3 DEF HeardTo, InStep
  <1>6. /\ IsState(u) /\ u.m.replayed = FALSE /\ u.m.live = s.m.live
        /\ u.rx = [w EXCEPT !.prepared = w.prepared \/ newly]
    <2>1. u = [t EXCEPT !.rx.prepared = t.rx.prepared \/ newly,
                        !.m.prepare_at = IF ~t.rx.prepared /\ ~newly /\ t.m.prepare_at < 0
                                           THEN r.last ELSE t.m.prepare_at]
      BY <1>1 DEF IsState, IsLoop, LoopFields
    <2> DEFINE b == t.rx.prepared \/ newly
               d == IF ~t.rx.prepared /\ ~newly /\ t.m.prepare_at < 0
                      THEN r.last ELSE t.m.prepare_at
    <2>2. u = [t EXCEPT !.rx.prepared = b, !.m.prepare_at = d]
      BY <2>1
    <2>3. b = (w.prepared \/ newly)
      BY <1>1
    <2> HIDE DEF b, d, newly, u
    <2>4. /\ IsState(u) /\ u.m.replayed = t.m.replayed /\ u.m.live = t.m.live
          /\ u.rx = [t.rx EXCEPT !.prepared = b]
      BY <2>2, <1>1 DEF IsState, IsLoop, LoopFields
    <2>5. QED BY <2>3, <2>4, <1>1
  <1>7. w.prepared \in BOOLEAN /\ c.ready \in BOOLEAN
    BY <1>3 DEF ReceiverType, Choice
  <1> HIDE DEF u
  <1>8. FirstDataCp(s, r, c) = IF newly /\ r.last < Len(u.m.live)
          THEN [m |-> [u.m EXCEPT !.replayed = TRUE], rx |-> h.rx, v90 |-> h.v90]
          ELSE u
    BY DEF FirstDataCp, u, t
  <1>9. CASE newly
    <2>1. w.prepared = FALSE /\ r.last < Len(u.m.live)
      BY <1>1, <1>6, <1>7, <1>9
    <2>2. u.rx = [w EXCEPT !.prepared = TRUE]
      BY <1>6, <1>7, <1>9
    <2>3. /\ u.rx \in ReceiverType /\ u.rx.look_for_e = TRUE
          /\ u.rx.started = w.started /\ u.rx.heard = w.heard
      BY <2>2, <1>3 DEF ReceiverType
    <2>4. w.started = FALSE /\ w.heard = 0
      BY <1>3, <1>4, <2>1 DEF HeardTo, InStep, ReceiverType
    <2>5. HeardTo(h.rx, q, e)
      BY <2>3, <2>4, <1>6, ReplayFrom
    <2> HIDE DEF h, newly
    <2>6. /\ FirstDataCp(s, r, c).m.replayed = TRUE
          /\ FirstDataCp(s, r, c).rx = h.rx
      BY <1>8, <1>9, <2>1, <1>6 DEF IsState, IsLoop, LoopFields
    <2>7. QED BY <2>5, <2>6 DEF Midway
  <1>10. CASE ~ newly
    <2>1. u.rx = w
      <3>1. (w.prepared \/ newly) = w.prepared
        BY <1>10, <1>7
      <3>2. [w EXCEPT !.prepared = w.prepared] = w
        BY <1>3 DEF ReceiverType
      <3> HIDE DEF newly
      <3>3. QED BY <1>6, <3>1, <3>2
    <2> HIDE DEF h, newly
    <2>2. FirstDataCp(s, r, c) = u
      BY <1>8, <1>10
    <2>3. QED BY <2>1, <2>2, <1>4, <1>6 DEF Midway
  <1>11. QED BY <1>9, <1>10

\* An acknowledged CP': the replay starts over.
LEMMA AcknowledgedCpStep ==
  ASSUME NEW s, IsState(s), NEW q \in Nat, NEW e \in Int, NEW c \in Choice,
         Midway(s, q, e),
         s.m.live \in Seq(Signal), Len(s.m.live) = q + 1,
         \A i \in 1 .. Len(s.m.live) : Carries(i - 1, s.m.live[i], e),
         NEW r, r.last \in 1 .. q, s.m.live[r.last] \in {"CPt", "CP", "CP'"}
  PROVE  Midway(AcknowledgedCp(s, r, c), q, e)
  <1> DEFINE t == [s EXCEPT !.m.cp_done = TRUE]
             x == [t.rx EXCEPT !.prepared = TRUE, !.look_for_e = TRUE]
             g == ForgetE([rx |-> x, v90 |-> t.v90])
             h == Replay(g, r.last, t.m.live, c)
  <1>1. IsState(t) /\ t.m.replayed = s.m.replayed /\ t.m.live = s.m.live /\ t.rx = s.rx
    BY DEF IsState, IsLoop, LoopFields
  <1> HIDE DEF t
  <1>2. AcknowledgedCp(s, r, c) =
          IF r.kind = "CP'" /\ ~t.rx.started /\ c.again /\ r.last < Len(t.m.live)
            THEN [m |-> [t.m EXCEPT !.replayed = TRUE], rx |-> h.rx, v90 |-> h.v90]
            ELSE IF r.kind = "CP'" THEN t ELSE s
    BY DEF AcknowledgedCp, t
  <1>3. Midway(t, q, e)
    BY <1>1 DEF Midway
  <1>4. CASE r.kind = "CP'" /\ ~t.rx.started /\ c.again /\ r.last < Len(t.m.live)
    <2>1. /\ t.rx \in ReceiverType /\ t.rx.started = FALSE /\ t.rx.heard = 0
      <3>1. t.rx \in ReceiverType /\ (InStep(t.rx, q, e) \/ InStep(t.rx, q - 1, e))
        BY <1>3 DEF Midway, HeardTo
      <3>2. t.rx.started = FALSE
        BY <3>1, <1>4 DEF ReceiverType
      <3>3. QED BY <3>1, <3>2 DEF InStep
    <2>2. /\ x \in ReceiverType /\ x.look_for_e = TRUE
          /\ x.started = FALSE /\ x.heard = 0
      BY <2>1 DEF ReceiverType
    <2> HIDE DEF x
    <2>3. HeardTo(h.rx, q, e)
      BY <2>2, <1>1, ReplayFrom
    <2> HIDE DEF h, g
    <2>4. /\ AcknowledgedCp(s, r, c).m.replayed = TRUE
          /\ AcknowledgedCp(s, r, c).rx = h.rx
      BY <1>1, <1>2, <1>4 DEF IsState, IsLoop, LoopFields
    <2>5. QED BY <2>3, <2>4 DEF Midway
  <1>5. CASE ~ (r.kind = "CP'" /\ ~t.rx.started /\ c.again /\ r.last < Len(t.m.live))
    <2> HIDE DEF h, g, x
    <2>1. AcknowledgedCp(s, r, c) \in {t, s}
      BY <1>2, <1>5
    <2>2. QED BY <2>1, <1>3
  <1>6. QED BY <1>4, <1>5

\* bridge_live_cp_apply.
LEMMA ApplyResultStep ==
  ASSUME NEW s, IsState(s), NEW q \in Nat, NEW e \in Int, NEW c \in Choice,
         Midway(s, q, e), s.m.replayed = FALSE,
         s.m.live \in Seq(Signal), Len(s.m.live) = q + 1,
         \A i \in 1 .. Len(s.m.live) : Carries(i - 1, s.m.live[i], e),
         NEW r, r.found => r.last \in 1 .. q /\ s.m.live[r.last] \in {"CPt", "CP", "CP'"}
  PROVE  Midway(ApplyResult(s, r, c), q, e)
  <1> DEFINE t == [s EXCEPT !.m.cp_accepted = TRUE, !.v90.cp = r.kind]
             f == FirstDataCp(t, r, c)
  <1>1. IsState(t) /\ t.m.replayed = s.m.replayed /\ t.m.live = s.m.live /\ t.rx = s.rx
    BY DEF IsState, IsLoop, LoopFields
  <1> HIDE DEF t
  <1>2. Midway(t, q, e)
    BY <1>1 DEF Midway
  <1>3. ASSUME r.found PROVE Midway(AcknowledgedCp(f, r, c), q, e)
    <2>1. Midway(f, q, e)
      BY <1>1, <1>2, <1>3, FirstDataCpStep
    <2>2. IsState(f) /\ f.m.live = s.m.live
      BY <1>1, FirstDataCpKeeps, FirstDataCpLine DEF SameLine
    <2> HIDE DEF f
    <2>3. QED BY <2>1, <2>2, <1>3, AcknowledgedCpStep
  <1>4. \/ ApplyResult(s, r, c) = s
        \/ ApplyResult(s, r, c) = t
        \/ r.found /\ ApplyResult(s, r, c) = AcknowledgedCp(f, r, c)
    BY DEF ApplyResult, t
  <1> HIDE DEF f
  <1>5. QED BY <1>2, <1>3, <1>4

-----------------------------------------------------------------------------
(* The line goes on by one frame.                                          *)

LEMMA NextFrame ==
  ASSUME NEW o \in Nat, PeerInOrder(peer, o), NEW n \in Peer,
         NEW e, e = IF Signals[n] = "E" THEN o ELSE peer.e_at
  PROVE  /\ e \in Int /\ Signals[n] \in Signal
         /\ PeerInOrder([sends |-> n, e_at |-> e], o + 1)
         /\ Carries(o, Signals[n], e)
         /\ e = peer.e_at \/ (peer.e_at = -1 /\ e = o)
  <1>1. n \in 1 .. 6 /\ (n = peer.sends \/ n = peer.sends + 1)
        /\ (n = peer.sends => Signals[n] # "E")
    BY DEF Peer, Signals
  <1>2. /\ peer.sends \in 1 .. 6 /\ peer.e_at \in Int
        /\ peer.sends < 5 => peer.e_at = -1
        /\ peer.sends = 5 => peer.e_at = o - 1 /\ o > 0
        /\ peer.sends = 6 => 0 <= peer.e_at /\ peer.e_at < o - 1
    BY DEF PeerInOrder
  <1>3. Signals[n] \in Signal
    BY <1>1 DEF Signal
  <1>4. CASE n = 5
    <2>1. Signals[n] = "E" /\ peer.sends = 4 /\ peer.e_at = -1 /\ e = o
      BY <1>1, <1>2, <1>4 DEF Signals
    <2>2. QED BY <1>3, <1>4, <2>1 DEF PeerInOrder, Carries
  <1>5. CASE n = 6
    <2>1. Signals[n] = "B1" /\ peer.sends \in {5, 6} /\ e = peer.e_at
      BY <1>1, <1>2, <1>5 DEF Signals
    <2>2. 0 <= e /\ e < o
      BY <1>2, <2>1
    <2>3. e \in Int /\ Carries(o, Signals[n], e)
      BY <1>2, <2>1, <2>2 DEF Carries
    <2>4. PeerInOrder([sends |-> n, e_at |-> e], o + 1)
      BY <1>5, <2>2, <2>3 DEF PeerInOrder
    <2>5. QED BY <1>3, <2>1, <2>3, <2>4
  <1>6. CASE n < 5
    <2>1. Signals[n] # "B1" /\ Signals[n] # "E" /\ peer.sends < 5 /\ e = -1 /\ peer.e_at = -1
      BY <1>1, <1>2, <1>6 DEF Signals
    <2>2. e \in Int /\ Carries(o, Signals[n], e)
      BY <2>1 DEF Carries
    <2>3. PeerInOrder([sends |-> n, e_at |-> e], o + 1)
      BY <1>1, <1>6, <2>1 DEF PeerInOrder
    <2>4. QED BY <1>3, <2>1, <2>2, <2>3
  <1>7. QED BY <1>1, <1>4, <1>5, <1>6

\* Where E will be does not matter to what came before it.
LEMMA EarlierFrames ==
  ASSUME NEW o \in Nat, NEW e0 \in Int, NEW e \in Int,
         e = e0 \/ (e0 = -1 /\ e = o)
  PROVE  /\ \A i \in Nat : \A signal :
              i < o /\ Carries(i, signal, e0) => Carries(i, signal, e)
         /\ \A r : HeardTo(r, o - 1, e0) => HeardTo(r, o - 1, e)
  <1>1. ASSUME NEW i \in Nat, NEW signal, i < o, Carries(i, signal, e0)
        PROVE  Carries(i, signal, e)
    BY <1>1 DEF Carries
  <1>2. ASSUME NEW r, HeardTo(r, o - 1, e0)
        PROVE  HeardTo(r, o - 1, e)
    <2>1. CASE e = e0
      BY <1>2, <2>1
    <2>2. CASE e0 = -1 /\ e = o
      <3>1. r \in ReceiverType /\ r.started = FALSE /\ r.e_complete = FALSE
            /\ r.heard = 0 /\ (r.prepared => r.look_for_e) /\ r.last = o - 1
        BY <1>2, <2>2 DEF HeardTo, InStep, ReceiverType
      <3>2. QED BY <3>1, <2>2 DEF HeardTo, InStep
    <2>3. QED BY <2>1, <2>2
  <1>3. QED BY <1>1, <1>2

\* A history that has grown still has what was copied from it.
Grown(live, later) ==
  /\ Len(live) <= Len(later)
  /\ \A i \in 1 .. Len(live) : later[i] = live[i]

LEMMA StillCopy ==
  ASSUME NEW live \in Seq(Signal), NEW later \in Seq(Signal), Grown(live, later),
         NEW s, CopyOf(s, live)
  PROVE  CopyOf(s, later)
  <1>1. s.samples \in Seq(Signal) /\ s.offset \in Nat
    BY DEF CopyOf
  <1>2. ASSUME NEW i \in 1 .. Len(s.samples)
        PROVE  /\ s.offset + i \in 1 .. Len(later)
               /\ s.samples[i] = later[s.offset + i]
    <2>1. s.offset + i \in 1 .. Len(live) /\ s.samples[i] = live[s.offset + i]
      BY DEF CopyOf
    <2>2. Len(live) \in Nat /\ Len(later) \in Nat
      OBVIOUS
    <2>3. QED BY <2>1, <2>2 DEF Grown
  <1>3. QED BY <1>1, <1>2 DEF CopyOf

LEMMA NoCopy == ASSUME NEW live PROVE CopyOf(NULL, live)
  <1>1. NULL.samples = <<>> /\ NULL.offset = 0
    BY DEF NULL
  <1>2. QED BY <1>1 DEF CopyOf

\* bridge_live_cp_try copies the end of the history.
LEMMA SnapshotCopies ==
  ASSUME NEW l, l.live \in Seq(Signal)
  PROVE  CopyOf(Snapshot(l), l.live)
  <1> DEFINE n == Len(l.live)
             o == IF n > SearchTail THEN n - SearchTail ELSE 0
             q == SubSeq(l.live, o + 1, n)
  <1>1. n \in Nat /\ o \in Nat /\ o <= n
    BY V90BridgeAssumption
  <1>2. Snapshot(l).offset = o /\ Snapshot(l).samples = q
    BY DEF Snapshot
  <1>3. \A k \in 1 .. n : l.live[k] \in Signal
    OBVIOUS
  <1>4. /\ q \in Seq(Signal) /\ Len(q) = n - o
        /\ \A k \in 1 .. n - o : q[k] = l.live[o + k]
    <2> HIDE DEF o
    <2>1. \A k \in (o + 1) .. n : l.live[k] \in Signal
      BY <1>1, <1>3
    <2>2. o + 1 \in Nat /\ o + 1 >= 1 /\ n <= Len(l.live)
      BY <1>1
    <2>3. /\ q \in Seq(Signal)
          /\ Len(q) = IF o + 1 <= n THEN n - (o + 1) + 1 ELSE 0
      BY <1>1, <2>1, <2>2
    <2>4. Len(q) = n - o
      BY <1>1, <2>3
    <2>5. ASSUME NEW k \in 1 .. n - o PROVE q[k] = l.live[o + k]
      <3>1. q[k] = l.live[(o + 1) + k - 1]
        BY <1>1, <2>2, <2>5
      <3>2. (o + 1) + k - 1 = o + k
        BY <1>1
      <3>3. QED BY <3>1, <3>2
    <2>6. QED BY <2>3, <2>4, <2>5
  <1> HIDE DEF n, o, q
  <1>5. \A i \in 1 .. n - o : o + i \in 1 .. n
    BY <1>1
  <1>6. QED BY <1>1, <1>2, <1>4, <1>5 DEF CopyOf, n

-----------------------------------------------------------------------------
(* The steps.                                                              *)

\* bridge_feed_upstream hears the frame unless a replay has.
LEMMA FeedFrameStep ==
  ASSUME Delay = 0, NEW s, IsState(s), NEW q \in Nat, s.m.sample_offset = q,
         NEW e \in Int, Midway(s, q, e), NEW signal, Carries(q, signal, e),
         NEW c \in Choice
  PROVE  LET f == FeedFrame(s, signal, c)
         IN  f.m.replayed = FALSE /\ HeardTo(f.rx, q, e)
  <1>1. CASE s.m.replayed = TRUE
    <2>1. HeardTo(s.rx, q, e)
      BY <1>1 DEF Midway
    <2>2. FeedFrame(s, signal, c).m.replayed = FALSE /\ FeedFrame(s, signal, c).rx = s.rx
      BY <1>1 DEF FeedFrame, IsState, IsLoop, LoopFields
    <2>3. QED BY <2>1, <2>2
  <1>2. CASE s.m.replayed = FALSE
    <2> DEFINE b == [rx |-> s.rx, v90 |-> s.v90]
               h == HearFrame(b, q, signal, c)
    <2>1. HeardTo(s.rx, q - 1, e)
      BY <1>2 DEF Midway
    <2>2. Pair(b) /\ b.rx = s.rx
      BY DEF Pair
    <2>3. FeedFrame(s, signal, c) = [m |-> s.m, rx |-> h.rx, v90 |-> h.v90]
      BY <1>2 DEF FeedFrame
    <2> HIDE DEF b
    <2>4. q - 1 \in Int /\ q - 1 >= -1 /\ (q - 1) + 1 = q
      OBVIOUS
    <2>5. HeardTo(HearFrame(b, (q - 1) + 1, signal, c).rx, (q - 1) + 1, e)
      <3>1. Carries((q - 1) + 1, signal, e)
        BY <2>4
      <3>2. b.rx \in ReceiverType /\ InStep(b.rx, q - 1, e)
        BY <2>1, <2>2 DEF HeardTo
      <3>3. QED BY <3>1, <3>2, <2>2, <2>4, HearStep
    <2>6. HeardTo(h.rx, q, e)
      BY <2>4, <2>5
    <2> HIDE DEF h
    <2>7. QED BY <2>3, <2>6, <1>2
  <1>3. QED BY <1>1, <1>2 DEF Midway

\* What Media does to the line, the history and the receiver.
LEMMA MediaStep ==
  ASSUME HInv, Media
  PROVE  /\ m'.live \in Seq(Signal) /\ Grown(m.live, m'.live)
         /\ m'.sample_offset = m.sample_offset + 1 /\ m'.connected = m.connected
         /\ Len(m'.live) <= m'.sample_offset
         /\ Live /\ ~ m.connected /\ Len(m'.live) < MaxLive
              => Len(m'.live) = m'.sample_offset
         /\ PeerInOrder(peer', m'.sample_offset)
         /\ \A i \in 1 .. Len(m'.live) : Carries(i - 1, m'.live[i], peer'.e_at)
         /\ live_result'.found = live_result.found
         /\ live_result'.last = live_result.last
         /\ Delay = 0 /\ Len(m'.live) < MaxLive
              => m'.replayed = FALSE /\ HeardTo(rx', m.sample_offset, peer'.e_at)
  <1>1. IsLoop(m) /\ IsResult(live_result)
    BY DEF HInv, IInv, Shapes
  <1>2. PICK n \in Peer, found \in IF m.connected THEN {m.found} ELSE SegmentsFound,
             c \in Choice :
          LET signal == Signals[n]
              takes == Live /\ ~m.connected /\ live_result.ready
              l == [m EXCEPT !.live = Recorded(signal), !.found = found]
              a == IF takes THEN ApplyResult([m |-> l, rx |-> rx, v90 |-> v90],
                                             live_result, c)
                   ELSE [m |-> l, rx |-> rx, v90 |-> v90]
              f == FeedFrame(a, signal, c)
          IN  /\ m' = [f.m EXCEPT !.sample_offset = @ + 1]
              /\ rx' = f.rx /\ v90' = f.v90
              /\ peer' = [sends |-> n, e_at |-> IF signal = "E" THEN m.sample_offset
                                                ELSE peer.e_at]
              /\ live_result' = IF takes THEN [live_result EXCEPT !.ready = FALSE]
                                ELSE live_result
    BY DEF Media
  <1> DEFINE q == m.sample_offset
             signal == Signals[n]
             e == IF signal = "E" THEN q ELSE peer.e_at
             takes == Live /\ ~m.connected /\ live_result.ready
             l == [m EXCEPT !.live = Recorded(signal), !.found = found]
             b == [m |-> l, rx |-> rx, v90 |-> v90]
             a == IF takes THEN ApplyResult(b, live_result, c) ELSE b
             f == FeedFrame(a, signal, c)
             later == Recorded(signal)
  <1>3. /\ q \in Nat /\ m.live \in Seq(Signal) /\ m.connected \in BOOLEAN
        /\ Len(m.live) <= q /\ PeerInOrder(peer, q)
        /\ Live /\ ~ m.connected /\ Len(m.live) < MaxLive => Len(m.live) = q
        /\ \A i \in 1 .. Len(m.live) : Carries(i - 1, m.live[i], peer.e_at)
    BY DEF HInv, Line
  <1>4. /\ e \in Int /\ signal \in Signal
        /\ PeerInOrder([sends |-> n, e_at |-> e], q + 1)
        /\ Carries(q, signal, e)
        /\ e = peer.e_at \/ (peer.e_at = -1 /\ e = q)
    BY <1>3, NextFrame
  <1>5. peer.e_at \in Int
    BY <1>3 DEF PeerInOrder
  <1>6. /\ IsState(b) /\ b.m.live = later /\ b.m.sample_offset = q
        /\ b.m.connected = m.connected /\ b.m.replayed = m.replayed /\ b.rx = rx
    BY <1>1 DEF IsState, IsLoop, LoopFields
  <1>7. /\ m' = [f.m EXCEPT !.sample_offset = @ + 1] /\ rx' = f.rx
        /\ peer' = [sends |-> n, e_at |-> e]
        /\ live_result' = IF takes THEN [live_result EXCEPT !.ready = FALSE]
                          ELSE live_result
    BY <1>2
  <1> HIDE DEF b, l, q, signal, e, later
  <1>8. IsState(a) /\ SameLine(b.m, a.m)
    BY <1>6, ApplyResultAdvances, ApplyResultLine DEF SameLine
  <1> HIDE DEF a
  <1>9. IsLoop(f.m) /\ SameLine(a.m, f.m)
    BY <1>8, FeedFrameKeeps, FeedFrameLine DEF Keeps
  <1> HIDE DEF f
  <1>10. /\ m'.live = later /\ m'.sample_offset = q + 1
         /\ m'.connected = m.connected /\ m'.replayed = f.m.replayed
    <2>1. /\ f.m.live = later /\ f.m.sample_offset = q /\ f.m.connected = m.connected
      BY <1>6, <1>8, <1>9 DEF SameLine
    <2>2. QED BY <1>7, <1>9, <2>1 DEF IsLoop, LoopFields
  <1>11. \/ /\ Live /\ ~ m.connected /\ Len(m.live) < MaxLive
            /\ Len(m.live) = q /\ later = Append(m.live, signal)
         \/ /\ ~ (Live /\ ~ m.connected /\ Len(m.live) < MaxLive)
            /\ later = m.live
    BY <1>3 DEF Recorded, later
  <1>12. later \in Seq(Signal) /\ Grown(m.live, later)
    <2>1. CASE later = m.live
      BY <2>1, <1>3 DEF Grown
    <2>2. CASE later = Append(m.live, signal)
      <3>1. /\ later \in Seq(Signal) /\ Len(later) = Len(m.live) + 1
            /\ \A i \in 1 .. Len(m.live) : later[i] = m.live[i]
        BY <2>2, <1>3, <1>4
      <3>2. QED BY <3>1, <1>3 DEF Grown
    <2>3. QED BY <1>11, <2>1, <2>2
  <1>13. /\ Len(later) <= q + 1
         /\ Live /\ ~ m.connected /\ Len(later) < MaxLive => Len(later) = q + 1
    BY <1>3, <1>4, <1>11
  <1>14. ASSUME NEW i \in 1 .. Len(later) PROVE Carries(i - 1, later[i], e)
    <2>1. CASE i \in 1 .. Len(m.live)
      <3>1. later[i] = m.live[i] /\ Carries(i - 1, m.live[i], peer.e_at)
        BY <2>1, <1>12, <1>3 DEF Grown
      <3>2. i - 1 \in Nat /\ i - 1 < q
        BY <2>1, <1>3
      <3>3. QED BY <3>1, <3>2, <1>3, <1>4, <1>5, EarlierFrames
    <2>2. CASE i \notin 1 .. Len(m.live)
      <3>1. /\ Len(m.live) = q /\ later = Append(m.live, signal)
            /\ i = q + 1 /\ i - 1 = q
        BY <2>2, <1>3, <1>11, <1>14
      <3>2. later[i] = signal
        BY <3>1, <1>3, <1>4
      <3>3. QED BY <3>1, <3>2, <1>4
    <2>3. QED BY <2>1, <2>2
  <1>15. live_result'.found = live_result.found /\ live_result'.last = live_result.last
    BY <1>1, <1>7 DEF IsResult
  <1>16. ASSUME Delay = 0, Len(later) < MaxLive
         PROVE  f.m.replayed = FALSE /\ HeardTo(f.rx, q, e)
    <2>1. Len(m.live) < MaxLive
      <3>1. MaxLive \in Nat
        BY V90BridgeAssumption
      <3>2. QED BY <3>1, <1>3, <1>12, <1>16 DEF Grown
    <2>2. m.replayed = FALSE /\ HeardTo(rx, q - 1, peer.e_at)
      BY <1>16, <2>1 DEF HInv, Receiver, q
    <2>3. HeardTo(rx, q - 1, e)
      BY <2>2, <1>3, <1>4, <1>5, EarlierFrames
    <2>4. Midway(b, q, e) /\ b.m.replayed = FALSE
      BY <1>6, <2>2, <2>3 DEF Midway
    <2>5. Midway(a, q, e)
      <3>1. CASE takes
        <4>1. Len(later) = q + 1 /\ Len(m.live) = q
          BY <3>1, <1>3, <1>13, <1>16, <2>1
        <4>2. live_result.found =>
                /\ live_result.last \in 1 .. q
                /\ later[live_result.last] \in {"CPt", "CP", "CP'"}
          BY <4>1, <1>12 DEF HInv, Copies, Grown
        <4>3. a = ApplyResult(b, live_result, c)
          BY <3>1 DEF a
        <4>4. QED BY <4>1, <4>2, <4>3, <1>3, <1>4, <1>6, <1>12, <1>14, <2>4, ApplyResultStep
      <3>2. CASE ~ takes
        BY <3>2, <2>4 DEF a
      <3>3. QED BY <3>1, <3>2
    <2>6. a.m.sample_offset = q
      BY <1>6, <1>8 DEF SameLine
    <2>7. QED BY <2>5, <2>6, <1>3, <1>4, <1>8, <1>16, FeedFrameStep DEF f
  <1>17. peer'.e_at = e
    BY <1>7
  <1>18. QED
    BY <1>4, <1>7, <1>10, <1>12, <1>13, <1>14, <1>15, <1>16, <1>17 DEF q

LEMMA MediaHInv == ASSUME HInv, Media PROVE HInv'
  <1>1. IInv'
    BY MediaInv DEF HInv
  <1>2. UNCHANGED <<live_job_samples, worker>>
    BY DEF Media
  <1>3. m.sample_offset \in Nat /\ m.live \in Seq(Signal) /\ m.connected \in BOOLEAN
    BY DEF HInv, Line
  <1>4. Line'
    BY <1>3, MediaStep DEF Line
  <1>5. Copies'
    <2>1. /\ CopyOf(live_job_samples, m.live) /\ CopyOf(worker.samples, m.live)
          /\ live_result.found =>
               /\ live_result.last \in 1 .. Len(m.live)
               /\ m.live[live_result.last] \in {"CPt", "CP", "CP'"}
      BY DEF HInv, Copies
    <2>2. m'.live \in Seq(Signal) /\ Grown(m.live, m'.live)
      BY MediaStep
    <2>3. CopyOf(live_job_samples, m'.live) /\ CopyOf(worker.samples, m'.live)
      BY <1>3, <2>1, <2>2, StillCopy
    <2>4. live_result'.found =>
               /\ live_result'.last \in 1 .. Len(m'.live)
               /\ m'.live[live_result'.last] \in {"CPt", "CP", "CP'"}
      <3>1. live_result'.found = live_result.found /\ live_result'.last = live_result.last
        BY MediaStep
      <3>2. QED BY <3>1, <2>1, <2>2, <1>3 DEF Grown
    <2>5. QED BY <1>2, <2>3, <2>4 DEF Copies
  <1>6. Receiver'
    <2>1. m'.sample_offset - 1 = m.sample_offset
      BY <1>3, MediaStep
    <2>2. QED BY <2>1, MediaStep DEF Receiver
  <1>7. QED BY <1>1, <1>4, <1>5, <1>6 DEF HInv

LEMMA ControlHInv == ASSUME HInv, Control PROVE HInv'
  <1>1. IInv' /\ IsLoop(m)
    BY ControlInv DEF HInv, IInv, Shapes
  <1>2. UNCHANGED <<rx, peer, live_result, worker>>
    BY DEF Control
  <1> DEFINE e == Scan(m, v90.phase)
             n == NotePhase4(e.m, e.phase)
             l == [n EXCEPT !.connected = @ \/ e.phase = "DATA"]
  <1>3. IsLoop(e.m) /\ SameLine(m, e.m) /\ e.m.replayed = m.replayed
    BY <1>1, ScanKeeps, ScanLine DEF Keeps
  <1>4. IsLoop(n) /\ SameLine(e.m, n) /\ n.replayed = e.m.replayed
    BY <1>3, NotePhase4Keeps, NotePhase4Line DEF Keeps
  <1> HIDE DEF n, e
  <1>5. m.connected \in BOOLEAN
    BY DEF HInv, Line
  <1>6. /\ IsLoop(l) /\ l.live = m.live /\ l.sample_offset = m.sample_offset
        /\ l.replayed = m.replayed
        /\ l.connected \in BOOLEAN /\ (~ l.connected => ~ m.connected)
    <2>1. /\ n.live = m.live /\ n.sample_offset = m.sample_offset
          /\ n.connected = m.connected /\ n.replayed = m.replayed
      BY <1>3, <1>4 DEF SameLine
    <2> DEFINE b == n.connected \/ e.phase = "DATA"
    <2>2. b \in BOOLEAN /\ (~ b => ~ m.connected)
      BY <2>1, <1>5
    <2>3. l = [n EXCEPT !.connected = b]
      BY <1>4 DEF IsLoop, LoopFields
    <2> HIDE DEF b, l
    <2>4. IsLoop(l) /\ l.live = n.live /\ l.sample_offset = n.sample_offset
          /\ l.replayed = n.replayed /\ l.connected = b
      BY <2>3, <1>4 DEF IsLoop, LoopFields
    <2>5. QED BY <2>1, <2>2, <2>4
  <1>7. LiveCpTry(l) \/ NoTry(l)
    BY DEF Control, n, e
  <1> HIDE DEF l
  <1>8. /\ m'.live = m.live /\ m'.sample_offset = m.sample_offset
        /\ m'.replayed = m.replayed
        /\ m'.connected \in BOOLEAN /\ (~ m'.connected => ~ m.connected)
        /\ live_job_samples' = live_job_samples \/ live_job_samples' = Snapshot(l)
    <2>1. CASE NoTry(l)
      BY <1>6, <2>1 DEF NoTry
    <2>2. CASE LiveCpTry(l)
      BY <1>6, <2>2 DEF LiveCpTry, IsLoop, LoopFields
    <2>3. QED BY <1>7, <2>1, <2>2
  <1>9. Line'
    BY <1>2, <1>8 DEF HInv, Line
  <1>10. Copies'
    <2>1. m.live \in Seq(Signal)
      BY DEF HInv, Line
    <2>2. CopyOf(Snapshot(l), m.live)
      BY <1>6, <2>1, SnapshotCopies
    <2>3. CopyOf(live_job_samples', m'.live)
      BY <1>8, <2>2 DEF HInv, Copies
    <2>4. QED BY <1>2, <1>8, <2>3 DEF HInv, Copies
  <1>11. Receiver'
    BY <1>2, <1>8 DEF HInv, Receiver
  <1>12. QED BY <1>1, <1>9, <1>10, <1>11 DEF HInv

\* The worker moves a snapshot, and answers with a place in it.
LEMMA WorkerHInv == ASSUME HInv, Worker PROVE HInv'
  <1>1. IInv' /\ IsResult(live_result) /\ IsWorker(worker)
    BY WorkerTakeInv, WorkerExitInv, WorkerPublishInv DEF HInv, Worker, IInv, Shapes
  <1>2. UNCHANGED <<m, rx, peer>>
    BY DEF Worker, WorkerTake, WorkerExit, WorkerPublish, shared
  <1>3. Line' /\ Receiver'
    BY <1>2 DEF HInv, Line, Receiver
  <1>4. Copies'
    <2>0. CopyOf(live_job_samples, m.live) /\ CopyOf(worker.samples, m.live)
          /\ CopyOf(NULL, m.live)
      BY NoCopy DEF HInv, Copies
    <2>1. CASE WorkerTake
      BY <1>2, <2>0, <2>1 DEF HInv, Copies, WorkerTake
    <2>2. CASE WorkerExit
      <3>1. worker'.samples = worker.samples /\ live_job_samples' = live_job_samples
            /\ live_result' = live_result
        BY <1>1, <2>2 DEF WorkerExit, IsWorker, shared
      <3>2. QED BY <1>2, <3>1 DEF HInv, Copies
    <2>3. CASE WorkerPublish
      <3>1. worker'.samples = NULL /\ live_job_samples' = live_job_samples
        BY <2>3 DEF WorkerPublish
      <3>2. ASSUME live_result'.found
            PROVE  /\ live_result'.last \in 1 .. Len(m.live)
                   /\ m.live[live_result'.last] \in {"CPt", "CP", "CP'"}
        <4>1. CASE live_result' = live_result
          BY <3>2, <4>1 DEF HInv, Copies
        <4>2. CASE live_result' =
                     [NoResult EXCEPT !.ready = TRUE, !.call = worker.samples.call,
                                      !.expected = worker.expected]
          <5>1. live_result'.found = FALSE
            BY <4>2 DEF NoResult
          <5>2. QED BY <5>1, <3>2
        <4>3. ASSUME NEW i \in Recoverable(worker.expected, worker.samples),
                     live_result' = [ready |-> TRUE, found |-> TRUE,
                                     expected |-> worker.expected,
                                     kind |-> worker.samples.samples[i],
                                     last |-> worker.samples.offset + i,
                                     call |-> worker.samples.call]
              PROVE  /\ live_result'.last \in 1 .. Len(m.live)
                     /\ m.live[live_result'.last] \in {"CPt", "CP", "CP'"}
          <5>1. live_result'.last = worker.samples.offset + i
            BY <4>3
          <5>2. worker.samples.samples \in Seq(Signal)
            BY <2>0 DEF CopyOf
          <5>3. /\ i \in 1 .. Len(worker.samples.samples)
                /\ worker.samples.samples[i] \in {"CPt", "CP", "CP'"}
            BY <5>2 DEF Recoverable
          <5>4. QED BY <5>1, <5>3, <2>0 DEF CopyOf
        <4>4. QED BY <2>3, <4>1, <4>2, <4>3 DEF WorkerPublish
      <3>3. QED BY <1>2, <2>0, <3>1, <3>2 DEF Copies
    <2>4. QED BY <2>1, <2>2, <2>3 DEF Worker
  <1>5. QED BY <1>1, <1>3, <1>4 DEF HInv

\* A call that begins: nothing sent, nothing heard, nothing copied.
LEMMA Fresh ==
  ASSUME NEW l, l = NewLoop, NEW p, p = NewPeer, NEW r, r = NewReceiver
  PROVE  /\ l.live \in Seq(Signal) /\ l.sample_offset \in Nat /\ l.connected \in BOOLEAN
         /\ Len(l.live) = l.sample_offset /\ PeerInOrder(p, l.sample_offset)
         /\ \A i \in 1 .. Len(l.live) : Carries(i - 1, l.live[i], p.e_at)
         /\ l.replayed = FALSE /\ HeardTo(r, l.sample_offset - 1, p.e_at)
  <1>1. l.live = <<>> /\ l.sample_offset = 0 /\ l.connected = FALSE /\ l.replayed = FALSE
    BY DEF NewLoop
  <1>2. p.sends = 1 /\ p.e_at = -1 /\ p = [sends |-> p.sends, e_at |-> p.e_at]
    BY DEF NewPeer
  <1>3. /\ r \in ReceiverType /\ r.started = FALSE /\ r.heard = 0 /\ r.e_complete = FALSE
        /\ r.prepared = FALSE /\ r.last = -1
    BY DEF NewReceiver, ReceiverType
  <1>4. PeerInOrder(p, 0)
    BY <1>2 DEF PeerInOrder
  <1>5. HeardTo(r, 0 - 1, -1)
    BY <1>3 DEF HeardTo, InStep
  <1>6. Len(l.live) = 0 /\ l.live \in Seq(Signal)
    BY <1>1
  <1>7. \A i \in 1 .. Len(l.live) : Carries(i - 1, l.live[i], p.e_at)
    BY <1>6
  <1>8. PeerInOrder(p, l.sample_offset) /\ HeardTo(r, l.sample_offset - 1, p.e_at)
    BY <1>1, <1>2, <1>4, <1>5
  <1>9. l.sample_offset \in Nat /\ Len(l.live) = l.sample_offset
    BY <1>1, <1>6
  <1>10. l.connected \in BOOLEAN
    BY <1>1, Zenon
  <1>11. QED BY <1>1, <1>6, <1>7, <1>8, <1>9, <1>10, Zenon

LEMMA InitHInv == ASSUME Init PROVE HInv
  <1>1. IInv /\ m = NewLoop /\ peer = NewPeer /\ rx = NewReceiver
    BY InitInv DEF Init
  <1>2. Line /\ Receiver
    <2>1. /\ m.live \in Seq(Signal) /\ m.sample_offset \in Nat
          /\ m.connected \in BOOLEAN /\ Len(m.live) = m.sample_offset
          /\ PeerInOrder(peer, m.sample_offset)
          /\ \A i \in 1 .. Len(m.live) : Carries(i - 1, m.live[i], peer.e_at)
          /\ m.replayed = FALSE /\ HeardTo(rx, m.sample_offset - 1, peer.e_at)
      BY <1>1, Fresh
    <2>2. QED BY <2>1 DEF Line, Receiver
  <1>3. /\ live_job_samples = NULL /\ worker.samples = NULL /\ live_result.found = FALSE
    BY DEF Init, NewWorker, NoResult
  <1>4. Copies
    BY <1>3, NoCopy DEF Copies
  <1>5. QED BY <1>1, <1>2, <1>4 DEF HInv

LEMMA JoinHInv == ASSUME HInv, Join PROVE HInv'
  <1>1. IInv'
    BY JoinInv DEF HInv
  <1>2. live_job_samples' = NULL
    BY DEF Join
  <1>3. CASE m.sample_offset = MaxFrames
    <2>1. UNCHANGED <<m, rx, peer, live_result, worker>>
      BY <1>3 DEF Join
    <2>2. Line' /\ Receiver'
      BY <2>1 DEF HInv, Line, Receiver
    <2>3. Copies'
      BY <1>2, <2>1, NoCopy DEF HInv, Copies
    <2>4. QED BY <1>1, <2>2, <2>3 DEF HInv
  <1>4. CASE m.sample_offset # MaxFrames
    <2>1. /\ m' = NewLoop /\ rx' = NewReceiver /\ peer' = NewPeer
          /\ live_result' = NoResult
          /\ worker' = NewWorker
      BY <1>4 DEF Join, Joined
    <2>2. Line' /\ Receiver'
      <3>1. /\ m'.live \in Seq(Signal) /\ m'.sample_offset \in Nat
            /\ m'.connected \in BOOLEAN /\ Len(m'.live) = m'.sample_offset
            /\ PeerInOrder(peer', m'.sample_offset)
            /\ \A i \in 1 .. Len(m'.live) : Carries(i - 1, m'.live[i], peer'.e_at)
            /\ m'.replayed = FALSE /\ HeardTo(rx', m'.sample_offset - 1, peer'.e_at)
        BY <2>1, Fresh
      <3>2. QED BY <3>1 DEF Line, Receiver
    <2>3. worker'.samples = NULL /\ live_result'.found = FALSE
      BY <2>1 DEF NewWorker, NoResult
    <2>4. Copies'
      BY <1>2, <2>3, NoCopy DEF Copies
    <2>5. QED BY <1>1, <2>2, <2>4 DEF HInv
  <1>5. QED BY <1>3, <1>4

\* Stopping the search and starting a frame leave the call as it is.
LEMMA OtherHInv ==
  ASSUME HInv, Reset \/ InputEnds \/ StartFrame \/ UNCHANGED vars
  PROVE  HInv'
  <1>1. IInv'
    BY StopInv, StartFrameInv, StutterInv DEF HInv
  <1>2. UNCHANGED <<m, rx, peer, live_job_samples, live_result, worker>>
    BY DEF Reset, InputEnds, StopWorker, StartFrame, vars, shared
  <1>3. QED BY <1>1, <1>2 DEF HInv, Line, Copies, Receiver

LEMMA HandoverInvariance == Spec => []HInv
  <1>1. HInv /\ [Next]_vars => HInv'
    BY MediaHInv, ControlHInv, WorkerHInv, JoinHInv, OtherHInv DEF Next, Loop
  <1>2. QED BY InitHInv, <1>1, PTL DEF Spec

-----------------------------------------------------------------------------
\* While the history has room and the receiver runs without delay, data
\* begins on the frame after E and nowhere else: whether the CP was decoded
\* in time, or recognised by the search any number of frames after E and the
\* history replayed.
THEOREM DataBeginsAtE == Spec => []HandoverAtE
  <1>1. HInv => HandoverAtE
    BY DEF HInv, Line, Receiver, HandoverAtE, HeardTo, InStep
  <1>2. QED BY <1>1, HandoverInvariance, PTL

\* A receiver that v34_v90_prepare_upstream_data has prepared does not let E
\* pass: no order of recognitions, replays and frames leaves it waiting for
\* an E that has gone by.
THEOREM HandoverNotMissed == Spec => []NoMissedHandover
  <1>1. HInv => NoMissedHandover
    <2> SUFFICES ASSUME HInv, Delay = 0, Len(m.live) < MaxLive,
                        rx.prepared, peer.e_at >= 0, rx.last > peer.e_at
                 PROVE  rx.started
      BY DEF NoMissedHandover
    <2> QED BY DEF HInv, Line, PeerInOrder, Receiver, HeardTo, InStep, ReceiverType
  <1>2. QED BY <1>1, HandoverInvariance, PTL

\* From the handover on, the receiver has heard every frame of the line once
\* and in order: the frame under way is not heard again after a replay, and
\* none is left out between the replay and the next frame.
THEOREM FramesHeardOnce == Spec => []EveryFrameOnce
  <1>1. HInv => EveryFrameOnce
    BY DEF HInv, Line, PeerInOrder, Receiver, EveryFrameOnce, HeardTo, InStep
  <1>2. QED BY <1>1, HandoverInvariance, PTL
=============================================================================

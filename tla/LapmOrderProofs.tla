--------------------------- MODULE LapmOrderProofs ---------------------------
(***************************************************************************)
(* What a link hands up is what was sent, in order and once: the proof of  *)
(* NoDuplicateNoReorder, for every modulus, window and timer setting, and  *)
(* for any loss, disturbance, retransmission and re-establishment.         *)
(*                                                                         *)
(* The invariant is about one direction: a sender s, and rx and vr, what   *)
(* the other end has handed up and the number it expects.  Octets leave    *)
(* the stream in order, so of two runs of octets either all of one are     *)
(* before all of the other (Below) or a frame is under way again.  In that *)
(* case the number of the later copy lies less than W = k <= Mod - 1       *)
(* behind, which is what keeps a repeated frame from being taken for the   *)
(* next one.  SABME and UA mark where a sender may start again from zero:  *)
(* nothing that follows a marker repeats what precedes it.                 *)
(***************************************************************************)
EXTENDS LapmProofs

\* Every octet of a is less, that is sent earlier, than every octet of b.
Below(a, b) == \A i \in 1 .. Len(a), j \in 1 .. Len(b) : a[i] < b[j]

\* The octets of a are in the order of send().
Ascends(a) == \A i, j \in 1 .. Len(a) : i < j => a[i] < a[j]

\* They are among the n octets sent.
UpTo(a, n) == \A i \in 1 .. Len(a) : a[i] \in 1 .. n

Info(f) == f.type = "I"

\* A frame on which the other end may set V(R) to zero.
Marker(f) == f.type \in {"SABME", "UA"}

Unmarked(tx, i, j) == \A k \in i .. j : ~ Marker(tx[k])

\* A run of octets that has left the stream.
Clean(s, d) ==
  /\ UpTo(d, s.sent) /\ Ascends(d)
  /\ Below(d, s.tx_transfer) /\ Below(d, s.tx_stream)

\* The octets of a frame.
Field(s, d) == Clean(s, d) /\ Len(d) > 0

\* What is still to be framed.
StreamOrder(s) ==
  /\ UpTo(s.tx_transfer, s.sent) /\ Ascends(s.tx_transfer)
  /\ UpTo(s.tx_stream, s.sent) /\ Ascends(s.tx_stream)
  /\ Below(s.tx_transfer, s.tx_stream)
  /\ ~ s.codec => s.tx_transfer = <<>>

\* The frames kept for go-back-N.
HeldOrder(s) ==
  /\ \A q \in s.held : Field(s, s.unacked[q])
  /\ \A q, r \in s.held :
       Sub(q, s.va) < Sub(r, s.va) => Below(s.unacked[q], s.unacked[r])

\* The frames under way, among themselves and with the frames held.
TxOrder(s, W) ==
  /\ \A i \in 1 .. Len(s.tx) : Info(s.tx[i]) => Field(s, s.tx[i].data)
  /\ \A i, j \in 1 .. Len(s.tx) :
       i < j /\ Info(s.tx[i]) /\ Info(s.tx[j]) =>
         \/ Below(s.tx[i].data, s.tx[j].data)
         \/ Unmarked(s.tx, i, j) /\ Sub(s.tx[i].ns, s.tx[j].ns) < W
  /\ \A i \in 1 .. Len(s.tx), q \in s.held :
       Info(s.tx[i]) =>
         \/ Below(s.tx[i].data, s.unacked[q])
         \/ Unmarked(s.tx, i, Len(s.tx)) /\ Sub(s.tx[i].ns, q) < W

\* What the other end has, with the frames under way and the frames held.
RxOrder(s, W, rx, vr) ==
  /\ Clean(s, rx)
  /\ \A i \in 1 .. Len(s.tx) :
       Info(s.tx[i]) =>
         \/ Below(rx, s.tx[i].data)
         \/ Unmarked(s.tx, 1, i) /\ Sub(vr, s.tx[i].ns) \in 1 .. W
  /\ \A q \in s.held :
       \/ Below(rx, s.unacked[q])
       \/ Unmarked(s.tx, 1, Len(s.tx)) /\ Sub(vr, q) \in 1 .. W

Order(s, W, rx, vr) ==
  /\ StreamOrder(s) /\ HeldOrder(s) /\ TxOrder(s, W) /\ RxOrder(s, W, rx, vr)

\* An end that is not connected holds nothing.
Idle(s) ==
  /\ s.failed \/ s.awaiting_ua => ~ s.connected
  /\ ~ s.connected => s.held = {}

-----------------------------------------------------------------------------
(* Steps of a sender, by what they do to its queue and its window.          *)

LEMMA EmptyRun ==
  ASSUME NEW d, NEW n
  PROVE  Below(d, <<>>) /\ Below(<<>>, d) /\ Ascends(<<>>) /\ UpTo(<<>>, n)
  BY DEF Below, Ascends, UpTo

\* The sender lets go of frames or of octets, or of nothing.
LEMMA ReleaseOrder ==
  ASSUME NEW s, NEW t, NEW W, NEW rx, NEW vr, Order(s, W, rx, vr),
         t.tx = s.tx, t.sent = s.sent,
         t.tx_transfer \in {s.tx_transfer, <<>>},
         t.tx_stream \in {s.tx_stream, <<>>},
         ~ t.codec => t.tx_transfer = <<>>,
         t.held \subseteq s.held,
         \A q \in t.held : t.unacked[q] = s.unacked[q],
         \A q, r \in t.held :
           Sub(q, t.va) < Sub(r, t.va) => Sub(q, s.va) < Sub(r, s.va)
  PROVE  Order(t, W, rx, vr)
  <1>1. \A d : (Clean(s, d) => Clean(t, d)) /\ (Field(s, d) => Field(t, d))
    BY EmptyRun DEF Clean, Field
  <1>2. StreamOrder(t)
    BY EmptyRun DEF Order, StreamOrder
  <1>3. HeldOrder(t)
    BY <1>1 DEF Order, HeldOrder
  <1>4. TxOrder(t, W)
    BY <1>1 DEF Order, TxOrder
  <1>5. RxOrder(t, W, rx, vr)
    BY <1>1 DEF Order, RxOrder
  <1>6. QED BY <1>2, <1>3, <1>4, <1>5 DEF Order

\* The sender queues a frame without octets; a marker only if nothing is held.
LEMMA AppendOrder ==
  ASSUME NEW s, NEW t, NEW W, NEW rx, NEW vr, Order(s, W, rx, vr),
         s.tx \in Seq(Frame), NEW f \in Frame, ~ Info(f), Marker(f) => s.held = {},
         t.tx = Append(s.tx, f), t.sent = s.sent,
         t.tx_transfer = s.tx_transfer, t.tx_stream = s.tx_stream,
         t.codec = s.codec, t.held = s.held, t.unacked = s.unacked, t.va = s.va
  PROVE  Order(t, W, rx, vr)
  <1> DEFINE n == Len(s.tx)
  <1>0. /\ n \in Nat /\ Len(t.tx) = n + 1 /\ t.tx[n + 1] = f
        /\ \A i \in 1 .. n : t.tx[i] = s.tx[i]
    OBVIOUS
  <1>1. \A d : (Clean(s, d) => Clean(t, d)) /\ (Field(s, d) => Field(t, d))
    BY DEF Clean, Field
  <1>2. StreamOrder(t) /\ HeldOrder(t)
    BY <1>1 DEF Order, StreamOrder, HeldOrder
  <1>3. ASSUME NEW i \in 1 .. Len(t.tx), Info(t.tx[i])
        PROVE  i \in 1 .. n /\ t.tx[i] = s.tx[i] /\ Info(s.tx[i])
    BY <1>0, <1>3
  <1>4. \A i, j \in 1 .. n : Unmarked(s.tx, i, j) => Unmarked(t.tx, i, j)
    BY <1>0 DEF Unmarked
  <1>5. ~ Marker(f) => \A i \in 1 .. n : Unmarked(s.tx, i, n) => Unmarked(t.tx, i, n + 1)
    BY <1>0 DEF Unmarked
  <1>5a. ~ Marker(f) => (Unmarked(s.tx, 1, n) => Unmarked(t.tx, 1, n + 1))
    BY <1>0 DEF Unmarked
  <1> HIDE DEF n
  <1>6. TxOrder(t, W)
    <2>1. \A i \in 1 .. Len(t.tx) : Info(t.tx[i]) => Field(t, t.tx[i].data)
      BY <1>1, <1>3 DEF Order, TxOrder, n
    <2>2. ASSUME NEW i \in 1 .. Len(t.tx), NEW j \in 1 .. Len(t.tx), i < j,
                 Info(t.tx[i]), Info(t.tx[j])
          PROVE  \/ Below(t.tx[i].data, t.tx[j].data)
                 \/ Unmarked(t.tx, i, j) /\ Sub(t.tx[i].ns, t.tx[j].ns) < W
      BY <1>3, <1>4, <2>2 DEF Order, TxOrder, n
    <2>3. ASSUME NEW i \in 1 .. Len(t.tx), NEW q \in t.held, Info(t.tx[i])
          PROVE  \/ Below(t.tx[i].data, t.unacked[q])
                 \/ Unmarked(t.tx, i, Len(t.tx)) /\ Sub(t.tx[i].ns, q) < W
      BY <1>0, <1>3, <1>5, <2>3 DEF Order, TxOrder, n
    <2>4. QED BY <2>1, <2>2, <2>3 DEF TxOrder
  <1>7. RxOrder(t, W, rx, vr)
    <2>1. Clean(t, rx)
      BY <1>1 DEF Order, RxOrder
    <2>2. ASSUME NEW i \in 1 .. Len(t.tx), Info(t.tx[i])
          PROVE  \/ Below(rx, t.tx[i].data)
                 \/ Unmarked(t.tx, 1, i) /\ Sub(vr, t.tx[i].ns) \in 1 .. W
      <3>1. 1 \in 1 .. n
        BY <1>0, <1>3, <2>2
      <3>2. QED BY <1>3, <1>4, <2>2, <3>1 DEF Order, RxOrder, n
    <2>3. ASSUME NEW q \in t.held
          PROVE  \/ Below(rx, t.unacked[q])
                 \/ Unmarked(t.tx, 1, Len(t.tx)) /\ Sub(vr, q) \in 1 .. W
      BY <1>0, <1>5a, <2>3 DEF Order, RxOrder, n
    <2>4. QED BY <2>1, <2>2, <2>3 DEF RxOrder
  <1>8. QED BY <1>2, <1>6, <1>7 DEF Order

\* Everything under way but the head, and nothing else about the sender.
Behind(s, t) ==
  /\ t.tx = Tail(s.tx) /\ t.sent = s.sent
  /\ t.tx_transfer = s.tx_transfer /\ t.tx_stream = s.tx_stream
  /\ t.codec = s.codec /\ t.held = s.held /\ t.unacked = s.unacked /\ t.va = s.va

LEMMA TailFacts ==
  ASSUME NEW s, NEW t, Behind(s, t), s.tx \in Seq(Frame), s.tx # <<>>
  PROVE  /\ Len(s.tx) \in Nat \ {0} /\ Len(t.tx) = Len(s.tx) - 1
         /\ \A i \in 1 .. Len(t.tx) : i + 1 \in 1 .. Len(s.tx) /\ t.tx[i] = s.tx[i + 1]
         /\ \A i, j \in 1 .. Len(t.tx) :
              Unmarked(s.tx, i + 1, j + 1) => Unmarked(t.tx, i, j)
         /\ \A j \in 0 .. Len(t.tx) :
              Unmarked(s.tx, 1, j + 1) => Unmarked(t.tx, 1, j)
         /\ \A d : (Clean(s, d) => Clean(t, d)) /\ (Field(s, d) => Field(t, d))
  <1>1. /\ Len(s.tx) \in Nat \ {0} /\ Len(t.tx) = Len(s.tx) - 1
        /\ \A i \in 1 .. Len(t.tx) : i + 1 \in 1 .. Len(s.tx) /\ t.tx[i] = s.tx[i + 1]
    BY DEF Behind
  <1>2. \A i, j \in 1 .. Len(t.tx) :
           Unmarked(s.tx, i + 1, j + 1) => Unmarked(t.tx, i, j)
    <2> SUFFICES ASSUME NEW i \in 1 .. Len(t.tx), NEW j \in 1 .. Len(t.tx),
                        Unmarked(s.tx, i + 1, j + 1), NEW k \in i .. j
                 PROVE  ~ Marker(t.tx[k])
      BY DEF Unmarked
    <2>1. k \in 1 .. Len(t.tx) /\ k + 1 \in (i + 1) .. (j + 1)
      BY <1>1
    <2>2. t.tx[k] = s.tx[k + 1]
      BY <1>1, <2>1
    <2>3. QED BY <2>1, <2>2 DEF Unmarked
  <1>3. \A j \in 0 .. Len(t.tx) :
           Unmarked(s.tx, 1, j + 1) => Unmarked(t.tx, 1, j)
    <2> SUFFICES ASSUME NEW j \in 0 .. Len(t.tx),
                        Unmarked(s.tx, 1, j + 1), NEW k \in 1 .. j
                 PROVE  ~ Marker(t.tx[k])
      BY DEF Unmarked
    <2>1. k + 1 \in 1 .. (j + 1) /\ t.tx[k] = s.tx[k + 1]
      BY <1>1
    <2>2. QED BY <2>1 DEF Unmarked
  <1>4. \A d : (Clean(s, d) => Clean(t, d)) /\ (Field(s, d) => Field(t, d))
    BY DEF Behind, Clean, Field
  <1>5. QED BY <1>1, <1>2, <1>3, <1>4

\* The head leaves the queue: what remains is as ordered as before.
LEMMA TailOrder ==
  ASSUME NEW s, NEW t, NEW W, StreamOrder(s), HeldOrder(s), TxOrder(s, W),
         Behind(s, t), s.tx \in Seq(Frame), s.tx # <<>>
  PROVE  StreamOrder(t) /\ HeldOrder(t) /\ TxOrder(t, W)
  <1>1. StreamOrder(t) /\ HeldOrder(t)
    BY TailFacts DEF Behind, StreamOrder, HeldOrder
  <1>2. TxOrder(t, W)
    <2>0. /\ Len(s.tx) \in Nat \ {0} /\ Len(t.tx) = Len(s.tx) - 1
          /\ \A i \in 1 .. Len(t.tx) : i + 1 \in 1 .. Len(s.tx) /\ t.tx[i] = s.tx[i + 1]
      BY TailFacts
    <2>1. ASSUME NEW i \in 1 .. Len(t.tx), Info(t.tx[i]) PROVE Field(t, t.tx[i].data)
      <3>1. i + 1 \in 1 .. Len(s.tx) /\ t.tx[i] = s.tx[i + 1]
        BY <2>0
      <3>2. Field(s, t.tx[i].data)
        BY <2>1, <3>1 DEF TxOrder
      <3>3. QED BY <3>2, TailFacts
    <2>2. ASSUME NEW i \in 1 .. Len(t.tx), NEW j \in 1 .. Len(t.tx), i < j,
                 Info(t.tx[i]), Info(t.tx[j])
          PROVE  \/ Below(t.tx[i].data, t.tx[j].data)
                 \/ Unmarked(t.tx, i, j) /\ Sub(t.tx[i].ns, t.tx[j].ns) < W
      <3>1. /\ i + 1 < j + 1
            /\ i + 1 \in 1 .. Len(s.tx) /\ t.tx[i] = s.tx[i + 1]
            /\ j + 1 \in 1 .. Len(s.tx) /\ t.tx[j] = s.tx[j + 1]
        BY <2>0, <2>2
      <3>2. \/ Below(s.tx[i + 1].data, s.tx[j + 1].data)
            \/ /\ Unmarked(s.tx, i + 1, j + 1)
               /\ Sub(s.tx[i + 1].ns, s.tx[j + 1].ns) < W
        BY <2>2, <3>1 DEF TxOrder
      <3>3. QED BY <3>1, <3>2, TailFacts
    <2>3. ASSUME NEW i \in 1 .. Len(t.tx), NEW q \in t.held, Info(t.tx[i])
          PROVE  \/ Below(t.tx[i].data, t.unacked[q])
                 \/ Unmarked(t.tx, i, Len(t.tx)) /\ Sub(t.tx[i].ns, q) < W
      <3>1. Len(t.tx) \in 1 .. Len(t.tx) /\ Len(t.tx) + 1 = Len(s.tx)
        BY <2>0
      <3>2. q \in s.held /\ t.unacked[q] = s.unacked[q]
        BY DEF Behind
      <3>3. i + 1 \in 1 .. Len(s.tx) /\ t.tx[i] = s.tx[i + 1]
        BY <2>0
      <3>4. \/ Below(s.tx[i + 1].data, s.unacked[q])
            \/ Unmarked(s.tx, i + 1, Len(s.tx)) /\ Sub(s.tx[i + 1].ns, q) < W
        BY <2>3, <3>2, <3>3 DEF TxOrder
      <3>5. Unmarked(s.tx, i + 1, Len(s.tx)) => Unmarked(t.tx, i, Len(t.tx))
        <4>1. Unmarked(s.tx, i + 1, Len(t.tx) + 1) => Unmarked(t.tx, i, Len(t.tx))
          BY <3>1, TailFacts
        <4>2. QED BY <3>1, <4>1
      <3>6. QED BY <3>2, <3>3, <3>4, <3>5
    <2>4. QED BY <2>1, <2>2, <2>3 DEF TxOrder
  <1>3. QED BY <1>1, <1>2

\* The head is lost, or does not change what the other end has or expects.
LEMMA DropOrder ==
  ASSUME NEW s, NEW t, NEW W, NEW rx, NEW vr, Order(s, W, rx, vr),
         Behind(s, t), s.tx \in Seq(Frame), s.tx # <<>>
  PROVE  Order(t, W, rx, vr)
  <1>1. StreamOrder(t) /\ HeldOrder(t) /\ TxOrder(t, W)
    BY TailOrder DEF Order
  <1>2. RxOrder(t, W, rx, vr)
    <2>0. /\ Len(s.tx) \in Nat \ {0} /\ Len(t.tx) = Len(s.tx) - 1
          /\ \A i \in 1 .. Len(t.tx) : i + 1 \in 1 .. Len(s.tx) /\ t.tx[i] = s.tx[i + 1]
          /\ \A j \in 0 .. Len(t.tx) :
               Unmarked(s.tx, 1, j + 1) => Unmarked(t.tx, 1, j)
      BY TailFacts
    <2>1. Clean(t, rx)
      BY TailFacts DEF Order, RxOrder
    <2>2. ASSUME NEW i \in 1 .. Len(t.tx), Info(t.tx[i])
          PROVE  \/ Below(rx, t.tx[i].data)
                 \/ Unmarked(t.tx, 1, i) /\ Sub(vr, t.tx[i].ns) \in 1 .. W
      <3>1. i \in 0 .. Len(t.tx)
        OBVIOUS
      <3>2. QED BY <2>0, <2>2, <3>1 DEF Order, RxOrder
    <2>3. ASSUME NEW q \in t.held
          PROVE  \/ Below(rx, t.unacked[q])
                 \/ Unmarked(t.tx, 1, Len(t.tx)) /\ Sub(vr, q) \in 1 .. W
      <3>1. Len(t.tx) \in 0 .. Len(t.tx) /\ Len(t.tx) + 1 = Len(s.tx)
        BY <2>0
      <3>2. q \in s.held /\ t.unacked[q] = s.unacked[q]
        BY DEF Behind
      <3>3. QED BY <2>0, <3>1, <3>2 DEF Order, RxOrder
    <2>4. QED BY <2>1, <2>2, <2>3 DEF RxOrder
  <1>3. QED BY <1>1, <1>2 DEF Order

\* The head is a marker, after which the other end may expect any number.
LEMMA MarkerOrder ==
  ASSUME NEW s, NEW t, NEW W, NEW rx, NEW vr, NEW v, Order(s, W, rx, vr),
         Behind(s, t), s.tx \in Seq(Frame), s.tx # <<>>, Marker(Head(s.tx))
  PROVE  Order(t, W, rx, v)
  <1>1. StreamOrder(t) /\ HeldOrder(t) /\ TxOrder(t, W)
    BY TailOrder DEF Order
  <1>2. \A j \in 1 .. Len(s.tx) : ~ Unmarked(s.tx, 1, j)
    <2> SUFFICES ASSUME NEW j \in 1 .. Len(s.tx) PROVE ~ Unmarked(s.tx, 1, j)
      OBVIOUS
    <2>1. 1 \in 1 .. j /\ Head(s.tx) = s.tx[1]
      OBVIOUS
    <2>2. QED BY <2>1 DEF Unmarked
  <1>3. RxOrder(t, W, rx, v)
    <2>0. /\ Len(s.tx) \in Nat \ {0} /\ Len(t.tx) = Len(s.tx) - 1
          /\ \A i \in 1 .. Len(t.tx) : i + 1 \in 1 .. Len(s.tx) /\ t.tx[i] = s.tx[i + 1]
      BY TailFacts
    <2>1. Clean(t, rx)
      BY TailFacts DEF Order, RxOrder
    <2>2. \A i \in 1 .. Len(t.tx) : Info(t.tx[i]) => Below(rx, t.tx[i].data)
      BY <1>2, <2>0 DEF Order, RxOrder
    <2>3. \A q \in t.held : Below(rx, t.unacked[q])
      <3>1. Len(s.tx) \in 1 .. Len(s.tx)
        BY <2>0
      <3>2. QED BY <1>2, <3>1 DEF Order, RxOrder, Behind
    <2>4. QED BY <2>1, <2>2, <2>3 DEF RxOrder
  <1>4. QED BY <1>1, <1>3 DEF Order

\* A run above one part and above the other is above both together.
LEMMA BelowConcat ==
  ASSUME NEW a \in Octets, NEW b \in Octets, NEW d \in Octets
  PROVE  /\ Below(a, d) /\ Below(b, d) => Below(a \o b, d)
         /\ Below(d, a) /\ Below(d, b) => Below(d, a \o b)
         /\ \A n : UpTo(a, n) /\ UpTo(b, n) => UpTo(a \o b, n)
         /\ Ascends(a) /\ Ascends(b) /\ Below(a, b) => Ascends(a \o b)
  <1> DEFINE c == a \o b
  <1>1. /\ c \in Octets /\ Len(a) \in Nat /\ Len(b) \in Nat
        /\ Len(c) = Len(a) + Len(b)
        /\ \A i \in 1 .. Len(a) : c[i] = a[i]
        /\ \A i \in 1 .. Len(b) : c[Len(a) + i] = b[i]
        /\ \A i \in 1 .. Len(c) : i \in 1 .. Len(a) \/ i - Len(a) \in 1 .. Len(b)
    BY ConcatProperties DEF Octets
  <1>2. \A i \in 1 .. Len(c) : \/ i \in 1 .. Len(a) /\ c[i] = a[i]
                               \/ i - Len(a) \in 1 .. Len(b) /\ c[i] = b[i - Len(a)]
    <2> SUFFICES ASSUME NEW i \in 1 .. Len(c), i \notin 1 .. Len(a)
                 PROVE  i - Len(a) \in 1 .. Len(b) /\ c[i] = b[i - Len(a)]
      BY <1>1
    <2>1. i - Len(a) \in 1 .. Len(b) /\ i = Len(a) + (i - Len(a))
      BY <1>1
    <2>2. QED BY <1>1, <2>1
  <1> HIDE DEF c
  <1>3. Below(a, d) /\ Below(b, d) => Below(c, d)
    BY <1>2 DEF Below
  <1>4. Below(d, a) /\ Below(d, b) => Below(d, c)
    BY <1>2 DEF Below
  <1>5. \A n : UpTo(a, n) /\ UpTo(b, n) => UpTo(c, n)
    BY <1>2 DEF UpTo
  <1>6. ASSUME Ascends(a), Ascends(b), Below(a, b)
        PROVE  Ascends(c)
    <2> SUFFICES ASSUME NEW i \in 1 .. Len(c), NEW j \in 1 .. Len(c), i < j
                 PROVE  c[i] < c[j]
      BY DEF Ascends
    <2>1. CASE i \in 1 .. Len(a) /\ j \in 1 .. Len(a)
      BY <1>1, <1>6, <2>1 DEF Ascends
    <2>2. CASE i \in 1 .. Len(a) /\ j \notin 1 .. Len(a)
      BY <1>1, <1>2, <1>6, <2>2 DEF Below
    <2>3. CASE i \notin 1 .. Len(a)
      <3>1. /\ i - Len(a) \in 1 .. Len(b) /\ c[i] = b[i - Len(a)]
            /\ j - Len(a) \in 1 .. Len(b) /\ c[j] = b[j - Len(a)]
            /\ i - Len(a) < j - Len(a)
        BY <1>1, <1>2, <2>3
      <3>2. QED BY <1>6, <3>1 DEF Ascends
    <2>4. QED BY <2>1, <2>2, <2>3
  <1>7. QED BY <1>3, <1>4, <1>5, <1>6 DEF c

LEMMA OctetNat == ASSUME NEW q \in Octets, NEW k \in 1 .. Len(q) PROVE q[k] \in Nat
  BY DEF Octets

\* Below is transitive through a run that is not empty.
LEMMA BelowThrough ==
  ASSUME NEW a \in Octets, NEW b \in Octets, NEW d \in Octets, Len(b) > 0,
         Below(a, b), Below(b, d)
  PROVE  Below(a, d)
  <1> SUFFICES ASSUME NEW i \in 1 .. Len(a), NEW j \in 1 .. Len(d)
               PROVE  a[i] < d[j]
    BY DEF Below
  <1>0. 1 \in 1 .. Len(b)
    BY DEF Octets
  <1>1. a[i] \in Nat /\ b[1] \in Nat /\ d[j] \in Nat
    BY <1>0, OctetNat
  <1>2. a[i] < b[1] /\ b[1] < d[j]
    BY <1>0 DEF Below
  <1>3. QED BY <1>1, <1>2

\* The head is the frame expected: it is new, and what follows repeats it
\* only from less than the modulus behind.
LEMMA AcceptOrder ==
  ASSUME NEW s \in EndpointType, NEW t, NEW W \in 1 .. (Mod - 1),
         NEW rx \in Octets, NEW vr \in SeqNo,
         Order(s, W, rx, vr), Behind(s, t), s.tx # <<>>,
         Info(Head(s.tx)), Head(s.tx).ns = vr
  PROVE  Order(t, W, rx \o Head(s.tx).data, Add(vr, 1))
  <1> DEFINE f == s.tx[1]
             v == Add(vr, 1)
             both == rx \o f.data
  <1>0. /\ s.tx \in Seq(Frame) /\ Head(s.tx) = f /\ 1 \in 1 .. Len(s.tx) /\ f \in Frame
        /\ Len(s.tx) \in Nat
    BY DEF EndpointType
  <1>1. \A i \in 1 .. Len(s.tx) : Info(s.tx[i]) =>
            s.tx[i].ns \in SeqNo /\ s.tx[i].data \in Octets
    <2> SUFFICES ASSUME NEW i \in 1 .. Len(s.tx), Info(s.tx[i])
                 PROVE  s.tx[i].ns \in SeqNo /\ s.tx[i].data \in Octets
      OBVIOUS
    <2>1. s.tx[i] \in Frame
      BY <1>0
    <2>2. QED BY <2>1 DEF Frame, UFrame, XidFrame, SFrame, IFrame, Info
  <1>2. /\ StreamOrder(t) /\ HeldOrder(t) /\ TxOrder(t, W)
    BY <1>0, TailOrder DEF Order
  <1>3. /\ Len(t.tx) = Len(s.tx) - 1
        /\ \A i \in 1 .. Len(t.tx) : i + 1 \in 1 .. Len(s.tx) /\ t.tx[i] = s.tx[i + 1]
        /\ \A j \in 0 .. Len(t.tx) :
             Unmarked(s.tx, 1, j + 1) => Unmarked(t.tx, 1, j)
        /\ \A d : Clean(s, d) => Clean(t, d)
    BY <1>0, TailFacts
  <1>4. f.data \in Octets /\ Info(f) /\ Field(s, f.data)
    BY <1>0, <1>1 DEF Order, TxOrder
  <1>5. Below(rx, f.data)
    <2>1. Sub(vr, f.ns) = 0
      <3>1. f.ns = vr
        BY <1>0
      <3>2. QED BY <3>1, SubValue, SequenceAssumption DEF SeqNo
    <2>2. Below(rx, f.data) \/ Sub(vr, f.ns) \in 1 .. W
      BY <1>0, <1>4 DEF Order, RxOrder
    <2>3. QED BY <2>1, <2>2
  <1>6. \A q \in SeqNo : Sub(vr, q) < W => Sub(v, q) \in 1 .. W
    <2> SUFFICES ASSUME NEW q \in SeqNo, Sub(vr, q) < W
                 PROVE  Sub(v, q) \in 1 .. W
      OBVIOUS
    <2>1. Mod \in Nat /\ Mod > 1 /\ W \in Nat
      BY SequenceAssumption
    <2>2. v \in SeqNo /\ v = IF vr + 1 < Mod THEN vr + 1 ELSE vr + 1 - Mod
      BY <2>1, AddValue
    <2> HIDE DEF v
    <2>3. /\ Sub(v, q) = IF v >= q THEN v - q ELSE v - q + Mod
          /\ Sub(vr, q) = IF vr >= q THEN vr - q ELSE vr - q + Mod
      BY <2>2, SubValue
    <2>4. QED BY <2>1, <2>2, <2>3 DEF SeqNo
  <1> HIDE DEF f, v
  <1>7. Clean(t, both)
    <2>1. Clean(s, rx) /\ Clean(s, f.data)
      BY <1>4 DEF Order, RxOrder, Field
    <2>2. s.tx_transfer \in Octets /\ s.tx_stream \in Octets
      BY DEF EndpointType
    <2>3. Clean(s, both)
      BY <1>4, <1>5, <2>1, <2>2, BelowConcat DEF Clean
    <2>4. QED BY <1>3, <2>3
  \* The case analysis, for a frame under way or held.
  <1>8. ASSUME NEW d \in Octets, NEW q \in SeqNo, NEW j \in 0 .. Len(t.tx),
               \/ Below(rx, d)
               \/ Unmarked(s.tx, 1, j + 1) /\ Sub(vr, q) \in 1 .. W,
               \/ Below(f.data, d)
               \/ Unmarked(s.tx, 1, j + 1) /\ Sub(f.ns, q) < W
        PROVE  \/ Below(both, d)
               \/ Unmarked(t.tx, 1, j) /\ Sub(v, q) \in 1 .. W
    <2>1. CASE Below(f.data, d)
      <3>1. Below(rx, d)
        BY <1>4, <1>5, <2>1, BelowThrough DEF Field
      <3>2. QED BY <1>4, <2>1, <3>1, BelowConcat
    <2>2. CASE Unmarked(s.tx, 1, j + 1) /\ Sub(f.ns, q) < W
      <3>1. f.ns = vr
        BY <1>0
      <3>2. QED BY <1>3, <1>6, <2>2, <3>1
    <2>3. QED BY <1>8, <2>1, <2>2
  <1>9. RxOrder(t, W, both, v)
    <2>2. ASSUME NEW i \in 1 .. Len(t.tx), Info(t.tx[i])
          PROVE  \/ Below(both, t.tx[i].data)
                 \/ Unmarked(t.tx, 1, i) /\ Sub(v, t.tx[i].ns) \in 1 .. W
      <3> DEFINE g == s.tx[i + 1]
      <3>1. /\ i + 1 \in 1 .. Len(s.tx) /\ t.tx[i] = g /\ 1 < i + 1 /\ i \in 0 .. Len(t.tx)
            /\ Info(g) /\ g.ns \in SeqNo /\ g.data \in Octets
        BY <1>0, <1>1, <1>3, <2>2
      <3>2. \/ Below(rx, g.data)
            \/ Unmarked(s.tx, 1, i + 1) /\ Sub(vr, g.ns) \in 1 .. W
        BY <3>1 DEF Order, RxOrder
      <3>3. \/ Below(f.data, g.data)
            \/ Unmarked(s.tx, 1, i + 1) /\ Sub(f.ns, g.ns) < W
        BY <1>0, <1>4, <3>1 DEF Order, TxOrder, f
      <3> HIDE DEF g
      <3>4. QED BY <1>8, <3>1, <3>2, <3>3
    <2>3. ASSUME NEW q \in t.held
          PROVE  \/ Below(both, t.unacked[q])
                 \/ Unmarked(t.tx, 1, Len(t.tx)) /\ Sub(v, q) \in 1 .. W
      <3>1. /\ q \in s.held /\ t.unacked[q] = s.unacked[q] /\ q \in SeqNo
            /\ s.unacked[q] \in Octets
        BY DEF Behind, EndpointType
      <3>2. Len(t.tx) \in 0 .. Len(t.tx) /\ Len(t.tx) + 1 = Len(s.tx)
        BY <1>0, <1>3
      <3>3. \/ Below(rx, s.unacked[q])
            \/ Unmarked(s.tx, 1, Len(t.tx) + 1) /\ Sub(vr, q) \in 1 .. W
        BY <3>1, <3>2 DEF Order, RxOrder
      <3>4. \/ Below(f.data, s.unacked[q])
            \/ Unmarked(s.tx, 1, Len(t.tx) + 1) /\ Sub(f.ns, q) < W
        BY <1>0, <1>4, <3>1, <3>2 DEF Order, TxOrder, f
      <3>5. QED BY <1>8, <3>1, <3>2, <3>3, <3>4
    <2>4. QED BY <1>7, <2>2, <2>3 DEF RxOrder
  <1>10. QED BY <1>0, <1>2, <1>9 DEF Order, v

\* line_disturbed() drops the queue from some frame on.
LEMMA ShortenOrder ==
  ASSUME NEW s, NEW t, NEW W, NEW rx, NEW vr, Order(s, W, rx, vr),
         s.tx \in Seq(Frame), NEW n \in 0 .. Len(s.tx),
         t.tx = SubSeq(s.tx, 1, n), t.sent = s.sent,
         t.tx_transfer = s.tx_transfer, t.tx_stream = s.tx_stream,
         t.codec = s.codec, t.held = s.held, t.unacked = s.unacked, t.va = s.va
  PROVE  Order(t, W, rx, vr)
  <1>0. /\ Len(s.tx) \in Nat /\ Len(t.tx) = n
        /\ \A i \in 1 .. n : t.tx[i] = s.tx[i] /\ i \in 1 .. Len(s.tx)
    BY SubSeqProperties
  <1>1. \A d : (Clean(s, d) => Clean(t, d)) /\ (Field(s, d) => Field(t, d))
    BY DEF Clean, Field
  <1>2. StreamOrder(t) /\ HeldOrder(t)
    BY <1>1 DEF Order, StreamOrder, HeldOrder
  <1>3. \A i \in 1 .. (n + 1), j \in 0 .. n : Unmarked(s.tx, i, j) => Unmarked(t.tx, i, j)
    BY <1>0 DEF Unmarked
  <1>4. \A i \in 1 .. (n + 1) : Unmarked(s.tx, i, Len(s.tx)) => Unmarked(t.tx, i, n)
    BY <1>0 DEF Unmarked
  <1>5. TxOrder(t, W)
    <2>1. \A i \in 1 .. Len(t.tx) : Info(t.tx[i]) => Field(t, t.tx[i].data)
      BY <1>0, <1>1 DEF Order, TxOrder
    <2>2. ASSUME NEW i \in 1 .. Len(t.tx), NEW j \in 1 .. Len(t.tx), i < j,
                 Info(t.tx[i]), Info(t.tx[j])
          PROVE  \/ Below(t.tx[i].data, t.tx[j].data)
                 \/ Unmarked(t.tx, i, j) /\ Sub(t.tx[i].ns, t.tx[j].ns) < W
      BY <1>0, <1>3, <2>2 DEF Order, TxOrder
    <2>3. ASSUME NEW i \in 1 .. Len(t.tx), NEW q \in t.held, Info(t.tx[i])
          PROVE  \/ Below(t.tx[i].data, t.unacked[q])
                 \/ Unmarked(t.tx, i, Len(t.tx)) /\ Sub(t.tx[i].ns, q) < W
      BY <1>0, <1>4, <2>3 DEF Order, TxOrder
    <2>4. QED BY <2>1, <2>2, <2>3 DEF TxOrder
  <1>6. RxOrder(t, W, rx, vr)
    <2>1. Clean(t, rx)
      BY <1>1 DEF Order, RxOrder
    <2>2. ASSUME NEW i \in 1 .. Len(t.tx), Info(t.tx[i])
          PROVE  \/ Below(rx, t.tx[i].data)
                 \/ Unmarked(t.tx, 1, i) /\ Sub(vr, t.tx[i].ns) \in 1 .. W
      <3>1. 1 \in 1 .. (n + 1) /\ i \in 0 .. n
        BY <1>0
      <3>2. QED BY <1>0, <1>3, <2>2, <3>1 DEF Order, RxOrder
    <2>3. ASSUME NEW q \in t.held
          PROVE  \/ Below(rx, t.unacked[q])
                 \/ Unmarked(t.tx, 1, Len(t.tx)) /\ Sub(vr, q) \in 1 .. W
      <3>1. 1 \in 1 .. (n + 1)
        OBVIOUS
      <3>2. QED BY <1>0, <1>4, <2>3, <3>1 DEF Order, RxOrder
    <2>4. QED BY <2>1, <2>2, <2>3 DEF RxOrder
  <1>7. QED BY <1>2, <1>5, <1>6 DEF Order

\* send(): the next octet is above everything sent before.
LEMMA SendOrder ==
  ASSUME NEW s \in EndpointType, NEW t, NEW W, NEW rx \in Octets, NEW vr,
         Order(s, W, rx, vr),
         t.tx = s.tx, t.sent = s.sent + 1,
         t.tx_stream = Append(s.tx_stream, s.sent + 1),
         t.tx_transfer = s.tx_transfer,
         t.codec = s.codec, t.held = s.held, t.unacked = s.unacked, t.va = s.va
  PROVE  Order(t, W, rx, vr)
  <1> DEFINE n == Len(s.tx_stream)
  <1>0. /\ s.sent \in Nat /\ s.tx_stream \in Octets /\ s.tx_transfer \in Octets
        /\ n \in Nat
    BY DEF EndpointType, Octets
  <1>1. /\ Len(t.tx_stream) = n + 1 /\ t.tx_stream[n + 1] = s.sent + 1
        /\ \A i \in 1 .. n : t.tx_stream[i] = s.tx_stream[i]
    BY <1>0 DEF Octets
  <1>2. \A i \in 1 .. Len(t.tx_stream) :
           \/ i \in 1 .. n /\ t.tx_stream[i] = s.tx_stream[i]
           \/ i = n + 1 /\ t.tx_stream[i] = s.sent + 1
    BY <1>0, <1>1
  <1> HIDE DEF n
  <1>3. ASSUME NEW d \in Octets, UpTo(d, s.sent)
        PROVE  /\ UpTo(d, t.sent)
               /\ Below(d, s.tx_stream) => Below(d, t.tx_stream)
    <2>1. \A i \in 1 .. Len(d) : d[i] \in 1 .. s.sent /\ d[i] \in 1 .. (s.sent + 1)
            /\ d[i] < s.sent + 1
      BY <1>0, <1>3 DEF UpTo
    <2>2. UpTo(d, t.sent)
      BY <2>1 DEF UpTo
    <2>3. ASSUME Below(d, s.tx_stream) PROVE Below(d, t.tx_stream)
      BY <1>2, <2>1, <2>3 DEF Below, n
    <2>4. QED BY <2>2, <2>3
  <1>4. \A d \in Octets : /\ Clean(s, d) => Clean(t, d)
                          /\ Field(s, d) => Field(t, d)
    BY <1>3 DEF Clean, Field
  <1>5. StreamOrder(t)
    <2>1. UpTo(s.tx_stream, s.sent) /\ Ascends(s.tx_stream)
      BY DEF Order, StreamOrder
    <2>2. UpTo(t.tx_stream, t.sent)
      <3>1. \A i \in 1 .. n : s.tx_stream[i] \in 1 .. (s.sent + 1)
        BY <1>0, <2>1 DEF UpTo, n
      <3>2. s.sent + 1 \in 1 .. (s.sent + 1)
        BY <1>0
      <3>3. QED BY <1>2, <3>1, <3>2 DEF UpTo
    <2>3. Ascends(t.tx_stream)
      <3> SUFFICES ASSUME NEW i \in 1 .. Len(t.tx_stream),
                          NEW j \in 1 .. Len(t.tx_stream), i < j
                   PROVE  t.tx_stream[i] < t.tx_stream[j]
        BY DEF Ascends
      <3>1. i \in 1 .. n /\ t.tx_stream[i] = s.tx_stream[i]
        BY <1>0, <1>1, <1>2
      <3>2. s.tx_stream[i] \in 1 .. s.sent
        BY <2>1, <3>1 DEF UpTo, n
      <3>3. CASE j \in 1 .. n
        BY <1>1, <2>1, <3>1, <3>3 DEF Ascends, n
      <3>4. CASE j = n + 1
        BY <1>0, <1>1, <3>1, <3>2, <3>4
      <3>5. QED BY <1>2, <3>3, <3>4
    <2>4. QED BY <1>0, <1>3, <2>2, <2>3 DEF Order, StreamOrder
  <1>6. HeldOrder(t)
    <2>1. \A q \in s.held : s.unacked[q] \in Octets
      BY DEF EndpointType
    <2>2. QED BY <1>4, <2>1 DEF Order, HeldOrder
  <1>7. TxOrder(t, W)
    <2>1. \A i \in 1 .. Len(s.tx) : Info(s.tx[i]) => s.tx[i].data \in Octets
      <3> SUFFICES ASSUME NEW i \in 1 .. Len(s.tx), Info(s.tx[i])
                   PROVE  s.tx[i].data \in Octets
        OBVIOUS
      <3>1. s.tx[i] \in Frame
        BY DEF EndpointType
      <3>2. QED BY <3>1 DEF Frame, UFrame, XidFrame, SFrame, IFrame, Info
    <2>2. QED BY <1>4, <2>1 DEF Order, TxOrder
  <1>8. RxOrder(t, W, rx, vr)
    BY <1>4 DEF Order, RxOrder
  <1>9. QED BY <1>5, <1>6, <1>7, <1>8 DEF Order

\* Of two held frames the distance is less than the window.
LEMMA HeldDistance ==
  ASSUME NEW e \in Endpoints, NEW s, EndpointOK(e, s), NEW q \in s.held,
         NEW r \in s.held
  PROVE  /\ Sub(q, s.va) \in Nat /\ Sub(r, s.va) \in Nat
         /\ Sub(q, s.va) <= Sub(r, s.va) => Sub(r, q) < Window[e]
  <1>1. /\ q \in SeqNo /\ r \in SeqNo /\ s.va \in SeqNo /\ s.vs \in SeqNo
        /\ Sub(q, s.va) < Outstanding(s) /\ Sub(r, s.va) < Outstanding(s)
        /\ Outstanding(s) <= Window[e]
    BY DEF EndpointOK, WindowOK, EndpointType
  <1>2. Mod \in Nat /\ Window[e] \in 1 .. (Mod - 1)
    BY SequenceAssumption
  <1>3. /\ Sub(q, s.va) = Distance(q, s.va, Mod) /\ Sub(r, s.va) = Distance(r, s.va, Mod)
        /\ Sub(r, q) = Distance(r, q, Mod) /\ Outstanding(s) \in SeqNo
    BY <1>1, SubIsDistance DEF Outstanding
  <1>4. QED BY <1>1, <1>2, <1>3 DEF Distance, SeqNo

\* Frames held are sent, or sent again, in the order of their numbers.
LEMMA CopiesOrder ==
  ASSUME NEW e \in Endpoints, NEW s, EndpointOK(e, s), NEW t,
         NEW rx, NEW vr, Order(s, Window[e], rx, vr),
         NEW new \in Seq(Frame), t.tx = s.tx \o new,
         \A i \in 1 .. Len(new) : /\ Info(new[i]) /\ new[i].ns \in s.held
                                  /\ new[i].data = s.unacked[new[i].ns],
         \A i, j \in 1 .. Len(new) :
           i < j => Sub(new[i].ns, s.va) < Sub(new[j].ns, s.va),
         t.sent = s.sent,
         t.tx_transfer = s.tx_transfer, t.tx_stream = s.tx_stream,
         t.codec = s.codec, t.held = s.held, t.unacked = s.unacked, t.va = s.va
  PROVE  Order(t, Window[e], rx, vr)
  <1> DEFINE n == Len(s.tx)
             W == Window[e]
  <1>0. /\ n \in Nat /\ Len(new) \in Nat /\ Len(t.tx) = n + Len(new)
        /\ s.tx \in Seq(Frame)
        /\ \A i \in 1 .. n : t.tx[i] = s.tx[i] /\ i \in 1 .. Len(t.tx)
        /\ \A i \in 1 .. Len(new) : t.tx[n + i] = new[i]
    BY ConcatProperties DEF EndpointOK, EndpointType
  <1>1. \A i \in 1 .. Len(t.tx) :
           \/ i \in 1 .. n /\ t.tx[i] = s.tx[i]
           \/ i > n /\ i - n \in 1 .. Len(new) /\ t.tx[i] = new[i - n]
    <2> SUFFICES ASSUME NEW i \in 1 .. Len(t.tx), i \notin 1 .. n
                 PROVE  i > n /\ i - n \in 1 .. Len(new) /\ t.tx[i] = new[i - n]
      BY <1>0
    <2>1. i > n /\ i - n \in 1 .. Len(new) /\ i = n + (i - n)
      BY <1>0
    <2>2. QED BY <1>0, <2>1
  <1>2. \A d : (Clean(s, d) => Clean(t, d)) /\ (Field(s, d) => Field(t, d))
    BY DEF Clean, Field
  <1>3. StreamOrder(t) /\ HeldOrder(t)
    BY <1>2 DEF Order, StreamOrder, HeldOrder
  <1>c. ASSUME NEW i \in 1 .. Len(t.tx), i > n
        PROVE  t.tx[i].ns \in s.held /\ t.tx[i].data = s.unacked[t.tx[i].ns]
    <2> DEFINE j == i - n
    <2>1. j \in 1 .. Len(new) /\ t.tx[i] = new[j]
      BY <1>0, <1>1, <1>c
    <2> HIDE DEF j
    <2>2. QED BY <2>1
  <1>4. \A k \in 1 .. Len(t.tx) : k > n => Info(t.tx[k]) /\ ~ Marker(t.tx[k])
    <2> SUFFICES ASSUME NEW k \in 1 .. Len(t.tx), k > n
                 PROVE  Info(t.tx[k]) /\ ~ Marker(t.tx[k])
      OBVIOUS
    <2> DEFINE j == k - n
    <2>1. j \in 1 .. Len(new) /\ t.tx[k] = new[j]
      BY <1>0, <1>1
    <2> HIDE DEF j
    <2>2. Info(new[j])
      BY <2>1
    <2>3. QED BY <2>1, <2>2 DEF Info, Marker
  <1> HIDE DEF n
  <1>5. \A i \in 1 .. Len(t.tx), j \in 0 .. Len(t.tx) :
           Unmarked(s.tx, i, n) => Unmarked(t.tx, i, j)
    BY <1>0, <1>4 DEF Unmarked
  <1>5a. \A j \in 0 .. Len(t.tx) : Unmarked(s.tx, 1, n) => Unmarked(t.tx, 1, j)
    BY <1>0, <1>4 DEF Unmarked
  <1>6. \A i, j \in 1 .. n : Unmarked(s.tx, i, j) => Unmarked(t.tx, i, j)
    BY <1>0 DEF Unmarked
  <1>7. \A i, j \in 1 .. Len(t.tx) : i > n => Unmarked(t.tx, i, j)
    BY <1>0, <1>4 DEF Unmarked
  <1>8. \A i \in 1 .. Len(t.tx), q \in s.held : Info(t.tx[i]) =>
           \/ Below(t.tx[i].data, s.unacked[q])
           \/ Unmarked(t.tx, i, Len(t.tx)) /\ Sub(t.tx[i].ns, q) < W
    <2> SUFFICES ASSUME NEW i \in 1 .. Len(t.tx), NEW q \in s.held, Info(t.tx[i])
                 PROVE  \/ Below(t.tx[i].data, s.unacked[q])
                        \/ Unmarked(t.tx, i, Len(t.tx)) /\ Sub(t.tx[i].ns, q) < W
      OBVIOUS
    <2>1. Len(t.tx) \in 0 .. Len(t.tx) /\ Len(t.tx) \in 1 .. Len(t.tx)
      BY <1>0
    <2>2. CASE i \in 1 .. n
      <3>1. \/ Below(s.tx[i].data, s.unacked[q])
            \/ Unmarked(s.tx, i, n) /\ Sub(s.tx[i].ns, q) < W
        BY <1>0, <2>2 DEF Order, TxOrder, n
      <3>2. QED BY <1>0, <1>5, <2>1, <2>2, <3>1
    <2>3. CASE i > n
      <3> DEFINE r == t.tx[i].ns
      <3>1. r \in s.held /\ t.tx[i].data = s.unacked[r]
        BY <1>c, <2>3
      <3>2. /\ Sub(q, s.va) \in Nat /\ Sub(r, s.va) \in Nat
            /\ Sub(q, s.va) <= Sub(r, s.va) => Sub(r, q) < W
        BY <3>1, HeldDistance
      <3>3. Sub(r, s.va) < Sub(q, s.va) => Below(s.unacked[r], s.unacked[q])
        BY <3>1 DEF Order, HeldOrder
      <3> HIDE DEF r
      <3>4. Below(s.unacked[r], s.unacked[q]) \/ Sub(r, q) < W
        BY <3>2, <3>3
      <3>5. QED BY <1>7, <2>1, <2>3, <3>1, <3>4 DEF r
    <2>4. QED BY <1>1, <2>2, <2>3
  <1>9. TxOrder(t, W)
    <2>1. ASSUME NEW i \in 1 .. Len(t.tx), Info(t.tx[i])
          PROVE  Field(t, t.tx[i].data)
      <3>1. CASE i \in 1 .. n
        BY <1>0, <1>2, <2>1, <3>1 DEF Order, TxOrder, n
      <3>2. CASE i > n
        BY <1>2, <1>c, <3>2 DEF Order, HeldOrder
      <3>3. QED BY <1>1, <3>1, <3>2
    <2>2. ASSUME NEW i \in 1 .. Len(t.tx), NEW j \in 1 .. Len(t.tx), i < j,
                 Info(t.tx[i]), Info(t.tx[j])
          PROVE  \/ Below(t.tx[i].data, t.tx[j].data)
                 \/ Unmarked(t.tx, i, j) /\ Sub(t.tx[i].ns, t.tx[j].ns) < W
      <3>1. CASE j \in 1 .. n
        <4>1. i \in 1 .. n
          BY <1>0, <2>2, <3>1
        <4>2. QED BY <1>0, <1>6, <2>2, <3>1, <4>1 DEF Order, TxOrder, n
      <3>2. CASE i \in 1 .. n /\ j > n
        <4> DEFINE q == t.tx[j].ns
        <4>1. q \in s.held /\ t.tx[j].data = s.unacked[q]
          BY <1>c, <3>2
        <4> HIDE DEF q
        <4>2. \/ Below(s.tx[i].data, s.unacked[q])
              \/ Unmarked(s.tx, i, n) /\ Sub(s.tx[i].ns, q) < W
          BY <1>0, <2>2, <3>2, <4>1 DEF Order, TxOrder, n
        <4>3. j \in 0 .. Len(t.tx)
          BY <1>0
        <4>4. QED BY <1>0, <1>5, <3>2, <4>1, <4>2, <4>3 DEF q
      <3>3. CASE i > n /\ j > n
        <4>1. /\ i - n \in 1 .. Len(new) /\ j - n \in 1 .. Len(new)
              /\ i - n < j - n
              /\ t.tx[i] = new[i - n] /\ t.tx[j] = new[j - n]
          BY <1>0, <1>1, <2>2, <3>3
        <4>2. Sub(t.tx[i].ns, s.va) < Sub(t.tx[j].ns, s.va)
          BY <4>1
        <4>3. Below(t.tx[i].data, t.tx[j].data)
          BY <4>1, <4>2 DEF Order, HeldOrder
        <4>4. QED BY <4>3
      <3>4. QED BY <1>0, <1>1, <2>2, <3>1, <3>2, <3>3
    <2>3. QED BY <1>8, <2>1, <2>2 DEF TxOrder
  <1>10. RxOrder(t, W, rx, vr)
    <2>1. Clean(t, rx)
      BY <1>2 DEF Order, RxOrder
    <2>2. ASSUME NEW q \in s.held, NEW j \in 0 .. Len(t.tx)
          PROVE  \/ Below(rx, s.unacked[q])
                 \/ Unmarked(t.tx, 1, j) /\ Sub(vr, q) \in 1 .. W
      <3>1. \/ Below(rx, s.unacked[q])
            \/ Unmarked(s.tx, 1, n) /\ Sub(vr, q) \in 1 .. W
        BY <2>2 DEF Order, RxOrder, n
      <3>2. QED BY <1>5a, <3>1
    <2>3. ASSUME NEW i \in 1 .. Len(t.tx), Info(t.tx[i])
          PROVE  \/ Below(rx, t.tx[i].data)
                 \/ Unmarked(t.tx, 1, i) /\ Sub(vr, t.tx[i].ns) \in 1 .. W
      <3>1. CASE i \in 1 .. n
        <4>1. 1 \in 1 .. n
          BY <1>0, <3>1
        <4>2. QED BY <1>0, <1>6, <2>3, <3>1, <4>1 DEF Order, RxOrder, n
      <3>2. CASE i > n
        <4>1. t.tx[i].ns \in s.held /\ t.tx[i].data = s.unacked[t.tx[i].ns]
          BY <1>c, <3>2
        <4>2. i \in 0 .. Len(t.tx)
          BY <1>0
        <4>3. QED BY <2>2, <4>1, <4>2
      <3>3. QED BY <1>1, <3>1, <3>2
    <2>4. Len(t.tx) \in 0 .. Len(t.tx)
      BY <1>0
    <2>5. QED BY <2>1, <2>2, <2>3, <2>4 DEF RxOrder
  <1>11. QED BY <1>3, <1>9, <1>10 DEF Order

-----------------------------------------------------------------------------
(* _fill_window.                                                            *)

\* A slice of an ascending run ascends, and lies where the run does.
LEMMA SliceOrder ==
  ASSUME NEW src \in Octets, Ascends(src), NEW a \in Nat \ {0}, NEW b \in Nat,
         b <= Len(src)
  PROVE  /\ SubSeq(src, a, b) \in Octets
         /\ Ascends(SubSeq(src, a, b))
         /\ a <= b => Len(SubSeq(src, a, b)) > 0
         /\ \A n : UpTo(src, n) => UpTo(SubSeq(src, a, b), n)
         /\ \A d : Below(d, src) => Below(d, SubSeq(src, a, b))
         /\ \A c \in Nat \ {0}, f \in Nat :
              b < c /\ f <= Len(src) => Below(SubSeq(src, a, b), SubSeq(src, c, f))
  <1>0. src \in Seq(Nat) /\ Len(src) \in Nat
    BY DEF Octets
  <1>1. \A c \in Nat \ {0}, f \in Nat : f <= Len(src) =>
          /\ SubSeq(src, c, f) \in Octets
          /\ Len(SubSeq(src, c, f)) = IF c <= f THEN f - c + 1 ELSE 0
          /\ \A i \in 1 .. Len(SubSeq(src, c, f)) :
               /\ c + i - 1 \in 1 .. Len(src) /\ c + i - 1 >= c /\ c + i - 1 <= f
               /\ SubSeq(src, c, f)[i] = src[c + i - 1]
    <2>1. ASSUME NEW c \in Nat \ {0}, NEW f \in Nat, f <= Len(src)
          PROVE  /\ SubSeq(src, c, f) \in Octets
                 /\ Len(SubSeq(src, c, f)) = IF c <= f THEN f - c + 1 ELSE 0
      <3>1. SubSeq(src, c, f) \in Octets
        BY <1>0, <2>1, SliceOK DEF Octets
      <3>2. Len(SubSeq(src, c, f)) = IF c <= f THEN f - c + 1 ELSE 0
        BY <1>0, <2>1
      <3>3. QED BY <3>1, <3>2
    <2>2. ASSUME NEW c \in Nat \ {0}, NEW f \in Nat, f <= Len(src),
                 NEW i \in 1 .. Len(SubSeq(src, c, f))
          PROVE  /\ c + i - 1 \in 1 .. Len(src) /\ c + i - 1 >= c /\ c + i - 1 <= f
                 /\ SubSeq(src, c, f)[i] = src[c + i - 1]
      <3>1. c <= f /\ i \in 1 .. (f - c + 1)
        BY <2>1, <2>2
      <3>2. QED BY <1>0, <2>2, <3>1
    <2>3. QED BY <2>1, <2>2
  <1>2. \A c \in Nat \ {0}, f \in Nat :
           b < c /\ f <= Len(src) => Below(SubSeq(src, a, b), SubSeq(src, c, f))
    <2> SUFFICES ASSUME NEW c \in Nat \ {0}, NEW f \in Nat, b < c, f <= Len(src),
                        NEW i \in 1 .. Len(SubSeq(src, a, b)),
                        NEW j \in 1 .. Len(SubSeq(src, c, f))
                 PROVE  SubSeq(src, a, b)[i] < SubSeq(src, c, f)[j]
      BY DEF Below
    <2>1. /\ a + i - 1 \in 1 .. Len(src) /\ a + i - 1 <= b
          /\ SubSeq(src, a, b)[i] = src[a + i - 1]
      BY <1>1
    <2>2. /\ c + j - 1 \in 1 .. Len(src) /\ c + j - 1 >= c
          /\ SubSeq(src, c, f)[j] = src[c + j - 1]
      BY <1>1
    <2>3. a + i - 1 < c + j - 1
      BY <2>1, <2>2
    <2>4. QED BY <2>1, <2>2, <2>3 DEF Ascends
  <1> DEFINE t == SubSeq(src, a, b)
  <1>3. /\ t \in Octets /\ Len(t) = IF a <= b THEN b - a + 1 ELSE 0
        /\ \A i \in 1 .. Len(t) : a + i - 1 \in 1 .. Len(src) /\ t[i] = src[a + i - 1]
    BY <1>1
  <1> HIDE DEF t
  <1>4. Ascends(t)
    <2> SUFFICES ASSUME NEW i \in 1 .. Len(t), NEW j \in 1 .. Len(t), i < j
                 PROVE  t[i] < t[j]
      BY DEF Ascends
    <2>1. a + i - 1 < a + j - 1
      BY <1>3
    <2>2. QED BY <1>3, <2>1 DEF Ascends
  <1>5. /\ \A n : UpTo(src, n) => UpTo(t, n)
        /\ \A d : Below(d, src) => Below(d, t)
    BY <1>3 DEF UpTo, Below
  <1>6. a <= b => Len(t) > 0
    BY <1>3
  <1>7. QED BY <1>2, <1>3, <1>4, <1>5, <1>6 DEF t

LEMMA ProductGrows ==
  ASSUME NEW a \in Nat, NEW b \in Nat, NEW k \in Nat, a <= b
  PROVE  a * k <= b * k
  <1>1. b - a \in Nat /\ b = a + (b - a)
    OBVIOUS
  <1>2. (b - a) * k \in Nat
    BY <1>1, ProductNat
  <1>3. b * k = a * k + (b - a) * k
    BY <1>1
  <1>4. a * k \in Nat /\ b * k \in Nat
    BY ProductNat
  <1>5. QED BY <1>2, <1>3, <1>4

LEMMA DivideBelow ==
  ASSUME NEW a \in Nat, NEW k \in Nat \ {0}, NEW i \in Nat, i <= a \div k
  PROVE  i * k <= a
  <1>1. a \div k \in Nat /\ (a \div k) * k <= a
    OBVIOUS
  <1>2. i * k <= (a \div k) * k
    BY <1>1, ProductGrows
  <1>3. i * k \in Nat /\ (a \div k) * k \in Nat
    BY <1>1, ProductNat
  <1>4. QED BY <1>1, <1>2, <1>3

\* The fields _fill_window cuts are not empty, and in the order of the stream.
LEMMA ChunksOrder ==
  ASSUME NEW s \in EndpointType, Ascends(Source(s))
  PROVE  LET n == Fitting(s)
             src == Source(s)
             rest == SubSeq(src, Smaller(n * s.n401, Len(src)) + 1, Len(src))
         IN  /\ \A i \in 1 .. n :
                  /\ Chunk(s, i) \in Octets
                  /\ Ascends(Chunk(s, i)) /\ Len(Chunk(s, i)) > 0
                  /\ \A m : UpTo(src, m) => UpTo(Chunk(s, i), m)
                  /\ \A d : Below(d, src) => Below(d, Chunk(s, i))
                  /\ Below(Chunk(s, i), rest)
             /\ \A i, j \in 1 .. n : i < j => Below(Chunk(s, i), Chunk(s, j))
             /\ rest \in Octets /\ Ascends(rest)
             /\ \A m : UpTo(src, m) => UpTo(rest, m)
             /\ \A d : Below(d, src) => Below(d, rest)
  <1> DEFINE n == Fitting(s)
             src == Source(s)
             k == s.n401
             len == Len(src)
             cut(i) == Smaller(i * k, len)
             rest == SubSeq(src, cut(n) + 1, len)
  <1>1. /\ src \in Octets /\ len \in Nat /\ k \in Nat \ {0} /\ n \in Nat
    <2>1. k \in Nat \ {0}
      BY DEF EndpointType
    <2>2. src \in Octets
      BY SourceOK DEF Octets
    <2>3. n \in Nat
      BY FittingOK
    <2>4. QED BY <2>1, <2>2, <2>3 DEF Octets
  <1>2. \A i \in 1 .. n : (i - 1) * k + 1 <= len
    <2> SUFFICES ASSUME NEW i \in 1 .. n PROVE (i - 1) * k + 1 <= len
      OBVIOUS
    <2>1. n > 0
      BY <1>1
    <2> DEFINE room == s.window - Outstanding(s)
    <2>2. ~ (room <= 0 \/ len = 0) /\ n = Smaller(room, ((len - 1) \div k) + 1)
      BY <2>1 DEF Fitting
    <2>3. Outstanding(s) \in Int /\ s.window \in Int
      BY SubIsDistance, SequenceAssumption DEF Outstanding, EndpointType, SeqNo
    <2> HIDE DEF len, k, src, n
    <2>4. len - 1 \in Nat /\ (len - 1) \div k \in Nat
      BY <1>1, <2>2, DivideNat
    <2>5. n <= ((len - 1) \div k) + 1
      BY <1>1, <2>2, <2>3, <2>4 DEF Smaller
    <2>6. i - 1 \in Nat /\ i - 1 <= (len - 1) \div k
      BY <1>1, <2>4, <2>5
    <2>7. (i - 1) * k <= len - 1 /\ (i - 1) * k \in Nat
      BY <1>1, <2>4, <2>6, DivideBelow, ProductNat
    <2>8. QED BY <1>1, <2>7
  <1>3. \A i \in 1 .. n : Chunk(s, i) = SubSeq(src, (i - 1) * k + 1, cut(i))
    BY DEF Chunk
  <1>d. Ascends(src)
    OBVIOUS
  <1> HIDE DEF n, src, k, len
  <1>4. \A i \in Nat : i * k \in Nat /\ cut(i) \in Nat /\ cut(i) <= len /\ cut(i) <= i * k
    <2> SUFFICES ASSUME NEW i \in Nat
                 PROVE  i * k \in Nat /\ cut(i) \in Nat /\ cut(i) <= len /\ cut(i) <= i * k
      OBVIOUS
    <2>1. i * k \in Nat
      BY <1>1, ProductNat
    <2>2. QED BY <1>1, <2>1 DEF Smaller
  <1>5. \A i \in 1 .. n : /\ i \in Nat /\ i - 1 \in Nat
                          /\ (i - 1) * k + 1 \in Nat \ {0}
                          /\ (i - 1) * k + 1 <= cut(i)
                          /\ cut(i) <= cut(n)
    <2> SUFFICES ASSUME NEW i \in 1 .. n
                 PROVE  /\ i \in Nat /\ i - 1 \in Nat
                        /\ (i - 1) * k + 1 \in Nat \ {0}
                        /\ (i - 1) * k + 1 <= cut(i)
                        /\ cut(i) <= cut(n)
      OBVIOUS
    <2>1. i \in Nat /\ i - 1 \in Nat /\ i <= n
      BY <1>1
    <2>2. /\ (i - 1) * k \in Nat /\ i * k \in Nat /\ n * k \in Nat
          /\ i * k <= n * k
      BY <1>1, <2>1, ProductGrows, ProductNat
    <2>3. i * k = (i - 1) * k + k
      BY <1>1, <2>1
    <2>4. (i - 1) * k + 1 <= len
      BY <1>2
    <2>5. QED BY <1>1, <2>1, <2>2, <2>3, <2>4 DEF Smaller
  <1>6. \A i, j \in 1 .. n : i < j => cut(i) < (j - 1) * k + 1
    <2> SUFFICES ASSUME NEW i \in 1 .. n, NEW j \in 1 .. n, i < j
                 PROVE  cut(i) < (j - 1) * k + 1
      OBVIOUS
    <2>1. i * k <= (j - 1) * k /\ i * k \in Nat /\ (j - 1) * k \in Nat
      BY <1>1, <1>5, ProductGrows, ProductNat
    <2>2. QED BY <1>4, <1>5, <2>1
  <1>7. cut(n) \in Nat /\ cut(n) + 1 \in Nat \ {0} /\ len <= len
    BY <1>1, <1>4
  <1>8. /\ rest \in Octets /\ Ascends(rest)
        /\ \A m : UpTo(src, m) => UpTo(rest, m)
        /\ \A d : Below(d, src) => Below(d, rest)
    BY <1>1, <1>7, <1>d, SliceOrder DEF len
  <1> HIDE DEF cut
  <1>9. ASSUME NEW i \in 1 .. n
        PROVE  /\ Chunk(s, i) \in Octets
               /\ Ascends(Chunk(s, i)) /\ Len(Chunk(s, i)) > 0
               /\ \A m : UpTo(src, m) => UpTo(Chunk(s, i), m)
               /\ \A d : Below(d, src) => Below(d, Chunk(s, i))
               /\ Below(Chunk(s, i), rest)
               /\ \A j \in 1 .. n : i < j => Below(Chunk(s, i), Chunk(s, j))
    <2> DEFINE a == (i - 1) * k + 1
    <2>1. /\ a \in Nat \ {0} /\ a <= cut(i) /\ cut(i) <= cut(n) /\ i \in Nat
          /\ Chunk(s, i) = SubSeq(src, a, cut(i))
      BY <1>3, <1>5
    <2>1a. cut(i) \in Nat /\ cut(i) <= Len(src)
      BY <1>4, <2>1 DEF len
    <2>1b. cut(i) < cut(n) + 1
      BY <1>7, <2>1, <2>1a
    <2> HIDE DEF a
    <2>2. /\ Chunk(s, i) \in Octets
          /\ Ascends(Chunk(s, i)) /\ Len(Chunk(s, i)) > 0
          /\ \A m : UpTo(src, m) => UpTo(Chunk(s, i), m)
          /\ \A d : Below(d, src) => Below(d, Chunk(s, i))
          /\ \A c \in Nat \ {0}, f \in Nat :
               cut(i) < c /\ f <= Len(src) => Below(Chunk(s, i), SubSeq(src, c, f))
      BY <1>1, <1>d, <2>1, <2>1a, SliceOrder
    <2>3. Below(Chunk(s, i), rest)
      BY <1>1, <1>7, <2>1b, <2>2 DEF len
    <2>4. ASSUME NEW j \in 1 .. n, i < j
          PROVE  Below(Chunk(s, i), Chunk(s, j))
      <3>1. /\ (j - 1) * k + 1 \in Nat \ {0} /\ cut(j) \in Nat /\ cut(j) <= Len(src)
            /\ Chunk(s, j) = SubSeq(src, (j - 1) * k + 1, cut(j))
        BY <1>3, <1>4, <1>5 DEF len
      <3>2. cut(i) < (j - 1) * k + 1
        BY <1>6, <2>4
      <3>3. QED BY <2>2, <3>1, <3>2
    <2>5. QED BY <2>2, <2>3, <2>4
  <1>10. QED BY <1>8, <1>9 DEF n, src, k, len, cut

\* A number put n places above V(S) is Outstanding + n places above V(A).
LEMMA FreshDistance ==
  ASSUME NEW va \in SeqNo, NEW vs \in SeqNo, NEW q \in SeqNo,
         Sub(vs, va) + Sub(q, vs) <= Mod - 1
  PROVE  /\ Sub(q, va) = Sub(vs, va) + Sub(q, vs)
         /\ Sub(vs, va) \in Nat /\ Sub(q, vs) \in Nat
  <1>1. /\ Sub(q, va) = Distance(q, va, Mod) /\ Sub(vs, va) = Distance(vs, va, Mod)
        /\ Sub(q, vs) = Distance(q, vs, Mod) /\ Mod \in Nat
    BY SubIsDistance, SequenceAssumption
  <1>2. QED BY <1>1 DEF Distance, SeqNo

\* What _fill_window reads from lies where its two parts lie.
LEMMA SourceOrder ==
  ASSUME NEW s \in EndpointType, StreamOrder(s)
  PROVE  /\ Source(s) \in Octets /\ Ascends(Source(s)) /\ UpTo(Source(s), s.sent)
         /\ \A d \in Octets : Below(d, s.tx_transfer) /\ Below(d, s.tx_stream)
                                => Below(d, Source(s))
  <1>1. s.tx_transfer \in Octets /\ s.tx_stream \in Octets
    BY DEF EndpointType
  <1>2. Source(s) \in Octets
    BY SourceOK DEF Octets
  <1>3. CASE s.codec
    BY <1>1, <1>2, <1>3, BelowConcat DEF Source, StreamOrder
  <1>4. CASE ~ s.codec
    BY <1>2, <1>4 DEF Source, StreamOrder
  <1>5. QED BY <1>3, <1>4

\* _fill_window sends what follows all that was ever sent.
LEMMA FillWindowOrder ==
  ASSUME NEW e \in Endpoints, NEW s, EndpointOK(e, s), NEW rx \in Octets, NEW vr,
         Order(s, Window[e], rx, vr)
  PROVE  Order(FillWindow(s), Window[e], rx, vr)
  <1> DEFINE W == Window[e]
             n == Fitting(s)
             src == Source(s)
             rest == SubSeq(src, Smaller(n * s.n401, Len(src)) + 1, Len(src))
             fresh == {Add(s.vs, i - 1) : i \in 1 .. n}
             held == [q \in SeqNo |-> IF q \in fresh
                        THEN Chunk(s, Sub(q, s.vs) + 1) ELSE s.unacked[q]]
             new == [i \in 1 .. n |->
                       InfoFrame(s, Add(s.vs, i - 1), Chunk(s, i))]
             d == [s EXCEPT
                     !.tx_stream = IF s.codec THEN <<>> ELSE rest,
                     !.tx_transfer = IF s.codec THEN rest ELSE @,
                     !.tx_base = Base(s),
                     !.held = @ \cup fresh, !.unacked = held, !.tx = @ \o new,
                     !.vs = Add(@, n)]
             x == [d EXCEPT !.tx = s.tx]
  <1>1. CASE ~ s.connected \/ s.peer_busy
    BY <1>1 DEF FillWindow
  <1>2. CASE ~ (~ s.connected \/ s.peer_busy)
    <2>1. FillWindow(s) = d
      BY <1>2 DEF FillWindow
    <2>2. /\ s \in EndpointType /\ s.va \in SeqNo /\ s.vs \in SeqNo
          /\ s.held = {q \in SeqNo : Sub(q, s.va) < Outstanding(s)}
          /\ s.unacked \in [SeqNo -> Octets] /\ s.tx \in Seq(Frame)
          /\ s.window \in 1 .. (Mod - 1) /\ s.window <= W
          /\ s.tx_transfer \in Octets /\ s.tx_stream \in Octets
      BY DEF EndpointOK, EndpointType, WindowOK
    <2>3. Mod \in Nat \ {0} /\ W \in 1 .. (Mod - 1)
      BY SequenceAssumption
    <2>4. /\ n \in Nat
          /\ n > 0 => Outstanding(s) + n <= s.window
          /\ Outstanding(s) \in 0 .. (Mod - 1)
      BY <2>2, FittingOK, SubIsDistance DEF Outstanding, SeqNo
    <2>5. /\ src \in Octets /\ Ascends(src) /\ UpTo(src, s.sent)
          /\ \A a \in Octets : Below(a, s.tx_transfer) /\ Below(a, s.tx_stream)
                                 => Below(a, src)
      BY <2>2, SourceOrder DEF Order
    <2>6. /\ \A i \in 1 .. n :
               /\ Chunk(s, i) \in Octets
               /\ Ascends(Chunk(s, i)) /\ Len(Chunk(s, i)) > 0
               /\ UpTo(Chunk(s, i), s.sent)
               /\ \A a : Below(a, src) => Below(a, Chunk(s, i))
               /\ Below(Chunk(s, i), rest)
          /\ \A i, j \in 1 .. n : i < j => Below(Chunk(s, i), Chunk(s, j))
          /\ rest \in Octets /\ Ascends(rest) /\ UpTo(rest, s.sent)
          /\ \A a : Below(a, src) => Below(a, rest)
      BY <2>2, <2>5, ChunksOrder
    <2>7. EndpointOK(e, d)
      BY <2>1, FillWindowOK
    <2>8. /\ d.tx = s.tx \o new /\ d.held = s.held \cup fresh /\ d.unacked = held
          /\ d.va = s.va /\ d.vs = Add(s.vs, n) /\ d.sent = s.sent /\ d.codec = s.codec
          /\ d.tx_stream = (IF s.codec THEN <<>> ELSE rest)
          /\ d.tx_transfer = (IF s.codec THEN rest ELSE s.tx_transfer)
          /\ d.window = s.window
      BY <2>2 DEF EndpointType
    <2>n. n \in 0 .. (Mod - 1) /\ Outstanding(s) + n <= Mod - 1
      BY <2>2, <2>3, <2>4
    <2>i. \A i \in 1 .. n : i - 1 \in 0 .. (Mod - 1) /\ i - 1 < n /\ (i - 1) + 1 = i
      <3> HIDE DEF n
      <3>1. QED BY <2>3, <2>4, <2>n
    <2>s. \A a, b \in SeqNo : Sub(a, b) \in Nat
      <3>1. \A a, b \in SeqNo : Sub(a, b) \in SeqNo
        BY SubIsDistance
      <3>2. \A a \in SeqNo : a \in Nat
        BY <2>3 DEF SeqNo
      <3>3. QED BY <3>1, <3>2
    <2>9. fresh = {q \in SeqNo : Sub(q, s.vs) < n}
      BY <2>2, <2>n, RunMembers
    <2>10. \A q \in fresh :
              /\ q \in SeqNo /\ Sub(q, s.vs) \in Nat /\ Sub(q, s.vs) + 1 \in 1 .. n
              /\ Sub(q, s.va) = Outstanding(s) + Sub(q, s.vs)
              /\ held[q] = Chunk(s, Sub(q, s.vs) + 1)
      <3> SUFFICES ASSUME NEW q \in fresh
                   PROVE  /\ q \in SeqNo /\ Sub(q, s.vs) \in Nat
                          /\ Sub(q, s.vs) + 1 \in 1 .. n
                          /\ Sub(q, s.va) = Outstanding(s) + Sub(q, s.vs)
                          /\ held[q] = Chunk(s, Sub(q, s.vs) + 1)
        OBVIOUS
      <3>1. q \in SeqNo /\ Sub(q, s.vs) < n
        BY <2>9
      <3>2. Sub(q, s.vs) \in Nat
        BY <2>2, <2>s, <3>1
      <3>3. Sub(s.vs, s.va) + Sub(q, s.vs) <= Mod - 1
        BY <2>3, <2>4, <2>n, <3>1, <3>2 DEF Outstanding
      <3>4. QED BY <2>2, <2>4, <3>1, <3>2, <3>3, FreshDistance DEF Outstanding
    <2>11. \A q \in s.held : q \in SeqNo /\ q \notin fresh /\ held[q] = s.unacked[q]
      <3> SUFFICES ASSUME NEW q \in s.held, q \in fresh PROVE FALSE
        BY <2>2
      <3> HIDE DEF fresh, held, n
      <3>1. Sub(q, s.va) < Outstanding(s) /\ Outstanding(s) \in Nat
        BY <2>2, <2>4
      <3>2. Sub(q, s.va) = Outstanding(s) + Sub(q, s.vs) /\ Sub(q, s.vs) \in Nat
        BY <2>10
      <3>3. QED BY <3>1, <3>2
    <2>x. /\ x.tx = s.tx /\ x.held = s.held \cup fresh /\ x.unacked = held
          /\ x.va = s.va /\ x.vs = d.vs /\ x.sent = s.sent /\ x.codec = s.codec
          /\ x.tx_stream = d.tx_stream /\ x.tx_transfer = d.tx_transfer
          /\ x.window = d.window /\ x \in EndpointType
      <3>1. d \in EndpointType
        BY <2>7 DEF EndpointOK
      <3> HIDE DEF d
      <3>2. x \in EndpointType
        BY <2>2, <3>1 DEF EndpointType
      <3>3. QED BY <2>2, <2>8, <3>1, <3>2 DEF EndpointType
    <2>12. EndpointOK(e, x)
      <3> HIDE DEF x, d
      <3>1. /\ x.vs = d.vs /\ x.va = d.va /\ x.held = d.held
            /\ x.window = d.window /\ x \in EndpointType
        BY <2>8, <2>x
      <3>2. QED BY <2>7, <3>1, SameWindow
    <2> HIDE DEF n, src, rest, fresh, held, x, d, W
    <2>13. StreamOrder(x) /\ \A a \in Octets : Clean(s, a) => Clean(x, a)
      <3>1. \A a \in Octets : Clean(s, a) => Below(a, src)
        BY <2>5 DEF Clean
      <3>2. \A a \in Octets : Clean(s, a) => Clean(x, a)
        BY <2>6, <2>8, <2>x, <3>1, EmptyRun DEF Clean
      <3>3. StreamOrder(x)
        BY <2>6, <2>8, <2>x, EmptyRun DEF Order, StreamOrder
      <3>4. QED BY <3>2, <3>3
    <2>14. \A i \in 1 .. n : Field(x, Chunk(s, i))
      <3>1. \A i \in 1 .. n : Below(Chunk(s, i), x.tx_stream)
                              /\ Below(Chunk(s, i), x.tx_transfer)
        BY <2>6, <2>8, <2>x, EmptyRun DEF Order, StreamOrder
      <3>2. QED BY <2>6, <2>x, <3>1 DEF Field, Clean
    <2>15. \A a \in Octets, i \in 1 .. n : Clean(s, a) => Below(a, Chunk(s, i))
      BY <2>5, <2>6 DEF Clean
    <2>16. HeldOrder(x)
      <3>1. ASSUME NEW q \in x.held PROVE Field(x, x.unacked[q])
        <4>1. CASE q \in fresh
          BY <2>10, <2>14, <2>x, <4>1
        <4>2. CASE q \in s.held
          <5>1. s.unacked[q] \in Octets /\ Field(s, s.unacked[q])
            BY <2>2, <2>11, <4>2 DEF Order, HeldOrder
          <5>2. QED BY <2>11, <2>13, <2>x, <4>2, <5>1 DEF Field
        <4>3. QED BY <2>x, <4>1, <4>2
      <3>2. ASSUME NEW q \in x.held, NEW r \in x.held, Sub(q, x.va) < Sub(r, x.va)
            PROVE  Below(x.unacked[q], x.unacked[r])
        <4>1. CASE q \in s.held /\ r \in s.held
          BY <2>11, <2>x, <3>2, <4>1 DEF Order, HeldOrder
        <4>2. CASE q \in s.held /\ r \in fresh
          <5>1. s.unacked[q] \in Octets /\ Clean(s, s.unacked[q])
            BY <2>2, <2>11, <4>2 DEF Order, HeldOrder, Field
          <5>2. QED BY <2>10, <2>11, <2>15, <2>x, <4>2, <5>1
        <4>3. CASE q \in fresh /\ r \in s.held
          <5>1. Sub(r, s.va) < Outstanding(s) /\ Sub(r, s.va) \in Nat
            BY <2>2, <2>s, <4>3
          <5>2. QED BY <2>4, <2>10, <2>x, <3>2, <4>3, <5>1
        <4>4. CASE q \in fresh /\ r \in fresh
          <5>1. Sub(q, s.vs) + 1 < Sub(r, s.vs) + 1
            BY <2>4, <2>10, <2>x, <3>2, <4>4
          <5>2. QED BY <2>6, <2>10, <2>x, <4>4, <5>1
        <4>5. QED BY <2>x, <4>1, <4>2, <4>3, <4>4
      <3>3. QED BY <3>1, <3>2 DEF HeldOrder
    <2>17. \A i \in 1 .. Len(s.tx) : Info(s.tx[i]) => s.tx[i].data \in Octets
      <3> SUFFICES ASSUME NEW i \in 1 .. Len(s.tx), Info(s.tx[i])
                   PROVE  s.tx[i].data \in Octets
        OBVIOUS
      <3>1. s.tx[i] \in Frame
        BY <2>2
      <3>2. QED BY <3>1 DEF Frame, UFrame, XidFrame, SFrame, IFrame, Info
    <2>18. TxOrder(x, W)
      <3>1. \A i \in 1 .. Len(x.tx) : Info(x.tx[i]) => Field(x, x.tx[i].data)
        BY <2>13, <2>17, <2>x DEF Order, TxOrder, Field
      <3>2. ASSUME NEW i \in 1 .. Len(x.tx), NEW q \in x.held, Info(x.tx[i])
            PROVE  \/ Below(x.tx[i].data, x.unacked[q])
                   \/ Unmarked(x.tx, i, Len(x.tx)) /\ Sub(x.tx[i].ns, q) < W
        <4>1. CASE q \in s.held
          BY <2>11, <2>x, <3>2, <4>1 DEF Order, TxOrder, W
        <4>2. CASE q \in fresh
          <5>1. s.tx[i].data \in Octets /\ Clean(s, s.tx[i].data)
            BY <2>17, <2>x, <3>2 DEF Order, TxOrder, Field
          <5>2. QED BY <2>10, <2>15, <2>x, <4>2, <5>1
        <4>3. QED BY <2>x, <4>1, <4>2
      <3>3. QED BY <2>x, <3>1, <3>2 DEF Order, TxOrder, W
    <2>19. RxOrder(x, W, rx, vr)
      <3>1. Clean(s, rx) /\ Clean(x, rx)
        BY <2>13 DEF Order, RxOrder
      <3>2. ASSUME NEW q \in x.held
            PROVE  \/ Below(rx, x.unacked[q])
                   \/ Unmarked(x.tx, 1, Len(x.tx)) /\ Sub(vr, q) \in 1 .. W
        <4>1. CASE q \in s.held
          BY <2>11, <2>x, <4>1 DEF Order, RxOrder, W
        <4>2. CASE q \in fresh
          BY <2>10, <2>15, <2>x, <3>1, <4>2
        <4>3. QED BY <2>x, <4>1, <4>2
      <3>3. QED BY <2>x, <3>1, <3>2 DEF Order, RxOrder, W
    <2>20. Order(x, Window[e], rx, vr)
      BY <2>13, <2>16, <2>18, <2>19 DEF Order, W
    <2>21. /\ new \in Seq(Frame) /\ Len(new) = n
           /\ \A i \in 1 .. n : /\ new[i] = InfoFrame(s, Add(s.vs, i - 1), Chunk(s, i))
                                /\ Add(s.vs, i - 1) \in SeqNo
                                /\ Sub(Add(s.vs, i - 1), s.vs) = i - 1
      <3>1. \A i \in 1 .. n : /\ Add(s.vs, i - 1) \in SeqNo
                              /\ Sub(Add(s.vs, i - 1), s.vs) = i - 1
        BY <2>2, <2>i, AddValue, SubAdd
      <3>2. new \in [1 .. n -> Frame]
        BY <2>2, <2>6, <3>1, FramesOK
      <3>3. new \in Seq(Frame)
        BY <2>4, <3>2, FunctionIsSeq
      <3>4. Len(new) = n
        BY <2>4, <3>2, <3>3
      <3>5. QED BY <3>1, <3>3, <3>4
    <2> HIDE DEF new
    <2>22. ASSUME NEW i \in 1 .. n
           PROVE  /\ Info(new[i]) /\ new[i].ns \in x.held
                  /\ new[i].data = x.unacked[new[i].ns]
                  /\ Sub(new[i].ns, x.va) = Outstanding(s) + (i - 1)
      <3> DEFINE q == Add(s.vs, i - 1)
      <3>1. Info(new[i]) /\ new[i].ns = q /\ new[i].data = Chunk(s, i)
        BY <2>21 DEF InfoFrame, Info
      <3>2. q \in SeqNo /\ Sub(q, s.vs) = i - 1 /\ i - 1 < n /\ (i - 1) + 1 = i
        BY <2>i, <2>21
      <3>3. q \in fresh
        BY <2>9, <3>2
      <3> HIDE DEF q
      <3>4. QED BY <2>10, <2>x, <3>1, <3>2, <3>3
    <2>23. \A i, j \in 1 .. n :
              i < j => Sub(new[i].ns, x.va) < Sub(new[j].ns, x.va)
      BY <2>4, <2>22
    <2>24. QED
      BY <2>1, <2>8, <2>12, <2>20, <2>21, <2>22, <2>23, <2>x, CopiesOrder
  <1>3. QED BY <1>1, <1>2

-----------------------------------------------------------------------------
(* The methods of LapmEndpoint, as steps of a sender: rx and vr belong to   *)
(* the other end.                                                           *)

\* A sender in order.
Sender(e, s, rx, vr) ==
  EndpointOK(e, s) /\ Order(s, Window[e], rx, vr) /\ Idle(s)

\* Two records that differ in nothing that Order and Idle speak of.
Alike(s, t) ==
  /\ t.tx = s.tx /\ t.sent = s.sent
  /\ t.tx_transfer = s.tx_transfer /\ t.tx_stream = s.tx_stream
  /\ t.codec = s.codec /\ t.held = s.held /\ t.unacked = s.unacked /\ t.va = s.va
  /\ t.connected = s.connected /\ t.failed = s.failed
  /\ t.awaiting_ua = s.awaiting_ua

LEMMA AlikeOrder ==
  ASSUME NEW e, NEW s, NEW t, NEW rx, NEW vr, Sender(e, s, rx, vr),
         EndpointOK(e, t), Alike(s, t)
  PROVE  Sender(e, t, rx, vr)
  <1>1. Order(t, Window[e], rx, vr)
    BY ReleaseOrder DEF Alike, Sender, Order, StreamOrder
  <1>2. Idle(t)
    BY DEF Alike, Sender, Idle
  <1>3. QED BY <1>1, <1>2 DEF Sender

\* _queue of a frame without octets.
LEMMA QueueOrder ==
  ASSUME NEW e \in Endpoints, NEW s, NEW rx, NEW vr, Sender(e, s, rx, vr),
         NEW f \in Frame, ~ Info(f), Marker(f) => s.held = {}
  PROVE  Sender(e, Queue(s, f), rx, vr)
  <1> DEFINE t == Queue(s, f)
  <1>1. s \in EndpointType /\ s.tx \in Seq(Frame)
    BY DEF Sender, EndpointOK, EndpointType
  <1>2. /\ t.tx = Append(s.tx, f) /\ t.sent = s.sent
        /\ t.tx_transfer = s.tx_transfer /\ t.tx_stream = s.tx_stream
        /\ t.codec = s.codec /\ t.held = s.held /\ t.unacked = s.unacked
        /\ t.va = s.va /\ t.connected = s.connected /\ t.failed = s.failed
        /\ t.awaiting_ua = s.awaiting_ua
    BY <1>1 DEF Queue, EndpointType
  <1>3. EndpointOK(e, t)
    BY QueueOK DEF Sender
  <1> HIDE DEF t
  <1>4. Order(t, Window[e], rx, vr)
    BY <1>1, <1>2, AppendOrder DEF Sender
  <1>5. QED BY <1>2, <1>3, <1>4 DEF Sender, Idle, t

\* The U, S and XID frames carry no octets; only SABME and UA are markers.
LEMMA PlainFrames ==
  /\ \A t \in {"SABME", "UA", "DISC", "FRMR"} :
       ~ Info(U(t)) /\ (Marker(U(t)) => t \in {"SABME", "UA"})
  /\ \A t \in {"RR", "RNR", "REJ"} : \A s, pf, cmd :
       ~ Info(Supervisory(t, s, pf, cmd)) /\ ~ Marker(Supervisory(t, s, pf, cmd))
  BY DEF Info, Marker, U, Supervisory

\* An RR, RNR or REJ is queued.
LEMMA SupervisoryOrder ==
  ASSUME NEW e \in Endpoints, NEW s, NEW rx, NEW vr, Sender(e, s, rx, vr),
         NEW t \in {"RR", "RNR", "REJ"}, NEW pf \in BOOLEAN, NEW cmd \in BOOLEAN
  PROVE  Sender(e, Queue(s, Supervisory(t, s, pf, cmd)), rx, vr)
  <1>1. Supervisory(t, s, pf, cmd) \in Frame
    BY FramesOK DEF Sender, EndpointOK
  <1>2. QED BY <1>1, PlainFrames, QueueOrder

\* What _reset_transmit leaves.
LEMMA ResetFields ==
  ASSUME NEW s \in EndpointType
  PROVE  LET t == ResetTransmit(s)
         IN  /\ t.tx = s.tx /\ t.sent = s.sent /\ t.tx_transfer = <<>>
             /\ t.tx_stream = s.tx_stream /\ t.held = {}
             /\ t.codec = s.codec /\ t.connected = s.connected
             /\ t.failed = s.failed /\ t.awaiting_ua = s.awaiting_ua
             /\ t.rx_data = s.rx_data /\ t.vr = s.vr
  BY DEF ResetTransmit, EndpointType

\* A sender that lets go of all it holds is in order.
LEMMA ClearOrder ==
  ASSUME NEW s, NEW t, NEW W, NEW rx, NEW vr, Order(s, W, rx, vr),
         t.tx = s.tx, t.sent = s.sent, t.tx_transfer = <<>>,
         t.tx_stream \in {s.tx_stream, <<>>}, t.held = {}
  PROVE  Order(t, W, rx, vr)
  BY ReleaseOrder

\* _establish.
LEMMA EstablishOrder ==
  ASSUME NEW e \in Endpoints, NEW s, NEW rx, NEW vr, Sender(e, s, rx, vr)
  PROVE  Sender(e, Establish(s), rx, vr) /\ Establish(s).held = {}
  <1> DEFINE r == ResetTransmit(s)
             t == Establish(s)
  <1>1. s \in EndpointType /\ r \in EndpointType /\ EndpointOK(e, t)
    BY ResetTransmitOK, EstablishOK DEF Sender, EndpointOK
  <1>2. /\ r.tx = s.tx /\ r.sent = s.sent /\ r.tx_transfer = <<>>
        /\ r.tx_stream = s.tx_stream /\ r.held = {}
    BY <1>1, ResetFields
  <1>3. /\ t.tx = r.tx /\ t.sent = r.sent /\ t.tx_transfer = r.tx_transfer
        /\ t.tx_stream = r.tx_stream /\ t.held = r.held
        /\ t.connected = TRUE /\ t.failed = FALSE /\ t.awaiting_ua = FALSE
    <2> HIDE DEF r
    <2>1. t = [r EXCEPT !.connected = TRUE, !.awaiting_ua = FALSE, !.vr = 0,
                        !.inactivity = 0, !.establish_ticks = 0, !.failed = FALSE,
                        !.reestablish_left = Reestablish,
                        !.tx_base = 0, !.rx_dict = <<>>]
      BY DEF Establish, r
    <2>2. QED BY <1>1, <2>1 DEF EndpointType
  <1> HIDE DEF r, t
  <1>4. Order(t, Window[e], rx, vr)
    BY <1>2, <1>3, ClearOrder DEF Sender
  <1>5. QED BY <1>1, <1>2, <1>3, <1>4 DEF Sender, Idle, t

\* _disconnect, unless the link is down already.
LEMMA DisconnectOrder ==
  ASSUME NEW e \in Endpoints, NEW s, NEW rx, NEW vr,
         EndpointOK(e, s), Order(s, Window[e], rx, vr),
         s.failed => Idle(s)
  PROVE  Sender(e, Disconnect(s), rx, vr)
  <1> DEFINE q == Queue(s, U("DISC"))
             t == IF s.connected THEN q ELSE s
             r == ResetTransmit(t)
             d == Disconnect(s)
  <1>1. CASE s.failed
    BY <1>1 DEF Disconnect, Sender
  <1>2. CASE ~ s.failed
    <2>1. EndpointOK(e, d) /\ EndpointOK(e, q)
      BY DisconnectOK, QueueOK, FramesOK
    <2>2. s \in EndpointType /\ q \in EndpointType /\ s.tx \in Seq(Frame)
      BY <2>1 DEF EndpointOK, EndpointType
    <2>3. Order(q, Window[e], rx, vr)
      <3>1. /\ q.tx = Append(s.tx, U("DISC")) /\ q.sent = s.sent
            /\ q.tx_transfer = s.tx_transfer /\ q.tx_stream = s.tx_stream
            /\ q.codec = s.codec /\ q.held = s.held /\ q.unacked = s.unacked
            /\ q.va = s.va
        BY <2>2 DEF Queue, EndpointType
      <3>2. U("DISC") \in Frame /\ ~ Info(U("DISC")) /\ ~ Marker(U("DISC"))
        BY FramesOK, PlainFrames
      <3> HIDE DEF q
      <3>3. QED BY <2>2, <3>1, <3>2, AppendOrder
    <2> HIDE DEF q
    <2>4. t \in EndpointType /\ Order(t, Window[e], rx, vr) /\ EndpointOK(e, t)
      BY <2>1, <2>2, <2>3
    <2>5. d = [r EXCEPT !.connected = FALSE, !.awaiting_ua = FALSE,
                        !.tx_stream = <<>>, !.failed = TRUE]
      BY <1>2 DEF Disconnect, q
    <2> HIDE DEF t, d
    <2>6. r \in EndpointType
      BY <2>4, ResetTransmitOK DEF EndpointOK
    <2>7. r.tx = t.tx /\ r.sent = t.sent /\ r.tx_transfer = <<>> /\ r.held = {}
      BY <2>4, ResetFields
    <2> HIDE DEF r
    <2>8. /\ d.tx = r.tx /\ d.sent = r.sent /\ d.tx_transfer = r.tx_transfer
          /\ d.tx_stream = <<>> /\ d.held = r.held /\ d.connected = FALSE
      BY <2>5, <2>6 DEF EndpointType
    <2>9. Order(d, Window[e], rx, vr)
      BY <2>4, <2>7, <2>8, ClearOrder
    <2>10. Idle(d)
      BY <2>7, <2>8 DEF Idle
    <2>11. QED BY <2>1, <2>9, <2>10 DEF Sender, d
  <1>3. QED BY <1>1, <1>2

\* _send_frmr.
LEMMA SendFrmrOrder ==
  ASSUME NEW e \in Endpoints, NEW s, NEW rx, NEW vr, Sender(e, s, rx, vr)
  PROVE  Sender(e, SendFrmr(s), rx, vr)
  <1>1. U("FRMR") \in Frame /\ ~ Info(U("FRMR")) /\ ~ Marker(U("FRMR"))
    BY FramesOK, PlainFrames
  <1>2. Sender(e, Queue(s, U("FRMR")), rx, vr)
    BY <1>1, QueueOrder
  <1>3. QED BY <1>2, DisconnectOrder DEF SendFrmr, Sender

\* _link_failure: the SABME is queued when nothing is held any more.
LEMMA LinkFailureOrder ==
  ASSUME NEW e \in Endpoints, NEW s, NEW rx, NEW vr, Sender(e, s, rx, vr)
  PROVE  Sender(e, LinkFailure(s), rx, vr)
  <1>1. CASE s.reestablish_left <= 0 \/ ~ s.connected
    BY <1>1, DisconnectOrder DEF LinkFailure, Sender
  <1>2. CASE ~ (s.reestablish_left <= 0 \/ ~ s.connected)
    <2> DEFINE r == ResetTransmit(s)
               d == [r EXCEPT !.reestablish_left = @ - 1, !.connected = FALSE,
                              !.tx_stream = <<>>, !.awaiting_ua = TRUE,
                              !.establish_ticks = 0]
    <2>1. s \in EndpointType /\ EndpointOK(e, r) /\ r \in EndpointType
      BY ResetTransmitOK DEF Sender, EndpointOK
    <2>2. /\ r.tx = s.tx /\ r.sent = s.sent /\ r.tx_transfer = <<>> /\ r.held = {}
      BY <2>1, ResetFields
    <2>2a. r.reestablish_left = s.reestablish_left
      BY <2>1 DEF ResetTransmit, EndpointType
    <2>3. LinkFailure(s) = Queue(d, U("SABME"))
      BY <1>2 DEF LinkFailure
    <2> HIDE DEF r
    <2>4. /\ d.tx = r.tx /\ d.sent = r.sent /\ d.tx_transfer = r.tx_transfer
          /\ d.tx_stream = <<>> /\ d.held = r.held /\ d.connected = FALSE
          /\ d.vs = r.vs /\ d.va = r.va /\ d.window = r.window
      BY <2>1 DEF EndpointType
    <2>5. d \in EndpointType
      <3>1. r.reestablish_left - 1 \in Nat
        <4>1. s.reestablish_left \in Nat
          BY <2>1 DEF EndpointType
        <4>2. ~ (s.reestablish_left <= 0)
          BY <1>2
        <4>3. QED BY <2>2a, <4>1, <4>2
      <3>2. <<>> \in Octets
        BY DEF Octets
      <3>3. QED BY <2>1, <3>1, <3>2 DEF EndpointType
    <2> HIDE DEF d
    <2>6. EndpointOK(e, d)
      BY <2>1, <2>4, <2>5, SameWindow
    <2>7. Order(d, Window[e], rx, vr)
      BY <2>2, <2>4, ClearOrder DEF Sender
    <2>8. Sender(e, d, rx, vr) /\ d.held = {}
      BY <2>2, <2>4, <2>6, <2>7 DEF Sender, Idle
    <2>9. QED BY <2>3, <2>8, FramesOK, PlainFrames, QueueOrder
  <1>3. QED BY <1>1, <1>2

\* Releasing frames from the lower edge keeps the order of the rest.
LEMMA AckDistance ==
  ASSUME NEW va \in SeqNo, NEW nr \in SeqNo, NEW q \in SeqNo, NEW r \in SeqNo,
         ~ (Sub(q, va) < Sub(nr, va)), ~ (Sub(r, va) < Sub(nr, va)),
         Sub(q, nr) < Sub(r, nr)
  PROVE  Sub(q, va) < Sub(r, va)
  <1>1. /\ Sub(q, va) = Distance(q, va, Mod) /\ Sub(r, va) = Distance(r, va, Mod)
        /\ Sub(q, nr) = Distance(q, nr, Mod) /\ Sub(r, nr) = Distance(r, nr, Mod)
        /\ Sub(nr, va) = Distance(nr, va, Mod) /\ Mod \in Nat
    BY SubIsDistance, SequenceAssumption
  <1>2. QED BY <1>1 DEF Distance, SeqNo

\* _ack.
LEMMA AckOrder ==
  ASSUME NEW e \in Endpoints, NEW s, NEW rx, NEW vr, Sender(e, s, rx, vr),
         NEW nr \in SeqNo, AckValid(s, nr)
  PROVE  Sender(e, Ack(s, nr), rx, vr)
  <1> DEFINE t == Ack(s, nr)
             gone == Released(s, nr)
  <1>1. s \in EndpointType /\ s.va \in SeqNo /\ s.held \subseteq SeqNo
    BY DEF Sender, EndpointOK, EndpointType
  <1>2. /\ t.tx = s.tx /\ t.sent = s.sent
        /\ t.tx_transfer = s.tx_transfer /\ t.tx_stream = s.tx_stream
        /\ t.codec = s.codec /\ t.held = s.held \ gone
        /\ t.unacked = Keep(s, s.held \ gone) /\ t.va = nr
        /\ t.connected = s.connected /\ t.failed = s.failed
        /\ t.awaiting_ua = s.awaiting_ua
    BY <1>1 DEF Ack, EndpointType
  <1>3. EndpointOK(e, t)
    BY AckOK DEF Sender
  <1>4. \A q \in t.held : /\ q \in s.held /\ q \in SeqNo
                          /\ t.unacked[q] = s.unacked[q]
                          /\ ~ (Sub(q, s.va) < Sub(nr, s.va))
    BY <1>1, <1>2 DEF Keep, Released
  <1> HIDE DEF t, gone
  <1>5. \A q, r \in t.held :
           Sub(q, t.va) < Sub(r, t.va) => Sub(q, s.va) < Sub(r, s.va)
    BY <1>1, <1>2, <1>4, AckDistance
  <1>6. ~ t.codec => t.tx_transfer = <<>>
    BY <1>2 DEF Sender, Order, StreamOrder
  <1>7. Order(t, Window[e], rx, vr)
    BY <1>2, <1>4, <1>5, <1>6, ReleaseOrder DEF Sender
  <1>8. Idle(t)
    BY <1>2 DEF Sender, Idle
  <1>9. QED BY <1>3, <1>7, <1>8 DEF Sender, t

\* _retransmit_from(V(A)).
LEMMA RetransmitOrder ==
  ASSUME NEW e \in Endpoints, NEW s, NEW rx, NEW vr, Sender(e, s, rx, vr)
  PROVE  Sender(e, RetransmitFrom(s, s.va), rx, vr)
  <1> DEFINE n == RunLength(s, s.va)
             run == {Add(s.va, i - 1) : i \in 1 .. n}
             new == [i \in 1 .. n |->
                       InfoFrame(s, Add(s.va, i - 1), s.unacked[Add(s.va, i - 1)])]
             t == RetransmitFrom(s, s.va)
             x == [t EXCEPT !.tx = s.tx]
  <1>1. /\ EndpointOK(e, s) /\ s \in EndpointType /\ s.va \in SeqNo
        /\ s.unacked \in [SeqNo -> Octets] /\ s.tx \in Seq(Frame)
        /\ s.held \subseteq SeqNo
    BY DEF Sender, EndpointOK, EndpointType
  <1>2. n \in 0 .. (Mod - 1) /\ run = s.held /\ Mod \in Nat \ {0}
    BY <1>1, RunLengthOK, SequenceAssumption
  <1>3. EndpointOK(e, t) /\ t \in EndpointType
    BY <1>1, RetransmitOK DEF EndpointOK
  <1>4. /\ t.tx = s.tx \o new /\ t.sent = s.sent
        /\ t.tx_transfer = s.tx_transfer /\ t.tx_stream = s.tx_stream
        /\ t.codec = s.codec /\ t.held = run /\ t.unacked = Keep(s, run)
        /\ t.va = s.va /\ t.connected = s.connected /\ t.failed = s.failed
        /\ t.awaiting_ua = s.awaiting_ua
    BY <1>1 DEF RetransmitFrom, EndpointType
  <1> HIDE DEF t
  <1>5. /\ x.tx = s.tx /\ x.sent = t.sent
        /\ x.tx_transfer = t.tx_transfer /\ x.tx_stream = t.tx_stream
        /\ x.codec = t.codec /\ x.held = t.held /\ x.unacked = t.unacked
        /\ x.va = t.va /\ x.vs = t.vs /\ x.window = t.window
    BY <1>3 DEF EndpointType
  <1>6. x \in EndpointType
    BY <1>1, <1>3 DEF EndpointType
  <1> HIDE DEF x
  <1>7. EndpointOK(e, x)
    BY <1>3, <1>5, <1>6, SameWindow
  <1>8. \A q \in s.held : x.unacked[q] = s.unacked[q]
    BY <1>1, <1>2, <1>4, <1>5 DEF Keep
  <1>9. Order(x, Window[e], rx, vr)
    <2>1. ~ x.codec => x.tx_transfer = <<>>
      BY <1>4, <1>5 DEF Sender, Order, StreamOrder
    <2>2. x.held = s.held /\ x.va = s.va
      BY <1>2, <1>4, <1>5
    <2> HIDE DEF run, new, n
    <2>3. QED BY <1>4, <1>5, <1>8, <2>1, <2>2, ReleaseOrder DEF Sender
  <1>10. \A i \in 1 .. n : /\ Add(s.va, i - 1) \in s.held
                           /\ Sub(Add(s.va, i - 1), s.va) = i - 1
    <2>1. \A i \in 1 .. n : Add(s.va, i - 1) \in s.held
      BY <1>2
    <2>2. \A i \in 1 .. n : i - 1 \in 0 .. (Mod - 1)
      BY <1>2
    <2>3. QED BY <1>1, <2>1, <2>2, SubAdd
  <1>11. /\ new \in Seq(Frame) /\ Len(new) = n
         /\ \A i \in 1 .. n : /\ Info(new[i]) /\ new[i].ns = Add(s.va, i - 1)
                              /\ new[i].data = s.unacked[Add(s.va, i - 1)]
    <2> HIDE DEF n, run
    <2>1. new \in [1 .. n -> Frame]
      BY <1>1, <1>10, FramesOK
    <2>2. new \in Seq(Frame)
      BY <1>2, <2>1, FunctionIsSeq
    <2>3. Len(new) = n
      BY <1>2, <2>1, <2>2
    <2>4. QED BY <2>2, <2>3 DEF InfoFrame, Info
  <1> HIDE DEF new, n, run
  <1>12. /\ \A i \in 1 .. Len(new) : /\ Info(new[i]) /\ new[i].ns \in x.held
                                     /\ new[i].data = x.unacked[new[i].ns]
         /\ \A i, j \in 1 .. Len(new) :
              i < j => Sub(new[i].ns, x.va) < Sub(new[j].ns, x.va)
    <2>1. x.held = s.held /\ x.va = s.va
      BY <1>2, <1>4, <1>5
    <2>2. \A i \in 1 .. n : Sub(new[i].ns, x.va) = i - 1
      BY <1>10, <1>11, <2>1
    <2>3. \A i, j \in 1 .. n :
              i < j => Sub(new[i].ns, x.va) < Sub(new[j].ns, x.va)
      BY <1>2, <2>2
    <2>4. QED BY <1>8, <1>10, <1>11, <2>1, <2>3
  <1>13. Order(t, Window[e], rx, vr)
    BY <1>4, <1>5, <1>7, <1>9, <1>11, <1>12, CopiesOrder
  <1>14. Idle(t)
    BY <1>2, <1>4 DEF Sender, Idle
  <1>15. QED BY <1>3, <1>13, <1>14 DEF Sender, t

\* XID: the compressor starts afresh, and may be taken out.
LEMMA HandleXidOrder ==
  ASSUME NEW e \in Endpoints, NEW s, NEW rx, NEW vr, Sender(e, s, rx, vr),
         NEW f \in XidFrame
  PROVE  Sender(e, HandleXid(e, s, f), rx, vr)
  <1> DEFINE t == [s EXCEPT !.n401 = Smaller(@, f.n401),
                            !.window = Smaller(@, f.k),
                            !.codec = Compression[e] /\ f.comp,
                            !.tx_transfer = <<>>,
                            !.tx_base = 0, !.rx_dict = <<>>]
             x == [type |-> "XID", n401 |-> t.n401, k |-> t.window, comp |-> t.codec]
             h == HandleXid(e, s, f)
  <1>1. s \in EndpointType /\ EndpointOK(e, h)
    BY HandleXidOK DEF Sender, EndpointOK
  <1>2. h = IF e = Originator THEN t ELSE Queue(t, x)
    BY DEF HandleXid
  <1>3. /\ t.tx = s.tx /\ t.sent = s.sent /\ t.tx_transfer = <<>>
        /\ t.tx_stream = s.tx_stream /\ t.held = s.held
        /\ t.unacked = s.unacked /\ t.va = s.va
        /\ t.connected = s.connected /\ t.failed = s.failed
        /\ t.awaiting_ua = s.awaiting_ua
    BY <1>1 DEF EndpointType
  <1>t. t = [t EXCEPT !.tx = t.tx] /\ DOMAIN t = DOMAIN s
    BY <1>1 DEF EndpointType
  <1>4. ~ Info(x) /\ ~ Marker(x)
    BY DEF Info, Marker
  <1>5. t.n401 \in Nat \ {0} /\ t.window \in Nat \ {0} /\ t.codec \in BOOLEAN
    <2>1. f.n401 \in Nat \ {0} /\ f.k \in Nat \ {0} /\ f.comp \in BOOLEAN
      BY DEF XidFrame
    <2>2. s.n401 \in Nat \ {0} /\ s.window \in Nat \ {0}
      <3>1. s.n401 \in Nat \ {0} /\ s.window \in 1 .. (Mod - 1)
        BY <1>1 DEF EndpointType
      <3>2. QED BY <3>1, SequenceAssumption
    <2>3. /\ t.n401 = Smaller(s.n401, f.n401) /\ t.window = Smaller(s.window, f.k)
          /\ t.codec = (Compression[e] /\ f.comp)
      BY <1>1 DEF EndpointType
    <2>4. QED BY <2>1, <2>2, <2>3 DEF Smaller
  <1>6. x \in Frame
    <2> HIDE DEF t
    <2>1. x \in XidFrame
      BY <1>5 DEF XidFrame
    <2>2. QED BY <2>1 DEF Frame
  <1>7. Order(t, Window[e], rx, vr) /\ Idle(t)
    <2> HIDE DEF t
    <2>1. Order(t, Window[e], rx, vr)
      BY <1>3, ReleaseOrder DEF Sender
    <2>2. QED BY <1>3, <2>1 DEF Sender, Idle
  <1>8. CASE e = Originator
    BY <1>1, <1>2, <1>7, <1>8 DEF Sender
  <1>9. CASE e # Originator
    <2>1. h = Queue(t, x)
      BY <1>2, <1>9
    <2>2. t \in EndpointType
      <3>1. h.tx = Append(t.tx, x) /\ [h EXCEPT !.tx = s.tx] = t
        BY <1>1, <2>1 DEF Queue, EndpointType
      <3>2. h \in EndpointType /\ s.tx \in Seq(Frame)
        BY <1>1 DEF EndpointOK, EndpointType
      <3> HIDE DEF h, t
      <3>3. [h EXCEPT !.tx = s.tx] \in EndpointType
        BY <3>2 DEF EndpointType
      <3>4. QED BY <3>1, <3>3
    <2> HIDE DEF t, x
    <2>3. /\ h.tx = Append(t.tx, x) /\ h.sent = t.sent
          /\ h.tx_transfer = t.tx_transfer /\ h.tx_stream = t.tx_stream
          /\ h.codec = t.codec /\ h.held = t.held /\ h.unacked = t.unacked
          /\ h.va = t.va /\ h.connected = t.connected /\ h.failed = t.failed
          /\ h.awaiting_ua = t.awaiting_ua
      BY <2>1, <2>2 DEF Queue, EndpointType
    <2>4. t.tx \in Seq(Frame)
      BY <2>2 DEF EndpointType
    <2> HIDE DEF h
    <2>5. Order(h, Window[e], rx, vr)
      BY <1>4, <1>6, <1>7, <2>3, <2>4, AppendOrder
    <2>6. Idle(h)
      BY <1>7, <2>3 DEF Idle
    <2>7. QED BY <1>1, <2>5, <2>6 DEF Sender, h
  <1>10. QED BY <1>8, <1>9

\* An I frame, as far as the receiver's own sending goes.
LEMMA HandleIOrder ==
  ASSUME NEW e \in Endpoints, NEW s, NEW rx, NEW vr, Sender(e, s, rx, vr),
         NEW f \in IFrame, NEW cerror \in BOOLEAN
  PROVE  Sender(e, HandleI(s, f, cerror), rx, vr)
  <1> DEFINE t == Ack(s, f.nr)
             u == [t EXCEPT !.vr = Add(@, 1), !.rx_data = @ \o Decode(s, f),
                            !.rx_dict = IF s.codec THEN @ \o Decode(s, f)
                                        ELSE @]
             rej == Supervisory("REJ", t, FALSE, FALSE)
             rr == Supervisory("RR", u, FALSE, FALSE)
  <1>1. f.nr \in SeqNo /\ f.data \in Octets /\ s \in EndpointType /\ EndpointOK(e, s)
    BY DEF IFrame, EndpointOK, Sender
  <1>2. CASE Len(f.data) > s.n401 \/ ~ AckValid(s, f.nr)
    BY <1>2, SendFrmrOrder DEF HandleI
  <1>3. CASE ~ (Len(f.data) > s.n401 \/ ~ AckValid(s, f.nr))
    <2>1. Sender(e, t, rx, vr) /\ EndpointOK(e, t) /\ t \in EndpointType
      BY <1>1, <1>3, AckOrder DEF Sender, EndpointOK
    <2>2. HandleI(s, f, cerror) =
            IF f.ns # s.vr THEN Queue(t, rej)
            ELSE IF cerror /\ s.codec /\ ~ Tuned(s, f) THEN Disconnect(t)
            ELSE Queue(u, rr)
      BY <1>3 DEF HandleI
    <2> HIDE DEF t
    <2>3. Sender(e, Queue(t, rej), rx, vr)
      BY <2>1, SupervisoryOrder
    <2>4. Sender(e, Disconnect(t), rx, vr)
      BY <2>1, DisconnectOrder DEF Sender
    <2>5. EndpointOK(e, u)
      <3>1. Decode(s, f) \in Seq(Nat)
        BY <1>1, DecodeOK
      <3>2. /\ t.rx_data \o Decode(s, f) \in Octets
            /\ (IF s.codec THEN t.rx_dict \o Decode(s, f) ELSE t.rx_dict)
                 \in Octets
        BY <2>1, <3>1, ConcatProperties DEF EndpointType, Octets
      <3>3. Add(t.vr, 1) \in SeqNo
        BY <2>1, NextNumber DEF EndpointType
      <3>4. u \in EndpointType
        BY <2>1, <3>2, <3>3 DEF EndpointType
      <3>5. u.vs = t.vs /\ u.va = t.va /\ u.held = t.held /\ u.window = t.window
        BY <2>1 DEF EndpointType
      <3> HIDE DEF u
      <3>6. QED BY <2>1, <3>4, <3>5, SameWindow
    <2>6. Alike(t, u)
      BY <2>1 DEF Alike, EndpointType
    <2> HIDE DEF u
    <2>7. Sender(e, u, rx, vr)
      BY <2>1, <2>5, <2>6, AlikeOrder
    <2>8. Sender(e, Queue(u, rr), rx, vr)
      BY <2>7, SupervisoryOrder
    <2>9. QED BY <2>2, <2>3, <2>4, <2>8
  <1>4. QED BY <1>2, <1>3

\* RR, RNR and REJ.
LEMMA HandleSOrder ==
  ASSUME NEW e \in Endpoints, NEW s, NEW rx, NEW vr, Sender(e, s, rx, vr),
         NEW f \in SFrame
  PROVE  Sender(e, HandleS(s, f), rx, vr)
  <1> DEFINE busy == f.type = "RNR"
             a == Ack(s, f.nr)
             t == [a EXCEPT !.peer_busy = busy,
                            !.retries = IF busy THEN 0 ELSE @,
                            !.since_ack = IF busy THEN 0 ELSE @]
             r == RetransmitFrom(t, f.nr)
             v == [r EXCEPT !.retries = 0]
             u == IF f.type = "REJ" THEN v ELSE t
  <1>1. f.nr \in SeqNo
    BY DEF SFrame
  <1>2. CASE ~ AckValid(s, f.nr)
    BY <1>2, SendFrmrOrder DEF HandleS
  <1>3. CASE AckValid(s, f.nr)
    <2>1. Sender(e, a, rx, vr) /\ EndpointOK(e, a) /\ a \in EndpointType /\ a.va = f.nr
      BY <1>1, <1>3, AckOrder, AckOK DEF Sender, EndpointOK
    <2>2. HandleS(s, f) = IF f.pf /\ f.cmd
                          THEN Queue(u, Supervisory("RR", u, TRUE, FALSE)) ELSE u
      BY <1>3 DEF HandleS
    <2> HIDE DEF a
    <2>3. busy \in BOOLEAN
      OBVIOUS
    <2> HIDE DEF busy
    <2>4. t \in EndpointType
      BY <2>1, <2>3 DEF EndpointType
    <2>5. /\ t.vs = a.vs /\ t.va = a.va /\ t.held = a.held /\ t.window = a.window
          /\ Alike(a, t)
      BY <2>1 DEF EndpointType, Alike
    <2> HIDE DEF t
    <2>6. Sender(e, t, rx, vr)
      BY <2>1, <2>4, <2>5, SameWindow, AlikeOrder
    <2>7. Sender(e, r, rx, vr) /\ EndpointOK(e, r) /\ r \in EndpointType
      BY <2>1, <2>5, <2>6, RetransmitOrder DEF Sender, EndpointOK
    <2> HIDE DEF r
    <2>8. v \in EndpointType
      BY <2>7 DEF EndpointType
    <2>9. /\ v.vs = r.vs /\ v.va = r.va /\ v.held = r.held /\ v.window = r.window
          /\ Alike(r, v)
      BY <2>7 DEF EndpointType, Alike
    <2> HIDE DEF v
    <2>10. Sender(e, v, rx, vr)
      BY <2>7, <2>8, <2>9, SameWindow, AlikeOrder
    <2>11. Sender(e, u, rx, vr)
      BY <2>6, <2>10
    <2> HIDE DEF u
    <2>12. Sender(e, Queue(u, Supervisory("RR", u, TRUE, FALSE)), rx, vr)
      BY <2>11, SupervisoryOrder
    <2>13. QED BY <2>2, <2>11, <2>12
  <1>4. QED BY <1>2, <1>3

\* A DISC is answered with UA after all that was held is gone.
LEMMA HandleDiscOrder ==
  ASSUME NEW e \in Endpoints, NEW s, NEW rx, NEW vr, Sender(e, s, rx, vr)
  PROVE  Sender(e, Disconnect(Queue([s EXCEPT !.connected = FALSE], U("UA"))), rx, vr)
  <1> DEFINE c == [s EXCEPT !.connected = FALSE]
             q == Queue(c, U("UA"))
             z == [c EXCEPT !.tx_transfer = <<>>, !.tx_stream = <<>>, !.held = {}]
             d == Disconnect(q)
  <1>1. s \in EndpointType /\ c \in EndpointType /\ EndpointOK(e, c)
    <2>1. s \in EndpointType /\ EndpointOK(e, s)
      BY DEF Sender, EndpointOK
    <2>2. c \in EndpointType
      BY <2>1 DEF EndpointType
    <2>3. c.vs = s.vs /\ c.va = s.va /\ c.held = s.held /\ c.window = s.window
      BY <2>1 DEF EndpointType
    <2> HIDE DEF c
    <2>4. QED BY <2>1, <2>2, <2>3, SameWindow
  <1>u. U("UA") \in Frame /\ ~ Info(U("UA"))
    BY FramesOK, PlainFrames
  <1>2. EndpointOK(e, q) /\ EndpointOK(e, d) /\ q \in EndpointType
    <2> HIDE DEF c
    <2>1. EndpointOK(e, q)
      BY <1>1, <1>u, QueueOK
    <2>2. QED BY <2>1, DisconnectOK DEF EndpointOK
  <1>3. /\ c.tx = s.tx /\ c.sent = s.sent /\ c.tx_transfer = s.tx_transfer
        /\ c.tx_stream = s.tx_stream /\ c.codec = s.codec /\ c.held = s.held
        /\ c.unacked = s.unacked /\ c.va = s.va /\ c.connected = FALSE
        /\ c.failed = s.failed /\ c.awaiting_ua = s.awaiting_ua
    BY <1>1 DEF EndpointType
  <1> HIDE DEF c
  <1>4. /\ q.tx = Append(c.tx, U("UA")) /\ q.sent = c.sent
        /\ q.tx_transfer = c.tx_transfer /\ q.tx_stream = c.tx_stream
        /\ q.codec = c.codec /\ q.held = c.held /\ q.unacked = c.unacked
        /\ q.va = c.va /\ q.connected = c.connected /\ q.failed = c.failed
        /\ q.awaiting_ua = c.awaiting_ua
    BY <1>1 DEF Queue, EndpointType
  <1>z. /\ z.tx = c.tx /\ z.sent = c.sent /\ z.tx_transfer = <<>>
        /\ z.tx_stream = <<>> /\ z.held = {} /\ z.codec = c.codec
        /\ z.unacked = c.unacked /\ z.va = c.va
    BY <1>1 DEF EndpointType
  <1> HIDE DEF q, z
  <1>5. CASE s.failed
    <2>1. s.held = {}
      BY <1>5 DEF Sender, Idle
    <2>2. s.tx \in Seq(Frame)
      BY <1>1 DEF EndpointType
    <2>3. Order(q, Window[e], rx, vr)
      BY <1>3, <1>4, <1>u, <2>1, <2>2, AppendOrder DEF Sender
    <2>4. Idle(q)
      BY <1>3, <1>4, <2>1 DEF Idle
    <2>5. QED BY <1>2, <2>3, <2>4, DisconnectOrder DEF q, c
  <1>6. CASE ~ s.failed
    <2> DEFINE r == ResetTransmit(q)
    <2>1. d = [r EXCEPT !.connected = FALSE, !.awaiting_ua = FALSE,
                        !.tx_stream = <<>>, !.failed = TRUE]
      BY <1>3, <1>4, <1>6 DEF Disconnect
    <2>2. r \in EndpointType
      BY <1>2, ResetTransmitOK DEF EndpointOK
    <2>3. /\ r.tx = q.tx /\ r.sent = q.sent /\ r.tx_transfer = <<>>
          /\ r.held = {} /\ r.codec = q.codec
      BY <1>2, ResetFields
    <2> HIDE DEF r, d
    <2>4. /\ d.tx = r.tx /\ d.sent = r.sent /\ d.tx_transfer = r.tx_transfer
          /\ d.tx_stream = <<>> /\ d.held = r.held /\ d.connected = FALSE
          /\ d.codec = r.codec
      BY <2>1, <2>2 DEF EndpointType
    <2>5. Order(z, Window[e], rx, vr)
      BY <1>3, <1>z, ClearOrder DEF Sender
    <2> DEFINE y == [z EXCEPT !.tx = Append(@, U("UA"))]
    <2>6. /\ y.tx = Append(z.tx, U("UA")) /\ y.sent = z.sent
          /\ y.tx_transfer = z.tx_transfer /\ y.tx_stream = z.tx_stream
          /\ y.codec = z.codec /\ y.held = z.held /\ y.unacked = z.unacked
          /\ y.va = z.va
      BY <1>1 DEF z, EndpointType
    <2> HIDE DEF y
    <2>7. Order(y, Window[e], rx, vr)
      <3>1. z.tx \in Seq(Frame)
        BY <1>1, <1>z DEF EndpointType
      <3>2. QED BY <1>u, <1>z, <2>5, <2>6, <3>1, AppendOrder
    <2>8. Order(d, Window[e], rx, vr)
      <3>1. d.held = {} /\ d.tx_transfer = <<>> /\ d.tx_stream = <<>>
            /\ d.tx = y.tx /\ d.sent = y.sent
        BY <1>4, <1>z, <2>3, <2>4, <2>6
      <3>2. QED BY <2>7, <3>1, ClearOrder
    <2>9. Idle(d)
      BY <2>3, <2>4 DEF Idle
    <2>10. QED BY <1>2, <2>8, <2>9 DEF Sender, d, q, c
  <1>7. QED BY <1>5, <1>6

\* _handle as a whole, for the receiver's own sending.
LEMMA HandleOrder ==
  ASSUME NEW e \in Endpoints, NEW r, NEW rx, NEW vr, Sender(e, r, rx, vr),
         NEW f \in Frame, NEW cerror \in BOOLEAN
  PROVE  Sender(e, Handle(e, r, f, cerror), rx, vr)
  <1> DEFINE s == [r EXCEPT !.inactivity = 0]
  <1> DEFINE c == [s EXCEPT !.connected = FALSE]
  <1>1. s \in EndpointType /\ Sender(e, s, rx, vr)
    <2>1. r \in EndpointType /\ EndpointOK(e, r)
      BY DEF Sender, EndpointOK
    <2>2. s \in EndpointType /\ Alike(r, s)
      BY <2>1 DEF EndpointType, Alike
    <2>3. EndpointOK(e, s)
      BY <2>1, TimersOK
    <2> HIDE DEF s
    <2>4. QED BY <2>1, <2>2, <2>3, AlikeOrder
  <1>h. Handle(e, r, f, cerror) =
       CASE f.type = "XID" -> HandleXid(e, s, f)
         [] f.type = "UA" -> IF s.awaiting_ua THEN Establish(s) ELSE s
         [] f.type = "SABME" -> Queue(Establish(s), U("UA"))
         [] f.type = "DISC" -> Disconnect(Queue(c, U("UA")))
         [] f.type = "FRMR" -> SendFrmr(s)
         [] f.type \in {"I", "RR", "RNR", "REJ"} /\ s.awaiting_ua -> s
         [] f.type = "I" /\ ~ s.awaiting_ua -> HandleI(s, f, cerror)
         [] f.type \in {"RR", "RNR", "REJ"} /\ ~ s.awaiting_ua -> HandleS(s, f)
    BY DEF Handle
  <1>d. Sender(e, Disconnect(Queue(c, U("UA"))), rx, vr)
    <2> HIDE DEF s
    <2>1. QED BY <1>1, HandleDiscOrder
  <1> HIDE DEF s, c
  <1>3. CASE f \in XidFrame
    <2>1. f.type = "XID"
      BY <1>3 DEF XidFrame
    <2>2. Handle(e, r, f, cerror) = HandleXid(e, s, f)
      BY <1>h, <2>1
    <2>3. QED BY <1>1, <1>3, <2>2, HandleXidOrder
  <1>4. CASE f \in UFrame
    <2>1. f.type \in {"SABME", "UA", "DISC", "FRMR"}
      BY <1>4 DEF UFrame
    <2>2. Handle(e, r, f, cerror) \in
            {s, Establish(s), Queue(Establish(s), U("UA")),
             Disconnect(Queue(c, U("UA"))), SendFrmr(s)}
      BY <1>h, <2>1
    <2>3. Sender(e, Establish(s), rx, vr) /\ Establish(s).held = {}
      BY <1>1, EstablishOrder
    <2>4. Sender(e, Queue(Establish(s), U("UA")), rx, vr)
      BY <2>3, QueueOrder, FramesOK, PlainFrames
    <2>6. Sender(e, SendFrmr(s), rx, vr)
      BY <1>1, SendFrmrOrder
    <2>7. QED BY <1>1, <1>d, <2>2, <2>3, <2>4, <2>6
  <1>5. CASE f \in IFrame
    <2>1. f.type = "I"
      BY <1>5 DEF IFrame
    <2>2. Handle(e, r, f, cerror) \in {s, HandleI(s, f, cerror)}
      BY <1>h, <2>1
    <2>3. QED BY <1>1, <1>5, <2>2, HandleIOrder
  <1>6. CASE f \in SFrame
    <2>1. f.type \in {"RR", "RNR", "REJ"}
      BY <1>6 DEF SFrame
    <2>2. Handle(e, r, f, cerror) \in {s, HandleS(s, f)}
      BY <1>h, <2>1
    <2>3. QED BY <1>1, <1>6, <2>2, HandleSOrder
  <1>7. QED BY <1>3, <1>4, <1>5, <1>6 DEF Frame
-----------------------------------------------------------------------------
(* take.                                                                    *)

\* Timers and counters are no part of the order.
LEMMA TimersOrder ==
  ASSUME NEW e \in Endpoints, NEW s, NEW rx, NEW vr, Sender(e, s, rx, vr),
         NEW n \in Nat, NEW m \in Nat
  PROVE  /\ Sender(e, [s EXCEPT !.since_ack = n], rx, vr)
         /\ Sender(e, [s EXCEPT !.inactivity = n], rx, vr)
         /\ Sender(e, [s EXCEPT !.establish_ticks = n], rx, vr)
         /\ Sender(e, [s EXCEPT !.suspended_for = n], rx, vr)
         /\ Sender(e, [s EXCEPT !.retries = n], rx, vr)
         /\ Sender(e, [s EXCEPT !.retries = n, !.establish_ticks = m], rx, vr)
         /\ Sender(e, [s EXCEPT !.retries = n, !.since_ack = m], rx, vr)
         /\ Sender(e, Resume(s), rx, vr)
  <1>1. s \in EndpointType /\ EndpointOK(e, s)
    BY DEF Sender, EndpointOK
  <1>2. /\ Alike(s, [s EXCEPT !.since_ack = n])
        /\ Alike(s, [s EXCEPT !.inactivity = n])
        /\ Alike(s, [s EXCEPT !.establish_ticks = n])
        /\ Alike(s, [s EXCEPT !.suspended_for = n])
        /\ Alike(s, [s EXCEPT !.retries = n])
        /\ Alike(s, [s EXCEPT !.retries = n, !.establish_ticks = m])
        /\ Alike(s, [s EXCEPT !.retries = n, !.since_ack = m])
        /\ Alike(s, Resume(s))
    BY <1>1 DEF EndpointType, Alike, Resume
  <1>3. EndpointOK(e, Resume(s))
    BY <1>1, ResumeOK
  <1>4. QED BY <1>1, <1>2, <1>3, TimersOK, AlikeOrder

\* _fill_window, with the rest of what a sender keeps in order.
LEMMA FillWindowSender ==
  ASSUME NEW e \in Endpoints, NEW s, NEW rx \in Octets, NEW vr, Sender(e, s, rx, vr)
  PROVE  Sender(e, FillWindow(s), rx, vr)
  <1>1. CASE ~ s.connected \/ s.peer_busy
    BY <1>1 DEF FillWindow
  <1>2. CASE ~ (~ s.connected \/ s.peer_busy)
    <2>1. s \in EndpointType
      BY DEF Sender, EndpointOK
    <2>2. /\ FillWindow(s).connected = s.connected
          /\ FillWindow(s).failed = s.failed
          /\ FillWindow(s).awaiting_ua = s.awaiting_ua
      BY <1>2, <2>1 DEF FillWindow, EndpointType
    <2>3. Idle(FillWindow(s))
      BY <1>2, <2>2 DEF Sender, Idle
    <2>4. QED BY <2>3, FillWindowOK, FillWindowOrder DEF Sender
  <1>3. QED BY <1>1, <1>2

\* T401 on the SABME: it is sent again while nothing is held.
LEMMA EstablishTickOrder ==
  ASSUME NEW e \in Endpoints, NEW s, NEW rx, NEW vr, Sender(e, s, rx, vr)
  PROVE  Sender(e, EstablishTick(s), rx, vr)
  <1> DEFINE a == [s EXCEPT !.establish_ticks = @ + 1]
  <1> DEFINE b == [s EXCEPT !.retries = @ + 1, !.establish_ticks = 0]
  <1>1. s.establish_ticks + 1 \in Nat /\ s.retries + 1 \in Nat /\ s \in EndpointType
    BY DEF Sender, EndpointOK, EndpointType
  <1>2. Sender(e, a, rx, vr) /\ Sender(e, b, rx, vr)
    BY <1>1, TimersOrder
  <1>3. \/ EstablishTick(s) \in {s, a}
        \/ s.awaiting_ua /\ EstablishTick(s) = Queue(b, U("SABME"))
    BY DEF EstablishTick
  <1>4. b.held = s.held
    BY <1>1 DEF EndpointType
  <1> HIDE DEF a, b
  <1>5. s.awaiting_ua => b.held = {}
    BY <1>4 DEF Sender, Idle
  <1>6. s.awaiting_ua => Sender(e, Queue(b, U("SABME")), rx, vr)
    BY <1>2, <1>5, QueueOrder, FramesOK, PlainFrames
  <1>7. QED BY <1>2, <1>3, <1>6

\* The timer on a busy peer.
LEMMA BusyTickOrder ==
  ASSUME NEW e \in Endpoints, NEW s, NEW rx, NEW vr, Sender(e, s, rx, vr)
  PROVE  Sender(e, BusyTick(s), rx, vr)
  <1> DEFINE a == [s EXCEPT !.since_ack = @ + 1]
  <1> DEFINE q == Queue(s, Supervisory("RR", s, TRUE, TRUE))
  <1> DEFINE b == [q EXCEPT !.retries = @ + 1, !.since_ack = 0]
  <1>1. s.since_ack + 1 \in Nat
    BY DEF Sender, EndpointOK, EndpointType
  <1>2. Sender(e, a, rx, vr)
    BY <1>1, TimersOrder
  <1>3. Sender(e, q, rx, vr)
    BY SupervisoryOrder
  <1>4. BusyTick(s) \in {a, b, LinkFailure(s)}
    BY DEF BusyTick
  <1> HIDE DEF a, q
  <1>5. q.retries + 1 \in Nat
    <2>1. q.retries \in Nat
      BY <1>3 DEF Sender, EndpointOK, EndpointType
    <2>2. QED BY <2>1
  <1>6. Sender(e, b, rx, vr)
    BY <1>3, <1>5, TimersOrder
  <1> HIDE DEF b
  <1>7. QED BY <1>2, <1>4, <1>6, LinkFailureOrder

\* The timer on an unacknowledged window.
LEMMA WindowTickOrder ==
  ASSUME NEW e \in Endpoints, NEW s, NEW rx, NEW vr, Sender(e, s, rx, vr)
  PROVE  Sender(e, WindowTick(s), rx, vr)
  <1> DEFINE z == [s EXCEPT !.since_ack = 0]
  <1> DEFINE t == [s EXCEPT !.since_ack = @ + 1]
  <1> DEFINE q == Queue(t, Supervisory("RR", t, TRUE, TRUE))
  <1> DEFINE g == RetransmitFrom(t, t.va)
  <1> DEFINE b == [g EXCEPT !.retries = @ + 1]
  <1>1. s.since_ack + 1 \in Nat
    BY DEF Sender, EndpointOK, EndpointType
  <1>2. Sender(e, z, rx, vr) /\ Sender(e, t, rx, vr)
    BY <1>1, TimersOrder
  <1>3. WindowTick(s) \in {z, t, q, b, LinkFailure(t)}
    BY DEF WindowTick
  <1> HIDE DEF z, t
  <1>4. Sender(e, q, rx, vr)
    BY <1>2, SupervisoryOrder
  <1>5. Sender(e, g, rx, vr)
    BY <1>2, RetransmitOrder
  <1> HIDE DEF q, g
  <1>6. g.retries + 1 \in Nat
    <2>1. g.retries \in Nat
      BY <1>5 DEF Sender, EndpointOK, EndpointType
    <2>2. QED BY <2>1
  <1>7. Sender(e, b, rx, vr)
    BY <1>5, <1>6, TimersOrder
  <1> HIDE DEF b
  <1>8. QED BY <1>2, <1>3, <1>4, <1>7, LinkFailureOrder

\* _service as a whole.
LEMMA ServiceOrder ==
  ASSUME NEW e \in Endpoints, NEW r, NEW rx \in Octets, NEW vr, Sender(e, r, rx, vr)
  PROVE  Sender(e, Service(r), rx, vr)
  <1> DEFINE f == FillWindow(r)
  <1> DEFINE i == [f EXCEPT !.inactivity = @ + 1]
  <1> DEFINE s == IF InactivityAfter > 0 THEN i ELSE f
  <1> DEFINE t == EstablishTick(s)
  <1> DEFINE h == [r EXCEPT !.suspended_for = @ - 1]
  <1>1. Sender(e, f, rx, vr)
    BY FillWindowSender
  <1>2. Service(r) =
          CASE r.failed -> r
            [] ~ r.failed /\ Suspended(r) -> HoldTick(r)
            [] ~ r.failed /\ ~ Suspended(r) ->
                 IF InactivityDue(f) \/ (EstablishDue(s) /\ s.retries >= N400)
                 THEN Disconnect(s)
                 ELSE IF t.peer_busy THEN BusyTick(t) ELSE WindowTick(t)
    BY DEF Service
  <1> HIDE DEF f
  <1>3. f.inactivity + 1 \in Nat
    <2>1. f.inactivity \in Nat
      BY <1>1 DEF Sender, EndpointOK, EndpointType
    <2>2. QED BY <2>1
  <1>4. Sender(e, i, rx, vr)
    BY <1>1, <1>3, TimersOrder
  <1> HIDE DEF i
  <1>5. Sender(e, s, rx, vr)
    BY <1>1, <1>4
  <1> HIDE DEF s
  <1>6. Sender(e, t, rx, vr)
    BY <1>5, EstablishTickOrder
  <1> HIDE DEF t
  <1>7. CASE r.failed
    BY <1>2, <1>7
  <1>8. CASE ~ r.failed /\ Suspended(r)
    <2>1. r.suspended_for - 1 \in Nat
      <3>1. r.suspended_for \in Nat /\ r.suspended_for > 0
        BY <1>8 DEF Sender, EndpointOK, EndpointType, Suspended
      <3>2. QED BY <3>1
    <2>2. Sender(e, h, rx, vr)
      BY <2>1, TimersOrder
    <2>3. HoldTick(r) \in {h, Resume(h)}
      BY DEF HoldTick
    <2> HIDE DEF h
    <2>4. Sender(e, Resume(h), rx, vr)
      BY <2>2, TimersOrder
    <2>5. QED BY <1>2, <1>8, <2>2, <2>3, <2>4
  <1>9. CASE ~ r.failed /\ ~ Suspended(r)
    <2>1. Service(r) \in {Disconnect(s), BusyTick(t), WindowTick(t)}
      BY <1>2, <1>9
    <2>2. QED BY <1>5, <1>6, <2>1, DisconnectOrder, BusyTickOrder, WindowTickOrder
               DEF Sender
  <1>10. QED BY <1>7, <1>8, <1>9
-----------------------------------------------------------------------------
(* What an operation puts into the queue, and what it leaves of the         *)
(* receiving half.                                                          *)

InQueue(tx) == {tx[i] : i \in 1 .. Len(tx)}

\* The frames an end whose codec is c makes of its own accord.
Own(c) == {f \in Frame : f.type # "XID" /\ (Info(f) => f.comp = c)}

\* The codec stays, and only frames made with it join the queue.
Emits(s, t) ==
  t.codec = s.codec /\ InQueue(t.tx) \subseteq InQueue(s.tx) \cup Own(s.codec)

\* Nothing is handed up and the number expected stays.
Deaf(s, t) == t.rx_data = s.rx_data /\ t.vr = s.vr

Quiet(s, t) == Emits(s, t) /\ Deaf(s, t)

LEMMA QuietTrans ==
  ASSUME NEW s, NEW t, NEW u
  PROVE  /\ Emits(s, t) /\ Emits(t, u) => Emits(s, u)
         /\ Quiet(s, t) /\ Quiet(t, u) => Quiet(s, u)
  BY DEF Quiet, Emits, Deaf

LEMMA OwnFrames ==
  ASSUME NEW c
  PROVE  /\ \A t \in {"SABME", "UA", "DISC", "FRMR"} : U(t) \in Own(c)
         /\ \A t \in {"RR", "RNR", "REJ"}, pf, cmd \in BOOLEAN, s \in EndpointType :
              Supervisory(t, s, pf, cmd) \in Own(c)
  <1>1. \A t \in {"SABME", "UA", "DISC", "FRMR"} : U(t) \in Own(c)
    BY FramesOK, PlainFrames DEF Own, U
  <1>2. \A t \in {"RR", "RNR", "REJ"}, pf, cmd \in BOOLEAN, s \in EndpointType :
           Supervisory(t, s, pf, cmd) \in Own(c)
    BY FramesOK, PlainFrames DEF Own, Supervisory
  <1>3. QED BY <1>1, <1>2

\* Joining frames to a queue.
LEMMA InQueueConcat ==
  ASSUME NEW S, NEW a \in Seq(S), NEW b \in Seq(S)
  PROVE  InQueue(a \o b) \subseteq InQueue(a) \cup InQueue(b)
  <1> SUFFICES ASSUME NEW i \in 1 .. Len(a \o b)
               PROVE  (a \o b)[i] \in InQueue(a) \cup InQueue(b)
    BY DEF InQueue
  <1>1. CASE i <= Len(a)
    <2>1. i \in 1 .. Len(a) /\ (a \o b)[i] = a[i]
      BY <1>1, ConcatProperties
    <2>2. QED BY <2>1 DEF InQueue
  <1>2. CASE i > Len(a)
    <2>1. i - Len(a) \in 1 .. Len(b) /\ (a \o b)[i] = b[i - Len(a)]
      BY <1>2, ConcatProperties
    <2>2. QED BY <2>1 DEF InQueue
  <1>3. QED BY <1>1, <1>2, ConcatProperties

LEMMA QueueQuiet ==
  ASSUME NEW s \in EndpointType, NEW f \in Own(s.codec)
  PROVE  Quiet(s, Queue(s, f))
  <1> DEFINE t == Queue(s, f)
  <1>1. /\ t.tx = Append(s.tx, f) /\ t.codec = s.codec
        /\ t.rx_data = s.rx_data /\ t.vr = s.vr /\ s.tx \in Seq(Frame)
    BY DEF Queue, EndpointType
  <1>2. f \in Frame
    BY DEF Own
  <1> HIDE DEF t
  <1>3. InQueue(t.tx) \subseteq InQueue(s.tx) \cup {f}
    <2> SUFFICES ASSUME NEW i \in 1 .. Len(t.tx)
                 PROVE  t.tx[i] \in InQueue(s.tx) \cup {f}
      BY DEF InQueue
    <2>1. t.tx[i] = f \/ (i \in 1 .. Len(s.tx) /\ t.tx[i] = s.tx[i])
      BY <1>1, <1>2, AppendProperties
    <2>2. QED BY <2>1 DEF InQueue
  <1>4. QED BY <1>1, <1>3 DEF Quiet, Emits, Deaf, t

\* A step that leaves the queue and the codec alone.
LEMMA SameQuiet ==
  ASSUME NEW s, NEW t, t.tx = s.tx, t.codec = s.codec
  PROVE  Emits(s, t) /\ (t.rx_data = s.rx_data /\ t.vr = s.vr => Quiet(s, t))
  BY DEF Quiet, Emits, Deaf

LEMMA ResetQuiet ==
  ASSUME NEW s \in EndpointType
  PROVE  Quiet(s, ResetTransmit(s)) /\ Emits(s, Establish(s))
         /\ Establish(s).rx_data = s.rx_data
  <1> DEFINE r == ResetTransmit(s)
             t == Establish(s)
  <1>1. /\ r.tx = s.tx /\ r.codec = s.codec /\ r.rx_data = s.rx_data
        /\ r.vr = s.vr
    BY ResetFields
  <1>2. t.tx = s.tx /\ t.codec = s.codec /\ t.rx_data = s.rx_data
    BY DEF Establish, ResetTransmit, EndpointType
  <1> HIDE DEF r, t
  <1>3. QED BY <1>1, <1>2, SameQuiet DEF r, t

LEMMA DisconnectQuiet ==
  ASSUME NEW e \in Endpoints, NEW s, EndpointOK(e, s)
  PROVE  Quiet(s, Disconnect(s)) /\ Quiet(s, SendFrmr(s))
  <1>1. ASSUME NEW x, EndpointOK(e, x) PROVE Quiet(x, Disconnect(x))
    <2> DEFINE q == Queue(x, U("DISC"))
               t == IF x.connected THEN q ELSE x
               r == ResetTransmit(t)
               d == [r EXCEPT !.connected = FALSE, !.awaiting_ua = FALSE,
                              !.tx_stream = <<>>, !.failed = TRUE]
    <2>1. x \in EndpointType /\ EndpointOK(e, q)
      BY <1>1, QueueOK, FramesOK DEF EndpointOK
    <2>2. Quiet(x, q) /\ Quiet(x, x)
      BY <2>1, OwnFrames, QueueQuiet, SameQuiet
    <2>3. Disconnect(x) = IF x.failed THEN x ELSE d
      BY DEF Disconnect
    <2> HIDE DEF q
    <2>4. Quiet(x, t) /\ t \in EndpointType
      BY <2>1, <2>2 DEF EndpointOK
    <2> HIDE DEF t
    <2>5. Quiet(t, r)
      BY <2>4, ResetQuiet
    <2>6. d.tx = r.tx /\ d.codec = r.codec /\ d.rx_data = r.rx_data /\ d.vr = r.vr
      BY <2>4 DEF ResetTransmit, EndpointType
    <2> HIDE DEF r, d
    <2>7. Quiet(r, d)
      BY <2>6, SameQuiet
    <2>8. QED BY <2>2, <2>3, <2>4, <2>5, <2>7, QuietTrans
  <1>2. Quiet(s, Disconnect(s))
    BY <1>1
  <1>3. Quiet(s, Queue(s, U("FRMR"))) /\ EndpointOK(e, Queue(s, U("FRMR")))
    BY QueueOK, FramesOK, OwnFrames, QueueQuiet DEF EndpointOK
  <1>4. Quiet(Queue(s, U("FRMR")), SendFrmr(s))
    BY <1>1, <1>3 DEF SendFrmr
  <1>5. QED BY <1>2, <1>3, <1>4, QuietTrans

LEMMA LinkFailureQuiet ==
  ASSUME NEW e \in Endpoints, NEW s, EndpointOK(e, s)
  PROVE  Quiet(s, LinkFailure(s))
  <1> DEFINE r == ResetTransmit(s)
             d == [r EXCEPT !.reestablish_left = @ - 1, !.connected = FALSE,
                            !.tx_stream = <<>>, !.awaiting_ua = TRUE,
                            !.establish_ticks = 0]
             q == Queue(d, U("SABME"))
  <1>1. s \in EndpointType /\ Quiet(s, r)
    BY ResetQuiet DEF EndpointOK
  <1>2. LinkFailure(s) \in {Disconnect(s), q}
    BY DEF LinkFailure
  <1>3. /\ q.tx = Append(s.tx, U("SABME")) /\ q.codec = s.codec
        /\ q.rx_data = s.rx_data /\ q.vr = s.vr
    BY <1>1 DEF Queue, ResetTransmit, EndpointType
  <1> DEFINE p == Queue(s, U("SABME"))
  <1>4. /\ p.tx = Append(s.tx, U("SABME")) /\ p.codec = s.codec
        /\ p.rx_data = s.rx_data /\ p.vr = s.vr
    BY <1>1 DEF Queue, EndpointType
  <1>5. Quiet(s, p)
    BY <1>1, OwnFrames, QueueQuiet
  <1> HIDE DEF p, q
  <1>6. Quiet(p, q)
    BY <1>3, <1>4, SameQuiet
  <1>7. QED BY <1>2, <1>5, <1>6, DisconnectQuiet, QuietTrans

LEMMA AckQuiet ==
  ASSUME NEW s \in EndpointType, NEW nr
  PROVE  Quiet(s, Ack(s, nr))
  <1> DEFINE t == Ack(s, nr)
  <1>1. t.tx = s.tx /\ t.codec = s.codec /\ t.rx_data = s.rx_data /\ t.vr = s.vr
    BY DEF Ack, EndpointType
  <1> HIDE DEF t
  <1>2. QED BY <1>1, SameQuiet DEF t

\* The I frames of a go-back-N, and the fresh ones, are made with the codec.
LEMMA InfoQuiet ==
  ASSUME NEW s, s.tx \in Seq(Frame), NEW t, NEW n \in Nat, NEW new,
         new \in [1 .. n -> Own(s.codec)],
         t.tx = s.tx \o new, t.codec = s.codec, t.rx_data = s.rx_data, t.vr = s.vr
  PROVE  Quiet(s, t)
  <1>1. Own(s.codec) \subseteq Frame
    BY DEF Own
  <1>2. new \in Seq(Own(s.codec)) /\ new \in Seq(Frame) /\ Len(new) = n
    BY <1>1, FunctionIsSeq
  <1>3. InQueue(new) \subseteq Own(s.codec)
    BY <1>2 DEF InQueue
  <1>4. InQueue(s.tx \o new) \subseteq InQueue(s.tx) \cup InQueue(new)
    BY <1>2, InQueueConcat
  <1>5. QED BY <1>3, <1>4 DEF Quiet, Emits, Deaf
LEMMA InfoFrameOwn ==
  ASSUME NEW s \in EndpointType, NEW ns \in SeqNo, NEW data \in Octets
  PROVE  InfoFrame(s, ns, data) \in Own(s.codec)
  <1>1. InfoFrame(s, ns, data) \in Frame
    BY FramesOK
  <1>2. InfoFrame(s, ns, data).type = "I" /\ InfoFrame(s, ns, data).comp = s.codec
    BY DEF InfoFrame
  <1>3. QED BY <1>1, <1>2 DEF Own

LEMMA RetransmitQuiet ==
  ASSUME NEW e \in Endpoints, NEW s, EndpointOK(e, s)
  PROVE  Quiet(s, RetransmitFrom(s, s.va))
  <1> DEFINE n == RunLength(s, s.va)
             new == [i \in 1 .. n |->
                       InfoFrame(s, Add(s.va, i - 1), s.unacked[Add(s.va, i - 1)])]
             t == RetransmitFrom(s, s.va)
  <1>1. /\ s \in EndpointType /\ s.va \in SeqNo /\ s.tx \in Seq(Frame)
        /\ s.unacked \in [SeqNo -> Octets]
    BY DEF EndpointOK, EndpointType
  <1>2. n \in 0 .. (Mod - 1) /\ Mod \in Nat \ {0}
    BY RunLengthOK, SequenceAssumption
  <1>3. /\ t.tx = s.tx \o new /\ t.codec = s.codec
        /\ t.rx_data = s.rx_data /\ t.vr = s.vr
    BY <1>1 DEF RetransmitFrom, EndpointType
  <1> HIDE DEF n, t
  <1>4. \A i \in 1 .. n : Add(s.va, i - 1) \in SeqNo
    BY <1>1, <1>2, AddValue
  <1>5. new \in [1 .. n -> Own(s.codec)] /\ n \in Nat
    BY <1>1, <1>2, <1>4, InfoFrameOwn
  <1> HIDE DEF new
  <1>6. QED BY <1>1, <1>3, <1>5, InfoQuiet DEF t

LEMMA FillWindowQuiet ==
  ASSUME NEW e \in Endpoints, NEW s, EndpointOK(e, s)
  PROVE  Quiet(s, FillWindow(s))
  <1> DEFINE n == Fitting(s)
             new == [i \in 1 .. n |->
                       InfoFrame(s, Add(s.vs, i - 1), Chunk(s, i))]
             t == FillWindow(s)
  <1>1. s \in EndpointType /\ s.vs \in SeqNo /\ s.tx \in Seq(Frame)
    BY DEF EndpointOK, EndpointType
  <1>2. n \in Nat /\ Mod \in Nat \ {0}
    BY <1>1, FittingOK, SequenceAssumption
  <1>3. CASE ~ s.connected \/ s.peer_busy
    BY <1>3, SameQuiet DEF FillWindow
  <1>4. CASE ~ (~ s.connected \/ s.peer_busy)
    <2>1. /\ t.tx = s.tx \o new /\ t.codec = s.codec
          /\ t.rx_data = s.rx_data /\ t.vr = s.vr
      BY <1>1, <1>4 DEF FillWindow, EndpointType
    <2> HIDE DEF n, t
    <2>2. \A i \in 1 .. n : Add(s.vs, i - 1) \in SeqNo /\ Chunk(s, i) \in Octets
      <3> SUFFICES ASSUME NEW i \in 1 .. n
                   PROVE  Add(s.vs, i - 1) \in SeqNo /\ Chunk(s, i) \in Octets
        OBVIOUS
      <3>1. s.vs + (i - 1) \in Nat /\ i \in Nat \ {0}
        BY <1>1, <1>2 DEF SeqNo
      <3>2. (s.vs + (i - 1)) % Mod \in 0 .. (Mod - 1)
        BY <1>2, <3>1
      <3>3. QED BY <1>1, <3>1, <3>2, ChunkOK DEF Add, SeqNo
    <2>3. new \in [1 .. n -> Own(s.codec)]
      BY <1>1, <1>2, <2>2, InfoFrameOwn
    <2> HIDE DEF new
    <2>4. QED BY <1>1, <1>2, <2>1, <2>3, InfoQuiet DEF t
  <1>5. QED BY <1>3, <1>4

\* Timers and counters are no part of it either.
LEMMA TimersQuiet ==
  ASSUME NEW s \in EndpointType, NEW n, NEW m
  PROVE  /\ Quiet(s, [s EXCEPT !.since_ack = n])
         /\ Quiet(s, [s EXCEPT !.inactivity = n])
         /\ Quiet(s, [s EXCEPT !.establish_ticks = n])
         /\ Quiet(s, [s EXCEPT !.suspended_for = n])
         /\ Quiet(s, [s EXCEPT !.retries = n])
         /\ Quiet(s, [s EXCEPT !.retries = n, !.establish_ticks = m])
         /\ Quiet(s, [s EXCEPT !.retries = n, !.since_ack = m])
         /\ Quiet(s, Resume(s))
  BY DEF Quiet, Emits, Deaf, EndpointType, Resume

LEMMA EstablishTickQuiet ==
  ASSUME NEW e \in Endpoints, NEW s, EndpointOK(e, s)
  PROVE  Quiet(s, EstablishTick(s))
  <1> DEFINE a == [s EXCEPT !.establish_ticks = @ + 1]
             b == [s EXCEPT !.retries = @ + 1, !.establish_ticks = 0]
  <1>1. /\ s \in EndpointType /\ s.retries + 1 \in Nat
    BY DEF EndpointOK, EndpointType
  <1>2. Quiet(s, a) /\ Quiet(s, b) /\ Quiet(s, s)
    BY <1>1, TimersQuiet, SameQuiet
  <1>3. b \in EndpointType
    BY <1>1, TimersOK DEF EndpointOK
  <1>4. EstablishTick(s) \in {s, a, Queue(b, U("SABME"))}
    BY DEF EstablishTick
  <1> HIDE DEF a, b
  <1>5. Quiet(b, Queue(b, U("SABME")))
    BY <1>3, OwnFrames, QueueQuiet
  <1>6. QED BY <1>2, <1>4, <1>5, QuietTrans

LEMMA BusyTickQuiet ==
  ASSUME NEW e \in Endpoints, NEW s, EndpointOK(e, s)
  PROVE  Quiet(s, BusyTick(s))
  <1> DEFINE a == [s EXCEPT !.since_ack = @ + 1]
             q == Queue(s, Supervisory("RR", s, TRUE, TRUE))
             b == [q EXCEPT !.retries = @ + 1, !.since_ack = 0]
  <1>1. s \in EndpointType
    BY DEF EndpointOK
  <1>2. Quiet(s, a) /\ Quiet(s, q) /\ q \in EndpointType
    BY <1>1, TimersQuiet, OwnFrames, QueueQuiet, QueueOK, FramesOK DEF EndpointOK
  <1>3. BusyTick(s) \in {a, b, LinkFailure(s)}
    BY DEF BusyTick
  <1> HIDE DEF a, q
  <1>4. Quiet(q, b)
    BY <1>2, TimersQuiet
  <1> HIDE DEF b
  <1>5. QED BY <1>2, <1>3, <1>4, LinkFailureQuiet, QuietTrans

LEMMA WindowTickQuiet ==
  ASSUME NEW e \in Endpoints, NEW s, EndpointOK(e, s)
  PROVE  Quiet(s, WindowTick(s))
  <1> DEFINE z == [s EXCEPT !.since_ack = 0]
             t == [s EXCEPT !.since_ack = @ + 1]
             q == Queue(t, Supervisory("RR", t, TRUE, TRUE))
             g == RetransmitFrom(t, t.va)
             b == [g EXCEPT !.retries = @ + 1]
  <1>1. s \in EndpointType /\ s.since_ack + 1 \in Nat
    BY DEF EndpointOK, EndpointType
  <1>2. Quiet(s, z) /\ Quiet(s, t) /\ EndpointOK(e, t) /\ t \in EndpointType
    BY <1>1, TimersQuiet, TimersOK DEF EndpointOK
  <1>3. WindowTick(s) \in {z, t, q, b, LinkFailure(t)}
    BY DEF WindowTick
  <1> HIDE DEF z, t
  <1>4. Quiet(t, q) /\ Quiet(t, g) /\ g \in EndpointType
    BY <1>2, OwnFrames, QueueQuiet, RetransmitQuiet, RetransmitOK DEF EndpointOK
  <1> HIDE DEF q, g
  <1>5. Quiet(g, b)
    BY <1>4, TimersQuiet
  <1> HIDE DEF b
  <1>6. QED BY <1>2, <1>3, <1>4, <1>5, LinkFailureQuiet, QuietTrans

\* take() hands nothing up.
LEMMA ServiceQuiet ==
  ASSUME NEW e \in Endpoints, NEW r, EndpointOK(e, r)
  PROVE  Quiet(r, Service(r))
  <1> DEFINE f == FillWindow(r)
             i == [f EXCEPT !.inactivity = @ + 1]
             s == IF InactivityAfter > 0 THEN i ELSE f
             t == EstablishTick(s)
             h == [r EXCEPT !.suspended_for = @ - 1]
  <1>1. Quiet(r, f) /\ EndpointOK(e, f) /\ f \in EndpointType /\ r \in EndpointType
    BY FillWindowQuiet, FillWindowOK DEF EndpointOK
  <1>2. Service(r) \in {r, HoldTick(r), Disconnect(s), BusyTick(t), WindowTick(t)}
    BY DEF Service
  <1>3. ASSUME Suspended(r) PROVE Quiet(r, HoldTick(r))
    <2>1. r.suspended_for - 1 \in Nat
      <3>1. r.suspended_for \in Nat /\ r.suspended_for > 0
        BY <1>1, <1>3 DEF EndpointType, Suspended
      <3>2. QED BY <3>1
    <2>2. Quiet(r, h) /\ h \in EndpointType
      BY <1>1, <2>1, TimersQuiet, TimersOK DEF EndpointOK
    <2>3. HoldTick(r) \in {h, Resume(h)}
      BY DEF HoldTick
    <2> HIDE DEF h
    <2>4. Quiet(h, Resume(h))
      BY <2>2, TimersQuiet
    <2>5. Quiet(r, Resume(h))
      BY <2>2, <2>4, QuietTrans
    <2>6. QED BY <2>2, <2>3, <2>5
  <1>4. ~ Suspended(r) =>
          Service(r) \in {r, Disconnect(s), BusyTick(t), WindowTick(t)}
    BY DEF Service
  <1> HIDE DEF f
  <1>5. f.inactivity + 1 \in Nat
    <2>1. f.inactivity \in Nat
      BY <1>1 DEF EndpointType
    <2>2. QED BY <2>1
  <1>6. Quiet(f, i) /\ EndpointOK(e, i) /\ Quiet(f, f)
    BY <1>1, <1>5, TimersQuiet, TimersOK, SameQuiet
  <1> HIDE DEF i
  <1>7. Quiet(f, s) /\ EndpointOK(e, s)
    BY <1>1, <1>6
  <1> HIDE DEF s
  <1>8. Quiet(s, t) /\ EndpointOK(e, t)
    BY <1>7, EstablishTickQuiet, EstablishTickOK
  <1> HIDE DEF t
  <1>9. /\ Quiet(s, Disconnect(s)) /\ Quiet(t, BusyTick(t))
        /\ Quiet(t, WindowTick(t)) /\ Quiet(r, r)
    BY <1>7, <1>8, DisconnectQuiet, BusyTickQuiet, WindowTickQuiet, SameQuiet
  <1>10. /\ Quiet(r, Disconnect(s)) /\ Quiet(r, BusyTick(t))
         /\ Quiet(r, WindowTick(t)) /\ Quiet(r, r)
    BY <1>1, <1>7, <1>8, <1>9, QuietTrans
  <1>11. QED BY <1>2, <1>3, <1>4, <1>10 DEF Suspended
\* What a frame does to the receiving half: nothing; or it resets the number
\* expected; or it is the I frame expected, whose octets are handed up.
Hears(r, f, h) ==
  \/ Deaf(r, h)
  \/ Marker(f) /\ h.rx_data = r.rx_data
  \/ /\ Info(f) /\ f.ns = r.vr
     /\ h.rx_data = r.rx_data \o Decode(r, f) /\ h.vr = Add(r.vr, 1)

LEMMA HandleIHears ==
  ASSUME NEW e \in Endpoints, NEW s, EndpointOK(e, s), NEW f \in IFrame,
         NEW cerror \in BOOLEAN
  PROVE  Emits(s, HandleI(s, f, cerror)) /\ Hears(s, f, HandleI(s, f, cerror))
  <1> DEFINE t == Ack(s, f.nr)
             u == [t EXCEPT !.vr = Add(@, 1), !.rx_data = @ \o Decode(s, f),
                            !.rx_dict = IF s.codec THEN @ \o Decode(s, f)
                                        ELSE @]
             rej == Supervisory("REJ", t, FALSE, FALSE)
             rr == Supervisory("RR", u, FALSE, FALSE)
             h == HandleI(s, f, cerror)
  <1>1. /\ f.nr \in SeqNo /\ f.data \in Octets /\ s \in EndpointType /\ Info(f)
    BY DEF IFrame, EndpointOK, Info
  <1>2. CASE Len(f.data) > s.n401 \/ ~ AckValid(s, f.nr)
    BY <1>2, DisconnectQuiet DEF HandleI, Quiet, Hears
  <1>3. CASE ~ (Len(f.data) > s.n401 \/ ~ AckValid(s, f.nr))
    <2>1. EndpointOK(e, t) /\ t \in EndpointType /\ Quiet(s, t)
      BY <1>1, <1>3, AckOK, AckQuiet DEF EndpointOK
    <2>2. \/ h = Queue(t, rej)
          \/ h = Disconnect(t)
          \/ f.ns = s.vr /\ h = Queue(u, rr)
      BY <1>3 DEF HandleI
    <2> HIDE DEF t, h
    <2>3. rej \in Own(t.codec)
      BY <2>1, OwnFrames
    <2>4. CASE h = Queue(t, rej)
      <3>1. Quiet(t, h)
        BY <2>1, <2>3, <2>4, QueueQuiet
      <3>2. QED BY <2>1, <3>1, QuietTrans DEF Quiet, Hears, h
    <2>5. CASE h = Disconnect(t)
      <3>1. Quiet(t, h)
        BY <2>1, <2>5, DisconnectQuiet
      <3>2. QED BY <2>1, <3>1, QuietTrans DEF Quiet, Hears, h
    <2>6. CASE f.ns = s.vr /\ h = Queue(u, rr)
      <3>1. /\ u.tx = t.tx /\ u.codec = t.codec
            /\ u.rx_data = t.rx_data \o Decode(s, f) /\ u.vr = Add(t.vr, 1)
        BY <2>1 DEF EndpointType
      <3>2. u \in EndpointType
        <4>1. Decode(s, f) \in Seq(Nat)
          BY <1>1, DecodeOK
        <4>2. /\ t.rx_data \o Decode(s, f) \in Octets
              /\ (IF s.codec THEN t.rx_dict \o Decode(s, f) ELSE t.rx_dict)
                   \in Octets
          BY <2>1, <4>1, ConcatProperties DEF EndpointType, Octets
        <4>3. Add(t.vr, 1) \in SeqNo
          BY <2>1, NextNumber DEF EndpointType
        <4>4. QED BY <2>1, <4>2, <4>3 DEF EndpointType
      <3> HIDE DEF u
      <3>3. Emits(t, u)
        BY <3>1, SameQuiet
      <3>4. Quiet(u, h)
        BY <2>6, <3>2, OwnFrames, QueueQuiet
      <3>5. Emits(s, h)
        BY <2>1, <3>3, <3>4, QuietTrans DEF Quiet
      <3>6. h.rx_data = s.rx_data \o Decode(s, f) /\ h.vr = Add(s.vr, 1)
        BY <2>1, <3>1, <3>4 DEF Quiet, Deaf
      <3>7. QED BY <1>1, <2>6, <3>5, <3>6 DEF Hears, h
    <2>7. QED BY <2>2, <2>4, <2>5, <2>6
  <1>4. QED BY <1>2, <1>3

LEMMA HandleSQuiet ==
  ASSUME NEW e \in Endpoints, NEW s, EndpointOK(e, s), NEW f \in SFrame
  PROVE  Quiet(s, HandleS(s, f))
  <1> DEFINE busy == f.type = "RNR"
             a == Ack(s, f.nr)
             t == [a EXCEPT !.peer_busy = busy,
                            !.retries = IF busy THEN 0 ELSE @,
                            !.since_ack = IF busy THEN 0 ELSE @]
             r == RetransmitFrom(t, f.nr)
             v == [r EXCEPT !.retries = 0]
             u == IF f.type = "REJ" THEN v ELSE t
  <1>1. f.nr \in SeqNo
    BY DEF SFrame
  <1>2. CASE ~ AckValid(s, f.nr)
    BY <1>2, DisconnectQuiet DEF HandleS
  <1>3. CASE AckValid(s, f.nr)
    <2>1. EndpointOK(e, a) /\ a \in EndpointType /\ a.va = f.nr /\ Quiet(s, a)
      BY <1>1, <1>3, AckOK, AckQuiet DEF EndpointOK
    <2>2. HandleS(s, f) \in {u, Queue(u, Supervisory("RR", u, TRUE, FALSE))}
      BY <1>3 DEF HandleS
    <2> HIDE DEF a
    <2>3. busy \in BOOLEAN
      OBVIOUS
    <2> HIDE DEF busy
    <2>4. t \in EndpointType
      BY <2>1, <2>3 DEF EndpointType
    <2>5. /\ t.vs = a.vs /\ t.va = a.va /\ t.held = a.held /\ t.window = a.window
          /\ t.tx = a.tx /\ t.codec = a.codec /\ t.rx_data = a.rx_data
          /\ t.vr = a.vr
      BY <2>1 DEF EndpointType
    <2> HIDE DEF t
    <2>6. EndpointOK(e, t) /\ Quiet(a, t)
      BY <2>1, <2>4, <2>5, SameWindow, SameQuiet
    <2>7. EndpointOK(e, r) /\ r \in EndpointType /\ Quiet(t, r)
      BY <2>1, <2>5, <2>6, RetransmitOK, RetransmitQuiet DEF EndpointOK
    <2> HIDE DEF r
    <2>8. v \in EndpointType /\ Quiet(r, v)
      BY <2>7, TimersOK, TimersQuiet DEF EndpointOK
    <2> HIDE DEF v
    <2>9. Quiet(s, t)
      BY <2>1, <2>6, QuietTrans
    <2>10. Quiet(s, r)
      BY <2>7, <2>9, QuietTrans
    <2>11. Quiet(s, v)
      BY <2>8, <2>10, QuietTrans
    <2>12. Quiet(s, u) /\ u \in EndpointType
      BY <2>4, <2>8, <2>9, <2>11
    <2> HIDE DEF u
    <2>13. Quiet(u, Queue(u, Supervisory("RR", u, TRUE, FALSE)))
      BY <2>12, OwnFrames, QueueQuiet
    <2>14. Quiet(s, Queue(u, Supervisory("RR", u, TRUE, FALSE)))
      BY <2>12, <2>13, QuietTrans
    <2>15. QED BY <2>2, <2>12, <2>14
  <1>4. QED BY <1>2, <1>3

\* The answer to a DISC.
LEMMA HandleDiscQuiet ==
  ASSUME NEW e \in Endpoints, NEW s, EndpointOK(e, s)
  PROVE  Quiet(s, Disconnect(Queue([s EXCEPT !.connected = FALSE], U("UA"))))
  <1> DEFINE c == [s EXCEPT !.connected = FALSE]
             q == Queue(c, U("UA"))
  <1>1. s \in EndpointType
    BY DEF EndpointOK
  <1>2. /\ c.vs = s.vs /\ c.va = s.va /\ c.held = s.held /\ c.window = s.window
        /\ c.tx = s.tx /\ c.codec = s.codec /\ c.rx_data = s.rx_data
        /\ c.vr = s.vr /\ c \in EndpointType
    BY <1>1 DEF EndpointType
  <1> HIDE DEF c
  <1>3. EndpointOK(e, c) /\ Quiet(s, c)
    BY <1>2, SameWindow, SameQuiet
  <1>4. Quiet(c, q) /\ EndpointOK(e, q)
    BY <1>2, <1>3, OwnFrames, QueueQuiet, QueueOK, FramesOK
  <1> HIDE DEF q
  <1>5. Quiet(q, Disconnect(q))
    BY <1>4, DisconnectQuiet
  <1>6. Quiet(s, q)
    BY <1>3, <1>4, QuietTrans
  <1>7. Quiet(s, Disconnect(q))
    BY <1>5, <1>6, QuietTrans
  <1>8. QED BY <1>7 DEF q, c
\* _handle as a whole: what it hands up, and what it queues unless the frame
\* is an XID.
LEMMA HandleHears ==
  ASSUME NEW e \in Endpoints, NEW r, EndpointOK(e, r),
         NEW f \in Frame, NEW cerror \in BOOLEAN
  PROVE  /\ Hears(r, f, Handle(e, r, f, cerror))
         /\ f.type # "XID" => Emits(r, Handle(e, r, f, cerror))
  <1> DEFINE s == [r EXCEPT !.inactivity = 0]
             c == [s EXCEPT !.connected = FALSE]
             h == Handle(e, r, f, cerror)
  <1>1. s \in EndpointType /\ EndpointOK(e, s) /\ Quiet(r, s)
    BY TimersOK, TimersQuiet DEF EndpointOK
  <1>d. s.rx_dict = r.rx_dict
    BY DEF EndpointOK, EndpointType
  <1>2. h =
       CASE f.type = "XID" -> HandleXid(e, s, f)
         [] f.type = "UA" -> IF s.awaiting_ua THEN Establish(s) ELSE s
         [] f.type = "SABME" -> Queue(Establish(s), U("UA"))
         [] f.type = "DISC" -> Disconnect(Queue(c, U("UA")))
         [] f.type = "FRMR" -> SendFrmr(s)
         [] f.type \in {"I", "RR", "RNR", "REJ"} /\ s.awaiting_ua -> s
         [] f.type = "I" /\ ~ s.awaiting_ua -> HandleI(s, f, cerror)
         [] f.type \in {"RR", "RNR", "REJ"} /\ ~ s.awaiting_ua -> HandleS(s, f)
    BY DEF Handle
  <1>3. Quiet(s, Disconnect(Queue(c, U("UA"))))
    <2> HIDE DEF s
    <2>1. QED BY <1>1, HandleDiscQuiet
  <1> HIDE DEF s, c, h
  <1>4. Quiet(s, s) /\ Quiet(s, SendFrmr(s))
    BY <1>1, SameQuiet, DisconnectQuiet
  <1>5. SUFFICES Hears(s, f, h) /\ (f.type # "XID" => Emits(s, h))
    <2>1. Decode(s, f) = Decode(r, f) /\ s.rx_data = r.rx_data /\ s.vr = r.vr
      BY <1>1, <1>d DEF Quiet, Emits, Deaf, Decode, Tuned
    <2>2. Hears(s, f, h) => Hears(r, f, h)
      BY <2>1 DEF Hears, Deaf
    <2>3. Emits(s, h) => Emits(r, h)
      BY <1>1, QuietTrans DEF Quiet
    <2>4. QED BY <2>2, <2>3 DEF h
  <1>6. CASE f \in XidFrame
    <2>1. f.type = "XID"
      BY <1>6 DEF XidFrame
    <2>2. h = HandleXid(e, s, f)
      BY <1>2, <2>1
    <2>3. HandleXid(e, s, f).rx_data = s.rx_data /\ HandleXid(e, s, f).vr = s.vr
      BY <1>1 DEF HandleXid, Queue, EndpointType
    <2>4. QED BY <2>1, <2>2, <2>3 DEF Hears, Deaf
  <1>7. CASE f \in UFrame
    <2>1. f.type \in {"SABME", "UA", "DISC", "FRMR"}
      BY <1>7 DEF UFrame
    <2> DEFINE x == Establish(s)
    <2>2. \/ h \in {s, SendFrmr(s), Disconnect(Queue(c, U("UA")))}
          \/ Marker(f) /\ h \in {x, Queue(x, U("UA"))}
      BY <1>2, <2>1 DEF Marker
    <2>3. Emits(s, x) /\ x.rx_data = s.rx_data /\ x \in EndpointType
      BY <1>1, ResetQuiet, EstablishOK DEF EndpointOK
    <2> HIDE DEF x
    <2>4. Quiet(x, Queue(x, U("UA")))
      BY <2>3, OwnFrames, QueueQuiet
    <2>5. Emits(s, Queue(x, U("UA"))) /\ Queue(x, U("UA")).rx_data = s.rx_data
      BY <2>3, <2>4, QuietTrans DEF Quiet, Deaf
    <2>6. CASE h \in {s, SendFrmr(s), Disconnect(Queue(c, U("UA")))}
      BY <1>3, <1>4, <2>6 DEF Quiet, Hears
    <2>7. CASE Marker(f) /\ h \in {x, Queue(x, U("UA"))}
      BY <2>3, <2>5, <2>7 DEF Hears
    <2>8. QED BY <2>2, <2>6, <2>7
  <1>8. CASE f \in IFrame
    <2>1. f.type = "I"
      BY <1>8 DEF IFrame
    <2>2. h \in {s, HandleI(s, f, cerror)}
      BY <1>2, <2>1
    <2>3. CASE h = s
      BY <1>4, <2>3 DEF Quiet, Hears
    <2>4. CASE h = HandleI(s, f, cerror)
      BY <1>1, <1>8, <2>4, HandleIHears
    <2>5. QED BY <2>2, <2>3, <2>4
  <1>9. CASE f \in SFrame
    <2>1. f.type \in {"RR", "RNR", "REJ"}
      BY <1>9 DEF SFrame
    <2>2. h \in {s, HandleS(s, f)}
      BY <1>2, <2>1
    <2>3. Quiet(s, h)
      BY <1>1, <1>4, <1>9, <2>2, HandleSQuiet
    <2>4. QED BY <2>3 DEF Quiet, Hears
  <1>10. QED BY <1>6, <1>7, <1>8, <1>9 DEF Frame

-----------------------------------------------------------------------------
(* The inductive invariant.                                                 *)

\* Both directions are in order.
Ordered(g) ==
  \A e \in Endpoints : Sender(e, g[e], g[Peer(e)].rx_data, g[Peer(e)].vr)

OInv == IInv /\ Ordered(ep)

\* The frame about to be delivered is one the receiver's codec decodes: the
\* coding is the same and so, if there is one, is the dictionary.
InTune ==
  \A e \in Endpoints :
    LET tx == ep[Peer(e)].tx
    IN tx # <<>> /\ Info(Head(tx)) => Tuned(ep[e], Head(tx))

\* The primed invariant is the invariant of the new records.
LEMMA OrderedPrime ==
  ASSUME IInv', Ordered(ep')
  PROVE  OInv'
  BY DEF OInv, Ordered, Sender, Order, StreamOrder, HeldOrder, TxOrder, RxOrder, Clean,
         Field, Below, Ascends, UpTo, Info, Marker, Unmarked, Idle, EndpointOK
\* An end that has sent nothing and holds nothing, with no I frame queued.
LEMMA EmptyOrder ==
  ASSUME NEW s, NEW W, NEW vr, s.tx_stream = <<>>, s.tx_transfer = <<>>,
         s.held = {}, \A i \in 1 .. Len(s.tx) : ~ Info(s.tx[i])
  PROVE  Order(s, W, <<>>, vr)
  <1>1. StreamOrder(s) /\ HeldOrder(s)
    BY EmptyRun DEF StreamOrder, HeldOrder
  <1>2. TxOrder(s, W)
    BY DEF TxOrder
  <1>3. RxOrder(s, W, <<>>, vr)
    BY EmptyRun DEF RxOrder, Clean
  <1>4. QED BY <1>1, <1>2, <1>3 DEF Order

LEMMA InitOrder ==
  Init => OInv
  <1> SUFFICES ASSUME Init PROVE OInv
    OBVIOUS
  <1>1. IInv
    BY InitOK
  <1>2. ASSUME NEW e \in Endpoints
        PROVE  /\ ep[e].tx_stream = <<>> /\ ep[e].tx_transfer = <<>>
               /\ ep[e].held = {} /\ ep[e].rx_data = <<>>
               /\ ep[e].connected = FALSE
               /\ \A i \in 1 .. Len(ep[e].tx) : ~ Info(ep[e].tx[i])
    <2>1. CASE e = Originator
      <3> DEFINE x == [type |-> "XID", n401 |-> N401[e], k |-> Window[e],
                       comp |-> Compression[Originator]]
      <3>1. ep[e] = BeginOriginatorProtocol(NewEndpoint(e))
        BY <2>1 DEF Init, Endpoints
      <3>2. /\ ep[e].tx_stream = <<>> /\ ep[e].tx_transfer = <<>>
            /\ ep[e].held = {} /\ ep[e].rx_data = <<>>
            /\ ep[e].connected = FALSE /\ ep[e].tx = <<x, U("SABME")>>
        BY <3>1 DEF BeginOriginatorProtocol, NewEndpoint
      <3>3. ~ Info(x) /\ ~ Info(U("SABME"))
        BY DEF Info, U
      <3> HIDE DEF x
      <3>4. QED BY <3>2, <3>3
    <2>2. CASE e # Originator
      <3>1. ep[e] = NewEndpoint(e)
        BY <2>2 DEF Init
      <3>2. QED BY <3>1 DEF NewEndpoint
    <2>3. QED BY <2>1, <2>2
  <1>3. ASSUME NEW e \in Endpoints
        PROVE  Sender(e, ep[e], ep[Peer(e)].rx_data, ep[Peer(e)].vr)
    <2>1. Peer(e) \in Endpoints
      BY DEF Peer, Endpoints
    <2>2. ep[Peer(e)].rx_data = <<>>
      BY <1>2, <2>1
    <2>3. Order(ep[e], Window[e], <<>>, ep[Peer(e)].vr)
      BY <1>2, EmptyOrder
    <2>4. Idle(ep[e])
      BY <1>2 DEF Idle
    <2>5. QED BY <1>1, <2>2, <2>3, <2>4 DEF IInv, Sender
  <1>4. QED BY <1>1, <1>3 DEF OInv, Ordered

\* A frame leaves the queue of a sender in order.
LEMMA TailSender ==
  ASSUME NEW e \in Endpoints, NEW s, NEW rx, NEW vr, Sender(e, s, rx, vr), s.tx # <<>>
  PROVE  LET t == [s EXCEPT !.tx = Tail(@)]
         IN  /\ Behind(s, t) /\ Quiet(s, t) /\ EndpointOK(e, t) /\ Idle(t)
             /\ Sender(e, t, rx, vr)
  <1> DEFINE t == [s EXCEPT !.tx = Tail(@)]
  <1>1. s \in EndpointType /\ EndpointOK(e, s) /\ s.tx \in Seq(Frame)
    BY DEF Sender, EndpointOK, EndpointType
  <1>2. /\ t.tx = Tail(s.tx) /\ t.codec = s.codec /\ t.rx_data = s.rx_data
        /\ t.vr = s.vr /\ Behind(s, t) /\ t.connected = s.connected
        /\ t.failed = s.failed /\ t.awaiting_ua = s.awaiting_ua
        /\ t.held = s.held
    BY <1>1 DEF EndpointType, Behind
  <1>3. EndpointOK(e, t)
    BY <1>1, ShorterQueueOK
  <1> HIDE DEF t
  <1>4. InQueue(t.tx) \subseteq InQueue(s.tx)
    BY <1>1, <1>2, TailFacts DEF InQueue
  <1>5. Quiet(s, t) /\ Idle(t)
    BY <1>2, <1>4 DEF Quiet, Emits, Deaf, Idle, Sender
  <1>6. Order(t, Window[e], rx, vr)
    BY <1>1, <1>2, DropOrder DEF Sender
  <1>7. QED BY <1>2, <1>3, <1>5, <1>6 DEF Sender, t

\* The frame at the head of the sender's queue reaches the receiver r.
LEMMA DeliverOrder ==
  ASSUME NEW e \in Endpoints, NEW s, NEW r, NEW h,
         Sender(e, s, r.rx_data, r.vr), s.tx # <<>>,
         r \in EndpointType, Hears(r, Head(s.tx), h),
         Info(Head(s.tx)) => Tuned(r, Head(s.tx))
  PROVE  Sender(e, [s EXCEPT !.tx = Tail(@)], h.rx_data, h.vr)
  <1> DEFINE t == [s EXCEPT !.tx = Tail(@)]
             f == Head(s.tx)
  <1>1. /\ s \in EndpointType /\ s.tx \in Seq(Frame)
        /\ Window[e] \in 1 .. (Mod - 1) /\ r.rx_data \in Octets /\ r.vr \in SeqNo
        /\ Order(s, Window[e], r.rx_data, r.vr)
    BY SequenceAssumption DEF Sender, EndpointOK, EndpointType
  <1>2. Behind(s, t) /\ EndpointOK(e, t) /\ Idle(t) /\ Sender(e, t, r.rx_data, r.vr)
    BY TailSender
  <1> HIDE DEF t
  <1>3. CASE Deaf(r, h)
    BY <1>2, <1>3 DEF Deaf, t
  <1>4. CASE Marker(f) /\ h.rx_data = r.rx_data
    <2>1. Order(t, Window[e], r.rx_data, h.vr)
      BY <1>1, <1>2, <1>4, MarkerOrder
    <2>2. QED BY <1>2, <1>4, <2>1 DEF Sender, t
  <1>5. CASE /\ Info(f) /\ f.ns = r.vr
             /\ h.rx_data = r.rx_data \o Decode(r, f) /\ h.vr = Add(r.vr, 1)
    <2>1. Decode(r, f) = f.data
      BY <1>5 DEF Decode
    <2>2. Order(t, Window[e], r.rx_data \o f.data, Add(r.vr, 1))
      BY <1>1, <1>2, <1>5, AcceptOrder
    <2>3. QED BY <1>2, <1>5, <2>1, <2>2 DEF Sender, t
  <1>6. QED BY <1>3, <1>4, <1>5 DEF Hears
\* Every action of either end, and every fault of the line, keeps both
\* directions in order, as long as the decoders are in tune.
LEMMA NextOrder ==
  OInv /\ InTune /\ [Next]_vars => OInv'
  <1> SUFFICES ASSUME OInv, InTune, [Next]_vars PROVE OInv'
    OBVIOUS
  <1>0. /\ ep \in [Endpoints -> EndpointType] /\ IInv'
        /\ \A e \in Endpoints :
             /\ Peer(e) \in Endpoints /\ Peer(e) # e /\ Peer(Peer(e)) = e
             /\ \A d \in Endpoints : d # e => d = Peer(e)
             /\ EndpointOK(e, ep[e]) /\ ep[e] \in EndpointType
             /\ ep[e].rx_data \in Octets
             /\ Sender(e, ep[e], ep[Peer(e)].rx_data, ep[Peer(e)].vr)
    <2>1. IInv /\ IInv'
      BY NextOK DEF OInv
    <2>2. \A e \in Endpoints :
             /\ Peer(e) \in Endpoints /\ Peer(e) # e /\ Peer(Peer(e)) = e
             /\ \A d \in Endpoints : d # e => d = Peer(e)
      BY EndpointsAssumption DEF Peer, Endpoints
    <2>3. \A e \in Endpoints : /\ EndpointOK(e, ep[e]) /\ ep[e] \in EndpointType
                               /\ ep[e].rx_data \in Octets
      BY <2>1 DEF IInv, EndpointType
    <2>4. QED BY <2>1, <2>2, <2>3 DEF OInv, Ordered, IInv
  \* A step of one end that hands nothing up.
  <1>a. ASSUME NEW e \in Endpoints, NEW r, ep' = [ep EXCEPT ![e] = r], Quiet(ep[e], r),
               Sender(e, r, ep[Peer(e)].rx_data, ep[Peer(e)].vr)
        PROVE  OInv'
    <2>1. ep'[e] = r /\ ep'[Peer(e)] = ep[Peer(e)]
      BY <1>0, <1>a
    <2>2. r.rx_data = ep[e].rx_data /\ r.vr = ep[e].vr
      BY <1>a DEF Quiet, Deaf
    <2>3. Sender(e, ep'[e], ep'[Peer(e)].rx_data, ep'[Peer(e)].vr)
      BY <1>a, <2>1
    <2>4. Sender(Peer(e), ep'[Peer(e)], ep'[e].rx_data, ep'[e].vr)
      BY <1>0, <2>1, <2>2
    <2>5. Ordered(ep')
      BY <1>0, <2>3, <2>4 DEF Ordered
    <2>6. QED BY <1>0, <2>5, OrderedPrime
  <1>1. ASSUME NEW e \in Endpoints, Send(e) PROVE OInv'
    <2> DEFINE s == ep[e]
               r == [s EXCEPT !.sent = @ + 1, !.tx_stream = Append(@, s.sent + 1)]
    <2>1. ep' = [ep EXCEPT ![e] = r]
      BY <1>0, <1>1 DEF Send, EndpointType
    <2>2. /\ r.tx = s.tx /\ r.sent = s.sent + 1
          /\ r.tx_stream = Append(s.tx_stream, s.sent + 1)
          /\ r.tx_transfer = s.tx_transfer /\ r.codec = s.codec
          /\ r.held = s.held /\ r.unacked = s.unacked /\ r.va = s.va
          /\ r.rx_data = s.rx_data /\ r.vr = s.vr /\ r.connected = s.connected
          /\ r.failed = s.failed /\ r.awaiting_ua = s.awaiting_ua
      <3>1. s \in EndpointType
        BY <1>0
      <3> HIDE DEF s
      <3>2. QED BY <3>1 DEF EndpointType
    <2>3. EndpointOK(e, r)
      BY <1>0, <2>1 DEF IInv, EndpointOK, WindowOK, Outstanding
    <2> HIDE DEF r
    <2>4. Quiet(s, r)
      BY <2>2, SameQuiet
    <2>5. Order(r, Window[e], ep[Peer(e)].rx_data, ep[Peer(e)].vr)
      BY <1>0, <2>2, SendOrder DEF Sender
    <2>6. Idle(r)
      BY <1>0, <2>2 DEF Sender, Idle
    <2>7. QED BY <1>a, <2>1, <2>3, <2>4, <2>5, <2>6 DEF Sender
  <1>2. ASSUME NEW e \in Endpoints, Take(e) PROVE OInv'
    <2>1. ep' = [ep EXCEPT ![e] = Service(ep[e])]
      BY <1>2 DEF Take
    <2>2. QED BY <1>0, <1>a, <2>1, ServiceOrder, ServiceQuiet
  <1>3. ASSUME TakeTogether PROVE OInv'
    <2>1. \A e \in Endpoints : ep'[e] = Service(ep[e]) /\ Quiet(ep[e], ep'[e])
      BY <1>0, <1>3, ServiceQuiet DEF TakeTogether
    <2>2. ASSUME NEW e \in Endpoints
          PROVE  Sender(e, ep'[e], ep'[Peer(e)].rx_data, ep'[Peer(e)].vr)
      <3>1. /\ ep'[Peer(e)].rx_data = ep[Peer(e)].rx_data
            /\ ep'[Peer(e)].vr = ep[Peer(e)].vr
        BY <1>0, <2>1 DEF Quiet, Deaf
      <3>2. QED BY <1>0, <2>1, <3>1, ServiceOrder
    <2>3. Ordered(ep')
      BY <2>2 DEF Ordered
    <2>4. QED BY <1>0, <2>3, OrderedPrime
  <1>4. ASSUME NEW e \in Endpoints, Feed(e) PROVE OInv'
    <2> DEFINE p == ep[Peer(e)]
               f == Head(p.tx)
    <2>1. PICK cerror \in BOOLEAN :
            ep' = [d \in Endpoints |->
                     IF d = e THEN Handle(e, ep[e], f, cerror)
                     ELSE [ep[d] EXCEPT !.tx = Tail(@)]]
      BY <1>4 DEF Feed
    <2> DEFINE h == Handle(e, ep[e], f, cerror)
               t == [p EXCEPT !.tx = Tail(@)]
    <2>2. p.tx # <<>>
      BY <1>4 DEF Feed
    <2>3. ep'[e] = h /\ ep'[Peer(e)] = t
      BY <1>0, <2>1
    <2>4. f \in Frame
      BY <1>0, <2>2, ShorterQueueOK
    <2>5. Hears(ep[e], f, h)
      BY <1>0, <2>4, HandleHears
    <2>6. Sender(e, h, p.rx_data, p.vr)
      BY <1>0, <2>4, HandleOrder
    <2>7. Info(f) => Tuned(ep[e], f)
      BY <2>2 DEF InTune
    <2>8. Sender(Peer(e), p, ep[e].rx_data, ep[e].vr)
      BY <1>0
    <2> HIDE DEF h
    <2>9. Sender(Peer(e), t, h.rx_data, h.vr)
      BY <1>0, <2>2, <2>5, <2>7, <2>8, DeliverOrder
    <2>10. t.rx_data = p.rx_data /\ t.vr = p.vr
      BY <1>0 DEF EndpointType
    <2> HIDE DEF t
    <2>11. Ordered(ep')
      BY <1>0, <2>3, <2>6, <2>9, <2>10 DEF Ordered
    <2>12. QED BY <1>0, <2>11, OrderedPrime
  <1>5. ASSUME NEW e \in Endpoints, Lose(e) PROVE OInv'
    <2>1. ep' = [ep EXCEPT ![e] = [ep[e] EXCEPT !.tx = Tail(@)]] /\ ep[e].tx # <<>>
      BY <1>0, <1>5 DEF Lose
    <2>2. QED BY <1>0, <1>a, <2>1, TailSender
  <1>6. ASSUME NEW e \in Endpoints, LineDisturbed(e) PROVE OInv'
    <2> DEFINE s == ep[e]
               b == IF s.suspended_for < RetransmitAfter
                    THEN RetransmitAfter ELSE s.suspended_for
    <2>1. PICK n \in 0 .. Len(ep[e].tx) :
            ep' = [ep EXCEPT ![e].suspended_for =
                           IF @ < RetransmitAfter THEN RetransmitAfter ELSE @,
                        ![e].tx = SubSeq(@, 1, n)]
      BY <1>6 DEF LineDisturbed
    <2> DEFINE r == [s EXCEPT !.suspended_for = b, !.tx = SubSeq(@, 1, n)]
    <2>2. ep' = [ep EXCEPT ![e] = r]
      BY <1>0, <2>1 DEF EndpointType
    <2>3. b \in Nat
      BY <1>0, TimerAssumption DEF EndpointType
    <2>4. EndpointOK(e, r) /\ s.tx \in Seq(Frame)
      BY <1>0, <2>3, ShorterQueueOK DEF EndpointType
    <2>5. /\ r.tx = SubSeq(s.tx, 1, n) /\ r.sent = s.sent
          /\ r.tx_stream = s.tx_stream
          /\ r.tx_transfer = s.tx_transfer /\ r.codec = s.codec
          /\ r.held = s.held /\ r.unacked = s.unacked /\ r.va = s.va
          /\ r.rx_data = s.rx_data /\ r.vr = s.vr /\ r.connected = s.connected
          /\ r.failed = s.failed /\ r.awaiting_ua = s.awaiting_ua
      <3>1. s \in EndpointType
        BY <1>0
      <3> HIDE DEF s, b
      <3>2. QED BY <3>1 DEF EndpointType
    <2> HIDE DEF r, b
    <2>6. InQueue(r.tx) \subseteq InQueue(s.tx)
      <3>1. Len(r.tx) = n /\ \A i \in 1 .. n : r.tx[i] = s.tx[i]
        BY <2>4, <2>5, SubSeqProperties
      <3>2. QED BY <3>1 DEF InQueue
    <2>7. Quiet(s, r)
      BY <2>5, <2>6 DEF Quiet, Emits, Deaf
    <2>8. Order(r, Window[e], ep[Peer(e)].rx_data, ep[Peer(e)].vr)
      BY <1>0, <2>4, <2>5, ShortenOrder DEF Sender
    <2>9. Idle(r)
      BY <1>0, <2>5 DEF Sender, Idle
    <2>10. QED BY <1>a, <2>2, <2>4, <2>7, <2>8, <2>9 DEF Sender
  <1>7. ASSUME NEW e \in Endpoints, LineRestored(e) PROVE OInv'
    <2> DEFINE r == [ep[e] EXCEPT !.suspended_for = 0]
    <2>1. ep' = [ep EXCEPT ![e] = Resume(r)]
      BY <1>7 DEF LineRestored
    <2>2. /\ Sender(e, r, ep[Peer(e)].rx_data, ep[Peer(e)].vr)
          /\ Quiet(ep[e], r) /\ r \in EndpointType
      BY <1>0, TimersOrder, TimersQuiet, TimersOK DEF EndpointOK
    <2> HIDE DEF r
    <2>3. /\ Sender(e, Resume(r), ep[Peer(e)].rx_data, ep[Peer(e)].vr)
          /\ Quiet(r, Resume(r))
      BY <2>2, TimersOrder, TimersQuiet
    <2>4. Quiet(ep[e], Resume(r))
      BY <2>2, <2>3, QuietTrans
    <2>5. QED BY <1>a, <2>1, <2>3, <2>4
  <1>8. ASSUME NEW e \in Endpoints, ForeignBusy(e) PROVE OInv'
    <2> DEFINE r == Queue(ep[e], Supervisory("RNR", ep[e], FALSE, FALSE))
    <2>1. ep' = [ep EXCEPT ![e] = r]
      BY <1>8 DEF ForeignBusy
    <2>2. Sender(e, r, ep[Peer(e)].rx_data, ep[Peer(e)].vr) /\ Quiet(ep[e], r)
      BY <1>0, SupervisoryOrder, OwnFrames, QueueQuiet
    <2>3. QED BY <1>a, <2>1, <2>2
  <1>9. CASE UNCHANGED vars
    <2>1. ep' = ep
      BY <1>9 DEF vars
    <2>2. Ordered(ep')
      BY <2>1 DEF OInv
    <2>3. QED BY <1>0, <2>2, OrderedPrime
  <1>10. QED
    BY <1>1, <1>2, <1>3, <1>4, <1>5, <1>6, <1>7, <1>8, <1>9 DEF Next

\* The invariant says what the application cares about.
LEMMA OrderedSuffices ==
  OInv => NoDuplicateNoReorder
  <1> SUFFICES ASSUME OInv, NEW e \in Endpoints
               PROVE  LET d == ep[e].rx_data
                      IN /\ \A i \in 1 .. Len(d) : d[i] \in 1 .. ep[Peer(e)].sent
                         /\ \A i \in 1 .. (Len(d) - 1) : d[i] < d[i + 1]
    BY DEF NoDuplicateNoReorder
  <1> DEFINE d == ep[e].rx_data
             p == ep[Peer(e)]
  <1>1. Peer(e) \in Endpoints /\ Peer(Peer(e)) = e
    BY EndpointsAssumption DEF Peer, Endpoints
  <1>2. Clean(p, d) /\ d \in Octets
    BY <1>1 DEF OInv, IInv, Ordered, Sender, Order, RxOrder, EndpointType
  <1>3. UpTo(d, p.sent) /\ Ascends(d) /\ Len(d) \in Nat
    BY <1>2 DEF Clean, Octets
  <1> HIDE DEF d, p
  <1>4. \A i \in 1 .. Len(d) : d[i] \in 1 .. p.sent
    BY <1>3 DEF UpTo
  <1>5. \A i \in 1 .. (Len(d) - 1) : d[i] < d[i + 1]
    <2> SUFFICES ASSUME NEW i \in 1 .. (Len(d) - 1) PROVE d[i] < d[i + 1]
      OBVIOUS
    <2>1. i \in 1 .. Len(d) /\ i + 1 \in 1 .. Len(d) /\ i < i + 1
      BY <1>3
    <2>2. QED BY <1>3, <2>1 DEF Ascends
  <1>6. QED BY <1>4, <1>5 DEF d, p

\* While every I frame meets the codec it was made for, what a link hands up
\* is what was sent, once and in order.
LEMMA InTuneInOrder ==
  Spec /\ []InTune => []NoDuplicateNoReorder
  <1>1. QED BY InitOrder, NextOrder, OrderedSuffices, PTL DEF Spec
-----------------------------------------------------------------------------
(* A link without compression.                                              *)

\* Not both ends asked for a compressor, so that XID installs none.
Uncompressed == \E e \in Endpoints : Compression[e] = FALSE

\* An end with no codec, whose frames promise none that the peer would take up.
Plain(e, s) ==
  /\ s.codec = FALSE
  /\ \A f \in InQueue(s.tx) :
       /\ Info(f) => f.comp = FALSE
       /\ f.type = "XID" => f.comp = FALSE \/ Compression[Peer(e)] = FALSE

AllPlain(g) == \A e \in Endpoints : Plain(e, g[e])

LEMMA EmitsPlain ==
  ASSUME NEW e, NEW s, NEW t, Plain(e, s), Emits(s, t)
  PROVE  Plain(e, t)
  BY DEF Plain, Emits, Own

\* The XID exchange installs no codec.
LEMMA XidPlain ==
  ASSUME NEW e \in Endpoints, NEW s, EndpointOK(e, s), Plain(e, s), NEW f \in XidFrame,
         f.comp = FALSE \/ Compression[e] = FALSE, NEW cerror \in BOOLEAN
  PROVE  Plain(e, Handle(e, s, f, cerror))
  <1> DEFINE z == [s EXCEPT !.inactivity = 0]
             t == [z EXCEPT !.n401 = Smaller(@, f.n401), !.window = Smaller(@, f.k),
                            !.codec = Compression[e] /\ f.comp, !.tx_transfer = <<>>,
                            !.tx_base = 0, !.rx_dict = <<>>]
             x == [type |-> "XID", n401 |-> t.n401, k |-> t.window, comp |-> t.codec]
             h == Handle(e, s, f, cerror)
  <1>1. f.type = "XID" /\ s \in EndpointType /\ s.tx \in Seq(Frame)
    BY DEF XidFrame, EndpointOK, EndpointType
  <1>2. h = HandleXid(e, z, f)
    BY <1>1 DEF Handle
  <1>3. h = IF e = Originator THEN t ELSE Queue(t, x)
    BY <1>2 DEF HandleXid
  <1>4. (Compression[e] /\ f.comp) = FALSE
    OBVIOUS
  <1>5. /\ t.tx = s.tx /\ t.codec = FALSE
        /\ Queue(t, x).tx = Append(s.tx, x) /\ Queue(t, x).codec = FALSE
    BY <1>1, <1>4 DEF EndpointType, Queue
  <1>6. x.comp = FALSE /\ x.type = "XID"
    BY <1>5
  <1> HIDE DEF h, t, x
  <1>7. \A g \in InQueue(Append(s.tx, x)) : g \in InQueue(s.tx) \/ g = x
    <2> SUFFICES ASSUME NEW i \in 1 .. Len(Append(s.tx, x))
                 PROVE  Append(s.tx, x)[i] \in InQueue(s.tx) \cup {x}
      BY DEF InQueue
    <2>1. \/ Append(s.tx, x)[i] = x
          \/ i \in 1 .. Len(s.tx) /\ Append(s.tx, x)[i] = s.tx[i]
      BY <1>1
    <2>2. QED BY <2>1 DEF InQueue
  <1>8. CASE e = Originator
    BY <1>3, <1>5, <1>8 DEF Plain, h
  <1>9. CASE e # Originator
    <2>1. h.tx = Append(s.tx, x) /\ h.codec = FALSE
      BY <1>3, <1>5, <1>9
    <2>2. QED BY <1>6, <1>7, <2>1 DEF Plain, Info, h
  <1>10. QED BY <1>8, <1>9

LEMMA InitPlain ==
  ASSUME Uncompressed
  PROVE  Init => AllPlain(ep)
  <1> SUFFICES ASSUME Init, NEW e \in Endpoints PROVE Plain(e, ep[e])
    BY DEF AllPlain
  <1>1. CASE e = Originator
    <2> DEFINE x == [type |-> "XID", n401 |-> N401[e], k |-> Window[e],
                     comp |-> Compression[Originator]]
    <2>1. ep[e] = BeginOriginatorProtocol(NewEndpoint(e))
      BY <1>1 DEF Init, Endpoints
    <2>2. ep[e].codec = FALSE /\ ep[e].tx = <<x, U("SABME")>>
      BY <2>1 DEF BeginOriginatorProtocol, NewEndpoint
    <2>3. Compression[Originator] = FALSE \/ Compression[Peer(e)] = FALSE
      BY <1>1 DEF Uncompressed, Endpoints, Peer
    <2>4. x.type = "XID" /\ x.comp = Compression[Originator] /\ U("SABME").type = "SABME"
      BY DEF U
    <2> HIDE DEF x
    <2>5. InQueue(ep[e].tx) = {x, U("SABME")}
      BY <2>2 DEF InQueue
    <2>6. QED BY <2>2, <2>3, <2>4, <2>5 DEF Plain, Info
  <1>2. CASE e # Originator
    <2>1. ep[e] = NewEndpoint(e)
      BY <1>2 DEF Init
    <2>2. ep[e].codec = FALSE /\ ep[e].tx = <<>>
      BY <2>1 DEF NewEndpoint
    <2>3. QED BY <2>2 DEF Plain, InQueue
  <1>3. QED BY <1>1, <1>2

\* Only an XID changes a codec, and every other step queues frames made with
\* the codec there is.
LEMMA NextPlain ==
  IInv /\ AllPlain(ep) /\ [Next]_vars => AllPlain(ep')
  <1> SUFFICES ASSUME IInv, AllPlain(ep), [Next]_vars, NEW d \in Endpoints
               PROVE  Plain(d, ep'[d])
    BY DEF AllPlain
  <1>0. /\ ep \in [Endpoints -> EndpointType]
        /\ \A e \in Endpoints :
             /\ Peer(e) \in Endpoints /\ Peer(Peer(e)) = e
             /\ \A c \in Endpoints : c # e => c = Peer(e)
             /\ EndpointOK(e, ep[e]) /\ ep[e] \in EndpointType
             /\ ep[e].tx \in Seq(Frame) /\ Plain(e, ep[e])
    <2>1. /\ ep \in [Endpoints -> EndpointType]
          /\ \A e \in Endpoints : EndpointOK(e, ep[e]) /\ Plain(e, ep[e])
      BY DEF IInv, AllPlain
    <2>2. \A e \in Endpoints : ep[e] \in EndpointType
      BY <2>1
    <2>3. \A e \in Endpoints : ep[e].tx \in Seq(Frame)
      BY <2>2 DEF EndpointType
    <2>4. \A e \in Endpoints :
             /\ Peer(e) \in Endpoints /\ Peer(Peer(e)) = e
             /\ \A c \in Endpoints : c # e => c = Peer(e)
      BY EndpointsAssumption DEF Peer, Endpoints
    <2>5. QED BY <2>1, <2>2, <2>3, <2>4
  <1>a. ASSUME NEW e \in Endpoints, NEW r, ep' = [ep EXCEPT ![e] = r], Emits(ep[e], r)
        PROVE  Plain(d, ep'[d])
    BY <1>0, <1>a, EmitsPlain
  <1>b. ASSUME NEW s, NEW t, t.codec = s.codec, InQueue(t.tx) \subseteq InQueue(s.tx)
        PROVE  Emits(s, t)
    BY <1>b DEF Emits
  <1>c. ASSUME NEW s \in EndpointType, s.tx # <<>>
        PROVE  Emits(s, [s EXCEPT !.tx = Tail(@)])
    <2> DEFINE t == [s EXCEPT !.tx = Tail(@)]
    <2>1. t.codec = s.codec /\ t.tx = Tail(s.tx) /\ s.tx \in Seq(Frame)
      BY DEF EndpointType
    <2> HIDE DEF t
    <2>2. InQueue(t.tx) \subseteq InQueue(s.tx)
      BY <1>c, <2>1 DEF InQueue
    <2>3. QED BY <1>b, <2>1, <2>2 DEF t
  <1>1. ASSUME NEW e \in Endpoints, Send(e) PROVE Plain(d, ep'[d])
    <2> DEFINE s == ep[e]
               r == [s EXCEPT !.sent = @ + 1, !.tx_stream = Append(@, s.sent + 1)]
    <2>1. ep' = [ep EXCEPT ![e] = r]
      BY <1>0, <1>1 DEF Send, EndpointType
    <2>2. r.tx = s.tx /\ r.codec = s.codec
      BY <1>0 DEF EndpointType
    <2> HIDE DEF r
    <2>3. QED BY <1>a, <2>1, <2>2, SameQuiet
  <1>2. ASSUME NEW e \in Endpoints, Take(e) PROVE Plain(d, ep'[d])
    BY <1>0, <1>2, <1>a, ServiceQuiet DEF Take, Quiet
  <1>3. ASSUME TakeTogether PROVE Plain(d, ep'[d])
    BY <1>0, <1>3, ServiceQuiet, EmitsPlain DEF TakeTogether, Quiet
  <1>4. ASSUME NEW e \in Endpoints, Feed(e) PROVE Plain(d, ep'[d])
    <2> DEFINE p == ep[Peer(e)]
               f == Head(p.tx)
    <2>1. PICK cerror \in BOOLEAN :
            ep' = [c \in Endpoints |->
                     IF c = e THEN Handle(e, ep[e], f, cerror)
                     ELSE [ep[c] EXCEPT !.tx = Tail(@)]]
      BY <1>4 DEF Feed
    <2>2. p.tx # <<>>
      BY <1>4 DEF Feed
    <2>3. f \in Frame /\ f \in InQueue(p.tx)
      <3>1. p.tx \in Seq(Frame) /\ f = p.tx[1] /\ 1 \in 1 .. Len(p.tx)
        BY <1>0, <2>2
      <3>2. QED BY <3>1 DEF InQueue
    <2>4. CASE d # e
      <3>1. d = Peer(e) /\ ep'[d] = [p EXCEPT !.tx = Tail(@)]
        BY <1>0, <2>1, <2>4
      <3>2. Emits(p, [p EXCEPT !.tx = Tail(@)])
        BY <1>0, <1>c, <2>2
      <3>3. QED BY <1>0, <3>1, <3>2, EmitsPlain
    <2>5. CASE d = e /\ f.type # "XID"
      <3>1. Emits(ep[e], Handle(e, ep[e], f, cerror))
        BY <1>0, <2>3, <2>5, HandleHears
      <3>2. QED BY <1>0, <2>1, <2>5, <3>1, EmitsPlain
    <2>6. CASE d = e /\ f.type = "XID"
      <3>1. f \in XidFrame
        BY <2>3, <2>6 DEF Frame, UFrame, SFrame, IFrame, XidFrame
      <3>2. f.comp = FALSE \/ Compression[e] = FALSE
        BY <1>0, <2>3, <2>6 DEF Plain
      <3>3. Plain(e, Handle(e, ep[e], f, cerror))
        BY <1>0, <3>1, <3>2, XidPlain
      <3>4. QED BY <2>1, <2>6, <3>3
    <2>7. QED BY <2>4, <2>5, <2>6
  <1>5. ASSUME NEW e \in Endpoints, Lose(e) PROVE Plain(d, ep'[d])
    <2>1. ep' = [ep EXCEPT ![e] = [ep[e] EXCEPT !.tx = Tail(@)]] /\ ep[e].tx # <<>>
      BY <1>0, <1>5 DEF Lose
    <2>2. QED BY <1>0, <1>a, <1>c, <2>1
  <1>6. ASSUME NEW e \in Endpoints, LineDisturbed(e) PROVE Plain(d, ep'[d])
    <2> DEFINE s == ep[e]
    <2>1. PICK n \in 0 .. Len(ep[e].tx) :
            ep' = [ep EXCEPT ![e].suspended_for =
                           IF @ < RetransmitAfter THEN RetransmitAfter ELSE @,
                        ![e].tx = SubSeq(@, 1, n)]
      BY <1>6 DEF LineDisturbed
    <2> DEFINE b == IF s.suspended_for < RetransmitAfter
                    THEN RetransmitAfter ELSE s.suspended_for
               r == [s EXCEPT !.suspended_for = b, !.tx = SubSeq(@, 1, n)]
    <2>2a. ep' = [ep EXCEPT ![e] = r]
      BY <1>0, <2>1 DEF EndpointType
    <2>2. r.tx = SubSeq(s.tx, 1, n) /\ r.codec = s.codec
      <3>1. s \in EndpointType
        BY <1>0
      <3> HIDE DEF s, b
      <3>2. QED BY <3>1 DEF EndpointType
    <2> HIDE DEF r, b
    <2>3. Len(r.tx) = n /\ \A i \in 1 .. n : r.tx[i] = s.tx[i] /\ i \in 1 .. Len(s.tx)
      BY <1>0, <2>2, SubSeqProperties
    <2>4. InQueue(r.tx) \subseteq InQueue(s.tx)
      BY <2>3 DEF InQueue
    <2>5. QED BY <1>a, <1>b, <2>2, <2>2a, <2>4
  <1>7. ASSUME NEW e \in Endpoints, LineRestored(e) PROVE Plain(d, ep'[d])
    <2> DEFINE r == [ep[e] EXCEPT !.suspended_for = 0]
    <2>1. ep' = [ep EXCEPT ![e] = Resume(r)]
      BY <1>7 DEF LineRestored
    <2>2. Quiet(ep[e], r) /\ r \in EndpointType
      BY <1>0, TimersQuiet, TimersOK DEF EndpointOK
    <2> HIDE DEF r
    <2>3. Quiet(r, Resume(r))
      BY <2>2, TimersQuiet
    <2>4. Emits(ep[e], Resume(r))
      BY <2>2, <2>3, QuietTrans DEF Quiet
    <2>5. QED BY <1>a, <2>1, <2>4
  <1>8. ASSUME NEW e \in Endpoints, ForeignBusy(e) PROVE Plain(d, ep'[d])
    <2> DEFINE r == Queue(ep[e], Supervisory("RNR", ep[e], FALSE, FALSE))
    <2>1. ep' = [ep EXCEPT ![e] = r]
      BY <1>8 DEF ForeignBusy
    <2>2. Emits(ep[e], r)
      BY <1>0, OwnFrames, QueueQuiet DEF Quiet
    <2>3. QED BY <1>a, <2>1, <2>2
  <1>9. CASE UNCHANGED vars
    BY <1>0, <1>9 DEF vars
  <1>10. QED
    BY <1>1, <1>2, <1>3, <1>4, <1>5, <1>6, <1>7, <1>8, <1>9 DEF Next

LEMMA PlainInTune ==
  IInv /\ AllPlain(ep) => InTune
  <1> SUFFICES ASSUME IInv, AllPlain(ep), NEW e \in Endpoints,
                      ep[Peer(e)].tx # <<>>, Info(Head(ep[Peer(e)].tx))
               PROVE  Tuned(ep[e], Head(ep[Peer(e)].tx))
    BY DEF InTune
  <1>1. Peer(e) \in Endpoints
    BY DEF Peer, Endpoints
  <1>2. ep[Peer(e)].tx \in Seq(Frame)
    BY <1>1 DEF IInv, EndpointType
  <1>3. Head(ep[Peer(e)].tx) \in InQueue(ep[Peer(e)].tx)
    BY <1>2 DEF InQueue
  <1>4. ep[e].codec = FALSE /\ Head(ep[Peer(e)].tx).comp = FALSE
    BY <1>1, <1>3 DEF AllPlain, Plain
  <1>5. QED BY <1>4 DEF Tuned

\* The invariant of a link without compression.
PInv == IInv /\ AllPlain(ep)

LEMMA PlainPrime ==
  ASSUME IInv', AllPlain(ep')
  PROVE  PInv'
  BY DEF PInv, AllPlain, Plain, InQueue, Info

\* With no compression agreed, what a link hands up is what the peer's
\* application sent, each octet at most once and in the order of send(), for
\* every modulus, window, N401 and timer setting, whether or not T401 outlasts
\* the round trip, and across any loss, disturbance, busy condition,
\* retransmission, sequence-number wrap and re-establishment.
THEOREM InOrderOnce ==
  ASSUME Uncompressed
  PROVE  Spec => []NoDuplicateNoReorder
  <1>1. Init => PInv
    BY InitOK, InitPlain DEF PInv
  <1>2. PInv /\ [Next]_vars => PInv'
    BY NextOK, NextPlain, PlainPrime DEF PInv
  <1>3. PInv => InTune
    BY PlainInTune DEF PInv
  <1>4. Spec => []InTune
    BY <1>1, <1>2, <1>3, PTL DEF Spec
  <1>5. QED BY <1>4, InTuneInOrder, PTL
=============================================================================

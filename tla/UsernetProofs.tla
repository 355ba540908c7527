--------------------------- MODULE UsernetProofs ----------------------------
(***************************************************************************)
(* Theorems about the TcpFlow of Usernet.  A method of the flow is an      *)
(* operator from net to net, so each has a lemma of its own that says what *)
(* it leaves alone, and a composite method follows by transitivity:        *)
(*                                                                         *)
(*   Plain(n, m)   what came from the client is untouched                  *)
(*   Kept(n, m)    bytes may have gone on to the remote, none is lost      *)
(*   Within(n, m)  new data for the client is within its window            *)
(*                                                                         *)
(* TypeInv (the types, and no socket without a flow) is inductive and      *)
(* gives TypeCorrect, SocketsOwned and WindowRespected.  UpInv, inductive  *)
(* with it, says where the next byte of the client is expected and which   *)
(* bytes every segment under way carries; it gives UpstreamAlwaysExact.    *)
(***************************************************************************)
EXTENDS Usernet, TLAPS, SequenceTheorems

-----------------------------------------------------------------------------
(* Sequence numbers and byte sequences.                                     *)

\* A number within the modulus is its own remainder.
LEMMA ModSmall ==
  ASSUME NEW M \in Nat \ {0}, NEW x \in 0 .. (M - 1)
  PROVE  x % M = x
  OBVIOUS

\* The remainder of a number that is over by less than one turn.
LEMMA ModOver ==
  ASSUME NEW M \in Nat \ {0}, NEW x \in M .. (2 * M - 1)
  PROVE  x % M = x - M
  OBVIOUS

\* The mask of 32 bits: a sum is a sequence number again.
LEMMA PlusType ==
  ASSUME NEW a \in Int, NEW n \in Int
  PROVE  Plus(a, n) \in SeqNo
  BY UsernetAssumption DEF Plus, SeqNo

\* So is a difference, and it is not negative.
LEMMA DistanceType ==
  ASSUME NEW a \in Int, NEW b \in Int
  PROVE  Distance(a, b) \in SeqNo /\ Distance(a, b) \in Nat
  BY UsernetAssumption DEF Distance, SeqNo

\* Cutting a byte sequence in two.
LEMMA DropType ==
  ASSUME NEW s \in Bytes, NEW n \in 0 .. Len(s)
  PROVE  /\ Drop(s, n) \in Bytes /\ Len(Drop(s, n)) = Len(s) - n
         /\ SubSeq(s, 1, n) \in Bytes /\ Len(SubSeq(s, 1, n)) = n
  <1>1. s \in Seq(Nat) /\ n \in Int /\ Len(s) \in Nat
    BY DEF Bytes
  <1>2. /\ SubSeq(s, n + 1, Len(s)) \in Seq(Nat)
        /\ Len(SubSeq(s, n + 1, Len(s))) = Len(s) - n
    BY <1>1, SubSeqProperties
  <1>3. SubSeq(s, 1, n) \in Seq(Nat) /\ Len(SubSeq(s, 1, n)) = n
    BY <1>1, SubSeqProperties
  <1>4. QED BY <1>2, <1>3 DEF Drop, Bytes

-----------------------------------------------------------------------------
(* The methods of TcpFlow toward the remote and toward the client.          *)

\* The network's type.
NetType == [f : FlowType, k : SocketType, out : Seq(Segment)]

\* What came from the client.
Up(n) == <<n.f.present, n.k.got, n.f.to_remote, n.f.rcv_nxt, n.f.client_closed>>
\* What is on its way to the client.
Down(n) == <<n.f.unacked, n.f.snd_nxt, n.f.snd_una, n.f.snd_wnd, n.f.fin_sent>>

\* A step of the flow that leaves what came from the client alone.
Plain(n, m) == m \in NetType /\ Up(m) = Up(n) /\ (m.k.open => n.k.open)

\* The advertised window is never negative.
LEMMA WindowType ==
  ASSUME NEW f \in FlowType
  PROVE  ReceiveWindow(f) \in Nat
  BY UsernetAssumption DEF ReceiveWindow, FlowType, Bytes

\* emit: a well-formed segment goes out, and only advertised changes.
LEMMA EmitAtOK ==
  ASSUME NEW n \in NetType, NEW flags \in SUBSET {"SYN", "ACK", "FIN", "RST"},
         NEW seq \in SeqNo, NEW data \in Bytes
  PROVE  LET m == EmitAt(n, flags, seq, data)
         IN Plain(n, m) /\ Down(m) = Down(n) /\ m.f.state = n.f.state
  <1> DEFINE wnd == ReceiveWindow(n.f)
             s == [flags |-> flags, seq |-> seq, num |-> n.f.rcv_nxt,
                   wnd |-> wnd, data |-> data]
             o == Append(n.out, s)
             g == [n.f EXCEPT !.advertised = wnd]
             m == [n EXCEPT !.f = g, !.out = o]
  <1>1. n.f \in FlowType /\ n.out \in Seq(Segment) /\ n.k \in SocketType
    BY DEF NetType
  <1>2. wnd \in Nat
    BY <1>1, WindowType
  <1>3. s \in Segment
    BY <1>1, <1>2 DEF Segment, FlowType
  <1>4. o \in Seq(Segment)
    BY <1>1, <1>3
  <1>5. m = EmitAt(n, flags, seq, data)
    BY <1>1 DEF EmitAt, NetType
  <1> HIDE DEF wnd, o
  <1>6. g \in FlowType
    BY <1>1, <1>2 DEF FlowType
  <1>7. Down(m) = Down(n) /\ Up(m) = Up(n) /\ m.f.state = n.f.state
    BY <1>1 DEF Down, Up, FlowType, NetType
  <1>8. m \in NetType /\ m.k = n.k
    BY <1>1, <1>4, <1>6 DEF NetType
  <1>9. QED BY <1>5, <1>7, <1>8 DEF Plain

\* emit with no data.
LEMMA EmitOK ==
  ASSUME NEW n \in NetType, NEW flags \in SUBSET {"SYN", "ACK", "FIN", "RST"}
  PROVE  LET m == Emit(n, flags)
         IN Plain(n, m) /\ Down(m) = Down(n) /\ m.f.state = n.f.state
  <1>1. n.f.snd_nxt \in SeqNo /\ <<>> \in Bytes
    BY DEF NetType, FlowType, Bytes
  <1>2. QED BY <1>1, EmitAtOK DEF Emit

\* close_socket leaves the flow alone.
LEMMA CloseSocketOK ==
  ASSUME NEW n \in NetType
  PROVE  LET m == CloseSocket(n)
         IN Plain(n, m) /\ Down(m) = Down(n) /\ m.f = n.f /\ ~ m.k.open
  BY DEF CloseSocket, NetType, SocketType, Plain, Up, Down

\* Plain is transitive.
LEMMA PlainTrans ==
  ASSUME NEW n, NEW m, NEW r, Plain(n, m), Plain(m, r)
  PROVE  Plain(n, r)
  BY DEF Plain

\* A flow that goes into a terminal state and lets its socket go.
LEMMA ClosedOK ==
  ASSUME NEW n \in NetType, NEW st \in {"closed", "failed"}
  PROVE  /\ LET m == [n EXCEPT !.f.state = st]
            IN Plain(n, m) /\ Down(m) = Down(n)
         /\ LET m == CloseSocket([n EXCEPT !.f.state = st])
            IN Plain(n, m) /\ Down(m) = Down(n)
  <1> DEFINE m == [n EXCEPT !.f.state = st]
  <1>1. Plain(n, m) /\ Down(m) = Down(n)
    BY DEF NetType, FlowType, Plain, Up, Down
  <1> HIDE DEF m
  <1>2. Plain(m, CloseSocket(m)) /\ Down(CloseSocket(m)) = Down(m)
    BY <1>1, CloseSocketOK DEF Plain
  <1>3. QED BY <1>1, <1>2, PlainTrans DEF m

\* reset
LEMMA ResetOK ==
  ASSUME NEW n \in NetType
  PROVE  LET m == Reset(n)
         IN Plain(n, m) /\ Down(m) = Down(n)
  <1> DEFINE r == Emit(n, {"RST", "ACK"})
  <1>1. Plain(n, r) /\ Down(r) = Down(n)
    BY EmitOK
  <1>2. Reset(n) = CloseSocket([r EXCEPT !.f.state = "closed"])
    BY DEF Reset
  <1> HIDE DEF r
  <1>3. Plain(r, Reset(n)) /\ Down(Reset(n)) = Down(r)
    BY <1>1, <1>2, ClosedOK DEF Plain
  <1>4. QED BY <1>1, <1>3, PlainTrans

\* An acknowledgement sent at once.
LEMMA AckNowOK ==
  ASSUME NEW n \in NetType
  PROVE  LET m == AckNow(n)
         IN Plain(n, m) /\ Down(m) = Down(n)
  <1> DEFINE r == Emit(n, {"ACK"})
             m == [r EXCEPT !.f.pending_ack = FALSE]
  <1>1. Plain(n, r) /\ Down(r) = Down(n)
    BY EmitOK
  <1>2. AckNow(n) = m
    BY DEF AckNow
  <1> HIDE DEF r
  <1>3. Plain(r, m) /\ Down(m) = Down(r)
    BY <1>1 DEF NetType, FlowType, Plain, Up, Down
  <1> HIDE DEF m
  <1>4. QED BY <1>1, <1>2, <1>3, PlainTrans

\* What _process_ack drops is part of what is unacknowledged.
LEMMA ProcessAckOK ==
  ASSUME NEW f \in FlowType, NEW num \in SeqNo
  PROVE  LET g == ProcessAck(f, num)
         IN /\ g \in FlowType /\ Len(g.unacked) <= Len(f.unacked)
            /\ g.present = f.present /\ g.to_remote = f.to_remote
            /\ g.rcv_nxt = f.rcv_nxt /\ g.client_closed = f.client_closed
            /\ g.state = f.state
  <1> DEFINE c == Least(Distance(num, f.snd_una), Len(f.unacked))
             d == Drop(f.unacked, c)
             b == Len(f.unacked) > c
             g == [f EXCEPT !.unacked = d, !.snd_una = num,
                            !.retransmits = 0, !.rto = b]
  <1>1. f.snd_una \in Int /\ f.unacked \in Bytes /\ num \in Int
        /\ Len(f.unacked) \in Nat
    BY DEF FlowType, SeqNo, Bytes
  <1>2. Distance(num, f.snd_una) \in Nat
    BY <1>1, DistanceType
  <1>3. c \in 0 .. Len(f.unacked)
    BY <1>1, <1>2 DEF Least
  <1>4. d \in Bytes /\ Len(d) <= Len(f.unacked)
    BY <1>1, <1>3, DropType
  <1>5. b \in BOOLEAN
    OBVIOUS
  <1>6. ProcessAck(f, num) = f \/ ProcessAck(f, num) = g
    BY DEF ProcessAck
  <1> HIDE DEF c, d, b
  <1>7. /\ g \in FlowType /\ g.unacked = d
        /\ g.present = f.present /\ g.to_remote = f.to_remote
        /\ g.rcv_nxt = f.rcv_nxt /\ g.client_closed = f.client_closed
        /\ g.state = f.state
    BY <1>4, <1>5 DEF FlowType
  <1> HIDE DEF g
  <1>8. QED BY <1>1, <1>4, <1>6, <1>7

\* _maybe_finish: at most the FIN is sent, and the flow may be over.
LEMMA MaybeFinishOK ==
  ASSUME NEW n \in NetType
  PROVE  LET m == MaybeFinish(n)
         IN /\ Plain(n, m) /\ m.f.unacked = n.f.unacked
            /\ m.f.snd_una = n.f.snd_una /\ m.f.snd_wnd = n.f.snd_wnd
            /\ \/ m.f.snd_nxt = n.f.snd_nxt /\ m.f.fin_sent = n.f.fin_sent
               \/ m.f.snd_nxt = Plus(n.f.snd_nxt, 1) /\ m.f.fin_sent = TRUE
  <1> DEFINE e == Emit(n, {"FIN", "ACK"})
             v == Plus(e.f.snd_nxt, 1)
             a == [e EXCEPT !.f.snd_nxt = v, !.f.fin_sent = TRUE]
             c(m) == CloseSocket([m EXCEPT !.f.state = "closed"])
             w == MaybeFinish(n)
  <1>1. Plain(n, e) /\ Down(e) = Down(n)
    BY EmitOK
  <1>2. w = n \/ w = a \/ w = c(n) \/ w = c(a)
    BY DEF MaybeFinish
  <1> HIDE DEF e
  <1>3. v \in SeqNo /\ v = Plus(n.f.snd_nxt, 1)
    BY <1>1, PlusType DEF Plain, NetType, FlowType, SeqNo, Down
  <1> HIDE DEF v
  <1>4. /\ Plain(e, a) /\ a.f.unacked = e.f.unacked
        /\ a.f.snd_una = e.f.snd_una /\ a.f.snd_wnd = e.f.snd_wnd
        /\ a.f.snd_nxt = v /\ a.f.fin_sent = TRUE
    BY <1>1, <1>3 DEF Plain, NetType, FlowType, Up
  <1> HIDE DEF a
  <1>5. Plain(n, a)
    BY <1>1, <1>4, PlainTrans
  <1>6. /\ Plain(n, c(n)) /\ Down(c(n)) = Down(n)
        /\ Plain(a, c(a)) /\ Down(c(a)) = Down(a)
    BY <1>5, ClosedOK DEF Plain
  <1>7. Plain(n, c(a)) /\ Plain(n, n)
    BY <1>5, <1>6, PlainTrans DEF Plain
  <1> HIDE DEF c, w
  <1>8. QED BY <1>1, <1>2, <1>3, <1>4, <1>5, <1>6, <1>7 DEF Down, w

\* Everything accepted from the client in this flow's time.
Taken(n) == n.k.got \o n.f.to_remote

\* A step that may hand bytes on to the remote but takes none from the client.
Kept(n, m) ==
  /\ m \in NetType /\ (m.k.open => n.k.open)
  /\ Taken(m) = Taken(n) /\ Len(m.f.to_remote) <= Len(n.f.to_remote)
  /\ m.f.present = n.f.present /\ m.f.rcv_nxt = n.f.rcv_nxt
  /\ m.f.client_closed = n.f.client_closed

\* A plain step keeps the bytes.
LEMMA PlainKept ==
  ASSUME NEW n \in NetType, NEW m, Plain(n, m)
  PROVE  Kept(n, m)
  <1>1. Len(n.f.to_remote) \in Nat
    BY DEF NetType, FlowType, Bytes
  <1>2. QED BY <1>1 DEF Plain, Kept, Taken, Up

\* Kept is transitive.
LEMMA KeptTrans ==
  ASSUME NEW n \in NetType, NEW m, NEW r, Kept(n, m), Kept(m, r)
  PROVE  Kept(n, r)
  <1>1. m \in NetType /\ r \in NetType
    BY DEF Kept
  <1>2. ASSUME NEW x \in NetType PROVE Len(x.f.to_remote) \in Nat
    BY DEF NetType, FlowType, Bytes
  <1>3. /\ Len(n.f.to_remote) \in Nat /\ Len(m.f.to_remote) \in Nat
        /\ Len(r.f.to_remote) \in Nat
    BY <1>1, <1>2
  <1>4. QED BY <1>3 DEF Kept

\* Concatenation of byte sequences may be regrouped.
LEMMA Regroup ==
  \A g, t, d \in Seq(Nat) : (g \o t) \o d = g \o (t \o d)
  BY ConcatAssociative

\* A sequence cut in two behind another one.
LEMMA SplitConcat ==
  ASSUME NEW g \in Bytes, NEW t \in Bytes, NEW w \in 0 .. Len(t)
  PROVE  (g \o SubSeq(t, 1, w)) \o Drop(t, w) = g \o t
  <1> DEFINE x == SubSeq(t, 1, w)
             y == Drop(t, w)
  <1>1. x \in Seq(Nat) /\ y \in Seq(Nat) /\ Len(x) = w /\ Len(y) = Len(t) - w
    BY DropType DEF Bytes
  <1>2. x \o y = t
    <2>1. /\ t \in Seq(Nat) /\ Len(t) \in Nat /\ 1 \in 1 .. (Len(t) + 1)
          /\ w \in (1 - 1) .. Len(t) /\ Len(t) \in w .. Len(t)
      BY DEF Bytes
    <2>2. SubSeq(t, 1, w) \o SubSeq(t, w + 1, Len(t)) = SubSeq(t, 1, Len(t))
      BY <2>1, ConcatAdjacentSubSeq
    <2>3. SubSeq(t, 1, Len(t)) = t
      BY <2>1, SubSeqFull
    <2>4. QED BY <2>2, <2>3 DEF Drop
  <1>3. g \in Seq(Nat)
    BY DEF Bytes
  <1> HIDE DEF x, y
  <1>4. (g \o x) \o y = g \o (x \o y)
    BY <1>1, <1>3, ConcatAssociative
  <1>5. QED BY <1>2, <1>4 DEF x, y

\* _write_to_remote
LEMMA WriteToRemoteOK ==
  ASSUME NEW n \in NetType, NEW w \in 0 .. Len(n.f.to_remote)
  PROVE  LET m == WriteToRemote(n, w)
         IN Kept(n, m) /\ Down(m) = Down(n)
  <1> DEFINE g == n.k.got \o SubSeq(n.f.to_remote, 1, w)
             t == Drop(n.f.to_remote, w)
             c == CloseSocket([n EXCEPT !.f.state = "closed"])
             m == [n EXCEPT !.k.got = g, !.f.to_remote = t]
  <1>1. \/ WriteToRemote(n, w) = n \/ WriteToRemote(n, w) = c
        \/ WriteToRemote(n, w) = m
    BY DEF WriteToRemote
  <1>2. n.k.got \in Bytes /\ n.f.to_remote \in Bytes /\ Len(n.f.to_remote) \in Nat
    BY DEF NetType, FlowType, SocketType, Bytes
  <1>3. /\ g \in Bytes /\ t \in Bytes /\ Len(t) <= Len(n.f.to_remote)
        /\ g \o t = n.k.got \o n.f.to_remote
    <2>1. /\ t \in Bytes /\ Len(t) = Len(n.f.to_remote) - w
          /\ SubSeq(n.f.to_remote, 1, w) \in Bytes
      BY <1>2, DropType
    <2>2. g \in Bytes
      BY <1>2, <2>1 DEF Bytes
    <2>3. g \o t = n.k.got \o n.f.to_remote
      BY <1>2, SplitConcat
    <2>4. Len(t) <= Len(n.f.to_remote)
      BY <1>2, <2>1
    <2>5. QED BY <2>1, <2>2, <2>3, <2>4
  <1>4. Plain(n, c) /\ Down(c) = Down(n)
    BY ClosedOK
  <1>5. Kept(n, c)
    BY <1>4, PlainKept
  <1>6. Kept(n, n)
    BY PlainKept DEF Plain
  <1> HIDE DEF g, t, c
  <1>7. Kept(n, m) /\ Down(m) = Down(n)
    <2>1. /\ m \in NetType /\ m.k.got = g /\ m.f.to_remote = t
          /\ m.k.open = n.k.open /\ m.f.present = n.f.present
          /\ m.f.rcv_nxt = n.f.rcv_nxt
          /\ m.f.client_closed = n.f.client_closed
      BY <1>3 DEF NetType, FlowType, SocketType
    <2>2. Down(m) = Down(n)
      BY DEF NetType, FlowType, SocketType, Down
    <2> HIDE DEF m
    <2>3. QED BY <1>3, <2>1, <2>2 DEF Kept, Taken
  <1> HIDE DEF m
  <1>8. QED BY <1>1, <1>4, <1>5, <1>6, <1>7

\* _check_connect
LEMMA CheckConnectOK ==
  ASSUME NEW n \in NetType
  PROVE  LET m == CheckConnect(n)
         IN Plain(n, m) /\ m.f.unacked = n.f.unacked
  <1> DEFINE a == [n EXCEPT !.f.state = "failed"]
             b == [n EXCEPT !.f.state = "established", !.f.connected = TRUE]
             e == Emit(b, {"SYN", "ACK"})
             v == Plus(e.f.snd_nxt, 1)
             c == [e EXCEPT !.f.snd_nxt = v]
             w == CheckConnect(n)
  <1>1. n.k.status \in {"ok", "pending", "refused"} /\ n.k.reset \in BOOLEAN
    BY DEF NetType, SocketType
  <1>2. w = n \/ w = a \/ w = c
    BY <1>1 DEF CheckConnect
  <1>3. Plain(n, a) /\ a.f.unacked = n.f.unacked
    BY ClosedOK DEF Down
  <1>4. Plain(n, b) /\ b.f.unacked = n.f.unacked
    BY DEF NetType, FlowType, Plain, Up
  <1> HIDE DEF a, b
  <1>5. Plain(b, e) /\ e.f.unacked = b.f.unacked
    BY <1>4, EmitOK DEF Plain, Down
  <1> HIDE DEF e
  <1>6. v \in SeqNo
    <2>1. e.f.snd_nxt \in Int
      BY <1>5 DEF Plain, NetType, FlowType, SeqNo
    <2>2. QED BY <2>1, PlusType
  <1> HIDE DEF v
  <1>7. Plain(e, c) /\ c.f.unacked = e.f.unacked
    BY <1>5, <1>6 DEF NetType, FlowType, Plain, Up
  <1> HIDE DEF c
  <1>8. Plain(n, c)
    BY <1>4, <1>5, <1>7, PlainTrans
  <1>9. Plain(n, n)
    BY DEF Plain
  <1> HIDE DEF w
  <1>10. QED BY <1>2, <1>3, <1>4, <1>5, <1>7, <1>8, <1>9 DEF w

\* on_readable
LEMMA OnReadableOK ==
  ASSUME NEW n \in NetType
  PROVE  LET m == OnReadable(n)
         IN Plain(n, m) /\ Down(m) = Down(n)
  <1> DEFINE count == Least(ReadChunk, Len(n.k.rbuf))
             x == n.f.from_remote \o SubSeq(n.k.rbuf, 1, count)
             y == Drop(n.k.rbuf, count)
             a == [n EXCEPT !.f.remote_closed = TRUE, !.k.registered = FALSE]
             b == [n EXCEPT !.f.from_remote = x, !.k.rbuf = y]
             w == OnReadable(n)
  <1>1. n.k.open \in BOOLEAN /\ n.k.reset \in BOOLEAN
        /\ n.k.rbuf \in Bytes /\ n.f.from_remote \in Bytes
        /\ Len(n.k.rbuf) \in Nat
    BY DEF NetType, SocketType, FlowType, Bytes
  <1>2. w = n \/ w = Reset(n) \/ w = a \/ w = b
    BY <1>1 DEF OnReadable
  <1>3. count \in 0 .. Len(n.k.rbuf)
    BY <1>1, UsernetAssumption DEF Least
  <1>4. x \in Bytes /\ y \in Bytes
    <2>1. SubSeq(n.k.rbuf, 1, count) \in Bytes /\ y \in Bytes
      BY <1>1, <1>3, DropType
    <2>2. QED BY <1>1, <2>1 DEF Bytes
  <1> HIDE DEF x, y, count
  <1>5. Plain(n, a) /\ Down(a) = Down(n)
    BY DEF NetType, SocketType, FlowType, Plain, Up, Down
  <1>6. Plain(n, b) /\ Down(b) = Down(n)
    BY <1>4 DEF NetType, SocketType, FlowType, Plain, Up, Down
  <1>7. Plain(n, Reset(n)) /\ Down(Reset(n)) = Down(n)
    BY ResetOK
  <1>8. Plain(n, n)
    BY DEF Plain
  <1> HIDE DEF a, b, w
  <1>9. QED BY <1>2, <1>5, <1>6, <1>7, <1>8 DEF w

\* Plus wraps at most once.
LEMMA PlusValue ==
  ASSUME NEW x \in SeqNo, NEW k \in 0 .. SeqMod
  PROVE  Plus(x, k) = IF x + k < SeqMod THEN x + k ELSE x + k - SeqMod
  <1> DEFINE y == x + k
  <1>0. SeqMod \in Nat \ {0} /\ y \in 0 .. (2 * SeqMod - 1)
    BY UsernetAssumption DEF SeqNo
  <1>1. Plus(x, k) = y % SeqMod
    BY DEF Plus
  <1> HIDE DEF y
  <1>2. CASE y < SeqMod
    <2>1. y \in 0 .. (SeqMod - 1)
      BY <1>0, <1>2
    <2>2. y % SeqMod = y
      BY <1>0, <2>1, ModSmall
    <2>3. QED BY <1>1, <1>2, <2>2 DEF y
  <1>3. CASE ~ (y < SeqMod)
    <2>1. y \in SeqMod .. (2 * SeqMod - 1)
      BY <1>0, <1>3
    <2>2. y % SeqMod = y - SeqMod
      BY <1>0, <2>1, ModOver
    <2>3. Plus(x, k) = IF y < SeqMod THEN y ELSE y - SeqMod
      BY <1>1, <1>3, <2>2
    <2>4. x \in Int /\ k \in Int /\ SeqMod \in Int
      BY <1>0 DEF SeqNo
    <2>5. QED BY <2>3, <2>4 DEF y
  <1>4. QED BY <1>2, <1>3

\* Distance wraps at most once.
LEMMA DistanceValue ==
  ASSUME NEW a \in SeqNo, NEW b \in SeqNo
  PROVE  Distance(a, b) = IF a >= b THEN a - b ELSE a - b + SeqMod
  BY UsernetAssumption DEF Distance, SeqNo

\* Sending k more moves the distance from what is acknowledged by at most k.
LEMMA DistanceStep ==
  ASSUME NEW x \in SeqNo, NEW u \in SeqNo, NEW k \in Nat
  PROVE  Distance(Plus(x, k), u) <= Distance(x, u) + k
  <1> DEFINE p == Plus(x, k)
             d == Distance(x, u)
             e == Distance(p, u)
  <1>0. SeqMod \in Nat \ {0} /\ x \in Nat /\ u \in Nat /\ x < SeqMod /\ u < SeqMod
    BY UsernetAssumption DEF SeqNo
  <1>1. p \in SeqNo /\ d \in SeqNo /\ e \in SeqNo
    BY <1>0, PlusType, DistanceType DEF SeqNo
  <1>2. CASE k >= SeqMod
    BY <1>0, <1>1, <1>2 DEF SeqNo
  <1>3. CASE k < SeqMod
    <2>1. p = IF x + k < SeqMod THEN x + k ELSE x + k - SeqMod
      <3>1. k \in 0 .. SeqMod
        BY <1>0, <1>3
      <3>2. QED BY <3>1, PlusValue
    <2>2. /\ d = IF x >= u THEN x - u ELSE x - u + SeqMod
          /\ e = IF p >= u THEN p - u ELSE p - u + SeqMod
      BY <1>1, DistanceValue
    <2> HIDE DEF p, d, e
    <2>3. e <= d + k
      BY <1>0, <1>1, <1>3, <2>1, <2>2 DEF SeqNo
    <2>4. QED BY <2>3 DEF p, d, e
  <1>4. QED BY <1>0, <1>2, <1>3

\* _send_to_client: new data within the window, or nothing.
LEMMA SendToClientOK ==
  ASSUME NEW n \in NetType
  PROVE  LET m == SendToClient(n)
         IN /\ Plain(n, m) /\ m.f.fin_sent = n.f.fin_sent
            /\ m.f.snd_wnd = n.f.snd_wnd
            /\ Down(m) = Down(n) \/ InFlight(m.f) <= m.f.snd_wnd
  <1> DEFINE f == n.f
             total == IF Allowed(f) <= 0 THEN 0
                      ELSE Least(Len(f.from_remote), Allowed(f))
             size == (total + Mss - 1) \div Mss
             part(i) == SubSeq(f.from_remote, (i - 1) * Mss + 1,
                               Least(i * Mss, total))
             seg(i) == [flags |-> {"ACK"}, seq |-> Plus(f.snd_nxt, (i - 1) * Mss),
                        num |-> f.rcv_nxt, wnd |-> ReceiveWindow(f),
                        data |-> part(i)]
             segments == [i \in 1 .. size |-> seg(i)]
             o == n.out \o segments
             wnd == ReceiveWindow(f)
             y == Drop(f.from_remote, total)
             z == f.unacked \o SubSeq(f.from_remote, 1, total)
             v == Plus(f.snd_nxt, total)
             m == [n EXCEPT !.out = o, !.f.advertised = wnd,
                            !.f.from_remote = y, !.f.unacked = z,
                            !.f.snd_nxt = v, !.f.rto = TRUE]
  <1>1. SendToClient(n) = n \/ (SendToClient(n) = m /\ total # 0)
    BY DEF SendToClient
  <1>2. /\ f \in FlowType /\ n.k \in SocketType /\ n.out \in Seq(Segment)
        /\ f.from_remote \in Bytes /\ Len(f.from_remote) \in Nat
        /\ f.unacked \in Bytes /\ f.snd_nxt \in SeqNo /\ f.snd_una \in SeqNo
        /\ f.snd_nxt \in Int /\ f.rcv_nxt \in SeqNo /\ f.snd_wnd \in Nat
    BY DEF NetType, FlowType, Bytes, SeqNo
  <1>3. Mss \in Nat \ {0}
    BY UsernetAssumption
  <1>4. InFlight(f) \in Nat
    <2>1. f.snd_nxt \in Int /\ f.snd_una \in Int
      BY <1>2 DEF SeqNo
    <2>2. QED BY <2>1, DistanceType DEF InFlight
  <1>5. /\ total \in 0 .. Len(f.from_remote)
        /\ total # 0 => InFlight(f) + total <= f.snd_wnd
    BY <1>2, <1>4 DEF Allowed, Least
  <1> HIDE DEF f, total
  <1>6. size \in Nat
    <2>1. total + Mss - 1 \in Nat
      BY <1>3, <1>5
    <2>2. QED BY <1>3, <2>1
  <1>7. ASSUME NEW i \in 1 .. size
        PROVE  seg(i) \in Segment
    <2>1. i \in Nat /\ i - 1 \in Nat /\ total \in Int
      BY <1>5, <1>6
    <2>2. (i - 1) * Mss \in Nat /\ i * Mss \in Nat
      BY <1>3, <2>1
    <2> DEFINE a == (i - 1) * Mss
               b == Least(i * Mss, total)
    <2>3. a \in Nat /\ b \in Int /\ b <= total
      BY <2>1, <2>2 DEF Least
    <2> HIDE DEF a, b
    <2>4. Plus(f.snd_nxt, a) \in SeqNo
      BY <1>2, <2>3, PlusType
    <2>5. SubSeq(f.from_remote, a + 1, b) \in Seq(Nat)
      <3>1. \A j \in (a + 1) .. b : f.from_remote[j] \in Nat
        <4>1. f.from_remote \in Seq(Nat)
          BY <1>2 DEF Bytes
        <4>2. \A j \in (a + 1) .. b : j \in 1 .. Len(f.from_remote)
          BY <1>2, <1>5, <2>3
        <4>3. QED BY <4>1, <4>2, ElementOfSeq
      <3>2. a + 1 \in Int
        BY <2>3
      <3>3. QED BY <2>3, <3>1, <3>2, SubSeqProperties
    <2>6. ReceiveWindow(f) \in Nat
      BY <1>2, WindowType
    <2>7. QED BY <1>2, <2>4, <2>5, <2>6 DEF Segment, Bytes, a, b
  <1>8. o \in Seq(Segment)
    <2> HIDE DEF seg, size
    <2>1. segments \in Seq(Segment)
      BY <1>6, <1>7
    <2> HIDE DEF segments
    <2>2. QED BY <1>2, <2>1
  <1>9. /\ y \in Bytes /\ z \in Bytes /\ v \in SeqNo /\ wnd \in Nat
    <2>1. y \in Bytes /\ SubSeq(f.from_remote, 1, total) \in Bytes
      BY <1>2, <1>5, DropType
    <2>2. z \in Bytes
      BY <1>2, <2>1 DEF Bytes
    <2>3. v \in SeqNo
      BY <1>2, <1>5, PlusType
    <2>4. wnd \in Nat
      BY <1>2, WindowType
    <2>5. QED BY <2>1, <2>2, <2>3, <2>4
  <1>10. Distance(v, f.snd_una) <= InFlight(f) + total
    BY <1>2, <1>5, DistanceStep DEF InFlight
  <1>11. f = n.f
    BY DEF f
  <1> HIDE DEF o, y, z, v, wnd
  <1>12. /\ Plain(n, m) /\ m.f.fin_sent = f.fin_sent
         /\ m.f.snd_wnd = f.snd_wnd /\ m.f.snd_nxt = v
         /\ m.f.snd_una = f.snd_una
    BY <1>8, <1>9, <1>11 DEF NetType, FlowType, Plain, Up
  <1> HIDE DEF m
  <1>13. total # 0 => InFlight(m.f) <= m.f.snd_wnd
    <2>1. Distance(v, f.snd_una) \in Nat
      <3>1. v \in Int /\ f.snd_una \in Int
        BY <1>2, <1>9 DEF SeqNo
      <3>2. QED BY <3>1, DistanceType
    <2>2. QED BY <1>2, <1>4, <1>5, <1>10, <1>12, <2>1 DEF InFlight
  <1>14. Plain(n, n)
    BY DEF Plain
  <1>15. QED BY <1>1, <1>11, <1>12, <1>13, <1>14

\* _retransmit repeats, gives up or does nothing; it sends nothing new.
LEMMA RetransmitOK ==
  ASSUME NEW n \in NetType, NEW due
  PROVE  LET m == Retransmit(n, due)
         IN Plain(n, m) /\ Down(m) = Down(n)
  <1> DEFINE c == n.f.retransmits + 1
             p == [n EXCEPT !.f.retransmits = c]
             q == [n EXCEPT !.f.rto = FALSE]
             d == SubSeq(n.f.unacked, 1, Least(Mss, Len(n.f.unacked)))
             e == EmitAt(p, {"ACK"}, n.f.snd_una, d)
             w == Retransmit(n, due)
  <1>1. w = n \/ w = q \/ w = Reset(p) \/ w = e
    BY DEF Retransmit
  <1>2. c \in Nat /\ n.f.snd_una \in SeqNo /\ n.f.unacked \in Bytes
        /\ Len(n.f.unacked) \in Nat
    BY DEF NetType, FlowType, Bytes
  <1>3. d \in Bytes
    <2>1. Least(Mss, Len(n.f.unacked)) \in 0 .. Len(n.f.unacked)
      BY <1>2, UsernetAssumption DEF Least
    <2>2. QED BY <1>2, <2>1, DropType
  <1> HIDE DEF c, d
  <1>4. /\ Plain(n, p) /\ Down(p) = Down(n)
        /\ Plain(n, q) /\ Down(q) = Down(n) /\ Plain(n, n)
    BY <1>2 DEF NetType, FlowType, Plain, Up, Down
  <1> HIDE DEF p, q
  <1>5. Plain(p, e) /\ Down(e) = Down(p)
    BY <1>2, <1>3, <1>4, EmitAtOK DEF Plain
  <1>6. Plain(p, Reset(p)) /\ Down(Reset(p)) = Down(p)
    BY <1>4, ResetOK DEF Plain
  <1>7. Plain(n, e) /\ Plain(n, Reset(p))
    BY <1>4, <1>5, <1>6, PlainTrans
  <1> HIDE DEF e, w
  <1>8. QED BY <1>1, <1>4, <1>5, <1>6, <1>7 DEF w

\* The announcement of a reopened window.
LEMMA ReopenOK ==
  ASSUME NEW n \in NetType
  PROVE  LET m == Reopen(n)
         IN Plain(n, m) /\ Down(m) = Down(n)
  <1>1. Plain(n, Emit(n, {"ACK"})) /\ Down(Emit(n, {"ACK"})) = Down(n)
    BY EmitOK
  <1>2. QED BY <1>1 DEF Reopen, Plain

\* A delayed acknowledgement that is due.
LEMMA DelayedAckOK ==
  ASSUME NEW n \in NetType, NEW due
  PROVE  LET m == DelayedAck(n, due)
         IN Plain(n, m) /\ Down(m) = Down(n)
  <1>1. Plain(n, AckNow(n)) /\ Down(AckNow(n)) = Down(n)
    BY AckNowOK
  <1>2. QED BY <1>1 DEF DelayedAck, Plain

\* A step that adds to what is unacknowledged stays within the window.
Within(n, m) ==
  Len(m.f.unacked) > Len(n.f.unacked)
    => InFlight(m.f) <= m.f.snd_wnd + IF m.f.fin_sent THEN 1 ELSE 0

\* _maybe_finish adds at most the FIN to what is in flight.
LEMMA FinishWithin ==
  ASSUME NEW n \in NetType, InFlight(n.f) <= n.f.snd_wnd
  PROVE  LET m == MaybeFinish(n)
         IN InFlight(m.f) <= m.f.snd_wnd + IF m.f.fin_sent THEN 1 ELSE 0
  <1> DEFINE m == MaybeFinish(n)
  <1>1. /\ Plain(n, m) /\ m.f.unacked = n.f.unacked
        /\ m.f.snd_una = n.f.snd_una /\ m.f.snd_wnd = n.f.snd_wnd
        /\ \/ m.f.snd_nxt = n.f.snd_nxt /\ m.f.fin_sent = n.f.fin_sent
           \/ m.f.snd_nxt = Plus(n.f.snd_nxt, 1) /\ m.f.fin_sent = TRUE
    BY MaybeFinishOK
  <1> HIDE DEF m
  <1>2. n.f.snd_nxt \in SeqNo /\ n.f.snd_una \in SeqNo /\ n.f.snd_wnd \in Nat
    BY DEF NetType, FlowType
  <1>3. InFlight(n.f) \in Nat
    <2>1. n.f.snd_nxt \in Int /\ n.f.snd_una \in Int
      BY <1>2 DEF SeqNo
    <2>2. QED BY <2>1, DistanceType DEF InFlight
  <1>4. /\ Distance(Plus(n.f.snd_nxt, 1), n.f.snd_una) <= InFlight(n.f) + 1
        /\ Distance(Plus(n.f.snd_nxt, 1), n.f.snd_una) \in Nat
    <2>1. n.f.snd_nxt \in Int /\ n.f.snd_una \in Int
      BY <1>2 DEF SeqNo
    <2>2. Plus(n.f.snd_nxt, 1) \in Int
      BY <2>1, PlusType DEF SeqNo
    <2>3. QED BY <1>2, <2>1, <2>2, DistanceStep, DistanceType DEF InFlight
  <1>5. InFlight(m.f) \in Nat /\ m.f.snd_wnd \in Nat
    BY <1>1, <1>2, <1>3, <1>4 DEF InFlight
  <1>6. InFlight(m.f) <= m.f.snd_wnd + IF m.f.fin_sent THEN 1 ELSE 0
    <2>1. CASE m.f.snd_nxt = n.f.snd_nxt
      BY <1>1, <1>2, <1>3, <1>5, <2>1 DEF InFlight
    <2>2. CASE m.f.snd_nxt = Plus(n.f.snd_nxt, 1) /\ m.f.fin_sent = TRUE
      BY <1>1, <1>2, <1>3, <1>4, <1>5, <2>2 DEF InFlight
    <2>3. QED BY <1>1, <2>1, <2>2
  <1>7. QED BY <1>6 DEF m

\* service: nothing is taken from the client, and new data for it stays within
\* the window it gave.
LEMMA ServiceOK ==
  ASSUME NEW n \in NetType, NEW w \in 0 .. Len(n.f.to_remote), NEW due
  PROVE  LET m == Service(n, w, due)
         IN Kept(n, m) /\ Within(n, m)
  <1> DEFINE m == Service(n, w, due)
  <1>0. Len(n.f.unacked) \in Nat /\ Kept(n, n)
    BY PlainKept DEF NetType, FlowType, Bytes, Plain
  <1>1. CASE n.f.state \in {"closed", "failed"}
    <2>1. m = n
      BY <1>1 DEF Service
    <2>2. QED BY <1>0, <2>1 DEF Within
  <1>2. CASE n.f.state = "connecting"
    <2>1. m = CheckConnect(n)
      BY <1>2 DEF Service
    <2>2. Plain(n, m) /\ m.f.unacked = n.f.unacked
      BY <2>1, CheckConnectOK
    <2>3. QED BY <1>0, <2>2, PlainKept DEF Within
  <1>3. CASE n.f.state = "established"
    <2> DEFINE a == WriteToRemote(n, w)
               b == DelayedAck(a, due)
               c == Reopen(b)
               d == SendToClient(c)
               e == Retransmit(d, due)
               g == MaybeFinish(e)
    <2>1. m = g
      BY <1>3 DEF Service, Then
    <2>2. Kept(n, a) /\ Down(a) = Down(n)
      BY WriteToRemoteOK
    <2> HIDE DEF a
    <2>3. Plain(a, b) /\ Down(b) = Down(a)
      BY <2>2, DelayedAckOK DEF Kept
    <2> HIDE DEF b
    <2>4. Plain(b, c) /\ Down(c) = Down(b)
      BY <2>3, ReopenOK DEF Plain
    <2> HIDE DEF c
    <2>5. /\ Plain(c, d) /\ d.f.fin_sent = c.f.fin_sent
          /\ d.f.snd_wnd = c.f.snd_wnd
          /\ Down(d) = Down(c) \/ InFlight(d.f) <= d.f.snd_wnd
      BY <2>4, SendToClientOK DEF Plain
    <2> HIDE DEF d
    <2>6. Plain(d, e) /\ Down(e) = Down(d)
      BY <2>5, RetransmitOK DEF Plain
    <2> HIDE DEF e
    <2>7. Plain(e, g) /\ g.f.unacked = e.f.unacked
      BY <2>6, MaybeFinishOK DEF Plain
    <2>8. Down(d) = Down(c) \/ InFlight(e.f) <= e.f.snd_wnd
      BY <2>5, <2>6 DEF Down, InFlight
    <2>9. InFlight(e.f) <= e.f.snd_wnd
            => InFlight(g.f) <= g.f.snd_wnd + IF g.f.fin_sent THEN 1 ELSE 0
      BY <2>6, FinishWithin DEF Plain
    <2> HIDE DEF g
    <2>10. Down(d) = Down(c) => g.f.unacked = n.f.unacked
      BY <2>2, <2>3, <2>4, <2>6, <2>7 DEF Down
    <2>11. Within(n, g)
      BY <1>0, <2>8, <2>9, <2>10 DEF Within
    <2>12. Plain(a, g)
      BY <2>3, <2>4, <2>5, <2>6, <2>7, PlainTrans
    <2>13. Kept(n, g)
      <3>1. Kept(a, g)
        BY <2>2, <2>12, PlainKept DEF Kept
      <3>2. QED BY <2>2, <3>1, KeptTrans
    <2>14. QED BY <2>1, <2>11, <2>13
  <1>4. n.f.state \in {"connecting", "established", "closed", "failed"}
    BY DEF NetType, FlowType
  <1>5. QED BY <1>1, <1>2, <1>3, <1>4

-----------------------------------------------------------------------------
(* From the client.                                                         *)

\* The sequence number of the client's byte a + 1; byte 1 follows the SYN.
Position(a) == Plus(Irs, 1 + a)

\* A position wraps at most once.
LEMMA PositionValue ==
  ASSUME NEW a \in 0 .. (SeqMod - 1)
  PROVE  /\ Position(a) \in SeqNo
         /\ Position(a) = IF Irs + 1 + a < SeqMod THEN Irs + 1 + a
                          ELSE Irs + 1 + a - SeqMod
  <1> DEFINE k == 1 + a
  <1>1. Irs \in SeqNo /\ Irs \in Int /\ k \in 0 .. SeqMod /\ k \in Int
        /\ SeqMod \in Nat
    BY UsernetAssumption DEF SeqNo
  <1>2. Position(a) = Plus(Irs, k)
    BY DEF Position
  <1>3. k = 1 + a
    OBVIOUS
  <1> HIDE DEF k
  <1>4. Plus(Irs, k) = IF Irs + k < SeqMod THEN Irs + k ELSE Irs + k - SeqMod
    BY <1>1, PlusValue
  <1>5. Plus(Irs, k) \in SeqNo
    BY <1>1, PlusType
  <1>6. QED BY <1>1, <1>2, <1>3, <1>4, <1>5

\* Within one turn of the number space a position tells its byte.
LEMMA PositionInjective ==
  ASSUME NEW a \in 0 .. (SeqMod - 1), NEW b \in 0 .. (SeqMod - 1),
         Position(a) = Position(b)
  PROVE  a = b
  <1>1. SeqMod \in Nat \ {0} /\ Irs \in 0 .. (SeqMod - 1)
    BY UsernetAssumption
  <1> DEFINE p == Position(a)
             q == Position(b)
  <1>2. /\ p \in SeqNo /\ q \in SeqNo /\ p = q
        /\ p = IF Irs + 1 + a < SeqMod THEN Irs + 1 + a ELSE Irs + 1 + a - SeqMod
        /\ q = IF Irs + 1 + b < SeqMod THEN Irs + 1 + b ELSE Irs + 1 + b - SeqMod
    BY PositionValue
  <1> HIDE DEF p, q
  <1>3. p \in Int /\ Irs \in Int /\ SeqMod \in Int /\ a \in Int /\ b \in Int
        /\ a >= 0 /\ b >= 0 /\ a < SeqMod /\ b < SeqMod
        /\ Irs >= 0 /\ Irs < SeqMod
    BY <1>1, <1>2 DEF SeqNo
  <1>4. p = Irs + 1 + a \/ p = Irs + 1 + a - SeqMod
    BY <1>2
  <1>5. p = Irs + 1 + b \/ p = Irs + 1 + b - SeqMod
    BY <1>2
  <1>6. QED BY <1>3, <1>4, <1>5

\* rcv_nxt moves from position to position.
LEMMA PositionStep ==
  ASSUME NEW a \in Nat, NEW c \in Nat, a + c <= SeqMod - 1
  PROVE  Plus(Position(a), c) = Position(a + c)
  <1> DEFINE p == Position(a)
  <1>1. SeqMod \in Nat \ {0} /\ Irs \in 0 .. (SeqMod - 1)
    BY UsernetAssumption
  <1>2. /\ a \in 0 .. (SeqMod - 1) /\ a + c \in 0 .. (SeqMod - 1)
        /\ c \in 0 .. SeqMod
    BY <1>1
  <1>3. /\ p \in SeqNo
        /\ p = IF Irs + 1 + a < SeqMod THEN Irs + 1 + a ELSE Irs + 1 + a - SeqMod
    BY <1>2, PositionValue
  <1>4. Position(a + c) = IF Irs + 1 + (a + c) < SeqMod THEN Irs + 1 + (a + c)
                          ELSE Irs + 1 + (a + c) - SeqMod
    BY <1>2, PositionValue
  <1> HIDE DEF p
  <1>5. Plus(p, c) = IF p + c < SeqMod THEN p + c ELSE p + c - SeqMod
    BY <1>2, <1>3, PlusValue
  <1>6. Plus(p, c) = Position(a + c)
    BY <1>1, <1>3, <1>4, <1>5 DEF SeqNo
  <1>7. QED BY <1>6 DEF p

\* The distance from the first byte is the position.
LEMMA PositionDistance ==
  ASSUME NEW a \in 0 .. (SeqMod - 1)
  PROVE  Distance(Position(a), Plus(Irs, 1)) = a
  <1> DEFINE p == Position(a)
             q == Position(0)
  <1>1. SeqMod \in Nat \ {0} /\ Irs \in 0 .. (SeqMod - 1)
        /\ 0 \in 0 .. (SeqMod - 1)
    BY UsernetAssumption
  <1>2. /\ p \in SeqNo /\ q \in SeqNo
        /\ p = IF Irs + 1 + a < SeqMod THEN Irs + 1 + a ELSE Irs + 1 + a - SeqMod
        /\ q = IF Irs + 1 + 0 < SeqMod THEN Irs + 1 + 0 ELSE Irs + 1 + 0 - SeqMod
    BY <1>1, PositionValue
  <1>3. q = Plus(Irs, 1)
    BY DEF Position
  <1> HIDE DEF p, q
  <1>4. Distance(p, q) = IF p >= q THEN p - q ELSE p - q + SeqMod
    BY <1>2, DistanceValue
  <1>5. Distance(p, q) = a
    BY <1>1, <1>2, <1>4 DEF SeqNo
  <1>6. QED BY <1>3, <1>5 DEF p

\* Numbered bytes: type, length and elements.
LEMMA NumberedType ==
  ASSUME NEW a \in Nat, NEW l \in Nat
  PROVE  /\ Numbered(a, a + l) \in Bytes /\ Len(Numbered(a, a + l)) = l
         /\ \A i \in 1 .. l : Numbered(a, a + l)[i] = a + i
  <1>1. Numbered(a, a + l) = [i \in 1 .. l |-> a + i]
    BY DEF Numbered
  <1>2. [i \in 1 .. l |-> a + i] \in Seq(Nat)
    OBVIOUS
  <1>3. QED BY <1>1, <1>2 DEF Bytes

\* Taking the next bytes in order extends what was taken.
LEMMA NumberedExtend ==
  ASSUME NEW b \in Nat, NEW l \in Nat, NEW c \in 0 .. l
  PROVE  Numbered(0, b) \o SubSeq(Numbered(b, b + l), 1, c) = Numbered(0, b + c)
  <1> DEFINE x == Numbered(0, b)
             y == Numbered(b, b + l)
             z == SubSeq(y, 1, c)
             w == Numbered(0, b + c)
  <1>1. /\ x \in Seq(Nat) /\ Len(x) = b /\ \A i \in 1 .. b : x[i] = i
    <2>1. 0 \in Nat /\ 0 + b = b
      OBVIOUS
    <2>2. Numbered(0, 0 + b) = x
      BY <2>1
    <2>3. /\ Numbered(0, 0 + b) \in Bytes /\ Len(Numbered(0, 0 + b)) = b
          /\ \A i \in 1 .. b : Numbered(0, 0 + b)[i] = 0 + i
      BY <2>1, NumberedType
    <2> HIDE DEF x
    <2>4. QED BY <2>2, <2>3 DEF Bytes
  <1>2. /\ w \in Seq(Nat) /\ Len(w) = b + c /\ \A i \in 1 .. (b + c) : w[i] = i
    <2> DEFINE d == b + c
    <2>1. d \in Nat /\ 0 \in Nat /\ w = Numbered(0, 0 + d)
      OBVIOUS
    <2> HIDE DEF d
    <2>2. /\ Numbered(0, 0 + d) \in Bytes /\ Len(Numbered(0, 0 + d)) = d
          /\ \A i \in 1 .. d : Numbered(0, 0 + d)[i] = 0 + i
      BY <2>1, NumberedType
    <2> HIDE DEF w
    <2>3. QED BY <2>1, <2>2 DEF Bytes, d
  <1>3. y \in Seq(Nat) /\ Len(y) = l /\ \A i \in 1 .. l : y[i] = b + i
    BY NumberedType DEF Bytes
  <1> HIDE DEF x, y, w
  <1>4. /\ z \in Seq(Nat) /\ Len(z) = c /\ \A i \in 1 .. c : z[i] = b + i
    <2>1. \A i \in 1 .. c : y[i] \in Nat
      BY <1>3
    <2>2. 1 \in Int /\ c \in Int
      OBVIOUS
    <2>3. /\ z \in Seq(Nat) /\ Len(z) = IF 1 <= c THEN c - 1 + 1 ELSE 0
          /\ \A i \in 1 .. (c - 1 + 1) : z[i] = y[1 + i - 1]
      BY <2>1, <2>2, SubSeqProperties
    <2> HIDE DEF z
    <2>4. QED BY <1>3, <2>3
  <1> HIDE DEF z
  <1>5. /\ x \o z \in Seq(Nat) /\ Len(x \o z) = b + c
        /\ \A i \in 1 .. (b + c) : (x \o z)[i] = IF i <= b THEN x[i] ELSE z[i - b]
    BY <1>1, <1>4, ConcatProperties
  <1>6. \A i \in 1 .. (b + c) : (x \o z)[i] = w[i]
    BY <1>1, <1>2, <1>4, <1>5
  <1>7. x \o z = w
    BY <1>2, <1>5, <1>6, SeqEqual
  <1>8. QED BY <1>7 DEF x, y, z, w
-----------------------------------------------------------------------------
(* What arrives from the client.                                            *)

\* The client's own state, its bytes within the bound.
ClientType ==
  [state : {"closed", "syn-sent", "established", "done"}, nxt : 0 .. MaxUp,
   una : Nat, wnd : Nat, rcv : SeqNo, room : Nat, got : Bytes,
   fin_out : BOOLEAN, pauses : Nat]

\* A segment under way carries no data and no FIN, or bytes the client has
\* sent, under their own numbers, with a FIN only behind the last of them.
Ordered(seg, c) ==
  \/ seg.data = <<>> /\ "FIN" \notin seg.flags
  \/ \E a \in 0 .. c.nxt :
       /\ seg.seq = Position(a)
       /\ seg.data = Numbered(a, a + Len(seg.data))
       /\ a + Len(seg.data) <= c.nxt
       /\ "FIN" \in seg.flags => c.fin_out /\ a + Len(seg.data) = c.nxt

\* UpstreamExact, with rcv_nxt as a position and the client's side of it.
UpOK(n, c) ==
  n.f.present =>
    /\ Taken(n) = Numbered(0, Len(Taken(n)))
    /\ n.f.rcv_nxt = Position(Len(Taken(n)) + IF n.f.client_closed THEN 1 ELSE 0)
    /\ Len(n.f.to_remote) <= ReceiveBuffer
    /\ Len(Taken(n)) <= c.nxt
    /\ n.f.client_closed => Len(Taken(n)) = c.nxt /\ c.fin_out

\* A step that takes nothing from the client leaves UpOK alone.
LEMMA KeptUp ==
  ASSUME NEW n \in NetType, NEW m, NEW c, Kept(n, m), UpOK(n, c)
  PROVE  UpOK(m, c)
  <1>1. /\ Len(n.f.to_remote) \in Nat /\ Len(m.f.to_remote) \in Nat
        /\ ReceiveBuffer \in Nat
    BY UsernetAssumption DEF Kept, NetType, FlowType, Bytes
  <1>2. QED BY <1>1 DEF Kept, UpOK

\* The lengths of what was accepted.
LEMMA TakenType ==
  ASSUME NEW n \in NetType
  PROVE  /\ n.k.got \in Seq(Nat) /\ n.f.to_remote \in Seq(Nat)
         /\ Taken(n) \in Seq(Nat) /\ Len(Taken(n)) \in Nat
         /\ Len(Taken(n)) = Len(n.k.got) + Len(n.f.to_remote)
  <1>1. n.k.got \in Seq(Nat) /\ n.f.to_remote \in Seq(Nat)
    BY DEF NetType, SocketType, FlowType, Bytes
  <1>2. QED BY <1>1, ConcatProperties, LenProperties DEF Taken

\* What is accepted is part of the payload and fits into the buffer.
LEMMA AcceptedType ==
  ASSUME NEW f \in FlowType, NEW seg \in Segment
  PROVE  /\ Accepted(f, seg) \in 0 .. Len(seg.data)
         /\ Accepted(f, seg) # 0 =>
              /\ seg.seq = f.rcv_nxt
              /\ Len(f.to_remote) + Accepted(f, seg) <= ReceiveBuffer
  <1>1. seg.data \in Bytes /\ Len(seg.data) \in Nat /\ Len(f.to_remote) \in Nat
        /\ ReceiveBuffer \in Nat
    BY UsernetAssumption DEF Segment, FlowType, Bytes
  <1> DEFINE w == ReceiveWindow(f)
             l == Len(seg.data)
             x == Least(l, w)
  <1>2. w = IF Len(f.to_remote) > ReceiveBuffer THEN 0
            ELSE ReceiveBuffer - Len(f.to_remote)
    BY DEF ReceiveWindow
  <1>3. Accepted(f, seg) = IF seg.seq = f.rcv_nxt THEN x ELSE 0
    BY DEF Accepted
  <1>4. x = IF l < w THEN l ELSE w
    BY DEF Least
  <1> HIDE DEF w, x
  <1>5. w \in Nat /\ (w # 0 => Len(f.to_remote) + w <= ReceiveBuffer)
    BY <1>1, <1>2
  <1>6. l \in Nat
    BY <1>1
  <1> HIDE DEF l
  <1>7. x \in Nat /\ x <= l /\ x <= w
    BY <1>4, <1>5, <1>6
  <1>8. x # 0 => Len(f.to_remote) + x <= ReceiveBuffer
    <2>1. SUFFICES ASSUME x # 0 PROVE Len(f.to_remote) + x <= ReceiveBuffer
      OBVIOUS
    <2>2. w # 0
      BY <1>5, <1>7, <2>1
    <2>3. QED BY <1>1, <1>5, <1>7, <2>2
  <1>9. x \in 0 .. l
    BY <1>6, <1>7
  <1>10. QED BY <1>3, <1>6, <1>8, <1>9 DEF l

\* The payload's part of on_segment: the accepted bytes go behind those that
\* wait for the remote, and rcv_nxt moves by their number.
LEMMA TakePayloadOK ==
  ASSUME NEW n \in NetType, NEW seg \in Segment
  PROVE  LET m == TakePayload(n, seg)
             c == Accepted(n.f, seg)
         IN /\ m \in NetType /\ (m.k.open => n.k.open)
            /\ m.k.got = n.k.got /\ m.f.present = n.f.present
            /\ m.f.client_closed = n.f.client_closed
            /\ m.f.unacked = n.f.unacked
            /\ m.f.to_remote = n.f.to_remote \o SubSeq(seg.data, 1, c)
            /\ m.f.rcv_nxt = Plus(n.f.rcv_nxt, c)
  <1> DEFINE c == Accepted(n.f, seg)
             t == n.f.to_remote \o SubSeq(seg.data, 1, c)
             v == Plus(n.f.rcv_nxt, c)
             p == [n EXCEPT !.f.to_remote = t, !.f.rcv_nxt = v]
             q == [p EXCEPT !.f.pending_ack = TRUE]
             w == TakePayload(n, seg)
             Result(m) == /\ m \in NetType /\ (m.k.open => n.k.open)
                          /\ m.k.got = n.k.got /\ m.f.present = n.f.present
                          /\ m.f.client_closed = n.f.client_closed
                          /\ m.f.unacked = n.f.unacked
                          /\ m.f.to_remote = t /\ m.f.rcv_nxt = v
  <1>1. n.f \in FlowType /\ n.f.to_remote \in Seq(Nat) /\ n.f.rcv_nxt \in SeqNo
        /\ n.f.rcv_nxt \in Int /\ seg.data \in Bytes
    BY DEF NetType, FlowType, Bytes, Segment, SeqNo
  <1>2. c \in 0 .. Len(seg.data) /\ c \in Int
    <2>1. c \in 0 .. Len(seg.data) /\ Len(seg.data) \in Nat
      BY <1>1, AcceptedType DEF Bytes
    <2>2. QED BY <2>1
  <1>3. t \in Bytes /\ v \in SeqNo
    <2>1. SubSeq(seg.data, 1, c) \in Bytes
      BY <1>1, <1>2, DropType
    <2>2. QED BY <1>1, <1>2, <2>1, PlusType DEF Bytes
  <1>4. seg.data = <<>> => t = n.f.to_remote /\ v = n.f.rcv_nxt
    <2>1. SUFFICES ASSUME seg.data = <<>>
                   PROVE  t = n.f.to_remote /\ v = n.f.rcv_nxt
      OBVIOUS
    <2>2. c = 0
      BY <1>2, <2>1
    <2> HIDE DEF c
    <2>3. SubSeq(seg.data, 1, c) \in Seq(Nat) /\ Len(SubSeq(seg.data, 1, c)) = 0
      BY <1>1, <1>2, <2>2, DropType DEF Bytes
    <2>4. SubSeq(seg.data, 1, c) = <<>>
      BY <2>3, EmptySeq
    <2>5. t = n.f.to_remote
      BY <1>1, <2>4, ConcatEmptySeq
    <2>6. v = n.f.rcv_nxt
      <3>1. 0 \in 0 .. SeqMod /\ SeqMod \in Nat
        BY UsernetAssumption
      <3>2. Plus(n.f.rcv_nxt, 0) = IF n.f.rcv_nxt + 0 < SeqMod THEN n.f.rcv_nxt + 0
                                   ELSE n.f.rcv_nxt + 0 - SeqMod
        BY <1>1, <3>1, PlusValue
      <3>3. QED BY <1>1, <2>2, <3>1, <3>2 DEF SeqNo
    <2>7. QED BY <2>5, <2>6
  <1>5. (w = n /\ seg.data = <<>>) \/ w = q \/ w = AckNow(p)
    BY DEF TakePayload
  <1> HIDE DEF c, t, v
  <1>6. Result(p) /\ Result(q)
    BY <1>3 DEF NetType, FlowType
  <1>7. Plain(p, AckNow(p)) /\ Down(AckNow(p)) = Down(p)
    BY <1>6, AckNowOK
  <1> HIDE DEF p, q
  <1>8. Result(AckNow(p))
    BY <1>6, <1>7 DEF Plain, Up, Down
  <1>9. seg.data = <<>> => Result(n)
    BY <1>4
  <1> HIDE DEF Result
  <1>10. Result(w)
    BY <1>5, <1>6, <1>8, <1>9
  <1>11. QED BY <1>10 DEF Result, w, t, v, c
\* The payload's part of on_segment takes the client's bytes in order: what is
\* in sequence is the next byte, and a FIN already taken leaves no next byte.
LEMMA TakePayloadUp ==
  ASSUME MaxUp + 1 < SeqMod,
         NEW n \in NetType, NEW seg \in Segment, NEW c \in ClientType,
         n.f.present, UpOK(n, c), Ordered(seg, c)
  PROVE  UpOK(TakePayload(n, seg), c)
  <1> DEFINE m == TakePayload(n, seg)
             x == Accepted(n.f, seg)
             d == SubSeq(seg.data, 1, x)
             l == Len(Taken(n))
  <1>1. /\ m \in NetType /\ m.k.got = n.k.got /\ m.f.present = n.f.present
        /\ m.f.client_closed = n.f.client_closed
        /\ m.f.to_remote = n.f.to_remote \o d
        /\ m.f.rcv_nxt = Plus(n.f.rcv_nxt, x)
    BY TakePayloadOK
  <1>2. /\ x \in 0 .. Len(seg.data)
        /\ x # 0 => /\ seg.seq = n.f.rcv_nxt
                    /\ Len(n.f.to_remote) + x <= ReceiveBuffer
    BY AcceptedType DEF NetType
  <1>3. seg.data \in Bytes /\ Len(seg.data) \in Nat /\ n.f.rcv_nxt \in SeqNo
    BY DEF Segment, Bytes, NetType, FlowType
  <1>4. d \in Seq(Nat) /\ Len(d) = x
    BY <1>2, <1>3, DropType DEF Bytes
  <1>5. /\ n.k.got \in Seq(Nat) /\ n.f.to_remote \in Seq(Nat) /\ l \in Nat
        /\ Taken(n) \in Seq(Nat)
    BY TakenType
  <1>6. /\ Taken(n) = Numbered(0, l)
        /\ n.f.rcv_nxt = Position(l + IF n.f.client_closed THEN 1 ELSE 0)
        /\ Len(n.f.to_remote) <= ReceiveBuffer /\ l <= c.nxt
        /\ n.f.client_closed => l = c.nxt /\ c.fin_out
    BY DEF UpOK
  <1>7. c.nxt \in Nat /\ c.nxt <= MaxUp /\ MaxUp \in Nat /\ SeqMod \in Nat
        /\ SeqMod # 0 /\ n.f.client_closed \in BOOLEAN
    BY UsernetAssumption DEF ClientType, NetType, FlowType
  <1> HIDE DEF m, x, d, l
  <1>8. Taken(m) = Taken(n) \o d
    <2>1. Taken(m) = n.k.got \o (n.f.to_remote \o d)
      BY <1>1 DEF Taken
    <2>2. (n.k.got \o n.f.to_remote) \o d = n.k.got \o (n.f.to_remote \o d)
      BY <1>4, <1>5, Regroup, Zenon
    <2>3. QED BY <2>1, <2>2 DEF Taken
  <1>9. CASE x = 0
    <2>1. d = <<>>
      BY <1>4, <1>9, EmptySeq
    <2>2. m.f.to_remote = n.f.to_remote /\ Taken(m) = Taken(n)
      BY <1>1, <1>5, <1>8, <2>1, ConcatEmptySeq
    <2>3. m.f.rcv_nxt = n.f.rcv_nxt
      <3>1. 0 \in 0 .. SeqMod
        BY <1>7
      <3>2. Plus(n.f.rcv_nxt, 0) = IF n.f.rcv_nxt + 0 < SeqMod THEN n.f.rcv_nxt + 0
                                   ELSE n.f.rcv_nxt + 0 - SeqMod
        BY <1>3, <3>1, PlusValue
      <3>3. QED BY <1>1, <1>3, <1>7, <1>9, <3>2 DEF SeqNo
    <2>4. UpOK(m, c)
      BY <1>1, <2>2, <2>3 DEF UpOK
    <2>5. QED BY <2>4 DEF m
  <1>10. CASE x # 0
    <2>1. seg.data # <<>>
      BY <1>2, <1>3, <1>10
    <2>2. PICK a \in 0 .. c.nxt :
            /\ seg.seq = Position(a)
            /\ seg.data = Numbered(a, a + Len(seg.data))
            /\ a + Len(seg.data) <= c.nxt
      BY <2>1 DEF Ordered
    <2>3. a \in Nat /\ a < c.nxt
      BY <1>2, <1>3, <1>7, <1>10, <2>2
    <2>4. Position(a) = Position(l + IF n.f.client_closed THEN 1 ELSE 0)
      BY <1>2, <1>6, <1>10, <2>2
    <2>5. a = l /\ ~ n.f.client_closed
      <3>1. CASE n.f.client_closed
        <4>1. a \in 0 .. (SeqMod - 1) /\ l + 1 \in 0 .. (SeqMod - 1)
          BY <1>5, <1>6, <1>7, <2>3
        <4>2. a = l + 1
          BY <2>4, <3>1, <4>1, PositionInjective
        <4>3. QED BY <1>5, <1>6, <1>7, <2>3, <3>1, <4>2
      <3>2. CASE ~ n.f.client_closed
        <4>1. a \in 0 .. (SeqMod - 1) /\ l \in 0 .. (SeqMod - 1) /\ l + 0 = l
          BY <1>5, <1>6, <1>7, <2>3
        <4>2. Position(a) = Position(l)
          BY <2>4, <3>2, <4>1
        <4>3. QED BY <3>2, <4>1, <4>2, PositionInjective
      <3>3. QED BY <3>1, <3>2
    <2>6. Taken(m) = Numbered(0, l + x) /\ Len(Taken(m)) = l + x
      <3> DEFINE s == Len(seg.data)
      <3>1. seg.data = Numbered(l, l + s) /\ s \in Nat /\ x \in 0 .. s
        BY <1>2, <1>3, <2>2, <2>5
      <3> HIDE DEF s
      <3>2. Numbered(0, l) \o SubSeq(Numbered(l, l + s), 1, x) = Numbered(0, l + x)
        BY <1>5, <3>1, NumberedExtend
      <3>3. Taken(m) = Numbered(0, l + x)
        BY <1>6, <1>8, <3>1, <3>2 DEF d
      <3>4. Len(Taken(m)) = l + x
        BY <1>4, <1>5, <1>8, ConcatProperties DEF l
      <3>5. QED BY <3>3, <3>4
    <2>7. m.f.rcv_nxt = Position(l + x)
      <3>1. l \in Nat /\ x \in Nat /\ l + x <= SeqMod - 1 /\ l + 0 = l
        BY <1>2, <1>3, <1>5, <1>7, <2>2, <2>5
      <3>2. Plus(Position(l), x) = Position(l + x)
        BY <3>1, PositionStep
      <3>3. QED BY <1>1, <1>6, <2>5, <3>1, <3>2
    <2>8. Len(m.f.to_remote) <= ReceiveBuffer
      <3>1. Len(m.f.to_remote) = Len(n.f.to_remote) + x
        BY <1>1, <1>4, <1>5, ConcatProperties
      <3>2. QED BY <1>2, <1>10, <3>1
    <2>9. l + x <= c.nxt /\ l + x \in Nat /\ (l + x) + 0 = l + x
      BY <1>2, <1>3, <1>5, <1>7, <2>2, <2>5
    <2>10. ~ m.f.client_closed
      BY <1>1, <2>5
    <2>11. UpOK(m, c)
      BY <2>6, <2>7, <2>8, <2>9, <2>10 DEF UpOK
    <2>12. QED BY <2>11 DEF m
  <1>11. QED BY <1>9, <1>10

\* The FIN's part of on_segment: the types and what it leaves alone.
LEMMA TakeFinOK ==
  ASSUME NEW n \in NetType, NEW x, NEW seg \in Segment
  PROVE  LET m == TakeFin(n, x, seg)
         IN /\ m \in NetType /\ (m.k.open => n.k.open)
            /\ m.f.present = n.f.present /\ m.f.unacked = n.f.unacked
            /\ \/ m = n
               \/ /\ "FIN" \in seg.flags /\ FinInSequence(n.f, x, seg)
                  /\ m.k.got = n.k.got /\ m.f.to_remote = n.f.to_remote
                  /\ m.f.client_closed = TRUE
                  /\ m.f.rcv_nxt = Plus(n.f.rcv_nxt, 1)
  <1> DEFINE v == Plus(n.f.rcv_nxt, 1)
             p == [n EXCEPT !.f.client_closed = TRUE, !.f.rcv_nxt = v]
             q == AckNow(p)
             b == q.k.shut \/ (n.k.open /\ n.f.connected)
             r == [q EXCEPT !.k.shut = b]
             w == TakeFin(n, x, seg)
  <1>1. w = n \/ (w = r /\ "FIN" \in seg.flags /\ FinInSequence(n.f, x, seg))
    BY DEF TakeFin
  <1>2. n.f.rcv_nxt \in Int
    BY DEF NetType, FlowType, SeqNo
  <1>3. v \in SeqNo
    BY <1>2, PlusType
  <1> HIDE DEF v
  <1>4. /\ p \in NetType /\ p.k = n.k /\ p.f.present = n.f.present
        /\ p.f.unacked = n.f.unacked /\ p.f.to_remote = n.f.to_remote
        /\ p.f.client_closed = TRUE /\ p.f.rcv_nxt = v
    BY <1>3 DEF NetType, FlowType
  <1> HIDE DEF p
  <1>5. Plain(p, q) /\ Down(q) = Down(p)
    BY <1>4, AckNowOK
  <1> HIDE DEF q
  <1>6. b \in BOOLEAN
    OBVIOUS
  <1> HIDE DEF b
  <1>7. r \in NetType /\ r.f = q.f /\ r.k.open = q.k.open /\ r.k.got = q.k.got
    BY <1>5, <1>6 DEF Plain, NetType, SocketType
  <1> HIDE DEF r
  <1>8. /\ r \in NetType /\ (r.k.open => n.k.open)
        /\ r.f.present = n.f.present /\ r.f.unacked = n.f.unacked
        /\ r.k.got = n.k.got /\ r.f.to_remote = n.f.to_remote
        /\ r.f.client_closed = TRUE /\ r.f.rcv_nxt = v
    BY <1>4, <1>5, <1>7 DEF Plain, Up, Down
  <1> HIDE DEF w
  <1>9. QED BY <1>1, <1>8 DEF w, v

\* The FIN counts behind the client's last byte only.
LEMMA TakeFinUp ==
  ASSUME MaxUp + 1 < SeqMod,
         NEW n \in NetType, NEW x, NEW seg \in Segment, NEW c \in ClientType,
         n.f.present, UpOK(n, c), Ordered(seg, c)
  PROVE  UpOK(TakeFin(n, x, seg), c)
  <1> DEFINE m == TakeFin(n, x, seg)
             l == Len(Taken(n))
             s == Len(seg.data)
  <1>1. \/ m = n
        \/ /\ "FIN" \in seg.flags /\ FinInSequence(n.f, x, seg)
           /\ m.k.got = n.k.got /\ m.f.to_remote = n.f.to_remote
           /\ m.f.client_closed = TRUE
           /\ m.f.rcv_nxt = Plus(n.f.rcv_nxt, 1)
    BY TakeFinOK
  <1> HIDE DEF m
  <1>2. CASE m = n
    BY <1>2 DEF m
  <1>3. CASE m # n
    <2>1. /\ n.f.client_closed = FALSE /\ Plus(seg.seq, s) = n.f.rcv_nxt
      BY <1>1, <1>3 DEF FinInSequence, NetType, FlowType
    <2>2. s \in Nat /\ c.nxt \in Nat /\ c.nxt <= MaxUp /\ MaxUp \in Nat
          /\ SeqMod \in Nat \ {0} /\ l \in Nat
      BY UsernetAssumption, TakenType DEF Segment, Bytes, ClientType
    <2> HIDE DEF s, l
    <2>3. PICK a \in 0 .. c.nxt :
            /\ seg.seq = Position(a) /\ a + s <= c.nxt
            /\ c.fin_out /\ a + s = c.nxt
      BY <1>1, <1>3 DEF Ordered, s
    <2>4. Plus(Position(a), s) = Position(c.nxt)
      <3>1. a \in Nat /\ a + s <= SeqMod - 1
        BY <2>2, <2>3
      <3>2. Plus(Position(a), s) = Position(a + s)
        BY <2>2, <3>1, PositionStep
      <3>3. QED BY <2>3, <3>2
    <2>5. /\ Taken(n) = Numbered(0, l) /\ n.f.rcv_nxt = Position(l)
          /\ Len(n.f.to_remote) <= ReceiveBuffer /\ l <= c.nxt
      <3>1. l + 0 = l
        BY <2>2
      <3>2. QED BY <2>1, <3>1 DEF UpOK, l
    <2>6. l = c.nxt
      <3>1. l \in 0 .. (SeqMod - 1) /\ c.nxt \in 0 .. (SeqMod - 1)
        BY <2>2, <2>5
      <3>2. Position(l) = Position(c.nxt)
        BY <2>1, <2>3, <2>4, <2>5
      <3>3. QED BY <3>1, <3>2, PositionInjective
    <2>7. Plus(Position(l), 1) = Position(l + 1)
      <3>1. 1 \in Nat /\ l + 1 <= SeqMod - 1
        BY <2>2, <2>5
      <3>2. QED BY <2>2, <3>1, PositionStep
    <2>8. Taken(m) = Taken(n) /\ Len(Taken(m)) = l
      BY <1>1, <1>3 DEF Taken, l
    <2>9. UpOK(m, c)
      BY <1>1, <1>3, <2>2, <2>3, <2>5, <2>6, <2>7, <2>8 DEF UpOK
    <2>10. QED BY <2>9 DEF m
  <1>4. QED BY <1>2, <1>3
\* What the segment's arrival may do to a flow, the client's bytes aside.
Took(n, m) ==
  /\ m \in NetType /\ (m.k.open => n.k.open)
  /\ m.f.present = n.f.present /\ Len(m.f.unacked) <= Len(n.f.unacked)

\* on_segment: a reset, a repeated SYN, or window, acknowledgement, payload and
\* FIN in this order.
LEMMA OnSegmentOK ==
  ASSUME NEW n \in NetType, NEW seg \in Segment
  PROVE  LET m == OnSegment(n, seg)
         IN /\ Took(n, m)
            /\ \A c \in ClientType :
                 MaxUp + 1 < SeqMod /\ n.f.present /\ UpOK(n, c) /\ Ordered(seg, c)
                   => UpOK(m, c)
  <1> DEFINE w == OnSegment(n, seg)
             a == CloseSocket([n EXCEPT !.f.state = "closed"])
             wnd == seg.wnd
             f == [n.f EXCEPT !.snd_wnd = wnd]
             g == IF "ACK" \in seg.flags THEN ProcessAck(f, seg.num) ELSE f
             p == [n EXCEPT !.f = g]
             x == Accepted(p.f, seg)
             q == TakePayload(p, seg)
             r == TakeFin(q, x, seg)
             e == MaybeFinish(r)
  <1>1. w = a \/ w = n \/ w = e
    <2>1. CASE "RST" \in seg.flags
      BY <2>1 DEF OnSegment
    <2>2. CASE "RST" \notin seg.flags /\ "SYN" \in seg.flags
                 /\ n.f.state = "connecting"
      BY <2>2 DEF OnSegment
    <2>3. CASE "RST" \notin seg.flags
                 /\ ~ ("SYN" \in seg.flags /\ n.f.state = "connecting")
      BY <2>3 DEF OnSegment, Then
    <2>4. QED BY <2>1, <2>2, <2>3
  <1>2. n.f \in FlowType /\ wnd \in Nat /\ seg.num \in SeqNo
        /\ Len(n.f.unacked) \in Nat
    BY DEF NetType, Segment, FlowType, Bytes
  <1> HIDE DEF wnd
  <1>3. /\ f \in FlowType /\ f.unacked = n.f.unacked /\ f.present = n.f.present
        /\ f.to_remote = n.f.to_remote /\ f.rcv_nxt = n.f.rcv_nxt
        /\ f.client_closed = n.f.client_closed
    BY <1>2 DEF FlowType
  <1> HIDE DEF f
  <1>4. /\ g \in FlowType /\ Len(g.unacked) <= Len(n.f.unacked)
        /\ g.present = n.f.present /\ g.to_remote = n.f.to_remote
        /\ g.rcv_nxt = n.f.rcv_nxt /\ g.client_closed = n.f.client_closed
    BY <1>2, <1>3, ProcessAckOK
  <1> HIDE DEF g
  <1>5. p \in NetType /\ p.f = g /\ p.k = n.k
    BY <1>4 DEF NetType
  <1> HIDE DEF p
  <1>6. Plain(n, p) /\ Len(p.f.unacked) <= Len(n.f.unacked)
    BY <1>4, <1>5 DEF Plain, Up
  <1>7. /\ q \in NetType /\ (q.k.open => p.k.open)
        /\ q.f.present = p.f.present /\ q.f.unacked = p.f.unacked
    BY <1>5, TakePayloadOK
  <1>8. ASSUME NEW c \in ClientType, MaxUp + 1 < SeqMod, n.f.present,
               UpOK(n, c), Ordered(seg, c)
        PROVE  UpOK(q, c)
    <2>1. UpOK(p, c) /\ p.f.present
      BY <1>6, <1>8, PlainKept, KeptUp DEF Plain, Up
    <2>2. QED BY <1>5, <1>8, <2>1, TakePayloadUp
  <1> HIDE DEF q, x
  <1>9. /\ r \in NetType /\ (r.k.open => q.k.open)
        /\ r.f.present = q.f.present /\ r.f.unacked = q.f.unacked
    BY <1>7, TakeFinOK
  <1>10. ASSUME NEW c \in ClientType, MaxUp + 1 < SeqMod, n.f.present,
                UpOK(n, c), Ordered(seg, c)
         PROVE  UpOK(r, c)
    <2>1. UpOK(q, c)
      BY <1>8, <1>10
    <2>2. q.f.present
      BY <1>6, <1>7, <1>10 DEF Plain, Up
    <2>3. QED BY <1>7, <1>10, <2>1, <2>2, TakeFinUp
  <1> HIDE DEF r
  <1>11. Plain(r, e) /\ e.f.unacked = r.f.unacked
    BY <1>9, MaybeFinishOK
  <1>12. ASSUME NEW c \in ClientType, MaxUp + 1 < SeqMod, n.f.present,
                UpOK(n, c), Ordered(seg, c)
         PROVE  UpOK(e, c)
    BY <1>9, <1>10, <1>11, <1>12, PlainKept, KeptUp
  <1> HIDE DEF e
  <1>13. Took(n, e)
    BY <1>6, <1>7, <1>9, <1>11 DEF Took, Plain, Up
  <1>14. Plain(n, a) /\ Down(a) = Down(n)
    BY ClosedOK
  <1> HIDE DEF a
  <1>15. Took(n, a) /\ Took(n, n)
    BY <1>2, <1>14 DEF Took, Plain, Up, Down
  <1>16. ASSUME NEW c \in ClientType, UpOK(n, c)
         PROVE  UpOK(a, c)
    BY <1>14, <1>16, PlainKept, KeptUp
  <1> HIDE DEF w
  <1>17. Took(n, w)
    BY <1>1, <1>13, <1>15
  <1>18. ASSUME NEW c \in ClientType, MaxUp + 1 < SeqMod, n.f.present,
                UpOK(n, c), Ordered(seg, c)
         PROVE  UpOK(w, c)
    BY <1>1, <1>12, <1>16, <1>18
  <1>19. QED BY <1>17, <1>18 DEF w

\* The flow a SYN opens: nothing accepted, the byte behind the SYN expected.
LEMMA NewFlowType ==
  ASSUME NEW wnd \in Nat
  PROVE  /\ NewFlow(wnd) \in FlowType /\ NewFlow(wnd).present = TRUE
         /\ NewFlow(wnd).to_remote = <<>> /\ NewFlow(wnd).unacked = <<>>
         /\ NewFlow(wnd).rcv_nxt = Position(0)
         /\ NewFlow(wnd).client_closed = FALSE
         /\ NewFlow(wnd).state = "connecting"
  <1>1. Plus(Irs, 1) \in SeqNo /\ Iss \in SeqNo /\ ReceiveBuffer \in Nat
    <2>1. Irs \in Int /\ 1 \in Int
      BY UsernetAssumption
    <2>2. QED BY <2>1, PlusType, UsernetAssumption DEF SeqNo
  <1>2. <<>> \in Bytes
    BY DEF Bytes
  <1>3. Position(0) = Plus(Irs, 1)
    BY DEF Position
  <1>4. QED BY <1>1, <1>2, <1>3 DEF NewFlow, FlowType

\* The table without a flow.
LEMMA NoFlowType ==
  NoFlow \in FlowType /\ NoFlow.present = FALSE /\ NoFlow.unacked = <<>>
  <1> DEFINE f == NewFlow(0)
  <1>1. f \in FlowType /\ f.unacked = <<>>
    BY NewFlowType
  <1>2. NoFlow = [f EXCEPT !.present = FALSE]
    BY DEF NoFlow
  <1> HIDE DEF f
  <1>3. QED BY <1>1, <1>2 DEF FlowType

\* A socket without a flow is one whose connect() failed, and is not watched.
Owned(n) ==
  n.k.open /\ ~ n.f.present => n.k.status = "refused" /\ ~ n.k.registered

\* What every operation of the network leaves: its types, no adopted socket
\* without a flow, and new data within the client's window.
Sound(n, m) == m \in NetType /\ Owned(m) /\ Within(n, m)

\* A step that adds nothing to what is unacknowledged.
LEMMA NothingNew ==
  ASSUME NEW n \in NetType, NEW m \in NetType, Len(m.f.unacked) <= Len(n.f.unacked)
  PROVE  Within(n, m)
  <1>1. Len(m.f.unacked) \in Nat /\ Len(n.f.unacked) \in Nat
    BY DEF NetType, FlowType, Bytes
  <1>2. QED BY <1>1 DEF Within

\* A SYN opens a flow with nothing accepted yet, or is refused and leaves none.
LEMMA OpenFlowOK ==
  ASSUME NEW n \in NetType, NEW seg \in Segment,
         NEW status \in {"ok", "pending", "refused"}
  PROVE  LET m == OpenFlow(n, seg, status)
         IN Sound(n, m) /\ \A c \in ClientType : UpOK(m, c)
  <1> DEFINE wnd == seg.wnd
             g == NewFlow(wnd)
             s == NewSocket(status)
             p == [n EXCEPT !.f = g, !.k = s]
             b == (status = "ok")
             o == [p EXCEPT !.f.connected = b]
             e == Emit(p, {"RST", "ACK"})
             z == NoFlow
             r == [e EXCEPT !.f = z]
             v == Service(o, 0, {})
             w == OpenFlow(n, seg, status)
  <1>1. (status = "refused" /\ w = r) \/ w = v
    BY DEF OpenFlow
  <1>2. wnd \in Nat /\ Len(n.f.unacked) \in Nat
    BY DEF Segment, NetType, FlowType, Bytes
  <1>3. /\ g \in FlowType /\ g.present = TRUE
        /\ g.to_remote = <<>> /\ g.unacked = <<>>
        /\ g.rcv_nxt = Position(0) /\ g.client_closed = FALSE
        /\ g.state = "connecting"
    BY <1>2, NewFlowType
  <1>4. /\ s \in SocketType /\ s.got = <<>> /\ s.status = status
        /\ status = "refused" => ~ s.registered
    <2> DEFINE reg == (status # "refused")
    <2>1. reg \in BOOLEAN
      OBVIOUS
    <2>2. s = [open |-> TRUE, registered |-> reg, status |-> status, rbuf |-> <<>>,
               wrote |-> 0, eof |-> FALSE, reset |-> FALSE, shut |-> FALSE,
               got |-> <<>>]
      BY DEF NewSocket
    <2>3. s.registered = reg
      BY <2>2
    <2>4. status = "refused" => ~ s.registered
      BY <2>3
    <2> HIDE DEF reg
    <2>5. s \in SocketType /\ s.got = <<>> /\ s.status = status
      BY <2>1, <2>2 DEF SocketType, Bytes
    <2>6. QED BY <2>4, <2>5
  <1> HIDE DEF g, s
  <1>5. p \in NetType /\ p.f = g /\ p.k = s
    BY <1>3, <1>4 DEF NetType
  <1> HIDE DEF p, b
  <1>6. /\ o \in NetType /\ o.f.present = TRUE
        /\ o.f.to_remote = <<>> /\ o.f.unacked = <<>>
        /\ o.f.rcv_nxt = Position(0) /\ o.f.client_closed = FALSE
        /\ o.f.state = "connecting" /\ o.k = s
    <2>1. b \in BOOLEAN
      BY DEF b
    <2>2. QED BY <1>3, <1>5, <2>1 DEF NetType, FlowType
  <1>7. ASSUME NEW c \in ClientType
        PROVE  UpOK(o, c)
    <2>1. Taken(o) = <<>>
      BY <1>4, <1>6 DEF Taken
    <2>2. Numbered(0, 0) = <<>>
      BY DEF Numbered
    <2>3. Len(o.f.to_remote) <= ReceiveBuffer /\ c.nxt \in Nat
      <3>1. Len(o.f.to_remote) = 0 /\ ReceiveBuffer \in Nat
        BY <1>6, UsernetAssumption
      <3>2. c.nxt \in 0 .. MaxUp
        BY DEF ClientType
      <3>3. QED BY <3>1, <3>2
    <2>4. QED BY <1>6, <2>1, <2>2, <2>3 DEF UpOK
  <1> HIDE DEF o
  <1>8. v = CheckConnect(o)
    BY <1>6 DEF Service
  <1>9. Plain(o, v) /\ v.f.unacked = <<>>
    BY <1>6, <1>8, CheckConnectOK
  <1> HIDE DEF v
  <1>10. Sound(n, v) /\ \A c \in ClientType : UpOK(v, c)
    <2>1. v \in NetType /\ v.f.present = TRUE /\ Len(v.f.unacked) <= Len(n.f.unacked)
      BY <1>2, <1>6, <1>9 DEF Plain, Up
    <2>2. Sound(n, v)
      BY <2>1, NothingNew DEF Sound, Owned
    <2>3. QED BY <1>6, <1>7, <1>9, <2>2, PlainKept, KeptUp
  <1>11. Plain(p, e)
    BY <1>5, EmitOK
  <1>12. e.k = s
    BY <1>5 DEF Emit, EmitAt, NetType
  <1> HIDE DEF e
  <1>13. z \in FlowType /\ z.present = FALSE /\ z.unacked = <<>>
    BY NoFlowType
  <1> HIDE DEF z
  <1>14. r \in NetType /\ r.f = z /\ r.k = s
    BY <1>11, <1>12, <1>13 DEF Plain, NetType
  <1> HIDE DEF r
  <1>15. ASSUME status = "refused"
         PROVE  Sound(n, r) /\ \A c \in ClientType : UpOK(r, c)
    <2>1. Len(r.f.unacked) <= Len(n.f.unacked)
      BY <1>2, <1>13, <1>14
    <2>2. Owned(r)
      BY <1>4, <1>14, <1>15 DEF Owned
    <2>3. QED BY <1>13, <1>14, <2>1, <2>2, NothingNew DEF Sound, UpOK
  <1> HIDE DEF w
  <1>16. QED BY <1>1, <1>10, <1>15 DEF w
\* _reset: only an answer is emitted.
LEMMA ResetUnknownOK ==
  ASSUME NEW n \in NetType, NEW seg \in Segment
  PROVE  LET m == ResetUnknown(n, seg)
         IN m \in NetType /\ m.f = n.f /\ m.k = n.k
  <1> DEFINE h == IF seg.flags \cap {"SYN", "FIN"} # {} THEN 1 ELSE 0
             d == Len(seg.data) + h
             num == Plus(seg.seq, d)
             seq == IF "ACK" \in seg.flags THEN seg.num ELSE 0
             s == [flags |-> {"RST", "ACK"}, seq |-> seq, num |-> num,
                   wnd |-> 0, data |-> <<>>]
             o == Append(n.out, s)
             m == [n EXCEPT !.out = o]
             w == ResetUnknown(n, seg)
  <1>1. w = n \/ w = m
    BY DEF ResetUnknown
  <1>2. seg.seq \in Int /\ d \in Int
    <2>1. h \in Int /\ Len(seg.data) \in Int
      BY DEF Segment, Bytes
    <2>2. QED BY <2>1 DEF Segment, SeqNo
  <1> HIDE DEF d
  <1>3. num \in SeqNo
    BY <1>2, PlusType
  <1>4. seq \in SeqNo
    BY UsernetAssumption DEF Segment, SeqNo
  <1> HIDE DEF num, seq
  <1>5. s \in Segment
    BY <1>3, <1>4 DEF Segment, Bytes
  <1> HIDE DEF s
  <1>6. o \in Seq(Segment)
    BY <1>5 DEF NetType
  <1> HIDE DEF o
  <1>7. m \in NetType /\ m.f = n.f /\ m.k = n.k
    BY <1>6 DEF NetType
  <1> HIDE DEF m, w
  <1>8. QED BY <1>1, <1>7 DEF w

\* _deliver_tcp
LEMMA DeliverTcpOK ==
  ASSUME NEW n \in NetType, NEW seg \in Segment, Owned(n),
         NEW m \in DeliverTcp(n, seg)
  PROVE  /\ Sound(n, m)
         /\ \A c \in ClientType :
              MaxUp + 1 < SeqMod /\ UpOK(n, c) /\ Ordered(seg, c) => UpOK(m, c)
  <1>0. Len(n.f.unacked) \in Nat
    BY DEF NetType, FlowType, Bytes
  <1>1. CASE n.f.present
    <2>1. m = OnSegment(n, seg)
      BY <1>1 DEF DeliverTcp
    <2>2. /\ Took(n, m)
          /\ \A c \in ClientType :
               MaxUp + 1 < SeqMod /\ n.f.present /\ UpOK(n, c) /\ Ordered(seg, c)
                 => UpOK(m, c)
      BY <2>1, OnSegmentOK
    <2>3. Sound(n, m)
      BY <1>1, <2>2, NothingNew DEF Took, Sound, Owned
    <2>4. QED BY <1>1, <2>2, <2>3
  <1>2. CASE ~ n.f.present /\ "SYN" \notin seg.flags
    <2>1. m = ResetUnknown(n, seg)
      BY <1>2 DEF DeliverTcp
    <2>2. m \in NetType /\ m.f = n.f /\ m.k = n.k
      BY <2>1, ResetUnknownOK
    <2>3. Sound(n, m)
      BY <1>0, <2>2, NothingNew DEF Sound, Owned
    <2>4. QED BY <1>2, <2>2, <2>3 DEF UpOK
  <1>3. CASE ~ n.f.present /\ "SYN" \in seg.flags
    <2>1. PICK status \in {"ok", "pending", "refused"} : m = OpenFlow(n, seg, status)
      BY <1>3 DEF DeliverTcp
    <2>2. QED BY <2>1, OpenFlowOK
  <1>4. QED BY <1>1, <1>2, <1>3

\* A failed connect is answered with a reset.
LEMMA FailedOK ==
  ASSUME NEW n \in NetType
  PROVE  LET m == Failed(n)
         IN Plain(n, m) /\ Down(m) = Down(n)
  <1> DEFINE r == Emit(n, {"RST", "ACK"})
             s == CloseSocket([r EXCEPT !.f.state = "closed"])
  <1>1. Plain(n, r) /\ Down(r) = Down(n)
    BY EmitOK
  <1>2. Failed(n) = n \/ Failed(n) = s
    BY DEF Failed
  <1> HIDE DEF r
  <1>3. Plain(r, s) /\ Down(s) = Down(r)
    BY <1>1, ClosedOK DEF Plain
  <1> HIDE DEF s
  <1>4. Plain(n, s) /\ Plain(n, n)
    BY <1>1, <1>3, PlainTrans DEF Plain
  <1>5. QED BY <1>1, <1>2, <1>3, <1>4

\* A flow forgotten with its socket closed, as _reap and drop_client do.
LEMMA ForgottenOK ==
  ASSUME NEW n \in NetType
  PROVE  LET m == [CloseSocket(n) EXCEPT !.f = NoFlow]
         IN /\ m \in NetType /\ ~ m.k.open /\ ~ m.f.present /\ m.out = n.out
            /\ Len(m.f.unacked) = 0
  <1> DEFINE d == CloseSocket(n)
             z == NoFlow
             m == [d EXCEPT !.f = z]
  <1>1. d \in NetType /\ d.k.open = FALSE /\ d.out = n.out
    BY DEF CloseSocket, NetType, SocketType
  <1>2. z \in FlowType /\ z.present = FALSE /\ z.unacked = <<>>
    BY NoFlowType
  <1> HIDE DEF d, z
  <1>3. m \in NetType /\ m.k.open = FALSE /\ m.f = z /\ m.out = n.out
    BY <1>1, <1>2 DEF NetType
  <1> HIDE DEF m
  <1>4. QED BY <1>2, <1>3 DEF m, d, z

\* poll: read, serve, answer a failed connect, reap.
LEMMA PollOK ==
  ASSUME NEW n \in NetType, n.f.present, NEW w \in 0 .. Len(n.f.to_remote),
         NEW due, NEW expired
  PROVE  LET m == PollNetwork(n, w, due, expired)
         IN Sound(n, m) /\ \A c : UpOK(n, c) => UpOK(m, c)
  <1> DEFINE a == IF Readable(n) THEN OnReadable(n) ELSE n
             b == Service(a, w, due)
             d == Failed(b)
             e == Reap(d, expired)
             z == [CloseSocket(d) EXCEPT !.f = NoFlow]
  <1>1. PollNetwork(n, w, due, expired) = e
    BY DEF PollNetwork, Then
  <1>2. Plain(n, a) /\ Down(a) = Down(n)
    BY OnReadableOK DEF Plain
  <1> HIDE DEF a
  <1>3. a \in NetType /\ w \in 0 .. Len(a.f.to_remote)
    BY <1>2 DEF Plain, Up
  <1>4. Kept(a, b) /\ Within(a, b)
    BY <1>3, ServiceOK
  <1> HIDE DEF b
  <1>5. Plain(b, d) /\ Down(d) = Down(b)
    BY <1>4, FailedOK DEF Kept
  <1>6. e = z \/ e = d
    BY DEF Reap
  <1> HIDE DEF d
  <1>7. /\ z \in NetType /\ ~ z.k.open /\ ~ z.f.present /\ Len(z.f.unacked) = 0
    BY <1>5, ForgottenOK DEF Plain
  <1> HIDE DEF z, e
  <1>8. Kept(n, d)
    <2>1. Kept(n, a) /\ Kept(b, d)
      BY <1>2, <1>4, <1>5, PlainKept DEF Kept
    <2>2. Kept(n, b)
      BY <1>4, <2>1, KeptTrans
    <2>3. QED BY <2>1, <2>2, KeptTrans
  <1>9. Within(n, d)
    BY <1>2, <1>4, <1>5 DEF Within, Down, InFlight
  <1>10. Sound(n, d)
    BY <1>8, <1>9 DEF Sound, Kept, Owned, Up
  <1>11. Sound(n, z)
    <2>1. Len(n.f.unacked) \in Nat
      BY DEF NetType, FlowType, Bytes
    <2>2. Len(z.f.unacked) <= Len(n.f.unacked)
      BY <1>7, <2>1
    <2>3. QED BY <1>7, <2>2, NothingNew DEF Sound, Owned
  <1>12. ASSUME NEW c, UpOK(n, c)
         PROVE  UpOK(d, c) /\ UpOK(z, c)
    <2>1. UpOK(d, c)
      BY <1>8, <1>12, KeptUp
    <2>2. QED BY <1>7, <2>1 DEF UpOK
  <1>13. Sound(n, e) /\ \A c : UpOK(n, c) => UpOK(e, c)
    BY <1>6, <1>10, <1>11, <1>12
  <1>14. QED BY <1>1, <1>13
-----------------------------------------------------------------------------
(* The client's part, and the types of the whole system.                    *)

\* The inductive invariant of the types: TypeOK, the client's state, and no
\* adopted socket without a flow.
TypeInv == TypeOK /\ client \in ClientType /\ SocketOwned

\* Whatever the client sends is a segment.
LEMMA ClientSegmentType ==
  ASSUME NEW c \in ClientType, NEW flags \in SUBSET {"SYN", "ACK", "FIN", "RST"},
         NEW data \in Bytes
  PROVE  ClientSegment(c, flags, data) \in Segment
  <1> DEFINE k == 1 + c.nxt + IF c.fin_out THEN 1 ELSE 0
             v == Plus(Irs, k)
  <1>1. k \in Int /\ Irs \in Int
    <2>1. c.nxt \in Int
      BY UsernetAssumption DEF ClientType
    <2>2. QED BY <2>1, UsernetAssumption
  <1> HIDE DEF k
  <1>2. v \in SeqNo
    BY <1>1, PlusType
  <1>3. ClientSegment(c, flags, data)
          = [flags |-> flags, data |-> data, wnd |-> c.room, num |-> c.rcv, seq |-> v]
    BY DEF ClientSegment, k
  <1> HIDE DEF v
  <1>4. QED BY <1>2, <1>3 DEF Segment, ClientType

\* What the client makes of a segment leaves its state typed, and what it has
\* sent alone.
LEMMA ClientTakeType ==
  ASSUME NEW c \in ClientType, NEW seg \in Segment
  PROVE  LET d == ClientTake(c, seg)
         IN d \in ClientType /\ d.nxt = c.nxt /\ d.fin_out = c.fin_out
  <1> DEFINE old == Distance(c.rcv, seg.seq)
             usable == old <= Len(seg.data)
             fresh == IF usable THEN Drop(seg.data, old) ELSE <<>>
             fin == usable /\ "FIN" \in seg.flags
             num == Distance(seg.num, Plus(Irs, 1))
             got == c.got \o fresh
             wnd == seg.wnd
             k == Len(fresh) + IF fin THEN 1 ELSE 0
             rcv == Plus(c.rcv, k)
             una == IF num <= c.nxt + 1 /\ num > c.una THEN num ELSE c.una
             d == [c EXCEPT !.got = got, !.wnd = wnd, !.rcv = rcv, !.una = una]
  <1>1. ClientTake(c, seg) = d
    BY DEF ClientTake
  <1>2. /\ c.rcv \in Int /\ seg.seq \in Int /\ seg.num \in Int
        /\ seg.data \in Bytes /\ Len(seg.data) \in Nat /\ wnd \in Nat
        /\ c.got \in Bytes /\ c.una \in Nat
    BY DEF ClientType, Segment, SeqNo, Bytes
  <1>3. old \in Nat /\ num \in Nat
    <2>1. Irs \in Int /\ 1 \in Int
      BY UsernetAssumption
    <2>2. Plus(Irs, 1) \in Int
      BY <2>1, PlusType DEF SeqNo
    <2>3. QED BY <1>2, <2>2, DistanceType
  <1> HIDE DEF old, num
  <1>4. fresh \in Bytes
    <2>1. CASE usable
      <3>1. old \in 0 .. Len(seg.data)
        BY <1>2, <1>3, <2>1
      <3>2. QED BY <1>2, <2>1, <3>1, DropType
    <2>2. CASE ~ usable
      BY <2>2 DEF Bytes
    <2>3. QED BY <2>1, <2>2
  <1> HIDE DEF fresh, fin, usable
  <1>5. k \in Int /\ got \in Bytes
    <2>1. Len(fresh) \in Int
      BY <1>4 DEF Bytes
    <2>2. QED BY <1>2, <1>4, <2>1 DEF Bytes
  <1> HIDE DEF k, got
  <1>6. rcv \in SeqNo /\ una \in Nat
    BY <1>2, <1>3, <1>5, PlusType
  <1> HIDE DEF rcv, una, wnd
  <1>7. d \in ClientType /\ d.nxt = c.nxt /\ d.fin_out = c.fin_out
    BY <1>2, <1>5, <1>6 DEF ClientType
  <1> HIDE DEF d
  <1>8. QED BY <1>1, <1>7

\* The first segment the client accepts.
LEMMA ClientOpensType ==
  ASSUME NEW c \in ClientType, NEW seg \in Segment
  PROVE  LET d == [c EXCEPT !.state = "established", !.wnd = seg.wnd,
                            !.rcv = Plus(seg.seq, 1)]
         IN d \in ClientType /\ d.nxt = c.nxt /\ d.fin_out = c.fin_out
  <1> DEFINE v == Plus(seg.seq, 1)
             w == seg.wnd
             d == [c EXCEPT !.state = "established", !.wnd = w, !.rcv = v]
  <1>1. seg.seq \in Int /\ 1 \in Int /\ w \in Nat
    BY DEF Segment, SeqNo
  <1>2. v \in SeqNo
    BY <1>1, PlusType
  <1> HIDE DEF v, w
  <1>3. d \in ClientType /\ d.nxt = c.nxt /\ d.fin_out = c.fin_out
    BY <1>1, <1>2 DEF ClientType
  <1>4. QED BY <1>3 DEF v, w

\* What has gone wrong is counted.
LEMMA FaultType ==
  ASSUME NEW kind \in {"drops", "others"}, faults \in [drops : Nat, others : Nat],
         Fault(kind)
  PROVE  faults' \in [drops : Nat, others : Nat]
  BY DEF Fault

\* A step of the client that leaves the network alone but for reading it.
LEMMA ClientOnly ==
  ASSUME TypeInv, net'.f = net.f, net'.k = net.k, net' \in NetType,
         client' \in ClientType, up' \in Seq(Segment),
         faults' \in [drops : Nat, others : Nat]
  PROVE  TypeInv' /\ Within(net, net')
  <1>1. Len(net.f.unacked) \in Nat
    BY DEF TypeInv, TypeOK, FlowType, Bytes
  <1>2. TypeInv'
    BY DEF TypeInv, TypeOK, SocketOwned, NetType
  <1>3. QED BY <1>1, <1>2 DEF Within

\* A step of the network.
LEMMA NetworkOnly ==
  ASSUME TypeInv, Sound(net, net'), client' \in ClientType, up' \in Seq(Segment),
         faults' \in [drops : Nat, others : Nat]
  PROVE  TypeInv' /\ Within(net, net')
  BY DEF TypeInv, TypeOK, SocketOwned, Owned, NetType, Sound
\* The facts of TypeInv the actions need.
LEMMA TypeFacts ==
  ASSUME TypeInv
  PROVE  /\ net \in NetType /\ net.f \in FlowType /\ net.k \in SocketType
         /\ net.out \in Seq(Segment) /\ client \in ClientType
         /\ up \in Seq(Segment) /\ faults \in [drops : Nat, others : Nat]
         /\ Owned(net) /\ Len(net.f.to_remote) \in Nat
  <1>1. net \in NetType /\ Owned(net)
    BY DEF TypeInv, TypeOK, SocketOwned, Owned, NetType
  <1>2. net.f \in FlowType /\ net.k \in SocketType /\ net.out \in Seq(Segment)
    BY <1>1 DEF NetType
  <1>3. Len(net.f.to_remote) \in Nat
    BY <1>2 DEF FlowType, Bytes
  <1>4. QED BY <1>1, <1>2, <1>3 DEF TypeInv, TypeOK

\* Deliver, Poll, PollExpired and DropClient.
LEMMA NetworkStep ==
  ASSUME TypeInv,
         \/ Deliver \/ PollExpired \/ DropClient
         \/ \E w \in 0 .. ReceiveBuffer, due \in SUBSET Deadlines : Poll(w, due)
  PROVE  TypeInv' /\ Within(net, net')
  <1> USE TypeFacts
  <1>1. CASE Deliver
    <2>1. up # <<>> /\ net' \in DeliverTcp(net, Head(up)) /\ up' = Tail(up)
          /\ client' = client /\ faults' = faults
      BY <1>1 DEF Deliver
    <2>2. Head(up) \in Segment /\ up' \in Seq(Segment)
      BY <2>1
    <2>3. Sound(net, net')
      BY <2>1, <2>2, DeliverTcpOK
    <2>4. QED BY <2>1, <2>2, <2>3, NetworkOnly
  <1>2. CASE PollExpired
    <2>1. /\ Fault("others") /\ net.f.present
          /\ net' = PollNetwork(net, 0, Deadlines, TRUE)
          /\ client' = client /\ up' = up
      BY <1>2 DEF PollExpired
    <2>2. 0 \in 0 .. Len(net.f.to_remote)
      OBVIOUS
    <2>3. Sound(net, net')
      BY <2>1, <2>2, PollOK
    <2>4. faults' \in [drops : Nat, others : Nat]
      BY <2>1, FaultType
    <2>5. QED BY <2>1, <2>3, <2>4, NetworkOnly
  <1>3. CASE DropClient
    <2> DEFINE r == [CloseSocket(net) EXCEPT !.f = NoFlow]
    <2>1. /\ Fault("others") /\ up' = <<>> /\ net' = r
          /\ client' = [client EXCEPT !.state = "done"]
      BY <1>3 DEF DropClient
    <2>2. /\ r \in NetType /\ ~ r.k.open /\ ~ r.f.present
          /\ Len(r.f.unacked) = 0
      BY ForgottenOK
    <2> HIDE DEF r
    <2>5. Len(net.f.unacked) \in Nat
      BY DEF FlowType, Bytes
    <2>6. Sound(net, net')
      BY <2>1, <2>2, <2>5, NothingNew DEF Sound, Owned
    <2>7. client' \in ClientType
      BY <2>1 DEF ClientType
    <2>8. faults' \in [drops : Nat, others : Nat]
      BY <2>1, FaultType
    <2>9. QED BY <2>1, <2>6, <2>7, <2>8, NetworkOnly
  <1>4. ASSUME NEW w \in 0 .. ReceiveBuffer, NEW due \in SUBSET Deadlines,
               Poll(w, due)
        PROVE  TypeInv' /\ Within(net, net')
    <2>1. /\ net.f.present /\ w \in 0 .. Len(net.f.to_remote)
          /\ net' = PollNetwork(net, w, due, FALSE)
          /\ client' = client /\ up' = up /\ faults' = faults
      BY <1>4 DEF Poll
    <2>2. Sound(net, net')
      BY <2>1, PollOK
    <2>3. QED BY <2>1, <2>2, NetworkOnly
  <1>5. QED BY <1>1, <1>2, <1>3, <1>4

\* The client's own steps.
LEMMA ClientStep ==
  ASSUME TypeInv,
         \/ ClientSyn \/ ClientRetransmit \/ ClientStops \/ ClientReads
         \/ ClientAbort
         \/ \E size \in 0 .. Mss, fin \in BOOLEAN : ClientSend(size, fin)
         \/ \E fin \in BOOLEAN : ClientProbe(fin)
  PROVE  TypeInv' /\ Within(net, net')
  <1> USE TypeFacts
  <1>0. /\ client.nxt \in Nat /\ client.nxt <= MaxUp /\ client.una \in Nat
        /\ <<>> \in Bytes /\ MaxUp \in Nat /\ Mss \in Nat
        /\ ClientWindow \in Nat
    BY UsernetAssumption DEF ClientType, Bytes
  <1>1. CASE ClientSyn
    <2> DEFINE s == ClientSegment(client, {"SYN"}, <<>>)
               t == [s EXCEPT !.seq = Irs]
    <2>1. /\ client' = [client EXCEPT !.state = "syn-sent"]
          /\ up' = Append(up, t) /\ net' = net /\ faults' = faults
      BY <1>1 DEF ClientSyn
    <2>2. s \in Segment
      BY <1>0, ClientSegmentType
    <2> HIDE DEF s
    <2>3. t \in Segment
      BY <2>2, UsernetAssumption DEF Segment, SeqNo
    <2> HIDE DEF t
    <2>4. up' \in Seq(Segment)
      BY <2>1, <2>3
    <2>5. client' \in ClientType
      BY <2>1 DEF ClientType
    <2>6. QED BY <2>1, <2>4, <2>5, ClientOnly
  <1>2. CASE ClientRetransmit
    <2> DEFINE c == [client EXCEPT !.nxt = client.una, !.fin_out = FALSE]
               fl == IF client.fin_out THEN {"ACK", "FIN"} ELSE {"ACK"}
               d == Numbered(client.una, client.nxt)
               s == ClientSegment(c, fl, d)
    <2>1. /\ up' = Append(up, s)
          /\ net' = net /\ client' = client /\ faults' = faults
          /\ client.una <= client.nxt
      BY <1>0, <1>2 DEF ClientRetransmit
    <2>2. client.una \in 0 .. MaxUp
      BY <1>0, <2>1
    <2>3. c \in ClientType
      BY <2>2 DEF ClientType
    <2>4. d \in Bytes
      <3>1. PICK l \in Nat : client.nxt = client.una + l
        <4>1. client.nxt - client.una \in Nat
              /\ client.nxt = client.una + (client.nxt - client.una)
          BY <1>0, <2>1
        <4>2. QED BY <4>1
      <3>2. QED BY <1>0, <3>1, NumberedType
    <2>5. fl \in SUBSET {"SYN", "ACK", "FIN", "RST"}
      OBVIOUS
    <2> HIDE DEF c, fl, d
    <2>6. s \in Segment
      BY <2>3, <2>4, <2>5, ClientSegmentType
    <2> HIDE DEF s
    <2>7. up' \in Seq(Segment)
      BY <2>1, <2>6
    <2>8. QED BY <2>1, <2>7, ClientOnly
  <1>3. CASE ClientStops
    <2> DEFINE s == ClientSegment(client', {"ACK"}, <<>>)
    <2>1. /\ client' = [client EXCEPT !.room = 0, !.pauses = @ + 1]
          /\ up' = Append(up, s) /\ net' = net /\ faults' = faults
      BY <1>3 DEF ClientStops
    <2>2. client' \in ClientType
      <3> DEFINE k == client.pauses + 1
      <3>1. k \in Nat
        BY DEF ClientType
      <3>2. client' = [client EXCEPT !.room = 0, !.pauses = k]
        BY <2>1
      <3> HIDE DEF k
      <3>3. QED BY <3>1, <3>2 DEF ClientType
    <2>3. s \in Segment
      BY <1>0, <2>2, ClientSegmentType
    <2> HIDE DEF s
    <2>4. QED BY <2>1, <2>2, <2>3, ClientOnly
  <1>4. CASE ClientReads
    <2> DEFINE s == ClientSegment(client', {"ACK"}, <<>>)
    <2>1. /\ client' = [client EXCEPT !.room = ClientWindow]
          /\ up' = Append(up, s) /\ net' = net /\ faults' = faults
      BY <1>4 DEF ClientReads
    <2>2. client' \in ClientType
      <3>1. ClientWindow \in Nat
        BY <1>0
      <3>2. QED BY <2>1, <3>1 DEF ClientType
    <2>3. s \in Segment
      BY <1>0, <2>2, ClientSegmentType
    <2> HIDE DEF s
    <2>4. QED BY <2>1, <2>2, <2>3, ClientOnly
  <1>5. CASE ClientAbort
    <2> DEFINE s == ClientSegment(client, {"RST"}, <<>>)
    <2>1. /\ client' = [client EXCEPT !.state = "done"]
          /\ up' = Append(up, s) /\ net' = net /\ Fault("others")
      BY <1>5 DEF ClientAbort
    <2>2. client' \in ClientType
      BY <2>1 DEF ClientType
    <2>3. s \in Segment
      BY <1>0, ClientSegmentType
    <2> HIDE DEF s
    <2>4. faults' \in [drops : Nat, others : Nat]
      BY <2>1, FaultType
    <2>5. QED BY <2>1, <2>2, <2>3, <2>4, ClientOnly
  <1>6. ASSUME NEW size \in 0 .. Mss, NEW fin \in BOOLEAN, ClientSend(size, fin)
        PROVE  TypeInv' /\ Within(net, net')
    <2> DEFINE fl == IF fin THEN {"ACK", "FIN"} ELSE {"ACK"}
               d == Numbered(client.nxt, client.nxt + size)
               s == ClientSegment(client, fl, d)
    <2>1. /\ client.nxt + size <= MaxUp
          /\ client' = [client EXCEPT !.nxt = @ + size, !.fin_out = fin]
          /\ up' = Append(up, s) /\ net' = net /\ faults' = faults
      BY <1>6 DEF ClientSend
    <2>2. client.nxt + size \in 0 .. MaxUp
      BY <1>0, <2>1
    <2>3. client' \in ClientType
      BY <2>1, <2>2 DEF ClientType
    <2>4. d \in Bytes
      <3>1. size \in Nat
        OBVIOUS
      <3>2. QED BY <1>0, <3>1, NumberedType
    <2>5. fl \in SUBSET {"SYN", "ACK", "FIN", "RST"}
      OBVIOUS
    <2> HIDE DEF fl, d
    <2>6. s \in Segment
      BY <2>4, <2>5, ClientSegmentType
    <2> HIDE DEF s
    <2>7. QED BY <2>1, <2>3, <2>6, ClientOnly
  <1>7. ASSUME NEW fin \in BOOLEAN, ClientProbe(fin)
        PROVE  TypeInv' /\ Within(net, net')
    <2> DEFINE fl == IF fin THEN {"ACK", "FIN"} ELSE {"ACK"}
               d == Numbered(client.nxt, client.nxt + 1)
               s == ClientSegment(client, fl, d)
    <2>1. /\ client.nxt < MaxUp
          /\ client' = [client EXCEPT !.nxt = @ + 1, !.fin_out = fin]
          /\ up' = Append(up, s) /\ net' = net /\ faults' = faults
      BY <1>7 DEF ClientProbe
    <2>2. client.nxt + 1 \in 0 .. MaxUp
      BY <1>0, <2>1
    <2>3. client' \in ClientType
      BY <2>1, <2>2 DEF ClientType
    <2>4. d \in Bytes
      <3>1. 1 \in Nat
        OBVIOUS
      <3>2. QED BY <1>0, <3>1, NumberedType
    <2>5. fl \in SUBSET {"SYN", "ACK", "FIN", "RST"}
      OBVIOUS
    <2> HIDE DEF fl, d
    <2>6. s \in Segment
      BY <2>4, <2>5, ClientSegmentType
    <2> HIDE DEF s
    <2>7. QED BY <2>1, <2>3, <2>6, ClientOnly
  <1>8. QED BY <1>1, <1>2, <1>3, <1>4, <1>5, <1>6, <1>7
\* The client reads a segment, or its stack drops one.
LEMMA ReadStep ==
  ASSUME TypeInv, ClientReceive \/ ClientDrop
  PROVE  TypeInv' /\ Within(net, net')
  <1> USE TypeFacts
  <1> DEFINE seg == Head(net.out)
             o == Tail(net.out)
             c == IF client.state = "established" THEN ClientTake(client, seg)
                  ELSE [client EXCEPT !.state = "established", !.wnd = seg.wnd,
                                      !.rcv = Plus(seg.seq, 1)]
             s == ClientSegment(c, {"ACK"}, <<>>)
  <1>1. net.out # <<>> /\ net' = [net EXCEPT !.out = o]
    BY DEF ClientReceive, ClientDrop
  <1>2. seg \in Segment /\ o \in Seq(Segment)
    BY <1>1
  <1>3. CASE ClientReceive
    <2>1. /\ client' = client \/ client' = [client EXCEPT !.state = "done"]
             \/ client' = c
          /\ up' = up \/ (up' = Append(up, s))
          /\ faults' = faults
      BY <1>3 DEF ClientReceive
    <2> HIDE DEF seg, o
    <2>2. c \in ClientType /\ <<>> \in Bytes
      <3>1. ClientTake(client, seg) \in ClientType
        BY <1>2, ClientTakeType
      <3>2. [client EXCEPT !.state = "established", !.wnd = seg.wnd,
                           !.rcv = Plus(seg.seq, 1)] \in ClientType
        BY <1>2, ClientOpensType
      <3>3. QED BY <3>1, <3>2 DEF Bytes
    <2> HIDE DEF c
    <2>3. s \in Segment
      BY <2>2, ClientSegmentType
    <2> HIDE DEF s
    <2>4. [client EXCEPT !.state = "done"] \in ClientType
      BY DEF ClientType
    <2>5. client' \in ClientType /\ up' \in Seq(Segment)
      <3>1. Append(up, s) \in Seq(Segment)
        BY <2>3
      <3>2. QED BY <2>1, <2>2, <2>4, <3>1
    <2>6. net' \in NetType /\ net'.f = net.f /\ net'.k = net.k
      BY <1>1, <1>2 DEF NetType
    <2>7. QED BY <2>1, <2>5, <2>6, ClientOnly
  <1>4. CASE ClientDrop
    <2>1. Fault("drops") /\ client' = client /\ up' = up
      BY <1>4 DEF ClientDrop
    <2>2. faults' \in [drops : Nat, others : Nat]
      BY <2>1, FaultType
    <2> HIDE DEF o
    <2>3. net' \in NetType /\ net'.f = net.f /\ net'.k = net.k
      BY <1>1, <1>2 DEF NetType
    <2>4. QED BY <2>1, <2>2, <2>3, ClientOnly
  <1>5. QED BY <1>3, <1>4

\* What the remote may do to the kernel's side of the socket.
Elsewhere ==
  \/ \E status \in {"ok", "refused"} : RemoteAnswers(status)
  \/ RemoteWrites \/ RemoteCloses \/ RemoteResets

\* The remote opens no socket and takes back nothing it was given.
LEMMA RemoteStep ==
  ASSUME TypeInv, Elsewhere
  PROVE  /\ TypeInv' /\ Within(net, net')
         /\ net'.f = net.f /\ net'.k.got = net.k.got
         /\ client' = client /\ up' = up
  <1> USE TypeFacts
  <1> DEFINE Good(k) == k \in SocketType /\ net.f.present /\ k.got = net.k.got
  <1>0. net.k.open /\ net.k.status # "refused" => net.f.present
    BY DEF Owned
  <1>1. ASSUME NEW k, Good(k), Remote(k), faults' \in [drops : Nat, others : Nat]
        PROVE  /\ TypeInv' /\ Within(net, net')
               /\ net'.f = net.f /\ net'.k.got = net.k.got
               /\ client' = client /\ up' = up
    <2>1. net' = [net EXCEPT !.k = k] /\ client' = client /\ up' = up
      BY <1>1 DEF Remote
    <2>2. net' \in NetType /\ net'.f = net.f /\ net'.k = k
      BY <1>1, <2>1 DEF NetType
    <2>3. Len(net.f.unacked) \in Nat
      BY DEF FlowType, Bytes
    <2>4. Sound(net, net')
      BY <1>1, <2>2, <2>3, NothingNew DEF Sound, Owned
    <2>5. QED BY <1>1, <2>1, <2>2, <2>4, NetworkOnly
  <1>2. ASSUME NEW status \in {"ok", "refused"}, RemoteAnswers(status)
        PROVE  \E k : Good(k) /\ Remote(k) /\ faults' = faults
    <2> DEFINE k == [net.k EXCEPT !.status = status]
    <2>1. Good(k)
      BY <1>0, <1>2 DEF SocketType, RemoteAnswers
    <2>2. QED BY <1>2, <2>1 DEF RemoteAnswers
  <1>3. CASE RemoteWrites
    <2> DEFINE v == net.k.wrote + 1
               b == Append(net.k.rbuf, v)
               k == [net.k EXCEPT !.wrote = v, !.rbuf = b]
    <2>1. v \in Nat /\ b \in Bytes
      BY DEF SocketType, Bytes
    <2>2. Remote(k) /\ faults' = faults
      BY <1>3 DEF RemoteWrites
    <2> HIDE DEF v, b
    <2>3. Good(k)
      BY <1>0, <1>3, <2>1 DEF SocketType, RemoteWrites, RemoteAlive
    <2> HIDE DEF k, Good
    <2>4. QED BY <1>1, <2>2, <2>3
  <1>4. CASE RemoteCloses
    <2> DEFINE k == [net.k EXCEPT !.eof = TRUE]
    <2>1. Good(k)
      BY <1>0, <1>4 DEF SocketType, RemoteCloses, RemoteAlive
    <2>2. Remote(k) /\ faults' = faults
      BY <1>4 DEF RemoteCloses
    <2> HIDE DEF k, Good
    <2>3. QED BY <1>1, <2>1, <2>2
  <1>5. CASE RemoteResets
    <2> DEFINE b == <<>>
               k == [net.k EXCEPT !.reset = TRUE, !.rbuf = b]
    <2>1. b \in Bytes
      BY DEF Bytes
    <2>2. Remote(k) /\ Fault("others")
      BY <1>5 DEF RemoteResets
    <2>3. faults' \in [drops : Nat, others : Nat]
      BY <2>2, FaultType
    <2> HIDE DEF b
    <2>4. Good(k)
      BY <1>0, <1>5, <2>1 DEF SocketType, RemoteResets, RemoteAlive
    <2> HIDE DEF k, Good
    <2>5. QED BY <1>1, <2>2, <2>3, <2>4
  <1> HIDE DEF Good
  <1>6. QED BY <1>1, <1>2, <1>3, <1>4, <1>5 DEF Elsewhere

\* Every step keeps the types, and adds to what is unacknowledged within the
\* client's window only.
LEMMA TypeStep ==
  ASSUME TypeInv, [Next]_vars
  PROVE  TypeInv' /\ Within(net, net')
  <1>1. CASE UNCHANGED vars
    <2>1. Len(net.f.unacked) \in Nat
      BY TypeFacts DEF FlowType, Bytes
    <2>2. QED BY <1>1, <2>1 DEF vars, TypeInv, TypeOK, SocketOwned, Within
  <1>2. CASE Next
    BY <1>2, NetworkStep, ClientStep, ReadStep, RemoteStep DEF Next, Elsewhere
  <1>3. QED BY <1>1, <1>2

\* Nothing is open and nothing is under way at the start.
LEMMA TypeInit ==
  Init => TypeInv
  <1> SUFFICES ASSUME Init PROVE TypeInv
    OBVIOUS
  <1> DEFINE k == [NewSocket("pending") EXCEPT !.open = FALSE, !.registered = FALSE]
             z == NoFlow
  <1>1. k \in SocketType /\ k.open = FALSE
    <2> DEFINE j == NewSocket("pending")
    <2>1. j \in SocketType
      BY DEF NewSocket, SocketType, Bytes
    <2> HIDE DEF j
    <2>2. [j EXCEPT !.open = FALSE, !.registered = FALSE] \in SocketType
      BY <2>1 DEF SocketType
    <2>3. [j EXCEPT !.open = FALSE, !.registered = FALSE].open = FALSE
      BY <2>1 DEF SocketType
    <2>4. QED BY <2>2, <2>3 DEF j
  <1>2. z \in FlowType
    BY NoFlowType
  <1>3. net = [f |-> z, out |-> <<>>, k |-> k]
    BY DEF Init
  <1> HIDE DEF k, z
  <1>4. net \in NetType /\ net.k.open = FALSE
    BY <1>1, <1>2, <1>3 DEF NetType
  <1>5. client \in ClientType
    <2>1. 0 \in 0 .. MaxUp /\ 0 \in SeqNo /\ ClientWindow \in Nat /\ <<>> \in Bytes
      BY UsernetAssumption DEF SeqNo, Bytes
    <2>2. QED BY <2>1 DEF Init, ClientType
  <1>6. up \in Seq(Segment) /\ faults \in [drops : Nat, others : Nat]
    BY DEF Init
  <1>7. QED BY <1>4, <1>5, <1>6 DEF TypeInv, TypeOK, SocketOwned, NetType

\* The types of the whole system are an invariant.
THEOREM AlwaysTyped == Spec => []TypeInv
  <1>1. TypeInv /\ [Next]_vars => TypeInv'
    BY TypeStep
  <1>2. QED BY TypeInit, <1>1, PTL DEF Spec

\* Every attribute of the flow keeps its type and every sequence number its
\* width: the subtractions of the buffers and the window never go wrong.
THEOREM TypeCorrect == Spec => []TypeOK
  <1>1. TypeInv => TypeOK
    BY DEF TypeInv
  <1>2. QED BY AlwaysTyped, <1>1, PTL

\* However an adopted flow ends (a failed connect, a reset from either side, an
\* orderly close, the idle timeout, a cleared call), its descriptor is closed
\* before the table forgets it; only a connect() refused outright leaves one
\* behind, unwatched.
THEOREM SocketsOwned == Spec => []SocketOwned
  <1>1. TypeInv => SocketOwned
    BY DEF TypeInv
  <1>2. QED BY AlwaysTyped, <1>1, PTL

\* Whatever the segment size, the window and the order of acknowledgements,
\* _send_to_client never has more in flight than the client's last window, the
\* FIN aside.
THEOREM WindowRespected == Spec => WithinWindow
  <1>1. TypeInv /\ [Next]_vars
          => [Len(net'.f.unacked) > Len(net.f.unacked)
                => InFlight(net'.f) <= net'.f.snd_wnd
                                         + IF net'.f.fin_sent THEN 1 ELSE 0]_vars
    BY TypeStep DEF Within
  <1>2. QED BY AlwaysTyped, <1>1, PTL DEF Spec, WithinWindow

-----------------------------------------------------------------------------
(* The client's bytes, from its segments to the remote.                     *)

\* The inductive invariant of the upstream direction.
UpInv == UpOK(net, client) /\ \A i \in 1 .. Len(up) : Ordered(up[i], client)

\* The client sends more, or its FIN, but nothing behind its FIN.
Grows(c, d) == c.nxt <= d.nxt /\ (c.fin_out => d.fin_out /\ d.nxt = c.nxt)

\* What is under way stays in order while the client sends more.
LEMMA OrderedGrows ==
  ASSUME NEW seg \in Segment, NEW c \in ClientType, NEW d \in ClientType,
         Grows(c, d), Ordered(seg, c)
  PROVE  Ordered(seg, d)
  <1>1. c.nxt \in Nat /\ d.nxt \in Nat /\ Len(seg.data) \in Nat
    BY UsernetAssumption DEF ClientType, Segment, Bytes
  <1>2. CASE seg.data = <<>> /\ "FIN" \notin seg.flags
    BY <1>2 DEF Ordered
  <1>3. ASSUME NEW a \in 0 .. c.nxt, seg.seq = Position(a),
               seg.data = Numbered(a, a + Len(seg.data)),
               a + Len(seg.data) <= c.nxt,
               "FIN" \in seg.flags => c.fin_out /\ a + Len(seg.data) = c.nxt
        PROVE  Ordered(seg, d)
    <2>1. a \in 0 .. d.nxt /\ a + Len(seg.data) <= d.nxt
      BY <1>1, <1>3 DEF Grows
    <2>2. "FIN" \in seg.flags => d.fin_out /\ a + Len(seg.data) = d.nxt
      BY <1>3 DEF Grows
    <2>3. QED BY <1>3, <2>1, <2>2 DEF Ordered
  <1>4. QED BY <1>2, <1>3 DEF Ordered

\* So does what was accepted.
LEMMA UpGrows ==
  ASSUME NEW n \in NetType, NEW c \in ClientType, NEW d \in ClientType,
         Grows(c, d), UpOK(n, c)
  PROVE  UpOK(n, d)
  <1>1. c.nxt \in Nat /\ d.nxt \in Nat /\ Len(Taken(n)) \in Nat
    BY UsernetAssumption, TakenType DEF ClientType
  <1>2. QED BY <1>1 DEF UpOK, Grows

\* A client that does not send more has grown all the same.
LEMMA GrowsSame ==
  ASSUME NEW c \in ClientType, NEW d \in ClientType,
         d.nxt = c.nxt, d.fin_out = c.fin_out
  PROVE  Grows(c, d)
  <1>1. c.nxt \in Nat
    BY UsernetAssumption DEF ClientType
  <1>2. QED BY <1>1 DEF Grows

\* A step that takes nothing from what is under way.
LEMMA UpKept ==
  ASSUME TypeInv, TypeInv', UpInv, UpOK(net', client), Grows(client, client'),
         up' = up
  PROVE  UpInv'
  <1>1. /\ net' \in NetType /\ client \in ClientType /\ client' \in ClientType
        /\ up \in Seq(Segment)
    BY TypeFacts DEF TypeInv, TypeOK, NetType
  <1>2. UpOK(net', client')
    BY <1>1, UpGrows
  <1>3. ASSUME NEW i \in 1 .. Len(up)
        PROVE  Ordered(up[i], client')
    <2>1. up[i] \in Segment /\ Ordered(up[i], client)
      BY <1>1, ElementOfSeq DEF UpInv
    <2>2. QED BY <1>1, <2>1, OrderedGrows
  <1>4. QED BY <1>2, <1>3 DEF UpInv

\* A step in which the client sends a segment in order.
LEMMA UpSent ==
  ASSUME TypeInv, TypeInv', UpInv, UpOK(net', client), Grows(client, client'),
         NEW s \in Segment, Ordered(s, client'), up' = Append(up, s)
  PROVE  UpInv'
  <1>1. /\ net' \in NetType /\ client \in ClientType /\ client' \in ClientType
        /\ up \in Seq(Segment)
    BY TypeFacts DEF TypeInv, TypeOK, NetType
  <1>2. UpOK(net', client')
    BY <1>1, UpGrows
  <1>3. ASSUME NEW i \in 1 .. Len(up)
        PROVE  Ordered(up[i], client')
    <2>1. up[i] \in Segment /\ Ordered(up[i], client)
      BY <1>1, ElementOfSeq DEF UpInv
    <2>2. QED BY <1>1, <2>1, OrderedGrows
  <1>4. /\ Len(up') = Len(up) + 1 /\ Len(up) \in Nat
        /\ up'[Len(up) + 1] = s
        /\ \A i \in 1 .. Len(up) : up'[i] = up[i]
    BY <1>1, AppendProperties
  <1>5. ASSUME NEW i \in 1 .. Len(up')
        PROVE  Ordered(up'[i], client')
    <2>1. i \in 1 .. Len(up) \/ i = Len(up) + 1
      BY <1>4
    <2>2. CASE i \in 1 .. Len(up)
      <3>1. up'[i] = up[i]
        BY <1>4, <2>2
      <3>2. QED BY <1>3, <2>2, <3>1
    <2>3. CASE i = Len(up) + 1
      BY <1>4, <2>3
    <2>4. QED BY <2>1, <2>2, <2>3
  <1>6. QED BY <1>2, <1>5 DEF UpInv

\* A segment without data and without FIN is in order whatever its number.
LEMMA BareOrdered ==
  ASSUME NEW c, NEW d, NEW flags, "FIN" \notin flags
  PROVE  Ordered(ClientSegment(d, flags, <<>>), c)
  BY DEF Ordered, ClientSegment

\* The number of the client's next byte.
LEMMA NextNumber ==
  ASSUME NEW c \in ClientType, c.fin_out = FALSE, NEW flags, NEW data
  PROVE  ClientSegment(c, flags, data)
           = [flags |-> flags, data |-> data, wnd |-> c.room, num |-> c.rcv,
              seq |-> Position(c.nxt)]
  <1>1. c.nxt \in Nat
    BY UsernetAssumption DEF ClientType
  <1>2. 1 + c.nxt + (IF c.fin_out THEN 1 ELSE 0) = 1 + c.nxt
    BY <1>1
  <1>3. QED BY <1>2 DEF ClientSegment, Position

\* The client's bytes of one segment, as it sends them.
LEMMA DataOrdered ==
  ASSUME NEW c \in ClientType, c.fin_out = FALSE, NEW d \in ClientType,
         NEW l \in Nat, NEW flags, c.nxt + l <= d.nxt,
         "FIN" \in flags => d.fin_out /\ c.nxt + l = d.nxt
  PROVE  Ordered(ClientSegment(c, flags, Numbered(c.nxt, c.nxt + l)), d)
  <1> DEFINE a == c.nxt
             data == Numbered(a, a + l)
             s == ClientSegment(c, flags, data)
  <1>1. /\ s.seq = Position(a) /\ s.data = data /\ s.flags = flags
        /\ a \in Nat /\ d.nxt \in Nat
    <2> HIDE DEF data
    <2>1. s = [flags |-> flags, data |-> data, wnd |-> c.room, num |-> c.rcv,
               seq |-> Position(c.nxt)]
      BY NextNumber
    <2>2. c.nxt \in Nat /\ d.nxt \in Nat
      BY UsernetAssumption DEF ClientType
    <2>3. QED BY <2>1, <2>2
  <1>2. Len(data) = l
    BY <1>1, NumberedType
  <1> HIDE DEF a, data, s
  <1>3. a \in 0 .. d.nxt
    BY <1>1 DEF a
  <1>4. /\ s.data = Numbered(a, a + Len(s.data)) /\ a + Len(s.data) <= d.nxt
        /\ "FIN" \in s.flags => d.fin_out /\ a + Len(s.data) = d.nxt
    BY <1>1, <1>2 DEF a, data
  <1>5. Ordered(s, d)
    BY <1>1, <1>3, <1>4 DEF Ordered
  <1>6. QED BY <1>5 DEF s, data, a
\* Every step keeps the upstream direction exact.  The bytes the client sends
\* and its FIN take less than one turn of the number space: a longer stream
\* would repeat its numbers, and exactness would rest on the age of segments.
LEMMA UpStep ==
  ASSUME MaxUp + 1 < SeqMod, TypeInv, UpInv, [Next]_vars
  PROVE  UpInv'
  <1> USE TypeFacts
  <1>0. TypeInv'
    BY TypeStep
  <1>1. /\ client' \in ClientType /\ net' \in NetType /\ UpOK(net, client)
        /\ client.nxt \in Nat /\ client.nxt <= MaxUp /\ client.una \in Nat
        /\ client.fin_out \in BOOLEAN /\ <<>> \in Bytes
    BY <1>0, UsernetAssumption DEF TypeInv, TypeOK, NetType, UpInv, ClientType, Bytes
  <1>2. Grows(client, client)
    BY GrowsSame
  <1>3. CASE UNCHANGED vars
    BY <1>3 DEF vars, UpInv
  <1>4. CASE Deliver
    <2>1. up # <<>> /\ net' \in DeliverTcp(net, Head(up)) /\ up' = Tail(up)
          /\ client' = client
      BY <1>4 DEF Deliver
    <2>2. Head(up) \in Segment /\ Head(up) = up[1] /\ 1 \in 1 .. Len(up)
      BY <2>1
    <2>3. UpOK(net', client)
      <3>1. Ordered(Head(up), client)
        BY <2>2 DEF UpInv
      <3>2. QED BY <1>1, <2>1, <2>2, <3>1, DeliverTcpOK
    <2>4. /\ Len(up') = Len(up) - 1 /\ Len(up) \in Nat
          /\ \A i \in 1 .. Len(up') : up'[i] = up[i + 1]
      BY <2>1, HeadTailProperties
    <2>5. \A i \in 1 .. Len(up') : Ordered(up'[i], client)
      <3> SUFFICES ASSUME NEW i \in 1 .. Len(up') PROVE Ordered(up'[i], client)
        OBVIOUS
      <3>1. i + 1 \in 1 .. Len(up)
        BY <2>4
      <3>2. QED BY <2>4, <3>1 DEF UpInv
    <2>6. QED BY <2>1, <2>3, <2>5 DEF UpInv
  <1>5. CASE PollExpired
    <2>1. /\ net.f.present /\ net' = PollNetwork(net, 0, Deadlines, TRUE)
          /\ client' = client /\ up' = up
      BY <1>5 DEF PollExpired
    <2>2. 0 \in 0 .. Len(net.f.to_remote)
      OBVIOUS
    <2>3. UpOK(net', client)
      BY <1>1, <2>1, <2>2, PollOK
    <2>4. QED BY <1>0, <1>2, <2>1, <2>3, UpKept
  <1>6. ASSUME NEW w \in 0 .. ReceiveBuffer, NEW due \in SUBSET Deadlines,
               Poll(w, due)
        PROVE  UpInv'
    <2>1. /\ net.f.present /\ w \in 0 .. Len(net.f.to_remote)
          /\ net' = PollNetwork(net, w, due, FALSE)
          /\ client' = client /\ up' = up
      BY <1>6 DEF Poll
    <2>2. UpOK(net', client)
      BY <1>1, <2>1, PollOK
    <2>3. QED BY <1>0, <1>2, <2>1, <2>2, UpKept
  <1>7. CASE DropClient
    <2>1. /\ net' = [CloseSocket(net) EXCEPT !.f = NoFlow]
          /\ up' = <<>>
      BY <1>7 DEF DropClient
    <2>2. net'.f = NoFlow
      BY <2>1 DEF CloseSocket, NetType
    <2>3. ~ net'.f.present
      BY <2>2, NoFlowType
    <2>4. QED BY <2>1, <2>3 DEF UpInv, UpOK
  <1>8. CASE ClientSyn
    <2> DEFINE s == ClientSegment(client, {"SYN"}, <<>>)
               t == [s EXCEPT !.seq = Irs]
    <2>1. /\ client' = [client EXCEPT !.state = "syn-sent"]
          /\ up' = Append(up, t) /\ net' = net
      BY <1>8 DEF ClientSyn
    <2>2. s \in Segment
      BY <1>1, ClientSegmentType
    <2>3. s.data = <<>> /\ s.flags = {"SYN"}
      BY DEF ClientSegment
    <2> HIDE DEF s
    <2>4. t \in Segment /\ t.data = <<>> /\ t.flags = {"SYN"}
      BY <2>2, <2>3, UsernetAssumption DEF Segment, SeqNo
    <2> HIDE DEF t
    <2>5. Ordered(t, client')
      BY <2>4 DEF Ordered
    <2>6. Grows(client, client')
      BY <1>1, <2>1, GrowsSame DEF ClientType
    <2>7. QED BY <1>0, <1>1, <2>1, <2>4, <2>5, <2>6, UpSent
  <1>9. CASE ClientRetransmit
    <2> DEFINE c == [client EXCEPT !.nxt = client.una, !.fin_out = FALSE]
               fl == IF client.fin_out THEN {"ACK", "FIN"} ELSE {"ACK"}
               d == Numbered(client.una, client.nxt)
               s == ClientSegment(c, fl, d)
    <2>1. /\ up' = Append(up, s) /\ net' = net /\ client' = client
          /\ client.una <= client.nxt
      BY <1>1, <1>9 DEF ClientRetransmit
    <2>2. client.una \in 0 .. MaxUp
      <3>1. MaxUp \in Nat
        BY UsernetAssumption
      <3>2. QED BY <1>1, <2>1, <3>1
    <2>3. c \in ClientType /\ c.nxt = client.una /\ c.fin_out = FALSE
      BY <2>2 DEF ClientType
    <2>4. PICK l \in Nat : client.nxt = client.una + l
      <3>1. client.nxt - client.una \in Nat
            /\ client.nxt = client.una + (client.nxt - client.una)
        BY <1>1, <2>1
      <3>2. QED BY <3>1
    <2>5. d = Numbered(c.nxt, c.nxt + l) /\ d \in Bytes
      BY <1>1, <2>3, <2>4, NumberedType
    <2>6. fl \in SUBSET {"SYN", "ACK", "FIN", "RST"}
          /\ ("FIN" \in fl => client.fin_out)
      OBVIOUS
    <2> HIDE DEF c, fl, d
    <2>7. s \in Segment
      BY <2>3, <2>5, <2>6, ClientSegmentType
    <2>8. Ordered(s, client)
      <3>1. c.nxt + l <= client.nxt /\ c.nxt + l = client.nxt
        BY <1>1, <2>3, <2>4
      <3>2. Ordered(ClientSegment(c, fl, Numbered(c.nxt, c.nxt + l)), client)
        BY <2>3, <2>6, <3>1, DataOrdered
      <3>3. QED BY <2>5, <3>2
    <2> HIDE DEF s
    <2>9. QED BY <1>0, <1>1, <1>2, <2>1, <2>7, <2>8, UpSent
  <1>10. CASE ClientStops \/ ClientReads
    <2> DEFINE s == ClientSegment(client', {"ACK"}, <<>>)
    <2>1. /\ \/ client' = [client EXCEPT !.room = 0, !.pauses = @ + 1]
             \/ client' = [client EXCEPT !.room = ClientWindow]
          /\ up' = Append(up, s) /\ net' = net
      BY <1>10 DEF ClientStops, ClientReads
    <2>2. s \in Segment
      BY <1>1, ClientSegmentType
    <2>3. Ordered(s, client')
      BY BareOrdered
    <2> HIDE DEF s
    <2>4. client'.nxt = client.nxt /\ client'.fin_out = client.fin_out
      BY <2>1 DEF ClientType
    <2>5. Grows(client, client')
      BY <1>1, <2>4, GrowsSame
    <2>6. QED BY <1>0, <1>1, <2>1, <2>2, <2>3, <2>5, UpSent
  <1>11. CASE ClientAbort
    <2> DEFINE s == ClientSegment(client, {"RST"}, <<>>)
    <2>1. /\ client' = [client EXCEPT !.state = "done"]
          /\ up' = Append(up, s) /\ net' = net
      BY <1>11 DEF ClientAbort
    <2>2. s \in Segment
      BY <1>1, ClientSegmentType
    <2>3. Ordered(s, client')
      BY BareOrdered
    <2> HIDE DEF s
    <2>4. Grows(client, client')
      BY <1>1, <2>1, GrowsSame DEF ClientType
    <2>5. QED BY <1>0, <1>1, <2>1, <2>2, <2>3, <2>4, UpSent
  <1>12. ASSUME NEW size \in Nat, NEW fin \in BOOLEAN, NEW fl,
                fl = (IF fin THEN {"ACK", "FIN"} ELSE {"ACK"}),
                client.fin_out = FALSE, net' = net,
                client' = [client EXCEPT !.nxt = @ + size, !.fin_out = fin],
                up' = Append(up, ClientSegment(client, fl,
                               Numbered(client.nxt, client.nxt + size)))
         PROVE  UpInv'
    <2> DEFINE d == Numbered(client.nxt, client.nxt + size)
               s == ClientSegment(client, fl, d)
    <2>1. client'.nxt = client.nxt + size /\ client'.fin_out = fin
      BY <1>12 DEF ClientType
    <2>2. d \in Bytes
      BY <1>1, NumberedType
    <2>3. fl \in SUBSET {"SYN", "ACK", "FIN", "RST"} /\ ("FIN" \in fl => fin)
      BY <1>12
    <2>4. s \in Segment
      <3> HIDE DEF d
      <3>1. QED BY <2>2, <2>3, ClientSegmentType
    <2>5. Ordered(s, client')
      <3>1. client.nxt + size <= client'.nxt
        BY <1>1, <2>1
      <3>2. "FIN" \in fl => client'.fin_out /\ client.nxt + size = client'.nxt
        BY <2>1, <2>3
      <3>3. QED BY <1>1, <1>12, <3>1, <3>2, DataOrdered
    <2>6. Grows(client, client')
      BY <1>1, <1>12, <2>1 DEF Grows
    <2>7. up' = Append(up, s)
      BY <1>12
    <2> HIDE DEF s, d
    <2>8. UpOK(net', client)
      BY <1>1, <1>12
    <2>9. QED BY <1>0, <2>4, <2>5, <2>6, <2>7, <2>8, UpSent
  <1>13. ASSUME NEW size \in 0 .. Mss, NEW fin \in BOOLEAN, ClientSend(size, fin)
         PROVE  UpInv'
    <2>1. size \in Nat
      BY UsernetAssumption
    <2>2. client.fin_out = FALSE
      BY <1>1, <1>13 DEF ClientSend
    <2>3. QED BY <1>12, <1>13, <2>1, <2>2 DEF ClientSend
  <1>14. ASSUME NEW fin \in BOOLEAN, ClientProbe(fin)
         PROVE  UpInv'
    <2>1. 1 \in Nat
      OBVIOUS
    <2>2. client.fin_out = FALSE
      BY <1>1, <1>14 DEF ClientProbe
    <2>3. QED BY <1>12, <1>14, <2>1, <2>2 DEF ClientProbe
  <1>15. CASE ClientReceive \/ ClientDrop
    <2> DEFINE seg == Head(net.out)
               o == Tail(net.out)
               c == IF client.state = "established" THEN ClientTake(client, seg)
                    ELSE [client EXCEPT !.state = "established", !.wnd = seg.wnd,
                                        !.rcv = Plus(seg.seq, 1)]
               e == [client EXCEPT !.state = "done"]
               s == ClientSegment(c, {"ACK"}, <<>>)
    <2>1. /\ net.out # <<>> /\ net' = [net EXCEPT !.out = o]
          /\ client' = client \/ client' = e \/ client' = c
          /\ up' = up \/ up' = Append(up, s)
      BY <1>15 DEF ClientReceive, ClientDrop
    <2>2. seg \in Segment
      BY <2>1
    <2>3. net'.f = net.f /\ net'.k = net.k
      BY <2>1 DEF NetType
    <2> HIDE DEF seg, o
    <2>4. /\ c \in ClientType /\ c.nxt = client.nxt /\ c.fin_out = client.fin_out
      <3>1. /\ ClientTake(client, seg) \in ClientType
            /\ ClientTake(client, seg).nxt = client.nxt
            /\ ClientTake(client, seg).fin_out = client.fin_out
        BY <2>2, ClientTakeType
      <3> DEFINE g == [client EXCEPT !.state = "established", !.wnd = seg.wnd,
                                     !.rcv = Plus(seg.seq, 1)]
      <3>2. g \in ClientType /\ g.nxt = client.nxt /\ g.fin_out = client.fin_out
        BY <2>2, ClientOpensType
      <3> HIDE DEF g
      <3>3. c = ClientTake(client, seg) \/ c = g
        BY DEF g
      <3> HIDE DEF c
      <3>4. QED BY <3>1, <3>2, <3>3
    <2>5. e.nxt = client.nxt /\ e.fin_out = client.fin_out
      BY DEF ClientType
    <2> HIDE DEF c, e
    <2>6. Grows(client, client')
      BY <1>1, <2>1, <2>4, <2>5, GrowsSame
    <2>7. s \in Segment
      BY <1>1, <2>4, ClientSegmentType
    <2>8. Ordered(s, client')
      BY BareOrdered
    <2>9. UpOK(net', client)
      BY <1>1, <2>3 DEF UpOK, Taken
    <2> HIDE DEF s
    <2>10. CASE up' = up
      BY <1>0, <2>6, <2>9, <2>10, UpKept
    <2>11. CASE up' = Append(up, s)
      BY <1>0, <2>6, <2>7, <2>8, <2>9, <2>11, UpSent
    <2>12. QED BY <2>1, <2>10, <2>11
  <1>16. CASE Elsewhere
    <2>1. /\ net'.f = net.f /\ net'.k.got = net.k.got
          /\ client' = client /\ up' = up
      BY <1>16, RemoteStep
    <2>2. UpOK(net', client)
      BY <1>1, <2>1 DEF UpOK, Taken
    <2>3. QED BY <1>0, <1>2, <2>1, <2>2, UpKept
  <1>17. QED
    BY <1>3, <1>4, <1>5, <1>6, <1>7, <1>8, <1>9, <1>10, <1>11, <1>13, <1>14,
       <1>15, <1>16 DEF Next, Elsewhere

\* What this end has acknowledged to the client is what it has written to the
\* remote or still holds, each byte once and in order, within the buffer it
\* advertises, and it takes the FIN behind the last byte only: for every buffer,
\* segment size and initial sequence number, through every wrap of the numbers,
\* however segments are repeated, for streams shorter than the number space.
THEOREM UpstreamAlwaysExact ==
  ASSUME MaxUp + 1 < SeqMod
  PROVE  Spec => []UpstreamExact
  <1>1. Init => UpInv
    <2> SUFFICES ASSUME Init PROVE UpInv
      OBVIOUS
    <2>1. net.f = NoFlow /\ up = <<>>
      BY DEF Init
    <2>2. ~ net.f.present /\ Len(up) = 0
      BY <2>1, NoFlowType
    <2>3. QED BY <2>2 DEF UpInv, UpOK
  <1>2. TypeInv /\ UpInv /\ [Next]_vars => UpInv'
    BY UpStep
  <1>3. TypeInv /\ UpInv => UpstreamExact
    <2> SUFFICES ASSUME TypeInv, UpInv, net.f.present
                 PROVE  UpstreamExact
      BY DEF UpstreamExact
    <2> DEFINE l == Len(Taken(net))
               h == IF net.f.client_closed THEN 1 ELSE 0
    <2>1. /\ Taken(net) = Numbered(0, l) /\ net.f.rcv_nxt = Position(l + h)
          /\ Len(net.f.to_remote) <= ReceiveBuffer /\ l <= client.nxt
          /\ net.f.client_closed => l = client.nxt
      BY DEF UpInv, UpOK
    <2>2. /\ l \in Nat /\ client.nxt \in Nat /\ client.nxt <= MaxUp
          /\ SeqMod \in Nat /\ MaxUp \in Nat /\ h \in {0, 1}
      BY TypeFacts, TakenType, UsernetAssumption DEF ClientType
    <2> HIDE DEF l, h
    <2>3. l + h \in 0 .. (SeqMod - 1)
      BY <2>1, <2>2
    <2>4. Distance(net.f.rcv_nxt, Plus(Irs, 1)) = l + h
      BY <2>1, <2>3, PositionDistance
    <2>5. QED BY <2>1, <2>4 DEF UpstreamExact, Taken, l, h
  <1>4. QED BY AlwaysTyped, <1>1, <1>2, <1>3, PTL DEF Spec
=============================================================================

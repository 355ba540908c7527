------------------------------ MODULE Usernet -------------------------------
(***************************************************************************)
(* The user-space NAT of tools/usernet.py: one TcpFlow in the table of a   *)
(* UserNetwork, spliced between a PPP client's TCP and a host socket.      *)
(*                                                                         *)
(* net.f is the TcpFlow, its attributes as fields; net.out the datagrams   *)
(* the network has emitted and the client has not read; net.k the kernel's *)
(* side of the host socket.  A method is an operator from net to net.  The *)
(* client's TCP and the remote server are not part of the repository: the  *)
(* actions named Client... and Remote... say what this code may meet.      *)
(*                                                                         *)
(* The two byte streams are numbered 1, 2, 3, ...  Sequence numbers are    *)
(* taken modulo SeqMod.  A delayed acknowledgement and a retransmission    *)
(* are due, or not, as the parameter of Poll says.                         *)
(***************************************************************************)
EXTENDS Integers, Sequences

CONSTANTS
  SeqMod,          \* 2^32
  Irs, Iss,        \* initial sequence numbers, the client's and ours
  ReceiveBuffer,   \* RECEIVE_BUFFER
  ReadChunk,       \* READ_CHUNK
  Mss,             \* the flow's mss
  MaxRetransmits,  \* MAX_RETRANSMITS
  ClientWindow     \* the window a client with room advertises

CONSTANTS
  MaxUp,           \* bound: bytes the client sends
  MaxDown,         \* bound: bytes the remote sends
  MaxFault,        \* bound: dropped segments, aborts, resets, expiries, cleared calls
  MaxPause,        \* bound: pauses of the client's application
  MaxQueue         \* bound: the client waits while this many are under way

ASSUME UsernetAssumption ==
  /\ SeqMod \in Nat \ {0} /\ Irs \in 0 .. (SeqMod - 1) /\ Iss \in 0 .. (SeqMod - 1)
  /\ ReceiveBuffer \in Nat \ {0} /\ ReadChunk \in Nat \ {0} /\ Mss \in Nat \ {0}
  /\ MaxRetransmits \in Nat /\ ClientWindow \in Nat \ {0}
  /\ MaxUp \in Nat /\ MaxDown \in Nat /\ MaxFault \in Nat
  /\ MaxPause \in Nat /\ MaxQueue \in Nat

VARIABLES
  net,      \* the UserNetwork: flow, emitted segments, host socket
  client,   \* the client's TCP (external)
  up,       \* segments from the client not yet delivered
  faults    \* what has gone wrong so far

vars == <<net, client, up, faults>>

SeqNo == 0 .. (SeqMod - 1)
Bytes == Seq(Nat)
Segment == [flags : SUBSET {"SYN", "ACK", "FIN", "RST"}, seq : SeqNo,
            num : SeqNo, wnd : Nat, data : Bytes]

\* Mutation of Plus: the mask is forgotten.
PlusNoMask(a, n) == a + n

Plus(a, n) == (a + n) % SeqMod
Distance(a, b) == (a - b) % SeqMod
Least(a, b) == IF a < b THEN a ELSE b
Drop(s, n) == SubSeq(s, n + 1, Len(s))
Numbered(a, b) == [i \in 1 .. (b - a) |-> a + i]

\* Method on the network that the calls so far have left.
Then(n, Method(_)) == CHOOSE r \in {Method(m) : m \in {n}} : TRUE

\* _serial_lt
SerialLt(a, b) == Distance(a, b) > SeqMod \div 2

-----------------------------------------------------------------------------
(* TcpFlow: helpers.                                                        *)

ReceiveWindow(f) ==
  IF Len(f.to_remote) > ReceiveBuffer THEN 0 ELSE ReceiveBuffer - Len(f.to_remote)

EmitAt(n, flags, seq, data) ==
  [n EXCEPT !.f.advertised = ReceiveWindow(n.f),
            !.out = Append(@, [flags |-> flags, seq |-> seq,
                               num |-> n.f.rcv_nxt, wnd |-> ReceiveWindow(n.f),
                               data |-> data])]

Emit(n, flags) == EmitAt(n, flags, n.f.snd_nxt, <<>>)

CloseSocket(n) == [n EXCEPT !.k.open = FALSE, !.k.registered = FALSE]

Reset(n) == CloseSocket([Emit(n, {"RST", "ACK"}) EXCEPT !.f.state = "closed"])

-----------------------------------------------------------------------------
(* TcpFlow: from the client.                                                *)

\* Mutation of ProcessAck: only data moves snd_una, not the SYN or the FIN.
ProcessAckDataOnly(f, num) ==
  LET consumed == Least(Distance(num, f.snd_una), Len(f.unacked))
  IN IF SerialLt(f.snd_nxt, num) THEN f
     ELSE [f EXCEPT !.unacked = Drop(@, consumed), !.snd_una = Plus(@, consumed)]

\* _process_ack
ProcessAck(f, num) ==
  LET consumed == Least(Distance(num, f.snd_una), Len(f.unacked))
  IN IF \/ SerialLt(num, f.snd_una) \/ num = f.snd_una
        \/ SerialLt(f.snd_nxt, num)
     THEN f
     ELSE [f EXCEPT !.unacked = Drop(@, consumed), !.snd_una = num,
                    !.retransmits = 0, !.rto = Len(f.unacked) > consumed]

AckNow(n) == [Emit(n, {"ACK"}) EXCEPT !.f.pending_ack = FALSE]

\* How much of the payload is in sequence and within the window.
Accepted(f, seg) ==
  IF seg.seq = f.rcv_nxt THEN Least(Len(seg.data), ReceiveWindow(f)) ELSE 0

\* The payload's part of on_segment.
TakePayload(n, seg) ==
  LET consumed == Accepted(n.f, seg)
      m == [n EXCEPT !.f.to_remote = @ \o SubSeq(seg.data, 1, consumed),
                     !.f.rcv_nxt = Plus(@, consumed)]
  IN IF seg.data = <<>> THEN n
     ELSE IF consumed = Len(seg.data) /\ ~ n.f.pending_ack
          THEN [m EXCEPT !.f.pending_ack = TRUE]
     ELSE AckNow(m)

\* Mutation of FinInSequence: a FIN counts although its data was truncated.
FinInSequenceEarly(f, consumed, seg) == ~ f.client_closed

\* A FIN counts once everything before it has been accepted.
FinInSequence(f, consumed, seg) ==
  /\ ~ f.client_closed
  /\ Plus(seg.seq, Len(seg.data)) = f.rcv_nxt
  /\ consumed = Len(seg.data)

\* The FIN's part of on_segment: half close.
TakeFin(n, consumed, seg) ==
  IF "FIN" \notin seg.flags \/ ~ FinInSequence(n.f, consumed, seg) THEN n
  ELSE LET m == AckNow([n EXCEPT !.f.client_closed = TRUE,
                                 !.f.rcv_nxt = Plus(@, 1)])
       IN [m EXCEPT !.k.shut = @ \/ (n.k.open /\ n.f.connected)]

\* _maybe_finish
MaybeFinish(n) ==
  LET send == /\ n.f.remote_closed /\ n.f.from_remote = <<>>
              /\ ~ n.f.fin_sent /\ n.f.state = "established"
      m == IF send
           THEN [Emit(n, {"FIN", "ACK"}) EXCEPT !.f.snd_nxt = Plus(@, 1),
                                                !.f.fin_sent = TRUE]
           ELSE n
  IN IF /\ m.f.fin_sent /\ m.f.client_closed
        /\ ~ SerialLt(m.f.snd_una, m.f.snd_nxt)
     THEN CloseSocket([m EXCEPT !.f.state = "closed"])
     ELSE m

OnSegment(n, seg) ==
  LET f == [n.f EXCEPT !.snd_wnd = seg.wnd]
      m == [n EXCEPT !.f = IF "ACK" \in seg.flags
                           THEN ProcessAck(f, seg.num) ELSE f]
  IN CASE "RST" \in seg.flags ->
            CloseSocket([n EXCEPT !.f.state = "closed"])
       [] "RST" \notin seg.flags /\ "SYN" \in seg.flags
            /\ n.f.state = "connecting" -> n
       [] "RST" \notin seg.flags
            /\ ~ ("SYN" \in seg.flags /\ n.f.state = "connecting") ->
            LET Fin(p) == TakeFin(p, Accepted(m.f, seg), seg)
            IN Then(Then(TakePayload(m, seg), Fin), MaybeFinish)

-----------------------------------------------------------------------------
(* TcpFlow: toward the client.                                              *)

\* _check_connect: a pending connect is not writable, a resolved one is.
CheckConnect(n) ==
  CASE n.k.status = "pending" -> n
    [] n.k.status = "refused" \/ n.k.reset -> [n EXCEPT !.f.state = "failed"]
    [] n.k.status = "ok" /\ ~ n.k.reset ->
         LET m == [n EXCEPT !.f.state = "established", !.f.connected = TRUE]
         IN [Emit(m, {"SYN", "ACK"}) EXCEPT !.f.snd_nxt = Plus(@, 1)]

\* _write_to_remote: the kernel takes w bytes before it would block; after
\* shutdown(SHUT_WR) or a reset, send raises.
WriteToRemote(n, w) ==
  IF n.f.to_remote = <<>> \/ ~ n.k.open THEN n
  ELSE IF n.k.shut \/ n.k.reset
  THEN CloseSocket([n EXCEPT !.f.state = "closed"])
  ELSE [n EXCEPT !.k.got = @ \o SubSeq(n.f.to_remote, 1, w),
                 !.f.to_remote = Drop(@, w)]

Readable(n) ==
  /\ n.k.registered
  /\ n.k.rbuf # <<>> \/ n.k.eof \/ n.k.reset \/ n.k.status = "refused"

\* on_readable
OnReadable(n) ==
  LET count == Least(ReadChunk, Len(n.k.rbuf))
  IN CASE ~ n.k.open \/ n.f.state # "established" -> n
       [] n.k.open /\ n.f.state = "established" /\ n.k.reset -> Reset(n)
       [] n.k.open /\ n.f.state = "established" /\ ~ n.k.reset ->
            IF count = 0
            THEN [n EXCEPT !.f.remote_closed = TRUE, !.k.registered = FALSE]
            ELSE [n EXCEPT !.f.from_remote = @ \o SubSeq(n.k.rbuf, 1, count),
                           !.k.rbuf = Drop(@, count)]

InFlight(f) == Distance(f.snd_nxt, f.snd_una)

\* Mutation of Allowed: what is already in flight is forgotten.
AllowedWholeWindow(f) == f.snd_wnd

\* What the client's window still allows.
Allowed(f) == f.snd_wnd - InFlight(f)

\* _send_to_client: segments of at most Mss until window or data run out.
SendToClient(n) ==
  LET total == IF Allowed(n.f) <= 0 THEN 0
               ELSE Least(Len(n.f.from_remote), Allowed(n.f))
      part(i) == SubSeq(n.f.from_remote, (i - 1) * Mss + 1, Least(i * Mss, total))
      segments == [i \in 1 .. ((total + Mss - 1) \div Mss) |->
                     [flags |-> {"ACK"}, seq |-> Plus(n.f.snd_nxt, (i - 1) * Mss),
                      num |-> n.f.rcv_nxt, wnd |-> ReceiveWindow(n.f),
                      data |-> part(i)]]
  IN IF total = 0 THEN n
     ELSE [n EXCEPT !.out = @ \o segments, !.f.advertised = ReceiveWindow(n.f),
                    !.f.from_remote = Drop(@, total),
                    !.f.unacked = @ \o SubSeq(n.f.from_remote, 1, total),
                    !.f.snd_nxt = Plus(@, total), !.f.rto = TRUE]

\* Mutation of Retransmit: the segment is numbered like new data.
RetransmitAtNext(n, due) ==
  IF ~ n.f.rto \/ "rto" \notin due \/ n.f.unacked = <<>> \/ n.f.retransmits >= MaxRetransmits
  THEN n
  ELSE EmitAt([n EXCEPT !.f.retransmits = @ + 1], {"ACK"}, n.f.snd_nxt,
              SubSeq(n.f.unacked, 1, Least(Mss, Len(n.f.unacked))))

\* _retransmit
Retransmit(n, due) ==
  LET m == [n EXCEPT !.f.retransmits = @ + 1]
  IN IF ~ n.f.rto \/ "rto" \notin due THEN n
     ELSE IF n.f.unacked = <<>> THEN [n EXCEPT !.f.rto = FALSE]
     ELSE IF m.f.retransmits > MaxRetransmits THEN Reset(m)
     ELSE EmitAt(m, {"ACK"}, n.f.snd_una,
                 SubSeq(n.f.unacked, 1, Least(Mss, Len(n.f.unacked))))

\* Mutation of Reopen: a window that reopens is not announced.
ReopenSilent(n) == n

\* The socket drained and the window reopened: the client is told.
Reopen(n) ==
  IF n.f.advertised = 0 /\ ReceiveWindow(n.f) > 0 THEN Emit(n, {"ACK"}) ELSE n

DelayedAck(n, due) == IF n.f.pending_ack /\ "ack" \in due THEN AckNow(n) ELSE n

Service(n, w, due) ==
  CASE n.f.state \in {"closed", "failed"} -> n
    [] n.f.state = "connecting" -> CheckConnect(n)
    [] n.f.state = "established" ->
         LET Acknowledge(m) == DelayedAck(m, due)
             Repeat(m) == Retransmit(m, due)
         IN Then(Then(Then(Then(Then(WriteToRemote(n, w), Acknowledge), Reopen),
                           SendToClient), Repeat), MaybeFinish)

-----------------------------------------------------------------------------
(* UserNetwork.                                                             *)

NewFlow(wnd) ==
  [present |-> TRUE, state |-> "connecting", rcv_nxt |-> Plus(Irs, 1),
   snd_una |-> Iss, snd_nxt |-> Iss, snd_wnd |-> wnd,
   to_remote |-> <<>>, from_remote |-> <<>>, unacked |-> <<>>,
   client_closed |-> FALSE, remote_closed |-> FALSE, fin_sent |-> FALSE,
   pending_ack |-> FALSE, rto |-> FALSE, retransmits |-> 0,
   advertised |-> ReceiveBuffer, connected |-> FALSE]

NoFlow == [NewFlow(0) EXCEPT !.present = FALSE]

\* The socket of a new flow, which _adopt registers unless connect() failed.
NewSocket(status) ==
  [open |-> TRUE, registered |-> status # "refused", status |-> status, rbuf |-> <<>>,
   wrote |-> 0, eof |-> FALSE, reset |-> FALSE, shut |-> FALSE, got |-> <<>>]

\* _reset: a segment of no known flow; a reset is never answered.
ResetUnknown(n, seg) ==
  IF "RST" \in seg.flags THEN n
  ELSE [n EXCEPT !.out = Append(@,
         [flags |-> {"RST", "ACK"},
          seq |-> IF "ACK" \in seg.flags THEN seg.num ELSE 0,
          num |-> Plus(seg.seq, Len(seg.data)
                         + IF seg.flags \cap {"SYN", "FIN"} # {} THEN 1 ELSE 0),
          wnd |-> 0, data |-> <<>>])]

\* A SYN of no known flow: connect() fails outright, completes, or is pending.
\* The socket of a failed connect() is neither closed nor adopted: the flow is
\* deleted and the descriptor left to the interpreter.
OpenFlow(n, seg, status) ==
  LET m == [n EXCEPT !.f = NewFlow(seg.wnd), !.k = NewSocket(status)]
  IN IF status = "refused"
     THEN [Emit(m, {"RST", "ACK"}) EXCEPT !.f = NoFlow]
     ELSE Service([m EXCEPT !.f.connected = status = "ok"], 0, {})

\* _deliver_tcp: the table after a segment, whatever connect() does.
DeliverTcp(n, seg) ==
  IF n.f.present THEN {OnSegment(n, seg)}
  ELSE IF "SYN" \notin seg.flags THEN {ResetUnknown(n, seg)}
  ELSE {OpenFlow(n, seg, status) : status \in {"ok", "pending", "refused"}}

Failed(n) ==
  IF n.f.state # "failed" THEN n
  ELSE CloseSocket([Emit(n, {"RST", "ACK"}) EXCEPT !.f.state = "closed"])

\* Mutation of Reap: a flow is forgotten with its socket open.
ReapKeepsSocket(n, expired) ==
  IF n.f.state = "closed" \/ expired THEN [n EXCEPT !.f = NoFlow] ELSE n

\* _reap
Reap(n, expired) ==
  IF n.f.state = "closed" \/ expired
  THEN [CloseSocket(n) EXCEPT !.f = NoFlow] ELSE n

\* poll
PollNetwork(n, w, due, expired) ==
  LET Serve(m) == Service(m, w, due)
      Forget(m) == Reap(m, expired)
  IN Then(Then(Then(IF Readable(n) THEN OnReadable(n) ELSE n, Serve), Failed), Forget)

Init ==
  /\ net = [f |-> NoFlow, out |-> <<>>,
            k |-> [NewSocket("pending") EXCEPT !.open = FALSE,
                                               !.registered = FALSE]]
  /\ client = [state |-> "closed", nxt |-> 0, una |-> 0, wnd |-> 0, rcv |-> 0,
               room |-> ClientWindow, got |-> <<>>, fin_out |-> FALSE, pauses |-> 0]
  /\ up = <<>>
  /\ faults = [drops |-> 0, others |-> 0]

\* deliver, for a TCP segment
Deliver ==
  /\ up # <<>>
  /\ net' \in DeliverTcp(net, Head(up))
  /\ up' = Tail(up)
  /\ UNCHANGED <<client, faults>>

\* The deadlines of service: pending_ack_at and retransmit_at.
Deadlines == {"ack", "rto"}

Poll(w, due) ==
  /\ net.f.present
  /\ w \in 0 .. Len(net.f.to_remote)
  /\ net' = PollNetwork(net, w, due, FALSE)
  /\ UNCHANGED <<client, up, faults>>

Fault(kind) ==
  /\ faults.drops + faults.others < MaxFault
  /\ faults' = [faults EXCEPT ![kind] = @ + 1]

\* poll, IDLE_TIMEOUT after the last segment and the last read.
PollExpired ==
  /\ Fault("others")
  /\ net.f.present /\ up = <<>> /\ ~ Readable(net)
  /\ net' = PollNetwork(net, 0, Deadlines, TRUE)
  /\ UNCHANGED <<client, up>>

\* drop_client: the call is cleared, its flows must not outlive it.
DropClient ==
  /\ Fault("others")
  /\ net.f.present
  /\ net' = [CloseSocket(net) EXCEPT !.f = NoFlow]
  /\ client' = [client EXCEPT !.state = "done"]
  /\ up' = <<>>

-----------------------------------------------------------------------------
(* The client's TCP: it sends in order within the window it was given,      *)
(* probes a closed window, acknowledges what it receives, and discards what *)
(* it already has or cannot use yet.                                        *)

ClientSegment(c, flags, data) ==
  [flags |-> flags, data |-> data, wnd |-> c.room, num |-> c.rcv,
   seq |-> Plus(Irs, 1 + c.nxt + IF c.fin_out THEN 1 ELSE 0)]

Room == Len(up) < MaxQueue /\ Len(net.out) < MaxQueue

ClientMay == client.state = "established" /\ Room

ClientSyn ==
  /\ client.state \in {"closed", "syn-sent"} /\ Room
  /\ client' = [client EXCEPT !.state = "syn-sent"]
  /\ up' = Append(up, [ClientSegment(client, {"SYN"}, <<>>) EXCEPT !.seq = Irs])
  /\ UNCHANGED <<net, faults>>

ClientSend(size, fin) ==
  LET flags == IF fin THEN {"ACK", "FIN"} ELSE {"ACK"}
  IN /\ ClientMay /\ ~ client.fin_out
     /\ size > 0 \/ fin
     /\ client.nxt + size <= MaxUp
     /\ client.nxt + size - client.una <= client.wnd
     /\ up' = Append(up, ClientSegment(client, flags,
                            Numbered(client.nxt, client.nxt + size)))
     /\ client' = [client EXCEPT !.nxt = @ + size, !.fin_out = fin]
     /\ UNCHANGED <<net, faults>>

\* A probe of a closed window offers the next byte, and may carry the FIN.
ClientProbe(fin) ==
  /\ ClientMay /\ ~ client.fin_out
  /\ client.wnd = 0 /\ client.nxt = client.una /\ client.nxt < MaxUp
  /\ up' = Append(up, ClientSegment(client, IF fin THEN {"ACK", "FIN"} ELSE {"ACK"},
                                    Numbered(client.nxt, client.nxt + 1)))
  /\ client' = [client EXCEPT !.nxt = @ + 1, !.fin_out = fin]
  /\ UNCHANGED <<net, faults>>

\* What is unacknowledged is sent again, in one segment.
ClientRetransmit ==
  LET c == [client EXCEPT !.nxt = client.una, !.fin_out = FALSE]
  IN /\ ClientMay /\ up = <<>>
     /\ client.una < client.nxt \/ (client.fin_out /\ client.una = client.nxt)
     /\ up' = Append(up, ClientSegment(c,
                 IF client.fin_out THEN {"ACK", "FIN"} ELSE {"ACK"},
                 Numbered(client.una, client.nxt)))
     /\ UNCHANGED <<net, client, faults>>

\* The application stops reading, and reads again.
ClientStops ==
  /\ ClientMay /\ client.room > 0 /\ client.pauses < MaxPause
  /\ client' = [client EXCEPT !.room = 0, !.pauses = @ + 1]
  /\ up' = Append(up, ClientSegment(client', {"ACK"}, <<>>))
  /\ UNCHANGED <<net, faults>>

ClientReads ==
  /\ ClientMay /\ client.room = 0
  /\ client' = [client EXCEPT !.room = ClientWindow]
  /\ up' = Append(up, ClientSegment(client', {"ACK"}, <<>>))
  /\ UNCHANGED <<net, faults>>

ClientAbort ==
  /\ Fault("others")
  /\ ClientMay
  /\ up' = Append(up, ClientSegment(client, {"RST"}, <<>>))
  /\ client' = [client EXCEPT !.state = "done"]
  /\ UNCHANGED net

\* What the client makes of a segment.
ClientTake(c, seg) ==
  LET old == Distance(c.rcv, seg.seq)
      usable == old <= Len(seg.data)
      fresh == IF usable THEN Drop(seg.data, old) ELSE <<>>
      fin == usable /\ "FIN" \in seg.flags
      num == Distance(seg.num, Plus(Irs, 1))
  IN [c EXCEPT !.got = @ \o fresh, !.wnd = seg.wnd,
               !.rcv = Plus(@, Len(fresh) + IF fin THEN 1 ELSE 0),
               !.una = IF num <= c.nxt + 1 /\ num > @ THEN num ELSE @]

ClientReceive ==
  LET seg == Head(net.out)
      c == IF client.state = "established" THEN ClientTake(client, seg)
           ELSE [client EXCEPT !.state = "established", !.wnd = seg.wnd,
                               !.rcv = Plus(seg.seq, 1)]
      answer == seg.data # <<>> \/ seg.flags \cap {"SYN", "FIN"} # {}
  IN /\ net.out # <<>>
     /\ net' = [net EXCEPT !.out = Tail(@)]
     /\ \/ /\ \/ client.state = "done"
              \/ client.state = "syn-sent" /\ seg.flags \cap {"SYN", "RST"} = {}
           /\ UNCHANGED <<client, up>>
        \/ /\ client.state # "done" /\ "RST" \in seg.flags
           /\ client' = [client EXCEPT !.state = "done"]
           /\ UNCHANGED up
        \/ /\ client.state # "done" /\ "RST" \notin seg.flags
           /\ client.state = "established" \/ "SYN" \in seg.flags
           /\ client' = c
           /\ up' = IF answer THEN Append(up, ClientSegment(c, {"ACK"}, <<>>)) ELSE up
     /\ UNCHANGED faults

\* The client's own stack drops a segment.
ClientDrop ==
  /\ Fault("drops")
  /\ net.out # <<>>
  /\ net' = [net EXCEPT !.out = Tail(@)]
  /\ UNCHANGED <<client, up>>

-----------------------------------------------------------------------------
(* The remote server and the kernel.                                        *)

Remote(k) == net' = [net EXCEPT !.k = k] /\ UNCHANGED <<client, up>>

RemoteAnswers(status) ==
  /\ net.k.open /\ net.k.status = "pending"
  /\ Remote([net.k EXCEPT !.status = status])
  /\ UNCHANGED faults

RemoteAlive == net.k.open /\ net.k.status = "ok" /\ ~ net.k.eof /\ ~ net.k.reset

RemoteWrites ==
  /\ RemoteAlive /\ net.k.wrote < MaxDown
  /\ Remote([net.k EXCEPT !.wrote = @ + 1, !.rbuf = Append(@, net.k.wrote + 1)])
  /\ UNCHANGED faults

RemoteCloses ==
  /\ RemoteAlive
  /\ Remote([net.k EXCEPT !.eof = TRUE])
  /\ UNCHANGED faults

RemoteResets ==
  /\ Fault("others")
  /\ RemoteAlive
  /\ Remote([net.k EXCEPT !.reset = TRUE, !.rbuf = <<>>])

Next ==
  \/ Deliver \/ PollExpired \/ DropClient
  \/ \E w \in 0 .. ReceiveBuffer, due \in SUBSET Deadlines : Poll(w, due)
  \/ ClientSyn \/ ClientRetransmit \/ ClientStops \/ ClientReads \/ ClientAbort \/ ClientReceive \/ ClientDrop
  \/ \E size \in 0 .. Mss, fin \in BOOLEAN : ClientSend(size, fin)
  \/ \E fin \in BOOLEAN : ClientProbe(fin)
  \/ \E status \in {"ok", "refused"} : RemoteAnswers(status)
  \/ RemoteWrites \/ RemoteCloses \/ RemoteResets

Spec == Init /\ [][Next]_vars

\* PppPeer delivers what arrives and polls on every media tick, and deadlines
\* pass; the client's stack keeps reading and retransmitting, its application
\* reads again, and the remote accepts what is written to it.
Fairness ==
  /\ WF_vars(Deliver) /\ WF_vars(Poll(Len(net.f.to_remote), Deadlines))
  /\ WF_vars(ClientReceive) /\ WF_vars(ClientRetransmit) /\ WF_vars(ClientReads)

FairSpec == Spec /\ Fairness

-----------------------------------------------------------------------------
(* Properties.                                                              *)

FlowType ==
  [present : BOOLEAN, state : {"connecting", "established", "closed", "failed"},
   rcv_nxt : SeqNo, snd_una : SeqNo, snd_nxt : SeqNo, snd_wnd : Nat,
   to_remote : Bytes, from_remote : Bytes, unacked : Bytes,
   client_closed : BOOLEAN, remote_closed : BOOLEAN, fin_sent : BOOLEAN,
   pending_ack : BOOLEAN, rto : BOOLEAN, retransmits : Nat,
   advertised : Nat, connected : BOOLEAN]

SocketType ==
  [open : BOOLEAN, registered : BOOLEAN, status : {"ok", "pending", "refused"},
   rbuf : Bytes, wrote : Nat, eof : BOOLEAN, reset : BOOLEAN, shut : BOOLEAN,
   got : Bytes]

\* Every attribute keeps its type and every sequence number its 32 bits.
TypeOK ==
  /\ net \in [f : FlowType, k : SocketType, out : Seq(Segment)]
  /\ up \in Seq(Segment)
  /\ faults \in [drops : Nat, others : Nat]

\* What this end has acknowledged to the client is what it has written to the
\* remote or still holds, each byte once and in order, within the buffer it
\* advertises; and it takes the FIN only after every byte before it.
UpstreamExact ==
  net.f.present =>
    LET taken == net.k.got \o net.f.to_remote
    IN /\ taken = Numbered(0, Len(taken))
       /\ Distance(net.f.rcv_nxt, Plus(Irs, 1))
            = Len(taken) + IF net.f.client_closed THEN 1 ELSE 0
       /\ Len(net.f.to_remote) <= ReceiveBuffer
       /\ net.f.client_closed => Len(taken) = client.nxt

\* The client reads the remote's bytes in order and none twice: as long as its
\* stack drops nothing, retransmissions, however early or late, do not disturb
\* what it reads.
DownstreamUndisturbed ==
  faults.drops = 0 => client.got = Numbered(0, Len(client.got))

\* New data stays within the window the client last advertised.
WithinWindow ==
  [][Len(net'.f.unacked) > Len(net.f.unacked)
       => InFlight(net'.f) <= net'.f.snd_wnd + IF net'.f.fin_sent THEN 1 ELSE 0]_vars

\* A host socket is open only while a flow owns it: however an adopted flow
\* ends (closed, reset, failed, idle, its call cleared), its descriptor does not
\* outlive it. The one exception is a connect() that failed outright: that
\* socket no code path closes, but nothing watches it either.
SocketOwned ==
  net.k.open /\ ~ net.f.present
    => net.k.status = "refused" /\ ~ net.k.registered

\* A flow both ends have closed is not kept: it finishes and is reaped.
FlowEnds ==
  (net.f.present /\ net.f.client_closed /\ net.k.eof)
    ~> (~ net.f.present \/ faults.drops > 0)

\* A client that stopped at a closed window is told when it reopens.
WindowReopens ==
  (client.state = "established" /\ client.wnd = 0)
    ~> (client.state # "established" \/ client.wnd > 0 \/ ~ net.f.present
          \/ faults.drops > 0)
=============================================================================

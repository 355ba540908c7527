# A TLA+ development for modem-dsp-emu

The repository emulates dial-up modem hardware: DSP firmware runs in an
emulator, a call reaches it over SIP/RTP or an analog line model, and above the
data pump the host provides V.42 error correction, V.42bis/V.44 compression,
PPP, a user-space IP stack and terminal bridges. The program's own code is in
`src/tools/`; `src/docs/` and firmware images are vendored material.

This directory models the protocol engines of that stack, the threaded V.90
bridge and the sequencer of the DSP emulator. They are the parts where
correctness depends on orders of events no test writes down: two ends that lose,
delay and repeat each other's frames, timers that race answers, links torn down
and brought back under the layers above them, a thread whose answer comes after
the question has lapsed, and an interrupt between two instructions that share a
flag.

## Inventory

| Component | State it keeps | Operations | Hard behaviour |
|---|---|---|---|
| LAPM data link, `v42_lapm.py` (`LapmEndpoint`) | sequence variables V(S), V(A), V(R), the dictionary `unacked`, transmit queue, timers counted in `take()` calls, negotiated N401/k/codec, `failed`, `generation` | `send`, `take` (timers and window), `feed` (every frame type), `line_disturbed`, `line_restored` | loss, go-back-N across modulus wrap, SABME retries crossing UA, one-sided XID, retrains |
| V.42 detection, same file | ODP/ADP patterns, T400, raw fallback | `feed`, `take` in the detection phase | the two ends leave detection at different times |
| PPP, `ppp.py` (`PppPeer`, `ControlProtocol`, `Lcp`, `Ipcp`, `PapServer`, `ChapServer`, `AuthClient`, `HdlcFramer`) | two automata, authenticator, staged and active framing, keepalive counter | `start`, `feed`, `tick`, `stop` | layers going down in the middle of each other, stale answers, framing changed at different times at the two ends |
| Address pool, `ppp.py` (`AddressPool`) | set of leases, next candidate | `allocate`, `preview`, `reserve`, `release` | exhaustion, double release |
| User-space IP, `usernet.py` (`UserNetwork`, `TcpFlow`, `UdpFlow`, `IcmpFlow`) | one flow per 4-tuple, sequence numbers, unacked bytes, host socket state | `deliver`, `poll` | host socket events against the guest's segments, half close, limits |
| Host bridge, `tun.py` | tun device, routes, leases | set-up and tear-down | partial failure of set-up |
| PTY bridge, `v42_pty.py` (`PtyLink`) | bytes held while the window is full | `pump` | re-established link under a half-written line |
| Codecs, `v42bis.py`, `v44.py` | dictionaries of both directions | `encode`, `decode`, `flush` | both ends must mutate their dictionaries in step |
| IDI call control, `eicon_idi.py` (`IdiCallControl`) | call state, queued indications | requests and indications | indication and request crossing |
| AT interpreters, `eicon_at.py`, `cx_at.py` | command/online mode, registers, escape timer | characters from the terminal, events from the call | guard times, result codes racing commands |
| SIP endpoint, `eicon_adsp_sip.py` (`EiconSipEndpoint`, `Call`) | dialogs, RTP clock, transmit thread, PPP/PTY bridges | `on_sip`, `on_rtp`, `media_tick`, `dial`, `hangup_call`, `end_call` | transmit thread against media tick, retrains, hang-up in any state |
| Mailbox and frame adapters, `v34_mailbox.py`, `v90_engine_frame_adapter.py` | words handed between host and DSP | read and write of a slot | overwriting an unread word |
| Digital V.90 bridge, `v90_digital_phase3_event_bridge.c` | sample history, reported segments, upstream receiver, job and result slot of the CP search, a worker thread | one frame of the media loop, search job and answer, reset, shutdown | an answer of an earlier call, replay of history into a live receiver, a snapshot with two owners, joining a thread that waits |
| DSP emulator, `adsp2181emu/` | register banks, flags, four stacks, loop and counter registers, interrupt latch and mask, memories | one instruction, interrupts, `adsp2181_call`, `adsp2181_modem_sample`, reset, IDMA | interrupts and injected code between instructions that pass flags, tasks that never return |
| Firmware harnesses, probes and extractors | — | offline | — |

Interaction: `EiconSipEndpoint.media_tick` owns the clock. Every tick it feeds
received bits to the call's `LapmEndpoint`, takes bits to send, pumps one of
`PtyLink` and `LapmPppLink`, and checks for a failed link. `LapmPppLink` moves
bytes between `LapmEndpoint` and `PppPeer`; `PppPeer` hands datagrams to
`UserNetwork` or `TunBridge`. There is one thread beside it, the transmit clock.
The V.90 bridge is a process of its own that exchanges one PCMU frame at a time
with its parent over pipes; its search thread shares one mutex with its media
loop. The emulator is a library: a driver calls tasks of the firmware in it and
clocks it sample by sample.

What makes each correct: the data link hands up what was sent, once and in
order, and what it acknowledges has been handed up; PPP carries IP only inside
an open, authenticated link on terms both ends know; a TCP flow neither loses
nor invents bytes between guest and host; the
V.90 receiver is handed over exactly at E, whenever the search recognises the CP
that announces it; the core's arithmetic is what it would be without the
interrupts taken in the middle of it; a codec's output decodes to its input; a
call, however it ends, releases what it holds.

## Modules

| Module | Models |
|---|---|
| `Lapm` | `LapmEndpoint` from the protocol phase on, originator and answerer |
| `LapmProofs` | its type invariant, the exactness of the transmit window and the cost of a hold, proved |
| `LapmOrderProofs` | that what it hands up was sent, in order and once, proved |
| `MCLapm` and `MCLapm_*.cfg` | its instances |
| `Ppp` | `PppPeer`, server and caller, with `LapmPppLink` below |
| `PppProofs` | its types and the order of its layers, proved |
| `MCPpp` and `MCPpp_*.cfg` | its instances |
| `Usernet` and `MCUsernet_*.cfg` | one `TcpFlow` in the table of a `UserNetwork`, between a client's TCP and a host socket; its constants are numbers, so the configurations instantiate it directly |
| `UsernetProofs` | its types, the ownership of the socket, flow control and the exactness of the upstream bytes, proved |
| `V90Bridge` | the media loop of the digital V.90 bridge and its CP search thread |
| `CpSearch` | what the search promises the media loop; `V90Bridge` implements it |
| `V90BridgeProofs` | that refinement and the ownership of snapshots, proved |
| `V90HandoverProofs` | the handover to data at E, live or replayed, proved |
| `V90SegmentProofs` | the scan for training segments, and the types, proved |
| `MCV90Bridge` and `MCV90Bridge_*.cfg` | its instances |
| `Adsp` | the ADSP-2181 core's sequencer, flag-carrying instructions and host entry points |
| `AdspProofs` | interrupts, loops and masks for every firmware, proved |
| `MCAdsp` and `MCAdsp_*.cfg` | a firmware for it, and the results that firmware must compute |

### Lapm

An endpoint is a record whose fields are the attributes of the Python object,
and each method is an operator from such a record to the record it leaves
behind: `Ack`, `RetransmitFrom`, `FillWindow`, `Establish`, `LinkFailure`,
`HandleXid`, `HandleI`, `HandleS`, `Handle`, `Service`. The entry points are
the actions: `Send` (`send`), `Take` (`take`, with `_service` and
`_fill_window`), `Feed` (`feed` of one frame), `LineDisturbed`, `LineRestored`.
`TakeTogether` is one `take` of each end. `Lose` is the line and `ForeignBusy` a
peer that sends RNR, which this implementation never does itself.

Abstractions: HDLC framing is its effect (a frame arrives whole or not at all,
in order); octets are numbered in the order of `send`, so that duplication and
reordering are visible; the P/F bit of SABME, DISC and UA decides nothing and is
left out. A dictionary coder is modelled by what its dictionary was built from:
the octets a compressor has taken since it was reset are a run of the stream that
begins at `tx_base`, and `rx_dict` is what the decompressor has put out since its
own reset. `Tuned` says that the two are the same history, and `Decode` yields
`Garbage` where they are not, or where only one end has a codec, the worst that
can happen; the code may also notice and disconnect (C-ERROR), which is the choice
`cerror` of `HandleI`. An octet stays one octet when it is compressed. `faults` and the `Max...` constants bound the environment only;
`MaxQueue` keeps `take` from being called while that many frames are unread.

`PromptLine` chooses between two clocks. TRUE: no timer expires while a frame is
under way, as on a line slower than neither end's T401. FALSE: `take` may run any
number of times before the peer reads, which the harness can do since timers
count calls of `take` and not time.

### Ppp

A peer is a record with its two automata as fields `lcp` and `ipcp`; the
operators take the field's name as the methods of `ControlProtocol` take `self`.
`Feed` is one frame through `HdlcFramer.next_frame`, `_dispatch` and whatever the
handler sends; `ControlTick`, `AuthTick` and `EchoTick` are the parts of `tick`
that one deadline guards; `Start` and `Stop` are `start` and `stop`;
`LinkReset` is `LapmPppLink.pump` finding a new `generation`; `Lose` is a data
link without error correction.

Abstractions: a configuration option is a pair of a type and a value; MRU, ACCM,
PFC and ACFC, always asked for and always granted, are one option "framing"; DNS
goes with the address. The magic number, Code-Reject and malformed packets do
not occur between two such peers. A frame is `lean` when it was encoded under a
negotiated ACCM, and `Legible` says what a receiver does with it. `Refuses`
stands for callers that Reject CHAP or both protocols, for which the code has
its fallback; a `PppPeer` as caller refuses nothing.

### Usernet

`net` is the process: `net.f` the `TcpFlow`, `net.out` what it has emitted and
the client has not read, `net.k` the kernel's side of the host socket. A method
is an operator from `net` to `net`, and `Then` composes the calls of a method in
their order. The entry points are `Deliver` (`deliver` of a segment), `Poll`
(`poll`: selector, `on_readable`, `service`, `_reap`), `PollExpired` (`poll`
after IDLE_TIMEOUT) and `DropClient` (`drop_client`). The client's TCP
(`Client...`) and the remote server (`Remote...`) are external: a client that
keeps to the window it was given, probes a closed one, retransmits, pauses,
half closes or aborts, and a server that accepts or refuses, writes, closes or
resets.

Abstractions: bytes are numbered in the order they were written; PSH and the
header codecs are left out; the two deadlines of `service` are due or not as the
parameter of `Poll` says, so a retransmission may be arbitrarily early; the
kernel accepts any part of a write. A connection that `connect` refuses at once is
dropped from the table without `close_socket`, as in the code (813-816): its
socket stays open, unregistered, until the interpreter collects it, and
`SocketOwned` allows for that one. The table has one flow; UDP and ICMP
mappings are not modelled.

### V90Bridge and CpSearch

`m` holds the locals of `main()`, `rx` the `upstream_*` fields of the call, and
the `live_*` variables are the fields of the same names, guarded in the code by
one mutex. A pass of the media loop is cut where the mutex is released:
`StartFrame` (a frame has been read), `Media` (record it, take a search result,
apply it, feed the receiver), `Control` (scan for segments, offer them, put the
next search question); `Reset`, `InputEnds` and `Join` are `bridge_live_cp_stop`
and what follows it. `WorkerTake`, `WorkerPublish` and `WorkerExit` are the
critical sections of `bridge_live_cp_worker`; the search itself runs between the
first two with the mutex released. `FirstDataCp` is the application of the first data-mode
CP with its replay of the history into the receiver, `AcknowledgedCp` that of the
later CP'.

`CpSearch` is the abstract specification: one question at a time, put for the
kind of CP wanted at that moment and answered for that kind. The refinement
mapping `Search` reads its single slot off the three flags `live_job`,
`live_worker_running` and `live_result_ready`. Taking an answer and putting the
next question are two of its steps, and never one of `V90Bridge`'s.

Abstractions: time and position count frames, and the line carries one signal a
frame. The modem library the bridge is linked with is not in the repository. It
and the analogue modem at the far end are external: the receiver may or may not
recognise a CP in a frame that carries one, the search may find any frame of the
kind asked for that its snapshot holds, or none, and the peer stays with a
signal as long as it likes. `v34_begin_rx_data` always succeeds (the code checks
its result at 230 and 942), and the receiver passes a CP or CP' to
`bridge_cp_frame`, never a CPt, which would count only with the live search
switched off (291-299). Payload bits, transmit codewords and diagnostics are left out.

### Adsp

`c` is `adsp2100_state`, with the stacks as sequences; `Step` is one turn of the
loop of `execute()`: fetch, advance or wrap the DO loop, execute, and let the
instruction's own writes take interrupts (`check_irqs` after RTI, POP STS, IMASK,
ICNTL, IFC and ENA INTS). The stack, interrupt and ALU operators bear the names of the C
functions and macros. `HostCall` is `adsp2181_call`, `SetIrq` is
`adsp2181_set_irq`, `Reset` is `adsp2181_reset`; `adsp2181_modem_sample` is
`ModemSample` (the SPORT0 edge), the steps of the frame (phase `frame`, or `masked`
when an idling core runs on past its IDLE because SPORT0 is masked), and then
`FrameContinues` (the core idles and the continuation is called), `FrameEnds`
(it does not, and is left alone) or `Inject` ... `InjectEnds` (the continuation
runs on top of the unfinished frame between saving and restoring the core).
SSTAT's bits, the value left in the bottom slot of an emptied PC stack and the
dropping of a push on a full stack are modelled.

`HostCall` needs no idling core, as `adsp2181_call` needs none. A call on top of a
run that ended on its budget discards nothing and stacks its entry on the remains;
`truncated` counts these calls as the driver's `truncated_frames` does, and
`MaxFaults` bounds them and resets together.

Abstractions: a word has W bits; program memory holds decoded instructions; the
cycle allowance is left out, so the host may stop the core after any
instruction; the sample clock starts once the firmware has written IMASK (the
guard `booted`, which the code leaves to its driver). `Exec` has the instruction
forms listed in `Opcodes`. Not modelled: indirect jumps and jumps on a flag pin,
MAC, shifter, address generators, AR saturation and sticky overflow (two MSTAT bits
the model does not have), the 32 slots of a frame under `EICON_SPORT_FULL_TDM`
(2155-2178), `adsp2181_set_imask` (which changes the mask from outside without
`check_irqs`), IDMA, the cycle counter and the instrumentation. `MCAdsp`'s
firmware is ours, in the forms the code's comments describe: a kernel in IDLE, a
countdown that ends on IF AC, tasks that yield by jumping to the kernel, a sample
interrupt on the second register bank.

## Runs

Passing runs:

| Run | Shows |
|---|---|
| `lapm_safe` | both ends send; a lost frame, a retrain, a busy peer and a re-establishment at any point: `WindowExact`, `NoDuplicateNoReorder`, `AckIsTruthful`, `HoldSpendsNothing` |
| `lapm_early` | `NoDuplicateNoReorder` with timers that expire while frames are under way, and T403 |
| `lapm_live` | ends configured differently, compression, a lost frame, a busy peer, a re-establishment: `EstablishmentEnds`, `NothingStuck`, `DictionariesAgree`; an idle link is `NegotiatedAlike` |
| `ppp_safe` | a lost frame, a re-established link, `stop` at any point, premature timers and identifiers modulo 4: `UpMeansAuthenticated`, `NoAddressBeforeAuth`, `TermsAgreed` |
| `ppp_up` | CHAP refused, PAP instead, on a line that loses nothing: `ComesUp` |
| `usernet_safe` | one fault of any kind at any point: `UpstreamExact`, `DownstreamUndisturbed`, `WithinWindow`, `SocketOwned` |
| `usernet_live` | `WindowReopens`, `FlowEnds` with a client that pauses and a socket that blocks |
| `v90_bridge` | a search answered early, late, without a result or never, a peer of any speed, a reset at any frame: `SnapshotsOwned`, `NoneFromOldCall`, `HandoverAtE`, `NoMissedHandover`, `EveryFrameOnce`, `OneAdvancePerSegment`, `TrainingCompletes`, `WorkerJoined`, and `ImplementsSearch` |
| `adsp` | interrupts, nested interrupts and injected continuations at any instruction of a division, a double-word sum and a countdown, and a reset or a run cut off at any instruction with later calls on top of its remains: `QuotientExact`, `SumExact`, `CountdownExact`, `LoopIsOnStack`, `StacksUnwind`, `MaskComesBack`, `NoneOverlooked` |

Runs that exhibit a disagreement between the code and what a comment, docstring
or test says (the `findings` of `PROJECT.json` quote both):

| Run | What happens |
|---|---|
| `lapm_acked` | a SABME retry crosses the UA; one end re-establishes alone and data is acknowledged that was never handed up |
| `v90_delayed` | with an upstream delay, the history the receiver reads stops growing when the call connects, and the receiver hears silence from then on |
| `adsp_discard` | a task that yields from inside a DO loop is unwound by the next call, but the loop's end address and condition stay in the sequencer |

The hazards of `PROJECT.json` name the property that covers each. Some carry a
note instead, or beside it, on behaviour the model shows that no promise of the
repository contradicts: a lost XID response leaves one end compressing and the
other handing the result up; a SABME retry that crosses the UA resets the
dictionaries of one end only (`DictionariesAgree` fails in the instance of
`lapm_acked` with compression at both ends), so that the other's fields become noise
or a C-ERROR; a CHAP Success lost with the old data link leaves
both PPP peers waiting without a timer; a client's FIN shuts the write side of a
blocked socket with acknowledged bytes unwritten; the acknowledgement of the SYN
removes a data byte from the retransmission buffer; FRMR is answered with FRMR
by two failed ends; a download is buffered without bound while the client's
window is closed; a SYN-ACK or FIN is never sent again.

Bounds. Modulus 3 with a window of 2 is the largest window the modulus allows,
so a sequence number is reused as soon as it can be, and three octets wrap it.
With N400 = 1 one lost frame and premature or held timers reach
re-establishment in every Lapm run. In Ppp two restarts separate a retry from
giving up, and identifiers modulo 4 come back within the requests one
negotiation sends. In Usernet both initial sequence numbers lie just below the
wrap of a space of 16, a buffer of one byte closes the window with the first
segment, and two bytes each way give a retransmission something to confuse; the
client's application pauses in `usernet_live` only.

In V90Bridge nine frames let the peer pass through all six signals with frames
to spare, so that the search's answer can come before E, in its frame and after
it; the search tail of two frames is shorter than the history, three attempts
leave one after a failure and a success, and the reset may find the thread
waiting, searching or with its answer unread. `MCHeard` puts a J before the arm sample
and an S before the J it must wait for. In Adsp words of 3 bits make a division
of two DIVQs, the three operand sets cover a negative dividend, a carry into an
upper word of all ones and a low word of zero; each driver calls one task, as often
as it likes. The PC stack of 10 (16 in the core) takes the deepest nesting of this
firmware on top of one truncated run, and overflows as soon as more is left on it, by
returns that tasks abandon or by further truncated runs. That several truncated runs
corrupt the core is what the driver's comment says of it (`dial_tikrnl_drive.py:535-540`,
"gone in three frames"), and why `MaxFaults` is 1 here.

Fairness. `Take` and `Feed` (Lapm), `Start`, `Feed` and the deadline ticks
(Ppp), `Deliver` and `Poll` with its deadlines passed (Usernet) are weakly fair:
`media_tick` calls all of them on every tick of a live call. Of Usernet's
environment only this is assumed: the client reads what it is sent, retransmits
and resumes reading. Sending, closing, faults, `Stop` and the keepalive are not
fair. In V90Bridge the worker thread is weakly fair (the scheduler runs it, the
mutex is held for a few assignments, a search ends) and so is `Join`
(`pthread_join` returns when the thread has ended); the parent's frames and the
peer are not. Adsp states no liveness: nothing keeps a level-sensitive line or
the host from stopping a task for ever.

Deadlock is checked in the Lapm and Adsp runs and in `ppp_up`: an idling core can
always be called again. In `ppp_safe` both ends may rightly end closed, in
Usernet a flow that has ended leaves nothing to do, and in V90Bridge the input
ends.

## Proofs

`LapmProofs` proves for every modulus, window, N401, timer setting and bound:

- `TypeCorrect`: `Spec => []TypeOK`;
- `WindowExactTheorem`: `Spec => []WindowExact`: `unacked` holds exactly the
  frames from V(A) up to V(S), and never more than k;
- `HoldIsFree`: `Spec => HoldSpendsNothing`, an action property.

Assumptions: the named ASSUMEs of `Lapm` (the two ends are distinct, the window
is below the modulus, timers are ordered as `__init__` orders them); TLC
evaluates them in every run.

The argument: WindowExact is not inductive by itself, since a go-back-N rewinds
V(S) over frames it keeps and `_ack` advances V(A) by a modular comparison.
`IInv` adds types and `EndpointOK`: held frames are those from V(A) up to V(S),
each carrying a field, and neither the current k nor what is outstanding exceeds
the constructor's k (XID may only lower it). The lemmas `AddValue`, `SubValue`,
`SubAdd`, `AddSub` and `AckArithmetic` turn `& 0x7F` into case distinctions that
linear arithmetic decides; one lemma per method (`AckOK`, `RetransmitOK`,
`FillWindowOK`, `HandleIOK`, ...) shows that the method keeps an endpoint in
order, and `NextOK` has one step per action. `HoldIsFree` needs beside it that
the budget of re-establishments never exceeds the constructor's
(`BudgetBounded`), since a UA or SABME that arrives during the hold refills it.

`LapmOrderProofs` proves for the same constants, with timers that wait for the
line (`PromptLine`) or do not:

- `InOrderOnce`: `Spec => []NoDuplicateNoReorder` if one end is configured without
  compression, as in `lapm_safe` and `lapm_early`.

The hypothesis is needed: with two compressors a lost XID response leaves one end
compressing and the other not, a one-sided re-establishment leaves them with
different dictionaries, and what is handed up then is noise. With prompt timers the
dictionaries agree, which `lapm_live` checks and no theorem claims. The invariant is
`OInv == IInv /\ Ordered(ep)`, one `Sender` for each direction. It relates what an
end has still to send, the frames it holds, the frames under way, what the other
end has handed up and its V(R). `StreamOrder` and `HeldOrder` say that the first two
are in the order of `send`, what is held before what is not yet framed.
`TxOrder` compares two frames under way: either every octet of the first comes
before every octet of the second, or the second repeats a part of the window, and then its number lies less than
k behind; since k is below the modulus, a repeated frame is never taken for the
next one. `RxOrder` says the same of a frame under way and what was handed up. SABME
and UA are markers: a sender starts again from zero only behind one of them, and
nothing behind a marker repeats what is before it, so the comparison of numbers is
made only between frames with no marker in between. That is why order survives a
re-establishment, by one end or by both, although truthful acknowledgement does
not. Each method is shown to leave a direction alone (`Quiet`), or to hand up what
its receiver expected (`Hears`), or to send on in order.

`V90BridgeProofs` proves for every delay, search length, retry setting, list of
segments and bound:

- `SnapshotsSafe`: `Spec => []SnapshotsOwned`;
- `OldCallForgotten`: `Spec => []NoneFromOldCall`;
- `BridgeRefines`: `Spec => ImplementsSearch`, that is `Search!Spec`;
- `AnswerStillWanted`: `Spec => []Search!AskedForWanted`: the question under way
  is the one the media loop would put now, so the code may drop the question's
  kind when it reads the answer.

Assumption: `V90BridgeAssumption`, the types of the constants. The invariant
`IInv` is `Shapes /\ OneQuestion /\ SlotsMatch /\ StoppedOnlyToJoin /\
SnapshotsOwned /\ NoneFromOldCall`. Ownership alone is not inductive: that a
taken job empties the slot, that a new job finds it empty and that a join frees
what is left needs `SlotsMatch` (the flags agree with the pointers and with
where the worker is), and `OneQuestion` (at most one of job, search and answer
exists) needs `StoppedOnlyToJoin` (the stop flag is set only while the media
loop waits for the thread), since the worker drops its question only then. That
the application of a CP only ever turns `cp_accepted` on, through any replay, is
a lemma of its own (`ApplyResultAdvances`). There is one lemma per action
(`WorkerTakeInv` to `ControlInv`), and `WorkerMaps` and `LoopMaps` name the
abstract step each action is.

`V90HandoverProofs` proves, for the same constants:

- `DataBeginsAtE`: `Spec => []HandoverAtE`;
- `HandoverNotMissed`: `Spec => []NoMissedHandover`;
- `FramesHeardOnce`: `Spec => []EveryFrameOnce`.

The three properties are stated for a bridge without upstream delay whose history
has room, and so is the part `Receiver` of the invariant
`HInv == IInv /\ Line /\ Copies /\ Receiver`; `v90_delayed` shows what a delay does.
`Line`: the history is a prefix of what the line carried, with E and the data
behind it where the peer put them. `Copies`: a snapshot, in the job slot or with the
worker, is a piece of that history, so a result names a frame in it, and one before
E. `Receiver`: the receiver has heard the line up to the present frame, and its flags
say where that is with respect to E (`InStep`). A replay starts behind the CP
recognised, with E still ahead, which is why forgetting `e_complete` is enough. `Replay` is a recursive function; that it exists and that
every frame of it keeps `InStep` is argued by a least counterexample, from the
library's well-foundedness of the naturals, since the rule of induction itself
takes an operator.

`V90SegmentProofs` proves, for every delay and history:

- `SegmentsCountOnce`: `Spec => []OneAdvancePerSegment`;
- `TypeCorrect`: `Spec => []TypeOK`.

The invariant `GInv` adds to `HInv` that as many reported segments are marked
accepted as the transmitter has left phases behind (`Training`, with `Scanned`).
`bridge_events` keeps this segment by segment (`OfferScanned`): it marks an entry
exactly when it moves the transmitter on, and it offers none that is marked. That
no CP, live, searched or replayed, moves a phase is a lemma for each operator on the
way (`HearTx` to `FeedFrameTx`).

`PppProofs` proves for every choice of required and refused authentication,
restart counts, queue bounds and modulus of the identifiers:

- `TypeCorrect`: `Spec => []TypeOK`;
- `ServerAuthenticates`: `Spec => []NoAddressBeforeAuth`;
- `UpIsNested`: `Spec => []UpMeansNested`: an interface that is up has IPCP and
  LCP open below it at either end, and an authenticated caller at the server.

Assumptions: the named ASSUMEs of `Ppp`. The invariant `PeersInOrder` adds to the types what the layers owe
each other: `up` needs IPCP open, an IPCP that is not closed needs LCP open,
`authenticated` needs LCP open, and at the server IPCP needs `authenticated`,
which holds from the moment LCP opens if no authentication is required. None of
these is inductive alone: each callback of one layer (`on_lcp_up`,
`on_lcp_down`, `on_ipcp_down`) is where another one is established or given up.
There is one lemma per method, first for the automaton of either layer and then
for the peer around it.

The client's half of `UpMeansAuthenticated` (a client that is up was accepted by
its server) is not a theorem of these constants. With a single identifier TLC
finds a violation: an acknowledgement of an earlier request passes for the
answer to the present one. With two or four it finds none. What excludes it in the
code is that 256 identifiers outlast the frames under way, so the property stays
model-checked, and so does `TermsAgreed`.

`UsernetProofs` proves for every buffer, segment size, window, initial sequence
number and number space:

- `TypeCorrect`: `Spec => []TypeOK`;
- `SocketsOwned`: `Spec => []SocketOwned`;
- `WindowRespected`: `Spec => WithinWindow`, an action property;
- `UpstreamAlwaysExact`: `Spec => []UpstreamExact` if `MaxUp + 1 < SeqMod`.

Assumptions: the named ASSUMEs of `Usernet`. The hypothesis of the last theorem
says that the stream is shorter than the number space: in a longer one numbers
come round, and which byte a number means would rest on the age of segments,
which the model does not bound. Numbers wrap all the same, since the initial one
is arbitrary. The invariant `UpInv` says that what was taken from the client is
bytes 1, 2, ... of its stream, that `rcv_nxt` is the position behind them (and
behind the FIN once it is taken), that the client has sent at least that much,
and that every segment under way, new or repeated, carries bytes under their
own numbers and a FIN only behind the last. The type invariant is inductive only
together with the client's types and with `SocketOwned`. Each method of
`TcpFlow` has a lemma that says what it leaves alone (`Plain`), or that it passes
bytes on and loses none (`Kept`), or that it stays within the window (`Within`),
and an action composes them in the order of its calls.

`AdspProofs` proves for every program of the modelled instruction forms, with calls
on top of truncated runs without bound, every priority
assignment, every set of level-sensitive interrupts, stack depth and word size:

- `NoneLeftWaiting`: `Spec /\ []InProgram => []NoneOverlooked`;
- `LoopsUnwind`: `Spec /\ []InProgram /\ []YieldsOutsideLoops =>
  []LoopIsOnStack`;
- `MaskUnwinds`: if every write of IMASK writes the full mask,
  `Spec /\ []InProgram /\ []YieldsOutsideRoutines /\
  []ContinuationUninterrupted /\ []BootsUnstacked => []MaskComesBack`.

Assumptions: `AdspAssumption`, and `ProgramAssumption`, that program memory holds
decoded instructions. The other hypotheses are about the firmware, which is a
constant here and not in the repository: the program counter stays within the
program (a conjunct of `TypeOK`), and a task leaves its loops and its interrupt
routines before it yields and does not touch the status stack before it has written
its mask (`StacksUnwind`, the last while no run is truncated, with `ASSUME OneMaskWritten` in
`MCAdsp`). TLC checks them of `MCAdsp`'s firmware; `adsp_discard` is a firmware
that breaks `YieldsOutsideLoops`, and there `LoopIsOnStack` fails. The argument:
`check_irqs(c) = c` is not what a step preserves, that nothing is ready
(`Quiet`) is. It survives because each operation that can make an interrupt ready
ends in `check_irqs`, and because taking the most urgent one leaves enabled only
what is more urgent still and therefore not requested; that there is a most
urgent one is the least-element lemma `Least`, from the library's
well-foundedness of the naturals. A consequence is that the check at the start
of each run of `execute()` never finds anything to do. For the mask, the invariant is
about the bottom of the status stack, so it survives pushes that a full stack
drops. Most operations touch none of this (`Calm`), and `ExecSteps` has one step per
instruction.

Each inductive invariant was checked with TLC on its component's safety instance
before it was proved, and `UpInv` also with two queued segments of two bytes.

Only model-checked:

- liveness: `EstablishmentEnds`, `NothingStuck`, `ComesUp`, `WindowReopens`,
  `FlowEnds` and `WorkerJoined` are out of TLAPS's reach;
- in Lapm `AckIsTruthful`: it is false when a timer may expire with a frame under
  way (`lapm_acked`), and with prompt timers it depends on which of the two
  establishments each frame under way belongs to, which `OInv` does not say;
  `NegotiatedAlike` depends on the bounded faults of its run, and
  `DictionariesAgree` on prompt timers, like `AckIsTruthful`;
- in Ppp the two properties above, which depend on how soon an identifier is
  used again;
- in Usernet `DownstreamUndisturbed`: every flow on a port starts from the same
  initial sequence number, so what an old acknowledgement means depends on how many
  frames are under way;
- in V90Bridge `TrainingCompletes`: it is about the segments of its instance;
- in Adsp `TypeOK`, `StacksUnwind` and the three results (`QuotientExact`,
  `SumExact`, `CountdownExact`): they are about a particular firmware and powers
  of two.

## Not modelled

See the components of `PROJECT.json` with status `not_modelled`. Signal
processing (`analog_line.py`, the multiplier and shifter of the DSP) has no small
instance whose result carries over; firmware harnesses execute code that is not
in the repository; probes and extractors only read files. Most of the C in the
repository is other projects' material kept for reference: `src/docs/` holds
the divas4linux drivers and ITU-T G.191's reference sources, which nothing in
`src/tools/` is built from. They are not part of this program and are not
modelled, so the modelled code is a small share of the repository's lines.

## Plan

1. Lapm and its proofs, Ppp, Usernet's TCP (here).
2. The digital V.90 bridge with its abstract search and the refinement proof; the
   ADSP-2181 sequencer (here).
3. The call: IDI call control, AT interpreter, PTY bridge; then the SIP
   endpoint's call lifecycle with its transmit thread, composed with the bridges.
   What that model has to decide (`eicon_adsp_sip.py`): which teardown stops the
   wire clock and tells the far end (`fail_call` does neither, `end_call` after
   ATH sends no BYE on an answered call), what a BYE or a response of an earlier
   call does to the present one (`on_sip` compares no Call-ID there), and a call
   that is dialled while another rings.
   V.42 detection and the raw fallback in front of Lapm; `AddressPool`; UDP and
   ICMP mappings with several clients.
4. Abstract specifications: a reliable stream that Lapm implements while no
   re-establishment happens, and the byte stream `TcpFlow` promises; the link-up/link-down contract of `PppPeer`.
5. Algorithms: V.42bis dictionary maintenance, HDLC bit stuffing and the
   checksums against reference definitions over bounded inputs; mailbox slots.
6. Proofs: the order of delivery of Lapm, the handover and the scan of V90Bridge
   (here); truthful acknowledgement of Lapm with prompt timers, and the refinement
   of the reliable stream; the caller's half of `UpMeansAuthenticated` for
   identifiers that outlast the frames under way.

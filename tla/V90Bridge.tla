----------------------------- MODULE V90Bridge ------------------------------
(***************************************************************************)
(* The digital V.90 event bridge, tools/v90_digital_phase3_event_bridge.c: *)
(* the media loop of main(), which exchanges one PCMU frame at a time with *)
(* its parent, and the worker thread of the strict CP search.              *)
(*                                                                         *)
(* The unit of time and of position is one frame; m.live holds what the    *)
(* line carried, one value a frame.  The modem library the bridge is       *)
(* linked with is not part of the repository: its transmitter is v90, its  *)
(* V.34 receiver what HearFrame makes of a frame, its segmenter the prefix *)
(* of Heard found so far, and its CP recovery the choice in WorkerPublish. *)
(* Neither is the analogue modem at the other end, which is Peer.          *)
(***************************************************************************)
EXTENDS Integers, Sequences, FiniteSets, SequencesExt

CONSTANTS
  Live,             \* EICON_V90D_BRIDGE_CP_LIVE
  Delay,            \* upstream_audio_delay, in frames
  EventArm,         \* event_arm_sample, in frames
  SegmentScan,      \* SEGMENT_SCAN_FRAMES
  MaxReported,      \* MAX_REPORTED_EVENTS
  MaxLive,          \* CP_LIVE_MAX_SAMPLES, in frames
  FirstTryDelay,    \* CP_LIVE_FIRST_TRY_DELAY, in frames
  SearchTail,       \* CP_LIVE_SEARCH_TAIL, in frames
  RetryFrames,      \* CP_LIVE_RETRY_SAMPLES, in frames
  MaxAttempts,      \* CP_LIVE_MAX_ATTEMPTS
  Heard,            \* the segments the demodulator finds, in order
  HeardBy           \* the frame by which it has found them all

CONSTANTS
  MaxFrames,        \* bound: frames in a call before the input ends
  MaxResets         \* bound: resets

ASSUME V90BridgeAssumption ==
  /\ Live \in BOOLEAN /\ Delay \in Nat /\ EventArm \in Nat
  /\ SegmentScan \in Nat \ {0} /\ MaxReported \in Nat /\ MaxLive \in Nat
  /\ FirstTryDelay \in Nat /\ SearchTail \in Nat /\ RetryFrames \in Nat
  /\ MaxAttempts \in Nat /\ HeardBy \in Nat
  /\ Heard \in Seq([start : Nat, type : {"S", "S_BAR", "J"}])
  /\ MaxFrames \in Nat /\ MaxResets \in Nat

VARIABLES
  pc,                   \* where the media loop is in its frame
  m,                    \* what only the media loop touches
  rx,                   \* the upstream_* fields and the V.34 receiver
  v90,                  \* the transmitter: its phase, the CP it has (external)
  peer,                 \* the line: what the analogue modem sends (external)
  live_job,             \* a job is waiting for the worker
  live_job_samples,     \* its snapshot, or NULL
  live_job_expected,    \* the kind of CP it looks for
  live_worker_running,
  live_result,          \* live_result_ready, _found, _expected, live_diag, live_meta
  live_stop,
  worker,               \* the thread, with the locals of its loop
  heap,                 \* snapshots allocated and not freed
  resets                \* resets so far: the number of the call

shared == <<live_job, live_job_samples, live_job_expected,
            live_worker_running, live_result, live_stop>>
vars == <<pc, m, rx, v90, peer, shared, worker, heap, resets>>

NULL == [call |-> -1, offset |-> 0, samples |-> <<>>]
Signals == <<"TRN", "CPt", "CP", "CP'", "E", "B1">>
Signal == {Signals[i] : i \in 1 .. 6} \cup {"silence"}
Phases == <<"WAIT_JA", "JD", "DIL", "RI", "DATA">>
\* V90_TX_RI .. V90_TX_DATA
Phase4 == {"RI", "DATA"}

(* bridge_init.                                                             *)

NewLoop == [live |-> <<>>, sample_offset |-> 0, segment_scan_frames |-> 0,
            found |-> 0, reported |-> <<>>, phase4_hint |-> FALSE,
            next_try |-> 0, attempts |-> 0, cp_accepted |-> FALSE,
            data_cp_accepted |-> FALSE, cp_done |-> FALSE,
            connected |-> FALSE, replayed |-> FALSE, prepare_at |-> -1,
            begin_pending |-> FALSE]
NewReceiver == [look_for_e |-> FALSE, e_complete |-> FALSE, prepared |-> FALSE,
                started |-> FALSE, begun |-> -1, last |-> -1, heard |-> 0,
                mute |-> FALSE]
NewTransmitter == [phase |-> "WAIT_JA", cp |-> "none"]
NewPeer == [sends |-> 1, e_at |-> -1]
NoResult == [ready |-> FALSE, found |-> FALSE, expected |-> FALSE,
             kind |-> "none", last |-> 0, call |-> -1]
\* bridge_live_cp_start
NewWorker == [at |-> IF Live THEN "wait" ELSE "off",
              samples |-> NULL, expected |-> FALSE]

Init ==
  /\ pc = "input" /\ m = NewLoop /\ rx = NewReceiver
  /\ v90 = NewTransmitter /\ peer = NewPeer
  /\ live_job = FALSE /\ live_job_samples = NULL /\ live_job_expected = FALSE
  /\ live_worker_running = FALSE /\ live_result = NoResult /\ live_stop = FALSE
  /\ worker = NewWorker /\ heap = 0 /\ resets = 0

-----------------------------------------------------------------------------
(* The worker thread.  It takes the mutex twice in a round; what it does in *)
(* between touches nothing the media loop can see.                          *)

\* Mutation of WorkerTake: the slot keeps its pointer to the snapshot.
WorkerTakeKeepsPointer ==
  /\ worker.at = "wait" /\ ~live_stop /\ live_job
  /\ worker' = [at |-> "recover", samples |-> live_job_samples,
                expected |-> live_job_expected]
  /\ live_job' = FALSE /\ live_worker_running' = TRUE
  /\ UNCHANGED <<pc, m, rx, v90, peer, live_job_samples, live_job_expected,
                 live_result, live_stop, heap, resets>>

\* bridge_live_cp_worker, to the first unlock
WorkerTake ==
  /\ worker.at = "wait" /\ ~live_stop /\ live_job
  /\ worker' = [at |-> "recover", samples |-> live_job_samples,
                expected |-> live_job_expected]
  /\ live_job_samples' = NULL /\ live_job' = FALSE /\ live_worker_running' = TRUE
  /\ UNCHANGED <<pc, m, rx, v90, peer, live_job_expected, live_result,
                 live_stop, heap, resets>>

\* Mutation of WorkerExit: a stop is only seen when no job waits.
WorkerExitIdle ==
  /\ worker.at = "wait" /\ live_stop /\ ~live_job
  /\ worker' = [worker EXCEPT !.at = "exited"]
  /\ UNCHANGED <<pc, m, rx, v90, peer, shared, heap, resets>>

\* live_stop wins over a job that is waiting.
WorkerExit ==
  /\ worker.at = "wait" /\ live_stop
  /\ worker' = [worker EXCEPT !.at = "exited"]
  /\ UNCHANGED <<pc, m, rx, v90, peer, shared, heap, resets>>

\* v90_cp_live_recover: the ends of the frames of the wanted kind in the
\* snapshot, any of which it may report, or none.
Recoverable(expected, samples) ==
  {i \in DOMAIN samples.samples :
     samples.samples[i] \in IF expected THEN {"CP", "CP'"} ELSE {"CPt"}}

WorkerPublish ==
  /\ worker.at = "recover"
  /\ worker' = [at |-> "wait", samples |-> NULL, expected |-> FALSE]
  /\ heap' = heap - 1
  /\ live_worker_running' = FALSE
  /\ IF live_stop THEN UNCHANGED live_result ELSE
       \/ live_result' = [NoResult EXCEPT !.ready = TRUE, !.call = worker.samples.call,
                                          !.expected = worker.expected]
       \/ \E i \in Recoverable(worker.expected, worker.samples) :
            live_result' = [ready |-> TRUE, found |-> TRUE,
                            expected |-> worker.expected,
                            kind |-> worker.samples.samples[i],
                            last |-> worker.samples.offset + i,
                            call |-> worker.samples.call]
  /\ UNCHANGED <<pc, m, rx, v90, peer, live_job, live_job_samples,
                 live_job_expected, live_stop, resets>>

-----------------------------------------------------------------------------
(* The upstream receiver.  s is [rx, v90].  Of the choices the library      *)
(* makes, c.hears says whether the streaming decoder gets the CP frames,    *)
(* c.takes whether v90_set_phase4_cp accepts, c.ready and c.again whether   *)
(* v34_v90_prepare_upstream_data succeeds, and succeeds when called again.  *)

Choice == [hears : BOOLEAN, takes : BOOLEAN, ready : BOOLEAN, again : BOOLEAN]

\* bridge_cp_frame
CpFrame(s, kind, c) ==
  IF ~c.hears \/ (Live /\ kind # "CP'") \/ ~c.takes THEN s
  ELSE [rx |-> [s.rx EXCEPT !.look_for_e = TRUE, !.prepared = @ \/ c.ready],
        v90 |-> [s.v90 EXCEPT !.cp = kind]]

\* bridge_put_bit from the E handover on: twenty ones, then two bits more
PutBit(r, at, signal) ==
  IF ~r.look_for_e THEN r
  ELSE IF ~r.e_complete THEN [r EXCEPT !.e_complete = signal = "E"]
  ELSE IF r.prepared THEN [r EXCEPT !.started = TRUE, !.begun = at] ELSE r

\* One frame through v34_rx and the callbacks it makes.
HearFrame(s, at, signal, c) ==
  LET t == IF s.rx.started \/ signal \notin {"CP", "CP'"} THEN s
           ELSE CpFrame(s, signal, c)
      r == IF t.rx.started THEN t.rx ELSE PutBit(t.rx, at, signal)
  IN  [t EXCEPT !.rx = [r EXCEPT !.last = at, !.mute = signal = "silence",
                                 !.heard = IF r.started THEN @ + 1 ELSE 0]]

\* bridge_v34_rx on the history from position a on
Replay(s, a, live, c) ==
  LET h[k \in a .. Len(live)] ==
        IF k = a THEN s ELSE HearFrame(h[k - 1], k - 1, live[k], c)
  IN  h[Len(live)]

\* Mutation of ForgetE: what was recovered before the replay stays.
ForgetENot(s) == s

\* upstream_e_ones, _complete and _post_bits cleared before a replay
ForgetE(s) == [s EXCEPT !.rx.e_complete = FALSE]

-----------------------------------------------------------------------------
(* bridge_live_cp_apply.  A state of the media loop is [m, rx, v90].        *)

\* Mutation of FirstDataCp: the frame under way is heard again after the replay.
FirstDataCpTwice(s, r, c) ==
  LET t == [s EXCEPT !.m.data_cp_accepted = TRUE, !.rx.look_for_e = TRUE,
                     !.m.begin_pending = TRUE]
      newly == ~t.rx.prepared /\ c.ready
      u == [t EXCEPT !.rx.prepared = @ \/ newly]
      h == Replay(ForgetE([rx |-> u.rx, v90 |-> u.v90]), r.last, u.m.live, c)
  IN  IF newly /\ r.last < Len(u.m.live)
        THEN [m |-> u.m, rx |-> h.rx, v90 |-> h.v90]
        ELSE u

\* Mutation of FirstDataCp: the history is not replayed.
FirstDataCpNoReplay(s, r, c) ==
  [s EXCEPT !.m.data_cp_accepted = TRUE, !.rx.look_for_e = TRUE,
            !.m.begin_pending = TRUE, !.rx.prepared = @ \/ c.ready]

\* A data-mode CP: look for E, prepare the receiver, and on the first
\* preparation hear again what the line carried since that CP.
FirstDataCp(s, r, c) ==
  LET t == [s EXCEPT !.m.data_cp_accepted = TRUE, !.rx.look_for_e = TRUE,
                     !.m.begin_pending = TRUE]
      newly == ~t.rx.prepared /\ c.ready
      u == [t EXCEPT !.rx.prepared = @ \/ newly,
                     !.m.prepare_at = IF ~t.rx.prepared /\ ~newly /\ @ < 0
                                        THEN r.last ELSE @]
      h == Replay(ForgetE([rx |-> u.rx, v90 |-> u.v90]), r.last, u.m.live, c)
  IN  IF newly /\ r.last < Len(u.m.live)
        THEN [m |-> [u.m EXCEPT !.replayed = TRUE], rx |-> h.rx, v90 |-> h.v90]
        ELSE u

\* An acknowledged CP' ends the search; a receiver not yet handed over is
\* prepared and replayed once more from here.
AcknowledgedCp(s, r, c) ==
  LET t == [s EXCEPT !.m.cp_done = TRUE]
      g == ForgetE([rx |-> [t.rx EXCEPT !.prepared = TRUE, !.look_for_e = TRUE],
                    v90 |-> t.v90])
      h == Replay(g, r.last, t.m.live, c)
  IN  IF r.kind = "CP'" /\ ~t.rx.started /\ c.again /\ r.last < Len(t.m.live)
        THEN [m |-> [t.m EXCEPT !.replayed = TRUE], rx |-> h.rx, v90 |-> h.v90]
        ELSE IF r.kind = "CP'" THEN t ELSE s

ApplyResult(s, r, c) ==
  IF \/ ~r.found
     \/ r.expected /\ s.m.data_cp_accepted /\ r.kind # "CP'"
     \/ ~c.takes
    THEN s
    ELSE LET t == [s EXCEPT !.m.cp_accepted = TRUE, !.v90.cp = r.kind]
         IN  IF r.expected THEN AcknowledgedCp(FirstDataCp(t, r, c), r, c) ELSE t

-----------------------------------------------------------------------------
(* The frame: input, reset, receive, control, transmit.                     *)

\* bridge_live_cp_stop up to the join, when a worker exists
StopWorker ==
  /\ live_stop' = Live /\ pc' = "join"
  /\ UNCHANGED <<m, rx, v90, peer, live_job, live_job_samples, live_job_expected,
                 live_worker_running, live_result, worker, heap>>

\* bridge_reset_if_requested: the parent has touched the reset file.
Reset ==
  /\ pc = "input" /\ m.sample_offset < MaxFrames /\ resets < MaxResets
  /\ StopWorker /\ resets' = resets + 1

\* The input ends: bridge_free.
InputEnds ==
  /\ pc = "input" /\ m.sample_offset = MaxFrames
  /\ StopWorker /\ UNCHANGED resets

\* Mutation of Joined: the worker is not waited for.
JoinedEarly == worker.at \in {"wait", "recover", "exited", "off"}

Joined == worker.at \in {"exited", "off"}

\* After pthread_join: the snapshot nobody took is freed, and the bridge is
\* initialised for the next call or gone.
Join ==
  /\ pc = "join" /\ Joined
  /\ heap' = IF live_job_samples = NULL THEN heap ELSE heap - 1
  /\ live_job_samples' = NULL
  /\ IF m.sample_offset = MaxFrames
       THEN /\ pc' = "done"
            /\ UNCHANGED <<m, rx, v90, peer, live_job, live_job_expected,
                           live_worker_running, live_result, live_stop, worker>>
       ELSE /\ pc' = "media" /\ m' = NewLoop /\ rx' = NewReceiver
            /\ v90' = NewTransmitter /\ peer' = NewPeer
            /\ live_job' = FALSE /\ live_job_expected' = FALSE
            /\ live_worker_running' = FALSE /\ live_result' = NoResult
            /\ live_stop' = FALSE
            /\ worker' = IF worker.at = "recover" THEN worker ELSE NewWorker
  /\ UNCHANGED resets

\* What the analogue modem may send next.  It starts CPt when it hears RI and
\* CP when the transmitter has its CPt; CP', E and B1 follow in its own time,
\* whether or not the search has recognised CP yet.
Peer ==
  {n \in {peer.sends, peer.sends + 1} \cap (1 .. Len(Signals)) :
     IF n = peer.sends THEN Signals[n] # "E"
     ELSE /\ Signals[n] = "CPt" => v90.phase \in Phase4
          /\ Signals[n] = "CP" => v90.cp # "none"}

\* The segments p3_segment_symbols has found by this frame.
SegmentsFound ==
  {n \in m.found .. Len(Heard) : m.sample_offset >= HeardBy => n = Len(Heard)}

StartFrame ==
  /\ pc = "input" /\ m.sample_offset < MaxFrames
  /\ pc' = "media"
  /\ UNCHANGED <<m, rx, v90, peer, shared, worker, heap, resets>>

\* The live history takes the frame while the modem is not connected.
Recorded(signal) ==
  IF Live /\ ~m.connected /\ Len(m.live) < MaxLive THEN Append(m.live, signal) ELSE m.live

\* The frame of the delayed clock: silence where there is no history.
Delayed(l) ==
  LET at == l.sample_offset - Delay
  IN  IF at >= 0 /\ at < Len(l.live) THEN l.live[at + 1] ELSE "silence"

\* The delayed branch: prepare on the delayed clock, begin, then hear.
FeedDelayed(s, c) ==
  LET at == s.m.sample_offset - Delay
      p == [s.rx EXCEPT !.prepared = @ \/ (s.m.prepare_at >= 0
                                           /\ at + 1 >= s.m.prepare_at /\ c.ready)]
      begins == s.m.begin_pending /\ p.prepared /\ ~p.started
      r == IF begins THEN [p EXCEPT !.started = TRUE, !.begun = at] ELSE p
      h == HearFrame([rx |-> r, v90 |-> s.v90], at, Delayed(s.m), c)
  IN  [m |-> [s.m EXCEPT !.begin_pending = @ /\ ~begins], rx |-> h.rx, v90 |-> h.v90]

\* A frame that was part of a replay is not heard twice.  bridge_feed_upstream
\* hears the frame as it is: upstream_begin_at is never set.
FeedFrame(s, signal, c) ==
  IF s.m.replayed THEN [s EXCEPT !.m.replayed = FALSE]
  ELSE IF Delay > 0 THEN FeedDelayed(s, c)
  ELSE LET h == HearFrame([rx |-> s.rx, v90 |-> s.v90], s.m.sample_offset, signal, c)
       IN  [m |-> s.m, rx |-> h.rx, v90 |-> h.v90]

Media ==
  /\ pc = "media" /\ pc' = "control"
  /\ \E n \in Peer, found \in IF m.connected THEN {m.found} ELSE SegmentsFound,
        c \in Choice :
       LET signal == Signals[n]
           takes == Live /\ ~m.connected /\ live_result.ready
           l == [m EXCEPT !.live = Recorded(signal), !.found = found]
           a == IF takes THEN ApplyResult([m |-> l, rx |-> rx, v90 |-> v90],
                                          live_result, c)
                ELSE [m |-> l, rx |-> rx, v90 |-> v90]
           f == FeedFrame(a, signal, c)
       IN  /\ m' = [f.m EXCEPT !.sample_offset = @ + 1]
           /\ rx' = f.rx /\ v90' = f.v90
           /\ peer' = [sends |-> n, e_at |-> IF signal = "E" THEN m.sample_offset
                                             ELSE peer.e_at]
           /\ live_result' = IF takes THEN [live_result EXCEPT !.ready = FALSE]
                             ELSE live_result
  /\ UNCHANGED <<live_job, live_job_samples, live_job_expected,
                 live_worker_running, live_stop, worker, heap, resets>>

-----------------------------------------------------------------------------
(* bridge_events: a segment is offered to the transmitter once in a phase,  *)
(* until it is accepted.                                                    *)

\* v90_handle_rx_event: the phase a segment moves the transmitter on to
After(phase) == [WAIT_JA |-> "JD", JD |-> "DIL", DIL |-> "RI", RI |-> "RI", DATA |-> "DATA"][phase]

\* report_event
Accepts(phase, type) ==
  CASE type \in {"S", "S_BAR"} -> phase \in {"JD", "DIL"}
    [] type = "J" -> phase = "WAIT_JA"

\* Mutation of Offers: an accepted segment is offered again in the next phase.
OffersAgain(reported, k, phase) == reported[k].last_phase # phase

\* Mutation of Offers: a rejected segment is never offered again.
OffersOnce(reported, k, phase) == FALSE

Offers(reported, k, phase) ==
  ~reported[k].accepted /\ reported[k].last_phase # phase

OfferSegment(e, segment) ==
  LET k == SelectInSeq(e.reported, LAMBDA x : x.segment = segment)
      accepted == Accepts(e.phase, segment.type)
      entry == [segment |-> segment, last_phase |-> e.phase, accepted |-> accepted]
      phase == IF accepted THEN After(e.phase) ELSE e.phase
  IN  IF segment.start < EventArm THEN e
      ELSE IF k > 0
        THEN IF Offers(e.reported, k, e.phase)
               THEN [reported |-> [e.reported EXCEPT ![k] = entry], phase |-> phase]
               ELSE e
        ELSE IF Len(e.reported) < MaxReported
               THEN [reported |-> Append(e.reported, entry), phase |-> phase]
               ELSE e

Events(e, segments) ==
  LET g[k \in 0 .. Len(segments)] ==
        IF k = 0 THEN e ELSE OfferSegment(g[k - 1], segments[k])
  IN  g[Len(segments)]

\* Once in SEGMENT_SCAN_FRAMES frames, until the modem is connected.
Scan(l, phase) ==
  IF l.connected THEN [m |-> l, phase |-> phase]
  ELSE IF l.segment_scan_frames + 1 < SegmentScan
    THEN [m |-> [l EXCEPT !.segment_scan_frames = @ + 1], phase |-> phase]
  ELSE LET e == Events([reported |-> l.reported, phase |-> phase],
                       SubSeq(Heard, 1, l.found))
       IN  [m |-> [l EXCEPT !.segment_scan_frames = 0, !.reported = e.reported],
            phase |-> e.phase]

\* bridge_note_phase4
NotePhase4(l, phase) ==
  IF l.connected \/ ~Live \/ l.phase4_hint \/ phase \notin Phase4 THEN l
  ELSE [l EXCEPT !.phase4_hint = TRUE, !.next_try = Len(l.live) + FirstTryDelay]

\* Mutation of MayTry: one attempt more.
MayTryOnceMore(l) ==
  /\ Live /\ ~l.connected /\ ~l.cp_done /\ l.phase4_hint
  /\ l.attempts <= MaxAttempts /\ Len(l.live) >= l.next_try

\* bridge_live_cp_try, the conditions before the mutex
MayTry(l) ==
  /\ Live /\ ~l.connected /\ ~l.cp_done /\ l.phase4_hint
  /\ l.attempts < MaxAttempts /\ Len(l.live) >= l.next_try

\* Mutation of SearchFree: only the job slot is looked at.
SearchFreeIfNoJob == ~live_job

\* ... and under it
SearchFree == ~live_job /\ ~live_worker_running /\ ~live_result.ready

Snapshot(l) ==
  LET offset == IF Len(l.live) > SearchTail THEN Len(l.live) - SearchTail ELSE 0
  IN  [call |-> resets, offset |-> offset,
       samples |-> SubSeq(l.live, offset + 1, Len(l.live))]

\* bridge_live_cp_try, the rest: l is the loop as the frame leaves it
LiveCpTry(l) ==
  /\ live_job_samples' = Snapshot(l) /\ heap' = heap + 1
  /\ live_job_expected' = l.cp_accepted /\ live_job' = TRUE
  /\ m' = [l EXCEPT !.attempts = @ + 1, !.next_try = Len(l.live) + RetryFrames]

NoTry(l) ==
  m' = l /\ UNCHANGED <<live_job_samples, heap, live_job_expected, live_job>>

\* The frame after the receiver, to the answer to the parent.  malloc may
\* fail; the transmitter enters DATA while it makes the frame's codewords.
Control ==
  /\ pc = "control" /\ pc' = "input"
  /\ \E data \in BOOLEAN :
       LET e == Scan(m, v90.phase)
           n == NotePhase4(e.m, e.phase)
           l == [n EXCEPT !.connected = @ \/ e.phase = "DATA"]
       IN  /\ data => e.phase = "RI" /\ v90.cp \in {"CP", "CP'"}
           /\ v90' = [v90 EXCEPT !.phase = IF data THEN "DATA" ELSE e.phase]
           /\ \/ MayTry(n) /\ SearchFree /\ LiveCpTry(l)
              \/ NoTry(l)
  /\ UNCHANGED <<rx, peer, live_worker_running, live_result, live_stop, worker, resets>>

-----------------------------------------------------------------------------
Loop == Reset \/ InputEnds \/ Join \/ StartFrame \/ Media \/ Control

Worker == WorkerTake \/ WorkerExit \/ WorkerPublish

Next == Loop \/ Worker

Spec == Init /\ [][Next]_vars

\* The scheduler runs the worker thread; v90_cp_live_recover returns.
FairSpec == Spec /\ WF_vars(Worker) /\ WF_vars(Join)

-----------------------------------------------------------------------------
Snapshots ==
  [call : Int, offset : Nat, samples : Seq(Signal)]

TypeOK ==
  /\ pc \in {"input", "media", "control", "join", "done"}
  /\ m.live \in Seq(Signal) /\ m.sample_offset \in 0 .. MaxFrames
  /\ m.found \in 0 .. Len(Heard) /\ m.attempts \in 0 .. MaxAttempts
  /\ Len(m.reported) \in 0 .. MaxReported
  /\ rx.last \in Int /\ rx.begun \in Int
  /\ v90.phase \in {Phases[i] : i \in 1 .. 5}
  /\ v90.cp \in {"none", "CPt", "CP", "CP'"}
  /\ peer.sends \in 1 .. Len(Signals)
  /\ {live_job, live_job_expected, live_worker_running, live_stop} \subseteq BOOLEAN
  /\ {live_job_samples, worker.samples} \subseteq Snapshots
  /\ worker.at \in {"off", "wait", "recover", "exited"}
  /\ heap \in Nat /\ resets \in 0 .. MaxResets

One(b) == IF b THEN 1 ELSE 0

\* Every snapshot allocated and not freed is in the job slot or in the hands
\* of the worker, and no snapshot is in both: none leaks and none is freed
\* twice, whenever the search is stopped.
SnapshotsOwned ==
  heap = One(live_job_samples # NULL) + One(worker.samples # NULL)

\* A search of one call never answers in the next: a job taken, a recovery
\* under way and an answer not yet read are all about the present call.
NoneFromOldCall ==
  pc \notin {"join", "done"} =>
    /\ live_job => live_job_samples.call = resets
    /\ worker.at = "recover" => worker.samples.call = resets
    /\ live_result.ready => live_result.call = resets

\* Data begins on the frame after E and nowhere else, however late the CP
\* that announces it is recognised.
HandoverAtE ==
  Delay = 0 /\ Len(m.live) < MaxLive /\ rx.started => rx.begun = peer.e_at + 1

\* Once prepared, the receiver does not let E pass: two frames later it has
\* been handed over.
NoMissedHandover ==
  /\ pc = "control" /\ Delay = 0 /\ Len(m.live) < MaxLive
  /\ rx.prepared /\ peer.e_at >= 0 /\ rx.last > peer.e_at
  => rx.started

\* In data mode the receiver has heard every frame of the line from the
\* handover on once and in order, whether the frame came from the history or
\* as it arrived.
EveryFrameOnce ==
  pc = "control" /\ Delay = 0 /\ Len(m.live) < MaxLive /\ rx.started
  => rx.last = m.sample_offset - 1 /\ rx.heard = rx.last - rx.begun + 1

\* A segment moves the transmitter on by one phase and never again, although
\* every scan offers the whole list from the start.
OneAdvancePerSegment ==
  Cardinality({k \in DOMAIN m.reported : m.reported[k].accepted}) =
    CASE v90.phase = "WAIT_JA" -> 0 [] v90.phase = "JD" -> 1
      [] v90.phase = "DIL" -> 2 [] OTHER -> 3

\* A segment found before the transmitter can use it is not lost: J, S and
\* the reversed S, found in whatever order by frame HeardBy, have taken the
\* transmitter through phase 3 when the call is long enough for the scans.
TrainingCompletes ==
  m.sample_offset >= HeardBy + 3 * SegmentScan => v90.phase \in Phase4

\* Connecting switches off the classifiers only: the receiver goes on hearing
\* the line, as main() says where it sets connected_reported.
UpstreamStaysActive ==
  m.connected /\ pc = "control" => ~rx.mute

Search == INSTANCE CpSearch WITH
  slot <- IF live_job \/ live_worker_running THEN "asked"
          ELSE IF live_result.ready THEN "answered" ELSE "idle",
  question <- IF live_job THEN live_job_expected
              ELSE IF live_worker_running THEN worker.expected
              ELSE live_result.ready /\ live_result.expected,
  want <- m.cp_accepted

\* The job slot, the worker and the result slot together are one question at
\* a time, put for the kind of CP the bridge needs.
ImplementsSearch == Search!Spec

\* A bridge that stops its search gets its worker back.
WorkerJoined == (pc = "join") ~> (pc # "join")
=============================================================================

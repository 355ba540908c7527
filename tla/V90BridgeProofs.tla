--------------------------- MODULE V90BridgeProofs --------------------------
(***************************************************************************)
(* Proofs about module V90Bridge, for every length of a call, every number *)
(* of resets, every setting of the search and every list of segments:      *)
(* snapshots are owned, nothing of an old call is left, and the job slot,  *)
(* the worker and the result slot implement module CpSearch.               *)
(*                                                                         *)
(* The argument: at most one of the job slot, the worker and the result    *)
(* slot is occupied (OneQuestion), the search is stopped only between the  *)
(* request and the join (StoppedOnlyToJoin), and each occupant carries the *)
(* number of the present call and the kind of CP that is wanted.           *)
(***************************************************************************)
EXTENDS V90Bridge, TLAPS

LoopFields == {"live", "sample_offset", "segment_scan_frames", "found",
               "reported", "phase4_hint", "next_try", "attempts",
               "cp_accepted", "data_cp_accepted", "cp_done", "connected",
               "replayed", "prepare_at", "begin_pending"}

\* A state of the media loop has its fields and knows whether CPt is accepted.
IsLoop(l) ==
  /\ l = [f \in LoopFields |-> l[f]]
  /\ l.cp_accepted \in BOOLEAN

IsState(s) ==
  /\ s = [f \in {"m", "rx", "v90"} |-> s[f]]
  /\ IsLoop(s.m)

\* No call that the media loop makes on its own state takes back cp_accepted.
Keeps(l, k) == IsLoop(k) /\ k.cp_accepted = l.cp_accepted
Advances(l, k) == IsLoop(k) /\ k.cp_accepted \in {l.cp_accepted, TRUE}

LEMMA NewLoopIsLoop == IsLoop(NewLoop) /\ NewLoop.cp_accepted = FALSE
  BY DEF IsLoop, NewLoop, LoopFields

\* bridge_feed_upstream, the delayed branch and the replay of a data-mode CP
\* leave cp_accepted alone.
LEMMA FirstDataCpKeeps ==
  ASSUME NEW s, IsState(s), NEW r, NEW c
  PROVE  IsState(FirstDataCp(s, r, c)) /\ Keeps(s.m, FirstDataCp(s, r, c).m)
  <1> DEFINE t == [s EXCEPT !.m.data_cp_accepted = TRUE, !.rx.look_for_e = TRUE,
                            !.m.begin_pending = TRUE]
             newly == ~t.rx.prepared /\ c.ready
             u == [t EXCEPT !.rx.prepared = @ \/ newly,
                            !.m.prepare_at = IF ~t.rx.prepared /\ ~newly /\ @ < 0
                                               THEN r.last ELSE @]
             h == Replay(ForgetE([rx |-> u.rx, v90 |-> u.v90]), r.last, u.m.live, c)
  <1>1. IsState(t) /\ t.m.cp_accepted = s.m.cp_accepted
    BY DEF IsState, IsLoop, LoopFields
  <1> HIDE DEF t
  <1>2. ASSUME NEW p, NEW at
        PROVE  LET v == [t EXCEPT !.rx.prepared = p, !.m.prepare_at = at]
               IN  IsState(v) /\ v.m.cp_accepted = t.m.cp_accepted
    BY <1>1 DEF IsState, IsLoop, LoopFields
  <1>3. IsState(u) /\ u.m.cp_accepted = t.m.cp_accepted
    <2>1. u = [t EXCEPT !.rx.prepared = t.rx.prepared \/ newly,
                        !.m.prepare_at = IF ~t.rx.prepared /\ ~newly /\ t.m.prepare_at < 0
                                           THEN r.last ELSE t.m.prepare_at]
      BY <1>1 DEF IsState, IsLoop, LoopFields
    <2>2. QED BY <2>1, <1>2
  <1> HIDE DEF h, newly, u, t
  <1>4. FirstDataCp(s, r, c) = IF newly /\ r.last < Len(u.m.live)
          THEN [m |-> [u.m EXCEPT !.replayed = TRUE], rx |-> h.rx, v90 |-> h.v90]
          ELSE u
    BY DEF FirstDataCp, h, newly, u, t
  <1>5. QED
    BY <1>1, <1>3, <1>4 DEF IsState, IsLoop, Keeps, LoopFields

LEMMA AcknowledgedCpKeeps ==
  ASSUME NEW s, IsState(s), NEW r, NEW c
  PROVE  IsState(AcknowledgedCp(s, r, c)) /\ Keeps(s.m, AcknowledgedCp(s, r, c).m)
  BY DEF AcknowledgedCp, IsState, IsLoop, Keeps, LoopFields

LEMMA FeedFrameKeeps ==
  ASSUME NEW s, IsState(s), NEW signal, NEW c
  PROVE  Keeps(s.m, FeedFrame(s, signal, c).m)
  BY DEF FeedFrame, FeedDelayed, IsState, IsLoop, Keeps, LoopFields

LEMMA ScanKeeps ==
  ASSUME NEW l, IsLoop(l), NEW phase
  PROVE  Keeps(l, Scan(l, phase).m)
  BY DEF Scan, IsLoop, Keeps, LoopFields

LEMMA NotePhase4Keeps ==
  ASSUME NEW l, IsLoop(l), NEW phase
  PROVE  Keeps(l, NotePhase4(l, phase))
  BY DEF NotePhase4, IsLoop, Keeps, LoopFields
LEMMA ApplyResultAdvances ==
  ASSUME NEW s, IsState(s), NEW r, NEW c
  PROVE  /\ IsState(ApplyResult(s, r, c))
         /\ Advances(s.m, ApplyResult(s, r, c).m)
  <1> DEFINE t == [s EXCEPT !.m.cp_accepted = TRUE, !.v90.cp = r.kind]
  <1>1. IsState(t) /\ t.m.cp_accepted = TRUE
    BY DEF IsState, IsLoop, LoopFields
  <1> HIDE DEF t
  <1>2. /\ IsState(AcknowledgedCp(FirstDataCp(t, r, c), r, c))
        /\ AcknowledgedCp(FirstDataCp(t, r, c), r, c).m.cp_accepted = TRUE
    BY <1>1, FirstDataCpKeeps, AcknowledgedCpKeeps DEF Keeps
  <1>3. \/ ApplyResult(s, r, c) = s
        \/ ApplyResult(s, r, c) = t
        \/ ApplyResult(s, r, c) = AcknowledgedCp(FirstDataCp(t, r, c), r, c)
    BY DEF ApplyResult, t
  <1>4. QED BY <1>1, <1>2, <1>3 DEF Advances, IsState, IsLoop

-----------------------------------------------------------------------------
\* live_result and worker have their fields.
IsResult(r) ==
  /\ r = [ready |-> r.ready, found |-> r.found, expected |-> r.expected,
          kind |-> r.kind, last |-> r.last, call |-> r.call]
  /\ r.ready \in BOOLEAN /\ r.expected \in BOOLEAN

IsWorker(w) ==
  /\ w = [at |-> w.at, samples |-> w.samples, expected |-> w.expected]
  /\ w.at \in {"off", "wait", "recover", "exited"}
  /\ w.expected \in BOOLEAN

Shapes ==
  /\ resets \in Nat /\ IsLoop(m)
  /\ live_job \in BOOLEAN /\ live_job_expected \in BOOLEAN
  /\ live_worker_running \in BOOLEAN /\ live_stop \in BOOLEAN
  /\ IsResult(live_result) /\ IsWorker(worker)

\* The job slot, the worker and the result slot: at most one is occupied.
OneQuestion ==
  /\ live_job => ~live_worker_running /\ ~live_result.ready
  /\ live_worker_running => ~live_result.ready
  /\ live_worker_running <=> worker.at = "recover"

\* A snapshot is where the flags say it is.
SlotsMatch ==
  /\ worker.samples # NULL <=> worker.at = "recover"
  /\ pc # "done" => (live_job_samples # NULL <=> live_job)
  /\ pc = "done" => live_job_samples = NULL

\* The worker is told to stop only by a media loop that then waits for it.
StoppedOnlyToJoin ==
  /\ pc \in {"join", "done"} => live_stop \/ worker.at = "off"
  /\ pc \notin {"join", "done"} => ~live_stop /\ worker.at # "exited"
  /\ pc = "done" => worker.at \in {"exited", "off"}
  /\ ~Live => worker.at = "off"

IInv == Shapes /\ OneQuestion /\ SlotsMatch /\ StoppedOnlyToJoin
        /\ SnapshotsOwned /\ NoneFromOldCall

LEMMA NewWorkerIsWorker ==
  /\ IsWorker(NewWorker) /\ NewWorker.samples = NULL
  /\ NewWorker.at = (IF Live THEN "wait" ELSE "off")
  <1> DEFINE at == IF Live THEN "wait" ELSE "off"
  <1>1. at \in {"off", "wait"} OBVIOUS
  <1>2. NewWorker = [at |-> at, samples |-> NULL, expected |-> FALSE]
    BY DEF NewWorker
  <1> HIDE DEF at
  <1>3. IsWorker(NewWorker) /\ NewWorker.samples = NULL /\ NewWorker.at = at
    BY <1>1, <1>2 DEF IsWorker
  <1>4. QED BY <1>3 DEF at

LEMMA InitInv == ASSUME Init PROVE IInv
  <1>1. /\ IsResult(NoResult) /\ NoResult.ready = FALSE
        /\ IsWorker(NewWorker) /\ NewWorker.samples = NULL
        /\ NewWorker.at \in {"wait", "off"} /\ (~Live => NewWorker.at = "off")
        /\ IsLoop(NewLoop)
    BY NewWorkerIsWorker, NewLoopIsLoop DEF IsResult, NoResult
  <1>2. /\ pc = "input" /\ m = NewLoop /\ live_result = NoResult
        /\ worker = NewWorker /\ live_job_samples = NULL /\ heap = 0 /\ resets = 0
    BY DEF Init
  <1>3. /\ live_job = FALSE /\ live_job_expected = FALSE
        /\ live_worker_running = FALSE /\ live_stop = FALSE
    BY DEF Init
  <1>4. Shapes BY <1>1, <1>2, <1>3 DEF Shapes
  <1>5. OneQuestion BY <1>1, <1>2, <1>3 DEF OneQuestion
  <1>6. SlotsMatch BY <1>1, <1>2, <1>3 DEF SlotsMatch
  <1>7. StoppedOnlyToJoin BY <1>1, <1>2, <1>3 DEF StoppedOnlyToJoin
  <1>8. SnapshotsOwned BY <1>1, <1>2 DEF SnapshotsOwned, One
  <1>9. NoneFromOldCall BY <1>1, <1>2, <1>3 DEF NoneFromOldCall
  <1>10. QED BY <1>4, <1>5, <1>6, <1>7, <1>8, <1>9 DEF IInv

\* What Media does to the loop: cp_accepted only ever becomes TRUE, and only
\* by a result read.
LEMMA MediaLoop ==
  ASSUME IInv, Media
  PROVE  /\ IsLoop(m')
         /\ m'.cp_accepted \in {m.cp_accepted, TRUE}
         /\ ~live_result.ready => m'.cp_accepted = m.cp_accepted
         /\ live_result.ready =>
              \/ m'.cp_accepted = m.cp_accepted /\ live_result' = live_result
              \/ live_result' = [live_result EXCEPT !.ready = FALSE]
         /\ ~live_result.ready => live_result' = live_result
  <1>1. IsLoop(m) BY DEF IInv, Shapes
  <1>2. PICK n \in Peer, found \in IF m.connected THEN {m.found} ELSE SegmentsFound,
             c \in Choice :
          LET signal == Signals[n]
              takes == Live /\ ~m.connected /\ live_result.ready
              l == [m EXCEPT !.live = Recorded(signal), !.found = found]
              a == IF takes THEN ApplyResult([m |-> l, rx |-> rx, v90 |-> v90],
                                             live_result, c)
                   ELSE [m |-> l, rx |-> rx, v90 |-> v90]
              f == FeedFrame(a, signal, c)
          IN  /\ m' = [f.m EXCEPT !.sample_offset = @ + 1]
              /\ rx' = f.rx /\ v90' = f.v90
              /\ peer' = [sends |-> n, e_at |-> IF signal = "E" THEN m.sample_offset
                                                ELSE peer.e_at]
              /\ live_result' = IF takes THEN [live_result EXCEPT !.ready = FALSE]
                                ELSE live_result
    BY DEF Media
  <1> DEFINE signal == Signals[n]
             takes == Live /\ ~m.connected /\ live_result.ready
             l == [m EXCEPT !.live = Recorded(signal), !.found = found]
             b == [m |-> l, rx |-> rx, v90 |-> v90]
             a == IF takes THEN ApplyResult(b, live_result, c) ELSE b
             f == FeedFrame(a, signal, c)
  <1>3. IsState(b) /\ b.m.cp_accepted = m.cp_accepted
    BY <1>1 DEF IsState, IsLoop, LoopFields
  <1> HIDE DEF b, l
  <1>4. /\ IsState(a) /\ a.m.cp_accepted \in {m.cp_accepted, TRUE}
        /\ ~takes => a.m.cp_accepted = m.cp_accepted
    BY <1>3, ApplyResultAdvances DEF Advances
  <1> HIDE DEF a
  <1>5. IsLoop(f.m) /\ f.m.cp_accepted = a.m.cp_accepted
    BY <1>4, FeedFrameKeeps DEF Keeps
  <1>6. /\ m' = [f.m EXCEPT !.sample_offset = @ + 1]
        /\ live_result' = IF takes THEN [live_result EXCEPT !.ready = FALSE]
                          ELSE live_result
    BY <1>2 DEF a, b, l
  <1> HIDE DEF f
  <1>7. IsLoop(m') /\ m'.cp_accepted = a.m.cp_accepted
    BY <1>5, <1>6 DEF IsLoop, LoopFields
  <1>8. QED BY <1>4, <1>6, <1>7

\* What Control does to the loop, and that a job is only put into free slots.
LEMMA ControlLoop ==
  ASSUME IInv, Control
  PROVE  /\ IsLoop(m') /\ m'.cp_accepted = m.cp_accepted
         /\ \/ /\ SearchFree /\ live_job' = TRUE
               /\ live_job_expected' = m.cp_accepted
               /\ live_job_samples'.call = resets /\ live_job_samples' # NULL
               /\ heap' = heap + 1
            \/ UNCHANGED <<live_job_samples, heap, live_job_expected, live_job>>
  <1>1. IsLoop(m) BY DEF IInv, Shapes
  <1> DEFINE e == Scan(m, v90.phase)
             n == NotePhase4(e.m, e.phase)
             l == [n EXCEPT !.connected = @ \/ e.phase = "DATA"]
  <1>2. IsLoop(e.m) /\ e.m.cp_accepted = m.cp_accepted
    BY <1>1, ScanKeeps DEF Keeps
  <1>3. IsLoop(n) /\ n.cp_accepted = m.cp_accepted
    BY <1>2, NotePhase4Keeps DEF Keeps
  <1> HIDE DEF n, e
  <1>4. IsLoop(l) /\ l.cp_accepted = m.cp_accepted
    BY <1>3 DEF IsLoop, LoopFields
  <1>5. (MayTry(n) /\ SearchFree /\ LiveCpTry(l)) \/ NoTry(l)
    BY DEF Control, n, e
  <1> HIDE DEF l
  <1>6. CASE NoTry(l)
    BY <1>4, <1>6 DEF NoTry
  <1>7. CASE SearchFree /\ LiveCpTry(l)
    <2>1. IsLoop(m') /\ m'.cp_accepted = m.cp_accepted
      BY <1>4, <1>7 DEF LiveCpTry, IsLoop, LoopFields
    <2>2. Snapshot(l).call = resets /\ NULL.call = -1 /\ resets \in Nat
      BY DEF Snapshot, NULL, IInv, Shapes
    <2>3. Snapshot(l) # NULL
      BY <2>2
    <2>4. QED BY <1>4, <1>7, <2>1, <2>2, <2>3 DEF LiveCpTry
  <1>8. QED BY <1>5, <1>6, <1>7
-----------------------------------------------------------------------------
\* Steps of the worker.
LEMMA WorkerTakeInv == ASSUME IInv, WorkerTake PROVE IInv'
  <1> USE DEF IInv, WorkerTake
  <1>1. pc \notin {"join", "done"} /\ live_job_samples # NULL
    BY DEF StoppedOnlyToJoin, SlotsMatch, Shapes, IsWorker
  <1>2. Shapes' BY DEF Shapes, IsWorker
  <1>3. OneQuestion' BY DEF OneQuestion
  <1>4. SlotsMatch' BY <1>1 DEF SlotsMatch
  <1>5. StoppedOnlyToJoin' BY <1>1 DEF StoppedOnlyToJoin
  <1>6. SnapshotsOwned' BY <1>1 DEF SnapshotsOwned, SlotsMatch, One
  <1>7. NoneFromOldCall' BY DEF NoneFromOldCall, OneQuestion
  <1>8. QED BY <1>2, <1>3, <1>4, <1>5, <1>6, <1>7

LEMMA WorkerExitInv == ASSUME IInv, WorkerExit PROVE IInv'
  <1> USE DEF IInv, WorkerExit, shared
  <1>1. /\ worker'.at = "exited" /\ worker'.samples = worker.samples
        /\ IsWorker(worker')
    BY DEF Shapes, IsWorker
  <1>2. Shapes' BY <1>1 DEF Shapes
  <1>3. OneQuestion' BY <1>1 DEF OneQuestion
  <1>4. SlotsMatch' BY <1>1 DEF SlotsMatch
  <1>5. StoppedOnlyToJoin' BY <1>1 DEF StoppedOnlyToJoin
  <1>6. SnapshotsOwned' BY <1>1 DEF SnapshotsOwned
  <1>7. NoneFromOldCall' BY <1>1 DEF NoneFromOldCall
  <1>8. QED BY <1>2, <1>3, <1>4, <1>5, <1>6, <1>7

\* The two outcomes of the recovery, as far as the search sees them.
LEMMA PublishResult ==
  ASSUME IInv, WorkerPublish
  PROVE  /\ IsResult(live_result')
         /\ live_stop => live_result' = live_result
         /\ ~live_stop => /\ live_result'.ready = TRUE
                          /\ live_result'.expected = worker.expected
                          /\ live_result'.call = worker.samples.call
  <1>1. IsResult(live_result) /\ IsWorker(worker)
    BY DEF IInv, Shapes
  <1>2. CASE live_stop
    BY <1>1, <1>2 DEF WorkerPublish
  <1>3. CASE ~live_stop /\ live_result' =
               [NoResult EXCEPT !.ready = TRUE, !.call = worker.samples.call,
                                !.expected = worker.expected]
    <2>1. live_result' = [ready |-> TRUE, found |-> FALSE,
                          expected |-> worker.expected, kind |-> "none",
                          last |-> 0, call |-> worker.samples.call]
      BY <1>3 DEF NoResult
    <2>2. QED BY <1>1, <1>3, <2>1 DEF IsResult, IsWorker
  <1>4. ASSUME ~live_stop, NEW i \in Recoverable(worker.expected, worker.samples),
               live_result' = [ready |-> TRUE, found |-> TRUE,
                               expected |-> worker.expected,
                               kind |-> worker.samples.samples[i],
                               last |-> worker.samples.offset + i,
                               call |-> worker.samples.call]
        PROVE  /\ IsResult(live_result') /\ live_result'.ready = TRUE
               /\ live_result'.expected = worker.expected
               /\ live_result'.call = worker.samples.call
    BY <1>1, <1>4 DEF IsResult, IsWorker
  <1>5. QED BY <1>2, <1>3, <1>4 DEF WorkerPublish

LEMMA WorkerPublishInv == ASSUME IInv, WorkerPublish PROVE IInv'
  <1> USE DEF IInv, WorkerPublish
  <1>0. /\ worker.at = "recover" /\ live_worker_running /\ ~live_job
        /\ ~live_result.ready /\ worker.samples # NULL
        /\ pc # "done" /\ (pc = "join" => live_stop)
        /\ live_job_samples = NULL
    BY DEF OneQuestion, SlotsMatch, StoppedOnlyToJoin
  <1>1. /\ worker'.at = "wait" /\ worker'.samples = NULL /\ IsWorker(worker')
    BY DEF IsWorker
  <1>2. Shapes' BY <1>1, PublishResult DEF Shapes
  <1>3. OneQuestion' BY <1>0, <1>1, PublishResult DEF OneQuestion
  <1>4. SlotsMatch' BY <1>0, <1>1 DEF SlotsMatch
  <1>5. StoppedOnlyToJoin' BY <1>0, <1>1 DEF StoppedOnlyToJoin
  <1>6. SnapshotsOwned' BY <1>0, <1>1 DEF SnapshotsOwned, One
  <1>7. NoneFromOldCall' BY <1>0, <1>1, PublishResult DEF NoneFromOldCall, StoppedOnlyToJoin
  <1>8. QED BY <1>2, <1>3, <1>4, <1>5, <1>6, <1>7

\* Steps of the media loop.
LEMMA StopInv == ASSUME IInv, Reset \/ InputEnds PROVE IInv'
  <1> USE DEF IInv, Reset, InputEnds, StopWorker
  <1>0. pc = "input" /\ pc' = "join" /\ live_stop' = Live /\ resets' \in Nat
    BY DEF Shapes
  <1>1. Live \in BOOLEAN BY V90BridgeAssumption
  <1>2. Shapes' BY <1>0, <1>1 DEF Shapes
  <1>3. OneQuestion' BY DEF OneQuestion
  <1>4. SlotsMatch' BY <1>0 DEF SlotsMatch
  <1>5. StoppedOnlyToJoin' BY <1>0, <1>1 DEF StoppedOnlyToJoin
  <1>6. SnapshotsOwned' BY DEF SnapshotsOwned
  <1>7. NoneFromOldCall' BY <1>0 DEF NoneFromOldCall
  <1>8. QED BY <1>2, <1>3, <1>4, <1>5, <1>6, <1>7
LEMMA JoinInv == ASSUME IInv, Join PROVE IInv'
  <1> USE DEF IInv, Join, Joined
  <1>0. /\ pc = "join" /\ worker.at \in {"exited", "off"} /\ worker.samples = NULL
        /\ ~live_worker_running /\ heap = One(live_job_samples # NULL)
        /\ heap' = 0 /\ live_job_samples' = NULL /\ resets' = resets
    BY DEF OneQuestion, SlotsMatch, SnapshotsOwned, One
  <1>1. CASE m.sample_offset = MaxFrames
    <2>1. pc' = "done" /\ UNCHANGED <<m, live_job, live_job_expected,
                             live_worker_running, live_result, live_stop, worker>>
      BY <1>1
    <2>2. Shapes' BY <1>0, <2>1 DEF Shapes
    <2>3. OneQuestion' BY <2>1 DEF OneQuestion
    <2>4. SlotsMatch' BY <1>0, <2>1 DEF SlotsMatch
    <2>5. StoppedOnlyToJoin' BY <1>0, <2>1 DEF StoppedOnlyToJoin
    <2>6. SnapshotsOwned' BY <1>0, <2>1 DEF SnapshotsOwned, One
    <2>7. NoneFromOldCall' BY <2>1 DEF NoneFromOldCall
    <2>8. QED BY <2>2, <2>3, <2>4, <2>5, <2>6, <2>7
  <1>2. CASE m.sample_offset # MaxFrames
    <2>1. /\ pc' = "media" /\ m' = NewLoop /\ live_job' = FALSE
          /\ live_job_expected' = FALSE /\ live_worker_running' = FALSE
          /\ live_result' = NoResult /\ live_stop' = FALSE /\ worker' = NewWorker
      BY <1>0, <1>2
    <2>2. IsResult(NoResult) /\ NoResult.ready = FALSE BY DEF IsResult, NoResult
    <2>3. /\ IsWorker(NewWorker) /\ NewWorker.samples = NULL
          /\ NewWorker.at \in {"wait", "off"} /\ (~Live => NewWorker.at = "off")
      BY NewWorkerIsWorker
    <2>4. Shapes' BY <1>0, <2>1, <2>2, <2>3, NewLoopIsLoop DEF Shapes
    <2>5. OneQuestion' BY <2>1, <2>2, <2>3 DEF OneQuestion
    <2>6. SlotsMatch' BY <1>0, <2>1, <2>3 DEF SlotsMatch
    <2>7. StoppedOnlyToJoin' BY <2>1, <2>3 DEF StoppedOnlyToJoin
    <2>8. SnapshotsOwned' BY <1>0, <2>1, <2>3 DEF SnapshotsOwned, One
    <2>9. NoneFromOldCall' BY <2>1, <2>2, <2>3 DEF NoneFromOldCall
    <2>10. QED BY <2>4, <2>5, <2>6, <2>7, <2>8, <2>9
  <1>3. QED BY <1>1, <1>2

LEMMA StartFrameInv == ASSUME IInv, StartFrame PROVE IInv'
  BY DEF IInv, StartFrame, shared, Shapes, OneQuestion, SlotsMatch,
         StoppedOnlyToJoin, SnapshotsOwned, NoneFromOldCall

LEMMA MediaInv == ASSUME IInv, Media PROVE IInv'
  <1> USE DEF IInv
  <1>0. /\ pc = "media" /\ pc' = "control"
        /\ UNCHANGED <<live_job, live_job_samples, live_job_expected,
                       live_worker_running, live_stop, worker, heap, resets>>
    BY DEF Media
  <1>1. /\ IsResult(live_result') /\ (live_result'.ready => live_result.ready)
        /\ live_result'.call = live_result.call
    <2>1. IsResult(live_result) BY DEF Shapes
    <2>2. live_result' \in {live_result, [live_result EXCEPT !.ready = FALSE]}
      BY <2>1, MediaLoop DEF IsResult
    <2>3. QED BY <2>1, <2>2 DEF IsResult
  <1>2. Shapes' BY <1>0, <1>1, MediaLoop DEF Shapes
  <1>3. OneQuestion' BY <1>0, <1>1 DEF OneQuestion
  <1>4. SlotsMatch' BY <1>0 DEF SlotsMatch
  <1>5. StoppedOnlyToJoin' BY <1>0 DEF StoppedOnlyToJoin
  <1>6. SnapshotsOwned' BY <1>0 DEF SnapshotsOwned
  <1>7. NoneFromOldCall' BY <1>0, <1>1 DEF NoneFromOldCall
  <1>8. QED BY <1>2, <1>3, <1>4, <1>5, <1>6, <1>7

LEMMA ControlInv == ASSUME IInv, Control PROVE IInv'
  <1> USE DEF IInv
  <1>0. /\ pc = "control" /\ pc' = "input"
        /\ UNCHANGED <<live_worker_running, live_result, live_stop, worker, resets>>
    BY DEF Control
  <1>1. IsLoop(m') BY ControlLoop
  <1>2. CASE UNCHANGED <<live_job_samples, heap, live_job_expected, live_job>>
    BY <1>0, <1>1, <1>2 DEF Shapes, OneQuestion, SlotsMatch, StoppedOnlyToJoin,
                            SnapshotsOwned, NoneFromOldCall
  <1>3. CASE /\ SearchFree /\ live_job' = TRUE
             /\ live_job_expected' = m.cp_accepted
             /\ live_job_samples'.call = resets /\ live_job_samples' # NULL
             /\ heap' = heap + 1
    <2>1. /\ ~live_job /\ ~live_worker_running /\ ~live_result.ready
          /\ live_job_samples = NULL /\ worker.samples = NULL
          /\ worker.at # "recover"
      BY <1>0, <1>3 DEF SearchFree, OneQuestion, SlotsMatch
    <2>2. Shapes' BY <1>0, <1>1, <1>3 DEF Shapes, IsLoop
    <2>3. OneQuestion' BY <1>0, <1>3, <2>1 DEF OneQuestion
    <2>4. SlotsMatch' BY <1>0, <1>3, <2>1 DEF SlotsMatch
    <2>5. StoppedOnlyToJoin' BY <1>0 DEF StoppedOnlyToJoin
    <2>6. SnapshotsOwned' BY <1>0, <1>3, <2>1 DEF SnapshotsOwned, One
    <2>7. NoneFromOldCall' BY <1>0, <1>3, <2>1 DEF NoneFromOldCall
    <2>8. QED BY <2>2, <2>3, <2>4, <2>5, <2>6, <2>7
  <1>4. QED BY <1>2, <1>3, ControlLoop

LEMMA StutterInv == ASSUME IInv, UNCHANGED vars PROVE IInv'
  BY DEF IInv, vars, shared, Shapes, OneQuestion, SlotsMatch,
         StoppedOnlyToJoin, SnapshotsOwned, NoneFromOldCall

\* The inductive invariant holds in every state of every behaviour.
LEMMA Invariance == Spec => []IInv
  <1>1. IInv /\ [Next]_vars => IInv'
    BY WorkerTakeInv, WorkerExitInv, WorkerPublishInv, StopInv, JoinInv,
       StartFrameInv, MediaInv, ControlInv, StutterInv DEF Next, Loop, Worker
  <1>2. QED BY InitInv, <1>1, PTL DEF Spec

\* Every snapshot of the live history that is allocated belongs to the job
\* slot or to the worker, for any number of tries and resets.
THEOREM SnapshotsSafe == Spec => []SnapshotsOwned
  <1>1. IInv => SnapshotsOwned BY DEF IInv
  <1>2. QED BY Invariance, <1>1, PTL

\* No job, recovery or result of an earlier call survives a reset.
THEOREM OldCallForgotten == Spec => []NoneFromOldCall
  <1>1. IInv => NoneFromOldCall BY DEF IInv
  <1>2. QED BY Invariance, <1>1, PTL

-----------------------------------------------------------------------------
(* The refinement.  The mapped state is named so that a step is about the   *)
(* three values of CpSearch only.                                           *)

Slot == IF live_job \/ live_worker_running THEN "asked"
        ELSE IF live_result.ready THEN "answered" ELSE "idle"
Question == IF live_job THEN live_job_expected
            ELSE IF live_worker_running THEN worker.expected
            ELSE live_result.ready /\ live_result.expected
Want == m.cp_accepted

Ask == Slot = "idle" /\ Slot' = "asked" /\ Question' = Want /\ Want' = Want
Answer == Slot = "asked" /\ Slot' = "answered" /\ Question' = Question /\ Want' = Want
Take == Slot = "answered" /\ Slot' = "idle" /\ Question' = FALSE /\ Want' \in {Want, TRUE}
Abandon == Slot = "asked" /\ Slot' = "idle" /\ Question' = FALSE /\ Want' = Want
NewCall == Slot' = "idle" /\ Question' = FALSE /\ Want' = FALSE
Same == Slot' = Slot /\ Question' = Question /\ Want' = Want

LEMMA WorkerMaps == ASSUME IInv, Worker PROVE Answer \/ Abandon \/ Same
  <1> USE DEF IInv
  <1>1. CASE WorkerTake
    <2>1. Slot' = Slot /\ Question' = Question /\ Want' = Want
      BY <1>1 DEF WorkerTake, OneQuestion, Slot, Question, Want
    <2>2. QED BY <2>1 DEF Same
  <1>2. CASE WorkerExit
    <2>1. worker'.expected = worker.expected
      BY <1>2 DEF WorkerExit, Shapes, IsWorker
    <2>2. QED BY <1>2, <2>1 DEF WorkerExit, shared, Same, Slot, Question, Want
  <1>3. CASE WorkerPublish
    <2>1. /\ live_worker_running /\ ~live_job /\ ~live_result.ready
          /\ ~live_worker_running' /\ ~live_job' /\ m' = m
      BY <1>3 DEF WorkerPublish, OneQuestion
    <2>2. Slot = "asked" /\ Question = worker.expected /\ Want' = Want
      BY <2>1 DEF Slot, Question, Want
    <2>3. CASE live_stop
      <3>1. live_result' = live_result BY <1>3, <2>3, PublishResult
      <3>2. Slot' = "idle" /\ Question' = FALSE
        BY <2>1, <3>1 DEF Slot, Question
      <3>3. QED BY <2>2, <3>2 DEF Abandon
    <2>4. CASE ~live_stop
      <3>1. live_result'.ready = TRUE /\ live_result'.expected = worker.expected
        BY <1>3, <2>4, PublishResult
      <3>2. worker.expected \in BOOLEAN BY DEF Shapes, IsWorker
      <3>3. Slot' = "answered" /\ Question' = worker.expected
        BY <2>1, <3>1, <3>2 DEF Slot, Question
      <3>4. QED BY <2>2, <3>3 DEF Answer
    <2>5. QED BY <2>3, <2>4
  <1>4. QED BY <1>1, <1>2, <1>3 DEF Worker

LEMMA LoopMaps == ASSUME IInv, Loop PROVE Ask \/ Take \/ NewCall \/ Same
  <1> USE DEF IInv
  <1>1. CASE Reset \/ InputEnds
    BY <1>1 DEF Reset, InputEnds, StopWorker, Same, Slot, Question, Want
  <1>2. CASE StartFrame
    BY <1>2 DEF StartFrame, shared, Same, Slot, Question, Want
  <1>3. CASE Join
    <2>1. CASE m.sample_offset = MaxFrames
      BY <1>3, <2>1 DEF Join, Same, Slot, Question, Want
    <2>2. CASE m.sample_offset # MaxFrames
      <3>1. /\ ~live_job' /\ ~live_worker_running' /\ m' = NewLoop
            /\ live_result' = NoResult
        BY <1>3, <2>2 DEF Join
      <3>2. Slot' = "idle" /\ Question' = FALSE
        BY <3>1 DEF Slot, Question, NoResult
      <3>3. Want' = FALSE BY <3>1, NewLoopIsLoop DEF Want
      <3>4. QED BY <3>2, <3>3 DEF NewCall
    <2>3. QED BY <2>1, <2>2
  <1>4. CASE Media
    <2>1. UNCHANGED <<live_job, live_job_expected, live_worker_running, worker>>
      BY <1>4 DEF Media
    <2>2. IsResult(live_result) BY DEF Shapes
    <2>3. CASE live_result' = live_result /\ m'.cp_accepted = m.cp_accepted
      BY <2>1, <2>3 DEF Same, Slot, Question, Want
    <2>4. CASE live_result.ready /\ live_result' = [live_result EXCEPT !.ready = FALSE]
      <3>1. ~live_result'.ready BY <2>2, <2>4 DEF IsResult
      <3>2. ~live_job /\ ~live_worker_running BY <2>4 DEF OneQuestion
      <3>3. Slot = "answered" /\ Slot' = "idle" /\ Question' = FALSE
        BY <2>1, <2>4, <3>1, <3>2 DEF Slot, Question
      <3>4. Want' \in {Want, TRUE} BY <1>4, MediaLoop DEF Want
      <3>5. QED BY <3>3, <3>4 DEF Take
    <2>5. QED BY <1>4, <2>3, <2>4, MediaLoop
  <1>5. CASE Control
    <2>1. UNCHANGED <<live_worker_running, live_result, worker>>
      BY <1>5 DEF Control
    <2>2. m'.cp_accepted = m.cp_accepted BY <1>5, ControlLoop
    <2>3. CASE UNCHANGED <<live_job_expected, live_job>>
      BY <2>1, <2>2, <2>3 DEF Same, Slot, Question, Want
    <2>4. CASE SearchFree /\ live_job' = TRUE /\ live_job_expected' = m.cp_accepted
      BY <2>1, <2>2, <2>4 DEF SearchFree, Ask, Slot, Question, Want
    <2>5. QED BY <1>5, <2>3, <2>4, ControlLoop
  <1>6. QED BY <1>1, <1>2, <1>3, <1>4, <1>5 DEF Loop

\* The job slot, the worker thread and the result slot implement the search
\* the media loop counts on: one question at a time, answered as it was put.
THEOREM BridgeRefines == Spec => ImplementsSearch
  <1>1. Init => Search!Init
    BY NewLoopIsLoop DEF Init, Search!Init, NoResult
  <1>2. IInv /\ [Next]_vars => [Search!Next]_(Search!searchVars)
    <2> SUFFICES ASSUME IInv, [Next]_vars
                 PROVE  [Search!Next]_(Search!searchVars)
      OBVIOUS
    <2>1. Ask \/ Answer \/ Take \/ Abandon \/ NewCall \/ Same
      <3>1. CASE UNCHANGED vars
        BY <3>1 DEF vars, shared, Same, Slot, Question, Want
      <3>2. QED BY <3>1, WorkerMaps, LoopMaps DEF Next
    <2>2. Ask => Search!Ask
      BY DEF Ask, Search!Ask, Slot, Question, Want
    <2>3. Answer => Search!Answer
      BY DEF Answer, Search!Answer, Slot, Question, Want
    <2>4. Take => Search!Take
      BY DEF Take, Search!Take, Slot, Question, Want
    <2>5. Abandon => Search!Abandon
      BY DEF Abandon, Search!Abandon, Slot, Question, Want
    <2>6. NewCall => Search!NewCall
      BY DEF NewCall, Search!NewCall, Slot, Question, Want
    <2>7. Same => UNCHANGED Search!searchVars
      BY DEF Same, Search!searchVars, Slot, Question, Want
    <2>8. QED BY <2>1, <2>2, <2>3, <2>4, <2>5, <2>6, <2>7 DEF Search!Next
  <1>3. QED BY Invariance, <1>1, <1>2, PTL DEF Spec, ImplementsSearch, Search!Spec

\* Whatever the worker is looking for, or has found and not yet reported, is
\* the kind of CP the bridge still needs when it reads the answer.
THEOREM AnswerStillWanted == Spec => []Search!AskedForWanted
  <1>1. Search!Init => Search!AskedForWanted
    BY DEF Search!Init, Search!AskedForWanted
  <1>2. Search!AskedForWanted /\ [Search!Next]_(Search!searchVars)
        => Search!AskedForWanted'
    BY DEF Search!AskedForWanted, Search!Next, Search!searchVars, Search!Ask,
           Search!Answer, Search!Take, Search!Abandon, Search!NewCall
  <1>3. QED BY BridgeRefines, <1>1, <1>2, PTL DEF ImplementsSearch, Search!Spec
=============================================================================

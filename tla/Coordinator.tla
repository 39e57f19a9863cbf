------------------------------ MODULE Coordinator ------------------------------
(***************************************************************************)
(* The Linux coordinator: one process per user that owns a durable job     *)
(* queue, answers clients, and runs at most one job at a time, either in a *)
(* worker process or on a storage thread of its own.                       *)
(*                                                                         *)
(* The loop of service.rs is cut at the points where another process or    *)
(* thread can act: pc names the stage the loop is in, and a stage with     *)
(* nothing to do is skipped.  Stages are atomic towards clients (one       *)
(* request per pass) and interleave freely with the worker, the storage    *)
(* thread, and whatever else takes operation.lock.                         *)
(*                                                                         *)
(* A game stands for its folder and its ids; a job id is its position in   *)
(* jobs.  Progress figures, messages and plans are left out.               *)
(***************************************************************************)
EXTENDS Naturals, Sequences, FiniteSets

CONSTANTS
    Games,       \* discovered games, one folder each
    Operations,  \* the operations clients may ask for
    MaxJobs,     \* bound: jobs ever queued
    ActiveLimit, \* jobs that may be active at once (200 in the code)
    PipeCap,     \* bound: lines waiting in a worker's stdin or stdout
    MaxLate,     \* bound: workers orphaned before they took the lock
    Faults       \* what may go wrong: "step" a spawn, a worker or a storage step fails,
                 \* "crash" the coordinator dies, "lock" others take operation.lock

ASSUME CoordinatorAssumption ==
    /\ Operations \subseteq {"Analyze", "Compress", "Decompress", "Pack"}
    /\ MaxJobs \in Nat /\ ActiveLimit \in Nat /\ PipeCap \in Nat /\ MaxLate \in Nat
    /\ Faults \subseteq {"step", "crash", "lock"}

VARIABLES
    pc,             \* stage of the loop, or "down"
    jobs,           \* snapshot.jobs
    rows,           \* the queue table
    excluded,       \* snapshot.excluded
    saved_excluded, \* settings row 1 and the history database
    active,         \* id of the job with a worker process, 0 for none
    sent,           \* Active.paused: the pause state last sent
    finished,       \* the loop's local: the worker is to be dropped
    worker,         \* the worker process
    control,        \* control lines in the worker's stdin
    events,         \* event lines in the worker's stdout and channel
    pack_active,    \* id of the job on the storage thread, 0 for none
    thread,         \* the storage thread and its PackControl
    locked,         \* operation.lock is held
    orphan,         \* another process holds it: an orphaned worker, or the CLI
    late            \* orphaned workers that have not tried the lock yet

queue   == <<jobs, rows>>
policy  == <<excluded, saved_excluded>>
channel == <<sent, finished, worker, control, events>>
process == <<active, channel>>
storage == <<pack_active, thread>>
others  == <<locked, orphan, late>>
vars    == <<pc, queue, policy, process, storage, others>>

-----------------------------------------------------------------------------
(* Jobs *)

ActivePhases   == {"Queued", "Analyzing", "Running", "Pausing", "Paused", "Cancelling"}
OutcomePhases  == {"Cancelled", "Completed", "Partial", "Failed"}
FinishedPhases == OutcomePhases \cup {"Interrupted"}

Job == [game: Games, operation: {"Analyze", "Compress", "Decompress", "Pack"},
        phase: ActivePhases \cup FinishedPhases, user_paused: BOOLEAN, touched: BOOLEAN]

Ids == 1 .. MaxJobs
IsActive(i) == jobs[i].phase \in ActivePhases
ActiveIds == {i \in DOMAIN jobs : IsActive(i)}
HasRunner(i) == i \in {active, pack_active}

NewJob(g, op) == [game |-> g, operation |-> op, phase |-> "Queued",
                  user_paused |-> FALSE, touched |-> FALSE]

\* The phase a job has while its runner works.
WorkingPhase(i) == IF jobs[i].operation = "Analyze" THEN "Analyzing" ELSE "Running"

\* Variant for a mutation: only a waiting job absorbs a request.
JoinedQueued(g, op) ==
    \E i \in ActiveIds : /\ jobs[i].game = g /\ jobs[i].operation = op
                         /\ jobs[i].phase = "Queued"

\* An active job for the same folder and operation absorbs the request.
Joined(g, op) == \E i \in ActiveIds : jobs[i].game = g /\ jobs[i].operation = op

\* enqueue_job accepts the request, by joining or by queueing.
Accepts(g, op) ==
    /\ g \notin excluded
    /\ \/ Joined(g, op)
       \/ Cardinality(ActiveIds) < ActiveLimit /\ Len(jobs) < MaxJobs

\* The queue or the table after enqueue_job accepted the request.
Enqueued(table, g, op) ==
    IF Joined(g, op) THEN table ELSE Append(table, NewJob(g, op))

\* Changes job i in memory and writes its row.
Save(i, job) == /\ jobs' = [jobs EXCEPT ![i] = job]
                /\ rows' = [rows EXCEPT ![i] = job]

-----------------------------------------------------------------------------
(* Processes *)

WorkerStates == {"none", "starting", "sampling", "working", "exiting", "refused", "gone"}
ThreadStates == {"none", "starting", "preparing", "entering", "committing", "ended", "panicked"}

NoWorker == [st |-> "none", paused |-> FALSE, cancel |-> FALSE, announced |-> FALSE]
NoThread == [st |-> "none", cancel |-> FALSE, paused |-> FALSE, interruptible |-> FALSE,
             announced |-> FALSE, note |-> "none", result |-> "none", promised |-> FALSE]

WorkerHolds == worker.st \in {"sampling", "working", "exiting"}
ThreadHolds == thread.st \in {"preparing", "entering", "committing"}

\* Writing to the stdin of a process that is gone fails.
PipeOpen == worker.st # "gone"

\* Lines sent to a worker that is past reading them are lost.
SendControl(line) ==
    IF worker.st \in {"exiting", "refused"} THEN UNCHANGED control
    ELSE Len(control) < PipeCap /\ control' = Append(control, line)

Init ==
    /\ pc = "down"
    /\ jobs = << >> /\ rows = << >>
    /\ excluded = {} /\ saved_excluded = {}
    /\ active = 0 /\ sent = FALSE /\ finished = FALSE
    /\ worker = NoWorker /\ control = << >> /\ events = << >>
    /\ pack_active = 0 /\ thread = NoThread
    /\ locked = FALSE /\ orphan = FALSE /\ late = 0

-----------------------------------------------------------------------------
(* Start, stop and crash of the coordinator *)

\* A job the user paused before it ever started.
NeverStarted(job) == job.phase = "Paused" /\ job.user_paused /\ ~job.touched

\* A row as open_store loads it.
Reopened(job) ==
    IF job.phase \in ActivePhases /\ job.phase # "Queued" /\ ~NeverStarted(job)
    THEN [job EXCEPT !.phase = "Interrupted"] ELSE job

open_store ==
    /\ pc = "down"
    /\ jobs' = [i \in DOMAIN rows |-> Reopened(rows[i])]
    /\ rows' = jobs'
    /\ pc' = "client"
    /\ UNCHANGED <<policy, process, storage, others>>

\* Only the database survives the process.
LoseMemory ==
    /\ pc' = "down"
    /\ jobs' = rows /\ rows' = rows
    /\ excluded' = saved_excluded /\ saved_excluded' = saved_excluded

\* The coordinator lets go of its worker.  A process that already has the lock
\* keeps it until it notices that its stdin closed.
DropWorker ==
    /\ active' = 0 /\ sent' = FALSE /\ finished' = FALSE
    /\ worker' = NoWorker /\ control' = << >> /\ events' = << >>
    /\ orphan' = (orphan \/ WorkerHolds)
    /\ late' = late + (IF worker.st = "starting" THEN 1 ELSE 0)

\* The process dies at any point.  Its storage thread dies with it.
Crash ==
    /\ "crash" \in Faults /\ pc # "down"
    /\ worker.st = "starting" => late < MaxLate
    /\ LoseMemory
    /\ DropWorker
    /\ pack_active' = 0 /\ thread' = NoThread
    /\ locked' = (locked /\ ~ThreadHolds)

\* Restart and the idle exit: both need an empty queue and no runner.
Exit ==
    /\ pc = "client"
    /\ active = 0 /\ pack_active = 0 /\ ActiveIds = {}
    /\ LoseMemory
    /\ UNCHANGED <<process, storage, others>>

-----------------------------------------------------------------------------
(* Stage 1: maintenance *)

\* A scan may find a new or updated game of an automatic library, and queues it for
\* compression.
Maintain(g) ==
    /\ pc = "client"
    /\ "Compress" \in Operations
    /\ Accepts(g, "Compress") /\ ~Joined(g, "Compress")
    /\ jobs' = Enqueued(jobs, g, "Compress")
    /\ rows' = Enqueued(rows, g, "Compress")
    /\ UNCHANGED <<pc, policy, process, storage, others>>

-----------------------------------------------------------------------------
(* Stage 2: at most one client request *)

\* The parts of the state no request changes.
Replies == /\ pc = "client" /\ pc' = "drive"
           /\ UNCHANGED <<active, sent, finished, worker, events, pack_active, others>>

\* No client, or a request that is refused or changes nothing here.
NoRequest == Replies /\ UNCHANGED <<queue, policy, control, thread>>

\* preempt_analysis sends Cancel to a worker that analyses.
Preempts(op) == /\ op # "Analyze" /\ active # 0 /\ PipeOpen
                /\ jobs[active].operation = "Analyze"

Enqueue(g, op) ==
    /\ Replies
    /\ Accepts(g, op)
    /\ IF Preempts(op)
       THEN LET stopped == [jobs[active] EXCEPT !.phase = "Cancelling"]
            IN /\ SendControl("cancel")
               /\ jobs' = Enqueued([jobs EXCEPT ![active] = stopped], g, op)
               /\ rows' = Enqueued([rows EXCEPT ![active] = stopped], g, op)
       ELSE /\ jobs' = Enqueued(jobs, g, op)
            /\ rows' = Enqueued(rows, g, op)
            /\ UNCHANGED control
    /\ UNCHANGED <<policy, thread>>

Retry(i) ==
    /\ Replies
    /\ ~IsActive(i)
    /\ Accepts(jobs[i].game, jobs[i].operation)
    /\ jobs' = Enqueued(jobs, jobs[i].game, jobs[i].operation)
    /\ rows' = Enqueued(rows, jobs[i].game, jobs[i].operation)
    /\ UNCHANGED <<policy, control, thread>>

\* Only a job nothing is running changes phase at once.  A pause of the storage
\* job is refused while its step must finish.
Pause(i, paused) ==
    /\ Replies
    /\ IsActive(i)
    /\ i = pack_active => thread.interruptible
    /\ LET idle == jobs[i].phase = "Queued" \/ (jobs[i].phase = "Paused" /\ ~HasRunner(i))
       IN Save(i, [jobs[i] EXCEPT
              !.user_paused = paused,
              !.phase = IF ~idle THEN @ ELSE IF paused THEN "Paused" ELSE "Queued"])
    /\ thread' = IF i = pack_active THEN [thread EXCEPT !.paused = paused] ELSE thread
    /\ UNCHANGED <<policy, control>>

CancelWorker(i) ==
    /\ Replies
    /\ i = active /\ PipeOpen
    /\ SendControl("cancel")
    /\ Save(i, [jobs[i] EXCEPT !.phase = "Cancelling"])
    /\ UNCHANGED <<policy, thread>>

\* request_control, under the transition lock, then apply.
CancelStorage(i) ==
    /\ Replies
    /\ i = pack_active /\ thread.interruptible
    /\ thread' = [thread EXCEPT !.cancel = TRUE, !.promised = TRUE]
    /\ Save(i, [jobs[i] EXCEPT !.phase = "Cancelling"])
    /\ UNCHANGED <<policy, control>>

\* Variants for mutations: a job that ended is cancelled too, or the row is not written.
CancelIdleAny(i) ==
    /\ Replies
    /\ ~HasRunner(i)
    /\ Save(i, [jobs[i] EXCEPT !.phase = "Cancelled"])
    /\ UNCHANGED <<policy, control, thread>>

CancelIdleUnsaved(i) ==
    /\ Replies
    /\ ~HasRunner(i) /\ IsActive(i)
    /\ jobs' = [jobs EXCEPT ![i].phase = "Cancelled"]
    /\ UNCHANGED <<rows, policy, control, thread>>

CancelIdle(i) ==
    /\ Replies
    /\ ~HasRunner(i) /\ IsActive(i)
    /\ Save(i, [jobs[i] EXCEPT !.phase = "Cancelled"])
    /\ UNCHANGED <<policy, control, thread>>

\* Variant for a mutation: the worker is left to find out by itself.
ExcludeQuietly(g) ==
    LET stop(table) == [i \in DOMAIN table |->
            IF i \in ActiveIds /\ jobs[i].game = g /\ ~HasRunner(i)
            THEN [jobs[i] EXCEPT !.phase = "Cancelled"] ELSE table[i]]
    IN /\ Replies
       /\ jobs' = stop(jobs) /\ rows' = stop(rows)
       /\ excluded' = excluded \cup {g} /\ saved_excluded' = saved_excluded \cup {g}
       /\ UNCHANGED <<control, thread>>

\* Excluding visits the game's active jobs in order and gives up at a worker it
\* cannot reach.  The id is taken off the list before, and put on it after.
Exclude(g) ==
    LET hit    == {i \in ActiveIds : jobs[i].game = g}
        failed == active \in hit /\ ~PipeOpen
        done   == IF failed THEN {i \in hit : i < active} ELSE hit
        stop(table) == [i \in DOMAIN table |->
            IF i \in done
            THEN [jobs[i] EXCEPT !.phase = IF HasRunner(i) THEN "Cancelling" ELSE "Cancelled"]
            ELSE table[i]]
    IN /\ Replies
       /\ jobs' = stop(jobs) /\ rows' = stop(rows)
       /\ IF active \in done
          THEN SendControl("cancel")
          ELSE UNCHANGED control
       /\ excluded' = IF failed THEN excluded \ {g} ELSE excluded \cup {g}
       /\ saved_excluded' = IF failed THEN saved_excluded ELSE saved_excluded \cup {g}
       /\ UNCHANGED thread

Include(g) ==
    /\ Replies
    /\ excluded' = excluded \ {g}
    /\ saved_excluded' = saved_excluded \ {g}
    /\ UNCHANGED <<queue, control, thread>>

-----------------------------------------------------------------------------
(* Stage 3: drive the worker *)

\* A job is held while the user asked for it, while a game runs and while its own
\* game is missing or busy.  ready are the games that scans and process checks let
\* work go on for; every pass reads them anew.
Held(i, ready) == jobs[i].user_paused \/ jobs[i].game \notin ready

\* A pause line goes out when the wanted state differs from the one last sent.
\* A worker that cannot be written to has its job recorded as Interrupted.
Drive(ready) ==
    LET held  == Held(active, ready)
        sends == active # 0 /\ held # sent /\ jobs[active].phase # "Cancelling"
    IN /\ pc = "drive"
       /\ pc' = IF active # 0 THEN "events" ELSE IF pack_active # 0 THEN "pack" ELSE "choose"
       /\ CASE sends /\ PipeOpen ->
                 /\ SendControl(IF held THEN "pause" ELSE "resume")
                 /\ sent' = held
                 /\ jobs' = [jobs EXCEPT ![active].phase =
                                 IF held THEN "Pausing" ELSE WorkingPhase(active)]
                 /\ UNCHANGED <<rows, finished>>
            [] sends /\ ~PipeOpen ->
                 /\ finished' = TRUE
                 /\ Save(active, [jobs[active] EXCEPT !.phase = "Interrupted"])
                 /\ UNCHANGED <<control, sent>>
            [] OTHER -> UNCHANGED <<queue, control, sent, finished>>
       /\ UNCHANGED <<policy, active, worker, events, storage, others>>

\* The reader thread reports the end of the worker's output as a failure.
Disconnected == worker.st = "gone" /\ events = << >>

\* event applies a line that leaves the job running.
ApplyUpdate ==
    /\ pc = "events" /\ events # << >>
    /\ Head(events) \in {"Paused", "Resumed"}
    /\ jobs' = [jobs EXCEPT ![active].phase =
                    IF Head(events) = "Paused" THEN "Paused" ELSE "Running"]
    /\ events' = Tail(events)
    /\ UNCHANGED <<pc, rows, policy, active, sent, finished, worker, control,
                   storage, others>>

\* event applies the line that ends the job, and the worker is let go.
ApplyOutcome ==
    /\ pc = "events"
    /\ \/ events # << >> /\ Head(events) \in OutcomePhases
       \/ Disconnected
    /\ Save(active, [jobs[active] EXCEPT
           !.phase = IF Disconnected THEN "Failed" ELSE Head(events)])
    /\ DropWorker
    /\ pc' = "choose"
    /\ UNCHANGED <<policy, storage, locked>>

\* No more lines have been read yet, or 256 were applied.  The elapsed time and,
\* at most once a second, the row are brought up to date.
EventsRead ==
    /\ pc = "events"
    /\ \E touched \in {jobs[active].touched, TRUE}, save \in BOOLEAN :
          /\ jobs' = [jobs EXCEPT ![active].touched = touched]
          /\ rows' = IF save THEN [rows EXCEPT ![active] = jobs'[active]] ELSE rows
    /\ IF finished THEN DropWorker
       ELSE UNCHANGED <<process, orphan, late>>
    /\ pc' = "choose"
    /\ UNCHANGED <<policy, storage, locked>>

-----------------------------------------------------------------------------
(* Stage 4: drive the storage thread *)

\* The phase after the thread's notices were drained; the last one wins.
Noted(phase) == CASE thread.note = "Paused"  -> "Paused"
                  [] thread.note = "Resumed" -> "Running"
                  [] OTHER -> phase

\* The exclusion check of run and the first half of poll_pack.  A game missing
\* from the scan counts as it did when last seen.
PollThread(ready, missing) ==
    LET job == jobs[pack_active]
    IN /\ pc = "pack"
       /\ pc' = "reap"
       /\ thread' = [thread EXCEPT
              !.cancel = @ \/ job.phase = "Cancelling"
                           \/ (job.game \in excluded /\ thread.interruptible),
              !.paused = job.user_paused \/ (job.game \notin ready /\ ~missing),
              !.note = "none"]
       /\ \E touched \in {job.touched, TRUE} :
             Save(pack_active, [job EXCEPT !.phase = Noted(@), !.touched = touched])
       /\ UNCHANGED <<policy, process, pack_active, others>>

\* The second half of poll_pack: a thread that ended hands back its result.
ReapThread ==
    /\ pc = "reap"
    /\ pc' = "choose"
    /\ IF thread.st \in {"ended", "panicked"}
       THEN /\ Save(pack_active, [jobs[pack_active] EXCEPT
                   !.phase = IF thread.st = "panicked" THEN "Interrupted"
                             ELSE IF thread.result = "ok" THEN "Completed"
                             ELSE IF thread.cancel THEN "Cancelled" ELSE "Failed"])
            /\ pack_active' = 0 /\ thread' = NoThread
       ELSE UNCHANGED <<queue, storage>>
    /\ UNCHANGED <<policy, process, others>>

-----------------------------------------------------------------------------
(* Stage 5: choose the next job *)

Candidates(ready) ==
    {i \in DOMAIN jobs : /\ jobs[i].phase = "Queued" /\ ~jobs[i].user_paused
                         /\ jobs[i].game \in ready \ excluded}

\* Requested work goes before analysis, then the lowest id.
Before(i, j) ==
    IF jobs[i].operation = "Analyze" THEN jobs[j].operation = "Analyze" /\ i < j
    ELSE jobs[j].operation = "Analyze" \/ i < j

IsNext(i, ready) ==
    i \in Candidates(ready) /\ \A j \in Candidates(ready) \ {i} : Before(i, j)

\* The job that start and start_pack are given.  Its row is written first.
Starts(i) == /\ pc = "choose" /\ pc' = "client"
             /\ active = 0 /\ pack_active = 0
             /\ \E ready \in SUBSET Games : IsNext(i, ready)

StartWorker(i) ==
    /\ Starts(i)
    /\ jobs[i].operation # "Pack"
    /\ Save(i, [jobs[i] EXCEPT !.phase = WorkingPhase(i)])
    /\ active' = i /\ sent' = FALSE /\ finished' = FALSE
    /\ worker' = [NoWorker EXCEPT !.st = "starting"]
    /\ control' = << >> /\ events' = << >>
    /\ UNCHANGED <<policy, storage, others>>

StartThread(i) ==
    /\ Starts(i)
    /\ jobs[i].operation = "Pack"
    /\ Save(i, [jobs[i] EXCEPT !.phase = "Running"])
    /\ pack_active' = i
    /\ thread' = [NoThread EXCEPT !.st = "starting", !.interruptible = TRUE]
    /\ UNCHANGED <<policy, process, others>>

StartFails(i) ==
    /\ "step" \in Faults
    /\ Starts(i)
    /\ Save(i, [jobs[i] EXCEPT !.phase = "Failed"])
    /\ UNCHANGED <<policy, process, storage, others>>

NothingToStart ==
    /\ pc = "choose" /\ pc' = "client"
    /\ UNCHANGED <<queue, policy, process, storage, others>>

-----------------------------------------------------------------------------
(* The worker process *)

WorkerOnly == UNCHANGED <<pc, queue, policy, active, sent, finished, storage,
                          orphan, late>>

Emits(event) == Len(events) < PipeCap /\ events' = Append(events, event)

\* Without the lock the worker fails at once.  With it, it first looks the game up
\* in the history database.
WorkerStarts ==
    /\ worker.st = "starting"
    /\ LET refused == jobs[active].game \in saved_excluded
       IN /\ worker' = [worker EXCEPT !.st =
                            IF locked THEN "refused"
                            ELSE IF refused THEN "exiting"
                            ELSE IF jobs[active].operation = "Decompress" THEN "working"
                            ELSE "sampling"]
          /\ IF locked \/ refused THEN Emits("Failed") ELSE UNCHANGED events
    /\ locked' = TRUE
    /\ UNCHANGED control /\ WorkerOnly

\* Variant for a mutation: a resume line is ignored.
WorkerReadsPauses ==
    /\ worker.st \in {"sampling", "working"} /\ control # << >>
    /\ control' = Tail(control)
    /\ worker' = [worker EXCEPT !.cancel = @ \/ Head(control) = "cancel",
                                !.paused = @ \/ Head(control) = "pause"]
    /\ UNCHANGED <<events, locked>> /\ WorkerOnly

\* The control thread applies one line.
WorkerReads ==
    /\ worker.st \in {"sampling", "working"} /\ control # << >>
    /\ control' = Tail(control)
    /\ worker' = [worker EXCEPT
           !.cancel = @ \/ Head(control) = "cancel",
           !.paused = IF Head(control) = "cancel" THEN @ ELSE Head(control) = "pause"]
    /\ UNCHANGED <<events, locked>> /\ WorkerOnly

\* wait_while_busy announces the first wait and, once free, its end.
WorkerPauses ==
    /\ worker.st \in {"sampling", "working"}
    /\ worker.paused /\ ~worker.cancel /\ ~worker.announced
    /\ Emits("Paused")
    /\ worker' = [worker EXCEPT !.announced = TRUE]
    /\ UNCHANGED <<control, locked>> /\ WorkerOnly

WorkerResumes ==
    /\ worker.st \in {"sampling", "working"}
    /\ worker.announced /\ ~worker.paused
    /\ Emits("Resumed")
    /\ worker' = [worker EXCEPT !.announced = FALSE]
    /\ UNCHANGED <<control, locked>> /\ WorkerOnly

\* Variant for a mutation: only a resume ends a wait.
WorkerMovesResumed == ~worker.announced

\* A wait also ends when the job is cancelled.
WorkerMoves == worker.announced => worker.paused /\ worker.cancel

\* Sampling is over: an analysis is done, a compression goes on to rewrite.
WorkerSampled ==
    /\ worker.st = "sampling" /\ ~worker.announced /\ ~worker.cancel
    /\ jobs[active].operation # "Analyze"
    /\ worker' = [worker EXCEPT !.st = "working"]
    /\ UNCHANGED <<control, events, locked>> /\ WorkerOnly

\* The worker's last line.  A cancel can come too late to be noticed.  The hashing
\* and small-file sampling report a cancel as an error, which ends in Failed.
WorkerEnds(outcome) ==
    /\ worker.st \in {"sampling", "working"} /\ WorkerMoves
    /\ CASE outcome = "Cancelled" -> worker.cancel
         [] outcome = "Failed"    -> "step" \in Faults \/ (worker.cancel /\ worker.st = "sampling")
         [] outcome = "Partial"   -> "step" \in Faults /\ ~worker.announced
         [] OTHER                 -> ~worker.announced /\
              (worker.st = "sampling" => jobs[active].operation = "Analyze")
    /\ Emits(outcome)
    /\ worker' = [NoWorker EXCEPT !.st = "exiting"]
    /\ control' = << >>
    /\ UNCHANGED locked /\ WorkerOnly

\* The process is gone, and with it its hold on the lock.
WorkerGone ==
    /\ worker' = [NoWorker EXCEPT !.st = "gone"]
    /\ control' = << >>
    /\ locked' = (locked /\ ~WorkerHolds)
    /\ UNCHANGED events /\ WorkerOnly

WorkerExits == worker.st \in {"exiting", "refused"} /\ WorkerGone

WorkerDies == /\ "step" \in Faults
              /\ worker.st \notin {"none", "gone"}
              /\ WorkerGone

-----------------------------------------------------------------------------
(* The storage thread *)

ThreadOnly == UNCHANGED <<pc, queue, policy, process, pack_active, orphan, late>>

\* Variant for a mutation: the lock is not tried.
ThreadStartsAnyway ==
    /\ thread.st = "starting"
    /\ thread' = [thread EXCEPT !.st = "preparing"]
    /\ locked' = TRUE
    /\ ThreadOnly

ThreadStarts ==
    /\ thread.st = "starting"
    /\ thread' = IF locked THEN [thread EXCEPT !.st = "ended", !.result = "failed"]
                 ELSE [thread EXCEPT !.st = "preparing"]
    /\ locked' = TRUE
    /\ ThreadOnly

\* checkpoint: a cancel ends the task, a pause holds it.
ThreadStops ==
    /\ thread.st = "preparing" /\ thread.cancel
    /\ thread' = [thread EXCEPT !.st = "ended", !.result = "stopped"]
    /\ locked' = FALSE
    /\ ThreadOnly

ThreadPauses ==
    /\ thread.st = "preparing" /\ ~thread.cancel /\ thread.paused /\ ~thread.announced
    /\ thread' = [thread EXCEPT !.announced = TRUE, !.note = "Paused"]
    /\ UNCHANGED locked /\ ThreadOnly

ThreadResumes ==
    /\ thread.st = "preparing" /\ ~thread.paused /\ thread.announced
    /\ thread' = [thread EXCEPT !.announced = FALSE, !.note = "Resumed"]
    /\ UNCHANGED locked /\ ThreadOnly

\* transaction, first half: its checkpoint passes.
ThreadEnters ==
    /\ thread.st = "preparing" /\ ~thread.cancel /\ ~thread.paused /\ ~thread.announced
    /\ thread' = [thread EXCEPT !.st = "entering"]
    /\ UNCHANGED locked /\ ThreadOnly

\* Variant for a mutation: the cancel flag is not read again.
ThreadCommitsBlindly ==
    /\ thread.st = "entering"
    /\ thread' = [thread EXCEPT !.interruptible = FALSE, !.st = "committing"]
    /\ UNCHANGED locked /\ ThreadOnly

\* transaction, second half, under the transition lock: no request is accepted from
\* here on, and one accepted before is seen here.
ThreadCommits ==
    /\ thread.st = "entering"
    /\ thread' = IF thread.cancel
                 THEN [thread EXCEPT !.interruptible = FALSE, !.st = "ended",
                                     !.result = "stopped"]
                 ELSE [thread EXCEPT !.interruptible = FALSE, !.st = "committing"]
    /\ locked' = ~thread.cancel
    /\ ThreadOnly

\* A creation or verification ends without a transaction.
ThreadEnds(result) ==
    /\ thread.st \in {"preparing", "committing"} /\ ~thread.announced
    /\ result = "ok" \/ "step" \in Faults
    /\ thread' = [thread EXCEPT !.st = "ended", !.result = result]
    /\ locked' = FALSE
    /\ ThreadOnly

\* A panic of the storage thread, which only builds that unwind report to the loop; the
\* profiles of Cargo.toml abort instead, and that is Crash.
ThreadPanics ==
    /\ "step" \in Faults /\ ThreadHolds
    /\ thread' = [thread EXCEPT !.st = "panicked"]
    /\ locked' = FALSE
    /\ ThreadOnly

-----------------------------------------------------------------------------
(* Other users of operation.lock *)

Elsewhere == UNCHANGED <<pc, queue, policy, process, storage>>

\* A worker orphaned early still tries the lock, then sees its stdin closed.
OrphanStarts ==
    /\ late > 0
    /\ late' = late - 1
    /\ orphan' = (orphan \/ ~locked)
    /\ locked' = TRUE
    /\ Elsewhere

\* A command-line override takes the lock for its own rewrite.
CliStarts ==
    /\ "lock" \in Faults /\ ~locked
    /\ orphan' = TRUE /\ locked' = TRUE
    /\ UNCHANGED late /\ Elsewhere

OrphanExits ==
    /\ orphan
    /\ orphan' = FALSE /\ locked' = FALSE
    /\ UNCHANGED late /\ Elsewhere

-----------------------------------------------------------------------------

Request ==
    \/ NoRequest
    \/ \E g \in Games : \/ \E op \in Operations : Enqueue(g, op)
                        \/ Exclude(g) \/ Include(g)
    \/ \E i \in DOMAIN jobs : \/ Retry(i)
                              \/ \E paused \in BOOLEAN : Pause(i, paused)
                              \/ CancelWorker(i) \/ CancelStorage(i) \/ CancelIdle(i)

Pass == \/ (\E g \in Games : Maintain(g)) \/ Request
        \/ (\E ready \in SUBSET Games : Drive(ready)) \/ ApplyUpdate \/ ApplyOutcome \/ EventsRead
        \/ (\E ready \in SUBSET Games, missing \in BOOLEAN : PollThread(ready, missing))
        \/ ReapThread
        \/ (\E i \in DOMAIN jobs : StartWorker(i) \/ StartThread(i) \/ StartFails(i))
        \/ NothingToStart

\* The worker's main thread; its control thread is WorkerReads.
WorkerWorks == \/ WorkerStarts \/ WorkerPauses \/ WorkerResumes
               \/ WorkerSampled \/ WorkerExits
               \/ \E outcome \in OutcomePhases : WorkerEnds(outcome)

ThreadStep == \/ ThreadStarts \/ ThreadStops \/ ThreadPauses \/ ThreadResumes
              \/ ThreadEnters \/ ThreadCommits
              \/ \E result \in {"ok", "failed"} : ThreadEnds(result)

Environment == WorkerDies \/ ThreadPanics \/ Crash \/ Exit \/ OrphanStarts \/ OrphanExits \/ CliStarts

Next == open_store \/ Pass \/ WorkerReads \/ WorkerWorks \/ ThreadStep \/ Environment

Spec == Init /\ [][Next]_vars

\* The loop goes round every 50 ms, the reader thread delivers what a worker wrote, and
\* a process or thread that can go on does.
Fairness ==
    /\ WF_vars(Pass) /\ SF_vars(ApplyUpdate \/ ApplyOutcome)
    /\ WF_vars(WorkerReads) /\ WF_vars(WorkerWorks) /\ WF_vars(ThreadStep)

FairSpec == Spec /\ Fairness

-----------------------------------------------------------------------------
(* Safety *)

Lines(seq) == {seq[k] : k \in DOMAIN seq}

TablesOK == jobs \in Seq(Job) /\ rows \in Seq(Job) /\ DOMAIN rows = DOMAIN jobs

LoopOK == /\ pc \in {"down", "client", "drive", "events", "pack", "reap", "choose"}
          /\ excluded \subseteq Games /\ saved_excluded \subseteq Games
          /\ active \in {0} \cup DOMAIN jobs /\ pack_active \in {0} \cup DOMAIN jobs
          /\ sent \in BOOLEAN /\ finished \in BOOLEAN

WorkerOK == worker \in [st : WorkerStates, paused : BOOLEAN, cancel : BOOLEAN,
                        announced : BOOLEAN]

PipesOK == /\ control \in Seq({"pause", "resume", "cancel"})
           /\ events \in Seq({"Paused", "Resumed"} \cup OutcomePhases)

ThreadOK == thread \in [st : ThreadStates, cancel : BOOLEAN, paused : BOOLEAN,
                        interruptible : BOOLEAN, announced : BOOLEAN,
                        note : {"none", "Paused", "Resumed"},
                        result : {"none", "ok", "stopped", "failed"}, promised : BOOLEAN]

LockOK == locked \in BOOLEAN /\ orphan \in BOOLEAN /\ late \in Nat

\* Every variable holds a value of the kind the code keeps in it, and a runner is always
\* the runner of a job in the queue.
TypeOK == TablesOK /\ LoopOK /\ WorkerOK /\ PipesOK /\ ThreadOK /\ LockOK

\* At most one active job covers a folder with an operation, in the queue and in the
\* table a restart loads: what enqueue_job's test for duplicates promises, for every
\* way a job can become active or stay so.
OneJobPerFolder ==
    \A i, j \in DOMAIN jobs :
        /\ i # j /\ jobs[i].game = jobs[j].game /\ jobs[i].operation = jobs[j].operation
        => ~(IsActive(i) /\ IsActive(j))

\* Whoever rewrites a game's files holds operation.lock alone: never two workers, or
\* a worker and the storage thread, across crashes and command-line overrides.
OneWriter == Cardinality({p \in {"worker", "thread", "orphan"} :
                            CASE p = "worker" -> WorkerHolds
                              [] p = "thread" -> ThreadHolds
                              [] OTHER -> orphan}) <= 1

\* A job that is about to pause or to stop has somebody who can do so.  Without a
\* runner it could never leave that phase.
StoppingHasRunner ==
    pc # "down" => \A i \in DOMAIN jobs :
        jobs[i].phase \in {"Pausing", "Cancelling"} => HasRunner(i)

\* No worker rewrites an excluded game without having been told to stop, whatever the
\* order of the exclusion, the worker's start and its look at the history database.
ExcludedStops ==
    worker.st \in {"sampling", "working"} /\ jobs[active].game \in saved_excluded
    => worker.cancel \/ "cancel" \in Lines(control)

\* What clients are shown as finished is on disk: no crash takes an outcome back.
OutcomeDurable ==
    \A i \in DOMAIN jobs :
        jobs[i].phase \in FinishedPhases => rows[i].phase = jobs[i].phase

\* A cancel of the storage job that was accepted is honoured: the task never enters
\* the step that must finish (PackControl.transition).
PromiseKept == thread.promised => thread.st # "committing"

\* What the user set on a job, and every exclusion in force, survives a crash.
ChoicesDurable ==
    /\ \A i \in DOMAIN jobs : rows[i].user_paused = jobs[i].user_paused
    /\ excluded \subseteq saved_excluded

\* A crash at any point leaves no job without whoever ends it and takes back nothing that
\* clients were shown: the table and memory agree on outcomes, choices and runners.
Durable == TypeOK /\ StoppingHasRunner /\ ChoicesDurable /\ OutcomeDurable

\* A job that ended stays as it ended; only a new job retries it.
OutcomeStays ==
    [][\A i \in DOMAIN jobs :
         jobs[i].phase \in OutcomePhases => jobs'[i].phase = jobs[i].phase]_vars

\* A cancel that was accepted ends the job, whether its runner is working, waiting or in
\* a step that must finish, and even though a late notice can hide that it stops.
CancelEnds ==
    \A i \in Ids : (i \in DOMAIN jobs /\ pc # "down" /\ jobs[i].phase = "Cancelling")
                   ~> (pc = "down" \/ (i \in DOMAIN jobs => jobs[i].phase \in FinishedPhases))

\* A step that finds nothing outside holding work back: no game runs or is missing.
NothingHeld ==
    /\ pc = "drive" /\ pc' \notin {"drive", "down"} => Drive(Games)
    /\ pc = "pack" /\ pc' = "reap" => PollThread(Games, FALSE)
    /\ pc = "choose" /\ pc' = "client" /\ active' = active /\ pack_active' = pack_active
       => active # 0 \/ pack_active # 0 \/ Candidates(Games) = {} \/ jobs' # jobs

\* Once nobody keeps a job paused, excluded, or the coordinator down, and no game holds
\* work back, every queued job gets its turn: none is overtaken for ever and no runner
\* keeps the only slot.
QueuedStarts ==
    /\ <>[](/\ pc # "down"
            /\ \A j \in DOMAIN jobs : ~jobs[j].user_paused /\ jobs[j].game \notin excluded)
    /\ <>[][NothingHeld]_vars
    => \A i \in Ids : (i \in DOMAIN jobs /\ jobs[i].phase = "Queued")
                      ~> (i \in DOMAIN jobs => jobs[i].phase # "Queued")

-----------------------------------------------------------------------------
(* What the repository says and the code does not keep *)

\* Phase::Running, Analyzing and Pausing: a worker or storage thread is running.
RunningHasRunner ==
    pc = "client" => \A i \in DOMAIN jobs :
        jobs[i].phase \in {"Analyzing", "Running", "Pausing"} => HasRunner(i)

\* An analysis has its own phase, Analyzing.
AnalyzingPhase ==
    \A i \in DOMAIN jobs : jobs[i].operation = "Analyze" => jobs[i].phase # "Running"

\* Cancelling leads to an outcome and to nothing else.
CancellingStays ==
    [][\A i \in DOMAIN jobs : jobs[i].phase = "Cancelling"
         => jobs'[i].phase \in {"Cancelling"} \cup FinishedPhases]_vars

\* A worker that was told to stop, and met no fault, does not report a failure.
CancelReported ==
    [][WorkerHolds /\ worker.cancel /\ Len(events') > Len(events)
       => events'[Len(events')] # "Failed"]_vars

\* A storage task whose final step returned an error is recorded as Failed.
FailureReported ==
    [][pc = "reap" /\ pc' = "choose" /\ pack_active' # pack_active
       /\ thread.result = "failed" /\ ~thread.interruptible
       => jobs'[pack_active].phase = "Failed"]_vars

\* Only a request to restore a game takes it off the exclusion list.
ExclusionKept ==
    [][\A g \in excluded : g \in saved_excluded' => g \in excluded']_vars

=============================================================================

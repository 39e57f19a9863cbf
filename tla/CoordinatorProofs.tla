--------------------------- MODULE CoordinatorProofs ---------------------------
(***************************************************************************)
(* What is proved of the coordinator: its types, that one writer is at     *)
(* work at a time, and then what the queue promises.                       *)
(***************************************************************************)
EXTENDS Coordinator, SequenceTheorems, FiniteSetTheorems, TLAPS

-----------------------------------------------------------------------------
(* Lemmas about tables of jobs *)

\* A function on the same positions with members of the same set is a sequence too.
LEMMA SameLength ==
    ASSUME NEW S, NEW s \in Seq(S), NEW t, t = [i \in DOMAIN s |-> t[i]],
           \A i \in DOMAIN s : t[i] \in S
    PROVE  t \in Seq(S) /\ DOMAIN t = DOMAIN s
<1>1. PICK n \in Nat : s \in [1 .. n -> S]
  BY SeqDef
<1>2. DOMAIN s = 1 .. n
  BY <1>1
<1>3. t \in [1 .. n -> S]
  BY <1>2
<1> QED
  BY <1>1, <1>2, <1>3, SeqDef

LEMMA UpdatedSeq ==
    ASSUME NEW S, NEW s \in Seq(S), NEW i \in DOMAIN s, NEW x \in S
    PROVE  [s EXCEPT ![i] = x] \in Seq(S) /\ DOMAIN [s EXCEPT ![i] = x] = DOMAIN s
<1> DEFINE t == [s EXCEPT ![i] = x]
<1>1. \A k \in DOMAIN s : s[k] \in S
  BY ElementOfSeq, LenProperties
<1>2. t = [k \in DOMAIN s |-> t[k]] /\ \A k \in DOMAIN s : t[k] \in S
  BY <1>1
<1> QED
  BY <1>2, SameLength

LEMMA AppendSeq ==
    ASSUME NEW S, NEW s \in Seq(S), NEW x \in S
    PROVE  /\ Append(s, x) \in Seq(S)
           /\ DOMAIN Append(s, x) = DOMAIN s \cup {Len(s) + 1}
           /\ Len(s) + 1 \notin DOMAIN s
           /\ \A k \in DOMAIN s : Append(s, x)[k] = s[k]
           /\ Append(s, x)[Len(s) + 1] = x
  BY AppendProperties, LenProperties

\* Saving a well-formed job keeps both tables well-formed.
LEMMA SaveTables ==
    ASSUME TablesOK, NEW i \in DOMAIN jobs, NEW job \in Job, Save(i, job)
    PROVE  TablesOK' /\ DOMAIN jobs' = DOMAIN jobs
  BY UpdatedSeq DEF TablesOK, Save

LEMMA PhaseChange ==
    ASSUME TablesOK, NEW i \in DOMAIN jobs, NEW p \in ActivePhases \cup FinishedPhases
    PROVE  /\ jobs[i] \in Job
           /\ [jobs[i] EXCEPT !.phase = p] \in Job
           /\ [jobs[i] EXCEPT !.phase = p].phase = p
<1>1. jobs[i] \in Job
  BY ElementOfSeq, LenProperties DEF TablesOK
<1> QED
  BY <1>1 DEF Job

LEMMA EnqueuedSeq ==
    ASSUME NEW table \in Seq(Job), NEW g \in Games, NEW op \in Operations
    PROVE  /\ Enqueued(table, g, op) \in Seq(Job)
           /\ DOMAIN table \subseteq DOMAIN Enqueued(table, g, op)
           /\ NewJob(g, op) \in Job
<1>1. NewJob(g, op) \in Job
  BY CoordinatorAssumption DEF NewJob, Job, ActivePhases
<1> QED
  BY <1>1, AppendSeq DEF Enqueued

-----------------------------------------------------------------------------
(* Type correctness *)

\* Which stages and processes go with a job that runs.
Runners ==
    /\ active # 0 <=> worker.st # "none"
    /\ pack_active # 0 <=> thread.st # "none"
    /\ pc = "events" => active # 0
    /\ pc \in {"pack", "reap"} => pack_active # 0
    /\ pc = "down" => active = 0 /\ pack_active = 0

TypeInv == TypeOK /\ Runners

USE CoordinatorAssumption

LEMMA TypeInit == Init => TypeInv
<1> USE DEF Init
<1>1. Init => TablesOK
  BY EmptySeq DEF TablesOK
<1>2. Init => LoopOK
  BY DEF LoopOK
<1>6. Init => LockOK
  <2>1. Init => locked \in BOOLEAN /\ orphan \in BOOLEAN
    BY Zenon
  <2>2. Init => late \in Nat
    BY SMT
  <2> QED
    BY <2>1, <2>2 DEF LockOK
<1>3. Init => PipesOK
  BY EmptySeq DEF PipesOK
<1>4. Init => WorkerOK /\ ThreadOK
  BY DEF WorkerOK, ThreadOK, NoWorker, NoThread, WorkerStates, ThreadStates
<1>5. Init => Runners
  BY DEF Runners, NoWorker, NoThread
<1> QED
  BY <1>1, <1>2, <1>3, <1>4, <1>5, <1>6 DEF TypeInv, TypeOK

\* The pipes keep their types.
LEMMA SendType ==
    ASSUME control \in Seq({"pause", "resume", "cancel"}),
           NEW line \in {"pause", "resume", "cancel"}, SendControl(line)
    PROVE  control' \in Seq({"pause", "resume", "cancel"})
  BY AppendProperties DEF SendControl

LEMMA EmitType ==
    ASSUME events \in Seq({"Paused", "Resumed"} \cup OutcomePhases),
           NEW event \in {"Paused", "Resumed"} \cup OutcomePhases, Emits(event)
    PROVE  events' \in Seq({"Paused", "Resumed"} \cup OutcomePhases)
  BY AppendProperties DEF Emits

LEMMA DropType ==
    ASSUME LockOK, DropWorker
    PROVE  /\ active' = 0 /\ worker' = NoWorker
           /\ sent' = FALSE /\ finished' = FALSE
           /\ PipesOK' /\ WorkerOK' /\ orphan' \in BOOLEAN /\ late' \in Nat
<1>1. PipesOK'
  BY EmptySeq DEF DropWorker, PipesOK
<1>2. WorkerOK'
  BY DEF DropWorker, WorkerOK, NoWorker, WorkerStates
<1>3. orphan' \in BOOLEAN /\ late' \in Nat
  BY DEF DropWorker, LockOK, WorkerHolds
<1> QED
  BY <1>1, <1>2, <1>3 DEF DropWorker

LEMMA TypeWorker ==
    ASSUME TypeInv, WorkerReads \/ WorkerWorks \/ WorkerDies
    PROVE  TypeInv'
<1> USE DEF TypeInv, TypeOK
<1> SUFFICES TablesOK' /\ LoopOK' /\ ThreadOK' /\ LockOK' /\ WorkerOK' /\ PipesOK' /\ Runners'
  OBVIOUS
<1>1. WorkerOnly
  BY DEF WorkerWorks, WorkerReads, WorkerStarts, WorkerPauses, WorkerResumes, WorkerSampled,
     WorkerExits, WorkerDies, WorkerGone, WorkerEnds
<1>2. TablesOK' /\ LoopOK' /\ ThreadOK'
  BY <1>1 DEF WorkerOnly, TablesOK, LoopOK, ThreadOK, queue, policy, storage
<1>3. LockOK' /\ WorkerOK' /\ PipesOK' /\ active # 0 /\ worker'.st # "none"
  <2> USE DEF WorkerOK, PipesOK, LockOK, WorkerStates, Runners
  <2>1. CASE WorkerReads
    BY <2>1, <1>1, HeadTailProperties DEF WorkerReads, WorkerOnly
  <2>2. CASE WorkerStarts
    BY <2>2, <1>1, EmitType DEF WorkerStarts, WorkerOnly, OutcomePhases
  <2>3. CASE WorkerPauses
    BY <2>3, <1>1, EmitType DEF WorkerPauses, WorkerOnly
  <2>4. CASE WorkerResumes
    BY <2>4, <1>1, EmitType DEF WorkerResumes, WorkerOnly
  <2>5. CASE WorkerSampled
    BY <2>5, <1>1 DEF WorkerSampled, WorkerOnly
  <2>6. CASE WorkerExits
    BY <2>6, <1>1, EmptySeq DEF WorkerExits, WorkerGone, NoWorker, WorkerHolds, WorkerOnly
  <2>6a. CASE WorkerDies
    BY <2>6a, <1>1, EmptySeq DEF WorkerDies, WorkerGone, NoWorker, WorkerHolds, WorkerOnly
  <2>7. ASSUME NEW outcome \in OutcomePhases, WorkerEnds(outcome)
        PROVE  LockOK' /\ WorkerOK' /\ PipesOK' /\ active # 0 /\ worker'.st # "none"
    <3>1. WorkerOK' /\ worker.st # "none" /\ worker'.st # "none"
      BY <2>7 DEF WorkerEnds, NoWorker
    <3>2. PipesOK'
      BY <2>7, <1>1, EmptySeq, EmitType DEF WorkerEnds, WorkerOnly
    <3> QED
      BY <2>7, <1>1, <3>1, <3>2 DEF WorkerEnds, WorkerOnly
  <2> QED
    BY <2>1, <2>2, <2>3, <2>4, <2>5, <2>6, <2>6a, <2>7 DEF WorkerWorks
<1>4. Runners'
  BY <1>1, <1>3 DEF WorkerOnly, Runners, storage
<1> QED
  BY <1>2, <1>3, <1>4

LEMMA TypeThread ==
    ASSUME TypeInv, ThreadStep \/ ThreadPanics
    PROVE  TypeInv'
<1> USE DEF TypeInv, TypeOK
<1>1. ThreadOnly
  BY DEF ThreadStep, ThreadStarts, ThreadStops, ThreadPauses, ThreadResumes, ThreadEnters,
     ThreadCommits, ThreadEnds, ThreadPanics
<1>2. TablesOK' /\ LoopOK' /\ WorkerOK' /\ PipesOK'
  BY <1>1 DEF ThreadOnly, TablesOK, LoopOK, WorkerOK, PipesOK, queue, policy, process, channel
<1>3. ThreadOK' /\ thread.st # "none" /\ thread'.st # "none" /\ locked' \in BOOLEAN
  <2> USE DEF ThreadOK, LockOK, ThreadStates
  <2>1. CASE ThreadStarts
    BY <2>1 DEF ThreadStarts
  <2>2. CASE ThreadStops
    BY <2>2 DEF ThreadStops
  <2>3. CASE ThreadPauses
    BY <2>3 DEF ThreadPauses
  <2>4. CASE ThreadResumes
    BY <2>4 DEF ThreadResumes
  <2>5. CASE ThreadEnters
    BY <2>5 DEF ThreadEnters
  <2>6. CASE ThreadCommits
    BY <2>6 DEF ThreadCommits
  <2>7. CASE \E result \in {"ok", "failed"} : ThreadEnds(result)
    BY <2>7 DEF ThreadEnds
  <2>8. CASE ThreadPanics
    BY <2>8 DEF ThreadPanics, ThreadHolds
  <2> QED
    BY <2>1, <2>2, <2>3, <2>4, <2>5, <2>6, <2>7, <2>8 DEF ThreadStep
<1>4. LockOK'
  BY <1>1, <1>3 DEF ThreadOnly, LockOK
<1>5. Runners'
  BY <1>1, <1>3 DEF ThreadOnly, Runners, process, channel
<1> QED
  BY <1>2, <1>3, <1>4, <1>5

LEMMA TypeEnvironment ==
    ASSUME TypeInv, Environment \/ open_store
    PROVE  TypeInv'
<1> USE DEF TypeInv, TypeOK
<1>1. CASE open_store
  <2>1. \A i \in DOMAIN rows : Reopened(rows[i]) \in Job
    <3> TAKE i \in DOMAIN rows
    <3>1. rows[i] \in Job
      BY ElementOfSeq, LenProperties DEF TablesOK
    <3> QED
      BY <3>1 DEF Job, Reopened, FinishedPhases
  <2>2. TablesOK' /\ DOMAIN jobs' = DOMAIN jobs
    BY <1>1, <2>1, SameLength DEF open_store, TablesOK
  <2>3. LoopOK' /\ Runners'
    BY <1>1, <2>2 DEF open_store, LoopOK, Runners, policy, process, channel, storage
  <2>4. WorkerOK' /\ PipesOK' /\ ThreadOK' /\ LockOK'
    BY <1>1 DEF open_store, WorkerOK, PipesOK, ThreadOK, LockOK, process, channel, storage, others
  <2> QED
    BY <2>2, <2>3, <2>4
<1>2. CASE Crash
  <2>1. TablesOK' /\ LoopOK' /\ Runners'
    BY <1>2, DropType DEF Crash, LoseMemory, TablesOK, LoopOK, Runners, NoWorker, NoThread
  <2>2. ThreadOK'
    BY <1>2 DEF Crash, ThreadOK, NoThread, ThreadStates
  <2>3. WorkerOK' /\ PipesOK' /\ LockOK'
    BY <1>2, DropType DEF Crash, LockOK, ThreadHolds
  <2> QED
    BY <2>1, <2>2, <2>3
<1>3. CASE Exit
  <2>1. TablesOK' /\ LoopOK' /\ Runners'
    BY <1>3 DEF Exit, LoseMemory, TablesOK, LoopOK, Runners, process, channel, storage
  <2>2. WorkerOK' /\ PipesOK' /\ ThreadOK' /\ LockOK'
    BY <1>3 DEF Exit, WorkerOK, PipesOK, ThreadOK, LockOK, process, channel, storage, others
  <2> QED
    BY <2>1, <2>2
<1>4. CASE OrphanStarts \/ OrphanExits \/ CliStarts
  <2>1. Elsewhere
    BY <1>4 DEF OrphanStarts, OrphanExits, CliStarts
  <2>2. locked' \in BOOLEAN /\ orphan' \in BOOLEAN
    BY <1>4, Zenon DEF OrphanStarts, OrphanExits, CliStarts, LockOK
  <2>3. late' \in Nat
    BY <1>4 DEF OrphanStarts, OrphanExits, CliStarts, LockOK
  <2> QED
    BY <2>1, <2>2, <2>3 DEF LockOK, Elsewhere, TablesOK, LoopOK, WorkerOK, PipesOK, ThreadOK, Runners, queue, policy,
       process, channel, storage
<1>5. CASE WorkerDies \/ ThreadPanics
  BY <1>5, TypeWorker, TypeThread
<1> QED
  BY <1>1, <1>2, <1>3, <1>4, <1>5 DEF Environment

\* Enqueue_job's effect on both tables.
LEMMA BothEnqueued ==
    ASSUME TablesOK, NEW g \in Games, NEW op \in Operations,
           jobs' = Enqueued(jobs, g, op), rows' = Enqueued(rows, g, op)
    PROVE  TablesOK' /\ DOMAIN jobs \subseteq DOMAIN jobs'
<1>1. jobs' \in Seq(Job) /\ rows' \in Seq(Job) /\ DOMAIN jobs \subseteq DOMAIN jobs'
  BY EnqueuedSeq DEF TablesOK
<1>2. Len(jobs) = Len(rows)
  BY LenProperties DEF TablesOK
<1>3. DOMAIN rows' = DOMAIN jobs'
  BY <1>2, AppendSeq, EnqueuedSeq DEF Enqueued, TablesOK
<1> QED
  BY <1>1, <1>3 DEF TablesOK

LEMMA TypeMaintain ==
    ASSUME TypeInv, NEW g \in Games, Maintain(g)
    PROVE  TypeInv'
<1> USE DEF TypeInv, TypeOK
<1>1. TablesOK' /\ DOMAIN jobs \subseteq DOMAIN jobs'
  BY BothEnqueued DEF Maintain
<1> QED
  BY <1>1 DEF Maintain, LoopOK, Runners, WorkerOK, PipesOK, ThreadOK, LockOK, policy, process,
     channel, storage, others

\* A request leaves the queue a queue, the exclusions a set of games, the stdin a
\* sequence of control lines and the thread where it is.
RequestEffect ==
    /\ TablesOK' /\ DOMAIN jobs \subseteq DOMAIN jobs'
    /\ excluded' \subseteq Games /\ saved_excluded' \subseteq Games
    /\ control' \in Seq({"pause", "resume", "cancel"})
    /\ ThreadOK' /\ thread'.st = thread.st

LEMMA PhaseSave ==
    ASSUME TablesOK, NEW i \in DOMAIN jobs, NEW p \in ActivePhases \cup FinishedPhases,
           Save(i, [jobs[i] EXCEPT !.phase = p])
    PROVE  TablesOK' /\ DOMAIN jobs' = DOMAIN jobs
  BY PhaseChange, SaveTables

LEMMA EnqueueEffect ==
    ASSUME TypeInv, NEW g \in Games, NEW op \in Operations, Enqueue(g, op)
    PROVE  RequestEffect
<1> USE DEF TypeInv, TypeOK
<1>1. excluded' \subseteq Games /\ saved_excluded' \subseteq Games /\ ThreadOK' /\ thread'.st = thread.st
  BY DEF Enqueue, policy, LoopOK, ThreadOK
<1>2. CASE ~Preempts(op)
  <2>1. TablesOK' /\ DOMAIN jobs \subseteq DOMAIN jobs'
    BY <1>2, BothEnqueued DEF Enqueue
  <2> QED
    BY <1>1, <1>2, <2>1 DEF Enqueue, RequestEffect, PipesOK
<1>3. CASE Preempts(op)
  <2> DEFINE stopped == [jobs[active] EXCEPT !.phase = "Cancelling"]
             j == [jobs EXCEPT ![active] = stopped]
             r == [rows EXCEPT ![active] = stopped]
  <2>1. active \in DOMAIN jobs
    BY <1>3 DEF Preempts, LoopOK
  <2>2. stopped \in Job
    BY <2>1, PhaseChange DEF ActivePhases
  <2>3. j \in Seq(Job) /\ r \in Seq(Job) /\ DOMAIN j = DOMAIN jobs /\ DOMAIN r = DOMAIN jobs
    BY <2>1, <2>2, UpdatedSeq DEF TablesOK
  <2>4. jobs' = Enqueued(j, g, op) /\ rows' = Enqueued(r, g, op) /\ SendControl("cancel")
    BY <1>3 DEF Enqueue
  <2> HIDE DEF j, r
  <2>5. jobs' \in Seq(Job) /\ rows' \in Seq(Job) /\ DOMAIN jobs \subseteq DOMAIN jobs'
    BY <2>3, <2>4, EnqueuedSeq
  <2>6. Len(j) = Len(r)
    BY <2>3, LenProperties
  <2>7. DOMAIN rows' = DOMAIN jobs'
    BY <2>3, <2>4, <2>6, AppendSeq, EnqueuedSeq DEF Enqueued
  <2>8. control' \in Seq({"pause", "resume", "cancel"})
    BY <2>4, SendType DEF PipesOK
  <2> QED
    BY <1>1, <2>5, <2>7, <2>8 DEF RequestEffect, TablesOK
<1> QED
  BY <1>2, <1>3

LEMMA ExcludeEffect ==
    ASSUME TypeInv, NEW g \in Games, Exclude(g)
    PROVE  RequestEffect
<1> USE DEF TypeInv, TypeOK
<1>1. excluded' \subseteq Games /\ saved_excluded' \subseteq Games /\ ThreadOK' /\ thread'.st = thread.st
  BY DEF Exclude, LoopOK, ThreadOK
<1>2. control' \in Seq({"pause", "resume", "cancel"})
  BY SendType DEF Exclude, PipesOK
<1>3. PICK done : /\ done \subseteq DOMAIN jobs
                  /\ jobs' = [i \in DOMAIN jobs |->
                       IF i \in done
                       THEN [jobs[i] EXCEPT !.phase =
                                 IF HasRunner(i) THEN "Cancelling" ELSE "Cancelled"]
                       ELSE jobs[i]]
                  /\ rows' = [i \in DOMAIN rows |->
                       IF i \in done
                       THEN [jobs[i] EXCEPT !.phase =
                                 IF HasRunner(i) THEN "Cancelling" ELSE "Cancelled"]
                       ELSE rows[i]]
  BY DEF Exclude, ActiveIds
<1>4. \A i \in DOMAIN jobs : jobs'[i] \in Job /\ rows'[i] \in Job
  <2> TAKE i \in DOMAIN jobs
  <2>1. jobs[i] \in Job /\ rows[i] \in Job
    BY ElementOfSeq, LenProperties DEF TablesOK
  <2>2. [jobs[i] EXCEPT !.phase = IF HasRunner(i) THEN "Cancelling" ELSE "Cancelled"] \in Job
    BY PhaseChange DEF ActivePhases, FinishedPhases, OutcomePhases
  <2> QED
    BY <1>3, <2>1, <2>2 DEF TablesOK
<1>5. TablesOK' /\ DOMAIN jobs' = DOMAIN jobs
  <2>1. jobs' = [i \in DOMAIN jobs |-> jobs'[i]] /\ rows' = [i \in DOMAIN rows |-> rows'[i]]
    BY <1>3
  <2> QED
    BY <1>4, <2>1, SameLength DEF TablesOK
<1> QED
  BY <1>1, <1>2, <1>5 DEF RequestEffect

LEMMA JobRequestEffect ==
    ASSUME TypeInv, NEW i \in DOMAIN jobs,
           \/ \E paused \in BOOLEAN : Pause(i, paused)
           \/ CancelWorker(i) \/ CancelStorage(i) \/ CancelIdle(i)
    PROVE  RequestEffect
<1> USE DEF TypeInv, TypeOK
<1>1. jobs[i] \in Job
  BY PhaseChange DEF ActivePhases
<1>2. CASE \E paused \in BOOLEAN : Pause(i, paused)
  <2>1. PICK paused \in BOOLEAN : Pause(i, paused)
    BY <1>2
  <2>2. PICK p \in {jobs[i].phase, "Paused", "Queued"} :
            Save(i, [jobs[i] EXCEPT !.user_paused = paused, !.phase = p])
    BY <2>1, <1>1 DEF Pause, Job
  <2>3. [jobs[i] EXCEPT !.user_paused = paused, !.phase = p] \in Job
    BY <1>1, <2>2 DEF Job, ActivePhases
  <2>4. TablesOK' /\ DOMAIN jobs' = DOMAIN jobs
    BY <2>2, <2>3, SaveTables
  <2>5. ThreadOK' /\ thread'.st = thread.st
    BY <2>1 DEF Pause, ThreadOK
  <2> QED
    BY <2>1, <2>4, <2>5 DEF Pause, RequestEffect, policy, LoopOK, PipesOK
<1>3. CASE CancelWorker(i)
  <2>1. TablesOK' /\ DOMAIN jobs' = DOMAIN jobs
    BY <1>3, PhaseSave DEF CancelWorker, ActivePhases
  <2> QED
    BY <1>3, <2>1, SendType DEF CancelWorker, RequestEffect, policy, LoopOK, PipesOK, ThreadOK
<1>4. CASE CancelStorage(i)
  <2>1. TablesOK' /\ DOMAIN jobs' = DOMAIN jobs
    BY <1>4, PhaseSave DEF CancelStorage, ActivePhases
  <2>2. ThreadOK' /\ thread'.st = thread.st
    BY <1>4 DEF CancelStorage, ThreadOK
  <2> QED
    BY <1>4, <2>1, <2>2 DEF CancelStorage, RequestEffect, policy, LoopOK, PipesOK
<1>5. CASE CancelIdle(i)
  <2>1. TablesOK' /\ DOMAIN jobs' = DOMAIN jobs
    BY <1>5, PhaseSave DEF CancelIdle, FinishedPhases, OutcomePhases
  <2> QED
    BY <1>5, <2>1 DEF CancelIdle, RequestEffect, policy, LoopOK, PipesOK, ThreadOK
<1> QED
  BY <1>2, <1>3, <1>4, <1>5

LEMMA RetryEffect ==
    ASSUME TypeInv, NEW i \in DOMAIN jobs, Retry(i)
    PROVE  RequestEffect
<1> USE DEF TypeInv, TypeOK
<1>1. jobs[i] \in Job
  BY PhaseChange DEF ActivePhases
<1>2. NewJob(jobs[i].game, jobs[i].operation) \in Job
  BY <1>1 DEF NewJob, Job, ActivePhases
<1>3. jobs' \in Seq(Job) /\ rows' \in Seq(Job) /\ DOMAIN jobs \subseteq DOMAIN jobs'
  BY <1>2, AppendSeq DEF Retry, Enqueued, TablesOK
<1>4. Len(jobs) = Len(rows)
  BY LenProperties DEF TablesOK
<1>5. DOMAIN rows' = DOMAIN jobs'
  BY <1>2, <1>4, AppendSeq DEF Retry, Enqueued, TablesOK
<1> QED
  BY <1>3, <1>5 DEF Retry, RequestEffect, TablesOK, policy, LoopOK, PipesOK, ThreadOK

LEMMA RequestReplies == Request => Replies
  BY DEF Request, NoRequest, Enqueue, Retry, Pause, CancelWorker, CancelStorage, CancelIdle,
     Exclude, Include

LEMMA RequestKeepsTypes ==
    ASSUME TypeInv, Request
    PROVE  RequestEffect
<1> USE DEF TypeInv, TypeOK
<1>1. CASE NoRequest
  BY <1>1 DEF NoRequest, RequestEffect, TablesOK, LoopOK, PipesOK, ThreadOK, queue, policy
<1>2. CASE \E g \in Games : Include(g)
  BY <1>2 DEF Include, RequestEffect, TablesOK, LoopOK, PipesOK, ThreadOK, queue
<1>3. CASE \E g \in Games : (\E op \in Operations : Enqueue(g, op)) \/ Exclude(g)
  BY <1>3, EnqueueEffect, ExcludeEffect
<1>4. CASE \E i \in DOMAIN jobs : \/ Retry(i)
                                  \/ \E paused \in BOOLEAN : Pause(i, paused)
                                  \/ CancelWorker(i) \/ CancelStorage(i) \/ CancelIdle(i)
  BY <1>4, RetryEffect, JobRequestEffect
<1> QED
  BY <1>1, <1>2, <1>3, <1>4 DEF Request

LEMMA TypeRequest ==
    ASSUME TypeInv, Request
    PROVE  TypeInv'
<1> USE DEF TypeInv, TypeOK
<1>1. Replies /\ RequestEffect
  BY RequestReplies, RequestKeepsTypes
<1>2. LoopOK' /\ Runners'
  BY <1>1 DEF Replies, RequestEffect, LoopOK, Runners
<1> QED
  BY <1>1, <1>2 DEF Replies, RequestEffect, WorkerOK, PipesOK, LockOK, others

LEMMA TypeDrive ==
    ASSUME TypeInv, NEW ready \in SUBSET Games, Drive(ready)
    PROVE  TypeInv'
<1> USE DEF TypeInv, TypeOK
<1> DEFINE held  == Held(active, ready)
           sends == active # 0 /\ held # sent /\ jobs[active].phase # "Cancelling"
<1>1. held \in BOOLEAN
  BY DEF Held
<1>2. active # 0 => active \in DOMAIN jobs /\ jobs[active] \in Job
  BY PhaseChange DEF LoopOK, ActivePhases
<1>3. CASE sends /\ PipeOpen
  <2>1. PICK p \in {"Pausing", "Analyzing", "Running"} :
            /\ jobs' = [jobs EXCEPT ![active] = [jobs[active] EXCEPT !.phase = p]]
            /\ rows' = rows /\ finished' = finished /\ sent' = held
            /\ SendControl(IF held THEN "pause" ELSE "resume")
    BY <1>2, <1>3 DEF Drive, WorkingPhase, TablesOK
  <2>2. [jobs[active] EXCEPT !.phase = p] \in Job
    BY <1>2, <1>3, PhaseChange DEF ActivePhases
  <2>3. TablesOK' /\ DOMAIN jobs' = DOMAIN jobs
    BY <1>2, <1>3, <2>1, <2>2, UpdatedSeq DEF TablesOK
  <2>4. control' \in Seq({"pause", "resume", "cancel"})
    BY <2>1, SendType DEF PipesOK
  <2> QED
    BY <1>1, <2>1, <2>3, <2>4 DEF Drive, LoopOK, Runners, WorkerOK, PipesOK, ThreadOK, LockOK,
       policy, storage, others
<1>4. CASE sends /\ ~PipeOpen
  <2>1. TablesOK' /\ DOMAIN jobs' = DOMAIN jobs
    BY <1>2, <1>4, PhaseSave DEF Drive, FinishedPhases
  <2> QED
    BY <1>4, <2>1 DEF Drive, LoopOK, Runners, WorkerOK, PipesOK, ThreadOK, LockOK, policy,
       storage, others
<1>5. CASE ~sends
  BY <1>5 DEF Drive, TablesOK, LoopOK, Runners, WorkerOK, PipesOK, ThreadOK, LockOK, queue,
     policy, storage, others
<1> QED
  BY <1>3, <1>4, <1>5

LEMMA TypeEvents ==
    ASSUME TypeInv, ApplyUpdate \/ ApplyOutcome \/ EventsRead
    PROVE  TypeInv'
<1> USE DEF TypeInv, TypeOK
<1>1. active \in DOMAIN jobs /\ jobs[active] \in Job
  BY PhaseChange DEF ApplyUpdate, ApplyOutcome, EventsRead, Runners, LoopOK, ActivePhases
<1>2. CASE ApplyUpdate
  <2>1. PICK p \in {"Paused", "Running"} :
            jobs' = [jobs EXCEPT ![active] = [jobs[active] EXCEPT !.phase = p]]
    BY <1>1, <1>2 DEF ApplyUpdate, TablesOK
  <2>2. [jobs[active] EXCEPT !.phase = p] \in Job
    BY <1>1, PhaseChange DEF ActivePhases
  <2>5. jobs' \in Seq(Job) /\ DOMAIN jobs' = DOMAIN jobs
    BY <1>1, <2>1, <2>2, UpdatedSeq DEF TablesOK
  <2>3. TablesOK' /\ DOMAIN jobs' = DOMAIN jobs
    BY <1>2, <2>5 DEF ApplyUpdate, TablesOK
  <2>4. PipesOK'
    BY <1>2, HeadTailProperties DEF ApplyUpdate, PipesOK
  <2> QED
    BY <1>2, <2>3, <2>4 DEF ApplyUpdate, LoopOK, Runners, WorkerOK, ThreadOK, LockOK, policy,
       storage, others
<1>3. CASE ApplyOutcome
  <2>1. TablesOK' /\ DOMAIN jobs' = DOMAIN jobs
    BY <1>1, <1>3, PhaseSave DEF ApplyOutcome, FinishedPhases, OutcomePhases
  <2>2. PipesOK' /\ WorkerOK' /\ LockOK'
    BY <1>3, DropType DEF ApplyOutcome, LockOK
  <2> QED
    BY <1>3, <2>1, <2>2, DropType DEF ApplyOutcome, NoWorker, LoopOK, Runners, ThreadOK, policy,
       storage
<1>4. CASE EventsRead
  <2>1. PICK touched \in BOOLEAN, save \in BOOLEAN :
            /\ jobs' = [jobs EXCEPT ![active] = [jobs[active] EXCEPT !.touched = touched]]
            /\ rows' = IF save THEN [rows EXCEPT ![active] = jobs'[active]] ELSE rows
    BY <1>1, <1>4 DEF EventsRead, TablesOK, Job
  <2>2. [jobs[active] EXCEPT !.touched = touched] \in Job
    BY <1>1 DEF Job
  <2>3. jobs' \in Seq(Job) /\ DOMAIN jobs' = DOMAIN jobs
    BY <1>1, <2>1, <2>2, UpdatedSeq DEF TablesOK
  <2>4. jobs'[active] \in Job
    BY <1>1, <2>1, <2>2 DEF TablesOK
  <2>5. TablesOK'
    BY <1>1, <2>1, <2>3, <2>4, UpdatedSeq DEF TablesOK
  <2>6. CASE finished
    <3>1. PipesOK' /\ WorkerOK' /\ LockOK'
      BY <1>4, <2>6, DropType DEF EventsRead, LockOK
    <3> QED
      BY <1>4, <2>3, <2>5, <2>6, <3>1, DropType DEF EventsRead, NoWorker, LoopOK, Runners,
         ThreadOK, policy, storage
  <2>7. CASE ~finished
    BY <1>4, <2>3, <2>5, <2>7 DEF EventsRead, LoopOK, Runners, WorkerOK, PipesOK, ThreadOK,
       LockOK, policy, process, channel, storage
  <2> QED
    BY <2>6, <2>7
<1> QED
  BY <1>2, <1>3, <1>4

LEMMA TypePoll ==
    ASSUME TypeInv, NEW ready \in SUBSET Games, NEW missing \in BOOLEAN,
           PollThread(ready, missing)
    PROVE  TypeInv'
<1> USE DEF TypeInv, TypeOK
<1>1. pack_active \in DOMAIN jobs /\ jobs[pack_active] \in Job
  BY PhaseChange DEF PollThread, Runners, LoopOK, ActivePhases
<1>2. PICK p \in {jobs[pack_active].phase, "Paused", "Running"}, touched \in BOOLEAN :
          Save(pack_active, [jobs[pack_active] EXCEPT !.phase = p, !.touched = touched])
  BY <1>1 DEF PollThread, Noted, Job
<1>3. [jobs[pack_active] EXCEPT !.phase = p, !.touched = touched] \in Job
  BY <1>1, <1>2 DEF Job, ActivePhases
<1>4. TablesOK' /\ DOMAIN jobs' = DOMAIN jobs
  BY <1>1, <1>2, <1>3, SaveTables
<1>5. ThreadOK' /\ thread'.st = thread.st
  <2>1. jobs[pack_active].user_paused \in BOOLEAN
    BY <1>1 DEF Job
  <2>2. thread' = [thread EXCEPT
            !.cancel = @ \/ jobs[pack_active].phase = "Cancelling"
                         \/ (jobs[pack_active].game \in excluded /\ thread.interruptible),
            !.paused = jobs[pack_active].user_paused
                       \/ (jobs[pack_active].game \notin ready /\ ~missing),
            !.note = "none"]
    BY DEF PollThread
  <2> QED
    BY <2>1, <2>2 DEF ThreadOK
<1> QED
  BY <1>4, <1>5 DEF PollThread, LoopOK, Runners, WorkerOK, PipesOK, LockOK, policy, process,
     channel, others

LEMMA TypeReap ==
    ASSUME TypeInv, ReapThread
    PROVE  TypeInv'
<1> USE DEF TypeInv, TypeOK
<1>1. CASE thread.st \in {"ended", "panicked"}
  <2>1. pack_active \in DOMAIN jobs
    BY DEF ReapThread, Runners, LoopOK
  <2> DEFINE p == IF thread.st = "panicked" THEN "Interrupted"
                  ELSE IF thread.result = "ok" THEN "Completed"
                  ELSE IF thread.cancel THEN "Cancelled" ELSE "Failed"
  <2>5. p \in FinishedPhases
    BY DEF FinishedPhases, OutcomePhases
  <2>2. Save(pack_active, [jobs[pack_active] EXCEPT !.phase = p])
    BY <1>1 DEF ReapThread
  <2> HIDE DEF p
  <2>3. TablesOK' /\ DOMAIN jobs' = DOMAIN jobs
    BY <2>1, <2>2, <2>5, PhaseSave
  <2>6. thread' = NoThread /\ pack_active' = 0
    BY <1>1 DEF ReapThread
  <2>4. ThreadOK' /\ thread'.st = "none" /\ pack_active' = 0
    BY <2>6 DEF ThreadOK, NoThread, ThreadStates
  <2> QED
    BY <2>3, <2>4 DEF ReapThread, LoopOK, Runners, WorkerOK, PipesOK, LockOK, policy, process,
       channel, others
<1>2. CASE thread.st \notin {"ended", "panicked"}
  BY <1>2 DEF ReapThread, TablesOK, LoopOK, Runners, WorkerOK, PipesOK, ThreadOK, LockOK, queue,
     policy, process, channel, storage, others
<1> QED
  BY <1>1, <1>2

LEMMA TypeChoose ==
    ASSUME TypeInv,
           \/ \E i \in DOMAIN jobs : StartWorker(i) \/ StartThread(i) \/ StartFails(i)
           \/ NothingToStart
    PROVE  TypeInv'
<1> USE DEF TypeInv, TypeOK
<1>1. CASE NothingToStart
  BY <1>1 DEF NothingToStart, TablesOK, LoopOK, Runners, WorkerOK, PipesOK, ThreadOK, LockOK,
     queue, policy, process, channel, storage, others
<1>2. ASSUME NEW i \in DOMAIN jobs, StartWorker(i)
      PROVE  TypeInv'
  <2>1. TablesOK' /\ DOMAIN jobs' = DOMAIN jobs
    BY <1>2, PhaseSave DEF StartWorker, WorkingPhase, ActivePhases
  <2>2. i # 0
    BY LenProperties DEF TablesOK
  <2>3. WorkerOK' /\ PipesOK'
    BY <1>2, EmptySeq DEF StartWorker, WorkerOK, PipesOK, NoWorker, WorkerStates
  <2>4. active' = i /\ pc' = "client" /\ worker'.st = "starting" /\ pack_active' = 0
    BY <1>2 DEF StartWorker, Starts, NoWorker, storage
  <2>5. Runners' /\ ThreadOK'
    BY <1>2, <2>1, <2>2, <2>4 DEF StartWorker, Runners, ThreadOK, storage
  <2>6. LoopOK' /\ LockOK'
    BY <1>2, <2>1, <2>4 DEF StartWorker, Starts, LoopOK, LockOK, policy, storage, others
  <2> QED
    BY <2>1, <2>3, <2>5, <2>6
<1>3. ASSUME NEW i \in DOMAIN jobs, StartThread(i)
      PROVE  TypeInv'
  <2>1. TablesOK' /\ DOMAIN jobs' = DOMAIN jobs
    BY <1>3, PhaseSave DEF StartThread, ActivePhases
  <2>2. i # 0
    BY LenProperties DEF TablesOK
  <2>3. ThreadOK'
    BY <1>3 DEF StartThread, ThreadOK, NoThread, ThreadStates
  <2> QED
    BY <1>3, <2>1, <2>2, <2>3 DEF StartThread, Starts, NoThread, LoopOK, Runners, WorkerOK,
       PipesOK, LockOK, policy, process, channel, others
<1>4. ASSUME NEW i \in DOMAIN jobs, StartFails(i)
      PROVE  TypeInv'
  <2>1. TablesOK' /\ DOMAIN jobs' = DOMAIN jobs
    BY <1>4, PhaseSave DEF StartFails, FinishedPhases, OutcomePhases
  <2> QED
    BY <1>4, <2>1 DEF StartFails, Starts, LoopOK, Runners, WorkerOK, PipesOK, ThreadOK, LockOK,
       policy, process, channel, storage, others
<1> QED
  BY <1>1, <1>2, <1>3, <1>4

LEMMA TypeStep == TypeInv /\ [Next]_vars => TypeInv'
<1> SUFFICES ASSUME TypeInv, [Next]_vars PROVE TypeInv'
  OBVIOUS
<1>1. CASE UNCHANGED vars
  BY <1>1 DEF vars, TypeInv, TypeOK, TablesOK, LoopOK, Runners, WorkerOK, PipesOK, ThreadOK,
     LockOK, queue, policy, process, channel, storage, others
<1>2. CASE Pass
  BY <1>2, TypeMaintain, TypeRequest, TypeDrive, TypeEvents, TypePoll, TypeReap, TypeChoose
     DEF Pass
<1> QED
  BY <1>1, <1>2, TypeWorker, TypeThread, TypeEnvironment DEF Next

\* Every variable keeps the kind of value the code gives it, and whoever is recorded as
\* running a job runs one that is in the queue.
THEOREM TypeCorrect == Spec => []TypeOK
<1>1. TypeInv => TypeOK
  BY DEF TypeInv
<1> QED
  BY <1>1, TypeInit, TypeStep, PTL DEF Spec

THEOREM Typed == Spec => []TypeInv
  BY TypeInit, TypeStep, PTL DEF Spec

-----------------------------------------------------------------------------
(* operation.lock has one holder *)

\* OneWriter alone does not say that a holder really has the lock, without which a
\* newcomer could take it.
HeldAlone ==
    /\ WorkerHolds => locked /\ ~ThreadHolds /\ ~orphan
    /\ ThreadHolds => locked /\ ~orphan
    /\ orphan => locked

LEMMA HeldAloneWriter == HeldAlone => OneWriter
<1> SUFFICES ASSUME HeldAlone PROVE OneWriter
  OBVIOUS
<1> DEFINE S == {p \in {"worker", "thread", "orphan"} :
                            CASE p = "worker" -> WorkerHolds
                              [] p = "thread" -> ThreadHolds
                              [] OTHER -> orphan}
<1>1. PICK x : S \subseteq {x}
  <2>1. CASE WorkerHolds
    <3>1. S \subseteq {"worker"}
      BY <2>1 DEF HeldAlone
    <3> QED
      BY <3>1
  <2>2. CASE ~WorkerHolds /\ ThreadHolds
    <3>1. S \subseteq {"thread"}
      BY <2>2 DEF HeldAlone
    <3> QED
      BY <3>1
  <2>3. CASE ~WorkerHolds /\ ~ThreadHolds
    <3>1. S \subseteq {"orphan"}
      BY <2>3 DEF HeldAlone
    <3> QED
      BY <3>1
  <2> QED
    BY <2>1, <2>2, <2>3
<1>2. S = {} \/ S = {x}
  BY <1>1
<1>3. OneWriter <=> Cardinality(S) <= 1
  BY DEF OneWriter
<1> HIDE DEF S
<1>4. Cardinality(S) \in {0, 1}
  BY <1>2, FS_EmptySet, FS_Singleton
<1> QED
  BY <1>3, <1>4

LEMMA HeldAloneInit == Init => HeldAlone
  BY DEF Init, HeldAlone, WorkerHolds, ThreadHolds, NoWorker, NoThread

\* Dropping a worker hands its hold on the lock over to the process it leaves behind.
LEMMA HeldAloneDrop ==
    ASSUME TypeInv, HeldAlone, DropWorker, thread' = thread, locked' = locked
    PROVE  HeldAlone'
<1>1. ~WorkerHolds' /\ (orphan' <=> orphan \/ WorkerHolds) /\ ThreadHolds' = ThreadHolds
  BY DEF DropWorker, WorkerHolds, NoWorker, ThreadHolds
<1> QED
  BY <1>1 DEF HeldAlone

LEMMA HeldAloneStep == TypeInv /\ HeldAlone /\ [Next]_vars => HeldAlone'
<1> SUFFICES ASSUME TypeInv, HeldAlone, [Next]_vars PROVE HeldAlone'
  OBVIOUS
<1>1. ASSUME worker'.st = worker.st, thread'.st = thread.st, UNCHANGED <<locked, orphan>>
      PROVE  HeldAlone'
  BY <1>1 DEF HeldAlone, WorkerHolds, ThreadHolds
<1>2. CASE UNCHANGED vars \/ open_store \/ Exit \/ NothingToStart
           \/ (\E g \in Games : Maintain(g))
           \/ (\E ready \in SUBSET Games : Drive(ready)) \/ ApplyUpdate
           \/ (\E i \in DOMAIN jobs : StartFails(i))
  BY <1>1, <1>2 DEF vars, open_store, Exit, NothingToStart, Maintain, Drive, ApplyUpdate,
     StartFails, process, channel, storage, others
<1>3. CASE Request
  <2>1. Replies /\ RequestEffect
    BY <1>3, RequestReplies, RequestKeepsTypes
  <2> QED
    BY <1>1, <2>1 DEF Replies, RequestEffect, others
<1>4. CASE ApplyOutcome
  BY <1>4, HeldAloneDrop DEF ApplyOutcome, storage
<1>5. CASE EventsRead
  BY <1>1, <1>5, HeldAloneDrop DEF EventsRead, storage, process, channel
<1>6. ASSUME NEW ready \in SUBSET Games, NEW missing \in BOOLEAN, PollThread(ready, missing)
      PROVE  HeldAlone'
  <2>1. thread'.st = thread.st
    BY <1>6 DEF PollThread, TypeInv, TypeOK, ThreadOK
  <2> QED
    BY <1>1, <1>6, <2>1 DEF PollThread, process, channel, others
<1>7. CASE ReapThread
  BY <1>7 DEF ReapThread, HeldAlone, WorkerHolds, ThreadHolds, NoThread, process, channel,
     storage, others
<1>8. ASSUME NEW i \in DOMAIN jobs, StartWorker(i) \/ StartThread(i)
      PROVE  HeldAlone'
  <2>1. ~WorkerHolds /\ ~ThreadHolds
    BY <1>8 DEF StartWorker, StartThread, Starts, WorkerHolds, ThreadHolds, TypeInv, Runners
  <2>2. ~WorkerHolds' /\ ~ThreadHolds'
    <3>1. CASE StartWorker(i)
      BY <2>1, <3>1 DEF StartWorker, WorkerHolds, ThreadHolds, NoWorker, storage
    <3>2. CASE StartThread(i)
      BY <2>1, <3>2 DEF StartThread, WorkerHolds, ThreadHolds, NoThread, process, channel
    <3> QED
      BY <1>8, <3>1, <3>2
  <2> QED
    BY <1>8, <2>2 DEF StartWorker, StartThread, HeldAlone, others
<1>9. CASE WorkerReads \/ WorkerWorks \/ WorkerDies
  <2>1. thread' = thread /\ orphan' = orphan
    BY <1>9 DEF WorkerWorks, WorkerReads, WorkerStarts, WorkerPauses, WorkerResumes,
       WorkerSampled, WorkerExits, WorkerDies, WorkerGone, WorkerEnds, WorkerOnly, storage
  <2> USE DEF TypeInv, TypeOK, WorkerOK, HeldAlone, WorkerHolds, ThreadHolds
  <2>2. CASE WorkerStarts
    <3>1. CASE locked
      <4>3. worker' = [worker EXCEPT !.st = "refused"] /\ locked' = TRUE
        BY <2>2, <3>1 DEF WorkerStarts
      <4>1. worker'.st = "refused"
        BY <4>3
      <4>2. ~WorkerHolds' /\ ThreadHolds' = ThreadHolds
        BY <2>1, <4>1
      <4> QED
        BY <2>1, <4>2, <4>3
    <3>2. CASE ~locked
      <4>1. locked' /\ ~ThreadHolds /\ ~orphan
        BY <2>2, <3>2 DEF WorkerStarts
      <4> QED
        BY <2>1, <4>1
    <3> QED
      BY <3>1, <3>2
  <2>3. CASE WorkerReads \/ WorkerPauses \/ WorkerResumes \/ WorkerSampled
    BY <2>1, <2>3 DEF WorkerReads, WorkerPauses, WorkerResumes, WorkerSampled
  <2>4. CASE \E outcome \in OutcomePhases : WorkerEnds(outcome)
    BY <2>1, <2>4 DEF WorkerEnds, NoWorker
  <2>5. CASE WorkerExits \/ WorkerDies
    BY <2>1, <2>5 DEF WorkerExits, WorkerDies, WorkerGone, NoWorker
  <2> QED
    BY <1>9, <2>2, <2>3, <2>4, <2>5 DEF WorkerWorks
<1>10. CASE ThreadStep \/ ThreadPanics
  <2>1. worker' = worker /\ orphan' = orphan
    BY <1>10 DEF ThreadStep, ThreadStarts, ThreadStops, ThreadPauses, ThreadResumes,
       ThreadEnters, ThreadCommits, ThreadEnds, ThreadPanics, ThreadOnly, process, channel
  <2> USE DEF TypeInv, TypeOK, ThreadOK, HeldAlone, WorkerHolds, ThreadHolds
  <2>2. CASE ThreadStarts
    BY <2>1, <2>2 DEF ThreadStarts
  <2>3. CASE ThreadPauses \/ ThreadResumes \/ ThreadEnters
    BY <2>1, <2>3 DEF ThreadPauses, ThreadResumes, ThreadEnters
  <2>4. CASE ThreadCommits
    BY <2>1, <2>4 DEF ThreadCommits
  <2>5. CASE ThreadStops \/ ThreadPanics \/ \E result \in {"ok", "failed"} : ThreadEnds(result)
    BY <2>1, <2>5 DEF ThreadStops, ThreadPanics, ThreadEnds
  <2> QED
    BY <1>10, <2>2, <2>3, <2>4, <2>5 DEF ThreadStep
<1>11. CASE Crash
  BY <1>11 DEF Crash, DropWorker, NoWorker, NoThread, HeldAlone, WorkerHolds, ThreadHolds
<1>12. CASE OrphanStarts \/ OrphanExits \/ CliStarts
  <2>1. worker' = worker /\ thread' = thread
    BY <1>12 DEF OrphanStarts, OrphanExits, CliStarts, Elsewhere, process, channel, storage
  <2> QED
    BY <1>12, <2>1 DEF OrphanStarts, OrphanExits, CliStarts, HeldAlone, WorkerHolds, ThreadHolds
<1> QED
  BY <1>2, <1>3, <1>4, <1>5, <1>6, <1>7, <1>8, <1>9, <1>10, <1>11, <1>12
     DEF Next, Pass, Environment

\* At no time do two of the worker, the storage thread and a process the coordinator lost
\* rewrite files, however often the coordinator dies and whoever else takes the lock.
THEOREM OneWriterEver == Spec => []OneWriter
<1>1. Spec => []HeldAlone
  BY HeldAloneInit, HeldAloneStep, Typed, PTL DEF Spec
<1> QED
  BY <1>1, HeldAloneWriter, PTL

-----------------------------------------------------------------------------
(***************************************************************************)
(* What the queue promises: one job per folder and operation, outcomes and *)
(* choices that survive a crash, and a runner for every job that is to     *)
(* stop.  Each rests on the two invariants below, which say what the loop  *)
(* relies on between its stages.  Last, what a user is promised about      *)
(* stopping: an accepted cancel of a storage task is honoured, and no      *)
(* worker goes on with an excluded game unasked.                           *)
(***************************************************************************)
\* The loop and its runners.  A worker that cannot be written to is recorded as
\* Interrupted before the lines it left are applied, so its job can be in a phase that
\* looks active or not until the pass ends.
RunnerInv ==
    /\ active = 0 \/ pack_active = 0
    /\ active # 0 => \/ IsActive(active)
                     \/ pc = "events" /\ finished /\ jobs[active].phase = "Interrupted"
    /\ finished => /\ pc = "events" /\ worker.st = "gone"
                   /\ jobs[active].phase \in {"Interrupted", "Paused", "Running"}
    /\ pack_active # 0 => IsActive(pack_active)
    /\ StoppingHasRunner

\* A job that keeps others for its folder out of the queue.
Live(i) == IsActive(i) \/ i = active

\* The two tables agree on everything a restart must not change.
QueueInv ==
    /\ OutcomeDurable
    /\ \A i \in DOMAIN jobs : /\ rows[i].game = jobs[i].game
                              /\ rows[i].operation = jobs[i].operation
                              /\ rows[i].user_paused = jobs[i].user_paused
    /\ \A i, j \in DOMAIN jobs :
         /\ i # j /\ jobs[i].game = jobs[j].game /\ jobs[i].operation = jobs[j].operation
         => ~(Live(i) /\ Live(j))

\* How a step may change job k: tables j and r come after jobs and rows.
Follows(j, r, k) ==
    /\ j[k].game = jobs[k].game /\ j[k].operation = jobs[k].operation
    /\ r[k].game = j[k].game /\ r[k].operation = j[k].operation
    /\ r[k].user_paused = j[k].user_paused
    /\ j[k].phase \in FinishedPhases => r[k].phase = j[k].phase
    /\ j[k].phase \in ActivePhases => Live(k)
    /\ ~Live(k) => j[k].phase = jobs[k].phase

\* What a step does to the queue as a whole.  A job that ended and was let go keeps its phase.
QueueNext ==
    /\ QueueInv'
    /\ \A k \in DOMAIN jobs : /\ k \in DOMAIN jobs' /\ jobs'[k].game = jobs[k].game
                              /\ ~Live(k) => jobs'[k].phase = jobs[k].phase

LEMMA QueueInit == Init => RunnerInv /\ QueueInv
  BY DEF Init, RunnerInv, QueueInv, OutcomeDurable, StoppingHasRunner

LEMMA SameFollows ==
    ASSUME QueueInv, NEW k \in DOMAIN jobs
    PROVE  Follows(jobs, rows, k)
  BY DEF QueueInv, OutcomeDurable, Follows, Live, IsActive

LEMMA QueueKept ==
    ASSUME TypeInv, QueueInv, DOMAIN jobs' = DOMAIN jobs,
           \A k \in DOMAIN jobs : Follows(jobs', rows', k),
           active' # 0 => Live(active')
    PROVE  QueueNext
<1>0. 0 \notin DOMAIN jobs
  BY LenProperties DEF TypeInv, TypeOK, TablesOK
<1>1. \A k \in DOMAIN jobs : Live(k)' => Live(k)
  BY <1>0 DEF Live, IsActive, Follows
<1>2. OutcomeDurable'
  BY DEF OutcomeDurable, Follows
<1> QED
  BY <1>1, <1>2 DEF QueueNext, QueueInv, Follows

LEMMA QueueGrown ==
    ASSUME TypeInv, RunnerInv, QueueInv, pc = "client", active' = active,
           NEW j \in Seq(Job), NEW r \in Seq(Job), DOMAIN j = DOMAIN jobs,
           DOMAIN r = DOMAIN jobs, \A k \in DOMAIN jobs : Follows(j, r, k),
           NEW g, NEW op, NewJob(g, op) \in Job,
           jobs' = Enqueued(j, g, op), rows' = Enqueued(r, g, op)
    PROVE  QueueNext
<1>0. 0 \notin DOMAIN jobs
  BY LenProperties DEF TypeInv, TypeOK, TablesOK
<1>1. CASE Joined(g, op)
  BY <1>0, <1>1, QueueKept DEF Enqueued, Live
<1>2. CASE ~Joined(g, op)
  <2> DEFINE n == Len(j) + 1
  <2>1. Len(r) = Len(j) /\ n \notin DOMAIN jobs
    BY LenProperties, AppendSeq
  <2>2. /\ DOMAIN jobs' = DOMAIN jobs \cup {n}
        /\ jobs'[n] = NewJob(g, op) /\ rows'[n] = NewJob(g, op)
        /\ \A k \in DOMAIN jobs : jobs'[k] = j[k] /\ rows'[k] = r[k]
    BY <1>2, <2>1, AppendSeq DEF Enqueued
  <2> HIDE DEF n
  <2>3. active # n
    BY <2>1, <2>2, LenProperties DEF TypeInv, TypeOK, LoopOK, n
  <2>4. \A k \in DOMAIN jobs : Live(k)' => IsActive(k)
    BY <1>0, <2>2 DEF Live, IsActive, Follows, RunnerInv
  <2>5. \A k \in DOMAIN jobs : ~(/\ IsActive(k) /\ j[k].game = g /\ j[k].operation = op)
    BY <1>2 DEF Joined, ActiveIds, Follows
  <2>6. jobs'[n].game = g /\ jobs'[n].operation = op /\ jobs'[n].phase = "Queued"
    BY <2>2 DEF NewJob
  <2>7. OutcomeDurable'
    BY <2>2, <2>6 DEF OutcomeDurable, Follows
  <2>8. \A i \in DOMAIN jobs' : /\ rows'[i].game = jobs'[i].game
                                /\ rows'[i].operation = jobs'[i].operation
                                /\ rows'[i].user_paused = jobs'[i].user_paused
    BY <2>2 DEF Follows
  <2>9. ASSUME NEW i \in DOMAIN jobs', NEW k \in DOMAIN jobs', i # k,
               jobs'[i].game = jobs'[k].game, jobs'[i].operation = jobs'[k].operation
        PROVE  ~(Live(i)' /\ Live(k)')
    <3>1. CASE i = n
      BY <2>2, <2>4, <2>5, <2>6, <2>9, <3>1
    <3>2. CASE k = n
      BY <2>2, <2>4, <2>5, <2>6, <2>9, <3>2
    <3>3. CASE i # n /\ k # n
      <4>1. i \in DOMAIN jobs /\ k \in DOMAIN jobs
        BY <2>2, <3>3
      <4>2. jobs[i].game = jobs[k].game /\ jobs[i].operation = jobs[k].operation
        BY <2>2, <2>9, <4>1 DEF Follows
      <4> QED
        BY <2>4, <2>9, <4>1, <4>2 DEF QueueInv, Live
    <3> QED
      BY <3>1, <3>2, <3>3
  <2> QED
    BY <2>2, <2>7, <2>8, <2>9 DEF QueueNext, QueueInv, Follows
<1> QED
  BY <1>1, <1>2

\* A job saved in both tables.
LEMMA SavedFollows ==
    ASSUME TypeInv, QueueInv, NEW i \in DOMAIN jobs, NEW job \in Job, Save(i, job),
           job.game = jobs[i].game, job.operation = jobs[i].operation,
           Live(i)
    PROVE  /\ DOMAIN jobs' = DOMAIN jobs
           /\ \A k \in DOMAIN jobs : Follows(jobs', rows', k)
           /\ jobs'[i] = job
           /\ \A k \in DOMAIN jobs \ {i} : jobs'[k] = jobs[k]
<1>1. /\ jobs'[i] = job /\ rows'[i] = job /\ DOMAIN jobs' = DOMAIN jobs
      /\ \A k \in DOMAIN jobs \ {i} : jobs'[k] = jobs[k] /\ rows'[k] = rows[k]
  BY DEF Save, TypeInv, TypeOK, TablesOK
<1>2. Follows(jobs', rows', i)
  BY <1>1 DEF Follows
<1>3. \A k \in DOMAIN jobs \ {i} : Follows(jobs', rows', k)
  BY <1>1, SameFollows DEF Follows
<1> QED
  BY <1>1, <1>2, <1>3

\* The case of a new phase.
LEMMA PhaseFollows ==
    ASSUME TypeInv, QueueInv, NEW i \in DOMAIN jobs,
           NEW p \in ActivePhases \cup FinishedPhases,
           Live(i), Save(i, [jobs[i] EXCEPT !.phase = p])
    PROVE  /\ DOMAIN jobs' = DOMAIN jobs
           /\ \A k \in DOMAIN jobs : Follows(jobs', rows', k)
           /\ jobs'[i].phase = p
           /\ \A k \in DOMAIN jobs \ {i} : jobs'[k] = jobs[k]
<1> DEFINE job == [jobs[i] EXCEPT !.phase = p]
<1>1. job \in Job /\ job.phase = p
  BY PhaseChange DEF TypeInv, TypeOK
<1>2. job.game = jobs[i].game /\ job.operation = jobs[i].operation
  BY PhaseChange DEF TypeInv, TypeOK, Job
<1> HIDE DEF job
<1>3. Save(i, job)
  BY DEF job
<1> QED
  BY <1>1, <1>2, <1>3, SavedFollows

\* The phases of jobs that exist are among those of the model.
LEMMA JobTypes ==
    ASSUME TypeInv
    PROVE  /\ \A i \in DOMAIN jobs : jobs[i] \in Job
           /\ 0 \notin DOMAIN jobs
           /\ active \in {0} \cup DOMAIN jobs /\ pack_active \in {0} \cup DOMAIN jobs
  BY PhaseChange, LenProperties DEF TypeInv, TypeOK, TablesOK, LoopOK

-----------------------------------------------------------------------------
(* Steps of the runners and of others *)

LEMMA CoreElsewhere ==
    ASSUME TypeInv, RunnerInv, QueueInv,
           UNCHANGED <<pc, queue, active, finished, pack_active>>,
           worker.st = "gone" => worker'.st = "gone"
    PROVE  RunnerInv' /\ QueueNext
  BY DEF RunnerInv, QueueNext, QueueInv, OutcomeDurable, StoppingHasRunner, HasRunner, Live, IsActive, queue

LEMMA CoreRunners ==
    ASSUME TypeInv, RunnerInv, QueueInv,
           \/ WorkerReads \/ WorkerWorks \/ WorkerDies \/ ThreadStep \/ ThreadPanics
           \/ OrphanStarts \/ OrphanExits \/ CliStarts \/ UNCHANGED vars
    PROVE  RunnerInv' /\ QueueNext
<1>1. CASE WorkerReads \/ WorkerWorks \/ WorkerDies
  <2>1. WorkerOnly
    BY <1>1 DEF WorkerWorks, WorkerReads, WorkerStarts, WorkerPauses, WorkerResumes,
       WorkerSampled, WorkerExits, WorkerDies, WorkerGone, WorkerEnds
  <2>2. worker.st # "gone"
    BY <1>1 DEF WorkerWorks, WorkerReads, WorkerStarts, WorkerPauses, WorkerResumes,
       WorkerSampled, WorkerExits, WorkerDies, WorkerEnds
  <2> QED
    BY <2>1, <2>2, CoreElsewhere DEF WorkerOnly, storage
<1>2. CASE ThreadStep \/ ThreadPanics
  <2>1. ThreadOnly
    BY <1>2 DEF ThreadStep, ThreadStarts, ThreadStops, ThreadPauses, ThreadResumes,
       ThreadEnters, ThreadCommits, ThreadEnds, ThreadPanics
  <2> QED
    BY <2>1, CoreElsewhere DEF ThreadOnly, process, channel
<1>3. CASE OrphanStarts \/ OrphanExits \/ CliStarts
  <2>1. Elsewhere
    BY <1>3 DEF OrphanStarts, OrphanExits, CliStarts
  <2> QED
    BY <2>1, CoreElsewhere DEF Elsewhere, process, channel, storage
<1>4. CASE UNCHANGED vars
  BY <1>4, CoreElsewhere DEF vars, process, channel, storage
<1> QED
  BY <1>1, <1>2, <1>3, <1>4

\* A restart loads what the table holds; nothing in it was to stop or is left running.
LEMMA CoreRestart ==
    ASSUME TypeInv, RunnerInv, QueueInv, open_store \/ Crash \/ Exit
    PROVE  RunnerInv' /\ QueueNext
<1>0. rows \in Seq(Job) /\ DOMAIN rows = DOMAIN jobs /\ \A k \in DOMAIN jobs : rows[k] \in Job
  BY ElementOfSeq, LenProperties DEF TypeInv, TypeOK, TablesOK
<1>1. CASE open_store
  <2>1. \A k \in DOMAIN jobs : /\ jobs'[k] = Reopened(rows[k]) /\ rows'[k] = jobs'[k]
    BY <1>0, <1>1 DEF open_store
  <2>2. DOMAIN jobs' = DOMAIN jobs
    BY <1>0, <1>1 DEF open_store
  <2>3. ASSUME NEW k \in DOMAIN jobs
        PROVE  /\ Follows(jobs', rows', k)
               /\ jobs'[k].phase \notin {"Pausing", "Cancelling"}
    <3>1. /\ jobs'[k].game = rows[k].game /\ jobs'[k].operation = rows[k].operation
          /\ jobs'[k].user_paused = rows[k].user_paused
          /\ jobs'[k].phase \in {rows[k].phase, "Interrupted"}
          /\ jobs'[k].phase \notin {"Pausing", "Cancelling"}
      <4>1. /\ rows[k] \in Job /\ jobs'[k] = Reopened(rows[k]) BY <1>0, <2>1
      <4>2. CASE rows[k].phase \in ActivePhases /\ rows[k].phase # "Queued" /\ ~NeverStarted(rows[k])
        <5>1. jobs'[k] = [rows[k] EXCEPT !.phase = "Interrupted"] BY <4>1, <4>2 DEF Reopened
        <5> QED BY <4>1, <5>1 DEF Job
      <4>3. CASE ~(rows[k].phase \in ActivePhases /\ rows[k].phase # "Queued" /\ ~NeverStarted(rows[k]))
        <5>1. jobs'[k] = rows[k] BY <4>1, <4>3 DEF Reopened
        <5> QED BY <4>3, <5>1 DEF ActivePhases, NeverStarted
      <4> QED BY <4>2, <4>3
    <3>2. rows[k].phase \in ActivePhases => IsActive(k)
      BY JobTypes DEF QueueInv, OutcomeDurable, IsActive, Job, ActivePhases, FinishedPhases,
         OutcomePhases
    <3>3. jobs'[k].phase \in ActivePhases => Live(k)
      BY <3>1, <3>2 DEF Live, ActivePhases
    <3>4. ~Live(k) => jobs'[k].phase = jobs[k].phase
      <4>1. ~Live(k) => rows[k].phase = jobs[k].phase /\ jobs[k].phase \notin ActivePhases
        BY JobTypes DEF QueueInv, OutcomeDurable, Live, IsActive, Job
      <4> QED
        BY <2>1, <4>1 DEF Reopened
    <3> QED
      BY <2>1, <3>1, <3>3, <3>4 DEF QueueInv, Follows
  <2>4. active = 0 /\ pack_active = 0 /\ active' = 0 /\ pack_active' = 0 /\ finished' = finished
    BY <1>1 DEF open_store, TypeInv, Runners, process, channel, storage
  <2>5. QueueNext
    BY <2>2, <2>3, <2>4, QueueKept
  <2>6. RunnerInv'
    BY <1>1, <2>2, <2>3, <2>4 DEF RunnerInv, StoppingHasRunner, open_store
  <2> QED
    BY <2>5, <2>6
<1>2. CASE Crash \/ Exit
  <2>1. jobs' = rows /\ rows' = rows /\ pc' = "down"
    BY <1>2 DEF Crash, Exit, LoseMemory
  <2>2. active' = 0 /\ pack_active' = 0 /\ ~finished'
    BY <1>2 DEF Crash, Exit, DropWorker, process, channel, storage, RunnerInv
  <2>3. ASSUME NEW k \in DOMAIN jobs
        PROVE  Follows(jobs', rows', k)
    <3>1. rows[k].phase \in ActivePhases => IsActive(k)
      BY JobTypes DEF QueueInv, OutcomeDurable, IsActive, Job, ActivePhases, FinishedPhases,
         OutcomePhases
    <3>2. ~Live(k) => rows[k].phase = jobs[k].phase
      BY JobTypes DEF QueueInv, OutcomeDurable, Live, IsActive, Job
    <3> QED
      BY <2>1, <3>1, <3>2 DEF QueueInv, Follows, Live
  <2>4. QueueNext
    BY <1>0, <2>1, <2>2, <2>3, QueueKept
  <2>5. RunnerInv'
    BY <2>1, <2>2 DEF RunnerInv, StoppingHasRunner
  <2> QED
    BY <2>4, <2>5
<1> QED
  BY <1>1, <1>2

-----------------------------------------------------------------------------
(* Requests *)

\* Between passes the job of a runner is active.
LEMMA ClientStage ==
    ASSUME TypeInv, RunnerInv, pc = "client"
    PROVE  /\ ~finished
           /\ \A i \in DOMAIN jobs : Live(i) <=> IsActive(i)
           /\ \A i \in DOMAIN jobs : HasRunner(i) => IsActive(i)
  BY JobTypes DEF RunnerInv, Live, HasRunner

\* What a request leaves of the phases: only a job with a runner is told to stop, and a
\* runner's job stays active.
RequestPhases ==
    \A k \in DOMAIN jobs' :
        /\ jobs'[k].phase \in {"Pausing", "Cancelling"} => k \in {active, pack_active}
        /\ k \in {active, pack_active} => jobs'[k].phase \in ActivePhases

LEMMA CoreRequest ==
    ASSUME TypeInv, RunnerInv, QueueInv, Replies, RequestEffect, RequestPhases, QueueNext
    PROVE  RunnerInv' /\ QueueNext
  BY ClientStage, JobTypes DEF Replies, RequestPhases, RequestEffect, RunnerInv, StoppingHasRunner,
     HasRunner, IsActive

\* The phases of jobs no request touched.
LEMMA OldPhases ==
    ASSUME TypeInv, RunnerInv, pc = "client", NEW k \in DOMAIN jobs
    PROVE  /\ jobs[k].phase \in {"Pausing", "Cancelling"} => k \in {active, pack_active}
           /\ k \in {active, pack_active} => jobs[k].phase \in ActivePhases
  BY ClientStage DEF RunnerInv, StoppingHasRunner, HasRunner, IsActive

\* Appending a job adds one that is Queued.
LEMMA GrownPhases ==
    ASSUME TypeInv, NEW j \in Seq(Job), DOMAIN j = DOMAIN jobs, NEW g, NEW op,
           NewJob(g, op) \in Job, jobs' = Enqueued(j, g, op)
    PROVE  \A k \in DOMAIN jobs' :
               \/ k \in DOMAIN jobs /\ jobs'[k] = j[k]
               \/ k \notin DOMAIN jobs /\ jobs'[k].phase = "Queued"
<1>1. NewJob(g, op).phase = "Queued"
  BY DEF NewJob
<1> QED
  BY <1>1, AppendSeq, LenProperties DEF Enqueued

LEMMA CoreAppends ==
    ASSUME TypeInv, RunnerInv, QueueInv, pc = "client", active' = active,
           NEW g, NEW op, NewJob(g, op) \in Job,
           jobs' = Enqueued(jobs, g, op), rows' = Enqueued(rows, g, op)
    PROVE  RequestPhases /\ QueueNext
<1>1. jobs \in Seq(Job) /\ rows \in Seq(Job) /\ DOMAIN rows = DOMAIN jobs
  BY DEF TypeInv, TypeOK, TablesOK
<1>2. QueueNext
  BY <1>1, SameFollows, QueueGrown
<1>3. \A k \in DOMAIN jobs' : \/ k \in DOMAIN jobs /\ jobs'[k] = jobs[k]
                              \/ k \notin DOMAIN jobs /\ jobs'[k].phase = "Queued"
  BY <1>1, GrownPhases
<1>4. RequestPhases
  BY <1>3, OldPhases DEF RequestPhases, ActivePhases
<1> QED
  BY <1>2, <1>4

LEMMA CoreMaintain ==
    ASSUME TypeInv, RunnerInv, QueueInv, NEW g \in Games, Maintain(g)
    PROVE  RunnerInv' /\ QueueNext
<1>1. NewJob(g, "Compress") \in Job
  BY DEF NewJob, Job, ActivePhases
<1>2. QueueNext /\ RequestPhases
  BY <1>1, CoreAppends DEF Maintain, process
<1>3. DOMAIN jobs \subseteq DOMAIN jobs'
  BY BothEnqueued DEF Maintain, TypeInv, TypeOK
<1>4. pc = "client" /\ UNCHANGED <<pc, active, pack_active, finished>>
  BY DEF Maintain, process, channel, storage
<1> QED
  BY <1>2, <1>3, <1>4, ClientStage, JobTypes DEF RequestPhases, RunnerInv, StoppingHasRunner,
     HasRunner, IsActive

LEMMA CoreEnqueue ==
    ASSUME TypeInv, RunnerInv, QueueInv, NEW g \in Games, NEW op \in Operations, Enqueue(g, op)
    PROVE  RunnerInv' /\ QueueNext
<1>1. NewJob(g, op) \in Job
  BY EnqueuedSeq, EmptySeq
<1>2. Replies /\ RequestEffect
  BY EnqueueEffect DEF Enqueue
<1>3. pc = "client" /\ active' = active
  BY <1>2 DEF Replies
<1>4. CASE ~Preempts(op)
  <2>1. RequestPhases /\ QueueNext
    BY <1>1, <1>3, <1>4, CoreAppends DEF Enqueue
  <2> QED
    BY <1>2, <2>1, CoreRequest
<1>5. CASE Preempts(op)
  <2> DEFINE stopped == [jobs[active] EXCEPT !.phase = "Cancelling"]
             j == [jobs EXCEPT ![active] = stopped]
             r == [rows EXCEPT ![active] = stopped]
  <2>1. active \in DOMAIN jobs /\ IsActive(active)
    BY <1>3, <1>5, ClientStage, JobTypes DEF Preempts, HasRunner
  <2>2. /\ stopped \in Job /\ stopped.phase = "Cancelling"
        /\ stopped.game = jobs[active].game /\ stopped.operation = jobs[active].operation
    BY <2>1, JobTypes, PhaseChange DEF Job, ActivePhases, TypeInv, TypeOK
  <2> HIDE DEF stopped
  <2>3. j \in Seq(Job) /\ r \in Seq(Job) /\ DOMAIN j = DOMAIN jobs /\ DOMAIN r = DOMAIN jobs
    BY <2>1, <2>2, UpdatedSeq DEF TypeInv, TypeOK, TablesOK
  <2>4. /\ j[active] = stopped /\ r[active] = stopped
        /\ \A k \in DOMAIN jobs \ {active} : j[k] = jobs[k] /\ r[k] = rows[k]
    BY <2>1 DEF TypeInv, TypeOK, TablesOK
  <2>5. jobs' = Enqueued(j, g, op) /\ rows' = Enqueued(r, g, op)
    BY <1>5 DEF Enqueue, stopped
  <2> HIDE DEF j, r
  <2>6. \A k \in DOMAIN jobs : Follows(j, r, k)
    <3>1. Follows(j, r, active)
      BY <2>1, <2>2, <2>4 DEF Follows, Live, FinishedPhases, OutcomePhases
    <3> QED
      BY <2>4, <3>1, SameFollows DEF Follows
  <2>7. QueueNext
    BY <1>1, <1>3, <2>3, <2>5, <2>6, QueueGrown
  <2>8. RequestPhases
    BY <1>1, <1>3, <2>2, <2>3, <2>4, <2>5, GrownPhases, OldPhases, JobTypes
       DEF RequestPhases, ActivePhases
  <2> QED
    BY <1>2, <2>7, <2>8, CoreRequest
<1> QED
  BY <1>4, <1>5

LEMMA CoreRetry ==
    ASSUME TypeInv, RunnerInv, QueueInv, NEW i \in DOMAIN jobs, Retry(i)
    PROVE  RunnerInv' /\ QueueNext
<1>1. NewJob(jobs[i].game, jobs[i].operation) \in Job
  BY JobTypes DEF NewJob, Job, ActivePhases
<1>2. Replies /\ RequestEffect
  BY RetryEffect DEF Retry
<1>3. RequestPhases /\ QueueNext
  BY <1>1, <1>2, CoreAppends DEF Retry, Replies
<1> QED
  BY <1>2, <1>3, CoreRequest

LEMMA CoreExclude ==
    ASSUME TypeInv, RunnerInv, QueueInv, NEW g \in Games, Exclude(g)
    PROVE  RunnerInv' /\ QueueNext
<1>1. Replies /\ RequestEffect
  BY ExcludeEffect DEF Exclude
<1>2. pc = "client" /\ active' = active
  BY <1>1 DEF Replies
<1>3. PICK done : /\ done \subseteq ActiveIds
                  /\ jobs' = [i \in DOMAIN jobs |->
                       IF i \in done
                       THEN [jobs[i] EXCEPT !.phase =
                                 IF HasRunner(i) THEN "Cancelling" ELSE "Cancelled"]
                       ELSE jobs[i]]
                  /\ rows' = [i \in DOMAIN rows |->
                       IF i \in done
                       THEN [jobs[i] EXCEPT !.phase =
                                 IF HasRunner(i) THEN "Cancelling" ELSE "Cancelled"]
                       ELSE rows[i]]
  BY DEF Exclude
<1>4. DOMAIN jobs' = DOMAIN jobs /\ DOMAIN rows = DOMAIN jobs
  BY <1>3 DEF TypeInv, TypeOK, TablesOK
<1>5. ASSUME NEW k \in DOMAIN jobs
      PROVE  /\ Follows(jobs', rows', k)
             /\ jobs'[k].phase \in {"Pausing", "Cancelling"} => k \in {active, pack_active}
             /\ k \in {active, pack_active} => jobs'[k].phase \in ActivePhases
  <2>1. CASE k \in done
    <3> DEFINE p == IF HasRunner(k) THEN "Cancelling" ELSE "Cancelled"
    <3>1. jobs'[k] = [jobs[k] EXCEPT !.phase = p] /\ rows'[k] = [jobs[k] EXCEPT !.phase = p]
      BY <1>3, <1>4, <2>1
    <3>2. jobs'[k] = rows'[k] /\ jobs'[k].phase = p /\ jobs'[k].game = jobs[k].game
          /\ jobs'[k].operation = jobs[k].operation
      BY <3>1, JobTypes DEF Job
    <3>3. Live(k)
      BY <1>3, <2>1 DEF ActiveIds, Live
    <3>4. Follows(jobs', rows', k)
      BY <3>2, <3>3 DEF Follows
    <3> QED
      BY <3>2, <3>4 DEF HasRunner, ActivePhases
  <2>2. CASE k \notin done
    <3>1. jobs'[k] = jobs[k] /\ rows'[k] = rows[k]
      BY <1>3, <1>4, <2>2
    <3> QED
      BY <1>2, <3>1, SameFollows, OldPhases DEF Follows
  <2> QED
    BY <2>1, <2>2
<1>6. RequestPhases
  BY <1>4, <1>5 DEF RequestPhases
<1>7. QueueNext
  BY <1>2, <1>4, <1>5, QueueKept DEF Live
<1> QED
  BY <1>1, <1>6, <1>7, CoreRequest

LEMMA CoreJobRequest ==
    ASSUME TypeInv, RunnerInv, QueueInv, NEW i \in DOMAIN jobs,
           \/ \E paused \in BOOLEAN : Pause(i, paused)
           \/ CancelWorker(i) \/ CancelStorage(i) \/ CancelIdle(i)
    PROVE  RunnerInv' /\ QueueNext
<1>1. Replies /\ RequestEffect
  BY JobRequestEffect DEF Pause, CancelWorker, CancelStorage, CancelIdle
<1>2. pc = "client" /\ active' = active
  BY <1>1 DEF Replies
<1>3. PICK job \in Job :
          /\ Save(i, job)
          /\ job.game = jobs[i].game /\ job.operation = jobs[i].operation
          /\ Live(i)
          /\ HasRunner(i) => job.phase \in ActivePhases
          /\ job.phase \in {"Pausing", "Cancelling"} => HasRunner(i)
  <2>0. jobs[i] \in Job
    BY JobTypes
  <2>1. CASE \E paused \in BOOLEAN : Pause(i, paused)
    <3>1. PICK paused \in BOOLEAN : Pause(i, paused)
      BY <2>1
    <3> DEFINE idle == jobs[i].phase = "Queued" \/ (jobs[i].phase = "Paused" /\ ~HasRunner(i))
               p == IF ~idle THEN jobs[i].phase ELSE IF paused THEN "Paused" ELSE "Queued"
               job == [jobs[i] EXCEPT !.user_paused = paused, !.phase = p]
    <3>2. Save(i, job) /\ IsActive(i)
      BY <3>1, <2>0 DEF Pause, Job
    <3>3. /\ job \in Job /\ job.phase = p
          /\ job.game = jobs[i].game /\ job.operation = jobs[i].operation
      BY <2>0 DEF Job, ActivePhases
    <3>4. p \in ActivePhases /\ (p \in {"Pausing", "Cancelling"} => HasRunner(i))
      BY <3>2, <1>2, OldPhases DEF IsActive, ActivePhases, HasRunner
    <3> HIDE DEF job, p
    <3> QED
      BY <3>2, <3>3, <3>4 DEF Live
  <2>2. CASE CancelWorker(i) \/ CancelStorage(i)
    <3> DEFINE job == [jobs[i] EXCEPT !.phase = "Cancelling"]
    <3>1. Save(i, job) /\ HasRunner(i)
      BY <2>2 DEF CancelWorker, CancelStorage, HasRunner
    <3>2. /\ job \in Job /\ job.phase = "Cancelling"
          /\ job.game = jobs[i].game /\ job.operation = jobs[i].operation
      BY <2>0 DEF Job, ActivePhases
    <3>3. Live(i)
      BY <1>2, <3>1, ClientStage
    <3> HIDE DEF job
    <3> QED
      BY <3>1, <3>2, <3>3 DEF ActivePhases
  <2>3. CASE CancelIdle(i)
    <3> DEFINE job == [jobs[i] EXCEPT !.phase = "Cancelled"]
    <3>1. Save(i, job) /\ ~HasRunner(i)
      BY <2>3 DEF CancelIdle
    <3>2. /\ job \in Job /\ job.phase = "Cancelled"
          /\ job.game = jobs[i].game /\ job.operation = jobs[i].operation
      BY <2>0 DEF Job, FinishedPhases, OutcomePhases
    <3>3. Live(i)
      BY <2>3 DEF CancelIdle, Live
    <3> HIDE DEF job
    <3> QED
      BY <3>1, <3>2, <3>3 DEF ActivePhases
  <2> QED
    BY <2>1, <2>2, <2>3
<1>4. /\ DOMAIN jobs' = DOMAIN jobs /\ jobs'[i] = job
      /\ \A k \in DOMAIN jobs : Follows(jobs', rows', k)
      /\ \A k \in DOMAIN jobs \ {i} : jobs'[k] = jobs[k]
  BY <1>3, SavedFollows
<1>5. QueueNext
  BY <1>2, <1>4, QueueKept DEF Live
<1>6. RequestPhases
  BY <1>2, <1>3, <1>4, OldPhases DEF RequestPhases, HasRunner
<1> QED
  BY <1>1, <1>5, <1>6, CoreRequest

LEMMA CoreOtherRequest ==
    ASSUME TypeInv, RunnerInv, QueueInv, NoRequest \/ \E g \in Games : Include(g)
    PROVE  RunnerInv' /\ QueueNext
<1>1. Replies /\ UNCHANGED queue
  BY DEF NoRequest, Include
<1> QED
  BY <1>1 DEF Replies, queue, RunnerInv, QueueNext, QueueInv, OutcomeDurable, StoppingHasRunner, HasRunner,
     Live, IsActive

-----------------------------------------------------------------------------
(* The other stages of the loop *)

\* A job that changes phase in memory only, and stays active.
LEMMA MemoryFollows ==
    ASSUME TypeInv, QueueInv, NEW i \in DOMAIN jobs, NEW job \in Job, Live(i),
           job.game = jobs[i].game, job.operation = jobs[i].operation,
           job.user_paused = jobs[i].user_paused,
           job.phase \in ActivePhases \/ job.phase = jobs[i].phase,
           jobs' = [jobs EXCEPT ![i] = job], rows' = rows
    PROVE  /\ DOMAIN jobs' = DOMAIN jobs
           /\ \A k \in DOMAIN jobs : Follows(jobs', rows', k)
           /\ jobs'[i] = job
           /\ \A k \in DOMAIN jobs \ {i} : jobs'[k] = jobs[k]
<1>1. /\ jobs'[i] = job /\ DOMAIN jobs' = DOMAIN jobs
      /\ \A k \in DOMAIN jobs \ {i} : jobs'[k] = jobs[k]
  BY DEF TypeInv, TypeOK, TablesOK
<1>2. job.phase \in FinishedPhases => rows[i].phase = job.phase
  BY DEF QueueInv, OutcomeDurable, ActivePhases, FinishedPhases, OutcomePhases
<1>3. Follows(jobs', rows', i)
  BY <1>1, <1>2 DEF Follows, QueueInv
<1>4. \A k \in DOMAIN jobs \ {i} : Follows(jobs', rows', k)
  BY <1>1, SameFollows DEF Follows
<1> QED
  BY <1>1, <1>3, <1>4

\* A stopping job keeps its runner while the only job that changes has one, or ends.
LEMMA StoppingKept ==
    ASSUME RunnerInv, pc # "down", DOMAIN jobs' = DOMAIN jobs, NEW i,
           \A k \in DOMAIN jobs \ {i} : /\ jobs'[k].phase = jobs[k].phase
                                        /\ HasRunner(k) => HasRunner(k)',
           i \in DOMAIN jobs /\ jobs'[i].phase \in {"Pausing", "Cancelling"} => HasRunner(i)'
    PROVE  StoppingHasRunner'
  BY DEF RunnerInv, StoppingHasRunner

LEMMA CoreDrive ==
    ASSUME TypeInv, RunnerInv, QueueInv, NEW ready \in SUBSET Games, Drive(ready)
    PROVE  RunnerInv' /\ QueueNext
<1> DEFINE held  == Held(active, ready)
           sends == active # 0 /\ held # sent /\ jobs[active].phase # "Cancelling"
<1>1. /\ pc = "drive" /\ ~finished
      /\ UNCHANGED <<active, pack_active, worker>>
      /\ pc' = IF active # 0 THEN "events" ELSE IF pack_active # 0 THEN "pack" ELSE "choose"
  BY DEF Drive, RunnerInv, storage
<1>2. active # 0 => /\ active \in DOMAIN jobs /\ IsActive(active) /\ Live(active)
                    /\ jobs[active] \in Job /\ pack_active = 0
  BY <1>1, JobTypes DEF RunnerInv, Live
<1>3. CASE sends /\ PipeOpen
  <2>1. PICK p \in {"Pausing", "Analyzing", "Running"} :
            /\ jobs' = [jobs EXCEPT ![active] = [jobs[active] EXCEPT !.phase = p]]
            /\ rows' = rows /\ finished' = finished
    BY <1>2, <1>3 DEF Drive, WorkingPhase, TypeInv, TypeOK, TablesOK
  <2> DEFINE job == [jobs[active] EXCEPT !.phase = p]
  <2>2. /\ job \in Job /\ job.phase = p /\ job.game = jobs[active].game
        /\ job.operation = jobs[active].operation /\ job.user_paused = jobs[active].user_paused
    BY <1>2, <1>3 DEF Job, ActivePhases
  <2>3. jobs' = [jobs EXCEPT ![active] = job]
    BY <2>1
  <2> HIDE DEF job
  <2>4. /\ DOMAIN jobs' = DOMAIN jobs /\ jobs'[active] = job
        /\ \A k \in DOMAIN jobs : Follows(jobs', rows', k)
        /\ \A k \in DOMAIN jobs \ {active} : jobs'[k] = jobs[k]
    <3>1. p \in ActivePhases
      BY DEF ActivePhases
    <3> QED
      BY <1>2, <1>3, <2>1, <2>2, <2>3, <3>1, MemoryFollows
  <2>5. QueueNext
    BY <1>1, <1>2, <2>4, QueueKept DEF Live
  <2>6. StoppingHasRunner'
    BY <1>1, <2>4, StoppingKept DEF HasRunner
  <2> QED
    BY <1>1, <1>2, <1>3, <2>1, <2>2, <2>4, <2>5, <2>6 DEF RunnerInv, IsActive, ActivePhases
<1>4. CASE sends /\ ~PipeOpen
  <2>1. Save(active, [jobs[active] EXCEPT !.phase = "Interrupted"]) /\ finished'
    BY <1>4 DEF Drive
  <2>2. /\ DOMAIN jobs' = DOMAIN jobs /\ jobs'[active].phase = "Interrupted"
        /\ \A k \in DOMAIN jobs : Follows(jobs', rows', k)
        /\ \A k \in DOMAIN jobs \ {active} : jobs'[k] = jobs[k]
    BY <1>2, <1>4, <2>1, PhaseFollows DEF FinishedPhases, ActivePhases
  <2>3. QueueNext
    BY <1>1, <1>2, <2>2, QueueKept DEF Live
  <2>4. StoppingHasRunner'
    BY <1>1, <2>2, StoppingKept DEF HasRunner
  <2> QED
    BY <1>1, <1>2, <1>4, <2>1, <2>2, <2>3, <2>4 DEF RunnerInv, PipeOpen
<1>5. CASE ~sends
  <2>1. UNCHANGED <<queue, finished>>
    BY <1>5 DEF Drive
  <2>2. QueueNext
    BY <1>1, <2>1 DEF queue, QueueNext, QueueInv, OutcomeDurable, Live, IsActive
  <2>3. StoppingHasRunner'
    BY <1>1, <2>1 DEF queue, RunnerInv, StoppingHasRunner, HasRunner
  <2> QED
    BY <1>1, <2>1, <2>2, <2>3 DEF queue, RunnerInv, IsActive
<1> QED
  BY <1>3, <1>4, <1>5

\* Letting the worker go leaves no job that waits for it.
LEMMA CoreDropped ==
    ASSUME TypeInv, RunnerInv, QueueInv, pc = "events", active' = 0, ~finished',
           pack_active' = pack_active,
           DOMAIN jobs' = DOMAIN jobs, \A k \in DOMAIN jobs : Follows(jobs', rows', k),
           \A k \in DOMAIN jobs \ {active} : jobs'[k] = jobs[k],
           jobs'[active].phase \notin {"Pausing", "Cancelling"}
    PROVE  RunnerInv' /\ QueueNext
<1>1. pack_active = 0
  BY DEF RunnerInv, TypeInv, Runners
<1>2. QueueNext
  BY QueueKept
<1>3. StoppingHasRunner'
  BY <1>1, JobTypes, StoppingKept DEF HasRunner
<1> QED
  BY <1>1, <1>2, <1>3 DEF RunnerInv

LEMMA CoreEvents ==
    ASSUME TypeInv, RunnerInv, QueueInv, ApplyUpdate \/ ApplyOutcome \/ EventsRead
    PROVE  RunnerInv' /\ QueueNext
<1>1. /\ pc = "events" /\ active \in DOMAIN jobs /\ active # 0 /\ Live(active)
      /\ jobs[active] \in Job /\ pack_active = 0 /\ pack_active' = 0
  BY JobTypes DEF ApplyUpdate, ApplyOutcome, EventsRead, TypeInv, Runners, Live, RunnerInv,
     storage
<1>2. CASE ApplyUpdate
  <2>1. PICK p \in {"Paused", "Running"} :
            jobs' = [jobs EXCEPT ![active] = [jobs[active] EXCEPT !.phase = p]]
    BY <1>1, <1>2 DEF ApplyUpdate, TypeInv, TypeOK, TablesOK
  <2> DEFINE job == [jobs[active] EXCEPT !.phase = p]
  <2>2. /\ job \in Job /\ job.phase = p /\ job.game = jobs[active].game
        /\ job.operation = jobs[active].operation /\ job.user_paused = jobs[active].user_paused
        /\ job.phase \in ActivePhases
    BY <1>1 DEF Job, ActivePhases
  <2>3. jobs' = [jobs EXCEPT ![active] = job]
    BY <2>1
  <2> HIDE DEF job
  <2>4. rows' = rows /\ UNCHANGED <<pc, active, finished, worker>>
    BY <1>2 DEF ApplyUpdate
  <2>5. /\ DOMAIN jobs' = DOMAIN jobs /\ jobs'[active] = job
        /\ \A k \in DOMAIN jobs : Follows(jobs', rows', k)
        /\ \A k \in DOMAIN jobs \ {active} : jobs'[k] = jobs[k]
    BY <1>1, <2>2, <2>3, <2>4, MemoryFollows
  <2>6. QueueNext
    BY <1>1, <2>4, <2>5, QueueKept
  <2>7. StoppingHasRunner'
    BY <1>1, <2>4, <2>5, StoppingKept DEF HasRunner
  <2> QED
    BY <1>1, <2>1, <2>2, <2>4, <2>5, <2>6, <2>7 DEF RunnerInv, IsActive
<1>3. CASE ApplyOutcome
  <2> DEFINE p == IF Disconnected THEN "Failed" ELSE Head(events)
  <2>1. p \in OutcomePhases
    BY <1>3 DEF ApplyOutcome, OutcomePhases
  <2>2. Save(active, [jobs[active] EXCEPT !.phase = p])
    BY <1>3 DEF ApplyOutcome
  <2> HIDE DEF p
  <2>3. p \in FinishedPhases /\ p \notin ActivePhases
    BY <2>1 DEF FinishedPhases, OutcomePhases, ActivePhases
  <2>4. /\ DOMAIN jobs' = DOMAIN jobs /\ jobs'[active].phase = p
        /\ \A k \in DOMAIN jobs : Follows(jobs', rows', k)
        /\ \A k \in DOMAIN jobs \ {active} : jobs'[k] = jobs[k]
    BY <1>1, <2>2, <2>3, PhaseFollows
  <2> QED
    BY <1>1, <1>3, <2>3, <2>4, CoreDropped DEF ApplyOutcome, DropWorker, ActivePhases
<1>4. CASE EventsRead
  <2>1. PICK touched \in BOOLEAN, save \in BOOLEAN :
            /\ jobs' = [jobs EXCEPT ![active] = [jobs[active] EXCEPT !.touched = touched]]
            /\ rows' = IF save THEN [rows EXCEPT ![active] = jobs'[active]] ELSE rows
    BY <1>1, <1>4 DEF EventsRead, TypeInv, TypeOK, TablesOK, Job
  <2> DEFINE job == [jobs[active] EXCEPT !.touched = touched]
  <2>2. /\ job \in Job /\ job.phase = jobs[active].phase /\ job.game = jobs[active].game
        /\ job.operation = jobs[active].operation /\ job.user_paused = jobs[active].user_paused
    BY <1>1 DEF Job
  <2>3. jobs' = [jobs EXCEPT ![active] = job]
    BY <2>1
  <2> HIDE DEF job
  <2>4. /\ DOMAIN jobs' = DOMAIN jobs /\ jobs'[active] = job
        /\ \A k \in DOMAIN jobs : Follows(jobs', rows', k)
        /\ \A k \in DOMAIN jobs \ {active} : jobs'[k] = jobs[k]
    <3>1. CASE save
      <4>1. jobs'[active] = job
        BY <1>1, <2>3 DEF TypeInv, TypeOK, TablesOK
      <4>2. Save(active, job)
        BY <2>1, <2>3, <3>1, <4>1 DEF Save
      <4> QED
        BY <1>1, <2>2, <4>2, SavedFollows
    <3>2. CASE ~save
      BY <1>1, <2>1, <2>2, <2>3, <3>2, MemoryFollows
    <3> QED
      BY <3>1, <3>2
  <2>5. CASE finished
    <3>1. active' = 0 /\ ~finished'
      BY <1>4, <2>5 DEF EventsRead, DropWorker
    <3>2. job.phase \notin {"Pausing", "Cancelling"}
      BY <2>2, <2>5 DEF RunnerInv
    <3> QED
      BY <1>1, <2>4, <3>1, <3>2, CoreDropped
  <2>6. CASE ~finished
    <3>1. UNCHANGED <<active, finished, worker>>
      BY <1>4, <2>6 DEF EventsRead, process, channel
    <3>2. QueueNext
      BY <1>1, <2>4, <3>1, QueueKept
    <3>3. StoppingHasRunner'
      BY <1>1, <2>4, <3>1, StoppingKept DEF HasRunner
    <3> QED
      BY <1>1, <2>2, <2>4, <2>6, <3>1, <3>2, <3>3 DEF RunnerInv, IsActive
  <2> QED
    BY <2>5, <2>6
<1> QED
  BY <1>2, <1>3, <1>4

LEMMA CorePoll ==
    ASSUME TypeInv, RunnerInv, QueueInv, NEW ready \in SUBSET Games, NEW missing \in BOOLEAN,
           PollThread(ready, missing)
    PROVE  RunnerInv' /\ QueueNext
<1>1. /\ pc = "pack" /\ pc' = "reap" /\ pack_active \in DOMAIN jobs /\ pack_active # 0
      /\ IsActive(pack_active) /\ jobs[pack_active] \in Job
      /\ active = 0 /\ UNCHANGED <<active, pack_active, finished>>
  BY JobTypes DEF PollThread, TypeInv, Runners, RunnerInv, process, channel
<1>2. PICK p \in {jobs[pack_active].phase, "Paused", "Running"}, touched \in BOOLEAN :
          Save(pack_active, [jobs[pack_active] EXCEPT !.phase = p, !.touched = touched])
  BY <1>1 DEF PollThread, Noted, Job
<1> DEFINE job == [jobs[pack_active] EXCEPT !.phase = p, !.touched = touched]
<1>3. /\ job \in Job /\ job.phase = p /\ job.game = jobs[pack_active].game
      /\ job.operation = jobs[pack_active].operation
  BY <1>1 DEF Job, ActivePhases
<1>4. p \in ActivePhases
  BY <1>1 DEF IsActive, ActivePhases
<1>5. Save(pack_active, job)
  BY <1>2
<1> HIDE DEF job
<1>6. /\ DOMAIN jobs' = DOMAIN jobs /\ jobs'[pack_active] = job
      /\ \A k \in DOMAIN jobs : Follows(jobs', rows', k)
      /\ \A k \in DOMAIN jobs \ {pack_active} : jobs'[k] = jobs[k]
  BY <1>1, <1>3, <1>5, SavedFollows DEF Live
<1>7. QueueNext
  BY <1>1, <1>6, QueueKept
<1>8. StoppingHasRunner'
  BY <1>1, <1>6, StoppingKept DEF HasRunner
<1> QED
  BY <1>1, <1>3, <1>4, <1>6, <1>7, <1>8 DEF RunnerInv, IsActive

LEMMA CoreReap ==
    ASSUME TypeInv, RunnerInv, QueueInv, ReapThread
    PROVE  RunnerInv' /\ QueueNext
<1>1. /\ pc = "reap" /\ pc' = "choose" /\ pack_active \in DOMAIN jobs /\ pack_active # 0
      /\ IsActive(pack_active) /\ active = 0 /\ UNCHANGED <<active, finished>> /\ ~finished
  BY JobTypes DEF ReapThread, TypeInv, Runners, RunnerInv, process, channel
<1>2. CASE thread.st \in {"ended", "panicked"}
  <2> DEFINE p == IF thread.st = "panicked" THEN "Interrupted"
                  ELSE IF thread.result = "ok" THEN "Completed"
                  ELSE IF thread.cancel THEN "Cancelled" ELSE "Failed"
  <2>1. p \in FinishedPhases /\ p \notin ActivePhases
    BY DEF FinishedPhases, OutcomePhases, ActivePhases
  <2>2. Save(pack_active, [jobs[pack_active] EXCEPT !.phase = p]) /\ pack_active' = 0
    BY <1>2 DEF ReapThread
  <2> HIDE DEF p
  <2>3. /\ DOMAIN jobs' = DOMAIN jobs /\ jobs'[pack_active].phase = p
        /\ \A k \in DOMAIN jobs : Follows(jobs', rows', k)
        /\ \A k \in DOMAIN jobs \ {pack_active} : jobs'[k] = jobs[k]
    BY <1>1, <2>1, <2>2, PhaseFollows DEF Live
  <2>4. QueueNext
    BY <1>1, <2>3, QueueKept
  <2>5. StoppingHasRunner'
    BY <1>1, <2>1, <2>3, JobTypes, StoppingKept DEF HasRunner, ActivePhases
  <2> QED
    BY <1>1, <2>2, <2>4, <2>5 DEF RunnerInv
<1>3. CASE thread.st \notin {"ended", "panicked"}
  <2>1. UNCHANGED <<jobs, rows, pack_active>>
    BY <1>3 DEF ReapThread, queue, storage
  <2>2. QueueNext
    BY <1>1, <2>1 DEF QueueNext, QueueInv, OutcomeDurable, Live, IsActive
  <2>3. StoppingHasRunner'
    BY <1>1, <2>1 DEF RunnerInv, StoppingHasRunner, HasRunner
  <2> QED
    BY <1>1, <2>1, <2>2, <2>3 DEF RunnerInv, IsActive
<1> QED
  BY <1>2, <1>3

LEMMA CoreChoose ==
    ASSUME TypeInv, RunnerInv, QueueInv,
           \/ \E i \in DOMAIN jobs : StartWorker(i) \/ StartThread(i) \/ StartFails(i)
           \/ NothingToStart
    PROVE  RunnerInv' /\ QueueNext
<1>1. CASE NothingToStart
  <2>1. /\ pc = "choose" /\ pc' = "client"
        /\ UNCHANGED <<jobs, rows, active, pack_active, finished>>
    BY <1>1 DEF NothingToStart, queue, process, channel, storage
  <2>2. QueueNext
    BY <2>1 DEF QueueNext, QueueInv, OutcomeDurable, Live, IsActive
  <2>3. StoppingHasRunner'
    BY <2>1 DEF RunnerInv, StoppingHasRunner, HasRunner
  <2> QED
    BY <2>1, <2>2, <2>3 DEF RunnerInv, IsActive
<1>2. ASSUME NEW i \in DOMAIN jobs, StartWorker(i) \/ StartThread(i) \/ StartFails(i)
      PROVE  RunnerInv' /\ QueueNext
  <2>1. /\ pc = "choose" /\ active = 0 /\ pack_active = 0 /\ ~finished /\ i # 0 /\ IsActive(i)
    BY <1>2, JobTypes DEF StartWorker, StartThread, StartFails, Starts, RunnerInv, IsNext,
       Candidates, IsActive, ActivePhases
  <2>2. PICK p \in {"Analyzing", "Running", "Failed"} :
            /\ Save(i, [jobs[i] EXCEPT !.phase = p])
            /\ active' \in {0, i} /\ pack_active' \in {0, i} /\ ~finished'
            /\ active' = 0 \/ pack_active' = 0
            /\ active' = i \/ pack_active' = i => p \in ActivePhases
    <3>1. CASE StartWorker(i)
      BY <2>1, <3>1 DEF StartWorker, WorkingPhase, storage, ActivePhases
    <3>2. CASE StartThread(i)
      BY <2>1, <3>2 DEF StartThread, process, channel, ActivePhases
    <3>3. CASE StartFails(i)
      BY <2>1, <3>3 DEF StartFails, process, channel, storage
    <3> QED
      BY <1>2, <3>1, <3>2, <3>3
  <2>3. p \in ActivePhases \cup FinishedPhases /\ p \notin {"Pausing", "Cancelling"}
    BY DEF ActivePhases, FinishedPhases, OutcomePhases
  <2>4. /\ DOMAIN jobs' = DOMAIN jobs /\ jobs'[i].phase = p
        /\ \A k \in DOMAIN jobs : Follows(jobs', rows', k)
        /\ \A k \in DOMAIN jobs \ {i} : jobs'[k] = jobs[k]
    BY <2>1, <2>2, <2>3, PhaseFollows DEF Live
  <2>5. QueueNext
    BY <2>1, <2>2, <2>4, QueueKept DEF Live
  <2>6. StoppingHasRunner'
    BY <2>1, <2>3, <2>4, JobTypes, StoppingKept DEF HasRunner
  <2> QED
    BY <2>1, <2>2, <2>4, <2>5, <2>6 DEF RunnerInv, IsActive
<1> QED
  BY <1>1, <1>2

LEMMA CoreStep == TypeInv /\ RunnerInv /\ QueueInv /\ [Next]_vars => RunnerInv' /\ QueueNext
<1> SUFFICES ASSUME TypeInv, RunnerInv, QueueInv, [Next]_vars PROVE RunnerInv' /\ QueueNext
  OBVIOUS
<1>1. CASE Request
  BY <1>1, CoreOtherRequest, CoreEnqueue, CoreExclude, CoreRetry, CoreJobRequest DEF Request
<1>2. CASE Pass /\ ~Request
  BY <1>2, CoreMaintain, CoreDrive, CoreEvents, CorePoll, CoreReap, CoreChoose DEF Pass
<1>3. CASE open_store \/ Environment
  BY <1>3, CoreRestart, CoreRunners DEF Environment
<1> QED
  BY <1>1, <1>2, <1>3, CoreRunners DEF Next, Pass

LEMMA CoreAlways == Spec => [](TypeInv /\ RunnerInv /\ QueueInv)
<1>1. Init => TypeInv /\ RunnerInv /\ QueueInv
  BY TypeInit, QueueInit
<1>2. TypeInv /\ RunnerInv /\ QueueInv /\ [Next]_vars => (TypeInv /\ RunnerInv /\ QueueInv)'
  BY TypeStep, CoreStep DEF QueueNext
<1> QED
  BY <1>1, <1>2, PTL DEF Spec

\* The queue never holds two active jobs for one folder and operation, for any number of
\* games, jobs, requests and crashes: enqueue_job looks for one, and no later step brings a
\* second one back to an active phase.
THEOREM OneJobPerFolderEver == Spec => []OneJobPerFolder
<1>1. QueueInv => OneJobPerFolder
  BY DEF QueueInv, OneJobPerFolder, Live
<1> QED
  BY <1>1, CoreAlways, PTL

\* A job that is shown as pausing or cancelling is the one the worker or the storage thread
\* runs, in every stage of the loop and however the runner ended.
THEOREM StoppingHasRunnerEver == Spec => []StoppingHasRunner
<1>1. RunnerInv => StoppingHasRunner
  BY DEF RunnerInv
<1> QED
  BY <1>1, CoreAlways, PTL

\* A phase clients are shown as the end of a job is in the queue table already: the row is
\* written with it wherever the code finishes a job.
THEOREM OutcomeDurableEver == Spec => []OutcomeDurable
<1>1. QueueInv => OutcomeDurable
  BY DEF QueueInv
<1> QED
  BY <1>1, CoreAlways, PTL

\* A job with an outcome keeps it for good, through every request, late worker line, crash
\* and restart.
THEOREM OutcomeStaysEver == Spec => OutcomeStays
<1>1. ASSUME TypeInv, RunnerInv, QueueInv, [Next]_vars
      PROVE  \A i \in DOMAIN jobs :
                 jobs[i].phase \in OutcomePhases => jobs'[i].phase = jobs[i].phase
  <2> SUFFICES ASSUME NEW i \in DOMAIN jobs, jobs[i].phase \in OutcomePhases
               PROVE  jobs'[i].phase = jobs[i].phase
    OBVIOUS
  <2>1. QueueNext
    BY <1>1, CoreStep
  <2>2. ~Live(i)
    BY <1>1, JobTypes DEF Live, IsActive, RunnerInv, ActivePhases, OutcomePhases
  <2> QED
    BY <2>1, <2>2 DEF QueueNext
<1>2. [Next]_vars /\ TypeInv /\ RunnerInv /\ QueueInv
      => [\A i \in DOMAIN jobs :
             jobs[i].phase \in OutcomePhases => jobs'[i].phase = jobs[i].phase]_vars
  BY <1>1
<1> QED
  BY <1>2, CoreAlways, PTL DEF Spec, OutcomeStays

-----------------------------------------------------------------------------
(* Exclusions and pauses *)

ExclusionsSaved == excluded \subseteq saved_excluded

LEMMA ExclusionsStep == ExclusionsSaved /\ [Next]_vars => ExclusionsSaved'
<1> SUFFICES ASSUME ExclusionsSaved, [Next]_vars PROVE ExclusionsSaved'
  OBVIOUS
<1> USE DEF ExclusionsSaved, policy
<1>1. CASE UNCHANGED vars
  BY <1>1 DEF vars
<1>2. CASE Request
  BY <1>2 DEF Request, NoRequest, Enqueue, Exclude, Include, Retry, Pause, CancelWorker,
     CancelStorage, CancelIdle
<1>3. CASE Pass /\ ~Request
  BY <1>3 DEF Pass, Maintain, Drive, ApplyUpdate, ApplyOutcome, EventsRead, PollThread,
     ReapThread, StartWorker, StartThread, StartFails, NothingToStart
<1>4. CASE WorkerReads \/ WorkerWorks \/ WorkerDies
  <2>1. WorkerOnly
    BY <1>4 DEF WorkerWorks, WorkerReads, WorkerStarts, WorkerPauses, WorkerResumes,
       WorkerSampled, WorkerExits, WorkerDies, WorkerGone, WorkerEnds
  <2> QED
    BY <2>1 DEF WorkerOnly
<1>5. CASE ThreadStep \/ ThreadPanics
  <2>1. ThreadOnly
    BY <1>5 DEF ThreadStep, ThreadStarts, ThreadStops, ThreadPauses, ThreadResumes,
       ThreadEnters, ThreadCommits, ThreadEnds, ThreadPanics
  <2> QED
    BY <2>1 DEF ThreadOnly
<1>6. CASE open_store \/ Crash \/ Exit \/ OrphanStarts \/ OrphanExits \/ CliStarts
  BY <1>6 DEF open_store, Crash, Exit, LoseMemory, OrphanStarts, OrphanExits, CliStarts, Elsewhere
<1> QED
  BY <1>1, <1>2, <1>3, <1>4, <1>5, <1>6 DEF Next, Environment, Pass

\* What a user asked of a job, and every exclusion the coordinator acts on, is in the
\* database before any later step can crash.
THEOREM ChoicesDurableEver == Spec => []ChoicesDurable
<1>1. Init => ExclusionsSaved
  BY DEF Init, ExclusionsSaved
<1>2. Spec => []ExclusionsSaved
  BY <1>1, ExclusionsStep, PTL DEF Spec
<1>3. QueueInv /\ ExclusionsSaved => ChoicesDurable
  BY DEF QueueInv, ExclusionsSaved, ChoicesDurable
<1> QED
  BY <1>2, <1>3, CoreAlways, PTL

\* At every moment a crash would find the table and memory in agreement about outcomes, the
\* choices of the user and who ends a job that is stopping (save_job, open_store).
THEOREM DurableEver == Spec => []Durable
<1>1. TypeOK /\ StoppingHasRunner /\ ChoicesDurable /\ OutcomeDurable => Durable
  BY DEF Durable
<1> QED
  BY <1>1, TypeCorrect, StoppingHasRunnerEver, ChoicesDurableEver, OutcomeDurableEver, PTL

-----------------------------------------------------------------------------
(* The storage thread *)

\* A promise sets the cancel flag, and none is given once the final step has begun.
PromiseInv ==
    /\ thread.promised => thread.cancel
    /\ thread.st = "committing" => ~thread.interruptible
    /\ PromiseKept

LEMMA PromiseThread ==
    ASSUME TypeInv, PromiseInv, ThreadStep \/ ThreadPanics
    PROVE  PromiseInv'
<1> USE DEF PromiseInv, PromiseKept, TypeInv, TypeOK, ThreadOK
<1>1. CASE ThreadStarts \/ ThreadStops \/ ThreadPauses \/ ThreadResumes \/ ThreadEnters
  BY <1>1 DEF ThreadStarts, ThreadStops, ThreadPauses, ThreadResumes, ThreadEnters
<1>2. CASE ThreadCommits
  BY <1>2 DEF ThreadCommits
<1>3. CASE \E result \in {"ok", "failed"} : ThreadEnds(result)
  BY <1>3 DEF ThreadEnds
<1>4. CASE ThreadPanics
  BY <1>4 DEF ThreadPanics
<1> QED
  BY <1>1, <1>2, <1>3, <1>4 DEF ThreadStep

LEMMA PromiseRequest ==
    ASSUME TypeInv, PromiseInv, Request
    PROVE  PromiseInv'
<1>1. CASE thread' = thread
  BY <1>1 DEF PromiseInv, PromiseKept
<1>2. CASE NoRequest \/ \E g \in Games : \/ \E op \in Operations : Enqueue(g, op)
                                         \/ Exclude(g) \/ Include(g)
  BY <1>1, <1>2 DEF NoRequest, Enqueue, Exclude, Include
<1>3. CASE \E i \in DOMAIN jobs : \/ Retry(i)
                                  \/ \E paused \in BOOLEAN : Pause(i, paused)
                                  \/ CancelWorker(i) \/ CancelStorage(i) \/ CancelIdle(i)
  <2>1. PICK i \in DOMAIN jobs : \/ Retry(i)
                                 \/ \E paused \in BOOLEAN : Pause(i, paused)
                                 \/ CancelWorker(i) \/ CancelStorage(i) \/ CancelIdle(i)
    BY <1>3
  <2>2. CASE Retry(i) \/ CancelWorker(i) \/ CancelIdle(i)
    BY <1>1, <2>2 DEF Retry, CancelWorker, CancelIdle
  <2>3. CASE \E paused \in BOOLEAN : Pause(i, paused)
    BY <2>3 DEF Pause, PromiseInv, PromiseKept, TypeInv, TypeOK, ThreadOK
  <2>4. CASE CancelStorage(i)
    BY <2>4 DEF CancelStorage, PromiseInv, PromiseKept, TypeInv, TypeOK, ThreadOK
  <2> QED
    BY <2>1, <2>2, <2>3, <2>4
<1> QED
  BY <1>2, <1>3 DEF Request

LEMMA PromiseStep == TypeInv /\ PromiseInv /\ [Next]_vars => PromiseInv'
<1> SUFFICES ASSUME TypeInv, PromiseInv, [Next]_vars PROVE PromiseInv'
  OBVIOUS
<1>1. CASE thread' = thread
  BY <1>1 DEF PromiseInv, PromiseKept
<1>2. CASE thread' = NoThread \/ thread' = [NoThread EXCEPT !.st = "starting", !.interruptible = TRUE]
  <2>1. CASE thread' = NoThread
    BY <2>1 DEF NoThread, PromiseInv, PromiseKept
  <2>2. CASE thread' = [NoThread EXCEPT !.st = "starting", !.interruptible = TRUE]
    BY <2>2 DEF NoThread, PromiseInv, PromiseKept
  <2> QED
    BY <1>2, <2>1, <2>2
<1>3. ASSUME NEW ready \in SUBSET Games, NEW missing \in BOOLEAN, PollThread(ready, missing)
      PROVE  PromiseInv'
  <2>1. thread'.promised = thread.promised /\ thread'.st = thread.st
        /\ thread'.interruptible = thread.interruptible
        /\ (thread.cancel => thread'.cancel)
    BY <1>3 DEF PollThread, TypeInv, TypeOK, ThreadOK
  <2> QED
    BY <2>1 DEF PromiseInv, PromiseKept
<1>4. CASE WorkerReads \/ WorkerWorks \/ WorkerDies
  <2>1. WorkerOnly
    BY <1>4 DEF WorkerWorks, WorkerReads, WorkerStarts, WorkerPauses, WorkerResumes,
       WorkerSampled, WorkerExits, WorkerDies, WorkerGone, WorkerEnds
  <2> QED
    BY <1>1, <2>1 DEF WorkerOnly, storage
<1>5. CASE Pass /\ ~Request
  BY <1>1, <1>2, <1>3, <1>5 DEF Pass, Maintain, Drive, ApplyUpdate, ApplyOutcome, EventsRead,
     ReapThread, StartWorker, StartThread, StartFails, NothingToStart, storage
<1>6. CASE open_store \/ Crash \/ Exit \/ OrphanStarts \/ OrphanExits \/ CliStarts \/ UNCHANGED vars
  BY <1>1, <1>2, <1>6 DEF open_store, Crash, Exit, OrphanStarts, OrphanExits, CliStarts, Elsewhere,
     vars, storage
<1> QED
  BY <1>4, <1>5, <1>6, PromiseThread, PromiseRequest DEF Next, Environment, Pass

\* Once a cancel of the storage job was accepted, its task never enters the step that must
\* finish: PackControl.transition orders the two, for every interleaving of the request with
\* the checkpoint and the second look at the flag.
THEOREM PromiseKeptEver == Spec => []PromiseKept
<1>1. Init => PromiseInv
  BY DEF Init, PromiseInv, PromiseKept, NoThread
<1>2. PromiseInv => PromiseKept
  BY DEF PromiseInv
<1>3. Spec => []TypeInv
  BY Typed
<1> QED
  BY <1>1, <1>2, <1>3, PromiseStep, PTL DEF Spec

-----------------------------------------------------------------------------
(* Exclusion and the worker *)

\* A step that leaves the worker and the exclusions alone takes nothing out of its stdin.
LEMMA StopsKept ==
    ASSUME TypeInv, ExcludedStops, active' = active,
           \A k \in DOMAIN jobs : jobs'[k].game = jobs[k].game,
           saved_excluded' \subseteq saved_excluded,
           worker'.st \in {"sampling", "working"} => worker.st \in {"sampling", "working"},
           worker.cancel => worker'.cancel,
           \/ "cancel" \in Lines(control) => worker'.cancel \/ "cancel" \in Lines(control')
    PROVE  ExcludedStops'
<1>1. worker.st \in {"sampling", "working"} => active \in DOMAIN jobs
  BY DEF TypeInv, TypeOK, LoopOK, Runners
<1> QED
  BY <1>1 DEF ExcludedStops

LEMMA SentLines ==
    ASSUME TypeInv, NEW line \in {"pause", "resume", "cancel"}, SendControl(line)
    PROVE  /\ Lines(control) \subseteq Lines(control')
           /\ worker.st \in {"sampling", "working"} => line \in Lines(control')
<1>1. CASE worker.st \in {"exiting", "refused"}
  BY <1>1 DEF SendControl
<1>2. CASE worker.st \notin {"exiting", "refused"}
  <2>1. control' = Append(control, line)
    BY <1>2 DEF SendControl
  <2>2. /\ DOMAIN control' = DOMAIN control \cup {Len(control) + 1}
        /\ \A k \in DOMAIN control : control'[k] = control[k]
        /\ control'[Len(control) + 1] = line
    BY <2>1, AppendSeq DEF TypeInv, TypeOK, PipesOK
  <2> QED
    BY <2>2 DEF Lines
<1> QED
  BY <1>1, <1>2

LEMMA StopsWorker ==
    ASSUME TypeInv, ExcludedStops, WorkerReads \/ WorkerWorks \/ WorkerDies
    PROVE  ExcludedStops'
<1>1. WorkerOnly
  BY DEF WorkerWorks, WorkerReads, WorkerStarts, WorkerPauses, WorkerResumes, WorkerSampled,
     WorkerExits, WorkerDies, WorkerGone, WorkerEnds
<1>2. UNCHANGED <<active, jobs, saved_excluded>>
  BY <1>1 DEF WorkerOnly, queue, policy
<1> USE DEF TypeInv, TypeOK, WorkerOK
<1>3. CASE WorkerReads
  <2>1. control \in Seq({"pause", "resume", "cancel"}) /\ control # << >>
    BY <1>3 DEF WorkerReads, PipesOK
  <2>2. \A line \in Lines(control) : line = Head(control) \/ line \in Lines(Tail(control))
    <3>1. Len(control) \in Nat /\ DOMAIN control = 1 .. Len(control)
      BY <2>1, LenProperties
    <3>2. /\ DOMAIN Tail(control) = 1 .. Len(control) - 1
          /\ \A k \in 1 .. Len(control) - 1 : Tail(control)[k] = control[k + 1]
          /\ Head(control) = control[1]
      BY <2>1, <3>1, HeadTailProperties
    <3>3. ASSUME NEW k \in 1 .. Len(control), k # 1
          PROVE  k - 1 \in 1 .. Len(control) - 1 /\ (k - 1) + 1 = k
      BY <3>1, <3>3
    <3>4. ASSUME NEW k \in DOMAIN control
          PROVE  control[k] = Head(control) \/ control[k] \in Lines(Tail(control))
      BY <3>1, <3>2, <3>3 DEF Lines
    <3> QED
      BY <3>4 DEF Lines
  <2>3. /\ control' = Tail(control) /\ worker'.st = worker.st
        /\ worker'.cancel = (worker.cancel \/ Head(control) = "cancel")
    BY <1>3 DEF WorkerReads
  <2> QED
    BY <1>2, <2>2, <2>3, StopsKept
<1>4. CASE WorkerStarts
  <2>1. worker'.st \in {"sampling", "working"} => jobs[active].game \notin saved_excluded
    BY <1>4 DEF WorkerStarts
  <2> QED
    BY <1>2, <2>1 DEF ExcludedStops
<1>5. CASE WorkerPauses \/ WorkerResumes \/ WorkerSampled
  <2>1. control' = control /\ worker'.cancel = worker.cancel
        /\ worker.st \in {"sampling", "working"}
    BY <1>5 DEF WorkerPauses, WorkerResumes, WorkerSampled
  <2> QED
    BY <1>2, <2>1, StopsKept
<1>6. CASE WorkerExits \/ WorkerDies \/ \E outcome \in OutcomePhases : WorkerEnds(outcome)
  <2>1. worker'.st \in {"gone", "exiting"}
    BY <1>6 DEF WorkerExits, WorkerDies, WorkerGone, WorkerEnds, NoWorker
  <2> QED
    BY <2>1 DEF ExcludedStops
<1> QED
  BY <1>3, <1>4, <1>5, <1>6 DEF WorkerWorks

LEMMA StopsExclude ==
    ASSUME TypeInv, RunnerInv, QueueInv, ExcludedStops, NEW g \in Games, Exclude(g)
    PROVE  ExcludedStops'
<1>1. \A k \in DOMAIN jobs : jobs'[k].game = jobs[k].game
  BY CoreExclude DEF QueueNext
<1>2. UNCHANGED <<active, worker>> /\ pc = "client"
  BY DEF Exclude, Replies
<1>3. CASE worker.st \in {"sampling", "working"} /\ jobs[active].game = g
  <2>1. active \in DOMAIN jobs /\ active \in ActiveIds
    BY <1>2, <1>3, JobTypes, ClientStage DEF TypeInv, Runners, HasRunner, ActiveIds, Live
  <2>2. SendControl("cancel")
    BY <1>3, <2>1 DEF Exclude, PipeOpen
  <2> QED
    BY <1>2, <1>3, <2>2, SentLines DEF ExcludedStops
<1>4. CASE worker.st \in {"sampling", "working"} /\ jobs[active].game # g
  <2>1. saved_excluded' \subseteq saved_excluded \cup {g}
    BY DEF Exclude
  <2>2. SendControl("cancel") \/ control' = control
    BY DEF Exclude
  <2>3. "cancel" \in Lines(control) => "cancel" \in Lines(control')
    BY <2>2, SentLines
  <2>4. active \in DOMAIN jobs
    BY <1>4, JobTypes DEF TypeInv, Runners
  <2> QED
    BY <1>1, <1>2, <1>4, <2>1, <2>3, <2>4 DEF ExcludedStops
<1>5. CASE worker.st \notin {"sampling", "working"}
  BY <1>2, <1>5 DEF ExcludedStops
<1> QED
  BY <1>3, <1>4, <1>5

LEMMA StopsStep == TypeInv /\ RunnerInv /\ QueueInv /\ ExcludedStops /\ [Next]_vars => ExcludedStops'
<1> SUFFICES ASSUME TypeInv, RunnerInv, QueueInv, ExcludedStops, [Next]_vars PROVE ExcludedStops'
  OBVIOUS
<1>1. \A k \in DOMAIN jobs : jobs'[k].game = jobs[k].game
  BY CoreStep DEF QueueNext
<1>2. ASSUME UNCHANGED <<active, worker>>, saved_excluded' \subseteq saved_excluded,
             control' = control \/ \E line \in {"pause", "resume", "cancel"} : SendControl(line)
      PROVE  ExcludedStops'
  BY <1>1, <1>2, SentLines, StopsKept
<1>3. ASSUME worker'.st \in {"none", "starting"}
      PROVE  ExcludedStops'
  BY <1>3 DEF ExcludedStops
<1> USE DEF policy, process, channel
<1>4. CASE Request
  <2>1. CASE \E g \in Games : Exclude(g)
    BY <2>1, StopsExclude
  <2>2. CASE ~ \E g \in Games : Exclude(g)
    <3>1. UNCHANGED <<active, worker>>
      BY <1>4, RequestReplies DEF Replies
    <3>2. saved_excluded' \subseteq saved_excluded
      BY <1>4, <2>2 DEF Request, NoRequest, Enqueue, Include, Retry, Pause, CancelWorker,
         CancelStorage, CancelIdle
    <3>3. control' = control \/ SendControl("cancel")
      BY <1>4, <2>2 DEF Request, NoRequest, Enqueue, Include, Retry, Pause, CancelWorker,
         CancelStorage, CancelIdle
    <3> QED
      BY <1>2, <3>1, <3>2, <3>3
  <2> QED
    BY <2>1, <2>2
<1>5. CASE \E ready \in SUBSET Games : Drive(ready)
  BY <1>2, <1>5 DEF Drive
<1>6. CASE \E g \in Games : Maintain(g)
  BY <1>2, <1>6 DEF Maintain
<1>7. CASE ApplyUpdate \/ ApplyOutcome \/ EventsRead
  BY <1>2, <1>3, <1>7 DEF ApplyUpdate, ApplyOutcome, EventsRead, DropWorker, NoWorker
<1>8. CASE (\E ready \in SUBSET Games, missing \in BOOLEAN : PollThread(ready, missing))
           \/ ReapThread \/ NothingToStart
  BY <1>2, <1>8 DEF PollThread, ReapThread, NothingToStart
<1>9. CASE \E i \in DOMAIN jobs : StartWorker(i) \/ StartThread(i) \/ StartFails(i)
  BY <1>2, <1>3, <1>9 DEF StartWorker, StartThread, StartFails, NoWorker
<1>10. CASE ThreadStep \/ ThreadPanics
  <2>1. ThreadOnly
    BY <1>10 DEF ThreadStep, ThreadStarts, ThreadStops, ThreadPauses, ThreadResumes,
       ThreadEnters, ThreadCommits, ThreadEnds, ThreadPanics
  <2> QED
    BY <1>2, <2>1 DEF ThreadOnly
<1>11. CASE open_store \/ OrphanStarts \/ OrphanExits \/ CliStarts \/ UNCHANGED vars
  BY <1>2, <1>11 DEF open_store, OrphanStarts, OrphanExits, CliStarts, Elsewhere, vars
<1>12. CASE Crash \/ Exit
  BY <1>2, <1>3, <1>12 DEF Crash, Exit, LoseMemory, DropWorker, NoWorker
<1> QED
  BY <1>4, <1>5, <1>6, <1>7, <1>8, <1>9, <1>10, <1>11, <1>12, StopsWorker
     DEF Next, Environment, Pass

\* A worker that rewrites a game the user excluded has its cancel or has it waiting in its
\* stdin, however the exclusion, the worker's start and its look at the database interleave.
THEOREM ExcludedStopsEver == Spec => []ExcludedStops
<1>1. Init => ExcludedStops
  BY DEF Init, ExcludedStops, NoWorker
<1> QED
  BY <1>1, CoreAlways, StopsStep, PTL DEF Spec

================================================================================

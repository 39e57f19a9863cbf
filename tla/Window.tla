-------------------------------- MODULE Window ---------------------------------
(***************************************************************************)
(* The Linux window beside the coordinator.  The window keeps what it last *)
(* learnt in one state that only `update' writes; every request runs on a  *)
(* thread of its own, and its reply is one more message, in any order      *)
(* with the replies of the others.  So the window always acts on an older  *)
(* state of the coordinator than the one its commands reach.               *)
(*                                                                         *)
(* The coordinator is what the window can see of it: the games found, the  *)
(* jobs and the records of finished passes (Coordinator has the rest).     *)
(* Filters, artwork, drives, animation and wording are left out; so are    *)
(* Maximum Space and the settings, whose replies take the same way.        *)
(*                                                                         *)
(* `revision' counts the changes of the coordinator's state rather than    *)
(* its answers: two answers with nothing between them are the same.        *)
(***************************************************************************)
EXTENDS Integers, SequencesExt

CONSTANTS Games,
          Builds,       \* builds of a game, 1 .. Builds; 0 is a game not found
          MaxJobs,      \* jobs queued in a behaviour, at most
          History,      \* finished jobs the coordinator keeps (300)
          WindowBudgets \* how often each thing of WindowKinds happens

WindowKinds == {"finds", "scans", "restarts", "orders", "upkeep", "errors", "lost", "ticks"}

ASSUME WindowAssumption ==
    /\ Builds \in Nat \ {0} /\ {MaxJobs, History} \subseteq Nat /\ IsFiniteSet(Games)
    /\ WindowBudgets \subseteq [WindowKinds -> Nat]

VARIABLES installed, \* the games as their launchers have them
          worker,    \* the coordinator: epoch, revision, generation, found, jobs
          records,   \* the build each game was last compressed at, in the database
          window,    \* the window's State
          poll, scan, batch, orders,   \* replies on their way
          queued,    \* jobs ever queued
          analysed,  \* analyses the window queued by itself since a request was refused
          could      \* what may still happen

windows == <<installed, worker, records, window, poll, scan, batch, orders, queued, analysed, could>>

Nothing == [g \in Games |-> 0]
NoAnswer == [epoch |-> 0, revision |-> 0, generation |-> 0, found |-> Nothing, jobs |-> <<>>]
NoScan == [stage |-> "none", at |-> NoAnswer, records |-> Nothing]
NoBatch == [todo |-> <<>>, at |-> NoAnswer]
Ended == {"completed", "failed"}
Active(job) == job.phase \notin Ended
Spend(kind) == could[kind] > 0 /\ could' = [could EXCEPT ![kind] = @ - 1]

Job(id, g, build, op) ==
    [id |-> id, game |-> g, build |-> build, op |-> op, phase |-> "queued", worth |-> "unknown"]

Coordinator0(epoch, jobs) ==
    [epoch |-> epoch, revision |-> 0, generation |-> 0, found |-> Nothing, jobs |-> jobs]

\* Nothing is loaded until the first scan (State::new).
NewWindow == [shown |-> NoAnswer, list |-> Nothing, records |-> Nothing,
              scanning |-> FALSE, queuing |-> FALSE, error |-> FALSE, ticked |-> {},
              place |-> [g \in Games |-> 1], stale |-> FALSE,
              planned |-> {}, ask |-> {}, analyse |-> {}]

WindowInit ==
    /\ could \in WindowBudgets
    /\ installed = [g \in Games |-> 1]
    /\ worker = Coordinator0(1, <<>>) /\ records = Nothing
    /\ window = [NewWindow EXCEPT !.scanning = TRUE, !.ask = {"scan"}]
    /\ poll = NoAnswer /\ scan = NoScan /\ batch = NoBatch /\ orders = {}
    /\ queued = 0
    /\ analysed = [g \in Games |-> [b \in 1 .. Builds |-> 0]]

---------------------------------------------------------------------------
(* What the window reads in its state. *)

\* The newest job of a list that passes a test, as its place; 0 for none.
Newest(jobs, Test(_)) == Max({i \in DOMAIN jobs : Test(jobs[i])} \cup {0})

\* A game counts as compressed when its newest started job but analyses
\* completed a compression of its build; with no such job, by its record.
Compressed(w, g) ==
    LET acted(job) == job.game = g /\ job.op # "Analyze" /\ job.phase # "queued"
        i == Newest(w.shown.jobs, acted)
    IN IF i = 0 THEN w.records[g] = w.list[g]
       ELSE LET job == w.shown.jobs[i]
            IN job.op = "Compress" /\ job.phase = "completed" /\ job.build = w.list[g]

\* The estimate that still applies: an analysis of this build since the last
\* started job of another kind.
Estimate(w, g) ==
    LET ours(job) == job.game = g /\ job.build = w.list[g]
        ends(job) == ours(job) /\ job.op # "Analyze" /\ job.phase # "queued"
        since == Newest(w.shown.jobs, ends)
        told(job) == ours(job) /\ job.phase # "failed" /\ job.worth # "unknown"
        i == Newest(w.shown.jobs, told)
    IN IF i > since THEN w.shown.jobs[i].worth ELSE "unknown"

\* A game's group in the list: worth compressing, not analysed yet,
\* compressed, little to gain.
Place(w, g) ==
    IF Compressed(w, g) THEN 2
    ELSE CASE Estimate(w, g) = "high" -> 0
           [] Estimate(w, g) = "low" -> 3
           [] OTHER -> 1

CaptureOrder(w) == [w EXCEPT !.place = [g \in Games |-> Place(w, g)], !.stale = FALSE]

Listed(w) == {g \in Games : w.list[g] > 0}
AnalysisActive(jobs) == \E i \in DOMAIN jobs : jobs[i].op = "Analyze" /\ Active(jobs[i])

---------------------------------------------------------------------------
(* What one message does to the state.  `ask' and `analyse' are the tasks  *)
(* it starts.                                                              *)

\* One scan at a time: a refresh asked for meanwhile is dropped.
Refreshed(w) ==
    IF w.scanning THEN w ELSE [w EXCEPT !.scanning = TRUE, !.ask = {"scan"}]

\* A game with any job for its build, whatever the outcome, is left alone.
Unseen(w) ==
    {g \in Listed(w) : \A i \in DOMAIN w.shown.jobs :
        ~(w.shown.jobs[i].game = g /\ w.shown.jobs[i].build = w.list[g])}

AnalyzeVisible(w) ==
    IF w.queuing \/ w.scanning \/ Unseen(w) = {} THEN w
    ELSE [w EXCEPT !.queuing = TRUE, !.analyse = Unseen(w)]

\* Variant for a mutation: only the answers of an older coordinator are left out.
OlderEpoch(w, s) == w.shown.epoch > 0 /\ s.epoch < w.shown.epoch

Outdated(w, s) ==
    /\ w.shown.epoch > 0
    /\ \/ s.epoch < w.shown.epoch
       \/ s.epoch = w.shown.epoch /\ s.revision < w.shown.revision

CompletedWork(w, s) ==
    \E i \in DOMAIN s.jobs, j \in DOMAIN w.shown.jobs :
        /\ s.jobs[i].id = w.shown.jobs[j].id /\ s.jobs[i].op # "Analyze"
        /\ ~Active(s.jobs[i]) /\ Active(w.shown.jobs[j])

\* A snapshot of the coordinator arrives.
Applied(w, s) ==
    IF Outdated(w, s) THEN w
    ELSE LET settled == ~AnalysisActive(s.jobs) /\ AnalysisActive(w.shown.jobs)
             first == w.shown.epoch = 0
             next == [w EXCEPT !.shown = s]
             sorted == IF ~(first \/ settled) THEN next
                       ELSE IF w.ticked # {} THEN [next EXCEPT !.stale = TRUE]
                       ELSE CaptureOrder(next)
         IN IF CompletedWork(w, s) \/ s.found # w.shown.found
            THEN Refreshed(sorted) ELSE AnalyzeVisible(sorted)

\* Variant for a mutation: lists of one discovery count as the same.
SameRound(s, t) == s.epoch = t.epoch /\ s.generation = t.generation

SameList(s, t) == s.epoch = t.epoch /\ s.generation = t.generation /\ s.found = t.found

\* A scan returns.  One of another list than the one shown is made again.
Scanned(w, result) ==
    LET idle == [w EXCEPT !.scanning = FALSE] IN
    IF w.shown.epoch > 0 /\ ~SameList(result.at, w.shown) THEN Refreshed(idle)
    ELSE LET swapped == [idle EXCEPT !.list = result.at.found, !.records = result.records,
                                     !.error = FALSE]
         IN AnalyzeVisible([CaptureOrder(swapped) EXCEPT !.ticked = @ \cap Listed(swapped)])

\* A scan fails: its request was not answered.  The error is shown.
ScanFailed(w) == AnalyzeVisible([w EXCEPT !.scanning = FALSE, !.error = TRUE])

---------------------------------------------------------------------------
(* The coordinator, as far as its clients can tell. *)

Changed(next) == [next EXCEPT !.revision = worker.revision + 1]

\* Enqueue: a request that duplicates an active job changes nothing; a new job
\* pushes the oldest finished ones out of the history.
Trimmed(jobs) ==
    LET ended == {i \in DOMAIN jobs : ~Active(jobs[i])}
        kept == {i \in DOMAIN jobs : i \in ended => Cardinality({j \in ended : i < j}) < History}
    IN [k \in 1 .. Cardinality(kept) |->
            jobs[CHOOSE i \in kept : Cardinality({j \in kept : j <= i}) = k]]

Duplicate(c) == \E i \in DOMAIN worker.jobs :
    Active(worker.jobs[i]) /\ worker.jobs[i].game = c.game /\ worker.jobs[i].op = c.op

\* What the user orders stops a running analysis.
Preempted == [i \in DOMAIN worker.jobs |->
    [worker.jobs[i] EXCEPT !.phase = IF @ = "running" /\ worker.jobs[i].op = "Analyze"
                                     THEN "failed" ELSE @]]

Enqueue(c, before) ==
    LET next == [worker EXCEPT !.jobs =
                    IF Duplicate(c) THEN before
                    ELSE Trimmed(Append(before, Job(queued + 1, c.game, c.build, c.op)))]
    IN /\ queued' = IF Duplicate(c) THEN queued ELSE queued + 1
       /\ queued' <= MaxJobs
       /\ worker' = IF next = worker THEN worker ELSE Changed(next)

\* One job at a time, of a game that is found, at the build now found: the
\* user's before analyses, then the oldest.
Startable == {i \in DOMAIN worker.jobs :
    worker.jobs[i].phase = "queued" /\ worker.found[worker.jobs[i].game] > 0}
Requested == {i \in Startable : worker.jobs[i].op # "Analyze"}

Begin ==
    /\ Startable # {} /\ \A i \in DOMAIN worker.jobs : worker.jobs[i].phase # "running"
    /\ LET i == Min(IF Requested # {} THEN Requested ELSE Startable) IN
       worker' = Changed([worker EXCEPT !.jobs[i].phase = "running",
                                        !.jobs[i].build = worker.found[worker.jobs[i].game]])
    /\ UNCHANGED <<installed, records, window, poll, scan, batch, orders, queued, analysed, could>>

\* A finished compression is recorded by the worker before the coordinator
\* hears of it.
Finish ==
    \E i \in DOMAIN worker.jobs : LET job == worker.jobs[i] IN
        /\ job.phase = "running"
        /\ \/ /\ \E worth \in IF job.op = "Analyze" THEN {"low", "high"} ELSE {"unknown"} :
                    worker' = Changed([worker EXCEPT !.jobs[i].phase = "completed", !.jobs[i].worth = worth])
              /\ records' = IF job.op = "Compress"
                            THEN [records EXCEPT ![job.game] = job.build] ELSE records
              /\ UNCHANGED could
           \/ /\ Spend("errors") /\ UNCHANGED records
              /\ worker' = Changed([worker EXCEPT !.jobs[i].phase = "failed"])
        /\ UNCHANGED <<installed, window, poll, scan, batch, orders, queued, analysed>>

\* A game is updated, or removed while others stay.
Install ==
    /\ Spend("finds")
    /\ \E g \in Games, b \in 0 .. Builds :
          /\ b # installed[g]
          /\ installed' = [installed EXCEPT ![g] = b] /\ installed' # Nothing
    /\ UNCHANGED <<worker, records, window, poll, scan, batch, orders, queued, analysed>>

\* Discovery starts anew, and reports games one by one.
Rescan ==
    /\ Spend("scans")
    /\ worker' = Changed([worker EXCEPT !.generation = @ + 1])
    /\ UNCHANGED <<installed, records, window, poll, scan, batch, orders, queued, analysed>>
Discover ==
    /\ \E g \in Games :
          /\ worker.found[g] # installed[g]
          /\ worker' = Changed([worker EXCEPT !.found[g] = installed[g]])
    /\ UNCHANGED <<installed, records, window, poll, scan, batch, orders, queued, analysed, could>>

\* Background maintenance queues a pass for a game that was updated.
Upkeep ==
    /\ Spend("upkeep")
    /\ \E g \in Games : worker.found[g] > 0
          /\ Enqueue([game |-> g, build |-> worker.found[g], op |-> "Compress"], worker.jobs)
    /\ UNCHANGED <<installed, records, window, poll, scan, batch, orders, analysed>>

\* A new coordinator: later start time, no games found yet, the job that was
\* running interrupted.
Restart ==
    /\ Spend("restarts")
    /\ worker' = Coordinator0(worker.epoch + 1,
          [i \in DOMAIN worker.jobs |->
              [worker.jobs[i] EXCEPT !.phase = IF @ = "running" THEN "failed" ELSE @]])
    /\ UNCHANGED <<installed, records, window, poll, scan, batch, orders, queued, analysed>>

---------------------------------------------------------------------------
(* The window's threads. *)

\* `update' ran, with what is left of the scan and of the batch: the tasks it
\* asked for start.
Shows(w, oldScan, oldBatch) ==
    /\ window' = [w EXCEPT !.ask = {}, !.analyse = {}]
    /\ scan' = IF w.ask = {} THEN oldScan ELSE [NoScan EXCEPT !.stage = "asked"]
    /\ batch' = IF w.analyse = {} THEN oldBatch
                ELSE [todo |-> SetToSeq({[game |-> g, build |-> w.list[g], op |-> "Analyze"]
                                         : g \in w.analyse}), at |-> NoAnswer]

\* The first scan is asked for when the window opens.
Open ==
    /\ window.ask # {} /\ Shows(window, scan, batch)
    /\ UNCHANGED <<installed, worker, records, poll, orders, queued, analysed, could>>

\* Once a second: ask, and show the answer.
PollAnswered ==
    /\ poll = NoAnswer /\ poll' = worker
    /\ UNCHANGED <<installed, worker, records, window, scan, batch, orders, queued, analysed, could>>
PollDelivered ==
    /\ poll # NoAnswer /\ poll' = NoAnswer
    /\ \E w \in {Applied(window, poll)} : Shows(w, scan, batch)
    /\ UNCHANGED <<installed, worker, records, orders, queued, analysed, could>>

\* A scan asks the coordinator for its list and reads the database, and
\* returns later.
ScanRead ==
    /\ scan.stage = "asked"
    /\ scan' = [stage |-> "read", at |-> worker, records |-> records]
    /\ UNCHANGED <<installed, worker, records, window, poll, batch, orders, queued, analysed, could>>
ScanDelivered ==
    /\ scan.stage = "read"
    /\ \E w \in {Scanned(window, scan)} : Shows(w, NoScan, batch)
    /\ UNCHANGED <<installed, worker, records, poll, orders, queued, analysed, could>>
ScanLost ==
    /\ scan.stage = "asked" /\ Spend("lost")
    /\ Shows(ScanFailed(window), NoScan, batch)
    /\ analysed' = [g \in Games |-> [b \in 1 .. Builds |-> 0]]
    /\ UNCHANGED <<installed, worker, records, poll, orders, queued>>

\* The analyses are sent one by one; the first failure stops them, and the answer
\* to the last is delivered.
BatchSent ==
    /\ batch.todo # <<>>
    /\ LET c == Head(batch.todo) IN
       /\ Enqueue(c, worker.jobs)
       /\ batch' = [todo |-> Tail(batch.todo), at |-> worker']
       /\ analysed' = [analysed EXCEPT ![c.game][c.build] = @ + (queued' - queued)]
    /\ UNCHANGED <<installed, records, window, poll, scan, orders, could>>
BatchRefused ==
    /\ batch.todo # <<>> /\ Spend("errors")
    /\ Shows([window EXCEPT !.queuing = FALSE], scan, NoBatch)
    /\ analysed' = [g \in Games |-> [b \in 1 .. Builds |-> 0]]
    /\ UNCHANGED <<installed, worker, records, poll, orders, queued>>
BatchDelivered ==
    /\ window.queuing /\ batch.todo = <<>>
    /\ \E w \in {Applied([window EXCEPT !.queuing = FALSE], batch.at)} :
          Shows(w, scan, NoBatch)
    /\ UNCHANGED <<installed, worker, records, poll, orders, queued, analysed, could>>

\* The user orders a compression of one game, or of every game worth it: one
\* game with a space plan first, several with none.
OrderOne ==
    /\ Spend("orders")
    /\ \E g \in Listed(window) :
          orders' = orders \cup {[todo |-> <<[game |-> g, build |-> window.list[g],
                                             op |-> "Compress"]>>,
                                  stage |-> "planning", at |-> NoAnswer]}
    /\ UNCHANGED <<installed, worker, records, window, poll, scan, batch, queued, analysed>>
OrderLibrary ==
    /\ Spend("orders")
    /\ LET chosen == {g \in Listed(window) : ~Compressed(window, g) /\ Estimate(window, g) = "high"}
       IN /\ chosen # {}
          /\ orders' = orders \cup {[todo |-> SetToSeq({[game |-> g, build |-> window.list[g],
                                                        op |-> "Compress"] : g \in chosen}),
                                     stage |-> "sending", at |-> NoAnswer]}
    /\ UNCHANGED <<installed, worker, records, window, poll, scan, batch, queued, analysed>>

\* The plan is ready: with room it is sent at once, otherwise it is shown in
\* place of an earlier one.
Planned ==
    \E o \in orders :
        /\ o.stage = "planning"
        /\ \/ /\ orders' = (orders \ {o}) \cup {[o EXCEPT !.stage = "sending"]}
              /\ UNCHANGED window
           \/ /\ orders' = orders \ {o}
              /\ window' = [window EXCEPT !.planned = {o}]
        /\ UNCHANGED <<installed, worker, records, poll, scan, batch, queued, analysed, could>>

\* The user accepts the plan, which is checked again, or drops it.
ReviewPlan ==
    /\ window.planned # {}
    /\ \/ orders' = orders \cup {[o EXCEPT !.stage = "sending"] : o \in window.planned}
       \/ UNCHANGED orders
    /\ window' = [window EXCEPT !.planned = {}]
    /\ UNCHANGED <<installed, worker, records, poll, scan, batch, queued, analysed, could>>

OrderSent ==
    \E o \in orders :
        /\ o.stage = "sending" /\ o.todo # <<>>
        /\ Enqueue(Head(o.todo), Preempted)
        /\ orders' = (orders \ {o}) \cup {[o EXCEPT !.todo = Tail(@), !.at = worker']}
        /\ UNCHANGED <<installed, records, window, poll, scan, batch, analysed, could>>
OrderRefused ==
    /\ orders # {} /\ Spend("errors")
    /\ \E o \in orders : orders' = orders \ {o}
    /\ UNCHANGED <<installed, worker, records, window, poll, scan, batch, queued, analysed>>
OrderDelivered ==
    \E o \in orders :
        /\ o.stage = "sending" /\ o.todo = <<>>
        /\ orders' = orders \ {o}
        /\ \E w \in {Applied(window, o.at)} : Shows(w, scan, batch)
        /\ UNCHANGED <<installed, worker, records, poll, queued, analysed, could>>

\* A row ticked or cleared, and the list sorted again on request.
Tick ==
    /\ Spend("ticks")
    /\ \/ \E g \in Listed(window) :
             window' = [window EXCEPT !.ticked = IF g \in @ THEN @ \ {g} ELSE @ \cup {g}]
       \/ window' = CaptureOrder(window)
    /\ UNCHANGED <<installed, worker, records, poll, scan, batch, orders, queued, analysed>>

Polls   == PollAnswered \/ PollDelivered
Scans   == Open \/ ScanRead \/ ScanDelivered
Batches == BatchSent \/ BatchDelivered
Orders  == OrderSent \/ OrderDelivered
Threads == Polls \/ Scans \/ Batches \/ Orders \/ ScanLost \/ BatchRefused \/ Planned \/ OrderRefused
User == OrderOne \/ OrderLibrary \/ ReviewPlan \/ Tick
Work == Begin \/ Finish \/ Discover
World == Install \/ Rescan \/ Upkeep \/ Restart

WindowNext == Threads \/ User \/ Work \/ World

\* The window keeps polling, and of the other threads and the jobs one that can
\* go on does; what the user and the launchers do is bounded by the budgets and
\* need not happen.
Others == Scans \/ Batches \/ Orders \/ Work

WindowSpec ==
    WindowInit /\ [][WindowNext]_windows /\ WF_windows(Polls) /\ WF_windows(Others)

---------------------------------------------------------------------------
(* Properties *)

WindowOK ==
    /\ {installed, worker.found} \subseteq [Games -> 0 .. Builds] /\ records \in [Games -> 0 .. Builds]
    /\ window.list \in [Games -> 0 .. Builds] /\ window.place \in [Games -> 0 .. 3]
    /\ window.ticked \subseteq Games
    /\ window.scanning = (scan.stage # "none" \/ window.ask # {})
    /\ window.queuing = (batch # NoBatch) /\ window.analyse = {}

\* A job the window showed as ended is never shown as active again, whatever
\* order the answers to polls, commands and batches arrive in and however often
\* the coordinator is restarted (app.rs:1577).
EndedStays ==
    [][\A i \in DOMAIN window.shown.jobs : \A j \in DOMAIN window'.shown.jobs :
          window.shown.jobs[i].id = window'.shown.jobs[j].id /\ ~Active(window.shown.jobs[i])
          => ~Active(window'.shown.jobs[j])]_windows

\* When the coordinator comes to rest, so does the window: it shows the
\* coordinator's jobs, and its list of games is the coordinator's, or says that
\* it could not be read (app.rs:1510, 1653).
Follows ==
    <>[](window.shown.jobs = worker.jobs /\ (window.list = worker.found \/ window.error))

\* Between two failed requests, a build of a game is analysed at most once by
\* itself: no answer on its way makes the window queue it again before it has
\* seen the first analysis (app.rs:1222).  A scan that fails while the game is
\* updated breaks it: see ResultsKept.
AnalysedOnce == \A g \in Games, b \in 1 .. Builds : analysed[g][b] <= 1

\* What the comment says: a result is kept until the user asks for another
\* analysis or the build changes, so the installed build has one (app.rs:1220).
ResultsKept ==
    \A g \in Games :
        Cardinality({i \in DOMAIN worker.jobs : /\ worker.jobs[i].game = g
                                               /\ worker.jobs[i].op = "Analyze"
                                               /\ worker.jobs[i].build = installed[g]}) <= 1

\* What the comment says: finished work means the scanned data is out of date,
\* so the records shown follow the database (app.rs:1648).
RecordsFollow == <>[](window.records = records)

\* Nothing that ended is shown as active or asked for again, in whatever order the answers
\* arrive.
NeverAgain == [](WindowOK /\ AnalysedOnce) /\ EndedStays
================================================================================

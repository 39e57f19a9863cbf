------------------------------- MODULE DesktopQueue ----------------------------
(***************************************************************************)
(* The Windows coordinator: one loop that owns the queue file, answers     *)
(* clients, follows the launchers' scans and runs at most one job on a     *)
(* thread.  A pass over a folder (a job's, or a command's) holds           *)
(* native.lock and keeps a journal from before its first file until after  *)
(* its last, so that a pass that ended early is known.                     *)
(*                                                                         *)
(* One turn of the loop is three steps: what the scan brought, a client's  *)
(* command and the rules that follow from the preferences, and the job     *)
(* thread.  The process may die between any two.                           *)
(***************************************************************************)
EXTENDS Naturals, Sequences, FiniteSets, SequencesExt

CONSTANTS
    Games,     \* folders, all under the one automatic location
    Budgets,   \* bound: what may happen how often; a behaviour has one of them
    FileCount  \* files of a folder

Kinds == {"orders", "settings", "updates", "crashes", "errors", "commands", "scans", "plays"}

NoFolder == "no folder"

ASSUME DesktopAssumption ==
    /\ Budgets \subseteq [Kinds -> Nat] /\ IsFiniteSet(Games) /\ NoFolder \notin Games
    /\ FileCount \in Nat \ {0}

VARIABLES
    world,     \* per game: its build (0: not installed), and whether it is at rest
    prefs,     \* desktop.json: the location is automatic, what is excluded, the pause
    queue,     \* native-queue.json in memory
    saved,     \* native-queue.json on disk
    up,        \* the coordinator runs
    shutdown,  \* it was asked to stop
    step,      \* where its loop is
    seen,      \* the snapshot: games as last listed, no warnings, a reason to hold work
    scan,      \* the scan thread's result on its way, or NoScan
    active,    \* the job thread, or NoThread
    holder,    \* the pass that holds native.lock, or NoPass
    journal,   \* windows-job.json: the folder of an unfinished pass, or NoFolder
    folder,    \* per game: what passes left of it
    budget

coordinator == <<prefs, queue, saved, up, shutdown, step, seen, scan>>
passes      == <<holder, journal, folder>>
desktop     == <<world, coordinator, active, passes, budget>>

NoScan   == [outcome |-> "none"]
NoThread == [job |-> 0]
NoPass   == [by |-> "nobody"]
Unseen   == [build |-> 0, on |-> FALSE]
Unlisted == [listed |-> FALSE]
Active   == {"waiting", "running", "paused"}
Ended    == {"completed", "cancelled", "failed", "interrupted"}

Job == [game : Games, build : Nat, restore : BOOLEAN, automatic : BOOLEAN,
        phase : Active \cup Ended, held : BOOLEAN]
QueueOK(q) == /\ q.initialized \in BOOLEAN
              /\ q.baseline \in [Games -> [build : Nat, on : BOOLEAN]]
              /\ \A i \in DOMAIN q.jobs : q.jobs[i] \in Job

\* Types, and what ties the thread and the lock to the queue: the thread's job is the
\* one shown as running or paused, and no other is.
DesktopOK ==
    /\ world \in [Games -> [build : Nat, idle : BOOLEAN]]
    /\ prefs \in [automatic : BOOLEAN, excluded : SUBSET Games, paused : BOOLEAN]
    /\ QueueOK(queue) /\ QueueOK(saved)
    /\ up \in BOOLEAN /\ shutdown \in BOOLEAN /\ step \in {"scan", "orders", "thread"}
    /\ active = NoThread \/ active \in [job : DOMAIN queue.jobs, pause : BOOLEAN,
                                        cancel : BOOLEAN,
                                        at : {"begin", "files", "completed", "failed"}]
    /\ holder = NoPass \/ holder \in [by : {"job", "command"}, game : Games,
                                      done : 0 .. FileCount]
    /\ (holder.by = "job") = (active # NoThread /\ active.at = "files")
    /\ journal \in Games \cup {NoFolder}
    /\ folder \in [Games -> {"whole", "partial"}]
    /\ up => \A i \in DOMAIN queue.jobs :
                 queue.jobs[i].phase \in {"running", "paused"} => i = active.job

Spend(kind) == budget[kind] > 0 /\ budget' = [budget EXCEPT ![kind] = @ - 1]

DesktopInit ==
    /\ world \in [Games -> [build : {0, 1}, idle : BOOLEAN]]
    /\ \A g \in Games : world[g].idle
    /\ \E g \in Games : world[g].build = 1
    /\ prefs = [automatic |-> TRUE, excluded |-> {}, paused |-> FALSE]
    /\ queue = [jobs |-> <<>>, baseline |-> [g \in Games |-> Unseen], initialized |-> FALSE]
    /\ saved = queue
    /\ up = TRUE /\ shutdown = FALSE /\ step = "scan"
    /\ seen = [games |-> [g \in Games |-> Unlisted], healthy |-> TRUE, busy |-> FALSE]
    /\ scan = NoScan /\ active = NoThread /\ holder = NoPass
    /\ journal = NoFolder /\ folder = [g \in Games |-> "whole"]
    /\ budget \in Budgets

\* The launchers: an installation or an update begins, and ends.
Updates(g) == /\ Spend("updates") /\ world[g].idle
              /\ world' = [world EXCEPT ![g] = [build |-> @.build + 1, idle |-> FALSE]]
              /\ UNCHANGED <<coordinator, active, passes>>
Settles(g) == /\ ~world[g].idle /\ world' = [world EXCEPT ![g].idle = TRUE]
              /\ UNCHANGED <<coordinator, active, passes, budget>>

(***************************************************************************)
(* The queue.                                                              *)
(***************************************************************************)
Busy(q, g)      == {i \in DOMAIN q.jobs : q.jobs[i].game = g /\ q.jobs[i].phase \in Active}
Covering(g)     == prefs.automatic /\ g \notin prefs.excluded

\* A job of the same kind that the folder has stands for the new one; one of the other
\* kind refuses it.
Refused(q, g, restore) == \E i \in Busy(q, g) : q.jobs[i].restore # restore
NewJob(g, build, restore, automatic) ==
    [game |-> g, build |-> build, restore |-> restore, automatic |-> automatic,
     phase |-> "waiting", held |-> FALSE]
Enqueued(q, g, build, restore) ==
    IF Busy(q, g) # {} THEN q
    ELSE [q EXCEPT !.jobs = Append(@, NewJob(g, build, restore, FALSE))]

\* Whether the job a folder has is for the build that was seen.
HandlesAny(q, g, build) == Busy(q, g) # {}
Handles(q, g, build)    == \E i \in Busy(q, g) : q.jobs[i].build = build

Waiting(q, i)  == q.jobs[i].phase = "waiting"
WaitingCancelled(q) ==
    [q EXCEPT !.jobs = [i \in DOMAIN @ |->
        IF Waiting(q, i) THEN [q.jobs[i] EXCEPT !.phase = "cancelled"] ELSE q.jobs[i]]]

(***************************************************************************)
(* What a scan brings: baselines, and automatic jobs for what is due.      *)
(***************************************************************************)
Listing == [g \in Games |-> IF world[g].build = 0 THEN Unlisted
                            ELSE [listed |-> TRUE, build |-> world[g].build,
                                  idle |-> world[g].idle]]
AtRest(g) == seen.games[g].listed => seen.games[g].idle

Updated(q, g, list)   == q.baseline[g].on /\ q.baseline[g].build # list[g].build
Installed(q, g)       == q.baseline[g] = Unseen /\ q.initialized
Due(q, g, list)       == Covering(g) /\ (Updated(q, g, list) \/ Installed(q, g))
DueNow(q, g, list)    == Due(q, g, list) /\ list[g].idle /\ ~prefs.paused

\* What the observation of a listed game, and the loop over the games it returned, make
\* of the game's baseline: it moves when there is nothing to do, or when the folder's job
\* is for the build that was seen.  A game that is due and has no job gets one.
Queues(q, g, list) == list[g].listed /\ DueNow(q, g, list) /\ Busy(q, g) = {}
Handled(q, g, list) ==
    /\ DueNow(q, g, list) /\ ~Refused(q, g, FALSE)
    /\ Queues(q, g, list) \/ Handles(q, g, list[g].build)
Noted(q, g, list) ==
    IF ~list[g].listed THEN q.baseline[g]
    ELSE IF ~Due(q, g, list) THEN [build |-> list[g].build, on |-> Covering(g)]
    ELSE IF Handled(q, g, list) THEN [build |-> list[g].build, on |-> TRUE]
    ELSE q.baseline[g]

ObservedAll(q, list) ==
    LET order == SetToSeq({g \in Games : Queues(q, g, list)})
    IN [jobs |-> q.jobs \o [i \in DOMAIN order |->
                                NewJob(order[i], list[order[i]].build, FALSE, TRUE)],
        baseline |-> [g \in Games |-> Noted(q, g, list)],
        initialized |-> prefs.automatic]

\* A due game whose folder has a restoration leaves a warning.
Warned(q, list) == \E g \in Games : /\ list[g].listed /\ DueNow(q, g, list)
                                    /\ Refused(q, g, FALSE)

Turns(from, to) == up /\ UNCHANGED up /\ step = from /\ step' = to

ScanStarts ==
    /\ Turns("scan", "orders") /\ scan = NoScan /\ ~shutdown /\ Spend("scans")
    /\ \E outcome \in {"healthy", "warnings", "failed"} :
          scan' = [outcome |-> outcome, list |-> Listing]
    /\ UNCHANGED <<world, prefs, queue, saved, shutdown, seen, active, passes>>

ScanArrives ==
    /\ Turns("scan", "orders") /\ scan # NoScan /\ scan' = NoScan
    /\ seen' = [seen EXCEPT
          !.games = IF scan.outcome = "failed" THEN @ ELSE scan.list,
          !.healthy = scan.outcome = "healthy" /\ ~Warned(queue, scan.list)]
    /\ queue' = IF scan.outcome = "healthy" THEN ObservedAll(queue, scan.list) ELSE queue
    /\ saved' = IF scan.outcome = "failed" THEN saved ELSE queue'
    /\ UNCHANGED <<world, prefs, shutdown, active, passes, budget>>

\* Nothing of a scan in this turn; the check for running games.
Looks ==
    /\ Turns("scan", "orders")
    /\ \/ UNCHANGED <<seen, budget>>
       \/ Spend("plays") /\ seen' = [seen EXCEPT !.busy = ~@]
    /\ UNCHANGED <<world, prefs, queue, saved, shutdown, scan, active, passes>>

(***************************************************************************)
(* A client's command, then the rules: excluded games and locations that   *)
(* opted out lose their jobs.                                              *)
(***************************************************************************)
Loses(job, settings) == \/ ~job.restore /\ job.game \in settings.excluded
                        \/ job.automatic /\ ~settings.automatic

Ruled(q, settings) ==
    [q EXCEPT !.jobs = [i \in DOMAIN @ |->
        IF q.jobs[i].phase \in Active /\ i # active.job /\ Loses(q.jobs[i], settings)
        THEN [q.jobs[i] EXCEPT !.phase = "cancelled"] ELSE q.jobs[i]]]

Cancels(settings) == active # NoThread /\ Loses(queue.jobs[active.job], settings)

\* What every turn ends the orders with: the queue q as the command left and saved it,
\* the preferences, the rules, and the cancel flag of the running job.
Answered(q, settings, cancel) ==
    /\ Turns("orders", "thread")
    /\ prefs' = settings /\ saved' = q /\ queue' = Ruled(q, settings)
    /\ active' = IF active # NoThread /\ (cancel \/ Cancels(settings))
                 THEN [active EXCEPT !.cancel = TRUE] ELSE active
    /\ UNCHANGED <<world, seen, scan, passes>>

NoCommand ==
    /\ Turns("orders", "thread")
    /\ queue' = Ruled(queue, prefs)
    /\ saved' \in {saved, queue'}      \* queue_dirty: written at most once a second
    /\ active' = IF Cancels(prefs) THEN [active EXCEPT !.cancel = TRUE] ELSE active
    /\ UNCHANGED <<world, prefs, seen, scan, passes, shutdown, budget>>

\* The client's game is the one it has in its list, which may be one build behind.
Enqueue(g, restore) ==
    /\ Spend("orders") /\ world[g].build > 0
    /\ restore \/ g \notin prefs.excluded
    /\ ~Refused(queue, g, restore)
    /\ \E build \in {world[g].build, world[g].build - 1} \ {0} :
          Answered(Enqueued(queue, g, build, restore), prefs, FALSE)
    /\ UNCHANGED shutdown

\* Pause sets a flag that only active jobs read, Cancel does nothing to a finished job.
Pause(i) ==
    /\ Spend("orders") /\ queue.jobs[i].phase \in Active
    /\ Answered([queue EXCEPT !.jobs[i].held = ~@], prefs, FALSE)
    /\ UNCHANGED shutdown

Cancel(i) ==
    /\ Spend("orders") /\ queue.jobs[i].phase \in Active
    /\ Answered(IF i = active.job THEN queue ELSE [queue EXCEPT !.jobs[i].phase = "cancelled"],
                prefs, i = active.job)
    /\ UNCHANGED shutdown

Retried(q, i) == [q EXCEPT !.jobs[i].phase = "waiting", !.jobs[i].held = FALSE]
Retry(i) ==
    /\ Spend("orders") /\ queue.jobs[i].phase \in Ended
    /\ Busy(queue, queue.jobs[i].game) = {}
    /\ Answered(Retried(queue, i), prefs, FALSE)
    /\ UNCHANGED shutdown

Settings ==
    /\ Spend("settings")
    /\ \E settings \in {[prefs EXCEPT !.paused = ~@], [prefs EXCEPT !.automatic = ~@]}
                  \cup {[prefs EXCEPT !.excluded = (@ \cup {g}) \ (@ \cap {g})] : g \in Games} :
          Answered(queue, settings, FALSE)
    /\ UNCHANGED shutdown

Shutdown ==
    /\ Spend("settings") /\ shutdown' = TRUE
    /\ Answered(WaitingCancelled(queue), prefs, TRUE)

(***************************************************************************)
(* The job thread, as the loop sees it.                                    *)
(***************************************************************************)
Holds(job) == \/ job.held \/ prefs.paused \/ seen.busy \/ ~AtRest(job.game)
              \/ job.automatic /\ ~seen.healthy
Halts      == ~shutdown /\ Holds(queue.jobs[active.job])
Outcome == IF active.cancel THEN "cancelled" ELSE active.at

\* The running job's pause is decided again in every turn.  Whether it was saved as
\* running or as paused is the same to Loaded.
Follows ==
    /\ Turns("thread", "scan") /\ active # NoThread /\ active.at \notin {"completed", "failed"}
    /\ active' = [active EXCEPT !.pause = Halts]
    /\ queue' = [queue EXCEPT !.jobs[active.job].phase = IF Halts THEN "paused" ELSE "running"]
    /\ UNCHANGED <<world, prefs, saved, shutdown, seen, scan, passes, budget>>

\* The thread's end is taken in, saved, and another job may start in the same turn.
Finished == IF active = NoThread THEN queue
            ELSE [queue EXCEPT !.jobs[active.job].phase = Outcome]

Ready(q, i) ==
    /\ Waiting(q, i) /\ ~q.jobs[i].held /\ AtRest(q.jobs[i].game)
    /\ q.jobs[i].automatic => seen.healthy /\ journal = NoFolder
StartsJob(q) ==
    IF shutdown \/ seen.busy \/ prefs.paused \/ scan # NoScan THEN {}
    ELSE LET ready == {i \in DOMAIN q.jobs : Ready(q, i)}
         IN {i \in ready : \A j \in ready : i <= j}

MayExit        == shutdown

\* Saved as running before the thread starts.
Manages ==
    /\ up /\ step = "thread"
    /\ active # NoThread => active.at \in {"completed", "failed"}
    /\ IF MayExit
       THEN /\ up' = FALSE /\ step' = step /\ active' = NoThread /\ queue' = Finished
            /\ saved' = IF active = NoThread THEN saved ELSE queue'
       ELSE /\ up' = TRUE /\ step' = "scan"
            /\ IF StartsJob(Finished) = {}
               THEN /\ queue' = Finished /\ active' = NoThread
                    /\ saved' = IF active = NoThread THEN saved ELSE queue'
               ELSE \E i \in StartsJob(Finished) :
                      /\ queue' = [Finished EXCEPT !.jobs[i].phase = "running"]
                      /\ saved' = queue'
                      /\ active' = [job |-> i, pause |-> FALSE, cancel |-> FALSE, at |-> "begin"]
    /\ UNCHANGED <<world, prefs, shutdown, seen, scan, passes, budget>>

(***************************************************************************)
(* A pass over a folder: visit_with, by the job thread or by a command.    *)
(***************************************************************************)
AnyUnblocked(g) == TRUE
Unblocked(g)    == journal \in {NoFolder, g}
PassBegins(by, g) ==
    /\ holder = NoPass /\ Unblocked(g)
    /\ holder' = [by |-> by, game |-> g, done |-> 0]
    /\ journal' = g /\ UNCHANGED folder
PassFile ==
    /\ holder # NoPass /\ holder.done < FileCount
    /\ holder' = [holder EXCEPT !.done = @ + 1]
    /\ folder' = [folder EXCEPT ![holder.game] =
                     IF holder.done + 1 = FileCount THEN "whole" ELSE "partial"]
    /\ UNCHANGED journal
PassEnds  == /\ holder # NoPass /\ holder.done = FileCount
             /\ holder' = NoPass /\ journal' = NoFolder /\ UNCHANGED folder
\* An error, a stop or the death of the process: the journal stays.
PassStops == holder # NoPass /\ holder' = NoPass /\ UNCHANGED <<journal, folder>>

ThreadIs(at) == active' = [active EXCEPT !.at = at] /\ UNCHANGED <<world, coordinator>>

ThreadBegins ==
    /\ active # NoThread /\ active.at = "begin"
    /\ PassBegins("job", queue.jobs[active.job].game) /\ ThreadIs("files") /\ UNCHANGED budget
\* Another process works, another folder's pass is unfinished, or there is no room.
ThreadRefused ==
    /\ active # NoThread /\ active.at = "begin" /\ ThreadIs("failed") /\ UNCHANGED passes
    /\ IF holder = NoPass /\ Unblocked(queue.jobs[active.job].game)
       THEN Spend("errors") ELSE UNCHANGED budget
\* A pause holds the thread before a file; a cancel ends it there, paused or not.
MayGoOn == ~active.pause
StopsUnlessPaused == active.cancel /\ ~active.pause
StopsHere == active.cancel
ThreadFile ==
    /\ holder.by = "job" /\ MayGoOn /\ ~active.cancel
    /\ PassFile /\ UNCHANGED <<world, coordinator, active, budget>>
ThreadStops ==
    /\ holder.by = "job" /\ holder.done < FileCount
    /\ StopsHere /\ PassStops /\ ThreadIs("failed") /\ UNCHANGED budget
ThreadFails ==
    /\ holder.by = "job" /\ MayGoOn /\ Spend("errors") /\ PassStops /\ ThreadIs("failed")
ThreadEnds ==
    /\ holder.by = "job" /\ PassEnds /\ ThreadIs("completed") /\ UNCHANGED budget

\* flummox compress, decompress, or the recovery of a folder, in another process.
CommandBegins(g) == /\ Spend("commands") /\ world[g].build > 0 /\ PassBegins("command", g)
                    /\ UNCHANGED <<world, coordinator, active>>
CommandFile  == /\ holder.by = "command" /\ PassFile
                /\ UNCHANGED <<world, coordinator, active, budget>>
CommandEnds  == /\ holder.by = "command" /\ PassEnds
                /\ UNCHANGED <<world, coordinator, active, budget>>
CommandStops == /\ holder.by = "command" /\ Spend("errors") /\ PassStops
                /\ UNCHANGED <<world, coordinator, active>>

(***************************************************************************)
(* The process dies with its thread; the next one loads the saved queue.   *)
(***************************************************************************)
Dies ==
    /\ up /\ Spend("crashes") /\ up' = FALSE /\ active' = NoThread
    /\ IF holder.by = "job" THEN PassStops ELSE UNCHANGED passes
    /\ UNCHANGED <<world, prefs, queue, saved, shutdown, step, seen, scan>>

Loaded(q) == [q EXCEPT !.jobs = [i \in DOMAIN @ |->
    IF q.jobs[i].phase \in {"running", "paused"}
    THEN [q.jobs[i] EXCEPT !.phase = "interrupted"] ELSE q.jobs[i]]]
Comes ==
    /\ ~up /\ up' = TRUE /\ shutdown' = FALSE /\ step' = "scan" /\ scan' = NoScan
    /\ queue' = Loaded(saved) /\ saved' = queue'
    /\ seen' = [games |-> [g \in Games |-> Unlisted], healthy |-> TRUE, busy |-> FALSE]
    /\ UNCHANGED <<world, prefs, active, passes, budget>>

Loop   == ScanArrives \/ Looks \/ NoCommand \/ Follows \/ Manages
Thread == ThreadBegins \/ ThreadRefused \/ ThreadFile \/ ThreadStops \/ ThreadEnds
Commands == \/ \E g \in Games, restore \in BOOLEAN : Enqueue(g, restore)
            \/ \E i \in DOMAIN queue.jobs : Pause(i) \/ Cancel(i) \/ Retry(i)
            \/ Settings \/ Shutdown

DesktopNext ==
    \/ Loop \/ Thread \/ Commands \/ ScanStarts \/ ThreadFails
    \/ \E g \in Games : Updates(g) \/ Settles(g) \/ CommandBegins(g)
    \/ CommandFile \/ CommandEnds \/ CommandStops \/ Dies \/ Comes

DesktopSpec == /\ DesktopInit /\ [][DesktopNext]_desktop
               /\ WF_desktop(Loop) /\ WF_desktop(Thread)

(***************************************************************************)
(* Properties.                                                             *)
(***************************************************************************)
\* A folder has at most one job that waits or runs, whatever clients order, retry and
\* maintenance adds, and across a restart (Queue::enqueue, Queue::retry, Queue::load).
OneActiveJob ==
    \A i, j \in DOMAIN queue.jobs :
        /\ queue.jobs[i].game = queue.jobs[j].game
        /\ queue.jobs[i].phase \in Active /\ queue.jobs[j].phase \in Active
        => i = j

\* A folder whose pass did not come to its end has the journal, so that nothing else is
\* started before it is dealt with, whichever processes worked and died (visit_with).
UnfinishedJournaled == \A g \in Games : folder[g] = "partial" => journal = g

\* Maintenance takes note of a new build of a game it covers only when the queue has a
\* compression of that build to do: an update is not lost to an older job of the folder.
UpdatesHandled ==
    [][\A g \in Games :
        /\ up /\ up' /\ queue.baseline[g].on /\ queue'.baseline[g].on
        /\ queue'.baseline[g].build # queue.baseline[g].build
        => \E i \in DOMAIN queue'.jobs :
               /\ queue'.jobs[i].game = g /\ queue'.jobs[i].phase \in Active
               /\ queue'.jobs[i].build = queue'.baseline[g].build]_desktop

\* A job that begins is not one the preferences of that moment rule out.
ExcludedNotStarted ==
    [][active = NoThread /\ active' # NoThread
       => LET job == queue'.jobs[active'.job]
          IN (job.restore \/ job.game \notin prefs'.excluded)
             /\ (job.automatic => prefs'.automatic)]_desktop

\* A running job that was cancelled comes to an end, also when it is held (the flag is
\* never lowered: it goes with the thread).
Cancelled     == active # NoThread /\ active.cancel
StopsOnCancel == Cancelled ~> ~Cancelled

\* A coordinator asked to stop goes away, whatever holds its job.
ShutdownEnds == up /\ shutdown ~> ~up

\* The queue keeps every order and every update of a game once, and starts none of them
\* against the preferences.
OrdersKept == [](DesktopOK /\ OneActiveJob) /\ UpdatesHandled /\ ExcludedNotStarted

\* Whoever asks a job or the coordinator to stop sees it stop.
StopsEnd == StopsOnCancel /\ ShutdownEnds
================================================================================

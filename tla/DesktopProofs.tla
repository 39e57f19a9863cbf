----------------------------- MODULE DesktopProofs ------------------------------
(***************************************************************************)
(* The desktop platforms: a Windows pass that did not finish always has    *)
(* its journal, the Windows queue keeps orders and updates once and starts *)
(* none against the preferences, and the replacement of a file on a Mac    *)
(* never deletes the newest bytes, for any number of folders, files, jobs, *)
(* commands, writes, passes, recoveries and deaths.                        *)
(*                                                                         *)
(* UnfinishedJournaled alone is not inductive: a pass that ends removes    *)
(* the journal, so the invariant also says that the lock's holder works on *)
(* the journal's folder and has made it whole when its last file is done.  *)
(***************************************************************************)
EXTENDS DesktopQueue, MacReplace, FiniteSetTheorems, TLAPS

HolderJournaled ==
    \/ holder = NoPass
    \/ /\ holder.by \in {"job", "command"} /\ journal = holder.game
       /\ holder.done \in 0 .. FileCount
       /\ holder.game \in Games /\ holder.done = FileCount => folder[holder.game] = "whole"

PassInv ==
    /\ folder \in [Games -> {"whole", "partial"}]
    /\ HolderJournaled
    /\ UnfinishedJournaled

LEMMA PassInvInit == DesktopInit => PassInv
BY DesktopAssumption DEF DesktopInit, PassInv, HolderJournaled, UnfinishedJournaled

\* Each step of a pass keeps the invariant, whoever makes it.
LEMMA BeginsKeeps ==
    ASSUME PassInv, NEW by \in {"job", "command"}, NEW g, PassBegins(by, g)
    PROVE  PassInv'
<1>1. journal = NoFolder => \A h \in Games : folder[h] # "partial"
  BY DesktopAssumption DEF PassInv, UnfinishedJournaled
<1>2. UnfinishedJournaled'
  BY <1>1 DEF PassInv, UnfinishedJournaled, PassBegins, Unblocked
<1>3. HolderJournaled'
  <2>1. holder' = [by |-> by, game |-> g, done |-> 0] /\ journal' = g
    BY DEF PassBegins
  <2>2. 0 \in 0 .. FileCount /\ 0 # FileCount
    BY DesktopAssumption
  <2> QED BY <2>1, <2>2 DEF HolderJournaled
<1> QED BY <1>2, <1>3 DEF PassInv, PassBegins

LEMMA FileKeeps == ASSUME PassInv, PassFile PROVE PassInv'
<1>1. /\ holder.by \in {"job", "command"} /\ journal = holder.game
      /\ holder.done \in 0 .. FileCount /\ holder.done < FileCount
  BY DEF PassInv, HolderJournaled, PassFile
<1>2. holder' = [holder EXCEPT !.done = holder.done + 1] /\ journal' = journal
  BY DEF PassFile
<1>3. folder' \in [Games -> {"whole", "partial"}]
  BY DEF PassInv, PassFile
<1>4. \A h \in Games : h # holder.game => folder'[h] = folder[h]
  BY DEF PassInv, PassFile
<1>5. UnfinishedJournaled'
  BY <1>1, <1>2, <1>4 DEF PassInv, UnfinishedJournaled
<1>6. holder.done + 1 \in 0 .. FileCount
  BY <1>1, DesktopAssumption
<1>7. holder'.by = holder.by /\ holder'.game = holder.game
  BY <1>2
<1>8. holder' = NoPass \/ holder'.done = holder.done + 1
  BY <1>2 DEF NoPass
<1>9. holder.game \in Games /\ holder.done + 1 = FileCount => folder'[holder.game] = "whole"
  BY DEF PassInv, PassFile
<1> QED BY <1>1, <1>2, <1>3, <1>5, <1>6, <1>7, <1>8, <1>9 DEF PassInv, HolderJournaled

LEMMA EndsKeeps == ASSUME PassInv, PassEnds PROVE PassInv'
<1>1. journal = holder.game /\ (holder.game \in Games => folder[holder.game] = "whole")
  BY DEF PassInv, HolderJournaled, PassEnds
<1>2. \A h \in Games : folder[h] # "partial"
  BY <1>1 DEF PassInv, UnfinishedJournaled
<1> QED BY <1>2 DEF PassInv, HolderJournaled, UnfinishedJournaled, PassEnds

LEMMA StopsKeeps == ASSUME PassInv, PassStops PROVE PassInv'
BY DEF PassInv, HolderJournaled, UnfinishedJournaled, PassStops

LEMMA OthersKeep == ASSUME PassInv, UNCHANGED passes PROVE PassInv'
BY DEF PassInv, HolderJournaled, UnfinishedJournaled, passes

\* What is no step of a pass leaves the lock, the journal and the folders alone.
LEMMA LoopAlone == Loop \/ ScanStarts => UNCHANGED passes
BY DEF Loop, ScanStarts, ScanArrives, Looks, NoCommand, Follows, Manages

LEMMA CommandsAlone == Commands => UNCHANGED passes
<1> SUFFICES ASSUME Commands PROVE UNCHANGED passes OBVIOUS
<1>1. ASSUME NEW g \in Games, NEW r \in BOOLEAN, Enqueue(g, r) PROVE UNCHANGED passes
  BY <1>1 DEF Enqueue, Answered
<1>2. ASSUME NEW i, Pause(i) \/ Cancel(i) \/ Retry(i) PROVE UNCHANGED passes
  BY <1>2 DEF Pause, Cancel, Retry, Answered
<1>3. ASSUME Settings \/ Shutdown PROVE UNCHANGED passes
  BY <1>3 DEF Settings, Shutdown, Answered
<1> QED BY <1>1, <1>2, <1>3 DEF Commands

LEMMA PassInvStep == PassInv /\ [DesktopNext]_desktop => PassInv'
<1> SUFFICES ASSUME PassInv, [DesktopNext]_desktop PROVE PassInv' OBVIOUS
<1>1. CASE Loop \/ ScanStarts BY <1>1, LoopAlone, OthersKeep
<1>2. CASE Commands BY <1>2, CommandsAlone, OthersKeep
<1>3. CASE Thread
  <2>1. CASE ThreadBegins BY <2>1, BeginsKeeps DEF ThreadBegins
  <2>2. CASE ThreadRefused BY <2>2, OthersKeep DEF ThreadRefused
  <2>3. CASE ThreadFile BY <2>3, FileKeeps DEF ThreadFile
  <2>4. CASE ThreadStops BY <2>4, StopsKeeps DEF ThreadStops
  <2>5. CASE ThreadEnds BY <2>5, EndsKeeps DEF ThreadEnds
  <2> QED BY <1>3, <2>1, <2>2, <2>3, <2>4, <2>5 DEF Thread
<1>4. CASE ThreadFails BY <1>4, StopsKeeps DEF ThreadFails
<1>5. ASSUME NEW g \in Games, Updates(g) \/ Settles(g) PROVE PassInv'
  BY <1>5, OthersKeep DEF Updates, Settles
<1>6. ASSUME NEW g \in Games, CommandBegins(g) PROVE PassInv'
  BY <1>6, BeginsKeeps DEF CommandBegins
<1>7. CASE CommandFile BY <1>7, FileKeeps DEF CommandFile
<1>8. CASE CommandEnds BY <1>8, EndsKeeps DEF CommandEnds
<1>9. CASE CommandStops BY <1>9, StopsKeeps DEF CommandStops
<1>10. CASE Dies BY <1>10, StopsKeeps, OthersKeep DEF Dies
<1>11. CASE Comes BY <1>11, OthersKeep DEF Comes
<1>12. CASE UNCHANGED desktop BY <1>12, OthersKeep DEF desktop
<1> QED
  BY <1>1, <1>2, <1>3, <1>4, <1>5, <1>6, <1>7, <1>8, <1>9, <1>10, <1>11, <1>12
  DEF DesktopNext

\* A folder whose pass did not come to its end has the journal, whatever processes
\* worked on it and died (windows/mod.rs, visit_with).
THEOREM UnfinishedJournaledEver == DesktopSpec => []UnfinishedJournaled
<1>1. PassInv => UnfinishedJournaled BY DEF PassInv
<1> QED BY <1>1, PassInvInit, PassInvStep, PTL DEF DesktopSpec

-----------------------------------------------------------------------------
(***************************************************************************)
(* The Windows queue.  That a folder has one active job is not inductive:  *)
(* the queue on disk needs it too, for a restart, and the thread's job may *)
(* not have ended while the thread goes on.  That no job starts against    *)
(* the preferences rests on the order of a turn: the rules run after the   *)
(* command and before the choice, and nothing comes between.               *)
(***************************************************************************)
QueueTypes == [jobs : Seq(Job), baseline : [Games -> [build : Nat, on : BOOLEAN]],
               initialized : BOOLEAN]
PrefTypes  == [automatic : BOOLEAN, excluded : SUBSET Games, paused : BOOLEAN]
Lists      == [Games -> {Unlisted} \cup [listed : BOOLEAN, build : Nat, idle : BOOLEAN]]
Threads    == [job : Nat \ {0}, pause : BOOLEAN, cancel : BOOLEAN,
               at : {"begin", "files", "completed", "failed"}]
Holders    == [by : {"job", "command"}, game : Games, done : 0 .. FileCount]
OnThread   == {"running", "paused"}

DeskTypes ==
    /\ world \in [Games -> [build : Nat, idle : BOOLEAN]]
    /\ prefs \in PrefTypes /\ queue \in QueueTypes /\ saved \in QueueTypes
    /\ up \in BOOLEAN /\ shutdown \in BOOLEAN /\ step \in {"scan", "orders", "thread"}
    /\ seen \in [games : Lists, healthy : BOOLEAN, busy : BOOLEAN]
    /\ scan = NoScan \/ scan \in [outcome : {"healthy", "warnings", "failed"}, list : Lists]
    /\ active = NoThread \/ active \in Threads
    /\ holder = NoPass \/ holder \in Holders
    /\ journal \in Games \cup {NoFolder} /\ folder \in [Games -> {"whole", "partial"}]

Single(q) ==
    \A i, j \in DOMAIN q.jobs :
        /\ q.jobs[i].game = q.jobs[j].game
        /\ q.jobs[i].phase \in Active /\ q.jobs[j].phase \in Active
        => i = j

\* The thread belongs to the process, and its job alone is shown as on the thread.
ThreadHas(jobs) ==
    /\ active # NoThread => active.job \in DOMAIN jobs /\ jobs[active.job].phase \in OnThread
    /\ \A i \in DOMAIN jobs : jobs[i].phase \in OnThread => i = active.job
ThreadTrue ==
    /\ active # NoThread => up
    /\ holder.by = "job" <=> active # NoThread /\ active.at = "files"
    /\ up => ThreadHas(queue.jobs)

\* Between the rules and the choice of a job, no job that waits is against them.
RulesTrue ==
    up /\ step = "thread" =>
        \A i \in DOMAIN queue.jobs :
            queue.jobs[i].phase \in Active /\ i # active.job => ~Loses(queue.jobs[i], prefs)

DeskInv == DeskTypes /\ Single(queue) /\ Single(saved) /\ ThreadTrue /\ RulesTrue

LEMMA DeskInvInit == DesktopInit => DeskInv
<1> SUFFICES ASSUME DesktopInit PROVE DeskInv OBVIOUS
<1>1. queue \in QueueTypes /\ queue.jobs = <<>> /\ saved = queue
  BY DEF DesktopInit, QueueTypes, Unseen
<1>2. DeskTypes
  <2>1. seen \in [games : Lists, healthy : BOOLEAN, busy : BOOLEAN]
    BY DEF DesktopInit, Lists, Unlisted
  <2>2. world \in [Games -> [build : Nat, idle : BOOLEAN]]
    BY DEF DesktopInit
  <2>3. prefs \in PrefTypes BY DEF DesktopInit, PrefTypes
  <2> QED BY <1>1, <2>1, <2>2, <2>3 DEF DesktopInit, DeskTypes
<1>3. Single(queue) /\ Single(saved) BY <1>1 DEF Single
<1>4. ThreadTrue BY <1>1 DEF DesktopInit, ThreadTrue, ThreadHas, NoPass
<1>5. RulesTrue BY DEF DesktopInit, RulesTrue
<1> QED BY <1>2, <1>3, <1>4, <1>5 DEF DeskInv

LEMMA DeskInvGives == DeskInv => DesktopOK /\ OneActiveJob
<1> SUFFICES ASSUME DeskInv PROVE DesktopOK /\ OneActiveJob OBVIOUS
<1>1. QueueOK(queue) /\ QueueOK(saved)
  BY DEF DeskInv, DeskTypes, QueueTypes, QueueOK
<1>2. active = NoThread \/ active \in [job : DOMAIN queue.jobs, pause : BOOLEAN,
            cancel : BOOLEAN, at : {"begin", "files", "completed", "failed"}]
  BY DEF DeskInv, DeskTypes, Threads, ThreadTrue, ThreadHas
<1>3. OneActiveJob BY DEF DeskInv, Single, OneActiveJob
<1>4. (holder.by = "job") = (active # NoThread /\ active.at = "files")
  BY DEF DeskInv, ThreadTrue
<1> QED
  BY <1>1, <1>2, <1>3, <1>4
  DEF DeskInv, DeskTypes, PrefTypes, Holders, OnThread, ThreadTrue, ThreadHas, DesktopOK

\* A queue in which fewer jobs are active, of the same games.
LEMMA FewerSingle ==
    ASSUME NEW q, NEW r, Single(q), DOMAIN r.jobs = DOMAIN q.jobs,
           \A i \in DOMAIN q.jobs :
               /\ r.jobs[i].game = q.jobs[i].game
               /\ r.jobs[i].phase \in Active => q.jobs[i].phase \in Active
    PROVE  Single(r)
BY DEF Single

\* A job of the queue with another phase.
Rephased(q, i, phase, held) ==
    [q EXCEPT !.jobs[i] = [q.jobs[i] EXCEPT !.phase = phase, !.held = held]]

LEMMA PhaseSet ==
    ASSUME NEW q \in QueueTypes, NEW i \in DOMAIN q.jobs, NEW phase \in Active \cup Ended,
           NEW held \in BOOLEAN, NEW r, r = Rephased(q, i, phase, held)
    PROVE  /\ r \in QueueTypes /\ DOMAIN r.jobs = DOMAIN q.jobs
           /\ r.baseline = q.baseline
           /\ r.jobs[i].phase = phase /\ r.jobs[i].game = q.jobs[i].game
           /\ \A j \in DOMAIN q.jobs : j # i => r.jobs[j] = q.jobs[j]
<1> DEFINE job == [q.jobs[i] EXCEPT !.phase = phase, !.held = held]
<1>1. job \in Job /\ job.phase = phase /\ job.game = q.jobs[i].game
  <2>1. q.jobs[i] \in Job BY DEF QueueTypes
  <2> QED BY <2>1 DEF Job
<1> HIDE DEF job
<1>2. [q.jobs EXCEPT ![i] = job] \in Seq(Job)
  BY <1>1 DEF QueueTypes
<1> QED BY <1>1, <1>2 DEF QueueTypes, Rephased, job

LEMMA RuledTrue ==
    ASSUME NEW q \in QueueTypes, Single(q), NEW settings
    PROVE  LET r == Ruled(q, settings)
           IN /\ r \in QueueTypes /\ Single(r) /\ DOMAIN r.jobs = DOMAIN q.jobs
              /\ r.baseline = q.baseline
              /\ \A i \in DOMAIN q.jobs :
                     /\ r.jobs[i] = q.jobs[i] \/ (r.jobs[i].phase = "cancelled" /\ i # active.job)
                     /\ r.jobs[i].phase \in Active /\ i # active.job => ~Loses(r.jobs[i], settings)
<1> DEFINE new(i) == IF q.jobs[i].phase \in Active /\ i # active.job /\ Loses(q.jobs[i], settings)
                     THEN [q.jobs[i] EXCEPT !.phase = "cancelled"] ELSE q.jobs[i]
           jobs == [i \in DOMAIN q.jobs |-> new(i)]
<1>1. \A i \in DOMAIN q.jobs :
        /\ new(i) \in Job /\ new(i).game = q.jobs[i].game
        /\ new(i) = q.jobs[i] \/ (new(i).phase = "cancelled" /\ i # active.job)
        /\ new(i).phase \in Active /\ i # active.job => ~Loses(new(i), settings)
  <2> SUFFICES ASSUME NEW i \in DOMAIN q.jobs
               PROVE  /\ new(i) \in Job /\ new(i).game = q.jobs[i].game
                      /\ new(i) = q.jobs[i] \/ (new(i).phase = "cancelled" /\ i # active.job)
                      /\ new(i).phase \in Active /\ i # active.job => ~Loses(new(i), settings)
    OBVIOUS
  <2>1. q.jobs[i] \in Job BY DEF QueueTypes
  <2>2. CASE q.jobs[i].phase \in Active /\ i # active.job /\ Loses(q.jobs[i], settings)
    <3>1. new(i) = [q.jobs[i] EXCEPT !.phase = "cancelled"] BY <2>2
    <3> QED BY <2>1, <2>2, <3>1 DEF Job, Active, Ended
  <2>3. CASE ~(q.jobs[i].phase \in Active /\ i # active.job /\ Loses(q.jobs[i], settings))
    <3>1. new(i) = q.jobs[i] BY <2>3
    <3> QED BY <2>1, <2>3, <3>1
  <2> QED BY <2>2, <2>3
<1> HIDE DEF new
<1>2. jobs \in Seq(Job) /\ DOMAIN jobs = DOMAIN q.jobs /\ \A i \in DOMAIN q.jobs : jobs[i] = new(i)
  BY <1>1 DEF QueueTypes
<1>3. Ruled(q, settings) = [q EXCEPT !.jobs = jobs]
  BY DEF Ruled, new
<1> HIDE DEF jobs
<1>4. /\ Ruled(q, settings) \in QueueTypes /\ Ruled(q, settings).jobs = jobs
      /\ Ruled(q, settings).baseline = q.baseline
  BY <1>2, <1>3 DEF QueueTypes
<1>5. Single(Ruled(q, settings))
  BY <1>1, <1>2, <1>4, FewerSingle DEF Active
<1> QED BY <1>1, <1>2, <1>4, <1>5

\* What a turn's orders make of the state, with or without a command.
LEMMA RulesKeep ==
    ASSUME DeskInv, up, UNCHANGED <<up, world, seen, scan, passes>>, step' = "thread",
           NEW q \in QueueTypes, Single(q), ThreadHas(q.jobs),
           prefs' \in PrefTypes, queue' = Ruled(q, prefs'),
           saved' \in QueueTypes, Single(saved'), shutdown' \in BOOLEAN,
           \/ active' = active
           \/ active # NoThread /\ active' = [active EXCEPT !.cancel = TRUE]
    PROVE  DeskInv' /\ queue'.baseline = q.baseline /\ (active = NoThread => active' = NoThread)
<1>1. /\ queue' \in QueueTypes /\ Single(queue') /\ DOMAIN queue'.jobs = DOMAIN q.jobs
      /\ queue'.baseline = q.baseline
      /\ \A i \in DOMAIN q.jobs :
             /\ queue'.jobs[i] = q.jobs[i] \/ (queue'.jobs[i].phase = "cancelled" /\ i # active.job)
             /\ queue'.jobs[i].phase \in Active /\ i # active.job => ~Loses(queue'.jobs[i], prefs')
  BY RuledTrue
<1>2. /\ active' = NoThread \/ active' \in Threads
      /\ active'.job = active.job /\ (active # NoThread => active'.at = active.at)
      /\ active' = NoThread <=> active = NoThread
  BY DEF DeskInv, DeskTypes, Threads, NoThread
<1>3. DeskTypes'
  BY <1>1, <1>2 DEF DeskInv, DeskTypes, passes
<1>4. ThreadHas(queue.jobs)'
  BY <1>1, <1>2 DEF ThreadHas, OnThread
<1>5. ThreadTrue'
  BY <1>2, <1>4 DEF DeskInv, ThreadTrue, passes
<1>6. RulesTrue'
  BY <1>1, <1>2 DEF RulesTrue
<1> QED BY <1>1, <1>2, <1>3, <1>5, <1>6 DEF DeskInv

\* What is no thread step, no turn and no restart.
LEMMA OthersQueue ==
    ASSUME DeskInv, UNCHANGED <<prefs, queue, saved, up, shutdown, step, active>>,
           DeskTypes', UNCHANGED holder \/ (holder.by # "job" /\ holder'.by # "job")
    PROVE  DeskInv' /\ UNCHANGED <<queue, active>>
<1>1. ThreadTrue'
  BY DEF DeskInv, ThreadTrue, ThreadHas
<1> QED BY <1>1 DEF DeskInv, Single, RulesTrue, Loses

LEMMA WorldKeeps ==
    ASSUME DeskInv, NEW g \in Games, Updates(g) \/ Settles(g)
    PROVE  DeskInv' /\ UNCHANGED <<queue, active>>
<1>1. world[g] \in [build : Nat, idle : BOOLEAN]
  BY DEF DeskInv, DeskTypes
<1>2. \E w \in [build : Nat, idle : BOOLEAN] : world' = [world EXCEPT ![g] = w]
  <2>1. CASE Updates(g)
    <3>2. world' = [world EXCEPT ![g] = [build |-> world[g].build + 1, idle |-> FALSE]]
      BY <2>1 DEF Updates
    <3>3. [build |-> world[g].build + 1, idle |-> FALSE] \in [build : Nat, idle : BOOLEAN]
      BY <1>1
    <3> QED BY <3>2, <3>3
  <2>2. CASE Settles(g)
    <3>1. [world[g] EXCEPT !.idle = TRUE] \in [build : Nat, idle : BOOLEAN] BY <1>1
    <3>2. world' = [world EXCEPT ![g] = [world[g] EXCEPT !.idle = TRUE]]
      BY <2>2 DEF Settles, DeskInv, DeskTypes
    <3> QED BY <3>1, <3>2
  <2> QED BY <2>1, <2>2
<1>3. UNCHANGED <<coordinator, active, passes>>
  BY DEF Updates, Settles
<1>4. DeskTypes'
  BY <1>2, <1>3 DEF DeskInv, DeskTypes, coordinator, passes
<1> QED BY <1>3, <1>4, OthersQueue DEF coordinator, passes

\* Passes.
LEMMA PassTypes ==
    ASSUME DeskTypes,
           \/ \E by \in {"job", "command"}, g \in Games : PassBegins(by, g)
           \/ PassFile \/ PassEnds \/ PassStops
    PROVE  /\ holder' = NoPass \/ holder' \in Holders
           /\ journal' \in Games \cup {NoFolder} /\ folder' \in [Games -> {"whole", "partial"}]
<1>1. ASSUME NEW by \in {"job", "command"}, NEW g \in Games, PassBegins(by, g)
      PROVE  holder' \in Holders /\ journal' = g /\ folder' = folder
  BY <1>1, DesktopAssumption DEF PassBegins, Holders
<1>2. ASSUME PassFile
      PROVE  holder' \in Holders /\ journal' = journal /\ folder' \in [Games -> {"whole", "partial"}]
  <2>1. holder \in Holders /\ holder.done < FileCount BY <1>2 DEF PassFile, DeskTypes
  <2>2. holder.done + 1 \in 0 .. FileCount BY <2>1, DesktopAssumption DEF Holders
  <2> QED BY <1>2, <2>1, <2>2 DEF PassFile, DeskTypes, Holders
<1>3. CASE PassEnds \/ PassStops BY <1>3 DEF PassEnds, PassStops, DeskTypes
<1> QED BY <1>1, <1>2, <1>3 DEF DeskTypes

LEMMA CommandPassKeeps ==
    ASSUME DeskInv,
           \/ \E g \in Games : CommandBegins(g)
           \/ CommandFile \/ CommandEnds \/ CommandStops
    PROVE  DeskInv' /\ UNCHANGED <<queue, active>>
<1>1. /\ UNCHANGED <<world, coordinator, active>>
      /\ \/ \E by \in {"job", "command"}, g \in Games : PassBegins(by, g)
         \/ PassFile \/ PassEnds \/ PassStops
      /\ holder.by # "job" /\ holder'.by # "job"
  <2>1. ASSUME NEW g \in Games, CommandBegins(g)
        PROVE  holder.by # "job" /\ holder'.by # "job"
    BY <2>1 DEF CommandBegins, PassBegins, NoPass
  <2>2. ASSUME CommandFile \/ CommandEnds \/ CommandStops
        PROVE  holder.by # "job" /\ holder'.by # "job"
    <3>1. holder = NoPass \/ holder \in Holders BY DEF DeskInv, DeskTypes
    <3> QED
      BY <2>2, <3>1
      DEF CommandFile, CommandEnds, CommandStops, PassFile, PassEnds, PassStops, NoPass, Holders
  <2> QED BY <2>1, <2>2 DEF CommandBegins, CommandFile, CommandEnds, CommandStops
<1>2. DeskTypes'
  BY <1>1, PassTypes DEF DeskInv, DeskTypes, coordinator
<1> QED BY <1>1, <1>2, OthersQueue DEF coordinator

\* The thread.
LEMMA ThreadKeeps ==
    ASSUME DeskInv, Thread \/ ThreadFails
    PROVE  DeskInv' /\ UNCHANGED queue /\ active # NoThread
<1>1. PICK at \in {"begin", "files", "completed", "failed"} :
        /\ UNCHANGED <<world, coordinator>> /\ active # NoThread
        /\ active' = [active EXCEPT !.at = at]
        /\ holder'.by = "job" <=> at = "files"
        /\ \/ \E by \in {"job", "command"}, g \in Games : PassBegins(by, g)
           \/ PassFile \/ PassEnds \/ PassStops \/ UNCHANGED passes
  <2>1. CASE ThreadBegins
    <3>1. active.job \in DOMAIN queue.jobs
      BY <2>1 DEF ThreadBegins, DeskInv, ThreadTrue, ThreadHas
    <3>2. queue.jobs[active.job] \in Job
      BY <3>1 DEF DeskInv, DeskTypes, QueueTypes
    <3>3. queue.jobs[active.job].game \in Games
      BY <3>2 DEF Job
    <3> QED BY <2>1, <3>3 DEF ThreadBegins, PassBegins, ThreadIs
  <2>2. CASE ThreadRefused
    BY <2>2 DEF ThreadRefused, ThreadIs, DeskInv, ThreadTrue, passes
  <2>3. CASE ThreadFile
    <3>1. active # NoThread /\ active.at = "files" /\ active \in Threads /\ holder \in Holders
      BY <2>3 DEF ThreadFile, DeskInv, DeskTypes, ThreadTrue, NoPass, PassFile
    <3>2. holder'.by = "job" BY <2>3, <3>1 DEF ThreadFile, PassFile, Holders
    <3>3. active' = [active EXCEPT !.at = "files"] BY <2>3, <3>1 DEF ThreadFile, Threads
    <3> QED BY <2>3, <3>1, <3>2, <3>3 DEF ThreadFile
  <2>4. CASE ThreadStops \/ ThreadFails \/ ThreadEnds
    <3>1. active # NoThread BY <2>4 DEF ThreadStops, ThreadFails, ThreadEnds, DeskInv, ThreadTrue
    <3>2. holder' = NoPass BY <2>4 DEF ThreadStops, ThreadFails, ThreadEnds, PassStops, PassEnds
    <3> QED BY <2>4, <3>1, <3>2 DEF ThreadStops, ThreadFails, ThreadEnds, ThreadIs, NoPass
  <2> QED BY <2>1, <2>2, <2>3, <2>4 DEF Thread
<1>2. /\ active \in Threads /\ active' \in Threads /\ active'.job = active.job
      /\ active'.at = at /\ active' # NoThread
  BY <1>1 DEF DeskInv, DeskTypes, Threads, NoThread
<1>3. DeskTypes'
  BY <1>1, <1>2, PassTypes DEF DeskInv, DeskTypes, coordinator, passes
<1>4. ThreadTrue'
  BY <1>1, <1>2 DEF DeskInv, ThreadTrue, ThreadHas, coordinator
<1> QED
  BY <1>1, <1>2, <1>3, <1>4 DEF DeskInv, Single, RulesTrue, Loses, coordinator

LEMMA DiesKeeps == ASSUME DeskInv, Dies PROVE DeskInv' /\ UNCHANGED queue /\ active' = NoThread
<1>1. holder' = NoPass \/ holder' \in Holders
  BY DEF Dies, DeskInv, DeskTypes, PassStops, passes
<1>2. holder'.by # "job"
  BY DEF Dies, PassStops, passes, NoPass
<1>4. DeskTypes'
  BY <1>1 DEF Dies, DeskInv, DeskTypes, PassStops, passes
<1>3. ThreadTrue' /\ RulesTrue'
  BY <1>2 DEF Dies, ThreadTrue, RulesTrue
<1> QED BY <1>2, <1>3, <1>4 DEF Dies, DeskInv, Single

LEMMA ComesKeeps ==
    ASSUME DeskInv, Comes
    PROVE  DeskInv' /\ ~up /\ active' = active
<1> DEFINE new(i) == IF saved.jobs[i].phase \in OnThread
                     THEN [saved.jobs[i] EXCEPT !.phase = "interrupted"] ELSE saved.jobs[i]
           jobs == [i \in DOMAIN saved.jobs |-> new(i)]
<1>1. saved \in QueueTypes /\ Single(saved) /\ active = NoThread /\ ~up
  BY DEF DeskInv, DeskTypes, Comes, ThreadTrue
<1>2. \A i \in DOMAIN saved.jobs :
        /\ new(i) \in Job /\ new(i).game = saved.jobs[i].game /\ new(i).phase \notin OnThread
        /\ new(i).phase \in Active => saved.jobs[i].phase \in Active
  <2> SUFFICES ASSUME NEW i \in DOMAIN saved.jobs
               PROVE  /\ new(i) \in Job /\ new(i).game = saved.jobs[i].game
                      /\ new(i).phase \notin OnThread
                      /\ new(i).phase \in Active => saved.jobs[i].phase \in Active
    OBVIOUS
  <2>1. saved.jobs[i] \in Job BY <1>1 DEF QueueTypes
  <2> QED BY <2>1 DEF Job, Active, Ended, OnThread
<1> HIDE DEF new
<1>3. /\ jobs \in Seq(Job) /\ DOMAIN jobs = DOMAIN saved.jobs
      /\ \A i \in DOMAIN saved.jobs : jobs[i] = new(i)
  BY <1>1, <1>2 DEF QueueTypes
<1>4. queue' = [saved EXCEPT !.jobs = jobs] /\ saved' = queue'
  BY DEF Comes, Loaded, new, OnThread
<1> HIDE DEF jobs
<1>5. queue' \in QueueTypes /\ queue'.jobs = jobs
  BY <1>1, <1>3, <1>4 DEF QueueTypes
<1>6. Single(queue')
  BY <1>1, <1>2, <1>3, <1>5, FewerSingle
<1>7. seen' \in [games : Lists, healthy : BOOLEAN, busy : BOOLEAN]
  BY DEF Comes, Lists, Unlisted
<1>8. DeskTypes'
  BY <1>1, <1>4, <1>5, <1>7 DEF Comes, DeskInv, DeskTypes, passes
<1>9. ThreadTrue'
  BY <1>1, <1>2, <1>3, <1>5 DEF Comes, DeskInv, ThreadTrue, ThreadHas, passes
<1>10. RulesTrue' BY DEF Comes, RulesTrue
<1> QED BY <1>1, <1>4, <1>6, <1>8, <1>9, <1>10 DEF Comes, DeskInv

\* The scan.
LEMMA ListingTypes == ASSUME DeskTypes PROVE Listing \in Lists
<1> SUFFICES ASSUME NEW g \in Games
             PROVE  (IF world[g].build = 0 THEN Unlisted
                     ELSE [listed |-> TRUE, build |-> world[g].build, idle |-> world[g].idle])
                    \in {Unlisted} \cup [listed : BOOLEAN, build : Nat, idle : BOOLEAN]
  BY DEF Listing, Lists
<1>1. world[g] \in [build : Nat, idle : BOOLEAN] BY DEF DeskTypes
<1> QED BY <1>1

LEMMA ScanOthersKeep ==
    ASSUME DeskInv, ScanStarts \/ Looks
    PROVE  DeskInv' /\ UNCHANGED <<queue, active>>
<1>1. CASE ScanStarts
  <2>1. scan' \in [outcome : {"healthy", "warnings", "failed"}, list : Lists]
    BY <1>1, ListingTypes DEF ScanStarts, DeskInv
  <2>2. DeskTypes' BY <1>1, <2>1 DEF ScanStarts, Turns, DeskInv, DeskTypes, passes
  <2>3. ThreadTrue' BY <1>1 DEF ScanStarts, Turns, DeskInv, ThreadTrue, ThreadHas, passes
  <2>4. RulesTrue' BY <1>1 DEF ScanStarts, Turns, RulesTrue
  <2> QED BY <1>1, <2>2, <2>3, <2>4 DEF ScanStarts, DeskInv, Single
<1>2. CASE Looks
  <2>1. seen' \in [games : Lists, healthy : BOOLEAN, busy : BOOLEAN]
    BY <1>2 DEF Looks, DeskInv, DeskTypes
  <2>2. DeskTypes' BY <1>2, <2>1 DEF Looks, Turns, DeskInv, DeskTypes, passes
  <2>3. ThreadTrue' BY <1>2 DEF Looks, Turns, DeskInv, ThreadTrue, ThreadHas, passes
  <2>4. RulesTrue' BY <1>2 DEF Looks, Turns, RulesTrue
  <2> QED BY <1>2, <2>2, <2>3, <2>4 DEF Looks, DeskInv, Single
<1> QED BY <1>1, <1>2

LEMMA OrderOf ==
    ASSUME NEW S \in SUBSET Games
    PROVE  /\ SetToSeq(S) \in Seq(S)
           /\ \A i, j \in DOMAIN SetToSeq(S) : SetToSeq(S)[i] = SetToSeq(S)[j] => i = j
           /\ \A g \in S : \E i \in DOMAIN SetToSeq(S) : SetToSeq(S)[i] = g
<1> DEFINE n == Cardinality(S)
           order == SetToSeq(S)
<1>1. IsFiniteSet(S) /\ n \in Nat /\ ExistsBijection(1 .. n, S)
  BY DesktopAssumption, FS_Subset, FS_CardinalityType
<1>2. \E f \in [1 .. n -> S] : IsInjective(f)
  BY <1>1 DEF ExistsBijection, Bijection, Injection, IsInjective
<1>3. order \in [1 .. n -> S] /\ IsInjective(order)
  BY <1>2 DEF SetToSeq
<1>4. order \in Injection(1 .. n, S)
  BY <1>3 DEF Injection
<1>5. IsFiniteSet(1 .. n) /\ Cardinality(1 .. n) = n
  BY <1>1, FS_Interval
<1>6. order \in Surjection(1 .. n, S)
  BY <1>1, <1>4, <1>5, FS_Injection
<1> QED
  BY <1>1, <1>3, <1>6 DEF IsInjective, Surjection

LEMMA JoinedSeq ==
    ASSUME NEW S, NEW s \in Seq(S), NEW t \in Seq(S)
    PROVE  /\ s \o t \in Seq(S) /\ Len(s \o t) = Len(s) + Len(t)
           /\ \A i \in 1 .. Len(s) : (s \o t)[i] = s[i]
           /\ \A i \in Len(s) + 1 .. Len(s) + Len(t) : (s \o t)[i] = t[i - Len(s)]
  OBVIOUS

\* What a scan makes of the queue.
LEMMA ObservedTrue ==
    ASSUME NEW q \in QueueTypes, Single(q), NEW list \in Lists, prefs \in PrefTypes
    PROVE  LET r == ObservedAll(q, list)
           IN /\ r \in QueueTypes /\ Single(r) /\ DOMAIN q.jobs \subseteq DOMAIN r.jobs
              /\ \A i \in DOMAIN q.jobs : r.jobs[i] = q.jobs[i]
              /\ \A i \in DOMAIN r.jobs \ DOMAIN q.jobs : r.jobs[i].phase = "waiting"
              /\ \A g \in Games :
                    /\ q.baseline[g].on /\ r.baseline[g].on
                    /\ r.baseline[g].build # q.baseline[g].build
                    => \E i \in DOMAIN r.jobs : /\ r.jobs[i].game = g /\ r.jobs[i].phase \in Active
                                                /\ r.jobs[i].build = r.baseline[g].build
<1> DEFINE due   == {g \in Games : Queues(q, g, list)}
           order == SetToSeq(due)
           new(i) == NewJob(order[i], list[order[i]].build, FALSE, TRUE)
           news  == [i \in DOMAIN order |-> new(i)]
           r     == ObservedAll(q, list)
<1>0. due \in SUBSET Games
  OBVIOUS
<1>1. /\ order \in Seq(due) /\ \A i \in DOMAIN order : order[i] \in due
      /\ \A i, j \in DOMAIN order : order[i] = order[j] => i = j
      /\ \A g \in due : \E i \in DOMAIN order : order[i] = g
  <2> HIDE DEF due
  <2> QED BY <1>0, OrderOf
<1> HIDE DEF order
<1>2. ASSUME NEW g \in Games, list[g].listed PROVE list[g].build \in Nat
  <2>1. list[g] = Unlisted \/ list[g] \in [listed : BOOLEAN, build : Nat, idle : BOOLEAN]
    BY DEF Lists
  <2> QED BY <1>2, <2>1 DEF Unlisted
<1>3. \A i \in DOMAIN order :
        /\ new(i) \in Job /\ new(i).game = order[i] /\ new(i).phase = "waiting"
        /\ new(i).build = list[order[i]].build
  BY <1>1, <1>2 DEF Queues, NewJob, Job, Active
<1> HIDE DEF new
<1>4. /\ news \in Seq(Job) /\ Len(news) = Len(order) /\ DOMAIN news = 1 .. Len(order)
      /\ \A i \in 1 .. Len(order) : news[i] = new(i)
  BY <1>1, <1>3
<1>5. /\ r.jobs = q.jobs \o news /\ r.baseline = [g \in Games |-> Noted(q, g, list)]
      /\ r.initialized = prefs.automatic
      /\ r = [jobs |-> r.jobs, baseline |-> r.baseline, initialized |-> r.initialized]
  BY DEF ObservedAll, order, new
<1> HIDE DEF news, r
<1>6. /\ q.jobs \in Seq(Job) /\ Len(q.jobs) \in Nat /\ DOMAIN q.jobs = 1 .. Len(q.jobs)
      /\ Len(order) \in Nat /\ DOMAIN order = 1 .. Len(order)
  BY <1>1 DEF QueueTypes
<1>7. /\ r.jobs \in Seq(Job) /\ DOMAIN r.jobs = 1 .. (Len(q.jobs) + Len(order))
      /\ \A i \in DOMAIN q.jobs : r.jobs[i] = q.jobs[i]
      /\ \A i \in DOMAIN order : r.jobs[Len(q.jobs) + i] = new(i)
      /\ \A i \in DOMAIN r.jobs \ DOMAIN q.jobs :
             i - Len(q.jobs) \in DOMAIN order /\ r.jobs[i] = new(i - Len(q.jobs))
  <2>1. /\ r.jobs \in Seq(Job) /\ Len(r.jobs) = Len(q.jobs) + Len(order)
        /\ \A i \in 1 .. Len(q.jobs) : r.jobs[i] = q.jobs[i]
        /\ \A i \in Len(q.jobs) + 1 .. Len(q.jobs) + Len(order) : r.jobs[i] = news[i - Len(q.jobs)]
    <3>1. /\ q.jobs \in Seq(Job) /\ news \in Seq(Job) /\ r.jobs = q.jobs \o news
          /\ Len(q.jobs) \in Nat /\ Len(news) = Len(order) /\ Len(order) \in Nat
      BY <1>4, <1>5, <1>6
    <3>2. \A s, t \in Seq(Job) :
              /\ s \o t \in Seq(Job) /\ Len(s \o t) = Len(s) + Len(t)
              /\ \A i \in 1 .. Len(s) : (s \o t)[i] = s[i]
              /\ \A i \in Len(s) + 1 .. Len(s) + Len(t) : (s \o t)[i] = t[i - Len(s)]
      BY JoinedSeq
    <3> HIDE DEF Job
    <3>3. /\ q.jobs \o news \in Seq(Job) /\ Len(q.jobs \o news) = Len(q.jobs) + Len(news)
          /\ \A i \in 1 .. Len(q.jobs) : (q.jobs \o news)[i] = q.jobs[i]
          /\ \A i \in Len(q.jobs) + 1 .. Len(q.jobs) + Len(news) : (q.jobs \o news)[i] = news[i - Len(q.jobs)]
      BY <3>1, <3>2, Zenon
    <3> QED BY <3>1, <3>3, Zenon
  <2>2. DOMAIN r.jobs = 1 .. (Len(q.jobs) + Len(order))
    BY <2>1
  <2> HIDE <1>5
  <2>3. ASSUME NEW i \in DOMAIN order PROVE r.jobs[Len(q.jobs) + i] = new(i)
    <3>1. /\ i \in 1 .. Len(order) /\ Len(q.jobs) + i - Len(q.jobs) = i
          /\ Len(q.jobs) + i \in Len(q.jobs) + 1 .. Len(q.jobs) + Len(order)
      BY <1>6
    <3> QED BY <1>4, <2>1, <3>1
  <2>4. ASSUME NEW i \in DOMAIN r.jobs \ DOMAIN q.jobs
        PROVE  i - Len(q.jobs) \in DOMAIN order /\ r.jobs[i] = new(i - Len(q.jobs))
    <3>1. /\ i \in Len(q.jobs) + 1 .. Len(q.jobs) + Len(order)
          /\ i - Len(q.jobs) \in 1 .. Len(order)
      BY <1>6, <2>2
    <3> QED BY <1>4, <1>6, <2>1, <3>1
  <2> QED BY <1>6, <2>1, <2>2, <2>3, <2>4
<1>8. \A g \in Games : Noted(q, g, list) \in [build : Nat, on : BOOLEAN]
  <2> SUFFICES ASSUME NEW g \in Games PROVE Noted(q, g, list) \in [build : Nat, on : BOOLEAN]
    OBVIOUS
  <2>1. q.baseline[g] \in [build : Nat, on : BOOLEAN] BY DEF QueueTypes
  <2>2. Covering(g) \in BOOLEAN BY DEF Covering, PrefTypes
  <2> QED BY <2>1, <2>2, <1>2 DEF Noted
<1>9. r \in QueueTypes
  <2>1. r.baseline \in [Games -> [build : Nat, on : BOOLEAN]] BY <1>5, <1>8
  <2>2. r.initialized \in BOOLEAN BY <1>5 DEF PrefTypes
  <2> QED BY <1>5, <1>7, <2>1, <2>2 DEF QueueTypes
<1>10. Single(r)
  <2> SUFFICES ASSUME NEW i \in DOMAIN r.jobs, NEW j \in DOMAIN r.jobs,
                      r.jobs[i].game = r.jobs[j].game,
                      r.jobs[i].phase \in Active, r.jobs[j].phase \in Active
               PROVE  i = j
    BY DEF Single
  <2>1. CASE i \in DOMAIN q.jobs /\ j \in DOMAIN q.jobs
    BY <1>7, <2>1 DEF Single
  <2>2. CASE i \notin DOMAIN q.jobs /\ j \notin DOMAIN q.jobs
    <3>1. /\ i - Len(q.jobs) \in DOMAIN order /\ j - Len(q.jobs) \in DOMAIN order
          /\ order[i - Len(q.jobs)] = order[j - Len(q.jobs)]
      BY <1>3, <1>7, <2>2
    <3>2. i - Len(q.jobs) = j - Len(q.jobs) BY <1>1, <3>1
    <3>3. i \in Nat /\ j \in Nat BY <1>6, <1>7
    <3> QED BY <1>6, <3>2, <3>3
  <2>3. \A k, l \in DOMAIN r.jobs :
          ~(/\ k \in DOMAIN q.jobs /\ l \notin DOMAIN q.jobs /\ r.jobs[k].game = r.jobs[l].game
            /\ r.jobs[k].phase \in Active)
    <3> SUFFICES ASSUME NEW k \in DOMAIN q.jobs, NEW l \in DOMAIN r.jobs \ DOMAIN q.jobs,
                        r.jobs[k].game = r.jobs[l].game, r.jobs[k].phase \in Active
                 PROVE  FALSE
      OBVIOUS
    <3>1. l - Len(q.jobs) \in DOMAIN order /\ q.jobs[k].game = order[l - Len(q.jobs)]
      BY <1>3, <1>7
    <3>2. Queues(q, q.jobs[k].game, list) BY <1>1, <3>1
    <3>3. k \in Busy(q, q.jobs[k].game) BY <1>7 DEF Busy
    <3> QED BY <3>2, <3>3 DEF Queues
  <2> QED BY <2>1, <2>2, <2>3
<1>11. ASSUME NEW g \in Games, q.baseline[g].on, r.baseline[g].on,
              r.baseline[g].build # q.baseline[g].build
       PROVE  \E i \in DOMAIN r.jobs : /\ r.jobs[i].game = g /\ r.jobs[i].phase \in Active
                                       /\ r.jobs[i].build = r.baseline[g].build
  <2>1. r.baseline[g] = Noted(q, g, list) BY <1>5
  <2>2. list[g].listed BY <1>11, <2>1 DEF Noted
  <2>3. Due(q, g, list)
    <3> SUFFICES ASSUME ~Due(q, g, list) PROVE FALSE OBVIOUS
    <3>1. r.baseline[g].build = list[g].build /\ Covering(g)
      BY <1>11, <2>1, <2>2 DEF Noted
    <3> QED BY <1>11, <3>1 DEF Due, Updated
  <2>4. Handled(q, g, list) /\ r.baseline[g].build = list[g].build
    BY <1>11, <2>1, <2>2, <2>3 DEF Noted
  <2>5. CASE Queues(q, g, list)
    <3>1. PICK i \in DOMAIN order : order[i] = g BY <1>1, <2>5
    <3>2. Len(q.jobs) + i \in DOMAIN r.jobs /\ r.jobs[Len(q.jobs) + i] = new(i)
      BY <1>6, <1>7, <3>1
    <3> QED BY <1>3, <2>4, <3>1, <3>2 DEF Active
  <2>6. CASE Handles(q, g, list[g].build)
    <3>1. PICK i \in DOMAIN q.jobs : /\ q.jobs[i].game = g /\ q.jobs[i].phase \in Active
                                     /\ q.jobs[i].build = list[g].build
      BY <2>6 DEF Handles, Busy
    <3>2. i \in DOMAIN r.jobs BY <1>6, <1>7
    <3> QED BY <1>7, <2>4, <3>1, <3>2
  <2> QED BY <2>4, <2>5, <2>6 DEF Handled
<1> QED BY <1>3, <1>6, <1>7, <1>9, <1>10, <1>11 DEF r

LEMMA ScanArrivesKeeps ==
    ASSUME DeskInv, ScanArrives
    PROVE  /\ DeskInv' /\ active' = active
           /\ \A g \in Games :
                 /\ queue.baseline[g].on /\ queue'.baseline[g].on
                 /\ queue'.baseline[g].build # queue.baseline[g].build
                 => \E i \in DOMAIN queue'.jobs :
                        /\ queue'.jobs[i].game = g /\ queue'.jobs[i].phase \in Active
                        /\ queue'.jobs[i].build = queue'.baseline[g].build
<1>1. scan \in [outcome : {"healthy", "warnings", "failed"}, list : Lists]
  BY DEF ScanArrives, DeskInv, DeskTypes
<1>2. queue' = queue \/ queue' = ObservedAll(queue, scan.list)
  BY DEF ScanArrives
<1>3. /\ queue' \in QueueTypes /\ Single(queue') /\ DOMAIN queue.jobs \subseteq DOMAIN queue'.jobs
      /\ \A i \in DOMAIN queue.jobs : queue'.jobs[i] = queue.jobs[i]
      /\ \A i \in DOMAIN queue'.jobs \ DOMAIN queue.jobs : queue'.jobs[i].phase = "waiting"
      /\ \A g \in Games :
            /\ queue.baseline[g].on /\ queue'.baseline[g].on
            /\ queue'.baseline[g].build # queue.baseline[g].build
            => \E i \in DOMAIN queue'.jobs :
                   /\ queue'.jobs[i].game = g /\ queue'.jobs[i].phase \in Active
                   /\ queue'.jobs[i].build = queue'.baseline[g].build
  <2>1. queue \in QueueTypes /\ Single(queue) /\ scan.list \in Lists /\ prefs \in PrefTypes
    BY <1>1 DEF DeskInv, DeskTypes
  <2>2. CASE queue' = queue BY <2>1, <2>2
  <2>3. CASE queue' = ObservedAll(queue, scan.list) BY <2>1, <2>3, ObservedTrue
  <2> QED BY <1>2, <2>2, <2>3
<1>4. saved' \in {saved, queue'}
  BY DEF ScanArrives
<1>5. seen' \in [games : Lists, healthy : BOOLEAN, busy : BOOLEAN]
  <2> DEFINE games == IF scan.outcome = "failed" THEN seen.games ELSE scan.list
             healthy == scan.outcome = "healthy" /\ ~Warned(queue, scan.list)
  <2>1. games \in Lists /\ healthy \in BOOLEAN BY <1>1 DEF DeskInv, DeskTypes
  <2>2. seen' = [seen EXCEPT !.games = games, !.healthy = healthy] BY DEF ScanArrives
  <2> HIDE DEF games, healthy
  <2> QED BY <2>1, <2>2 DEF DeskInv, DeskTypes
<1>6. DeskTypes'
  BY <1>3, <1>4, <1>5 DEF ScanArrives, Turns, DeskInv, DeskTypes, passes
<1>7. ThreadTrue'
  BY <1>3 DEF ScanArrives, Turns, DeskInv, ThreadTrue, ThreadHas, OnThread, passes
<1>8. RulesTrue' BY DEF ScanArrives, Turns, RulesTrue
<1>9. Single(saved)' BY <1>3, <1>4 DEF DeskInv, Single
<1> QED BY <1>3, <1>6, <1>7, <1>8, <1>9 DEF ScanArrives, DeskInv, Single

\* The orders.
LEMMA AnsweredKeeps ==
    ASSUME DeskInv, NEW q \in QueueTypes, Single(q), ThreadHas(q.jobs),
           NEW settings \in PrefTypes, NEW cancel \in BOOLEAN, shutdown' \in BOOLEAN,
           Answered(q, settings, cancel)
    PROVE  DeskInv' /\ queue'.baseline = q.baseline /\ (active = NoThread => active' = NoThread)
<1>1. /\ up /\ UNCHANGED <<up, world, seen, scan, passes>> /\ step' = "thread"
      /\ prefs' = settings /\ queue' = Ruled(q, prefs') /\ saved' = q
      /\ \/ active' = active
         \/ active # NoThread /\ active' = [active EXCEPT !.cancel = TRUE]
  BY DEF Answered, Turns
<1>2. saved' \in QueueTypes /\ Single(saved')
  BY <1>1
<1>3. prefs' \in PrefTypes
  BY <1>1
<1> QED BY <1>1, <1>2, <1>3, RulesKeep

LEMMA NoCommandKeeps ==
    ASSUME DeskInv, NoCommand
    PROVE  /\ DeskInv' /\ queue'.baseline = queue.baseline
           /\ active = NoThread => active' = NoThread
<1>1. /\ up /\ UNCHANGED <<up, world, seen, scan, passes>> /\ step' = "thread"
      /\ prefs' = prefs /\ queue' = Ruled(queue, prefs') /\ saved' \in {saved, queue'}
      /\ active' = active \/ (active # NoThread /\ active' = [active EXCEPT !.cancel = TRUE])
      /\ shutdown' = shutdown
  <2>1. Cancels(prefs) => active # NoThread BY DEF Cancels
  <2>2. active' = active \/ (active # NoThread /\ active' = [active EXCEPT !.cancel = TRUE])
    <3>1. active' = IF Cancels(prefs) THEN [active EXCEPT !.cancel = TRUE] ELSE active
      BY DEF NoCommand
    <3>2. CASE Cancels(prefs) BY <2>1, <3>1, <3>2
    <3>3. CASE ~Cancels(prefs) BY <3>1, <3>3
    <3> QED BY <3>2, <3>3
  <2>3. saved' \in {saved, queue'} /\ prefs' = prefs /\ queue' = Ruled(queue, prefs)
    BY DEF NoCommand
  <2>4. up /\ UNCHANGED <<up, world, seen, scan, passes, shutdown>> /\ step' = "thread"
    BY DEF NoCommand, Turns
  <2> QED BY <2>2, <2>3, <2>4
<1>2. /\ queue \in QueueTypes /\ Single(queue) /\ ThreadHas(queue.jobs)
      /\ prefs' \in PrefTypes /\ shutdown' \in BOOLEAN
  BY <1>1 DEF DeskInv, DeskTypes, ThreadTrue
<1>3. saved' \in QueueTypes /\ Single(saved')
  <2>1. queue' \in QueueTypes /\ Single(queue') BY <1>1, <1>2, RuledTrue
  <2> QED BY <1>1, <2>1 DEF DeskInv, DeskTypes
<1> QED BY <1>1, <1>2, <1>3, RulesKeep

LEMMA EnqueuedTrue ==
    ASSUME DeskInv, up, NEW g \in Games, NEW build \in Nat, NEW restore \in BOOLEAN
    PROVE  LET q == Enqueued(queue, g, build, restore)
           IN /\ q \in QueueTypes /\ Single(q) /\ ThreadHas(q.jobs)
              /\ q.baseline = queue.baseline
<1> DEFINE q == Enqueued(queue, g, build, restore)
           job == NewJob(g, build, restore, FALSE)
<1>1. queue \in QueueTypes /\ Single(queue) /\ ThreadHas(queue.jobs)
  BY DEF DeskInv, DeskTypes, ThreadTrue
<1>2. CASE Busy(queue, g) # {}
  BY <1>1, <1>2 DEF Enqueued
<1>3. CASE Busy(queue, g) = {}
  <2>1. job \in Job /\ job.phase = "waiting" /\ job.game = g
    BY DEF NewJob, Job, Active
  <2> HIDE DEF job
  <2>2. q = [queue EXCEPT !.jobs = Append(queue.jobs, job)]
    BY <1>3 DEF Enqueued, job
  <2> HIDE DEF q
  <2>3. Append(queue.jobs, job) \in Seq(Job)
    BY <1>1, <2>1 DEF QueueTypes
  <2>4. q \in QueueTypes /\ q.jobs = Append(queue.jobs, job) /\ q.baseline = queue.baseline
    BY <1>1, <2>2, <2>3 DEF QueueTypes
  <2>5. /\ DOMAIN queue.jobs = 1 .. Len(queue.jobs) /\ Len(queue.jobs) \in Nat
        /\ DOMAIN q.jobs = 1 .. (Len(queue.jobs) + 1)
        /\ \A i \in DOMAIN queue.jobs : q.jobs[i] = queue.jobs[i]
        /\ q.jobs[Len(queue.jobs) + 1] = job
    BY <1>1, <2>4 DEF QueueTypes
  <2>6. \A i \in DOMAIN q.jobs : i \in DOMAIN queue.jobs \/ q.jobs[i] = job
    BY <2>5
  <2>7. \A i \in DOMAIN queue.jobs : ~(queue.jobs[i].game = g /\ queue.jobs[i].phase \in Active)
    BY <1>3 DEF Busy
  <2>8. Single(q)
    <3>1. \A i, j \in DOMAIN q.jobs : i \notin DOMAIN queue.jobs /\ j \notin DOMAIN queue.jobs => i = j
      BY <2>5
    <3> QED BY <1>1, <2>1, <2>5, <2>6, <2>7, <3>1 DEF Single
  <2>9. ThreadHas(q.jobs)
    BY <1>1, <2>1, <2>5, <2>6 DEF ThreadHas, OnThread
  <2> QED BY <2>4, <2>8, <2>9 DEF q
<1> QED BY <1>2, <1>3

LEMMA EnqueueKeeps ==
    ASSUME DeskInv, NEW g \in Games, NEW restore \in BOOLEAN, Enqueue(g, restore)
    PROVE  /\ DeskInv' /\ queue'.baseline = queue.baseline
           /\ active = NoThread => active' = NoThread
<1>1. PICK build \in {world[g].build, world[g].build - 1} \ {0} :
        Answered(Enqueued(queue, g, build, restore), prefs, FALSE)
  BY DEF Enqueue
<1>2. build \in Nat
  <2>1. world[g].build \in Nat /\ world[g].build > 0 BY DEF Enqueue, DeskInv, DeskTypes
  <2> QED BY <1>1, <2>1
<1>3. up BY <1>1 DEF Answered, Turns
<1>4. shutdown' \in BOOLEAN /\ prefs \in PrefTypes BY DEF Enqueue, DeskInv, DeskTypes
<1> QED BY <1>1, <1>2, <1>3, <1>4, EnqueuedTrue, AnsweredKeeps

\* A job of the queue that is not on the thread gets another phase.
LEMMA PhaseKeeps ==
    ASSUME DeskInv, up, NEW i \in DOMAIN queue.jobs, NEW phase \in Active \cup Ended,
           NEW held \in BOOLEAN,
           NEW q, q = Rephased(queue, i, phase, held),
           \/ phase = queue.jobs[i].phase
           \/ /\ i # active.job /\ phase \notin OnThread
              /\ phase \in Active => Busy(queue, queue.jobs[i].game) \subseteq {i}
    PROVE  /\ q \in QueueTypes /\ Single(q) /\ ThreadHas(q.jobs)
           /\ q.baseline = queue.baseline
<1>1. queue \in QueueTypes /\ Single(queue) /\ ThreadHas(queue.jobs)
  BY DEF DeskInv, DeskTypes, ThreadTrue
<1>2. /\ q \in QueueTypes /\ DOMAIN q.jobs = DOMAIN queue.jobs /\ q.baseline = queue.baseline
      /\ q.jobs[i].phase = phase /\ q.jobs[i].game = queue.jobs[i].game
      /\ \A j \in DOMAIN queue.jobs : j # i => q.jobs[j] = queue.jobs[j]
  BY <1>1, PhaseSet
<1>3. Single(q)
  BY <1>1, <1>2 DEF Single, Busy
<1>4. ThreadHas(q.jobs)
  BY <1>1, <1>2 DEF ThreadHas
<1> QED BY <1>2, <1>3, <1>4

LEMMA JobOrderKeeps ==
    ASSUME DeskInv, NEW i \in DOMAIN queue.jobs, Pause(i) \/ Cancel(i) \/ Retry(i)
    PROVE  /\ DeskInv' /\ queue'.baseline = queue.baseline
           /\ active = NoThread => active' = NoThread
<1> DEFINE job == queue.jobs[i]
           set(phase, held) == Rephased(queue, i, phase, held)
<1>1. /\ job \in Job /\ queue \in QueueTypes /\ Single(queue) /\ ThreadHas(queue.jobs) /\ up
      /\ shutdown' \in BOOLEAN /\ prefs \in PrefTypes
  BY DEF DeskInv, DeskTypes, QueueTypes, ThreadTrue, Pause, Cancel, Retry, Answered, Turns
<1>2. CASE Pause(i)
  <2>1. [queue EXCEPT !.jobs[i].held = ~job.held] = set(job.phase, ~job.held)
    BY <1>1 DEF QueueTypes, Job, Rephased
  <2>2. Answered(set(job.phase, ~job.held), prefs, FALSE)
    BY <1>2, <2>1 DEF Pause
  <2>3. job.phase \in Active \cup Ended /\ (~job.held) \in BOOLEAN BY <1>1 DEF Job
  <2>4. LET q == set(job.phase, ~job.held)
        IN q \in QueueTypes /\ Single(q) /\ ThreadHas(q.jobs) /\ q.baseline = queue.baseline
    BY <1>1, <2>3, PhaseKeeps
  <2> HIDE DEF set
  <2> QED BY <1>1, <2>2, <2>4, AnsweredKeeps
<1>3. CASE Cancel(i)
  <2>1. CASE i = active.job
    BY <1>1, <1>3, <2>1, AnsweredKeeps DEF Cancel
  <2>2. CASE i # active.job
    <3>1. [queue EXCEPT !.jobs[i].phase = "cancelled"] = set("cancelled", job.held)
      BY <1>1 DEF QueueTypes, Job, Rephased
    <3>2. Answered(set("cancelled", job.held), prefs, FALSE)
      BY <1>3, <2>2, <3>1 DEF Cancel
    <3>3. job.held \in BOOLEAN BY <1>1 DEF Job
    <3>4. LET q == set("cancelled", job.held)
          IN q \in QueueTypes /\ Single(q) /\ ThreadHas(q.jobs) /\ q.baseline = queue.baseline
      BY <1>1, <2>2, <3>3, PhaseKeeps DEF Active, Ended, OnThread
    <3> HIDE DEF set
    <3> QED BY <1>1, <3>2, <3>4, AnsweredKeeps
  <2> QED BY <2>1, <2>2
<1>4. CASE Retry(i)
  <2>1. Retried(queue, i) = set("waiting", FALSE)
    BY <1>1 DEF Retried, QueueTypes, Job, Rephased
  <2>2. Answered(set("waiting", FALSE), prefs, FALSE)
    BY <1>4, <2>1 DEF Retry
  <2>3. i # active.job
    BY <1>1, <1>4 DEF Retry, ThreadHas, Ended, OnThread, DeskInv, DeskTypes, QueueTypes, NoThread
  <2>4. LET q == set("waiting", FALSE)
        IN q \in QueueTypes /\ Single(q) /\ ThreadHas(q.jobs) /\ q.baseline = queue.baseline
    BY <1>1, <1>4, <2>3, PhaseKeeps DEF Retry, Active, OnThread
  <2> HIDE DEF set
  <2> QED BY <1>1, <2>2, <2>4, AnsweredKeeps
<1> QED BY <1>2, <1>3, <1>4

LEMMA SettingsKeep ==
    ASSUME DeskInv, Settings
    PROVE  /\ DeskInv' /\ queue'.baseline = queue.baseline
           /\ active = NoThread => active' = NoThread
<1>1. prefs \in PrefTypes BY DEF DeskInv, DeskTypes
<1>2. PICK settings : /\ Answered(queue, settings, FALSE)
                      /\ \/ settings = [prefs EXCEPT !.paused = ~prefs.paused]
                         \/ settings = [prefs EXCEPT !.automatic = ~prefs.automatic]
                         \/ \E g \in Games : settings = [prefs EXCEPT !.excluded =
                                (prefs.excluded \cup {g}) \ (prefs.excluded \cap {g})]
  BY DEF Settings
<1>3. settings \in PrefTypes BY <1>1, <1>2 DEF PrefTypes
<1>4. up BY <1>2 DEF Answered, Turns
<1>5. queue \in QueueTypes /\ Single(queue) /\ ThreadHas(queue.jobs) /\ shutdown' \in BOOLEAN
  BY <1>4 DEF Settings, DeskInv, DeskTypes, ThreadTrue
<1> QED BY <1>2, <1>3, <1>5, AnsweredKeeps

LEMMA ShutdownKeeps ==
    ASSUME DeskInv, Shutdown
    PROVE  /\ DeskInv' /\ queue'.baseline = queue.baseline
           /\ active = NoThread => active' = NoThread
<1> DEFINE q == WaitingCancelled(queue)
           new(i) == IF Waiting(queue, i) THEN [queue.jobs[i] EXCEPT !.phase = "cancelled"]
                     ELSE queue.jobs[i]
           jobs == [i \in DOMAIN queue.jobs |-> new(i)]
<1>1. up BY DEF Shutdown, Answered, Turns
<1>2. /\ queue \in QueueTypes /\ Single(queue) /\ ThreadHas(queue.jobs) /\ prefs \in PrefTypes
      /\ shutdown' \in BOOLEAN
  BY <1>1 DEF Shutdown, DeskInv, DeskTypes, ThreadTrue
<1>3. ASSUME NEW i \in DOMAIN queue.jobs
      PROVE  /\ new(i) \in Job /\ new(i).game = queue.jobs[i].game
             /\ new(i) = queue.jobs[i] \/ (new(i).phase = "cancelled" /\ queue.jobs[i].phase = "waiting")
  <2>1. queue.jobs[i] \in Job BY <1>2 DEF QueueTypes
  <2> QED BY <2>1 DEF Job, Ended, Waiting
<1> HIDE DEF new
<1>4. /\ jobs \in Seq(Job) /\ DOMAIN jobs = DOMAIN queue.jobs
      /\ \A i \in DOMAIN queue.jobs : jobs[i] = new(i)
  BY <1>2, <1>3 DEF QueueTypes
<1>5. q = [queue EXCEPT !.jobs = jobs]
  BY DEF WaitingCancelled, new
<1> HIDE DEF jobs, q
<1>6. q \in QueueTypes /\ q.jobs = jobs /\ q.baseline = queue.baseline
  BY <1>2, <1>4, <1>5 DEF QueueTypes
<1>7. Single(q)
  BY <1>2, <1>3, <1>4, <1>6, FewerSingle DEF Active
<1>8. ThreadHas(q.jobs)
  BY <1>2, <1>3, <1>4, <1>6 DEF ThreadHas, OnThread
<1>9. Answered(q, prefs, TRUE)
  BY DEF Shutdown, q
<1> QED BY <1>2, <1>6, <1>7, <1>8, <1>9, AnsweredKeeps

LEMMA CommandsKeep ==
    ASSUME DeskInv, Commands
    PROVE  /\ DeskInv' /\ queue'.baseline = queue.baseline
           /\ active = NoThread => active' = NoThread
BY EnqueueKeeps, JobOrderKeeps, SettingsKeep, ShutdownKeeps DEF Commands

\* The job thread, as the loop sees it.
LEMMA OnlyPhase ==
    ASSUME NEW q \in QueueTypes, NEW i \in DOMAIN q.jobs, NEW phase \in Active \cup Ended
    PROVE  [q EXCEPT !.jobs[i].phase = phase] = Rephased(q, i, phase, q.jobs[i].held)
<1>1. q.jobs[i] \in Job BY DEF QueueTypes
<1> QED BY <1>1 DEF QueueTypes, Job, Rephased

LEMMA FollowsKeeps ==
    ASSUME DeskInv, Follows
    PROVE  DeskInv' /\ queue'.baseline = queue.baseline /\ active # NoThread
<1> DEFINE i == active.job
           phase == IF Halts THEN "paused" ELSE "running"
<1>1. /\ queue \in QueueTypes /\ Single(queue) /\ up /\ ThreadHas(queue.jobs)
      /\ active # NoThread /\ active \in Threads
      /\ i \in DOMAIN queue.jobs /\ queue.jobs[i].phase \in OnThread /\ queue.jobs[i].held \in BOOLEAN
  <2>1. /\ queue \in QueueTypes /\ Single(queue) /\ up /\ ThreadHas(queue.jobs)
        /\ active # NoThread /\ active \in Threads
    BY DEF Follows, Turns, DeskInv, DeskTypes, ThreadTrue
  <2>2. i \in DOMAIN queue.jobs /\ queue.jobs[i].phase \in OnThread
    BY <2>1 DEF ThreadHas
  <2>3. queue.jobs[i] \in Job BY <2>1, <2>2 DEF QueueTypes
  <2> QED BY <2>1, <2>2, <2>3 DEF Job
<1>2. phase \in OnThread /\ phase \in Active \cup Ended BY DEF OnThread, Active
<1>3. queue' = Rephased(queue, i, phase, queue.jobs[i].held)
  <2>1. queue' = [queue EXCEPT !.jobs[i].phase = phase] BY DEF Follows
  <2> HIDE DEF phase
  <2> QED BY <1>1, <1>2, <2>1, OnlyPhase
<1> HIDE DEF phase
<1>4. /\ queue' \in QueueTypes /\ DOMAIN queue'.jobs = DOMAIN queue.jobs
      /\ queue'.baseline = queue.baseline
      /\ queue'.jobs[i].phase = phase /\ queue'.jobs[i].game = queue.jobs[i].game
      /\ \A j \in DOMAIN queue.jobs : j # i => queue'.jobs[j] = queue.jobs[j]
  BY <1>1, <1>2, <1>3, PhaseSet
<1>5. Single(queue')
  BY <1>1, <1>4, FewerSingle DEF OnThread, Active
<1>6. \E pause \in BOOLEAN : active' = [active EXCEPT !.pause = pause]
  BY DEF Follows, Halts
<1>7. active' \in Threads /\ active'.job = i /\ active'.at = active.at /\ active' # NoThread
  BY <1>1, <1>6 DEF Threads, NoThread
<1>8. DeskTypes'
  BY <1>4, <1>7 DEF Follows, Turns, DeskInv, DeskTypes, passes
<1>9. ThreadTrue'
  BY <1>1, <1>2, <1>4, <1>7 DEF Follows, Turns, DeskInv, ThreadTrue, ThreadHas, passes
<1>10. RulesTrue' BY DEF Follows, Turns, RulesTrue
<1> QED BY <1>1, <1>4, <1>5, <1>8, <1>9, <1>10 DEF Follows, DeskInv, Single

\* The queue once the thread's end was taken in: nothing is on the thread.
LEMMA FinishedTrue ==
    ASSUME DeskInv, Manages
    PROVE  /\ Finished \in QueueTypes /\ Single(Finished)
           /\ Finished.baseline = queue.baseline /\ DOMAIN Finished.jobs = DOMAIN queue.jobs
           /\ \A j \in DOMAIN queue.jobs :
                 /\ Finished.jobs[j].phase \notin OnThread
                 /\ Finished.jobs[j].phase \in Active
                    => Finished.jobs[j] = queue.jobs[j] /\ ~Loses(queue.jobs[j], prefs)
<1>1. /\ up /\ step = "thread" /\ queue \in QueueTypes /\ Single(queue) /\ ThreadHas(queue.jobs)
      /\ \A j \in DOMAIN queue.jobs :
             queue.jobs[j].phase \in Active /\ j # active.job => ~Loses(queue.jobs[j], prefs)
  BY DEF Manages, DeskInv, DeskTypes, ThreadTrue, RulesTrue
<1>2. CASE active = NoThread
  <2>1. \A j \in DOMAIN queue.jobs : j # active.job
    BY <1>1, <1>2 DEF NoThread, QueueTypes
  <2> QED BY <1>1, <1>2, <2>1 DEF Finished, ThreadHas
<1>3. CASE active # NoThread
  <2> DEFINE i == active.job
  <2>1. i \in DOMAIN queue.jobs /\ queue.jobs[i].phase \in OnThread
    BY <1>1, <1>3 DEF ThreadHas
  <2>2. queue.jobs[i].held \in BOOLEAN
    <3>1. queue.jobs[i] \in Job BY <1>1, <2>1 DEF QueueTypes
    <3> QED BY <3>1 DEF Job
  <2>3. Outcome \in Ended
    BY <1>3 DEF Manages, Outcome, Ended
  <2>4. Finished = Rephased(queue, i, Outcome, queue.jobs[i].held)
    BY <1>1, <1>3, <2>1, <2>3, OnlyPhase DEF Finished
  <2>5. /\ Finished \in QueueTypes /\ DOMAIN Finished.jobs = DOMAIN queue.jobs
        /\ Finished.baseline = queue.baseline
        /\ Finished.jobs[i].phase = Outcome /\ Finished.jobs[i].game = queue.jobs[i].game
        /\ \A j \in DOMAIN queue.jobs : j # i => Finished.jobs[j] = queue.jobs[j]
    BY <1>1, <2>1, <2>2, <2>3, <2>4, PhaseSet
  <2>6. Single(Finished)
    BY <1>1, <2>1, <2>5, FewerSingle DEF OnThread, Active
  <2> QED BY <1>1, <2>1, <2>3, <2>5, <2>6 DEF ThreadHas, OnThread, Active, Ended
<1> QED BY <1>2, <1>3

LEMMA ManagesKeeps ==
    ASSUME DeskInv, Manages
    PROVE  /\ DeskInv' /\ queue'.baseline = queue.baseline
           /\ active' # NoThread =>
                 /\ prefs' = prefs /\ active'.job \in DOMAIN queue'.jobs
                 /\ ~Loses(queue'.jobs[active'.job], prefs)
<1>1. /\ up /\ prefs' = prefs /\ holder.by # "job"
      /\ UNCHANGED <<world, shutdown, seen, scan, holder, journal, folder>>
  BY DEF Manages, DeskInv, ThreadTrue, passes
<1>2. CASE /\ up' \in BOOLEAN /\ step' \in {"scan", step} /\ active' = NoThread /\ queue' = Finished
           /\ saved' \in {saved, queue'} /\ (up' => step' = "scan")
  <2>1. DeskTypes'
    BY <1>1, <1>2, FinishedTrue DEF DeskInv, DeskTypes
  <2>2. ThreadTrue'
    BY <1>1, <1>2, FinishedTrue DEF ThreadTrue, ThreadHas
  <2>3. RulesTrue' BY <1>2 DEF RulesTrue
  <2>4. Single(queue)' /\ Single(saved)' BY <1>2, FinishedTrue DEF DeskInv, Single
  <2> QED BY <1>2, <2>1, <2>2, <2>3, <2>4, FinishedTrue DEF DeskInv
<1>3. ASSUME NEW i \in StartsJob(Finished), up' = TRUE, step' = "scan",
             queue' = [Finished EXCEPT !.jobs[i].phase = "running"], saved' = queue',
             active' = [job |-> i, pause |-> FALSE, cancel |-> FALSE, at |-> "begin"]
      PROVE  /\ DeskInv' /\ queue'.baseline = queue.baseline
             /\ active'.job \in DOMAIN queue'.jobs
             /\ ~Loses(queue'.jobs[active'.job], prefs)
  <2>1. i \in DOMAIN Finished.jobs /\ Finished.jobs[i].phase = "waiting"
    BY DEF StartsJob, Ready, Waiting
  <2>2. Finished.jobs[i] \in Job /\ Finished.jobs[i].held \in BOOLEAN /\ i \in Nat \ {0}
    <3>1. Finished.jobs[i] \in Job /\ i \in Nat \ {0} BY <2>1, FinishedTrue DEF QueueTypes
    <3> QED BY <3>1 DEF Job
  <2>3. queue' = Rephased(Finished, i, "running", Finished.jobs[i].held)
    BY <1>3, <2>1, FinishedTrue, OnlyPhase DEF Active
  <2>4. /\ queue' \in QueueTypes /\ DOMAIN queue'.jobs = DOMAIN Finished.jobs
        /\ queue'.baseline = Finished.baseline
        /\ queue'.jobs[i].phase = "running" /\ queue'.jobs[i].game = Finished.jobs[i].game
        /\ \A j \in DOMAIN Finished.jobs : j # i => queue'.jobs[j] = Finished.jobs[j]
    BY <2>1, <2>2, <2>3, FinishedTrue, PhaseSet DEF Active
  <2>5. ~Loses(queue'.jobs[i], prefs)
    <3>1. ~Loses(Finished.jobs[i], prefs) BY <2>1, FinishedTrue DEF Active
    <3>2. queue'.jobs[i] = [Finished.jobs[i] EXCEPT !.phase = "running"]
      BY <1>3, <2>1, <2>2, FinishedTrue DEF QueueTypes
    <3>3. /\ queue'.jobs[i].restore = Finished.jobs[i].restore
          /\ queue'.jobs[i].game = Finished.jobs[i].game
          /\ queue'.jobs[i].automatic = Finished.jobs[i].automatic
      BY <2>2, <3>2 DEF Job
    <3> QED BY <3>1, <3>3 DEF Loses
  <2>6. Single(queue')
    BY <2>1, <2>4, FinishedTrue, FewerSingle DEF Active
  <2>7. active' \in Threads BY <1>3, <2>2 DEF Threads
  <2>8. DeskTypes'
    BY <1>1, <1>3, <2>4, <2>7 DEF DeskInv, DeskTypes
  <2>9. active' # NoThread /\ active'.at = "begin" /\ active'.job = i
    BY <1>3 DEF NoThread
  <2>10. ThreadTrue'
    BY <1>1, <1>3, <2>1, <2>4, <2>9, FinishedTrue DEF ThreadTrue, ThreadHas, OnThread
  <2>11. RulesTrue' BY <1>3 DEF RulesTrue
  <2>12. Single(queue)' /\ Single(saved)' BY <1>3, <2>6 DEF Single
  <2> QED BY <1>3, <2>1, <2>4, <2>5, <2>8, <2>9, <2>10, <2>11, <2>12, FinishedTrue DEF DeskInv
<1>4. \/ /\ up' \in BOOLEAN /\ step' \in {"scan", step} /\ active' = NoThread /\ queue' = Finished
         /\ saved' \in {saved, queue'} /\ (up' => step' = "scan")
      \/ \E i \in StartsJob(Finished) :
             /\ up' = TRUE /\ step' = "scan"
             /\ queue' = [Finished EXCEPT !.jobs[i].phase = "running"] /\ saved' = queue'
             /\ active' = [job |-> i, pause |-> FALSE, cancel |-> FALSE, at |-> "begin"]
  <2>1. CASE MayExit BY <2>1 DEF Manages
  <2>2. CASE ~MayExit /\ StartsJob(Finished) = {} BY <2>2 DEF Manages
  <2>3. CASE ~MayExit /\ StartsJob(Finished) # {} BY <2>3 DEF Manages
  <2> QED BY <2>1, <2>2, <2>3
<1> QED BY <1>1, <1>2, <1>3, <1>4

\* A step: the invariant, who moves a baseline, and who starts a job.
LEMMA DeskStep ==
    ASSUME DeskInv, [DesktopNext]_desktop
    PROVE  /\ DeskInv'
           /\ queue'.baseline = queue.baseline \/ ScanArrives \/ ~up
           /\ active = NoThread => active' = NoThread \/ Manages
<1>1. CASE ScanArrives BY <1>1, ScanArrivesKeeps
<1>2. CASE Looks \/ ScanStarts BY <1>2, ScanOthersKeep
<1>3. CASE NoCommand BY <1>3, NoCommandKeeps
<1>4. CASE Follows BY <1>4, FollowsKeeps
<1>5. CASE Manages BY <1>5, ManagesKeeps
<1>6. CASE Thread \/ ThreadFails BY <1>6, ThreadKeeps
<1>7. CASE Commands BY <1>7, CommandsKeep
<1>8. ASSUME NEW g \in Games, Updates(g) \/ Settles(g)
      PROVE  DeskInv' /\ UNCHANGED <<queue, active>>
  BY <1>8, WorldKeeps
<1>9. ASSUME (\E g \in Games : CommandBegins(g)) \/ CommandFile \/ CommandEnds \/ CommandStops
      PROVE  DeskInv' /\ UNCHANGED <<queue, active>>
  BY <1>9, CommandPassKeeps
<1>10. CASE Dies BY <1>10, DiesKeeps
<1>11. CASE Comes BY <1>11, ComesKeeps
<1>12. CASE UNCHANGED desktop
  <2>1. DeskTypes' BY <1>12 DEF desktop, coordinator, passes, DeskInv, DeskTypes
  <2> QED BY <1>12, <2>1, OthersQueue DEF desktop, coordinator, passes
<1> QED
  BY <1>1, <1>2, <1>3, <1>4, <1>5, <1>6, <1>7, <1>8, <1>9, <1>10, <1>11, <1>12
  DEF DesktopNext, Loop

\* A folder has one job that waits or runs, an update that was noted has a job of its
\* build, and no job starts against the preferences, for any number of games, jobs and
\* orders and any order of scans, edits, deaths and restarts (desktop_jobs.rs, Queue;
\* windows/coordinator.rs, run).
THEOREM OrdersKeptEver == DesktopSpec => OrdersKept
<1>1. DeskInv /\ [DesktopNext]_desktop => DeskInv'
  BY DeskStep
<1>2. DeskInv /\ [DesktopNext]_desktop =>
        [\A g \in Games :
            /\ up /\ up' /\ queue.baseline[g].on /\ queue'.baseline[g].on
            /\ queue'.baseline[g].build # queue.baseline[g].build
            => \E i \in DOMAIN queue'.jobs :
                   /\ queue'.jobs[i].game = g /\ queue'.jobs[i].phase \in Active
                   /\ queue'.jobs[i].build = queue'.baseline[g].build]_desktop
  BY DeskStep, ScanArrivesKeeps
<1>3. DeskInv /\ [DesktopNext]_desktop =>
        [active = NoThread /\ active' # NoThread
         => LET job == queue'.jobs[active'.job]
            IN (job.restore \/ job.game \notin prefs'.excluded)
               /\ (job.automatic => prefs'.automatic)]_desktop
  <2> SUFFICES ASSUME DeskInv, [DesktopNext]_desktop, active = NoThread, active' # NoThread
               PROVE  LET job == queue'.jobs[active'.job]
                      IN (job.restore \/ job.game \notin prefs'.excluded)
                         /\ (job.automatic => prefs'.automatic)
    OBVIOUS
  <2>1. prefs' = prefs /\ ~Loses(queue'.jobs[active'.job], prefs)
    BY DeskStep, ManagesKeeps
  <2> QED BY <2>1 DEF Loses
<1> QED
  BY <1>1, <1>2, <1>3, DeskInvInit, DeskInvGives, PTL
  DEF DesktopSpec, OrdersKept, UpdatesHandled, ExcludedNotStarted

-----------------------------------------------------------------------------
(***************************************************************************)
(* The replacement of a file on a Mac keeps the newest bytes.              *)
(*                                                                         *)
(* NewestKept is not inductive: what is deleted next depends on where the  *)
(* process stands and on what it and the journal remember.  The invariant  *)
(* ties the three: until the swap the file at the game's path is the one   *)
(* that was opened, and it is the newest; a journal names one version in   *)
(* two inodes; and a staging directory is only emptied when the newest     *)
(* bytes are under the path, unless the last write came too late.  What    *)
(* the launcher has open is one of the two files or has no name: a staged  *)
(* copy is open only after a swap, when a journal names it.                *)
(***************************************************************************)
Identities == [inode : {0, 1}, bytes : 0 .. Writes]
PassWork   == [at : Steps \ {"undo", "undone"}, original : Identities, before : 0 .. Writes]
RecoveryWork == [at : {"undo", "undone", "clear", "emptied"}]
Journal    == {r \in [original : Identities, candidate : Identities, hash : 0 .. Writes] :
                 /\ r.candidate.inode = 1 - r.original.inode
                 /\ r.original.bytes = r.hash /\ r.candidate.bytes = r.hash}

\* What each variable can hold.
MacTypes ==
    /\ source \in File /\ source.bytes <= written
    /\ staged = NoFile \/ /\ staged \in File /\ staged.bytes <= written
                          /\ staged.inode = 1 - source.inode
    /\ record = NoRecord \/ record \in Journal
    /\ work = Resting \/ work \in PassWork \/ work \in RecoveryWork
    /\ open \subseteq {0, 1, Gone} /\ late \in BOOLEAN
    /\ written \in 0 .. Writes /\ used \in 0 .. Passes /\ touched \in BOOLEAN

\* A pass before its journal: what it read is no newer than what is there.
BeforeJournal ==
    work.at \in {"open", "hashed", "copied", "checked"} =>
        /\ work \in PassWork /\ record = NoRecord
        /\ work.original.inode = source.inode
        /\ work.original.bytes <= source.bytes
        /\ work.at # "open" => work.original.bytes <= work.before /\ work.before <= source.bytes
        /\ work.at \in {"copied", "checked"} =>
               staged # NoFile /\ work.before <= staged.bytes
        /\ work.at = "checked" =>
               work.original.bytes = work.before /\ staged.bytes = work.before
\* Between the journal and the last look both files are there.
Journaled ==
    /\ work.at \in {"journaled", "swapped"} => work \in PassWork
    /\ work.at \in {"journaled", "swapped", "undo", "undone", "clear", "emptied"} =>
           record # NoRecord
    /\ work.at \in {"journaled", "swapped", "undo", "undone"} => staged # NoFile
    /\ work.at = "emptied" => staged = NoFile
\* What the launcher has open.
OpenFiles ==
    /\ open \subseteq {source.inode, staged.inode, Gone}
    /\ staged.inode \in open => staged # NoFile /\ record # NoRecord
\* Where the newest bytes are.
NewestPlace ==
    ~late =>
        /\ staged = NoFile \/ record = NoRecord => source.bytes = written
        /\ work.at \in {"undone", "clear", "emptied"} => source.bytes = written
        /\ work.at = "undo" => staged.bytes = written
        /\ source.bytes = written \/ staged.bytes = written

MacInv == MacTypes /\ BeforeJournal /\ Journaled /\ OpenFiles /\ NewestPlace

LEMMA MacInvInit == ReplaceInit => MacInv
<1> SUFFICES ASSUME ReplaceInit PROVE MacInv OBVIOUS
<1>1. source \in File /\ source.bytes = 0 /\ written = 0 /\ 0 \in 0 .. Writes /\ 0 \in 0 .. Passes
  BY ReplaceAssumption DEF ReplaceInit, File
<1>2. work = Resting /\ work.at = "rest" BY DEF ReplaceInit, Resting
<1>3. staged = NoFile /\ record = NoRecord /\ touched \in BOOLEAN BY DEF ReplaceInit
<1>4. used \in 0 .. Passes /\ open = {} /\ late = FALSE BY <1>1 DEF ReplaceInit
<1>5. written \in 0 .. Writes /\ source.bytes <= written BY <1>1
<1>6. MacTypes BY <1>1, <1>2, <1>3, <1>4, <1>5 DEF MacTypes
<1>7. BeforeJournal /\ Journaled BY <1>2 DEF BeforeJournal, Journaled
<1>8. OpenFiles BY <1>4 DEF OpenFiles
<1>9. NewestPlace BY <1>1, <1>2 DEF NewestPlace
<1> QED BY <1>6, <1>7, <1>8, <1>9 DEF MacInv

\* A staging directory that goes leaves what was open in it without a name.
LEMMA NothingStagedOpen ==
    ASSUME MacTypes, OpenFiles, Unstaged, source' = source
    PROVE  /\ staged' = NoFile /\ open' \subseteq {source'.inode, Gone} /\ OpenFiles'
           /\ open' \subseteq {0, 1, Gone}
<1>1. source.inode \in {0, 1} BY DEF MacTypes, File
<1>2. staged' = NoFile /\ staged'.inode = 9 BY DEF Unstaged, NoFile
<1>3. open' \subseteq {source.inode, Gone}
  BY DEF Unstaged, OpenFiles
<1> QED BY <1>1, <1>2, <1>3 DEF OpenFiles, Gone

\* An error, at the end of a pass that cannot go on, loses nothing.
LEMMA FailureKeeps ==
    ASSUME MacInv, (Fails(TRUE) /\ record = NoRecord) \/ Fails(FALSE)
    PROVE  MacInv'
<1>2. /\ source' = source /\ record' = record /\ written' = written /\ late' = late
      /\ used' = used /\ touched' = touched
  BY DEF Fails
<1>1. /\ work' = Resting /\ staged' \in {staged, NoFile}
      /\ staged' = NoFile /\ ~late => source.bytes = written
      /\ OpenFiles' /\ open' \subseteq {0, 1, Gone}
  <2>1. CASE Fails(TRUE) /\ record = NoRecord
    BY <2>1, <1>2, NothingStagedOpen DEF MacInv, NewestPlace, Fails
  <2>2. CASE Fails(FALSE)
    <3>1. work' = Resting /\ staged' = staged /\ open' = open BY <2>2 DEF Fails
    <3>2. OpenFiles' /\ open' \subseteq {0, 1, Gone}
      BY <3>1, <1>2 DEF MacInv, MacTypes, OpenFiles
    <3>3. staged' = NoFile /\ ~late => source.bytes = written BY <3>1 DEF MacInv, NewestPlace
    <3> QED BY <3>1, <3>2, <3>3
  <2> QED BY <2>1, <2>2
<1>3. MacTypes' BY <1>1, <1>2 DEF MacInv, MacTypes
<1>4. BeforeJournal' /\ Journaled' BY <1>1 DEF BeforeJournal, Journaled, Resting
<1>5. NewestPlace' BY <1>1, <1>2 DEF MacInv, NewestPlace, Resting
<1> QED BY <1>1, <1>3, <1>4, <1>5 DEF MacInv

\* A write is to the file at the path, to a file that a journal names, or it is late.
LEMMA WriteKeeps ==
    ASSUME MacInv, NEW inode \in {0, 1, Gone}, Write(inode)
    PROVE  MacInv'
<1>1. /\ written' = written + 1 /\ touched' = TRUE /\ late' = TooLate(inode)
      /\ record' = record /\ work' = work /\ open' = open /\ used' = used
      /\ inode \in open /\ written < Writes
  BY DEF Write
<1>2. written + 1 \in 0 .. Writes /\ written \in Nat /\ TooLate(inode) \in BOOLEAN
  <2>1. written + 1 \in 0 .. Writes /\ written \in Nat
    <3>1. written \in 0 .. Writes BY DEF MacInv, MacTypes
    <3> QED BY <3>1, <1>1, ReplaceAssumption
  <2>2. TooLate(inode) \in BOOLEAN BY Zenon DEF TooLate
  <2> QED BY <2>1, <2>2
<1>3. /\ source.inode \in {0, 1} /\ source \in File
      /\ staged = NoFile \/ (staged \in File /\ staged.inode = 1 - source.inode)
      /\ staged.inode # source.inode /\ Gone \notin {source.inode, staged.inode}
  BY DEF MacInv, MacTypes, File, NoFile, Gone
<1>4. inode \in {source.inode, staged.inode, Gone}
      /\ (inode = staged.inode => staged # NoFile /\ record # NoRecord)
  BY <1>1 DEF MacInv, OpenFiles
<1>5. /\ source' = IF inode = source.inode THEN Rewritten(source) ELSE source
      /\ staged' = IF inode = staged.inode THEN Rewritten(staged) ELSE staged
  BY DEF Write
<1>6. \A file \in File : /\ Rewritten(file) \in File /\ Rewritten(file).inode = file.inode
                         /\ Rewritten(file).bytes = written + 1
  BY <1>2 DEF Rewritten, File
<1>7. /\ source' \in File /\ source'.inode = source.inode
      /\ source'.bytes = IF inode = source.inode THEN written + 1 ELSE source.bytes
  BY <1>3, <1>5, <1>6
<1>8. /\ staged' = NoFile <=> staged = NoFile
      /\ staged # NoFile => staged' \in File
      /\ staged'.inode = staged.inode
      /\ staged'.bytes = IF inode = staged.inode THEN written + 1 ELSE staged.bytes
      /\ record = NoRecord => staged' = staged
  <2>1. CASE inode = staged.inode
    <3>1. staged \in File /\ staged' = Rewritten(staged) BY <2>1, <1>3, <1>4, <1>5
    <3>2. staged' \in File /\ staged'.inode = staged.inode /\ staged'.bytes = written + 1
      BY <3>1, <1>6
    <3>3. staged' # NoFile BY <3>2 DEF File, NoFile
    <3> QED BY <2>1, <3>2, <3>3, <1>4
  <2>2. CASE inode # staged.inode BY <2>2, <1>5, <1>3
  <2> QED BY <2>1, <2>2
<1>9. /\ source.bytes <= source'.bytes /\ source'.bytes <= written'
      /\ staged # NoFile => staged.bytes <= staged'.bytes /\ staged'.bytes <= written'
      /\ source.bytes \in Nat /\ (staged # NoFile => staged.bytes \in Nat)
  BY <1>1, <1>2, <1>3, <1>7, <1>8 DEF MacInv, MacTypes, File
<1>10. MacTypes'
  BY <1>1, <1>2, <1>3, <1>7, <1>8, <1>9 DEF MacInv, MacTypes
<1>11. BeforeJournal'
  <2> SUFFICES ASSUME work.at \in {"open", "hashed", "copied", "checked"} PROVE BeforeJournal'
    BY <1>1 DEF BeforeJournal
  <2>1. record = NoRecord /\ staged' = staged BY <1>8 DEF MacInv, BeforeJournal
  <2>2. work \in PassWork /\ work.before \in Nat /\ work.original.bytes \in Nat
    BY ReplaceAssumption DEF MacInv, BeforeJournal, PassWork, Identities
  <2> QED BY <2>1, <2>2, <1>1, <1>7, <1>9, <1>2 DEF MacInv, BeforeJournal
<1>12. Journaled' BY <1>1, <1>8 DEF MacInv, Journaled
<1>13. OpenFiles' BY <1>1, <1>7, <1>8 DEF MacInv, OpenFiles
<1>14. NewestPlace'
  <2> SUFFICES ASSUME ~TooLate(inode) PROVE NewestPlace' BY <1>1 DEF NewestPlace
  <2>1. inode # Gone BY DEF TooLate
  <2>2. CASE inode = source.inode
    <3>1. source'.bytes = written' /\ work.at # "undo"
      BY <2>2, <1>1, <1>7 DEF TooLate
    <3> QED BY <3>1, <1>1 DEF NewestPlace
  <2>3. CASE inode = staged.inode
    <3>1. staged'.bytes = written' /\ staged' # NoFile /\ record # NoRecord /\ staged # NoFile
      BY <2>3, <1>1, <1>4, <1>8
    <3>2. work.at \notin {"undone", "clear", "emptied"}
      BY <2>3, <3>1 DEF TooLate, MacInv, Journaled
    <3> QED BY <3>1, <3>2, <1>1 DEF NewestPlace
  <2> QED BY <1>4, <2>1, <2>2, <2>3
<1> QED BY <1>10, <1>11, <1>12, <1>13, <1>14 DEF MacInv

LEMMA MacInvStep == MacInv /\ [ReplaceNext]_replace => MacInv'
<1> SUFFICES ASSUME MacInv, [ReplaceNext]_replace PROVE MacInv'
  OBVIOUS
<1>1. CASE \E inode \in {0, 1, Gone} : Write(inode) BY <1>1, WriteKeeps
<1> USE DEF MacInv, MacTypes, BeforeJournal, Journaled, OpenFiles, NewestPlace, File, Identities,
            PassWork, RecoveryWork, Journal, Resting, Identity, Hash, Steps
<1>2. CASE \E restore \in BOOLEAN : Opens(restore)
  <2>1. /\ work' = [at |-> "open", original |-> Identity(source), before |-> 0]
        /\ record = NoRecord /\ used + 1 \in 0 .. Passes /\ Unstaged
        /\ UNCHANGED <<source, record, written, late>> /\ used' = used + 1 /\ touched' = FALSE
    BY <1>2, ReplaceAssumption DEF Opens
  <2>2. work' \in PassWork BY <2>1, ReplaceAssumption
  <2>3. staged' = NoFile /\ OpenFiles' /\ open' \subseteq {0, 1, Gone} BY <2>1, NothingStagedOpen
  <2>4. MacTypes' BY <2>1, <2>2, <2>3
  <2>5. BeforeJournal' BY <2>1, <2>2, ReplaceAssumption
  <2> QED BY <2>1, <2>3, <2>4, <2>5
<1>3. CASE Hashes
  <2>1. /\ work.at = "open" /\ work' = [work EXCEPT !.at = "hashed", !.before = source.bytes]
        /\ UNCHANGED <<source, staged, record, open, written, late, used, touched>>
    BY <1>3 DEF Hashes
  <2>2. work' \in PassWork /\ work'.at = "hashed" BY <2>1, ReplaceAssumption
  <2>3. MacTypes' BY <2>1, <2>2
  <2> QED BY <2>1, <2>2, <2>3
<1>4. CASE Copies
  <2>1. /\ work.at = "hashed" /\ work' = [work EXCEPT !.at = "copied"]
        /\ staged' = [inode |-> 1 - source.inode, bytes |-> source.bytes, packed |-> ~source.packed]
        /\ UNCHANGED <<source, record, open, written, late, used, touched>>
    BY <1>4 DEF Copies, Goes
  <2>2. record = NoRecord /\ open \subseteq {source.inode, Gone} BY <2>1
  <2>3. /\ staged' \in File /\ staged' # NoFile /\ staged'.inode = 1 - source.inode
        /\ staged'.inode \notin {source.inode, Gone} /\ staged'.bytes = source.bytes
    BY <2>1 DEF NoFile, Gone
  <2>4. OpenFiles' BY <2>1, <2>2, <2>3
  <2>5. work' \in PassWork BY <2>1
  <2>6. MacTypes' BY <2>1, <2>3, <2>5
  <2>7. BeforeJournal' BY <2>1, <2>2, <2>3, <2>5
  <2>8. NewestPlace' BY <2>1, <2>2, <2>3
  <2> QED BY <2>1, <2>4, <2>6, <2>7, <2>8
<1>5. CASE Declines BY <1>5, FailureKeeps DEF Declines
<1>6. CASE Checks BY <1>6 DEF Checks, Goes, SameBytes, Unmoved
<1>7. CASE Changed BY <1>7, FailureKeeps DEF Changed
<1>8. CASE Journals BY <1>8 DEF Journals, Goes, NoRecord, NoFile
<1>9. CASE Swaps BY <1>9 DEF Swaps, Swapped, Exchanged, Goes, NoFile
<1>10. CASE Verifies BY <1>10 DEF Verifies, Goes, Published
<1>11. CASE Retains BY <1>11, FailureKeeps DEF Retains
<1>12. CASE Empties
  <2>1. /\ work' = [work EXCEPT !.at = "emptied"] /\ work.at = "clear" /\ Unstaged
        /\ UNCHANGED <<source, record, written, late, used, touched>>
    BY <1>12 DEF Empties, Goes
  <2>2. staged' = NoFile /\ OpenFiles' /\ open' \subseteq {0, 1, Gone} BY <2>1, NothingStagedOpen
  <2> QED BY <2>1, <2>2
<1>13. CASE Clears BY <1>13 DEF Clears, NoFile
<1>14. CASE Reviews
  <2>1. /\ record # NoRecord /\ staged # NoFile /\ used' = used + 1 /\ used + 1 \in 0 .. Passes
        /\ UNCHANGED <<source, staged, record, open, written, late, touched>>
    BY <1>14, ReplaceAssumption DEF Reviews
  <2>2. work' \in {[at |-> "clear"], [at |-> "undo"]} BY <1>14 DEF Reviews
  <2>3. ~late => source.bytes = written /\ staged.bytes = written
    BY <1>14, <2>1 DEF Reviews, NotSwapped, JustSwapped
  <2>4. MacTypes' BY <2>1, <2>2
  <2> QED BY <2>1, <2>2, <2>3, <2>4
<1>15. CASE Undoes BY <1>15 DEF Undoes, Swapped, Exchanged, Goes, NoFile
<1>16. CASE Confirms BY <1>16 DEF Confirms, Goes
<1>17. CASE RetainsAll BY <1>17, FailureKeeps DEF RetainsAll
<1>18. CASE Killed BY <1>18 DEF Killed
<1>19. CASE UNCHANGED replace BY <1>19 DEF replace
<1>20. CASE OpensPath
  <2>1. /\ open' = open \cup {source.inode}
        /\ UNCHANGED <<source, staged, record, work, written, late, used, touched>>
    BY <1>20 DEF OpensPath
  <2>2. source.inode \in {0, 1} /\ staged.inode # source.inode BY DEF NoFile
  <2>3. OpenFiles' /\ open' \subseteq {0, 1, Gone} BY <2>1, <2>2
  <2> QED BY <2>1, <2>3
<1>21. CASE Closes BY <1>21 DEF Closes
<1> QED
  BY <1>1, <1>2, <1>3, <1>4, <1>5, <1>6, <1>7, <1>8, <1>9, <1>10, <1>11, <1>12, <1>13, <1>14,
     <1>15, <1>16, <1>17, <1>18, <1>19, <1>20, <1>21
  DEF ReplaceNext

\* The bytes a launcher wrote last are never deleted, for any number of writes, passes,
\* deaths and recoveries and whatever the launcher keeps open, except in the two windows
\* NewestKept names (macos.rs, stage, recover_original, clear_record).
THEOREM NewestKeptEver == ReplaceSpec => []NewestKept
<1>1. MacInv => NewestKept
  BY DEF MacInv, MacTypes, NewestPlace, NewestKept, ReplaceOK, File, NoFile, Journal, PassWork,
         RecoveryWork, Steps, Identities
<1>2. MacInv /\ [ReplaceNext]_replace => MacInv'
  BY MacInvStep
<1> QED BY <1>1, <1>2, MacInvInit, PTL DEF ReplaceSpec

================================================================================

------------------------------- MODULE Maintenance -----------------------------
(***************************************************************************)
(* What the coordinator starts without being asked: a scan finds the games *)
(* and their builds, an unseen build of an idle game in an automatic       *)
(* library is compressed, and the update layer of an activated store is    *)
(* folded in and the version it replaced deleted once the game was played. *)
(*                                                                         *)
(* The pass after a finished scan is cut where the process can die: after  *)
(* the jobs are queued and saved, and before what was seen is saved.  The  *)
(* scan is a picture of the launchers that may be old when it is used.     *)
(***************************************************************************)
EXTENDS Naturals, FiniteSets

CONSTANTS
    Games,       \* games in the one library of the model, each in its own folder
    MaxBuild,    \* bound: builds of a game; 0 stands for "no build number"
    Faults       \* bound: how often things may happen, budgets of which a behaviour has one

\* "crash" the process dies, "refuse" a job cannot be queued, "job" one fails or is
\* cancelled, "scan" a scan misses games or dies, "order" a client asks for something.
FaultKinds == {"crash", "refuse", "job", "scan", "order"}

ASSUME MaintenanceAssumption ==
    /\ MaxBuild \in Nat /\ IsFiniteSet(Games)
    /\ Faults \subseteq [FaultKinds -> Nat]

VARIABLES
    world,      \* per game: what the launcher's files say, and whether it runs
    automatic,  \* the library has maintenance on
    packs,      \* per game: the install record of its store, or NoStore
    jobs,       \* per game and task: the phase of the newest job
    scan,       \* the scan thread: its phase and the list it read
    games,      \* the list of the last finished scan
    discovered, \* the list clients see: batches update it early
    gaming,     \* the game the last check saw running, or NoGame
    known,      \* Observations in memory: the stamp of each game, or Unseen
    upkeep,     \* Upkeep in memory: the record of each store, or Unseen
    rows,       \* settings rows 2 and 7: both as last saved
    initialized,
    stage,      \* where the pass is; "down" when no coordinator runs
    faults,
    handled,    \* history: builds a job was asked for, or a baseline recorded
    played      \* history: the game ran since its last compaction

memory  == <<scan, games, discovered, gaming, known, upkeep, initialized>>
history == <<handled, played>>
vars == <<world, automatic, packs, jobs, memory, rows, stage, faults, history>>

Unseen  == [seen |-> FALSE]
NoStore == [phase |-> "none"]
NoGame  == "none"
NoList  == [g \in {} |-> Unseen]
Tasks   == {"compress", "compact", "prune"}
Active  == {"queued", "running"}

Stamps == [build : 0 .. MaxBuild, idle : BOOLEAN]
Stamp(g, list, on) == [seen |-> TRUE, build |-> list[g].build, idle |-> list[g].idle,
                       enabled |-> on]

TypeOK ==
    /\ world \in [Games -> [build : 0 .. MaxBuild, idle : BOOLEAN, running : BOOLEAN,
                            layer : {"empty", "small", "large"}]]
    /\ automatic \in BOOLEAN /\ initialized \in BOOLEAN
    /\ packs \in [Games -> {NoStore} \cup [phase : {"mounted", "attention"},
                                           backup : BOOLEAN, previous : BOOLEAN]]
    /\ jobs \in [Games -> [Tasks -> Active \cup {"none", "done", "failed"}]]
    /\ scan.phase \in {"none", "reading", "read", "cancelled"}
    /\ \A list \in {games, discovered, scan.list} :
         DOMAIN list \subseteq Games /\ \A g \in DOMAIN list : list[g] \in Stamps
    /\ gaming \in Games \cup {NoGame}
    /\ \A book \in {upkeep, rows.upkeep} :
         book \in [Games -> {Unseen} \cup [seen : BOOLEAN, build : 0 .. MaxBuild, played : BOOLEAN]]
    /\ \A book \in {known, rows.known} :
         book \in [Games -> {Unseen} \cup [seen : BOOLEAN, build : 0 .. MaxBuild, idle : BOOLEAN,
                                          enabled : BOOLEAN]]
    /\ stage \in {"down", "loop", "observe", "seen", "fold", "folded"}
    /\ faults \in [FaultKinds -> Nat]
    /\ handled \in [Games -> SUBSET (0 .. MaxBuild)] /\ played \in [Games -> BOOLEAN]

Spend(kind) == /\ faults[kind] > 0
               /\ faults' = [faults EXCEPT ![kind] = @ - 1]

NotSeen == [g \in Games |-> Unseen]

Init ==
    /\ world = [g \in Games |-> [build |-> 0, idle |-> TRUE, running |-> FALSE,
                                 layer |-> "empty"]]
    /\ automatic \in BOOLEAN
    /\ packs \in [Games -> {NoStore, [phase |-> "attention", backup |-> TRUE,
                                      previous |-> FALSE]}]
    /\ jobs = [g \in Games |-> [t \in Tasks |-> "none"]]
    /\ scan = [phase |-> "none", list |-> NoList]
    /\ games = NoList /\ discovered = NoList /\ gaming = NoGame
    /\ known = NotSeen /\ upkeep = NotSeen /\ initialized = FALSE
    /\ rows = [known |-> NotSeen, upkeep |-> NotSeen]
    /\ stage = "down" /\ faults \in Faults
    /\ handled = [g \in Games |-> {}] /\ played = [g \in Games |-> FALSE]

--------------------------------------------------------------------------------
\* The launchers and the player, at any moment.

\* A launcher starts an update, showing the new build at once or at the end.
Updates(g) ==
    /\ \E new \in {world[g].build, world[g].build + 1} \cap (0 .. MaxBuild),
          size \in IF packs[g] = NoStore THEN {"empty"} ELSE {world[g].layer, "large"} :
         world' = [world EXCEPT ![g].idle = ~@, ![g].build = new, ![g].layer = size]
    /\ UNCHANGED <<automatic, packs, jobs, memory, rows, stage, faults, history>>

\* The game is started or left; what it wrote is in the layer.
Plays(g) ==
    /\ world' = [world EXCEPT ![g].running = ~@,
                   ![g].layer = IF world[g].running /\ packs[g] # NoStore /\ @ = "empty"
                                THEN "small" ELSE @]
    /\ played' = [played EXCEPT ![g] = TRUE]
    /\ UNCHANGED <<automatic, packs, jobs, memory, rows, stage, faults, handled>>

--------------------------------------------------------------------------------
\* Queueing.  A job is saved when it is queued, so a crash does not lose it.

Operation(task) == IF task = "compress" THEN {"compress"} ELSE {"compact", "prune"}
Busy(g, tasks) == \E task \in tasks : jobs[g][task] \in Active

\* enqueue_job for one game: it joins an active job of the operation, or is refused
\* (excluded, queue full, the folder cannot be opened), or is queued.
Queued(g, task, refused) ==
    IF refused \/ Busy(g, Operation(task)) THEN jobs
    ELSE [jobs EXCEPT ![g][task] = "queued"]

\* A client asks for the compaction or deletion the user interface offers.
ClientAsks(g) ==
    /\ stage = "loop" /\ Spend("order") /\ packs[g] # NoStore
    /\ \E task \in Tasks : jobs' = Queued(g, task, FALSE)
    /\ UNCHANGED <<world, automatic, packs, memory, rows, stage, history>>

\* The next job, of an idle game that discovery lists and while no game runs.
JobStarts(g, task) ==
    /\ stage = "loop" /\ jobs[g][task] = "queued"
    /\ \A h \in Games : ~\E t \in Tasks : jobs[h][t] = "running"
    /\ gaming = NoGame /\ g \in DOMAIN games /\ games[g].idle
    /\ jobs' = [jobs EXCEPT ![g][task] = "running"]
    /\ UNCHANGED <<world, automatic, packs, memory, rows, stage, faults, history>>

\* It fails or is interrupted, or its client cancels it.
JobFails(g, task) ==
    /\ stage = "loop" /\ jobs[g][task] \in Active /\ Spend("job")
    /\ \E end \in {"failed", "done"} : jobs' = [jobs EXCEPT ![g][task] = end]
    /\ UNCHANGED <<world, automatic, packs, memory, rows, stage, history>>

Possible(g, task) == /\ packs[g].phase = "mounted" /\ ~packs[g].backup
                     /\ packs[g].previous = (task = "prune")

Compacted(g) ==
    /\ packs' = [packs EXCEPT ![g].previous = TRUE]
    /\ world' = [world EXCEPT ![g].layer = "empty"]
    /\ played' = [played EXCEPT ![g] = world[g].running]

Pruned(g) ==
    /\ packs' = [packs EXCEPT ![g].previous = FALSE]
    /\ UNCHANGED <<world, played>>

\* A compaction keeps the version it replaced; one that finds nothing to do here
\* (no store any more, or the previous version still kept) fails.
JobEnds(g, task) ==
    /\ stage = "loop" /\ jobs[g][task] = "running"
    /\ \/ /\ task = "compress" /\ UNCHANGED <<packs, world, played>>
          /\ jobs' = [jobs EXCEPT ![g][task] = "done"]
       \/ /\ task = "compact" /\ Possible(g, task) /\ Compacted(g)
          /\ jobs' = [jobs EXCEPT ![g][task] = "done"]
       \/ /\ task = "prune" /\ Possible(g, task) /\ Pruned(g)
          /\ jobs' = [jobs EXCEPT ![g][task] = "done"]
       \/ /\ task # "compress" /\ ~Possible(g, task)
          /\ jobs' = [jobs EXCEPT ![g][task] = "failed"] /\ UNCHANGED <<packs, world, played>>
    /\ UNCHANGED <<automatic, memory, rows, stage, faults, handled>>

\* Storage commands change the record: activate, reclaim, restore; a mount dies
\* and is mounted again.
StoreChanges(g) ==
    /\ stage = "loop" /\ ~Busy(g, {"compact", "prune"})
    /\ \/ /\ packs[g] = NoStore /\ Spend("order")
          /\ packs' = [packs EXCEPT ![g] = [phase |-> "mounted", backup |-> TRUE,
                                            previous |-> FALSE]]
       \/ /\ packs[g] # NoStore /\ packs[g].backup /\ Spend("order")
          /\ packs' = [packs EXCEPT ![g].backup = FALSE]
       \/ packs[g] # NoStore /\ Spend("order") /\ packs' = [packs EXCEPT ![g] = NoStore]
       \/ /\ packs[g] # NoStore /\ packs[g].phase = "attention" /\ UNCHANGED faults
          /\ packs' = [packs EXCEPT ![g].phase = "mounted"]
       \/ /\ packs[g] # NoStore /\ packs[g].phase = "mounted" /\ Spend("job")
          /\ packs' = [packs EXCEPT ![g].phase = "attention"]
    /\ world' = [world EXCEPT ![g].layer = IF packs'[g] = NoStore THEN "empty" ELSE @]
    /\ UNCHANGED <<automatic, jobs, memory, rows, stage, history>>

--------------------------------------------------------------------------------
\* Scans.

ScanStarts ==
    /\ stage = "loop" /\ scan.phase = "none"
    /\ scan' = [phase |-> "reading", list |-> NoList]
    /\ UNCHANGED <<world, automatic, packs, jobs, games, discovered, gaming, known, upkeep,
                   initialized, rows, stage, faults, history>>

\* The thread reads the launchers; a source that cannot be read leaves out games.
ScanReads(found) ==
    /\ scan.phase = "reading"
    /\ IF found = Games THEN UNCHANGED faults ELSE Spend("scan")
    /\ scan' = [phase |-> "read", list |-> [g \in found |->
                  [build |-> world[g].build, idle |-> world[g].idle]]]
    /\ UNCHANGED <<world, automatic, packs, jobs, games, discovered, gaming, known, upkeep,
                   initialized, rows, stage, history>>

Over(new, old) == [g \in DOMAIN new \cup DOMAIN old |->
                     IF g \in DOMAIN new THEN new[g] ELSE old[g]]

ScanBatch ==
    /\ stage = "loop" /\ scan.phase = "read"
    /\ discovered' = Over(scan.list, discovered) /\ discovered' # discovered
    /\ UNCHANGED <<world, automatic, packs, jobs, scan, games, gaming, known, upkeep,
                   initialized, rows, stage, faults, history>>

CancelDiscovery ==
    /\ stage = "loop" /\ scan.phase \in {"reading", "read"} /\ Spend("order")
    /\ scan' = [phase |-> "cancelled", list |-> NoList]
    /\ UNCHANGED <<world, automatic, packs, jobs, games, discovered, gaming, known, upkeep,
                   initialized, rows, stage, history>>

\* Variant for a mutation: a cancelled scan is dropped with all its events.
ScanLostReading ==
    /\ stage = "loop" /\ scan.phase = "reading" /\ Spend("scan")
    /\ scan' = [phase |-> "none", list |-> NoList]
    /\ UNCHANGED <<world, automatic, packs, jobs, games, discovered, gaming, known, upkeep,
                   initialized, rows, stage, history>>

\* The thread ended without a list, or its list is dropped with the cancelled scan.
ScanLost ==
    /\ stage = "loop"
    /\ \/ scan.phase = "cancelled" /\ UNCHANGED faults
       \/ scan.phase = "reading" /\ Spend("scan")
    /\ scan' = [phase |-> "none", list |-> NoList]
    /\ UNCHANGED <<world, automatic, packs, jobs, games, discovered, gaming, known, upkeep,
                   initialized, rows, stage, history>>

\* The running-game check.  One game is shown, and its store with a replaced
\* version counts as played.
Checks(list, shown) ==
    LET seen == {g \in DOMAIN shown \cup {h \in Games : Busy(h, Tasks)} : world[g].running}
        Marks(g) == g = gaming' /\ g \in DOMAIN list /\ packs[g] # NoStore /\ packs[g].previous
    IN  /\ gaming' \in IF seen = {} THEN {NoGame} ELSE seen
        /\ upkeep' = [g \in Games |-> IF ~Marks(g) THEN upkeep[g]
                        ELSE IF upkeep[g].seen THEN [upkeep[g] EXCEPT !.played = TRUE]
                        ELSE [seen |-> TRUE, build |-> 0, played |-> TRUE]]

BusyCheck ==
    /\ stage = "loop" /\ Checks(games, discovered)
    /\ UNCHANGED <<world, automatic, packs, jobs, scan, games, discovered, known, initialized,
                   rows, stage, faults, history>>

\* A scan with warnings keeps the games it did not report.  The check follows.
ScanFinishes ==
    /\ stage = "loop" /\ scan.phase = "read"
    /\ games' = IF DOMAIN scan.list = Games THEN scan.list ELSE Over(scan.list, discovered)
    /\ discovered' = games' /\ Checks(games', games')
    /\ scan' = [phase |-> "none", list |-> NoList] /\ stage' = "observe"
    /\ UNCHANGED <<world, automatic, packs, jobs, known, initialized, rows, faults, history>>

--------------------------------------------------------------------------------
\* Maintenance: Observations::observe for every game of the list.

Observed(on) == [g \in Games |-> IF g \in DOMAIN games THEN Stamp(g, games, on) ELSE known[g]]

Settled(old, new) == old.build # new.build \/ ~old.idle

Due(g) == LET old == known[g]
              new == Stamp(g, games, automatic)
          IN  /\ g \in DOMAIN games /\ automatic /\ initialized /\ new.idle
              /\ old.seen => old.enabled /\ Settled(old, new)

\* A build first seen without maintenance is a baseline.
Baseline(g, on) == /\ g \in DOMAIN games /\ on
                   /\ IF known[g].seen THEN ~known[g].enabled ELSE ~initialized \/ ~automatic

Handles(asked) == handled' = [g \in Games |-> IF g \in asked THEN handled[g] \cup {games[g].build}
                                              ELSE handled[g]]

Observe ==
    /\ stage = "observe" /\ known' = Observed(automatic)
    /\ stage' = IF known' = known THEN "fold" ELSE "seen"
    /\ \E refused \in SUBSET {g \in Games : Due(g)} :
         /\ IF refused = {} THEN UNCHANGED faults ELSE Spend("refuse")
         /\ jobs' = [g \in Games |-> IF Due(g) THEN Queued(g, "compress", g \in refused)[g]
                                     ELSE jobs[g]]
    /\ Handles({g \in Games : Due(g) \/ Baseline(g, automatic)})
    /\ initialized' = TRUE
    /\ UNCHANGED <<world, automatic, packs, scan, games, discovered, gaming, upkeep, rows,
                   played>>

SaveKnown ==
    /\ stage = "seen" /\ stage' = "fold"
    /\ rows' = [rows EXCEPT !.known = known]
    /\ UNCHANGED <<world, automatic, packs, jobs, memory, faults, history>>

\* upkeep_due: the task a store is due, and the record with the first build noted.
DueTask(g, record) ==
    IF packs[g] = NoStore \/ packs[g].phase # "mounted" \/ packs[g].backup THEN "none"
    ELSE IF packs[g].previous THEN IF record.played THEN "prune" ELSE "none"
    ELSE IF \/ world[g].layer = "large"
            \/ /\ record.build # 0 /\ games[g].build # 0 /\ record.build # games[g].build
               /\ world[g].layer # "empty"
         THEN "compact" ELSE "none"

Noted(g, record) ==
    IF packs[g].phase = "mounted" /\ ~packs[g].backup /\ ~packs[g].previous /\ record.build = 0
    THEN [record EXCEPT !.build = games[g].build] ELSE record

\* run_upkeep: records of stores that are gone are dropped first; a task waits while
\* its game is busy and stays with the user after it failed.
RecordOf(g) == IF upkeep[g].seen THEN upkeep[g]
               ELSE [seen |-> TRUE, build |-> 0, played |-> FALSE]

Folds(g) == LET task == DueTask(g, RecordOf(g))
            IN  /\ task # "none" /\ games[g].idle
                /\ jobs[g][task] # "failed" /\ ~Busy(g, Tasks)

RunUpkeep ==
    /\ stage = "fold"
    /\ \E refused \in SUBSET {g \in DOMAIN games : Folds(g)} :
         /\ IF refused = {} THEN UNCHANGED faults ELSE Spend("refuse")
         /\ jobs' = [g \in Games |-> IF g \in DOMAIN games /\ Folds(g)
                      THEN Queued(g, DueTask(g, RecordOf(g)), g \in refused)[g] ELSE jobs[g]]
         /\ upkeep' = [g \in Games |->
              IF packs[g] = NoStore THEN Unseen
              ELSE IF g \notin DOMAIN games THEN upkeep[g]
              ELSE IF Folds(g) /\ g \notin refused /\ DueTask(g, RecordOf(g)) = "compact"
              THEN [seen |-> TRUE, build |-> games[g].build, played |-> FALSE]
              ELSE Noted(g, RecordOf(g))]
    /\ stage' = IF upkeep' = upkeep THEN "loop" ELSE "folded"
    /\ UNCHANGED <<world, automatic, packs, scan, games, discovered, gaming, known,
                   initialized, rows, history>>

\* Saved only when run_upkeep changed it: `played` alone is not written.
SaveUpkeep ==
    /\ stage = "folded" /\ stage' = "loop"
    /\ rows' = [rows EXCEPT !.upkeep = upkeep]
    /\ UNCHANGED <<world, automatic, packs, jobs, memory, faults, history>>

\* A client turns maintenance on or off; what is there now becomes the baseline.
SetAutomatic(on) ==
    /\ stage = "loop" /\ automatic # on /\ Spend("order")
    /\ automatic' = on /\ known' = Observed(on)
    /\ Handles({g \in Games : Baseline(g, on)})
    /\ rows' = [rows EXCEPT !.known = known']
    /\ UNCHANGED <<world, packs, jobs, scan, games, discovered, gaming, upkeep, initialized,
                   stage, played>>

--------------------------------------------------------------------------------
Crash ==
    /\ stage # "down" /\ Spend("crash") /\ stage' = "down"
    /\ scan' = [phase |-> "none", list |-> NoList]
    /\ games' = NoList /\ discovered' = NoList /\ gaming' = NoGame
    /\ known' = NotSeen /\ upkeep' = NotSeen /\ initialized' = FALSE
    /\ UNCHANGED <<world, automatic, packs, jobs, rows, history>>

\* Variant for a mutation: every start takes its first scan for a baseline.
OpensAfresh ==
    /\ stage = "down" /\ stage' = "loop"
    /\ known' = rows.known /\ upkeep' = rows.upkeep /\ initialized' = FALSE
    /\ jobs' = [g \in Games |-> [t \in Tasks |->
                  IF jobs[g][t] = "running" THEN "failed" ELSE jobs[g][t]]]
    /\ UNCHANGED <<world, automatic, packs, scan, games, discovered, gaming, rows, faults,
                   history>>

\* Rows are loaded; a job that was running is interrupted.
Opens ==
    /\ stage = "down" /\ stage' = "loop"
    /\ known' = rows.known /\ upkeep' = rows.upkeep
    /\ initialized' = \E g \in Games : rows.known[g].seen
    /\ jobs' = [g \in Games |-> [t \in Tasks |->
                  IF jobs[g][t] = "running" THEN "failed" ELSE jobs[g][t]]]
    /\ UNCHANGED <<world, automatic, packs, scan, games, discovered, gaming, rows, faults,
                   history>>

Pass == \/ ScanStarts \/ ScanReads(Games) \/ ScanLost \/ ScanFinishes \/ Opens
        \/ Observe \/ SaveKnown \/ RunUpkeep \/ SaveUpkeep

Next ==
    \/ Pass \/ ScanBatch \/ CancelDiscovery \/ BusyCheck \/ Crash
    \/ \E found \in SUBSET Games : ScanReads(found)
    \/ \E on \in BOOLEAN : SetAutomatic(on)
    \/ \E g \in Games : \/ Updates(g) \/ Plays(g) \/ ClientAsks(g) \/ StoreChanges(g)
                         \/ \E t \in Tasks : JobStarts(g, t) \/ JobFails(g, t) \/ JobEnds(g, t)

Spec == Init /\ [][Next]_vars /\ WF_vars(Pass)

--------------------------------------------------------------------------------
\* A build that the saved observations call seen, idle and maintained was the subject
\* of a job, or was there when maintenance began: a crash between the queue and the
\* observations never hides an update (service.rs, the pass after a finished scan).
NothingSkipped ==
    \A g \in Games : \A seen \in {rows.known[g], known[g]} :
        seen.seen /\ seen.idle /\ seen.enabled => seen.build \in handled[g]

\* The observations, in memory and saved, are well formed and hide no update.
UpkeepTrue == TypeOK /\ NothingSkipped

\* In an automatic library, a game that stays idle in a build has a job asked for it,
\* whatever scans were missed, cancelled or lost and wherever the process died.
UpdateQueued ==
    \A g \in Games, b \in 0 .. MaxBuild :
        LET Waits == automatic /\ world[g].idle /\ world[g].build = b
        IN  Waits ~> (~Waits \/ b \in handled[g])

\* "the previous version is deleted once the folded-in one has been played"
\* (service.rs, upkeep_due).  Upkeep asks for the deletion of the version a compaction
\* replaced only when the game ran after that compaction.
PruneAfterPlay ==
    [][\A g \in Games : RunUpkeep /\ jobs'[g]["prune"] = "queued" /\ jobs[g]["prune"] # "queued"
                       => played[g]]_vars

================================================================================

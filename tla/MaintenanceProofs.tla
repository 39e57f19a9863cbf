--------------------------- MODULE MaintenanceProofs ---------------------------
(***************************************************************************)
(* What is proved of the maintenance the coordinator does unasked.         *)
(*                                                                         *)
(* No update is hidden.  That a build shown as seen was handled is not     *)
(* inductive: it rests on when a stamp is written.  The first scan of a    *)
(* process that has no stamps makes a baseline, so stamps must not be      *)
(* there while it is expected; a switch of the library stamps what was     *)
(* scanned, so all of that must have been stamped before, as the library   *)
(* was; and a process that is down has scanned nothing.                    *)
(***************************************************************************)
EXTENDS Maintenance, TLAPS

Worlds  == [build : 0 .. MaxBuild, idle : BOOLEAN, running : BOOLEAN,
            layer : {"empty", "small", "large"}]
Packs   == {NoStore} \cup [phase : {"mounted", "attention"}, backup : BOOLEAN, previous : BOOLEAN]
Records == {Unseen} \cup [seen : BOOLEAN, build : 0 .. MaxBuild, played : BOOLEAN]
Known   == {Unseen} \cup [seen : BOOLEAN, build : 0 .. MaxBuild, idle : BOOLEAN, enabled : BOOLEAN]
Phases  == Active \cup {"none", "done", "failed"}
Listed(list) == DOMAIN list \subseteq Games /\ \A g \in DOMAIN list : list[g] \in Stamps

\* TypeOK by the parts an action may change.
MemoryTypes ==
    /\ scan.phase \in {"none", "reading", "read", "cancelled"}
    /\ Listed(games) /\ Listed(discovered) /\ Listed(scan.list)
    /\ gaming \in Games \cup {NoGame} /\ initialized \in BOOLEAN
    /\ upkeep \in [Games -> Records] /\ known \in [Games -> Known]
DiskTypes == rows \in [known : [Games -> Known], upkeep : [Games -> Records]]
GameTypes ==
    /\ world \in [Games -> Worlds] /\ automatic \in BOOLEAN /\ packs \in [Games -> Packs]
    /\ jobs \in [Games -> [Tasks -> Phases]]
    /\ handled \in [Games -> SUBSET (0 .. MaxBuild)] /\ played \in [Games -> BOOLEAN]
StageTypes ==
    /\ stage \in {"down", "loop", "observe", "seen", "fold", "folded"}
    /\ faults \in [FaultKinds -> Nat]

TypesHold == MemoryTypes /\ DiskTypes /\ GameTypes /\ StageTypes

\* A process that has seen anything does not take a scan for its first one.
StampsAfterStart == \A g \in Games : known[g].seen => initialized

\* Between the passes all that the last scan lists is stamped with the present choice.
ListStamped ==
    stage \notin {"down", "observe"} =>
        \A g \in DOMAIN games : known[g].seen /\ known[g].enabled = automatic

DownIsEmpty == stage = "down" => games = NoList

UpkeepInv == TypesHold /\ NothingSkipped /\ StampsAfterStart /\ ListStamped /\ DownIsEmpty

LEMMA TypesGiven == TypesHold => TypeOK
BY DEF TypeOK, TypesHold, MemoryTypes, DiskTypes, GameTypes, StageTypes, Listed, Worlds, Packs, Records, Known, Phases

LEMMA SpendTypes ==
    ASSUME TypesHold, NEW kind \in FaultKinds, Spend(kind) PROVE faults' \in [FaultKinds -> Nat]
BY DEF TypesHold, StageTypes, Spend

\* What neither stamps nor scans nor handles anything.
LEMMA TruthKeeps ==
    ASSUME UpkeepInv, UNCHANGED <<known, initialized, games, automatic, handled>>,
           rows'.known = rows.known \/ rows'.known = known,
           stage' = stage \/ (stage \notin {"down", "observe"} /\ stage' \notin {"down", "observe"}),
           TypesHold'
    PROVE  UpkeepInv'
<1>1. NothingSkipped' BY DEF UpkeepInv, NothingSkipped
<1>2. StampsAfterStart' BY DEF UpkeepInv, StampsAfterStart
<1>3. ListStamped' BY DEF UpkeepInv, ListStamped
<1>4. DownIsEmpty' BY DEF UpkeepInv, DownIsEmpty
<1> QED BY <1>1, <1>2, <1>3, <1>4 DEF UpkeepInv

LEMMA UpkeepInvInit == Init => UpkeepInv
<1> SUFFICES ASSUME Init PROVE UpkeepInv OBVIOUS
<1>1. NotSeen \in [Games -> Records] /\ NotSeen \in [Games -> Known] BY DEF NotSeen, Records, Known
<1>2. Listed(NoList) BY DEF NoList, Listed
<1>3. MemoryTypes BY <1>1, <1>2 DEF Init, MemoryTypes
<1>4. DiskTypes BY <1>1 DEF Init, DiskTypes
<1>5. GameTypes
  <2>1. 0 \in 0 .. MaxBuild BY MaintenanceAssumption
  <2>2. world \in [Games -> Worlds] BY <2>1 DEF Init, Worlds
  <2>3. packs \in [Games -> Packs]
    <3>1. [phase |-> "attention", backup |-> TRUE, previous |-> FALSE] \in Packs BY DEF Packs
    <3>2. NoStore \in Packs BY DEF Packs
    <3> QED BY <3>1, <3>2 DEF Init
  <2> QED BY <2>2, <2>3 DEF Init, GameTypes, Phases
<1>6. StageTypes BY MaintenanceAssumption DEF Init, StageTypes
<1>7. \A g \in Games : ~known[g].seen /\ ~rows.known[g].seen BY DEF Init, NotSeen, Unseen
<1>8. stage = "down" /\ games = NoList BY DEF Init
<1> QED BY <1>3, <1>4, <1>5, <1>6, <1>7, <1>8 DEF TypesHold, UpkeepInv, NothingSkipped, StampsAfterStart, ListStamped, DownIsEmpty

LEMMA LaunchersKeep == ASSUME UpkeepInv, NEW g \in Games, Updates(g) \/ Plays(g) PROVE UpkeepInv'
<1>1. world' \in [Games -> Worlds]
  <2>1. world \in [Games -> Worlds] BY DEF TypesHold, UpkeepInv, GameTypes
  <2>2. CASE Updates(g)
    <3>1. PICK new \in 0 .. MaxBuild, size \in {"empty", world[g].layer, "large"} :
            world' = [world EXCEPT ![g].idle = ~@, ![g].build = new, ![g].layer = size]
      BY <2>2 DEF Updates
    <3>2. world[g] \in Worlds BY <2>1
    <3>3. [world[g] EXCEPT !.idle = ~@, !.build = new, !.layer = size] \in Worlds
      BY <3>1, <3>2 DEF Worlds
    <3>4. world' = [world EXCEPT ![g] = [world[g] EXCEPT !.idle = ~@, !.build = new, !.layer = size]]
      BY <3>1
    <3> QED BY <2>1, <3>3, <3>4
  <2>3. CASE Plays(g)
    <3>1. PICK size \in {"small", world[g].layer} :
            world' = [world EXCEPT ![g].running = ~@, ![g].layer = size]
      BY <2>3 DEF Plays
    <3>2. world[g] \in Worlds BY <2>1
    <3>3. [world[g] EXCEPT !.running = ~@, !.layer = size] \in Worlds
      BY <3>1, <3>2 DEF Worlds
    <3>4. world' = [world EXCEPT ![g] = [world[g] EXCEPT !.running = ~@, !.layer = size]]
      BY <3>1
    <3> QED BY <2>1, <3>3, <3>4
  <2> QED BY <2>2, <2>3
<1>2. played' \in [Games -> BOOLEAN]
  BY DEF TypesHold, UpkeepInv, GameTypes, Updates, Plays, history
<1>3. UNCHANGED <<automatic, packs, jobs, scan, games, discovered, gaming, known, upkeep, initialized,
                  rows, stage, faults, handled>>
  BY DEF Updates, Plays, memory, history
<1>4. TypesHold' BY <1>1, <1>2, <1>3 DEF TypesHold, UpkeepInv, MemoryTypes, DiskTypes, GameTypes, StageTypes
<1> QED BY <1>3, <1>4, TruthKeeps

LEMMA QueuedTypes ==
    ASSUME TypesHold, NEW g \in Games, NEW task \in Tasks, NEW refused \in BOOLEAN
    PROVE  Queued(g, task, refused) \in [Games -> [Tasks -> Phases]]
BY DEF TypesHold, GameTypes, Queued, Phases, Active

LEMMA JobsKeep ==
    ASSUME UpkeepInv, NEW g \in Games, NEW task \in Tasks,
           ClientAsks(g) \/ JobStarts(g, task) \/ JobFails(g, task) \/ JobEnds(g, task)
    PROVE  UpkeepInv'
<1>1. /\ jobs \in [Games -> [Tasks -> Phases]] /\ packs \in [Games -> Packs] /\ world \in [Games -> Worlds]
      /\ played \in [Games -> BOOLEAN] /\ TypesHold /\ faults \in [FaultKinds -> Nat]
  BY DEF TypesHold, UpkeepInv, GameTypes, StageTypes
<1>2. jobs' \in [Games -> [Tasks -> Phases]]
  <2>1. CASE ClientAsks(g)
    <3>1. PICK t \in Tasks : jobs' = Queued(g, t, FALSE) BY <2>1 DEF ClientAsks
    <3> QED BY <1>1, <3>1, QueuedTypes
  <2>2. CASE JobStarts(g, task) BY <2>2, <1>1 DEF JobStarts, Phases, Active
  <2>3. CASE JobFails(g, task) BY <2>3, <1>1 DEF JobFails, Phases
  <2>4. CASE JobEnds(g, task)
    <3>1. PICK end \in {"done", "failed"} : jobs' = [jobs EXCEPT ![g][task] = end]
      BY <2>4 DEF JobEnds
    <3> QED BY <1>1, <3>1 DEF Phases
  <2> QED BY <2>1, <2>2, <2>3, <2>4
<1>3. /\ packs' \in [Games -> Packs] /\ world' \in [Games -> Worlds] /\ played' \in [Games -> BOOLEAN]
  <2>1. CASE ClientAsks(g) \/ JobStarts(g, task) \/ JobFails(g, task)
    BY <2>1, <1>1 DEF ClientAsks, JobStarts, JobFails, history
  <2>2. CASE JobEnds(g, task) /\ UNCHANGED <<packs, world, played>> BY <2>2, <1>1
  <2>3. CASE Possible(g, task) /\ Compacted(g)
    <3>1. packs[g] \in [phase : {"mounted", "attention"}, backup : BOOLEAN, previous : BOOLEAN]
      BY <1>1, <2>3 DEF Packs, NoStore, Possible
    <3>2. packs' \in [Games -> Packs] BY <1>1, <2>3, <3>1 DEF Compacted, Packs
    <3>3. world' \in [Games -> Worlds] BY <1>1, <2>3 DEF Compacted, Worlds
    <3>4. played' \in [Games -> BOOLEAN] BY <1>1, <2>3 DEF Compacted, Worlds
    <3> QED BY <3>2, <3>3, <3>4
  <2>4. CASE Possible(g, task) /\ Pruned(g)
    <3>1. packs[g] \in [phase : {"mounted", "attention"}, backup : BOOLEAN, previous : BOOLEAN]
      BY <1>1, <2>4 DEF Packs, NoStore, Possible
    <3>2. packs' \in [Games -> Packs] BY <1>1, <2>4, <3>1 DEF Pruned, Packs
    <3> QED BY <1>1, <2>4, <3>2 DEF Pruned
  <2> QED BY <2>1, <2>2, <2>3, <2>4 DEF JobEnds
<1>4. faults' \in [FaultKinds -> Nat]
  BY <1>1, SpendTypes DEF ClientAsks, JobStarts, JobFails, JobEnds, FaultKinds
<1>5. UNCHANGED <<automatic, scan, games, discovered, gaming, known, upkeep, initialized, rows, stage, handled>>
  BY DEF ClientAsks, JobStarts, JobFails, JobEnds, memory, history
<1>6. TypesHold'
  BY <1>2, <1>3, <1>4, <1>5 DEF TypesHold, UpkeepInv, MemoryTypes, DiskTypes, GameTypes, StageTypes
<1> QED BY <1>5, <1>6, TruthKeeps

LEMMA StoreChangesKeep == ASSUME UpkeepInv, NEW g \in Games, StoreChanges(g) PROVE UpkeepInv'
<1>1. packs \in [Games -> Packs] /\ world \in [Games -> Worlds] /\ TypesHold /\ faults \in [FaultKinds -> Nat]
  BY DEF TypesHold, UpkeepInv, GameTypes, StageTypes
<1>2. packs' \in [Games -> Packs] /\ faults' \in [FaultKinds -> Nat]
  <2>1. packs[g] # NoStore =>
          packs[g] \in [phase : {"mounted", "attention"}, backup : BOOLEAN, previous : BOOLEAN]
    BY <1>1 DEF Packs
  <2>2. "order" \in FaultKinds /\ "job" \in FaultKinds BY DEF FaultKinds
  <2>3. faults' \in [FaultKinds -> Nat] BY <1>1, <2>2, SpendTypes DEF StoreChanges
  <2>4. packs' \in [Games -> Packs]
    <3>1. CASE packs[g] = NoStore
      <4>1. [phase |-> "mounted", backup |-> TRUE, previous |-> FALSE] \in Packs BY DEF Packs
      <4>2. packs' = [packs EXCEPT ![g] = [phase |-> "mounted", backup |-> TRUE, previous |-> FALSE]]
        BY <3>1 DEF StoreChanges
      <4> QED BY <1>1, <4>1, <4>2
    <3>2. CASE packs[g] # NoStore
      <4>1. PICK new \in {NoStore, [packs[g] EXCEPT !.backup = FALSE],
                          [packs[g] EXCEPT !.phase = "mounted"], [packs[g] EXCEPT !.phase = "attention"]} :
              packs' = [packs EXCEPT ![g] = new]
        BY <3>2 DEF StoreChanges
      <4>2. new \in Packs BY <2>1, <3>2, <4>1 DEF Packs
      <4> QED BY <1>1, <4>1, <4>2
    <3> QED BY <3>1, <3>2
  <2> QED BY <2>3, <2>4
<1>3. world' \in [Games -> Worlds] BY <1>1 DEF StoreChanges, Worlds
<1>4. UNCHANGED <<automatic, jobs, scan, games, discovered, gaming, known, upkeep, initialized, rows, stage,
                  handled, played>>
  BY DEF StoreChanges, memory, history
<1>5. TypesHold'
  BY <1>2, <1>3, <1>4 DEF TypesHold, UpkeepInv, MemoryTypes, DiskTypes, GameTypes, StageTypes
<1> QED BY <1>4, <1>5, TruthKeeps

\* Scans, until their list is taken.
LEMMA ScansKeep ==
    ASSUME UpkeepInv,
           \/ ScanStarts \/ (\E found \in SUBSET Games : ScanReads(found)) \/ ScanBatch
           \/ CancelDiscovery \/ ScanLost
    PROVE  UpkeepInv'
<1>1. /\ TypesHold /\ Listed(discovered) /\ Listed(scan.list) /\ scan.phase \in {"none", "reading", "read", "cancelled"}
      /\ world \in [Games -> Worlds] /\ faults \in [FaultKinds -> Nat]
  BY DEF TypesHold, UpkeepInv, MemoryTypes, GameTypes, StageTypes
<1>2. Listed(NoList) BY DEF NoList, Listed
<1>3. faults' \in [FaultKinds -> Nat]
  BY <1>1, SpendTypes DEF ScanStarts, ScanReads, ScanBatch, CancelDiscovery, ScanLost, FaultKinds
<1>4. Listed(discovered)' /\ Listed(scan.list)' /\ scan'.phase \in {"none", "reading", "read", "cancelled"}
  <2>1. CASE ScanStarts \/ CancelDiscovery \/ ScanLost
    BY <2>1, <1>1, <1>2 DEF ScanStarts, CancelDiscovery, ScanLost, Listed
  <2>2. ASSUME NEW found \in SUBSET Games, ScanReads(found) PROVE Listed(scan'.list) /\ scan'.phase = "read"
    BY <2>2, <1>1 DEF ScanReads, Listed, Stamps, Worlds
  <2>3. CASE \E found \in SUBSET Games : ScanReads(found)
    BY <2>2, <2>3, <1>1 DEF ScanReads, Listed
  <2>4. CASE ScanBatch BY <2>4, <1>1 DEF ScanBatch, Listed, Over
  <2> QED BY <2>1, <2>3, <2>4
<1>5. UNCHANGED <<world, automatic, packs, jobs, games, gaming, known, upkeep, initialized, rows, stage,
                  handled, played>>
  BY DEF ScanStarts, ScanReads, ScanBatch, CancelDiscovery, ScanLost, history
<1>6. Listed(games)' BY <1>5 DEF TypesHold, UpkeepInv, MemoryTypes
<1>7. TypesHold'
  BY <1>3, <1>4, <1>5, <1>6 DEF TypesHold, UpkeepInv, MemoryTypes, DiskTypes, GameTypes, StageTypes
<1> QED BY <1>5, <1>7, TruthKeeps

LEMMA CheckTypes ==
    ASSUME TypesHold, NEW list, NEW shown, Listed(shown), Checks(list, shown)
    PROVE  gaming' \in Games \cup {NoGame} /\ upkeep' \in [Games -> Records]
<1> DEFINE seen == {g \in DOMAIN shown \cup {h \in Games : Busy(h, Tasks)} : world[g].running}
<1>1. upkeep \in [Games -> Records] BY DEF TypesHold, MemoryTypes
<1>2. gaming' \in IF seen = {} THEN {NoGame} ELSE seen BY DEF Checks
<1>3. seen \subseteq Games BY DEF Listed
<1>4. \A g \in Games : upkeep[g].seen => [upkeep[g] EXCEPT !.played = TRUE] \in Records
  BY <1>1 DEF Records, Unseen
<1>5. [seen |-> TRUE, build |-> 0, played |-> TRUE] \in Records
  BY MaintenanceAssumption DEF Records
<1>6. upkeep' \in [Games -> Records] BY <1>1, <1>4, <1>5 DEF Checks
<1> QED BY <1>2, <1>3, <1>6

LEMMA BusyCheckKeeps == ASSUME UpkeepInv, BusyCheck PROVE UpkeepInv'
<1>1. gaming' \in Games \cup {NoGame} /\ upkeep' \in [Games -> Records]
  BY CheckTypes DEF TypesHold, BusyCheck, UpkeepInv, MemoryTypes
<1>2. UNCHANGED <<world, automatic, packs, jobs, scan, games, discovered, known, initialized, rows, stage,
                  faults, handled, played>>
  BY DEF BusyCheck, history
<1>3. TypesHold' BY <1>1, <1>2 DEF TypesHold, UpkeepInv, MemoryTypes, DiskTypes, GameTypes, StageTypes, Listed
<1> QED BY <1>2, <1>3, TruthKeeps

LEMMA ScanFinishesKeeps == ASSUME UpkeepInv, ScanFinishes PROVE UpkeepInv'
<1>1. Listed(games')
  BY DEF TypesHold, ScanFinishes, UpkeepInv, MemoryTypes, Listed, Over
<1>2. gaming' \in Games \cup {NoGame} /\ upkeep' \in [Games -> Records]
  BY <1>1, CheckTypes DEF ScanFinishes, UpkeepInv
<1>3. /\ UNCHANGED <<world, automatic, packs, jobs, known, initialized, rows, faults, handled, played>>
      /\ discovered' = games' /\ stage' = "observe" /\ scan' = [phase |-> "none", list |-> NoList]
  BY DEF ScanFinishes, history
<1>4. Listed(NoList) BY DEF Listed, NoList
<1>5. MemoryTypes' BY <1>1, <1>2, <1>3, <1>4 DEF TypesHold, UpkeepInv, MemoryTypes, Listed
<1>6. TypesHold' BY <1>3, <1>5 DEF TypesHold, UpkeepInv, DiskTypes, GameTypes, StageTypes
<1> QED BY <1>3, <1>6
        DEF UpkeepInv, NothingSkipped, StampsAfterStart, ListStamped, DownIsEmpty

\* The stamps of a pass, and of a switch of the library.
LEMMA StampTypes ==
    ASSUME TypesHold, NEW on \in BOOLEAN
    PROVE  /\ Observed(on) \in [Games -> Known]
           /\ \A g \in DOMAIN games : /\ Observed(on)[g].seen /\ Observed(on)[g].enabled = on
                                      /\ Observed(on)[g].build = games[g].build
                                      /\ Observed(on)[g].idle = games[g].idle
                                      /\ g \in Games
           /\ \A g \in Games \ DOMAIN games : Observed(on)[g] = known[g]
<1>1. \A g \in DOMAIN games : Stamp(g, games, on) \in Known
  BY DEF TypesHold, MemoryTypes, Listed, Stamps, Stamp, Known
<1>2. known \in [Games -> Known] /\ DOMAIN games \subseteq Games BY DEF TypesHold, MemoryTypes, Listed
<1>3. Observed(on) \in [Games -> Known] BY <1>1, <1>2 DEF Observed
<1>4. \A g \in DOMAIN games : Observed(on)[g] = Stamp(g, games, on) BY <1>2 DEF Observed
<1> QED BY <1>2, <1>3, <1>4 DEF Observed, Stamp

\* Whatever is handled stays so.
LEMMA HandlesMore ==
    ASSUME TypesHold, NEW asked, asked \subseteq DOMAIN games, Handles(asked)
    PROVE  /\ handled' \in [Games -> SUBSET (0 .. MaxBuild)]
           /\ \A g \in Games : handled[g] \subseteq handled'[g]
           /\ \A g \in asked : games[g].build \in handled'[g]
<1>1. handled \in [Games -> SUBSET (0 .. MaxBuild)] /\ asked \subseteq Games
      /\ \A g \in asked : games[g].build \in 0 .. MaxBuild
  BY DEF TypesHold, GameTypes, MemoryTypes, Listed, Stamps
<1>2. \A g \in Games : handled'[g] = IF g \in asked THEN handled[g] \cup {games[g].build} ELSE handled[g]
  BY DEF Handles
<1>3. handled' \in [Games -> SUBSET (0 .. MaxBuild)] BY <1>1 DEF Handles
<1> QED BY <1>1, <1>2, <1>3

LEMMA ObserveKeeps == ASSUME UpkeepInv, Observe PROVE UpkeepInv'
<1> DEFINE asked == {g \in Games : Due(g) \/ Baseline(g, automatic)}
<1>1. automatic \in BOOLEAN /\ TypesHold /\ known \in [Games -> Known]
  BY DEF UpkeepInv, TypesHold, GameTypes, MemoryTypes
<1>2. /\ known' = Observed(automatic) /\ initialized' = TRUE /\ stage = "observe" /\ stage' \in {"fold", "seen"}
      /\ UNCHANGED <<world, automatic, packs, scan, games, discovered, gaming, upkeep, rows, played>>
  BY DEF Observe
<1>3. asked \subseteq DOMAIN games BY DEF Due, Baseline
<1>4. Handles(asked) BY DEF Observe
<1> HIDE DEF asked
<1>5. /\ handled' \in [Games -> SUBSET (0 .. MaxBuild)]
      /\ \A g \in Games : handled[g] \subseteq handled'[g]
      /\ \A g \in asked : games[g].build \in handled'[g]
  BY <1>1, <1>3, <1>4, HandlesMore
<1>6. /\ known' \in [Games -> Known]
      /\ \A g \in DOMAIN games : /\ known'[g].seen /\ known'[g].enabled = automatic
                                 /\ known'[g].build = games[g].build /\ known'[g].idle = games[g].idle
      /\ \A g \in Games \ DOMAIN games : known'[g] = known[g]
  BY <1>1, <1>2, StampTypes
<1>7. faults' \in [FaultKinds -> Nat] /\ jobs' \in [Games -> [Tasks -> Phases]]
  <2>1. PICK refused \in SUBSET {g \in Games : Due(g)} :
          /\ IF refused = {} THEN UNCHANGED faults ELSE Spend("refuse")
          /\ jobs' = [g \in Games |-> IF Due(g) THEN Queued(g, "compress", g \in refused)[g] ELSE jobs[g]]
    BY DEF Observe
  <2>2. faults' \in [FaultKinds -> Nat]
    BY <1>1, <2>1, SpendTypes DEF FaultKinds, TypesHold, StageTypes
  <2>3. \A g \in Games : Queued(g, "compress", g \in refused) \in [Games -> [Tasks -> Phases]]
    <3> SUFFICES ASSUME NEW g \in Games
                 PROVE  Queued(g, "compress", g \in refused) \in [Games -> [Tasks -> Phases]]
      OBVIOUS
    <3>1. "compress" \in Tasks /\ (g \in refused) \in BOOLEAN BY DEF Tasks
    <3> QED BY <1>1, <3>1, QueuedTypes
  <2> QED BY <1>1, <2>1, <2>2, <2>3 DEF TypesHold, GameTypes
<1>8. TypesHold'
  BY <1>1, <1>2, <1>5, <1>6, <1>7 DEF TypesHold, MemoryTypes, DiskTypes, GameTypes, StageTypes, Listed
<1>9. NothingSkipped'
  <2> SUFFICES ASSUME NEW g \in Games, NEW seen \in {rows.known[g], known'[g]},
                      seen.seen, seen.idle, seen.enabled
               PROVE  seen.build \in handled'[g]
    BY <1>2 DEF NothingSkipped
  <2>1. CASE seen = rows.known[g] \/ seen = known[g] BY <2>1, <1>5 DEF UpkeepInv, NothingSkipped
  <2>2. CASE g \in DOMAIN games /\ seen = known'[g]
    <3>1. games[g].idle /\ automatic /\ seen.build = games[g].build BY <1>6, <2>2
    <3>2. CASE g \in asked BY <1>5, <3>1, <3>2
    <3>3. CASE g \notin asked
      <4>1. ~Due(g) /\ ~Baseline(g, automatic) BY <3>3 DEF asked
      <4>2. known[g].seen /\ known[g].enabled BY <2>2, <3>1, <4>1 DEF Due, Baseline, Stamp
      <4>3. initialized BY <4>2 DEF UpkeepInv, StampsAfterStart
      <4>4. known[g].build = games[g].build /\ known[g].idle
        BY <2>2, <3>1, <4>1, <4>2, <4>3 DEF Due, Stamp, Settled
      <4> QED BY <1>5, <3>1, <4>2, <4>4 DEF UpkeepInv, NothingSkipped
    <3> QED BY <3>2, <3>3
  <2> QED BY <1>6, <2>1, <2>2
<1>10. StampsAfterStart' BY <1>2 DEF StampsAfterStart
<1>11. ListStamped' BY <1>2, <1>6 DEF ListStamped
<1>12. DownIsEmpty' BY <1>2 DEF DownIsEmpty
<1> QED BY <1>8, <1>9, <1>10, <1>11, <1>12 DEF UpkeepInv

LEMMA SavesKeep == ASSUME UpkeepInv, SaveKnown \/ SaveUpkeep PROVE UpkeepInv'
<1>1. /\ UNCHANGED <<world, automatic, packs, jobs, scan, games, discovered, gaming, known, upkeep,
                     initialized, faults, handled, played>>
      /\ rows' = [rows EXCEPT !.known = known] \/ rows' = [rows EXCEPT !.upkeep = upkeep]
      /\ stage \in {"seen", "folded"} /\ stage' \in {"fold", "loop"}
  BY DEF SaveKnown, SaveUpkeep, memory, history
<1>2. /\ rows'.known \in {rows.known, known} /\ rows'.upkeep \in {rows.upkeep, upkeep}
  BY <1>1 DEF UpkeepInv, TypesHold, DiskTypes
<1>3. TypesHold'
  BY <1>1, <1>2 DEF UpkeepInv, TypesHold, MemoryTypes, DiskTypes, GameTypes, StageTypes, Listed
<1> QED BY <1>1, <1>2, <1>3, TruthKeeps

LEMMA RunUpkeepKeeps == ASSUME UpkeepInv, RunUpkeep PROVE UpkeepInv'
<1>1. /\ TypesHold /\ upkeep \in [Games -> Records] /\ packs \in [Games -> Packs] /\ Listed(games)
      /\ jobs \in [Games -> [Tasks -> Phases]] /\ faults \in [FaultKinds -> Nat]
  BY DEF UpkeepInv, TypesHold, GameTypes, MemoryTypes, StageTypes
<1>2. PICK refused \in SUBSET {g \in DOMAIN games : Folds(g)} :
        /\ IF refused = {} THEN UNCHANGED faults ELSE Spend("refuse")
        /\ jobs' = [g \in Games |-> IF g \in DOMAIN games /\ Folds(g)
                      THEN Queued(g, DueTask(g, RecordOf(g)), g \in refused)[g] ELSE jobs[g]]
        /\ upkeep' = [g \in Games |->
             IF packs[g] = NoStore THEN Unseen
             ELSE IF g \notin DOMAIN games THEN upkeep[g]
             ELSE IF Folds(g) /\ g \notin refused /\ DueTask(g, RecordOf(g)) = "compact"
             THEN [seen |-> TRUE, build |-> games[g].build, played |-> FALSE]
             ELSE Noted(g, RecordOf(g))]
  BY DEF RunUpkeep
<1>3. faults' \in [FaultKinds -> Nat] BY <1>1, <1>2, SpendTypes DEF FaultKinds
<1>4. jobs' \in [Games -> [Tasks -> Phases]]
  <2>1. \A g \in DOMAIN games : Folds(g) =>
          Queued(g, DueTask(g, RecordOf(g)), g \in refused) \in [Games -> [Tasks -> Phases]]
    <3> SUFFICES ASSUME NEW g \in DOMAIN games, Folds(g)
                 PROVE  Queued(g, DueTask(g, RecordOf(g)), g \in refused) \in [Games -> [Tasks -> Phases]]
      OBVIOUS
    <3>1. DueTask(g, RecordOf(g)) \in Tasks /\ g \in Games BY <1>1 DEF Folds, DueTask, Tasks, Listed
    <3>2. (g \in refused) \in BOOLEAN OBVIOUS
    <3> HIDE DEF Folds
    <3> QED BY <1>1, <3>1, <3>2, QueuedTypes
  <2> QED BY <1>1, <1>2, <2>1
<1>5. upkeep' \in [Games -> Records]
  <2> SUFFICES ASSUME NEW g \in Games PROVE upkeep'[g] \in Records BY <1>2
  <2>1. Unseen \in Records /\ upkeep[g] \in Records BY <1>1 DEF Records
  <2>2. RecordOf(g) \in Records /\ RecordOf(g) # Unseen
        /\ RecordOf(g) \in [seen : BOOLEAN, build : 0 .. MaxBuild, played : BOOLEAN]
    BY <2>1, MaintenanceAssumption DEF RecordOf, Records, Unseen
  <2>3. ASSUME g \in DOMAIN games
        PROVE  /\ games[g].build \in 0 .. MaxBuild
               /\ Noted(g, RecordOf(g)) \in Records
               /\ [seen |-> TRUE, build |-> games[g].build, played |-> FALSE] \in Records
    <3>1. games[g].build \in 0 .. MaxBuild BY <1>1, <2>3 DEF Listed, Stamps
    <3> QED BY <2>2, <3>1 DEF Noted, Records
  <2>4. upkeep'[g] \in {Unseen, upkeep[g]} \/ (g \in DOMAIN games /\
          upkeep'[g] \in {Noted(g, RecordOf(g)),
                          [seen |-> TRUE, build |-> games[g].build, played |-> FALSE]})
    BY <1>2
  <2> QED BY <2>1, <2>3, <2>4
<1>6. /\ UNCHANGED <<world, automatic, packs, scan, games, discovered, gaming, known, initialized, rows,
                     handled, played>>
      /\ stage = "fold" /\ stage' \in {"loop", "folded"}
  BY DEF RunUpkeep, history
<1>7. TypesHold'
  BY <1>1, <1>3, <1>4, <1>5, <1>6 DEF UpkeepInv, TypesHold, MemoryTypes, DiskTypes, GameTypes, StageTypes, Listed
<1> QED BY <1>6, <1>7, TruthKeeps

LEMMA SetAutomaticKeeps == ASSUME UpkeepInv, NEW on \in BOOLEAN, SetAutomatic(on) PROVE UpkeepInv'
<1> DEFINE asked == {g \in Games : Baseline(g, on)}
<1>1. automatic \in BOOLEAN /\ TypesHold /\ known \in [Games -> Known]
  BY DEF UpkeepInv, TypesHold, GameTypes, MemoryTypes
<1>2. /\ known' = Observed(on) /\ automatic' = on /\ automatic # on /\ stage = "loop"
      /\ rows' = [rows EXCEPT !.known = known']
      /\ UNCHANGED <<world, packs, jobs, scan, games, discovered, gaming, upkeep, initialized, stage, played>>
  BY DEF SetAutomatic
<1>3. asked \subseteq DOMAIN games BY DEF Baseline
<1>4. Handles(asked) BY DEF SetAutomatic
<1> HIDE DEF asked
<1>5. /\ handled' \in [Games -> SUBSET (0 .. MaxBuild)]
      /\ \A g \in Games : handled[g] \subseteq handled'[g]
      /\ \A g \in asked : games[g].build \in handled'[g]
  BY <1>1, <1>3, <1>4, HandlesMore
<1>6. /\ known' \in [Games -> Known]
      /\ \A g \in DOMAIN games : /\ known'[g].seen /\ known'[g].enabled = on /\ g \in Games
                                 /\ known'[g].build = games[g].build /\ known'[g].idle = games[g].idle
      /\ \A g \in Games \ DOMAIN games : known'[g] = known[g]
  BY <1>1, <1>2, StampTypes
<1>7. \A g \in DOMAIN games : known[g].seen /\ known[g].enabled = automatic
  BY <1>2 DEF UpkeepInv, ListStamped
<1>8. faults' \in [FaultKinds -> Nat]
  BY <1>1, SpendTypes DEF SetAutomatic, FaultKinds
<1>9. rows'.known \in {rows.known, known'} /\ rows'.upkeep = rows.upkeep BY <1>2 DEF UpkeepInv, TypesHold, DiskTypes
<1>10. TypesHold'
  BY <1>1, <1>2, <1>5, <1>6, <1>8, <1>9
  DEF TypesHold, MemoryTypes, DiskTypes, GameTypes, StageTypes, Listed
<1>11. NothingSkipped'
  <2> SUFFICES ASSUME NEW g \in Games, NEW seen \in {rows'.known[g], known'[g]},
                      seen.seen, seen.idle, seen.enabled
               PROVE  seen.build \in handled'[g]
    BY DEF NothingSkipped
  <2>1. CASE seen = rows.known[g] \/ seen = known[g] BY <2>1, <1>5 DEF UpkeepInv, NothingSkipped
  <2>2. CASE g \in DOMAIN games /\ seen = known'[g]
    <3>1. on /\ ~automatic /\ seen.build = games[g].build BY <1>1, <1>2, <1>6, <2>2
    <3>2. g \in asked BY <1>7, <2>2, <3>1 DEF asked, Baseline
    <3> QED BY <1>5, <3>1, <3>2
  <2>3. seen \in {rows.known[g], known'[g]} BY <1>9
  <2> QED BY <1>6, <2>1, <2>2, <2>3
<1>12. StampsAfterStart' BY <1>2, <1>6, <1>7 DEF UpkeepInv, StampsAfterStart
<1>13. ListStamped' BY <1>2, <1>6 DEF ListStamped
<1>14. DownIsEmpty' BY <1>2 DEF DownIsEmpty
<1> QED BY <1>10, <1>11, <1>12, <1>13, <1>14 DEF UpkeepInv

LEMMA CrashKeeps == ASSUME UpkeepInv, Crash PROVE UpkeepInv'
<1>1. NotSeen \in [Games -> Records] /\ NotSeen \in [Games -> Known] BY DEF NotSeen, Records, Known
<1>2. Listed(NoList) BY DEF NoList, Listed
<1>3. /\ scan' = [phase |-> "none", list |-> NoList] /\ games' = NoList /\ discovered' = NoList
      /\ gaming' = NoGame /\ known' = NotSeen /\ upkeep' = NotSeen /\ initialized' = FALSE /\ stage' = "down"
      /\ UNCHANGED <<world, automatic, packs, jobs, rows, handled, played>>
  BY DEF Crash, history
<1>4. MemoryTypes' BY <1>1, <1>2, <1>3 DEF MemoryTypes, Listed
<1>5. faults' \in [FaultKinds -> Nat] BY SpendTypes DEF Crash, FaultKinds, UpkeepInv
<1>6. TypesHold' BY <1>3, <1>4, <1>5 DEF UpkeepInv, TypesHold, DiskTypes, GameTypes, StageTypes
<1>7. \A g \in Games : ~known'[g].seen BY <1>3 DEF NotSeen, Unseen
<1>8. NothingSkipped' BY <1>3, <1>7 DEF UpkeepInv, NothingSkipped
<1> QED BY <1>3, <1>6, <1>7, <1>8 DEF UpkeepInv, StampsAfterStart, ListStamped, DownIsEmpty

LEMMA OpensKeeps == ASSUME UpkeepInv, Opens PROVE UpkeepInv'
<1>1. /\ known' = rows.known /\ upkeep' = rows.upkeep /\ initialized' = \E g \in Games : rows.known[g].seen
      /\ stage = "down" /\ stage' = "loop"
      /\ UNCHANGED <<world, automatic, packs, scan, games, discovered, gaming, rows, faults, handled, played>>
  BY DEF Opens, history
<1>2. jobs' \in [Games -> [Tasks -> Phases]]
  <2>1. jobs \in [Games -> [Tasks -> Phases]] BY DEF UpkeepInv, TypesHold, GameTypes
  <2> QED BY <2>1 DEF Opens, Phases
<1>3. initialized' \in BOOLEAN BY <1>1
<1>4. TypesHold'
  BY <1>1, <1>2, <1>3 DEF UpkeepInv, TypesHold, MemoryTypes, DiskTypes, GameTypes, StageTypes, Listed
<1>5. NothingSkipped' BY <1>1 DEF UpkeepInv, NothingSkipped
<1>6. StampsAfterStart' BY <1>1 DEF StampsAfterStart
<1>7. DOMAIN games = {} BY <1>1 DEF UpkeepInv, DownIsEmpty, NoList
<1>8. ListStamped' BY <1>1, <1>7 DEF ListStamped
<1> QED BY <1>1, <1>4, <1>5, <1>6, <1>8 DEF UpkeepInv, DownIsEmpty

LEMMA UpkeepInvStep == UpkeepInv /\ [Next]_vars => UpkeepInv'
<1> SUFFICES ASSUME UpkeepInv, [Next]_vars PROVE UpkeepInv' OBVIOUS
<1>1. CASE \/ ScanStarts \/ (\E found \in SUBSET Games : ScanReads(found)) \/ ScanBatch
           \/ CancelDiscovery \/ ScanLost
  BY <1>1, ScansKeep
<1>2. CASE Pass
  <2>1. CASE ScanReads(Games) BY <2>1, ScansKeep
  <2> QED BY <1>1, <1>2, <2>1, ScanFinishesKeeps, OpensKeeps, ObserveKeeps, SavesKeep, RunUpkeepKeeps DEF Pass
<1>3. CASE BusyCheck BY <1>3, BusyCheckKeeps
<1>4. CASE Crash BY <1>4, CrashKeeps
<1>5. CASE \E on \in BOOLEAN : SetAutomatic(on) BY <1>5, SetAutomaticKeeps
<1>6. ASSUME NEW g \in Games,
             \/ Updates(g) \/ Plays(g) \/ ClientAsks(g) \/ StoreChanges(g)
             \/ \E t \in Tasks : JobStarts(g, t) \/ JobFails(g, t) \/ JobEnds(g, t)
      PROVE  UpkeepInv'
  <2>1. "compress" \in Tasks BY DEF Tasks
  <2> QED BY <1>6, <2>1, LaunchersKeep, JobsKeep, StoreChangesKeep
<1>7. CASE UNCHANGED vars
  BY <1>7 DEF vars, memory, history, UpkeepInv, TypesHold, MemoryTypes, DiskTypes, GameTypes, StageTypes,
              NothingSkipped, StampsAfterStart, ListStamped, DownIsEmpty, Listed
<1> QED BY <1>1, <1>2, <1>3, <1>4, <1>5, <1>6, <1>7 DEF Next

\* A build that is shown as seen, idle and maintained, in memory or on disk, had a job asked for
\* or was there when maintenance began, for any scans, crashes, refusals and switches
\* (service.rs, the pass after a finished scan).
THEOREM UpkeepTrueEver == Spec => []UpkeepTrue
<1>1. UpkeepInv => UpkeepTrue BY TypesGiven DEF UpkeepInv, UpkeepTrue
<1> QED BY <1>1, UpkeepInvInit, UpkeepInvStep, PTL DEF Spec
================================================================================

-------------------------------- MODULE MCTools --------------------------------
(***************************************************************************)
(* Parts around the queue: finding games, live compression, estimating     *)
(* files, the evidence kept of measured games and the space work needs.    *)
(* They share nothing; a behaviour is one of one of them.                  *)
(***************************************************************************)
EXTENDS Evidence, Sampling, LiveCompression, Discovery, SpacePlans

VARIABLE unit       \* the part a behaviour is about; the others rest

Budget(kinds, may) == [k \in kinds |-> IF k \in DOMAIN may THEN may[k] ELSE 0]

(***************************************************************************)
(* What may happen to the evidence.                                        *)
(***************************************************************************)
Ev(linux, games, may) == [linux |-> linux, games |-> games, may |-> Budget(EvidenceKinds, may)]
MCEvidenceBudgets ==
    {Ev(TRUE, {"g"}, [writes |-> 3, imports |-> 1, analyses |-> 1, activations |-> 2, stops |-> 1]),
     Ev(TRUE, {"g"}, [writes |-> 1, wizards |-> 1, measures |-> 1, saves |-> 1, builds |-> 1,
                      analyses |-> 1, activations |-> 1, scans |-> 1]),
     Ev(TRUE, {"g"}, [writes |-> 1, imports |-> 1, builds |-> 1, analyses |-> 1, scans |-> 1,
                      badScans |-> 1, activations |-> 1]),
     Ev(FALSE, {"g"}, [writes |-> 2, wizards |-> 1, measures |-> 1, saves |-> 1,
                      badWrites |-> 1]),
     Ev(TRUE, {"g"}, [wizards |-> 1, measures |-> 1, saves |-> 2, badWrites |-> 1, kills |-> 1]),
     Ev(TRUE, {"g", "h"}, [wizards |-> 2, measures |-> 1])}

(***************************************************************************)
(* The files to estimate: sizes around a sector, a block and a window.     *)
(***************************************************************************)
MCBlocks == [plain |-> 3, container |-> 2]
MCAdvised == [saving |-> 4, ratio |-> 500, advantage |-> 1000]
Of(size, left) ==
    [size |-> size, length |-> size, left |-> left, mountLeft |-> 4, packLeft |-> left,
     mounted |-> FALSE, probe |-> "unknown", container |-> FALSE, attempted |-> FALSE,
     fails |-> FALSE]
OddFiles ==
    {[Of(20, 5) EXCEPT !.packLeft = 1, !.mountLeft = 2, !.probe = "all"],
     [Of(20, 1) EXCEPT !.packLeft = 4, !.mountLeft = 2, !.probe = "all"],
     [Of(29, 3) EXCEPT !.length = 11], [Of(17, 2) EXCEPT !.container = TRUE],
     [Of(17, 2) EXCEPT !.probe = "half", !.mountLeft = 3, !.packLeft = 1],
     [Of(20, 2) EXCEPT !.mounted = TRUE, !.mountLeft = 2, !.packLeft = 1],
     [Of(20, 5) EXCEPT !.packLeft = 3, !.probe = "all", !.mountLeft = 1],
     [Of(16, 2) EXCEPT !.attempted = TRUE], [Of(16, 2) EXCEPT !.fails = TRUE], Of(1, 1),
     [Of(29, 4) EXCEPT !.length = 0]}
Estimating(kind, files, budget, stops) ==
    [kind |-> kind, files |-> files, budget |-> budget, stops |-> stops]
MCTasks ==
    {Estimating(kind, <<f, Of(33, 2), Of(12, 3)>>, b, stops)
     : kind \in {"game", "preview"}, f \in OddFiles, b \in {9, 20, 60}, stops \in BOOLEAN}
    \cup {Estimating("preview", <<f>>, 60, FALSE) : f \in OddFiles}
    \cup {Estimating("preview", <<Of(s, l)>>, 16, FALSE) : s \in 1..40, l \in Kinds4}

(***************************************************************************)
(* What may happen to a library and to the catalog.                        *)
(***************************************************************************)
MCLiveLimits ==
    {Budget(LiveKinds, [orders |-> 2, removes |-> 1, failures |-> 1, deaths |-> 1, hooks |-> 2,
                      makes |-> 2, badSaves |-> 1])}
MCCatalogLimits ==
    {Budget(CatalogKinds, [scans |-> 3, drives |-> 2, installs |-> 1]),
     Budget(CatalogKinds, [scans |-> 2, installs |-> 2, updates |-> 1]),
     Budget(CatalogKinds, [scans |-> 2, drives |-> 1, installs |-> 2]),
     Budget(CatalogKinds, [scans |-> 2, installs |-> 1, locations |-> 2, stops |-> 1, badLists |-> 1]),
     Budget(CatalogKinds, [scans |-> 3, drives |-> 1, installs |-> 1, badSaves |-> 1])}
MCSpaceLimits ==
    {Budget(SpaceKinds, [reviews |-> 1, asks |-> 1, retries |-> 1, deaths |-> 1]),
     Budget(SpaceKinds, [reviews |-> 1, others |-> 1, swaps |-> 1]),
     Budget(SpaceKinds, [reviews |-> 1, asks |-> 1, updates |-> 1])}
MCAmounts == {-600, 1, 600}
MCMountOf == [p \in GameDirs |-> p]
MCLibraryOf == [p \in GameDirs |-> "library"]
MCKeys == <<"steam", "epic">>

(***************************************************************************)
(* One part at a time.                                                     *)
(***************************************************************************)
Any(S) == CHOOSE x \in S : TRUE
Trifle == CHOOSE task \in SampleTasks : Len(task.files) = 1 /\ task.files[1].size = 1
Unused == Machine("mac", Any(SpaceLimits), [p \in Pieces |-> Any(Lengths)], Any(Volumes), "native", 0)
UnitInit ==
    /\ unit \in {"evidence", "sampling", "live", "catalog", "space"}
    /\ EvidenceInit  /\ (unit # "evidence" => allowed = Any(EvidenceBudgets))
    /\ SamplingInit  /\ (unit # "sampling" => sampling.task = Trifle)
    /\ LiveInit      /\ (unit # "live"     => /\ live.left = Any(LiveLimits) /\ live.users = {}
                                              /\ \A d \in Dirs \ {Top} : ~live.dirs[d].there)
    /\ DiscoveryInit /\ (unit # "catalog"  => /\ catalog.left = Any(CatalogLimits)
                                              /\ \A m \in DOMAIN catalog.mounted :
                                                     catalog.mounted[m] = Any(Drives))
    /\ SpaceInit     /\ (unit # "space"    => space = Unused)

UnitNext ==
    \/ unit = "evidence" /\ EvidenceNext /\ UNCHANGED <<unit, sampling, live, catalog, space>>
    \/ unit = "sampling" /\ SamplingNext /\ UNCHANGED <<unit, evidence, live, catalog, space>>
    \/ unit = "live"     /\ LiveNext     /\ UNCHANGED <<unit, evidence, sampling, catalog, space>>
    \/ unit = "catalog"  /\ DiscoveryNext /\ UNCHANGED <<unit, evidence, sampling, live, space>>
    \/ unit = "space"    /\ SpaceNext    /\ UNCHANGED <<unit, evidence, sampling, live, catalog>>

UnitSpec == UnitInit /\ [][UnitNext]_<<unit, evidence, sampling, live, catalog, space>>
================================================================================

------------------------------ MODULE StoreBuild ------------------------------
(***************************************************************************)
(* Making game stores while launchers write, other builds run and the      *)
(* shared pool is pruned.  A build walks its source, reads each file under *)
(* the stamp the walk saw, publishes every new chunk to the pool and links *)
(* it into a staging folder, verifies, walks again and renames the staging *)
(* folder to its target.  src/pack/create.rs.                              *)
(*                                                                         *)
(* A file's content is one chunk, a stamp is the number of writes so far   *)
(* (the stat fields change with every write) and a chunk object is known   *)
(* by its content, which its name in the pool is made of.  A build without *)
(* a pool is a build whose chunks go into the staged file.                 *)
(***************************************************************************)
EXTENDS Integers, FiniteSets

CONSTANTS Games, SourceFiles, Chunks, Builds, Targets,
          GameOf,       \* the source folder of each build
          TargetsOf,    \* the destinations a build may be given
          LayoutsOf,    \* whether a build may use the pool (TRUE), one file (FALSE)
          MaxSourceWrites,    \* bound on launcher writes
          MaxFaults,    \* bound on failed or killed builds
          MaxPrunes,    \* bound on prune passes
          Nobody

ASSUME BuildGames == /\ GameOf \in [Builds -> Games]
                     /\ TargetsOf \in [Builds -> SUBSET Targets]
                     /\ LayoutsOf \in [Builds -> SUBSET BOOLEAN]
                     /\ Nobody \notin Chunks \cup Builds
                     /\ "prune" \notin Builds \cup {Nobody}

VARIABLES
  files,    \* per game and file: its content (Nobody when absent) and stamp
  pool,     \* the objects with a name in the pool
  temps,    \* builds whose unpublished object lies in the pool
  leftTemp, \* an unpublished object of a dead build lies in the pool
  lock,     \* who holds the pool's lock
  making,   \* per build: where it is and what it holds
  orphans,  \* chunks linked by staging folders of dead builds
  stores,   \* per target: what was published there
  prune,    \* the prune pass
  spent     \* writes and faults so far

buildVars == <<files, pool, temps, leftTemp, lock, making, orphans, stores, prune, spent>>

Unstamped == [f \in SourceFiles |-> 0]
NoBuild == [pc |-> "idle", target |-> Nobody, shared |-> FALSE, at |-> {}, stamps |-> Unstamped, found |-> {},
         data |-> [f \in SourceFiles |-> Nobody], links |-> {}, moments |-> {}]

DataOf(g) == [f \in SourceFiles |-> files[g][f].data]

BuildInit ==
  /\ files \in [Games -> [SourceFiles -> [data : Chunks, stamp : {0}]]]
  /\ pool = {} /\ temps = {} /\ leftTemp = FALSE /\ lock = Nobody
  /\ making = [b \in Builds |-> NoBuild]
  /\ orphans = {}
  /\ stores = [t \in Targets |-> Nobody]
  /\ prune = [pc |-> "idle", left |-> {}, quiet |-> TRUE, passes |-> 0]
  /\ spent = [writes |-> 0, faults |-> 0]

\* Whether another name than the pool's own holds the object.
OtherwiseLinked(c) ==
  \/ c \in orphans
  \/ \E t \in Targets : stores[t] # Nobody /\ c \in stores[t].links
  \/ \E b \in Builds : c \in making[b].links

-----------------------------------------------------------------------------
(* A build. *)

\* destination and the checks before the pool is locked.
BeginBuild(b) ==
  /\ making[b].pc = "idle"
  /\ \E t \in TargetsOf[b], shared \in LayoutsOf[b] :
       /\ stores[t] = Nobody
       /\ making' = [making EXCEPT ![b] =
            [NoBuild EXCEPT !.pc = IF shared THEN "lock" ELSE "walk",
                            !.target = t, !.shared = shared, !.at = SourceFiles]]
  /\ UNCHANGED <<files, pool, temps, leftTemp, lock, orphans, stores, prune, spent>>

LockPool(b) ==
  /\ making[b].pc = "lock" /\ lock = Nobody
  /\ lock' = b
  /\ making' = [making EXCEPT ![b].pc = "walk"]
  /\ UNCHANGED <<files, pool, temps, leftTemp, orphans, stores, prune, spent>>

\* snapshot, one path at a time; afterwards the files it found are read.
Walk(b) ==
  /\ making[b].pc = "walk"
  /\ \E f \in making[b].at :
       making' = [making EXCEPT ![b].stamps[f] = files[GameOf[b]][f].stamp,
                              ![b].found = IF files[GameOf[b]][f].data = Nobody THEN @ ELSE @ \cup {f},
                              ![b].at = @ \ {f},
                              ![b].pc = IF making[b].at = {f} THEN "files" ELSE "walk"]
  /\ UNCHANGED <<files, pool, temps, leftTemp, lock, orphans, stores, prune, spent>>

Unread(b) == {f \in making[b].found : making[b].data[f] = Nobody}

\* A file is opened and its stamp compared; its bytes are read next.
OpenFile(b) ==
  /\ making[b].pc = "files"
  /\ \E f \in Unread(b) :
       /\ files[GameOf[b]][f].stamp = making[b].stamps[f]
       /\ making' = [making EXCEPT ![b].pc = "read", ![b].at = {f},
                                 ![b].data[f] = files[GameOf[b]][f].data]
  /\ UNCHANGED <<files, pool, temps, leftTemp, lock, orphans, stores, prune, spent>>

\* The stamp is compared again after the last byte.  A chunk this store has is
\* not stored again.
FinishFile(b) ==
  /\ making[b].pc = "read"
  /\ \E f \in making[b].at :
       LET c == making[b].data[f]
       IN  /\ files[GameOf[b]][f].stamp = making[b].stamps[f]
           /\ making' = [making EXCEPT ![b].pc =
                IF ~making[b].shared \/ c \in making[b].links THEN "files" ELSE "publish"]
  /\ UNCHANGED <<files, pool, temps, leftTemp, lock, orphans, stores, prune, spent>>

ChunkAt(b) == CHOOSE c \in Chunks : \E f \in making[b].at : making[b].data[f] = c

\* publish_object: an object of the pool is reused, a new one written beside it.
PublishObject(b) ==
  /\ making[b].pc = "publish"
  /\ making' = [making EXCEPT ![b].pc = IF ChunkAt(b) \in pool THEN "link" ELSE "persist"]
  /\ temps' = IF ChunkAt(b) \in pool THEN temps ELSE temps \cup {b}
  /\ UNCHANGED <<files, pool, leftTemp, lock, orphans, stores, prune, spent>>

PersistObject(b) ==
  /\ making[b].pc = "persist" /\ b \in temps
  /\ pool' = pool \cup {ChunkAt(b)}
  /\ temps' = temps \ {b}
  /\ making' = [making EXCEPT ![b].pc = "link"]
  /\ UNCHANGED <<files, leftTemp, lock, orphans, stores, prune, spent>>

LinkObject(b) ==
  /\ making[b].pc = "link" /\ ChunkAt(b) \in pool
  /\ making' = [making EXCEPT ![b].pc = "files", ![b].links = @ \cup {ChunkAt(b)}]
  /\ UNCHANGED <<files, pool, temps, leftTemp, lock, orphans, stores, prune, spent>>

\* The manifest is written and every chunk decoded; the source is walked again.
VerifyStaged(b) ==
  /\ making[b].pc = "files" /\ Unread(b) = {}
  /\ making' = [making EXCEPT ![b].pc = "rewalk", ![b].at = SourceFiles,
                            ![b].moments = {DataOf(GameOf[b])}]
  /\ UNCHANGED <<files, pool, temps, leftTemp, lock, orphans, stores, prune, spent>>

Rewalk(b) ==
  /\ making[b].pc = "rewalk"
  /\ \E f \in making[b].at :
       /\ files[GameOf[b]][f].stamp = making[b].stamps[f]
       /\ making' = [making EXCEPT ![b].at = @ \ {f},
                                 ![b].pc = IF making[b].at = {f} THEN "rename" ELSE "rewalk"]
  /\ UNCHANGED <<files, pool, temps, leftTemp, lock, orphans, stores, prune, spent>>

PublishOver(b) ==
  /\ making[b].pc = "rename"
  /\ stores' = [stores EXCEPT ![making[b].target] =
       [data |-> making[b].data, links |-> making[b].links, shared |-> making[b].shared]]
  /\ making' = [making EXCEPT ![b] = [@ EXCEPT !.pc = "done", !.links = {}]]
  /\ lock' = IF lock = b THEN Nobody ELSE lock
  /\ UNCHANGED <<files, pool, temps, leftTemp, orphans, prune, spent>>

\* The rename that fails when anything is at the target.
Publish(b) ==
  /\ making[b].pc = "rename"
  /\ stores[making[b].target] = Nobody
  /\ stores' = [stores EXCEPT ![making[b].target] =
       [data |-> making[b].data, links |-> making[b].links, shared |-> making[b].shared]]
  /\ making' = [making EXCEPT ![b] = [@ EXCEPT !.pc = "done", !.links = {}]]
  /\ lock' = IF lock = b THEN Nobody ELSE lock
  /\ UNCHANGED <<files, pool, temps, leftTemp, orphans, prune, spent>>

\* A failed check, a cancel or a write error: the staging folder and the
\* unpublished object are dropped, published objects stay.
MustFail(b) ==
  \/ making[b].pc = "persist" /\ b \notin temps
  \/ making[b].pc = "link" /\ ChunkAt(b) \notin pool
  \/ making[b].pc = "rename" /\ stores[making[b].target] # Nobody
  \/ /\ making[b].pc = "files"
     /\ \E f \in Unread(b) : files[GameOf[b]][f].stamp # making[b].stamps[f]
  \/ /\ making[b].pc \in {"read", "rewalk"}
     /\ \E f \in making[b].at : files[GameOf[b]][f].stamp # making[b].stamps[f]

Running(b) == making[b].pc \notin {"idle", "done", "failed"}

FailBuild(b) ==
  /\ Running(b)
  /\ MustFail(b) \/ spent.faults < MaxFaults
  /\ spent' = [spent EXCEPT !.faults = IF MustFail(b) THEN @ ELSE @ + 1]
  /\ making' = [making EXCEPT ![b] = [NoBuild EXCEPT !.pc = "failed"]]
  /\ temps' = temps \ {b}
  /\ lock' = IF lock = b THEN Nobody ELSE lock
  /\ prune' = [prune EXCEPT !.quiet = FALSE]
  /\ UNCHANGED <<files, pool, leftTemp, orphans, stores>>

\* The building process is killed: its lock goes, its files stay.
KillBuild(b) ==
  /\ Running(b) /\ spent.faults < MaxFaults
  /\ spent' = [spent EXCEPT !.faults = @ + 1]
  /\ orphans' = orphans \cup making[b].links
  /\ leftTemp' = (leftTemp \/ b \in temps)
  /\ temps' = temps \ {b}
  /\ making' = [making EXCEPT ![b] = [NoBuild EXCEPT !.pc = "failed"]]
  /\ lock' = IF lock = b THEN Nobody ELSE lock
  /\ UNCHANGED <<files, pool, stores, prune>>

-----------------------------------------------------------------------------
(* prune_shared_pool, and what happens around the builds. *)

PruneUnlocked ==
  /\ prune.pc = "idle" /\ prune.passes < MaxPrunes
  /\ lock' = "prune"
  /\ prune' = [pc |-> "pass", left |-> pool, quiet |-> TRUE, passes |-> prune.passes + 1]
  /\ UNCHANGED <<files, pool, temps, leftTemp, making, orphans, stores, spent>>

PruneLock ==
  /\ prune.pc = "idle" /\ prune.passes < MaxPrunes
  /\ lock = Nobody
  /\ lock' = "prune"
  /\ prune' = [pc |-> "pass", left |-> pool, quiet |-> TRUE, passes |-> prune.passes + 1]
  /\ UNCHANGED <<files, pool, temps, leftTemp, making, orphans, stores, spent>>

\* One entry of the pool: removed when no other name holds it.
PruneEntry ==
  /\ prune.pc = "pass"
  /\ \E c \in prune.left :
       /\ prune' = [prune EXCEPT !.left = @ \ {c}]
       /\ pool' = IF OtherwiseLinked(c) THEN pool ELSE pool \ {c}
  /\ UNCHANGED <<files, temps, leftTemp, lock, making, orphans, stores, spent>>

PruneTemps ==
  /\ prune.pc = "pass" /\ (leftTemp \/ temps # {})
  /\ leftTemp' = FALSE /\ temps' = {}
  /\ UNCHANGED <<files, pool, lock, making, orphans, stores, prune, spent>>

\* The pass has met every entry; the folder is synced and the lock let go.
PruneDone ==
  /\ prune.pc = "pass" /\ prune.left = {} /\ ~leftTemp /\ temps = {}
  /\ prune' = [prune EXCEPT !.pc = "synced"]
  /\ UNCHANGED <<files, pool, temps, leftTemp, lock, making, orphans, stores, spent>>

PruneEnd ==
  /\ prune.pc = "synced"
  /\ prune' = [prune EXCEPT !.pc = "idle"]
  /\ lock' = Nobody
  /\ UNCHANGED <<files, pool, temps, leftTemp, making, orphans, stores, spent>>

DeleteStore(t) ==
  /\ stores[t] # Nobody
  /\ stores' = [stores EXCEPT ![t] = Nobody]
  /\ prune' = [prune EXCEPT !.quiet = FALSE]
  /\ UNCHANGED <<files, pool, temps, leftTemp, lock, making, orphans, spent>>

\* The launcher writes, adds or removes a file.
LauncherWrites(g, f) ==
  /\ spent.writes < MaxSourceWrites
  /\ spent' = [spent EXCEPT !.writes = @ + 1]
  /\ \E c \in Chunks \cup {Nobody} :
       files' = [files EXCEPT ![g][f] = [data |-> c, stamp |-> @.stamp + 1]]
  /\ making' = [b \in Builds |->
       IF GameOf[b] = g /\ making[b].pc \in {"rewalk", "rename"}
       THEN [making[b] EXCEPT !.moments = @ \cup {[h \in SourceFiles |-> files'[g][h].data]}]
       ELSE making[b]]
  /\ UNCHANGED <<pool, temps, leftTemp, lock, orphans, stores, prune>>

BuildStep(b) ==
  \/ BeginBuild(b) \/ LockPool(b) \/ Walk(b) \/ OpenFile(b) \/ FinishFile(b)
  \/ PublishObject(b) \/ PersistObject(b) \/ LinkObject(b)
  \/ VerifyStaged(b) \/ Rewalk(b) \/ Publish(b) \/ FailBuild(b) \/ KillBuild(b)

BuildNext ==
  \/ \E b \in Builds : BuildStep(b)
  \/ PruneLock \/ PruneEntry \/ PruneTemps \/ PruneDone \/ PruneEnd
  \/ \E t \in Targets : DeleteStore(t)
  \/ \E g \in Games, f \in SourceFiles : LauncherWrites(g, f)

BuildSpec == BuildInit /\ [][BuildNext]_buildVars

-----------------------------------------------------------------------------
\* A store that is published holds what its source held at one moment after the
\* stored bytes were verified, and its own link to every chunk it names, however
\* the launcher's writes fall between the walks and the reads.
\* (create.rs:762, create.rs:1008)
PublishedTrue ==
  \A b \in Builds : making[b].pc = "done" => making[b].data \in making[b].moments

\* A store in place holds a link of its own to every chunk of its files.
LinksOwn ==
  \A t \in Targets : stores[t] # Nobody /\ stores[t].shared =>
    \A f \in SourceFiles : stores[t].data[f] \in stores[t].links \cup {Nobody}

\* Pruning never takes an object, or the unfinished file of one, from under a
\* build that is about to link it.  (create.rs:833)
PruneSparesBuilds ==
  \A b \in Builds :
    /\ making[b].pc = "persist" => b \in temps
    /\ making[b].pc = "link" => ChunkAt(b) \in pool

\* When a pass ends, nothing is left in the pool that only the pool holds, if no
\* link was dropped during the pass.  (create.rs:1068)
PruneReclaims ==
  prune.pc = "synced" /\ prune.quiet => \A c \in pool : OtherwiseLinked(c)

\* Pruning takes what nobody uses and nothing else.
PruneExact == PruneSparesBuilds /\ PruneReclaims

\* What is at a destination is never replaced by a build: it stays until it is
\* deleted.  (create.rs:767, create.rs:1013)
NeverReplaced ==
  [][\A t \in Targets : stores[t] # Nobody => stores'[t] \in {stores[t], Nobody}]_buildVars

\* A destination gets what its source was, whole and with links of its own, and keeps it.
PublishedWhole == [](PublishedTrue /\ LinksOwn) /\ NeverReplaced
=============================================================================

---------------------------- MODULE InstallLifecycle ---------------------------
(***************************************************************************)
(* One installed game that is switched to a compressed store mounted at    *)
(* its path, and back: the install record in memory and in the settings    *)
(* table, the game path, the retained original, the stores and the update  *)
(* layers beside them, and the FUSE session of the coordinator.            *)
(*                                                                         *)
(* Every transaction is cut where the process can die: between a saved     *)
(* record and the change on disk that follows it, and inside the changes   *)
(* that are not atomic (deleting a tree, merging a layer into a folder).   *)
(* The coordinator's thread and the storage thread never hold the record   *)
(* at the same time, so one pc stands for both.                            *)
(*                                                                         *)
(* A store and the layer beside it share a number.  A process check before *)
(* a transaction is left out: the game may start right after it.           *)
(***************************************************************************)
EXTENDS Naturals, FiniteSets

CONSTANTS
    Files,      \* paths inside the game folder
    Versions,   \* what a present file may hold; 0 stands for an absent file
    Removable,  \* files the game may remove
    Ids,        \* bound: numbers of stores that may be built
    MaxWrites,  \* bound: writes of the game
    Reuse,      \* a client may activate a store whose update layer is still there
    Budgets     \* bound: what may go wrong, and how often, in one behaviour

\* "crash" the process dies, "mount" a move, mount or unmount fails or a session ends,
\* "open" a store cannot be opened now, "delete" or "merge" stops part way with an
\* error, "save" the table cannot be written, "interim" the folder changes while an
\* unfinished activation waits, "race" it changes after the last check before a move.
Kinds == {"crash", "mount", "open", "delete", "merge", "save", "interim", "race"}

ASSUME LifecycleAssumption ==
    /\ Versions \subseteq Nat \ {0} /\ Removable \subseteq Files
    /\ Ids \subseteq Nat \ {0}
    /\ MaxWrites \in Nat /\ Reuse \in BOOLEAN
    /\ Budgets \subseteq [Kinds -> Nat]

VARIABLES
    pc,       \* where the coordinator is: "down", "loop", or a step of a transaction
    by,       \* who runs the step: a storage "task", or recover_packs ("recover")
    mem,      \* the install record in memory
    saved,    \* the install record in settings row 4
    folder,   \* the game path below any mount
    mount,    \* what is mounted there: "none", a "live" or a "dead" session
    handle,   \* the coordinator holds that session
    backup,   \* the retained original
    store,    \* the stores
    layer,    \* the update layers: what each holds over its store
    target,   \* the store being activated or built
    dirty,    \* the generation moved since the compaction's baseline
    writes,   \* writes of the game so far
    faults    \* what may still go wrong

record == <<mem, saved>>
session == <<mount, handle>>
disk   == <<folder, backup, store, layer>>
work   == <<target, dirty>>
counts == <<writes, faults>>
vars   == <<pc, by, record, session, disk, work, counts>>

-----------------------------------------------------------------------------
(* Files, stores and layers *)

Values  == Versions \cup {0}
Content == [Files -> Values]
Nothing == [f \in Files |-> 0]
Changes == UNION {[S -> Values] : S \in SUBSET Files}

\* A tree of files with the changes of a layer on top: an entry of the layer wins, and
\* a whiteout (0) hides the file.
Merged(changes, files) ==
    [f \in Files |-> IF f \in DOMAIN changes THEN changes[f] ELSE files[f]]

View(k) == Merged(layer[k].changes, store[k].files)

\* Only whole stores and layers open.  A store may be out of reach for a while.
StoreOpens(k) == store[k].st = "whole"
LayerOpens(k) == layer[k].st \in {"none", "whole"}

NoStore == [st |-> "none", files |-> Nothing]
NoChanges == [f \in {} |-> 0]
NoLayer == [st |-> "none", changes |-> NoChanges]
NewLayer == [st |-> "whole", changes |-> NoChanges]
NoBackup == [kept |-> FALSE, files |-> Nothing]

-----------------------------------------------------------------------------
(* The record *)

Phases == {"Switching", "Mounted", "Reclaiming", "Compacting", "Pruning", "Restoring",
           "Attention"}
NoRecord == [phase |-> "none", at |-> 0, backup |-> FALSE, prev |-> 0]
Record == [phase: Phases, at: Ids, backup: BOOLEAN, prev: Ids \cup {0}]

HasRecord == mem # NoRecord

\* save_packs after a change of the record.
Save(r) == mem' = r /\ saved' = r

\* The original is current only while no compaction has absorbed updates.
BackupIsCurrent == mem.backup /\ mem.prev = 0

Fault(kind) == faults[kind] > 0 /\ faults' = [faults EXCEPT ![kind] = @ - 1]

\* The launcher's path resolves.
PathResolves == mount = "live" \/ (mount = "none" /\ folder.there)

Init ==
    /\ pc = "loop" /\ by = "task"
    /\ mem = NoRecord /\ saved = NoRecord
    /\ \E c \in Content : c # Nothing /\ folder = [there |-> TRUE, files |-> c]
    /\ mount = "none" /\ handle = FALSE
    /\ backup = NoBackup
    /\ store = [k \in Ids |-> NoStore] /\ layer = [k \in Ids |-> NoLayer]
    /\ target = 0 /\ dirty = FALSE
    /\ writes = 0 /\ faults \in Budgets

-----------------------------------------------------------------------------
(* The game, its launcher and the FUSE session *)

\* Mutations are refused between freeze and the end of a compaction.
Frozen == pc \in {"frozen", "stopping"}

\* The folder between the comparison with the store and the move.
CheckedFolder == pc \in {"verified", "switch"}
WaitingFolder == pc \in {"loop", "down", "recover", "saving"} /\ "Switching" \in {mem.phase, saved.phase}

\* Through a mount a write lands in the layer: a file the store has is hidden, one it
\* does not have simply goes.
LayerWrite(changes, files, f, v) ==
    IF v = 0 /\ files[f] = 0
    THEN [g \in DOMAIN changes \ {f} |-> changes[g]]
    ELSE [g \in DOMAIN changes \cup {f} |-> IF g = f THEN v ELSE changes[g]]

\* The mount serves the store its record named when it was made.
Served == mem.at

GameWrites(f, v) ==
    /\ writes < MaxWrites /\ writes' = writes + 1
    /\ v = 0 => f \in Removable
    /\ \/ /\ mount = "none" /\ folder.files # Nothing
          /\ CheckedFolder => faults["race"] > 0
          /\ WaitingFolder => faults["interim"] > 0
          /\ folder.files[f] # v
          /\ [folder.files EXCEPT ![f] = v] # Nothing
          /\ folder' = [folder EXCEPT !.files[f] = v]
          /\ UNCHANGED <<layer, dirty>>
       \/ /\ mount = "live" /\ ~Frozen
          /\ View(Served)[f] # v
          /\ [View(Served) EXCEPT ![f] = v] # Nothing
          /\ layer' = [layer EXCEPT
                 ![Served].changes = LayerWrite(@, store[Served].files, f, v)]
          /\ dirty' = TRUE
          /\ UNCHANGED folder
    /\ UNCHANGED <<pc, by, record, session, backup, store, target, faults>>

\* The session thread stops, or someone unmounts the path.
SessionEnds ==
    /\ mount = "live" /\ Fault("mount")
    /\ mount' \in {"dead", "none"}
    /\ UNCHANGED <<pc, by, record, handle, disk, work, writes>>

-----------------------------------------------------------------------------
(* Start, stop and crash of the coordinator *)

\* The record is loaded and recover_packs runs before the first client.
Starts ==
    /\ pc = "down"
    /\ mem' = saved
    /\ pc' = IF saved = NoRecord THEN "loop" ELSE "recover"
    /\ by' = "recover"
    /\ UNCHANGED <<saved, session, disk, work, counts>>

Forgets == /\ pc' = "down" /\ mem' = saved /\ by' = "task"
           /\ target' = 0 /\ dirty' = FALSE /\ handle' = FALSE

\* The kernel keeps a mount whose server died.
Crash ==
    /\ pc # "down" /\ Fault("crash")
    /\ Forgets
    /\ mount' = IF mount = "live" THEN "dead" ELSE mount
    /\ UNCHANGED <<saved, disk, writes>>

\* A process that returns drops its sessions, which unmounts them.
Unmounted == mount' = IF mount = "live" /\ ~handle THEN "dead"
                      ELSE IF handle THEN "none" ELSE mount

\* Restart, the idle exit, or an error that ends the loop.
Exit ==
    /\ pc = "loop"
    /\ Forgets /\ Unmounted
    /\ UNCHANGED <<saved, disk, counts>>

-----------------------------------------------------------------------------
(* How a step goes on, and how it fails *)

\* A failed task returns to the loop.  After a storage job the loop writes the records
\* once more, after a direct command it does not.  recover_packs asks for attention.
Returns ==
    IF by = "recover"
    THEN /\ mem' = [mem EXCEPT !.phase = "Attention"]
         /\ pc' = "saving"
    ELSE mem' = mem /\ pc' \in {"loop", "saving"}

\* The last save of a transaction, of a storage job, or of recover_packs.
Saves ==
    /\ pc = "saving"
    /\ pc' = "loop" /\ by' = "task" /\ target' = 0 /\ dirty' = FALSE
    /\ saved' = mem
    /\ UNCHANGED <<mem, session, disk, counts>>

SaveFails ==
    /\ pc = "saving" /\ Fault("save")
    /\ \/ /\ by = "task" /\ pc' = "loop"
          /\ UNCHANGED <<by, mem, session, work>>
       \/ Forgets /\ Unmounted
    /\ UNCHANGED <<saved, disk, writes>>

-----------------------------------------------------------------------------
(* Activation *)

\* A job may build the store first.  An existing store may be activated again.
BeginActivate(k) ==
    /\ pc = "loop" /\ ~HasRecord
    /\ mount = "none" /\ folder.files # Nothing
    /\ layer[k].st = "none" \/ Reuse
    /\ store[k].st \in {"none", "whole"}
    /\ store' = IF store[k].st = "none"
                THEN [store EXCEPT ![k] = [st |-> "whole", files |-> folder.files]]
                ELSE store
    /\ target' = k /\ by' = "task" /\ pc' = "verify"
    /\ UNCHANGED <<record, session, folder, backup, layer, dirty, counts>>

\* prepare: the folder equals the store, and no rollback folder is in the way.
Verifies ==
    /\ pc = "verify"
    /\ layer' = IF layer[target].st = "none" THEN [layer EXCEPT ![target] = NewLayer] ELSE layer
    /\ IF folder.files = store[target].files /\ ~backup.kept
       THEN pc' = "verified" /\ UNCHANGED mem
       ELSE Returns
    /\ UNCHANGED <<by, saved, session, folder, backup, store, work, counts>>

Prepared == [phase |-> "Switching", at |-> target, backup |-> TRUE, prev |-> 0]

\* Variant for a mutation: the switch starts before the record is saved.
RecordsLate ==
    /\ pc = "verified"
    /\ mem' = Prepared
    /\ pc' = "switch"
    /\ UNCHANGED <<by, saved, session, disk, work, counts>>

\* activate_prepared: the record is pushed and saved before the switch.
Records ==
    /\ pc = "verified"
    /\ Save(Prepared)
    /\ pc' = "switch"
    /\ UNCHANGED <<by, session, disk, work, counts>>

RecordFails ==
    /\ pc = "verified" /\ Fault("save")
    /\ mem' = Prepared /\ pc' \in {"loop", "saving"}
    /\ UNCHANGED <<by, saved, session, disk, work, writes>>

\* activate: a folder already moved aside is not moved again.
MovesOriginal ==
    /\ pc = "switch"
    /\ \/ backup.kept /\ UNCHANGED <<folder, backup>>
       \/ /\ ~backup.kept /\ folder.there /\ mount = "none"
          /\ backup' = [kept |-> TRUE, files |-> folder.files]
          /\ folder' = [there |-> FALSE, files |-> Nothing]
    /\ pc' = "mounting"
    /\ UNCHANGED <<by, record, session, store, layer, work, counts>>

MoveFails ==
    /\ pc = "switch" /\ ~backup.kept /\ Fault("mount")
    /\ Returns
    /\ UNCHANGED <<by, saved, session, disk, work, writes>>

-----------------------------------------------------------------------------
(* Mounting *)

\* clear_disconnected_mount, then the path must be an empty folder.
Clears ==
    /\ pc = "clearing"
    /\ mount' = "none"
    /\ IF folder.files = Nothing THEN pc' = "mounting" /\ UNCHANGED mem ELSE Returns
    /\ UNCHANGED <<by, saved, handle, disk, work, counts>>

ClearFails ==
    /\ pc = "clearing" /\ mount # "none" /\ Fault("mount")
    /\ Returns
    /\ UNCHANGED <<by, saved, session, disk, work, writes>>

\* The mount point is made if it is missing.  Opening a missing layer creates it.
CanMount == /\ mount = "none" /\ folder.files = Nothing
            /\ StoreOpens(mem.at) /\ LayerOpens(mem.at)

Mounts ==
    /\ pc = "mounting" /\ CanMount
    /\ folder' = [folder EXCEPT !.there = TRUE]
    /\ layer' = IF layer[mem.at].st = "none" THEN [layer EXCEPT ![mem.at] = NewLayer] ELSE layer
    /\ mount' = "live" /\ handle' = TRUE
    /\ mem' = [mem EXCEPT !.phase = "Mounted"]
    /\ pc' = "saving"
    /\ UNCHANGED <<by, saved, backup, store, work, counts>>

MountRefused ==
    /\ pc = "mounting" /\ ~CanMount
    /\ folder' = [folder EXCEPT !.there = TRUE]
    /\ Returns
    /\ UNCHANGED <<by, saved, session, backup, store, layer, work, counts>>

MountFails ==
    /\ pc = "mounting" /\ CanMount /\ (Fault("mount") \/ Fault("open"))
    /\ folder' = [folder EXCEPT !.there = TRUE]
    /\ Returns
    /\ UNCHANGED <<by, saved, session, backup, store, layer, work, writes>>

-----------------------------------------------------------------------------
(* Recovery *)

\* recover_packs: at start, and every few seconds while the mount is missing.
CanRecover == pc = "recover" \/ (pc = "loop" /\ HasRecord /\ ~handle)

\* Variant for a mutation: a record that needs attention is not retried.
RecoversReady ==
    /\ CanRecover
    /\ by' = "recover"
    /\ \/ /\ mem.phase = "Restoring"
          /\ mem' = [mem EXCEPT !.phase = "Attention"] /\ pc' = "saving"
       \/ /\ mem.phase = "Reclaiming"
          /\ IF StoreOpens(mem.at)
             THEN pc' = "deleting" /\ UNCHANGED mem
             ELSE mem' = [mem EXCEPT !.phase = "Attention"] /\ pc' = "saving"
       \/ mem.phase = "Pruning" /\ pc' = "pruning" /\ UNCHANGED mem
       \/ /\ mem.phase = "Compacting"
          /\ mem' = [mem EXCEPT !.phase = "Mounted"] /\ pc' = "clearing"
       \/ mem.phase = "Switching" /\ pc' = "switch" /\ UNCHANGED mem
       \/ mem.phase = "Mounted" /\ pc' = "clearing" /\ UNCHANGED mem
    /\ UNCHANGED <<saved, session, disk, work, counts>>

\* recover: each phase names the work that is left.  An interrupted restoration, and a
\* store that does not open, wait for attention.
Recovers ==
    /\ CanRecover
    /\ by' = "recover"
    /\ \/ /\ mem.phase = "Restoring"
          /\ mem' = [mem EXCEPT !.phase = "Attention"] /\ pc' = "saving"
       \/ /\ mem.phase = "Reclaiming"
          /\ IF StoreOpens(mem.at)
             THEN pc' = "deleting" /\ UNCHANGED mem
             ELSE mem' = [mem EXCEPT !.phase = "Attention"] /\ pc' = "saving"
       \/ mem.phase = "Pruning" /\ pc' = "pruning" /\ UNCHANGED mem
       \/ /\ mem.phase = "Compacting"
          /\ mem' = [mem EXCEPT !.phase = "Mounted"] /\ pc' = "clearing"
       \/ mem.phase = "Switching" /\ pc' = "switch" /\ UNCHANGED mem
       \/ mem.phase \in {"Mounted", "Attention"} /\ pc' = "clearing" /\ UNCHANGED mem
    /\ UNCHANGED <<saved, session, disk, work, counts>>

RecoverFails ==
    /\ CanRecover /\ mem.phase = "Reclaiming" /\ Fault("open")
    /\ by' = "recover"
    /\ mem' = [mem EXCEPT !.phase = "Attention"] /\ pc' = "saving"
    /\ UNCHANGED <<saved, session, disk, work, writes>>

\* Mount upkeep drops a session that ended, whatever the record was doing.
Upkeep ==
    /\ pc = "loop" /\ handle /\ mount # "live"
    /\ handle' = FALSE
    /\ mem' = IF HasRecord THEN [mem EXCEPT !.phase = "Attention"] ELSE mem
    /\ UNCHANGED <<pc, by, saved, mount, disk, work, counts>>

-----------------------------------------------------------------------------
(* Reclaiming the retained original *)

\* A transaction that starts with a saved phase.
Begins(phase, step) ==
    /\ pc = "loop" /\ HasRecord /\ PathResolves
    /\ by' = "task"
    /\ \/ Save([mem EXCEPT !.phase = phase]) /\ pc' = step /\ UNCHANGED faults
       \/ /\ Fault("save") /\ mem' = [mem EXCEPT !.phase = phase] /\ UNCHANGED saved
          /\ pc' \in {"loop", "saving"}
    /\ UNCHANGED <<session, disk, work, writes>>

\* Variant for a mutation: the delete starts before the phase is saved.
BeginReclaimUnsaved ==
    /\ mem.phase = "Mounted" /\ mem.backup
    /\ StoreOpens(mem.at)
    /\ pc = "loop" /\ PathResolves
    /\ mem' = [mem EXCEPT !.phase = "Reclaiming"]
    /\ by' = "task" /\ pc' = "deleting"
    /\ UNCHANGED <<saved, session, disk, work, counts>>

\* The whole store is verified first.
BeginReclaim ==
    /\ mem.phase = "Mounted" /\ mem.backup
    /\ StoreOpens(mem.at)
    /\ Begins("Reclaiming", "deleting")

\* finish_reclaim removes a tree file by file.
DeletesFile(f) ==
    /\ pc = "deleting" /\ backup.files[f] # 0
    /\ backup' = [backup EXCEPT !.files[f] = 0]
    /\ UNCHANGED <<pc, by, record, session, folder, store, layer, work, counts>>

DeleteFails ==
    /\ pc = "deleting" /\ backup.kept /\ Fault("delete")
    /\ Returns
    /\ UNCHANGED <<by, saved, session, disk, work, writes>>

Deleted ==
    /\ pc = "deleting" /\ backup.files = Nothing
    /\ backup' = NoBackup
    /\ mem' = [mem EXCEPT !.backup = FALSE, !.phase = "Mounted"]
    /\ pc' = IF by = "recover" THEN "clearing" ELSE "saving"
    /\ UNCHANGED <<by, saved, session, folder, store, layer, work, counts>>

-----------------------------------------------------------------------------
(* Compaction *)

Unused(k) == store[k].st = "none" /\ layer[k].st = "none"

\* Variant for a mutation: the retained original may still be there.
BeginCompactEarly(k) ==
    /\ pc = "loop" /\ mem.phase = "Mounted" /\ PathResolves
    /\ mem.prev = 0
    /\ StoreOpens(mem.at) /\ handle /\ mount = "live"
    /\ Unused(k)
    /\ store' = [store EXCEPT ![k] = [st |-> "building", files |-> View(mem.at)]]
    /\ target' = k /\ dirty' = FALSE /\ by' = "task" /\ pc' = "building"
    /\ UNCHANGED <<record, session, folder, backup, layer, counts>>

\* The build reads the mounted view while the game goes on.
BeginCompact(k) ==
    /\ pc = "loop" /\ mem.phase = "Mounted" /\ PathResolves
    /\ mem.prev = 0 /\ ~mem.backup
    /\ StoreOpens(mem.at) /\ handle /\ mount = "live"
    /\ Unused(k)
    /\ store' = [store EXCEPT ![k] = [st |-> "building", files |-> View(mem.at)]]
    /\ target' = k /\ dirty' = FALSE /\ by' = "task" /\ pc' = "building"
    /\ UNCHANGED <<record, session, folder, backup, layer, counts>>

\* Variant for a mutation: the generation is not compared.
FreezesAnyway ==
    /\ pc = "building" /\ mount = "live"
    /\ store' = [store EXCEPT ![target].st = "whole"]
    /\ pc' = "frozen"
    /\ UNCHANGED <<by, record, session, folder, backup, layer, work, counts>>

\* freeze, and the generation is what it was.
Freezes ==
    /\ pc = "building" /\ mount = "live" /\ ~dirty
    /\ store' = [store EXCEPT ![target].st = "whole"]
    /\ pc' = "frozen"
    /\ UNCHANGED <<by, record, session, folder, backup, layer, work, counts>>

\* Variant for a mutation: the store in use is removed instead.
DiscardsOld ==
    /\ pc = "building" /\ (dirty \/ mount # "live")
    /\ store' = [store EXCEPT ![mem.at] = NoStore]
    /\ Returns
    /\ UNCHANGED <<by, saved, session, folder, backup, layer, work, counts>>

\* A write during the build, or a mount that ended: the new store is removed.
Discards ==
    /\ pc = "building" /\ (dirty \/ mount # "live")
    /\ store' = [store EXCEPT ![target] = NoStore]
    /\ Returns
    /\ UNCHANGED <<by, saved, session, folder, backup, layer, work, counts>>

\* A client stops the job before the switch.
Cancels ==
    /\ pc = "building"
    /\ store' = [store EXCEPT ![target] = NoStore]
    /\ Returns
    /\ UNCHANGED <<by, saved, session, folder, backup, layer, work, counts>>

RecordsSwitch ==
    /\ pc = "frozen"
    /\ Save([mem EXCEPT !.phase = "Compacting"])
    /\ pc' = "stopping"
    /\ UNCHANGED <<by, session, disk, work, counts>>

SwitchFails ==
    /\ pc = "frozen" /\ Fault("save")
    /\ mem' = [mem EXCEPT !.phase = "Compacting"] /\ pc' \in {"loop", "saving"}
    /\ UNCHANGED <<by, saved, session, disk, work, writes>>

\* The session is taken out of the list before it is stopped.
Unmounts(step, next) ==
    /\ pc = step
    /\ handle' = FALSE /\ mount' = IF handle THEN "none" ELSE mount
    /\ pc' = next
    /\ UNCHANGED <<by, record, disk, work, counts>>

UnmountFails ==
    /\ pc \in {"stopping", "unmounting"} /\ handle /\ Fault("mount")
    /\ handle' = FALSE
    /\ Returns
    /\ UNCHANGED <<by, saved, mount, disk, work, writes>>

Switched == [mem EXCEPT !.at = target, !.prev = mem.at, !.phase = "Mounted"]

\* Variant for a mutation: the new store is mounted before it is recorded.
SwitchesUnsaved ==
    /\ pc = "switching"
    /\ mem' = Switched
    /\ pc' = "clearing"
    /\ UNCHANGED <<by, saved, session, disk, work, counts>>

Switches ==
    /\ pc = "switching"
    /\ Save(Switched)
    /\ pc' = "clearing"
    /\ UNCHANGED <<by, session, disk, work, counts>>

SwitchedUnsaved ==
    /\ pc = "switching" /\ Fault("save")
    /\ mem' = Switched /\ pc' \in {"loop", "saving"}
    /\ UNCHANGED <<by, saved, session, disk, work, writes>>

-----------------------------------------------------------------------------
(* Pruning the version a compaction replaced *)

BeginPrune ==
    /\ mem.phase = "Mounted" /\ mem.prev # 0
    /\ StoreOpens(mem.at)
    /\ Begins("Pruning", "pruning")

\* finish_prune: the previous store is not the current one, and what is left of it must
\* still open.
PruneChecks ==
    /\ pc = "pruning"
    /\ IF mem.prev = mem.at \/ store[mem.prev].st = "broken" THEN Returns
       ELSE /\ pc' = IF store[mem.prev].st = "none" THEN "layer" ELSE "removing"
            /\ UNCHANGED mem
    /\ UNCHANGED <<by, saved, session, disk, work, counts>>

\* A directory store no longer opens once its manifest is gone.
StoreTears ==
    /\ pc = "removing" /\ store[mem.prev].st = "whole"
    /\ store' = [store EXCEPT ![mem.prev].st = "broken"]
    /\ UNCHANGED <<pc, by, record, session, folder, backup, layer, work, counts>>

StoreRemoved ==
    /\ pc = "removing"
    /\ store' = [store EXCEPT ![mem.prev] = NoStore]
    /\ pc' = "layer"
    /\ UNCHANGED <<by, record, session, folder, backup, layer, work, counts>>

\* The same for the layer, whose journal marks it.
LayerTears ==
    /\ pc = "layer" /\ layer[mem.prev].st # "none"
    /\ IF layer[mem.prev].st = "whole"
       THEN /\ layer' = [layer EXCEPT ![mem.prev].st = "broken"]
            /\ pc' = "unlayering" /\ UNCHANGED mem
       ELSE UNCHANGED layer /\ Returns
    /\ UNCHANGED <<by, saved, session, folder, backup, store, work, counts>>

PruneFails ==
    /\ pc \in {"removing", "unlayering"} /\ Fault("delete")
    /\ Returns
    /\ UNCHANGED <<by, saved, session, disk, work, writes>>

Pruned ==
    /\ \/ pc = "layer" /\ layer[mem.prev].st = "none"
       \/ pc = "unlayering"
    /\ layer' = [layer EXCEPT ![mem.prev] = NoLayer]
    /\ mem' = [mem EXCEPT !.prev = 0, !.phase = "Mounted"]
    /\ pc' = IF by = "recover" THEN "clearing" ELSE "saving"
    /\ UNCHANGED <<by, saved, session, folder, backup, store, work, counts>>

-----------------------------------------------------------------------------
(* Restoring ordinary files *)

BeginRollback == Begins("Restoring", "unmounting")

\* After the unmount the path must be an empty folder.
Empties ==
    /\ pc = "emptied"
    /\ folder' = [folder EXCEPT !.there = TRUE]
    /\ IF mount = "none" /\ folder.files = Nothing THEN pc' = "merging" /\ UNCHANGED mem
       ELSE Returns
    /\ UNCHANGED <<by, saved, session, backup, store, layer, work, counts>>

\* apply_to edits the retained original in place.
MergesFile(f) ==
    /\ pc = "merging" /\ BackupIsCurrent /\ LayerOpens(mem.at) /\ backup.kept
    /\ f \in DOMAIN layer[mem.at].changes /\ layer[mem.at].changes[f] # backup.files[f]
    /\ backup' = [backup EXCEPT !.files[f] = layer[mem.at].changes[f]]
    /\ UNCHANGED <<pc, by, record, session, folder, store, layer, work, counts>>

\* What is about to be renamed to the game path is complete: the original with the layer
\* merged in, or a staging folder built from the store and the layer.
CanRestore ==
    /\ LayerOpens(mem.at)
    /\ IF BackupIsCurrent
       THEN backup.kept /\ backup.files = Merged(layer[mem.at].changes, backup.files)
       ELSE StoreOpens(mem.at)

Restorable == IF BackupIsCurrent THEN backup.kept /\ LayerOpens(mem.at) ELSE CanRestore

RemovesMountPoint ==
    /\ pc = "merging" /\ CanRestore
    /\ folder' = [folder EXCEPT !.there = FALSE]
    /\ pc' = "publishing"
    /\ UNCHANGED <<by, record, session, backup, store, layer, work, counts>>

RestoreRefused ==
    /\ pc = "merging" /\ ~Restorable
    /\ Returns
    /\ UNCHANGED <<by, saved, session, disk, work, counts>>

RestoreFails ==
    /\ pc = "merging" /\ Fault("merge")
    /\ Returns
    /\ UNCHANGED <<by, saved, session, disk, work, writes>>

Publishes ==
    /\ pc = "publishing"
    /\ folder' = [there |-> TRUE,
                  files |-> IF BackupIsCurrent THEN backup.files ELSE View(mem.at)]
    /\ backup' = IF BackupIsCurrent THEN NoBackup ELSE backup
    /\ pc' = "forgetting"
    /\ UNCHANGED <<by, record, session, store, layer, work, counts>>

\* The record is removed once ordinary files are back.
Restored ==
    /\ pc = "forgetting"
    /\ mem' = NoRecord /\ pc' = "saving"
    /\ UNCHANGED <<by, saved, session, disk, work, counts>>

\* VerifyRestored closes the record of an interrupted restoration.
VerifyRestored ==
    /\ pc = "loop" /\ mem.phase \in {"Attention", "Restoring"}
    /\ mount = "none" /\ StoreOpens(mem.at) /\ layer[mem.at].st = "whole"
    /\ folder.files = View(mem.at)
    /\ mem' = NoRecord /\ pc' = "saving" /\ by' = "task"
    /\ UNCHANGED <<saved, session, disk, work, counts>>

-----------------------------------------------------------------------------

Environment ==
    \/ \E f \in Files, v \in Values : GameWrites(f, v)
    \/ SessionEnds \/ Crash \/ Exit

Client ==
    \/ \E k \in Ids : BeginActivate(k)
    \/ \E k \in Ids : BeginCompact(k)
    \/ BeginReclaim \/ BeginPrune \/ BeginRollback \/ VerifyRestored \/ Cancels

\* The steps that carry a transaction to its end.
Progress ==
    \/ Starts \/ Saves \/ Upkeep
    \/ Verifies \/ Records \/ MovesOriginal
    \/ Clears \/ Mounts \/ MountRefused
    \/ \E f \in Files : DeletesFile(f)
    \/ \E f \in Files : MergesFile(f)
    \/ Deleted
    \/ Freezes \/ Discards \/ RecordsSwitch \/ Unmounts("stopping", "switching") \/ Switches
    \/ PruneChecks \/ StoreTears \/ StoreRemoved \/ LayerTears \/ Pruned
    \/ Unmounts("unmounting", "emptied") \/ Empties
    \/ RemovesMountPoint \/ RestoreRefused \/ Publishes \/ Restored

Failure ==
    \/ SaveFails \/ RecordFails \/ MoveFails \/ ClearFails \/ MountFails \/ RecoverFails
    \/ DeleteFails \/ SwitchFails \/ UnmountFails \/ SwitchedUnsaved
    \/ PruneFails \/ RestoreFails

Next == Environment \/ Client \/ Progress \/ Recovers \/ Failure

Spec == Init /\ [][Next]_vars

\* Transactions run to their end, and recovery is retried while the mount is missing.  A
\* client that asks again and again does not always come before the retry.
FairSpec ==
    /\ Spec /\ WF_vars(Progress)
    /\ SF_vars(Recovers) /\ SF_vars(mem.phase = "Attention" /\ Recovers)

-----------------------------------------------------------------------------
(* Properties *)

StepOK ==
    /\ pc \in {"down", "loop", "verify", "verified", "switch", "mounting", "clearing",
               "recover", "saving", "deleting", "building", "frozen", "stopping",
               "switching", "pruning", "removing", "layer", "unlayering", "unmounting",
               "emptied", "merging", "publishing", "forgetting"}
    /\ by \in {"task", "recover"}
    /\ target \in Ids \cup {0} /\ dirty \in BOOLEAN

RecordOK == mem \in Record \cup {NoRecord} /\ saved \in Record \cup {NoRecord}

FolderOK ==
    /\ folder \in [there: BOOLEAN, files: Content] /\ (folder.files # Nothing => folder.there)
    /\ mount \in {"none", "live", "dead"} /\ handle \in BOOLEAN
    /\ backup \in [kept: BOOLEAN, files: Content]

StoreOK ==
    /\ store \in [Ids -> [st: {"none", "building", "whole", "broken"}, files: Content]]
    /\ layer \in [Ids -> [st: {"none", "whole", "broken"}, changes: Changes]]

CountOK == writes \in 0 .. MaxWrites /\ faults \in [Kinds -> Nat]

\* Every variable holds what the code keeps in it, and the game path holds files only
\* while the folder is there.
TypeOK == StepOK /\ RecordOK /\ FolderOK /\ StoreOK /\ CountOK

\* The game's files as a restart would find them: ordinary files at the game path, else
\* the recorded store with its layer.
Recoverable ==
    IF folder.files # Nothing THEN folder.files
    ELSE IF saved # NoRecord /\ store[saved.at].st = "whole" /\ LayerOpens(saved.at)
    THEN View(saved.at) ELSE Nothing

\* Only the game changes its files: no transaction, crash or recovery loses, revives or
\* alters one (pack-store.md: a restart recovers on either side of every switch).
Game == INSTANCE GameFiles WITH content <- Recoverable
KeepsGame == Game!Spec

\* What the game sees and writes through the mount is what a restart would mount.
ServedIsRecorded == mount = "live" => saved.at = mem.at

\* The retained original is moved aside only under a saved record (activate_prepared:
\* the record is on disk before the switch).
RecordedFirst == backup.kept => saved # NoRecord \/ folder.files # Nothing

\* Files of the retained original go only while the saved record says so, as save_packs
\* is called before each step that changes paths on disk.
DeletesRecorded ==
    [][ \A f \in Files : (backup'.kept /\ backup'.files[f] = 0 /\ backup.files[f] # 0)
            => saved.phase \in {"Reclaiming", "Restoring"} ]_vars

\* Every recorded game comes back: mounted, or as ordinary files.
GameReturns ==
    (saved # NoRecord) ~> (mount = "live" \/ folder.files # Nothing \/ saved = NoRecord)

\* While the record offers the original, it and the layer make the game the mount shows,
\* so that a rollback from it puts every file back.
OriginalServes ==
    (saved.backup /\ saved.prev = 0 /\ backup.kept
        /\ saved.phase \in {"Mounted", "Attention", "Restoring"})
    => Merged(layer[saved.at].changes, backup.files) = View(saved.at)

\* The stores the two records name are whole: what is deleted is never the store a
\* restart would mount.
StoresKept == \A r \in {mem, saved} : r # NoRecord => store[r.at].st = "whole"

-----------------------------------------------------------------------------
(* What documents and messages of the repository say, and the code does not keep *)

\* rollback: "puts ordinary files back at the game path, with every change from the
\* update layer applied" (install.rs).
RestoresEverything ==
    [][ (folder.files = Nothing /\ folder'.files # Nothing)
            => folder'.files = View(mem.at) ]_vars

\* recover_packs: "Restoration was interrupted. Retained copies are unchanged".  The
\* retained original was compared with the store when it was moved aside.
RetainedUnchanged ==
    [][ (mem.phase = "Restoring" /\ mem'.phase = "Attention" /\ BackupIsCurrent /\ backup.kept)
            => backup.files = store[mem.at].files ]_vars

\* activate: "verifies that the store still matches every source path and byte before
\* changing the launcher path" (pack-store.md).
SwitchesChecked ==
    [][ (~backup.kept /\ backup'.kept) => folder.files = store[mem.at].files ]_vars

\* The same sentence, for what the launcher path shows after the change.
ShowsCheckedFiles ==
    [][ (saved = NoRecord /\ saved'.phase = "Switching")
            => View(saved'.at) = folder.files ]_vars

\* InstallPhase::Pruning: "The previous store and layer are being deleted.  Recovery
\* finishes it."
PruneFinishes == (saved.phase = "Pruning") ~> (saved.prev = 0)

=============================================================================

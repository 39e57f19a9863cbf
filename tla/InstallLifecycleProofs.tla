------------------------- MODULE InstallLifecycleProofs ------------------------
(***************************************************************************)
(* Type correctness of InstallLifecycle, and what the order of saves gives *)
(* while the settings table can be written.  Every case is a part of the   *)
(* next-state relation, in the order of the module.  A second part has the *)
(* stores that records name, the retained original and the refinement.     *)
(* The third part is about NativeWindow, the window on macOS and Windows,  *)
(* which shares nothing with the stores: however loads, edits, saves,      *)
(* scans, polls, plans and jobs overlap, the saved preferences are those   *)
(* shown, no place is lost, and one operation works at a time, for any     *)
(* places, settings, builds and numbers of events.                         *)
(***************************************************************************)
EXTENDS InstallLifecycle, NativeWindow, SequenceTheorems, FiniteSetTheorems, TLAPS
LOCAL INSTANCE SequencesExt

-----------------------------------------------------------------------------
(* Trees, layers and records *)

LEMMA NothingIsContent == Nothing \in Content
BY DEF Nothing, Content, Values

LEMMA MergedIsContent ==
    ASSUME NEW changes \in Changes, NEW files \in Content
    PROVE  Merged(changes, files) \in Content
<1>1. PICK S \in SUBSET Files : changes \in [S -> Values]
  BY DEF Changes
<1>2. ASSUME NEW f \in Files
      PROVE  (IF f \in DOMAIN changes THEN changes[f] ELSE files[f]) \in Values
  BY <1>1, <1>2 DEF Content
<1>. QED BY <1>2 DEF Merged, Content

LEMMA LayerWriteIsChanges ==
    ASSUME NEW changes \in Changes, NEW files, NEW f \in Files, NEW v \in Values
    PROVE  LayerWrite(changes, files, f, v) \in Changes
<1>1. PICK S \in SUBSET Files : changes \in [S -> Values]
  BY DEF Changes
<1>2. [g \in DOMAIN changes \ {f} |-> changes[g]] \in [S \ {f} -> Values]
  BY <1>1
<1>3. [g \in DOMAIN changes \cup {f} |-> IF g = f THEN v ELSE changes[g]] \in [S \cup {f} -> Values]
  BY <1>1
<1>4. S \ {f} \in SUBSET Files /\ S \cup {f} \in SUBSET Files
  OBVIOUS
<1>5. \A T \in SUBSET Files : \A c \in [T -> Values] : c \in Changes
  BY DEF Changes
<1>. QED BY <1>2, <1>3, <1>4, <1>5 DEF LayerWrite

LEMMA NoChangesIsChanges == NoChanges \in Changes
<1>1. {} \in SUBSET Files /\ NoChanges \in [{} -> Values]
  BY DEF NoChanges
<1>. QED BY <1>1 DEF Changes

LEMMA ViewIsContent ==
    ASSUME StoreOK, NEW k \in Ids
    PROVE  View(k) \in Content
<1>1. layer[k].changes \in Changes /\ store[k].files \in Content
  BY DEF StoreOK
<1>. QED BY <1>1, MergedIsContent DEF View

-----------------------------------------------------------------------------
(* Type correctness *)

\* What each step of a transaction may rely on.
StepInv ==
    /\ pc \in {"verify", "verified"} => by = "task"
    /\ pc \in {"verify", "verified", "building", "frozen", "stopping", "switching"}
          => target \in Ids
    /\ pc \notin {"down", "loop", "verify", "verified", "saving"} => mem \in Record
    /\ pc \in {"merging", "publishing"} => folder.files = Nothing

TypeInv == TypeOK /\ StepInv

LEMMA InitTypeInv == Init => TypeInv
<1>. SUFFICES ASSUME Init PROVE TypeInv
  OBVIOUS
<1>1. StepOK
  BY DEF Init, StepOK
<1>2. RecordOK /\ StepInv
  BY DEF Init, RecordOK, StepInv
<1>3. CountOK
  BY LifecycleAssumption DEF Init, CountOK
<1>4. FolderOK
  <2>1. PICK c \in Content : c # Nothing /\ folder = [there |-> TRUE, files |-> c]
    BY DEF Init
  <2>. QED BY <2>1, NothingIsContent DEF Init, FolderOK, NoBackup
<1>5. StoreOK
  BY NothingIsContent, NoChangesIsChanges DEF Init, StoreOK, NoStore, NoLayer
<1>. QED BY <1>1, <1>2, <1>3, <1>4, <1>5 DEF TypeInv, TypeOK

\* The step, and what it works on, keep their types.
LEMMA StepStep == TypeInv /\ Next => StepOK'
<1>. SUFFICES ASSUME TypeInv, Next PROVE StepOK'
  OBVIOUS
<1>. USE DEF work
<1>1. CASE (\E f \in Files, v \in Values : GameWrites(f, v))
  BY <1>1 DEF TypeInv, TypeOK, StepOK, GameWrites
<1>2. CASE SessionEnds \/ Crash \/ Exit \/ Starts \/ Saves \/ SaveFails
  BY <1>2 DEF TypeInv, TypeOK, StepOK, SessionEnds, Fault, Crash, Forgets, Exit,
         Unmounted, Starts, Saves, SaveFails
<1>3. CASE (\E k \in Ids : BeginActivate(k))
  BY <1>3 DEF TypeInv, TypeOK, StepOK, BeginActivate, HasRecord
<1>4. CASE Verifies \/ MovesOriginal \/ MoveFails
  BY <1>4 DEF TypeInv, TypeOK, StepOK, Verifies, Returns, MovesOriginal, MoveFails, Fault
<1>5. CASE Records
  BY <1>5 DEF TypeInv, TypeOK, StepOK, Records, Save, Prepared
<1>6. CASE RecordFails
  BY <1>6 DEF TypeInv, TypeOK, StepOK, RecordFails, Fault, Prepared
<1>7. CASE Clears \/ ClearFails \/ Mounts \/ MountRefused \/ MountFails
  BY <1>7 DEF TypeInv, TypeOK, StepOK, Clears, Returns, ClearFails, Fault, Mounts,
         MountRefused, MountFails
<1>8. CASE Recovers \/ RecoverFails \/ Upkeep
  BY <1>8 DEF TypeInv, TypeOK, StepOK, Recovers, CanRecover, HasRecord, RecoverFails,
         Fault, Upkeep
<1>9. CASE BeginReclaim \/ DeleteFails
  BY <1>9 DEF TypeInv, TypeOK, StepOK, BeginReclaim, Begins, Save, Fault, HasRecord,
         DeleteFails, Returns
<1>10. CASE (\E f \in Files : DeletesFile(f))
  BY <1>10 DEF TypeInv, TypeOK, StepOK, DeletesFile
<1>11. CASE Deleted
  BY <1>11 DEF TypeInv, TypeOK, StepOK, Deleted
<1>12. CASE (\E k \in Ids : BeginCompact(k)) \/ Freezes \/ Discards \/ Cancels
            \/ RecordsSwitch \/ SwitchFails
  BY <1>12 DEF TypeInv, TypeOK, StepOK, BeginCompact, Freezes, Discards, Returns, Cancels,
         RecordsSwitch, Save, SwitchFails, Fault
<1>13. CASE Unmounts("stopping", "switching") \/ UnmountFails \/ Switches \/
            SwitchedUnsaved
  BY <1>13 DEF TypeInv, TypeOK, StepOK, Unmounts, UnmountFails, Returns, Fault, Switches,
         Save, Switched, SwitchedUnsaved
<1>14. CASE BeginPrune \/ PruneChecks \/ PruneFails \/ StoreTears
  BY <1>14 DEF TypeInv, TypeOK, StepOK, BeginPrune, Begins, Save, Fault, HasRecord,
         PruneChecks, Returns, PruneFails, StoreTears
<1>15. CASE StoreRemoved \/ LayerTears \/ Pruned
  BY <1>15 DEF TypeInv, TypeOK, StepOK, StoreRemoved, LayerTears, Returns, Pruned
<1>16. CASE BeginRollback \/ Unmounts("unmounting", "emptied") \/ Empties \/
            (\E f \in Files : MergesFile(f)) \/ RemovesMountPoint
  BY <1>16 DEF TypeInv, TypeOK, StepOK, BeginRollback, Begins, Save, Fault, HasRecord,
         Unmounts, Empties, Returns, MergesFile, RemovesMountPoint
<1>17. CASE RestoreRefused \/ RestoreFails \/ Publishes \/ Restored \/
            VerifyRestored
  BY <1>17 DEF TypeInv, TypeOK, StepOK, RestoreRefused, Returns, RestoreFails, Fault,
         Publishes, Restored, VerifyRestored
<1>. HIDE DEF work
<1>. QED BY <1>1, <1>2, <1>3, <1>4, <1>5, <1>6, <1>7, <1>8, <1>9, <1>10, <1>11,
            <1>12, <1>13, <1>14, <1>15, <1>16, <1>17
         DEF Next, Environment, Client, Progress, Failure

\* Both records keep their types.
LEMMA RecordStep == TypeInv /\ Next => RecordOK'
<1>. SUFFICES ASSUME TypeInv, Next PROVE RecordOK'
  OBVIOUS
<1>. USE DEF record, StepOK, StepInv, Record, NoRecord, Phases
<1>1. CASE (\E f \in Files, v \in Values : GameWrites(f, v))
  BY <1>1 DEF TypeInv, TypeOK, RecordOK, GameWrites
<1>2. CASE SessionEnds \/ Crash \/ Exit \/ Starts \/ Saves \/ SaveFails
  BY <1>2 DEF TypeInv, TypeOK, RecordOK, SessionEnds, Fault, Crash, Forgets, Exit,
         Unmounted, Starts, Saves, SaveFails
<1>3. CASE (\E k \in Ids : BeginActivate(k))
  BY <1>3 DEF TypeInv, TypeOK, RecordOK, BeginActivate, HasRecord
<1>4. CASE Verifies \/ MovesOriginal \/ MoveFails
  BY <1>4 DEF TypeInv, TypeOK, RecordOK, Verifies, Returns, MovesOriginal, MoveFails,
         Fault
<1>5. CASE Records
  BY <1>5 DEF TypeInv, TypeOK, RecordOK, Records, Save, Prepared
<1>6. CASE RecordFails
  BY <1>6 DEF TypeInv, TypeOK, RecordOK, RecordFails, Fault, Prepared
<1>7. CASE Clears \/ ClearFails \/ Mounts \/ MountRefused \/ MountFails
  BY <1>7 DEF TypeInv, TypeOK, RecordOK, Clears, Returns, ClearFails, Fault, Mounts,
         MountRefused, MountFails
<1>8. CASE Recovers \/ RecoverFails \/ Upkeep
  BY <1>8 DEF TypeInv, TypeOK, RecordOK, Recovers, CanRecover, HasRecord, RecoverFails,
         Fault, Upkeep
<1>9. CASE BeginReclaim \/ DeleteFails
  BY <1>9 DEF TypeInv, TypeOK, RecordOK, BeginReclaim, Begins, Save, Fault, HasRecord,
         DeleteFails, Returns
<1>10. CASE (\E f \in Files : DeletesFile(f))
  BY <1>10 DEF TypeInv, TypeOK, RecordOK, DeletesFile
<1>11. CASE Deleted
  BY <1>11 DEF TypeInv, TypeOK, RecordOK, Deleted
<1>12. CASE (\E k \in Ids : BeginCompact(k)) \/ Freezes \/ Discards \/ Cancels
            \/ RecordsSwitch \/ SwitchFails
  BY <1>12 DEF TypeInv, TypeOK, RecordOK, BeginCompact, Freezes, Discards, Returns,
         Cancels, RecordsSwitch, Save, SwitchFails, Fault
<1>13. CASE Unmounts("stopping", "switching") \/ UnmountFails \/ Switches \/
            SwitchedUnsaved
  BY <1>13 DEF TypeInv, TypeOK, RecordOK, Unmounts, UnmountFails, Returns, Fault,
         Switches, Save, Switched, SwitchedUnsaved
<1>14. CASE BeginPrune \/ PruneChecks \/ PruneFails \/ StoreTears
  BY <1>14 DEF TypeInv, TypeOK, RecordOK, BeginPrune, Begins, Save, Fault, HasRecord,
         PruneChecks, Returns, PruneFails, StoreTears
<1>15. CASE StoreRemoved \/ LayerTears \/ Pruned
  BY <1>15 DEF TypeInv, TypeOK, RecordOK, StoreRemoved, LayerTears, Returns, Pruned
<1>16. CASE BeginRollback \/ Unmounts("unmounting", "emptied") \/ Empties \/
            (\E f \in Files : MergesFile(f)) \/ RemovesMountPoint
  BY <1>16 DEF TypeInv, TypeOK, RecordOK, BeginRollback, Begins, Save, Fault, HasRecord,
         Unmounts, Empties, Returns, MergesFile, RemovesMountPoint
<1>17. CASE RestoreRefused \/ RestoreFails \/ Publishes \/ Restored \/
            VerifyRestored
  BY <1>17 DEF TypeInv, TypeOK, RecordOK, RestoreRefused, Returns, RestoreFails, Fault,
         Publishes, Restored, VerifyRestored
<1>. HIDE DEF record, StepOK, StepInv, Record, NoRecord, Phases
<1>. QED BY <1>1, <1>2, <1>3, <1>4, <1>5, <1>6, <1>7, <1>8, <1>9, <1>10, <1>11,
            <1>12, <1>13, <1>14, <1>15, <1>16, <1>17
         DEF Next, Environment, Client, Progress, Failure

\* The game path, its mount and the retained original keep their types.
LEMMA FolderStep == TypeInv /\ Next => FolderOK'
<1>. SUFFICES ASSUME TypeInv, Next PROVE FolderOK'
  OBVIOUS
<1>. USE NothingIsContent DEF NoBackup, session, disk, StepInv, Record
<1>1. ASSUME NEW f \in Files, NEW v \in Values, GameWrites(f, v)
      PROVE  FolderOK'
  <2>1. UNCHANGED <<session, backup>> /\ FolderOK
    BY <1>1 DEF GameWrites, TypeInv, TypeOK
  <2>2. CASE folder' = [folder EXCEPT !.files[f] = v] /\ folder.files # Nothing
    <3>1. [folder.files EXCEPT ![f] = v] \in Content
      BY <2>1 DEF FolderOK, Content
    <3>2. folder' = [folder EXCEPT !.files = [folder.files EXCEPT ![f] = v]]
      BY <2>2
    <3>. QED BY <2>1, <2>2, <3>1, <3>2 DEF FolderOK
  <2>3. CASE UNCHANGED folder
    BY <2>1, <2>3 DEF FolderOK
  <2>. QED BY <1>1, <2>2, <2>3 DEF GameWrites
<1>2. CASE SessionEnds \/ Crash \/ Exit \/ Starts \/ Saves \/ SaveFails
  BY <1>2 DEF TypeInv, TypeOK, FolderOK, SessionEnds, Fault, Crash, Forgets, Exit,
         Unmounted, Starts, Saves, SaveFails
<1>3. CASE (\E k \in Ids : BeginActivate(k))
  BY <1>3 DEF TypeInv, TypeOK, FolderOK, BeginActivate, HasRecord
<1>4. CASE Verifies \/ MoveFails
  BY <1>4 DEF TypeInv, TypeOK, FolderOK, Verifies, Returns, MoveFails, Fault
<1>5. CASE MovesOriginal
  <2>1. UNCHANGED session /\ FolderOK
    BY <1>5 DEF MovesOriginal, TypeInv, TypeOK
  <2>2. CASE UNCHANGED <<folder, backup>>
    BY <2>1, <2>2 DEF FolderOK
  <2>3. CASE /\ backup' = [kept |-> TRUE, files |-> folder.files]
             /\ folder' = [there |-> FALSE, files |-> Nothing]
    BY <2>1, <2>3 DEF FolderOK
  <2>. QED BY <1>5, <2>2, <2>3 DEF MovesOriginal
<1>6. CASE Records
  BY <1>6 DEF TypeInv, TypeOK, FolderOK, Records, Save, Prepared
<1>7. CASE RecordFails
  BY <1>7 DEF TypeInv, TypeOK, FolderOK, RecordFails, Fault, Prepared
<1>8. CASE Clears \/ ClearFails \/ Mounts \/ MountRefused \/ MountFails
  BY <1>8 DEF TypeInv, TypeOK, FolderOK, Clears, Returns, ClearFails, Fault, Mounts,
         MountRefused, MountFails
<1>9. CASE Recovers \/ RecoverFails \/ Upkeep
  BY <1>9 DEF TypeInv, TypeOK, FolderOK, Recovers, CanRecover, HasRecord, RecoverFails,
         Fault, Upkeep
<1>10. CASE BeginReclaim \/ DeleteFails
  BY <1>10 DEF TypeInv, TypeOK, FolderOK, BeginReclaim, Begins, Save, Fault, HasRecord,
         DeleteFails, Returns
<1>11. ASSUME NEW f \in Files, DeletesFile(f)
      PROVE  FolderOK'
  <2>1. UNCHANGED <<session, folder>> /\ FolderOK
    BY <1>11 DEF DeletesFile, TypeInv, TypeOK
  <2>2. [backup.files EXCEPT ![f] = 0] \in Content
    BY <2>1 DEF FolderOK, Content, Values
  <2>3. backup' = [backup EXCEPT !.files = [backup.files EXCEPT ![f] = 0]]
    BY <1>11 DEF DeletesFile
  <2>. QED BY <2>1, <2>2, <2>3 DEF FolderOK
<1>12. CASE Deleted
  BY <1>12 DEF TypeInv, TypeOK, FolderOK, Deleted
<1>13. CASE (\E k \in Ids : BeginCompact(k)) \/ Freezes \/ Discards \/ Cancels
            \/ RecordsSwitch \/ SwitchFails
  BY <1>13 DEF TypeInv, TypeOK, FolderOK, BeginCompact, Freezes, Discards, Returns,
         Cancels, RecordsSwitch, Save, SwitchFails, Fault
<1>14. CASE Unmounts("stopping", "switching") \/ UnmountFails \/ Switches \/
            SwitchedUnsaved
  BY <1>14 DEF TypeInv, TypeOK, FolderOK, Unmounts, UnmountFails, Returns, Fault,
         Switches, Save, Switched, SwitchedUnsaved
<1>15. CASE BeginPrune \/ PruneChecks \/ PruneFails \/ StoreTears
  BY <1>15 DEF TypeInv, TypeOK, FolderOK, BeginPrune, Begins, Save, Fault, HasRecord,
         PruneChecks, Returns, PruneFails, StoreTears
<1>16. CASE StoreRemoved \/ LayerTears \/ Pruned
  BY <1>16 DEF TypeInv, TypeOK, FolderOK, StoreRemoved, LayerTears, Returns, Pruned
<1>17. CASE BeginRollback \/ Unmounts("unmounting", "emptied") \/ Empties \/
            RemovesMountPoint
  BY <1>17 DEF TypeInv, TypeOK, FolderOK, BeginRollback, Begins, Save, Fault, HasRecord,
         Unmounts, Empties, Returns, RemovesMountPoint
<1>18. ASSUME NEW f \in Files, MergesFile(f)
      PROVE  FolderOK'
  <2>1. UNCHANGED <<session, folder>> /\ FolderOK /\ StoreOK
    BY <1>18 DEF MergesFile, TypeInv, TypeOK
  <2>2. mem.at \in Ids
    BY <1>18 DEF MergesFile, TypeInv
  <2>3. layer[mem.at].changes[f] \in Values
    <3>1. layer[mem.at].changes \in Changes /\ f \in DOMAIN layer[mem.at].changes
      BY <1>18, <2>1, <2>2 DEF MergesFile, StoreOK
    <3>. QED BY <3>1 DEF Changes
  <2>4. [backup.files EXCEPT ![f] = layer[mem.at].changes[f]] \in Content
    BY <2>1, <2>3 DEF FolderOK, Content
  <2>5. backup' = [backup EXCEPT
                      !.files = [backup.files EXCEPT ![f] = layer[mem.at].changes[f]]]
    BY <1>18 DEF MergesFile
  <2>. QED BY <2>1, <2>4, <2>5 DEF FolderOK
<1>19. CASE RestoreRefused \/ RestoreFails \/ Restored \/ VerifyRestored
  BY <1>19 DEF TypeInv, TypeOK, FolderOK, RestoreRefused, Returns, RestoreFails, Fault,
         Restored, VerifyRestored
<1>20. CASE Publishes
  <2>1. UNCHANGED session /\ FolderOK /\ StoreOK
    BY <1>20 DEF Publishes, TypeInv, TypeOK
  <2>2. View(mem.at) \in Content
    BY <1>20, <2>1, ViewIsContent DEF Publishes, TypeInv
  <2>. QED BY <1>20, <2>1, <2>2 DEF Publishes, FolderOK
<1>. HIDE DEF NoBackup, session, disk, StepInv, Record
<1>. QED BY <1>1, <1>2, <1>3, <1>4, <1>5, <1>6, <1>7, <1>8, <1>9, <1>10, <1>11,
            <1>12, <1>13, <1>14, <1>15, <1>16, <1>17, <1>18, <1>19, <1>20
         DEF Next, Environment, Client, Progress, Failure

\* Stores and layers keep their types.
LEMMA StoreStep == TypeInv /\ Next => StoreOK'
<1>. SUFFICES ASSUME TypeInv, Next PROVE StoreOK'
  OBVIOUS
<1>. USE NothingIsContent, NoChangesIsChanges DEF NoStore, NewLayer, NoLayer, disk,
           StepOK, RecordOK, StepInv, Record
<1>1. ASSUME NEW f \in Files, NEW v \in Values, GameWrites(f, v)
      PROVE  StoreOK'
  <2>1. UNCHANGED store /\ StoreOK
    BY <1>1 DEF GameWrites, TypeInv, TypeOK
  <2>. DEFINE Written == LayerWrite(layer[Served].changes, store[Served].files, f, v)
  <2>2. CASE UNCHANGED layer
    BY <2>1, <2>2 DEF StoreOK
  <2>3. CASE layer' = [layer EXCEPT ![Served] = [layer[Served] EXCEPT !.changes = Written]]
    <3>1. CASE Served \in Ids
      <4>1. Written \in Changes
        BY <2>1, <3>1, LayerWriteIsChanges DEF StoreOK
      <4>. HIDE DEF Written
      <4>2. [layer[Served] EXCEPT !.changes = Written]
                \in [st: {"none", "whole", "broken"}, changes: Changes]
        BY <2>1, <3>1, <4>1 DEF StoreOK
      <4>. QED BY <2>1, <2>3, <3>1, <4>2 DEF StoreOK
    <3>2. CASE Served \notin Ids
      BY <2>1, <2>3, <3>2 DEF StoreOK
    <3>. QED BY <3>1, <3>2
  <2>4. UNCHANGED layer
           \/ layer' = [layer EXCEPT ![Served] = [layer[Served] EXCEPT !.changes = Written]]
    BY <1>1 DEF GameWrites
  <2>. QED BY <2>2, <2>3, <2>4
<1>2. CASE SessionEnds \/ Crash \/ Exit \/ Starts \/ Saves \/ SaveFails
  BY <1>2 DEF TypeInv, TypeOK, StoreOK, SessionEnds, Fault, Crash, Forgets, Exit,
         Unmounted, Starts, Saves, SaveFails
<1>3. ASSUME NEW k \in Ids, BeginActivate(k)
      PROVE  StoreOK'
  <2>1. UNCHANGED layer /\ StoreOK /\ folder.files \in Content
    BY <1>3 DEF BeginActivate, TypeInv, TypeOK, FolderOK
  <2>. QED BY <1>3, <2>1 DEF BeginActivate, StoreOK
<1>4. CASE Verifies \/ MovesOriginal \/ MoveFails
  BY <1>4 DEF TypeInv, TypeOK, StoreOK, Verifies, Returns, MovesOriginal, MoveFails,
         Fault
<1>5. CASE Records
  BY <1>5 DEF TypeInv, TypeOK, StoreOK, Records, Save, Prepared
<1>6. CASE RecordFails
  BY <1>6 DEF TypeInv, TypeOK, StoreOK, RecordFails, Fault, Prepared
<1>7. CASE Clears \/ ClearFails \/ Mounts \/ MountRefused \/ MountFails
  BY <1>7 DEF TypeInv, TypeOK, StoreOK, Clears, Returns, ClearFails, Fault, Mounts,
         MountRefused, MountFails
<1>8. CASE Recovers \/ RecoverFails \/ Upkeep
  BY <1>8 DEF TypeInv, TypeOK, StoreOK, Recovers, CanRecover, HasRecord, RecoverFails,
         Fault, Upkeep
<1>9. CASE BeginReclaim \/ DeleteFails
  BY <1>9 DEF TypeInv, TypeOK, StoreOK, BeginReclaim, Begins, Save, Fault, HasRecord,
         DeleteFails, Returns
<1>10. CASE (\E f \in Files : DeletesFile(f))
  BY <1>10 DEF TypeInv, TypeOK, StoreOK, DeletesFile
<1>11. CASE Deleted
  BY <1>11 DEF TypeInv, TypeOK, StoreOK, Deleted
<1>12. CASE Freezes \/ Discards \/ Cancels \/ RecordsSwitch \/ SwitchFails
  BY <1>12 DEF TypeInv, TypeOK, StoreOK, Freezes, Discards, Returns, Cancels,
         RecordsSwitch, Save, SwitchFails, Fault
<1>13. ASSUME NEW k \in Ids, BeginCompact(k)
      PROVE  StoreOK'
  <2>1. UNCHANGED layer /\ StoreOK
    BY <1>13 DEF BeginCompact, TypeInv, TypeOK
  <2>2. mem.at \in Ids
    BY <1>13 DEF BeginCompact, TypeInv, TypeOK, RecordOK, NoRecord
  <2>3. View(mem.at) \in Content
    BY <2>1, <2>2, ViewIsContent
  <2>. QED BY <1>13, <2>1, <2>3 DEF BeginCompact, StoreOK
<1>14. CASE Unmounts("stopping", "switching") \/ UnmountFails \/ Switches \/
            SwitchedUnsaved
  BY <1>14 DEF TypeInv, TypeOK, StoreOK, Unmounts, UnmountFails, Returns, Fault, Switches,
         Save, Switched, SwitchedUnsaved
<1>15. CASE BeginPrune \/ PruneChecks \/ PruneFails
  BY <1>15 DEF TypeInv, TypeOK, StoreOK, BeginPrune, Begins, Save, Fault, HasRecord,
         PruneChecks, Returns, PruneFails
<1>16. CASE StoreTears
  <2>1. UNCHANGED layer /\ StoreOK
    BY <1>16 DEF StoreTears, TypeInv, TypeOK
  <2>. QED BY <1>16, <2>1 DEF StoreTears, StoreOK
<1>17. CASE StoreRemoved \/ LayerTears \/ Pruned
  <2>1. CASE StoreRemoved
    BY <2>1 DEF TypeInv, TypeOK, StoreOK, StoreRemoved
  <2>2. CASE LayerTears
    BY <2>2 DEF TypeInv, TypeOK, StoreOK, LayerTears
  <2>3. CASE Pruned
    BY <2>3 DEF TypeInv, TypeOK, StoreOK, Pruned
  <2>. QED BY <1>17, <2>1, <2>2, <2>3
<1>18. CASE BeginRollback \/ Unmounts("unmounting", "emptied") \/ Empties \/
            (\E f \in Files : MergesFile(f)) \/ RemovesMountPoint
  BY <1>18 DEF TypeInv, TypeOK, StoreOK, BeginRollback, Begins, Save, Fault, HasRecord,
         Unmounts, Empties, Returns, MergesFile, RemovesMountPoint
<1>19. CASE RestoreRefused \/ RestoreFails \/ Publishes \/ Restored \/
            VerifyRestored
  BY <1>19 DEF TypeInv, TypeOK, StoreOK, RestoreRefused, Returns, RestoreFails, Fault,
         Publishes, Restored, VerifyRestored
<1>. HIDE DEF NoStore, NewLayer, NoLayer, disk, StepOK, RecordOK, StepInv, Record
<1>. QED BY <1>1, <1>2, <1>3, <1>4, <1>5, <1>6, <1>7, <1>8, <1>9, <1>10, <1>11,
            <1>12, <1>13, <1>14, <1>15, <1>16, <1>17, <1>18, <1>19
         DEF Next, Environment, Client, Progress, Failure

\* Writes stay in their bound, and no fault happens more often than its budget.
LEMMA CountStep == TypeInv /\ Next => CountOK'
<1>. SUFFICES ASSUME TypeInv, Next PROVE CountOK'
  OBVIOUS
<1>. USE LifecycleAssumption DEF Kinds, counts
<1>1. CASE (\E f \in Files, v \in Values : GameWrites(f, v))
  BY <1>1 DEF TypeInv, TypeOK, CountOK, GameWrites
<1>2. CASE SessionEnds \/ Crash \/ Exit \/ Starts \/ Saves \/ SaveFails
  BY <1>2 DEF TypeInv, TypeOK, CountOK, SessionEnds, Fault, Crash, Forgets, Exit,
         Unmounted, Starts, Saves, SaveFails
<1>3. CASE (\E k \in Ids : BeginActivate(k))
  BY <1>3 DEF TypeInv, TypeOK, CountOK, BeginActivate, HasRecord
<1>4. CASE Verifies \/ MovesOriginal \/ MoveFails
  BY <1>4 DEF TypeInv, TypeOK, CountOK, Verifies, Returns, MovesOriginal, MoveFails,
         Fault
<1>5. CASE Records
  BY <1>5 DEF TypeInv, TypeOK, CountOK, Records, Save, Prepared
<1>6. CASE RecordFails
  BY <1>6 DEF TypeInv, TypeOK, CountOK, RecordFails, Fault, Prepared
<1>7. CASE Clears \/ ClearFails \/ Mounts \/ MountRefused \/ MountFails
  BY <1>7 DEF TypeInv, TypeOK, CountOK, Clears, Returns, ClearFails, Fault, Mounts,
         MountRefused, MountFails
<1>8. CASE Recovers \/ RecoverFails \/ Upkeep
  BY <1>8 DEF TypeInv, TypeOK, CountOK, Recovers, CanRecover, HasRecord, RecoverFails,
         Fault, Upkeep
<1>9. CASE BeginReclaim \/ DeleteFails
  BY <1>9 DEF TypeInv, TypeOK, CountOK, BeginReclaim, Begins, Save, Fault, HasRecord,
         DeleteFails, Returns
<1>10. CASE (\E f \in Files : DeletesFile(f))
  BY <1>10 DEF TypeInv, TypeOK, CountOK, DeletesFile
<1>11. CASE Deleted
  BY <1>11 DEF TypeInv, TypeOK, CountOK, Deleted
<1>12. CASE (\E k \in Ids : BeginCompact(k)) \/ Freezes \/ Discards \/ Cancels
            \/ RecordsSwitch \/ SwitchFails
  BY <1>12 DEF TypeInv, TypeOK, CountOK, BeginCompact, Freezes, Discards, Returns,
         Cancels, RecordsSwitch, Save, SwitchFails, Fault
<1>13. CASE Unmounts("stopping", "switching") \/ UnmountFails \/ Switches \/
            SwitchedUnsaved
  BY <1>13 DEF TypeInv, TypeOK, CountOK, Unmounts, UnmountFails, Returns, Fault, Switches,
         Save, Switched, SwitchedUnsaved
<1>14. CASE BeginPrune \/ PruneChecks \/ PruneFails \/ StoreTears
  BY <1>14 DEF TypeInv, TypeOK, CountOK, BeginPrune, Begins, Save, Fault, HasRecord,
         PruneChecks, Returns, PruneFails, StoreTears
<1>15. CASE StoreRemoved \/ LayerTears \/ Pruned
  BY <1>15 DEF TypeInv, TypeOK, CountOK, StoreRemoved, LayerTears, Returns, Pruned
<1>16. CASE BeginRollback \/ Unmounts("unmounting", "emptied") \/ Empties \/
            (\E f \in Files : MergesFile(f)) \/ RemovesMountPoint
  BY <1>16 DEF TypeInv, TypeOK, CountOK, BeginRollback, Begins, Save, Fault, HasRecord,
         Unmounts, Empties, Returns, MergesFile, RemovesMountPoint
<1>17. CASE RestoreRefused \/ RestoreFails \/ Publishes \/ Restored \/
            VerifyRestored
  BY <1>17 DEF TypeInv, TypeOK, CountOK, RestoreRefused, Returns, RestoreFails, Fault,
         Publishes, Restored, VerifyRestored
<1>. HIDE DEF Kinds, counts
<1>. QED BY <1>1, <1>2, <1>3, <1>4, <1>5, <1>6, <1>7, <1>8, <1>9, <1>10, <1>11,
            <1>12, <1>13, <1>14, <1>15, <1>16, <1>17
         DEF Next, Environment, Client, Progress, Failure

\* What a step relies on is there when it starts.
LEMMA StepInvStep == TypeInv /\ Next => StepInv'
<1>. SUFFICES ASSUME TypeInv, Next PROVE StepInv'
  OBVIOUS
<1>. USE DEF StepInv, FolderOK, record, work, disk, Record, NoRecord, Phases
<1>1. CASE (\E f \in Files, v \in Values : GameWrites(f, v))
  BY <1>1 DEF TypeInv, TypeOK, StepOK, RecordOK, GameWrites
<1>2. CASE SessionEnds \/ Crash \/ Exit \/ Starts \/ Saves \/ SaveFails
  BY <1>2 DEF TypeInv, TypeOK, StepOK, RecordOK, SessionEnds, Fault, Crash, Forgets,
         Exit, Unmounted, Starts, Saves, SaveFails
<1>3. CASE (\E k \in Ids : BeginActivate(k))
  BY <1>3 DEF TypeInv, TypeOK, StepOK, RecordOK, BeginActivate, HasRecord
<1>4. CASE Verifies \/ MovesOriginal \/ MoveFails
  BY <1>4 DEF TypeInv, TypeOK, StepOK, RecordOK, Verifies, Returns, MovesOriginal,
         MoveFails, Fault
<1>5. CASE Records
  BY <1>5 DEF TypeInv, TypeOK, StepOK, RecordOK, Records, Save, Prepared
<1>6. CASE RecordFails
  BY <1>6 DEF TypeInv, TypeOK, StepOK, RecordOK, RecordFails, Fault, Prepared
<1>7. CASE Clears \/ ClearFails \/ Mounts \/ MountRefused \/ MountFails
  BY <1>7 DEF TypeInv, TypeOK, StepOK, RecordOK, Clears, Returns, ClearFails, Fault,
         Mounts, MountRefused, MountFails
<1>8. CASE Recovers \/ RecoverFails \/ Upkeep
  BY <1>8 DEF TypeInv, TypeOK, StepOK, RecordOK, Recovers, CanRecover, HasRecord,
         RecoverFails, Fault, Upkeep
<1>9. CASE BeginReclaim \/ DeleteFails
  BY <1>9 DEF TypeInv, TypeOK, StepOK, RecordOK, BeginReclaim, Begins, Save, Fault,
         HasRecord, DeleteFails, Returns
<1>10. CASE (\E f \in Files : DeletesFile(f))
  BY <1>10 DEF TypeInv, TypeOK, StepOK, RecordOK, DeletesFile
<1>11. CASE Deleted
  BY <1>11 DEF TypeInv, TypeOK, StepOK, RecordOK, Deleted
<1>12. CASE (\E k \in Ids : BeginCompact(k)) \/ Freezes \/ Discards \/ Cancels
            \/ RecordsSwitch \/ SwitchFails
  BY <1>12 DEF TypeInv, TypeOK, StepOK, RecordOK, BeginCompact, Freezes, Discards,
         Returns, Cancels, RecordsSwitch, Save, SwitchFails, Fault
<1>13. CASE Unmounts("stopping", "switching") \/ UnmountFails \/ Switches \/
            SwitchedUnsaved
  BY <1>13 DEF TypeInv, TypeOK, StepOK, RecordOK, Unmounts, UnmountFails, Returns, Fault,
         Switches, Save, Switched, SwitchedUnsaved
<1>14. CASE BeginPrune \/ PruneChecks \/ PruneFails \/ StoreTears
  BY <1>14 DEF TypeInv, TypeOK, StepOK, RecordOK, BeginPrune, Begins, Save, Fault,
         HasRecord, PruneChecks, Returns, PruneFails, StoreTears
<1>15. CASE StoreRemoved \/ LayerTears \/ Pruned
  BY <1>15 DEF TypeInv, TypeOK, StepOK, RecordOK, StoreRemoved, LayerTears, Returns,
         Pruned
<1>16. CASE BeginRollback \/ Unmounts("unmounting", "emptied") \/ Empties \/
            (\E f \in Files : MergesFile(f)) \/ RemovesMountPoint
  BY <1>16 DEF TypeInv, TypeOK, StepOK, RecordOK, BeginRollback, Begins, Save, Fault,
         HasRecord, Unmounts, Empties, Returns, MergesFile, RemovesMountPoint
<1>17. CASE RestoreRefused \/ RestoreFails \/ Publishes \/ Restored \/
            VerifyRestored
  BY <1>17 DEF TypeInv, TypeOK, StepOK, RecordOK, RestoreRefused, Returns, RestoreFails,
         Fault, Publishes, Restored, VerifyRestored
<1>. HIDE DEF StepInv, FolderOK, record, work, disk, Record, NoRecord, Phases
<1>. QED BY <1>1, <1>2, <1>3, <1>4, <1>5, <1>6, <1>7, <1>8, <1>9, <1>10, <1>11,
            <1>12, <1>13, <1>14, <1>15, <1>16, <1>17
         DEF Next, Environment, Client, Progress, Failure

LEMMA TypeNext == TypeInv /\ [Next]_vars => TypeInv'
<1>1. TypeInv /\ Next => TypeInv'
  BY StepStep, RecordStep, FolderStep, StoreStep, CountStep, StepInvStep DEF TypeInv, TypeOK
<1>2. TypeInv /\ UNCHANGED vars => TypeInv'
  BY DEF TypeInv, TypeOK, StepInv, StepOK, RecordOK, FolderOK, StoreOK, CountOK, vars, record,
         session, disk, work, counts
<1>. QED BY <1>1, <1>2

LEMMA TypeInvEver == Spec => []TypeInv
BY InitTypeInv, TypeNext, PTL DEF Spec

\* Whatever fails and wherever the process dies, records, folder, original, stores and
\* layers hold what install.rs and packs.rs keep in them.
THEOREM TypeCorrect == Spec => []TypeOK
<1>1. TypeInv => TypeOK
  BY DEF TypeInv
<1>. QED BY <1>1, TypeInvEver, PTL

-----------------------------------------------------------------------------
(* While the settings table can be written *)

\* save_packs does not fail.
SavesSucceed == \A b \in Budgets : b["save"] = 0

\* The two records name the same store, until a record that is gone is gone on disk too.
AtInv ==
    /\ saved.at = mem.at \/ (mem = NoRecord /\ mount # "live" /\ pc = "saving")
    /\ pc \in {"merging", "publishing", "forgetting"} => mount = "none"

\* The steps that take files from the original run under the phase that was saved.
PhaseInv ==
    /\ mem.phase \in {"Reclaiming", "Restoring"} => saved.phase = mem.phase
    /\ pc = "deleting" => mem.phase = "Reclaiming"
    /\ pc \in {"unmounting", "emptied", "merging"} => mem.phase = "Restoring"
    /\ ~backup.kept => backup = NoBackup

SavedInv == faults["save"] = 0 /\ AtInv /\ PhaseInv

\* No save fails.
LEMMA SaveStep == TypeInv /\ SavedInv /\ Next => (faults["save"] = 0)'
<1>. SUFFICES ASSUME TypeInv, SavedInv, Next PROVE (faults["save"] = 0)'
  OBVIOUS
<1>. USE DEF SavedInv, record, session, disk, work, counts, Record, NoRecord, Phases,
           RecordOK, StepInv, FolderOK, CountOK, Kinds
<1>1. CASE (\E f \in Files, v \in Values : GameWrites(f, v))
  BY <1>1 DEF TypeInv, TypeOK, GameWrites
<1>2. CASE SessionEnds \/ Crash \/ Exit \/ Starts \/ Saves \/ SaveFails
  BY <1>2 DEF TypeInv, TypeOK, SessionEnds, Fault, Crash, Forgets, Exit, Unmounted,
         Starts, Saves, SaveFails
<1>3. CASE (\E k \in Ids : BeginActivate(k))
  BY <1>3 DEF TypeInv, TypeOK, BeginActivate, HasRecord
<1>4. CASE Verifies \/ MovesOriginal \/ MoveFails
  BY <1>4 DEF TypeInv, TypeOK, Verifies, Returns, MovesOriginal, MoveFails, Fault
<1>5. CASE Records
  BY <1>5 DEF TypeInv, TypeOK, Records, Save, Prepared
<1>6. CASE RecordFails
  BY <1>6 DEF TypeInv, TypeOK, RecordFails, Fault, Prepared
<1>7. CASE Clears \/ ClearFails \/ Mounts \/ MountRefused \/ MountFails
  BY <1>7 DEF TypeInv, TypeOK, Clears, Returns, ClearFails, Fault, Mounts, MountRefused,
         MountFails
<1>8. CASE Recovers \/ RecoverFails \/ Upkeep
  BY <1>8 DEF TypeInv, TypeOK, Recovers, CanRecover, HasRecord, RecoverFails, Fault,
         Upkeep
<1>9. CASE BeginReclaim \/ DeleteFails
  BY <1>9 DEF TypeInv, TypeOK, BeginReclaim, Begins, Save, Fault, HasRecord, DeleteFails,
         Returns
<1>10. CASE (\E f \in Files : DeletesFile(f))
  BY <1>10 DEF TypeInv, TypeOK, DeletesFile
<1>11. CASE Deleted
  BY <1>11 DEF TypeInv, TypeOK, Deleted
<1>12. CASE (\E k \in Ids : BeginCompact(k)) \/ Freezes \/ Discards \/ Cancels
            \/ RecordsSwitch \/ SwitchFails
  BY <1>12 DEF TypeInv, TypeOK, BeginCompact, Freezes, Discards, Returns, Cancels,
         RecordsSwitch, Save, SwitchFails, Fault
<1>13. CASE Unmounts("stopping", "switching") \/ UnmountFails \/ Switches \/
            SwitchedUnsaved
  BY <1>13 DEF TypeInv, TypeOK, Unmounts, UnmountFails, Returns, Fault, Switches, Save,
         Switched, SwitchedUnsaved
<1>14. CASE BeginPrune \/ PruneChecks \/ PruneFails \/ StoreTears
  BY <1>14 DEF TypeInv, TypeOK, BeginPrune, Begins, Save, Fault, HasRecord, PruneChecks,
         Returns, PruneFails, StoreTears
<1>15. CASE StoreRemoved \/ LayerTears \/ Pruned
  BY <1>15 DEF TypeInv, TypeOK, StoreRemoved, LayerTears, Returns, Pruned
<1>16. CASE BeginRollback \/ Unmounts("unmounting", "emptied") \/ Empties \/
            (\E f \in Files : MergesFile(f)) \/ RemovesMountPoint
  BY <1>16 DEF TypeInv, TypeOK, BeginRollback, Begins, Save, Fault, HasRecord, Unmounts,
         Empties, Returns, MergesFile, RemovesMountPoint
<1>17. CASE RestoreRefused \/ RestoreFails \/ Publishes \/ Restored \/
            VerifyRestored
  BY <1>17 DEF TypeInv, TypeOK, RestoreRefused, Returns, RestoreFails, Fault, Publishes,
         Restored, VerifyRestored
<1>. HIDE DEF SavedInv, record, session, disk, work, counts, Record, NoRecord, Phases,
           RecordOK, StepInv, FolderOK, CountOK, Kinds
<1>. QED BY <1>1, <1>2, <1>3, <1>4, <1>5, <1>6, <1>7, <1>8, <1>9, <1>10, <1>11,
            <1>12, <1>13, <1>14, <1>15, <1>16, <1>17
         DEF Next, Environment, Client, Progress, Failure

\* A store is named in the saved record before it is served.
LEMMA AtStep == TypeInv /\ SavedInv /\ Next => AtInv'
<1>. SUFFICES ASSUME TypeInv, SavedInv, Next PROVE AtInv'
  OBVIOUS
<1>. USE DEF SavedInv, record, session, disk, work, counts, Record, NoRecord, Phases,
           RecordOK, StepInv, FolderOK, CountOK, Kinds
<1>1. CASE (\E f \in Files, v \in Values : GameWrites(f, v))
  BY <1>1 DEF TypeInv, TypeOK, AtInv, GameWrites
<1>2. CASE SessionEnds \/ Crash \/ Exit \/ Starts \/ Saves \/ SaveFails
  BY <1>2 DEF TypeInv, TypeOK, AtInv, SessionEnds, Fault, Crash, Forgets, Exit,
         Unmounted, Starts, Saves, SaveFails
<1>3. CASE (\E k \in Ids : BeginActivate(k))
  BY <1>3 DEF TypeInv, TypeOK, AtInv, BeginActivate, HasRecord
<1>4. CASE Verifies \/ MovesOriginal \/ MoveFails
  BY <1>4 DEF TypeInv, TypeOK, AtInv, Verifies, Returns, MovesOriginal, MoveFails, Fault
<1>5. CASE Records
  BY <1>5 DEF TypeInv, TypeOK, AtInv, Records, Save, Prepared
<1>6. CASE RecordFails
  BY <1>6 DEF TypeInv, TypeOK, AtInv, RecordFails, Fault, Prepared
<1>7. CASE Clears \/ ClearFails \/ Mounts \/ MountRefused \/ MountFails
  BY <1>7 DEF TypeInv, TypeOK, AtInv, Clears, Returns, ClearFails, Fault, Mounts,
         MountRefused, MountFails
<1>8. CASE Recovers \/ RecoverFails \/ Upkeep
  BY <1>8 DEF TypeInv, TypeOK, AtInv, Recovers, CanRecover, HasRecord, RecoverFails,
         Fault, Upkeep
<1>9. CASE BeginReclaim \/ DeleteFails
  BY <1>9 DEF TypeInv, TypeOK, AtInv, BeginReclaim, Begins, Save, Fault, HasRecord,
         DeleteFails, Returns
<1>10. CASE (\E f \in Files : DeletesFile(f))
  BY <1>10 DEF TypeInv, TypeOK, AtInv, DeletesFile
<1>11. CASE Deleted
  BY <1>11 DEF TypeInv, TypeOK, AtInv, Deleted
<1>12. CASE (\E k \in Ids : BeginCompact(k)) \/ Freezes \/ Discards \/ Cancels
            \/ RecordsSwitch \/ SwitchFails
  BY <1>12 DEF TypeInv, TypeOK, AtInv, BeginCompact, Freezes, Discards, Returns, Cancels,
         RecordsSwitch, Save, SwitchFails, Fault
<1>13. CASE Unmounts("stopping", "switching") \/ UnmountFails \/ Switches \/
            SwitchedUnsaved
  BY <1>13 DEF TypeInv, TypeOK, AtInv, Unmounts, UnmountFails, Returns, Fault, Switches,
         Save, Switched, SwitchedUnsaved
<1>14. CASE BeginPrune \/ PruneChecks \/ PruneFails \/ StoreTears
  BY <1>14 DEF TypeInv, TypeOK, AtInv, BeginPrune, Begins, Save, Fault, HasRecord,
         PruneChecks, Returns, PruneFails, StoreTears
<1>15. CASE StoreRemoved \/ LayerTears \/ Pruned
  BY <1>15 DEF TypeInv, TypeOK, AtInv, StoreRemoved, LayerTears, Returns, Pruned
<1>16. CASE BeginRollback \/ Unmounts("unmounting", "emptied") \/ Empties \/
            (\E f \in Files : MergesFile(f)) \/ RemovesMountPoint
  BY <1>16 DEF TypeInv, TypeOK, AtInv, BeginRollback, Begins, Save, Fault, HasRecord,
         Unmounts, Empties, Returns, MergesFile, RemovesMountPoint
<1>17. CASE RestoreRefused \/ RestoreFails \/ Publishes \/ Restored \/
            VerifyRestored
  BY <1>17 DEF TypeInv, TypeOK, AtInv, RestoreRefused, Returns, RestoreFails, Fault,
         Publishes, Restored, VerifyRestored
<1>. HIDE DEF SavedInv, record, session, disk, work, counts, Record, NoRecord, Phases,
           RecordOK, StepInv, FolderOK, CountOK, Kinds
<1>. QED BY <1>1, <1>2, <1>3, <1>4, <1>5, <1>6, <1>7, <1>8, <1>9, <1>10, <1>11,
            <1>12, <1>13, <1>14, <1>15, <1>16, <1>17
         DEF Next, Environment, Client, Progress, Failure

\* A phase is saved before the step it names.
LEMMA PhaseStep == TypeInv /\ SavedInv /\ Next => PhaseInv'
<1>. SUFFICES ASSUME TypeInv, SavedInv, Next PROVE PhaseInv'
  OBVIOUS
<1>. USE DEF SavedInv, record, session, disk, work, counts, Record, NoRecord, Phases,
           RecordOK, StepInv, FolderOK, CountOK, Kinds, NoBackup
<1>1. CASE (\E f \in Files, v \in Values : GameWrites(f, v))
  BY <1>1 DEF TypeInv, TypeOK, PhaseInv, GameWrites
<1>2. CASE SessionEnds \/ Crash \/ Exit \/ Starts \/ Saves \/ SaveFails
  BY <1>2 DEF TypeInv, TypeOK, PhaseInv, SessionEnds, Fault, Crash, Forgets, Exit,
         Unmounted, Starts, Saves, SaveFails
<1>3. CASE (\E k \in Ids : BeginActivate(k))
  BY <1>3 DEF TypeInv, TypeOK, PhaseInv, BeginActivate, HasRecord
<1>4. CASE Verifies \/ MovesOriginal \/ MoveFails
  BY <1>4 DEF TypeInv, TypeOK, PhaseInv, Verifies, Returns, MovesOriginal, MoveFails,
         Fault
<1>5. CASE Records
  BY <1>5 DEF TypeInv, TypeOK, PhaseInv, Records, Save, Prepared
<1>6. CASE RecordFails
  BY <1>6 DEF TypeInv, TypeOK, PhaseInv, RecordFails, Fault, Prepared
<1>7. CASE Clears \/ ClearFails \/ Mounts \/ MountRefused \/ MountFails
  BY <1>7 DEF TypeInv, TypeOK, PhaseInv, Clears, Returns, ClearFails, Fault, Mounts,
         MountRefused, MountFails
<1>8. CASE Recovers \/ RecoverFails \/ Upkeep
  BY <1>8 DEF TypeInv, TypeOK, PhaseInv, Recovers, CanRecover, HasRecord, RecoverFails,
         Fault, Upkeep
<1>9. CASE BeginReclaim \/ DeleteFails
  BY <1>9 DEF TypeInv, TypeOK, PhaseInv, BeginReclaim, Begins, Save, Fault, HasRecord,
         DeleteFails, Returns
<1>10. ASSUME NEW f \in Files, DeletesFile(f)
      PROVE  PhaseInv'
  <2>1. UNCHANGED <<pc, record>> /\ PhaseInv /\ backup \in [kept: BOOLEAN, files: Content]
    BY <1>10 DEF DeletesFile, TypeInv, TypeOK
  <2>2. backup.kept
    BY <1>10, <2>1 DEF DeletesFile, PhaseInv, Nothing
  <2>3. backup'.kept
    BY <1>10, <2>1, <2>2 DEF DeletesFile
  <2>. QED BY <2>1, <2>3 DEF PhaseInv
<1>11. CASE Deleted
  BY <1>11 DEF TypeInv, TypeOK, PhaseInv, Deleted
<1>12. CASE (\E k \in Ids : BeginCompact(k)) \/ Freezes \/ Discards \/ Cancels
            \/ RecordsSwitch \/ SwitchFails
  BY <1>12 DEF TypeInv, TypeOK, PhaseInv, BeginCompact, Freezes, Discards, Returns,
         Cancels, RecordsSwitch, Save, SwitchFails, Fault
<1>13. CASE Unmounts("stopping", "switching") \/ UnmountFails \/ Switches \/
            SwitchedUnsaved
  BY <1>13 DEF TypeInv, TypeOK, PhaseInv, Unmounts, UnmountFails, Returns, Fault,
         Switches, Save, Switched, SwitchedUnsaved
<1>14. CASE BeginPrune \/ PruneChecks \/ PruneFails \/ StoreTears
  BY <1>14 DEF TypeInv, TypeOK, PhaseInv, BeginPrune, Begins, Save, Fault, HasRecord,
         PruneChecks, Returns, PruneFails, StoreTears
<1>15. CASE StoreRemoved \/ LayerTears \/ Pruned
  BY <1>15 DEF TypeInv, TypeOK, PhaseInv, StoreRemoved, LayerTears, Returns, Pruned
<1>16. CASE BeginRollback \/ Unmounts("unmounting", "emptied") \/ Empties \/
            (\E f \in Files : MergesFile(f)) \/ RemovesMountPoint
  BY <1>16 DEF TypeInv, TypeOK, PhaseInv, BeginRollback, Begins, Save, Fault, HasRecord,
         Unmounts, Empties, Returns, MergesFile, RemovesMountPoint
<1>17. CASE RestoreRefused \/ RestoreFails \/ Publishes \/ Restored \/
            VerifyRestored
  BY <1>17 DEF TypeInv, TypeOK, PhaseInv, RestoreRefused, Returns, RestoreFails, Fault,
         Publishes, Restored, VerifyRestored
<1>. HIDE DEF SavedInv, record, session, disk, work, counts, Record, NoRecord, Phases,
           RecordOK, StepInv, FolderOK, CountOK, Kinds, NoBackup
<1>. QED BY <1>1, <1>2, <1>3, <1>4, <1>5, <1>6, <1>7, <1>8, <1>9, <1>10, <1>11,
            <1>12, <1>13, <1>14, <1>15, <1>16, <1>17
         DEF Next, Environment, Client, Progress, Failure

LEMMA InitSavedInv == SavesSucceed /\ Init => SavedInv
BY LifecycleAssumption
   DEF SavesSucceed, Init, SavedInv, AtInv, PhaseInv, NoRecord, NoBackup

LEMMA SavedNext == TypeInv /\ SavedInv /\ [Next]_vars => SavedInv'
<1>1. TypeInv /\ SavedInv /\ Next => SavedInv'
  BY SaveStep, AtStep, PhaseStep DEF SavedInv
<1>2. SavedInv /\ UNCHANGED vars => SavedInv'
  BY DEF SavedInv, AtInv, PhaseInv, vars, record, session, disk, work, counts
<1>. QED BY <1>1, <1>2

LEMMA SavedInvEver ==
    ASSUME SavesSucceed
    PROVE  Spec => [](TypeInv /\ SavedInv)
<1>1. Init => TypeInv /\ SavedInv
  BY SavesSucceed, InitTypeInv, InitSavedInv
<1>2. TypeInv /\ SavedInv /\ [Next]_vars => (TypeInv /\ SavedInv)'
  BY TypeNext, SavedNext
<1>. QED BY <1>1, <1>2, PTL DEF Spec

\* What the mount serves, and where the game's writes go, is the store a restart would
\* mount: activate_prepared and compact_cancellable save the record before they mount.
THEOREM ServedIsRecordedEver ==
    ASSUME SavesSucceed
    PROVE  Spec => []ServedIsRecorded
<1>1. TypeInv /\ SavedInv => ServedIsRecorded
  BY DEF SavedInv, AtInv, ServedIsRecorded
<1>. QED BY <1>1, SavedInvEver, PTL

\* A step that takes a file from the retained original.
Takes == \E f \in Files : backup'.kept /\ backup'.files[f] = 0 /\ backup.files[f] # 0

LEMMA TakesRecorded ==
    TypeInv /\ SavedInv /\ Next /\ Takes => saved.phase \in {"Reclaiming", "Restoring"}
<1>. SUFFICES ASSUME TypeInv, SavedInv, Next, Takes
              PROVE  saved.phase \in {"Reclaiming", "Restoring"}
  OBVIOUS
<1>1. CASE MovesOriginal
  <2>1. CASE UNCHANGED backup
    BY <2>1 DEF Takes
  <2>2. CASE ~backup.kept
    <3>1. backup.files = Nothing
      BY <2>2 DEF SavedInv, PhaseInv, NoBackup
    <3>. QED BY <3>1 DEF Takes, Nothing
  <2>. QED BY <1>1, <2>1, <2>2 DEF MovesOriginal
<1>2. CASE (\E f \in Files : DeletesFile(f)) \/ (\E f \in Files : MergesFile(f))
  BY <1>2 DEF DeletesFile, MergesFile, SavedInv, PhaseInv
<1>3. CASE Deleted
  BY <1>3 DEF Deleted, Takes, NoBackup
<1>4. CASE Publishes
  BY <1>4 DEF Publishes, Takes, NoBackup
<1>5. CASE (\E f \in Files, v \in Values : GameWrites(f, v)) \/ SessionEnds \/
            Crash \/ Exit \/ (\E k \in Ids : BeginActivate(k)) \/
            (\E k \in Ids : BeginCompact(k)) \/ BeginReclaim \/ BeginPrune \/
            BeginRollback \/ VerifyRestored \/ Cancels \/ Starts \/ Saves \/
            Upkeep \/ Verifies \/ Records \/ Clears \/ Mounts \/ MountRefused \/
            Freezes \/ Discards \/ RecordsSwitch \/
            Unmounts("stopping", "switching") \/ Switches \/ PruneChecks \/
            StoreTears \/ StoreRemoved \/ LayerTears \/ Pruned \/
            Unmounts("unmounting", "emptied") \/ Empties \/ RemovesMountPoint \/
            RestoreRefused \/ Restored \/ Recovers \/ SaveFails \/ RecordFails
            \/ MoveFails \/ ClearFails \/ MountFails \/ RecoverFails \/
            DeleteFails \/ SwitchFails \/ UnmountFails \/ SwitchedUnsaved \/
            PruneFails \/ RestoreFails
  <2>1. UNCHANGED backup
    BY <1>5 DEF disk, GameWrites, SessionEnds, Fault, Crash, Forgets, Exit, Unmounted,
           BeginActivate, HasRecord, BeginCompact, BeginReclaim, Begins, Save,
           BeginPrune, BeginRollback, VerifyRestored, Cancels, Returns, Starts,
           Saves, Upkeep, Verifies, Records, Prepared, Clears, Mounts, MountRefused,
           Freezes, Discards, RecordsSwitch, Unmounts, Switches, Switched,
           PruneChecks, StoreTears, StoreRemoved, LayerTears, Pruned, Empties,
           RemovesMountPoint, RestoreRefused, Restored, Recovers, CanRecover,
           SaveFails, RecordFails, MoveFails, ClearFails, MountFails, RecoverFails,
           DeleteFails, SwitchFails, UnmountFails, SwitchedUnsaved, PruneFails,
           RestoreFails
  <2>. QED BY <2>1 DEF Takes
<1>. QED BY <1>1, <1>2, <1>3, <1>4, <1>5 DEF Next, Environment, Client, Progress, Failure

\* Reclaiming and restoring save their phase before the first file of the retained original
\* goes, so that recovery after a crash knows the original may be partial.
THEOREM DeletesRecordedEver ==
    ASSUME SavesSucceed
    PROVE  Spec => DeletesRecorded
<1>1. TypeInv /\ SavedInv /\ [Next]_vars =>
        [\A f \in Files : (backup'.kept /\ backup'.files[f] = 0 /\ backup.files[f] # 0)
             => saved.phase \in {"Reclaiming", "Restoring"}]_vars
  BY TakesRecorded DEF Takes
<1>. QED BY <1>1, SavedInvEver, PTL DEF Spec, DeletesRecorded

(***************************************************************************)
(* What the store lifecycle keeps: the stores that records name, the       *)
(* retained original, and the game's files, by refinement of GameFiles.    *)
(*                                                                         *)
(* The invariant is built in three layers.  FilesInv and OriginalInv hold  *)
(* while the settings table can be written; GameInv also needs that        *)
(* nothing else disturbs the installation (Undisturbed).  Each part has    *)
(* one lemma, with a case for each group of actions.                       *)
(***************************************************************************)
-----------------------------------------------------------------------------
(* Stores, mounts and the retained original *)

\* A store that a record names is whole, and what is removed is another store.
WholeInv ==
    /\ mem # NoRecord => store[mem.at].st = "whole"
    /\ saved # NoRecord => store[saved.at].st = "whole"
    /\ pc \in {"verify", "verified"} => mem = NoRecord
    /\ pc \in {"verify", "verified", "frozen", "stopping", "switching"}
          => store[target].st = "whole"
    /\ pc = "building" => store[target].st = "building"
    /\ mem.phase = "Pruning" => mem.prev # 0
    /\ saved.phase = "Pruning" => saved.prev # 0
    /\ pc = "pruning" => mem.phase = "Pruning"
    /\ pc \in {"removing", "layer", "unlayering"} => mem.prev # 0 /\ mem.prev # mem.at
    /\ pc \in {"layer", "unlayering"} => store[mem.prev].st = "none"


LEMMA RecordFields ==
    ASSUME NEW r \in Record
    PROVE  /\ r # NoRecord /\ r.phase \in Phases /\ r.at \in Ids /\ r.at # 0
           /\ r.backup \in BOOLEAN /\ r.prev \in Ids \cup {0}
BY LifecycleAssumption DEF Record, NoRecord, Phases

\* What a record on either side is, and that a record in memory is on disk too.
LEMMA RecordFacts ==
    ASSUME TypeInv
    PROVE  /\ mem # NoRecord =>
                 /\ mem \in Record /\ mem.phase \in Phases /\ mem.at \in Ids /\ mem.at # 0
                 /\ mem.backup \in BOOLEAN /\ mem.prev \in Ids \cup {0}
           /\ saved # NoRecord =>
                 /\ saved \in Record /\ saved.phase \in Phases /\ saved.at \in Ids /\ saved.at # 0
                 /\ saved.backup \in BOOLEAN /\ saved.prev \in Ids \cup {0}
           /\ mem \in Record => mem # NoRecord
BY RecordFields DEF TypeInv, TypeOK, RecordOK

LEMMA BothRecords ==
    ASSUME TypeInv, AtInv, mem # NoRecord
    PROVE  saved.at = mem.at /\ saved # NoRecord
<1>1. saved.at = mem.at
  BY DEF AtInv
<1>. QED BY <1>1, RecordFacts DEF NoRecord

\* No job, failure or recovery removes a store that a record names.
LEMMA WholeStep == TypeInv /\ SavedInv /\ WholeInv /\ Next => WholeInv'
<1>. SUFFICES ASSUME TypeInv, SavedInv, WholeInv, Next PROVE WholeInv'
  OBVIOUS
<1>. USE DEF TypeInv, TypeOK, WholeInv, StepOK, StoreOK, AtInv, NoStore, SavedInv, record,
           session, disk, work, counts, Record, NoRecord, Phases, RecordOK, StepInv,
           FolderOK, CountOK, Kinds
<1>1. CASE (\E f \in Files, v \in Values : GameWrites(f, v))
  BY <1>1 DEF GameWrites
<1>2. CASE SessionEnds \/ Crash \/ Exit \/ Starts \/ Saves \/ SaveFails
  BY <1>2 DEF SessionEnds, Fault, Crash, Forgets, Exit, Unmounted, Starts, Saves, SaveFails
<1>3. CASE (\E k \in Ids : BeginActivate(k))
  BY <1>3 DEF BeginActivate, HasRecord
<1>4. CASE Verifies
  BY <1>4 DEF Verifies, Returns
<1>4a. CASE MovesOriginal
  BY <1>4a DEF MovesOriginal
<1>4b. CASE MoveFails
  BY <1>4b DEF MoveFails, Returns, Fault
<1>5. CASE Records
  BY <1>5 DEF Records, Save, Prepared
<1>6. CASE RecordFails
  BY <1>6 DEF RecordFails, Fault, Prepared
<1>7. CASE Clears \/ ClearFails \/ Mounts \/ MountRefused \/ MountFails
  BY <1>7 DEF Clears, Returns, ClearFails, Fault, Mounts, MountRefused, MountFails
<1>8. CASE Recovers \/ RecoverFails \/ Upkeep
  BY <1>8 DEF Recovers, CanRecover, HasRecord, RecoverFails, Fault, Upkeep
<1>9. CASE BeginReclaim \/ DeleteFails
  BY <1>9 DEF BeginReclaim, Begins, Save, Fault, HasRecord, DeleteFails, Returns
<1>10. CASE (\E f \in Files : DeletesFile(f))
  BY <1>10 DEF DeletesFile
<1>11. CASE Deleted
  BY <1>11 DEF Deleted
<1>12. ASSUME NEW k \in Ids, BeginCompact(k)
      PROVE  WholeInv'
  BY <1>12 DEF BeginCompact, Unused
<1>12a. CASE Freezes
  BY <1>12a DEF Freezes
<1>12b. CASE Discards \/ Cancels
  <2>1. target # mem.at
    BY <1>12b DEF Discards, Cancels
  <2>2. store' = [store EXCEPT ![target] = NoStore]
    BY <1>12b DEF Discards, Cancels
  <2>3. \A k \in Ids : k # target => store'[k] = store[k]
    BY <2>2
  <2>. QED BY <1>12b, <2>1, <2>3 DEF Discards, Cancels, Returns
<1>12c. CASE RecordsSwitch \/ SwitchFails
  BY <1>12c DEF RecordsSwitch, Save, SwitchFails, Fault
<1>13. CASE Unmounts("stopping", "switching") \/ UnmountFails
  BY <1>13 DEF Unmounts, UnmountFails, Returns, Fault
<1>13a. CASE Switches \/ SwitchedUnsaved
  <2>1. CASE Switches
    BY <2>1 DEF Switches, Save, Switched
  <2>2. CASE SwitchedUnsaved
    BY <2>2 DEF SwitchedUnsaved, Switched, Fault
  <2>. QED BY <1>13a, <2>1, <2>2
<1>14. CASE BeginPrune \/ PruneChecks \/ PruneFails \/ StoreTears
  <2>1. CASE BeginPrune
    BY <2>1 DEF BeginPrune, Begins, Save, HasRecord
  <2>2. CASE PruneChecks
    BY <2>2 DEF PruneChecks, Returns
  <2>3. CASE PruneFails
    BY <2>3 DEF PruneFails, Returns, Fault
  <2>4. CASE StoreTears
    BY <2>4 DEF StoreTears
  <2>. QED BY <1>14, <2>1, <2>2, <2>3, <2>4
<1>15. CASE StoreRemoved
  BY <1>15 DEF StoreRemoved, NoStore
<1>15a. CASE LayerTears
  BY <1>15a DEF LayerTears, Returns
<1>15b. CASE Pruned
  BY <1>15b DEF Pruned
<1>16. CASE BeginRollback \/ Unmounts("unmounting", "emptied") \/ Empties \/
            (\E f \in Files : MergesFile(f)) \/ RemovesMountPoint
  BY <1>16 DEF BeginRollback, Begins, Save, Fault, HasRecord, Unmounts, Empties, Returns,
         MergesFile, RemovesMountPoint
<1>17. CASE RestoreRefused \/ RestoreFails \/ Publishes \/ Restored \/ VerifyRestored
  BY <1>17 DEF RestoreRefused, Returns, RestoreFails, Fault, Publishes, Restored,
         VerifyRestored
<1>. HIDE DEF TypeInv, TypeOK, WholeInv, StepOK, StoreOK, AtInv, NoStore, SavedInv, record,
           session, disk, work, counts, Record, NoRecord, Phases, RecordOK, StepInv,
           FolderOK, CountOK, Kinds
<1>. QED BY <1>1, <1>2, <1>3, <1>4, <1>4a, <1>4b, <1>5, <1>6, <1>7, <1>8, <1>9, <1>10,
            <1>11, <1>12, <1>12a, <1>12b, <1>12c, <1>13, <1>13a, <1>14, <1>15, <1>15a,
            <1>15b, <1>16, <1>17
         DEF Next, Environment, Client, Progress, Failure

\* What is mounted has a record and a layer, and a compaction stops its own session.
MountInv ==
    /\ mount = "live" => mem # NoRecord /\ layer[mem.at].st # "none"
    /\ pc \in {"building", "frozen", "stopping"} => handle
    /\ pc = "switching" => mount # "live"

LEMMA MountStep == TypeInv /\ SavedInv /\ WholeInv /\ MountInv /\ Next => MountInv'
<1>. SUFFICES ASSUME TypeInv, SavedInv, WholeInv, MountInv, Next PROVE MountInv'
  OBVIOUS
<1>. USE DEF TypeInv, TypeOK, MountInv, WholeInv, StoreOK, StepOK, AtInv, NoLayer, NewLayer,
           SavedInv, record, session, disk, work, counts, Record, NoRecord, Phases,
           RecordOK, StepInv, FolderOK, CountOK, Kinds
<1>1. CASE (\E f \in Files, v \in Values : GameWrites(f, v))
  BY <1>1 DEF GameWrites
<1>2. CASE SessionEnds
  BY <1>2 DEF SessionEnds, Fault
<1>2a. CASE Crash \/ Exit
  BY <1>2a DEF Crash, Forgets, Exit, Unmounted
<1>2b. CASE Starts
  BY <1>2b, BothRecords DEF Starts
<1>2c. CASE Saves \/ SaveFails
  BY <1>2c DEF Fault, Saves, SaveFails
<1>3. CASE (\E k \in Ids : BeginActivate(k))
  BY <1>3 DEF BeginActivate, HasRecord
<1>4. CASE Verifies \/ MovesOriginal \/ MoveFails
  BY <1>4 DEF Verifies, Returns, MovesOriginal, MoveFails, Fault
<1>5. CASE Records
  BY <1>5 DEF Records, Save, Prepared
<1>6. CASE RecordFails
  BY <1>6 DEF RecordFails, Fault, Prepared
<1>7. CASE Clears \/ ClearFails \/ Mounts \/ MountRefused \/ MountFails
  BY <1>7 DEF Clears, Returns, ClearFails, Fault, Mounts, MountRefused, MountFails
<1>8. CASE Recovers \/ RecoverFails \/ Upkeep
  BY <1>8 DEF Recovers, CanRecover, HasRecord, RecoverFails, Fault, Upkeep
<1>9. CASE BeginReclaim \/ DeleteFails
  <2>1. CASE BeginReclaim
    BY <2>1 DEF BeginReclaim, Begins, Save, HasRecord
  <2>2. CASE DeleteFails
    BY <2>2 DEF DeleteFails, Returns, Fault
  <2>. QED BY <1>9, <2>1, <2>2
<1>10. CASE (\E f \in Files : DeletesFile(f))
  BY <1>10 DEF DeletesFile
<1>11. CASE Deleted
  <2>1. /\ mem \in Record /\ mem' = [mem EXCEPT !.backup = FALSE, !.phase = "Mounted"]
        /\ layer' = layer /\ mount' = mount /\ handle' = handle /\ pc' \in {"clearing", "saving"}
    BY <1>11 DEF Deleted
  <2>2. mem'.at = mem.at /\ mem' # NoRecord
    BY <2>1
  <2>. QED BY <2>1, <2>2
<1>12. CASE (\E k \in Ids : BeginCompact(k)) \/ Freezes \/ Discards \/ Cancels \/
            RecordsSwitch \/ SwitchFails
  BY <1>12 DEF BeginCompact, Freezes, Discards, Returns, Cancels, RecordsSwitch, Save,
         SwitchFails, Fault
<1>13. CASE Unmounts("stopping", "switching") \/ UnmountFails \/ Switches \/ SwitchedUnsaved
  BY <1>13 DEF Unmounts, UnmountFails, Returns, Fault, Switches, Save, Switched,
         SwitchedUnsaved
<1>14. CASE BeginPrune \/ PruneChecks \/ PruneFails \/ StoreTears
  BY <1>14 DEF BeginPrune, Begins, Save, Fault, HasRecord, PruneChecks, Returns, PruneFails,
         StoreTears
<1>15. CASE StoreRemoved
  BY <1>15 DEF StoreRemoved
<1>15a. CASE LayerTears
  <2>1. /\ mem \in Record /\ mount' = mount /\ pc' \in {"unlayering", "loop", "saving"}
        /\ mem' = mem \/ mem' = [mem EXCEPT !.phase = "Attention"]
        /\ layer' = layer \/ layer' = [layer EXCEPT ![mem.prev].st = "broken"]
    BY <1>15a DEF LayerTears, Returns
  <2>2. mem'.at = mem.at /\ mem' # NoRecord
    BY <2>1
  <2>3. layer'[mem.at].st = "none" => layer[mem.at].st = "none"
    BY <2>1
  <2>. QED BY <2>1, <2>2, <2>3
<1>15b. CASE Pruned
  <2>1. /\ mem' = [mem EXCEPT !.prev = 0, !.phase = "Mounted"] /\ mem \in Record
        /\ layer' = [layer EXCEPT ![mem.prev] = NoLayer] /\ mem.prev # mem.at
        /\ mount' = mount /\ pc' \in {"clearing", "saving"}
    BY <1>15b DEF Pruned
  <2>2. mem'.at = mem.at /\ mem' # NoRecord
    BY <2>1
  <2>3. layer'[mem.at] = layer[mem.at]
    BY <2>1
  <2>. QED BY <2>1, <2>2, <2>3
<1>16. CASE BeginRollback \/ Unmounts("unmounting", "emptied") \/ Empties \/
            (\E f \in Files : MergesFile(f)) \/ RemovesMountPoint
  BY <1>16 DEF BeginRollback, Begins, Save, Fault, HasRecord, Unmounts, Empties, Returns,
         MergesFile, RemovesMountPoint
<1>17. CASE RestoreRefused \/ RestoreFails \/ Publishes \/ Restored \/ VerifyRestored
  BY <1>17 DEF RestoreRefused, Returns, RestoreFails, Fault, Publishes, Restored,
         VerifyRestored
<1>. HIDE DEF TypeInv, TypeOK, MountInv, WholeInv, StoreOK, StepOK, AtInv, NoLayer,
           NewLayer, SavedInv, record, session, disk, work, counts, Record, NoRecord,
           Phases, RecordOK, StepInv, FolderOK, CountOK, Kinds
<1>. QED BY <1>1, <1>2, <1>2a, <1>2b, <1>2c, <1>3, <1>4, <1>5, <1>6, <1>7, <1>8, <1>9,
            <1>10, <1>11, <1>12, <1>13, <1>14, <1>15, <1>15a, <1>15b, <1>16, <1>17
         DEF Next, Environment, Client, Progress, Failure

\* A store and its layer never make an empty game, and a layer that is gone holds nothing.
ViewInv ==
    \A k \in Ids : /\ store[k].st # "none" => View(k) # Nothing
                   /\ layer[k].st = "none" => layer[k].changes = NoChanges

\* The retained original is there only under records that offer it.
KeptInv ==
    /\ backup.kept => folder.files = Nothing
    /\ backup.kept => mem # NoRecord /\ mem.backup /\ mem.prev = 0
    /\ backup.kept => saved # NoRecord /\ saved.backup /\ saved.prev = 0
    /\ mem.phase = "Switching" => saved = mem
    /\ saved.phase = "Switching" => saved.backup /\ saved.prev = 0
    /\ pc = "switch" => mem.phase = "Switching"
    /\ pc = "forgetting" => ~backup.kept
    /\ pc \in {"building", "frozen", "stopping", "switching"} => ~mem.backup


LEMMA NoChangesMerged ==
    ASSUME NEW files \in Content
    PROVE  Merged(NoChanges, files) = files
BY DEF Merged, NoChanges, Content

LEMMA WriteShows ==
    ASSUME NEW changes \in Changes, NEW files \in Content, NEW f \in Files, NEW v \in Values
    PROVE  Merged(LayerWrite(changes, files, f, v), files)
             = [Merged(changes, files) EXCEPT ![f] = v]
<1>1. CASE v = 0 /\ files[f] = 0
  BY <1>1 DEF Merged, LayerWrite
<1>2. CASE ~(v = 0 /\ files[f] = 0)
  BY <1>2 DEF Merged, LayerWrite
<1>. QED BY <1>1, <1>2

\* Where a write of the game lands: in the folder, or in the layer of the store it sees.
WriteFrame == UNCHANGED <<pc, mem, saved, mount, handle, backup, store, target, faults>>

WritesFolder(f, v) ==
    /\ WriteFrame /\ mount = "none" /\ layer' = layer /\ dirty' = dirty
    /\ folder.files # Nothing /\ folder'.files # Nothing
    /\ folder.files[f] # v /\ folder'.files = [folder.files EXCEPT ![f] = v]
    /\ CheckedFolder => faults["race"] > 0
    /\ WaitingFolder => faults["interim"] > 0

WritesLayer(f, v) ==
    /\ WriteFrame /\ mount = "live" /\ ~Frozen /\ folder' = folder /\ dirty' = TRUE
    /\ v = 0 => f \in Removable
    /\ mem.at \in Ids /\ \A k \in Ids : k # mem.at => layer'[k] = layer[k]
    /\ layer'[mem.at].st = layer[mem.at].st
    /\ layer'[mem.at].changes =
           LayerWrite(layer[mem.at].changes, store[mem.at].files, f, v)
    /\ View(mem.at)[f] # v /\ View(mem.at)' = [View(mem.at) EXCEPT ![f] = v]
    /\ View(mem.at)' # Nothing

LEMMA GameWriteLands ==
    ASSUME TypeInv, MountInv, NEW f \in Files, NEW v \in Values, GameWrites(f, v)
    PROVE  WritesFolder(f, v) \/ WritesLayer(f, v)
<1>1. WriteFrame
  BY DEF GameWrites, WriteFrame, record, session
<1>2. CASE mount = "none"
  <2>1. folder \in [there: BOOLEAN, files: Content]
    BY DEF TypeInv, TypeOK, FolderOK
  <2>. QED BY <1>1, <1>2, <2>1 DEF GameWrites, WritesFolder
<1>3. CASE mount = "live"
  <2>. DEFINE c == layer[mem.at].changes
              s == store[mem.at].files
  <2>1. mem.at \in Ids
    BY <1>3, RecordFacts DEF MountInv
  <2>2. layer' = [layer EXCEPT ![mem.at].changes = LayerWrite(@, s, f, v)]
    BY <1>3 DEF GameWrites, Served
  <2>3. c \in Changes /\ s \in Content /\ DOMAIN layer = Ids
        /\ layer[mem.at] \in [st: {"none", "whole", "broken"}, changes: Changes]
    BY <2>1 DEF TypeInv, TypeOK, StoreOK
  <2>4. layer'[mem.at].st = layer[mem.at].st /\ layer'[mem.at].changes = LayerWrite(c, s, f, v)
    BY <2>1, <2>2, <2>3
  <2>5. Merged(LayerWrite(c, s, f, v), s) = [Merged(c, s) EXCEPT ![f] = v]
    BY <2>3, WriteShows
  <2>6. View(mem.at)' = [View(mem.at) EXCEPT ![f] = v]
    BY <1>1, <2>4, <2>5 DEF View, WriteFrame
  <2>7. \A k \in Ids : k # mem.at => layer'[k] = layer[k]
    BY <2>2, <2>3
  <2>. QED BY <1>1, <1>3, <2>1, <2>4, <2>6, <2>7 DEF GameWrites, WritesLayer, Served
<1>. QED BY <1>2, <1>3 DEF GameWrites

LEMMA ViewStep == ~Reuse /\ TypeInv /\ SavedInv /\ WholeInv /\ MountInv /\ ViewInv /\ Next
    => ViewInv'
<1>. SUFFICES ASSUME ~Reuse, TypeInv, SavedInv, WholeInv, MountInv, ViewInv, Next PROVE
     ViewInv'
  OBVIOUS
<1>. USE DEF TypeInv, TypeOK, ViewInv, WholeInv, MountInv, StoreOK, StepOK, NoStore,
           NoLayer, NewLayer, View, SavedInv, record, session, disk, work, counts, Record,
           NoRecord, Phases, RecordOK, StepInv, FolderOK, CountOK, Kinds
<1>1. ASSUME NEW f \in Files, NEW v \in Values, GameWrites(f, v)
      PROVE  ViewInv'
  <2>1. WritesFolder(f, v) \/ WritesLayer(f, v)
    BY <1>1, GameWriteLands
  <2>. QED BY <2>1 DEF WritesFolder, WritesLayer, WriteFrame
<1>2. CASE SessionEnds \/ Crash \/ Exit \/ Starts \/ Saves \/ SaveFails
  BY <1>2 DEF SessionEnds, Fault, Crash, Forgets, Exit, Unmounted, Starts, Saves, SaveFails
<1>3. ASSUME NEW k \in Ids, BeginActivate(k)
      PROVE  ViewInv'
  BY <1>3, NoChangesMerged DEF BeginActivate
<1>4. CASE Verifies \/ MovesOriginal \/ MoveFails
  BY <1>4 DEF Verifies, Returns, MovesOriginal, MoveFails, Fault
<1>5. CASE Records
  BY <1>5 DEF Records, Save, Prepared
<1>6. CASE RecordFails
  BY <1>6 DEF RecordFails, Fault, Prepared
<1>7. CASE Mounts
  BY <1>7, NoChangesMerged DEF Mounts
<1>7a. CASE Clears \/ ClearFails \/ MountRefused \/ MountFails
  BY <1>7a DEF Clears, Returns, ClearFails, Fault, MountRefused, MountFails
<1>8. CASE Recovers \/ RecoverFails \/ Upkeep
  BY <1>8 DEF Recovers, CanRecover, HasRecord, RecoverFails, Fault, Upkeep
<1>9. CASE BeginReclaim \/ DeleteFails
  BY <1>9 DEF BeginReclaim, Begins, Save, Fault, HasRecord, DeleteFails, Returns
<1>10. CASE (\E f \in Files : DeletesFile(f))
  BY <1>10 DEF DeletesFile
<1>11. CASE Deleted
  BY <1>11 DEF Deleted
<1>12. ASSUME NEW k \in Ids, BeginCompact(k)
      PROVE  ViewInv'
  <2>1. /\ mem # NoRecord /\ store[mem.at].st = "whole" /\ mem.at \in Ids
        /\ store' = [store EXCEPT ![k] = [st |-> "building", files |-> View(mem.at)]]
        /\ layer' = layer /\ layer[k].st = "none"
    BY <1>12 DEF BeginCompact, Unused
  <2>2. View(mem.at) # Nothing /\ View(mem.at) \in Content /\ layer[k].changes = NoChanges
    BY <2>1, ViewIsContent
  <2>3. View(k)' = View(mem.at)
    BY <2>1, <2>2, NoChangesMerged
  <2>4. \A j \in Ids : j # k => store'[j] = store[j]
    BY <2>1
  <2>. QED BY <2>1, <2>2, <2>3, <2>4
<1>12a. CASE Freezes
  BY <1>12a DEF Freezes
<1>12b. CASE Discards \/ Cancels
  <2>1. store' = [store EXCEPT ![target] = NoStore] /\ layer' = layer /\ target \in Ids
    BY <1>12b DEF Discards, Cancels
  <2>. QED BY <2>1
<1>12c. CASE RecordsSwitch \/ SwitchFails
  BY <1>12c DEF RecordsSwitch, Save, SwitchFails, Fault
<1>13. CASE Unmounts("stopping", "switching") \/ UnmountFails \/ Switches \/ SwitchedUnsaved
  BY <1>13 DEF Unmounts, UnmountFails, Returns, Fault, Switches, Save, Switched,
         SwitchedUnsaved
<1>14. CASE BeginPrune \/ PruneChecks \/ PruneFails \/ StoreTears
  BY <1>14 DEF BeginPrune, Begins, Save, Fault, HasRecord, PruneChecks, Returns, PruneFails,
         StoreTears
<1>15. CASE StoreRemoved \/ LayerTears \/ Pruned
  BY <1>15 DEF StoreRemoved, LayerTears, Returns, Pruned
<1>16. CASE BeginRollback \/ Unmounts("unmounting", "emptied") \/ Empties \/
            (\E f \in Files : MergesFile(f)) \/ RemovesMountPoint
  BY <1>16 DEF BeginRollback, Begins, Save, Fault, HasRecord, Unmounts, Empties, Returns,
         MergesFile, RemovesMountPoint
<1>17. CASE RestoreRefused \/ RestoreFails \/ Publishes \/ Restored \/ VerifyRestored
  BY <1>17 DEF RestoreRefused, Returns, RestoreFails, Fault, Publishes, Restored,
         VerifyRestored
<1>. HIDE DEF TypeInv, TypeOK, ViewInv, WholeInv, MountInv, StoreOK, StepOK, NoStore,
           NoLayer, NewLayer, View, SavedInv, record, session, disk, work, counts, Record,
           NoRecord, Phases, RecordOK, StepInv, FolderOK, CountOK, Kinds
<1>. QED BY <1>1, <1>2, <1>3, <1>4, <1>5, <1>6, <1>7, <1>7a, <1>8, <1>9, <1>10, <1>11,
            <1>12, <1>12a, <1>12b, <1>12c, <1>13, <1>14, <1>15, <1>16, <1>17
         DEF Next, Environment, Client, Progress, Failure

LEMMA KeptStep == ~Reuse /\ TypeInv /\ SavedInv /\ WholeInv /\ ViewInv /\ KeptInv /\ Next =>
    KeptInv'
<1>. SUFFICES ASSUME ~Reuse, TypeInv, SavedInv, WholeInv, ViewInv, KeptInv, Next PROVE
     KeptInv'
  OBVIOUS
<1>. USE DEF TypeInv, TypeOK, KeptInv, StepOK, StoreOK, AtInv, SavedInv, record, session,
           disk, work, counts, Record, NoRecord, Phases, RecordOK, StepInv, FolderOK,
           CountOK, Kinds
<1>1. CASE (\E f \in Files, v \in Values : GameWrites(f, v))
  BY <1>1 DEF GameWrites
<1>2. CASE SessionEnds \/ Crash \/ Exit \/ Starts \/ Saves \/ SaveFails
  BY <1>2 DEF SessionEnds, Fault, Crash, Forgets, Exit, Unmounted, Starts, Saves, SaveFails
<1>3. CASE (\E k \in Ids : BeginActivate(k))
  BY <1>3 DEF BeginActivate, HasRecord
<1>4. CASE Verifies \/ MovesOriginal \/ MoveFails
  BY <1>4 DEF Verifies, Returns, MovesOriginal, MoveFails, Fault
<1>5. CASE Records
  BY <1>5 DEF Records, Save, Prepared
<1>6. CASE RecordFails
  BY <1>6 DEF RecordFails, Fault, Prepared
<1>7. CASE Clears \/ ClearFails \/ Mounts \/ MountRefused \/ MountFails
  BY <1>7 DEF Clears, Returns, ClearFails, Fault, Mounts, MountRefused, MountFails
<1>8. CASE Recovers \/ RecoverFails \/ Upkeep
  BY <1>8 DEF Recovers, CanRecover, HasRecord, RecoverFails, Fault, Upkeep
<1>9. CASE BeginReclaim \/ DeleteFails
  BY <1>9 DEF BeginReclaim, Begins, Save, Fault, HasRecord, DeleteFails, Returns
<1>10. CASE (\E f \in Files : DeletesFile(f))
  BY <1>10 DEF DeletesFile
<1>11. CASE Deleted
  BY <1>11 DEF Deleted, NoBackup
<1>12. CASE (\E k \in Ids : BeginCompact(k)) \/ Freezes \/ Discards \/ Cancels \/
            RecordsSwitch \/ SwitchFails
  BY <1>12 DEF BeginCompact, Freezes, Discards, Returns, Cancels, RecordsSwitch, Save,
         SwitchFails, Fault
<1>13. CASE Unmounts("stopping", "switching") \/ UnmountFails
  BY <1>13 DEF Unmounts, UnmountFails, Returns, Fault
<1>13a. CASE Switches \/ SwitchedUnsaved
  BY <1>13a DEF Switches, Save, Switched, SwitchedUnsaved, Fault
<1>14. CASE BeginPrune \/ PruneChecks \/ PruneFails \/ StoreTears
  BY <1>14 DEF BeginPrune, Begins, Save, Fault, HasRecord, PruneChecks, Returns, PruneFails,
         StoreTears
<1>15. CASE StoreRemoved
  BY <1>15 DEF StoreRemoved
<1>15a. CASE LayerTears
  BY <1>15a DEF LayerTears, Returns
<1>15b. CASE Pruned
  BY <1>15b DEF Pruned, WholeInv
<1>16. CASE BeginRollback \/ Unmounts("unmounting", "emptied") \/ Empties \/
            (\E f \in Files : MergesFile(f)) \/ RemovesMountPoint
  BY <1>16 DEF BeginRollback, Begins, Save, Fault, HasRecord, Unmounts, Empties, Returns,
         MergesFile, RemovesMountPoint
<1>17. CASE RestoreRefused \/ RestoreFails
  BY <1>17 DEF RestoreRefused, Returns, RestoreFails, Fault
<1>17a. CASE Publishes
  BY <1>17a DEF Publishes, BackupIsCurrent, NoBackup
<1>17b. CASE Restored
  BY <1>17b DEF Restored
<1>17c. CASE VerifyRestored
  <2>1. folder.files # Nothing
    BY <1>17c DEF VerifyRestored, ViewInv, StoreOpens
  <2>. QED BY <1>17c, <2>1 DEF VerifyRestored
<1>. HIDE DEF TypeInv, TypeOK, KeptInv, StepOK, StoreOK, AtInv, SavedInv, record, session,
           disk, work, counts, Record, NoRecord, Phases, RecordOK, StepInv, FolderOK,
           CountOK, Kinds
<1>. QED BY <1>1, <1>2, <1>3, <1>4, <1>5, <1>6, <1>7, <1>8, <1>9, <1>10, <1>11, <1>12,
            <1>13, <1>13a, <1>14, <1>15, <1>15a, <1>15b, <1>16, <1>17, <1>17a, <1>17b,
            <1>17c
         DEF Next, Environment, Client, Progress, Failure

-----------------------------------------------------------------------------
(* An installation that nothing else disturbs *)

\* No store is activated twice, saves succeed, the folder changes neither between the last
\* check of a switch and its rename nor while an unfinished activation waits, no deletion
\* stops part way, no store is out of reach after a crash, and where a merge may be cut
\* short the game removes no files.
Undisturbed ==
    /\ ~Reuse
    /\ \A b \in Budgets :
          /\ b["save"] = 0 /\ b["race"] = 0 /\ b["interim"] = 0 /\ b["delete"] = 0
          /\ b["crash"] = 0 \/ b["open"] = 0
          /\ Removable = {} \/ (b["crash"] = 0 /\ b["merge"] = 0)

CalmInv ==
    /\ faults["race"] = 0 /\ faults["interim"] = 0 /\ faults["delete"] = 0
    /\ faults["crash"] = 0 \/ faults["open"] = 0
    /\ Removable = {} \/ (faults["crash"] = 0 /\ faults["merge"] = 0)

\* Ordinary files are there exactly when no store stands for them.
PlaceInv ==
    /\ pc \in {"down", "recover"} => mem = saved
    /\ handle \/ mount # "none" => folder.files = Nothing
    /\ mem = NoRecord \/ saved = NoRecord \/ pc = "forgetting" => folder.files # Nothing
    /\ pc = "switching" => folder.files = Nothing
    /\ pc \in {"emptied", "merging", "publishing"} => ~handle

\* The layers that records name open.
LayerInv ==
    /\ mem # NoRecord => LayerOpens(mem.at)
    /\ saved # NoRecord => LayerOpens(saved.at)
    /\ pc \in {"verify", "building", "frozen", "stopping", "switching"}
          => layer[target].st = "none"
    /\ pc = "verified" => layer[target].st = "whole"

\* Until the original is moved aside, the folder is what the store shows.
CheckedInv ==
    /\ pc = "verified" => /\ ~backup.kept /\ folder.files = store[target].files
                          /\ layer[target].changes = NoChanges
    /\ (saved.phase = "Switching" /\ ~backup.kept) =>
          /\ folder.files = store[saved.at].files /\ layer[saved.at].changes = NoChanges
          /\ \/ pc = "saving"
             \/ mem = saved /\ pc \in {"switch", "loop", "down", "recover"}

\* The store that a compaction switches to shows what the mount shows.
BuiltInv ==
    /\ pc \in {"building", "frozen", "stopping", "switching"} => target # mem.at
    /\ (pc \in {"frozen", "stopping", "switching"} \/ (pc = "building" /\ ~dirty))
          => store[target].files = View(mem.at)

\* A reclaim that began ends before anything else touches the original.
ReclaimInv ==
    (saved.phase = "Reclaiming" /\ backup.kept) =>
        /\ mem.phase = "Reclaiming" /\ pc \in {"deleting", "down", "recover"}
        /\ pc # "deleting" => faults["open"] = 0

\* The original is the store's where the layer changed nothing, and where the game may
\* remove files it is the store's everywhere until a restoration merges the layer in.
ServesInv ==
    (backup.kept /\ saved.phase # "Reclaiming") =>
        \A f \in Files : \/ backup.files[f] = store[saved.at].files[f]
                         \/ /\ f \in DOMAIN layer[saved.at].changes
                            /\ Removable = {} \/ pc \in {"merging", "publishing"}

\* What is about to be published is complete.
RestoreInv ==
    /\ pc = "publishing" => saved.phase = "Restoring"
    /\ (pc = "publishing" /\ BackupIsCurrent)
        => backup.kept /\ backup.files = Merged(layer[mem.at].changes, backup.files)

LEMMA CalmStep == TypeInv /\ CalmInv /\ Next => CalmInv'
<1>. SUFFICES ASSUME TypeInv, CalmInv, Next PROVE CalmInv'
  OBVIOUS
<1>. USE DEF TypeInv, TypeOK, CalmInv, record, session, disk, work, counts, CountOK, Kinds
<1>1. CASE (\E f \in Files, v \in Values : GameWrites(f, v))
  BY <1>1 DEF GameWrites
<1>2. CASE SessionEnds \/ Crash \/ Exit \/ Starts \/ Saves \/ SaveFails
  BY <1>2 DEF SessionEnds, Fault, Crash, Forgets, Exit, Unmounted, Starts, Saves, SaveFails
<1>3. CASE (\E k \in Ids : BeginActivate(k))
  BY <1>3 DEF BeginActivate, HasRecord
<1>4. CASE Verifies \/ MovesOriginal \/ MoveFails
  BY <1>4 DEF Verifies, Returns, MovesOriginal, MoveFails, Fault
<1>5. CASE Records
  BY <1>5 DEF Records, Save, Prepared
<1>6. CASE RecordFails
  BY <1>6 DEF RecordFails, Fault, Prepared
<1>7. CASE Clears \/ ClearFails \/ Mounts \/ MountRefused \/ MountFails
  BY <1>7 DEF Clears, Returns, ClearFails, Fault, Mounts, MountRefused, MountFails
<1>8. CASE Recovers \/ RecoverFails \/ Upkeep
  BY <1>8 DEF Recovers, CanRecover, HasRecord, RecoverFails, Fault, Upkeep
<1>9. CASE BeginReclaim \/ DeleteFails
  BY <1>9 DEF BeginReclaim, Begins, Save, Fault, HasRecord, DeleteFails, Returns
<1>10. CASE (\E f \in Files : DeletesFile(f))
  BY <1>10 DEF DeletesFile
<1>11. CASE Deleted
  BY <1>11 DEF Deleted
<1>12. CASE (\E k \in Ids : BeginCompact(k)) \/ Freezes \/ Discards \/ Cancels \/
            RecordsSwitch \/ SwitchFails
  BY <1>12 DEF BeginCompact, Freezes, Discards, Returns, Cancels, RecordsSwitch, Save,
         SwitchFails, Fault
<1>13. CASE Unmounts("stopping", "switching") \/ UnmountFails \/ Switches \/ SwitchedUnsaved
  BY <1>13 DEF Unmounts, UnmountFails, Returns, Fault, Switches, Save, Switched,
         SwitchedUnsaved
<1>14. CASE BeginPrune \/ PruneChecks \/ PruneFails \/ StoreTears
  BY <1>14 DEF BeginPrune, Begins, Save, Fault, HasRecord, PruneChecks, Returns, PruneFails,
         StoreTears
<1>15. CASE StoreRemoved \/ LayerTears \/ Pruned
  BY <1>15 DEF StoreRemoved, LayerTears, Returns, Pruned
<1>16. CASE BeginRollback \/ Unmounts("unmounting", "emptied") \/ Empties \/
            (\E f \in Files : MergesFile(f)) \/ RemovesMountPoint
  BY <1>16 DEF BeginRollback, Begins, Save, Fault, HasRecord, Unmounts, Empties, Returns,
         MergesFile, RemovesMountPoint
<1>17. CASE RestoreRefused \/ RestoreFails \/ Publishes \/ Restored \/ VerifyRestored
  BY <1>17 DEF RestoreRefused, Returns, RestoreFails, Fault, Publishes, Restored,
         VerifyRestored
<1>. HIDE DEF TypeInv, TypeOK, CalmInv, record, session, disk, work, counts, CountOK, Kinds
<1>. QED BY <1>1, <1>2, <1>3, <1>4, <1>5, <1>6, <1>7, <1>8, <1>9, <1>10, <1>11, <1>12,
            <1>13, <1>14, <1>15, <1>16, <1>17
         DEF Next, Environment, Client, Progress, Failure

LEMMA LayerStep == ~Reuse /\ TypeInv /\ SavedInv /\ WholeInv /\ MountInv /\ LayerInv /\ Next
    => LayerInv'
<1>. SUFFICES ASSUME ~Reuse, TypeInv, SavedInv, WholeInv, MountInv, LayerInv, Next PROVE
     LayerInv'
  OBVIOUS
<1>. USE DEF TypeInv, TypeOK, LayerInv, WholeInv, AtInv, StepOK, StoreOK, NewLayer, NoLayer,
           LayerOpens, SavedInv, record, session, disk, work, counts, Record, NoRecord,
           Phases, RecordOK, StepInv, FolderOK, CountOK, Kinds
<1>1. ASSUME NEW f \in Files, NEW v \in Values, GameWrites(f, v)
      PROVE  LayerInv'
  <2>1. WritesFolder(f, v) \/ WritesLayer(f, v)
    BY <1>1, GameWriteLands
  <2>. QED BY <2>1 DEF WritesFolder, WritesLayer, WriteFrame, CheckedFolder, WaitingFolder, Frozen
<1>2. CASE SessionEnds \/ Crash \/ Exit \/ Starts \/ Saves \/ SaveFails
  BY <1>2 DEF SessionEnds, Fault, Crash, Forgets, Exit, Unmounted, Starts, Saves, SaveFails
<1>3. CASE (\E k \in Ids : BeginActivate(k))
  BY <1>3 DEF BeginActivate, HasRecord
<1>4. CASE Verifies \/ MovesOriginal \/ MoveFails
  <2>1. CASE Verifies
    BY <2>1 DEF Verifies, Returns
  <2>2. CASE MovesOriginal
    BY <2>2 DEF MovesOriginal
  <2>3. CASE MoveFails
    BY <2>3 DEF MoveFails, Returns, Fault
  <2>. QED BY <1>4, <2>1, <2>2, <2>3
<1>5. CASE Records
  BY <1>5 DEF Records, Save, Prepared
<1>6. CASE RecordFails
  BY <1>6 DEF RecordFails, Fault, Prepared
<1>7. CASE Clears \/ ClearFails \/ Mounts \/ MountRefused \/ MountFails
  BY <1>7 DEF Clears, Returns, ClearFails, Fault, Mounts, MountRefused, MountFails
<1>8. CASE Recovers \/ RecoverFails \/ Upkeep
  BY <1>8 DEF Recovers, CanRecover, HasRecord, RecoverFails, Fault, Upkeep
<1>9. CASE BeginReclaim \/ DeleteFails
  BY <1>9 DEF BeginReclaim, Begins, Save, Fault, HasRecord, DeleteFails, Returns
<1>10. CASE (\E f \in Files : DeletesFile(f))
  BY <1>10 DEF DeletesFile
<1>11. CASE Deleted
  BY <1>11 DEF Deleted
<1>12. ASSUME NEW k \in Ids, BeginCompact(k)
      PROVE  LayerInv'
  BY <1>12 DEF BeginCompact, Unused
<1>12a. CASE Freezes
  BY <1>12a DEF Freezes
<1>12b. CASE Discards \/ Cancels
  <2>1. /\ mem \in Record /\ UNCHANGED <<saved, layer>> /\ pc' \in {"loop", "saving"}
        /\ mem' = mem \/ mem' = [mem EXCEPT !.phase = "Attention"]
    BY <1>12b DEF Discards, Cancels, Returns
  <2>. QED BY <2>1
<1>12c. CASE RecordsSwitch \/ SwitchFails
  BY <1>12c DEF RecordsSwitch, Save, SwitchFails, Fault
<1>13. CASE Unmounts("stopping", "switching") \/ UnmountFails
  BY <1>13 DEF Unmounts, UnmountFails, Returns, Fault
<1>13a. CASE Switches \/ SwitchedUnsaved
  <2>1. CASE Switches
    BY <2>1 DEF Switches, Save, Switched
  <2>2. CASE SwitchedUnsaved
    BY <2>2 DEF SwitchedUnsaved, Switched, Fault
  <2>. QED BY <1>13a, <2>1, <2>2
<1>14. CASE BeginPrune \/ PruneChecks \/ PruneFails \/ StoreTears
  BY <1>14 DEF BeginPrune, Begins, Save, Fault, HasRecord, PruneChecks, Returns, PruneFails,
         StoreTears
<1>15. CASE StoreRemoved
  BY <1>15 DEF StoreRemoved
<1>15a. CASE LayerTears
  BY <1>15a DEF LayerTears, Returns
<1>15b. CASE Pruned
  BY <1>15b DEF Pruned
<1>16. CASE BeginRollback \/ Unmounts("unmounting", "emptied") \/ Empties \/
            (\E f \in Files : MergesFile(f)) \/ RemovesMountPoint
  BY <1>16 DEF BeginRollback, Begins, Save, Fault, HasRecord, Unmounts, Empties, Returns,
         MergesFile, RemovesMountPoint
<1>17. CASE RestoreRefused \/ RestoreFails \/ Publishes \/ Restored \/ VerifyRestored
  <2>1. CASE RestoreRefused
    BY <2>1 DEF RestoreRefused, Returns
  <2>2. CASE RestoreFails
    BY <2>2 DEF RestoreFails, Returns, Fault
  <2>3. CASE Publishes
    BY <2>3 DEF Publishes
  <2>4. CASE Restored
    BY <2>4 DEF Restored
  <2>5. CASE VerifyRestored
    BY <2>5 DEF VerifyRestored, Returns
  <2>. QED BY <1>17, <2>1, <2>2, <2>3, <2>4, <2>5
<1>. HIDE DEF TypeInv, TypeOK, LayerInv, WholeInv, AtInv, StepOK, StoreOK, NewLayer,
           NoLayer, LayerOpens, SavedInv, record, session, disk, work, counts, Record,
           NoRecord, Phases, RecordOK, StepInv, FolderOK, CountOK, Kinds
<1>. QED BY <1>1, <1>2, <1>3, <1>4, <1>5, <1>6, <1>7, <1>8, <1>9, <1>10, <1>11, <1>12,
            <1>12a, <1>12b, <1>12c, <1>13, <1>13a, <1>14, <1>15, <1>15a, <1>15b, <1>16,
            <1>17
         DEF Next, Environment, Client, Progress, Failure

LEMMA CheckedStep == ~Reuse /\ TypeInv /\ SavedInv /\ WholeInv /\ MountInv /\ ViewInv /\
    KeptInv /\ CalmInv /\ PlaceInv /\ LayerInv /\ RestoreInv /\ CheckedInv /\ Next =>
    CheckedInv'
<1>. SUFFICES ASSUME ~Reuse, TypeInv, SavedInv, WholeInv, MountInv, ViewInv, KeptInv,
     CalmInv, PlaceInv, LayerInv, RestoreInv, CheckedInv, Next PROVE CheckedInv'
  OBVIOUS
<1>. USE DEF TypeInv, TypeOK, CheckedInv, WholeInv, AtInv, PhaseInv, StepOK, StoreOK,
           NewLayer, NoLayer, KeptInv, CalmInv, PlaceInv, RestoreInv, SavedInv, record,
           session, disk, work, counts, Record, NoRecord, Phases, RecordOK, StepInv,
           FolderOK, CountOK, Kinds
<1>1. ASSUME NEW f \in Files, NEW v \in Values, GameWrites(f, v)
      PROVE  CheckedInv'
  <2>1. WritesFolder(f, v) \/ WritesLayer(f, v)
    BY <1>1, GameWriteLands
  <2>2. CASE WritesFolder(f, v)
    BY <2>2 DEF WritesFolder, WriteFrame, CheckedFolder, WaitingFolder
  <2>3. CASE WritesLayer(f, v)
    <3>1. folder.files = Nothing /\ mem # NoRecord /\ UNCHANGED <<pc, mem, saved, folder, backup, store>>
      BY <2>3 DEF WritesLayer, WriteFrame, MountInv
    <3>2. saved.at = mem.at /\ saved # NoRecord
      BY <3>1, BothRecords
    <3>3. CASE saved.phase = "Switching" /\ ~backup.kept
      <4>1. View(saved.at) = Nothing
        BY <3>1, <3>2, <3>3, NoChangesMerged, RecordFacts DEF View
      <4>. QED BY <4>1, <3>2, RecordFacts DEF ViewInv
    <3>. QED BY <3>1, <3>3
  <2>. QED BY <2>1, <2>2, <2>3
<1>2. CASE SessionEnds \/ Crash \/ Exit \/ Starts \/ Saves \/ SaveFails
  BY <1>2 DEF SessionEnds, Fault, Crash, Forgets, Exit, Unmounted, Starts, Saves, SaveFails
<1>3. CASE (\E k \in Ids : BeginActivate(k))
  BY <1>3 DEF BeginActivate, HasRecord
<1>4. CASE Verifies
  BY <1>4 DEF Verifies, Returns, LayerInv, ViewInv
<1>4a. CASE MovesOriginal
  BY <1>4a DEF MovesOriginal
<1>4b. CASE MoveFails
  BY <1>4b DEF MoveFails, Returns, Fault
<1>5. CASE Records
  BY <1>5 DEF Records, Save, Prepared
<1>6. CASE RecordFails
  BY <1>6 DEF RecordFails, Fault, Prepared
<1>7. CASE Clears \/ ClearFails \/ Mounts \/ MountRefused \/ MountFails
  BY <1>7 DEF Clears, Returns, ClearFails, Fault, Mounts, MountRefused, MountFails
<1>8. CASE Recovers
  BY <1>8 DEF Recovers, CanRecover
<1>8a. CASE RecoverFails
  BY <1>8a DEF RecoverFails, CanRecover, Fault
<1>8b. CASE Upkeep
  BY <1>8b, ViewIsContent, NoChangesMerged DEF Upkeep, HasRecord, ViewInv, View
<1>9. CASE BeginReclaim \/ DeleteFails
  BY <1>9 DEF BeginReclaim, Begins, Save, Fault, HasRecord, DeleteFails, Returns
<1>10. CASE (\E f \in Files : DeletesFile(f))
  BY <1>10 DEF DeletesFile
<1>11. CASE Deleted
  BY <1>11 DEF Deleted, NoBackup
<1>12. CASE (\E k \in Ids : BeginCompact(k)) \/ Freezes \/ Discards \/ Cancels \/
            RecordsSwitch \/ SwitchFails
  BY <1>12 DEF BeginCompact, Freezes, Discards, Returns, Cancels, RecordsSwitch, Save,
         SwitchFails, Fault
<1>13. CASE Unmounts("stopping", "switching") \/ UnmountFails \/ Switches \/ SwitchedUnsaved
  BY <1>13 DEF Unmounts, UnmountFails, Returns, Fault, Switches, Save, Switched,
         SwitchedUnsaved
<1>14. CASE BeginPrune \/ PruneChecks \/ PruneFails \/ StoreTears
  BY <1>14 DEF BeginPrune, Begins, Save, Fault, HasRecord, PruneChecks, Returns, PruneFails,
         StoreTears
<1>15. CASE StoreRemoved \/ LayerTears \/ Pruned
  BY <1>15 DEF StoreRemoved, LayerTears, Returns, Pruned
<1>16. CASE BeginRollback \/ Unmounts("unmounting", "emptied") \/ Empties \/
            (\E f \in Files : MergesFile(f)) \/ RemovesMountPoint
  BY <1>16 DEF BeginRollback, Begins, Save, Fault, HasRecord, Unmounts, Empties, Returns,
         MergesFile, RemovesMountPoint
<1>17. CASE RestoreRefused \/ RestoreFails
  BY <1>17 DEF RestoreRefused, Returns, RestoreFails, Fault
<1>17a. CASE Publishes
  BY <1>17a DEF Publishes, BackupIsCurrent, NoBackup
<1>17b. CASE Restored
  BY <1>17b DEF Restored
<1>17c. CASE VerifyRestored
  BY <1>17c DEF VerifyRestored
<1>. HIDE DEF TypeInv, TypeOK, CheckedInv, WholeInv, AtInv, PhaseInv, StepOK, StoreOK,
           NewLayer, NoLayer, KeptInv, CalmInv, PlaceInv, RestoreInv, SavedInv, record,
           session, disk, work, counts, Record, NoRecord, Phases, RecordOK, StepInv,
           FolderOK, CountOK, Kinds
<1>. QED BY <1>1, <1>2, <1>3, <1>4, <1>4a, <1>4b, <1>5, <1>6, <1>7, <1>8, <1>8a, <1>8b,
            <1>9, <1>10, <1>11, <1>12, <1>13, <1>14, <1>15, <1>16, <1>17, <1>17a, <1>17b,
            <1>17c
         DEF Next, Environment, Client, Progress, Failure

LEMMA BuiltStep == ~Reuse /\ TypeInv /\ SavedInv /\ WholeInv /\ MountInv /\ ViewInv /\
    PlaceInv /\ LayerInv /\ BuiltInv /\ Next => BuiltInv'
<1>. SUFFICES ASSUME ~Reuse, TypeInv, SavedInv, WholeInv, MountInv, ViewInv, PlaceInv,
     LayerInv, BuiltInv, Next PROVE BuiltInv'
  OBVIOUS
<1>. USE DEF TypeInv, TypeOK, BuiltInv, WholeInv, AtInv, StepOK, StoreOK, NewLayer, NoLayer,
           MountInv, LayerInv, View, SavedInv, record, session, disk, work, counts, Record,
           NoRecord, Phases, RecordOK, StepInv, FolderOK, CountOK, Kinds
<1>1. ASSUME NEW f \in Files, NEW v \in Values, GameWrites(f, v)
      PROVE  BuiltInv'
  <2>1. WritesFolder(f, v) \/ WritesLayer(f, v)
    BY <1>1, GameWriteLands
  <2>. QED BY <2>1 DEF WritesFolder, WritesLayer, WriteFrame, CheckedFolder, WaitingFolder, Frozen
<1>2. CASE SessionEnds
  BY <1>2 DEF SessionEnds, Fault
<1>2a. CASE Crash \/ Exit
  BY <1>2a DEF Crash, Forgets, Exit
<1>2b. CASE Starts
  BY <1>2b DEF Starts
<1>2c. CASE Saves \/ SaveFails
  BY <1>2c DEF Fault, Saves, SaveFails
<1>3. CASE (\E k \in Ids : BeginActivate(k))
  BY <1>3 DEF BeginActivate, HasRecord
<1>4. CASE Verifies \/ MovesOriginal \/ MoveFails
  BY <1>4 DEF Verifies, Returns, MovesOriginal, MoveFails, Fault
<1>5. CASE Records
  BY <1>5 DEF Records, Save, Prepared
<1>6. CASE RecordFails
  BY <1>6 DEF RecordFails, Fault, Prepared
<1>7. CASE Clears \/ ClearFails \/ Mounts \/ MountRefused \/ MountFails
  BY <1>7 DEF Clears, Returns, ClearFails, Fault, Mounts, MountRefused, MountFails
<1>8. CASE Recovers \/ RecoverFails \/ Upkeep
  BY <1>8 DEF Recovers, CanRecover, HasRecord, RecoverFails, Fault, Upkeep
<1>9. CASE BeginReclaim \/ DeleteFails
  BY <1>9 DEF BeginReclaim, Begins, Save, Fault, HasRecord, DeleteFails, Returns
<1>10. CASE (\E f \in Files : DeletesFile(f))
  BY <1>10 DEF DeletesFile
<1>11. CASE Deleted
  BY <1>11 DEF Deleted
<1>12. ASSUME NEW k \in Ids, BeginCompact(k)
      PROVE  BuiltInv'
  BY <1>12 DEF BeginCompact, Unused
<1>12a. CASE Freezes
  BY <1>12a DEF Freezes
<1>12b. CASE Discards \/ Cancels
  BY <1>12b DEF Discards, Cancels, Returns
<1>12c. CASE RecordsSwitch \/ SwitchFails
  BY <1>12c DEF RecordsSwitch, Save, SwitchFails, Fault
<1>13. CASE Unmounts("stopping", "switching") \/ UnmountFails
  BY <1>13 DEF Unmounts, UnmountFails, Returns, Fault
<1>13a. CASE Switches \/ SwitchedUnsaved
  BY <1>13a DEF Switches, Save, Switched, SwitchedUnsaved, Fault
<1>14. CASE BeginPrune \/ PruneChecks \/ PruneFails \/ StoreTears
  BY <1>14 DEF BeginPrune, Begins, Save, Fault, HasRecord, PruneChecks, Returns, PruneFails,
         StoreTears
<1>15. CASE StoreRemoved \/ LayerTears \/ Pruned
  BY <1>15 DEF StoreRemoved, LayerTears, Returns, Pruned
<1>16. CASE BeginRollback \/ Unmounts("unmounting", "emptied") \/ Empties \/
            (\E f \in Files : MergesFile(f)) \/ RemovesMountPoint
  BY <1>16 DEF BeginRollback, Begins, Save, Fault, HasRecord, Unmounts, Empties, Returns,
         MergesFile, RemovesMountPoint
<1>17. CASE RestoreRefused \/ RestoreFails \/ Publishes \/ Restored \/ VerifyRestored
  BY <1>17 DEF RestoreRefused, Returns, RestoreFails, Fault, Publishes, Restored,
         VerifyRestored
<1>. HIDE DEF TypeInv, TypeOK, BuiltInv, WholeInv, AtInv, StepOK, StoreOK, NewLayer,
           NoLayer, MountInv, LayerInv, View, SavedInv, record, session, disk, work, counts,
           Record, NoRecord, Phases, RecordOK, StepInv, FolderOK, CountOK, Kinds
<1>. QED BY <1>1, <1>2, <1>2a, <1>2b, <1>2c, <1>3, <1>4, <1>5, <1>6, <1>7, <1>8, <1>9,
            <1>10, <1>11, <1>12, <1>12a, <1>12b, <1>12c, <1>13, <1>13a, <1>14, <1>15, <1>16,
            <1>17
         DEF Next, Environment, Client, Progress, Failure

LEMMA ReclaimStep == TypeInv /\ SavedInv /\ WholeInv /\ KeptInv /\ CalmInv /\ PlaceInv /\
    ReclaimInv /\ Next => ReclaimInv'
<1>. SUFFICES ASSUME TypeInv, SavedInv, WholeInv, KeptInv, CalmInv, PlaceInv, ReclaimInv,
     Next PROVE ReclaimInv'
  OBVIOUS
<1>. USE DEF TypeInv, TypeOK, ReclaimInv, WholeInv, AtInv, PhaseInv, StepOK, KeptInv,
           CalmInv, PlaceInv, SavedInv, record, session, disk, work, counts, Record,
           NoRecord, Phases, RecordOK, StepInv, FolderOK, CountOK, Kinds
<1>1. CASE (\E f \in Files, v \in Values : GameWrites(f, v))
  BY <1>1 DEF GameWrites
<1>2. CASE SessionEnds \/ Crash \/ Exit \/ Starts \/ Saves \/ SaveFails
  BY <1>2 DEF SessionEnds, Fault, Crash, Forgets, Exit, Unmounted, Starts, Saves, SaveFails
<1>3. CASE (\E k \in Ids : BeginActivate(k))
  BY <1>3 DEF BeginActivate, HasRecord
<1>4. CASE Verifies \/ MovesOriginal \/ MoveFails
  BY <1>4 DEF Verifies, Returns, MovesOriginal, MoveFails, Fault
<1>5. CASE Records
  BY <1>5 DEF Records, Save, Prepared
<1>6. CASE RecordFails
  BY <1>6 DEF RecordFails, Fault, Prepared
<1>7. CASE Clears \/ ClearFails \/ Mounts \/ MountRefused \/ MountFails
  BY <1>7 DEF Clears, Returns, ClearFails, Fault, Mounts, MountRefused, MountFails
<1>8. CASE Recovers
  BY <1>8 DEF Recovers, CanRecover, StoreOpens
<1>8a. CASE RecoverFails
  BY <1>8a DEF RecoverFails, CanRecover, Fault
<1>8b. CASE Upkeep
  BY <1>8b DEF Upkeep, HasRecord
<1>9. CASE BeginReclaim \/ DeleteFails
  BY <1>9 DEF BeginReclaim, Begins, Save, Fault, HasRecord, DeleteFails, Returns
<1>10. CASE (\E f \in Files : DeletesFile(f))
  BY <1>10 DEF DeletesFile
<1>11. CASE Deleted
  BY <1>11 DEF Deleted, NoBackup
<1>12. CASE (\E k \in Ids : BeginCompact(k)) \/ Freezes \/ Discards \/ Cancels \/
            RecordsSwitch \/ SwitchFails
  BY <1>12 DEF BeginCompact, Freezes, Discards, Returns, Cancels, RecordsSwitch, Save,
         SwitchFails, Fault
<1>13. CASE Unmounts("stopping", "switching") \/ UnmountFails \/ Switches \/ SwitchedUnsaved
  BY <1>13 DEF Unmounts, UnmountFails, Returns, Fault, Switches, Save, Switched,
         SwitchedUnsaved
<1>14. CASE BeginPrune \/ PruneChecks \/ PruneFails \/ StoreTears
  BY <1>14 DEF BeginPrune, Begins, Save, Fault, HasRecord, PruneChecks, Returns, PruneFails,
         StoreTears
<1>15. CASE StoreRemoved \/ LayerTears \/ Pruned
  BY <1>15 DEF StoreRemoved, LayerTears, Returns, Pruned
<1>16. CASE BeginRollback \/ Unmounts("unmounting", "emptied") \/ Empties \/
            (\E f \in Files : MergesFile(f)) \/ RemovesMountPoint
  BY <1>16 DEF BeginRollback, Begins, Save, Fault, HasRecord, Unmounts, Empties, Returns,
         MergesFile, RemovesMountPoint
<1>17. CASE RestoreRefused \/ RestoreFails \/ Publishes \/ Restored \/ VerifyRestored
  BY <1>17 DEF RestoreRefused, Returns, RestoreFails, Fault, Publishes, Restored,
         VerifyRestored
<1>. HIDE DEF TypeInv, TypeOK, ReclaimInv, WholeInv, AtInv, PhaseInv, StepOK, KeptInv,
           CalmInv, PlaceInv, SavedInv, record, session, disk, work, counts, Record,
           NoRecord, Phases, RecordOK, StepInv, FolderOK, CountOK, Kinds
<1>. QED BY <1>1, <1>2, <1>3, <1>4, <1>5, <1>6, <1>7, <1>8, <1>8a, <1>8b, <1>9, <1>10,
            <1>11, <1>12, <1>13, <1>14, <1>15, <1>16, <1>17
         DEF Next, Environment, Client, Progress, Failure

LEMMA RestoreStep == TypeInv /\ SavedInv /\ WholeInv /\ RestoreInv /\ Next => RestoreInv'
<1>. SUFFICES ASSUME TypeInv, SavedInv, WholeInv, RestoreInv, Next PROVE RestoreInv'
  OBVIOUS
<1>. USE DEF TypeInv, TypeOK, RestoreInv, WholeInv, AtInv, PhaseInv, StepOK, StoreOK,
           BackupIsCurrent, CanRestore, SavedInv, record, session, disk, work, counts,
           Record, NoRecord, Phases, RecordOK, StepInv, FolderOK, CountOK, Kinds
<1>1. CASE (\E f \in Files, v \in Values : GameWrites(f, v))
  BY <1>1 DEF GameWrites
<1>2. CASE SessionEnds \/ Crash \/ Exit \/ Starts \/ Saves \/ SaveFails
  BY <1>2 DEF SessionEnds, Fault, Crash, Forgets, Exit, Unmounted, Starts, Saves, SaveFails
<1>3. CASE (\E k \in Ids : BeginActivate(k))
  BY <1>3 DEF BeginActivate, HasRecord
<1>4. CASE Verifies \/ MovesOriginal \/ MoveFails
  BY <1>4 DEF Verifies, Returns, MovesOriginal, MoveFails, Fault
<1>5. CASE Records
  BY <1>5 DEF Records, Save, Prepared
<1>6. CASE RecordFails
  BY <1>6 DEF RecordFails, Fault, Prepared
<1>7. CASE Clears \/ ClearFails \/ Mounts \/ MountRefused \/ MountFails
  BY <1>7 DEF Clears, Returns, ClearFails, Fault, Mounts, MountRefused, MountFails
<1>8. CASE Recovers \/ RecoverFails \/ Upkeep
  BY <1>8 DEF Recovers, CanRecover, HasRecord, RecoverFails, Fault, Upkeep
<1>9. CASE BeginReclaim \/ DeleteFails
  BY <1>9 DEF BeginReclaim, Begins, Save, Fault, HasRecord, DeleteFails, Returns
<1>10. CASE (\E f \in Files : DeletesFile(f))
  BY <1>10 DEF DeletesFile
<1>11. CASE Deleted
  BY <1>11 DEF Deleted
<1>12. CASE (\E k \in Ids : BeginCompact(k)) \/ Freezes \/ Discards \/ Cancels \/
            RecordsSwitch \/ SwitchFails
  BY <1>12 DEF BeginCompact, Freezes, Discards, Returns, Cancels, RecordsSwitch, Save,
         SwitchFails, Fault
<1>13. CASE Unmounts("stopping", "switching") \/ UnmountFails \/ Switches \/ SwitchedUnsaved
  BY <1>13 DEF Unmounts, UnmountFails, Returns, Fault, Switches, Save, Switched,
         SwitchedUnsaved
<1>14. CASE BeginPrune \/ PruneChecks \/ PruneFails \/ StoreTears
  BY <1>14 DEF BeginPrune, Begins, Save, Fault, HasRecord, PruneChecks, Returns, PruneFails,
         StoreTears
<1>15. CASE StoreRemoved \/ LayerTears \/ Pruned
  BY <1>15 DEF StoreRemoved, LayerTears, Returns, Pruned
<1>16. CASE BeginRollback \/ Unmounts("unmounting", "emptied") \/ Empties \/
            (\E f \in Files : MergesFile(f)) \/ RemovesMountPoint
  BY <1>16 DEF BeginRollback, Begins, Save, Fault, HasRecord, Unmounts, Empties, Returns,
         MergesFile, RemovesMountPoint
<1>17. CASE RestoreRefused \/ RestoreFails \/ Publishes \/ Restored \/ VerifyRestored
  BY <1>17 DEF RestoreRefused, Returns, RestoreFails, Fault, Publishes, Restored,
         VerifyRestored
<1>. HIDE DEF TypeInv, TypeOK, RestoreInv, WholeInv, AtInv, PhaseInv, StepOK, StoreOK,
           BackupIsCurrent, CanRestore, SavedInv, record, session, disk, work, counts,
           Record, NoRecord, Phases, RecordOK, StepInv, FolderOK, CountOK, Kinds
<1>. QED BY <1>1, <1>2, <1>3, <1>4, <1>5, <1>6, <1>7, <1>8, <1>9, <1>10, <1>11, <1>12,
            <1>13, <1>14, <1>15, <1>16, <1>17
         DEF Next, Environment, Client, Progress, Failure

\* While the original serves, the original with the layer on top is what the mount shows.
LEMMA ServesView ==
    ASSUME TypeInv, AtInv, KeptInv, ServesInv, backup.kept, saved.phase # "Reclaiming"
    PROVE  Merged(layer[saved.at].changes, backup.files) = View(saved.at)
<1>1. \A f \in Files : \/ backup.files[f] = store[saved.at].files[f]
                       \/ f \in DOMAIN layer[saved.at].changes
  BY DEF ServesInv
<1>. QED BY <1>1 DEF View, Merged

\* A restoration publishes what a restart would have mounted.
LEMMA PublishesView ==
    ASSUME TypeInv, SavedInv, KeptInv, ServesInv, RestoreInv, Publishes
    PROVE  folder'.files = View(mem.at) /\ mem # NoRecord /\ ~backup'.kept
<1>1. pc = "publishing" /\ mem # NoRecord
  BY RecordFacts DEF TypeInv, StepInv, Publishes
<1>2. saved.at = mem.at
  BY <1>1, BothRecords DEF SavedInv
<1>3. CASE BackupIsCurrent
  <2>1. backup.kept /\ backup.files = Merged(layer[mem.at].changes, backup.files)
    BY <1>1, <1>3 DEF RestoreInv
  <2>2. saved.phase # "Reclaiming"
    BY <1>1 DEF RestoreInv
  <2>. QED BY <1>1, <1>2, <1>3, <2>1, <2>2, ServesView DEF SavedInv, Publishes, NoBackup
<1>4. CASE ~BackupIsCurrent
  BY <1>1, <1>4 DEF Publishes, KeptInv, BackupIsCurrent
<1>. QED BY <1>3, <1>4

LEMMA PlaceStep == ~Reuse /\ TypeInv /\ SavedInv /\ WholeInv /\ MountInv /\ ViewInv /\
    KeptInv /\ PlaceInv /\ ServesInv /\ RestoreInv /\ Next => PlaceInv'
<1>. SUFFICES ASSUME ~Reuse, TypeInv, SavedInv, WholeInv, MountInv, ViewInv, KeptInv,
     PlaceInv, ServesInv, RestoreInv, Next PROVE PlaceInv'
  OBVIOUS
<1>. USE DEF TypeInv, TypeOK, PlaceInv, AtInv, MountInv, StepOK, SavedInv, record, session,
           disk, work, counts, Record, NoRecord, Phases, RecordOK, StepInv, FolderOK,
           CountOK, Kinds
<1>1. ASSUME NEW f \in Files, NEW v \in Values, GameWrites(f, v)
      PROVE  PlaceInv'
  <2>1. WritesFolder(f, v) \/ WritesLayer(f, v)
    BY <1>1, GameWriteLands
  <2>. QED BY <2>1 DEF WritesFolder, WritesLayer, WriteFrame
<1>2. CASE SessionEnds \/ Crash \/ Exit \/ Starts \/ Saves \/ SaveFails
  BY <1>2 DEF SessionEnds, Fault, Crash, Forgets, Exit, Unmounted, Starts, Saves, SaveFails
<1>3. CASE (\E k \in Ids : BeginActivate(k))
  BY <1>3 DEF BeginActivate, HasRecord
<1>4. CASE Verifies
  BY <1>4 DEF Verifies, Returns, WholeInv
<1>4a. CASE MovesOriginal
  BY <1>4a DEF MovesOriginal, KeptInv
<1>4b. CASE MoveFails
  BY <1>4b DEF MoveFails, Returns, Fault
<1>5. CASE Records
  BY <1>5 DEF Records, Save, Prepared
<1>6. CASE RecordFails
  BY <1>6 DEF RecordFails, Fault, Prepared
<1>7. CASE Clears
  BY <1>7 DEF Clears, Returns
<1>7a. CASE ClearFails
  BY <1>7a DEF ClearFails, Returns, Fault
<1>7b. CASE Mounts
  BY <1>7b DEF Mounts, CanMount
<1>7c. CASE MountRefused \/ MountFails
  BY <1>7c DEF MountRefused, MountFails, Returns, Fault
<1>8. CASE Recovers \/ RecoverFails \/ Upkeep
  BY <1>8 DEF Recovers, CanRecover, HasRecord, RecoverFails, Fault, Upkeep
<1>9. CASE BeginReclaim \/ DeleteFails
  BY <1>9 DEF BeginReclaim, Begins, Save, Fault, HasRecord, DeleteFails, Returns
<1>10. CASE (\E f \in Files : DeletesFile(f))
  BY <1>10 DEF DeletesFile
<1>11. CASE Deleted
  BY <1>11 DEF Deleted
<1>12. CASE (\E k \in Ids : BeginCompact(k)) \/ Freezes \/ Discards \/ Cancels \/
            RecordsSwitch \/ SwitchFails
  BY <1>12 DEF BeginCompact, Freezes, Discards, Returns, Cancels, RecordsSwitch, Save,
         SwitchFails, Fault
<1>13. CASE Unmounts("stopping", "switching")
  BY <1>13 DEF Unmounts
<1>13a. CASE UnmountFails
  BY <1>13a DEF UnmountFails, Returns, Fault
<1>13b. CASE Switches \/ SwitchedUnsaved
  <2>1. mem \in Record /\ mem' = Switched /\ mem'.phase = "Mounted"
    BY <1>13b DEF Switches, Save, Switched, SwitchedUnsaved
  <2>2. saved' = mem' /\ pc' = "clearing" /\ UNCHANGED <<folder, handle, mount>>
    BY <1>13b DEF Switches, Save, SwitchedUnsaved, Fault
  <2>3. mem' # NoRecord
    BY <2>1
  <2>. QED BY <2>2, <2>3
<1>14. CASE BeginPrune \/ PruneChecks \/ PruneFails \/ StoreTears
  BY <1>14 DEF BeginPrune, Begins, Save, Fault, HasRecord, PruneChecks, Returns, PruneFails,
         StoreTears
<1>15. CASE StoreRemoved
  BY <1>15 DEF StoreRemoved
<1>15a. CASE LayerTears
  BY <1>15a DEF LayerTears, Returns
<1>15b. CASE Pruned
  BY <1>15b DEF Pruned
<1>16. CASE BeginRollback \/ Unmounts("unmounting", "emptied") \/ Empties \/
            (\E f \in Files : MergesFile(f)) \/ RemovesMountPoint
  BY <1>16 DEF BeginRollback, Begins, Save, Fault, HasRecord, Unmounts, Empties, Returns,
         MergesFile, RemovesMountPoint
<1>17. CASE RestoreRefused \/ RestoreFails
  BY <1>17 DEF RestoreRefused, Returns, RestoreFails, Fault
<1>17a. CASE Publishes
  <2>1. folder'.files # Nothing
    BY <1>17a, PublishesView, RecordFacts DEF WholeInv, ViewInv
  <2>2. UNCHANGED <<mem, saved, handle, mount>> /\ pc' = "forgetting" /\ pc = "publishing"
    BY <1>17a DEF Publishes
  <2>. QED BY <2>1, <2>2
<1>17b. CASE Restored
  BY <1>17b DEF Restored
<1>17c. CASE VerifyRestored
  <2>1. folder.files # Nothing
    BY <1>17c, RecordFacts DEF VerifyRestored, ViewInv, StoreOpens
  <2>. QED BY <1>17c, <2>1 DEF VerifyRestored
<1>. HIDE DEF TypeInv, TypeOK, PlaceInv, AtInv, MountInv, StepOK, SavedInv, record, session,
           disk, work, counts, Record, NoRecord, Phases, RecordOK, StepInv, FolderOK,
           CountOK, Kinds
<1>. QED BY <1>1, <1>2, <1>3, <1>4, <1>4a, <1>4b, <1>5, <1>6, <1>7, <1>7a, <1>7b, <1>7c,
            <1>8, <1>9, <1>10, <1>11, <1>12, <1>13, <1>13a, <1>13b, <1>14, <1>15, <1>15a,
            <1>15b, <1>16, <1>17, <1>17a, <1>17b, <1>17c
         DEF Next, Environment, Client, Progress, Failure

LEMMA ServesStep == ~Reuse /\ TypeInv /\ SavedInv /\ WholeInv /\ MountInv /\ ViewInv /\
    KeptInv /\ CalmInv /\ PlaceInv /\ LayerInv /\ CheckedInv /\ ReclaimInv /\ ServesInv /\
    RestoreInv /\ Next => ServesInv'
<1>. SUFFICES ASSUME ~Reuse, TypeInv, SavedInv, WholeInv, MountInv, ViewInv, KeptInv,
     CalmInv, PlaceInv, LayerInv, CheckedInv, ReclaimInv, ServesInv, RestoreInv, Next PROVE
     ServesInv'
  OBVIOUS
<1>. USE DEF TypeInv, TypeOK, ServesInv, AtInv, PhaseInv, KeptInv, StepOK, StoreOK,
           WholeInv, SavedInv, record, session, disk, work, counts, Record, NoRecord,
           Phases, RecordOK, StepInv, FolderOK, CountOK, Kinds
<1>1. ASSUME NEW g \in Files, NEW v \in Values, GameWrites(g, v)
      PROVE  ServesInv'
  <2>1. WritesFolder(g, v) \/ WritesLayer(g, v)
    BY <1>1, GameWriteLands
  <2>2. CASE WritesFolder(g, v)
    BY <2>2 DEF WritesFolder, WriteFrame
  <2>3. CASE WritesLayer(g, v)
    <3>. SUFFICES ASSUME backup.kept, saved.phase # "Reclaiming", NEW f \in Files
                  PROVE  \/ backup.files[f] = store[saved.at].files[f]
                         \/ /\ f \in DOMAIN layer'[saved.at].changes
                            /\ Removable = {} \/ pc \in {"merging", "publishing"}
      BY <2>3 DEF WritesLayer, WriteFrame
    <3>1. mem.at = saved.at
      BY BothRecords
    <3>2. \/ backup.files[f] = store[saved.at].files[f]
          \/ f \in DOMAIN layer[saved.at].changes /\ Removable = {}
      BY <2>3 DEF WritesLayer
    <3>3. f \in DOMAIN layer[saved.at].changes /\ Removable = {}
             => f \in DOMAIN layer'[saved.at].changes
      BY <2>3, <3>1 DEF WritesLayer, LayerWrite
    <3>. QED BY <3>2, <3>3
  <2>. QED BY <2>1, <2>2, <2>3
<1>2. CASE SessionEnds
  BY <1>2 DEF SessionEnds, Fault
<1>2a. CASE Crash
  BY <1>2a DEF CalmInv, Crash, Forgets, Fault
<1>2b. CASE Exit
  BY <1>2b DEF Exit, Forgets
<1>2c. CASE Starts
  BY <1>2c DEF Starts
<1>2d. CASE Saves \/ SaveFails
  BY <1>2d DEF ReclaimInv, Fault, Saves, SaveFails
<1>3. CASE (\E k \in Ids : BeginActivate(k))
  BY <1>3 DEF BeginActivate, HasRecord
<1>4. CASE Verifies
  BY <1>4 DEF Verifies, Returns
<1>4a. CASE MovesOriginal
  <2>1. CASE UNCHANGED backup
    BY <1>4a, <2>1 DEF MovesOriginal
  <2>2. CASE ~backup.kept /\ backup' = [kept |-> TRUE, files |-> folder.files]
    <3>1. saved.phase = "Switching" /\ UNCHANGED <<saved, store, layer>>
      BY <1>4a DEF MovesOriginal
    <3>2. backup'.files = store[saved.at].files
      BY <2>2, <3>1 DEF CheckedInv
    <3>. QED BY <3>1, <3>2
  <2>. QED BY <1>4a, <2>1, <2>2 DEF MovesOriginal
<1>4b. CASE MoveFails
  BY <1>4b DEF MoveFails, Returns, Fault
<1>5. CASE Records
  BY <1>5 DEF Records, Save, Prepared, CheckedInv
<1>6. CASE RecordFails
  BY <1>6 DEF RecordFails, Fault, Prepared
<1>7. CASE Clears
  BY <1>7 DEF Clears, Returns
<1>7a. CASE ClearFails
  BY <1>7a DEF ClearFails, Returns, Fault
<1>7b. CASE Mounts
  BY <1>7b DEF Mounts, CanMount, ViewInv, NewLayer
<1>7c. CASE MountRefused \/ MountFails
  BY <1>7c DEF MountRefused, MountFails, Returns, Fault
<1>8. CASE Recovers \/ RecoverFails \/ Upkeep
  BY <1>8 DEF Recovers, CanRecover, HasRecord, RecoverFails, Fault, Upkeep
<1>9. CASE BeginReclaim \/ DeleteFails
  BY <1>9 DEF BeginReclaim, Begins, Save, Fault, HasRecord, DeleteFails, Returns
<1>10. CASE (\E f \in Files : DeletesFile(f))
  BY <1>10 DEF DeletesFile
<1>11. CASE Deleted
  BY <1>11 DEF Deleted
<1>12. CASE (\E k \in Ids : BeginCompact(k)) \/ Freezes \/ Discards \/ Cancels \/
            RecordsSwitch \/ SwitchFails
  BY <1>12 DEF BeginCompact, Freezes, Discards, Returns, Cancels, RecordsSwitch, Save,
         SwitchFails, Fault
<1>13. CASE Unmounts("stopping", "switching") \/ UnmountFails \/ Switches \/ SwitchedUnsaved
  BY <1>13 DEF Unmounts, UnmountFails, Returns, Fault, Switches, Save, Switched,
         SwitchedUnsaved
<1>14. CASE BeginPrune \/ PruneChecks \/ PruneFails \/ StoreTears
  BY <1>14 DEF BeginPrune, Begins, Save, Fault, HasRecord, PruneChecks, Returns, PruneFails,
         StoreTears
<1>15. CASE StoreRemoved
  BY <1>15 DEF StoreRemoved, NoStore
<1>15a. CASE LayerTears
  BY <1>15a DEF LayerTears, Returns
<1>15b. CASE Pruned
  BY <1>15b DEF Pruned
<1>16. CASE BeginRollback
  BY <1>16 DEF BeginRollback, Begins, Save, Fault, HasRecord, ReclaimInv
<1>16a. CASE Unmounts("unmounting", "emptied") \/ Empties
  BY <1>16a DEF Unmounts, Empties, Returns
<1>16b. ASSUME NEW f \in Files, MergesFile(f)
      PROVE  ServesInv'
  BY <1>16b DEF MergesFile
<1>16c. CASE RemovesMountPoint
  BY <1>16c DEF RemovesMountPoint
<1>17. CASE RestoreRefused
  BY <1>17 DEF RestoreRefused, Restorable, BackupIsCurrent, LayerInv, LayerOpens
<1>17a. CASE RestoreFails
  BY <1>17a DEF RestoreFails, Returns, Fault, CalmInv
<1>17b. CASE Publishes
  <2>1. ~backup'.kept
    BY <1>17b, PublishesView
  <2>. QED BY <2>1
<1>17c. CASE Restored \/ VerifyRestored
  BY <1>17c DEF Restored, VerifyRestored
<1>. HIDE DEF TypeInv, TypeOK, ServesInv, AtInv, PhaseInv, KeptInv, StepOK, StoreOK,
           WholeInv, SavedInv, record, session, disk, work, counts, Record, NoRecord,
           Phases, RecordOK, StepInv, FolderOK, CountOK, Kinds
<1>. QED BY <1>1, <1>2, <1>2a, <1>2b, <1>2c, <1>2d, <1>3, <1>4, <1>4a, <1>4b, <1>5, <1>6,
            <1>7, <1>7a, <1>7b, <1>7c, <1>8, <1>9, <1>10, <1>11, <1>12, <1>13, <1>14, <1>15,
            <1>15a, <1>15b, <1>16, <1>16a, <1>16b, <1>16c, <1>17, <1>17a, <1>17b, <1>17c
         DEF Next, Environment, Client, Progress, Failure

\* What a restart finds, once nothing that a record names can be missing.
Shown == IF folder.files # Nothing THEN folder.files ELSE View(saved.at)

\* The game's step on its files.
ShownWrite ==
    \E f \in Files, v \in Values :
        Shown[f] # v /\ Shown' = [Shown EXCEPT ![f] = v] /\ writes' = writes + 1

\* The store that a compaction built shows the same files from the day it is recorded.
LEMMA SwitchShows ==
    ASSUME TypeInv, SavedInv, WholeInv, ViewInv, LayerInv, BuiltInv, pc = "switching"
    PROVE  View(target) = View(mem.at)
<1>1. target \in Ids /\ mem # NoRecord
  BY RecordFacts DEF TypeInv, StepInv
<1>2. layer[target].changes = NoChanges /\ store[target].files = View(mem.at)
  BY <1>1 DEF LayerInv, ViewInv, BuiltInv
<1>3. store[target].files \in Content
  BY <1>1 DEF TypeInv, TypeOK, StoreOK
<1>. QED BY <1>2, <1>3, NoChangesMerged DEF View

LEMMA ShownStep == ~Reuse /\ TypeInv /\ SavedInv /\ WholeInv /\ MountInv /\ ViewInv /\
    KeptInv /\ PlaceInv /\ LayerInv /\ CheckedInv /\ BuiltInv /\ ServesInv /\ RestoreInv /\
    PlaceInv' /\ Next => ShownWrite \/ UNCHANGED <<Shown, writes>>
<1>. SUFFICES ASSUME ~Reuse, TypeInv, SavedInv, WholeInv, MountInv, ViewInv, KeptInv,
     PlaceInv, LayerInv, CheckedInv, BuiltInv, ServesInv, RestoreInv, PlaceInv', Next PROVE
     ShownWrite \/ UNCHANGED <<Shown, writes>>
  OBVIOUS
<1>. USE DEF TypeInv, TypeOK, Shown, AtInv, StoreOK, StepOK, WholeInv, View, PlaceInv,
           SavedInv, record, session, disk, work, counts, Record, NoRecord, Phases,
           RecordOK, StepInv, FolderOK, CountOK, Kinds
<1>1. ASSUME NEW f \in Files, NEW v \in Values, GameWrites(f, v)
      PROVE  ShownWrite
  <2>1. WritesFolder(f, v) \/ WritesLayer(f, v)
    BY <1>1, GameWriteLands
  <2>2. writes' = writes + 1
    BY <1>1 DEF GameWrites
  <2>3. CASE WritesFolder(f, v)
    BY <2>2, <2>3 DEF WritesFolder, WriteFrame, ShownWrite
  <2>4. CASE WritesLayer(f, v)
    <3>1. saved.at = mem.at
      BY <2>4, BothRecords DEF WritesLayer, MountInv
    <3>. QED BY <2>2, <2>4, <3>1 DEF WritesLayer, WriteFrame, ShownWrite
  <2>. QED BY <2>1, <2>3, <2>4
<1>2. CASE SessionEnds \/ Crash \/ Exit \/ Starts \/ Saves \/ SaveFails
  BY <1>2 DEF SessionEnds, Fault, Crash, Forgets, Exit, Unmounted, Starts, Saves, SaveFails
<1>3. CASE (\E k \in Ids : BeginActivate(k))
  BY <1>3 DEF BeginActivate, HasRecord
<1>4. CASE Verifies
  BY <1>4 DEF Verifies, Returns
<1>4a. CASE MovesOriginal
  <2>1. CASE UNCHANGED <<folder, backup>>
    BY <1>4a, <2>1 DEF MovesOriginal
  <2>2. CASE ~backup.kept /\ folder' = [there |-> FALSE, files |-> Nothing]
    <3>1. /\ saved.phase = "Switching" /\ saved # NoRecord
          /\ UNCHANGED <<saved, store, layer, writes>>
      BY <1>4a DEF MovesOriginal, KeptInv
    <3>2. folder.files = View(saved.at)
      BY <2>2, <3>1, NoChangesMerged, RecordFacts DEF CheckedInv
    <3>. QED BY <2>2, <3>1, <3>2
  <2>. QED BY <1>4a, <2>1, <2>2 DEF MovesOriginal
<1>4b. CASE MoveFails
  BY <1>4b DEF MoveFails, Returns, Fault
<1>5. CASE Records
  BY <1>5 DEF Records, Save, Prepared
<1>6. CASE RecordFails
  BY <1>6 DEF RecordFails, Fault, Prepared
<1>7. CASE Mounts
  BY <1>7 DEF Mounts, CanMount, ViewInv, NewLayer
<1>7a. CASE Clears \/ ClearFails \/ MountRefused \/ MountFails
  BY <1>7a DEF Clears, Returns, ClearFails, MountRefused, MountFails, Fault
<1>8. CASE Recovers \/ RecoverFails \/ Upkeep
  BY <1>8 DEF Recovers, CanRecover, HasRecord, RecoverFails, Fault, Upkeep
<1>9. CASE BeginReclaim \/ DeleteFails
  BY <1>9 DEF BeginReclaim, Begins, Save, Fault, HasRecord, DeleteFails, Returns
<1>10. CASE (\E f \in Files : DeletesFile(f))
  BY <1>10 DEF DeletesFile
<1>11. CASE Deleted
  BY <1>11 DEF Deleted
<1>12. ASSUME NEW k \in Ids, BeginCompact(k)
      PROVE  UNCHANGED <<Shown, writes>>
  BY <1>12 DEF BeginCompact, Unused
<1>12a. CASE Freezes
  BY <1>12a DEF Freezes
<1>12b. CASE Discards \/ Cancels
  BY <1>12b DEF Discards, Cancels, Returns
<1>12c. CASE RecordsSwitch \/ SwitchFails
  BY <1>12c DEF RecordsSwitch, Save, SwitchFails, Fault
<1>13. CASE Unmounts("stopping", "switching") \/ UnmountFails
  BY <1>13 DEF Unmounts, UnmountFails, Returns, Fault
<1>13a. CASE Switches \/ SwitchedUnsaved
  <2>1. /\ mem \in Record /\ saved'.at = target
        /\ UNCHANGED <<folder, store, layer, writes>>
    <3>1. mem \in Record /\ saved' = Switched /\ UNCHANGED <<folder, store, layer, writes>>
      BY <1>13a DEF Switches, Save, SwitchedUnsaved, Fault
    <3>. QED BY <3>1 DEF Switched
  <2>2. saved.at = mem.at
    BY <2>1, RecordFacts, BothRecords
  <2>3. View(target) = View(mem.at)
    BY <1>13a, SwitchShows DEF Switches, SwitchedUnsaved
  <2>. QED BY <2>1, <2>2, <2>3
<1>14. CASE BeginPrune \/ PruneChecks \/ PruneFails \/ StoreTears
  BY <1>14 DEF BeginPrune, Begins, Save, Fault, HasRecord, PruneChecks, Returns, PruneFails,
         StoreTears
<1>15. CASE StoreRemoved
  BY <1>15 DEF StoreRemoved
<1>15a. CASE LayerTears
  BY <1>15a DEF LayerTears, Returns
<1>15b. CASE Pruned
  BY <1>15b DEF Pruned
<1>16. CASE BeginRollback \/ Unmounts("unmounting", "emptied") \/ Empties \/
            (\E f \in Files : MergesFile(f)) \/ RemovesMountPoint
  BY <1>16 DEF BeginRollback, Begins, Save, Fault, HasRecord, Unmounts, Empties, Returns,
         MergesFile, RemovesMountPoint
<1>17. CASE RestoreRefused \/ RestoreFails
  BY <1>17 DEF RestoreRefused, Returns, RestoreFails, Fault
<1>17a. CASE Publishes
  <2>1. folder'.files = View(mem.at) /\ mem # NoRecord /\ View(mem.at) # Nothing
    BY <1>17a, PublishesView, RecordFacts DEF ViewInv
  <2>2. saved.at = mem.at /\ folder.files = Nothing /\ writes' = writes
    BY <1>17a, <2>1, BothRecords DEF Publishes
  <2>. QED BY <2>1, <2>2
<1>17b. CASE Restored \/ VerifyRestored
  BY <1>17b DEF Restored, VerifyRestored
<1>. HIDE DEF TypeInv, TypeOK, Shown, AtInv, StoreOK, StepOK, WholeInv, View, PlaceInv,
           SavedInv, record, session, disk, work, counts, Record, NoRecord, Phases,
           RecordOK, StepInv, FolderOK, CountOK, Kinds
<1>. QED BY <1>1, <1>2, <1>3, <1>4, <1>4a, <1>4b, <1>5, <1>6, <1>7, <1>7a, <1>8, <1>9,
            <1>10, <1>11, <1>12, <1>12a, <1>12b, <1>12c, <1>13, <1>13a, <1>14, <1>15,
            <1>15a, <1>15b, <1>16, <1>17, <1>17a, <1>17b
         DEF Next, Environment, Client, Progress, Failure

-----------------------------------------------------------------------------
(* Theorems *)

FilesInv == TypeInv /\ SavedInv /\ WholeInv /\ MountInv

OriginalInv == FilesInv /\ ViewInv /\ KeptInv

GameInv ==
    /\ OriginalInv /\ CalmInv /\ PlaceInv /\ LayerInv /\ CheckedInv /\ BuiltInv
    /\ ReclaimInv /\ ServesInv /\ RestoreInv

LEMMA FilesInvEver ==
    ASSUME SavesSucceed
    PROVE  Spec => []FilesInv
<1>1. Init => FilesInv
  <2>1. Init => WholeInv
    BY DEF Init, WholeInv, NoRecord
  <2>2. Init => MountInv
    BY DEF Init, MountInv
  <2>. QED BY <2>1, <2>2, SavesSucceed, InitTypeInv, InitSavedInv DEF FilesInv
<1>2. FilesInv /\ [Next]_vars => FilesInv'
  <2>1. FilesInv /\ Next => (WholeInv /\ MountInv)'
    BY WholeStep, MountStep DEF FilesInv
  <2>2. FilesInv /\ UNCHANGED vars => (WholeInv /\ MountInv)'
    BY DEF FilesInv, WholeInv, MountInv, vars, record, session, disk, work, counts
  <2>. QED BY <2>1, <2>2, TypeNext, SavedNext DEF FilesInv
<1>. QED BY <1>1, <1>2, PTL DEF Spec

\* Compaction, pruning, a cancelled build or a crash between any two of their steps never
\* removes the store that a restart would mount: finish_prune compares the two numbers, and
\* a build that is given up removes only its own directory.
THEOREM StoresKeptEver ==
    ASSUME SavesSucceed
    PROVE  Spec => []StoresKept
<1>1. FilesInv => StoresKept
  BY DEF FilesInv, WholeInv, StoresKept
<1>. QED BY <1>1, FilesInvEver, PTL

LEMMA OriginalInvEver ==
    ASSUME SavesSucceed, ~Reuse
    PROVE  Spec => []OriginalInv
<1>1. Init => ViewInv /\ KeptInv
  BY DEF Init, ViewInv, KeptInv, NoRecord, NoBackup, NoStore, NoLayer
<1>2. OriginalInv /\ FilesInv' /\ [Next]_vars => OriginalInv'
  <2>1. OriginalInv /\ Next => (ViewInv /\ KeptInv)'
    BY ViewStep, KeptStep DEF OriginalInv, FilesInv
  <2>2. OriginalInv /\ UNCHANGED vars => (ViewInv /\ KeptInv)'
    BY DEF OriginalInv, ViewInv, KeptInv, View, vars, record, session, disk, work, counts
  <2>. QED BY <2>1, <2>2 DEF OriginalInv
<1>3. FilesInv /\ ViewInv /\ KeptInv => OriginalInv
  BY DEF OriginalInv
<1>. QED BY <1>1, <1>2, <1>3, FilesInvEver, PTL DEF Spec

\* The retained original is at its side path only under a record on disk that offers it:
\* activate_prepared saves before it renames, and the record goes only after the original
\* is back or gone.
THEOREM RecordedFirstEver ==
    ASSUME SavesSucceed, ~Reuse
    PROVE  Spec => []RecordedFirst
<1>1. OriginalInv => RecordedFirst
  BY DEF OriginalInv, KeptInv, RecordedFirst
<1>. QED BY <1>1, OriginalInvEver, PTL

LEMMA UndisturbedSaves == Undisturbed => SavesSucceed /\ ~Reuse
BY DEF Undisturbed, SavesSucceed

LEMMA GameStep ==
    ~Reuse /\ GameInv /\ Next =>
        (CalmInv /\ PlaceInv /\ LayerInv /\ CheckedInv /\ BuiltInv /\ ReclaimInv /\ ServesInv
            /\ RestoreInv)'
BY CalmStep, PlaceStep, LayerStep, CheckedStep, BuiltStep, ReclaimStep, ServesStep, RestoreStep
   DEF GameInv, OriginalInv, FilesInv

LEMMA GameInvEver ==
    ASSUME Undisturbed
    PROVE  Spec => []GameInv
<1>. SavesSucceed /\ ~Reuse
  BY UndisturbedSaves
<1>1. Init => CalmInv
  BY LifecycleAssumption DEF Init, CalmInv, Undisturbed
<1>2. Init => PlaceInv
  BY DEF Init, PlaceInv
<1>3. Init => LayerInv /\ CheckedInv /\ BuiltInv /\ ReclaimInv /\ ServesInv /\ RestoreInv
  BY DEF Init, LayerInv, CheckedInv, BuiltInv, ReclaimInv, ServesInv, RestoreInv, NoRecord,
         NoBackup
<1>4. GameInv /\ OriginalInv' /\ [Next]_vars => GameInv'
  <2>1. GameInv /\ OriginalInv' /\ Next => GameInv'
    BY GameStep DEF GameInv
  <2>2. GameInv /\ OriginalInv' /\ UNCHANGED vars => GameInv'
    BY DEF GameInv, CalmInv, PlaceInv, LayerInv, CheckedInv, BuiltInv, ReclaimInv, ServesInv,
           RestoreInv, View, LayerOpens, BackupIsCurrent, vars, record, session, disk, work,
           counts
  <2>. QED BY <2>1, <2>2
<1>5. OriginalInv /\ CalmInv /\ PlaceInv /\ LayerInv /\ CheckedInv /\ BuiltInv /\ ReclaimInv
        /\ ServesInv /\ RestoreInv => GameInv
  BY DEF GameInv
<1>. QED BY <1>1, <1>2, <1>3, <1>4, <1>5, OriginalInvEver, PTL DEF Spec

\* While the record offers the retained original, laying the update layer over it gives the
\* files that the mount shows, so that a rollback from it (apply_to) restores the game:
\* through any crashes, failed mounts, stopped merges, compactions and restarts of an
\* installation that nothing else disturbs.  The code can meet what Undisturbed leaves out.
THEOREM OriginalServesEver ==
    ASSUME Undisturbed
    PROVE  Spec => []OriginalServes
<1>1. GameInv => OriginalServes
  BY ServesView DEF GameInv, OriginalInv, FilesInv, SavedInv, OriginalServes
<1>. QED BY <1>1, GameInvEver, PTL

LEMMA RecoverableShown == GameInv => Recoverable = Shown
BY RecordFacts
   DEF GameInv, OriginalInv, FilesInv, WholeInv, PlaceInv, LayerInv, Recoverable, Shown

LEMMA ShownIsContent == GameInv => Shown \in Content
<1>. SUFFICES ASSUME GameInv, folder.files = Nothing PROVE View(saved.at) \in Content
  BY DEF GameInv, OriginalInv, FilesInv, TypeInv, TypeOK, FolderOK, Shown
<1>1. saved # NoRecord
  BY DEF GameInv, PlaceInv
<1>. QED BY <1>1, RecordFacts, ViewIsContent DEF GameInv, OriginalInv, FilesInv, TypeInv, TypeOK

\* Each step of the lifecycle is a write of the game, or leaves its files alone.
LEMMA GameRefines ==
    ASSUME ~Reuse, GameInv, PlaceInv', Recoverable = Shown, Recoverable' = Shown', [Next]_vars
    PROVE  [Game!Next]_<<Recoverable, writes>>
<1>1. ASSUME Next PROVE ShownWrite \/ UNCHANGED <<Shown, writes>>
  BY <1>1, ShownStep DEF GameInv, OriginalInv, FilesInv
<1>2. ASSUME UNCHANGED vars PROVE UNCHANGED <<Shown, writes>>
  BY <1>2 DEF Shown, View, vars, record, disk, counts
<1>3. ShownWrite => Game!Next
  BY DEF ShownWrite, Game!Next, Game!Write, Values
<1>. QED BY <1>1, <1>2, <1>3

\* The lifecycle implements GameFiles where Undisturbed holds: activation, mounting,
\* compaction, reclaim, pruning, restoration, a crash at any step and the recovery after it
\* change nothing of what a restart finds; only the game's own writes do.  A failed save, a
\* stopped delete and the rest that Undisturbed leaves out can break this in the code.
THEOREM KeepsGameEver ==
    ASSUME Undisturbed
    PROVE  Spec => KeepsGame
<1>1. ~Reuse
  BY UndisturbedSaves
<1>2. Init /\ GameInv => Game!Init
  BY RecoverableShown, ShownIsContent DEF Init, Game!Init, Content, Values
<1>3. GameInv => PlaceInv /\ Recoverable = Shown
  BY RecoverableShown DEF GameInv
<1>4. /\ GameInv /\ [Next]_vars /\ Recoverable = Shown
      /\ (PlaceInv /\ Recoverable = Shown)'
      => [Game!Next]_<<Recoverable, writes>>
  BY <1>1, GameRefines
<1>. QED BY <1>2, <1>3, <1>4, GameInvEver, PTL DEF Spec, KeepsGame, Game!Spec

-----------------------------------------------------------------------------
(***************************************************************************)
(* The invariant: types, what a save under way carries, the one scan the   *)
(* window waits for, and the one task that works.                          *)
(***************************************************************************)
SavesAsked   == [answer : {"asked", "saved", "failed"}, prefs : Preferences]
Replies == [kind : {"scan", "poll", "command"}, ok : BOOLEAN, games : Lists, stopping : BOOLEAN,
            stale : BOOLEAN]
NativeTypes ==
    /\ builds \in Lists /\ file \in Preferences
    /\ form \in [shown : Preferences, loaded : BOOLEAN, asked : BOOLEAN, thread : {NoSave} \cup SavesAsked,
                 dirty : BOOLEAN, rescan : BOOLEAN, failed : BOOLEAN]
    /\ window \in [games : Lists, art : Lists, seen : Lists, scanning : BOOLEAN, working : BOOLEAN,
                   planned : Places \cup {NoPlace}, folder : Places \cup {NoPlace},
                   picking : BOOLEAN, cancel : {"none", "live", "raised"}, enabled : BOOLEAN]
    /\ worker \in [up : BOOLEAN, games : Lists, stopping : BOOLEAN]
    /\ scan \in {"none", "asked"} /\ wire \in Seq(Replies)
    /\ orders \subseteq {"stop", "go", "refresh"} /\ resolving \subseteq Places

\* The copy that is being saved is the one shown unless another save must follow, and what
\* it leaves out was removed by the user.
SavesTrue ==
    /\ form.asked => ~form.loaded
    /\ form.thread # NoSave =>
         /\ form.loaded
         /\ ~form.dirty => form.thread.prefs = form.shown
         /\ form.thread.answer = "saved" => file = form.thread.prefs
         /\ file.places \ form.thread.prefs.places \subseteq dropped
         /\ form.thread.prefs.places \ form.shown.places \subseteq dropped
    /\ form.loaded => file.places \ form.shown.places \subseteq dropped
    /\ ShownIsSaved

\* The window waits for one scan, which has not read the list yet or whose answer is on
\* its way.
ScanWaits ==
    /\ window.scanning = (scan = "asked" \/ \E i \in DOMAIN wire : wire[i].kind = "scan")
    /\ scan = "asked" => \A i \in DOMAIN wire : wire[i].kind # "scan"
    /\ \A i, j \in DOMAIN wire : wire[i].kind = "scan" /\ wire[j].kind = "scan" => i = j

OneWork ==
    /\ \A t \in tasks : t.folder \in Places \cup {NoPlace}
    /\ tasks = {} \/ \E t : tasks = {t}
    /\ window.working = (tasks # {})
    /\ (window.cancel # "none") = (\E t \in tasks : t.kind = "job")

NativeInv == NativeTypes /\ SavesTrue /\ ScanWaits /\ OneWork

-----------------------------------------------------------------------------
LEMMA Removal ==
  ASSUME NEW S, NEW s \in Seq(S), NEW i \in DOMAIN s
  PROVE  /\ RemoveAt(s, i) \in Seq(S) /\ Len(RemoveAt(s, i)) = Len(s) - 1
         /\ \A j \in 1 .. Len(s) - 1 : RemoveAt(s, i)[j] = s[IF j < i THEN j ELSE j + 1]
<1>1. i \in 1 .. Len(s) /\ Len(s) \in Nat
  OBVIOUS
<1>. DEFINE a == SubSeq(s, 1, i - 1)
            b == SubSeq(s, i + 1, Len(s))
<1>2. a \in Seq(S) /\ Len(a) = i - 1 /\ \A j \in 1 .. i - 1 : a[j] = s[j]
  BY <1>1, SubSeqProperties
<1>3. b \in Seq(S) /\ Len(b) = Len(s) - i /\ \A j \in 1 .. Len(s) - i : b[j] = s[i + j]
  BY <1>1, SubSeqProperties
<1>. HIDE DEF a, b
<1>4. /\ a \o b \in Seq(S) /\ Len(a \o b) = Len(s) - 1
      /\ \A j \in 1 .. Len(s) - 1 : (a \o b)[j] = IF j <= i - 1 THEN a[j] ELSE b[j - (i - 1)]
  <2>1. /\ a \o b \in Seq(S) /\ Len(a \o b) = Len(a) + Len(b)
        /\ \A j \in 1 .. Len(a) + Len(b) : (a \o b)[j] = IF j <= Len(a) THEN a[j] ELSE b[j - Len(a)]
    BY <1>2, <1>3, ConcatProperties
  <2>2. Len(a) + Len(b) = Len(s) - 1
    BY <1>1, <1>2, <1>3
  <2>. QED BY <1>2, <2>1, <2>2
<1>5. ASSUME NEW j \in 1 .. Len(s) - 1
      PROVE  (a \o b)[j] = s[IF j < i THEN j ELSE j + 1]
  <2>1. CASE j < i
    BY <1>1, <1>2, <1>4, <2>1
  <2>2. CASE ~(j < i)
    <3>1. (a \o b)[j] = b[j - (i - 1)] /\ j - (i - 1) \in 1 .. Len(s) - i
      BY <1>1, <1>4, <2>2
    <3>2. b[j - (i - 1)] = s[i + (j - (i - 1))]
      BY <1>3, <3>1
    <3>. QED BY <1>1, <2>2, <3>1, <3>2
  <2>. QED BY <2>1, <2>2
<1>. QED BY <1>4, <1>5 DEF RemoveAt, a, b

\* What is left on the wire: the other answers, in their order.
LEMMA ArrivalIs ==
  ASSUME NativeTypes, NEW i \in DOMAIN wire, Arrives(i) \/ Supersedes(i)
  PROVE  /\ wire' \in Seq(Replies) /\ Len(wire') = Len(wire) - 1 /\ Len(wire) \in Nat
         /\ DOMAIN wire = 1 .. Len(wire) /\ DOMAIN wire' = 1 .. Len(wire) - 1
         /\ \A j \in 1 .. Len(wire) - 1 :
                wire'[j].kind = wire[IF j < i THEN j ELSE j + 1].kind
<1>1. wire \in Seq(Replies) /\ Len(wire) \in Nat /\ DOMAIN wire = 1 .. Len(wire) /\ i \in 1 .. Len(wire)
  BY DEF NativeTypes
<1>2. CASE Arrives(i)
  <2>1. wire' = RemoveAt(wire, i)
    BY <1>2 DEF Arrives
  <2>2. /\ RemoveAt(wire, i) \in Seq(Replies) /\ Len(RemoveAt(wire, i)) = Len(wire) - 1
        /\ \A j \in 1 .. Len(wire) - 1 : RemoveAt(wire, i)[j] = wire[IF j < i THEN j ELSE j + 1]
    BY <1>1, Removal
  <2>. QED BY <1>1, <2>1, <2>2
<1>3. CASE Supersedes(i)
  <2>. DEFINE w == Older(i)
  <2>1. w \in Seq(Replies) /\ Len(w) = Len(wire)
        /\ \A j \in 1 .. Len(wire) : w[j].kind = wire[j].kind
    <3>1. /\ w = [j \in 1 .. Len(wire) |-> IF j < i THEN [wire[j] EXCEPT !.stale = TRUE] ELSE wire[j]]
          /\ \A j \in 1 .. Len(wire) : wire[j] \in Replies
      BY <1>1 DEF Older
    <3>2. \A j \in 1 .. Len(wire) : w[j] \in Replies /\ w[j].kind = wire[j].kind
      <4>. HIDE DEF w
      <4>. QED BY <3>1 DEF Replies
    <3>3. w \in [1 .. Len(wire) -> Replies]
      <4>. HIDE DEF w
      <4>. QED BY <3>1, <3>2
    <3>. HIDE DEF w
    <3>. QED BY <1>1, <3>2, <3>3
  <2>2. wire' = RemoveAt(w, i)
    BY <1>3 DEF Supersedes
  <2>. HIDE DEF w
  <2>3. /\ RemoveAt(w, i) \in Seq(Replies) /\ Len(RemoveAt(w, i)) = Len(w) - 1
        /\ \A j \in 1 .. Len(w) - 1 : RemoveAt(w, i)[j] = w[IF j < i THEN j ELSE j + 1]
    <3>1. i \in DOMAIN w
      BY <1>1, <2>1
    <3>2. w \in Seq(Replies)
      BY <2>1
    <3>. QED BY <3>1, <3>2, Removal, Zenon
  <2>4. wire' \in Seq(Replies) /\ Len(wire') = Len(wire) - 1
    BY <2>1, <2>2, <2>3
  <2>5. DOMAIN wire' = 1 .. Len(wire) - 1
    BY <2>4
  <2>6. ASSUME NEW j \in 1 .. Len(wire) - 1
        PROVE  wire'[j].kind = wire[IF j < i THEN j ELSE j + 1].kind
    <3>. DEFINE k == IF j < i THEN j ELSE j + 1
    <3>1. k \in 1 .. Len(wire)
      BY <1>1
    <3>2. wire'[j] = w[k]
      BY <2>1, <2>2, <2>3
    <3>. HIDE DEF k
    <3>3. w[k].kind = wire[k].kind
      BY <2>1, <3>1
    <3>. QED BY <3>2, <3>3 DEF k
  <2>. QED BY <1>1, <2>4, <2>5, <2>6
<1>. QED BY <1>2, <1>3

LEMMA SavesStay == ASSUME SavesTrue, UNCHANGED <<file, form, dropped>> PROVE SavesTrue'
BY DEF SavesTrue, ShownIsSaved

LEMMA ScanStays == ASSUME ScanWaits, UNCHANGED <<scan, wire, window.scanning>> PROVE ScanWaits'
BY DEF ScanWaits

LEMMA WorkStays ==
  ASSUME OneWork, UNCHANGED <<tasks, window.working, window.cancel>> PROVE OneWork'
BY DEF OneWork

LEMMA ListsAre ==
  ASSUME NativeTypes
  PROVE  /\ Listed \in Lists /\ NoList \in Lists
         /\ Started \in [up : BOOLEAN, games : Lists, stopping : BOOLEAN]
         /\ NoWorker \in [up : BOOLEAN, games : Lists, stopping : BOOLEAN]
         /\ Reached \in [up : BOOLEAN, games : Lists, stopping : BOOLEAN]
BY DEF NativeTypes, Listed, NoList, Lists, Started, NoWorker, Reached

-----------------------------------------------------------------------------
\* A save that a handler asks for, when the copy shown leaves out what was removed.
SavesTyped(f) ==
    f \in [shown : Preferences, loaded : BOOLEAN, asked : BOOLEAN, thread : {NoSave} \cup SavesAsked,
           dirty : BOOLEAN, rescan : BOOLEAN, failed : BOOLEAN]

LEMMA SaveAsked ==
  ASSUME NativeTypes, SavesTrue, NEW f, SavesTyped(f), file' = file,
         dropped \subseteq dropped', form' = SavePreferences(f),
         f.asked = form.asked, f.loaded = form.loaded,
         \/ f.thread = form.thread
         \/ f.thread = NoSave /\ f.loaded,
         form.loaded => form.shown.places \ f.shown.places \subseteq dropped'
  PROVE  SavesTyped(form') /\ SavesTrue'
<1>1. SavesTyped(form')
  BY DEF SavesTyped, SavePreferences, SavedBlank, SavesAsked
<1>2. /\ form'.asked = form.asked /\ form'.loaded = form.loaded /\ form'.shown = f.shown
      /\ form'.failed = f.failed
  BY DEF SavesTyped, SavePreferences, SavedBlank
<1>3. form.loaded => file.places \ f.shown.places \subseteq dropped'
  BY DEF SavesTrue
<1>4. CASE ~form.loaded
  <2>1. form' = f /\ f.thread = NoSave
    BY <1>4 DEF SavePreferences, SavesTrue
  <2>. QED BY <1>2, <1>4, <2>1 DEF SavesTrue, ShownIsSaved
<1>5. CASE form.loaded /\ f.thread # NoSave
  <2>1. form'.thread = form.thread /\ form'.dirty /\ form.thread # NoSave
    BY <1>5 DEF SavePreferences, SavedBlank, SavesTyped
  <2>2. form.thread.prefs.places \ f.shown.places \subseteq dropped'
    BY <1>5, <2>1 DEF SavesTrue
  <2>3. /\ form'.thread.answer = "saved" => file' = form'.thread.prefs
        /\ file'.places \ form'.thread.prefs.places \subseteq dropped'
        /\ ~form'.asked
    BY <1>2, <1>5, <2>1 DEF SavesTrue
  <2>4. form'.thread.prefs.places \ form'.shown.places \subseteq dropped'
    BY <1>2, <2>1, <2>2
  <2>5. file'.places \ form'.shown.places \subseteq dropped'
    BY <1>2, <1>3, <1>5
  <2>. QED BY <1>1, <1>2, <1>5, <2>1, <2>3, <2>4, <2>5 DEF SavesTrue, ShownIsSaved
<1>6. CASE form.loaded /\ f.thread = NoSave
  <2>1. form'.thread = [answer |-> "asked", prefs |-> f.shown]
    BY <1>6 DEF SavePreferences, SavedBlank, SavesTyped
  <2>2. form'.thread # NoSave
    BY <2>1 DEF NoSave
  <2>3. form'.thread.prefs = f.shown /\ form'.thread.answer = "asked" /\ ~form'.asked /\ form'.loaded
    BY <1>2, <1>6, <2>1 DEF SavesTrue
  <2>4. file'.places \ f.shown.places \subseteq dropped'
    BY <1>3, <1>6
  <2>. HIDE DEF NoSave
  <2>. QED BY <1>1, <1>2, <2>2, <2>3, <2>4 DEF SavesTrue, ShownIsSaved
<1>. QED BY <1>1, <1>4, <1>5, <1>6

LEMMA PreferencesLoadedKeeps == ASSUME NativeInv, PreferencesLoaded PROVE NativeInv'
<1>1. UNCHANGED <<builds, file, window, worker, scan, wire, orders, tasks, resolving, dropped>>
  BY DEF PreferencesLoaded
<1>2. ~form.loaded /\ form.thread = NoSave
  BY DEF PreferencesLoaded, NativeInv, SavesTrue
<1>3. SavesTyped(form)
  BY DEF NativeInv, NativeTypes, SavesTyped
<1>4. CASE form' = [form EXCEPT !.asked = FALSE, !.loaded = TRUE, !.shown = file]
  <2>1. SavesTyped(form') /\ form'.thread = NoSave /\ form'.shown = file /\ ~form'.asked
    BY <1>2, <1>3, <1>4 DEF SavesTyped, NativeInv, NativeTypes
  <2>2. SavesTrue'
    BY <1>1, <2>1 DEF SavesTrue, ShownIsSaved
  <2>3. NativeTypes'
    BY <1>1, <2>1 DEF NativeInv, NativeTypes, SavesTyped
  <2>. QED BY <1>1, <2>2, <2>3, ScanStays, WorkStays DEF NativeInv
<1>5. CASE form' = [form EXCEPT !.asked = FALSE]
  <2>1. SavesTyped(form') /\ form'.thread = NoSave /\ ~form'.loaded /\ ~form'.asked
    BY <1>2, <1>3, <1>5 DEF SavesTyped
  <2>2. SavesTrue'
    BY <1>1, <2>1 DEF SavesTrue, ShownIsSaved
  <2>3. NativeTypes'
    BY <1>1, <2>1 DEF NativeInv, NativeTypes, SavesTyped
  <2>. QED BY <1>1, <2>2, <2>3, ScanStays, WorkStays DEF NativeInv
<1>. QED BY <1>4, <1>5 DEF PreferencesLoaded

LEMMA EditedKeeps ==
  ASSUME NativeInv, NEW f, Edited(f), SavesTyped(f), f.asked = form.asked, f.loaded = form.loaded,
         f.thread = form.thread, dropped \subseteq dropped', resolving' \subseteq Places,
         form.loaded => form.shown.places \ f.shown.places \subseteq dropped'
  PROVE  NativeInv'
<1>1. UNCHANGED <<builds, file, window, worker, scan, wire, orders, tasks>>
      /\ form' = SavePreferences(f)
  BY DEF Edited
<1>2. SavesTyped(form') /\ SavesTrue'
  BY <1>1, SaveAsked DEF NativeInv
<1>3. NativeTypes'
  BY <1>1, <1>2 DEF NativeInv, NativeTypes, SavesTyped
<1>. QED BY <1>1, <1>2, <1>3, ScanStays, WorkStays DEF NativeInv

LEMMA ChooseKeeps == ASSUME NativeInv, Choose PROVE NativeInv'
<1>1. PICK c \in Settings : Edited([form EXCEPT !.shown.choice = c])
  BY DEF Choose
<1>. DEFINE f == [form EXCEPT !.shown.choice = c]
<1>2. /\ SavesTyped(f) /\ f.asked = form.asked /\ f.loaded = form.loaded /\ f.thread = form.thread
      /\ f.shown.places = form.shown.places
  BY DEF NativeInv, NativeTypes, SavesTyped, Preferences
<1>3. UNCHANGED <<resolving, dropped>> /\ resolving \subseteq Places
  BY DEF Choose, NativeInv, NativeTypes
<1>. HIDE DEF f
<1>. QED BY <1>1, <1>2, <1>3, EditedKeeps DEF f

LEMMA LocationResolvedKeeps ==
  ASSUME NativeInv, NEW p \in Places, LocationResolved(p) PROVE NativeInv'
<1>. DEFINE f == [form EXCEPT !.shown.places = @ \cup {p}, !.rescan = TRUE]
<1>1. Edited(f) /\ UNCHANGED dropped /\ resolving' \subseteq Places
  BY DEF LocationResolved, NativeInv, NativeTypes
<1>2. /\ SavesTyped(f) /\ f.asked = form.asked /\ f.loaded = form.loaded /\ f.thread = form.thread
      /\ form.shown.places \ f.shown.places = {}
  BY DEF NativeInv, NativeTypes, SavesTyped, Preferences
<1>. HIDE DEF f
<1>. QED BY <1>1, <1>2, EditedKeeps

LEMMA RemoveLocationKeeps ==
  ASSUME NativeInv, NEW p \in Places, RemoveLocation(p) PROVE NativeInv'
<1>. DEFINE f == [form EXCEPT !.shown.places = @ \ {p}, !.rescan = TRUE]
<1>1. Edited(f) /\ dropped' = dropped \cup {p} /\ resolving' \subseteq Places
  BY DEF RemoveLocation, NativeInv, NativeTypes
<1>2. /\ SavesTyped(f) /\ f.asked = form.asked /\ f.loaded = form.loaded /\ f.thread = form.thread
      /\ form.shown.places \ f.shown.places \subseteq {p}
  BY DEF NativeInv, NativeTypes, SavesTyped, Preferences
<1>. HIDE DEF f
<1>. QED BY <1>1, <1>2, EditedKeeps

LEMMA SaveRunsKeeps == ASSUME NativeInv, SaveRuns PROVE NativeInv'
<1>1. /\ UNCHANGED <<builds, window, scan, wire, orders, tasks, resolving, dropped>>
      /\ form.thread.answer = "asked"
      /\ worker' = worker \/ worker' = Started
  BY DEF SaveRuns
<1>2. SavesTyped(form) /\ form.thread # NoSave /\ form.thread \in SavesAsked
  BY <1>1 DEF NativeInv, NativeTypes, SavesTyped, NoSave
<1>3. CASE file' = form.thread.prefs /\ form' = [form EXCEPT !.thread.answer = "saved"]
  <2>1. /\ SavesTyped(form') /\ form'.thread = [form.thread EXCEPT !.answer = "saved"]
        /\ form'.shown = form.shown /\ form'.loaded = form.loaded /\ form'.asked = form.asked
        /\ form'.dirty = form.dirty
    BY <1>2, <1>3 DEF SavesTyped, SavesAsked
  <2>2. form'.thread.prefs = form.thread.prefs /\ form'.thread \in SavesAsked
    BY <1>2, <2>1 DEF SavesAsked
  <2>3. form'.thread # NoSave
    BY <2>2 DEF SavesAsked, NoSave
  <2>4. SavesTrue'
    BY <1>1, <1>2, <1>3, <2>1, <2>2, <2>3 DEF NativeInv, SavesTrue, ShownIsSaved
  <2>5. NativeTypes'
    BY <1>1, <1>2, <1>3, <2>1, ListsAre DEF NativeInv, NativeTypes, SavesTyped, SavesAsked
  <2>. QED BY <1>1, <2>4, <2>5, ScanStays, WorkStays DEF NativeInv
<1>4. CASE file' = file /\ form' = [form EXCEPT !.thread.answer = "failed"]
  <2>1. /\ SavesTyped(form') /\ form'.thread = [form.thread EXCEPT !.answer = "failed"]
        /\ form'.shown = form.shown /\ form'.loaded = form.loaded /\ form'.asked = form.asked
        /\ form'.dirty = form.dirty
    BY <1>2, <1>4 DEF SavesTyped, SavesAsked
  <2>2. /\ form'.thread.prefs = form.thread.prefs /\ form'.thread.answer = "failed"
        /\ form'.thread \in SavesAsked
    BY <1>2, <2>1 DEF SavesAsked
  <2>3. form'.thread # NoSave
    BY <2>2 DEF SavesAsked, NoSave
  <2>4. SavesTrue'
    BY <1>1, <1>2, <1>4, <2>1, <2>2, <2>3 DEF NativeInv, SavesTrue, ShownIsSaved
  <2>5. NativeTypes'
    BY <1>1, <1>4, <2>1, ListsAre DEF NativeInv, NativeTypes, SavesTyped
  <2>. QED BY <1>1, <2>4, <2>5, ScanStays, WorkStays DEF NativeInv
<1>. QED BY <1>3, <1>4 DEF SaveRuns

\* What a refresh leaves.
LEMMA RefreshedKeeps ==
  ASSUME NativeInv, Refreshed, UNCHANGED <<builds, file, worker, wire, tasks, resolving>>,
         SavesTyped(form')
  PROVE  NativeTypes' /\ ScanWaits' /\ OneWork'
<1>1. CASE UNCHANGED <<window, scan, orders>>
  <2>1. NativeTypes'
    BY <1>1 DEF NativeInv, NativeTypes, SavesTyped
  <2>. QED BY <1>1, <2>1, ScanStays, WorkStays DEF NativeInv
<1>2. CASE ~UNCHANGED <<window, scan, orders>>
  <2>1. /\ ~window.scanning /\ window' = [window EXCEPT !.scanning = TRUE] /\ scan' = "asked"
        /\ orders' \in {orders, orders \cup {"refresh"}}
    BY <1>2 DEF Refreshed
  <2>2. /\ window'.scanning /\ window'.working = window.working /\ window'.cancel = window.cancel
        /\ NativeTypes'
    BY <2>1 DEF NativeInv, NativeTypes, SavesTyped
  <2>3. \A i \in DOMAIN wire : wire[i].kind # "scan"
    BY <2>1 DEF NativeInv, ScanWaits
  <2>4. ScanWaits'
    BY <2>1, <2>2, <2>3 DEF ScanWaits
  <2>. QED BY <2>2, <2>4, WorkStays DEF NativeInv
<1>. QED BY <1>1, <1>2

LEMMA PreferencesSavedKeeps == ASSUME NativeInv, PreferencesSaved PROVE NativeInv'
<1>. DEFINE failed == form.thread.answer = "failed"
            done == [form EXCEPT !.thread = NoSave, !.failed = failed]
<1>1. UNCHANGED <<could, builds, file, worker, wire, tasks, resolving, dropped>>
  BY DEF PreferencesSaved
<1>2. SavesTyped(form) /\ form.thread # NoSave /\ form.thread \in SavesAsked /\ form.loaded
  BY DEF PreferencesSaved, NativeInv, NativeTypes, SavesTyped, NoSave, SavesTrue
<1>3. /\ SavesTyped(done) /\ done.asked = form.asked /\ done.loaded = form.loaded
      /\ done.thread = NoSave /\ done.shown = form.shown /\ done.failed = failed
  BY <1>2 DEF SavesTyped
<1>4. CASE failed
  <2>1. form' = done /\ UNCHANGED <<window, scan, orders>>
    BY <1>4 DEF PreferencesSaved
  <2>. HIDE DEF done
  <2>2. SavesTrue'
    BY <1>1, <1>3, <1>4, <2>1 DEF NativeInv, SavesTrue, ShownIsSaved
  <2>3. NativeTypes'
    BY <1>1, <1>3, <2>1 DEF NativeInv, NativeTypes, SavesTyped
  <2>. QED BY <1>1, <2>1, <2>2, <2>3, ScanStays, WorkStays DEF NativeInv
<1>5. CASE ~failed /\ form.dirty
  <2>1. form' = SavePreferences(done) /\ UNCHANGED <<window, scan, orders>>
    BY <1>5 DEF PreferencesSaved, Resaved
  <2>. HIDE DEF done
  <2>2. SavesTyped(form') /\ SavesTrue'
    BY <1>1, <1>2, <1>3, <2>1, SaveAsked DEF NativeInv
  <2>3. NativeTypes'
    BY <1>1, <2>1, <2>2 DEF NativeInv, NativeTypes, SavesTyped
  <2>. QED BY <1>1, <2>1, <2>2, <2>3, ScanStays, WorkStays DEF NativeInv
<1>6. CASE ~failed /\ ~form.dirty
  <2>1. /\ form' = [done EXCEPT !.rescan = FALSE]
        /\ Refreshed \/ UNCHANGED <<window, scan, orders>>
    BY <1>6 DEF PreferencesSaved
  <2>2. file = form.shown
    BY <1>2, <1>6 DEF PreferencesSaved, NativeInv, SavesTrue
  <2>. HIDE DEF done
  <2>3. /\ SavesTyped(form') /\ form'.asked = form.asked /\ form'.loaded = form.loaded
        /\ form'.thread = NoSave /\ form'.shown = form.shown
    BY <1>3, <2>1 DEF SavesTyped
  <2>4. SavesTrue'
    BY <1>1, <2>2, <2>3 DEF NativeInv, SavesTrue, ShownIsSaved
  <2>5. CASE Refreshed
    BY <1>1, <2>3, <2>4, <2>5, RefreshedKeeps DEF NativeInv
  <2>6. CASE UNCHANGED <<window, scan, orders>>
    <3>1. NativeTypes'
      BY <1>1, <2>3, <2>6 DEF NativeInv, NativeTypes, SavesTyped
    <3>. QED BY <1>1, <2>4, <2>6, <3>1, ScanStays, WorkStays DEF NativeInv
  <2>. QED BY <2>1, <2>5, <2>6
<1>. QED BY <1>4, <1>5, <1>6

\* An answer joins the wire.
LEMMA AppendIs ==
  ASSUME NativeTypes, NEW r \in Replies, wire' = Append(wire, r)
  PROVE  /\ wire' \in Seq(Replies) /\ Len(wire) \in Nat
         /\ DOMAIN wire = 1 .. Len(wire) /\ DOMAIN wire' = 1 .. Len(wire) + 1
         /\ \A i \in 1 .. Len(wire) : wire'[i] = wire[i]
         /\ wire'[Len(wire) + 1] = r
<1>1. wire \in Seq(Replies)
  BY DEF NativeTypes
<1>. QED BY <1>1, AppendProperties

LEMMA AppendScan ==
  ASSUME NativeInv, NEW r \in Replies, wire' = Append(wire, r), r.kind = "scan",
         scan = "asked", scan' = "none", window'.scanning = window.scanning
  PROVE  wire' \in Seq(Replies) /\ ScanWaits'
<1>1. /\ wire' \in Seq(Replies) /\ Len(wire) \in Nat
      /\ DOMAIN wire = 1 .. Len(wire) /\ DOMAIN wire' = 1 .. Len(wire) + 1
      /\ \A i \in 1 .. Len(wire) : wire'[i] = wire[i]
      /\ wire'[Len(wire) + 1] = r
  BY AppendIs DEF NativeInv
<1>2. window.scanning /\ \A i \in 1 .. Len(wire) : wire[i].kind # "scan"
  BY <1>1 DEF NativeInv, ScanWaits, NativeTypes
<1>3. \A i \in DOMAIN wire' : wire'[i].kind = "scan" <=> i = Len(wire) + 1
  BY <1>1, <1>2
<1>4. Len(wire) + 1 \in DOMAIN wire'
  BY <1>1
<1>5. window'.scanning = (scan' = "asked" \/ \E i \in DOMAIN wire' : wire'[i].kind = "scan")
  BY <1>2, <1>3, <1>4 DEF NativeInv, NativeTypes
<1>. QED BY <1>1, <1>3, <1>5 DEF ScanWaits

LEMMA AppendOther ==
  ASSUME NativeInv, NEW r \in Replies, wire' = Append(wire, r), r.kind # "scan",
         scan' = scan, window'.scanning = window.scanning
  PROVE  wire' \in Seq(Replies) /\ ScanWaits'
<1>1. /\ wire' \in Seq(Replies) /\ Len(wire) \in Nat
      /\ DOMAIN wire = 1 .. Len(wire) /\ DOMAIN wire' = 1 .. Len(wire) + 1
      /\ \A i \in 1 .. Len(wire) : wire'[i] = wire[i]
      /\ wire'[Len(wire) + 1] = r
  BY AppendIs DEF NativeInv
<1>2. \A i \in DOMAIN wire' : wire'[i].kind = "scan" <=> i \in DOMAIN wire /\ wire[i].kind = "scan"
  BY <1>1
<1>3. (\E i \in DOMAIN wire' : wire'[i].kind = "scan") <=> (\E i \in DOMAIN wire : wire[i].kind = "scan")
  BY <1>1, <1>2
<1>. QED BY <1>1, <1>2, <1>3 DEF NativeInv, ScanWaits

\* An answer that is not a scan's leaves the wire.
LEMMA OtherArrives ==
  ASSUME NativeInv, NEW i \in DOMAIN wire, Arrives(i) \/ Supersedes(i), wire[i].kind # "scan"
  PROVE  /\ wire' \in Seq(Replies)
         /\ (\E j \in DOMAIN wire' : wire'[j].kind = "scan") <=> (\E j \in DOMAIN wire : wire[j].kind = "scan")
         /\ \A j, k \in DOMAIN wire' : wire'[j].kind = "scan" /\ wire'[k].kind = "scan" => j = k
<1>1. /\ wire' \in Seq(Replies) /\ Len(wire') = Len(wire) - 1 /\ Len(wire) \in Nat
      /\ DOMAIN wire = 1 .. Len(wire) /\ DOMAIN wire' = 1 .. Len(wire) - 1
      /\ \A j \in 1 .. Len(wire) - 1 : wire'[j].kind = wire[IF j < i THEN j ELSE j + 1].kind
  BY ArrivalIs DEF NativeInv
<1>. DEFINE old(j) == IF j < i THEN j ELSE j + 1
            new(j) == IF j < i THEN j ELSE j - 1
<1>2. \A j \in DOMAIN wire' : old(j) \in DOMAIN wire /\ wire'[j].kind = wire[old(j)].kind
  BY <1>1
<1>3. \A j \in DOMAIN wire : j # i => new(j) \in DOMAIN wire' /\ old(new(j)) = j
  BY <1>1
<1>4. \A j, k \in DOMAIN wire' : old(j) = old(k) => j = k
  BY <1>1
<1>5. \A j, k \in DOMAIN wire : wire[j].kind = "scan" /\ wire[k].kind = "scan" => j = k
  BY DEF NativeInv, ScanWaits
<1>. HIDE DEF old, new
<1>6. \A j, k \in DOMAIN wire' : wire'[j].kind = "scan" /\ wire'[k].kind = "scan" => j = k
  BY <1>2, <1>4, <1>5
<1>7. \A j \in DOMAIN wire : wire[j].kind = "scan" => \E k \in DOMAIN wire' : wire'[k].kind = "scan"
  BY <1>2, <1>3
<1>. QED BY <1>1, <1>2, <1>6, <1>7

\* A scan's answer leaves the wire, and no other is on it.
LEMMA ScanArrives ==
  ASSUME NativeInv, NEW i \in DOMAIN wire, Arrives(i), wire[i].kind = "scan"
  PROVE  /\ wire' \in Seq(Replies) /\ scan = "none"
         /\ \A j \in DOMAIN wire' : wire'[j].kind # "scan"
<1>1. /\ wire' \in Seq(Replies) /\ Len(wire') = Len(wire) - 1 /\ Len(wire) \in Nat
      /\ DOMAIN wire = 1 .. Len(wire) /\ DOMAIN wire' = 1 .. Len(wire) - 1
      /\ \A j \in 1 .. Len(wire) - 1 : wire'[j].kind = wire[IF j < i THEN j ELSE j + 1].kind
  BY ArrivalIs DEF NativeInv
<1>2. \A j \in DOMAIN wire' : \E k \in DOMAIN wire : k # i /\ wire'[j].kind = wire[k].kind
  BY <1>1
<1>3. \A k \in DOMAIN wire : k # i => wire[k].kind # "scan"
  BY DEF NativeInv, ScanWaits
<1>4. scan = "none"
  BY DEF NativeInv, ScanWaits, NativeTypes
<1>. QED BY <1>1, <1>2, <1>3, <1>4

-----------------------------------------------------------------------------
LEMMA RepliesAre ==
  ASSUME NEW kind \in {"scan", "poll", "command"},
         NEW w \in [up : BOOLEAN, games : Lists, stopping : BOOLEAN]
  PROVE  Reply(kind, w) \in Replies /\ Reply(kind, w).kind = kind
BY DEF Reply, Replies

LEMMA ScanReadKeeps == ASSUME NativeInv, ScanRead PROVE NativeInv'
<1>1. /\ scan = "asked" /\ scan' = "none"
      /\ UNCHANGED <<builds, file, form, window, orders, tasks, resolving, dropped>>
  BY DEF ScanRead
<1>2. NativeTypes
  BY DEF NativeInv
<1>3. \E r \in Replies : /\ wire' = Append(wire, r) /\ r.kind = "scan"
                         /\ worker' \in [up : BOOLEAN, games : Lists, stopping : BOOLEAN]
  <2>1. CASE wire' = Append(wire, Reply("scan", [NoWorker EXCEPT !.games = Listed])) /\ worker' = worker
    <3>1. [NoWorker EXCEPT !.games = Listed] \in [up : BOOLEAN, games : Lists, stopping : BOOLEAN]
      BY <1>2, ListsAre
    <3>. QED BY <1>2, <2>1, <3>1, RepliesAre DEF NativeTypes
  <2>2. CASE worker' = Reached /\ wire' = Append(wire, Reply("scan", Reached))
    BY <1>2, <2>2, ListsAre, RepliesAre
  <2>3. CASE wire' = Append(wire, Lost) /\ worker' = worker
    BY <1>2, <2>3, ListsAre DEF Lost, Replies, NativeTypes
  <2>. QED BY <2>1, <2>2, <2>3 DEF ScanRead
<1>4. PICK r \in Replies : wire' = Append(wire, r) /\ r.kind = "scan"
  BY <1>3
<1>5. wire' \in Seq(Replies) /\ ScanWaits'
  BY <1>1, <1>4, AppendScan
<1>6. NativeTypes'
  BY <1>1, <1>2, <1>3, <1>5 DEF NativeTypes
<1>. QED BY <1>1, <1>5, <1>6, SavesStay, WorkStays DEF NativeInv

LEMMA ScannedKeeps == ASSUME NativeInv, NEW i \in DOMAIN wire, Scanned(i) PROVE NativeInv'
<1>. DEFINE r == wire[i]
<1>1. /\ UNCHANGED <<builds, file, form, worker, orders, tasks, resolving, dropped>>
      /\ r.kind = "scan" /\ Arrives(i) /\ r \in Replies
  BY DEF Scanned, NativeInv, NativeTypes
<1>2. /\ wire' \in Seq(Replies) /\ scan = "none"
      /\ \A j \in DOMAIN wire' : wire'[j].kind # "scan"
  BY <1>1, ScanArrives
<1>3. /\ \/ scan' = "asked" /\ window' = [window EXCEPT !.scanning = TRUE]
         \/ scan' = scan /\ window' = [window EXCEPT !.scanning = FALSE]
         \/ scan' = scan /\ window' = [window EXCEPT !.scanning = FALSE, !.games = r.games, !.art = r.games]
  BY DEF Scanned, Returned, Rescans, Shows
<1>4. r.games \in Lists
  BY <1>1 DEF Replies
<1>5. /\ window' \in [games : Lists, art : Lists, seen : Lists, scanning : BOOLEAN, working : BOOLEAN,
                      planned : Places \cup {NoPlace}, folder : Places \cup {NoPlace},
                      picking : BOOLEAN, cancel : {"none", "live", "raised"}, enabled : BOOLEAN]
      /\ window'.working = window.working /\ window'.cancel = window.cancel
      /\ window'.scanning = (scan' = "asked") /\ scan' \in {"none", "asked"}
  <2>. HIDE DEF r
  <2>. QED BY <1>2, <1>3, <1>4 DEF NativeInv, NativeTypes
<1>6. NativeTypes'
  BY <1>1, <1>2, <1>5 DEF NativeInv, NativeTypes
<1>7. ScanWaits'
  BY <1>2, <1>5 DEF ScanWaits
<1>. QED BY <1>1, <1>5, <1>6, <1>7, SavesStay, WorkStays DEF NativeInv

LEMMA WorkerRepliedKeeps == ASSUME NativeInv, NEW i \in DOMAIN wire, WorkerReplied(i) PROVE NativeInv'
<1>. DEFINE r == wire[i]
            w == [Shows(window, r.games) EXCEPT !.seen = r.games, !.enabled = ~r.stopping]
<1>1. /\ UNCHANGED <<builds, file, form, worker, orders, tasks, resolving, dropped>>
      /\ r.kind # "scan" /\ (Arrives(i) \/ Supersedes(i)) /\ r \in Replies
  BY DEF WorkerReplied, NativeInv, NativeTypes
<1>2. /\ wire' \in Seq(Replies)
      /\ (\E j \in DOMAIN wire' : wire'[j].kind = "scan") <=> (\E j \in DOMAIN wire : wire[j].kind = "scan")
      /\ \A j, k \in DOMAIN wire' : wire'[j].kind = "scan" /\ wire'[k].kind = "scan" => j = k
  BY <1>1, OtherArrives
<1>3. \/ window' = window /\ scan' = scan
      \/ window' = w /\ scan' = scan
      \/ ~window.scanning /\ window' = [w EXCEPT !.scanning = TRUE] /\ scan' = "asked"
  BY DEF WorkerReplied, Rescans, ArtOutdated
<1>4. r.games \in Lists /\ r.stopping \in BOOLEAN
  BY <1>1 DEF Replies
<1>5. /\ window' \in [games : Lists, art : Lists, seen : Lists, scanning : BOOLEAN, working : BOOLEAN,
                      planned : Places \cup {NoPlace}, folder : Places \cup {NoPlace},
                      picking : BOOLEAN, cancel : {"none", "live", "raised"}, enabled : BOOLEAN]
      /\ window'.working = window.working /\ window'.cancel = window.cancel
      /\ scan' \in {"none", "asked"}
      /\ \/ window'.scanning = window.scanning /\ scan' = scan
         \/ window'.scanning /\ scan' = "asked" /\ ~window.scanning
  <2>. DEFINE Windows == [games : Lists, art : Lists, seen : Lists, scanning : BOOLEAN, working : BOOLEAN,
                          planned : Places \cup {NoPlace}, folder : Places \cup {NoPlace},
                          picking : BOOLEAN, cancel : {"none", "live", "raised"}, enabled : BOOLEAN]
  <2>. HIDE DEF r
  <2>1. window \in Windows /\ scan \in {"none", "asked"}
    BY DEF NativeInv, NativeTypes
  <2>2. /\ w \in Windows /\ w.scanning = window.scanning /\ w.working = window.working
        /\ w.cancel = window.cancel
    BY <1>4, <2>1 DEF Shows
  <2>. HIDE DEF w
  <2>3. CASE ~window.scanning /\ window' = [w EXCEPT !.scanning = TRUE] /\ scan' = "asked"
    BY <2>1, <2>2, <2>3
  <2>4. CASE (window' = window \/ window' = w) /\ scan' = scan
    BY <2>1, <2>2, <2>4
  <2>. QED BY <1>3, <2>3, <2>4
<1>6. NativeTypes'
  BY <1>1, <1>2, <1>5 DEF NativeInv, NativeTypes
<1>7. ScanWaits'
  <2>1. CASE window'.scanning = window.scanning /\ scan' = scan
    BY <1>2, <2>1 DEF NativeInv, ScanWaits
  <2>2. CASE window'.scanning /\ scan' = "asked" /\ ~window.scanning
    <3>1. ~\E j \in DOMAIN wire' : wire'[j].kind = "scan"
      BY <1>2, <2>2 DEF NativeInv, ScanWaits
    <3>2. window'.scanning = TRUE
      BY <1>5, <2>2
    <3>. QED BY <2>2, <3>1, <3>2 DEF ScanWaits
  <2>. QED BY <1>5, <2>1, <2>2
<1>. QED BY <1>1, <1>5, <1>6, <1>7, SavesStay, WorkStays DEF NativeInv

LEMMA PolledKeeps == ASSUME NativeInv, Polled PROVE NativeInv'
<1>1. /\ wire' = Append(wire, Reply("poll", worker))
      /\ UNCHANGED <<builds, file, form, window, worker, scan, orders, tasks, resolving, dropped>>
  BY DEF Polled
<1>2. Reply("poll", worker) \in Replies /\ Reply("poll", worker).kind = "poll"
  BY RepliesAre DEF NativeInv, NativeTypes
<1>3. wire' \in Seq(Replies) /\ ScanWaits'
  BY <1>1, <1>2, AppendOther
<1>4. NativeTypes'
  BY <1>1, <1>3 DEF NativeInv, NativeTypes
<1>. QED BY <1>1, <1>3, <1>4, SavesStay, WorkStays DEF NativeInv

LEMMA PollDroppedKeeps == ASSUME NativeInv, PollDropped PROVE NativeInv'
<1>1. UNCHANGED <<builds, file, form, window, worker, scan, orders, tasks, resolving, dropped>>
  BY DEF PollDropped
<1>2. PICK i \in DOMAIN wire : wire[i].kind = "poll" /\ Arrives(i)
  BY DEF PollDropped
<1>3. /\ wire' \in Seq(Replies)
      /\ (\E j \in DOMAIN wire' : wire'[j].kind = "scan") <=> (\E j \in DOMAIN wire : wire[j].kind = "scan")
      /\ \A j, k \in DOMAIN wire' : wire'[j].kind = "scan" /\ wire'[k].kind = "scan" => j = k
  BY <1>2, OtherArrives
<1>4. ScanWaits'
  BY <1>1, <1>3 DEF NativeInv, ScanWaits
<1>5. NativeTypes'
  BY <1>1, <1>3 DEF NativeInv, NativeTypes
<1>. QED BY <1>1, <1>4, <1>5, SavesStay, WorkStays DEF NativeInv

LEMMA OrderServedKeeps == ASSUME NativeInv, NEW o, OrderServed(o) PROVE NativeInv'
<1>1. /\ UNCHANGED <<builds, file, form, window, scan, tasks, resolving, dropped>>
      /\ orders' \subseteq orders
  BY DEF OrderServed
<1>2. NativeTypes
  BY DEF NativeInv
<1>3. \/ UNCHANGED <<worker, wire>>
      \/ /\ worker' \in [up : BOOLEAN, games : Lists, stopping : BOOLEAN]
         /\ wire' = Append(wire, Reply("command", worker'))
  BY <1>2, ListsAre DEF OrderServed, NativeTypes
<1>4. CASE UNCHANGED <<worker, wire>>
  <2>1. NativeTypes'
    BY <1>1, <1>2, <1>4 DEF NativeTypes
  <2>. QED BY <1>1, <1>4, <2>1, ScanStays, SavesStay, WorkStays DEF NativeInv
<1>5. CASE /\ worker' \in [up : BOOLEAN, games : Lists, stopping : BOOLEAN]
           /\ wire' = Append(wire, Reply("command", worker'))
  <2>1. Reply("command", worker') \in Replies /\ Reply("command", worker').kind = "command"
    BY <1>5, RepliesAre
  <2>2. wire' \in Seq(Replies) /\ ScanWaits'
    BY <1>1, <1>5, <2>1, AppendOther
  <2>3. NativeTypes'
    BY <1>1, <1>2, <1>5, <2>2 DEF NativeTypes
  <2>. QED BY <1>1, <2>2, <2>3, SavesStay, WorkStays DEF NativeInv
<1>. QED BY <1>3, <1>4, <1>5

\* A step that leaves the preferences and the scan alone.
LEMMA WindowOnly ==
  ASSUME NativeInv, UNCHANGED <<builds, file, form, worker, scan, wire, dropped>>,
         window' \in [games : Lists, art : Lists, seen : Lists, scanning : BOOLEAN, working : BOOLEAN,
                      planned : Places \cup {NoPlace}, folder : Places \cup {NoPlace},
                      picking : BOOLEAN, cancel : {"none", "live", "raised"}, enabled : BOOLEAN],
         window'.scanning = window.scanning, OneWork',
         orders' \subseteq {"stop", "go", "refresh"}, resolving' \subseteq Places
  PROVE  NativeInv'
<1>1. NativeTypes'
  BY DEF NativeInv, NativeTypes
<1>. QED BY <1>1, ScanStays, SavesStay DEF NativeInv

\* A step that leaves what works alone, too.
LEMMA WindowQuiet ==
  ASSUME NativeInv, UNCHANGED <<builds, file, form, worker, scan, wire, dropped, tasks>>,
         NEW opened \in Places \cup {NoPlace}, NEW planned \in Places \cup {NoPlace},
         NEW picking \in BOOLEAN, NEW cancel \in {"none", "live", "raised"}, NEW enabled \in BOOLEAN,
         window' = [window EXCEPT !.folder = opened, !.planned = planned, !.picking = picking,
                                  !.cancel = cancel, !.enabled = enabled],
         (cancel = "none") = (window.cancel = "none"),
         orders' \subseteq {"stop", "go", "refresh"}, resolving' \subseteq Places
  PROVE  NativeInv'
<1>1. /\ window' \in [games : Lists, art : Lists, seen : Lists, scanning : BOOLEAN, working : BOOLEAN,
                      planned : Places \cup {NoPlace}, folder : Places \cup {NoPlace},
                      picking : BOOLEAN, cancel : {"none", "live", "raised"}, enabled : BOOLEAN]
      /\ window'.scanning = window.scanning /\ window'.working = window.working
      /\ window'.cancel = cancel
  BY DEF NativeInv, NativeTypes
<1>2. OneWork'
  BY <1>1 DEF NativeInv, OneWork
<1>. QED BY <1>1, <1>2, WindowOnly

LEMMA RefreshPressedKeeps == ASSUME NativeInv, RefreshPressed \/ TimerPoll PROVE NativeInv'
<1>1. /\ UNCHANGED <<builds, file, form, worker, wire, tasks, resolving, dropped>> /\ Refreshed
  BY DEF RefreshPressed, TimerPoll
<1>2. SavesTyped(form')
  BY <1>1 DEF NativeInv, NativeTypes, SavesTyped
<1>3. NativeTypes' /\ ScanWaits' /\ OneWork'
  BY <1>1, <1>2, RefreshedKeeps
<1>. QED BY <1>1, <1>3, SavesStay DEF NativeInv

LEMMA DiscoversKeeps == ASSUME NativeInv, Discovers \/ Exits PROVE NativeInv'
<1>1. UNCHANGED <<builds, file, form, window, scan, wire, orders, tasks, resolving, dropped>>
  BY DEF Discovers, Exits
<1>2. NativeTypes
  BY DEF NativeInv
<1>3. worker' \in [up : BOOLEAN, games : Lists, stopping : BOOLEAN]
  BY <1>2, ListsAre DEF Discovers, Exits, NativeTypes
<1>4. NativeTypes'
  BY <1>1, <1>2, <1>3 DEF NativeTypes
<1>. QED BY <1>1, <1>4, ScanStays, SavesStay, WorkStays DEF NativeInv

LEMMA UpdateKeeps == ASSUME NativeInv, NEW p \in Places, Update(p) PROVE NativeInv'
<1>1. /\ UNCHANGED <<file, form, window, worker, scan, wire, orders, tasks, resolving, dropped>>
      /\ builds' = [builds EXCEPT ![p] = @ + 1]
  BY DEF Update
<1>2. builds' \in Lists
  <2>1. builds \in [Places -> Nat]
    BY DEF NativeInv, NativeTypes, Lists
  <2>2. builds' \in [Places -> Nat]
    BY <1>1, <2>1
  <2>. QED BY <2>2 DEF Lists
<1>3. NativeTypes'
  BY <1>1, <1>2 DEF NativeInv, NativeTypes
<1>. QED BY <1>1, <1>3, ScanStays, SavesStay, WorkStays DEF NativeInv

LEMMA AddLocationKeeps == ASSUME NativeInv, NEW p \in Places, AddLocation(p) PROVE NativeInv'
<1>1. /\ UNCHANGED <<builds, file, form, window, worker, scan, wire, orders, tasks, dropped>>
      /\ resolving' = resolving \cup {p}
  BY DEF AddLocation
<1>2. NativeTypes'
  BY <1>1 DEF NativeInv, NativeTypes
<1>. QED BY <1>1, <1>2, ScanStays, SavesStay, WorkStays DEF NativeInv

-----------------------------------------------------------------------------
LEMMA FieldsAre ==
  ASSUME NativeInv
  PROVE  /\ window.folder \in Places \cup {NoPlace} /\ window.planned \in Places \cup {NoPlace}
         /\ window.picking \in BOOLEAN /\ window.cancel \in {"none", "live", "raised"}
         /\ window.enabled \in BOOLEAN /\ NoPlace \in Places \cup {NoPlace}
         /\ orders \subseteq {"stop", "go", "refresh"} /\ resolving \subseteq Places
         /\ window = [window EXCEPT !.folder = window.folder, !.planned = window.planned,
                                    !.picking = window.picking, !.cancel = window.cancel,
                                    !.enabled = window.enabled]
BY DEF NativeInv, NativeTypes

LEMMA WorkerCommandKeeps == ASSUME NativeInv, WorkerCommand PROVE NativeInv'
<1>1. /\ UNCHANGED <<builds, file, form, worker, scan, wire, tasks, resolving, dropped>>
      /\ orders' \subseteq {"stop", "go", "refresh"}
      /\ \E enabled \in BOOLEAN : window' = [window EXCEPT !.enabled = enabled]
  BY FieldsAre DEF WorkerCommand
<1>2. PICK enabled \in BOOLEAN : window' = [window EXCEPT !.enabled = enabled]
  BY <1>1
<1>3. window' = [window EXCEPT !.folder = window.folder, !.planned = window.planned,
                 !.picking = window.picking, !.cancel = window.cancel, !.enabled = enabled]
  BY <1>2 DEF NativeInv, NativeTypes
<1>. QED BY <1>1, <1>3, FieldsAre, WindowQuiet

LEMMA SelectKeeps == ASSUME NativeInv, NEW p \in Places, Select(p) PROVE NativeInv'
<1>1. UNCHANGED <<builds, file, form, worker, scan, wire, orders, tasks, resolving, dropped>>
  BY DEF Select
<1>2. window' = [window EXCEPT !.folder = p, !.planned = NoPlace,
                 !.picking = window.picking, !.cancel = window.cancel, !.enabled = window.enabled]
  BY DEF Select, NativeInv, NativeTypes
<1>. QED BY <1>1, <1>2, FieldsAre, WindowQuiet

LEMMA BrowseKeeps == ASSUME NativeInv, Browse PROVE NativeInv'
<1>1. UNCHANGED <<builds, file, form, worker, scan, wire, orders, tasks, resolving, dropped>>
  BY DEF Browse
<1>2. window' = [window EXCEPT !.folder = window.folder, !.planned = window.planned,
                 !.picking = TRUE, !.cancel = window.cancel, !.enabled = window.enabled]
  BY DEF Browse, NativeInv, NativeTypes
<1>. QED BY <1>1, <1>2, FieldsAre, WindowQuiet

LEMMA FolderPickedKeeps == ASSUME NativeInv, FolderPicked PROVE NativeInv'
<1>1. UNCHANGED <<builds, file, form, worker, scan, wire, orders, tasks, resolving, dropped>>
  BY DEF FolderPicked
<1>2. \E opened, planned \in Places \cup {NoPlace} :
          window' = [window EXCEPT !.folder = opened, !.planned = planned,
                     !.picking = FALSE, !.cancel = window.cancel, !.enabled = window.enabled]
  <2>1. CASE window' = [window EXCEPT !.picking = FALSE]
    <3>1. window' = [window EXCEPT !.folder = window.folder, !.planned = window.planned,
                     !.picking = FALSE, !.cancel = window.cancel, !.enabled = window.enabled]
      BY <2>1 DEF NativeInv, NativeTypes
    <3>. QED BY <3>1, FieldsAre
  <2>2. CASE \E p \in Places : window' = [window EXCEPT !.picking = FALSE, !.folder = p,
                                                        !.planned = NoPlace]
    <3>1. PICK p \in Places : window' = [window EXCEPT !.picking = FALSE, !.folder = p,
                                                        !.planned = NoPlace]
      BY <2>2
    <3>2. window' = [window EXCEPT !.folder = p, !.planned = NoPlace,
                     !.picking = FALSE, !.cancel = window.cancel, !.enabled = window.enabled]
      BY <3>1 DEF NativeInv, NativeTypes
    <3>. QED BY <3>2
  <2>. QED BY <2>1, <2>2 DEF FolderPicked
<1>3. PICK opened \in Places \cup {NoPlace}, planned \in Places \cup {NoPlace} :
          window' = [window EXCEPT !.folder = opened, !.planned = planned,
                     !.picking = FALSE, !.cancel = window.cancel, !.enabled = window.enabled]
  BY <1>2
<1>. QED BY <1>1, <1>3, FieldsAre, WindowQuiet

LEMMA CancelPlannedKeeps == ASSUME NativeInv, CancelPlanned PROVE NativeInv'
<1>1. UNCHANGED <<builds, file, form, worker, scan, wire, orders, tasks, resolving, dropped>>
  BY DEF CancelPlanned
<1>2. window' = [window EXCEPT !.folder = window.folder, !.planned = NoPlace,
                 !.picking = window.picking, !.cancel = window.cancel, !.enabled = window.enabled]
  BY DEF CancelPlanned, NativeInv, NativeTypes
<1>. QED BY <1>1, <1>2, FieldsAre, WindowQuiet

LEMMA StopKeeps == ASSUME NativeInv, Stop PROVE NativeInv'
<1>1. UNCHANGED <<builds, file, form, worker, scan, wire, orders, tasks, resolving, dropped>>
      /\ window.cancel = "live"
  BY DEF Stop
<1>2. window' = [window EXCEPT !.folder = window.folder, !.planned = window.planned,
                 !.picking = window.picking, !.cancel = "raised", !.enabled = window.enabled]
  BY DEF Stop, NativeInv, NativeTypes
<1>. QED BY <1>1, <1>2, FieldsAre, WindowQuiet

-----------------------------------------------------------------------------
\* Work begins when none is under way.
LEMMA WorkBegins ==
  ASSUME NativeInv, ~window.working, NEW t, tasks' = tasks \cup {t}, t.folder \in Places \cup {NoPlace},
         NEW planned \in Places \cup {NoPlace}, NEW cancel \in {"none", "live"},
         (cancel # "none") = (t.kind = "job"),
         window' = [window EXCEPT !.working = TRUE, !.planned = planned, !.cancel = cancel],
         orders' \subseteq {"stop", "go", "refresh"},
         UNCHANGED <<builds, file, form, worker, scan, wire, dropped, resolving>>
  PROVE  NativeInv'
<1>1. /\ window' \in [games : Lists, art : Lists, seen : Lists, scanning : BOOLEAN, working : BOOLEAN,
                      planned : Places \cup {NoPlace}, folder : Places \cup {NoPlace},
                      picking : BOOLEAN, cancel : {"none", "live", "raised"}, enabled : BOOLEAN]
      /\ window'.scanning = window.scanning /\ window'.working = TRUE /\ window'.cancel = cancel
  BY DEF NativeInv, NativeTypes
<1>2. tasks' = {t}
  BY DEF NativeInv, OneWork
<1>3. OneWork'
  BY <1>1, <1>2 DEF OneWork
<1>4. resolving' \subseteq Places
  BY FieldsAre
<1>. QED BY <1>1, <1>3, <1>4, WindowOnly

LEMMA NoCancel == ASSUME NativeInv, ~window.working PROVE window.cancel = "none"
BY DEF NativeInv, OneWork, NativeTypes

\* The work under way ends.
LEMMA WorkEnds ==
  ASSUME NativeInv, NEW t \in tasks, tasks' = tasks \ {t}, NEW planned \in Places \cup {NoPlace},
         window' = [window EXCEPT !.working = FALSE, !.planned = planned, !.cancel = "none"],
         UNCHANGED <<builds, file, form, worker, scan, wire, dropped, resolving, orders>>
  PROVE  NativeInv'
<1>1. /\ window' \in [games : Lists, art : Lists, seen : Lists, scanning : BOOLEAN, working : BOOLEAN,
                      planned : Places \cup {NoPlace}, folder : Places \cup {NoPlace},
                      picking : BOOLEAN, cancel : {"none", "live", "raised"}, enabled : BOOLEAN]
      /\ window'.scanning = window.scanning /\ window'.working = FALSE /\ window'.cancel = "none"
  BY DEF NativeInv, NativeTypes
<1>2. tasks' = {}
  BY DEF NativeInv, OneWork
<1>3. OneWork'
  BY <1>1, <1>2 DEF OneWork
<1>4. resolving' \subseteq Places /\ orders' \subseteq {"stop", "go", "refresh"}
  BY FieldsAre
<1>. QED BY <1>1, <1>3, <1>4, WindowOnly

LEMMA PlanKeeps == ASSUME NativeInv, Plan PROVE NativeInv'
<1>. DEFINE t == [kind |-> "plan", folder |-> window.folder]
<1>1. /\ UNCHANGED <<builds, file, form, worker, scan, wire, orders, resolving, dropped>>
      /\ ~window.working /\ tasks' = tasks \cup {t} /\ t.kind # "job"
  BY DEF Plan
<1>2. window' = [window EXCEPT !.working = TRUE, !.planned = NoPlace, !.cancel = "none"]
  BY <1>1, NoCancel DEF Plan, NativeInv, NativeTypes
<1>3. t.folder \in Places \cup {NoPlace} /\ ("none" # "none") = (t.kind = "job")
  BY FieldsAre
<1>. HIDE DEF t
<1>. QED BY <1>1, <1>2, <1>3, FieldsAre, WorkBegins

LEMMA PlannedKeeps == ASSUME NativeInv, Planned PROVE NativeInv'
<1>1. UNCHANGED <<builds, file, form, worker, scan, wire, orders, resolving, dropped>>
  BY DEF Planned
<1>2. PICK t \in tasks : /\ t.kind = "plan" /\ tasks' = tasks \ {t}
                         /\ \E plan \in {t.folder, window.planned} :
                                window' = [Rested(window) EXCEPT !.planned = plan]
  BY DEF Planned
<1>3. PICK plan \in {t.folder, window.planned} : window' = [Rested(window) EXCEPT !.planned = plan]
  BY <1>2
<1>4. plan \in Places \cup {NoPlace} /\ window.cancel = "none"
  <2>1. plan \in Places \cup {NoPlace}
    BY <1>2, <1>3, FieldsAre DEF NativeInv, OneWork
  <2>2. \A u \in tasks : u.kind # "job"
    BY <1>2 DEF NativeInv, OneWork
  <2>3. window.cancel = "none"
    BY <2>2 DEF NativeInv, OneWork
  <2>. QED BY <2>1, <2>3
<1>5. window' = [window EXCEPT !.working = FALSE, !.planned = plan, !.cancel = "none"]
  BY <1>3, <1>4 DEF Rested, NativeInv, NativeTypes
<1>. QED BY <1>1, <1>2, <1>4, <1>5, WorkEnds

LEMMA FinishedKeeps == ASSUME NativeInv, Finished PROVE NativeInv'
<1>1. UNCHANGED <<builds, file, form, worker, scan, wire, orders, resolving, dropped>>
  BY DEF Finished
<1>2. PICK t \in tasks : tasks' = tasks \ {t}
  BY DEF Finished
<1>3. window' = [window EXCEPT !.working = FALSE, !.planned = window.planned, !.cancel = "none"]
  BY DEF Finished, Rested, NativeInv, NativeTypes
<1>. QED BY <1>1, <1>2, <1>3, FieldsAre, WorkEnds

\* A start on either platform, with the plan taken or kept.
LEMMA StartKeeps ==
  ASSUME NativeInv, NEW opened \in Places \cup {NoPlace}, NEW planned \in Places \cup {NoPlace},
         Start(opened, [window EXCEPT !.planned = planned]),
         UNCHANGED <<builds, file, form, worker, scan, wire, resolving, dropped>>
  PROVE  NativeInv'
<1>. DEFINE w == [window EXCEPT !.planned = planned]
            t == [kind |-> "job", folder |-> opened]
<1>1. w.working = window.working /\ orders' \subseteq {"stop", "go", "refresh"}
  BY FieldsAre DEF NativeInv, NativeTypes, Start
<1>2. CASE window' = w /\ tasks' = tasks
  <2>1. window' = [window EXCEPT !.folder = window.folder, !.planned = planned,
                   !.picking = window.picking, !.cancel = window.cancel, !.enabled = window.enabled]
    BY <1>2 DEF NativeInv, NativeTypes
  <2>2. /\ UNCHANGED <<builds, file, form, worker, scan, wire, dropped, tasks>>
        /\ orders' \subseteq {"stop", "go", "refresh"} /\ resolving' \subseteq Places
    BY <1>1, <1>2, FieldsAre
  <2>. HIDE DEF w
  <2>. QED BY <2>1, <2>2, FieldsAre, WindowQuiet
<1>3. CASE /\ ~window.working /\ window' = [w EXCEPT !.working = TRUE, !.cancel = "live"]
           /\ tasks' = tasks \cup {t}
  <2>1. window' = [window EXCEPT !.working = TRUE, !.planned = planned, !.cancel = "live"]
    BY <1>3 DEF NativeInv, NativeTypes
  <2>2. t.kind = "job" /\ t.folder \in Places \cup {NoPlace}
    OBVIOUS
  <2>. HIDE DEF t
  <2>. QED BY <1>1, <1>3, <2>1, <2>2, WorkBegins
<1>. QED BY <1>1, <1>2, <1>3 DEF Start

LEMMA StartPlannedKeeps == ASSUME NativeInv, StartPlanned PROVE NativeInv'
<1>. DEFINE w == [window EXCEPT !.planned = NoPlace]
<1>1. UNCHANGED <<builds, file, form, worker, scan, wire, resolving, dropped>>
  BY DEF StartPlanned
<1>2. CASE Start(window.planned, w)
  BY <1>1, <1>2, FieldsAre, StartKeeps
<1>3. CASE window' = w /\ UNCHANGED <<orders, tasks>>
  <2>1. window' = [window EXCEPT !.folder = window.folder, !.planned = NoPlace,
                   !.picking = window.picking, !.cancel = window.cancel, !.enabled = window.enabled]
    BY <1>3 DEF NativeInv, NativeTypes
  <2>2. /\ UNCHANGED <<builds, file, form, worker, scan, wire, dropped, tasks>>
        /\ orders' \subseteq {"stop", "go", "refresh"} /\ resolving' \subseteq Places
    BY <1>1, <1>3, FieldsAre
  <2>. HIDE DEF w
  <2>. QED BY <2>1, <2>2, FieldsAre, WindowQuiet
<1>. QED BY <1>2, <1>3 DEF StartPlanned

LEMMA RecoverKeeps == ASSUME NativeInv, NEW p \in Places, Recover(p) PROVE NativeInv'
<1>. DEFINE t == [kind |-> "recovery", folder |-> p]
<1>1. UNCHANGED <<builds, file, form, worker, scan, wire, resolving, dropped>> /\ ~window.working
  BY DEF Recover
<1>2. CASE Start(p, window)
  <2>1. window = [window EXCEPT !.planned = window.planned]
    BY DEF NativeInv, NativeTypes
  <2>2. Start(p, [window EXCEPT !.planned = window.planned])
    BY <1>2, <2>1
  <2>. QED BY <1>1, <2>2, FieldsAre, StartKeeps
<1>3. CASE /\ window' = [window EXCEPT !.working = TRUE] /\ orders' = orders
           /\ tasks' = tasks \cup {t}
  <2>1. window' = [window EXCEPT !.working = TRUE, !.planned = window.planned, !.cancel = "none"]
    BY <1>1, <1>3, NoCancel DEF NativeInv, NativeTypes
  <2>2. t.kind # "job" /\ t.folder \in Places \cup {NoPlace}
    OBVIOUS
  <2>. HIDE DEF t
  <2>. QED BY <1>1, <1>3, <2>1, <2>2, FieldsAre, WorkBegins
<1>. QED BY <1>2, <1>3 DEF Recover

-----------------------------------------------------------------------------
LEMMA NativeInitHolds == NativeInit => NativeInv
<1>1. SUFFICES ASSUME NativeInit PROVE NativeInv
  OBVIOUS
<1>2. (CHOOSE p \in Places : TRUE) \in Places
  BY NativeAssumption
<1>3. (CHOOSE c \in Settings : TRUE) \in Settings
  <2>1. Settings # {}
    BY NativeAssumption, FS_EmptySet
  <2>. QED BY <2>1
<1>4. builds \in Lists /\ NoList \in Lists
  BY <1>1 DEF NativeInit, Lists, NoList
<1>5. file \in Preferences
  BY <1>1, <1>2, <1>3 DEF NativeInit, Preferences
<1>6. form.shown \in Preferences
  BY <1>1, <1>5 DEF NativeInit, Preferences
<1>7. SavesTyped(form) /\ ~form.loaded /\ form.thread = NoSave
  BY <1>1, <1>6 DEF NativeInit, SavesTyped
<1>8. wire = <<>> /\ wire \in Seq(Replies) /\ DOMAIN wire = {}
  BY <1>1, EmptySeq DEF NativeInit
<1>9. NativeTypes
  BY <1>1, <1>4, <1>5, <1>7, <1>8 DEF NativeInit, NativeTypes, SavesTyped, NoWorker
<1>10. SavesTrue
  BY <1>7 DEF SavesTrue, ShownIsSaved
<1>11. ScanWaits
  BY <1>1, <1>8 DEF NativeInit, ScanWaits
<1>12. OneWork
  BY <1>1 DEF NativeInit, OneWork
<1>. QED BY <1>9, <1>10, <1>11, <1>12 DEF NativeInv

LEMMA NativeSteps == NativeInv /\ [NativeNext]_natives => NativeInv'
<1>1. SUFFICES ASSUME NativeInv, [NativeNext]_natives PROVE NativeInv'
  OBVIOUS
<1>2. CASE UNCHANGED natives
  <2>1. NativeTypes'
    BY <1>1, <1>2 DEF NativeInv, NativeTypes, natives
  <2>. QED BY <1>1, <1>2, <2>1, SavesStay, ScanStays, WorkStays DEF NativeInv, natives
<1>3. CASE Saving
  BY <1>1, <1>3, PreferencesLoadedKeeps, SaveRunsKeeps, PreferencesSavedKeeps DEF Saving
<1>4. CASE ScanRead \/ Polled \/ PollDropped
  BY <1>1, <1>4, ScanReadKeeps, PolledKeeps, PollDroppedKeeps
<1>5. CASE \E i \in DOMAIN wire : Scanned(i) \/ WorkerReplied(i)
  BY <1>1, <1>5, ScannedKeeps, WorkerRepliedKeeps
<1>6. CASE \E o \in orders : OrderServed(o)
  BY <1>1, <1>6, OrderServedKeeps
<1>7. CASE Working
  BY <1>1, <1>7, PlannedKeeps, FinishedKeeps, LocationResolvedKeeps DEF Working
<1>8. CASE TimerPoll \/ Discovers \/ Exits \/ \E p \in Places : Update(p)
  BY <1>1, <1>8, RefreshPressedKeeps, DiscoversKeeps, UpdateKeeps
<1>9. CASE User
  BY <1>1, <1>9, ChooseKeeps, RefreshPressedKeeps, BrowseKeeps, FolderPickedKeeps, PlanKeeps,
     StartPlannedKeeps, CancelPlannedKeeps, StopKeeps, WorkerCommandKeeps, AddLocationKeeps,
     RemoveLocationKeeps, SelectKeeps, RecoverKeeps DEF User
<1>. QED BY <1>1, <1>2, <1>3, <1>4, <1>5, <1>6, <1>7, <1>8, <1>9
         DEF NativeNext, Scanning, PollingSteps, Ordering, Arrive

LEMMA NativeInvGives == NativeInv => NativeOK /\ OneTask /\ ShownIsSaved
<1>1. SUFFICES ASSUME NativeInv PROVE NativeOK /\ OneTask /\ ShownIsSaved
  OBVIOUS
<1>2. NativeOK
  BY <1>1 DEF NativeInv, NativeTypes, ScanWaits, NativeOK, SavesAsked
<1>3. Cardinality(tasks) <= 1
  <2>1. CASE tasks = {}
    BY <2>1, FS_EmptySet
  <2>2. CASE \E t : tasks = {t}
    BY <2>2, FS_Singleton
  <2>. QED BY <1>1, <2>1, <2>2 DEF NativeInv, OneWork
<1>4. OneTask
  BY <1>1, <1>3 DEF NativeInv, OneWork, OneTask
<1>. QED BY <1>1, <1>2, <1>4 DEF NativeInv, SavesTrue

\* Only a save changes the file.
LEMMA OnlySavesWrite == [NativeNext]_natives => UNCHANGED file \/ SaveRuns
BY DEF NativeNext, Saving, Scanning, PollingSteps, Ordering, Working, User, Arrive, natives,
       PreferencesLoaded, PreferencesSaved, ScanRead, Scanned, WorkerReplied, Polled, PollDropped,
       OrderServed, Planned, Finished, LocationResolved, Edited, TimerPoll, Discovers, Exits, Choose,
       RefreshPressed, Browse, FolderPicked, Plan, StartPlanned, CancelPlanned, Stop, WorkerCommand,
       AddLocation, RemoveLocation, Select, Recover, Update

LEMMA PlacesStep ==
  NativeInv /\ [NativeNext]_natives => \A p \in file.places \ file'.places : p \in dropped
<1>1. SUFFICES ASSUME NativeInv, [NativeNext]_natives, file' # file
               PROVE  \A p \in file.places \ file'.places : p \in dropped
  OBVIOUS
<1>2. SaveRuns
  BY <1>1, OnlySavesWrite
<1>3. form.thread.answer = "asked" /\ file' = form.thread.prefs
  BY <1>1, <1>2 DEF SaveRuns
<1>4. form.thread # NoSave
  BY <1>3 DEF NoSave
<1>. QED BY <1>1, <1>3, <1>4 DEF NativeInv, SavesTrue

\* The window works on one thing at a time, a save that is not followed by another wrote what is
\* shown, and the file loses a place only when the user removed it, however saves, scans and edits
\* overlap (native.rs:655).
THEOREM PreferencesAreKept == NativeSpec => PreferencesKept
<1>1. NativeInit => NativeInv
  BY NativeInitHolds
<1>2. NativeInv /\ [NativeNext]_natives => NativeInv'
  BY NativeSteps
<1>3. NativeInv => NativeOK /\ OneTask /\ ShownIsSaved
  BY NativeInvGives
<1>4. NativeInv /\ [NativeNext]_natives => [\A p \in file.places \ file'.places : p \in dropped]_natives
  BY PlacesStep
<1>. QED BY <1>1, <1>2, <1>3, <1>4, PTL DEF NativeSpec, PreferencesKept, PlacesKept

=============================================================================

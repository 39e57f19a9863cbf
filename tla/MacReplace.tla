------------------------------ MODULE MacReplace --------------------------------
(***************************************************************************)
(* The replacement of one game file on a Mac: a copy in the other form is  *)
(* staged beside it, verified, journaled, swapped in, verified again, and  *)
(* only then is the original deleted.  A launcher may open the file, write *)
(* it through what it has open and close it between any two steps, the     *)
(* process may die between any two, and the user's recovery reads the      *)
(* journal that is left.                                                   *)
(*                                                                         *)
(* A file is its inode, its bytes (a version that each write raises, with  *)
(* the length and the times that identity() compares) and its form.        *)
(*                                                                         *)
(* `late` is a history: the last write went to a file at which the process *)
(* had looked for the last time before a swap or a deletion.  No step      *)
(* reads it.                                                               *)
(***************************************************************************)
EXTENDS Naturals

CONSTANTS
    Writes,     \* bound: writes of the launcher
    Passes      \* bound: passes and recoveries

ASSUME ReplaceAssumption == Writes \in Nat /\ Passes \in Nat

VARIABLES
    source,     \* the file at the game's path
    staged,     \* the file in the staging directory, or NoFile
    record,     \* the journal, or NoRecord
    work,       \* the process that holds native.lock: what it does and what it read
    open,       \* the inodes the launcher has open for writing
    written,    \* writes so far: the newest bytes
    late,       \* the last of them came too late to be seen
    used,       \* passes and recoveries so far
    touched     \* a write came since the last pass began
replace == <<source, staged, record, work, open, written, late, used, touched>>

NoFile   == [inode |-> 9, bytes |-> 0, packed |-> FALSE]
NoRecord == [original |-> NoFile]
Resting  == [at |-> "rest"]
Gone     == 8          \* a file that is open and has no name any more
File     == [inode : {0, 1}, bytes : 0 .. Writes, packed : BOOLEAN]

Steps == {"open", "hashed", "copied", "checked", "journaled", "swapped",
          "undo", "undone", "clear", "emptied"}

Identity(f) == [inode |-> f.inode, bytes |-> f.bytes]
Hash(f)     == f.bytes

\* Types; and the two names hold two files.
ReplaceOK ==
    /\ source \in File /\ staged \in File \cup {NoFile} /\ staged.inode # source.inode
    /\ record = NoRecord \/ /\ record.original.inode # record.candidate.inode
                            /\ record.hash \in 0 .. Writes
    /\ work = Resting \/ work.at \in Steps
    /\ open \subseteq {0, 1, Gone} /\ late \in BOOLEAN
    /\ written \in 0 .. Writes /\ used \in 0 .. Passes /\ touched \in BOOLEAN

ReplaceInit ==
    /\ source = [inode |-> 0, bytes |-> 0, packed |-> FALSE] /\ staged = NoFile
    /\ record = NoRecord /\ work = Resting /\ used = 0 /\ touched = FALSE
    /\ open = {} /\ written = 0 /\ late = FALSE

(***************************************************************************)
(* The launcher.                                                           *)
(***************************************************************************)
\* Nothing keeps the launcher from opening the path, and what it has open stays the same
\* file when a swap takes its name or a deletion leaves it without one.
OpensPath ==
    /\ source.inode \notin open /\ open' = open \cup {source.inode}
    /\ UNCHANGED <<source, staged, record, work, written, late, used, touched>>
Closes ==
    /\ \E inode \in open : open' = open \ {inode}
    /\ UNCHANGED <<source, staged, record, work, written, late, used, touched>>

\* A recovery swaps back what it looked at before.  After the last look at the file in
\* the staging directory, that file is deleted.
TooLate(inode) ==
    \/ inode = Gone
    \/ inode = source.inode /\ work.at = "undo"
    \/ inode = staged.inode /\ work.at \in {"undone", "clear"}

\* A compressed file is expanded by the write.
Rewritten(file) == [file EXCEPT !.bytes = written + 1, !.packed = FALSE]
Write(inode) ==
    /\ inode \in open /\ written < Writes
    /\ written' = written + 1 /\ touched' = TRUE /\ late' = TooLate(inode)
    /\ source' = IF inode = source.inode THEN Rewritten(source) ELSE source
    /\ staged' = IF inode = staged.inode THEN Rewritten(staged) ELSE staged
    /\ UNCHANGED <<record, work, open, used>>

\* The staging directory goes with the file in it, or another one takes its place.
Unstaged ==
    /\ staged' = NoFile
    /\ open' = IF staged.inode \in open THEN (open \ {staged.inode}) \cup {Gone} ELSE open

(***************************************************************************)
(* A pass.                                                                 *)
(***************************************************************************)
Goes(from, to) == work.at = from /\ work' = [work EXCEPT !.at = to]
\* An error: a staging directory that was not kept is removed with its TempDir.
Fails(dropped) == /\ work' = Resting
                  /\ IF dropped THEN Unstaged ELSE UNCHANGED <<staged, open>>
                  /\ UNCHANGED <<source, record, written, late, used, touched>>

\* visit refuses a folder with a journal; stage skips a file in the wanted form.  visit
\* asks once whether a file of the folder is open, before the first one: this file may
\* have been opened by the time of its turn.
Opens(restore) ==
    /\ work = Resting /\ record = NoRecord /\ used < Passes /\ used' = used + 1
    /\ restore = source.packed
    /\ work' = [at |-> "open", original |-> Identity(source), before |-> 0]
    /\ Unstaged                        \* another directory: one left over is not seen again
    /\ touched' = FALSE /\ UNCHANGED <<source, record, written, late>>
Hashes ==
    /\ work.at = "open" /\ work' = [work EXCEPT !.at = "hashed", !.before = Hash(source)]
    /\ UNCHANGED <<source, staged, record, open, written, late, used, touched>>
Copies ==
    /\ Goes("hashed", "copied")
    /\ staged' = [inode |-> 1 - source.inode, bytes |-> source.bytes, packed |-> ~source.packed]
    /\ UNCHANGED <<source, record, open, written, late, used, touched>>
\* The copy did not get smaller, or a tool failed.
Declines == work.at = "hashed" /\ Fails(TRUE)

SameBytes == Hash(staged) = work.before
Unmoved   == Identity(source) = work.original
Checks ==
    /\ work.at = "copied" /\ SameBytes /\ Unmoved /\ Goes("copied", "checked")
    /\ UNCHANGED <<source, staged, record, open, written, late, used, touched>>
Changed == work.at = "copied" /\ ~(SameBytes /\ Unmoved) /\ Fails(TRUE)
Journals ==
    /\ Goes("checked", "journaled")
    /\ record' = [original |-> work.original, candidate |-> Identity(staged), hash |-> work.before]
    /\ UNCHANGED <<source, staged, open, written, late, used, touched>>
\* renamex_np with RENAME_SWAP: both names stay present.
Exchanged == source' = staged /\ staged' = source
Swapped(from, to) ==
    /\ Goes(from, to) /\ Exchanged
    /\ UNCHANGED <<record, open, written, late, used, touched>>
Swaps == Swapped("journaled", "swapped")

SourceOnly ==
    Identity(source) = record.candidate /\ Hash(source) = record.hash
Published ==
    /\ Identity(staged) = record.original /\ Identity(source) = record.candidate
    /\ Hash(source) = record.hash
Verifies ==
    /\ work.at = "swapped" /\ Published /\ Goes("swapped", "clear")
    /\ UNCHANGED <<source, staged, record, open, written, late, used, touched>>
\* Both copies and the journal are retained.
Retains == work.at = "swapped" /\ ~Published /\ Fails(FALSE)

\* clear_record: the staging directory, then the journal.
Empties ==
    /\ Goes("clear", "emptied") /\ Unstaged
    /\ UNCHANGED <<source, record, written, late, used, touched>>
Clears ==
    /\ work.at = "emptied" /\ work' = Resting /\ record' = NoRecord
    /\ UNCHANGED <<source, staged, open, written, late, used, touched>>

(***************************************************************************)
(* The user's recovery of the folder.                                      *)
(***************************************************************************)
NotSwapped  == Identity(source) = record.original /\ Identity(staged) = record.candidate
JustSwapped == Identity(source) = record.candidate /\ Identity(staged) = record.original

Reviews ==
    /\ work = Resting /\ record # NoRecord /\ used < Passes /\ used' = used + 1
    /\ open \subseteq {Gone}     \* lsof lists what is open below the folder
    /\ staged # NoFile            \* identity(staged) fails on a directory that is gone
    /\ \/ NotSwapped /\ work' = [at |-> "clear"]
       \/ ~NotSwapped /\ JustSwapped /\ work' = [at |-> "undo"]
    /\ UNCHANGED <<source, staged, record, open, written, late, touched>>
Undoes == Swapped("undo", "undone")
Restored == Hash(source) = record.hash
Confirms ==
    /\ work.at = "undone" /\ Restored /\ Goes("undone", "clear")
    /\ UNCHANGED <<source, staged, record, open, written, late, used, touched>>
RetainsAll == work.at = "undone" /\ ~Restored /\ Fails(FALSE)

(***************************************************************************)
(* The process dies: the directory stays, and the journal if there was one.*)
(***************************************************************************)
Killed == /\ work # Resting /\ work' = Resting
          /\ UNCHANGED <<source, staged, record, open, written, late, used, touched>>

ReplaceNext ==
    \/ OpensPath \/ Closes \/ \E inode \in {0, 1, Gone} : Write(inode)
    \/ \E restore \in BOOLEAN : Opens(restore)
    \/ Hashes \/ Copies \/ Declines \/ Checks \/ Changed \/ Journals \/ Swaps
    \/ Verifies \/ Retains \/ Empties \/ Clears
    \/ Reviews \/ Undoes \/ Confirms \/ RetainsAll \/ Killed

ReplaceSpec == ReplaceInit /\ [][ReplaceNext]_replace

(***************************************************************************)
(* Properties.                                                             *)
(***************************************************************************)
\* The bytes the launcher wrote last are under the game's path, or in the staging
\* directory of a journal that is still there: no order of writes, steps, deaths and
\* recoveries deletes them (stage, recover_original, clear_record).  Two windows of the
\* code are excepted: a write between a recovery's look and its swap (macos.rs:430-437),
\* and one through what the launcher kept open across a swap, after the last look at the
\* file that is to be deleted (564-577, 437-443) or when it is deleted already.
NewestKept ==
    /\ ReplaceOK
    /\ \/ source.bytes = written
       \/ staged # NoFile /\ staged.bytes = written /\ record # NoRecord
       \/ late

\* A journal that is left, with a file that nobody wrote since, can be resolved: the
\* files are where they were or exactly swapped (recover_folder "Resolves every journal
\* recorded for this game folder").
Recoverable ==
    work = Resting /\ record # NoRecord /\ ~touched => NotSwapped \/ JustSwapped

================================================================================

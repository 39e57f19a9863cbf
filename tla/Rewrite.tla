-------------------------------- MODULE Rewrite --------------------------------
(***************************************************************************)
(* Passes over one game folder on btrfs, and the evidence they leave.  A   *)
(* worker of the coordinator or a command with --force rewrites files one  *)
(* range at a time, while the launcher may replace any file.  A finished   *)
(* file leaves a receipt in the queue's database (the coordinator writes   *)
(* it when it reads the worker's event) and, at the end of a compression,  *)
(* a fingerprint with a level in the state database.  Later passes skip    *)
(* what either of them says is done.                                       *)
(*                                                                         *)
(* A file is its version (size, inode and times: what a fingerprint holds) *)
(* and the level of each of its ranges, 0 for uncompressed.  Levels 1, 2   *)
(* and 3 are zstd 3, 9 and 15; 1 is also the kernel's default.             *)
(*                                                                         *)
(* `late` in a record is a history: the record comes from an event that    *)
(* was unread when a command took the lock to do its file again.  No step  *)
(* reads it.                                                               *)
(***************************************************************************)
EXTENDS Naturals, Sequences, FiniteSets

CONSTANTS
    Ranges,      \* per file, its number of 16 MiB ranges
    Presets,     \* the presets in use, a subset of {"fast", "max"}
    Budgets      \* bound: passes started, files the launcher replaces, deaths of a
                 \* worker, a command or the coordinator; a behaviour has one of them

ASSUME RewriteAssumption ==
    /\ Budgets \subseteq [passes : Nat, writes : Nat, crashes : Nat]
    /\ \A f \in DOMAIN Ranges : Ranges[f] \in Nat \ {0}
    /\ Presets \subseteq {"fast", "max"}

VARIABLES
    disk,      \* per file: its version and the level of each range
    property,  \* btrfs.compression is set on the install folder
    receipts,  \* per file: the policy it is finished under, in the queue's database
    db,        \* the game's row in the state database and its fingerprints
    pass,      \* the pass that holds operation.lock, or NoPass
    events,    \* finished files the coordinator has not read from the pipe
    service,   \* the coordinator runs
    kernel,    \* whether the kernel takes a level with a defragmentation
    budget     \* what is left of the bounds

vars == <<disk, property, receipts, db, pass, events, service, kernel, budget>>

Files    == DOMAIN Ranges
Levels   == 0 .. 3
Default  == 1
Policies == Presets \cup {"plain"}
Floor    == [fast |-> 1, max |-> 2]
Ceiling  == [fast |-> 1, max |-> 3]

Fresh(version, level) == [version |-> version, level |-> level, late |-> FALSE]
None    == Fresh(0, 0)
Entries == [version : Nat, level : Levels, late : BOOLEAN]
NoReceipt == [policy |-> "none", entry |-> None]
NoPass  == [by |-> "none"]
NoGame  == [level |-> 0, prints |-> [f \in Files |-> None]]

Places  == {"left", "waiting", "open", "done", "failed"}
Passes  == [by : {"worker", "orphan", "command"}, policy : Policies,
            walked : [Files -> Nat], place : [Files -> Places],
            at : [Files -> Nat], level : [Files -> Levels], kept : [Files -> Entries],
            cancel : BOOLEAN, paused : BOOLEAN,
            step : {"begin", "files", "record"}]

TypeOK ==
    /\ \A f \in Files : disk[f] \in [version : Nat,
                                     range : [1 .. Ranges[f] -> Levels]]
    /\ property \in BOOLEAN
    /\ receipts \in [Files -> [policy : Policies \cup {"none"}, entry : Entries]]
    /\ db \in [level : Levels, prints : [Files -> Entries]]
    /\ pass \in Passes \cup {NoPass}
    /\ \A i \in DOMAIN events : events[i] \in [policy : Policies, file : Files, entry : Entries]
    /\ service \in BOOLEAN /\ kernel \in {"old", "new"}
    /\ budget \in [passes : Nat, writes : Nat, crashes : Nat]

\* FileEntry::changed_since: the evidence is about another version of the file.
Current(entry, version) == entry.version = version
Spend(kind) == budget[kind] > 0 /\ budget' = [budget EXCEPT ![kind] = @ - 1]

Init ==
    /\ disk = [f \in Files |-> [version |-> 1, range |-> [i \in 1 .. Ranges[f] |-> 0]]]
    /\ property = FALSE
    /\ receipts = [f \in Files |-> NoReceipt]
    /\ db = NoGame
    /\ pass = NoPass /\ events = <<>> /\ service = TRUE
    /\ kernel \in {"old", "new"}
    /\ budget \in Budgets

(***************************************************************************)
(* Starting: what earlier evidence lets the pass leave out, and the        *)
(* evidence that goes before the first rewrite.                            *)
(***************************************************************************)
Versions == [f \in Files |-> disk[f].version]

\* invalidate_receipts: those of other policies, or all of them.
Dropped(kept) == [f \in Files |-> IF receipts[f].policy \in kept THEN receipts[f] ELSE NoReceipt]

NotInvalidated(policy) == db

\* invalidate_compression: the rows stay, without level or fingerprints.
Invalidated(policy) == IF policy = "plain" THEN NoGame ELSE db

Started(who, policy, todo, kept) ==
    [by |-> who, policy |-> policy, walked |-> Versions,
     place |-> [f \in Files |-> IF f \in todo THEN "waiting" ELSE "left"],
     at |-> [f \in Files |-> 0], level |-> [f \in Files |-> 0], kept |-> kept,
     cancel |-> FALSE, paused |-> FALSE, step |-> "begin"]

\* Receipts below the plan's floor are ignored, so that the file is redone.
Usable(policy, receipt) ==
    /\ receipt.policy = policy
    /\ policy # "plain" => receipt.entry.level >= Floor[policy]

WorkerStarts(policy) ==
    LET kept == [f \in Files |-> IF Usable(policy, receipts[f])
                                 THEN receipts[f].entry ELSE None]
        todo == {f \in Files : ~Current(kept[f], disk[f].version)}
    IN /\ pass = NoPass /\ service /\ events = <<>>
       /\ Spend("passes")
       /\ receipts' = Dropped({policy})
       /\ db' = Invalidated(policy)
       \* sampling leaves out files it expects not to shrink, compressions only
       /\ \E unlikely \in IF policy = "plain" THEN {{}} ELSE SUBSET todo :
            pass' = Started("worker", policy, todo \ unlikely, kept)
       /\ UNCHANGED <<disk, property, events, service, kernel>>

\* Db::changed_since: files without a fingerprint, changed, or never compressed.
Changed == {f \in Files : \/ ~Current(db.prints[f], disk[f].version)
                          \/ db.prints[f].level = 0}

\* A command has no pipe: what an earlier worker reported is read when the coordinator
\* comes to it, before the command is done with the file or after.
Overtaken(todo) ==
    [i \in DOMAIN events |-> IF events[i].file \in todo THEN [events[i] EXCEPT !.entry.late = TRUE]
                             ELSE events[i]]

\* The row's level is at least the level asked for; undoing skips nothing.
Reuses(policy) == policy # "plain" /\ db.level >= Ceiling[policy]

CommandStarts(policy) ==
    LET todo == IF Reuses(policy) THEN Changed ELSE Files
    IN /\ pass = NoPass /\ todo # {}
       /\ Spend("passes")
       /\ receipts' = Dropped({}) /\ events' = Overtaken(todo)
       /\ db' = Invalidated(policy)
       /\ pass' = Started("command", policy, todo, [f \in Files |-> None])
       /\ UNCHANGED <<disk, property, service, kernel>>

(***************************************************************************)
(* The files, on two threads at most.                                      *)
(***************************************************************************)
Running  == pass # NoPass
Proceeds == ~pass.cancel /\ ~pass.paused   \* wait_while_busy returns true
Stopped  == pass.cancel                   \* it returns false, also out of a pause
Busy     == {f \in Files : pass.place[f] = "open"}

\* Undoing clears the folder's property before it touches a file.
Begins ==
    /\ Running /\ pass.step = "begin"
    /\ pass.by = "command" \/ Proceeds
    /\ pass' = [pass EXCEPT !.step = "files"]
    /\ property' = (property /\ pass.policy # "plain")
    /\ UNCHANGED <<disk, receipts, db, events, service, kernel, budget>>

Goes(f, place) == pass' = [pass EXCEPT !.place[f] = place, !.at[f] = 0]

Matches(f) == disk[f].version = pass.walked[f]

\* A level per file: "max" takes the higher one where a sample says it pays.
Opens(f) ==
    /\ Running /\ pass.step = "files" /\ pass.place[f] = "waiting"
    /\ Cardinality(Busy) < 2 /\ Proceeds
    /\ \/ ~Matches(f) /\ Goes(f, "failed")
       \/ Matches(f) /\ \E level \in IF pass.policy = "plain" THEN {0}
                                     ELSE {Floor[pass.policy], Ceiling[pass.policy]} :
            pass' = [pass EXCEPT !.place[f] = "open", !.level[f] = level]
    /\ UNCHANGED <<disk, property, receipts, db, events, service, kernel, budget>>

AppliedAsked(level) == level

\* compress_range: an old kernel compresses at its default and says so.
Applied(level) == IF kernel = "old" /\ level > 0 THEN Default ELSE level

\* One range.  After the last the file must still be the one that was walked, and the
\* worker reports it with what was applied.
Rewrites(f) ==
    LET entry == Fresh(pass.walked[f], Applied(pass.level[f]))
    IN /\ Running /\ pass.place[f] = "open"
       /\ \/ /\ Proceeds
             /\ disk' = [disk EXCEPT ![f].range[pass.at[f] + 1] = entry.level]
             /\ \/ /\ pass.at[f] + 1 < Ranges[f]
                   /\ pass' = [pass EXCEPT !.at[f] = @ + 1]
                   /\ UNCHANGED events
                \/ /\ pass.at[f] + 1 = Ranges[f] /\ Matches(f)
                   /\ pass' = [pass EXCEPT !.place[f] = "done", !.at[f] = 0,
                                           !.level[f] = entry.level]
                   /\ events' = IF pass.by # "worker" THEN events
                                ELSE Append(events, [policy |-> pass.policy, file |-> f,
                                                     entry |-> entry])
                \/ /\ pass.at[f] + 1 = Ranges[f] /\ ~Matches(f)
                   /\ Goes(f, "failed") /\ UNCHANGED events
          \/ /\ Stopped                 \* "Stopped between file ranges"
             /\ Goes(f, "failed") /\ UNCHANGED <<disk, events>>
       /\ UNCHANGED <<property, receipts, db, service, kernel, budget>>

Failed == \E f \in Files : pass.place[f] = "failed"

ClaimsAnyway == property \/ pass.policy # "plain"

\* Last, and only when every file of the pass went through.
Claims == property \/ (pass.policy # "plain" /\ ~pass.cancel /\ ~Failed)

RunEnds ==
    /\ Running /\ pass.step = "files" /\ Busy = {}
    /\ Stopped \/ \A f \in Files : pass.place[f] # "waiting"
    /\ property' = Claims
    /\ pass' = [pass EXCEPT !.step = "record"]
    /\ UNCHANGED <<disk, receipts, db, events, service, kernel, budget>>

\* A worker that is cancelled while it samples ends before it touches anything.
StopsEarly ==
    /\ Running /\ pass.step = "begin" /\ pass.by # "command" /\ Stopped
    /\ pass' = NoPass
    /\ UNCHANGED <<disk, property, receipts, db, events, service, kernel, budget>>

(***************************************************************************)
(* The record of a pass, and its end.                                      *)
(***************************************************************************)
Done  == {f \in Files : pass.place[f] = "done"}
Lower(S) == CHOOSE x \in S : \A y \in S : x <= y
Higher(a, b) == IF a < b THEN b ELSE a

\* record_outcome: what this pass finished, what a receipt still vouches for,
\* what is stored for the same version, and otherwise "not attempted".
Recorded(f) ==
    LET walked == pass.walked[f]
    IN IF f \in Done THEN Fresh(walked, pass.level[f])
       ELSE IF Current(pass.kept[f], walked) THEN pass.kept[f]
       ELSE IF Current(db.prints[f], walked) THEN db.prints[f]
       ELSE Fresh(walked, 0)

\* The lowest level of the pass; a command never lowers what is recorded.
Level == LET applied == {pass.level[f] : f \in Done}
         IN IF pass.by = "command"
            THEN Higher(db.level, IF applied = {} THEN Ceiling[pass.policy] ELSE Lower(applied))
            ELSE IF applied = {} THEN 0 ELSE Lower(applied)

Whole == ~pass.cancel /\ ~Failed

Records ==
    /\ Running /\ pass.step = "record"
    /\ db' = IF pass.policy # "plain" THEN [level |-> Level, prints |-> [f \in Files |-> Recorded(f)]]
             ELSE IF pass.by = "command" \/ Whole THEN NoGame ELSE db
    /\ pass' = NoPass
    /\ UNCHANGED <<disk, property, receipts, events, service, kernel, budget>>

(***************************************************************************)
(* The coordinator, the user, the launcher, and deaths.                    *)
(***************************************************************************)
Receives ==
    /\ service /\ events # <<>>
    /\ LET e == Head(events)
       IN receipts' = [receipts EXCEPT ![e.file] = [policy |-> e.policy, entry |-> e.entry]]
    /\ events' = Tail(events)
    /\ UNCHANGED <<disk, property, db, pass, service, kernel, budget>>

Cancels ==
    /\ Running /\ pass.step # "record" /\ ~pass.cancel
    /\ pass.by = "worker" => service
    /\ pass.by # "orphan"
    /\ pass' = [pass EXCEPT !.cancel = TRUE]
    /\ UNCHANGED <<disk, property, receipts, db, events, service, kernel, budget>>

\* Closing the pipe cancels: the coordinator that held its other end is gone.
Orphaned ==
    /\ Running /\ pass.by = "orphan" /\ pass.step # "record" /\ ~pass.cancel
    /\ pass' = [pass EXCEPT !.cancel = TRUE]
    /\ UNCHANGED <<disk, property, receipts, db, events, service, kernel, budget>>

\* The user or a running game; an undo by command never waits for a game.
Pauses ==
    /\ Running /\ pass.step # "record" /\ pass.by # "orphan"
    /\ pass.by = "command" => pass.policy # "plain"
    /\ pass' = [pass EXCEPT !.paused = ~@]
    /\ UNCHANGED <<disk, property, receipts, db, events, service, kernel, budget>>

\* A replaced file is plain, or compressed by what its folder had it inherit.
Replaced(f) ==
    /\ Spend("writes")
    /\ \E level \in {0, Default} :
         disk' = [disk EXCEPT ![f] = [version |-> @.version + 1,
                                      range |-> [i \in 1 .. Ranges[f] |-> level]]]
    /\ UNCHANGED <<property, receipts, db, pass, events, service, kernel>>

Killed ==
    /\ Running /\ Spend("crashes")
    /\ pass' = NoPass
    /\ UNCHANGED <<disk, property, receipts, db, events, service, kernel>>

CoordinatorDies ==
    /\ service /\ Spend("crashes")
    /\ service' = FALSE /\ events' = <<>>
    /\ pass' = IF pass.by = "worker" THEN [pass EXCEPT !.by = "orphan"] ELSE pass
    /\ UNCHANGED <<disk, property, receipts, db, kernel>>

CoordinatorStarts ==
    /\ ~service /\ service' = TRUE
    /\ UNCHANGED <<disk, property, receipts, db, pass, events, kernel, budget>>

Works == \/ Begins \/ StopsEarly \/ RunEnds \/ Records
         \/ \E f \in Files : Opens(f) \/ Rewrites(f)

Next == \/ Works \/ Receives \/ Cancels \/ Orphaned \/ Pauses
        \/ Killed \/ CoordinatorDies \/ CoordinatorStarts
        \/ \E policy \in Policies : WorkerStarts(policy) \/ CommandStarts(policy)
        \/ \E f \in Files : Replaced(f)

\* A process that is not killed gets on with its work and reads its pipes.  Nobody
\* has to resume a pause.
Spec == Init /\ [][Next]_vars /\ WF_vars(Works) /\ WF_vars(Orphaned) /\ WF_vars(Receives)

(***************************************************************************)
(* Properties.                                                             *)
(***************************************************************************)
AtLeast(f, level) == \A i \in 1 .. Ranges[f] : disk[f].range[i] >= level
Plain(f) == \A i \in 1 .. Ranges[f] : disk[f].range[i] = 0

\* A receipt that still matches its file tells the truth about every range of it,
\* whatever pass, cancellation, crash or other policy came between: a pass that skips
\* the file leaves it as the policy wants it.  The one exception is the receipt written
\* from an event that a command overtook: undoing leaves the time and the size of a file,
\* so it matches a file that is plain again.  What is copied from it is as false.
ReceiptsTrue ==
    \A f \in Files :
        Current(receipts[f].entry, disk[f].version) /\ ~receipts[f].entry.late =>
            IF receipts[f].policy = "plain" THEN Plain(f)
            ELSE AtLeast(f, receipts[f].entry.level)

\* A fingerprint that matches its file and carries a level is about a file compressed
\* to its last range.  (Not at that level: an interrupted pass at a lower one may have
\* redone some ranges.)
PrintsTrue ==
    \A f \in Files :
        /\ Current(db.prints[f], disk[f].version) /\ ~db.prints[f].late
        /\ db.prints[f].level > 0
        => AtLeast(f, 1)

\* A pass that ends with no error and no cancellation did what it was asked for: every
\* file that is still the one it walked is plain after an undo, and after a worker's
\* compression at the level of its plan, also where it was skipped for a receipt.
PassComplete ==
    Running /\ pass.step = "record" /\ Whole =>
        \A f \in Files :
            /\ Matches(f)
            /\ f \in Done \/ (Current(pass.kept[f], pass.walked[f]) /\ ~pass.kept[f].late)
            =>
                IF pass.policy = "plain" THEN Plain(f)
                ELSE pass.by # "command" /\ kernel = "new" => AtLeast(f, Floor[pass.policy])

\* Every record of work done, the receipts, the fingerprints and the result of a pass, is
\* true of the bytes on the disk.
RecordsTrue == TypeOK /\ ReceiptsTrue /\ PrintsTrue /\ PassComplete

\* "If the job failed or was cancelled, the directory should not claim to be
\* compressed": the property appears only over files that all went through.
ClaimEarned ==
    [][~property /\ property' =>
        \A f \in Files : /\ pass.place[f] \in {"left", "done"}
                         /\ pass.place[f] = "done" /\ Matches(f) => AtLeast(f, 1)]_vars

\* A cancelled pass ends and frees the lock, paused or not, and so does a worker whose
\* coordinator died.
LockComesFree == Running /\ (pass.cancel \/ pass.by = "orphan") ~> ~Running

\* A pass comes to an end when it must, and the folder claims only what it did.
PassEnds == ClaimEarned /\ LockComesFree

\* What a command relies on when it skips files: an earlier pass ran at its level or a
\* higher one, so a file that has not changed since is compressed at that level.
ReuseReaches ==
    pass = NoPass /\ kernel = "new" =>
        \A policy \in Presets, f \in Files :
            Reuses(policy) /\ f \notin Changed => AtLeast(f, Floor[policy])

================================================================================

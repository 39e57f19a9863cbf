---------------------------- MODULE RewriteProofs -----------------------------
(***************************************************************************)
(* Passes over a game folder: every record of work done is true of the     *)
(* bytes on the disk, and the folder's property is set only over files     *)
(* that all went through, for any number of files and ranges, passes,      *)
(* writes of the launcher and deaths.  What is false is what was copied    *)
(* from an event that a command overtook (`late`).                         *)
(***************************************************************************)
EXTENDS Rewrite, TLAPS

-----------------------------------------------------------------------------
(***************************************************************************)
(* The inductive invariant.                                                *)
(***************************************************************************)

\* What a record of policy says of a file, when it is about the file's version.
RecordTrue(policy, f, entry) ==
    Current(entry, disk[f].version) /\ ~entry.late =>
        IF policy = "plain" THEN Plain(f) ELSE AtLeast(f, entry.level)

\* The disk is a function on the files, the pipe a sequence; no record is newer than its file.
Event == [policy : Policies, file : Files, entry : Entries]
DiskTrue ==
    /\ disk = [f \in Files |-> disk[f]] /\ events \in Seq(Event)
    /\ \A f \in Files : /\ 1 <= disk[f].version
                        /\ receipts[f].entry.version <= disk[f].version
                        /\ db.prints[f].version <= disk[f].version
    /\ \A i \in DOMAIN events : events[i].entry.version <= disk[events[i].file].version

\* An unread event is about a file its pass is done with, or one that the pass leaves out;
\* otherwise a command has overtaken it.
EventsTrue ==
    \A i \in DOMAIN events :
        /\ RecordTrue(events[i].policy, events[i].file, events[i].entry)
        /\ Running /\ ~events[i].entry.late => pass.place[events[i].file] \in {"left", "done"}

\* The level a file is rewritten at, as the plan has it.
Planned(level) ==
    IF pass.policy = "plain" THEN level = 0
    ELSE level \in {Floor[pass.policy], Ceiling[pass.policy]}

\* A file a pass is at work on has no record that the work makes false; its ranges are
\* rewritten up to where the work is; a file it is done with is rewritten to the end.
WorkTrue(f) ==
    /\ 1 <= pass.walked[f] /\ pass.walked[f] <= disk[f].version
    /\ pass.place[f] = "waiting" => pass.at[f] = 0
    /\ /\ pass.place[f] \in {"waiting", "open"} /\ Current(receipts[f].entry, disk[f].version)
       /\ ~receipts[f].entry.late
       => /\ receipts[f].policy = pass.policy /\ pass.policy # "plain"
          /\ receipts[f].entry.level < Floor[pass.policy]
    /\ pass.place[f] = "open" =>
           /\ pass.at[f] < Ranges[f] /\ Planned(pass.level[f])
           /\ Matches(f) =>
                  \A i \in 1 .. pass.at[f] : disk[f].range[i] = Applied(pass.level[f])
    /\ pass.place[f] = "done" =>
           /\ \E level \in Levels : Planned(level) /\ pass.level[f] = Applied(level)
           /\ Matches(f) => \A i \in 1 .. Ranges[f] : disk[f].range[i] = pass.level[f]

\* A file that is left out for its receipt is as the policy wants it.
KeptTrue(f) ==
    Current(pass.kept[f], pass.walked[f]) =>
        /\ pass.place[f] = "left"
        /\ pass.policy # "plain" => Floor[pass.policy] <= pass.kept[f].level
        /\ Matches(f) => RecordTrue(pass.policy, f, pass.kept[f])

PassTrue ==
    Running => /\ \A f \in Files : WorkTrue(f) /\ KeptTrue(f)
               /\ pass.policy = "plain" => \A f \in Files : db.prints[f].level = 0

RewriteInv ==
    TypeOK /\ DiskTrue /\ EventsTrue /\ PassTrue /\ ReceiptsTrue /\ PrintsTrue

\* The invariant holds before the first pass.
LEMMA RewriteInvInit == Init => RewriteInv
<1> SUFFICES ASSUME Init PROVE RewriteInv OBVIOUS
<1> USE RewriteAssumption
<1>1. /\ \A f \in Files : disk[f] = [version |-> 1, range |-> [i \in 1 .. Ranges[f] |-> 0]]
      /\ disk = [f \in Files |-> [version |-> 1, range |-> [i \in 1 .. Ranges[f] |-> 0]]]
      /\ receipts = [f \in Files |-> NoReceipt] /\ db = NoGame /\ pass = NoPass /\ events = <<>>
  BY DEF Init
<1>2. None \in Entries /\ None.version = 0 /\ None.level = 0 BY DEF None, Fresh, Entries, Levels
<1>3. /\ NoReceipt = [policy |-> "none", entry |-> None]
      /\ NoGame = [level |-> 0, prints |-> [f \in Files |-> None]]
  BY DEF NoReceipt, NoGame
<1>4. TypeOK
  <2>1. \A f \in Files : disk[f] \in [version : Nat, range : [1 .. Ranges[f] -> Levels]]
    BY <1>1 DEF Levels
  <2>2. receipts \in [Files -> [policy : Policies \cup {"none"}, entry : Entries]]
    BY <1>1, <1>2, <1>3
  <2>3. db \in [level : Levels, prints : [Files -> Entries]]
    BY <1>1, <1>2, <1>3 DEF Levels
  <2>4. budget \in [passes : Nat, writes : Nat, crashes : Nat] BY DEF Init
  <2>5. property \in BOOLEAN /\ service \in BOOLEAN BY DEF Init
  <2>6. kernel \in {"old", "new"} /\ \A i \in DOMAIN events : FALSE BY DEF Init
  <2> QED BY <1>1, <2>1, <2>2, <2>3, <2>4, <2>5, <2>6 DEF TypeOK
<1>5. DiskTrue BY <1>1, <1>2, <1>3 DEF DiskTrue
<1>6. EventsTrue /\ PassTrue BY <1>1 DEF EventsTrue, PassTrue, Running
<1>7. ReceiptsTrue /\ PrintsTrue BY <1>1, <1>2, <1>3 DEF ReceiptsTrue, PrintsTrue, Current
<1> QED BY <1>4, <1>5, <1>6, <1>7 DEF RewriteInv

\* A bound that is spent stays a number.
LEMMA SpendTypes ==
    ASSUME TypeOK, NEW kind \in {"passes", "writes", "crashes"}, Spend(kind)
    PROVE  budget' \in [passes : Nat, writes : Nat, crashes : Nat]
<1>1. budget \in [passes : Nat, writes : Nat, crashes : Nat] BY DEF TypeOK
<1>2. CASE kind = "passes" BY <1>1, <1>2 DEF Spend
<1>3. CASE kind = "writes" BY <1>1, <1>3 DEF Spend
<1>4. CASE kind = "crashes" BY <1>1, <1>4 DEF Spend
<1> QED BY <1>2, <1>3, <1>4

\* The pass, as far as its files are concerned.
SameWork ==
    /\ pass'.policy = pass.policy /\ pass'.walked = pass.walked /\ pass'.place = pass.place
    /\ pass'.at = pass.at /\ pass'.level = pass.level /\ pass'.kept = pass.kept

\* A step that rewrites nothing and records nothing.
LEMMA QuietKeeps ==
    ASSUME RewriteInv, TypeOK', UNCHANGED <<disk, receipts, db, kernel>>,
           events' = events \/ events' = <<>>,
           \/ pass' = NoPass
           \/ Running /\ SameWork /\ (pass'.by = pass.by \/ events' = <<>>)
    PROVE  RewriteInv'
<1> USE DEF RewriteInv
<1>1. DiskTrue'
  <2>1. <<>> \in Seq(Event) OBVIOUS
  <2>2. CASE events' = events BY <2>2 DEF DiskTrue
  <2>3. CASE events' = <<>> BY <2>1, <2>3 DEF DiskTrue
  <2> QED BY <2>2, <2>3
<1>2. ReceiptsTrue' /\ PrintsTrue' BY DEF ReceiptsTrue, PrintsTrue, Plain, AtLeast
<1>3. EventsTrue'
  <2>1. CASE events' = <<>> BY <2>1 DEF EventsTrue
  <2>2. CASE events' = events BY <2>2 DEF EventsTrue, RecordTrue, Plain, AtLeast, Running, SameWork
  <2> QED BY <2>1, <2>2
<1>4. PassTrue'
  <2>1. CASE pass' = NoPass BY <2>1 DEF PassTrue, Running
  <2>2. CASE Running /\ SameWork
    <3>1. ASSUME NEW f \in Files PROVE WorkTrue(f)' /\ KeptTrue(f)'
      <4>1. WorkTrue(f) /\ KeptTrue(f) BY <2>2 DEF PassTrue
      <4>2. WorkTrue(f)' BY <2>2, <4>1 DEF WorkTrue, SameWork, Planned, Matches, Applied
      <4>3. KeptTrue(f)' BY <2>2, <4>1 DEF KeptTrue, SameWork, Matches, RecordTrue, Plain, AtLeast
      <4> QED BY <4>2, <4>3
    <3> QED BY <3>1, <2>2 DEF PassTrue, SameWork
  <2> QED BY <2>1, <2>2
<1> QED BY <1>1, <1>2, <1>3, <1>4

\* Beginning, ending early, the property, cancelling, pausing, and deaths.
LEMMA StepsQuiet ==
    ASSUME RewriteInv,
           Begins \/ StopsEarly \/ RunEnds \/ Cancels \/ Orphaned \/ Pauses \/ Killed
           \/ CoordinatorDies \/ CoordinatorStarts
    PROVE  RewriteInv'
<1> USE DEF RewriteInv, TypeOK
<1>1. Running => pass \in Passes BY DEF Running
<1>2. ASSUME Begins \/ StopsEarly \/ RunEnds \/ Cancels \/ Orphaned \/ Pauses \/ Killed
             \/ CoordinatorDies \/ CoordinatorStarts
      PROVE  /\ UNCHANGED <<disk, receipts, db, kernel>> /\ (events' = events \/ events' = <<>>)
             /\ budget' \in [passes : Nat, writes : Nat, crashes : Nat]
             /\ service' \in BOOLEAN /\ property' \in BOOLEAN
  <2>1. CASE Killed \/ CoordinatorDies
    <3>1. Spend("crashes") BY <2>1 DEF Killed, CoordinatorDies
    <3>2. budget' \in [passes : Nat, writes : Nat, crashes : Nat] BY <3>1, SpendTypes
    <3> QED BY <2>1, <3>2 DEF Killed, CoordinatorDies
  <2>2. CASE Begins \/ StopsEarly \/ RunEnds \/ Cancels \/ Orphaned \/ Pauses \/ CoordinatorStarts
    BY <2>2 DEF Begins, StopsEarly, RunEnds, Cancels, Orphaned, Pauses, CoordinatorStarts, Claims
  <2> QED BY <1>2, <2>1, <2>2
<1>3. \/ pass' = NoPass
      \/ Running /\ SameWork /\ (pass'.by = pass.by \/ events' = <<>>) /\ pass' \in Passes
  <2>1. CASE StopsEarly \/ Killed BY <2>1 DEF StopsEarly, Killed
  <2>2. CASE Begins BY <1>1, <2>2 DEF Begins, SameWork, Passes
  <2>3. CASE RunEnds BY <1>1, <2>3 DEF RunEnds, SameWork, Passes
  <2>4. CASE Cancels BY <1>1, <2>4 DEF Cancels, SameWork, Passes
  <2>5. CASE Orphaned BY <1>1, <2>5 DEF Orphaned, SameWork, Passes
  <2>6. CASE Pauses BY <1>1, <2>6 DEF Pauses, SameWork, Passes
  <2>7. CASE CoordinatorDies
    <3>1. CASE pass = NoPass BY <2>7, <3>1 DEF CoordinatorDies, NoPass
    <3>2. CASE pass # NoPass BY <1>1, <2>7, <3>2 DEF CoordinatorDies, SameWork, Passes, Running
    <3> QED BY <3>1, <3>2
  <2>8. CASE CoordinatorStarts BY <1>1, <2>8 DEF CoordinatorStarts, SameWork, Running
  <2> QED BY <2>1, <2>2, <2>3, <2>4, <2>5, <2>6, <2>7, <2>8
<1>4. TypeOK' BY <1>2, <1>3
<1> HIDE DEF RewriteInv, TypeOK
<1> QED BY <1>2, <1>3, <1>4, QuietKeeps

-----------------------------------------------------------------------------
(***************************************************************************)
(* Starting a pass.                                                        *)
(***************************************************************************)

\* Overtaking changes of an event only that it is late, and leaves none as it was that is
\* about a file the pass does.
LEMMA OvertakenTrue ==
    ASSUME events \in Seq(Event), NEW todo
    PROVE  LET after == Overtaken(todo)
           IN  /\ after \in Seq(Event) /\ DOMAIN after = DOMAIN events
               /\ \A i \in DOMAIN events :
                    /\ events[i].file \in Files /\ after[i].file = events[i].file
                    /\ after[i].policy = events[i].policy
                    /\ after[i].entry.version = events[i].entry.version
                    /\ after[i].entry.level = events[i].entry.level
                    /\ ~after[i].entry.late => ~events[i].entry.late /\ events[i].file \notin todo
<1>1. \A i \in DOMAIN events : events[i] \in Event OBVIOUS
<1>2. DOMAIN events = 1 .. Len(events) /\ Len(events) \in Nat OBVIOUS
<1>3. ASSUME NEW e \in Event
      PROVE  LET x == [e EXCEPT !.entry.late = TRUE]
             IN  /\ x \in Event /\ x.file = e.file /\ x.policy = e.policy /\ e.file \in Files
                 /\ x.entry.version = e.entry.version /\ x.entry.level = e.entry.level
                 /\ x.entry.late
  <2>1. /\ e = [policy |-> e.policy, file |-> e.file, entry |-> e.entry]
        /\ e.policy \in Policies /\ e.file \in Files /\ e.entry \in Entries
    BY DEF Event
  <2> DEFINE y == [e.entry EXCEPT !.late = TRUE]
  <2>2. y \in Entries /\ y.version = e.entry.version /\ y.level = e.entry.level /\ y.late
    BY <2>1 DEF Entries
  <2> HIDE DEF y
  <2>3. [e EXCEPT !.entry.late = TRUE] = [e EXCEPT !.entry = y] BY DEF y
  <2>4. [e EXCEPT !.entry = y] = [policy |-> e.policy, file |-> e.file, entry |-> y] BY <2>1
  <2> QED BY <2>1, <2>2, <2>3, <2>4 DEF Event
<1> DEFINE after == Overtaken(todo)
<1>4. /\ DOMAIN after = DOMAIN events
      /\ \A i \in DOMAIN events :
           after[i] = IF events[i].file \in todo THEN [events[i] EXCEPT !.entry.late = TRUE]
                      ELSE events[i]
  BY DEF Overtaken
<1>5. \A i \in DOMAIN events : after[i] \in Event BY <1>1, <1>3, <1>4
<1>6. after = [i \in 1 .. Len(events) |-> after[i]] BY <1>2 DEF Overtaken
<1> HIDE DEF after
<1>7. after \in Seq(Event) BY <1>2, <1>5, <1>6
<1>8. ASSUME NEW i \in DOMAIN events
      PROVE  /\ events[i].file \in Files /\ after[i].file = events[i].file
             /\ after[i].policy = events[i].policy
             /\ after[i].entry.version = events[i].entry.version
             /\ after[i].entry.level = events[i].entry.level
             /\ ~after[i].entry.late => ~events[i].entry.late /\ events[i].file \notin todo
  <2>1. events[i] \in Event BY <1>1
  <2>2. CASE events[i].file \in todo
    <3>1. after[i] = [events[i] EXCEPT !.entry.late = TRUE] BY <1>4, <2>2
    <3> QED BY <1>3, <2>1, <3>1
  <2>3. CASE events[i].file \notin todo
    <3>1. after[i] = events[i] BY <1>4, <2>3
    <3> QED BY <2>1, <2>3, <3>1 DEF Event
  <2> QED BY <2>2, <2>3
<1> QED BY <1>4, <1>7, <1>8 DEF after

\* A pass that starts knows what it leaves out, and drops the records its work would
\* make false.
LEMMA NewPassTrue ==
    ASSUME RewriteInv, TypeOK', UNCHANGED <<disk, kernel>>, pass = NoPass,
           NEW who \in {"worker", "command"}, NEW policy \in Policies,
           NEW kept \in [Files -> Entries], NEW todo \in SUBSET Files,
           pass' = Started(who, policy, todo, kept), events' = Overtaken(todo),
           db' = Invalidated(policy),
           \A f \in Files : receipts'[f] \in {receipts[f], NoReceipt},
           \A f \in todo : receipts'[f] # NoReceipt =>
               /\ receipts'[f].policy = policy
               /\ Current(receipts'[f].entry, disk[f].version) =>
                      policy # "plain" /\ receipts'[f].entry.level < Floor[policy],
           \A f \in Files : kept[f] # None =>
               /\ receipts[f].policy = policy /\ kept[f] = receipts[f].entry
               /\ policy # "plain" => Floor[policy] <= kept[f].level
               /\ f \notin todo \/ ~Current(kept[f], disk[f].version)
    PROVE  RewriteInv'
<1> USE DEF RewriteInv
<1>1. /\ pass'.policy = policy /\ pass'.kept = kept /\ pass'.by = who
      /\ pass'.walked = Versions /\ pass'.at = [f \in Files |-> 0]
      /\ pass'.place = [f \in Files |-> IF f \in todo THEN "waiting" ELSE "left"]
  BY DEF Started
<1>2. \A f \in Files :
        /\ pass'.walked[f] = disk[f].version /\ pass'.at[f] = 0
        /\ f \in todo => pass'.place[f] = "waiting"
        /\ f \notin todo => pass'.place[f] = "left"
  BY <1>1 DEF Versions
<1>3. None.version = 0 /\ NoReceipt.entry = None BY DEF None, Fresh, NoReceipt
<1>4. \A f \in Files : 1 <= disk[f].version /\ disk[f].version \in Nat BY DEF DiskTrue, TypeOK
<1>5. \A f \in Files : db'.prints[f] \in {db.prints[f], None}
  BY DEF Invalidated, NoGame
<1>6. policy = "plain" => \A f \in Files : db'.prints[f] = None
  BY DEF Invalidated, NoGame
<1>7. None.level = 0 BY DEF None, Fresh
<1>13. /\ events' \in Seq(Event) /\ DOMAIN events' = DOMAIN events
       /\ \A i \in DOMAIN events :
            /\ events[i].file \in Files /\ events'[i].file = events[i].file
            /\ events'[i].policy = events[i].policy
            /\ events'[i].entry.version = events[i].entry.version
            /\ events'[i].entry.level = events[i].entry.level
            /\ ~events'[i].entry.late => /\ ~events[i].entry.late /\ events[i].file \notin todo
  BY OvertakenTrue DEF DiskTrue
<1>8. DiskTrue'
  <2>1. \A f \in Files : receipts'[f].entry.version <= disk[f].version
    BY <1>3, <1>4 DEF DiskTrue
  <2>2. \A f \in Files : db'.prints[f].version <= disk[f].version
    BY <1>3, <1>4, <1>5 DEF DiskTrue
  <2> QED BY <1>13, <2>1, <2>2 DEF DiskTrue
<1>9. EventsTrue'
  <2> SUFFICES ASSUME NEW i \in DOMAIN events, ~events'[i].entry.late
               PROVE  /\ RecordTrue(events[i].policy, events[i].file, events[i].entry)'
                      /\ pass'.place[events'[i].file] \in {"left", "done"}
    BY <1>13 DEF EventsTrue, RecordTrue
  <2>1. RecordTrue(events[i].policy, events[i].file, events[i].entry) BY DEF EventsTrue
  <2>2. pass'.place[events[i].file] = "left" BY <1>2, <1>13
  <2>3. RecordTrue(events[i].policy, events[i].file, events[i].entry)'
    BY <1>13, <2>1 DEF RecordTrue, Current, Plain, AtLeast
  <2> QED BY <1>13, <2>2, <2>3
<1>10. ReceiptsTrue'
  BY <1>3, <1>4 DEF ReceiptsTrue, Current, Plain, AtLeast
<1>11. PrintsTrue' BY <1>5, <1>7 DEF PrintsTrue, AtLeast
<1>12. PassTrue'
  <2>1. ASSUME NEW f \in Files PROVE WorkTrue(f)'
    <3>1. pass'.place[f] \in {"waiting", "left"} /\ (pass'.place[f] = "waiting" => f \in todo)
      BY <1>2
    <3>2. ~Current(None, disk[f].version) BY <1>3, <1>4 DEF Current
    <3>3. f \in todo /\ Current(receipts'[f].entry, disk[f].version) =>
            /\ receipts'[f].policy = policy /\ policy # "plain"
            /\ receipts'[f].entry.level < Floor[policy]
      BY <1>3, <3>2
    <3> QED BY <1>1, <1>2, <1>4, <3>1, <3>3 DEF WorkTrue
  <2>2. ASSUME NEW f \in Files PROVE KeptTrue(f)'
    <3>1. SUFFICES ASSUME Current(kept[f], disk[f].version)
                   PROVE  /\ pass'.place[f] = "left"
                          /\ policy # "plain" => Floor[policy] <= kept[f].level
                          /\ RecordTrue(policy, f, kept[f])'
      BY <1>1, <1>2 DEF KeptTrue
    <3>2. kept[f] # None BY <1>3, <1>4, <3>1 DEF Current
    <3>3. receipts[f].policy = policy /\ kept[f] = receipts[f].entry /\ f \notin todo BY <3>1, <3>2
    <3>4. RecordTrue(policy, f, kept[f])'
      BY <3>3 DEF RecordTrue, ReceiptsTrue, Plain, AtLeast
    <3> QED BY <1>2, <3>2, <3>3, <3>4
  <2> QED BY <2>1, <2>2, <1>1, <1>6, <1>7 DEF PassTrue
<1> QED BY <1>8, <1>9, <1>10, <1>11, <1>12

\* The pass that Started makes is one.
LEMMA StartedPass ==
    ASSUME TypeOK, NEW who \in {"worker", "command"}, NEW policy \in Policies,
           NEW kept \in [Files -> Entries], NEW todo \in SUBSET Files
    PROVE  Started(who, policy, todo, kept) \in Passes
<1>1. Versions \in [Files -> Nat] BY DEF TypeOK, Versions
<1>2. [f \in Files |-> IF f \in todo THEN "waiting" ELSE "left"] \in [Files -> Places] BY DEF Places
<1>3. [f \in Files |-> 0] \in [Files -> Nat] /\ [f \in Files |-> 0] \in [Files -> Levels]
  BY DEF Levels
<1> QED BY <1>1, <1>2, <1>3 DEF Started, Passes

\* The row of a game, forgotten or kept, is one.
LEMMA InvalidatedTypes ==
    ASSUME TypeOK, NEW policy
    PROVE  Invalidated(policy) \in [level : Levels, prints : [Files -> Entries]]
<1>1. None \in Entries /\ 0 \in Levels BY DEF None, Fresh, Entries, Levels
<1>2. NoGame \in [level : Levels, prints : [Files -> Entries]] BY <1>1 DEF NoGame
<1> QED BY <1>2 DEF Invalidated, TypeOK

\* What is left of the receipts when those of other policies are dropped.
LEMMA DroppedTypes ==
    ASSUME TypeOK, NEW kept
    PROVE  /\ Dropped(kept) \in [Files -> [policy : Policies \cup {"none"}, entry : Entries]]
           /\ \A f \in Files : Dropped(kept)[f] = IF receipts[f].policy \in kept THEN receipts[f]
                                                  ELSE NoReceipt
<1>1. NoReceipt \in [policy : Policies \cup {"none"}, entry : Entries]
  BY DEF None, Fresh, Entries, Levels, NoReceipt
<1> QED BY <1>1 DEF Dropped, TypeOK

\* A worker that starts skips only what a receipt of its own policy vouches for.
LEMMA WorkerKeeps ==
    ASSUME RewriteInv, NEW policy \in Policies, WorkerStarts(policy) PROVE RewriteInv'
<1> DEFINE kept == [f \in Files |-> IF Usable(policy, receipts[f]) THEN receipts[f].entry ELSE None]
           all  == {f \in Files : ~Current(kept[f], disk[f].version)}
<1>1. /\ pass = NoPass /\ service /\ events = <<>> /\ Spend("passes")
      /\ receipts' = Dropped({policy}) /\ db' = Invalidated(policy)
      /\ \E unlikely \in IF policy = "plain" THEN {{}} ELSE SUBSET all :
             pass' = Started("worker", policy, all \ unlikely, kept)
      /\ UNCHANGED <<disk, property, events, service, kernel>>
  BY DEF WorkerStarts
<1>2. PICK todo \in SUBSET all : pass' = Started("worker", policy, todo, kept) BY <1>1
<1>3. TypeOK /\ policy # "none" BY RewriteAssumption DEF RewriteInv, Policies
<1>4. \A f \in Files : receipts[f].entry \in Entries BY <1>3 DEF TypeOK
<1>5. None \in Entries BY DEF None, Fresh, Entries, Levels
<1>6. kept \in [Files -> Entries] BY <1>4, <1>5
<1>7. \A f \in Files : /\ Usable(policy, receipts[f]) => kept[f] = receipts[f].entry
                       /\ kept[f] # None => Usable(policy, receipts[f])
  OBVIOUS
<1>8. \A f \in all : f \in Files /\ ~Current(kept[f], disk[f].version) OBVIOUS
<1>9. all \subseteq Files OBVIOUS
<1> HIDE DEF kept, all
<1>10. TypeOK'
  BY <1>1, <1>2, <1>3, <1>6, <1>9, StartedPass, InvalidatedTypes, DroppedTypes, SpendTypes
     DEF TypeOK
<1>11. \A f \in Files :
         /\ receipts'[f] \in {receipts[f], NoReceipt}
         /\ receipts'[f] # NoReceipt => receipts'[f] = receipts[f] /\ receipts[f].policy = policy
  BY <1>1, <1>3, DroppedTypes
<1>12. ASSUME NEW f \in todo, receipts'[f] # NoReceipt
       PROVE  /\ receipts'[f].policy = policy
              /\ Current(receipts'[f].entry, disk[f].version) =>
                     policy # "plain" /\ receipts'[f].entry.level < Floor[policy]
  <2>1. f \in Files /\ ~Current(kept[f], disk[f].version) BY <1>8
  <2>2. receipts'[f] = receipts[f] /\ receipts[f].policy = policy BY <2>1, <1>11, <1>12
  <2>3. receipts[f].entry.level \in Nat BY <2>1, <1>4 DEF Entries, Levels
  <2>4. policy # "plain" => Floor[policy] \in Nat BY RewriteAssumption DEF Policies, Floor
  <2> QED BY <2>1, <2>2, <2>3, <2>4, <1>7 DEF Usable
<1>13. \A f \in Files : kept[f] # None =>
         /\ receipts[f].policy = policy /\ kept[f] = receipts[f].entry
         /\ policy # "plain" => Floor[policy] <= kept[f].level
         /\ f \notin todo \/ ~Current(kept[f], disk[f].version)
  <2>1. \A f \in Files : receipts[f].entry.level \in Nat BY <1>4 DEF Entries, Levels
  <2>2. policy # "plain" => Floor[policy] \in Nat BY RewriteAssumption DEF Policies, Floor
  <2> QED BY <1>7, <1>8, <2>1, <2>2 DEF Usable
<1>14. events' = Overtaken(todo) BY <1>1 DEF Overtaken
<1>15. todo \in SUBSET Files BY <1>9
<1> QED BY <1>1, <1>2, <1>6, <1>10, <1>11, <1>12, <1>13, <1>14, <1>15, NewPassTrue

\* A command that starts drops every receipt, so none can become false under it.
LEMMA CommandKeeps ==
    ASSUME RewriteInv, NEW policy \in Policies, CommandStarts(policy) PROVE RewriteInv'
<1> DEFINE kept == [f \in Files |-> None]
<1>1. /\ pass = NoPass /\ Spend("passes")
      /\ receipts' = Dropped({}) /\ db' = Invalidated(policy)
      /\ UNCHANGED <<disk, property, service, kernel>>
  BY DEF CommandStarts
<1>2. PICK todo \in SUBSET Files :
        pass' = Started("command", policy, todo, kept) /\ events' = Overtaken(todo)
  BY DEF CommandStarts, Changed
<1>3. TypeOK /\ events \in Seq(Event) BY DEF RewriteInv, DiskTrue
<1>4. None \in Entries BY DEF None, Fresh, Entries, Levels
<1>5. kept \in [Files -> Entries] /\ \A f \in Files : kept[f] = None BY <1>4
<1> HIDE DEF kept
<1>6. \A i \in DOMAIN events' : events'[i] \in [policy : Policies, file : Files, entry : Entries]
  <2>1. \A q \in Seq(Event) : \A i \in DOMAIN q : q[i] \in Event OBVIOUS
  <2> QED BY <1>2, <1>3, <2>1, OvertakenTrue DEF Event
<1>7. TypeOK'
  BY <1>1, <1>2, <1>3, <1>5, <1>6, StartedPass, InvalidatedTypes, DroppedTypes, SpendTypes DEF TypeOK
<1>8. \A f \in Files : receipts'[f] = NoReceipt BY <1>1, <1>3, DroppedTypes
<1> QED BY <1>1, <1>2, <1>5, <1>7, <1>8, NewPassTrue

-----------------------------------------------------------------------------
(***************************************************************************)
(* The files of a pass.                                                    *)
(***************************************************************************)

\* The levels a plan asks for, and the ones that are applied.
LEMMA PlannedLevels ==
    ASSUME TypeOK, Running, NEW level, Planned(level)
    PROVE  /\ level \in Levels /\ Applied(level) \in Levels
           /\ pass.policy # "plain" => /\ 1 <= Applied(level)
                                       /\ Floor[pass.policy] \in Nat
                                       /\ \A l \in Levels : l < Floor[pass.policy] =>
                                                                 l <= Applied(level)
                                       /\ kernel = "new" => Floor[pass.policy] <= Applied(level)
           /\ pass.policy = "plain" => Applied(level) = 0
<1>1. pass.policy \in {"fast", "max", "plain"}
  BY RewriteAssumption DEF Running, TypeOK, Passes, Policies
<1>2. CASE pass.policy = "plain" BY <1>2 DEF Planned, Applied, Levels
<1>3. CASE pass.policy # "plain"
  <2>1. /\ Floor[pass.policy] \in {1, 2} /\ level \in {Floor[pass.policy], Ceiling[pass.policy]}
        /\ Floor[pass.policy] <= level /\ level \in 1 .. 3
    BY <1>1, <1>3 DEF Planned, Floor, Ceiling
  <2>2. CASE kernel = "old"
    <3>1. Applied(level) = 1 BY <2>1, <2>2 DEF Applied, Default
    <3> QED BY <1>3, <2>1, <2>2, <3>1 DEF Levels
  <2>3. CASE kernel # "old"
    <3>1. Applied(level) = level BY <2>3 DEF Applied
    <3> QED BY <1>3, <2>1, <3>1 DEF Levels
  <2> QED BY <2>2, <2>3
<1> QED BY <1>2, <1>3

\* A step that moves one file of the pass from a place to another.
FileMoves(f) ==
    /\ Running /\ pass' \in Passes
    /\ pass'.policy = pass.policy /\ pass'.walked = pass.walked /\ pass'.kept = pass.kept
    /\ pass'.by = pass.by /\ pass'.step = pass.step
    /\ \A g \in Files \ {f} : /\ pass'.place[g] = pass.place[g] /\ pass'.at[g] = pass.at[g]
                              /\ pass'.level[g] = pass.level[g]

\* A file is opened at a level its plan has, or has failed.
LEMMA OpensKeeps == ASSUME RewriteInv, NEW f \in Files, Opens(f) PROVE RewriteInv'
<1> USE DEF RewriteInv
<1>1. /\ Running /\ pass \in Passes /\ pass.place[f] = "waiting"
      /\ UNCHANGED <<disk, property, receipts, db, events, service, kernel, budget>>
  BY DEF Opens, Running, TypeOK
<1>2. /\ FileMoves(f) /\ pass'.place[f] \in {"open", "failed"} /\ pass'.at[f] = 0
      /\ pass'.place[f] = "open" => Planned(pass'.level[f])
  <2>1. CASE Goes(f, "failed") BY <1>1, <2>1 DEF Goes, FileMoves, Passes, Places
  <2>2. ASSUME NEW level \in IF pass.policy = "plain" THEN {0}
                             ELSE {Floor[pass.policy], Ceiling[pass.policy]},
               pass' = [pass EXCEPT !.place[f] = "open", !.level[f] = level]
        PROVE  FileMoves(f) /\ pass'.place[f] = "open" /\ pass'.at[f] = 0 /\ pass'.level[f] = level
    <3>1. level \in Levels BY <1>1, <2>2, PlannedLevels DEF Planned
    <3>2. pass.at[f] = 0 BY <1>1 DEF PassTrue, WorkTrue
    <3> QED BY <1>1, <2>2, <3>1, <3>2 DEF FileMoves, Passes, Places
  <2>3. \/ Goes(f, "failed")
        \/ \E level \in IF pass.policy = "plain" THEN {0}
                        ELSE {Floor[pass.policy], Ceiling[pass.policy]} :
             pass' = [pass EXCEPT !.place[f] = "open", !.level[f] = level]
    BY DEF Opens
  <2>4. CASE Goes(f, "failed")
    <3>1. pass'.place[f] = "failed" /\ pass'.at[f] = 0 BY <1>1, <2>4 DEF Goes, Passes
    <3> QED BY <2>1, <2>4, <3>1
  <2>5. CASE ~Goes(f, "failed")
    <3>1. PICK level \in IF pass.policy = "plain" THEN {0}
                         ELSE {Floor[pass.policy], Ceiling[pass.policy]} :
             pass' = [pass EXCEPT !.place[f] = "open", !.level[f] = level]
      BY <2>3, <2>5
    <3>2. Planned(level) BY <3>1 DEF Planned
    <3> QED BY <2>2, <3>1, <3>2
  <2> QED BY <2>4, <2>5
<1>3. TypeOK' BY <1>1, <1>2 DEF TypeOK, FileMoves
<1>4. DiskTrue' /\ ReceiptsTrue' /\ PrintsTrue'
  BY <1>1 DEF DiskTrue, ReceiptsTrue, PrintsTrue, Plain, AtLeast
<1>5. EventsTrue'
  <2>1. ASSUME NEW i \in DOMAIN events
        PROVE  (~events[i].entry.late => events[i].file # f) /\ events[i].file \in Files
    BY <1>1 DEF EventsTrue, TypeOK
  <2> QED BY <1>1, <1>2, <2>1 DEF EventsTrue, FileMoves, RecordTrue, Plain, AtLeast, Running
<1>6. ASSUME NEW g \in Files PROVE WorkTrue(g)' /\ KeptTrue(g)'
  <2>1. WorkTrue(g) /\ KeptTrue(g) BY <1>1 DEF PassTrue
  <2>2. CASE g # f
    <3>1. /\ pass'.place[g] = pass.place[g] /\ pass'.at[g] = pass.at[g]
          /\ pass'.level[g] = pass.level[g] /\ pass'.walked = pass.walked
          /\ pass'.policy = pass.policy /\ pass'.kept = pass.kept
      BY <1>2, <2>2 DEF FileMoves
    <3>2. WorkTrue(g)' BY <1>1, <2>1, <3>1 DEF WorkTrue, Planned, Matches, Applied
    <3>3. KeptTrue(g)' BY <1>1, <2>1, <3>1 DEF KeptTrue, Matches, RecordTrue, Plain, AtLeast
    <3> QED BY <3>2, <3>3
  <2>3. CASE g = f
    <3>1. pass'.walked = pass.walked /\ pass'.policy = pass.policy /\ pass'.kept = pass.kept
      BY <1>2 DEF FileMoves
    <3>2. KeptTrue(g)' BY <1>1, <2>1, <2>3, <3>1 DEF KeptTrue
    <3>3. Ranges[g] \in Nat \ {0} BY RewriteAssumption DEF Files
    <3>4. Planned(pass'.level[f]) => Planned(pass.level[f])' BY <3>1 DEF Planned
    <3>5. WorkTrue(g)' BY <1>1, <1>2, <2>1, <2>3, <3>1, <3>3, <3>4 DEF WorkTrue
    <3> QED BY <3>2, <3>5
  <2> QED BY <2>2, <2>3
<1>7. PassTrue' BY <1>1, <1>2, <1>6 DEF PassTrue, FileMoves
<1> QED BY <1>3, <1>4, <1>5, <1>7

\* The disk after one range of an open file was rewritten.
LEMMA RangeWritten ==
    ASSUME RewriteInv, NEW f \in Files, Running, pass.place[f] = "open",
           disk' = [disk EXCEPT ![f].range[pass.at[f] + 1] = Applied(pass.level[f])]
    PROVE  /\ \A g \in Files \ {f} : disk'[g] = disk[g]
           /\ disk'[f].version = disk[f].version
           /\ disk' = [g \in Files |-> disk'[g]]
           /\ disk'[f] \in [version : Nat, range : [1 .. Ranges[f] -> Levels]]
           /\ \A i \in 1 .. Ranges[f] : disk'[f].range[i] = IF i = pass.at[f] + 1
                                                            THEN Applied(pass.level[f])
                                                            ELSE disk[f].range[i]
           /\ pass.at[f] + 1 \in 1 .. Ranges[f] /\ Ranges[f] \in Nat /\ pass.at[f] \in Nat
           /\ Applied(pass.level[f]) \in Levels
<1>1. disk[f] \in [version : Nat, range : [1 .. Ranges[f] -> Levels]] BY DEF RewriteInv, TypeOK
<1>2. WorkTrue(f) /\ TypeOK /\ pass \in Passes BY DEF RewriteInv, PassTrue, TypeOK, Running
<1>3. pass.at[f] < Ranges[f] /\ Planned(pass.level[f]) BY <1>2 DEF WorkTrue
<1>4. Ranges[f] \in Nat /\ pass.at[f] \in Nat BY RewriteAssumption, <1>2 DEF Files, Passes
<1>5. pass.at[f] + 1 \in 1 .. Ranges[f] BY <1>3, <1>4
<1>6. Applied(pass.level[f]) \in Levels BY <1>2, <1>3, PlannedLevels
<1> DEFINE r == [disk[f].range EXCEPT ![pass.at[f] + 1] = Applied(pass.level[f])]
<1>7. r \in [1 .. Ranges[f] -> Levels] BY <1>1, <1>5, <1>6
<1>8. \A i \in 1 .. Ranges[f] : r[i] = IF i = pass.at[f] + 1 THEN Applied(pass.level[f])
                                        ELSE disk[f].range[i]
  BY <1>1, <1>5
<1>9. disk = [g \in Files |-> disk[g]] BY DEF RewriteInv, DiskTrue
<1>10. disk' = [disk EXCEPT ![f] = [disk[f] EXCEPT !.range = r]] OBVIOUS
<1> HIDE DEF r
<1>11. disk'[f] = [disk[f] EXCEPT !.range = r] /\ \A g \in Files \ {f} : disk'[g] = disk[g]
  BY <1>9, <1>10
<1>12. disk'[f].version = disk[f].version /\ disk'[f].range = r /\
       disk'[f] \in [version : Nat, range : [1 .. Ranges[f] -> Levels]]
  BY <1>1, <1>7, <1>11
<1>13. disk' = [g \in Files |-> disk'[g]] BY <1>9, <1>10
<1> QED BY <1>4, <1>5, <1>6, <1>8, <1>11, <1>12, <1>13

\* What a record will say of a file after the step.
RecordNext(policy, f, entry) ==
    Current(entry, disk'[f].version) /\ ~entry.late =>
        IF policy = "plain" THEN \A i \in 1 .. Ranges[f] : disk'[f].range[i] = 0
        ELSE \A i \in 1 .. Ranges[f] : disk'[f].range[i] >= entry.level

\* What rewriting a range does to the records: they stay true.
LEMMA RangeKeepsRecords ==
    ASSUME RewriteInv, NEW f \in Files, Running, pass.place[f] = "open",
           disk' = [disk EXCEPT ![f].range[pass.at[f] + 1] = Applied(pass.level[f])],
           UNCHANGED <<receipts, db>>
    PROVE  /\ ReceiptsTrue' /\ PrintsTrue'
           /\ \A g \in Files \ {f} : \A policy, entry :
                  RecordTrue(policy, g, entry) => RecordNext(policy, g, entry)
<1>1. /\ \A g \in Files \ {f} : disk'[g] = disk[g]
      /\ disk'[f].version = disk[f].version
      /\ disk'[f] \in [version : Nat, range : [1 .. Ranges[f] -> Levels]]
      /\ \A i \in 1 .. Ranges[f] : disk'[f].range[i] \in {Applied(pass.level[f]), disk[f].range[i]}
  BY RangeWritten
<1>2. WorkTrue(f) /\ TypeOK /\ ReceiptsTrue /\ PrintsTrue BY DEF RewriteInv, PassTrue
<1>3. Planned(pass.level[f]) BY <1>2 DEF WorkTrue
<1> DEFINE L == Applied(pass.level[f])
<1>4. /\ L \in Levels
      /\ pass.policy # "plain" => 1 <= L /\ \A l \in Levels : l < Floor[pass.policy] => l <= L
  BY <1>2, <1>3, PlannedLevels
<1>5. pass.policy = "plain" => db.prints[f].level = 0 BY DEF RewriteInv, PassTrue
<1>6. disk[f] \in [version : Nat, range : [1 .. Ranges[f] -> Levels]] BY <1>2 DEF TypeOK
<1> HIDE DEF L
<1>7. ASSUME NEW l \in Levels, l <= L, AtLeast(f, l) PROVE AtLeast(f, l)'
  <2>1. \A i \in 1 .. Ranges[f] : disk'[f].range[i] \in {L, disk[f].range[i]} BY <1>1 DEF L
  <2>2. \A i \in 1 .. Ranges[f] : disk[f].range[i] >= l BY <1>7 DEF AtLeast
  <2>3. L >= l BY <1>7, <1>4 DEF Levels
  <2> QED BY <2>1, <2>2, <2>3 DEF AtLeast
<1>8. ASSUME NEW g \in Files \ {f}, NEW policy, NEW entry, RecordTrue(policy, g, entry)
      PROVE  RecordNext(policy, g, entry)
  BY <1>1, <1>8 DEF RecordTrue, RecordNext, Plain, AtLeast
<1>9. ReceiptsTrue'
  <2> SUFFICES ASSUME NEW g \in Files, Current(receipts[g].entry, disk'[g].version),
                      ~receipts[g].entry.late
               PROVE  IF receipts[g].policy = "plain" THEN Plain(g)'
                      ELSE AtLeast(g, receipts[g].entry.level)'
    BY DEF ReceiptsTrue
  <2>1. CASE g # f BY <1>1, <1>2, <2>1 DEF ReceiptsTrue, Plain, AtLeast
  <2>2. CASE g = f
    <3>1. Current(receipts[f].entry, disk[f].version) /\ ~receipts[f].entry.late BY <1>1, <2>2
    <3>2. /\ receipts[f].policy = pass.policy /\ pass.policy # "plain"
          /\ receipts[f].entry.level < Floor[pass.policy]
      BY <1>2, <3>1 DEF WorkTrue
    <3>3. receipts[f].entry.level \in Levels BY <1>2 DEF TypeOK, Entries
    <3>4. receipts[f].entry.level <= L BY <3>2, <3>3, <1>4
    <3>5. AtLeast(f, receipts[f].entry.level) BY <1>2, <3>1, <3>2 DEF ReceiptsTrue
    <3> QED BY <2>2, <3>2, <3>3, <3>4, <3>5, <1>7
  <2> QED BY <2>1, <2>2
<1>10. PrintsTrue'
  <2> SUFFICES ASSUME NEW g \in Files, Current(db.prints[g], disk'[g].version),
                      ~db.prints[g].late, db.prints[g].level > 0
               PROVE  AtLeast(g, 1)'
    BY DEF PrintsTrue
  <2>1. CASE g # f BY <1>1, <1>2, <2>1 DEF PrintsTrue, AtLeast
  <2>2. CASE g = f
    <3>1. AtLeast(f, 1) BY <1>1, <1>2, <2>2 DEF PrintsTrue
    <3>2. pass.policy # "plain" BY <1>5, <2>2
    <3>3. 1 \in Levels BY DEF Levels
    <3> QED BY <2>2, <3>1, <3>2, <3>3, <1>4, <1>7
  <2> QED BY <2>1, <2>2
<1> QED BY <1>8, <1>9, <1>10

\* A file that is open gives its place up, or goes on, with the disk as it is then.
LEMMA WorkGoesOn ==
    ASSUME RewriteInv, TypeOK', NEW f \in Files, pass.place[f] = "open", FileMoves(f),
           UNCHANGED <<receipts, db, kernel>>,
           \/ disk' = disk
           \/ disk' = [disk EXCEPT ![f].range[pass.at[f] + 1] = Applied(pass.level[f])],
           pass'.place[f] # "left", pass'.place[f] # "waiting",
           WorkTrue(f)', events' \in Seq(Event),
           \A i \in DOMAIN events' :
               \/ i \in DOMAIN events /\ events'[i] = events[i]
               \/ /\ events'[i].file = f /\ events'[i].policy = pass.policy
                  /\ pass'.place[f] = "done" /\ events'[i].entry.version = disk[f].version
                  /\ RecordNext(pass.policy, f, events'[i].entry)
    PROVE  RewriteInv'
<1>1. /\ Running /\ pass' # NoPass /\ ReceiptsTrue /\ PrintsTrue /\ DiskTrue /\ TypeOK /\ PassTrue
      /\ EventsTrue
  BY DEF RewriteInv, FileMoves, Passes, NoPass
<1>2. /\ \A g \in Files \ {f} : disk'[g] = disk[g]
      /\ disk'[f].version = disk[f].version /\ disk' = [g \in Files |-> disk'[g]]
  <2>1. CASE disk' = disk BY <2>1, <1>1 DEF DiskTrue
  <2>2. CASE disk' # disk BY <2>2, <1>1, RangeWritten
  <2> QED BY <2>1, <2>2
<1>3. /\ ReceiptsTrue' /\ PrintsTrue'
      /\ \A g \in Files \ {f} : \A policy, entry :
             RecordTrue(policy, g, entry) => RecordNext(policy, g, entry)
  <2>1. CASE disk' = disk
    BY <2>1, <1>1 DEF ReceiptsTrue, PrintsTrue, RecordTrue, RecordNext, Plain, AtLeast
  <2>2. CASE disk' # disk BY <2>2, <1>1, RangeKeepsRecords
  <2> QED BY <2>1, <2>2
<1>4. ASSUME NEW i \in DOMAIN events
      PROVE  events[i].file \in Files /\ (~events[i].entry.late => events[i].file # f)
  BY <1>1 DEF EventsTrue, TypeOK
<1>5. \A g \in Files : disk'[g].version = disk[g].version BY <1>2
<1>6. DiskTrue'
  <2>1. ASSUME NEW i \in DOMAIN events'
        PROVE  events'[i].entry.version <= disk'[events'[i].file].version
    <3>1. CASE i \in DOMAIN events /\ events'[i] = events[i] BY <3>1, <1>1, <1>4, <1>5 DEF DiskTrue
    <3>2. CASE events'[i].file = f /\ events'[i].entry.version = disk[f].version
      <4>1. disk[f].version \in Nat BY <1>1 DEF TypeOK
      <4> QED BY <3>2, <4>1, <1>5
    <3> QED BY <3>1, <3>2
  <2> QED BY <2>1, <1>1, <1>2, <1>5 DEF DiskTrue
<1>7. EventsTrue'
  <2>1. ASSUME NEW i \in DOMAIN events'
        PROVE  /\ RecordNext(events'[i].policy, events'[i].file, events'[i].entry)
               /\ ~events'[i].entry.late => pass'.place[events'[i].file] \in {"left", "done"}
    <3>1. CASE i \in DOMAIN events /\ events'[i] = events[i]
      <4>1. CASE events[i].entry.late BY <3>1, <4>1 DEF RecordNext
      <4>2. CASE ~events[i].entry.late
        <5>1. events[i].file \in Files \ {f} BY <3>1, <4>2, <1>4
        <5>2. /\ RecordTrue(events[i].policy, events[i].file, events[i].entry)
              /\ pass.place[events[i].file] \in {"left", "done"}
          BY <3>1, <4>2, <1>1 DEF EventsTrue
        <5>3. RecordNext(events[i].policy, events[i].file, events[i].entry) BY <5>1, <5>2, <1>3
        <5> QED BY <3>1, <5>1, <5>2, <5>3 DEF FileMoves
      <4> QED BY <4>1, <4>2
    <3>2. CASE ~(i \in DOMAIN events /\ events'[i] = events[i])
      <4>1. /\ events'[i].file = f /\ events'[i].policy = pass.policy
            /\ pass'.place[f] = "done" /\ RecordNext(pass.policy, f, events'[i].entry)
        BY <3>2
      <4> QED BY <4>1
    <3> QED BY <3>1, <3>2
  <2> QED BY <2>1 DEF EventsTrue, RecordTrue, RecordNext, Plain, AtLeast
<1>8. ASSUME NEW g \in Files PROVE WorkTrue(g)' /\ KeptTrue(g)'
  <2>1. WorkTrue(g) /\ KeptTrue(g) BY <1>1 DEF PassTrue
  <2>2. pass'.walked = pass.walked /\ pass'.policy = pass.policy /\ pass'.kept = pass.kept
    BY DEF FileMoves
  <2>3. CASE g # f
    <3>1. /\ pass'.place[g] = pass.place[g] /\ pass'.at[g] = pass.at[g]
          /\ pass'.level[g] = pass.level[g] /\ disk'[g] = disk[g]
      BY <1>2, <2>3 DEF FileMoves
    <3>2. WorkTrue(g)' BY <2>1, <2>2, <3>1 DEF WorkTrue, Planned, Matches, Applied
    <3>3. KeptTrue(g)'
      BY <2>1, <2>2, <3>1 DEF KeptTrue, Matches, RecordTrue, Plain, AtLeast
    <3> QED BY <3>2, <3>3
  <2>4. CASE g = f
    <3>1. ~Current(pass.kept[g], pass.walked[g]) BY <2>1, <2>4 DEF KeptTrue
    <3>2. KeptTrue(g)' BY <2>2, <3>1 DEF KeptTrue, Current
    <3> QED BY <2>4, <3>2
  <2> QED BY <2>3, <2>4
<1>9. PassTrue' BY <1>1, <1>8 DEF PassTrue, FileMoves
<1> QED BY <1>3, <1>6, <1>7, <1>9 DEF RewriteInv

\* One range of a file, its last one with the event that reports it, or its failure.
LEMMA RewritesKeeps == ASSUME RewriteInv, NEW f \in Files, Rewrites(f) PROVE RewriteInv'
<1> DEFINE L == Applied(pass.level[f])
           E == [policy |-> pass.policy, file |-> f,
                 entry |-> Fresh(pass.walked[f], L)]
           written == disk' = [disk EXCEPT ![f].range[pass.at[f] + 1] = Applied(pass.level[f])]
<1>1. /\ Running /\ pass \in Passes /\ pass.place[f] = "open" /\ TypeOK /\ DiskTrue
      /\ WorkTrue(f) /\ UNCHANGED <<property, receipts, db, service, kernel, budget>>
  BY DEF Rewrites, RewriteInv, TypeOK, Running, PassTrue
<1>2. /\ pass.at[f] \in Nat /\ Ranges[f] \in Nat /\ pass.at[f] < Ranges[f]
      /\ Planned(pass.level[f]) /\ L \in Levels /\ pass.walked[f] \in Nat
      /\ pass.walked[f] <= disk[f].version /\ 1 <= pass.walked[f] /\ disk[f].version \in Nat
  BY <1>1, RewriteAssumption, PlannedLevels DEF WorkTrue, Passes, Files, TypeOK
<1>3. E \in Event BY <1>1, <1>2 DEF Event, Entries, Passes, Fresh
<1>4. \/ written /\ pass.at[f] + 1 < Ranges[f]
         /\ pass' = [pass EXCEPT !.at[f] = @ + 1] /\ UNCHANGED events
      \/ written /\ pass.at[f] + 1 = Ranges[f] /\ Matches(f)
         /\ pass' = [pass EXCEPT !.place[f] = "done", !.at[f] = 0, !.level[f] = L]
         /\ events' = IF pass.by # "worker" THEN events ELSE Append(events, E)
      \/ (written \/ disk' = disk) /\ Goes(f, "failed") /\ UNCHANGED events
  BY DEF Rewrites, Fresh
<1>5. /\ written => /\ \A g \in Files \ {f} : disk'[g] = disk[g]
                    /\ disk'[f].version = disk[f].version
                    /\ disk'[f] \in [version : Nat, range : [1 .. Ranges[f] -> Levels]]
                    /\ \A i \in 1 .. Ranges[f] : disk'[f].range[i] = IF i = pass.at[f] + 1 THEN L
                                                                      ELSE disk[f].range[i]
  BY <1>1, RangeWritten
<1>6. /\ disk'[f].version = disk[f].version
      /\ \A g \in Files : disk'[g] \in [version : Nat, range : [1 .. Ranges[g] -> Levels]]
  <2>1. CASE written BY <2>1, <1>1, <1>5 DEF TypeOK
  <2>2. CASE disk' = disk BY <2>2, <1>1 DEF TypeOK
  <2> QED BY <2>1, <2>2, <1>4
<1>7. /\ events \in Seq(Event) /\ Append(events, E) \in Seq(Event)
      /\ \A i \in DOMAIN Append(events, E) :
             \/ i \in DOMAIN events /\ Append(events, E)[i] = events[i]
             \/ Append(events, E)[i] = E
  BY <1>1, <1>3 DEF DiskTrue
<1>8. ASSUME FileMoves(f), events' \in Seq(Event) PROVE TypeOK'
  <2>1. \A s \in Seq(Event) : \A i \in DOMAIN s : s[i] \in Event OBVIOUS
  <2>2. \A i \in DOMAIN events' : events'[i] \in [policy : Policies, file : Files, entry : Entries]
    BY <1>8, <2>1 DEF Event
  <2> QED BY <1>1, <1>6, <1>8, <2>2 DEF TypeOK, FileMoves
<1>9. CASE written /\ pass.at[f] + 1 < Ranges[f]
           /\ pass' = [pass EXCEPT !.at[f] = @ + 1] /\ UNCHANGED events
  <2>1. /\ FileMoves(f) /\ pass'.place[f] = "open" /\ pass'.at[f] = pass.at[f] + 1
        /\ pass'.level[f] = pass.level[f]
        /\ pass'.policy = pass.policy /\ pass'.walked = pass.walked
    BY <1>1, <1>2, <1>9 DEF FileMoves, Passes
  <2>2. Planned(pass.level[f])' /\ Applied(pass.level[f])' = L
    BY <1>1, <1>2, <2>1 DEF Planned, Applied
  <2>3. Matches(f)' => \A i \in 1 .. pass'.at[f] : disk'[f].range[i] = L
    <3>1. Matches(f)' => Matches(f) BY <2>1, <1>6 DEF Matches
    <3>2. Matches(f) => \A i \in 1 .. pass.at[f] : disk[f].range[i] = L BY <1>1 DEF WorkTrue
    <3> QED BY <3>1, <3>2, <2>1, <1>2, <1>5, <1>9
  <2>4. WorkTrue(f)'
    <3> HIDE DEF L, E, written
    <3> QED BY <1>1, <1>2, <1>6, <1>9, <2>1, <2>2, <2>3 DEF WorkTrue
  <2> QED BY <1>1, <1>7, <1>8, <1>9, <2>1, <2>4, WorkGoesOn
<1>10. CASE written /\ pass.at[f] + 1 = Ranges[f] /\ Matches(f)
            /\ pass' = [pass EXCEPT !.place[f] = "done", !.at[f] = 0, !.level[f] = L]
            /\ events' = IF pass.by # "worker" THEN events ELSE Append(events, E)
  <2>1. /\ FileMoves(f) /\ pass'.place[f] = "done" /\ pass'.at[f] = 0 /\ pass'.level[f] = L
        /\ pass'.policy = pass.policy /\ pass'.walked = pass.walked
    <3> HIDE DEF L, E, written
    <3> QED BY <1>1, <1>2, <1>10 DEF FileMoves, Passes, Places
  <2>2. \A i \in 1 .. Ranges[f] : disk'[f].range[i] = L
    <3>1. \A i \in 1 .. pass.at[f] : disk[f].range[i] = L BY <1>1, <1>10 DEF WorkTrue
    <3> QED BY <3>1, <1>2, <1>5, <1>10
  <2>3. Planned(pass.level[f]) /\ pass.level[f] \in Levels /\ L = Applied(pass.level[f])
    BY <1>1, <1>2 DEF Passes
  <2>4. WorkTrue(f)'
    <3>1. \E level \in Levels : Planned(level)' /\ L = Applied(level)'
      <4>1. Planned(pass.level[f]) => (pass'.policy = pass.policy => 
               (IF pass'.policy = "plain" THEN pass.level[f] = 0
                ELSE pass.level[f] \in {Floor[pass'.policy], Ceiling[pass'.policy]}))
        BY DEF Planned
      <4> QED BY <1>1, <2>1, <2>3, <4>1 DEF Planned, Applied
    <3> HIDE DEF L, E, written
    <3> QED BY <1>1, <1>2, <1>6, <2>1, <2>2, <3>1 DEF WorkTrue
  <2>5. RecordNext(pass.policy, f, E.entry)
    <3>1. /\ pass.policy = "plain" => L = 0
          /\ L \in Nat
      BY <1>1, <1>2, PlannedLevels DEF Levels
    <3>2. E.entry.level = L BY DEF Fresh
    <3> HIDE DEF L, E
    <3> QED BY <2>2, <3>1, <3>2 DEF RecordNext
  <2>6. /\ E.file = f /\ E.policy = pass.policy /\ E.entry.version = disk[f].version
    BY <1>10 DEF Matches, Fresh
  <2>7. /\ events' \in Seq(Event)
        /\ \A i \in DOMAIN events' :
             \/ i \in DOMAIN events /\ events'[i] = events[i]
             \/ events'[i] = E
    <3> HIDE DEF L, E, written
    <3>1. CASE pass.by = "worker" BY <3>1, <1>7, <1>10
    <3>2. CASE pass.by # "worker" BY <3>2, <1>7, <1>10
    <3> QED BY <3>1, <3>2
  <2>8. TypeOK' BY <1>8, <2>1, <2>7
  <2> HIDE DEF E, L
  <2> QED BY <1>1, <1>10, <2>1, <2>4, <2>5, <2>6, <2>7, <2>8, WorkGoesOn
<1>11. CASE (written \/ disk' = disk) /\ Goes(f, "failed") /\ UNCHANGED events
  <2>1. /\ FileMoves(f) /\ pass'.place[f] = "failed" /\ pass'.at[f] = 0
        /\ pass'.policy = pass.policy /\ pass'.walked = pass.walked
    BY <1>1, <1>11 DEF FileMoves, Passes, Places, Goes
  <2>2. WorkTrue(f)'
    <3> HIDE DEF L, E, written
    <3> QED BY <1>1, <1>2, <1>6, <2>1 DEF WorkTrue
  <2> QED BY <1>1, <1>7, <1>8, <1>11, <2>1, <2>2, WorkGoesOn
<1> QED BY <1>4, <1>9, <1>10, <1>11

-----------------------------------------------------------------------------
(***************************************************************************)
(* The record of a pass, the receipts, and the launcher.                   *)
(***************************************************************************)

\* The lowest of the levels a pass applied is one of them.
LEMMA LowerLevel ==
    ASSUME NEW S \in SUBSET Levels, S # {}
    PROVE  Lower(S) \in S
<1>1. \E x \in S : \A y \in S : x <= y
  <2> DEFINE Least(x) == \A y \in S : x <= y
  <2>0. \A y \in S : y = 0 \/ y = 1 \/ y = 2 \/ y = 3 BY DEF Levels
  <2>1. CASE 0 \in S
    <3>1. Least(0) BY <2>0
    <3> QED BY <2>1, <3>1
  <2>2. CASE 0 \notin S /\ 1 \in S
    <3>1. Least(1) BY <2>0, <2>2
    <3> QED BY <2>2, <3>1
  <2>3. CASE 0 \notin S /\ 1 \notin S /\ 2 \in S
    <3>1. Least(2) BY <2>0, <2>3
    <3> QED BY <2>3, <3>1
  <2>4. CASE 0 \notin S /\ 1 \notin S /\ 2 \notin S
    <3>1. PICK x \in S : TRUE OBVIOUS
    <3>2. x = 3 /\ Least(3) BY <2>0, <2>4
    <3> QED BY <3>1, <3>2
  <2> QED BY <2>1, <2>2, <2>3, <2>4
<1> QED BY <1>1 DEF Lower

\* A file at a level is at every lower one.
LEMMA AtLeastLess ==
    ASSUME TypeOK, NEW f \in Files, NEW a \in Nat, NEW b \in Nat, a <= b, AtLeast(f, b)
    PROVE  AtLeast(f, a)
<1> SUFFICES ASSUME NEW i \in 1 .. Ranges[f] PROVE disk[f].range[i] >= a BY DEF AtLeast
<1>1. disk[f] \in [version : Nat, range : [1 .. Ranges[f] -> Levels]] BY DEF TypeOK
<1>2. disk[f].range[i] \in Levels BY <1>1
<1>3. disk[f].range[i] >= b BY DEF AtLeast
<1> QED BY <1>2, <1>3 DEF Levels

\* What the record of a compression says of a file is true of the disk.
LEMMA RecordedTrue ==
    ASSUME RewriteInv, Running, pass.policy # "plain", NEW f \in Files
    PROVE  /\ Recorded(f) \in Entries
           /\ Recorded(f).version <= disk[f].version
           /\ /\ Current(Recorded(f), disk[f].version) /\ ~Recorded(f).late
              /\ Recorded(f).level > 0
              => AtLeast(f, 1)
<1>1. /\ TypeOK /\ DiskTrue /\ PrintsTrue /\ pass \in Passes /\ WorkTrue(f) /\ KeptTrue(f)
  BY DEF RewriteInv, PassTrue, Running, TypeOK
<1>2. /\ pass.walked[f] \in Nat /\ pass.walked[f] <= disk[f].version /\ disk[f].version \in Nat
      /\ pass.level[f] \in Levels /\ pass.kept[f] \in Entries /\ db.prints[f] \in Entries
      /\ db.prints[f].version <= disk[f].version
      /\ disk[f].range \in [1 .. Ranges[f] -> Levels]
  BY <1>1 DEF WorkTrue, Passes, TypeOK, DiskTrue
<1>3. pass.policy \in {"fast", "max"} /\ Floor[pass.policy] \in {1, 2}
  <2>1. pass.policy \in {"fast", "max"} BY <1>1, RewriteAssumption DEF Passes, Policies
  <2> QED BY <2>1 DEF Floor
<1>4. CASE f \in Done
  <2>1. Recorded(f) = [version |-> pass.walked[f], level |-> pass.level[f], late |-> FALSE]
    BY <1>4 DEF Recorded, Fresh
  <2>2. PICK level \in Levels : Planned(level) /\ pass.level[f] = Applied(level)
    BY <1>1, <1>4 DEF WorkTrue, Done
  <2>3. 1 <= pass.level[f] BY <1>1, <2>2, PlannedLevels
  <2>4. Matches(f) => \A i \in 1 .. Ranges[f] : disk[f].range[i] = pass.level[f]
    BY <1>1, <1>4 DEF WorkTrue, Done
  <2>5. Matches(f) => AtLeast(f, 1)
    BY <2>3, <2>4, <1>2 DEF AtLeast, Levels
  <2> QED BY <1>2, <2>1, <2>5 DEF Entries, Current, Matches
<1>5. CASE f \notin Done /\ Current(pass.kept[f], pass.walked[f])
  <2>1. Recorded(f) = pass.kept[f] BY <1>5 DEF Recorded
  <2>2. Floor[pass.policy] <= pass.kept[f].level BY <1>1, <1>5 DEF KeptTrue
  <2>3. Matches(f) /\ ~pass.kept[f].late => AtLeast(f, pass.kept[f].level)
    BY <1>1, <1>5 DEF KeptTrue, RecordTrue, Matches, Current
  <2>4. pass.kept[f].version = pass.walked[f] /\ pass.kept[f].level \in Levels
    BY <1>2, <1>5 DEF Current, Entries
  <2>5. 1 <= pass.kept[f].level BY <2>2, <2>4, <1>3 DEF Levels
  <2>6. Matches(f) /\ ~pass.kept[f].late => AtLeast(f, 1)
    <3>1. pass.kept[f].level \in Nat BY <2>4 DEF Levels
    <3> QED BY <2>3, <2>5, <3>1, <1>1, AtLeastLess
  <2> QED BY <1>2, <2>1, <2>4, <2>6 DEF Current, Matches
<1>6. CASE f \notin Done /\ ~Current(pass.kept[f], pass.walked[f])
           /\ Current(db.prints[f], pass.walked[f])
  <2>1. Recorded(f) = db.prints[f] BY <1>6 DEF Recorded
  <2> QED BY <1>1, <1>2, <2>1 DEF PrintsTrue
<1>7. CASE f \notin Done /\ ~Current(pass.kept[f], pass.walked[f])
           /\ ~Current(db.prints[f], pass.walked[f])
  <2>1. Recorded(f) = [version |-> pass.walked[f], level |-> 0, late |-> FALSE]
    BY <1>7 DEF Recorded, Fresh
  <2> QED BY <1>2, <2>1 DEF Entries, Levels
<1> QED BY <1>4, <1>5, <1>6, <1>7

\* The record at the end of a pass is true of the files.
LEMMA RecordsKeeps == ASSUME RewriteInv, Records PROVE RewriteInv'
<1>1. /\ Running /\ pass \in Passes /\ TypeOK /\ pass' = NoPass
      /\ UNCHANGED <<disk, property, receipts, events, service, kernel, budget>>
      /\ db' = IF pass.policy # "plain"
               THEN [level |-> Level, prints |-> [f \in Files |-> Recorded(f)]]
               ELSE IF pass.by = "command" \/ Whole THEN NoGame ELSE db
  BY DEF Records, RewriteInv, TypeOK, Running
<1>2. None \in Entries /\ None.version = 0 /\ None.level = 0 BY DEF None, Fresh, Entries, Levels
<1>3. db' \in [level : Levels, prints : [Files -> Entries]]
  <2>1. CASE pass.policy # "plain"
    <3>1. {pass.level[f] : f \in Done} \in SUBSET Levels BY <1>1 DEF Passes, Done
    <3>2. Ceiling[pass.policy] \in Levels /\ 0 \in Levels /\ db.level \in Levels
      <4>1. pass.policy \in {"fast", "max"}
        BY <1>1, <2>1, RewriteAssumption DEF Passes, Policies
      <4>2. db.level \in Levels BY <1>1 DEF TypeOK
      <4> QED BY <4>1, <4>2 DEF Ceiling, Levels
    <3>3. \A a, b \in Levels : Higher(a, b) \in Levels BY DEF Higher
    <3>4. Level \in Levels BY <3>1, <3>2, <3>3, LowerLevel DEF Level
    <3>5. [f \in Files |-> Recorded(f)] \in [Files -> Entries] BY <1>1, <2>1, RecordedTrue
    <3> QED BY <1>1, <2>1, <3>4, <3>5
  <2>2. CASE pass.policy = "plain" BY <1>1, <1>2, <2>2 DEF NoGame, Levels, TypeOK
  <2> QED BY <2>1, <2>2
<1>4. \A f \in Files :
        /\ db'.prints[f].version <= disk[f].version
        /\ /\ Current(db'.prints[f], disk[f].version) /\ ~db'.prints[f].late
           /\ db'.prints[f].level > 0
           => AtLeast(f, 1)
  <2>1. CASE pass.policy # "plain"
    <3>1. \A f \in Files : db'.prints[f] = Recorded(f) BY <1>1, <2>1
    <3> QED BY <1>1, <2>1, <3>1, RecordedTrue
  <2>2. CASE db' = NoGame
    <3>1. \A f \in Files : db'.prints[f] = None BY <2>2 DEF NoGame
    <3> QED BY <1>1, <1>2, <3>1 DEF TypeOK
  <2>3. CASE db' = db BY <2>3 DEF RewriteInv, DiskTrue, PrintsTrue
  <2> QED BY <1>1, <2>1, <2>2, <2>3
<1>5. TypeOK' BY <1>1, <1>3 DEF TypeOK
<1>6. DiskTrue' BY <1>1, <1>4 DEF DiskTrue, RewriteInv
<1>7. EventsTrue'
  BY <1>1 DEF EventsTrue, RewriteInv, RecordTrue, Plain, AtLeast, Running
<1>8. PassTrue' BY <1>1 DEF PassTrue, Running
<1>9. ReceiptsTrue' BY <1>1 DEF ReceiptsTrue, RewriteInv, Plain, AtLeast
<1>10. PrintsTrue' BY <1>1, <1>4 DEF PrintsTrue, AtLeast
<1> QED BY <1>5, <1>6, <1>7, <1>8, <1>9, <1>10 DEF RewriteInv

\* The coordinator reads an event: a receipt about a file that its pass is done with.
LEMMA ReceivesKeeps == ASSUME RewriteInv, Receives PROVE RewriteInv'
<1> DEFINE e == Head(events)
<1>1. /\ events # <<>> /\ events' = Tail(events)
      /\ receipts' = [receipts EXCEPT ![e.file] = [policy |-> e.policy, entry |-> e.entry]]
      /\ UNCHANGED <<disk, property, db, pass, service, kernel, budget>>
      /\ TypeOK /\ DiskTrue /\ EventsTrue /\ PassTrue /\ ReceiptsTrue /\ PrintsTrue
  BY DEF Receives, RewriteInv
<1>2. \A s \in Seq(Event) : s # <<>> =>
        /\ 1 \in DOMAIN s /\ Head(s) = s[1] /\ Tail(s) \in Seq(Event)
        /\ \A i \in DOMAIN Tail(s) : i + 1 \in DOMAIN s /\ Tail(s)[i] = s[i + 1]
        /\ \A i \in DOMAIN s : s[i] \in Event
  OBVIOUS
<1>3. events \in Seq(Event) BY <1>1 DEF DiskTrue
<1>4. /\ e = events[1] /\ 1 \in DOMAIN events /\ e \in Event /\ events' \in Seq(Event)
      /\ \A i \in DOMAIN events' : /\ i + 1 \in DOMAIN events /\ events'[i] = events[i + 1]
                                   /\ events'[i] \in Event
  BY <1>1, <1>2, <1>3
<1> HIDE DEF e
<1>5. /\ e.file \in Files /\ e.policy \in Policies /\ e.entry \in Entries BY <1>4 DEF Event
<1>6. /\ receipts'[e.file] = [policy |-> e.policy, entry |-> e.entry]
      /\ \A f \in Files \ {e.file} : receipts'[f] = receipts[f]
      /\ receipts' \in [Files -> [policy : Policies \cup {"none"}, entry : Entries]]
  BY <1>1, <1>5 DEF TypeOK
<1>7. /\ RecordTrue(e.policy, e.file, e.entry) /\ e.entry.version <= disk[e.file].version
      /\ Running /\ ~e.entry.late => pass.place[e.file] \in {"left", "done"}
  BY <1>1, <1>4 DEF EventsTrue, DiskTrue
<1>8. TypeOK'
  <2>1. \A i \in DOMAIN events' : events'[i] \in [policy : Policies, file : Files, entry : Entries]
    BY <1>4 DEF Event
  <2> QED BY <1>1, <1>6, <2>1 DEF TypeOK
<1>9. DiskTrue'
  <2>1. \A f \in Files : receipts'[f].entry.version <= disk[f].version
    BY <1>1, <1>5, <1>6, <1>7 DEF DiskTrue
  <2> QED BY <1>1, <1>4, <2>1 DEF DiskTrue
<1>10. EventsTrue'
  BY <1>1, <1>4 DEF EventsTrue, RecordTrue, Plain, AtLeast, Running
<1>11. ReceiptsTrue'
  BY <1>1, <1>5, <1>6, <1>7 DEF ReceiptsTrue, RecordTrue, Plain, AtLeast
<1>12. PrintsTrue' BY <1>1 DEF PrintsTrue, AtLeast
<1>13. PassTrue'
  <2>1. ASSUME NEW f \in Files, Running PROVE WorkTrue(f)' /\ KeptTrue(f)'
    <3>1. WorkTrue(f) /\ KeptTrue(f) BY <1>1, <2>1 DEF PassTrue
    <3>2. KeptTrue(f)' BY <1>1, <3>1 DEF KeptTrue, Matches, RecordTrue, Plain, AtLeast
    <3>3. \/ receipts'[f] = receipts[f] \/ receipts'[f].entry.late
          \/ pass.place[f] \in {"left", "done"}
      BY <1>6, <1>7, <2>1
    <3>4. WorkTrue(f)'
      <4>1. CASE receipts'[f] = receipts[f]
        BY <1>1, <3>1, <4>1 DEF WorkTrue, Planned, Matches, Applied
      <4>2. CASE receipts'[f].entry.late \/ pass.place[f] \in {"left", "done"}
        BY <1>1, <3>1, <4>2 DEF WorkTrue, Planned, Matches, Applied
      <4> QED BY <3>3, <4>1, <4>2
    <3> QED BY <3>2, <3>4
  <2> QED BY <1>1, <2>1 DEF PassTrue, Running
<1> QED BY <1>8, <1>9, <1>10, <1>11, <1>12, <1>13 DEF RewriteInv

\* The launcher replaces a file: what was recorded of it is about another version.
LEMMA ReplacedKeeps == ASSUME RewriteInv, NEW f \in Files, Replaced(f) PROVE RewriteInv'
<1>1. /\ Spend("writes") /\ UNCHANGED <<property, receipts, db, pass, events, service, kernel>>
      /\ TypeOK /\ DiskTrue /\ EventsTrue /\ PassTrue /\ ReceiptsTrue /\ PrintsTrue
  BY DEF Replaced, RewriteInv
<1>2. PICK level \in {0, Default} :
         disk' = [disk EXCEPT ![f] = [version |-> @.version + 1,
                                      range |-> [i \in 1 .. Ranges[f] |-> level]]]
  BY DEF Replaced
<1>3. level \in Levels BY DEF Levels, Default
<1>4. disk = [g \in Files |-> disk[g]] /\ disk[f].version \in Nat BY <1>1 DEF DiskTrue, TypeOK
<1>5. /\ disk'[f] = [version |-> disk[f].version + 1, range |-> [i \in 1 .. Ranges[f] |-> level]]
      /\ \A g \in Files \ {f} : disk'[g] = disk[g]
      /\ disk' = [g \in Files |-> disk'[g]]
  BY <1>2, <1>4
<1>6. /\ disk'[f].version = disk[f].version + 1
      /\ disk'[f] \in [version : Nat, range : [1 .. Ranges[f] -> Levels]]
  BY <1>3, <1>4, <1>5
<1>7. TypeOK'
  <2>1. budget' \in [passes : Nat, writes : Nat, crashes : Nat] BY <1>1, SpendTypes
  <2> QED BY <1>1, <1>5, <1>6, <2>1 DEF TypeOK
<1>8. \A g \in Files : disk[g].version \in Nat /\ db.prints[g].version \in Nat
                        /\ receipts[g].entry.version \in Nat
  BY <1>1 DEF TypeOK, Entries
<1>9. \A i \in DOMAIN events : events[i].file \in Files /\ events[i].entry.version \in Nat
  BY <1>1 DEF TypeOK, Entries
<1>10. DiskTrue'
  <2>1. \A g \in Files : disk[g].version <= disk'[g].version /\ disk'[g].version \in Nat
    BY <1>4, <1>5, <1>6, <1>8
  <2>2. \A g \in Files : 1 <= disk'[g].version /\ receipts[g].entry.version <= disk'[g].version
                         /\ db.prints[g].version <= disk'[g].version
    BY <1>1, <1>8, <2>1 DEF DiskTrue
  <2>3. ASSUME NEW i \in DOMAIN events
        PROVE  events[i].entry.version <= disk'[events[i].file].version
    <3>1. events[i].entry.version <= disk[events[i].file].version BY <1>1 DEF DiskTrue
    <3> QED BY <1>8, <1>9, <2>1, <3>1
  <2> QED BY <1>1, <1>5, <2>2, <2>3 DEF DiskTrue
<1>11. ASSUME NEW entry, entry.version \in Nat, entry.version <= disk[f].version
       PROVE  ~Current(entry, disk'[f].version)
  BY <1>4, <1>6, <1>11 DEF Current
<1>12. EventsTrue'
  <2>1. ASSUME NEW i \in DOMAIN events
        PROVE  RecordNext(events[i].policy, events[i].file, events[i].entry)
    <3>1. CASE events[i].file = f BY <1>1, <1>9, <1>11, <3>1 DEF RecordNext, DiskTrue
    <3>2. CASE events[i].file # f
      BY <1>1, <1>5, <1>9, <3>2 DEF RecordNext, RecordTrue, EventsTrue, Plain, AtLeast
    <3> QED BY <3>1, <3>2
  <2> QED BY <1>1, <2>1 DEF EventsTrue, RecordNext, RecordTrue, Plain, AtLeast, Running
<1>13. ReceiptsTrue'
  <2>1. ~Current(receipts[f].entry, disk'[f].version) BY <1>1, <1>8, <1>11 DEF DiskTrue
  <2> QED BY <1>1, <1>5, <2>1 DEF ReceiptsTrue, Plain, AtLeast
<1>14. PrintsTrue'
  <2>1. ~Current(db.prints[f], disk'[f].version) BY <1>1, <1>8, <1>11 DEF DiskTrue
  <2> QED BY <1>1, <1>5, <2>1 DEF PrintsTrue, AtLeast
<1>15. ASSUME Running, NEW g \in Files PROVE WorkTrue(g)' /\ KeptTrue(g)'
  <2>1. WorkTrue(g) /\ KeptTrue(g) /\ pass \in Passes
    BY <1>1, <1>15 DEF PassTrue, Running, TypeOK
  <2>2. CASE g # f
    BY <1>1, <1>5, <2>1, <2>2
       DEF WorkTrue, KeptTrue, Planned, Matches, Applied, RecordTrue, Plain, AtLeast
  <2>3. CASE g = f
    <3>1. pass.walked[f] <= disk[f].version /\ pass.walked[f] \in Nat
      BY <2>1, <2>3 DEF WorkTrue, Passes
    <3>2. ~Matches(f)' /\ pass.walked[f] <= disk'[f].version
      BY <1>1, <1>4, <1>6, <3>1 DEF Matches
    <3>3. ~Current(receipts[f].entry, disk'[f].version) BY <1>1, <1>8, <1>11 DEF DiskTrue
    <3>4. KeptTrue(f)' BY <1>1, <2>1, <2>3, <3>2 DEF KeptTrue
    <3>5. WorkTrue(f)'
      BY <1>1, <2>1, <2>3, <3>2, <3>3 DEF WorkTrue, Planned, Applied
    <3> QED BY <2>3, <3>4, <3>5
  <2> QED BY <2>2, <2>3
<1>16. PassTrue' BY <1>1, <1>15 DEF PassTrue, Running
<1> QED BY <1>7, <1>10, <1>12, <1>13, <1>14, <1>16 DEF RewriteInv

-----------------------------------------------------------------------------
(***************************************************************************)
(* The theorems.                                                           *)
(***************************************************************************)

\* Every step of the system keeps the invariant.
LEMMA RewriteStep == ASSUME RewriteInv, [Next]_vars PROVE RewriteInv'
<1>1. CASE UNCHANGED vars
  <2> USE <1>1 DEF vars
  <2>1. TypeOK' BY DEF RewriteInv, TypeOK
  <2>2. CASE Running BY <2>1, <2>2, QuietKeeps DEF SameWork
  <2>3. CASE ~Running BY <2>1, <2>3, QuietKeeps DEF Running
  <2> QED BY <2>2, <2>3
<1>2. CASE Begins \/ StopsEarly \/ RunEnds \/ Cancels \/ Orphaned \/ Pauses \/ Killed
           \/ CoordinatorDies \/ CoordinatorStarts
  BY <1>2, StepsQuiet
<1>3. CASE Records BY <1>3, RecordsKeeps
<1>4. CASE Receives BY <1>4, ReceivesKeeps
<1>5. ASSUME NEW f \in Files, Opens(f) \/ Rewrites(f) \/ Replaced(f) PROVE RewriteInv'
  BY <1>5, OpensKeeps, RewritesKeeps, ReplacedKeeps
<1>6. ASSUME NEW policy \in Policies, WorkerStarts(policy) \/ CommandStarts(policy)
      PROVE  RewriteInv'
  BY <1>6, WorkerKeeps, CommandKeeps
<1> QED BY <1>1, <1>2, <1>3, <1>4, <1>5, <1>6 DEF Next, Works

\* The invariant says what the run checks.
LEMMA RewriteInvTrue == RewriteInv => RecordsTrue
<1> SUFFICES ASSUME RewriteInv PROVE RecordsTrue OBVIOUS
<1>1. TypeOK /\ ReceiptsTrue /\ PrintsTrue BY DEF RewriteInv
<1>2. ASSUME Running, NEW f \in Files, Matches(f),
             f \in Done \/ (Current(pass.kept[f], pass.walked[f]) /\ ~pass.kept[f].late)
      PROVE  IF pass.policy = "plain" THEN Plain(f)
             ELSE kernel = "new" => AtLeast(f, Floor[pass.policy])
  <2>1. WorkTrue(f) /\ KeptTrue(f) /\ pass \in Passes
    BY <1>1, <1>2 DEF RewriteInv, PassTrue, TypeOK, Running
  <2>2. pass.policy # "plain" => Floor[pass.policy] \in Nat
    <3>1. pass.policy \in {"fast", "max", "plain"}
      BY <2>1, RewriteAssumption DEF Passes, Policies
    <3> QED BY <3>1 DEF Floor
  <2>3. CASE f \in Done
    <3>1. PICK level \in Levels : Planned(level) /\ pass.level[f] = Applied(level)
      BY <2>1, <2>3 DEF WorkTrue, Done
    <3>2. \A i \in 1 .. Ranges[f] : disk[f].range[i] = pass.level[f]
      BY <2>1, <2>3, <1>2 DEF WorkTrue, Done
    <3>3. /\ pass.policy = "plain" => pass.level[f] = 0
          /\ pass.policy # "plain" /\ kernel = "new" => Floor[pass.policy] <= pass.level[f]
      BY <1>1, <1>2, <3>1, PlannedLevels
    <3>4. pass.level[f] \in Nat BY <2>1 DEF Passes, Levels
    <3> QED BY <2>2, <3>2, <3>3, <3>4 DEF Plain, AtLeast
  <2>4. CASE Current(pass.kept[f], pass.walked[f]) /\ ~pass.kept[f].late
    <3>1. /\ pass.policy # "plain" => Floor[pass.policy] <= pass.kept[f].level
          /\ RecordTrue(pass.policy, f, pass.kept[f])
      BY <2>1, <2>4, <1>2 DEF KeptTrue
    <3>2. Current(pass.kept[f], disk[f].version) BY <2>4, <1>2 DEF Current, Matches
    <3>3. pass.kept[f].level \in Nat BY <2>1 DEF Passes, Entries, Levels
    <3>4. IF pass.policy = "plain" THEN Plain(f) ELSE AtLeast(f, pass.kept[f].level)
      BY <2>4, <3>1, <3>2 DEF RecordTrue
    <3> QED BY <1>1, <2>2, <3>1, <3>3, <3>4, AtLeastLess
  <2> QED BY <1>2, <2>3, <2>4
<1> QED BY <1>1, <1>2 DEF RecordsTrue, PassComplete

\* Receipts, fingerprints and the result of a pass are true of the bytes on the disk at
\* every moment: whatever pass, write of the launcher, cancellation or death came between,
\* a file that a later pass skips is as its record says.  Excepted is the record that comes
\* from an event which was unread when a command took the lock to do that file again.
THEOREM RecordsTrueEver == Spec => []RecordsTrue
<1>1. Init => RewriteInv BY RewriteInvInit
<1>2. RewriteInv /\ [Next]_vars => RewriteInv' BY RewriteStep
<1>3. RewriteInv => RecordsTrue BY RewriteInvTrue
<1> QED BY <1>1, <1>2, <1>3, PTL DEF Spec

\* The step that sets the property ends a compression whose every file is left or done.
LEMMA ClaimStep ==
    ASSUME RewriteInv, Next, ~property, property'
    PROVE  \A f \in Files : /\ pass.place[f] \in {"left", "done"}
                            /\ pass.place[f] = "done" /\ Matches(f) => AtLeast(f, 1)
<1>1. RunEnds
  <2>1. ~Begins BY DEF Begins
  <2>2. property' = property \/ Begins \/ RunEnds
    BY DEF Next, Works, StopsEarly, Records, Opens, Rewrites, Receives, Cancels, Orphaned, Pauses,
           Killed, CoordinatorDies, CoordinatorStarts, WorkerStarts, CommandStarts, Replaced
  <2> QED BY <2>1, <2>2
<1>2. /\ Running /\ pass \in Passes /\ TypeOK /\ Busy = {} /\ pass.policy # "plain"
      /\ ~pass.cancel /\ ~Failed /\ \A f \in Files : pass.place[f] # "waiting"
  BY <1>1 DEF RunEnds, Claims, Stopped, RewriteInv, TypeOK, Running
<1> SUFFICES ASSUME NEW f \in Files
             PROVE  /\ pass.place[f] \in {"left", "done"}
                    /\ pass.place[f] = "done" /\ Matches(f) => AtLeast(f, 1)
  OBVIOUS
<1>3. pass.place[f] \in {"left", "done"} BY <1>2 DEF Passes, Places, Busy, Failed
<1>4. ASSUME pass.place[f] = "done", Matches(f) PROVE AtLeast(f, 1)
  <2>1. WorkTrue(f) BY <1>2 DEF RewriteInv, PassTrue
  <2>2. PICK level \in Levels : Planned(level) /\ pass.level[f] = Applied(level)
    BY <1>4, <2>1 DEF WorkTrue
  <2>3. 1 <= pass.level[f] /\ pass.level[f] \in Levels BY <1>2, <2>2, PlannedLevels
  <2>4. \A i \in 1 .. Ranges[f] : disk[f].range[i] = pass.level[f] BY <1>4, <2>1 DEF WorkTrue
  <2> QED BY <2>3, <2>4 DEF AtLeast, Levels
<1> QED BY <1>3, <1>4

\* The property that makes new files inherit compression appears only when no file of the
\* pass failed or was left waiting, and those it is done with are compressed.
THEOREM ClaimEarnedEver == Spec => ClaimEarned
<1>1. Init => RewriteInv BY RewriteInvInit
<1>2. RewriteInv /\ [Next]_vars => RewriteInv' BY RewriteStep
<1>3. RewriteInv /\ [Next]_vars =>
        [~property /\ property' =>
           \A f \in Files : /\ pass.place[f] \in {"left", "done"}
                            /\ pass.place[f] = "done" /\ Matches(f) => AtLeast(f, 1)]_vars
  BY ClaimStep
<1> QED BY <1>1, <1>2, <1>3, PTL DEF Spec, ClaimEarned

================================================================================

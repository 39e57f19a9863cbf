---------------------------- MODULE LiveCompression ----------------------------
(***************************************************************************)
(* The compression property of a Steam library's write directories: new    *)
(* files and directories inherit it.  The coordinator sets and clears it   *)
(* with the library's automatic setting and marks what it set, two writes  *)
(* between which it can die; the `hook` command sets and clears it without *)
(* looking; Steam makes and removes directories.                           *)
(***************************************************************************)
EXTENDS Naturals, FiniteSets, Sequences

CONSTANTS
    Dirs,           \* the write directories
    Top,            \* the one the others are in
    LiveLimits      \* bound: {[kind |-> ..., count |-> ...]}: how often what may happen

LiveKinds == {"orders", "removes", "failures", "deaths", "hooks", "makes", "badSaves"}

ASSUME LiveAssumption ==
    Top \in Dirs /\ IsFiniteSet(Dirs) /\ LiveLimits \subseteq [LiveKinds -> Nat]

VARIABLE live

Amount(k) == live.left[k]
Use(k)    == [live.left EXCEPT ![k] = @ - 1]

NoDir == [there |-> FALSE, property |-> FALSE, marker |-> FALSE]
Plain == [NoDir EXCEPT !.there = TRUE]
NoUpdate == [at |-> "idle", dir |-> Top, todo |-> {}, enable |-> FALSE, then |-> "none",
             raced |-> FALSE]           \* ghost: the user set dir since the update looked at it

\* The user may have set the property by hand before.
LiveInit ==
    \E left \in LiveLimits, kept \in SUBSET {Top}, made \in SUBSET (Dirs \ {Top}) :
        live = [left |-> left, alive |-> TRUE, library |-> "none", saved |-> "none",
                dirs |-> [d \in Dirs |-> IF d \in kept THEN [Plain EXCEPT !.property = TRUE]
                                         ELSE IF d \in made \cup {Top} THEN Plain ELSE NoDir],
                update |-> NoUpdate,
                users |-> kept,         \* ghost: the user set it, nobody had marked it, and no
                                        \* update that had looked before wrote over it
                ours |-> {},            \* ghost: the coordinator set it
                torn |-> {}]            \* ghost: the coordinator died before marking it

SteamWriteDirs == {d \in Dirs : live.dirs[d].there}
IdleUpdate == live.alive /\ live.update.at = "idle"
Begin(enable, then) ==
    [NoUpdate EXCEPT !.at = "next", !.todo = SteamWriteDirs, !.enable = enable, !.then = then]

\* The library is added or its setting changed.
Library ==
    /\ IdleUpdate /\ Amount("orders") > 0
    /\ \E automatic \in BOOLEAN :
           live' = [live EXCEPT !.left = Use("orders"),
                                !.update = Begin(automatic, IF automatic THEN "on" ELSE "off")]

\* A library that is taken off the list is switched off first.
RemoveLibrary ==
    /\ IdleUpdate /\ Amount("removes") > 0 /\ live.library # "none"
    /\ live' = [live EXCEPT !.left = Use("removes"), !.update = Begin(FALSE, "none")]

\* Started again, the coordinator applies what was saved.
Restart ==
    /\ ~live.alive
    /\ live' = [live EXCEPT !.alive = TRUE, !.library = live.saved,
                            !.update = IF live.saved = "on" THEN Begin(TRUE, "started")
                                       ELSE NoUpdate]

InUpdate(at) == live.alive /\ live.update.at = at
With(d, state) == [live.dirs EXCEPT ![d] = state]
Dir == live.dirs[live.update.dir]
Rest == [live.update EXCEPT !.at = "next", !.todo = @ \ {live.update.dir}, !.raced = FALSE]
UsersAfter == IF live.update.raced THEN live.users \ {live.update.dir} ELSE live.users

AlreadySet(d) == live.dirs[d].property

\* One directory: what is already set without a mark is the user's.
SetLiveCompression ==
    /\ InUpdate("next") /\ live.update.todo # {}
    /\ \E d \in live.update.todo :
           live' = [live EXCEPT !.update =
               IF live.update.enable
               THEN IF AlreadySet(d) THEN [live.update EXCEPT !.todo = @ \ {d}]
                    ELSE [live.update EXCEPT !.at = "set", !.dir = d]
               ELSE IF live.dirs[d].marker THEN [live.update EXCEPT !.at = "clear", !.dir = d]
                    ELSE [live.update EXCEPT !.todo = @ \ {d}]]

\* A failed update fails the command with nothing saved.
Fails(dirs, left) == [live EXCEPT !.update = NoUpdate, !.dirs = dirs, !.left = left]

SetProperty ==
    /\ InUpdate("set")
    /\ LET d == live.update.dir
       IN \/ Dir.there /\ live' = [live EXCEPT !.dirs = With(d, [Dir EXCEPT !.property = TRUE]), !.users = UsersAfter,
                                   !.ours = @ \cup {d}, !.update.at = "mark"]
          \/ ~Dir.there /\ live' = Fails(live.dirs, live.left)
          \/ Dir.there /\ Amount("failures") > 0 /\ live' = Fails(live.dirs, Use("failures"))

Mark ==
    /\ InUpdate("mark")
    /\ LET d == live.update.dir
       IN \/ Dir.there /\ live' = [live EXCEPT !.dirs = With(d, [Dir EXCEPT !.marker = TRUE]),
                                               !.users = UsersAfter, !.update = Rest]
          \/ ~Dir.there /\ live' = Fails(live.dirs, live.left)
          \/ Dir.there /\ Amount("failures") > 0    \* the property is taken back
             /\ live' = [Fails(With(d, [Dir EXCEPT !.property = FALSE]), Use("failures"))
                            EXCEPT !.ours = @ \ {d}, !.users = UsersAfter]

\* Variant for a mutation: the mark goes before the property.
UnmarkFirst ==
    /\ InUpdate("clear")
    /\ live' = [live EXCEPT !.dirs = With(live.update.dir, [Dir EXCEPT !.marker = FALSE]),
                            !.update.at = "unmark"]
ClearProperty ==
    /\ InUpdate("clear")
    /\ LET d == live.update.dir
       IN \/ Dir.there /\ live' = [live EXCEPT !.dirs = With(d, [Dir EXCEPT !.property = FALSE]),
                                   !.ours = @ \ {d}, !.users = UsersAfter, !.update.at = "unmark"]
          \/ ~Dir.there /\ live' = Fails(live.dirs, live.left)

Unmark ==
    /\ InUpdate("unmark")
    /\ IF Dir.there /\ Dir.marker
       THEN live' = [live EXCEPT !.dirs = With(live.update.dir, [Dir EXCEPT !.marker = FALSE]),
                                 !.update = Rest]
       ELSE live' = Fails(live.dirs, live.left)

\* The list is kept in memory, then saved; a failed save leaves the two apart.
Complete ==
    /\ InUpdate("next") /\ live.update.todo = {}
    /\ IF live.update.then = "started" THEN live' = [live EXCEPT !.update = NoUpdate]
       ELSE LET done == [live EXCEPT !.update = NoUpdate, !.library = live.update.then]
            IN \/ live' = [done EXCEPT !.saved = live.update.then]
               \/ Amount("badSaves") > 0 /\ live' = [done EXCEPT !.left = Use("badSaves")]

Dies ==
    /\ live.alive /\ Amount("deaths") > 0
    /\ live' = [live EXCEPT !.alive = FALSE, !.left = Use("deaths"), !.update = NoUpdate,
                            !.torn = IF live.update.at = "mark" THEN @ \cup {live.update.dir} ELSE @]

\* `flummox hook` on every directory, one after the other.  It takes no lock: it may come between
\* an update's look at a directory and its writes.
Busy(d) == live.update.at \in {"set", "mark", "clear", "unmark"} /\ live.update.dir = d
Hook ==
    /\ Amount("hooks") > 0
    /\ \E d \in SteamWriteDirs, on \in BOOLEAN :
           LET new == on /\ ~live.dirs[d].property
           IN live' = [live EXCEPT !.left = Use("hooks"), !.dirs[d].property = on,
                  !.users = IF new /\ ~live.dirs[d].marker THEN @ \cup {d}
                            ELSE IF on THEN @ ELSE @ \ {d},
                  !.update.raced = @ \/ (new /\ Busy(d)),
                  !.ours = IF on THEN @ ELSE @ \ {d}, !.torn = IF on THEN @ ELSE @ \ {d}]

\* Steam makes a directory, which inherits the property and not the mark, or removes one.
Makes ==
    /\ Amount("makes") > 0
    /\ \E d \in Dirs \ {Top} :
           LET gone == live.dirs[d].there
           IN live' = [live EXCEPT !.left = Use("makes"),
                  !.dirs[d] = IF gone THEN NoDir
                              ELSE [Plain EXCEPT !.property = live.dirs[Top].property],
                  !.users = @ \ {d}, !.ours = @ \ {d}, !.torn = @ \ {d}]

LiveNext ==
    \/ Library \/ RemoveLibrary \/ Restart \/ SetLiveCompression \/ SetProperty \/ Mark
    \/ ClearProperty \/ Unmark \/ Complete \/ Dies \/ Hook \/ Makes

LiveSpec == LiveInit /\ [][LiveNext]_live

(***************************************************************************)
(* Correctness.                                                            *)
(***************************************************************************)
\* What the user set while nobody had marked it stays set and unmarked until the user clears it
\* or Steam removes the directory, whatever the coordinator switches on and off.  Only an update
\* that had looked at the directory before the user set it may take it over (service.rs:270-274).
UserPropertyKept == \A d \in live.users : live.dirs[d].property /\ ~live.dirs[d].marker

\* A property the coordinator set is marked, so that switching off finds it, but for the
\* moment between the two writes and a death in it (service.rs:273).
MarkedUntilCleared ==
    \A d \in live.ours :
        live.dirs[d].marker \/ d \in live.torn \/ (live.update.at = "mark" /\ live.update.dir = d)

\* The marker tells the coordinator's properties from the user's.
PropertiesOwned == UserPropertyKept /\ MarkedUntilCleared

\* With no library switched on, and nobody dead between the two writes, no directory compresses
\* unless the user asked for it ("Live compression is turned off for it first").
OffIsOff ==
    IdleUpdate /\ live.library # "on" /\ live.saved # "on" /\ live.torn = {}
        => \A d \in Dirs : live.dirs[d].property => live.users # {}
================================================================================

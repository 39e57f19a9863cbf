--------------------------------- MODULE Watch ---------------------------------
(***************************************************************************)
(* `flummox watch`: Steam rewrites its manifests, inotify queues an event, *)
(* and the watcher reads every manifest again and hands each game that has *)
(* settled to a compression job, whose end it waits for before it looks at *)
(* anything else.                                                          *)
(***************************************************************************)
EXTENDS Naturals, FiniteSets

CONSTANTS
    Apps,           \* numbers: a library's manifests are reported in their order
    AppLibrary,     \* app -> its library
    FolderOf,       \* app -> its install folder, which apps may share
    WatchLimits     \* bound: how often what may happen

VARIABLE watching

WatchKinds == {"changes", "writes", "starts", "stops", "unreadable", "overflows", "excludes"}

ASSUME WatchAssumption ==
    /\ Apps \subseteq Nat /\ IsFiniteSet(Apps) /\ DOMAIN AppLibrary = Apps /\ DOMAIN FolderOf = Apps
    /\ WatchLimits \subseteq [WatchKinds -> Nat]

Room(k)  == watching.left[k]
Taken(k) == [watching.left EXCEPT ![k] = @ - 1]

Libraries == {AppLibrary[a] : a \in Apps}
Folders   == {FolderOf[a] : a \in Apps}
NotRunning == [at |-> "off", libraries |-> {}, watched |-> {}, list |-> {}, app |-> 0, library |-> 0,
               settled |-> [a \in Apps |-> "unseen"]]

WatchInit ==
    \E left \in WatchLimits, apps \in [Apps -> {"absent", "settled"}] :
        watching = [left |-> left, apps |-> apps, torn |-> [a \in Apps |-> "none"],
                    unit |-> "none", events |-> FALSE, run |-> NotRunning, cancel |-> FALSE,
                    excluded |-> {}, jobs |-> [f \in Folders |-> "none"],
                    settles |-> [a \in Apps |-> 0],     \* ghost: since its library was seeded, which
                                                        \* counts as one if it was settled and unread
                    reports |-> [a \in Apps |-> 0],     \* ghost
                    lost |-> FALSE]                     \* ghost: an event or a library was missed

Run == watching.run
In(at) == Run.at = at

(***************************************************************************)
(* Steam.                                                                  *)
(***************************************************************************)
IsSettled(state) == state \in {"settled", "required"}
Follows(from, to) ==
    \/ from = "absent" /\ to = "working"
    \/ from = "working" /\ to \in {"working", "settled"}
    \/ from = "settled" /\ to \in {"working", "settled", "required"}
    \/ from = "required" /\ to = "working"
Notices(a) == watching.events \/ AppLibrary[a] \in Run.watched

\* A manifest renamed into place.
Replaces ==
    /\ Room("changes") > 0
    /\ \E a \in Apps, to \in {"working", "settled", "required"} :
           /\ Follows(watching.apps[a], to) /\ watching.torn[a] = "none"
           /\ watching' = [watching EXCEPT !.left = Taken("changes"), !.apps[a] = to,
                               !.events = Notices(a),
                               !.settles[a] = IF IsSettled(to) /\ ~IsSettled(watching.apps[a])
                                              THEN @ + 1 ELSE @]

\* One written in place, which cannot be read until it is closed.
Opens ==
    /\ Room("writes") > 0
    /\ \E a \in Apps, to \in {"working", "settled"} :
           /\ Follows(watching.apps[a], to) /\ watching.torn[a] = "none"
           /\ watching' = [watching EXCEPT !.left = Taken("writes"), !.torn[a] = to]
Closes ==
    \E a \in Apps :
        /\ watching.torn[a] # "none"
        /\ watching' = [watching EXCEPT !.torn[a] = "none", !.apps[a] = watching.torn[a],
                            !.events = Notices(a),
                            !.settles[a] = IF IsSettled(watching.torn[a])
                                              /\ ~IsSettled(watching.apps[a]) THEN @ + 1 ELSE @]

\* A removed manifest makes no event the watcher asked for.
Uninstalls ==
    /\ Room("changes") > 0
    /\ \E a \in Apps :
           /\ watching.apps[a] # "absent" /\ watching.torn[a] = "none"
           /\ watching' = [watching EXCEPT !.left = Taken("changes"), !.apps[a] = "absent"]

\* The kernel's queue is full: what is in it names no manifest.
Overflows ==
    /\ watching.events /\ Room("overflows") > 0
    /\ watching' = [watching EXCEPT !.left = Taken("overflows"), !.events = FALSE, !.lost = TRUE]

(***************************************************************************)
(* The service and the watcher.                                            *)
(***************************************************************************)
Foreign == watching.unit = "none" /\ watching' = [watching EXCEPT !.unit = "foreign"]
Enable ==
    /\ Room("starts") > 0 /\ watching.unit # "foreign" /\ (watching.cancel => In("off"))
    /\ watching' = [watching EXCEPT !.unit = "ours", !.left = Taken("starts"),
                        !.cancel = IF In("off") THEN FALSE ELSE @,
                        !.run = IF In("off") THEN [NotRunning EXCEPT !.at = "watch", !.libraries = Libraries]
                                ELSE @]
Disable ==
    /\ Room("stops") > 0 /\ ~In("off")
    /\ watching' = [watching EXCEPT !.unit = IF @ = "ours" THEN "none" ELSE @,
                        !.left = Taken("stops"), !.cancel = TRUE]

LibraryAt(l) == {a \in Apps : AppLibrary[a] = l}
Readable(a) == watching.apps[a] # "absent" /\ watching.torn[a] = "none"
YesNo(a) == IF IsSettled(watching.apps[a]) THEN "yes" ELSE "no"

Seeded(l) == [a \in Apps |-> IF AppLibrary[a] = l /\ Readable(a) THEN YesNo(a) ELSE Run.settled[a]]

\* What is installed when the watch of a library begins is not reported.
AddWatch ==
    /\ In("watch")
    /\ IF Run.libraries = {}
       THEN watching' = [watching EXCEPT !.run.at = "wait"]
       ELSE \E l \in Run.libraries :
                watching' = [watching EXCEPT !.run.at = "seed", !.run.library = l,
                                             !.run.watched = @ \cup {l}]
Seed ==
    /\ In("seed")
    /\ LET l     == Run.library
           begun == [watching EXCEPT !.run.at = "watch", !.run.libraries = @ \ {l},
                                     !.reports = [a \in Apps |-> IF AppLibrary[a] = l THEN 0 ELSE @[a]]]
           \* what has settled and is not read now will look new
           fresh(blind) == [a \in Apps |-> IF AppLibrary[a] # l THEN watching.settles[a]
                                           ELSE IF a \in blind /\ IsSettled(watching.apps[a]) THEN 1 ELSE 0]
       IN \/ watching' = [begun EXCEPT !.run.settled = Seeded(l),
                                      !.settles = fresh({a \in Apps : ~Readable(a)})]
          \/ Room("unreadable") > 0
             /\ watching' = [begun EXCEPT !.left = Taken("unreadable"), !.lost = TRUE,
                                         !.settles = fresh(Apps)]

Wait ==
    /\ In("wait")
    /\ \/ watching.cancel
          /\ watching' = [watching EXCEPT !.run = NotRunning, !.events = FALSE, !.lost = FALSE]
       \/ ~watching.cancel /\ watching.events
          /\ watching' = [watching EXCEPT !.events = FALSE, !.run.at = "read",
                              !.run.libraries = Run.watched]

\* A library is read as a whole; its games are then reported one after the other.
Listing(l) == {[app |-> a, settled |-> YesNo(a)] : a \in {b \in LibraryAt(l) : Readable(b)}}
\* Variant for a mutation: the events are drained after the reading.
ReadThenDrain ==
    /\ In("read")
    /\ IF Run.libraries = {}
       THEN watching' = [watching EXCEPT !.run.at = "wait", !.events = FALSE]
       ELSE \E l \in Run.libraries :
                watching' = [watching EXCEPT !.run.libraries = @ \ {l}, !.run.at = "report",
                                             !.run.list = Listing(l)]
ReadLibrary ==
    /\ In("read")
    /\ IF Run.libraries = {}
       THEN watching' = [watching EXCEPT !.run.at = "wait"]
       ELSE \E l \in Run.libraries :
                LET read == [watching EXCEPT !.run.libraries = @ \ {l}]
                IN \/ watching' = [read EXCEPT !.run.at = "report", !.run.list = Listing(l)]
                   \/ Room("unreadable") > 0
                      /\ watching' = [read EXCEPT !.left = Taken("unreadable"), !.lost = TRUE]

Report ==
    /\ In("report")
    /\ IF Run.list = {}
       THEN watching' = [watching EXCEPT !.run.at = "read"]
       ELSE \E seen \in Run.list :
                /\ \A other \in Run.list : seen.app <= other.app
                /\ LET next == [Run EXCEPT !.list = @ \ {seen}, !.settled[seen.app] = seen.settled]
                   IN IF seen.settled = "yes" /\ Run.settled[seen.app] # "yes"
                      THEN watching' = [watching EXCEPT !.run = [next EXCEPT !.at = "check", !.app = seen.app],
                                                        !.reports[seen.app] = @ + 1]
                      ELSE watching' = [watching EXCEPT !.run = next]

(***************************************************************************)
(* `compress` for a game that was reported.                                *)
(***************************************************************************)
GameFolder == FolderOf[Run.app]
GroupIdle == \A a \in Apps : FolderOf[a] = GameFolder /\ Readable(a) => watching.apps[a] = "settled"
Found == Readable(Run.app)

\* The game is looked up again; what is hidden or busy by now is only warned about.
CheckIdle ==
    /\ In("check")
    /\ watching' = [watching EXCEPT !.run.at =
                        IF Found /\ GroupIdle /\ GameFolder \notin watching.excluded THEN "enqueue" ELSE "report"]

\* A job of the folder that is still active is joined.
Enqueue ==
    /\ In("enqueue")
    /\ watching' = [watching EXCEPT !.run.at = "follow", !.jobs[GameFolder] = "active"]

\* Variant for a mutation: only a job that completes is waited for.
AwaitsSuccess ==
    /\ In("follow") /\ (watching.cancel \/ watching.jobs[GameFolder] = "completed")
    /\ watching' = [watching EXCEPT !.run.at = "report"]
\* Closing the client leaves the job running.
QueuedJob ==
    /\ In("follow") /\ (watching.cancel \/ watching.jobs[GameFolder] # "active")
    /\ watching' = [watching EXCEPT !.run.at = "report"]

JobEnds ==
    \E f \in Folders :
        /\ watching.jobs[f] = "active"
        /\ \E end \in {"completed", "failed"} : watching' = [watching EXCEPT !.jobs[f] = end]

Excludes ==
    /\ Room("excludes") > 0
    /\ \E f \in Folders : watching' = [watching EXCEPT !.left = Taken("excludes"), !.excluded = @ \cup {f}]

Watcher ==
    \/ AddWatch \/ Seed \/ Wait \/ ReadLibrary \/ Report \/ CheckIdle \/ Enqueue \/ QueuedJob
WatchNext ==
    \/ Replaces \/ Opens \/ Closes \/ Uninstalls \/ Overflows \/ Foreign \/ Enable \/ Disable
    \/ Watcher \/ JobEnds \/ Excludes

WatchSpec == WatchInit /\ [][WatchNext]_watching /\ WF_watching(Watcher) /\ WF_watching(JobEnds)

(***************************************************************************)
(* Correctness.                                                            *)
(***************************************************************************)
Seen(a) == Run.settled[a] = YesNo(a)

\* A watcher that waits knows every manifest as it is, or an event is there to wake it: none
\* slips between the start of the watch and the first read, or between an event and the
\* reading it causes (watch.rs:76, watch.rs:93).
NoLostWake ==
    In("wait") /\ ~watching.lost =>
        \A a \in Apps : Readable(a) => Seen(a) \/ watching.events

\* A game is reported at most once for each time it settled, and once more only if it had
\* settled when the seeding of its library could not read it (watch.rs:56, watch.rs:80).
ReportedOnce == \A a \in Apps : watching.reports[a] <= watching.settles[a]

\* The watcher neither sleeps through a change nor tells of one twice.
WakesRight == NoLostWake /\ ReportedOnce

\* A game the watcher knows as unsettled and that has settled is reported, or is changed
\* again, or an event was lost, or the watcher stops.
SettledIsReported ==
    \A a \in Apps :
        (~In("off") /\ Run.settled[a] = "no" /\ IsSettled(watching.apps[a]))
            ~> (Run.settled[a] = "yes" \/ ~IsSettled(watching.apps[a]) \/ watching.lost
                   \/ watching.cancel \/ watching.torn[a] # "none")

\* "once per app each time it becomes settled": a waiting watcher with nothing to read has
\* reported every time a game settled (watch.rs:56).
EachSettleReported ==
    In("wait") /\ ~watching.events /\ ~watching.lost /\ watching.left.starts = 0
        => \A a \in Apps : Readable(a) => watching.reports[a] >= watching.settles[a]
================================================================================

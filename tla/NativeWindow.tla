---------------------------- MODULE NativeWindow -------------------------------
(***************************************************************************)
(* The window on macOS and Windows.  It edits desktop.json, lists the      *)
(* games under the saved places, plans and starts work on a folder.  On    *)
(* macOS its own threads do all of it; on Windows a worker writes the file *)
(* and lists the games, and the window polls it.                           *)
(*                                                                         *)
(* A message is handled in one step.  What a handler leaves to a thread    *)
(* happens later, and its answer arrives as a message of its own.          *)
(***************************************************************************)
EXTENDS Naturals, Sequences, FiniteSets
LOCAL INSTANCE SequencesExt

CONSTANTS
    Places,         \* folders that can be a location, each with one game
    Settings,        \* values of the preferences that are not locations
    NativeBudgets   \* bound: the platform, and what may happen how often

NativeKinds == {"edits", "updates", "badSaves", "badLoads", "badScans", "orders", "stops",
                "plans", "recovers", "picks", "selects", "deaths"}
NoPlace == "no folder"

ASSUME NativeAssumption ==
    /\ NativeBudgets \subseteq [platform : {"mac", "windows"}, may : [NativeKinds -> Nat]]
    /\ Places # {} /\ NoPlace \notin Places /\ Cardinality(Settings) > 1

VARIABLES
    could,      \* the platform, and what may still happen
    builds,     \* per folder: the build of the game in it
    file,       \* desktop.json
    form,       \* the preferences shown, and how their load and save stand
    window,     \* the list shown, the scan and the work it waits for, the plan
    worker,     \* Windows: the worker process
    scan,       \* the scan thread: "none", or "asked" until it has read the list
    wire,       \* answers on their way to the window, in the order they were read
    orders,     \* Windows: commands on their way to the worker
    tasks,      \* threads that plan, run a job or recover
    resolving,  \* folders whose typed path a thread makes canonical
    dropped     \* the locations the user removed

natives == <<could, builds, file, form, window, worker, scan, wire, orders, tasks,
             resolving, dropped>>

mac     == could.platform = "mac"
windows == could.platform = "windows"

NoList  == [p \in Places |-> 0]
NoSave  == [answer |-> "none"]
Listed  == [p \in Places |-> IF p \in file.places THEN builds[p] ELSE 0]
NoWorker == [up |-> FALSE, games |-> NoList, stopping |-> FALSE]
Started  == [NoWorker EXCEPT !.up = TRUE]

May(kind)   == could.may[kind] > 0
Spend(kind) == May(kind) /\ could' = [could EXCEPT !.may[kind] = @ - 1]

Preferences == [places : SUBSET Places, choice : Settings]
Lists       == [Places -> Nat]

NativeInit ==
    /\ could \in NativeBudgets
    /\ builds = [p \in Places |-> 1]
    /\ file = [places |-> {CHOOSE p \in Places : TRUE}, choice |-> CHOOSE c \in Settings : TRUE]
    /\ form = [shown |-> [places |-> {}, choice |-> file.choice], loaded |-> FALSE,
               asked |-> TRUE, thread |-> NoSave, dirty |-> FALSE, rescan |-> FALSE,
               failed |-> FALSE]
    /\ window = [games |-> NoList, art |-> NoList, seen |-> NoList, scanning |-> TRUE,
                 working |-> FALSE, planned |-> NoPlace, folder |-> NoPlace,
                 picking |-> FALSE, cancel |-> "none", enabled |-> TRUE]
    /\ worker = NoWorker /\ scan = "asked" /\ wire = <<>> /\ orders = {} /\ tasks = {}
    /\ resolving = {} /\ dropped = {}

(***************************************************************************)
(* The preferences.                                                        *)
(***************************************************************************)
\* What a handler that calls save_preferences leaves: no save before a load, one at a
\* time, and the newest copy.
SavedBlank(f) ==
    IF f.thread # NoSave THEN [f EXCEPT !.dirty = TRUE]
    ELSE [f EXCEPT !.dirty = FALSE, !.thread = [answer |-> "asked", prefs |-> f.shown]]
SavePreferences(f) == IF f.loaded THEN SavedBlank(f) ELSE f

\* Refresh, asked for by the button, by a save or by the timer.
Refreshed ==
    IF window.scanning \/ window.working THEN UNCHANGED <<window, scan, orders>>
    ELSE /\ window' = [window EXCEPT !.scanning = TRUE] /\ scan' = "asked"
         /\ orders' = IF windows THEN orders \cup {"refresh"} ELSE orders

PreferencesLoaded ==
    /\ form.asked
    /\ \/ /\ form' = [form EXCEPT !.asked = FALSE, !.loaded = TRUE, !.shown = file]
          /\ UNCHANGED could
       \/ /\ Spend("badLoads") /\ form' = [form EXCEPT !.asked = FALSE]
    /\ UNCHANGED <<builds, file, window, worker, scan, wire, orders, tasks, resolving, dropped>>

Edited(f) == /\ form' = SavePreferences(f)
             /\ UNCHANGED <<builds, file, window, worker, scan, wire, orders, tasks>>

\* The theme, the motion, an exclusion, automatic maintenance, the start at login.
Choose == /\ Spend("edits")
          /\ \E c \in Settings \ {form.shown.choice} : Edited([form EXCEPT !.shown.choice = c])
          /\ UNCHANGED <<resolving, dropped>>

AddLocation(p) ==
    /\ form.loaded /\ p \notin resolving /\ Spend("edits")
    /\ resolving' = resolving \cup {p}
    /\ UNCHANGED <<builds, file, form, window, worker, scan, wire, orders, tasks, dropped>>

LocationResolved(p) ==
    /\ p \in resolving /\ resolving' = resolving \ {p}
    /\ Edited([form EXCEPT !.shown.places = @ \cup {p}, !.rescan = TRUE])
    /\ UNCHANGED <<could, dropped>>

RemoveLocation(p) ==
    /\ p \in form.shown.places /\ Spend("edits") /\ dropped' = dropped \cup {p}
    /\ Edited([form EXCEPT !.shown.places = @ \ {p}, !.rescan = TRUE])
    /\ UNCHANGED resolving

\* The thread writes the file itself on macOS.  On Windows it asks the worker, which it
\* starts if none runs, and which lists the games again.
SaveRuns ==
    /\ form.thread.answer = "asked"
    /\ \/ /\ file' = form.thread.prefs /\ form' = [form EXCEPT !.thread.answer = "saved"]
          /\ UNCHANGED could
       \/ /\ Spend("badSaves") /\ form' = [form EXCEPT !.thread.answer = "failed"]
          /\ UNCHANGED file
    /\ worker' = IF windows /\ ~worker.up THEN Started ELSE worker
    /\ UNCHANGED <<builds, window, scan, wire, orders, tasks, resolving, dropped>>

Resaved(f)    == SavePreferences(f)
PreferencesSaved ==
    /\ form.thread.answer \in {"saved", "failed"}
    /\ LET failed == form.thread.answer = "failed"
           done   == [form EXCEPT !.thread = NoSave, !.failed = failed]
       IN IF failed \/ form.dirty
          THEN /\ form' = IF failed THEN done ELSE Resaved(done)
               /\ UNCHANGED <<window, scan, orders>>
          ELSE /\ form' = [done EXCEPT !.rescan = FALSE]
               /\ IF form.rescan THEN Refreshed ELSE UNCHANGED <<window, scan, orders>>
    /\ UNCHANGED <<could, builds, file, worker, wire, tasks, resolving, dropped>>

(***************************************************************************)
(* The list.                                                               *)
(***************************************************************************)
Reply(kind, w) == [kind |-> kind, ok |-> TRUE, games |-> w.games, stopping |-> w.stopping,
                   stale |-> FALSE]
Lost           == [kind |-> "scan", ok |-> FALSE, games |-> NoList, stopping |-> FALSE,
                   stale |-> FALSE]
\* A command that is not Shutdown starts a worker that does not run.
Reached == IF worker.up THEN worker ELSE Started

ScanRead ==
    /\ scan = "asked" /\ scan' = "none"
    /\ \/ /\ mac /\ wire' = Append(wire, Reply("scan", [NoWorker EXCEPT !.games = Listed]))
          /\ UNCHANGED <<could, worker>>
       \/ /\ windows /\ worker' = Reached /\ wire' = Append(wire, Reply("scan", Reached))
          /\ UNCHANGED could
       \/ /\ Spend("badScans") /\ wire' = Append(wire, Lost) /\ UNCHANGED worker
    /\ UNCHANGED <<builds, file, form, window, orders, tasks, resolving, dropped>>

\* What was read before a reply that the window has accepted is older than what it shows.
Older(i)    == [j \in DOMAIN wire |-> IF j < i THEN [wire[j] EXCEPT !.stale = TRUE] ELSE wire[j]]
Arrives(i)  == wire' = RemoveAt(wire, i)
Supersedes(i) == wire' = RemoveAt(Older(i), i)

Rescans(w)  == /\ window' = [w EXCEPT !.scanning = TRUE] /\ scan' = "asked"
Shows(w, games) == [w EXCEPT !.games = games]

Outdated(r) == windows /\ r.stale /\ r.games # window.seen
ReturnedWell(r) == [window EXCEPT !.scanning = ~r.ok]
Returned(r)     == [window EXCEPT !.scanning = FALSE]

Scanned(i) ==
    LET r == wire[i]  w == Returned(r)
    IN /\ r.kind = "scan" /\ Arrives(i)
       /\ IF ~r.ok THEN window' = w /\ UNCHANGED scan
          ELSE IF Outdated(r)
          THEN IF window.enabled THEN Rescans(window) ELSE window' = w /\ UNCHANGED scan
          ELSE window' = [Shows(w, r.games) EXCEPT !.art = r.games] /\ UNCHANGED scan
       /\ UNCHANGED <<could, builds, file, form, worker, orders, tasks, resolving, dropped>>

Superseded(r)  == r.stale
ArtOutdated(r) == window.seen # r.games /\ ~window.scanning /\ ~r.stopping

WorkerReplied(i) ==
    LET r == wire[i]
        w == [Shows(window, r.games) EXCEPT !.seen = r.games, !.enabled = ~r.stopping]
    IN /\ r.kind \in {"poll", "command"}
       /\ IF Superseded(r) THEN Arrives(i) /\ UNCHANGED <<window, scan>>
          ELSE /\ Supersedes(i)
               /\ IF ArtOutdated(r) THEN Rescans(w) ELSE window' = w /\ UNCHANGED scan
       /\ UNCHANGED <<could, builds, file, form, worker, orders, tasks, resolving, dropped>>

\* One poll at a time; none when the subscription is gone.  A poll never starts a worker.
Polling == \E i \in DOMAIN wire : wire[i].kind = "poll"
Polled ==
    /\ windows /\ window.enabled /\ worker.up /\ ~Polling
    /\ wire' = Append(wire, Reply("poll", worker))
    /\ UNCHANGED <<could, builds, file, form, window, worker, scan, orders, tasks, resolving,
                   dropped>>
\* An answer that has not become a message goes with its subscription.
PollDropped ==
    /\ ~window.enabled
    /\ \E i \in DOMAIN wire : wire[i].kind = "poll" /\ Arrives(i)
    /\ UNCHANGED <<could, builds, file, form, window, worker, scan, orders, tasks, resolving,
                   dropped>>

\* The timer waits while a job, a scan, or a plan uses the list.
TimerPoll ==
    /\ mac /\ ~window.working /\ ~window.scanning /\ window.planned = NoPlace
    /\ Refreshed
    /\ UNCHANGED <<could, builds, file, form, worker, wire, tasks, resolving, dropped>>

(***************************************************************************)
(* The worker.                                                             *)
(***************************************************************************)
\* Stop and Start of the worker; Maintenance, Pause, Cancel and Retry go the way of "go".
WorkerCommand ==
    /\ windows
    /\ \/ /\ window.enabled /\ Spend("stops") /\ orders' = orders \cup {"stop"}
          /\ window' = [window EXCEPT !.enabled = FALSE]
       \/ /\ Spend("orders") /\ orders' = orders \cup {"go"}
          /\ window' = [window EXCEPT !.enabled = TRUE]
    /\ UNCHANGED <<builds, file, form, worker, scan, wire, tasks, resolving, dropped>>

OrderServed(o) ==
    /\ o \in orders /\ orders' = orders \ {o}
    /\ IF o = "stop"
       THEN IF worker.up
            THEN /\ worker' = [worker EXCEPT !.stopping = TRUE]
                 /\ wire' = Append(wire, Reply("command", worker'))
            ELSE UNCHANGED <<worker, wire>>
       ELSE worker' = Reached /\ wire' = Append(wire, Reply("command", Reached))
    /\ UNCHANGED <<could, builds, file, form, window, scan, tasks, resolving, dropped>>

\* The worker lists the games, ends when it was asked to, or dies.
Discovers ==
    /\ worker.up /\ ~worker.stopping /\ worker.games # Listed
    /\ worker' = [worker EXCEPT !.games = Listed]
    /\ UNCHANGED <<could, builds, file, form, window, scan, wire, orders, tasks, resolving,
                   dropped>>
Exits == /\ worker.up
         /\ \/ worker.stopping /\ UNCHANGED could
            \/ Spend("deaths")
         /\ worker' = NoWorker
         /\ UNCHANGED <<builds, file, form, window, scan, wire, orders, tasks, resolving, dropped>>

(***************************************************************************)
(* Work on a folder.                                                       *)
(***************************************************************************)
RefreshPressed ==
    /\ ~window.working /\ ~window.scanning /\ Spend("selects") /\ Refreshed
    /\ UNCHANGED <<builds, file, form, worker, wire, tasks, resolving, dropped>>

\* A click in the list, or text typed in the field.
Select(p) ==
    /\ ~window.working /\ p # window.folder /\ Spend("selects")
    /\ window' = [window EXCEPT !.folder = p, !.planned = NoPlace]
    /\ UNCHANGED <<builds, file, form, worker, scan, wire, orders, tasks, resolving, dropped>>

Browse == /\ ~window.picking /\ ~window.working /\ Spend("picks")
          /\ window' = [window EXCEPT !.picking = TRUE]
          /\ UNCHANGED <<builds, file, form, worker, scan, wire, orders, tasks, resolving, dropped>>
FolderPicked ==
    /\ window.picking
    /\ \/ window' = [window EXCEPT !.picking = FALSE]
       \/ \E p \in Places : window' = [window EXCEPT !.picking = FALSE, !.folder = p,
                                                     !.planned = NoPlace]
    /\ UNCHANGED <<could, builds, file, form, worker, scan, wire, orders, tasks, resolving, dropped>>

\* Compress or Decompress: a thread plans, and nothing starts before the user agrees.
Plan ==
    /\ ~window.working /\ window.folder # NoPlace /\ Spend("plans")
    /\ window' = [window EXCEPT !.working = TRUE, !.planned = NoPlace]
    /\ tasks' = tasks \cup {[kind |-> "plan", folder |-> window.folder]}
    /\ UNCHANGED <<builds, file, form, worker, scan, wire, orders, resolving, dropped>>

Rested(w)  == [w EXCEPT !.working = FALSE]
Planned ==
    /\ \E t \in tasks :
           /\ t.kind = "plan" /\ tasks' = tasks \ {t}
           /\ \E plan \in {t.folder, window.planned} :
                  window' = [Rested(window) EXCEPT !.planned = plan]
    /\ UNCHANGED <<could, builds, file, form, worker, scan, wire, orders, resolving, dropped>>

\* On macOS a thread of this process; on Windows a job of the worker's.
Start(folder, w) ==
    IF windows THEN window' = w /\ orders' = orders \cup {"go"} /\ UNCHANGED tasks
    ELSE /\ UNCHANGED orders
         /\ IF w.working THEN window' = w /\ UNCHANGED tasks
            ELSE /\ window' = [w EXCEPT !.working = TRUE, !.cancel = "live"]
                 /\ tasks' = tasks \cup {[kind |-> "job", folder |-> folder]}

\* The plan is taken, and it may no longer fit.
StartPlanned ==
    /\ window.planned # NoPlace
    /\ LET w == [window EXCEPT !.planned = NoPlace]
       IN \/ Start(window.planned, w)
          \/ window' = w /\ UNCHANGED <<orders, tasks>>
    /\ UNCHANGED <<could, builds, file, form, worker, scan, wire, resolving, dropped>>
CancelPlanned ==
    /\ window.planned # NoPlace /\ window' = [window EXCEPT !.planned = NoPlace]
    /\ UNCHANGED <<could, builds, file, form, worker, scan, wire, orders, tasks, resolving, dropped>>

\* The button of an interrupted job's record.
Recover(p) ==
    /\ ~window.working /\ Spend("recovers")
    /\ IF windows THEN Start(p, window)
       ELSE /\ window' = [window EXCEPT !.working = TRUE] /\ UNCHANGED orders
            /\ tasks' = tasks \cup {[kind |-> "recovery", folder |-> p]}
    /\ UNCHANGED <<builds, file, form, worker, scan, wire, resolving, dropped>>

Stop == /\ mac /\ window.cancel = "live" /\ window' = [window EXCEPT !.cancel = "raised"]
        /\ UNCHANGED <<could, builds, file, form, worker, scan, wire, orders, tasks, resolving,
                       dropped>>

Finished ==
    /\ \E t \in tasks : /\ t.kind \in {"job", "recovery"} /\ tasks' = tasks \ {t}
    /\ window' = [Rested(window) EXCEPT !.cancel = "none"]
    /\ UNCHANGED <<could, builds, file, form, worker, scan, wire, orders, resolving, dropped>>

Update(p) == /\ Spend("updates") /\ builds' = [builds EXCEPT ![p] = @ + 1]
             /\ UNCHANGED <<file, form, window, worker, scan, wire, orders, tasks, resolving,
                            dropped>>

(***************************************************************************)
(* Behaviours.                                                             *)
(***************************************************************************)
Arrive(kind) == \E i \in DOMAIN wire : wire[i].kind = kind /\ (Scanned(i) \/ WorkerReplied(i))
Saving   == PreferencesLoaded \/ SaveRuns \/ PreferencesSaved
Scanning == ScanRead \/ Arrive("scan")
PollingSteps == Polled \/ Arrive("poll")
Ordering == (\E o \in orders : OrderServed(o)) \/ Arrive("command")
Working  == Planned \/ Finished \/ \E p \in Places : LocationResolved(p)
User ==
    \/ Choose \/ RefreshPressed \/ Browse \/ FolderPicked \/ Plan \/ StartPlanned
    \/ CancelPlanned \/ Stop \/ WorkerCommand
    \/ \E p \in Places : AddLocation(p) \/ RemoveLocation(p) \/ Select(p) \/ Recover(p)

NativeNext ==
    \/ Saving \/ Scanning \/ PollingSteps \/ PollDropped \/ Ordering \/ Working
    \/ TimerPoll \/ Discovers \/ Exits \/ User \/ \E p \in Places : Update(p)

\* Threads end, the runtime delivers their messages, the timers fire.
NativeFair ==
    /\ WF_natives(Saving) /\ WF_natives(Scanning) /\ WF_natives(PollingSteps)
    /\ WF_natives(Ordering) /\ WF_natives(Working) /\ WF_natives(TimerPoll)
    /\ WF_natives(Discovers)

NativeSpec == NativeInit /\ [][NativeNext]_natives /\ NativeFair

(***************************************************************************)
(* Correctness.                                                            *)
(***************************************************************************)
NativeOK ==
    /\ builds \in Lists /\ file \in Preferences /\ form.shown \in Preferences
    /\ {window.games, window.art, window.seen, worker.games} \subseteq Lists
    /\ {window.planned, window.folder} \subseteq Places \cup {NoPlace}
    /\ form.thread = NoSave \/ form.thread.prefs \in Preferences
    /\ orders \subseteq {"stop", "go", "refresh"} /\ resolving \subseteq Places
    /\ window.scanning = (scan = "asked" \/ \E i \in DOMAIN wire : wire[i].kind = "scan")

\* One operation works at a time in this process, and the window knows: it says it works
\* exactly while one does, and Stop has a flag to raise exactly while a job runs
\* (native.rs:199, native.rs:376, native.rs:949).
OneTask ==
    /\ Cardinality(tasks) <= 1
    /\ window.working = (tasks # {})
    /\ (window.cancel # "none") = (\E t \in tasks : t.kind = "job")

\* A place the user did not remove stays in desktop.json, whatever loads, edits and saves
\* overlap: neither the defaults before a load nor an older copy replaces the file
\* (native.rs:174, native.rs:1508).
PlacesKept == [][\A p \in file.places \ file'.places : p \in dropped]_natives

\* When no save is under way, the file says what the window shows, unless the last save
\* failed (native.rs:177, native.rs:547).
ShownIsSaved == form.loaded /\ form.thread = NoSave /\ ~form.failed => file = form.shown

\* Whatever loads, edits, saves, plans, jobs and recoveries overlap, the saved preferences
\* are those the window shows, keep every place, and one operation works at a time.
PreferencesKept == [](NativeOK /\ OneTask /\ ShownIsSaved) /\ PlacesKept

\* In the end the list is that of the saved places at their builds, unless a plan keeps
\* the timer waiting, or there is no worker that the window polls (native.rs:489,
\* native.rs:848).
Followed    == IF mac THEN window.planned = NoPlace ELSE worker.up /\ window.enabled
ListFollows == <>[](Followed => window.games = Listed)

\* The artwork maps are rebuilt when the list they were built for is no longer the one
\* shown (native.rs:534).
ArtFollows == <>[](Followed => window.art = window.games)

\* The plan on screen is for the folder in the field (native.rs:203).
PlanTarget == window.planned \in {NoPlace, window.folder}
================================================================================

------------------------------- MODULE Evidence --------------------------------
(***************************************************************************)
(* The evidence that lets a game be put into a store.  A wizard hashes     *)
(* the folder and writes a report; an analysis hashes it again and names   *)
(* the report that fits; a qualified activation hashes it twice more,      *)
(* before the store is built and just before the switch.  The launcher     *)
(* writes files and installs builds meanwhile.                             *)
(*                                                                         *)
(* A file's version stands for its fingerprint, which a write always       *)
(* changes.  Its content, which is what the hashes and the store compare,  *)
(* may be one the file had before.  Version 0 is no file.                  *)
(***************************************************************************)
EXTENDS Naturals, FiniteSets

CONSTANTS
    Titles,             \* games
    FileCount,          \* bound: files of a game, in path order
    ContentCount,       \* bound: the contents a file can have
    EvidenceBudgets     \* bound: the platform, the games' sizes, what may happen how often

EvidenceKinds == {"writes", "builds", "wizards", "measures", "saves", "imports", "badWrites",
                  "kills", "analyses", "activations", "stops", "scans", "badScans"}
NoTitle  == "no game"
NoReport == [of |-> NoTitle]

ASSUME EvidenceAssumption ==
    /\ FileCount \in Nat \ {0} /\ ContentCount \in Nat \ {0} /\ NoTitle \notin Titles
    /\ EvidenceBudgets \subseteq
           [linux : BOOLEAN, games : SUBSET Titles, may : [EvidenceKinds -> Nat]]

VARIABLES
    allowed,    \* the platform, the games, and what may still happen
    folders,    \* per game: the version of each file
    launcher,   \* per game: the build installed and the one listed, the last version
    reports,    \* the report folder: reports, whole or cut short
    saver,      \* the thread or command that saves a report
    wizard,     \* the wizard's form
    measuring,  \* games whose allocation threads measure
    desk,       \* the reports the window holds, and those it said are saved
    hashers,    \* per actor: a walk of a game's files
    job,        \* the analysis or activation at work
    estimates,  \* per game: the build and the report of the last analysis
    stores,     \* per game: the contents its store holds
    switched    \* per game: what the game is served from, and on which report

evidence == <<allowed, folders, launcher, reports, saver, wizard, measuring, desk, hashers, job,
              estimates, stores, switched>>

FileNumbers == 1..FileCount
Folder      == [FileNumbers -> Nat]
Present(t)  == {f \in FileNumbers : folders[t][f] # 0}
Nothing     == [f \in FileNumbers |-> 0]
Content(version) == IF version = 0 THEN 0 ELSE 1 + (version % ContentCount)
Contents(t)      == [f \in FileNumbers |-> Content(folders[t][f])]
Qualified(t, build, corpus, good) ==
    [of |-> t, build |-> build, corpus |-> corpus, good |-> good]

Mays(kind)   == allowed.may[kind] > 0
Spends(kind) == Mays(kind) /\ allowed' = [allowed EXCEPT !.may[kind] = @ - 1]
Games == allowed.games

NoHash == [at |-> "idle", of |-> NoTitle, build |-> 0, list |-> Nothing, next |-> 1,
           got |-> Nothing, instant |-> Nothing]
NoJob  == [kind |-> "none", of |-> NoTitle, build |-> 0, step |-> "none", report |-> NoReport,
           candidates |-> {}, left |-> [f \in FileNumbers |-> {}], returned |-> {}]
NoForm == [of |-> NoTitle, build |-> 0, corpus |-> Nothing, after |-> NoTitle]
NoSaver == [at |-> "none", report |-> NoReport, wizard |-> FALSE]
NoEstimate == [build |-> 0, report |-> NoReport]

EvidenceInit ==
    /\ allowed \in EvidenceBudgets
    /\ folders = [t \in Titles |-> [f \in FileNumbers |-> 1]]
    /\ launcher = [t \in Titles |-> [build |-> 1, listed |-> 1, written |-> 1]]
    /\ reports = {} /\ saver = NoSaver /\ wizard = NoForm /\ measuring = {}
    /\ desk = [reports |-> {}, claimed |-> {}]
    /\ hashers = [a \in {"wizard", "job"} |-> NoHash] /\ job = NoJob
    /\ estimates = [t \in Titles |-> NoEstimate]
    /\ stores = [t \in Titles |-> Nothing]
    /\ switched = [t \in Titles |-> [from |-> Nothing, report |-> NoReport, build |-> 0,
                                    returned |-> {}]]

(***************************************************************************)
(* The launcher.                                                           *)
(***************************************************************************)
\* Which contents a file leaves while an activation on a report goes on, and which files
\* came back to one of them: the activation hashes twice and does not see what was between.
Leaves(t, f, old, new) ==
    LET left == [job.left EXCEPT ![f] = @ \cup {old}]
    IN IF job.report = NoReport \/ job.of # t \/ old = new THEN UNCHANGED job
       ELSE job' = [job EXCEPT !.left = left,
                               !.returned = IF new \in left[f] THEN @ \cup {f} ELSE @]

Writes(t, f) ==
    /\ switched[t].from = Nothing /\ Spends("writes")
    /\ LET last == launcher[t].written
       IN \E version \in ({0} \cup (last + 1)..(last + ContentCount)) \ {folders[t][f]} :
              /\ version = 0 => Present(t) # {f}
              /\ folders' = [folders EXCEPT ![t][f] = version]
              /\ launcher' = [launcher EXCEPT ![t].written = IF version = 0 THEN @ ELSE version]
              /\ Leaves(t, f, Content(folders[t][f]), Content(version))
    /\ UNCHANGED <<reports, saver, wizard, measuring, desk, hashers, estimates, stores, switched>>

Installs(t) ==
    /\ Spends("builds") /\ launcher' = [launcher EXCEPT ![t].build = @ + 1]
    /\ UNCHANGED <<folders, reports, saver, wizard, measuring, desk, hashers, job, estimates,
                   stores, switched>>

(***************************************************************************)
(* The hash of a folder: list the files; open, read and check each one;    *)
(* list again and check all of them against the first list.  Away from     *)
(* Linux each file is checked by itself.                                   *)
(***************************************************************************)
Hashing(t, build) == [NoHash EXCEPT !.at = "list", !.of = t, !.build = build]
After(h)  == {f \in FileNumbers : f > h.next /\ h.list[f] # 0}
Least(S)  == CHOOSE f \in S : \A g \in S : f <= g
Unchanged(h, f) == folders[h.of][f] = h.list[f]

\* Variant for a mutation: the files are not compared once more.
RecheckedNot(h) == TRUE
Rechecked(h)    == \A f \in FileNumbers : h.list[f] # 0 => Unchanged(h, f)

Hashed(a) ==
    LET h == hashers[a]
        turns(change) == hashers' = [hashers EXCEPT ![a] = change]
        fails == turns([h EXCEPT !.at = "failed"])
    IN CASE h.at = "list" ->
              turns([h EXCEPT !.list = folders[h.of], !.at = "open",
                              !.next = Least(Present(h.of))])
         [] h.at = "open" /\ allowed.linux ->
              IF Unchanged(h, h.next) THEN turns([h EXCEPT !.at = "read"]) ELSE fails
         [] h.at = "open" /\ ~allowed.linux ->
              IF h.next \in Present(h.of)
              THEN turns([h EXCEPT !.at = "read", !.list[h.next] = folders[h.of][h.next]])
              ELSE fails
         [] h.at = "read" ->
              turns([h EXCEPT !.at = "check", !.got[h.next] = Content(folders[h.of][h.next])])
         [] h.at = "check" ->
              IF ~Unchanged(h, h.next) THEN fails
              ELSE IF After(h) # {} THEN turns([h EXCEPT !.at = "open", !.next = Least(After(h))])
              ELSE turns([h EXCEPT !.at = IF allowed.linux THEN "again" ELSE "done"])
         [] h.at = "again" ->
              IF Cardinality(Present(h.of)) = Cardinality({f \in FileNumbers : h.list[f] # 0})
              THEN turns([h EXCEPT !.at = "recheck", !.instant = Contents(h.of)])
              ELSE fails
         [] h.at = "recheck" ->
              IF Rechecked(h) THEN turns([h EXCEPT !.at = "done"]) ELSE fails

Hashes(a) ==
    /\ hashers[a].at \notin {"idle", "done", "failed"} /\ Hashed(a)
    /\ UNCHANGED <<allowed, folders, launcher, reports, saver, wizard, measuring, desk, job,
                   estimates, stores, switched>>

Ended(a) == hashers[a].at \in {"done", "failed"}
Rests(a) == hashers' = [hashers EXCEPT ![a] = NoHash]

(***************************************************************************)
(* The wizard.                                                             *)
(***************************************************************************)
Qualify(t) ==
    /\ hashers["wizard"] = NoHash /\ Spends("wizards")
    /\ hashers' = [hashers EXCEPT !["wizard"] = Hashing(t, launcher[t].listed)]
    /\ UNCHANGED <<folders, launcher, reports, saver, wizard, measuring, desk, job, estimates,
                   stores, switched>>

QualificationReady ==
    /\ Ended("wizard") /\ Rests("wizard")
    /\ LET h == hashers["wizard"]
       IN wizard' = IF h.at = "failed" THEN wizard
                  ELSE [NoForm EXCEPT !.of = h.of, !.build = h.build, !.corpus = h.got]
    /\ UNCHANGED <<allowed, folders, launcher, reports, saver, measuring, desk, job, estimates,
                   stores, switched>>

\* On Linux the copy is the store if the game is in one; a folder is not measured as one.
MeasureQualification ==
    /\ wizard # NoForm /\ Spends("measures") /\ measuring' = measuring \cup {wizard.of}
    /\ UNCHANGED <<folders, launcher, reports, saver, wizard, desk, hashers, job, estimates,
                   stores, switched>>

QualificationMeasured(t) ==
    /\ t \in measuring /\ measuring' = measuring \ {t}
    /\ \/ wizard # NoForm /\ wizard' = [wizard EXCEPT !.after = t]
       \/ UNCHANGED wizard
    /\ UNCHANGED <<allowed, folders, launcher, reports, saver, desk, hashers, job, estimates,
                   stores, switched>>

\* Escape and the Close button.
CloseQualification ==
    /\ wizard # NoForm /\ wizard' = NoForm
    /\ UNCHANGED <<allowed, folders, launcher, reports, saver, measuring, desk, hashers, job,
                   estimates, stores, switched>>

\* The report of a complete form; whether the checks and load times pass is the tester's
\* finding.
SaveQualification ==
    /\ wizard # NoForm /\ wizard.after # NoTitle /\ saver = NoSaver /\ Spends("saves")
    /\ \E good \in BOOLEAN :
           saver' = [at |-> "look", wizard |-> TRUE,
                     report |-> Qualified(wizard.of, wizard.build, wizard.corpus, good)]
    /\ UNCHANGED <<folders, launcher, reports, wizard, measuring, desk, hashers, job, estimates,
                   stores, switched>>

\* A report written elsewhere; the games it was made on have the installed build or not.
ImportReport(t) ==
    /\ saver = NoSaver /\ Spends("imports")
    /\ \E build \in {1, launcher[t].build} :
           saver' = [at |-> "look", wizard |-> FALSE,
                     report |-> Qualified(t, build, Contents(t), TRUE)]
    /\ UNCHANGED <<folders, launcher, reports, wizard, measuring, desk, hashers, job, estimates,
                   stores, switched>>

\* A name in use is a report already stored; else the file is created and then written.
Stored(r, whole) == [report |-> r, whole |-> whole]
Saves ==
    /\ \/ /\ saver.at = "look" /\ UNCHANGED allowed
          /\ IF \E s \in reports : s.report = saver.report
             THEN saver' = [saver EXCEPT !.at = "saved"] /\ UNCHANGED reports
             ELSE /\ saver' = [saver EXCEPT !.at = "write"]
                  /\ reports' = reports \cup {Stored(saver.report, FALSE)}
       \/ /\ saver.at = "write" /\ saver' = [saver EXCEPT !.at = "saved"] /\ UNCHANGED allowed
          /\ reports' = (reports \ {Stored(saver.report, FALSE)})
                            \cup {Stored(saver.report, TRUE)}
       \/ /\ saver.at = "write" /\ Spends("badWrites")
          /\ saver' = [saver EXCEPT !.at = "failed"] /\ UNCHANGED reports
    /\ UNCHANGED <<folders, launcher, wizard, measuring, desk, hashers, job, estimates, stores,
                   switched>>

\* On Linux a failed save leaves the wizard open, elsewhere it closes it too.
SaveAnswered ==
    /\ saver.at \in {"saved", "failed"} /\ saver' = NoSaver
    /\ LET r == saver.report
       IN IF saver.at = "failed"
          THEN /\ wizard' = IF saver.wizard /\ ~allowed.linux THEN NoForm ELSE wizard
               /\ UNCHANGED desk
          ELSE /\ wizard' = IF saver.wizard THEN NoForm ELSE wizard
               /\ desk' = [claimed |-> desk.claimed \cup {r},
                           reports |-> IF saver.wizard THEN desk.reports
                                       ELSE desk.reports \cup {r}]
    /\ UNCHANGED <<allowed, folders, launcher, reports, measuring, hashers, job, estimates,
                   stores, switched>>

\* What a load returns; a file that cannot be read is skipped.
Loaded == {s.report : s \in {s \in reports : s.whole}}

\* A scan of the window: the builds the launchers record, and the reports, or none.
Scans ==
    /\ allowed.linux
    /\ launcher' = [t \in Titles |-> [launcher[t] EXCEPT !.listed = launcher[t].build]]
    /\ \/ Spends("scans") /\ desk' = [desk EXCEPT !.reports = Loaded]
       \/ Spends("badScans") /\ desk' = [desk EXCEPT !.reports = {}]
    /\ UNCHANGED <<folders, reports, saver, wizard, measuring, hashers, job, estimates, stores,
                   switched>>

\* The window's process ends, with its threads.
Killed ==
    /\ Spends("kills") /\ saver' = NoSaver /\ wizard' = NoForm /\ measuring' = {}
    /\ desk' = [desk EXCEPT !.reports = {}]
    /\ hashers' = [hashers EXCEPT !["wizard"] = NoHash]
    /\ UNCHANGED <<folders, launcher, reports, job, estimates, stores, switched>>

(***************************************************************************)
(* The analysis.                                                           *)
(***************************************************************************)
Qualifies(r, t, build, corpus) ==
    r # NoReport /\ r.of = t /\ r.build = build /\ r.corpus = corpus /\ r.good

Candidates(t, build) == {r \in Loaded : Qualifies(r, t, build, r.corpus)}
Hands(t, build) == hashers' = [hashers EXCEPT !["job"] = Hashing(t, build)]

Analyze(t) ==
    /\ allowed.linux /\ job = NoJob /\ Spends("analyses")
    /\ LET build == launcher[t].listed
       IN IF Candidates(t, build) = {}
          THEN /\ estimates' = [estimates EXCEPT ![t] = [build |-> build, report |-> NoReport]]
               /\ UNCHANGED <<job, hashers>>
          ELSE /\ job' = [NoJob EXCEPT !.kind = "analyze", !.of = t, !.build = build,
                                       !.candidates = Candidates(t, build)]
               /\ Hands(t, build) /\ UNCHANGED estimates
    /\ UNCHANGED <<folders, launcher, reports, saver, wizard, measuring, desk, stores, switched>>

Analyzed ==
    /\ job.kind = "analyze" /\ Ended("job") /\ Rests("job") /\ job' = NoJob
    /\ LET h == hashers["job"]
           fitting == {r \in job.candidates : r.corpus = h.got}
           found   == IF fitting = {} THEN {NoReport} ELSE fitting
       IN IF h.at = "failed" THEN UNCHANGED estimates
          ELSE \E r \in found :
                   estimates' = [estimates EXCEPT ![job.of] = [build |-> job.build, report |-> r]]
    /\ UNCHANGED <<allowed, folders, launcher, reports, saver, wizard, measuring, desk, stores,
                   switched>>

(***************************************************************************)
(* The activation of Maximum Space.                                        *)
(***************************************************************************)
Estimate(t) == IF estimates[t].build = launcher[t].listed THEN estimates[t].report ELSE NoReport

\* The report the estimate names goes with the job, if the window still has it.
Attached(t) == IF Estimate(t) \in desk.reports THEN Estimate(t) ELSE NoReport

Step(step)     == step
Continues(step) == job' = [job EXCEPT !.step = Step(step)]

\* Optimize takes the report along, the controls of the store itself do not.
Activate(t) ==
    /\ allowed.linux /\ job = NoJob /\ switched[t].from = Nothing /\ Spends("activations")
    /\ \E report \in {Attached(t), NoReport} :
           /\ job' = [NoJob EXCEPT !.kind = "activate", !.of = t, !.build = launcher[t].listed,
                                   !.report = report,
                                   !.step = IF report = NoReport THEN "build" ELSE "first"]
           /\ IF report = NoReport THEN UNCHANGED hashers ELSE Hands(t, launcher[t].listed)
    /\ UNCHANGED <<folders, launcher, reports, saver, wizard, measuring, desk, estimates,
                   stores, switched>>

JobGone == job' = NoJob /\ hashers' = [hashers EXCEPT !["job"] = NoHash]

\* Both hashes must equal the report's corpus.
HashCompared ==
    /\ job.kind = "activate" /\ job.step \in {"first", "second"} /\ Ended("job")
    /\ LET h == hashers["job"]
       IN IF h.at = "done" /\ Qualifies(job.report, job.of, job.build, h.got)
          THEN /\ Rests("job") /\ Continues(IF job.step = "first" THEN "build" ELSE "switch")
          ELSE JobGone
    /\ UNCHANGED <<allowed, folders, launcher, reports, saver, wizard, measuring, desk, estimates,
                   stores, switched>>

\* A store that is there is used again.
Builds ==
    /\ job.step = "build" /\ Continues("prepare")
    /\ stores' = IF stores[job.of] = Nothing
                 THEN [stores EXCEPT ![job.of] = Contents(job.of)] ELSE stores
    /\ UNCHANGED <<allowed, folders, launcher, reports, saver, wizard, measuring, desk, hashers,
                   estimates, switched>>

\* The store is compared with the folder, every path and byte.
Prepares ==
    /\ job.step = "prepare"
    /\ IF stores[job.of] # Contents(job.of) THEN JobGone
       ELSE IF job.report = NoReport THEN Continues("switch") /\ UNCHANGED hashers
       ELSE /\ Continues("second")
            /\ IF Step("second") = "second" THEN Hands(job.of, job.build) ELSE UNCHANGED hashers
    /\ UNCHANGED <<allowed, folders, launcher, reports, saver, wizard, measuring, desk, estimates,
                   stores, switched>>

Switches ==
    /\ job.step = "switch" /\ job' = NoJob
    /\ switched' = [switched EXCEPT ![job.of] =
                        [from |-> stores[job.of], report |-> job.report, build |-> job.build,
                         returned |-> job.returned]]
    /\ UNCHANGED <<allowed, folders, launcher, reports, saver, wizard, measuring, desk, hashers,
                   estimates, stores>>

\* A cancel, a game that runs, a drive that is full: a job ends before its switch.
JobStops ==
    /\ job # NoJob /\ Spends("stops") /\ JobGone
    /\ UNCHANGED <<folders, launcher, reports, saver, wizard, measuring, desk, estimates, stores,
                   switched>>

(***************************************************************************)
(* Behaviours.                                                             *)
(***************************************************************************)
EvidenceNext ==
    \/ \E t \in Games : \/ Installs(t) \/ Qualify(t) \/ ImportReport(t) \/ Analyze(t)
                        \/ Activate(t) \/ QualificationMeasured(t)
                        \/ \E f \in FileNumbers : Writes(t, f)
    \/ \E a \in {"wizard", "job"} : Hashes(a)
    \/ QualificationReady \/ MeasureQualification \/ CloseQualification \/ SaveQualification
    \/ Saves \/ SaveAnswered \/ Scans \/ Killed \/ Analyzed \/ HashCompared \/ Builds
    \/ Prepares \/ Switches \/ JobStops

EvidenceSpec == EvidenceInit /\ [][EvidenceNext]_evidence

(***************************************************************************)
(* Correctness.                                                            *)
(***************************************************************************)
EvidenceOK ==
    /\ \A t \in Titles : folders[t] \in Folder /\ Present(t) # {} /\ stores[t] \in Folder
    /\ measuring \subseteq Titles /\ {s.report.of : s \in reports} \subseteq Titles
    /\ \A a \in DOMAIN hashers : /\ hashers[a].at = "idle" <=> hashers[a] = NoHash
                                 /\ {hashers[a].list, hashers[a].got} \subseteq Folder
    /\ job.step \in {"none", "first", "build", "prepare", "second", "switch"}
    /\ (hashers["job"] # NoHash) =
           (job.kind = "analyze" \/ job.step \in {"first", "second"})

\* On Linux a hash describes the folder as it was at one moment, whatever the launcher
\* wrote while the files were read (compatibility.rs:413).
CorpusReal ==
    allowed.linux =>
        \A a \in DOMAIN hashers :
            hashers[a].at = "done" => hashers[a].got = hashers[a].instant

\* A game that was switched on a report is served the files the report was made on, with
\* the same contents and no others, at the build it names, whether its store was built now
\* or was there (service.rs:1228).  Only a file that was changed and changed back while the
\* activation went on may be another: both hashes fit, and neither is of the moment the
\* store was compared.
QualifiedStore ==
    \A t \in Titles :
        LET report == switched[t].report
        IN report # NoReport =>
            /\ Qualifies(report, t, switched[t].build, report.corpus)
            /\ \A f \in FileNumbers \ switched[t].returned :
                   switched[t].from[f] = report.corpus[f]

\* Hashes are of files that existed together, and the stores chosen by them hold those.
EvidenceReal == EvidenceOK /\ CorpusReal /\ QualifiedStore

\* A report the user was told is saved can be loaded (compatibility.rs:255).
SavedLoads == desk.claimed \subseteq Loaded

\* The sizes in the wizard are those of its own game (qualification.rs:107).
MeasuredOwn == wizard.after \in {NoTitle, wizard.of}
================================================================================

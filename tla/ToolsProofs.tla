----------------------------- MODULE ToolsProofs -----------------------------
(***************************************************************************)
(* What is proved of the tools beside the coordinator: the reports on the  *)
(* compression of a game, the catalog of the games on the disks, the live  *)
(* compression of a Steam library, the watcher of its manifests, the room  *)
(* that work on a drive needs, and the estimates of what compression would *)
(* free.  Each part has the invariant its theorem needs, what every action *)
(* makes of it, and the theorem.                                           *)
(***************************************************************************)
EXTENDS Evidence, Discovery, LiveCompression, Watch, SpacePlans, Sampling, FiniteSetTheorems,
        WellFoundedInduction, TLAPS

(***************************************************************************)
(* The reports on a game are of the files that are there.                  *)
(*                                                                         *)
(* EvidenceReal speaks of a report that was saved and of a store that was  *)
(* switched on, and neither is inductive: a report is written out of a     *)
(* hash that began many steps before, while the launcher goes on writing.  *)
(* So the invariant follows the hash.  A hash that has not failed knows,   *)
(* of each file it has read, a version the folder had while it ran, and    *)
(* after the second look an instant at which the folder was just what it   *)
(* read; and no folder has a version the launcher has not written yet.  Of *)
(* an activation it says, for each file that did not come back to contents *)
(* it had left: it still is what the report says or has left that, so the  *)
(* second hash can find the report's contents only where it never did.     *)
(***************************************************************************)
ReportTypes == [of : Titles, build : Nat, corpus : Folder, good : BOOLEAN]
SomeReport  == ReportTypes \cup {NoReport}
SomeTitle   == Titles \cup {NoTitle}
HashSteps   == {"list", "open", "read", "check", "again", "recheck"}
HashTypes   == [at : HashSteps \cup {"idle", "done", "failed"}, of : SomeTitle, build : Nat,
                list : Folder, next : FileNumbers, got : Folder, instant : Folder]
JobTypes    == [kind : {"none", "analyze", "activate"}, of : SomeTitle, build : Nat,
                step : {"none", "first", "build", "prepare", "second", "switch"},
                report : SomeReport, candidates : SUBSET ReportTypes,
                left : [FileNumbers -> SUBSET Nat], returned : SUBSET FileNumbers]

EvidenceTypes ==
    /\ allowed \in [linux : BOOLEAN, games : SUBSET Titles, may : [EvidenceKinds -> Nat]]
    /\ folders \in [Titles -> Folder] /\ stores \in [Titles -> Folder]
    /\ launcher \in [Titles -> [build : Nat, listed : Nat, written : Nat]]
    /\ reports \subseteq [report : ReportTypes, whole : BOOLEAN]
    /\ saver \in [at : {"none", "look", "write", "saved", "failed"}, report : SomeReport,
                  wizard : BOOLEAN]
    /\ wizard \in [of : SomeTitle, build : Nat, corpus : Folder, after : SomeTitle]
    /\ measuring \subseteq Titles
    /\ desk \in [reports : SUBSET ReportTypes, claimed : SUBSET ReportTypes]
    /\ hashers \in [{"wizard", "job"} -> HashTypes] /\ job \in JobTypes
    /\ switched \in [Titles -> [from : Folder, report : SomeReport, build : Nat,
                               returned : SUBSET FileNumbers]]

\* Whoever works works on a game, and the job hashes while its step is a hash.
EvidenceTitled ==
    /\ \A t \in Titles : Present(t) # {}
    /\ \A a \in {"wizard", "job"} : /\ hashers[a].at = "idle" <=> hashers[a] = NoHash
                                    /\ hashers[a].at # "idle" => hashers[a].of \in Titles
    /\ job # NoJob => job.of \in Titles /\ job.kind # "none" /\ allowed.linux
    /\ job.kind = "activate" <=> job.step # "none"
    /\ hashers["job"] # NoHash <=> job.kind = "analyze" \/ job.step \in {"first", "second"}
    /\ saver.at # "none" => saver.report \in ReportTypes
    /\ wizard # NoForm => wizard.of \in Titles

\* No version is there that was not written, so one that is gone does not come back.
Written == \A t \in Titles, f \in FileNumbers : folders[t][f] <= launcher[t].written

HasRead(h, f) ==
    \/ f < h.next \/ h.at \in {"again", "recheck", "done"} \/ (f = h.next /\ h.at = "check")

\* What a hash on Linux has read of a file is what it listed, if the file has not changed.
ListTrue(h) ==
    /\ \A f \in FileNumbers : /\ h.list[f] <= launcher[h.of].written
                              /\ h.list[f] = 0 => h.got[f] = 0
    /\ h.at = "list" => h.got = Nothing
    /\ h.at \in {"open", "read", "check"} => h.list[h.next] # 0
    /\ h.at # "list" =>
           \A f \in FileNumbers :
               HasRead(h, f) /\ h.list[f] # 0 /\ folders[h.of][f] = h.list[f]
                   => h.got[f] = Content(h.list[f])
InstantTrue(h) ==
    /\ h.at = "recheck" =>
           /\ Cardinality({f \in FileNumbers : h.instant[f] # 0})
                  = Cardinality({f \in FileNumbers : h.list[f] # 0})
           /\ \A f \in FileNumbers :
                  h.list[f] # 0 /\ folders[h.of][f] = h.list[f]
                      => h.instant[f] = Content(h.list[f])
    /\ h.at = "done" => h.got = h.instant
HashTrue(h) == h.at \notin {"idle", "failed"} => ListTrue(h) /\ InstantTrue(h)
HashesTrue == allowed.linux => \A a \in {"wizard", "job"} : HashTrue(hashers[a])

\* What an activation on a report knows of a file that has not come back.
Steady    == FileNumbers \ job.returned
Now(f)    == Content(folders[job.of][f])
Looked(h) == h.at \in {"recheck", "done"}
Confirmed ==
    /\ Qualifies(job.report, job.of, job.build, job.report.corpus)
    /\ \A f \in Steady : job.report.corpus[f] = Now(f) \/ job.report.corpus[f] \in job.left[f]
Built(contents) ==
    \A f \in Steady :
        contents[f] = job.report.corpus[f] => stores[job.of][f] = job.report.corpus[f]
JobHash ==
    LET h == hashers["job"]
    IN /\ job.report # NoReport /\ h.of = job.of
       /\ Looked(h) => \A f \in Steady : h.instant[f] = Now(f) \/ h.instant[f] \in job.left[f]
       /\ job.step = "second" =>
              /\ \A f \in Steady : \/ stores[job.of][f] = job.report.corpus[f]
                                   \/ job.report.corpus[f] \in job.left[f]
              /\ Looked(h) => Built(h.instant)
JobTrue ==
    /\ job.report # NoReport => \A f \in Steady : Now(f) \notin job.left[f]
    /\ job.step \in {"first", "second"} => JobHash
    /\ job.step \in {"build", "prepare", "second", "switch"} /\ job.report # NoReport => Confirmed
    /\ job.step = "switch" /\ job.report # NoReport => Built(job.report.corpus)

EvidenceInv ==
    /\ EvidenceTypes /\ EvidenceTitled /\ Written /\ HashesTrue /\ JobTrue /\ QualifiedStore

\* A nonempty set of file numbers has a least one.
LEMMA LeastIn ==
    ASSUME NEW S \in SUBSET FileNumbers, S # {}
    PROVE  Least(S) \in S /\ \A g \in S : Least(S) <= g
<1> DEFINE Below(x) == 1 .. (x - 1)
           T == {Below(x) : x \in S}
<1>1. FileCount \in Nat /\ IsFiniteSet(FileNumbers)
  BY EvidenceAssumption, FS_Interval DEF FileNumbers
<1>2. \A x \in S : Below(x) \in SUBSET FileNumbers
  BY <1>1 DEF FileNumbers
<1>3. T \subseteq SUBSET FileNumbers /\ T # {}
  BY <1>2
<1>4. T \subseteq FiniteSubsetsOf(FileNumbers)
  BY <1>1, <1>3, FS_FiniteSubsetsOfFinite
<1>5. IsWellFoundedOn(StrictSubsetOrdering(FileNumbers), FiniteSubsetsOf(FileNumbers))
  BY FS_StrictSubsetOrderingWellFounded
<1>6. PICK A \in T : \A B \in T : <<B, A>> \notin StrictSubsetOrdering(FileNumbers)
  BY <1>3, <1>4, <1>5, WFMin
<1>7. PICK x \in S : A = Below(x)
  OBVIOUS
<1>8. ASSUME NEW y \in S, y < x PROVE FALSE
  <2>1. Below(y) \in T /\ Below(y) \subseteq A /\ y \in A /\ y \notin Below(y)
    BY <1>1, <1>7, <1>8 DEF FileNumbers
  <2>2. <<Below(y), A>> \in StrictSubsetOrdering(FileNumbers)
    BY <1>3, <2>1 DEF StrictSubsetOrdering
  <2> QED
    BY <1>6, <2>1, <2>2
<1>9. \A y \in S : x <= y
  BY <1>1, <1>8 DEF FileNumbers
<1> QED
  BY <1>9 DEF Least

LEMMA ContentIs ==
    ASSUME NEW v \in Nat PROVE Content(v) \in Nat /\ (Content(v) = 0 <=> v = 0)
<1>1. v % ContentCount \in Nat
  BY EvidenceAssumption
<1> QED
  BY <1>1 DEF Content

LEMMA ContentsTypes ==
    ASSUME NEW t \in Titles, folders \in [Titles -> Folder] PROVE Contents(t) \in Folder
BY ContentIs DEF Contents, Folder

LEMMA NothingTypes ==
    /\ Nothing \in Folder /\ NoHash \in HashTypes /\ NoJob \in JobTypes /\ NoReport \in SomeReport
    /\ 1 \in FileNumbers /\ NoHash.at = "idle" /\ NoHash.of = NoTitle /\ NoReport.of = NoTitle
    /\ NoReport \notin ReportTypes
BY EvidenceAssumption
DEF Nothing, NoHash, NoJob, NoReport, Folder, FileNumbers, HashTypes, HashSteps, JobTypes,
    SomeReport, SomeTitle, ReportTypes

LEMMA EvidenceInvInit == EvidenceInit => EvidenceInv
<1> SUFFICES ASSUME EvidenceInit PROVE EvidenceInv
  OBVIOUS
<1>1. EvidenceTypes
  BY NothingTypes, EvidenceAssumption
  DEF EvidenceInit, EvidenceTypes, Folder, NoSaver, NoForm, SomeTitle
<1>2. EvidenceTitled
  <2>1. \A t \in Titles : Present(t) # {}
    BY NothingTypes DEF EvidenceInit, Present
  <2>2. hashers = [a \in {"wizard", "job"} |-> NoHash] /\ job = NoJob
    BY DEF EvidenceInit
  <2>3. saver.at = "none" /\ wizard = NoForm /\ NoJob.kind = "none" /\ NoJob.step = "none"
    BY DEF EvidenceInit, NoSaver, NoJob
  <2> QED
    BY <2>1, <2>2, <2>3, NothingTypes DEF EvidenceTitled
<1>3. Written
  BY DEF EvidenceInit, Written
<1>4. HashesTrue /\ JobTrue /\ QualifiedStore
  BY NothingTypes DEF EvidenceInit, HashesTrue, HashTrue, JobTrue, QualifiedStore, NoHash, NoJob
<1> QED
  BY <1>1, <1>2, <1>3, <1>4 DEF EvidenceInv

LEMMA EvidenceInvGives == EvidenceInv => EvidenceReal
<1> SUFFICES ASSUME EvidenceInv PROVE EvidenceReal
  OBVIOUS
<1>1. EvidenceOK
  BY DEF EvidenceInv, EvidenceOK, EvidenceTypes, EvidenceTitled, HashTypes, JobTypes, ReportTypes
<1>2. CorpusReal
  BY DEF EvidenceInv, CorpusReal, HashesTrue, HashTrue, InstantTrue, EvidenceTypes
<1> QED
  BY <1>1, <1>2 DEF EvidenceInv, EvidenceReal

LEMMA SpendsTypes ==
    ASSUME EvidenceTypes, NEW k \in EvidenceKinds, Spends(k)
    PROVE  /\ allowed' \in [linux : BOOLEAN, games : SUBSET Titles, may : [EvidenceKinds -> Nat]]
           /\ allowed'.linux = allowed.linux
<1>1. allowed.may \in [EvidenceKinds -> Nat] /\ allowed.may[k] > 0
  BY DEF EvidenceTypes, Spends, Mays
<1> DEFINE may == [allowed.may EXCEPT ![k] = @ - 1]
<1>2. may \in [EvidenceKinds -> Nat]
  BY <1>1
<1>3. allowed' = [allowed EXCEPT !.may = may]
  BY DEF Spends
<1> HIDE DEF may
<1> QED
  BY <1>2, <1>3 DEF EvidenceTypes

\* A hash stays true while no file changes.
LEMMA HashKeeps ==
    ASSUME NEW h, HashTrue(h), folders' = folders, h.of \in Titles,
           \A t \in Titles : launcher'[t].written = launcher[t].written
    PROVE  HashTrue(h)'
BY DEF HashTrue, ListTrue, InstantTrue, HasRead

\* No hash makes a step and no file changes.
LEMMA HashesKept ==
    ASSUME EvidenceInv, UNCHANGED <<folders, hashers>>,
           \A t \in Titles : launcher'[t].written = launcher[t].written,
           allowed'.linux = allowed.linux
    PROVE  HashesTrue'
<1> SUFFICES ASSUME allowed.linux, NEW a \in {"wizard", "job"} PROVE HashTrue(hashers[a])'
  BY DEF HashesTrue
<1>1. HashTrue(hashers[a]) /\ (hashers[a].at # "idle" => hashers[a].of \in Titles)
  BY DEF EvidenceInv, HashesTrue, EvidenceTitled
<1>2. CASE hashers[a].at # "idle"
  BY <1>1, <1>2, HashKeeps
<1>3. CASE hashers[a].at = "idle"
  BY <1>3 DEF HashTrue
<1> QED
  BY <1>2, <1>3

\* A step of a form, of a save or of the window.
LEMMA QuietKeeps ==
    ASSUME EvidenceInv, EvidenceTypes', UNCHANGED <<folders, hashers, job, stores, switched>>,
           \A t \in Titles : launcher'[t].written = launcher[t].written,
           allowed'.linux = allowed.linux, saver'.at # "none" => saver'.report \in ReportTypes,
           wizard' # NoForm => wizard'.of \in Titles
    PROVE  EvidenceInv'
<1>1. EvidenceTitled' /\ Written' /\ QualifiedStore'
  BY DEF EvidenceInv, EvidenceTitled, Written, QualifiedStore, Present
<1>2. HashesTrue'
  BY HashesKept
<1>3. JobTrue'
  BY DEF EvidenceInv, JobTrue, JobHash, Confirmed, Built, Steady, Now, Looked
<1> QED
  BY <1>1, <1>2, <1>3 DEF EvidenceInv

LEMMA InstallsKeeps == ASSUME EvidenceInv, NEW t \in Titles, Installs(t) PROVE EvidenceInv'
<1>0. launcher' \in [Titles -> [build : Nat, listed : Nat, written : Nat]]
  <2>1. launcher \in [Titles -> [build : Nat, listed : Nat, written : Nat]]
    BY DEF EvidenceInv, EvidenceTypes
  <2> QED
    BY <2>1 DEF Installs
<1>1. EvidenceTypes'
  BY <1>0, SpendsTypes DEF Installs, EvidenceInv, EvidenceTypes, EvidenceKinds
<1>2. \A u \in Titles : launcher'[u].written = launcher[u].written
  BY DEF Installs, EvidenceInv, EvidenceTypes
<1> QED
  BY <1>1, <1>2, SpendsTypes, QuietKeeps
  DEF Installs, EvidenceInv, EvidenceTitled, EvidenceKinds

LEMMA ImportReportKeeps ==
    ASSUME EvidenceInv, NEW t \in Titles, ImportReport(t) PROVE EvidenceInv'
<1>1. PICK build \in {1, launcher[t].build} :
        saver' = [at |-> "look", wizard |-> FALSE,
                  report |-> Qualified(t, build, Contents(t), TRUE)]
  BY DEF ImportReport
<1>2. Qualified(t, build, Contents(t), TRUE) \in ReportTypes
  BY ContentsTypes DEF EvidenceInv, EvidenceTypes, Qualified, ReportTypes
<1>3. EvidenceTypes'
  BY <1>1, <1>2, SpendsTypes
  DEF ImportReport, EvidenceInv, EvidenceTypes, EvidenceKinds, SomeReport
<1> QED
  BY <1>1, <1>2, <1>3, SpendsTypes, QuietKeeps
  DEF ImportReport, EvidenceInv, EvidenceTitled, EvidenceKinds

LEMMA MeasureKeeps == ASSUME EvidenceInv, MeasureQualification PROVE EvidenceInv'
<1>1. EvidenceTypes'
  BY SpendsTypes DEF MeasureQualification, EvidenceInv, EvidenceTypes, EvidenceTitled, EvidenceKinds
<1> QED
  BY <1>1, SpendsTypes, QuietKeeps
  DEF MeasureQualification, EvidenceInv, EvidenceTitled, EvidenceKinds

LEMMA MeasuredKeeps ==
    ASSUME EvidenceInv, NEW t \in Titles, QualificationMeasured(t) PROVE EvidenceInv'
<1>1. wizard' \in {wizard, [wizard EXCEPT !.after = t]} /\ (wizard' # wizard => wizard # NoForm)
  BY DEF QualificationMeasured
<1>2. wizard' \in [of : SomeTitle, build : Nat, corpus : Folder, after : SomeTitle]
  BY <1>1 DEF EvidenceInv, EvidenceTypes, SomeTitle
<1>3. wizard' # NoForm => wizard'.of \in Titles
  BY <1>1 DEF EvidenceInv, EvidenceTypes, EvidenceTitled
<1>4. EvidenceTypes'
  BY <1>2 DEF QualificationMeasured, EvidenceInv, EvidenceTypes
<1> QED
  BY <1>3, <1>4, QuietKeeps DEF QualificationMeasured, EvidenceInv, EvidenceTitled

LEMMA NoFormTypes ==
    NoForm \in [of : SomeTitle, build : Nat, corpus : Folder, after : SomeTitle]
BY NothingTypes DEF NoForm, SomeTitle

LEMMA CloseKeeps == ASSUME EvidenceInv, CloseQualification PROVE EvidenceInv'
<1>1. EvidenceTypes'
  BY NoFormTypes DEF CloseQualification, EvidenceInv, EvidenceTypes
<1> QED
  BY <1>1, QuietKeeps DEF CloseQualification, EvidenceInv, EvidenceTitled

LEMMA SaveQualificationKeeps == ASSUME EvidenceInv, SaveQualification PROVE EvidenceInv'
<1>1. PICK good \in BOOLEAN :
        saver' = [at |-> "look", wizard |-> TRUE,
                  report |-> Qualified(wizard.of, wizard.build, wizard.corpus, good)]
  BY DEF SaveQualification
<1>2. Qualified(wizard.of, wizard.build, wizard.corpus, good) \in ReportTypes
  BY DEF SaveQualification, EvidenceInv, EvidenceTypes, EvidenceTitled, Qualified, ReportTypes
<1>3. EvidenceTypes'
  BY <1>1, <1>2, SpendsTypes
  DEF SaveQualification, EvidenceInv, EvidenceTypes, EvidenceKinds, SomeReport
<1> QED
  BY <1>1, <1>2, <1>3, SpendsTypes, QuietKeeps
  DEF SaveQualification, EvidenceInv, EvidenceTitled, EvidenceKinds

LEMMA SavesKeeps == ASSUME EvidenceInv, Saves PROVE EvidenceInv'
<1>1. allowed' \in [linux : BOOLEAN, games : SUBSET Titles, may : [EvidenceKinds -> Nat]]
      /\ allowed'.linux = allowed.linux
  BY SpendsTypes DEF Saves, EvidenceInv, EvidenceTypes, EvidenceKinds
<1>2. saver.at # "none" /\ saver.report \in ReportTypes
  BY DEF Saves, EvidenceInv, EvidenceTitled
<1>3. /\ saver' \in [at : {"none", "look", "write", "saved", "failed"}, report : SomeReport,
                     wizard : BOOLEAN]
      /\ saver'.report = saver.report
  BY DEF Saves, EvidenceInv, EvidenceTypes
<1>4. reports' \subseteq [report : ReportTypes, whole : BOOLEAN]
  <2>1. /\ Stored(saver.report, FALSE) \in [report : ReportTypes, whole : BOOLEAN]
        /\ Stored(saver.report, TRUE) \in [report : ReportTypes, whole : BOOLEAN]
    BY <1>2 DEF Stored
  <2>2. reports \subseteq [report : ReportTypes, whole : BOOLEAN]
    BY DEF EvidenceInv, EvidenceTypes
  <2> QED
    BY <2>1, <2>2 DEF Saves
<1>5. EvidenceTypes'
  BY <1>1, <1>3, <1>4 DEF Saves, EvidenceInv, EvidenceTypes
<1> QED
  BY <1>1, <1>2, <1>3, <1>5, QuietKeeps DEF Saves, EvidenceInv, EvidenceTitled

LEMMA SaveAnsweredKeeps == ASSUME EvidenceInv, SaveAnswered PROVE EvidenceInv'
<1>1. saver.report \in ReportTypes
  BY DEF SaveAnswered, EvidenceInv, EvidenceTitled
<1>2. wizard' \in {wizard, NoForm}
  BY DEF SaveAnswered
<1>3. desk' \in [reports : SUBSET ReportTypes, claimed : SUBSET ReportTypes]
  BY <1>1 DEF SaveAnswered, EvidenceInv, EvidenceTypes
<1>4. EvidenceTypes'
  BY <1>2, <1>3, NoFormTypes, NothingTypes
  DEF SaveAnswered, EvidenceInv, EvidenceTypes, NoSaver
<1> QED
  BY <1>2, <1>4, QuietKeeps DEF SaveAnswered, EvidenceInv, EvidenceTitled, NoSaver

LEMMA ScansKeeps == ASSUME EvidenceInv, Scans PROVE EvidenceInv'
<1>1. \A t \in Titles : launcher'[t].written = launcher[t].written
  BY DEF Scans, EvidenceInv, EvidenceTypes
<1>2. launcher' \in [Titles -> [build : Nat, listed : Nat, written : Nat]]
  <2>1. launcher \in [Titles -> [build : Nat, listed : Nat, written : Nat]]
    BY DEF EvidenceInv, EvidenceTypes
  <2> QED
    BY <2>1 DEF Scans
<1>3. Loaded \subseteq ReportTypes
  BY DEF Loaded, EvidenceInv, EvidenceTypes
<1>4. EvidenceTypes'
  BY <1>2, <1>3, SpendsTypes DEF Scans, EvidenceInv, EvidenceTypes, EvidenceKinds
<1> QED
  BY <1>1, <1>4, SpendsTypes, QuietKeeps
  DEF Scans, EvidenceInv, EvidenceTitled, EvidenceKinds

(***************************************************************************)
(* The hashes.                                                             *)
(***************************************************************************)
LEMMA PresentIn ==
    ASSUME EvidenceInv, NEW t \in Titles PROVE Least(Present(t)) \in Present(t)
BY LeastIn DEF EvidenceInv, EvidenceTitled, Present

LEMMA HashTypesOf ==
    ASSUME EvidenceInv, NEW a \in {"wizard", "job"}, hashers[a].at # "idle"
    PROVE  hashers[a] \in HashTypes /\ hashers[a].of \in Titles
BY DEF EvidenceInv, EvidenceTypes, EvidenceTitled

\* A step of the hash of actor a that keeps what the hash is of.
LEMMA HashStepKeeps ==
    ASSUME EvidenceInv, NEW a \in {"wizard", "job"}, NEW g \in HashTypes,
           hashers[a].at # "idle", g.at \notin {"idle", "list"}, g.of = hashers[a].of,
           hashers' = [hashers EXCEPT ![a] = g],
           allowed.linux => HashTrue(g),
           allowed.linux /\ Looked(g) =>
               \/ g.instant = Contents(g.of)
               \/ Looked(hashers[a]) /\ g.instant = hashers[a].instant,
           UNCHANGED <<allowed, folders, launcher, reports, saver, wizard, measuring, desk, job,
                       estimates, stores, switched>>
    PROVE  EvidenceInv'
<1>1. /\ hashers'[a] = g /\ \A b \in {"wizard", "job"} \ {a} : hashers'[b] = hashers[b]
      /\ hashers' \in [{"wizard", "job"} -> HashTypes]
  BY DEF EvidenceInv, EvidenceTypes
<1>2. EvidenceTypes'
  BY <1>1 DEF EvidenceInv, EvidenceTypes
<1>3. g # NoHash /\ hashers[a] # NoHash /\ g.of \in Titles
  BY NothingTypes, HashTypesOf DEF EvidenceInv, EvidenceTitled
<1>4. EvidenceTitled'
  BY <1>1, <1>3 DEF EvidenceInv, EvidenceTitled, Present
<1>5. Written' /\ QualifiedStore'
  BY DEF EvidenceInv, Written, QualifiedStore
<1>6. HashesTrue'
  <2> SUFFICES ASSUME allowed.linux, NEW b \in {"wizard", "job"} PROVE HashTrue(hashers[b])'
    BY DEF HashesTrue
  <2>1. CASE b = a
    <3>1. HashTrue(g)'
      BY <1>3, HashKeeps
    <3> QED
      BY <2>1, <3>1, <1>1 DEF HashTrue, ListTrue, InstantTrue, HasRead
  <2>2. CASE b # a
    <3>1. HashTrue(hashers[b]) /\ (hashers[b].at # "idle" => hashers[b].of \in Titles)
      BY DEF EvidenceInv, HashesTrue, EvidenceTitled
    <3>2. hashers[b].at # "idle" => HashTrue(hashers[b])'
      <4> SUFFICES ASSUME hashers[b].at # "idle" PROVE HashTrue(hashers[b])'
        OBVIOUS
      <4> QED
        BY <2>2, <3>1, <1>1 DEF HashTrue, ListTrue, InstantTrue, HasRead
    <3> QED
      BY <2>2, <3>2, <1>1 DEF HashTrue
  <2> QED
    BY <2>1, <2>2
<1>7. JobTrue'
  <2>1. CASE job.step \notin {"first", "second"}
    BY <2>1 DEF EvidenceInv, JobTrue, Confirmed, Built, Steady, Now
  <2>2. CASE job.step \in {"first", "second"}
    <3> DEFINE was == hashers["job"]
               is  == hashers'["job"]
    <3>1. job.of \in Titles /\ allowed.linux /\ JobHash /\ was.of = job.of
      BY <2>2 DEF EvidenceInv, EvidenceTitled, JobTrue, JobHash, NoJob
    <3>2. is.of = job.of
      BY <1>1, <3>1
    <3>3. Looked(is) => is.instant = Contents(job.of) \/ (Looked(was) /\ is.instant = was.instant)
      BY <1>1, <3>1, <3>2
    <3>4. \A f \in Steady : Now(f) \notin job.left[f]
      BY <3>1 DEF EvidenceInv, JobTrue, JobHash
    <3> HIDE DEF is
    <3>5. ASSUME Looked(is), NEW f \in Steady
          PROVE  is.instant[f] = Now(f) \/ is.instant[f] \in job.left[f]
      BY <3>1, <3>3, <3>5 DEF JobHash, Contents, Now, Steady
    <3>6. ASSUME Looked(is), job.step = "second" PROVE Built(is.instant)
      <4>1. CASE is.instant = Contents(job.of)
        BY <3>1, <3>4, <3>6, <4>1 DEF JobHash, Built, Contents, Now, Steady
      <4>2. CASE Looked(was) /\ is.instant = was.instant
        BY <3>1, <3>6, <4>2 DEF JobHash
      <4> QED
        BY <3>3, <3>6, <4>1, <4>2
    <3>7. JobHash'
      BY <3>1, <3>2, <3>5, <3>6 DEF JobHash, Built, Steady, Now, is, Looked
    <3> QED
      BY <2>2, <3>1, <3>4, <3>7 DEF EvidenceInv, JobTrue, Confirmed, Steady, Now
  <2> QED
    BY <2>1, <2>2
<1> QED
  BY <1>2, <1>4, <1>5, <1>6, <1>7 DEF EvidenceInv

LEMMA HashListKeeps ==
    ASSUME EvidenceInv, NEW a \in {"wizard", "job"}, Hashes(a), hashers[a].at = "list"
    PROVE  EvidenceInv'
<1> DEFINE h == hashers[a]
           next == Least(Present(h.of))
           g == [h EXCEPT !.list = folders[h.of], !.at = "open", !.next = next]
<1>1. h \in HashTypes /\ h.of \in Titles
  BY HashTypesOf
<1>2. next \in FileNumbers /\ folders[h.of][next] # 0 /\ \A f \in Present(h.of) : next <= f
  BY <1>1, PresentIn, LeastIn DEF Present, EvidenceInv, EvidenceTitled
<1>3. folders[h.of] \in Folder
  BY <1>1 DEF EvidenceInv, EvidenceTypes
<1>4. hashers' = [hashers EXCEPT ![a] = g]
  BY DEF Hashes, Hashed
<1>5. /\ g \in HashTypes /\ g.at = "open" /\ g.of = h.of /\ g.list = folders[h.of]
      /\ g.next = next /\ g.got = h.got
  <2> HIDE DEF next
  <2> QED
    BY <1>1, <1>2, <1>3 DEF HashTypes, HashSteps
<1>6. ASSUME allowed.linux PROVE HashTrue(g)
  <2>2. h.got = Nothing /\ \A f \in FileNumbers : g.got[f] = 0
    BY <1>5, <1>6 DEF EvidenceInv, HashesTrue, HashTrue, ListTrue, Nothing
  <2>3. \A f \in FileNumbers : folders[h.of][f] \in Nat /\ f \in Nat /\ next \in Nat
    BY <1>2, <1>3, EvidenceAssumption DEF Folder, FileNumbers
  <2>4. \A f \in FileNumbers : g.list[f] <= launcher[h.of].written
    BY <1>1, <1>5 DEF EvidenceInv, Written
  <2>5. \A f \in FileNumbers : f < next => g.list[f] = 0
    <3> HIDE DEF g, next
    <3>1. SUFFICES ASSUME NEW f \in FileNumbers, f < next, folders[h.of][f] # 0 PROVE FALSE
      BY <1>5
    <3>2. f \in Present(h.of)
      BY <3>1 DEF Present
    <3> QED
      BY <1>2, <2>3, <3>1, <3>2
  <2> HIDE DEF g, next
  <2>6. ListTrue(g)
    BY <1>2, <1>5, <2>2, <2>4, <2>5 DEF ListTrue, HasRead
  <2> QED
    BY <1>5, <2>6 DEF HashTrue, InstantTrue
<1> HIDE DEF g
<1> QED
  BY <1>1, <1>3, <1>4, <1>5, <1>6, HashStepKeeps DEF Hashes, Looked

\* What is known of a hash at work.
LEMMA HashKnown ==
    ASSUME EvidenceInv, NEW a \in {"wizard", "job"}, hashers[a].at \in HashSteps \ {"list"},
           allowed.linux
    PROVE  /\ HashTrue(hashers[a]) /\ hashers[a].at \notin {"idle", "failed"}
           /\ \A f \in FileNumbers :
                  /\ f \in Nat /\ hashers[a].list[f] \in Nat /\ hashers[a].got[f] \in Nat
                  /\ folders[hashers[a].of][f] \in Nat
                  /\ folders[hashers[a].of][f] <= launcher[hashers[a].of].written
<1>1. hashers[a] \in HashTypes /\ hashers[a].of \in Titles
  BY HashTypesOf DEF HashSteps
<1>2. folders[hashers[a].of] \in Folder
  BY <1>1 DEF EvidenceInv, EvidenceTypes
<1>3. HashTrue(hashers[a]) /\ hashers[a].at \notin {"idle", "failed"}
  BY DEF EvidenceInv, HashesTrue, HashSteps
<1>4. hashers[a].list \in Folder /\ hashers[a].got \in Folder
  BY <1>1 DEF HashTypes
<1>5. \A f \in FileNumbers : f \in Nat
  BY EvidenceAssumption DEF FileNumbers
<1>6. \A f \in FileNumbers : folders[hashers[a].of][f] <= launcher[hashers[a].of].written
  BY <1>1 DEF EvidenceInv, Written
<1> QED
  BY <1>2, <1>3, <1>4, <1>5, <1>6 DEF Folder

LEMMA HashFailsKeeps ==
    ASSUME EvidenceInv, NEW a \in {"wizard", "job"}, Hashes(a), hashers[a].at # "list",
           hashers' = [hashers EXCEPT ![a] = [hashers[a] EXCEPT !.at = "failed"]]
    PROVE  EvidenceInv'
<1> DEFINE g == [hashers[a] EXCEPT !.at = "failed"]
<1>1. hashers[a].at \notin {"idle", "list"}
  BY DEF Hashes
<1>2. hashers[a] \in HashTypes /\ hashers[a].of \in Titles
  BY <1>1, HashTypesOf
<1>3. /\ g \in HashTypes /\ g.at = "failed" /\ g.of = hashers[a].of /\ g.list = hashers[a].list
      /\ HashTrue(g)
  BY <1>2 DEF HashTypes, HashTrue
<1> HIDE DEF g
<1> QED
  BY <1>1, <1>3, HashStepKeeps DEF Hashes, Looked, g

\* A hash that goes on to another step of the same file, or to the comparison.
LEMMA HashOpenKeeps ==
    ASSUME EvidenceInv, NEW a \in {"wizard", "job"}, Hashes(a), hashers[a].at = "open"
    PROVE  EvidenceInv'
<1> DEFINE h == hashers[a]
           v == folders[h.of][h.next]
           list == [h.list EXCEPT ![h.next] = v]
           g == [h EXCEPT !.at = "read"]
           k == [h EXCEPT !.at = "read", !.list = list]
<1>1. h \in HashTypes /\ h.of \in Titles
  BY HashTypesOf
<1>2. v \in Nat
  BY <1>1 DEF EvidenceInv, EvidenceTypes, Folder, HashTypes
<1>3. list \in Folder
  BY <1>1, <1>2 DEF HashTypes, Folder
<1>4. CASE allowed.linux /\ Unchanged(h, h.next)
  <2>1. hashers' = [hashers EXCEPT ![a] = g]
    BY <1>4 DEF Hashes, Hashed
  <2>2. /\ g \in HashTypes /\ g.at = "read" /\ g.of = h.of /\ g.list = h.list /\ g.next = h.next
        /\ g.got = h.got
    BY <1>1 DEF HashTypes, HashSteps
  <2>3. HashTrue(g)
    <3> HIDE DEF g
    <3> QED
      BY <1>4, <2>2, HashKnown DEF HashTrue, ListTrue, InstantTrue, HasRead, HashSteps
  <2> HIDE DEF g
  <2> QED
    BY <2>1, <2>2, <2>3, HashStepKeeps DEF Hashes, Looked
<1>5. CASE ~allowed.linux /\ h.next \in Present(h.of)
  <2>1. hashers' = [hashers EXCEPT ![a] = k]
    BY <1>5 DEF Hashes, Hashed
  <2>2. k \in HashTypes /\ k.at = "read" /\ k.of = h.of
    <3> HIDE DEF list
    <3> QED
      BY <1>1, <1>3 DEF HashTypes, HashSteps
  <2> HIDE DEF k
  <2> QED
    BY <1>5, <2>1, <2>2, HashStepKeeps DEF Hashes, Looked
<1>6. CASE ~((allowed.linux /\ Unchanged(h, h.next)) \/ (~allowed.linux /\ h.next \in Present(h.of)))
  <2>1. hashers' = [hashers EXCEPT ![a] = [h EXCEPT !.at = "failed"]]
    BY <1>6 DEF Hashes, Hashed
  <2> QED
    BY <2>1, HashFailsKeeps
<1> QED
  BY <1>4, <1>5, <1>6

LEMMA HashReadKeeps ==
    ASSUME EvidenceInv, NEW a \in {"wizard", "job"}, Hashes(a), hashers[a].at = "read"
    PROVE  EvidenceInv'
<1> DEFINE h == hashers[a]
           v == Content(folders[h.of][h.next])
           got == [h.got EXCEPT ![h.next] = v]
           g == [h EXCEPT !.at = "check", !.got = got]
<1>1. h \in HashTypes /\ h.of \in Titles
  BY HashTypesOf
<1>2. v \in Nat /\ h.next \in FileNumbers
  <2>1. folders[h.of][h.next] \in Nat /\ h.next \in FileNumbers
    BY <1>1 DEF EvidenceInv, EvidenceTypes, Folder, HashTypes
  <2> QED
    BY <2>1, ContentIs
<1>3. /\ got \in Folder /\ got[h.next] = v
      /\ \A f \in FileNumbers \ {h.next} : got[f] = h.got[f]
  BY <1>1, <1>2 DEF HashTypes, Folder
<1>4. hashers' = [hashers EXCEPT ![a] = g]
  BY DEF Hashes, Hashed
<1>5. /\ g \in HashTypes /\ g.at = "check" /\ g.of = h.of /\ g.list = h.list /\ g.next = h.next
      /\ g.got = got
  <2> HIDE DEF got
  <2> QED
    BY <1>1, <1>3 DEF HashTypes, HashSteps
<1>6. ASSUME allowed.linux PROVE HashTrue(g)
  <2> HIDE DEF g, got
  <2> QED
    BY <1>2, <1>3, <1>5, <1>6, HashKnown DEF HashTrue, ListTrue, InstantTrue, HasRead, HashSteps
<1> HIDE DEF g
<1> QED
  BY <1>4, <1>5, <1>6, HashStepKeeps DEF Hashes, Looked

LEMMA HashCheckKeeps ==
    ASSUME EvidenceInv, NEW a \in {"wizard", "job"}, Hashes(a), hashers[a].at = "check"
    PROVE  EvidenceInv'
<1> DEFINE h == hashers[a]
           next == Least(After(h))
           g == [h EXCEPT !.at = "open", !.next = next]
           k == [h EXCEPT !.at = IF allowed.linux THEN "again" ELSE "done"]
<1>1. h \in HashTypes /\ h.of \in Titles
  BY HashTypesOf
<1>2. CASE ~Unchanged(h, h.next)
  <2>1. hashers' = [hashers EXCEPT ![a] = [h EXCEPT !.at = "failed"]]
    BY <1>2 DEF Hashes, Hashed
  <2> QED
    BY <2>1, HashFailsKeeps
<1>3. CASE Unchanged(h, h.next) /\ After(h) # {}
  <2>1. hashers' = [hashers EXCEPT ![a] = g]
    BY <1>3 DEF Hashes, Hashed
  <2>2. next \in FileNumbers /\ h.list[next] # 0 /\ \A f \in After(h) : next <= f
    BY <1>3, LeastIn DEF After
  <2>3. /\ g \in HashTypes /\ g.at = "open" /\ g.of = h.of /\ g.list = h.list /\ g.next = next
        /\ g.got = h.got
    <3> HIDE DEF next
    <3> QED
      BY <1>1, <2>2 DEF HashTypes, HashSteps
  <2>4. ASSUME allowed.linux PROVE HashTrue(g)
    <3>1. \A f \in FileNumbers : f < next /\ h.list[f] # 0 => HasRead(h, f)
      <4>1. h.next \in Nat /\ next \in Nat /\ \A f \in FileNumbers : f \in Nat
        BY <1>1, <2>2, EvidenceAssumption DEF HashTypes, FileNumbers
      <4>2. h.at = "check" BY <1>1 DEF h
      <4> HIDE DEF h, next
      <4>3. ASSUME NEW f \in FileNumbers, f < next, h.list[f] # 0 PROVE f <= h.next
        <5>1. f \notin After(h) BY <2>2, <4>1, <4>3
        <5> QED BY <4>1, <4>3, <5>1 DEF After
      <4> QED
        BY <4>1, <4>2, <4>3 DEF HasRead
    <3> HIDE DEF g, next
    <3> QED
      BY <2>2, <2>3, <2>4, <3>1, HashKnown DEF HashTrue, ListTrue, InstantTrue, HasRead, HashSteps
  <2> HIDE DEF g
  <2> QED
    BY <2>1, <2>3, <2>4, HashStepKeeps DEF Hashes, Looked
<1>4. CASE Unchanged(h, h.next) /\ After(h) = {}
  <2>1. hashers' = [hashers EXCEPT ![a] = k]
    BY <1>4 DEF Hashes, Hashed
  <2>2. /\ k \in HashTypes /\ k.at = (IF allowed.linux THEN "again" ELSE "done") /\ k.of = h.of
        /\ k.list = h.list /\ k.got = h.got
    BY <1>1 DEF HashTypes, HashSteps
  <2>3. ASSUME allowed.linux PROVE HashTrue(k)
    <3>1. \A f \in FileNumbers : h.list[f] # 0 => HasRead(h, f)
      <4>1. h.next \in Nat /\ \A f \in FileNumbers : f \in Nat
        BY <1>1, EvidenceAssumption DEF HashTypes, FileNumbers
      <4> QED
        BY <1>4, <4>1 DEF After, HasRead
    <3> HIDE DEF k
    <3> QED
      BY <2>2, <2>3, <3>1, HashKnown DEF HashTrue, ListTrue, InstantTrue, HasRead, HashSteps
  <2> HIDE DEF k
  <2> QED
    BY <2>1, <2>2, <2>3, HashStepKeeps DEF Hashes, Looked
<1> QED
  BY <1>2, <1>3, <1>4

LEMMA HashAgainKeeps ==
    ASSUME EvidenceInv, NEW a \in {"wizard", "job"}, Hashes(a), hashers[a].at = "again"
    PROVE  EvidenceInv'
<1> DEFINE h == hashers[a]
           g == [h EXCEPT !.at = "recheck", !.instant = Contents(h.of)]
<1>1. h \in HashTypes /\ h.of \in Titles
  BY HashTypesOf
<1>2. /\ Contents(h.of) \in Folder
      /\ \A f \in FileNumbers : (folders[h.of][f] # 0) = (Contents(h.of)[f] # 0)
  <2>1. folders \in [Titles -> Folder]
    BY DEF EvidenceInv, EvidenceTypes
  <2> QED
    BY <1>1, <2>1, ContentIs, ContentsTypes DEF Contents, Folder
<1>3. CASE Cardinality(Present(h.of)) = Cardinality({f \in FileNumbers : h.list[f] # 0})
  <2>1. hashers' = [hashers EXCEPT ![a] = g]
    BY <1>3 DEF Hashes, Hashed
  <2>2. /\ g \in HashTypes /\ g.at = "recheck" /\ g.of = h.of /\ g.list = h.list
        /\ g.got = h.got /\ g.instant = Contents(h.of)
    BY <1>1, <1>2 DEF HashTypes, HashSteps
  <2>3. ASSUME allowed.linux PROVE HashTrue(g)
    <3>1. Present(h.of) = {f \in FileNumbers : g.instant[f] # 0}
      BY <1>2, <2>2 DEF Present
    <3> HIDE DEF g
    <3>2. InstantTrue(g)
      BY <1>3, <2>2, <3>1 DEF InstantTrue, Contents
    <3>3. ListTrue(g)
      BY <2>2, <2>3, HashKnown DEF HashTrue, ListTrue, HasRead, HashSteps
    <3> QED
      BY <3>2, <3>3 DEF HashTrue
  <2> HIDE DEF g
  <2> QED
    BY <2>1, <2>2, <2>3, HashStepKeeps DEF Hashes, Looked
<1>4. CASE Cardinality(Present(h.of)) # Cardinality({f \in FileNumbers : h.list[f] # 0})
  <2>1. hashers' = [hashers EXCEPT ![a] = [h EXCEPT !.at = "failed"]]
    BY <1>4 DEF Hashes, Hashed
  <2> QED
    BY <2>1, HashFailsKeeps
<1> QED
  BY <1>3, <1>4

\* As many files as were listed, and the listed ones are as they were: there is no other.
LEMMA SameFiles ==
    ASSUME NEW list \in Folder, NEW instant \in Folder,
           Cardinality({f \in FileNumbers : instant[f] # 0})
               = Cardinality({f \in FileNumbers : list[f] # 0}),
           \A f \in FileNumbers : list[f] # 0 => instant[f] = Content(list[f])
    PROVE  \A f \in FileNumbers : list[f] = 0 => instant[f] = 0
<1> DEFINE L == {f \in FileNumbers : list[f] # 0}
           I == {f \in FileNumbers : instant[f] # 0}
<1>1. IsFiniteSet(FileNumbers)
  BY FS_Interval, EvidenceAssumption DEF FileNumbers
<1>2. IsFiniteSet(I)
  BY <1>1, FS_Subset
<1>3. \A f \in FileNumbers : list[f] \in Nat
  BY DEF Folder
<1>4. L \subseteq I
  BY <1>3, ContentIs
<1>5. L = I
  BY <1>2, <1>4, FS_Subset
<1> QED
  BY <1>5

LEMMA HashRecheckKeeps ==
    ASSUME EvidenceInv, NEW a \in {"wizard", "job"}, Hashes(a), hashers[a].at = "recheck"
    PROVE  EvidenceInv'
<1> DEFINE h == hashers[a]
           g == [h EXCEPT !.at = "done"]
<1>1. h \in HashTypes /\ h.of \in Titles
  BY HashTypesOf
<1>2. CASE Rechecked(h)
  <2>1. hashers' = [hashers EXCEPT ![a] = g]
    BY <1>2 DEF Hashes, Hashed
  <2>2. /\ g \in HashTypes /\ g.at = "done" /\ g.of = h.of /\ g.list = h.list
        /\ g.got = h.got /\ g.instant = h.instant
    BY <1>1 DEF HashTypes, HashSteps
  <2>3. ASSUME allowed.linux PROVE HashTrue(g)
    <3>1. HashTrue(h) /\ h.at = "recheck"
      BY <2>3, HashKnown DEF HashSteps
    <3>2. \A f \in FileNumbers : h.list[f] # 0 => folders[h.of][f] = h.list[f]
      BY <1>2 DEF Rechecked, Unchanged
    <3>3. \A f \in FileNumbers : h.list[f] # 0 => h.instant[f] = Content(h.list[f])
      BY <3>1, <3>2 DEF HashTrue, InstantTrue
    <3>4. \A f \in FileNumbers : h.list[f] = 0 => h.instant[f] = 0
      BY <1>1, <3>1, <3>3, SameFiles DEF HashTrue, InstantTrue, HashTypes
    <3>5. \A f \in FileNumbers : /\ h.list[f] # 0 => h.got[f] = Content(h.list[f])
                                 /\ h.list[f] = 0 => h.got[f] = 0
      BY <3>1, <3>2 DEF HashTrue, ListTrue, HasRead
    <3>6. h.got = h.instant
      BY <1>1, <3>3, <3>4, <3>5 DEF HashTypes, Folder
    <3> HIDE DEF g
    <3> QED
      BY <2>2, <3>1, <3>6 DEF HashTrue, ListTrue, InstantTrue, HasRead
  <2> HIDE DEF g
  <2> QED
    BY <2>1, <2>2, <2>3, HashStepKeeps DEF Hashes, Looked
<1>3. CASE ~Rechecked(h)
  <2>1. hashers' = [hashers EXCEPT ![a] = [h EXCEPT !.at = "failed"]]
    BY <1>3 DEF Hashes, Hashed
  <2> QED
    BY <2>1, HashFailsKeeps
<1> QED
  BY <1>2, <1>3

LEMMA HashesKeeps ==
    ASSUME EvidenceInv, NEW a \in {"wizard", "job"}, Hashes(a) PROVE EvidenceInv'
<1>1. hashers[a].at \in HashSteps
  BY DEF Hashes, EvidenceInv, EvidenceTypes, HashTypes
<1> QED
  BY <1>1, HashListKeeps, HashOpenKeeps, HashReadKeeps, HashCheckKeeps, HashAgainKeeps,
     HashRecheckKeeps DEF HashSteps

\* A write makes a version that was never there, of any content, or takes the file away.
LEMMA WritesKeeps ==
    ASSUME EvidenceInv, NEW t \in Titles, NEW f \in FileNumbers, Writes(t, f) PROVE EvidenceInv'
<1> DEFINE last == launcher[t].written
<1>0. PICK version \in ({0} \cup (last + 1)..(last + ContentCount)) \ {folders[t][f]} :
        /\ version = 0 => Present(t) # {f}
        /\ folders' = [folders EXCEPT ![t][f] = version]
        /\ launcher' = [launcher EXCEPT ![t].written = IF version = 0 THEN @ ELSE version]
        /\ Leaves(t, f, Content(folders[t][f]), Content(version))
  BY DEF Writes
<1>1. /\ last \in Nat /\ version \in Nat /\ last <= launcher'[t].written
      /\ version = 0 \/ (last < version /\ launcher'[t].written = version)
      /\ \A u \in Titles \ {t} : launcher'[u].written = launcher[u].written
      /\ launcher' \in [Titles -> [build : Nat, listed : Nat, written : Nat]]
  <2>1. launcher \in [Titles -> [build : Nat, listed : Nat, written : Nat]]
    BY DEF EvidenceInv, EvidenceTypes
  <2>2. last \in Nat /\ version \in Nat /\ (version = 0 \/ last < version)
    BY <1>0, <2>1, EvidenceAssumption
  <2> DEFINE writes == IF version = 0 THEN last ELSE version
  <2>3. launcher' = [launcher EXCEPT ![t].written = writes] /\ writes \in Nat
    BY <1>0, <2>2
  <2>4. /\ launcher'[t].written = writes
        /\ \A u \in Titles \ {t} : launcher'[u].written = launcher[u].written
        /\ launcher' \in [Titles -> [build : Nat, listed : Nat, written : Nat]]
    <3> HIDE DEF writes
    <3> QED
      BY <2>1, <2>3
  <2> QED
    BY <2>2, <2>4
<1>3. folders \in [Titles -> Folder]
  BY DEF EvidenceInv, EvidenceTypes
<1>4. /\ folders' \in [Titles -> Folder] /\ folders'[t][f] = version
      /\ \A g \in FileNumbers \ {f} : folders'[t][g] = folders[t][g]
      /\ \A u \in Titles \ {t} : folders'[u] = folders[u]
  BY <1>0, <1>1, <1>3 DEF Folder
<1>5. \A u \in Titles : launcher[u].written \in Nat /\ launcher[u].written <= launcher'[u].written
  <2>1. launcher \in [Titles -> [build : Nat, listed : Nat, written : Nat]]
    BY DEF EvidenceInv, EvidenceTypes
  <2> QED
    BY <2>1, <1>1
<1>6. \A u \in Titles, g \in FileNumbers, old \in Nat :
        old # 0 /\ old <= launcher[u].written /\ folders'[u][g] = old => folders[u][g] = old
  BY <1>1, <1>4
<1>2. job' = job \/ (job.report # NoReport /\ job.of = t /\ t \in Titles)
  BY <1>0 DEF Leaves
<1>14. /\ job' \in JobTypes /\ job'.of = job.of /\ job'.kind = job.kind /\ job'.step = job.step
       /\ job'.report = job.report /\ job'.build = job.build /\ job.returned \subseteq job'.returned
       /\ (job # NoJob) = (job' # NoJob)
  <2>1. job \in JobTypes
    BY DEF EvidenceInv, EvidenceTypes
  <2>2. Content(folders[t][f]) \in Nat
    BY <1>3, ContentIs DEF Folder
  <2> DEFINE left == [job.left EXCEPT ![f] = @ \cup {Content(folders[t][f])}]
             returned == IF Content(version) \in left[f] THEN job.returned \cup {f}
                         ELSE job.returned
             next == [job EXCEPT !.left = left, !.returned = returned]
  <2>3. left \in [FileNumbers -> SUBSET Nat] /\ returned \in SUBSET FileNumbers
    BY <2>1, <2>2 DEF JobTypes
  <2>4. job' = job \/ (job.report # NoReport /\ job' = next)
    BY <1>0 DEF Leaves
  <2>5. job.returned \subseteq returned
    OBVIOUS
  <2> HIDE DEF left, returned
  <2>6. /\ next \in JobTypes /\ next.of = job.of /\ next.kind = job.kind /\ next.step = job.step
        /\ next.report = job.report /\ next.build = job.build /\ next.returned = returned
    BY <2>1, <2>3 DEF JobTypes
  <2> HIDE DEF next
  <2>7. NoJob.report = NoReport
    BY DEF NoJob
  <2> QED
    BY <2>1, <2>4, <2>5, <2>6, <2>7
<1>15. ASSUME job.report # NoReport, NEW g \in Steady'
       PROVE  /\ g \in Steady /\ job.left[g] \subseteq job'.left[g]
              /\ Now(g)' # Now(g) => Now(g) \in job'.left[g]
              /\ Now(g) \notin job.left[g] => Now(g)' \notin job'.left[g]
  <2>1. job \in JobTypes /\ job.of \in Titles /\ g \in FileNumbers
    BY <1>15 DEF EvidenceInv, EvidenceTypes, EvidenceTitled, NoJob, Steady
  <2>2. g \in Steady
    BY <1>14, <1>15, <2>1 DEF Steady
  <2>3. CASE job.of # t \/ g # f
    <3>1. Now(g)' = Now(g)
      BY <1>4, <1>14, <2>1, <2>3 DEF Now
    <3>2. job'.left[g] = job.left[g]
      BY <1>0, <2>1, <2>3 DEF Leaves, JobTypes
    <3> QED
      BY <2>2, <3>1, <3>2
  <2>4. CASE job.of = t /\ g = f
    <3>1. Now(g) = Content(folders[t][f]) /\ Now(g)' = Content(version)
      BY <1>4, <1>14, <2>1, <2>4 DEF Now
    <3>2. CASE Now(g) = Now(g)'
      BY <1>0, <2>2, <3>1, <3>2 DEF Leaves
    <3>3. CASE Now(g) # Now(g)'
      <4> DEFINE left == [job.left EXCEPT ![f] = @ \cup {Content(folders[t][f])}]
      <4>1. job' = [job EXCEPT !.left = left,
                               !.returned = IF Content(version) \in left[f] THEN @ \cup {f} ELSE @]
        BY <1>0, <1>15, <2>4, <3>1, <3>3 DEF Leaves
      <4>2. left[g] = job.left[g] \cup {Now(g)}
        BY <2>1, <2>4, <3>1 DEF JobTypes
      <4> HIDE DEF left
      <4>3. job'.left = left /\ (Content(version) \in left[f] => f \in job'.returned)
        BY <2>1, <4>1 DEF JobTypes
      <4>4. Now(g)' \notin left[g]
        BY <1>15, <2>4, <3>1, <4>3 DEF Steady
      <4> QED
        BY <2>2, <4>2, <4>3, <4>4
    <3> QED
      BY <3>2, <3>3
  <2> QED
    BY <2>3, <2>4
<1>7. EvidenceTypes'
  <2>1. allowed' \in [linux : BOOLEAN, games : SUBSET Titles, may : [EvidenceKinds -> Nat]]
    BY SpendsTypes DEF Writes, EvidenceInv, EvidenceKinds
  <2> QED
    BY <1>1, <1>4, <1>14, <2>1 DEF Writes, EvidenceInv, EvidenceTypes
<1>8. allowed'.linux = allowed.linux
  BY SpendsTypes DEF Writes, EvidenceInv, EvidenceKinds
<1>9. EvidenceTitled'
  <2>1. \A u \in Titles : Present(u)' # {}
    <3>1. SUFFICES Present(t)' # {}
      BY <1>4 DEF EvidenceInv, EvidenceTitled, Present
    <3>2. CASE version # 0
      BY <1>4, <3>2 DEF Present
    <3>3. CASE version = 0
      <4>1. PICK g \in Present(t) : g # f
        BY <1>0, <3>3 DEF EvidenceInv, EvidenceTitled
      <4> QED
        BY <1>4, <4>1 DEF Present
    <3> QED
      BY <3>2, <3>3
  <2> QED
    BY <1>8, <1>14, <2>1 DEF Writes, EvidenceInv, EvidenceTitled
<1>10. Written'
  <2> SUFFICES ASSUME NEW u \in Titles, NEW g \in FileNumbers
               PROVE  folders'[u][g] <= launcher'[u].written
    BY DEF Written
  <2>1. folders[u][g] \in Nat /\ folders[u][g] <= launcher[u].written
    BY <1>3 DEF EvidenceInv, Written, Folder
  <2> QED
    BY <1>1, <1>4, <1>5, <2>1
<1>11. HashesTrue'
  <2> SUFFICES ASSUME allowed.linux, NEW a \in {"wizard", "job"},
                      hashers[a].at \notin {"idle", "failed"}
               PROVE  HashTrue(hashers[a])'
    BY <1>8 DEF Writes, HashesTrue, HashTrue
  <2> DEFINE h == hashers[a]
  <2>1. h \in HashTypes /\ h.of \in Titles /\ HashTrue(h)
    BY HashTypesOf DEF EvidenceInv, HashesTrue
  <2>2. \A g \in FileNumbers : h.list[g] \in Nat
    BY <2>1 DEF HashTypes, Folder
  <2>3. \A g \in FileNumbers : h.list[g] <= launcher[h.of].written
    BY <2>1 DEF HashTrue, ListTrue
  <2>4. \A g \in FileNumbers :
          h.list[g] # 0 /\ folders'[h.of][g] = h.list[g] => folders[h.of][g] = h.list[g]
    BY <1>6, <2>1, <2>2, <2>3
  <2>5. \A g \in FileNumbers : h.list[g] <= launcher'[h.of].written
    BY <1>5, <1>7, <2>1, <2>2, <2>3 DEF EvidenceTypes
  <2>6. hashers'[a] = h
    BY DEF Writes
  <2> QED
    BY <2>1, <2>4, <2>5, <2>6 DEF HashTrue, ListTrue, InstantTrue, HasRead
<1>12. JobTrue'
  <2>1. UNCHANGED <<hashers, stores>>
    BY DEF Writes
  <2>2. CASE job.report = NoReport
    BY <1>14, <2>1, <2>2 DEF EvidenceInv, JobTrue, JobHash
  <2>3. CASE job.report # NoReport
    <3>1. \A g \in Steady' : Now(g)' \notin job'.left[g]
      BY <1>15, <2>3 DEF EvidenceInv, JobTrue
    <3>2. ASSUME job.step \in {"first", "second"} PROVE JobHash'
      BY <1>14, <1>15, <2>1, <2>3, <3>2 DEF EvidenceInv, JobTrue, JobHash, Looked, Built
    <3>3. ASSUME job.step \in {"build", "prepare", "second", "switch"} PROVE Confirmed'
      BY <1>14, <1>15, <2>3, <3>3 DEF EvidenceInv, JobTrue, Confirmed
    <3>4. ASSUME job.step = "switch" PROVE Built(job.report.corpus)'
      BY <1>14, <1>15, <2>1, <2>3, <3>4 DEF EvidenceInv, JobTrue, Built
    <3> QED
      BY <1>14, <3>1, <3>2, <3>3, <3>4 DEF JobTrue
  <2> QED
    BY <2>2, <2>3
<1>13. QualifiedStore'
  BY DEF Writes, EvidenceInv, QualifiedStore
<1> QED
  BY <1>7, <1>9, <1>10, <1>11, <1>12, <1>13 DEF EvidenceInv

(***************************************************************************)
(* The jobs and what begins and ends a hash.                               *)
(***************************************************************************)
LEMMA FreshHash ==
    ASSUME EvidenceInv, NEW t \in Titles, NEW build \in Nat
    PROVE  /\ Hashing(t, build) \in HashTypes /\ Hashing(t, build).at = "list"
           /\ Hashing(t, build).of = t /\ Hashing(t, build).build = build
           /\ Hashing(t, build) # NoHash /\ HashTrue(Hashing(t, build))
<1> DEFINE g == Hashing(t, build)
<1>1. /\ g \in HashTypes /\ g.at = "list" /\ g.of = t /\ g.build = build /\ g.list = Nothing
      /\ g.got = Nothing
  BY NothingTypes DEF Hashing, NoHash, HashTypes, HashSteps, SomeTitle
<1>2. launcher[t].written \in Nat
  BY DEF EvidenceInv, EvidenceTypes
<1>3. HashTrue(g)
  <2> HIDE DEF g
  <2> QED
    BY <1>1, <1>2 DEF HashTrue, ListTrue, InstantTrue, Nothing
<1> QED
  BY <1>1, <1>3, NothingTypes

\* Actor a begins another hash or rests.
LEMMA HasherSet ==
    ASSUME EvidenceInv, NEW a \in {"wizard", "job"}, NEW g \in HashTypes, HashTrue(g),
           g.at # "idle" => g.of \in Titles, g.at = "idle" <=> g = NoHash,
           hashers' = [hashers EXCEPT ![a] = g], folders' = folders,
           \A t \in Titles : launcher'[t].written = launcher[t].written,
           allowed'.linux = allowed.linux
    PROVE  /\ HashesTrue' /\ hashers'[a] = g
           /\ \A b \in {"wizard", "job"} \ {a} : hashers'[b] = hashers[b]
           /\ hashers' \in [{"wizard", "job"} -> HashTypes]
           /\ \A b \in {"wizard", "job"} : /\ hashers'[b].at = "idle" <=> hashers'[b] = NoHash
                                           /\ hashers'[b].at # "idle" => hashers'[b].of \in Titles
<1>1. /\ hashers'[a] = g /\ \A b \in {"wizard", "job"} \ {a} : hashers'[b] = hashers[b]
      /\ hashers' \in [{"wizard", "job"} -> HashTypes]
  BY DEF EvidenceInv, EvidenceTypes
<1>2. \A b \in {"wizard", "job"} : /\ hashers'[b].at = "idle" <=> hashers'[b] = NoHash
                                   /\ hashers'[b].at # "idle" => hashers'[b].of \in Titles
  BY <1>1 DEF EvidenceInv, EvidenceTitled
<1>3. HashesTrue'
  <2> SUFFICES ASSUME allowed.linux, NEW b \in {"wizard", "job"}, hashers'[b].at # "idle"
               PROVE  HashTrue(hashers[b])'
    BY DEF HashesTrue, HashTrue
  <2>1. CASE b = a
    <3>1. HashTrue(g)'
      BY <1>1, <2>1, HashKeeps
    <3> QED
      BY <2>1, <3>1, <1>1 DEF HashTrue, ListTrue, InstantTrue, HasRead
  <2>2. CASE b # a
    <3>1. HashTrue(hashers[b]) /\ hashers[b].of \in Titles
      BY <1>1, <2>2 DEF EvidenceInv, HashesTrue, EvidenceTitled
    <3> QED
      BY <2>2, <3>1, <1>1 DEF HashTrue, ListTrue, InstantTrue, HasRead
  <2> QED
    BY <2>1, <2>2
<1> QED
  BY <1>1, <1>2, <1>3

LEMMA RestSet == NoHash \in HashTypes /\ NoHash.at = "idle" /\ HashTrue(NoHash)
BY NothingTypes DEF HashTrue

\* A step of the wizard's hash.
LEMMA WizardKeeps ==
    ASSUME EvidenceInv, EvidenceTypes', NEW g \in HashTypes, HashTrue(g),
           g.at # "idle" => g.of \in Titles, g.at = "idle" <=> g = NoHash,
           hashers' = [hashers EXCEPT !["wizard"] = g],
           UNCHANGED <<folders, launcher, job, stores, switched>>,
           allowed'.linux = allowed.linux, saver'.at # "none" => saver'.report \in ReportTypes,
           wizard' # NoForm => wizard'.of \in Titles
    PROVE  EvidenceInv'
<1>1. /\ HashesTrue' /\ hashers'["job"] = hashers["job"]
      /\ \A b \in {"wizard", "job"} : /\ hashers'[b].at = "idle" <=> hashers'[b] = NoHash
                                      /\ hashers'[b].at # "idle" => hashers'[b].of \in Titles
  BY HasherSet
<1>2. EvidenceTitled' /\ Written' /\ QualifiedStore'
  BY <1>1 DEF EvidenceInv, EvidenceTitled, Written, QualifiedStore, Present
<1>3. JobTrue'
  BY <1>1 DEF EvidenceInv, JobTrue, JobHash, Confirmed, Built, Steady, Now, Looked
<1> QED
  BY <1>1, <1>2, <1>3 DEF EvidenceInv

LEMMA QualifyKeeps == ASSUME EvidenceInv, NEW t \in Titles, Qualify(t) PROVE EvidenceInv'
<1>1. launcher[t].listed \in Nat
  BY DEF EvidenceInv, EvidenceTypes
<1> DEFINE g == Hashing(t, launcher[t].listed)
<1>2. /\ g \in HashTypes /\ g.at = "list" /\ g.of = t /\ g # NoHash /\ HashTrue(g)
  BY <1>1, FreshHash
<1>3. hashers' = [hashers EXCEPT !["wizard"] = g]
  BY DEF Qualify
<1>4. EvidenceTypes'
  <2> HIDE DEF g
  <2> QED
    BY <1>2, <1>3, SpendsTypes DEF Qualify, EvidenceInv, EvidenceTypes, EvidenceKinds
<1>5. allowed'.linux = allowed.linux
  BY SpendsTypes DEF Qualify, EvidenceInv, EvidenceKinds
<1> HIDE DEF g
<1> QED
  BY <1>2, <1>3, <1>4, <1>5, WizardKeeps DEF Qualify, EvidenceInv, EvidenceTitled

LEMMA QualificationReadyKeeps == ASSUME EvidenceInv, QualificationReady PROVE EvidenceInv'
<1> DEFINE h == hashers["wizard"]
           form == [NoForm EXCEPT !.of = h.of, !.build = h.build, !.corpus = h.got]
<1>1. h \in HashTypes /\ h.of \in Titles
  BY HashTypesOf DEF QualificationReady, Ended
<1>2. form \in [of : SomeTitle, build : Nat, corpus : Folder, after : SomeTitle] /\ form.of = h.of
  BY <1>1 DEF HashTypes, NoForm, SomeTitle
<1>3. wizard' \in {wizard, form}
  BY DEF QualificationReady
<1>4. hashers' = [hashers EXCEPT !["wizard"] = NoHash]
  BY DEF QualificationReady, Rests
<1>5. EvidenceTypes'
  <2> HIDE DEF form
  <2> QED
    BY <1>2, <1>3, <1>4, RestSet DEF QualificationReady, EvidenceInv, EvidenceTypes
<1>6. wizard' # NoForm => wizard'.of \in Titles
  BY <1>1, <1>2, <1>3 DEF EvidenceInv, EvidenceTitled
<1> QED
  BY <1>4, <1>5, <1>6, RestSet, WizardKeeps DEF QualificationReady, EvidenceInv, EvidenceTitled

LEMMA KilledKeeps == ASSUME EvidenceInv, Killed PROVE EvidenceInv'
<1>1. EvidenceTypes'
  BY RestSet, NoFormTypes, NothingTypes, SpendsTypes
  DEF Killed, EvidenceInv, EvidenceTypes, EvidenceKinds, NoSaver
<1>2. saver'.at = "none" /\ wizard' = NoForm /\ hashers' = [hashers EXCEPT !["wizard"] = NoHash]
  BY DEF Killed, NoSaver
<1>3. allowed'.linux = allowed.linux
  BY SpendsTypes DEF Killed, EvidenceInv, EvidenceKinds
<1> QED
  BY <1>1, <1>2, <1>3, RestSet, WizardKeeps DEF Killed

\* A step of a job that leaves the files, the form and the save alone.
LEMMA JobKeeps ==
    ASSUME EvidenceInv, EvidenceTypes', HashesTrue', JobTrue', QualifiedStore',
           UNCHANGED <<folders, launcher, saver, wizard>>, allowed'.linux = allowed.linux,
           \A b \in {"wizard", "job"} : /\ hashers'[b].at = "idle" <=> hashers'[b] = NoHash
                                        /\ hashers'[b].at # "idle" => hashers'[b].of \in Titles,
           job' # NoJob => job'.of \in Titles /\ job'.kind # "none" /\ allowed.linux,
           job'.kind = "activate" <=> job'.step # "none",
           hashers'["job"] # NoHash <=> job'.kind = "analyze" \/ job'.step \in {"first", "second"}
    PROVE  EvidenceInv'
<1>1. EvidenceTitled' /\ Written'
  BY DEF EvidenceInv, EvidenceTitled, Written, Present
<1> QED
  BY <1>1 DEF EvidenceInv

LEMMA GoneKeeps ==
    ASSUME EvidenceInv, JobGone, allowed' \in
               [linux : BOOLEAN, games : SUBSET Titles, may : [EvidenceKinds -> Nat]],
           allowed'.linux = allowed.linux,
           UNCHANGED <<folders, launcher, reports, saver, wizard, measuring, desk, stores, switched>>
    PROVE  EvidenceInv'
<1>1. job' = NoJob /\ hashers' = [hashers EXCEPT !["job"] = NoHash]
  BY DEF JobGone
<1>2. NoJob.kind = "none" /\ NoJob.step = "none"
  BY DEF NoJob
<1>3. /\ HashesTrue' /\ hashers'["job"] = NoHash
      /\ hashers' \in [{"wizard", "job"} -> HashTypes]
      /\ \A b \in {"wizard", "job"} : /\ hashers'[b].at = "idle" <=> hashers'[b] = NoHash
                                      /\ hashers'[b].at # "idle" => hashers'[b].of \in Titles
  BY <1>1, RestSet, HasherSet
<1>4. EvidenceTypes'
  BY <1>1, <1>3, NothingTypes DEF EvidenceInv, EvidenceTypes
<1>5. JobTrue' /\ QualifiedStore'
  BY <1>1, <1>2 DEF EvidenceInv, JobTrue, QualifiedStore, NoJob
<1> QED
  BY <1>1, <1>2, <1>3, <1>4, <1>5, JobKeeps

LEMMA JobStopsKeeps == ASSUME EvidenceInv, JobStops PROVE EvidenceInv'
BY SpendsTypes, GoneKeeps DEF JobStops, EvidenceInv, EvidenceKinds

LEMMA AnalyzedKeeps == ASSUME EvidenceInv, Analyzed PROVE EvidenceInv'
BY GoneKeeps DEF Analyzed, Rests, JobGone, EvidenceInv, EvidenceTypes

LEMMA AnalyzeKeeps == ASSUME EvidenceInv, NEW t \in Titles, Analyze(t) PROVE EvidenceInv'
<1> DEFINE build == launcher[t].listed
           g == Hashing(t, build)
           next == [NoJob EXCEPT !.kind = "analyze", !.of = t, !.build = build,
                                 !.candidates = Candidates(t, build)]
<1>1. build \in Nat /\ Loaded \subseteq ReportTypes /\ allowed.linux
  BY DEF EvidenceInv, EvidenceTypes, Loaded, Analyze
<1>2. /\ allowed' \in [linux : BOOLEAN, games : SUBSET Titles, may : [EvidenceKinds -> Nat]]
      /\ allowed'.linux = allowed.linux
  BY SpendsTypes DEF Analyze, EvidenceInv, EvidenceKinds
<1>3. CASE Candidates(t, build) = {}
  <2>1. EvidenceTypes'
    BY <1>2, <1>3 DEF Analyze, EvidenceInv, EvidenceTypes
  <2> QED
    BY <1>2, <1>3, <2>1, QuietKeeps DEF Analyze, EvidenceInv, EvidenceTitled
<1>4. CASE Candidates(t, build) # {}
  <2>1. job' = next /\ hashers' = [hashers EXCEPT !["job"] = g]
    BY <1>4 DEF Analyze, Hands
  <2>2. /\ g \in HashTypes /\ g.at = "list" /\ g.of = t /\ g # NoHash /\ HashTrue(g)
    BY <1>1, FreshHash
  <2>3. /\ next \in JobTypes /\ next.kind = "analyze" /\ next.of = t /\ next.step = "none"
          /\ next.report = NoReport
    BY <1>1, NothingTypes DEF NoJob, JobTypes, Candidates, SomeTitle
  <2> HIDE DEF g, next
  <2>4. /\ HashesTrue' /\ hashers'["job"] = g
        /\ hashers' \in [{"wizard", "job"} -> HashTypes]
        /\ \A b \in {"wizard", "job"} : /\ hashers'[b].at = "idle" <=> hashers'[b] = NoHash
                                        /\ hashers'[b].at # "idle" => hashers'[b].of \in Titles
    BY <1>2, <2>1, <2>2, HasherSet DEF Analyze
  <2>5. EvidenceTypes'
    BY <1>2, <2>1, <2>3, <2>4 DEF Analyze, EvidenceInv, EvidenceTypes
  <2>6. JobTrue' /\ QualifiedStore'
    BY <2>1, <2>3, NothingTypes DEF Analyze, EvidenceInv, JobTrue, QualifiedStore
  <2> QED
    BY <1>1, <1>2, <2>1, <2>2, <2>3, <2>4, <2>5, <2>6, JobKeeps DEF Analyze
<1> QED
  BY <1>3, <1>4

LEMMA ActivateKeeps == ASSUME EvidenceInv, NEW t \in Titles, Activate(t) PROVE EvidenceInv'
<1> DEFINE build == launcher[t].listed
           g == Hashing(t, build)
           next(report) ==
               [NoJob EXCEPT !.kind = "activate", !.of = t, !.build = build, !.report = report,
                             !.step = IF report = NoReport THEN "build" ELSE "first"]
<1>1. build \in Nat /\ allowed.linux /\ job = NoJob
  BY DEF EvidenceInv, EvidenceTypes, Activate
<1>2. /\ allowed' \in [linux : BOOLEAN, games : SUBSET Titles, may : [EvidenceKinds -> Nat]]
      /\ allowed'.linux = allowed.linux
  BY SpendsTypes DEF Activate, EvidenceInv, EvidenceKinds
<1>3. PICK report \in {Attached(t), NoReport} :
        /\ job' = next(report)
        /\ IF report = NoReport THEN UNCHANGED hashers ELSE hashers' = [hashers EXCEPT !["job"] = g]
  BY DEF Activate, Hands
<1>4. report \in SomeReport
  BY DEF EvidenceInv, EvidenceTypes, Attached, SomeReport
<1>5. /\ next(report) \in JobTypes /\ next(report).kind = "activate" /\ next(report).of = t
      /\ next(report).step = (IF report = NoReport THEN "build" ELSE "first")
      /\ next(report).report = report /\ \A f \in FileNumbers : next(report).left[f] = {}
  BY <1>1, <1>4, NothingTypes DEF NoJob, JobTypes, SomeTitle
<1>6. /\ g \in HashTypes /\ g.at = "list" /\ g.of = t /\ g # NoHash /\ HashTrue(g)
  BY <1>1, FreshHash
<1> HIDE DEF g, next
<1>7. CASE report = NoReport
  <2>1. hashers' = [hashers EXCEPT !["job"] = NoHash]
    <3>1. hashers["job"] = NoHash
      BY <1>1 DEF EvidenceInv, EvidenceTitled, NoJob
    <3>2. hashers \in [{"wizard", "job"} -> HashTypes]
      BY DEF EvidenceInv, EvidenceTypes
    <3> QED
      BY <1>3, <1>7, <3>1, <3>2
  <2>2. /\ HashesTrue' /\ hashers'["job"] = NoHash
        /\ hashers' \in [{"wizard", "job"} -> HashTypes]
        /\ \A b \in {"wizard", "job"} : /\ hashers'[b].at = "idle" <=> hashers'[b] = NoHash
                                        /\ hashers'[b].at # "idle" => hashers'[b].of \in Titles
    BY <1>2, <2>1, RestSet, HasherSet DEF Activate
  <2>3. EvidenceTypes'
    BY <1>2, <1>3, <1>5, <2>2 DEF Activate, EvidenceInv, EvidenceTypes
  <2>4. JobTrue' /\ QualifiedStore'
    <3>1. job'.step = "build" /\ job'.report = NoReport
      BY <1>3, <1>5, <1>7
    <3> QED
      BY <3>1 DEF Activate, EvidenceInv, JobTrue, QualifiedStore
  <2> QED
    BY <1>1, <1>2, <1>3, <1>5, <1>7, <2>2, <2>3, <2>4, JobKeeps DEF Activate
<1>8. CASE report # NoReport
  <2>1. hashers' = [hashers EXCEPT !["job"] = g]
    BY <1>3, <1>8
  <2>2. /\ HashesTrue' /\ hashers'["job"] = g
        /\ hashers' \in [{"wizard", "job"} -> HashTypes]
        /\ \A b \in {"wizard", "job"} : /\ hashers'[b].at = "idle" <=> hashers'[b] = NoHash
                                        /\ hashers'[b].at # "idle" => hashers'[b].of \in Titles
    BY <1>2, <1>6, <2>1, HasherSet DEF Activate
  <2>3. EvidenceTypes'
    BY <1>2, <1>3, <1>5, <2>2 DEF Activate, EvidenceInv, EvidenceTypes
  <2>4. JobTrue' /\ QualifiedStore'
    <3>1. /\ job'.step = "first" /\ job'.report # NoReport /\ job'.of = t
          /\ \A f \in FileNumbers : job'.left[f] = {}
          /\ hashers'["job"].at = "list" /\ hashers'["job"].of = t
      BY <1>3, <1>5, <1>6, <1>8, <2>2
    <3>2. JobHash' /\ \A f \in Steady' : Now(f)' \notin job'.left[f]
      BY <3>1 DEF JobHash, Looked, Steady
    <3> QED
      BY <3>1, <3>2 DEF Activate, EvidenceInv, JobTrue, QualifiedStore
  <2> QED
    BY <1>1, <1>2, <1>3, <1>5, <1>6, <1>8, <2>2, <2>3, <2>4, JobKeeps DEF Activate
<1> QED
  BY <1>7, <1>8

\* What a job at a step of an activation is.
LEMMA JobKnown ==
    ASSUME EvidenceInv, job.step # "none"
    PROVE  /\ job \in JobTypes /\ job.of \in Titles /\ job # NoJob /\ job.kind = "activate"
           /\ allowed.linux
           /\ hashers["job"] = NoHash <=> job.step \notin {"first", "second"}
BY DEF EvidenceInv, EvidenceTypes, EvidenceTitled, NoJob

LEMMA NextStep ==
    ASSUME NEW j \in JobTypes, NEW step \in {"build", "prepare", "second", "switch"}
    PROVE  LET next == [j EXCEPT !.step = step]
           IN /\ next \in JobTypes /\ next.step = step /\ next.kind = j.kind /\ next.of = j.of
              /\ next.build = j.build /\ next.report = j.report
              /\ next.left = j.left /\ next.returned = j.returned
BY DEF JobTypes

LEMMA HashComparedKeeps == ASSUME EvidenceInv, HashCompared PROVE EvidenceInv'
<1> DEFINE h == hashers["job"]
           step == IF job.step = "first" THEN "build" ELSE "switch"
           next == [job EXCEPT !.step = step]
<1>1. /\ job \in JobTypes /\ job.of \in Titles /\ job.kind = "activate" /\ allowed.linux
      /\ job.step \in {"first", "second"} /\ h.of = job.of /\ job.report # NoReport
      /\ JobHash
  BY JobKnown DEF HashCompared, EvidenceInv, JobTrue, JobHash
<1>2. CASE h.at = "done" /\ Qualifies(job.report, job.of, job.build, h.got)
  <2>1. job' = next /\ hashers' = [hashers EXCEPT !["job"] = NoHash]
    BY <1>2 DEF HashCompared, Rests, Continues, Step
  <2>2. /\ next \in JobTypes /\ next.step = step /\ next.kind = job.kind /\ next.of = job.of
        /\ next.build = job.build /\ next.report = job.report
        /\ next.left = job.left /\ next.returned = job.returned
    <3>1. step \in {"build", "prepare", "second", "switch"}
      OBVIOUS
    <3> HIDE DEF step
    <3> QED
      BY <1>1, <3>1, NextStep
  <2> HIDE DEF next
  <2>3. /\ HashesTrue' /\ hashers'["job"] = NoHash
        /\ hashers' \in [{"wizard", "job"} -> HashTypes]
        /\ \A b \in {"wizard", "job"} : /\ hashers'[b].at = "idle" <=> hashers'[b] = NoHash
                                        /\ hashers'[b].at # "idle" => hashers'[b].of \in Titles
    BY <2>1, RestSet, HasherSet DEF HashCompared
  <2>4. EvidenceTypes'
    BY <2>1, <2>2, <2>3 DEF HashCompared, EvidenceInv, EvidenceTypes
  <2>5. job.report.corpus = h.instant /\ Looked(h)
    BY <1>1, <1>2 DEF EvidenceInv, HashesTrue, HashTrue, InstantTrue, Qualifies, Looked
  <2>6. Confirmed
    BY <1>1, <1>2, <2>5 DEF Confirmed, JobHash, Qualifies
  <2>7. job.step = "second" => Built(job.report.corpus)
    BY <1>1, <2>5 DEF JobHash
  <2>8. UNCHANGED <<folders, stores>>
    BY DEF HashCompared
  <2>9. JobTrue' /\ QualifiedStore'
    <3>1. Confirmed' /\ (job.step = "second" => Built(job.report.corpus)')
      BY <2>1, <2>2, <2>6, <2>7, <2>8 DEF Confirmed, Built, Steady, Now
    <3>2. \A f \in Steady' : Now(f)' \notin job'.left[f]
      BY <1>1, <2>1, <2>2, <2>8 DEF EvidenceInv, JobTrue, Steady, Now
    <3> QED
      BY <1>1, <2>1, <2>2, <3>1, <3>2
      DEF HashCompared, EvidenceInv, JobTrue, Built, Steady, QualifiedStore
  <2> QED
    BY <1>1, <2>1, <2>2, <2>3, <2>4, <2>9, JobKeeps DEF HashCompared
<1>3. CASE ~(h.at = "done" /\ Qualifies(job.report, job.of, job.build, h.got))
  BY <1>3, GoneKeeps DEF HashCompared, EvidenceInv, EvidenceTypes
<1> QED
  BY <1>2, <1>3

LEMMA BuildsKeeps == ASSUME EvidenceInv, Builds PROVE EvidenceInv'
<1> DEFINE next == [job EXCEPT !.step = "prepare"]
<1>1. /\ job \in JobTypes /\ job.of \in Titles /\ job.kind = "activate" /\ allowed.linux
      /\ hashers["job"] = NoHash
  BY JobKnown DEF Builds
<1>2. job' = next
  BY DEF Builds, Continues, Step
<1>3. /\ next \in JobTypes /\ next.step = "prepare" /\ next.kind = job.kind /\ next.of = job.of
      /\ next.build = job.build /\ next.report = job.report
      /\ next.left = job.left /\ next.returned = job.returned
  BY <1>1, NextStep
<1> HIDE DEF next
<1>4. stores' \in [Titles -> Folder]
  BY <1>1, ContentsTypes DEF Builds, EvidenceInv, EvidenceTypes
<1>5. EvidenceTypes'
  BY <1>2, <1>3, <1>4 DEF Builds, EvidenceInv, EvidenceTypes
<1>6. job.report # NoReport => Confirmed
  BY DEF Builds, EvidenceInv, JobTrue
<1>7. JobTrue' /\ QualifiedStore'
  BY <1>2, <1>3, <1>6
  DEF Builds, EvidenceInv, JobTrue, Confirmed, Steady, Now, QualifiedStore
<1>8. HashesTrue'
  BY HashesKept DEF Builds
<1>9. \A b \in {"wizard", "job"} : /\ hashers'[b].at = "idle" <=> hashers'[b] = NoHash
                                   /\ hashers'[b].at # "idle" => hashers'[b].of \in Titles
  BY DEF Builds, EvidenceInv, EvidenceTitled
<1> QED
  BY <1>1, <1>2, <1>3, <1>5, <1>7, <1>8, <1>9, JobKeeps DEF Builds

LEMMA PreparesKeeps == ASSUME EvidenceInv, Prepares PROVE EvidenceInv'
<1>1. /\ job \in JobTypes /\ job.of \in Titles /\ job.kind = "activate" /\ allowed.linux
      /\ hashers["job"] = NoHash
  BY JobKnown DEF Prepares
<1>2. CASE stores[job.of] # Contents(job.of)
  BY <1>2, GoneKeeps DEF Prepares, EvidenceInv, EvidenceTypes
<1>3. CASE stores[job.of] = Contents(job.of) /\ job.report = NoReport
  <2> DEFINE next == [job EXCEPT !.step = "switch"]
  <2>1. job' = next /\ hashers' = hashers
    BY <1>3 DEF Prepares, Continues, Step
  <2>2. /\ next \in JobTypes /\ next.step = "switch" /\ next.kind = job.kind /\ next.of = job.of
        /\ next.build = job.build /\ next.report = job.report
        /\ next.left = job.left /\ next.returned = job.returned
    BY <1>1, NextStep
  <2> HIDE DEF next
  <2>3. EvidenceTypes'
    BY <2>1, <2>2 DEF Prepares, EvidenceInv, EvidenceTypes
  <2>4. JobTrue' /\ QualifiedStore'
    BY <1>3, <2>1, <2>2 DEF Prepares, EvidenceInv, JobTrue, QualifiedStore
  <2>5. HashesTrue'
    BY <2>1, HashesKept DEF Prepares
  <2>6. \A b \in {"wizard", "job"} : /\ hashers'[b].at = "idle" <=> hashers'[b] = NoHash
                                     /\ hashers'[b].at # "idle" => hashers'[b].of \in Titles
    BY <2>1 DEF EvidenceInv, EvidenceTitled
  <2> QED
    BY <1>1, <2>1, <2>2, <2>3, <2>4, <2>5, <2>6, JobKeeps DEF Prepares
<1>4. CASE stores[job.of] = Contents(job.of) /\ job.report # NoReport
  <2> DEFINE next == [job EXCEPT !.step = "second"]
             g == Hashing(job.of, job.build)
  <2>1. job' = next /\ hashers' = [hashers EXCEPT !["job"] = g]
    BY <1>4 DEF Prepares, Continues, Step, Hands
  <2>2. /\ next \in JobTypes /\ next.step = "second" /\ next.kind = job.kind /\ next.of = job.of
        /\ next.build = job.build /\ next.report = job.report
        /\ next.left = job.left /\ next.returned = job.returned
    BY <1>1, NextStep
  <2>3. /\ g \in HashTypes /\ g.at = "list" /\ g.of = job.of /\ g # NoHash /\ HashTrue(g)
    BY <1>1, FreshHash DEF JobTypes
  <2> HIDE DEF next, g
  <2>4. /\ HashesTrue' /\ hashers'["job"] = g
        /\ hashers' \in [{"wizard", "job"} -> HashTypes]
        /\ \A b \in {"wizard", "job"} : /\ hashers'[b].at = "idle" <=> hashers'[b] = NoHash
                                        /\ hashers'[b].at # "idle" => hashers'[b].of \in Titles
    BY <1>1, <2>1, <2>3, HasherSet DEF Prepares
  <2>5. EvidenceTypes'
    BY <2>1, <2>2, <2>4 DEF Prepares, EvidenceInv, EvidenceTypes
  <2>6. Confirmed
    BY <1>4 DEF Prepares, EvidenceInv, JobTrue
  <2>7. Confirmed'
    BY <2>1, <2>2, <2>6 DEF Confirmed, Steady, Now, Prepares
  <2>8. JobHash'
    <3>1. \A f \in Steady : \/ stores[job.of][f] = job.report.corpus[f]
                           \/ job.report.corpus[f] \in job.left[f]
      BY <1>4, <2>6 DEF Confirmed, Contents, Now, Steady
    <3>2. hashers'["job"].of = job.of /\ hashers'["job"].at = "list" /\ stores' = stores
      BY <2>3, <2>4 DEF Prepares
    <3> QED
      BY <1>4, <2>1, <2>2, <3>1, <3>2 DEF JobHash, Looked, Steady
  <2>9. JobTrue' /\ QualifiedStore'
    BY <1>4, <2>1, <2>2, <2>7, <2>8
    DEF Prepares, EvidenceInv, JobTrue, Steady, Now, QualifiedStore
  <2> QED
    BY <1>1, <2>1, <2>2, <2>3, <2>4, <2>5, <2>9, JobKeeps DEF Prepares
<1> QED
  BY <1>2, <1>3, <1>4

LEMMA SwitchesKeeps == ASSUME EvidenceInv, Switches PROVE EvidenceInv'
<1>1. /\ job \in JobTypes /\ job.of \in Titles /\ job.kind = "activate" /\ allowed.linux
      /\ hashers["job"] = NoHash
  BY JobKnown DEF Switches
<1>2. job' = NoJob /\ NoJob.kind = "none" /\ NoJob.step = "none"
  BY DEF Switches, NoJob
<1> DEFINE now == [from |-> stores[job.of], report |-> job.report, build |-> job.build,
                   returned |-> job.returned]
<1>3. switched' = [switched EXCEPT ![job.of] = now]
  BY DEF Switches
<1>4. now \in [from : Folder, report : SomeReport, build : Nat, returned : SUBSET FileNumbers]
  BY <1>1 DEF EvidenceInv, EvidenceTypes, JobTypes
<1>5. /\ switched' \in [Titles -> [from : Folder, report : SomeReport, build : Nat,
                                 returned : SUBSET FileNumbers]]
      /\ switched'[job.of] = now /\ \A t \in Titles \ {job.of} : switched'[t] = switched[t]
  <2> HIDE DEF now
  <2> QED
    BY <1>1, <1>3, <1>4 DEF EvidenceInv, EvidenceTypes
<1>6. EvidenceTypes'
  BY <1>2, <1>5, NothingTypes DEF Switches, EvidenceInv, EvidenceTypes
<1>7. job.report # NoReport => Confirmed /\ Built(job.report.corpus)
  BY DEF Switches, EvidenceInv, JobTrue
<1>8. QualifiedStore'
  <2> SUFFICES ASSUME NEW t \in Titles, switched'[t].report # NoReport
               PROVE  /\ Qualifies(switched'[t].report, t, switched'[t].build,
                                   switched'[t].report.corpus)
                      /\ \A f \in FileNumbers \ switched'[t].returned :
                             switched'[t].from[f] = switched'[t].report.corpus[f]
    BY DEF QualifiedStore, Qualifies
  <2>1. CASE t = job.of
    BY <1>5, <1>7, <2>1 DEF Confirmed, Built, Steady
  <2>2. CASE t # job.of
    BY <1>5, <2>2 DEF EvidenceInv, QualifiedStore
  <2> QED
    BY <2>1, <2>2
<1>9. JobTrue'
  BY <1>2 DEF JobTrue, NoJob
<1>10. HashesTrue'
  BY HashesKept DEF Switches
<1>11. \A b \in {"wizard", "job"} : /\ hashers'[b].at = "idle" <=> hashers'[b] = NoHash
                                    /\ hashers'[b].at # "idle" => hashers'[b].of \in Titles
  BY DEF Switches, EvidenceInv, EvidenceTitled
<1> QED
  BY <1>1, <1>2, <1>6, <1>8, <1>9, <1>10, <1>11, JobKeeps DEF Switches

LEMMA EvidenceInvNext == EvidenceInv /\ [EvidenceNext]_evidence => EvidenceInv'
<1> SUFFICES ASSUME EvidenceInv, [EvidenceNext]_evidence PROVE EvidenceInv'
  OBVIOUS
<1>1. Games \subseteq Titles
  BY DEF EvidenceInv, EvidenceTypes, Games
<1>2. ASSUME NEW t \in Games,
             \/ Installs(t) \/ Qualify(t) \/ ImportReport(t) \/ Analyze(t) \/ Activate(t)
             \/ QualificationMeasured(t) \/ \E f \in FileNumbers : Writes(t, f)
      PROVE  EvidenceInv'
  BY <1>1, <1>2, InstallsKeeps, QualifyKeeps, ImportReportKeeps, AnalyzeKeeps, ActivateKeeps,
     MeasuredKeeps, WritesKeeps
<1>3. CASE \E a \in {"wizard", "job"} : Hashes(a)
  BY <1>3, HashesKeeps
<1>4. CASE \/ QualificationReady \/ MeasureQualification \/ CloseQualification
           \/ SaveQualification \/ Saves \/ SaveAnswered \/ Scans \/ Killed
  BY <1>4, QualificationReadyKeeps, MeasureKeeps, CloseKeeps, SaveQualificationKeeps, SavesKeeps,
     SaveAnsweredKeeps, ScansKeeps, KilledKeeps
<1>5. CASE Analyzed \/ HashCompared \/ Builds \/ Prepares \/ Switches \/ JobStops
  BY <1>5, AnalyzedKeeps, HashComparedKeeps, BuildsKeeps, PreparesKeeps, SwitchesKeeps,
     JobStopsKeeps
<1>6. CASE UNCHANGED evidence
  <2>1. EvidenceTypes'
    BY <1>6 DEF evidence, EvidenceInv, EvidenceTypes
  <2> QED
    BY <1>6, <2>1, QuietKeeps DEF evidence, EvidenceInv, EvidenceTitled
<1> QED
  BY <1>2, <1>3, <1>4, <1>5, <1>6 DEF EvidenceNext

\* A hash is of one moment, and a game switched on a report is served the contents the
\* report was made on, but for files that were changed and changed back meanwhile; for any
\* games, files, contents, writes, builds, reports and stops.
THEOREM EvidenceRealEver == EvidenceSpec => []EvidenceReal
<1>1. EvidenceInit => EvidenceInv
  BY EvidenceInvInit
<1>2. EvidenceInv /\ [EvidenceNext]_evidence => EvidenceInv'
  BY EvidenceInvNext
<1>3. EvidenceInv => EvidenceReal
  BY EvidenceInvGives
<1> QED
  BY <1>1, <1>2, <1>3, PTL DEF EvidenceSpec

(***************************************************************************)
(* A game that was remembered is not forgotten, and a drive in the place   *)
(* of another does not pass for it; the rest of CatalogTrue is at the end. *)
(*                                                                         *)
(* The two are about one step, the writing of the cache, and hold of it    *)
(* because of what the scan that writes knows: the scan has had the lock   *)
(* since it read the cache, so the cache is what it read, and the records  *)
(* of one folder in the cache name one drive.                              *)
(***************************************************************************)
\* The catalog and its scans are records of these fields.
CatalogShape ==
    catalog \in [left : {catalog.left}, mounted : {catalog.mounted}, folders : {catalog.folders},
                 lists : {catalog.lists}, locations : {catalog.locations},
                 cache : {catalog.cache}, lock : {catalog.lock}, scans : {catalog.scans},
                 shown : {catalog.shown}]
ScanShape(scan) ==
    scan \in [at : {scan.at}, next : {scan.next}, found : {scan.found}, old : {scan.old},
              locations : {scan.locations}]
ScansShape ==
    /\ catalog.scans = [s \in Scanners |-> catalog.scans[s]]
    /\ \A s \in Scanners : ScanShape(catalog.scans[s])

\* Who is between the reading of the cache and its writing has the lock, and what it read
\* is still the cache.
LockHeld ==
    \A s \in Scanners :
        /\ catalog.scans[s].at \in {"read", "write"} => catalog.lock = s
        /\ catalog.scans[s].at = "write" => catalog.scans[s].old = catalog.cache
OneDrive ==
    /\ \A r \in catalog.cache :
           r \in [ids : {r.ids}, place : {r.place}, alias : {r.alias}, state : {r.state},
                  drive : {r.drive}]
    /\ \A r, t \in catalog.cache : SameFolder(r, t) => r.drive = t.drive

CatalogInv == CatalogShape /\ ScansShape /\ LockHeld /\ OneDrive

LEMMA CatalogInvInit == DiscoveryInit => CatalogInv
<1> SUFFICES ASSUME DiscoveryInit PROVE CatalogInv
  OBVIOUS
<1>1. PICK left \in CatalogLimits, drive \in Drives :
        catalog = [left |-> left, mounted |-> [m \in {MountOf[p] : p \in GameDirs} |-> drive],
                   folders |-> {}, lists |-> [k \in 1..Len(Keys) |-> {}],
                   locations |-> {}, cache |-> {}, lock |-> "free",
                   scans |-> [s \in Scanners |-> NoScanning], shown |-> [s \in Scanners |-> {}]]
  BY DEF DiscoveryInit
<1>2. CatalogShape
  BY <1>1 DEF CatalogShape
<1>3. ScansShape
  BY <1>1 DEF ScansShape, ScanShape, NoScanning
<1>4. LockHeld /\ OneDrive
  BY <1>1 DEF LockHeld, OneDrive, NoScanning
<1> QED
  BY <1>2, <1>3, <1>4 DEF CatalogInv

\* A step that leaves the scans, the lock and the cache alone.
LEMMA MachineKeeps ==
    ASSUME CatalogInv,
           Swaps \/ InstallsGame \/ UpdatesGame \/ RemovesGame \/ AddPlace \/ RemovePlace
    PROVE  CatalogInv' /\ catalog'.cache = catalog.cache
<1>1. /\ CatalogShape' /\ catalog'.scans = catalog.scans /\ catalog'.lock = catalog.lock
      /\ catalog'.cache = catalog.cache
  <2>1. CASE Swaps
    BY <2>1 DEF Swaps, CatalogInv, CatalogShape
  <2>2. CASE InstallsGame
    BY <2>2 DEF InstallsGame, CatalogInv, CatalogShape
  <2>3. CASE UpdatesGame
    BY <2>3 DEF UpdatesGame, CatalogInv, CatalogShape
  <2>4. CASE RemovesGame
    BY <2>4 DEF RemovesGame, CatalogInv, CatalogShape
  <2>5. CASE AddPlace
    BY <2>5 DEF AddPlace, CatalogInv, CatalogShape
  <2>6. CASE RemovePlace
    BY <2>6 DEF RemovePlace, CatalogInv, CatalogShape
  <2> QED
    BY <2>1, <2>2, <2>3, <2>4, <2>5, <2>6
<1> QED
  BY <1>1 DEF CatalogInv, ScansShape, LockHeld, OneDrive, SameFolder

\* A scan goes on; what is in the cache is given.
LEMMA ScanGoes ==
    ASSUME CatalogInv, CatalogShape', NEW s \in Scanners, NEW scan, ScanShape(scan),
           catalog'.scans = [catalog.scans EXCEPT ![s] = scan],
           scan.at \in {"read", "write"} => catalog'.lock = s,
           scan.at = "write" => scan.old = catalog'.cache,
           catalog'.lock = catalog.lock \/ catalog.lock \in {"free", s},
           catalog'.cache = catalog.cache \/ (catalog.lock = s /\ OneDrive')
    PROVE  CatalogInv'
<1>1. catalog'.scans = [r \in Scanners |-> IF r = s THEN scan ELSE catalog.scans[r]]
  BY DEF CatalogInv, ScansShape
<1>2. ScansShape'
  BY <1>1 DEF CatalogInv, ScansShape, ScanShape
<1>3. OneDrive'
  BY DEF CatalogInv, OneDrive, SameFolder
<1>4. LockHeld'
  BY <1>1, DiscoveryAssumption DEF CatalogInv, LockHeld
<1> QED
  BY <1>2, <1>3, <1>4 DEF CatalogInv

LEMMA ScanKeeps ==
    ASSUME CatalogInv, NEW s \in Scanners,
           \/ StartsScan(s) \/ ReadsLauncher(s) \/ CustomGames(s) \/ Merges(s) \/ Locks(s)
           \/ ReadsCache(s) \/ StopsScan(s)
    PROVE  CatalogInv' /\ catalog'.cache = catalog.cache
<1> DEFINE was == catalog.scans[s]
           goes(scan) == /\ CatalogShape' /\ catalog'.scans = [catalog.scans EXCEPT ![s] = scan]
                         /\ catalog'.cache = catalog.cache
<1>1. CatalogShape /\ ScanShape(was)
  BY DEF CatalogInv, ScansShape
<1>2. CASE StartsScan(s)
  <2> DEFINE scan == [NoScanning EXCEPT !.at = "launchers"]
  <2>1. goes(scan) /\ catalog'.lock = catalog.lock
    <3> HIDE DEF scan
    <3> QED
      BY <1>1, <1>2 DEF StartsScan, CatalogShape, scan
  <2>2. ScanShape(scan) /\ scan.at = "launchers"
    BY DEF ScanShape, NoScanning
  <2> HIDE DEF scan
  <2> QED
    BY <2>1, <2>2, ScanGoes
<1>3. CASE ReadsLauncher(s)
  <2> DEFINE next(found) == [was EXCEPT !.next = was.next + 1, !.found = @ \o found]
             read(found) == [catalog EXCEPT !.scans[s] = next(found)]
  <2>1. \/ catalog' = [catalog EXCEPT !.scans[s].at = "custom"]
        \/ \E found : catalog' = read(found)
        \/ \E found, left : catalog' = [read(found) EXCEPT !.left = left]
    BY <1>3 DEF ReadsLauncher, ScanOf
  <2>2. CASE catalog' = [catalog EXCEPT !.scans[s].at = "custom"]
    <3> DEFINE scan == [was EXCEPT !.at = "custom"]
    <3>1. goes(scan) /\ catalog'.lock = catalog.lock
      BY <1>1, <2>2 DEF CatalogShape
    <3>2. ScanShape(scan) /\ scan.at = "custom"
      BY <1>1 DEF ScanShape
    <3> HIDE DEF scan
    <3> QED
      BY <3>1, <3>2, ScanGoes
  <2>3. ASSUME NEW found,
               catalog' = read(found) \/ \E left : catalog' = [read(found) EXCEPT !.left = left]
        PROVE  CatalogInv' /\ catalog'.cache = catalog.cache
    <3> DEFINE scan == next(found)
    <3>1. ScanShape(scan) /\ scan.at = "launchers"
      BY <1>1, <1>3 DEF ScanShape, ReadsLauncher, ScanAt, ScanOf
    <3> HIDE DEF next
    <3>2. goes(scan) /\ catalog'.lock = catalog.lock
      BY <1>1, <2>3 DEF CatalogShape
    <3> HIDE DEF scan
    <3> QED
      BY <3>1, <3>2, ScanGoes
  <2> HIDE DEF read
  <2> QED
    BY <2>1, <2>2, <2>3
<1>4. CASE CustomGames(s)
  <2>1. PICK left, found, locations :
          catalog' = [catalog EXCEPT !.left = left,
                          !.scans[s] = [was EXCEPT !.at = "merge", !.found = @ \o found,
                                                   !.locations = locations]]
    BY <1>4 DEF CustomGames, ScanOf
  <2> DEFINE scan == [was EXCEPT !.at = "merge", !.found = @ \o found, !.locations = locations]
  <2>2. goes(scan) /\ catalog'.lock = catalog.lock
    <3>1. catalog' = [catalog EXCEPT !.left = left, !.scans[s] = scan]
      BY <2>1
    <3> HIDE DEF scan
    <3> QED
      BY <1>1, <3>1 DEF CatalogShape
  <2>3. ScanShape(scan) /\ scan.at = "merge"
    BY <1>1 DEF ScanShape
  <2> HIDE DEF scan
  <2> QED
    BY <2>2, <2>3, ScanGoes
<1>5. CASE Merges(s)
  <2> DEFINE scan == [was EXCEPT !.at = "lock", !.found = Merged(@)]
  <2>1. goes(scan) /\ catalog'.lock = catalog.lock
    <3>1. catalog' = [catalog EXCEPT !.scans[s] = scan]
      BY <1>5 DEF Merges, ScanOf
    <3> HIDE DEF scan
    <3> QED
      BY <1>1, <3>1 DEF CatalogShape
  <2>2. ScanShape(scan) /\ scan.at = "lock"
    BY <1>1 DEF ScanShape
  <2> HIDE DEF scan
  <2> QED
    BY <2>1, <2>2, ScanGoes
<1>6. CASE Locks(s)
  <2> DEFINE scan == [was EXCEPT !.at = "read"]
  <2>1. goes(scan) /\ catalog'.lock = s /\ catalog.lock = "free"
    BY <1>1, <1>6 DEF CatalogShape, Locks, LockFree
  <2>2. ScanShape(scan) /\ scan.at = "read"
    BY <1>1 DEF ScanShape
  <2> HIDE DEF scan
  <2> QED
    BY <2>1, <2>2, ScanGoes
<1>7. CASE ReadsCache(s)
  <2> DEFINE scan == [was EXCEPT !.at = "write", !.old = catalog.cache]
  <2>1. goes(scan) /\ catalog'.lock = catalog.lock
    <3>1. catalog' = [catalog EXCEPT !.scans[s] = scan]
      BY <1>7 DEF ReadsCache, ScanOf
    <3> HIDE DEF scan
    <3> QED
      BY <1>1, <3>1 DEF CatalogShape
  <2>2. ScanShape(scan) /\ scan.at = "write" /\ scan.old = catalog.cache
    BY <1>1 DEF ScanShape
  <2>3. catalog.lock = s
    BY <1>7 DEF CatalogInv, LockHeld, ReadsCache, ScanAt, ScanOf
  <2> HIDE DEF scan
  <2> QED
    BY <2>1, <2>2, <2>3, ScanGoes
<1>8. CASE StopsScan(s)
  <2>1. /\ CatalogShape' /\ catalog'.scans = [catalog.scans EXCEPT ![s] = NoScanning]
        /\ catalog'.cache = catalog.cache
        /\ catalog'.lock = IF catalog.lock = s THEN "free" ELSE catalog.lock
    BY <1>1, <1>8 DEF StopsScan, Ends, CatalogShape
  <2>2. ScanShape(NoScanning) /\ NoScanning.at = "off"
    BY DEF ScanShape, NoScanning
  <2> QED
    BY <2>1, <2>2, ScanGoes
<1> QED
  BY <1>2, <1>3, <1>4, <1>5, <1>6, <1>7, <1>8

\* What a write makes of the cache: every record of a launcher is kept, or its folder was
\* seen on the drive it was made on, and all records of a folder name one drive.
LEMMA RememberedTrue ==
    ASSUME CatalogInv, NEW s \in Scanners, catalog.scans[s].at = "write"
    PROVE  /\ \A r \in catalog.cache :
                  ~IsManual(r) => \E new \in Remembered(s) : SameFolder(new, r)
           /\ \A r \in catalog.cache, new \in Remembered(s) :
                  SameFolder(r, new) => new.drive = r.drive
           /\ \A r, t \in Remembered(s) : SameFolder(r, t) => r.drive = t.drive
           /\ \A r \in Remembered(s) :
                  r \in [ids : {r.ids}, place : {r.place}, alias : {r.alias}, state : {r.state},
                         drive : {r.drive}]
<1>1. ScanOf(s).old = catalog.cache
  BY DEF CatalogInv, LockHeld, ScanOf
<1> DEFINE found == Seqs!Range(ScanOf(s).found)
           current == Current(found, catalog.cache)
           kept == {r \in catalog.cache : Keeps(s, r) /\ \A c \in current : ~SameFolder(c, r)}
           broken(r) == [r EXCEPT !.state = "broken"]
<1>2. Remembered(s) = current \cup {broken(r) : r \in kept}
  BY <1>1 DEF Remembered
<1>3. \A c \in current : /\ c.drive = DriveAt(c.place)
                         /\ \A r \in catalog.cache : SameFolder(r, c) => r.drive = c.drive
  BY DEF Current, OnItsDrive, Online, SameFolder
<1>8. \A c \in current :
        c \in [ids : {c.ids}, place : {c.place}, alias : {c.alias}, state : {c.state},
              drive : {c.drive}]
  BY DEF Current
<1> HIDE DEF current
<1>4. \A r \in catalog.cache :
        /\ broken(r) \in [ids : {r.ids}, place : {r.place}, alias : {r.alias}, state : {"broken"},
                         drive : {r.drive}]
        /\ broken(r).place = r.place /\ broken(r).alias = r.alias /\ broken(r).drive = r.drive
  BY DEF CatalogInv, OneDrive
<1> HIDE DEF broken
<1>5. \A r \in catalog.cache : ~IsManual(r) => \E new \in Remembered(s) : SameFolder(new, r)
  BY <1>2, <1>4 DEF Keeps, SameFolder
<1>6. \A r \in catalog.cache, new \in Remembered(s) : SameFolder(r, new) => new.drive = r.drive
  BY <1>2, <1>3, <1>4 DEF CatalogInv, OneDrive, SameFolder
<1>7. \A r, t \in Remembered(s) : SameFolder(r, t) => r.drive = t.drive
  BY <1>2, <1>3, <1>4 DEF CatalogInv, OneDrive, SameFolder
<1>9. \A r \in Remembered(s) :
        r \in [ids : {r.ids}, place : {r.place}, alias : {r.alias}, state : {r.state},
               drive : {r.drive}]
  BY <1>2, <1>4, <1>8
<1> QED
  BY <1>5, <1>6, <1>7, <1>9

LEMMA WritesCacheKeeps ==
    ASSUME CatalogInv, NEW s \in Scanners, WritesCache(s)
    PROVE  CatalogInv' /\ catalog'.cache \in {catalog.cache, Remembered(s)}
<1>1. /\ CatalogShape' /\ catalog'.scans = [catalog.scans EXCEPT ![s] = NoScanning]
      /\ catalog'.cache \in {catalog.cache, Remembered(s)}
      /\ catalog'.lock = IF catalog.lock = s THEN "free" ELSE catalog.lock
  <2> DEFINE ends == [catalog EXCEPT !.lock = IF catalog.lock = s THEN "free" ELSE catalog.lock,
                                     !.scans[s] = NoScanning]
  <2>1. /\ Ends(s) = ends
        /\ ends \in [left : {catalog.left}, mounted : {catalog.mounted},
                     folders : {catalog.folders}, lists : {catalog.lists},
                     locations : {catalog.locations}, cache : {catalog.cache},
                     lock : {IF catalog.lock = s THEN "free" ELSE catalog.lock},
                     scans : {[catalog.scans EXCEPT ![s] = NoScanning]},
                     shown : {catalog.shown}]
    BY DEF Ends, CatalogInv, CatalogShape
  <2> HIDE DEF ends
  <2>2. CASE catalog' = [ends EXCEPT !.cache = Remembered(s), !.shown[s] = Remembered(s)]
    BY <2>1, <2>2 DEF CatalogShape
  <2>3. CASE \E left \in {catalog.cache, Remembered(s)} :
               catalog' = [ends EXCEPT !.left = Without("badSaves"), !.cache = left]
    <3>1. PICK left \in {catalog.cache, Remembered(s)} :
            catalog' = [ends EXCEPT !.left = Without("badSaves"), !.cache = left]
      BY <2>3
    <3> QED
      BY <2>1, <3>1 DEF CatalogShape
  <2> QED
    BY <2>1, <2>2, <2>3 DEF WritesCache
<1>2. catalog.scans[s].at = "write" /\ catalog.lock = s
  BY DEF WritesCache, ScanAt, ScanOf, CatalogInv, LockHeld
<1>3. catalog'.cache = Remembered(s) => OneDrive'
  BY <1>2, RememberedTrue DEF OneDrive, SameFolder
<1>4. ScanShape(NoScanning) /\ NoScanning.at = "off"
  BY DEF ScanShape, NoScanning
<1> QED
  BY <1>1, <1>2, <1>3, <1>4, ScanGoes

\* What a step of the system makes of the cache.
LEMMA CatalogStep ==
    ASSUME CatalogInv, [DiscoveryNext]_catalog
    PROVE  /\ CatalogInv'
           /\ \/ catalog'.cache = catalog.cache
              \/ \E s \in Scanners : /\ catalog.scans[s].at = "write"
                                     /\ catalog'.cache = Remembered(s)
<1>1. CASE Swaps \/ InstallsGame \/ UpdatesGame \/ RemovesGame \/ AddPlace \/ RemovePlace
  BY <1>1, MachineKeeps, Zenon
<1>2. ASSUME NEW s \in Scanners, ScanStep(s) \/ StopsScan(s)
      PROVE  /\ CatalogInv'
             /\ \/ catalog'.cache = catalog.cache
                \/ catalog.scans[s].at = "write" /\ catalog'.cache = Remembered(s)
  BY <1>2, ScanKeeps, WritesCacheKeeps DEF ScanStep, WritesCache, ScanAt, ScanOf
<1>3. CASE UNCHANGED catalog
  BY <1>3
  DEF CatalogInv, CatalogShape, ScansShape, LockHeld, OneDrive, SameFolder
<1> QED
  BY <1>1, <1>2, <1>3 DEF DiscoveryNext

\* A game of a launcher that was remembered is not forgotten, and another drive in the
\* place of its own does not pass for it, for any number of processes that scan, stop and
\* fail while games and drives come and go.
THEOREM CatalogKeptEver == DiscoverySpec => RememberedKept /\ DriveNotConfused
<1>1. DiscoveryInit => CatalogInv
  BY CatalogInvInit
<1>2. CatalogInv /\ [DiscoveryNext]_catalog => CatalogInv'
  BY CatalogStep
<1>3. CatalogInv /\ [DiscoveryNext]_catalog =>
        [\A r \in catalog.cache :
             ~IsManual(r) => \E new \in catalog'.cache : SameFolder(new, r)]_catalog
  <2> SUFFICES ASSUME CatalogInv, [DiscoveryNext]_catalog, NEW r \in catalog.cache, ~IsManual(r)
               PROVE  \E new \in catalog'.cache : SameFolder(new, r)
    OBVIOUS
  <2> QED
    BY CatalogStep, RememberedTrue DEF SameFolder
<1>4. CatalogInv /\ [DiscoveryNext]_catalog =>
        [\A r \in catalog.cache, new \in catalog'.cache :
             SameFolder(r, new) /\ new.state # "broken" => new.drive = r.drive]_catalog
  <2> SUFFICES ASSUME CatalogInv, [DiscoveryNext]_catalog, NEW r \in catalog.cache,
                      NEW new \in catalog'.cache, SameFolder(r, new)
               PROVE  new.drive = r.drive
    OBVIOUS
  <2> QED
    BY CatalogStep, RememberedTrue DEF CatalogInv, OneDrive
<1> QED
  BY <1>1, <1>2, <1>3, <1>4, PTL DEF DiscoverySpec, RememberedKept, DriveNotConfused

(***************************************************************************)
(* The marker tells the coordinator's compression properties from the      *)
(* user's, for any directories, commands, deaths and failures.             *)
(*                                                                         *)
(* PropertiesOwned is not inductive: an update has looked at a directory   *)
(* before it writes the property, the marker, or takes them away.  So the  *)
(* invariant also says that the directory being written is not the user's  *)
(* unless it became so after the update looked at it, and that one whose   *)
(* marker is about to go has lost its property already.                    *)
(***************************************************************************)
Writing == {"set", "mark", "clear", "unmark"}

DirTypes == [Dirs -> [there : BOOLEAN, property : BOOLEAN, marker : BOOLEAN]]
UpdateTypes == [at : Writing \cup {"idle", "next"}, dir : Dirs, todo : SUBSET Dirs,
                enable : BOOLEAN, then : {"none", "on", "off", "started"}, raced : BOOLEAN]

LiveTypes ==
    live \in [left : [LiveKinds -> Nat], alive : BOOLEAN,
              library : {"none", "on", "off"}, saved : {"none", "on", "off"},
              dirs : DirTypes, update : UpdateTypes,
              users : SUBSET Dirs, ours : SUBSET Dirs, torn : SUBSET Dirs]

WrittenIsOurs ==
    /\ live.update.at \in Writing => live.update.dir \notin live.users \/ live.update.raced
    /\ live.update.at = "unmark" => live.update.dir \notin live.ours
    /\ \A d \in live.ours : live.dirs[d].there
    /\ ~live.alive => live.update.at = "idle"

LiveInv == LiveTypes /\ PropertiesOwned /\ WrittenIsOurs

USE DEF Writing

LEMMA LiveInvInit == LiveInit => LiveInv
<1> SUFFICES ASSUME LiveInit PROVE LiveInv
  OBVIOUS
<1>1. PICK left \in LiveLimits, kept \in SUBSET {Top}, made \in SUBSET (Dirs \ {Top}) :
        live = [left |-> left, alive |-> TRUE, library |-> "none", saved |-> "none",
                dirs |-> [d \in Dirs |-> IF d \in kept THEN [Plain EXCEPT !.property = TRUE]
                                         ELSE IF d \in made \cup {Top} THEN Plain ELSE NoDir],
                update |-> NoUpdate, users |-> kept, ours |-> {}, torn |-> {}]
  BY DEF LiveInit
<1>2. left \in [LiveKinds -> Nat] /\ Top \in Dirs
  BY LiveAssumption
<1>3. LiveTypes
  BY <1>1, <1>2 DEF LiveTypes, DirTypes, UpdateTypes, Plain, NoDir, NoUpdate
<1>4. \A d \in kept : live.dirs[d].property /\ ~live.dirs[d].marker
  BY <1>1, <1>2 DEF Plain, NoDir
<1> QED
  BY <1>1, <1>3, <1>4
  DEF LiveInv, PropertiesOwned, UserPropertyKept, MarkedUntilCleared, WrittenIsOurs, NoUpdate

\* What begins, ends or aborts an update, with no directory changed.
LEMMA UpdateKeeps ==
    ASSUME LiveInv, LiveTypes', live'.dirs = live.dirs, live'.users = live.users,
           live'.ours = live.ours, live.torn \subseteq live'.torn,
           live'.update.at \in {"idle", "next"}, live'.alive \/ live'.update.at = "idle",
           live.update.at = "mark" =>
               live.update.dir \in live'.torn \/ live.update.dir \notin live.ours
    PROVE  LiveInv'
BY DEF LiveInv, PropertiesOwned, UserPropertyKept, MarkedUntilCleared, WrittenIsOurs


LEMMA BeginTypes ==
    ASSUME NEW enable \in BOOLEAN, NEW then \in {"none", "on", "off", "started"}
    PROVE  /\ Begin(enable, then) \in UpdateTypes /\ Begin(enable, then).at = "next"
           /\ NoUpdate \in UpdateTypes /\ NoUpdate.at = "idle"
BY LiveAssumption DEF Begin, NoUpdate, SteamWriteDirs, UpdateTypes

LEMMA UseTypes ==
    ASSUME LiveTypes, NEW k \in LiveKinds, Amount(k) > 0
    PROVE  Use(k) \in [LiveKinds -> Nat]
BY DEF LiveTypes, Use, Amount

LEMMA LibraryKeeps == ASSUME LiveInv, Library PROVE LiveInv'
<1>1. PICK automatic \in BOOLEAN :
        live' = [live EXCEPT !.left = Use("orders"),
                             !.update = Begin(automatic, IF automatic THEN "on" ELSE "off")]
  BY DEF Library
<1> DEFINE update == Begin(automatic, IF automatic THEN "on" ELSE "off")
<1>2. update \in UpdateTypes /\ update.at = "next"
  BY BeginTypes
<1>3. Use("orders") \in [LiveKinds -> Nat]
  BY UseTypes DEF Library, LiveInv, LiveKinds
<1>4. live' = [live EXCEPT !.left = Use("orders"), !.update = update]
  BY <1>1
<1> HIDE DEF update
<1>5. /\ LiveTypes' /\ live'.dirs = live.dirs /\ live'.users = live.users
      /\ live'.ours = live.ours /\ live'.torn = live.torn /\ live'.alive = live.alive
      /\ live'.update = update
  BY <1>2, <1>3, <1>4 DEF LiveInv, LiveTypes
<1>6. live.update.at = "idle" /\ live.alive
  BY DEF Library, IdleUpdate
<1> QED
  BY <1>2, <1>5, <1>6, UpdateKeeps

LEMMA RemoveLibraryKeeps == ASSUME LiveInv, RemoveLibrary PROVE LiveInv'
<1>1. Begin(FALSE, "none") \in UpdateTypes /\ Begin(FALSE, "none").at = "next"
  BY BeginTypes
<1>2. Use("removes") \in [LiveKinds -> Nat]
  BY UseTypes DEF RemoveLibrary, LiveInv, LiveKinds
<1>3. /\ LiveTypes' /\ live'.dirs = live.dirs /\ live'.users = live.users
      /\ live'.ours = live.ours /\ live'.torn = live.torn /\ live'.alive = live.alive
      /\ live'.update = Begin(FALSE, "none")
  BY <1>1, <1>2 DEF LiveInv, LiveTypes, RemoveLibrary
<1>4. live.update.at = "idle" /\ live.alive
  BY DEF RemoveLibrary, IdleUpdate
<1> QED
  BY <1>1, <1>3, <1>4, UpdateKeeps

LEMMA RestartKeeps == ASSUME LiveInv, Restart PROVE LiveInv'
<1>1. /\ Begin(TRUE, "started") \in UpdateTypes /\ Begin(TRUE, "started").at = "next"
      /\ NoUpdate \in UpdateTypes /\ NoUpdate.at = "idle"
  BY BeginTypes
<1>2. /\ LiveTypes' /\ live'.dirs = live.dirs /\ live'.users = live.users
      /\ live'.ours = live.ours /\ live'.torn = live.torn /\ live'.alive
      /\ live'.update \in {Begin(TRUE, "started"), NoUpdate}
  BY <1>1 DEF LiveInv, LiveTypes, Restart
<1>3. live.update.at = "idle"
  BY DEF LiveInv, WrittenIsOurs, Restart
<1> QED
  BY <1>1, <1>2, <1>3, UpdateKeeps

LEMMA SetLiveKeeps == ASSUME LiveInv, SetLiveCompression PROVE LiveInv'
<1>1. PICK d \in live.update.todo :
        live' = [live EXCEPT !.update =
            IF live.update.enable
            THEN IF AlreadySet(d) THEN [live.update EXCEPT !.todo = @ \ {d}]
                 ELSE [live.update EXCEPT !.at = "set", !.dir = d]
            ELSE IF live.dirs[d].marker THEN [live.update EXCEPT !.at = "clear", !.dir = d]
                 ELSE [live.update EXCEPT !.todo = @ \ {d}]]
  BY DEF SetLiveCompression
<1>2. live.update.at = "next" /\ live.alive /\ d \in Dirs
  BY DEF SetLiveCompression, InUpdate, LiveInv, LiveTypes, DirTypes, UpdateTypes
<1>3. CASE live.update.enable /\ ~AlreadySet(d)
  <2>1. live' = [live EXCEPT !.update = [live.update EXCEPT !.at = "set", !.dir = d]]
    BY <1>1, <1>3
  <2>2. LiveTypes'
    BY <2>1, <1>2 DEF LiveInv, LiveTypes, DirTypes, UpdateTypes
  <2>3. d \notin live.users
    BY <1>3 DEF LiveInv, PropertiesOwned, UserPropertyKept, AlreadySet
  <2> QED
    BY <2>1, <2>2, <2>3, <1>2
    DEF LiveInv, LiveTypes, DirTypes, UpdateTypes, PropertiesOwned, UserPropertyKept, MarkedUntilCleared, WrittenIsOurs
<1>4. CASE ~live.update.enable /\ live.dirs[d].marker
  <2>1. live' = [live EXCEPT !.update = [live.update EXCEPT !.at = "clear", !.dir = d]]
    BY <1>1, <1>4
  <2>2. LiveTypes'
    BY <2>1, <1>2 DEF LiveInv, LiveTypes, DirTypes, UpdateTypes
  <2>3. d \notin live.users
    BY <1>4 DEF LiveInv, PropertiesOwned, UserPropertyKept
  <2> QED
    BY <2>1, <2>2, <2>3, <1>2
    DEF LiveInv, LiveTypes, DirTypes, UpdateTypes, PropertiesOwned, UserPropertyKept, MarkedUntilCleared, WrittenIsOurs
<1>5. CASE live' = [live EXCEPT !.update = [live.update EXCEPT !.todo = @ \ {d}]]
  <2>1. LiveTypes' /\ live'.update.at = "next" /\ live'.alive
    BY <1>5, <1>2 DEF LiveInv, LiveTypes, DirTypes, UpdateTypes
  <2> QED
    BY <2>1, <1>2, <1>5, UpdateKeeps DEF LiveInv, LiveTypes, DirTypes, UpdateTypes
<1> QED
  BY <1>1, <1>3, <1>4, <1>5

\* A failed update that left the directories alone.
LEMMA FailsKeeps ==
    ASSUME LiveInv, live.alive, NEW left \in [LiveKinds -> Nat], live' = Fails(live.dirs, left),
           live.update.at = "mark" => ~live.dirs[live.update.dir].there
    PROVE  LiveInv'
<1>1. NoUpdate \in UpdateTypes /\ NoUpdate.at = "idle"
  BY BeginTypes
<1>2. LiveTypes' /\ live'.update.at = "idle"
  BY <1>1 DEF LiveInv, LiveTypes, DirTypes, UpdateTypes, Fails
<1>3. live.update.at = "mark" => live.update.dir \notin live.ours
  BY DEF LiveInv, WrittenIsOurs
<1> QED
  BY <1>2, <1>3, UpdateKeeps DEF LiveInv, LiveTypes, DirTypes, UpdateTypes, Fails

LEMMA SetPropertyKeeps == ASSUME LiveInv, SetProperty PROVE LiveInv'
<1> DEFINE d == live.update.dir
<1>1. /\ live.alive /\ live.update.at = "set" /\ d \in Dirs
      /\ d \notin UsersAfter /\ UsersAfter \subseteq live.users
  BY DEF SetProperty, InUpdate, LiveInv, LiveTypes, DirTypes, UpdateTypes, WrittenIsOurs, UsersAfter
<1>2. CASE /\ Dir.there
           /\ live' = [live EXCEPT !.dirs = With(d, [Dir EXCEPT !.property = TRUE]), !.users = UsersAfter,
                                   !.ours = @ \cup {d}, !.update.at = "mark"]
  <2>0. With(d, [Dir EXCEPT !.property = TRUE]) \in DirTypes
    BY <1>1 DEF LiveInv, LiveTypes, DirTypes, With, Dir
  <2>a. live'.update \in UpdateTypes
    BY <1>2 DEF LiveInv, LiveTypes, UpdateTypes
  <2>1. LiveTypes'
    BY <1>1, <1>2, <2>0, <2>a DEF LiveInv, LiveTypes
  <2>2. /\ \A e \in Dirs \ {d} : live'.dirs[e] = live.dirs[e]
        /\ live'.dirs[d].there /\ live'.update.at = "mark" /\ live'.update.dir = d
        /\ live'.users = UsersAfter /\ live'.ours = live.ours \cup {d}
        /\ live'.torn = live.torn /\ live'.alive
    BY <1>1, <1>2 DEF LiveInv, LiveTypes, DirTypes, UpdateTypes, With, Dir
  <2>5. UserPropertyKept'
    BY <2>1, <2>2, <1>1 DEF LiveInv, LiveTypes, DirTypes, PropertiesOwned, UserPropertyKept
  <2>6. MarkedUntilCleared'
    BY <2>1, <2>2, <1>1 DEF LiveInv, LiveTypes, DirTypes, PropertiesOwned, MarkedUntilCleared, WrittenIsOurs
  <2>7. WrittenIsOurs'
    BY <2>1, <2>2, <1>1 DEF LiveInv, LiveTypes, DirTypes, WrittenIsOurs
  <2> QED
    BY <2>1, <2>5, <2>6, <2>7 DEF LiveInv, PropertiesOwned
<1>3. CASE live' = Fails(live.dirs, live.left)
  <2>1. live.left \in [LiveKinds -> Nat]
    BY DEF LiveInv, LiveTypes, DirTypes, UpdateTypes
  <2> QED
    BY <2>1, <1>1, <1>3, FailsKeeps
<1>4. CASE Amount("failures") > 0 /\ live' = Fails(live.dirs, Use("failures"))
  <2>1. Use("failures") \in [LiveKinds -> Nat]
    BY <1>4 DEF LiveInv, LiveTypes, DirTypes, UpdateTypes, Use, Amount, LiveKinds
  <2> QED
    BY <2>1, <1>1, <1>4, FailsKeeps
<1> QED
  BY <1>2, <1>3, <1>4 DEF SetProperty

LEMMA MarkKeeps == ASSUME LiveInv, Mark PROVE LiveInv'
<1> DEFINE d == live.update.dir
<1>1. /\ live.alive /\ live.update.at = "mark" /\ d \in Dirs
      /\ d \notin UsersAfter /\ UsersAfter \subseteq live.users
  BY DEF Mark, InUpdate, LiveInv, LiveTypes, DirTypes, UpdateTypes, WrittenIsOurs, UsersAfter
<1>2. CASE /\ Dir.there
           /\ live' = [live EXCEPT !.dirs = With(d, [Dir EXCEPT !.marker = TRUE]), !.users = UsersAfter,
                                   !.update = Rest]
  <2>0. With(d, [Dir EXCEPT !.marker = TRUE]) \in DirTypes
    BY <1>1 DEF LiveInv, LiveTypes, DirTypes, With, Dir
  <2>a. Rest \in UpdateTypes
    BY DEF LiveInv, LiveTypes, UpdateTypes, Rest
  <2>1. LiveTypes'
    BY <1>1, <1>2, <2>0, <2>a DEF LiveInv, LiveTypes
  <2>2. /\ \A e \in Dirs \ {d} : live'.dirs[e] = live.dirs[e]
        /\ live'.dirs[d].there = live.dirs[d].there /\ live'.dirs[d].marker
        /\ live'.update.at = "next" /\ live'.alive
        /\ live'.users = UsersAfter /\ live'.ours = live.ours /\ live'.torn = live.torn
    BY <1>1, <1>2 DEF LiveInv, LiveTypes, DirTypes, UpdateTypes, With, Dir, Rest
  <2>5. UserPropertyKept'
    BY <2>1, <2>2, <1>1 DEF LiveInv, LiveTypes, DirTypes, PropertiesOwned, UserPropertyKept
  <2>6. MarkedUntilCleared'
    BY <2>1, <2>2, <1>1 DEF LiveInv, LiveTypes, DirTypes, PropertiesOwned, MarkedUntilCleared, WrittenIsOurs
  <2>7. WrittenIsOurs'
    BY <2>1, <2>2, <1>1 DEF LiveInv, LiveTypes, DirTypes, WrittenIsOurs
  <2> QED
    BY <2>1, <2>5, <2>6, <2>7 DEF LiveInv, PropertiesOwned
<1>3. CASE ~Dir.there /\ live' = Fails(live.dirs, live.left)
  <2>1. live.left \in [LiveKinds -> Nat] /\ ~live.dirs[d].there
    BY <1>3 DEF LiveInv, LiveTypes, DirTypes, UpdateTypes, Dir
  <2> QED
    BY <2>1, <1>1, <1>3, FailsKeeps
<1>4. CASE /\ Dir.there /\ Amount("failures") > 0
           /\ live' = [Fails(With(d, [Dir EXCEPT !.property = FALSE]), Use("failures"))
                          EXCEPT !.ours = @ \ {d}, !.users = UsersAfter]
  <2>0. With(d, [Dir EXCEPT !.property = FALSE]) \in DirTypes
    BY <1>1 DEF LiveInv, LiveTypes, DirTypes, With, Dir
  <2>1. NoUpdate \in UpdateTypes /\ NoUpdate.at = "idle"
    BY BeginTypes
  <2>2. Use("failures") \in [LiveKinds -> Nat]
    BY <1>4 DEF LiveInv, LiveTypes, DirTypes, UpdateTypes, Use, Amount, LiveKinds
  <2>3. LiveTypes'
    BY <1>1, <1>4, <2>0, <2>1, <2>2 DEF LiveInv, LiveTypes, Fails
  <2>4. /\ \A e \in Dirs \ {d} : live'.dirs[e] = live.dirs[e]
        /\ live'.update.at = "idle"
        /\ live'.users = UsersAfter /\ live'.ours = live.ours \ {d} /\ live'.torn = live.torn
    BY <1>1, <1>4, <2>1 DEF LiveInv, LiveTypes, DirTypes, UpdateTypes, With, Dir, Fails
  <2>5. UserPropertyKept'
    BY <2>3, <2>4, <1>1 DEF LiveInv, LiveTypes, DirTypes, PropertiesOwned, UserPropertyKept
  <2>6. MarkedUntilCleared'
    BY <2>3, <2>4, <1>1 DEF LiveInv, LiveTypes, DirTypes, PropertiesOwned, MarkedUntilCleared, WrittenIsOurs
  <2>7. WrittenIsOurs'
    BY <2>3, <2>4, <1>1 DEF LiveInv, LiveTypes, DirTypes, WrittenIsOurs
  <2> QED
    BY <2>3, <2>5, <2>6, <2>7 DEF LiveInv, PropertiesOwned
<1> QED
  BY <1>2, <1>3, <1>4 DEF Mark

LEMMA ClearPropertyKeeps == ASSUME LiveInv, ClearProperty PROVE LiveInv'
<1> DEFINE d == live.update.dir
<1>1. /\ live.alive /\ live.update.at = "clear" /\ d \in Dirs
      /\ d \notin UsersAfter /\ UsersAfter \subseteq live.users
  BY DEF ClearProperty, InUpdate, LiveInv, LiveTypes, DirTypes, UpdateTypes, WrittenIsOurs, UsersAfter
<1>2. CASE live' = [live EXCEPT !.dirs = With(d, [Dir EXCEPT !.property = FALSE]),
                                !.ours = @ \ {d}, !.users = UsersAfter, !.update.at = "unmark"]
  <2>0. With(d, [Dir EXCEPT !.property = FALSE]) \in DirTypes
    BY <1>1 DEF LiveInv, LiveTypes, DirTypes, With, Dir
  <2>a. live'.update \in UpdateTypes
    BY <1>2 DEF LiveInv, LiveTypes, UpdateTypes
  <2>1. LiveTypes'
    BY <1>1, <1>2, <2>0, <2>a DEF LiveInv, LiveTypes
  <2>2. /\ \A e \in Dirs \ {d} : live'.dirs[e] = live.dirs[e]
        /\ live'.update.at = "unmark" /\ live'.update.dir = d /\ live'.alive
        /\ live'.users = UsersAfter /\ live'.ours = live.ours \ {d} /\ live'.torn = live.torn
    BY <1>1, <1>2 DEF LiveInv, LiveTypes, DirTypes, UpdateTypes, With, Dir
  <2>5. UserPropertyKept'
    BY <2>1, <2>2, <1>1 DEF LiveInv, LiveTypes, DirTypes, PropertiesOwned, UserPropertyKept
  <2>6. MarkedUntilCleared'
    BY <2>1, <2>2, <1>1 DEF LiveInv, LiveTypes, DirTypes, PropertiesOwned, MarkedUntilCleared, WrittenIsOurs
  <2>7. WrittenIsOurs'
    BY <2>1, <2>2, <1>1 DEF LiveInv, LiveTypes, DirTypes, WrittenIsOurs
  <2> QED
    BY <2>1, <2>5, <2>6, <2>7 DEF LiveInv, PropertiesOwned
<1>3. CASE live' = Fails(live.dirs, live.left)
  <2>1. live.left \in [LiveKinds -> Nat]
    BY DEF LiveInv, LiveTypes, DirTypes, UpdateTypes
  <2> QED
    BY <2>1, <1>1, <1>3, FailsKeeps
<1> QED
  BY <1>2, <1>3 DEF ClearProperty

LEMMA UnmarkKeeps == ASSUME LiveInv, Unmark PROVE LiveInv'
<1> DEFINE d == live.update.dir
<1>1. /\ live.alive /\ live.update.at = "unmark" /\ d \in Dirs
      /\ d \notin live.ours /\ (Dir.marker => d \notin live.users)
  BY DEF Unmark, InUpdate, LiveInv, LiveTypes, DirTypes, UpdateTypes, WrittenIsOurs,
         PropertiesOwned, UserPropertyKept, Dir
<1>2. CASE /\ Dir.marker
           /\ live' = [live EXCEPT !.dirs = With(d, [Dir EXCEPT !.marker = FALSE]), !.update = Rest]
  <2>0. With(d, [Dir EXCEPT !.marker = FALSE]) \in DirTypes
    BY <1>1 DEF LiveInv, LiveTypes, DirTypes, With, Dir
  <2>a. Rest \in UpdateTypes
    BY DEF LiveInv, LiveTypes, UpdateTypes, Rest
  <2>1. LiveTypes'
    BY <1>1, <1>2, <2>0, <2>a DEF LiveInv, LiveTypes
  <2>2. /\ \A e \in Dirs \ {d} : live'.dirs[e] = live.dirs[e]
        /\ live'.update.at = "next" /\ live'.alive
        /\ live'.users = live.users /\ live'.ours = live.ours /\ live'.torn = live.torn
    BY <1>1, <1>2 DEF LiveInv, LiveTypes, DirTypes, UpdateTypes, With, Dir, Rest
  <2>3. d \notin live.users BY <1>1, <1>2
  <2>5. UserPropertyKept'
    BY <2>1, <2>2, <2>3, <1>1 DEF LiveInv, LiveTypes, DirTypes, PropertiesOwned, UserPropertyKept
  <2>6. MarkedUntilCleared'
    BY <2>1, <2>2, <1>1 DEF LiveInv, LiveTypes, DirTypes, PropertiesOwned, MarkedUntilCleared, WrittenIsOurs
  <2>7. WrittenIsOurs'
    BY <2>1, <2>2, <1>1 DEF LiveInv, LiveTypes, DirTypes, WrittenIsOurs
  <2> QED
    BY <2>1, <2>5, <2>6, <2>7 DEF LiveInv, PropertiesOwned
<1>3. CASE live' = Fails(live.dirs, live.left)
  <2>1. live.left \in [LiveKinds -> Nat]
    BY DEF LiveInv, LiveTypes, DirTypes, UpdateTypes
  <2> QED
    BY <2>1, <1>1, <1>3, FailsKeeps
<1> QED
  BY <1>2, <1>3 DEF Unmark

LEMMA CompleteKeeps == ASSUME LiveInv, Complete PROVE LiveInv'
<1>1. live.alive /\ live.update.at = "next"
  BY DEF Complete, InUpdate
<1>2. NoUpdate \in UpdateTypes /\ NoUpdate.at = "idle"
  BY BeginTypes
<1>3. CASE live' = [live EXCEPT !.update = NoUpdate]
  <2>1. LiveTypes' /\ live'.update.at = "idle"
    BY <1>2, <1>3 DEF LiveInv, LiveTypes, DirTypes, UpdateTypes
  <2> QED
    BY <2>1, <1>1, <1>3, UpdateKeeps DEF LiveInv, LiveTypes, DirTypes, UpdateTypes
<1>4. CASE live.update.then # "started"
  <2>1. live.update.then \in {"none", "on", "off"}
    BY <1>4 DEF LiveInv, LiveTypes, DirTypes, UpdateTypes
  <2> DEFINE done == [live EXCEPT !.update = NoUpdate, !.library = live.update.then]
  <2>2. CASE live' = [done EXCEPT !.saved = live.update.then]
    <3>1. LiveTypes' /\ live'.update.at = "idle"
      BY <1>2, <2>1, <2>2 DEF LiveInv, LiveTypes, DirTypes, UpdateTypes
    <3> QED
      BY <3>1, <1>1, <2>2, UpdateKeeps DEF LiveInv, LiveTypes, DirTypes, UpdateTypes
  <2>3. CASE Amount("badSaves") > 0 /\ live' = [done EXCEPT !.left = Use("badSaves")]
    <3>1. Use("badSaves") \in [LiveKinds -> Nat]
      BY <2>3 DEF LiveInv, LiveTypes, DirTypes, UpdateTypes, Use, Amount, LiveKinds
    <3>2. LiveTypes' /\ live'.update.at = "idle"
      BY <1>2, <2>1, <2>3, <3>1 DEF LiveInv, LiveTypes, DirTypes, UpdateTypes
    <3> QED
      BY <3>2, <1>1, <2>3, UpdateKeeps DEF LiveInv, LiveTypes, DirTypes, UpdateTypes
  <2> QED
    BY <1>4, <2>2, <2>3 DEF Complete
<1> QED
  BY <1>3, <1>4 DEF Complete

\* A death between the two writes is what torn remembers.
LEMMA DiesKeeps == ASSUME LiveInv, Dies PROVE LiveInv'
<1>1. live' = [live EXCEPT !.alive = FALSE, !.left = Use("deaths"), !.update = NoUpdate,
                 !.torn = IF live.update.at = "mark" THEN @ \cup {live.update.dir} ELSE @]
  BY DEF Dies
<1>2. NoUpdate \in UpdateTypes /\ NoUpdate.at = "idle"
  BY BeginTypes
<1>3. Use("deaths") \in [LiveKinds -> Nat]
  BY DEF Dies, LiveInv, LiveTypes, DirTypes, UpdateTypes, Use, Amount, LiveKinds
<1>4. LiveTypes' /\ live'.update.at = "idle"
  BY <1>1, <1>2, <1>3 DEF LiveInv, LiveTypes, DirTypes, UpdateTypes
<1>5. /\ live'.dirs = live.dirs /\ live'.users = live.users /\ live'.ours = live.ours
      /\ live.torn \subseteq live'.torn
      /\ live.update.at = "mark" => live.update.dir \in live'.torn
  BY <1>1, <1>2 DEF LiveInv, LiveTypes, DirTypes, UpdateTypes
<1> QED
  BY <1>4, <1>5, UpdateKeeps

LEMMA HookKeeps == ASSUME LiveInv, Hook PROVE LiveInv'
<1>1. PICK d \in SteamWriteDirs, on \in BOOLEAN :
        LET new == on /\ ~live.dirs[d].property
        IN live' = [live EXCEPT !.left = Use("hooks"), !.dirs[d].property = on,
             !.users = IF new /\ ~live.dirs[d].marker THEN @ \cup {d}
                       ELSE IF on THEN @ ELSE @ \ {d},
             !.update.raced = @ \/ (new /\ Busy(d)),
             !.ours = IF on THEN @ ELSE @ \ {d}, !.torn = IF on THEN @ ELSE @ \ {d}]
  BY DEF Hook
<1>2. d \in Dirs
  BY DEF SteamWriteDirs
<1>3. Use("hooks") \in [LiveKinds -> Nat]
  BY DEF Hook, LiveInv, LiveTypes, DirTypes, UpdateTypes, Use, Amount, LiveKinds
<1>a. [live.dirs EXCEPT ![d].property = on] \in DirTypes
  BY <1>2 DEF LiveInv, LiveTypes, DirTypes
<1>b. live'.update = [live.update EXCEPT !.raced = @ \/ (on /\ ~live.dirs[d].property /\ Busy(d))]
  BY <1>1 DEF LiveInv, LiveTypes
<1>c. live'.update \in UpdateTypes
  BY <1>b DEF LiveInv, LiveTypes, UpdateTypes, Busy
<1>4. LiveTypes'
  <2> DEFINE users == IF on /\ ~live.dirs[d].property /\ ~live.dirs[d].marker THEN live.users \cup {d}
                      ELSE IF on THEN live.users ELSE live.users \ {d}
  <2>1. users \in SUBSET Dirs
    BY <1>2 DEF LiveInv, LiveTypes
  <2> HIDE DEF users
  <2>2. /\ live'.left = Use("hooks") /\ live'.dirs = [live.dirs EXCEPT ![d].property = on]
        /\ live'.users = users
        /\ live'.ours = (IF on THEN live.ours ELSE live.ours \ {d})
        /\ live'.torn = (IF on THEN live.torn ELSE live.torn \ {d})
        /\ live' = [live EXCEPT !.left = live'.left, !.dirs = live'.dirs, !.users = live'.users,
                               !.update = live'.update, !.ours = live'.ours, !.torn = live'.torn]
    BY <1>1, <1>b DEF LiveInv, LiveTypes, users
  <2>3. live'.ours \in SUBSET Dirs /\ live'.torn \in SUBSET Dirs
    BY <2>2 DEF LiveInv, LiveTypes
  <2> QED
    BY <1>3, <1>a, <1>c, <2>1, <2>2, <2>3 DEF LiveInv, LiveTypes
<1>5. /\ \A e \in Dirs \ {d} : live'.dirs[e] = live.dirs[e]
      /\ live'.dirs[d].property = on /\ live'.dirs[d].marker = live.dirs[d].marker
      /\ live'.dirs[d].there = live.dirs[d].there
      /\ live'.update.at = live.update.at /\ live'.update.dir = live.update.dir
      /\ live'.alive = live.alive
      /\ live'.users \subseteq live.users \cup {d}
      /\ live.update.raced => live'.update.raced
      /\ d \in live'.users =>
            on /\ (d \in live.users \/ (~live.dirs[d].marker /\ (Busy(d) => live'.update.raced)))
      /\ live'.ours = IF on THEN live.ours ELSE live.ours \ {d}
      /\ live'.torn = IF on THEN live.torn ELSE live.torn \ {d}
  BY <1>1, <1>2 DEF LiveInv, LiveTypes, DirTypes, UpdateTypes
<1>6. UserPropertyKept'
  BY <1>4, <1>5, <1>2 DEF LiveInv, LiveTypes, DirTypes, UpdateTypes, PropertiesOwned, UserPropertyKept
<1>7. MarkedUntilCleared'
  BY <1>4, <1>5, <1>2 DEF LiveInv, LiveTypes, DirTypes, UpdateTypes, PropertiesOwned, MarkedUntilCleared
<1>8. WrittenIsOurs'
  BY <1>4, <1>5, <1>2 DEF LiveInv, LiveTypes, DirTypes, UpdateTypes, WrittenIsOurs, Busy
<1> QED
  BY <1>4, <1>6, <1>7, <1>8 DEF LiveInv, PropertiesOwned

LEMMA MakesKeeps == ASSUME LiveInv, Makes PROVE LiveInv'
<1>1. PICK d \in Dirs \ {Top} :
        live' = [live EXCEPT !.left = Use("makes"),
             !.dirs[d] = IF live.dirs[d].there THEN NoDir
                         ELSE [Plain EXCEPT !.property = live.dirs[Top].property],
             !.users = @ \ {d}, !.ours = @ \ {d}, !.torn = @ \ {d}]
  BY DEF Makes
<1>2. Use("makes") \in [LiveKinds -> Nat]
  BY DEF Makes, LiveInv, LiveTypes, DirTypes, UpdateTypes, Use, Amount, LiveKinds
<1>3. LiveTypes'
  BY <1>1, <1>2, LiveAssumption DEF LiveInv, LiveTypes, DirTypes, UpdateTypes, NoDir, Plain
<1>4. /\ \A e \in Dirs \ {d} : live'.dirs[e] = live.dirs[e]
      /\ live'.update = live.update /\ live'.alive = live.alive
      /\ live'.users = live.users \ {d} /\ live'.ours = live.ours \ {d}
      /\ live'.torn = live.torn \ {d}
  BY <1>1 DEF LiveInv, LiveTypes, DirTypes, UpdateTypes
<1> QED
  BY <1>3, <1>4
  DEF LiveInv, LiveTypes, DirTypes, UpdateTypes, PropertiesOwned, UserPropertyKept, MarkedUntilCleared, WrittenIsOurs

\* What the user set is taken for the coordinator's only by an update that had looked at the
\* directory before, and what the coordinator set is found again, for any directories and any
\* order of commands, deaths, failures, hooks and Steam (set_live_compression).
THEOREM PropertiesOwnedEver == LiveSpec => []PropertiesOwned
<1>1. LiveInv /\ [LiveNext]_live => LiveInv'
  <2> SUFFICES ASSUME LiveInv, [LiveNext]_live PROVE LiveInv'
    OBVIOUS
  <2>1. CASE UNCHANGED live
    BY <2>1 DEF LiveInv, LiveTypes, DirTypes, UpdateTypes, PropertiesOwned, UserPropertyKept, MarkedUntilCleared,
                WrittenIsOurs
  <2> QED
    BY <2>1, LibraryKeeps, RemoveLibraryKeeps, RestartKeeps, SetLiveKeeps, SetPropertyKeeps,
       MarkKeeps, ClearPropertyKeeps, UnmarkKeeps, CompleteKeeps, DiesKeeps, HookKeeps, MakesKeeps
    DEF LiveNext
<1> QED
  BY <1>1, LiveInvInit, PTL DEF LiveSpec, LiveInv

-----------------------------------------------------------------------------
(***************************************************************************)
(* The Steam watcher.  NoLostWake speaks of a watcher that waits, and what *)
(* it knows then it learned while it seeded and read: so the invariant     *)
(* follows a manifest through the whole round.  ReportedOnce counts, and a *)
(* count is kept only by a watcher that still owes the report: one that    *)
(* knows a settled game as unsettled, or will once it has read its list.   *)
(***************************************************************************)
ManifestStates == {"absent", "working", "settled", "required"}
WatcherSteps   == {"off", "watch", "seed", "wait", "read", "report", "check", "enqueue", "follow"}
Entries        == [app : Apps, settled : {"yes", "no"}]
WatcherRuns    == [at : WatcherSteps, libraries : SUBSET Libraries, watched : SUBSET Libraries,
                   list : SUBSET Entries, app : Apps \cup {0}, library : Libraries \cup {0},
                   settled : [Apps -> {"unseen", "yes", "no"}]]

WatchTypes ==
    watching \in [left : [WatchKinds -> Nat], apps : [Apps -> ManifestStates],
                  torn : [Apps -> {"none", "working", "settled", "required"}],
                  unit : {"none", "ours", "foreign"}, events : BOOLEAN, run : WatcherRuns,
                  cancel : BOOLEAN, excluded : SUBSET Folders,
                  jobs : [Folders -> {"none", "active", "completed", "failed"}],
                  settles : [Apps -> Nat], reports : [Apps -> Nat], lost : BOOLEAN]

\* A library is watched from before it is seeded, and all are before the first wait.
Starting == Run.at \in {"watch", "seed"}
WatchPlaces ==
    /\ In("off") => Run.watched = {}
    /\ Starting => Run.list = {} /\ Run.watched \cup Run.libraries = Libraries
    /\ In("seed") => Run.library \in Run.libraries \cap Run.watched
    /\ ~Starting /\ ~In("off") => Run.watched = Libraries
    /\ In("wait") => Run.libraries = {}
    /\ Run.at \in {"off", "wait", "read"} => Run.list = {}
    /\ Starting => \A a \in Apps : AppLibrary[a] \in Run.libraries => Run.settled[a] = "unseen"
    /\ \A e, f \in Run.list : e.app = f.app => e = f

\* What can be read of a game will be read again, or is in the list, or is known.
Known(a) ==
    \/ AppLibrary[a] \in Run.libraries
    \/ /\ \A e \in Run.list : e.app = a => e.settled = YesNo(a)
       /\ (\A e \in Run.list : e.app # a) => Run.settled[a] = YesNo(a)
ManifestsKnown ==
    ~In("off") /\ ~watching.lost /\ ~watching.events =>
        \A a \in Apps : Readable(a) => Known(a)

Seeding(a) == In("off") \/ (Starting /\ AppLibrary[a] \in Run.libraries)
Owed(a) ==
    /\ ~Seeding(a)
    /\ \/ Run.settled[a] # "yes" /\ \E e \in Run.list : e.app = a /\ e.settled = "yes"
       \/ /\ IsSettled(watching.apps[a])
          /\ Run.settled[a] # "yes" \/ \E e \in Run.list : e.app = a /\ e.settled = "no"
ReportsCounted ==
    \A a \in Apps : /\ watching.reports[a] <= watching.settles[a]
                    /\ Owed(a) => watching.reports[a] < watching.settles[a]

WatchInv == WatchTypes /\ WatchPlaces /\ ManifestsKnown /\ ReportsCounted

LEMMA LibraryIn == \A a \in Apps : AppLibrary[a] \in Libraries
BY DEF Libraries

LEMMA WatchInvInit == WatchInit => WatchInv
<1> SUFFICES ASSUME WatchInit PROVE WatchInv OBVIOUS
<1>1. WatchTypes
  BY WatchAssumption DEF WatchInit, WatchTypes, NotRunning, WatcherRuns, WatcherSteps, ManifestStates, Entries
<1>2. Run = NotRunning /\ \A a \in Apps : watching.reports[a] = 0 /\ watching.settles[a] = 0
  BY DEF WatchInit, Run
<1>3. WatchPlaces BY <1>2 DEF WatchPlaces, NotRunning, In, Starting
<1>4. ManifestsKnown BY <1>2 DEF ManifestsKnown, NotRunning, In
<1>5. ReportsCounted BY <1>2 DEF ReportsCounted, Owed, Seeding, In, NotRunning
<1> QED BY <1>1, <1>3, <1>4, <1>5 DEF WatchInv

LEMMA TakenLeft ==
    ASSUME WatchInv, NEW k \in WatchKinds, Room(k) > 0 PROVE Taken(k) \in [WatchKinds -> Nat]
BY DEF WatchInv, WatchTypes, Taken, Room

LEMMA WatchInvGives == WatchInv => WakesRight
<1> SUFFICES ASSUME WatchInv PROVE WakesRight OBVIOUS
<1>1. ReportedOnce BY DEF WatchInv, ReportsCounted, ReportedOnce
<1>2. ASSUME In("wait"), ~watching.lost, NEW a \in Apps, Readable(a), ~watching.events PROVE Seen(a)
  <2>1. Run.libraries = {} /\ Run.list = {} BY <1>2 DEF WatchInv, WatchPlaces, In
  <2>2. Known(a) BY <1>2 DEF WatchInv, ManifestsKnown, In
  <2> QED BY <2>1, <2>2 DEF Known, Seen
<1> QED BY <1>1, <1>2 DEF WakesRight, NoLostWake

\* What leaves the watcher, the manifests and the counts alone.
LEMMA WatchAlone ==
    ASSUME WatchInv, WatchTypes', UNCHANGED <<watching.apps, watching.torn, watching.run, watching.settles,
                                              watching.reports>>,
           watching'.lost \/ (watching.lost = watching'.lost /\ watching.events = watching'.events)
    PROVE  WatchInv'
<1>1. WatchPlaces' BY DEF WatchInv, WatchPlaces, Starting, In, Run
<1>2. ManifestsKnown' BY DEF WatchInv, ManifestsKnown, Known, In, Run, Readable, YesNo, IsSettled
<1>3. ReportsCounted' BY DEF WatchInv, ReportsCounted, Owed, Seeding, Starting, In, Run, IsSettled
<1> QED BY <1>1, <1>2, <1>3 DEF WatchInv

\* A manifest becomes another one, or stops being readable.
LEMMA ManifestKeeps ==
    ASSUME WatchInv, WatchTypes', UNCHANGED <<watching.run, watching.reports, watching.lost>>,
           NEW a \in Apps,
           \A b \in Apps \ {a} : /\ watching'.apps[b] = watching.apps[b]
                                 /\ watching'.torn[b] = watching.torn[b]
                                 /\ watching'.settles[b] = watching.settles[b],
           watching.events => watching'.events,
           Readable(a)' => watching'.events = Notices(a),
           watching.settles[a] <= watching'.settles[a],
           IsSettled(watching'.apps[a]) =>
               IsSettled(watching.apps[a]) \/ watching.settles[a] < watching'.settles[a]
    PROVE  WatchInv'
<1>1. WatchPlaces' BY DEF WatchInv, WatchPlaces, Starting, In, Run
<1>2. ManifestsKnown'
  <2> SUFFICES ASSUME (~In("off"))', ~watching'.lost, ~watching'.events, NEW b \in Apps, Readable(b)'
               PROVE  Known(b)'
    BY DEF ManifestsKnown
  <2>1. CASE b = a
    <3>1. AppLibrary[a] \notin Run.watched BY <2>1 DEF Notices
    <3>2. AppLibrary[a] \in Run.libraries
      BY <3>1, LibraryIn DEF WatchInv, WatchPlaces, In, Run
    <3> QED BY <2>1, <3>2 DEF Known, Run
  <2>2. CASE b # a
    <3>1. Readable(b) /\ YesNo(b)' = YesNo(b) BY <2>2 DEF Readable, YesNo
    <3>2. Known(b) BY <3>1 DEF WatchInv, ManifestsKnown, In, Run
    <3> QED BY <3>1, <3>2 DEF Known, Run
  <2> QED BY <2>1, <2>2
<1>3. ReportsCounted'
  <2> SUFFICES ASSUME NEW b \in Apps
               PROVE  /\ watching'.reports[b] <= watching'.settles[b]
                      /\ Owed(b)' => watching'.reports[b] < watching'.settles[b]
    BY DEF ReportsCounted
  <2>1. /\ watching'.reports[b] = watching.reports[b]
        /\ watching.reports[b] <= watching.settles[b] /\ watching.settles[b] <= watching'.settles[b]
        /\ watching.reports[b] \in Nat /\ watching.settles[b] \in Nat /\ watching'.settles[b] \in Nat
    <3>1. watching.reports \in [Apps -> Nat] /\ watching.settles \in [Apps -> Nat]
          /\ watching'.settles \in [Apps -> Nat]
      BY DEF WatchInv, WatchTypes
    <3>2. CASE b = a BY <3>1, <3>2 DEF WatchInv, ReportsCounted
    <3>3. CASE b # a BY <3>1, <3>3 DEF WatchInv, ReportsCounted
    <3> QED BY <3>2, <3>3
  <2>2. ASSUME Owed(b)' PROVE Owed(b) \/ watching.settles[b] < watching'.settles[b]
    <3>1. CASE b = a BY <2>2, <3>1 DEF Owed, Seeding, Starting, In, Run
    <3>2. CASE b # a BY <2>2, <3>2 DEF Owed, Seeding, Starting, In, Run
    <3> QED BY <3>1, <3>2
  <2> QED BY <2>1, <2>2 DEF WatchInv, ReportsCounted
<1> QED BY <1>1, <1>2, <1>3 DEF WatchInv

LEMMA ReplacesKeeps == ASSUME WatchInv, Replaces PROVE WatchInv'
<1>1. PICK a \in Apps, to \in {"working", "settled", "required"} :
        /\ watching.torn[a] = "none"
        /\ watching' = [watching EXCEPT !.left = Taken("changes"), !.apps[a] = to, !.events = Notices(a),
                            !.settles[a] = IF IsSettled(to) /\ ~IsSettled(watching.apps[a])
                                           THEN @ + 1 ELSE @]
  BY DEF Replaces
<1>2. Taken("changes") \in [WatchKinds -> Nat]
  BY TakenLeft DEF Replaces, WatchKinds
<1>3. Notices(a) \in BOOLEAN BY DEF WatchInv, WatchTypes, Notices
<1>4. WatchTypes'
  <2>1. /\ [watching.apps EXCEPT ![a] = to] \in [Apps -> ManifestStates]
        /\ [watching.settles EXCEPT ![a] = IF IsSettled(to) /\ ~IsSettled(watching.apps[a])
                                           THEN @ + 1 ELSE @] \in [Apps -> Nat]
    BY DEF WatchInv, WatchTypes, ManifestStates
  <2> QED BY <1>1, <1>2, <1>3, <2>1 DEF WatchInv, WatchTypes
<1>5. /\ UNCHANGED <<watching.run, watching.reports, watching.lost, watching.torn>>
      /\ watching'.events = Notices(a)
      /\ watching'.apps = [watching.apps EXCEPT ![a] = to]
      /\ watching'.settles = [watching.settles EXCEPT ![a] =
                                IF IsSettled(to) /\ ~IsSettled(watching.apps[a]) THEN @ + 1 ELSE @]
  BY <1>1 DEF WatchInv, WatchTypes
<1>6. /\ watching.apps \in [Apps -> ManifestStates] /\ watching.settles \in [Apps -> Nat]
  BY DEF WatchInv, WatchTypes
<1>7. watching.events => watching'.events BY <1>5 DEF Notices
<1> QED BY <1>4, <1>5, <1>6, <1>7, ManifestKeeps

LEMMA OpensKeeps == ASSUME WatchInv, Opens PROVE WatchInv'
<1>1. PICK a \in Apps, to \in {"working", "settled"} :
        watching' = [watching EXCEPT !.left = Taken("writes"), !.torn[a] = to]
  BY DEF Opens
<1>2. Taken("writes") \in [WatchKinds -> Nat]
  BY TakenLeft DEF Opens, WatchKinds
<1>3. WatchTypes' BY <1>1, <1>2 DEF WatchInv, WatchTypes
<1>4. /\ UNCHANGED <<watching.run, watching.reports, watching.lost, watching.apps, watching.settles,
                     watching.events>>
      /\ watching'.torn = [watching.torn EXCEPT ![a] = to]
  BY <1>1 DEF WatchInv, WatchTypes
<1>5. /\ watching.torn \in [Apps -> {"none", "working", "settled", "required"}]
      /\ watching.settles \in [Apps -> Nat]
  BY DEF WatchInv, WatchTypes
<1>6. ~Readable(a)' BY <1>4, <1>5 DEF Readable
<1> QED BY <1>3, <1>4, <1>5, <1>6, ManifestKeeps

LEMMA ClosesKeeps == ASSUME WatchInv, Closes PROVE WatchInv'
<1>1. PICK a \in Apps :
        /\ watching.torn[a] # "none"
        /\ watching' = [watching EXCEPT !.torn[a] = "none", !.apps[a] = watching.torn[a],
                            !.events = Notices(a),
                            !.settles[a] = IF IsSettled(watching.torn[a])
                                              /\ ~IsSettled(watching.apps[a]) THEN @ + 1 ELSE @]
  BY DEF Closes
<1>2. Notices(a) \in BOOLEAN BY DEF WatchInv, WatchTypes, Notices
<1>3. /\ watching.torn \in [Apps -> {"none", "working", "settled", "required"}]
      /\ watching.apps \in [Apps -> ManifestStates] /\ watching.settles \in [Apps -> Nat]
  BY DEF WatchInv, WatchTypes
<1>4. /\ UNCHANGED <<watching.run, watching.reports, watching.lost>>
      /\ watching'.events = Notices(a)
      /\ watching'.torn = [watching.torn EXCEPT ![a] = "none"]
      /\ watching'.apps = [watching.apps EXCEPT ![a] = watching.torn[a]]
      /\ watching'.settles = [watching.settles EXCEPT ![a] =
                                IF IsSettled(watching.torn[a]) /\ ~IsSettled(watching.apps[a])
                                THEN @ + 1 ELSE @]
  BY <1>1 DEF WatchInv, WatchTypes
<1>5. WatchTypes'
  <2>1. /\ [watching.apps EXCEPT ![a] = watching.torn[a]] \in [Apps -> ManifestStates]
        /\ [watching.settles EXCEPT ![a] =
              IF IsSettled(watching.torn[a]) /\ ~IsSettled(watching.apps[a])
              THEN @ + 1 ELSE @] \in [Apps -> Nat]
    BY <1>1, <1>3 DEF ManifestStates
  <2> QED BY <1>1, <1>2, <2>1 DEF WatchInv, WatchTypes
<1>6. watching.events => watching'.events BY <1>4 DEF Notices
<1> QED BY <1>3, <1>4, <1>5, <1>6, ManifestKeeps

LEMMA UninstallsKeeps == ASSUME WatchInv, Uninstalls PROVE WatchInv'
<1>1. PICK a \in Apps :
        watching' = [watching EXCEPT !.left = Taken("changes"), !.apps[a] = "absent"]
  BY DEF Uninstalls
<1>2. Taken("changes") \in [WatchKinds -> Nat]
  BY TakenLeft DEF Uninstalls, WatchKinds
<1>3. WatchTypes' BY <1>1, <1>2 DEF WatchInv, WatchTypes, ManifestStates
<1>4. /\ UNCHANGED <<watching.run, watching.reports, watching.lost, watching.torn, watching.settles,
                     watching.events>>
      /\ watching'.apps = [watching.apps EXCEPT ![a] = "absent"]
  BY <1>1 DEF WatchInv, WatchTypes
<1>5. watching.apps \in [Apps -> ManifestStates] /\ watching.settles \in [Apps -> Nat]
  BY DEF WatchInv, WatchTypes
<1>6. ~Readable(a)' /\ ~IsSettled(watching'.apps[a]) BY <1>4, <1>5 DEF Readable, IsSettled
<1> QED BY <1>3, <1>4, <1>5, <1>6, ManifestKeeps

LEMMA ServiceKeeps ==
    ASSUME WatchInv, Overflows \/ Foreign \/ Disable \/ JobEnds \/ Excludes PROVE WatchInv'
<1>1. WatchTypes'
  <2>1. CASE Overflows
    <3>1. Taken("overflows") \in [WatchKinds -> Nat] BY <2>1, TakenLeft DEF Overflows, WatchKinds
    <3> QED BY <2>1, <3>1 DEF Overflows, WatchInv, WatchTypes
  <2>2. CASE Foreign BY <2>2 DEF Foreign, WatchInv, WatchTypes
  <2>3. CASE Disable
    <3>1. Taken("stops") \in [WatchKinds -> Nat] BY <2>3, TakenLeft DEF Disable, WatchKinds
    <3> QED BY <2>3, <3>1 DEF Disable, WatchInv, WatchTypes
  <2>4. CASE JobEnds BY <2>4 DEF JobEnds, WatchInv, WatchTypes
  <2>5. CASE Excludes
    <3>1. Taken("excludes") \in [WatchKinds -> Nat] BY <2>5, TakenLeft DEF Excludes, WatchKinds
    <3>2. PICK f \in Folders : watching' = [watching EXCEPT !.left = Taken("excludes"), !.excluded = @ \cup {f}]
      BY <2>5 DEF Excludes
    <3>3. watching.excluded \cup {f} \in SUBSET Folders BY DEF WatchInv, WatchTypes
    <3> QED BY <3>1, <3>2, <3>3 DEF WatchInv, WatchTypes
  <2> QED BY <2>1, <2>2, <2>3, <2>4, <2>5
<1>2. /\ UNCHANGED <<watching.apps, watching.torn, watching.run, watching.settles, watching.reports>>
      /\ watching'.lost \/ (watching.lost = watching'.lost /\ watching.events = watching'.events)
  BY DEF Overflows, Foreign, Disable, JobEnds, Excludes, WatchInv, WatchTypes
<1> QED BY <1>1, <1>2, WatchAlone

LEMMA EnableKeeps == ASSUME WatchInv, Enable PROVE WatchInv'
<1>1. Taken("starts") \in [WatchKinds -> Nat]
  BY TakenLeft DEF Enable, WatchKinds
<1>2. CASE ~In("off")
  <2>1. WatchTypes' BY <1>1, <1>2 DEF Enable, WatchInv, WatchTypes
  <2>2. UNCHANGED <<watching.apps, watching.torn, watching.run, watching.settles, watching.reports,
                    watching.lost, watching.events>>
    BY <1>2 DEF Enable, WatchInv, WatchTypes
  <2> QED BY <2>1, <2>2, WatchAlone
<1>3. CASE In("off")
  <2> DEFINE run == [NotRunning EXCEPT !.at = "watch", !.libraries = Libraries]
  <2>1. run \in WatcherRuns
    BY DEF NotRunning, WatcherRuns, WatcherSteps, Entries
  <2>2. /\ watching' = [watching EXCEPT !.unit = "ours", !.left = Taken("starts"), !.cancel = FALSE, !.run = run]
    BY <1>3 DEF Enable
  <2> HIDE DEF run
  <2>3. WatchTypes' BY <1>1, <2>1, <2>2 DEF WatchInv, WatchTypes
  <2>4. watching'.run = run /\ UNCHANGED <<watching.apps, watching.torn, watching.settles, watching.reports>>
    BY <2>2 DEF WatchInv, WatchTypes
  <2>5. /\ run.at = "watch" /\ run.libraries = Libraries /\ run.watched = {} /\ run.list = {}
        /\ \A a \in Apps : run.settled[a] = "unseen"
    BY DEF run, NotRunning
  <2>6. WatchPlaces' BY <2>4, <2>5 DEF WatchPlaces, Starting, In, Run
  <2>7. ManifestsKnown' BY <2>4, <2>5, LibraryIn DEF ManifestsKnown, Known, Run
  <2>8. ReportsCounted'
    BY <2>4, <2>5, LibraryIn DEF WatchInv, ReportsCounted, Owed, Seeding, Starting, In, Run
  <2> QED BY <2>3, <2>6, <2>7, <2>8 DEF WatchInv
<1> QED BY <1>2, <1>3

\* What a step of the watcher alone has to keep.
LEMMA RunKeeps ==
    ASSUME WatchInv, NEW run \in WatcherRuns,
           watching' = [watching EXCEPT !.run = run],
           WatchPlaces',
           ManifestsKnown',
           \A a \in Apps : Owed(a)' => Owed(a)
    PROVE  WatchInv'
<1>1. WatchTypes' BY DEF WatchInv, WatchTypes
<1>2. UNCHANGED <<watching.settles, watching.reports>> BY DEF WatchInv, WatchTypes
<1>3. ReportsCounted' BY <1>2 DEF WatchInv, ReportsCounted
<1> QED BY <1>1, <1>3 DEF WatchInv

LEMMA AddWatchKeeps == ASSUME WatchInv, AddWatch PROVE WatchInv'
<1> USE DEF In, Run
<1>1. CASE Run.libraries = {}
  <2> DEFINE run == [watching.run EXCEPT !.at = "wait"]
  <2>1. watching' = [watching EXCEPT !.run = run] BY <1>1 DEF AddWatch, WatchInv, WatchTypes
  <2>2. run \in WatcherRuns BY DEF WatchInv, WatchTypes, WatcherRuns, WatcherSteps
  <2>3. /\ run.at = "wait" /\ run.libraries = {} /\ run.list = {} /\ run.watched = Libraries
        /\ run.settled = watching.run.settled /\ watching.run.at = "watch"
        /\ watching.run.list = {}
    BY <1>1 DEF AddWatch, WatchInv, WatchPlaces, Starting, WatchTypes, WatcherRuns
  <2>4. watching'.run = run /\ UNCHANGED <<watching.apps, watching.torn, watching.lost, watching.events>>
    BY <2>1 DEF WatchInv, WatchTypes
  <2> HIDE DEF run
  <2>5. WatchPlaces' BY <2>3, <2>4 DEF WatchPlaces, Starting
  <2>6. ManifestsKnown' BY <1>1, <2>3, <2>4 DEF WatchInv, ManifestsKnown, Known, Readable, YesNo, IsSettled
  <2>7. \A a \in Apps : Owed(a)' => Owed(a)
    BY <1>1, <2>3, <2>4 DEF Owed, Seeding, Starting, IsSettled
  <2> QED BY <2>1, <2>2, <2>5, <2>6, <2>7, RunKeeps
<1>2. CASE Run.libraries # {}
  <2>1. PICK l \in Run.libraries :
          watching' = [watching EXCEPT !.run.at = "seed", !.run.library = l,
                                       !.run.watched = @ \cup {l}]
    BY <1>2 DEF AddWatch
  <2> DEFINE run == [watching.run EXCEPT !.at = "seed", !.library = l, !.watched = @ \cup {l}]
  <2>2. watching' = [watching EXCEPT !.run = run] BY <2>1 DEF WatchInv, WatchTypes
  <2>3. run \in WatcherRuns BY DEF WatchInv, WatchTypes, WatcherRuns, WatcherSteps
  <2>4. /\ run.at = "seed" /\ run.libraries = watching.run.libraries /\ run.list = {} /\ run.library = l
        /\ run.watched = watching.run.watched \cup {l}
        /\ run.settled = watching.run.settled /\ watching.run.at = "watch"
        /\ watching.run.list = {} /\ l \in Libraries
    BY <2>1 DEF AddWatch, WatchInv, WatchPlaces, Starting, WatchTypes, WatcherRuns
  <2>5. watching'.run = run /\ UNCHANGED <<watching.apps, watching.torn, watching.lost, watching.events>>
    BY <2>2 DEF WatchInv, WatchTypes
  <2> HIDE DEF run
  <2>6. WatchPlaces' BY <2>4, <2>5 DEF WatchInv, WatchPlaces, Starting
  <2>7. ManifestsKnown' BY <2>4, <2>5 DEF WatchInv, ManifestsKnown, Known, Readable, YesNo, IsSettled
  <2>8. \A a \in Apps : Owed(a)' => Owed(a)
    BY <2>4, <2>5 DEF Owed, Seeding, Starting, IsSettled
  <2> QED BY <2>2, <2>3, <2>6, <2>7, <2>8, RunKeeps
<1> QED BY <1>1, <1>2

LEMMA SeedKeeps == ASSUME WatchInv, Seed PROVE WatchInv'
<1> USE DEF In, Run
<1> DEFINE l == watching.run.library
           told == [a \in Apps |-> IF AppLibrary[a] = l THEN 0 ELSE watching.reports[a]]
           fresh(blind) == [a \in Apps |-> IF AppLibrary[a] # l THEN watching.settles[a]
                                           ELSE IF a \in blind /\ IsSettled(watching.apps[a]) THEN 1 ELSE 0]
           run(s) == [watching.run EXCEPT !.at = "watch", !.libraries = @ \ {l}, !.settled = s]
<1>1. \/ watching' = [watching EXCEPT !.run = run(Seeded(l)), !.reports = told,
                                      !.settles = fresh({a \in Apps : ~Readable(a)})]
      \/ /\ Room("unreadable") > 0
         /\ watching' = [watching EXCEPT !.run = run(watching.run.settled), !.reports = told,
                                         !.settles = fresh(Apps), !.left = Taken("unreadable"), !.lost = TRUE]
  <2> DEFINE rest == [watching.run EXCEPT !.at = "watch", !.libraries = @ \ {l}]
  <2>1. run(watching.run.settled) = rest
    BY DEF WatchInv, WatchTypes, WatcherRuns
  <2>2. \/ watching' = [watching EXCEPT !.run = run(Seeded(l)), !.reports = told,
                                        !.settles = fresh({a \in Apps : ~Readable(a)})]
        \/ /\ Room("unreadable") > 0
           /\ watching' = [watching EXCEPT !.run = rest, !.reports = told,
                                           !.settles = fresh(Apps), !.left = Taken("unreadable"), !.lost = TRUE]
    BY DEF Seed, WatchInv, WatchTypes
  <2> QED BY <2>1, <2>2
<1>2. /\ watching.run.settled \in [Apps -> {"unseen", "yes", "no"}]
      /\ watching.reports \in [Apps -> Nat] /\ watching.settles \in [Apps -> Nat]
      /\ watching.run \in WatcherRuns
  BY DEF WatchInv, WatchTypes, WatcherRuns
<1>3. PICK settled \in [Apps -> {"unseen", "yes", "no"}], settles \in [Apps -> Nat],
           left \in [WatchKinds -> Nat], lost \in BOOLEAN :
        /\ watching' = [watching EXCEPT !.run = run(settled), !.reports = told, !.settles = settles,
                                        !.left = left, !.lost = lost]
        /\ \/ lost /\ \A a \in Apps : AppLibrary[a] = l => settled[a] = watching.run.settled[a]
           \/ lost = watching.lost
              /\ \A a \in Apps : AppLibrary[a] = l /\ Readable(a) => settled[a] = YesNo(a)
        /\ \A a \in Apps :
              /\ AppLibrary[a] # l => settled[a] = watching.run.settled[a] /\ settles[a] = watching.settles[a]
              /\ AppLibrary[a] = l /\ IsSettled(watching.apps[a]) => settles[a] = 1 \/ settled[a] = "yes"
  <2>1. \A blind : fresh(blind) \in [Apps -> Nat] BY <1>2
  <2>2. \A blind : \A a \in Apps : fresh(blind)[a] = IF AppLibrary[a] # l THEN watching.settles[a]
              ELSE IF a \in blind /\ IsSettled(watching.apps[a]) THEN 1 ELSE 0
    OBVIOUS
  <2> HIDE DEF fresh, run, told
  <2>3. CASE watching' = [watching EXCEPT !.run = run(Seeded(l)), !.reports = told,
                                          !.settles = fresh({a \in Apps : ~Readable(a)})]
    <3>1. watching' = [watching EXCEPT !.run = run(Seeded(l)), !.reports = told,
                                       !.settles = fresh({a \in Apps : ~Readable(a)}),
                                       !.left = watching.left, !.lost = watching.lost]
      BY <2>3 DEF WatchInv, WatchTypes
    <3>2. /\ Seeded(l) \in [Apps -> {"unseen", "yes", "no"}]
          /\ \A a \in Apps : Seeded(l)[a] = IF AppLibrary[a] = l /\ Readable(a) THEN YesNo(a)
                                            ELSE watching.run.settled[a]
      BY <1>2 DEF Seeded, YesNo
    <3>3. \A a \in Apps : Readable(a) /\ IsSettled(watching.apps[a]) => YesNo(a) = "yes" BY DEF YesNo
    <3>4. watching.left \in [WatchKinds -> Nat] /\ watching.lost \in BOOLEAN BY DEF WatchInv, WatchTypes
    <3>5. \A a \in Apps : AppLibrary[a] = l /\ IsSettled(watching.apps[a])
              => fresh({b \in Apps : ~Readable(b)})[a] = 1 \/ Seeded(l)[a] = "yes"
      BY <2>2, <3>2, <3>3
    <3>6. \A a \in Apps : AppLibrary[a] # l
              => fresh({b \in Apps : ~Readable(b)})[a] = watching.settles[a] /\ Seeded(l)[a] = watching.run.settled[a]
      BY <2>2, <3>2
    <3>7. fresh({b \in Apps : ~Readable(b)}) \in [Apps -> Nat] BY <2>1
    <3>8. \A a \in Apps : AppLibrary[a] = l /\ Readable(a) => Seeded(l)[a] = YesNo(a) BY <3>2
    <3> DEFINE seeded == Seeded(l) count == fresh({b \in Apps : ~Readable(b)})
    <3>9. /\ seeded \in [Apps -> {"unseen", "yes", "no"}] /\ count \in [Apps -> Nat]
          /\ watching' = [watching EXCEPT !.run = run(seeded), !.reports = told, !.settles = count,
                                          !.left = watching.left, !.lost = watching.lost]
          /\ \A a \in Apps : AppLibrary[a] = l /\ Readable(a) => seeded[a] = YesNo(a)
          /\ \A a \in Apps :
                /\ AppLibrary[a] # l => seeded[a] = watching.run.settled[a] /\ count[a] = watching.settles[a]
                /\ AppLibrary[a] = l /\ IsSettled(watching.apps[a]) => count[a] = 1 \/ seeded[a] = "yes"
      BY <3>1, <3>2, <3>5, <3>6, <3>7, <3>8, Zenon
    <3> HIDE DEF seeded, count
    <3> QED BY <3>4, <3>9, Zenon
  <2>4. CASE /\ Room("unreadable") > 0
             /\ watching' = [watching EXCEPT !.run = run(watching.run.settled), !.reports = told,
                                             !.settles = fresh(Apps), !.left = Taken("unreadable"), !.lost = TRUE]
    <3>1. Taken("unreadable") \in [WatchKinds -> Nat] BY <2>4, TakenLeft DEF WatchKinds
    <3>2. fresh(Apps) \in [Apps -> Nat] BY <2>1
    <3>3. \A a \in Apps : /\ AppLibrary[a] # l => fresh(Apps)[a] = watching.settles[a]
                          /\ AppLibrary[a] = l /\ IsSettled(watching.apps[a]) => fresh(Apps)[a] = 1
      BY <2>2
    <3> DEFINE count == fresh(Apps)
    <3>4. count \in [Apps -> Nat] /\ Taken("unreadable") \in [WatchKinds -> Nat] BY <3>1, <3>2
    <3>5. watching' = [watching EXCEPT !.run = run(watching.run.settled), !.reports = told, !.settles = count,
                                       !.left = Taken("unreadable"), !.lost = TRUE]
      BY <2>4
    <3> HIDE DEF count
    <3>6. \A a \in Apps : /\ AppLibrary[a] # l => count[a] = watching.settles[a]
                          /\ AppLibrary[a] = l /\ IsSettled(watching.apps[a]) => count[a] = 1
      BY <3>3 DEF count
    <3>7. TRUE \in BOOLEAN OBVIOUS
    <3> QED BY <1>2, <3>4, <3>5, <3>6, <3>7, Zenon
  <2> QED BY <1>1, <2>3, <2>4
<1>4. run(settled) \in WatcherRuns
  BY <1>2 DEF WatcherRuns, WatcherSteps
<1>5. /\ run(settled).at = "watch" /\ run(settled).libraries = watching.run.libraries \ {l}
      /\ run(settled).list = watching.run.list
      /\ run(settled).watched = watching.run.watched /\ run(settled).settled = settled
      /\ watching.run.at = "seed" /\ watching.run.list = {} /\ l \in watching.run.watched
      /\ l \in watching.run.libraries
      /\ watching.run.watched \cup watching.run.libraries = Libraries
      /\ \A a \in Apps : AppLibrary[a] \in watching.run.libraries => watching.run.settled[a] = "unseen"
  BY <1>2 DEF Seed, WatchInv, WatchPlaces, Starting, WatcherRuns
<1>6. told \in [Apps -> Nat]
      /\ \A a \in Apps : told[a] = IF AppLibrary[a] = l THEN 0 ELSE watching.reports[a]
  BY <1>2
<1> HIDE DEF told, run
<1>8. /\ watching'.run = run(settled) /\ watching'.reports = told /\ watching'.settles = settles
      /\ watching'.lost = lost
      /\ UNCHANGED <<watching.apps, watching.torn, watching.events>>
  BY <1>3 DEF WatchInv, WatchTypes
<1>9. WatchTypes' BY <1>3, <1>4, <1>6 DEF WatchInv, WatchTypes
<1>10. WatchPlaces'
  <2>1. \A a \in Apps : AppLibrary[a] \in run(settled).libraries => run(settled).settled[a] = "unseen"
    BY <1>3, <1>5
  <2>2. run(settled).watched \cup run(settled).libraries = Libraries BY <1>5
  <2> QED BY <1>5, <1>8, <2>1, <2>2 DEF WatchPlaces, Starting
<1>11. ManifestsKnown'
  <2>1. CASE lost BY <1>8, <2>1 DEF ManifestsKnown
  <2>2. CASE lost = watching.lost /\ \A a \in Apps : AppLibrary[a] = l /\ Readable(a) => settled[a] = YesNo(a)
    BY <1>3, <1>5, <1>8, <2>2 DEF WatchInv, ManifestsKnown, Known, Readable, YesNo, IsSettled
  <2> QED BY <1>3, <2>1, <2>2
<1>12. ReportsCounted'
  <2> SUFFICES ASSUME NEW a \in Apps
               PROVE  told[a] <= settles[a] /\ (Owed(a)' => told[a] < settles[a])
    BY <1>8 DEF ReportsCounted
  <2>1. CASE AppLibrary[a] = l
    <3>1. Owed(a)' => IsSettled(watching.apps[a]) /\ settled[a] # "yes"
      BY <1>5, <1>8 DEF Owed, IsSettled
    <3>2. told[a] = 0 /\ settles[a] \in Nat BY <1>6, <2>1
    <3> QED BY <1>3, <2>1, <3>1, <3>2
  <2>2. CASE AppLibrary[a] # l
    <3>1. Owed(a)' => Owed(a)
      BY <1>3, <1>5, <1>8, <2>2 DEF Owed, Seeding, Starting, IsSettled
    <3> QED BY <1>3, <1>6, <2>2, <3>1 DEF WatchInv, ReportsCounted
  <2> QED BY <2>1, <2>2
<1> QED BY <1>9, <1>10, <1>11, <1>12 DEF WatchInv

LEMMA WaitKeeps == ASSUME WatchInv, Wait PROVE WatchInv'
<1> USE DEF In, Run
<1>1. CASE watching.cancel
  <2>1. watching' = [watching EXCEPT !.run = NotRunning, !.events = FALSE, !.lost = FALSE]
    BY <1>1 DEF Wait
  <2>2. NotRunning \in WatcherRuns BY DEF NotRunning, WatcherRuns, WatcherSteps
  <2>3. WatchTypes' BY <2>1, <2>2 DEF WatchInv, WatchTypes
  <2>4. watching'.run = NotRunning /\ UNCHANGED <<watching.reports, watching.settles>>
    BY <2>1 DEF WatchInv, WatchTypes
  <2>5. NotRunning.at = "off" /\ NotRunning.watched = {} /\ NotRunning.list = {} BY DEF NotRunning
  <2>6. WatchPlaces' BY <2>4, <2>5 DEF WatchPlaces, Starting
  <2>7. ManifestsKnown' BY <2>4, <2>5 DEF ManifestsKnown
  <2>8. ReportsCounted' BY <2>4, <2>5 DEF WatchInv, ReportsCounted, Owed, Seeding
  <2> QED BY <2>3, <2>6, <2>7, <2>8 DEF WatchInv
<1>2. CASE ~watching.cancel
  <2> DEFINE run == [watching.run EXCEPT !.at = "read", !.libraries = watching.run.watched]
  <2>1. watching' = [watching EXCEPT !.events = FALSE, !.run = run]
    BY <1>2 DEF Wait, WatchInv, WatchTypes
  <2>2. run \in WatcherRuns BY DEF WatchInv, WatchTypes, WatcherRuns, WatcherSteps
  <2>3. /\ run.at = "read" /\ run.libraries = Libraries /\ run.watched = Libraries /\ run.list = {}
        /\ run.settled = watching.run.settled /\ watching.run.at = "wait" /\ watching.run.list = {}
    BY DEF Wait, WatchInv, WatchPlaces, Starting, WatchTypes, WatcherRuns
  <2> HIDE DEF run
  <2>4. WatchTypes' BY <2>1, <2>2 DEF WatchInv, WatchTypes
  <2>5. watching'.run = run /\ UNCHANGED <<watching.apps, watching.reports, watching.settles>>
    BY <2>1 DEF WatchInv, WatchTypes
  <2>6. WatchPlaces' BY <2>3, <2>5 DEF WatchPlaces, Starting
  <2>7. ManifestsKnown' BY <2>3, <2>5, LibraryIn DEF ManifestsKnown, Known
  <2>8. ReportsCounted'
    <3>1. \A a \in Apps : Owed(a)' => Owed(a)
      BY <2>3, <2>5 DEF Owed, Seeding, Starting, IsSettled
    <3> QED BY <2>5, <3>1 DEF WatchInv, ReportsCounted
  <2> QED BY <2>4, <2>6, <2>7, <2>8 DEF WatchInv
<1> QED BY <1>1, <1>2

LEMMA ReadLibraryKeeps == ASSUME WatchInv, ReadLibrary PROVE WatchInv'
<1> USE DEF In, Run
<1>0. /\ watching.run.at = "read" /\ watching.run.list = {} /\ watching.run.watched = Libraries
      /\ watching.run \in WatcherRuns
  BY DEF ReadLibrary, WatchInv, WatchPlaces, Starting, WatchTypes
<1>1. CASE Run.libraries = {}
  <2> DEFINE run == [watching.run EXCEPT !.at = "wait"]
  <2>1. watching' = [watching EXCEPT !.run = run] BY <1>1 DEF ReadLibrary, WatchInv, WatchTypes
  <2>2. run \in WatcherRuns BY <1>0 DEF WatcherRuns, WatcherSteps
  <2>3. /\ run.at = "wait" /\ run.libraries = {} /\ run.list = {} /\ run.watched = Libraries
        /\ run.settled = watching.run.settled
    BY <1>0, <1>1 DEF WatcherRuns
  <2> HIDE DEF run
  <2>4. watching'.run = run /\ UNCHANGED <<watching.apps, watching.torn, watching.lost, watching.events>>
    BY <2>1 DEF WatchInv, WatchTypes
  <2>5. WatchPlaces' BY <2>3, <2>4 DEF WatchPlaces, Starting
  <2>6. ManifestsKnown'
    BY <1>0, <1>1, <2>3, <2>4 DEF WatchInv, ManifestsKnown, Known, Readable, YesNo, IsSettled
  <2>7. \A a \in Apps : Owed(a)' => Owed(a)
    BY <1>0, <2>3, <2>4 DEF Owed, Seeding, Starting, IsSettled
  <2> QED BY <2>1, <2>2, <2>5, <2>6, <2>7, RunKeeps
<1>2. ASSUME NEW l \in watching.run.libraries,
             watching' = [[watching EXCEPT !.run.libraries = @ \ {l}]
                             EXCEPT !.run.at = "report", !.run.list = Listing(l)]
      PROVE  WatchInv'
  <2> DEFINE run == [watching.run EXCEPT !.at = "report", !.libraries = @ \ {l}, !.list = Listing(l)]
  <2>1. watching' = [watching EXCEPT !.run = run] BY <1>2 DEF WatchInv, WatchTypes, WatcherRuns
  <2>2. Listing(l) \in SUBSET Entries BY DEF Listing, LibraryAt, YesNo, Entries
  <2>3. run \in WatcherRuns
    <3> HIDE DEF Listing
    <3> QED BY <1>0, <2>2 DEF WatcherRuns, WatcherSteps
  <2>4. /\ run.at = "report" /\ run.libraries = watching.run.libraries \ {l}
        /\ run.list = Listing(l) /\ run.watched = Libraries /\ run.settled = watching.run.settled
    BY <1>0 DEF WatcherRuns
  <2> HIDE DEF run
  <2>5. watching'.run = run /\ UNCHANGED <<watching.apps, watching.torn, watching.lost, watching.events>>
    BY <2>1 DEF WatchInv, WatchTypes
  <2>6. \A e \in Listing(l) : /\ e.app \in Apps /\ AppLibrary[e.app] = l /\ Readable(e.app)
                              /\ e.settled = YesNo(e.app)
                              /\ e = [app |-> e.app, settled |-> YesNo(e.app)]
    BY DEF Listing, LibraryAt
  <2>7. \A a \in Apps : AppLibrary[a] = l /\ Readable(a) => \E e \in Listing(l) : e.app = a
    <3> SUFFICES ASSUME NEW a \in Apps, AppLibrary[a] = l, Readable(a)
                 PROVE  \E e \in Listing(l) : e.app = a
      OBVIOUS
    <3>1. [app |-> a, settled |-> YesNo(a)] \in Listing(l) BY DEF Listing, LibraryAt
    <3> QED BY <3>1
  <2>8. WatchPlaces' BY <2>4, <2>5, <2>6 DEF WatchPlaces, Starting
  <2>9. ManifestsKnown'
    <3> SUFFICES ASSUME ~watching.lost, ~watching.events, NEW a \in Apps, Readable(a) PROVE Known(a)'
      BY <2>5 DEF ManifestsKnown, Readable
    <3>1. Known(a) BY <1>0 DEF WatchInv, ManifestsKnown
    <3>2. YesNo(a)' = YesNo(a) BY <2>5 DEF YesNo, IsSettled
    <3>3. CASE AppLibrary[a] = l
      BY <2>4, <2>5, <2>6, <2>7, <3>2, <3>3 DEF Known
    <3>4. CASE AppLibrary[a] # l
      BY <1>0, <2>4, <2>5, <2>6, <3>1, <3>2, <3>4 DEF Known
    <3> QED BY <3>3, <3>4
  <2>10. \A a \in Apps : Owed(a)' => Owed(a)
    <3> SUFFICES ASSUME NEW a \in Apps, Owed(a)' PROVE Owed(a) OBVIOUS
    <3>1. \A e \in Listing(l) : e.app = a => (e.settled = "yes" <=> IsSettled(watching.apps[a]))
      BY <2>6 DEF YesNo
    <3>2. \A e \in Listing(l) : e.app = a => e.settled \in {"yes", "no"} BY <2>6 DEF YesNo
    <3> QED BY <1>0, <2>4, <2>5, <3>1, <3>2 DEF Owed, Seeding, Starting, IsSettled
  <2> QED BY <2>1, <2>3, <2>8, <2>9, <2>10, RunKeeps
<1>3. ASSUME NEW l \in watching.run.libraries, Room("unreadable") > 0,
             watching' = [[watching EXCEPT !.run.libraries = @ \ {l}]
                             EXCEPT !.left = Taken("unreadable"), !.lost = TRUE]
      PROVE  WatchInv'
  <2> DEFINE run == [watching.run EXCEPT !.libraries = @ \ {l}]
  <2>1. watching' = [watching EXCEPT !.run = run, !.left = Taken("unreadable"), !.lost = TRUE]
    BY <1>3 DEF WatchInv, WatchTypes, WatcherRuns
  <2>2. run \in WatcherRuns BY <1>0 DEF WatcherRuns, WatcherSteps
  <2>3. /\ run.at = "read" /\ run.list = {} /\ run.watched = Libraries /\ run.settled = watching.run.settled
    BY <1>0 DEF WatcherRuns
  <2> HIDE DEF run
  <2>4. Taken("unreadable") \in [WatchKinds -> Nat] BY <1>3, TakenLeft DEF WatchKinds
  <2>5. WatchTypes' BY <2>1, <2>2, <2>4 DEF WatchInv, WatchTypes
  <2>6. watching'.run = run /\ watching'.lost
        /\ UNCHANGED <<watching.apps, watching.settles, watching.reports>>
    BY <2>1 DEF WatchInv, WatchTypes
  <2>7. WatchPlaces' BY <2>3, <2>6 DEF WatchPlaces, Starting
  <2>8. ManifestsKnown' BY <2>6 DEF ManifestsKnown
  <2>9. ReportsCounted'
    <3>1. \A a \in Apps : Owed(a)' => Owed(a)
      BY <1>0, <2>3, <2>6 DEF Owed, Seeding, Starting, IsSettled
    <3> QED BY <2>6, <3>1 DEF WatchInv, ReportsCounted
  <2> QED BY <2>5, <2>7, <2>8, <2>9 DEF WatchInv
<1> QED BY <1>1, <1>2, <1>3 DEF ReadLibrary

LEMMA ReportKeeps == ASSUME WatchInv, Report PROVE WatchInv'
<1> USE DEF In, Run
<1>0. /\ watching.run.at = "report" /\ watching.run.watched = Libraries /\ watching.run \in WatcherRuns
      /\ watching.run.settled \in [Apps -> {"unseen", "yes", "no"}]
      /\ watching.run.list \subseteq Entries
      /\ watching.reports \in [Apps -> Nat] /\ watching.settles \in [Apps -> Nat]
      /\ \A e, f \in watching.run.list : e.app = f.app => e = f
  BY DEF Report, WatchInv, WatchPlaces, Starting, WatchTypes, WatcherRuns
<1>1. CASE Run.list = {}
  <2> DEFINE run == [watching.run EXCEPT !.at = "read"]
  <2>1. watching' = [watching EXCEPT !.run = run] BY <1>1 DEF Report, WatchInv, WatchTypes
  <2>2. run \in WatcherRuns BY <1>0 DEF WatcherRuns, WatcherSteps
  <2>3. /\ run.at = "read" /\ run.libraries = watching.run.libraries /\ run.list = {}
        /\ run.watched = Libraries /\ run.settled = watching.run.settled
    BY <1>0, <1>1 DEF WatcherRuns
  <2> HIDE DEF run
  <2>4. watching'.run = run /\ UNCHANGED <<watching.apps, watching.torn, watching.lost, watching.events>>
    BY <2>1 DEF WatchInv, WatchTypes
  <2>5. WatchPlaces' BY <2>3, <2>4 DEF WatchPlaces, Starting
  <2>6. ManifestsKnown'
    BY <1>0, <1>1, <2>3, <2>4 DEF WatchInv, ManifestsKnown, Known, Readable, YesNo, IsSettled
  <2>7. \A a \in Apps : Owed(a)' => Owed(a)
    BY <1>0, <1>1, <2>3, <2>4 DEF Owed, Seeding, Starting, IsSettled
  <2> QED BY <2>1, <2>2, <2>5, <2>6, <2>7, RunKeeps
<1>2. CASE Run.list # {}
  <2> DEFINE next(e) == [watching.run EXCEPT !.list = @ \ {e}, !.settled[e.app] = e.settled]
             tells(e) == e.settled = "yes" /\ watching.run.settled[e.app] # "yes"
             run(e)   == IF tells(e) THEN [next(e) EXCEPT !.at = "check", !.app = e.app] ELSE next(e)
             told(e) == IF tells(e) THEN [watching.reports EXCEPT ![e.app] = @ + 1]
                           ELSE watching.reports
  <2>1. PICK e \in watching.run.list :
          IF tells(e)
          THEN watching' = [watching EXCEPT !.run = [next(e) EXCEPT !.at = "check", !.app = e.app],
                                            !.reports[e.app] = @ + 1]
          ELSE watching' = [watching EXCEPT !.run = next(e)]
    BY <1>2 DEF Report
  <2>2. watching' = [watching EXCEPT !.run = run(e), !.reports = told(e)]
    <3> HIDE DEF next
    <3>1. CASE tells(e) BY <2>1, <3>1 DEF WatchInv, WatchTypes
    <3>2. CASE ~tells(e) BY <2>1, <3>2 DEF WatchInv, WatchTypes
    <3> QED BY <3>1, <3>2
  <2>3. e.app \in Apps /\ e.settled \in {"yes", "no"} BY <1>0 DEF Entries
  <2>4. [watching.run.settled EXCEPT ![e.app] = e.settled] \in [Apps -> {"unseen", "yes", "no"}]
    BY <1>0, <2>3
  <2>5. next(e) \in WatcherRuns
    <3>1. watching.run.list \ {e} \subseteq Entries BY <1>0
    <3> QED BY <1>0, <2>4, <3>1 DEF WatcherRuns
  <2>6. run(e) \in WatcherRuns BY <2>3, <2>5 DEF WatcherRuns, WatcherSteps
  <2>7. told(e) \in [Apps -> Nat] BY <1>0, <2>3
  <2>8. /\ run(e).at = (IF tells(e) THEN "check" ELSE "report")
        /\ run(e).libraries = watching.run.libraries
        /\ run(e).list = watching.run.list \ {e} /\ run(e).watched = Libraries
        /\ run(e).settled = [watching.run.settled EXCEPT ![e.app] = e.settled]
    BY <1>0 DEF WatcherRuns
  <2>9. \A a \in Apps : /\ run(e).settled[a] = IF a = e.app THEN e.settled ELSE watching.run.settled[a]
                        /\ told(e)[a] = IF a = e.app /\ tells(e) THEN watching.reports[a] + 1
                                           ELSE watching.reports[a]
    BY <1>0, <2>3, <2>8
  <2>10. tells(e) <=> e.settled = "yes" /\ watching.run.settled[e.app] # "yes" OBVIOUS
  <2> HIDE DEF next, run, told, tells
  <2>11. WatchTypes' BY <2>2, <2>6, <2>7 DEF WatchInv, WatchTypes
  <2>12. /\ watching'.run = run(e) /\ watching'.reports = told(e)
         /\ UNCHANGED <<watching.apps, watching.torn, watching.lost, watching.events, watching.settles>>
    BY <2>2 DEF WatchInv, WatchTypes
  <2>13. run(e).at \in {"check", "report"} BY <2>8
  <2>14. WatchPlaces' BY <1>0, <2>8, <2>12, <2>13 DEF WatchPlaces, Starting
  <2>15. \A f \in watching.run.list : f.app = e.app => f = e BY <1>0, <2>1
  <2>16. ManifestsKnown'
    <3> SUFFICES ASSUME ~watching.lost, ~watching.events, NEW a \in Apps, Readable(a) PROVE Known(a)'
      BY <2>12 DEF ManifestsKnown, Readable
    <3>1. Known(a) BY <1>0 DEF WatchInv, ManifestsKnown
    <3>2. YesNo(a)' = YesNo(a) BY <2>12 DEF YesNo, IsSettled
    <3>3. CASE a = e.app
      BY <2>1, <2>8, <2>9, <2>12, <2>15, <3>1, <3>2, <3>3 DEF Known
    <3>4. CASE a # e.app
      BY <2>1, <2>8, <2>9, <2>12, <3>1, <3>2, <3>4 DEF Known
    <3> QED BY <3>3, <3>4
  <2>17. ReportsCounted'
    <3> SUFFICES ASSUME NEW a \in Apps
                 PROVE  told(e)[a] <= watching.settles[a]
                        /\ (Owed(a)' => told(e)[a] < watching.settles[a])
      BY <2>12 DEF ReportsCounted
    <3>1. /\ watching.reports[a] <= watching.settles[a]
          /\ Owed(a) => watching.reports[a] < watching.settles[a]
          /\ watching.reports[a] \in Nat /\ watching.settles[a] \in Nat
      BY <1>0 DEF WatchInv, ReportsCounted
    <3>2. CASE a # e.app
      <4>1. Owed(a)' => Owed(a)
        BY <1>0, <2>8, <2>9, <2>12, <2>13, <3>2 DEF Owed, Seeding, Starting, IsSettled
      <4> QED BY <2>9, <3>1, <3>2, <4>1
    <3>3. CASE a = e.app
      <4>1. \A f \in run(e).list : f.app # a BY <2>8, <2>15, <3>3
      <4>2. CASE e.settled = "yes"
        <5>1. ~Owed(a)' BY <2>9, <2>12, <3>3, <4>1, <4>2 DEF Owed
        <5>2. tells(e) => Owed(a) BY <1>0, <2>1, <2>10, <3>3 DEF Owed, Seeding, Starting
        <5> QED BY <2>9, <3>1, <3>3, <5>1, <5>2
      <4>3. CASE e.settled = "no"
        <5>1. Owed(a)' => Owed(a)
          BY <1>0, <2>1, <2>12, <3>3, <4>1, <4>3 DEF Owed, Seeding, Starting, IsSettled
        <5> QED BY <2>9, <2>10, <3>1, <4>3, <5>1
      <4> QED BY <2>3, <4>2, <4>3
    <3> QED BY <3>2, <3>3
  <2> QED BY <2>11, <2>14, <2>16, <2>17, Zenon DEF WatchInv
<1> QED BY <1>1, <1>2

\* The rest of a round, in which the watcher only waits for the job of a game.
LEMMA FollowsKeepsRun ==
    ASSUME WatchInv, CheckIdle \/ Enqueue \/ QueuedJob PROVE WatchInv'
<1> USE DEF In, Run
<1>1. PICK at \in {"report", "enqueue", "follow"}, jobs \in [Folders -> {"none", "active", "completed", "failed"}] :
        watching' = [watching EXCEPT !.run = [watching.run EXCEPT !.at = at], !.jobs = jobs]
  <2>1. watching.jobs \in [Folders -> {"none", "active", "completed", "failed"}]
    BY DEF WatchInv, WatchTypes
  <2>2. CASE CheckIdle
    <3>1. PICK at \in {"report", "enqueue"} : watching' = [watching EXCEPT !.run.at = at]
      BY <2>2 DEF CheckIdle
    <3>2. watching' = [watching EXCEPT !.run = [watching.run EXCEPT !.at = at], !.jobs = watching.jobs]
      BY <3>1 DEF WatchInv, WatchTypes
    <3> QED BY <2>1, <3>2
  <2>3. CASE Enqueue
    <3>1. [watching.jobs EXCEPT ![GameFolder] = "active"] \in [Folders -> {"none", "active", "completed", "failed"}]
      BY <2>1
    <3>2. watching' = [watching EXCEPT !.run = [watching.run EXCEPT !.at = "follow"],
                                       !.jobs = [watching.jobs EXCEPT ![GameFolder] = "active"]]
      BY <2>3 DEF Enqueue, WatchInv, WatchTypes
    <3> QED BY <3>1, <3>2
  <2>4. CASE QueuedJob
    <3>1. watching' = [watching EXCEPT !.run = [watching.run EXCEPT !.at = "report"], !.jobs = watching.jobs]
      BY <2>4 DEF QueuedJob, WatchInv, WatchTypes
    <3> QED BY <2>1, <3>1
  <2> QED BY <2>2, <2>3, <2>4
<1> DEFINE run == [watching.run EXCEPT !.at = at]
<1>2. /\ watching.run.at \in {"check", "enqueue", "follow"} /\ watching.run.watched = Libraries
      /\ watching.run \in WatcherRuns
  BY DEF CheckIdle, Enqueue, QueuedJob, WatchInv, WatchPlaces, Starting, WatchTypes
<1>3. run \in WatcherRuns BY <1>2 DEF WatcherRuns, WatcherSteps
<1>4. /\ run.at = at /\ run.libraries = watching.run.libraries /\ run.list = watching.run.list
      /\ run.watched = Libraries /\ run.settled = watching.run.settled
  BY <1>2 DEF WatcherRuns
<1> HIDE DEF run
<1>5. WatchTypes' BY <1>1, <1>3 DEF WatchInv, WatchTypes, run
<1>6. watching'.run = run /\ UNCHANGED <<watching.apps, watching.torn, watching.lost, watching.events,
                                         watching.settles, watching.reports>>
  BY <1>1 DEF WatchInv, WatchTypes, run
<1>7. WatchPlaces' BY <1>2, <1>4, <1>6 DEF WatchInv, WatchPlaces, Starting
<1>8. ManifestsKnown'
  BY <1>2, <1>4, <1>6 DEF WatchInv, ManifestsKnown, Known, Readable, YesNo, IsSettled
<1>9. \A a \in Apps : Owed(a)' => Owed(a)
  BY <1>2, <1>4, <1>6 DEF Owed, Seeding, Starting, IsSettled
<1>10. ReportsCounted' BY <1>6, <1>9 DEF WatchInv, ReportsCounted
<1> QED BY <1>5, <1>7, <1>8, <1>10 DEF WatchInv

LEMMA WatchInvStep == WatchInv /\ [WatchNext]_watching => WatchInv'
<1> SUFFICES ASSUME WatchInv, [WatchNext]_watching PROVE WatchInv' OBVIOUS
<1>1. CASE Replaces \/ Opens \/ Closes \/ Uninstalls
  BY <1>1, ReplacesKeeps, OpensKeeps, ClosesKeeps, UninstallsKeeps
<1>2. CASE Overflows \/ Foreign \/ Disable \/ JobEnds \/ Excludes BY <1>2, ServiceKeeps
<1>3. CASE Enable BY <1>3, EnableKeeps
<1>4. CASE Watcher
  BY <1>4, AddWatchKeeps, SeedKeeps, WaitKeeps, ReadLibraryKeeps, ReportKeeps, FollowsKeepsRun DEF Watcher
<1>5. CASE UNCHANGED watching
  BY <1>5 DEF WatchInv, WatchTypes, WatchPlaces, ManifestsKnown, ReportsCounted, Starting, In, Run, Known,
              Owed, Seeding, Readable, YesNo, IsSettled
<1> QED BY <1>1, <1>2, <1>3, <1>4, <1>5 DEF WatchNext

\* A watcher that waits has seen every manifest as it is or has an event to wake it, and tells
\* of a game at most once for each time it settled, whatever Steam writes during a round
\* (watch.rs:76, watch.rs:93, watch.rs:56).
THEOREM WakesRightEver == WatchSpec => []WakesRight
<1> QED BY WatchInvInit, WatchInvGives, WatchInvStep, PTL DEF WatchSpec

-----------------------------------------------------------------------------
(***************************************************************************)
(* Sums over finite sets, as the community modules fold them: the weight   *)
(* of a set does not depend on the order its elements are taken in.  The   *)
(* inductions take the least size for which a statement fails.             *)
(***************************************************************************)
LEMMA LeastNatural ==
  ASSUME NEW S \in SUBSET Nat, S # {}
  PROVE  \E k \in S : \A j \in S : k <= j
<1>1. PICK k \in S : \A j \in S : ~(<<j, k>> \in OpToRel(<, Nat))
  BY NatLessThanWellFounded, WFMin, Zenon
<1>2. \A j \in S : ~(j < k)
  BY <1>1 DEF OpToRel
<1>. QED BY <1>2

Picked(S) == CHOOSE x \in S : TRUE
Tallied(w, T, g) == IF T = {} THEN 0 ELSE w[Picked(T)] + g[T \ {Picked(T)}]
Tallies(w, S, g) == g = [T \in SUBSET S |-> Tallied(w, T, g)]
Weight(w, S)     == (CHOOSE g : Tallies(w, S, g))[S]

LEMMA BytesWeight == ASSUME NEW s PROVE Bytes(s) = Weight(s.length, Pieces)
BY DEF Bytes, MapThenSumSet, MapThenFoldSet, Weight, Tallies, Tallied, Picked

LEMMA PickedIn == ASSUME NEW S, S # {} PROVE Picked(S) \in S
BY DEF Picked

\* Sets of a size, smaller by the element that is picked.
LEMMA PickedLess ==
  ASSUME NEW S, IsFiniteSet(S), NEW T \in SUBSET S, T # {}, NEW x \in T
  PROVE  /\ IsFiniteSet(T) /\ T \ {x} \in SUBSET S
         /\ Cardinality(T) \in Nat /\ Cardinality(T \ {x}) \in Nat
         /\ Cardinality(T) = Cardinality(T \ {x}) + 1
<1>1. IsFiniteSet(T) /\ IsFiniteSet(T \ {x})
  BY FS_Subset
<1>. QED BY <1>1, FS_CardinalityType, FS_RemoveElement

\* A tally of the sets up to a size.
TalliedTo(w, S, n, g) ==
    /\ g \in [SUBSET S -> Nat]
    /\ \A T \in SUBSET S : Cardinality(T) <= n => g[T] = Tallied(w, T, g)

LEMMA TallyGrows ==
  ASSUME NEW S, IsFiniteSet(S), NEW w, \A x \in S : w[x] \in Nat,
         NEW n \in Nat, NEW g, TalliedTo(w, S, n, g)
  PROVE  TalliedTo(w, S, n + 1, [T \in SUBSET S |-> Tallied(w, T, g)])
<1>. DEFINE h == [T \in SUBSET S |-> Tallied(w, T, g)]
<1>1. h \in [SUBSET S -> Nat]
  <2>1. ASSUME NEW T \in SUBSET S PROVE Tallied(w, T, g) \in Nat
    <3>1. CASE T = {}
      BY <3>1 DEF Tallied
    <3>2. CASE T # {}
      <4>1. Picked(T) \in T
        BY <3>2, PickedIn
      <4>2. w[Picked(T)] \in Nat /\ g[T \ {Picked(T)}] \in Nat
        BY <4>1 DEF TalliedTo
      <4>. QED BY <3>2, <4>2 DEF Tallied
    <3>. QED BY <3>1, <3>2
  <2>. QED BY <2>1
<1>2. ASSUME NEW T \in SUBSET S, Cardinality(T) <= n + 1 PROVE h[T] = Tallied(w, T, h)
  <2>1. CASE T = {}
    BY <2>1 DEF Tallied
  <2>2. CASE T # {}
    <3>. DEFINE U == T \ {Picked(T)}
    <3>1. U \in SUBSET S /\ Cardinality(U) <= n
      BY <1>2, <2>2, PickedIn, PickedLess
    <3>2. g[U] = Tallied(w, U, g)
      BY <3>1 DEF TalliedTo
    <3>3. h[U] = g[U]
      BY <3>1, <3>2
    <3>. QED BY <2>2, <3>3 DEF Tallied
  <2>. QED BY <2>1, <2>2
<1>. QED BY <1>1, <1>2 DEF TalliedTo

LEMMA TallyExists ==
  ASSUME NEW S, IsFiniteSet(S), NEW w, \A x \in S : w[x] \in Nat
  PROVE  \E g : Tallies(w, S, g) /\ g \in [SUBSET S -> Nat]
<1>. DEFINE Good(n) == \E g : TalliedTo(w, S, n, g)
            Bad == {n \in Nat : ~Good(n)}
<1>1. Good(0)
  <2>. DEFINE z == [T \in SUBSET S |-> 0]
  <2>1. \A T \in SUBSET S : Cardinality(T) <= 0 => T = {}
    BY FS_Subset, FS_CardinalityType, FS_EmptySet
  <2>2. TalliedTo(w, S, 0, z)
    BY <2>1 DEF TalliedTo, Tallied
  <2>. QED BY <2>2
<1>2. ASSUME NEW n \in Nat, Good(n) PROVE Good(n + 1)
  <2>1. PICK g : TalliedTo(w, S, n, g)
    BY <1>2
  <2>2. TalliedTo(w, S, n + 1, [T \in SUBSET S |-> Tallied(w, T, g)])
    BY <2>1, TallyGrows
  <2>. QED BY <2>2
<1>. HIDE DEF Good
<1>3. Bad = {}
  <2>1. SUFFICES ASSUME Bad # {} PROVE FALSE
    OBVIOUS
  <2>2. PICK k \in Bad : \A j \in Bad : k <= j
    BY <2>1, LeastNatural
  <2>3. k # 0
    BY <1>1, <2>2
  <2>4. k - 1 \in Nat /\ Good(k - 1)
    BY <2>2, <2>3
  <2>5. Good((k - 1) + 1)
    BY <1>2, <2>4
  <2>. QED BY <2>2, <2>5
<1>4. Cardinality(S) \in Nat
  BY FS_CardinalityType
<1>5. Good(Cardinality(S))
  BY <1>3, <1>4
<1>6. PICK g : TalliedTo(w, S, Cardinality(S), g)
  BY <1>5 DEF Good
<1>7. \A T \in SUBSET S : Cardinality(T) <= Cardinality(S)
  BY FS_Subset
<1>8. g \in [SUBSET S -> Nat] /\ \A T \in SUBSET S : g[T] = Tallied(w, T, g)
  BY <1>6, <1>7 DEF TalliedTo
<1>9. g = [T \in SUBSET S |-> Tallied(w, T, g)]
  BY <1>8
<1>. QED BY <1>8, <1>9 DEF Tallies

\* Two tallies agree where both speak, whatever else they speak about.
LEMMA TallyOnce ==
  ASSUME NEW S, IsFiniteSet(S), NEW R, IsFiniteSet(R), NEW w, NEW g, NEW h,
         Tallies(w, S, g), Tallies(w, R, h), NEW T0, T0 \in SUBSET S, T0 \in SUBSET R
  PROVE  g[T0] = h[T0]
<1>. DEFINE Differ == {T \in SUBSET S : T \in SUBSET R /\ g[T] # h[T]}
            Sizes == {n \in Nat : \E T \in Differ : Cardinality(T) = n}
<1>1. SUFFICES ASSUME g[T0] # h[T0] PROVE FALSE
  OBVIOUS
<1>2. \A T \in SUBSET S : Cardinality(T) \in Nat
  BY FS_Subset, FS_CardinalityType
<1>3. Sizes # {}
  BY <1>1, <1>2
<1>4. PICK k \in Sizes : \A j \in Sizes : k <= j
  BY <1>3, LeastNatural
<1>5. PICK T \in Differ : Cardinality(T) = k
  BY <1>4
<1>6. g[T] = Tallied(w, T, g) /\ h[T] = Tallied(w, T, h)
  BY <1>5 DEF Tallies
<1>7. T # {}
  BY <1>5, <1>6 DEF Tallied
<1>. DEFINE U == T \ {Picked(T)}
<1>8. U \in SUBSET S /\ U \in SUBSET R /\ Cardinality(U) \in Nat /\ Cardinality(U) < k
  BY <1>5, <1>7, PickedIn, PickedLess
<1>9. g[U] = h[U]
  <2>1. CASE g[U] # h[U]
    <3>1. Cardinality(U) \in Sizes
      BY <1>8, <2>1
    <3>. QED BY <1>4, <1>8, <3>1
  <2>. QED BY <2>1
<1>. QED BY <1>5, <1>6, <1>7, <1>9 DEF Tallied

LEMMA WeightStep ==
  ASSUME NEW S, IsFiniteSet(S), NEW w, \A x \in S : w[x] \in Nat
  PROVE  /\ Weight(w, S) \in Nat
         /\ S = {} => Weight(w, S) = 0
         /\ S # {} => Weight(w, S) = w[Picked(S)] + Weight(w, S \ {Picked(S)})
<1>. DEFINE g == CHOOSE f : Tallies(w, S, f)
            R == S \ {Picked(S)}
            h == CHOOSE f : Tallies(w, R, f)
<1>1. PICK f : Tallies(w, S, f) /\ f \in [SUBSET S -> Nat]
  BY TallyExists
<1>2. Tallies(w, S, g)
  BY <1>1
<1>3. IsFiniteSet(R) /\ R \in SUBSET S
  BY FS_Subset
<1>4. PICK e : Tallies(w, R, e)
  BY <1>3, TallyExists
<1>5. Tallies(w, R, h)
  BY <1>4
<1>. HIDE DEF g, h
<1>6. g[S] = f[S] /\ g[R] = h[R]
  BY <1>1, <1>2, <1>3, <1>5, TallyOnce
<1>7. g[S] = Tallied(w, S, g)
  BY <1>2 DEF Tallies
<1>8. Weight(w, S) = g[S] /\ Weight(w, R) = h[R]
  BY DEF Weight, g, h
<1>. QED BY <1>1, <1>6, <1>7, <1>8 DEF Tallied

\* Any element can be taken first.
LEMMA WeightTakes ==
  ASSUME NEW S, IsFiniteSet(S), NEW w, \A x \in S : w[x] \in Nat, NEW z \in S
  PROVE  Weight(w, S) = w[z] + Weight(w, S \ {z})
<1>. DEFINE Unlike == {T \in SUBSET S : \E x \in T : Weight(w, T) # w[x] + Weight(w, T \ {x})}
            Sizes == {n \in Nat : \E T \in Unlike : Cardinality(T) = n}
<1>1. SUFFICES ASSUME Unlike # {} PROVE FALSE
  OBVIOUS
<1>2. \A T \in SUBSET S : Cardinality(T) \in Nat /\ IsFiniteSet(T)
  BY FS_Subset, FS_CardinalityType
<1>3. Sizes # {}
  BY <1>1, <1>2
<1>4. PICK k \in Sizes : \A j \in Sizes : k <= j
  BY <1>3, LeastNatural
<1>5. PICK T \in Unlike : Cardinality(T) = k
  BY <1>4
<1>6. PICK x \in T : Weight(w, T) # w[x] + Weight(w, T \ {x})
  BY <1>5
<1>. DEFINE y == Picked(T)
<1>7. y \in T
  BY <1>6, PickedIn
<1>8. Weight(w, T) = w[y] + Weight(w, T \ {y})
  BY <1>2, <1>5, <1>6, WeightStep
<1>9. x # y
  BY <1>6, <1>8
<1>. HIDE DEF y
<1>10. \A u \in T : /\ T \ {u} \in SUBSET S /\ IsFiniteSet(T \ {u}) /\ T \ {u} \notin Unlike
  <2>1. TAKE u \in T
  <2>2. T \ {u} \in SUBSET S /\ Cardinality(T \ {u}) \in Nat /\ Cardinality(T \ {u}) < k
    BY <1>5, PickedLess
  <2>. HIDE DEF Unlike
  <2>3. T \ {u} \in Unlike => Cardinality(T \ {u}) \in Sizes
    BY <2>2
  <2>4. T \ {u} \notin Unlike
    BY <1>4, <2>2, <2>3
  <2>. QED BY <1>2, <2>2, <2>4
<1>11. Weight(w, T \ {y}) = w[x] + Weight(w, (T \ {y}) \ {x})
  BY <1>6, <1>7, <1>9, <1>10
<1>12. Weight(w, T \ {x}) = w[y] + Weight(w, (T \ {x}) \ {y})
  BY <1>6, <1>7, <1>9, <1>10
<1>13. (T \ {x}) \ {y} = (T \ {y}) \ {x}
  OBVIOUS
<1>14. w[x] \in Nat /\ w[y] \in Nat /\ Weight(w, (T \ {y}) \ {x}) \in Nat
  <2>1. IsFiniteSet((T \ {y}) \ {x}) /\ (T \ {y}) \ {x} \in SUBSET S
    BY <1>2, <1>7, <1>10
  <2>. QED BY <1>5, <1>6, <1>7, <2>1, WeightStep
<1>. QED BY <1>6, <1>8, <1>11, <1>12, <1>13, <1>14

-----------------------------------------------------------------------------
(***************************************************************************)
(* The room that work needs.                                               *)
(***************************************************************************)
LEMMA MaxOfTwo ==
  ASSUME NEW a \in Int, NEW b \in Int
  PROVE  Max({a, b}) \in {a, b} /\ Max({a, b}) >= a /\ Max({a, b}) >= b
<1>1. \E x \in {a, b} : \A y \in {a, b} : x >= y
  OBVIOUS
<1>2. Max({a, b}) \in {a, b} /\ \A y \in {a, b} : Max({a, b}) >= y
  BY <1>1 DEF Max
<1>. QED BY <1>2

LEMMA MinOfTwo ==
  ASSUME NEW a \in Int, NEW b \in Int
  PROVE  Min({a, b}) \in {a, b}
<1>1. \E x \in {a, b} : \A y \in {a, b} : x =< y
  OBVIOUS
<1>2. Min({a, b}) \in {a, b}
  BY <1>1 DEF Min
<1>. QED BY <1>2

LEMMA HeadroomIs ==
  ASSUME NEW n \in Nat
  PROVE  /\ Headroom(n) \in Nat /\ Headroom(n) >= SpaceFloor /\ SpaceFloor \in Nat
         /\ Headroom(n) = n \div 20 \/ Headroom(n) = SpaceFloor
         /\ Headroom(n) >= n \div 20
<1>1. SpaceFloor \in Nat /\ n \div 20 \in Nat
  BY SpaceAssumption
<1>. QED BY <1>1, MaxOfTwo DEF Headroom

LEMMA HeadroomGrows ==
  ASSUME NEW n \in Nat, NEW m \in Nat, n <= m
  PROVE  Headroom(n) <= Headroom(m)
<1>1. n \div 20 <= m \div 20
  OBVIOUS
<1>. QED BY <1>1, HeadroomIs

\* The files of a game, by their lengths.
Measures(w) == w \in [Pieces -> Nat]

LEMMA WeightIs ==
  ASSUME NEW w, Measures(w), NEW S \in SUBSET Pieces
  PROVE  /\ IsFiniteSet(S) /\ Weight(w, S) \in Nat
         /\ S = {} => Weight(w, S) = 0
         /\ \A p \in S : S \ {p} \in SUBSET Pieces /\ Weight(w, S \ {p}) \in Nat
                         /\ Weight(w, S) = w[p] + Weight(w, S \ {p}) /\ w[p] <= Weight(w, S)
<1>1. IsFiniteSet(S) /\ \A x \in S : w[x] \in Nat
  BY SpaceAssumption, FS_Subset DEF Measures
<1>2. Weight(w, S) \in Nat /\ (S = {} => Weight(w, S) = 0)
  BY <1>1, WeightStep
<1>3. ASSUME NEW p \in S
      PROVE  Weight(w, S \ {p}) \in Nat /\ Weight(w, S) = w[p] + Weight(w, S \ {p})
  <2>1. IsFiniteSet(S \ {p}) /\ \A x \in S \ {p} : w[x] \in Nat
    BY <1>1, FS_Subset
  <2>2. Weight(w, S \ {p}) \in Nat
    BY <2>1, WeightStep
  <2>. QED BY <1>1, <2>2, WeightTakes
<1>. QED BY <1>1, <1>2, <1>3

LEMMA LargestIs ==
  ASSUME NEW s, Measures(s.length)
  PROVE  /\ Largest(s) \in Nat
         /\ \A p \in Pieces : s.length[p] <= Largest(s)
         /\ \E p \in Pieces : Largest(s) = s.length[p]
<1>. DEFINE L == {s.length[p] : p \in Pieces}
            Bounds == {u \in Nat : \A p \in Pieces : s.length[p] <= u}
<1>1. \A p \in Pieces : s.length[p] \in Nat
  BY DEF Measures
<1>2. Weight(s.length, Pieces) \in Bounds
  BY WeightIs
<1>3. PICK k \in Bounds : \A j \in Bounds : k <= j
  BY <1>2, LeastNatural
<1>4. \E p \in Pieces : s.length[p] = k
  <2>1. SUFFICES ASSUME \A p \in Pieces : s.length[p] # k PROVE FALSE
    OBVIOUS
  <2>2. PICK p \in Pieces : TRUE
    BY SpaceAssumption
  <2>3. k - 1 \in Nat
    BY <1>1, <1>3, <2>1, <2>2
  <2>4. \A q \in Pieces : s.length[q] <= k - 1
    BY <1>1, <1>3, <2>1
  <2>5. k - 1 \in Bounds
    BY <2>3, <2>4
  <2>. QED BY <1>3, <2>3, <2>5
<1>5. k \in L /\ \A y \in L : k >= y
  BY <1>1, <1>3, <1>4
<1>6. Max(L) \in L /\ \A y \in L : Max(L) >= y
  BY <1>5 DEF Max
<1>. QED BY <1>1, <1>6 DEF Largest

\* What the frames and the entries of the files of a set cost at most.
Cost(s) == [p \in Pieces |-> s.length[p] + s.length[p] \div 32 + EntryBytes]

LEMMA CostMeasures == ASSUME NEW s, Measures(s.length) PROVE Measures(Cost(s))
BY SpaceAssumption DEF Measures, Cost

LEMMA ThirtySecond ==
  ASSUME NEW a \in Nat, NEW b \in Nat
  PROVE  a \div 32 + b \div 32 <= (a + b) \div 32
OBVIOUS

LEMMA CostBound ==
  ASSUME NEW s, Measures(s.length)
  PROVE  Weight(Cost(s), Pieces) + SpaceFixed <= PackBound(s) /\ PackBound(s) \in Nat
<1>. DEFINE w == s.length
            c == Cost(s)
            Bound(S) == Weight(w, S) + Weight(w, S) \div 32 + Cardinality(S) * EntryBytes
            Over == {S \in SUBSET Pieces : Weight(c, S) > Bound(S)}
            Sizes == {n \in Nat : \E S \in Over : Cardinality(S) = n}
<1>1. Measures(c) /\ EntryBytes \in Nat /\ SpaceFixed \in Nat /\ IsFiniteSet(Pieces)
  BY CostMeasures, SpaceAssumption
<1>2. \A S \in SUBSET Pieces : Cardinality(S) \in Nat
  BY <1>1, FS_Subset, FS_CardinalityType
<1>3. Over = {}
  <2>1. SUFFICES ASSUME Over # {} PROVE FALSE
    OBVIOUS
  <2>2. Sizes # {}
    BY <1>2, <2>1
  <2>3. PICK k \in Sizes : \A j \in Sizes : k <= j
    BY <2>2, LeastNatural
  <2>4. PICK S \in Over : Cardinality(S) = k
    BY <2>3
  <2>5. S # {}
    <3>1. SUFFICES ASSUME S = {} PROVE FALSE
      OBVIOUS
    <3>2. Weight(c, S) = 0 /\ Weight(w, S) = 0 /\ Cardinality(S) = 0
      BY <1>1, <3>1, WeightIs, FS_EmptySet
    <3>. QED BY <1>1, <2>4, <3>2
  <2>6. PICK p \in S : TRUE
    BY <2>5
  <2>. DEFINE T == S \ {p}
  <2>7. T \in SUBSET Pieces /\ Cardinality(T) \in Nat /\ k = Cardinality(T) + 1
    BY <1>1, <2>4, <2>6, PickedLess
  <2>8. T \notin Over
    <3>. HIDE DEF Over
    <3>1. T \in Over => Cardinality(T) \in Sizes
      BY <2>7
    <3>. QED BY <2>3, <2>7, <3>1
  <2>9. Weight(c, S) = c[p] + Weight(c, T) /\ Weight(w, S) = w[p] + Weight(w, T)
    BY <1>1, <2>4, <2>6, WeightIs
  <2>10. /\ Weight(c, T) \in Nat /\ Weight(w, T) \in Nat /\ w[p] \in Nat
         /\ c[p] = w[p] + w[p] \div 32 + EntryBytes
    BY <1>1, <2>4, <2>6, <2>7, WeightIs DEF Measures, Cost
  <2>11. Weight(c, T) <= Weight(w, T) + Weight(w, T) \div 32 + Cardinality(T) * EntryBytes
    <3>1. ~(Weight(c, T) > Bound(T))
      BY <2>7, <2>8
    <3>2. Bound(T) \in Nat
      BY <1>1, <2>7, <2>10
    <3>. QED BY <2>10, <3>1, <3>2
  <2>12. w[p] \div 32 + Weight(w, T) \div 32 <= (w[p] + Weight(w, T)) \div 32
    BY <2>10, ThirtySecond
  <2>13. k * EntryBytes = Cardinality(T) * EntryBytes + EntryBytes
    BY <1>1, <2>7
  <2>. DEFINE cT == Cardinality(T) * EntryBytes
  <2>14. cT \in Nat /\ w[p] \div 32 \in Nat /\ Weight(w, T) \div 32 \in Nat
         /\ (w[p] + Weight(w, T)) \div 32 \in Nat
    BY <1>1, <2>7, <2>10
  <2>15. Weight(c, S) <= Weight(w, S) + Weight(w, S) \div 32 + (cT + EntryBytes)
    <3>. HIDE DEF cT, w, c, T
    <3>. QED BY <1>1, <2>9, <2>10, <2>11, <2>12, <2>14 DEF cT
  <2>16. Bound(S) = Weight(w, S) + Weight(w, S) \div 32 + (cT + EntryBytes)
    BY <2>4, <2>13
  <2>17. ~(Weight(c, S) > Bound(S))
    <3>1. Weight(c, S) \in Nat /\ Weight(w, S) \in Nat
      BY <1>1, <2>4, WeightIs
    <3>. HIDE DEF cT, w, c, T, Bound
    <3>. QED BY <1>1, <2>14, <2>15, <2>16, <3>1
  <2>. QED BY <2>4, <2>17
<1>4. /\ Weight(c, Pieces) \in Nat /\ Weight(w, Pieces) \in Nat /\ Cardinality(Pieces) \in Nat
      /\ ~(Weight(c, Pieces) > Bound(Pieces))
  BY <1>1, <1>2, <1>3, WeightIs
<1>. DEFINE cP == Cardinality(Pieces) * EntryBytes
<1>5. (Cardinality(Pieces) + 1) * EntryBytes = cP + EntryBytes /\ cP \in Nat
  BY <1>1, <1>4
<1>6. PackBound(s) = Weight(w, Pieces) + Weight(w, Pieces) \div 32 + (cP + EntryBytes) + SpaceFixed
  BY <1>5, BytesWeight DEF PackBound, MetadataBytes
<1>7. Bound(Pieces) = Weight(w, Pieces) + Weight(w, Pieces) \div 32 + cP
  OBVIOUS
<1>8. Weight(w, Pieces) \div 32 \in Nat
  BY <1>4
<1>. HIDE DEF cP, Bound
<1>. QED BY <1>1, <1>4, <1>5, <1>6, <1>7, <1>8

(***************************************************************************)
(* Work that nobody else disturbed has left, on its drive, room for        *)
(* everything it may still write and for the headroom of its whole plan.   *)
(***************************************************************************)
Running == [at : {"working", "staged", "refused", "failed"}, task : {"native", "activate"},
            todo : SUBSET Pieces, copy : Nat, old : Nat, calm : BOOLEAN]
SpaceFields(s) ==
    s = [platform |-> s.platform, left |-> s.left, length |-> s.length, at |-> s.at,
         free |-> s.free, stored |-> s.stored, shown |-> s.shown, jobs |-> s.jobs, run |-> s.run]
SpaceTypes(s) ==
    /\ SpaceFields(s) /\ Measures(s.length) /\ s.free \in [Volumes -> Nat]
    /\ s.at \in [{"home", "shelf"} -> Volumes]
    /\ s.run = Resting \/ s.run \in Running

\* What the work at hand may still ask for.
Reserve(s) == LET whole == Bytes(s) + Largest(s) IN whole - Bytes(s) + Headroom(whole)
Owes(s) ==
    IF s.run.task = "activate" THEN Weight(Cost(s), s.run.todo) + SpaceFloor
    ELSE Weight(s.length, s.run.todo) + Reserve(s)
HasRoom(s) ==
    s.run # Resting =>
        /\ s.run.task = "activate" => s.run.at = "working"
        /\ s.run.at \in {"staged", "refused", "failed"} => s.run.task = "native" /\ s.platform = "mac"
        /\ s.run.calm =>
             /\ s.free[s.at[IF s.run.task = "native" THEN "home" ELSE "shelf"]] >= Owes(s)
             /\ s.run.at # "refused"

SpaceInv == SpaceTypes(space) /\ HasRoom(space)

LEMMA RestingIs == Resting \notin Running
BY DEF Resting, Running

LEMMA OwesIs ==
  ASSUME NEW s, SpaceTypes(s), s.run \in Running
  PROVE  /\ Owes(s) \in Nat /\ Owes(s) >= SpaceFloor
         /\ Reserve(s) \in Nat /\ Reserve(s) >= SpaceFloor
<1>1. Measures(s.length) /\ Measures(Cost(s)) /\ s.run.todo \in SUBSET Pieces
  BY CostMeasures DEF SpaceTypes, Running
<1>2. /\ Weight(Cost(s), s.run.todo) \in Nat /\ Weight(s.length, s.run.todo) \in Nat
      /\ Bytes(s) \in Nat /\ Largest(s) \in Nat /\ SpaceFloor \in Nat
  BY <1>1, WeightIs, BytesWeight, LargestIs, SpaceAssumption
<1>3. /\ Headroom(Bytes(s) + Largest(s)) \in Nat
      /\ Headroom(Bytes(s) + Largest(s)) >= SpaceFloor
  BY <1>2, HeadroomIs
<1>. HIDE DEF Resting
<1>4. Reserve(s) \in Nat /\ Reserve(s) >= SpaceFloor
  BY <1>2, <1>3 DEF Reserve
<1>. QED BY <1>2, <1>4 DEF Owes

\* What the state owes depends on the files and on the work alone.
LEMMA OwesSame ==
  ASSUME NEW s, NEW t, t.length = s.length, t.run.todo = s.run.todo, t.run.task = s.run.task
  PROVE  Owes(t) = Owes(s)
BY DEF Owes, Reserve, Bytes, Largest, Cost, MapThenSumSet, MapThenFoldSet

\* Files that were done are no longer owed for.
LEMMA OwesLess ==
  ASSUME NEW s, SpaceTypes(s), s.run \in Running, NEW p \in s.run.todo,
         NEW t, t.length = s.length, t.run.task = s.run.task, t.run.todo = s.run.todo \ {p}
  PROVE  /\ s.run.task = "native" => Owes(s) = s.length[p] + Owes(t)
         /\ s.run.task = "activate" => Owes(s) = Cost(s)[p] + Owes(t)
         /\ s.length[p] \in Nat /\ Cost(s)[p] \in Nat /\ Owes(t) \in Nat
<1>1. Measures(s.length) /\ Measures(Cost(s)) /\ s.run.todo \in SUBSET Pieces
  BY CostMeasures DEF SpaceTypes, Running
<1>2. Cost(t) = Cost(s) /\ Reserve(t) = Reserve(s)
  BY DEF Cost, Reserve, Bytes, Largest, MapThenSumSet, MapThenFoldSet
<1>. DEFINE U == s.run.todo \ {p}
<1>3. /\ Weight(s.length, s.run.todo) = s.length[p] + Weight(s.length, U)
      /\ Weight(Cost(s), s.run.todo) = Cost(s)[p] + Weight(Cost(s), U)
      /\ Weight(s.length, U) \in Nat /\ Weight(Cost(s), U) \in Nat
  BY <1>1, WeightIs
<1>4. s.length[p] \in Nat /\ Cost(s)[p] \in Nat
  BY <1>1 DEF Measures
<1>5. Reserve(s) \in Nat /\ SpaceFloor \in Nat
  BY OwesIs, SpaceAssumption
<1>. QED BY <1>1, <1>2, <1>3, <1>4, <1>5 DEF Owes

-----------------------------------------------------------------------------
(***************************************************************************)
(* What the checks say.                                                    *)
(***************************************************************************)
OnlyRow(plan, s, place, n) ==
    /\ DOMAIN plan = {s.at[place]}
    /\ plan[s.at[place]] = [mount |-> Volume(s, place).mount, available |-> s.free[s.at[place]], additional |-> n]

LEMMA OneRow ==
  ASSUME NEW s, NEW place, NEW n
  PROVE  OnlyRow(Add(NoRows, Volume(s, place), n), s, place, n)
BY DEF OnlyRow, Add, NoRows, Row, Volume

LEMMA FitsHome ==
  ASSUME NEW s, NEW n
  PROVE  LET plan == Add(NoRows, Volume(s, "home"), n)
         IN  /\ Fits(plan) <=> s.free[s.at["home"]] >= n + Headroom(n)
             /\ Recheck(s, plan) <=> s.free[s.at["home"]] >= n + Headroom(n)
<1>. DEFINE plan == Add(NoRows, Volume(s, "home"), n)
            home == s.at["home"]
            again == [d \in DOMAIN plan |-> [plan[d] EXCEPT !.available = s.free[d]]]
<1>1. DOMAIN plan = {home} /\ plan[home] = [mount |-> "home", available |-> s.free[home], additional |-> n]
  <2>1. Volume(s, "home").mount = "home"
    BY DEF Volume
  <2>2. /\ DOMAIN plan = {home}
        /\ plan[home] = [mount |-> Volume(s, "home").mount, available |-> s.free[home], additional |-> n]
    <3>1. OnlyRow(plan, s, "home", n)
      BY OneRow
    <3>. HIDE DEF plan
    <3>. QED BY <3>1 DEF OnlyRow
  <2>. HIDE DEF plan
  <2>. QED BY <2>1, <2>2
<1>. HIDE DEF plan, home
<1>2. Fits(plan) <=> s.free[home] >= n + Headroom(n)
  BY <1>1 DEF Fits
<1>3. DOMAIN again = {home} /\ again[home] = plan[home]
  BY <1>1
<1>4. Fits(again) <=> s.free[home] >= n + Headroom(n)
  BY <1>1, <1>3 DEF Fits
<1>5. Recheck(s, plan) <=> Fits(again)
  BY <1>1 DEF Recheck, home
<1>. QED BY <1>2, <1>4, <1>5 DEF plan, home

ShelfPlan(s, n) == Add(Add(NoRows, Volume(s, "shelf"), n), Volume(s, "home"), 0)

LEMMA TwoRows ==
  ASSUME NEW s, NEW n \in Nat
  PROVE  LET plan == ShelfPlan(s, n)
         IN  /\ DOMAIN plan = {s.at["home"], s.at["shelf"]}
             /\ plan[s.at["shelf"]].additional = n
             /\ DOMAIN plan[s.at["shelf"]] = {"mount", "available", "additional"}
             /\ s.at["home"] # s.at["shelf"] => plan[s.at["home"]].additional = 0
<1>. DEFINE one  == Add(NoRows, Volume(s, "shelf"), n)
            plan == Add(one, Volume(s, "home"), 0)
            shelf == s.at["shelf"]
            home  == s.at["home"]
<1>1. /\ DOMAIN one = {shelf}
      /\ one[shelf] = [mount |-> Volume(s, "shelf").mount, available |-> s.free[shelf], additional |-> n]
  BY DEF Add, NoRows, Row, Volume
<1>2. Volume(s, "home").id = home
  BY DEF Volume
<1>. HIDE DEF one, home, shelf
<1>3. DOMAIN plan = {home, shelf} /\ plan[shelf].additional = n
      /\ (home # shelf => plan[home].additional = 0)
      /\ DOMAIN plan[shelf] = {"mount", "available", "additional"}
  <2>1. CASE home = shelf
    <3>. DEFINE v == Volume(s, "home")
                m == Min({one[shelf].available, v.available})
    <3>. HIDE DEF v, m
    <3>1. plan = [one EXCEPT ![v.id].additional = @ + 0,
                             ![v.id].available = Min({@, v.available})]
      BY <1>1, <1>2, <2>1 DEF Add, v
    <3>2. v.id = shelf
      BY <1>2, <2>1 DEF v
    <3>3. DOMAIN plan = {shelf}
          /\ plan[shelf] = [one[shelf] EXCEPT !.additional = n + 0, !.available = m]
      <4>. DEFINE mid == [one EXCEPT ![v.id].additional = @ + 0]
      <4>1. plan = [mid EXCEPT ![v.id].available = Min({@, v.available})]
        <5>. HIDE DEF plan
        <5>. QED BY <3>1
      <4>2. DOMAIN mid = {shelf} /\ mid[shelf] = [one[shelf] EXCEPT !.additional = n + 0]
        BY <1>1, <3>2
      <4>3. mid[shelf].available = one[shelf].available
        BY <1>1, <4>2
      <4>. HIDE DEF plan, mid
      <4>. QED BY <1>1, <3>2, <4>1, <4>2, <4>3 DEF m
    <3>. HIDE DEF plan
    <3>. QED BY <1>1, <2>1, <3>3
  <2>2. CASE home # shelf
    <3>. DEFINE v == Volume(s, "home")
    <3>. HIDE DEF v
    <3>1. plan = [d \in {shelf} \cup {home} |-> IF d = home THEN Row(v, 0) ELSE one[d]]
      BY <1>1, <1>2, <2>2 DEF Add, v
    <3>. HIDE DEF plan
    <3>. QED BY <1>1, <2>2, <3>1 DEF Row
  <2>. QED BY <2>1, <2>2
<1>. QED BY <1>3 DEF one, home, shelf, ShelfPlan

LEMMA FitsShelf ==
  ASSUME NEW s, NEW n \in Nat, Recheck(s, ShelfPlan(s, n))
  PROVE  s.free[s.at["shelf"]] >= n + Headroom(n)
<1>. DEFINE plan == ShelfPlan(s, n)
            shelf == s.at["shelf"]
            again == [d \in DOMAIN plan |-> [plan[d] EXCEPT !.available = s.free[d]]]
<1>1. shelf \in DOMAIN plan /\ plan[shelf].additional = n
      /\ DOMAIN plan[shelf] = {"mount", "available", "additional"}
  <2>1. /\ DOMAIN ShelfPlan(s, n) = {s.at["home"], s.at["shelf"]}
        /\ ShelfPlan(s, n)[s.at["shelf"]].additional = n
        /\ DOMAIN ShelfPlan(s, n)[s.at["shelf"]] = {"mount", "available", "additional"}
    BY TwoRows
  <2>. QED BY <2>1
<1>2. Fits(again)
  BY DEF Recheck
<1>. HIDE DEF plan, shelf
<1>3. again[shelf].available = s.free[shelf] /\ again[shelf].additional = n /\ shelf \in DOMAIN again
  BY <1>1
<1>. HIDE DEF again
<1>4. s.free[shelf] >= n + Headroom(n)
  BY <1>2, <1>3 DEF Fits
<1>. QED BY <1>4 DEF shelf

\* The work that passed its check has the room it may ask for.
LEMMA BegunRoom ==
  ASSUME SpaceInv, NEW task \in {"native", "activate"}, Recheck(space, PlanFor(space, task)),
         NEW t, t.length = space.length, t.run.task = task,
         t.run.todo = IF task = "activate" /\ space.stored THEN {} ELSE Pieces
  PROVE  space.free[Target(task)] >= Owes(t)
<1>1. /\ Measures(space.length) /\ space.at \in [{"home", "shelf"} -> Volumes]
      /\ space.free \in [Volumes -> Nat] /\ SpaceFloor \in Nat
  BY SpaceAssumption DEF SpaceInv, SpaceTypes
<1>2. /\ Bytes(space) \in Nat /\ Largest(space) \in Nat /\ Bytes(space) = Weight(space.length, Pieces)
      /\ Reserve(t) = Reserve(space) /\ Cost(t) = Cost(space)
  <2>1. Bytes(space) = Weight(space.length, Pieces) /\ Weight(space.length, Pieces) \in Nat
        /\ Largest(space) \in Nat
    BY <1>1, WeightIs, BytesWeight, LargestIs
  <2>2. Reserve(t) = Reserve(space) /\ Cost(t) = Cost(space)
    BY DEF Cost, Reserve, Bytes, Largest, MapThenSumSet, MapThenFoldSet
  <2>. QED BY <2>1, <2>2
<1>3. CASE task = "native"
  <2>. DEFINE n == Bytes(space) + Largest(space)
  <2>1. space.free[space.at["home"]] >= n + Headroom(n)
    BY <1>3, FitsHome DEF PlanFor, NativePlan
  <2>2. Reserve(space) = Largest(space) + Headroom(n)
    BY <1>2 DEF Reserve
  <2>3. Owes(t) = Weight(space.length, Pieces) + Reserve(space)
    BY <1>2, <1>3 DEF Owes
  <2>4. n \in Nat /\ Headroom(n) \in Nat
    BY <1>2, HeadroomIs
  <2>5. Target(task) = space.at["home"] /\ space.free[space.at["home"]] \in Nat
    BY <1>1, <1>3 DEF Target
  <2>. QED BY <1>2, <2>1, <2>2, <2>3, <2>4, <2>5
<1>4. CASE task = "activate"
  <2>. DEFINE n == IF space.stored THEN 0 ELSE PackBound(space)
  <2>1. n \in Nat /\ SpaceFixed \in Nat
    BY <1>1, CostBound, SpaceAssumption
  <2>2. space.free[space.at["shelf"]] >= n + Headroom(n)
    <3>. HIDE DEF n
    <3>1. PlanFor(space, task) = ShelfPlan(space, n)
      BY <1>4 DEF PlanFor, ShelfPlan, n
    <3>. QED BY <1>1, <2>1, <3>1, FitsShelf
  <2>3. Weight(Cost(space), t.run.todo) <= n /\ Weight(Cost(space), t.run.todo) \in Nat
    <3>1. Measures(Cost(space))
      BY <1>1, CostMeasures
    <3>2. CASE space.stored
      BY <1>4, <3>1, <3>2, WeightIs
    <3>3. CASE ~space.stored
      <4>1. t.run.todo = Pieces /\ n = PackBound(space)
        BY <3>3
      <4>2. Weight(Cost(space), Pieces) \in Nat
        BY <3>1, WeightIs
      <4>. QED BY <1>1, <2>1, <4>1, <4>2, CostBound
    <3>. QED BY <3>2, <3>3
  <2>4. Owes(t) = Weight(Cost(space), t.run.todo) + SpaceFloor
    BY <1>2, <1>4 DEF Owes
  <2>5. Headroom(n) \in Nat /\ Headroom(n) >= SpaceFloor
    BY <2>1, HeadroomIs
  <2>6. Target(task) = space.at["shelf"] /\ space.free[space.at["shelf"]] \in Nat
    BY <1>1, <1>4 DEF Target
  <2>. HIDE DEF n
  <2>. QED BY <1>1, <2>1, <2>2, <2>3, <2>4, <2>5, <2>6
<1>. QED BY <1>3, <1>4

-----------------------------------------------------------------------------
(***************************************************************************)
(* The steps of the machine.                                               *)
(***************************************************************************)
LEMMA SpaceIs ==
  ASSUME SpaceInv
  PROVE  /\ SpaceFields(space) /\ Measures(space.length) /\ space.free \in [Volumes -> Nat]
         /\ space.at \in [{"home", "shelf"} -> Volumes]
         /\ space.run = Resting \/ space.run \in Running
         /\ space.run # Resting => space.run.task \in {"native", "activate"}
         /\ \A task \in {"native", "activate"} : Target(task) \in Volumes
BY DEF SpaceInv, SpaceTypes, Running, Target

\* A step that changes neither the drives nor the work keeps the room.
LEMMA RoomStays ==
  ASSUME SpaceInv, NEW t, SpaceFields(t), t.platform = space.platform, t.length = space.length,
         t.at = space.at, t.free = space.free, t.run = space.run
  PROVE  SpaceTypes(t) /\ HasRoom(t)
<1>1. SpaceTypes(t)
  BY SpaceIs DEF SpaceTypes
<1>2. Owes(t) = Owes(space)
  BY OwesSame
<1>. QED BY <1>1, <1>2 DEF SpaceInv, HasRoom

\* Without work there is nothing to keep.
LEMMA RestKeeps == ASSUME NEW t, t.run = Resting PROVE HasRoom(t)
BY DEF HasRoom

LEMMA UsesIs ==
  ASSUME SpaceInv, space.run # Resting, NEW n \in Int
  PROVE  LET d == Target(space.run.task)
         IN  d \in Volumes /\ Uses(n) \in [Volumes -> Nat]
             /\ Uses(n)[d] >= space.free[d] - n
<1>. DEFINE d == Target(space.run.task)
<1>1. d \in Volumes /\ space.free \in [Volumes -> Nat]
  BY SpaceIs
<1>2. Max({space.free[d] - n, 0}) \in Nat /\ Max({space.free[d] - n, 0}) >= space.free[d] - n
  <2>. DEFINE a == space.free[d] - n
  <2>1. a \in Int /\ 0 \in Int
    BY <1>1
  <2>. HIDE DEF a
  <2>2. Max({a, 0}) \in {a, 0} /\ Max({a, 0}) >= a /\ Max({a, 0}) >= 0
    BY <2>1, MaxOfTwo
  <2>3. Max({a, 0}) \in Nat /\ Max({a, 0}) >= a
    BY <2>1, <2>2
  <2>. QED BY <2>3 DEF a
<1>. HIDE DEF d
<1>3. Uses(n) = [space.free EXCEPT ![d] = Max({space.free[d] - n, 0})]
  BY DEF Uses, d
<1>4. Uses(n) \in [Volumes -> Nat] /\ Uses(n)[d] >= space.free[d] - n
  BY <1>1, <1>2, <1>3
<1>. QED BY <1>1, <1>4 DEF d

LEMMA ReviewsKeeps ==
  ASSUME SpaceInv, NEW task \in SpaceTasks, Reviews(task) PROVE SpaceInv'
<1>1. /\ SpaceFields(space)' /\ space.platform' = space.platform /\ space.length' = space.length
      /\ space.at' = space.at /\ space.free' = space.free /\ space.run' = space.run
  BY SpaceIs DEF Reviews, SpaceFields
<1>. QED BY <1>1, RoomStays DEF SpaceInv

LEMMA AsksKeeps ==
  ASSUME SpaceInv, NEW task \in SpaceTasks, Asks(task) PROVE SpaceInv'
<1>1. /\ SpaceFields(space)' /\ space.platform' = space.platform /\ space.length' = space.length
      /\ space.at' = space.at /\ space.free' = space.free /\ space.run' = space.run
  BY SpaceIs DEF Asks, SpaceFields
<1>. QED BY <1>1, RoomStays DEF SpaceInv

LEMMA AgainKeeps ==
  ASSUME SpaceInv, NEW task \in SpaceTasks, Again(task) PROVE SpaceInv'
<1>1. /\ SpaceFields(space)' /\ space.platform' = space.platform /\ space.length' = space.length
      /\ space.at' = space.at /\ space.free' = space.free /\ space.run' = space.run
  BY SpaceIs DEF Again, SpaceFields
<1>. QED BY <1>1, RoomStays DEF SpaceInv

LEMMA ConfirmsKeeps == ASSUME SpaceInv, Confirms PROVE SpaceInv'
<1>1. /\ SpaceFields(space)' /\ space.platform' = space.platform /\ space.length' = space.length
      /\ space.at' = space.at /\ space.free' = space.free /\ space.run' = space.run
  BY SpaceIs DEF Confirms, SpaceFields
<1>. QED BY <1>1, RoomStays DEF SpaceInv

LEMMA BeginsKeeps ==
  ASSUME SpaceInv, NEW task \in SpaceTasks, Begins(task) PROVE SpaceInv'
<1>. DEFINE todo == IF task = "activate" /\ space.stored THEN {} ELSE Pieces
            work == [at |-> "working", task |-> task, todo |-> todo, copy |-> 0, old |-> 0, calm |-> TRUE]
<1>1. /\ SpaceFields(space)' /\ space.platform' = space.platform /\ space.length' = space.length
      /\ space.at' = space.at /\ space.free' = space.free
  BY SpaceIs DEF Begins, SpaceFields
<1>2. CASE space.run' = space.run
  BY <1>1, <1>2, RoomStays DEF SpaceInv
<1>3. CASE space.run' # space.run
  <2>1. Recheck(space, PlanFor(space, task)) /\ space.run' = work
    BY <1>3, SpaceIs DEF Begins, SpaceFields
  <2>2. task \in {"native", "activate"} /\ work \in Running
    BY DEF SpaceTasks, Running
  <2>3. SpaceTypes(space')
    BY <1>1, <2>1, <2>2, SpaceIs DEF SpaceTypes
  <2>4. space.free[Target(task)] >= Owes(space')
    <3>1. /\ space'.length = space.length /\ space'.run.task = task
          /\ space'.run.todo = IF task = "activate" /\ space.stored THEN {} ELSE Pieces
      BY <1>1, <2>1
    <3>. QED BY <2>1, <2>2, <3>1, BegunRoom
  <2>5. HasRoom(space')
    BY <1>1, <2>1, <2>2, <2>4 DEF HasRoom, Target
  <2>. QED BY <2>3, <2>5 DEF SpaceInv
<1>. QED BY <1>2, <1>3

\* A file is done: its bytes came out of what was owed for it.
LEMMA FileDone ==
  ASSUME SpaceInv, space.run \in Running, NEW p \in space.run.todo, NEW n \in Nat,
         n <= (IF space.run.task = "native" THEN space.length[p] ELSE Cost(space)[p]),
         SpaceFields(space'), space'.platform = space.platform, space'.length = space.length,
         space'.at = space.at, space'.free = Uses(n), space'.run \in Running,
         space'.run.todo = space.run.todo \ {p}, space'.run.task = space.run.task,
         space'.run.calm = space.run.calm,
         \/ space'.run.at = "working"
         \/ space'.run.at = "staged" /\ space.run.task = "native" /\ space.platform = "mac"
  PROVE  SpaceInv'
<1>. DEFINE d == Target(space.run.task)
<1>1. space.run # Resting
  BY RestingIs
<1>2. d \in Volumes /\ Uses(n) \in [Volumes -> Nat] /\ Uses(n)[d] >= space.free[d] - n
  BY <1>1, UsesIs
<1>3. SpaceTypes(space')
  BY <1>2, SpaceIs DEF SpaceTypes
<1>4. space.free \in [Volumes -> Nat] /\ space.run.task \in {"native", "activate"}
  BY <1>1, SpaceIs
<1>5. SpaceTypes(space)
  BY DEF SpaceInv
<1>6. /\ space.run.task = "native" => Owes(space) = space.length[p] + Owes(space')
      /\ space.run.task = "activate" => Owes(space) = Cost(space)[p] + Owes(space')
      /\ space.length[p] \in Nat /\ Cost(space)[p] \in Nat /\ Owes(space') \in Nat
  BY <1>5, OwesLess
<1>7. space.run.calm => space.free[d] >= Owes(space)
  BY <1>1 DEF SpaceInv, HasRoom, Target
<1>8. space.run.calm => space'.free[d] >= Owes(space')
  <2>. HIDE DEF d
  <2>. QED BY <1>2, <1>4, <1>6, <1>7
<1>9. HasRoom(space')
  BY <1>8, <1>4 DEF HasRoom, Target
<1>. QED BY <1>3, <1>9 DEF SpaceInv

LEMMA RewritesKeeps ==
  ASSUME SpaceInv, NEW p \in Pieces, Rewrites(p) PROVE SpaceInv'
<1>1. space.run \in Running /\ space.run.task = "native" /\ space.run.at = "working" /\ p \in space.run.todo
  BY SpaceIs DEF Rewrites, Working
<1>2. space.length[p] \in Nat
  BY SpaceIs DEF Measures
<1>3. PICK n \in {0, space.length[p]} :
          space' = [space EXCEPT !.free = Uses(n), !.run.todo = @ \ {p}]
  BY DEF Rewrites
<1>4. /\ SpaceFields(space') /\ space'.platform = space.platform /\ space'.length = space.length
      /\ space'.at = space.at /\ space'.free = Uses(n)
      /\ space'.run = [space.run EXCEPT !.todo = @ \ {p}]
  BY <1>3, SpaceIs DEF SpaceFields
<1>5. /\ space'.run \in Running /\ space'.run.todo = space.run.todo \ {p}
      /\ space'.run.task = space.run.task /\ space'.run.calm = space.run.calm
      /\ space'.run.at = "working"
  BY <1>1, <1>4 DEF Running
<1>. QED BY <1>1, <1>2, <1>4, <1>5, FileDone

LEMMA PacksKeeps ==
  ASSUME SpaceInv, NEW p \in Pieces, Packs(p) PROVE SpaceInv'
<1>1. space.run \in Running /\ space.run.task = "activate" /\ space.run.at = "working" /\ p \in space.run.todo
  BY SpaceIs DEF Packs, Working
<1>2. Cost(space)[p] \in Nat /\ Cost(space)[p] = space.length[p] + space.length[p] \div 32 + EntryBytes
  BY SpaceIs, CostMeasures DEF Measures, Cost
<1>3. PICK n \in {0, Cost(space)[p]} :
          space' = [space EXCEPT !.free = Uses(n), !.run.todo = @ \ {p}]
  BY <1>2 DEF Packs
<1>4. /\ SpaceFields(space') /\ space'.platform = space.platform /\ space'.length = space.length
      /\ space'.at = space.at /\ space'.free = Uses(n)
      /\ space'.run = [space.run EXCEPT !.todo = @ \ {p}]
  BY <1>3, SpaceIs DEF SpaceFields
<1>5. /\ space'.run \in Running /\ space'.run.todo = space.run.todo \ {p}
      /\ space'.run.task = space.run.task /\ space'.run.calm = space.run.calm
      /\ space'.run.at = "working"
  BY <1>1, <1>4 DEF Running
<1>6. n \in Nat /\ n <= (IF space.run.task = "native" THEN space.length[p] ELSE Cost(space)[p])
  BY <1>1, <1>2
<1>. QED BY <1>1, <1>4, <1>5, <1>6, FileDone

\* What the work still owes covers every question about one of its files.
LEMMA OwesPays ==
  ASSUME SpaceInv, space.run \in Running, space.run.task = "native", space.run.calm
  PROVE  LET home == space.free[space.at["home"]]
         IN  /\ home >= 0 + Headroom(0)
             /\ \A p \in space.run.todo : home >= 2 * space.length[p] + Headroom(2 * space.length[p])
<1>. DEFINE home  == space.free[space.at["home"]]
            whole == Bytes(space) + Largest(space)
            w     == Weight(space.length, space.run.todo)
<1>1. space.run # Resting
  BY RestingIs
<1>2. home >= Owes(space) /\ home \in Nat
  BY <1>1, SpaceIs DEF SpaceInv, HasRoom
<1>3. Measures(space.length) /\ space.run.todo \in SUBSET Pieces
  BY SpaceIs DEF Running
<1>4. /\ Bytes(space) = Weight(space.length, Pieces) /\ Bytes(space) \in Nat
      /\ Largest(space) \in Nat /\ w \in Nat
  BY <1>3, WeightIs, BytesWeight, LargestIs
<1>5. Owes(space) = w + Largest(space) + Headroom(whole)
  <2>1. Headroom(whole) \in Nat
    BY <1>4, HeadroomIs
  <2>2. Owes(space) = w + Reserve(space) /\ Reserve(space) = whole - Bytes(space) + Headroom(whole)
    BY DEF Owes, Reserve
  <2>. QED BY <1>4, <2>1, <2>2
<1>6. home >= 0 + Headroom(0)
  <2>1. Headroom(0) \in Nat /\ Headroom(whole) \in Nat /\ Headroom(0) <= Headroom(whole)
    BY <1>4, HeadroomIs, HeadroomGrows
  <2>. HIDE DEF home, whole, w
  <2>. QED BY <1>2, <1>4, <1>5, <2>1
<1>7. ASSUME NEW p \in space.run.todo
      PROVE  home >= 2 * space.length[p] + Headroom(2 * space.length[p])
  <2>. DEFINE n == space.length[p]
  <2>1. n \in Nat /\ n <= w /\ n <= Largest(space) /\ n <= Bytes(space)
    <3>1. n \in Nat /\ n <= Largest(space)
      BY <1>3, LargestIs DEF Measures
    <3>2. n <= w
      BY <1>3, WeightIs
    <3>3. n <= Weight(space.length, Pieces)
      BY <1>3, WeightIs
    <3>. QED BY <1>4, <3>1, <3>2, <3>3
  <2>2. 2 * n \in Nat /\ 2 * n <= whole
    <3>. HIDE DEF n
    <3>. QED BY <1>4, <2>1
  <2>3. Headroom(2 * n) \in Nat /\ Headroom(whole) \in Nat /\ Headroom(2 * n) <= Headroom(whole)
    <3>. HIDE DEF n
    <3>. QED BY <1>4, <2>2, HeadroomIs, HeadroomGrows
  <2>. HIDE DEF home, whole, w, n
  <2>4. home >= 2 * n + Headroom(2 * n)
    BY <1>2, <1>4, <1>5, <2>1, <2>2, <2>3
  <2>. QED BY <2>4 DEF n
<1>. QED BY <1>6, <1>7

LEMMA StagesKeeps ==
  ASSUME SpaceInv, NEW p \in Pieces, Stages(p) PROVE SpaceInv'
<1>1. /\ space.run \in Running /\ space.run.task = "native" /\ space.run.at = "working"
      /\ p \in space.run.todo /\ space.platform = "mac"
  BY SpaceIs DEF Stages, Working
<1>2. space.length[p] \in Nat
  BY SpaceIs DEF Measures
<1>3. CASE Recheck(space, FilePlan(space, p))
  <2>1. PICK n \in {space.length[p] \div 2, space.length[p]} :
            space' = [space EXCEPT !.free = Uses(n), !.run.at = "staged", !.run.copy = n,
                                   !.run.todo = @ \ {p}, !.run.old = space.length[p]]
    BY <1>3 DEF Stages
  <2>2. n \in Nat /\ n <= space.length[p]
    BY <1>2
  <2>3. /\ SpaceFields(space') /\ space'.platform = space.platform /\ space'.length = space.length
        /\ space'.at = space.at /\ space'.free = Uses(n)
        /\ space'.run = [space.run EXCEPT !.at = "staged", !.copy = n, !.todo = @ \ {p},
                                          !.old = space.length[p]]
    BY <2>1, SpaceIs DEF SpaceFields
  <2>4. /\ space'.run \in Running /\ space'.run.todo = space.run.todo \ {p}
        /\ space'.run.task = space.run.task /\ space'.run.calm = space.run.calm
        /\ space'.run.at = "staged"
    <3>. DEFINE r == space.run
                u == space.run.todo \ {p}
                t == [r EXCEPT !.at = "staged", !.copy = n, !.todo = u, !.old = space.length[p]]
    <3>1. r \in Running /\ u \in SUBSET Pieces /\ space'.run = t
      BY <1>1, <2>3 DEF Running
    <3>2. t \in Running /\ t.todo = u /\ t.task = r.task /\ t.calm = r.calm /\ t.at = "staged"
      <4>. HIDE DEF r, u
      <4>. QED BY <1>2, <2>2, <3>1 DEF Running
    <3>. QED BY <3>1, <3>2
  <2>. QED BY <1>1, <2>2, <2>3, <2>4, FileDone
<1>4. CASE ~Recheck(space, FilePlan(space, p))
  <2>1. space' = [space EXCEPT !.run.at = "refused"]
    BY <1>4 DEF Stages
  <2>2. /\ SpaceFields(space') /\ space'.platform = space.platform /\ space'.length = space.length
        /\ space'.at = space.at /\ space'.free = space.free
        /\ space'.run = [space.run EXCEPT !.at = "refused"]
    BY <2>1, SpaceIs DEF SpaceFields
  <2>3. /\ space'.run \in Running /\ space'.run.task = "native" /\ space'.run.at = "refused"
        /\ space'.run.calm = space.run.calm
    BY <1>1, <2>2 DEF Running
  <2>4. ~space.run.calm
    <3>1. SUFFICES ASSUME space.run.calm PROVE FALSE
      OBVIOUS
    <3>. DEFINE n == 2 * space.length[p]
    <3>2. space.free[space.at["home"]] >= n + Headroom(n)
      BY <1>1, <3>1, OwesPays
    <3>3. Recheck(space, Add(NoRows, Volume(space, "home"), n))
      <4>. HIDE DEF n
      <4>. QED BY <3>2, FitsHome
    <3>. QED BY <1>4, <3>3 DEF FilePlan
  <2>5. SpaceTypes(space')
    BY <2>2, <2>3, SpaceIs DEF SpaceTypes
  <2>6. HasRoom(space')
    BY <1>1, <2>2, <2>3, <2>4 DEF HasRoom, Running
  <2>. QED BY <2>5, <2>6 DEF SpaceInv
<1>. QED BY <1>3, <1>4

LEMMA PublishesKeeps == ASSUME SpaceInv, Publishes PROVE SpaceInv'
<1>1. /\ space.run # Resting /\ space.run \in Running /\ space.run.at = "staged"
      /\ space.run.task = "native" /\ space.platform = "mac"
  BY SpaceIs DEF Publishes, SpaceInv, HasRoom
<1>2. PICK freed \in {0, space.run.copy, space.run.old}, next \in {"working", "failed", "refused"} :
          /\ space' = [space EXCEPT !.free = Uses(-freed), !.run.at = next, !.run.copy = 0, !.run.old = 0]
          /\ next = "refused" => ~Fits(PublishPlan(space))
  BY DEF Publishes
<1>3. freed \in Nat
  BY <1>1 DEF Running
<1>4. /\ SpaceFields(space') /\ space'.platform = space.platform /\ space'.length = space.length
      /\ space'.at = space.at /\ space'.free = Uses(-freed)
      /\ space'.run = [space.run EXCEPT !.at = next, !.copy = 0, !.old = 0]
  BY <1>2, SpaceIs DEF SpaceFields
<1>5. /\ space'.run \in Running /\ space'.run.todo = space.run.todo /\ space'.run.at = next
      /\ space'.run.task = space.run.task /\ space'.run.calm = space.run.calm
  <2>. DEFINE r == space.run
              t == [r EXCEPT !.at = next, !.copy = 0, !.old = 0]
  <2>1. t \in Running /\ t.todo = r.todo /\ t.task = r.task /\ t.calm = r.calm /\ t.at = next
    <3>1. r \in Running
      BY <1>1
    <3>. HIDE DEF r
    <3>. QED BY <3>1 DEF Running
  <2>. QED BY <1>4, <2>1
<1>. DEFINE d == space.at["home"]
<1>6. /\ Uses(-freed) \in [Volumes -> Nat] /\ Uses(-freed)[d] >= space.free[d]
      /\ space.free \in [Volumes -> Nat] /\ d \in Volumes
  <2>1. Target(space.run.task) = d /\ -freed \in Int
    BY <1>1, <1>3 DEF Target
  <2>2. /\ d \in Volumes /\ Uses(-freed) \in [Volumes -> Nat]
        /\ Uses(-freed)[d] >= space.free[d] - (-freed)
    BY <1>1, <2>1, UsesIs
  <2>3. space.free \in [Volumes -> Nat]
    BY SpaceIs
  <2>. HIDE DEF d
  <2>. QED BY <1>3, <2>2, <2>3
<1>7. SpaceTypes(space')
  BY <1>4, <1>5, <1>6, SpaceIs DEF SpaceTypes
<1>8. Owes(space') = Owes(space) /\ Owes(space) \in Nat
  <2>1. SpaceTypes(space)
    BY DEF SpaceInv
  <2>2. Owes(space) \in Nat
    BY <1>1, <2>1, OwesIs
  <2>3. Owes(space') = Owes(space)
    BY <1>4, <1>5, OwesSame
  <2>. QED BY <2>2, <2>3
<1>9. space.run.calm => space'.free[d] >= Owes(space')
  <2>1. space.run.calm => space.free[d] >= Owes(space)
    BY <1>1 DEF SpaceInv, HasRoom
  <2>. HIDE DEF d
  <2>. QED BY <1>4, <1>6, <1>8, <2>1
<1>10. space.run.calm => next # "refused"
  <2>1. SUFFICES ASSUME space.run.calm, next = "refused" PROVE FALSE
    OBVIOUS
  <2>2. space.free[d] >= 0 + Headroom(0)
    BY <1>1, <2>1, OwesPays
  <2>3. Fits(Add(NoRows, Volume(space, "home"), 0))
    BY <2>2, FitsHome
  <2>. QED BY <1>2, <2>1, <2>3 DEF PublishPlan
<1>11. HasRoom(space')
  BY <1>1, <1>4, <1>5, <1>9, <1>10 DEF HasRoom, Running
<1>. QED BY <1>7, <1>11 DEF SpaceInv

\* Work that ends keeps nothing.
LEMMA EndKeeps ==
  ASSUME SpaceInv, SpaceFields(space'), space'.length = space.length, space'.run = Resting,
         space'.free = space.free, space'.at \in [{"home", "shelf"} -> Volumes]
  PROVE  SpaceInv'
<1>1. SpaceTypes(space')
  BY SpaceIs DEF SpaceTypes
<1>. QED BY <1>1, RestKeeps DEF SpaceInv

LEMMA FinishesKeeps == ASSUME SpaceInv, Finishes PROVE SpaceInv'
<1>1. /\ SpaceFields(space') /\ space'.length = space.length /\ space'.run = Resting
      /\ space'.free = space.free /\ space'.at = space.at
  BY SpaceIs DEF Finishes, Stops, SpaceFields
<1>. QED BY <1>1, SpaceIs, EndKeeps

LEMMA WorkDiesKeeps == ASSUME SpaceInv, WorkDies PROVE SpaceInv'
<1>1. /\ SpaceFields(space') /\ space'.length = space.length /\ space'.run = Resting
      /\ space'.free = space.free /\ space'.at = space.at
  BY SpaceIs DEF WorkDies, Stops, SpaceFields
<1>. QED BY <1>1, SpaceIs, EndKeeps

\* Somebody else wrote: nothing is promised any more, but the work is as far as it was.
LEMMA UpsetKeeps ==
  ASSUME SpaceInv, SpaceFields(space'), Measures(space'.length), space'.platform = space.platform,
         space'.at = space.at, space'.free \in [Volumes -> Nat], space'.run = Disturbed
  PROVE  SpaceInv'
<1>1. CASE space.run = Resting
  <2>1. space'.run = Resting
    BY <1>1 DEF Disturbed
  <2>2. SpaceTypes(space')
    BY <2>1, SpaceIs DEF SpaceTypes
  <2>. QED BY <2>1, <2>2, RestKeeps DEF SpaceInv
<1>2. CASE space.run # Resting
  <2>1. space.run \in Running /\ space'.run = [space.run EXCEPT !.calm = FALSE]
    BY <1>2, SpaceIs DEF Disturbed
  <2>2. /\ space'.run \in Running /\ space'.run.at = space.run.at /\ space'.run.task = space.run.task
        /\ ~space'.run.calm
    BY <2>1 DEF Running
  <2>3. SpaceTypes(space')
    BY <2>2, SpaceIs DEF SpaceTypes
  <2>4. HasRoom(space')
    BY <1>2, <2>2 DEF SpaceInv, HasRoom
  <2>. QED BY <2>3, <2>4 DEF SpaceInv
<1>. QED BY <1>1, <1>2

\* What is free after an amount was written to a drive.
LEMMA FreeStays ==
  ASSUME SpaceInv, NEW d \in Volumes, NEW n \in Int
  PROVE  [space.free EXCEPT ![d] = Max({@ - n, 0})] \in [Volumes -> Nat]
<1>. DEFINE a == space.free[d] - n
<1>1. space.free \in [Volumes -> Nat] /\ a \in Int /\ 0 \in Int
  BY SpaceIs
<1>. HIDE DEF a
<1>2. Max({a, 0}) \in {a, 0} /\ Max({a, 0}) >= 0
  BY <1>1, MaxOfTwo
<1>3. Max({a, 0}) \in Nat
  BY <1>1, <1>2
<1>4. [space.free EXCEPT ![d] = Max({a, 0})] \in [Volumes -> Nat]
  BY <1>1, <1>3
<1>. QED BY <1>4 DEF a

LEMMA OtherProgramsKeeps == ASSUME SpaceInv, OtherPrograms PROVE SpaceInv'
<1>1. PICK d \in Volumes, n \in Amounts :
          space' = [space EXCEPT !.left = Less("others"), !.free[d] = Max({@ - n, 0}), !.run = Disturbed]
  BY DEF OtherPrograms
<1>2. n \in Int
  BY SpaceAssumption
<1>3. /\ SpaceFields(space') /\ space'.length = space.length /\ space'.platform = space.platform
      /\ space'.at = space.at /\ space'.run = Disturbed
      /\ space'.free = [space.free EXCEPT ![d] = Max({@ - n, 0})]
  BY <1>1, SpaceIs DEF SpaceFields
<1>4. space'.free \in [Volumes -> Nat]
  BY <1>2, <1>3, FreeStays
<1>. QED BY <1>3, <1>4, SpaceIs, UpsetKeeps

LEMMA UpdatesKeeps == ASSUME SpaceInv, NEW p \in Pieces, Updates(p) PROVE SpaceInv'
<1>1. PICK n \in Lengths :
          space' = [space EXCEPT !.left = Less("updates"), !.length[p] = n, !.run = Disturbed,
                       !.free[space.at["home"]] = Max({@ - (n - space.length[p]), 0})]
  BY DEF Updates
<1>2. n \in Nat /\ space.length[p] \in Nat /\ space.at["home"] \in Volumes
  BY SpaceAssumption, SpaceIs DEF Measures
<1>3. /\ SpaceFields(space') /\ space'.length = [space.length EXCEPT ![p] = n]
      /\ space'.platform = space.platform /\ space'.at = space.at /\ space'.run = Disturbed
      /\ space'.free = [space.free EXCEPT ![space.at["home"]] = Max({@ - (n - space.length[p]), 0})]
  BY <1>1, SpaceIs DEF SpaceFields
<1>4. space'.free \in [Volumes -> Nat]
  <2>. DEFINE m == n - space.length[p]
  <2>1. m \in Int
    BY <1>2
  <2>. HIDE DEF m
  <2>2. [space.free EXCEPT ![space.at["home"]] = Max({@ - m, 0})] \in [Volumes -> Nat]
    BY <1>2, <2>1, FreeStays
  <2>. QED BY <1>3, <2>2 DEF m
<1>5. Measures(space'.length)
  BY <1>2, <1>3, SpaceIs DEF Measures
<1>. QED BY <1>3, <1>4, <1>5, UpsetKeeps

LEMMA ShelfSwapsKeeps == ASSUME SpaceInv, ShelfSwaps PROVE SpaceInv'
<1>1. PICK d \in Volumes :
          space' = [(IF Working("activate") THEN Stops("failed") ELSE space)
                       EXCEPT !.left = Less("swaps"), !.at["shelf"] = d]
  BY DEF ShelfSwaps
<1>2. /\ SpaceFields(space') /\ space'.length = space.length /\ space'.free = space.free
      /\ space'.platform = space.platform /\ space'.at = [space.at EXCEPT !["shelf"] = d]
      /\ space'.run = IF Working("activate") THEN Resting ELSE space.run
  BY <1>1, SpaceIs DEF SpaceFields, Stops
<1>3. space'.at \in [{"home", "shelf"} -> Volumes] /\ space'.at["home"] = space.at["home"]
  BY <1>2, SpaceIs
<1>4. CASE space'.run = Resting
  BY <1>2, <1>3, <1>4, EndKeeps
<1>5. CASE space'.run # Resting
  <2>1. space'.run = space.run /\ space.run \in Running /\ ~Working("activate")
    BY <1>2, <1>5, SpaceIs
  <2>2. space.run.task = "native"
    BY <1>5, <2>1, SpaceIs DEF SpaceInv, HasRoom, Working
  <2>3. SpaceTypes(space')
    BY <1>2, <1>3, <2>1, SpaceIs DEF SpaceTypes
  <2>4. Owes(space') = Owes(space)
    BY <1>2, <2>1, OwesSame
  <2>5. HasRoom(space')
    BY <1>2, <1>3, <1>5, <2>1, <2>2, <2>4 DEF SpaceInv, HasRoom
  <2>. QED BY <2>3, <2>5 DEF SpaceInv
<1>. QED BY <1>4, <1>5

-----------------------------------------------------------------------------
\* The plan of either task is for something: a game has a file, and a file is not empty.
LEMMA NeededIs ==
  ASSUME NEW s, Measures(s.length), \A p \in Pieces : s.length[p] > 0, ~s.stored,
         NEW task \in {"native", "activate"}
  PROVE  Needed(s, task) \in Nat /\ Needed(s, task) >= 1
<1>. DEFINE plan == PlanFor(s, task)
            A == {plan[d].additional : d \in DOMAIN plan}
<1>1. Bytes(s) \in Nat /\ Bytes(s) >= 1 /\ Largest(s) \in Nat
  <2>1. PICK p \in Pieces : TRUE
    BY SpaceAssumption
  <2>2. s.length[p] \in Nat /\ s.length[p] > 0
    BY DEF Measures
  <2>3. Weight(s.length, Pieces) \in Nat /\ s.length[p] <= Weight(s.length, Pieces)
    BY WeightIs
  <2>4. Bytes(s) = Weight(s.length, Pieces) /\ Largest(s) \in Nat
    BY BytesWeight, LargestIs
  <2>. QED BY <2>2, <2>3, <2>4
<1>2. \E n \in Nat : n >= 1 /\ n \in A /\ \A m \in A : m \in Nat /\ n >= m
  <2>1. CASE task = "native"
    <3>. DEFINE n == Bytes(s) + Largest(s)
                row == [mount |-> Volume(s, "home").mount, available |-> s.free[s.at["home"]],
                        additional |-> n]
    <3>1. plan = Add(NoRows, Volume(s, "home"), n)
      BY <2>1 DEF PlanFor, NativePlan
    <3>. HIDE DEF plan, n
    <3>2. DOMAIN plan = {s.at["home"]} /\ plan[s.at["home"]] = row
      <4>1. OnlyRow(plan, s, "home", n)
        BY <3>1, OneRow
      <4>. QED BY <4>1 DEF OnlyRow
    <3>3. A = {n}
      BY <3>2
    <3>4. n \in Nat /\ n >= 1
      BY <1>1 DEF n
    <3>. HIDE DEF A
    <3>. QED BY <3>3, <3>4
  <2>2. CASE task = "activate"
    <3>. DEFINE n == PackBound(s)
                shelf == s.at["shelf"]
                home == s.at["home"]
    <3>1. n \in Nat /\ n >= 1
      <4>1. /\ Bytes(s) \div 32 \in Nat /\ MetadataBytes(s) \in Nat /\ SpaceFixed \in Nat
        <5>1. EntryBytes \in Nat /\ Cardinality(Pieces) \in Nat /\ SpaceFixed \in Nat
          BY SpaceAssumption, FS_CardinalityType
        <5>. QED BY <1>1, <5>1 DEF MetadataBytes
      <4>. QED BY <1>1, <4>1 DEF PackBound
    <3>2. plan = ShelfPlan(s, n)
      BY <2>2 DEF PlanFor, ShelfPlan
    <3>3. /\ DOMAIN ShelfPlan(s, n) = {home, shelf} /\ ShelfPlan(s, n)[shelf].additional = n
          /\ home # shelf => ShelfPlan(s, n)[home].additional = 0
      <4>. HIDE DEF n
      <4>1. /\ DOMAIN ShelfPlan(s, n) = {s.at["home"], s.at["shelf"]}
            /\ ShelfPlan(s, n)[s.at["shelf"]].additional = n
            /\ s.at["home"] # s.at["shelf"] => ShelfPlan(s, n)[s.at["home"]].additional = 0
        BY <3>1, TwoRows
      <4>. QED BY <4>1
    <3>. HIDE DEF plan, n, shelf, home
    <3>4. n \in A /\ \A m \in A : m = n \/ m = 0
      BY <3>2, <3>3
    <3>. QED BY <3>1, <3>4
  <2>. QED BY <2>1, <2>2
<1>. HIDE DEF plan, A
<1>3. PICK n \in Nat : n >= 1 /\ n \in A /\ \A m \in A : m \in Nat /\ n >= m
  BY <1>2
<1>4. Max(A) \in A /\ \A m \in A : Max(A) >= m
  BY <1>3 DEF Max
<1>5. Max(A) = n
  <2>1. n >= Max(A) /\ Max(A) >= n
    BY <1>3, <1>4
  <2>2. Max(A) \in Nat
    BY <1>3, <1>4
  <2>. QED BY <1>3, <2>1, <2>2
<1>6. Needed(s, task) = Max(A) + Headroom(Max(A))
  BY DEF Needed, A, plan
<1>7. Headroom(n) \in Nat
  BY <1>3, HeadroomIs
<1>. QED BY <1>3, <1>5, <1>6, <1>7

LEMMA SpaceInitHolds == SpaceInit => SpaceInv
<1>1. SUFFICES ASSUME SpaceInit PROVE SpaceInv
  OBVIOUS
<1>2. PICK platform \in {"linux", "mac", "windows"}, left \in SpaceLimits,
           length \in [Pieces -> Lengths], shelf \in Volumes, task \in {"native", "activate"},
           extra \in Spares : space = Machine(platform, left, length, shelf, task, extra)
  BY <1>1 DEF SpaceInit
<1>. DEFINE blank == [platform |-> platform, left |-> left, length |-> length,
                      at |-> [home |-> CHOOSE d \in Volumes : TRUE, shelf |-> shelf],
                      free |-> [d \in Volumes |-> 0], stored |-> FALSE, shown |-> NoOrder,
                      jobs |-> [t \in {"native", "activate"} |-> NoWork], run |-> Resting]
<1>3. space = [blank EXCEPT !.free = [d \in Volumes |-> Needed(blank, task) + extra - 1]]
  BY <1>2 DEF Machine
<1>4. Measures(length) /\ \A p \in Pieces : length[p] > 0
  <2>1. \A p \in Pieces : length[p] \in Lengths
    OBVIOUS
  <2>2. \A n \in Lengths : n \in Nat /\ n > 0
    BY SpaceAssumption
  <2>. QED BY <2>1, <2>2 DEF Measures
<1>5. Needed(blank, task) \in Nat /\ Needed(blank, task) >= 1
  <2>1. blank.length = length /\ blank.stored = FALSE
    OBVIOUS
  <2>. HIDE DEF blank
  <2>. QED BY <1>4, <2>1, NeededIs
<1>6. Needed(blank, task) + extra - 1 \in Nat
  <2>1. extra \in Nat
    BY SpaceAssumption
  <2>. HIDE DEF blank
  <2>. QED BY <1>5, <2>1
<1>7. /\ SpaceFields(space) /\ space.length = length /\ space.at = blank.at
      /\ space.free = [d \in Volumes |-> Needed(blank, task) + extra - 1]
      /\ space.run = Resting
  BY <1>3 DEF SpaceFields
<1>8. space.free \in [Volumes -> Nat]
  <2>. HIDE DEF blank
  <2>. QED BY <1>6, <1>7
<1>9. space.at \in [{"home", "shelf"} -> Volumes]
  <2>1. (CHOOSE d \in Volumes : TRUE) \in Volumes
    OBVIOUS
  <2>. QED BY <1>7, <2>1
<1>10. SpaceTypes(space)
  BY <1>4, <1>7, <1>8, <1>9 DEF SpaceTypes
<1>. QED BY <1>7, <1>10, RestKeeps DEF SpaceInv

LEMMA SpaceSteps == SpaceInv /\ [SpaceNext]_space => SpaceInv'
<1>1. SUFFICES ASSUME SpaceInv, [SpaceNext]_space PROVE SpaceInv'
  OBVIOUS
<1>2. CASE \E task \in SpaceTasks : Reviews(task) \/ Asks(task) \/ Again(task) \/ Begins(task)
  BY <1>1, <1>2, ReviewsKeeps, AsksKeeps, AgainKeeps, BeginsKeeps
<1>3. CASE \E p \in Pieces : Rewrites(p) \/ Stages(p) \/ Packs(p) \/ Updates(p)
  BY <1>1, <1>3, RewritesKeeps, StagesKeeps, PacksKeeps, UpdatesKeeps
<1>4. CASE Confirms \/ Publishes \/ Finishes \/ WorkDies \/ OtherPrograms \/ ShelfSwaps
  BY <1>1, <1>4, ConfirmsKeeps, PublishesKeeps, FinishesKeeps, WorkDiesKeeps,
     OtherProgramsKeeps, ShelfSwapsKeeps
<1>5. CASE UNCHANGED space
  BY <1>1, <1>5 DEF SpaceInv
<1>. QED BY <1>1, <1>2, <1>3, <1>4, <1>5 DEF SpaceNext

LEMMA SpaceInvRoom == SpaceInv => RoomKept
<1>1. SUFFICES ASSUME SpaceInv, space.run # Resting, space.run.calm
      PROVE  space.run.at # "refused" /\ space.free[Target(space.run.task)] >= SpaceFloor
  BY DEF RoomKept
<1>2. /\ space.run \in Running /\ SpaceTypes(space) /\ Target(space.run.task) \in Volumes
      /\ space.free \in [Volumes -> Nat] /\ SpaceFloor \in Nat
  BY <1>1, SpaceIs, SpaceAssumption DEF SpaceInv
<1>3. Owes(space) \in Nat /\ Owes(space) >= SpaceFloor
  BY <1>2, OwesIs
<1>4. space.free[Target(space.run.task)] >= Owes(space) /\ space.run.at # "refused"
  BY <1>1 DEF SpaceInv, HasRoom, Target
<1>. HIDE DEF Resting
<1>. QED BY <1>2, <1>3, <1>4

(***************************************************************************)
(* Work that began with room is never refused half way and keeps its drive *)
(* above the floor, unless somebody else writes: for any files, sizes,     *)
(* drives and amounts.                                                     *)
(***************************************************************************)
THEOREM RoomIsKept == SpaceSpec => []RoomKept
<1>1. SpaceInit => SpaceInv
  BY SpaceInitHolds
<1>2. SpaceInv /\ [SpaceNext]_space => SpaceInv'
  BY SpaceSteps
<1>3. SpaceInv => RoomKept
  BY SpaceInvRoom
<1>. QED BY <1>1, <1>2, <1>3, PTL DEF SpaceSpec

(***************************************************************************)
(* An estimate reads what it may, counts every file once and supports the  *)
(* advice made of it.                                                      *)
(*                                                                         *)
(* The bytes that threads read beyond the budget are bounded by no single  *)
(* state: a thread reads the budget, samples, and charges later.  So the   *)
(* invariant says what the budget was charged for, every result but those  *)
(* threads still hold, and counts each busy thread as one file more: a     *)
(* thread that starts found the budget above zero, which is one file of    *)
(* slack that its own file then fills.  The sums that make the totals and  *)
(* the bytes of a file's samples are weights of sets.  That the samples    *)
(* of a file lie apart is arithmetic: evenly spread quotients differ by at *)
(* least what a sample holds, and the last one ends at the file's end.     *)
(***************************************************************************)
\* Division, by a divisor that is not a constant.
LEMMA Quotient ==
  ASSUME NEW n \in Nat, NEW d \in Nat \ {0}
  PROVE  n \div d \in Nat /\ (n \div d) * d <= n /\ n < (n \div d + 1) * d
OBVIOUS

LEMMA Cancels2 == ASSUME NEW a \in Int, NEW b \in Int, NEW d \in Nat \ {0}, a * d < b * d PROVE a < b
OBVIOUS

LEMMA Products ==
  ASSUME NEW a \in Nat, NEW b \in Nat, NEW c \in Nat, a <= b
  PROVE  a * c \in Nat /\ b * c \in Nat /\ a * c <= b * c
OBVIOUS

LEMMA QuotientGrows ==
  ASSUME NEW n \in Nat, NEW m \in Nat, n <= m, NEW d \in Nat \ {0}
  PROVE  n \div d <= m \div d
<1>1. (n \div d) * d < (m \div d + 1) * d /\ n \div d \in Nat /\ m \div d \in Nat
  BY Quotient
<1>. QED BY <1>1, Cancels2

\* Steps of at least k apart stay k apart.
LEMMA Spread ==
  ASSUME NEW b \in Nat, NEW s \in Nat \ {0}, NEW k \in Nat, s * k <= b,
         NEW i \in Nat, NEW j \in Nat, i < j
  PROVE  (i * b) \div s \in Nat /\ (j * b) \div s \in Nat
         /\ (i * b) \div s + k <= (j * b) \div s
<1>1. i * b \in Nat /\ j * b \in Nat /\ i * b + b <= j * b
  <2>1. (i + 1) * b <= j * b /\ i * b \in Nat /\ j * b \in Nat
    BY Products
  <2>. QED BY <2>1
<1>2. /\ (i * b) \div s \in Nat /\ (j * b) \div s \in Nat
      /\ ((i * b) \div s) * s <= i * b /\ j * b < ((j * b) \div s + 1) * s
  BY <1>1, Quotient
<1>. DEFINE p == (i * b) \div s
            q == (j * b) \div s
<1>3. p \in Nat /\ q \in Nat /\ p * s <= i * b /\ j * b < (q + 1) * s
  BY <1>2
<1>. HIDE DEF p, q
<1>4. (p + k) * s = p * s + s * k
  BY <1>3
<1>5. (p + k) * s < (q + 1) * s
  BY <1>1, <1>3, <1>4
<1>6. p + k < q + 1
  BY <1>3, <1>5, Cancels2
<1>. QED BY <1>2, <1>3, <1>6 DEF p, q

LEMMA CeilingIs ==
  ASSUME NEW n \in Nat, NEW d \in Nat \ {0}
  PROVE  /\ Ceiling(n, d) \in Nat /\ n <= Ceiling(n, d) * d
         /\ n > 0 => Ceiling(n, d) > 0 /\ (Ceiling(n, d) - 1) * d < n
         /\ n = 0 => Ceiling(n, d) = 0
<1>1. n + d - 1 \in Nat
  OBVIOUS
<1>. DEFINE q == (n + d - 1) \div d
<1>2. q \in Nat /\ q * d <= n + d - 1 /\ n + d - 1 < (q + 1) * d
  BY <1>1, Quotient
<1>. HIDE DEF q
<1>3. (q + 1) * d = q * d + d /\ (q - 1) * d = q * d - d
  BY <1>2
<1>4. n <= q * d /\ (q - 1) * d < n
  BY <1>2, <1>3
<1>5. n > 0 => q > 0
  BY <1>2, <1>4
<1>6. n = 0 => q = 0
  <2>1. SUFFICES ASSUME n = 0 PROVE q < 1
    BY <1>2
  <2>2. q * d < 1 * d
    BY <1>2, <2>1
  <2>. QED BY <1>2, <2>2, Cancels2
<1>. QED BY <1>2, <1>4, <1>5, <1>6 DEF q, Ceiling

LEMMA LeastOf == ASSUME NEW a \in Int, NEW b \in Int
  PROVE Least2(a, b) \in {a, b} /\ Least2(a, b) <= a /\ Least2(a, b) <= b
BY DEF Least2
LEMMA MostOf == ASSUME NEW a \in Int, NEW b \in Int
  PROVE Most2(a, b) \in {a, b} /\ Most2(a, b) >= a /\ Most2(a, b) >= b
BY DEF Most2
LEMMA MinusIs == ASSUME NEW a \in Nat, NEW b \in Nat
  PROVE Minus(a, b) \in Nat /\ Minus(a, b) <= a /\ (b <= a => Minus(a, b) = a - b) /\ (a <= b => Minus(a, b) = 0)
BY DEF Minus, Most2

\* What a block costs is a number of bytes.
LEMMA CostsAre ==
  ASSUME NEW file \in SampleFiles, NEW raw \in Nat, NEW k \in Kinds4
  PROVE  /\ CostNow(file, raw) \in Nat
         /\ NativeCost(raw, Compressed(raw, k)) \in Nat /\ PackCost(raw, Compressed(raw, k)) \in Nat
<1>1. \A n \in Nat : Rounded(n) \in Nat
  <2>1. TAKE n \in Nat
  <2>2. Sector \in Nat \ {0}
    BY SamplingAssumption
  <2>3. Ceiling(n, Sector) \in Nat
    BY <2>2, CeilingIs
  <2>. QED BY <2>2, <2>3 DEF Rounded
<1>2. \A q \in Kinds4 : Compressed(raw, q) \in Nat
  BY CeilingIs DEF Compressed, Kinds4
<1>3. \A left \in Nat : NativeCost(raw, left) \in Nat /\ PackCost(raw, left) \in Nat
  BY <1>1 DEF NativeCost, PackCost
<1>4. file.mountLeft \in Kinds4 /\ file.probe \in {"unknown", "none", "half", "all"} /\ file.mounted \in BOOLEAN
  BY DEF SampleFiles
<1>. DEFINE l == NativeCost(raw, Compressed(raw, file.mountLeft))
            w == NativeCost(raw, raw)
<1>5. l \in Nat /\ w \in Nat
  BY <1>2, <1>3, <1>4
<1>6. CostNow(file, raw) \in {l, w, (l + w) \div 2}
  BY <1>4 DEF CostNow
<1>7. (l + w) \div 2 \in Nat
  <2>. HIDE DEF l, w
  <2>. QED BY <1>5
<1>. HIDE DEF l, w
<1>8. CostNow(file, raw) \in Nat
  BY <1>5, <1>6, <1>7
<1>. QED BY <1>2, <1>3, <1>8

\* Sums that are below each other term by term.
LEMMA WeightBelow ==
  ASSUME NEW S, IsFiniteSet(S), NEW v, NEW w, \A x \in S : v[x] \in Nat /\ w[x] \in Nat /\ v[x] <= w[x]
  PROVE  Weight(v, S) \in Nat /\ Weight(w, S) \in Nat /\ Weight(v, S) <= Weight(w, S)
<1>. DEFINE Above == {T \in SUBSET S : ~(Weight(v, T) <= Weight(w, T))}
            Sizes == {n \in Nat : \E T \in Above : Cardinality(T) = n}
<1>1. \A T \in SUBSET S : Weight(v, T) \in Nat /\ Weight(w, T) \in Nat
  BY FS_Subset, WeightStep
<1>2. SUFFICES ASSUME Above # {} PROVE FALSE
  BY <1>1
<1>3. \A T \in SUBSET S : Cardinality(T) \in Nat
  BY FS_Subset, FS_CardinalityType
<1>4. Sizes # {}
  BY <1>2, <1>3
<1>5. PICK k \in Sizes : \A j \in Sizes : k <= j
  BY <1>4, LeastNatural
<1>6. PICK T \in Above : Cardinality(T) = k
  BY <1>5
<1>7. T # {}
  <2>1. T = {} => Weight(v, T) = 0 /\ Weight(w, T) = 0
    BY FS_EmptySet, WeightStep
  <2>. QED BY <1>6, <2>1
<1>8. PICK x \in T : TRUE
  BY <1>7
<1>. DEFINE R == T \ {x}
<1>9. R \in SUBSET S /\ Cardinality(R) \in Nat /\ Cardinality(R) < k
  BY <1>6, <1>7, PickedLess
<1>10. Weight(v, R) <= Weight(w, R)
  <2>1. R \in Above => Cardinality(R) \in Sizes
    BY <1>9
  <2>2. R \notin Above
    BY <1>5, <1>9, <2>1
  <2>. QED BY <1>9, <2>2
<1>11. IsFiniteSet(T) /\ \A y \in T : v[y] \in Nat /\ w[y] \in Nat
  BY <1>6, FS_Subset
<1>12. Weight(v, T) = v[x] + Weight(v, R) /\ Weight(w, T) = w[x] + Weight(w, R)
  BY <1>11, WeightTakes
<1>. HIDE DEF R
<1>. QED BY <1>1, <1>6, <1>9, <1>10, <1>12

LEMMA WeightSame ==
  ASSUME NEW S, IsFiniteSet(S), NEW v, NEW w, \A x \in S : v[x] \in Nat /\ v[x] = w[x]
  PROVE  Weight(v, S) = Weight(w, S)
<1>1. Weight(v, S) \in Nat /\ Weight(w, S) \in Nat /\ Weight(v, S) <= Weight(w, S)
  BY WeightBelow
<1>2. Weight(w, S) <= Weight(v, S)
  BY WeightBelow
<1>. QED BY <1>1, <1>2

\* A sum without some terms that have a bound.
LEMMA WeightWithout ==
  ASSUME NEW S, IsFiniteSet(S), NEW w, \A x \in S : w[x] \in Nat,
         NEW m \in Nat, NEW E \in SUBSET S, \A x \in E : w[x] <= m
  PROVE  Weight(w, S) <= Weight(w, S \ E) + Cardinality(E) * m
<1>. DEFINE Above == {T \in SUBSET E : ~(Weight(w, S) <= Weight(w, S \ T) + Cardinality(T) * m)}
            Sizes == {n \in Nat : \E T \in Above : Cardinality(T) = n}
<1>1. \A T \in SUBSET S : Weight(w, T) \in Nat
  BY FS_Subset, WeightStep
<1>2. SUFFICES ASSUME Above # {} PROVE FALSE
  OBVIOUS
<1>3. IsFiniteSet(E) /\ \A T \in SUBSET E : Cardinality(T) \in Nat
  BY FS_Subset, FS_CardinalityType
<1>4. Sizes # {}
  BY <1>2, <1>3
<1>5. PICK k \in Sizes : \A j \in Sizes : k <= j
  BY <1>4, LeastNatural
<1>6. PICK T \in Above : Cardinality(T) = k
  BY <1>5
<1>7. T # {}
  <2>1. SUFFICES ASSUME T = {} PROVE FALSE
    OBVIOUS
  <2>2. S \ T = S /\ Cardinality(T) = 0
    BY <2>1, FS_EmptySet
  <2>3. Weight(w, S \ T) + Cardinality(T) * m = Weight(w, S)
    <3>1. 0 * m = 0
      OBVIOUS
    <3>2. Weight(w, S) \in Nat
      BY <1>1
    <3>. HIDE DEF Above, Sizes
    <3>3. Weight(w, S \ T) = Weight(w, S) /\ Cardinality(T) * m = 0
      BY <2>2, <3>1
    <3>. QED BY <3>2, <3>3
  <2>. QED BY <1>1, <1>6, <2>3
<1>8. PICK x \in T : TRUE
  BY <1>7
<1>. DEFINE R == T \ {x}
<1>9. R \in SUBSET E /\ Cardinality(R) \in Nat /\ k = Cardinality(R) + 1
  BY <1>3, <1>6, <1>7, PickedLess
<1>10. Weight(w, S) <= Weight(w, S \ R) + Cardinality(R) * m
  <2>1. R \in Above => Cardinality(R) \in Sizes
    BY <1>9
  <2>2. R \notin Above
    <3>. HIDE DEF Above, Sizes, R
    <3>. QED BY <1>5, <1>9, <2>1
  <2>. QED BY <1>9, <2>2
<1>11. x \in S \ R /\ (S \ R) \ {x} = S \ T /\ IsFiniteSet(S \ R)
  BY <1>6, FS_Subset
<1>12. Weight(w, S \ R) = w[x] + Weight(w, S \ T)
  BY <1>11, WeightTakes
<1>13. w[x] \in Nat /\ w[x] <= m /\ Weight(w, S \ T) \in Nat
  BY <1>1, <1>6, <1>8
<1>14. Cardinality(T) * m = Cardinality(R) * m + m
  BY <1>6, <1>9
<1>15. Cardinality(R) * m \in Nat
  BY <1>9
<1>16. Weight(w, S) <= Weight(w, S \ T) + (Cardinality(R) * m + m)
  BY <1>1, <1>10, <1>12, <1>13, <1>15
<1>17. Weight(w, S) <= Weight(w, S \ T) + Cardinality(T) * m
  BY <1>14, <1>16
<1>. QED BY <1>6, <1>17

LEMMA WeightAtMost ==
  ASSUME NEW S, IsFiniteSet(S), NEW w, NEW m \in Nat, \A x \in S : w[x] \in Nat /\ w[x] <= m
  PROVE  Weight(w, S) \in Nat /\ Weight(w, S) <= Cardinality(S) * m
<1>1. Weight(w, S) <= Weight(w, S \ S) + Cardinality(S) * m
  BY WeightWithout
<1>2. Weight(w, S \ S) = 0
  BY FS_EmptySet, WeightStep
<1>3. Weight(w, S) \in Nat /\ Cardinality(S) \in Nat
  BY WeightStep, FS_CardinalityType
<1>. QED BY <1>1, <1>2, <1>3

\* The reads of a file: where they begin and what they get, less those past its end.
Reads(n, a, l) == {r \in {[at |-> a[i], length |-> l[i]] : i \in 0 .. (n - 1)} : r.length > 0}
Lengths3(reads) == [r \in reads |-> r.length]

LEMMA ReadsAre ==
  ASSUME NEW n \in Nat, NEW w \in Nat, NEW a \in [0 .. (n - 1) -> Nat], NEW l \in [0 .. (n - 1) -> 0 .. w],
         \A i, j \in 0 .. (n - 1) : i < j => a[i] + w <= a[j]
  PROVE  /\ IsFiniteSet(Reads(n, a, l)) /\ Reads(n, a, l) \subseteq [at : Nat, length : Nat]
         /\ \A r \in Reads(n, a, l) : r.length > 0 /\ r.length <= w
         /\ Apart(Reads(n, a, l))
         /\ Cardinality(Reads(n, a, l)) \in Nat /\ Cardinality(Reads(n, a, l)) <= n
         /\ (\A i \in 0 .. (n - 1) : l[i] > 0) => Cardinality(Reads(n, a, l)) = n
<1>. DEFINE I == 0 .. (n - 1)
            f == [i \in I |-> [at |-> a[i], length |-> l[i]]]
            T == {f[i] : i \in I}
            R == Reads(n, a, l)
<1>1. IsFiniteSet(I) /\ Cardinality(I) = n
  BY FS_Interval
<1>2. R = {r \in T : r.length > 0}
  BY DEF Reads
<1>3. f \in Surjection(I, T)
  BY DEF Surjection
<1>4. IsFiniteSet(T) /\ Cardinality(T) <= n /\ (Cardinality(T) = n <=> f \in Injection(I, T))
  BY <1>1, <1>3, FS_Surjection
<1>5. IsFiniteSet(R) /\ Cardinality(R) \in Nat /\ Cardinality(T) \in Nat /\ Cardinality(R) <= Cardinality(T)
  BY <1>2, <1>4, FS_Subset, FS_CardinalityType
<1>6. ASSUME NEW r \in R
      PROVE \E i \in I : r = [at |-> a[i], length |-> l[i]] /\ l[i] > 0
  BY <1>2
<1>7. R \subseteq [at : Nat, length : Nat] /\ \A r \in R : r.length > 0 /\ r.length <= w
  BY <1>6
<1>8. Apart(R)
  <2>1. SUFFICES ASSUME NEW r \in R, NEW s \in R
                 PROVE  r = s \/ r.at + r.length <= s.at \/ s.at + s.length <= r.at
    BY DEF Apart
  <2>2. PICK i \in I : r = [at |-> a[i], length |-> l[i]]
    BY <1>6
  <2>3. PICK j \in I : s = [at |-> a[j], length |-> l[j]]
    BY <1>6
  <2>4. i = j \/ i < j \/ j < i
    OBVIOUS
  <2>5. /\ a[i] \in Nat /\ a[j] \in Nat /\ l[i] \in Nat /\ l[j] \in Nat /\ l[i] <= w /\ l[j] <= w
        /\ i < j => a[i] + w <= a[j]
        /\ j < i => a[j] + w <= a[i]
    OBVIOUS
  <2>. QED BY <2>2, <2>3, <2>4, <2>5
<1>9. ASSUME \A i \in I : l[i] > 0 PROVE Cardinality(R) = n
  <2>1. R = T
    BY <1>2, <1>9
  <2>2. \A i, j \in I : f[i] = f[j] => i = j
    <3>1. SUFFICES ASSUME NEW i \in I, NEW j \in I, f[i] = f[j], i # j PROVE FALSE
      OBVIOUS
    <3>2. a[i] = a[j] /\ a[i] \in Nat /\ w > 0
      <4>1. f[i].at = a[i] /\ f[j].at = a[j]
        OBVIOUS
      <4>2. l[i] > 0 /\ l[i] \in 0 .. w
        BY <1>9
      <4>. QED BY <3>1, <4>1, <4>2
    <3>3. i < j \/ j < i
      BY <3>1
    <3>. QED BY <3>2, <3>3
  <2>3. f \in [I -> T]
    BY <1>3 DEF Surjection
  <2>4. f \in Injection(I, T)
    BY <2>2, <2>3 DEF Injection, IsInjective
  <2>. QED BY <1>4, <2>1, <2>4
<1>. HIDE DEF R
<1>10. Cardinality(R) <= n
  BY <1>4, <1>5
<1>. QED BY <1>5, <1>7, <1>8, <1>9, <1>10 DEF R

\* What they get together.
LEMMA ReadsSum ==
  ASSUME NEW reads, IsFiniteSet(reads), NEW w \in Nat, NEW n \in Nat, Cardinality(reads) <= n,
         \A r \in reads : r.length \in Nat /\ r.length <= w
  PROVE  Weight(Lengths3(reads), reads) \in Nat /\ Weight(Lengths3(reads), reads) <= n * w
<1>1. \A r \in reads : Lengths3(reads)[r] \in Nat /\ Lengths3(reads)[r] <= w
  BY DEF Lengths3
<1>2. Cardinality(reads) \in Nat
  BY FS_CardinalityType
<1>3. /\ Weight(Lengths3(reads), reads) \in Nat
      /\ Weight(Lengths3(reads), reads) <= Cardinality(reads) * w
  BY <1>1, WeightAtMost
<1>4. Cardinality(reads) * w <= n * w /\ Cardinality(reads) * w \in Nat /\ n * w \in Nat
  BY <1>2, Products
<1>. QED BY <1>3, <1>4

BlocksOf(file) == Most2(1, Ceiling(file.size, Block))
CountOf(file)  == Least2(BlocksOf(file), IF file.container THEN FileBlocks.container ELSE FileBlocks.plain)
BlockAt(file)  == [i \in 0 .. (CountOf(file) - 1) |-> SampleBlock(i, BlocksOf(file), CountOf(file)) * Block]
BlockHas(file) == [i \in 0 .. (CountOf(file) - 1) |->
                       Least2(Block, Minus(Least2(file.size, file.length), BlockAt(file)[i]))]
MostSampled == FileBlocks.plain * Block

LEMMA BlockSamplesIs ==
  ASSUME NEW file PROVE BlockSamples(file) = Reads(CountOf(file), BlockAt(file), BlockHas(file))
BY DEF BlockSamples, Reads, CountOf, BlocksOf, BlockAt, BlockHas

LEMMA BlocksAre ==
  ASSUME NEW file \in SampleFiles
  PROVE  /\ BlocksOf(file) \in Nat \ {0} /\ CountOf(file) \in Nat \ {0}
         /\ CountOf(file) <= BlocksOf(file) /\ CountOf(file) <= FileBlocks.plain
         /\ file.size <= BlocksOf(file) * Block
         /\ file.size > 0 => (BlocksOf(file) - 1) * Block < file.size
<1>1. file.size \in Nat /\ file.container \in BOOLEAN /\ Block \in Nat \ {0} /\ FileBlocks.plain \in Nat
      /\ FileBlocks.container \in Nat \ {0} /\ FileBlocks.container <= FileBlocks.plain
  BY SamplingAssumption DEF SampleFiles
<1>. DEFINE c == Ceiling(file.size, Block)
            k == IF file.container THEN FileBlocks.container ELSE FileBlocks.plain
<1>2. /\ c \in Nat /\ file.size <= c * Block /\ (file.size = 0 => c = 0)
      /\ file.size > 0 => c > 0 /\ (c - 1) * Block < file.size
  BY <1>1, CeilingIs
<1>3. k \in Nat \ {0} /\ k <= FileBlocks.plain
  BY <1>1
<1>. HIDE DEF c, k
<1>4. BlocksOf(file) = Most2(1, c) /\ CountOf(file) = Least2(BlocksOf(file), k)
  BY DEF BlocksOf, CountOf, c, k
<1>5. BlocksOf(file) \in Nat \ {0} /\ (file.size > 0 => BlocksOf(file) = c) /\ (file.size = 0 => BlocksOf(file) = 1)
  BY <1>1, <1>2, <1>4 DEF Most2
<1>6. CountOf(file) \in Nat \ {0} /\ CountOf(file) <= BlocksOf(file) /\ CountOf(file) <= k
  BY <1>3, <1>4, <1>5 DEF Least2
<1>7. CASE file.size = 0
  BY <1>1, <1>3, <1>5, <1>6, <1>7
<1>8. CASE file.size > 0
  BY <1>1, <1>2, <1>3, <1>5, <1>6, <1>8
<1>. QED BY <1>1, <1>7, <1>8

\* The places of samples lie a step apart, from the first to the last.
LEMMA PlacesApart ==
  ASSUME NEW b \in Nat, NEW n \in Nat, n > 1, NEW k \in Nat, (n - 1) * k <= b, NEW i \in 0 .. (n - 1)
  PROVE  /\ (i * b) \div (n - 1) \in Nat /\ (i * b) \div (n - 1) <= b
         /\ i = n - 1 => (i * b) \div (n - 1) = b
         /\ \A j \in 0 .. (n - 1) : i < j => (i * b) \div (n - 1) + k <= (j * b) \div (n - 1)
<1>. DEFINE s == n - 1
<1>1. s \in Nat \ {0} /\ s * k <= b /\ i \in Nat /\ i <= s
  OBVIOUS
<1>. HIDE DEF s
<1>2. i * b \in Nat /\ i * b <= s * b /\ s * b \in Nat
  BY <1>1, Products
<1>3. /\ (i * b) \div s \in Nat /\ ((i * b) \div s) * s <= i * b /\ i * b < ((i * b) \div s + 1) * s
  BY <1>1, <1>2, Quotient
<1>. DEFINE q == (i * b) \div s
<1>4. q \in Nat /\ q * s <= i * b /\ i * b < (q + 1) * s
  BY <1>3
<1>. HIDE DEF q
<1>5. q <= b
  <2>1. q * s < (b + 1) * s
    <3>1. (b + 1) * s = s * b + s
      BY <1>1
    <3>2. q * s \in Nat
      BY <1>1, <1>4
    <3>. QED BY <1>1, <1>2, <1>4, <3>1, <3>2
  <2>. QED BY <1>1, <1>4, <2>1, Cancels2
<1>6. ASSUME i = s PROVE q = b
  <2>1. b * s = i * b
    BY <1>1, <1>6
  <2>2. b * s < (q + 1) * s
    BY <1>4, <2>1
  <2>3. b < q + 1
    BY <1>1, <1>4, <2>2, Cancels2
  <2>. QED BY <1>4, <1>5, <2>3
<1>7. ASSUME NEW j \in 0 .. (n - 1), i < j PROVE q + k <= (j * b) \div s
  <2>1. j \in Nat
    OBVIOUS
  <2>2. (i * b) \div s + k <= (j * b) \div s
    BY <1>1, <1>7, <2>1, Spread
  <2>. QED BY <2>2 DEF q
<1>. QED BY <1>4, <1>5, <1>6, <1>7 DEF q, s

LEMMA BlocksApart ==
  ASSUME NEW file \in SampleFiles
  PROVE  /\ BlockAt(file) \in [0 .. (CountOf(file) - 1) -> Nat]
         /\ BlockHas(file) \in [0 .. (CountOf(file) - 1) -> 0 .. Block]
         /\ \A i, j \in 0 .. (CountOf(file) - 1) : i < j => BlockAt(file)[i] + Block <= BlockAt(file)[j]
         /\ CountOf(file) > 1 => BlockAt(file)[CountOf(file) - 1] = (BlocksOf(file) - 1) * Block
<1>1. /\ file.size \in Nat /\ file.length \in Nat /\ Block \in Nat \ {0}
      /\ BlocksOf(file) \in Nat \ {0} /\ CountOf(file) \in Nat \ {0} /\ CountOf(file) <= BlocksOf(file)
  BY BlocksAre, SamplingAssumption DEF SampleFiles
<1>. DEFINE n == CountOf(file)
            b == BlocksOf(file) - 1
            at(i) == SampleBlock(i, BlocksOf(file), n)
<1>2. n \in Nat /\ n > 0 /\ b \in Nat /\ n - 1 <= b
  BY <1>1
<1>3. ASSUME n = 1, NEW i \in 0 .. (n - 1) PROVE at(i) \in Nat /\ i = 0
  BY <1>1, <1>3 DEF SampleBlock
<1>4. ASSUME n > 1, NEW i \in 0 .. (n - 1)
      PROVE  /\ at(i) \in Nat /\ (i = n - 1 => at(i) = b)
             /\ \A j \in 0 .. (n - 1) : i < j => at(i) + 1 <= at(j)
  <2>1. (n - 1) * 1 <= b
    BY <1>2
  <2>2. \A j \in 0 .. (n - 1) : at(j) = (j * b) \div (n - 1)
    <3>1. ~(CountOf(file) <= 1)
      BY <1>2, <1>4
    <3>. QED BY <3>1 DEF SampleBlock
  <2>. HIDE DEF n, b, at
  <2>3. /\ (i * b) \div (n - 1) \in Nat /\ (i * b) \div (n - 1) <= b
        /\ i = n - 1 => (i * b) \div (n - 1) = b
        /\ \A j \in 0 .. (n - 1) : i < j => (i * b) \div (n - 1) + 1 <= (j * b) \div (n - 1)
    BY <1>2, <1>4, <2>1, PlacesApart
  <2>. QED BY <1>4, <2>2, <2>3
<1>. HIDE DEF b, at
<1>5. BlockAt(file) = [i \in 0 .. (n - 1) |-> at(i) * Block]
  BY DEF BlockAt, at
<1>. HIDE DEF n
<1>6. \A i \in 0 .. (n - 1) : at(i) \in Nat
  BY <1>2, <1>3, <1>4
<1>7. \A i \in 0 .. (n - 1) : BlockAt(file)[i] = at(i) * Block /\ at(i) * Block \in Nat
  BY <1>1, <1>5, <1>6
<1>8. BlockAt(file) \in [0 .. (n - 1) -> Nat]
  BY <1>5, <1>7
<1>9. BlockHas(file) \in [0 .. (n - 1) -> 0 .. Block]
  <2>1. ASSUME NEW i \in 0 .. (n - 1)
        PROVE  Least2(Block, Minus(Least2(file.size, file.length), BlockAt(file)[i])) \in 0 .. Block
    <3>1. Least2(file.size, file.length) \in Nat /\ BlockAt(file)[i] \in Nat
      BY <1>1, <1>8, LeastOf
    <3>2. Minus(Least2(file.size, file.length), BlockAt(file)[i]) \in Nat
      BY <3>1, MinusIs
    <3>. QED BY <1>1, <3>2 DEF Least2
  <2>. QED BY <2>1 DEF BlockHas, n
<1>10. ASSUME NEW i \in 0 .. (n - 1), NEW j \in 0 .. (n - 1), i < j
       PROVE  BlockAt(file)[i] + Block <= BlockAt(file)[j]
  <2>1. at(i) + 1 <= at(j) /\ at(i) \in Nat /\ at(j) \in Nat
    BY <1>2, <1>4, <1>6, <1>10
  <2>2. (at(i) + 1) * Block <= at(j) * Block
    BY <1>1, <2>1, Products
  <2>. QED BY <1>1, <1>7, <2>1, <2>2
<1>11. ASSUME n > 1 PROVE BlockAt(file)[n - 1] = b * Block
  <2>1. n - 1 \in 0 .. (n - 1)
    BY <1>2
  <2>2. at(n - 1) = b
    BY <1>4, <1>11, <2>1
  <2>. QED BY <1>7, <2>1, <2>2
<1>. QED BY <1>8, <1>9, <1>10, <1>11 DEF n, b

WindowAt(file, cap)  == [i \in 0 .. (WindowCount(file, cap) - 1) |->
    SampleOffset(i, file.size, WindowOf(file, cap), WindowCount(file, cap))]
WindowHas(file, cap) == [i \in 0 .. (WindowCount(file, cap) - 1) |->
    Least2(WindowOf(file, cap), Minus(Least2(file.size, file.length), WindowAt(file, cap)[i]))]
WindowGets(file, cap) == Least2(WindowOf(file, cap), file.size)

LEMMA WindowSamplesIs ==
  ASSUME NEW file, NEW cap
  PROVE  WindowSamples(file, cap) = Reads(WindowCount(file, cap), WindowAt(file, cap), WindowHas(file, cap))
BY DEF WindowSamples, Reads, WindowAt, WindowHas

LEMMA WindowsAre ==
  ASSUME NEW file \in SampleFiles, NEW cap \in Nat \ {0}
  PROVE  /\ WindowOf(file, cap) \in Nat \ {0} /\ WindowCount(file, cap) \in Nat \ {0}
         /\ file.size > 0 => WindowOf(file, cap) <= file.size
         /\ WindowGets(file, cap) \in Nat /\ WindowCount(file, cap) * WindowGets(file, cap) <= cap
         /\ WindowGets(file, cap) <= WindowOf(file, cap)
         /\ WindowCount(file, cap) > 1 =>
              WindowCount(file, cap) * WindowOf(file, cap) < file.size
<1>1. file.size \in Nat /\ Window \in Nat \ {0}
  BY SamplingAssumption DEF SampleFiles
<1>2. CASE Whole(file, cap)
  <2>1. WindowOf(file, cap) = Most2(1, file.size) /\ WindowCount(file, cap) = 1 /\ file.size <= cap
    BY <1>2 DEF WindowOf, WindowCount, Whole
  <2>2. WindowGets(file, cap) = file.size
    BY <1>1, <2>1 DEF WindowGets, Most2, Least2
  <2>. QED BY <1>1, <2>1, <2>2 DEF Most2
<1>3. CASE ~Whole(file, cap)
  <2>. DEFINE W == WindowOf(file, cap)
              n == WindowCount(file, cap)
  <2>1. W = Least2(Window, Most2(1, cap)) /\ file.size > cap
    BY <1>1, <1>3 DEF WindowOf, Whole
  <2>2. W \in Nat \ {0} /\ W <= cap
    BY <1>1, <2>1 DEF Least2, Most2
  <2>3. n = Most2(1, cap \div W)
    BY <1>3 DEF WindowCount
  <2>4. WindowGets(file, cap) = Least2(W, file.size)
    BY DEF WindowGets
  <2>. HIDE DEF W, n
  <2>5. cap \div W \in Nat /\ (cap \div W) * W <= cap /\ cap < (cap \div W + 1) * W
    BY <2>2, Quotient
  <2>6. cap \div W > 0
    <3>1. SUFFICES ASSUME cap \div W = 0 PROVE FALSE
      BY <2>5
    <3>2. (cap \div W + 1) * W = W
      BY <2>2, <3>1
    <3>. QED BY <2>2, <2>5, <3>2
  <2>7. n = cap \div W
    BY <2>3, <2>5, <2>6 DEF Most2
  <2>8. n \in Nat \ {0} /\ n * W <= cap
    BY <2>5, <2>6, <2>7
  <2>9. WindowGets(file, cap) = W
    BY <1>1, <2>1, <2>2, <2>4 DEF Least2
  <2>. QED BY <1>1, <2>1, <2>2, <2>8, <2>9 DEF W, n
<1>. QED BY <1>2, <1>3

LEMMA WindowsApart ==
  ASSUME NEW file \in SampleFiles, NEW cap \in Nat \ {0}
  PROVE  /\ WindowAt(file, cap) \in [0 .. (WindowCount(file, cap) - 1) -> Nat]
         /\ WindowHas(file, cap) \in [0 .. (WindowCount(file, cap) - 1) -> 0 .. WindowGets(file, cap)]
         /\ \A i, j \in 0 .. (WindowCount(file, cap) - 1) :
               i < j => WindowAt(file, cap)[i] + WindowOf(file, cap) <= WindowAt(file, cap)[j]
         /\ file.size > 0 => \A i \in 0 .. (WindowCount(file, cap) - 1) :
               WindowAt(file, cap)[i] + WindowOf(file, cap) <= file.size
         /\ WindowCount(file, cap) > 1 =>
               WindowAt(file, cap)[WindowCount(file, cap) - 1] + WindowOf(file, cap) = file.size
<1>. DEFINE W == WindowOf(file, cap)
            n == WindowCount(file, cap)
            b == Minus(file.size, W)
            at == WindowAt(file, cap)
<1>1. /\ file.size \in Nat /\ file.length \in Nat /\ W \in Nat \ {0} /\ n \in Nat \ {0}
      /\ file.size > 0 => W <= file.size
      /\ n > 1 => n * W < file.size
  BY WindowsAre DEF SampleFiles
<1>2. at = [i \in 0 .. (n - 1) |-> SampleOffset(i, file.size, W, n)]
  BY DEF WindowAt
<1>. HIDE DEF W, n, at
<1>3. b \in Nat /\ (file.size > 0 => b + W = file.size)
  BY <1>1, MinusIs
<1>4. \A i \in 0 .. (n - 1) : at[i] = IF n <= 1 THEN b \div 2 ELSE (i * b) \div (n - 1)
  BY <1>2 DEF SampleOffset
<1>. HIDE DEF b
<1>5. ASSUME n = 1, NEW i \in 0 .. (n - 1) PROVE at[i] \in Nat /\ at[i] <= b /\ i = 0
  <2>1. b \div 2 \in Nat /\ b \div 2 <= b
    BY <1>3
  <2>. QED BY <1>4, <1>5, <2>1
<1>6. ASSUME n > 1, NEW i \in 0 .. (n - 1)
      PROVE  /\ at[i] \in Nat /\ at[i] <= b /\ (i = n - 1 => at[i] = b)
             /\ \A j \in 0 .. (n - 1) : i < j => at[i] + W <= at[j]
  <2>1. (n - 1) * W <= b
    <3>1. (n - 1) * W = n * W - W
      BY <1>1
    <3>2. n * W \in Nat
      BY <1>1
    <3>. QED BY <1>1, <1>3, <1>6, <3>1, <3>2
  <2>2. \A j \in 0 .. (n - 1) : at[j] = (j * b) \div (n - 1)
    BY <1>1, <1>4, <1>6
  <2>3. /\ (i * b) \div (n - 1) \in Nat /\ (i * b) \div (n - 1) <= b
        /\ i = n - 1 => (i * b) \div (n - 1) = b
        /\ \A j \in 0 .. (n - 1) : i < j => (i * b) \div (n - 1) + W <= (j * b) \div (n - 1)
    BY <1>1, <1>3, <1>6, <2>1, PlacesApart
  <2>. QED BY <1>6, <2>2, <2>3
<1>7. n = 1 \/ n > 1
  BY <1>1
<1>8. \A i \in 0 .. (n - 1) : at[i] \in Nat /\ at[i] <= b
  BY <1>5, <1>6, <1>7
<1>9. at \in [0 .. (n - 1) -> Nat]
  BY <1>2, <1>8
<1>10. WindowHas(file, cap) \in [0 .. (n - 1) -> 0 .. WindowGets(file, cap)]
  <2>1. ASSUME NEW i \in 0 .. (n - 1)
        PROVE  Least2(W, Minus(Least2(file.size, file.length), at[i])) \in 0 .. Least2(W, file.size)
    <3>1. Least2(file.size, file.length) \in Nat /\ Least2(file.size, file.length) <= file.size
      BY <1>1, LeastOf
    <3>2. Minus(Least2(file.size, file.length), at[i]) \in Nat
          /\ Minus(Least2(file.size, file.length), at[i]) <= Least2(file.size, file.length)
      BY <1>8, <3>1, MinusIs
    <3>. QED BY <1>1, <3>1, <3>2 DEF Least2
  <2>. QED BY <2>1 DEF WindowHas, WindowGets, W, n, at
<1>11. ASSUME NEW i \in 0 .. (n - 1), NEW j \in 0 .. (n - 1), i < j PROVE at[i] + W <= at[j]
  BY <1>5, <1>6, <1>7, <1>11
<1>12. ASSUME file.size > 0, NEW i \in 0 .. (n - 1) PROVE at[i] + W <= file.size
  BY <1>1, <1>3, <1>8, <1>12
<1>13. ASSUME n > 1 PROVE at[n - 1] + W = file.size
  <2>1. at[n - 1] = b
    BY <1>1, <1>6, <1>13
  <2>2. file.size > 0
    <3>1. n * W \in Nat
      BY <1>1
    <3>. QED BY <1>1, <1>13, <3>1
  <2>. QED BY <1>3, <2>1, <2>2
<1>. QED BY <1>9, <1>10, <1>11, <1>12, <1>13 DEF W, n, at

LEMMA BlockReadsAre ==
  ASSUME NEW file \in SampleFiles
  PROVE  /\ IsFiniteSet(BlockSamples(file)) /\ BlockSamples(file) \subseteq [at : Nat, length : Nat]
         /\ \A r \in BlockSamples(file) : r.length > 0 /\ r.length <= Block
         /\ Apart(BlockSamples(file))
         /\ Cardinality(BlockSamples(file)) \in Nat /\ Cardinality(BlockSamples(file)) <= CountOf(file)
<1>1. Block \in Nat /\ CountOf(file) \in Nat
  BY BlocksAre, SamplingAssumption
<1>. DEFINE n == CountOf(file)
            a == BlockAt(file)
            l == BlockHas(file)
<1>2. /\ a \in [0 .. (n - 1) -> Nat] /\ l \in [0 .. (n - 1) -> 0 .. Block]
      /\ \A i, j \in 0 .. (n - 1) : i < j => a[i] + Block <= a[j]
  BY BlocksApart
<1>3. BlockSamples(file) = Reads(n, a, l) /\ n \in Nat
  BY <1>1, BlockSamplesIs
<1>4. n = CountOf(file)
  OBVIOUS
<1>. HIDE DEF n, a, l
<1>5. /\ IsFiniteSet(Reads(n, a, l)) /\ Reads(n, a, l) \subseteq [at : Nat, length : Nat]
      /\ \A r \in Reads(n, a, l) : r.length > 0 /\ r.length <= Block
      /\ Apart(Reads(n, a, l))
      /\ Cardinality(Reads(n, a, l)) \in Nat /\ Cardinality(Reads(n, a, l)) <= n
  BY <1>1, <1>2, <1>3, ReadsAre
<1>. QED BY <1>3, <1>4, <1>5

LEMMA WindowReadsAre ==
  ASSUME NEW file \in SampleFiles, NEW cap \in Nat \ {0}
  PROVE  /\ IsFiniteSet(WindowSamples(file, cap)) /\ WindowSamples(file, cap) \subseteq [at : Nat, length : Nat]
         /\ \A r \in WindowSamples(file, cap) : r.length > 0 /\ r.length <= WindowGets(file, cap)
         /\ Apart(WindowSamples(file, cap))
         /\ Cardinality(WindowSamples(file, cap)) \in Nat
         /\ Cardinality(WindowSamples(file, cap)) <= WindowCount(file, cap)
         /\ (\A i \in 0 .. (WindowCount(file, cap) - 1) : WindowHas(file, cap)[i] > 0)
               => Cardinality(WindowSamples(file, cap)) = WindowCount(file, cap)
<1>. DEFINE n == WindowCount(file, cap)
            a == WindowAt(file, cap)
            l == WindowHas(file, cap)
            v == WindowGets(file, cap)
            w == WindowOf(file, cap)
<1>1. /\ a \in [0 .. (n - 1) -> Nat] /\ l \in [0 .. (n - 1) -> 0 .. v]
      /\ \A i, j \in 0 .. (n - 1) : i < j => a[i] + w <= a[j]
  BY WindowsApart
<1>2. n \in Nat /\ v \in Nat /\ w \in Nat /\ v <= w
  BY WindowsAre
<1>3. WindowSamples(file, cap) = Reads(n, a, l)
  BY WindowSamplesIs
<1>. SUFFICES /\ IsFiniteSet(Reads(n, a, l)) /\ Reads(n, a, l) \subseteq [at : Nat, length : Nat]
              /\ \A r \in Reads(n, a, l) : r.length > 0 /\ r.length <= v
              /\ Apart(Reads(n, a, l))
              /\ Cardinality(Reads(n, a, l)) \in Nat /\ Cardinality(Reads(n, a, l)) <= n
              /\ (\A i \in 0 .. (n - 1) : l[i] > 0) => Cardinality(Reads(n, a, l)) = n
  BY <1>3
<1>. HIDE DEF n, a, l, v, w
<1>4. \A i, j \in 0 .. (n - 1) : i < j => a[i] + v <= a[j]
  <2>1. SUFFICES ASSUME NEW i \in 0 .. (n - 1), NEW j \in 0 .. (n - 1), i < j PROVE a[i] + v <= a[j]
    OBVIOUS
  <2>2. a[i] \in Nat /\ a[j] \in Nat /\ a[i] + w <= a[j]
    BY <1>1, <2>1
  <2>. QED BY <1>2, <2>2
<1>. QED BY <1>1, <1>2, <1>4, ReadsAre

\* What a file's samples read is bounded by the block count, or by the cap.
LEMMA SampledBounds ==
  ASSUME NEW file \in SampleFiles
  PROVE  /\ Weight(Lengths3(BlockSamples(file)), BlockSamples(file)) \in Nat
         /\ Weight(Lengths3(BlockSamples(file)), BlockSamples(file)) <= MostSampled
         /\ MostSampled \in Nat
         /\ \A cap \in Nat \ {0} :
              /\ Weight(Lengths3(WindowSamples(file, cap)), WindowSamples(file, cap)) \in Nat
              /\ Weight(Lengths3(WindowSamples(file, cap)), WindowSamples(file, cap)) <= cap
<1>1. Block \in Nat /\ FileBlocks.plain \in Nat /\ CountOf(file) \in Nat /\ CountOf(file) <= FileBlocks.plain
  BY BlocksAre, SamplingAssumption
<1>. DEFINE B == BlockSamples(file)
<1>2. /\ IsFiniteSet(B) /\ Cardinality(B) \in Nat /\ Cardinality(B) <= FileBlocks.plain
      /\ \A r \in B : r.length \in Nat /\ r.length <= Block
  BY <1>1, BlockReadsAre
<1>. HIDE DEF B
<1>3. Weight(Lengths3(B), B) \in Nat /\ Weight(Lengths3(B), B) <= MostSampled
  BY <1>1, <1>2, ReadsSum DEF MostSampled
<1>4. ASSUME NEW cap \in Nat \ {0}
      PROVE  /\ Weight(Lengths3(WindowSamples(file, cap)), WindowSamples(file, cap)) \in Nat
             /\ Weight(Lengths3(WindowSamples(file, cap)), WindowSamples(file, cap)) <= cap
  <2>. DEFINE R == WindowSamples(file, cap)
              n == WindowCount(file, cap)
              v == WindowGets(file, cap)
  <2>1. n \in Nat /\ v \in Nat /\ n * v <= cap
    BY WindowsAre
  <2>2. IsFiniteSet(R) /\ Cardinality(R) <= n /\ \A r \in R : r.length \in Nat /\ r.length <= v
    BY WindowReadsAre
  <2>. HIDE DEF R, n, v
  <2>3. Weight(Lengths3(R), R) \in Nat /\ Weight(Lengths3(R), R) <= n * v
    BY <2>1, <2>2, ReadsSum
  <2>4. n * v \in Nat
    BY <2>1
  <2>5. Weight(Lengths3(R), R) <= cap
    BY <2>1, <2>3, <2>4
  <2>. QED BY <2>3, <2>5 DEF R
<1>5. MostSampled \in Nat
  BY <1>1 DEF MostSampled
<1>. QED BY <1>3, <1>4, <1>5 DEF B

\* A file that has the size it was listed with is sampled to its end.
LEMMA BlocksReach ==
  ASSUME NEW file \in SampleFiles, file.length = file.size, file.size > 0,
         Cardinality(BlockSamples(file)) > 1
  PROVE  Reaches(BlockSamples(file), file.size)
<1>. DEFINE n == CountOf(file)
            b == BlocksOf(file)
            a == BlockAt(file)
            l == BlockHas(file)
<1>1. /\ n \in Nat /\ b \in Nat \ {0} /\ file.size <= b * Block /\ (b - 1) * Block < file.size
      /\ Block \in Nat \ {0} /\ file.size \in Nat
  BY BlocksAre, SamplingAssumption DEF SampleFiles
<1>2. n > 1
  BY <1>1, BlockReadsAre
<1>3. a[n - 1] = (b - 1) * Block /\ n - 1 \in 0 .. (n - 1)
  BY <1>1, <1>2, BlocksApart
<1>4. l[n - 1] = Least2(Block, Minus(Least2(file.size, file.size), a[n - 1]))
  BY <1>3 DEF BlockHas
<1>5. BlockSamples(file) = Reads(n, a, l)
  BY BlockSamplesIs
<1>. HIDE DEF n, b, a, l
<1>6. (b - 1) * Block = b * Block - Block /\ (b - 1) * Block \in Nat
  BY <1>1
<1>7. Minus(Least2(file.size, file.size), a[n - 1]) = file.size - (b - 1) * Block
  BY <1>1, <1>3, <1>6 DEF Minus, Most2, Least2
<1>8. l[n - 1] = file.size - (b - 1) * Block
  <2>1. b * Block \in Nat /\ file.size - (b - 1) * Block <= Block
    BY <1>1, <1>6
  <2>. QED BY <1>1, <1>4, <1>6, <1>7, <2>1 DEF Least2
<1>. DEFINE r == [at |-> a[n - 1], length |-> l[n - 1]]
<1>9. r \in Reads(n, a, l)
  <2>1. r.length > 0
    BY <1>1, <1>6, <1>8
  <2>. QED BY <1>3, <2>1 DEF Reads
<1>10. r.at + r.length = file.size
  BY <1>1, <1>3, <1>6, <1>8
<1>. QED BY <1>5, <1>9, <1>10 DEF Reaches

LEMMA WindowsReach ==
  ASSUME NEW file \in SampleFiles, file.length = file.size, file.size > 0, NEW cap \in Nat \ {0}
  PROVE  /\ Cardinality(WindowSamples(file, cap)) = WindowCount(file, cap)
         /\ WindowCount(file, cap) # 1 => Reaches(WindowSamples(file, cap), file.size)
<1>. DEFINE n == WindowCount(file, cap)
            a == WindowAt(file, cap)
            l == WindowHas(file, cap)
            w == WindowOf(file, cap)
<1>1. n \in Nat \ {0} /\ w \in Nat \ {0} /\ file.size \in Nat
  BY WindowsAre DEF SampleFiles
<1>2. /\ a \in [0 .. (n - 1) -> Nat]
      /\ \A i \in 0 .. (n - 1) : a[i] + w <= file.size
      /\ n > 1 => a[n - 1] + w = file.size
  BY WindowsApart
<1>3. WindowSamples(file, cap) = Reads(n, a, l)
  BY WindowSamplesIs
<1>4. ASSUME NEW i \in 0 .. (n - 1) PROVE l[i] = w
  <2>1. l[i] = Least2(w, Minus(Least2(file.size, file.size), a[i]))
    BY DEF WindowHas
  <2>. HIDE DEF n, a, l, w
  <2>2. a[i] \in Nat /\ a[i] + w <= file.size
    BY <1>2
  <2>3. Minus(Least2(file.size, file.size), a[i]) = file.size - a[i]
    BY <1>1, <2>2 DEF Minus, Most2, Least2
  <2>. QED BY <1>1, <2>1, <2>2, <2>3 DEF Least2
<1>5. Cardinality(WindowSamples(file, cap)) = n
  <2>1. \A i \in 0 .. (n - 1) : l[i] > 0
    <3>. HIDE DEF n, a, l, w
    <3>. QED BY <1>1, <1>4
  <2>. QED BY <2>1, WindowReadsAre
<1>6. ASSUME n # 1 PROVE Reaches(WindowSamples(file, cap), file.size)
  <2>. HIDE DEF n, a, l, w
  <2>. DEFINE r == [at |-> a[n - 1], length |-> l[n - 1]]
  <2>1. n > 1 /\ n - 1 \in 0 .. (n - 1)
    BY <1>1, <1>6
  <2>2. r.at + r.length = file.size /\ r.length > 0
    BY <1>1, <1>2, <1>4, <2>1
  <2>3. r \in Reads(n, a, l)
    BY <2>1, <2>2 DEF Reads
  <2>. QED BY <1>3, <2>2, <2>3 DEF Reaches
<1>. QED BY <1>5, <1>6

LEMMA FilesApart ==
  ASSUME NEW file \in SampleFiles, file.length = file.size, file.size > 0
  PROVE  FileApart(file)
<1>. DEFINE length(r) == r.length
<1>1. \A reads : Total(length, reads) = Weight(Lengths3(reads), reads)
  BY DEF Total, MapThenSumSet, MapThenFoldSet, Weight, Tallies, Tallied, Picked, Lengths3
<1>2. 1 .. FileCap \subseteq Nat \ {0}
  BY SamplingAssumption
<1>3. /\ Apart(BlockSamples(file))
      /\ Cardinality(BlockSamples(file)) > 1 => Reaches(BlockSamples(file), file.size)
  BY BlockReadsAre, BlocksReach
<1>4. ASSUME NEW cap \in 1 .. FileCap
      PROVE  /\ Apart(WindowSamples(file, cap))
             /\ Weight(Lengths3(WindowSamples(file, cap)), WindowSamples(file, cap)) <= cap
             /\ Cardinality(WindowSamples(file, cap)) = WindowCount(file, cap)
             /\ WindowCount(file, cap) # 1 => Reaches(WindowSamples(file, cap), file.size)
  BY <1>2, WindowReadsAre, WindowsReach, SampledBounds
<1>5. ASSUME NEW cap \in 1 .. FileCap PROVE Total(length, WindowSamples(file, cap)) <= cap
  BY <1>1, <1>4
<1>. QED BY <1>3, <1>4, <1>5 DEF FileApart

LEMMA SamplesLieApart == (sampling.task \in SampleTasks) => SamplesApart
<1>1. SUFFICES ASSUME sampling.task \in SampleTasks, NEW f \in Sorted(sampling.task), Files[f].size > 0
               PROVE  FileApart([Files[f] EXCEPT !.length = Files[f].size])
  BY DEF SamplesApart
<1>2. Files \in Seq(SampleFiles) /\ f \in DOMAIN Files
  BY <1>1, SamplingAssumption DEF Files, Sorted
<1>3. Files[f] \in SampleFiles
  BY <1>1, <1>2
<1>. DEFINE file == [Files[f] EXCEPT !.length = Files[f].size]
<1>4. file \in SampleFiles /\ file.length = file.size /\ file.size > 0
  BY <1>1, <1>3 DEF SampleFiles
<1>. HIDE DEF file
<1>5. FileApart(file)
  BY <1>4, FilesApart
<1>. QED BY <1>5 DEF file

FileResults == [size : Nat, sampled : Nat, now : Nat, native : Nat, pack : Nat]

LEMMA StoredIs ==
  ASSUME NEW file \in SampleFiles
  PROVE  /\ NoSample(file) \in FileResults /\ NoSample(file).sampled = 0
         /\ AsStored(file) \in FileResults /\ AsStored(file).sampled = 0
BY DEF NoSample, AsStored, FileResults, SampleFiles

LEMMA ScaledIs ==
  ASSUME NEW file \in SampleFiles, NEW s \in Nat, NEW a \in Nat, NEW b \in Nat, NEW c \in Nat
  PROVE  Scaled(file, s, a, b, c) \in FileResults /\ Scaled(file, s, a, b, c).sampled = s
<1>1. CASE s = 0
  BY <1>1, StoredIs DEF Scaled
<1>2. CASE s # 0
  <2>1. file.size \in Nat
    BY DEF SampleFiles
  <2>2. ASSUME NEW n \in Nat PROVE (n * file.size) \div s \in Nat
    <3>1. n * file.size \in Nat
      BY <2>1
    <3>. QED BY <1>2, <3>1, Quotient
  <2>3. /\ (a * file.size) \div s \in Nat /\ (b * file.size) \div s \in Nat /\ (c * file.size) \div s \in Nat
    BY <2>2
  <2>. DEFINE x == (a * file.size) \div s
              y == (b * file.size) \div s
              z == (c * file.size) \div s
  <2>4. Scaled(file, s, a, b, c) = [size |-> file.size, sampled |-> s, now |-> x, native |-> y, pack |-> z]
    BY <1>2 DEF Scaled
  <2>5. x \in Nat /\ y \in Nat /\ z \in Nat
    BY <2>3
  <2>. HIDE DEF x, y, z
  <2>. QED BY <2>1, <2>4, <2>5 DEF FileResults
<1>. QED BY <1>1, <1>2

\* Images of finite sets.
LEMMA ImageFinite ==
  ASSUME NEW S, IsFiniteSet(S), NEW f
  PROVE  IsFiniteSet({f[x] : x \in S})
<1>. DEFINE T == {f[x] : x \in S}
            g == [x \in S |-> f[x]]
<1>1. g \in Surjection(S, T)
  BY DEF Surjection
<1>. HIDE DEF g, T
<1>2. IsFiniteSet(T)
  BY <1>1, FS_Surjection
<1>. QED BY <1>2 DEF T

LEMMA CutsAre ==
  ASSUME NEW r, r.length \in Nat, r.length > 0
  PROVE  IsFiniteSet(Cuts(r)) /\ \A c \in Cuts(r) : c.length \in Nat
<1>1. Block \in Nat \ {0}
  BY SamplingAssumption
<1>. DEFINE n == (r.length - 1) \div Block
            f == [k \in 0 .. n |-> [at |-> k, length |-> Least2(Block, r.length - k * Block)]]
<1>2. r.length - 1 \in Nat
  OBVIOUS
<1>3. n \in Nat /\ n * Block <= r.length - 1
  BY <1>1, <1>2, Quotient
<1>4. Cuts(r) = {f[k] : k \in 0 .. n}
  BY DEF Cuts
<1>5. IsFiniteSet(0 .. n)
  BY <1>3, FS_Interval
<1>. HIDE DEF n
<1>6. IsFiniteSet({f[k] : k \in 0 .. n})
  <2>. HIDE DEF f
  <2>. QED BY <1>5, ImageFinite
<1>7. ASSUME NEW k \in 0 .. n PROVE f[k].length \in Nat
  <2>1. k \in Nat /\ k * Block <= n * Block /\ k * Block \in Nat /\ n * Block \in Nat
    BY <1>1, <1>3, Products
  <2>2. r.length - k * Block \in Nat
    BY <1>3, <2>1
  <2>. QED BY <1>1, <2>2 DEF Least2
<1>. QED BY <1>4, <1>6, <1>7

\* The results of the two ways to estimate a file.
OpenNow(file)   == [r \in BlockSamples(file) |-> CostNow(file, r.length)]
OpenAfter(file) == [r \in BlockSamples(file) |-> NativeCost(r.length, Compressed(r.length, file.left))]

LEMMA OpenFileIs ==
  ASSUME NEW file
  PROVE  EstimateOpenFile(file) =
           Scaled(file, Weight(Lengths3(BlockSamples(file)), BlockSamples(file)),
                  Weight(OpenNow(file), BlockSamples(file)), Weight(OpenAfter(file), BlockSamples(file)), 0)
BY DEF EstimateOpenFile, Total, MapThenSumSet, MapThenFoldSet, Weight, Tallies, Tallied, Picked, Lengths3,
       OpenNow, OpenAfter

LEMMA OpenFileResult ==
  ASSUME NEW file \in SampleFiles
  PROVE  EstimateOpenFile(file) \in FileResults /\ EstimateOpenFile(file).sampled <= MostSampled
<1>. DEFINE B == BlockSamples(file)
<1>1. IsFiniteSet(B) /\ \A r \in B : r.length \in Nat
  BY BlockReadsAre
<1>2. file.left \in Kinds4
  BY DEF SampleFiles
<1>3. \A r \in B : OpenNow(file)[r] \in Nat /\ OpenAfter(file)[r] \in Nat
  BY <1>1, <1>2, CostsAre DEF OpenNow, OpenAfter
<1>4. Weight(OpenNow(file), B) \in Nat /\ Weight(OpenAfter(file), B) \in Nat
  BY <1>1, <1>3, WeightStep
<1>5. Weight(Lengths3(B), B) \in Nat /\ Weight(Lengths3(B), B) <= MostSampled
  BY SampledBounds
<1>6. EstimateOpenFile(file) = Scaled(file, Weight(Lengths3(B), B), Weight(OpenNow(file), B), Weight(OpenAfter(file), B), 0)
  BY OpenFileIs
<1>. HIDE DEF B
<1>. QED BY <1>4, <1>5, <1>6, ScaledIs

CutNow(file, r)   == [c \in Cuts(r) |-> CostNow(file, c.length)]
CutAfter(file, r) == [c \in Cuts(r) |-> NativeCost(c.length, Compressed(c.length, file.left))]
PairNow(file, cap)   == [r \in WindowSamples(file, cap) |-> Weight(CutNow(file, r), Cuts(r))]
PairAfter(file, cap) == [r \in WindowSamples(file, cap) |-> Weight(CutAfter(file, r), Cuts(r))]
PairPack(file, cap)  == [r \in WindowSamples(file, cap) |-> PackCost(r.length, Compressed(r.length, file.packLeft))]

LEMMA PairIs ==
  ASSUME NEW file, NEW cap
  PROVE  EstimatePair(file, cap) =
           Scaled(file, Weight(Lengths3(WindowSamples(file, cap)), WindowSamples(file, cap)),
                  Weight(PairNow(file, cap), WindowSamples(file, cap)),
                  Weight(PairAfter(file, cap), WindowSamples(file, cap)),
                  Weight(PairPack(file, cap), WindowSamples(file, cap)))
BY DEF EstimatePair, Total, MapThenSumSet, MapThenFoldSet, Weight, Tallies, Tallied, Picked, Lengths3,
       PairNow, PairAfter, PairPack, CutNow, CutAfter

LEMMA PairResult ==
  ASSUME NEW file \in SampleFiles, NEW cap \in Nat \ {0}
  PROVE  EstimatePair(file, cap) \in FileResults /\ EstimatePair(file, cap).sampled <= cap
<1>. DEFINE B == WindowSamples(file, cap)
<1>1. IsFiniteSet(B) /\ \A r \in B : r.length \in Nat /\ r.length > 0
  BY WindowReadsAre
<1>2. file.left \in Kinds4 /\ file.packLeft \in Kinds4
  BY DEF SampleFiles
<1>3. ASSUME NEW r \in B
      PROVE  PairNow(file, cap)[r] \in Nat /\ PairAfter(file, cap)[r] \in Nat /\ PairPack(file, cap)[r] \in Nat
  <2>1. IsFiniteSet(Cuts(r)) /\ \A c \in Cuts(r) : c.length \in Nat
    BY <1>1, CutsAre
  <2>2. \A c \in Cuts(r) : CutNow(file, r)[c] \in Nat /\ CutAfter(file, r)[c] \in Nat
    BY <1>2, <2>1, CostsAre DEF CutNow, CutAfter
  <2>3. Weight(CutNow(file, r), Cuts(r)) \in Nat /\ Weight(CutAfter(file, r), Cuts(r)) \in Nat
    BY <2>1, <2>2, WeightStep
  <2>4. PackCost(r.length, Compressed(r.length, file.packLeft)) \in Nat
    BY <1>1, <1>2, CostsAre
  <2>. QED BY <2>3, <2>4 DEF PairNow, PairAfter, PairPack
<1>4. /\ Weight(PairNow(file, cap), B) \in Nat /\ Weight(PairAfter(file, cap), B) \in Nat
      /\ Weight(PairPack(file, cap), B) \in Nat
  BY <1>1, <1>3, WeightStep
<1>5. Weight(Lengths3(B), B) \in Nat /\ Weight(Lengths3(B), B) <= cap
  BY SampledBounds
<1>6. EstimatePair(file, cap) = Scaled(file, Weight(Lengths3(B), B), Weight(PairNow(file, cap), B),
                                       Weight(PairAfter(file, cap), B), Weight(PairPack(file, cap), B))
  BY PairIs
<1>. DEFINE s == Weight(Lengths3(B), B)
            x == Weight(PairNow(file, cap), B)
            y == Weight(PairAfter(file, cap), B)
            z == Weight(PairPack(file, cap), B)
<1>7. s \in Nat /\ s <= cap /\ x \in Nat /\ y \in Nat /\ z \in Nat /\ EstimatePair(file, cap) = Scaled(file, s, x, y, z)
  BY <1>4, <1>5, <1>6
<1>. HIDE DEF B, s, x, y, z
<1>8. Scaled(file, s, x, y, z) \in FileResults /\ Scaled(file, s, x, y, z).sampled = s
  <2>1. s \in Nat /\ x \in Nat /\ y \in Nat /\ z \in Nat
    BY <1>7
  <2>2. \A a, b, c, d \in Nat : Scaled(file, a, b, c, d) \in FileResults
    BY ScaledIs, Zenon
  <2>3. \A a, b, c, d \in Nat : Scaled(file, a, b, c, d).sampled = a
    BY ScaledIs
  <2>. QED BY <2>1, <2>2, <2>3, Zenon
<1>. QED BY <1>7, <1>8

SampleFields  == {"task", "budget", "results", "threads", "taken", "cancelled", "ended", "rewrites", "totals"}
SampleThreads == [Threads -> [at : {"idle", "sample", "charge"}, file : Nat, left : Nat]]
SampleTotals  == [files : Nat, skipped : Nat, unsampled : Int, inspected : Nat, sampled : Nat,
                  bytes : Nat, now : Nat, native : Nat, pack : Nat]

SampleTypes ==
    /\ DOMAIN sampling = SampleFields
    /\ sampling.task \in SampleTasks /\ sampling.budget \in Nat
    /\ DOMAIN sampling.results \subseteq sampling.taken /\ sampling.taken \subseteq Sorted(sampling.task)
    /\ ~Game => /\ sampling.taken = DOMAIN sampling.results
                /\ \A t \in Threads : sampling.threads[t].at = "idle"
    /\ \A f \in DOMAIN sampling.results : sampling.results[f] \in FileResults
    /\ sampling.threads \in SampleThreads
    /\ sampling.cancelled \in BOOLEAN /\ sampling.ended \in BOOLEAN /\ sampling.totals \in SampleTotals

\* Each busy thread has a file of its own, which has a result only once it was sampled.
ThreadsOwn ==
    /\ \A t \in Threads :
          /\ sampling.threads[t].at = "sample" =>
                sampling.threads[t].file \in sampling.taken \ DOMAIN sampling.results
          /\ sampling.threads[t].at = "charge" => sampling.threads[t].file \in DOMAIN sampling.results
    /\ \A t, u \in Threads :
          sampling.threads[t].at # "idle" /\ sampling.threads[u].at # "idle"
             /\ sampling.threads[t].file = sampling.threads[u].file => t = u

\* What the budget was charged for: all results but those a thread still holds.
ReadOf      == [f \in DOMAIN sampling.results |-> sampling.results[f].sampled]
Holding     == {t \in Threads : sampling.threads[t].at = "charge"}
Held        == {sampling.threads[t].file : t \in Holding}
BusyThreads == {t \in Threads : sampling.threads[t].at # "idle"}
Charged     == Weight(ReadOf, DOMAIN sampling.results \ Held)

\* A thread that read a budget above zero may still exceed it by one file.
Spending ==
    /\ \A f \in DOMAIN sampling.results : sampling.results[f].sampled <= MostSampled
    /\ sampling.budget = Minus(sampling.task.budget, Charged)
    /\ Charged + Cardinality(BusyThreads) * MostSampled
          < sampling.task.budget + Cardinality(Threads) * MostSampled

Counting ==
    /\ sampling.totals.native <= sampling.totals.now /\ sampling.totals.pack <= sampling.totals.now
    /\ Game => /\ ~sampling.ended => sampling.totals = NoTotals
               /\ sampling.ended =>
                    sampling.totals.files + sampling.totals.skipped = Cardinality(Sorted(sampling.task))
    /\ ~Game => /\ sampling.totals.sampled + sampling.budget = sampling.task.budget
                /\ sampling.totals.files + sampling.totals.skipped = sampling.totals.inspected
                /\ sampling.totals.inspected + sampling.totals.unsampled = Cardinality(Sorted(sampling.task))
                /\ sampling.totals.inspected <= Cardinality(sampling.taken)

SampleInv ==
    /\ SampleTypes /\ Counting
    /\ Game => ThreadsOwn /\ Spending

LEMMA TasksAre ==
  ASSUME NEW task \in SampleTasks
  PROVE  /\ task.kind \in {"game", "preview"} /\ task.files \in Seq(SampleFiles) /\ task.budget \in Nat
         /\ IsFiniteSet(Sorted(task)) /\ Cardinality(Sorted(task)) \in Nat /\ Sorted(task) \subseteq Nat
         /\ \A f \in Sorted(task) : task.files[f] \in SampleFiles
<1>1. task.kind \in {"game", "preview"} /\ task.files \in Seq(SampleFiles) /\ task.budget \in Nat
  BY SamplingAssumption
<1>2. Sorted(task) = 1 .. Len(task.files) /\ Len(task.files) \in Nat
  BY <1>1 DEF Sorted
<1>3. IsFiniteSet(Sorted(task)) /\ Cardinality(Sorted(task)) \in Nat
  <2>1. 1 \in Int /\ Len(task.files) \in Int
    BY <1>2
  <2>2. IsFiniteSet(1 .. Len(task.files))
    BY <2>1, FS_Interval
  <2>. QED BY <1>2, <2>2, FS_CardinalityType
<1>4. \A f \in Sorted(task) : task.files[f] \in SampleFiles
  BY <1>1 DEF Sorted
<1>. QED BY <1>1, <1>2, <1>3, <1>4

LEMMA NoTotalsAre == NoTotals \in SampleTotals
BY DEF NoTotals, SampleTotals

LEMMA MostSampledIs == MostSampled \in Nat /\ MostSampled > 0 /\ Cardinality(Threads) \in Nat
                       /\ Cardinality(Threads) > 0 /\ IsFiniteSet(Threads)
<1>1. FileBlocks.plain \in Nat \ {0} /\ Block \in Nat \ {0} /\ IsFiniteSet(Threads) /\ Threads # {}
  BY SamplingAssumption
<1>2. MostSampled \in Nat /\ MostSampled > 0
  BY <1>1 DEF MostSampled
<1>3. Cardinality(Threads) \in Nat /\ Cardinality(Threads) # 0
  BY <1>1, FS_CardinalityType, FS_EmptySet
<1>. QED BY <1>1, <1>2, <1>3

LEMMA SampleInvInit == SamplingInit => SampleInv
<1>1. SUFFICES ASSUME NEW task \in SampleTasks,
                      sampling = [task |-> task, budget |-> task.budget, results |-> [f \in {} |-> 0],
                        threads |-> [t \in Threads |-> Idle], taken |-> {}, cancelled |-> FALSE,
                        ended |-> FALSE, rewrites |-> {}, totals |-> Begun(task)]
               PROVE  SampleInv
  BY DEF SamplingInit
<1>2. /\ sampling.task = task /\ sampling.budget = task.budget /\ DOMAIN sampling.results = {}
      /\ sampling.threads = [t \in Threads |-> Idle] /\ sampling.taken = {} /\ sampling.cancelled = FALSE
      /\ sampling.ended = FALSE /\ sampling.totals = Begun(task) /\ DOMAIN sampling = SampleFields
  BY <1>1 DEF SampleFields
<1>3. task.budget \in Nat /\ Cardinality(Sorted(task)) \in Nat /\ task.kind \in {"game", "preview"}
  BY TasksAre
<1>4. /\ Begun(task) \in SampleTotals /\ Begun(task).native = 0 /\ Begun(task).now = 0 /\ Begun(task).pack = 0
      /\ Begun(task).files = 0 /\ Begun(task).skipped = 0 /\ Begun(task).inspected = 0 /\ Begun(task).sampled = 0
      /\ task.kind # "game" => Begun(task).unsampled = Cardinality(Sorted(task))
      /\ task.kind = "game" => Begun(task) = NoTotals
  <2>1. CASE task.kind = "game"
    BY <2>1 DEF Begun, NoTotals, SampleTotals
  <2>2. CASE task.kind # "game"
    BY <1>3, <2>2 DEF Begun, NoTotals, SampleTotals
  <2>. QED BY <2>1, <2>2
<1>5. SampleTypes
  <2>1. sampling.threads \in SampleThreads
    BY <1>2 DEF Idle, SampleThreads
  <2>2. \A t \in Threads : sampling.threads[t].at = "idle"
    BY <1>2 DEF Idle
  <2>. QED BY <1>2, <1>3, <1>4, <2>1, <2>2 DEF SampleTypes, Game
<1>6. Cardinality({}) = 0 /\ IsFiniteSet({})
  BY FS_EmptySet
<1>7. Counting
  BY <1>2, <1>3, <1>4, <1>6 DEF Counting, Game
<1>8. ThreadsOwn
  BY <1>2 DEF ThreadsOwn, Idle
<1>9. Spending
  <2>1. BusyThreads = {}
    BY <1>2 DEF BusyThreads, Idle
  <2>2. DOMAIN sampling.results \ Held = {}
    BY <1>2
  <2>3. Charged = 0
    BY <1>6, <2>2, WeightStep DEF Charged
  <2>4. Minus(task.budget, 0) = task.budget
    BY <1>3, MinusIs
  <2>5. Cardinality(Threads) * MostSampled \in Nat /\ Cardinality(Threads) * MostSampled > 0
    BY MostSampledIs
  <2>6. 0 * MostSampled = 0
    BY MostSampledIs
  <2>. QED BY <1>2, <1>3, <1>6, <2>1, <2>3, <2>4, <2>5, <2>6 DEF Spending
<1>. QED BY <1>5, <1>7, <1>8, <1>9 DEF SampleInv

LEMMA WeightGains ==
  ASSUME NEW S, IsFiniteSet(S), NEW w, NEW v, NEW z, z \notin S,
         \A x \in S : w[x] \in Nat /\ v[x] = w[x], v[z] \in Nat
  PROVE  Weight(v, S \cup {z}) = v[z] + Weight(w, S)
<1>1. IsFiniteSet(S \cup {z}) /\ (S \cup {z}) \ {z} = S /\ z \in S \cup {z}
  BY FS_AddElement
<1>2. \A x \in S \cup {z} : v[x] \in Nat
  OBVIOUS
<1>3. Weight(v, S \cup {z}) = v[z] + Weight(v, (S \cup {z}) \ {z})
  BY <1>1, <1>2, WeightTakes
<1>4. Weight(w, S) = Weight(v, S)
  BY WeightSame
<1>. QED BY <1>1, <1>3, <1>4

LEMMA ExtrapolatedIs ==
  ASSUME NEW totals \in SampleTotals, NEW s \in Nat, NEW u \in Nat,
         totals.native <= totals.now, totals.pack <= totals.now
  PROVE  /\ Extrapolated(totals, s, u) \in SampleTotals
         /\ Extrapolated(totals, s, u).native <= Extrapolated(totals, s, u).now
         /\ Extrapolated(totals, s, u).pack <= Extrapolated(totals, s, u).now
         /\ Extrapolated(totals, s, u).files = totals.files
         /\ Extrapolated(totals, s, u).skipped = totals.skipped
         /\ Extrapolated(totals, s, u).unsampled = totals.unsampled
         /\ Extrapolated(totals, s, u).inspected = totals.inspected
         /\ Extrapolated(totals, s, u).sampled = totals.sampled
<1>. DEFINE more(n) == n + (n * u) \div s
<1>1. CASE u = 0 \/ s = 0 \/ sampling.cancelled
  BY <1>1 DEF Extrapolated
<1>2. CASE ~(u = 0 \/ s = 0 \/ sampling.cancelled)
  <2>1. s \in Nat \ {0}
    BY <1>2
  <2>2. ASSUME NEW n \in Nat, NEW m \in Nat, n <= m
        PROVE  more(n) \in Nat /\ more(m) \in Nat /\ more(n) <= more(m)
    <3>1. n * u \in Nat /\ m * u \in Nat /\ n * u <= m * u
      BY <2>2, Products
    <3>2. (n * u) \div s \in Nat /\ (m * u) \div s \in Nat /\ (n * u) \div s <= (m * u) \div s
      BY <2>1, <3>1, Quotient, QuotientGrows
    <3>. QED BY <2>2, <3>2
  <2>3. Extrapolated(totals, s, u) =
          [totals EXCEPT !.bytes = more(@), !.now = more(@), !.native = more(@), !.pack = more(@)]
    BY <1>2 DEF Extrapolated
  <2>. HIDE DEF more
  <2>4. totals.bytes \in Nat /\ totals.now \in Nat /\ totals.native \in Nat /\ totals.pack \in Nat
    BY DEF SampleTotals
  <2>5. /\ more(totals.bytes) \in Nat /\ more(totals.now) \in Nat /\ more(totals.native) \in Nat
        /\ more(totals.pack) \in Nat
        /\ more(totals.native) <= more(totals.now) /\ more(totals.pack) <= more(totals.now)
    <3>1. totals.bytes <= totals.bytes
      BY <2>4
    <3>. QED BY <2>2, <2>4, <3>1
  <2>. QED BY <2>3, <2>5 DEF SampleTotals
<1>. QED BY <1>1, <1>2

LEMMA SampleOfIs ==
  ASSUME NEW file \in SampleFiles
  PROVE  SampleOf(file) \in FileResults /\ SampleOf(file).sampled <= MostSampled
BY StoredIs, OpenFileResult, MostSampledIs DEF SampleOf

\* What holds of the threads, the files and the weights in a state of the game's estimate.
LEMMA GameFacts ==
  ASSUME SampleInv, Game
  PROVE  /\ IsFiniteSet(Sorted(sampling.task)) /\ IsFiniteSet(DOMAIN sampling.results)
         /\ Held \subseteq DOMAIN sampling.results
         /\ \A f \in DOMAIN sampling.results : ReadOf[f] \in Nat /\ ReadOf[f] <= MostSampled
         /\ Charged \in Nat /\ sampling.task.budget \in Nat
         /\ IsFiniteSet(BusyThreads) /\ Cardinality(BusyThreads) \in Nat
         /\ Cardinality(BusyThreads) <= Cardinality(Threads)
         /\ \A f \in Sorted(sampling.task) : Files[f] \in SampleFiles
<1>1. SampleTypes /\ ThreadsOwn /\ Spending
  BY DEF SampleInv
<1>2. /\ IsFiniteSet(Sorted(sampling.task)) /\ sampling.task.budget \in Nat
      /\ \A f \in Sorted(sampling.task) : Files[f] \in SampleFiles
  BY <1>1, TasksAre DEF SampleTypes, Files
<1>3. IsFiniteSet(DOMAIN sampling.results)
  <2>1. DOMAIN sampling.results \subseteq Sorted(sampling.task)
    BY <1>1 DEF SampleTypes
  <2>. QED BY <1>2, <2>1, FS_Subset
<1>4. Held \subseteq DOMAIN sampling.results
  BY <1>1 DEF ThreadsOwn, Held, Holding
<1>5. \A f \in DOMAIN sampling.results : ReadOf[f] \in Nat /\ ReadOf[f] <= MostSampled
  BY <1>1 DEF SampleTypes, Spending, ReadOf, FileResults
<1>6. Charged \in Nat
  <2>. DEFINE S == DOMAIN sampling.results \ Held
  <2>1. IsFiniteSet(S)
    BY <1>3, FS_Subset
  <2>2. \A f \in S : ReadOf[f] \in Nat
    BY <1>5
  <2>. HIDE DEF S
  <2>3. Weight(ReadOf, S) \in Nat
    BY <2>1, <2>2, WeightStep
  <2>. QED BY <2>3 DEF S, Charged
<1>7. /\ IsFiniteSet(BusyThreads) /\ Cardinality(BusyThreads) \in Nat
      /\ Cardinality(BusyThreads) <= Cardinality(Threads)
  <2>1. BusyThreads \subseteq Threads
    BY DEF BusyThreads
  <2>. QED BY <2>1, MostSampledIs, FS_Subset, FS_CardinalityType
<1>. QED BY <1>2, <1>3, <1>4, <1>5, <1>6, <1>7

\* A thread that finds the budget spent leaves the file unsampled.
LEMMA TakesNothing ==
  ASSUME SampleInv, Game, NEW f \in Sorted(sampling.task) \ sampling.taken, sampling.ended = FALSE,
         sampling' = [sampling EXCEPT !.taken = @ \cup {f}, !.results = Result(f, NoSample(Files[f]))]
  PROVE  SampleInv'
<1>. DEFINE D == DOMAIN sampling.results
<1>1. SampleTypes /\ ThreadsOwn /\ Spending /\ Counting
  BY DEF SampleInv
<1>2. /\ DOMAIN sampling' = SampleFields /\ sampling'.task = sampling.task /\ sampling'.budget = sampling.budget
      /\ sampling'.threads = sampling.threads /\ sampling'.cancelled = sampling.cancelled
      /\ sampling'.ended = sampling.ended /\ sampling'.totals = sampling.totals
      /\ sampling'.taken = sampling.taken \cup {f} /\ sampling'.results = Result(f, NoSample(Files[f]))
  BY <1>1 DEF SampleTypes, SampleFields
<1>3. Files[f] \in SampleFiles
  BY GameFacts
<1>4. NoSample(Files[f]) \in FileResults /\ NoSample(Files[f]).sampled = 0
  BY <1>3, StoredIs
<1>5. f \notin D /\ DOMAIN sampling'.results = D \cup {f} /\ sampling'.results[f] = NoSample(Files[f])
      /\ \A g \in D : sampling'.results[g] = sampling.results[g]
  BY <1>1, <1>2 DEF SampleTypes, Result
<1>6. SampleTypes'
  BY <1>1, <1>2, <1>4, <1>5 DEF SampleTypes, Game
<1>7. ThreadsOwn'
  BY <1>1, <1>2, <1>5 DEF ThreadsOwn
<1>8. Held' = Held /\ BusyThreads' = BusyThreads
  BY <1>2 DEF Held, Holding, BusyThreads
<1>9. Charged' = Charged
  <2>. DEFINE S == D \ Held
  <2>1. IsFiniteSet(S) /\ f \notin S
    <3>1. IsFiniteSet(D)
      BY GameFacts
    <3>. QED BY <1>5, <3>1, FS_Subset
  <2>2. \A x \in S : ReadOf[x] \in Nat /\ ReadOf'[x] = ReadOf[x]
    BY <1>5, GameFacts DEF ReadOf
  <2>3. ReadOf'[f] = 0
    BY <1>4, <1>5 DEF ReadOf
  <2>4. (DOMAIN sampling'.results) \ Held' = S \cup {f}
    BY <1>5, <1>8, GameFacts
  <2>5. Charged' = Weight(ReadOf', S \cup {f}) /\ Charged = Weight(ReadOf, S) /\ Charged \in Nat
    BY <2>4, GameFacts DEF Charged
  <2>. DEFINE v == ReadOf'
              w == ReadOf
  <2>6. IsFiniteSet(S) /\ f \notin S /\ (\A x \in S : w[x] \in Nat /\ v[x] = w[x]) /\ v[f] \in Nat
    BY <2>1, <2>2, <2>3
  <2>. HIDE DEF S, v, w
  <2>7. Weight(v, S \cup {f}) = v[f] + Weight(w, S)
    BY <2>6, WeightGains
  <2>8. Weight(ReadOf', S \cup {f}) = ReadOf'[f] + Weight(ReadOf, S)
    BY <2>7 DEF v, w
  <2>. QED BY <2>3, <2>5, <2>8
<1>10. Spending'
  <2>1. \A g \in DOMAIN sampling'.results : sampling'.results[g].sampled <= MostSampled
    BY <1>1, <1>4, <1>5, MostSampledIs DEF Spending
  <2>. QED BY <1>1, <1>2, <1>8, <1>9, <2>1 DEF Spending
<1>11. Counting'
  BY <1>1, <1>2 DEF Counting, Game
<1>. QED BY <1>6, <1>7, <1>10, <1>11 DEF SampleInv

\* A thread that finds budget left is one more that may exceed it.
LEMMA TakesOne ==
  ASSUME SampleInv, Game, NEW t \in Threads, sampling.threads[t].at = "idle", sampling.ended = FALSE,
         NEW f \in Sorted(sampling.task) \ sampling.taken, sampling.budget # 0,
         sampling' = [sampling EXCEPT !.taken = @ \cup {f},
                        !.threads[t] = [at |-> "sample", file |-> f, left |-> sampling.budget]]
  PROVE  SampleInv'
<1>. DEFINE D == DOMAIN sampling.results
            new == [at |-> "sample", file |-> f, left |-> sampling.budget]
<1>1. SampleTypes /\ ThreadsOwn /\ Spending /\ Counting
  BY DEF SampleInv
<1>2. /\ DOMAIN sampling' = SampleFields /\ sampling'.task = sampling.task /\ sampling'.budget = sampling.budget
      /\ sampling'.threads = [sampling.threads EXCEPT ![t] = new] /\ sampling'.cancelled = sampling.cancelled
      /\ sampling'.ended = sampling.ended /\ sampling'.totals = sampling.totals
      /\ sampling'.taken = sampling.taken \cup {f} /\ sampling'.results = sampling.results
  BY <1>1 DEF SampleTypes, SampleFields
<1>3. f \in Nat /\ new \in [at : {"idle", "sample", "charge"}, file : Nat, left : Nat]
  BY <1>1, TasksAre DEF SampleTypes
<1>4. /\ sampling'.threads \in SampleThreads /\ sampling'.threads[t] = new
      /\ \A u \in Threads \ {t} : sampling'.threads[u] = sampling.threads[u]
  BY <1>1, <1>2, <1>3 DEF SampleTypes, SampleThreads
<1>5. new.at = "sample" /\ new.file = f
  OBVIOUS
<1>. HIDE DEF new
<1>6. SampleTypes'
  BY <1>1, <1>2, <1>4 DEF SampleTypes, Game
<1>7. ThreadsOwn'
  <2>1. \A u \in Threads : sampling.threads[u].at # "idle" => sampling.threads[u].file \in sampling.taken
    BY <1>1 DEF ThreadsOwn, SampleTypes, SampleThreads
  <2>2. f \notin D
    BY <1>1 DEF SampleTypes
  <2>3. ASSUME NEW u \in Threads
        PROVE  /\ sampling'.threads[u].at = "sample" =>
                    sampling'.threads[u].file \in sampling'.taken \ DOMAIN sampling'.results
               /\ sampling'.threads[u].at = "charge" => sampling'.threads[u].file \in DOMAIN sampling'.results
    BY <1>1, <1>2, <1>4, <1>5, <2>2 DEF ThreadsOwn
  <2>4. ASSUME NEW u \in Threads, NEW w \in Threads,
               sampling'.threads[u].at # "idle", sampling'.threads[w].at # "idle",
               sampling'.threads[u].file = sampling'.threads[w].file
        PROVE  u = w
    BY <1>1, <1>4, <1>5, <2>1, <2>4 DEF ThreadsOwn
  <2>. QED BY <2>3, <2>4 DEF ThreadsOwn
<1>8. Held' = Held
  <2>1. Holding' = Holding /\ t \notin Holding
    BY <1>4, <1>5 DEF Holding
  <2>. QED BY <1>4, <2>1 DEF Held, Holding
<1>9. ReadOf' = ReadOf /\ Charged' = Charged
  BY <1>2, <1>8 DEF ReadOf, Charged
<1>10. Spending'
  <2>1. Charged < sampling.task.budget
    BY <1>1, GameFacts, MinusIs DEF Spending
  <2>2. Cardinality(BusyThreads') \in Nat /\ Cardinality(BusyThreads') <= Cardinality(Threads)
    <3>1. BusyThreads' \subseteq Threads
      BY DEF BusyThreads
    <3>. QED BY <3>1, MostSampledIs, FS_Subset, FS_CardinalityType
  <2>3. Cardinality(BusyThreads') * MostSampled \in Nat
        /\ Cardinality(BusyThreads') * MostSampled <= Cardinality(Threads) * MostSampled
        /\ Cardinality(Threads) * MostSampled \in Nat
    BY <2>2, MostSampledIs, Products
  <2>4. Charged + Cardinality(BusyThreads') * MostSampled
           < sampling.task.budget + Cardinality(Threads) * MostSampled
    BY <2>1, <2>3, GameFacts
  <2>. QED BY <1>1, <1>2, <1>9, <2>4 DEF Spending
<1>11. Counting'
  BY <1>1, <1>2 DEF Counting, Game
<1>. QED BY <1>6, <1>7, <1>10, <1>11 DEF SampleInv

\* A thread that sampled its file holds the result until it charged it.
LEMMA SamplesKeep ==
  ASSUME SampleInv, Game, NEW t \in Threads, Samples(t)
  PROVE  SampleInv'
<1>. DEFINE D == DOMAIN sampling.results
            f == sampling.threads[t].file
            r == SampleOf(Files[f])
            new == [sampling.threads[t] EXCEPT !.at = "charge"]
<1>1. SampleTypes /\ ThreadsOwn /\ Spending /\ Counting
  BY DEF SampleInv
<1>2. sampling.threads[t].at = "sample" /\ f \in sampling.taken \ D /\ f \in Sorted(sampling.task)
  BY <1>1 DEF Samples, ThreadsOwn, SampleTypes
<1>3. /\ DOMAIN sampling' = SampleFields /\ sampling'.task = sampling.task /\ sampling'.budget = sampling.budget
      /\ sampling'.threads = [sampling.threads EXCEPT ![t] = new] /\ sampling'.cancelled = sampling.cancelled
      /\ sampling'.ended = sampling.ended /\ sampling'.totals = sampling.totals
      /\ sampling'.taken = sampling.taken /\ sampling'.results = Result(f, r)
  BY <1>1 DEF SampleTypes, SampleFields, Samples
<1>4. Files[f] \in SampleFiles
  BY <1>2, GameFacts
<1>5. r \in FileResults /\ r.sampled <= MostSampled
  BY <1>4, SampleOfIs
<1>6. /\ new \in [at : {"idle", "sample", "charge"}, file : Nat, left : Nat]
      /\ new.at = "charge" /\ new.file = f
  BY <1>1 DEF SampleTypes, SampleThreads
<1>. HIDE DEF new, r
<1>7. /\ DOMAIN sampling'.results = D \cup {f} /\ sampling'.results[f] = r
      /\ \A g \in D : sampling'.results[g] = sampling.results[g]
  BY <1>2, <1>3 DEF Result
<1>8. /\ sampling'.threads \in SampleThreads /\ sampling'.threads[t] = new
      /\ \A u \in Threads \ {t} : sampling'.threads[u] = sampling.threads[u]
  BY <1>1, <1>3, <1>6 DEF SampleTypes, SampleThreads
<1>. HIDE DEF f
<1>9. SampleTypes'
  BY <1>1, <1>2, <1>3, <1>5, <1>7, <1>8 DEF SampleTypes, Game
<1>10. ThreadsOwn'
  <2>1. ASSUME NEW u \in Threads
        PROVE  /\ sampling'.threads[u].at = "sample" =>
                    sampling'.threads[u].file \in sampling'.taken \ DOMAIN sampling'.results
               /\ sampling'.threads[u].at = "charge" => sampling'.threads[u].file \in DOMAIN sampling'.results
    <3>1. CASE u = t
      BY <1>6, <1>7, <1>8, <3>1
    <3>2. CASE u # t
      <4>1. sampling'.threads[u] = sampling.threads[u]
        BY <1>8, <3>2
      <4>2. sampling.threads[u].at # "idle" => sampling.threads[u].file # f
        BY <1>1, <1>2, <3>2 DEF ThreadsOwn, f
      <4>. QED BY <1>1, <1>3, <1>7, <4>1, <4>2 DEF ThreadsOwn
    <3>. QED BY <3>1, <3>2
  <2>2. ASSUME NEW u \in Threads, NEW w \in Threads,
               sampling'.threads[u].at # "idle", sampling'.threads[w].at # "idle",
               sampling'.threads[u].file = sampling'.threads[w].file
        PROVE  u = w
    <3>1. \A x \in Threads : /\ sampling'.threads[x].file = sampling.threads[x].file
                             /\ sampling'.threads[x].at # "idle" => sampling.threads[x].at # "idle"
      BY <1>2, <1>6, <1>8 DEF f
    <3>. QED BY <1>1, <2>2, <3>1 DEF ThreadsOwn
  <2>. QED BY <2>1, <2>2 DEF ThreadsOwn
<1>11. Held' = Held \cup {f} /\ BusyThreads' = BusyThreads
  <2>1. Holding' = Holding \cup {t}
    BY <1>6, <1>8 DEF Holding
  <2>2. \A u \in Threads : sampling'.threads[u].file = sampling.threads[u].file
    BY <1>6, <1>8 DEF f
  <2>3. Held' = {sampling'.threads[u].file : u \in Holding'} /\ Held = {sampling.threads[u].file : u \in Holding}
        /\ Holding \subseteq Threads /\ Holding' \subseteq Threads
    BY DEF Held, Holding
  <2>4. Held' = Held \cup {f}
    BY <2>1, <2>2, <2>3 DEF f
  <2>5. BusyThreads' = BusyThreads
    BY <1>2, <1>6, <1>8 DEF BusyThreads
  <2>. QED BY <2>4, <2>5
<1>12. Charged' = Charged
  <2>. DEFINE S == D \ Held
              v == ReadOf'
              w == ReadOf
  <2>1. IsFiniteSet(S)
    <3>1. IsFiniteSet(D)
      BY GameFacts
    <3>. QED BY <3>1, FS_Subset
  <2>2. \A x \in S : w[x] \in Nat /\ w[x] = v[x]
    BY <1>7, GameFacts DEF ReadOf
  <2>3. (DOMAIN sampling'.results) \ Held' = S
    BY <1>2, <1>7, <1>11
  <2>4. Charged' = Weight(v, S) /\ Charged = Weight(w, S)
    BY <2>3 DEF Charged
  <2>. HIDE DEF S, v, w
  <2>5. Weight(w, S) = Weight(v, S)
    BY <2>1, <2>2, WeightSame
  <2>. QED BY <2>4, <2>5
<1>13. Spending'
  <2>1. \A g \in DOMAIN sampling'.results : sampling'.results[g].sampled <= MostSampled
    BY <1>1, <1>5, <1>7 DEF Spending
  <2>. QED BY <1>1, <1>3, <1>11, <1>12, <2>1 DEF Spending
<1>14. Counting'
  BY <1>1, <1>3 DEF Counting, Game
<1>. QED BY <1>9, <1>10, <1>13, <1>14 DEF SampleInv

\* What a thread charges leaves the set of what threads hold.
LEMMA ChargesKeep ==
  ASSUME SampleInv, Game, NEW t \in Threads, Charges(t)
  PROVE  SampleInv'
<1>. DEFINE D == DOMAIN sampling.results
            f == sampling.threads[t].file
            s == sampling.results[f].sampled
<1>1. SampleTypes /\ ThreadsOwn /\ Spending /\ Counting
  BY DEF SampleInv
<1>2. sampling.threads[t].at = "charge" /\ f \in D
  BY <1>1 DEF Charges, ThreadsOwn
<1>3. /\ DOMAIN sampling' = SampleFields /\ sampling'.task = sampling.task
      /\ sampling'.budget = Spent(sampling.budget, s)
      /\ sampling'.threads = [sampling.threads EXCEPT ![t] = Idle] /\ sampling'.cancelled = sampling.cancelled
      /\ sampling'.ended = sampling.ended /\ sampling'.totals = sampling.totals
      /\ sampling'.taken = sampling.taken /\ sampling'.results = sampling.results
  BY <1>1 DEF SampleTypes, SampleFields, Charges
<1>4. s \in Nat /\ s <= MostSampled /\ ReadOf[f] = s
  BY <1>1, <1>2 DEF SampleTypes, FileResults, Spending, ReadOf
<1>5. Idle \in [at : {"idle", "sample", "charge"}, file : Nat, left : Nat] /\ Idle.at = "idle"
  BY DEF Idle
<1>6. /\ sampling'.threads \in SampleThreads /\ sampling'.threads[t] = Idle
      /\ \A u \in Threads \ {t} : sampling'.threads[u] = sampling.threads[u]
  BY <1>1, <1>3, <1>5 DEF SampleTypes, SampleThreads
<1>. HIDE DEF s, f
<1>7. sampling'.budget = Minus(sampling.budget, s) /\ sampling.budget \in Nat /\ sampling'.budget \in Nat
  BY <1>1, <1>3, <1>4, MinusIs DEF Spent, SampleTypes
<1>8. SampleTypes'
  BY <1>1, <1>3, <1>6, <1>7 DEF SampleTypes, Game
<1>9. ThreadsOwn'
  <2>1. \A u \in Threads : sampling'.threads[u].at # "idle" =>
            u # t /\ sampling'.threads[u] = sampling.threads[u]
    BY <1>5, <1>6
  <2>2. ASSUME NEW u \in Threads
        PROVE  /\ sampling'.threads[u].at = "sample" =>
                    sampling'.threads[u].file \in sampling'.taken \ DOMAIN sampling'.results
               /\ sampling'.threads[u].at = "charge" => sampling'.threads[u].file \in DOMAIN sampling'.results
    BY <1>1, <1>3, <2>1 DEF ThreadsOwn
  <2>3. ASSUME NEW u \in Threads, NEW w \in Threads,
               sampling'.threads[u].at # "idle", sampling'.threads[w].at # "idle",
               sampling'.threads[u].file = sampling'.threads[w].file
        PROVE  u = w
    BY <1>1, <2>1, <2>3 DEF ThreadsOwn
  <2>. QED BY <2>2, <2>3 DEF ThreadsOwn
<1>10. Held' = Held \ {f} /\ f \in Held
  <2>1. Holding' = Holding \ {t} /\ t \in Holding
    BY <1>2, <1>5, <1>6 DEF Holding
  <2>2. \A u \in Holding' : sampling'.threads[u].file = sampling.threads[u].file
    BY <1>6, <2>1 DEF Holding
  <2>3. \A u \in Holding : sampling.threads[u].file = f => u = t
    BY <1>1, <1>2 DEF Holding, ThreadsOwn, f
  <2>4. Held' = {sampling'.threads[u].file : u \in Holding'} /\ Held = {sampling.threads[u].file : u \in Holding}
    BY DEF Held
  <2>5. Held' = {sampling.threads[u].file : u \in Holding \ {t}}
    BY <2>1, <2>2, <2>4
  <2>. QED BY <2>1, <2>3, <2>4, <2>5 DEF f
<1>11. Charged' = Charged + s
  <2>. DEFINE S == D \ Held
              w == ReadOf
  <2>1. IsFiniteSet(S) /\ f \notin S
    <3>1. IsFiniteSet(D)
      BY GameFacts
    <3>. QED BY <1>10, <3>1, FS_Subset
  <2>2. (\A x \in S : w[x] \in Nat /\ w[x] = w[x]) /\ w[f] \in Nat /\ w[f] = s
    BY <1>2, <1>4, GameFacts
  <2>3. (DOMAIN sampling'.results) \ Held' = S \cup {f}
    BY <1>2, <1>3, <1>10
  <2>4. ReadOf' = ReadOf
    BY <1>3 DEF ReadOf
  <2>5. Charged' = Weight(w, S \cup {f}) /\ Charged = Weight(w, S) /\ Charged \in Nat
    BY <2>3, <2>4, GameFacts DEF Charged
  <2>. HIDE DEF S, w
  <2>6. Weight(w, S \cup {f}) = w[f] + Weight(w, S)
    BY <2>1, <2>2, WeightGains
  <2>. QED BY <1>4, <2>2, <2>5, <2>6
<1>12. /\ Cardinality(BusyThreads') \in Nat
       /\ Cardinality(BusyThreads) = Cardinality(BusyThreads') + 1
  <2>1. BusyThreads' = BusyThreads \ {t} /\ t \in BusyThreads
    BY <1>2, <1>5, <1>6 DEF BusyThreads
  <2>2. IsFiniteSet(BusyThreads)
    BY GameFacts
  <2>3. IsFiniteSet(BusyThreads \ {t}) /\ Cardinality(BusyThreads \ {t}) = Cardinality(BusyThreads) - 1
    BY <2>1, <2>2, FS_RemoveElement
  <2>4. Cardinality(BusyThreads) \in Nat /\ Cardinality(BusyThreads \ {t}) \in Nat
    BY <2>2, <2>3, FS_CardinalityType
  <2>. QED BY <2>1, <2>3, <2>4
<1>13. Spending'
  <2>. DEFINE b == Cardinality(BusyThreads')
              B == sampling.task.budget
              T == Cardinality(Threads)
  <2>1. b \in Nat /\ B \in Nat /\ Charged \in Nat /\ T \in Nat
    BY <1>12, GameFacts, MostSampledIs
  <2>2. (b + 1) * MostSampled = b * MostSampled + MostSampled /\ b * MostSampled \in Nat /\ MostSampled \in Nat
        /\ T * MostSampled \in Nat
    BY <2>1, MostSampledIs
  <2>3. Charged + (b + 1) * MostSampled < B + T * MostSampled
    BY <1>1, <1>12 DEF Spending
  <2>4. Charged + s + b * MostSampled < B + T * MostSampled
    BY <1>4, <2>1, <2>2, <2>3
  <2>5. Minus(Minus(B, Charged), s) = Minus(B, Charged + s)
    BY <1>4, <2>1 DEF Minus, Most2
  <2>6. sampling'.budget = Minus(B, Charged')
    BY <1>1, <1>7, <1>11, <2>5 DEF Spending
  <2>7. \A g \in DOMAIN sampling'.results : sampling'.results[g].sampled <= MostSampled
    BY <1>1, <1>3 DEF Spending
  <2>. QED BY <1>3, <1>11, <2>4, <2>6, <2>7 DEF Spending
<1>14. Counting'
  <2>1. sampling'.totals = sampling.totals /\ Game' /\ sampling'.ended = sampling.ended
    BY <1>3 DEF Game
  <2>. QED BY <1>1, <1>3, <2>1 DEF Counting
<1>. QED BY <1>8, <1>9, <1>13, <1>14 DEF SampleInv

LEMMA WorthwhileIs ==
  ASSUME NEW now \in Nat, NEW after \in Nat, Worthwhile(now, after)
  PROVE  after <= now
<1>1. Sector \in Nat \ {0}
  BY SamplingAssumption
<1>. QED BY <1>1, MinusIs DEF Worthwhile

\* The sums over the files, as weights.
OfFiles(field, S) == [f \in S |-> sampling.results[f][field]]
Summed(field, S)  == Weight(OfFiles(field, S), S)
Worths   == {f \in Sorted(sampling.task) : Worthwhile(sampling.results[f].now, sampling.results[f].native)}
SeenFiles     == {f \in Sorted(sampling.task) : sampling.results[f].sampled > 0}
UnseenFiles   == {f \in Sorted(sampling.task) : Unsampled(sampling.results[f])}
Summary  == [NoTotals EXCEPT !.files = Cardinality(Worths),
               !.skipped = Cardinality(Sorted(sampling.task) \ Worths), !.unsampled = Cardinality(UnseenFiles),
               !.inspected = Cardinality(SeenFiles), !.sampled = Summed("sampled", Sorted(sampling.task)),
               !.bytes = Summed("size", Worths), !.now = Summed("now", Worths),
               !.native = Summed("native", Worths)]

LEMMA SumsIs == Sums = Extrapolated(Summary, Summed("size", SeenFiles), Summed("size", UnseenFiles))
BY DEF Sums, Summary, Summed, OfFiles, Worths, SeenFiles, UnseenFiles, Total, MapThenSumSet, MapThenFoldSet, Weight,
       Tallies, Tallied, Picked

LEMMA SummedIs ==
  ASSUME NEW S, IsFiniteSet(S), \A f \in S : sampling.results[f] \in FileResults,
         NEW field \in {"size", "sampled", "now", "native", "pack"}
  PROVE  Summed(field, S) \in Nat
<1>. DEFINE w == OfFiles(field, S)
<1>1. \A f \in S : w[f] \in Nat
  BY DEF OfFiles, FileResults
<1>. HIDE DEF w
<1>2. Weight(w, S) \in Nat
  BY <1>1, WeightStep
<1>. QED BY <1>2 DEF w, Summed

LEMMA TotalsWith ==
  ASSUME NEW t \in SampleTotals, NEW v \in Nat, NEW i \in Int
  PROVE  /\ [t EXCEPT !.files = v] \in SampleTotals
         /\ [t EXCEPT !.skipped = v] \in SampleTotals
         /\ [t EXCEPT !.unsampled = i] \in SampleTotals
         /\ [t EXCEPT !.inspected = v] \in SampleTotals
         /\ [t EXCEPT !.sampled = v] \in SampleTotals
         /\ [t EXCEPT !.bytes = v] \in SampleTotals
         /\ [t EXCEPT !.now = v] \in SampleTotals
         /\ [t EXCEPT !.native = v] \in SampleTotals
         /\ [t EXCEPT !.pack = v] \in SampleTotals
<1>1. [t EXCEPT !.files = v] \in SampleTotals
  BY DEF SampleTotals
<1>2. [t EXCEPT !.skipped = v] \in SampleTotals
  BY DEF SampleTotals
<1>3. [t EXCEPT !.unsampled = i] \in SampleTotals
  BY DEF SampleTotals
<1>4. [t EXCEPT !.inspected = v] \in SampleTotals
  BY DEF SampleTotals
<1>5. [t EXCEPT !.sampled = v] \in SampleTotals
  BY DEF SampleTotals
<1>6. [t EXCEPT !.bytes = v] \in SampleTotals
  BY DEF SampleTotals
<1>7. [t EXCEPT !.now = v] \in SampleTotals
  BY DEF SampleTotals
<1>8. [t EXCEPT !.native = v] \in SampleTotals
  BY DEF SampleTotals
<1>9. [t EXCEPT !.pack = v] \in SampleTotals
  BY DEF SampleTotals
<1>. QED BY <1>1, <1>2, <1>3, <1>4, <1>5, <1>6, <1>7, <1>8, <1>9

LEMMA SummaryIs ==
  ASSUME SampleInv, Game, DOMAIN sampling.results = Sorted(sampling.task)
  PROVE  /\ Summary \in SampleTotals
         /\ Summary.native <= Summary.now /\ Summary.pack <= Summary.now
         /\ Summary.files + Summary.skipped = Cardinality(Sorted(sampling.task))
         /\ Summed("size", SeenFiles) \in Nat /\ Summed("size", UnseenFiles) \in Nat
<1>. DEFINE all == Sorted(sampling.task)
<1>1. IsFiniteSet(all) /\ \A f \in all : sampling.results[f] \in FileResults
  BY GameFacts DEF SampleInv, SampleTypes
<1>2. /\ IsFiniteSet(Worths) /\ IsFiniteSet(SeenFiles) /\ IsFiniteSet(UnseenFiles) /\ IsFiniteSet(all \ Worths)
      /\ Worths \subseteq all /\ SeenFiles \subseteq all /\ UnseenFiles \subseteq all
  <2>1. Worths \subseteq all /\ SeenFiles \subseteq all /\ UnseenFiles \subseteq all /\ all \ Worths \subseteq all
    BY DEF Worths, SeenFiles, UnseenFiles
  <2>. QED BY <1>1, <2>1, FS_Subset
<1>3. /\ Cardinality(Worths) \in Nat /\ Cardinality(SeenFiles) \in Nat /\ Cardinality(UnseenFiles) \in Nat
      /\ Cardinality(all \ Worths) \in Nat
  BY <1>2, FS_CardinalityType
<1>4. Cardinality(Worths) + Cardinality(all \ Worths) = Cardinality(all)
  <2>1. all \cap Worths = Worths
    BY <1>2
  <2>2. Cardinality(all \ Worths) = Cardinality(all) - Cardinality(all \cap Worths)
    BY <1>1, FS_Difference
  <2>3. Cardinality(all) \in Nat
    BY <1>1, FS_CardinalityType
  <2>. QED BY <1>3, <2>1, <2>2, <2>3
<1>5. /\ Summed("sampled", all) \in Nat /\ Summed("size", Worths) \in Nat
      /\ Summed("size", SeenFiles) \in Nat /\ Summed("size", UnseenFiles) \in Nat
  <2>1. \A S \in SUBSET all : \A f \in S : sampling.results[f] \in FileResults
    BY <1>1
  <2>. QED BY <1>1, <1>2, <2>1, SummedIs
<1>6. /\ Summed("native", Worths) \in Nat /\ Summed("now", Worths) \in Nat
      /\ Summed("native", Worths) <= Summed("now", Worths)
  <2>. DEFINE v == OfFiles("native", Worths)
              w == OfFiles("now", Worths)
  <2>1. \A f \in Worths : v[f] \in Nat /\ w[f] \in Nat /\ v[f] <= w[f]
    <3>1. TAKE f \in Worths
    <3>2. sampling.results[f].native \in Nat /\ sampling.results[f].now \in Nat
      BY <1>1, <1>2 DEF FileResults
    <3>3. sampling.results[f].native <= sampling.results[f].now
      BY <3>2, WorthwhileIs DEF Worths
    <3>. QED BY <3>2, <3>3 DEF OfFiles
  <2>. HIDE DEF v, w
  <2>2. Weight(v, Worths) \in Nat /\ Weight(w, Worths) \in Nat /\ Weight(v, Worths) <= Weight(w, Worths)
    BY <1>2, <2>1, WeightBelow
  <2>. QED BY <2>2 DEF v, w, Summed
<1>7. /\ Summary.files = Cardinality(Worths) /\ Summary.skipped = Cardinality(all \ Worths)
      /\ Summary.native = Summed("native", Worths) /\ Summary.now = Summed("now", Worths) /\ Summary.pack = 0
  BY DEF Summary, NoTotals
<1>8. Summary \in SampleTotals
  <2>. DEFINE a == Cardinality(Worths)
              b == Cardinality(all \ Worths)
              c == Cardinality(UnseenFiles)
              d == Cardinality(SeenFiles)
              e == Summed("sampled", all)
              g == Summed("size", Worths)
              h == Summed("now", Worths)
              k == Summed("native", Worths)
  <2>1. /\ a \in Nat /\ b \in Nat /\ c \in Nat /\ d \in Nat /\ e \in Nat /\ g \in Nat /\ h \in Nat
        /\ k \in Nat
    BY <1>3, <1>5, <1>6
  <2>2. Summary = [NoTotals EXCEPT !.files = a, !.skipped = b, !.unsampled = c, !.inspected = d,
                     !.sampled = e, !.bytes = g, !.now = h, !.native = k]
    BY DEF Summary
  <2>3. c \in Int
    BY <2>1
  <2>. HIDE DEF a, b, c, d, e, g, h, k
  <2>. DEFINE t1 == [NoTotals EXCEPT !.files = a]
              t2 == [t1 EXCEPT !.skipped = b]
              t3 == [t2 EXCEPT !.unsampled = c]
              t4 == [t3 EXCEPT !.inspected = d]
              t5 == [t4 EXCEPT !.sampled = e]
              t6 == [t5 EXCEPT !.bytes = g]
              t7 == [t6 EXCEPT !.now = h]
              t8 == [t7 EXCEPT !.native = k]
  <2>4. Summary = t8
    BY <2>2
  <2>5. t1 \in SampleTotals
    BY <2>1, <2>3, NoTotalsAre, TotalsWith
  <2>. HIDE DEF t1
  <2>6. t2 \in SampleTotals
    BY <2>1, <2>3, <2>5, TotalsWith
  <2>. HIDE DEF t2
  <2>7. t3 \in SampleTotals
    BY <2>1, <2>3, <2>6, TotalsWith
  <2>. HIDE DEF t3
  <2>8. t4 \in SampleTotals
    BY <2>1, <2>3, <2>7, TotalsWith
  <2>. HIDE DEF t4
  <2>9. t5 \in SampleTotals
    BY <2>1, <2>3, <2>8, TotalsWith
  <2>. HIDE DEF t5
  <2>10. t6 \in SampleTotals
    BY <2>1, <2>3, <2>9, TotalsWith
  <2>. HIDE DEF t6
  <2>11. t7 \in SampleTotals
    BY <2>1, <2>3, <2>10, TotalsWith
  <2>. HIDE DEF t7
  <2>12. t8 \in SampleTotals
    BY <2>1, <2>3, <2>11, TotalsWith
  <2>. HIDE DEF t8
  <2>. QED BY <2>4, <2>12
<1>. QED BY <1>4, <1>5, <1>6, <1>7, <1>8

\* A step that leaves the task, the files, the threads and the budget alone.
LEMMA CollectsKeep ==
  ASSUME SampleInv, Collects
  PROVE  SampleInv'
<1>1. SampleTypes /\ ThreadsOwn /\ Spending /\ Counting /\ Game
  BY DEF SampleInv, Collects
<1>2. /\ DOMAIN sampling' = SampleFields /\ sampling'.task = sampling.task /\ sampling'.budget = sampling.budget
      /\ sampling'.threads = sampling.threads /\ sampling'.cancelled = sampling.cancelled
      /\ sampling'.ended = TRUE /\ sampling'.totals = Sums
      /\ sampling'.taken = sampling.taken /\ sampling'.results = sampling.results
      /\ DOMAIN sampling.results = Sorted(sampling.task)
  BY <1>1 DEF SampleTypes, SampleFields, Collects
<1>3. /\ Sums \in SampleTotals /\ Sums.native <= Sums.now /\ Sums.pack <= Sums.now
      /\ Sums.files + Sums.skipped = Cardinality(Sorted(sampling.task))
  <2>. DEFINE a == Summed("size", SeenFiles)
              b == Summed("size", UnseenFiles)
  <2>1. /\ Summary \in SampleTotals /\ a \in Nat /\ b \in Nat
        /\ Summary.native <= Summary.now /\ Summary.pack <= Summary.now
        /\ Summary.files + Summary.skipped = Cardinality(Sorted(sampling.task))
    BY <1>1, <1>2, SummaryIs
  <2>2. Sums = Extrapolated(Summary, a, b)
    BY SumsIs
  <2>. HIDE DEF a, b
  <2>. QED BY <2>1, <2>2, ExtrapolatedIs
<1>4. SampleTypes'
  BY <1>1, <1>2, <1>3 DEF SampleTypes, Game
<1>5. ThreadsOwn'
  BY <1>1, <1>2 DEF ThreadsOwn
<1>6. Spending'
  <2>1. ReadOf' = ReadOf /\ Held' = Held /\ BusyThreads' = BusyThreads
    BY <1>2 DEF ReadOf, Held, Holding, BusyThreads
  <2>2. Charged' = Charged
    BY <1>2, <2>1 DEF Charged
  <2>. QED BY <1>1, <1>2, <2>1, <2>2 DEF Spending
<1>7. Counting'
  BY <1>1, <1>2, <1>3 DEF Counting, Game
<1>. QED BY <1>4, <1>5, <1>6, <1>7 DEF SampleInv

\* A step that changes nothing but whether the estimate was cancelled.
LEMMA CancelsKeep ==
  ASSUME SampleInv, Cancels
  PROVE  SampleInv'
<1>1. SampleTypes /\ Counting
  BY DEF SampleInv
<1>2. /\ DOMAIN sampling' = SampleFields /\ sampling'.task = sampling.task /\ sampling'.budget = sampling.budget
      /\ sampling'.threads = sampling.threads /\ sampling'.cancelled = TRUE
      /\ sampling'.ended = sampling.ended /\ sampling'.totals = sampling.totals
      /\ sampling'.taken = sampling.taken /\ sampling'.results = sampling.results
  BY <1>1 DEF SampleTypes, SampleFields, Cancels
<1>3. SampleTypes'
  BY <1>1, <1>2 DEF SampleTypes, Game
<1>4. Game' = Game
  BY <1>2 DEF Game
<1>5. ThreadsOwn => ThreadsOwn'
  BY <1>2 DEF ThreadsOwn
<1>6. Spending => Spending'
  <2>1. ReadOf' = ReadOf /\ Held' = Held /\ BusyThreads' = BusyThreads
    BY <1>2 DEF ReadOf, Held, Holding, BusyThreads
  <2>2. Charged' = Charged
    BY <1>2, <2>1 DEF Charged
  <2>. QED BY <1>2, <2>1, <2>2 DEF Spending
<1>7. Counting'
  <2>1. Counting' = Counting
    BY <1>2, <1>4 DEF Counting
  <2>. QED BY <1>1, <2>1
<1>. QED BY <1>3, <1>4, <1>5, <1>6, <1>7 DEF SampleInv

LEMMA CountsIs ==
  ASSUME NEW totals \in SampleTotals, totals.native <= totals.now, totals.pack <= totals.now,
         NEW r \in FileResults
  PROVE  /\ Counts(totals, r) \in SampleTotals
         /\ Counts(totals, r).native <= Counts(totals, r).now
         /\ Counts(totals, r).pack <= Counts(totals, r).now
         /\ Counts(totals, r).sampled = totals.sampled + r.sampled
         /\ Counts(totals, r).inspected = totals.inspected + 1
         /\ Counts(totals, r).unsampled = totals.unsampled - 1
         /\ Counts(totals, r).files + Counts(totals, r).skipped = totals.files + totals.skipped + 1
<1>. DEFINE native == Worthwhile(r.now, r.native)
            pack == Worthwhile(r.now, r.pack)
            a == IF native THEN r.native ELSE r.now
            b == IF pack THEN r.pack ELSE r.now
            seen == [totals EXCEPT !.sampled = @ + r.sampled, !.inspected = @ + 1, !.unsampled = @ - 1]
<1>1. /\ r.size \in Nat /\ r.sampled \in Nat /\ r.now \in Nat /\ r.native \in Nat /\ r.pack \in Nat
  BY DEF FileResults
<1>2. /\ totals.files \in Nat /\ totals.skipped \in Nat /\ totals.unsampled \in Int /\ totals.inspected \in Nat
      /\ totals.sampled \in Nat /\ totals.bytes \in Nat /\ totals.now \in Nat /\ totals.native \in Nat
      /\ totals.pack \in Nat
  BY DEF SampleTotals
<1>3. a \in Nat /\ a <= r.now /\ b \in Nat /\ b <= r.now
  BY <1>1, WorthwhileIs
<1>4. /\ seen.files = totals.files /\ seen.skipped = totals.skipped
      /\ seen.now = totals.now /\ seen.native = totals.native /\ seen.pack = totals.pack
      /\ seen.bytes = totals.bytes /\ seen.sampled = totals.sampled + r.sampled
      /\ seen.inspected = totals.inspected + 1 /\ seen.unsampled = totals.unsampled - 1
  BY <1>2 DEF SampleTotals
<1>5. seen \in SampleTotals
  <2>. DEFINE t1 == [totals EXCEPT !.sampled = @ + r.sampled]
              t2 == [t1 EXCEPT !.inspected = @ + 1]
  <2>1. t1 \in SampleTotals
    <3>1. totals.sampled + r.sampled \in Nat /\ 0 \in Int
      BY <1>1, <1>2
    <3>. QED BY <3>1, TotalsWith
  <2>2. t2 \in SampleTotals
    <3>1. t1.inspected + 1 \in Nat /\ 0 \in Int
      BY <2>1 DEF SampleTotals
    <3>. HIDE DEF t1
    <3>. QED BY <2>1, <3>1, TotalsWith
  <2>3. [t2 EXCEPT !.unsampled = @ - 1] \in SampleTotals
    <3>1. t2.unsampled - 1 \in Int /\ 0 \in Nat
      BY <2>2 DEF SampleTotals
    <3>. HIDE DEF t2
    <3>. QED BY <2>2, <3>1, TotalsWith
  <2>. QED BY <2>3
<1>6. Counts(totals, r) =
        IF ~(native \/ pack) THEN [seen EXCEPT !.skipped = @ + 1]
        ELSE [seen EXCEPT !.now = @ + r.now, !.bytes = @ + r.size, !.files = @ + 1,
                          !.native = @ + a, !.pack = @ + b]
  BY DEF Counts
<1>. HIDE DEF native, pack, a, b, seen
<1>7. CASE ~(native \/ pack)
  <2>1. Counts(totals, r) = [seen EXCEPT !.skipped = @ + 1]
    BY <1>6, <1>7
  <2>. QED BY <1>2, <1>4, <1>5, <2>1 DEF SampleTotals
<1>8. CASE native \/ pack
  <2>1. Counts(totals, r) = [seen EXCEPT !.now = @ + r.now, !.bytes = @ + r.size, !.files = @ + 1,
                                         !.native = @ + a, !.pack = @ + b]
    BY <1>6, <1>8
  <2>2. /\ Counts(totals, r).files = totals.files + 1 /\ Counts(totals, r).skipped = totals.skipped
        /\ Counts(totals, r).now = totals.now + r.now /\ Counts(totals, r).native = totals.native + a
        /\ Counts(totals, r).pack = totals.pack + b /\ Counts(totals, r).bytes = totals.bytes + r.size
        /\ Counts(totals, r).sampled = totals.sampled + r.sampled
        /\ Counts(totals, r).inspected = totals.inspected + 1
        /\ Counts(totals, r).unsampled = totals.unsampled - 1
    BY <1>4, <2>1 DEF SampleTotals
  <2>3. Counts(totals, r) \in SampleTotals
    <3>1. /\ seen.files + 1 \in Nat /\ seen.now + r.now \in Nat /\ seen.native + a \in Nat
          /\ seen.pack + b \in Nat /\ seen.bytes + r.size \in Nat
      BY <1>1, <1>2, <1>3, <1>4
    <3>. QED BY <1>5, <2>1, <3>1 DEF SampleTotals
  <2>4. Counts(totals, r).native <= Counts(totals, r).now /\ Counts(totals, r).pack <= Counts(totals, r).now
    <3>1. totals.native + a <= totals.now + r.now /\ totals.pack + b <= totals.now + r.now
      BY <1>1, <1>2, <1>3
    <3>. QED BY <2>2, <3>1
  <2>5. Counts(totals, r).files + Counts(totals, r).skipped = totals.files + totals.skipped + 1
    <3>1. totals.files + 1 + totals.skipped = totals.files + totals.skipped + 1
      BY <1>2
    <3>. QED BY <2>2, <3>1
  <2>. QED BY <2>2, <2>3, <2>4, <2>5
<1>. QED BY <1>7, <1>8

\* A file of the analysis that was not sampled: it has a result, nothing was spent.
LEMMA PreviewsPast ==
  ASSUME SampleInv, ~Game, NEW f \in Sorted(sampling.task) \ sampling.taken, NEW r \in FileResults,
         sampling' = [[sampling EXCEPT !.taken = @ \cup {f}] EXCEPT !.results = Result(f, r)]
  PROVE  SampleInv'
<1>1. SampleTypes /\ Counting
  BY DEF SampleInv
<1>2. /\ DOMAIN sampling' = SampleFields /\ sampling'.task = sampling.task /\ sampling'.budget = sampling.budget
      /\ sampling'.threads = sampling.threads /\ sampling'.cancelled = sampling.cancelled
      /\ sampling'.ended = sampling.ended /\ sampling'.totals = sampling.totals
      /\ sampling'.taken = sampling.taken \cup {f} /\ sampling'.results = Result(f, r)
  BY <1>1 DEF SampleTypes, SampleFields
<1>3. /\ DOMAIN sampling'.results = DOMAIN sampling.results \cup {f} /\ sampling'.results[f] = r
      /\ \A g \in DOMAIN sampling.results : g # f => sampling'.results[g] = sampling.results[g]
  BY <1>2 DEF Result
<1>4. ~Game'
  BY <1>2 DEF Game
<1>5. SampleTypes'
  BY <1>1, <1>2, <1>3, <1>4 DEF SampleTypes
<1>6. Cardinality(sampling'.taken) \in Nat /\ Cardinality(sampling.taken) <= Cardinality(sampling'.taken)
  <2>1. IsFiniteSet(sampling'.taken)
    <3>1. IsFiniteSet(Sorted(sampling.task)) /\ sampling'.taken \subseteq Sorted(sampling.task)
      BY <1>1, <1>2, TasksAre DEF SampleTypes
    <3>. QED BY <3>1, FS_Subset
  <2>. QED BY <1>2, <2>1, FS_Subset, FS_CardinalityType
<1>7. Counting'
  <2>1. Cardinality(sampling.taken) \in Nat
    <3>1. IsFiniteSet(Sorted(sampling.task)) /\ sampling.taken \subseteq Sorted(sampling.task)
      BY <1>1, TasksAre DEF SampleTypes
    <3>. QED BY <3>1, FS_Subset, FS_CardinalityType
  <2>2. sampling.totals.inspected \in Nat
    BY <1>1 DEF SampleTypes, SampleTotals
  <2>. QED BY <1>1, <1>2, <1>4, <1>6, <2>1, <2>2 DEF Counting
<1>. QED BY <1>4, <1>5, <1>7 DEF SampleInv

\* A file of the analysis that was sampled costs what was read, which the budget held.
LEMMA PreviewsOne ==
  ASSUME SampleInv, ~Game, NEW f \in Sorted(sampling.task) \ sampling.taken, NEW r \in FileResults,
         r.sampled <= sampling.budget,
         sampling' = [[sampling EXCEPT !.taken = @ \cup {f}] EXCEPT !.results = Result(f, r),
                        !.budget = Spent(@, r.sampled), !.totals = Counts(@, r)]
  PROVE  SampleInv'
<1>1. SampleTypes /\ Counting
  BY DEF SampleInv
<1>2. /\ DOMAIN sampling' = SampleFields /\ sampling'.task = sampling.task
      /\ sampling'.budget = Spent(sampling.budget, r.sampled)
      /\ sampling'.threads = sampling.threads /\ sampling'.cancelled = sampling.cancelled
      /\ sampling'.ended = sampling.ended /\ sampling'.totals = Counts(sampling.totals, r)
      /\ sampling'.taken = sampling.taken \cup {f} /\ sampling'.results = Result(f, r)
  BY <1>1 DEF SampleTypes, SampleFields
<1>3. /\ DOMAIN sampling'.results = DOMAIN sampling.results \cup {f} /\ sampling'.results[f] = r
      /\ \A g \in DOMAIN sampling.results : g # f => sampling'.results[g] = sampling.results[g]
  BY <1>2 DEF Result
<1>4. ~Game'
  BY <1>2 DEF Game
<1>5. sampling.budget \in Nat /\ sampling'.budget \in Nat /\ sampling'.budget + r.sampled = sampling.budget
  BY <1>1, <1>2, MinusIs DEF SampleTypes, Spent, FileResults
<1>. DEFINE t == sampling.totals
            c == Counts(sampling.totals, r)
<1>6. t \in SampleTotals /\ t.native <= t.now /\ t.pack <= t.now
  BY <1>1 DEF SampleTypes, Counting
<1>7. /\ c \in SampleTotals /\ c.native <= c.now /\ c.pack <= c.now
      /\ c.sampled = t.sampled + r.sampled /\ c.inspected = t.inspected + 1
      /\ c.unsampled = t.unsampled - 1 /\ c.files + c.skipped = t.files + t.skipped + 1
  BY <1>6, CountsIs
<1>8. sampling'.totals = c
  BY <1>2
<1>. HIDE DEF c
<1>9. SampleTypes'
  BY <1>1, <1>2, <1>3, <1>4, <1>5, <1>7, <1>8 DEF SampleTypes
<1>10. /\ Cardinality(sampling.taken) \in Nat
       /\ Cardinality(sampling'.taken) = Cardinality(sampling.taken) + 1
  <2>1. IsFiniteSet(Sorted(sampling.task)) /\ sampling.taken \subseteq Sorted(sampling.task)
    BY <1>1, TasksAre DEF SampleTypes
  <2>2. IsFiniteSet(sampling.taken) /\ f \notin sampling.taken
    BY <2>1, FS_Subset
  <2>3. Cardinality(sampling.taken \cup {f}) = Cardinality(sampling.taken) + 1
    BY <2>2, FS_AddElement
  <2>. QED BY <1>2, <2>2, <2>3, FS_CardinalityType
<1>11. Cardinality(Sorted(sampling.task)) \in Nat /\ sampling.task.budget \in Nat
  BY <1>1, TasksAre DEF SampleTypes
<1>12. /\ t.sampled \in Nat /\ t.inspected \in Nat /\ t.unsampled \in Int /\ t.files \in Nat /\ t.skipped \in Nat
       /\ c.sampled \in Nat /\ c.inspected \in Nat /\ c.unsampled \in Int
       /\ r.sampled \in Nat
  BY <1>6, <1>7 DEF SampleTotals, FileResults
<1>13. /\ t.sampled + sampling.budget = sampling.task.budget
       /\ t.files + t.skipped = t.inspected
       /\ t.inspected + t.unsampled = Cardinality(Sorted(sampling.task))
       /\ t.inspected <= Cardinality(sampling.taken)
  BY <1>1 DEF Counting
<1>14. /\ c.sampled + sampling'.budget = sampling.task.budget
       /\ c.files + c.skipped = c.inspected
       /\ c.inspected + c.unsampled = Cardinality(Sorted(sampling.task))
       /\ c.inspected <= Cardinality(sampling'.taken)
  BY <1>5, <1>7, <1>10, <1>11, <1>12, <1>13
<1>15. Counting'
  BY <1>2, <1>4, <1>7, <1>8, <1>14 DEF Counting
<1>. QED BY <1>4, <1>9, <1>15 DEF SampleInv

LEMMA PreviewsKeep ==
  ASSUME SampleInv, Previews
  PROVE  SampleInv'
<1>1. SampleTypes /\ ~Game
  BY Zenon DEF SampleInv, Previews
<1>2. PICK f \in Sorted(sampling.task) \ sampling.taken :
        LET file == Files[f]
            took == [sampling EXCEPT !.taken = @ \cup {f}]
        IN IF sampling.budget = 0 THEN sampling' = [took EXCEPT !.results = Result(f, NoSample(file))]
           ELSE IF file.fails THEN sampling' = [took EXCEPT !.results = Result(f, AsStored(file))]
           ELSE LET r == EstimatePair(file, Least2(sampling.budget, FileCap))
                IN sampling' = [took EXCEPT !.results = Result(f, r), !.budget = Spent(@, r.sampled),
                                            !.totals = Counts(@, r)]
  BY DEF Previews
<1>3. Files[f] \in SampleFiles
  BY <1>1, TasksAre DEF SampleTypes, Files
<1>4. NoSample(Files[f]) \in FileResults /\ AsStored(Files[f]) \in FileResults
  BY <1>3, StoredIs
<1>5. CASE sampling.budget = 0
  <2>1. sampling' = [[sampling EXCEPT !.taken = @ \cup {f}] EXCEPT !.results = Result(f, NoSample(Files[f]))]
    BY <1>2, <1>5
  <2>. QED BY <1>1, <1>4, <2>1, PreviewsPast
<1>6. CASE sampling.budget # 0 /\ Files[f].fails
  <2>1. sampling' = [[sampling EXCEPT !.taken = @ \cup {f}] EXCEPT !.results = Result(f, AsStored(Files[f]))]
    BY <1>2, <1>6
  <2>. QED BY <1>1, <1>4, <2>1, PreviewsPast
<1>7. CASE sampling.budget # 0 /\ ~Files[f].fails
  <2>. DEFINE cap == Least2(sampling.budget, FileCap)
              r == EstimatePair(Files[f], cap)
  <2>1. cap \in Nat \ {0} /\ cap <= sampling.budget
    <3>1. sampling.budget \in Nat \ {0} /\ FileCap \in Nat \ {0}
      BY <1>1, <1>7, SamplingAssumption DEF SampleTypes
    <3>. QED BY <3>1, LeastOf
  <2>2. r \in FileResults /\ r.sampled <= cap
    BY <1>3, <2>1, PairResult
  <2>3. r.sampled <= sampling.budget
    BY <1>1, <2>1, <2>2 DEF FileResults, SampleTypes
  <2>4. sampling' = [[sampling EXCEPT !.taken = @ \cup {f}] EXCEPT !.results = Result(f, r),
                       !.budget = Spent(@, r.sampled), !.totals = Counts(@, r)]
    BY <1>2, <1>7
  <2>. HIDE DEF r
  <2>. QED BY <1>1, <2>2, <2>3, <2>4, PreviewsOne
<1>. QED BY <1>5, <1>6, <1>7

\* What the analysis read and what it did not, as a set each.
WasRead   == {f \in sampling.taken : ~Files[f].fails /\ ~Unsampled(sampling.results[f])}
WasUnread == {f \in sampling.taken : Unsampled(sampling.results[f])}

LEMMA ConcludesAs ==
  ASSUME Concludes
  PROVE  sampling' = [sampling EXCEPT !.ended = TRUE,
           !.totals = Extrapolated(@, Summed("size", WasRead), Summed("size", WasUnread)),
           !.rewrites = WasUnread \cup
                          {f \in WasRead : Worthwhile(sampling.results[f].now, sampling.results[f].native)}]
BY DEF Concludes, Summed, OfFiles, WasRead, WasUnread, Total, MapThenSumSet, MapThenFoldSet, Weight, Tallies,
       Tallied, Picked

LEMMA ConcludesKeep ==
  ASSUME SampleInv, Concludes
  PROVE  SampleInv'
<1>1. SampleTypes /\ Counting /\ ~Game
  BY DEF SampleInv, Concludes
<1>. DEFINE a == Summed("size", WasRead)
            b == Summed("size", WasUnread)
            t == sampling.totals
            e == Extrapolated(t, a, b)
<1>2. a \in Nat /\ b \in Nat
  <2>1. IsFiniteSet(sampling.taken)
    <3>1. IsFiniteSet(Sorted(sampling.task)) /\ sampling.taken \subseteq Sorted(sampling.task)
      BY <1>1, TasksAre DEF SampleTypes
    <3>. QED BY <3>1, FS_Subset
  <2>2. WasRead \subseteq sampling.taken /\ WasUnread \subseteq sampling.taken
    BY DEF WasRead, WasUnread
  <2>3. IsFiniteSet(WasRead) /\ IsFiniteSet(WasUnread)
    BY <2>1, <2>2, FS_Subset
  <2>4. \A f \in sampling.taken : sampling.results[f] \in FileResults
    BY <1>1 DEF SampleTypes
  <2>. QED BY <2>2, <2>3, <2>4, SummedIs
<1>3. t \in SampleTotals /\ t.native <= t.now /\ t.pack <= t.now
  BY <1>1 DEF SampleTypes, Counting
<1>. HIDE DEF a, b, t
<1>4. /\ e \in SampleTotals /\ e.native <= e.now /\ e.pack <= e.now /\ e.files = t.files
      /\ e.skipped = t.skipped /\ e.unsampled = t.unsampled /\ e.inspected = t.inspected
      /\ e.sampled = t.sampled
  BY <1>2, <1>3, ExtrapolatedIs
<1>. HIDE DEF e
<1>5. /\ DOMAIN sampling' = SampleFields /\ sampling'.task = sampling.task /\ sampling'.budget = sampling.budget
      /\ sampling'.threads = sampling.threads /\ sampling'.cancelled = sampling.cancelled
      /\ sampling'.ended = TRUE /\ sampling'.totals = e
      /\ sampling'.taken = sampling.taken /\ sampling'.results = sampling.results
  BY <1>1, ConcludesAs DEF SampleTypes, SampleFields, a, b, t, e
<1>6. ~Game'
  BY <1>1, <1>5 DEF Game
<1>7. SampleTypes'
  BY <1>1, <1>4, <1>5, <1>6 DEF SampleTypes
<1>8. Counting'
  BY <1>1, <1>4, <1>5, <1>6 DEF Counting, t
<1>. QED BY <1>6, <1>7, <1>8 DEF SampleInv

LEMMA TakesKeep ==
  ASSUME SampleInv, NEW t \in Threads, Takes(t)
  PROVE  SampleInv'
<1>1. Game /\ sampling.threads[t].at = "idle" /\ sampling.ended = FALSE
  BY DEF Takes, SampleInv, SampleTypes
<1>2. PICK f \in Sorted(sampling.task) \ sampling.taken :
        IF sampling.cancelled \/ sampling.budget = 0
        THEN sampling' = [sampling EXCEPT !.taken = @ \cup {f}, !.results = Result(f, NoSample(Files[f]))]
        ELSE sampling' = [sampling EXCEPT !.taken = @ \cup {f},
                            !.threads[t] = [at |-> "sample", file |-> f, left |-> sampling.budget]]
  BY DEF Takes
<1>3. CASE sampling.cancelled \/ sampling.budget = 0
  BY <1>1, <1>2, <1>3, TakesNothing
<1>4. CASE ~(sampling.cancelled \/ sampling.budget = 0)
  BY <1>1, <1>2, <1>4, TakesOne
<1>. QED BY <1>3, <1>4

LEMMA SampleInvNext == SampleInv /\ [SamplingNext]_sampling => SampleInv'
<1>1. SUFFICES ASSUME SampleInv, [SamplingNext]_sampling PROVE SampleInv'
  OBVIOUS
<1>2. CASE UNCHANGED sampling
  BY <1>1, <1>2 DEF SampleInv, SampleTypes, ThreadsOwn, Spending, Counting, Game, Files, ReadOf, Holding, Held,
                    BusyThreads, Charged, Sorted
<1>3. ASSUME NEW t \in Threads, Takes(t) PROVE SampleInv'
  BY <1>1, <1>3, TakesKeep
<1>4. ASSUME NEW t \in Threads, Samples(t) \/ Charges(t) PROVE SampleInv'
  <2>1. Game
    BY <1>1, <1>4 DEF Samples, Charges, SampleInv, SampleTypes
  <2>. QED BY <1>1, <1>4, <2>1, SamplesKeep, ChargesKeep
<1>5. CASE Cancels
  BY <1>1, <1>5, CancelsKeep
<1>6. CASE Collects
  BY <1>1, <1>6, CollectsKeep
<1>7. CASE Previews
  BY <1>1, <1>7, PreviewsKeep
<1>8. CASE Concludes
  BY <1>1, <1>8, ConcludesKeep
<1>. QED BY <1>1, <1>2, <1>3, <1>4, <1>5, <1>6, <1>7, <1>8 DEF SamplingNext

LEMMA TotalsHold == SampleInv => TotalsOK
<1>1. SUFFICES ASSUME SampleInv, sampling.ended PROVE TotalsOK
  BY DEF TotalsOK
<1>2. SampleTypes /\ Counting
  BY <1>1 DEF SampleInv
<1>. DEFINE t == sampling.totals
            n == Cardinality(Sorted(sampling.task))
<1>3. /\ t.unsampled \in Int /\ t.inspected \in Nat /\ t.sampled \in Nat /\ sampling.budget \in Nat
      /\ sampling.task.budget \in Nat /\ n \in Nat
  BY <1>2, TasksAre DEF SampleTypes, SampleTotals
<1>4. ASSUME ~Game PROVE t.unsampled >= 0 /\ t.sampled <= sampling.task.budget
  <2>1. IsFiniteSet(Sorted(sampling.task)) /\ sampling.taken \subseteq Sorted(sampling.task)
    BY <1>2, TasksAre DEF SampleTypes
  <2>2. Cardinality(sampling.taken) <= n /\ Cardinality(sampling.taken) \in Nat
    BY <2>1, FS_Subset, FS_CardinalityType
  <2>3. /\ t.sampled + sampling.budget = sampling.task.budget /\ t.inspected + t.unsampled = n
        /\ t.inspected <= Cardinality(sampling.taken)
    BY <1>2, <1>4 DEF Counting
  <2>. HIDE DEF t, n
  <2>. QED BY <1>3, <2>2, <2>3
<1>. QED BY <1>1, <1>2, <1>4 DEF TotalsOK, Counting

LEMMA BudgetIsHeld == SampleInv => BudgetHeld
<1>1. SUFFICES ASSUME SampleInv, Game PROVE BudgetHeld
  BY DEF BudgetHeld
<1>. DEFINE D == DOMAIN sampling.results
            M == MostSampled
            T == Cardinality(Threads)
<1>2. Spending /\ SampleTypes
  BY <1>1 DEF SampleInv
<1>3. /\ Charged + Cardinality(BusyThreads) * M < sampling.task.budget + T * M
      /\ Charged \in Nat /\ sampling.task.budget \in Nat /\ M \in Nat /\ T \in Nat
      /\ IsFiniteSet(D) /\ Held \in SUBSET D /\ \A f \in D : ReadOf[f] \in Nat /\ ReadOf[f] <= M
      /\ IsFiniteSet(BusyThreads) /\ Cardinality(BusyThreads) \in Nat
  BY <1>1, <1>2, GameFacts, MostSampledIs DEF Spending
<1>4. Cardinality(Held) \in Nat /\ Cardinality(Held) <= Cardinality(BusyThreads)
  <2>. DEFINE holds == [t \in Holding |-> sampling.threads[t].file]
  <2>1. Holding \subseteq BusyThreads
    BY DEF Holding, BusyThreads
  <2>2. holds \in Surjection(Holding, Held)
    BY DEF Surjection, Held
  <2>3. IsFiniteSet(Holding) /\ Cardinality(Holding) <= Cardinality(BusyThreads) /\ Cardinality(Holding) \in Nat
    BY <1>3, <2>1, FS_Subset, FS_CardinalityType
  <2>. HIDE DEF holds
  <2>4. IsFiniteSet(Held) /\ Cardinality(Held) <= Cardinality(Holding)
    BY <2>2, <2>3, FS_Surjection
  <2>. QED BY <1>3, <2>3, <2>4, FS_CardinalityType
<1>5. Weight(ReadOf, D) <= Charged + Cardinality(Held) * M /\ Weight(ReadOf, D) \in Nat
  <2>. DEFINE w == ReadOf
              E == Held
              m == M
  <2>1. IsFiniteSet(D) /\ E \in SUBSET D /\ m \in Nat /\ (\A f \in D : w[f] \in Nat) /\ \A f \in E : w[f] <= m
    BY <1>3
  <2>2. Charged = Weight(w, D \ E)
    BY DEF Charged
  <2>. HIDE DEF w, E, m, D
  <2>3. Weight(w, D) <= Weight(w, D \ E) + Cardinality(E) * m /\ Weight(w, D) \in Nat
    BY <2>1, WeightWithout, WeightStep
  <2>. QED BY <2>2, <2>3 DEF w, E, m
<1>6. Weight(ReadOf, D) < sampling.task.budget + T * M
  <2>1. Cardinality(Held) * M <= Cardinality(BusyThreads) * M /\ Cardinality(Held) * M \in Nat
        /\ Cardinality(BusyThreads) * M \in Nat /\ T * M \in Nat
    BY <1>3, <1>4, Products
  <2>. QED BY <1>3, <1>5, <2>1
<1>7. T * M = T * FileBlocks.plain * Block
  <2>1. FileBlocks.plain \in Nat /\ Block \in Nat /\ T \in Nat
    BY <1>3, SamplingAssumption
  <2>. QED BY <2>1 DEF MostSampled
<1>8. (LET read(f) == sampling.results[f].sampled IN Total(read, D)) = Weight(ReadOf, D)
  BY DEF Total, MapThenSumSet, MapThenFoldSet, Weight, Tallies, Tallied, Picked, ReadOf
<1>9. sampling.budget <= sampling.task.budget
  <2>1. sampling.budget = Minus(sampling.task.budget, Charged)
    BY <1>2 DEF Spending
  <2>2. Minus(sampling.task.budget, Charged) <= sampling.task.budget
    BY <1>3, MinusIs
  <2>. QED BY <2>1, <2>2
<1>. HIDE DEF D, M, T
<1>. QED BY <1>6, <1>7, <1>8, <1>9 DEF BudgetHeld, D, T

\* A saving that does not clear the thresholds is less than what they ask for.
Little(now) == Most2(Advised.saving, Ceiling(now * Advised.ratio, 10000))
Lead(now)   == Ceiling(now * Advised.advantage, 10000)

LEMMA Thresholds ==
  ASSUME NEW now \in Nat, NEW x \in Nat, NEW y \in Nat, x <= now, y <= now
  PROVE  /\ Little(now) \in Nat /\ Little(now) > 0 /\ Lead(now) \in Nat
         /\ ClearsThreshold(x, now) \/ x < Little(now)
         /\ ClearsThreshold(y, now) \/ y < Little(now)
         /\ Ahead(x, y, now) \/ x < y + Lead(now)
         /\ Ahead(x, y, now) /\ now > 0 => y < x /\ (x - y) * 10000 >= now * Advised.advantage
<1>1. Advised.saving \in Nat \ {0} /\ Advised.advantage \in Nat \ {0} /\ Advised.ratio \in Nat
  BY SamplingAssumption
<1>2. now * Advised.ratio \in Nat /\ now * Advised.advantage \in Nat
  BY <1>1
<1>3. /\ Ceiling(now * Advised.ratio, 10000) \in Nat
      /\ now * Advised.ratio <= Ceiling(now * Advised.ratio, 10000) * 10000
      /\ Lead(now) \in Nat /\ now * Advised.advantage <= Lead(now) * 10000
  <2>. DEFINE r == now * Advised.ratio
              l == now * Advised.advantage
  <2>1. r \in Nat /\ l \in Nat /\ 10000 \in Nat \ {0}
    BY <1>2
  <2>. HIDE DEF r, l
  <2>2. Ceiling(r, 10000) \in Nat /\ r <= Ceiling(r, 10000) * 10000
    BY <2>1, CeilingIs
  <2>3. Ceiling(l, 10000) \in Nat /\ l <= Ceiling(l, 10000) * 10000
    BY <2>1, CeilingIs
  <2>. QED BY <2>2, <2>3 DEF r, l, Lead
<1>4. /\ Little(now) \in Nat /\ Advised.saving <= Little(now)
      /\ Ceiling(now * Advised.ratio, 10000) <= Little(now)
  BY <1>1, <1>3, MostOf DEF Little
<1>5. ASSUME NEW z \in Nat, z <= now, ~ClearsThreshold(z, now) PROVE z < Little(now)
  <2>1. CASE z < Advised.saving
    BY <1>1, <1>4, <2>1
  <2>2. CASE now = 0
    BY <1>1, <1>4, <1>5, <2>2
  <2>3. CASE z * 10000 < now * Advised.ratio
    <3>1. z * 10000 < Ceiling(now * Advised.ratio, 10000) * 10000
      BY <1>2, <1>3, <2>3
    <3>2. z < Ceiling(now * Advised.ratio, 10000)
      BY <1>3, <3>1
    <3>. QED BY <1>3, <1>4, <3>2
  <2>. QED BY <1>1, <1>2, <1>5, <2>1, <2>2, <2>3 DEF ClearsThreshold
<1>6. ASSUME ~Ahead(x, y, now) PROVE x < y + Lead(now)
  <2>1. Minus(x, y) \in Nat
    BY MinusIs
  <2>2. Minus(x, y) * 10000 < now * Advised.advantage
    BY <1>2, <1>6, <2>1 DEF Ahead
  <2>3. Minus(x, y) < Lead(now)
    BY <1>2, <1>3, <2>1, <2>2
  <2>. QED BY <1>3, <2>1, <2>3 DEF Minus, Most2
<1>7. ASSUME Ahead(x, y, now), now > 0
      PROVE  y < x /\ (x - y) * 10000 >= now * Advised.advantage
  <2>1. now * Advised.advantage > 0
    BY <1>1, <1>7
  <2>2. Minus(x, y) * 10000 >= now * Advised.advantage
    BY <1>7 DEF Ahead
  <2>3. Minus(x, y) \in Nat
    BY MinusIs
  <2>4. Minus(x, y) > 0
    BY <1>2, <2>1, <2>2, <2>3
  <2>5. y < x /\ Minus(x, y) = x - y
    BY <2>4 DEF Minus, Most2
  <2>. QED BY <2>2, <2>5
<1>. QED BY <1>1, <1>3, <1>4, <1>5, <1>6, <1>7

LEMMA AdviceIs ==
  ASSUME NEW totals \in SampleTotals, totals.native <= totals.now, totals.pack <= totals.now,
         NEW native \in BOOLEAN, NEW compatible \in BOOLEAN
  PROVE  LET advice  == ChooseMode(totals, native, compatible)
             given   == IF advice.mode = "skip" THEN 0 ELSE advice.saving
             offered == {IF native THEN Minus(totals.now, totals.native) ELSE 0,
                         IF compatible THEN Minus(totals.now, totals.pack) ELSE 0}
         IN /\ advice.mode = "maximum" /\ native =>
                 (advice.saving - Minus(totals.now, totals.native)) * 10000 >= totals.now * Advised.advantage
            /\ given > 0 => given >= Advised.saving /\ given \in offered
            /\ \A other \in offered : other < given + Little(totals.now) + Lead(totals.now)
<1>. DEFINE now == totals.now
            a == Minus(totals.now, totals.native)
            p == Minus(totals.now, totals.pack)
            lead == Lead(totals.now)
            little == Little(totals.now)
            advice == ChooseMode(totals, native, compatible)
            given == IF advice.mode = "skip" THEN 0 ELSE advice.saving
            offered == {IF native THEN a ELSE 0, IF compatible THEN p ELSE 0}
<1>1. now \in Nat /\ a \in Nat /\ p \in Nat /\ a <= now /\ p <= now
  BY MinusIs DEF SampleTotals
<1>2. /\ little \in Nat /\ little > 0 /\ lead \in Nat
      /\ (ClearsThreshold(a, now) \/ a < little) /\ (ClearsThreshold(p, now) \/ p < little)
      /\ (Ahead(p, a, now) \/ p < a + lead)
      /\ (Ahead(p, a, now) /\ now > 0 => a < p /\ (p - a) * 10000 >= now * Advised.advantage)
  <2>. HIDE DEF now, a, p
  <2>1. /\ Little(now) \in Nat /\ Little(now) > 0 /\ Lead(now) \in Nat
        /\ (ClearsThreshold(p, now) \/ p < Little(now)) /\ (ClearsThreshold(a, now) \/ a < Little(now))
        /\ (Ahead(p, a, now) \/ p < a + Lead(now))
        /\ (Ahead(p, a, now) /\ now > 0 => a < p /\ (p - a) * 10000 >= now * Advised.advantage)
    BY <1>1, Thresholds
  <2>. QED BY <2>1 DEF now
<1>3. /\ ClearsThreshold(p, now) => p >= Advised.saving /\ now > 0
      /\ ClearsThreshold(a, now) => a >= Advised.saving
  BY DEF ClearsThreshold
<1>4. advice = IF compatible /\ ClearsThreshold(p, now) /\ (Ahead(p, a, now) \/ ~native)
               THEN [mode |-> "maximum", saving |-> p]
               ELSE IF native /\ ClearsThreshold(a, now) THEN [mode |-> "native", saving |-> a]
               ELSE [mode |-> "skip", saving |-> Most2(a, p)]
  BY DEF ChooseMode
<1>. HIDE DEF now, a, p, lead, little, advice
<1>5. CASE compatible /\ ClearsThreshold(p, now) /\ (Ahead(p, a, now) \/ ~native)
  <2>1. advice.mode = "maximum" /\ advice.saving = p /\ given = p
    BY <1>4, <1>5
  <2>2. native => a < p /\ (p - a) * 10000 >= now * Advised.advantage
    BY <1>2, <1>3, <1>5
  <2>3. given > 0 => given >= Advised.saving /\ given \in offered
    BY <1>3, <1>5, <2>1
  <2>4. \A other \in offered : other < given + little + lead
    BY <1>1, <1>2, <2>1, <2>2
  <2>5. advice.mode = "maximum" /\ native => (advice.saving - a) * 10000 >= now * Advised.advantage
    BY <2>1, <2>2
  <2>. QED BY <2>3, <2>4, <2>5 DEF now, a, p, lead, little, advice
<1>6. CASE /\ ~(compatible /\ ClearsThreshold(p, now) /\ (Ahead(p, a, now) \/ ~native))
           /\ native /\ ClearsThreshold(a, now)
  <2>1. advice.mode = "native" /\ advice.saving = a /\ given = a
    BY <1>4, <1>6
  <2>2. compatible => p < a + little + lead
    BY <1>1, <1>2, <1>6
  <2>3. given > 0 => given >= Advised.saving /\ given \in offered
    BY <1>3, <1>6, <2>1
  <2>4. \A other \in offered : other < given + little + lead
    BY <1>1, <1>2, <2>1, <2>2
  <2>. QED BY <2>1, <2>3, <2>4 DEF now, a, p, lead, little, advice
<1>7. CASE /\ ~(compatible /\ ClearsThreshold(p, now) /\ (Ahead(p, a, now) \/ ~native))
           /\ ~(native /\ ClearsThreshold(a, now))
  <2>1. advice.mode = "skip" /\ given = 0
    BY <1>4, <1>7
  <2>2. (native => a < little) /\ (compatible => p < little + lead)
    BY <1>1, <1>2, <1>7
  <2>3. \A other \in offered : other < given + little + lead
    BY <1>1, <1>2, <2>1, <2>2
  <2>. QED BY <2>1, <2>3 DEF now, a, p, lead, little, advice
<1>. QED BY <1>5, <1>6, <1>7

LEMMA AdviceHolds == SampleInv => AdviceSound
<1>1. SUFFICES ASSUME SampleInv PROVE AdviceSound
  OBVIOUS
<1>2. /\ sampling.totals \in SampleTotals /\ sampling.totals.native <= sampling.totals.now
      /\ sampling.totals.pack <= sampling.totals.now
  BY <1>1 DEF SampleInv, SampleTypes, Counting
<1>. QED BY <1>2, AdviceIs DEF AdviceSound, Little, Lead

(***************************************************************************)
(* For any files, budget and number of threads, what is read stays within  *)
(* the budget and one file for each thread, every file is counted once,    *)
(* no total grows by compression, the samples of a file lie apart inside   *)
(* it and within their cap, and the advice forgoes less than it says.      *)
(***************************************************************************)
THEOREM EstimatesSound == SamplingSpec => []EstimateSound
<1>1. SamplingInit => SampleInv
  BY SampleInvInit
<1>2. SampleInv /\ [SamplingNext]_sampling => SampleInv'
  BY SampleInvNext
<1>3. SampleInv => EstimateSound
  <2>1. SampleInv => sampling.task \in SampleTasks
    BY DEF SampleInv, SampleTypes
  <2>. QED BY <2>1, TotalsHold, BudgetIsHeld, SamplesLieApart, AdviceHolds DEF EstimateSound
<1>. QED BY <1>1, <1>2, <1>3, PTL DEF SamplingSpec

(***************************************************************************)
(* What a scan lists is true: CatalogTrue, with the two properties proved  *)
(* of the cache above.                                                     *)
(*                                                                         *)
(* Merging folds the sightings of a scan into one list, and the fold is a  *)
(* function on the sets of positions still to do.  That there is such a    *)
(* function (JoinsExist), and that the list it makes grows by one sighting *)
(* after the other (MergedBySteps), is shown by the least counterexample;  *)
(* then a sighting joined to a list in which no folder is twice leaves one *)
(* in which no folder is twice, and which is as busy as the sightings of   *)
(* each folder (MergedTrue).  FoundInv adds to CatalogInv that a scan has  *)
(* a list, and has it merged from the lock on: so the sighting of a broken *)
(* record's folder is unique.                                              *)
(***************************************************************************)
\* What a fold makes of the sightings at some positions, the last of them last.
Latest(P) == CHOOSE x \in P : \A y \in P : x >= y
JoinedIn(found, P, f)   == IF P = {} THEN << >> ELSE Joins(f[P \ {Latest(P)}], found[Latest(P)])
JoinsAll(found, f)      == f = [P \in SUBSET DOMAIN found |-> JoinedIn(found, P, f)]
JoinedTo(found, n, f) ==
    /\ f = [P \in SUBSET DOMAIN found |-> f[P]]
    /\ \A P \in SUBSET DOMAIN found : Cardinality(P) <= n => f[P] = JoinedIn(found, P, f)

LEMMA MergedIs == ASSUME NEW found
  PROVE Merged(found) = (CHOOSE f : JoinsAll(found, f))[DOMAIN found]
BY DEF Merged, JoinsAll, JoinedIn, Latest, Seqs!FoldLeft, Seqs!MapThenFoldSet, Seqs!Max

LEMMA LatestIs ==
  ASSUME NEW n \in Nat, NEW P \in SUBSET (1 .. n), P # {}
  PROVE  Latest(P) \in P /\ \A y \in P : Latest(P) >= y
<1>. DEFINE left == {n - y : y \in P}
<1>1. left \in SUBSET Nat /\ left # {}
  <2>1. \A y \in P : y \in Int /\ n - y \in Nat
    OBVIOUS
  <2>. QED BY <2>1
<1>2. PICK k \in left : \A j \in left : k <= j
  BY <1>1, LeastNatural
<1>3. PICK x \in P : k = n - x
  BY <1>2
<1>4. \A y \in P : n - x <= n - y /\ x \in Int /\ y \in Int
  <2>1. TAKE y \in P
  <2>2. n - y \in left
    OBVIOUS
  <2>3. n - x <= n - y
    BY <1>2, <1>3, <2>2
  <2>. QED BY <2>3
<1>5. \A y \in P : x >= y
  BY <1>4
<1>. QED BY <1>3, <1>5 DEF Latest

LEMMA JoinGrows ==
  ASSUME NEW found, NEW m \in Nat, DOMAIN found = 1 .. m, NEW n \in Nat, NEW f, JoinedTo(found, n, f)
  PROVE  JoinedTo(found, n + 1, [P \in SUBSET DOMAIN found |-> JoinedIn(found, P, f)])
<1>. DEFINE S == DOMAIN found
            h == [P \in SUBSET S |-> JoinedIn(found, P, f)]
<1>1. IsFiniteSet(S)
  <2>1. 1 \in Int /\ m \in Int
    OBVIOUS
  <2>. QED BY <2>1, FS_Interval
<1>2. ASSUME NEW P \in SUBSET S, Cardinality(P) <= n + 1 PROVE h[P] = JoinedIn(found, P, h)
  <2>1. CASE P = {}
    BY <2>1 DEF JoinedIn
  <2>2. CASE P # {}
    <3>. DEFINE U == P \ {Latest(P)}
    <3>1. Latest(P) \in P
      BY <2>2, LatestIs
    <3>2. U \in SUBSET S /\ Cardinality(U) <= n
      BY <1>1, <1>2, <2>2, <3>1, PickedLess
    <3>3. f[U] = JoinedIn(found, U, f)
      BY <3>2 DEF JoinedTo
    <3>4. h[U] = f[U]
      BY <3>2, <3>3
    <3>. HIDE DEF U
    <3>5. h[P] = JoinedIn(found, P, f)
      OBVIOUS
    <3>. QED BY <2>2, <3>4, <3>5 DEF JoinedIn, U
  <2>. QED BY <2>1, <2>2
<1>. QED BY <1>2 DEF JoinedTo

LEMMA JoinsExist ==
  ASSUME NEW found, NEW m \in Nat, DOMAIN found = 1 .. m
  PROVE  \E f : JoinsAll(found, f)
<1>. DEFINE Good(n) == \E f : JoinedTo(found, n, f)
            Bad == {n \in Nat : ~Good(n)}
            S == DOMAIN found
<1>1. IsFiniteSet(S)
  <2>1. 1 \in Int /\ m \in Int
    OBVIOUS
  <2>. QED BY <2>1, FS_Interval
<1>2. Good(0)
  <2>. DEFINE z == [P \in SUBSET S |-> << >>]
  <2>1. \A P \in SUBSET S : Cardinality(P) <= 0 => P = {}
    BY <1>1, FS_Subset, FS_CardinalityType, FS_EmptySet
  <2>2. JoinedTo(found, 0, z)
    BY <2>1 DEF JoinedTo, JoinedIn
  <2>. QED BY <2>2
<1>3. ASSUME NEW n \in Nat, Good(n) PROVE Good(n + 1)
  <2>1. PICK f : JoinedTo(found, n, f)
    BY <1>3
  <2>2. JoinedTo(found, n + 1, [P \in SUBSET DOMAIN found |-> JoinedIn(found, P, f)])
    BY <2>1, JoinGrows
  <2>. QED BY <2>2
<1>. HIDE DEF Good
<1>4. Bad = {}
  <2>1. SUFFICES ASSUME Bad # {} PROVE FALSE
    OBVIOUS
  <2>2. PICK k \in Bad : \A j \in Bad : k <= j
    BY <2>1, LeastNatural
  <2>3. k # 0
    BY <1>2, <2>2
  <2>4. k - 1 \in Nat /\ Good(k - 1)
    BY <2>2, <2>3
  <2>5. Good((k - 1) + 1)
    BY <1>3, <2>4
  <2>. QED BY <2>2, <2>5
<1>5. Good(Cardinality(S))
  BY <1>1, <1>4, FS_CardinalityType
<1>6. PICK f : JoinedTo(found, Cardinality(S), f)
  BY <1>5 DEF Good
<1>7. \A P \in SUBSET S : Cardinality(P) <= Cardinality(S)
  BY <1>1, FS_Subset
<1>8. f = [P \in SUBSET S |-> f[P]] /\ \A P \in SUBSET S : f[P] = JoinedIn(found, P, f)
  BY <1>6, <1>7 DEF JoinedTo
<1>9. f = [P \in SUBSET S |-> JoinedIn(found, P, f)]
  BY <1>8
<1>. QED BY <1>9 DEF JoinsAll

\* Merging takes the sightings one after the other.
LEMMA MergedBySteps ==
  ASSUME NEW found, NEW m \in Nat, DOMAIN found = 1 .. m
  PROVE  \E made : /\ made[0] = << >> /\ made[m] = Merged(found)
                   /\ \A k \in 1 .. m : made[k] = Joins(made[k - 1], found[k])
<1>. DEFINE f == CHOOSE g : JoinsAll(found, g)
            made == [k \in 0 .. m |-> f[1 .. k]]
<1>1. JoinsAll(found, f)
  BY JoinsExist
<1>2. Merged(found) = f[1 .. m]
  BY MergedIs
<1>. HIDE DEF f
<1>3. \A P \in SUBSET (1 .. m) : f[P] = JoinedIn(found, P, f)
  BY <1>1 DEF JoinsAll
<1>4. made[0] = << >>
  <2>1. 1 .. 0 = {} /\ {} \in SUBSET (1 .. m)
    OBVIOUS
  <2>2. made[0] = f[1 .. 0]
    OBVIOUS
  <2>3. f[{}] = << >>
    BY <1>3, <2>1 DEF JoinedIn
  <2>. QED BY <2>1, <2>2, <2>3
<1>5. ASSUME NEW k \in 1 .. m PROVE made[k] = Joins(made[k - 1], found[k])
  <2>1. 1 .. k \in SUBSET (1 .. m) /\ 1 .. k # {} /\ k \in 1 .. k /\ k \in Nat
    <3>1. k \in Nat /\ 1 <= k /\ k <= m
      OBVIOUS
    <3>2. k \in 1 .. k
      BY <3>1
    <3>3. \A i \in 1 .. k : i \in 1 .. m
      BY <3>1
    <3>. QED BY <3>1, <3>2, <3>3
  <2>2. Latest(1 .. k) \in 1 .. k /\ Latest(1 .. k) >= k
    BY <2>1, LatestIs
  <2>3. Latest(1 .. k) = k
    BY <2>2
  <2>4. (1 .. k) \ {k} = 1 .. (k - 1)
    OBVIOUS
  <2>5. f[1 .. k] = Joins(f[1 .. (k - 1)], found[k])
    BY <1>3, <2>1, <2>3, <2>4 DEF JoinedIn
  <2>6. made[k] = f[1 .. k] /\ made[k - 1] = f[1 .. (k - 1)]
    OBVIOUS
  <2>. QED BY <2>5, <2>6
<1>6. made[m] = Merged(found)
  BY <1>2
<1>. QED BY <1>4, <1>5, <1>6

\* Sightings, whatever their fields hold.
Sightings(T)   == [ids : T, place : T, alias : T, state : T]
IsList(q)      == \E T : q \in Seq(Sightings(T))
FoldersOnce(q) == \A i, j \in DOMAIN q : SameFolder(q[i], q[j]) => i = j

\* Where a sighting's folder is in a list.
PlacesOf(q, g) == {i \in 1 .. Len(q) : SameFolder(q[i], g)}
IndexOf(q, g)  == IF PlacesOf(q, g) # {} THEN Seqs!Min(PlacesOf(q, g)) ELSE 0
FreshOf(q, g)  == SelectSeq(g.ids, LAMBDA id : IndexOf(q, g) # 0 /\ ~Seqs!Contains(q[IndexOf(q, g)].ids, id))
JoinedAt(q, g) == [q[IndexOf(q, g)] EXCEPT !.ids = @ \o FreshOf(q, g), !.state = Resolved(q[IndexOf(q, g)], g)]

LEMMA JoinsIs ==
  ASSUME NEW q, NEW g
  PROVE  Joins(q, g) = IF IndexOf(q, Canonical(g)) = 0 THEN Append(q, Canonical(g))
                       ELSE [q EXCEPT ![IndexOf(q, Canonical(g))] = JoinedAt(q, Canonical(g))]
BY DEF Joins, IndexOf, PlacesOf, FreshOf, JoinedAt, Seqs!SelectInSeq

LEMMA IndexIs ==
  ASSUME NEW q, NEW g, Len(q) \in Nat
  PROVE  /\ IndexOf(q, g) = 0 => \A i \in 1 .. Len(q) : ~SameFolder(q[i], g)
         /\ IndexOf(q, g) # 0 => IndexOf(q, g) \in 1 .. Len(q) /\ SameFolder(q[IndexOf(q, g)], g)
<1>. DEFINE I == PlacesOf(q, g)
<1>1. CASE I = {}
  BY <1>1 DEF IndexOf, PlacesOf
<1>2. CASE I # {}
  <2>1. I \in SUBSET Nat
    BY DEF PlacesOf
  <2>2. PICK k \in I : \A j \in I : k <= j
    BY <1>2, <2>1, LeastNatural
  <2>3. Seqs!Min(I) \in I
    BY <2>2 DEF Seqs!Min
  <2>. QED BY <1>2, <2>3 DEF IndexOf, PlacesOf
<1>. QED BY <1>1, <1>2

LEMMA SeqOf ==
  ASSUME NEW A, NEW B, NEW q \in Seq(A), \A i \in 1 .. Len(q) : q[i] \in B
  PROVE  q \in Seq(B)
<1>1. Len(q) \in Nat /\ q \in [1 .. Len(q) -> A]
  OBVIOUS
<1>2. q \in [1 .. Len(q) -> B]
  BY <1>1
<1>. QED BY <1>1, <1>2

LEMMA CanonicalIs ==
  ASSUME NEW T, NEW g \in Sightings(T)
  PROVE  /\ Canonical(g) \in Sightings(T \cup {FALSE})
         /\ Canonical(g).state = g.state /\ Canonical(g).place = g.place
BY DEF Canonical, Sightings

\* One more sighting: a folder of its own, or the state of the folder it is of.
LEMMA JoinsKeeps ==
  ASSUME NEW q, IsList(q), FoldersOnce(q), NEW T, NEW g \in Sightings(T)
  PROVE  /\ IsList(Joins(q, g)) /\ FoldersOnce(Joins(q, g))
         /\ DOMAIN q \subseteq DOMAIN Joins(q, g)
         /\ \A i \in DOMAIN q : /\ Joins(q, g)[i].place = q[i].place /\ Joins(q, g)[i].alias = q[i].alias
                                /\ q[i].state # "idle" => Joins(q, g)[i].state # "idle"
         /\ \E i \in DOMAIN Joins(q, g) : SameFolder(Joins(q, g)[i], Canonical(g))
         /\ \A i \in DOMAIN Joins(q, g) :
               SameFolder(Joins(q, g)[i], Canonical(g)) =>
                 /\ g.state # "idle" => Joins(q, g)[i].state # "idle"
                 /\ i \notin DOMAIN q => \A j \in DOMAIN q : ~SameFolder(q[j], Canonical(g))
         /\ \A i \in DOMAIN Joins(q, g) \ DOMAIN q : Joins(q, g)[i] = Canonical(g)
<1>. DEFINE h == Canonical(g)
            i0 == IndexOf(q, h)
            V == T \cup {FALSE}
<1>1. h \in Sightings(V) /\ h.state = g.state
  BY CanonicalIs
<1>2. PICK U : q \in Seq(Sightings(U))
  BY DEF IsList
<1>3. Len(q) \in Nat /\ DOMAIN q = 1 .. Len(q) /\ \A i \in 1 .. Len(q) : q[i] \in Sightings(U)
  BY <1>2
<1>4. /\ i0 = 0 => \A i \in 1 .. Len(q) : ~SameFolder(q[i], h)
      /\ i0 # 0 => i0 \in 1 .. Len(q) /\ SameFolder(q[i0], h)
  BY <1>3, IndexIs
<1>5. CASE i0 = 0
  <2>. DEFINE n == Append(q, h)
              W == U \cup V
  <2>1. Joins(q, g) = n
    BY <1>5, JoinsIs
  <2>2. h \in Sightings(W) /\ \A i \in 1 .. Len(q) : q[i] \in Sightings(W)
    BY <1>1, <1>3 DEF Sightings
  <2>3. q \in Seq(Sightings(W))
    BY <1>2, <2>2, SeqOf
  <2>. HIDE DEF h
  <2>4. /\ n \in Seq(Sightings(W)) /\ DOMAIN n = 1 .. (Len(q) + 1) /\ n[Len(q) + 1] = h
        /\ \A i \in 1 .. Len(q) : n[i] = q[i]
    BY <2>2, <2>3
  <2>. HIDE DEF n, W, i0
  <2>5. IsList(n)
    BY <2>4 DEF IsList
  <2>6. \A i \in DOMAIN n : i \in DOMAIN q \/ i = Len(q) + 1
    BY <1>3, <2>4
  <2>7. FoldersOnce(n)
    BY <1>3, <1>4, <1>5, <2>4, <2>6 DEF FoldersOnce, SameFolder
  <2>8. DOMAIN q \subseteq DOMAIN n /\ \A i \in DOMAIN q : n[i] = q[i]
    BY <1>3, <2>4
  <2>9. Len(q) + 1 \in DOMAIN n /\ SameFolder(n[Len(q) + 1], h)
    BY <1>3, <2>4 DEF SameFolder
  <2>10. \A i \in DOMAIN n : SameFolder(n[i], h) => n[i] = h /\ i \notin DOMAIN q
    BY <1>3, <1>4, <1>5, <2>4, <2>6, <2>8
  <2>11. \A i \in DOMAIN n \ DOMAIN q : n[i] = h
    BY <2>4, <2>6
  <2>12. \A j \in DOMAIN q : ~SameFolder(q[j], h)
    BY <1>3, <1>4, <1>5
  <2>. QED BY <1>1, <2>1, <2>5, <2>7, <2>8, <2>9, <2>10, <2>11, <2>12 DEF h
<1>6. CASE i0 # 0
  <2>. DEFINE r == JoinedAt(q, h)
              n == [q EXCEPT ![i0] = r]
              W == U \cup {r.ids, r.state}
  <2>1. Joins(q, g) = n
    BY <1>6, JoinsIs
  <2>2. i0 \in 1 .. Len(q) /\ SameFolder(q[i0], h)
    BY <1>4, <1>6
  <2>3. /\ r.place = q[i0].place /\ r.alias = q[i0].alias /\ r.state = Resolved(q[i0], h)
        /\ r \in Sightings(W)
    <3>. DEFINE x == q[i0]
                ids == x.ids \o FreshOf(q, h)
                state == Resolved(x, h)
    <3>1. x \in Sightings(U)
      BY <1>3, <2>2
    <3>2. r = [x EXCEPT !.ids = ids, !.state = state]
      BY DEF JoinedAt
    <3>. HIDE DEF x, ids, state, h, r
    <3>. QED BY <3>1, <3>2 DEF Sightings, x, state
  <2>4. \A i \in 1 .. Len(q) : q[i] \in Sightings(W)
    BY <1>3 DEF Sightings
  <2>. HIDE DEF h, r, i0
  <2>13. q \in Seq(Sightings(W))
    BY <1>2, <2>4, SeqOf
  <2>5. /\ n \in Seq(Sightings(W)) /\ DOMAIN n = DOMAIN q /\ n[i0] = r
        /\ \A i \in DOMAIN q \ {i0} : n[i] = q[i]
    BY <1>3, <2>2, <2>3, <2>13
  <2>. HIDE DEF n, W
  <2>6. IsList(n)
    BY <2>5 DEF IsList
  <2>7. \A i \in DOMAIN q : n[i].place = q[i].place /\ n[i].alias = q[i].alias
    BY <2>3, <2>5
  <2>8. FoldersOnce(n)
    BY <2>5, <2>7 DEF FoldersOnce, SameFolder
  <2>9. \A i \in DOMAIN q : q[i].state # "idle" => n[i].state # "idle"
    BY <2>3, <2>5 DEF Resolved
  <2>10. i0 \in DOMAIN n /\ SameFolder(n[i0], h)
    BY <1>3, <2>2, <2>5, <2>7 DEF SameFolder
  <2>11. \A i \in DOMAIN n : SameFolder(n[i], h) => i = i0
    BY <2>8, <2>10 DEF FoldersOnce, SameFolder
  <2>12. g.state # "idle" => n[i0].state # "idle"
    BY <1>1, <2>3, <2>5 DEF Resolved
  <2>. QED BY <2>1, <2>5, <2>6, <2>7, <2>8, <2>9, <2>10, <2>11, <2>12 DEF h
<1>. QED BY <1>5, <1>6

\* What a list shows of the sightings up to one of them.
ShowsUpTo(q, found, k) ==
    /\ IsList(q) /\ FoldersOnce(q)
    /\ \A j \in 1 .. k : \E i \in DOMAIN q : SameFolder(q[i], Canonical(found[j]))
    /\ \A j \in 1 .. k : \A i \in DOMAIN q :
           SameFolder(q[i], Canonical(found[j])) /\ found[j].state # "idle" => q[i].state # "idle"

LEMMA JoinsShows ==
  ASSUME NEW q, NEW found, NEW k \in Nat, ShowsUpTo(q, found, k), NEW T, found[k + 1] \in Sightings(T)
  PROVE  ShowsUpTo(Joins(q, found[k + 1]), found, k + 1)
<1>. DEFINE g == found[k + 1]
            n == Joins(q, g)
<1>1. IsList(q) /\ FoldersOnce(q)
  BY DEF ShowsUpTo
<1>2. /\ IsList(n) /\ FoldersOnce(n) /\ DOMAIN q \subseteq DOMAIN n
      /\ \A i \in DOMAIN q : /\ n[i].place = q[i].place /\ n[i].alias = q[i].alias
                             /\ q[i].state # "idle" => n[i].state # "idle"
      /\ \E i \in DOMAIN n : SameFolder(n[i], Canonical(g))
      /\ \A i \in DOMAIN n :
            SameFolder(n[i], Canonical(g)) =>
              /\ g.state # "idle" => n[i].state # "idle"
              /\ i \notin DOMAIN q => \A j \in DOMAIN q : ~SameFolder(q[j], Canonical(g))
      /\ \A i \in DOMAIN n \ DOMAIN q : n[i] = Canonical(g)
  BY <1>1, JoinsKeeps
<1>. HIDE DEF n
<1>3. \A j \in 1 .. (k + 1) : j \in 1 .. k \/ j = k + 1
  OBVIOUS
<1>4. ASSUME NEW j \in 1 .. k
      PROVE  /\ \E i \in DOMAIN n : SameFolder(n[i], Canonical(found[j]))
             /\ \A i \in DOMAIN n : SameFolder(n[i], Canonical(found[j])) /\ found[j].state # "idle"
                                       => n[i].state # "idle"
  <2>1. PICK i \in DOMAIN q : SameFolder(q[i], Canonical(found[j]))
    BY DEF ShowsUpTo
  <2>2. i \in DOMAIN n /\ SameFolder(n[i], Canonical(found[j]))
    BY <1>2, <2>1 DEF SameFolder
  <2>3. \A e \in DOMAIN n : SameFolder(n[e], Canonical(found[j])) => e = i
    BY <1>2, <2>2 DEF SameFolder, FoldersOnce
  <2>4. found[j].state # "idle" => n[i].state # "idle"
    BY <1>2, <2>1 DEF ShowsUpTo
  <2>. QED BY <2>2, <2>3, <2>4
<1>5. /\ \E i \in DOMAIN n : SameFolder(n[i], Canonical(g))
      /\ \A i \in DOMAIN n : SameFolder(n[i], Canonical(g)) /\ g.state # "idle" => n[i].state # "idle"
  BY <1>2
<1>6. ShowsUpTo(n, found, k + 1)
  BY <1>2, <1>3, <1>4, <1>5 DEF ShowsUpTo
<1>. QED BY <1>6 DEF n

\* Sightings of one folder become one, which is as busy as any of them.
LEMMA MergedTrue ==
  ASSUME NEW found, IsList(found)
  PROVE  ShowsUpTo(Merged(found), found, Len(found)) /\ Len(found) \in Nat /\ DOMAIN found = 1 .. Len(found)
<1>1. PICK T : found \in Seq(Sightings(T))
  BY DEF IsList
<1>. DEFINE m == Len(found)
<1>2. m \in Nat /\ DOMAIN found = 1 .. m /\ \A k \in 1 .. m : found[k] \in Sightings(T)
  BY <1>1
<1>3. PICK made : /\ made[0] = << >> /\ made[m] = Merged(found)
                  /\ \A k \in 1 .. m : made[k] = Joins(made[k - 1], found[k])
  BY <1>2, MergedBySteps
<1>. DEFINE Bad == {k \in 0 .. m : ~ShowsUpTo(made[k], found, k)}
<1>4. ShowsUpTo(made[0], found, 0)
  <2>1. << >> \in Seq(Sightings({})) /\ DOMAIN << >> = {}
    OBVIOUS
  <2>2. IsList(<< >>)
    BY <2>1 DEF IsList
  <2>3. 1 .. 0 = {}
    OBVIOUS
  <2>. QED BY <1>3, <2>1, <2>2, <2>3 DEF ShowsUpTo, FoldersOnce
<1>. HIDE DEF m
<1>5. Bad = {}
  <2>1. SUFFICES ASSUME Bad # {} PROVE FALSE
    OBVIOUS
  <2>2. Bad \in SUBSET Nat
    BY <1>2
  <2>3. PICK k \in Bad : \A j \in Bad : k <= j
    BY <2>1, <2>2, LeastNatural
  <2>4. k # 0 /\ k \in 0 .. m
    BY <1>4, <2>3
  <2>. DEFINE p == k - 1
  <2>5. p \in Nat /\ p \in 0 .. m /\ p < k /\ k = p + 1 /\ k \in 1 .. m
    BY <1>2, <2>4
  <2>6. ShowsUpTo(made[p], found, p)
    BY <2>3, <2>5
  <2>7. found[p + 1] \in Sightings(T) /\ made[k] = Joins(made[p], found[p + 1])
    BY <1>2, <1>3, <2>5
  <2>. HIDE DEF p
  <2>8. ShowsUpTo(Joins(made[p], found[p + 1]), found, p + 1)
    BY <2>5, <2>6, <2>7, JoinsShows
  <2>. QED BY <2>3, <2>5, <2>7, <2>8
<1>6. ShowsUpTo(made[m], found, m)
  <2>1. m \in 0 .. m
    BY <1>2
  <2>. QED BY <1>5, <2>1
<1>. QED BY <1>2, <1>3, <1>6 DEF m

ListsFinite ==
    /\ DOMAIN catalog.lists = 1 .. Len(Keys)
    /\ \A k \in 1 .. Len(Keys) : IsFiniteSet(catalog.lists[k])

\* What a scan has read is a list, of one sighting per folder once it was merged.
ScanFound(scan) ==
    /\ IsList(scan.found) /\ scan.next \in Nat \ {0}
    /\ scan.at \in {"lock", "read", "write"} => FoldersOnce(scan.found)
ScansFound == \A s \in Scanners : ScanFound(catalog.scans[s])

FoundInv == CatalogInv /\ ListsFinite /\ ScansFound /\ DOMAIN catalog.shown = Scanners

LEMMA SeqOfSet ==
  ASSUME NEW S, IsFiniteSet(S)
  PROVE  Seqs!SetToSeq(S) \in Seq(S)
<1>1. Cardinality(S) \in Nat /\ ExistsBijection(1 .. Cardinality(S), S)
  BY FS_CardinalityType
<1>2. \E f \in [1 .. Cardinality(S) -> S] : Seqs!IsInjective(f)
  BY <1>1 DEF ExistsBijection, Bijection, Injection, IsInjective, Seqs!IsInjective
<1>. DEFINE q == Seqs!SetToSeq(S)
<1>3. q \in [1 .. Cardinality(S) -> S]
  <2>1. q = CHOOSE f \in [1 .. Cardinality(S) -> S] : Seqs!IsInjective(f)
    BY DEF Seqs!SetToSeq, Seqs!Cardinality, Cardinality
  <2>. HIDE DEF q
  <2>. QED BY <1>2, <2>1
<1>. DEFINE n == Cardinality(S)
<1>4. n \in Nat /\ q \in [1 .. n -> S]
  BY <1>1, <1>3
<1>. HIDE DEF q, n
<1>5. q \in Seq(S)
  BY <1>4
<1>. QED BY <1>5 DEF q

\* A set of sightings, one for each element of a finite set, is a list.
LEMMA SightingsList ==
  ASSUME NEW S, IsFiniteSet(S), NEW f, NEW T, \A x \in S : f[x] \in Sightings(T),
         NEW was, IsList(was)
  PROVE  IsList(was \o Seqs!SetToSeq({f[x] : x \in S}))
<1>. DEFINE R == {f[x] : x \in S}
            q == Seqs!SetToSeq(R)
<1>1. IsFiniteSet(R) /\ R \in SUBSET Sightings(T)
  BY ImageFinite
<1>2. q \in Seq(R)
  BY <1>1, SeqOfSet
<1>3. PICK U : was \in Seq(Sightings(U))
  BY DEF IsList
<1>. DEFINE W == T \cup U
<1>4. Sightings(T) \subseteq Sightings(W) /\ Sightings(U) \subseteq Sightings(W)
  BY DEF Sightings
<1>. HIDE DEF q, R, W
<1>5. \A i \in 1 .. Len(q) : q[i] \in Sightings(W)
  BY <1>1, <1>2, <1>4
<1>6. q \in Seq(Sightings(W))
  BY <1>2, <1>5, SeqOf
<1>7. \A i \in 1 .. Len(was) : was[i] \in Sightings(W)
  BY <1>3, <1>4
<1>8. was \in Seq(Sightings(W))
  BY <1>3, <1>7, SeqOf
<1>9. was \o q \in Seq(Sightings(W))
  BY <1>6, <1>8
<1>. QED BY <1>9 DEF IsList, q, R

LEMMA NoList == IsList(<< >>) /\ \A q : IsList(q) => IsList(q \o << >>)
<1>1. << >> \in Seq(Sightings({}))
  OBVIOUS
<1>2. IsList(<< >>)
  BY <1>1 DEF IsList
<1>3. ASSUME NEW q, IsList(q) PROVE IsList(q \o << >>)
  <2>1. PICK T : q \in Seq(Sightings(T))
    BY <1>3 DEF IsList
  <2>2. << >> \in Seq(Sightings(T))
    OBVIOUS
  <2>3. q \o << >> \in Seq(Sightings(T))
    BY <2>1, <2>2
  <2>. QED BY <2>3 DEF IsList
<1>. QED BY <1>2, <1>3

LEMMA NoScanningFound == ScanFound(NoScanning)
BY NoList DEF ScanFound, NoScanning

LEMMA FoundInvInit == DiscoveryInit => FoundInv
<1>1. SUFFICES ASSUME DiscoveryInit PROVE FoundInv
  OBVIOUS
<1>2. CatalogInv
  BY <1>1, CatalogInvInit
<1>3. /\ catalog.lists = [k \in 1 .. Len(Keys) |-> {}]
      /\ catalog.scans = [s \in Scanners |-> NoScanning]
      /\ catalog.shown = [s \in Scanners |-> {}]
  BY <1>1 DEF DiscoveryInit
<1>4. ListsFinite
  BY <1>3, FS_EmptySet DEF ListsFinite
<1>5. ScansFound
  BY <1>3, NoScanningFound DEF ScansFound
<1>. QED BY <1>2, <1>3, <1>4, <1>5 DEF FoundInv

\* The machine changes launchers' lists by one game at a time, and no scan.
LEMMA MachineFound ==
  ASSUME FoundInv, Swaps \/ InstallsGame \/ UpdatesGame \/ RemovesGame \/ AddPlace \/ RemovePlace
  PROVE  FoundInv' /\ catalog'.scans = catalog.scans /\ catalog'.shown = catalog.shown
<1>1. CatalogInv /\ CatalogShape /\ ListsFinite
  BY DEF FoundInv, CatalogInv
<1>2. CatalogInv'
  BY <1>1, MachineKeeps
<1>3. catalog'.scans = catalog.scans /\ catalog'.shown = catalog.shown
  <2>1. CASE Swaps
    BY <1>1, <2>1 DEF Swaps, CatalogShape
  <2>2. CASE InstallsGame
    BY <1>1, <2>2 DEF InstallsGame, CatalogShape
  <2>3. CASE UpdatesGame
    BY <1>1, <2>3 DEF UpdatesGame, CatalogShape
  <2>4. CASE RemovesGame
    BY <1>1, <2>4 DEF RemovesGame, CatalogShape
  <2>5. CASE AddPlace
    BY <1>1, <2>5 DEF AddPlace, CatalogShape
  <2>6. CASE RemovePlace
    BY <1>1, <2>6 DEF RemovePlace, CatalogShape
  <2>. QED BY <2>1, <2>2, <2>3, <2>4, <2>5, <2>6
<1>4. \/ catalog'.lists = catalog.lists
      \/ \E k \in 1 .. Len(Keys) : \E g : catalog'.lists = [catalog.lists EXCEPT ![k] = {g}]
      \/ \E k \in 1 .. Len(Keys) : catalog'.lists = [catalog.lists EXCEPT ![k] = {}]
  <2>1. CASE Swaps \/ AddPlace \/ RemovePlace
    <3>1. catalog'.lists = catalog.lists
      BY <1>1, <2>1 DEF Swaps, AddPlace, RemovePlace, CatalogShape
    <3>. QED BY <3>1
  <2>2. CASE InstallsGame
    <3>1. PICK k \in 1 .. Len(Keys), p \in GameDirs, alias \in BOOLEAN :
            catalog' = [catalog EXCEPT !.left = Without("installs"),
                  !.lists[k] = {[place |-> p, alias |-> alias, busy |-> FALSE]},
                  !.folders = @ \cup {<<DriveAt(p), p>>}]
      BY <2>2 DEF InstallsGame
    <3>2. catalog'.lists = [catalog.lists EXCEPT ![k] = {[place |-> p, alias |-> alias, busy |-> FALSE]}]
      BY <1>1, <3>1 DEF CatalogShape
    <3>. QED BY <3>2
  <2>3. CASE UpdatesGame
    <3>1. PICK k \in 1 .. Len(Keys) : \E g \in catalog.lists[k] :
            catalog' = [catalog EXCEPT !.left = Without("updates"), !.lists[k] = {[g EXCEPT !.busy = ~@]}]
      BY <2>3 DEF UpdatesGame
    <3>2. PICK g \in catalog.lists[k] :
            catalog' = [catalog EXCEPT !.left = Without("updates"), !.lists[k] = {[g EXCEPT !.busy = ~@]}]
      BY <3>1
    <3>3. catalog'.lists = [catalog.lists EXCEPT ![k] = {[g EXCEPT !.busy = ~@]}]
      BY <1>1, <3>2 DEF CatalogShape
    <3>. QED BY <3>3
  <2>4. CASE RemovesGame
    <3>1. PICK k \in 1 .. Len(Keys) : \E g \in catalog.lists[k] :
            catalog' = [catalog EXCEPT !.left = Without("installs"), !.lists[k] = {},
                                       !.folders = @ \ {<<DriveAt(g.place), g.place>>}]
      BY <2>4 DEF RemovesGame
    <3>2. catalog'.lists = [catalog.lists EXCEPT ![k] = {}]
      BY <1>1, <3>1 DEF CatalogShape
    <3>. QED BY <3>2
  <2>. QED BY <2>1, <2>2, <2>3, <2>4
<1>5. ListsFinite'
  <2>1. \A g : IsFiniteSet({g})
    BY FS_Singleton
  <2>2. IsFiniteSet({})
    BY FS_EmptySet
  <2>. QED BY <1>1, <1>4, <2>1, <2>2 DEF ListsFinite
<1>. QED BY <1>2, <1>3, <1>5 DEF FoundInv, ScansFound

\* A step of a scan, as far as what it has found and what it shows go.
FoundGoes(s, scan) ==
    /\ catalog'.scans = [catalog.scans EXCEPT ![s] = scan] /\ catalog'.lists = catalog.lists
    /\ ScanFound(scan)
    /\ catalog.scans[s].at = "merge" /\ scan.at = "lock" => scan.found = Merged(catalog.scans[s].found)

LEMMA ReadsFound ==
  ASSUME FoundInv, NEW s \in Scanners, ReadsLauncher(s)
  PROVE  (\E scan : FoundGoes(s, scan)) /\ catalog'.shown = catalog.shown
<1>. DEFINE was == catalog.scans[s]
            k == was.next
            read(found) == [was EXCEPT !.next = k + 1, !.found = @ \o found]
            list == Seqs!SetToSeq({Sighting(<<"launcher", Keys[k]>>, g) : g \in catalog.lists[k]})
<1>1. CatalogShape /\ ScanShape(was) /\ ScanFound(was) /\ was.at = "launchers" /\ ListsFinite
  BY DEF FoundInv, ScansFound, CatalogInv, ScansShape, ReadsLauncher, ScanAt, ScanOf
<1>2. CASE k > Len(Keys)
  <2>. DEFINE scan == [was EXCEPT !.at = "custom"]
  <2>1. catalog' = [catalog EXCEPT !.scans[s].at = "custom"]
    BY <1>2 DEF ReadsLauncher, ScanOf
  <2>2. /\ catalog'.scans = [catalog.scans EXCEPT ![s] = scan] /\ catalog'.lists = catalog.lists
        /\ catalog'.shown = catalog.shown
    BY <1>1, <2>1 DEF CatalogShape
  <2>3. scan.at = "custom" /\ scan.found = was.found /\ scan.next = was.next
    BY <1>1 DEF ScanShape
  <2>. HIDE DEF scan
  <2>4. ScanFound(scan)
    BY <1>1, <2>3 DEF ScanFound
  <2>5. FoundGoes(s, scan)
    BY <1>1, <2>2, <2>3, <2>4 DEF FoundGoes
  <2>. QED BY <2>2, <2>5
<1>3. CASE ~(k > Len(Keys))
  <2>1. k \in Nat \ {0} /\ Len(Keys) \in Nat
    BY <1>1, DiscoveryAssumption DEF ScanFound
  <2>2. k \in 1 .. Len(Keys)
    BY <1>3, <2>1
  <2>3. IsFiniteSet(catalog.lists[k])
    BY <1>1, <2>2 DEF ListsFinite
  <2>4. IsList(was.found \o list)
    <3>. DEFINE S == catalog.lists[k]
                id == <<"launcher", Keys[k]>>
                f == [g \in S |-> Sighting(id, g)]
                T == {<<id>>} \cup {g.place : g \in S} \cup {g.alias : g \in S} \cup {"busy", "idle", "broken"}
    <3>1. \A g \in S : f[g] \in Sightings(T)
      BY DEF Sightings, Sighting, StateOf
    <3>2. {f[g] : g \in S} = {Sighting(id, g) : g \in S}
      OBVIOUS
    <3>3. IsList(was.found) /\ IsFiniteSet(S)
      BY <1>1, <2>3 DEF ScanFound
    <3>. HIDE DEF f, T, S, id
    <3>4. IsList(was.found \o Seqs!SetToSeq({f[g] : g \in S}))
      BY <3>1, <3>3, SightingsList
    <3>. QED BY <3>2, <3>4 DEF S, id
  <2>5. IsList(was.found \o << >>)
    BY <1>1, NoList DEF ScanFound
  <2>6. \E found \in {list, << >>} : \E left :
           catalog' = [[catalog EXCEPT !.scans[s] = read(found)] EXCEPT !.left = left]
    <3>1. \/ catalog' = [catalog EXCEPT !.scans[s] = read(list)]
          \/ catalog' = [[catalog EXCEPT !.scans[s] = read(<< >>)] EXCEPT !.left = Without("badLists")]
      BY <1>3 DEF ReadsLauncher, ScanOf
    <3>. HIDE DEF list, read
    <3>2. [catalog EXCEPT !.scans[s] = read(list)]
            = [[catalog EXCEPT !.scans[s] = read(list)] EXCEPT !.left = catalog.left]
      BY <1>1 DEF CatalogShape
    <3>. QED BY <3>1, <3>2
  <2>. HIDE DEF list
  <2>7. PICK found \in {list, << >>} : \E left :
           catalog' = [[catalog EXCEPT !.scans[s] = read(found)] EXCEPT !.left = left]
    BY <2>6
  <2>. DEFINE scan == read(found)
  <2>8. /\ scan.at = "launchers" /\ scan.next = k + 1 /\ scan.found = was.found \o found
    BY <1>1 DEF ScanShape
  <2>. HIDE DEF read
  <2>9. /\ catalog'.scans = [catalog.scans EXCEPT ![s] = scan] /\ catalog'.lists = catalog.lists
        /\ catalog'.shown = catalog.shown
    BY <1>1, <2>7 DEF CatalogShape
  <2>. HIDE DEF scan
  <2>. HIDE DEF k, was
  <2>12. IsList(was.found \o found)
    BY <2>4, <2>5, <2>7
  <2>13. k + 1 \in Nat \ {0}
    BY <2>1
  <2>10. ScanFound(scan)
    BY <2>8, <2>12, <2>13 DEF ScanFound
  <2>11. FoundGoes(s, scan)
    BY <1>1, <2>8, <2>9, <2>10 DEF FoundGoes
  <2>. QED BY <2>9, <2>11
<1>. QED BY <1>2, <1>3

LEMMA CustomFound ==
  ASSUME FoundInv, NEW s \in Scanners, CustomGames(s)
  PROVE  (\E scan : FoundGoes(s, scan)) /\ catalog'.shown = catalog.shown
<1>. DEFINE was == catalog.scans[s]
<1>1. CatalogShape /\ ScanShape(was) /\ ScanFound(was) /\ was.at = "custom"
  BY DEF FoundInv, ScansFound, CatalogInv, ScansShape, CustomGames, ScanAt, ScanOf
<1>. DEFINE custom(paths, unread) ==
              {[ids |-> <<Manual(p)>>, place |-> p, alias |-> FALSE,
                state |-> IF p \in unread THEN "broken" ELSE "idle"] : p \in paths}
            scan(paths, unread) ==
              [was EXCEPT !.at = "merge", !.found = @ \o Seqs!SetToSeq(custom(paths, unread)),
                          !.locations = catalog.locations]
<1>2. PICK paths \in SUBSET GameDirs, unread \in SUBSET GameDirs : \E left :
         catalog' = [catalog EXCEPT !.left = left, !.scans[s] = scan(paths, unread)]
  <2>. DEFINE went(listed, unread) == (catalog.locations \ listed) \cup unread # {}
              left(listed, unread) == IF went(listed, unread) THEN Without("badLists") ELSE catalog.left
  <2>1. PICK listed \in SUBSET catalog.locations, unread \in SUBSET GameDirs :
           catalog' = [catalog EXCEPT !.left = left(listed, unread),
                                      !.scans[s] = scan({p \in Covered(listed) : There(p)}, unread)]
    BY Zenon DEF CustomGames, ScanOf
  <2>2. {p \in Covered(listed) : There(p)} \in SUBSET GameDirs
    BY DEF Covered
  <2>. HIDE DEF scan, left
  <2>. QED BY <2>1, <2>2
<1>. DEFINE list == Seqs!SetToSeq(custom(paths, unread))
            new == scan(paths, unread)
<1>3. new.at = "merge" /\ new.next = was.next /\ new.found = was.found \o list
  BY <1>1 DEF ScanShape
<1>4. IsList(was.found \o list)
  <2>. DEFINE f == [p \in paths |-> [ids |-> <<Manual(p)>>, place |-> p, alias |-> FALSE,
                                      state |-> IF p \in unread THEN "broken" ELSE "idle"]]
              T == {<<Manual(p)>> : p \in paths} \cup paths \cup {FALSE, "broken", "idle"}
  <2>1. \A p \in paths : f[p] \in Sightings(T)
    BY DEF Sightings
  <2>2. {f[p] : p \in paths} = custom(paths, unread)
    OBVIOUS
  <2>3. IsList(was.found) /\ IsFiniteSet(paths)
    BY <1>1, DiscoveryAssumption, FS_Subset DEF ScanFound
  <2>. HIDE DEF f, T, custom
  <2>4. IsList(was.found \o Seqs!SetToSeq({f[p] : p \in paths}))
    BY <2>1, <2>3, SightingsList
  <2>. QED BY <2>2, <2>4
<1>. HIDE DEF list, scan, custom
<1>5. /\ catalog'.scans = [catalog.scans EXCEPT ![s] = new] /\ catalog'.lists = catalog.lists
      /\ catalog'.shown = catalog.shown
  BY <1>1, <1>2 DEF CatalogShape
<1>. HIDE DEF new
<1>6. ScanFound(new)
  BY <1>1, <1>3, <1>4 DEF ScanFound
<1>7. FoundGoes(s, new)
  BY <1>1, <1>3, <1>5, <1>6 DEF FoundGoes
<1>. QED BY <1>5, <1>7

LEMMA MergesFound ==
  ASSUME FoundInv, NEW s \in Scanners, Merges(s)
  PROVE  (\E scan : FoundGoes(s, scan)) /\ catalog'.shown = catalog.shown
<1>. DEFINE was == catalog.scans[s]
            scan == [was EXCEPT !.at = "lock", !.found = Merged(@)]
<1>1. CatalogShape /\ ScanShape(was) /\ ScanFound(was)
  BY DEF FoundInv, ScansFound, CatalogInv, ScansShape
<1>2. scan.at = "lock" /\ scan.next = was.next /\ scan.found = Merged(was.found)
  BY <1>1 DEF ScanShape
<1>3. catalog' = [catalog EXCEPT !.scans[s] = scan]
  BY DEF Merges, ScanOf
<1>. HIDE DEF scan
<1>4. /\ catalog'.scans = [catalog.scans EXCEPT ![s] = scan] /\ catalog'.lists = catalog.lists
      /\ catalog'.shown = catalog.shown
  BY <1>1, <1>3 DEF CatalogShape
<1>5. IsList(Merged(was.found)) /\ FoldersOnce(Merged(was.found))
  BY <1>1, MergedTrue DEF ScanFound, ShowsUpTo
<1>6. ScanFound(scan)
  BY <1>1, <1>2, <1>5 DEF ScanFound
<1>7. FoundGoes(s, scan)
  BY <1>2, <1>4, <1>6 DEF FoundGoes
<1>. QED BY <1>4, <1>7

\* The steps that change nothing of what was found.
LEMMA ElseFound ==
  ASSUME FoundInv, NEW s \in Scanners,
         StartsScan(s) \/ Locks(s) \/ ReadsCache(s) \/ StopsScan(s)
  PROVE  (\E scan : FoundGoes(s, scan)) /\ catalog'.shown = catalog.shown
<1>. DEFINE was == catalog.scans[s]
<1>1. CatalogShape /\ ScanShape(was) /\ ScanFound(was)
  BY DEF FoundInv, ScansFound, CatalogInv, ScansShape
<1>2. CASE StartsScan(s)
  <2>. DEFINE scan == [NoScanning EXCEPT !.at = "launchers"]
  <2>1. scan.at = "launchers" /\ scan.next = 1 /\ scan.found = << >>
    BY DEF NoScanning
  <2>2. catalog' = [catalog EXCEPT !.left = Without("scans"), !.scans[s] = scan]
    BY <1>2 DEF StartsScan
  <2>. HIDE DEF scan
  <2>3. /\ catalog'.scans = [catalog.scans EXCEPT ![s] = scan] /\ catalog'.lists = catalog.lists
        /\ catalog'.shown = catalog.shown
    BY <1>1, <2>2 DEF CatalogShape
  <2>4. ScanFound(scan)
    BY <2>1, NoList DEF ScanFound
  <2>. QED BY <2>1, <2>3, <2>4 DEF FoundGoes
<1>3. CASE Locks(s)
  <2>. DEFINE scan == [was EXCEPT !.at = "read"]
  <2>1. scan.at = "read" /\ scan.next = was.next /\ scan.found = was.found /\ was.at = "lock"
    BY <1>1, <1>3 DEF ScanShape, Locks, LockFree, ScanAt, ScanOf
  <2>2. /\ catalog'.scans = [catalog.scans EXCEPT ![s] = scan] /\ catalog'.lists = catalog.lists
        /\ catalog'.shown = catalog.shown
    BY <1>1, <1>3 DEF CatalogShape, Locks, LockFree
  <2>. HIDE DEF scan
  <2>4. ScanFound(scan)
    BY <1>1, <2>1 DEF ScanFound
  <2>. QED BY <2>1, <2>2, <2>4 DEF FoundGoes
<1>4. CASE ReadsCache(s)
  <2>. DEFINE scan == [was EXCEPT !.at = "write", !.old = catalog.cache]
  <2>1. scan.at = "write" /\ scan.next = was.next /\ scan.found = was.found /\ was.at = "read"
    BY <1>1, <1>4 DEF ScanShape, ReadsCache, ScanAt, ScanOf
  <2>2. catalog' = [catalog EXCEPT !.scans[s] = scan]
    BY <1>4 DEF ReadsCache, ScanOf
  <2>. HIDE DEF scan
  <2>3. /\ catalog'.scans = [catalog.scans EXCEPT ![s] = scan] /\ catalog'.lists = catalog.lists
        /\ catalog'.shown = catalog.shown
    BY <1>1, <2>2 DEF CatalogShape
  <2>4. ScanFound(scan)
    BY <1>1, <2>1 DEF ScanFound
  <2>. QED BY <2>1, <2>3, <2>4 DEF FoundGoes
<1>5. CASE StopsScan(s)
  <2>1. /\ catalog'.scans = [catalog.scans EXCEPT ![s] = NoScanning] /\ catalog'.lists = catalog.lists
        /\ catalog'.shown = catalog.shown
    BY <1>1, <1>5 DEF StopsScan, Ends, CatalogShape
  <2>2. NoScanning.at = "off"
    BY DEF NoScanning
  <2>. QED BY <2>1, <2>2, NoScanningFound DEF FoundGoes
<1>. QED BY <1>2, <1>3, <1>4, <1>5

LEMMA WritesFound ==
  ASSUME FoundInv, NEW s \in Scanners, WritesCache(s)
  PROVE  /\ \E scan : FoundGoes(s, scan)
         /\ \/ catalog'.shown = catalog.shown
            \/ catalog'.shown = [catalog.shown EXCEPT ![s] = Remembered(s)]
<1>. DEFINE ends == [catalog EXCEPT !.lock = IF catalog.lock = s THEN "free" ELSE catalog.lock,
                                    !.scans[s] = NoScanning]
<1>1. /\ Ends(s) = ends /\ CatalogShape
      /\ ends \in [left : {catalog.left}, mounted : {catalog.mounted},
                   folders : {catalog.folders}, lists : {catalog.lists},
                   locations : {catalog.locations}, cache : {catalog.cache},
                   lock : {IF catalog.lock = s THEN "free" ELSE catalog.lock},
                   scans : {[catalog.scans EXCEPT ![s] = NoScanning]},
                   shown : {catalog.shown}]
  BY DEF Ends, FoundInv, CatalogInv, CatalogShape
<1>. HIDE DEF ends
<1>2. /\ catalog'.scans = [catalog.scans EXCEPT ![s] = NoScanning] /\ catalog'.lists = catalog.lists
      /\ \/ catalog'.shown = catalog.shown
         \/ catalog'.shown = [catalog.shown EXCEPT ![s] = Remembered(s)]
  <2>1. CASE catalog' = [ends EXCEPT !.cache = Remembered(s), !.shown[s] = Remembered(s)]
    BY <1>1, <2>1
  <2>2. CASE \E left \in {catalog.cache, Remembered(s)} :
               catalog' = [ends EXCEPT !.left = Without("badSaves"), !.cache = left]
    <3>1. PICK left \in {catalog.cache, Remembered(s)} :
            catalog' = [ends EXCEPT !.left = Without("badSaves"), !.cache = left]
      BY <2>2
    <3>. QED BY <1>1, <3>1
  <2>. QED BY <1>1, <2>1, <2>2 DEF WritesCache
<1>3. NoScanning.at = "off"
  BY DEF NoScanning
<1>4. FoundGoes(s, NoScanning)
  BY <1>2, <1>3, NoScanningFound DEF FoundGoes
<1>. QED BY <1>2, <1>4

\* What a step of the system makes of the scans and of what they show.
LEMMA FoundStep ==
  ASSUME FoundInv, [DiscoveryNext]_catalog
  PROVE  /\ FoundInv'
         /\ \/ catalog'.scans = catalog.scans
            \/ \E s \in Scanners : \E scan : FoundGoes(s, scan)
         /\ \/ catalog'.shown = catalog.shown
            \/ \E s \in Scanners : /\ catalog.scans[s].at = "write"
                                   /\ catalog'.shown = [catalog.shown EXCEPT ![s] = Remembered(s)]
<1>1. CASE Swaps \/ InstallsGame \/ UpdatesGame \/ RemovesGame \/ AddPlace \/ RemovePlace
  BY <1>1, MachineFound
<1>2. ASSUME NEW s \in Scanners, ScanStep(s) \/ StopsScan(s)
      PROVE  /\ FoundInv'
             /\ \E scan : FoundGoes(s, scan)
             /\ \/ catalog'.shown = catalog.shown
                \/ /\ catalog.scans[s].at = "write"
                   /\ catalog'.shown = [catalog.shown EXCEPT ![s] = Remembered(s)]
  <2>1. CatalogInv'
    <3>1. CatalogInv
      BY DEF FoundInv
    <3>2. [DiscoveryNext]_catalog
      BY <1>2 DEF DiscoveryNext
    <3>. QED BY <3>1, <3>2, CatalogStep, Zenon
  <2>2. /\ \E scan : FoundGoes(s, scan)
        /\ \/ catalog'.shown = catalog.shown
           \/ /\ catalog.scans[s].at = "write"
              /\ catalog'.shown = [catalog.shown EXCEPT ![s] = Remembered(s)]
    BY <1>2, ReadsFound, CustomFound, MergesFound, ElseFound, WritesFound
    DEF ScanStep, WritesCache, ScanAt, ScanOf
  <2>3. PICK scan : FoundGoes(s, scan)
    BY <2>2
  <2>4. \A r \in Scanners : catalog'.scans[r] = IF r = s THEN scan ELSE catalog.scans[r]
    BY <2>3 DEF FoundGoes, FoundInv, CatalogInv, ScansShape
  <2>5. ScansFound' /\ ListsFinite'
    BY <2>3, <2>4 DEF ScansFound, ListsFinite, FoundGoes, FoundInv
  <2>6. DOMAIN catalog'.shown = Scanners
    BY <2>2 DEF FoundInv
  <2>. QED BY <2>1, <2>2, <2>5, <2>6 DEF FoundInv
<1>3. CASE UNCHANGED catalog
  <2>1. CatalogInv'
    BY CatalogStep DEF FoundInv
  <2>. QED BY <1>3, <2>1 DEF FoundInv, ListsFinite, ScansFound
<1>. QED BY <1>1, <1>2, <1>3 DEF DiscoveryNext

\* A record that a scan leaves broken, of a folder that is there on its drive, was seen broken.
LEMMA BrokenWasSeen ==
  ASSUME FoundInv, NEW s \in Scanners, catalog.scans[s].at = "write",
         NEW r \in Remembered(s), r.state = "broken", Online(r), There(r.place),
         NEW g \in Seqs!Range(ScanOf(s).found), SameFolder(g, r)
  PROVE  g.state = "broken"
<1>. DEFINE scan == ScanOf(s)
            found == Seqs!Range(scan.found)
            current == Current(found, catalog.cache)
<1>1. /\ scan.old = catalog.cache /\ IsList(scan.found) /\ FoldersOnce(scan.found) /\ OneDrive
  BY DEF FoundInv, CatalogInv, LockHeld, ScansFound, ScanFound, ScanOf
<1>2. Remembered(s) = current \cup {[o EXCEPT !.state = "broken"] :
                       o \in {o \in catalog.cache : Keeps(s, o) /\ \A c \in current : ~SameFolder(c, o)}}
  BY <1>1 DEF Remembered
<1>3. \A a, b \in found : SameFolder(a, b) => a = b
  BY <1>1 DEF FoldersOnce, Seqs!Range
<1>4. CASE r \in current
  <2>1. PICK f \in found : r.place = f.place /\ r.alias = f.alias /\ r.state = f.state
    BY <1>4 DEF Current
  <2>2. SameFolder(f, g)
    BY <2>1 DEF SameFolder
  <2>. QED BY <1>3, <2>1, <2>2
<1>5. CASE \E o \in catalog.cache : /\ r = [o EXCEPT !.state = "broken"]
                                    /\ \A c \in current : ~SameFolder(c, o)
  <2>1. PICK o \in catalog.cache : /\ r = [o EXCEPT !.state = "broken"]
                                   /\ \A c \in current : ~SameFolder(c, o)
    BY <1>5
  <2>2. r.place = o.place /\ r.alias = o.alias /\ r.drive = o.drive
    BY <1>1, <2>1 DEF OneDrive
  <2>3. SameFolder(o, g) /\ There(g.place)
    BY <2>2 DEF SameFolder
  <2>4. \A t \in catalog.cache : SameFolder(t, g) => Online(t)
    BY <1>1, <2>2, <2>3 DEF OneDrive, SameFolder, Online
  <2>5. OnItsDrive(catalog.cache, g)
    BY <2>4 DEF OnItsDrive
  <2>. DEFINE c == [ids |-> g.ids, place |-> g.place, alias |-> g.alias, state |-> g.state,
                    drive |-> DriveAt(g.place)]
  <2>6. c \in current
    BY <2>3, <2>5 DEF Current
  <2>7. SameFolder(c, o)
    BY <2>3 DEF SameFolder
  <2>. QED BY <2>1, <2>6, <2>7
<1>. QED BY <1>2, <1>4, <1>5

\* What a scan lists is true of what its launchers said and of the drives, for any number of
\* processes that scan, any launchers and folders: nothing a launcher listed is forgotten
\* (libraries.rs:69), no drive passes for another (libraries.rs:84), a game that is worked on
\* is not idle because another launcher lists it too, and one whose drive is back is usable.
THEOREM CatalogTrueEver == DiscoverySpec => CatalogTrue
<1>1. DiscoveryInit => FoundInv
  BY FoundInvInit
<1>2. FoundInv /\ [DiscoveryNext]_catalog => FoundInv'
  BY FoundStep
<1>3. FoundInv /\ [DiscoveryNext]_catalog =>
        [\A s \in Scanners : ScanAt(s, "merge") /\ ScanAt(s, "lock")' =>
           \A i \in DOMAIN catalog'.scans[s].found, g \in Seqs!Range(catalog.scans[s].found) :
               LET merged == catalog'.scans[s].found[i]
               IN SameFolder(merged, Canonical(g)) /\ g.state # "idle" => merged.state # "idle"]_catalog
  <2>. SUFFICES ASSUME FoundInv, [DiscoveryNext]_catalog, NEW s \in Scanners,
                       catalog.scans[s].at = "merge", catalog'.scans[s].at = "lock",
                       NEW i \in DOMAIN catalog'.scans[s].found,
                       NEW g \in Seqs!Range(catalog.scans[s].found),
                       SameFolder(catalog'.scans[s].found[i], Canonical(g)), g.state # "idle"
                PROVE  catalog'.scans[s].found[i].state # "idle"
    BY DEF ScanAt, ScanOf
  <2>. DEFINE found == catalog.scans[s].found
  <2>1. IsList(found)
    BY DEF FoundInv, ScansFound, ScanFound
  <2>2. catalog'.scans[s].found = Merged(found)
    <3>1. PICK r \in Scanners : \E scan : FoundGoes(r, scan)
      BY FoundStep
    <3>0. PICK scan : FoundGoes(r, scan)
      BY <3>1
    <3>2. catalog'.scans[s] = IF s = r THEN scan ELSE catalog.scans[s]
      BY <3>0 DEF FoundGoes, FoundInv, CatalogInv, ScansShape
    <3>. QED BY <3>0, <3>2 DEF FoundGoes
  <2>3. ShowsUpTo(Merged(found), found, Len(found)) /\ DOMAIN found = 1 .. Len(found)
    BY <2>1, MergedTrue
  <2>4. PICK j \in DOMAIN found : g = found[j]
    BY DEF Seqs!Range
  <2>. QED BY <2>2, <2>3, <2>4 DEF ShowsUpTo
<1>4. FoundInv /\ [DiscoveryNext]_catalog =>
        [\A s \in Scanners : \A r \in catalog'.shown[s] :
           /\ catalog'.shown[s] # catalog.shown[s]
           /\ r.state = "broken" /\ Online(r) /\ There(r.place)
           => \A g \in Seqs!Range(ScanOf(s).found) : SameFolder(g, r) => g.state = "broken"]_catalog
  <2>. SUFFICES ASSUME FoundInv, [DiscoveryNext]_catalog, NEW s \in Scanners,
                       NEW r \in catalog'.shown[s], catalog'.shown[s] # catalog.shown[s],
                       r.state = "broken", Online(r), There(r.place),
                       NEW g \in Seqs!Range(ScanOf(s).found), SameFolder(g, r)
                PROVE  g.state = "broken"
    OBVIOUS
  <2>1. catalog.scans[s].at = "write" /\ catalog'.shown[s] = Remembered(s)
    BY FoundStep DEF FoundInv
  <2>. QED BY <2>1, BrokenWasSeen
<1>. QED BY <1>1, <1>2, <1>3, <1>4, CatalogKeptEver, PTL DEF DiscoverySpec, CatalogTrue, BusyWins, BackIsUsable
==============================================================================

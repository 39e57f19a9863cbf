------------------------------ MODULE StoreProofs ------------------------------
(***************************************************************************)
(* Stores and the update layer over a mounted one, for any numbers of      *)
(* handlers, games, files, builds, destinations, requests and faults.      *)
(*                                                                         *)
(* A published compaction misses no write, a store in the shared pool is   *)
(* whole and true to one moment of its source, and pruning the pool is     *)
(* exact, through failures, deaths and prune passes.                       *)
(*                                                                         *)
(* Through requests, failed moves, failed journal writes, crashes and      *)
(* remounts a mount shows exactly the tree the requests made, and going    *)
(* back to ordinary files gives the same tree.  That proof has three       *)
(* parts.  Names: what within, above and moved mean.  Requests: the view   *)
(* of any store, upper tree and whiteouts, and how each change of a        *)
(* request, made in a sound state, leads to the next sound state; what is  *)
(* left when it is undone is sound too.  Steps: the invariant says which   *)
(* of these holds at each point of a request.  It assumes that a file of   *)
(* the store has one name (OwnNames), and of the behaviour ~Aliases and    *)
(* ~Swaps, the requests on which the code is known to differ from an       *)
(* ordinary tree.                                                          *)
(***************************************************************************)
EXTENDS Overlay, WriteGate, StoreBuild, SequenceTheorems, FiniteSetTheorems, WellFoundedInduction,
        TLAPS


-----------------------------------------------------------------------------
(***************************************************************************)
(* The gate on a mount's writes.  While a copy is made, a difference from  *)
(* the mount is owed to a handler still inside or already counted.         *)
(***************************************************************************)
GateTypeOK ==
    /\ content \in [Files -> Nat] /\ copy \in [Files -> Nat]
    /\ serving \in [Handlers -> {"none", "inside", "counted"}]
    /\ generation \in Nat /\ baseline \in Nat /\ frozen \in BOOLEAN
    /\ build \in {"idle", "copying", "published"} /\ copied \subseteq Files

\* Nobody is inside while writes are frozen, and a publication is frozen.
Quiet ==
    /\ frozen => \A h \in Handlers : serving[h] = "none"
    /\ build = "published" => frozen
    /\ frozen => build # "idle"
    /\ frozen => copied = Files

Accounted ==
    /\ build = "copying" =>
         /\ baseline <= generation
         /\ \A f \in copied : copy[f] = content[f] \/ generation > baseline
                              \/ \E h \in Handlers : serving[h] = "inside"
    /\ build = "published" => \A f \in Files : copy[f] = content[f]

GateInv == GateTypeOK /\ Quiet /\ Accounted

LEMMA GateInvInit == GateInit => GateInv
<1>. SUFFICES ASSUME GateInit PROVE GateInv
  OBVIOUS
<1>1. content \in [Files -> Nat] /\ copy \in [Files -> Nat]
  BY DEF GateInit
<1>2. serving \in [Handlers -> {"none", "inside", "counted"}]
  BY DEF GateInit
<1>3. generation \in Nat /\ baseline \in Nat /\ frozen = FALSE /\ build = "idle" /\ copied = {}
  BY DEF GateInit
<1>. QED BY <1>1, <1>2, <1>3 DEF GateInv, GateTypeOK, Quiet, Accounted

LEMMA GateInvNext == GateInv /\ [GateNext]_gate => GateInv'
<1>. SUFFICES ASSUME GateInv, [GateNext]_gate PROVE GateInv'
  OBVIOUS
<1>. USE DEF GateInv, GateTypeOK, Quiet, Accounted
<1>1. ASSUME NEW h \in Handlers, Enters(h) PROVE GateInv'
  BY <1>1 DEF Enters
<1>2. ASSUME NEW h \in Handlers, Counts(h) PROVE GateInv'
  BY <1>2 DEF Counts
<1>3. ASSUME NEW h \in Handlers, Leaves(h) PROVE GateInv'
  BY <1>3 DEF Leaves
<1>4. ASSUME NEW h \in Handlers, NEW f \in Files, Changes(h, f) PROVE GateInv'
  <2>1. serving'[h] = "inside" /\ ~frozen
    BY <1>4 DEF Changes
  <2>2. GateTypeOK' /\ Quiet'
    BY <1>4 DEF Changes
  <2>3. Accounted'
    BY <1>4, <2>1 DEF Changes
  <2>. QED BY <2>2, <2>3
<1>5. CASE Begin
  BY <1>5 DEF Begin
<1>6. CASE Freeze
  BY <1>6 DEF Freeze
<1>7. CASE Refuses
  BY <1>7 DEF Refuses
<1>8. CASE Publishes
  BY <1>8 DEF Publishes
<1>9. CASE Remounts
  BY <1>9 DEF Remounts
<1>10. ASSUME NEW f \in Files, Copies(f) PROVE GateInv'
  <2>1. GateTypeOK' /\ Quiet'
    BY <1>10 DEF Copies
  <2>2. Accounted'
    BY <1>10 DEF Copies
  <2>. QED BY <2>1, <2>2
<1>11. CASE UNCHANGED gate
  BY <1>11 DEF gate
<1>. QED
  BY <1>1, <1>2, <1>3, <1>4, <1>5, <1>6, <1>7, <1>8, <1>9, <1>10, <1>11 DEF GateNext

\* Everything the game wrote is in the store a compaction publishes, however many handlers
\* serve the mount and whatever becomes of their requests (mount.rs, Mutation and freeze).
THEOREM NothingMissedEver == GateSpec => []NothingMissed
<1>1. GateInv => NothingMissed
  BY DEF GateInv, GateTypeOK, Accounted, NothingMissed
<1>. QED BY <1>1, GateInvInit, GateInvNext, PTL DEF GateSpec

-----------------------------------------------------------------------------
(***************************************************************************)
(* The shared pool.  The invariant follows a build from its first walk:    *)
(* what it knows of a file is no newer than the file, and true of it as    *)
(* long as nobody wrote it; so the second walk, which finds every stamp    *)
(* unchanged, shows that all files were together what was read, when the   *)
(* bytes were verified.  The pool's lock does the rest: a build that has   *)
(* links, or is about to have one, holds it, and so does a prune pass.     *)
(***************************************************************************)
Working == {"walk", "files", "read", "publish", "persist", "link", "rewalk", "rename"}
Storing == {"read", "publish", "persist", "link"}
BuildPcs == {"idle", "lock", "done", "failed"} \cup Working
Contents == Chunks \cup {Nobody}
Making == [pc : BuildPcs, target : Targets \cup {Nobody}, shared : BOOLEAN,
           at : SUBSET SourceFiles, stamps : [SourceFiles -> Nat], found : SUBSET SourceFiles,
           data : [SourceFiles -> Contents], links : SUBSET Chunks,
           moments : SUBSET [SourceFiles -> Contents]]
StoreAt == [data : [SourceFiles -> Contents], links : SUBSET Chunks, shared : BOOLEAN]

BuildTypes ==
    /\ files \in [Games -> [SourceFiles -> [data : Contents, stamp : Nat]]]
    /\ pool \subseteq Chunks /\ temps \subseteq Builds
    /\ making \in [Builds -> Making]
    /\ stores \in [Targets -> {Nobody} \cup StoreAt]
    /\ prune \in [pc : {"idle", "pass", "synced"}, left : SUBSET Chunks, quiet : BOOLEAN,
                  passes : Nat]

\* A build with the pool holds the lock from its walk to its end, and has links of its
\* own only then; one without never touches the pool.
LockTrue(b) ==
    /\ making[b].shared /\ making[b].pc \in Working => lock = b
    /\ making[b].pc \in {"publish", "persist", "link"} => making[b].shared
    /\ making[b].pc = "persist" => b \in temps
    /\ making[b].pc = "link" => \A f \in making[b].at : making[b].data[f] \in pool
    /\ making[b].pc \notin Working \ {"walk"} \/ ~making[b].shared => making[b].links = {}

\* The file that is read is one, and it is there.
OneAtHand(b) ==
    making[b].pc \in Storing =>
        \E f \in SourceFiles : making[b].at = {f} /\ making[b].data[f] \in Chunks

\* What a build knows of a file it has walked over is no newer than the file; and when
\* nobody wrote the file since, it is what the file is.
Walked(b) == CASE making[b].pc = "lock" -> {}
               [] making[b].pc = "walk" -> SourceFiles \ making[b].at
               [] OTHER -> SourceFiles
SeenTrue(b) ==
    making[b].pc \in Working \cup {"lock"} =>
        /\ making[b].pc \in {"lock", "walk"} => \A f \in SourceFiles : making[b].data[f] = Nobody
        /\ making[b].pc = "lock" => making[b].at = SourceFiles
        /\ \A f \in SourceFiles \ Walked(b) : f \notin making[b].found
        /\ \A f \in SourceFiles : making[b].data[f] # Nobody => f \in making[b].found
        /\ \A f \in Walked(b) :
             LET now == files[GameOf[b]][f]
             IN  /\ making[b].stamps[f] <= now.stamp
                 /\ making[b].stamps[f] = now.stamp =>
                      /\ f \in making[b].found <=> now.data # Nobody
                      /\ making[b].data[f] \in {Nobody, now.data}

\* Every chunk of the files read so far has its link, but for the file at hand.
LinkedTrue(b) ==
    making[b].shared /\ making[b].pc \in Working =>
        \A f \in SourceFiles :
            \/ making[b].data[f] \in making[b].links \cup {Nobody}
            \/ making[b].pc \in Storing /\ f \in making[b].at

\* From the verification on, what was read is what the source was at one moment, if no
\* file that is still to be walked again changed.
Changed(b, f) ==
    making[b].pc = "rewalk" /\ f \in making[b].at /\ files[GameOf[b]][f].stamp # making[b].stamps[f]
MomentTrue(b) ==
    /\ making[b].pc \in {"rewalk", "rename"} =>
         \E m \in making[b].moments :
             \A f \in SourceFiles : Changed(b, f) \/ m[f] = making[b].data[f]
    /\ making[b].pc = "done" => making[b].data \in making[b].moments

BuildTrue(b) == LockTrue(b) /\ OneAtHand(b) /\ SeenTrue(b) /\ LinkedTrue(b) /\ MomentTrue(b)

\* A prune pass holds the lock, and what it has left in the pool somebody else holds.
PruneTrue ==
    /\ prune.pc # "idle" => lock = "prune"
    /\ prune.pc = "synced" => prune.left = {}
    /\ prune.pc # "idle" /\ prune.quiet => \A c \in pool \ prune.left : OtherwiseLinked(c)

StoreInv == BuildTypes /\ (\A b \in Builds : BuildTrue(b)) /\ PruneTrue /\ LinksOwn

-----------------------------------------------------------------------------
(* A build's steps. *)

LEMMA StoreInvInit == BuildInit => StoreInv
<1> SUFFICES ASSUME BuildInit PROVE StoreInv OBVIOUS
<1>1. \A b \in Builds : making[b] = NoBuild /\ making[b].pc = "idle"
  BY DEF BuildInit, NoBuild
<1>2. NoBuild \in Making
  BY DEF NoBuild, Making, BuildPcs, Contents, Unstamped
<1>3. BuildTypes BY <1>2 DEF BuildInit, BuildTypes, Contents
<1>4. ASSUME NEW b \in Builds PROVE BuildTrue(b)
  <2>1. making[b].links = {} BY <1>1 DEF NoBuild
  <2> QED
    BY <1>1, <2>1
    DEF BuildTrue, LockTrue, OneAtHand, SeenTrue, LinkedTrue, MomentTrue, Working, Storing
<1>5. PruneTrue /\ LinksOwn BY DEF BuildInit, PruneTrue, LinksOwn
<1> QED BY <1>3, <1>4, <1>5 DEF StoreInv

\* What a step leaves alone stays true of a build.
LEMMA OthersTrue ==
    ASSUME NEW b \in Builds, BuildTrue(b), making'[b] = making[b], UNCHANGED files,
           making[b].pc = "link" => pool \subseteq pool',
           making[b].pc = "persist" => b \in temps',
           lock = b => lock' = b
    PROVE  BuildTrue(b)'
<1>1. LockTrue(b)' BY DEF BuildTrue, LockTrue
<1>2. OneAtHand(b)' BY DEF BuildTrue, OneAtHand
<1>3. SeenTrue(b)' BY DEF BuildTrue, SeenTrue, Walked
<1>4. LinkedTrue(b)' BY DEF BuildTrue, LinkedTrue
<1>5. MomentTrue(b)' BY DEF BuildTrue, MomentTrue, Changed
<1> QED BY <1>1, <1>2, <1>3, <1>4, <1>5 DEF BuildTrue

\* A step of build b, from a valid state to one of b's: the others do not notice.
BuildMoved(b) ==
    /\ making' = [making EXCEPT ![b] = making'[b]] /\ making'[b] \in Making
    /\ BuildTrue(b)'

LEMMA BeginsTrue ==
    ASSUME StoreInv, NEW b \in Builds, BeginBuild(b) PROVE BuildMoved(b)
<1>1. PICK t \in TargetsOf[b], shared \in LayoutsOf[b] :
        making' = [making EXCEPT ![b] =
            [NoBuild EXCEPT !.pc = IF shared THEN "lock" ELSE "walk",
                            !.target = t, !.shared = shared, !.at = SourceFiles]]
  BY DEF BeginBuild
<1> DEFINE m == [NoBuild EXCEPT !.pc = IF shared THEN "lock" ELSE "walk",
                            !.target = t, !.shared = shared, !.at = SourceFiles]
<1>2. t \in Targets /\ shared \in BOOLEAN BY BuildGames
<1>3. /\ m.pc = (IF shared THEN "lock" ELSE "walk") /\ m.shared = shared /\ m.at = SourceFiles
      /\ m.found = {} /\ m.links = {} /\ m.data = [f \in SourceFiles |-> Nobody] /\ m \in Making
  BY <1>2 DEF NoBuild, Making, BuildPcs, Working, Contents, Unstamped
<1>4. making'[b] = m /\ making' = [making EXCEPT ![b] = making'[b]] BY <1>1 DEF StoreInv, BuildTypes
<1> HIDE DEF m
<1>5. LockTrue(b)' /\ OneAtHand(b)' BY <1>2, <1>3, <1>4 DEF LockTrue, OneAtHand, Working, Storing
<1>6. SeenTrue(b)' BY <1>2, <1>3, <1>4 DEF SeenTrue, Walked
<1>7. LinkedTrue(b)' /\ MomentTrue(b)' BY <1>2, <1>3, <1>4 DEF LinkedTrue, MomentTrue, Working
<1> QED BY <1>3, <1>4, <1>5, <1>6, <1>7 DEF BuildMoved, BuildTrue

\* A field that a step sets, and the ones it keeps.
LEMMA LockTakes == ASSUME StoreInv, NEW b \in Builds, LockPool(b) PROVE BuildMoved(b)
<1> DEFINE m == making[b]
<1>1. m \in Making /\ BuildTrue(b) BY DEF StoreInv, BuildTypes
<1>2. /\ making'[b] = [m EXCEPT !.pc = "walk"] /\ making' = [making EXCEPT ![b] = making'[b]]
      /\ m.pc = "lock" /\ lock' = b /\ files' = files
  BY DEF LockPool, StoreInv, BuildTypes
<1> HIDE DEF m
<1> USE DEF Making
<1>3. making'[b] \in Making BY <1>1, <1>2 DEF BuildPcs, Working
<1> QED
  BY <1>1, <1>2, <1>3
  DEF m, BuildMoved, BuildTrue, LockTrue, OneAtHand, SeenTrue, LinkedTrue, MomentTrue, Working,
      Storing, Walked

LEMMA WalkTrue == ASSUME StoreInv, NEW b \in Builds, Walk(b) PROVE BuildMoved(b)
<1> DEFINE m == making[b]
           n == making'[b]
<1>1. /\ m \in Making /\ BuildTrue(b) /\ GameOf[b] \in Games
      /\ files \in [Games -> [SourceFiles -> [data : Contents, stamp : Nat]]]
  <2>1. m \in Making
    BY DEF StoreInv, BuildTypes
  <2>2. BuildTrue(b) /\ GameOf[b] \in Games
    BY BuildGames DEF StoreInv
  <2>3. files \in [Games -> [SourceFiles -> [data : Contents, stamp : Nat]]]
    BY DEF StoreInv, BuildTypes
  <2>. QED BY <2>1, <2>2, <2>3
<1>2. PICK f \in m.at :
       making' = [making EXCEPT ![b].stamps[f] = files[GameOf[b]][f].stamp,
                              ![b].found = IF files[GameOf[b]][f].data = Nobody THEN @
                                           ELSE @ \cup {f},
                              ![b].at = @ \ {f},
                              ![b].pc = IF making[b].at = {f} THEN "files" ELSE "walk"]
  BY DEF Walk
<1>3. /\ n = [m EXCEPT !.stamps = [m.stamps EXCEPT ![f] = files[GameOf[b]][f].stamp],
                       !.found = IF files[GameOf[b]][f].data = Nobody THEN m.found
                                 ELSE m.found \cup {f},
                       !.at = m.at \ {f}, !.pc = IF m.at = {f} THEN "files" ELSE "walk"]
      /\ making' = [making EXCEPT ![b] = n] /\ m.pc = "walk"
      /\ UNCHANGED <<files, lock>>
  BY <1>2 DEF Walk, StoreInv, BuildTypes, Making
<1> HIDE DEF m, n
<1> DEFINE S == [m.stamps EXCEPT ![f] = files[GameOf[b]][f].stamp]
           F == IF files[GameOf[b]][f].data = Nobody THEN m.found ELSE m.found \cup {f}
           P == IF m.at = {f} THEN "files" ELSE "walk"
<1>9. n = [m EXCEPT !.stamps = S, !.found = F, !.at = m.at \ {f}, !.pc = P]
  BY <1>3
<1>10. f \in SourceFiles /\ m.found \subseteq SourceFiles /\ m.stamps \in [SourceFiles -> Nat]
  BY <1>1 DEF Making
<1>11. S \in [SourceFiles -> Nat] /\ F \subseteq SourceFiles /\ P \in BuildPcs
  BY <1>10, <1>1 DEF BuildPcs, Working
<1>12. /\ S = [m.stamps EXCEPT ![f] = files[GameOf[b]][f].stamp]
       /\ F = IF files[GameOf[b]][f].data = Nobody THEN m.found ELSE m.found \cup {f}
       /\ P = (IF m.at = {f} THEN "files" ELSE "walk")
  OBVIOUS
<1> HIDE DEF S, F, P
<1>13. /\ n.stamps = S /\ n.found = F /\ n.at = m.at \ {f} /\ n.pc = P
       /\ n.shared = m.shared /\ n.data = m.data /\ n.links = m.links /\ n.moments = m.moments
       /\ n.target = m.target
  BY <1>1, <1>9 DEF Making
<1>4. /\ n.stamps = [m.stamps EXCEPT ![f] = files[GameOf[b]][f].stamp]
      /\ n.found = IF files[GameOf[b]][f].data = Nobody THEN m.found ELSE m.found \cup {f}
      /\ n.at = m.at \ {f} /\ n.pc = (IF m.at = {f} THEN "files" ELSE "walk")
      /\ n.shared = m.shared /\ n.data = m.data /\ n.links = m.links /\ n.moments = m.moments
      /\ n.target = m.target
  BY <1>12, <1>13
<1>5. n \in Making /\ f \in SourceFiles BY <1>1, <1>9, <1>10, <1>11 DEF Making
<1>6. LockTrue(b)' /\ OneAtHand(b)'
  BY <1>1, <1>3, <1>4 DEF m, n, BuildTrue, LockTrue, OneAtHand, Working, Storing
<1>7. SeenTrue(b)'
  <2>1. \A h \in SourceFiles : m.data[h] = Nobody
    BY <1>1, <1>3 DEF m, BuildTrue, SeenTrue, Working
  <2>2. \A h \in SourceFiles : h \in n.at => h # f /\ h \in m.at /\ h \notin m.found
    BY <1>1, <1>3, <1>4 DEF m, BuildTrue, SeenTrue, Working, Walked
  <2>3. n.pc \in {"walk", "files"} /\ (n.pc = "files" => n.at = {}) BY <1>4
  <2>4. ASSUME NEW h \in SourceFiles, h \notin n.at
        PROVE  LET now == files[GameOf[b]][h]
               IN  /\ n.stamps[h] <= now.stamp
                   /\ n.stamps[h] = now.stamp => (h \in n.found <=> now.data # Nobody)
    <3>1. CASE h = f
      <4>1. n.stamps[h] = files[GameOf[b]][h].stamp BY <3>1, <1>4, <1>5, <1>10
      <4>3. f \notin m.found BY <1>1, <1>2, <1>3, <1>5 DEF m, BuildTrue, SeenTrue, Working, Walked
      <4>2. h \in n.found <=> files[GameOf[b]][h].data # Nobody BY <3>1, <1>4, <4>3
      <4> QED BY <4>1, <4>2, <1>1
    <3>2. CASE h # f
      <4>1. n.stamps[h] = m.stamps[h] /\ (h \in n.found <=> h \in m.found) /\ h \notin m.at
        BY <3>2, <1>1, <1>4, <2>4, <1>5 DEF Making
      <4> QED BY <4>1, <1>1, <1>3 DEF m, BuildTrue, SeenTrue, Working, Walked
    <3> QED BY <3>1, <3>2
  <2>5. /\ SourceFiles \ Walked(b)' \subseteq n.at
        /\ \A h \in Walked(b)' : h \in SourceFiles /\ h \notin n.at
    BY <2>3 DEF n, Walked
  <2>6. \A h \in SourceFiles : h \in n.at => h \notin n.found
    BY <2>2, <1>4
  <2>7. \A h \in SourceFiles : n.data[h] = Nobody BY <2>1, <1>4
  <2>8. files' = files BY <1>3
  <2> QED BY <2>3, <2>4, <2>5, <2>6, <2>7, <2>8 DEF n, SeenTrue
<1>8. LinkedTrue(b)' /\ MomentTrue(b)'
  BY <1>1, <1>3, <1>4 DEF m, n, BuildTrue, SeenTrue, LinkedTrue, MomentTrue, Working
<1> QED BY <1>3, <1>5, <1>6, <1>7, <1>8 DEF n, BuildMoved, BuildTrue

\* The chunk at hand is the one of the file at hand.
LEMMA ChunkAtHand ==
    ASSUME NEW b \in Builds, OneAtHand(b), making[b].pc \in Storing
    PROVE  /\ ChunkAt(b) \in Chunks
           /\ \A f \in SourceFiles : making[b].at = {f} => making[b].data[f] = ChunkAt(b)
<1>1. PICK f \in SourceFiles : making[b].at = {f} /\ making[b].data[f] \in Chunks
  BY DEF OneAtHand
<1>2. \A c \in Chunks : (\E h \in making[b].at : making[b].data[h] = c) <=> c = making[b].data[f]
  BY <1>1
<1>3. ChunkAt(b) = making[b].data[f] BY <1>1, <1>2 DEF ChunkAt
<1> QED BY <1>1, <1>3

LEMMA OpensTrue == ASSUME StoreInv, NEW b \in Builds, OpenFile(b) PROVE BuildMoved(b)
<1> DEFINE m == making[b]
           n == making'[b]
           now(f) == files[GameOf[b]][f]
<1>1. /\ m \in Making /\ BuildTrue(b) /\ GameOf[b] \in Games
      /\ files \in [Games -> [SourceFiles -> [data : Contents, stamp : Nat]]]
  BY BuildGames DEF StoreInv, BuildTypes
<1>2. PICK f \in Unread(b) :
        /\ now(f).stamp = m.stamps[f]
        /\ making' = [making EXCEPT ![b].pc = "read", ![b].at = {f}, ![b].data[f] = now(f).data]
  BY DEF OpenFile
<1>14. making' = [making EXCEPT ![b] =
                     [m EXCEPT !.pc = "read", !.at = {f},
                               !.data = [m.data EXCEPT ![f] = now(f).data]]]
  BY <1>1, <1>2 DEF StoreInv, BuildTypes, Making
<1>3. /\ n = [m EXCEPT !.pc = "read", !.at = {f}, !.data = [m.data EXCEPT ![f] = now(f).data]]
      /\ making' = [making EXCEPT ![b] = n] /\ m.pc = "files" /\ UNCHANGED <<files, lock>>
  BY <1>14 DEF OpenFile, StoreInv, BuildTypes
<1>4. f \in m.found /\ m.data[f] = Nobody /\ f \in SourceFiles
  BY <1>1 DEF Unread, Making
<1>5. now(f).data # Nobody /\ now(f).data \in Chunks
  <2>1. f \in Walked(b) BY <1>3, <1>4 DEF Walked
  <2>2. f \in m.found <=> now(f).data # Nobody
    BY <1>1, <1>2, <1>3, <2>1 DEF BuildTrue, SeenTrue, Working
  <2> QED BY <2>2, <1>1, <1>4 DEF Contents
<1> HIDE DEF m, n
<1>6. /\ n.data = [m.data EXCEPT ![f] = now(f).data]
      /\ n.pc = "read" /\ n.at = {f} /\ n.stamps = m.stamps /\ n.found = m.found
      /\ n.shared = m.shared /\ n.links = m.links
  BY <1>1, <1>3 DEF Making
<1>7. n \in Making BY <1>1, <1>3, <1>4, <1>5 DEF Making, BuildPcs, Working, Contents
<1>8. n.data[f] = now(f).data /\ (\A h \in SourceFiles : h # f => n.data[h] = m.data[h])
  BY <1>1, <1>4, <1>6 DEF Making
<1>9. LockTrue(b)' BY <1>1, <1>3, <1>6 DEF m, n, BuildTrue, LockTrue, Working
<1>10. OneAtHand(b)' BY <1>4, <1>5, <1>6, <1>8 DEF n, OneAtHand
<1>11. SeenTrue(b)'
  <2>1. \A h \in SourceFiles :
          /\ m.stamps[h] <= now(h).stamp
          /\ m.data[h] # Nobody => h \in m.found
          /\ m.stamps[h] = now(h).stamp => /\ h \in m.found <=> now(h).data # Nobody
                                           /\ m.data[h] \in {Nobody, now(h).data}
    BY <1>1, <1>3 DEF m, BuildTrue, SeenTrue, Working, Walked
  <2>2. \A h \in SourceFiles : n.data[h] # Nobody => h \in n.found BY <2>1, <1>4, <1>6, <1>8
  <2>3. \A h \in SourceFiles : n.data[h] \in {m.data[h], now(h).data} BY <1>8
  <2>4. \A h \in SourceFiles :
          LET x == files'[GameOf[b]][h]
          IN  /\ n.stamps[h] <= x.stamp
              /\ n.stamps[h] = x.stamp => /\ h \in n.found <=> x.data # Nobody
                                          /\ n.data[h] \in {Nobody, x.data}
    BY <2>1, <2>3, <1>3, <1>6
  <2> QED BY <2>2, <2>4, <1>6 DEF n, SeenTrue, Walked
<1>12. LinkedTrue(b)'
  BY <1>1, <1>3, <1>6, <1>8 DEF m, n, BuildTrue, LinkedTrue, Working, Storing
<1>13. MomentTrue(b)' BY <1>6 DEF n, MomentTrue
<1> QED BY <1>3, <1>7, <1>9, <1>10, <1>11, <1>12, <1>13 DEF n, BuildMoved, BuildTrue

\* A step that changes no more than where the build is, from one point after the walk to
\* another before the last look: what it has seen stays true.
Points(b, pc, links) ==
    making' = [making EXCEPT ![b] = [making[b] EXCEPT !.pc = pc, !.links = links]]

LEMMA PointMoves ==
    ASSUME StoreInv, NEW b \in Builds, UNCHANGED <<files, lock>>,
           making[b].pc \in Working \ {"walk", "rewalk", "rename"},
           NEW pc \in Working \ {"walk", "rewalk", "rename"}, NEW links \in SUBSET Chunks,
           Points(b, pc, links)
    PROVE  /\ making' = [making EXCEPT ![b] = making'[b]] /\ making'[b] \in Making
           /\ making'[b].pc = pc /\ making'[b].links = links
           /\ making'[b].at = making[b].at /\ making'[b].data = making[b].data
           /\ making'[b].shared = making[b].shared
           /\ SeenTrue(b)' /\ MomentTrue(b)'
<1> DEFINE m == making[b]
           n == making'[b]
<1>1. m \in Making /\ BuildTrue(b) /\ m.pc \in Working \ {"walk", "rewalk", "rename"}
  BY DEF StoreInv, BuildTypes
<1>2. n = [m EXCEPT !.pc = pc, !.links = links] /\ making' = [making EXCEPT ![b] = n]
  BY DEF Points, StoreInv, BuildTypes
<1> HIDE DEF m, n
<1>3. n \in Making BY <1>1, <1>2 DEF Making, BuildPcs, Working
<1>4. /\ n.pc = pc /\ n.links = links /\ n.at = m.at /\ n.data = m.data
      /\ n.shared = m.shared /\ n.stamps = m.stamps /\ n.found = m.found
  BY <1>1, <1>2 DEF Making
<1>5. SeenTrue(b)' BY <1>1, <1>4 DEF m, n, BuildTrue, SeenTrue, Walked, Working
<1>6. MomentTrue(b)' BY <1>4 DEF n, MomentTrue, Working
<1> QED BY <1>2, <1>3, <1>4, <1>5, <1>6 DEF m, n

LEMMA FinishesTrue == ASSUME StoreInv, NEW b \in Builds, FinishFile(b) PROVE BuildMoved(b)
<1>1. /\ making[b] \in Making /\ BuildTrue(b) /\ making[b].pc = "read"
      /\ UNCHANGED <<files, lock>> /\ making \in [Builds -> Making]
  BY DEF StoreInv, BuildTypes, FinishFile
<1>2. PICK f \in SourceFiles : making[b].at = {f} /\ making[b].data[f] \in Chunks
  BY <1>1 DEF BuildTrue, OneAtHand, Storing
<1> DEFINE pc == IF ~making[b].shared \/ making[b].data[f] \in making[b].links
                 THEN "files" ELSE "publish"
<1>3. making' = [making EXCEPT ![b].pc = pc] BY <1>2 DEF FinishFile
<1>4. /\ pc \in {"files", "publish"}
      /\ pc = "publish" => making[b].shared
      /\ pc = "files" => ~making[b].shared \/ making[b].data[f] \in making[b].links
  OBVIOUS
<1> HIDE DEF pc
<1>5. Points(b, pc, making[b].links) BY <1>1, <1>3 DEF Points, Making
<1>6. /\ making' = [making EXCEPT ![b] = making'[b]] /\ making'[b] \in Making
      /\ making'[b].pc = pc /\ making'[b].links = making[b].links
      /\ making'[b].at = making[b].at /\ making'[b].data = making[b].data
      /\ making'[b].shared = making[b].shared /\ SeenTrue(b)' /\ MomentTrue(b)'
  <2>1. pc \in Working \ {"walk", "rewalk", "rename"} BY <1>4 DEF Working
  <2>2. making[b].pc \in Working \ {"walk", "rewalk", "rename"} BY <1>1 DEF Working
  <2>3. making[b].links \in SUBSET Chunks BY <1>1 DEF Making
  <2> QED BY <2>1, <2>2, <2>3, <1>1, <1>5, PointMoves
<1>7. LockTrue(b)' BY <1>1, <1>4, <1>6 DEF BuildTrue, LockTrue, Working
<1>8. OneAtHand(b)' BY <1>2, <1>6 DEF OneAtHand
<1>9. LinkedTrue(b)'
  BY <1>1, <1>2, <1>4, <1>6 DEF BuildTrue, LinkedTrue, Working, Storing
<1> QED BY <1>6, <1>7, <1>8, <1>9 DEF BuildMoved, BuildTrue

LEMMA PublishesTrue == ASSUME StoreInv, NEW b \in Builds, PublishObject(b) PROVE BuildMoved(b)
<1>1. /\ making[b] \in Making /\ BuildTrue(b) /\ making[b].pc = "publish"
      /\ UNCHANGED <<files, lock, pool>> /\ making \in [Builds -> Making]
  BY DEF StoreInv, BuildTypes, PublishObject
<1>2. PICK f \in SourceFiles : making[b].at = {f} /\ making[b].data[f] \in Chunks
  BY <1>1 DEF BuildTrue, OneAtHand, Storing
<1>3. ChunkAt(b) = making[b].data[f] BY <1>1, <1>2, ChunkAtHand DEF BuildTrue, Storing
<1> DEFINE pc == IF ChunkAt(b) \in pool THEN "link" ELSE "persist"
<1>4. /\ making' = [making EXCEPT ![b].pc = pc]
      /\ temps' = IF ChunkAt(b) \in pool THEN temps ELSE temps \cup {b}
  BY DEF PublishObject
<1>5. /\ pc \in {"link", "persist"}
      /\ pc = "link" => making[b].data[f] \in pool
      /\ pc = "persist" => b \in temps'
  BY <1>3, <1>4
<1> HIDE DEF pc
<1>6. Points(b, pc, making[b].links) BY <1>1, <1>4 DEF Points, Making
<1>7. /\ making' = [making EXCEPT ![b] = making'[b]] /\ making'[b] \in Making
      /\ making'[b].pc = pc /\ making'[b].links = making[b].links
      /\ making'[b].at = making[b].at /\ making'[b].data = making[b].data
      /\ making'[b].shared = making[b].shared /\ SeenTrue(b)' /\ MomentTrue(b)'
  <2>1. pc \in Working \ {"walk", "rewalk", "rename"} BY <1>5 DEF Working
  <2>2. making[b].pc \in Working \ {"walk", "rewalk", "rename"} BY <1>1 DEF Working
  <2>3. making[b].links \in SUBSET Chunks BY <1>1 DEF Making
  <2> QED BY <2>1, <2>2, <2>3, <1>1, <1>6, PointMoves
<1>8. LockTrue(b)' BY <1>1, <1>2, <1>5, <1>7 DEF BuildTrue, LockTrue, Working
<1>9. OneAtHand(b)' BY <1>2, <1>7 DEF OneAtHand
<1>10. LinkedTrue(b)' BY <1>1, <1>5, <1>7 DEF BuildTrue, LinkedTrue, Working, Storing
<1> QED BY <1>7, <1>8, <1>9, <1>10 DEF BuildMoved, BuildTrue

LEMMA PersistsTrue == ASSUME StoreInv, NEW b \in Builds, PersistObject(b) PROVE BuildMoved(b)
<1>1. /\ making[b] \in Making /\ BuildTrue(b) /\ making[b].pc = "persist"
      /\ UNCHANGED <<files, lock>> /\ making \in [Builds -> Making]
  BY DEF StoreInv, BuildTypes, PersistObject
<1>2. PICK f \in SourceFiles : making[b].at = {f} /\ making[b].data[f] \in Chunks
  BY <1>1 DEF BuildTrue, OneAtHand, Storing
<1>3. ChunkAt(b) = making[b].data[f] BY <1>1, <1>2, ChunkAtHand DEF BuildTrue, Storing
<1>4. making' = [making EXCEPT ![b].pc = "link"] /\ pool' = pool \cup {ChunkAt(b)}
  BY DEF PersistObject
<1>5. Points(b, "link", making[b].links) BY <1>1, <1>4 DEF Points, Making
<1>6. /\ making' = [making EXCEPT ![b] = making'[b]] /\ making'[b] \in Making
      /\ making'[b].pc = "link" /\ making'[b].links = making[b].links
      /\ making'[b].at = making[b].at /\ making'[b].data = making[b].data
      /\ making'[b].shared = making[b].shared /\ SeenTrue(b)' /\ MomentTrue(b)'
  <2>1. "link" \in Working \ {"walk", "rewalk", "rename"} BY DEF Working
  <2>2. making[b].pc \in Working \ {"walk", "rewalk", "rename"} BY <1>1 DEF Working
  <2>3. making[b].links \in SUBSET Chunks BY <1>1 DEF Making
  <2> QED BY <2>1, <2>2, <2>3, <1>1, <1>5, PointMoves
<1>7. LockTrue(b)' BY <1>1, <1>2, <1>3, <1>4, <1>6 DEF BuildTrue, LockTrue, Working
<1>8. OneAtHand(b)' BY <1>2, <1>6 DEF OneAtHand
<1>9. LinkedTrue(b)' BY <1>1, <1>6 DEF BuildTrue, LinkedTrue, Working, Storing
<1> QED BY <1>6, <1>7, <1>8, <1>9 DEF BuildMoved, BuildTrue

LEMMA LinksTrue == ASSUME StoreInv, NEW b \in Builds, LinkObject(b) PROVE BuildMoved(b)
<1>1. /\ making[b] \in Making /\ BuildTrue(b) /\ making[b].pc = "link"
      /\ UNCHANGED <<files, lock>> /\ making \in [Builds -> Making]
  BY DEF StoreInv, BuildTypes, LinkObject
<1>2. PICK f \in SourceFiles : making[b].at = {f} /\ making[b].data[f] \in Chunks
  BY <1>1 DEF BuildTrue, OneAtHand, Storing
<1>3. ChunkAt(b) = making[b].data[f] BY <1>1, <1>2, ChunkAtHand DEF BuildTrue, Storing
<1> DEFINE links == making[b].links \cup {ChunkAt(b)}
<1>4. links \in SUBSET Chunks BY <1>1, <1>2, <1>3 DEF Making
<1>5. Points(b, "files", links) BY <1>1 DEF Points, Making, LinkObject
<1>6. making[b].data[f] \in links /\ making[b].links \subseteq links BY <1>3
<1> HIDE DEF links
<1>7. /\ making' = [making EXCEPT ![b] = making'[b]] /\ making'[b] \in Making
      /\ making'[b].pc = "files" /\ making'[b].links = links
      /\ making'[b].at = making[b].at /\ making'[b].data = making[b].data
      /\ making'[b].shared = making[b].shared /\ SeenTrue(b)' /\ MomentTrue(b)'
  <2>1. "files" \in Working \ {"walk", "rewalk", "rename"} BY DEF Working
  <2>2. making[b].pc \in Working \ {"walk", "rewalk", "rename"} BY <1>1 DEF Working
  <2> QED BY <2>1, <2>2, <1>1, <1>4, <1>5, PointMoves
<1>8. LockTrue(b)' BY <1>1, <1>7 DEF BuildTrue, LockTrue, Working
<1>9. OneAtHand(b)' BY <1>7 DEF OneAtHand, Storing
<1>10. LinkedTrue(b)' BY <1>1, <1>2, <1>6, <1>7 DEF BuildTrue, LinkedTrue, Working, Storing
<1> QED BY <1>7, <1>8, <1>9, <1>10 DEF BuildMoved, BuildTrue

\* The moment of the verification is the one the store is of.
LEMMA VerifiesTrue == ASSUME StoreInv, NEW b \in Builds, VerifyStaged(b) PROVE BuildMoved(b)
<1> DEFINE m == making[b]
           n == making'[b]
           D == DataOf(GameOf[b])
<1>1. /\ m \in Making /\ BuildTrue(b) /\ m.pc = "files" /\ GameOf[b] \in Games
      /\ UNCHANGED <<files, lock>> /\ Unread(b) = {}
      /\ files \in [Games -> [SourceFiles -> [data : Contents, stamp : Nat]]]
  BY BuildGames DEF StoreInv, BuildTypes, VerifyStaged
<1>2. /\ n = [m EXCEPT !.pc = "rewalk", !.at = SourceFiles, !.moments = {D}]
      /\ making' = [making EXCEPT ![b] = n]
  BY DEF VerifyStaged, StoreInv, BuildTypes
<1>3. D = [f \in SourceFiles |-> files[GameOf[b]][f].data] BY DEF DataOf
<1> HIDE DEF n, D
<1>4. \A f \in SourceFiles : f \in m.found => m.data[f] # Nobody BY <1>1 DEF Unread
<1>5. \A f \in SourceFiles :
        /\ m.data[f] # Nobody => f \in m.found
        /\ m.stamps[f] <= files[GameOf[b]][f].stamp
        /\ m.stamps[f] = files[GameOf[b]][f].stamp =>
             /\ f \in m.found <=> files[GameOf[b]][f].data # Nobody
             /\ m.data[f] \in {Nobody, files[GameOf[b]][f].data}
  BY <1>1 DEF BuildTrue, SeenTrue, Working, Walked
<1> HIDE DEF m
<1>6. D \in [SourceFiles -> Contents] BY <1>1, <1>3
<1>7. n \in Making BY <1>1, <1>2, <1>6 DEF Making, BuildPcs, Working
<1>8. /\ n.pc = "rewalk" /\ n.at = SourceFiles /\ n.moments = {D} /\ n.data = m.data
      /\ n.stamps = m.stamps /\ n.found = m.found /\ n.links = m.links /\ n.shared = m.shared
  BY <1>1, <1>2 DEF Making
<1>9. \A f \in SourceFiles :
        m.stamps[f] = files[GameOf[b]][f].stamp => D[f] = m.data[f]
  BY <1>3, <1>4, <1>5
<1>10. MomentTrue(b)'
  <2>1. \A f \in SourceFiles : Changed(b, f)' \/ D[f] = n.data[f]
    BY <1>1, <1>8, <1>9 DEF n, Changed
  <2>2. D \in n.moments /\ n.pc # "done" BY <1>8
  <2> QED BY <2>1, <2>2 DEF n, MomentTrue
<1>11. LockTrue(b)' BY <1>1, <1>8 DEF m, n, BuildTrue, LockTrue, Working
<1>12. OneAtHand(b)' BY <1>8 DEF n, OneAtHand, Storing
<1>13. SeenTrue(b)' BY <1>1, <1>5, <1>8 DEF n, SeenTrue, Walked
<1>14. LinkedTrue(b)' BY <1>1, <1>8 DEF m, n, BuildTrue, LinkedTrue, Working, Storing
<1> QED BY <1>2, <1>7, <1>10, <1>11, <1>12, <1>13, <1>14 DEF n, BuildMoved, BuildTrue

LEMMA RewalksTrue == ASSUME StoreInv, NEW b \in Builds, Rewalk(b) PROVE BuildMoved(b)
<1> DEFINE m == making[b]
           n == making'[b]
<1>1. /\ m \in Making /\ BuildTrue(b) /\ m.pc = "rewalk" /\ UNCHANGED <<files, lock>>
  BY DEF StoreInv, BuildTypes, Rewalk
<1>2. PICK f \in m.at :
        /\ files[GameOf[b]][f].stamp = m.stamps[f]
        /\ making' = [making EXCEPT ![b].at = @ \ {f},
                                    ![b].pc = IF making[b].at = {f} THEN "rename" ELSE "rewalk"]
  BY DEF Rewalk
<1> DEFINE pc == IF m.at = {f} THEN "rename" ELSE "rewalk"
<1>3. n = [m EXCEPT !.at = m.at \ {f}, !.pc = pc] /\ making' = [making EXCEPT ![b] = n]
  BY <1>2 DEF StoreInv, BuildTypes, Making
<1>4. /\ pc \in {"rename", "rewalk"}
      /\ pc = "rename" => m.at \ {f} = {}
  OBVIOUS
<1> HIDE DEF m, n, pc
<1>5. n \in Making BY <1>1, <1>3, <1>4 DEF Making, BuildPcs, Working
<1>6. /\ n.pc = pc /\ n.at = m.at \ {f} /\ n.moments = m.moments /\ n.data = m.data
      /\ n.stamps = m.stamps /\ n.found = m.found /\ n.links = m.links /\ n.shared = m.shared
  BY <1>1, <1>3 DEF Making
<1>7. MomentTrue(b)'
  <2>1. PICK x \in m.moments : \A h \in SourceFiles : Changed(b, h) \/ x[h] = m.data[h]
    BY <1>1 DEF m, BuildTrue, MomentTrue
  <2>2. ASSUME NEW h \in SourceFiles, Changed(b, h) PROVE Changed(b, h)'
    BY <2>2, <1>1, <1>2, <1>4, <1>6 DEF m, n, Changed
  <2> QED BY <2>1, <2>2, <1>4, <1>6 DEF n, MomentTrue
<1>8. LockTrue(b)' BY <1>1, <1>4, <1>6 DEF m, n, BuildTrue, LockTrue, Working
<1>9. OneAtHand(b)' BY <1>4, <1>6 DEF n, OneAtHand, Storing
<1>10. SeenTrue(b)' BY <1>1, <1>4, <1>6 DEF m, n, BuildTrue, SeenTrue, Walked, Working
<1>11. LinkedTrue(b)' BY <1>1, <1>4, <1>6 DEF m, n, BuildTrue, LinkedTrue, Working, Storing
<1> QED BY <1>3, <1>5, <1>7, <1>8, <1>9, <1>10, <1>11 DEF n, BuildMoved, BuildTrue

LEMMA RenamesTrue == ASSUME StoreInv, NEW b \in Builds, Publish(b) PROVE BuildMoved(b)
<1> DEFINE m == making[b]
           n == making'[b]
<1>1. /\ m \in Making /\ BuildTrue(b) /\ m.pc = "rename" BY DEF StoreInv, BuildTypes, Publish
<1>2. n = [m EXCEPT !.pc = "done", !.links = {}] /\ making' = [making EXCEPT ![b] = n]
  BY DEF Publish, StoreInv, BuildTypes
<1> HIDE DEF n
<1>3. PICK x \in m.moments : \A f \in SourceFiles : x[f] = m.data[f]
  BY <1>1 DEF BuildTrue, MomentTrue, Changed
<1> HIDE DEF m
<1>4. x = m.data BY <1>1, <1>3 DEF Making
<1>5. n \in Making BY <1>1, <1>2 DEF Making, BuildPcs, Working
<1>6. n.pc = "done" /\ n.links = {} /\ n.data = m.data /\ n.moments = m.moments
  BY <1>1, <1>2 DEF Making
<1>7. MomentTrue(b)' BY <1>3, <1>4, <1>6 DEF n, MomentTrue
<1>8. LockTrue(b)' /\ OneAtHand(b)' /\ SeenTrue(b)' /\ LinkedTrue(b)'
  BY <1>6 DEF n, LockTrue, OneAtHand, SeenTrue, LinkedTrue, Working, Storing
<1> QED BY <1>2, <1>5, <1>7, <1>8 DEF n, BuildMoved, BuildTrue

\* A build that ended badly says nothing.
LEMMA EndsTrue ==
    ASSUME StoreInv, NEW b \in Builds, FailBuild(b) \/ KillBuild(b)
    PROVE  BuildMoved(b)
<1> DEFINE n == making'[b]
<1>1. n = [NoBuild EXCEPT !.pc = "failed"] /\ making' = [making EXCEPT ![b] = n]
  BY DEF FailBuild, KillBuild, StoreInv, BuildTypes
<1> HIDE DEF n
<1>2. n \in Making /\ n.pc = "failed" /\ n.links = {}
  BY <1>1 DEF NoBuild, Making, BuildPcs, Contents, Unstamped
<1>3. LockTrue(b)' /\ OneAtHand(b)' /\ SeenTrue(b)' /\ LinkedTrue(b)' /\ MomentTrue(b)'
  BY <1>2 DEF n, LockTrue, OneAtHand, SeenTrue, LinkedTrue, MomentTrue, Working, Storing
<1> QED BY <1>1, <1>2, <1>3 DEF n, BuildMoved, BuildTrue

\* What a step of a build does to the rest: it touches the pool only with the lock.
Shared(b) ==
    /\ files' = files
    /\ pool' = pool \/ (lock = b /\ pool \subseteq pool' /\ pool' \subseteq Chunks)
    /\ temps' \in SUBSET Builds /\ temps \ {b} \subseteq temps'
    /\ lock' = lock \/ (lock \in {b, Nobody} /\ lock' \in {b, Nobody})
    /\ prune' = prune \/ prune' = [prune EXCEPT !.quiet = FALSE]
    /\ orphans' = orphans \/ orphans' = orphans \cup making[b].links
    /\ \/ stores' = stores
       \/ /\ making[b].pc = "rename" /\ stores[making[b].target] = Nobody
          /\ stores' = [stores EXCEPT ![making[b].target] =
               [data |-> making[b].data, links |-> making[b].links, shared |-> making[b].shared]]

LEMMA StepsShared ==
    ASSUME StoreInv, NEW b \in Builds, BuildStep(b) PROVE BuildMoved(b) /\ Shared(b)
<1> USE DEF Shared
<1>0. temps \subseteq Builds /\ pool \subseteq Chunks /\ BuildTrue(b) BY DEF StoreInv, BuildTypes
<1>1. CASE BeginBuild(b) BY <1>0, <1>1, BeginsTrue DEF BeginBuild
<1>2. CASE LockPool(b) BY <1>0, <1>2, LockTakes DEF LockPool
<1>3. CASE Walk(b) BY <1>0, <1>3, WalkTrue DEF Walk
<1>4. CASE OpenFile(b) BY <1>0, <1>4, OpensTrue DEF OpenFile
<1>5. CASE FinishFile(b) BY <1>0, <1>5, FinishesTrue DEF FinishFile
<1>6. CASE PublishObject(b) BY <1>0, <1>6, PublishesTrue DEF PublishObject
<1>7. CASE PersistObject(b)
  <2>1. ChunkAt(b) \in Chunks /\ lock = b
    BY <1>0, <1>7, ChunkAtHand DEF PersistObject, BuildTrue, LockTrue, Working, Storing
  <2> QED BY <1>0, <1>7, <2>1, PersistsTrue DEF PersistObject
<1>8. CASE LinkObject(b) BY <1>0, <1>8, LinksTrue DEF LinkObject
<1>9. CASE VerifyStaged(b) BY <1>0, <1>9, VerifiesTrue DEF VerifyStaged
<1>10. CASE Rewalk(b) BY <1>0, <1>10, RewalksTrue DEF Rewalk
<1>11. CASE Publish(b) BY <1>0, <1>11, RenamesTrue DEF Publish
<1>12. CASE FailBuild(b) BY <1>0, <1>12, EndsTrue DEF FailBuild
<1>13. CASE KillBuild(b) BY <1>0, <1>13, EndsTrue DEF KillBuild
<1> QED
  BY <1>1, <1>2, <1>3, <1>4, <1>5, <1>6, <1>7, <1>8, <1>9, <1>10, <1>11, <1>12, <1>13
  DEF BuildStep

\* A store that is put in place has its links.
LEMMA RenamesOwn ==
    ASSUME StoreInv, NEW b \in Builds, BuildStep(b)
    PROVE  LinksOwn' /\ stores' \in [Targets -> {Nobody} \cup StoreAt]
<1>1. CASE stores' = stores BY <1>1 DEF StoreInv, BuildTypes, LinksOwn
<1>2. CASE stores' # stores
  <2> DEFINE m == making[b]
             S == [data |-> m.data, links |-> m.links, shared |-> m.shared]
  <2>1. m.pc = "rename" /\ stores' = [stores EXCEPT ![m.target] = S] BY <1>2, StepsShared DEF Shared
  <2>2. m \in Making /\ BuildTrue(b) /\ stores \in [Targets -> {Nobody} \cup StoreAt]
    BY DEF StoreInv, BuildTypes
  <2>3. m.shared => \A f \in SourceFiles : m.data[f] \in m.links \cup {Nobody}
    BY <2>1, <2>2 DEF BuildTrue, LinkedTrue, Working, Storing
  <2> HIDE DEF m
  <2>4. S \in StoreAt /\ S.data = m.data /\ S.links = m.links /\ S.shared = m.shared
    BY <2>2 DEF Making, StoreAt
  <2> HIDE DEF S
  <2>5. \A t \in Targets : stores'[t] \in {stores[t], S} BY <2>1, <2>2
  <2> QED BY <2>1, <2>2, <2>3, <2>4, <2>5 DEF StoreInv, LinksOwn
<1> QED BY <1>1, <1>2

\* While a prune pass runs, no build has links, so none of them can be lost or gained.
LEMMA NoLinks ==
    ASSUME StoreInv, prune.pc # "idle"
    PROVE  lock = "prune" /\ \A b \in Builds : making[b].links = {}
<1>1. lock = "prune" BY DEF StoreInv, PruneTrue
<1>2. ASSUME NEW b \in Builds PROVE making[b].links = {}
  <2>1. lock # b /\ BuildTrue(b) BY <1>1, BuildGames DEF StoreInv
  <2> QED BY <2>1 DEF BuildTrue, LockTrue, Working
<1> QED BY <1>1, <1>2

LEMMA StepsPrune ==
    ASSUME StoreInv, NEW b \in Builds, BuildStep(b)
    PROVE  /\ PruneTrue'
           /\ prune' \in [pc : {"idle", "pass", "synced"}, left : SUBSET Chunks, quiet : BOOLEAN,
                          passes : Nat]
<1>1. BuildMoved(b) /\ Shared(b) BY StepsShared
<1>2. /\ prune'.pc = prune.pc /\ prune'.left = prune.left
      /\ prune'.quiet => prune.quiet
      /\ prune' \in [pc : {"idle", "pass", "synced"}, left : SUBSET Chunks, quiet : BOOLEAN,
                     passes : Nat]
  <2>1. CASE prune' = prune BY <2>1 DEF StoreInv, BuildTypes
  <2>2. CASE prune' = [prune EXCEPT !.quiet = FALSE] BY <2>2 DEF StoreInv, BuildTypes
  <2> QED BY <2>1, <2>2, <1>1 DEF Shared
<1>3. CASE prune.pc = "idle" BY <1>2, <1>3 DEF PruneTrue
<1>4. CASE prune.pc # "idle"
  <2>1. lock = "prune" /\ (\A c \in Builds : making[c].links = {}) BY <1>4, NoLinks
  <2>2. lock' = lock /\ pool' = pool /\ orphans' = orphans
    BY <1>1, <2>1, BuildGames DEF Shared
  <2>3. \A t \in Targets : stores[t] # Nobody => stores'[t] = stores[t]
    BY <1>1 DEF Shared, StoreInv, BuildTypes
  <2>4. ASSUME NEW c, OtherwiseLinked(c) PROVE OtherwiseLinked(c)'
    BY <2>1, <2>2, <2>3, <2>4 DEF OtherwiseLinked
  <2> QED BY <1>2, <1>4, <2>1, <2>2, <2>4 DEF StoreInv, PruneTrue
<1> QED BY <1>3, <1>4

\* A step of a build keeps everything.
LEMMA BuildsKeep == ASSUME StoreInv, NEW b \in Builds, BuildStep(b) PROVE StoreInv'
<1>1. BuildMoved(b) /\ Shared(b) BY StepsShared
<1>2. BuildTypes'
  <2>1. making' \in [Builds -> Making] BY <1>1 DEF BuildMoved, StoreInv, BuildTypes
  <2>2. files' = files /\ pool' \subseteq Chunks /\ temps' \subseteq Builds
    BY <1>1 DEF Shared, StoreInv, BuildTypes
  <2> QED BY <2>1, <2>2, RenamesOwn, StepsPrune DEF StoreInv, BuildTypes
<1>3. ASSUME NEW c \in Builds PROVE BuildTrue(c)'
  <2>1. CASE c = b BY <2>1, <1>1 DEF BuildMoved
  <2>2. CASE c # b
    <3>1. making'[c] = making[c] /\ BuildTrue(c)
      BY <2>2, <1>1 DEF BuildMoved, StoreInv, BuildTypes
    <3>2. /\ files' = files /\ pool \subseteq pool'
          /\ c \in temps => c \in temps'
          /\ lock = c => lock' = c
      BY <2>2, <1>1, BuildGames DEF Shared
    <3>3. making[c].pc = "persist" => c \in temps' BY <3>1, <3>2 DEF BuildTrue, LockTrue
    <3> QED BY <3>1, <3>2, <3>3, OthersTrue
  <2> QED BY <2>1, <2>2
<1> QED BY <1>2, <1>3, RenamesOwn, StepsPrune DEF StoreInv

\* The steps of the prune pass, and of who deletes a store.
LEMMA PrunesKeep ==
    ASSUME StoreInv, PruneLock \/ PruneEntry \/ PruneTemps \/ PruneDone \/ PruneEnd
                     \/ \E t \in Targets : DeleteStore(t)
    PROVE  StoreInv'
<1> DEFINE Passing == [pc : {"idle", "pass", "synced"}, left : SUBSET Chunks, quiet : BOOLEAN,
                       passes : Nat]
<1>1. UNCHANGED <<files, making, orphans>> /\ pool' \subseteq pool
  BY DEF PruneLock, PruneEntry, PruneTemps, PruneDone, PruneEnd, DeleteStore
<1>2. prune \in Passing /\ pool \subseteq Chunks /\ stores \in [Targets -> {Nobody} \cup StoreAt]
  BY DEF StoreInv, BuildTypes
<1>3. prune' \in Passing
  <2>1. CASE PruneLock BY <1>2, <2>1 DEF PruneLock
  <2>2. CASE PruneEntry BY <1>2, <2>2 DEF PruneEntry
  <2>3. CASE PruneTemps \/ PruneDone \/ PruneEnd BY <1>2, <2>3 DEF PruneTemps, PruneDone, PruneEnd
  <2>4. CASE \E t \in Targets : DeleteStore(t) BY <1>2, <2>4 DEF DeleteStore
  <2> QED BY <2>1, <2>2, <2>3, <2>4
<1>4. /\ \A t \in Targets : stores'[t] \in {Nobody, stores[t]}
      /\ stores' \in [Targets -> {Nobody} \cup StoreAt]
  BY <1>2 DEF PruneLock, PruneEntry, PruneTemps, PruneDone, PruneEnd, DeleteStore
<1>5. temps' \subseteq temps
  BY DEF PruneLock, PruneEntry, PruneTemps, PruneDone, PruneEnd, DeleteStore
<1>6. BuildTypes' BY <1>1, <1>2, <1>3, <1>4, <1>5 DEF StoreInv, BuildTypes
<1>7. LinksOwn' BY <1>4 DEF StoreInv, LinksOwn
<1>8. lock' = lock \/ lock \in {Nobody, "prune"}
  BY DEF StoreInv, PruneTrue, PruneLock, PruneEntry, PruneTemps, PruneDone, PruneEnd, DeleteStore
<1>9. (pool' = pool /\ temps' = temps) \/ lock = "prune"
  BY DEF StoreInv, PruneTrue, PruneLock, PruneEntry, PruneTemps, PruneDone, PruneEnd, DeleteStore
<1>10. ASSUME NEW b \in Builds PROVE BuildTrue(b)'
  <2>1. BuildTrue(b) /\ b # Nobody /\ b # "prune" BY BuildGames DEF StoreInv
  <2>2. lock = b => lock' = b BY <1>8, <2>1
  <2>3. making[b].pc \in {"persist", "link"} => pool' = pool /\ temps' = temps
    BY <1>9, <2>1 DEF BuildTrue, LockTrue, Working
  <2>4. making[b].pc = "persist" => b \in temps' BY <2>1, <2>3 DEF BuildTrue, LockTrue
  <2> QED BY <1>1, <2>1, <2>2, <2>3, <2>4, OthersTrue
<1>11. PruneTrue'
  <2>1. CASE PruneLock BY <2>1 DEF PruneLock, PruneTrue
  <2>2. CASE PruneEntry
    <3>1. PICK c \in prune.left :
            /\ prune' = [prune EXCEPT !.left = @ \ {c}]
            /\ pool' = IF OtherwiseLinked(c) THEN pool ELSE pool \ {c}
      BY <2>2 DEF PruneEntry
    <3>2. /\ prune'.pc = prune.pc /\ prune'.left = prune.left \ {c} /\ prune'.quiet = prune.quiet
          /\ prune.pc = "pass" /\ lock' = lock
      BY <1>2, <2>2, <3>1 DEF PruneEntry
    <3>3. \A d : OtherwiseLinked(d)' <=> OtherwiseLinked(d) BY <2>2 DEF PruneEntry, OtherwiseLinked
    <3> QED BY <3>1, <3>2, <3>3 DEF StoreInv, PruneTrue
  <2>3. CASE PruneTemps
    <3>1. \A d : OtherwiseLinked(d)' <=> OtherwiseLinked(d) BY <2>3 DEF PruneTemps, OtherwiseLinked
    <3> QED BY <2>3, <3>1 DEF PruneTemps, StoreInv, PruneTrue
  <2>4. CASE PruneDone
    <3>1. \A d : OtherwiseLinked(d)' <=> OtherwiseLinked(d) BY <2>4 DEF PruneDone, OtherwiseLinked
    <3>2. /\ prune'.pc = "synced" /\ prune'.left = prune.left /\ prune'.quiet = prune.quiet
          /\ prune.pc = "pass" /\ prune.left = {} /\ lock' = lock /\ pool' = pool
      BY <1>2, <2>4 DEF PruneDone
    <3> QED BY <3>1, <3>2 DEF StoreInv, PruneTrue
  <2>5. CASE PruneEnd
    <3>1. prune'.pc = "idle" BY <1>2, <2>5 DEF PruneEnd
    <3> QED BY <3>1 DEF PruneTrue
  <2>6. CASE \E t \in Targets : DeleteStore(t)
    <3>1. /\ prune'.pc = prune.pc /\ prune'.left = prune.left /\ prune'.quiet = FALSE
          /\ lock' = lock
      BY <1>2, <2>6 DEF DeleteStore
    <3> QED BY <3>1 DEF StoreInv, PruneTrue
  <2> QED BY <2>1, <2>2, <2>3, <2>4, <2>5, <2>6
<1> QED BY <1>6, <1>7, <1>10, <1>11 DEF StoreInv

-----------------------------------------------------------------------------
(* The launcher's writes, and the theorems. *)

\* A write of the launcher makes the file newer than what any build knows of it.
LEMMA WritesKeep ==
    ASSUME StoreInv, NEW g \in Games, NEW f \in SourceFiles, LauncherWrites(g, f)
    PROVE  StoreInv'
<1>1. PICK c \in Contents :
        files' = [files EXCEPT ![g][f] = [data |-> c, stamp |-> files[g][f].stamp + 1]]
  BY DEF LauncherWrites, Contents
<1>2. /\ files \in [Games -> [SourceFiles -> [data : Contents, stamp : Nat]]]
      /\ making \in [Builds -> Making]
  BY DEF StoreInv, BuildTypes
<1>3. files' \in [Games -> [SourceFiles -> [data : Contents, stamp : Nat]]]
  <2>1. [files[g] EXCEPT ![f] = [data |-> c, stamp |-> files[g][f].stamp + 1]]
          \in [SourceFiles -> [data : Contents, stamp : Nat]]
    BY <1>2
  <2> QED BY <1>1, <1>2, <2>1
<1>4. \A h \in Games, k \in SourceFiles :
        \/ files'[h][k] = files[h][k]
        \/ files'[h][k].stamp = files[h][k].stamp + 1
  BY <1>1, <1>2
<1>5. UNCHANGED <<pool, temps, lock, orphans, stores, prune>> BY DEF LauncherWrites
<1>6. ASSUME NEW b \in Builds
      PROVE  BuildTrue(b)' /\ making'[b] \in Making /\ making'[b].links = making[b].links
  <2> DEFINE m == making[b]
             n == making'[b]
  <2>1. m \in Making /\ BuildTrue(b) /\ GameOf[b] \in Games BY BuildGames DEF StoreInv, BuildTypes
  <2> DEFINE D == [h \in SourceFiles |-> files'[g][h].data]
  <2>2. D \in [SourceFiles -> Contents] BY <1>3
  <2>3. n = m \/ n = [m EXCEPT !.moments = m.moments \cup {D}]
    BY <1>2 DEF LauncherWrites
  <2> HIDE DEF D
  <2> HIDE DEF m, n
  <2>4. /\ n \in Making /\ m.moments \subseteq n.moments
        /\ n.pc = m.pc /\ n.at = m.at /\ n.shared = m.shared /\ n.data = m.data
        /\ n.stamps = m.stamps /\ n.found = m.found /\ n.links = m.links
    <3>1. CASE n = m BY <2>1, <3>1
    <3>2. CASE n = [m EXCEPT !.moments = m.moments \cup {D}] BY <2>1, <2>2, <3>2 DEF Making
    <3> QED BY <2>3, <3>1, <3>2
  <2>5. LockTrue(b)' BY <2>1, <2>4, <1>5 DEF m, n, BuildTrue, LockTrue
  <2>6. OneAtHand(b)' BY <2>1, <2>4 DEF m, n, BuildTrue, OneAtHand
  <2>7. LinkedTrue(b)' BY <2>1, <2>4 DEF m, n, BuildTrue, LinkedTrue
  <2>8. \A h \in SourceFiles :
          /\ m.stamps[h] \in Nat /\ files[GameOf[b]][h].stamp \in Nat
          /\ \/ files'[GameOf[b]][h] = files[GameOf[b]][h]
             \/ files'[GameOf[b]][h].stamp = files[GameOf[b]][h].stamp + 1
    BY <1>2, <1>4, <2>1 DEF Making
  <2>9. SeenTrue(b)'
    <3> SUFFICES ASSUME n.pc \in Working \cup {"lock"} PROVE SeenTrue(b)' BY DEF n, SeenTrue
    <3>1. ASSUME NEW h \in Walked(b)
          PROVE  LET now == files'[GameOf[b]][h]
                 IN  /\ n.stamps[h] <= now.stamp
                     /\ n.stamps[h] = now.stamp =>
                          /\ h \in n.found <=> now.data # Nobody
                          /\ n.data[h] \in {Nobody, now.data}
      <4>1. h \in SourceFiles BY DEF Walked
      <4>2. /\ m.stamps[h] <= files[GameOf[b]][h].stamp
            /\ m.stamps[h] = files[GameOf[b]][h].stamp =>
                 /\ h \in m.found <=> files[GameOf[b]][h].data # Nobody
                 /\ m.data[h] \in {Nobody, files[GameOf[b]][h].data}
        BY <2>1, <2>4 DEF m, BuildTrue, SeenTrue
      <4>3. CASE files'[GameOf[b]][h] = files[GameOf[b]][h] BY <4>2, <4>3, <2>4
      <4>4. CASE files'[GameOf[b]][h].stamp = files[GameOf[b]][h].stamp + 1
        BY <4>1, <4>2, <4>4, <2>4, <2>8
      <4> QED BY <4>1, <4>3, <4>4, <2>8
    <3>2. Walked(b)' = Walked(b) BY <2>4 DEF m, n, Walked
    <3> QED BY <3>1, <3>2, <2>1, <2>4 DEF m, n, BuildTrue, SeenTrue
  <2>10. MomentTrue(b)'
    <3>1. ASSUME NEW h \in SourceFiles, Changed(b, h) PROVE Changed(b, h)'
      <4>1. m.pc = "rewalk" /\ h \in m.at /\ files[GameOf[b]][h].stamp # m.stamps[h]
        BY <3>1 DEF m, Changed
      <4>2. m.stamps[h] <= files[GameOf[b]][h].stamp
        BY <4>1, <2>1 DEF m, BuildTrue, SeenTrue, Working, Walked
      <4>3. files'[GameOf[b]][h].stamp # m.stamps[h] BY <4>1, <4>2, <2>8
      <4> QED BY <4>1, <4>3, <2>4 DEF n, Changed
    <3> QED BY <3>1, <2>1, <2>4 DEF m, n, BuildTrue, MomentTrue
  <2> QED BY <2>4, <2>5, <2>6, <2>7, <2>9, <2>10 DEF m, n, BuildTrue
<1>7. making' \in [Builds -> Making] BY <1>6 DEF LauncherWrites
<1>8. \A d : OtherwiseLinked(d)' <=> OtherwiseLinked(d) BY <1>5, <1>6 DEF OtherwiseLinked
<1>9. BuildTypes' BY <1>3, <1>5, <1>7 DEF StoreInv, BuildTypes
<1>10. PruneTrue' /\ LinksOwn' BY <1>5, <1>8 DEF StoreInv, PruneTrue, LinksOwn
<1> QED BY <1>6, <1>9, <1>10 DEF StoreInv

LEMMA StoreInvStep == StoreInv /\ [BuildNext]_buildVars => StoreInv'
<1> SUFFICES ASSUME StoreInv, [BuildNext]_buildVars PROVE StoreInv' OBVIOUS
<1>1. CASE \E b \in Builds : BuildStep(b) BY <1>1, BuildsKeep
<1>2. CASE PruneLock \/ PruneEntry \/ PruneTemps \/ PruneDone \/ PruneEnd
           \/ \E t \in Targets : DeleteStore(t)
  BY <1>2, PrunesKeep
<1>3. CASE \E g \in Games, f \in SourceFiles : LauncherWrites(g, f) BY <1>3, WritesKeep
<1>4. CASE UNCHANGED buildVars
  <2>1. UNCHANGED <<files, pool, temps, lock, making, orphans, stores, prune>> BY <1>4 DEF buildVars
  <2>2. BuildTypes' /\ LinksOwn' BY <2>1 DEF StoreInv, BuildTypes, LinksOwn
  <2>3. ASSUME NEW b \in Builds PROVE BuildTrue(b)'
    <3>1. BuildTrue(b) /\ (making[b].pc = "persist" => b \in temps')
      BY <2>1 DEF StoreInv, BuildTrue, LockTrue
    <3> QED BY <2>1, <3>1, OthersTrue
  <2>4. PruneTrue' BY <2>1 DEF StoreInv, PruneTrue, OtherwiseLinked
  <2> QED BY <2>2, <2>3, <2>4 DEF StoreInv
<1> QED BY <1>1, <1>2, <1>3, <1>4 DEF BuildNext

\* Pruning the shared pool never takes an object from under a build that is about to link
\* it, and leaves nothing that only the pool holds (create.rs, prune_shared_pool).
THEOREM PruneExactEver == BuildSpec => []PruneExact
<1>1. ASSUME StoreInv PROVE PruneExact
  <2>1. ASSUME NEW b \in Builds, making[b].pc = "link" PROVE ChunkAt(b) \in pool
    <3>1. BuildTrue(b) BY <1>1 DEF StoreInv
    <3>2. PICK f \in SourceFiles : making[b].at = {f} BY <2>1, <3>1 DEF BuildTrue, OneAtHand, Storing
    <3>3. making[b].data[f] = ChunkAt(b) BY <2>1, <3>1, <3>2, ChunkAtHand DEF BuildTrue, Storing
    <3> QED BY <2>1, <3>1, <3>2, <3>3 DEF BuildTrue, LockTrue
  <2>2. PruneSparesBuilds BY <1>1, <2>1 DEF StoreInv, BuildTrue, LockTrue, PruneSparesBuilds
  <2>3. PruneReclaims BY <1>1 DEF StoreInv, PruneTrue, PruneReclaims
  <2> QED BY <2>2, <2>3 DEF PruneExact
<1> QED BY <1>1, StoreInvInit, StoreInvStep, PTL DEF BuildSpec

\* A destination gets what its source was at one moment, whole and with links of its own,
\* and no build replaces what is there (create.rs, the two walks and the rename).
THEOREM PublishedWholeEver == BuildSpec => PublishedWhole
<1>1. StoreInv => PublishedTrue /\ LinksOwn
  BY DEF StoreInv, BuildTrue, MomentTrue, PublishedTrue
<1>2. StoreInv /\ [BuildNext]_buildVars =>
        [\A t \in Targets : stores[t] # Nobody => stores'[t] \in {stores[t], Nobody}]_buildVars
  <2> SUFFICES ASSUME StoreInv, BuildNext
               PROVE  \A t \in Targets : stores[t] # Nobody => stores'[t] \in {stores[t], Nobody}
    OBVIOUS
  <2>1. stores \in [Targets -> {Nobody} \cup StoreAt] BY DEF StoreInv, BuildTypes
  <2>2. CASE \E b \in Builds : BuildStep(b) BY <2>1, <2>2, StepsShared DEF Shared
  <2>3. CASE PruneLock \/ PruneEntry \/ PruneTemps \/ PruneDone \/ PruneEnd
    BY <2>3 DEF PruneLock, PruneEntry, PruneTemps, PruneDone, PruneEnd
  <2>4. CASE \E t \in Targets : DeleteStore(t) BY <2>1, <2>4 DEF DeleteStore
  <2>5. CASE \E g \in Games, f \in SourceFiles : LauncherWrites(g, f) BY <2>5 DEF LauncherWrites
  <2> QED BY <2>2, <2>3, <2>4, <2>5 DEF BuildNext
<1>3. BuildSpec => []StoreInv BY StoreInvInit, StoreInvStep, PTL DEF BuildSpec
<1> QED BY <1>1, <1>2, <1>3, PTL DEF BuildSpec, PublishedWhole, NeverReplaced

-----------------------------------------------------------------------------
(***************************************************************************)
(* Names: prefixes, folders above a name, and what a move makes of it.     *)
(***************************************************************************)

Names == Seq(STRING)

\* A name is within another when it begins with its components.
LEMMA WithinAt ==
  ASSUME NEW p \in Names, NEW q \in Names
  PROVE  Within(p, q) <=> Len(q) <= Len(p) /\ \A i \in 1 .. Len(q) : p[i] = q[i]
<1>. USE DEF Names
<1>1. ASSUME Len(q) <= Len(p)
      PROVE  /\ SubSeq(p, 1, Len(q)) \in Seq(STRING) /\ Len(SubSeq(p, 1, Len(q))) = Len(q)
             /\ \A i \in 1 .. Len(q) : SubSeq(p, 1, Len(q))[i] = p[i]
  <2>1. \A i \in 1 .. Len(q) : p[i] \in STRING
    BY <1>1, ElementOfSeq, SMT
  <2>2. Len(q) \in Nat /\ Len(p) \in Nat
    OBVIOUS
  <2>. QED BY <1>1, <2>1, <2>2, SubSeqProperties
<1>2. ASSUME Len(q) <= Len(p), SubSeq(p, 1, Len(q)) = q PROVE \A i \in 1 .. Len(q) : p[i] = q[i]
  BY <1>1, <1>2
<1>3. ASSUME Len(q) <= Len(p), \A i \in 1 .. Len(q) : p[i] = q[i] PROVE SubSeq(p, 1, Len(q)) = q
  BY <1>1, <1>3, SeqEqual, Zenon
<1>. QED BY <1>2, <1>3 DEF Within

LEMMA WithinSelf == ASSUME NEW p \in Names PROVE Within(p, p)
BY WithinAt DEF Names

LEMMA WithinThrough ==
  ASSUME NEW p \in Names, NEW q \in Names, NEW r \in Names, Within(p, q), Within(q, r)
  PROVE  Within(p, r)
BY WithinAt DEF Names

LEMMA WithinOneLine ==
  ASSUME NEW p \in Names, NEW q \in Names, NEW r \in Names, Within(p, q), Within(p, r)
  PROVE  Within(q, r) \/ Within(r, q)
BY WithinAt DEF Names

LEMMA WithinBoth ==
  ASSUME NEW p \in Names, NEW q \in Names, Within(p, q), Within(q, p)
  PROVE  p = q
<1>1. Len(p) = Len(q) /\ \A i \in 1 .. Len(p) : p[i] = q[i]
  BY WithinAt DEF Names
<1>. QED BY <1>1, SeqEqual DEF Names

LEMMA WithinLen ==
  ASSUME NEW p \in Names, NEW q \in Names, Within(p, q)
  PROVE  Len(q) <= Len(p) /\ (p # q => Len(q) < Len(p))
<1>1. Len(q) <= Len(p) /\ \A i \in 1 .. Len(q) : p[i] = q[i]
  BY WithinAt
<1>2. Len(p) \in Nat /\ Len(q) \in Nat
  BY DEF Names
<1>3. CASE Len(q) = Len(p)
  BY <1>1, <1>3, SeqEqual DEF Names
<1>4. CASE Len(q) # Len(p)
  BY <1>1, <1>2, <1>4
<1>. QED BY <1>3, <1>4

\* The folders above a name are the names it is strictly within.
LEMMA ParentsOf ==
  ASSUME NEW p \in Names, NEW q
  PROVE  q \in Parents(p) <=> q \in Names /\ Within(p, q) /\ q # p /\ q # <<>>
<1>. USE DEF Names
<1>1. Len(p) \in Nat /\ \A i \in 1 .. Len(p) : p[i] \in STRING
  BY ElementOfSeq, SMT
<1>2. ASSUME NEW n \in 1 .. Len(p) - 1, q = SubSeq(p, 1, n)
      PROVE  q \in Names /\ Within(p, q) /\ q # p /\ q # <<>>
  <2>1. q \in Seq(STRING) /\ Len(q) = n /\ \A i \in 1 .. n : q[i] = p[i]
    BY <1>1, <1>2, SubSeqProperties
  <2>2. n \in Nat /\ n # 0 /\ n < Len(p)
    BY <1>1
  <2>3. Within(p, q)
    BY <1>1, <2>1, <2>2, WithinAt
  <2>4. q # p /\ q # <<>>
    BY <1>1, <2>1, <2>2
  <2>. QED BY <2>1, <2>3, <2>4
<1>3. ASSUME q \in Names, Within(p, q), q # p, q # <<>> PROVE q \in Parents(p)
  <2>1. Len(q) < Len(p) /\ Len(q) # 0 /\ Len(q) \in Nat
    BY <1>3, WithinLen, EmptySeq
  <2>2. Len(q) \in 1 .. Len(p) - 1
    BY <1>1, <2>1
  <2>. QED BY <1>3, <2>2 DEF Within, Parents
<1>. QED BY <1>2, <1>3 DEF Parents

\* On the way down to a name below another is a direct child of that other.
LEMMA ChildTowards ==
  ASSUME NEW p \in Names, NEW q \in Names, Within(q, p), q # p
  PROVE  \E c \in Names : Len(c) = Len(p) + 1 /\ Within(q, c) /\ Within(c, p) /\ c # <<>> /\ c # p
<1>. USE DEF Names
<1>1. Len(p) < Len(q) /\ Len(p) \in Nat /\ Len(q) \in Nat /\ \A i \in 1 .. Len(p) : q[i] = p[i]
  BY WithinAt, WithinLen
<1>2. \A i \in 1 .. Len(q) : q[i] \in STRING
  BY ElementOfSeq, SMT
<1>. DEFINE c == SubSeq(q, 1, Len(p) + 1)
<1>3. c \in Seq(STRING) /\ Len(c) = Len(p) + 1 /\ \A i \in 1 .. Len(p) + 1 : c[i] = q[i]
  BY <1>1, <1>2, SubSeqProperties
<1>. HIDE DEF c
<1>4. Within(q, c) /\ Within(c, p) /\ c # p /\ c # <<>>
  BY <1>1, <1>3, WithinAt
<1>. QED BY <1>3, <1>4

LEMMA MovedAt ==
  ASSUME NEW p \in Names, NEW from \in Names, NEW to \in Names, Within(p, from)
  PROVE  /\ Moved(p, from, to) \in Names
         /\ Len(Moved(p, from, to)) = Len(to) + Len(p) - Len(from)
         /\ \A i \in 1 .. Len(to) : Moved(p, from, to)[i] = to[i]
         /\ \A i \in Len(to) + 1 .. Len(to) + Len(p) - Len(from) :
              Moved(p, from, to)[i] = p[i - Len(to) + Len(from)]
<1>. USE DEF Names
<1>1. Len(p) \in Nat /\ Len(from) \in Nat /\ Len(to) \in Nat /\ Len(from) <= Len(p)
  BY WithinAt
<1>2. \A i \in 1 .. Len(p) : p[i] \in STRING
  BY ElementOfSeq, SMT
<1>. DEFINE rest == SubSeq(p, Len(from) + 1, Len(p))
<1>3. rest \in Seq(STRING) /\ Len(rest) = Len(p) - Len(from)
      /\ \A i \in 1 .. Len(p) - Len(from) : rest[i] = p[Len(from) + i]
  BY <1>1, <1>2, SubSeqProperties
<1>. HIDE DEF rest
<1>4. to \o rest \in Seq(STRING) /\ Len(to \o rest) = Len(to) + Len(rest)
      /\ \A i \in 1 .. Len(to) + Len(rest) :
           (to \o rest)[i] = IF i <= Len(to) THEN to[i] ELSE rest[i - Len(to)]
  BY <1>3, ConcatProperties
<1>5. Moved(p, from, to) = to \o rest
  BY DEF Moved, rest
<1>6. Len(to) + Len(rest) = Len(to) + Len(p) - Len(from)
  BY <1>1, <1>3
<1>7. \A i \in 1 .. Len(to) : (to \o rest)[i] = to[i]
  BY <1>1, <1>4, <1>6
<1>8. ASSUME NEW i \in Len(to) + 1 .. Len(to) + Len(p) - Len(from)
      PROVE  (to \o rest)[i] = p[i - Len(to) + Len(from)]
  <2>1. i \in 1 .. Len(to) + Len(rest) /\ ~(i <= Len(to)) /\ i - Len(to) \in 1 .. Len(p) - Len(from)
    BY <1>1, <1>6
  <2>2. (to \o rest)[i] = rest[i - Len(to)]
    BY <2>1, <1>4
  <2>3. rest[i - Len(to)] = p[Len(from) + (i - Len(to))]
    BY <2>1, <1>3, Zenon
  <2>4. Len(from) + (i - Len(to)) = i - Len(to) + Len(from)
    BY <1>1
  <2>. QED BY <2>2, <2>3, <2>4, Zenon
<1>. QED BY <1>4, <1>5, <1>6, <1>7, <1>8, Zenon

\* A move takes what is within the source to names within the target, in the same order,
\* and back again.
LEMMA MovedWithin ==
  ASSUME NEW p \in Names, NEW from \in Names, NEW to \in Names, Within(p, from)
  PROVE  Moved(p, from, to) \in Names /\ Within(Moved(p, from, to), to)
<1>1. Len(p) \in Nat /\ Len(from) \in Nat /\ Len(to) \in Nat /\ Len(from) <= Len(p)
  BY WithinAt DEF Names
<1>2. /\ Moved(p, from, to) \in Names
      /\ Len(Moved(p, from, to)) = Len(to) + Len(p) - Len(from)
      /\ \A i \in 1 .. Len(to) : Moved(p, from, to)[i] = to[i]
  BY MovedAt
<1>3. Len(to) <= Len(Moved(p, from, to))
  BY <1>1, <1>2
<1>. QED BY <1>2, <1>3, WithinAt

LEMMA MovedBack ==
  ASSUME NEW p \in Names, NEW from \in Names, NEW to \in Names, Within(p, from)
  PROVE  Moved(Moved(p, from, to), to, from) = p
<1>. DEFINE m == Moved(p, from, to)
<1>1. Len(p) \in Nat /\ Len(from) \in Nat /\ Len(to) \in Nat /\ Len(from) <= Len(p)
      /\ \A i \in 1 .. Len(from) : p[i] = from[i]
  BY WithinAt DEF Names
<1>2. m \in Names /\ Within(m, to)
  BY MovedWithin
<1>3. /\ Len(m) = Len(to) + Len(p) - Len(from)
      /\ \A i \in Len(to) + 1 .. Len(to) + Len(p) - Len(from) : m[i] = p[i - Len(to) + Len(from)]
  BY MovedAt
<1>. HIDE DEF m
<1>. DEFINE b == Moved(m, to, from)
<1>4. /\ b \in Names /\ Len(b) = Len(from) + Len(m) - Len(to)
      /\ \A i \in 1 .. Len(from) : b[i] = from[i]
      /\ \A i \in Len(from) + 1 .. Len(from) + Len(m) - Len(to) : b[i] = m[i - Len(from) + Len(to)]
  BY <1>2, MovedAt
<1>. HIDE DEF b
<1>5. Len(b) = Len(p)
  BY <1>1, <1>3, <1>4
<1>6. ASSUME NEW i \in 1 .. Len(b) PROVE b[i] = p[i]
  <2>1. CASE i <= Len(from)
    BY <2>1, <1>1, <1>4
  <2>2. CASE ~(i <= Len(from))
    <3>1. b[i] = m[i - Len(from) + Len(to)]
      BY <2>2, <1>1, <1>3, <1>4
    <3>2. i - Len(from) + Len(to) \in Len(to) + 1 .. Len(to) + Len(p) - Len(from)
      BY <2>2, <1>1, <1>5
    <3>3. m[i - Len(from) + Len(to)] = p[(i - Len(from) + Len(to)) - Len(to) + Len(from)]
      BY <3>2, <1>3, Zenon
    <3>4. (i - Len(from) + Len(to)) - Len(to) + Len(from) = i
      BY <1>1
    <3>. QED BY <3>1, <3>3, <3>4, Zenon
  <2>. QED BY <2>1, <2>2, Zenon
<1>7. b = p
  BY <1>4, <1>5, <1>6, SeqEqual DEF Names
<1>. QED BY <1>7 DEF b, m

LEMMA MovedRoot ==
  ASSUME NEW from \in Names, NEW to \in Names
  PROVE  Moved(from, from, to) = to
<1>1. Within(from, from) /\ Len(from) \in Nat /\ Len(to) \in Nat
  BY WithinSelf DEF Names
<1>2. /\ Moved(from, from, to) \in Names
      /\ Len(Moved(from, from, to)) = Len(to) + Len(from) - Len(from)
      /\ \A i \in 1 .. Len(to) : Moved(from, from, to)[i] = to[i]
  BY <1>1, MovedAt
<1>3. Len(Moved(from, from, to)) = Len(to)
  BY <1>1, <1>2
<1>. QED BY <1>2, <1>3, SeqEqual DEF Names

LEMMA MovedOrder ==
  ASSUME NEW p \in Names, NEW q \in Names, NEW from \in Names, NEW to \in Names,
         Within(p, from), Within(q, from)
  PROVE  Within(Moved(p, from, to), Moved(q, from, to)) <=> Within(p, q)
<1>1. /\ Len(p) \in Nat /\ Len(q) \in Nat /\ Len(from) \in Nat /\ Len(to) \in Nat
      /\ Len(from) <= Len(p) /\ Len(from) <= Len(q)
      /\ \A i \in 1 .. Len(from) : p[i] = from[i] /\ q[i] = from[i]
  BY WithinAt DEF Names
<1>2. ASSUME NEW a \in Names, NEW b \in Names, NEW x \in Names, NEW y \in Names,
             Within(a, x), Within(b, x), Within(a, b)
      PROVE  Within(Moved(a, x, y), Moved(b, x, y))
  <2>1. /\ Len(a) \in Nat /\ Len(b) \in Nat /\ Len(x) \in Nat /\ Len(y) \in Nat
        /\ Len(x) <= Len(a) /\ Len(x) <= Len(b) /\ Len(b) <= Len(a)
        /\ \A i \in 1 .. Len(b) : a[i] = b[i]
    BY <1>2, WithinAt DEF Names
  <2>2. /\ Moved(a, x, y) \in Names /\ Len(Moved(a, x, y)) = Len(y) + Len(a) - Len(x)
        /\ \A i \in 1 .. Len(y) : Moved(a, x, y)[i] = y[i]
        /\ \A i \in Len(y) + 1 .. Len(y) + Len(a) - Len(x) : Moved(a, x, y)[i] = a[i - Len(y) + Len(x)]
    BY <1>2, MovedAt
  <2>3. /\ Moved(b, x, y) \in Names /\ Len(Moved(b, x, y)) = Len(y) + Len(b) - Len(x)
        /\ \A i \in 1 .. Len(y) : Moved(b, x, y)[i] = y[i]
        /\ \A i \in Len(y) + 1 .. Len(y) + Len(b) - Len(x) : Moved(b, x, y)[i] = b[i - Len(y) + Len(x)]
    BY <1>2, MovedAt
  <2>4. ASSUME NEW i \in 1 .. Len(Moved(b, x, y)) PROVE Moved(a, x, y)[i] = Moved(b, x, y)[i]
    <3>1. CASE i <= Len(y)
      BY <3>1, <2>1, <2>2, <2>3
    <3>2. CASE ~(i <= Len(y))
      <4>1. /\ i \in Len(y) + 1 .. Len(y) + Len(a) - Len(x)
            /\ i \in Len(y) + 1 .. Len(y) + Len(b) - Len(x)
            /\ i - Len(y) + Len(x) \in 1 .. Len(b)
        BY <3>2, <2>1, <2>3
      <4>. QED BY <4>1, <2>1, <2>2, <2>3, Zenon
    <3>. QED BY <3>1, <3>2, Zenon
  <2>5. Len(Moved(b, x, y)) <= Len(Moved(a, x, y))
    BY <2>1, <2>2, <2>3
  <2>. QED BY <2>2, <2>3, <2>4, <2>5, WithinAt
<1>3. Within(p, q) => Within(Moved(p, from, to), Moved(q, from, to))
  BY <1>2
<1>4. /\ Moved(p, from, to) \in Names /\ Within(Moved(p, from, to), to)
      /\ Moved(q, from, to) \in Names /\ Within(Moved(q, from, to), to)
  BY MovedWithin
<1>5. Within(Moved(p, from, to), Moved(q, from, to)) =>
        Within(Moved(Moved(p, from, to), to, from), Moved(Moved(q, from, to), to, from))
  BY <1>2, <1>4
<1>6. Moved(Moved(p, from, to), to, from) = p /\ Moved(Moved(q, from, to), to, from) = q
  BY MovedBack
<1>. QED BY <1>3, <1>5, <1>6

\* What a moved name is within: the target's folders, or where the source's inside went.
LEMMA MovedAbove ==
  ASSUME NEW p \in Names, NEW r \in Names, NEW from \in Names, NEW to \in Names,
         Within(p, from), Within(Moved(p, from, to), r)
  PROVE  \/ Within(to, r) /\ r # to
         \/ \E s \in Names : /\ Within(p, s) /\ Within(s, from) /\ r = Moved(s, from, to)
                             /\ s = Moved(r, to, from)
<1>. DEFINE m == Moved(p, from, to)  s == Moved(r, to, from)
<1>1. m \in Names /\ Within(m, to)
  BY MovedWithin
<1>2. Within(r, to) \/ Within(to, r)
  BY <1>1, WithinOneLine
<1>3. CASE Within(r, to)
  <2>1. s \in Names /\ Within(s, from) /\ r = Moved(s, from, to)
    BY <1>3, MovedWithin, MovedBack
  <2>2. Within(p, s)
    BY <2>1, MovedOrder
  <2>. QED BY <2>1, <2>2
<1>4. CASE ~Within(r, to)
  BY <1>2, <1>4, WithinSelf
<1>. QED BY <1>3, <1>4

(***************************************************************************)
(* The merged view of any store b, upper tree u with files d, and          *)
(* whiteouts del: the definitions of the model with the state made         *)
(* explicit, so that what the layer was, is and will be can be compared.   *)
(***************************************************************************)
Hid(del, p)       == \E w \in del : Within(p, w)
Sees(b, u, del, p) == ~Hid(del, p) /\ p \in DOMAIN u \cup DOMAIN b
KindIn(b, u, p)   == IF p \in DOMAIN u THEN u[p] ELSE b[p]
Reach(b, u, del, p) == /\ Sees(b, u, del, p)
                       /\ \A q \in Parents(p) : Sees(b, u, del, q) /\ KindIn(b, u, q) = Dir
Bytes(b, u, d, p) == IF p \in DOMAIN u THEN d[u[p]] ELSE b[p]

\* Two names of one file of the upper tree; a file of the store has one name.
Same(u, p, q) == p = q \/ (p \in DOMAIN u /\ q \in DOMAIN u /\ u[p] = u[q])

StoreOK(b) ==
    /\ DOMAIN b \subseteq Paths
    /\ \A p \in DOMAIN b : b[p] \in Nat
    /\ \A p \in DOMAIN b : \A q \in Parents(p) : q \in DOMAIN b /\ b[q] = Dir
    /\ \A p, q \in DOMAIN b : b[p] = b[q] /\ b[p] # Dir => p = q

LayerOK(b, u, d, del) ==
    /\ DOMAIN u \subseteq Paths /\ d \in Seq(Nat) /\ del \subseteq DOMAIN b
    /\ \A p \in DOMAIN u : u[p] \in 0 .. Len(d)
    /\ \A p \in DOMAIN u : \A q \in Parents(p) : q \in DOMAIN u /\ u[q] = Dir
    /\ \A p \in DOMAIN u : ~Hid(del, p)

TreeOK(t) ==
    /\ t = [at |-> t.at, holds |-> t.holds]
    /\ DOMAIN t.at \subseteq Paths /\ t.holds \in Seq(Nat)
    /\ \A p \in DOMAIN t.at : t.at[p] \in 0 .. Len(t.holds)

Shows(b, u, d, del, t) ==
    /\ \A p \in Paths : p \in DOMAIN t.at <=> Reach(b, u, del, p)
    /\ \A p \in DOMAIN t.at : t.at[p] = Dir <=> KindIn(b, u, p) = Dir
    /\ \A p \in DOMAIN t.at : t.at[p] # Dir => t.holds[t.at[p]] = Bytes(b, u, d, p)
    /\ \A p, q \in DOMAIN t.at : t.at[p] # Dir /\ t.at[q] # Dir =>
         (t.at[p] = t.at[q] <=> Same(u, p, q))

\* Every numbered name is in the list of its number, and nothing else is but gaps.
Table(n) ==
    /\ n = [paths |-> n.paths, lists |-> n.lists]
    /\ DOMAIN n.paths \subseteq Names \ {Gap} /\ n.lists \in Seq(Seq(Names))
    /\ \A p \in DOMAIN n.paths :
         /\ n.paths[p] \in DOMAIN n.lists
         /\ \E k \in DOMAIN n.lists[n.paths[p]] : n.lists[n.paths[p]][k] = p
         /\ \A k \in DOMAIN n.lists[n.paths[p]] :
              LET q == n.lists[n.paths[p]][k]
              IN  q # Gap => q \in DOMAIN n.paths /\ n.paths[q] = n.paths[p]

\* Names of one inode that are seen are names of one upper file.
OneFile(b, u, del, n) ==
    \A p, q \in DOMAIN n.paths :
      /\ n.paths[p] = n.paths[q] /\ p # q
      /\ Sees(b, u, del, p) /\ Sees(b, u, del, q)
      => p \in DOMAIN u /\ q \in DOMAIN u /\ u[p] = u[q] /\ u[p] # Dir

NodesOK(b, u, del, n) == Table(n) /\ OneFile(b, u, del, n)

Sound(b, u, d, del, n, t) ==
    LayerOK(b, u, d, del) /\ TreeOK(t) /\ Shows(b, u, d, del, t) /\ NodesOK(b, u, del, n)

-----------------------------------------------------------------------------
\* The names of the model: an order by being within, with the folders above each.
LEMMA PathOrder ==
  /\ \A p \in Paths : p \in Names /\ p # <<>> /\ Within(p, p)
  /\ \A p, q, r \in Paths : Within(p, q) /\ Within(q, r) => Within(p, r)
  /\ \A p, q, r \in Paths : Within(p, q) /\ Within(p, r) => Within(q, r) \/ Within(r, q)
  /\ \A p, q \in Paths : Within(p, q) /\ Within(q, p) => p = q
<1>1. \A p \in Paths : p \in Names /\ p # <<>>
  BY OverlayAssumption DEF Names
<1>. QED BY <1>1, WithinSelf, WithinThrough, WithinOneLine, WithinBoth

LEMMA PathParents ==
  /\ \A p \in Paths : Parents(p) \subseteq Paths
  /\ \A p, q \in Paths : q \in Parents(p) <=> Within(p, q) /\ q # p
<1>1. \A p \in Paths : Parents(p) \subseteq Paths
  BY OverlayAssumption
<1>. QED BY <1>1, PathOrder, ParentsOf

\* Whatever a whiteout hides it hides with everything below.
LEMMA HidBelow ==
  ASSUME NEW del \in SUBSET Paths, NEW p \in Paths, NEW q \in Paths, Within(p, q), Hid(del, q)
  PROVE  Hid(del, p)
BY PathOrder DEF Hid

LEMMA ReachUp ==
  ASSUME NEW b, NEW u, NEW del \in SUBSET Paths, NEW p \in Paths, Reach(b, u, del, p),
         NEW q \in Paths, Within(p, q), q # p
  PROVE  Reach(b, u, del, q) /\ KindIn(b, u, q) = Dir
<1>1. q \in Parents(p)
  BY PathParents
<1>2. \A r \in Parents(q) : r \in Parents(p)
  BY PathParents, PathOrder
<1>. QED BY <1>1, <1>2 DEF Reach

\* Every name of the upper tree can be reached.
LEMMA UpperReach ==
  ASSUME NEW b, NEW u, NEW d, NEW del, StoreOK(b), LayerOK(b, u, d, del), NEW p \in DOMAIN u
  PROVE  Reach(b, u, del, p)
BY DEF LayerOK, Reach, Sees, KindIn

\* A name of the store that no whiteout hides is there unless a file covers a folder of it.
LEMMA StoreReach ==
  ASSUME NEW b, NEW u, NEW d, NEW del, StoreOK(b), LayerOK(b, u, d, del), NEW p \in DOMAIN b,
         ~Hid(del, p)
  PROVE  Reach(b, u, del, p) <=> \A q \in Parents(p) : q \in DOMAIN u => u[q] = Dir
<1>1. p \in Paths /\ del \subseteq Paths
  BY DEF StoreOK, LayerOK
<1>2. \A q \in Parents(p) : q \in DOMAIN b /\ b[q] = Dir /\ ~Hid(del, q)
  BY <1>1, HidBelow, PathParents DEF StoreOK
<1>. QED BY <1>2 DEF Reach, Sees, KindIn

\* The upper tree takes in names that are already seen, as they are: folders, and one
\* file with what the store holds of it.
Grows(b, u, d, del, u1, d1) ==
    /\ DOMAIN u \subseteq DOMAIN u1 /\ \A p \in DOMAIN u : u1[p] = u[p]
    /\ \A p \in DOMAIN u1 \ DOMAIN u : p \in Paths /\ Reach(b, u, del, p)
    /\ \A p \in DOMAIN u1 \ DOMAIN u : b[p] = Dir => u1[p] = Dir
    /\ \A p \in DOMAIN u1 \ DOMAIN u : b[p] # Dir => u1[p] = Len(d) + 1 /\ d1 = Append(d, b[p])
    /\ \A p, q \in DOMAIN u1 \ DOMAIN u : b[p] # Dir /\ b[q] # Dir => p = q
    /\ \A p \in DOMAIN u1 : \A q \in Parents(p) : q \in DOMAIN u1
    /\ d1 = d \/ \E p \in DOMAIN u1 \ DOMAIN u : d1 = Append(d, b[p])

\* What the mount shows of every name is the same in both.
Alike(b, u, del, u1, del1) ==
    \A p \in Paths : /\ Sees(b, u1, del1, p) <=> Sees(b, u, del, p)
                     /\ Reach(b, u1, del1, p) <=> Reach(b, u, del, p)
                     /\ Sees(b, u, del, p) => (KindIn(b, u1, p) = Dir <=> KindIn(b, u, p) = Dir)

LEMMA GrowsSound ==
  ASSUME NEW b, NEW u, NEW d, NEW del, NEW n, NEW t, NEW u1, NEW d1,
         StoreOK(b), Sound(b, u, d, del, n, t), Grows(b, u, d, del, u1, d1)
  PROVE  Sound(b, u1, d1, del, n, t) /\ Alike(b, u, del, u1, del)
<1>. DEFINE new == DOMAIN u1 \ DOMAIN u
<1>1. LayerOK(b, u, d, del) /\ TreeOK(t) /\ Shows(b, u, d, del, t) /\ NodesOK(b, u, del, n)
  BY DEF Sound
<1>2. /\ DOMAIN u \subseteq Paths /\ d \in Seq(Nat) /\ del \subseteq Paths
      /\ DOMAIN b \subseteq Paths /\ Len(d) \in Nat
      /\ \A p \in DOMAIN u : u[p] \in 0 .. Len(d)
      /\ \A p \in DOMAIN u : ~Hid(del, p)
      /\ \A p \in DOMAIN u : \A q \in Parents(p) : q \in DOMAIN u /\ u[q] = Dir
  BY <1>1 DEF LayerOK, StoreOK
<1>3. \A p \in new : p \in DOMAIN b /\ p \in Paths /\ b[p] \in Nat /\ ~Hid(del, p)
  BY DEF Grows, Reach, Sees, StoreOK
<1>4. \A p \in DOMAIN u : p \in DOMAIN u1 /\ u1[p] = u[p]
  BY DEF Grows
<1>5. \A p \in new : b[p] = Dir <=> u1[p] = Dir
  BY <1>2 DEF Grows, Dir
<1>6. d1 \in Seq(Nat) /\ (d1 = d \/ Len(d1) = Len(d) + 1) /\ \A i \in 1 .. Len(d) : d1[i] = d[i]
  <2>1. CASE d1 = d
    BY <2>1, <1>2
  <2>2. ASSUME NEW p \in new, d1 = Append(d, b[p])
        PROVE  d1 \in Seq(Nat) /\ Len(d1) = Len(d) + 1 /\ \A i \in 1 .. Len(d) : d1[i] = d[i]
    BY <2>2, <1>2, <1>3
  <2>. QED BY <2>1, <2>2 DEF Grows
<1>7. \A p \in new : b[p] # Dir => Len(d1) = Len(d) + 1 /\ u1[p] = Len(d) + 1 /\ d1[u1[p]] = b[p]
  BY <1>2, <1>3 DEF Grows
<1>8. \A p \in Paths : KindIn(b, u1, p) = Dir <=> KindIn(b, u, p) = Dir
  BY <1>3, <1>4, <1>5 DEF KindIn
<1>9. \A p : Sees(b, u1, del, p) <=> Sees(b, u, del, p)
  BY <1>3, <1>4 DEF Sees
<1>10. \A p \in Paths : Reach(b, u1, del, p) <=> Reach(b, u, del, p)
  BY <1>8, <1>9, PathParents DEF Reach
<1>11. LayerOK(b, u1, d1, del)
  <2>1. \A p \in DOMAIN u1 : p \in Paths /\ ~Hid(del, p)
    BY <1>2, <1>3, <1>4
  <2>2. \A p \in DOMAIN u1 : u1[p] \in 0 .. Len(d1)
    BY <1>2, <1>3, <1>4, <1>5, <1>6, <1>7 DEF Dir
  <2>3. \A p \in DOMAIN u1 : \A q \in Parents(p) : q \in DOMAIN u1 /\ u1[q] = Dir
    <3>. SUFFICES ASSUME NEW p \in DOMAIN u1, NEW q \in Parents(p) PROVE u1[q] = Dir
      BY DEF Grows
    <3>1. CASE p \in DOMAIN u
      BY <3>1, <1>2, <1>4
    <3>2. CASE p \notin DOMAIN u
      <4>1. KindIn(b, u, q) = Dir
        BY <3>2 DEF Grows, Reach
      <4>2. q \in DOMAIN u1 /\ q \in Paths
        BY <2>1, PathParents DEF Grows
      <4>. QED BY <4>1, <4>2, <1>4, <1>5 DEF KindIn
    <3>. QED BY <3>1, <3>2
  <2>. QED BY <1>1, <1>6, <2>1, <2>2, <2>3 DEF LayerOK
<1>12. \A p \in Paths : Reach(b, u, del, p) /\ KindIn(b, u, p) # Dir => Bytes(b, u1, d1, p) = Bytes(b, u, d, p)
  <2>. SUFFICES ASSUME NEW p \in Paths, Reach(b, u, del, p), KindIn(b, u, p) # Dir
                PROVE  Bytes(b, u1, d1, p) = Bytes(b, u, d, p)
    OBVIOUS
  <2>1. CASE p \in DOMAIN u
    <3>1. u[p] \in 1 .. Len(d)
      BY <2>1, <1>2 DEF KindIn, Dir
    <3>. QED BY <2>1, <3>1, <1>4, <1>6 DEF Bytes
  <2>2. CASE p \in new
    BY <2>2, <1>7 DEF Bytes, KindIn
  <2>3. CASE p \notin DOMAIN u1
    BY <2>3, <1>4 DEF Bytes
  <2>. QED BY <2>1, <2>2, <2>3
<1>13. \A p, q \in Paths : KindIn(b, u, p) # Dir => (Same(u1, p, q) <=> Same(u, p, q))
  <2>. SUFFICES ASSUME NEW p \in Paths, NEW q \in Paths, KindIn(b, u, p) # Dir
                PROVE  Same(u1, p, q) <=> Same(u, p, q)
    OBVIOUS
  <2>6. CASE p = q
    BY <2>6 DEF Same
  <2>1. CASE p \in DOMAIN u /\ q \in DOMAIN u
    BY <2>1, <1>4 DEF Same
  <2>2. CASE p \in DOMAIN u /\ q \in new
    <3>1. u[p] \in 1 .. Len(d) /\ u1[p] = u[p]
      BY <2>2, <1>2, <1>4 DEF KindIn, Dir
    <3>2. u1[q] = Dir \/ u1[q] = Len(d) + 1
      BY <2>2, <1>5, <1>7
    <3>. QED BY <2>2, <3>1, <3>2, <1>2 DEF Same, Dir
  <2>3. CASE p \in new /\ q \in DOMAIN u
    <3>1. u1[p] = Len(d) + 1
      BY <2>3, <1>7 DEF KindIn
    <3>2. u1[q] \in 0 .. Len(d)
      BY <2>3, <1>2, <1>4
    <3>. QED BY <2>3, <3>1, <3>2, <1>2 DEF Same
  <2>4. CASE p # q /\ p \in new /\ q \in new
    <3>1. b[p] # Dir /\ b[q] = Dir
      BY <2>4 DEF Grows, KindIn
    <3>. QED BY <2>4, <3>1, <1>5 DEF Same
  <2>5. CASE p \notin DOMAIN u1 \/ q \notin DOMAIN u1
    BY <2>5, <1>4 DEF Same
  <2>. QED BY <2>1, <2>2, <2>3, <2>4, <2>5, <2>6
<1>14. Shows(b, u1, d1, del, t)
  <2>1. \A p \in DOMAIN t.at : p \in Paths /\ Reach(b, u, del, p) /\ (t.at[p] = Dir <=> KindIn(b, u, p) = Dir)
    BY <1>1 DEF Shows, TreeOK
  <2>2. \A p \in DOMAIN t.at : t.at[p] # Dir => t.holds[t.at[p]] = Bytes(b, u1, d1, p)
    BY <1>1, <1>12, <2>1 DEF Shows
  <2>3. \A p, q \in DOMAIN t.at : t.at[p] # Dir /\ t.at[q] # Dir => (t.at[p] = t.at[q] <=> Same(u1, p, q))
    BY <1>1, <1>13, <2>1 DEF Shows
  <2>. QED BY <1>1, <1>8, <1>10, <2>1, <2>2, <2>3 DEF Shows
<1>15. NodesOK(b, u1, del, n)
  BY <1>1, <1>4, <1>9 DEF NodesOK, OneFile
<1>. QED BY <1>1, <1>8, <1>9, <1>10, <1>11, <1>14, <1>15 DEF Sound, Alike

LEMMA ParentsAt ==
  ASSUME NEW u, NEW p \in Paths
  PROVE  /\ DOMAIN WithParents(u, p) = DOMAIN u \cup Parents(p)
         /\ \A q \in DOMAIN u : WithParents(u, p)[q] = u[q]
         /\ \A q \in Parents(p) : q \notin DOMAIN u => WithParents(u, p)[q] = Dir
BY DEF WithParents

IsPut(u1, u, p, x) ==
    /\ DOMAIN u1 = DOMAIN u \cup Parents(p) \cup {p}
    /\ \A q \in DOMAIN u1 : u1[q] = IF q = p THEN x ELSE IF q \in DOMAIN u THEN u[q] ELSE Dir

LEMMA PutAt == ASSUME NEW u, NEW p \in Paths, NEW x PROVE IsPut(Put(u, p, x), u, p, x)
BY DEF IsPut, Put, WithParents, Extended

\* ensure_parent shows nothing new, nor does a copy of a folder or of a file.
LEMMA ParentsSound ==
  ASSUME NEW b, NEW u, NEW d, NEW del, NEW n, NEW t, StoreOK(b), Sound(b, u, d, del, n, t),
         NEW p \in Paths, \A q \in Parents(p) : Reach(b, u, del, q) /\ KindIn(b, u, q) = Dir
  PROVE  /\ Sound(b, WithParents(u, p), d, del, n, t)
         /\ Alike(b, u, del, WithParents(u, p), del)
<1>. DEFINE u1 == WithParents(u, p)
<1>1. LayerOK(b, u, d, del)
  BY DEF Sound
<1>2. /\ DOMAIN u1 = DOMAIN u \cup Parents(p)
      /\ \A q \in DOMAIN u : u1[q] = u[q]
      /\ \A q \in Parents(p) : q \notin DOMAIN u => u1[q] = Dir
  BY ParentsAt
<1>. HIDE DEF u1
<1>3. \A q \in DOMAIN u1 \ DOMAIN u : q \in Paths /\ Reach(b, u, del, q) /\ b[q] = Dir
  BY <1>2, PathParents DEF KindIn
<1>4. \A q \in DOMAIN u1 : \A r \in Parents(q) : r \in DOMAIN u1
  <2>1. \A q \in Parents(p) : \A r \in Parents(q) : r \in Parents(p)
    BY PathParents, PathOrder
  <2>. QED BY <1>1, <1>2, <2>1 DEF LayerOK
<1>5. Grows(b, u, d, del, u1, d)
  BY <1>2, <1>3, <1>4 DEF Grows
<1>6. Sound(b, u1, d, del, n, t) /\ Alike(b, u, del, u1, del)
  BY <1>5, GrowsSound
<1>. QED BY <1>6 DEF u1

\* What copy_up makes of a name of the store: a folder, or a file beside those of d.
CopyOf(b, d, p, x, d1) ==
    \/ b[p] = Dir /\ x = Dir /\ d1 = d
    \/ b[p] # Dir /\ x = Len(d) + 1 /\ d1 = Append(d, b[p])

LEMMA CopySound ==
  ASSUME NEW b, NEW u, NEW d, NEW del, NEW n, NEW t, StoreOK(b), Sound(b, u, d, del, n, t),
         NEW p \in Paths, p \notin DOMAIN u, Reach(b, u, del, p), NEW x, NEW d1,
         CopyOf(b, d, p, x, d1)
  PROVE  Sound(b, Put(u, p, x), d1, del, n, t) /\ Alike(b, u, del, Put(u, p, x), del)
<1>. DEFINE u1 == Put(u, p, x)
<1>1. LayerOK(b, u, d, del)
  BY DEF Sound
<1>2a. IsPut(u1, u, p, x)
  BY PutAt
<1>. HIDE DEF u1
<1>2. /\ DOMAIN u1 = DOMAIN u \cup Parents(p) \cup {p} /\ u1[p] = x
      /\ \A q \in DOMAIN u : u1[q] = u[q]
      /\ \A q \in Parents(p) : q \notin DOMAIN u => u1[q] = Dir
  BY <1>2a, PathParents DEF IsPut
<1>3. \A q \in Parents(p) : q \in Paths /\ Reach(b, u, del, q) /\ (q \notin DOMAIN u => b[q] = Dir)
  <2>1. \A q \in Parents(p) : q \in Paths /\ Within(p, q) /\ q # p
    BY PathParents
  <2>2. del \subseteq Paths
    BY <1>1 DEF LayerOK, StoreOK
  <2>. QED BY <2>1, <2>2, ReachUp DEF KindIn
<1>4. \A q \in DOMAIN u1 : \A r \in Parents(q) : r \in DOMAIN u1
  <2>1. \A q \in Parents(p) : \A r \in Parents(q) : r \in Parents(p)
    BY PathParents, PathOrder
  <2>. QED BY <1>1, <1>2, <2>1 DEF LayerOK
<1>5. Grows(b, u, d, del, u1, d1)
  BY <1>2, <1>3, <1>4 DEF Grows, CopyOf
<1>6. Sound(b, u1, d1, del, n, t) /\ Alike(b, u, del, u1, del)
  BY <1>5, GrowsSound
<1>. QED BY <1>6 DEF u1

-----------------------------------------------------------------------------
\* reveal, with the state made explicit.
Rev(b, del, u, p) ==
    LET below  == {q \in DOMAIN b : Len(q) = Len(p) + 1 /\ Within(q, p)}
        opened == IF p \in del THEN (del \ {p}) \cup below ELSE del
    IN  {q \in opened : ~Within(q, p) \/ q \notin DOMAIN u}

\* Outside the name it is about it changes nothing; what it hides there it hid or is a
\* child of the store.
LEMMA RevHid ==
  ASSUME NEW b, NEW del, NEW u, NEW p \in Paths, StoreOK(b), del \subseteq DOMAIN b
  PROVE  /\ Rev(b, del, u, p) \subseteq DOMAIN b
         /\ \A q \in Paths : ~Within(q, p) => (Hid(Rev(b, del, u, p), q) <=> Hid(del, q))
         /\ \A q \in Rev(b, del, u, p) : Within(q, p) => q \notin DOMAIN u
         /\ \A q \in del : q # p /\ (~Within(q, p) \/ q \notin DOMAIN u) => q \in Rev(b, del, u, p)
<1>1. DOMAIN b \subseteq Paths
  BY DEF StoreOK
<1>2. Rev(b, del, u, p) \subseteq DOMAIN b
  BY DEF Rev
<1>3. \A w \in Rev(b, del, u, p) : w \in del \/ Within(w, p)
  BY DEF Rev
<1>4. \A w \in del : w # p /\ (~Within(w, p) \/ w \notin DOMAIN u) => w \in Rev(b, del, u, p)
  BY DEF Rev
<1>5. \A q \in Paths : ~Within(q, p) => (Hid(Rev(b, del, u, p), q) <=> Hid(del, q))
  BY <1>1, <1>2, <1>3, <1>4, PathOrder DEF Hid
<1>. QED BY <1>2, <1>4, <1>5 DEF Rev

\* A child of the store below a whiteout that is dropped has one of its own.
LEMMA RevBelow ==
  ASSUME NEW b, NEW del, NEW u, NEW p \in Paths, StoreOK(b), p \in del,
         NEW q \in DOMAIN b, Within(q, p), q # p
  PROVE  \E c \in DOMAIN b : /\ Within(q, c) /\ Within(c, p) /\ c # p
                             /\ c \in DOMAIN u \/ c \in Rev(b, del, u, p)
<1>1. q \in Paths /\ q \in Names /\ p \in Names
  BY PathOrder DEF StoreOK
<1>2. PICK c \in Names : Len(c) = Len(p) + 1 /\ Within(q, c) /\ Within(c, p) /\ c # <<>> /\ c # p
  BY <1>1, ChildTowards
<1>3. c = q \/ c \in Parents(q)
  BY <1>1, <1>2, ParentsOf
<1>4. c \in DOMAIN b
  BY <1>3 DEF StoreOK
<1>. QED BY <1>2, <1>4 DEF Rev

\* A whiteout over a name whose folders are seen is the name's own.
LEMMA OwnWhiteout ==
  ASSUME NEW b, NEW u, NEW del \in SUBSET Paths, NEW p \in Paths, Hid(del, p),
         \A q \in Parents(p) : ~Hid(del, q)
  PROVE  p \in del
<1>1. PICK w \in del : Within(p, w)
  BY DEF Hid
<1>2. Within(w, w) /\ (w # p => w \in Parents(p))
  BY <1>1, PathParents, PathOrder
<1>. QED BY <1>1, <1>2 DEF Hid

\* A tree with one name more, a name of what holds it already or of something new.
TreeAdds(t2, t, p) ==
    /\ TreeOK(t2)
    /\ DOMAIN t2.at = DOMAIN t.at \cup {p}
    /\ \A q \in DOMAIN t.at : q # p => t2.at[q] = t.at[q]
    /\ \A q \in DOMAIN t.at : t.at[q] # Dir => t2.holds[t.at[q]] = t.holds[t.at[q]]

\* What is seen once a name was made where none was seen, and its whiteout dropped.
LEMMA AddSees ==
  ASSUME NEW b, NEW u, NEW d, NEW del, StoreOK(b), LayerOK(b, u, d, del),
         NEW p \in Paths, ~Sees(b, u, del, p),
         \A q \in Parents(p) : q \in DOMAIN u /\ u[q] = Dir,
         NEW u2, DOMAIN u2 = DOMAIN u \cup {p}, \A q \in DOMAIN u : u2[q] = u[q]
  PROVE  /\ p \notin DOMAIN u /\ \A q \in DOMAIN u : ~Within(q, p)
         /\ \A q \in Paths : ~Within(q, p) =>
              /\ Hid(Rev(b, del, u2, p), q) <=> Hid(del, q)
              /\ Sees(b, u2, Rev(b, del, u2, p), q) <=> Sees(b, u, del, q)
              /\ Reach(b, u2, Rev(b, del, u2, p), q) <=> Reach(b, u, del, q)
         /\ \A q \in Paths : Within(q, p) /\ q # p => ~Sees(b, u2, Rev(b, del, u2, p), q)
         /\ ~Hid(Rev(b, del, u2, p), p) /\ Reach(b, u2, Rev(b, del, u2, p), p)
<1>. DEFINE rev == Rev(b, del, u2, p)
<1>1. /\ DOMAIN b \subseteq Paths /\ DOMAIN u \subseteq Paths /\ del \subseteq DOMAIN b /\ del \subseteq Paths
      /\ \A q \in DOMAIN u : ~Hid(del, q)
      /\ \A q \in DOMAIN u : \A r \in Parents(q) : r \in DOMAIN u /\ u[r] = Dir
  BY DEF StoreOK, LayerOK
<1>2. p \notin DOMAIN u
  BY <1>1 DEF Sees
<1>3. \A q \in DOMAIN u : ~Within(q, p)
  BY <1>1, <1>2, PathParents
<1>4. /\ rev \subseteq DOMAIN b
      /\ \A q \in Paths : ~Within(q, p) => (Hid(rev, q) <=> Hid(del, q))
      /\ \A q \in rev : Within(q, p) => q \notin DOMAIN u2
  BY <1>1, RevHid
<1>5. rev \subseteq Paths
  BY <1>1, <1>4
<1>. HIDE DEF rev
<1>6. \A q \in Paths : ~Within(q, p) => (Sees(b, u2, rev, q) <=> Sees(b, u, del, q))
  BY <1>4, PathOrder DEF Sees
<1>7. \A q \in Paths : ~Within(q, p) => KindIn(b, u2, q) = KindIn(b, u, q)
  BY PathOrder DEF KindIn
<1>8. \A q \in Paths : ~Within(q, p) => \A r \in Parents(q) : r \in Paths /\ ~Within(r, p)
  BY PathParents, PathOrder
<1>9. \A q \in Paths : ~Within(q, p) => (Reach(b, u2, rev, q) <=> Reach(b, u, del, q))
  BY <1>6, <1>7, <1>8 DEF Reach
<1>10. \A q \in Parents(p) : q \in Paths /\ ~Within(q, p) /\ ~Hid(del, q)
  BY <1>1, PathParents, PathOrder
<1>11. ~Hid(rev, p)
  <2>. SUFFICES ASSUME NEW w \in rev, Within(p, w) PROVE FALSE
    BY DEF Hid
  <2>1. w \in Paths /\ w # p
    BY <1>4, <1>5, PathOrder
  <2>2. w \in Parents(p)
    BY <2>1, PathParents
  <2>3. Hid(rev, w)
    BY <2>1, PathOrder DEF Hid
  <2>. QED BY <2>2, <2>3, <1>4, <1>10
<1>12. Reach(b, u2, rev, p)
  <2>1. \A q \in Parents(p) : Sees(b, u2, rev, q) /\ KindIn(b, u2, q) = Dir
    BY <1>6, <1>7, <1>10 DEF Sees, KindIn
  <2>. QED BY <1>11, <2>1 DEF Reach, Sees
<1>13. ASSUME NEW q \in Paths, Within(q, p), q # p PROVE ~Sees(b, u2, rev, q)
  <2>. SUFFICES ASSUME q \in DOMAIN b, ~Hid(rev, q) PROVE FALSE
    BY <1>3, <1>13 DEF Sees
  <2>1. p \in DOMAIN b
    BY <1>13, PathParents DEF StoreOK
  <2>2. Hid(del, p)
    BY <2>1 DEF Sees
  <2>3. p \in del
    BY <1>1, <1>10, <2>2, OwnWhiteout
  <2>4. PICK c \in DOMAIN b : Within(q, c) /\ Within(c, p) /\ c # p /\ (c \in DOMAIN u2 \/ c \in rev)
    BY <1>13, <2>3, RevBelow DEF rev
  <2>5. c \notin DOMAIN u2
    BY <2>4, <1>3
  <2>. QED BY <2>4, <2>5 DEF Hid
<1>. QED BY <1>2, <1>3, <1>4, <1>6, <1>9, <1>11, <1>12, <1>13 DEF rev

\* The name p is made in the upper tree u and in the tree t, where none was seen.
IsAdded(b, u, d, del, t, p, u2, d2, t2) ==
    /\ LayerOK(b, u, d, del) /\ TreeOK(t) /\ Shows(b, u, d, del, t)
    /\ p \in Paths /\ ~Sees(b, u, del, p)
    /\ \A q \in Parents(p) : q \in DOMAIN u /\ u[q] = Dir
    /\ DOMAIN u2 = DOMAIN u \cup {p} /\ \A q \in DOMAIN u : u2[q] = u[q]
    /\ d2 \in Seq(Nat) /\ Len(d) <= Len(d2) /\ \A i \in 1 .. Len(d) : d2[i] = d[i]
    /\ u2[p] \in 0 .. Len(d2)
    /\ TreeAdds(t2, t, p)
    /\ t2.at[p] = Dir <=> u2[p] = Dir
    /\ u2[p] # Dir => t2.holds[t2.at[p]] = d2[u2[p]]
    /\ u2[p] # Dir => \A q \in DOMAIN t.at : t.at[q] # Dir =>
         (t.at[q] = t2.at[p] <=> q \in DOMAIN u /\ u[q] = u2[p])

LEMMA AddShows ==
  ASSUME NEW b, NEW u, NEW d, NEW del, NEW t, NEW p, NEW u2, NEW d2, NEW t2, StoreOK(b),
         IsAdded(b, u, d, del, t, p, u2, d2, t2)
  PROVE  /\ LayerOK(b, u2, d2, Rev(b, del, u2, p))
         /\ Shows(b, u2, d2, Rev(b, del, u2, p), t2)
         /\ p \notin DOMAIN t.at
<1>0. /\ LayerOK(b, u, d, del) /\ TreeOK(t) /\ Shows(b, u, d, del, t)
      /\ p \in Paths /\ ~Sees(b, u, del, p)
      /\ \A q \in Parents(p) : q \in DOMAIN u /\ u[q] = Dir
      /\ DOMAIN u2 = DOMAIN u \cup {p} /\ \A q \in DOMAIN u : u2[q] = u[q]
      /\ d2 \in Seq(Nat) /\ Len(d) <= Len(d2) /\ \A i \in 1 .. Len(d) : d2[i] = d[i]
      /\ u2[p] \in 0 .. Len(d2)
      /\ TreeAdds(t2, t, p)
      /\ t2.at[p] = Dir <=> u2[p] = Dir
      /\ u2[p] # Dir => t2.holds[t2.at[p]] = d2[u2[p]]
      /\ u2[p] # Dir => \A q \in DOMAIN t.at : t.at[q] # Dir =>
           (t.at[q] = t2.at[p] <=> q \in DOMAIN u /\ u[q] = u2[p])
  BY DEF IsAdded
<1>. USE <1>0
<1>. DEFINE rev == Rev(b, del, u2, p)
<1>1. /\ p \notin DOMAIN u /\ \A q \in DOMAIN u : ~Within(q, p)
      /\ \A q \in Paths : ~Within(q, p) =>
           /\ Hid(rev, q) <=> Hid(del, q)
           /\ Sees(b, u2, rev, q) <=> Sees(b, u, del, q)
           /\ Reach(b, u2, rev, q) <=> Reach(b, u, del, q)
      /\ \A q \in Paths : Within(q, p) /\ q # p => ~Sees(b, u2, rev, q)
      /\ ~Hid(rev, p) /\ Reach(b, u2, rev, p)
  BY AddSees
<1>2. rev \subseteq DOMAIN b
  BY RevHid DEF LayerOK
<1>. HIDE DEF rev
<1>3. /\ DOMAIN u \subseteq Paths /\ Len(d) \in Nat /\ Len(d2) \in Nat
      /\ \A q \in DOMAIN u : ~Hid(del, q) /\ u[q] \in 0 .. Len(d)
      /\ \A q \in DOMAIN u : \A r \in Parents(q) : r \in DOMAIN u /\ u[r] = Dir
  BY DEF LayerOK
<1>4. LayerOK(b, u2, d2, rev)
  BY <1>1, <1>2, <1>3 DEF LayerOK
<1>5. \A q \in DOMAIN t.at : q \in Paths /\ ~Within(q, p) /\ q # p
  <2>1. ~Reach(b, u, del, p)
    BY DEF Reach
  <2>2. \A q \in Paths : Within(q, p) /\ q # p => ~Reach(b, u, del, q)
    BY PathParents DEF Reach
  <2>3. \A q \in DOMAIN t.at : q \in Paths /\ Reach(b, u, del, q)
    BY DEF Shows, TreeOK
  <2>. QED BY <2>1, <2>2, <2>3
<1>6. \A q \in Paths : q \in DOMAIN t2.at <=> Reach(b, u2, rev, q)
  <2>1. \A q \in Paths : Within(q, p) /\ q # p => ~Reach(b, u2, rev, q) /\ q \notin DOMAIN t2.at
    BY <1>1, <1>5 DEF Reach, TreeAdds
  <2>2. \A q \in Paths : ~Within(q, p) => q # p
    BY PathOrder
  <2>3. p \in DOMAIN t2.at
    BY DEF TreeAdds
  <2>. QED BY <1>1, <2>1, <2>2, <2>3 DEF Shows, TreeAdds
<1>7. \A q \in DOMAIN t.at : /\ KindIn(b, u2, q) = KindIn(b, u, q)
                            /\ q \in DOMAIN t2.at /\ t2.at[q] = t.at[q]
  BY <1>5 DEF KindIn, TreeAdds
<1>8. p \in DOMAIN u2 /\ KindIn(b, u2, p) = u2[p]
  BY DEF KindIn
<1>9. \A q \in DOMAIN t2.at : t2.at[q] = Dir <=> KindIn(b, u2, q) = Dir
  BY <1>7, <1>8 DEF Shows, TreeAdds
<1>10. \A q \in DOMAIN t.at : t.at[q] # Dir =>
         Bytes(b, u2, d2, q) = Bytes(b, u, d, q) /\ t2.holds[t2.at[q]] = Bytes(b, u2, d2, q)
  <2>. SUFFICES ASSUME NEW q \in DOMAIN t.at, t.at[q] # Dir
                PROVE  /\ Bytes(b, u2, d2, q) = Bytes(b, u, d, q)
                       /\ t2.holds[t2.at[q]] = Bytes(b, u2, d2, q)
    OBVIOUS
  <2>1. KindIn(b, u, q) # Dir
    BY DEF Shows
  <2>2. q \in DOMAIN u => u[q] \in 1 .. Len(d)
    BY <2>1, <1>3 DEF KindIn, Dir
  <2>3. Bytes(b, u2, d2, q) = Bytes(b, u, d, q)
    BY <2>2, <1>5 DEF Bytes
  <2>. QED BY <2>3, <1>7 DEF Shows, TreeAdds
<1>11. \A q \in DOMAIN t2.at : t2.at[q] # Dir => t2.holds[t2.at[q]] = Bytes(b, u2, d2, q)
  BY <1>8, <1>10, <1>7 DEF Bytes, TreeAdds
<1>12. \A q, r \in DOMAIN t2.at : t2.at[q] # Dir /\ t2.at[r] # Dir => (t2.at[q] = t2.at[r] <=> Same(u2, q, r))
  <2>1. \A q, r \in DOMAIN t.at : Same(u2, q, r) <=> Same(u, q, r)
    BY <1>5 DEF Same
  <2>2. \A q \in DOMAIN t.at : Same(u2, p, q) <=> (q \in DOMAIN u /\ u[q] = u2[p])
    BY <1>1, <1>5, <1>8 DEF Same
  <2>3. \A q \in DOMAIN t.at : Same(u2, q, p) <=> Same(u2, p, q)
    BY DEF Same
  <2>4. Same(u2, p, p)
    BY DEF Same
  <2>. QED BY <1>7, <2>1, <2>2, <2>3, <2>4 DEF Shows, TreeAdds
<1>13. p \notin DOMAIN t.at
  BY <1>5
<1>. QED BY <1>4, <1>6, <1>9, <1>11, <1>12, <1>13 DEF Shows, rev

-----------------------------------------------------------------------------
\* The inode table.
AloneIn(n, p) == p \in DOMAIN n.paths =>
                 \A k \in DOMAIN n.lists[n.paths[p]] : n.lists[n.paths[p]][k] \in {p, Gap}

LEMMA AloneNumber ==
  ASSUME NEW n, Table(n), NEW p \in DOMAIN n.paths, AloneIn(n, p),
         NEW q \in DOMAIN n.paths, n.paths[q] = n.paths[p]
  PROVE  q = p
<1>1. PICK k \in DOMAIN n.lists[n.paths[q]] : n.lists[n.paths[q]][k] = q
  BY DEF Table
<1>2. q # Gap
  BY DEF Table
<1>. QED BY <1>1, <1>2 DEF AloneIn

LEMMA PathName == ASSUME NEW p \in Paths PROVE p \in Names \ {Gap} /\ p \in Names /\ p # Gap
BY PathOrder DEF Gap

LEMMA NumberedTable ==
  ASSUME NEW n, Table(n), NEW p \in Paths
  PROVE  /\ Table(Numbered(n, p))
         /\ DOMAIN Numbered(n, p).paths = DOMAIN n.paths \cup {p}
         /\ \A q \in DOMAIN n.paths :
              /\ Numbered(n, p).paths[q] = n.paths[q]
              /\ Numbered(n, p).lists[n.paths[q]] = n.lists[n.paths[q]]
         /\ p \notin DOMAIN n.paths =>
              \A q \in DOMAIN n.paths : Numbered(n, p).paths[q] # Numbered(n, p).paths[p]
<1>1. CASE p \in DOMAIN n.paths
  BY <1>1 DEF Numbered
<1>2. CASE p \notin DOMAIN n.paths
  <2>. DEFINE n1 == Numbered(n, p)
  <2>1. /\ n1 = [paths |-> n1.paths, lists |-> n1.lists]
        /\ DOMAIN n1.paths = DOMAIN n.paths \cup {p}
        /\ \A q \in DOMAIN n1.paths : n1.paths[q] = IF q = p THEN Len(n.lists) + 1 ELSE n.paths[q]
        /\ n1.lists = Append(n.lists, <<p>>)
    BY <1>2 DEF Numbered
  <2>. HIDE DEF n1
  <2>2. /\ n.lists \in Seq(Seq(Names)) /\ DOMAIN n.paths \subseteq Names \ {Gap}
        /\ \A q \in DOMAIN n.paths : n.paths[q] \in 1 .. Len(n.lists)
    BY DEF Table
  <2>3. /\ <<p>> \in Seq(Names)
        /\ n1.lists \in Seq(Seq(Names)) /\ Len(n1.lists) = Len(n.lists) + 1
        /\ \A i \in 1 .. Len(n.lists) : n1.lists[i] = n.lists[i]
        /\ n1.lists[Len(n.lists) + 1] = <<p>>
    BY <2>1, <2>2, PathName
  <2>4. \A q \in DOMAIN n.paths : /\ n1.paths[q] = n.paths[q]
                                  /\ n1.lists[n1.paths[q]] = n.lists[n.paths[q]]
                                  /\ n1.lists[n.paths[q]] = n.lists[n.paths[q]]
    BY <1>2, <2>1, <2>2, <2>3
  <2>5. /\ n1.paths[p] = Len(n.lists) + 1 /\ n1.lists[n1.paths[p]] = <<p>>
        /\ 1 \in DOMAIN <<p>> /\ <<p>>[1] = p /\ \A k \in DOMAIN <<p>> : <<p>>[k] = p
    BY <2>1, <2>3
  <2>6. \A q \in DOMAIN n1.paths :
         /\ n1.paths[q] \in DOMAIN n1.lists
         /\ \E k \in DOMAIN n1.lists[n1.paths[q]] : n1.lists[n1.paths[q]][k] = q
         /\ \A k \in DOMAIN n1.lists[n1.paths[q]] :
              LET r == n1.lists[n1.paths[q]][k]
              IN  r # Gap => r \in DOMAIN n1.paths /\ n1.paths[r] = n1.paths[q]
    <3>1. ASSUME NEW q \in DOMAIN n.paths
          PROVE  /\ n1.paths[q] \in DOMAIN n1.lists
                 /\ \E k \in DOMAIN n1.lists[n1.paths[q]] : n1.lists[n1.paths[q]][k] = q
                 /\ \A k \in DOMAIN n1.lists[n1.paths[q]] :
                      LET r == n1.lists[n1.paths[q]][k]
                      IN  r # Gap => r \in DOMAIN n1.paths /\ n1.paths[r] = n1.paths[q]
      <4>1. n1.paths[q] \in DOMAIN n1.lists
        BY <2>2, <2>3, <2>4
      <4>. QED BY <4>1, <2>1, <2>4 DEF Table
    <3>2. /\ n1.paths[p] \in DOMAIN n1.lists
          /\ \E k \in DOMAIN n1.lists[n1.paths[p]] : n1.lists[n1.paths[p]][k] = p
          /\ \A k \in DOMAIN n1.lists[n1.paths[p]] :
               LET r == n1.lists[n1.paths[p]][k]
               IN  r # Gap => r \in DOMAIN n1.paths /\ n1.paths[r] = n1.paths[p]
      <4>1. Len(n.lists) + 1 \in DOMAIN n1.lists
        BY <2>2, <2>3
      <4>. QED BY <4>1, <2>1, <2>5
    <3>. QED BY <3>1, <3>2, <2>1
  <2>7. Table(n1)
    BY <2>1, <2>2, <2>3, <2>6, PathName DEF Table
  <2>8. \A q \in DOMAIN n.paths : n1.paths[q] # n1.paths[p]
    BY <2>2, <2>4, <2>5
  <2>. QED BY <2>1, <2>4, <2>7, <2>8 DEF n1
<1>. QED BY <1>1, <1>2

LEMMA AliasedTable ==
  ASSUME NEW n, Table(n), NEW p \in Paths, AloneIn(n, p), NEW s \in DOMAIN n.paths, s # p
  PROVE  /\ Table(Aliased(n, p, n.paths[s]))
         /\ DOMAIN Aliased(n, p, n.paths[s]).paths = DOMAIN n.paths \cup {p}
         /\ \A q \in DOMAIN n.paths : q # p => Aliased(n, p, n.paths[s]).paths[q] = n.paths[q]
         /\ Aliased(n, p, n.paths[s]).paths[p] = n.paths[s]
<1>. DEFINE ino == n.paths[s]  n1 == Aliased(n, p, ino)
<1>1. /\ n1 = [paths |-> n1.paths, lists |-> n1.lists]
      /\ DOMAIN n1.paths = DOMAIN n.paths \cup {p}
      /\ \A q \in DOMAIN n1.paths : n1.paths[q] = IF q = p THEN ino ELSE n.paths[q]
      /\ n1.lists = [n.lists EXCEPT ![ino] = Append(@, p)]
  BY DEF Aliased
<1>. HIDE DEF n1
<1>2. /\ n.lists \in Seq(Seq(Names)) /\ DOMAIN n.paths \subseteq Names \ {Gap}
      /\ \A q \in DOMAIN n.paths : n.paths[q] \in DOMAIN n.lists
  BY DEF Table
<1>3. ino \in DOMAIN n.lists /\ n.lists[ino] \in Seq(Names)
  BY <1>2
<1>. HIDE DEF ino
<1>. DEFINE long == Append(n.lists[ino], p)
<1>4. /\ long \in Seq(Names) /\ DOMAIN long = 1 .. Len(n.lists[ino]) + 1
      /\ DOMAIN n.lists[ino] = 1 .. Len(n.lists[ino]) /\ Len(n.lists[ino]) \in Nat
      /\ \A k \in DOMAIN n.lists[ino] : long[k] = n.lists[ino][k]
      /\ long[Len(n.lists[ino]) + 1] = p
  BY <1>3, PathName
<1>5. /\ n1.lists \in Seq(Seq(Names)) /\ DOMAIN n1.lists = DOMAIN n.lists
      /\ \A i \in DOMAIN n.lists : n1.lists[i] = IF i = ino THEN long ELSE n.lists[i]
  BY <1>1, <1>2, <1>3, <1>4
<1>. HIDE DEF long
<1>6. \A k \in DOMAIN long : long[k] = p \/ (k \in DOMAIN n.lists[ino] /\ long[k] = n.lists[ino][k])
  BY <1>4
<1>7. \E k \in DOMAIN long : long[k] = p
  BY <1>4
<1>8. p \in DOMAIN n.paths => \A q \in DOMAIN n.paths : n.paths[q] = n.paths[p] => q = p
  BY AloneNumber
<1>9. \A q \in DOMAIN n1.paths :
       /\ n1.paths[q] \in DOMAIN n1.lists
       /\ \E k \in DOMAIN n1.lists[n1.paths[q]] : n1.lists[n1.paths[q]][k] = q
       /\ \A k \in DOMAIN n1.lists[n1.paths[q]] :
            LET r == n1.lists[n1.paths[q]][k]
            IN  r # Gap => r \in DOMAIN n1.paths /\ n1.paths[r] = n1.paths[q]
  <2>1. \A k \in DOMAIN n.lists[ino] : n.lists[ino][k] # Gap =>
          /\ n.lists[ino][k] \in DOMAIN n.paths /\ n.paths[n.lists[ino][k]] = ino
          /\ n.lists[ino][k] # p
    BY <1>8 DEF Table, ino
  <2>2. \A k \in DOMAIN long : long[k] # Gap => long[k] \in DOMAIN n1.paths /\ n1.paths[long[k]] = ino
    BY <2>1, <1>1, <1>6
  <2>3. ASSUME NEW q \in DOMAIN n1.paths, n1.paths[q] = ino
        PROVE  /\ n1.paths[q] \in DOMAIN n1.lists
               /\ \E k \in DOMAIN n1.lists[n1.paths[q]] : n1.lists[n1.paths[q]][k] = q
               /\ \A k \in DOMAIN n1.lists[n1.paths[q]] :
                    LET r == n1.lists[n1.paths[q]][k]
                    IN  r # Gap => r \in DOMAIN n1.paths /\ n1.paths[r] = n1.paths[q]
    <3>1. \E k \in DOMAIN long : long[k] = q
      <4>1. CASE q = p
        BY <4>1, <1>7
      <4>2. CASE q # p
        <5>1. q \in DOMAIN n.paths /\ n.paths[q] = ino
          BY <4>2, <2>3, <1>1
        <5>2. \E k \in DOMAIN n.lists[ino] : n.lists[ino][k] = q
          BY <5>1 DEF Table
        <5>. QED BY <5>2, <1>4
      <4>. QED BY <4>1, <4>2
    <3>2. n1.lists[n1.paths[q]] = long
      BY <2>3, <1>3, <1>5
    <3>. QED BY <3>1, <3>2, <2>2, <2>3, <1>3, <1>5
  <2>4. ASSUME NEW q \in DOMAIN n1.paths, n1.paths[q] # ino
        PROVE  /\ n1.paths[q] \in DOMAIN n1.lists
               /\ \E k \in DOMAIN n1.lists[n1.paths[q]] : n1.lists[n1.paths[q]][k] = q
               /\ \A k \in DOMAIN n1.lists[n1.paths[q]] :
                    LET r == n1.lists[n1.paths[q]][k]
                    IN  r # Gap => r \in DOMAIN n1.paths /\ n1.paths[r] = n1.paths[q]
    <3>1. q # p /\ q \in DOMAIN n.paths /\ n1.paths[q] = n.paths[q] /\ n.paths[q] \in DOMAIN n.lists
      BY <2>4, <1>1, <1>2
    <3>2. n1.lists[n1.paths[q]] = n.lists[n.paths[q]]
      BY <2>4, <3>1, <1>5
    <3>3. \A k \in DOMAIN n.lists[n.paths[q]] : n.lists[n.paths[q]][k] # Gap =>
            /\ n.lists[n.paths[q]][k] \in DOMAIN n.paths
            /\ n.paths[n.lists[n.paths[q]][k]] = n.paths[q]
            /\ n.lists[n.paths[q]][k] # p
      BY <3>1, <1>8 DEF Table
    <3>4. \E k \in DOMAIN n.lists[n.paths[q]] : n.lists[n.paths[q]][k] = q
      BY <3>1 DEF Table
    <3>. QED BY <3>1, <3>2, <3>3, <3>4, <1>1, <1>5
  <2>. QED BY <2>3, <2>4
<1>10. Table(n1)
  <2>1. n1 = [paths |-> n1.paths, lists |-> n1.lists] /\ DOMAIN n1.paths \subseteq Names \ {Gap}
    BY <1>1, <1>2, PathName
  <2>2. n1.lists \in Seq(Seq(Names))
    BY <1>5
  <2>. QED BY <2>1, <2>2, <1>9 DEF Table
<1>11. /\ DOMAIN n1.paths = DOMAIN n.paths \cup {p}
       /\ \A q \in DOMAIN n.paths : q # p => n1.paths[q] = n.paths[q]
       /\ n1.paths[p] = ino
  BY <1>1
<1>. QED BY <1>10, <1>11 DEF n1, ino

\* The table after a name was made, and after a name of a file was linked.
LEMMA CreateNodes ==
  ASSUME NEW b, NEW u, NEW del, NEW n, NodesOK(b, u, del, n), NEW p \in Paths, AloneIn(n, p),
         NEW u2, NEW del2, \A q \in DOMAIN u : q \in DOMAIN u2 /\ u2[q] = u[q],
         \A q : q # p /\ Sees(b, u2, del2, q) => Sees(b, u, del, q)
  PROVE  NodesOK(b, u2, del2, Numbered(n, p))
<1>. DEFINE n1 == Numbered(n, p)
<1>1. /\ Table(n1) /\ DOMAIN n1.paths = DOMAIN n.paths \cup {p}
      /\ \A q \in DOMAIN n.paths : n1.paths[q] = n.paths[q]
      /\ p \notin DOMAIN n.paths => \A q \in DOMAIN n.paths : n1.paths[q] # n1.paths[p]
  BY NumberedTable DEF NodesOK
<1>. HIDE DEF n1
<1>2. DOMAIN n.paths \subseteq Names \ {Gap} /\ Table(n) /\ OneFile(b, u, del, n)
  BY DEF NodesOK, Table
<1>3. ASSUME NEW q \in DOMAIN n1.paths, NEW r \in DOMAIN n1.paths, n1.paths[q] = n1.paths[r], q # r
      PROVE  q \in DOMAIN n.paths /\ r \in DOMAIN n.paths /\ q # p /\ r # p
  <2>1. p \in DOMAIN n.paths => \A x \in DOMAIN n.paths : n.paths[x] = n.paths[p] => x = p
    BY <1>2, AloneNumber
  <2>. QED BY <1>1, <1>3, <2>1
<1>4. OneFile(b, u2, del2, n1)
  BY <1>1, <1>2, <1>3 DEF OneFile
<1>. QED BY <1>1, <1>4 DEF NodesOK, n1

LEMMA LinkNodes ==
  ASSUME NEW b, NEW u, NEW del, NEW n, NodesOK(b, u, del, n), NEW p \in Paths, AloneIn(n, p),
         NEW u2, NEW del2, \A q \in DOMAIN u : q \in DOMAIN u2 /\ u2[q] = u[q],
         \A q : q # p /\ Sees(b, u2, del2, q) => Sees(b, u, del, q),
         NEW s \in Paths, s # p, s \in DOMAIN u, u[s] # Dir, Sees(b, u, del, s),
         p \in DOMAIN u2, u2[p] = u[s]
  PROVE  NodesOK(b, u2, del2, Aliased(Numbered(n, s), p, Numbered(n, s).paths[s]))
<1>. DEFINE n0 == Numbered(n, s)
            n1 == Aliased(n0, p, n0.paths[s])
<1>1. /\ Table(n0) /\ DOMAIN n0.paths = DOMAIN n.paths \cup {s}
      /\ \A q \in DOMAIN n.paths : /\ n0.paths[q] = n.paths[q]
                                   /\ n0.lists[n.paths[q]] = n.lists[n.paths[q]]
      /\ s \notin DOMAIN n.paths => \A q \in DOMAIN n.paths : n0.paths[q] # n0.paths[s]
  BY NumberedTable DEF NodesOK
<1>. HIDE DEF n0
<1>2. AloneIn(n0, p)
  BY <1>1 DEF AloneIn
<1>3. /\ Table(n1) /\ DOMAIN n1.paths = DOMAIN n0.paths \cup {p}
      /\ \A q \in DOMAIN n0.paths : q # p => n1.paths[q] = n0.paths[q]
      /\ n1.paths[p] = n0.paths[s]
  BY <1>1, <1>2, AliasedTable
<1>. HIDE DEF n1
<1>4. DOMAIN n.paths \subseteq Names \ {Gap} /\ OneFile(b, u, del, n)
  BY DEF NodesOK, Table
<1>5. ASSUME NEW q \in DOMAIN n0.paths, NEW r \in DOMAIN n0.paths, n0.paths[q] = n0.paths[r], q # r
      PROVE  q \in DOMAIN n.paths /\ r \in DOMAIN n.paths /\ n.paths[q] = n.paths[r]
  BY <1>1, <1>5
<1>6. ASSUME NEW q \in DOMAIN n1.paths, NEW r \in DOMAIN n1.paths, n1.paths[q] = n1.paths[r], q # r,
             q # p, r # p, Sees(b, u2, del2, q), Sees(b, u2, del2, r)
      PROVE  q \in DOMAIN u2 /\ r \in DOMAIN u2 /\ u2[q] = u2[r] /\ u2[q] # Dir
  <2>1. q \in DOMAIN n0.paths /\ r \in DOMAIN n0.paths /\ n0.paths[q] = n0.paths[r]
    BY <1>3, <1>6
  <2>2. q \in DOMAIN n.paths /\ r \in DOMAIN n.paths /\ n.paths[q] = n.paths[r]
    BY <1>5, <1>6, <2>1
  <2>3. Sees(b, u, del, q) /\ Sees(b, u, del, r)
    BY <1>4, <1>6, <2>2
  <2>. QED BY <1>4, <1>6, <2>2, <2>3 DEF OneFile
<1>7. ASSUME NEW r \in DOMAIN n1.paths, n1.paths[r] = n1.paths[p], r # p, Sees(b, u2, del2, r)
      PROVE  r \in DOMAIN u2 /\ u2[r] = u2[p] /\ u2[p] # Dir
  <2>1. CASE r = s
    BY <2>1
  <2>2. CASE r # s
    <3>1. r \in DOMAIN n0.paths /\ n0.paths[r] = n0.paths[s]
      BY <1>3, <1>7
    <3>2. r \in DOMAIN n.paths /\ s \in DOMAIN n.paths /\ n.paths[r] = n.paths[s]
      BY <1>1, <1>5, <2>2, <3>1
    <3>3. Sees(b, u, del, r)
      BY <1>4, <1>7, <3>2
    <3>. QED BY <1>4, <2>2, <3>2, <3>3 DEF OneFile
  <2>. QED BY <2>1, <2>2
<1>8. OneFile(b, u2, del2, n1)
  <2>. SUFFICES ASSUME NEW q \in DOMAIN n1.paths, NEW r \in DOMAIN n1.paths,
                       n1.paths[q] = n1.paths[r], q # r,
                       Sees(b, u2, del2, q), Sees(b, u2, del2, r)
                PROVE  q \in DOMAIN u2 /\ r \in DOMAIN u2 /\ u2[q] = u2[r] /\ u2[q] # Dir
    BY DEF OneFile
  <2>1. CASE q # p /\ r # p
    BY <2>1, <1>6
  <2>2. CASE q = p
    BY <2>2, <1>7
  <2>3. CASE r = p
    BY <2>3, <1>7
  <2>. QED BY <2>1, <2>2, <2>3
<1>. QED BY <1>3, <1>8 DEF NodesOK, n1, n0

\* Nothing below a file, or below a folder without children, can be reached.
LEMMA NothingBelow ==
  ASSUME NEW b, NEW u, NEW del \in SUBSET Paths, NEW p \in Paths,
         KindIn(b, u, p) = Dir =>
           \A c \in Paths : Len(c) = Len(p) + 1 /\ Within(c, p) => ~Sees(b, u, del, c),
         NEW q \in Paths, Within(q, p), q # p
  PROVE  ~Reach(b, u, del, q)
<1>. SUFFICES ASSUME Reach(b, u, del, q) PROVE FALSE
  OBVIOUS
<1>1. p \in Parents(q) /\ KindIn(b, u, p) = Dir
  BY PathParents DEF Reach
<1>2. PICK c \in Names : Len(c) = Len(p) + 1 /\ Within(q, c) /\ Within(c, p) /\ c # <<>> /\ c # p
  BY ChildTowards, PathOrder
<1>3. c = q \/ c \in Parents(q)
  BY <1>2, ParentsOf, PathOrder
<1>4. c \in Paths /\ Sees(b, u, del, c)
  BY <1>3, PathParents DEF Reach
<1>. QED BY <1>1, <1>2, <1>4

LEMMA RemoveSound ==
  ASSUME NEW b, NEW u, NEW d, NEW del, NEW n, NEW t, StoreOK(b), Sound(b, u, d, del, n, t),
         NEW p \in Paths, Reach(b, u, del, p),
         KindIn(b, u, p) = Dir =>
           \A c \in Paths : Len(c) = Len(p) + 1 /\ Within(c, p) => ~Sees(b, u, del, c),
         NEW u2, DOMAIN u2 = {q \in DOMAIN u : ~Within(q, p)}, \A q \in DOMAIN u2 : u2[q] = u[q],
         NEW del2, del2 = IF p \in DOMAIN b THEN del \cup {p} ELSE del,
         NEW t2, TreeOK(t2), t2.holds = t.holds, DOMAIN t2.at = DOMAIN t.at \ {p},
         \A q \in DOMAIN t2.at : t2.at[q] = t.at[q]
  PROVE  Sound(b, u2, d, del2, n, t2)
<1>1. LayerOK(b, u, d, del) /\ TreeOK(t) /\ Shows(b, u, d, del, t) /\ NodesOK(b, u, del, n)
  BY DEF Sound
<1>2. /\ DOMAIN b \subseteq Paths /\ DOMAIN u \subseteq Paths /\ del \subseteq DOMAIN b /\ del \subseteq Paths
      /\ del2 \subseteq DOMAIN b /\ del2 \subseteq Paths
  BY <1>1 DEF StoreOK, LayerOK
<1>3. \A q \in Paths : Within(q, p) /\ q # p => ~Reach(b, u, del, q)
  BY <1>2, NothingBelow
<1>4. \A q \in Paths : ~Within(q, p) => (Hid(del2, q) <=> Hid(del, q))
  BY <1>2 DEF Hid
<1>5. \A q \in DOMAIN u2 \cup DOMAIN b : Within(q, p) => Hid(del2, q)
  <2>1. \A q \in DOMAIN b : Within(q, p) => p \in DOMAIN b
    BY <1>2, PathParents DEF StoreOK
  <2>. QED BY <2>1 DEF Hid
<1>6. \A q \in Paths : ~Within(q, p) => (Sees(b, u2, del2, q) <=> Sees(b, u, del, q))
  BY <1>4 DEF Sees
<1>7. \A q \in Paths : Within(q, p) => ~Sees(b, u2, del2, q)
  BY <1>5 DEF Sees
<1>8. \A q \in Paths : ~Within(q, p) =>
        /\ KindIn(b, u2, q) = KindIn(b, u, q) /\ Bytes(b, u2, d, q) = Bytes(b, u, d, q)
        /\ \A r \in Paths : ~Within(r, p) => (Same(u2, q, r) <=> Same(u, q, r))
  BY DEF KindIn, Bytes, Same
<1>9. \A q \in Paths : ~Within(q, p) => \A r \in Parents(q) : r \in Paths /\ ~Within(r, p)
  BY PathParents, PathOrder
<1>10. \A q \in Paths : ~Within(q, p) => (Reach(b, u2, del2, q) <=> Reach(b, u, del, q))
  BY <1>6, <1>8, <1>9 DEF Reach
<1>11. \A q \in Paths : Within(q, p) => ~Reach(b, u2, del2, q)
  BY <1>7 DEF Reach
<1>12. LayerOK(b, u2, d, del2)
  <2>1. \A q \in DOMAIN u2 : q \in DOMAIN u /\ q \in Paths /\ ~Within(q, p) /\ u2[q] = u[q]
    BY <1>2
  <2>2. \A q \in DOMAIN u2 : ~Hid(del2, q)
    BY <1>1, <1>4, <2>1 DEF LayerOK
  <2>3. \A q \in DOMAIN u2 : \A r \in Parents(q) : r \in DOMAIN u2 /\ u2[r] = Dir
    BY <1>1, <1>9, <2>1 DEF LayerOK
  <2>. QED BY <1>1, <1>2, <2>1, <2>2, <2>3 DEF LayerOK
<1>13. \A q \in DOMAIN t2.at : q \in Paths /\ ~Within(q, p) /\ q \in DOMAIN t.at /\ t2.at[q] = t.at[q]
  BY <1>1, <1>3 DEF Shows, TreeOK
<1>14. Shows(b, u2, d, del2, t2)
  <2>1. \A q \in Paths : q \in DOMAIN t2.at <=> Reach(b, u2, del2, q)
    <3>1. \A q \in Paths : q \in DOMAIN t2.at => Reach(b, u2, del2, q)
      BY <1>1, <1>10, <1>13 DEF Shows
    <3>2. \A q \in Paths : Reach(b, u2, del2, q) => q \in DOMAIN t.at /\ q # p
      BY <1>1, <1>10, <1>11, PathOrder DEF Shows
    <3>. QED BY <3>1, <3>2
  <2>2. \A q \in DOMAIN t2.at : t2.at[q] = Dir <=> KindIn(b, u2, q) = Dir
    BY <1>1, <1>8, <1>13 DEF Shows
  <2>3. \A q \in DOMAIN t2.at : t2.at[q] # Dir => t2.holds[t2.at[q]] = Bytes(b, u2, d, q)
    BY <1>1, <1>8, <1>13 DEF Shows
  <2>4. \A q, r \in DOMAIN t2.at : t2.at[q] # Dir /\ t2.at[r] # Dir =>
          (t2.at[q] = t2.at[r] <=> Same(u2, q, r))
    BY <1>1, <1>8, <1>13 DEF Shows
  <2>. QED BY <2>1, <2>2, <2>3, <2>4 DEF Shows
<1>15. NodesOK(b, u2, del2, n)
  <2>1. \A q : Sees(b, u2, del2, q) => q \in Paths /\ ~Within(q, p) /\ Sees(b, u, del, q)
    BY <1>2, <1>6, <1>7 DEF Sees
  <2>. QED BY <1>1, <2>1 DEF NodesOK, OneFile
<1>. QED BY <1>12, <1>14, <1>15 DEF Sound

\* What is asked of a rename, in the state it begins in.
RenameOK(b, u, del, n, from, to) ==
    /\ from \in Paths /\ to \in Paths /\ Reach(b, u, del, from) /\ ~Within(to, from)
    /\ \A q \in DOMAIN n.paths : Within(q, from) \/ Within(q, to) => AloneIn(n, q)
    /\ \A q \in Paths : Within(q, from) /\ Reach(b, u, del, q) =>
         /\ Moved(q, from, to) \in Paths
         /\ q # from /\ KindIn(b, u, q) = Dir =>
              (Moved(q, from, to) \in DOMAIN b => b[Moved(q, from, to)] # Dir)
    /\ \/ ~Sees(b, u, del, to)
       \/ /\ Reach(b, u, del, to) /\ (KindIn(b, u, from) = Dir <=> KindIn(b, u, to) = Dir)
          /\ KindIn(b, u, to) = Dir =>
               \A c \in Paths : Len(c) = Len(to) + 1 /\ Within(c, to) => ~Sees(b, u, del, c)
    /\ \A q \in Parents(to) : Reach(b, u, del, q) /\ KindIn(b, u, q) = Dir

LEMMA Disjoint ==
  ASSUME NEW b, NEW u, NEW del \in SUBSET Paths, NEW n, NEW from, NEW to, RenameOK(b, u, del, n, from, to)
  PROVE  ~Within(from, to)
<1>. SUFFICES ASSUME Within(from, to) PROVE FALSE
  OBVIOUS
<1>1. from \in Paths /\ to \in Paths /\ from # to /\ Reach(b, u, del, from)
  BY PathOrder DEF RenameOK
<1>2. Reach(b, u, del, to) /\ KindIn(b, u, to) = Dir /\ Sees(b, u, del, to)
  BY <1>1, ReachUp DEF Reach
<1>3. \A c \in Paths : Len(c) = Len(to) + 1 /\ Within(c, to) => ~Sees(b, u, del, c)
  BY <1>2 DEF RenameOK
<1>. QED BY <1>1, <1>3, NothingBelow

\* Where a name of the moved tree came from.
Origin(q, from, to) == IF Within(q, to) THEN Moved(q, to, from) ELSE q

LEMMA RenamedView ==
  ASSUME NEW b, NEW u, NEW d, NEW del, NEW n, NEW from, NEW to, StoreOK(b),
         LayerOK(b, u, d, del), RenameOK(b, u, del, n, from, to),
         \A q \in Parents(to) : q \in DOMAIN u /\ u[q] = Dir,
         \A q \in Paths : Within(q, from) /\ Reach(b, u, del, q) => q \in DOMAIN u,
         NEW u2,
         DOMAIN u2 = {q \in DOMAIN u : ~Within(q, from) /\ ~Within(q, to)}
                     \cup {Moved(q, from, to) : q \in {r \in DOMAIN u : Within(r, from)}},
         \A q \in DOMAIN u : ~Within(q, from) /\ ~Within(q, to) => u2[q] = u[q],
         \A q \in DOMAIN u : Within(q, from) => u2[Moved(q, from, to)] = u[q],
         NEW del1, del1 = IF from \in DOMAIN b THEN del \cup {from} ELSE del
  PROVE  /\ LayerOK(b, u2, d, Rev(b, del1, u2, to))
         /\ \A q \in Paths : ~Within(q, from) /\ ~Within(q, to) =>
              /\ Sees(b, u2, Rev(b, del1, u2, to), q) <=> Sees(b, u, del, q)
              /\ Reach(b, u2, Rev(b, del1, u2, to), q) <=> Reach(b, u, del, q)
         /\ \A q \in Paths : Within(q, from) => ~Sees(b, u2, Rev(b, del1, u2, to), q)
         /\ \A q \in Paths : Within(q, to) =>
              (Reach(b, u2, Rev(b, del1, u2, to), q) <=> q \in DOMAIN u2)
<1>. DEFINE rev == Rev(b, del1, u2, to)
<1>1. /\ DOMAIN b \subseteq Paths /\ DOMAIN u \subseteq Paths /\ del \subseteq DOMAIN b /\ del \subseteq Paths
      /\ \A q \in DOMAIN u : ~Hid(del, q)
      /\ \A q \in DOMAIN u : \A r \in Parents(q) : r \in DOMAIN u /\ u[r] = Dir
      /\ \A q \in DOMAIN u : u[q] \in 0 .. Len(d)
      /\ d \in Seq(Nat)
  BY DEF StoreOK, LayerOK
<1>2. /\ from \in Paths /\ to \in Paths /\ from \in Names /\ to \in Names
      /\ ~Within(to, from) /\ ~Within(from, to)
  <2>1. from \in Paths /\ to \in Paths /\ ~Within(to, from)
    BY DEF RenameOK
  <2>2. ~Within(from, to)
    BY <1>1, Disjoint
  <2>. QED BY <2>1, <2>2, PathOrder
<1>3. del1 \subseteq DOMAIN b /\ del1 \subseteq Paths
  BY <1>1
<1>4. /\ rev \subseteq DOMAIN b
      /\ \A q \in Paths : ~Within(q, to) => (Hid(rev, q) <=> Hid(del1, q))
      /\ \A q \in rev : Within(q, to) => q \notin DOMAIN u2
      /\ \A q \in del1 : q # to /\ (~Within(q, to) \/ q \notin DOMAIN u2) => q \in rev
  BY <1>2, <1>3, RevHid
<1>5. rev \subseteq Paths
  BY <1>1, <1>4
<1>6. \A q \in Paths : ~Within(q, from) => (Hid(del1, q) <=> Hid(del, q))
  BY DEF Hid
\* The names of the upper tree that move, and where they land.
<1>7. \A q \in DOMAIN u : Within(q, from) => Reach(b, u, del, q) /\ Moved(q, from, to) \in Paths
  BY <1>1, UpperReach DEF RenameOK
<1>8. \A q \in DOMAIN u : Within(q, from) =>
        /\ Moved(q, from, to) \in Paths /\ Within(Moved(q, from, to), to)
        /\ Moved(q, from, to) \in DOMAIN u2
  BY <1>1, <1>2, <1>7, MovedWithin, PathOrder
<1>9. \A p \in DOMAIN u2 : Within(p, to) => \E q \in DOMAIN u : Within(q, from) /\ p = Moved(q, from, to)
  OBVIOUS
<1>10. \A p \in DOMAIN u2 : p \in Paths /\ ~Within(p, from)
  <2>1. \A p \in Paths : Within(p, to) => ~Within(p, from)
    BY <1>2, PathOrder
  <2>. QED BY <1>1, <1>8, <2>1
<1>11. \A p \in DOMAIN u2 : ~Within(p, to) => p \in DOMAIN u /\ u2[p] = u[p]
  BY <1>8
<1>12. \A q \in DOMAIN u : ~Within(q, from) /\ ~Within(q, to) => q \in DOMAIN u2 /\ u2[q] = u[q]
  OBVIOUS
<1>. HIDE DEF rev
\* Names outside.
<1>13. \A q \in Paths : ~Within(q, from) /\ ~Within(q, to) => (Hid(rev, q) <=> Hid(del, q))
  BY <1>4, <1>6
<1>14. \A q \in Paths : ~Within(q, from) /\ ~Within(q, to) =>
         /\ Sees(b, u2, rev, q) <=> Sees(b, u, del, q)
         /\ KindIn(b, u2, q) = KindIn(b, u, q)
  BY <1>11, <1>12, <1>13 DEF Sees, KindIn
<1>15. \A q \in Paths : ~Within(q, from) /\ ~Within(q, to) =>
         \A r \in Parents(q) : r \in Paths /\ ~Within(r, from) /\ ~Within(r, to)
  BY <1>2, PathParents, PathOrder
<1>16. \A q \in Paths : ~Within(q, from) /\ ~Within(q, to) => (Reach(b, u2, rev, q) <=> Reach(b, u, del, q))
  BY <1>14, <1>15 DEF Reach
\* Names that moved away.
<1>17. \A q \in Paths : Within(q, from) => ~Sees(b, u2, rev, q)
  <2>. SUFFICES ASSUME NEW q \in Paths, Within(q, from), q \in DOMAIN b PROVE Hid(rev, q)
    BY <1>10 DEF Sees
  <2>1. from \in DOMAIN b
    BY <1>2, PathParents DEF StoreOK
  <2>2. from \in rev
    BY <1>2, <1>4, <2>1, PathOrder
  <2>. QED BY <2>2 DEF Hid
\* The folders above the target, and the names that landed.
<1>18. \A q \in Parents(to) : /\ q \in Paths /\ ~Within(q, from) /\ ~Within(q, to) /\ q \in DOMAIN u2
                               /\ u2[q] = Dir /\ ~Hid(rev, q)
  <2>1. \A q \in Parents(to) : q \in Paths /\ ~Within(q, from) /\ ~Within(q, to)
    BY <1>2, PathParents, PathOrder
  <2>. QED BY <1>1, <1>12, <1>13, <2>1
<1>19. ASSUME NEW q \in DOMAIN u, Within(q, from), NEW r \in Paths, Within(Moved(q, from, to), r)
       PROVE  /\ r \in DOMAIN u2
              /\ r # Moved(q, from, to) => u2[r] = Dir
              /\ r \notin rev
  <2>1. q \in Names /\ r \in Names /\ q \in Paths
    BY <1>1, PathOrder
  <2>2. CASE Within(to, r) /\ r # to
    BY <2>2, <1>2, <1>18, PathParents, PathOrder DEF Hid
  <2>3. ASSUME NEW s \in Names, Within(q, s), Within(s, from), r = Moved(s, from, to)
        PROVE  /\ r \in DOMAIN u2 /\ Within(r, to)
               /\ r # Moved(q, from, to) => u2[r] = Dir
    <3>1. s = q \/ s \in Parents(q)
      <4>1. s # <<>>
        BY <2>3, <1>2, WithinLen, PathOrder, EmptySeq DEF Names
      <4>. QED BY <2>1, <2>3, <4>1, ParentsOf
    <3>2. s \in DOMAIN u /\ (s # q => u[s] = Dir)
      BY <1>1, <3>1
    <3>. QED BY <2>3, <3>2, <1>8
  <2>4. (Within(to, r) /\ r # to) \/ \E s \in Names : Within(q, s) /\ Within(s, from) /\ r = Moved(s, from, to)
    BY <1>2, <1>19, <2>1, MovedAbove
  <2>. QED BY <2>2, <2>3, <2>4, <1>4
<1>20. \A p \in DOMAIN u2 : Within(p, to) => ~Hid(rev, p)
  <2>. SUFFICES ASSUME NEW q \in DOMAIN u, Within(q, from), NEW w \in rev, Within(Moved(q, from, to), w)
                PROVE  FALSE
    BY <1>9 DEF Hid
  <2>. QED BY <1>5, <1>19
<1>21. LayerOK(b, u2, d, rev)
  <2>1. \A p \in DOMAIN u2 : u2[p] \in 0 .. Len(d)
    BY <1>1, <1>9, <1>11
  <2>2. \A p \in DOMAIN u2 : ~Hid(rev, p)
    BY <1>1, <1>10, <1>11, <1>13, <1>20
  <2>3. \A p \in DOMAIN u2 : \A r \in Parents(p) : r \in DOMAIN u2 /\ u2[r] = Dir
    <3>1. ASSUME NEW p \in DOMAIN u2, ~Within(p, to), NEW r \in Parents(p)
          PROVE  r \in DOMAIN u2 /\ u2[r] = Dir
      BY <3>1, <1>1, <1>10, <1>11, <1>12, <1>15
    <3>2. ASSUME NEW q \in DOMAIN u, Within(q, from), NEW r \in Parents(Moved(q, from, to))
          PROVE  r \in DOMAIN u2 /\ u2[r] = Dir
      BY <3>2, <1>8, <1>19, PathParents
    <3>. QED BY <1>9, <3>1, <3>2
  <2>. QED BY <1>1, <1>4, <1>10, <2>1, <2>2, <2>3 DEF LayerOK
<1>22. \A p \in DOMAIN u2 : Reach(b, u2, rev, p)
  BY <1>21, UpperReach
\* Below the target nothing of the store comes back.
<1>23. ASSUME NEW p \in Paths, Within(p, to), p \notin DOMAIN u2, Reach(b, u2, rev, p) PROVE FALSE
  <2>1. p \in DOMAIN b /\ ~Hid(rev, p)
    BY <1>23 DEF Reach, Sees
  <2>2. to \in DOMAIN u2 /\ p # to /\ (u2[to] = Dir <=> KindIn(b, u, from) = Dir)
    <3>1. from \in DOMAIN u
      BY <1>2, PathOrder DEF RenameOK
    <3>2. Moved(from, from, to) = to /\ Within(from, from)
      BY <1>2, MovedRoot, PathOrder
    <3>. QED BY <1>8, <1>23, <3>1, <3>2 DEF KindIn
  <2>3. to \in Parents(p) /\ to \in DOMAIN b
    BY <1>2, <1>23, <2>1, <2>2, PathParents DEF StoreOK
  <2>4. u2[to] = Dir
    BY <1>23, <2>2, <2>3 DEF Reach, KindIn
  <2>5. PICK c \in DOMAIN b : Within(p, c) /\ Within(c, to) /\ c # to /\ (c \in DOMAIN u2 \/ c \in rev)
    <3>1. CASE ~Sees(b, u, del, to)
      <4>1. Hid(del, to)
        BY <2>3, <3>1 DEF Sees
      <4>2. \A q \in Parents(to) : ~Hid(del, q)
        BY <1>13, <1>18
      <4>3. to \in del1
        BY <1>1, <1>2, <4>1, <4>2, OwnWhiteout
      <4>. QED BY <1>2, <1>23, <2>1, <2>2, <4>3, RevBelow DEF rev
    <3>2. CASE Sees(b, u, del, to)
      <4>1. \A c \in Paths : Len(c) = Len(to) + 1 /\ Within(c, to) => ~Sees(b, u, del, c)
        BY <2>2, <2>4, <3>2 DEF RenameOK
      <4>2. PICK c \in Names : Len(c) = Len(to) + 1 /\ Within(p, c) /\ Within(c, to) /\ c # <<>> /\ c # to
        BY <1>2, <1>23, <2>2, PathOrder, ChildTowards
      <4>3. c = p \/ c \in Parents(p)
        BY <4>2, ParentsOf, PathOrder
      <4>4. c \in DOMAIN b /\ c \in Paths
        BY <1>1, <2>1, <4>3 DEF StoreOK
      <4>5. Hid(del, c)
        BY <4>1, <4>2, <4>4 DEF Sees
      <4>6. \A q \in Parents(c) : ~Hid(del, q)
        <5>1. ~Hid(del, to) /\ \A q \in Parents(to) : ~Hid(del, q)
          BY <1>13, <1>18, <3>2 DEF Sees
        <5>2. \A q \in Parents(c) : q = to \/ q \in Parents(to)
          <6>. SUFFICES ASSUME NEW q \in Parents(c), q # to PROVE q \in Parents(to)
            OBVIOUS
          <6>1. q \in Names /\ Within(c, q) /\ q # c /\ q # <<>>
            BY <4>2, ParentsOf
          <6>2. Len(q) < Len(c) /\ Len(q) \in Nat /\ Len(c) \in Nat /\ Len(to) \in Nat
            BY <1>2, <4>2, <6>1, WithinLen DEF Names
          <6>3. ~Within(q, to)
            BY <1>2, <4>2, <6>1, <6>2, WithinLen
          <6>4. Within(to, q)
            BY <1>2, <4>2, <6>1, <6>3, WithinOneLine
          <6>. QED BY <1>2, <6>1, <6>4, ParentsOf
        <5>. QED BY <5>1, <5>2
      <4>7. c \in del
        BY <1>1, <4>4, <4>5, <4>6, OwnWhiteout
      <4>. QED BY <1>4, <4>2, <4>4, <4>7
    <3>. QED BY <3>1, <3>2
  <2>6. c \in DOMAIN u2
    BY <2>1, <2>5 DEF Hid
  <2>7. c # p /\ c \in Parents(p) /\ u2[c] = Dir /\ b[c] = Dir
    <3>1. c # p
      BY <1>23, <2>6
    <3>2. c \in Parents(p)
      BY <1>1, <1>23, <2>5, <3>1, PathParents
    <3>. QED BY <1>23, <2>1, <2>6, <3>1, <3>2 DEF Reach, KindIn, StoreOK
  <2>8. PICK q \in DOMAIN u : Within(q, from) /\ c = Moved(q, from, to)
    BY <1>9, <2>5, <2>6
  <2>9. q # from /\ KindIn(b, u, q) = Dir
    BY <1>2, <2>5, <2>7, <2>8, MovedRoot DEF KindIn
  <2>. QED BY <1>1, <1>7, <2>5, <2>7, <2>8, <2>9 DEF RenameOK
<1>. QED BY <1>14, <1>16, <1>17, <1>21, <1>22, <1>23 DEF rev

\* A tree with everything below a name moved elsewhere.
TreeMoves(t2, t, from, to) ==
    /\ TreeOK(t2) /\ t2.holds = t.holds
    /\ DOMAIN t2.at = {q \in DOMAIN t.at : ~Within(q, from) /\ ~Within(q, to)}
                      \cup {Moved(q, from, to) : q \in {r \in DOMAIN t.at : Within(r, from)}}
    /\ \A q \in DOMAIN t.at : ~Within(q, from) /\ ~Within(q, to) => t2.at[q] = t.at[q]
    /\ \A q \in DOMAIN t.at : Within(q, from) => t2.at[Moved(q, from, to)] = t.at[q]

LEMMA RenamedNodes ==
  ASSUME NEW b, NEW u, NEW del, NEW n, NEW from, NEW to, NodesOK(b, u, del, n),
         from \in Paths, to \in Paths,
         ~Within(to, from), ~Within(from, to),
         \A q \in DOMAIN n.paths : Within(q, from) \/ Within(q, to) => AloneIn(n, q),
         NEW u2, NEW del2,
         \A q \in DOMAIN u : ~Within(q, from) /\ ~Within(q, to) => q \in DOMAIN u2 /\ u2[q] = u[q],
         \A q : ~Within(q, from) /\ ~Within(q, to) /\ Sees(b, u2, del2, q) => Sees(b, u, del, q)
  PROVE  NodesOK(b, u2, del2, Renamed(n, from, to))
<1>. DEFINE n1     == Renamed(n, from, to)
            moved  == {p \in DOMAIN n.paths : Within(p, from)}
            landed == {Moved(p, from, to) : p \in moved}
            New(p, i) == IF p \in moved /\ n.paths[p] = i THEN Moved(p, from, to)
                         ELSE IF p \in (landed \cap DOMAIN n.paths) \ moved /\ n.paths[p] = i THEN Gap
                         ELSE p
<1>1. /\ n1 = [paths |-> n1.paths, lists |-> n1.lists]
      /\ DOMAIN n1.paths = (DOMAIN n.paths \ moved) \cup landed
      /\ \A p \in DOMAIN n1.paths :
           n1.paths[p] = IF p \in landed THEN n.paths[Moved(p, to, from)] ELSE n.paths[p]
      /\ n1.lists = [i \in DOMAIN n.lists |-> [k \in DOMAIN n.lists[i] |-> New(n.lists[i][k], i)]]
  BY DEF Renamed
<1>. HIDE DEF n1
<1>2. /\ Table(n) /\ OneFile(b, u, del, n) /\ DOMAIN n.paths \subseteq Names \ {Gap}
      /\ n.lists \in Seq(Seq(Names)) /\ from \in Names /\ to \in Names /\ to # Gap
  BY PathName DEF NodesOK, Table
<1>3. \A p \in moved : /\ p \in Names /\ Moved(p, from, to) \in Names /\ Within(Moved(p, from, to), to)
                       /\ Moved(p, from, to) # Gap
                       /\ Moved(Moved(p, from, to), to, from) = p
  <2>. SUFFICES ASSUME NEW p \in moved
                PROVE  /\ p \in Names /\ Moved(p, from, to) \in Names /\ Within(Moved(p, from, to), to)
                       /\ Moved(p, from, to) # Gap
                       /\ Moved(Moved(p, from, to), to, from) = p
    OBVIOUS
  <2>1. /\ p \in Names /\ Moved(p, from, to) \in Names /\ Within(Moved(p, from, to), to)
        /\ Moved(Moved(p, from, to), to, from) = p
    BY <1>2, MovedWithin, MovedBack
  <2>2. Len(to) <= Len(Moved(p, from, to)) /\ Len(to) # 0 /\ Len(to) \in Nat
    BY <1>2, <2>1, WithinLen, EmptySeq DEF Gap, Names
  <2>. QED BY <2>1, <2>2 DEF Gap
<1>4. \A p \in Names : ~(Within(p, from) /\ Within(p, to))
  BY <1>2, WithinOneLine
<1>5. \A p \in landed : /\ p \in Names \ {Gap} /\ Within(p, to) /\ Moved(p, to, from) \in moved
                        /\ p = Moved(Moved(p, to, from), from, to)
  BY <1>3
<1>6. \A p \in moved : Moved(p, from, to) \in landed
  OBVIOUS
<1>. HIDE DEF moved, landed
<1>7. moved \subseteq DOMAIN n.paths /\ \A p \in moved : Within(p, from)
  BY DEF moved
<1>8. ASSUME NEW i \in DOMAIN n.lists
      PROVE  /\ i \in DOMAIN n1.lists /\ n1.lists[i] \in Seq(Names)
             /\ DOMAIN n1.lists[i] = DOMAIN n.lists[i]
             /\ \A k \in DOMAIN n.lists[i] : n1.lists[i][k] = New(n.lists[i][k], i)
  <2>1. n.lists[i] \in Seq(Names) /\ DOMAIN n.lists[i] = 1 .. Len(n.lists[i]) /\ Len(n.lists[i]) \in Nat
    BY <1>2
  <2>2. \A k \in DOMAIN n.lists[i] : n.lists[i][k] \in Names
    BY <2>1, ElementOfSeq
  <2>3. \A p \in Names : New(p, i) \in Names
    <3>1. Gap \in Names
      BY DEF Gap, Names
    <3>. QED BY <1>3, <3>1
  <2>. HIDE DEF New
  <2>4. i \in DOMAIN n1.lists /\ n1.lists[i] = [k \in DOMAIN n.lists[i] |-> New(n.lists[i][k], i)]
    BY <1>1
  <2>5. DOMAIN n1.lists[i] = DOMAIN n.lists[i]
    BY <2>4
  <2>6. \A k \in DOMAIN n.lists[i] : n1.lists[i][k] = New(n.lists[i][k], i)
    BY <2>4
  <2>7. \A k \in DOMAIN n.lists[i] : New(n.lists[i][k], i) \in Names
    BY <2>2, <2>3
  <2>8. [k \in 1 .. Len(n.lists[i]) |-> New(n.lists[i][k], i)] \in Seq(Names)
    BY <2>1, <2>7
  <2>. QED BY <2>1, <2>4, <2>5, <2>6, <2>8
<1>9. n1.lists \in Seq(Seq(Names)) /\ DOMAIN n1.lists = DOMAIN n.lists
  <2>1. DOMAIN n.lists = 1 .. Len(n.lists) /\ Len(n.lists) \in Nat
    BY <1>2
  <2>2. DOMAIN n1.lists = DOMAIN n.lists /\ n1.lists = [i \in DOMAIN n.lists |-> n1.lists[i]]
    BY <1>1
  <2>3. \A i \in DOMAIN n.lists : n1.lists[i] \in Seq(Names)
    BY <1>8
  <2>. QED BY <2>1, <2>2, <2>3
<1>. DEFINE From(p) == IF p \in landed THEN Moved(p, to, from) ELSE p
<1>10. \A p \in DOMAIN n1.paths : /\ From(p) \in DOMAIN n.paths /\ n1.paths[p] = n.paths[From(p)]
                                  /\ New(From(p), n1.paths[p]) = p
                                  /\ n.paths[From(p)] \in DOMAIN n.lists
  BY <1>1, <1>2, <1>5, <1>7 DEF Table
<1>11. \A q \in DOMAIN n.paths : New(q, n.paths[q]) # Gap =>
         New(q, n.paths[q]) \in DOMAIN n1.paths /\ n1.paths[New(q, n.paths[q])] = n.paths[q]
  BY <1>1, <1>3, <1>6
<1>12. \A i : New(Gap, i) = Gap
  BY <1>2, <1>7
<1>13. ASSUME NEW p \in DOMAIN n1.paths
       PROVE  /\ n1.paths[p] \in DOMAIN n1.lists
              /\ \E k \in DOMAIN n1.lists[n1.paths[p]] : n1.lists[n1.paths[p]][k] = p
              /\ \A k \in DOMAIN n1.lists[n1.paths[p]] :
                   LET q == n1.lists[n1.paths[p]][k]
                   IN  q # Gap => q \in DOMAIN n1.paths /\ n1.paths[q] = n1.paths[p]
  <2>. DEFINE i == n1.paths[p]
  <2>1. From(p) \in DOMAIN n.paths /\ i = n.paths[From(p)] /\ New(From(p), i) = p /\ i \in DOMAIN n.lists
    BY <1>10
  <2>. HIDE DEF i, From
  <2>2. PICK k \in DOMAIN n.lists[i] : n.lists[i][k] = From(p)
    BY <1>2, <2>1 DEF Table
  <2>3. k \in DOMAIN n1.lists[i] /\ n1.lists[i][k] = p
    BY <1>8, <2>1, <2>2
  <2>4. ASSUME NEW j \in DOMAIN n1.lists[i], n1.lists[i][j] # Gap
        PROVE  n1.lists[i][j] \in DOMAIN n1.paths /\ n1.paths[n1.lists[i][j]] = i
    <3>1. j \in DOMAIN n.lists[i] /\ n1.lists[i][j] = New(n.lists[i][j], i)
      BY <1>8, <2>1, <2>4
    <3>. HIDE DEF New
    <3>2. n.lists[i][j] # Gap
      BY <1>12, <2>4, <3>1
    <3>3. n.lists[i][j] \in DOMAIN n.paths /\ n.paths[n.lists[i][j]] = i
      BY <1>2, <2>1, <3>1, <3>2 DEF Table
    <3>. QED BY <1>11, <2>4, <3>1, <3>3
  <2>. QED BY <1>9, <2>1, <2>3, <2>4 DEF i
<1>14. Table(n1)
  <2>1. DOMAIN n1.paths \subseteq Names \ {Gap}
    BY <1>1, <1>2, <1>5
  <2>2. n1 = [paths |-> n1.paths, lists |-> n1.lists]
    BY <1>1
  <2>. QED BY <1>9, <1>13, <2>1, <2>2 DEF Table
<1>15. ASSUME NEW p \in DOMAIN n1.paths, NEW r \in DOMAIN n1.paths, n1.paths[p] = n1.paths[r], p # r
       PROVE  /\ p \in DOMAIN n.paths /\ r \in DOMAIN n.paths /\ n.paths[p] = n.paths[r]
              /\ ~Within(p, from) /\ ~Within(p, to) /\ ~Within(r, from) /\ ~Within(r, to)
  <2>1. /\ From(p) \in DOMAIN n.paths /\ From(r) \in DOMAIN n.paths
        /\ n.paths[From(p)] = n.paths[From(r)]
    BY <1>10, <1>15
  <2>2. From(p) # From(r)
    BY <1>1, <1>5, <1>15
  <2>3. \A q \in DOMAIN n.paths : Within(q, from) \/ Within(q, to) =>
          \A s \in DOMAIN n.paths : n.paths[s] = n.paths[q] => s = q
    BY <1>2, AloneNumber
  <2>4. /\ ~Within(From(p), from) /\ ~Within(From(p), to)
        /\ ~Within(From(r), from) /\ ~Within(From(r), to)
    BY <2>1, <2>2, <2>3
  <2>5. From(p) = p /\ From(r) = r
    BY <1>5, <1>7, <2>4
  <2>. QED BY <2>1, <2>4, <2>5
<1>16. OneFile(b, u2, del2, n1)
  <2>. SUFFICES ASSUME NEW p \in DOMAIN n1.paths, NEW r \in DOMAIN n1.paths, n1.paths[p] = n1.paths[r], p # r,
                       Sees(b, u2, del2, p), Sees(b, u2, del2, r)
                PROVE  p \in DOMAIN u2 /\ r \in DOMAIN u2 /\ u2[p] = u2[r] /\ u2[p] # Dir
    BY DEF OneFile
  <2>1. /\ p \in DOMAIN n.paths /\ r \in DOMAIN n.paths /\ n.paths[p] = n.paths[r]
        /\ ~Within(p, from) /\ ~Within(p, to) /\ ~Within(r, from) /\ ~Within(r, to)
    BY <1>15
  <2>2. Sees(b, u, del, p) /\ Sees(b, u, del, r)
    BY <2>1
  <2>3. p \in DOMAIN u /\ r \in DOMAIN u /\ u[p] = u[r] /\ u[p] # Dir
    BY <1>2, <2>1, <2>2 DEF OneFile
  <2>. QED BY <2>1, <2>3
<1>. QED BY <1>14, <1>16 DEF NodesOK, n1

LEMMA RenameSound ==
  ASSUME NEW b, NEW u, NEW d, NEW del, NEW n, NEW t, NEW from, NEW to, StoreOK(b),
         Sound(b, u, d, del, n, t), RenameOK(b, u, del, n, from, to),
         \A q \in Parents(to) : q \in DOMAIN u /\ u[q] = Dir,
         \A q \in Paths : Within(q, from) /\ Reach(b, u, del, q) => q \in DOMAIN u,
         NEW u2,
         DOMAIN u2 = {q \in DOMAIN u : ~Within(q, from) /\ ~Within(q, to)}
                     \cup {Moved(q, from, to) : q \in {r \in DOMAIN u : Within(r, from)}},
         \A q \in DOMAIN u : ~Within(q, from) /\ ~Within(q, to) => u2[q] = u[q],
         \A q \in DOMAIN u : Within(q, from) => u2[Moved(q, from, to)] = u[q],
         NEW del1, del1 = IF from \in DOMAIN b THEN del \cup {from} ELSE del,
         NEW t2, TreeMoves(t2, t, from, to)
  PROVE  /\ Sound(b, u2, d, Rev(b, del1, u2, to), Renamed(n, from, to), t2)
         /\ from \in DOMAIN t.at /\ from \notin DOMAIN u2
<1>. DEFINE rev == Rev(b, del1, u2, to)
<1>1. LayerOK(b, u, d, del) /\ TreeOK(t) /\ Shows(b, u, d, del, t) /\ NodesOK(b, u, del, n)
  BY DEF Sound
<1>2. /\ LayerOK(b, u2, d, rev)
      /\ \A q \in Paths : ~Within(q, from) /\ ~Within(q, to) =>
           /\ Sees(b, u2, rev, q) <=> Sees(b, u, del, q)
           /\ Reach(b, u2, rev, q) <=> Reach(b, u, del, q)
      /\ \A q \in Paths : Within(q, from) => ~Sees(b, u2, rev, q)
      /\ \A q \in Paths : Within(q, to) => (Reach(b, u2, rev, q) <=> q \in DOMAIN u2)
  BY <1>1, RenamedView
<1>. HIDE DEF rev
<1>3. DOMAIN b \subseteq Paths /\ DOMAIN u \subseteq Paths /\ DOMAIN u2 \subseteq Paths /\ del \subseteq Paths
  BY <1>1, <1>2 DEF LayerOK, StoreOK
<1>4. from \in Paths /\ to \in Paths /\ from \in Names /\ to \in Names /\ ~Within(to, from) /\ ~Within(from, to)
  <2>1. from \in Paths /\ to \in Paths /\ ~Within(to, from)
    BY DEF RenameOK
  <2>2. ~Within(from, to)
    BY <1>3, Disjoint
  <2>. QED BY <2>1, <2>2, PathOrder
<1>5. \A q \in Paths : Within(q, from) /\ Reach(b, u, del, q) => Moved(q, from, to) \in Paths
  BY DEF RenameOK
<1>6. \A q \in DOMAIN u : Reach(b, u, del, q)
  BY <1>1, UpperReach
<1>7. /\ DOMAIN t.at \subseteq Paths
      /\ \A q \in DOMAIN t.at : Reach(b, u, del, q)
      /\ \A q \in Paths : Within(q, from) => (q \in DOMAIN t.at <=> q \in DOMAIN u)
  BY <1>1, <1>3, <1>6 DEF Shows, TreeOK
<1>8. \A q \in DOMAIN u : Within(q, from) => q \in Paths /\ q \in DOMAIN t.at
  BY <1>3, <1>7
<1>9. \A q \in Paths : Within(q, from) => /\ Within(Moved(q, from, to), to)
                                         /\ Moved(Moved(q, from, to), to, from) = q
  BY <1>4, PathOrder, MovedWithin, MovedBack
<1>10. \A q \in Paths : ~(Within(q, from) /\ Within(q, to))
  BY <1>4, PathOrder
<1>11. \A p \in DOMAIN t2.at : /\ p \in Paths /\ ~Within(p, from)
                               /\ Origin(p, from, to) \in DOMAIN t.at
                               /\ t2.at[p] = t.at[Origin(p, from, to)]
                               /\ p \in DOMAIN u2 <=> Origin(p, from, to) \in DOMAIN u
                               /\ p \in DOMAIN u2 => u2[p] = u[Origin(p, from, to)]
                               /\ p \in DOMAIN u2 \/ p = Origin(p, from, to)
  <2>1. ASSUME NEW p \in DOMAIN t.at, ~Within(p, from), ~Within(p, to), p \in DOMAIN t2.at
        PROVE  /\ p \in Paths /\ t2.at[p] = t.at[p] /\ Origin(p, from, to) = p
               /\ p \in DOMAIN u2 <=> p \in DOMAIN u
               /\ p \in DOMAIN u2 => u2[p] = u[p]
    <3>1. p \in DOMAIN u2 <=> p \in DOMAIN u
      BY <1>8, <1>9, <2>1
    <3>. QED BY <1>7, <2>1, <3>1 DEF TreeMoves, Origin
  <2>2. ASSUME NEW q \in DOMAIN t.at, Within(q, from)
        PROVE  /\ Moved(q, from, to) \in Paths /\ ~Within(Moved(q, from, to), from)
               /\ Origin(Moved(q, from, to), from, to) = q
               /\ t2.at[Moved(q, from, to)] = t.at[q]
               /\ Moved(q, from, to) \in DOMAIN u2 /\ q \in DOMAIN u /\ u2[Moved(q, from, to)] = u[q]
    <3>1. q \in Paths /\ q \in DOMAIN u /\ Moved(q, from, to) \in Paths
      BY <1>5, <1>7, <2>2
    <3>. QED BY <1>9, <1>10, <2>2, <3>1 DEF TreeMoves, Origin
  <2>. QED BY <2>1, <2>2 DEF TreeMoves
<1>12. \A p \in DOMAIN t2.at : /\ KindIn(b, u2, p) = KindIn(b, u, Origin(p, from, to))
                               /\ Bytes(b, u2, d, p) = Bytes(b, u, d, Origin(p, from, to))
  BY <1>11 DEF KindIn, Bytes
<1>13. \A p, r \in DOMAIN t2.at : Origin(p, from, to) = Origin(r, from, to) => p = r
  <2>1. \A p \in DOMAIN t2.at : Within(p, to) =>
          Within(Origin(p, from, to), from) /\ Moved(Origin(p, from, to), from, to) = p
    BY <1>4, <1>11, PathOrder, MovedWithin, MovedBack DEF Origin
  <2>2. \A p \in DOMAIN t2.at : ~Within(p, to) => Origin(p, from, to) = p /\ ~Within(p, from)
    BY <1>11 DEF Origin
  <2>. QED BY <2>1, <2>2
<1>14. \A p, r \in DOMAIN t2.at : Same(u2, p, r) <=> Same(u, Origin(p, from, to), Origin(r, from, to))
  BY <1>11, <1>13 DEF Same
<1>15. Shows(b, u2, d, rev, t2)
  <2>1. \A p \in Paths : p \in DOMAIN t2.at <=> Reach(b, u2, rev, p)
    <3>1. ASSUME NEW p \in Paths, ~Within(p, from), ~Within(p, to)
          PROVE  p \in DOMAIN t2.at <=> Reach(b, u2, rev, p)
      <4>1. p \in DOMAIN t2.at <=> p \in DOMAIN t.at
        BY <3>1, <1>7, <1>9 DEF TreeMoves
      <4>. QED BY <4>1, <3>1, <1>1, <1>2 DEF Shows
    <3>2. ASSUME NEW p \in Paths, Within(p, from)
          PROVE  p \notin DOMAIN t2.at /\ ~Reach(b, u2, rev, p)
      BY <3>2, <1>2, <1>11 DEF Reach
    <3>3. ASSUME NEW p \in Paths, Within(p, to)
          PROVE  p \in DOMAIN t2.at <=> p \in DOMAIN u2
      <4>1. p \in DOMAIN t2.at => p \in DOMAIN u2
        BY <3>3, <1>11, <1>7, <1>10, PathOrder, MovedWithin DEF Origin, TreeMoves
      <4>2. p \in DOMAIN u2 => p \in DOMAIN t2.at
        BY <3>3, <1>8 DEF TreeMoves
      <4>. QED BY <4>1, <4>2
    <3>. QED BY <3>1, <3>2, <3>3, <1>2
  <2>2. \A p \in DOMAIN t2.at : t2.at[p] = Dir <=> KindIn(b, u2, p) = Dir
    BY <1>1, <1>11, <1>12 DEF Shows
  <2>3. \A p \in DOMAIN t2.at : t2.at[p] # Dir => t2.holds[t2.at[p]] = Bytes(b, u2, d, p)
    BY <1>1, <1>11, <1>12 DEF Shows, TreeMoves
  <2>4. \A p, r \in DOMAIN t2.at : t2.at[p] # Dir /\ t2.at[r] # Dir =>
          (t2.at[p] = t2.at[r] <=> Same(u2, p, r))
    BY <1>1, <1>11, <1>14 DEF Shows
  <2>. QED BY <2>1, <2>2, <2>3, <2>4 DEF Shows
<1>16. NodesOK(b, u2, rev, Renamed(n, from, to))
  <2>1. \A q \in DOMAIN n.paths : Within(q, from) \/ Within(q, to) => AloneIn(n, q)
    BY DEF RenameOK
  <2>2. \A q \in DOMAIN u : ~Within(q, from) /\ ~Within(q, to) => q \in DOMAIN u2 /\ u2[q] = u[q]
    OBVIOUS
  <2>3. \A q : ~Within(q, from) /\ ~Within(q, to) /\ Sees(b, u2, rev, q) => Sees(b, u, del, q)
    BY <1>2, <1>3 DEF Sees
  <2>. QED BY <1>1, <1>4, <2>1, <2>2, <2>3, RenamedNodes
<1>17. from \in DOMAIN t.at /\ from \notin DOMAIN u2
  <2>1. from \in DOMAIN t.at
    BY <1>1 DEF RenameOK, Shows
  <2>2. ~Reach(b, u2, rev, from)
    BY <1>2, <1>4, PathOrder DEF Reach
  <2>. QED BY <2>1, <2>2, <1>2, UpperReach
<1>. QED BY <1>2, <1>15, <1>16, <1>17 DEF Sound, rev, TreeMoves

LEMMA WriteSound ==
  ASSUME NEW b, NEW u, NEW d, NEW del, NEW n, NEW t, StoreOK(b), Sound(b, u, d, del, n, t),
         NEW q \in DOMAIN u, u[q] # Dir, NEW p \in DOMAIN t.at, p \in DOMAIN u, u[p] = u[q],
         NEW v \in Nat
  PROVE  Sound(b, u, [d EXCEPT ![u[q]] = v], del, n, [t EXCEPT !.holds[t.at[p]] = v])
<1>. DEFINE d2 == [d EXCEPT ![u[q]] = v]
            t2 == [t EXCEPT !.holds[t.at[p]] = v]
<1>1. LayerOK(b, u, d, del) /\ TreeOK(t) /\ Shows(b, u, d, del, t) /\ NodesOK(b, u, del, n)
  BY DEF Sound
<1>2. d \in Seq(Nat) /\ Len(d) \in Nat /\ \A r \in DOMAIN u : u[r] \in 0 .. Len(d)
  BY <1>1 DEF LayerOK
<1>3. u[q] \in 1 .. Len(d)
  BY <1>2 DEF Dir
<1>4. d2 \in Seq(Nat) /\ Len(d2) = Len(d) /\ d2[u[q]] = v
      /\ \A i \in 1 .. Len(d) : i # u[q] => d2[i] = d[i]
  BY <1>2, <1>3
<1>5. /\ t = [at |-> t.at, holds |-> t.holds] /\ t.holds \in Seq(Nat) /\ Len(t.holds) \in Nat
      /\ \A r \in DOMAIN t.at : t.at[r] \in 0 .. Len(t.holds)
      /\ DOMAIN t.at \subseteq Paths
  BY <1>1 DEF TreeOK
<1>6. t.at[p] # Dir /\ t.at[p] \in 1 .. Len(t.holds)
  <2>1. t.at[p] # Dir
    BY <1>1 DEF Shows, KindIn
  <2>. QED BY <2>1, <1>5 DEF Dir
<1>7. /\ t2.at = t.at /\ t2.holds = [t.holds EXCEPT ![t.at[p]] = v]
      /\ t2 = [at |-> t2.at, holds |-> t2.holds]
  <2>1. ASSUME NEW a, NEW h, NEW k
        PROVE  [[at |-> a, holds |-> h] EXCEPT !.holds[k] = v] = [at |-> a, holds |-> [h EXCEPT ![k] = v]]
    OBVIOUS
  <2>2. ASSUME NEW k PROVE [t EXCEPT !.holds[k] = v] = [at |-> t.at, holds |-> [t.holds EXCEPT ![k] = v]]
    <3>. DEFINE a == t.at  h == t.holds
    <3>1. t = [at |-> a, holds |-> h]
      BY <1>5
    <3>. HIDE DEF a, h
    <3>2. [t EXCEPT !.holds[k] = v] = [at |-> a, holds |-> [h EXCEPT ![k] = v]]
      BY <2>1, <3>1
    <3>. QED BY <3>2 DEF a, h
  <2>3. t2 = [at |-> t.at, holds |-> [t.holds EXCEPT ![t.at[p]] = v]]
    BY <2>2
  <2>. HIDE DEF t2
  <2>. QED BY <2>3
<1>. HIDE DEF d2, t2
<1>8. /\ t2.holds \in Seq(Nat) /\ Len(t2.holds) = Len(t.holds) /\ t2.holds[t.at[p]] = v
      /\ \A i \in 1 .. Len(t.holds) : i # t.at[p] => t2.holds[i] = t.holds[i]
  BY <1>5, <1>6, <1>7
<1>9. TreeOK(t2)
  BY <1>5, <1>7, <1>8 DEF TreeOK
<1>10. LayerOK(b, u, d2, del)
  BY <1>1, <1>4 DEF LayerOK
<1>11. ASSUME NEW r \in DOMAIN t.at, t.at[r] # Dir
       PROVE  t2.holds[t.at[r]] = Bytes(b, u, d2, r)
  <2>1. t.at[r] \in 1 .. Len(t.holds) /\ (r \in DOMAIN u => u[r] \in 1 .. Len(d))
    <3>1. r \in DOMAIN u => u[r] # Dir
      BY <1>1, <1>11 DEF Shows, KindIn
    <3>. QED BY <1>2, <1>5, <1>11, <3>1 DEF Dir
  <2>2. t.at[r] = t.at[p] <=> Same(u, r, p)
    BY <1>1, <1>6, <1>11 DEF Shows
  <2>3. CASE t.at[r] = t.at[p]
    BY <2>2, <2>3, <1>4, <1>8 DEF Same, Bytes
  <2>4. CASE t.at[r] # t.at[p]
    <3>1. r \in DOMAIN u => u[r] # u[q]
      BY <2>2, <2>4 DEF Same
    <3>2. t2.holds[t.at[r]] = t.holds[t.at[r]]
      BY <1>8, <2>1, <2>4
    <3>3. Bytes(b, u, d2, r) = Bytes(b, u, d, r)
      BY <1>4, <2>1, <3>1 DEF Bytes
    <3>. QED BY <1>1, <1>11, <3>2, <3>3 DEF Shows
  <2>. QED BY <2>3, <2>4
<1>12. Shows(b, u, d2, del, t2)
  BY <1>1, <1>7, <1>11 DEF Shows
<1>. QED BY <1>1, <1>9, <1>10, <1>12 DEF Sound, d2, t2

-----------------------------------------------------------------------------
\* The view with the state made explicit.
NamedIn(b, u, del, n, ino) ==
    LET list == n.lists[ino]
        live == {k \in DOMAIN list : list[k] # Gap}
        seen == {k \in live : Sees(b, u, del, list[k])}
        from == IF seen = {} THEN live ELSE seen
    IN  list[CHOOSE k \in from : \A j \in from : k <= j]
ResolvedIn(b, u, del, n, p) ==
    IF p \in DOMAIN n.paths THEN NamedIn(b, u, del, n, n.paths[p]) ELSE p
ViewIn(b, u, d, del, n) ==
    [p \in {q \in Paths : Reach(b, u, del, q)} |->
       IF KindIn(b, u, p) = Dir THEN Dir ELSE Bytes(b, u, d, ResolvedIn(b, u, del, n, p))]
AppliedIn(b, u, d, del) ==
    LET kept == {p \in DOMAIN b : ~\E q \in del : Within(p, q)}
        over == {p \in kept : ~\E q \in Parents(p) : q \in DOMAIN u /\ u[q] # Dir}
    IN  [p \in over \cup DOMAIN u |->
           IF p \in DOMAIN u THEN IF u[p] = Dir THEN Dir ELSE d[u[p]]
           ELSE b[p]]

\* What every name shows, without the detour over the inode.
Plain(b, u, d, del) ==
    [p \in {q \in Paths : Reach(b, u, del, q)} |->
       IF KindIn(b, u, p) = Dir THEN Dir ELSE Bytes(b, u, d, p)]

LEMMA LeastNatural ==
  ASSUME NEW S \in SUBSET Nat, S # {}
  PROVE  \E k \in S : \A j \in S : k <= j
<1>1. PICK k \in S : \A j \in S : ~(<<j, k>> \in OpToRel(<, Nat))
  BY NatLessThanWellFounded, WFMin, Zenon
<1>2. \A j \in S : ~(j < k)
  BY <1>1 DEF OpToRel
<1>. QED BY <1>2

\* A request about a name serves that name, or another name of the same upper file.
LEMMA Resolves ==
  ASSUME NEW b, NEW u, NEW del, NEW n, NodesOK(b, u, del, n),
         DOMAIN b \subseteq Paths, DOMAIN u \subseteq Paths, NEW p, Sees(b, u, del, p)
  PROVE  LET q == ResolvedIn(b, u, del, n, p)
         IN  /\ Sees(b, u, del, q)
             /\ q = p \/ (p \in DOMAIN u /\ q \in DOMAIN u /\ u[q] = u[p] /\ u[p] # Dir)
<1>1. CASE p \notin DOMAIN n.paths
  BY <1>1 DEF ResolvedIn
<1>2. CASE p \in DOMAIN n.paths
  <2>. DEFINE list == n.lists[n.paths[p]]
              live == {k \in DOMAIN list : list[k] # Gap}
              seen == {k \in live : Sees(b, u, del, list[k])}
              first == CHOOSE k \in seen : \A j \in seen : k <= j
  <2>1. /\ Table(n) /\ OneFile(b, u, del, n)
        /\ list \in Seq(Names) /\ DOMAIN list = 1 .. Len(list) /\ Len(list) \in Nat
    BY <1>2 DEF NodesOK, Table
  <2>2. seen # {}
    <3>1. PICK k \in DOMAIN list : list[k] = p
      BY <1>2, <2>1 DEF Table
    <3>2. p # Gap
      BY PathName DEF Sees
    <3>. QED BY <3>1, <3>2
  <2>3. seen \in SUBSET Nat
    BY <2>1
  <2>4. \E k \in seen : \A j \in seen : k <= j
    BY <2>2, <2>3, LeastNatural
  <2>5. first \in seen
    BY <2>4
  <2>6. ResolvedIn(b, u, del, n, p) = list[first]
    BY <1>2, <2>2 DEF ResolvedIn, NamedIn
  <2>7. Sees(b, u, del, list[first]) /\ first \in DOMAIN list
    BY <2>5
  <2>. HIDE DEF first, seen, live, list
  <2>8. CASE list[first] = p
    BY <2>6, <2>7, <2>8
  <2>9. CASE list[first] # p
    <3>1. list[first] # Gap => list[first] \in DOMAIN n.paths /\ n.paths[list[first]] = n.paths[p]
      BY <1>2, <2>1, <2>7 DEF Table, list
    <3>2. CASE list[first] = Gap
      BY <3>2, <2>7, PathName DEF Sees
    <3>3. CASE list[first] # Gap
      BY <1>2, <2>1, <2>6, <2>7, <2>9, <3>1, <3>3 DEF OneFile
    <3>. QED BY <3>2, <3>3
  <2>. QED BY <2>8, <2>9
<1>. QED BY <1>1, <1>2

LEMMA ViewPlain ==
  ASSUME NEW b, NEW u, NEW d, NEW del, NEW n, StoreOK(b), LayerOK(b, u, d, del), NodesOK(b, u, del, n)
  PROVE  ViewIn(b, u, d, del, n) = Plain(b, u, d, del)
<1>1. ASSUME NEW p \in Paths, Reach(b, u, del, p)
      PROVE  Bytes(b, u, d, ResolvedIn(b, u, del, n, p)) = Bytes(b, u, d, p)
  <2>. DEFINE q == ResolvedIn(b, u, del, n, p)
  <2>1. q = p \/ (p \in DOMAIN u /\ q \in DOMAIN u /\ u[q] = u[p] /\ u[p] # Dir)
    BY <1>1, Resolves DEF StoreOK, LayerOK, Reach
  <2>. HIDE DEF q
  <2>2. Bytes(b, u, d, q) = Bytes(b, u, d, p)
    BY <2>1 DEF Bytes
  <2>. QED BY <2>2 DEF q
<1>. DEFINE S == {q \in Paths : Reach(b, u, del, q)}
            V(p) == IF KindIn(b, u, p) = Dir THEN Dir ELSE Bytes(b, u, d, ResolvedIn(b, u, del, n, p))
            W(p) == IF KindIn(b, u, p) = Dir THEN Dir ELSE Bytes(b, u, d, p)
<1>2. \A p \in S : V(p) = W(p)
  BY <1>1
<1>3. ViewIn(b, u, d, del, n) = [p \in S |-> V(p)] /\ Plain(b, u, d, del) = [p \in S |-> W(p)]
  BY DEF ViewIn, Plain
<1>. HIDE DEF S, V, W
<1>4. [p \in S |-> V(p)] = [p \in S |-> W(p)]
  BY <1>2
<1>. QED BY <1>3, <1>4

LEMMA AppliedPlain ==
  ASSUME NEW b, NEW u, NEW d, NEW del, StoreOK(b), LayerOK(b, u, d, del)
  PROVE  AppliedIn(b, u, d, del) = Plain(b, u, d, del)
<1>. DEFINE over == {p \in {q \in DOMAIN b : ~Hid(del, q)} : ~\E q \in Parents(p) : q \in DOMAIN u /\ u[q] # Dir}
            S == {q \in Paths : Reach(b, u, del, q)}
            V(p) == IF p \in DOMAIN u THEN IF u[p] = Dir THEN Dir ELSE d[u[p]] ELSE b[p]
            W(p) == IF KindIn(b, u, p) = Dir THEN Dir ELSE Bytes(b, u, d, p)
<1>1. over \cup DOMAIN u = S
  <2>1. \A p \in DOMAIN b : ~Hid(del, p) =>
          (Reach(b, u, del, p) <=> ~\E q \in Parents(p) : q \in DOMAIN u /\ u[q] # Dir)
    BY StoreReach
  <2>2. \A p \in DOMAIN u : p \in Paths /\ Reach(b, u, del, p)
    BY UpperReach DEF LayerOK
  <2>3. \A p : Reach(b, u, del, p) => ~Hid(del, p) /\ (p \in DOMAIN u \/ p \in DOMAIN b)
    BY DEF Reach, Sees
  <2>. QED BY <2>1, <2>2, <2>3 DEF StoreOK
<1>2. \A p \in S : V(p) = W(p)
  BY DEF KindIn, Bytes
<1>3. AppliedIn(b, u, d, del) = [p \in over \cup DOMAIN u |-> V(p)] /\ Plain(b, u, d, del) = [p \in S |-> W(p)]
  BY DEF AppliedIn, Plain, Hid
<1>. HIDE DEF over, S, V, W
<1>4. [p \in S |-> V(p)] = [p \in S |-> W(p)]
  BY <1>2
<1>. QED BY <1>1, <1>3, <1>4

LEMMA ShownOwed ==
  ASSUME NEW b, NEW u, NEW d, NEW del, NEW t, TreeOK(t), Shows(b, u, d, del, t)
  PROVE  Plain(b, u, d, del) = Owed(t)
<1>. DEFINE S == {q \in Paths : Reach(b, u, del, q)}
            V(p) == IF t.at[p] = Dir THEN Dir ELSE t.holds[t.at[p]]
            W(p) == IF KindIn(b, u, p) = Dir THEN Dir ELSE Bytes(b, u, d, p)
<1>1. S = DOMAIN t.at
  BY DEF Shows, TreeOK
<1>2. \A p \in S : V(p) = W(p)
  BY <1>1 DEF Shows
<1>3. Owed(t) = [p \in DOMAIN t.at |-> V(p)] /\ Plain(b, u, d, del) = [p \in S |-> W(p)]
  BY DEF Owed, Plain
<1>. HIDE DEF S, V, W
<1>4. [p \in S |-> V(p)] = [p \in S |-> W(p)]
  BY <1>2
<1>. QED BY <1>1, <1>3, <1>4

-----------------------------------------------------------------------------
\* The store, and the inode table of a new mount.
BaseOf(s) == [p \in {s[i].path : i \in DOMAIN s} |-> s[CHOOSE i \in DOMAIN s : s[i].path = p].file]

\* No file of a store has two names.
OwnNames == \A s \in Stores : \A i, k \in DOMAIN s : s[i].file = s[k].file /\ s[i].file # Dir => i = k

LEMMA BaseStore ==
  ASSUME OwnNames, NEW s \in Stores
  PROVE  /\ StoreOK(BaseOf(s)) /\ \A p \in DOMAIN BaseOf(s) : BaseOf(s)[p] \in 0 .. Len(s)
         /\ s \in Seq([path : Paths, file : Nat])
         /\ DOMAIN BaseOf(s) = {s[i].path : i \in DOMAIN s}
         /\ \A i \in DOMAIN s : BaseOf(s)[s[i].path] = s[i].file
<1>. DEFINE b == BaseOf(s)
<1>1. s \in Seq([path : Paths, file : Nat]) /\ WellFormed(s)
  BY OverlayAssumption
<1>2. DOMAIN b = {s[i].path : i \in DOMAIN s}
  BY DEF BaseOf
<1>3. ASSUME NEW i \in DOMAIN s PROVE s[i].path \in DOMAIN b /\ b[s[i].path] = s[i].file
  <2>. DEFINE k == CHOOSE j \in DOMAIN s : s[j].path = s[i].path
  <2>1. k \in DOMAIN s /\ s[k].path = s[i].path
    OBVIOUS
  <2>2. k = i
    BY <1>1, <2>1 DEF WellFormed
  <2>3. b[s[i].path] = s[k].file
    BY DEF BaseOf
  <2>. QED BY <1>2, <2>2, <2>3
<1>. HIDE DEF b
<1>4. \A p \in DOMAIN b : \E i \in DOMAIN s : p = s[i].path /\ b[p] = s[i].file
  BY <1>2, <1>3
<1>5. \A p \in DOMAIN b : p \in Paths /\ b[p] \in 0 .. Len(s) /\ b[p] \in Nat
  BY <1>1, <1>4 DEF WellFormed
<1>6. ASSUME NEW p \in DOMAIN b, NEW q \in Parents(p) PROVE q \in DOMAIN b /\ b[q] = Dir
  <2>1. PICK i \in DOMAIN s : p = s[i].path
    BY <1>4
  <2>2. PICK k \in DOMAIN s : s[k].path = q /\ s[k].file = Dir
    BY <1>1, <2>1 DEF WellFormed
  <2>. QED BY <1>3, <2>2
<1>7. \A p, q \in DOMAIN b : b[p] = b[q] /\ b[p] # Dir => p = q
  BY <1>4 DEF OwnNames
<1>8. StoreOK(b)
  BY <1>5, <1>6, <1>7 DEF StoreOK
<1>. QED BY <1>1, <1>2, <1>3, <1>5, <1>8 DEF b

LEMMA NewTable ==
  ASSUME OwnNames, NEW s \in Stores
  PROVE  /\ Table(NewNodes(s))
         /\ \A p, q \in DOMAIN NewNodes(s).paths : NewNodes(s).paths[p] = NewNodes(s).paths[q] => p = q
<1>. DEFINE Number(i) == IF s[i].file = Dir THEN i
                         ELSE CHOOSE k \in 1 .. i : s[k].file = s[i].file
                                                    /\ \A j \in 1 .. k - 1 : s[j].file # s[i].file
            n == NewNodes(s)
<1>0. s \in Seq([path : Paths, file : Nat]) /\ WellFormed(s)
  BY OverlayAssumption
<1>1. s \in Seq([path : Paths, file : Nat]) /\ WellFormed(s) /\ DOMAIN s = 1 .. Len(s) /\ Len(s) \in Nat
  BY <1>0
<1>2. ASSUME NEW i \in DOMAIN s PROVE Number(i) = i
  <2>1. CASE s[i].file = Dir
    BY <2>1
  <2>2. CASE s[i].file # Dir
    <3>1. \A k \in DOMAIN s : s[k].file = s[i].file => k = i
      BY <2>2 DEF OwnNames
    <3>2. i \in 1 .. i /\ s[i].file = s[i].file /\ \A j \in 1 .. i - 1 : s[j].file # s[i].file
      BY <1>1, <3>1
    <3>3. \A k \in 1 .. i : s[k].file = s[i].file => k = i
      BY <1>1, <3>1
    <3>. QED BY <2>2, <3>2, <3>3
  <2>. QED BY <2>1, <2>2
<1>3. n = [paths |-> [p \in {s[i].path : i \in DOMAIN s} |-> Number(CHOOSE i \in DOMAIN s : s[i].path = p)],
           lists |-> [m \in DOMAIN s |-> [i \in DOMAIN s |-> IF Number(i) = m THEN s[i].path ELSE Gap]]]
  BY DEF NewNodes
<1>. HIDE DEF n, Number
<1>4. /\ n = [paths |-> n.paths, lists |-> n.lists] /\ DOMAIN n.paths = {s[i].path : i \in DOMAIN s}
      /\ \A p \in DOMAIN n.paths : n.paths[p] = Number(CHOOSE i \in DOMAIN s : s[i].path = p)
      /\ n.lists = [m \in DOMAIN s |-> [i \in DOMAIN s |-> IF Number(i) = m THEN s[i].path ELSE Gap]]
  BY <1>3
<1>5. ASSUME NEW p \in DOMAIN n.paths PROVE n.paths[p] \in DOMAIN s /\ s[n.paths[p]].path = p /\ p \in Paths
  <2>. DEFINE k == CHOOSE i \in DOMAIN s : s[i].path = p
  <2>1. k \in DOMAIN s /\ s[k].path = p
    BY <1>4
  <2>2. n.paths[p] = k
    BY <1>2, <1>4, <2>1
  <2>. QED BY <1>1, <2>1, <2>2 DEF WellFormed
<1>6. \A m, i \in DOMAIN s : n.lists[m][i] = IF i = m THEN s[i].path ELSE Gap
  BY <1>2, <1>4
<1>7. DOMAIN n.lists = DOMAIN s /\ \A m \in DOMAIN s : DOMAIN n.lists[m] = DOMAIN s
  BY <1>4
<1>8. n.lists \in Seq(Seq(Names))
  <2>1. \A i \in DOMAIN s : s[i].path \in Names
    BY <1>1, PathName DEF WellFormed
  <2>2. Gap \in Names
    BY DEF Gap, Names
  <2>3. \A m \in DOMAIN s : [i \in DOMAIN s |-> IF Number(i) = m THEN s[i].path ELSE Gap] \in Seq(Names)
    BY <1>1, <2>1, <2>2
  <2>. QED BY <1>1, <1>4, <2>3
<1>9. ASSUME NEW p \in DOMAIN n.paths
      PROVE  /\ n.paths[p] \in DOMAIN n.lists
             /\ \E k \in DOMAIN n.lists[n.paths[p]] : n.lists[n.paths[p]][k] = p
             /\ \A k \in DOMAIN n.lists[n.paths[p]] :
                  LET q == n.lists[n.paths[p]][k]
                  IN  q # Gap => q \in DOMAIN n.paths /\ n.paths[q] = n.paths[p]
  <2>. DEFINE m == n.paths[p]
  <2>1. m \in DOMAIN s /\ s[m].path = p
    BY <1>5
  <2>. HIDE DEF m
  <2>2. m \in DOMAIN n.lists /\ m \in DOMAIN n.lists[m] /\ n.lists[m][m] = p
    BY <1>6, <1>7, <2>1
  <2>3. \A k \in DOMAIN n.lists[m] : n.lists[m][k] # Gap => n.lists[m][k] = p
    BY <1>6, <1>7, <2>1
  <2>. QED BY <2>2, <2>3 DEF m
<1>10. DOMAIN n.paths \subseteq Names \ {Gap}
  BY <1>5, PathName
<1>11. Table(n)
  BY <1>4, <1>8, <1>9, <1>10 DEF Table
<1>12. \A p, q \in DOMAIN n.paths : n.paths[p] = n.paths[q] => p = q
  BY <1>5
<1>. QED BY <1>11, <1>12 DEF n

\* What a failure or a restart makes of the history, with the state made explicit.
AdoptedIn(b, s, view, to, t) ==
    LET back == {p \in DOMAIN view \cap DOMAIN b : Within(p, to)} \ DOMAIN t.at
    IN  [at    |-> [p \in DOMAIN t.at \cup back |->
                      IF p \notin back THEN t.at[p]
                      ELSE IF b[p] = Dir THEN Dir ELSE Len(t.holds) + b[p]],
         holds |-> t.holds \o [n \in DOMAIN s |-> n]]

IsOwed(v, t) ==
    /\ DOMAIN v = DOMAIN t.at
    /\ \A p \in DOMAIN t.at : v[p] = IF t.at[p] = Dir THEN Dir ELSE t.holds[t.at[p]]
IsPlain(v, b, u, d, del) ==
    /\ DOMAIN v = {q \in Paths : Reach(b, u, del, q)}
    /\ \A p \in DOMAIN v : v[p] = IF KindIn(b, u, p) = Dir THEN Dir ELSE Bytes(b, u, d, p)

LEMMA OwedAt == ASSUME NEW t PROVE IsOwed(Owed(t), t)
BY DEF IsOwed, Owed

LEMMA PlainAt == ASSUME NEW b, NEW u, NEW d, NEW del PROVE IsPlain(Plain(b, u, d, del), b, u, d, del)
BY DEF IsPlain, Plain

\* The process died before reveal's whiteouts were written: the whiteouts above an upper
\* entry are dropped, and the tree takes back the names of the store that shows again.
LEMMA CrashSound ==
  ASSUME OwnNames, NEW s \in Stores, NEW b, b = BaseOf(s), NEW u, NEW d, NEW del, del \subseteq DOMAIN b,
         NEW n, NEW n2, NEW after,
         NEW to \in DOMAIN u, Sound(b, u, d, Rev(b, del, u, to), n, after),
         NEW C, C = {w \in del : w \notin DOMAIN u}, NodesOK(b, u, C, n2)
  PROVE  Sound(b, u, d, C, n2, AdoptedIn(b, s, ViewIn(b, u, d, C, n2), to, after))
<1>. DEFINE rev == Rev(b, del, u, to)
            view == ViewIn(b, u, d, C, n2)
            t2 == AdoptedIn(b, s, view, to, after)
<1>. SUFFICES Sound(b, u, d, C, n2, t2)
  OBVIOUS
<1>1. LayerOK(b, u, d, rev) /\ TreeOK(after) /\ Shows(b, u, d, rev, after)
  BY DEF Sound
<1>2. /\ StoreOK(b) /\ \A p \in DOMAIN b : b[p] \in 0 .. Len(s)
      /\ s \in Seq([path : Paths, file : Nat])
  BY BaseStore
<1>3. DOMAIN u \subseteq Paths /\ DOMAIN b \subseteq Paths /\ to \in Paths
  BY <1>1, <1>2 DEF LayerOK, StoreOK
<1>4. C \subseteq rev /\ C \subseteq DOMAIN b
  BY <1>2, <1>3, RevHid
<1>5. rev \subseteq DOMAIN b /\ \A w \in rev : w \in C \/ w \in DOMAIN u \/ Within(w, to)
  BY <1>2, <1>3, RevHid DEF Rev
<1>. HIDE DEF rev
<1>6. LayerOK(b, u, d, C)
  BY <1>1, <1>4 DEF LayerOK, Hid
<1>7. \A p \in Paths : Reach(b, u, rev, p) => Reach(b, u, C, p)
  BY <1>4 DEF Reach, Sees, Hid
<1>8. \A p \in DOMAIN u : p \in DOMAIN after.at
  BY <1>1, <1>2, <1>3, UpperReach DEF Shows
<1>9. view = Plain(b, u, d, C)
  BY <1>2, <1>6, ViewPlain
<1>. HIDE DEF view
<1>10. /\ DOMAIN view = {q \in Paths : Reach(b, u, C, q)}
       /\ \A p \in Paths : Reach(b, u, C, p) =>
            view[p] = IF KindIn(b, u, p) = Dir THEN Dir ELSE Bytes(b, u, d, p)
  <2>1. IsPlain(view, b, u, d, C)
    BY <1>9, PlainAt
  <2>. QED BY <2>1 DEF IsPlain
<1>11. \A p \in DOMAIN after.at : p \in Paths /\ Reach(b, u, C, p)
  BY <1>1, <1>7 DEF Shows, TreeOK
<1>12. \A p \in Paths : Reach(b, u, C, p) => p \in DOMAIN after.at \/ Within(p, to)
  <2>. SUFFICES ASSUME NEW p \in Paths, Reach(b, u, C, p), p \notin DOMAIN after.at
                PROVE  Within(p, to)
    OBVIOUS
  <2>1. Hid(rev, p)
    <3>1. ~Reach(b, u, rev, p)
      BY <1>1 DEF Shows
    <3>2. PICK r \in Parents(p) \cup {p} : Hid(rev, r)
      BY <3>1 DEF Reach, Sees
    <3>3. \A q \in Parents(p) : q \in Paths /\ Within(p, q)
      BY PathParents
    <3>. QED BY <1>3, <1>5, <3>2, <3>3, PathOrder DEF Hid
  <2>2. PICK w \in rev : Within(p, w) /\ w \notin C
    BY <2>1 DEF Reach, Sees, Hid
  <2>3. w \in Paths
    BY <1>3, <1>5
  <2>4. w \notin DOMAIN u
    BY <1>1, <2>2, <2>3, PathOrder DEF LayerOK, Hid
  <2>5. Within(w, to)
    BY <1>5, <2>2, <2>4
  <2>. QED BY <1>3, <2>2, <2>3, <2>5, PathOrder
<1>. DEFINE back == {p \in DOMAIN view \cap DOMAIN b : Within(p, to)} \ DOMAIN after.at
<1>13. /\ t2 = [at |-> t2.at, holds |-> t2.holds]
       /\ t2.holds = after.holds \o [i \in DOMAIN s |-> i]
       /\ DOMAIN t2.at = DOMAIN after.at \cup back
       /\ \A q \in DOMAIN after.at : t2.at[q] = after.at[q]
       /\ \A p \in back : t2.at[p] = IF b[p] = Dir THEN Dir ELSE Len(after.holds) + b[p]
  BY DEF AdoptedIn
<1>. HIDE DEF t2
<1>14. \A p \in back : p \in Paths /\ p \in DOMAIN b /\ p \notin DOMAIN u /\ p \notin DOMAIN after.at /\ Reach(b, u, C, p)
  BY <1>3, <1>8, <1>10
<1>15. \A p \in Paths : Reach(b, u, C, p) => p \in DOMAIN after.at \/ p \in back
  BY <1>8, <1>10, <1>12 DEF Reach, Sees
<1>. HIDE DEF back
<1>16. /\ after.holds \in Seq(Nat) /\ Len(after.holds) \in Nat /\ DOMAIN after.at \subseteq Paths
       /\ \A p \in DOMAIN after.at : after.at[p] \in 0 .. Len(after.holds)
  BY <1>1 DEF TreeOK
<1>17. /\ t2.holds \in Seq(Nat) /\ Len(t2.holds) = Len(after.holds) + Len(s) /\ Len(s) \in Nat
       /\ \A i \in 1 .. Len(after.holds) : t2.holds[i] = after.holds[i]
       /\ \A i \in 1 .. Len(s) : t2.holds[Len(after.holds) + i] = i
  <2>. DEFINE ids == [i \in DOMAIN s |-> i]
  <2>1. ids \in Seq(Nat) /\ Len(ids) = Len(s) /\ Len(s) \in Nat /\ \A i \in 1 .. Len(s) : ids[i] = i
    BY <1>2
  <2>. HIDE DEF ids
  <2>2. t2.holds = after.holds \o ids
    BY <1>13 DEF ids
  <2>3. \A i \in 1 .. Len(after.holds) : (after.holds \o ids)[i] = after.holds[i]
    BY <1>16, <2>1
  <2>4. \A i \in 1 .. Len(ids) : (after.holds \o ids)[Len(after.holds) + i] = ids[i]
    BY <1>16, <2>1
  <2>5. after.holds \o ids \in Seq(Nat) /\ Len(after.holds \o ids) = Len(after.holds) + Len(ids)
    BY <1>16, <2>1, ConcatProperties
  <2>. QED BY <2>1, <2>2, <2>3, <2>4, <2>5
<1>18. \A p \in back : b[p] \in 0 .. Len(s) /\ (b[p] # Dir => b[p] \in 1 .. Len(s))
  <2>. SUFFICES ASSUME NEW p \in back PROVE b[p] \in 0 .. Len(s) /\ (b[p] # Dir => b[p] \in 1 .. Len(s))
    OBVIOUS
  <2>1. b[p] \in 0 .. Len(s)
    BY <1>2, <1>14
  <2>. QED BY <1>17, <2>1 DEF Dir
<1>19. TreeOK(t2)
  <2>a. \A p \in DOMAIN after.at : t2.at[p] \in 0 .. Len(t2.holds)
    BY <1>13, <1>16, <1>17
  <2>b. ASSUME NEW p \in back PROVE t2.at[p] \in 0 .. Len(t2.holds)
    BY <1>13, <1>16, <1>17, <1>18 DEF Dir
  <2>1. \A p \in DOMAIN t2.at : t2.at[p] \in 0 .. Len(t2.holds)
    BY <1>13, <2>a, <2>b
  <2>. QED BY <1>13, <1>14, <1>16, <1>17, <2>1 DEF TreeOK
<1>20. \A p \in back : KindIn(b, u, p) = b[p] /\ Bytes(b, u, d, p) = b[p]
  BY <1>14 DEF KindIn, Bytes
<1>21. \A p \in Paths : p \in DOMAIN t2.at <=> Reach(b, u, C, p)
  BY <1>11, <1>13, <1>14, <1>15
<1>22. \A p \in DOMAIN t2.at : t2.at[p] = Dir <=> KindIn(b, u, p) = Dir
  BY <1>1, <1>13, <1>16, <1>18, <1>20 DEF Shows, Dir
<1>23. \A p \in DOMAIN t2.at : t2.at[p] # Dir => t2.holds[t2.at[p]] = Bytes(b, u, d, p)
  <2>1. ASSUME NEW p \in DOMAIN after.at, after.at[p] # Dir
        PROVE  t2.holds[after.at[p]] = Bytes(b, u, d, p)
    <3>1. after.at[p] \in 1 .. Len(after.holds)
      BY <1>16, <2>1 DEF Dir
    <3>2. t2.holds[after.at[p]] = after.holds[after.at[p]]
      BY <1>17, <3>1
    <3>. QED BY <1>1, <2>1, <3>2 DEF Shows
  <2>2. ASSUME NEW p \in back, b[p] # Dir
        PROVE  t2.holds[Len(after.holds) + b[p]] = Bytes(b, u, d, p)
    BY <1>17, <1>18, <1>20, <2>2
  <2>. QED BY <1>13, <2>1, <2>2
<1>24. \A p, q \in DOMAIN t2.at : t2.at[p] # Dir /\ t2.at[q] # Dir => (t2.at[p] = t2.at[q] <=> Same(u, p, q))
  <2>1. \A p, q \in DOMAIN after.at : t2.at[p] # Dir /\ t2.at[q] # Dir => (t2.at[p] = t2.at[q] <=> Same(u, p, q))
    BY <1>1, <1>13 DEF Shows
  <2>2. ASSUME NEW p \in DOMAIN after.at, NEW q \in back, t2.at[p] # Dir, t2.at[q] # Dir
        PROVE  t2.at[p] # t2.at[q] /\ ~Same(u, p, q) /\ ~Same(u, q, p)
    <3>1. t2.at[p] \in 0 .. Len(after.holds) /\ t2.at[q] = Len(after.holds) + b[q] /\ b[q] \in 1 .. Len(s)
      BY <1>13, <1>16, <1>18, <2>2
    <3>2. p # q /\ q \notin DOMAIN u
      BY <1>14
    <3>. QED BY <1>16, <1>17, <3>1, <3>2 DEF Same
  <2>3. ASSUME NEW p \in back, NEW q \in back, t2.at[p] # Dir, t2.at[q] # Dir
        PROVE  t2.at[p] = t2.at[q] <=> Same(u, p, q)
    <3>1. t2.at[p] = Len(after.holds) + b[p] /\ t2.at[q] = Len(after.holds) + b[q]
          /\ b[p] \in 1 .. Len(s) /\ b[q] \in 1 .. Len(s) /\ b[p] # Dir
      BY <1>13, <1>18, <2>3
    <3>2. t2.at[p] = t2.at[q] <=> b[p] = b[q]
      BY <1>16, <1>17, <3>1
    <3>3. b[p] = b[q] <=> p = q
      BY <1>2, <1>14, <3>1 DEF StoreOK
    <3>4. Same(u, p, q) <=> p = q
      BY <1>14 DEF Same
    <3>. QED BY <3>2, <3>3, <3>4
  <2>. QED BY <1>13, <2>1, <2>2, <2>3
<1>25. Shows(b, u, d, C, t2)
  BY <1>21, <1>22, <1>23, <1>24 DEF Shows
<1>. QED BY <1>6, <1>19, <1>25 DEF Sound

FreeIn(b, u, del, p) == ~Sees(b, u, del, p) /\ \A q \in Parents(p) : Reach(b, u, del, q) /\ KindIn(b, u, q) = Dir

IsExtended(g, f, p, x) ==
    /\ DOMAIN g = DOMAIN f \cup {p} /\ g[p] = x
    /\ \A q \in DOMAIN f : q # p => g[q] = f[q]

LEMMA ExtendedAt == ASSUME NEW f, NEW p, NEW x PROVE IsExtended(Extended(f, p, x), f, p, x)
BY DEF IsExtended, Extended

\* What is common to a name made anew and a name linked: u1 is the upper tree with the
\* folders of the name.
IsPlaced(b, u, d, del, n, t, p, x, u1, u2) ==
    /\ Sound(b, u1, d, del, n, t) /\ ~Sees(b, u1, del, p)
    /\ \A q \in Parents(p) : q \in DOMAIN u1 /\ u1[q] = Dir
    /\ DOMAIN u2 = DOMAIN u1 \cup {p} /\ u2[p] = x
    /\ \A q \in DOMAIN u1 : u2[q] = u1[q]
    /\ \A q \in DOMAIN u : q \in DOMAIN u1 /\ u1[q] = u[q]
    /\ \A q : q # p /\ Sees(b, u2, Rev(b, del, u2, p), q) => Sees(b, u1, del, q)
    /\ \A q : Sees(b, u, del, q) => Sees(b, u1, del, q)

LEMMA Placed ==
  ASSUME NEW b, NEW u, NEW d, NEW del, NEW n, NEW t, StoreOK(b), Sound(b, u, d, del, n, t),
         NEW p \in Paths, FreeIn(b, u, del, p), NEW x
  PROVE  IsPlaced(b, u, d, del, n, t, p, x, WithParents(u, p), Put(u, p, x))
<1>. DEFINE u1 == WithParents(u, p)
            u2 == Put(u, p, x)
<1>1. Sound(b, u1, d, del, n, t) /\ Alike(b, u, del, u1, del)
  BY ParentsSound DEF FreeIn
<1>2. IsPut(u2, u, p, x)
  BY PutAt
<1>3. /\ DOMAIN u1 = DOMAIN u \cup Parents(p)
      /\ \A q \in DOMAIN u : u1[q] = u[q]
      /\ \A q \in Parents(p) : q \notin DOMAIN u => u1[q] = Dir
  BY ParentsAt
<1>. HIDE DEF u1, u2
<1>4. ~Sees(b, u1, del, p)
  BY <1>1 DEF Alike, FreeIn
<1>5. LayerOK(b, u, d, del) /\ LayerOK(b, u1, d, del)
  BY <1>1 DEF Sound
<1>6. p \notin DOMAIN u1
  BY <1>4, <1>5 DEF Sees, LayerOK
<1>7. DOMAIN u2 = DOMAIN u1 \cup {p} /\ u2[p] = x /\ \A q \in DOMAIN u1 : u2[q] = u1[q]
  BY <1>2, <1>3, <1>6 DEF IsPut
<1>8. \A q \in Parents(p) : q \in DOMAIN u1 /\ u1[q] = Dir
  BY <1>3 DEF FreeIn, KindIn
<1>9. \A q : q # p /\ Sees(b, u2, Rev(b, del, u2, p), q) => Sees(b, u1, del, q)
  <2>1. /\ \A q \in Paths : ~Within(q, p) => (Sees(b, u2, Rev(b, del, u2, p), q) <=> Sees(b, u1, del, q))
        /\ \A q \in Paths : Within(q, p) /\ q # p => ~Sees(b, u2, Rev(b, del, u2, p), q)
    BY <1>4, <1>5, <1>7, <1>8, AddSees
  <2>2. DOMAIN u2 \subseteq Paths /\ DOMAIN b \subseteq Paths
    BY <1>5, <1>7 DEF LayerOK, StoreOK
  <2>. QED BY <2>1, <2>2 DEF Sees
<1>10. \A q : Sees(b, u, del, q) => Sees(b, u1, del, q)
  BY <1>3 DEF Sees
<1>. QED BY <1>1, <1>3, <1>4, <1>7, <1>8, <1>9, <1>10 DEF u1, u2, IsPlaced

Creates(u, d, t, p, dir, v, u2, d2, t2) ==
    /\ u2 = Put(u, p, IF dir THEN Dir ELSE Len(d) + 1)
    /\ d2 = IF dir THEN d ELSE Append(d, v)
    /\ t2 = IF dir THEN [t EXCEPT !.at = Extended(@, p, Dir)]
            ELSE [at |-> Extended(t.at, p, Len(t.holds) + 1), holds |-> Append(t.holds, v)]

LEMMA CreateSound ==
  ASSUME NEW b, NEW u, NEW d, NEW del, NEW n, NEW t, StoreOK(b), Sound(b, u, d, del, n, t),
         NEW p \in Paths, FreeIn(b, u, del, p), AloneIn(n, p), NEW dir \in BOOLEAN, NEW v \in Nat,
         NEW u2, NEW d2, NEW t2, Creates(u, d, t, p, dir, v, u2, d2, t2)
  PROVE  /\ Sound(b, u2, d2, Rev(b, del, u2, p), Numbered(n, p), t2)
         /\ p \in DOMAIN u2 /\ p \notin DOMAIN t.at
<1>. DEFINE u1 == WithParents(u, p)
            x == IF dir THEN Dir ELSE Len(d) + 1
            y == IF dir THEN Dir ELSE Len(t.holds) + 1
<1>0. IsPlaced(b, u, d, del, n, t, p, x, u1, u2)
  BY Placed DEF Creates
<1>. HIDE DEF u1
<1>1. /\ Sound(b, u1, d, del, n, t) /\ ~Sees(b, u1, del, p)
      /\ \A q \in Parents(p) : q \in DOMAIN u1 /\ u1[q] = Dir
      /\ DOMAIN u2 = DOMAIN u1 \cup {p} /\ u2[p] = x
      /\ \A q \in DOMAIN u1 : u2[q] = u1[q]
      /\ \A q : q # p /\ Sees(b, u2, Rev(b, del, u2, p), q) => Sees(b, u1, del, q)
  BY <1>0 DEF IsPlaced
<1>2. LayerOK(b, u1, d, del) /\ TreeOK(t) /\ Shows(b, u1, d, del, t) /\ NodesOK(b, u1, del, n)
  BY <1>1 DEF Sound
<1>3. /\ d \in Seq(Nat) /\ Len(d) \in Nat /\ t.holds \in Seq(Nat) /\ Len(t.holds) \in Nat
      /\ t = [at |-> t.at, holds |-> t.holds] /\ DOMAIN t.at \subseteq Paths
      /\ \A q \in DOMAIN t.at : t.at[q] \in 0 .. Len(t.holds)
      /\ \A q \in DOMAIN u1 : u1[q] \in 0 .. Len(d)
  BY <1>2 DEF LayerOK, TreeOK
<1>4. /\ t2 = [at |-> t2.at, holds |-> t2.holds] /\ t2.at = Extended(t.at, p, y)
      /\ t2.holds = IF dir THEN t.holds ELSE Append(t.holds, v)
  <2>1. CASE dir
    <3>. DEFINE a == t.at  h == t.holds
    <3>1. t = [at |-> a, holds |-> h]
      BY <1>3
    <3>. HIDE DEF a, h
    <3>2. t.at = a /\ t.holds = h /\ [t EXCEPT !.at = Extended(@, p, Dir)] = [at |-> Extended(a, p, Dir), holds |-> h]
      BY <3>1
    <3>. QED BY <2>1, <3>2 DEF Creates
  <2>2. CASE ~dir
    BY <2>2 DEF Creates
  <2>. QED BY <2>1, <2>2
<1>a. (dir => x = Dir /\ y = Dir) /\ (~dir => x = Len(d) + 1 /\ y = Len(t.holds) + 1)
  OBVIOUS
<1>. HIDE DEF x, y
<1>5. /\ d2 \in Seq(Nat) /\ Len(d) <= Len(d2) /\ \A i \in 1 .. Len(d) : d2[i] = d[i]
      /\ ~dir => Len(d2) = Len(d) + 1 /\ d2[Len(d) + 1] = v
  BY <1>3 DEF Creates
<1>6. /\ t2.holds \in Seq(Nat) /\ Len(t.holds) <= Len(t2.holds) /\ Len(t2.holds) \in Nat
      /\ \A i \in 1 .. Len(t.holds) : t2.holds[i] = t.holds[i]
      /\ ~dir => Len(t2.holds) = Len(t.holds) + 1 /\ t2.holds[Len(t.holds) + 1] = v
  BY <1>3, <1>4
<1>7. /\ DOMAIN t2.at = DOMAIN t.at \cup {p} /\ t2.at[p] = y
      /\ \A q \in DOMAIN t.at : q # p => t2.at[q] = t.at[q]
  <2>1. IsExtended(t2.at, t.at, p, y)
    BY <1>4, ExtendedAt
  <2>. QED BY <2>1 DEF IsExtended
<1>8. TreeAdds(t2, t, p)
  <2>1. \A q \in DOMAIN t2.at : t2.at[q] \in 0 .. Len(t2.holds)
    <3>1. y \in 0 .. Len(t2.holds)
      BY <1>3, <1>6, <1>a DEF Dir
    <3>2. \A q \in DOMAIN t.at : q # p => t2.at[q] \in 0 .. Len(t2.holds)
      BY <1>3, <1>6, <1>7
    <3>. QED BY <1>7, <3>1, <3>2
  <2>2. TreeOK(t2)
    BY <1>3, <1>4, <1>6, <1>7, <2>1 DEF TreeOK
  <2>3. \A q \in DOMAIN t.at : t.at[q] # Dir => t2.holds[t.at[q]] = t.holds[t.at[q]]
    BY <1>3, <1>6 DEF Dir
  <2>. QED BY <1>7, <2>2, <2>3 DEF TreeAdds
<1>9. u2[p] \in 0 .. Len(d2) /\ (t2.at[p] = Dir <=> u2[p] = Dir)
  BY <1>1, <1>3, <1>5, <1>7, <1>a DEF Dir
<1>10. u2[p] # Dir => t2.holds[t2.at[p]] = d2[u2[p]]
  BY <1>1, <1>5, <1>6, <1>7, <1>a
<1>11. u2[p] # Dir => \A q \in DOMAIN t.at : t.at[q] # Dir =>
         (t.at[q] = t2.at[p] <=> q \in DOMAIN u1 /\ u1[q] = u2[p])
  BY <1>1, <1>3, <1>7, <1>a DEF Dir
<1>12. /\ LayerOK(b, u2, d2, Rev(b, del, u2, p)) /\ Shows(b, u2, d2, Rev(b, del, u2, p), t2)
       /\ p \notin DOMAIN t.at
  <2>1. /\ LayerOK(b, u1, d, del) /\ TreeOK(t) /\ Shows(b, u1, d, del, t) /\ ~Sees(b, u1, del, p)
        /\ \A q \in Parents(p) : q \in DOMAIN u1 /\ u1[q] = Dir
        /\ DOMAIN u2 = DOMAIN u1 \cup {p} /\ \A q \in DOMAIN u1 : u2[q] = u1[q]
    BY <1>1, <1>2
  <2>2. d2 \in Seq(Nat) /\ Len(d) <= Len(d2) /\ \A i \in 1 .. Len(d) : d2[i] = d[i]
    BY <1>3, <1>5
  <2>3. IsAdded(b, u1, d, del, t, p, u2, d2, t2)
    BY <2>1, <2>2, <1>8, <1>9, <1>10, <1>11 DEF IsAdded
  <2>. QED BY <2>3, AddShows
<1>13. NodesOK(b, u2, Rev(b, del, u2, p), Numbered(n, p))
  BY <1>1, <1>2, CreateNodes
<1>. QED BY <1>1, <1>8, <1>12, <1>13 DEF Sound, TreeAdds

LEMMA LinkSound ==
  ASSUME NEW b, NEW u, NEW d, NEW del, NEW n, NEW t, StoreOK(b), Sound(b, u, d, del, n, t),
         NEW p \in Paths, FreeIn(b, u, del, p), AloneIn(n, p),
         NEW s \in Paths, s \in DOMAIN u, u[s] # Dir, Reach(b, u, del, s),
         NEW u2, u2 = Put(u, p, u[s]),
         NEW t2, t2 = [t EXCEPT !.at = Extended(@, p, t.at[s])]
  PROVE  /\ Sound(b, u2, d, Rev(b, del, u2, p), Aliased(Numbered(n, s), p, Numbered(n, s).paths[s]), t2)
         /\ p \in DOMAIN u2 /\ p \notin DOMAIN t.at
<1>. DEFINE u1 == WithParents(u, p)
<1>0. IsPlaced(b, u, d, del, n, t, p, u[s], u1, u2)
  BY Placed
<1>. HIDE DEF u1
<1>1. /\ Sound(b, u1, d, del, n, t) /\ ~Sees(b, u1, del, p)
      /\ \A q \in Parents(p) : q \in DOMAIN u1 /\ u1[q] = Dir
      /\ DOMAIN u2 = DOMAIN u1 \cup {p} /\ u2[p] = u[s]
      /\ \A q \in DOMAIN u1 : u2[q] = u1[q]
      /\ \A q \in DOMAIN u : q \in DOMAIN u1 /\ u1[q] = u[q]
      /\ \A q : q # p /\ Sees(b, u2, Rev(b, del, u2, p), q) => Sees(b, u1, del, q)
      /\ \A q : Sees(b, u, del, q) => Sees(b, u1, del, q)
  BY <1>0 DEF IsPlaced
<1>2. LayerOK(b, u1, d, del) /\ TreeOK(t) /\ Shows(b, u1, d, del, t) /\ NodesOK(b, u1, del, n)
      /\ Shows(b, u, d, del, t)
  BY <1>1 DEF Sound
<1>3. /\ d \in Seq(Nat) /\ Len(d) \in Nat /\ t.holds \in Seq(Nat)
      /\ t = [at |-> t.at, holds |-> t.holds] /\ DOMAIN t.at \subseteq Paths
      /\ \A q \in DOMAIN t.at : t.at[q] \in 0 .. Len(t.holds)
      /\ \A q \in DOMAIN u1 : u1[q] \in 0 .. Len(d)
  BY <1>2 DEF LayerOK, TreeOK
<1>4. t2 = [at |-> t2.at, holds |-> t2.holds] /\ t2.at = Extended(t.at, p, t.at[s]) /\ t2.holds = t.holds
  <2>. DEFINE a == t.at  h == t.holds
  <2>1. t = [at |-> a, holds |-> h]
    BY <1>3
  <2>. HIDE DEF a, h
  <2>2. \A z : t.at = a /\ t.holds = h /\ [t EXCEPT !.at = Extended(@, p, z)] = [at |-> Extended(a, p, z), holds |-> h]
    BY <2>1
  <2>. QED BY <2>2
<1>5. /\ DOMAIN t2.at = DOMAIN t.at \cup {p} /\ t2.at[p] = t.at[s]
      /\ \A q \in DOMAIN t.at : q # p => t2.at[q] = t.at[q]
  <2>1. IsExtended(t2.at, t.at, p, t.at[s])
    BY <1>4, ExtendedAt
  <2>. QED BY <2>1 DEF IsExtended
<1>6. /\ s \in DOMAIN t.at /\ s \in DOMAIN u1 /\ u1[s] = u[s] /\ u1[s] # Dir /\ t.at[s] # Dir
      /\ t.holds[t.at[s]] = d[u[s]]
      /\ \A q \in DOMAIN t.at : t.at[q] # Dir => (t.at[q] = t.at[s] <=> Same(u1, q, s))
  BY <1>1, <1>2 DEF Shows, KindIn, Bytes
<1>7. TreeAdds(t2, t, p)
  <2>1. \A q \in DOMAIN t2.at : t2.at[q] \in 0 .. Len(t2.holds)
    BY <1>3, <1>4, <1>5, <1>6
  <2>2. TreeOK(t2)
    BY <1>3, <1>4, <1>5, <2>1 DEF TreeOK
  <2>. QED BY <1>4, <1>5, <2>2 DEF TreeAdds
<1>8. u2[p] \in 0 .. Len(d) /\ (t2.at[p] = Dir <=> u2[p] = Dir)
  BY <1>1, <1>3, <1>5, <1>6
<1>9. u2[p] # Dir => t2.holds[t2.at[p]] = d[u2[p]]
  BY <1>1, <1>4, <1>5, <1>6
<1>10. u2[p] # Dir => \A q \in DOMAIN t.at : t.at[q] # Dir =>
         (t.at[q] = t2.at[p] <=> q \in DOMAIN u1 /\ u1[q] = u2[p])
  BY <1>1, <1>5, <1>6 DEF Same
<1>11. /\ LayerOK(b, u2, d, Rev(b, del, u2, p)) /\ Shows(b, u2, d, Rev(b, del, u2, p), t2)
       /\ p \notin DOMAIN t.at
  <2>1. /\ LayerOK(b, u1, d, del) /\ TreeOK(t) /\ Shows(b, u1, d, del, t) /\ ~Sees(b, u1, del, p)
        /\ \A q \in Parents(p) : q \in DOMAIN u1 /\ u1[q] = Dir
        /\ DOMAIN u2 = DOMAIN u1 \cup {p} /\ \A q \in DOMAIN u1 : u2[q] = u1[q]
    BY <1>1, <1>2
  <2>2. d \in Seq(Nat) /\ Len(d) <= Len(d) /\ \A i \in 1 .. Len(d) : d[i] = d[i]
    BY <1>3
  <2>3. IsAdded(b, u1, d, del, t, p, u2, d, t2)
    BY <2>1, <2>2, <1>7, <1>8, <1>9, <1>10 DEF IsAdded
  <2>. QED BY <2>3, AddShows
<1>12. NodesOK(b, u2, Rev(b, del, u2, p), Aliased(Numbered(n, s), p, Numbered(n, s).paths[s]))
  <2>1. Sees(b, u1, del, s) /\ s # p
    BY <1>1 DEF Reach
  <2>2. p \in DOMAIN u2 /\ u2[p] = u1[s] /\ \A q \in DOMAIN u1 : q \in DOMAIN u2 /\ u2[q] = u1[q]
    BY <1>1, <1>6
  <2>. QED BY <1>1, <1>2, <1>6, <2>1, <2>2, LinkNodes
<1>. QED BY <1>1, <1>7, <1>11, <1>12 DEF Sound, TreeAdds

(***************************************************************************)
(* The inductive invariant: between requests the layer shows the tree;     *)
(* while one is served, what it shows now, what is left when it is undone  *)
(* and what it will show when it is done.                                  *)
(***************************************************************************)
Fields(o) == o = [kind |-> o.kind, step |-> o.step, p |-> o.p, q |-> o.q, to |-> o.to,
                  todo |-> o.todo, linked |-> o.linked, links |-> o.links, after |-> o.after]

\* A request about p serves q: the same name, or another of the same upper file.
Stands(u, p, q) == q = p \/ (p \in DOMAIN u /\ q \in DOMAIN u /\ u[q] = u[p] /\ u[p] # Dir)

\* Names are copied up: everything still shows the tree.
CopyPhase(b, u, d, del, n, o, t, k) ==
    /\ o.kind \in {"write", "link", "rename"} /\ Fields(o) /\ o.step = "copy" /\ o.links = {}
    /\ Sound(b, u, d, del, n, t)
    /\ o.p \in Paths /\ Reach(b, u, del, o.p)
    /\ o.kind \in {"write", "link"} =>
         KindIn(b, u, o.p) # Dir /\ Stands(u, o.p, o.q) /\ o.todo = {o.q}
    /\ o.kind = "write" => o.after = [t EXCEPT !.holds[t.at[o.p]] = 10 + k]
    /\ o.kind = "link" => /\ o.to \in Paths /\ FreeIn(b, u, del, o.to) /\ AloneIn(n, o.to)
                          /\ o.after = [t EXCEPT !.at = Extended(@, o.to, t.at[o.p])]
    /\ o.kind = "rename" => /\ RenameOK(b, u, del, n, o.p, o.to) /\ TreeMoves(o.after, t, o.p, o.to)
                            /\ o.todo = {q \in Paths : Within(q, o.p) /\ Reach(b, u, del, q)}

\* A whiteout is written and the upper entry not gone yet.
TrashPhase(b, u, d, del, n, o, t) ==
    /\ o.kind = "remove" /\ o.step = "trash" /\ o.to \in Paths /\ o.to \in DOMAIN u /\ del \subseteq DOMAIN b
    /\ Sound(b, u, d, del \ {o.to}, n, t)
    /\ Sound(b, Without(u, {q \in DOMAIN u : Within(q, o.to)}), d, del, n, o.after)
    /\ o.to \in DOMAIN t.at /\ o.to \notin DOMAIN o.after.at

\* The source has its whiteout and has not moved yet.
MovePhase(b, u, d, del, n, o, t) ==
    /\ o.kind = "rename" /\ Fields(o) /\ o.step = "move" /\ o.links = {}
    /\ Sound(b, u, d, del \ {o.p}, n, t) /\ RenameOK(b, u, del \ {o.p}, n, o.p, o.to)
    /\ del = IF o.p \in DOMAIN b THEN (del \ {o.p}) \cup {o.p} ELSE del \ {o.p}
    /\ \A q \in Parents(o.to) : q \in DOMAIN u /\ u[q] = Dir
    /\ \A q \in Paths : Within(q, o.p) /\ Reach(b, u, del \ {o.p}, q) => q \in DOMAIN u
    /\ TreeMoves(o.after, t, o.p, o.to)

\* The upper entry is in place and its whiteout not dropped yet.
NextNodes(n, o) ==
    CASE o.kind = "create" -> Numbered(n, o.to)
      [] o.kind = "rename" -> Renamed(n, o.p, o.to)
      [] o.kind = "link" -> Aliased(Numbered(n, o.p), o.to, Numbered(n, o.p).paths[o.p])
RevealPhase(b, u, d, del, n, o, t) ==
    /\ o.kind \in {"create", "link", "rename"} /\ o.step = "reveal" /\ (o.kind # "create" => o.links = {})
    /\ o.to \in DOMAIN u /\ del \subseteq DOMAIN b
    /\ Sound(b, u, d, Rev(b, del, u, o.to), NextNodes(n, o), o.after)
    /\ \/ o.to \notin DOMAIN t.at
       \/ \E p \in DOMAIN t.at : p \notin DOMAIN u /\ (p \in DOMAIN b => p \in del)

TypeIn(u, d, j, del, n) ==
    /\ DOMAIN u \subseteq Paths /\ \A p \in DOMAIN u : u[p] \in 0 .. Len(d)
    /\ d \in Seq(Nat) /\ j \subseteq Paths /\ del \subseteq Paths
    /\ \A p \in DOMAIN u : \A q \in Parents(p) : q \in DOMAIN u /\ u[q] = Dir
    /\ \A p \in DOMAIN n.paths : n.paths[p] \in DOMAIN n.lists

LayerInv(b, u, d, j, del, n, o, t, l, k) ==
    /\ StoreOK(b) /\ k \in Nat /\ Table(n) /\ TypeIn(u, d, j, del, n)
    /\ l => o = Idle
    /\ ~l => j = del /\ (\/ o = Idle /\ Sound(b, u, d, del, n, t)
                         \/ CopyPhase(b, u, d, del, n, o, t, k)
                         \/ TrashPhase(b, u, d, del, n, o, t)
                         \/ MovePhase(b, u, d, del, n, o, t)
                         \/ RevealPhase(b, u, d, del, n, o, t))
Inv == store \in Stores
       /\ LayerInv(Base, upper, data, journal, deleted, nodes, op, tree, lost, ops)

\* The definitions of the model are those above at the present state.
LEMMA Reads ==
  /\ Base = BaseOf(store)
  /\ View = ViewIn(Base, upper, data, deleted, nodes)
  /\ Applied = AppliedIn(Base, upper, data, deleted)
  /\ \A p : Visible(p) <=> Sees(Base, upper, deleted, p)
  /\ \A p : Reachable(p) <=> Reach(Base, upper, deleted, p)
  /\ \A p : IsDir(p) <=> KindIn(Base, upper, p) = Dir
  /\ \A p : Revealed(p) = Rev(Base, deleted, upper, p)
  /\ \A p : Resolved(p) = ResolvedIn(Base, upper, deleted, nodes, p)
  /\ \A p : Free(p) <=> FreeIn(Base, upper, deleted, p)
  /\ \A p : Alone(p) <=> AloneIn(nodes, p)
<1>1. Base = BaseOf(store)
  BY DEF Base, BaseOf
<1>2. \A p : Visible(p) <=> Sees(Base, upper, deleted, p)
  BY DEF Visible, Hidden, Sees, Hid
<1>3. \A p : Kind(p) = KindIn(Base, upper, p)
  BY DEF Kind, KindIn
<1>4. \A p : IsDir(p) <=> KindIn(Base, upper, p) = Dir
  BY <1>3 DEF IsDir
<1>5. \A p : Reachable(p) <=> Reach(Base, upper, deleted, p)
  BY <1>2, <1>4 DEF Reachable, Reach
<1>6. \A p : Revealed(p) = Rev(Base, deleted, upper, p)
  BY DEF Revealed, Rev
<1>7. \A p : Resolved(p) = ResolvedIn(Base, upper, deleted, nodes, p)
  BY DEF Resolved, ResolvedIn, Named, NamedIn, Visible, Hidden, Sees, Hid
<1>8. \A p : Free(p) <=> FreeIn(Base, upper, deleted, p)
  BY <1>2, <1>4, <1>5 DEF Free, FreeIn
<1>9. \A p : Alone(p) <=> AloneIn(nodes, p)
  BY DEF Alone, AloneIn
<1>10. View = ViewIn(Base, upper, data, deleted, nodes)
  BY DEF View, ViewIn, Reachable, Reach, Visible, Hidden, Sees, Hid, IsDir, Kind, KindIn, Read, Bytes,
         Resolved, ResolvedIn, Named, NamedIn
<1>11. Applied = AppliedIn(Base, upper, data, deleted)
  BY DEF Applied, AppliedIn
<1>. QED BY <1>1, <1>2, <1>4, <1>5, <1>6, <1>7, <1>8, <1>9, <1>10, <1>11

LEMMA ReadsNext == View' = ViewIn(Base', upper', data', deleted', nodes')
BY DEF View, ViewIn, Reachable, Reach, Visible, Hidden, Sees, Hid, IsDir, Kind, KindIn, Read, Bytes,
       Resolved, ResolvedIn, Named, NamedIn

LEMMA SettlesIs ==
  ASSUME Settles
  PROVE  tree' = IF op.step = "reveal"
                 THEN AdoptedIn(Base, store, ViewIn(Base', upper', data', deleted', nodes'), op.to, op.after)
                 ELSE tree
BY ReadsNext DEF Settles, Adopted, AdoptedIn

\* What holds between requests, and which phase a request is in.
LEMMA AtIdle ==
  ASSUME Inv, op = Idle, ~lost
  PROVE  Sound(Base, upper, data, deleted, nodes, tree) /\ journal = deleted
<1>1. op.kind = "idle"
  BY DEF Idle
<1>. QED BY <1>1 DEF Inv, LayerInv, CopyPhase, TrashPhase, MovePhase, RevealPhase

LEMMA Serving ==
  ASSUME Inv, op # Idle
  PROVE  /\ ~lost /\ journal = deleted
         /\ \/ CopyPhase(Base, upper, data, deleted, nodes, op, tree, ops)
            \/ TrashPhase(Base, upper, data, deleted, nodes, op, tree)
            \/ MovePhase(Base, upper, data, deleted, nodes, op, tree)
            \/ RevealPhase(Base, upper, data, deleted, nodes, op, tree)
BY DEF Inv, LayerInv

LEMMA AtCopy ==
  ASSUME Inv, op.kind \in {"write", "link", "rename"}, op.step = "copy"
  PROVE  CopyPhase(Base, upper, data, deleted, nodes, op, tree, ops) /\ ~lost /\ journal = deleted /\ op # Idle
<1>1. op # Idle
  BY DEF Idle
<1>. QED BY <1>1, Serving DEF TrashPhase, MovePhase, RevealPhase

LEMMA AtTrash ==
  ASSUME Inv, op.kind = "remove"
  PROVE  TrashPhase(Base, upper, data, deleted, nodes, op, tree) /\ ~lost /\ journal = deleted /\ op # Idle
<1>1. op # Idle
  BY DEF Idle
<1>. QED BY <1>1, Serving DEF CopyPhase, MovePhase, RevealPhase

LEMMA AtMove ==
  ASSUME Inv, op.kind = "rename", op.step = "move"
  PROVE  MovePhase(Base, upper, data, deleted, nodes, op, tree) /\ ~lost /\ journal = deleted /\ op # Idle
<1>1. op # Idle
  BY DEF Idle
<1>. QED BY <1>1, Serving DEF CopyPhase, TrashPhase, RevealPhase

LEMMA AtReveal ==
  ASSUME Inv, op # Idle, op.step = "reveal"
  PROVE  RevealPhase(Base, upper, data, deleted, nodes, op, tree) /\ ~lost /\ journal = deleted
BY Serving DEF CopyPhase, TrashPhase, MovePhase

LEMMA Stays ==
  ASSUME Inv, store' = store
  PROVE  Base' = Base /\ store' \in Stores /\ StoreOK(Base)
BY DEF Inv, LayerInv, Base

LEMMA SoundType ==
  ASSUME NEW b, NEW u, NEW d, NEW x, NEW j, NEW del, NEW n, StoreOK(b), LayerOK(b, u, d, x), Table(n),
         j \subseteq DOMAIN b, del \subseteq DOMAIN b
  PROVE  TypeIn(u, d, j, del, n)
BY DEF TypeIn, LayerOK, Table, StoreOK

\* A step to a state between requests.
LEMMA ToIdle ==
  ASSUME Inv, store' = store, ops' \in Nat, op' = Idle, journal' = deleted',
         Sound(Base, upper', data', deleted', nodes', tree')
  PROVE  Inv'
<1>1. Base' = Base /\ store' \in Stores /\ StoreOK(Base)
  BY Stays
<1>2. LayerOK(Base, upper', data', deleted') /\ Table(nodes')
  BY DEF Sound, NodesOK
<1>3. TypeIn(upper', data', journal', deleted', nodes')
  BY <1>1, <1>2, SoundType DEF LayerOK
<1>4. LayerInv(Base', upper', data', journal', deleted', nodes', op', tree', lost', ops')
  BY <1>1, <1>2, <1>3 DEF LayerInv
<1>. QED BY <1>1, <1>4 DEF Inv

\* A step to a state that serves a request.
LEMMA ToServing ==
  ASSUME Inv, store' = store, ops' \in Nat, ~lost', journal' = deleted', deleted' \subseteq DOMAIN Base,
         Table(nodes'), NEW x, LayerOK(Base, upper', data', x),
         \/ CopyPhase(Base, upper', data', deleted', nodes', op', tree', ops')
         \/ TrashPhase(Base, upper', data', deleted', nodes', op', tree')
         \/ MovePhase(Base, upper', data', deleted', nodes', op', tree')
         \/ RevealPhase(Base, upper', data', deleted', nodes', op', tree')
  PROVE  Inv'
<1>1. Base' = Base /\ store' \in Stores /\ StoreOK(Base)
  BY Stays
<1>3. TypeIn(upper', data', journal', deleted', nodes')
  BY <1>1, SoundType
<1>4. LayerInv(Base', upper', data', journal', deleted', nodes', op', tree', lost', ops')
  BY <1>1, <1>3 DEF LayerInv
<1>. QED BY <1>1, <1>4 DEF Inv

\* The mount serves nothing more.
LEMMA ToLost ==
  ASSUME Inv, store' = store, ops' \in Nat, op' = Idle, lost', journal' \subseteq DOMAIN Base,
         deleted' \subseteq DOMAIN Base, Table(nodes'), NEW x, LayerOK(Base, upper', data', x)
  PROVE  Inv'
<1>1. Base' = Base /\ store' \in Stores /\ StoreOK(Base)
  BY Stays
<1>3. TypeIn(upper', data', journal', deleted', nodes')
  BY <1>1, SoundType
<1>4. LayerInv(Base', upper', data', journal', deleted', nodes', op', tree', lost', ops')
  BY <1>1, <1>3 DEF LayerInv
<1>. QED BY <1>1, <1>4 DEF Inv

IsStepped(e, o, s) ==
    /\ Fields(e) /\ e.step = s /\ e.kind = o.kind /\ e.p = o.p /\ e.q = o.q /\ e.to = o.to
    /\ e.todo = o.todo /\ e.links = o.links /\ e.after = o.after

LEMMA Stepped == ASSUME NEW o, Fields(o), NEW s PROVE IsStepped([o EXCEPT !.step = s], o, s)
<1>1. ASSUME NEW a, NEW c, NEW f, NEW g, NEW h, NEW i, NEW j, NEW k, NEW l
      PROVE  LET w == [kind |-> a, step |-> c, p |-> f, q |-> g, to |-> h, todo |-> i, linked |-> j,
                       links |-> k, after |-> l]
                 e == [w EXCEPT !.step = s]
             IN  e = [kind |-> a, step |-> s, p |-> f, q |-> g, to |-> h, todo |-> i, linked |-> j,
                      links |-> k, after |-> l]
  OBVIOUS
<1>2. [o EXCEPT !.step = s] = [kind |-> o.kind, step |-> s, p |-> o.p, q |-> o.q, to |-> o.to, todo |-> o.todo,
                               linked |-> o.linked, links |-> o.links, after |-> o.after]
  BY <1>1 DEF Fields
<1>. QED BY <1>2 DEF IsStepped, Fields

IsLinked(e, o, ls) ==
    /\ Fields(e) /\ e.step = o.step /\ e.kind = o.kind /\ e.p = o.p /\ e.q = o.q /\ e.to = o.to
    /\ e.todo = o.todo /\ e.links = ls /\ e.after = o.after

LEMMA Linked ==
  ASSUME NEW o, Fields(o), NEW a, NEW ls
  PROVE  IsLinked([o EXCEPT !.linked = a, !.links = ls], o, ls)
<1>. SUFFICES ASSUME NEW e, e = [o EXCEPT !.linked = a, !.links = ls] PROVE IsLinked(e, o, ls)
  OBVIOUS
<1>1. e = [kind |-> o.kind, step |-> o.step, p |-> o.p, q |-> o.q, to |-> o.to, todo |-> o.todo,
           linked |-> a, links |-> ls, after |-> o.after]
  BY DEF Fields
<1>. QED BY <1>1 DEF Fields, IsLinked

\* A new table names every file of the store by a number of its own.
LEMMA NewNodesOK ==
  ASSUME OwnNames, NEW s \in Stores, NEW b, NEW u, NEW del
  PROVE  NodesOK(b, u, del, NewNodes(s))
BY NewTable DEF NodesOK, OneFile

LEMMA NotHid ==
  ASSUME NEW del \in SUBSET Paths, NEW p \in Paths, ~Hid(del, p)
  PROVE  p \notin del /\ (del \cup {p}) \ {p} = del /\ del \ {p} = del
BY PathOrder DEF Hid

\* Nothing of the upper tree has a whiteout of its own.
LEMMA NoneUpper ==
  ASSUME NEW b, NEW u, NEW d, NEW del, StoreOK(b), LayerOK(b, u, d, del)
  PROVE  \A p \in DOMAIN u : p \notin del
BY PathOrder DEF LayerOK, StoreOK, Hid

LEMMA InitInv == ASSUME OwnNames, Init PROVE Inv
<1>1. Base = BaseOf(store) /\ store \in Stores
  BY Reads DEF Init
<1>2. /\ StoreOK(Base) /\ \A p \in DOMAIN Base : Base[p] \in 0 .. Len(store)
      /\ store \in Seq([path : Paths, file : Nat])
  BY <1>1, BaseStore
<1>3. upper = None /\ data = <<>> /\ deleted = {} /\ journal = {} /\ op = Idle /\ ops = 0 /\ ~lost
      /\ nodes = NewNodes(store) /\ tree = [at |-> Base, holds |-> [n \in 1 .. Len(store) |-> n]]
  BY DEF Init
<1>4. DOMAIN upper = {}
  BY <1>3 DEF None
<1>5. LayerOK(Base, upper, data, deleted)
  BY <1>3, <1>4 DEF LayerOK
<1>6. tree = [at |-> tree.at, holds |-> tree.holds] /\ tree.at = Base /\ tree.holds = [n \in 1 .. Len(store) |-> n]
  BY <1>3
<1>7. /\ tree.holds \in Seq(Nat) /\ Len(tree.holds) = Len(store) /\ Len(store) \in Nat
      /\ \A i \in 1 .. Len(store) : tree.holds[i] = i
  BY <1>2, <1>6
<1>8. TreeOK(tree)
  BY <1>2, <1>6, <1>7 DEF TreeOK, StoreOK
<1>9. \A p \in DOMAIN Base : Reach(Base, upper, deleted, p) /\ KindIn(Base, upper, p) = Base[p]
                             /\ Bytes(Base, upper, data, p) = Base[p]
  BY <1>2, <1>3, <1>4 DEF Reach, Sees, Hid, KindIn, Bytes, StoreOK
<1>10. \A p \in Paths : Reach(Base, upper, deleted, p) => p \in DOMAIN Base
  BY <1>4 DEF Reach, Sees
<1>11. \A p \in DOMAIN Base : Base[p] # Dir => tree.holds[Base[p]] = Base[p]
  BY <1>2, <1>7 DEF Dir
<1>12. \A p, q \in DOMAIN Base : Base[p] # Dir => (Base[p] = Base[q] <=> Same(upper, p, q))
  BY <1>2, <1>4 DEF Same, StoreOK
<1>13. Shows(Base, upper, data, deleted, tree)
  BY <1>2, <1>6, <1>9, <1>10, <1>11, <1>12 DEF Shows, StoreOK
<1>14. NodesOK(Base, upper, deleted, nodes) /\ Table(nodes)
  BY <1>1, <1>3, NewNodesOK DEF NodesOK
<1>15. Sound(Base, upper, data, deleted, nodes, tree)
  BY <1>5, <1>8, <1>13, <1>14 DEF Sound
<1>16. TypeIn(upper, data, journal, deleted, nodes)
  BY <1>2, <1>3, <1>5, <1>14, SoundType
<1>. QED BY <1>1, <1>2, <1>3, <1>14, <1>15, <1>16 DEF Inv, LayerInv

-----------------------------------------------------------------------------
\* One lemma for each action.
LEMMA CreateStep ==
  ASSUME Inv, ~Aliases, NEW p \in Paths, NEW dir \in BOOLEAN, Create(p, dir)
  PROVE  Inv'
<1>1. /\ op = Idle /\ ~lost /\ store' = store /\ ops' = ops + 1 /\ ops \in Nat /\ lost' = lost
      /\ journal' = journal /\ deleted' = deleted /\ nodes' = nodes /\ tree' = tree
  BY DEF Create, Begins, Inv, LayerInv
<1>2. /\ Sound(Base, upper, data, deleted, nodes, tree) /\ journal = deleted /\ StoreOK(Base)
  BY <1>1, AtIdle, Stays
<1>3. FreeIn(Base, upper, deleted, p) /\ AloneIn(nodes, p)
  BY Reads DEF Create
<1>. DEFINE v == 10 + ops'
            t2 == IF dir THEN [tree EXCEPT !.at = Extended(@, p, Dir)]
                  ELSE [at |-> Extended(tree.at, p, Len(tree.holds) + 1), holds |-> Append(tree.holds, v)]
<1>4. /\ upper' = Put(upper, p, IF dir THEN Dir ELSE Len(data) + 1)
      /\ data' = IF dir THEN data ELSE Append(data, v)
      /\ op' = [kind |-> "create", step |-> "reveal", to |-> p, after |-> t2]
  BY DEF Create, Fresh, Value
<1>5. v \in Nat /\ ops' \in Nat
  BY <1>1
<1>6. /\ Sound(Base, upper', data', Rev(Base, deleted, upper', p), Numbered(nodes, p), t2)
      /\ p \in DOMAIN upper' /\ p \notin DOMAIN tree.at
  <2>1. Creates(upper, data, tree, p, dir, v, upper', data', t2)
    BY <1>4 DEF Creates
  <2>. HIDE DEF t2, v
  <2>. QED BY <1>2, <1>3, <1>5, <2>1, CreateSound
<1>. HIDE DEF t2, v
<1>7. op'.kind = "create" /\ op'.step = "reveal" /\ op'.to = p /\ op'.after = t2
  BY <1>4
<1>8. NextNodes(nodes', op') = Numbered(nodes, p)
  BY <1>1, <1>7 DEF NextNodes
<1>9. LayerOK(Base, upper, data, deleted) /\ Table(nodes)
  BY <1>2 DEF Sound, NodesOK
<1>10. deleted \subseteq DOMAIN Base
  BY <1>9 DEF LayerOK
<1>11. RevealPhase(Base, upper', data', deleted', nodes', op', tree')
  BY <1>1, <1>6, <1>7, <1>8, <1>10 DEF RevealPhase
<1>12. LayerOK(Base, upper', data', Rev(Base, deleted, upper', p))
  BY <1>6 DEF Sound
<1>. QED BY <1>1, <1>2, <1>5, <1>9, <1>10, <1>11, <1>12, ToServing

LEMMA RemoveStep ==
  ASSUME Inv, NEW p \in Paths, Remove(p)
  PROVE  Inv'
<1>1. /\ op = Idle /\ ~lost /\ store' = store /\ ops' = ops + 1 /\ ops \in Nat /\ lost' = lost
      /\ upper' = upper /\ data' = data /\ nodes' = nodes
  BY DEF Remove, Begins, Inv, LayerInv
<1>2. /\ Sound(Base, upper, data, deleted, nodes, tree) /\ journal = deleted /\ StoreOK(Base)
  BY <1>1, AtIdle, Stays
<1>3. LayerOK(Base, upper, data, deleted) /\ TreeOK(tree) /\ Shows(Base, upper, data, deleted, tree)
      /\ Table(nodes)
  BY <1>2 DEF Sound, NodesOK
<1>4. /\ Reach(Base, upper, deleted, p)
      /\ KindIn(Base, upper, p) = Dir =>
           \A c \in Paths : Len(c) = Len(p) + 1 /\ Within(c, p) => ~Sees(Base, upper, deleted, c)
  BY Reads DEF Remove, Children
<1>. DEFINE after == [tree EXCEPT !.at = Without(@, {p})]
            u2 == Without(upper, {q \in DOMAIN upper : Within(q, p)})
            del2 == IF p \in DOMAIN Base THEN deleted \cup {p} ELSE deleted
<1>5. TreeOK(after) /\ after.holds = tree.holds /\ DOMAIN after.at = DOMAIN tree.at \ {p}
      /\ \A q \in DOMAIN after.at : after.at[q] = tree.at[q]
  <2>. DEFINE a == tree.at  h == tree.holds
  <2>1. tree = [at |-> a, holds |-> h]
    BY <1>3 DEF TreeOK
  <2>. HIDE DEF a, h
  <2>2. after = [at |-> Without(a, {p}), holds |-> h] /\ tree.at = a /\ tree.holds = h
    BY <2>1
  <2>. HIDE DEF after
  <2>3. after = [at |-> after.at, holds |-> after.holds] /\ after.at = Without(tree.at, {p}) /\ after.holds = tree.holds
    BY <2>2
  <2>4. DOMAIN after.at = DOMAIN tree.at \ {p} /\ \A q \in DOMAIN after.at : after.at[q] = tree.at[q]
    BY <2>3 DEF Without
  <2>. QED BY <1>3, <2>3, <2>4 DEF TreeOK
<1>6. /\ deleted' = del2 /\ journal' = del2
      /\ \/ /\ p \in DOMAIN upper /\ tree' = tree
            /\ op' = [kind |-> "remove", step |-> "trash", to |-> p, after |-> after]
         \/ p \notin DOMAIN upper /\ op' = Idle /\ tree' = after
  BY <1>2 DEF Remove
<1>. HIDE DEF after
<1>7. DOMAIN u2 = {q \in DOMAIN upper : ~Within(q, p)} /\ \A q \in DOMAIN u2 : u2[q] = upper[q]
  BY DEF Without
<1>8. deleted \subseteq DOMAIN Base /\ deleted \subseteq Paths
  BY <1>2, <1>3 DEF LayerOK, StoreOK
<1>9. Sound(Base, u2, data, del2, nodes, after)
  <2>. HIDE DEF u2
  <2>. QED BY <1>2, <1>4, <1>5, <1>7, RemoveSound
<1>10. del2 \ {p} = deleted /\ del2 \subseteq DOMAIN Base
  BY <1>4, <1>8, NotHid DEF Reach, Sees
<1>. HIDE DEF del2
<1>11. CASE p \in DOMAIN upper
  <2>1. op'.kind = "remove" /\ op'.step = "trash" /\ op'.to = p /\ op'.after = after /\ tree' = tree
    BY <1>6, <1>11
  <2>2. p \in DOMAIN tree.at /\ p \notin DOMAIN after.at
    BY <1>3, <1>4, <1>5 DEF Shows
  <2>3. TrashPhase(Base, upper', data', deleted', nodes', op', tree')
    BY <1>1, <1>2, <1>6, <1>9, <1>10, <1>11, <2>1, <2>2 DEF TrashPhase
  <2>. QED BY <1>1, <1>3, <1>6, <1>10, <2>3, ToServing
<1>12. CASE p \notin DOMAIN upper
  <2>1. \A q \in DOMAIN upper : ~Within(q, p)
    BY <1>3, <1>12, PathParents DEF LayerOK
  <2>2. {q \in DOMAIN upper : Within(q, p)} = {}
    BY <2>1
  <2>3. DOMAIN upper = {q \in DOMAIN upper : ~Within(q, p)} /\ \A q \in DOMAIN upper : upper[q] = upper[q]
    BY <2>1
  <2>4. Sound(Base, upper, data, del2, nodes, after)
    BY <1>2, <1>4, <1>5, <2>3, RemoveSound DEF del2
  <2>. QED BY <1>1, <1>6, <1>12, <2>4, ToIdle
<1>. QED BY <1>11, <1>12

LEMMA TrashesStep ==
  ASSUME Inv, Trashes
  PROVE  Inv'
<1>1. TrashPhase(Base, upper, data, deleted, nodes, op, tree) /\ ~lost /\ journal = deleted
  BY AtTrash DEF Trashes
<1>2. /\ store' = store /\ ops' = ops /\ ops \in Nat /\ op' = Idle /\ tree' = op.after
      /\ upper' = Without(upper, {q \in DOMAIN upper : Within(q, op.to)})
      /\ data' = data /\ journal' = journal /\ deleted' = deleted /\ nodes' = nodes
  BY DEF Trashes, Goes, Finishes, Inv, LayerInv
<1>. QED BY <1>1, <1>2, ToIdle DEF TrashPhase

LEMMA TrashFailsStep ==
  ASSUME Inv, TrashFails
  PROVE  Inv'
<1>1. TrashPhase(Base, upper, data, deleted, nodes, op, tree) /\ ~lost /\ journal = deleted
  BY AtTrash DEF TrashFails
<1>2. /\ store' = store /\ ops' = ops /\ ops \in Nat /\ op' = Idle /\ Settles
      /\ upper' = upper /\ data' = data /\ nodes' = nodes
      /\ deleted' = deleted \ {op.to} /\ journal' = IF op.to \in DOMAIN Base THEN deleted' ELSE journal
  BY DEF TrashFails, Fails, Inv, LayerInv
<1>3. Base' = Base /\ StoreOK(Base)
  BY <1>2, Stays
<1>4. journal' = deleted'
  BY <1>1, <1>2 DEF TrashPhase
<1>5. Sound(Base, upper', data', deleted', nodes, tree) /\ NodesOK(Base, upper', deleted', nodes')
  BY <1>1, <1>2 DEF TrashPhase, Sound
<1>6. tree' = tree
  BY <1>1, <1>2, SettlesIs DEF TrashPhase
<1>7. Sound(Base, upper', data', deleted', nodes', tree')
  BY <1>2, <1>5, <1>6
<1>. QED BY <1>2, <1>4, <1>7, ToIdle

IsCopying(o, kind, p, q, to, todo, after) ==
    /\ Fields(o) /\ o.kind = kind /\ o.step = "copy" /\ o.p = p /\ o.q = q /\ o.to = to
    /\ o.todo = todo /\ o.links = {} /\ o.after = after

LEMMA CopyingIs ==
  ASSUME NEW kind, NEW p, NEW q, NEW to, NEW todo, NEW after, NEW o,
         o = [kind |-> kind, step |-> "copy", p |-> p, q |-> q, to |-> to, todo |-> todo,
              linked |-> q, links |-> {}, after |-> after]
  PROVE  IsCopying(o, kind, p, q, to, todo, after)
BY DEF IsCopying, Fields

LEMMA StandsFor ==
  ASSUME NEW p, Inv, Sound(Base, upper, data, deleted, nodes, tree), Sees(Base, upper, deleted, p)
  PROVE  Stands(upper, p, Resolved(p))
<1>1. DOMAIN Base \subseteq Paths /\ DOMAIN upper \subseteq Paths /\ NodesOK(Base, upper, deleted, nodes)
  BY DEF Inv, LayerInv, StoreOK, Sound, LayerOK
<1>2. Resolved(p) = ResolvedIn(Base, upper, deleted, nodes, p)
  BY Reads
<1>3. LET q == ResolvedIn(Base, upper, deleted, nodes, p)
      IN  q = p \/ (p \in DOMAIN upper /\ q \in DOMAIN upper /\ upper[q] = upper[p] /\ upper[p] # Dir)
  BY <1>1, Resolves
<1>. QED BY <1>2, <1>3 DEF Stands

LEMMA WriteStep ==
  ASSUME Inv, NEW p \in Paths, Write(p)
  PROVE  Inv'
<1>. DEFINE after == [tree EXCEPT !.holds[tree.at[p]] = 10 + ops']
            q == Resolved(p)
<1>1. /\ op = Idle /\ ~lost /\ store' = store /\ ops' = ops + 1 /\ ops \in Nat /\ lost' = lost
      /\ upper' = upper /\ data' = data /\ journal' = journal /\ deleted' = deleted
      /\ nodes' = nodes /\ tree' = tree
      /\ op' = [kind |-> "write", step |-> "copy", p |-> p, q |-> q, to |-> p, todo |-> {q},
                linked |-> q, links |-> {}, after |-> after]
  BY DEF Write, Begins, Copying, Value, layer, Inv, LayerInv
<1>2. /\ Sound(Base, upper, data, deleted, nodes, tree) /\ journal = deleted /\ StoreOK(Base)
  BY <1>1, AtIdle, Stays
<1>3. Reach(Base, upper, deleted, p) /\ KindIn(Base, upper, p) # Dir
  BY Reads DEF Write
<1>4. Stands(upper, p, q)
  BY <1>2, <1>3, StandsFor DEF Reach
<1>. HIDE DEF after, q
<1>5. IsCopying(op', "write", p, q, p, {q}, after)
  BY <1>1, CopyingIs
<1>6. CopyPhase(Base, upper', data', deleted', nodes', op', tree', ops')
  BY <1>1, <1>2, <1>3, <1>4, <1>5 DEF CopyPhase, IsCopying, after
<1>7. LayerOK(Base, upper, data, deleted) /\ Table(nodes) /\ deleted \subseteq DOMAIN Base
  BY <1>2 DEF Sound, NodesOK, LayerOK
<1>. QED BY <1>1, <1>2, <1>6, <1>7, ToServing

LEMMA LinkStep ==
  ASSUME Inv, ~Aliases, NEW p \in Paths, NEW to \in Paths, Link(p, to)
  PROVE  Inv'
<1>. DEFINE after == [tree EXCEPT !.at = Extended(@, to, tree.at[p])]
            q == Resolved(p)
<1>1. /\ op = Idle /\ ~lost /\ store' = store /\ ops' = ops + 1 /\ ops \in Nat /\ lost' = lost
      /\ upper' = upper /\ data' = data /\ journal' = journal /\ deleted' = deleted
      /\ nodes' = nodes /\ tree' = tree
      /\ op' = [kind |-> "link", step |-> "copy", p |-> p, q |-> q, to |-> to, todo |-> {q},
                linked |-> q, links |-> {}, after |-> after]
  BY DEF Link, Begins, Copying, layer, Inv, LayerInv
<1>2. /\ Sound(Base, upper, data, deleted, nodes, tree) /\ journal = deleted /\ StoreOK(Base)
  BY <1>1, AtIdle, Stays
<1>3. /\ Reach(Base, upper, deleted, p) /\ KindIn(Base, upper, p) # Dir
      /\ FreeIn(Base, upper, deleted, to) /\ AloneIn(nodes, to)
  BY Reads DEF Link
<1>4. Stands(upper, p, q)
  BY <1>2, <1>3, StandsFor DEF Reach
<1>. HIDE DEF after, q
<1>5. IsCopying(op', "link", p, q, to, {q}, after)
  BY <1>1, CopyingIs
<1>6. CopyPhase(Base, upper', data', deleted', nodes', op', tree', ops')
  BY <1>1, <1>2, <1>3, <1>4, <1>5 DEF CopyPhase, IsCopying, after
<1>7. LayerOK(Base, upper, data, deleted) /\ Table(nodes) /\ deleted \subseteq DOMAIN Base
  BY <1>2 DEF Sound, NodesOK, LayerOK
<1>. QED BY <1>1, <1>2, <1>6, <1>7, ToServing

LEMMA RenameStep ==
  ASSUME Inv, ~Aliases, ~Swaps, NEW from \in Paths, NEW to \in Paths, Rename(from, to)
  PROVE  Inv'
<1>. DEFINE below == {q \in Paths : Within(q, from) /\ Reachable(q)}
            gone  == {q \in Paths : Within(q, to)}
            there == tree.at
            landed == {Moved(r, from, to) : r \in below}
            at2 == [q \in (DOMAIN there \ (below \cup gone)) \cup landed |->
                      IF Within(q, to) THEN there[Moved(q, to, from)] ELSE there[q]]
            after == [tree EXCEPT !.at = at2]
<1>1. /\ op = Idle /\ ~lost /\ store' = store /\ ops' = ops + 1 /\ ops \in Nat /\ lost' = lost
      /\ upper' = upper /\ data' = data /\ journal' = journal /\ deleted' = deleted
      /\ nodes' = nodes /\ tree' = tree
      /\ op' = [kind |-> "rename", step |-> "copy", p |-> from, q |-> from, to |-> to, todo |-> below,
                linked |-> from, links |-> {}, after |-> after]
  BY DEF Rename, Begins, Copying, layer, Inv, LayerInv
<1>2. /\ Sound(Base, upper, data, deleted, nodes, tree) /\ journal = deleted /\ StoreOK(Base)
  BY <1>1, AtIdle, Stays
<1>3. /\ LayerOK(Base, upper, data, deleted) /\ TreeOK(tree) /\ Shows(Base, upper, data, deleted, tree)
      /\ Table(nodes) /\ deleted \subseteq DOMAIN Base /\ deleted \subseteq Paths
  BY <1>2 DEF Sound, NodesOK, LayerOK, StoreOK
<1>4. /\ Reach(Base, upper, deleted, from) /\ ~Within(to, from)
      /\ below = {q \in Paths : Within(q, from) /\ Reach(Base, upper, deleted, q)}
      /\ landed \subseteq Paths
      /\ \A q \in DOMAIN nodes.paths : Within(q, from) \/ Within(q, to) => AloneIn(nodes, q)
  BY Reads DEF Rename
<1>5. \A q \in below : q # from /\ KindIn(Base, upper, q) = Dir =>
        (Moved(q, from, to) \in DOMAIN Base => Base[Moved(q, from, to)] # Dir)
  BY Reads DEF Rename, Folders
<1>6. \/ ~Sees(Base, upper, deleted, to) /\ \A q \in Parents(to) : Reach(Base, upper, deleted, q) /\ KindIn(Base, upper, q) = Dir
      \/ /\ Reach(Base, upper, deleted, to) /\ (KindIn(Base, upper, from) = Dir <=> KindIn(Base, upper, to) = Dir)
         /\ KindIn(Base, upper, to) = Dir =>
              \A c \in Paths : Len(c) = Len(to) + 1 /\ Within(c, to) => ~Sees(Base, upper, deleted, c)
  BY Reads DEF Rename, FreeIn, Children
<1>7. \A q \in Parents(to) : Reach(Base, upper, deleted, q) /\ KindIn(Base, upper, q) = Dir
  BY <1>3, <1>6, ReachUp, PathParents
<1>8. RenameOK(Base, upper, deleted, nodes, from, to)
  BY <1>4, <1>5, <1>6, <1>7 DEF RenameOK
<1>9. /\ DOMAIN there \subseteq Paths /\ \A q \in DOMAIN there : there[q] \in 0 .. Len(tree.holds)
      /\ below = {q \in DOMAIN there : Within(q, from)}
  BY <1>3, <1>4 DEF TreeOK, Shows
<1>10. after = [at |-> after.at, holds |-> after.holds] /\ after.at = at2 /\ after.holds = tree.holds
  <2>. DEFINE h == tree.holds
  <2>1. tree = [at |-> there, holds |-> h]
    BY <1>3 DEF TreeOK
  <2>. HIDE DEF at2, h, there
  <2>2. [tree EXCEPT !.at = at2] = [at |-> at2, holds |-> h]
    BY <2>1
  <2>. QED BY <2>2, <2>1 DEF there, h
<1>. HIDE DEF after
<1>11. \A q \in DOMAIN there : Within(q, from) =>
         /\ Within(Moved(q, from, to), to) /\ Moved(Moved(q, from, to), to, from) = q
         /\ Moved(q, from, to) \in landed
  <2>1. \A q \in Paths : q \in Names
    BY PathOrder
  <2>. QED BY <1>9, <2>1, MovedWithin, MovedBack
<1>12. /\ DOMAIN at2 = (DOMAIN there \ (below \cup gone)) \cup landed
       /\ \A q \in DOMAIN at2 : at2[q] = IF Within(q, to) THEN there[Moved(q, to, from)] ELSE there[q]
  OBVIOUS
<1>. HIDE DEF at2
<1>13. /\ DOMAIN at2 = {q \in DOMAIN there : ~Within(q, from) /\ ~Within(q, to)}
                       \cup {Moved(q, from, to) : q \in {r \in DOMAIN there : Within(r, from)}}
       /\ \A q \in DOMAIN there : ~Within(q, from) /\ ~Within(q, to) => at2[q] = there[q]
       /\ \A q \in DOMAIN there : Within(q, from) => at2[Moved(q, from, to)] = there[q]
  BY <1>9, <1>11, <1>12
<1>14. DOMAIN at2 \subseteq Paths /\ \A q \in DOMAIN at2 : at2[q] \in 0 .. Len(tree.holds)
  BY <1>4, <1>9, <1>13
<1>15. TreeMoves(after, tree, from, to)
  <2>1. TreeOK(after)
    BY <1>3, <1>10, <1>14 DEF TreeOK
  <2>. QED BY <1>10, <1>13, <2>1 DEF TreeMoves
<1>. HIDE DEF below
<1>16. IsCopying(op', "rename", from, from, to, below, after)
  BY <1>1, CopyingIs
<1>17. CopyPhase(Base, upper', data', deleted', nodes', op', tree', ops')
  BY <1>1, <1>2, <1>4, <1>8, <1>15, <1>16 DEF CopyPhase, IsCopying
<1>. QED BY <1>1, <1>2, <1>3, <1>17, ToServing

LEMMA AlikeRename ==
  ASSUME NEW b, NEW u, NEW u1, NEW del, NEW n, NEW from, NEW to, Alike(b, u, del, u1, del),
         RenameOK(b, u, del, n, from, to)
  PROVE  RenameOK(b, u1, del, n, from, to)
<1>1. from \in Paths /\ to \in Paths /\ Parents(to) \subseteq Paths
  BY PathParents DEF RenameOK
<1>2. \A p \in Paths : Reach(b, u, del, p) => (KindIn(b, u1, p) = Dir <=> KindIn(b, u, p) = Dir)
  BY DEF Alike, Reach
<1>3. Reach(b, u1, del, from) /\ (KindIn(b, u1, from) = Dir <=> KindIn(b, u, from) = Dir)
  BY <1>1, <1>2 DEF Alike, RenameOK
<1>4. \A q \in Paths : Within(q, from) /\ Reach(b, u1, del, q) =>
        /\ Moved(q, from, to) \in Paths
        /\ q # from /\ KindIn(b, u1, q) = Dir =>
             (Moved(q, from, to) \in DOMAIN b => b[Moved(q, from, to)] # Dir)
  BY <1>2 DEF Alike, RenameOK
<1>5. \/ ~Sees(b, u1, del, to)
      \/ /\ Reach(b, u1, del, to) /\ (KindIn(b, u1, from) = Dir <=> KindIn(b, u1, to) = Dir)
         /\ KindIn(b, u1, to) = Dir =>
              \A c \in Paths : Len(c) = Len(to) + 1 /\ Within(c, to) => ~Sees(b, u1, del, c)
  BY <1>1, <1>2, <1>3 DEF Alike, RenameOK
<1>6. \A q \in Parents(to) : Reach(b, u1, del, q) /\ KindIn(b, u1, q) = Dir
  BY <1>1, <1>2 DEF Alike, RenameOK
<1>. QED BY <1>1, <1>3, <1>4, <1>5, <1>6 DEF RenameOK

LEMMA Shortest ==
  ASSUME NEW S \in SUBSET Paths, S # {}
  PROVE  \E r \in S : \A other \in S : Len(r) <= Len(other)
<1>. DEFINE lens == {Len(r) : r \in S}
<1>1. \A r \in S : Len(r) \in Nat
  BY PathOrder DEF Names
<1>2. lens \in SUBSET Nat /\ lens # {}
  BY <1>1
<1>3. PICK k \in lens : \A j \in lens : k <= j
  BY <1>2, LeastNatural
<1>. QED BY <1>3

LEMMA CopiesUpStep ==
  ASSUME Inv, CopiesUp
  PROVE  Inv'
<1>1. /\ CopyPhase(Base, upper, data, deleted, nodes, op, tree, ops) /\ ~lost /\ journal = deleted
  BY AtCopy DEF CopiesUp
<1>2. /\ store' = store /\ ops' = ops /\ ops \in Nat /\ lost' = lost
      /\ journal' = journal /\ deleted' = deleted /\ nodes' = nodes /\ tree' = tree
      /\ Missing = op.todo \ DOMAIN upper /\ Missing # {}
  BY DEF CopiesUp, Goes, Missing, Inv, LayerInv
<1>3. /\ Sound(Base, upper, data, deleted, nodes, tree) /\ StoreOK(Base) /\ Fields(op)
      /\ op.p \in Paths /\ Reach(Base, upper, deleted, op.p)
  BY <1>1, <1>2, Stays DEF CopyPhase
<1>4. \A q \in Missing : q \in Paths /\ q \notin DOMAIN upper /\ Reach(Base, upper, deleted, q)
  BY <1>1, <1>2, <1>3 DEF CopyPhase, Stands
<1>. DEFINE q == CHOOSE r \in Missing : \A other \in Missing : Len(r) <= Len(other)
            aliases == {a \in DOMAIN Base \ {q} : Base[a] = Base[q] /\ ~Hidden(a)}
<1>5. q \in Missing
  <2>1. \E r \in Missing : \A other \in Missing : Len(r) <= Len(other)
    BY <1>2, <1>4, Shortest
  <2>. QED BY <2>1
<1>6. IF Base[q] = Dir
      THEN upper' = Put(upper, q, Dir) /\ data' = data /\ op' = op
      ELSE /\ upper' = Put(upper, q, Len(data) + 1) /\ data' = Append(data, Base[q])
           /\ op' = [op EXCEPT !.linked = q,
                       !.links = IF q = FirstOf(Base[q]) THEN aliases \ DOMAIN upper ELSE {}]
  BY DEF CopiesUp, Fresh
<1>7. q \in Paths /\ q \notin DOMAIN upper /\ Reach(Base, upper, deleted, q) /\ q \in DOMAIN Base
  BY <1>4, <1>5 DEF Reach, Sees
<1>8. Base[q] # Dir => aliases = {}
  BY <1>3, <1>7 DEF StoreOK
<1>. HIDE DEF q, aliases
<1>9. /\ Fields(op') /\ op'.step = op.step /\ op'.kind = op.kind /\ op'.p = op.p /\ op'.q = op.q
      /\ op'.to = op.to /\ op'.todo = op.todo /\ op'.links = {} /\ op'.after = op.after
  <2>1. CASE Base[q] = Dir
    BY <1>1, <1>3, <1>6, <2>1 DEF CopyPhase
  <2>2. CASE Base[q] # Dir
    <3>. DEFINE ls == IF q = FirstOf(Base[q]) THEN aliases \ DOMAIN upper ELSE {}
    <3>1. ls = {}
      BY <1>8, <2>2
    <3>2. op' = [op EXCEPT !.linked = q, !.links = ls]
      BY <1>6, <2>2
    <3>. HIDE DEF ls
    <3>3. IsLinked(op', op, ls)
      BY <1>3, <3>2, Linked
    <3>. QED BY <3>1, <3>3 DEF IsLinked
  <2>. QED BY <2>1, <2>2
<1>10. /\ Sound(Base, upper', data', deleted, nodes, tree) /\ Alike(Base, upper, deleted, upper', deleted)
  <2>. DEFINE x == IF Base[q] = Dir THEN Dir ELSE Len(data) + 1
  <2>1. upper' = Put(upper, q, x) /\ CopyOf(Base, data, q, x, data')
    BY <1>6 DEF CopyOf
  <2>. HIDE DEF x
  <2>. QED BY <1>3, <1>7, <2>1, CopySound
<1>11. \A p \in DOMAIN upper : p \in DOMAIN upper' /\ upper'[p] = upper[p]
  <2>1. ASSUME NEW x PROVE \A p \in DOMAIN upper : p \in DOMAIN Put(upper, q, x) /\ Put(upper, q, x)[p] = upper[p]
    <3>. DEFINE u1 == Put(upper, q, x)
    <3>1. IsPut(u1, upper, q, x)
      BY <1>7, PutAt
    <3>. HIDE DEF u1
    <3>2. \A p \in DOMAIN upper : p \in DOMAIN u1 /\ u1[p] = upper[p]
      BY <1>7, <3>1 DEF IsPut
    <3>. QED BY <3>2 DEF u1
  <2>2. \E x : upper' = Put(upper, q, x)
    BY <1>6
  <2>3. PICK x : upper' = Put(upper, q, x)
    BY <2>2
  <2>. QED BY <2>1, <2>3
<1>12. Reach(Base, upper', deleted, op.p) /\ (KindIn(Base, upper', op.p) = Dir <=> KindIn(Base, upper, op.p) = Dir)
  BY <1>3, <1>10 DEF Alike, Reach
<1>13. Stands(upper, op.p, op.q) => Stands(upper', op.p, op.q)
  BY <1>11 DEF Stands
<1>14. op.to \in Paths /\ FreeIn(Base, upper, deleted, op.to) => FreeIn(Base, upper', deleted, op.to)
  <2>. SUFFICES ASSUME op.to \in Paths, FreeIn(Base, upper, deleted, op.to)
                PROVE  FreeIn(Base, upper', deleted, op.to)
    OBVIOUS
  <2>1. \A p \in Parents(op.to) : p \in Paths
    BY PathParents
  <2>. QED BY <1>10, <2>1 DEF FreeIn, Alike, Reach
<1>15. op.kind = "rename" =>
         /\ RenameOK(Base, upper', deleted, nodes, op.p, op.to)
         /\ op.todo = {p \in Paths : Within(p, op.p) /\ Reach(Base, upper', deleted, p)}
  <2>1. \A p \in Paths : Reach(Base, upper', deleted, p) <=> Reach(Base, upper, deleted, p)
    BY <1>10 DEF Alike
  <2>2. {p \in Paths : Within(p, op.p) /\ Reach(Base, upper', deleted, p)}
        = {p \in Paths : Within(p, op.p) /\ Reach(Base, upper, deleted, p)}
    BY <2>1
  <2>. QED BY <1>1, <1>10, <2>2, AlikeRename DEF CopyPhase
<1>16. CopyPhase(Base, upper', data', deleted', nodes', op', tree', ops')
  BY <1>1, <1>2, <1>9, <1>10, <1>12, <1>13, <1>14, <1>15 DEF CopyPhase
<1>17. LayerOK(Base, upper', data', deleted) /\ Table(nodes) /\ deleted \subseteq DOMAIN Base
  BY <1>10 DEF Sound, NodesOK, LayerOK
<1>. QED BY <1>1, <1>2, <1>16, <1>17, ToServing

LEMMA LinksAliasStep == ASSUME Inv, LinksAlias PROVE Inv'
<1>1. op.kind \in {"write", "link", "rename"} /\ op.links # {} /\ op # Idle
  BY DEF LinksAlias, HalfLinked, Idle
<1>. QED BY <1>1, Serving DEF CopyPhase, TrashPhase, MovePhase, RevealPhase

\* Everything a request needs is in the upper tree.
LEMMA AllCopied ==
  ASSUME Inv, NEW kind \in {"write", "link", "rename"}, Copied(kind)
  PROVE  /\ CopyPhase(Base, upper, data, deleted, nodes, op, tree, ops) /\ ~lost /\ journal = deleted
         /\ op.kind = kind /\ Sound(Base, upper, data, deleted, nodes, tree) /\ StoreOK(Base)
         /\ \A q \in op.todo : q \in DOMAIN upper
         /\ LayerOK(Base, upper, data, deleted) /\ Shows(Base, upper, data, deleted, tree) /\ Table(nodes)
         /\ deleted \subseteq DOMAIN Base /\ deleted \subseteq Paths /\ ops \in Nat
<1>1. /\ CopyPhase(Base, upper, data, deleted, nodes, op, tree, ops) /\ ~lost /\ journal = deleted
      /\ op.kind = kind
  BY AtCopy DEF Copied
<1>2. StoreOK(Base) /\ ops \in Nat
  BY DEF Inv, LayerInv
<1>3. Sound(Base, upper, data, deleted, nodes, tree) /\ \A q \in op.todo : q \in DOMAIN upper
  BY <1>1 DEF CopyPhase, Copied, Missing
<1>. QED BY <1>1, <1>2, <1>3 DEF Sound, LayerOK, StoreOK, NodesOK

LEMMA WritesStep == ASSUME Inv, Writes PROVE Inv'
<1>1. /\ store' = store /\ ops' = ops /\ op' = Idle /\ tree' = op.after
      /\ data' = [data EXCEPT ![upper[op.q]] = 10 + ops]
      /\ upper' = upper /\ journal' = journal /\ deleted' = deleted /\ nodes' = nodes
      /\ Copied("write")
  BY DEF Writes, Goes, Finishes
<1>2. /\ CopyPhase(Base, upper, data, deleted, nodes, op, tree, ops) /\ ~lost /\ journal = deleted
      /\ op.kind = "write" /\ Sound(Base, upper, data, deleted, nodes, tree) /\ StoreOK(Base)
      /\ \A q \in op.todo : q \in DOMAIN upper
      /\ LayerOK(Base, upper, data, deleted) /\ Shows(Base, upper, data, deleted, tree) /\ ops \in Nat
  BY <1>1, AllCopied
<1>3. /\ op.q \in DOMAIN upper /\ op.p \in Paths /\ Reach(Base, upper, deleted, op.p)
      /\ KindIn(Base, upper, op.p) # Dir /\ Stands(upper, op.p, op.q)
      /\ op.after = [tree EXCEPT !.holds[tree.at[op.p]] = 10 + ops]
  BY <1>2 DEF CopyPhase
<1>4. op.p \in DOMAIN upper /\ upper[op.p] = upper[op.q] /\ upper[op.q] # Dir /\ op.p \in DOMAIN tree.at
  BY <1>2, <1>3 DEF Stands, KindIn, Shows
<1>5. 10 + ops \in Nat
  BY <1>2
<1>. DEFINE v == 10 + ops
<1>. HIDE DEF v
<1>6. Sound(Base, upper, [data EXCEPT ![upper[op.q]] = v], deleted, nodes,
            [tree EXCEPT !.holds[tree.at[op.p]] = v])
  BY <1>2, <1>3, <1>4, <1>5, WriteSound DEF v
<1>7. Sound(Base, upper', data', deleted', nodes', tree')
  BY <1>1, <1>3, <1>6 DEF v
<1>. QED BY <1>1, <1>2, <1>7, ToIdle

LEMMA HardLinksStep == ASSUME Inv, HardLinks PROVE Inv'
<1>1. /\ store' = store /\ ops' = ops /\ lost' = lost /\ op' = [op EXCEPT !.step = "reveal"]
      /\ upper' = Put(upper, op.to, upper[op.q])
      /\ data' = data /\ journal' = journal /\ deleted' = deleted /\ nodes' = nodes /\ tree' = tree
      /\ Copied("link")
  BY DEF HardLinks, Goes
<1>2. /\ CopyPhase(Base, upper, data, deleted, nodes, op, tree, ops) /\ ~lost /\ journal = deleted
      /\ op.kind = "link" /\ Sound(Base, upper, data, deleted, nodes, tree) /\ StoreOK(Base)
      /\ \A q \in op.todo : q \in DOMAIN upper
      /\ LayerOK(Base, upper, data, deleted) /\ Shows(Base, upper, data, deleted, tree) /\ ops \in Nat
      /\ Table(nodes) /\ deleted \subseteq DOMAIN Base
  BY <1>1, AllCopied
<1>3. /\ op.q \in DOMAIN upper /\ op.p \in Paths /\ Reach(Base, upper, deleted, op.p) /\ op.to \in Paths
      /\ KindIn(Base, upper, op.p) # Dir /\ Stands(upper, op.p, op.q) /\ Fields(op) /\ op.links = {}
      /\ FreeIn(Base, upper, deleted, op.to) /\ AloneIn(nodes, op.to)
      /\ op.after = [tree EXCEPT !.at = Extended(@, op.to, tree.at[op.p])]
  BY <1>2 DEF CopyPhase
<1>4. op.p \in DOMAIN upper /\ upper[op.p] = upper[op.q] /\ upper[op.p] # Dir
  BY <1>2, <1>3 DEF Stands, KindIn
<1>5. IsStepped(op', op, "reveal")
  BY <1>1, <1>3, Stepped
<1>6. upper' = Put(upper, op.to, upper[op.p])
  BY <1>1, <1>4
<1>7. /\ Sound(Base, upper', data, Rev(Base, deleted, upper', op.to),
               Aliased(Numbered(nodes, op.p), op.to, Numbered(nodes, op.p).paths[op.p]), op.after)
      /\ op.to \in DOMAIN upper' /\ op.to \notin DOMAIN tree.at
  BY <1>2, <1>3, <1>4, <1>6, LinkSound
<1>8. NextNodes(nodes', op') = Aliased(Numbered(nodes, op.p), op.to, Numbered(nodes, op.p).paths[op.p])
  BY <1>1, <1>2, <1>5 DEF NextNodes, IsStepped
<1>9. RevealPhase(Base, upper', data', deleted', nodes', op', tree')
  BY <1>1, <1>2, <1>3, <1>5, <1>7, <1>8 DEF RevealPhase, IsStepped
<1>10. LayerOK(Base, upper', data', Rev(Base, deleted, upper', op.to))
  BY <1>1, <1>7 DEF Sound
<1>. QED BY <1>1, <1>2, <1>9, <1>10, ToServing

LEMMA ParentsMade ==
  ASSUME NEW u, NEW p \in Paths, \A q \in Parents(p) : KindIn(Base, u, q) = Dir, NEW u1, u1 = WithParents(u, p)
  PROVE  /\ \A q \in Parents(p) : q \in DOMAIN u1 /\ u1[q] = Dir
         /\ \A q \in DOMAIN u : q \in DOMAIN u1
BY ParentsAt DEF KindIn

LEMMA HidesSourceStep == ASSUME Inv, HidesSource PROVE Inv'
<1>1. /\ store' = store /\ ops' = ops /\ lost' = lost /\ op' = [op EXCEPT !.step = "move"]
      /\ upper' = WithParents(upper, op.to)
      /\ deleted' = IF op.p \in DOMAIN Base THEN deleted \cup {op.p} ELSE deleted
      /\ journal' = IF op.p \in DOMAIN Base THEN deleted' ELSE journal
      /\ data' = data /\ nodes' = nodes /\ tree' = tree /\ Copied("rename")
  BY DEF HidesSource, Goes
<1>2. /\ CopyPhase(Base, upper, data, deleted, nodes, op, tree, ops) /\ ~lost /\ journal = deleted
      /\ op.kind = "rename" /\ Sound(Base, upper, data, deleted, nodes, tree) /\ StoreOK(Base)
      /\ \A q \in op.todo : q \in DOMAIN upper
      /\ LayerOK(Base, upper, data, deleted) /\ Shows(Base, upper, data, deleted, tree) /\ ops \in Nat
      /\ Table(nodes) /\ deleted \subseteq DOMAIN Base /\ deleted \subseteq Paths
  BY <1>1, AllCopied
<1>3. /\ Fields(op) /\ op.links = {} /\ op.p \in Paths /\ op.to \in Paths /\ Reach(Base, upper, deleted, op.p)
      /\ RenameOK(Base, upper, deleted, nodes, op.p, op.to) /\ TreeMoves(op.after, tree, op.p, op.to)
      /\ op.todo = {q \in Paths : Within(q, op.p) /\ Reach(Base, upper, deleted, q)}
      /\ \A q \in Parents(op.to) : Reach(Base, upper, deleted, q) /\ KindIn(Base, upper, q) = Dir
  BY <1>2 DEF CopyPhase, RenameOK
<1>4. IsStepped(op', op, "move")
  BY <1>1, <1>3, Stepped
<1>5. /\ Sound(Base, upper', data, deleted, nodes, tree)
      /\ Alike(Base, upper, deleted, upper', deleted)
  BY <1>1, <1>2, <1>3, ParentsSound
<1>6. /\ \A q \in Parents(op.to) : q \in DOMAIN upper' /\ upper'[q] = Dir
      /\ \A q \in DOMAIN upper : q \in DOMAIN upper'
  BY <1>1, <1>3, ParentsMade
<1>7. deleted' \ {op.p} = deleted /\ journal' = deleted' /\ deleted' \subseteq DOMAIN Base
      /\ deleted' = IF op.p \in DOMAIN Base THEN (deleted' \ {op.p}) \cup {op.p} ELSE deleted' \ {op.p}
  <2>1. op.p \notin deleted /\ (deleted \cup {op.p}) \ {op.p} = deleted /\ deleted \ {op.p} = deleted
    BY <1>2, <1>3, NotHid DEF Reach, Sees
  <2>. QED BY <1>1, <1>2, <2>1
<1>8. RenameOK(Base, upper', deleted, nodes, op.p, op.to)
  BY <1>3, <1>5, AlikeRename
<1>9. \A q \in Paths : Within(q, op.p) /\ Reach(Base, upper', deleted, q) => q \in DOMAIN upper'
  BY <1>2, <1>3, <1>5, <1>6 DEF Alike
<1>10. MovePhase(Base, upper', data', deleted', nodes', op', tree')
  BY <1>1, <1>2, <1>3, <1>4, <1>5, <1>6, <1>7, <1>8, <1>9 DEF MovePhase, IsStepped
<1>11. LayerOK(Base, upper', data', deleted)
  BY <1>1, <1>5 DEF Sound
<1>. QED BY <1>1, <1>2, <1>7, <1>10, <1>11, ToServing

LEMMA HidesSourceFailsStep == ASSUME Inv, HidesSourceFails PROVE Inv'
<1>1. /\ store' = store /\ ops' = ops /\ lost' /\ op' = Idle
      /\ upper' = WithParents(upper, op.to)
      /\ deleted' = deleted \cup {op.p} /\ op.p \in DOMAIN Base
      /\ journal' = journal /\ data' = data /\ nodes' = nodes /\ Copied("rename")
  BY DEF HidesSourceFails, Fails
<1>2. /\ CopyPhase(Base, upper, data, deleted, nodes, op, tree, ops) /\ journal = deleted
      /\ op.kind = "rename" /\ Sound(Base, upper, data, deleted, nodes, tree) /\ StoreOK(Base)
      /\ ops \in Nat /\ Table(nodes) /\ deleted \subseteq DOMAIN Base
  BY <1>1, AllCopied
<1>3. op.to \in Paths /\ \A q \in Parents(op.to) : Reach(Base, upper, deleted, q) /\ KindIn(Base, upper, q) = Dir
  BY <1>2 DEF CopyPhase, RenameOK
<1>4. Sound(Base, upper', data, deleted, nodes, tree)
  BY <1>1, <1>2, <1>3, ParentsSound
<1>5. LayerOK(Base, upper', data', deleted)
  BY <1>1, <1>4 DEF Sound
<1>. QED BY <1>1, <1>2, <1>5, ToLost

LEMMA MovesStep == ASSUME Inv, Moves PROVE Inv'
<1>. DEFINE from == op.p  to == op.to
            moved == {q \in DOMAIN upper : Within(q, from)}
            gone == {q \in DOMAIN upper : Within(q, to)}
            landed == {Moved(q, from, to) : q \in moved}
<1>1. /\ store' = store /\ ops' = ops /\ ops \in Nat /\ lost' = lost /\ op' = [op EXCEPT !.step = "reveal"]
      /\ upper' = [q \in (DOMAIN upper \ (moved \cup gone)) \cup landed |->
                     IF q \in landed THEN upper[Moved(q, to, from)] ELSE upper[q]]
      /\ data' = data /\ journal' = journal /\ deleted' = deleted /\ nodes' = nodes /\ tree' = tree
      /\ op.kind = "rename" /\ op.step = "move"
  BY DEF Moves, Goes, Inv, LayerInv
<1>2. /\ MovePhase(Base, upper, data, deleted, nodes, op, tree) /\ ~lost /\ journal = deleted
      /\ StoreOK(Base)
  BY <1>1, AtMove, Stays
<1>. DEFINE del == deleted \ {from}
<1>3. /\ Fields(op) /\ op.links = {} /\ Sound(Base, upper, data, del, nodes, tree)
      /\ RenameOK(Base, upper, del, nodes, from, to)
      /\ deleted = IF from \in DOMAIN Base THEN del \cup {from} ELSE del
      /\ \A q \in Parents(to) : q \in DOMAIN upper /\ upper[q] = Dir
      /\ \A q \in Paths : Within(q, from) /\ Reach(Base, upper, del, q) => q \in DOMAIN upper
      /\ TreeMoves(op.after, tree, from, to)
  BY <1>2 DEF MovePhase
<1>. HIDE DEF del
<1>4. LayerOK(Base, upper, data, del) /\ Table(nodes) /\ DOMAIN upper \subseteq Paths /\ del \subseteq DOMAIN Base
  BY <1>3 DEF Sound, NodesOK, LayerOK
<1>5. from \in Paths /\ to \in Paths /\ from \in Names /\ to \in Names /\ DOMAIN Base \subseteq Paths
      /\ Reach(Base, upper, del, from)
  BY <1>2, <1>3, PathOrder DEF RenameOK, StoreOK
<1>6. \A q \in DOMAIN upper : Within(q, from) =>
        /\ Within(Moved(q, from, to), to) /\ Moved(Moved(q, from, to), to, from) = q
        /\ Moved(q, from, to) \in landed
  <2>1. \A q \in DOMAIN upper : q \in Names
    BY <1>4, PathOrder
  <2>. QED BY <1>5, <2>1, MovedWithin, MovedBack
<1>7. /\ DOMAIN upper' = (DOMAIN upper \ (moved \cup gone)) \cup landed
      /\ \A q \in DOMAIN upper' : upper'[q] = IF q \in landed THEN upper[Moved(q, to, from)] ELSE upper[q]
  BY <1>1
<1>8. /\ DOMAIN upper' = {q \in DOMAIN upper : ~Within(q, from) /\ ~Within(q, to)}
                         \cup {Moved(q, from, to) : q \in {r \in DOMAIN upper : Within(r, from)}}
      /\ \A q \in DOMAIN upper : ~Within(q, from) /\ ~Within(q, to) => upper'[q] = upper[q]
      /\ \A q \in DOMAIN upper : Within(q, from) => upper'[Moved(q, from, to)] = upper[q]
  BY <1>6, <1>7
<1>9. /\ Sound(Base, upper', data, Rev(Base, deleted, upper', to), Renamed(nodes, from, to), op.after)
      /\ from \in DOMAIN tree.at /\ from \notin DOMAIN upper'
  <2>. HIDE DEF from, to
  <2>. QED BY <1>2, <1>3, <1>8, RenameSound
<1>10. IsStepped(op', op, "reveal")
  BY <1>1, <1>3, Stepped
<1>11. NextNodes(nodes', op') = Renamed(nodes, from, to)
  BY <1>1, <1>10 DEF NextNodes, IsStepped
<1>12. to \in DOMAIN upper'
  <2>1. from \in DOMAIN upper /\ Within(from, from)
    BY <1>3, <1>5, PathOrder
  <2>2. Moved(from, from, to) = to
    BY <1>5, MovedRoot
  <2>. QED BY <1>8, <2>1, <2>2
<1>13. deleted \subseteq DOMAIN Base /\ (from \in DOMAIN Base => from \in deleted)
  BY <1>3, <1>4
<1>14. RevealPhase(Base, upper', data', deleted', nodes', op', tree')
  BY <1>1, <1>2, <1>3, <1>9, <1>10, <1>11, <1>12, <1>13 DEF RevealPhase, IsStepped
<1>15. LayerOK(Base, upper', data', Rev(Base, deleted, upper', to))
  BY <1>1, <1>9 DEF Sound
<1>. QED BY <1>1, <1>2, <1>4, <1>13, <1>14, <1>15, ToServing

LEMMA MoveFailsStep == ASSUME Inv, MoveFails PROVE Inv'
<1>1. /\ store' = store /\ ops' = ops /\ ops \in Nat /\ op' = Idle /\ Settles
      /\ upper' = upper /\ data' = data /\ nodes' = nodes
      /\ deleted' = IF op.p \in DOMAIN Base THEN deleted \ {op.p} ELSE deleted
      /\ journal' = IF op.p \in DOMAIN Base THEN deleted' ELSE journal
      /\ op.kind = "rename" /\ op.step = "move"
  BY DEF MoveFails, Fails, Inv, LayerInv
<1>2. /\ MovePhase(Base, upper, data, deleted, nodes, op, tree) /\ ~lost /\ journal = deleted
      /\ StoreOK(Base) /\ Base' = Base
  BY <1>1, AtMove, Stays
<1>3. deleted' = deleted \ {op.p} /\ journal' = deleted'
  BY <1>1, <1>2 DEF MovePhase
<1>4. Sound(Base, upper', data', deleted', nodes, tree) /\ NodesOK(Base, upper', deleted', nodes')
  BY <1>1, <1>2, <1>3 DEF MovePhase, Sound
<1>5. tree' = tree
  BY <1>1, SettlesIs
<1>6. Sound(Base, upper', data', deleted', nodes', tree')
  BY <1>1, <1>4, <1>5
<1>. QED BY <1>1, <1>3, <1>6, ToIdle

LEMMA RevealsStep == ASSUME Inv, Reveals PROVE Inv'
<1>1. /\ store' = store /\ ops' = ops /\ ops \in Nat /\ op' = Idle /\ tree' = op.after
      /\ deleted' = Revealed(op.to) /\ journal' = deleted' /\ upper' = upper /\ data' = data
      /\ nodes' = NextNodes(nodes, op) /\ op # Idle /\ op.step = "reveal"
  BY DEF Reveals, Goes, Finishes, NextNodes, Inv, LayerInv
<1>2. RevealPhase(Base, upper, data, deleted, nodes, op, tree)
  BY <1>1, AtReveal
<1>3. deleted' = Rev(Base, deleted, upper, op.to)
  BY <1>1, Reads
<1>4. Sound(Base, upper', data', deleted', nodes', tree')
  BY <1>1, <1>2, <1>3 DEF RevealPhase
<1>. QED BY <1>1, <1>4, ToIdle

LEMMA RevealFailsStep == ASSUME Inv, RevealFails PROVE Inv'
<1>1. /\ store' = store /\ ops' = ops /\ ops \in Nat /\ op' = Idle /\ lost'
      /\ deleted' = Revealed(op.to) /\ journal' = journal /\ upper' = upper /\ data' = data
      /\ nodes' = nodes /\ op # Idle /\ op.step = "reveal"
  BY DEF RevealFails, Fails, Inv, LayerInv
<1>2. RevealPhase(Base, upper, data, deleted, nodes, op, tree) /\ journal = deleted
  BY <1>1, AtReveal
<1>3. deleted' = Rev(Base, deleted, upper, op.to)
  BY <1>1, Reads
<1>4. LayerOK(Base, upper', data', deleted') /\ deleted \subseteq DOMAIN Base
  BY <1>1, <1>2, <1>3 DEF RevealPhase, Sound
<1>5. deleted' \subseteq DOMAIN Base /\ Table(nodes)
  BY <1>4 DEF LayerOK, Inv, LayerInv
<1>. QED BY <1>1, <1>2, <1>4, <1>5, ToLost

LEMMA RemountStep == ASSUME OwnNames, Inv, Remount PROVE Inv'
<1>1. /\ store' = store /\ ops' = ops + 1 /\ ops \in Nat /\ op' = Idle /\ tree' = tree
      /\ deleted' = {p \in journal : p \notin DOMAIN upper} /\ journal' = deleted'
      /\ upper' = upper /\ data' = data /\ nodes' = NewNodes(store) /\ op = Idle /\ ~lost
  BY DEF Remount, Opens, Inv, LayerInv
<1>2. Sound(Base, upper, data, deleted, nodes, tree) /\ journal = deleted /\ StoreOK(Base)
  BY <1>1, AtIdle, Stays
<1>3. deleted' = deleted
  BY <1>1, <1>2, NoneUpper DEF Sound
<1>4. NodesOK(Base, upper', deleted', nodes')
  BY <1>1, NewNodesOK DEF Inv
<1>5. Sound(Base, upper', data', deleted', nodes', tree')
  BY <1>1, <1>2, <1>3, <1>4 DEF Sound
<1>. QED BY <1>1, <1>5, ToIdle

LEMMA CrashStep == ASSUME OwnNames, Inv, Crash PROVE Inv'
<1>1. /\ store' = store /\ ops' = ops /\ ops \in Nat /\ op' = Idle /\ Settles
      /\ deleted' = {p \in journal : p \notin DOMAIN upper} /\ journal' = deleted'
      /\ upper' = upper /\ data' = data /\ nodes' = NewNodes(store) /\ op # Idle
  BY DEF Crash, Opens, Inv, LayerInv
<1>2. /\ ~lost /\ journal = deleted
      /\ \/ CopyPhase(Base, upper, data, deleted, nodes, op, tree, ops)
         \/ TrashPhase(Base, upper, data, deleted, nodes, op, tree)
         \/ MovePhase(Base, upper, data, deleted, nodes, op, tree)
         \/ RevealPhase(Base, upper, data, deleted, nodes, op, tree)
  BY <1>1, Serving
<1>3. StoreOK(Base) /\ Base' = Base /\ store \in Stores /\ Base = BaseOf(store)
  BY <1>1, Stays, Reads DEF Inv
<1>4. NodesOK(Base, upper, deleted', nodes')
  BY <1>1, <1>3, NewNodesOK
<1>5. tree' = IF op.step = "reveal"
              THEN AdoptedIn(Base, store, ViewIn(Base, upper, data, deleted', nodes'), op.to, op.after)
              ELSE tree
  BY <1>1, <1>3, SettlesIs
<1>6. CASE CopyPhase(Base, upper, data, deleted, nodes, op, tree, ops)
  <2>1. Sound(Base, upper, data, deleted, nodes, tree) /\ tree' = tree
    BY <1>5, <1>6 DEF CopyPhase
  <2>2. LayerOK(Base, upper, data, deleted)
    BY <2>1 DEF Sound
  <2>3. deleted' = deleted
    BY <1>1, <1>2, <1>3, <2>2, NoneUpper
  <2>4. Sound(Base, upper, data, deleted', nodes', tree')
    BY <1>4, <2>1, <2>3 DEF Sound
  <2>. QED BY <1>1, <2>4, ToIdle
<1>7. CASE TrashPhase(Base, upper, data, deleted, nodes, op, tree)
  <2>1. Sound(Base, upper, data, deleted \ {op.to}, nodes, tree) /\ op.to \in DOMAIN upper /\ tree' = tree
    BY <1>5, <1>7 DEF TrashPhase
  <2>2. LayerOK(Base, upper, data, deleted \ {op.to})
    BY <2>1 DEF Sound
  <2>3. deleted' = deleted \ {op.to}
    BY <1>1, <1>2, <1>3, <2>1, <2>2, NoneUpper
  <2>4. Sound(Base, upper, data, deleted', nodes', tree')
    BY <1>4, <2>1, <2>3 DEF Sound
  <2>. QED BY <1>1, <2>4, ToIdle
<1>8. CASE MovePhase(Base, upper, data, deleted, nodes, op, tree)
  <2>1. /\ Sound(Base, upper, data, deleted \ {op.p}, nodes, tree) /\ tree' = tree
        /\ RenameOK(Base, upper, deleted \ {op.p}, nodes, op.p, op.to)
        /\ \A q \in Paths : Within(q, op.p) /\ Reach(Base, upper, deleted \ {op.p}, q) => q \in DOMAIN upper
    BY <1>5, <1>8 DEF MovePhase
  <2>2. LayerOK(Base, upper, data, deleted \ {op.p})
    BY <2>1 DEF Sound
  <2>3. op.p \in DOMAIN upper
    BY <2>1, PathOrder DEF RenameOK
  <2>4. deleted' = deleted \ {op.p}
    BY <1>1, <1>2, <1>3, <2>2, <2>3, NoneUpper
  <2>5. Sound(Base, upper, data, deleted', nodes', tree')
    BY <1>4, <2>1, <2>4 DEF Sound
  <2>. QED BY <1>1, <2>5, ToIdle
<1>9. CASE RevealPhase(Base, upper, data, deleted, nodes, op, tree)
  <2>. DEFINE n == NextNodes(nodes, op)
  <2>1. /\ op.to \in DOMAIN upper /\ deleted \subseteq DOMAIN Base /\ op.step = "reveal"
        /\ Sound(Base, upper, data, Rev(Base, deleted, upper, op.to), n, op.after)
    BY <1>9 DEF RevealPhase
  <2>. HIDE DEF n
  <2>2. deleted' = {w \in deleted : w \notin DOMAIN upper}
    BY <1>1, <1>2
  <2>3. Sound(Base, upper, data, deleted', nodes', tree')
    BY <1>3, <1>4, <1>5, <2>1, <2>2, CrashSound
  <2>. QED BY <1>1, <2>3, ToIdle
<1>. QED BY <1>2, <1>6, <1>7, <1>8, <1>9

-----------------------------------------------------------------------------
LEMMA NextInv == ASSUME OwnNames, ~Aliases, ~Swaps, Inv, [Next]_vars PROVE Inv'
<1>1. CASE UNCHANGED vars
  <2>1. Base' = Base
    BY <1>1 DEF vars, Base
  <2>. QED BY <1>1, <2>1 DEF vars, layer, Inv
<1>2. ASSUME NEW p \in Paths, NEW dir \in BOOLEAN, Create(p, dir) PROVE Inv'
  BY <1>2, CreateStep
<1>3. ASSUME NEW p \in Paths, Remove(p) PROVE Inv'
  BY <1>3, RemoveStep
<1>4. ASSUME NEW p \in Paths, Write(p) PROVE Inv'
  BY <1>4, WriteStep
<1>5. ASSUME NEW p \in Paths, NEW to \in Paths, Link(p, to) PROVE Inv'
  BY <1>5, LinkStep
<1>6. ASSUME NEW p \in Paths, NEW to \in Paths, Rename(p, to) PROVE Inv'
  BY <1>6, RenameStep
<1>7. CASE Serves
  BY <1>7, TrashesStep, CopiesUpStep, LinksAliasStep, WritesStep, HardLinksStep, HidesSourceStep, MovesStep,
     RevealsStep DEF Serves
<1>8. CASE TrashFails \/ HidesSourceFails \/ MoveFails \/ RevealFails \/ Remount \/ Crash
  BY <1>8, TrashFailsStep, HidesSourceFailsStep, MoveFailsStep, RevealFailsStep, RemountStep, CrashStep
<1>. QED BY <1>1, <1>2, <1>3, <1>4, <1>5, <1>6, <1>7, <1>8 DEF Next

LEMMA InvTrue == ASSUME Inv PROVE LayerTrue
<1>1. TypeOK
  BY DEF Inv, LayerInv, TypeIn, TypeOK
<1>2. ASSUME op = Idle, ~lost PROVE View = Owed(tree) /\ Applied = View
  <2>1. Sound(Base, upper, data, deleted, nodes, tree) /\ StoreOK(Base)
    BY <1>2, AtIdle DEF Inv, LayerInv
  <2>2. /\ LayerOK(Base, upper, data, deleted) /\ TreeOK(tree) /\ Shows(Base, upper, data, deleted, tree)
        /\ NodesOK(Base, upper, deleted, nodes)
    BY <2>1 DEF Sound
  <2>3. View = Plain(Base, upper, data, deleted) /\ Applied = Plain(Base, upper, data, deleted)
    BY <2>1, <2>2, Reads, ViewPlain, AppliedPlain
  <2>. QED BY <2>2, <2>3, ShownOwed
<1>. QED BY <1>1, <1>2 DEF LayerTrue, ViewIsTree, AppliedIsView

\* Between requests, until a journal write fails, the layer is well formed, the mount
\* shows name by name what the game is owed, and apply_to would give back what the mount
\* shows (mount.rs, overlay.rs): nothing written through one name shows under another, and
\* a request that fails or dies has happened exactly when its name was in place; nothing
\* deleted comes back but, after a death at that point, what the store holds below that
\* name.  ~Aliases leaves out the requests that make anew or move a name of a file with
\* several names, and a death while such names are copied up; ~Swaps a folder with folders
\* that moves to where the store has folders of those names; OwnNames a store in which two
\* names are one file.
THEOREM LayerIsTrue == ASSUME OwnNames, ~Aliases, ~Swaps PROVE Spec => []LayerTrue
<1>1. Init => Inv
  BY InitInv
<1>2. Inv /\ [Next]_vars => Inv'
  BY NextInv
<1>3. Inv => LayerTrue
  BY InvTrue
<1>. QED BY <1>1, <1>2, <1>3, PTL DEF Spec
================================================================================

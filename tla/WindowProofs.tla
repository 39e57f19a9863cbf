----------------------------- MODULE WindowProofs ------------------------------
(***************************************************************************)
(* The Linux window, and the requests of copies of the program.            *)
(*                                                                         *)
(* What the window shows is an older state of the coordinator, and several *)
(* answers are on their way at once.  That nothing it showed as ended      *)
(* comes back rests on all of them: of any two answers somebody holds, the *)
(* one that is not the later has no job ended that the other has not.      *)
(*                                                                         *)
(* A command is carried out once because only the lowest call of a request *)
(* is the command itself, and a coordinator that carried it out has the    *)
(* version of the copy that asks, which so takes its answer as the end.    *)
(***************************************************************************)
EXTENDS Window, Exchange, SequenceTheorems, FiniteSetTheorems, WellFoundedInduction, TLAPS

-----------------------------------------------------------------------------
(***************************************************************************)
(* The window: its types, what it waits for, and what the answers say.     *)
(***************************************************************************)
Lists    == [Games -> 0 .. Builds]
Jobs     == [id : Nat, game : Games, build : 0 .. Builds, op : {"Analyze", "Compress"},
             phase : {"queued", "running", "completed", "failed"}, worth : {"unknown", "low", "high"}]
Answers  == [epoch : Nat, revision : Nat, generation : Nat, found : Lists, jobs : Seq(Jobs)]
Commands == [game : Games, build : 0 .. Builds, op : {"Analyze", "Compress"}]
Sent     == [todo : Seq(Commands), stage : {"planning", "sending"}, at : Answers]
States   == [shown : Answers, list : Lists, records : Lists, scanning : BOOLEAN, queuing : BOOLEAN,
             error : BOOLEAN, ticked : SUBSET Games, place : [Games -> 0 .. 3], stale : BOOLEAN,
             planned : SUBSET Sent, ask : SUBSET {"scan"}, analyse : SUBSET Games]

WindowTypes ==
    /\ installed \in Lists /\ records \in Lists /\ worker \in Answers /\ poll \in Answers
    /\ scan \in [stage : {"none", "asked", "read"}, at : Answers, records : Lists]
    /\ batch \in [todo : Seq(Commands), at : Answers]
    /\ orders \in SUBSET Sent /\ window \in States /\ queued \in Nat

\* What the window waits for is under way.
Waits(w, sc, ba) ==
    /\ w.scanning = (sc.stage # "none" \/ w.ask # {})
    /\ w.queuing = (ba # NoBatch \/ w.analyse # {})
WaitsTrue ==
    /\ Waits(window, scan, batch) /\ window.analyse = {} /\ worker.epoch > 0
    /\ window.ask # {} => scan.stage = "none"

\* The answers somebody holds.
Seen == {poll, batch.at, scan.at, window.shown} \cup {o.at : o \in orders \cup window.planned}

\* One answer is from no later than another.
NoLater(s, t) == s.epoch < t.epoch \/ (s.epoch = t.epoch /\ s.revision <= t.revision)
Agree(s, t) ==
    NoLater(s, t) => \A i \in DOMAIN s.jobs, j \in DOMAIN t.jobs :
        s.jobs[i].id = t.jobs[j].id /\ ~Active(s.jobs[i]) => ~Active(t.jobs[j])
Unique(list) == \A i, j \in DOMAIN list : list[i].id = list[j].id => i = j

SeenTrue ==
    /\ \A s \in Seen \cup {worker} : \A t \in Seen \cup {worker} : Agree(s, t)
    /\ \A s \in Seen \cup {worker} :
          /\ NoLater(s, worker) /\ \A i \in DOMAIN s.jobs : s.jobs[i].id <= queued
          /\ s.epoch = 0 => s.jobs = << >>
    /\ Unique(worker.jobs)

WindowInv == WindowTypes /\ WaitsTrue /\ SeenTrue

-----------------------------------------------------------------------------
(* Lists and places *)

LEMMA MinIn ==
  ASSUME NEW S \in SUBSET Nat, S # {}
  PROVE  Min(S) \in S
<1>1. PICK x \in S : \A y \in S : ~(<<y, x>> \in OpToRel(<, Nat))
  BY NatLessThanWellFounded, WFMin, Zenon
<1>2. \A y \in S : ~(y < x)
  BY <1>1 DEF OpToRel
<1>3. \A y \in S : x <= y
  BY <1>2
<1>. QED BY <1>3 DEF Min

LEMMA InOrder ==
  ASSUME NEW S, IsFiniteSet(S)
  PROVE  SetToSeq(S) \in Seq(S) /\ (S # {} => SetToSeq(S) # << >>)
<1>. DEFINE n == Cardinality(S)
            order == SetToSeq(S)
<1>1. n \in Nat /\ ExistsBijection(1 .. n, S)
  BY FS_CardinalityType
<1>2. \E f \in [1 .. n -> S] : IsInjective(f)
  BY <1>1 DEF ExistsBijection, Bijection, Injection, IsInjective
<1>3. order \in [1 .. n -> S]
  BY <1>2 DEF SetToSeq
<1>4. S # {} => n # 0
  BY FS_EmptySet
<1>. HIDE DEF order, n
<1>5. order \in Seq(S) /\ Len(order) = n
  BY <1>1, <1>3
<1>6. S # {} => order # << >>
  BY <1>1, <1>4, <1>5
<1>. QED BY <1>5, <1>6 DEF order

\* Each place up to their number is that of one of the kept.
LEMMA PlacesOf ==
  ASSUME NEW n \in Nat, NEW K \in SUBSET (1 .. n)
  PROVE  /\ Cardinality(K) \in Nat
         /\ \A k \in 1 .. Cardinality(K) : \E i \in K : Cardinality({j \in K : j <= i}) = k
<1>. DEFINE m == Cardinality(K)
            upTo(i) == {j \in K : j <= i}
            rank == [i \in K |-> Cardinality(upTo(i))]
<1>1. IsFiniteSet(K) /\ m \in Nat
  <2>1. IsFiniteSet(1 .. n)
    BY FS_Interval
  <2>. QED BY <2>1, FS_Subset, FS_CardinalityType
<1>2. ASSUME NEW i \in K PROVE IsFiniteSet(upTo(i)) /\ Cardinality(upTo(i)) \in 1 .. m
  <2>1. upTo(i) \subseteq K /\ i \in upTo(i)
    OBVIOUS
  <2>2. IsFiniteSet(upTo(i)) /\ Cardinality(upTo(i)) <= m /\ Cardinality(upTo(i)) \in Nat
    BY <1>1, <2>1, FS_Subset, FS_CardinalityType
  <2>3. Cardinality(upTo(i)) # 0
    BY <2>1, <2>2, FS_EmptySet
  <2>. QED BY <1>1, <2>2, <2>3
<1>3. ASSUME NEW i \in K, NEW j \in K, i < j PROVE Cardinality(upTo(i)) # Cardinality(upTo(j))
  <2>1. upTo(i) \subseteq upTo(j) /\ j \in upTo(j) /\ j \notin upTo(i)
    <3>1. \A x \in K : x \in 1 .. n /\ x \in Nat
      OBVIOUS
    <3>2. \A x \in K : x <= i => x <= j
      BY <1>3, <3>1
    <3>3. j <= j /\ ~(j <= i)
      BY <1>3, <3>1
    <3>. QED BY <3>2, <3>3
  <2>2. IsFiniteSet(upTo(j))
    BY <1>2
  <2>. HIDE DEF upTo
  <2>. QED BY <2>1, <2>2, FS_Subset
<1>4. rank \in Injection(K, 1 .. m)
  <2>1. rank \in [K -> 1 .. m]
    BY <1>2
  <2>2. \A i, j \in K : rank[i] = rank[j] => i = j
    <3>1. TAKE i, j \in K
    <3>2. HAVE rank[i] = rank[j]
    <3>3. Cardinality(upTo(i)) = Cardinality(upTo(j))
      BY <3>2
    <3>4. ~(i < j) /\ ~(j < i)
      BY <1>3, <3>3
    <3>. QED BY <3>4
  <2>. HIDE DEF rank
  <2>. QED BY <2>1, <2>2 DEF Injection, IsInjective
<1>5. IsFiniteSet(1 .. m) /\ Cardinality(1 .. m) = m
  BY <1>1, FS_Interval
<1>6. rank \in Surjection(K, 1 .. m)
  <2>. HIDE DEF rank
  <2>. QED BY <1>4, <1>5, FS_Injection
<1>7. \A k \in 1 .. m : \E i \in K : rank[i] = k
  <2>. HIDE DEF rank
  <2>. QED BY <1>6 DEF Surjection
<1>. QED BY <1>1, <1>7

\* The jobs that are kept are jobs of the list, each in a place of its own.
LEMMA TrimmedIs ==
  ASSUME NEW list \in Seq(Jobs)
  PROVE  /\ Trimmed(list) \in Seq(Jobs)
         /\ \A k \in DOMAIN Trimmed(list) : \E i \in DOMAIN list : Trimmed(list)[k] = list[i]
         /\ Unique(list) => Unique(Trimmed(list))
<1>. DEFINE n == Len(list)
            ended == {i \in DOMAIN list : ~Active(list[i])}
            K == {i \in DOMAIN list : i \in ended => Cardinality({j \in ended : i < j}) < History}
            place(i) == Cardinality({j \in K : j <= i})
            at(k) == CHOOSE i \in K : place(i) = k
            m == Cardinality(K)
            t == [k \in 1 .. m |-> list[at(k)]]
<1>1. n \in Nat /\ DOMAIN list = 1 .. n /\ \A i \in 1 .. n : list[i] \in Jobs
  OBVIOUS
<1>2. Trimmed(list) = t
  BY DEF Trimmed
<1>3. K \in SUBSET (1 .. n)
  BY <1>1
<1>. HIDE DEF ended, K, n
<1>4. m \in Nat /\ \A k \in 1 .. m : \E i \in K : place(i) = k
  BY <1>1, <1>3, PlacesOf
<1>5. \A k \in 1 .. m : at(k) \in K /\ place(at(k)) = k
  BY <1>4
<1>. HIDE DEF place, at, m
<1>6. \A k \in 1 .. m : at(k) \in 1 .. n /\ t[k] = list[at(k)]
  BY <1>3, <1>5
<1>7. t \in [1 .. m -> Jobs] /\ DOMAIN t = 1 .. m
  BY <1>1, <1>6
<1>. HIDE DEF t
<1>8. t \in Seq(Jobs)
  BY <1>4, <1>7
<1>9. ASSUME Unique(list) PROVE Unique(t)
  <2>1. SUFFICES ASSUME NEW k \in 1 .. m, NEW l \in 1 .. m, t[k].id = t[l].id PROVE k = l
    BY <1>7 DEF Unique
  <2>2. at(k) = at(l)
    BY <1>1, <1>6, <1>9, <2>1 DEF Unique
  <2>. QED BY <1>5, <2>2
<1>. QED BY <1>1, <1>2, <1>6, <1>7, <1>8, <1>9

-----------------------------------------------------------------------------
(* The coordinator goes on *)

\* What a step of the coordinator makes of its jobs: later, each job one it had that did
\* not start again after its end, or the new one.
Advances ==
    \/ worker' = worker
    \/ /\ ~NoLater(worker', worker) /\ NoLater(worker, worker') /\ Unique(worker'.jobs)
       /\ \A j \in DOMAIN worker'.jobs :
             \/ worker'.jobs[j].id = queued + 1 /\ queued' = queued + 1
             \/ \E i \in DOMAIN worker.jobs : /\ worker.jobs[i].id = worker'.jobs[j].id
                                              /\ ~Active(worker.jobs[i]) => ~Active(worker'.jobs[j])

\* Nothing is held but what was held, or what the coordinator says now.
Held == Seen' \subseteq Seen \cup {worker', NoAnswer}

LEMMA Later ==
  ASSUME NEW s \in Answers, NEW t \in Answers, NEW u \in Answers
  PROVE  /\ NoLater(s, t) /\ NoLater(t, u) => NoLater(s, u)
         /\ NoLater(s, t) \/ NoLater(t, s)
BY DEF NoLater, Answers

LEMMA SeenTyped == ASSUME WindowTypes PROVE \A s \in Seen \cup {worker} : s \in Answers
BY DEF WindowTypes, Seen, Sent, States

LEMMA IdsOf == ASSUME NEW s \in Answers PROVE \A i \in DOMAIN s.jobs : s.jobs[i].id \in Nat
<1>1. s.jobs \in Seq(Jobs)
  BY DEF Answers
<1>2. \A i \in DOMAIN s.jobs : s.jobs[i] \in Jobs
  BY <1>1
<1>. QED BY <1>2 DEF Jobs

LEMMA SeenKeeps ==
  ASSUME WindowInv, WindowTypes', Advances, Held, queued' >= queued
  PROVE  SeenTrue'
<1>. DEFINE All == Seen \cup {worker}
            Good(s, t) == NoLater(s, t) => \A i \in DOMAIN s.jobs, j \in DOMAIN t.jobs :
                              s.jobs[i].id = t.jobs[j].id /\ ~Active(s.jobs[i]) => ~Active(t.jobs[j])
<1>1. /\ \A s \in All : s \in Answers /\ NoLater(s, worker) /\ (s.epoch = 0 => s.jobs = << >>)
      /\ \A s \in All : \A i \in DOMAIN s.jobs : s.jobs[i].id <= queued
      /\ \A s \in All : \A t \in All : Good(s, t)
      /\ Unique(worker.jobs) /\ worker \in All /\ worker.epoch > 0 /\ queued \in Nat
  BY SeenTyped DEF WindowInv, SeenTrue, Agree, WindowTypes, WaitsTrue
<1>2. worker' \in Answers /\ queued' \in Nat
  BY DEF WindowTypes
<1>. HIDE DEF All
<1>3. /\ \A s \in All : NoLater(s, worker')
      /\ \A s \in All : \A i \in DOMAIN s.jobs : \A j \in DOMAIN worker'.jobs :
            s.jobs[i].id = worker'.jobs[j].id /\ ~Active(s.jobs[i]) => ~Active(worker'.jobs[j])
  <2>1. CASE worker' = worker
    BY <1>1, <2>1
  <2>2. CASE worker' # worker
    <3>1. \A s \in All : NoLater(s, worker')
      BY <1>1, <1>2, <2>2, Later DEF Advances
    <3>3. \A j \in DOMAIN worker'.jobs :
             \/ worker'.jobs[j].id = queued + 1
             \/ \E i \in DOMAIN worker.jobs : /\ worker.jobs[i].id = worker'.jobs[j].id
                                              /\ ~Active(worker.jobs[i]) => ~Active(worker'.jobs[j])
      BY <2>2 DEF Advances
    <3>2. ASSUME NEW s \in All, NEW i \in DOMAIN s.jobs, NEW j \in DOMAIN worker'.jobs,
                 s.jobs[i].id = worker'.jobs[j].id, ~Active(s.jobs[i])
          PROVE  ~Active(worker'.jobs[j])
      <4>1. s.jobs[i].id <= queued
        BY <1>1
      <4>2. worker'.jobs[j].id # queued + 1
        BY <1>1, <3>2, <4>1, IdsOf
      <4>3. PICK k \in DOMAIN worker.jobs : /\ worker.jobs[k].id = worker'.jobs[j].id
                                            /\ ~Active(worker.jobs[k]) => ~Active(worker'.jobs[j])
        BY <3>3, <4>2
      <4>5. \A x \in DOMAIN s.jobs, y \in DOMAIN worker.jobs :
               s.jobs[x].id = worker.jobs[y].id /\ ~Active(s.jobs[x]) => ~Active(worker.jobs[y])
        BY <1>1
      <4>6. s.jobs[i].id = worker.jobs[k].id
        BY <3>2, <4>3
      <4>4. ~Active(worker.jobs[k])
        BY <3>2, <4>5, <4>6
      <4>. QED BY <4>3, <4>4
    <3>. QED BY <3>1, <3>2
  <2>. QED BY <2>1, <2>2
<1>4. Unique(worker'.jobs)
  BY <1>1 DEF Advances
<1>5. \A j \in DOMAIN worker'.jobs : worker'.jobs[j].id <= queued'
  <2>1. CASE worker' = worker
    <3>1. \A j \in DOMAIN worker.jobs : worker.jobs[j].id \in Nat /\ worker.jobs[j].id <= queued
      BY <1>1, IdsOf
    <3>. QED BY <1>1, <1>2, <2>1, <3>1
  <2>2. CASE worker' # worker
    <3>1. TAKE j \in DOMAIN worker'.jobs
    <3>2. CASE worker'.jobs[j].id = queued + 1 /\ queued' = queued + 1
      BY <1>1, <3>2
    <3>3. CASE \E i \in DOMAIN worker.jobs : worker.jobs[i].id = worker'.jobs[j].id
      <4>1. PICK i \in DOMAIN worker.jobs : worker.jobs[i].id = worker'.jobs[j].id
        BY <3>3
      <4>2. worker.jobs[i].id \in Nat
        BY <1>1, IdsOf
      <4>. QED BY <1>1, <1>2, <4>1, <4>2
    <3>. QED BY <2>2, <3>2, <3>3 DEF Advances
  <2>. QED BY <2>1, <2>2
<1>6. worker'.epoch > 0
  BY <1>1, <1>2 DEF NoLater, Advances, Answers
<1>. DEFINE All2 == Seen' \cup {worker'}
<1>7. All2 \subseteq All \cup {worker', NoAnswer}
  BY DEF Held, All
<1>8. NoAnswer.jobs = << >> /\ NoAnswer.epoch = 0 /\ NoAnswer.revision = 0 /\ DOMAIN NoAnswer.jobs = {}
  BY DEF NoAnswer
<1>. HIDE DEF All2
<1>9. \A s \in All2 : \A t \in All2 : Good(s, t)
  <2>1. SUFFICES ASSUME NEW s \in All2, NEW t \in All2, NoLater(s, t),
                        NEW i \in DOMAIN s.jobs, NEW j \in DOMAIN t.jobs,
                        s.jobs[i].id = t.jobs[j].id, ~Active(s.jobs[i])
                 PROVE  ~Active(t.jobs[j])
    OBVIOUS
  <2>2. s \in All \cup {worker'} /\ t \in All \cup {worker'}
    BY <1>7, <1>8, <2>1
  <2>3. CASE s \in All /\ t \in All
    BY <1>1, <2>1, <2>3
  <2>4. CASE s \in All /\ t = worker'
    BY <1>3, <2>1, <2>4
  <2>5. CASE s = worker' /\ t = worker'
    BY <1>4, <2>1, <2>5 DEF Unique
  <2>6. CASE s = worker' /\ t \in All
    <3>1. CASE worker' = worker
      BY <1>1, <2>1, <2>6, <3>1
    <3>2. CASE worker' # worker
      <4>1. NoLater(t, worker) /\ NoLater(worker', t)
        BY <1>1, <2>1, <2>6
      <4>2. NoLater(worker', worker)
        BY <1>1, <1>2, <2>6, <4>1, Later
      <4>. QED BY <3>2, <4>2 DEF Advances
    <3>. QED BY <3>1, <3>2
  <2>. QED BY <2>2, <2>3, <2>4, <2>5, <2>6
<1>10. ASSUME NEW s \in All2
       PROVE  /\ NoLater(s, worker') /\ \A i \in DOMAIN s.jobs : s.jobs[i].id <= queued'
              /\ s.epoch = 0 => s.jobs = << >>
  <2>1. CASE s \in All
    <3>1. \A i \in DOMAIN s.jobs : s.jobs[i].id \in Nat
      BY <1>1, <2>1, IdsOf
    <3>. QED BY <1>1, <1>2, <1>3, <2>1, <3>1
  <2>2. CASE s = worker'
    BY <1>2, <1>5, <1>6, <2>2 DEF NoLater, Answers
  <2>3. CASE s = NoAnswer
    BY <1>2, <1>6, <1>8, <2>3 DEF NoLater, Answers
  <2>. QED BY <1>7, <2>1, <2>2, <2>3
<1>. QED BY <1>4, <1>9, <1>10 DEF SeenTrue, Agree, All2

-----------------------------------------------------------------------------
(* What a message does to the window *)

\* What a message leaves of the window's state.
ShowsAs(w, r) == r.shown = w.shown /\ r.planned = w.planned

LEMMA CaptureIs ==
  ASSUME NEW w \in States, NEW sc, NEW ba, Waits(w, sc, ba)
  PROVE  LET r == CaptureOrder(w) IN r \in States /\ Waits(r, sc, ba) /\ ShowsAs(w, r) /\ r.ask = w.ask
<1>. DEFINE p == [g \in Games |-> Place(w, g)]
<1>1. \A g \in Games : Place(w, g) \in 0 .. 3
  BY DEF Place
<1>2. p \in [Games -> 0 .. 3]
  BY <1>1
<1>. HIDE DEF p
<1>. DEFINE r == [w EXCEPT !.place = p, !.stale = FALSE]
<1>3. r \in States /\ Waits(r, sc, ba) /\ ShowsAs(w, r) /\ r.ask = w.ask
  BY <1>2 DEF States, Waits, ShowsAs
<1>. QED BY <1>3 DEF CaptureOrder, p

LEMMA RefreshedIs ==
  ASSUME NEW w \in States, NEW sc, NEW ba, Waits(w, sc, ba)
  PROVE  LET r == Refreshed(w) IN r \in States /\ Waits(r, sc, ba) /\ ShowsAs(w, r)
BY DEF Refreshed, States, Waits, ShowsAs

LEMMA AnalyzeIs ==
  ASSUME NEW w \in States, NEW sc, NEW ba, Waits(w, sc, ba)
  PROVE  LET r == AnalyzeVisible(w) IN r \in States /\ Waits(r, sc, ba) /\ ShowsAs(w, r)
<1>1. Unseen(w) \in SUBSET Games
  BY DEF Unseen, Listed
<1>. QED BY <1>1 DEF AnalyzeVisible, States, Waits, ShowsAs

LEMMA AppliedIs ==
  ASSUME NEW w \in States, NEW s \in Answers, NEW sc, NEW ba, Waits(w, sc, ba)
  PROVE  LET r == Applied(w, s)
         IN /\ r \in States /\ Waits(r, sc, ba) /\ r.planned = w.planned
            /\ r.shown = w.shown \/ (r.shown = s /\ ~Outdated(w, s))
<1>. DEFINE Fits(r) == /\ r \in States /\ Waits(r, sc, ba) /\ r.planned = w.planned
                       /\ r.shown = w.shown \/ (r.shown = s /\ ~Outdated(w, s))
            settled == ~AnalysisActive(s.jobs) /\ AnalysisActive(w.shown.jobs)
            first == w.shown.epoch = 0
            next == [w EXCEPT !.shown = s]
            sorted == IF ~(first \/ settled) THEN next
                      ELSE IF w.ticked # {} THEN [next EXCEPT !.stale = TRUE]
                      ELSE CaptureOrder(next)
            r == IF CompletedWork(w, s) \/ s.found # w.shown.found
                 THEN Refreshed(sorted) ELSE AnalyzeVisible(sorted)
<1>1. CASE Outdated(w, s)
  BY <1>1 DEF Applied
<1>2. CASE ~Outdated(w, s)
  <2>1. next \in States /\ Waits(next, sc, ba) /\ next.planned = w.planned /\ next.shown = s
    BY DEF States, Waits
  <2>. HIDE DEF next
  <2>2. sorted \in States /\ Waits(sorted, sc, ba) /\ sorted.planned = w.planned /\ sorted.shown = s
    <3>1. CaptureOrder(next) \in States /\ Waits(CaptureOrder(next), sc, ba) /\ ShowsAs(next, CaptureOrder(next))
      BY <2>1, CaptureIs
    <3>2. /\ [next EXCEPT !.stale = TRUE] \in States /\ Waits([next EXCEPT !.stale = TRUE], sc, ba)
          /\ ShowsAs(next, [next EXCEPT !.stale = TRUE])
      BY <2>1 DEF States, Waits, ShowsAs
    <3>. QED BY <2>1, <3>1, <3>2 DEF ShowsAs
  <2>. HIDE DEF sorted
  <2>3. r \in States /\ Waits(r, sc, ba) /\ ShowsAs(sorted, r)
    BY <2>2, RefreshedIs, AnalyzeIs
  <2>4. Applied(w, s) = r
    BY <1>2 DEF Applied, sorted, next
  <2>. QED BY <1>2, <2>2, <2>3, <2>4 DEF ShowsAs
<1>. QED BY <1>1, <1>2

LEMMA ScannedIs ==
  ASSUME NEW w \in States, NEW result \in [stage : {"read"}, at : Answers, records : Lists], NEW sc, NEW ba,
         Waits(w, sc, ba), w.ask = {}
  PROVE  LET r == Scanned(w, result) IN r \in States /\ Waits(r, NoScan, ba) /\ ShowsAs(w, r)
<1>. DEFINE idle == [w EXCEPT !.scanning = FALSE]
            swapped == [idle EXCEPT !.list = result.at.found, !.records = result.records, !.error = FALSE]
            c == CaptureOrder(swapped)
            t == c.ticked \cap Listed(swapped)
            d == [c EXCEPT !.ticked = t]
<1>1. idle \in States /\ Waits(idle, NoScan, ba) /\ ShowsAs(w, idle)
  BY DEF States, Waits, ShowsAs, NoScan
<1>. HIDE DEF idle
<1>2. swapped \in States /\ Waits(swapped, NoScan, ba) /\ ShowsAs(idle, swapped)
  BY <1>1 DEF States, Answers, Waits, ShowsAs
<1>. HIDE DEF swapped
<1>3. c \in States /\ Waits(c, NoScan, ba) /\ ShowsAs(swapped, c)
  BY <1>2, CaptureIs
<1>. HIDE DEF c
<1>4. t \in SUBSET Games
  BY <1>3 DEF States
<1>. HIDE DEF t
<1>5. d \in States /\ Waits(d, NoScan, ba) /\ ShowsAs(c, d)
  BY <1>3, <1>4 DEF States, Waits, ShowsAs
<1>. HIDE DEF d
<1>6. /\ Refreshed(idle) \in States /\ Waits(Refreshed(idle), NoScan, ba) /\ ShowsAs(idle, Refreshed(idle))
      /\ AnalyzeVisible(d) \in States /\ Waits(AnalyzeVisible(d), NoScan, ba) /\ ShowsAs(d, AnalyzeVisible(d))
  BY <1>1, <1>5, RefreshedIs, AnalyzeIs
<1>7. Scanned(w, result) = IF w.shown.epoch > 0 /\ ~SameList(result.at, w.shown) THEN Refreshed(idle)
                           ELSE AnalyzeVisible(d)
  BY DEF Scanned, d, t, c, swapped, idle
<1>. QED BY <1>1, <1>2, <1>3, <1>5, <1>6, <1>7 DEF ShowsAs

LEMMA ScanFailedIs ==
  ASSUME NEW w \in States, NEW sc, NEW ba, Waits(w, sc, ba), w.ask = {}
  PROVE  LET r == ScanFailed(w) IN r \in States /\ Waits(r, NoScan, ba) /\ ShowsAs(w, r)
<1>. DEFINE d == [w EXCEPT !.scanning = FALSE, !.error = TRUE]
<1>1. d \in States /\ Waits(d, NoScan, ba) /\ ShowsAs(w, d)
  BY DEF States, Waits, ShowsAs, NoScan
<1>. HIDE DEF d
<1>2. AnalyzeVisible(d) \in States /\ Waits(AnalyzeVisible(d), NoScan, ba) /\ ShowsAs(d, AnalyzeVisible(d))
  BY <1>1, AnalyzeIs
<1>3. ScanFailed(w) = AnalyzeVisible(d)
  BY DEF ScanFailed, d
<1>. QED BY <1>1, <1>2, <1>3 DEF ShowsAs

-----------------------------------------------------------------------------
(* The steps *)

ScanTypes  == [stage : {"none", "asked", "read"}, at : Answers, records : Lists]
BatchTypes == [todo : Seq(Commands), at : Answers]

\* What the window shows next is what it shows, or an answer that is not outdated.
ShownMoves ==
    window'.shown = window.shown \/ (window'.shown \in Seen /\ ~Outdated(window, window'.shown))

LEMMA BlankAnswer == NoAnswer \in Answers /\ NoScan \in ScanTypes /\ NoBatch \in BatchTypes
<1>1. Nothing \in Lists
  BY WindowAssumption DEF Nothing, Lists
<1>2. << >> \in Seq(Jobs) /\ << >> \in Seq(Commands)
  OBVIOUS
<1>3. NoAnswer \in Answers
  BY <1>1, <1>2 DEF NoAnswer, Answers
<1>. QED BY <1>1, <1>2, <1>3 DEF NoScan, NoBatch, ScanTypes, BatchTypes

\* One command for each of some games.
LEMMA CommandsOf ==
  ASSUME NEW list \in Lists, NEW S \in SUBSET Games, NEW op \in {"Analyze", "Compress"}
  PROVE  LET todo == SetToSeq({[game |-> g, build |-> list[g], op |-> op] : g \in S})
         IN todo \in Seq(Commands) /\ (S # {} => todo # << >>)
<1>. DEFINE cmds == {[game |-> g, build |-> list[g], op |-> op] : g \in S}
            f == [g \in S |-> [game |-> g, build |-> list[g], op |-> op]]
<1>1. IsFiniteSet(S)
  BY WindowAssumption, FS_Subset
<1>2. f \in Surjection(S, cmds) /\ cmds \subseteq Commands /\ (S # {} => cmds # {})
  <2>1. f \in Surjection(S, cmds)
    BY DEF Surjection
  <2>2. cmds \subseteq Commands
    BY DEF Commands, Lists
  <2>3. \A g \in S : [game |-> g, build |-> list[g], op |-> op] \in cmds
    OBVIOUS
  <2>. QED BY <2>1, <2>2, <2>3
<1>. HIDE DEF f, cmds
<1>3. IsFiniteSet(cmds)
  BY <1>1, <1>2, FS_Surjection
<1>4. SetToSeq(cmds) \in Seq(cmds) /\ (cmds # {} => SetToSeq(cmds) # << >>)
  BY <1>3, InOrder
<1>. QED BY <1>2, <1>4 DEF cmds

LEMMA ShowsIs ==
  ASSUME NEW w \in States, NEW sc \in ScanTypes, NEW ba \in BatchTypes, Waits(w, sc, ba), Shows(w, sc, ba)
  PROVE  /\ window' \in States /\ scan' \in ScanTypes /\ batch' \in BatchTypes
         /\ Waits(window', scan', batch') /\ window'.analyse = {} /\ window'.ask = {}
         /\ ShowsAs(w, window') /\ scan'.at \in {sc.at, NoAnswer} /\ batch'.at \in {ba.at, NoAnswer}
<1>. DEFINE cmds == {[game |-> g, build |-> w.list[g], op |-> "Analyze"] : g \in w.analyse}
            todo == SetToSeq(cmds)
<1>1. /\ window' = [w EXCEPT !.ask = {}, !.analyse = {}]
      /\ scan' = IF w.ask = {} THEN sc ELSE [NoScan EXCEPT !.stage = "asked"]
      /\ batch' = IF w.analyse = {} THEN ba ELSE [todo |-> todo, at |-> NoAnswer]
  BY DEF Shows
<1>2. window' \in States /\ window'.analyse = {} /\ window'.ask = {} /\ ShowsAs(w, window')
      /\ window'.scanning = w.scanning /\ window'.queuing = w.queuing
  BY <1>1 DEF States, ShowsAs
<1>3. /\ scan' \in ScanTypes /\ scan'.at \in {sc.at, NoAnswer}
      /\ w.scanning = (scan'.stage # "none")
  BY <1>1, BlankAnswer DEF ScanTypes, NoScan, Waits
<1>4. w.analyse # {} => todo \in Seq(Commands) /\ todo # << >>
  <2>1. w.analyse \in SUBSET Games /\ w.list \in Lists
    BY DEF States
  <2>. QED BY <2>1, CommandsOf
<1>. HIDE DEF todo
<1>5. /\ batch' \in BatchTypes /\ batch'.at \in {ba.at, NoAnswer}
      /\ w.queuing = (batch' # NoBatch)
  BY <1>1, <1>4, BlankAnswer DEF BatchTypes, NoBatch, Waits
<1>. QED BY <1>2, <1>3, <1>5 DEF Waits

LEMMA Lands ==
  ASSUME WindowInv, WindowTypes', WaitsTrue', Advances, Held, queued' >= queued
  PROVE  WindowInv'
BY SeenKeeps DEF WindowInv

\* A step of the coordinator or of a launcher leaves the window and its threads alone.
LEMMA WorkerStep ==
  ASSUME WindowInv, UNCHANGED <<window, poll, scan, batch, orders>>,
         installed' \in Lists, records' \in Lists, worker' \in Answers, worker'.epoch > 0,
         queued' \in Nat, queued' >= queued, Advances
  PROVE  WindowInv' /\ ShownMoves
<1>1. WindowTypes'
  BY DEF WindowInv, WindowTypes
<1>2. WaitsTrue'
  BY DEF WindowInv, WaitsTrue
<1>3. Held
  BY DEF Held, Seen
<1>. QED BY <1>1, <1>2, <1>3, Lands DEF ShownMoves

\* A change of the coordinator that keeps every job as far as it was, but for a new one.
LEMMA ChangedAdvances ==
  ASSUME WindowInv, NEW next \in Answers, worker' = Changed(next), next.epoch = worker.epoch, Unique(next.jobs),
         \A j \in DOMAIN next.jobs :
            \/ next.jobs[j].id = queued + 1 /\ queued' = queued + 1
            \/ \E i \in DOMAIN worker.jobs : /\ worker.jobs[i].id = next.jobs[j].id
                                             /\ ~Active(worker.jobs[i]) => ~Active(next.jobs[j])
  PROVE  worker' \in Answers /\ worker'.epoch > 0 /\ Advances
<1>1. worker \in Answers /\ worker.epoch > 0
  BY DEF WindowInv, WindowTypes, WaitsTrue
<1>2. /\ worker' \in Answers /\ worker'.epoch = worker.epoch /\ worker'.jobs = next.jobs
      /\ worker'.revision = worker.revision + 1
  BY <1>1 DEF Changed, Answers
<1>3. ~NoLater(worker', worker) /\ NoLater(worker, worker')
  BY <1>1, <1>2 DEF NoLater, Answers
<1>. QED BY <1>1, <1>2, <1>3 DEF Advances

\* A request is answered with what the queue holds already, or with the job it adds.
LEMMA EnqueueIs ==
  ASSUME WindowInv, NEW c \in Commands, NEW before \in Seq(Jobs), Enqueue(c, before),
         DOMAIN before = DOMAIN worker.jobs,
         \A i \in DOMAIN before : /\ before[i].id = worker.jobs[i].id
                                  /\ ~Active(worker.jobs[i]) => ~Active(before[i])
  PROVE  worker' \in Answers /\ worker'.epoch > 0 /\ Advances /\ queued' \in Nat /\ queued' >= queued
<1>. DEFINE job == Job(queued + 1, c.game, c.build, c.op)
            list == Append(before, job)
            jobs == IF Duplicate(c) THEN before ELSE Trimmed(list)
            next == [worker EXCEPT !.jobs = jobs]
<1>1. /\ queued' = IF Duplicate(c) THEN queued ELSE queued + 1
      /\ worker' = IF next = worker THEN worker ELSE Changed(next)
  BY DEF Enqueue
<1>2. /\ worker \in Answers /\ queued \in Nat /\ worker.epoch > 0 /\ Unique(worker.jobs)
      /\ \A i \in DOMAIN worker.jobs : worker.jobs[i].id <= queued /\ worker.jobs[i].id \in Nat
  BY IdsOf DEF WindowInv, WindowTypes, WaitsTrue, SeenTrue
<1>3. job \in Jobs /\ job.id = queued + 1
  BY <1>2 DEF Job, Jobs, Commands
<1>. HIDE DEF job
<1>4. /\ list \in Seq(Jobs) /\ DOMAIN list = 1 .. Len(before) + 1 /\ Len(before) \in Nat
      /\ DOMAIN before = 1 .. Len(before)
      /\ list[Len(before) + 1] = job /\ \A i \in 1 .. Len(before) : list[i] = before[i]
  BY <1>3
<1>. HIDE DEF list
<1>5. Unique(before)
  BY <1>2 DEF Unique
<1>6. Unique(list)
  <2>1. SUFFICES ASSUME NEW i \in DOMAIN list, NEW j \in DOMAIN list, list[i].id = list[j].id PROVE i = j
    BY DEF Unique
  <2>2. \A k \in DOMAIN list : k = Len(before) + 1 \/ k \in DOMAIN before
    BY <1>4
  <2>3. \A k \in DOMAIN before : list[k].id # queued + 1
    BY <1>2, <1>4
  <2>4. CASE i \in DOMAIN before /\ j \in DOMAIN before
    BY <1>4, <1>5, <2>1, <2>4 DEF Unique
  <2>. QED BY <1>3, <1>4, <2>1, <2>2, <2>3, <2>4
<1>7. \A j \in DOMAIN list :
         \/ list[j].id = queued + 1
         \/ \E i \in DOMAIN worker.jobs : /\ worker.jobs[i].id = list[j].id
                                          /\ ~Active(worker.jobs[i]) => ~Active(list[j])
  <2>1. TAKE j \in DOMAIN list
  <2>2. CASE j = Len(before) + 1
    BY <1>3, <1>4, <2>2
  <2>3. CASE j \in DOMAIN before
    BY <1>4, <2>3
  <2>. QED BY <1>4, <2>2, <2>3
<1>8. CASE Duplicate(c)
  <2>1. next \in Answers /\ next.epoch = worker.epoch /\ next.jobs = before
    BY <1>2, <1>8 DEF Answers
  <2>2. queued' = queued
    BY <1>1, <1>8
  <2>3. CASE next = worker
    BY <1>1, <1>2, <2>2, <2>3 DEF Advances
  <2>4. CASE next # worker
    <3>1. worker' = Changed(next)
      BY <1>1, <2>4
    <3>. HIDE DEF next
    <3>. QED BY <1>2, <1>5, <2>1, <2>2, <3>1, ChangedAdvances
  <2>. QED BY <2>3, <2>4
<1>9. CASE ~Duplicate(c)
  <2>0. /\ Trimmed(list) \in Seq(Jobs) /\ Unique(Trimmed(list))
        /\ \A k \in DOMAIN Trimmed(list) : \E i \in DOMAIN list : Trimmed(list)[k] = list[i]
    BY <1>4, <1>6, TrimmedIs
  <2>. DEFINE t == Trimmed(list)
  <2>. HIDE DEF t
  <2>5. t \in Seq(Jobs) /\ Unique(t) /\ \A k \in DOMAIN t : \E i \in DOMAIN list : t[k] = list[i]
    BY <2>0 DEF t
  <2>1. next \in Answers /\ next.epoch = worker.epoch /\ next.jobs = t
    BY <1>2, <1>9, <2>5 DEF Answers, t
  <2>2. queued' = queued + 1
    BY <1>1, <1>9
  <2>3. CASE next = worker
    BY <1>1, <1>2, <2>2, <2>3 DEF Advances
  <2>4. CASE next # worker
    <3>1. worker' = Changed(next)
      BY <1>1, <2>4
    <3>2. \A k \in DOMAIN t :
             \/ t[k].id = queued + 1 /\ queued' = queued + 1
             \/ \E i \in DOMAIN worker.jobs : /\ worker.jobs[i].id = t[k].id
                                              /\ ~Active(worker.jobs[i]) => ~Active(t[k])
      <4>1. TAKE k \in DOMAIN t
      <4>2. PICK j \in DOMAIN list : t[k] = list[j]
        BY <2>5
      <4>. QED BY <1>7, <2>2, <4>2
    <3>. HIDE DEF next
    <3>. QED BY <1>2, <2>1, <2>2, <2>5, <3>1, <3>2, ChangedAdvances
  <2>. QED BY <2>3, <2>4
<1>. QED BY <1>8, <1>9

\* The jobs stay in their places, and none that ended starts again.
LEMMA InPlace ==
  ASSUME WindowInv, NEW list \in Seq(Jobs), DOMAIN list = DOMAIN worker.jobs,
         \A i \in DOMAIN list : /\ list[i].id = worker.jobs[i].id
                                /\ ~Active(worker.jobs[i]) => ~Active(list[i])
  PROVE  /\ Unique(list)
         /\ \A j \in DOMAIN list :
               \E i \in DOMAIN worker.jobs : /\ worker.jobs[i].id = list[j].id
                                             /\ ~Active(worker.jobs[i]) => ~Active(list[j])
BY DEF WindowInv, SeenTrue, Unique

LEMMA OneJob ==
  ASSUME NEW s \in Seq(Jobs), NEW i \in DOMAIN s, NEW x \in Jobs, x.id = s[i].id, ~Active(s[i]) => ~Active(x)
  PROVE  LET t == [s EXCEPT ![i] = x]
         IN /\ t \in Seq(Jobs) /\ DOMAIN t = DOMAIN s
            /\ \A j \in DOMAIN t : t[j].id = s[j].id /\ (~Active(s[j]) => ~Active(t[j]))
<1>. DEFINE n == Len(s)
            t == [s EXCEPT ![i] = x]
<1>1. n \in Nat /\ s \in [1 .. n -> Jobs] /\ i \in 1 .. n
  OBVIOUS
<1>. HIDE DEF n
<1>2. t \in [1 .. n -> Jobs] /\ \A j \in 1 .. n : t[j] = IF j = i THEN x ELSE s[j]
  BY <1>1
<1>. HIDE DEF t
<1>3. t \in Seq(Jobs) /\ DOMAIN t = 1 .. n /\ DOMAIN s = 1 .. n
  BY <1>1, <1>2
<1>. QED BY <1>2, <1>3 DEF t

\* One job of the coordinator goes on.
LEMMA JobGoesOn ==
  ASSUME WindowInv, NEW i \in DOMAIN worker.jobs, NEW x \in Jobs, x.id = worker.jobs[i].id, Active(worker.jobs[i]),
         worker' = Changed([worker EXCEPT !.jobs = [worker.jobs EXCEPT ![i] = x]])
  PROVE  worker' \in Answers /\ worker'.epoch > 0 /\ Advances
<1>. DEFINE list == [worker.jobs EXCEPT ![i] = x]
            next == [worker EXCEPT !.jobs = list]
<1>1. worker \in Answers /\ worker.jobs \in Seq(Jobs)
  BY DEF WindowInv, WindowTypes, Answers
<1>2. /\ list \in Seq(Jobs) /\ DOMAIN list = DOMAIN worker.jobs
      /\ \A j \in DOMAIN list : /\ list[j].id = worker.jobs[j].id
                                /\ ~Active(worker.jobs[j]) => ~Active(list[j])
  BY <1>1, OneJob
<1>. HIDE DEF list
<1>3. next \in Answers /\ next.epoch = worker.epoch /\ next.jobs = list
  BY <1>1, <1>2 DEF Answers
<1>4. worker' = Changed(next)
  BY DEF list
<1>. HIDE DEF next
<1>5. /\ Unique(list)
      /\ \A j \in DOMAIN list :
            \E k \in DOMAIN worker.jobs : /\ worker.jobs[k].id = list[j].id
                                          /\ ~Active(worker.jobs[k]) => ~Active(list[j])
  BY <1>2, InPlace
<1>. QED BY <1>3, <1>4, <1>5, ChangedAdvances

LEMMA BeginKeeps == ASSUME WindowInv, Begin PROVE WindowInv' /\ ShownMoves
<1>1. /\ UNCHANGED <<installed, records, window, poll, scan, batch, orders, queued>> /\ Startable # {}
      /\ worker \in Answers /\ worker.jobs \in Seq(Jobs) /\ worker.found \in Lists
      /\ installed \in Lists /\ records \in Lists /\ queued \in Nat
  BY DEF Begin, WindowInv, WindowTypes, Answers
<1>. DEFINE i == Min(IF Requested # {} THEN Requested ELSE Startable)
            x == [worker.jobs[i] EXCEPT !.phase = "running", !.build = worker.found[worker.jobs[i].game]]
<1>2. i \in Startable
  <2>1. Startable \in SUBSET Nat /\ Requested \subseteq Startable
    BY <1>1 DEF Startable, Requested
  <2>. QED BY <1>1, <2>1, MinIn
<1>3. worker' = Changed([worker EXCEPT !.jobs[i].phase = "running",
                                       !.jobs[i].build = worker.found[worker.jobs[i].game]])
  BY DEF Begin
<1>. HIDE DEF i
<1>4. i \in DOMAIN worker.jobs /\ worker.jobs[i].phase = "queued" /\ worker.jobs[i] \in Jobs
  BY <1>1, <1>2 DEF Startable
<1>5. Active(worker.jobs[i])
  BY <1>4 DEF Active, Ended
<1>6. x \in Jobs /\ x.id = worker.jobs[i].id
  BY <1>1, <1>4 DEF Jobs, Lists
<1>7. worker' = Changed([worker EXCEPT !.jobs = [worker.jobs EXCEPT ![i] = x]])
  BY <1>1, <1>3, <1>4 DEF Answers
<1>. HIDE DEF x
<1>8. worker' \in Answers /\ worker'.epoch > 0 /\ Advances
  BY <1>4, <1>5, <1>6, <1>7, JobGoesOn
<1>. QED BY <1>1, <1>8, WorkerStep

LEMMA FinishKeeps == ASSUME WindowInv, Finish PROVE WindowInv' /\ ShownMoves
<1>1. /\ UNCHANGED <<installed, window, poll, scan, batch, orders, queued>>
      /\ worker \in Answers /\ worker.jobs \in Seq(Jobs)
      /\ installed \in Lists /\ records \in Lists /\ queued \in Nat
  BY DEF Finish, WindowInv, WindowTypes, Answers
<1>2. PICK i \in DOMAIN worker.jobs :
        /\ worker.jobs[i].phase = "running"
        /\ \/ /\ \E worth \in {"low", "high", "unknown"} :
                    worker' = Changed([worker EXCEPT !.jobs[i].phase = "completed", !.jobs[i].worth = worth])
              /\ records' = IF worker.jobs[i].op = "Compress"
                            THEN [records EXCEPT ![worker.jobs[i].game] = worker.jobs[i].build] ELSE records
           \/ /\ records' = records
              /\ worker' = Changed([worker EXCEPT !.jobs[i].phase = "failed"])
  BY DEF Finish
<1>3. worker.jobs[i] \in Jobs /\ Active(worker.jobs[i])
  BY <1>1, <1>2 DEF Active, Ended
<1>4. records' \in Lists
  BY <1>1, <1>2, <1>3 DEF Lists, Jobs
<1>5. worker' \in Answers /\ worker'.epoch > 0 /\ Advances
  <2>1. ASSUME NEW worth \in {"low", "high", "unknown"},
               worker' = Changed([worker EXCEPT !.jobs[i].phase = "completed", !.jobs[i].worth = worth])
        PROVE  worker' \in Answers /\ worker'.epoch > 0 /\ Advances
    <3>. DEFINE x == [worker.jobs[i] EXCEPT !.phase = "completed", !.worth = worth]
    <3>1. x \in Jobs /\ x.id = worker.jobs[i].id
      BY <1>3 DEF Jobs
    <3>2. worker' = Changed([worker EXCEPT !.jobs = [worker.jobs EXCEPT ![i] = x]])
      BY <1>1, <1>3, <2>1 DEF Answers
    <3>. HIDE DEF x
    <3>. QED BY <1>3, <3>1, <3>2, JobGoesOn
  <2>2. CASE worker' = Changed([worker EXCEPT !.jobs[i].phase = "failed"])
    <3>. DEFINE x == [worker.jobs[i] EXCEPT !.phase = "failed"]
    <3>1. x \in Jobs /\ x.id = worker.jobs[i].id
      BY <1>3 DEF Jobs
    <3>2. worker' = Changed([worker EXCEPT !.jobs = [worker.jobs EXCEPT ![i] = x]])
      BY <1>1, <1>3, <2>2 DEF Answers
    <3>. HIDE DEF x
    <3>. QED BY <1>3, <3>1, <3>2, JobGoesOn
  <2>. QED BY <1>2, <2>1, <2>2
<1>. QED BY <1>1, <1>4, <1>5, WorkerStep

\* What the coordinator finds changes, and no job.
LEMMA FoundChanges ==
  ASSUME WindowInv, NEW next \in Answers, next.jobs = worker.jobs, next.epoch = worker.epoch, worker' = Changed(next)
  PROVE  worker' \in Answers /\ worker'.epoch > 0 /\ Advances
<1>1. /\ Unique(next.jobs)
      /\ \A j \in DOMAIN next.jobs :
            \E i \in DOMAIN worker.jobs : /\ worker.jobs[i].id = next.jobs[j].id
                                          /\ ~Active(worker.jobs[i]) => ~Active(next.jobs[j])
  BY DEF WindowInv, SeenTrue
<1>. QED BY <1>1, ChangedAdvances

LEMMA WorldKeeps ==
  ASSUME WindowInv, Install \/ Rescan \/ Discover \/ Upkeep \/ Restart
  PROVE  WindowInv' /\ ShownMoves
<1>1. /\ installed \in Lists /\ records \in Lists /\ queued \in Nat /\ worker.jobs \in Seq(Jobs)
      /\ worker \in Answers /\ worker.found \in Lists /\ worker.epoch > 0
  BY DEF WindowInv, WindowTypes, WaitsTrue, Answers
<1>2. CASE Install
  <2>1. installed' \in Lists
    BY <1>1, <1>2 DEF Install, Lists
  <2>. QED BY <1>1, <1>2, <2>1, WorkerStep DEF Install, Advances
<1>3. CASE Rescan
  <2>. DEFINE next == [worker EXCEPT !.generation = @ + 1]
  <2>1. next \in Answers /\ next.jobs = worker.jobs /\ next.epoch = worker.epoch
    BY <1>1 DEF Answers
  <2>2. worker' = Changed(next)
    BY <1>3 DEF Rescan
  <2>. HIDE DEF next
  <2>3. worker' \in Answers /\ worker'.epoch > 0 /\ Advances
    BY <2>1, <2>2, FoundChanges
  <2>. QED BY <1>1, <1>3, <2>3, WorkerStep DEF Rescan
<1>4. CASE Discover
  <2>0. PICK g \in Games : worker' = Changed([worker EXCEPT !.found[g] = installed[g]])
    BY <1>4 DEF Discover
  <2>. DEFINE next == [worker EXCEPT !.found[g] = installed[g]]
  <2>1. next \in Answers /\ next.jobs = worker.jobs /\ next.epoch = worker.epoch
    BY <1>1 DEF Answers, Lists
  <2>2. worker' = Changed(next)
    BY <2>0
  <2>. HIDE DEF next
  <2>3. worker' \in Answers /\ worker'.epoch > 0 /\ Advances
    BY <2>1, <2>2, FoundChanges
  <2>. QED BY <1>1, <1>4, <2>3, WorkerStep DEF Discover
<1>5. CASE Upkeep
  <2>1. PICK g \in Games : Enqueue([game |-> g, build |-> worker.found[g], op |-> "Compress"], worker.jobs)
    BY <1>5 DEF Upkeep
  <2>. DEFINE c == [game |-> g, build |-> worker.found[g], op |-> "Compress"]
  <2>2. c \in Commands
    BY <1>1 DEF Commands, Lists
  <2>. HIDE DEF c
  <2>3. worker' \in Answers /\ worker'.epoch > 0 /\ Advances /\ queued' \in Nat /\ queued' >= queued
    BY <1>1, <2>1, <2>2, EnqueueIs DEF c
  <2>. QED BY <1>1, <1>5, <2>3, WorkerStep DEF Upkeep
<1>6. CASE Restart
  <2>. DEFINE list == [i \in DOMAIN worker.jobs |->
                          [worker.jobs[i] EXCEPT !.phase = IF @ = "running" THEN "failed" ELSE @]]
  <2>1. worker' = Coordinator0(worker.epoch + 1, list)
    BY <1>6 DEF Restart
  <2>2. DOMAIN worker.jobs = 1 .. Len(worker.jobs) /\ Len(worker.jobs) \in Nat
    BY <1>1
  <2>3. \A i \in DOMAIN worker.jobs : worker.jobs[i] \in Jobs
    BY <1>1
  <2>4. \A i \in DOMAIN worker.jobs :
           /\ list[i] \in Jobs /\ list[i].id = worker.jobs[i].id
           /\ ~Active(worker.jobs[i]) => ~Active(list[i])
    BY <2>3 DEF Jobs, Active, Ended
  <2>5. DOMAIN list = DOMAIN worker.jobs
    OBVIOUS
  <2>6. list \in [1 .. Len(worker.jobs) -> Jobs]
    BY <2>2, <2>4
  <2>. HIDE DEF list
  <2>7. list \in Seq(Jobs)
    BY <2>2, <2>6
  <2>8. worker' \in Answers /\ worker'.epoch = worker.epoch + 1 /\ worker'.jobs = list
    BY <1>1, <2>1, <2>7, BlankAnswer DEF Coordinator0, Answers, NoAnswer
  <2>9. ~NoLater(worker', worker) /\ NoLater(worker, worker')
    BY <1>1, <2>8 DEF NoLater, Answers
  <2>10. Advances
    BY <2>4, <2>5, <2>7, <2>8, <2>9, InPlace DEF Advances
  <2>11. worker'.epoch > 0
    BY <1>1, <2>8 DEF Answers
  <2>. QED BY <1>1, <1>6, <2>8, <2>10, <2>11, WorkerStep DEF Restart
<1>. QED BY <1>2, <1>3, <1>4, <1>5, <1>6

\* `update' runs with a message.
LEMMA MessageStep ==
  ASSUME WindowInv, NEW w \in States, NEW sc \in {scan, NoScan}, NEW ba \in {batch, NoBatch},
         Waits(w, sc, ba), Shows(w, sc, ba), w.planned = window.planned,
         w.shown = window.shown \/ (w.shown \in Seen /\ ~Outdated(window, w.shown)),
         UNCHANGED <<installed, worker, records, queued>>, poll' \in {poll, NoAnswer}, orders' \subseteq orders
  PROVE  WindowInv' /\ ShownMoves
<1>1. /\ sc \in ScanTypes /\ ba \in BatchTypes /\ poll \in Answers /\ orders \in SUBSET Sent /\ queued \in Nat
      /\ scan.at \in Seen /\ batch.at \in Seen /\ window.shown \in Seen
  BY BlankAnswer DEF WindowInv, WindowTypes, ScanTypes, BatchTypes, Seen
<1>2. /\ window' \in States /\ scan' \in ScanTypes /\ batch' \in BatchTypes
      /\ Waits(window', scan', batch') /\ window'.analyse = {} /\ window'.ask = {}
      /\ window'.shown = w.shown /\ window'.planned = w.planned
      /\ scan'.at \in {sc.at, NoAnswer} /\ batch'.at \in {ba.at, NoAnswer}
  BY <1>1, ShowsIs DEF ShowsAs
<1>3. WindowTypes'
  BY <1>1, <1>2, BlankAnswer DEF WindowInv, WindowTypes, ScanTypes, BatchTypes
<1>4. WaitsTrue'
  BY <1>2 DEF WindowInv, WaitsTrue
<1>5. sc.at \in Seen \cup {NoAnswer} /\ ba.at \in Seen \cup {NoAnswer}
  BY <1>1 DEF NoScan, NoBatch
<1>6. Held
  <2>1. {poll', batch'.at, scan'.at, window'.shown} \subseteq Seen \cup {NoAnswer}
    BY <1>1, <1>2, <1>5 DEF Seen
  <2>2. \A o \in orders' \cup window'.planned : o.at \in Seen
    BY <1>2 DEF Seen
  <2>. QED BY <2>1, <2>2 DEF Held, Seen
<1>7. ShownMoves
  BY <1>2 DEF ShownMoves
<1>. QED BY <1>1, <1>3, <1>4, <1>6, <1>7, Lands DEF Advances

\* A thread goes on without a message.
LEMMA ThreadStep ==
  ASSUME WindowInv, WindowTypes', Advances, worker'.epoch > 0, queued' >= queued, Held,
         window'.shown = window.shown, window'.ask = window.ask, window'.analyse = window.analyse,
         window'.scanning = window.scanning, window'.queuing = window.queuing,
         (scan'.stage # "none") = (scan.stage # "none"), (batch' # NoBatch) = (batch # NoBatch)
  PROVE  WindowInv' /\ ShownMoves
<1>1. WaitsTrue'
  BY DEF WindowInv, WaitsTrue, Waits
<1>. QED BY <1>1, Lands DEF ShownMoves

\* What the invariant gives every step.
LEMMA Given ==
  ASSUME WindowInv
  PROVE  /\ window \in States /\ scan \in ScanTypes /\ batch \in BatchTypes /\ poll \in Answers
         /\ orders \in SUBSET Sent /\ worker \in Answers /\ queued \in Nat /\ window.planned \in SUBSET Sent
         /\ window.list \in Lists /\ records \in Lists
         /\ Waits(window, scan, batch) /\ window.analyse = {} /\ worker.epoch > 0
         /\ window.ask # {} => scan.stage = "none"
         /\ {poll, batch.at, scan.at, window.shown} \subseteq Seen /\ \A o \in orders \cup window.planned : o.at \in Seen
BY DEF WindowInv, WindowTypes, WaitsTrue, ScanTypes, BatchTypes, Seen, States

LEMMA MessagesKeep ==
  ASSUME WindowInv, Open \/ PollDelivered \/ ScanDelivered \/ ScanLost \/ BatchRefused \/ BatchDelivered \/ OrderDelivered
  PROVE  WindowInv' /\ ShownMoves
<1>1. CASE Open
  BY <1>1, Given, MessageStep DEF Open
<1>2. CASE PollDelivered
  <2>. DEFINE w == Applied(window, poll)
  <2>1. /\ w \in States /\ Waits(w, scan, batch) /\ w.planned = window.planned
        /\ w.shown = window.shown \/ (w.shown = poll /\ ~Outdated(window, poll))
    BY Given, AppliedIs
  <2>2. Shows(w, scan, batch) /\ poll' = NoAnswer /\ UNCHANGED <<installed, worker, records, orders, queued>>
    BY <1>2 DEF PollDelivered
  <2>. HIDE DEF w
  <2>. QED BY <2>1, <2>2, Given, MessageStep
<1>3. CASE ScanDelivered
  <2>. DEFINE w == Scanned(window, scan)
  <2>1. scan.stage = "read" /\ window.ask = {} /\ scan \in [stage : {"read"}, at : Answers, records : Lists]
    BY <1>3, Given DEF ScanDelivered, ScanTypes
  <2>2. w \in States /\ Waits(w, NoScan, batch) /\ ShowsAs(window, w)
    BY <2>1, Given, ScannedIs
  <2>3. Shows(w, NoScan, batch) /\ UNCHANGED <<installed, worker, records, poll, orders, queued>>
    BY <1>3 DEF ScanDelivered
  <2>. HIDE DEF w
  <2>. QED BY <2>2, <2>3, Given, MessageStep DEF ShowsAs
<1>4. CASE ScanLost
  <2>. DEFINE w == ScanFailed(window)
  <2>1. scan.stage = "asked" /\ window.ask = {}
    BY <1>4, Given DEF ScanLost
  <2>2. w \in States /\ Waits(w, NoScan, batch) /\ ShowsAs(window, w)
    BY <2>1, Given, ScanFailedIs
  <2>3. Shows(w, NoScan, batch) /\ UNCHANGED <<installed, worker, records, poll, orders, queued>>
    BY <1>4 DEF ScanLost
  <2>. HIDE DEF w
  <2>. QED BY <2>2, <2>3, Given, MessageStep DEF ShowsAs
<1>. DEFINE v == [window EXCEPT !.queuing = FALSE]
<1>5. v \in States /\ Waits(v, scan, NoBatch) /\ v.shown = window.shown /\ v.planned = window.planned
  BY Given DEF States, Waits
<1>6. CASE BatchRefused
  <2>1. Shows(v, scan, NoBatch) /\ UNCHANGED <<installed, worker, records, poll, orders, queued>>
    BY <1>6 DEF BatchRefused
  <2>. HIDE DEF v
  <2>. QED BY <1>5, <2>1, Given, MessageStep
<1>7. CASE BatchDelivered
  <2>. DEFINE w == Applied(v, batch.at)
  <2>1. Shows(w, scan, NoBatch) /\ UNCHANGED <<installed, worker, records, poll, orders, queued>>
    BY <1>7 DEF BatchDelivered
  <2>2. batch.at \in Answers /\ batch.at \in Seen
    BY Given DEF BatchTypes
  <2>. HIDE DEF v
  <2>3. /\ w \in States /\ Waits(w, scan, NoBatch) /\ w.planned = v.planned
        /\ w.shown = v.shown \/ (w.shown = batch.at /\ ~Outdated(v, batch.at))
    BY <1>5, <2>2, AppliedIs
  <2>4. w.shown = window.shown \/ (w.shown \in Seen /\ ~Outdated(window, w.shown))
    BY <1>5, <2>2, <2>3 DEF Outdated
  <2>. HIDE DEF w
  <2>. QED BY <1>5, <2>1, <2>3, <2>4, Given, MessageStep
<1>8. CASE OrderDelivered
  <2>1. PICK o \in orders : /\ orders' = orders \ {o} /\ Shows(Applied(window, o.at), scan, batch)
                            /\ UNCHANGED <<installed, worker, records, poll, queued>>
    BY <1>8 DEF OrderDelivered
  <2>. DEFINE w == Applied(window, o.at)
  <2>2. o.at \in Answers /\ o.at \in Seen
    BY Given DEF Sent
  <2>3. /\ w \in States /\ Waits(w, scan, batch) /\ w.planned = window.planned
        /\ w.shown = window.shown \/ (w.shown = o.at /\ ~Outdated(window, o.at))
    BY <2>2, Given, AppliedIs
  <2>4. Shows(w, scan, batch) /\ orders' \subseteq orders
    BY <2>1
  <2>. HIDE DEF w
  <2>. QED BY <2>1, <2>2, <2>3, <2>4, Given, MessageStep
<1>. QED BY <1>1, <1>2, <1>3, <1>4, <1>6, <1>7, <1>8

LEMMA AsksKeep ==
  ASSUME WindowInv, PollAnswered \/ ScanRead \/ BatchSent
  PROVE  WindowInv' /\ ShownMoves
<1>1. CASE PollAnswered
  <2>1. WindowTypes' /\ Held
    BY <1>1, Given DEF PollAnswered, WindowInv, WindowTypes, Held, Seen
  <2>. QED BY <1>1, <2>1, Given, ThreadStep DEF PollAnswered, Advances
<1>2. CASE ScanRead
  <2>1. scan' = [stage |-> "read", at |-> worker, records |-> records] /\ scan.stage = "asked" /\ worker' = worker
        /\ UNCHANGED <<installed, worker, records, window, poll, batch, orders, queued>>
    BY <1>2 DEF ScanRead
  <2>2. WindowTypes'
    BY <2>1, Given DEF WindowInv, WindowTypes
  <2>3. Held
    BY <2>1 DEF Held, Seen
  <2>. QED BY <2>1, <2>2, <2>3, Given, ThreadStep DEF Advances
<1>3. CASE BatchSent
  <2>1. /\ batch.todo # << >> /\ Enqueue(Head(batch.todo), worker.jobs)
        /\ batch' = [todo |-> Tail(batch.todo), at |-> worker']
        /\ UNCHANGED <<installed, records, window, poll, scan, orders>>
    BY <1>3 DEF BatchSent
  <2>2. batch.todo \in Seq(Commands) /\ worker.jobs \in Seq(Jobs)
    BY Given DEF BatchTypes, Answers
  <2>3. Head(batch.todo) \in Commands /\ Tail(batch.todo) \in Seq(Commands)
    BY <2>1, <2>2
  <2>4. worker' \in Answers /\ worker'.epoch > 0 /\ Advances /\ queued' \in Nat /\ queued' >= queued
    BY <2>1, <2>2, <2>3, EnqueueIs
  <2>5. WindowTypes'
    BY <2>1, <2>3, <2>4 DEF WindowInv, WindowTypes
  <2>6. Held
    BY <2>1 DEF Held, Seen
  <2>7. batch # NoBatch /\ batch' # NoBatch
    <3>1. batch'.at = worker' /\ worker'.epoch # 0
      BY <2>1, <2>4 DEF Answers
    <3>. QED BY <2>1, <3>1 DEF NoBatch, NoAnswer
  <2>. QED BY <2>1, <2>4, <2>5, <2>6, <2>7, ThreadStep
<1>. QED BY <1>1, <1>2, <1>3

\* Orders and plans come and go; what they hold was held, or is the coordinator's answer.
LEMMA OrdersStep ==
  ASSUME WindowInv, UNCHANGED <<installed, records, poll, scan, batch>>,
         orders' \in SUBSET Sent, window' \in States,
         \A o \in orders' \cup window'.planned : o.at \in Seen \cup {worker', NoAnswer},
         \/ window' = window \/ window' = [window EXCEPT !.planned = window'.planned],
         \/ worker' = worker /\ queued' = queued
         \/ worker' \in Answers /\ worker'.epoch > 0 /\ Advances /\ queued' \in Nat /\ queued' >= queued
  PROVE  WindowInv' /\ ShownMoves
<1>1. /\ window'.shown = window.shown /\ window'.ask = window.ask /\ window'.analyse = window.analyse
      /\ window'.scanning = window.scanning /\ window'.queuing = window.queuing
  BY Given DEF States
<1>2. worker' \in Answers /\ worker'.epoch > 0 /\ Advances /\ queued' \in Nat /\ queued' >= queued
  BY Given DEF Advances
<1>3. WindowTypes'
  BY <1>2 DEF WindowInv, WindowTypes
<1>4. Held
  BY <1>1, Given DEF Held, Seen
<1>. QED BY <1>1, <1>2, <1>3, <1>4, ThreadStep

LEMMA OrderOneKeeps == ASSUME WindowInv, OrderOne PROVE WindowInv' /\ ShownMoves
<1>1. UNCHANGED <<installed, worker, records, window, poll, scan, batch, queued>>
  BY DEF OrderOne
<1>2. PICK g \in Listed(window) :
        orders' = orders \cup {[todo |-> <<[game |-> g, build |-> window.list[g], op |-> "Compress"]>>,
                                stage |-> "planning", at |-> NoAnswer]}
  BY DEF OrderOne
<1>. DEFINE c == [game |-> g, build |-> window.list[g], op |-> "Compress"]
            o == [todo |-> <<c>>, stage |-> "planning", at |-> NoAnswer]
<1>3. c \in Commands
  BY Given DEF Listed, Commands, Lists
<1>4. o \in Sent /\ o.at = NoAnswer
  BY <1>3, BlankAnswer DEF Sent
<1>5. orders' = orders \cup {o}
  BY <1>2
<1>. HIDE DEF o
<1>6. orders' \in SUBSET Sent /\ \A p \in orders' \cup window'.planned : p.at \in Seen \cup {worker', NoAnswer}
  BY <1>1, <1>4, <1>5, Given
<1>. QED BY <1>1, <1>6, Given, OrdersStep

LEMMA OrderLibraryKeeps == ASSUME WindowInv, OrderLibrary PROVE WindowInv' /\ ShownMoves
<1>1. UNCHANGED <<installed, worker, records, window, poll, scan, batch, queued>>
  BY DEF OrderLibrary
<1>. DEFINE chosen == {g \in Listed(window) : ~Compressed(window, g) /\ Estimate(window, g) = "high"}
            todo == SetToSeq({[game |-> g, build |-> window.list[g], op |-> "Compress"] : g \in chosen})
            o == [todo |-> todo, stage |-> "sending", at |-> NoAnswer]
<1>2. orders' = orders \cup {o}
  BY DEF OrderLibrary
<1>3. chosen \in SUBSET Games
  BY DEF Listed
<1>. HIDE DEF chosen
<1>4. todo \in Seq(Commands)
  BY <1>3, Given, CommandsOf
<1>. HIDE DEF todo
<1>5. o \in Sent /\ o.at = NoAnswer
  BY <1>4, BlankAnswer DEF Sent
<1>. HIDE DEF o
<1>6. orders' \in SUBSET Sent /\ \A p \in orders' \cup window'.planned : p.at \in Seen \cup {worker', NoAnswer}
  BY <1>1, <1>2, <1>5, Given
<1>. QED BY <1>1, <1>6, Given, OrdersStep

LEMMA SendingIs ==
  ASSUME NEW o \in Sent
  PROVE  [o EXCEPT !.stage = "sending"] \in Sent /\ [o EXCEPT !.stage = "sending"].at = o.at
BY DEF Sent

LEMMA PlansKeep == ASSUME WindowInv, Planned \/ ReviewPlan PROVE WindowInv' /\ ShownMoves
<1>1. UNCHANGED <<installed, worker, records, poll, scan, batch, queued>>
  BY DEF Planned, ReviewPlan
<1>2. CASE Planned
  <2>1. PICK o \in orders :
          \/ orders' = (orders \ {o}) \cup {[o EXCEPT !.stage = "sending"]} /\ window' = window
          \/ orders' = orders \ {o} /\ window' = [window EXCEPT !.planned = {o}]
    BY <1>2 DEF Planned
  <2>2. o \in Sent
    BY Given
  <2>. DEFINE p == [o EXCEPT !.stage = "sending"]
  <2>3. p \in Sent /\ p.at = o.at
    BY <2>2, SendingIs
  <2>. HIDE DEF p
  <2>4. CASE orders' = (orders \ {o}) \cup {p} /\ window' = window
    <3>1. orders' \in SUBSET Sent /\ \A q \in orders' \cup window'.planned : q.at \in Seen
      BY <2>3, <2>4, Given
    <3>. QED BY <1>1, <2>4, <3>1, Given, OrdersStep
  <2>5. CASE orders' = orders \ {o} /\ window' = [window EXCEPT !.planned = {o}]
    <3>1. window' \in States /\ window'.planned = {o}
      BY <2>2, <2>5, Given DEF States
    <3>2. orders' \in SUBSET Sent /\ \A q \in orders' \cup window'.planned : q.at \in Seen
      BY <2>5, <3>1, Given
    <3>. QED BY <1>1, <2>5, <3>1, <3>2, OrdersStep
  <2>. QED BY <2>1, <2>4, <2>5 DEF p
<1>3. CASE ReviewPlan
  <2>. DEFINE sends == {[o EXCEPT !.stage = "sending"] : o \in window.planned}
  <2>1. orders' \in {orders, orders \cup sends} /\ window' = [window EXCEPT !.planned = {}]
    BY <1>3 DEF ReviewPlan
  <2>2. \A p \in sends : p \in Sent /\ p.at \in Seen
    <3>1. \A o \in window.planned : o \in Sent /\ o.at \in Seen
      BY Given
    <3>2. \A o \in window.planned : [o EXCEPT !.stage = "sending"] \in Sent /\ [o EXCEPT !.stage = "sending"].at = o.at
      BY <3>1, SendingIs
    <3>. QED BY <3>1, <3>2
  <2>. HIDE DEF sends
  <2>3. window' \in States /\ window'.planned = {}
    BY <2>1, Given DEF States
  <2>4. orders' \in SUBSET Sent /\ \A q \in orders' \cup window'.planned : q.at \in Seen
    BY <2>1, <2>2, <2>3, Given
  <2>. QED BY <1>1, <2>1, <2>3, <2>4, OrdersStep
<1>. QED BY <1>2, <1>3

LEMMA OrderSentKeeps == ASSUME WindowInv, OrderSent PROVE WindowInv' /\ ShownMoves
<1>1. PICK o \in orders :
        /\ o.todo # << >> /\ Enqueue(Head(o.todo), Preempted)
        /\ orders' = (orders \ {o}) \cup {[o EXCEPT !.todo = Tail(@), !.at = worker']}
        /\ UNCHANGED <<installed, records, window, poll, scan, batch>>
  BY DEF OrderSent
<1>2. o \in Sent /\ o.todo \in Seq(Commands) /\ worker.jobs \in Seq(Jobs)
  BY Given DEF Sent, Answers
<1>3. Head(o.todo) \in Commands /\ Tail(o.todo) \in Seq(Commands)
  BY <1>1, <1>2
<1>. DEFINE before == Preempted
<1>4. \A i \in DOMAIN worker.jobs : worker.jobs[i] \in Jobs
  BY <1>2
<1>5. DOMAIN worker.jobs = 1 .. Len(worker.jobs) /\ Len(worker.jobs) \in Nat
  BY <1>2
<1>6. \A i \in DOMAIN worker.jobs :
         /\ before[i] \in Jobs /\ before[i].id = worker.jobs[i].id
         /\ ~Active(worker.jobs[i]) => ~Active(before[i])
  BY <1>4 DEF Preempted, Jobs, Active, Ended
<1>7. DOMAIN before = DOMAIN worker.jobs /\ before \in [1 .. Len(worker.jobs) -> Jobs]
  BY <1>5, <1>6 DEF Preempted
<1>. HIDE DEF before
<1>8. before \in Seq(Jobs)
  BY <1>5, <1>7
<1>9. worker' \in Answers /\ worker'.epoch > 0 /\ Advances /\ queued' \in Nat /\ queued' >= queued
  BY <1>1, <1>3, <1>6, <1>7, <1>8, EnqueueIs DEF before
<1>. DEFINE p == [o EXCEPT !.todo = Tail(@), !.at = worker']
<1>10. p \in Sent /\ p.at = worker'
  BY <1>2, <1>3, <1>9 DEF Sent
<1>. HIDE DEF p
<1>11. orders' = (orders \ {o}) \cup {p}
  BY <1>1 DEF p
<1>12. /\ orders' \in SUBSET Sent /\ window' = window
       /\ \A q \in orders' \cup window'.planned : q.at \in Seen \cup {worker', NoAnswer}
  BY <1>1, <1>10, <1>11, Given
<1>. QED BY <1>1, <1>9, <1>12, Given, OrdersStep

LEMMA OrderRefusedKeeps == ASSUME WindowInv, OrderRefused PROVE WindowInv' /\ ShownMoves
<1>1. UNCHANGED <<installed, worker, records, window, poll, scan, batch, queued>> /\ orders' \subseteq orders
  BY DEF OrderRefused
<1>2. orders' \in SUBSET Sent /\ \A q \in orders' \cup window'.planned : q.at \in Seen
  BY <1>1, Given
<1>. QED BY <1>1, <1>2, Given, OrdersStep

LEMMA TickKeeps == ASSUME WindowInv, Tick PROVE WindowInv' /\ ShownMoves
<1>1. UNCHANGED <<installed, worker, records, poll, scan, batch, orders, queued>>
  BY DEF Tick
<1>2. /\ window' \in States /\ ShowsAs(window, window') /\ window'.ask = window.ask
      /\ Waits(window', scan, batch) /\ window'.analyse = window.analyse
  <2>1. CASE \E g \in Listed(window) :
               window' = [window EXCEPT !.ticked = IF g \in @ THEN @ \ {g} ELSE @ \cup {g}]
    <3>1. PICK g \in Listed(window) :
               window' = [window EXCEPT !.ticked = IF g \in @ THEN @ \ {g} ELSE @ \cup {g}]
      BY <2>1
    <3>2. g \in Games
      BY DEF Listed
    <3>. QED BY <3>1, <3>2, Given DEF States, ShowsAs, Waits
  <2>2. CASE window' = CaptureOrder(window)
    <3>1. window' \in States /\ Waits(window', scan, batch) /\ ShowsAs(window, window') /\ window'.ask = window.ask
      BY <2>2, Given, CaptureIs
    <3>2. window'.analyse = window.analyse
      BY <2>2, Given DEF CaptureOrder, States
    <3>. QED BY <3>1, <3>2
  <2>. QED BY <2>1, <2>2 DEF Tick
<1>3. WindowTypes'
  BY <1>1, <1>2 DEF WindowInv, WindowTypes
<1>4. Held
  BY <1>1, <1>2, Given DEF Held, Seen, ShowsAs
<1>5. WaitsTrue'
  BY <1>1, <1>2, Given DEF WaitsTrue
<1>. QED BY <1>1, <1>2, <1>3, <1>4, <1>5, Given, Lands DEF Advances, ShownMoves, ShowsAs

LEMMA WindowStep == ASSUME WindowInv, [WindowNext]_windows PROVE WindowInv' /\ ShownMoves
<1>1. CASE UNCHANGED windows
  BY <1>1, WorkerStep, Given DEF windows, WindowInv, WindowTypes, Advances
<1>. QED BY <1>1, BeginKeeps, FinishKeeps, WorldKeeps, MessagesKeep, AsksKeep, OrderOneKeeps, OrderLibraryKeeps,
            PlansKeep, OrderSentKeeps, OrderRefusedKeeps, TickKeeps
         DEF WindowNext, Threads, Polls, Scans, Batches, Orders, User, Work, World

LEMMA WindowInitInv == WindowInit => WindowInv
<1>1. SUFFICES ASSUME WindowInit PROVE WindowInv
  OBVIOUS
<1>2. /\ worker = Coordinator0(1, << >>) /\ poll = NoAnswer /\ scan = NoScan /\ batch = NoBatch /\ orders = {}
      /\ window = [NewWindow EXCEPT !.scanning = TRUE, !.ask = {"scan"}]
      /\ queued = 0 /\ records = Nothing /\ installed = [g \in Games |-> 1]
  BY <1>1 DEF WindowInit
<1>3. Nothing \in Lists /\ installed \in Lists /\ << >> \in Seq(Jobs)
  BY <1>2, WindowAssumption DEF Nothing, Lists
<1>4. worker \in Answers /\ worker.epoch = 1 /\ worker.revision = 0 /\ worker.jobs = << >>
  BY <1>2, <1>3 DEF Coordinator0, Answers
<1>5. /\ NewWindow \in States /\ NewWindow.shown = NoAnswer /\ NewWindow.planned = {}
      /\ NewWindow.analyse = {} /\ NewWindow.queuing = FALSE
  BY <1>3, BlankAnswer DEF NewWindow, States
<1>6. /\ window \in States /\ window.shown = NoAnswer /\ window.planned = {} /\ window.analyse = {}
      /\ window.queuing = FALSE /\ window.scanning = TRUE /\ window.ask = {"scan"}
  <2>. HIDE DEF NewWindow
  <2>. QED BY <1>2, <1>5 DEF States
<1>7. WindowTypes
  BY <1>2, <1>3, <1>4, <1>6, BlankAnswer DEF WindowTypes, ScanTypes, BatchTypes
<1>8. WaitsTrue
  <2>1. scan.stage = "none" /\ batch = NoBatch /\ window.ask # {} /\ worker.epoch > 0
    BY <1>2, <1>4, <1>6 DEF NoScan
  <2>2. window.scanning = (scan.stage # "none" \/ window.ask # {})
    BY <1>6, <2>1
  <2>3. window.queuing = (batch # NoBatch \/ window.analyse # {})
    BY <1>6, <2>1
  <2>. QED BY <1>6, <2>1, <2>2, <2>3 DEF WaitsTrue, Waits
<1>9. Seen = {NoAnswer} /\ NoAnswer.jobs = << >> /\ NoAnswer.epoch = 0 /\ NoAnswer.revision = 0
  BY <1>2, <1>6 DEF Seen, NoScan, NoBatch, NoAnswer
<1>10. SeenTrue
  <2>1. \A s \in Seen \cup {worker} : s.jobs = << >> /\ DOMAIN s.jobs = {} /\ NoLater(s, worker)
    BY <1>4, <1>9 DEF NoLater
  <2>2. \A s \in Seen \cup {worker} : \A t \in Seen \cup {worker} : Agree(s, t)
    BY <2>1 DEF Agree
  <2>. QED BY <2>1, <2>2 DEF SeenTrue, Unique
<1>. QED BY <1>7, <1>8, <1>10 DEF WindowInv

\* What the window holds fits, and it waits for a scan or an answer exactly when one is
\* under way, for any games, builds, jobs and numbers of events (app.rs:1222, 1510).
THEOREM WindowFits == WindowSpec => []WindowOK
<1>1. ASSUME WindowInv PROVE WindowOK
  <2>1. {installed, worker.found} \subseteq Lists /\ records \in Lists /\ window \in States
    BY <1>1 DEF WindowInv, WindowTypes, Answers
  <2>2. window.list \in Lists /\ window.place \in [Games -> 0 .. 3] /\ window.ticked \subseteq Games
    BY <2>1 DEF States
  <2>3. /\ window.scanning = (scan.stage # "none" \/ window.ask # {})
        /\ window.queuing = (batch # NoBatch) /\ window.analyse = {}
    BY <1>1 DEF WindowInv, WaitsTrue, Waits
  <2>. QED BY <2>1, <2>2, <2>3 DEF WindowOK, Lists
<1>. QED BY <1>1, WindowInitInv, WindowStep, PTL DEF WindowSpec

\* A job that was shown as ended is not shown as active again, in whatever order the answers
\* arrive and however often the coordinator is restarted (app.rs:1577).
THEOREM EndedStaysEver == WindowSpec => EndedStays
<1>1. ASSUME WindowInv, ShownMoves
      PROVE  \A i \in DOMAIN window.shown.jobs : \A j \in DOMAIN window'.shown.jobs :
                window.shown.jobs[i].id = window'.shown.jobs[j].id /\ ~Active(window.shown.jobs[i])
                => ~Active(window'.shown.jobs[j])
  <2>. DEFINE s == window.shown
              t == window'.shown
  <2>1. s \in Seen /\ t \in Seen /\ s \in Answers /\ t \in Answers /\ (t = s \/ ~Outdated(window, t))
    BY <1>1, SeenTyped, Given DEF ShownMoves, WindowInv
  <2>2. (s.epoch = 0 => s.jobs = << >>) /\ Agree(s, t)
    BY <1>1, <2>1 DEF WindowInv, SeenTrue
  <2>. HIDE DEF t
  <2>3. s.epoch = 0 \/ NoLater(s, t)
    BY <2>1 DEF Outdated, NoLater, Answers
  <2>. HIDE DEF s
  <2>4. CASE s.jobs = << >>
    BY <2>4 DEF s, t
  <2>5. CASE NoLater(s, t)
    BY <2>2, <2>5 DEF Agree, s, t
  <2>. QED BY <2>2, <2>3, <2>4, <2>5
<1>2. ASSUME WindowInv, [WindowNext]_windows
      PROVE  [\A i \in DOMAIN window.shown.jobs : \A j \in DOMAIN window'.shown.jobs :
                window.shown.jobs[i].id = window'.shown.jobs[j].id /\ ~Active(window.shown.jobs[i])
                => ~Active(window'.shown.jobs[j])]_windows
  BY <1>1, <1>2, WindowStep
<1>. QED BY <1>2, WindowInitInv, WindowStep, PTL DEF WindowSpec, EndedStays

-----------------------------------------------------------------------------
(***************************************************************************)
(* The copies of the program: the calls a request made, and what its       *)
(* command came to.                                                        *)
(***************************************************************************)
ExStages == {"idle", "connect", "waiting", "sent", "answered", "unlocking", "holding", "cut"}
ExCalls  == [command : {"work", "restart", "snapshot"}, may : BOOLEAN]

ExTypes ==
    /\ calls \in [Clients -> Seq(ExCalls)] /\ stage \in [Clients -> ExStages]
    /\ reply \in [Clients -> [version : Nat, ok : BOOLEAN]]
    /\ asked \in [Clients -> {"none", "work", "restart"}]
    /\ done \in [Clients -> Nat] /\ outcome \in [Clients -> {"none", "ok", "failed"}]
    /\ server.version \in Nat

\* A request's own command is the lowest of its calls, and the only one that works.
CallsTrue(c) ==
    /\ (stage[c] = "idle") = (calls[c] = << >>)
    /\ \A i \in 2 .. Len(calls[c]) : calls[c][i].command # "work"
    /\ calls[c] # << >> => (calls[c][1].command = "work") = (asked[c] = "work")
    /\ stage[c] \in {"unlocking", "holding"} => Top(c).command = "restart"

\* The answer to the command that was carried out ends its request.
Carried(c) ==
    /\ calls[c] # << >> /\ Top(c).command = "work" /\ stage[c] = "answered"
    /\ reply[c].ok /\ reply[c].version = VersionOf[c]
DoneTrue(c) ==
    /\ done[c] = IF Carried(c) \/ (outcome[c] = "ok" /\ asked[c] = "work") THEN 1 ELSE 0
    /\ outcome[c] # "none" => stage[c] = "idle"
    /\ calls[c] # << >> /\ Top(c).command = "work" /\ stage[c] = "answered" /\ reply[c].ok => Carried(c)

ExInv == ExTypes /\ \A c \in Clients : CallsTrue(c) /\ DoneTrue(c)

\* What a step does to one client, and leaves of another.
Same(d) ==
    /\ calls'[d] = calls[d] /\ reply'[d] = reply[d] /\ asked'[d] = asked[d]
    /\ done'[d] = done[d] /\ outcome'[d] = outcome[d]
    /\ stage'[d] = stage[d] \/ (stage[d] = "sent" /\ stage'[d] = "cut")
CallGood(d) == CallsTrue(d) /\ DoneTrue(d)

LEMMA SameKeeps ==
  ASSUME ExInv, NEW d \in Clients, Same(d)
  PROVE  CallGood(d)'
<1>1. CallsTrue(d) /\ DoneTrue(d)
  BY DEF ExInv
<1>2. CallsTrue(d)'
  BY <1>1 DEF CallsTrue, Same, Top
<1>3. Carried(d)' = Carried(d)
  BY DEF Carried, Same, Top
<1>4. DoneTrue(d)'
  BY <1>1, <1>3 DEF DoneTrue, Same, Top, Carried
<1>. QED BY <1>2, <1>4 DEF CallGood

LEMMA ExInvInit == ExchangeInit => ExInv
<1>1. SUFFICES ASSUME ExchangeInit PROVE ExInv
  OBVIOUS
<1>2. ExTypes
  BY <1>1, ExchangeAssumption DEF ExchangeInit, ExTypes, ExStages, ExCalls, NoReply
<1>3. ASSUME NEW c \in Clients PROVE CallsTrue(c) /\ DoneTrue(c)
  <2>1. /\ stage[c] = "idle" /\ calls[c] = << >> /\ done[c] = 0 /\ outcome[c] = "none"
        /\ Len(calls[c]) = 0
    BY <1>1 DEF ExchangeInit
  <2>. QED BY <2>1 DEF CallsTrue, DoneTrue, Carried
<1>. QED BY <1>2, <1>3 DEF ExInv

LEMMA AppendIs ==
  ASSUME NEW S, NEW q \in Seq(S), NEW e \in S
  PROVE  /\ Append(q, e) \in Seq(S) /\ Len(Append(q, e)) = Len(q) + 1 /\ Append(q, e)[Len(q) + 1] = e
         /\ \A i \in 1 .. Len(q) : Append(q, e)[i] = q[i]
OBVIOUS

LEMMA LowerIs ==
  ASSUME NEW S, NEW q \in Seq(S), q # << >>
  PROVE  /\ Len(q) \in Nat \ {0} /\ \A i \in 1 .. Len(q) : q[i] \in S
         /\ SubSeq(q, 1, Len(q) - 1) \in Seq(S) /\ Len(SubSeq(q, 1, Len(q) - 1)) = Len(q) - 1
         /\ \A i \in 1 .. Len(q) - 1 : SubSeq(q, 1, Len(q) - 1)[i] = q[i]
<1>1. Len(q) \in Nat \ {0} /\ \A i \in 1 .. Len(q) : q[i] \in S
  OBVIOUS
<1>. DEFINE n == Len(q) - 1
            r == SubSeq(q, 1, n)
<1>2. n \in Nat /\ 1 \in Int /\ n \in Int /\ n <= Len(q) /\ \A i \in 1 .. n : q[i] \in S
  BY <1>1
<1>. HIDE DEF n
<1>5. /\ r \in Seq(S) /\ Len(r) = (IF 1 <= n THEN n - 1 + 1 ELSE 0)
      /\ \A i \in 1 .. n - 1 + 1 : r[i] = q[1 + i - 1]
  BY <1>2, SubSeqProperties
<1>. HIDE DEF r
<1>3. r \in Seq(S) /\ Len(r) = n
  BY <1>2, <1>5
<1>4. \A i \in 1 .. n : r[i] = q[i]
  BY <1>2, <1>5
<1>. QED BY <1>1, <1>3, <1>4 DEF n, r

\* The calls of a client: what is at the top, and what is below it.
LEMMA TopIs ==
  ASSUME ExTypes, NEW c \in Clients, calls[c] # << >>
  PROVE  /\ Len(calls[c]) \in Nat \ {0} /\ Top(c) \in ExCalls /\ Top(c) = calls[c][Len(calls[c])]
         /\ \A i \in 1 .. Len(calls[c]) : calls[c][i] \in ExCalls
         /\ Below(c) \in Seq(ExCalls) /\ Len(Below(c)) = Len(calls[c]) - 1
         /\ \A i \in 1 .. Len(Below(c)) : Below(c)[i] = calls[c][i]
<1>. DEFINE s == calls[c]
<1>1. s \in Seq(ExCalls) /\ s # << >>
  BY DEF ExTypes
<1>. HIDE DEF s
<1>2. /\ Len(s) \in Nat \ {0} /\ \A i \in 1 .. Len(s) : s[i] \in ExCalls
      /\ SubSeq(s, 1, Len(s) - 1) \in Seq(ExCalls) /\ Len(SubSeq(s, 1, Len(s) - 1)) = Len(s) - 1
      /\ \A i \in 1 .. Len(s) - 1 : SubSeq(s, 1, Len(s) - 1)[i] = s[i]
  BY <1>1, LowerIs
<1>. QED BY <1>2 DEF s, Top, Below

LEMMA AskKeeps == ASSUME ExInv, NEW c \in Clients, Ask(c) PROVE ExInv'
<1>1. PICK command \in {"work", "restart"} :
        /\ calls' = [calls EXCEPT ![c] = <<Call(command, TRUE)>>]
        /\ asked' = [asked EXCEPT ![c] = command]
  BY DEF Ask
<1>2. /\ stage' = [stage EXCEPT ![c] = "connect"] /\ done' = [done EXCEPT ![c] = 0]
      /\ outcome' = [outcome EXCEPT ![c] = "none"] /\ reply' = reply /\ server' = server
  BY DEF Ask
<1>. DEFINE list == <<Call(command, TRUE)>>
<1>3. /\ list \in Seq(ExCalls) /\ Len(list) = 1 /\ list # << >> /\ list[1].command = command
  BY DEF ExCalls, Call
<1>. HIDE DEF list
<1>4. ExTypes'
  BY <1>1, <1>2, <1>3 DEF ExInv, ExTypes, ExStages, list
<1>5. ASSUME NEW d \in Clients PROVE CallGood(d)'
  <2>1. CASE d # c
    <3>1. Same(d)
      BY <1>1, <1>2, <2>1 DEF Same, ExInv, ExTypes
    <3>. QED BY <3>1, SameKeeps
  <2>2. CASE d = c
    <3>1. /\ calls'[c] = list /\ asked'[c] = command /\ stage'[c] = "connect" /\ done'[c] = 0
          /\ outcome'[c] = "none"
      BY <1>1, <1>2 DEF ExInv, ExTypes, list
    <3>2. 2 .. 1 = {}
      OBVIOUS
    <3>. QED BY <1>3, <2>2, <3>1, <3>2 DEF CallGood, CallsTrue, DoneTrue, Carried
  <2>. QED BY <2>1, <2>2
<1>. QED BY <1>4, <1>5 DEF ExInv, CallGood

\* A client goes on from one stage to another, with the answer taken or dropped.
LEMMA MovesKeep ==
  ASSUME ExInv, NEW c \in Clients, NEW to \in ExStages \ {"idle", "answered"}, stage[c] # "idle", ~Carried(c),
         to \in {"unlocking", "holding"} => Top(c).command = "restart",
         stage' = [stage EXCEPT ![c] = to], calls' = calls,
         reply' = reply \/ reply' = [reply EXCEPT ![c] = NoReply],
         UNCHANGED <<server, asked, done, outcome>>
  PROVE  ExInv'
<1>1. ExTypes'
  <2>1. stage' \in [Clients -> ExStages]
    BY DEF ExInv, ExTypes
  <2>2. NoReply \in [version : Nat, ok : BOOLEAN]
    BY DEF NoReply
  <2>3. reply' \in [Clients -> [version : Nat, ok : BOOLEAN]]
    BY <2>2 DEF ExInv, ExTypes
  <2>. QED BY <2>1, <2>3 DEF ExInv, ExTypes
<1>2. ASSUME NEW d \in Clients PROVE CallGood(d)'
  <2>1. CASE d # c
    <3>1. Same(d)
      BY <2>1 DEF Same, ExInv, ExTypes
    <3>. QED BY <3>1, SameKeeps
  <2>2. CASE d = c
    <3>1. CallsTrue(c) /\ DoneTrue(c) /\ stage'[c] = to
      BY DEF ExInv, ExTypes
    <3>2. CallsTrue(c)'
      BY <3>1 DEF CallsTrue, Top
    <3>3. ~Carried(c)'
      BY <3>1 DEF Carried
    <3>4. done[c] = 0 /\ outcome[c] = "none"
      BY <3>1 DEF DoneTrue, ExInv, ExTypes
    <3>. QED BY <2>2, <3>1, <3>2, <3>3, <3>4 DEF CallGood, DoneTrue
  <2>. QED BY <2>1, <2>2
<1>. QED BY <1>1, <1>2 DEF ExInv, CallGood

LEMMA FailsKeeps ==
  ASSUME ExInv, NEW c \in Clients, Fails(c), stage[c] # "idle", ~Carried(c)
  PROVE  ExInv'
<1>1. /\ stage' = [stage EXCEPT ![c] = "idle"] /\ calls' = [calls EXCEPT ![c] = << >>]
      /\ outcome' = [outcome EXCEPT ![c] = "failed"] /\ reply' = [reply EXCEPT ![c] = NoReply]
      /\ UNCHANGED <<server, asked, done>>
  BY DEF Fails
<1>2. ExTypes'
  BY <1>1 DEF ExInv, ExTypes, NoReply, ExStages
<1>3. ASSUME NEW d \in Clients PROVE CallGood(d)'
  <2>1. CASE d # c
    <3>1. Same(d)
      BY <1>1, <2>1 DEF Same, ExInv, ExTypes
    <3>. QED BY <3>1, SameKeeps
  <2>2. CASE d = c
    <3>1. /\ stage'[c] = "idle" /\ calls'[c] = << >> /\ outcome'[c] = "failed" /\ done'[c] = done[c]
          /\ Len(calls'[c]) = 0
      BY <1>1 DEF ExInv, ExTypes
    <3>2. done[c] = 0
      BY DEF ExInv, DoneTrue
    <3>3. 2 .. 0 = {}
      OBVIOUS
    <3>. QED BY <2>2, <3>1, <3>2, <3>3 DEF CallGood, CallsTrue, DoneTrue, Carried
  <2>. QED BY <2>1, <2>2
<1>. QED BY <1>2, <1>3 DEF ExInv, CallGood

LEMMA ReplaceKeeps == ASSUME ExInv, NEW c \in Clients, Replace(c) PROVE ExInv'
<1>1. /\ stage' = [stage EXCEPT ![c] = "connect"]
      /\ calls' = [calls EXCEPT ![c] = Append(@, Call("restart", FALSE))]
      /\ reply' = [reply EXCEPT ![c] = NoReply]
      /\ UNCHANGED <<server, asked, done, outcome>>
      /\ stage[c] = "answered" /\ reply[c].version # VersionOf[c]
  BY DEF Replace, Older
<1>. DEFINE list == Append(calls[c], Call("restart", FALSE))
            n == Len(calls[c])
<1>2. calls[c] # << >> /\ CallsTrue(c) /\ DoneTrue(c) /\ ~Carried(c)
  BY <1>1 DEF ExInv, CallsTrue, Carried
<1>3. n \in Nat \ {0} /\ calls[c] \in Seq(ExCalls)
  BY <1>2, TopIs DEF ExInv, ExTypes
<1>4. /\ list \in Seq(ExCalls) /\ Len(list) = n + 1 /\ list[n + 1].command = "restart"
      /\ \A i \in 1 .. n : list[i] = calls[c][i]
  <2>1. Call("restart", FALSE) \in ExCalls /\ Call("restart", FALSE).command = "restart"
    BY DEF ExCalls, Call
  <2>. DEFINE e == Call("restart", FALSE)
              q == calls[c]
  <2>. HIDE DEF e, q
  <2>6. q \in Seq(ExCalls) /\ e \in ExCalls
    BY <1>3, <2>1 DEF e, q
  <2>2. /\ Append(q, e) \in Seq(ExCalls) /\ Len(Append(q, e)) = Len(q) + 1 /\ Append(q, e)[Len(q) + 1] = e
        /\ \A i \in 1 .. Len(q) : Append(q, e)[i] = q[i]
    BY <2>6, AppendIs
  <2>. QED BY <2>1, <2>2 DEF e, q
<1>5. /\ calls'[c] = list /\ stage'[c] = "connect" /\ done'[c] = done[c] /\ outcome'[c] = outcome[c]
      /\ asked'[c] = asked[c]
  BY <1>1 DEF ExInv, ExTypes
<1>6. ExTypes'
  BY <1>1, <1>4 DEF ExInv, ExTypes, NoReply, ExStages
<1>. HIDE DEF list, n
<1>7. ASSUME NEW d \in Clients PROVE CallGood(d)'
  <2>1. CASE d # c
    <3>1. Same(d)
      BY <1>1, <2>1 DEF Same, ExInv, ExTypes
    <3>. QED BY <3>1, SameKeeps
  <2>2. CASE d = c
    <3>1. list # << >> /\ list[1] = calls[c][1]
      BY <1>3, <1>4
    <3>2. \A i \in 2 .. Len(list) : list[i].command # "work"
      <4>1. TAKE i \in 2 .. Len(list)
      <4>2. i = n + 1 \/ i \in 2 .. n
        BY <1>3, <1>4
      <4>. QED BY <1>2, <1>3, <1>4, <4>2 DEF CallsTrue, n
    <3>3. CallsTrue(c)'
      BY <1>2, <1>5, <3>1, <3>2 DEF CallsTrue
    <3>4. ~Carried(c)'
      BY <1>5 DEF Carried
    <3>5. done[c] = 0 /\ outcome[c] = "none"
      BY <1>1, <1>2 DEF DoneTrue
    <3>. QED BY <1>5, <2>2, <3>3, <3>4, <3>5 DEF CallGood, DoneTrue
  <2>. QED BY <2>1, <2>2
<1>. QED BY <1>6, <1>7 DEF ExInv, CallGood

LEMMA ReopenKeeps == ASSUME ExInv, NEW c \in Clients, Reopen(c) PROVE ExInv'
<1>. DEFINE list == Append(Below(c), Call("snapshot", TRUE))
            n == Len(calls[c])
<1>1. /\ stage' = [stage EXCEPT ![c] = "connect"] /\ calls' = [calls EXCEPT ![c] = list]
      /\ UNCHANGED <<server, reply, asked, done, outcome>> /\ stage[c] = "holding"
  BY DEF Reopen
<1>2. calls[c] # << >> /\ CallsTrue(c) /\ DoneTrue(c) /\ Top(c).command = "restart" /\ ~Carried(c)
  BY <1>1 DEF ExInv, CallsTrue, Carried
<1>3. /\ n \in Nat \ {0} /\ Top(c) = calls[c][n] /\ Below(c) \in Seq(ExCalls) /\ Len(Below(c)) = n - 1
      /\ \A i \in 1 .. n - 1 : Below(c)[i] = calls[c][i]
  BY <1>2, TopIs DEF ExInv
<1>4. /\ list \in Seq(ExCalls) /\ Len(list) = n /\ list[n].command = "snapshot"
      /\ \A i \in 1 .. n - 1 : list[i] = calls[c][i]
  <2>1. Call("snapshot", TRUE) \in ExCalls /\ Call("snapshot", TRUE).command = "snapshot"
    BY DEF ExCalls, Call
  <2>. DEFINE e == Call("snapshot", TRUE)
              q == Below(c)
  <2>. HIDE DEF e, q, n
  <2>6. q \in Seq(ExCalls) /\ e \in ExCalls
    BY <1>3, <2>1 DEF e, q
  <2>2. /\ Append(q, e) \in Seq(ExCalls) /\ Len(Append(q, e)) = Len(q) + 1 /\ Append(q, e)[Len(q) + 1] = e
        /\ \A i \in 1 .. Len(q) : Append(q, e)[i] = q[i]
    BY <2>6, AppendIs
  <2>3. n \in Nat \ {0} /\ Len(q) = n - 1 /\ \A i \in 1 .. n - 1 : q[i] = calls[c][i]
    BY <1>3 DEF q
  <2>4. Len(q) + 1 = n
    BY <2>3
  <2>. QED BY <2>1, <2>2, <2>3, <2>4 DEF e, q
<1>5. /\ calls'[c] = list /\ stage'[c] = "connect" /\ done'[c] = done[c] /\ outcome'[c] = outcome[c]
      /\ asked'[c] = asked[c]
  BY <1>1 DEF ExInv, ExTypes
<1>. HIDE DEF list, n
<1>6. ExTypes'
  BY <1>1, <1>4 DEF ExInv, ExTypes, ExStages
<1>7. ASSUME NEW d \in Clients PROVE CallGood(d)'
  <2>1. CASE d # c
    <3>1. Same(d)
      BY <1>1, <2>1 DEF Same, ExInv, ExTypes
    <3>. QED BY <3>1, SameKeeps
  <2>2. CASE d = c
    <3>1. list # << >>
      BY <1>3, <1>4
    <3>2. \A i \in 2 .. Len(list) : list[i].command # "work"
      <4>1. TAKE i \in 2 .. Len(list)
      <4>2. i = n \/ (i \in 2 .. n /\ i \in 1 .. n - 1)
        BY <1>3, <1>4
      <4>. QED BY <1>2, <1>3, <1>4, <4>2 DEF CallsTrue, n
    <3>6. (list[1].command = "work") = (asked[c] = "work")
      <4>1. CASE n = 1
        BY <1>2, <1>3, <1>4, <4>1 DEF CallsTrue
      <4>2. CASE n # 1
        <5>1. 1 \in 1 .. n - 1
          BY <1>3, <4>2
        <5>. QED BY <1>2, <1>4, <5>1 DEF CallsTrue
      <4>. QED BY <4>1, <4>2
    <3>3. CallsTrue(c)'
      BY <1>2, <1>5, <3>1, <3>2, <3>6 DEF CallsTrue
    <3>4. ~Carried(c)'
      BY <1>5 DEF Carried
    <3>5. done[c] = 0 /\ outcome[c] = "none"
      BY <1>1, <1>2 DEF DoneTrue
    <3>. QED BY <1>5, <2>2, <3>3, <3>4, <3>5 DEF CallGood, DoneTrue
  <2>. QED BY <2>1, <2>2
<1>. QED BY <1>6, <1>7 DEF ExInv, CallGood

\* The call at the top of a list may no longer replace the coordinator.
LEMMA NoLongerMay ==
  ASSUME NEW q \in Seq(ExCalls), NEW m \in Nat \ {0}, Len(q) = m
  PROVE  /\ [q EXCEPT ![m].may = FALSE] \in Seq(ExCalls) /\ Len([q EXCEPT ![m].may = FALSE]) = m
         /\ \A i \in 1 .. m : [q EXCEPT ![m].may = FALSE][i].command = q[i].command
<1>. DEFINE e == [q[m] EXCEPT !.may = FALSE]
            r == [q EXCEPT ![m] = e]
<1>1. m \in 1 .. m /\ q \in [1 .. m -> ExCalls]
  OBVIOUS
<1>2. PICK x \in ExCalls : x = q[m]
  BY <1>1
<1>3. [x EXCEPT !.may = FALSE] \in ExCalls /\ [x EXCEPT !.may = FALSE].command = x.command
  BY DEF ExCalls
<1>4. e \in ExCalls /\ e.command = q[m].command
  BY <1>2, <1>3
<1>. HIDE DEF e
<1>5. r \in [1 .. m -> ExCalls] /\ \A i \in 1 .. m : r[i] = IF i = m THEN e ELSE q[i]
  BY <1>1, <1>4
<1>. HIDE DEF r
<1>6. r \in Seq(ExCalls) /\ Len(r) = m
  BY <1>5
<1>7. \A i \in 1 .. m : r[i].command = q[i].command
  BY <1>4, <1>5
<1>. QED BY <1>6, <1>7 DEF r, e

\* A call returns: the request ends, or the call that waited sends its command again.
LEMMA ReturnKeeps == ASSUME ExInv, NEW c \in Clients, Return(c) PROVE ExInv'
<1>. DEFINE n == Len(calls[c])
<1>1. /\ stage[c] = "answered" /\ reply[c].ok /\ Top(c).command # "restart"
      /\ reply' = [reply EXCEPT ![c] = NoReply] /\ UNCHANGED <<server, asked, done>>
  BY DEF Return
<1>2. calls[c] # << >> /\ CallsTrue(c) /\ DoneTrue(c)
  BY <1>1 DEF ExInv, CallsTrue
<1>3. /\ n \in Nat \ {0} /\ Top(c) = calls[c][n] /\ Below(c) \in Seq(ExCalls) /\ Len(Below(c)) = n - 1
      /\ \A i \in 1 .. n - 1 : Below(c)[i] = calls[c][i]
  BY <1>2, TopIs DEF ExInv
<1>4. outcome[c] = "none"
  BY <1>1, <1>2 DEF DoneTrue, ExInv, ExTypes
<1>. HIDE DEF n
<1>5. CASE Below(c) = << >>
  <2>1. /\ calls' = [calls EXCEPT ![c] = << >>] /\ stage' = [stage EXCEPT ![c] = "idle"]
        /\ outcome' = [outcome EXCEPT ![c] = "ok"]
    BY <1>5 DEF Return
  <2>2. n = 1 /\ Top(c) = calls[c][1]
    BY <1>3, <1>5
  <2>3. /\ stage'[c] = "idle" /\ calls'[c] = << >> /\ outcome'[c] = "ok" /\ done'[c] = done[c]
        /\ asked'[c] = asked[c] /\ Len(calls'[c]) = 0
    BY <1>1, <2>1 DEF ExInv, ExTypes
  <2>4. done[c] = IF asked[c] = "work" THEN 1 ELSE 0
    BY <1>1, <1>2, <1>4, <2>2 DEF CallsTrue, DoneTrue, Carried
  <2>5. ExTypes'
    BY <1>1, <2>1 DEF ExInv, ExTypes, ExStages, NoReply
  <2>6. 2 .. 0 = {}
    OBVIOUS
  <2>7. CallGood(c)'
    BY <2>3, <2>4, <2>6 DEF CallGood, CallsTrue, DoneTrue, Carried
  <2>8. ASSUME NEW d \in Clients, d # c PROVE CallGood(d)'
    <3>1. Same(d)
      BY <1>1, <2>1, <2>8 DEF Same, ExInv, ExTypes
    <3>. QED BY <3>1, SameKeeps
  <2>. QED BY <2>5, <2>7, <2>8 DEF ExInv, CallGood
<1>6. CASE Below(c) # << >>
  <2>. DEFINE below == Below(c)
              m == Len(below)
              list == [below EXCEPT ![m].may = FALSE]
  <2>1. /\ calls' = [calls EXCEPT ![c] = list] /\ stage' = [stage EXCEPT ![c] = "connect"]
        /\ outcome' = outcome
    BY <1>6 DEF Return
  <2>2. m \in Nat \ {0} /\ m = n - 1
    <3>. HIDE DEF below
    <3>1. below \in Seq(ExCalls) /\ below # << >> /\ Len(below) = n - 1
      BY <1>3, <1>6 DEF below
    <3>. QED BY <3>1
  <2>5. /\ list \in Seq(ExCalls) /\ Len(list) = m
        /\ \A i \in 1 .. m : list[i].command = below[i].command
    <3>1. below \in Seq(ExCalls) /\ Len(below) = m
      BY <1>3
    <3>. HIDE DEF below, m
    <3>. QED BY <2>2, <3>1, NoLongerMay
  <2>. HIDE DEF list, m, below
  <2>6. /\ calls'[c] = list /\ stage'[c] = "connect" /\ done'[c] = done[c] /\ outcome'[c] = outcome[c]
        /\ asked'[c] = asked[c]
    BY <1>1, <2>1 DEF ExInv, ExTypes
  <2>7. ExTypes'
    BY <1>1, <2>1, <2>5 DEF ExInv, ExTypes, ExStages, NoReply
  <2>8. /\ n \in Nat /\ list # << >>
        /\ \A i \in 1 .. m : list[i].command = calls[c][i].command
    <3>1. \A i \in 1 .. n - 1 : below[i] = calls[c][i]
      BY <1>3 DEF below
    <3>. QED BY <1>3, <2>2, <2>5, <3>1
  <2>9. CallsTrue(c)'
    <3>1. \A i \in 2 .. m : i \in 1 .. m /\ i \in 2 .. n
      BY <2>2, <2>8
    <3>4. m \in Nat \ {0}
      BY <2>2
    <3>2. 1 \in 1 .. m
      BY <3>4
    <3>3. /\ \A i \in 2 .. m : list[i].command # "work"
          /\ (list[1].command = "work") = (asked[c] = "work")
      BY <1>2, <2>8, <3>1, <3>2 DEF CallsTrue, n
    <3>. QED BY <2>5, <2>6, <2>8, <3>3 DEF CallsTrue
  <2>10. Top(c).command # "work"
    <3>1. n \in 2 .. n
      BY <1>3, <2>2
    <3>. QED BY <1>2, <1>3, <3>1 DEF CallsTrue, n
  <2>11. done[c] = 0
    BY <1>2, <1>4, <2>10 DEF DoneTrue, Carried
  <2>12. CallGood(c)'
    BY <1>4, <2>6, <2>9, <2>11 DEF CallGood, DoneTrue, Carried
  <2>13. ASSUME NEW d \in Clients, d # c PROVE CallGood(d)'
    <3>1. Same(d)
      BY <1>1, <2>1, <2>13 DEF Same, ExInv, ExTypes
    <3>. QED BY <3>1, SameKeeps
  <2>. QED BY <2>7, <2>12, <2>13 DEF ExInv, CallGood
<1>. QED BY <1>5, <1>6

LEMMA ServeKeeps == ASSUME ExInv, NEW c \in Clients, Serve(c) PROVE ExInv'
<1>1. stage[c] = "sent" /\ UNCHANGED <<calls, asked, outcome>>
  BY DEF Serve
<1>2. CallsTrue(c) /\ DoneTrue(c) /\ calls[c] # << >> /\ ~Carried(c) /\ outcome[c] = "none" /\ done[c] = 0
  BY <1>1 DEF ExInv, ExTypes, CallsTrue, DoneTrue, Carried
<1>3. PICK ok \in IF Accepts(c) THEN BOOLEAN ELSE {FALSE} :
        /\ reply' = [reply EXCEPT ![c] = [version |-> server.version, ok |-> ok]]
        /\ done' = [done EXCEPT ![c] = IF ok /\ Top(c).command = "work" THEN @ + 1 ELSE @]
        /\ stage' = IF ok /\ Top(c).command = "restart" THEN CutOff([stage EXCEPT ![c] = "answered"])
                    ELSE [stage EXCEPT ![c] = "answered"]
        /\ server' = IF ok /\ Top(c).command = "restart" THEN [server EXCEPT !.state = "leaving"] ELSE server
  BY DEF Serve
<1>4. ok \in BOOLEAN /\ (ok /\ Top(c).command = "work" => VersionOf[c] = server.version)
  BY <1>3 DEF Accepts
<1>5. ExTypes'
  <2>1. stage' \in [Clients -> ExStages]
    BY <1>3 DEF ExInv, ExTypes, ExStages, CutOff
  <2>2. reply' \in [Clients -> [version : Nat, ok : BOOLEAN]]
    <3>1. [version |-> server.version, ok |-> ok] \in [version : Nat, ok : BOOLEAN]
      BY <1>4 DEF ExInv, ExTypes
    <3>. QED BY <1>3, <3>1 DEF ExInv, ExTypes
  <2>3. done' \in [Clients -> Nat]
    BY <1>3 DEF ExInv, ExTypes
  <2>4. server'.version \in Nat
    <3>1. [server EXCEPT !.state = "leaving"].version = server.version
      OBVIOUS
    <3>. QED BY <1>3, <3>1 DEF ExInv, ExTypes
  <2>. QED BY <1>1, <2>1, <2>2, <2>3, <2>4 DEF ExInv, ExTypes
<1>6. /\ stage'[c] = "answered" /\ reply'[c] = [version |-> server.version, ok |-> ok]
      /\ done'[c] = IF ok /\ Top(c).command = "work" THEN 1 ELSE 0
  BY <1>2, <1>3 DEF ExInv, ExTypes, CutOff
<1>7. CallsTrue(c)'
  BY <1>1, <1>2, <1>6 DEF CallsTrue, Top
<1>8. Carried(c)' <=> ok /\ Top(c).command = "work"
  BY <1>1, <1>2, <1>4, <1>6 DEF Carried, Top
<1>9. CallGood(c)'
  BY <1>1, <1>2, <1>6, <1>7, <1>8 DEF CallGood, DoneTrue, Top
<1>10. ASSUME NEW d \in Clients, d # c PROVE CallGood(d)'
  <2>1. stage'[d] = stage[d] \/ (stage[d] = "sent" /\ stage'[d] = "cut")
    BY <1>3, <1>10 DEF ExInv, ExTypes, CutOff
  <2>2. Same(d)
    BY <1>1, <1>3, <1>10, <2>1 DEF Same, ExInv, ExTypes
  <2>. QED BY <2>2, SameKeeps
<1>. QED BY <1>5, <1>9, <1>10 DEF ExInv, CallGood

\* A step of the coordinator, which changes at most the stages it cuts off.
LEMMA ServerKeeps ==
  ASSUME ExInv, UNCHANGED <<calls, reply, asked, done, outcome>>, stage' = stage \/ stage' = CutOff(stage),
         server'.version \in Nat
  PROVE  ExInv'
<1>1. ExTypes'
  <2>1. stage' \in [Clients -> ExStages]
    BY DEF ExInv, ExTypes, ExStages, CutOff
  <2>. QED BY <2>1 DEF ExInv, ExTypes
<1>2. ASSUME NEW d \in Clients PROVE CallGood(d)'
  <2>1. stage'[d] = stage[d] \/ (stage[d] = "sent" /\ stage'[d] = "cut")
    BY DEF CutOff
  <2>. QED BY <2>1, SameKeeps DEF Same
<1>. QED BY <1>1, <1>2 DEF ExInv, CallGood

LEMMA ExStep == ASSUME ExInv, [ExchangeNext]_exchange PROVE ExInv'
<1>0. server.version \in Nat /\ stage \in [Clients -> ExStages]
  BY DEF ExInv, ExTypes
<1>1. ASSUME NEW c \in Clients, Connect(c) \/ WaitForSocket(c) \/ AwaitRelease(c) \/ Probe(c) PROVE ExInv'
  <2>1. CASE Connect(c)
    <3>1. \E to \in {"sent", "waiting"} : stage' = [stage EXCEPT ![c] = to]
      BY <2>1 DEF Connect
    <3>2. stage[c] = "connect" /\ UNCHANGED <<calls, reply, server, asked, done, outcome>> /\ ~Carried(c)
      BY <2>1 DEF Connect, Carried
    <3>. QED BY <3>1, <3>2, MovesKeep DEF ExStages
  <2>2. CASE WaitForSocket(c)
    <3>1. /\ stage[c] = "waiting" /\ UNCHANGED <<calls, reply, server, asked, done, outcome>> /\ ~Carried(c)
          /\ stage' = [stage EXCEPT ![c] = "sent"]
      BY <2>2 DEF WaitForSocket, Carried
    <3>. QED BY <3>1, MovesKeep DEF ExStages
  <2>3. CASE AwaitRelease(c)
    <3>1. /\ stage[c] = "answered" /\ UNCHANGED <<calls, server, asked, done, outcome>> /\ ~Carried(c)
          /\ stage' = [stage EXCEPT ![c] = "unlocking"] /\ reply' = [reply EXCEPT ![c] = NoReply]
          /\ Top(c).command = "restart"
      BY <2>3 DEF AwaitRelease, Carried
    <3>. QED BY <3>1, MovesKeep DEF ExStages
  <2>4. CASE Probe(c)
    <3>1. /\ stage[c] = "unlocking" /\ UNCHANGED <<calls, reply, server, asked, done, outcome>> /\ ~Carried(c)
          /\ stage' = [stage EXCEPT ![c] = "holding"] /\ Top(c).command = "restart"
      BY <2>4 DEF Probe, Carried, ExInv, CallsTrue
    <3>. QED BY <3>1, MovesKeep DEF ExStages
  <2>. QED BY <1>1, <2>1, <2>2, <2>3, <2>4
<1>2. ASSUME NEW c \in Clients, GiveUp(c) \/ Refused(c) PROVE ExInv'
  <2>1. Fails(c) /\ stage[c] # "idle"
    BY <1>2 DEF GiveUp, Refused
  <2>2. ~Carried(c)
    BY <1>2 DEF GiveUp, Refused, Carried, Older
  <2>. QED BY <2>1, <2>2, FailsKeeps
<1>3. ASSUME NEW c \in Clients, Start(c) PROVE ExInv'
  <2>1. BinaryOf[c] \in Nat
    BY ExchangeAssumption
  <2>2. server'.version \in Nat
    BY <1>0, <1>3, <2>1 DEF Start
  <2>. QED BY <1>3, <2>2, ServerKeeps DEF Start
<1>4. CASE Listen
  <2>1. server'.version = server.version
    BY <1>4 DEF Listen
  <2>. QED BY <1>0, <1>4, <2>1, ServerKeeps DEF Listen
<1>5. CASE Leave
  <2>1. server'.version = 0
    BY <1>5 DEF Leave
  <2>. QED BY <1>5, <2>1, ServerKeeps DEF Leave
<1>6. CASE Vanish
  <2>1. server'.version = 0
    BY <1>6 DEF Vanish
  <2>. QED BY <1>6, <2>1, ServerKeeps DEF Vanish
<1>7. CASE UNCHANGED exchange
  BY <1>0, <1>7, ServerKeeps DEF exchange
<1>. QED BY <1>1, <1>2, <1>3, <1>4, <1>5, <1>6, <1>7, AskKeeps, ReplaceKeeps, ReopenKeeps, ReturnKeeps,
            ServeKeeps DEF ExchangeNext, Client

\* A command is carried out at most once, and a request that says it succeeded was carried
\* out, for any copies of any versions, whatever coordinators come, leave and are replaced
\* meanwhile (client.rs:139-142, service.rs:1676).
THEOREM DoneOnceEver == ExchangeSpec => []DoneOnce
<1>1. ExInv => DoneOnce
  BY DEF ExInv, DoneTrue, DoneOnce
<1>. QED BY <1>1, ExInvInit, ExStep, PTL DEF ExchangeSpec

================================================================================

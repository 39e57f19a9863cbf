------------------------------- MODULE Sampling --------------------------------
(***************************************************************************)
(* What compression would free, from samples of the files.  The command    *)
(* line's estimate reads files on several threads that share one budget    *)
(* of bytes; the analysis of a job reads each file once for both storage   *)
(* modes; the totals become a recommendation.                              *)
(*                                                                         *)
(* A file's content is the quarters of a block that compression leaves,    *)
(* at the target level and at the level the mount applies.  Byte counts    *)
(* are small multiples of the constants.                                   *)
(***************************************************************************)
EXTENDS Integers, Sequences, FiniteSets, FiniteSetsExt

CONSTANTS
    Sector,         \* allocation unit
    Block,          \* what the native backend compresses at once
    FileBlocks,     \* most blocks sampled of a file, and of a container
    FileCap,        \* preview: most bytes sampled of a file
    Window,         \* preview: bytes of one sample of a larger file
    Threads,        \* threads of the pool
    Advised,        \* thresholds: the smallest saving, its share and the store's lead, in bps
    SampleTasks     \* bound: the estimates that are made

Kinds4 == 1..5      \* quarters left; 5 is content that grows

SampleFiles == [size : Nat, length : Nat, left : Kinds4, mountLeft : Kinds4, packLeft : Kinds4,
                mounted : BOOLEAN, probe : {"unknown", "none", "half", "all"},
                container : BOOLEAN, attempted : BOOLEAN, fails : BOOLEAN]

ASSUME SamplingAssumption ==
    /\ {Sector, Block, FileCap, Window} \subseteq Nat \ {0} /\ Sector < Block
    /\ FileBlocks.plain \in Nat /\ FileBlocks.container \in 1..FileBlocks.plain
    /\ IsFiniteSet(Threads) /\ Threads # {}
    /\ {Advised.saving, Advised.advantage} \subseteq Nat \ {0} /\ Advised.ratio \in Nat
    /\ SampleTasks \subseteq [kind : {"game", "preview"}, files : Seq(SampleFiles),
                              budget : Nat, stops : BOOLEAN]

VARIABLE sampling   \* the estimate at work

Least2(a, b) == IF a < b THEN a ELSE b
Most2(a, b)  == IF a < b THEN b ELSE a
Minus(a, b)  == Most2(a - b, 0)
Ceiling(n, d) == (n + d - 1) \div d
Total(f(_), S) == LET w == [x \in S |-> f(x)] IN MapThenSumSet(LAMBDA x : w[x], S)

(***************************************************************************)
(* What a block costs on disk.                                             *)
(***************************************************************************)
Rounded(n) == Ceiling(n, Sector) * Sector
Compressed(n, quarters) == Ceiling(n * quarters, 4)

\* The native backend keeps a block that saves a sector, the store one that saves more.
NativeCost(raw, left) == Rounded(IF left + Sector > raw THEN raw ELSE left)
PackCost(raw, left)   == Rounded(IF left + Sector >= raw THEN raw ELSE left)

\* Today's cost of a block: measured by the probe in halves, or guessed from the mount.
CostNow(file, raw) ==
    LET left == NativeCost(raw, Compressed(raw, file.mountLeft))
        whole == NativeCost(raw, raw)
    IN CASE file.probe = "unknown"  -> IF file.mounted THEN left ELSE whole
         [] file.probe = "none"     -> whole
         [] file.probe = "half"     -> (left + whole) \div 2
         [] file.probe = "all"      -> left

(***************************************************************************)
(* Where the samples lie.                                                  *)
(***************************************************************************)
SampleBlock(index, blocks, samples) ==
    IF samples <= 1 THEN (blocks - 1) \div 2 ELSE (index * (blocks - 1)) \div (samples - 1)
SampleOffset(index, size, window, samples) ==
    IF samples <= 1 THEN Minus(size, window) \div 2
    ELSE (index * Minus(size, window)) \div (samples - 1)

\* The samples of a file that may have shrunk since it was listed.
BlockSamples(file) ==
    LET blocks  == Most2(1, Ceiling(file.size, Block))
        samples == Least2(blocks, IF file.container THEN FileBlocks.container ELSE FileBlocks.plain)
        read(i) == LET offset == SampleBlock(i, blocks, samples) * Block
                   IN [at |-> offset, length |-> Least2(Block, Minus(Least2(file.size, file.length), offset))]
    IN {r \in {read(i) : i \in 0..(samples - 1)} : r.length > 0}

Whole(file, cap) == file.size <= cap
WindowOf(file, cap) == IF Whole(file, cap) THEN Most2(1, file.size) ELSE Least2(Window, Most2(1, cap))
WindowCount(file, cap) ==
    IF Whole(file, cap) THEN 1 ELSE Most2(1, cap \div WindowOf(file, cap))
WindowSamples(file, cap) ==
    LET window  == WindowOf(file, cap)
        read(i) == LET offset == SampleOffset(i, file.size, window, WindowCount(file, cap))
                   IN [at |-> offset, length |-> Least2(window, Minus(Least2(file.size, file.length), offset))]
    IN {r \in {read(i) : i \in 0..(WindowCount(file, cap) - 1)} : r.length > 0}

(***************************************************************************)
(* The estimate of one file: the samples' cost scaled up to its size.      *)
(***************************************************************************)
NoSample(file) == [size |-> file.size, sampled |-> 0, now |-> 0, native |-> 0, pack |-> 0]
AsStored(file) == [NoSample(file) EXCEPT !.now = file.size, !.native = file.size, !.pack = file.size]

Scaled(file, sampled, now, native, pack) ==
    IF sampled = 0 THEN AsStored(file)
    ELSE [size |-> file.size, sampled |-> sampled, now |-> (now * file.size) \div sampled,
          native |-> (native * file.size) \div sampled, pack |-> (pack * file.size) \div sampled]

EstimateOpenFile(file) ==
    LET reads     == BlockSamples(file)
        length(r) == r.length
        now(r)    == CostNow(file, r.length)
        after(r)  == NativeCost(r.length, Compressed(r.length, file.left))
    IN Scaled(file, Total(length, reads), Total(now, reads), Total(after, reads), 0)

\* A window is cut into blocks for the native backend and compressed whole for the store.
Cuts(r) == {[at |-> k, length |-> Least2(Block, r.length - k * Block)]
            : k \in 0..((r.length - 1) \div Block)}
EstimatePair(file, cap) ==
    LET reads     == WindowSamples(file, cap)
        length(r) == r.length
        now(r)    == LET cost(c) == CostNow(file, c.length) IN Total(cost, Cuts(r))
        after(r)  == LET cost(c) == NativeCost(c.length, Compressed(c.length, file.left))
                     IN Total(cost, Cuts(r))
        pack(r)   == PackCost(r.length, Compressed(r.length, file.packLeft))
    IN Scaled(file, Total(length, reads), Total(now, reads), Total(after, reads), Total(pack, reads))

Worthwhile(now, after) == now > 0 /\ Minus(now, after) >= Sector

(***************************************************************************)
(* The command line's estimate: threads and one budget.                    *)
(***************************************************************************)
Idle == [at |-> "idle", file |-> 0, left |-> 0]
NoTotals == [files |-> 0, skipped |-> 0, unsampled |-> 0, inspected |-> 0, sampled |-> 0,
             bytes |-> 0, now |-> 0, native |-> 0, pack |-> 0]
Sorted(task) == DOMAIN task.files
\* The analysis counts every file as unsampled until it is read.
Begun(task) == [NoTotals EXCEPT !.unsampled =
                      IF task.kind = "game" THEN 0 ELSE Cardinality(Sorted(task))]

SamplingInit ==
    \E task \in SampleTasks :
        sampling = [task |-> task, budget |-> task.budget, results |-> [f \in {} |-> 0],
                    threads |-> [t \in Threads |-> Idle], taken |-> {}, cancelled |-> FALSE,
                    ended |-> FALSE, rewrites |-> {}, totals |-> Begun(task)]

Files == sampling.task.files
Game  == sampling.task.kind = "game"
Result(f, estimate) == [g \in DOMAIN sampling.results \cup {f} |->
                            IF g = f THEN estimate ELSE sampling.results[g]]

\* Variant for a mutation: the counter wraps.
SpentWrapping(left, sampled) == (left - sampled) % 1024
Spent(left, sampled)         == Minus(left, sampled)

\* A thread takes a file and reads the budget once.
Takes(t) ==
    /\ Game /\ sampling.threads[t].at = "idle" /\ ~sampling.ended
    /\ \E f \in Sorted(sampling.task) \ sampling.taken :
           IF sampling.cancelled \/ sampling.budget = 0
           THEN sampling' = [sampling EXCEPT !.taken = @ \cup {f},
                                             !.results = Result(f, NoSample(Files[f]))]
           ELSE sampling' = [sampling EXCEPT !.taken = @ \cup {f},
                                !.threads[t] = [at |-> "sample", file |-> f, left |-> sampling.budget]]

\* A pass at this level has had its chance; a file that cannot be read is no candidate.
SampleOf(file) ==
    IF file.attempted THEN AsStored(file)
    ELSE IF file.fails THEN NoSample(file) ELSE EstimateOpenFile(file)

Samples(t) ==
    LET thread == sampling.threads[t]
    IN /\ thread.at = "sample"
       /\ sampling' = [sampling EXCEPT !.threads[t].at = "charge",
                           !.results = Result(thread.file, SampleOf(Files[thread.file]))]

Charges(t) ==
    LET thread == sampling.threads[t]
    IN /\ thread.at = "charge"
       /\ sampling' = [sampling EXCEPT !.threads[t] = Idle,
                           !.budget = Spent(@, sampling.results[thread.file].sampled)]

Cancels == /\ sampling.task.stops /\ ~sampling.cancelled /\ ~sampling.ended
           /\ sampling' = [sampling EXCEPT !.cancelled = TRUE]

Unsampled(r) == r.sampled = 0 /\ r.now = 0 /\ r.native = 0

\* Unsampled bytes are assumed to behave like the sampled ones, unless it was cancelled.
Extrapolated(totals, sampledSize, unsampledSize) ==
    IF unsampledSize = 0 \/ sampledSize = 0 \/ sampling.cancelled THEN totals
    ELSE LET more(n) == n + (n * unsampledSize) \div sampledSize
         IN [totals EXCEPT !.bytes = more(@), !.now = more(@), !.native = more(@),
                           !.pack = more(@)]

Sums ==
    LET r(f)      == sampling.results[f]
        all       == Sorted(sampling.task)
        worth     == {f \in all : Worthwhile(r(f).now, r(f).native)}
        seen      == {f \in all : r(f).sampled > 0}
        unseen    == {f \in all : Unsampled(r(f))}
        size(f)   == r(f).size
        read(f)   == r(f).sampled
        now(f)    == r(f).now
        native(f) == r(f).native
    IN Extrapolated([NoTotals EXCEPT !.files = Cardinality(worth),
                         !.skipped = Cardinality(all \ worth), !.unsampled = Cardinality(unseen),
                         !.inspected = Cardinality(seen), !.sampled = Total(read, all),
                         !.bytes = Total(size, worth), !.now = Total(now, worth),
                         !.native = Total(native, worth)],
                    Total(size, seen), Total(size, unseen))

Collects ==
    /\ Game /\ ~sampling.ended /\ DOMAIN sampling.results = Sorted(sampling.task)
    /\ \A t \in Threads : sampling.threads[t] = Idle
    /\ sampling' = [sampling EXCEPT !.ended = TRUE, !.totals = Sums]

(***************************************************************************)
(* The analysis of a job: one file after the other, the largest first.     *)
(***************************************************************************)
Larger(f, g) == Files[f].size > Files[g].size \/ (Files[f].size = Files[g].size /\ f < g)
Following(f) == \A g \in Sorted(sampling.task) \ sampling.taken : g = f \/ Larger(f, g)

Counts(totals, r) ==
    LET native == Worthwhile(r.now, r.native)  pack == Worthwhile(r.now, r.pack)
        seen == [totals EXCEPT !.sampled = @ + r.sampled, !.inspected = @ + 1, !.unsampled = @ - 1]
    IN IF ~(native \/ pack) THEN [seen EXCEPT !.skipped = @ + 1]
       ELSE [seen EXCEPT !.now = @ + r.now, !.bytes = @ + r.size, !.files = @ + 1,
                         !.native = @ + (IF native THEN r.native ELSE r.now),
                         !.pack = @ + (IF pack THEN r.pack ELSE r.now)]

Previews ==
    /\ ~Game /\ ~sampling.ended /\ ~sampling.cancelled
    /\ \E f \in Sorted(sampling.task) \ sampling.taken :
           /\ Following(f)
           /\ LET file == Files[f]
                  took == [sampling EXCEPT !.taken = @ \cup {f}]
              IN IF sampling.budget = 0 THEN sampling' = [took EXCEPT !.results = Result(f, NoSample(file))]
                 ELSE IF file.fails THEN sampling' = [took EXCEPT !.results = Result(f, AsStored(file))]
                 ELSE LET r == EstimatePair(file, Least2(sampling.budget, FileCap))
                      IN sampling' = [took EXCEPT !.results = Result(f, r), !.budget = Spent(@, r.sampled),
                                                  !.totals = Counts(@, r)]

\* What the budget did not reach is like what it did; a file that failed is neither.  The
\* pass rewrites what it is expected to shrink and what it did not read.
Concludes ==
    /\ ~Game /\ ~sampling.ended
    /\ sampling.cancelled \/ sampling.taken = Sorted(sampling.task)
    /\ LET r(f)   == sampling.results[f]
           size(f) == r(f).size
           read   == {f \in sampling.taken : ~Files[f].fails /\ ~Unsampled(r(f))}
           unread == {f \in sampling.taken : Unsampled(r(f))}
       IN sampling' = [sampling EXCEPT !.ended = TRUE,
                           !.totals = Extrapolated(@, Total(size, read), Total(size, unread)),
                           !.rewrites = unread \cup {f \in read : Worthwhile(r(f).now, r(f).native)}]

SamplingNext ==
    \/ \E t \in Threads : Takes(t) \/ Samples(t) \/ Charges(t)
    \/ Cancels \/ Collects \/ Previews \/ Concludes

SamplingSpec == SamplingInit /\ [][SamplingNext]_sampling

(***************************************************************************)
(* The recommendation.                                                     *)
(***************************************************************************)
ClearsThreshold(saving, now) ==
    saving >= Advised.saving /\ now > 0 /\ saving * 10000 >= now * Advised.ratio

Ahead(pack, native, now)       == Minus(pack, native) * 10000 >= now * Advised.advantage

\* A store that was not estimated advises what a store that saves nothing does: the
\* smallest saving is above 0.
ChooseMode(totals, nativeAvailable, packCompatible) ==
    LET native == Minus(totals.now, totals.native)
        pack   == Minus(totals.now, totals.pack)
        clears == ClearsThreshold(pack, totals.now)
    IN IF packCompatible /\ clears /\ (Ahead(pack, native, totals.now) \/ ~nativeAvailable)
       THEN [mode |-> "maximum", saving |-> pack]
       ELSE IF nativeAvailable /\ ClearsThreshold(native, totals.now)
       THEN [mode |-> "native", saving |-> native]
       ELSE [mode |-> "skip", saving |-> Most2(native, pack)]

(***************************************************************************)
(* Correctness.                                                            *)
(***************************************************************************)
\* Every file ends in one of the counters, no total is larger after compression than now,
\* and no more is freed than the disk holds (estimate.rs:689, worker.rs:336).
TotalsOK ==
    sampling.ended =>
        LET t == sampling.totals
        IN /\ t.native <= t.now /\ t.pack <= t.now
           /\ Game => t.files + t.skipped = Cardinality(Sorted(sampling.task))
           /\ ~Game => /\ t.unsampled >= 0 /\ t.sampled <= sampling.task.budget
                       /\ t.files + t.skipped = t.inspected
                       /\ t.inspected + t.unsampled = Cardinality(Sorted(sampling.task))

\* Threads that read the budget before others spend it exceed it by what they read, and
\* the counter does not come back from nothing (estimate.rs:657, estimate.rs:700).
BudgetHeld ==
    Game => LET read(f) == sampling.results[f].sampled
                spent   == Total(read, DOMAIN sampling.results)
            IN /\ spent < sampling.task.budget + Cardinality(Threads) * FileBlocks.plain * Block
               /\ sampling.budget <= sampling.task.budget

Apart(reads)        == \A r, s \in reads : r = s \/ r.at + r.length <= s.at \/ s.at + s.length <= r.at
Reaches(reads, end) == \E r \in reads : r.at + r.length = end
FileApart(file) ==
    LET length(r) == r.length
    IN  /\ Apart(BlockSamples(file))
        /\ Cardinality(BlockSamples(file)) > 1 => Reaches(BlockSamples(file), file.size)
        /\ \A cap \in 1..FileCap :
               LET reads == WindowSamples(file, cap)
               IN /\ Apart(reads) /\ Total(length, reads) <= cap
                  /\ Cardinality(reads) = WindowCount(file, cap)
                  /\ WindowCount(file, cap) # 1 => Reaches(reads, file.size)

\* The samples of a file lie apart, inside it, within the cap, and reach its end
\* (estimate.rs:826, estimate.rs:835).
SamplesApart ==
    \A f \in Sorted(sampling.task) :
        Files[f].size > 0 => FileApart([Files[f] EXCEPT !.length = Files[f].size])

\* The store is chosen over a working native backend only for its lead, and what the advice
\* forgoes of the best saving on offer is less than that lead and what is not worth a change
\* (recommendation.rs:109).
AdviceSound ==
    sampling.ended =>
        \A native, compatible \in BOOLEAN :
            LET t == sampling.totals
                advice  == ChooseMode(t, native, compatible)
                given   == IF advice.mode = "skip" THEN 0 ELSE advice.saving
                offered == {IF native THEN Minus(t.now, t.native) ELSE 0,
                            IF compatible THEN Minus(t.now, t.pack) ELSE 0}
                little  == Most2(Advised.saving, Ceiling(t.now * Advised.ratio, 10000))
            IN /\ advice.mode = "maximum" /\ native =>
                      (advice.saving - Minus(t.now, t.native)) * 10000 >= t.now * Advised.advantage
               /\ given > 0 => given >= Advised.saving /\ given \in offered
               /\ \A other \in offered :
                      other < given + little + Ceiling(t.now * Advised.advantage, 10000)

\* An estimate reads what it may, counts every file once and supports the advice made of it.
EstimateSound == TotalsOK /\ BudgetHeld /\ SamplesApart /\ AdviceSound
================================================================================

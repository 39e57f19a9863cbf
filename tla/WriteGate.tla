------------------------------- MODULE WriteGate -------------------------------
(***************************************************************************)
(* The write gate of a mounted store beside the compaction that copies it. *)
(* Handlers hold the read side while they change the layer and count       *)
(* themselves when they are dropped; the compaction reads the count, then  *)
(* copies file by file through the mount, takes the write side, and        *)
(* publishes the copy if the count did not move.                           *)
(***************************************************************************)
EXTENDS Naturals

CONSTANTS Handlers,   \* threads that serve the mount
          Files,      \* files the copy reads one after the other
          MaxWrites,  \* bound: versions of a file
          MaxCount    \* bound: requests one mount counts

ASSUME GateAssumption == MaxWrites \in Nat /\ MaxCount \in Nat

VARIABLES content,     \* version of each file in the mount
          serving,     \* handlers: none, inside the guard, or counted but not yet out
          generation,  \* WriteControl.generation
          frozen,      \* FrozenWrites is alive
          build,       \* the compaction: idle, copying, or its copy is the game's store
          baseline,    \* the count it read before it copied
          copied,      \* the files it has copied
          copy         \* what it copied of each

gate == <<content, serving, generation, frozen, build, baseline, copied, copy>>

GateInit ==
    /\ content = [f \in Files |-> 0] /\ copy = content /\ copied = {}
    /\ serving = [h \in Handlers |-> "none"]
    /\ generation = 0 /\ baseline = 0 /\ frozen = FALSE /\ build = "idle"

\* mutation(): try_read, which fails with EBUSY while writes are frozen.
Enters(h) ==
    /\ serving[h] = "none" /\ ~frozen /\ generation < MaxCount
    /\ serving' = [serving EXCEPT ![h] = "inside"]
    /\ UNCHANGED <<content, generation, frozen, build, baseline, copied, copy>>

\* A handler changes a file, at once or in parts, and may fail after any part.
Changes(h, f) ==
    /\ serving[h] = "inside" /\ content[f] < MaxWrites
    /\ content' = [content EXCEPT ![f] = @ + 1]
    /\ UNCHANGED <<serving, generation, frozen, build, baseline, copied, copy>>

\* Variant for a mutation: a handler that changed something may not be counted.
CountsSuccess(h) ==
    /\ serving[h] = "inside"
    /\ serving' = [serving EXCEPT ![h] = "counted"]
    /\ generation' \in {generation, generation + 1}
    /\ UNCHANGED <<content, frozen, build, baseline, copied, copy>>

\* Drop for Mutation: the count moves first, whatever came of the request ...
Counts(h) ==
    /\ serving[h] = "inside"
    /\ serving' = [serving EXCEPT ![h] = "counted"]
    /\ generation' = generation + 1
    /\ UNCHANGED <<content, frozen, build, baseline, copied, copy>>

\* ... and the read guard is a field, dropped after it.
Leaves(h) ==
    /\ serving[h] = "counted"
    /\ serving' = [serving EXCEPT ![h] = "none"]
    /\ UNCHANGED <<content, generation, frozen, build, baseline, copied, copy>>

Begin ==
    /\ build = "idle" /\ build' = "copying" /\ baseline' = generation /\ copied' = {}
    /\ UNCHANGED <<content, serving, generation, frozen, copy>>

\* Reads take no gate, so the copy runs beside the handlers.
Copies(f) ==
    /\ build = "copying" /\ f \notin copied
    /\ copied' = copied \cup {f} /\ copy' = [copy EXCEPT ![f] = content[f]]
    /\ UNCHANGED <<content, serving, generation, frozen, build, baseline>>

\* freeze(): waits for the handlers inside, then keeps others out.
Freeze ==
    /\ build = "copying" /\ copied = Files /\ ~frozen
    /\ \A h \in Handlers : serving[h] = "none"
    /\ frozen' = TRUE
    /\ UNCHANGED <<content, serving, generation, build, baseline, copied, copy>>

\* "The game changed while compaction finished": the copy is removed.
Refuses ==
    /\ build = "copying" /\ frozen /\ generation # baseline
    /\ build' = "idle" /\ frozen' = FALSE
    /\ UNCHANGED <<content, serving, generation, baseline, copied, copy>>

Publishes ==
    /\ build = "copying" /\ frozen /\ generation = baseline
    /\ build' = "published"
    /\ UNCHANGED <<content, serving, generation, frozen, baseline, copied, copy>>

\* The old mount goes and the new store is mounted, with a gate of its own.
Remounts ==
    /\ build = "published" /\ build' = "idle" /\ frozen' = FALSE /\ generation' = 0
    /\ UNCHANGED <<content, serving, baseline, copied, copy>>

GateNext ==
    \/ \E h \in Handlers : \/ Enters(h) \/ Counts(h) \/ Leaves(h)
                           \/ \E f \in Files : Changes(h, f)
    \/ Begin \/ Freeze \/ Refuses \/ Publishes \/ Remounts
    \/ \E f \in Files : Copies(f)

GateSpec == GateInit /\ [][GateNext]_gate

\* The store a compaction publishes holds everything the game wrote, also what requests
\* that failed partway wrote, and what was being written when the count was read.
NothingMissed == build = "published" => copy = content

================================================================================

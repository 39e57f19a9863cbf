------------------------------ MODULE SpacePlans ------------------------------
(***************************************************************************)
(* Free space for storage work.  A client reviews a plan of what a job may *)
(* write to each drive; the plan is checked again when it is accepted and  *)
(* when the job starts, together with a plan the job makes of its own.     *)
(* Drives are shared with other programs, fill up, and take each other's   *)
(* place, and a Mac checks again before each file it replaces.             *)
(*                                                                         *)
(* A plan maps a drive to its row.  Files that exist are long enough to be *)
(* worth the work.  Plans of compactions and restorations are left out.    *)
(***************************************************************************)
EXTENDS Integers, FiniteSets, FiniteSetsExt

CONSTANTS
    Pieces,        \* the files of the game
    Lengths,       \* how long a file may be
    Volumes,       \* drives
    SpaceFloor,    \* the least headroom: 64 MiB
    SpaceFixed,    \* the fixed part of a store's bound: 16 MiB
    EntryBytes,    \* metadata of one entry of a folder
    Spares,        \* how much more than a plan needs may be free at first
    Amounts,       \* what other programs write at once, or delete
    SpaceLimits    \* what may happen in one behaviour

ASSUME SpaceAssumption ==
    /\ IsFiniteSet(Pieces) /\ Pieces # {} /\ Lengths \subseteq Nat \ {0}
    /\ {SpaceFloor, SpaceFixed, EntryBytes} \subseteq Nat
    /\ Spares \subseteq Nat /\ Amounts \subseteq Int

VARIABLE space

SpaceKinds == {"reviews", "asks", "retries", "others", "updates", "swaps", "deaths"}
May(k)     == space.left[k] > 0
Less(k)    == [space.left EXCEPT ![k] = @ - 1]

(***************************************************************************)
(* Plans, as functions of the state they are made in.                      *)
(***************************************************************************)
Bytes(s)         == MapThenSumSet(LAMBDA p : s.length[p], Pieces)
Largest(s)       == Max({s.length[p] : p \in Pieces})
MetadataBytes(s) == (Cardinality(Pieces) + 1) * EntryBytes

\* The game lies at "home" and its store goes to "shelf".  Without a drive of
\* its own, a shelf is a folder of the drive at home.
Volume(s, place) ==
    [id |-> s.at[place], available |-> s.free[s.at[place]],
     mount |-> IF s.at["shelf"] = s.at["home"] THEN "home" ELSE place]

Headroom(n) == Max({n \div 20, SpaceFloor})
NoRows      == [d \in {} |-> 0]
Row(volume, bytes) ==
    [mount |-> volume.mount, available |-> volume.available, additional |-> bytes]

Add(plan, volume, bytes) ==
    IF volume.id \notin DOMAIN plan
    THEN [d \in DOMAIN plan \cup {volume.id} |->
             IF d = volume.id THEN Row(volume, bytes) ELSE plan[d]]
    ELSE [plan EXCEPT ![volume.id].additional = @ + bytes,
                      ![volume.id].available = Min({@, volume.available})]

Fits(plan) == \A d \in DOMAIN plan :
                  plan[d].available >= plan[d].additional + Headroom(plan[d].additional)

Recheck(s, plan) ==
    /\ \A d \in DOMAIN plan : s.at[plan[d].mount] = d
    /\ Fits([d \in DOMAIN plan |-> [plan[d] EXCEPT !.available = s.free[d]]])

\* A bug: the temporary copy of the largest file is forgotten.
NativePlanBare(s) == Add(NoRows, Volume(s, "home"), Bytes(s))

NativePlan(s) == Add(NoRows, Volume(s, "home"), Bytes(s) + Largest(s))
PackBound(s)  == Bytes(s) + Bytes(s) \div 32 + MetadataBytes(s) + SpaceFixed
PlanFor(s, task) ==
    IF task = "native" THEN NativePlan(s)
    ELSE LET bound == IF s.stored THEN 0 ELSE PackBound(s)
         IN  Add(Add(NoRows, Volume(s, "shelf"), bound), Volume(s, "home"), 0)

\* What a Mac asks for before it copies a file, and before it swaps the copy in.
FilePlan(s, p) == Add(NoRows, Volume(s, "home"), 2 * s.length[p])
PublishPlan(s) == Add(NoRows, Volume(s, "home"), 0)

(***************************************************************************)
(* The machine.                                                            *)
(***************************************************************************)
SpaceTasks == IF space.platform = "linux" THEN {"native", "activate"} ELSE {"native"}
Resting    == [at |-> "off"]
NoOrder    == [task |-> "none", plan |-> NoRows]
NoWork     == [phase |-> "none", plan |-> NoRows]
Target(task) == space.at[IF task = "native" THEN "home" ELSE "shelf"]

\* Every drive has room for one of the plans and for extra bytes, less one.
Needed(s, task) == LET plan == PlanFor(s, task)
                       most == Max({plan[d].additional : d \in DOMAIN plan})
                   IN  most + Headroom(most)
Machine(platform, left, length, shelf, task, extra) ==
    LET blank == [platform |-> platform, left |-> left, length |-> length,
                  at |-> [home |-> CHOOSE d \in Volumes : TRUE, shelf |-> shelf],
                  free |-> [d \in Volumes |-> 0], stored |-> FALSE, shown |-> NoOrder,
                  jobs |-> [t \in {"native", "activate"} |-> NoWork], run |-> Resting]
    IN  [blank EXCEPT !.free = [d \in Volumes |-> Needed(blank, task) + extra - 1]]
SpaceInit ==
    \E platform \in {"linux", "mac", "windows"}, left \in SpaceLimits,
       length \in [Pieces -> Lengths], shelf \in Volumes, task \in {"native", "activate"},
       extra \in Spares : space = Machine(platform, left, length, shelf, task, extra)

(***************************************************************************)
(* Clients.  A plan that does not fit is shown, but cannot be confirmed.   *)
(***************************************************************************)
Reviews(task) ==
    /\ May("reviews") /\ space.shown = NoOrder /\ Fits(PlanFor(space, task))
    /\ space' = [space EXCEPT !.left = Less("reviews"),
                              !.shown = [task |-> task, plan |-> PlanFor(space, task)]]

\* A job that is queued or runs takes the order in, with its plan.
Ordered(job, plan) ==
    [phase |-> IF job.phase \in {"queued", "running"} THEN job.phase ELSE "queued",
     plan  |-> plan]

\* Only Linux keeps the reviewed plan with the job.
Confirms ==
    /\ space.shown # NoOrder
    /\ LET order == space.shown
           kept  == IF space.platform = "linux" THEN order.plan ELSE NoRows
       IN  space' = [space EXCEPT !.shown = NoOrder,
                        !.jobs[order.task] = IF Recheck(space, order.plan)
                                             THEN Ordered(@, kept) ELSE @]

\* The command line, the watcher and maintenance send no plan.
Asks(task) ==
    /\ May("asks") /\ space.jobs[task].phase \notin {"queued", "running"}
    /\ space' = [space EXCEPT !.left = Less("asks"), !.jobs[task] = Ordered(@, NoRows)]

\* A retry is a new job without a plan.
Again(task) ==
    /\ May("retries") /\ space.platform # "mac"
    /\ space.jobs[task].phase \in {"completed", "failed", "interrupted"}
    /\ space' = [space EXCEPT !.left = Less("retries"), !.jobs[task] = Ordered(@, NoRows)]

(***************************************************************************)
(* The work.  calm is a history: nobody else wrote since the work's check. *)
(***************************************************************************)
\* On Linux a worker reports its own plan, which the job then keeps.
Begins(task) ==
    /\ space.run = Resting /\ space.jobs[task].phase = "queued"
    /\ LET own  == PlanFor(space, task)
           fit  == Recheck(space, space.jobs[task].plan)
           kept == IF fit /\ task = "native" /\ space.platform = "linux"
                   THEN own ELSE space.jobs[task].plan
           todo == IF task = "activate" /\ space.stored THEN {} ELSE Pieces
       IN  space' = IF fit /\ Recheck(space, own)
                    THEN [space EXCEPT
                             !.jobs[task] = [phase |-> "running", plan |-> kept],
                             !.run = [at |-> "working", task |-> task, todo |-> todo,
                                      copy |-> 0, old |-> 0, calm |-> TRUE]]
                    ELSE [space EXCEPT !.jobs[task] = [phase |-> "failed", plan |-> kept]]

Working(task) == space.run # Resting /\ space.run.task = task /\ space.run.at = "working"
Uses(n)       == [space.free EXCEPT ![Target(space.run.task)] = Max({@ - n, 0})]

\* Snapshots and shared extents keep all old blocks of a rewritten file, or none.
Rewrites(p) ==
    /\ Working("native") /\ space.platform # "mac" /\ p \in space.run.todo
    /\ \E n \in {0, space.length[p]} :
           space' = [space EXCEPT !.free = Uses(n), !.run.todo = @ \ {p}]

\* The staged copy is the whole file, or what compression leaves of it.
Stages(p) ==
    /\ Working("native") /\ space.platform = "mac" /\ p \in space.run.todo
    /\ IF Recheck(space, FilePlan(space, p))
       THEN \E n \in {space.length[p] \div 2, space.length[p]} :
                space' = [space EXCEPT !.free = Uses(n), !.run.at = "staged", !.run.copy = n,
                                       !.run.todo = @ \ {p}, !.run.old = space.length[p]]
       ELSE space' = [space EXCEPT !.run.at = "refused"]

\* The copy is dropped, alone or with the pass, or takes the place of the
\* file, whose blocks may stay.
Publishes ==
    /\ space.run # Resting /\ space.run.at = "staged"
    /\ LET Leaves(freed, next) ==
               space' = [space EXCEPT !.free = Uses(-freed), !.run.at = next,
                                      !.run.copy = 0, !.run.old = 0]
       IN  \/ \E next \in {"working", "failed"} : Leaves(space.run.copy, next)
           \/ ~Fits(PublishPlan(space)) /\ Leaves(space.run.copy, "refused")
           \/ /\ Fits(PublishPlan(space))
              /\ \E freed \in {0, space.run.old} : Leaves(freed, "working")

\* An incompressible file costs its frames and its entry; a pooled one nothing.
Packs(p) ==
    /\ Working("activate") /\ p \in space.run.todo
    /\ \E n \in {0, space.length[p] + space.length[p] \div 32 + EntryBytes} :
           space' = [space EXCEPT !.free = Uses(n), !.run.todo = @ \ {p}]

Stops(phase) == [space EXCEPT !.run = Resting, !.jobs[space.run.task].phase = phase]
Finishes ==
    /\ space.run # Resting
    /\ \/ space.run.at \in {"refused", "failed"} /\ space' = Stops("failed")
       \/ /\ space.run.at = "working" /\ space.run.todo = {}
          /\ space' = [Stops("completed") EXCEPT !.stored = @ \/ space.run.task = "activate"]

\* Whatever was written stays: a staged copy, or files of an unfinished store.
WorkDies ==
    /\ May("deaths") /\ space.run # Resting
    /\ space' = [Stops("interrupted") EXCEPT !.left = Less("deaths")]

(***************************************************************************)
(* Everybody else.                                                         *)
(***************************************************************************)
Disturbed == IF space.run = Resting THEN Resting ELSE [space.run EXCEPT !.calm = FALSE]

OtherPrograms ==
    /\ May("others")
    /\ \E d \in Volumes, n \in Amounts :
           space' = [space EXCEPT !.left = Less("others"), !.free[d] = Max({@ - n, 0}),
                                  !.run = Disturbed]

Updates(p) ==
    /\ May("updates")
    /\ \E n \in Lengths \ {space.length[p]} :
           space' = [space EXCEPT !.left = Less("updates"), !.length[p] = n, !.run = Disturbed,
                        !.free[space.at["home"]] = Max({@ - (n - space.length[p]), 0})]

\* Another drive takes the shelf, or leaves it a folder of the drive at home.
ShelfSwaps ==
    /\ May("swaps")
    /\ \E d \in Volumes \ {space.at["shelf"]} :
           space' = [(IF Working("activate") THEN Stops("failed") ELSE space)
                        EXCEPT !.left = Less("swaps"), !.at["shelf"] = d]

SpaceNext ==
    \/ \E task \in SpaceTasks : Reviews(task) \/ Asks(task) \/ Again(task) \/ Begins(task)
    \/ \E p \in Pieces : Rewrites(p) \/ Stages(p) \/ Packs(p) \/ Updates(p)
    \/ Confirms \/ Publishes \/ Finishes \/ WorkDies \/ OtherPrograms \/ ShelfSwaps

SpaceSpec == SpaceInit /\ [][SpaceNext]_space

(***************************************************************************)
(* Work that began with room is never refused half way and never takes its *)
(* drive below the floor, unless somebody else writes: what is asked for   *)
(* at the start covers every later question about a single file, whatever  *)
(* old blocks stay pinned.                                                 *)
(***************************************************************************)
RoomKept ==
    LET work == space.run
    IN  work # Resting /\ work.calm =>
            /\ work.at # "refused"
            /\ space.free[Target(work.task)] >= SpaceFloor
==============================================================================

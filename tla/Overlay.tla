-------------------------------- MODULE Overlay --------------------------------
(***************************************************************************)
(* The update layer of a mounted store: whiteouts and an upper tree over   *)
(* an immutable store, the inode table of the mount, and the journal that  *)
(* keeps the whiteouts.  Requests of the game come one at a time (the      *)
(* overlay mutex); each is cut where the process can die.                  *)
(*                                                                         *)
(* `tree` is what the game is owed: an ordinary directory tree on which    *)
(* the same requests act in one step.  Nothing in the layer reads it.      *)
(***************************************************************************)
EXTENDS Naturals, Sequences, FiniteSets

CONSTANTS
    Paths,      \* the names of the model, sequences of components
    Stores,     \* the stores a behaviour may be about: index entries in order, each
                \* a path and 0 for a directory, or the number of a file
    MaxOps,     \* bound: requests in one behaviour
    Aliases,    \* a name of a file with several names is made anew or moved, or the
                \* process dies while they are copied up
    Swaps,      \* a folder with folders moves to where the store has folders of these names
    Budgets     \* bound: how often the process dies or a step fails

FaultKinds == {"crash", "journal", "move"}

Dir  == 0
Within(p, q) == Len(q) <= Len(p) /\ SubSeq(p, 1, Len(q)) = q
Parents(p)   == {SubSeq(p, 1, n) : n \in 1 .. Len(p) - 1}
Moved(p, from, to) == to \o SubSeq(p, Len(from) + 1, Len(p))

\* Index::validate: no name twice, and the folders of an entry are entries.
WellFormed(s) ==
    /\ \A i \in DOMAIN s : s[i].path \in Paths /\ s[i].file \in 0 .. Len(s)
    /\ \A i, k \in DOMAIN s : s[i].path = s[k].path => i = k
    /\ \A i \in DOMAIN s : \A q \in Parents(s[i].path) :
         \E k \in DOMAIN s : s[k].path = q /\ s[k].file = Dir

ASSUME OverlayAssumption ==
    /\ Paths \subseteq Seq(STRING) /\ <<>> \notin Paths
    /\ \A p \in Paths : Parents(p) \subseteq Paths
    /\ Stores \subseteq Seq([path : Paths, file : Nat])
    /\ \A s \in Stores : WellFormed(s)
    /\ MaxOps \in Nat /\ Aliases \in BOOLEAN /\ Swaps \in BOOLEAN /\ Budgets \subseteq [FaultKinds -> Nat]

VARIABLES
    store,    \* the index entries of the store
    upper,    \* the upper tree: 0 for a directory, or the file's number on disk
    data,     \* what the files of the upper tree hold
    journal,  \* whiteouts in state.json
    deleted,  \* whiteouts in memory
    nodes,    \* the inode table of the mount
    op,       \* the request being served and how far it is
    tree,     \* history: the tree the game is owed
    lost,     \* history: a journal write failed
    ops, faults

layer == <<upper, data, journal, deleted>>
vars  == <<store, layer, nodes, op, tree, lost, ops, faults>>

Idle == [kind |-> "idle"]
None == [p \in {} |-> Dir]

Base == [p \in {store[i].path : i \in DOMAIN store} |->
           store[CHOOSE i \in DOMAIN store : store[i].path = p].file]

Folders == {p \in DOMAIN Base : Base[p] = Dir}

--------------------------------------------------------------------------------
\* The merged view.

Hidden(p)  == \E q \in deleted : Within(p, q)
Visible(p) == ~Hidden(p) /\ p \in DOMAIN upper \cup DOMAIN Base
Kind(p)    == IF p \in DOMAIN upper THEN upper[p] ELSE Base[p]
IsDir(p)   == Kind(p) = Dir

\* A name the kernel can reach: its folders are there.
Reachable(p) == Visible(p) /\ \A q \in Parents(p) : Visible(q) /\ IsDir(q)
Children(p)  == {q \in Paths : Len(q) = Len(p) + 1 /\ Within(q, p) /\ Visible(q)}
Read(p)      == IF p \in DOMAIN upper THEN data[upper[p]] ELSE Base[p]

\* A name that leaves an inode's list leaves a gap there.
Gap == <<>>

\* Requests name an inode; it stands for the first visible of its paths, or the first.
Named(ino) == LET list == nodes.lists[ino]
                  live == {k \in DOMAIN list : list[k] # Gap}
                  seen == {k \in live : Visible(list[k])}
                  from == IF seen = {} THEN live ELSE seen
              IN  list[CHOOSE k \in from : \A j \in from : k <= j]
Resolved(p) == IF p \in DOMAIN nodes.paths THEN Named(nodes.paths[p]) ELSE p

View == [p \in {q \in Paths : Reachable(q)} |->
           IF IsDir(p) THEN Dir ELSE Read(Resolved(p))]

\* What the game is owed, name by name.
Owed(t) == [p \in DOMAIN t.at |-> IF t.at[p] = Dir THEN Dir ELSE t.holds[t.at[p]]]

\* What apply_to makes of an ordinary copy of the store.
Applied ==
    LET kept == {p \in DOMAIN Base : ~\E q \in deleted : Within(p, q)}
        over == {p \in kept : ~\E q \in Parents(p) : q \in DOMAIN upper /\ upper[q] # Dir}
    IN  [p \in over \cup DOMAIN upper |->
           IF p \in DOMAIN upper THEN IF upper[p] = Dir THEN Dir ELSE data[upper[p]]
           ELSE Base[p]]

--------------------------------------------------------------------------------
\* The inode table.

FirstOf(file) == CHOOSE p \in DOMAIN Base : /\ Base[p] = file
                   /\ \A i, k \in DOMAIN store : store[i].path = p /\ store[k].file = file => i <= k

NewNodes(s) ==
    LET Number(i) == IF s[i].file = Dir THEN i
                     ELSE CHOOSE k \in 1 .. i : s[k].file = s[i].file
                                                /\ \A j \in 1 .. k - 1 : s[j].file # s[i].file
    IN  [paths |-> [p \in {s[i].path : i \in DOMAIN s} |->
                      Number(CHOOSE i \in DOMAIN s : s[i].path = p)],
         lists |-> [n \in DOMAIN s |-> [i \in DOMAIN s |->
                       IF Number(i) = n THEN s[i].path ELSE Gap]]]

\* A path keeps the number it once had.
Numbered(t, p) ==
    IF p \in DOMAIN t.paths THEN t
    ELSE [paths |-> [q \in DOMAIN t.paths \cup {p} |->
                       IF q = p THEN Len(t.lists) + 1 ELSE t.paths[q]],
          lists |-> Append(t.lists, <<p>>)]

Aliased(t, p, ino) ==
    [paths |-> [q \in DOMAIN t.paths \cup {p} |-> IF q = p THEN ino ELSE t.paths[q]],
     lists |-> [t.lists EXCEPT ![ino] = Append(@, p)]]

\* Every path below moves with its number; a replaced path leaves its list.
Renamed(t, from, to) ==
    LET moved  == {p \in DOMAIN t.paths : Within(p, from)}
        landed == {Moved(p, from, to) : p \in moved}
        Replaced(p, ino) == p \in (landed \cap DOMAIN t.paths) \ moved /\ t.paths[p] = ino
        Moves(p, ino)    == p \in moved /\ t.paths[p] = ino
    IN  [paths |-> [p \in (DOMAIN t.paths \ moved) \cup landed |->
                      IF p \in landed THEN t.paths[Moved(p, to, from)] ELSE t.paths[p]],
         lists |-> [n \in DOMAIN t.lists |-> [k \in DOMAIN t.lists[n] |->
                      LET p == t.lists[n][k]
                      IN  IF Moves(p, n) THEN Moved(p, from, to)
                          ELSE IF Replaced(p, n) THEN Gap ELSE p]]]

--------------------------------------------------------------------------------
\* Requests.  What a request makes of the tree is fixed when it begins.

Extended(f, p, x) == [q \in DOMAIN f \cup {p} |-> IF q = p THEN x ELSE f[q]]
Without(f, gone)  == [q \in DOMAIN f \ gone |-> f[q]]

\* ensure_parent: the missing upper folders are made, which shows nothing new.
WithParents(u, p) == [q \in DOMAIN u \cup Parents(p) |-> IF q \in DOMAIN u THEN u[q] ELSE Dir]
Put(u, p, x) == Extended(WithParents(u, p), p, x)

Free(p) == ~Visible(p) /\ \A q \in Parents(p) : Reachable(q) /\ IsDir(q)
Alone(p) == p \in DOMAIN nodes.paths =>
              LET list == nodes.lists[nodes.paths[p]]
              IN  \A k \in DOMAIN list : list[k] \in {p, Gap}
Fresh(f) == Len(f) + 1
Value == 10 + ops'

\* (After a failed journal write the mount serves nothing more in this model.)
Begins == /\ op = Idle /\ ~lost /\ ops < MaxOps /\ ops' = ops + 1
          /\ UNCHANGED <<store, lost, faults>>
Goes   == UNCHANGED <<store, lost, ops, faults>>
Fails(kind) == /\ faults[kind] > 0 /\ faults' = [faults EXCEPT ![kind] = @ - 1]
               /\ op' = Idle /\ lost' = (lost \/ kind = "journal")
               /\ UNCHANGED <<store, ops>>

Finishes == op' = Idle /\ tree' = op.after

\* After an error or a crash a request whose name is in place has happened, and no other.
\* The next open drops the whiteout of that name, so names of the store below it may be
\* back: the tree takes in those, and no name elsewhere.
Adopted(t) ==
    LET back == {p \in DOMAIN View' \cap DOMAIN Base : Within(p, op.to)} \ DOMAIN t.at
    IN  [at    |-> [p \in DOMAIN t.at \cup back |->
                      IF p \notin back THEN t.at[p]
                      ELSE IF Base[p] = Dir THEN Dir ELSE Len(t.holds) + Base[p]],
         holds |-> t.holds \o [n \in DOMAIN store |-> n]]

Settles == tree' = IF op.step = "reveal" THEN Adopted(op.after) ELSE tree

\* create_file and mkdir: the upper entry first, then the whiteout.
Create(p, dir) ==
    /\ Begins /\ Free(p) /\ p \notin DOMAIN upper /\ (Aliases \/ Alone(p))
    /\ upper' = Put(upper, p, IF dir THEN Dir ELSE Fresh(data))
    /\ data' = IF dir THEN data ELSE Append(data, Value)
    /\ op' = [kind |-> "create", step |-> "reveal", to |-> p,
              after |-> IF dir THEN [tree EXCEPT !.at = Extended(@, p, Dir)]
                        ELSE [at |-> Extended(tree.at, p, Fresh(tree.holds)),
                              holds |-> Append(tree.holds, Value)]]
    /\ UNCHANGED <<journal, deleted, nodes, tree>>

\* remove: the whiteout is written before the upper entry goes.
Remove(p) ==
    /\ Begins /\ Reachable(p) /\ (IsDir(p) => Children(p) = {})
    /\ deleted' = IF p \in DOMAIN Base THEN deleted \cup {p} ELSE deleted
    /\ journal' = IF p \in DOMAIN Base THEN deleted' ELSE journal
    /\ LET after == [tree EXCEPT !.at = Without(@, {p})]
       IN  IF p \in DOMAIN upper
           THEN /\ op' = [kind |-> "remove", step |-> "trash", to |-> p, after |-> after]
                /\ UNCHANGED tree
           ELSE op' = Idle /\ tree' = after
    /\ UNCHANGED <<upper, data, nodes>>

Trashes ==
    /\ op.kind = "remove" /\ Goes /\ Finishes
    /\ upper' = Without(upper, {q \in DOMAIN upper : Within(q, op.to)})
    /\ UNCHANGED <<data, journal, deleted, nodes>>

TrashFails ==
    /\ op.kind = "remove" /\ Fails("move")
    /\ deleted' = deleted \ {op.to}
    /\ journal' = IF op.to \in DOMAIN Base THEN deleted' ELSE journal
    /\ UNCHANGED <<upper, data, nodes>> /\ Settles

Copying(kind, p, q, to, todo, after) ==
    op' = [kind |-> kind, step |-> "copy", p |-> p, q |-> q, to |-> to, todo |-> todo,
           linked |-> q, links |-> {}, after |-> after]

\* write, and an open for writing: the copy first, then the bytes.
Write(p) ==
    /\ Begins /\ Reachable(p) /\ ~IsDir(p) /\ Visible(Resolved(p))
    /\ Copying("write", p, Resolved(p), p, {Resolved(p)},
               [tree EXCEPT !.holds[tree.at[p]] = Value])
    /\ UNCHANGED <<layer, nodes, tree>>

Link(p, to) ==
    /\ Begins /\ Reachable(p) /\ ~IsDir(p) /\ Visible(Resolved(p))
    /\ Free(to) /\ (Aliases \/ Alone(to))
    /\ Copying("link", p, Resolved(p), to, {Resolved(p)},
               [tree EXCEPT !.at = Extended(@, to, tree.at[p])])
    /\ UNCHANGED <<layer, nodes, tree>>

\* The kernel leaves a rename between two names of one file alone.  RENAME_EXCHANGE is
\* refused only together with RENAME_WHITEOUT: alone it is served as this request, and
\* the tree is owed what this request does, not an exchange.
Rename(from, to) ==
    LET below == {q \in Paths : Within(q, from) /\ Reachable(q)}
        gone  == {q \in Paths : Within(q, to)}
        there == tree.at
    IN  /\ Begins /\ Reachable(from) /\ ~Within(to, from)
        /\ Aliases \/ \A q \in DOMAIN nodes.paths : Within(q, from) \/ Within(q, to) => Alone(q)
        /\ {Moved(q, from, to) : q \in below} \subseteq Paths
        /\ Swaps \/ \A q \in below \ {from} : IsDir(q) => Moved(q, from, to) \notin Folders
        /\ \/ Free(to)
           \/ /\ Reachable(to) /\ IsDir(from) = IsDir(to) /\ (IsDir(to) => Children(to) = {})
              /\ (~IsDir(to) => tree.at[from] # tree.at[to])
        /\ Copying("rename", from, from, to, below,
              [tree EXCEPT !.at = [q \in (DOMAIN there \ (below \cup gone))
                                         \cup {Moved(r, from, to) : r \in below} |->
                 IF Within(q, to) THEN there[Moved(q, to, from)] ELSE there[q]]])
        /\ UNCHANGED <<layer, nodes, tree>>

\* copy_up: a file is published whole, then each visible alias of a link target is
\* linked to it.
Missing == op.todo \ DOMAIN upper

CopiesUp ==
    /\ op.kind \in {"write", "link", "rename"} /\ op.step = "copy" /\ op.links = {} /\ Missing # {}
    /\ LET q == CHOOSE r \in Missing : \A other \in Missing : Len(r) <= Len(other)
           aliases == {a \in DOMAIN Base \ {q} : Base[a] = Base[q] /\ ~Hidden(a)}
       IN  IF Base[q] = Dir
           THEN upper' = Put(upper, q, Dir) /\ UNCHANGED <<data, op>>
           ELSE /\ upper' = Put(upper, q, Fresh(data)) /\ data' = Append(data, Base[q])
                /\ op' = [op EXCEPT !.linked = q,
                            !.links = IF q = FirstOf(Base[q]) THEN aliases \ DOMAIN upper ELSE {}]
    /\ Goes /\ UNCHANGED <<journal, deleted, nodes, tree>>

HalfLinked == op.kind \in {"write", "link", "rename"} /\ op.links # {}

LinksAlias ==
    /\ HalfLinked
    /\ \E a \in op.links : /\ upper' = Put(upper, a, upper[op.linked])
                           /\ op' = [op EXCEPT !.links = @ \ {a}]
    /\ Goes /\ UNCHANGED <<data, journal, deleted, nodes, tree>>

Copied(kind) == op.kind = kind /\ op.step = "copy" /\ op.links = {} /\ Missing = {}

Writes ==
    /\ Copied("write") /\ Goes /\ Finishes
    /\ data' = [data EXCEPT ![upper[op.q]] = 10 + ops]
    /\ UNCHANGED <<upper, journal, deleted, nodes>>

HardLinks ==
    /\ Copied("link") /\ Goes /\ op' = [op EXCEPT !.step = "reveal"]
    /\ upper' = Put(upper, op.to, upper[op.q])
    /\ UNCHANGED <<data, journal, deleted, nodes, tree>>

\* rename: a whiteout for a source the store holds, the move, then the target.
HidesSource ==
    /\ Copied("rename") /\ Goes /\ op' = [op EXCEPT !.step = "move"]
    /\ upper' = WithParents(upper, op.to)
    /\ deleted' = IF op.p \in DOMAIN Base THEN deleted \cup {op.p} ELSE deleted
    /\ journal' = IF op.p \in DOMAIN Base THEN deleted' ELSE journal
    /\ UNCHANGED <<data, nodes, tree>>

HidesSourceFails ==
    /\ Copied("rename") /\ op.p \in DOMAIN Base /\ Fails("journal")
    /\ deleted' = deleted \cup {op.p}
    /\ upper' = WithParents(upper, op.to)
    /\ UNCHANGED <<data, journal, nodes>> /\ Settles

Moves ==
    LET moved == {q \in DOMAIN upper : Within(q, op.p)}
        gone  == {q \in DOMAIN upper : Within(q, op.to)}
        landed == {Moved(q, op.p, op.to) : q \in moved}
    IN  /\ op.kind = "rename" /\ op.step = "move" /\ Goes /\ op' = [op EXCEPT !.step = "reveal"]
        /\ upper' = [q \in (DOMAIN upper \ (moved \cup gone)) \cup landed |->
                       IF q \in landed THEN upper[Moved(q, op.to, op.p)] ELSE upper[q]]
        /\ UNCHANGED <<data, journal, deleted, nodes, tree>>

MoveFails ==
    /\ op.kind = "rename" /\ op.step = "move" /\ Fails("move")
    /\ deleted' = IF op.p \in DOMAIN Base THEN deleted \ {op.p} ELSE deleted
    /\ journal' = IF op.p \in DOMAIN Base THEN deleted' ELSE journal
    /\ UNCHANGED <<upper, data, nodes>> /\ Settles

\* Variant for a mutation: the children of the store stay without whiteouts.
RevealedOpen(p) == {q \in deleted \ {p} : ~Within(q, p) \/ q \notin DOMAIN upper}

\* reveal: what the whiteout hid below is hidden by whiteouts of its own.
Revealed(p) ==
    LET below == {q \in DOMAIN Base : Len(q) = Len(p) + 1 /\ Within(q, p)}
        opened == IF p \in deleted THEN (deleted \ {p}) \cup below ELSE deleted
    IN  {q \in opened : ~Within(q, p) \/ q \notin DOMAIN upper}

Reveals ==
    /\ op # Idle /\ op.step = "reveal" /\ Goes /\ Finishes
    /\ deleted' = Revealed(op.to) /\ journal' = deleted'
    /\ nodes' = CASE op.kind = "create" -> Numbered(nodes, op.to)
                  [] op.kind = "rename" -> Renamed(nodes, op.p, op.to)
                  [] op.kind = "link" -> Aliased(Numbered(nodes, op.p), op.to,
                                                 Numbered(nodes, op.p).paths[op.p])
    /\ UNCHANGED <<upper, data>>

RevealFails ==
    /\ op # Idle /\ op.step = "reveal" /\ Fails("journal")
    /\ deleted' = Revealed(op.to)
    /\ UNCHANGED <<upper, data, journal, nodes>> /\ Settles

--------------------------------------------------------------------------------
\* Overlay::open: a whiteout beside an upper entry is dropped.
Opens ==
    /\ deleted' = {p \in journal : p \notin DOMAIN upper} /\ journal' = deleted'
    /\ nodes' = NewNodes(store) /\ op' = Idle
    /\ UNCHANGED <<store, upper, data>>

Remount ==
    /\ op = Idle /\ ~lost /\ ops < MaxOps /\ ops' = ops + 1 /\ Opens
    /\ UNCHANGED <<tree, lost, faults>>

Crash ==
    /\ faults["crash"] > 0 /\ faults' = [faults EXCEPT !["crash"] = @ - 1]
    /\ op # Idle /\ (HalfLinked => Aliases) /\ Opens /\ UNCHANGED <<lost, ops>> /\ Settles

Init ==
    /\ store \in Stores /\ upper = None /\ data = <<>> /\ journal = {} /\ deleted = {}
    /\ nodes = NewNodes(store) /\ op = Idle /\ ops = 0 /\ lost = FALSE
    /\ tree = [at |-> Base, holds |-> [n \in 1 .. Len(store) |-> n]]
    /\ faults \in Budgets

Serves == \/ Trashes \/ CopiesUp \/ LinksAlias \/ Writes \/ HardLinks \/ HidesSource
          \/ Moves \/ Reveals

Next ==
    \/ \E p \in Paths : \/ \E dir \in BOOLEAN : Create(p, dir)
                        \/ Remove(p) \/ Write(p)
                        \/ \E to \in Paths : Link(p, to) \/ Rename(p, to)
    \/ Serves \/ TrashFails \/ HidesSourceFails \/ MoveFails \/ RevealFails
    \/ Remount \/ Crash

Spec == Init /\ [][Next]_vars

--------------------------------------------------------------------------------
TypeOK ==
    /\ DOMAIN upper \subseteq Paths /\ \A p \in DOMAIN upper : upper[p] \in 0 .. Len(data)
    /\ data \in Seq(Nat) /\ journal \subseteq Paths /\ deleted \subseteq Paths
    /\ \A p \in DOMAIN upper : \A q \in Parents(p) : q \in DOMAIN upper /\ upper[q] = Dir
    /\ \A p \in DOMAIN nodes.paths : nodes.paths[p] \in DOMAIN nodes.lists

\* The mount shows exactly the tree the requests made, through crashes, failed moves and
\* remounts: nothing deleted comes back, nothing written through one name shows under
\* another, and a request that dies has happened exactly when its name was in place,
\* except that such a crash may bring back what the store holds below that name.
ViewIsTree == op = Idle /\ ~lost => View = Owed(tree)

\* Going back to ordinary files gives what the mount showed: apply_to and the view read the
\* same whiteouts and upper tree by different rules.
AppliedIsView == op = Idle /\ ~lost => Applied = View

\* The layer is well formed, shows the tree it was asked for and gives back what it shows.
LayerTrue == TypeOK /\ ViewIsTree /\ AppliedIsView
================================================================================

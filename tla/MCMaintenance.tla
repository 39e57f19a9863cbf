----------------------------- MODULE MCMaintenance -----------------------------
(***************************************************************************)
(* One game, and what may go wrong with it in one behaviour.               *)
(***************************************************************************)
EXTENDS Maintenance

CONSTANT g

Allows(kinds) == [kind \in FaultKinds |-> Cardinality({i \in 1 .. 2 : kinds[i] = kind})]

Pairs  == {Allows(<<"crash", kind>>) : kind \in {"scan", "order"}}
            \cup {Allows(<<kind, "none">>) : kind \in {"job", "refuse"}}

=================================================================================

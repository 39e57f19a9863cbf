------------------------------ MODULE MCRewrite --------------------------------
(***************************************************************************)
(* A game of a file of two ranges and a file of one.                       *)
(***************************************************************************)
EXTENDS Rewrite

TwoFiles == [big |-> 2, small |-> 1]

Passing(p, w, c) == [passes |-> p, writes |-> w, crashes |-> c]
Either  == {Passing(2, 1, 0), Passing(2, 0, 1), Passing(3, 0, 0)}

================================================================================

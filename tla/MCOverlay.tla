------------------------------- MODULE MCOverlay -------------------------------
(***************************************************************************)
(* A behaviour is about one of four things, and the others rest where they *)
(* start: the update layer, over four small stores (a folder with a file   *)
(* beside an empty name, two folders, a folder in a folder, a file with    *)
(* two names), or for the swap over two like folders; the gate; the store  *)
(* format, one input per behaviour; and two builds of two games to one     *)
(* destination with one pool.                                              *)
(***************************************************************************)
EXTENDS Overlay, WriteGate, StoreFormat, StoreBuild, TLC

Tree  == {<<"d">>, <<"d", "a">>, <<"d", "a", "x">>, <<"e">>, <<"e", "a">>, <<"e", "a", "x">>,
          <<"f">>}
Spare == {<<"z">>, <<"z", "a">>, <<"z", "a", "x">>}
Wide  == Tree \cup Spare
Entry(path, file) == [path |-> path, file |-> file]

OneFolder  == <<Entry(<<"d">>, 0), Entry(<<"d", "a">>, 1)>>
TwoFolders == <<Entry(<<"d">>, 0), Entry(<<"d", "a">>, 1), Entry(<<"e">>, 0),
                Entry(<<"f">>, 2)>>
Nested     == <<Entry(<<"d">>, 0), Entry(<<"d", "a">>, 0), Entry(<<"d", "a", "x">>, 1)>>
TwoNames   == <<Entry(<<"e">>, 1), Entry(<<"f">>, 1)>>
Alike      == Nested \o <<Entry(<<"e">>, 0), Entry(<<"e", "a">>, 0)>>

Kept    == {OneFolder, TwoFolders, Nested, TwoNames}
Swapped == {Alike}

Budget(kinds) == {[k \in FaultKinds |-> IF k = kind THEN 1 ELSE 0] : kind \in kinds}
OneFault == Budget(FaultKinds)
NoFault  == Budget({"none"})

CONSTANTS handler1, handler2, file1, file2, game1, game2, build1, build2,
          chunk1, chunk2, target1

TwoGames  == build1 :> game1 @@ build2 :> game2
TwoLayouts == build1 :> BOOLEAN @@ build2 :> {TRUE}
OneTarget == build1 :> {target1} @@ build2 :> {target1}

VARIABLE unit

Resting == given = Given("reads", <<1>>)
Stocked == \A g \in Games : files[g][file1].data = chunk1 /\ files[g][file2].data = chunk2

Empty == /\ store = CHOOSE x \in Stores : TRUE
         /\ faults = CHOOSE x \in Budgets : TRUE

MountInit ==
  \/ unit = "layer" /\ Init /\ GateInit /\ Resting /\ BuildInit /\ Stocked
  \/ /\ unit \in {"gate", "build"} /\ GateInit /\ Resting /\ BuildInit /\ Stocked
     /\ Init /\ Empty
  \/ /\ unit = "format" /\ GateInit /\ BuildInit /\ Stocked
     /\ Init /\ Empty
     /\ FormatInit

MountNext == \/ unit = "layer" /\ Next /\ UNCHANGED <<gate, given, buildVars, unit>>
             \/ unit = "gate" /\ GateNext /\ UNCHANGED <<vars, given, buildVars, unit>>
             \/ unit = "build" /\ BuildNext /\ UNCHANGED <<vars, gate, given, unit>>

MountSpec == MountInit /\ [][MountNext]_<<vars, gate, given, buildVars, unit>>

================================================================================

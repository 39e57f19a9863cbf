------------------------------- MODULE MCWindow --------------------------------
(***************************************************************************)
(* The window over one game and the coordinator it shows, and two copies   *)
(* of the program reaching their coordinator.  They share nothing; a       *)
(* behaviour is one of either.                                             *)
(***************************************************************************)
EXTENDS Window, Exchange

CONSTANTS Old, New      \* an installed copy of version 1, and one of version 2
VARIABLE unit

MCVersionOf == [c \in Clients |-> IF c = New THEN 2 ELSE 1]
MCRequests  == [c \in Clients |-> IF c = New THEN 2 ELSE 1]

Ample(kinds) == [k \in WindowKinds |-> IF k \in DOMAIN kinds THEN kinds[k] ELSE 0]
MCBudgets == {
    Ample([restarts |-> 1]), Ample([orders |-> 1]), Ample([upkeep |-> 1]),
    Ample([finds |-> 1, errors |-> 1]), Ample([lost |-> 1, scans |-> 1]),
    Ample([finds |-> 1, ticks |-> 1]), Ample([scans |-> 1, errors |-> 1])}

UnitInit ==
    /\ unit \in {"window", "exchange"}
    /\ WindowInit /\ ExchangeInit
    /\ unit = "exchange" => could = CHOOSE b \in WindowBudgets : TRUE
    /\ unit = "window" => server.state = "none"

UnitNext ==
    /\ UNCHANGED unit
    /\ \/ unit = "window" /\ WindowNext /\ UNCHANGED exchange
       \/ unit = "exchange" /\ ExchangeNext /\ UNCHANGED windows

units == <<unit, windows, exchange>>
InWindow(A) == unit = "window" /\ A /\ UNCHANGED <<unit, exchange>>
InExchange(A) == unit = "exchange" /\ A /\ UNCHANGED <<unit, windows>>

UnitSpec ==
    /\ UnitInit /\ [][UnitNext]_units
    /\ WF_units(InWindow(Polls)) /\ WF_units(InWindow(Others))
    /\ \A c \in Clients : WF_units(InExchange(Runs(c)))

================================================================================

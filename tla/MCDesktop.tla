------------------------------ MODULE MCDesktop --------------------------------
(***************************************************************************)
(* The desktop platforms: the Windows coordinator on two folders of two    *)
(* files, and the replacement of a file on a Mac.  They share nothing; a   *)
(* behaviour is one of either.                                             *)
(***************************************************************************)
EXTENDS DesktopQueue, MacReplace, TLC

VARIABLE unit

Ample(kinds) == [k \in Kinds |-> IF k \in DOMAIN kinds THEN kinds[k] ELSE 0]
MCBudgets == {
    Ample([orders |-> 2, crashes |-> 1, commands |-> 1, errors |-> 1]),
    Ample([updates |-> 1, scans |-> 2, settings |-> 1, orders |-> 1]),
    Ample([orders |-> 2, settings |-> 1, plays |-> 1])}

UnitInit ==
    /\ unit \in {"windows", "mac"}
    /\ DesktopInit /\ ReplaceInit
    /\ unit = "mac" => /\ budget = Ample([orders |-> 2, settings |-> 1, plays |-> 1])
                      /\ \A g \in Games : world[g].build = 1

UnitNext ==
    /\ UNCHANGED unit
    /\ \/ unit = "windows" /\ DesktopNext /\ UNCHANGED replace
       \/ unit = "mac" /\ ReplaceNext /\ UNCHANGED desktop

UnitSpec == /\ UnitInit /\ [][UnitNext]_<<unit, desktop, replace>>
            /\ WF_<<unit, desktop, replace>>(unit = "windows" /\ Loop /\ UNCHANGED <<unit, replace>>)
            /\ WF_<<unit, desktop, replace>>(unit = "windows" /\ Thread /\ UNCHANGED <<unit, replace>>)

================================================================================

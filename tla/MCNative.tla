-------------------------------- MODULE MCNative -------------------------------
(***************************************************************************)
(* The macOS and Windows window over two folders, and the watcher over two *)
(* games of one folder.  They share nothing; a behaviour is one of either. *)
(***************************************************************************)
EXTENDS NativeWindow, Watch

VARIABLE unit

Budget(kinds, may) == [k \in kinds |-> IF k \in DOMAIN may THEN may[k] ELSE 0]

On(where, may) == [platform |-> where, may |-> Budget(NativeKinds, may)]
OnBoth(may) == {On(where, may) : where \in {"mac", "windows"}}
MCNativeBudgets ==
    OnBoth([edits |-> 2, badSaves |-> 1]) \cup OnBoth([edits |-> 1, badLoads |-> 1])
    \cup OnBoth([selects |-> 1, plans |-> 1, recovers |-> 1])
    \cup OnBoth([picks |-> 1, plans |-> 1, selects |-> 1])
    \cup {On("windows", [updates |-> 1, orders |-> 1, stops |-> 1]),
          On("windows", [edits |-> 1, deaths |-> 1]),
          On("mac", [updates |-> 1, badScans |-> 1, plans |-> 1, edits |-> 1])}

MCWatchLimits ==
    {Budget(WatchKinds, [changes |-> 4, writes |-> 1, starts |-> 1]),
     Budget(WatchKinds, [changes |-> 3, starts |-> 2, stops |-> 1, excludes |-> 1]),
     Budget(WatchKinds, [changes |-> 3, starts |-> 1, unreadable |-> 1, overflows |-> 1])}
MCAppLibrary == [a \in Apps |-> a]
MCFolderOf == [a \in Apps |-> 10]
Any(S) == CHOOSE x \in S : TRUE
UnitInit ==
    /\ unit \in {"window", "watch"}
    /\ NativeInit /\ (unit = "watch"  => could = Any(NativeBudgets))
    /\ WatchInit  /\ (unit = "window" => /\ watching.left = Any(WatchLimits)
                                         /\ \A a \in Apps : watching.apps[a] = "absent")

InNative(A) == unit = "window" /\ A /\ UNCHANGED <<unit, watching>>
InWatch(A)  == unit = "watch" /\ A /\ UNCHANGED <<unit, natives>>
UnitNext    == InNative(NativeNext) \/ InWatch(WatchNext)

units == <<unit, natives, watching>>
UnitSpec ==
    /\ UnitInit /\ [][UnitNext]_units
    /\ WF_units(InNative(Saving)) /\ WF_units(InNative(Scanning))
    /\ WF_units(InNative(PollingSteps)) /\ WF_units(InNative(Ordering))
    /\ WF_units(InNative(Working)) /\ WF_units(InNative(TimerPoll))
    /\ WF_units(InNative(Discovers))
    /\ WF_units(InWatch(Watcher)) /\ WF_units(InWatch(JobEnds))
================================================================================

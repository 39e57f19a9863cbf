--------------------------- MODULE MCInstallLifecycle --------------------------
(***************************************************************************)
(* Budgets of faults for the runs: one fault of some kind, or two.         *)
(***************************************************************************)
EXTENDS InstallLifecycle

Budget(first, second) ==
    [kind \in Kinds |-> Cardinality({i \in 1 .. 2 : <<first, second>>[i] = kind})]

OneOf(kinds) == {Budget(kind, "no more") : kind \in kinds}
TwoOf(kinds) == {Budget(first, second) : first, second \in kinds}

CONSTANTS f, n

AnyOne      == OneOf(Kinds) \cup {Budget("crash", "open")}
CrashOrMount == TwoOf({"crash", "mount"})
FailedMounts == CrashOrMount \cup TwoOf({"mount", "open"})

================================================================================

------------------------- MODULE MCDriverExecution -------------------------
(* The built-in inventory cut down to the drivers that behave differently: *)
(* iwlwifi is in the kernel tree and tracked by a scan, nvidia is neither. *)
EXTENDS DriverExecution, TLC

CONSTANTS c1, c2, iwlwifi, nvidia, nouveau, good

MCCallers == {c1, c2}
MCOneCaller == {c1}
MCDrivers == {iwlwifi, nvidia}
MCForeign == {nouveau}
MCTracked == {iwlwifi}
MCInTree  == {iwlwifi}
MCConflicting == [x \in MCDrivers |-> IF x = nvidia THEN {nouveau} ELSE {}]
MCNoConflicts == [x \in MCDrivers |-> {}]
MCModules == {iwlwifi, nvidia, nouveau}
MCNvidia  == {nvidia}
MCNone    == {}

\* The package of a trusted vendor.
MCGood == {good}

Install(x, f) == [kind |-> "install", driver |-> x, force |-> f,
                  target |-> "unset", allowDowngrade |-> FALSE]
Remove(x, f)  == [Install(x, f) EXCEPT !.kind = "remove"]
Update(x, t, a) == [Install(x, FALSE) EXCEPT !.kind = "update",
                                             !.target = t, !.allowDowngrade = a]

\* Every install and removal, and updates to each kind of target.
MCRequests ==
  {Install(x, f) : x \in MCDrivers, f \in BOOLEAN}
    \cup {Remove(x, f) : x \in MCDrivers, f \in BOOLEAN}
    \cup {Update(x, "notOlder", FALSE) : x \in MCDrivers}
    \cup {Update(iwlwifi, "older", a) : a \in BOOLEAN}
    \cup {Update(nvidia, "malformed", FALSE)}

\* A few that meet in every way, for two callers at once.
MCFewRequests ==
  {Install(nvidia, FALSE), Remove(nvidia, FALSE), Remove(iwlwifi, TRUE),
   Update(iwlwifi, "unset", FALSE)}

MCUpdates  == {Update(x, "unset", FALSE) : x \in MCDrivers}

Symmetry == Permutations(MCCallers)
=============================================================================

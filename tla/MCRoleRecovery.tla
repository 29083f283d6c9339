----------------------------- MODULE MCRoleRecovery -----------------------------
(* Instances of RoleRecovery: two roles of one Task, or two Tasks of one role each. *)
EXTENDS RoleRecovery, TLC

CONSTANTS s1, s2, n1, n2

TwoSlots == {s1, s2}
OneTask  == [s \in Slots |-> "T"]
TwoTasks == [s \in Slots |-> IF s = s1 THEN "T1" ELSE "T2"]
OneNode  == {n1}
TwoNodes == {n1, n2}
AllRole  == [n \in Nodes |-> "role"]
OneUnit  == {1}
TwoUnits == {2}
SlotAndNodeSymmetry ==
    {p @@ q : p \in Permutations({s1, s2}), q \in Permutations({n1, n2})}
\* Bound: a replacement that is deferred once, or one replacement for each slot; one
\* allocation less after a restart.
AllocationBound == gen[s1] + gen[s2] <= IF restored = {} THEN 4 ELSE 3
StopFacts == {"Running", "Cancelled"}
=============================================================================

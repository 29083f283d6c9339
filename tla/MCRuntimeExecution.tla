--------------------------- MODULE MCRuntimeExecution ---------------------------
(* One instance of RuntimeExecution with two branches that the first attempt decides: *)
(* a single slot on a role-recoverable Node, with every step of the module, and a     *)
(* two-role Group on a Node that declares Group recovery.                             *)
EXTENDS RuntimeExecution, TLC

CONSTANTS s1, s2, n1, n2

TwoSlots  == {s1, s2}
OneTask   == [s \in Slots |-> "task"]
TwoNodes  == {n1, n2}
Profiles  == [n \in Nodes |-> IF n = n1 THEN "role" ELSE "group"]
AllStops  == {"Running", "Completed", "Failed", "Cancelled"}
Stopping  == {"Running", "Failed", "Cancelled"}
SecondAttempts == {<<s1, 2>>, <<s2, 2>>}
UpToTwo   == {1, 2}

Untouched(s) == gen[s] = 0 /\ \A a \in Attempt : a[1] = s => owner[a] = NoNode
On(n)        == \A a \in Attempt : owner[a] \in {n, NoNode}

RoleStep(s, A) ==
    \/ Dispatch(s, n1)
    \/ Defer(s)
    \/ \E a \in A \cap (known \cup Early), q \in 0 .. MaxSeq, st \in Stopping, t \in Time :
          ObserveExecution(a, n1, q, st, t)
    \/ \E a \in A, p \in BOOLEAN : DispatchReceipt(a, p)
    \/ \E a \in A : RejectedCancelReceipt(a)
    \/ NodeUnavailable(n1)
    \/ \E a \in A : RequestCancellation({a})
    \/ \E a \in A, k \in Limits : RequestRecoveryStop(a, 1, k)
    \/ \E a \in A : MarkRecoveryRelease(a)

\* No receipts, no deferred allocations, no repeated sequences and no facts received before
\* they are reduced, and one tick of the clock: the role branch has the rest.
GroupStep ==
    \/ \E s \in Slots : active[s] = 0 /\ Dispatch(s, n2)
    \/ \E a \in known, st \in Reports : ObserveExecution(a, n2, 0, st, now)
    \/ NodeUnavailable(n2)
    \/ \E a \in known : RequestCancellation({a})
    \/ RequestGroupRecovery(1, 2)
    \/ PrepareContinuation

BranchNext ==
    \/ \E s \in Slots : /\ On(n1) /\ \A u \in Slots \ {s} : Untouched(u)
                        /\ RoleStep(s, {a \in Attempt : a[1] = s})
    \/ On(n2) /\ gen = active /\ GroupStep
    \/ (On(n1) \/ now = 0) /\ Tick
    \/ Restart

BranchSpec == Init /\ [][BranchNext]_vars

SlotSymmetry == Permutations(TwoSlots)
=============================================================================

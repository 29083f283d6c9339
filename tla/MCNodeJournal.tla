------------------------------ MODULE MCNodeJournal ------------------------------
(* Instances of NodeJournal: two executions that compete for one resource. *)
EXTENDS NodeJournal

CONSTANTS e1, e2, r

Both        == {e1, e2}
Single      == {e1}
OneResource == {r}
AllNeedIt   == [i \in Ids |-> {r}]
Publishing  == [i \in Ids |-> IF i = e1 THEN "publish" ELSE "none"]
Mixed       == [i \in Ids |-> IF i = e1 THEN "freeze" ELSE "publish"]

\* Either execution may be cancelled at any point, again and again, but not both.
PairNext ==
    \/ \E i \in Ids : \/ Execute(i) \/ ExecuteAgain(i)
                      \/ DispatchTask(i) \/ Poll(i) \/ Completion(i)
                      \/ CancelAccepted(i) \/ CancelFails(i) \/ LocalProgress(i)
    \/ \E i \in Ids : tomb \subseteq {i} /\ Cancel(i)
    \/ Restart

PairSpec == NInit /\ [][PairNext]_nvars /\ NodeFairness
=============================================================================

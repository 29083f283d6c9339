--------------------------- MODULE MCReplicaHandoff ---------------------------
(* Two members; a may start two processes and lose its supervisor once, b starts one. *)
EXTENDS ReplicaHandoff

CONSTANTS a, b

TwoMembers == {a, b}
ProcBound  == [m \in Members |-> IF m = a THEN 2 ELSE 1]
StopBound  == [m \in Members |-> IF m = a THEN 1 ELSE 0]

NoTransfer == \A m \in Members : xfer[m] = [x \in Transfers |-> NoRecord] /\ task[m] = NoTask
Batches    == Len(accepted) + Cardinality(flight) + Cardinality(writes[a]) + Cardinality(writes[b])
NoBatch    == Batches = 0 /\ \A m \in Members, p \in Processes : child[m][p] \in {"none", "boot", "ready"}
OneEach    == \A m \in Members : stops[m] = 0 /\ Len(journal[m]) <= 1

\* Only a hands over.  A restart and a second process of a meet neither batches nor a
\* transfer; and these meet each other without a restart, with one process per member and
\* one batch.
Scope ==
    /\ task[b] = NoTask /\ \A x \in Transfers : xfer[b][x].source # b
    /\ \/ NoTransfer /\ NoBatch
       \/ (NoTransfer \/ NoBatch) /\ (stops[a] = 0 \/ Len(journal[a]) <= 1)
       \/ OneEach /\ Batches <= 1
=============================================================================

--------------------------- MODULE MCMissionLifecycle ---------------------------
(* Instances of MissionLifecycle: a verified Task followed by a leased one, beside a *)
(* third; and two leased Tasks side by side.                                         *)
EXTENDS MissionLifecycle

CONSTANTS t1, t2, t3

BranchSeq   == <<t1, t2, t3>>
PairSeq     == <<t1, t2>>
Branch      == [t \in Tasks |-> IF t = t3 THEN {t1} ELSE {}]
Parallel    == [t \in Tasks |-> {}]
FirstVerified == [t \in Tasks |-> IF t = t1 THEN "Verifier" ELSE "Report"]
AllReported == [t \in Tasks |-> "Report"]
Last        == {t3}
YesOrNo     == {[ok |-> o, bind |-> b, send |-> b] : o \in BOOLEAN, b \in {{}, Tasks}}
AllOrNothing == {[ok |-> FALSE, bind |-> {}, send |-> {}],
                 [ok |-> TRUE, bind |-> Tasks, send |-> Tasks]}

\* Every step of MNext, with relations that fence the second and the third Task only.
BranchNext ==
    \/ \E t \in Tasks, s \in Attempts : StatusFact(t, s)
    \/ \E t \in {t2, t3} : RelationFenced(t)
    \/ \E t \in Tasks : StopProof(t) \/ StopEscalates(t)
    \/ \E t \in Tasks : LeaseAcknowledged(t) \/ VerdictExpires(t)
    \/ \E t \in Tasks, v \in {"Satisfied", "Unsatisfied"} : VerdictFact(t, v)
    \/ Timer \/ CancelRequest \/ ResumeRequest

BranchSpec == MInit /\ [][BranchNext]_mvars /\ MFairness
=============================================================================

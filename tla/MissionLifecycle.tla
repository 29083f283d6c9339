---------------------------- MODULE MissionLifecycle ----------------------------
(***************************************************************************)
(* One accepted Mission from its first Ready Task to Completed, Failed or  *)
(* Cancelled: orchestration/src/mission/lifecycle.rs, the Group and Task   *)
(* lifecycles of control/src/group, and the application stages that drive  *)
(* them (outcomes.rs, semantic_verifier.rs, safety_stop.rs, memory_use.rs, *)
(* isolation.rs, the cancel request of controller_http/server.rs).         *)
(*                                                                         *)
(* The Controller state of the Mission is one record c, because every fact *)
(* batch, timer tick and request reduces a private candidate through a     *)
(* fixed order of stages and installs it whole (AuthorityCommit checks     *)
(* that part).  A stage is an operator from candidate to candidate; one    *)
(* that returns an error raises err, and the transaction is rolled back    *)
(* with the store latched (halted).                                        *)
(*                                                                         *)
(* Abstractions: one Role per Task; the attempt of a Task is what Runtime  *)
(* last learnt of it (Unknown is as live as Running); Memory preparation   *)
(* and Memory use are one lease per attempt; ok stands for the State       *)
(* policy and the Memory source answering in this transaction.             *)
(***************************************************************************)
EXTENDS Integers, FiniteSets, Sequences, Functions

CONSTANTS
    TaskSeq,        \* the Tasks in identity order, the order of every BTreeMap
    Deps,           \* the Tasks each Task depends on
    Basis,          \* TaskSatisfactionBasis: "Report" or "Verifier"
    Leased,         \* Tasks with memory requirements
    Sources,        \* where its verdicts may come from: "Registry", "Feed" or either
    Answers         \* what the surroundings may answer within one transaction

Tasks == Range(TaskSeq)

\* A plan has a Task, and each once (TaskGraph::new).
ASSUME PlanAssumption ==
    /\ TaskSeq \in Seq(Tasks) /\ TaskSeq # <<>>
    /\ \A i, j \in 1 .. Len(TaskSeq) : TaskSeq[i] = TaskSeq[j] => i = j
    /\ Deps \in [Tasks -> SUBSET Tasks] /\ Basis \in [Tasks -> {"Report", "Verifier"}]
    /\ Leased \subseteq Tasks /\ Sources \subseteq {"Registry", "Feed"}
    /\ Answers \subseteq [ok : BOOLEAN, bind : SUBSET Tasks, send : SUBSET Tasks]

VARIABLES
    c,              \* the installed Controller state of this Mission
    halted          \* a shared transaction failed: writes are disabled

mvars == <<c, halted>>

MissionEnd   == {"Completed", "Failed", "Cancelled"}
Missions     == {"Running", "Cancelling"} \cup MissionEnd
Groups       == {"Bound", "Active", "Blocked", "Released"}
TaskStates   == {"Pending", "Ready", "Active", "Awaiting", "Completed", "Failed", "Rejected"}
TaskEnd      == {"Completed", "Failed", "Rejected"}
Live         == {"Sent", "Running"}
AttemptEnd   == {"Completed", "Late", "Failed", "Cancelled"}   \* Late: after its deadline
Attempts     == {"None"} \cup Live \cup AttemptEnd

Candidates == [
    mission : Missions, hold : {"None", "Safety", "Contract"}, group : Groups, source : Sources,
    task : [Tasks -> TaskStates], bound : SUBSET Tasks, att : [Tasks -> Attempts],
    stop : [Tasks -> {"None", "Open", "Manual", "Confirmed"}],
    lease : [Tasks -> {"None", "Granted", "Revoked", "Acked"}],
    verdict : [Tasks -> {"None", "Satisfied", "Unsatisfied"}], err : BOOLEAN]

Roots == {t \in Tasks : Deps[t] = {}}

MInit ==
    /\ halted = FALSE
    /\ \E s \in Sources : c = [
            mission |-> "Running", hold |-> "None", group |-> "Bound", source |-> s,
            task    |-> [t \in Tasks |-> IF t \in Roots THEN "Ready" ELSE "Pending"],
            bound   |-> {},                               \* Tasks owning reservations
            att     |-> [t \in Tasks |-> "None"],
            stop    |-> [t \in Tasks |-> "None"],         \* safety_stops by attempt
            lease   |-> [t \in Tasks |-> "None"],
            verdict |-> [t \in Tasks |-> "None"],         \* verifier evidence not yet applied
            err     |-> FALSE]

\* Op applied to each Task in order; e is bound to a value so that TLC computes it once.
Each(Op(_, _), d) ==
    LET f[i \in 0 .. Len(TaskSeq)] ==
            IF i = 0 THEN d ELSE CHOOSE r \in {Op(e, TaskSeq[i]) : e \in {f[i - 1]}} : TRUE
    IN  f[Len(TaskSeq)]

Fails(d)     == [d EXCEPT !.err = TRUE]
HasLive(d)   == \E t \in Tasks : d.att[t] \in Live
Progressing(d) == d.group \in {"Bound", "Active"}

(* ------------------------------ safety stops ------------------------------ *)
\* safety_stop::blocks_release, memory_use::blocks_release and blocks_task_release.
Unproved             == {"Open", "Manual"}
SafetyBlocks(d)      == \E t \in Tasks : d.stop[t] \in Unproved
LeaseBlocks(d, t)    == d.lease[t] \in {"Granted", "Revoked"}
MemoryBlocks(d)      == \E t \in Tasks : LeaseBlocks(d, t)

\* hold_for_safety: nothing on a held or cancelling Mission.
HoldForSafety(d) ==
    IF d.hold = "None" /\ d.mission # "Cancelling" THEN [d EXCEPT !.hold = "Safety"] ELSE d

\* admit: hold the Mission and open one stop purpose for the target and for every live
\* attempt of the Group that has none.
Admit(d, target) ==
    IF d.att[target] = "None" \/ d.mission \in MissionEnd THEN d
    ELSE [HoldForSafety(d) EXCEPT !.stop = [t \in Tasks |->
            IF @[t] = "None" /\ (t = target \/ d.att[t] \in Live) THEN "Open" ELSE @[t]]]

\* admit_group_stop takes any live attempt for the target.
AdmitGroupStop(d) ==
    IF HasLive(d) THEN Admit(d, CHOOSE t \in Tasks : d.att[t] \in Live) ELSE d

\* memory_use::revoke queues the fence once and stops the Group of a live attempt.
Revoke(d, t) ==
    LET e == [d EXCEPT !.lease[t] = IF @ = "Granted" THEN "Revoked" ELSE @]
    IN  IF d.lease[t] = "None" THEN d
        ELSE IF d.att[t] \in Live THEN AdmitGroupStop(e) ELSE e

RevokeGroup(d) == Each(Revoke, d)

(* --------------------- the Group and Mission lifecycle --------------------- *)
\* block_group when it still progresses, fail_group (Blocked only), release_group.
FailAndRelease(d) ==
    IF Progressing(d) \/ d.group = "Blocked"
    THEN [d EXCEPT !.group = "Released", !.bound = {}] ELSE Fails(d)

Ends(d, m) == [d EXCEPT !.mission = m, !.hold = "None"]

\* task_failed.
TaskFailed(d, t) ==
    IF d.task[t] \notin {"Active", "Awaiting"} THEN Fails(d)
    ELSE Ends(FailAndRelease([d EXCEPT !.task[t] = "Failed"]), "Failed")

\* reject_task_satisfaction_from_verifier.
Reject(d, t) ==
    IF d.task[t] # "Awaiting" THEN Fails(d)
    ELSE Ends(FailAndRelease([d EXCEPT !.task[t] = "Rejected"]), "Failed")

Faulty_RefreshReady(d) ==
    [d EXCEPT !.mission = "Running", !.task = [t \in Tasks |->
        IF @[t] = "Pending" /\ \A s \in Deps[t] : @[s] \in {"Awaiting", "Completed"} THEN "Ready" ELSE @[t]]]

\* refresh_ready: Pending Tasks whose dependencies are complete, and Mission Running.
RefreshReady(d) ==
    [d EXCEPT !.mission = "Running", !.task = [t \in Tasks |->
        IF @[t] = "Pending" /\ \A s \in Deps[t] : @[s] = "Completed" THEN "Ready" ELSE @[t]]]

\* complete_mission: complete_group admits an Active Group only.
CompleteMission(d) ==
    IF d.group # "Active" THEN Fails(d)
    ELSE Ends([d EXCEPT !.group = "Released", !.bound = {}], "Completed")

\* finish_task_satisfaction: satisfy, release the Task's bindings, refresh the DAG and
\* complete the Mission after its last Task.
Satisfy(d, t) ==
    IF d.task[t] # "Awaiting" THEN Fails(d)
    ELSE LET e == RefreshReady([d EXCEPT !.task[t] = "Completed", !.bound = @ \ {t}])
         IN  IF \A s \in Tasks : e.task[s] = "Completed" THEN CompleteMission(e) ELSE e

\* request_cancel blocks the Group and keeps what it owns; finalize_cancel gives it up.
RequestCancel(d)  == [d EXCEPT !.mission = "Cancelling",
                              !.group = IF Progressing(d) THEN "Blocked" ELSE @]
FinalizeCancel(d) == IF d.group # "Blocked" THEN Fails(d) ELSE Ends(FailAndRelease(d), "Cancelled")

Faulty_Cancellable(d) == ~HasLive(d) /\ ~MemoryBlocks(d)

\* What both callers of finalize_cancel check first.
Cancellable(d) == ~HasLive(d) /\ ~SafetyBlocks(d) /\ ~MemoryBlocks(d)

(* ------------------------ stages of a transaction ------------------------ *)
\* apply_pending_cancellations.
PendingCancellation(d) ==
    IF d.mission # "Cancelling" THEN d
    ELSE LET e == RevokeGroup(d) IN IF Cancellable(e) THEN FinalizeCancel(e) ELSE e

\* run_mission_transition skips a held Mission.
Transition(d, e) == IF d.hold # "None" THEN d ELSE e

Faulty_FailedOutcome(d, t) ==
    LET e == RevokeGroup(d)
    IN  IF MemoryBlocks(e) \/ SafetyBlocks(e) THEN e
        ELSE IF e.hold = "Safety" /\ e.att[t] = "Failed" THEN TaskFailed(e, t)
        ELSE Transition(e, TaskFailed(e, t))

\* A failed outcome: fence the leases, stop live peers first, and wait for both proofs.
FailedOutcome(d, t) ==
    LET e == RevokeGroup(d)
    IN  IF HasLive(e) THEN AdmitGroupStop(e)
        ELSE IF MemoryBlocks(e) \/ SafetyBlocks(e) THEN e
        ELSE IF e.hold = "Safety" /\ e.att[t] = "Failed" THEN TaskFailed(e, t)
        ELSE Transition(e, TaskFailed(e, t))

\* A completed outcome: a missed deadline isolates the Mission.
CompletedOutcome(d, t) ==
    IF SafetyBlocks(d) THEN d
    ELSE Transition(d, IF d.att[t] = "Late" THEN [d EXCEPT !.hold = "Contract"]
                       ELSE [d EXCEPT !.task[t] = "Awaiting"])

OutcomeDue(d, t) ==
    t \in d.bound /\ Progressing(d) /\ d.task[t] = "Active" /\ d.att[t] \in AttemptEnd

Faulty_ApplyOutcome(d, e, t) ==
    IF ~OutcomeDue(d, t) THEN e
    ELSE IF d.att[t] \in {"Failed", "Cancelled"} THEN FailedOutcome(e, t)
    ELSE CompletedOutcome(e, t)

\* One outcome of those collected from d, on the candidate e the ones before it left.
ApplyOutcome(d, e, t) ==
    IF ~OutcomeDue(d, t) \/ e.mission # "Running" THEN e
    ELSE IF d.att[t] \in {"Failed", "Cancelled"} THEN FailedOutcome(e, t)
    ELSE CompletedOutcome(e, t)

\* apply_selected_outcomes over terminal_task_execution_outcomes, collected beforehand.
Outcomes(d) == Each(LAMBDA e, t : ApplyOutcome(d, e, t), d)

Faulty_SatisfactionDue(d, t, ok) ==
    /\ d.hold = "None" /\ ~SafetyBlocks(d) /\ ok
    /\ d.task[t] = "Awaiting" /\ Basis[t] = "Report" /\ t \in d.bound

Reopening_SatisfactionDue(d, t, ok) ==
    /\ d.hold = "None" /\ ~SafetyBlocks(d) /\ ok
    /\ d.task[t] = "Awaiting" /\ Basis[t] = "Report" /\ ~LeaseBlocks(d, t)

\* The Mission's lifecycle is not consulted; what keeps an ended Mission out is that
\* task_policy_allows needs the Task's assignments.
SatisfactionDue(d, t, ok) ==
    /\ d.hold = "None" /\ ~SafetyBlocks(d) /\ ok
    /\ d.task[t] = "Awaiting" /\ Basis[t] = "Report"
    /\ t \in d.bound /\ ~LeaseBlocks(d, t)

\* apply_pending_execution_satisfaction, over what was due in d.
ApplySatisfaction(d, e, t, ok) ==
    IF SatisfactionDue(d, t, ok) THEN Transition(e, Satisfy(e, t)) ELSE e
PendingSatisfaction(d, ok) == Each(LAMBDA e, t : ApplySatisfaction(d, e, t, ok), d)

\* apply_task_verifier passes over a Cancelling Mission, semantic_verifier::apply_pending
\* only over an ended one.
DeafTo(d) == MissionEnd \cup (IF d.source = "Feed" THEN {"Cancelling"} ELSE {})

Rejected(d, t) ==
    LET e == RevokeGroup(d)
    IN  IF HasLive(d) THEN AdmitGroupStop(e)
        ELSE IF MemoryBlocks(e) THEN e
        ELSE [Reject(e, t) EXCEPT !.verdict[t] = "None"]

\* One verifier verdict.
ApplyVerdict(d, t, ok) ==
    IF d.verdict[t] = "None" THEN d
    ELSE IF d.mission \in MissionEnd \/ d.task[t] \in TaskEnd
    THEN [d EXCEPT !.verdict[t] = "None"]                                \* incident
    ELSE IF d.mission \in DeafTo(d) \/ d.task[t] # "Awaiting" \/ d.hold # "None" \/ SafetyBlocks(d)
    THEN d
    ELSE IF d.verdict[t] = "Unsatisfied" THEN Rejected(d, t)
    ELSE IF LeaseBlocks(d, t) \/ ~ok \/ t \notin d.bound THEN d
    ELSE [Satisfy(d, t) EXCEPT !.verdict[t] = "None"]

\* The registry is reduced in every transaction, the feed is read by the timer.
Verdicts(d, ok, timer) ==
    IF d.source = "Feed" /\ ~timer THEN d ELSE Each(LAMBDA e, t : ApplyVerdict(e, t, ok), d)

\* dispatchable_tasks.
Dispatchable(d) ==
    {t \in Tasks : /\ d.mission = "Running" /\ d.hold = "None" /\ Progressing(d)
                   /\ d.task[t] = "Ready"}

\* drive_ready_tasks: Control binds the Tasks in bind, Runtime prepares attempts for send.
DriveReady(d, bind, send) ==
    LET bound == d.bound \cup (bind \cap Dispatchable(d))
        new   == {t \in send \cap bound \cap Dispatchable(d) : d.att[t] = "None"}
    IN  [d EXCEPT !.bound = bound, !.att = [t \in Tasks |-> IF t \in new THEN "Sent" ELSE @[t]]]

MayUseMemory(d) == d.mission = "Running" /\ d.hold = "None"

Faulty_PrepareLease(d, e, t, ok) ==
    IF t \in Leased /\ e.lease[t] = "None" /\ e.att[t] = "Sent" /\ MayUseMemory(d) /\ ok
    THEN [e EXCEPT !.lease[t] = "Granted"]
    ELSE IF ~MayUseMemory(d) THEN Revoke(e, t) ELSE e

\* Open the lease of a new attempt, revoke it once the attempt ended or the Mission lost
\* authority.
PrepareLease(d, e, t, ok) ==
    IF t \in Leased /\ e.lease[t] = "None" /\ e.att[t] = "Sent" /\ MayUseMemory(d) /\ ok
    THEN [e EXCEPT !.lease[t] = "Granted"]
    ELSE IF e.att[t] \in AttemptEnd \/ ~MayUseMemory(d) THEN Revoke(e, t) ELSE e

\* memory_preparation::prepare and memory_use::prepare close every transaction.
PrepareMemory(d, ok) == Each(LAMBDA e, t : PrepareLease(d, e, t, ok), d)

\* Install the candidate, or roll back and disable writes.
Install(d) ==
    /\ ~halted
    /\ IF d.err THEN halted' = TRUE /\ UNCHANGED c ELSE c' = d /\ UNCHANGED halted

\* The stages of a fact batch and of a timer tick after their facts, in order, each on the
\* candidate the one before it left.
ReduceWith(d, ch, timer) ==
    \E a \in {PendingCancellation(d)} :
    \E b \in {Outcomes(a)} :
    \E e \in {PendingSatisfaction(b, ch.ok)} :
    \E f \in {Verdicts(e, ch.ok, timer)} :
    \E g \in {DriveReady(f, ch.bind, ch.send)} :
    \E h \in {PrepareMemory(g, ch.ok)} : Install(h)

FactBatch(d) == \E ch \in Answers : ReduceWith(d, ch, FALSE)
Tick(d)      == \E ch \in Answers : ReduceWith(d, ch, TRUE)

(* ------------------------------ transactions ------------------------------ *)
\* A Node reports on its attempt.  Any status but Dispatched and Unknown activates a Ready
\* Task (and a Bound Group) in the same batch; Cancelled answers a stop, and a leased Task
\* starts only after its lease.
StatusFact(t, s) ==
    /\ \/ c.att[t] = "Sent" /\ s \in {"Running"} \cup AttemptEnd
       \/ c.att[t] = "Running" /\ s \in AttemptEnd
    /\ s = "Cancelled" => c.stop[t] # "None"
    /\ t \in Leased /\ s # "Cancelled" => c.lease[t] # "None"
    /\ FactBatch([c EXCEPT !.att[t] = s,
                           !.task[t] = IF @ = "Ready" /\ t \in c.bound THEN "Active" ELSE @,
                           !.group = IF @ = "Bound" /\ c.task[t] = "Ready" /\ t \in c.bound
                                     THEN "Active" ELSE @])

\* A fenced Runtime relation admits a stop for its target attempt.
RelationFenced(t) == c.att[t] # "None" /\ c.stop[t] = "None" /\ FactBatch(Admit(c, t))

\* safety_stop::tick confirms a stop from the terminal fact and the independent observation.
StopProof(t) ==
    /\ c.stop[t] = "Open" /\ c.att[t] \in AttemptEnd
    /\ Tick([c EXCEPT !.stop[t] = "Confirmed"])

\* Its deadline passes, the Node rejects the command, or nothing declares how to stop.
StopEscalates(t) == c.stop[t] = "Open" /\ FactBatch([c EXCEPT !.stop[t] = "Manual"])

\* Every provider of the attempt acknowledged the revoke.
LeaseAcknowledged(t) == c.lease[t] = "Revoked" /\ FactBatch([c EXCEPT !.lease[t] = "Acked"])

\* Evidence about the current attempt, at any time after dispatch: posted to the registry,
\* which reduces it at once and refuses on an error, or found in the feed.  It may expire.
VerdictFact(t, v) ==
    /\ Basis[t] = "Verifier" /\ c.verdict[t] = "None" /\ c.att[t] # "None" /\ ~halted
    /\ \E d \in {[c EXCEPT !.verdict[t] = v]} :
        \/ c.source = "Feed" /\ Tick(d)
        \/ c.source = "Registry" /\ \E ch \in Answers :
            \E e \in {DriveReady(Verdicts(d, ch.ok, FALSE), ch.bind, ch.send)} :
                ~e.err /\ c' = e /\ UNCHANGED halted
VerdictExpires(t) == c.verdict[t] # "None" /\ Tick([c EXCEPT !.verdict[t] = "None"])

Timer == Tick(c)

\* The cancel request of the operator; it finalizes at once when nothing is in the way.
CancelRequest ==
    /\ c.mission \notin MissionEnd /\ ~halted
    /\ LET d == RequestCancel(RevokeGroup(AdmitGroupStop(c)))
           e == IF Cancellable(d) THEN FinalizeCancel(d) ELSE d
       IN  ~e.err /\ c' = e /\ UNCHANGED halted

\* The operator resumes a held Mission: revalidate_mission_resume, the pending outcomes,
\* the Ready Tasks; a Mission held again is rolled back.
ResumeRequest ==
    /\ c.hold # "None" /\ c.mission = "Running" /\ ~halted
    /\ ~SafetyBlocks(c) /\ ~MemoryBlocks(c)
    /\ \E ch \in Answers :
        LET d == DriveReady(PendingSatisfaction(Outcomes([c EXCEPT !.hold = "None"]), ch.ok),
                            ch.bind, ch.send)
        IN  ~d.err /\ d.hold = "None" /\ c' = d /\ UNCHANGED halted

MNext ==
    \/ \E t \in Tasks, s \in Attempts : StatusFact(t, s)
    \/ \E t \in Tasks : RelationFenced(t) \/ StopProof(t) \/ StopEscalates(t)
    \/ \E t \in Tasks : LeaseAcknowledged(t) \/ VerdictExpires(t)
    \/ \E t \in Tasks, v \in {"Satisfied", "Unsatisfied"} : VerdictFact(t, v)
    \/ Timer \/ CancelRequest \/ ResumeRequest

MSpec == MInit /\ [][MNext]_mvars

(* ------------------------------- properties ------------------------------- *)
\* The Controller state of the Mission keeps its shape: only a Task between Ready and its
\* satisfaction owns reservations.
MissionTypeOK ==
    /\ c \in Candidates /\ ~c.err /\ halted \in BOOLEAN
    /\ \A t \in c.bound : c.task[t] \in {"Ready", "Active", "Awaiting"}

\* While a physical attempt may still be running, its Task keeps its reservations and the
\* Mission has not ended: no failure, rejection, cancellation or completion of a peer gives
\* them away (outcomes.rs, "finalizes cancellation only after every retained physical
\* attempt becomes terminal").
OwnershipCoversLiveAttempts ==
    \A t \in Tasks : c.att[t] \in Live => t \in c.bound /\ c.mission \notin MissionEnd

\* An ended Mission has released its Group with everything in it, holds no isolation, and
\* the Group is released for no other reason.
EndedHoldsNothing ==
    /\ c.mission \in MissionEnd <=> c.group = "Released"
    /\ c.group = "Released" => c.bound = {} /\ c.hold = "None"

\* A Task leaves Pending only after all its dependencies were satisfied, and Completed is
\* said of a Mission exactly when every Task was.
DependenciesFirst ==
    /\ \A t \in Tasks : c.task[t] # "Pending" => \A s \in Deps[t] : c.task[s] = "Completed"
    /\ c.mission = "Completed" <=> \A t \in Tasks : c.task[t] = "Completed"

\* A Task is satisfied, and a Mission ends, only after every Memory provider of its attempts
\* acknowledged the revoke (memory_use::blocks_task_release, blocks_release).
ReleasedAfterLeaseFence ==
    \A t \in Tasks : c.task[t] = "Completed" \/ c.mission \in MissionEnd => ~LeaseBlocks(c, t)

\* Reservations are given up only when every stop the Controller had demanded of the Mission
\* was proved, and no Task gives up its own under a stop that is not: an open or escalated
\* stop retains ownership (safety_stop::blocks_release).
StopBeforeRelease ==
    [][\A t \in c.bound \ c'.bound :
        /\ c'.stop[t] \notin Unproved
        /\ \A s \in Tasks : c.stop[s] \in Unproved => c'.stop[s] \notin Unproved]_mvars

\* A stage of a fact batch or timer tick returns an error, which rolls the batch back and
\* stops the Controller, only for a Mission whose cancellation was lost (the defect
\* CancellationSticks shows): its Group is Blocked although it is Running, and complete_group
\* refuses it after its last Task.  Every other lifecycle call finds the Group and the Task
\* in a state that admits it.
HaltsOnlyOnLostCancel == halted => c.mission = "Running" /\ c.group = "Blocked"

\* A Mission whose cancellation was accepted is only ever Cancelling or Cancelled again
\* (request_cancel "persists a cancellation request").
CancellationSticks ==
    [][c.mission = "Cancelling" => c'.mission \in {"Cancelling", "Cancelled"}]_mvars

(* -------------------------------- liveness -------------------------------- *)
FullTimer == ReduceWith(c, [ok |-> TRUE, bind |-> Tasks, send |-> Tasks], TRUE)

\* The timer runs for ever; Nodes end what they run and answer stops with evidence; Memory
\* providers acknowledge; verifiers decide; the State policy, the Memory source and free
\* resources answer again and again.
MFairness ==
    /\ SF_mvars(FullTimer)
    /\ \A t \in Tasks :
        /\ WF_mvars(\E s \in AttemptEnd : StatusFact(t, s))
        /\ WF_mvars(StopProof(t) \/ StopEscalates(t))
    /\ \A t \in Leased : WF_mvars(LeaseAcknowledged(t))
    /\ \A t \in {u \in Tasks : Basis[u] = "Verifier"} :
        SF_mvars(\E v \in {"Satisfied", "Unsatisfied"} : VerdictFact(t, v))

MFairSpec == MSpec /\ MFairness

\* What waits for an operator: an escalated stop, a hold of a Mission nobody cancelled, and
\* the defect of MCMissionCancelLost, a Mission Running with the Group its cancel blocked.
Escalated == \E t \in Tasks : c.stop[t] = "Manual"
Held      == c.mission = "Running" /\ (c.hold # "None" \/ c.group = "Blocked")

\* Neither a Mission nor its accepted cancellation hangs between stages: it ends, or waits
\* for an operator (apply_pending_cancellations and the outcome stages on every batch and
\* tick, memory_use::prepare for the fences they wait for).
MissionSettles == []<>(c.mission \in MissionEnd \/ Escalated \/ Held)
=============================================================================

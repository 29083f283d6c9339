------------------------------ MODULE RoleRecovery ------------------------------
(***************************************************************************)
(* The bounded role-recovery loop of the Controller: the Runtime authority *)
(* of RuntimeExecution composed with the slice of Control it needs (Group  *)
(* lifecycle, TaskExecution lifecycle, role bindings) and the application  *)
(* drivers that move one Mission: drive_ready_task, apply_runtime_events,  *)
(* apply_recovery_required, resume_role_recovery, drive_rebound_attempts.  *)
(*                                                                         *)
(* Every action is one committed Controller transaction.  Whether a driver *)
(* finds a candidate Node, coordination readiness or a free Memory fence   *)
(* is decided by parts that are not in this module, so a driver step may   *)
(* find its way clear at any tick.  Matching, scheduling, commit and       *)
(* rebind of one pending role happen in the same transaction.              *)
(*                                                                         *)
(* Faulty_X is a plausible slip in X that nothing uses (RuntimeExecution). *)
(***************************************************************************)
EXTENDS RuntimeExecution

VARIABLES
    group,      \* GroupLifecycle of the Mission-level Group
    task,       \* TaskExecutionLifecycle of each Task
    bind,       \* Node assigned to each slot by Control, NoNode when none
    need        \* task_unbound_roles: slots whose binding recovery released

control == <<group, task, bind, need>>
rvars   == <<vars, control>>

SlotsOf(t) == {s \in Slots : TaskOf[s] = t}

Faulty_MatchesBinding(s, n) ==      \* takes an attempt no Node has answered for a missing one
    active[s] # 0 /\ owner[Current(s)] = n /\ status[Current(s)] # "Dispatched"

\* current_attempt_matches_binding compares Nodes only.
MatchesBinding(s, n) == active[s] # 0 /\ owner[Current(s)] = n

Faulty_Dispatchable == {"Bound", "Active", "Adapted", "Blocked"}

Dispatchable == {"Bound", "Active", "Adapted"}

RInit ==
    /\ Init
    /\ group = "Bound"
    /\ task = [t \in Tasks |-> "Ready"]
    /\ bind = [s \in Slots |-> NoNode]
    /\ need = {}

-----------------------------------------------------------------------------
(***************************************************************************)
(* Dispatch of Ready Tasks                                                 *)
(***************************************************************************)

\* drive_ready_task: bind an unassigned Task as a whole, then give every role whose
\* current attempt is not on its Node a fresh attempt; coordination may defer the lot,
\* which still consumes the first allocation.
DriveReadyTask(t, b) ==
    LET S       == SlotsOf(t)
        unbound == \A s \in S : bind[s] = NoNode
        missing == {s \in S : bind'[s] # NoNode /\ ~MatchesBinding(s, bind'[s])}
    IN /\ group \in Dispatchable /\ task[t] = "Ready" /\ ~HoldsDispatch
       /\ bind' = [s \in Slots |-> IF unbound /\ s \in S THEN b[s] ELSE bind[s]]
       /\ \/ \E g \in [missing -> 1 .. MaxGen] : Prepare(missing, g, bind') /\ UNCHANGED rounds
          \/ \E s \in missing : Defer(s)
       /\ UNCHANGED <<group, task, need>>

-----------------------------------------------------------------------------
(***************************************************************************)
(* Node evidence and the lifecycle it drives                               *)
(***************************************************************************)

\* A late fact cannot activate a Task that is released or rebound elsewhere.
FullyMatched(t) == \A s \in SlotsOf(t) : bind[s] # NoNode /\ MatchesBinding(s, bind[s])

\* apply_runtime_events on TaskActivated: activate_task_execution for a Ready Task,
\* activate_group when a replacement of an Active Task finds the Group Adapted.
ApplyTaskActivated(t) ==
    IF task[t] = "Ready"
    THEN /\ task'  = [task EXCEPT ![t] = "Active"]
         /\ group' = IF group \in {"Bound", "Adapted"} THEN "Active" ELSE group
    ELSE /\ group' = IF group = "Adapted" THEN "Active" ELSE group
         /\ UNCHANGED task

Fact(a, n, q, st, t) ==
    /\ ObserveExecution(a, n, q, st, t)
    /\ IF EmitsTaskActivated(a, st) /\ FullyMatched(TaskOf[a[1]])
       THEN ApplyTaskActivated(TaskOf[a[1]]) ELSE UNCHANGED <<group, task>>
    /\ UNCHANGED <<bind, need>>

NodeLost(n) == NodeUnavailable(n) /\ UNCHANGED control

-----------------------------------------------------------------------------
(***************************************************************************)
(* The recovery pipeline                                                   *)
(***************************************************************************)

\* request_execution_recovery: only for the attempt that owns the current binding.
RequestRecovery(a, d, k) ==
    /\ bind[a[1]] = owner[a]
    /\ RequestRecoveryStop(a, d, k)
    /\ UNCHANGED control

\* apply_recovery_required: Control blocks the Group and releases exactly this binding.
BeginRecovery(s) ==
    /\ active[s] # 0
    /\ MarkRecoveryRelease(Current(s))
    /\ group \in Dispatchable
    /\ bind[s] = owner[Current(s)]
    /\ group' = "Blocked"
    /\ bind' = [bind EXCEPT ![s] = NoNode]
    /\ need' = need \cup {s}
    /\ UNCHANGED task

Faulty_AttemptPermitted(s) ==      \* forgets the deadline and the abort
    active[s] # 0 /\ stop[Current(s)].released

\* recovery_release_permitted, recovery_attempt_permitted: the released stop still counts.
AttemptPermitted(s) == active[s] # 0 /\ stop[Current(s)].released /\ RecoveryStopReady(Current(s))

\* drive_rebound_attempts looks at Adapted Groups and Active Tasks only.
Rebound(s) == bind'[s] # NoNode /\ task[TaskOf[s]] = "Active" /\ AttemptPermitted(s)

\* A fresh attempt on the rebound Node, or one more deferred allocation.
DriveSlot(s) ==
    \/ \E g \in 1 .. MaxGen : Prepare({s}, [x \in {s} |-> g], bind') /\ UNCHANGED rounds
    \/ Defer(s)

\* resume_role_recovery followed, in the same transaction, by drive_rebound_attempts:
\* any supporting Node, the stopped owner included, may be committed.
ResumeRecovery(s, n) ==
    /\ s \in need /\ group = "Blocked"
    /\ AttemptPermitted(s) /\ Support[n] = "role"
    /\ group' = "Adapted"
    /\ bind' = [bind EXCEPT ![s] = n]
    /\ need' = need \ {s}
    /\ UNCHANGED task
    /\ IF Rebound(s) THEN DriveSlot(s) ELSE UNCHANGED vars

DriveReboundAttempt(s) ==
    /\ group = "Adapted"
    /\ UNCHANGED control
    /\ Rebound(s)
    /\ DriveSlot(s)

\* Operator or Mission cancellation of every attempt that is not settled.
CancelGroup ==
    /\ RequestCancellation({a \in known : status[a] \in Live \/ HasStop(a)})
    /\ UNCHANGED control

Clock == Tick /\ UNCHANGED control
Reboot == Restart /\ UNCHANGED control

RNext ==
    \/ \E t \in Tasks, b \in [Slots -> Nodes] : DriveReadyTask(t, b)
    \/ \E a \in known, n \in Nodes, q \in 0 .. MaxSeq, st \in Reports, t \in Time :
          Fact(a, n, q, st, t)
    \/ \E n \in Nodes : NodeLost(n)
    \/ \E a \in known, d \in Timeouts, k \in Limits : RequestRecovery(a, d, k)
    \/ \E s \in Slots : BeginRecovery(s)
    \/ \E s \in Slots, n \in Nodes : ResumeRecovery(s, n)
    \/ \E s \in Slots : DriveReboundAttempt(s)
    \/ CancelGroup
    \/ Clock
    \/ Reboot

RSpec == RInit /\ [][RNext]_rvars

-----------------------------------------------------------------------------
(***************************************************************************)
(* Properties                                                              *)
(***************************************************************************)

\* At most one role of the Group is released at a time, only after the work on its binding
\* really stopped, and exactly while the Group is Blocked: neither activate_group nor a
\* dispatch ever meets an incomplete binding, whose error would end the timer transaction.
ReleasedExactlyWhileBlocked ==
    /\ \A s, r \in need : s = r
    /\ need # {} <=> group = "Blocked"
    /\ \A s \in need : bind[s] = NoNode /\ status[Current(s)] = "Cancelled"

\* A slot never has two attempts that may still act: whatever Node the replacement is
\* bound to, the attempt it supersedes has reported Cancelled.
OneLiveAttempt == \A a \in known : status[a] \in Live => IsCurrent(a)

\* A replacement is prepared only from a stop that was confirmed and released inside its
\* budget and that no cancellation has overridden.
ReplacementIsAuthorized ==
    [][\A s \in Slots : active'[s] # active[s] /\ active[s] # 0 =>
          /\ stop[Current(s)].released /\ ~stop[Current(s)].aborted
          /\ now < stop[Current(s)].deadline]_rvars

\* When the first fact of a replacement of this process proves activation and every role
\* of its Task is bound and matched, an Adapted Group becomes Active in that transaction.
\* (Restart clears reactivating, so a replacement an earlier process prepared is exempt.)
FreshReplacementReactivates ==
    [][\A s \in Slots :
          /\ group = "Adapted" /\ task[TaskOf[s]] = "Active" /\ active[s] # 0
          /\ Current(s) \notin restored /\ seq[Current(s)] = -1
          /\ FullyMatched(TaskOf[s])
          /\ \E a \in known : a[1] = s /\ a[2] < active[s]
          /\ ProvesActivation(status'[Current(s)]) /\ ~ProvesActivation(status[Current(s)])
          => group' = "Active"]_rvars

\* A role of an Active Task that Control has rebound and whose replacement is permitted
\* can be driven: drive_rebound_attempts "Creates a fresh physical attempt after Control
\* has rebound an active logical Role" (integration-server application/dispatch.rs).
ReboundRoleDrivable ==
    \A s \in Slots :
        bind[s] # NoNode /\ task[TaskOf[s]] = "Active" /\ AttemptPermitted(s) => group = "Adapted"
=============================================================================

---------------------------- MODULE RuntimeExecution ----------------------------
(***************************************************************************)
(* The Controller's Runtime execution authority for one Execution Group:   *)
(* src/core/runtime/src/execution (RuntimeExecutionManager), with the      *)
(* parts of src/core/orchestration/src/integration_bridge that reduce one  *)
(* Node fact or receipt into it.                                           *)
(*                                                                         *)
(* A logical slot is a Task role of the Group.  A physical attempt is the  *)
(* pair of its slot and its generation, which is exactly what the code's   *)
(* execution id "attempt-group-task-role-generation" encodes.  Every       *)
(* transition is one committed application transaction: the candidate      *)
(* state is checkpointed before it becomes live and before anything is     *)
(* sent, so the durable checkpoint always equals the state between two     *)
(* steps and a crash loses nothing but the volatile sets Restart rebuilds. *)
(*                                                                         *)
(* Facts and receipts come from an open environment: any Node may report   *)
(* any status with any sequence number, late, twice or out of order.       *)
(*                                                                         *)
(* An operator named Faulty_X is a plausible slip in X.  Nothing uses it:  *)
(* substituted for X it shows that a property notices the slip.            *)
(***************************************************************************)
EXTENDS Integers, FiniteSets, Sequences

CONSTANTS
    Slots,      \* logical (Task, role) slots of the Group
    TaskOf,     \* the Task each slot belongs to
    Nodes,      \* Node identities
    NoNode,     \* absence of a Node
    Support,    \* recovery declaration frozen at dispatch: "role", "group" or "none"
    Reports,    \* statuses the Nodes' facts carry
    Early,      \* attempts a Node may report although no context was ever prepared
    MaxGen,     \* bound on physical attempts of one slot
    MaxSeq,     \* bound on execution-local fact sequences
    MaxTime,    \* bound on the Controller clock
    Timeouts,   \* recovery time budgets an operator may ask for
    Limits,     \* replacement ceilings an operator may ask for
    MaxRounds   \* bound on Group recovery rounds

Attempt  == Slots \X (1 .. MaxGen)
Tasks    == {TaskOf[s] : s \in Slots}
NoTime   == -1
Time     == 0 .. MaxTime
Live     == {"Dispatched", "Accepted", "Running", "Unknown"}
Terminal == {"Completed", "Failed", "Cancelled"}
MaxTimeout      == 3600000      \* longest recovery budget, in milliseconds
MaxReplacements == 16           \* highest replacement ceiling
Reported == {"Accepted", "Running", "Unknown"} \cup Terminal   \* what a Node fact may carry

ASSUME SlotAssumption    == NoNode \notin Nodes /\ DOMAIN TaskOf = Slots
ASSUME SupportAssumption == Support \in [Nodes -> {"role", "group", "none"}]
ASSUME BoundAssumption   == /\ MaxGen \in Nat \ {0}
                            /\ MaxSeq \in Nat
                            /\ MaxTime \in Nat
                            /\ MaxRounds \in Nat
ASSUME FactAssumption    == Reports \subseteq Reported /\ Early \subseteq Attempt
ASSUME BudgetAssumption  == /\ Timeouts \subseteq 1 .. MaxTimeout
                            /\ Limits \subseteq 1 .. MaxReplacements

VARIABLES
    known,          \* executions: attempts with a committed context (and an outbox intent)
    owner,          \* execution_nodes: Node that received or first reported an attempt
    status,         \* execution_status, "None" when absent
    seq,            \* execution_sequences, -1 when absent
    delivered,      \* outbox intents acknowledged by a Node
    cancels,        \* cancellation_intents
    active,         \* active_executions: generation of the current attempt, 0 when none
    gen,            \* attempt_generations: last allocated generation
    restored,       \* restored_executions: never routed again by this process
    activated,      \* activated_tasks
    reactivating,   \* reactivation_attempts
    termAt,         \* terminal_received_at
    stop,           \* recovery_stops
    budget,         \* recovery_budgets
    rounds,         \* group_recoveries, oldest first
    now             \* Controller clock

vars == <<known, owner, status, seq, delivered, cancels, active, gen, restored,
          activated, reactivating, termAt, stop, budget, rounds, now>>

(***************************************************************************)
(* Durable recovery records.  requested = NoTime marks an absent stop.     *)
(***************************************************************************)
RecoveryStop == [requested : Time \cup {NoTime}, deadline : Int, limit : Nat,
                 confirmed : Time \cup {NoTime}, released : BOOLEAN, aborted : BOOLEAN]

NoStop == [requested |-> NoTime, deadline |-> NoTime, limit |-> 0,
           confirmed |-> NoTime, released |-> FALSE, aborted |-> FALSE]

Budget == [limit : Nat, used : Nat]

GroupRound == [members   : SUBSET Attempt, preserved : SUBSET Attempt,
               requested : Time, deadline : Int, limit : Nat,
               confirmed : [Attempt -> Time \cup {NoTime}],
               fresh     : SUBSET Attempt, prepared : Time \cup {NoTime},
               admitted  : [Attempt -> Time \cup {NoTime}],
               aborted   : BOOLEAN]

Init ==
    /\ known = {} /\ delivered = {} /\ cancels = {}
    /\ restored = {} /\ activated = {} /\ reactivating = {}
    /\ owner  = [a \in Attempt |-> NoNode]
    /\ status = [a \in Attempt |-> "None"]
    /\ seq    = [a \in Attempt |-> -1]
    /\ termAt = [a \in Attempt |-> NoTime]
    /\ stop   = [a \in Attempt |-> NoStop]
    /\ active = [s \in Slots |-> 0]
    /\ gen    = [s \in Slots |-> 0]
    /\ budget = [s \in Slots |-> [limit |-> 0, used |-> 0]]
    /\ rounds = <<>>
    /\ now = 0

-----------------------------------------------------------------------------
(***************************************************************************)
(* Queries                                                                 *)
(***************************************************************************)
Current(s)         == <<s, active[s]>>
IsCurrent(a)       == a \in known /\ active[a[1]] = a[2]
HasStop(a)         == stop[a].requested # NoTime
ProvesActivation(st) == st \in {"Accepted", "Running"} \cup Terminal
CurrentAttempts    == {a \in known : IsCurrent(a)}

\* Execute intents the outbox would still route.
PendingDispatch == {a \in known \ (delivered \cup cancels) : status[a] = "Dispatched"}

\* A role stop is usable: current, really Cancelled in time, budget unexpired.
RecoveryStopReady(a) ==
    /\ IsCurrent(a) /\ HasStop(a) /\ ~stop[a].aborted
    /\ status[a] = "Cancelled"
    /\ Support[owner[a]] = "role"
    /\ stop[a].confirmed # NoTime
    /\ stop[a].confirmed < stop[a].deadline
    /\ stop[a].confirmed <= now /\ now < stop[a].deadline

InTime(t, r) == t # NoTime /\ t < r.deadline /\ t <= now

MemberStopped(r, a) ==
    \/ a \in r.preserved
    \/ status[a] \in {"Cancelled", "Completed"} /\ InTime(r.confirmed[a], r)

\* What an unaborted round is waiting for.
OpenDisposition(r) ==
    CASE r.fresh # {} ->
            IF \A a \in r.fresh : InTime(r.admitted[a], r) THEN "Continued"
            ELSE IF now >= r.deadline THEN "BudgetExpired" ELSE "ContinuationPrepared"
      [] r.fresh = {} ->
            IF \E a \in r.members : status[a] = "Failed" THEN "OriginalFailed"
            ELSE IF \A a \in r.members : status[a] = "Completed" THEN "OriginalCompleted"
            ELSE IF now >= r.deadline THEN "BudgetExpired"
            ELSE IF \A a \in r.members : IsCurrent(a) /\ MemberStopped(r, a)
                 THEN "StopConfirmed" ELSE "AwaitingStop"

Faulty_Disposition(r) == OpenDisposition(r)      \* forgets the abort

Disposition(r) == IF r.aborted THEN "Aborted" ELSE OpenDisposition(r)

Faulty_HoldsDispatch ==      \* lets an expired round go
    /\ rounds # <<>>
    /\ Disposition(rounds[Len(rounds)]) \in {"AwaitingStop", "StopConfirmed", "ContinuationPrepared"}

\* Only the latest round of the Group is consulted.
HoldsDispatch ==
    /\ rounds # <<>>
    /\ Disposition(rounds[Len(rounds)])
         \in {"AwaitingStop", "StopConfirmed", "ContinuationPrepared", "BudgetExpired"}

\* The retained round an attempt belongs to as a member, the newest first.
PreservesCancelled(a) ==
    \E i \in DOMAIN rounds :
        /\ a \in rounds[i].members /\ ~rounds[i].aborted
        /\ \A j \in i + 1 .. Len(rounds) : a \notin rounds[j].members \cup rounds[j].fresh

\* task_execution_result, before the relation gate: a Cancelled attempt that an
\* unaborted recovery purpose stopped is a pause, not a failure.
TaskResult(t) ==
    LET S == {s \in Slots : TaskOf[s] = t}
        Paused(s) == /\ status[Current(s)] = "Cancelled"
                     /\ \/ HasStop(Current(s)) /\ ~stop[Current(s)].aborted
                        \/ PreservesCancelled(Current(s))
    IN IF \E s \in S : active[s] = 0 \/ status[Current(s)] \in Live \/ Paused(s) THEN "None"
       ELSE IF \E s \in S : status[Current(s)] # "Completed" THEN "Failed"
       ELSE "Completed"

-----------------------------------------------------------------------------
(***************************************************************************)
(* Allocation and dispatch preparation                                     *)
(***************************************************************************)

Faulty_Allocates(s, g) ==      \* counts from the active attempt, not from the last allocation
    g = active[s] + 1 /\ g <= MaxGen /\ <<s, g>> \notin known

\* allocate_attempt_id: the first later generation whose identity is unused.
Allocates(s, g) ==
    /\ g \in gen[s] + 1 .. MaxGen
    /\ <<s, g>> \notin known
    /\ \A h \in gen[s] + 1 .. g - 1 : <<s, h>> \in known

\* prepare_dispatch for one fresh attempt g[s] on node n[s] of each slot of S.
\* Refused (no step) for an identity restored or observed before it was prepared.
Prepare(S, g, n) ==
    /\ \A s \in S : /\ Allocates(s, g[s])
                    /\ <<s, g[s]>> \notin restored
                    /\ status[<<s, g[s]>>] = "None"
    /\ known'  = known \cup {<<s, g[s]>> : s \in S}
    /\ owner'  = [a \in Attempt |-> IF a[1] \in S /\ a[2] = g[a[1]] THEN n[a[1]] ELSE owner[a]]
    /\ status' = [a \in Attempt |-> IF a[1] \in S /\ a[2] = g[a[1]] THEN "Dispatched" ELSE status[a]]
    /\ active' = [s \in Slots |-> IF s \in S THEN g[s] ELSE active[s]]
    /\ gen'    = [s \in Slots |-> IF s \in S THEN g[s] ELSE gen[s]]
    /\ reactivating' = (reactivating \ {Current(s) : s \in S})
                         \cup {<<s, g[s]>> : s \in {s \in S : active[s] # 0}}
    /\ UNCHANGED <<seq, delivered, cancels, restored, activated, termAt, stop, budget, now>>

\* The allocation survives when preparation is deferred for coordination readiness.
Defer(s) ==
    /\ \E g \in 1 .. MaxGen : Allocates(s, g) /\ gen' = [gen EXCEPT ![s] = g]
    /\ UNCHANGED <<known, owner, status, seq, delivered, cancels, active, restored,
                   activated, reactivating, termAt, stop, budget, rounds, now>>

Dispatch(s, n) ==
    /\ \E g \in 1 .. MaxGen : Prepare({s}, [x \in {s} |-> g], [x \in {s} |-> n])
    /\ UNCHANGED rounds

-----------------------------------------------------------------------------
(***************************************************************************)
(* Node evidence                                                           *)
(***************************************************************************)

Faulty_EmitsTaskActivated(a, st) ==      \* announces a Task once, whatever replaced its attempt
    IsCurrent(a) /\ ProvesActivation(st) /\ TaskOf[a[1]] \notin activated

\* A current attempt's activation is announced once per Task and once per replacement.
EmitsTaskActivated(a, st) ==
    /\ IsCurrent(a) /\ ProvesActivation(st)
    /\ TaskOf[a[1]] \notin activated \/ a \in reactivating

Faulty_ConfirmStop(a, st, t) ==         \* accepts evidence received before the request
    IF IsCurrent(a) /\ st = "Cancelled" /\ HasStop(a) /\ stop[a].confirmed = NoTime
    THEN [stop EXCEPT ![a].confirmed = t] ELSE stop

ConfirmStop(a, st, t) ==
    IF /\ IsCurrent(a) /\ st = "Cancelled" /\ HasStop(a)
       /\ stop[a].confirmed = NoTime /\ t >= stop[a].requested
    THEN [stop EXCEPT ![a].confirmed = t] ELSE stop

\* confirm_group_recovery_stop.
StopsMember(r, a, st, t) ==
    /\ IsCurrent(a) /\ st \in {"Cancelled", "Completed"}
    /\ a \in r.members \ r.preserved
    /\ t >= r.requested /\ r.confirmed[a] = NoTime

\* confirm_group_continuation_admission.
AdmitsReplacement(r, a, st, t) ==
    /\ status[a] # st /\ ProvesActivation(st)
    /\ a \in r.fresh /\ r.prepared # NoTime /\ t >= r.prepared
    /\ r.admitted[a] = NoTime

ConfirmRound(r, a, st, t) ==
    [r EXCEPT !.confirmed = IF StopsMember(r, a, st, t) THEN [@ EXCEPT ![a] = t] ELSE @,
              !.admitted  = IF AdmitsReplacement(r, a, st, t) THEN [@ EXCEPT ![a] = t] ELSE @]

Faulty_AcceptsFact(a, n, q, st) ==      \* the last terminal report wins
    owner[a] \in {NoNode, n} /\ q > seq[a] /\ (status[a] \in Terminal => st \in Terminal)

\* Another owner's fact, an old sequence and anything after a terminal change nothing.
AcceptsFact(a, n, q, st) ==
    owner[a] \in {NoNode, n} /\ q > seq[a] /\ status[a] \notin Terminal

\* consume_execution: node n reports status st with sequence q, received at t.
ObserveExecution(a, n, q, st, t) ==
    /\ AcceptsFact(a, n, q, st)
    /\ t <= now
    /\ owner'     = [owner EXCEPT ![a] = n]
    /\ seq'       = [seq EXCEPT ![a] = q]
    /\ status'    = [status EXCEPT ![a] = st]
    /\ delivered' = delivered \cup ({a} \cap known)
    /\ termAt'    = IF st \in Terminal /\ a \in known /\ termAt[a] = NoTime
                    THEN [termAt EXCEPT ![a] = t] ELSE termAt
    /\ LET proves == IsCurrent(a) /\ ProvesActivation(st)
       IN /\ activated'    = IF proves THEN activated \cup {TaskOf[a[1]]} ELSE activated
          /\ reactivating' = IF proves THEN reactivating \ {a} ELSE reactivating
    /\ stop'   = ConfirmStop(a, st, t)
    /\ rounds' = [i \in DOMAIN rounds |-> ConfirmRound(rounds[i], a, st, t)]
    /\ UNCHANGED <<known, cancels, active, gen, restored, budget, now>>

\* observe_dispatch_receipt from the owning Node.
DispatchReceipt(a, persisted) ==
    /\ a \in known
    /\ \/ persisted /\ delivered' = delivered \cup {a} /\ UNCHANGED status
       \/ /\ ~persisted /\ status[a] \in Live \ {"Unknown"}
          /\ status' = [status EXCEPT ![a] = "Unknown"]
          /\ UNCHANGED delivered
    /\ UNCHANGED <<known, owner, seq, cancels, active, gen, restored, activated,
                   reactivating, termAt, stop, budget, rounds, now>>

\* observe_cancellation_receipt: a persisted Cancel proves nothing, a refused one is ambiguity.
RejectedCancelReceipt(a) ==
    /\ a \in cancels /\ status[a] \in Live \ {"Unknown"}
    /\ status' = [status EXCEPT ![a] = "Unknown"]
    /\ UNCHANGED <<known, owner, seq, delivered, cancels, active, gen, restored,
                   activated, reactivating, termAt, stop, budget, rounds, now>>

\* observe_node_unavailable: every current attempt of the Node becomes ambiguous.
NodeUnavailable(n) ==
    /\ status' = [a \in Attempt |->
                    IF IsCurrent(a) /\ owner[a] = n /\ status[a] \in Live
                    THEN "Unknown" ELSE status[a]]
    /\ UNCHANGED <<known, owner, seq, delivered, cancels, active, gen, restored,
                   activated, reactivating, termAt, stop, budget, rounds, now>>

-----------------------------------------------------------------------------
(***************************************************************************)
(* Operator purposes                                                       *)
(***************************************************************************)

\* request_cancellation of every attempt of A: overrides any recovery purpose it had.
RequestCancellation(A) ==
    /\ A \subseteq known
    /\ cancels' = cancels \cup A
    /\ stop' = [a \in Attempt |-> IF a \in A /\ HasStop(a)
                                  THEN [stop[a] EXCEPT !.aborted = TRUE] ELSE stop[a]]
    /\ rounds' = [i \in DOMAIN rounds |->
                    [rounds[i] EXCEPT !.aborted =
                        @ \/ A \cap (rounds[i].members \cup rounds[i].fresh) # {}]]
    /\ UNCHANGED <<known, owner, status, seq, delivered, active, gen, restored,
                   activated, reactivating, termAt, budget, now>>

\* An attempt a bounded role stop may still be requested for.
Stoppable(a) ==
    /\ IsCurrent(a) /\ ~HoldsDispatch
    /\ Support[owner[a]] = "role"
    /\ ~HasStop(a) /\ status[a] \in Live

Faulty_Spend(b, limit) == [limit |-> limit, used |-> b.used - 1]

Spend(b, limit) == [limit |-> limit, used |-> b.used + 1]

\* request_recovery_stop: a bounded stop-and-replace purpose for one current attempt.
RequestRecoveryStop(a, timeout, limit) ==
    LET s == a[1]
    IN /\ Stoppable(a)
       /\ budget[s].used = 0 \/ budget[s].limit = limit
       /\ budget[s].used < limit
       /\ budget' = [budget EXCEPT ![s] = Spend(@, limit)]
       /\ stop' = [stop EXCEPT ![a] =
                     [requested |-> now, deadline |-> now + timeout, limit |-> limit,
                      confirmed |-> NoTime, released |-> FALSE, aborted |-> FALSE]]
       /\ cancels' = cancels \cup {a}
       /\ UNCHANGED <<known, owner, status, seq, delivered, active, gen, restored,
                      activated, reactivating, termAt, rounds, now>>

\* mark_recovery_release: Control gave up the stopped binding, once.
MarkRecoveryRelease(a) ==
    /\ RecoveryStopReady(a) /\ ~stop[a].released
    /\ stop' = [stop EXCEPT ![a].released = TRUE]
    /\ UNCHANGED <<known, owner, status, seq, delivered, cancels, active, gen, restored,
                   activated, reactivating, termAt, budget, rounds, now>>

Faulty_Recoverable(a) ==      \* admits a member that already stopped for another reason
    Support[owner[a]] = "group" /\ ~HasStop(a) /\ status[a] # "Failed"

\* A member a Group round may pause or preserve.
Recoverable(a) ==
    Support[owner[a]] = "group" /\ ~HasStop(a) /\ status[a] \in Live \cup {"Completed"}

\* request_group_recovery_stop: freezes the exact current set of the Group.
RequestGroupRecovery(timeout, limit) ==
    LET members   == CurrentAttempts
        preserved == {a \in members : status[a] = "Completed"}
    IN /\ Len(rounds) < limit /\ Len(rounds) < MaxRounds
       /\ \A i \in DOMAIN rounds : rounds[i].limit = limit
       /\ ~HoldsDispatch
       /\ members # preserved
       /\ \A a \in members : Recoverable(a)
       /\ cancels' = cancels \cup (members \ preserved)
       /\ rounds' = Append(rounds,
            [members |-> members, preserved |-> preserved, requested |-> now,
             deadline |-> now + timeout, limit |-> limit,
             confirmed |-> [a \in Attempt |-> NoTime], fresh |-> {}, prepared |-> NoTime,
             admitted |-> [a \in Attempt |-> NoTime], aborted |-> FALSE])
       /\ UNCHANGED <<known, owner, status, seq, delivered, active, gen, restored,
                      activated, reactivating, termAt, stop, budget, now>>

\* prepare_group_continuation: one fresh attempt for every Cancelled member, all or none,
\* on the Node that owned the member.
PrepareContinuation ==
    /\ rounds # <<>>
    /\ LET last == Len(rounds)
           r    == rounds[last]
           S    == {a[1] : a \in {a \in r.members : status[a] = "Cancelled"}}
       IN /\ Disposition(r) = "StopConfirmed"
          /\ S # {}
          /\ \E g \in [S -> 1 .. MaxGen] :
                /\ Prepare(S, g, [s \in S |-> owner[Current(s)]])
                /\ rounds' = [rounds EXCEPT
                                ![last].fresh = {<<s, g[s]>> : s \in S},
                                ![last].prepared = now]

Tick ==
    /\ now < MaxTime
    /\ now' = now + 1
    /\ UNCHANGED <<known, owner, status, seq, delivered, cancels, active, gen, restored,
                   activated, reactivating, termAt, stop, budget, rounds>>

-----------------------------------------------------------------------------
(***************************************************************************)
(* Controller crash and restore from the checkpoint                        *)
(***************************************************************************)
Faulty_RestoredStatus(st) == IF st \in {"Accepted", "Running"} THEN "Unknown" ELSE st

RestoredStatus(st) == IF st \in Live THEN "Unknown" ELSE st

Restart ==
    /\ status' = [a \in Attempt |-> RestoredStatus(status[a])]
    /\ restored' = known
    /\ activated' = {TaskOf[a[1]] : a \in {a \in CurrentAttempts : ProvesActivation(status[a])}}
    /\ reactivating' = {}
    /\ UNCHANGED <<known, owner, seq, delivered, cancels, active, gen, termAt, stop,
                   budget, rounds, now>>

Next ==
    \/ \E s \in Slots, n \in Nodes : Dispatch(s, n)
    \/ \E s \in Slots : Defer(s)
    \/ \E a \in known \cup Early, n \in Nodes, q \in 0 .. MaxSeq, st \in Reports, t \in Time :
          ObserveExecution(a, n, q, st, t)
    \/ \E a \in Attempt, p \in BOOLEAN : DispatchReceipt(a, p)
    \/ \E a \in Attempt : RejectedCancelReceipt(a)
    \/ \E n \in Nodes : NodeUnavailable(n)
    \/ \E a \in Attempt : RequestCancellation({a})
    \/ \E a \in Attempt, d \in Timeouts, k \in Limits : RequestRecoveryStop(a, d, k)
    \/ \E a \in Attempt : MarkRecoveryRelease(a)
    \/ \E d \in Timeouts, k \in Limits : RequestGroupRecovery(d, k)
    \/ PrepareContinuation
    \/ Tick
    \/ Restart

Spec == Init /\ [][Next]_vars

-----------------------------------------------------------------------------
(***************************************************************************)
(* What a restore demands of a checkpoint                                  *)
(***************************************************************************)

\* validate_checkpoint and the terminal receive-time check of restore.
ContextsValid ==
    /\ cancels \subseteq known
    /\ \A a \in known : owner[a] \in Nodes /\ status[a] # "None"
    /\ \A s \in Slots : active[s] # 0 => Current(s) \in known
    /\ \A a \in Attempt : seq[a] # -1 => status[a] # "None"
    /\ \A a \in Attempt : termAt[a] # NoTime => a \in known /\ status[a] \in Terminal
    /\ \A i \in DOMAIN rounds : \A a \in Attempt :
          rounds[i].admitted[a] # NoTime => status[a] \notin {"None", "Dispatched"}

\* validate_recovery_stops.
StopValid(a) ==
    /\ a \in known /\ a \in cancels
    /\ stop[a].deadline - stop[a].requested \in 1 .. MaxTimeout
    /\ budget[a[1]].limit = stop[a].limit
    /\ budget[a[1]].used \in 1 .. stop[a].limit
    /\ stop[a].confirmed # NoTime =>
          stop[a].confirmed >= stop[a].requested /\ status[a] = "Cancelled"
    /\ stop[a].released =>
          stop[a].confirmed # NoTime /\ stop[a].confirmed < stop[a].deadline

BudgetValid(s) ==
    /\ budget[s].limit \in 1 .. MaxReplacements
    /\ budget[s].used <= budget[s].limit
    /\ Cardinality({a \in known : a[1] = s /\ HasStop(a)}) = budget[s].used

\* validate_group_recoveries, one round.
RoundValid(r) ==
    /\ r.members # {} /\ r.members \subseteq known
    /\ r.deadline - r.requested \in 1 .. MaxTimeout /\ r.limit \in 1 .. MaxReplacements
    /\ r.preserved \subseteq r.members
    /\ \A a \in r.preserved : status[a] = "Completed"
    /\ r.members \ r.preserved \subseteq cancels
    /\ \A a \in r.members : Support[owner[a]] = "group"
    /\ \A a \in Attempt : r.confirmed[a] # NoTime =>
          /\ a \in r.members /\ r.confirmed[a] >= r.requested
          /\ status[a] \in {"Cancelled", "Completed"}
    /\ \A a \in Attempt : r.admitted[a] # NoTime => a \in r.fresh /\ r.admitted[a] >= r.prepared
    /\ r.fresh = {} => r.prepared = NoTime
    /\ r.fresh # {} =>
          /\ r.prepared \in r.requested .. r.deadline - 1
          /\ r.fresh \subseteq known \ r.members
          /\ {a[1] : a \in r.fresh} = {a[1] : a \in {m \in r.members : status[m] = "Cancelled"}}
          /\ \A a, b \in r.fresh : a[1] = b[1] => a = b
          /\ \A a \in r.members : r.confirmed[a] <= r.prepared
          /\ \A a \in r.members \ r.preserved : r.confirmed[a] \in 0 .. r.deadline - 1
          /\ \A a \in r.fresh, m \in r.members : a[1] = m[1] => owner[a] = owner[m]

-----------------------------------------------------------------------------
(***************************************************************************)
(* Properties                                                              *)
(***************************************************************************)

\* Type correctness of every Runtime map.
TypeOK ==
    /\ known \subseteq Attempt /\ delivered \subseteq Attempt /\ cancels \subseteq Attempt
    /\ restored \subseteq Attempt /\ reactivating \subseteq Attempt
    /\ activated \subseteq Tasks
    /\ owner  \in [Attempt -> Nodes \cup {NoNode}]
    /\ status \in [Attempt -> Live \cup Terminal \cup {"None"}]
    /\ seq    \in [Attempt -> -1 .. MaxSeq]
    /\ termAt \in [Attempt -> Time \cup {NoTime}]
    /\ stop   \in [Attempt -> RecoveryStop]
    /\ active \in [Slots -> 0 .. MaxGen]
    /\ gen    \in [Slots -> 0 .. MaxGen]
    /\ budget \in [Slots -> Budget]
    /\ rounds \in Seq(GroupRound)
    /\ now \in Time

\* Every state the Runtime can commit passes the validation restore applies to its
\* checkpoint (contexts, role stops and their budgets, Group rounds), so a Controller
\* that crashes after any transaction can start again from it.
CheckpointRestorable ==
    /\ ContextsValid
    /\ \A a \in Attempt : HasStop(a) => StopValid(a)
    /\ \A s \in Slots : budget[s].used # 0 => BudgetValid(s)
    /\ \A i \in DOMAIN rounds : RoundValid(rounds[i]) /\ i <= rounds[i].limit
    /\ \A i, j \in DOMAIN rounds : rounds[i].limit = rounds[j].limit

\* An attempt a restarted Controller inherited is never offered to the Execute outbox
\* again, whatever receipts, facts, retries and restarts follow: its delivery is unknowable.
NeverResentAfterRestart == PendingDispatch \cap restored = {}

\* Only the latest Group round can still be open: every earlier round stays settled
\* although its disposition is recomputed from statuses and the clock at each query.
EarlierRoundsSettled ==
    \A i \in DOMAIN rounds : i < Len(rounds) =>
        Disposition(rounds[i]) \in {"Aborted", "Continued", "OriginalFailed", "OriginalCompleted"}

TerminalKept ==
    \A a \in Attempt : status[a] \in Terminal =>
        /\ status'[a] = status[a]
        /\ termAt[a] # NoTime => termAt'[a] = termAt[a]

\* Terminal evidence is immutable: no fact, receipt, Node loss, restart or new attempt
\* changes a terminal status or the receive time recorded with it.
TerminalIsFinal == [][TerminalKept]_vars

FreshGeneration ==
    \A s \in Slots : /\ gen'[s] >= gen[s]
                     /\ active'[s] # active[s] =>
                          active'[s] > gen[s] /\ status[<<s, active'[s]>>] = "None"

\* A slot's current attempt only ever moves to a later generation that was never
\* allocated before, even though deferred allocations and restarts come between.
GenerationsAdvance == [][FreshGeneration]_vars

\* Cancellation permanently overrides a recovery purpose: an aborted round gains no
\* replacement and an aborted stop no release, and neither is ever un-aborted.
AbortIsFinal ==
    [][/\ \A i \in DOMAIN rounds : rounds[i].aborted =>
             rounds'[i].aborted /\ rounds'[i].fresh = rounds[i].fresh
       /\ \A a \in Attempt : stop[a].aborted =>
             stop'[a].aborted /\ stop'[a].released = stop[a].released]_vars

\* A reported Task result only changes when a fresh attempt of that Task is prepared:
\* no later stop request, Group round, fact or restart turns a failure or a completion back.
TaskResultStable ==
    [][\A t \in Tasks : TaskResult(t) # "None" =>
          \/ TaskResult(t)' = TaskResult(t)
          \/ \E s \in Slots : TaskOf[s] = t /\ active'[s] # active[s]]_vars
=============================================================================

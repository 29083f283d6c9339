------------------------- MODULE SchedulingCalendar -------------------------
(***************************************************************************)
(* The scheduling of Ready Tasks onto exclusive resources: Control's       *)
(* calendar of planned intervals, its physical reservations, the pass that *)
(* drives each Ready Task through Match, Schedule, Propose, Commit and     *)
(* Bind, the activation a Node reports, and everything that releases an    *)
(* interval or a resource.                                                 *)
(*                                                                         *)
(* Times are kept relative to the Controller's clock: Elapse counts every  *)
(* pending instant down, and what lies in the past is clamped, because the *)
(* code only asks whether an instant is still ahead.  A transaction        *)
(* handles one fact or one timer tick and then drives each Ready Task      *)
(* once; todo holds the Tasks that the current transaction has still to    *)
(* drive, so nothing else happens until it is empty.                       *)
(***************************************************************************)
EXTENDS Integers

CONSTANTS Tasks, Resources, NoTask,
          Alternatives,   \* the placements that satisfy a Task's Roles
          Mission,        \* the Mission of a Task
          Priority,       \* the dispatch priority of a Mission
          Earliest,       \* earliest start offset
          LatestStart,    \* latest start offset, or NoLimit
          Deadline,       \* completion deadline offset, or NoLimit
          Duration,       \* estimated duration, 0 when undeclared
          NodesChange,    \* a Node's eligibility may change between passes
          PromptNodes     \* a Node reports Running before its window closes

NoLimit == -2
Missions == {Mission[t] : t \in Tasks}

ASSUME CalendarConstants ==
    /\ NoTask \notin Tasks
    /\ Alternatives \in [Tasks -> SUBSET (SUBSET Resources)]
    /\ \A t \in Tasks : {} \notin Alternatives[t]
    /\ Duration \in [Tasks -> Nat] /\ Earliest \in [Tasks -> Nat]
    /\ LatestStart \in [Tasks -> Nat \cup {NoLimit}]
    /\ Deadline \in [Tasks -> Nat \cup {NoLimit}]

VARIABLES life,     \* Pending, Ready, Active, Cancelling or Gone
          cal,      \* scheduled_tasks: the calendar record of each Task
          bound,    \* assignments of the TaskExecution, {} while unbound
          owner,    \* reservations: the physical owner of each resource
          missed,   \* Tasks whose deferral is WindowMissed
          wait,     \* time until the Task's earliest start
          open,     \* time until its latest activation, -1 once passed
          todo,     \* Tasks the current transaction has still to drive
          view,     \* the plan an operator last reviewed
          fresh,    \* whether calendar_version is still the reviewed one
          writes    \* "enabled", or "disabled" once the Controller fails closed

vars == <<life, cal, bound, owner, missed, wait, open, todo, view, fresh, writes>>

Phases == {"None", "Scheduled", "Activated", "Invalidated"}
NoRecord == [phase |-> "None", start |-> 0, end |-> 0, last |-> NoLimit, res |-> {}]

(* Inclusive latest activation: the latest start, and the deadline less    *)
(* the estimated duration; one below zero is a window already missed.      *)
LatestActivation(t) ==
    LET byDeadline == IF Deadline[t] = NoLimit THEN NoLimit
                      ELSE IF Deadline[t] < Duration[t] THEN -1
                      ELSE Deadline[t] - Duration[t]
    IN IF LatestStart[t] = NoLimit THEN byDeadline
       ELSE IF byDeadline = NoLimit \/ LatestStart[t] <= byDeadline THEN LatestStart[t]
       ELSE byDeadline

-----------------------------------------------------------------------------
(* Overlap of a record with the candidate interval [s, s + d), which is    *)
(* open-ended when no duration is declared (d = 0).                        *)
Overlaps(rec, s, d) == rec.end > s /\ (d = 0 \/ rec.start < s + d)

(* The occupancies of a resource in the Scheduler's snapshot: the physical *)
(* owner until its activated interval's end, or without end when there is  *)
(* none or it has run over; and every Scheduled interval.                  *)
ResolvedOncePlanned(k, r) ==
    /\ owner[r] # NoTask /\ r \in k[owner[r]].res /\ k[owner[r]].end > 0

Resolved(k, r) ==
    /\ owner[r] # NoTask
    /\ k[owner[r]].phase = "Activated"
    /\ r \in k[owner[r]].res
    /\ k[owner[r]].end > 0

OccupiedByOwnerOnly(k, r, s, d) ==
    owner[r] # NoTask /\ (Resolved(k, r) => Overlaps(k[owner[r]], s, d))

Occupied(k, r, s, d) ==
    \/ owner[r] # NoTask /\ (Resolved(k, r) => Overlaps(k[owner[r]], s, d))
    \/ \E u \in Tasks : k[u].phase = "Scheduled" /\ r \in k[u].res /\ Overlaps(k[u], s, d)

Ends(k) == {k[u].end : u \in {u \in Tasks : k[u].phase = "Scheduled"}}
           \cup {k[owner[r]].end : r \in {r \in Resources : Resolved(k, r)}}

(* BoundedJointScheduler: the start times it tries, earliest first, and    *)
(* the placements among cs that are free for the whole interval.           *)
Starts(k, t) == {wait[t]} \cup
    (IF Duration[t] = 0 THEN {} ELSE {s \in Ends(k) : s >= wait[t]})

Free(k, t, S, s) == \A r \in S : ~Occupied(k, r, s, Duration[t])

Feasible(k, t, cs) == {s \in Starts(k, t) : /\ open[t] # NoLimit => s <= open[t]
                                            /\ \E S \in cs : Free(k, t, S, s)}

WindowClosed(t) == open[t] # NoLimit /\ wait[t] > open[t]

-----------------------------------------------------------------------------
(* dispatchable_tasks: Ready work, bound or not, whose window is open.     *)
Dispatchable(l, m) == {t \in Tasks : l[t] = "Ready" /\ t \notin m}

Due(t) == cal[t].phase = "Scheduled" /\ cal[t].start = 0
Expired(t) == cal[t].end = 0 \/ cal[t].last = -1

(* next_dispatch_task: due intervals go first; the order among the rest is *)
(* DispatchPolicy's business and any order is allowed here.                *)
Turn(t) == t \in todo /\ (Due(t) \/ \A u \in todo : ~Due(u))

(* match_capabilities: which placements are eligible now.                  *)
Matches(t) == IF NodesChange THEN SUBSET Alternatives[t] ELSE {Alternatives[t]}

Clear(t) == [cal EXCEPT ![t] = NoRecord]
Plan(t, S, s) == [phase |-> "Scheduled", start |-> s, end |-> s + Duration[t],
                  last |-> open[t], res |-> S]

(* Every mutation of the calendar moves calendar_version on.               *)
Versioned(k, moved) == /\ cal' = k
                       /\ fresh' = IF moved THEN "stale" ELSE fresh

(* commit_for_group and bind: refused when a resource of the placement is  *)
(* reserved, or when any other Task has it Scheduled, whenever that is; a  *)
(* refused Task with a record keeps it, invalidated.                       *)
ConflictWithPlansOnly(k, t, S) ==
    \E r \in S, u \in Tasks \ {t} : k[u].phase = "Scheduled" /\ r \in k[u].res

Conflict(k, t, S) ==
    \E r \in S : \/ owner[r] # NoTask
                 \/ \E u \in Tasks \ {t} : k[u].phase = "Scheduled" /\ r \in k[u].res

Invalidate(k, t) ==
    IF k[t].phase = "None" THEN k ELSE [k EXCEPT ![t].phase = "Invalidated"]

Commit(k, t, S, moved) ==
    \/ /\ ~Conflict(k, t, S)
       /\ owner' = [r \in Resources |-> IF r \in S THEN t ELSE owner[r]]
       /\ bound' = [bound EXCEPT ![t] = S]
       /\ Versioned(k, moved)
    \/ /\ Conflict(k, t, S)
       /\ Versioned(Invalidate(k, t), moved \/ k[t].phase # "None")
       /\ UNCHANGED <<bound, owner>>

-----------------------------------------------------------------------------
(* prepare_task, by what it finds.  Nothing is done for a bound Task, for  *)
(* one without candidates, or while its interval is still ahead.           *)
Waits(t, cs) ==
    /\ \/ bound[t] # {}
       \/ cs = {}
       \/ cal[t].phase = "Scheduled" /\ cal[t].start > 0
    /\ UNCHANGED <<cal, fresh, bound, owner, missed, writes>>

(* A due interval is committed as it was decided.  If the Node it names is *)
(* no longer a candidate, Propose answers InvalidProposal, which is no     *)
(* scheduling deferral: the transaction fails and writes are disabled.     *)
CommitsDue(t, cs) ==
    /\ bound[t] = {} /\ cs # {} /\ Due(t) /\ ~Expired(t)
    /\ \/ cal[t].res \in cs /\ Commit(cal, t, cal[t].res, FALSE) /\ UNCHANGED writes
       \/ /\ cal[t].res \notin cs
          /\ writes' = "disabled"
          /\ UNCHANGED <<cal, fresh, bound, owner>>
    /\ UNCHANGED missed

(* No record, an invalidated one, or an interval that expired inside its   *)
(* window: the record is consumed and the Task planned again.              *)
Plans(t, cs) ==
    /\ bound[t] = {} /\ cs # {}
    /\ \/ cal[t].phase \in {"None", "Invalidated"}
       \/ Due(t) /\ cal[t].end = 0 /\ cal[t].last # -1

(* The window is over: the record is consumed and never planned again.     *)
MissesWindow(t, cs) ==
    /\ \/ Plans(t, cs) /\ WindowClosed(t)
       \/ bound[t] = {} /\ cs # {} /\ Due(t) /\ cal[t].last = -1
    /\ Versioned(Clear(t), cal[t].phase # "None")
    /\ missed' = missed \cup {t}
    /\ UNCHANGED <<bound, owner, writes>>

PlansNothing(t, cs) ==
    /\ Plans(t, cs) /\ ~WindowClosed(t)
    /\ LET fit == Feasible(Clear(t), t, cs)
       IN fit = {} \/ (Duration[t] = 0 /\ 0 \notin fit)
    /\ Versioned(Clear(t), cal[t].phase # "None")
    /\ UNCHANGED <<bound, owner, missed, writes>>

PlansFuture(t, cs) ==
    /\ Plans(t, cs) /\ ~WindowClosed(t) /\ Duration[t] > 0
    /\ LET fit == Feasible(Clear(t), t, cs)
       IN \E s \in fit, S \in cs :
             /\ s > 0 /\ \A x \in fit : s <= x
             /\ Free(Clear(t), t, S, s)
             /\ Versioned([cal EXCEPT ![t] = Plan(t, S, s)], TRUE)
    /\ UNCHANGED <<bound, owner, missed, writes>>

PlansNow(t, cs) ==
    /\ Plans(t, cs) /\ ~WindowClosed(t) /\ 0 \in Feasible(Clear(t), t, cs)
    /\ \E S \in cs :
          /\ Free(Clear(t), t, S, 0)
          /\ IF Duration[t] = 0 THEN Commit(Clear(t), t, S, cal[t].phase # "None")
             ELSE Commit([cal EXCEPT ![t] = Plan(t, S, 0)], t, S, TRUE)
    /\ UNCHANGED <<missed, writes>>

DriveTask(t) ==
    /\ writes = "enabled" /\ Turn(t)
    /\ todo' = todo \ {t}
    /\ \E cs \in Matches(t) :
          \/ Waits(t, cs) \/ CommitsDue(t, cs) \/ MissesWindow(t, cs)
          \/ PlansNothing(t, cs) \/ PlansFuture(t, cs) \/ PlansNow(t, cs)
    /\ UNCHANGED <<life, wait, open, view>>

-----------------------------------------------------------------------------
(* Transactions.  A fact or a timer tick is followed by a pass over the    *)
(* Tasks that are dispatchable by then; a request of an operator is not.   *)
Idle == writes = "enabled" /\ todo = {}
TasksOf(m) == {t \in Tasks : Mission[t] = m}
PassOver(l) == todo' = Dispatchable(l, missed)

Timer == /\ Idle /\ Dispatchable(life, missed) # {}
         /\ PassOver(life)
         /\ UNCHANGED <<life, cal, bound, owner, missed, wait, open, view, fresh, writes>>

(* accept_mission: every Task here is a root of its Mission's graph, and   *)
(* its window starts to run.                                               *)
Accept(m) == /\ Idle /\ \A t \in TasksOf(m) : life[t] = "Pending"
             /\ life' = [t \in Tasks |-> IF t \in TasksOf(m) THEN "Ready" ELSE life[t]]
             /\ UNCHANGED <<cal, bound, owner, missed, wait, open, todo, view, fresh, writes>>

(* activate_task_execution on the first Running fact of a bound Task.  An  *)
(* activation outside the interval or its window is an error, and an error *)
(* in the reduction of a fact disables writes.                             *)
InTime(t) == cal[t].phase = "None" \/ ~Expired(t)

Activate(t) ==
    /\ Idle /\ life[t] = "Ready" /\ bound[t] # {}
    /\ \/ /\ InTime(t)
          /\ life' = [life EXCEPT ![t] = "Active"]
          /\ Versioned(IF cal[t].phase = "Scheduled"
                       THEN [cal EXCEPT ![t].phase = "Activated"] ELSE cal,
                       cal[t].phase = "Scheduled")
          /\ PassOver(life')
          /\ UNCHANGED writes
       \/ /\ ~InTime(t) /\ writes' = "disabled"
          /\ UNCHANGED <<life, cal, fresh, todo>>
    /\ UNCHANGED <<bound, owner, missed, wait, open, view>>

(* What a release does for the Tasks T: their records leave the calendar   *)
(* and the resources they own become free.                                 *)
ReleaseAllKeepsReservations(T) ==
    /\ Versioned([t \in Tasks |-> IF t \in T THEN NoRecord ELSE cal[t]],
                 \E t \in T : cal[t].phase # "None")
    /\ bound' = [t \in Tasks |-> IF t \in T THEN {} ELSE bound[t]]
    /\ UNCHANGED owner

ReleaseAll(T) ==
    /\ Versioned([t \in Tasks |-> IF t \in T THEN NoRecord ELSE cal[t]],
                 \E t \in T : cal[t].phase # "None")
    /\ owner' = [r \in Resources |-> IF owner[r] \in T THEN NoTask ELSE owner[r]]
    /\ bound' = [t \in Tasks |-> IF t \in T THEN {} ELSE bound[t]]

(* finish_task_satisfaction: the Task's own interval and resources.        *)
Complete(t) ==
    /\ Idle /\ life[t] = "Active"
    /\ life' = [life EXCEPT ![t] = "Gone"]
    /\ ReleaseAll({t})
    /\ PassOver(life')
    /\ UNCHANGED <<missed, wait, open, view, writes>>

(* task_failed ends the Mission; its other Tasks have no live attempt.     *)
FailMission(t) ==
    LET T == TasksOf(Mission[t])
    IN /\ Idle /\ life[t] \in {"Ready", "Active"} /\ bound[t] # {}
       /\ \A u \in T \ {t} : bound[u] = {}
       /\ life' = [u \in Tasks |-> IF u \in T THEN "Gone" ELSE life[u]]
       /\ ReleaseAll(T)
       /\ PassOver(life')
       /\ UNCHANGED <<missed, wait, open, view, writes>>

(* request_cancel drops the Mission's intervals at once; its resources     *)
(* stay reserved until finalize_cancel, when every attempt has ended.      *)
RequestCancel(m) ==
    LET T == {t \in TasksOf(m) : life[t] # "Gone"}
    IN /\ Idle /\ \E t \in T : life[t] \in {"Ready", "Active"}
       /\ life' = [t \in Tasks |-> IF t \in T THEN "Cancelling" ELSE life[t]]
       /\ Versioned([t \in Tasks |-> IF t \in TasksOf(m) THEN NoRecord ELSE cal[t]],
                    \E t \in TasksOf(m) : cal[t].phase # "None")
       /\ UNCHANGED <<bound, owner, missed, wait, open, todo, view, writes>>

FinalizeCancel(m) ==
    LET T == {t \in TasksOf(m) : life[t] = "Cancelling"}
    IN /\ Idle /\ T # {}
       /\ life' = [t \in Tasks |-> IF t \in T THEN "Gone" ELSE life[t]]
       /\ ReleaseAll(T)
       /\ PassOver(life')
       /\ UNCHANGED <<missed, wait, open, view, writes>>

(* An operator reads the calendar, and later asks, at the version read,    *)
(* that a Task's future interval give way to a higher-priority Mission.    *)
Review == /\ Idle /\ \E m, n \in Missions : Priority[m] > Priority[n]
          /\ view' = [t \in Tasks |-> cal[t].res]
          /\ fresh' = "fresh"
          /\ UNCHANGED <<life, cal, bound, owner, missed, wait, open, todo, writes>>

ReadyUnbound(m) == {t \in TasksOf(m) : life[t] = "Ready" /\ bound[t] = {} /\ t \notin missed}

PreemptAtAnyVersion(m, t) ==
    /\ Idle
    /\ m # Mission[t] /\ Priority[m] > Priority[Mission[t]]
    /\ ReadyUnbound(m) # {} /\ t \in ReadyUnbound(Mission[t])
    /\ cal[t].phase = "Scheduled" /\ cal[t].start > 0
    /\ \A r \in Resources : owner[r] # t /\ (r \in cal[t].res => owner[r] = NoTask)
    /\ Versioned(Clear(t), TRUE)
    /\ UNCHANGED <<life, bound, owner, missed, wait, open, todo, view, writes>>

Preempt(m, t) ==
    /\ Idle /\ fresh = "fresh"
    /\ m # Mission[t] /\ Priority[m] > Priority[Mission[t]]
    /\ ReadyUnbound(m) # {} /\ t \in ReadyUnbound(Mission[t])
    /\ cal[t].phase = "Scheduled" /\ cal[t].start > 0
    /\ \A r \in Resources : owner[r] # t /\ (r \in cal[t].res => owner[r] = NoTask)
    /\ Versioned(Clear(t), TRUE)
    /\ UNCHANGED <<life, bound, owner, missed, wait, open, todo, view, writes>>

-----------------------------------------------------------------------------
(* One unit of the Controller's clock.  With PromptNodes a bound Task's    *)
(* window does not close before its Node has reported.                     *)
Down(n) == IF n > 0 THEN n - 1 ELSE 0
DownWindow(n) == IF n = NoLimit THEN NoLimit ELSE IF n > 0 THEN n - 1 ELSE -1

Aged(rec) == [phase |-> rec.phase, start |-> Down(rec.start), end |-> Down(rec.end),
              last |-> DownWindow(rec.last), res |-> rec.res]

Elapse ==
    /\ Idle
    /\ PromptNodes => \A t \in Tasks :
          life[t] = "Ready" /\ bound[t] # {} /\ cal[t].phase # "None"
             => Aged(cal[t]).end > 0 /\ Aged(cal[t]).last # -1
    /\ cal' = [t \in Tasks |-> IF cal[t].phase = "None" THEN cal[t] ELSE Aged(cal[t])]
    /\ wait' = [t \in Tasks |-> IF life[t] = "Ready" THEN Down(wait[t]) ELSE wait[t]]
    /\ open' = [t \in Tasks |-> IF life[t] = "Ready" THEN DownWindow(open[t]) ELSE open[t]]
    /\ UNCHANGED <<life, bound, owner, missed, todo, view, fresh, writes>>

Init == /\ life = [t \in Tasks |-> "Pending"]
        /\ cal = [t \in Tasks |-> NoRecord]
        /\ bound = [t \in Tasks |-> {}]
        /\ owner = [r \in Resources |-> NoTask]
        /\ missed = {} /\ todo = {}
        /\ wait = Earliest
        /\ open = [t \in Tasks |-> LatestActivation(t)]
        /\ view = [t \in Tasks |-> {}] /\ fresh = "stale"
        /\ writes = "enabled"

Next == \/ Timer \/ Review \/ Elapse
        \/ \E t \in Tasks : \/ DriveTask(t) \/ Activate(t)
                            \/ Complete(t) \/ FailMission(t)
        \/ \E m \in Missions : Accept(m) \/ RequestCancel(m) \/ FinalizeCancel(m)
        \/ \E m \in Missions, t \in Tasks : Preempt(m, t)

Spec == Init /\ [][Next]_vars
-----------------------------------------------------------------------------
(* Type invariant.                                                         *)
CalendarTypeOK ==
    /\ life \in [Tasks -> {"Pending", "Ready", "Active", "Cancelling", "Gone"}]
    /\ cal \in [Tasks -> [phase : Phases, start : Nat, end : Nat,
                          last : Int, res : SUBSET Resources]]
    /\ bound \in [Tasks -> SUBSET Resources]
    /\ owner \in [Resources -> Tasks \cup {NoTask}]
    /\ missed \in SUBSET Tasks /\ todo \in SUBSET Tasks
    /\ wait \in [Tasks -> Nat] /\ open \in [Tasks -> Int]
    /\ view \in [Tasks -> SUBSET Resources] /\ fresh \in {"fresh", "stale"}
    /\ writes \in {"enabled", "disabled"}

(* The reservations map and the Tasks' assignments, which commit, bind and *)
(* the releases keep separately, always agree: a Task is bound to exactly  *)
(* the resources it owns, and they form one complete placement.            *)
OwnershipAgrees ==
    \A t \in Tasks :
       /\ bound[t] = {r \in Resources : owner[r] = t}
       /\ bound[t] \in Alternatives[t] \cup {{}}

(* validate_scheduling_checkpoint_authority accepts every calendar the     *)
(* Controller can save: Scheduled intervals that share a resource never    *)
(* overlap, and a bound Task with a record is bound to what it decided.    *)
CalendarRestorable ==
    /\ \A t, u \in Tasks :
          /\ t # u /\ cal[t].phase = "Scheduled" /\ cal[u].phase = "Scheduled"
          /\ cal[t].res \cap cal[u].res # {}
          => cal[t].end <= cal[u].start \/ cal[u].end <= cal[t].start
    /\ \A t \in Tasks : bound[t] # {} /\ cal[t].phase # "None" => bound[t] = cal[t].res

(* Nothing is ever planned on a resource whose owner has not yet reported  *)
(* Running: its end is unresolved, so every other Task's planned interval  *)
(* lies behind an activated owner's planned end.                           *)
PlannedBehindOwner ==
    \A t \in Tasks, r \in Resources :
       /\ cal[t].phase = "Scheduled" /\ r \in cal[t].res
       /\ owner[r] \in Tasks \ {t}
       => /\ life[owner[r]] # "Ready"
          /\ cal[owner[r]].phase = "Activated" => cal[owner[r]].end <= cal[t].start

(* Scheduling alone never makes the Controller disable its own writes: not *)
(* a Node that lost eligibility, not a Node that reports late.             *)
SchedulingNeverHalts == writes = "enabled"

(* A preempted interval is the one the operator reviewed, on resources     *)
(* nobody holds physically, even if the calendar was replanned meanwhile.  *)
PreemptStep ==
    \A t \in Tasks :
       /\ cal[t].phase = "Scheduled" /\ cal[t].start > 0 /\ cal'[t].phase = "None"
       /\ life'[t] = "Ready"
       => /\ view[t] = cal[t].res /\ bound[t] = {}
          /\ \A r \in cal[t].res : owner[r] = NoTask
PreemptsWhatWasReviewed == [][PreemptStep]_vars

(* The calendar implements the ownership promise: whatever is planned,     *)
(* expired, invalidated, preempted or cancelled, a Task takes a complete   *)
(* placement from free resources, works on what it holds and returns it.   *)
Ownership == INSTANCE ResourceOwnership
    WITH holder <- owner, using <- bound,
         working <- {t \in Tasks : life[t] \in {"Active", "Cancelling"} /\ bound[t] # {}}
ImplementsOwnership == Ownership!OSpec

-----------------------------------------------------------------------------
(* Fairness: the application timer fires again and again and its clock     *)
(* advances; a pass finishes; a Node reports and finishes; a cancellation  *)
(* whose attempts have ended is finalized.                                 *)
Fairness ==
    /\ SF_vars(Timer) /\ SF_vars(Elapse)
    /\ WF_vars(\E t \in Tasks : DriveTask(t))
    /\ \A t \in Tasks : SF_vars(Activate(t)) /\ SF_vars(Complete(t))
    /\ \A m \in Missions : SF_vars(FinalizeCancel(m))

FairSpec == Spec /\ Fairness

(* A Ready Task with a declared duration eventually holds its resources,   *)
(* misses its window for good, or leaves with its Mission.                 *)
TimedTaskStarts ==
    \A t \in Tasks : (life[t] = "Ready" /\ bound[t] = {} /\ Duration[t] > 0)
                     ~> (bound[t] # {} \/ t \in missed \/ life[t] # "Ready")
=============================================================================

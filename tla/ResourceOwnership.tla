-------------------------- MODULE ResourceOwnership --------------------------
(***************************************************************************)
(* What Control promises about exclusive resources, with no calendar, no   *)
(* clock and no planning: a Task takes a complete placement at once and    *)
(* only from free resources, works only on what it holds, and gives all of *)
(* it back in one step.  SchedulingCalendar is shown to implement this.    *)
(***************************************************************************)
CONSTANTS Tasks, Resources, Alternatives, NoTask

VARIABLES holder,   \* who holds each resource, or NoTask
          using,    \* the placement each Task works with, {} for none
          working   \* the Tasks whose Node has reported physical progress

avars == <<holder, using, working>>

OInit == /\ holder = [r \in Resources |-> NoTask]
         /\ using = [t \in Tasks |-> {}]
         /\ working = {}

(* A whole placement is taken, or nothing is.                              *)
Acquire(t, S) ==
    /\ using[t] = {}
    /\ S \in Alternatives[t]
    /\ \A r \in S : holder[r] = NoTask
    /\ holder' = [r \in Resources |-> IF r \in S THEN t ELSE holder[r]]
    /\ using' = [using EXCEPT ![t] = S]
    /\ UNCHANGED working

(* Holders are seen at work, one when its Node reports, or every holder of *)
(* a Mission that is being cancelled.                                      *)
Work(T) ==
    /\ \A t \in T : using[t] # {}
    /\ working' = working \cup T
    /\ UNCHANGED <<holder, using>>

(* A finished Task, or every Task of an ended Mission, returns everything. *)
GiveBack(T) ==
    /\ holder' = [r \in Resources |-> IF holder[r] \in T THEN NoTask ELSE holder[r]]
    /\ using' = [t \in Tasks |-> IF t \in T THEN {} ELSE using[t]]
    /\ working' = working \ T

ONext == \/ \E t \in Tasks : \E S \in Alternatives[t] : Acquire(t, S)
         \/ \E T \in SUBSET Tasks : Work(T) \/ GiveBack(T)

OSpec == OInit /\ [][ONext]_avars
=============================================================================

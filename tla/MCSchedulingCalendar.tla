------------------------ MODULE MCSchedulingCalendar ------------------------
(* Instances of SchedulingCalendar for TLC.                                *)
EXTENDS SchedulingCalendar, TLC

CONSTANTS t1, t2, t3, t4, r1, r2, m1, m2, m3

(* Two Missions of two Tasks, one of which may preempt the other: a gang   *)
(* with a deadline, a Task with a window that opens later, an untimed one, *)
(* and a late one with a single robot to go to.                            *)
Pairs == t1 :> m1 @@ t2 :> m1 @@ t3 :> m2 @@ t4 :> m2
Fleet == t1 :> {{r1, r2}} @@ t2 :> {{r1}, {r2}} @@ t3 :> {{r1}, {r2}} @@ t4 :> {{r2}}
Ranked == m1 :> 1 @@ m2 :> 0
Later == [t \in Tasks |-> IF t \in {t2, t4} THEN 1 ELSE 0]
Window == [t \in Tasks |-> IF t = t2 THEN 2 ELSE NoLimit]
GangDeadline == [t \in Tasks |-> IF t = t1 THEN 3 ELSE NoLimit]
Lengths == t1 :> 2 @@ t2 :> 2 @@ t3 :> 0 @@ t4 :> 1

(* Independent Missions of one timed Task without windows.                 *)
OneTaskEach == t1 :> m1 @@ t2 :> m2 @@ t3 :> m3
OneRobot == [t \in Tasks |-> {{r1}}]
TwoRobots == [t \in Tasks |-> {{r1}, {r2}}]
At0 == [t \in Tasks |-> 0]
Unlimited == [t \in Tasks |-> NoLimit]
Two == [t \in Tasks |-> 2]
Equal == [m \in Missions |-> 0]
=============================================================================

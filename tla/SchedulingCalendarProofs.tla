---------------------- MODULE SchedulingCalendarProofs ----------------------
(***************************************************************************)
(* What is proved of SchedulingCalendar, for any Tasks, resources,         *)
(* placements, windows and durations, with Nodes that may change and       *)
(* report late: an inductive invariant, that every step keeps it, what it  *)
(* implies, and the refinement.                                            *)
(***************************************************************************)
EXTENDS SchedulingCalendar, TLAPS

(* What the calendar, the assignments and the lifecycle of one Task know   *)
(* of each other.                                                          *)
Shape(t) ==
    /\ bound[t] \in Alternatives[t] \cup {{}}
    /\ life[t] \in {"Pending", "Gone"} => bound[t] = {} /\ cal[t].phase = "None"
    /\ life[t] = "Active" => bound[t] # {}
    /\ cal[t].phase \in {"Scheduled", "Invalidated"} => life[t] = "Ready"
    /\ cal[t].phase = "Activated" => life[t] = "Active" /\ cal[t].start = 0
    /\ cal[t].phase # "None" => cal[t].res \in Alternatives[t]
    /\ bound[t] # {} /\ cal[t].phase # "None"
          => bound[t] = cal[t].res /\ cal[t].phase # "Invalidated" /\ cal[t].start = 0
    /\ t \in todo => life[t] = "Ready"

Owns(t) == \A r \in Resources : r \in bound[t] <=> owner[r] = t

Apart(t, u) ==
    /\ t # u /\ cal[t].phase = "Scheduled" /\ cal[u].phase = "Scheduled"
    /\ cal[t].res \cap cal[u].res # {}
    => cal[t].end <= cal[u].start \/ cal[u].end <= cal[t].start

Behind(t, r) ==
    cal[t].phase = "Scheduled" /\ r \in cal[t].res /\ owner[r] \in Tasks \ {t}
    => /\ life[owner[r]] # "Ready"
       /\ cal[owner[r]].phase = "Activated" => cal[owner[r]].end <= cal[t].start

CalendarInv ==
    /\ CalendarTypeOK
    /\ \A t \in Tasks : Shape(t)
    /\ \A t \in Tasks : Owns(t)
    /\ \A t, u \in Tasks : Apart(t, u)
    /\ \A t \in Tasks, r \in Resources : Behind(t, r)

Records == [phase : Phases, start : Nat, end : Nat, last : Int, res : SUBSET Resources]

\* The empty record, the record of a new plan and an aged record are records.
LEMMA RecordTypes ==
  ASSUME CalendarTypeOK
  PROVE /\ NoRecord \in Records
        /\ \A t \in Tasks, S \in SUBSET Resources, s \in Nat : Plan(t, S, s) \in Records
        /\ \A rec \in Records : Aged(rec) \in Records
<1>1. NoRecord \in Records
  BY DEF NoRecord, Records, Phases, NoLimit
<1>2. ASSUME NEW t \in Tasks, NEW S \in SUBSET Resources, NEW s \in Nat
      PROVE Plan(t, S, s) \in Records
  BY CalendarConstants DEF Plan, Records, Phases, CalendarTypeOK
<1>3. ASSUME NEW rec \in Records PROVE Aged(rec) \in Records
  BY DEF Aged, Records, Down, DownWindow, NoLimit
<1> QED BY <1>1, <1>2, <1>3

\* The candidate start times are times that are not in the past.
LEMMA StartsAreTimes ==
  ASSUME CalendarTypeOK, NEW k \in [Tasks -> Records], NEW t \in Tasks
  PROVE Starts(k, t) \subseteq Nat
<1>1. \A r \in Resources : Resolved(k, r) => owner[r] \in Tasks
  BY DEF Resolved, CalendarTypeOK
<1> QED BY <1>1 DEF Starts, Ends, Records, CalendarTypeOK

(* What driving one Task can do: leave the bindings and give the Task the  *)
(* record rec, or bind it to a placement nobody owns or has planned.       *)
Placed(t, rec) ==
    /\ rec.phase = "Scheduled" /\ rec.res \in Alternatives[t] /\ rec.start < rec.end
    /\ \A r \in rec.res :
          /\ owner[r] # NoTask => /\ cal[owner[r]].phase = "Activated"
                                  /\ cal[owner[r]].end <= rec.start
          /\ \A u \in Tasks \ {t} : cal[u].phase = "Scheduled" /\ r \in cal[u].res
                => cal[u].end <= rec.start \/ rec.end <= cal[u].start

Replanned(t, rec) ==
    /\ cal' = [cal EXCEPT ![t] = rec]
    /\ UNCHANGED <<bound, owner>>
    /\ \/ rec = NoRecord
       \/ rec.phase = "Invalidated" /\ rec.res \in Alternatives[t]
       \/ Placed(t, rec)

Bound(t, S, rec) ==
    /\ cal' = [cal EXCEPT ![t] = rec]
    /\ bound' = [bound EXCEPT ![t] = S]
    /\ owner' = [r \in Resources |-> IF r \in S THEN t ELSE owner[r]]
    /\ S \in Alternatives[t]
    /\ \A r \in S : /\ owner[r] = NoTask
                    /\ \A u \in Tasks \ {t} : cal[u].phase # "Scheduled" \/ r \notin cal[u].res
    /\ \/ rec = NoRecord
       \/ rec.phase = "Scheduled" /\ rec.res = S /\ rec.start = 0

\* A placement the Scheduler finds free is clear of every owner that has not
\* planned its end before, and of every other Scheduled interval.
LEMMA FreeIsPlaced ==
  ASSUME CalendarInv, NEW t \in Tasks, bound[t] = {}, Duration[t] > 0,
         NEW S \in Alternatives[t], NEW s \in Nat, Free(Clear(t), t, S, s)
  PROVE Placed(t, Plan(t, S, s))
<1> DEFINE rec == Plan(t, S, s)
<1>1. /\ rec.phase = "Scheduled" /\ rec.res = S /\ rec.start = s /\ rec.end = s + Duration[t]
      /\ Duration[t] \in Nat /\ S \subseteq Resources
  BY CalendarConstants DEF Plan
<1>2. \A u \in Tasks \ {t} : Clear(t)[u] = cal[u]
  BY DEF Clear, CalendarInv, CalendarTypeOK
<1>3. ASSUME NEW r \in S, owner[r] # NoTask
      PROVE cal[owner[r]].phase = "Activated" /\ cal[owner[r]].end <= s
  <2>1. owner[r] \in Tasks \ {t}
    BY <1>1, <1>3 DEF CalendarInv, CalendarTypeOK, Owns
  <2>2. Clear(t)[owner[r]] = cal[owner[r]]
    BY <1>2, <2>1
  <2>3. ~Occupied(Clear(t), r, s, Duration[t])
    BY DEF Free
  <2>4. Resolved(Clear(t), r) /\ ~Overlaps(cal[owner[r]], s, Duration[t])
    BY <1>3, <2>2, <2>3 DEF Occupied
  <2>5. cal[owner[r]].phase = "Activated"
    BY <2>2, <2>4 DEF Resolved
  <2>6. cal[owner[r]].start = 0 /\ cal[owner[r]].end \in Nat
    BY <2>1, <2>5 DEF CalendarInv, Shape, CalendarTypeOK
  <2> QED BY <1>1, <2>4, <2>5, <2>6 DEF Overlaps
<1>4. ASSUME NEW r \in S, NEW u \in Tasks \ {t}, cal[u].phase = "Scheduled", r \in cal[u].res
      PROVE cal[u].end <= s \/ s + Duration[t] <= cal[u].start
  <2>1. ~Overlaps(cal[u], s, Duration[t])
    BY <1>2, <1>4 DEF Free, Occupied
  <2>2. cal[u].start \in Nat /\ cal[u].end \in Nat
    BY DEF CalendarInv, CalendarTypeOK
  <2> QED BY <1>1, <2>1, <2>2 DEF Overlaps
<1> HIDE DEF rec
<1>5. rec.res \in Alternatives[t] /\ rec.start < rec.end
  BY <1>1
<1> QED BY <1>1, <1>3, <1>4, <1>5 DEF Placed, rec

\* Commit either binds the Task to a placement that is free of owners and of
\* other plans, or leaves the bindings and invalidates the Task's record.
LEMMA CommitEffect ==
  ASSUME CalendarInv, NEW t \in Tasks, NEW rec \in Records, NEW S \in Alternatives[t],
         NEW moved,
         rec = NoRecord \/ (rec.phase = "Scheduled" /\ rec.res = S /\ rec.start = 0),
         Commit([cal EXCEPT ![t] = rec], t, S, moved)
  PROVE \E new \in Records : Replanned(t, new) \/ Bound(t, S, new)
<1> DEFINE k == [cal EXCEPT ![t] = rec]
<1>1. k \in [Tasks -> Records] /\ k[t] = rec /\ \A u \in Tasks \ {t} : k[u] = cal[u]
  BY DEF CalendarInv, CalendarTypeOK, Records
<1>2. CASE ~Conflict(k, t, S)
  <2>1. /\ cal' = k /\ bound' = [bound EXCEPT ![t] = S]
        /\ owner' = [r \in Resources |-> IF r \in S THEN t ELSE owner[r]]
    BY <1>2 DEF Commit, Versioned
  <2>2. \A r \in S : /\ owner[r] = NoTask
                     /\ \A u \in Tasks \ {t} : cal[u].phase # "Scheduled" \/ r \notin cal[u].res
    BY <1>1, <1>2 DEF Conflict
  <2>3. Bound(t, S, rec)
    BY <2>1, <2>2 DEF Bound
  <2> QED BY <2>3
<1>3. CASE Conflict(k, t, S)
  <2>1. cal' = Invalidate(k, t) /\ UNCHANGED <<bound, owner>>
    BY <1>3 DEF Commit, Versioned
  <2>2. CASE rec.phase = "None"
    <3>1. cal' = k
      BY <1>1, <2>1, <2>2 DEF Invalidate
    <3>2. rec = NoRecord
      BY <2>2
    <3>3. Replanned(t, rec)
      BY <2>1, <3>1, <3>2, Zenon DEF Replanned
    <3> QED BY <3>3
  <2>3. CASE rec.phase # "None"
    <3> DEFINE new == [rec EXCEPT !.phase = "Invalidated"]
    <3>1. new \in Records /\ new.phase = "Invalidated" /\ new.res = S
      BY <2>3 DEF Records, Phases, NoRecord
    <3>2. cal' = [cal EXCEPT ![t] = new]
      BY <1>1, <2>1, <2>3, Zenon DEF Invalidate, CalendarInv, CalendarTypeOK
    <3> HIDE DEF new
    <3>3. Replanned(t, new)
      BY <2>1, <3>1, <3>2, Zenon DEF Replanned
    <3> QED BY <3>1, <3>3
  <2> QED BY <2>2, <2>3
<1> QED BY <1>2, <1>3

\* Driving a Task changes nothing but the Task's own record, or binds it.
LEMMA DriveEffect ==
  ASSUME CalendarInv, NEW t \in Tasks, DriveTask(t)
  PROVE \/ UNCHANGED <<cal, bound, owner>>
        \/ /\ bound[t] = {} /\ life[t] = "Ready"
           /\ \E new \in Records : Replanned(t, new) \/ \E S \in Alternatives[t] : Bound(t, S, new)
<1>1. PICK cs \in Matches(t) :
          \/ Waits(t, cs) \/ CommitsDue(t, cs) \/ MissesWindow(t, cs)
          \/ PlansNothing(t, cs) \/ PlansFuture(t, cs) \/ PlansNow(t, cs)
  BY DEF DriveTask
<1>2. cs \subseteq Alternatives[t]
  BY DEF Matches
<1>3. life[t] = "Ready"
  BY DEF DriveTask, Turn, CalendarInv, Shape
<1>4. NoRecord \in Records
  BY RecordTypes DEF CalendarInv
<1>5. cal \in [Tasks -> Records]
  BY DEF CalendarInv, CalendarTypeOK, Records
<1>6. CASE Waits(t, cs)
  BY <1>6 DEF Waits
<1>7. CASE CommitsDue(t, cs)
  <2>1. bound[t] = {} /\ Due(t)
    BY <1>7 DEF CommitsDue
  <2>2. CASE cal[t].res \in cs /\ Commit(cal, t, cal[t].res, FALSE)
    <3>1. cal = [cal EXCEPT ![t] = cal[t]]
      BY <1>5
    <3>2. /\ cal[t] \in Records /\ cal[t].phase = "Scheduled" /\ cal[t].start = 0
          /\ cal[t].res \in Alternatives[t]
      BY <1>2, <1>5, <2>1, <2>2 DEF Due
    <3>3. Commit([cal EXCEPT ![t] = cal[t]], t, cal[t].res, FALSE)
      BY <2>2, <3>1, Zenon
    <3>4. \E new \in Records : Replanned(t, new) \/ Bound(t, cal[t].res, new)
      BY <3>2, <3>3, CommitEffect, Zenon
    <3> QED BY <1>3, <2>1, <3>2, <3>4
  <2>3. CASE UNCHANGED <<cal, fresh, bound, owner>>
    BY <2>3
  <2> QED BY <1>7, <2>2, <2>3, Zenon DEF CommitsDue
<1>8. CASE MissesWindow(t, cs) \/ PlansNothing(t, cs)
  <2>1. bound[t] = {} /\ Replanned(t, NoRecord)
    BY <1>8 DEF MissesWindow, PlansNothing, Plans, Versioned, Clear, Replanned
  <2> QED BY <1>3, <1>4, <2>1
<1>9. CASE PlansFuture(t, cs)
  <2>1. bound[t] = {} /\ Duration[t] > 0 /\ UNCHANGED <<bound, owner>>
    BY <1>9 DEF PlansFuture, Plans
  <2>2. PICK s \in Feasible(Clear(t), t, cs), S \in cs :
          /\ Free(Clear(t), t, S, s)
          /\ cal' = [cal EXCEPT ![t] = Plan(t, S, s)]
    BY <1>9, Zenon DEF PlansFuture, Versioned
  <2>3. Clear(t) \in [Tasks -> Records]
    BY <1>4, <1>5 DEF Clear
  <2>4. s \in Nat
    BY <2>2, <2>3, StartsAreTimes DEF Feasible, CalendarInv
  <2>5. S \in Alternatives[t] /\ S \in SUBSET Resources
    BY <1>2, <2>2, CalendarConstants
  <2>6. Plan(t, S, s) \in Records
    BY <2>4, <2>5, RecordTypes DEF CalendarInv
  <2>7. Placed(t, Plan(t, S, s))
    BY <2>1, <2>2, <2>4, <2>5, FreeIsPlaced
  <2>8. Replanned(t, Plan(t, S, s))
    BY <2>1, <2>2, <2>7 DEF Replanned
  <2> QED BY <1>3, <2>1, <2>6, <2>8
<1>10. CASE PlansNow(t, cs)
  <2>1. bound[t] = {}
    BY <1>10 DEF PlansNow, Plans
  <2>2. PICK S \in cs :
          IF Duration[t] = 0 THEN Commit(Clear(t), t, S, cal[t].phase # "None")
          ELSE Commit([cal EXCEPT ![t] = Plan(t, S, 0)], t, S, TRUE)
    BY <1>10, Zenon DEF PlansNow
  <2>3. S \in Alternatives[t] /\ S \in SUBSET Resources
    BY <1>2, CalendarConstants
  <2>4. CASE Duration[t] = 0
    <3>1. Commit([cal EXCEPT ![t] = NoRecord], t, S, cal[t].phase # "None")
      BY <2>2, <2>4 DEF Clear
    <3>2. \E new \in Records : Replanned(t, new) \/ Bound(t, S, new)
      BY <1>4, <2>3, <3>1, CommitEffect
    <3> QED BY <1>3, <2>1, <2>3, <3>2
  <2>5. CASE Duration[t] # 0
    <3>1. Plan(t, S, 0) \in Records
      BY <2>3, RecordTypes DEF CalendarInv
    <3>2. Plan(t, S, 0).phase = "Scheduled" /\ Plan(t, S, 0).res = S /\ Plan(t, S, 0).start = 0
      BY DEF Plan
    <3>3. \E new \in Records : Replanned(t, new) \/ Bound(t, S, new)
      BY <2>2, <2>3, <2>5, <3>1, <3>2, CommitEffect, Zenon
    <3> QED BY <1>3, <2>1, <2>3, <3>3
  <2> QED BY <2>4, <2>5
<1> QED BY <1>1, <1>6, <1>7, <1>8, <1>9, <1>10

\* A new or invalidated record of one Task keeps every conjunct.
LEMMA ReplannedKeeps ==
  ASSUME CalendarInv, CalendarTypeOK', NEW t \in Tasks, NEW new \in Records,
         bound[t] = {}, life[t] = "Ready", Replanned(t, new),
         UNCHANGED life, todo' \subseteq todo
  PROVE CalendarInv'
<1>1. /\ cal'[t] = new /\ \A u \in Tasks \ {t} : cal'[u] = cal[u]
      /\ bound' = bound /\ owner' = owner /\ life' = life
  BY DEF Replanned, CalendarInv, CalendarTypeOK
<1>2. new = NoRecord \/ (new.phase = "Invalidated" /\ new.res \in Alternatives[t])
      \/ Placed(t, new)
  BY DEF Replanned
<1>3. ASSUME NEW u \in Tasks PROVE Shape(u)'
  <2>1. CASE u = t
    BY <1>1, <1>2, <2>1 DEF CalendarInv, Shape, Placed, NoRecord
  <2>2. CASE u # t
    BY <1>1, <2>2 DEF CalendarInv, Shape
  <2> QED BY <2>1, <2>2
<1>4. ASSUME NEW u \in Tasks PROVE Owns(u)'
  BY <1>1 DEF CalendarInv, Owns
<1>5. ASSUME NEW u \in Tasks, NEW v \in Tasks PROVE Apart(u, v)'
  <2>1. CASE u # t /\ v # t
    BY <1>1, <2>1 DEF CalendarInv, Apart
  <2>2. CASE u = t \/ v = t
    BY <1>1, <1>2, <2>2 DEF Apart, Placed, NoRecord
  <2> QED BY <2>1, <2>2
<1>6. ASSUME NEW u \in Tasks, NEW r \in Resources PROVE Behind(u, r)'
  <2>1. CASE u = t
    <3>1. SUFFICES ASSUME new.phase = "Scheduled", r \in new.res, owner[r] \in Tasks \ {t}
                   PROVE /\ life[owner[r]] # "Ready"
                         /\ cal[owner[r]].phase = "Activated" => cal[owner[r]].end <= new.start
      BY <1>1, <2>1 DEF Behind
    <3>2. Placed(t, new)
      BY <1>2, <3>1 DEF NoRecord
    <3>3. owner[r] # NoTask
      BY <3>1, CalendarConstants
    <3>4. cal[owner[r]].phase = "Activated" /\ cal[owner[r]].end <= new.start
      BY <3>1, <3>2, <3>3 DEF Placed
    <3>5. life[owner[r]] = "Active"
      BY <3>1, <3>4 DEF CalendarInv, Shape
    <3> QED BY <3>4, <3>5
  <2>2. CASE u # t
    <3>1. owner[r] # t
      BY DEF CalendarInv, Owns
    <3> QED BY <1>1, <2>2, <3>1 DEF CalendarInv, Behind
  <2> QED BY <2>1, <2>2
<1> QED BY <1>3, <1>4, <1>5, <1>6 DEF CalendarInv

\* Binding a Task keeps every conjunct.
LEMMA BoundKeeps ==
  ASSUME CalendarInv, CalendarTypeOK', NEW t \in Tasks, NEW S \in Alternatives[t],
         NEW new \in Records, bound[t] = {}, life[t] = "Ready", Bound(t, S, new),
         UNCHANGED life, todo' \subseteq todo
  PROVE CalendarInv'
<1>1. /\ cal'[t] = new /\ \A u \in Tasks \ {t} : cal'[u] = cal[u]
      /\ bound'[t] = S /\ \A u \in Tasks \ {t} : bound'[u] = bound[u]
      /\ \A r \in Resources : owner'[r] = IF r \in S THEN t ELSE owner[r]
      /\ life' = life /\ S \subseteq Resources
  BY CalendarConstants DEF Bound, CalendarInv, CalendarTypeOK
<1>2. /\ \A r \in S : /\ owner[r] = NoTask
                      /\ \A u \in Tasks \ {t} : cal[u].phase # "Scheduled" \/ r \notin cal[u].res
      /\ new = NoRecord \/ (new.phase = "Scheduled" /\ new.res = S /\ new.start = 0)
  BY DEF Bound
<1>3. ASSUME NEW u \in Tasks PROVE Shape(u)'
  <2>1. CASE u = t
    BY <1>1, <1>2, <2>1 DEF CalendarInv, Shape, NoRecord
  <2>2. CASE u # t
    BY <1>1, <2>2 DEF CalendarInv, Shape
  <2> QED BY <2>1, <2>2
<1>4. ASSUME NEW u \in Tasks PROVE Owns(u)'
  <2>1. CASE u = t
    BY <1>1, <2>1 DEF CalendarInv, Owns
  <2>2. CASE u # t
    BY <1>1, <1>2, <2>2, CalendarConstants DEF CalendarInv, Owns
  <2> QED BY <2>1, <2>2
<1>5. ASSUME NEW u \in Tasks, NEW v \in Tasks PROVE Apart(u, v)'
  <2>1. CASE u # t /\ v # t
    BY <1>1, <2>1 DEF CalendarInv, Apart
  <2>2. CASE u = t \/ v = t
    BY <1>1, <1>2, <2>2 DEF Apart, NoRecord
  <2> QED BY <2>1, <2>2
<1>6. ASSUME NEW u \in Tasks, NEW r \in Resources PROVE Behind(u, r)'
  <2>1. CASE r \in S
    BY <1>1, <1>2, <2>1 DEF Behind
  <2>2. CASE r \notin S /\ u = t
    BY <1>1, <1>2, <2>2 DEF Behind, NoRecord
  <2>3. CASE r \notin S /\ u # t
    <3>1. owner[r] # t
      BY DEF CalendarInv, Owns
    <3> QED BY <1>1, <2>3, <3>1 DEF CalendarInv, Behind
  <2> QED BY <2>1, <2>2, <2>3
<1> QED BY <1>3, <1>4, <1>5, <1>6 DEF CalendarInv

\* A step that leaves lifecycles, records and owners alone and queues only Ready Tasks keeps
\* the invariant.
LEMMA QuietKeeps ==
  ASSUME CalendarInv, CalendarTypeOK', UNCHANGED <<life, cal, bound, owner>>,
         \A u \in Tasks : u \in todo' => u \in todo \/ life[u] = "Ready"
  PROVE CalendarInv'
<1>1. ASSUME NEW u \in Tasks PROVE Shape(u)'
  BY Zenon DEF CalendarInv, Shape
<1>2. ASSUME NEW u \in Tasks PROVE Owns(u)'
  BY DEF CalendarInv, Owns
<1>3. ASSUME NEW u \in Tasks, NEW v \in Tasks PROVE Apart(u, v)'
  BY DEF CalendarInv, Apart
<1>4. ASSUME NEW u \in Tasks, NEW r \in Resources PROVE Behind(u, r)'
  BY DEF CalendarInv, Behind
<1> QED BY <1>1, <1>2, <1>3, <1>4 DEF CalendarInv

\* Driving a Task keeps the invariant.
LEMMA DriveKeeps ==
  ASSUME CalendarInv, NEW t \in Tasks, DriveTask(t)
  PROVE CalendarInv'
<1>1. UNCHANGED <<life, wait, open, view>> /\ todo' \subseteq todo
  BY DEF DriveTask
<1>2. missed' \in SUBSET Tasks /\ fresh' \in {"fresh", "stale"} /\ writes' \in {"enabled", "disabled"}
  BY Zenon DEF DriveTask, Waits, CommitsDue, MissesWindow, PlansNothing, PlansFuture, PlansNow,
         Commit, Versioned, CalendarInv, CalendarTypeOK
<1>3. ASSUME cal' \in [Tasks -> Records], bound' \in [Tasks -> SUBSET Resources],
             owner' \in [Resources -> Tasks \cup {NoTask}]
      PROVE CalendarTypeOK'
  BY <1>1, <1>2, <1>3 DEF CalendarInv, CalendarTypeOK, Records
<1>4. cal \in [Tasks -> Records]
  BY DEF CalendarInv, CalendarTypeOK, Records
<1>5. CASE UNCHANGED <<cal, bound, owner>>
  <2>1. CalendarTypeOK'
    BY <1>3, <1>4, <1>5 DEF CalendarInv, CalendarTypeOK
  <2> QED BY <1>1, <1>5, <2>1, QuietKeeps
<1>6. ASSUME bound[t] = {}, life[t] = "Ready", NEW new \in Records, Replanned(t, new)
      PROVE CalendarInv'
  <2>1. CalendarTypeOK'
    BY <1>3, <1>4, <1>6 DEF Replanned, CalendarInv, CalendarTypeOK
  <2> QED BY <1>1, <1>6, <2>1, ReplannedKeeps
<1>7. ASSUME bound[t] = {}, life[t] = "Ready", NEW new \in Records, NEW S \in Alternatives[t],
             Bound(t, S, new)
      PROVE CalendarInv'
  <2>1. S \subseteq Resources
    BY CalendarConstants
  <2>2. CalendarTypeOK'
    BY <1>3, <1>4, <1>7, <2>1 DEF Bound, CalendarInv, CalendarTypeOK
  <2> QED BY <1>1, <1>7, <2>2, BoundKeeps
<1> QED BY <1>5, <1>6, <1>7, DriveEffect

(* The other steps, and the theorems. *)

\* Releasing the Tasks T, which leave their Mission or go on without their
\* calendar records and resources, keeps the invariant.
LEMMA ReleaseKeeps ==
  ASSUME CalendarInv, CalendarTypeOK', NEW T \in SUBSET Tasks,
         ReleaseAll(T), \A t \in Tasks : t \in T => life'[t] = "Gone",
         \A t \in Tasks : t \notin T => life'[t] = life[t],
         \A t \in todo' : life'[t] = "Ready"
  PROVE CalendarInv'
<1>1. /\ \A t \in Tasks : t \in T => cal'[t] = NoRecord /\ bound'[t] = {}
      /\ \A t \in Tasks : t \notin T => cal'[t] = cal[t] /\ bound'[t] = bound[t]
      /\ \A r \in Resources : owner'[r] = IF owner[r] \in T THEN NoTask ELSE owner[r]
  BY DEF ReleaseAll, Versioned
<1>2. ASSUME NEW t \in Tasks PROVE Shape(t)'
  BY <1>1 DEF CalendarInv, Shape, NoRecord
<1>3. ASSUME NEW t \in Tasks PROVE Owns(t)'
  BY <1>1, CalendarConstants DEF CalendarInv, Owns
<1>4. ASSUME NEW t \in Tasks, NEW u \in Tasks PROVE Apart(t, u)'
  <2>1. Apart(t, u) BY DEF CalendarInv
  <2>2. NoRecord.phase = "None" BY DEF NoRecord
  <2> QED BY <1>1, <2>1, <2>2 DEF Apart
<1>5. ASSUME NEW t \in Tasks, NEW r \in Resources PROVE Behind(t, r)'
  BY <1>1, CalendarConstants DEF CalendarInv, Behind, NoRecord
<1> QED BY <1>2, <1>3, <1>4, <1>5 DEF CalendarInv

\* A fact, a timer tick or an operator's request keeps the state well typed.
LEMMA OtherTypes ==
  ASSUME CalendarTypeOK, Next, \A t \in Tasks : ~DriveTask(t)
  PROVE CalendarTypeOK'
<1>1. NoRecord \in Records /\ \A rec \in Records : Aged(rec) \in Records
  BY RecordTypes
<1>2. cal \in [Tasks -> Records]
  BY DEF CalendarTypeOK, Records
<1>3. SUFFICES cal' \in [Tasks -> Records] /\
               (cal' \in [Tasks -> Records] => CalendarTypeOK')
  OBVIOUS
<1>4. CASE Timer \/ Review
  BY <1>2, <1>4 DEF Timer, Review, PassOver, Dispatchable, CalendarTypeOK, Records
<1>5. CASE Elapse
  BY <1>1, <1>2, <1>5 DEF Elapse, Down, DownWindow, NoLimit, CalendarTypeOK, Records
<1>6. ASSUME NEW t \in Tasks, Activate(t)
      PROVE cal' \in [Tasks -> Records] /\ (cal' \in [Tasks -> Records] => CalendarTypeOK')
  <2>1. [cal[t] EXCEPT !.phase = "Activated"] \in Records
    BY <1>2 DEF Records, Phases
  <2>2. cal' \in [Tasks -> Records]
    BY <1>2, <1>6, <2>1 DEF Activate, Versioned
  <2> QED BY <1>6, <2>2 DEF Activate, Versioned, PassOver, Dispatchable, CalendarTypeOK, Records
<1>7. ASSUME NEW t \in Tasks, Complete(t) \/ FailMission(t)
      PROVE cal' \in [Tasks -> Records] /\ (cal' \in [Tasks -> Records] => CalendarTypeOK')
  <2>1. PICK T \in SUBSET Tasks : ReleaseAll(T)
    BY <1>7 DEF Complete, FailMission, TasksOf
  <2>2. /\ cal' \in [Tasks -> Records] /\ bound' \in [Tasks -> SUBSET Resources]
        /\ owner' \in [Resources -> Tasks \cup {NoTask}] /\ fresh' \in {"fresh", "stale"}
    BY <1>1, <1>2, <2>1 DEF ReleaseAll, Versioned, CalendarTypeOK
  <2>3. /\ life' \in [Tasks -> {"Pending", "Ready", "Active", "Cancelling", "Gone"}]
        /\ todo' \in SUBSET Tasks /\ UNCHANGED <<missed, wait, open, view, writes>>
    BY <1>7 DEF Complete, FailMission, PassOver, Dispatchable, CalendarTypeOK
  <2> QED BY <2>2, <2>3 DEF CalendarTypeOK, Records
<1>8. ASSUME NEW m \in Missions, Accept(m) \/ RequestCancel(m) \/ FinalizeCancel(m)
      PROVE cal' \in [Tasks -> Records] /\ (cal' \in [Tasks -> Records] => CalendarTypeOK')
  BY <1>1, <1>2, <1>8, SMTT(30) DEF Accept, RequestCancel, FinalizeCancel, ReleaseAll, Versioned,
     PassOver, Dispatchable, TasksOf, CalendarTypeOK, Records
<1>9. ASSUME NEW m \in Missions, NEW t \in Tasks, Preempt(m, t)
      PROVE cal' \in [Tasks -> Records] /\ (cal' \in [Tasks -> Records] => CalendarTypeOK')
  BY <1>1, <1>2, <1>9 DEF Preempt, Versioned, Clear, CalendarTypeOK, Records
<1> QED BY <1>4, <1>5, <1>6, <1>7, <1>8, <1>9 DEF Next

\* One unit of time keeps planned intervals apart and behind their owners.
LEMMA ElapseKeeps ==
  ASSUME CalendarInv, CalendarTypeOK', Elapse
  PROVE CalendarInv'
<1>1. /\ UNCHANGED <<life, bound, owner, todo>>
      /\ \A t \in Tasks : /\ cal'[t].phase = cal[t].phase /\ cal'[t].res = cal[t].res
                          /\ cal[t].phase # "None" => /\ cal'[t].start = Down(cal[t].start)
                                                      /\ cal'[t].end = Down(cal[t].end)
  BY DEF Elapse, Aged, CalendarInv, CalendarTypeOK
<1>2. \A a, b \in Nat : a <= b => Down(a) <= Down(b)
  BY DEF Down
<1>3. \A t \in Tasks : cal[t].start \in Nat /\ cal[t].end \in Nat
  BY DEF CalendarInv, CalendarTypeOK
<1>4. ASSUME NEW t \in Tasks PROVE Shape(t)'
  <2>1. Shape(t) BY DEF CalendarInv
  <2>2. Down(0) = 0 BY DEF Down
  <2> QED BY <1>1, <2>1, <2>2 DEF Shape
<1>5. ASSUME NEW t \in Tasks PROVE Owns(t)'
  BY <1>1 DEF CalendarInv, Owns
<1>6. ASSUME NEW t \in Tasks, NEW u \in Tasks PROVE Apart(t, u)'
  <2>1. Apart(t, u)
    BY DEF CalendarInv
  <2> QED BY <1>1, <1>2, <1>3, <2>1, Zenon DEF Apart
<1>7. ASSUME NEW t \in Tasks, NEW r \in Resources PROVE Behind(t, r)'
  <2>1. Behind(t, r)
    BY DEF CalendarInv
  <2> QED BY <1>1, <1>2, <1>3, <2>1 DEF Behind
<1> QED BY <1>4, <1>5, <1>6, <1>7 DEF CalendarInv

\* Activation keeps the invariant: nothing is planned behind the Task yet.
LEMMA ActivateKeeps ==
  ASSUME CalendarInv, CalendarTypeOK', NEW t \in Tasks, Activate(t)
  PROVE CalendarInv'
<1>1. life[t] = "Ready" /\ bound[t] # {} /\ UNCHANGED <<bound, owner>>
  BY DEF Activate
<1>2. CASE UNCHANGED <<life, cal, fresh, todo>>
  BY <1>1, <1>2, QuietKeeps
<1>3. CASE /\ life' = [life EXCEPT ![t] = "Active"]
           /\ cal' = IF cal[t].phase = "Scheduled"
                     THEN [cal EXCEPT ![t].phase = "Activated"] ELSE cal
           /\ todo' = Dispatchable(life', missed)
  <2>1. /\ \A u \in Tasks \ {t} : cal'[u] = cal[u] /\ life'[u] = life[u]
        /\ life'[t] = "Active" /\ bound' = bound /\ owner' = owner
        /\ cal'[t].res = cal[t].res /\ cal'[t].start = cal[t].start
        /\ cal'[t].phase = IF cal[t].phase = "Scheduled" THEN "Activated" ELSE cal[t].phase
    BY <1>1, <1>3 DEF CalendarInv, CalendarTypeOK
  <2>2. \A u \in todo' : life'[u] = "Ready"
    BY <1>3 DEF Dispatchable
  <2>3. ASSUME NEW u \in Tasks PROVE Shape(u)'
    <3>1. CASE u = t
      BY <1>1, <2>1, <2>2, <3>1 DEF CalendarInv, Shape
    <3>2. CASE u # t
      BY <1>1, <2>1, <2>2, <3>2 DEF CalendarInv, Shape
    <3> QED BY <3>1, <3>2
  <2>4. ASSUME NEW u \in Tasks PROVE Owns(u)'
    BY <2>1 DEF CalendarInv, Owns
  <2>5. ASSUME NEW u \in Tasks, NEW v \in Tasks PROVE Apart(u, v)'
    <3>1. cal'[t].phase # "Scheduled"
      BY <2>1
    <3> QED BY <2>1, <3>1, Zenon DEF CalendarInv, Apart
  <2>6. ASSUME NEW u \in Tasks, NEW r \in Resources PROVE Behind(u, r)'
    <3>1. CASE u = t
      BY <2>1, <3>1 DEF Behind
    <3>2. CASE u # t
      <4>1. Behind(u, r)
        BY DEF CalendarInv
      <4>2. cal[u].phase = "Scheduled" /\ r \in cal[u].res => owner[r] # t
        BY <1>1, <3>2, <4>1 DEF Behind
      <4> QED BY <2>1, <3>2, <4>1, <4>2 DEF Behind
    <3> QED BY <3>1, <3>2
  <2> QED BY <2>3, <2>4, <2>5, <2>6 DEF CalendarInv
<1> QED BY <1>2, <1>3 DEF Activate, Versioned, PassOver

\* The whole next-state relation keeps the invariant.
LEMMA CalendarStep ==
  ASSUME CalendarInv, [Next]_vars PROVE CalendarInv'
<1>1. CASE UNCHANGED vars
  <2>1. CalendarTypeOK'
    BY <1>1 DEF vars, CalendarInv, CalendarTypeOK
  <2> QED BY <1>1, <2>1, QuietKeeps DEF vars
<1>2. ASSUME NEW t \in Tasks, DriveTask(t) PROVE CalendarInv'
  BY <1>2, DriveKeeps
<1>3. CASE Next /\ \A t \in Tasks : ~DriveTask(t)
  <2>1. CalendarTypeOK'
    BY <1>3, OtherTypes DEF CalendarInv
  <2>2. CASE Timer \/ Review
    <3>1. /\ UNCHANGED <<life, cal, bound, owner>>
          /\ \A u \in Tasks : u \in todo' => u \in todo \/ life[u] = "Ready"
      BY <2>2 DEF Timer, Review, PassOver, Dispatchable
    <3> QED BY <2>1, <3>1, QuietKeeps
  <2>3. CASE Elapse
    BY <2>1, <2>3, ElapseKeeps
  <2>4. ASSUME NEW t \in Tasks, Activate(t) PROVE CalendarInv'
    BY <2>1, <2>4, ActivateKeeps
  <2>5. ASSUME NEW t \in Tasks, Complete(t) PROVE CalendarInv'
    <3>1. /\ \A u \in Tasks : u \in {t} => life'[u] = "Gone"
          /\ \A u \in Tasks : u \notin {t} => life'[u] = life[u]
          /\ \A u \in todo' : life'[u] = "Ready"
          /\ ReleaseAll({t})
      BY <2>5 DEF Complete, PassOver, Dispatchable, CalendarInv, CalendarTypeOK
    <3> QED BY <2>1, <3>1, ReleaseKeeps
  <2>6. ASSUME NEW t \in Tasks, FailMission(t) PROVE CalendarInv'
    <3> DEFINE T == TasksOf(Mission[t])
    <3>1. /\ T \in SUBSET Tasks
          /\ \A u \in Tasks : u \in T => life'[u] = "Gone"
          /\ \A u \in Tasks : u \notin T => life'[u] = life[u]
          /\ \A u \in todo' : life'[u] = "Ready"
          /\ ReleaseAll(T)
      BY <2>6 DEF FailMission, TasksOf, PassOver, Dispatchable, CalendarInv, CalendarTypeOK
    <3> HIDE DEF T
    <3> QED BY <2>1, <3>1, ReleaseKeeps
  <2>7. ASSUME NEW m \in Missions, FinalizeCancel(m) PROVE CalendarInv'
    <3> DEFINE T == {u \in TasksOf(m) : life[u] = "Cancelling"}
    <3>1. /\ T \in SUBSET Tasks
          /\ \A u \in Tasks : u \in T => life'[u] = "Gone"
          /\ \A u \in Tasks : u \notin T => life'[u] = life[u]
          /\ \A u \in todo' : life'[u] = "Ready"
          /\ ReleaseAll(T)
      BY <2>7 DEF FinalizeCancel, TasksOf, PassOver, Dispatchable, CalendarInv, CalendarTypeOK
    <3> HIDE DEF T
    <3> QED BY <2>1, <3>1, ReleaseKeeps
  <2>8. ASSUME NEW m \in Missions, Accept(m) PROVE CalendarInv'
    <3>1. /\ UNCHANGED <<cal, bound, owner>> /\ todo' = {}
          /\ \A u \in Tasks : life'[u] = life[u] \/ (life[u] = "Pending" /\ life'[u] = "Ready")
      BY <2>8 DEF Accept, Idle, TasksOf, CalendarInv, CalendarTypeOK
    <3>2. ASSUME NEW u \in Tasks PROVE Shape(u)'
      BY <3>1 DEF CalendarInv, Shape
    <3>3. ASSUME NEW u \in Tasks, NEW r \in Resources PROVE Behind(u, r)'
      <4>1. owner[r] \in Tasks => life[owner[r]] # "Pending"
        BY DEF CalendarInv, Owns, Shape
      <4> QED BY <3>1, <4>1 DEF CalendarInv, Behind
    <3> QED BY <2>1, <3>1, <3>2, <3>3 DEF CalendarInv, Owns, Apart
  <2>9. ASSUME NEW m \in Missions, RequestCancel(m) PROVE CalendarInv'
    <3>1. /\ UNCHANGED <<bound, owner>> /\ todo' = {}
          /\ \A u \in Tasks :
                \/ life'[u] = life[u] /\ (cal'[u] = cal[u] \/ cal'[u] = NoRecord)
                \/ life[u] # "Gone" /\ life'[u] = "Cancelling" /\ cal'[u] = NoRecord
      BY <2>9 DEF RequestCancel, Idle, TasksOf, Versioned, CalendarInv, CalendarTypeOK
    <3>2. NoRecord.phase = "None" BY DEF NoRecord
    <3>3. ASSUME NEW u \in Tasks PROVE Shape(u)'
      <4>1. Shape(u) BY DEF CalendarInv
      <4> QED BY <3>1, <3>2, <4>1, Zenon DEF Shape
    <3>4. ASSUME NEW u \in Tasks, NEW v \in Tasks PROVE Apart(u, v)'
      <4>1. Apart(u, v) BY DEF CalendarInv
      <4> QED BY <3>1, <3>2, <4>1 DEF Apart
    <3>5. ASSUME NEW u \in Tasks, NEW r \in Resources PROVE Behind(u, r)'
      <4>1. Behind(u, r) BY DEF CalendarInv
      <4> QED BY <3>1, <3>2, <4>1 DEF Behind
    <3> QED BY <2>1, <3>1, <3>3, <3>4, <3>5, Zenon DEF CalendarInv, Owns
  <2>10. ASSUME NEW m \in Missions, NEW t \in Tasks, Preempt(m, t) PROVE CalendarInv'
    <3>1. bound[t] = {} /\ life[t] = "Ready" /\ Replanned(t, NoRecord) /\ UNCHANGED <<life, todo>>
      BY <2>10, Zenon DEF Preempt, ReadyUnbound, Versioned, Clear, Replanned
    <3>2. NoRecord \in Records
      BY RecordTypes DEF CalendarInv
    <3> QED BY <2>1, <3>1, <3>2, ReplannedKeeps
  <2> QED BY <1>3, <2>2, <2>3, <2>4, <2>5, <2>6, <2>7, <2>8, <2>9, <2>10 DEF Next
<1> QED BY <1>1, <1>2, <1>3

\* The inductive invariant holds in the initial state.
LEMMA CalendarStart ==
  ASSUME Init PROVE CalendarInv
<1>1. NoRecord \in Records
  BY DEF NoRecord, Records, Phases, NoLimit
<1>2. \A t \in Tasks : LatestActivation(t) \in Int
  <2>1. NoLimit \in Int
    BY DEF NoLimit
  <2>2. \A n \in Nat \cup {NoLimit} : n \in Int
    BY <2>1
  <2>3. ASSUME NEW t \in Tasks PROVE LatestActivation(t) \in Int
    <3>1. Duration[t] \in Nat /\ LatestStart[t] \in Int /\ Deadline[t] \in Int
      BY <2>2, CalendarConstants, Zenon
    <3> QED BY <2>1, <3>1 DEF LatestActivation
  <2> QED BY <2>3, Zenon
<1>3. CalendarTypeOK
  BY <1>1, <1>2, CalendarConstants DEF Init, CalendarTypeOK, Records
<1> QED BY <1>3, CalendarConstants DEF Init, CalendarInv, Shape, Owns, Apart, Behind, NoRecord

\* Every reachable state satisfies the inductive invariant.
THEOREM CalendarInvariant == Spec => []CalendarInv
<1>1. Init => CalendarInv
  BY CalendarStart
<1>2. CalendarInv /\ [Next]_vars => CalendarInv'
  BY CalendarStep
<1> QED BY <1>1, <1>2, PTL DEF Spec

\* The reservations and the Tasks' assignments, kept separately by commit,
\* bind and the releases, agree in every reachable state.
THEOREM CalendarOwnershipAgrees == Spec => []OwnershipAgrees
<1>1. CalendarInv => OwnershipAgrees
  <2>1. ASSUME CalendarInv, NEW t \in Tasks
        PROVE bound[t] = {r \in Resources : owner[r] = t}
    <3>1. bound[t] \subseteq Resources /\ Owns(t)
      BY <2>1 DEF CalendarInv, CalendarTypeOK
    <3> QED BY <3>1 DEF Owns
  <2> QED BY <2>1, Zenon DEF CalendarInv, OwnershipAgrees, Shape
<1> QED BY <1>1, CalendarInvariant, PTL

\* Every calendar the Controller can save passes its own restore validation.
THEOREM CalendarAlwaysRestorable == Spec => []CalendarRestorable
<1>1. CalendarInv => CalendarRestorable
  BY Zenon DEF CalendarInv, CalendarRestorable, Apart, Shape
<1> QED BY <1>1, CalendarInvariant, PTL

\* No interval is planned on a resource before its owner's planned end.
THEOREM PlansStayBehindOwners == Spec => []PlannedBehindOwner
<1>1. CalendarInv => PlannedBehindOwner
  BY Zenon DEF CalendarInv, PlannedBehindOwner, Behind
<1> QED BY <1>1, CalendarInvariant, PTL

(* What the operator's review rests on: a Task without a record plans      *)
(* nothing, and while the version is the reviewed one the plan is too.     *)
ReviewInv ==
    /\ \A t \in Tasks : cal[t].phase = "None" => cal[t].res = {}
    /\ fresh = "fresh" => \A t \in Tasks : view[t] = cal[t].res

(* The step leaves the review alone, and either moves the version on or    *)
(* changes no planned resource; a record it removes is removed whole.      *)
Tracked ==
    /\ view' = view
    /\ \A t \in Tasks : cal'[t].phase = "None" => cal'[t].res = {}
    /\ \/ fresh' = "stale"
       \/ fresh' = fresh /\ \A t \in Tasks : cal'[t].res = cal[t].res

(* The step takes no interval that is still ahead from a Task that stays   *)
(* Ready.                                                                  *)
KeepsFuture ==
    \A t \in Tasks :
       cal[t].phase = "Scheduled" /\ cal[t].start > 0 /\ cal'[t].phase = "None"
       => life'[t] # "Ready"

\* A step that tracks the review keeps what the review rests on.
LEMMA TrackedKeeps ==
  ASSUME ReviewInv, Tracked PROVE ReviewInv'
<1>1. CASE fresh' = "stale"
  BY <1>1 DEF ReviewInv, Tracked
<1>2. CASE fresh' = fresh /\ \A t \in Tasks : cal'[t].res = cal[t].res
  BY <1>2 DEF ReviewInv, Tracked
<1> QED BY <1>1, <1>2 DEF Tracked

\* Records that are removed together, with the version moved on when one of them was
\* there (ReleaseAll, request_cancel), are tracked.
LEMMA RemovalTracked ==
  ASSUME CalendarTypeOK, ReviewInv, view' = view, NEW T \in SUBSET Tasks,
         Versioned([t \in Tasks |-> IF t \in T THEN NoRecord ELSE cal[t]],
                   \E t \in T : cal[t].phase # "None")
  PROVE Tracked
<1>1. NoRecord.phase = "None" /\ NoRecord.res = {}
  BY DEF NoRecord
<1>2. \A t \in Tasks : cal'[t] = IF t \in T THEN NoRecord ELSE cal[t]
  BY DEF Versioned
<1>3. \A t \in Tasks : cal'[t].phase = "None" => cal'[t].res = {}
  BY <1>1, <1>2 DEF ReviewInv
<1>4. CASE \E t \in T : cal[t].phase # "None"
  <2>1. fresh' = "stale"
    BY <1>4, Zenon DEF Versioned
  <2> QED BY <1>3, <2>1, Zenon DEF Tracked
<1>5. CASE ~\E t \in T : cal[t].phase # "None"
  <2>1. fresh' = fresh
    BY <1>5, Zenon DEF Versioned
  <2>2. ASSUME NEW t \in Tasks PROVE cal'[t].res = cal[t].res
    <3>1. t \in T => cal[t].res = {}
      BY <1>5, Zenon DEF ReviewInv
    <3> QED BY <1>1, <1>2, <3>1
  <2> QED BY <1>3, <2>1, <2>2, Zenon DEF Tracked
<1> QED BY <1>4, <1>5, Zenon

\* Commit keeps the planned resources of the records it is given, bound or invalidated,
\* and never removes one.
LEMMA CommitTracked ==
  ASSUME NEW k \in [Tasks -> Records], NEW t \in Tasks, NEW S, NEW moved \in BOOLEAN,
         Commit(k, t, S, moved)
  PROVE /\ \A u \in Tasks : /\ cal'[u].res = k[u].res
                            /\ cal'[u].phase = "None" <=> k[u].phase = "None"
        /\ fresh' = "stale" \/ (fresh' = fresh /\ ~moved)
<1>1. CASE Versioned(k, moved)
  BY <1>1 DEF Versioned
<1>2. CASE Versioned(Invalidate(k, t), moved \/ k[t].phase # "None")
  <2>1. ASSUME NEW u \in Tasks
        PROVE /\ Invalidate(k, t)[u].res = k[u].res
              /\ Invalidate(k, t)[u].phase = "None" <=> k[u].phase = "None"
    BY DEF Invalidate, Records
  <2> QED BY <1>2, <2>1 DEF Versioned
<1> QED BY <1>1, <1>2, Zenon DEF Commit

\* Driving a Task tracks the review, and consumes only a record that is due,
\* invalidated or absent.
LEMMA DriveTracked ==
  ASSUME CalendarInv, ReviewInv, NEW t \in Tasks, DriveTask(t)
  PROVE Tracked /\ KeepsFuture
<1>1. PICK cs \in Matches(t) :
          \/ Waits(t, cs) \/ CommitsDue(t, cs) \/ MissesWindow(t, cs)
          \/ PlansNothing(t, cs) \/ PlansFuture(t, cs) \/ PlansNow(t, cs)
  BY DEF DriveTask
<1>2. view' = view
  BY DEF DriveTask
<1>3. cal \in [Tasks -> Records] /\ CalendarTypeOK
  BY DEF CalendarInv, CalendarTypeOK, Records
<1>4. NoRecord \in Records /\ NoRecord.phase = "None" /\ NoRecord.res = {}
  BY <1>3, RecordTypes DEF NoRecord
<1>5. \A S \in cs : S \in SUBSET Resources
  BY CalendarConstants DEF Matches
<1>6. Clear(t) \in [Tasks -> Records] /\ \A u \in Tasks : Clear(t)[u] = IF u = t THEN NoRecord ELSE cal[u]
  BY <1>3, <1>4 DEF Clear
<1>7. ASSUME ~(cal[t].phase = "Scheduled" /\ cal[t].start > 0),
             \A u \in Tasks \ {t} : cal'[u].phase = "None" => cal[u].phase = "None"
      PROVE KeepsFuture
  BY <1>7, Zenon DEF KeepsFuture
<1>8. ASSUME Plans(t, cs) PROVE ~(cal[t].phase = "Scheduled" /\ cal[t].start > 0)
  BY <1>8 DEF Plans, Due
<1>9. cal[t].phase = "None" => cal[t].res = {}
  BY Zenon DEF ReviewInv
<1>10. ASSUME ~(cal[t].phase = "Scheduled" /\ cal[t].start > 0),
             Versioned(Clear(t), cal[t].phase # "None")
      PROVE Tracked /\ KeepsFuture
  <2>1. \A u \in Tasks : cal'[u] = IF u = t THEN NoRecord ELSE cal[u]
    BY <1>6, <1>10 DEF Versioned
  <2>2. KeepsFuture
    BY <1>7, <1>10, <2>1
  <2>3. fresh' = "stale" \/ (fresh' = fresh /\ cal[t].phase = "None")
    BY <1>10 DEF Versioned
  <2>4. \A u \in Tasks : cal'[u].phase = "None" => cal'[u].res = {}
    BY <1>4, <2>1 DEF ReviewInv
  <2>5. cal[t].phase = "None" => \A u \in Tasks : cal'[u].res = cal[u].res
    BY <1>4, <1>9, <2>1
  <2> QED BY <1>2, <2>2, <2>3, <2>4, <2>5, Zenon DEF Tracked
<1>11. TRUE \in BOOLEAN /\ FALSE \in BOOLEAN /\ (cal[t].phase # "None") \in BOOLEAN
  OBVIOUS
<1>12. CASE Waits(t, cs)
  BY <1>2, <1>12 DEF Waits, Tracked, KeepsFuture, ReviewInv
<1>13. CASE CommitsDue(t, cs)
  <2>1. ~(cal[t].phase = "Scheduled" /\ cal[t].start > 0)
    BY <1>13 DEF CommitsDue, Due
  <2>2. CASE Commit(cal, t, cal[t].res, FALSE)
    <3>1. /\ \A u \in Tasks : /\ cal'[u].res = cal[u].res
                              /\ cal'[u].phase = "None" <=> cal[u].phase = "None"
          /\ fresh' = "stale" \/ fresh' = fresh
      BY <1>3, <1>11, <2>2, CommitTracked, Zenon
    <3>2. KeepsFuture
      BY <1>7, <2>1, <3>1
    <3> QED BY <1>2, <3>1, <3>2 DEF Tracked, ReviewInv
  <2>3. CASE UNCHANGED <<cal, fresh, bound, owner>>
    BY <1>2, <2>3 DEF Tracked, KeepsFuture, ReviewInv
  <2> QED BY <1>13, <2>2, <2>3, Zenon DEF CommitsDue
<1>14. CASE MissesWindow(t, cs) \/ PlansNothing(t, cs)
  <2>1. Versioned(Clear(t), cal[t].phase # "None")
    BY <1>14, Zenon DEF MissesWindow, PlansNothing
  <2>2. ~(cal[t].phase = "Scheduled" /\ cal[t].start > 0)
    <3>1. Plans(t, cs) \/ Due(t)
      BY <1>14, Zenon DEF MissesWindow, PlansNothing
    <3>2. Due(t) => cal[t].start = 0
      BY DEF Due
    <3> QED BY <1>8, <3>1, <3>2
  <2> QED BY <1>10, <2>1, <2>2
<1>15. CASE PlansFuture(t, cs)
  <2>1. PICK s \in Feasible(Clear(t), t, cs), S \in cs :
          Versioned([cal EXCEPT ![t] = Plan(t, S, s)], TRUE)
    BY <1>15, Zenon DEF PlansFuture
  <2>2. fresh' = "stale" /\ \A u \in Tasks : cal'[u] = IF u = t THEN Plan(t, S, s) ELSE cal[u]
    BY <1>3, <2>1 DEF Versioned
  <2>3. Plan(t, S, s).phase # "None"
    BY DEF Plan
  <2>4. KeepsFuture
    BY <1>7, <1>8, <1>15, <2>2 DEF PlansFuture
  <2> QED BY <1>2, <2>2, <2>3, <2>4 DEF Tracked, ReviewInv
<1>16. CASE PlansNow(t, cs)
  <2>1. PICK S \in cs :
          IF Duration[t] = 0 THEN Commit(Clear(t), t, S, cal[t].phase # "None")
          ELSE Commit([cal EXCEPT ![t] = Plan(t, S, 0)], t, S, TRUE)
    BY <1>16, Zenon DEF PlansNow
  <2>2. ~(cal[t].phase = "Scheduled" /\ cal[t].start > 0)
    BY <1>8, <1>16 DEF PlansNow
  <2>3. CASE Commit(Clear(t), t, S, cal[t].phase # "None")
    <3>1. /\ \A u \in Tasks : /\ cal'[u].res = Clear(t)[u].res
                              /\ cal'[u].phase = "None" <=> Clear(t)[u].phase = "None"
          /\ fresh' = "stale" \/ (fresh' = fresh /\ cal[t].phase = "None")
      BY <1>6, <1>11, <2>3, CommitTracked, Zenon
    <3>2. KeepsFuture
      BY <1>6, <1>7, <2>2, <3>1
    <3>3. \A u \in Tasks : cal'[u].phase = "None" => cal'[u].res = {}
      BY <1>4, <1>6, <3>1 DEF ReviewInv
    <3>4. ASSUME cal[t].phase = "None", NEW u \in Tasks PROVE cal'[u].res = cal[u].res
      <4>1. Clear(t)[u].res = cal[u].res
        <5>1. CASE u = t
          <6>1. Clear(t)[u] = NoRecord
            BY <1>6, <5>1
          <6> QED BY <1>4, <1>9, <3>4, <5>1, <6>1, Zenon
        <5>2. CASE u # t
          BY <1>6, <5>2
        <5> QED BY <5>1, <5>2
      <4> QED BY <3>1, <4>1, Zenon
    <3> QED BY <1>2, <3>1, <3>2, <3>3, <3>4, Zenon DEF Tracked
  <2>4. CASE Commit([cal EXCEPT ![t] = Plan(t, S, 0)], t, S, TRUE)
    <3> DEFINE k == [cal EXCEPT ![t] = Plan(t, S, 0)]
    <3>1. Plan(t, S, 0) \in Records /\ Plan(t, S, 0).phase = "Scheduled"
      BY <1>3, <1>5, RecordTypes DEF Plan
    <3>2. k \in [Tasks -> Records] /\ \A u \in Tasks : k[u] = IF u = t THEN Plan(t, S, 0) ELSE cal[u]
      BY <1>3, <3>1
    <3> HIDE DEF k
    <3>3. Commit(k, t, S, TRUE)
      BY <2>4, Zenon DEF k
    <3>4. /\ \A u \in Tasks : /\ cal'[u].res = k[u].res
                              /\ cal'[u].phase = "None" <=> k[u].phase = "None"
          /\ fresh' = "stale"
      BY <1>11, <3>2, <3>3, CommitTracked, Zenon
    <3>5. KeepsFuture
      BY <1>7, <2>2, <3>2, <3>4
    <3> QED BY <1>2, <3>1, <3>2, <3>4, <3>5 DEF Tracked, ReviewInv
  <2> QED BY <2>1, <2>3, <2>4, Zenon
<1> QED BY <1>1, <1>12, <1>13, <1>14, <1>15, <1>16

\* Every other step but a review and a preemption tracks the review and takes no
\* future interval from a Task that stays Ready.
LEMMA OthersTracked ==
  ASSUME CalendarInv, ReviewInv, Next, ~Review,
         \A t \in Tasks : ~DriveTask(t) /\ \A m \in Missions : ~Preempt(m, t)
  PROVE Tracked /\ KeepsFuture
<1>1. CalendarTypeOK
  BY DEF CalendarInv
<1>2. ASSUME NEW T \in SUBSET Tasks, view' = view, ReleaseAll(T), \A u \in T : life'[u] # "Ready"
      PROVE Tracked /\ KeepsFuture
  <2>1. Versioned([t \in Tasks |-> IF t \in T THEN NoRecord ELSE cal[t]],
                  \E t \in T : cal[t].phase # "None")
    BY <1>2, Zenon DEF ReleaseAll
  <2>2. Tracked
    BY <1>1, <1>2, <2>1, RemovalTracked, Zenon
  <2>3. \A u \in Tasks \ T : cal'[u] = cal[u]
    BY <2>1 DEF Versioned
  <2> QED BY <1>2, <2>2, <2>3 DEF KeepsFuture
<1>3. CASE Timer
  BY <1>3 DEF Timer, Tracked, KeepsFuture, ReviewInv
<1>4. CASE Elapse
  <2>1. /\ view' = view /\ fresh' = fresh
        /\ \A u \in Tasks : cal'[u].phase = cal[u].phase /\ cal'[u].res = cal[u].res
    BY <1>4 DEF Elapse, Aged
  <2> QED BY <2>1 DEF Tracked, KeepsFuture, ReviewInv
<1>5. ASSUME NEW t \in Tasks, Activate(t) PROVE Tracked /\ KeepsFuture
  <2>1. /\ view' = view /\ (fresh' = "stale" \/ fresh' = fresh)
        /\ \A u \in Tasks : /\ cal'[u].res = cal[u].res
                            /\ cal'[u].phase = "None" <=> cal[u].phase = "None"
    BY <1>1, <1>5 DEF Activate, Versioned, CalendarTypeOK
  <2> QED BY <2>1 DEF Tracked, KeepsFuture, ReviewInv
<1>6. ASSUME NEW t \in Tasks, Complete(t) PROVE Tracked /\ KeepsFuture
  <2>1. view' = view /\ ReleaseAll({t}) /\ \A u \in {t} : life'[u] # "Ready"
    BY <1>1, <1>6 DEF Complete, CalendarTypeOK
  <2> QED BY <1>2, <2>1
<1>7. ASSUME NEW t \in Tasks, FailMission(t) PROVE Tracked /\ KeepsFuture
  <2> DEFINE T == TasksOf(Mission[t])
  <2>1. T \in SUBSET Tasks /\ view' = view /\ ReleaseAll(T) /\ \A u \in T : life'[u] # "Ready"
    BY <1>7 DEF FailMission, TasksOf
  <2> HIDE DEF T
  <2> QED BY <1>2, <2>1
<1>8. ASSUME NEW m \in Missions, FinalizeCancel(m) PROVE Tracked /\ KeepsFuture
  <2> DEFINE T == {u \in TasksOf(m) : life[u] = "Cancelling"}
  <2>1. T \in SUBSET Tasks /\ view' = view /\ ReleaseAll(T) /\ \A u \in T : life'[u] # "Ready"
    BY <1>8 DEF FinalizeCancel, TasksOf
  <2> HIDE DEF T
  <2> QED BY <1>2, <2>1
<1>9. ASSUME NEW m \in Missions, Accept(m) PROVE Tracked /\ KeepsFuture
  BY <1>9 DEF Accept, Tracked, KeepsFuture, ReviewInv
<1>10. ASSUME NEW m \in Missions, RequestCancel(m) PROVE Tracked /\ KeepsFuture
  <2> DEFINE T == TasksOf(m)
  <2>1. /\ T \in SUBSET Tasks /\ view' = view
        /\ \A u \in T : life'[u] \in {"Cancelling", "Gone"}
    BY <1>10 DEF RequestCancel, TasksOf
  <2>2. Versioned([t \in Tasks |-> IF t \in T THEN NoRecord ELSE cal[t]],
                  \E t \in T : cal[t].phase # "None")
    BY <1>10, Zenon DEF RequestCancel
  <2> HIDE DEF T
  <2>3. Tracked
    BY <1>1, <2>1, <2>2, RemovalTracked, Zenon
  <2>4. \A u \in Tasks \ T : cal'[u] = cal[u]
    BY <2>2 DEF Versioned
  <2> QED BY <2>1, <2>3, <2>4 DEF KeepsFuture
<1> QED BY <1>3, <1>4, <1>5, <1>6, <1>7, <1>8, <1>9, <1>10 DEF Next

\* A preempted interval is the one the operator reviewed: the request is refused at any
\* other calendar version (preempt_future_task), and only a preemption takes a future interval away
\* from a Task that stays Ready.
THEOREM PreemptionsWereReviewed == Spec => PreemptsWhatWasReviewed
<1>1. Init => ReviewInv
  BY DEF Init, ReviewInv, NoRecord
<1>2. ASSUME CalendarInv, ReviewInv, Next PROVE ReviewInv' /\ PreemptStep
  <2>1. ASSUME Tracked, KeepsFuture PROVE ReviewInv' /\ PreemptStep
    BY <1>2, <2>1, TrackedKeeps, Zenon DEF KeepsFuture, PreemptStep
  <2>2. CASE Review
    BY <1>2, <2>2 DEF Review, ReviewInv, PreemptStep
  <2>3. ASSUME NEW t \in Tasks, DriveTask(t) PROVE ReviewInv' /\ PreemptStep
    BY <1>2, <2>1, <2>3, DriveTracked
  <2>4. ASSUME NEW m \in Missions, NEW t \in Tasks, Preempt(m, t)
        PROVE ReviewInv' /\ PreemptStep
    <3>1. /\ fresh = "fresh" /\ fresh' = "stale" /\ view' = view /\ bound[t] = {}
          /\ \A r \in Resources : r \in cal[t].res => owner[r] = NoTask
          /\ cal' = Clear(t)
      BY <2>4, Zenon DEF Preempt, ReadyUnbound, Versioned
    <3>2. \A u \in Tasks : cal'[u] = IF u = t THEN NoRecord ELSE cal[u]
      BY <1>2, <3>1 DEF Clear, CalendarInv, CalendarTypeOK
    <3>3. cal[t].res \in SUBSET Resources /\ NoRecord.res = {}
      BY <1>2 DEF CalendarInv, CalendarTypeOK, NoRecord
    <3>4. ReviewInv'
      BY <1>2, <3>1, <3>2, <3>3 DEF ReviewInv
    <3>5. view[t] = cal[t].res
      BY <1>2, <3>1 DEF ReviewInv
    <3>6. \A u \in Tasks \ {t} : cal'[u] = cal[u]
      BY <3>2
    <3>7. PreemptStep
      <4> SUFFICES ASSUME NEW u \in Tasks, cal[u].phase = "Scheduled", cal'[u].phase = "None"
                   PROVE view[u] = cal[u].res /\ bound[u] = {} /\ \A r \in cal[u].res : owner[r] = NoTask
        BY Zenon DEF PreemptStep
      <4>1. u = t
        BY <3>6
      <4> QED BY <3>1, <3>3, <3>5, <4>1
    <3> QED BY <3>4, <3>7
  <2>5. CASE ~Review /\ \A t \in Tasks : ~DriveTask(t) /\ \A m \in Missions : ~Preempt(m, t)
    BY <1>2, <2>1, <2>5, OthersTracked
  <2> QED BY <2>2, <2>3, <2>4, <2>5, Zenon
<1>3. ASSUME ReviewInv, UNCHANGED vars PROVE ReviewInv'
  BY <1>3 DEF vars, ReviewInv
<1>4. CalendarInv /\ ReviewInv /\ [Next]_vars => ReviewInv' /\ [PreemptStep]_vars
  BY <1>2, <1>3
<1> QED BY <1>1, <1>4, CalendarInvariant, PTL DEF Spec, PreemptsWhatWasReviewed

\* A step of the calendar is a step of the ownership promise, or none.
LEMMA OwnershipStep ==
  ASSUME CalendarInv, Next
  PROVE Ownership!ONext \/ UNCHANGED Ownership!avars
<1> DEFINE W == {t \in Tasks : life[t] \in {"Active", "Cancelling"} /\ bound[t] # {}}
<1>1. ASSUME NEW t \in Tasks, DriveTask(t)
      PROVE Ownership!ONext \/ UNCHANGED Ownership!avars
  <2>1. UNCHANGED life
    BY <1>1 DEF DriveTask
  <2>2. CASE UNCHANGED <<bound, owner>>
    BY <2>1, <2>2 DEF Ownership!avars
  <2>3. ASSUME bound[t] = {}, life[t] = "Ready", NEW S \in Alternatives[t], NEW new, Bound(t, S, new)
        PROVE Ownership!ONext
    <3>1. W' = W
      BY <2>1, <2>3 DEF Bound, CalendarInv, CalendarTypeOK
    <3>2. Ownership!Acquire(t, S)
      BY <2>3, <3>1 DEF Bound, Ownership!Acquire
    <3> QED BY <3>2 DEF Ownership!ONext
  <2> QED BY <1>1, <2>2, <2>3, DriveEffect DEF Replanned
<1>2. CASE Timer \/ Review \/ Elapse
  BY <1>2 DEF Timer, Review, Elapse, Ownership!avars
<1>3. ASSUME NEW t \in Tasks, Activate(t)
      PROVE Ownership!ONext \/ UNCHANGED Ownership!avars
  <2>1. bound[t] # {} /\ UNCHANGED <<bound, owner>>
    BY <1>3 DEF Activate
  <2>2. CASE life' = [life EXCEPT ![t] = "Active"]
    <3>1. W' = W \cup {t}
      BY <2>1, <2>2 DEF CalendarInv, CalendarTypeOK
    <3>2. Ownership!Work({t})
      BY <2>1, <3>1 DEF Ownership!Work
    <3> QED BY <3>2 DEF Ownership!ONext
  <2>3. CASE UNCHANGED life
    BY <2>1, <2>3 DEF Ownership!avars
  <2> QED BY <1>3, <2>2, <2>3 DEF Activate
<1>4. ASSUME NEW T \in SUBSET Tasks, ReleaseAll(T),
             \A t \in Tasks : t \notin T => life'[t] = life[t]
      PROVE Ownership!ONext
  <2>1. W' = W \ T
    BY <1>4 DEF ReleaseAll
  <2>2. Ownership!GiveBack(T)
    BY <1>4, <2>1 DEF ReleaseAll, Ownership!GiveBack
  <2> QED BY <2>2 DEF Ownership!ONext
<1>5. ASSUME NEW t \in Tasks, Complete(t) PROVE Ownership!ONext
  <2>1. ReleaseAll({t}) /\ \A u \in Tasks : u \notin {t} => life'[u] = life[u]
    BY <1>5 DEF Complete, CalendarInv, CalendarTypeOK
  <2> QED BY <1>4, <2>1
<1>6. ASSUME NEW t \in Tasks, FailMission(t) PROVE Ownership!ONext
  <2>1. /\ TasksOf(Mission[t]) \in SUBSET Tasks /\ ReleaseAll(TasksOf(Mission[t]))
        /\ \A u \in Tasks : u \notin TasksOf(Mission[t]) => life'[u] = life[u]
    BY <1>6 DEF FailMission, TasksOf
  <2> QED BY <1>4, <2>1
<1>7. ASSUME NEW m \in Missions, FinalizeCancel(m) PROVE Ownership!ONext
  <2> DEFINE T == {u \in TasksOf(m) : life[u] = "Cancelling"}
  <2>1. /\ T \in SUBSET Tasks /\ ReleaseAll(T)
        /\ \A u \in Tasks : u \notin T => life'[u] = life[u]
    BY <1>7 DEF FinalizeCancel, TasksOf
  <2> QED BY <1>4, <2>1
<1>8. ASSUME NEW m \in Missions, Accept(m) PROVE UNCHANGED Ownership!avars
  <2>1. /\ UNCHANGED <<bound, owner>>
        /\ \A u \in Tasks : life'[u] = life[u] \/ (life[u] = "Pending" /\ life'[u] = "Ready")
    BY <1>8 DEF Accept, TasksOf, CalendarInv, CalendarTypeOK
  <2>2. W' = W
    BY <2>1
  <2> QED BY <2>1, <2>2 DEF Ownership!avars
<1>9. ASSUME NEW m \in Missions, RequestCancel(m) PROVE Ownership!ONext
  <2>1. PICK T \in SUBSET Tasks : T = {u \in TasksOf(m) : life[u] # "Gone" /\ bound[u] # {}}
    <3>1. {u \in TasksOf(m) : life[u] # "Gone" /\ bound[u] # {}} \in SUBSET Tasks
      BY DEF TasksOf
    <3> QED BY <3>1, Zenon
  <2>2. /\ UNCHANGED <<bound, owner>>
        /\ \A u \in Tasks : life'[u] = IF u \in TasksOf(m) /\ life[u] # "Gone"
                                       THEN "Cancelling" ELSE life[u]
    BY <1>9 DEF RequestCancel, TasksOf
  <2>3. W' = W \cup T
    BY <2>1, <2>2 DEF TasksOf
  <2>4. Ownership!Work(T)
    BY <2>1, <2>2, <2>3 DEF Ownership!Work
  <2> QED BY <2>4 DEF Ownership!ONext
<1>10. ASSUME NEW m \in Missions, NEW t \in Tasks, Preempt(m, t)
       PROVE UNCHANGED Ownership!avars
  BY <1>10 DEF Preempt, Ownership!avars
<1> QED BY <1>1, <1>2, <1>3, <1>5, <1>6, <1>7, <1>8, <1>9, <1>10 DEF Next

\* The calendar implements the ownership promise for every instance: complete
\* placements are taken from free resources and returned whole.
THEOREM CalendarImplementsOwnership == Spec => ImplementsOwnership
<1>1. Init => Ownership!OInit
  BY DEF Init, Ownership!OInit
<1>2. CalendarInv /\ [Next]_vars => [Ownership!ONext]_(Ownership!avars)
  BY OwnershipStep DEF vars, Ownership!avars
<1> QED BY <1>1, <1>2, CalendarInvariant, PTL DEF Spec, ImplementsOwnership, Ownership!OSpec
=============================================================================

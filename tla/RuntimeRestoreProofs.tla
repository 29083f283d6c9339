-------------------------- MODULE RuntimeRestoreProofs --------------------------
(***************************************************************************)
(* Proof that every state RuntimeExecution commits can be restored, for    *)
(* any set of slots, Tasks and Nodes, any reports and budgets, and any     *)
(* bounds.                                                                 *)
(***************************************************************************)
EXTENDS RuntimeExecutionProofs, FiniteSetTheorems

(***************************************************************************)
(* Valid rounds                                                            *)
(***************************************************************************)

\* A round was requested in the past, confirms no stop of a preserved member, and has
\* replacements only once the work of every member ended.
RoundSettled(r) ==
    /\ r.requested <= now
    /\ \A a \in r.preserved : r.confirmed[a] = NoTime
    /\ r.fresh # {} => \A a \in r.members : status[a] \in {"Cancelled", "Completed"}

\* A round nothing touches stays valid.
LEMMA RoundStays ==
  ASSUME TypeOK, [Next]_vars, Persists, NEW r \in GroupRound, RoundValid(r), RoundSettled(r)
  PROVE  RoundValid(r)' /\ RoundSettled(r)'
<1>1. /\ r.members \subseteq Attempt /\ r.preserved \subseteq Attempt /\ r.fresh \subseteq Attempt
      /\ r.requested \in Int
  BY DEF GroupRound, Time
<1>2. \A a \in Attempt : status[a] \in {"Cancelled", "Completed"} => status'[a] = status[a]
  BY DEF Persists, Terminal
<1>3. r.members # {} /\ r.members \subseteq known /\ r.members \subseteq known'
  BY Zenon DEF RoundValid, Persists
<1>4. \A a \in r.preserved : status'[a] = "Completed"
  BY <1>1, <1>2 DEF RoundValid
<1>5. r.members \ r.preserved \subseteq cancels'
  BY DEF RoundValid, Persists
<1>6. \A a \in r.members : Support[owner'[a]] = "group" /\ owner'[a] = owner[a]
  BY <1>3 DEF RoundValid, Persists
<1>7. \A a \in Attempt : r.confirmed[a] # NoTime =>
          /\ a \in r.members /\ r.confirmed[a] >= r.requested
          /\ status'[a] \in {"Cancelled", "Completed"}
  BY <1>2 DEF RoundValid
<1>8. ASSUME r.fresh # {}
      PROVE  /\ r.fresh \subseteq known' \ r.members
             /\ {a[1] : a \in r.fresh} = {a[1] : a \in {m \in r.members : status'[m] = "Cancelled"}}
             /\ \A a \in r.fresh, m \in r.members : a[1] = m[1] => owner'[a] = owner'[m]
             /\ \A a \in r.members : status'[a] \in {"Cancelled", "Completed"}
  <2>1. \A a \in r.members : status'[a] = status[a]
    BY <1>1, <1>2, <1>8 DEF RoundSettled
  <2>2. {m \in r.members : status'[m] = "Cancelled"} = {m \in r.members : status[m] = "Cancelled"}
    BY <2>1
  <2>3. r.fresh \subseteq known \ r.members /\ r.fresh \subseteq known' \ r.members
    BY <1>8 DEF RoundValid, Persists
  <2>4. \A a \in r.fresh : owner'[a] = owner[a]
    BY <2>3 DEF Persists
  <2>5. {a[1] : a \in r.fresh} = {a[1] : a \in {m \in r.members : status'[m] = "Cancelled"}}
    BY <1>8, <2>2, Zenon DEF RoundValid
  <2>6. \A a \in r.fresh, m \in r.members : a[1] = m[1] => owner'[a] = owner'[m]
    BY <1>6, <1>8, <2>4 DEF RoundValid
  <2> QED
    BY <1>8, <2>1, <2>3, <2>5, <2>6, Zenon DEF RoundSettled
<1>9. RoundValid(r)'
  BY <1>3, <1>4, <1>5, <1>6, <1>7, <1>8, Zenon DEF RoundValid
<1>10. r.requested <= now'
  BY <1>1, ClockAdvances DEF RoundSettled
<1> QED
  BY <1>8, <1>9, <1>10 DEF RoundSettled

\* Recording evidence keeps a round valid (confirm_group_recovery_stop,
\* confirm_group_continuation_admission).
LEMMA ConfirmRoundValid ==
  ASSUME TypeOK, ContextsValid, NEW r \in GroupRound, RoundValid(r), RoundSettled(r),
         RoundValid(r)', RoundSettled(r)',
         NEW b \in Attempt, NEW n, NEW q, NEW st, NEW t \in Time, ObserveExecution(b, n, q, st, t),
         NEW x, x = ConfirmRound(r, b, st, t)
  PROVE  RoundValid(x)' /\ RoundSettled(x)'
<1>1. /\ x.members = r.members /\ x.preserved = r.preserved /\ x.requested = r.requested
      /\ x.deadline = r.deadline /\ x.limit = r.limit /\ x.fresh = r.fresh
      /\ x.prepared = r.prepared
  BY DEF ConfirmRound, GroupRound
<1>2. /\ x.confirmed = IF StopsMember(r, b, st, t) THEN [r.confirmed EXCEPT ![b] = t]
                       ELSE r.confirmed
      /\ x.admitted = IF AdmitsReplacement(r, b, st, t) THEN [r.admitted EXCEPT ![b] = t]
                      ELSE r.admitted
  BY DEF ConfirmRound, GroupRound
<1>3. /\ r.confirmed \in [Attempt -> Time \cup {NoTime}]
      /\ r.admitted \in [Attempt -> Time \cup {NoTime}]
      /\ r.members \subseteq Attempt /\ r.preserved \subseteq Attempt
  BY DEF GroupRound
<1>4. status'[b] = st /\ b \in Attempt
  BY Zenon DEF ObserveExecution, TypeOK
<1>5. ASSUME StopsMember(r, b, st, t)
      PROVE  /\ b \in r.members \ r.preserved /\ t >= r.requested
             /\ st \in {"Cancelled", "Completed"} /\ r.fresh = {}
  <2>1. /\ b \in r.members \ r.preserved /\ t >= r.requested /\ r.confirmed[b] = NoTime
        /\ st \in {"Cancelled", "Completed"}
    BY <1>5 DEF StopsMember
  <2>2. r.fresh # {} => r.confirmed[b] \in 0 .. r.deadline - 1
    BY <2>1, Zenon DEF RoundValid
  <2>3. NoTime \notin 0 .. r.deadline - 1
    BY DEF NoTime
  <2> QED
    BY <2>1, <2>2, <2>3, Zenon
<1>6. ASSUME AdmitsReplacement(r, b, st, t) PROVE b \in r.fresh /\ t >= r.prepared
  BY <1>6, Zenon DEF AdmitsReplacement
<1>7. \A a \in Attempt : x.confirmed[a] # NoTime =>
          /\ a \in r.members /\ x.confirmed[a] >= r.requested
          /\ status'[a] \in {"Cancelled", "Completed"}
  <2>1. CASE StopsMember(r, b, st, t)
    <3>1. \A a \in Attempt : a # b => x.confirmed[a] = r.confirmed[a]
      BY <1>2, <1>3, <2>1, Zenon
    <3>2. x.confirmed[b] = t
      BY <1>2, <1>3, <2>1, Zenon
    <3> QED
      BY <1>4, <1>5, <2>1, <3>1, <3>2 DEF RoundValid
  <2>2. CASE ~StopsMember(r, b, st, t)
    BY <1>2, <2>2, Zenon DEF RoundValid
  <2> QED
    BY <2>1, <2>2, Zenon
<1>8. \A a \in Attempt : x.admitted[a] # NoTime => a \in r.fresh /\ x.admitted[a] >= r.prepared
  <2>1. CASE AdmitsReplacement(r, b, st, t)
    <3>1. \A a \in Attempt : a # b => x.admitted[a] = r.admitted[a]
      BY <1>2, <1>3, <2>1, Zenon
    <3>2. x.admitted[b] = t
      BY <1>2, <1>3, <2>1, Zenon
    <3> QED
      BY <1>6, <2>1, <3>1, <3>2 DEF RoundValid
  <2>2. CASE ~AdmitsReplacement(r, b, st, t)
    BY <1>2, <2>2, Zenon DEF RoundValid
  <2> QED
    BY <2>1, <2>2, Zenon
<1>9. r.fresh # {} => x.confirmed = r.confirmed
  BY <1>2, <1>5, Zenon
<1>10. RoundValid(x)'
  <2>1. /\ x.members # {} /\ x.members \subseteq known'
        /\ x.deadline - x.requested \in 1 .. MaxTimeout /\ x.limit \in 1 .. MaxReplacements
        /\ x.preserved \subseteq x.members
    BY <1>1, Zenon DEF RoundValid
  <2>2. /\ \A a \in x.preserved : status'[a] = "Completed"
        /\ x.members \ x.preserved \subseteq cancels'
        /\ \A a \in x.members : Support[owner'[a]] = "group"
        /\ x.fresh = {} => x.prepared = NoTime
    BY <1>1, Zenon DEF RoundValid
  <2>3. \A a \in Attempt : x.confirmed[a] # NoTime =>
          /\ a \in x.members /\ x.confirmed[a] >= x.requested
          /\ status'[a] \in {"Cancelled", "Completed"}
    BY <1>1, <1>7, Zenon
  <2>4. \A a \in Attempt : x.admitted[a] # NoTime => a \in x.fresh /\ x.admitted[a] >= x.prepared
    BY <1>1, <1>8, Zenon
  <2>5. x.fresh # {} =>
          /\ x.prepared \in x.requested .. x.deadline - 1
          /\ x.fresh \subseteq known' \ x.members
          /\ \A a, c \in x.fresh : a[1] = c[1] => a = c
          /\ \A a \in x.fresh, m \in x.members : a[1] = m[1] => owner'[a] = owner'[m]
    BY <1>1 DEF RoundValid
  <2>6. x.fresh # {} =>
          {a[1] : a \in x.fresh} = {a[1] : a \in {m \in x.members : status'[m] = "Cancelled"}}
    BY <1>1, Zenon DEF RoundValid
  <2>7. x.fresh # {} =>
          /\ \A a \in x.members : x.confirmed[a] <= x.prepared
          /\ \A a \in x.members \ x.preserved : x.confirmed[a] \in 0 .. x.deadline - 1
    BY <1>1, <1>9, Zenon DEF RoundValid
  <2> QED
    BY <2>1, <2>2, <2>3, <2>4, <2>5, <2>6, <2>7, Zenon DEF RoundValid
<1>11. \A a \in r.preserved : x.confirmed[a] = NoTime
  <2>1. \A a \in r.preserved : x.confirmed[a] = r.confirmed[a]
    BY <1>2, <1>3, <1>5, Zenon
  <2> QED
    BY <2>1, Zenon DEF RoundSettled
<1>12. RoundSettled(x)'
  BY <1>1, <1>11, Zenon DEF RoundSettled
<1> QED
  BY <1>10, <1>12

\* Aborting a round keeps it valid (request_cancellation).
LEMMA AbortedRoundValid ==
  ASSUME NEW r \in GroupRound, RoundValid(r)', RoundSettled(r)', NEW h, NEW x,
         x = [r EXCEPT !.aborted = h]
  PROVE  RoundValid(x)' /\ RoundSettled(x)'
<1>1. /\ x.members = r.members /\ x.preserved = r.preserved /\ x.requested = r.requested
      /\ x.deadline = r.deadline /\ x.limit = r.limit /\ x.fresh = r.fresh
      /\ x.prepared = r.prepared /\ x.confirmed = r.confirmed /\ x.admitted = r.admitted
  BY DEF GroupRound
<1>2. /\ x.members # {} /\ x.members \subseteq known'
      /\ x.deadline - x.requested \in 1 .. MaxTimeout /\ x.limit \in 1 .. MaxReplacements
      /\ x.preserved \subseteq x.members
      /\ \A a \in x.preserved : status'[a] = "Completed"
      /\ x.members \ x.preserved \subseteq cancels'
      /\ \A a \in x.members : Support[owner'[a]] = "group"
      /\ x.fresh = {} => x.prepared = NoTime
  BY <1>1 DEF RoundValid
<1>3. /\ \A a \in Attempt : x.confirmed[a] # NoTime =>
            /\ a \in x.members /\ x.confirmed[a] >= x.requested
            /\ status'[a] \in {"Cancelled", "Completed"}
      /\ \A a \in Attempt : x.admitted[a] # NoTime => a \in x.fresh /\ x.admitted[a] >= x.prepared
  BY <1>1 DEF RoundValid
<1>4. x.fresh # {} =>
        /\ x.prepared \in x.requested .. x.deadline - 1
        /\ x.fresh \subseteq known' \ x.members
        /\ \A a, c \in x.fresh : a[1] = c[1] => a = c
        /\ \A a \in x.fresh, m \in x.members : a[1] = m[1] => owner'[a] = owner'[m]
  BY <1>1 DEF RoundValid
<1>5. x.fresh # {} =>
        {a[1] : a \in x.fresh} = {a[1] : a \in {m \in x.members : status'[m] = "Cancelled"}}
  BY <1>1, Zenon DEF RoundValid
<1>6. x.fresh # {} =>
        /\ \A a \in x.members : x.confirmed[a] <= x.prepared
        /\ \A a \in x.members \ x.preserved : x.confirmed[a] \in 0 .. x.deadline - 1
  BY <1>1 DEF RoundValid
<1>7. RoundValid(x)'
  BY <1>2, <1>3, <1>4, <1>5, <1>6, Zenon DEF RoundValid
<1>8. RoundSettled(x)'
  BY <1>1 DEF RoundSettled
<1> QED
  BY <1>7, <1>8

\* A new round is valid (request_group_recovery_stop).
LEMMA NewRoundValid ==
  ASSUME TypeOK, ContextsValid, NEW d \in Timeouts, NEW k \in Limits, RequestGroupRecovery(d, k)
  PROVE  \E x : /\ rounds' = Append(rounds, x) /\ x.limit = k
                /\ RoundValid(x)' /\ RoundSettled(x)'
<1> DEFINE members   == CurrentAttempts
           preserved == {a \in members : status[a] = "Completed"}
           new       == [members |-> members, preserved |-> preserved, requested |-> now,
                         deadline |-> now + d, limit |-> k,
                         confirmed |-> [a \in Attempt |-> NoTime], fresh |-> {},
                         prepared |-> NoTime, admitted |-> [a \in Attempt |-> NoTime],
                         aborted |-> FALSE]
<1>1. /\ members # preserved /\ \A a \in members : Recoverable(a)
      /\ cancels' = cancels \cup (members \ preserved)
      /\ known' = known /\ owner' = owner /\ status' = status /\ now' = now
  BY Zenon DEF RequestGroupRecovery
<1>2. rounds' = Append(rounds, new)
  BY Zenon DEF RequestGroupRecovery
<1>3. PICK x : x = new
  BY Zenon
<1>4. /\ x.members = members /\ x.preserved = preserved /\ x.requested = now
      /\ x.deadline = now + d /\ x.limit = k /\ x.fresh = {} /\ x.prepared = NoTime
      /\ x.confirmed = [a \in Attempt |-> NoTime] /\ x.admitted = [a \in Attempt |-> NoTime]
  BY <1>3
<1>5. members \subseteq known /\ known \subseteq Attempt /\ now \in Int
  BY DEF CurrentAttempts, TypeOK, Time
<1> HIDE DEF new, members
<1>6. d \in 1 .. MaxTimeout /\ k \in 1 .. MaxReplacements
  BY BudgetAssumption
<1>7. (now + d) - now = d
  <2>1. d \in Int
    BY Numbers
  <2> QED
    BY <1>5, <2>1
<1>8. /\ x.members # {} /\ x.members \subseteq known'
      /\ x.preserved \subseteq x.members
      /\ \A a \in x.preserved : status'[a] = "Completed"
      /\ x.members \ x.preserved \subseteq cancels'
      /\ \A a \in x.members : Support[owner'[a]] = "group"
  BY <1>1, <1>4, <1>5, Zenon DEF Recoverable
<1>9. RoundValid(x)'
  BY <1>4, <1>6, <1>7, <1>8, Zenon DEF RoundValid
<1>10. RoundSettled(x)'
  BY <1>1, <1>4, <1>5 DEF RoundSettled
<1> QED
  BY <1>2, <1>3, <1>4, <1>9, <1>10

\* A continued round is valid: its replacements are new, one for every Cancelled member, on
\* that member's Node, prepared in time (prepare_group_continuation).
LEMMA ContinuedRoundValid ==
  ASSUME TypeOK, ContextsValid, [Next]_vars, PrepareContinuation,
         RoundValid(rounds[Len(rounds)]), RoundSettled(rounds[Len(rounds)])
  PROVE  \E x : /\ rounds' = [rounds EXCEPT ![Len(rounds)] = x]
                /\ x.limit = rounds[Len(rounds)].limit
                /\ RoundValid(x)' /\ RoundSettled(x)'
<1> DEFINE last == Len(rounds)
           S == {a[1] : a \in {a \in rounds[last].members : status[a] = "Cancelled"}}
<1>1. rounds \in Seq(GroupRound) /\ last \in DOMAIN rounds
  BY DEF TypeOK, PrepareContinuation
<1>2. PICK r \in GroupRound : r = rounds[last]
  BY <1>1
<1>3. PICK g \in [S -> 1 .. MaxGen] :
             /\ Prepare(S, g, [s \in S |-> owner[Current(s)]])
             /\ rounds' = [rounds EXCEPT ![last].fresh = {<<s, g[s]>> : s \in S},
                                         ![last].prepared = now]
  BY Zenon DEF PrepareContinuation
<1>4. S # {} /\ Disposition(r) = "StopConfirmed"
  BY <1>2, Zenon DEF PrepareContinuation
<1>5. /\ r.fresh = {} /\ ~(now >= r.deadline)
      /\ \A a \in r.members : IsCurrent(a) /\ MemberStopped(r, a)
  BY <1>4 DEF Disposition, OpenDisposition
<1>6. \A a \in r.members : Current(a[1]) = a /\ a \in Attempt
  BY <1>2, ContinuationOwners
<1>7. S = {a[1] : a \in {a \in r.members : status[a] = "Cancelled"}} /\ S \in SUBSET Slots
  BY <1>2, <1>6 DEF Attempt
<1> DEFINE F == {<<s, g[s]>> : s \in S}
           new == [r EXCEPT !.fresh = F, !.prepared = now]
<1>8. rounds' = [rounds EXCEPT ![last] = new]
  BY <1>1, <1>2, <1>3, Zenon
<1>9. PICK x : x = new
  BY Zenon
<1>10. /\ x.members = r.members /\ x.preserved = r.preserved /\ x.requested = r.requested
       /\ x.deadline = r.deadline /\ x.limit = r.limit /\ x.fresh = F /\ x.prepared = now
       /\ x.confirmed = r.confirmed /\ x.admitted = r.admitted
  BY <1>9 DEF GroupRound
<1>11. Persists /\ RoundValid(r) /\ RoundSettled(r)
  BY <1>2, NextPersists
<1>12. RoundValid(r)' /\ RoundSettled(r)'
  BY <1>11, RoundStays
<1> HIDE DEF new, S
<1>13. /\ now \in Int /\ now >= 0 /\ r.requested \in Int /\ r.deadline \in Int
       /\ r.confirmed \in [Attempt -> Time \cup {NoTime}] /\ now' = now
  BY <1>3 DEF TypeOK, Time, GroupRound, Prepare
<1>14. \A a \in r.members : status[a] \in {"Cancelled", "Completed"} /\ status'[a] = status[a]
  <2>1. \A a \in r.members : status[a] \in {"Cancelled", "Completed"}
    BY <1>5, <1>11, Zenon DEF MemberStopped, RoundValid
  <2> QED
    BY <1>6, <1>11, <2>1 DEF Persists, Terminal
<1>15. F # {} /\ \A a \in F : a[1] \in S /\ a = <<a[1], g[a[1]]>>
  <2>1. F # {}
    BY <1>4, Zenon
  <2>2. ASSUME NEW a \in F PROVE a[1] \in S /\ a = <<a[1], g[a[1]]>>
    <3>1. PICK s \in S : a = <<s, g[s]>>
      BY Zenon
    <3>2. a[1] = s
      BY <3>1
    <3> QED
      BY <3>1, <3>2, Zenon
  <2> QED
    BY <2>1, <2>2
<1>16. F \subseteq known' \ r.members
  <2>1. F \subseteq known'
    BY <1>3 DEF Prepare
  <2>3. \A s \in S : <<s, g[s]>> \notin known
    BY <1>3 DEF Prepare, Allocates
  <2>2. F \cap known = {}
    BY <2>3
  <2> QED
    BY <1>11, <2>1, <2>2, Zenon DEF RoundValid
<1>17. {a[1] : a \in F} = {a[1] : a \in {m \in r.members : status'[m] = "Cancelled"}}
  <2>1. {a[1] : a \in F} = S
    <3>1. \A s \in S : <<s, g[s]>> \in F /\ <<s, g[s]>>[1] = s
      BY Zenon
    <3> HIDE DEF F
    <3> QED
      BY <1>15, <3>1, Zenon
  <2>2. {m \in r.members : status'[m] = "Cancelled"} = {m \in r.members : status[m] = "Cancelled"}
    BY <1>14
  <2> HIDE DEF F
  <2> QED
    BY <1>7, <2>1, <2>2, Zenon
<1>18. \A a \in r.members : r.confirmed[a] <= now
  <2>1. ASSUME NEW a \in r.members, a \in r.preserved PROVE r.confirmed[a] <= now
    BY <1>11, <1>13, <2>1 DEF RoundSettled, NoTime
  <2>2. ASSUME NEW a \in r.members, InTime(r.confirmed[a], r) PROVE r.confirmed[a] <= now
    BY <2>2 DEF InTime
  <2> QED
    BY <1>5, <2>1, <2>2 DEF MemberStopped
<1>19. \A a \in r.members \ r.preserved : r.confirmed[a] \in 0 .. r.deadline - 1
  <2> SUFFICES ASSUME NEW a \in r.members \ r.preserved
               PROVE  r.confirmed[a] \in 0 .. r.deadline - 1
    OBVIOUS
  <2>1. InTime(r.confirmed[a], r) /\ r.confirmed[a] \in Time \cup {NoTime}
    BY <1>5, <1>6, <1>13 DEF MemberStopped
  <2>2. r.confirmed[a] \in Time /\ r.confirmed[a] < r.deadline
    BY <2>1 DEF InTime
  <2> QED
    BY <1>13, <2>2 DEF Time
<1>20. \A a \in F, m \in r.members : a[1] = m[1] => owner'[a] = owner'[m]
  <2> SUFFICES ASSUME NEW a \in F, NEW m \in r.members, a[1] = m[1] PROVE owner'[a] = owner'[m]
    OBVIOUS
  <2>1. a \in Attempt /\ a[1] \in S /\ a[2] = g[a[1]]
    BY <1>3, <1>7, <1>15 DEF Attempt
  <2>2. owner'[a] = owner[Current(a[1])]
    BY <1>3, <2>1 DEF Prepare
  <2>4. Current(a[1]) = m
    BY <1>6, Zenon
  <2>5. m \in known
    BY <1>11, Zenon DEF RoundValid
  <2>3. owner'[m] = owner[m] /\ Current(a[1]) = m
    BY <1>11, <2>4, <2>5, Zenon DEF Persists
  <2> QED
    BY <2>2, <2>3
<1>21. \A a \in Attempt : r.admitted[a] = NoTime
  BY <1>5, <1>11, Zenon DEF RoundValid
<1>22. /\ \A a \in F : a[1] \in S
       /\ \A a, b \in F : a[1] = b[1] => a = b
  BY <1>15
<1> HIDE DEF F
<1>23. RoundValid(x)'
  <2>1. /\ x.members # {} /\ x.members \subseteq known'
        /\ x.deadline - x.requested \in 1 .. MaxTimeout /\ x.limit \in 1 .. MaxReplacements
        /\ x.preserved \subseteq x.members
    BY <1>10, <1>12, Zenon DEF RoundValid
  <2>2. /\ \A a \in x.preserved : status'[a] = "Completed"
        /\ x.members \ x.preserved \subseteq cancels'
        /\ \A a \in x.members : Support[owner'[a]] = "group"
        /\ x.fresh = {} => x.prepared = NoTime
    BY <1>10, <1>12, <1>15, Zenon DEF RoundValid
  <2>3. \A a \in Attempt : x.confirmed[a] # NoTime =>
          /\ a \in x.members /\ x.confirmed[a] >= x.requested
          /\ status'[a] \in {"Cancelled", "Completed"}
    <3>1. \A a \in Attempt : r.confirmed[a] # NoTime =>
            /\ a \in r.members /\ r.confirmed[a] >= r.requested
            /\ status'[a] \in {"Cancelled", "Completed"}
      BY <1>12, Zenon DEF RoundValid
    <3> QED
      BY <1>10, <3>1, Zenon
  <2>4. \A a \in Attempt : x.admitted[a] # NoTime => a \in x.fresh /\ x.admitted[a] >= x.prepared
    BY <1>10, <1>21
  <2>5. /\ x.prepared \in x.requested .. x.deadline - 1
        /\ x.fresh \subseteq known' \ x.members
        /\ \A a, c \in x.fresh : a[1] = c[1] => a = c
        /\ \A a \in x.fresh, m \in x.members : a[1] = m[1] => owner'[a] = owner'[m]
    <3>1. now \in r.requested .. r.deadline - 1
      BY <1>5, <1>11, <1>13 DEF RoundSettled
    <3> QED
      BY <1>10, <1>16, <1>20, <1>22, <3>1
  <2>6. {a[1] : a \in x.fresh} = {a[1] : a \in {m \in x.members : status'[m] = "Cancelled"}}
    BY <1>10, <1>17, Zenon
  <2>7. /\ \A a \in x.members : x.confirmed[a] <= x.prepared
        /\ \A a \in x.members \ x.preserved : x.confirmed[a] \in 0 .. x.deadline - 1
    BY <1>10, <1>18, <1>19
  <2> QED
    BY <2>1, <2>2, <2>3, <2>4, <2>5, <2>6, <2>7, Zenon DEF RoundValid
<1>24. RoundSettled(x)'
  BY <1>10, <1>12, <1>14 DEF RoundSettled
<1> QED
  BY <1>2, <1>8, <1>9, <1>10, <1>23, <1>24, Zenon

-----------------------------------------------------------------------------
(***************************************************************************)
(* Valid stops and budgets                                                 *)
(***************************************************************************)

\* The stops a role has been asked for.
Stopped(s) == {a \in Attempt : a[1] = s /\ HasStop(a)}

\* A role's budget counts its stops, a stop is aborted only after it was requested, and a
\* spent budget has a limit it keeps.
BudgetCounted(s) ==
    /\ Cardinality(Stopped(s)) = budget[s].used
    /\ budget[s].used # 0 => budget[s].limit \in 1 .. MaxReplacements
                             /\ budget[s].used <= budget[s].limit

\* Role stops and budgets are only touched by these steps.
StopSteps ==
    \/ \E a \in known \cup Early, n \in Nodes, q \in 0 .. MaxSeq, st \in Reports, t \in Time :
          ObserveExecution(a, n, q, st, t)
    \/ \E a \in Attempt : RequestCancellation({a})
    \/ \E a \in Attempt, d \in Timeouts, k \in Limits : RequestRecoveryStop(a, d, k)
    \/ \E a \in Attempt : MarkRecoveryRelease(a)

\* Any other step leaves them alone.
LEMMA StopsElsewhere ==
  ASSUME [Next]_vars
  PROVE  StopSteps \/ UNCHANGED <<stop, budget>>
<1>1. ASSUME NEW S, NEW g, NEW n, Prepare(S, g, n) PROVE UNCHANGED <<stop, budget>>
  BY <1>1 DEF Prepare
<1>2. PrepareContinuation => UNCHANGED <<stop, budget>>
  BY <1>1 DEF PrepareContinuation
<1>3. ASSUME NEW s, NEW n, Dispatch(s, n) PROVE UNCHANGED <<stop, budget>>
  BY <1>1, <1>3 DEF Dispatch
<1> QED
  BY <1>2, <1>3, Zenon
     DEF Next, StopSteps, Defer, DispatchReceipt, RejectedCancelReceipt, NodeUnavailable,
         RequestGroupRecovery, Tick, Restart, vars

\* A stop nothing touches stays valid.
LEMMA StopStays ==
  ASSUME TypeOK, Persists, NEW a \in Attempt, StopValid(a),
         stop'[a] = stop[a], budget'[a[1]] = budget[a[1]]
  PROVE  StopValid(a)'
  BY DEF StopValid, Persists, Terminal

\* Every role stop passes validate_recovery_stops after every step.
LEMMA StopsStep ==
  ASSUME TypeOK, ContextsValid, \A a \in Attempt : HasStop(a) => StopValid(a),
         \A s \in Slots : BudgetCounted(s), [Next]_vars
  PROVE  \A a \in Attempt : HasStop(a)' => StopValid(a)'
<1>1. Persists /\ stop \in [Attempt -> RecoveryStop] /\ budget \in [Slots -> Budget]
      /\ stop' \in [Attempt -> RecoveryStop]
  BY NextPersists, MapsStep, SMTT(30) DEF TypeOK, MapsOK
<1>2. \A a \in Attempt : a[1] \in Slots
  BY DEF Attempt
<1>3. ASSUME UNCHANGED <<stop, budget>>, NEW a \in Attempt, HasStop(a)' PROVE StopValid(a)'
  BY <1>1, <1>3, StopStays DEF HasStop
<1>4. ASSUME NEW b \in known \cup Early, NEW n \in Nodes, NEW q \in 0 .. MaxSeq,
             NEW st \in Reports, NEW t \in Time, ObserveExecution(b, n, q, st, t),
             NEW a \in Attempt, HasStop(a)'
      PROVE  StopValid(a)'
  <2>1. b \in Attempt /\ budget' = budget /\ stop' = ConfirmStop(b, st, t)
    BY <1>4, FactAssumption, Zenon DEF TypeOK, ObserveExecution
  <2>2. CASE stop'[a] = stop[a]
    BY <1>1, <1>4, <2>1, <2>2, StopStays DEF HasStop
  <2>3. CASE /\ a = b /\ stop' = [stop EXCEPT ![b].confirmed = t] /\ st = "Cancelled"
             /\ HasStop(b) /\ stop[b].confirmed = NoTime /\ t >= stop[b].requested
    <3>1. stop'[a] = [stop[a] EXCEPT !.confirmed = t]
      BY <1>1, <2>3
    <3>2. /\ stop'[a].requested = stop[a].requested /\ stop'[a].deadline = stop[a].deadline
          /\ stop'[a].limit = stop[a].limit /\ stop'[a].confirmed = t
          /\ stop'[a].released = stop[a].released
      BY <1>1, <3>1 DEF RecoveryStop
    <3>3. status'[a] = "Cancelled"
      BY <1>4, <2>1, <2>3 DEF ObserveExecution, TypeOK
    <3>4. ~stop[a].released
      BY <2>3 DEF StopValid
    <3> QED
      BY <1>1, <2>1, <2>3, <3>2, <3>3, <3>4 DEF StopValid, Persists
  <2> QED
    BY <1>1, <2>1, <2>2, <2>3 DEF ConfirmStop
<1>5. ASSUME NEW b \in Attempt, RequestCancellation({b}), NEW a \in Attempt, HasStop(a)'
      PROVE  StopValid(a)'
  <2>1. budget' = budget /\ (stop'[a] = stop[a] \/ stop'[a] = [stop[a] EXCEPT !.aborted = TRUE])
    BY <1>5 DEF RequestCancellation
  <2>2. /\ stop'[a].requested = stop[a].requested /\ stop'[a].deadline = stop[a].deadline
        /\ stop'[a].limit = stop[a].limit /\ stop'[a].confirmed = stop[a].confirmed
        /\ stop'[a].released = stop[a].released
    BY <1>1, <2>1 DEF RecoveryStop
  <2>3. StopValid(a)
    BY <1>5, <2>2 DEF HasStop
  <2> QED
    BY <1>1, <2>1, <2>2, <2>3 DEF StopValid, Persists, Terminal
<1>6. ASSUME NEW b \in Attempt, NEW d \in Timeouts, NEW k \in Limits, RequestRecoveryStop(b, d, k),
             NEW a \in Attempt, HasStop(a)'
      PROVE  StopValid(a)'
  <2> DEFINE s == b[1]
             new == [requested |-> now, deadline |-> now + d, limit |-> k,
                     confirmed |-> NoTime, released |-> FALSE, aborted |-> FALSE]
  <2>1. /\ budget[s].used = 0 \/ budget[s].limit = k
        /\ budget[s].used < k /\ b \in known /\ cancels' = cancels \cup {b} /\ known' = known
    BY <1>6, SMT DEF RequestRecoveryStop, Stoppable, IsCurrent
  <2>7. stop' = [stop EXCEPT ![b] = new]
    BY <1>6, SMT DEF RequestRecoveryStop
  <2>6. budget' = [budget EXCEPT ![s] = Spend(budget[s], k)]
    BY <1>6, SMT DEF RequestRecoveryStop
  <2>2. /\ d \in 1 .. MaxTimeout /\ k \in Nat /\ now \in Int /\ budget[s].used \in Nat
        /\ MaxTimeout \in Nat
    <3>4. MaxTimeout \in Nat
      BY SMT DEF MaxTimeout
    <3>1. d \in 1 .. MaxTimeout
      BY BudgetAssumption
    <3>2. k \in Nat /\ now \in Int
      BY Numbers, Zenon DEF TypeOK
    <3>3. budget[s] \in Budget
      BY <1>1, <1>2
    <3> QED
      BY <3>1, <3>2, <3>3, <3>4 DEF Budget
  <2>3. budget'[s].limit = k /\ budget'[s].used = budget[s].used + 1
    BY <1>1, <1>2, <2>6, SMT DEF Spend
  <2>8. /\ new.deadline - new.requested = d /\ new.confirmed = NoTime
        /\ new.released = FALSE /\ new.limit = k
    BY <2>2
  <2>9. \A r \in Slots : r # s => budget'[r] = budget[r]
    BY <1>1, <1>2, <2>6, SMT DEF Spend
  <2>10. s = b[1] /\ budget'[s].used \in 1 .. k
    BY <2>1, <2>2, <2>3
  <2> HIDE DEF s, new
  <2>4. CASE a = b
    <3>1. stop'[a] = new
      BY <1>1, <2>7, <2>4, Zenon
    <3>2. a \in known' /\ a \in cancels'
      BY <2>1, <2>4, Zenon
    <3>3. stop'[a].deadline - stop'[a].requested \in 1 .. MaxTimeout
      BY <2>2, <2>8, <3>1, Zenon
    <3>4. budget'[a[1]].limit = stop'[a].limit /\ budget'[a[1]].used \in 1 .. stop'[a].limit
      BY <2>3, <2>4, <2>8, <2>10, <3>1, Zenon
    <3> QED
      BY <2>8, <3>1, <3>2, <3>3, <3>4, Zenon DEF StopValid
  <2>5. CASE a # b
    <3>4. stop'[a] = stop[a]
      BY <1>1, <2>5, <2>7, Zenon
    <3>1. stop'[a] = stop[a] /\ StopValid(a)
      BY <1>6, <3>4, Zenon DEF HasStop
    <3>2. CASE a[1] # s
      <4>1. budget'[a[1]] = budget[a[1]]
        BY <1>2, <2>9, <3>2, Zenon
      <4> QED
        BY <1>1, <3>1, <4>1, StopStays
    <3>3. CASE a[1] = s
      <4>1. budget[s].limit = k
        BY <2>1, <2>2, <3>1, <3>3 DEF StopValid
      <4>2. stop[a].limit = k
        BY <3>1, <3>3, <4>1, Zenon DEF StopValid
      <4>3. budget'[a[1]].limit = stop[a].limit /\ budget'[a[1]].used \in 1 .. stop[a].limit
        BY <2>3, <2>10, <3>3, <4>2, Zenon
      <4> QED
        BY <1>1, <3>1, <4>3, Zenon DEF StopValid, Persists, Terminal
    <3> QED
      BY <3>2, <3>3
  <2> QED
    BY <2>4, <2>5
<1>7. ASSUME NEW b \in Attempt, MarkRecoveryRelease(b), NEW a \in Attempt, HasStop(a)'
      PROVE  StopValid(a)'
  <2>1. /\ budget' = budget /\ stop' = [stop EXCEPT ![b] = [stop[b] EXCEPT !.released = TRUE]]
        /\ stop[b].confirmed # NoTime /\ stop[b].confirmed < stop[b].deadline /\ HasStop(b)
    BY <1>7 DEF MarkRecoveryRelease, RecoveryStopReady
  <2>2. CASE a # b
    BY <1>1, <1>7, <2>1, <2>2, StopStays DEF HasStop
  <2>3. CASE a = b
    <3>1. /\ stop'[a].requested = stop[a].requested /\ stop'[a].deadline = stop[a].deadline
          /\ stop'[a].limit = stop[a].limit /\ stop'[a].confirmed = stop[a].confirmed
      BY <1>1, <2>1, <2>3 DEF RecoveryStop
    <3> QED
      BY <1>1, <2>1, <2>3, <3>1 DEF StopValid, Persists, Terminal
  <2> QED
    BY <2>2, <2>3
<1> QED
  BY <1>3, <1>4, <1>5, <1>6, <1>7, StopsElsewhere, Zenon DEF StopSteps

\* A role has finitely many attempts, so its stops can be counted.
LEMMA StoppedFinite ==
  ASSUME NEW s \in Slots
  PROVE  IsFiniteSet(Stopped(s)) /\ IsFiniteSet(Stopped(s)')
<1>1. IsFiniteSet({s} \X (1 .. MaxGen))
  <2>1. IsFiniteSet({s})
    BY FS_Singleton, Zenon
  <2>2. 1 \in Int /\ MaxGen \in Int
    BY BoundAssumption
  <2>3. IsFiniteSet(1 .. MaxGen)
    BY <2>2, FS_Interval
  <2> QED
    BY <2>1, <2>3, FS_Product, Zenon
<1>2. Stopped(s) \in SUBSET ({s} \X (1 .. MaxGen)) /\ Stopped(s)' \in SUBSET ({s} \X (1 .. MaxGen))
  BY DEF Stopped, Attempt
<1> QED
  BY <1>1, <1>2, FS_Subset

\* Every budget counts the stops of its role after every step, and never exceeds its ceiling
\* (request_recovery_stop).
LEMMA BudgetsStep ==
  ASSUME TypeOK, \A s \in Slots : BudgetCounted(s), [Next]_vars
  PROVE  \A s \in Slots : BudgetCounted(s)'
<1>1. stop \in [Attempt -> RecoveryStop] /\ budget \in [Slots -> Budget]
  BY DEF TypeOK
<1>2. ASSUME budget' = budget, \A a \in Attempt : stop'[a].requested = stop[a].requested,
             NEW s \in Slots
      PROVE  BudgetCounted(s)'
  <2>1. Stopped(s)' = Stopped(s)
    BY <1>2, Zenon DEF Stopped, HasStop
  <2> QED
    BY <1>2, <2>1 DEF BudgetCounted
<1>3. ASSUME NEW b \in Attempt, NEW d \in Timeouts, NEW k \in Limits, RequestRecoveryStop(b, d, k),
             NEW s \in Slots
      PROVE  BudgetCounted(s)'
  <2> DEFINE new == [requested |-> now, deadline |-> now + d, limit |-> k,
                     confirmed |-> NoTime, released |-> FALSE, aborted |-> FALSE]
  <2>1. budget[b[1]].used < k /\ ~HasStop(b)
    BY <1>3, SMT DEF RequestRecoveryStop, Stoppable
  <2>7. stop' = [stop EXCEPT ![b] = new]
    BY <1>3, SMT DEF RequestRecoveryStop
  <2>6. budget' = [budget EXCEPT ![b[1]] = Spend(budget[b[1]], k)]
    BY <1>3, SMT DEF RequestRecoveryStop
  <2>2. k \in 1 .. MaxReplacements /\ budget[s].used \in Nat
    BY <1>1, BudgetAssumption DEF Budget
  <2>3. stop'[b].requested # NoTime /\ \A a \in Attempt : a # b => stop'[a] = stop[a]
    <3>1. now # NoTime
      BY DEF TypeOK, Time, NoTime
    <3>2. stop'[b] = new
      BY <1>1, <2>7
    <3> QED
      BY <1>1, <2>7, <3>1, <3>2
  <2>4. CASE s # b[1]
    <3>1. Stopped(s)' = Stopped(s)
      BY <2>3, <2>4 DEF Stopped, HasStop
    <3>2. budget'[s] = budget[s]
      BY <1>1, <2>4, <2>6, SMT DEF Spend
    <3> QED
      BY <3>1, <3>2 DEF BudgetCounted
  <2>5. CASE s = b[1]
    <3>1. Stopped(s)' = Stopped(s) \cup {b} /\ b \notin Stopped(s)
      BY <2>1, <2>3, <2>5 DEF Stopped, HasStop
    <3>2. Cardinality(Stopped(s) \cup {b}) = Cardinality(Stopped(s)) + 1
      BY <3>1, StoppedFinite, FS_AddElement, Zenon
    <3>3. budget'[s].used = budget[s].used + 1 /\ budget'[s].limit = k
      BY <1>1, <2>5, <2>6, SMT DEF Spend
    <3>4. Cardinality(Stopped(s))' = budget'[s].used
      BY <3>1, <3>2, <3>3, <3>4 DEF BudgetCounted
    <3>5. budget'[s].limit \in 1 .. MaxReplacements /\ budget'[s].used <= budget'[s].limit
      BY <2>1, <2>2, <2>5, <3>3
    <3> QED
      BY <3>4, <3>5 DEF BudgetCounted
  <2> QED
    BY <2>4, <2>5
<1>4. ASSUME NEW b \in known \cup Early, NEW n \in Nodes, NEW q \in 0 .. MaxSeq,
             NEW st \in Reports, NEW t \in Time, ObserveExecution(b, n, q, st, t)
      PROVE  budget' = budget /\ \A a \in Attempt : stop'[a].requested = stop[a].requested
  <2>1. budget' = budget /\ stop' = ConfirmStop(b, st, t)
    BY <1>4 DEF ObserveExecution
  <2> QED
    BY <1>1, <2>1 DEF ConfirmStop, RecoveryStop
<1>5. ASSUME NEW b \in Attempt, RequestCancellation({b})
      PROVE  budget' = budget /\ \A a \in Attempt : stop'[a].requested = stop[a].requested
  BY <1>1, <1>5 DEF RequestCancellation, RecoveryStop
<1>6. ASSUME NEW b \in Attempt, MarkRecoveryRelease(b)
      PROVE  budget' = budget /\ \A a \in Attempt : stop'[a].requested = stop[a].requested
  BY <1>1, <1>6 DEF MarkRecoveryRelease, RecoveryStop
<1> QED
  BY <1>2, <1>3, <1>4, <1>5, <1>6, StopsElsewhere, Zenon DEF StopSteps

\* The validity of the round at a place is that of the round found there.
LEMMA ValidAt ==
  ASSUME NEW i, NEW x, x = rounds'[i], RoundValid(x)', RoundSettled(x)'
  PROVE  RoundValid(rounds[i])' /\ RoundSettled(rounds[i])'
  BY Zenon DEF RoundValid, RoundSettled

\* The rounds of the Group: each valid and within its ceiling, all with the same ceiling.
RoundsValid ==
    /\ \A i \in DOMAIN rounds :
          RoundValid(rounds[i]) /\ RoundSettled(rounds[i]) /\ i <= rounds[i].limit
    /\ \A i, j \in DOMAIN rounds : rounds[i].limit = rounds[j].limit

\* Every Group round passes validate_group_recoveries after every step.
LEMMA RoundsValidStep ==
  ASSUME TypeOK, ContextsValid, RoundsValid, [Next]_vars
  PROVE  RoundsValid'
<1>1. /\ rounds \in Seq(GroupRound) /\ \A i \in DOMAIN rounds : rounds[i] \in GroupRound
      /\ Persists
  BY NextPersists DEF TypeOK
<1>2. ASSUME NEW i \in DOMAIN rounds, NEW r \in GroupRound, r = rounds[i]
      PROVE  RoundValid(r) /\ RoundSettled(r) /\ RoundValid(r)' /\ RoundSettled(r)'
  <2>1. RoundValid(r) /\ RoundSettled(r)
    BY <1>2 DEF RoundsValid
  <2> QED
    BY <1>1, <2>1, RoundStays
<1>3. ASSUME NEW i \in DOMAIN rounds, rounds'[i] = rounds[i]
      PROVE  RoundValid(rounds[i])' /\ RoundSettled(rounds[i])'
  <2>1. PICK r \in GroupRound : r = rounds[i]
    BY <1>1
  <2> QED
    BY <1>2, <1>3, <2>1, ValidAt
<1>4. ASSUME DOMAIN rounds' = DOMAIN rounds,
             \A i \in DOMAIN rounds : RoundValid(rounds[i])' /\ RoundSettled(rounds[i])'
      PROVE  RoundsValid'
  <2>1. \A i \in DOMAIN rounds : rounds'[i].limit = rounds[i].limit
    BY NextRounds DEF RoundsKept, Kept
  <2> QED
    BY <1>4, <2>1, Zenon DEF RoundsValid
<1>5. ASSUME UNCHANGED rounds PROVE RoundsValid'
  BY <1>3, <1>4, <1>5
<1>6. ASSUME NEW a \in known \cup Early, NEW n \in Nodes, NEW q \in 0 .. MaxSeq,
             NEW st \in Reports, NEW t \in Time, ObserveExecution(a, n, q, st, t)
      PROVE  RoundsValid'
  <2>1. a \in Attempt
    BY FactAssumption DEF TypeOK
  <2>2. rounds' = [i \in DOMAIN rounds |-> ConfirmRound(rounds[i], a, st, t)]
    BY <1>6 DEF ObserveExecution
  <2>3. ASSUME NEW i \in DOMAIN rounds PROVE RoundValid(rounds[i])' /\ RoundSettled(rounds[i])'
    <3>1. PICK r \in GroupRound : r = rounds[i]
      BY <1>1
    <3>2. PICK x : x = ConfirmRound(r, a, st, t)
      OBVIOUS
    <3>3. RoundValid(r) /\ RoundSettled(r) /\ RoundValid(r)' /\ RoundSettled(r)'
      BY <1>2, <3>1
    <3>4. RoundValid(x)' /\ RoundSettled(x)'
      BY <1>6, <2>1, <3>2, <3>3, ConfirmRoundValid, Zenon
    <3>5. x = rounds'[i]
      BY <2>2, <3>1, <3>2, Zenon
    <3> QED
      BY <3>4, <3>5, ValidAt
  <2> QED
    BY <1>4, <2>2, <2>3, Zenon
<1>7. ASSUME NEW a \in Attempt, RequestCancellation({a}) PROVE RoundsValid'
  <2> DEFINE Hit(i) == rounds[i].aborted \/ {a} \cap (rounds[i].members \cup rounds[i].fresh) # {}
  <2>1. rounds' = [i \in DOMAIN rounds |-> [rounds[i] EXCEPT !.aborted = Hit(i)]]
    BY <1>7 DEF RequestCancellation
  <2>2. ASSUME NEW i \in DOMAIN rounds PROVE RoundValid(rounds[i])' /\ RoundSettled(rounds[i])'
    <3>1. PICK r \in GroupRound : r = rounds[i]
      BY <1>1
    <3>2. PICK h : h = Hit(i)
      OBVIOUS
    <3>3. PICK x : x = [r EXCEPT !.aborted = h]
      BY Zenon
    <3>4. RoundValid(x)' /\ RoundSettled(x)'
      BY <1>2, <3>1, <3>3, AbortedRoundValid
    <3>5. x = rounds'[i]
      BY <2>1, <3>1, <3>2, <3>3, Zenon
    <3> QED
      BY <3>4, <3>5, ValidAt
  <2> QED
    BY <1>4, <2>1, <2>2, Zenon
<1>8. ASSUME NEW d \in Timeouts, NEW k \in Limits, RequestGroupRecovery(d, k) PROVE RoundsValid'
  <2>1. PICK x : rounds' = Append(rounds, x) /\ x.limit = k /\ RoundValid(x)' /\ RoundSettled(x)'
    BY <1>8, NewRoundValid
  <2>2. Len(rounds) < k /\ \A i \in DOMAIN rounds : rounds[i].limit = k
    BY <1>8 DEF RequestGroupRecovery
  <2>3. /\ DOMAIN rounds' = DOMAIN rounds \cup {Len(rounds) + 1}
        /\ rounds'[Len(rounds) + 1] = x
        /\ \A i \in DOMAIN rounds : rounds'[i] = rounds[i]
    BY <1>1, <2>1
  <2>4. ASSUME NEW i \in DOMAIN rounds' PROVE RoundValid(rounds[i])' /\ RoundSettled(rounds[i])'
    <3>1. CASE i \in DOMAIN rounds
      BY <1>3, <2>3, <3>1
    <3>2. CASE i = Len(rounds) + 1
      <4>1. x = rounds'[i]
        BY <2>3, <3>2
      <4> QED
        BY <2>1, <4>1, ValidAt
    <3> QED
      BY <2>3, <3>1, <3>2
  <2>5. \A i \in DOMAIN rounds' : i <= rounds'[i].limit /\ rounds'[i].limit = k
    <3>1. \A i \in DOMAIN rounds : i <= rounds'[i].limit /\ rounds'[i].limit = k
      BY <2>2, <2>3 DEF RoundsValid
    <3>2. k \in Nat /\ Len(rounds) \in Nat
      BY <1>1, Numbers
    <3>3. Len(rounds) + 1 <= k
      BY <2>2, <3>2
    <3> QED
      BY <2>1, <2>3, <3>1, <3>3
  <2> QED
    BY <2>4, <2>5, Zenon DEF RoundsValid
<1>9. ASSUME PrepareContinuation PROVE RoundsValid'
  <2>1. Len(rounds) \in DOMAIN rounds
    BY <1>1, <1>9 DEF PrepareContinuation
  <2>2. RoundValid(rounds[Len(rounds)]) /\ RoundSettled(rounds[Len(rounds)])
    BY <2>1 DEF RoundsValid
  <2>3. PICK x : rounds' = [rounds EXCEPT ![Len(rounds)] = x] /\ RoundValid(x)' /\ RoundSettled(x)'
    BY <1>9, <2>2, ContinuedRoundValid
  <2>4. ASSUME NEW i \in DOMAIN rounds PROVE RoundValid(rounds[i])' /\ RoundSettled(rounds[i])'
    <3>1. CASE i = Len(rounds)
      <4>1. x = rounds'[i]
        BY <2>1, <2>3, <3>1, Zenon
      <4> QED
        BY <2>3, <4>1, ValidAt
    <3>2. CASE i # Len(rounds)
      BY <1>1, <1>3, <2>3, <3>2
    <3> QED
      BY <3>1, <3>2
  <2> QED
    BY <1>1, <1>4, <2>3, <2>4
<1> QED
  BY <1>5, <1>6, <1>7, <1>8, <1>9, Zenon
     DEF Next, Dispatch, Defer, DispatchReceipt, RejectedCancelReceipt, NodeUnavailable,
         RequestRecoveryStop, MarkRecoveryRelease, Tick, Restart, vars

\* What makes CheckpointRestorable inductive: budgets that count the stops even of a role that
\* spent none, aborts that follow a request, and settled rounds.
RestoreInv ==
    /\ ContextsValid
    /\ \A a \in Attempt : HasStop(a) => StopValid(a)
    /\ \A a \in Attempt : stop[a].aborted => HasStop(a)
    /\ \A s \in Slots : BudgetCounted(s)
    /\ \A i \in DOMAIN rounds :
          RoundValid(rounds[i]) /\ RoundSettled(rounds[i]) /\ i <= rounds[i].limit
    /\ \A i, j \in DOMAIN rounds : rounds[i].limit = rounds[j].limit

\* RestoreInv holds in every state of every behaviour.
LEMMA RestoreInvariant == Spec => []RestoreInv
<1>1. Init => RestoreInv
  <2> SUFFICES ASSUME Init PROVE RestoreInv
    OBVIOUS
  <2>1. \A a \in Attempt : ~HasStop(a) /\ ~stop[a].aborted
    BY DEF Init, HasStop, NoStop
  <2>2. ASSUME NEW s \in Slots PROVE BudgetCounted(s)
    <3>1. Stopped(s) = {}
      BY <2>1, Zenon DEF Stopped
    <3>2. budget[s].used = 0
      BY DEF Init
    <3> QED
      BY <3>1, <3>2, FS_EmptySet DEF BudgetCounted
  <2>3. DOMAIN rounds = {}
    BY DEF Init
  <2>4. ContextsValid
    BY <2>3 DEF Init, ContextsValid
  <2> QED
    BY <2>1, <2>2, <2>3, <2>4 DEF RestoreInv
<1>2. ASSUME TypeOK, RestoreInv, [Next]_vars PROVE RestoreInv'
  <2>1. ContextsValid /\ RoundsValid /\ StopsRequested
    BY <1>2 DEF RestoreInv, RoundsValid, StopsRequested
  <2>2. ContextsValid' /\ RoundsValid' /\ StopsRequested'
    BY <1>2, <2>1, ContextsStep, RoundsValidStep, StopsRequestedStep
  <2>3. \A a \in Attempt : HasStop(a)' => StopValid(a)'
    BY <1>2, StopsStep DEF RestoreInv
  <2>4. \A s \in Slots : BudgetCounted(s)'
    BY <1>2, BudgetsStep DEF RestoreInv
  <2> QED
    BY <2>2, <2>3, <2>4, Zenon DEF RestoreInv, RoundsValid, StopsRequested
<1> QED
  BY <1>1, <1>2, TypeCorrect, PTL DEF Spec

\* Every state the Runtime can commit passes the validation restore applies to its checkpoint
\* (validate_checkpoint, validate_recovery_stops, validate_group_recoveries), for any number
\* of slots, Nodes, attempts and rounds and whatever the Nodes report: a Controller that
\* crashes after any transaction can start again from it.
THEOREM CheckpointsRestorable == Spec => []CheckpointRestorable
<1>1. ASSUME TypeOK, RestoreInv PROVE CheckpointRestorable
  <2>1. ASSUME NEW s \in Slots, budget[s].used # 0 PROVE BudgetValid(s)
    <3>1. {a \in known : a[1] = s /\ HasStop(a)} = Stopped(s)
      BY <1>1, Zenon DEF Stopped, RestoreInv, StopValid, TypeOK
    <3> QED
      BY <1>1, <2>1, <3>1, Zenon DEF BudgetValid, BudgetCounted, RestoreInv
  <2> QED
    BY <1>1, <2>1 DEF CheckpointRestorable, RestoreInv
<1> QED
  BY <1>1, TypeCorrect, RestoreInvariant, PTL

=============================================================================

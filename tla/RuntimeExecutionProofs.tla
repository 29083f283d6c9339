------------------------- MODULE RuntimeExecutionProofs -------------------------
(***************************************************************************)
(* Proofs about RuntimeExecution for any set of slots, Tasks and Nodes,    *)
(* any reports and budgets, and any bounds.                                *)
(***************************************************************************)
EXTENDS RuntimeExecution, TLAPS

(***************************************************************************)
(* The maps other than the Group rounds, whose type needs its own lemmas.  *)
(***************************************************************************)
MapsOK ==
    /\ known \subseteq Attempt /\ delivered \subseteq Attempt /\ cancels \subseteq Attempt
    /\ restored \subseteq Attempt /\ reactivating \subseteq Attempt
    /\ activated \subseteq Tasks
    /\ owner  \in [Attempt -> Nodes \cup {NoNode}]
    /\ status \in [Attempt -> Live \cup Terminal \cup {"None"}]
    /\ seq    \in [Attempt -> -1 .. MaxSeq]
    /\ termAt \in [Attempt -> Time \cup {NoTime}]
    /\ stop   \in [Attempt -> RecoveryStop]
    /\ active \in [Slots -> 0 .. MaxGen]
    /\ gen    \in [Slots -> 0 .. MaxGen]
    /\ budget \in [Slots -> Budget]
    /\ now \in Time

\* Type correctness is that of the maps and that of the Group rounds.
LEMMA TypeSplit == TypeOK <=> MapsOK /\ rounds \in Seq(GroupRound)
  BY SMTT(30) DEF TypeOK, MapsOK

\* The same split in the state after a step.
LEMMA TypeSplitPrime == TypeOK' <=> MapsOK' /\ rounds' \in Seq(GroupRound)
  BY SMTT(30) DEF TypeOK, MapsOK

\* Budgets and clock readings are numbers.
LEMMA Numbers == Timeouts \subseteq Int /\ Limits \subseteq Nat /\ Time \subseteq Int
<1>1. MaxTimeout \in Nat /\ MaxReplacements \in Nat
  BY SMT DEF MaxTimeout, MaxReplacements
<1> QED
  BY <1>1, BudgetAssumption, BoundAssumption, SMT DEF Time

\* prepare_dispatch of fresh attempts keeps every map well typed.
LEMMA PrepareMaps ==
  ASSUME MapsOK, NEW S \in SUBSET Slots, NEW g \in [S -> 1 .. MaxGen], NEW n,
         \A s \in S : n[s] \in Nodes \cup {NoNode},
         Prepare(S, g, n)
  PROVE  MapsOK'
<1>1. {<<s, g[s]>> : s \in S} \subseteq Attempt
  BY DEF Attempt
<1>2. known' \subseteq Attempt
  BY <1>1 DEF Prepare, MapsOK
<1>3. reactivating' \subseteq Attempt
  BY <1>1 DEF Prepare, MapsOK
<1>4. owner' \in [Attempt -> Nodes \cup {NoNode}]
  BY DEF Prepare, MapsOK, Attempt
<1>5. status' \in [Attempt -> Live \cup Terminal \cup {"None"}]
  BY DEF Prepare, MapsOK, Live
<1>6. active' \in [Slots -> 0 .. MaxGen] /\ gen' \in [Slots -> 0 .. MaxGen]
  BY BoundAssumption DEF Prepare, MapsOK
<1> QED
  BY <1>2, <1>3, <1>4, <1>5, <1>6 DEF Prepare, MapsOK

\* Aborting and releasing a stop yields a stop again.
LEMMA StopEdits ==
  ASSUME NEW r \in RecoveryStop
  PROVE  [r EXCEPT !.aborted = TRUE] \in RecoveryStop /\ [r EXCEPT !.released = TRUE] \in RecoveryStop
  BY Zenon DEF RecoveryStop

\* Recording stop or admission evidence in every round yields rounds again.
LEMMA ConfirmRoundType ==
  ASSUME NEW r \in GroupRound, NEW a \in Attempt, NEW st, NEW t \in Time
  PROVE  ConfirmRound(r, a, st, t) \in GroupRound
  BY Zenon DEF ConfirmRound, GroupRound

\* Recording the replacements of a continuation yields a round again (record_group_continuation).
LEMMA ContinuedRoundType ==
  ASSUME NEW r \in GroupRound, NEW F \in SUBSET Attempt, NEW t \in Time
  PROVE  [r EXCEPT !.fresh = F, !.prepared = t] \in GroupRound
  BY Zenon DEF GroupRound

\* A map over the rounds that yields rounds is again a sequence of rounds.
LEMMA RoundsMap ==
  ASSUME NEW q \in Seq(GroupRound), NEW p \in [DOMAIN q -> GroupRound]
  PROVE  p \in Seq(GroupRound)
<1>1. DOMAIN q = 1 .. Len(q) /\ Len(q) \in Nat
  OBVIOUS
<1> QED
  BY <1>1

\* A continuation is prepared on the Nodes that own the stopped members.
LEMMA ContinuationOwners ==
  ASSUME TypeOK, PrepareContinuation, NEW a \in rounds[Len(rounds)].members
  PROVE  Current(a[1]) = a /\ a \in Attempt
<1> DEFINE r == rounds[Len(rounds)]
<1>1. r \in GroupRound
  BY DEF TypeOK, PrepareContinuation
<1>2. Disposition(r) = "StopConfirmed"
  BY DEF PrepareContinuation
<1>3. IsCurrent(a)
  BY <1>2 DEF Disposition, OpenDisposition
<1>4. a \in Attempt
  BY <1>1 DEF GroupRound
<1> QED
  BY <1>3, <1>4 DEF IsCurrent, Current, Attempt

\* The maps stay well typed.
LEMMA MapsStep ==
  ASSUME TypeOK, [Next]_vars PROVE MapsOK'
<1> USE TypeSplit
<1>1. ASSUME NEW s \in Slots, NEW n \in Nodes, Dispatch(s, n) PROVE MapsOK'
  <2>1. PICK g \in 1 .. MaxGen : Prepare({s}, [x \in {s} |-> g], [x \in {s} |-> n])
    BY <1>1, Zenon DEF Dispatch
  <2>2. {s} \in SUBSET Slots /\ [x \in {s} |-> g] \in [{s} -> 1 .. MaxGen]
    OBVIOUS
  <2>3. \A x \in {s} : [y \in {s} |-> n][x] \in Nodes \cup {NoNode}
    OBVIOUS
  <2> HIDE DEF Prepare
  <2> QED
    BY <2>1, <2>2, <2>3, PrepareMaps, Zenon
<1>2. ASSUME NEW s \in Slots, Defer(s) PROVE MapsOK'
  BY <1>2 DEF Defer, MapsOK
<1>3. ASSUME NEW a \in Attempt, NEW n \in Nodes, NEW q \in 0 .. MaxSeq, NEW st \in Reports,
             NEW t \in Time, ObserveExecution(a, n, q, st, t)
      PROVE  MapsOK'
  <2>1. a[1] \in Slots /\ TaskOf[a[1]] \in Tasks
    BY DEF Attempt, Tasks
  <2>2. stop' \in [Attempt -> RecoveryStop]
    <3>1. stop \in [Attempt -> RecoveryStop]
      BY DEF MapsOK
    <3>2. [stop EXCEPT ![a].confirmed = t] \in [Attempt -> RecoveryStop]
      BY <3>1, Zenon DEF RecoveryStop
    <3> QED
      BY <1>3, <3>1, <3>2 DEF ObserveExecution, ConfirmStop
  <2>3. st \in Live \cup Terminal
    BY FactAssumption DEF Reported, Live, Terminal
  <2>4. delivered' \subseteq Attempt /\ activated' \subseteq Tasks /\ reactivating' \subseteq Attempt
    BY <1>3, <2>1 DEF ObserveExecution, MapsOK
  <2>5. /\ owner' \in [Attempt -> Nodes \cup {NoNode}]
        /\ status' \in [Attempt -> Live \cup Terminal \cup {"None"}]
    BY <1>3, <2>3 DEF ObserveExecution, MapsOK
  <2>6. seq' \in [Attempt -> -1 .. MaxSeq]
    BY <1>3, BoundAssumption DEF ObserveExecution, MapsOK
  <2>7. termAt' \in [Attempt -> Time \cup {NoTime}]
    BY <1>3 DEF ObserveExecution, MapsOK
  <2> QED
    BY <1>3, <2>2, <2>4, <2>5, <2>6, <2>7, SMTT(30) DEF ObserveExecution, MapsOK
<1>4. ASSUME NEW a \in Attempt, NEW p \in BOOLEAN, DispatchReceipt(a, p) PROVE MapsOK'
  BY <1>4 DEF DispatchReceipt, MapsOK, Live
<1>5. ASSUME NEW a \in Attempt, RejectedCancelReceipt(a) PROVE MapsOK'
  BY <1>5, SMTT(30) DEF RejectedCancelReceipt, MapsOK, Live
<1>6. ASSUME NEW n \in Nodes, NodeUnavailable(n) PROVE MapsOK'
  BY <1>6 DEF NodeUnavailable, MapsOK, Live
<1>7. ASSUME NEW a \in Attempt, RequestCancellation({a}) PROVE MapsOK'
  <2>1. stop' \in [Attempt -> RecoveryStop]
    BY <1>7, StopEdits, Zenon DEF RequestCancellation, MapsOK
  <2> QED BY <1>7, <2>1 DEF RequestCancellation, MapsOK
<1>8. ASSUME NEW a \in Attempt, NEW d \in Timeouts, NEW k \in Limits, RequestRecoveryStop(a, d, k)
      PROVE  MapsOK'
  <2>1. d \in Int /\ k \in Nat /\ now \in Time /\ now \in Int
    BY Numbers, Zenon DEF MapsOK
  <2>2. a[1] \in Slots
    BY DEF Attempt
  <2>3. budget' \in [Slots -> Budget]
    <3>1. budget \in [Slots -> Budget] /\ budget' = [budget EXCEPT ![a[1]] = Spend(@, k)]
      BY <1>8 DEF RequestRecoveryStop, MapsOK
    <3>2. Spend(budget[a[1]], k) \in Budget
      BY <2>1, <2>2, <3>1 DEF Spend, Budget
    <3> QED
      BY <2>2, <3>1, <3>2
  <2>4. stop' \in [Attempt -> RecoveryStop]
    <3> DEFINE fresh == [requested |-> now, deadline |-> now + d, limit |-> k,
                         confirmed |-> NoTime, released |-> FALSE, aborted |-> FALSE]
    <3>1. stop \in [Attempt -> RecoveryStop] /\ stop' = [stop EXCEPT ![a] = fresh]
      BY <1>8 DEF RequestRecoveryStop, MapsOK
    <3>2. fresh \in RecoveryStop
      BY <2>1 DEF RecoveryStop
    <3> HIDE DEF fresh
    <3> QED
      BY <3>1, <3>2
  <2> QED
    BY <1>8, <2>3, <2>4, SMTT(30) DEF RequestRecoveryStop, MapsOK
<1>9. ASSUME NEW a \in Attempt, MarkRecoveryRelease(a) PROVE MapsOK'
  <2>1. stop' \in [Attempt -> RecoveryStop]
    BY <1>9, StopEdits, Zenon DEF MarkRecoveryRelease, MapsOK
  <2> QED BY <1>9, <2>1 DEF MarkRecoveryRelease, MapsOK
<1>10. ASSUME NEW d \in Timeouts, NEW k \in Limits, RequestGroupRecovery(d, k) PROVE MapsOK'
  BY <1>10 DEF RequestGroupRecovery, CurrentAttempts, MapsOK
<1>11. ASSUME PrepareContinuation PROVE MapsOK'
  <2> DEFINE r == rounds[Len(rounds)]
             S == {a[1] : a \in {a \in r.members : status[a] = "Cancelled"}}
  <2>1. PICK g \in [S -> 1 .. MaxGen] : Prepare(S, g, [s \in S |-> owner[Current(s)]])
    BY <1>11, Zenon DEF PrepareContinuation
  <2>2. \A a \in r.members : Current(a[1]) = a /\ a \in Attempt
    BY <1>11, ContinuationOwners
  <2>3. S \in SUBSET Slots /\ \A s \in S : owner[Current(s)] \in Nodes \cup {NoNode}
    BY <2>2 DEF Attempt, MapsOK
  <2> HIDE DEF S
  <2> QED
    BY <2>1, <2>3, PrepareMaps
<1>12. ASSUME Tick PROVE MapsOK'
  BY <1>12, BoundAssumption, SMTT(30) DEF Tick, MapsOK, Time
<1>13. ASSUME Restart PROVE MapsOK'
  BY <1>13, Zenon DEF Restart, RestoredStatus, CurrentAttempts, MapsOK, Tasks, Attempt, Live
<1>14. ASSUME UNCHANGED vars PROVE MapsOK'
  BY <1>14 DEF vars, MapsOK
<1>15. known \cup Early \subseteq Attempt
  BY FactAssumption DEF MapsOK
<1> QED
  BY <1>1, <1>2, <1>3, <1>4, <1>5, <1>6, <1>7, <1>8, <1>9, <1>10, <1>11, <1>12, <1>13, Zenon,
     <1>14, <1>15 DEF Next

\* The Group rounds stay well typed.
LEMMA RoundsStep ==
  ASSUME TypeOK, [Next]_vars PROVE rounds' \in Seq(GroupRound)
<1>1. rounds \in Seq(GroupRound) /\ now \in Time /\ known \subseteq Attempt
  BY DEF TypeOK
<1>2. ASSUME NEW a \in Attempt, NEW n \in Nodes, NEW q \in 0 .. MaxSeq, NEW st \in Reports,
             NEW t \in Time, ObserveExecution(a, n, q, st, t)
      PROVE  rounds' \in Seq(GroupRound)
  <2>1. \A i \in DOMAIN rounds : ConfirmRound(rounds[i], a, st, t) \in GroupRound
    BY <1>1, ConfirmRoundType
  <2>2. rounds' \in [DOMAIN rounds -> GroupRound]
    BY <1>2, <2>1 DEF ObserveExecution
  <2> QED
    BY <1>1, <2>2, RoundsMap
<1>3. ASSUME NEW a \in Attempt, RequestCancellation({a}) PROVE rounds' \in Seq(GroupRound)
  <2> DEFINE Hit(i) == rounds[i].aborted \/ {a} \cap (rounds[i].members \cup rounds[i].fresh) # {}
  <2>1. \A i \in DOMAIN rounds : rounds[i] \in GroupRound
    BY <1>1
  <2>2. \A i \in DOMAIN rounds : [rounds[i] EXCEPT !.aborted = Hit(i)] \in GroupRound
    BY <2>1, Zenon DEF GroupRound
  <2>3. rounds' = [i \in DOMAIN rounds |-> [rounds[i] EXCEPT !.aborted = Hit(i)]]
    BY <1>3 DEF RequestCancellation
  <2> HIDE DEF Hit
  <2>4. rounds' \in [DOMAIN rounds -> GroupRound]
    BY <2>2, <2>3
  <2> QED
    BY <1>1, <2>4, RoundsMap
<1>4. ASSUME NEW d \in Timeouts, NEW k \in Limits, RequestGroupRecovery(d, k)
      PROVE  rounds' \in Seq(GroupRound)
  <2> DEFINE members   == CurrentAttempts
             preserved == {a \in members : status[a] = "Completed"}
             fresh     == [members |-> members, preserved |-> preserved, requested |-> now,
                           deadline |-> now + d, limit |-> k,
                           confirmed |-> [a \in Attempt |-> NoTime], fresh |-> {},
                           prepared |-> NoTime, admitted |-> [a \in Attempt |-> NoTime],
                           aborted |-> FALSE]
  <2>1. d \in Int /\ k \in Nat /\ now \in Int
    BY <1>1, Numbers
  <2>2. members \subseteq Attempt /\ preserved \subseteq Attempt
    BY <1>1 DEF CurrentAttempts
  <2>3. fresh \in GroupRound
    BY <1>1, <2>1, <2>2 DEF GroupRound
  <2>4. rounds' = Append(rounds, fresh)
    BY <1>4 DEF RequestGroupRecovery
  <2> HIDE DEF fresh
  <2> QED
    BY <1>1, <2>3, <2>4
<1>5. ASSUME PrepareContinuation PROVE rounds' \in Seq(GroupRound)
  <2> DEFINE last == Len(rounds)
             S == {a[1] : a \in {a \in rounds[last].members : status[a] = "Cancelled"}}
  <2>1. PICK g \in [S -> 1 .. MaxGen] :
             rounds' = [rounds EXCEPT ![last].fresh = {<<s, g[s]>> : s \in S},
                                      ![last].prepared = now]
    BY <1>5, Zenon DEF PrepareContinuation
  <2>2. \A a \in rounds[last].members : a \in Attempt
    BY <1>5, ContinuationOwners
  <2>3. {<<s, g[s]>> : s \in S} \in SUBSET Attempt
    BY <2>2 DEF Attempt
  <2>4. last \in DOMAIN rounds
    BY <1>1, <1>5 DEF PrepareContinuation
  <2> DEFINE F == {<<s, g[s]>> : s \in S}
             r == [rounds[last] EXCEPT !.fresh = F, !.prepared = now]
  <2> HIDE DEF F
  <2>5. r \in GroupRound
    <3>1. F \in SUBSET Attempt
      BY <2>3 DEF F
    <3>2. rounds[last] \in GroupRound
      BY <1>1, <2>4
    <3> QED
      BY <1>1, <3>1, <3>2, ContinuedRoundType, Zenon
  <2>6. rounds' = [rounds EXCEPT ![last] = r]
    BY <1>1, <2>1, <2>4, Zenon DEF F
  <2> HIDE DEF r, last
  <2>7. rounds' \in [DOMAIN rounds -> GroupRound]
    <3>1. rounds \in [DOMAIN rounds -> GroupRound]
      BY <1>1
    <3> QED
      BY <2>5, <2>6, <3>1, Zenon
  <2> QED
    BY <1>1, <2>7, RoundsMap
<1>6. ASSUME UNCHANGED rounds PROVE rounds' \in Seq(GroupRound)
  BY <1>1, <1>6
<1>7. known \cup Early \subseteq Attempt
  BY <1>1, FactAssumption
<1> QED
  BY <1>2, <1>3, <1>4, <1>5, <1>6, <1>7, Zenon
     DEF Next, Dispatch, Defer, DispatchReceipt, RejectedCancelReceipt, NodeUnavailable,
         RequestRecoveryStop, MarkRecoveryRelease, Tick, Restart, vars

-----------------------------------------------------------------------------
\* Every Runtime map keeps its type in every behaviour of the Runtime, whatever the
\* Nodes report (RuntimeExecutionManager).
THEOREM TypeCorrect == Spec => []TypeOK
<1>1. Init => TypeOK
  <2> SUFFICES ASSUME Init PROVE TypeOK
    OBVIOUS
  <2>1. 0 \in Time /\ NoTime \in Int /\ 0 \in 0 .. MaxGen /\ -1 \in -1 .. MaxSeq
    BY BoundAssumption DEF Time, NoTime
  <2>2. NoStop \in RecoveryStop
    BY <2>1 DEF NoStop, RecoveryStop
  <2>3. rounds \in Seq(GroupRound)
    BY DEF Init
  <2> QED
    BY <2>1, <2>2, <2>3 DEF Init, TypeOK, Budget
<1>2. TypeOK /\ [Next]_vars => TypeOK'
  BY MapsStep, RoundsStep, TypeSplitPrime
<1> QED
  BY <1>1, <1>2, PTL DEF Spec

-----------------------------------------------------------------------------
(***************************************************************************)
(* The three facts below need to know how a step may change a status.      *)
(***************************************************************************)

\* A status only changes by preparing a fresh attempt (from "None"), by an accepted fact
\* (not from a terminal status), or to Unknown from a live status.
StatusChange ==
    \A a \in Attempt :
        \/ status'[a] = status[a]
        \/ status[a] = "None" /\ status'[a] = "Dispatched" /\ a \notin restored /\ a \notin known
        \/ status[a] \notin Terminal /\ status'[a] \in Reported
        \/ status[a] \in Live /\ status'[a] = "Unknown"

\* prepare_dispatch only touches statuses that were absent and generations never allocated.
LEMMA PrepareStatus ==
  ASSUME TypeOK, NEW S \in SUBSET Slots, NEW g \in [S -> 1 .. MaxGen], NEW n, Prepare(S, g, n)
  PROVE  StatusChange /\ FreshGeneration /\ termAt' = termAt /\ restored' = restored
         /\ known \subseteq known'
<1>1. ASSUME NEW a \in Attempt, a[1] \in S, a[2] = g[a[1]]
      PROVE  status[a] = "None" /\ a \notin restored /\ a \notin known
  <2>1. a = <<a[1], g[a[1]]>>
    BY <1>1 DEF Attempt
  <2> QED
    BY <1>1, <2>1 DEF Prepare, Allocates
<1>2. StatusChange
  BY <1>1 DEF Prepare, StatusChange
<1>3. \A s \in S : g[s] \in Nat /\ g[s] > gen[s] /\ status[<<s, g[s]>>] = "None"
  BY BoundAssumption, SMTT(30) DEF Prepare, Allocates, TypeOK
<1>4. FreshGeneration
  BY <1>3, BoundAssumption DEF Prepare, FreshGeneration, TypeOK
<1> QED
  BY <1>2, <1>4 DEF Prepare

\* Every step changes statuses and current attempts only in those ways.
LEMMA NextStatus ==
  ASSUME TypeOK, [Next]_vars
  PROVE  StatusChange /\ FreshGeneration
<1>1. FactAssumption /\ \A a \in known \cup Early : a \in Attempt
  BY FactAssumption DEF TypeOK
<1>2. ASSUME active' = active, gen' = gen PROVE FreshGeneration
  BY <1>2, BoundAssumption DEF FreshGeneration, TypeOK
<1>3. ASSUME NEW s \in Slots, NEW n \in Nodes, Dispatch(s, n) PROVE StatusChange /\ FreshGeneration
  <2>1. PICK g \in 1 .. MaxGen : Prepare({s}, [x \in {s} |-> g], [x \in {s} |-> n])
    BY <1>3, Zenon DEF Dispatch
  <2>2. {s} \in SUBSET Slots /\ [x \in {s} |-> g] \in [{s} -> 1 .. MaxGen]
    OBVIOUS
  <2> QED
    BY <2>1, <2>2, PrepareStatus
<1>4. ASSUME NEW s \in Slots, Defer(s) PROVE StatusChange /\ FreshGeneration
  <2>1. PICK g \in 1 .. MaxGen : Allocates(s, g) /\ gen' = [gen EXCEPT ![s] = g]
    BY <1>4, Zenon DEF Defer
  <2>2. g > gen[s] /\ g \in Int /\ active' = active /\ status' = status
    BY <1>4, <2>1, BoundAssumption DEF Defer, Allocates, TypeOK
  <2> QED
    BY <2>1, <2>2, BoundAssumption DEF StatusChange, FreshGeneration, TypeOK
<1>5. ASSUME NEW a \in known \cup Early, NEW n \in Nodes, NEW q \in 0 .. MaxSeq,
             NEW st \in Reports, NEW t \in Time, ObserveExecution(a, n, q, st, t)
      PROVE  StatusChange /\ FreshGeneration
  <2>1. st \in Reported
    BY FactAssumption
  <2>2. StatusChange
    BY <1>5, <1>1, <2>1, Zenon DEF ObserveExecution, AcceptsFact, StatusChange, TypeOK
  <2> QED
    BY <1>2, <1>5, <2>2, Zenon DEF ObserveExecution
<1>6. ASSUME NEW a \in Attempt, NEW p \in BOOLEAN, DispatchReceipt(a, p)
      PROVE  StatusChange /\ FreshGeneration
  BY <1>2, <1>6 DEF DispatchReceipt, StatusChange, TypeOK, Live
<1>7. ASSUME NEW a \in Attempt, RejectedCancelReceipt(a) PROVE StatusChange /\ FreshGeneration
  BY <1>2, <1>7 DEF RejectedCancelReceipt, StatusChange, TypeOK, Live
<1>8. ASSUME NEW n \in Nodes, NodeUnavailable(n) PROVE StatusChange /\ FreshGeneration
  BY <1>2, <1>8 DEF NodeUnavailable, StatusChange, TypeOK
<1>9. ASSUME Restart PROVE StatusChange /\ FreshGeneration
  BY <1>2, <1>9 DEF Restart, RestoredStatus, StatusChange, TypeOK
<1>10. ASSUME PrepareContinuation PROVE StatusChange /\ FreshGeneration
  <2> DEFINE S == {a[1] : a \in {a \in rounds[Len(rounds)].members : status[a] = "Cancelled"}}
  <2>1. PICK g \in [S -> 1 .. MaxGen] : Prepare(S, g, [s \in S |-> owner[Current(s)]])
    BY <1>10, Zenon DEF PrepareContinuation
  <2>2. S \in SUBSET Slots
    BY <1>10, ContinuationOwners DEF Attempt
  <2> HIDE DEF S
  <2> QED
    BY <2>1, <2>2, PrepareStatus
<1>11. ASSUME UNCHANGED <<status, active, gen>> PROVE StatusChange /\ FreshGeneration
  BY <1>2, <1>11 DEF StatusChange
<1> QED
  BY <1>3, <1>4, <1>5, <1>6, <1>7, <1>8, <1>9, <1>10, <1>11, Zenon
     DEF Next, RequestCancellation, RequestRecoveryStop, MarkRecoveryRelease,
         RequestGroupRecovery, Tick, vars

\* A slot's current attempt only ever moves to a later, never allocated generation whose
\* identity nobody has reported on (allocate_attempt_id, prepare_dispatch).
THEOREM AttemptsAreFresh == Spec => GenerationsAdvance
<1>1. TypeOK /\ [Next]_vars => [FreshGeneration]_vars
  BY NextStatus
<1> QED
  BY <1>1, TypeCorrect, PTL DEF Spec, GenerationsAdvance

\* The receive time recorded for a terminal attempt is written once (observe_execution).
LEMMA TermAtOnce ==
  ASSUME TypeOK, [Next]_vars
  PROVE  \A a \in Attempt : termAt[a] # NoTime => termAt'[a] = termAt[a]
<1>1. ASSUME NEW a \in known \cup Early, NEW n \in Nodes, NEW q \in 0 .. MaxSeq,
             NEW st \in Reports, NEW t \in Time, ObserveExecution(a, n, q, st, t)
      PROVE  \A b \in Attempt : termAt[b] # NoTime => termAt'[b] = termAt[b]
  BY <1>1, Zenon DEF ObserveExecution, TypeOK
<1>2. ASSUME PrepareContinuation PROVE termAt' = termAt
  BY <1>2 DEF PrepareContinuation, Prepare
<1>3. ASSUME NEW s \in Slots, NEW n \in Nodes, Dispatch(s, n) PROVE termAt' = termAt
  BY <1>3 DEF Dispatch, Prepare
<1> QED
  BY <1>1, <1>2, <1>3, Zenon
     DEF Next, Defer, DispatchReceipt, RejectedCancelReceipt, NodeUnavailable,
         RequestCancellation, RequestRecoveryStop, MarkRecoveryRelease,
         RequestGroupRecovery, Tick, Restart, vars

\* Terminal evidence is immutable: whatever a Node reports afterwards, however often the
\* Controller restarts, status and receive time stay (observe_execution, restore).
THEOREM TerminalEvidenceIsFinal == Spec => TerminalIsFinal
<1>1. ASSUME TypeOK, [Next]_vars PROVE TerminalKept
  <2>1. StatusChange
    BY <1>1, NextStatus
  <2>2. \A a \in Attempt : termAt[a] # NoTime => termAt'[a] = termAt[a]
    BY <1>1, TermAtOnce
  <2> QED
    BY <2>1, <2>2 DEF StatusChange, TerminalKept, Terminal, Live
<1>2. TypeOK /\ [Next]_vars => [TerminalKept]_vars
  BY <1>1
<1> QED
  BY <1>2, TypeCorrect, PTL DEF Spec, TerminalIsFinal

\* What makes NeverResentAfterRestart inductive: an inherited attempt has a context, so
\* prepare_dispatch refuses its identity and nothing can make it Dispatched again.
Inherited == restored \subseteq known /\ \A a \in restored : status[a] # "Dispatched"

\* Contexts are never dropped, and only restore changes the inherited set.
LEMMA KnownGrows ==
  ASSUME TypeOK, [Next]_vars
  PROVE  known \subseteq known' /\ (restored' = restored \/ Restart)
<1>1. ASSUME NEW S, NEW g, NEW n, Prepare(S, g, n)
      PROVE  known \subseteq known' /\ restored' = restored
  BY <1>1 DEF Prepare
<1>2. ASSUME PrepareContinuation PROVE known \subseteq known' /\ restored' = restored
  <2>1. PICK S, g, n : Prepare(S, g, n)
    BY <1>2 DEF PrepareContinuation
  <2> QED
    BY <2>1, <1>1
<1>3. ASSUME NEW s \in Slots, NEW n \in Nodes, Dispatch(s, n)
      PROVE  known \subseteq known' /\ restored' = restored
  BY <1>1, <1>3 DEF Dispatch
<1>4. Restart => known' = known
  BY DEF Restart
<1>5. ASSUME NEW a \in known \cup Early, NEW n \in Nodes, NEW q \in 0 .. MaxSeq,
             NEW st \in Reports, NEW t \in Time, ObserveExecution(a, n, q, st, t)
      PROVE  UNCHANGED <<known, restored>>
  BY <1>5 DEF ObserveExecution
<1> QED
  BY <1>2, <1>3, <1>4, <1>5, Zenon
     DEF Next, Defer, DispatchReceipt, RejectedCancelReceipt, NodeUnavailable,
         RequestCancellation, RequestRecoveryStop, MarkRecoveryRelease,
         RequestGroupRecovery, Tick, vars

\* An attempt a restarted Controller inherited is never routed by its Execute outbox again
\* (restore, pending_dispatch_intents), for any number of slots, attempts and restarts.
THEOREM InheritedNeverResent == Spec => []NeverResentAfterRestart
<1>1. Init => Inherited
  BY DEF Init, Inherited
<1>2. ASSUME TypeOK, Inherited, [Next]_vars PROVE Inherited'
  <2>1. StatusChange /\ known \subseteq known' /\ (restored' = restored \/ Restart)
    BY <1>2, NextStatus, KnownGrows
  <2>2. CASE restored' = restored
    <3>1. ASSUME NEW a \in restored PROVE status'[a] # "Dispatched"
      BY <1>2, <2>1, Zenon DEF StatusChange, Inherited, TypeOK, Reported, Terminal
    <3> QED
      BY <2>1, <2>2, <3>1, <1>2 DEF Inherited
  <2>3. CASE Restart
    BY <1>2, <2>3 DEF Restart, RestoredStatus, Inherited, TypeOK, Live
  <2> QED
    BY <2>1, <2>2, <2>3
<1>3. Inherited => NeverResentAfterRestart
  BY DEF Inherited, NeverResentAfterRestart, PendingDispatch
<1> QED
  BY <1>1, <1>2, <1>3, TypeCorrect, PTL DEF Spec

-----------------------------------------------------------------------------
(***************************************************************************)
(* What a step may do to the rounds                                        *)
(***************************************************************************)

\* A round keeps what it froze, its abort and its evidence; replacements are added only
\* to a round whose stop is confirmed.
Kept(r, q) ==
    /\ q.members = r.members /\ q.preserved = r.preserved
    /\ q.requested = r.requested /\ q.deadline = r.deadline /\ q.limit = r.limit
    /\ r.aborted => q.aborted
    /\ \A a \in Attempt : r.confirmed[a] # NoTime => q.confirmed[a] = r.confirmed[a]
    /\ \A a \in Attempt : r.admitted[a] # NoTime => q.admitted[a] = r.admitted[a]
    /\ \/ q.fresh = r.fresh /\ q.prepared = r.prepared
       \/ Disposition(r) = "StopConfirmed"

RoundsKept ==
    /\ DOMAIN rounds \subseteq DOMAIN rounds'
    /\ \A i \in DOMAIN rounds : Kept(rounds[i], rounds'[i])

\* Recording stop or admission evidence keeps a round (confirm_group_recovery_stop,
\* confirm_group_continuation_admission).
LEMMA ConfirmRoundKept ==
  ASSUME NEW r \in GroupRound, NEW a \in Attempt, NEW st, NEW t \in Time
  PROVE  Kept(r, ConfirmRound(r, a, st, t))
<1> DEFINE q == ConfirmRound(r, a, st, t)
<1>1. /\ q.members = r.members /\ q.preserved = r.preserved /\ q.requested = r.requested
      /\ q.deadline = r.deadline /\ q.limit = r.limit /\ q.aborted = r.aborted
      /\ q.fresh = r.fresh /\ q.prepared = r.prepared
  BY DEF ConfirmRound, GroupRound
<1>2. /\ q.confirmed = IF StopsMember(r, a, st, t) THEN [r.confirmed EXCEPT ![a] = t]
                       ELSE r.confirmed
      /\ q.admitted = IF AdmitsReplacement(r, a, st, t) THEN [r.admitted EXCEPT ![a] = t]
                      ELSE r.admitted
  BY DEF ConfirmRound, GroupRound
<1>3. r.confirmed \in [Attempt -> Time \cup {NoTime}] /\ r.admitted \in [Attempt -> Time \cup {NoTime}]
  BY DEF GroupRound
<1> HIDE DEF q
<1>4. StopsMember(r, a, st, t) => r.confirmed[a] = NoTime
  BY DEF StopsMember
<1>5. AdmitsReplacement(r, a, st, t) => r.admitted[a] = NoTime
  BY DEF AdmitsReplacement
<1>6. \A b \in Attempt : r.confirmed[b] # NoTime => q.confirmed[b] = r.confirmed[b]
  BY <1>2, <1>3, <1>4, Zenon
<1>7. \A b \in Attempt : r.admitted[b] # NoTime => q.admitted[b] = r.admitted[b]
  BY <1>2, <1>3, <1>5, Zenon
<1>8. Kept(r, q)
  BY <1>1, <1>6, <1>7, Zenon DEF Kept
<1> QED
  BY <1>8 DEF q

\* No step takes anything back from a round (RuntimeExecutionManager::group_recoveries).
LEMMA NextRounds ==
  ASSUME TypeOK, [Next]_vars
  PROVE  RoundsKept
<1>1. rounds \in Seq(GroupRound) /\ \A i \in DOMAIN rounds : rounds[i] \in GroupRound
  BY DEF TypeOK
<1>2. ASSUME UNCHANGED rounds PROVE RoundsKept
  BY <1>2 DEF RoundsKept, Kept
<1>3. ASSUME NEW a \in known \cup Early, NEW n \in Nodes, NEW q \in 0 .. MaxSeq,
             NEW st \in Reports, NEW t \in Time, ObserveExecution(a, n, q, st, t)
      PROVE  RoundsKept
  <2>1. a \in Attempt
    BY FactAssumption DEF TypeOK
  <2>2. rounds' = [i \in DOMAIN rounds |-> ConfirmRound(rounds[i], a, st, t)]
    BY <1>3 DEF ObserveExecution
  <2> QED
    BY <1>1, <2>1, <2>2, ConfirmRoundKept, Zenon DEF RoundsKept
<1>4. ASSUME NEW a \in Attempt, RequestCancellation({a}) PROVE RoundsKept
  <2> DEFINE Hit(i) == rounds[i].aborted \/ {a} \cap (rounds[i].members \cup rounds[i].fresh) # {}
  <2>1. rounds' = [i \in DOMAIN rounds |-> [rounds[i] EXCEPT !.aborted = Hit(i)]]
    BY <1>4 DEF RequestCancellation
  <2>2. \A i \in DOMAIN rounds : Kept(rounds[i], [rounds[i] EXCEPT !.aborted = Hit(i)])
    BY <1>1 DEF Kept, GroupRound
  <2> HIDE DEF Hit
  <2> QED
    BY <2>1, <2>2, Zenon DEF RoundsKept
<1>5. ASSUME NEW d \in Timeouts, NEW k \in Limits, RequestGroupRecovery(d, k) PROVE RoundsKept
  <2>1. PICK r : rounds' = Append(rounds, r)
    BY <1>5, Zenon DEF RequestGroupRecovery
  <2>2. DOMAIN rounds \subseteq DOMAIN rounds' /\ \A i \in DOMAIN rounds : rounds'[i] = rounds[i]
    BY <1>1, <2>1
  <2> QED
    BY <2>2 DEF RoundsKept, Kept
<1>6. ASSUME PrepareContinuation PROVE RoundsKept
  <2> DEFINE last == Len(rounds)
  <2>1. PICK F : rounds' = [rounds EXCEPT ![last].fresh = F, ![last].prepared = now]
    BY <1>6, Zenon DEF PrepareContinuation
  <2>2. last \in DOMAIN rounds
    BY <1>1, <1>6 DEF PrepareContinuation
  <2>3. Disposition(rounds[last]) = "StopConfirmed"
    BY <1>6, Zenon DEF PrepareContinuation
  <2>4. rounds' = [rounds EXCEPT ![last] = [rounds[last] EXCEPT !.fresh = F, !.prepared = now]]
    BY <1>1, <2>1, <2>2, Zenon
  <2>5. Kept(rounds[last], [rounds[last] EXCEPT !.fresh = F, !.prepared = now])
    BY <1>1, <2>2, <2>3 DEF Kept, GroupRound
  <2> HIDE DEF last
  <2>6. \A i \in DOMAIN rounds : Kept(rounds[i], rounds[i])
    BY DEF Kept
  <2> QED
    BY <1>1, <2>2, <2>4, <2>5, <2>6 DEF RoundsKept
<1> QED
  BY <1>2, <1>3, <1>4, <1>5, <1>6, Zenon
     DEF Next, Dispatch, Defer, DispatchReceipt, RejectedCancelReceipt, NodeUnavailable,
         RequestRecoveryStop, MarkRecoveryRelease, Tick, Restart, vars

\* Only request_group_recovery_stop adds a round.
LEMMA RoundsAdded ==
  ASSUME TypeOK, [Next]_vars
  PROVE  \/ Len(rounds') = Len(rounds)
         \/ \E d \in Timeouts, k \in Limits : RequestGroupRecovery(d, k)
<1>1. rounds \in Seq(GroupRound) /\ rounds' \in Seq(GroupRound)
  BY RoundsStep DEF TypeOK
<1>2. ASSUME DOMAIN rounds' = DOMAIN rounds PROVE Len(rounds') = Len(rounds)
  BY <1>1, <1>2
<1>3. ASSUME NEW a, NEW n, NEW q, NEW st, NEW t, ObserveExecution(a, n, q, st, t)
      PROVE  DOMAIN rounds' = DOMAIN rounds
  BY <1>3, Zenon DEF ObserveExecution
<1>4. ASSUME NEW a, RequestCancellation({a}) PROVE DOMAIN rounds' = DOMAIN rounds
  BY <1>4, Zenon DEF RequestCancellation
<1>5. ASSUME PrepareContinuation PROVE DOMAIN rounds' = DOMAIN rounds
  <2>1. PICK F : rounds' = [rounds EXCEPT ![Len(rounds)].fresh = F, ![Len(rounds)].prepared = now]
    BY <1>5, Zenon DEF PrepareContinuation
  <2> QED
    BY <2>1, <1>1
<1>6. ASSUME UNCHANGED rounds PROVE Len(rounds') = Len(rounds)
  BY <1>6
<1> QED
  BY <1>2, <1>3, <1>4, <1>5, <1>6, Zenon
     DEF Next, Dispatch, Defer, DispatchReceipt, RejectedCancelReceipt, NodeUnavailable,
         RequestRecoveryStop, MarkRecoveryRelease, Tick, Restart, vars

\* The Controller clock never goes back.
LEMMA ClockAdvances ==
  ASSUME TypeOK, [Next]_vars
  PROVE  now' >= now /\ now \in Int /\ now' \in Int
<1>1. now \in Time /\ now' \in Time
  BY MapsStep DEF TypeOK, MapsOK
<1>2. now \in Int /\ now' \in Int
  BY <1>1 DEF Time
<1>3. Tick => now' >= now
  BY <1>2 DEF Tick
<1>4. ASSUME now' = now PROVE now' >= now
  BY <1>2, <1>4
<1>5. ASSUME NEW S, NEW g, NEW n, Prepare(S, g, n) PROVE now' = now
  BY <1>5 DEF Prepare
<1>6. PrepareContinuation => now' = now
  BY <1>5 DEF PrepareContinuation
<1>7. ASSUME NEW s, NEW n, Dispatch(s, n) PROVE now' = now
  BY <1>5, <1>7 DEF Dispatch
<1>8. ASSUME NEW a, NEW n, NEW q, NEW st, NEW t, ObserveExecution(a, n, q, st, t)
      PROVE  now' = now
  BY <1>8, Zenon DEF ObserveExecution
<1>9. now' >= now
  BY <1>3, <1>4, <1>6, <1>7, <1>8, Zenon
     DEF Next, Defer, DispatchReceipt, RejectedCancelReceipt, NodeUnavailable,
         RequestCancellation, RequestRecoveryStop, MarkRecoveryRelease,
         RequestGroupRecovery, Restart, vars
<1> QED
  BY <1>2, <1>9

\* Terminal statuses stay (observe_execution).
LEMMA TerminalStays ==
  ASSUME TypeOK, [Next]_vars, NEW a \in Attempt, status[a] \in Terminal
  PROVE  status'[a] = status[a]
  BY NextStatus DEF StatusChange, Terminal, Live

-----------------------------------------------------------------------------
(***************************************************************************)
(* Settled rounds                                                          *)
(***************************************************************************)

Settled(r) == Disposition(r) \in {"Aborted", "Continued", "OriginalFailed", "OriginalCompleted"}

\* What it takes for a round to be settled.
LEMMA SettledMeans ==
  ASSUME NEW r \in GroupRound
  PROVE  Settled(r) <=>
            \/ r.aborted
            \/ r.fresh # {} /\ \A a \in r.fresh : InTime(r.admitted[a], r)
            \/ r.fresh = {} /\ \E a \in r.members : status[a] = "Failed"
            \/ r.fresh = {} /\ \A a \in r.members : status[a] = "Completed"
  BY Zenon DEF Settled, Disposition, OpenDisposition

\* The same in the state after a step.
LEMMA SettledMeansPrime ==
  ASSUME NEW r \in GroupRound
  PROVE  Settled(r)' <=>
            \/ r.aborted
            \/ r.fresh # {} /\ \A a \in r.fresh : InTime(r.admitted[a], r)'
            \/ r.fresh = {} /\ \E a \in r.members : status'[a] = "Failed"
            \/ r.fresh = {} /\ \A a \in r.members : status'[a] = "Completed"
  BY Zenon DEF Settled, Disposition, OpenDisposition

\* A settled round stays settled although its disposition is recomputed
\* (group_recovery_disposition).
LEMMA SettledStays ==
  ASSUME TypeOK, [Next]_vars, NEW r \in GroupRound, NEW q \in GroupRound, Kept(r, q), Settled(r)
  PROVE  Settled(q)'
<1>1. /\ r.fresh \subseteq Attempt /\ r.members \subseteq Attempt
      /\ r.admitted \in [Attempt -> Time \cup {NoTime}]
  BY DEF GroupRound
<1>2. /\ q.members = r.members /\ q.deadline = r.deadline
      /\ r.aborted => q.aborted
      /\ \A a \in Attempt : r.admitted[a] # NoTime => q.admitted[a] = r.admitted[a]
  BY DEF Kept
<1>3. r.aborted \/ q.fresh = r.fresh
  BY DEF Kept, Settled
<1>4. now' >= now /\ now \in Int /\ now' \in Int
  BY ClockAdvances
<1>5. ASSUME NEW a \in Attempt, InTime(r.admitted[a], r) PROVE InTime(q.admitted[a], q)'
  <2>1. r.admitted[a] \in Int
    BY <1>1 DEF Time, NoTime
  <2> QED
    BY <1>2, <1>4, <1>5, <2>1 DEF InTime
<1>6. \A a \in Attempt : status[a] \in {"Failed", "Completed"} => status'[a] = status[a]
  BY TerminalStays DEF Terminal
<1>7. CASE r.aborted
  BY <1>2, <1>7, SettledMeansPrime
<1>8. CASE q.fresh = r.fresh
  <2>1. CASE r.fresh # {} /\ \A a \in r.fresh : InTime(r.admitted[a], r)
    BY <1>1, <1>5, <1>8, <2>1, SettledMeansPrime, Zenon
  <2>2. CASE r.fresh = {} /\ \E a \in r.members : status[a] = "Failed"
    BY <1>1, <1>2, <1>6, <1>8, <2>2, SettledMeansPrime
  <2>3. CASE r.fresh = {} /\ \A a \in r.members : status[a] = "Completed"
    BY <1>1, <1>2, <1>6, <1>8, <2>3, SettledMeansPrime
  <2> QED
    BY <1>7, <2>1, <2>2, <2>3, SettledMeans
<1> QED
  BY <1>3, <1>7, <1>8

\* However long the recovery of a Group goes on, only its latest round is open
\* (request_group_recovery_stop, holds_group_dispatch).
THEOREM OnlyLatestRoundOpen == Spec => []EarlierRoundsSettled
<1>1. Init => EarlierRoundsSettled
  BY DEF Init, EarlierRoundsSettled
<1>2. ASSUME TypeOK, EarlierRoundsSettled, [Next]_vars PROVE EarlierRoundsSettled'
  <2>1. /\ rounds \in Seq(GroupRound) /\ rounds' \in Seq(GroupRound)
        /\ \A i \in DOMAIN rounds : rounds[i] \in GroupRound /\ rounds'[i] \in GroupRound
    <3>1. rounds \in Seq(GroupRound) /\ rounds' \in Seq(GroupRound)
      BY <1>2, RoundsStep DEF TypeOK
    <3>2. DOMAIN rounds \subseteq DOMAIN rounds'
      BY <1>2, NextRounds DEF RoundsKept
    <3> QED
      BY <3>1, <3>2
  <2>2. \A i \in DOMAIN rounds : Settled(rounds[i]) => Settled(rounds[i])'
    <3> SUFFICES ASSUME NEW i \in DOMAIN rounds, Settled(rounds[i]) PROVE Settled(rounds[i])'
      OBVIOUS
    <3>1. Kept(rounds[i], rounds'[i])
      BY <1>2, NextRounds DEF RoundsKept
    <3> DEFINE r == rounds[i]
               q == rounds'[i]
    <3>2. r \in GroupRound /\ q \in GroupRound
      BY <2>1
    <3> HIDE DEF r, q
    <3>3. PICK x \in GroupRound : x = q
      BY <3>2
    <3>4. PICK y \in GroupRound : y = r
      BY <3>2
    <3>5. Settled(x)'
      BY <1>2, <3>1, <3>3, <3>4, SettledStays DEF r, q
    <3> QED
      BY <3>3, <3>5 DEF q, Settled, Disposition, OpenDisposition, InTime, IsCurrent, MemberStopped
  <2>3. CASE Len(rounds') = Len(rounds)
    BY <1>2, <2>1, <2>2, <2>3 DEF EarlierRoundsSettled, Settled
  <2>4. ASSUME NEW d \in Timeouts, NEW k \in Limits, RequestGroupRecovery(d, k)
        PROVE  EarlierRoundsSettled'
    <3>1. PICK r : rounds' = Append(rounds, r)
      BY <2>4 DEF RequestGroupRecovery
    <3>2. Len(rounds') = Len(rounds) + 1
      BY <2>1, <3>1
    <3>3. rounds # <<>> => Settled(rounds[Len(rounds)])
      BY <2>4, Zenon DEF RequestGroupRecovery, HoldsDispatch, Settled, Disposition, OpenDisposition
    <3>4. \A i \in DOMAIN rounds : Settled(rounds[i])
      BY <1>2, <2>1, <3>3 DEF EarlierRoundsSettled, Settled
    <3>5. \A i \in DOMAIN rounds' : i < Len(rounds') => i \in DOMAIN rounds
      BY <2>1, <3>2
    <3> QED
      BY <2>2, <3>4, <3>5 DEF EarlierRoundsSettled, Settled
  <2> QED
    BY <1>2, <2>3, <2>4, RoundsAdded
<1> QED
  BY <1>1, <1>2, TypeCorrect, PTL DEF Spec

-----------------------------------------------------------------------------
(***************************************************************************)
(* Aborted purposes                                                        *)
(***************************************************************************)

\* A stop is aborted only after it was requested, so a new request never overwrites an
\* aborted one.
StopsRequested == \A a \in Attempt : stop[a].aborted => HasStop(a)

\* What a step may do to the stop of an attempt: request it while the attempt is live, abort
\* it, confirm it or, unless it was aborted, release it.
StopChange(a) ==
    \/ stop'[a] = stop[a]
    \/ ~HasStop(a) /\ status[a] \in Live /\ stop'[a].requested \in Time /\ ~stop'[a].aborted
    \/ HasStop(a) /\ stop'[a] = [stop[a] EXCEPT !.aborted = TRUE]
    \/ HasStop(a) /\ ~stop[a].aborted /\ stop'[a] = [stop[a] EXCEPT !.released = TRUE]
    \/ HasStop(a) /\ stop[a].confirmed = NoTime
       /\ \E t \in Time : stop'[a] = [stop[a] EXCEPT !.confirmed = t]

\* Every step changes stops only in those ways.
LEMMA NextStops ==
  ASSUME TypeOK, [Next]_vars
  PROVE  \A a \in Attempt : StopChange(a)
<1>1. stop \in [Attempt -> RecoveryStop] /\ now \in Time
  BY DEF TypeOK
<1>2. ASSUME stop' = stop PROVE \A a \in Attempt : StopChange(a)
  BY <1>2 DEF StopChange
<1>3. ASSUME NEW a \in known \cup Early, NEW n \in Nodes, NEW q \in 0 .. MaxSeq,
             NEW st \in Reports, NEW t \in Time, ObserveExecution(a, n, q, st, t)
      PROVE  \A b \in Attempt : StopChange(b)
  <2>1. a \in Attempt
    BY FactAssumption DEF TypeOK
  <2>2. stop' = ConfirmStop(a, st, t)
    BY <1>3, Zenon DEF ObserveExecution
  <2>3. CASE stop' = stop
    BY <1>2, <2>3
  <2>4. CASE stop' = [stop EXCEPT ![a].confirmed = t] /\ HasStop(a) /\ stop[a].confirmed = NoTime
    <3>1. stop' = [stop EXCEPT ![a] = [stop[a] EXCEPT !.confirmed = t]]
      BY <2>4
    <3>2. \A b \in Attempt : b # a => stop'[b] = stop[b]
      BY <1>1, <3>1
    <3>3. stop'[a] = [stop[a] EXCEPT !.confirmed = t]
      BY <1>1, <2>1, <3>1
    <3> QED
      BY <2>4, <3>2, <3>3, Zenon DEF StopChange
  <2> QED
    BY <2>2, <2>3, <2>4, Zenon DEF ConfirmStop
<1>4. ASSUME NEW a \in Attempt, RequestCancellation({a}) PROVE \A b \in Attempt : StopChange(b)
  BY <1>1, <1>4, Zenon DEF RequestCancellation, StopChange
<1>5. ASSUME NEW a \in Attempt, NEW d \in Timeouts, NEW k \in Limits, RequestRecoveryStop(a, d, k)
      PROVE  \A b \in Attempt : StopChange(b)
  <2>1. ~HasStop(a) /\ status[a] \in Live
    BY <1>5, Zenon DEF RequestRecoveryStop, Stoppable
  <2>2. stop' = [stop EXCEPT ![a] = [requested |-> now, deadline |-> now + d, limit |-> k,
                    confirmed |-> NoTime, released |-> FALSE, aborted |-> FALSE]]
    BY <1>5 DEF RequestRecoveryStop
  <2>3. stop'[a].requested = now /\ stop'[a].aborted = FALSE
    BY <1>1, <2>2
  <2>4. \A b \in Attempt : b # a => stop'[b] = stop[b]
    BY <1>1, <2>2
  <2> QED
    BY <1>1, <2>1, <2>3, <2>4, Zenon DEF StopChange
<1>6. ASSUME NEW a \in Attempt, MarkRecoveryRelease(a) PROVE \A b \in Attempt : StopChange(b)
  <2>1. HasStop(a) /\ ~stop[a].aborted
    BY <1>6 DEF MarkRecoveryRelease, RecoveryStopReady
  <2>2. stop' = [stop EXCEPT ![a] = [stop[a] EXCEPT !.released = TRUE]]
    BY <1>6 DEF MarkRecoveryRelease
  <2> QED
    BY <1>1, <2>1, <2>2, Zenon DEF StopChange
<1>7. ASSUME NEW S, NEW g, NEW n, Prepare(S, g, n) PROVE stop' = stop
  BY <1>7, Zenon DEF Prepare
<1>8. PrepareContinuation => stop' = stop
  BY <1>7 DEF PrepareContinuation
<1>9. ASSUME NEW s, NEW n, Dispatch(s, n) PROVE stop' = stop
  BY <1>7, <1>9 DEF Dispatch
<1> QED
  BY <1>2, <1>3, <1>4, <1>5, <1>6, <1>8, <1>9, Zenon
     DEF Next, Defer, DispatchReceipt, RejectedCancelReceipt, NodeUnavailable,
         RequestGroupRecovery, Tick, Restart, vars

\* An aborted stop stays requested.
LEMMA StopsRequestedStep ==
  ASSUME TypeOK, StopsRequested, [Next]_vars
  PROVE  StopsRequested'
<1> SUFFICES ASSUME NEW a \in Attempt, stop'[a].aborted PROVE HasStop(a)'
  BY DEF StopsRequested
<1>1. stop[a] \in RecoveryStop /\ StopChange(a)
  BY NextStops DEF TypeOK
<1>2. HasStop(a) => stop'[a].requested = stop[a].requested
  BY <1>1, Zenon DEF StopChange, RecoveryStop
<1>3. CASE HasStop(a)
  BY <1>2, <1>3 DEF HasStop
<1>4. CASE ~HasStop(a)
  BY <1>1, <1>4 DEF StopChange, StopsRequested
<1> QED
  BY <1>3, <1>4

\* Cancellation overrides a recovery purpose for good (request_cancellation): an aborted
\* round gains no replacement, an aborted stop no release, and neither is un-aborted.
THEOREM AbortsAreFinal == Spec => AbortIsFinal
<1> DEFINE A == /\ \A i \in DOMAIN rounds : rounds[i].aborted =>
                     rounds'[i].aborted /\ rounds'[i].fresh = rounds[i].fresh
                /\ \A a \in Attempt : stop[a].aborted =>
                     stop'[a].aborted /\ stop'[a].released = stop[a].released
<1>1. Init => StopsRequested
  BY DEF Init, StopsRequested, NoStop
<1>2. ASSUME TypeOK, StopsRequested, [Next]_vars PROVE A
  <2>1. ASSUME NEW i \in DOMAIN rounds, rounds[i].aborted
        PROVE  rounds'[i].aborted /\ rounds'[i].fresh = rounds[i].fresh
    <3>1. Kept(rounds[i], rounds'[i])
      BY <1>2, NextRounds DEF RoundsKept
    <3> QED
      BY <2>1, <3>1 DEF Kept, Disposition
  <2>2. ASSUME NEW a \in Attempt, stop[a].aborted
        PROVE  stop'[a].aborted /\ stop'[a].released = stop[a].released
    <3>1. stop[a] \in RecoveryStop /\ StopChange(a) /\ HasStop(a)
      BY <1>2, <2>2, NextStops DEF TypeOK, StopsRequested
    <3> QED
      BY <2>2, <3>1, Zenon DEF StopChange, RecoveryStop
  <2> QED
    BY <2>1, <2>2
<1>3. TypeOK /\ StopsRequested /\ [Next]_vars => StopsRequested' /\ [A]_vars
  BY <1>2, StopsRequestedStep
<1> QED
  BY <1>1, <1>3, TypeCorrect, PTL DEF Spec, AbortIsFinal

-----------------------------------------------------------------------------
(***************************************************************************)
(* Execution contexts                                                      *)
(***************************************************************************)

\* What the validity of older records rests on: contexts, cancellation intents and owners
\* stay, terminal work stays terminal and a reported attempt stays reported.
Persists ==
    /\ known \subseteq known' /\ cancels \subseteq cancels'
    /\ \A a \in known : owner'[a] = owner[a]
    /\ \A a \in Attempt : /\ status[a] \in Terminal => status'[a] = status[a]
                          /\ status[a] # "None" => status'[a] # "None"
                          /\ status[a] \notin {"None", "Dispatched"} =>
                                status'[a] \notin {"None", "Dispatched"}

\* What a preparation adds: one attempt of each slot it is for (prepare_dispatch).
LEMMA PreparedAttempts ==
  ASSUME NEW S \in SUBSET Slots, NEW g \in [S -> 1 .. MaxGen], NEW n, Prepare(S, g, n)
  PROVE  \A a \in known' \ known : a \in Attempt /\ a[1] \in S /\ a[2] = g[a[1]]
<1> SUFFICES ASSUME NEW a \in known' \ known
             PROVE  a \in Attempt /\ a[1] \in S /\ a[2] = g[a[1]]
  OBVIOUS
<1>1. known' = known \cup {<<s, g[s]>> : s \in S}
  BY Zenon DEF Prepare
<1>2. PICK s \in S : a = <<s, g[s]>>
  BY <1>1
<1> QED
  BY <1>2 DEF Attempt

\* A prepared attempt had no context.
LEMMA PreparedIsNew ==
  ASSUME NEW S \in SUBSET Slots, NEW g \in [S -> 1 .. MaxGen], NEW n, Prepare(S, g, n),
         NEW a \in Attempt, a[1] \in S, a[2] = g[a[1]]
  PROVE  a \notin known /\ status[a] = "None" /\ a \in known'
<1>1. a = <<a[1], g[a[1]]>>
  BY DEF Attempt
<1> QED
  BY <1>1 DEF Prepare, Allocates

\* The owner of a context never changes (prepare_dispatch, observe_execution).
LEMMA OwnerStays ==
  ASSUME TypeOK, ContextsValid, [Next]_vars, NEW a \in known
  PROVE  owner'[a] = owner[a]
<1>1. a \in Attempt /\ owner[a] \in Nodes /\ owner \in [Attempt -> Nodes \cup {NoNode}]
  BY DEF TypeOK, ContextsValid
<1>2. ASSUME NEW S \in SUBSET Slots, NEW g \in [S -> 1 .. MaxGen], NEW n, Prepare(S, g, n)
      PROVE  owner'[a] = owner[a]
  <2>1. ~(a[1] \in S /\ a[2] = g[a[1]])
    BY <1>1, <1>2, PreparedIsNew, SMTT(30)
  <2> QED
    BY <1>1, <1>2, <2>1, Zenon DEF Prepare
<1>3. ASSUME NEW s \in Slots, NEW n \in Nodes, Dispatch(s, n) PROVE owner'[a] = owner[a]
  <2>1. PICK g \in 1 .. MaxGen : Prepare({s}, [x \in {s} |-> g], [x \in {s} |-> n])
    BY <1>3, Zenon DEF Dispatch
  <2>2. {s} \in SUBSET Slots /\ [x \in {s} |-> g] \in [{s} -> 1 .. MaxGen]
    OBVIOUS
  <2> QED
    BY <1>2, <2>1, <2>2
<1>4. ASSUME PrepareContinuation PROVE owner'[a] = owner[a]
  <2> DEFINE S == {b[1] : b \in {b \in rounds[Len(rounds)].members : status[b] = "Cancelled"}}
  <2>1. PICK g \in [S -> 1 .. MaxGen] : Prepare(S, g, [s \in S |-> owner[Current(s)]])
    BY <1>4, Zenon DEF PrepareContinuation
  <2>2. S \in SUBSET Slots
    BY <1>4, ContinuationOwners DEF Attempt
  <2> HIDE DEF S
  <2> QED
    BY <1>2, <2>1, <2>2
<1>5. ASSUME NEW b \in known \cup Early, NEW n \in Nodes, NEW q \in 0 .. MaxSeq,
             NEW st \in Reports, NEW t \in Time, ObserveExecution(b, n, q, st, t)
      PROVE  owner'[a] = owner[a]
  BY <1>1, <1>5, SlotAssumption, Zenon DEF ObserveExecution, AcceptsFact
<1> QED
  BY <1>3, <1>4, <1>5, Zenon
     DEF Next, Defer, DispatchReceipt, RejectedCancelReceipt, NodeUnavailable,
         RequestCancellation, RequestRecoveryStop, MarkRecoveryRelease,
         RequestGroupRecovery, Tick, Restart, vars

\* Cancellation intents are never dropped.
LEMMA CancelsGrow ==
  ASSUME [Next]_vars
  PROVE  cancels \subseteq cancels'
<1>1. ASSUME NEW S, NEW g, NEW n, Prepare(S, g, n) PROVE cancels' = cancels
  BY <1>1, Zenon DEF Prepare
<1>2. PrepareContinuation => cancels' = cancels
  BY <1>1 DEF PrepareContinuation
<1>3. ASSUME NEW s, NEW n, Dispatch(s, n) PROVE cancels' = cancels
  BY <1>1, <1>3 DEF Dispatch
<1>4. ASSUME NEW b, NEW n, NEW q, NEW st, NEW t, ObserveExecution(b, n, q, st, t)
      PROVE  cancels' = cancels
  BY <1>4, Zenon DEF ObserveExecution
<1>5. ASSUME NEW d, NEW k, RequestGroupRecovery(d, k) PROVE cancels \subseteq cancels'
  BY <1>5, Zenon DEF RequestGroupRecovery
<1>6. ASSUME NEW a, NEW d, NEW k, RequestRecoveryStop(a, d, k) PROVE cancels \subseteq cancels'
  BY <1>6 DEF RequestRecoveryStop
<1>7. ASSUME NEW a, RequestCancellation({a}) PROVE cancels \subseteq cancels'
  BY <1>7 DEF RequestCancellation
<1> QED
  BY <1>2, <1>3, <1>4, <1>5, <1>6, <1>7, Zenon
     DEF Next, Defer, DispatchReceipt, RejectedCancelReceipt, NodeUnavailable,
         MarkRecoveryRelease, Tick, Restart, vars

\* Every step leaves that standing.
LEMMA NextPersists ==
  ASSUME TypeOK, ContextsValid, [Next]_vars
  PROVE  Persists
<1>1. StatusChange /\ known \subseteq known' /\ cancels \subseteq cancels'
  BY NextStatus, KnownGrows, CancelsGrow
<1>2. \A a \in known : owner'[a] = owner[a]
  BY OwnerStays
<1>3. \A a \in Attempt : /\ status[a] \in Terminal => status'[a] = status[a]
                         /\ status[a] # "None" => status'[a] # "None"
                         /\ status[a] \notin {"None", "Dispatched"} =>
                               status'[a] \notin {"None", "Dispatched"}
  BY <1>1, Zenon DEF StatusChange, Terminal, Live, Reported
<1> QED
  BY <1>1, <1>2, <1>3 DEF Persists

\* A prepared attempt has a context with an owner and a status, and becomes current.
LEMMA PrepareContexts ==
  ASSUME TypeOK, ContextsValid, NEW S \in SUBSET Slots, NEW g \in [S -> 1 .. MaxGen], NEW n,
         \A s \in S : n[s] \in Nodes, Prepare(S, g, n)
  PROVE  /\ \A a \in known' : owner'[a] \in Nodes
         /\ \A s \in Slots : active'[s] # 0 => Current(s)' \in known'
<1>1. \A a \in known' : a \in known \/ (a[1] \in S /\ a[2] = g[a[1]])
  BY PreparedAttempts, Zenon
<1>2. known' \subseteq Attempt
  BY PreparedAttempts, Zenon DEF TypeOK
<1>3. \A a \in known' : owner'[a] \in Nodes
  BY <1>1, <1>2, Zenon DEF Prepare, ContextsValid
<1>4. \A s \in Slots : active'[s] # 0 => Current(s)' \in known'
  BY Zenon DEF Prepare, ContextsValid, Current
<1> QED
  BY <1>3, <1>4

\* Contexts stay owned and current attempts stay known.
LEMMA NextContexts ==
  ASSUME TypeOK, ContextsValid, [Next]_vars
  PROVE  /\ \A a \in known' : owner'[a] \in Nodes
         /\ \A s \in Slots : active'[s] # 0 => Current(s)' \in known'
<1> DEFINE C == /\ \A a \in known' : owner'[a] \in Nodes
                /\ \A s \in Slots : active'[s] # 0 => Current(s)' \in known'
<1>1. ASSUME NEW s \in Slots, NEW n \in Nodes, Dispatch(s, n) PROVE C
  <2>1. PICK g \in 1 .. MaxGen : Prepare({s}, [x \in {s} |-> g], [x \in {s} |-> n])
    BY <1>1, Zenon DEF Dispatch
  <2>2. {s} \in SUBSET Slots /\ [x \in {s} |-> g] \in [{s} -> 1 .. MaxGen]
    OBVIOUS
  <2>3. \A x \in {s} : [y \in {s} |-> n][x] \in Nodes
    OBVIOUS
  <2> QED
    BY <2>1, <2>2, <2>3, PrepareContexts, Zenon
<1>2. ASSUME PrepareContinuation PROVE C
  <2> DEFINE S == {b[1] : b \in {b \in rounds[Len(rounds)].members : status[b] = "Cancelled"}}
  <2>1. PICK g \in [S -> 1 .. MaxGen] : Prepare(S, g, [s \in S |-> owner[Current(s)]])
    BY <1>2, Zenon DEF PrepareContinuation
  <2>2. \A b \in rounds[Len(rounds)].members : IsCurrent(b)
    BY <1>2 DEF PrepareContinuation, Disposition, OpenDisposition
  <2>3. S \in SUBSET Slots /\ \A s \in S : owner[Current(s)] \in Nodes
    BY <1>2, <2>2, ContinuationOwners DEF Attempt, ContextsValid, IsCurrent
  <2> HIDE DEF S
  <2> QED
    BY <2>1, <2>3, PrepareContexts
<1>3. ASSUME UNCHANGED <<known, active>> PROVE C
  BY <1>3, OwnerStays DEF ContextsValid, Current
<1>4. ASSUME NEW b, NEW n, NEW q, NEW st, NEW t, ObserveExecution(b, n, q, st, t)
      PROVE  UNCHANGED <<known, active>>
  BY <1>4, Zenon DEF ObserveExecution
<1> QED
  BY <1>1, <1>2, <1>3, <1>4, Zenon
     DEF Next, Defer, DispatchReceipt, RejectedCancelReceipt, NodeUnavailable,
         RequestCancellation, RequestRecoveryStop, MarkRecoveryRelease,
         RequestGroupRecovery, Tick, Restart, vars

\* Cancellation intents only ever name contexts (request_cancellation, request_recovery_stop,
\* request_group_recovery_stop).
LEMMA CancelsKnown ==
  ASSUME TypeOK, ContextsValid, [Next]_vars
  PROVE  cancels' \subseteq known'
<1>1. cancels \subseteq known /\ known \subseteq known'
  BY KnownGrows DEF ContextsValid
<1>2. ASSUME cancels' = cancels PROVE cancels' \subseteq known'
  BY <1>1, <1>2
<1>3. ASSUME NEW S, NEW g, NEW n, Prepare(S, g, n) PROVE cancels' = cancels
  BY <1>3, Zenon DEF Prepare
<1>4. PrepareContinuation => cancels' = cancels
  BY <1>3 DEF PrepareContinuation
<1>5. ASSUME NEW s, NEW n, Dispatch(s, n) PROVE cancels' = cancels
  BY <1>3, <1>5 DEF Dispatch
<1>6. ASSUME NEW b, NEW n, NEW q, NEW st, NEW t, ObserveExecution(b, n, q, st, t)
      PROVE  cancels' = cancels
  BY <1>6, Zenon DEF ObserveExecution
<1>7. ASSUME NEW d, NEW k, RequestGroupRecovery(d, k) PROVE cancels' \subseteq known'
  BY <1>1, <1>7, Zenon DEF RequestGroupRecovery, CurrentAttempts
<1>8. ASSUME NEW a, NEW d, NEW k, RequestRecoveryStop(a, d, k) PROVE cancels' \subseteq known'
  BY <1>1, <1>8, Zenon DEF RequestRecoveryStop, Stoppable, IsCurrent
<1>9. ASSUME NEW a, RequestCancellation({a}) PROVE cancels' \subseteq known'
  BY <1>1, <1>9 DEF RequestCancellation
<1> QED
  BY <1>2, <1>4, <1>5, <1>6, <1>7, <1>8, <1>9, Zenon
     DEF Next, Defer, DispatchReceipt, RejectedCancelReceipt, NodeUnavailable,
         MarkRecoveryRelease, Tick, Restart, vars

\* A context has a status; a sequence or a terminal receive time comes with one.
LEMMA EvidenceKnown ==
  ASSUME TypeOK, ContextsValid, [Next]_vars
  PROVE  /\ \A a \in known' : status'[a] # "None"
         /\ \A a \in Attempt : seq'[a] # -1 => status'[a] # "None"
         /\ \A a \in Attempt : termAt'[a] # NoTime => a \in known' /\ status'[a] \in Terminal
<1> DEFINE E == /\ \A a \in known' : status'[a] # "None"
                /\ \A a \in Attempt : seq'[a] # -1 => status'[a] # "None"
                /\ \A a \in Attempt : termAt'[a] # NoTime => a \in known' /\ status'[a] \in Terminal
<1>1. Persists
  BY NextPersists
<1>2. ASSUME NEW b \in known \cup Early, NEW n \in Nodes, NEW q \in 0 .. MaxSeq,
             NEW st \in Reports, NEW t \in Time, ObserveExecution(b, n, q, st, t)
      PROVE  E
  <2>1. b \in Attempt /\ st # "None"
    BY FactAssumption DEF TypeOK, Reported, Terminal
  <2>2. known' = known /\ status' = [status EXCEPT ![b] = st] /\ seq' = [seq EXCEPT ![b] = q]
    BY <1>2, Zenon DEF ObserveExecution
  <2>3. known \subseteq Attempt /\ status \in [Attempt -> Live \cup Terminal \cup {"None"}]
        /\ seq \in [Attempt -> -1 .. MaxSeq] /\ termAt \in [Attempt -> Time \cup {NoTime}]
    BY DEF TypeOK
  <2>4. \A a \in known' : status'[a] # "None"
    BY <2>1, <2>2, <2>3, Zenon DEF ContextsValid
  <2>5. \A a \in Attempt : seq'[a] # -1 => status'[a] # "None"
    BY <2>1, <2>2, <2>3, Zenon DEF ContextsValid
  <2>6. \A a \in Attempt : termAt'[a] # NoTime => a \in known' /\ status'[a] \in Terminal
    <3>1. CASE termAt' = termAt
      BY <1>1, <3>1, Zenon DEF ContextsValid, Persists
    <3>2. CASE st \in Terminal /\ b \in known /\ termAt' = [termAt EXCEPT ![b] = t]
      <4>1. \A a \in Attempt : a # b => termAt'[a] = termAt[a]
        BY <2>3, <3>2
      <4>2. b \in known' /\ status'[b] \in Terminal
        BY <2>1, <2>2, <2>3, <3>2
      <4> QED
        BY <1>1, <4>1, <4>2 DEF ContextsValid, Persists
    <3> QED
      BY <1>2, <3>1, <3>2, Zenon DEF ObserveExecution
  <2> QED
    BY <2>4, <2>5, <2>6
<1>3. ASSUME UNCHANGED <<seq, termAt>>, \A a \in known' \ known : status'[a] # "None" PROVE E
  BY <1>1, <1>3, Zenon DEF ContextsValid, Persists, TypeOK
<1>4. ASSUME NEW S \in SUBSET Slots, NEW g \in [S -> 1 .. MaxGen], NEW n, Prepare(S, g, n) PROVE E
  <2>1. \A a \in known' \ known : a \in Attempt /\ a[1] \in S /\ a[2] = g[a[1]]
    BY <1>4, PreparedAttempts, Zenon
  <2>2. \A a \in known' \ known : status'[a] = "Dispatched"
    BY <1>4, <2>1, Zenon DEF Prepare
  <2>3. UNCHANGED <<seq, termAt>>
    BY <1>4, Zenon DEF Prepare
  <2> QED
    BY <1>3, <2>2, <2>3, Zenon
<1>5. ASSUME NEW s \in Slots, NEW n \in Nodes, Dispatch(s, n) PROVE E
  <2>1. PICK g \in 1 .. MaxGen : Prepare({s}, [x \in {s} |-> g], [x \in {s} |-> n])
    BY <1>5, Zenon DEF Dispatch
  <2>2. {s} \in SUBSET Slots /\ [x \in {s} |-> g] \in [{s} -> 1 .. MaxGen]
    OBVIOUS
  <2> HIDE DEF E
  <2> QED
    BY <1>4, <2>1, <2>2
<1>6. ASSUME PrepareContinuation PROVE E
  <2> DEFINE S == {b[1] : b \in {b \in rounds[Len(rounds)].members : status[b] = "Cancelled"}}
  <2>1. PICK g \in [S -> 1 .. MaxGen] : Prepare(S, g, [s \in S |-> owner[Current(s)]])
    BY <1>6, Zenon DEF PrepareContinuation
  <2>2. S \in SUBSET Slots
    BY <1>6, ContinuationOwners DEF Attempt
  <2> HIDE DEF S, E
  <2> QED
    BY <1>4, <2>1, <2>2
<1>7. ASSUME UNCHANGED <<known, seq, termAt>> PROVE E
  BY <1>3, <1>7
<1> HIDE DEF E
<1>8. E
  BY <1>2, <1>5, <1>6, <1>7, Zenon
     DEF Next, Defer, DispatchReceipt, RejectedCancelReceipt, NodeUnavailable,
         RequestCancellation, RequestRecoveryStop, MarkRecoveryRelease,
         RequestGroupRecovery, Tick, Restart, vars
<1> QED
  BY <1>8 DEF E

\* A requested round is of the current attempts, and has admitted none
\* (request_group_recovery).
LEMMA RequestedRound ==
  ASSUME NEW d, NEW k, RequestGroupRecovery(d, k)
  PROVE  \E r : /\ rounds' = Append(rounds, r) /\ r.members = CurrentAttempts
               /\ r.admitted = [a \in Attempt |-> NoTime]
<1> DEFINE kept == {a \in CurrentAttempts : status[a] = "Completed"}
           r == [members |-> CurrentAttempts, preserved |-> kept, requested |-> now,
                 deadline |-> now + d, limit |-> k,
                 confirmed |-> [a \in Attempt |-> NoTime], fresh |-> {}, prepared |-> NoTime,
                 admitted |-> [a \in Attempt |-> NoTime], aborted |-> FALSE]
<1>1. rounds' = Append(rounds, r)
  BY Zenon DEF RequestGroupRecovery
<1>2. r.members = CurrentAttempts /\ r.admitted = [a \in Attempt |-> NoTime]
  BY Zenon
<1> QED
  BY <1>1, <1>2, Zenon

\* An admission is recorded with the report that proves it (confirm_group_continuation_admission).
LEMMA AdmissionProved ==
  ASSUME TypeOK, [Next]_vars, NEW i \in DOMAIN rounds', NEW a \in Attempt,
         rounds'[i].admitted[a] # NoTime
  PROVE  \/ i \in DOMAIN rounds /\ rounds[i].admitted[a] # NoTime
         \/ status'[a] \notin {"None", "Dispatched"}
<1> DEFINE D == \/ i \in DOMAIN rounds /\ rounds[i].admitted[a] # NoTime
                \/ status'[a] \notin {"None", "Dispatched"}
<1>1. rounds \in Seq(GroupRound) /\ \A j \in DOMAIN rounds : rounds[j] \in GroupRound
  BY DEF TypeOK
<1>2. ASSUME UNCHANGED rounds PROVE D
  BY <1>2
<1>3. ASSUME NEW b \in known \cup Early, NEW n \in Nodes, NEW q \in 0 .. MaxSeq,
             NEW st \in Reports, NEW t \in Time, ObserveExecution(b, n, q, st, t)
      PROVE  D
  <2>1. b \in Attempt /\ status \in [Attempt -> Live \cup Terminal \cup {"None"}]
    BY FactAssumption DEF TypeOK
  <2>2. i \in DOMAIN rounds /\ rounds'[i] = ConfirmRound(rounds[i], b, st, t)
    BY <1>3, Zenon DEF ObserveExecution
  <2>3. rounds'[i].admitted = IF AdmitsReplacement(rounds[i], b, st, t)
                              THEN [rounds[i].admitted EXCEPT ![b] = t] ELSE rounds[i].admitted
    BY <1>1, <2>2 DEF ConfirmRound, GroupRound
  <2>4. rounds[i].admitted \in [Attempt -> Time \cup {NoTime}]
    BY <1>1, <2>2 DEF GroupRound
  <2>5. CASE rounds'[i].admitted[a] = rounds[i].admitted[a]
    BY <2>2, <2>5
  <2>6. CASE a = b /\ AdmitsReplacement(rounds[i], b, st, t)
    <3>1. status'[a] = st
      BY <1>3, <2>1, <2>6, Zenon DEF ObserveExecution
    <3> QED
      BY <2>6, <3>1 DEF AdmitsReplacement, ProvesActivation, Terminal
  <2> QED
    BY <2>3, <2>4, <2>5, <2>6, Zenon
<1>4. ASSUME NEW b \in Attempt, RequestCancellation({b}) PROVE D
  <2>1. i \in DOMAIN rounds
    BY <1>4 DEF RequestCancellation
  <2>2. rounds'[i].admitted = rounds[i].admitted
    BY <1>1, <1>4, <2>1 DEF RequestCancellation, GroupRound
  <2> QED
    BY <2>1, <2>2
<1>5. ASSUME NEW d \in Timeouts, NEW k \in Limits, RequestGroupRecovery(d, k) PROVE D
  <2>1. PICK r : rounds' = Append(rounds, r) /\ r.admitted = [x \in Attempt |-> NoTime]
    BY <1>5, RequestedRound, Zenon
  <2>2. CASE i \in DOMAIN rounds
    BY <1>1, <2>1, <2>2
  <2>3. CASE i \notin DOMAIN rounds
    BY <1>1, <2>1, <2>3
  <2> QED
    BY <2>2, <2>3
<1>6. ASSUME PrepareContinuation PROVE D
  <2> DEFINE last == Len(rounds)
  <2>1. PICK F : rounds' = [rounds EXCEPT ![last].fresh = F, ![last].prepared = now]
    BY <1>6, Zenon DEF PrepareContinuation
  <2>2. last \in DOMAIN rounds /\ i \in DOMAIN rounds
    BY <1>1, <1>6, <2>1 DEF PrepareContinuation
  <2>3. rounds' = [rounds EXCEPT ![last] = [rounds[last] EXCEPT !.fresh = F, !.prepared = now]]
    BY <1>1, <2>1, <2>2, Zenon
  <2>4. [rounds[last] EXCEPT !.fresh = F, !.prepared = now].admitted = rounds[last].admitted
    BY <1>1, <2>2 DEF GroupRound
  <2> HIDE DEF last
  <2>5. rounds'[i].admitted = rounds[i].admitted
    BY <1>1, <2>2, <2>3, <2>4
  <2> QED
    BY <2>2, <2>5
<1> QED
  BY <1>2, <1>3, <1>4, <1>5, <1>6, Zenon
     DEF Next, Dispatch, Defer, DispatchReceipt, RejectedCancelReceipt, NodeUnavailable,
         RequestRecoveryStop, MarkRecoveryRelease, Tick, Restart, vars

\* What restore demands of the execution contexts holds after every step (validate_checkpoint).
LEMMA ContextsStep ==
  ASSUME TypeOK, ContextsValid, [Next]_vars
  PROVE  ContextsValid'
<1>1. cancels' \subseteq known' /\ \A a \in known' : owner'[a] \in Nodes
  BY CancelsKnown, NextContexts
<1>2. \A s \in Slots : (active[s] # 0 => Current(s) \in known)'
  BY NextContexts
<1>3. /\ \A a \in known' : status'[a] # "None"
      /\ \A a \in Attempt : seq'[a] # -1 => status'[a] # "None"
      /\ \A a \in Attempt : termAt'[a] # NoTime => a \in known' /\ status'[a] \in Terminal
  BY EvidenceKnown
<1>4. ASSUME NEW i \in DOMAIN rounds', NEW a \in Attempt, rounds'[i].admitted[a] # NoTime
      PROVE  status'[a] \notin {"None", "Dispatched"}
  <2>1. CASE i \in DOMAIN rounds /\ rounds[i].admitted[a] # NoTime
    BY <2>1, NextPersists, Zenon DEF ContextsValid, Persists
  <2> QED
    BY <1>4, <2>1, AdmissionProved
<1> QED
  BY <1>1, <1>2, <1>3, <1>4, Zenon DEF ContextsValid

-----------------------------------------------------------------------------
(***************************************************************************)
(* Task results                                                            *)
(***************************************************************************)

\* A round's membership does not reach attempts that had stopped before: an attempt that was
\* Cancelled and that no round preserved is preserved by no later round either.
LEMMA NotPreservedLater ==
  ASSUME TypeOK, [Next]_vars, NEW a \in Attempt, status[a] = "Cancelled", ~PreservesCancelled(a)
  PROVE  ~PreservesCancelled(a)'
<1>1. /\ rounds \in Seq(GroupRound) /\ rounds' \in Seq(GroupRound)
      /\ Len(rounds) \in Nat /\ Len(rounds') \in Nat
      /\ DOMAIN rounds = 1 .. Len(rounds) /\ DOMAIN rounds' = 1 .. Len(rounds')
  BY RoundsStep DEF TypeOK
<1>2. RoundsKept /\ \A i \in DOMAIN rounds : Kept(rounds[i], rounds'[i])
  BY NextRounds DEF RoundsKept
<1>3. Len(rounds) <= Len(rounds')
  BY <1>1, <1>2 DEF RoundsKept
<1>4. \A i \in DOMAIN rounds :
        /\ rounds'[i].members = rounds[i].members /\ rounds[i].fresh \subseteq rounds'[i].fresh
        /\ rounds[i].aborted => rounds'[i].aborted
  <2> SUFFICES ASSUME NEW i \in DOMAIN rounds
               PROVE  /\ rounds'[i].members = rounds[i].members
                      /\ rounds[i].fresh \subseteq rounds'[i].fresh
                      /\ rounds[i].aborted => rounds'[i].aborted
    OBVIOUS
  <2>1. Disposition(rounds[i]) = "StopConfirmed" => rounds[i].fresh = {}
    BY DEF Disposition, OpenDisposition
  <2> QED
    BY <1>2, <2>1 DEF Kept
<1>5. ASSUME NEW i \in DOMAIN rounds', i \notin DOMAIN rounds PROVE a \notin rounds'[i].members
  <2>1. PICK d \in Timeouts, k \in Limits : RequestGroupRecovery(d, k)
    BY <1>1, <1>5, RoundsAdded, Zenon
  <2>2. PICK r : rounds' = Append(rounds, r) /\ r.members = CurrentAttempts
    BY <2>1, RequestedRound, Zenon
  <2>3. a \notin CurrentAttempts
    BY <2>1, Zenon DEF RequestGroupRecovery, Recoverable, Live
  <2>4. rounds'[i] = r
    BY <1>1, <1>5, <2>2
  <2> QED
    BY <2>2, <2>3, <2>4
<1>6. ASSUME NEW i \in DOMAIN rounds', a \in rounds'[i].members, ~rounds'[i].aborted,
             \A j \in i + 1 .. Len(rounds') : a \notin rounds'[j].members \cup rounds'[j].fresh
      PROVE  FALSE
  <2>1. i \in DOMAIN rounds
    BY <1>5, <1>6
  <2>2. a \in rounds[i].members /\ ~rounds[i].aborted
    BY <1>4, <1>6, <2>1
  <2>3. ASSUME NEW j \in i + 1 .. Len(rounds) PROVE a \notin rounds[j].members \cup rounds[j].fresh
    <3>1. j \in DOMAIN rounds /\ j \in i + 1 .. Len(rounds')
      BY <1>1, <1>3, <2>1
    <3> QED
      BY <1>4, <1>6, <3>1
  <2> QED
    BY <2>1, <2>2, <2>3 DEF PreservesCancelled
<1> QED
  BY <1>6, Zenon DEF PreservesCancelled

\* What decides the result of a Task: its roles all have a current attempt that ended and is
\* not paused.
Paused(s) == /\ status[Current(s)] = "Cancelled"
             /\ \/ HasStop(Current(s)) /\ ~stop[Current(s)].aborted
                \/ PreservesCancelled(Current(s))

Ended(s) == active[s] # 0 /\ status[Current(s)] \notin Live /\ ~Paused(s)

\* task_execution_result in those terms.
LEMMA ResultMeans ==
  ASSUME NEW t
  PROVE  TaskResult(t) =
           IF \E s \in Slots : TaskOf[s] = t /\ ~Ended(s) THEN "None"
           ELSE IF \E s \in Slots : TaskOf[s] = t /\ status[Current(s)] # "Completed" THEN "Failed"
           ELSE "Completed"
  BY Zenon DEF TaskResult, Ended, Paused

\* The same in the state after a step.
LEMMA ResultMeansPrime ==
  ASSUME NEW t
  PROVE  TaskResult(t)' =
           IF \E s \in Slots : TaskOf[s] = t /\ ~Ended(s)' THEN "None"
           ELSE IF \E s \in Slots : TaskOf[s] = t /\ status'[Current(s)'] # "Completed" THEN "Failed"
           ELSE "Completed"
  BY Zenon DEF TaskResult, Ended, Paused

\* A role whose work ended stays ended with the same status until it gets a fresh attempt.
LEMMA EndedStays ==
  ASSUME TypeOK, ContextsValid, [Next]_vars, NEW s \in Slots, Ended(s), active'[s] = active[s]
  PROVE  Ended(s)' /\ status'[Current(s)'] = status[Current(s)]
<1>1. Current(s) \in known /\ Current(s) \in Attempt /\ Current(s)' = Current(s)
  BY Zenon DEF ContextsValid, Ended, Current, TypeOK
<1>2. PICK a \in Attempt : a = Current(s)
  BY <1>1
<1>3. status[a] \in Terminal
  BY <1>1, <1>2 DEF Ended, ContextsValid, TypeOK
<1>4. status'[a] = status[a]
  BY <1>3, TerminalStays
<1>5. ASSUME status[a] = "Cancelled"
      PROVE  ~(HasStop(a)' /\ ~stop'[a].aborted) /\ ~PreservesCancelled(a)'
  <2>1. ~(HasStop(a) /\ ~stop[a].aborted) /\ ~PreservesCancelled(a)
    BY <1>2, <1>5, Zenon DEF Ended, Paused
  <2>2. ~PreservesCancelled(a)'
    BY <1>5, <2>1, NotPreservedLater
  <2>3. stop[a] \in RecoveryStop /\ StopChange(a)
    BY NextStops, SMTT(30) DEF TypeOK
  <2>4. status[a] \notin Live
    BY <1>5 DEF Live
  <2>5. ~(HasStop(a)' /\ ~stop'[a].aborted)
    BY <2>1, <2>3, <2>4, Zenon DEF StopChange, HasStop, RecoveryStop
  <2> QED
    BY <2>2, <2>5
<1>6. Current(s)' = a /\ active'[s] # 0 /\ status'[a] \notin Live
  BY <1>1, <1>2, <1>3, <1>4, Zenon DEF Ended, Live, Terminal
<1>7. ~Paused(s)'
  BY <1>4, <1>5, <1>6 DEF Paused, HasStop, PreservesCancelled
<1> QED
  BY <1>2, <1>4, <1>6, <1>7 DEF Ended

\* A Task result, once reported, only changes when a fresh attempt of the Task is prepared
\* (task_execution_result): no later stop, round, fact or restart turns it back.
THEOREM TaskResultsStable == Spec => TaskResultStable
<1> DEFINE A == \A t \in Tasks : TaskResult(t) # "None" =>
                  \/ TaskResult(t)' = TaskResult(t)
                  \/ \E s \in Slots : TaskOf[s] = t /\ active'[s] # active[s]
<1>1. ASSUME TypeOK, ContextsValid, [Next]_vars PROVE A
  <2> SUFFICES ASSUME NEW t \in Tasks, TaskResult(t) # "None",
                      \A s \in Slots : TaskOf[s] = t => active'[s] = active[s]
               PROVE  TaskResult(t)' = TaskResult(t)
    OBVIOUS
  <2>1. \A s \in Slots : TaskOf[s] = t => Ended(s)
    BY ResultMeans
  <2>2. \A s \in Slots : TaskOf[s] = t => Ended(s)' /\ status'[Current(s)'] = status[Current(s)]
    BY <1>1, <2>1, EndedStays
  <2> QED
    BY <2>1, <2>2, ResultMeans, ResultMeansPrime, Zenon
<1>2. Init => ContextsValid
  <2> SUFFICES ASSUME Init PROVE ContextsValid
    OBVIOUS
  <2>1. DOMAIN rounds = {}
    BY DEF Init
  <2>2. /\ cancels = {} /\ known = {}
        /\ \A s \in Slots : active[s] = 0
        /\ \A a \in Attempt : seq[a] = -1 /\ termAt[a] = NoTime
    BY DEF Init
  <2> QED
    BY <2>1, <2>2, Zenon DEF ContextsValid
<1>3. TypeOK /\ ContextsValid /\ [Next]_vars => ContextsValid' /\ [A]_vars
  BY <1>1, ContextsStep, Zenon
<1> QED
  BY <1>2, <1>3, TypeCorrect, PTL DEF Spec, TaskResultStable

=============================================================================

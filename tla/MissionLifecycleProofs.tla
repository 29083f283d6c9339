-------------------------- MODULE MissionLifecycleProofs --------------------------
(***************************************************************************)
(* What every candidate of a Mission satisfies between two stages of a     *)
(* transaction, lemmas about the walk over the Tasks and about single      *)
(* lifecycle calls, and what follows: every stage leaves the candidate     *)
(* within Reached, so every transaction preserves the invariant, and the   *)
(* safety properties of MissionLifecycle hold for any Task graph, any      *)
(* answers of the surroundings and any order of facts and requests.        *)
(***************************************************************************)
EXTENDS MissionLifecycle, TLAPS, WellFoundedInduction

\* The inductive invariant of a candidate no stage has failed on.
Sound(d) ==
    /\ \A t \in d.bound : d.task[t] \in {"Ready", "Active", "Awaiting"}
    /\ \A t \in Tasks : d.att[t] \in Live => t \in d.bound /\ d.mission \notin MissionEnd
    /\ d.mission \in MissionEnd <=> d.group = "Released"
    /\ d.group = "Released" => d.bound = {} /\ d.hold = "None"
    /\ \A t \in Tasks : d.task[t] # "Pending" => \A s \in Deps[t] : d.task[s] = "Completed"
    /\ d.mission = "Completed" <=> \A t \in Tasks : d.task[t] = "Completed"
    /\ \A t \in Tasks : d.task[t] = "Completed" \/ d.mission \in MissionEnd => ~LeaseBlocks(d, t)
    /\ d.mission = "Cancelling" => d.group = "Blocked"
    /\ d.group = "Bound" => \A t \in Tasks : d.task[t] \in {"Pending", "Ready"}
    /\ \A t \in Tasks : d.task[t] = "Awaiting" => d.att[t] \notin Live

\* A cancelled Mission that was turned back to Running.
LostCancel(d) == d.mission = "Running" /\ d.group = "Blocked"

\* What StopBeforeRelease says of the state b before a transaction and its candidate e; a
\* stop that was open is not forgotten.
Retains(b, e) ==
    /\ \A s \in Tasks : b.stop[s] \in Unproved => e.stop[s] # "None"
    /\ \A t \in b.bound \ e.bound :
        /\ e.stop[t] \notin Unproved
        /\ \A s \in Tasks : b.stop[s] \in Unproved => e.stop[s] \notin Unproved

\* The stages of a batch follow the pending cancellations: a cancelling Mission they meet
\* cannot be finalized yet, and none of them blocks the Group.
Follows(b, e) ==
    /\ b.mission = "Cancelling" /\ e.mission \notin MissionEnd => ~Cancellable(e)
    /\ e.group = "Blocked" => b.group = "Blocked"

\* The candidates a transaction on b may be left with; strict for a batch, whose errors stop
\* the Controller, and not for a request, which is refused on an error.
Reached(b, strict) ==
    {e \in Candidates :
        IF e.err THEN strict => LostCancel(b)
        ELSE Sound(e) /\ Retains(b, e) /\ (strict => Follows(b, e))}

-----------------------------------------------------------------------------
(* Walks over the Tasks *)

\* A set of naturals that is not empty has a least element.
LEMMA LeastNat ==
    ASSUME NEW T \in SUBSET Nat, T # {}
    PROVE  \E n \in T : \A k \in T : n <= k
<1> DEFINE R == OpToRel(<, Nat)
<1>1. IsWellFoundedOn(R, Nat) BY NatLessThanWellFounded, Zenon
<1> HIDE DEF R
<1>2. PICK n \in T : \A k \in T : ~(<<k, n>> \in R) BY <1>1, WFMin, Zenon
<1>3. \A k \in T : <<k, n>> \in R <=> k < n BY DEF R, OpToRel
<1>4. \A k \in T : ~(k < n) BY <1>2, <1>3, Zenon
<1> QED BY <1>4

\* Induction up to N, as a statement about a set.
LEMMA UpTo ==
    ASSUME NEW N \in Nat, NEW T, 0 \in T, \A n \in 0 .. N - 1 : n \in T => n + 1 \in T
    PROVE  \A n \in 0 .. N : n \in T
<1> SUFFICES ASSUME NEW n \in 0 .. N, n \notin T PROVE FALSE OBVIOUS
<1> DEFINE B == {i \in 0 .. N : i \notin T}
<1>1. B \in SUBSET Nat /\ B # {} OBVIOUS
<1> HIDE DEF B
<1>2. PICK k \in B : \A j \in B : k <= j BY <1>1, LeastNat
<1>3. k \in 0 .. N /\ k \notin T BY <1>2 DEF B
<1>4. k # 0 /\ k - 1 \in 0 .. N - 1 BY <1>3
<1>5. k - 1 \notin B BY <1>2, <1>4, <1>3
<1>6. k - 1 \in T BY <1>5, <1>4 DEF B
<1> QED BY <1>3, <1>4, <1>6

Confined(N, S, G) == \A i \in 1 .. N : \A e \in S[i - 1] : G[<<e, i>>] \in S[i]

Solves(g, N, S, G, d) ==
    /\ g[0] = d
    /\ \A i \in 1 .. N : g[i] = G[<<g[i - 1], i>>]
    /\ \A i \in 0 .. N : g[i] \in S[i]

\* A recursion that stays within the sets S[0], S[1], ... has a solution.
LEMMA Recursion ==
    ASSUME NEW N \in Nat, NEW V, NEW S \in [0 .. N -> SUBSET V], NEW G, NEW d \in S[0],
           Confined(N, S, G)
    PROVE  \E g \in [0 .. N -> V] : Solves(g, N, S, G, d)
<1> USE DEF Confined, Solves
<1> DEFINE Good(g, n) == /\ g[0] = d
                         /\ \A i \in 1 .. n : g[i] = G[<<g[i - 1], i>>]
                         /\ \A i \in 0 .. n : g[i] \in S[i]
           T == {n \in 0 .. N : \E g \in [0 .. n -> V] : Good(g, n)}
<1>1. 0 \in T
  <2> DEFINE g == [j \in 0 .. 0 |-> d]
  <2>1. g \in [0 .. 0 -> V] OBVIOUS
  <2>2. Good(g, 0) OBVIOUS
  <2> HIDE DEF g, Good
  <2> QED BY <2>1, <2>2
<1>2. ASSUME NEW n \in 0 .. N - 1, n \in T PROVE n + 1 \in T
  <2>1. PICK g \in [0 .. n -> V] : Good(g, n) BY <1>2
  <2> DEFINE v == G[<<g[n], n + 1>>]
             h == [j \in 0 .. n + 1 |-> IF j = n + 1 THEN v ELSE g[j]]
  <2>2. n \in 0 .. n /\ n + 1 \in 1 .. N /\ (n + 1) - 1 = n /\ n + 1 \in 0 .. N OBVIOUS
  <2>3. v \in S[n + 1] BY <2>1, <2>2
  <2>4. h \in [0 .. n + 1 -> V] BY <2>2, <2>3
  <2>5. Good(h, n + 1)
    <3>1. h[0] = d BY <2>1
    <3>2. ASSUME NEW i \in 1 .. n + 1 PROVE h[i] = G[<<h[i - 1], i>>]
      <4>1. CASE i = n + 1
        <5>1. h[i] = v /\ h[i - 1] = g[n] BY <4>1, <2>2
        <5> QED BY <5>1, <4>1, Zenon
      <4>2. CASE i # n + 1
        <5>1. i \in 1 .. n /\ i - 1 \in 0 .. n + 1 /\ i - 1 # n + 1 BY <4>2
        <5>2. h[i] = g[i] /\ h[i - 1] = g[i - 1] BY <5>1, <4>2
        <5> QED BY <2>1, <5>1, <5>2
      <4> QED BY <4>1, <4>2
    <3>3. ASSUME NEW i \in 0 .. n + 1 PROVE h[i] \in S[i] BY <2>1, <2>3
    <3> HIDE DEF h
    <3> QED BY <3>1, <3>2, <3>3
  <2> HIDE DEF h, Good
  <2> QED BY <2>2, <2>4, <2>5
<1>3. N \in T
  <2>1. \A n \in 0 .. N - 1 : n \in T => n + 1 \in T BY <1>2, Zenon
  <2> HIDE DEF T
  <2>2. \A n \in 0 .. N : n \in T BY <1>1, <2>1, UpTo, Zenon
  <2> QED BY <2>2
<1> QED BY <1>3

\* Two recursions that start alike and go on alike end alike.
LEMMA SameEnd ==
    ASSUME NEW N \in Nat, NEW f, NEW g, f[0] = g[0],
           \A i \in 1 .. N : f[i - 1] = g[i - 1] => f[i] = g[i]
    PROVE  f[N] = g[N]
<1> DEFINE T == {n \in 0 .. N : f[n] = g[n]}
<1>1. 0 \in T OBVIOUS
<1>2. \A n \in 0 .. N - 1 : n \in T => n + 1 \in T
  <2> SUFFICES ASSUME NEW n \in 0 .. N - 1, n \in T PROVE n + 1 \in T OBVIOUS
  <2>1. n + 1 \in 1 .. N /\ (n + 1) - 1 = n OBVIOUS
  <2> QED BY <2>1
<1> HIDE DEF T
<1>3. \A n \in 0 .. N : n \in T BY <1>1, <1>2, UpTo
<1> QED BY <1>3 DEF T

\* RevokeGroup walks the Tasks with Revoke: what Revoke preserves, it preserves.
LEMMA RevokeWalk ==
    ASSUME NEW S, NEW d \in S, \A e \in S, t \in Tasks : Revoke(e, t) \in S
    PROVE  RevokeGroup(d) \in S
<1> DEFINE N == Len(TaskSeq)
           W == [i \in 0 .. N |-> S]
           G == [x \in S \X (1 .. N) |-> Revoke(x[1], TaskSeq[x[2]])]
           Step(g, i) == IF i = 0 THEN d
                         ELSE CHOOSE r \in {Revoke(e, TaskSeq[i]) : e \in {g[i - 1]}} : TRUE
           f == CHOOSE f : f = [i \in 0 .. N |-> Step(f, i)]
<1>1. N \in Nat /\ \A i \in 1 .. N : TaskSeq[i] \in Tasks BY PlanAssumption
<1>2. \A i \in 1 .. N : i - 1 \in 0 .. N BY <1>1
<1>3. \A i \in 1 .. N : \A e \in W[i - 1] :
        G[<<e, i>>] = Revoke(e, TaskSeq[i]) /\ G[<<e, i>>] \in W[i]
  BY <1>1, <1>2
<1>4. d \in W[0] BY <1>1
<1> HIDE DEF G, W
<1>5. PICK g \in [0 .. N -> S] : Solves(g, N, W, G, d)
  <2>1. Confined(N, W, G) BY <1>3, Zenon DEF Confined
  <2>2. W \in [0 .. N -> SUBSET S] BY DEF W
  <2> HIDE DEF N
  <2> QED BY <1>1, <1>4, <2>1, <2>2, Recursion, Zenon
<1>6. \A g1, i : i # 0 => Step(g1, i) = Revoke(g1[i - 1], TaskSeq[i])
  <2> SUFFICES ASSUME NEW g1, NEW i PROVE
        (CHOOSE r \in {Revoke(e, TaskSeq[i]) : e \in {g1[i - 1]}} : TRUE)
          = Revoke(g1[i - 1], TaskSeq[i])
    OBVIOUS
  <2> QED OBVIOUS
<1>7. g = [i \in 0 .. N |-> Step(g, i)]
  <2>1. \A i \in 0 .. N : g[i] = Step(g, i)
    <3> SUFFICES ASSUME NEW i \in 0 .. N PROVE g[i] = Step(g, i) OBVIOUS
    <3> HIDE DEF Step
    <3>1. CASE i = 0 BY <3>1, <1>5 DEF Step, Solves
    <3>2. CASE i # 0
      <4>1. i \in 1 .. N /\ i - 1 \in 0 .. N BY <3>2, <1>2
      <4>2. g[i] = G[<<g[i - 1], i>>] /\ g[i - 1] \in W[i - 1] BY <4>1, <3>2, <1>5 DEF Solves
      <4>3. G[<<g[i - 1], i>>] = Revoke(g[i - 1], TaskSeq[i]) BY <4>1, <4>2, <1>3
      <4>4. Step(g, i) = Revoke(g[i - 1], TaskSeq[i]) BY <3>2, <1>6
      <4> QED BY <4>2, <4>3, <4>4
    <3> QED BY <3>1, <3>2
  <2> HIDE DEF Step
  <2> QED BY <2>1
<1>8. RevokeGroup(d) = f[N] BY DEF RevokeGroup, Each
<1>9. f = [i \in 0 .. N |-> Step(f, i)] BY <1>7, Zenon
<1> HIDE DEF f
<1>10. f[0] = g[0] BY <1>1, <1>5, <1>9 DEF Solves
<1>11. \A i \in 1 .. N : f[i - 1] = g[i - 1] => f[i] = g[i]
  <2> SUFFICES ASSUME NEW i \in 1 .. N, f[i - 1] = g[i - 1] PROVE f[i] = g[i] OBVIOUS
  <2> HIDE DEF Step
  <2>1. i \in 0 .. N /\ i # 0 BY <1>1
  <2>2. f[i] = Step(f, i) /\ g[i] = Step(g, i) BY <2>1, <1>7, <1>9, Zenon
  <2> QED BY <2>1, <2>2, <1>6, SMTT(30)
<1>12. f[N] = g[N]
  <2> HIDE DEF N
  <2> QED BY <1>1, <1>10, <1>11, SameEnd, Zenon
<1>13. g[N] \in W[N] BY <1>1, <1>5 DEF Solves
<1> QED BY <1>8, <1>12, <1>13, <1>1 DEF W

\* Outcomes walks the Tasks with ApplyOutcome; S[i] is what holds after i of them.
LEMMA OutcomeWalk ==
    ASSUME NEW V, NEW S \in [0 .. Len(TaskSeq) -> SUBSET V], NEW d \in S[0],
           \A i \in 1 .. Len(TaskSeq) : \A e \in S[i - 1] : ApplyOutcome(d, e, TaskSeq[i]) \in S[i]
    PROVE  Outcomes(d) \in S[Len(TaskSeq)]
<1> DEFINE N == Len(TaskSeq)
           G == [x \in V \X (1 .. N) |-> ApplyOutcome(d, x[1], TaskSeq[x[2]])]
           Step(g, i) == IF i = 0 THEN d
                         ELSE CHOOSE r \in {ApplyOutcome(d, e, TaskSeq[i]) : e \in {g[i - 1]}} :
                                TRUE
           f == CHOOSE f : f = [i \in 0 .. N |-> Step(f, i)]
<1>1. N \in Nat /\ \A i \in 1 .. N : TaskSeq[i] \in Tasks BY PlanAssumption
<1>2. \A i \in 1 .. N : i - 1 \in 0 .. N BY <1>1
<1>3. \A i \in 1 .. N : \A e \in S[i - 1] :
        G[<<e, i>>] = ApplyOutcome(d, e, TaskSeq[i]) /\ G[<<e, i>>] \in S[i]
  BY <1>1, <1>2, Zenon
<1>4. d \in S[0] BY <1>1
<1> HIDE DEF G
<1>5. PICK g \in [0 .. N -> V] : Solves(g, N, S, G, d)
  <2>1. Confined(N, S, G) BY <1>3, Zenon DEF Confined
  <2>2. S \in [0 .. N -> SUBSET V] OBVIOUS
  <2> HIDE DEF N
  <2> QED BY <1>1, <1>4, <2>1, <2>2, Recursion, Zenon
<1>6. \A g1, i : i # 0 => Step(g1, i) = ApplyOutcome(d, g1[i - 1], TaskSeq[i])
  <2> SUFFICES ASSUME NEW g1, NEW i PROVE
        (CHOOSE r \in {ApplyOutcome(d, e, TaskSeq[i]) : e \in {g1[i - 1]}} : TRUE)
          = ApplyOutcome(d, g1[i - 1], TaskSeq[i])
    OBVIOUS
  <2> QED OBVIOUS
<1>7. g = [i \in 0 .. N |-> Step(g, i)]
  <2>1. \A i \in 0 .. N : g[i] = Step(g, i)
    <3> SUFFICES ASSUME NEW i \in 0 .. N PROVE g[i] = Step(g, i) OBVIOUS
    <3> HIDE DEF Step
    <3>1. CASE i = 0 BY <3>1, <1>5 DEF Step, Solves
    <3>2. CASE i # 0
      <4>1. i \in 1 .. N /\ i - 1 \in 0 .. N BY <3>2, <1>2
      <4>2. g[i] = G[<<g[i - 1], i>>] /\ g[i - 1] \in S[i - 1] BY <4>1, <3>2, <1>5 DEF Solves
      <4>3. G[<<g[i - 1], i>>] = ApplyOutcome(d, g[i - 1], TaskSeq[i]) BY <4>1, <4>2, <1>3
      <4>4. Step(g, i) = ApplyOutcome(d, g[i - 1], TaskSeq[i]) BY <3>2, <1>6
      <4> QED BY <4>2, <4>3, <4>4
    <3> QED BY <3>1, <3>2
  <2> HIDE DEF Step
  <2> QED BY <2>1
<1>8. Outcomes(d) = f[N] BY DEF Outcomes, Each
<1>9. f = [i \in 0 .. N |-> Step(f, i)] BY <1>7, Zenon
<1> HIDE DEF f
<1>10. f[0] = g[0] BY <1>1, <1>5, <1>9 DEF Solves
<1>11. \A i \in 1 .. N : f[i - 1] = g[i - 1] => f[i] = g[i]
  <2> SUFFICES ASSUME NEW i \in 1 .. N, f[i - 1] = g[i - 1] PROVE f[i] = g[i] OBVIOUS
  <2> HIDE DEF Step
  <2>1. i \in 0 .. N /\ i # 0 BY <1>1
  <2>2. f[i] = Step(f, i) /\ g[i] = Step(g, i) BY <2>1, <1>7, <1>9, Zenon
  <2> QED BY <2>1, <2>2, <1>6
<1>12. f[N] = g[N]
  <2> HIDE DEF N
  <2> QED BY <1>1, <1>10, <1>11, SameEnd, Zenon
<1>13. g[N] \in S[N] BY <1>1, <1>5 DEF Solves
<1> QED BY <1>8, <1>12, <1>13, <1>1

\* The same for PendingSatisfaction.
LEMMA SatisfactionWalk ==
    ASSUME NEW V, NEW S \in [0 .. Len(TaskSeq) -> SUBSET V], NEW d \in S[0], NEW ok,
           \A i \in 1 .. Len(TaskSeq) : \A e \in S[i - 1] :
               ApplySatisfaction(d, e, TaskSeq[i], ok) \in S[i]
    PROVE  PendingSatisfaction(d, ok) \in S[Len(TaskSeq)]
<1> DEFINE N == Len(TaskSeq)
           G == [x \in V \X (1 .. N) |-> ApplySatisfaction(d, x[1], TaskSeq[x[2]], ok)]
           Step(g, i) == IF i = 0 THEN d
                         ELSE CHOOSE r \in {ApplySatisfaction(d, e, TaskSeq[i], ok) : e \in {g[i - 1]}} :
                                TRUE
           f == CHOOSE f : f = [i \in 0 .. N |-> Step(f, i)]
<1>1. N \in Nat /\ \A i \in 1 .. N : TaskSeq[i] \in Tasks BY PlanAssumption
<1>2. \A i \in 1 .. N : i - 1 \in 0 .. N BY <1>1
<1>3. \A i \in 1 .. N : \A e \in S[i - 1] :
        G[<<e, i>>] = ApplySatisfaction(d, e, TaskSeq[i], ok) /\ G[<<e, i>>] \in S[i]
  BY <1>1, <1>2, Zenon
<1>4. d \in S[0] BY <1>1
<1> HIDE DEF G
<1>5. PICK g \in [0 .. N -> V] : Solves(g, N, S, G, d)
  <2>1. Confined(N, S, G) BY <1>3, Zenon DEF Confined
  <2>2. S \in [0 .. N -> SUBSET V] OBVIOUS
  <2> HIDE DEF N
  <2> QED BY <1>1, <1>4, <2>1, <2>2, Recursion, Zenon
<1>6. \A g1, i : i # 0 => Step(g1, i) = ApplySatisfaction(d, g1[i - 1], TaskSeq[i], ok)
  <2> SUFFICES ASSUME NEW g1, NEW i PROVE
        (CHOOSE r \in {ApplySatisfaction(d, e, TaskSeq[i], ok) : e \in {g1[i - 1]}} : TRUE)
          = ApplySatisfaction(d, g1[i - 1], TaskSeq[i], ok)
    OBVIOUS
  <2> QED OBVIOUS
<1>7. g = [i \in 0 .. N |-> Step(g, i)]
  <2>1. \A i \in 0 .. N : g[i] = Step(g, i)
    <3> SUFFICES ASSUME NEW i \in 0 .. N PROVE g[i] = Step(g, i) OBVIOUS
    <3> HIDE DEF Step
    <3>1. CASE i = 0 BY <3>1, <1>5 DEF Step, Solves
    <3>2. CASE i # 0
      <4>1. i \in 1 .. N /\ i - 1 \in 0 .. N BY <3>2, <1>2
      <4>2. g[i] = G[<<g[i - 1], i>>] /\ g[i - 1] \in S[i - 1] BY <4>1, <3>2, <1>5 DEF Solves
      <4>3. G[<<g[i - 1], i>>] = ApplySatisfaction(d, g[i - 1], TaskSeq[i], ok) BY <4>1, <4>2, <1>3
      <4>4. Step(g, i) = ApplySatisfaction(d, g[i - 1], TaskSeq[i], ok) BY <3>2, <1>6
      <4> QED BY <4>2, <4>3, <4>4
    <3> QED BY <3>1, <3>2
  <2> HIDE DEF Step
  <2> QED BY <2>1
<1>8. PendingSatisfaction(d, ok) = f[N] BY DEF PendingSatisfaction, Each
<1>9. f = [i \in 0 .. N |-> Step(f, i)] BY <1>7, Zenon
<1> HIDE DEF f
<1>10. f[0] = g[0] BY <1>1, <1>5, <1>9 DEF Solves
<1>11. \A i \in 1 .. N : f[i - 1] = g[i - 1] => f[i] = g[i]
  <2> SUFFICES ASSUME NEW i \in 1 .. N, f[i - 1] = g[i - 1] PROVE f[i] = g[i] OBVIOUS
  <2> HIDE DEF Step
  <2>1. i \in 0 .. N /\ i # 0 BY <1>1
  <2>2. f[i] = Step(f, i) /\ g[i] = Step(g, i) BY <2>1, <1>7, <1>9, Zenon
  <2> QED BY <2>1, <2>2, <1>6
<1>12. f[N] = g[N]
  <2> HIDE DEF N
  <2> QED BY <1>1, <1>10, <1>11, SameEnd, Zenon
<1>13. g[N] \in S[N] BY <1>1, <1>5 DEF Solves
<1> QED BY <1>8, <1>12, <1>13, <1>1

\* Verdicts walks the Tasks with ApplyVerdict, unless the feed is not read.
LEMMA VerdictWalk ==
    ASSUME NEW S, NEW d \in S, NEW ok, NEW timer,
           \A e \in S, t \in Tasks : ApplyVerdict(e, t, ok) \in S
    PROVE  Verdicts(d, ok, timer) \in S
<1> DEFINE N == Len(TaskSeq)
           W == [i \in 0 .. N |-> S]
           G == [x \in S \X (1 .. N) |-> ApplyVerdict(x[1], TaskSeq[x[2]], ok)]
           Step(g, i) == IF i = 0 THEN d
                         ELSE CHOOSE r \in {ApplyVerdict(e, TaskSeq[i], ok) : e \in {g[i - 1]}} :
                                TRUE
           f == CHOOSE f : f = [i \in 0 .. N |-> Step(f, i)]
<1>1. N \in Nat /\ \A i \in 1 .. N : TaskSeq[i] \in Tasks BY PlanAssumption
<1>2. \A i \in 1 .. N : i - 1 \in 0 .. N BY <1>1
<1>3. \A i \in 1 .. N : \A e \in W[i - 1] :
        G[<<e, i>>] = ApplyVerdict(e, TaskSeq[i], ok) /\ G[<<e, i>>] \in W[i]
  BY <1>1, <1>2
<1>4. d \in W[0] BY <1>1
<1> HIDE DEF G, W
<1>5. PICK g \in [0 .. N -> S] : Solves(g, N, W, G, d)
  <2>1. Confined(N, W, G) BY <1>3, Zenon DEF Confined
  <2>2. W \in [0 .. N -> SUBSET S] BY DEF W
  <2> HIDE DEF N
  <2> QED BY <1>1, <1>4, <2>1, <2>2, Recursion, Zenon
<1>6. \A g1, i : i # 0 => Step(g1, i) = ApplyVerdict(g1[i - 1], TaskSeq[i], ok)
  <2> SUFFICES ASSUME NEW g1, NEW i PROVE
        (CHOOSE r \in {ApplyVerdict(e, TaskSeq[i], ok) : e \in {g1[i - 1]}} : TRUE)
          = ApplyVerdict(g1[i - 1], TaskSeq[i], ok)
    OBVIOUS
  <2> QED OBVIOUS
<1>7. g = [i \in 0 .. N |-> Step(g, i)]
  <2>1. \A i \in 0 .. N : g[i] = Step(g, i)
    <3> SUFFICES ASSUME NEW i \in 0 .. N PROVE g[i] = Step(g, i) OBVIOUS
    <3> HIDE DEF Step
    <3>1. CASE i = 0 BY <3>1, <1>5 DEF Step, Solves
    <3>2. CASE i # 0
      <4>1. i \in 1 .. N /\ i - 1 \in 0 .. N BY <3>2, <1>2
      <4>2. g[i] = G[<<g[i - 1], i>>] /\ g[i - 1] \in W[i - 1] BY <4>1, <3>2, <1>5 DEF Solves
      <4>3. G[<<g[i - 1], i>>] = ApplyVerdict(g[i - 1], TaskSeq[i], ok) BY <4>1, <4>2, <1>3
      <4>4. Step(g, i) = ApplyVerdict(g[i - 1], TaskSeq[i], ok) BY <3>2, <1>6
      <4> QED BY <4>2, <4>3, <4>4
    <3> QED BY <3>1, <3>2
  <2> HIDE DEF Step
  <2> QED BY <2>1
<1>8. Verdicts(d, ok, timer) \in {d, f[N]} BY DEF Verdicts, Each
<1>9. f = [i \in 0 .. N |-> Step(f, i)] BY <1>7, Zenon
<1> HIDE DEF f
<1>10. f[0] = g[0] BY <1>1, <1>5, <1>9 DEF Solves
<1>11. \A i \in 1 .. N : f[i - 1] = g[i - 1] => f[i] = g[i]
  <2> SUFFICES ASSUME NEW i \in 1 .. N, f[i - 1] = g[i - 1] PROVE f[i] = g[i] OBVIOUS
  <2> HIDE DEF Step
  <2>1. i \in 0 .. N /\ i # 0 BY <1>1
  <2>2. f[i] = Step(f, i) /\ g[i] = Step(g, i) BY <2>1, <1>7, <1>9, Zenon
  <2> QED BY <2>1, <2>2, <1>6
<1>12. f[N] = g[N]
  <2> HIDE DEF N
  <2> QED BY <1>1, <1>10, <1>11, SameEnd, Zenon
<1>13. g[N] \in W[N] BY <1>1, <1>5 DEF Solves
<1> QED BY <1>8, <1>12, <1>13, <1>1 DEF W

\* PrepareMemory walks the Tasks with PrepareLease.
LEMMA MemoryWalk ==
    ASSUME NEW S, NEW d \in S, NEW ok, \A e \in S, t \in Tasks : PrepareLease(d, e, t, ok) \in S
    PROVE  PrepareMemory(d, ok) \in S
<1> DEFINE N == Len(TaskSeq)
           W == [i \in 0 .. N |-> S]
           G == [x \in S \X (1 .. N) |-> PrepareLease(d, x[1], TaskSeq[x[2]], ok)]
           Step(g, i) == IF i = 0 THEN d
                         ELSE CHOOSE r \in {PrepareLease(d, e, TaskSeq[i], ok) : e \in {g[i - 1]}} :
                                TRUE
           f == CHOOSE f : f = [i \in 0 .. N |-> Step(f, i)]
<1>1. N \in Nat /\ \A i \in 1 .. N : TaskSeq[i] \in Tasks BY PlanAssumption
<1>2. \A i \in 1 .. N : i - 1 \in 0 .. N BY <1>1
<1>3. \A i \in 1 .. N : \A e \in W[i - 1] :
        G[<<e, i>>] = PrepareLease(d, e, TaskSeq[i], ok) /\ G[<<e, i>>] \in W[i]
  BY <1>1, <1>2
<1>4. d \in W[0] BY <1>1
<1> HIDE DEF G, W
<1>5. PICK g \in [0 .. N -> S] : Solves(g, N, W, G, d)
  <2>1. Confined(N, W, G) BY <1>3, Zenon DEF Confined
  <2>2. W \in [0 .. N -> SUBSET S] BY DEF W
  <2> HIDE DEF N
  <2> QED BY <1>1, <1>4, <2>1, <2>2, Recursion, Zenon
<1>6. \A g1, i : i # 0 => Step(g1, i) = PrepareLease(d, g1[i - 1], TaskSeq[i], ok)
  <2> SUFFICES ASSUME NEW g1, NEW i PROVE
        (CHOOSE r \in {PrepareLease(d, e, TaskSeq[i], ok) : e \in {g1[i - 1]}} : TRUE)
          = PrepareLease(d, g1[i - 1], TaskSeq[i], ok)
    OBVIOUS
  <2> QED OBVIOUS
<1>7. g = [i \in 0 .. N |-> Step(g, i)]
  <2>1. \A i \in 0 .. N : g[i] = Step(g, i)
    <3> SUFFICES ASSUME NEW i \in 0 .. N PROVE g[i] = Step(g, i) OBVIOUS
    <3> HIDE DEF Step
    <3>1. CASE i = 0 BY <3>1, <1>5 DEF Step, Solves
    <3>2. CASE i # 0
      <4>1. i \in 1 .. N /\ i - 1 \in 0 .. N BY <3>2, <1>2
      <4>2. g[i] = G[<<g[i - 1], i>>] /\ g[i - 1] \in W[i - 1] BY <4>1, <3>2, <1>5 DEF Solves
      <4>3. G[<<g[i - 1], i>>] = PrepareLease(d, g[i - 1], TaskSeq[i], ok) BY <4>1, <4>2, <1>3
      <4>4. Step(g, i) = PrepareLease(d, g[i - 1], TaskSeq[i], ok) BY <3>2, <1>6
      <4> QED BY <4>2, <4>3, <4>4
    <3> QED BY <3>1, <3>2
  <2> HIDE DEF Step
  <2> QED BY <2>1
<1>8. PrepareMemory(d, ok) = f[N] BY DEF PrepareMemory, Each
<1>9. f = [i \in 0 .. N |-> Step(f, i)] BY <1>7, Zenon
<1> HIDE DEF f
<1>10. f[0] = g[0] BY <1>1, <1>5, <1>9 DEF Solves
<1>11. \A i \in 1 .. N : f[i - 1] = g[i - 1] => f[i] = g[i]
  <2> SUFFICES ASSUME NEW i \in 1 .. N, f[i - 1] = g[i - 1] PROVE f[i] = g[i] OBVIOUS
  <2> HIDE DEF Step
  <2>1. i \in 0 .. N /\ i # 0 BY <1>1
  <2>2. f[i] = Step(f, i) /\ g[i] = Step(g, i) BY <2>1, <1>7, <1>9, Zenon
  <2> QED BY <2>1, <2>2, <1>6, SMTT(30)
<1>12. f[N] = g[N]
  <2> HIDE DEF N
  <2> QED BY <1>1, <1>10, <1>11, SameEnd, Zenon
<1>13. g[N] \in W[N] BY <1>1, <1>5 DEF Solves
<1> QED BY <1>8, <1>12, <1>13, <1>1 DEF W

-----------------------------------------------------------------------------
(* Fences and stops *)

\* e differs from d in leases that were revoked and in a hold and stops that were opened for
\* attempts that may be running.
Opens(d, e) ==
    /\ e \in Candidates
    /\ <<e.mission, e.group, e.source, e.task, e.bound, e.att, e.verdict, e.err>>
         = <<d.mission, d.group, d.source, d.task, d.bound, d.att, d.verdict, d.err>>
    /\ e.hold = d.hold \/ (e.hold = "Safety" /\ d.mission \notin MissionEnd)
    /\ \A t \in Tasks :
        /\ \/ e.stop[t] = d.stop[t]
           \/ e.stop[t] = "Open" /\ d.stop[t] = "None" /\ d.att[t] \in Live
        /\ e.lease[t] = d.lease[t] \/ (e.lease[t] = "Revoked" /\ d.lease[t] = "Granted")

\* Opens composes.
LEMMA OpensTransitive ==
    ASSUME NEW d \in Candidates, NEW e, NEW f, Opens(d, e), Opens(e, f)
    PROVE  Opens(d, f)
BY DEF Opens

\* admit_group_stop only opens stops.
LEMMA AdmitGroupStopOpens ==
    ASSUME NEW d \in Candidates
    PROVE  Opens(d, AdmitGroupStop(d))
<1>1. CASE ~HasLive(d) BY <1>1 DEF AdmitGroupStop, Opens
<1>2. CASE HasLive(d)
  <2> DEFINE target == CHOOSE t \in Tasks : d.att[t] \in Live
  <2>1. target \in Tasks /\ d.att[target] \in Live BY <1>2 DEF HasLive
  <2>2. AdmitGroupStop(d) = Admit(d, target) BY <1>2 DEF AdmitGroupStop
  <2> HIDE DEF target
  <2>3. Opens(d, Admit(d, target))
    BY <2>1, SMTT(30) DEF Admit, HoldForSafety, Opens, Candidates
  <2> QED BY <2>2, <2>3
<1> QED BY <1>1, <1>2

\* revoke and revoke_group only revoke leases and open stops.
LEMMA RevokeOpens ==
    ASSUME NEW d \in Candidates, NEW t \in Tasks
    PROVE  Opens(d, Revoke(d, t))
<1> DEFINE e == [d EXCEPT !.lease[t] = IF @ = "Granted" THEN "Revoked" ELSE @]
<1>1. e \in Candidates /\ Opens(d, e) BY Zenon DEF Opens, Candidates
<1>2. Opens(e, AdmitGroupStop(e)) BY <1>1, AdmitGroupStopOpens
<1>3. Opens(d, AdmitGroupStop(e)) BY <1>1, <1>2, OpensTransitive
<1>4. Opens(d, d) BY DEF Opens
<1>5. Revoke(d, t) \in {d, e, AdmitGroupStop(e)} BY DEF Revoke
<1> QED BY <1>1, <1>3, <1>4, <1>5

LEMMA RevokeGroupOpens ==
    ASSUME NEW d \in Candidates
    PROVE  Opens(d, RevokeGroup(d))
<1> DEFINE S == {e \in Candidates : Opens(d, e)}
<1>1. d \in S BY DEF Opens
<1>2. \A e \in S, t \in Tasks : Revoke(e, t) \in S
  <2> SUFFICES ASSUME NEW e \in S, NEW t \in Tasks PROVE Revoke(e, t) \in S OBVIOUS
  <2>1. Opens(e, Revoke(e, t)) BY RevokeOpens
  <2>2. Opens(d, Revoke(e, t)) BY <2>1, OpensTransitive
  <2> QED BY <2>2 DEF Opens
<1> HIDE DEF S
<1>3. RevokeGroup(d) \in S BY <1>1, <1>2, RevokeWalk
<1> QED BY <1>3 DEF S

\* Fences and stops keep a candidate within reach, and what they wait for stays open.
LEMMA OpensKeepsReach ==
    ASSUME NEW b \in Candidates, NEW strict \in BOOLEAN, NEW d \in Reached(b, strict),
           NEW e, Opens(d, e)
    PROVE  e \in Reached(b, strict)
<1>1. d \in Candidates /\ e \in Candidates /\ e.err = d.err BY DEF Reached, Opens
<1>2. CASE d.err BY <1>1, <1>2, Zenon DEF Reached
<1>3. CASE ~d.err
  <2>1. Sound(d) /\ Retains(b, d) /\ (strict => Follows(b, d)) BY <1>3 DEF Reached
  <2>2. Sound(e) BY <1>1, <2>1, SMTT(30) DEF Sound, Opens, LeaseBlocks, Candidates
  <2>3. Retains(b, e) BY <1>1, <2>1 DEF Sound, Retains, Opens, Unproved, Candidates
  <2>4. ~Cancellable(d) => ~Cancellable(e)
    BY <1>1 DEF Opens, Cancellable, HasLive, SafetyBlocks, MemoryBlocks, LeaseBlocks, Unproved
  <2>5. strict => Follows(b, e) BY <2>1, <2>4 DEF Follows, Opens
  <2> QED BY <1>1, <1>3, <2>2, <2>3, <2>5 DEF Reached
<1> QED BY <1>2, <1>3

-----------------------------------------------------------------------------
(* Lifecycle calls *)

\* What ends a Mission without completing it: nothing is live, fenced or waiting for a stop,
\* and the Group gives up everything.
LEMMA EndsWithin ==
    ASSUME NEW b \in Candidates, NEW strict \in BOOLEAN, NEW d \in Candidates, NEW e \in Candidates,
           ~d.err, Sound(d), Retains(b, d), Cancellable(d),
           ~e.err, e.mission \in {"Failed", "Cancelled"}, e.group = "Released",
           e.bound = {}, e.hold = "None", e.att = d.att, e.stop = d.stop, e.lease = d.lease,
           \A t \in Tasks : \/ e.task[t] = d.task[t]
                            \/ /\ d.task[t] \in {"Active", "Awaiting"}
                               /\ e.task[t] \in {"Failed", "Rejected"},
           \E t \in Tasks : e.task[t] # "Completed"
    PROVE  e \in Reached(b, strict)
<1>1. Sound(e)
  <2>1. \A t \in Tasks : e.task[t] # "Pending" => \A s \in Deps[t] : e.task[s] = "Completed"
    BY PlanAssumption DEF Sound
  <2> QED BY <2>1, SMTT(30) DEF Sound, Cancellable, HasLive, MemoryBlocks, LeaseBlocks, MissionEnd
<1>2. Retains(b, e) BY DEF Retains, Cancellable, SafetyBlocks, Candidates
<1>3. Follows(b, e) BY DEF Follows, MissionEnd
<1> QED BY <1>1, <1>2, <1>3 DEF Reached

\* task_failed, when nothing is in the way.
LEMMA TaskFailedWithin ==
    ASSUME NEW b \in Candidates, NEW strict \in BOOLEAN, NEW d \in Candidates, NEW t \in Tasks,
           ~d.err, Sound(d), Retains(b, d), Cancellable(d), d.mission \notin MissionEnd,
           d.task[t] \in {"Active", "Awaiting"}
    PROVE  /\ TaskFailed(d, t) \in Reached(b, strict)
           /\ ~TaskFailed(d, t).err /\ TaskFailed(d, t).att = d.att
           /\ \A s \in Tasks \ {t} : TaskFailed(d, t).task[s] = d.task[s]
<1> DEFINE e == TaskFailed(d, t)
<1>1. d.group \in {"Bound", "Active", "Blocked"} BY DEF Sound, Candidates, Groups
<1>2. e = [d EXCEPT !.task[t] = "Failed", !.group = "Released", !.bound = {},
                    !.mission = "Failed", !.hold = "None"]
  BY <1>1, Zenon DEF TaskFailed, FailAndRelease, Ends, Progressing, Candidates
<1>3. e \in Candidates
  <2> DEFINE f == [d.task EXCEPT ![t] = "Failed"]
  <2>1. f \in [Tasks -> TaskStates] BY DEF Candidates, TaskStates
  <2>2. e = [d EXCEPT !.task = f, !.group = "Released", !.bound = {},
                      !.mission = "Failed", !.hold = "None"]
    BY <1>2
  <2> HIDE DEF e, f
  <2> QED BY <2>1, <2>2, Zenon DEF Candidates, Missions, MissionEnd, Groups
<1> HIDE DEF e
<1>4. /\ ~e.err /\ e.mission = "Failed" /\ e.group = "Released" /\ e.bound = {}
      /\ e.hold = "None"
      /\ e.att = d.att /\ e.stop = d.stop /\ e.lease = d.lease
      /\ \A s \in Tasks : e.task[s] = IF s = t THEN "Failed" ELSE d.task[s]
  BY <1>2 DEF Candidates
<1>5. e \in Reached(b, strict) BY <1>3, <1>4, EndsWithin
<1> QED BY <1>4, <1>5 DEF e

\* reject_task_satisfaction_from_verifier, when nothing is in the way.
LEMMA RejectWithin ==
    ASSUME NEW b \in Candidates, NEW strict \in BOOLEAN, NEW d \in Candidates, NEW t \in Tasks,
           ~d.err, Sound(d), Retains(b, d), Cancellable(d), d.mission \notin MissionEnd,
           d.task[t] = "Awaiting"
    PROVE  Reject(d, t) \in Reached(b, strict)
<1> DEFINE e == Reject(d, t)
<1>1. d.group \in {"Bound", "Active", "Blocked"} BY DEF Sound, Candidates, Groups
<1>2. e = [d EXCEPT !.task[t] = "Rejected", !.group = "Released", !.bound = {},
                    !.mission = "Failed", !.hold = "None"]
  BY <1>1, Zenon DEF Reject, FailAndRelease, Ends, Progressing, Candidates
<1>3. e \in Candidates
  <2> DEFINE f == [d.task EXCEPT ![t] = "Rejected"]
  <2>1. f \in [Tasks -> TaskStates] BY DEF Candidates, TaskStates
  <2>2. e = [d EXCEPT !.task = f, !.group = "Released", !.bound = {},
                      !.mission = "Failed", !.hold = "None"]
    BY <1>2
  <2> HIDE DEF e, f
  <2> QED BY <2>1, <2>2, Zenon DEF Candidates, Missions, MissionEnd, Groups
<1> HIDE DEF e
<1>4. /\ ~e.err /\ e.mission = "Failed" /\ e.group = "Released" /\ e.bound = {}
      /\ e.hold = "None"
      /\ e.att = d.att /\ e.stop = d.stop /\ e.lease = d.lease
      /\ \A s \in Tasks : e.task[s] = IF s = t THEN "Rejected" ELSE d.task[s]
  BY <1>2 DEF Candidates
<1>5. e \in Reached(b, strict) BY <1>3, <1>4, EndsWithin
<1> QED BY <1>5 DEF e

\* finalize_cancel, when both of its callers call it.
LEMMA FinalizeCancelWithin ==
    ASSUME NEW b \in Candidates, NEW strict \in BOOLEAN, NEW d \in Candidates,
           ~d.err, Sound(d), Retains(b, d), Cancellable(d), d.mission = "Cancelling"
    PROVE  FinalizeCancel(d) \in Reached(b, strict)
<1> DEFINE e == FinalizeCancel(d)
<1>1. d.group = "Blocked" BY DEF Sound
<1>2. e = [d EXCEPT !.group = "Released", !.bound = {}, !.mission = "Cancelled", !.hold = "None"]
  BY <1>1 DEF FinalizeCancel, FailAndRelease, Ends, Candidates
<1>3. e \in Candidates BY <1>2, Zenon DEF Candidates, Missions, MissionEnd, Groups
<1>4. \E t \in Tasks : d.task[t] # "Completed" BY DEF Sound
<1> HIDE DEF e
<1>5. /\ ~e.err /\ e.mission = "Cancelled" /\ e.group = "Released" /\ e.bound = {}
      /\ e.hold = "None"
      /\ e.att = d.att /\ e.stop = d.stop /\ e.lease = d.lease /\ e.task = d.task
  BY <1>2 DEF Candidates
<1>6. e \in Reached(b, strict) BY <1>3, <1>4, <1>5, EndsWithin
<1> QED BY <1>6 DEF e

\* What finish_task_satisfaction leaves before it looks whether the Mission is complete.
Refreshed(d, t) == RefreshReady([d EXCEPT !.task[t] = "Completed", !.bound = @ \ {t}])

LEMMA RefreshedFields ==
    ASSUME NEW d \in Candidates, NEW t \in Tasks, NEW e, e = Refreshed(d, t)
    PROVE  /\ e \in Candidates /\ e.mission = "Running" /\ e.bound = d.bound \ {t}
           /\ e.hold = d.hold /\ e.group = d.group /\ e.att = d.att /\ e.stop = d.stop
           /\ e.lease = d.lease /\ e.verdict = d.verdict /\ e.err = d.err /\ e.source = d.source
           /\ e.task[t] = "Completed"
           /\ \A s \in Tasks \ {t} :
                \/ e.task[s] = d.task[s]
                \/ /\ d.task[s] = "Pending" /\ e.task[s] = "Ready"
                   /\ \A u \in Deps[s] : u = t \/ d.task[u] = "Completed"
<1> DEFINE k == [d.task EXCEPT ![t] = "Completed"]
           r == [d EXCEPT !.task = k, !.bound = @ \ {t}]
           f == [s \in Tasks |->
                    IF r.task[s] = "Pending" /\ \A u \in Deps[s] : r.task[u] = "Completed"
                    THEN "Ready" ELSE r.task[s]]
<1>1. /\ k \in [Tasks -> TaskStates]
      /\ \A s \in Tasks : k[s] = IF s = t THEN "Completed" ELSE d.task[s]
  BY DEF Candidates, TaskStates
<1>2. e = RefreshReady(r) BY DEF Refreshed
<1> HIDE DEF k
<1>3. r \in Candidates
  <2>1. d.bound \ {t} \in SUBSET Tasks BY DEF Candidates
  <2> QED BY <1>1, <2>1, Zenon DEF Candidates
<1>4. /\ r.task = k /\ r.bound = d.bound \ {t}
      /\ r.hold = d.hold /\ r.group = d.group /\ r.att = d.att /\ r.stop = d.stop
      /\ r.lease = d.lease /\ r.verdict = d.verdict /\ r.err = d.err /\ r.source = d.source
  BY DEF Candidates
<1> HIDE DEF r
<1>5. e = [r EXCEPT !.mission = "Running", !.task = f] BY <1>2 DEF RefreshReady
<1>6. /\ f \in [Tasks -> TaskStates] /\ f[t] = "Completed"
      /\ \A s \in Tasks \ {t} :
            \/ f[s] = d.task[s]
            \/ /\ d.task[s] = "Pending" /\ f[s] = "Ready"
               /\ \A u \in Deps[s] : u = t \/ d.task[u] = "Completed"
  BY <1>1, <1>4, PlanAssumption DEF TaskStates
<1> HIDE DEF f
<1>7. e \in Candidates
  <2>1. f \in [Tasks -> TaskStates] /\ "Running" \in Missions BY <1>6 DEF Missions
  <2>2. [r EXCEPT !.mission = "Running", !.task = f] \in Candidates
    BY <1>3, <2>1, Zenon DEF Candidates
  <2> QED BY <1>5, <2>2
<1>8. /\ e.task = f /\ e.mission = "Running" /\ e.bound = r.bound
      /\ e.hold = r.hold /\ e.group = r.group /\ e.att = r.att /\ e.stop = r.stop
      /\ e.lease = r.lease /\ e.verdict = r.verdict /\ e.err = r.err /\ e.source = r.source
  BY <1>3, <1>5 DEF Candidates
<1> QED BY <1>4, <1>6, <1>7, <1>8

\* A Task is satisfied: the Mission goes on with what became ready, or is completed; the one
\* error, a last Task in a Group a lost cancellation blocked, cannot happen to a Mission
\* that is still cancelling, because it would have been finalized before.
LEMMA SatisfyWithin ==
    ASSUME NEW b \in Candidates, NEW strict \in BOOLEAN, Sound(b),
           NEW d \in Reached(b, strict), NEW t \in Tasks, ~d.err, d.task[t] = "Awaiting",
           t \in d.bound, ~LeaseBlocks(d, t), ~SafetyBlocks(d)
    PROVE  /\ Satisfy(d, t) \in Reached(b, strict)
           /\ ~Satisfy(d, t).err =>
                /\ Satisfy(d, t).stop = d.stop /\ Satisfy(d, t).lease = d.lease
                /\ \A s \in d.bound \ {t} : d.task[s] = "Awaiting" =>
                        s \in Satisfy(d, t).bound /\ Satisfy(d, t).task[s] = "Awaiting"
<1> DEFINE e == Refreshed(d, t)
           all == \A s \in Tasks : e.task[s] = "Completed"
<1>1. d \in Candidates /\ Sound(d) /\ Retains(b, d) /\ (strict => Follows(b, d)) BY DEF Reached
<1>2. /\ e \in Candidates /\ e.mission = "Running" /\ e.bound = d.bound \ {t}
      /\ e.hold = d.hold /\ e.group = d.group /\ e.att = d.att /\ e.stop = d.stop
      /\ e.lease = d.lease /\ e.verdict = d.verdict /\ e.err = d.err /\ e.source = d.source
      /\ e.task[t] = "Completed"
      /\ \A s \in Tasks \ {t} :
            \/ e.task[s] = d.task[s]
            \/ /\ d.task[s] = "Pending" /\ e.task[s] = "Ready"
               /\ \A u \in Deps[s] : u = t \/ d.task[u] = "Completed"
  BY <1>1, RefreshedFields
<1>3. Satisfy(d, t) = IF all THEN CompleteMission(e) ELSE e BY DEF Satisfy, Refreshed
<1> HIDE DEF e
<1>4. d.mission \notin MissionEnd /\ d.group \in {"Active", "Blocked"} /\ d.bound \subseteq Tasks
  BY <1>1 DEF Sound, Candidates, Groups
<1>5. ASSUME NEW s \in Tasks, e.task[s] # "Pending", NEW u \in Deps[s]
      PROVE  e.task[u] = "Completed"
  <2>1. u \in Tasks BY PlanAssumption
  <2>2. u = t \/ d.task[u] = "Completed" BY <1>1, <1>2, <1>5 DEF Sound
  <2>3. d.task[u] = "Completed" /\ u # t => e.task[u] = "Completed" BY <1>2, <2>1
  <2> QED BY <1>2, <2>2, <2>3
<1>6. \A s \in Tasks : e.task[s] = "Completed" => ~LeaseBlocks(e, s)
  BY <1>1, <1>2 DEF Sound, LeaseBlocks
<1>7. ASSUME NEW s \in Tasks, d.att[s] \in Live
      PROVE  s \in e.bound /\ e.task[s] \in {"Ready", "Active", "Awaiting"}
  BY <1>1, <1>2, <1>7 DEF Sound
<1>8. ASSUME NEW f, f.stop = d.stop, f.bound \subseteq Tasks PROVE Retains(b, f)
  BY <1>1, <1>8 DEF Retains, SafetyBlocks, Candidates
<1>9. CASE ~all
  <2>1. Sound(e)
    <3>1. \A s \in e.bound : e.task[s] \in {"Ready", "Active", "Awaiting"}
      BY <1>1, <1>2, <1>4 DEF Sound
    <3>2. \A s \in Tasks : e.task[s] = "Awaiting" => e.att[s] \notin Live
      BY <1>1, <1>2 DEF Sound
    <3> QED BY <1>2, <1>4, <1>5, <1>6, <1>7, <1>9, <3>1, <3>2, SMTT(30) DEF Sound, MissionEnd
  <2>2. Retains(b, e) BY <1>2, <1>4, <1>8
  <2>3. strict => Follows(b, e)
    BY <1>1, <1>2, <1>4 DEF Follows, Cancellable, HasLive, SafetyBlocks, MemoryBlocks, LeaseBlocks
  <2>4. e \in Reached(b, strict) BY <1>2, <2>1, <2>2, <2>3 DEF Reached
  <2> QED BY <1>2, <1>3, <1>4, <1>9, <2>4
<1>10. CASE all /\ e.group = "Active"
  <2> DEFINE f == CompleteMission(e)
  <2>1. f = [e EXCEPT !.group = "Released", !.bound = {}, !.mission = "Completed", !.hold = "None"]
    BY <1>2, <1>10 DEF CompleteMission, Ends, Candidates
  <2>2. f \in Candidates
    <3>1. "Completed" \in Missions /\ "Released" \in Groups BY DEF Missions, MissionEnd, Groups
    <3>2. [e EXCEPT !.group = "Released", !.bound = {}, !.mission = "Completed", !.hold = "None"]
            \in Candidates
      BY <1>2, <3>1, ZenonT(30) DEF Candidates
    <3> QED BY <2>1, <3>2
  <2>3. /\ f.group = "Released" /\ f.bound = {} /\ f.mission = "Completed" /\ f.hold = "None"
        /\ f.task = e.task /\ f.att = d.att /\ f.stop = d.stop /\ f.lease = d.lease /\ ~f.err
    BY <1>2, <2>1 DEF Candidates
  <2> HIDE DEF f
  <2>4. Sound(f) BY <1>2, <1>5, <1>6, <1>7, <1>10, <2>3, SMTT(30) DEF Sound, MissionEnd, LeaseBlocks
  <2>5. Retains(b, f) BY <1>8, <2>3
  <2>6. Follows(b, f) BY <2>3 DEF Follows, MissionEnd
  <2>7. f \in Reached(b, strict) BY <2>2, <2>3, <2>4, <2>5, <2>6 DEF Reached
  <2>8. \A s \in d.bound \ {t} : d.task[s] # "Awaiting" BY <1>2, <1>4, <1>10
  <2> QED BY <1>3, <1>10, <2>3, <2>7, <2>8 DEF f
<1>11. CASE all /\ e.group # "Active"
  <2> DEFINE f == CompleteMission(e)
  <2>1. f = [e EXCEPT !.err = TRUE] BY <1>11 DEF CompleteMission, Fails
  <2>2. f \in Candidates /\ f.err BY <1>2, <2>1, ZenonT(30) DEF Candidates
  <2> HIDE DEF f
  <2>3. Cancellable(d)
    BY <1>2, <1>6, <1>7, <1>11 DEF Cancellable, HasLive, MemoryBlocks, LeaseBlocks
  <2>4. strict => LostCancel(b)
    BY <1>1, <1>2, <1>4, <1>11, <2>3 DEF LostCancel, Follows, Sound, Candidates, Missions
  <2> QED BY <1>3, <1>11, <2>2, <2>4 DEF f, Reached
<1> QED BY <1>9, <1>10, <1>11

\* A call on a candidate that failed leaves it failed.
LEMMA FailedStaysFailed ==
    ASSUME NEW d \in Candidates, NEW t \in Tasks, d.err
    PROVE  /\ Satisfy(d, t) \in Candidates /\ Satisfy(d, t).err
           /\ Reject(d, t) \in Candidates /\ Reject(d, t).err
<1>1. ASSUME NEW e \in Candidates, e.err PROVE Fails(e) \in Candidates /\ Fails(e).err
  BY <1>1, Zenon DEF Fails, Candidates
<1>2. ASSUME NEW e \in Candidates, e.err, NEW m \in {"Failed", "Completed"}
      PROVE  /\ Ends(e, m) \in Candidates /\ Ends(e, m).err
             /\ [e EXCEPT !.group = "Released", !.bound = {}] \in Candidates
             /\ [e EXCEPT !.group = "Released", !.bound = {}].err
  <2>1. m \in Missions /\ "Released" \in Groups
    BY DEF Missions, MissionEnd, Groups
  <2>2. [e EXCEPT !.mission = m, !.hold = "None"] \in Candidates
    BY <1>2, <2>1, Zenon DEF Candidates
  <2>3. [e EXCEPT !.group = "Released", !.bound = {}] \in Candidates
    BY <1>2, <2>1, Zenon DEF Candidates
  <2> QED BY <1>2, <2>2, <2>3 DEF Ends, Candidates
<1>3. Satisfy(d, t) \in Candidates /\ Satisfy(d, t).err
  <2> DEFINE e == Refreshed(d, t)
  <2>1. e \in Candidates /\ e.err BY RefreshedFields
  <2>2. CompleteMission(e) \in Candidates /\ CompleteMission(e).err
    BY <1>1, <1>2, <2>1, Zenon DEF CompleteMission
  <2>3. Satisfy(d, t) \in {Fails(d), e, CompleteMission(e)} BY DEF Satisfy, Refreshed
  <2> HIDE DEF e
  <2> QED BY <1>1, <2>1, <2>2, <2>3
<1>4. Reject(d, t) \in Candidates /\ Reject(d, t).err
  <2> DEFINE k == [d.task EXCEPT ![t] = "Rejected"]
             e == [d EXCEPT !.task = k]
  <2>1. k \in [Tasks -> TaskStates] BY DEF Candidates, TaskStates
  <2>2. Reject(d, t) \in {Fails(d), Ends(FailAndRelease(e), "Failed")} BY DEF Reject
  <2> HIDE DEF k
  <2>3. e \in Candidates /\ e.err BY <2>1 DEF Candidates
  <2> HIDE DEF e
  <2>4. FailAndRelease(e) \in Candidates /\ FailAndRelease(e).err
    BY <1>1, <1>2, <2>3, Zenon DEF FailAndRelease
  <2>5. Ends(FailAndRelease(e), "Failed") \in Candidates /\ Ends(FailAndRelease(e), "Failed").err
    BY <1>2, <2>4, Zenon
  <2> QED BY <1>1, <2>2, <2>5
<1> QED BY <1>3, <1>4

\* Reached does not look at verdicts.
LEMMA VerdictKeepsReach ==
    ASSUME NEW b \in Candidates, NEW strict \in BOOLEAN, NEW d \in Reached(b, strict),
           NEW t \in Tasks, NEW v \in {"None", "Satisfied", "Unsatisfied"}
    PROVE  [d EXCEPT !.verdict[t] = v] \in Reached(b, strict)
<1> DEFINE k == [d.verdict EXCEPT ![t] = v]
           e == [d EXCEPT !.verdict = k]
<1>1. d \in Candidates /\ k \in [Tasks -> {"None", "Satisfied", "Unsatisfied"}]
  BY DEF Candidates, Reached
<1> HIDE DEF k
<1>2. e \in Candidates BY <1>1, SMTT(30) DEF Candidates
<1>3. /\ e.mission = d.mission /\ e.group = d.group /\ e.hold = d.hold /\ e.bound = d.bound
      /\ e.task = d.task /\ e.att = d.att /\ e.stop = d.stop /\ e.lease = d.lease /\ e.err = d.err
  BY <1>1 DEF Candidates
<1> HIDE DEF e
<1>4. Sound(d) => Sound(e) BY <1>3, SMTT(30) DEF Sound, LeaseBlocks
<1>5. Retains(b, d) => Retains(b, e) BY <1>3 DEF Retains
<1>6. Follows(b, d) => Follows(b, e)
  BY <1>3 DEF Follows, Cancellable, HasLive, SafetyBlocks, MemoryBlocks, LeaseBlocks
<1>7. e \in Reached(b, strict) BY <1>2, <1>3, <1>4, <1>5, <1>6 DEF Reached
<1> QED BY <1>7 DEF e, k


-----------------------------------------------------------------------------
(* Stages *)

\* apply_pending_cancellations opens a batch, on a candidate whose facts were applied.
LEMMA PendingCancellationWithin ==
    ASSUME NEW b \in Candidates, NEW d \in Candidates, ~d.err, Sound(d), Retains(b, d),
           d.mission = b.mission, d.group = "Blocked" => b.group = "Blocked"
    PROVE  PendingCancellation(d) \in Reached(b, TRUE) /\ ~PendingCancellation(d).err
<1>1. CASE d.mission # "Cancelling"
  <2>1. PendingCancellation(d) = d BY <1>1 DEF PendingCancellation
  <2> QED BY <1>1, <2>1 DEF Reached, Follows
<1>2. CASE d.mission = "Cancelling"
  <2> DEFINE e == RevokeGroup(d)
  <2>1. Opens(d, e) BY RevokeGroupOpens
  <2>2. PendingCancellation(d) = IF Cancellable(e) THEN FinalizeCancel(e) ELSE e
    BY <1>2 DEF PendingCancellation
  <2> HIDE DEF e
  <2>3. d \in Reached(b, FALSE) BY DEF Reached
  <2>4. e \in Reached(b, FALSE) BY <2>1, <2>3, OpensKeepsReach, Zenon
  <2>5. /\ e \in Candidates /\ ~e.err /\ e.mission = d.mission /\ e.group = d.group
    BY <2>1 DEF Opens
  <2>6. Sound(e) /\ Retains(b, e) BY <2>4, <2>5 DEF Reached
  <2>7. CASE Cancellable(e)
    <3>1. FinalizeCancel(e) \in Reached(b, TRUE)
      BY <1>2, <2>5, <2>6, <2>7, FinalizeCancelWithin, Zenon
    <3>2. ~FinalizeCancel(e).err
      BY <1>2, <2>5, <2>6 DEF FinalizeCancel, FailAndRelease, Ends, Sound, Candidates
    <3> QED BY <2>2, <2>7, <3>1, <3>2, Zenon
  <2>8. CASE ~Cancellable(e)
    BY <2>2, <2>5, <2>6, <2>8 DEF Reached, Follows
  <2> QED BY <2>7, <2>8, Zenon
<1> QED BY <1>1, <1>2, Zenon

\* A failed outcome of an Active Task ends the Mission, or opens what has to be waited for.
LEMMA FailedOutcomeWithin ==
    ASSUME NEW b \in Candidates, NEW strict \in BOOLEAN, NEW d \in Reached(b, strict), ~d.err,
           NEW t \in Tasks, d.mission \notin MissionEnd, d.task[t] = "Active"
    PROVE  /\ FailedOutcome(d, t) \in Reached(b, strict) /\ ~FailedOutcome(d, t).err
           /\ FailedOutcome(d, t).att = d.att
           /\ \A s \in Tasks \ {t} : FailedOutcome(d, t).task[s] = d.task[s]
<1> DEFINE e == RevokeGroup(d)
           a == AdmitGroupStop(e)
           f == TaskFailed(e, t)
<1>1. d \in Candidates BY DEF Reached
<1>2. Opens(d, e) BY <1>1, RevokeGroupOpens
<1>3. e \in Candidates /\ Opens(e, a) BY <1>2, AdmitGroupStopOpens DEF Opens
<1>4. /\ FailedOutcome(d, t) \in {e, a, f}
      /\ FailedOutcome(d, t) = f => Cancellable(e) \/ f \in {e, a}
  BY DEF FailedOutcome, Transition, Cancellable
<1> HIDE DEF e, a, f
<1>5. e \in Reached(b, strict) /\ a \in Reached(b, strict) BY <1>2, <1>3, OpensKeepsReach
<1>6. /\ e.att = d.att /\ e.task = d.task /\ ~e.err /\ e.mission = d.mission
      /\ a.att = d.att /\ a.task = d.task /\ ~a.err
  BY <1>2, <1>3 DEF Opens
<1>7. Sound(e) /\ Retains(b, e) BY <1>5, <1>6 DEF Reached
<1>8. Cancellable(e) => /\ f \in Reached(b, strict) /\ ~f.err /\ f.att = d.att
                        /\ \A s \in Tasks \ {t} : f.task[s] = d.task[s]
  BY <1>3, <1>6, <1>7, TaskFailedWithin DEF f
<1> QED BY <1>4, <1>5, <1>6, <1>8

\* A completed outcome of an Active Task leaves it awaiting satisfaction, or holds the
\* Mission when its deadline was missed.
LEMMA CompletedOutcomeWithin ==
    ASSUME NEW b \in Candidates, NEW strict \in BOOLEAN, NEW d \in Reached(b, strict), ~d.err,
           NEW t \in Tasks, d.mission \notin MissionEnd, d.task[t] = "Active", d.att[t] \notin Live
    PROVE  /\ CompletedOutcome(d, t) \in Reached(b, strict) /\ ~CompletedOutcome(d, t).err
           /\ CompletedOutcome(d, t).att = d.att
           /\ \A s \in Tasks \ {t} : CompletedOutcome(d, t).task[s] = d.task[s]
<1> DEFINE h == [d EXCEPT !.hold = "Contract"]
           k == [d.task EXCEPT ![t] = "Awaiting"]
           a == [d EXCEPT !.task = k]
<1>1. d \in Candidates /\ Sound(d) /\ Retains(b, d) /\ (strict => Follows(b, d)) BY DEF Reached
<1>2. k \in [Tasks -> TaskStates] /\ \A s \in Tasks : k[s] = IF s = t THEN "Awaiting" ELSE d.task[s]
  BY <1>1 DEF Candidates, TaskStates
<1>3. CompletedOutcome(d, t) \in {d, h, a} BY DEF CompletedOutcome, Transition
<1> HIDE DEF k
<1>4. h \in Candidates /\ a \in Candidates BY <1>1, <1>2, SMTT(30) DEF Candidates
<1>5. /\ h.mission = d.mission /\ h.group = d.group /\ h.bound = d.bound /\ h.att = d.att
      /\ h.stop = d.stop /\ h.lease = d.lease /\ h.err = d.err /\ h.task = d.task
      /\ a.mission = d.mission /\ a.group = d.group /\ a.bound = d.bound /\ a.att = d.att
      /\ a.stop = d.stop /\ a.lease = d.lease /\ a.err = d.err /\ a.task = k /\ a.hold = d.hold
  BY <1>1 DEF Candidates
<1> HIDE DEF h, a
<1>6. d.group # "Released" /\ d.group # "Bound" BY <1>1 DEF Sound
<1>7. Sound(h) BY <1>1, <1>5, <1>6, SMTT(30) DEF Sound, LeaseBlocks
<1>8. Sound(a)
  <2>1. \A s \in Tasks : a.task[s] # "Pending" => \A u \in Deps[s] : a.task[u] = "Completed"
    BY <1>1, <1>2, <1>5, PlanAssumption DEF Sound
  <2>2. a.mission = "Completed" <=> \A s \in Tasks : a.task[s] = "Completed"
    BY <1>2, <1>5 DEF MissionEnd
  <2> QED BY <1>1, <1>2, <1>4, <1>5, <1>6, <2>1, <2>2, SMTT(30) DEF Sound, LeaseBlocks, Candidates
<1>9. Retains(b, h) /\ Retains(b, a) BY <1>1, <1>5 DEF Retains
<1>10. strict => Follows(b, h) /\ Follows(b, a)
  BY <1>1, <1>5 DEF Follows, Cancellable, HasLive, SafetyBlocks, MemoryBlocks, LeaseBlocks
<1>11. h \in Reached(b, strict) /\ a \in Reached(b, strict)
  BY <1>4, <1>5, <1>7, <1>8, <1>9, <1>10 DEF Reached
<1> QED BY <1>2, <1>3, <1>5, <1>11

\* apply_selected_outcomes: each outcome finds its Task as it was collected, because an
\* outcome changes no other Task that is still to come.
LEMMA OutcomesWithin ==
    ASSUME NEW b \in Candidates, NEW strict \in BOOLEAN, NEW d \in Reached(b, strict), ~d.err
    PROVE  Outcomes(d) \in Reached(b, strict) /\ ~Outcomes(d).err
<1> DEFINE N == Len(TaskSeq)
           Left(e, i) == /\ ~e.err /\ e.att = d.att
                         /\ \A j \in i + 1 .. N : e.task[TaskSeq[j]] = d.task[TaskSeq[j]]
           S == [i \in 0 .. N |-> {e \in Reached(b, strict) : Left(e, i)}]
<1>1. N \in Nat /\ \A i \in 1 .. N : TaskSeq[i] \in Tasks BY PlanAssumption
<1>2. S \in [0 .. N -> SUBSET Reached(b, strict)] /\ d \in S[0] BY <1>1
<1>3. ASSUME NEW i \in 1 .. N, NEW e \in S[i - 1]
      PROVE  ApplyOutcome(d, e, TaskSeq[i]) \in S[i]
  <2> DEFINE t == TaskSeq[i]
             r == ApplyOutcome(d, e, t)
  <2>1. i - 1 \in 0 .. N /\ i \in 0 .. N /\ i \in (i - 1) + 1 .. N /\ t \in Tasks BY <1>1
  <2>2. e \in Reached(b, strict) /\ Left(e, i - 1) BY <2>1
  <2>3. e.task[t] = d.task[t] BY <2>1, <2>2
  <2>4. /\ r \in Reached(b, strict) /\ ~r.err /\ r.att = d.att
        /\ \A s \in Tasks \ {t} : r.task[s] = e.task[s]
    <3>1. CASE ~OutcomeDue(d, t) \/ e.mission # "Running" BY <2>2, <3>1 DEF ApplyOutcome
    <3>2. CASE OutcomeDue(d, t) /\ e.mission = "Running"
      <4>1. e.task[t] = "Active" /\ e.att[t] \in AttemptEnd /\ e.mission \notin MissionEnd
        BY <2>2, <2>3, <3>2 DEF OutcomeDue, MissionEnd
      <4>2. e.att[t] \notin Live BY <4>1 DEF AttemptEnd, Live
      <4>3. r \in {FailedOutcome(e, t), CompletedOutcome(e, t)} BY <3>2 DEF ApplyOutcome
      <4>4. /\ FailedOutcome(e, t) \in Reached(b, strict) /\ ~FailedOutcome(e, t).err
            /\ FailedOutcome(e, t).att = d.att
            /\ \A s \in Tasks \ {t} : FailedOutcome(e, t).task[s] = e.task[s]
        BY <2>1, <2>2, <4>1, FailedOutcomeWithin
      <4>5. /\ CompletedOutcome(e, t) \in Reached(b, strict) /\ ~CompletedOutcome(e, t).err
            /\ CompletedOutcome(e, t).att = d.att
            /\ \A s \in Tasks \ {t} : CompletedOutcome(e, t).task[s] = e.task[s]
        BY <2>1, <2>2, <4>1, <4>2, CompletedOutcomeWithin
      <4> HIDE DEF r
      <4> QED BY <4>3, <4>4, <4>5
    <3> QED BY <3>1, <3>2
  <2> HIDE DEF r
  <2>5. ASSUME NEW j \in i + 1 .. N PROVE r.task[TaskSeq[j]] = d.task[TaskSeq[j]]
    <3>1. j \in 1 .. N /\ j # i /\ j \in (i - 1) + 1 .. N BY <1>1
    <3>2. TaskSeq[j] \in Tasks \ {t} BY <1>1, <3>1, PlanAssumption
    <3> QED BY <2>2, <2>4, <3>1, <3>2, SMTT(30)
  <2>6. Left(r, i) BY <2>4, <2>5
  <2>7. r \in S[i] BY <2>1, <2>4, <2>6
  <2> QED BY <2>7 DEF r
<1>4. \A i \in 1 .. Len(TaskSeq) : \A e \in S[i - 1] : ApplyOutcome(d, e, TaskSeq[i]) \in S[i]
  BY <1>3, Zenon
<1>5. N \in 0 .. N BY <1>1
<1>6. S[N] = {e \in Reached(b, strict) : Left(e, N)} BY <1>5
<1> HIDE DEF S
<1>7. Outcomes(d) \in S[N] BY <1>2, <1>4, OutcomeWalk
<1> QED BY <1>6, <1>7

\* apply_pending_execution_satisfaction: each Task that was due is still awaiting, bound and
\* unfenced when its turn comes, unless an earlier one failed the transaction.
LEMMA SatisfactionWithin ==
    ASSUME NEW b \in Candidates, NEW strict \in BOOLEAN, Sound(b), NEW d \in Reached(b, strict),
           ~d.err, NEW ok
    PROVE  PendingSatisfaction(d, ok) \in Reached(b, strict)
<1> DEFINE N == Len(TaskSeq)
           Left(e, i) == \/ e.err
                         \/ /\ e.stop = d.stop /\ e.lease = d.lease
                            /\ \A j \in i + 1 .. N :
                                  d.task[TaskSeq[j]] = "Awaiting" /\ TaskSeq[j] \in d.bound =>
                                      e.task[TaskSeq[j]] = "Awaiting" /\ TaskSeq[j] \in e.bound
           S == [i \in 0 .. N |-> {e \in Reached(b, strict) : Left(e, i)}]
<1>1. N \in Nat /\ \A i \in 1 .. N : TaskSeq[i] \in Tasks BY PlanAssumption
<1>2. S \in [0 .. N -> SUBSET Reached(b, strict)] /\ d \in S[0] BY <1>1
<1>3. ASSUME NEW i \in 1 .. N, NEW e \in S[i - 1]
      PROVE  ApplySatisfaction(d, e, TaskSeq[i], ok) \in S[i]
  <2> DEFINE t == TaskSeq[i]
             r == ApplySatisfaction(d, e, t, ok)
  <2>1. i - 1 \in 0 .. N /\ i \in 0 .. N /\ i \in (i - 1) + 1 .. N /\ t \in Tasks BY <1>1
  <2>2. e \in Reached(b, strict) /\ Left(e, i - 1) BY <2>1
  <2>3. \A j \in i + 1 .. N : j \in (i - 1) + 1 .. N BY <1>1
  <2>4. r = e \/ (r = Satisfy(e, t) /\ SatisfactionDue(d, t, ok))
    BY DEF ApplySatisfaction, Transition
  <2> HIDE DEF r
  <2>5. CASE r = e
    <3>1. Left(r, i) BY <2>2, <2>3, <2>5
    <3> QED BY <2>1, <2>2, <2>5, <3>1 DEF r
  <2>6. CASE r = Satisfy(e, t) /\ SatisfactionDue(d, t, ok) /\ e.err
    <3>1. r \in Candidates /\ r.err BY <2>1, <2>2, <2>6, FailedStaysFailed DEF Reached
    <3>2. r \in Reached(b, strict) BY <2>2, <2>6, <3>1 DEF Reached
    <3>3. Left(r, i) BY <3>1
    <3> QED BY <2>1, <3>2, <3>3 DEF r
  <2>7. CASE r = Satisfy(e, t) /\ SatisfactionDue(d, t, ok) /\ ~e.err
    <3>1. /\ e.task[t] = "Awaiting" /\ t \in e.bound /\ ~LeaseBlocks(e, t) /\ ~SafetyBlocks(e)
      BY <2>1, <2>2, <2>7 DEF SatisfactionDue, LeaseBlocks, SafetyBlocks
    <3>2. /\ r \in Reached(b, strict)
          /\ ~r.err => /\ r.stop = e.stop /\ r.lease = e.lease
                       /\ \A s \in e.bound \ {t} : e.task[s] = "Awaiting" =>
                               s \in r.bound /\ r.task[s] = "Awaiting"
      <4> HIDE DEF S, Left, t
      <4>1. /\ Satisfy(e, t) \in Reached(b, strict)
            /\ ~Satisfy(e, t).err =>
                 /\ Satisfy(e, t).stop = e.stop /\ Satisfy(e, t).lease = e.lease
                 /\ \A s \in e.bound \ {t} : e.task[s] = "Awaiting" =>
                         s \in Satisfy(e, t).bound /\ Satisfy(e, t).task[s] = "Awaiting"
        BY <2>1, <2>2, <2>7, <3>1, SatisfyWithin, Zenon
      <4> QED BY <2>7, <4>1, Zenon
    <3>3. ASSUME NEW j \in i + 1 .. N, ~r.err,
                 d.task[TaskSeq[j]] = "Awaiting" /\ TaskSeq[j] \in d.bound
          PROVE  r.task[TaskSeq[j]] = "Awaiting" /\ TaskSeq[j] \in r.bound
      <4>1. j \in 1 .. N /\ j # i BY <1>1
      <4>2. TaskSeq[j] # t BY <4>1, PlanAssumption
      <4>3. e.task[TaskSeq[j]] = "Awaiting" /\ TaskSeq[j] \in e.bound BY <2>2, <2>3, <2>7, <3>3
      <4> QED BY <3>2, <3>3, <4>2, <4>3
    <3>4. Left(r, i) BY <2>2, <2>7, <3>2, <3>3
    <3> QED BY <2>1, <3>2, <3>4 DEF r
  <2> QED BY <2>4, <2>5, <2>6, <2>7, Zenon DEF r
<1>4. \A i \in 1 .. Len(TaskSeq) : \A e \in S[i - 1] :
        ApplySatisfaction(d, e, TaskSeq[i], ok) \in S[i]
  BY <1>3, Zenon
<1>5. N \in 0 .. N BY <1>1
<1>6. S[N] = {e \in Reached(b, strict) : Left(e, N)} BY <1>5
<1> HIDE DEF S
<1>7. PendingSatisfaction(d, ok) \in S[N] BY <1>2, <1>4, SatisfactionWalk, Zenon
<1> QED BY <1>6, <1>7

\* A rejected Task: reject_task_satisfaction_from_verifier is called only when its own
\* checks, and no live attempt, leave nothing to wait for.
LEMMA RejectedWithin ==
    ASSUME NEW b \in Candidates, NEW strict \in BOOLEAN, NEW d \in Reached(b, strict),
           NEW t \in Tasks,
           ~d.err => d.mission \notin MissionEnd /\ d.task[t] = "Awaiting" /\ ~SafetyBlocks(d)
    PROVE  Rejected(d, t) \in Reached(b, strict)
<1> DEFINE e == RevokeGroup(d)
           a == AdmitGroupStop(e)
           f == Reject(e, t)
<1>1. d \in Candidates BY DEF Reached
<1>2. Opens(d, e) BY <1>1, RevokeGroupOpens
<1>3. e \in Candidates /\ Opens(e, a) BY <1>2, AdmitGroupStopOpens DEF Opens
<1>4. \/ Rejected(d, t) \in {e, a}
      \/ Rejected(d, t) = [f EXCEPT !.verdict[t] = "None"] /\ ~HasLive(d) /\ ~MemoryBlocks(e)
  BY DEF Rejected
<1> HIDE DEF e, a, f
<1>5. e \in Reached(b, strict) /\ a \in Reached(b, strict) BY <1>2, <1>3, OpensKeepsReach
<1>6. ASSUME ~HasLive(d), ~MemoryBlocks(e) PROVE f \in Reached(b, strict)
  <2>1. CASE e.err
    <3>1. f \in Candidates /\ f.err BY <1>3, <2>1, FailedStaysFailed DEF f
    <3> QED BY <1>5, <2>1, <3>1 DEF Reached
  <2>2. CASE ~e.err
    <3>1. ~d.err /\ e.mission = d.mission /\ e.task = d.task /\ e.att = d.att
      BY <1>2, <2>2 DEF Opens
    <3>2. ~HasLive(e) /\ ~SafetyBlocks(e)
      BY <1>2, <1>6, <3>1 DEF Opens, HasLive, SafetyBlocks
    <3>3. Sound(e) /\ Retains(b, e) BY <1>5, <2>2 DEF Reached
    <3> QED BY <1>3, <1>6, <2>2, <3>1, <3>2, <3>3, RejectWithin DEF Cancellable, f
  <2> QED BY <2>1, <2>2
<1>7. f \in Reached(b, strict) => [f EXCEPT !.verdict[t] = "None"] \in Reached(b, strict)
  BY VerdictKeepsReach, Zenon
<1> QED BY <1>4, <1>5, <1>6, <1>7

\* One verifier verdict.
LEMMA ApplyVerdictWithin ==
    ASSUME NEW b \in Candidates, NEW strict \in BOOLEAN, Sound(b), NEW d \in Reached(b, strict),
           NEW t \in Tasks, NEW ok
    PROVE  ApplyVerdict(d, t, ok) \in Reached(b, strict)
<1> DEFINE n == [d EXCEPT !.verdict[t] = "None"]
           f == Satisfy(d, t)
<1>1. \/ ApplyVerdict(d, t, ok) \in {d, n}
      \/ /\ d.mission \notin MissionEnd /\ d.task[t] = "Awaiting" /\ ~SafetyBlocks(d)
         /\ \/ ApplyVerdict(d, t, ok) = Rejected(d, t)
            \/ /\ ApplyVerdict(d, t, ok) = [f EXCEPT !.verdict[t] = "None"]
               /\ t \in d.bound /\ ~LeaseBlocks(d, t)
  BY DEF ApplyVerdict
<1>2. d \in Candidates BY DEF Reached
<1>3. n \in Reached(b, strict) BY VerdictKeepsReach, Zenon
<1>4. CASE ApplyVerdict(d, t, ok) \in {d, n} BY <1>3, <1>4
<1>5. CASE d.mission \notin MissionEnd /\ d.task[t] = "Awaiting" /\ ~SafetyBlocks(d)
  <2>1. Rejected(d, t) \in Reached(b, strict) BY <1>5, RejectedWithin
  <2>2. ASSUME t \in d.bound, ~LeaseBlocks(d, t) PROVE f \in Reached(b, strict)
    <3>1. CASE d.err
      <4>1. f \in Candidates /\ f.err BY <1>2, <3>1, FailedStaysFailed
      <4> HIDE DEF f
      <4> QED BY <3>1, <4>1 DEF Reached
    <3>2. CASE ~d.err BY <1>5, <2>2, <3>2, SatisfyWithin
    <3> QED BY <3>1, <3>2
  <2> HIDE DEF f
  <2>3. f \in Reached(b, strict) => [f EXCEPT !.verdict[t] = "None"] \in Reached(b, strict)
    BY VerdictKeepsReach, Zenon
  <2> QED BY <1>1, <1>3, <2>1, <2>2, <2>3
<1> QED BY <1>1, <1>4, <1>5

LEMMA VerdictsWithin ==
    ASSUME NEW b \in Candidates, NEW strict \in BOOLEAN, Sound(b), NEW d \in Reached(b, strict),
           NEW ok, NEW timer
    PROVE  Verdicts(d, ok, timer) \in Reached(b, strict)
<1> DEFINE S == Reached(b, strict)
<1>1. \A e \in S, t \in Tasks : ApplyVerdict(e, t, ok) \in S BY ApplyVerdictWithin
<1>2. d \in S OBVIOUS
<1> HIDE DEF S
<1>3. Verdicts(d, ok, timer) \in S BY <1>1, <1>2, VerdictWalk
<1> QED BY <1>3 DEF S

\* drive_ready_tasks binds and starts Ready Tasks of a Mission that is running.
LEMMA DriveReadyWithin ==
    ASSUME NEW b \in Candidates, NEW strict \in BOOLEAN, NEW d \in Reached(b, strict),
           NEW bind, NEW send
    PROVE  DriveReady(d, bind, send) \in Reached(b, strict)
<1> DEFINE bound == d.bound \cup (bind \cap Dispatchable(d))
           new   == {t \in send \cap bound \cap Dispatchable(d) : d.att[t] = "None"}
           k     == [t \in Tasks |-> IF t \in new THEN "Sent" ELSE d.att[t]]
           e     == [d EXCEPT !.bound = bound, !.att = k]
<1>1. d \in Candidates BY DEF Reached
<1>2. DriveReady(d, bind, send) = e BY DEF DriveReady
<1>3. /\ bound \in SUBSET Tasks /\ k \in [Tasks -> Attempts]
      /\ \A t \in Tasks : k[t] = d.att[t] \/ (k[t] = "Sent" /\ t \in bound /\ d.task[t] = "Ready"
                                              /\ d.att[t] = "None" /\ d.mission = "Running")
      /\ \A t \in bound \ d.bound : d.task[t] = "Ready" /\ d.mission = "Running"
      /\ d.bound \subseteq bound
  BY <1>1 DEF Candidates, Dispatchable, Attempts, Live
<1> HIDE DEF bound, k
<1>4. e \in Candidates BY <1>1, <1>3, ZenonT(30) DEF Candidates
<1>5. /\ e.bound = bound /\ e.att = k /\ e.mission = d.mission /\ e.group = d.group
      /\ e.hold = d.hold /\ e.stop = d.stop /\ e.lease = d.lease /\ e.err = d.err /\ e.task = d.task
  BY <1>1 DEF Candidates
<1> HIDE DEF e
<1>6. Sound(d) => Sound(e)
  <2> SUFFICES ASSUME Sound(d) PROVE Sound(e) OBVIOUS
  <2>1. \A t \in e.bound : e.task[t] \in {"Ready", "Active", "Awaiting"} BY <1>3, <1>5 DEF Sound
  <2>2. \A t \in Tasks : e.att[t] \in Live => t \in e.bound /\ e.mission \notin MissionEnd
    BY <1>3, <1>5 DEF Sound, MissionEnd
  <2>3. e.group = "Released" => e.bound = {} BY <1>3, <1>5 DEF Sound, MissionEnd
  <2>4. \A t \in Tasks : e.task[t] = "Awaiting" => e.att[t] \notin Live BY <1>3, <1>5 DEF Sound
  <2> QED BY <1>5, <2>1, <2>2, <2>3, <2>4, SMTT(30) DEF Sound, LeaseBlocks
<1>7. Retains(b, d) => Retains(b, e) BY <1>3, <1>5 DEF Retains
<1>8. ~Cancellable(d) => ~Cancellable(e)
  BY <1>3, <1>5 DEF Cancellable, HasLive, SafetyBlocks, MemoryBlocks, LeaseBlocks, Live
<1>9. Follows(b, d) => Follows(b, e) BY <1>5, <1>8 DEF Follows
<1> QED BY <1>2, <1>4, <1>5, <1>6, <1>7, <1>9 DEF Reached

\* One lease: it is granted for an attempt that was just sent, or revoked.
LEMMA PrepareLeaseWithin ==
    ASSUME NEW b \in Candidates, NEW strict \in BOOLEAN, NEW e \in Reached(b, strict),
           NEW d, NEW t \in Tasks, NEW ok
    PROVE  PrepareLease(d, e, t, ok) \in Reached(b, strict)
<1> DEFINE k == [e.lease EXCEPT ![t] = "Granted"]
           g == [e EXCEPT !.lease = k]
<1>1. e \in Candidates BY DEF Reached
<1>2. \/ PrepareLease(d, e, t, ok) \in {e, Revoke(e, t)}
      \/ PrepareLease(d, e, t, ok) = g /\ e.att[t] = "Sent"
  BY DEF PrepareLease
<1>3. Revoke(e, t) \in Reached(b, strict) BY <1>1, RevokeOpens, OpensKeepsReach
<1>4. ASSUME e.att[t] = "Sent" PROVE g \in Reached(b, strict)
  <2>1. /\ k \in [Tasks -> {"None", "Granted", "Revoked", "Acked"}]
        /\ \A s \in Tasks : k[s] = IF s = t THEN "Granted" ELSE e.lease[s]
    BY <1>1 DEF Candidates
  <2> HIDE DEF k
  <2>2. g \in Candidates BY <1>1, <2>1, SMTT(30) DEF Candidates
  <2>3. /\ g.lease = k /\ g.mission = e.mission /\ g.group = e.group /\ g.hold = e.hold
        /\ g.bound = e.bound /\ g.task = e.task /\ g.att = e.att /\ g.stop = e.stop /\ g.err = e.err
    BY <1>1 DEF Candidates
  <2> HIDE DEF g
  <2>4. Sound(e) => Sound(g)
    <3> SUFFICES ASSUME Sound(e) PROVE Sound(g) OBVIOUS
    <3>1. t \in e.bound /\ e.mission \notin MissionEnd BY <1>4 DEF Sound, Live
    <3>2. e.task[t] # "Completed" BY <3>1 DEF Sound
    <3> QED BY <2>1, <2>3, <3>1, <3>2, SMTT(30) DEF Sound, LeaseBlocks
  <2>5. Retains(b, e) => Retains(b, g) BY <2>3 DEF Retains
  <2>6. ~Cancellable(e) => ~Cancellable(g)
    BY <2>1, <2>3 DEF Cancellable, HasLive, SafetyBlocks, MemoryBlocks, LeaseBlocks
  <2>7. Follows(b, e) => Follows(b, g) BY <2>3, <2>6 DEF Follows
  <2> QED BY <2>2, <2>3, <2>4, <2>5, <2>7 DEF Reached
<1> QED BY <1>2, <1>3, <1>4

LEMMA PrepareMemoryWithin ==
    ASSUME NEW b \in Candidates, NEW strict \in BOOLEAN, NEW d \in Reached(b, strict), NEW ok
    PROVE  PrepareMemory(d, ok) \in Reached(b, strict)
<1> DEFINE S == Reached(b, strict)
<1>1. \A e \in S, t \in Tasks : PrepareLease(d, e, t, ok) \in S BY PrepareLeaseWithin
<1>2. d \in S OBVIOUS
<1> HIDE DEF S
<1>3. PrepareMemory(d, ok) \in S BY <1>1, <1>2, MemoryWalk
<1> QED BY <1>3 DEF S

-----------------------------------------------------------------------------
(* Transactions *)

\* The installed state satisfies the invariant of a candidate, and a transaction failed only
\* on a lost cancellation.
MInv == /\ c \in Candidates /\ ~c.err /\ Sound(c)
        /\ halted \in BOOLEAN /\ (halted => LostCancel(c))

\* The facts of a batch keep a candidate in the state its first stage expects.
Accepted(d) ==
    /\ d \in Candidates /\ ~d.err /\ Sound(d) /\ Retains(c, d)
    /\ d.mission = c.mission /\ (d.group = "Blocked" => c.group = "Blocked")

\* All stages of a fact batch or timer tick, and the installation of what they leave.
LEMMA BatchKeeps ==
    ASSUME MInv, NEW d, Accepted(d), NEW ch, NEW timer, ReduceWith(d, ch, timer)
    PROVE  MInv' /\ Retains(c, c')
<1> DEFINE a == PendingCancellation(d)
           o == Outcomes(a)
           e == PendingSatisfaction(o, ch.ok)
           f == Verdicts(e, ch.ok, timer)
           g == DriveReady(f, ch.bind, ch.send)
           h == PrepareMemory(g, ch.ok)
           R == Reached(c, TRUE)
<1>1. c \in Candidates /\ Sound(c) /\ ~c.err /\ halted \in BOOLEAN BY DEF MInv
<1>2. a \in R /\ ~a.err BY <1>1, PendingCancellationWithin, Zenon DEF Accepted
<1>3. Install(h) BY DEF ReduceWith
<1> HIDE DEF a
<1>4. o \in R /\ ~o.err BY <1>1, <1>2, OutcomesWithin, Zenon
<1> HIDE DEF o
<1>5. e \in R BY <1>1, <1>4, SatisfactionWithin, Zenon
<1> HIDE DEF e
<1>6. f \in R BY <1>1, <1>5, VerdictsWithin, Zenon
<1> HIDE DEF f
<1>7. g \in R BY <1>1, <1>6, DriveReadyWithin, Zenon
<1> HIDE DEF g
<1>8. h \in R BY <1>1, <1>7, PrepareMemoryWithin, Zenon
<1> HIDE DEF h
<1>9. CASE h.err
  <2>1. c' = c /\ halted' = TRUE /\ LostCancel(c) BY <1>3, <1>8, <1>9 DEF Install, Reached
  <2> QED BY <1>1, <2>1 DEF MInv, Retains, LostCancel, Unproved
<1>10. CASE ~h.err
  <2>1. c' = h /\ halted' = FALSE BY <1>1, <1>3, <1>10 DEF Install
  <2>2. h \in Candidates /\ Sound(h) /\ Retains(c, h) BY <1>8, <1>10 DEF Reached
  <2> QED BY <1>10, <2>1, <2>2, Zenon DEF MInv
<1> QED BY <1>9, <1>10

\* Both kinds of batch.
LEMMA BatchesKeep ==
    ASSUME MInv, NEW d, Accepted(d), FactBatch(d) \/ Tick(d)
    PROVE  MInv' /\ Retains(c, c')
BY BatchKeeps, Zenon DEF FactBatch, Tick

\* A request installs its candidate or is refused.
LEMMA RequestKeeps ==
    ASSUME MInv, NEW d \in Reached(c, FALSE), ~d.err, c' = d, UNCHANGED halted, ~halted
    PROVE  MInv' /\ Retains(c, c')
BY DEF Reached, MInv

LEMMA StatusFactAccepted ==
    ASSUME MInv, NEW t \in Tasks, NEW s \in Attempts, StatusFact(t, s)
    PROVE  MInv' /\ Retains(c, c')
<1> DEFINE ka == [c.att EXCEPT ![t] = s]
           kt == [c.task EXCEPT ![t] = IF @ = "Ready" /\ t \in c.bound THEN "Active" ELSE @]
           gr == IF c.group = "Bound" /\ c.task[t] = "Ready" /\ t \in c.bound
                 THEN "Active" ELSE c.group
           d  == [c EXCEPT !.att = ka, !.task = kt, !.group = gr]
<1>1. c \in Candidates /\ ~c.err /\ Sound(c) BY DEF MInv
<1>2. c.att[t] \in Live BY DEF StatusFact, Live
<1>3. FactBatch(d) BY DEF StatusFact
<1>4. t \in c.bound /\ c.mission \notin MissionEnd /\ c.task[t] \in {"Ready", "Active"}
  BY <1>1, <1>2 DEF Sound, Candidates
<1>5. ka \in [Tasks -> Attempts] /\ \A u \in Tasks : ka[u] = IF u = t THEN s ELSE c.att[u]
  BY <1>1 DEF Candidates
<1>6. kt \in [Tasks -> TaskStates] /\ \A u \in Tasks : kt[u] = IF u = t THEN "Active" ELSE c.task[u]
  BY <1>1, <1>4 DEF Candidates, TaskStates
<1>7. gr \in Groups /\ gr # "Bound" /\ (gr = c.group \/ (gr = "Active" /\ c.group = "Bound"))
  BY <1>1, <1>4 DEF Candidates, Groups, Sound
<1> HIDE DEF ka, kt, gr
<1>8. d \in Candidates BY <1>1, <1>5, <1>6, <1>7, ZenonT(30) DEF Candidates
<1>9. /\ d.att = ka /\ d.task = kt /\ d.group = gr /\ d.mission = c.mission /\ d.hold = c.hold
      /\ d.bound = c.bound /\ d.stop = c.stop /\ d.lease = c.lease /\ d.err = c.err
  BY <1>1 DEF Candidates
<1> HIDE DEF d
<1>10. Sound(d)
  <2>1. \A u \in d.bound : d.task[u] \in {"Ready", "Active", "Awaiting"}
    BY <1>1, <1>6, <1>8, <1>9 DEF Sound, Candidates
  <2>2. \A u \in Tasks : d.task[u] # "Pending" => \A v \in Deps[u] : d.task[v] = "Completed"
    BY <1>1, <1>4, <1>6, <1>9, PlanAssumption DEF Sound
  <2>3. d.mission = "Completed" <=> \A u \in Tasks : d.task[u] = "Completed"
    BY <1>4, <1>6, <1>9 DEF MissionEnd
  <2>4. \A u \in Tasks : d.task[u] = "Awaiting" => d.att[u] \notin Live
    BY <1>1, <1>5, <1>6, <1>9 DEF Sound
  <2>5. \A u \in Tasks : d.att[u] \in Live => u \in d.bound /\ d.mission \notin MissionEnd
    BY <1>1, <1>4, <1>5, <1>9 DEF Sound
  <2> QED BY <1>1, <1>4, <1>6, <1>7, <1>9, <2>1, <2>2, <2>3, <2>4, <2>5, SMTT(30)
     DEF Sound, LeaseBlocks
<1>11. Accepted(d) BY <1>1, <1>7, <1>8, <1>9, <1>10 DEF Accepted, Retains, Unproved
<1> QED BY <1>3, <1>11, BatchesKeep

\* A fenced relation, a proved or escalated stop, an acknowledged lease and a verdict change
\* only what the invariant says little about.
LEMMA StopFactsAccepted ==
    ASSUME MInv, NEW t \in Tasks, RelationFenced(t) \/ StopProof(t) \/ StopEscalates(t)
    PROVE  MInv' /\ Retains(c, c')
<1> USE DEF Unproved
<1>1. c \in Candidates /\ ~c.err /\ Sound(c) BY DEF MInv
<1>2. ASSUME NEW d \in Candidates, d.mission = c.mission, d.group = c.group, d.bound = c.bound,
             d.task = c.task, d.att = c.att, d.lease = c.lease, d.err = c.err,
             d.hold = c.hold \/ c.mission \notin MissionEnd,
             \A s \in Tasks : c.stop[s] \in Unproved => d.stop[s] # "None"
      PROVE  Accepted(d)
  <2>1. Sound(d) BY <1>1, <1>2, SMTT(30) DEF Sound, LeaseBlocks
  <2> QED BY <1>1, <1>2, <2>1 DEF Accepted, Retains
<1>3. CASE RelationFenced(t)
  <2> DEFINE d == Admit(c, t)
             k == [s \in Tasks |-> IF c.stop[s] = "None" /\ (s = t \/ c.att[s] \in Live)
                                   THEN "Open" ELSE c.stop[s]]
             h == IF c.hold = "None" /\ c.mission # "Cancelling" THEN "Safety" ELSE c.hold
  <2>1. d \in {c, [c EXCEPT !.hold = h, !.stop = k]} /\ (d # c => c.mission \notin MissionEnd)
    BY <1>1, ZenonT(30) DEF Admit, HoldForSafety, Candidates
  <2>2. /\ k \in [Tasks -> {"None", "Open", "Manual", "Confirmed"}]
        /\ h \in {"None", "Safety", "Contract"}
    BY <1>1 DEF Candidates
  <2>3. \A s \in Tasks : c.stop[s] \in Unproved => k[s] # "None" OBVIOUS
  <2> HIDE DEF k, h, d
  <2>4. d \in Candidates
    <3>1. [c EXCEPT !.hold = h, !.stop = k] \in Candidates BY <1>1, <2>2, Zenon DEF Candidates
    <3> QED BY <1>1, <2>1, <3>1
  <2>5. /\ d.mission = c.mission /\ d.group = c.group /\ d.bound = c.bound /\ d.task = c.task
        /\ d.att = c.att /\ d.lease = c.lease /\ d.err = c.err
        /\ d.hold = c.hold \/ c.mission \notin MissionEnd
        /\ d.stop = c.stop \/ d.stop = k
    BY <1>1, <2>1, ZenonT(30) DEF Candidates
  <2>6. Accepted(d) BY <1>2, <2>3, <2>4, <2>5
  <2> QED BY <1>3, <2>6, BatchesKeep DEF RelationFenced, d
<1>4. ASSUME NEW v \in {"Confirmed", "Manual"},
             FactBatch([c EXCEPT !.stop[t] = v]) \/ Tick([c EXCEPT !.stop[t] = v])
      PROVE  MInv' /\ Retains(c, c')
  <2> DEFINE k == [c.stop EXCEPT ![t] = v]
             d == [c EXCEPT !.stop = k]
  <2>1. /\ k \in [Tasks -> {"None", "Open", "Manual", "Confirmed"}]
        /\ \A s \in Tasks : c.stop[s] \in Unproved => k[s] # "None"
    BY <1>1 DEF Candidates
  <2>2. FactBatch(d) \/ Tick(d) BY <1>4
  <2> HIDE DEF k
  <2>3. d \in Candidates BY <1>1, <2>1 DEF Candidates
  <2>4. /\ d.mission = c.mission /\ d.group = c.group /\ d.bound = c.bound /\ d.task = c.task
        /\ d.att = c.att /\ d.lease = c.lease /\ d.err = c.err /\ d.hold = c.hold /\ d.stop = k
    BY <1>1 DEF Candidates
  <2> HIDE DEF d
  <2>5. Accepted(d) BY <1>2, <2>1, <2>3, <2>4
  <2> QED BY <2>2, <2>5, BatchesKeep
<1> QED BY <1>3, <1>4 DEF StopProof, StopEscalates

LEMMA LeaseFactAccepted ==
    ASSUME MInv, NEW t \in Tasks, LeaseAcknowledged(t)
    PROVE  MInv' /\ Retains(c, c')
<1> DEFINE k == [c.lease EXCEPT ![t] = "Acked"]
           d == [c EXCEPT !.lease = k]
<1>1. c \in Candidates /\ ~c.err /\ Sound(c) BY DEF MInv
<1>2. /\ k \in [Tasks -> {"None", "Granted", "Revoked", "Acked"}]
      /\ \A s \in Tasks : k[s] = IF s = t THEN "Acked" ELSE c.lease[s]
  BY <1>1 DEF Candidates
<1>3. FactBatch(d) BY DEF LeaseAcknowledged
<1> HIDE DEF k
<1>4. d \in Candidates BY <1>1, <1>2, SMTT(30) DEF Candidates
<1>5. /\ d.mission = c.mission /\ d.group = c.group /\ d.bound = c.bound /\ d.task = c.task
      /\ d.att = c.att /\ d.lease = k /\ d.err = c.err /\ d.hold = c.hold /\ d.stop = c.stop
  BY <1>1 DEF Candidates
<1> HIDE DEF d
<1>6. Sound(d) BY <1>1, <1>2, <1>5, SMTT(30) DEF Sound, LeaseBlocks
<1>7. Accepted(d) BY <1>1, <1>4, <1>5, <1>6 DEF Accepted, Retains, Unproved
<1> QED BY <1>3, <1>7, BatchesKeep

LEMMA VerdictFactAccepted ==
    ASSUME MInv, NEW t \in Tasks,
           VerdictExpires(t) \/ \E v \in {"Satisfied", "Unsatisfied"} : VerdictFact(t, v)
    PROVE  MInv' /\ Retains(c, c')
<1>1. c \in Candidates /\ ~c.err /\ Sound(c) BY DEF MInv
<1>2. PICK v \in {"None", "Satisfied", "Unsatisfied"} :
        (VerdictExpires(t) /\ v = "None") \/ VerdictFact(t, v)
  OBVIOUS
<1> DEFINE k == [c.verdict EXCEPT ![t] = v]
           d == [c EXCEPT !.verdict = k]
<1>3. k \in [Tasks -> {"None", "Satisfied", "Unsatisfied"}] BY <1>1 DEF Candidates
<1>4. \/ Tick(d)
      \/ ~halted /\ \E ch \in Answers :
            \E e \in {DriveReady(Verdicts(d, ch.ok, FALSE), ch.bind, ch.send)} :
                ~e.err /\ c' = e /\ UNCHANGED halted
  <2>1. CASE VerdictExpires(t) /\ v = "None" BY <2>1 DEF VerdictExpires
  <2>2. CASE VerdictFact(t, v)
    <3>1. d = [c EXCEPT !.verdict[t] = v] OBVIOUS
    <3> HIDE DEF d
    <3> QED BY <2>2, <3>1, ZenonT(30) DEF VerdictFact
  <2> QED BY <1>2, <2>1, <2>2, Zenon
<1> HIDE DEF k
<1>5. d \in Candidates BY <1>1, <1>3 DEF Candidates
<1>6. /\ d.mission = c.mission /\ d.group = c.group /\ d.bound = c.bound /\ d.task = c.task
      /\ d.att = c.att /\ d.lease = c.lease /\ d.err = c.err /\ d.hold = c.hold /\ d.stop = c.stop
  BY <1>1 DEF Candidates
<1> HIDE DEF d
<1>7. Sound(d) BY <1>1, <1>6, SMTT(30) DEF Sound, LeaseBlocks
<1>8. Accepted(d) BY <1>1, <1>5, <1>6, <1>7 DEF Accepted, Retains, Unproved
<1>9. CASE Tick(d) BY <1>8, <1>9, BatchesKeep
<1>10. CASE ~halted /\ \E ch \in Answers :
              \E e \in {DriveReady(Verdicts(d, ch.ok, FALSE), ch.bind, ch.send)} :
                  ~e.err /\ c' = e /\ UNCHANGED halted
  <2>1. PICK ch \in Answers :
          /\ ~DriveReady(Verdicts(d, ch.ok, FALSE), ch.bind, ch.send).err
          /\ c' = DriveReady(Verdicts(d, ch.ok, FALSE), ch.bind, ch.send) /\ UNCHANGED halted
    BY <1>10, ZenonT(30)
  <2>2. d \in Reached(c, FALSE) BY <1>8 DEF Accepted, Reached
  <2>3. Verdicts(d, ch.ok, FALSE) \in Reached(c, FALSE) BY <1>1, <2>2, VerdictsWithin, Zenon
  <2>4. DriveReady(Verdicts(d, ch.ok, FALSE), ch.bind, ch.send) \in Reached(c, FALSE)
    BY <1>1, <2>3, DriveReadyWithin, Zenon
  <2> QED BY <1>10, <2>1, <2>4, RequestKeeps, Zenon
<1> QED BY <1>4, <1>9, <1>10, Zenon

LEMMA TimerAccepted ==
    ASSUME MInv, Timer
    PROVE  MInv' /\ Retains(c, c')
<1>1. Accepted(c) BY DEF MInv, Accepted, Retains, Unproved
<1> QED BY <1>1, BatchesKeep DEF Timer

\* request_cancel blocks the Group of a Mission that has not ended.
LEMMA CancelRequestKeeps ==
    ASSUME MInv, CancelRequest
    PROVE  MInv' /\ Retains(c, c')
<1> DEFINE a == AdmitGroupStop(c)
           r == RevokeGroup(a)
           d == RequestCancel(r)
           e == IF Cancellable(d) THEN FinalizeCancel(d) ELSE d
<1>1. c \in Candidates /\ ~c.err /\ Sound(c) /\ c.mission \notin MissionEnd /\ ~halted
  BY DEF MInv, CancelRequest
<1>2. ~e.err /\ c' = e /\ UNCHANGED halted BY DEF CancelRequest
<1>3. c \in Reached(c, FALSE) BY <1>1 DEF Reached, Retains, Unproved
<1>4. Opens(c, a) BY <1>1, AdmitGroupStopOpens
<1> HIDE DEF a
<1>5. a \in Candidates BY <1>4 DEF Opens
<1>6. Opens(a, r) BY <1>5, RevokeGroupOpens
<1> HIDE DEF r
<1>7. r \in Reached(c, FALSE) BY <1>1, <1>3, <1>4, <1>6, OpensKeepsReach, ZenonT(30)
<1>8. r \in Candidates /\ ~r.err /\ r.mission = c.mission BY <1>1, <1>4, <1>6 DEF Opens
<1>9. Sound(r) /\ Retains(c, r) BY <1>7, <1>8 DEF Reached
<1>10. r.group \in {"Bound", "Active", "Blocked"} BY <1>1, <1>8, <1>9 DEF Sound, Candidates, Groups
<1>11. d = [r EXCEPT !.mission = "Cancelling", !.group = "Blocked"]
  BY <1>8, <1>10, Zenon DEF RequestCancel, Progressing, Candidates
<1>12. d \in Candidates
  <2>1. [r EXCEPT !.mission = "Cancelling", !.group = "Blocked"] \in Candidates
    <3>1. "Cancelling" \in Missions /\ "Blocked" \in Groups BY DEF Missions, Groups
    <3> QED BY <1>8, <3>1, ZenonT(30) DEF Candidates
  <2> QED BY <1>11, <2>1
<1>13. /\ d.mission = "Cancelling" /\ d.group = "Blocked" /\ d.hold = r.hold /\ d.bound = r.bound
       /\ d.task = r.task /\ d.att = r.att /\ d.stop = r.stop /\ d.lease = r.lease /\ ~d.err
  BY <1>8, <1>11 DEF Candidates
<1> HIDE DEF d
<1>14. Sound(d) BY <1>1, <1>8, <1>9, <1>13, SMTT(30) DEF Sound, LeaseBlocks, MissionEnd
<1>15. Retains(c, d) BY <1>9, <1>13 DEF Retains
<1>16. d \in Reached(c, FALSE) BY <1>12, <1>13, <1>14, <1>15 DEF Reached
<1>17. Cancellable(d) => FinalizeCancel(d) \in Reached(c, FALSE)
  BY <1>1, <1>12, <1>13, <1>14, <1>15, FinalizeCancelWithin, Zenon
<1>18. e \in Reached(c, FALSE) BY <1>16, <1>17, Zenon
<1> HIDE DEF e
<1> QED BY <1>1, <1>2, <1>18, RequestKeeps, Zenon

\* resume applies the outcomes that waited and drives what is ready.
LEMMA ResumeRequestKeeps ==
    ASSUME MInv, ResumeRequest
    PROVE  MInv' /\ Retains(c, c')
<1> DEFINE n == [c EXCEPT !.hold = "None"]
           o == Outcomes(n)
<1>1. c \in Candidates /\ ~c.err /\ Sound(c) /\ ~halted BY DEF MInv, ResumeRequest
<1>2. PICK ch \in Answers :
        /\ ~DriveReady(PendingSatisfaction(o, ch.ok), ch.bind, ch.send).err
        /\ c' = DriveReady(PendingSatisfaction(o, ch.ok), ch.bind, ch.send) /\ UNCHANGED halted
  BY DEF ResumeRequest
<1>3. n \in Candidates BY <1>1 DEF Candidates
<1>4. /\ n.mission = c.mission /\ n.group = c.group /\ n.bound = c.bound /\ n.task = c.task
      /\ n.att = c.att /\ n.lease = c.lease /\ n.err = c.err /\ n.hold = "None" /\ n.stop = c.stop
  BY <1>1 DEF Candidates
<1> HIDE DEF n
<1>5. Sound(n) BY <1>1, <1>4, SMTT(30) DEF Sound, LeaseBlocks
<1>6. n \in Reached(c, FALSE) BY <1>1, <1>3, <1>4, <1>5 DEF Reached, Retains, Unproved
<1>7. o \in Reached(c, FALSE) /\ ~o.err BY <1>1, <1>4, <1>6, OutcomesWithin, Zenon
<1> HIDE DEF o
<1>8. PendingSatisfaction(o, ch.ok) \in Reached(c, FALSE) BY <1>1, <1>7, SatisfactionWithin, Zenon
<1>9. DriveReady(PendingSatisfaction(o, ch.ok), ch.bind, ch.send) \in Reached(c, FALSE)
  BY <1>1, <1>8, DriveReadyWithin, Zenon
<1> QED BY <1>1, <1>2, <1>9, RequestKeeps, Zenon

-----------------------------------------------------------------------------
(* Theorems *)

\* A Mission that was just accepted.
LEMMA MInitInv == MInit => MInv
<1> SUFFICES ASSUME MInit PROVE MInv OBVIOUS
<1>1. PICK s \in Sources : c = [
        mission |-> "Running", hold |-> "None", group |-> "Bound", source |-> s,
        task    |-> [t \in Tasks |-> IF t \in Roots THEN "Ready" ELSE "Pending"],
        bound   |-> {}, att |-> [t \in Tasks |-> "None"], stop |-> [t \in Tasks |-> "None"],
        lease   |-> [t \in Tasks |-> "None"], verdict |-> [t \in Tasks |-> "None"], err |-> FALSE]
  BY Zenon DEF MInit
<1>2. TaskSeq[1] \in Tasks BY PlanAssumption
<1>3. c \in Candidates
  BY <1>1 DEF Candidates, Missions, Groups, TaskStates, Attempts
<1>4. Sound(c)
  BY <1>1, <1>2, SMTT(30) DEF Sound, LeaseBlocks, Roots, MissionEnd, Live
<1> QED BY <1>1, <1>3, <1>4, Zenon DEF MInv, MInit

\* Every step of the Mission.
LEMMA MNextKeeps ==
    ASSUME MInv, [MNext]_mvars
    PROVE  MInv' /\ Retains(c, c')
<1>1. CASE UNCHANGED mvars
  BY <1>1 DEF mvars, MInv, Retains, Unproved, LostCancel
<1>2. CASE MNext
  BY <1>2, StatusFactAccepted, StopFactsAccepted, LeaseFactAccepted, VerdictFactAccepted,
     TimerAccepted, CancelRequestKeeps, ResumeRequestKeeps DEF MNext
<1> QED BY <1>1, <1>2

\* The inductive invariant, for every Task graph.
THEOREM MissionInvariant == MSpec => []MInv
BY MInitInv, MNextKeeps, PTL DEF MSpec

\* The Controller state of a Mission keeps its shape.
THEOREM MissionTypeCorrect == MSpec => []MissionTypeOK
<1>1. MInv => MissionTypeOK BY DEF MInv, MissionTypeOK, Sound
<1> QED BY <1>1, MissionInvariant, PTL

\* While an attempt may be running, its Task keeps its reservations and the Mission goes on.
THEOREM LiveAttemptsKeepOwnership == MSpec => []OwnershipCoversLiveAttempts
<1>1. MInv => OwnershipCoversLiveAttempts BY DEF MInv, OwnershipCoversLiveAttempts, Sound
<1> QED BY <1>1, MissionInvariant, PTL

\* A Mission that ended holds nothing, and nothing else releases its Group.
THEOREM MissionEndReleases == MSpec => []EndedHoldsNothing
<1>1. MInv => EndedHoldsNothing BY DEF MInv, EndedHoldsNothing, Sound
<1> QED BY <1>1, MissionInvariant, PTL

\* The Task graph is respected, and Completed is said of a Mission exactly when it is true.
THEOREM DependenciesRespected == MSpec => []DependenciesFirst
<1>1. MInv => DependenciesFirst BY DEF MInv, DependenciesFirst, Sound
<1> QED BY <1>1, MissionInvariant, PTL

\* No Task is satisfied and no Mission ends over a Memory lease that is not fenced.
THEOREM LeasesFencedFirst == MSpec => []ReleasedAfterLeaseFence
<1>1. MInv => ReleasedAfterLeaseFence BY DEF MInv, ReleasedAfterLeaseFence, Sound
<1> QED BY <1>1, MissionInvariant, PTL

\* A batch fails, and the Controller stops, only on a Mission whose cancellation was lost.
THEOREM OnlyLostCancelHalts == MSpec => []HaltsOnlyOnLostCancel
<1>1. MInv => HaltsOnlyOnLostCancel BY DEF MInv, HaltsOnlyOnLostCancel, LostCancel
<1> QED BY <1>1, MissionInvariant, PTL

\* No transaction gives up reservations over a stop that was demanded and is not proved.
THEOREM StopsProvedBeforeRelease == MSpec => StopBeforeRelease
<1>1. MInv /\ [MNext]_mvars =>
        [\A t \in c.bound \ c'.bound :
            /\ c'.stop[t] \notin Unproved
            /\ \A s \in Tasks : c.stop[s] \in Unproved => c'.stop[s] \notin Unproved]_mvars
  BY MNextKeeps DEF Retains
<1> QED BY <1>1, MissionInvariant, PTL DEF MSpec, StopBeforeRelease

=============================================================================

--------------------------- MODULE RoleRecoveryProofs ---------------------------
(***************************************************************************)
(* Proofs about RoleRecovery, for any roles, Tasks, Nodes, reports,        *)
(* budgets and bounds.  The inductive invariant: what Control has released *)
(* and what the Runtime believes of the attempts agree at every            *)
(* transaction.  The Runtime keeps its half, the recovery pipeline both.   *)
(***************************************************************************)
EXTENDS RoleRecovery, TLAPS

(* The Runtime's half of the invariant. *)
RuntimeTypes ==
    /\ known \subseteq Attempt
    /\ owner  \in [Attempt -> Nodes \cup {NoNode}]
    /\ status \in [Attempt -> Live \cup Terminal \cup {"None"}]
    /\ seq    \in [Attempt -> Int]
    /\ active \in [Slots -> 0 .. MaxGen]

Contexts ==
    /\ \A a \in known : owner[a] \in Nodes /\ status[a] # "None" /\ active[a[1]] # 0
    /\ \A s \in Slots : active[s] # 0 => Current(s) \in known

Superseded(s) == \E a \in known : a[1] = s /\ a[2] < active[s]

\* A replacement of this process that no Node has reported on is still to be announced.
ToBeAnnounced(s) ==
    active[s] # 0 /\ Current(s) \notin restored /\ seq[Current(s)] = -1 /\ Superseded(s)
    => Current(s) \in reactivating

RuntimeInv ==
    /\ RuntimeTypes
    /\ Contexts
    /\ OneLiveAttempt
    /\ \A s \in Slots : ToBeAnnounced(s)

(* Control's half: the release, and Tasks that no Node evidence activated. *)
ControlTypes ==
    /\ group \in {"Bound", "Active", "Adapted", "Blocked"}
    /\ task \in [Tasks -> {"Ready", "Active"}]
    /\ bind \in [Slots -> Nodes \cup {NoNode}]
    /\ need \subseteq Slots

OneRelease ==
    /\ \A r, s \in need : r = s
    /\ need # {} <=> group = "Blocked"
    /\ \A s \in need : bind[s] = NoNode /\ active[s] # 0 /\ status[Current(s)] = "Cancelled"

Undispatched(t) ==
    /\ \A s \in SlotsOf(t) : active[s] = 0
    /\ (\A s \in SlotsOf(t) : bind[s] = NoNode) \/ (\A s \in SlotsOf(t) : bind[s] # NoNode)

Awaiting(t) ==
    \A s \in SlotsOf(t) : /\ active[s] # 0 /\ bind[s] = owner[Current(s)]
                          /\ ~ProvesActivation(status[Current(s)])

Waiting(t) == task[t] = "Ready" => t \notin activated /\ (Undispatched(t) \/ Awaiting(t))

RecoveryInv ==
    /\ RuntimeInv
    /\ ControlTypes
    /\ OneRelease
    /\ \A t \in Tasks : Waiting(t)

-----------------------------------------------------------------------------
(***************************************************************************)
(* The Runtime's half                                                      *)
(***************************************************************************)

\* Every attempt is the pair of its slot and its generation.
LEMMA AttemptPairs ==
  /\ \A a \in Attempt : a[1] \in Slots /\ a[2] \in 1 .. MaxGen /\ a = <<a[1], a[2]>>
  /\ \A s \in Slots, g \in 1 .. MaxGen : <<s, g>> \in Attempt
  BY DEF Attempt

\* What prepare_dispatch does: the fresh attempts are new, Dispatched, current and owned by
\* their Nodes, and every attempt that had a context keeps its status and its owner.
LEMMA PrepareEffect ==
  ASSUME RuntimeTypes, NEW S \in SUBSET Slots, NEW g \in [S -> 1 .. MaxGen], NEW n,
         \A s \in S : n[s] \in Nodes, Prepare(S, g, n)
  PROVE  /\ RuntimeTypes'
         /\ known' = known \cup {<<s, g[s]>> : s \in S}
         /\ \A s \in S : /\ <<s, g[s]>> \in Attempt \ known /\ active'[s] = g[s] /\ g[s] # 0
                         /\ status'[<<s, g[s]>>] = "Dispatched" /\ owner'[<<s, g[s]>>] = n[s]
         /\ \A s \in Slots \ S : active'[s] = active[s]
         /\ \A a \in known : status'[a] = status[a] /\ owner'[a] = owner[a]
<1>1. \A s \in S : g[s] \in 1 .. MaxGen /\ g[s] # 0 /\ <<s, g[s]>> \in Attempt \ known
  BY AttemptPairs, BoundAssumption DEF Prepare, Allocates
<1>2. known' = known \cup {<<s, g[s]>> : s \in S} /\ known' \subseteq Attempt
  BY <1>1 DEF Prepare, RuntimeTypes
<1>3. /\ owner'  \in [Attempt -> Nodes \cup {NoNode}]
      /\ status' \in [Attempt -> Live \cup Terminal \cup {"None"}]
  BY DEF Prepare, RuntimeTypes, Live
<1>4. active' \in [Slots -> 0 .. MaxGen] /\ seq' = seq
  BY BoundAssumption DEF Prepare, RuntimeTypes
<1>5. ASSUME NEW s \in S
      PROVE  /\ active'[s] = g[s]
             /\ status'[<<s, g[s]>>] = "Dispatched" /\ owner'[<<s, g[s]>>] = n[s]
  BY <1>1 DEF Prepare
<1>6. \A s \in Slots \ S : active'[s] = active[s]
  BY DEF Prepare
<1>7. ASSUME NEW a \in known PROVE status'[a] = status[a] /\ owner'[a] = owner[a]
  <2>1. a \in Attempt /\ a = <<a[1], a[2]>>
    BY AttemptPairs DEF RuntimeTypes
  <2>2. ~(a[1] \in S /\ a[2] = g[a[1]])
    BY <1>1, <2>1
  <2> QED BY <2>1, <2>2 DEF Prepare
<1> QED BY <1>1, <1>2, <1>3, <1>4, <1>5, <1>6, <1>7 DEF RuntimeTypes

\* Preparing fresh attempts keeps the Runtime's half when every attempt they supersede has
\* reported Cancelled.
LEMMA PrepareKeeps ==
  ASSUME RuntimeInv, NEW S \in SUBSET Slots, NEW g \in [S -> 1 .. MaxGen], NEW n,
         \A s \in S : n[s] \in Nodes,
         \A s \in S : active[s] # 0 => status[Current(s)] = "Cancelled",
         Prepare(S, g, n)
  PROVE  RuntimeInv'
<1> DEFINE New == {<<s, g[s]>> : s \in S}
<1>1. RuntimeTypes
  BY DEF RuntimeInv
<1>2. /\ RuntimeTypes'
      /\ known' = known \cup New
      /\ \A s \in S : /\ <<s, g[s]>> \in Attempt \ known /\ active'[s] = g[s] /\ g[s] # 0
                      /\ status'[<<s, g[s]>>] = "Dispatched" /\ owner'[<<s, g[s]>>] = n[s]
      /\ \A s \in Slots \ S : active'[s] = active[s]
      /\ \A a \in known : status'[a] = status[a] /\ owner'[a] = owner[a]
  BY <1>1, PrepareEffect, SMTT(30)
<1>3. \A a \in known : a[1] \in Slots /\ a = <<a[1], a[2]>>
  BY <1>1, AttemptPairs DEF RuntimeTypes
<1>4. Contexts'
  <2>1. ASSUME NEW a \in known'
        PROVE  owner'[a] \in Nodes /\ status'[a] # "None" /\ active'[a[1]] # 0
    <3>1. CASE a \in New
      <4>1. PICK s \in S : a = <<s, g[s]>>
        BY <3>1
      <4>2. a[1] = s
        BY <4>1
      <4> QED BY <1>2, <4>1, <4>2
    <3>2. CASE a \in known
      <4>1. owner[a] \in Nodes /\ status[a] # "None" /\ active[a[1]] # 0 /\ a[1] \in Slots
        BY <1>3, <3>2 DEF RuntimeInv, Contexts
      <4>2. active'[a[1]] # 0
        BY <1>2, <4>1, Zenon
      <4> QED BY <1>2, <3>2, <4>1, <4>2
    <3> QED BY <1>2, <3>1, <3>2
  <2>2. ASSUME NEW s \in Slots, active'[s] # 0 PROVE Current(s)' \in known'
    <3>1. CASE s \in S
      BY <1>2, <3>1, Zenon DEF Current
    <3>2. CASE s \notin S
      BY <1>2, <2>2, <3>2 DEF RuntimeInv, Contexts, Current
    <3> QED BY <3>1, <3>2
  <2> QED BY <2>1, <2>2 DEF Contexts
<1>5. OneLiveAttempt'
  <2>1. ASSUME NEW a \in known', status'[a] \in Live PROVE active'[a[1]] = a[2]
    <3>1. CASE a \in New
      BY <1>2, <3>1
    <3>2. CASE a \in known
      <4>1. status[a] \in Live /\ active[a[1]] = a[2] /\ active[a[1]] # 0
        BY <1>2, <2>1, <3>2 DEF RuntimeInv, OneLiveAttempt, IsCurrent, Contexts
      <4>2. Current(a[1]) = a
        BY <1>3, <3>2, <4>1 DEF Current
      <4>3. a[1] \notin S
        BY <4>1, <4>2 DEF Live
      <4> QED BY <1>2, <1>3, <3>2, <4>1, <4>3
    <3> QED BY <1>2, <3>1, <3>2
  <2> QED BY <2>1 DEF OneLiveAttempt, IsCurrent
<1>6. ASSUME NEW s \in Slots PROVE ToBeAnnounced(s)'
  <2>1. restored' = restored /\ seq' = seq
    BY DEF Prepare
  <2>2. reactivating' = (reactivating \ {Current(r) : r \in S})
                           \cup {<<r, g[r]>> : r \in {r \in S : active[r] # 0}}
    BY DEF Prepare
  <2>3. CASE s \in S /\ active[s] # 0
    BY <1>2, <2>2, <2>3, Zenon DEF ToBeAnnounced, Current
  <2>4. CASE s \in S /\ active[s] = 0
    <3>1. ASSUME NEW a \in known', a[1] = s PROVE a[2] = active'[s]
      <4>1. a \notin known
        BY <2>4, <3>1 DEF RuntimeInv, Contexts
      <4> QED BY <1>2, <3>1, <4>1
    <3>2. active'[s] \in Int
      BY <1>2, BoundAssumption DEF RuntimeTypes
    <3>3. ~Superseded(s)'
      BY <3>1, <3>2 DEF Superseded
    <3> QED BY <3>3 DEF ToBeAnnounced
  <2>5. CASE s \notin S
    <3>1. active'[s] = active[s] /\ Current(s)' = Current(s)
      BY <1>2, <2>5 DEF Current
    <3>2. Superseded(s)' => Superseded(s)
      BY <1>2, <2>5, <3>1 DEF Superseded
    <3>3. Current(s) \in reactivating => Current(s) \in reactivating'
      BY <2>2, <2>5 DEF Current
    <3>4. ToBeAnnounced(s)
      BY DEF RuntimeInv
    <3> QED BY <2>1, <3>1, <3>2, <3>3, <3>4 DEF ToBeAnnounced
  <2> QED BY <2>3, <2>4, <2>5
<1> QED BY <1>2, <1>4, <1>5, <1>6 DEF RuntimeInv

\* A step that leaves contexts, owners, sequences and current attempts alone and makes no
\* attempt live that was not keeps the Runtime's half.
LEMMA StatusKeeps ==
  ASSUME RuntimeInv, UNCHANGED <<known, owner, seq, active>>,
         status' \in [Attempt -> Live \cup Terminal \cup {"None"}],
         \A a \in known : status'[a] # "None" /\ (status'[a] \in Live => status[a] \in Live),
         UNCHANGED <<restored, reactivating>> \/ restored' = known
  PROVE  RuntimeInv'
<1>1. RuntimeTypes' /\ Contexts'
  BY DEF RuntimeInv, RuntimeTypes, Contexts, Current
<1>2. OneLiveAttempt'
  BY DEF RuntimeInv, OneLiveAttempt, IsCurrent
<1>3. ASSUME NEW s \in Slots PROVE ToBeAnnounced(s)'
  <2>1. active'[s] = active[s] /\ Current(s)' = Current(s) /\ (Superseded(s)' <=> Superseded(s))
    BY DEF Current, Superseded
  <2>2. ToBeAnnounced(s) /\ (active[s] # 0 => Current(s) \in known)
    BY DEF RuntimeInv, Contexts
  <2> QED BY <2>1, <2>2 DEF ToBeAnnounced
<1> QED BY <1>1, <1>2, <1>3 DEF RuntimeInv

\* A fact of a Node keeps the Runtime's half and every owner: its author is the owner.
LEMMA FactKeeps ==
  ASSUME RuntimeInv, NEW a \in known, NEW n \in Nodes, NEW q \in 0 .. MaxSeq,
         NEW st \in Reports, NEW t \in Time, ObserveExecution(a, n, q, st, t)
  PROVE  /\ RuntimeInv'
         /\ UNCHANGED <<known, owner, active, restored>>
         /\ status[a] \notin Terminal
         /\ status' = [status EXCEPT ![a] = st]
         /\ \A b \in Attempt \ {a} : status'[b] = status[b]
<1>1. a \in Attempt /\ a[1] \in Slots /\ a = <<a[1], a[2]>>
  BY AttemptPairs DEF RuntimeInv, RuntimeTypes
<1>2. /\ owner[a] \in {NoNode, n} /\ q > seq[a] /\ status[a] \notin Terminal
      /\ owner' = [owner EXCEPT ![a] = n] /\ seq' = [seq EXCEPT ![a] = q]
      /\ status' = [status EXCEPT ![a] = st] /\ UNCHANGED <<known, active, restored>>
      /\ reactivating' = reactivating \/ reactivating' = reactivating \ {a}
  BY DEF ObserveExecution, AcceptsFact
<1>3. owner[a] = n /\ owner' = owner
  <2>1. owner[a] = n
    BY <1>2, SlotAssumption, SMTT(30) DEF RuntimeInv, Contexts
  <2> QED BY <1>1, <1>2, <2>1 DEF RuntimeInv, RuntimeTypes
<1>4. st \in Live \cup Terminal /\ q \in Int /\ q # -1
  BY FactAssumption, BoundAssumption DEF Reported, Live, Terminal
<1>5. RuntimeTypes'
  BY <1>2, <1>3, <1>4 DEF RuntimeInv, RuntimeTypes
<1>6. /\ \A b \in Attempt \ {a} : status'[b] = status[b]
      /\ status'[a] = st
  BY <1>1, <1>2 DEF RuntimeInv, RuntimeTypes
<1>7. Contexts'
  <2>1. ASSUME NEW b \in known' PROVE status'[b] # "None"
    BY <1>2, <1>4, <1>6, <2>1 DEF RuntimeInv, RuntimeTypes, Contexts, Live, Terminal
  <2> QED BY <1>2, <1>3, <2>1 DEF RuntimeInv, Contexts, Current
<1>8. OneLiveAttempt'
  <2>1. ASSUME status'[a] \in Live PROVE status[a] \in Live
    <3>1. status[a] \in Live \/ status[a] = "None"
      BY <1>1, <1>2 DEF RuntimeInv, RuntimeTypes
    <3> QED BY <3>1 DEF RuntimeInv, Contexts
  <2> QED BY <1>2, <1>6, <2>1 DEF RuntimeInv, RuntimeTypes, OneLiveAttempt, IsCurrent
<1>9. ASSUME NEW s \in Slots PROVE ToBeAnnounced(s)'
  <2>1. /\ active'[s] = active[s] /\ Current(s)' = Current(s)
        /\ Superseded(s)' <=> Superseded(s)
    BY <1>2 DEF Current, Superseded
  <2>2. ToBeAnnounced(s)
    BY DEF RuntimeInv
  <2>3. CASE Current(s) = a
    <3>1. seq'[a] = q
      BY <1>1, <1>2 DEF RuntimeInv, RuntimeTypes
    <3> QED BY <1>4, <2>1, <2>3, <3>1 DEF ToBeAnnounced
  <2>4. CASE Current(s) # a
    <3>1. seq'[Current(s)] = seq[Current(s)] \/ active[s] = 0
      BY <1>2, <2>4 DEF RuntimeInv, RuntimeTypes, Contexts
    <3> QED BY <1>2, <2>1, <2>2, <2>4, <3>1 DEF ToBeAnnounced
  <2> QED BY <2>3, <2>4
<1> QED BY <1>2, <1>3, <1>5, <1>6, <1>7, <1>8, <1>9 DEF RuntimeInv

\* A permitted replacement of one role keeps the Runtime's half and touches nothing of the
\* other roles or of the attempts there are (drive_rebound_attempts).
LEMMA DriveSlotKeeps ==
  ASSUME RuntimeInv, NEW s \in Slots, AttemptPermitted(s), bind'[s] \in Nodes, DriveSlot(s)
  PROVE  /\ RuntimeInv' /\ activated' = activated
         /\ \A r \in Slots \ {s} : active'[r] = active[r]
         /\ \A a \in known : status'[a] = status[a] /\ owner'[a] = owner[a]
<1>1. CASE Defer(s)
  <2>1. UNCHANGED <<known, owner, status, seq, active, restored, activated, reactivating>>
    BY <1>1 DEF Defer
  <2>2. RuntimeInv'
    BY <2>1, StatusKeeps DEF RuntimeInv, RuntimeTypes, Contexts
  <2> QED BY <2>1, <2>2
<1>2. CASE \E g \in 1 .. MaxGen : Prepare({s}, [x \in {s} |-> g], bind')
  <2>1. PICK g \in 1 .. MaxGen : Prepare({s}, [x \in {s} |-> g], bind')
    BY <1>2, Zenon
  <2>2. {s} \in SUBSET Slots /\ [x \in {s} |-> g] \in [{s} -> 1 .. MaxGen]
    OBVIOUS
  <2>3. status[Current(s)] = "Cancelled"
    BY DEF AttemptPermitted, RecoveryStopReady
  <2>4. RuntimeInv'
    BY <2>1, <2>2, <2>3, PrepareKeeps
  <2>5. /\ \A r \in Slots \ {s} : active'[r] = active[r]
        /\ \A a \in known : status'[a] = status[a] /\ owner'[a] = owner[a]
    BY <2>1, <2>2, PrepareEffect DEF RuntimeInv
  <2>6. activated' = activated
    BY <2>1 DEF Prepare
  <2> QED BY <2>4, <2>5, <2>6
<1> QED BY <1>1, <1>2 DEF DriveSlot

-----------------------------------------------------------------------------
(***************************************************************************)
(* Control's half, and the recovery pipeline                               *)
(***************************************************************************)

\* A Task keeps waiting while its bindings, its current attempts and their owners stay and
\* no new status proves activation.
LEMMA StillWaiting ==
  ASSUME NEW t \in Tasks, Waiting(t), task'[t] = "Ready" => task[t] = "Ready" /\ t \notin activated',
         \A s \in SlotsOf(t) :
            /\ active'[s] = active[s] /\ bind'[s] = bind[s]
            /\ active[s] # 0 => /\ owner'[Current(s)] = owner[Current(s)]
                                /\ ProvesActivation(status'[Current(s)])
                                      => ProvesActivation(status[Current(s)])
  PROVE  Waiting(t)'
<1>1. \A s \in SlotsOf(t) : Current(s)' = Current(s)
  BY Zenon DEF Current
<1>2. Undispatched(t) => Undispatched(t)'
  BY DEF Undispatched, SlotsOf
<1>3. Awaiting(t) => Awaiting(t)'
  BY <1>1 DEF Awaiting, SlotsOf, ProvesActivation
<1> QED BY <1>2, <1>3 DEF Waiting

\* Work that was stopped belongs to a Task that is no longer waiting.
LEMMA StoppedIsActive ==
  ASSUME RecoveryInv, NEW s \in Slots, active[s] # 0, status[Current(s)] = "Cancelled"
  PROVE  TaskOf[s] \in Tasks /\ task[TaskOf[s]] # "Ready"
<1>1. TaskOf[s] \in Tasks /\ s \in SlotsOf(TaskOf[s])
  BY DEF Tasks, SlotsOf
<1>2. ~Undispatched(TaskOf[s]) /\ ~Awaiting(TaskOf[s])
  BY <1>1 DEF Undispatched, Awaiting, ProvesActivation, Terminal
<1> QED BY <1>1, <1>2 DEF RecoveryInv, Waiting

\* apply_recovery_required keeps the invariant: nothing else is released yet.
LEMMA BeginKeeps ==
  ASSUME RecoveryInv, NEW s \in Slots, BeginRecovery(s)
  PROVE  RecoveryInv'
<1>1. /\ active[s] # 0 /\ status[Current(s)] = "Cancelled" /\ group \in Dispatchable
      /\ group' = "Blocked" /\ bind' = [bind EXCEPT ![s] = NoNode] /\ need' = need \cup {s}
      /\ UNCHANGED <<task, known, owner, status, seq, active, restored, activated, reactivating>>
  BY DEF BeginRecovery, MarkRecoveryRelease, RecoveryStopReady
<1>2. RuntimeInv'
  BY <1>1, StatusKeeps DEF RecoveryInv, RuntimeInv, RuntimeTypes, Contexts
<1>3. need = {}
  BY <1>1 DEF RecoveryInv, OneRelease, Dispatchable
<1>4. ControlTypes'
  BY <1>1 DEF RecoveryInv, ControlTypes
<1>5. OneRelease'
  BY <1>1, <1>3 DEF OneRelease, Current, RecoveryInv, ControlTypes
<1>6. ASSUME NEW t \in Tasks PROVE Waiting(t)'
  <2>1. CASE task[t] # "Ready"
    BY <1>1, <2>1 DEF Waiting
  <2>2. CASE task[t] = "Ready"
    <3>1. \A r \in SlotsOf(t) : r \in Slots /\ r # s
      BY <1>1, <2>2, StoppedIsActive DEF SlotsOf
    <3>2. Waiting(t) /\ t \notin activated
      BY <2>2 DEF RecoveryInv, Waiting
    <3>3. \A r \in SlotsOf(t) : bind'[r] = bind[r]
      BY <1>1, <3>1 DEF RecoveryInv, ControlTypes
    <3> QED BY <1>1, <2>2, <3>2, <3>3, StillWaiting
  <2> QED BY <2>1, <2>2
<1> QED BY <1>2, <1>4, <1>5, <1>6 DEF RecoveryInv

\* A step on one stopped role that leaves the Tasks and every other role alone keeps the
\* Tasks that wait.
LEMMA RoleStepWaits ==
  ASSUME RecoveryInv, NEW s \in Slots, active[s] # 0, status[Current(s)] = "Cancelled",
         UNCHANGED <<task, activated>>,
         \A r \in Slots \ {s} : active'[r] = active[r] /\ bind'[r] = bind[r],
         \A a \in known : status'[a] = status[a] /\ owner'[a] = owner[a]
  PROVE  \A t \in Tasks : Waiting(t)'
<1> SUFFICES ASSUME NEW t \in Tasks, task[t] = "Ready" PROVE Waiting(t)'
  BY DEF Waiting
<1>1. \A r \in SlotsOf(t) : r \in Slots \ {s}
  BY StoppedIsActive, Zenon DEF SlotsOf
<1>2. Waiting(t) /\ t \notin activated
  BY DEF RecoveryInv, Waiting
<1>3. \A r \in SlotsOf(t) : active[r] # 0 => Current(r) \in known
  BY <1>1 DEF RecoveryInv, RuntimeInv, Contexts
<1> QED BY <1>1, <1>2, <1>3, StillWaiting

\* resume_role_recovery with its trailing drive_rebound_attempts keeps the invariant: it
\* gives back the only released role.
LEMMA ResumeKeeps ==
  ASSUME RecoveryInv, NEW s \in Slots, NEW n \in Nodes, ResumeRecovery(s, n)
  PROVE  RecoveryInv'
<1>1. /\ s \in need /\ AttemptPermitted(s) /\ group' = "Adapted" /\ task' = task
      /\ bind' = [bind EXCEPT ![s] = n] /\ need' = need \ {s}
  BY DEF ResumeRecovery
<1>2. active[s] # 0 /\ status[Current(s)] = "Cancelled" /\ need' = {}
  BY <1>1 DEF RecoveryInv, OneRelease
<1>3. bind'[s] \in Nodes /\ \A r \in Slots \ {s} : bind'[r] = bind[r]
  BY <1>1 DEF RecoveryInv, ControlTypes
<1>4. /\ RuntimeInv' /\ activated' = activated
      /\ \A r \in Slots \ {s} : active'[r] = active[r]
      /\ \A a \in known : status'[a] = status[a] /\ owner'[a] = owner[a]
  <2>1. CASE DriveSlot(s)
    BY <1>1, <1>3, <2>1, DriveSlotKeeps DEF RecoveryInv
  <2>2. CASE UNCHANGED vars
    <3>1. RuntimeInv'
      BY <2>2, StatusKeeps DEF vars, RecoveryInv, RuntimeInv, RuntimeTypes, Contexts
    <3> QED BY <2>2, <3>1 DEF vars
  <2> QED BY <2>1, <2>2 DEF ResumeRecovery
<1>5. ControlTypes' /\ OneRelease'
  BY <1>1, <1>2, Zenon DEF RecoveryInv, ControlTypes, OneRelease
<1>6. \A t \in Tasks : Waiting(t)'
  BY <1>1, <1>2, <1>3, <1>4, RoleStepWaits, Zenon
<1> QED BY <1>4, <1>5, <1>6 DEF RecoveryInv

\* drive_rebound_attempts on its own keeps the invariant.
LEMMA ReboundKeeps ==
  ASSUME RecoveryInv, NEW s \in Slots, DriveReboundAttempt(s)
  PROVE  RecoveryInv'
<1>1. /\ group = "Adapted" /\ UNCHANGED <<group, task, bind, need>> /\ AttemptPermitted(s)
      /\ bind'[s] # NoNode /\ DriveSlot(s)
  BY DEF DriveReboundAttempt, Rebound, control
<1>2. active[s] # 0 /\ status[Current(s)] = "Cancelled" /\ need = {} /\ bind'[s] \in Nodes
  BY <1>1 DEF RecoveryInv, OneRelease, ControlTypes, AttemptPermitted, RecoveryStopReady
<1>3. /\ RuntimeInv' /\ activated' = activated
      /\ \A r \in Slots \ {s} : active'[r] = active[r]
      /\ \A a \in known : status'[a] = status[a] /\ owner'[a] = owner[a]
  BY <1>1, <1>2, DriveSlotKeeps DEF RecoveryInv
<1>4. ControlTypes' /\ OneRelease'
  BY <1>1, <1>2, Zenon DEF RecoveryInv, ControlTypes, OneRelease
<1>5. \A t \in Tasks : Waiting(t)'
  BY <1>1, <1>2, <1>3, RoleStepWaits, Zenon
<1> QED BY <1>3, <1>4, <1>5 DEF RecoveryInv

-----------------------------------------------------------------------------
(* Dispatch of a Ready Task and the facts of the Nodes. *)

\* A drive of a Ready Task that prepares attempts finds no attempt to supersede: the Task
\* has none yet, and otherwise nothing is missing.
LEMMA MissingAreNew ==
  ASSUME RecoveryInv, NEW t \in Tasks, NEW b \in [Slots -> Nodes], DriveReadyTask(t, b),
         NEW s \in SlotsOf(t), bind'[s] # NoNode, ~MatchesBinding(s, bind'[s])
  PROVE  active[s] = 0 /\ Undispatched(t)
<1>1. /\ task[t] = "Ready" /\ s \in Slots
      /\ bind' = [r \in Slots |-> IF (\A x \in SlotsOf(t) : bind[x] = NoNode) /\ r \in SlotsOf(t)
                                  THEN b[r] ELSE bind[r]]
  BY Zenon DEF DriveReadyTask, SlotsOf
<1>2. ~Awaiting(t)
  <2> SUFFICES ASSUME Awaiting(t) PROVE FALSE
    OBVIOUS
  <2>1. active[s] # 0 /\ bind[s] = owner[Current(s)]
    BY DEF Awaiting
  <2>2. bind[s] # NoNode
    BY <1>1, <2>1, SlotAssumption, SMTT(30) DEF RecoveryInv, RuntimeInv, Contexts
  <2> QED BY <1>1, <2>1, <2>2 DEF MatchesBinding
<1>3. Undispatched(t)
  BY <1>1, <1>2 DEF RecoveryInv, Waiting
<1> QED BY <1>3 DEF Undispatched

\* drive_ready_task keeps the invariant: it dispatches all roles of the Task or none.
LEMMA DriveKeeps ==
  ASSUME RecoveryInv, NEW t \in Tasks, NEW b \in [Slots -> Nodes], DriveReadyTask(t, b)
  PROVE  RecoveryInv' /\ \A s \in Slots : active'[s] # active[s] => active[s] = 0
<1> DEFINE S == SlotsOf(t)
           missing == {s \in S : bind'[s] # NoNode /\ ~MatchesBinding(s, bind'[s])}
<1>1. /\ group \in Dispatchable /\ task[t] = "Ready" /\ UNCHANGED <<group, task, need>>
      /\ bind' = [s \in Slots |-> IF (\A r \in S : bind[r] = NoNode) /\ s \in S
                                  THEN b[s] ELSE bind[s]]
      /\ \/ \E g \in [missing -> 1 .. MaxGen] : Prepare(missing, g, bind')
         \/ \E s \in missing : Defer(s)
  BY Zenon DEF DriveReadyTask
<1>2. S \subseteq Slots /\ missing \in SUBSET Slots /\ bind' \in [Slots -> Nodes \cup {NoNode}]
  BY <1>1 DEF RecoveryInv, ControlTypes, SlotsOf
<1>3. \A s \in missing : active[s] = 0 /\ Undispatched(t)
  BY MissingAreNew, Zenon
<1>4. \A s \in missing : bind'[s] \in Nodes
  BY <1>2
<1>5. ControlTypes' /\ OneRelease'
  <2>1. need = {}
    BY <1>1 DEF RecoveryInv, OneRelease, Dispatchable
  <2> QED BY <1>1, <1>2, <2>1, Zenon DEF RecoveryInv, ControlTypes, OneRelease
<1> HIDE DEF missing
<1>6. /\ RuntimeInv' /\ activated' = activated
      /\ \A s \in Slots \ missing : active'[s] = active[s]
      /\ \A a \in known : status'[a] = status[a] /\ owner'[a] = owner[a]
      /\ \/ active' = active
         \/ \A s \in missing : /\ active'[s] # 0 /\ status'[Current(s)'] = "Dispatched"
                               /\ owner'[Current(s)'] = bind'[s]
  <2>1. CASE \E s \in missing : Defer(s)
    <3>1. UNCHANGED <<known, owner, status, seq, active, restored, activated, reactivating>>
      BY <2>1 DEF Defer
    <3>2. RuntimeInv'
      BY <3>1, StatusKeeps DEF RecoveryInv, RuntimeInv, RuntimeTypes, Contexts
    <3> QED BY <3>1, <3>2
  <2>2. CASE \E g \in [missing -> 1 .. MaxGen] : Prepare(missing, g, bind')
    <3>1. PICK g \in [missing -> 1 .. MaxGen] : Prepare(missing, g, bind')
      BY <2>2
    <3>2. RuntimeInv'
      BY <1>2, <1>3, <1>4, <3>1, PrepareKeeps DEF RecoveryInv
    <3>3. /\ \A s \in Slots \ missing : active'[s] = active[s]
          /\ \A a \in known : status'[a] = status[a] /\ owner'[a] = owner[a]
          /\ \A s \in missing : /\ active'[s] = g[s] /\ g[s] # 0
                                /\ status'[<<s, g[s]>>] = "Dispatched"
                                /\ owner'[<<s, g[s]>>] = bind'[s]
      <4>1. RuntimeTypes
        BY DEF RecoveryInv, RuntimeInv
      <4>2. PICK n : n = bind'
        BY Zenon
      <4>3. Prepare(missing, g, n) /\ \A s \in missing : n[s] \in Nodes
        BY <1>4, <3>1, <4>2, Zenon
      <4>4. missing \in SUBSET Slots
        BY <1>2, Zenon
      <4>5. /\ \A s \in Slots \ missing : active'[s] = active[s]
            /\ \A a \in known : status'[a] = status[a] /\ owner'[a] = owner[a]
            /\ \A s \in missing : /\ active'[s] = g[s] /\ g[s] # 0
                                  /\ status'[<<s, g[s]>>] = "Dispatched" /\ owner'[<<s, g[s]>>] = n[s]
        BY <4>1, <4>3, <4>4, PrepareEffect, SMTT(30)
      <4> QED BY <4>2, <4>5, Zenon
    <3>4. activated' = activated
      BY <3>1, Zenon DEF Prepare
    <3> QED BY <3>2, <3>3, <3>4, Zenon DEF Current
  <2> QED BY <1>1, <2>1, <2>2, Zenon
<1>7. ASSUME NEW s \in Slots, active'[s] # active[s] PROVE active[s] = 0
  BY <1>3, <1>6, <1>7, Zenon
<1>8. \A s \in Slots : active[s] # 0 => Current(s) \in known
  BY Zenon DEF RecoveryInv, RuntimeInv, Contexts
<1>9. ASSUME NEW u \in Tasks, u # t PROVE Waiting(u)'
  <2>1. \A s \in SlotsOf(u) : s \in Slots \ S /\ s \notin missing
    BY <1>9 DEF SlotsOf, missing
  <2>2. Waiting(u)
    BY DEF RecoveryInv
  <2>3. \A s \in SlotsOf(u) : active'[s] = active[s] /\ bind'[s] = bind[s]
    BY <1>1, <1>6, <2>1, Zenon
  <2>4. task'[u] = "Ready" => task[u] = "Ready" /\ u \notin activated'
    BY <1>1, <1>6, <2>2, Zenon DEF Waiting
  <2>5. \A s \in SlotsOf(u) : active[s] # 0 =>
             owner'[Current(s)] = owner[Current(s)] /\ status'[Current(s)] = status[Current(s)]
    BY <1>6, <1>8, <2>1, Zenon
  <2> QED BY <2>2, <2>3, <2>4, <2>5, StillWaiting, Zenon
<1>10. Waiting(t)'
  <2>1. t \notin activated' /\ (Undispatched(t) \/ Awaiting(t))
    BY <1>1, <1>6, Zenon DEF RecoveryInv, Waiting
  <2>2. CASE Undispatched(t)
    <3>1. \A s \in S : active[s] = 0 /\ bind'[s] # NoNode
      <4>1. \A s \in S : active[s] = 0
        BY <2>2, Zenon DEF Undispatched
      <4>2. ASSUME NEW s \in S PROVE bind'[s] # NoNode
        <5>1. s \in Slots /\ b[s] # NoNode
          BY <1>2, SlotAssumption, Zenon
        <5>2. (\A r \in S : bind[r] = NoNode) \/ bind[s] # NoNode
          BY <2>2, Zenon DEF Undispatched
        <5>3. bind'[s] = IF (\A r \in S : bind[r] = NoNode) /\ s \in S THEN b[s] ELSE bind[s]
          BY <1>1, <5>1, Zenon
        <5> QED BY <5>1, <5>2, <5>3, Zenon
      <4> QED BY <4>1, <4>2, Zenon
    <3>2. missing = S
      BY <3>1, Zenon DEF missing, MatchesBinding
    <3>3. CASE active' = active
      BY <2>1, <3>1, <3>3, Zenon DEF Waiting, Undispatched, SlotsOf
    <3>4. CASE \A s \in missing : /\ active'[s] # 0 /\ status'[Current(s)'] = "Dispatched"
                                  /\ owner'[Current(s)'] = bind'[s]
      <4>1. Awaiting(t)'
        BY <3>2, <3>4, Zenon DEF Awaiting, SlotsOf, ProvesActivation, Terminal
      <4> QED BY <2>1, <4>1 DEF Waiting
    <3> QED BY <1>6, <3>3, <3>4, Zenon
  <2>3. CASE Awaiting(t)
    <3>1. PICK s \in Slots : s \in S
      BY DEF Tasks, SlotsOf
    <3>7. Contexts
      BY Zenon DEF RecoveryInv, RuntimeInv
    <3>8. \A r \in S : active[r] # 0 /\ bind[r] = owner[Current(r)] /\ r \in Slots
      BY <1>2, <2>3, Zenon DEF Awaiting
    <3>9. \A r \in S : owner[Current(r)] \in Nodes
      BY <3>7, <3>8, Zenon DEF Contexts
    <3>2. \A r \in S : active[r] # 0 /\ bind[r] # NoNode
      BY <3>8, <3>9, SlotAssumption, Zenon
    <3>3. missing = {}
      BY <1>3, <3>1, <3>2 DEF Undispatched
    <3>4. \A r \in S : active'[r] = active[r] /\ bind'[r] = bind[r]
      BY <1>1, <1>2, <1>6, <3>1, <3>2, <3>3
    <3>5. \A r \in S : active[r] # 0 =>
             owner'[Current(r)] = owner[Current(r)] /\ status'[Current(r)] = status[Current(r)]
      BY <1>2, <1>6, <1>8
    <3>6. Waiting(t)
      BY DEF RecoveryInv
    <3> QED BY <1>1, <2>1, <3>4, <3>5, <3>6, StillWaiting, Zenon
  <2> QED BY <2>1, <2>2, <2>3
<1> QED BY <1>5, <1>6, <1>7, <1>9, <1>10, Zenon DEF RecoveryInv

\* A Node fact keeps the invariant: the fact that proves activation of a waiting Task finds
\* every role matched and activates the Task in its own transaction.
LEMMA FactStepKeeps ==
  ASSUME RecoveryInv, NEW a \in known, NEW n \in Nodes, NEW q \in 0 .. MaxSeq,
         NEW st \in Reports, NEW d \in Time, Fact(a, n, q, st, d)
  PROVE  RecoveryInv'
<1> DEFINE o == TaskOf[a[1]]
<1>1. /\ ObserveExecution(a, n, q, st, d) /\ UNCHANGED <<bind, need>>
      /\ IF EmitsTaskActivated(a, st) /\ FullyMatched(o)
         THEN ApplyTaskActivated(o) ELSE UNCHANGED <<group, task>>
  BY Zenon DEF Fact
<1>2. /\ RuntimeInv' /\ UNCHANGED <<known, owner, active, restored>>
      /\ status[a] \notin Terminal /\ status' = [status EXCEPT ![a] = st]
      /\ \A c \in Attempt \ {a} : status'[c] = status[c]
  BY <1>1, FactKeeps, Zenon DEF RecoveryInv
<1>3. a \in Attempt /\ a[1] \in Slots /\ o \in Tasks /\ a[1] \in SlotsOf(o)
  BY AttemptPairs DEF RecoveryInv, RuntimeInv, RuntimeTypes, Tasks, SlotsOf
<1>4. ControlTypes' /\ (group' = "Blocked" <=> group = "Blocked")
      /\ \A t \in Tasks : t # o => task'[t] = task[t]
  BY <1>1, <1>3, Zenon DEF RecoveryInv, ControlTypes, ApplyTaskActivated
<1>5. \A s \in Slots : active[s] # 0 => Current(s) \in known /\ Current(s) \in Attempt
  BY DEF RecoveryInv, RuntimeInv, Contexts, RuntimeTypes
<1>6. OneRelease'
  <2>1. ASSUME NEW s \in need PROVE status'[Current(s)] = "Cancelled" /\ Current(s)' = Current(s)
    <3>1. s \in Slots /\ active[s] # 0 /\ status[Current(s)] = "Cancelled"
      BY DEF RecoveryInv, OneRelease, ControlTypes
    <3>2. Current(s) # a /\ Current(s) \in Attempt
      BY <1>2, <1>5, <3>1 DEF Terminal
    <3> QED BY <1>2, <3>1, <3>2 DEF Current
  <2> QED BY <1>1, <1>2, <1>4, <2>1, Zenon DEF RecoveryInv, OneRelease
<1>7. \A s \in Slots : active[s] # 0 => /\ Current(s)' = Current(s)
                                        /\ Current(s) # a => status'[Current(s)] = status[Current(s)]
  BY <1>2, <1>5 DEF Current
<1>8. activated' = IF IsCurrent(a) /\ ProvesActivation(st) THEN activated \cup {o} ELSE activated
  BY <1>1, Zenon DEF ObserveExecution
<1>9. ASSUME NEW t \in Tasks, t # o PROVE Waiting(t)'
  <2>1. Waiting(t) /\ (task'[t] = "Ready" => task[t] = "Ready" /\ t \notin activated')
    BY <1>4, <1>8, <1>9, Zenon DEF RecoveryInv, Waiting
  <2>2. \A s \in SlotsOf(t) : s \in Slots /\ Current(s) # a
    BY <1>9 DEF SlotsOf, Current
  <2>3. \A s \in SlotsOf(t) : active[s] # 0 => status'[Current(s)] = status[Current(s)]
    BY <1>7, <2>2, Zenon
  <2> QED BY <1>1, <1>2, <2>1, <2>3, StillWaiting, Zenon
<1>10. Waiting(o)'
  <2>1. CASE task'[o] # "Ready"
    BY <2>1, Zenon DEF Waiting
  <2>2. CASE task'[o] = "Ready"
    <3>1. task[o] = "Ready" /\ o \notin activated /\ Waiting(o)
      BY <1>1, <1>3, <2>2, Zenon DEF RecoveryInv, Waiting, ApplyTaskActivated, ControlTypes
    <3>2. Awaiting(o)
      <4>1. active[a[1]] # 0
        BY DEF RecoveryInv, RuntimeInv, Contexts
      <4> QED BY <1>3, <3>1, <4>1, Zenon DEF Waiting, Undispatched
    <3>3. FullyMatched(o)
      <4>1. Contexts
        BY Zenon DEF RecoveryInv, RuntimeInv
      <4>2. \A s \in SlotsOf(o) : active[s] # 0 /\ bind[s] = owner[Current(s)] /\ s \in Slots
        BY <3>2, Zenon DEF Awaiting, SlotsOf
      <4>3. \A s \in SlotsOf(o) : owner[Current(s)] \in Nodes
        BY <4>1, <4>2, Zenon DEF Contexts
      <4> QED BY <4>2, <4>3, SlotAssumption DEF FullyMatched, MatchesBinding
    <3>4. ~(IsCurrent(a) /\ ProvesActivation(st))
      <4> SUFFICES ASSUME IsCurrent(a), ProvesActivation(st) PROVE FALSE
        OBVIOUS
      <4>1. EmitsTaskActivated(a, st)
        BY <3>1 DEF EmitsTaskActivated
      <4>2. ApplyTaskActivated(o)
        BY <1>1, <3>3, <4>1, Zenon
      <4> QED BY <1>3, <2>2, <3>1, <4>2, Zenon DEF ApplyTaskActivated, RecoveryInv, ControlTypes
    <3>5. ASSUME NEW s \in SlotsOf(o), active[s] # 0, ProvesActivation(status'[Current(s)])
          PROVE  ProvesActivation(status[Current(s)])
      <4>1. s \in Slots
        BY DEF SlotsOf
      <4>2. CASE Current(s) = a
        <5>1. IsCurrent(a)
          BY <4>2, Zenon DEF IsCurrent, Current
        <5>2. status'[a] = st
          BY <1>2, <1>3, Zenon DEF RecoveryInv, RuntimeInv, RuntimeTypes
        <5> QED BY <3>4, <3>5, <4>2, <5>1, <5>2, Zenon
      <4>3. CASE Current(s) # a
        BY <1>7, <3>5, <4>1, <4>3
      <4> QED BY <4>2, <4>3, Zenon
    <3>6. o \notin activated'
      BY <1>8, <3>1, <3>4
    <3> QED BY <1>1, <1>2, <1>3, <3>1, <3>5, <3>6, StillWaiting, Zenon
  <2> QED BY <2>1, <2>2, Zenon
<1> QED BY <1>2, <1>4, <1>6, <1>9, <1>10, Zenon DEF RecoveryInv

(* The other steps, and the theorems. *)

\* Losing a Node, restoring a checkpoint, and everything that only touches stops, budgets
\* and the clock keep the invariant: a status at most becomes Unknown.
LEMMA AmbiguityKeeps ==
  ASSUME RecoveryInv, UNCHANGED control, UNCHANGED <<known, owner, seq, active>>,
         status' \in [Attempt -> Live \cup Terminal \cup {"None"}],
         \A a \in Attempt : status'[a] # status[a] => status[a] \in Live /\ status'[a] = "Unknown",
         UNCHANGED <<restored, reactivating>> \/ restored' = known,
         activated' \in {activated,
                         {TaskOf[a[1]] : a \in {a \in CurrentAttempts : ProvesActivation(status[a])}}}
  PROVE  RecoveryInv'
<1>1. known \subseteq Attempt /\ \A a \in known : status[a] # "None"
  BY DEF RecoveryInv, RuntimeInv, RuntimeTypes, Contexts
<1>2. RuntimeInv'
  <2>1. \A a \in known : status'[a] # "None" /\ (status'[a] \in Live => status[a] \in Live)
    BY <1>1, Zenon
  <2> QED BY <2>1, StatusKeeps DEF RecoveryInv
<1>3. \A s \in Slots : active[s] # 0 => Current(s) \in known
  BY Zenon DEF RecoveryInv, RuntimeInv, Contexts
<1>4. ControlTypes'
  BY DEF RecoveryInv, ControlTypes, control
<1>5. OneRelease'
  <2>1. ASSUME NEW s \in need PROVE status'[Current(s)] = "Cancelled" /\ Current(s)' = Current(s)
    <3>1. s \in Slots /\ active[s] # 0 /\ status[Current(s)] = "Cancelled"
      BY DEF RecoveryInv, OneRelease, ControlTypes
    <3> QED BY <1>1, <1>3, <3>1 DEF Current, Live
  <2> QED BY <2>1 DEF RecoveryInv, OneRelease, control
<1>6. ASSUME NEW t \in Tasks PROVE Waiting(t)'
  <2>1. Waiting(t)
    BY Zenon DEF RecoveryInv
  <2>2. ASSUME task[t] = "Ready" PROVE t \notin activated'
    <3>1. t \notin activated /\ (Undispatched(t) \/ Awaiting(t))
      BY <2>1, <2>2 DEF Waiting
    <3>2. ASSUME NEW a \in CurrentAttempts, ProvesActivation(status[a]) PROVE TaskOf[a[1]] # t
      <4>1. a \in known /\ a[1] \in Slots /\ a = <<a[1], a[2]>> /\ active[a[1]] = a[2]
        BY <1>1, AttemptPairs DEF CurrentAttempts, IsCurrent
      <4>2. active[a[1]] # 0 /\ Current(a[1]) = a
        BY <4>1 DEF Current, RecoveryInv, RuntimeInv, Contexts
      <4> QED BY <3>1, <3>2, <4>1, <4>2 DEF Undispatched, Awaiting, SlotsOf
    <3> QED BY <3>1, <3>2
  <2>3. ASSUME NEW s \in SlotsOf(t), active[s] # 0, ProvesActivation(status'[Current(s)])
        PROVE  ProvesActivation(status[Current(s)])
    BY <1>1, <1>3, <2>3 DEF SlotsOf, ProvesActivation, Terminal
  <2> QED BY <2>1, <2>2, <2>3, StillWaiting, Zenon DEF control
<1> QED BY <1>2, <1>4, <1>5, <1>6 DEF RecoveryInv

\* Every transaction keeps the invariant.
LEMMA RecoveryStep ==
  ASSUME RecoveryInv, [RNext]_rvars PROVE RecoveryInv'
<1>1. status \in [Attempt -> Live \cup Terminal \cup {"None"}]
  BY DEF RecoveryInv, RuntimeInv, RuntimeTypes
<1>2. ASSUME UNCHANGED control, UNCHANGED <<known, owner, status, seq, active, restored, activated,
                                           reactivating>>
      PROVE  RecoveryInv'
  BY <1>1, <1>2, AmbiguityKeeps
<1>3. CASE \E t \in Tasks, b \in [Slots -> Nodes] : DriveReadyTask(t, b)
  BY <1>3, DriveKeeps
<1>4. CASE \E a \in known, n \in Nodes, q \in 0 .. MaxSeq, st \in Reports, t \in Time :
              Fact(a, n, q, st, t)
  BY <1>4, FactStepKeeps
<1>5. ASSUME NEW n \in Nodes, NodeLost(n) PROVE RecoveryInv'
  <2>1. /\ UNCHANGED control /\ UNCHANGED <<known, owner, seq, active, restored, activated,
                                            reactivating>>
        /\ status' = [a \in Attempt |-> IF IsCurrent(a) /\ owner[a] = n /\ status[a] \in Live
                                        THEN "Unknown" ELSE status[a]]
    BY <1>5 DEF NodeLost, NodeUnavailable
  <2>2. /\ status' \in [Attempt -> Live \cup Terminal \cup {"None"}]
        /\ \A a \in Attempt : status'[a] # status[a] => status[a] \in Live /\ status'[a] = "Unknown"
    BY <1>1, <2>1 DEF Live
  <2> QED BY <2>1, <2>2, AmbiguityKeeps, Zenon
<1>6. CASE Reboot
  <2>1. /\ UNCHANGED control /\ UNCHANGED <<known, owner, seq, active>> /\ restored' = known
        /\ activated' = {TaskOf[a[1]] : a \in {a \in CurrentAttempts : ProvesActivation(status[a])}}
        /\ status' = [a \in Attempt |-> RestoredStatus(status[a])]
    BY <1>6 DEF Reboot, Restart
  <2>2. /\ status' \in [Attempt -> Live \cup Terminal \cup {"None"}]
        /\ \A a \in Attempt : status'[a] # status[a] => status[a] \in Live /\ status'[a] = "Unknown"
    BY <1>1, <2>1 DEF Live, RestoredStatus
  <2> QED BY <2>1, <2>2, AmbiguityKeeps
<1>7. CASE \E s \in Slots : BeginRecovery(s)
  BY <1>7, BeginKeeps
<1>8. CASE \E s \in Slots, n \in Nodes : ResumeRecovery(s, n)
  BY <1>8, ResumeKeeps
<1>9. CASE \E s \in Slots : DriveReboundAttempt(s)
  BY <1>9, ReboundKeeps
<1>10. CASE \/ \E a \in known, d \in Timeouts, k \in Limits : RequestRecovery(a, d, k)
            \/ CancelGroup \/ Clock \/ UNCHANGED rvars
  BY <1>2, <1>10 DEF RequestRecovery, RequestRecoveryStop, CancelGroup, RequestCancellation,
                     Clock, Tick, rvars, vars
<1> QED BY <1>3, <1>4, <1>5, <1>6, <1>7, <1>8, <1>9, <1>10 DEF RNext

\* The invariant holds in every behaviour.
LEMMA RecoveryInvariant == RSpec => []RecoveryInv
<1>1. RInit => RecoveryInv
  <2> SUFFICES ASSUME RInit PROVE RecoveryInv
    OBVIOUS
  <2>1. RuntimeInv
    BY BoundAssumption
       DEF RInit, Init, RuntimeInv, RuntimeTypes, Contexts, OneLiveAttempt, ToBeAnnounced
  <2>2. ControlTypes /\ OneRelease
    BY DEF RInit, ControlTypes, OneRelease
  <2>3. \A t \in Tasks : Waiting(t)
    BY DEF RInit, Init, Waiting, Undispatched, SlotsOf
  <2> QED BY <2>1, <2>2, <2>3 DEF RecoveryInv
<1>2. RecoveryInv /\ [RNext]_rvars => RecoveryInv'
  BY RecoveryStep
<1> QED BY <1>1, <1>2, PTL DEF RSpec

-----------------------------------------------------------------------------
\* At most one role of the Group is released, only after its work stopped, and exactly while
\* the Group is Blocked (apply_recovery_required, resume_role_recovery): no restart, Node
\* loss, late fact or drive in between leaves Control with an incomplete binding it may use.
THEOREM ReleaseIsExact == RSpec => []ReleasedExactlyWhileBlocked
<1>1. ASSUME RecoveryInv PROVE ReleasedExactlyWhileBlocked
  <2>1. \A s, r \in need : s = r
    BY <1>1, Zenon DEF RecoveryInv, OneRelease
  <2> QED BY <1>1, <2>1, Zenon DEF RecoveryInv, OneRelease, ReleasedExactlyWhileBlocked
<1> QED BY <1>1, RecoveryInvariant, PTL

\* A slot never has two attempts that may still act, whatever Nodes the replacements are
\* bound to and however often the Controller restarts (prepare_dispatch, AttemptPermitted).
THEOREM NoTwoLiveAttempts == RSpec => []OneLiveAttempt
<1>1. RecoveryInv => OneLiveAttempt
  BY DEF RecoveryInv, RuntimeInv
<1> QED BY <1>1, RecoveryInvariant, PTL

\* The current attempt of a role moves away from an attempt only through a permitted
\* replacement (drive_rebound_attempts, recovery_attempt_permitted).
LEMMA ReplacementStep ==
  ASSUME RecoveryInv, [RNext]_rvars, NEW r \in Slots, active'[r] # active[r], active[r] # 0
  PROVE  AttemptPermitted(r)
<1>1. ASSUME NEW t \in Tasks, NEW b \in [Slots -> Nodes], DriveReadyTask(t, b) PROVE FALSE
  BY <1>1, DriveKeeps
<1>2. ASSUME NEW s \in Slots, NEW n \in Nodes, ResumeRecovery(s, n) PROVE AttemptPermitted(r)
  <2>1. AttemptPermitted(s) /\ bind'[s] \in Nodes
    BY <1>2 DEF ResumeRecovery, RecoveryInv, ControlTypes
  <2>2. CASE DriveSlot(s)
    BY <2>1, <2>2, DriveSlotKeeps DEF RecoveryInv
  <2>3. CASE UNCHANGED vars
    BY <2>3 DEF vars
  <2> QED BY <1>2, <2>2, <2>3 DEF ResumeRecovery
<1>3. ASSUME NEW s \in Slots, DriveReboundAttempt(s) PROVE AttemptPermitted(r)
  <2>1. AttemptPermitted(s) /\ bind'[s] \in Nodes /\ DriveSlot(s)
    BY <1>3 DEF DriveReboundAttempt, Rebound, control, RecoveryInv, ControlTypes
  <2> QED BY <2>1, DriveSlotKeeps DEF RecoveryInv
<1>4. ASSUME NEW a \in known, NEW n \in Nodes, NEW q, NEW st, NEW t, Fact(a, n, q, st, t)
      PROVE  UNCHANGED active
  BY <1>4, Zenon DEF Fact, ObserveExecution
<1>5. ASSUME NEW n \in Nodes, NodeLost(n) PROVE UNCHANGED active
  BY <1>5, Zenon DEF NodeLost, NodeUnavailable
<1>6. ASSUME NEW a \in known, NEW d, NEW k, RequestRecovery(a, d, k) PROVE UNCHANGED active
  BY <1>6, Zenon DEF RequestRecovery, RequestRecoveryStop
<1>7. ASSUME NEW s \in Slots, BeginRecovery(s) PROVE UNCHANGED active
  BY <1>7 DEF BeginRecovery, MarkRecoveryRelease
<1>8. CASE CancelGroup \/ Clock \/ Reboot \/ UNCHANGED rvars
  BY <1>8 DEF CancelGroup, RequestCancellation, Clock, Tick, Reboot, Restart, rvars, vars
<1> QED BY <1>1, <1>2, <1>3, <1>4, <1>5, <1>6, <1>7, <1>8 DEF RNext

\* A replacement is prepared only from a stop that was released, is not overridden by a
\* cancellation and is inside its budget (recovery_attempt_permitted).
THEOREM ReplacementsAreAuthorized == RSpec => ReplacementIsAuthorized
<1> DEFINE Authorized == \A s \in Slots : active'[s] # active[s] /\ active[s] # 0 =>
                            /\ stop[Current(s)].released /\ ~stop[Current(s)].aborted
                            /\ now < stop[Current(s)].deadline
<1>1. ASSUME RecoveryInv, [RNext]_rvars PROVE Authorized
  BY <1>1, ReplacementStep, Zenon DEF AttemptPermitted, RecoveryStopReady
<1>2. RecoveryInv /\ [RNext]_rvars => [Authorized]_rvars
  BY <1>1
<1> QED BY <1>2, RecoveryInvariant, PTL DEF RSpec, ReplacementIsAuthorized

\* Only a fact of its own can make a current attempt prove activation.
LEMMA ActivationIsAFact ==
  ASSUME RecoveryInv, [RNext]_rvars, NEW r \in Slots, active[r] # 0,
         ProvesActivation(status'[Current(r)]), ~ProvesActivation(status[Current(r)])
  PROVE  \E n \in Nodes, q \in 0 .. MaxSeq, st \in Reports, t \in Time :
            Fact(Current(r), n, q, st, t) /\ ProvesActivation(st)
<1>1. Current(r) \in known /\ Current(r) \in Attempt /\ status'[Current(r)] # status[Current(r)]
  BY DEF RecoveryInv, RuntimeInv, Contexts, RuntimeTypes
<1>2. ASSUME NEW t \in Tasks, NEW b \in [Slots -> Nodes], DriveReadyTask(t, b) PROVE FALSE
  <2> DEFINE missing == {s \in SlotsOf(t) : bind'[s] # NoNode /\ ~MatchesBinding(s, bind'[s])}
  <2>1. PICK g \in [missing -> 1 .. MaxGen] : Prepare(missing, g, bind')
    BY <1>1, <1>2, Zenon DEF DriveReadyTask, Defer
  <2>2. bind' \in [Slots -> Nodes \cup {NoNode}] /\ missing \in SUBSET Slots
    BY <1>2, DriveKeeps, Zenon DEF RecoveryInv, ControlTypes, SlotsOf
  <2>3. \A s \in missing : bind'[s] \in Nodes
    BY <2>2
  <2>4. RuntimeTypes
    BY DEF RecoveryInv, RuntimeInv
  <2> HIDE DEF missing
  <2> QED BY <1>1, <2>1, <2>2, <2>3, <2>4, PrepareEffect, Zenon
<1>3. ASSUME NEW a \in known, NEW n \in Nodes, NEW q \in 0 .. MaxSeq, NEW st \in Reports,
             NEW t \in Time, Fact(a, n, q, st, t)
      PROVE  a = Current(r) /\ ProvesActivation(st)
  <2>1. ObserveExecution(a, n, q, st, t)
    BY <1>3 DEF Fact
  <2>2. /\ status' = [status EXCEPT ![a] = st]
        /\ \A b \in Attempt \ {a} : status'[b] = status[b]
    BY <2>1, FactKeeps DEF RecoveryInv
  <2>3. a = Current(r)
    BY <1>1, <2>2
  <2> QED BY <1>1, <2>2, <2>3 DEF RecoveryInv, RuntimeInv, RuntimeTypes
<1>4. ASSUME NEW s \in Slots, NEW n \in Nodes, ResumeRecovery(s, n) PROVE FALSE
  <2>1. AttemptPermitted(s) /\ bind'[s] \in Nodes
    BY <1>4, Zenon DEF ResumeRecovery, RecoveryInv, ControlTypes
  <2>2. DriveSlot(s)
    BY <1>1, <1>4 DEF ResumeRecovery, vars
  <2> QED BY <1>1, <2>1, <2>2, DriveSlotKeeps DEF RecoveryInv
<1>5. ASSUME NEW s \in Slots, DriveReboundAttempt(s) PROVE FALSE
  <2>1. AttemptPermitted(s) /\ bind'[s] \in Nodes /\ DriveSlot(s)
    BY <1>5, Zenon DEF DriveReboundAttempt, Rebound, control, RecoveryInv, ControlTypes
  <2> QED BY <1>1, <2>1, DriveSlotKeeps, Zenon DEF RecoveryInv
<1>6. ASSUME status'[Current(r)] \in {status[Current(r)], "Unknown"} PROVE FALSE
  BY <1>6 DEF ProvesActivation, Terminal
<1>7. ASSUME NEW n \in Nodes, NodeLost(n) PROVE FALSE
  BY <1>1, <1>6, <1>7 DEF NodeLost, NodeUnavailable
<1>8. CASE Reboot
  BY <1>1, <1>6, <1>8, Zenon DEF Reboot, Restart, RestoredStatus
<1>9. CASE \/ \E a \in known, d \in Timeouts, k \in Limits : RequestRecovery(a, d, k)
           \/ \E s \in Slots : BeginRecovery(s)
           \/ CancelGroup \/ Clock \/ UNCHANGED rvars
  BY <1>1, <1>9 DEF RequestRecovery, RequestRecoveryStop, BeginRecovery, MarkRecoveryRelease,
                    CancelGroup, RequestCancellation, Clock, Tick, rvars, vars
<1> QED BY <1>2, <1>3, <1>4, <1>5, <1>7, <1>8, <1>9, Zenon DEF RNext

\* The first fact that proves activation of a replacement of this process takes an Adapted
\* Group back to Active in its own transaction (observe_execution, apply_runtime_events).
THEOREM FreshReplacementsReactivate == RSpec => FreshReplacementReactivates
<1> DEFINE Pre(s) == /\ group = "Adapted" /\ task[TaskOf[s]] = "Active" /\ active[s] # 0
                     /\ Current(s) \notin restored /\ seq[Current(s)] = -1
                     /\ FullyMatched(TaskOf[s])
                     /\ \E a \in known : a[1] = s /\ a[2] < active[s]
                     /\ ProvesActivation(status'[Current(s)]) /\ ~ProvesActivation(status[Current(s)])
           Reactivates == \A s \in Slots : Pre(s) => group' = "Active"
<1>1. ASSUME RecoveryInv, [RNext]_rvars, NEW s \in Slots, Pre(s) PROVE group' = "Active"
  <2>1. PICK n \in Nodes, q \in 0 .. MaxSeq, st \in Reports, t \in Time :
            Fact(Current(s), n, q, st, t) /\ ProvesActivation(st)
    BY <1>1, ActivationIsAFact
  <2>2. Current(s) \in reactivating /\ Current(s) \in known
    BY <1>1, Zenon DEF RecoveryInv, RuntimeInv, Contexts, ToBeAnnounced, Superseded
  <2>3. EmitsTaskActivated(Current(s), st) /\ Current(s)[1] = s
    BY <2>1, <2>2, Zenon DEF EmitsTaskActivated, IsCurrent, Current
  <2>4. ApplyTaskActivated(TaskOf[s])
    BY <1>1, <2>1, <2>3, Zenon DEF Fact
  <2> QED BY <1>1, <2>4 DEF ApplyTaskActivated
<1>2. RecoveryInv /\ [RNext]_rvars => [Reactivates]_rvars
  BY <1>1, Zenon
<1> QED BY <1>2, RecoveryInvariant, PTL DEF RSpec, FreshReplacementReactivates

=============================================================================

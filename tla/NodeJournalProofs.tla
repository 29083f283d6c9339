---------------------------- MODULE NodeJournalProofs ----------------------------
(***************************************************************************)
(* Proofs about NodeJournal for any set of executions, any lock needs, any *)
(* completion work and any number of restarts.                             *)
(***************************************************************************)
EXTENDS NodeJournal, TLAPS

Active == {"Dispatching"} \cup Open

(***************************************************************************)
(* What the journal row, the durable markers and the task of one execution *)
(* know of each other.                                                     *)
(***************************************************************************)
Consistent(i) ==
    /\ calls[i] = IF i \in auth THEN 1 ELSE 0
    /\ reads[i] = IF i \in frozen \/ (i \in fence /\ Artifact[i] = "freeze") THEN 1 ELSE 0
    /\ row[i] = "None" => step[i] = "idle" /\ i \notin auth /\ sq[i] = 0
    /\ row[i] \in Active => i \in held
    /\ row[i] \in {"Cancelled", "Failed"} =>
          i \notin auth \/ phys[i] \in {"completed", "failed", "cancelled"}
    /\ step[i] = "preparing" => i \notin auth
    /\ step[i] \notin {"idle", "preparing"} => i \in auth
    /\ step[i] = "freezing" => Artifact[i] = "freeze" /\ i \in fence
    /\ step[i] \in {"freezing", "verifying", "publishing"} => phys[i] = "completed"
    /\ i \in handle \cup fence \cup resuming => i \in auth
    /\ i \in closing => row[i] \in Ended

HoldersDisjoint == \A i, j \in held : i # j => Needs[i] \cap Needs[j] = {}

NodeInv == NodeTypeOK /\ HoldersDisjoint /\ \A i \in Ids : Consistent(i)

\* Every step of the Node keeps its state well typed.
LEMMA TypeStep ==
  ASSUME NodeTypeOK, [NNext]_nvars PROVE NodeTypeOK'
<1> USE DEF journal, process, local, Goto, NodeTypeOK, Status, Open, Ended, Fenced, Steps, Phys
<1>1. ASSUME NEW i \in Ids, Execute(i) PROVE NodeTypeOK'
  BY <1>1 DEF Execute
<1>2. ASSUME NEW i \in Ids, ExecuteAgain(i) PROVE NodeTypeOK'
  BY <1>2 DEF ExecuteAgain
<1>3. ASSUME NEW i \in Ids, Cancel(i) PROVE NodeTypeOK'
  BY <1>3 DEF Cancel, CallLocalCancel, Records, Recordable
<1>4. ASSUME NEW i \in Ids, PreDispatchFailure(i) PROVE NodeTypeOK'
  BY <1>4 DEF PreDispatchFailure, Fails, Fences, Ends, Records, Recordable
<1>5. ASSUME NEW i \in Ids, Authorize(i) PROVE NodeTypeOK'
  BY <1>5 DEF Authorize
<1>6. ASSUME NEW i \in Ids, CallReturns(i) PROVE NodeTypeOK'
  BY <1>6 DEF CallReturns
<1>7. ASSUME NEW i \in Ids, CallFails(i) PROVE NodeTypeOK'
  BY <1>7 DEF CallFails, Fences, Records, Recordable
<1>8. ASSUME NEW i \in Ids, RecordHandle(i) PROVE NodeTypeOK'
  BY <1>8 DEF RecordHandle
<1>9. ASSUME NEW i \in Ids, RecordAccepted(i) PROVE NodeTypeOK'
  BY <1>9 DEF RecordAccepted, Records, Recordable
<1>10. ASSUME NEW i \in Ids, PollActive(i) PROVE NodeTypeOK'
  BY <1>10 DEF PollActive, Polls, CallLocalCancel, Records, Recordable
<1>11. ASSUME NEW i \in Ids, PollMisses(i) PROVE NodeTypeOK'
  BY <1>11 DEF PollMisses, Polls, CallLocalCancel
<1>12. ASSUME NEW i \in Ids, PollFails(i) PROVE NodeTypeOK'
  BY <1>12 DEF PollFails, Polls, CallLocalCancel, Fences, Records, Recordable
<1>13. ASSUME NEW i \in Ids, PollEnded(i) PROVE NodeTypeOK'
  BY <1>13 DEF PollEnded, Polls, CallLocalCancel, Ends, Records, Recordable
<1>14. ASSUME NEW i \in Ids, PollOutput(i) PROVE NodeTypeOK'
  BY <1>14 DEF PollOutput, Polls, CallLocalCancel
<1>15. ASSUME NEW i \in Ids, PollPublish(i) PROVE NodeTypeOK'
  BY <1>15 DEF PollPublish, Polls, CallLocalCancel
<1>16. ASSUME NEW i \in Ids, RecordFrozen(i) PROVE NodeTypeOK'
  BY <1>16 DEF RecordFrozen
<1>17. ASSUME NEW i \in Ids, RecordCompleted(i) PROVE NodeTypeOK'
  BY <1>17 DEF RecordCompleted, Ends, Records, Recordable
<1>18. ASSUME NEW i \in Ids, CompletionFails(i) PROVE NodeTypeOK'
  BY <1>18 DEF CompletionFails, Fails, Fences, Ends, Records, Recordable
<1>19. ASSUME NEW i \in Ids, Resumed(i) PROVE NodeTypeOK'
  BY <1>19 DEF Resumed, Ends, Fences, Records, Recordable
<1>20. ASSUME NEW i \in Ids, Close(i) PROVE NodeTypeOK'
  BY <1>20 DEF Close
<1>21. ASSUME NEW i \in Ids, CancelAccepted(i) PROVE NodeTypeOK'
  BY <1>21 DEF CancelAccepted
<1>22. ASSUME NEW i \in Ids, CancelFails(i) PROVE NodeTypeOK'
  BY <1>22 DEF CancelFails
<1>23. ASSUME NEW i \in Ids, LocalProgress(i) PROVE NodeTypeOK'
  BY <1>23 DEF LocalProgress
<1>24. ASSUME Restart PROVE NodeTypeOK'
  BY <1>24 DEF Restart, Relocks, FencesFinalization, Reopened
<1>25. ASSUME UNCHANGED nvars PROVE NodeTypeOK'
  BY <1>25 DEF nvars
<1> QED
  BY <1>1, <1>2, <1>3, <1>4, <1>5, <1>6, <1>7, <1>8, <1>9, <1>10, <1>11, Zenon,
     <1>12, <1>13, <1>14, <1>15, <1>16, <1>17, <1>18, <1>19, <1>20,
     <1>21, <1>22, <1>23, <1>24, <1>25
     DEF NNext, DispatchTask, Poll, Completion

\* Only Execute, a repeated Execute and recovery add lock holders; the first two ask
\* LocksFree, and recovery only takes back locks that were held before the crash.
LEMMA DisjointStep ==
  ASSUME NodeInv, [NNext]_nvars PROVE HoldersDisjoint'
<1>1. ASSUME held' \subseteq held PROVE HoldersDisjoint'
  BY <1>1 DEF NodeInv, HoldersDisjoint
<1>2. ASSUME NEW i \in Ids, held' \subseteq held \cup {i}, LocksFree(i) PROVE HoldersDisjoint'
  BY <1>2 DEF NodeInv, HoldersDisjoint, LocksFree
<1>3. ASSUME NEW i \in Ids, Execute(i) \/ ExecuteAgain(i) PROVE HoldersDisjoint'
  BY <1>1, <1>2, <1>3 DEF Execute, ExecuteAgain
<1>4. ASSUME NEW i \in Ids, Cancel(i) \/ Close(i) PROVE HoldersDisjoint'
  BY <1>1, <1>4 DEF Cancel, Close
<1>5. ASSUME NEW i \in Ids, DispatchTask(i) PROVE HoldersDisjoint'
  BY <1>1, <1>5 DEF DispatchTask, PreDispatchFailure, Authorize, CallReturns, CallFails,
     RecordHandle, RecordAccepted
<1>6. ASSUME NEW i \in Ids, Poll(i) PROVE HoldersDisjoint'
  BY <1>1, <1>6 DEF Poll, PollActive, PollMisses, PollFails, PollEnded, PollOutput, PollPublish
<1>7. ASSUME NEW i \in Ids, Completion(i) PROVE HoldersDisjoint'
  BY <1>1, <1>4, <1>7 DEF Completion, RecordFrozen, RecordCompleted, CompletionFails, Resumed
<1>8. ASSUME NEW i \in Ids, CancelAccepted(i) \/ CancelFails(i) \/ LocalProgress(i)
      PROVE  HoldersDisjoint'
  BY <1>1, <1>8 DEF CancelAccepted, CancelFails, LocalProgress, process
<1>9. ASSUME Restart PROVE HoldersDisjoint'
  <2>1. \A i \in Ids : Relocks(i) => row[i] \in Active
    BY DEF Relocks, Reopened, Active, Open, Ended, NodeInv, NodeTypeOK, Status
  <2>2. held' \subseteq held
    BY <1>9, <2>1 DEF Restart, NodeInv, Consistent
  <2> QED
    BY <1>1, <2>2
<1>10. ASSUME UNCHANGED nvars PROVE HoldersDisjoint'
  BY <1>1, <1>10 DEF nvars, process
<1> QED
  BY <1>3, <1>4, <1>5, <1>6, <1>7, <1>8, <1>9, <1>10 DEF NNext

\* Every step keeps row, markers and task of each execution consistent.
LEMMA ConsistentStep ==
  ASSUME NodeInv, [NNext]_nvars PROVE \A j \in Ids : Consistent(j)'
<1> SUFFICES ASSUME NEW j \in Ids PROVE Consistent(j)'
  OBVIOUS
<1> USE DEF Consistent, Active, journal, process, local, Goto, NodeInv, NodeTypeOK, Status, Open,
          Ended, Fenced, Steps, Phys
<1>1. ASSUME NEW i \in Ids, Execute(i) PROVE Consistent(j)'
  BY <1>1 DEF Execute
<1>2. ASSUME NEW i \in Ids, ExecuteAgain(i) PROVE Consistent(j)'
  BY <1>2 DEF ExecuteAgain
<1>3. ASSUME NEW i \in Ids, Cancel(i) PROVE Consistent(j)'
  BY <1>3 DEF Cancel, CallLocalCancel, Records, Recordable
<1>4. ASSUME NEW i \in Ids, PreDispatchFailure(i) PROVE Consistent(j)'
  BY <1>4 DEF PreDispatchFailure, Fails, Fences, Ends, Records, Recordable
<1>5. ASSUME NEW i \in Ids, Authorize(i) PROVE Consistent(j)'
  BY <1>5 DEF Authorize
<1>6. ASSUME NEW i \in Ids, CallReturns(i) PROVE Consistent(j)'
  BY <1>6 DEF CallReturns
<1>7. ASSUME NEW i \in Ids, CallFails(i) PROVE Consistent(j)'
  BY <1>7 DEF CallFails, Fences, Records, Recordable
<1>8. ASSUME NEW i \in Ids, RecordHandle(i) PROVE Consistent(j)'
  BY <1>8 DEF RecordHandle
<1>9. ASSUME NEW i \in Ids, RecordAccepted(i) PROVE Consistent(j)'
  BY <1>9 DEF RecordAccepted, Records, Recordable
<1>10. ASSUME NEW i \in Ids, PollActive(i) PROVE Consistent(j)'
  BY <1>10 DEF PollActive, Polls, CallLocalCancel, Records, Recordable
<1>11. ASSUME NEW i \in Ids, PollMisses(i) PROVE Consistent(j)'
  BY <1>11 DEF PollMisses, Polls, CallLocalCancel
<1>12. ASSUME NEW i \in Ids, PollFails(i) PROVE Consistent(j)'
  BY <1>12 DEF PollFails, Polls, CallLocalCancel, Fences, Records, Recordable
<1>13. ASSUME NEW i \in Ids, PollEnded(i) PROVE Consistent(j)'
  BY <1>13 DEF PollEnded, Polls, CallLocalCancel, Ends, Records, Recordable
<1>14. ASSUME NEW i \in Ids, PollOutput(i) PROVE Consistent(j)'
  BY <1>14 DEF PollOutput, Polls, CallLocalCancel
<1>15. ASSUME NEW i \in Ids, PollPublish(i) PROVE Consistent(j)'
  BY <1>15 DEF PollPublish, Polls, CallLocalCancel
<1>16. ASSUME NEW i \in Ids, RecordFrozen(i) PROVE Consistent(j)'
  BY <1>16 DEF RecordFrozen
<1>17. ASSUME NEW i \in Ids, RecordCompleted(i) PROVE Consistent(j)'
  BY <1>17 DEF RecordCompleted, Ends, Records, Recordable
<1>18. ASSUME NEW i \in Ids, CompletionFails(i) PROVE Consistent(j)'
  BY <1>18 DEF CompletionFails, Fails, Fences, Ends, Records, Recordable
<1>19. ASSUME NEW i \in Ids, Resumed(i) PROVE Consistent(j)'
  BY <1>19 DEF Resumed, Ends, Fences, Records, Recordable
<1>20. ASSUME NEW i \in Ids, Close(i) PROVE Consistent(j)'
  BY <1>20 DEF Close
<1>21. ASSUME NEW i \in Ids, CancelAccepted(i) PROVE Consistent(j)'
  BY <1>21 DEF CancelAccepted
<1>22. ASSUME NEW i \in Ids, CancelFails(i) PROVE Consistent(j)'
  BY <1>22 DEF CancelFails
<1>23. ASSUME NEW i \in Ids, LocalProgress(i) PROVE Consistent(j)'
  BY <1>23 DEF LocalProgress
<1>24. ASSUME Restart PROVE Consistent(j)'
  BY <1>24 DEF Restart, Relocks, FencesFinalization, Reopened
<1>25. ASSUME UNCHANGED nvars PROVE Consistent(j)'
  BY <1>25 DEF nvars
<1> QED
  BY <1>1, <1>2, <1>3, <1>4, <1>5, <1>6, <1>7, <1>8, <1>9, <1>10, <1>11, Zenon,
     <1>12, <1>13, <1>14, <1>15, <1>16, <1>17, <1>18, <1>19, <1>20,
     <1>21, <1>22, <1>23, <1>24, <1>25
     DEF NNext, DispatchTask, Poll, Completion

-----------------------------------------------------------------------------
\* NodeInv is an invariant of the Node Service: it holds of an empty journal and every
\* command, task step, local event and restart preserves it.
THEOREM NodeInvariant == NSpec => []NodeInv
<1>1. NInit => NodeInv
  BY DEF NInit, NodeInv, NodeTypeOK, HoldersDisjoint, Consistent, Active, Status, Open,
     Ended, Fenced, Steps, Phys
<1>2. NodeInv /\ [NNext]_nvars => NodeInv'
  <2> SUFFICES ASSUME NodeInv, [NNext]_nvars PROVE NodeInv'
    OBVIOUS
  <2> QED
    BY TypeStep, DisjointStep, ConsistentStep DEF NodeInv
<1> QED
  BY <1>1, <1>2, PTL DEF NSpec

\* The journal and the engine's bookkeeping stay well typed (journal/authority.rs).
THEOREM NodeTypeCorrect == NSpec => []NodeTypeOK
<1>1. NodeInv => NodeTypeOK
  BY DEF NodeInv
<1> QED
  BY <1>1, NodeInvariant, PTL

\* Whatever commands, failures and crashes happen, in any number, the Node makes the local
\* execute call of an identity at most once (spawn_dispatch, authorize_local_dispatch).
THEOREM OneCall == NSpec => []AtMostOneLocalCall
<1>1. NodeInv => AtMostOneLocalCall
  <2>1. ASSUME NEW i \in Ids, Consistent(i) PROVE calls[i] <= 1
    BY <2>1 DEF Consistent
  <2> QED
    BY <2>1 DEF NodeInv, AtMostOneLocalCall
<1> QED
  BY <1>1, NodeInvariant, PTL

\* The mutable output of an execution is read at most once, however often the Node
\* restarts (prepare_artifact_freeze, record_prepared_artifact, recover).
THEOREM OneRead == NSpec => []AtMostOneOutputRead
<1>1. NodeInv => AtMostOneOutputRead
  <2>1. ASSUME NEW i \in Ids, Consistent(i) PROVE reads[i] <= 1
    BY <2>1 DEF Consistent
  <2> QED
    BY <2>1 DEF NodeInv, AtMostOneOutputRead
<1> QED
  BY <1>1, NodeInvariant, PTL

\* A Failed or Cancelled row is never shown for work that runs or may still start
\* (request_cancellation, recover_ambiguous_dispatches).
THEOREM StoppedMeansStopped == NSpec => []TerminalRowMeansStopped
<1>1. NodeInv => TerminalRowMeansStopped
  BY DEF NodeInv, Consistent, TerminalRowMeansStopped
<1> QED
  BY <1>1, NodeInvariant, PTL

\* Possibly active work keeps its locks, and holders never share a key, also across
\* restarts, so recover never meets a lock conflict (acquire_lock_keys, recover).
THEOREM LocksProtectActiveWork == NSpec => []ActiveWorkHoldsLocks
<1>1. NodeInv => ActiveWorkHoldsLocks
  BY DEF NodeInv, NodeTypeOK, HoldersDisjoint, Consistent, ActiveWorkHoldsLocks, Active,
     Status, Open, Ended, Fenced
<1> QED
  BY <1>1, NodeInvariant, PTL

\* Terminal rows never change, sequences never go back, and outside a restart a changed
\* status always has a new sequence, so an ordered consumer sees it (record_status).
THEOREM JournalOnlyProgresses == NSpec => JournalProgress
<1>1. ASSUME NodeInv, [NNext]_nvars PROVE \A j \in Ids : Forward(j)
  <2> SUFFICES ASSUME NEW j \in Ids PROVE Forward(j)
    OBVIOUS
  <2>1. row[j] \in Status /\ sq[j] \in Nat /\ crashes \in Nat /\ (row[j] = "None" => sq[j] = 0)
        /\ row \in [Ids -> Status] /\ sq \in [Ids -> Nat]
    BY <1>1 DEF NodeInv, NodeTypeOK, Consistent
  <2>2. ASSUME UNCHANGED <<row, sq>> PROVE Forward(j)
    BY <2>1, <2>2 DEF Forward
  <2>3. ASSUME NEW i \in Ids, NEW st, Records(i, st) PROVE Forward(j)
    BY <2>1, <2>3 DEF Forward, Records, Recordable
  <2>4. ASSUME NEW i \in Ids, Execute(i) PROVE Forward(j)
    BY <2>1, <2>4 DEF Forward, Execute, Ended
  <2>5. ASSUME NEW i \in Ids, ExecuteAgain(i) \/ Cancel(i) PROVE Forward(j)
    BY <2>2, <2>3, <2>5 DEF ExecuteAgain, Cancel, journal
  <2>6. ASSUME NEW i \in Ids, DispatchTask(i) PROVE Forward(j)
    BY <2>2, <2>3, <2>6 DEF DispatchTask, PreDispatchFailure, Authorize, CallReturns,
       CallFails, RecordHandle, RecordAccepted, Fails, Fences, Ends, journal
  <2>7. ASSUME NEW i \in Ids, Poll(i) PROVE Forward(j)
    BY <2>2, <2>3, <2>7 DEF Poll, PollActive, PollMisses, PollFails, PollEnded, PollOutput,
       PollPublish, Fences, Ends, journal
  <2>8. ASSUME NEW i \in Ids, Completion(i) PROVE Forward(j)
    BY <2>2, <2>3, <2>8 DEF Completion, RecordFrozen, RecordCompleted, CompletionFails,
       Resumed, Close, Fails, Fences, Ends
  <2>9. ASSUME NEW i \in Ids, CancelAccepted(i) \/ CancelFails(i) \/ LocalProgress(i)
        PROVE  Forward(j)
    BY <2>2, <2>9 DEF CancelAccepted, CancelFails, LocalProgress, journal
  <2>10. ASSUME Restart PROVE Forward(j)
    BY <2>1, <2>10 DEF Forward, Restart, FencesFinalization, Reopened, Open, Ended, Fenced
  <2>11. ASSUME UNCHANGED nvars PROVE Forward(j)
    BY <2>2, <2>11 DEF nvars, journal
  <2> QED
    BY <1>1, <2>4, <2>5, <2>6, <2>7, <2>8, <2>9, <2>10, <2>11 DEF NNext
<1>2. NodeInv /\ [NNext]_nvars => [JournalForward]_nvars
  BY <1>1 DEF JournalForward
<1> QED
  BY <1>2, NodeInvariant, PTL DEF NSpec, JournalProgress

=============================================================================

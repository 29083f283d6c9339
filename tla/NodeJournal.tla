------------------------------- MODULE NodeJournal -------------------------------
(***************************************************************************)
(* One Node Service: the durable execution journal (journal/authority.rs,  *)
(* journal/storage.rs) and the local engine that admits commands, makes    *)
(* the one permitted local call, polls it and finishes its artifacts       *)
(* (engine/admission.rs, engine/execution.rs, engine/observation.rs).      *)
(*                                                                         *)
(* SQLite transactions are atomic; the asynchronous dispatch task of each  *)
(* execution stops between any two of its journal writes and calls, and a  *)
(* crash loses the task, the in-memory locks and the cancel call in        *)
(* flight.  The Local EAIOS is external: it may start the requested work   *)
(* at any time after the call left, whatever the Node then learns of it.   *)
(*                                                                         *)
(* Faulty_X is a plausible slip in X that nothing uses (RuntimeExecution). *)
(***************************************************************************)
EXTENDS Integers, FiniteSets

CONSTANTS
    Ids,            \* execution identities
    Resources,      \* committed resources and local lock keys
    Needs,          \* the keys each execution locks
    Artifact,       \* completion work of each execution: "none", "freeze", "publish"
    MaxSeq,         \* bound on the journal sequence of one execution
    MaxCrashes      \* bound on Node restarts

ASSUME NeedsAssumption    == Needs \in [Ids -> SUBSET Resources]
ASSUME ArtifactAssumption == Artifact \in [Ids -> {"none", "freeze", "publish"}]
ASSUME NodeBoundAssumption == MaxSeq \in Nat /\ MaxCrashes \in Nat

VARIABLES
    row,            \* journal status, "None" without a row
    sq,             \* journal sequence
    tomb,           \* cancellation_intents
    auth,           \* local_dispatch_authorizations
    handle,         \* executions whose local handle is recorded
    wanted,         \* rows with cancellation_requested
    fence,          \* artifact_preparations ("freeze"), artifact_finalizations ("publish")
    frozen,         \* executions with a prepared_artifacts record
    step,           \* position of the dispatch task or status loop of each execution
    resuming,       \* artifact_finalizations_in_flight: tasks of repeated Execute commands
    closing,        \* terminal row written, marker and locks not yet released
    held,           \* executions holding their in-memory locks
    cancelling,     \* cancellations_in_flight
    calls,          \* local execute calls made so far
    reads,          \* reads of the mutable output so far
    phys,           \* what the Local EAIOS is really doing
    told,           \* executions whose local cancel call was delivered
    crashes

journal  == <<row, sq, tomb, auth, handle, wanted, fence, frozen>>
process  == <<step, resuming, closing, held, cancelling>>
local    == <<calls, reads, phys, told>>
nvars    == <<journal, process, local, crashes>>

Ended   == {"Completed", "Failed", "Cancelled"}
Fenced  == "ReconciliationRequired"
Open    == {"Accepted", "Running", Fenced}
Status  == {"None", "Dispatching"} \cup Open \cup Ended
Steps   == {"idle", "preparing", "calling", "returned", "handled", "polling",
            "freezing", "verifying", "publishing", "finishing"}
Phys    == {"none", "queued", "running", "completed", "failed", "cancelled"}

NInit ==
    /\ row = [i \in Ids |-> "None"] /\ sq = [i \in Ids |-> 0]
    /\ tomb = {} /\ auth = {} /\ handle = {} /\ wanted = {}
    /\ fence = {} /\ frozen = {}
    /\ step = [i \in Ids |-> "idle"] /\ resuming = {} /\ closing = {}
    /\ held = {} /\ cancelling = {}
    /\ calls = [i \in Ids |-> 0] /\ reads = [i \in Ids |-> 0]
    /\ phys = [i \in Ids |-> "none"] /\ told = {}
    /\ crashes = 0

Goto(i, s) == step' = [step EXCEPT ![i] = s]

\* acquire_lock_keys refuses a key another execution owns.
LocksFree(i) == \A j \in held \ {i} : Needs[i] \cap Needs[j] = {}

Faulty_Recordable(i) == sq[i] < MaxSeq

\* record_status accepts the next sequence, and never over a terminal row.
Recordable(i) == row[i] \notin Ended /\ sq[i] < MaxSeq

Records(i, st) ==
    /\ Recordable(i)
    /\ row' = [row EXCEPT ![i] = st]
    /\ sq'  = [sq EXCEPT ![i] = @ + 1]

\* record_ambiguous drops its own error: a terminal row, or one whose write the storage
\* refuses, stays as it was.  No lock is released either way.
Fences(i) ==
    \/ UNCHANGED <<row, sq>>
    \/ Records(i, Fenced)

\* A terminal fact; clearing the finalization marker and the locks follows it.
Ends(i, st) == Records(i, st) /\ closing' = closing \cup {i}

\* record_deterministic_failure, which falls back to record_ambiguous when the row is
\* terminal or the storage refuses the write.
Fails(i) ==
    \/ Fences(i) /\ UNCHANGED closing
    \/ Ends(i, "Failed")

-----------------------------------------------------------------------------
(***************************************************************************)
(* Commands                                                                *)
(***************************************************************************)
\* A first Execute takes its locks, then writes the row; a tombstone ends it there.
Execute(i) ==
    /\ row[i] = "None" /\ LocksFree(i)
    /\ IF i \in tomb
       THEN /\ row' = [row EXCEPT ![i] = "Cancelled"] /\ sq' = [sq EXCEPT ![i] = 1]
            /\ UNCHANGED <<step, held>>
       ELSE /\ row' = [row EXCEPT ![i] = "Dispatching"] /\ UNCHANGED sq
            /\ Goto(i, "preparing") /\ held' = held \cup {i}
    /\ UNCHANGED <<tomb, auth, handle, wanted, fence, frozen, resuming, closing, cancelling,
                   local, crashes>>

\* A repeated Execute only resumes a pending finalization.  The in-flight guard knows
\* the other resumes, not a status loop that is finishing the same artifact.
ExecuteAgain(i) ==
    /\ row[i] = Fenced /\ i \in fence /\ Artifact[i] = "publish" /\ LocksFree(i)
    /\ resuming' = resuming \cup {i} /\ held' = held \cup {i}
    /\ UNCHANGED <<journal, step, closing, cancelling, local, crashes>>

\* The part of cancel after the tombstone is durable.
StartsLocalCancel(i) == i \in handle /\ i \notin wanted /\ row[i] \notin Ended

CallLocalCancel(i) == IF StartsLocalCancel(i) THEN cancelling \cup {i} ELSE cancelling

Faulty_Cancel(i) ==      \* ends a row whose local call may already have left
    /\ tomb' = tomb \cup {i}
    /\ IF row[i] = "Dispatching"
       THEN Records(i, "Cancelled") /\ held' = held \ {i} /\ UNCHANGED cancelling
       ELSE UNCHANGED <<row, sq, held>> /\ cancelling' = CallLocalCancel(i)
    /\ UNCHANGED <<auth, handle, wanted, fence, frozen, step, resuming, closing, local, crashes>>

\* Cancel: only a row whose local call is not yet authorized ends at once.
Cancel(i) ==
    /\ tomb' = tomb \cup {i}
    /\ IF row[i] = "Dispatching" /\ i \notin auth
       THEN Records(i, "Cancelled") /\ held' = held \ {i} /\ UNCHANGED cancelling
       ELSE /\ UNCHANGED <<row, sq>>
            /\ held' = IF row[i] \in Ended THEN held \ {i} ELSE held
            /\ cancelling' = CallLocalCancel(i)
    /\ UNCHANGED <<auth, handle, wanted, fence, frozen, step, resuming, closing, local, crashes>>

-----------------------------------------------------------------------------
(***************************************************************************)
(* The dispatch task                                                       *)
(***************************************************************************)
PreDispatchFailure(i) ==
    /\ step[i] = "preparing"
    /\ Fails(i) /\ Goto(i, "idle")
    /\ UNCHANGED <<tomb, auth, handle, wanted, fence, frozen, resuming, held, cancelling,
                   local, crashes>>

\* authorize_local_dispatch, then the call leaves; a row cancelled meanwhile is refused.
Authorize(i) ==
    /\ step[i] = "preparing" /\ row[i] = "Dispatching" /\ i \notin handle
    /\ auth' = auth \cup {i}
    /\ calls' = [calls EXCEPT ![i] = @ + 1]
    /\ Goto(i, "calling")
    /\ UNCHANGED <<row, sq, tomb, handle, wanted, fence, frozen, resuming, closing, held,
                   cancelling, reads, phys, told, crashes>>

CallReturns(i) ==
    /\ step[i] = "calling" /\ phys[i] # "none"
    /\ Goto(i, "returned")
    /\ UNCHANGED <<journal, resuming, closing, held, cancelling, local, crashes>>

Faulty_CallFails(i) ==      \* repeats an execute call that timed out
    /\ step[i] = "calling"
    /\ calls' = [calls EXCEPT ![i] = @ + 1]
    /\ UNCHANGED <<journal, process, reads, phys, told, crashes>>

\* The call, its handle or one of the next two records fails: the outcome is unknown.
CallFails(i) ==
    /\ step[i] \in {"calling", "returned", "handled"}
    /\ Fences(i) /\ Goto(i, "idle")
    /\ UNCHANGED <<tomb, auth, handle, wanted, fence, frozen, resuming, closing, held,
                   cancelling, local, crashes>>

RecordHandle(i) ==
    /\ step[i] = "returned" /\ row[i] = "Dispatching"
    /\ handle' = handle \cup {i}
    /\ Goto(i, "handled")
    /\ UNCHANGED <<row, sq, tomb, auth, wanted, fence, frozen, resuming, closing, held,
                   cancelling, local, crashes>>

RecordAccepted(i) ==
    /\ step[i] = "handled"
    /\ Records(i, "Accepted") /\ Goto(i, "polling")
    /\ UNCHANGED <<tomb, auth, handle, wanted, fence, frozen, resuming, closing, held,
                   cancelling, local, crashes>>

-----------------------------------------------------------------------------
(***************************************************************************)
(* The status loop                                                         *)
(***************************************************************************)
Faulty_Polls(i) == step[i] = "polling" /\ UNCHANGED cancelling

\* Each turn of the loop first repeats a pending cancellation.
Polls(i) ==
    /\ step[i] = "polling"
    /\ cancelling' = IF i \in tomb THEN CallLocalCancel(i) ELSE cancelling

\* The fact the local phase maps to, recorded when it differs from the row.
PollActive(i) ==
    /\ Polls(i) /\ phys[i] \in {"queued", "running"}
    /\ LET st == IF phys[i] = "queued" THEN "Accepted" ELSE "Running"
       IN  IF row[i] = st THEN UNCHANGED <<row, sq>> ELSE Records(i, st)
    /\ UNCHANGED <<tomb, auth, handle, wanted, fence, frozen, step, resuming, closing, held,
                   local, crashes>>

\* A failed read that will be repeated.
PollMisses(i) ==
    /\ Polls(i)
    /\ UNCHANGED <<journal, step, resuming, closing, held, local, crashes>>

\* The fifth failed read in a row, or one that no repetition can repair.
PollFails(i) ==
    /\ Polls(i)
    /\ Fences(i) /\ Goto(i, "idle")
    /\ UNCHANGED <<tomb, auth, handle, wanted, fence, frozen, resuming, closing, held,
                   local, crashes>>

\* A terminal fact without completion work.
PollEnded(i) ==
    /\ Polls(i)
    /\ \/ phys[i] = "completed" /\ Artifact[i] = "none" /\ Ends(i, "Completed")
       \/ phys[i] = "failed" /\ Ends(i, "Failed")
       \/ phys[i] = "cancelled" /\ Ends(i, "Cancelled")
    /\ Goto(i, "idle")
    /\ UNCHANGED <<tomb, auth, handle, wanted, fence, frozen, resuming, held, local, crashes>>

Faulty_PollOutput(i) ==      \* reads the output without consulting the durable permission
    /\ Polls(i) /\ phys[i] = "completed" /\ Artifact[i] = "freeze"
    /\ fence' = fence \cup {i} /\ reads' = [reads EXCEPT ![i] = @ + 1]
    /\ Goto(i, "freezing")
    /\ UNCHANGED <<row, sq, tomb, auth, handle, wanted, frozen, resuming, closing, held,
                   calls, phys, told, crashes>>

\* freeze_artifact_output: a frozen output is verified again; otherwise one durable
\* permission allows one read of the mutable output.
PollOutput(i) ==
    /\ Polls(i) /\ phys[i] = "completed" /\ Artifact[i] = "freeze"
    /\ \/ i \in frozen /\ Goto(i, "verifying") /\ UNCHANGED <<fence, reads>>
       \/ /\ i \notin frozen /\ i \notin fence
          /\ fence' = fence \cup {i} /\ reads' = [reads EXCEPT ![i] = @ + 1]
          /\ Goto(i, "freezing")
    /\ UNCHANGED <<row, sq, tomb, auth, handle, wanted, frozen, resuming, closing, held,
                   calls, phys, told, crashes>>

\* record_prepared_artifact clears the permission it was read under.
RecordFrozen(i) ==
    /\ step[i] = "freezing"
    /\ frozen' = frozen \cup {i} /\ fence' = fence \ {i}
    /\ Goto(i, "finishing")
    /\ UNCHANGED <<row, sq, tomb, auth, handle, wanted, resuming, closing, held, cancelling,
                   local, crashes>>

\* prepare_artifact_finalization precedes the first remote write.
PollPublish(i) ==
    /\ Polls(i) /\ phys[i] = "completed" /\ Artifact[i] = "publish"
    /\ fence' = fence \cup {i}
    /\ Goto(i, "publishing")
    /\ UNCHANGED <<row, sq, tomb, auth, handle, wanted, frozen, resuming, closing, held,
                   local, crashes>>

RecordCompleted(i) ==
    /\ step[i] \in {"finishing", "verifying", "publishing"}
    /\ Ends(i, "Completed") /\ Goto(i, "idle")
    /\ UNCHANGED <<tomb, auth, handle, wanted, fence, frozen, resuming, held, cancelling,
                   local, crashes>>

\* Completion work fails conclusively, or with an unknown remote outcome.
CompletionFails(i) ==
    /\ \/ step[i] \in {"freezing", "verifying", "publishing"} /\ Fails(i)
       \/ /\ step[i] \in {"freezing", "verifying", "publishing", "finishing"}
          /\ Fences(i) /\ UNCHANGED closing
    /\ Goto(i, "idle")
    /\ UNCHANGED <<tomb, auth, handle, wanted, fence, frozen, resuming, held, cancelling,
                   local, crashes>>

\* The task of a repeated Execute: a failure proves nothing of the earlier attempt.
Resumed(i) ==
    /\ i \in resuming
    /\ \/ Ends(i, "Completed")
       \/ Fences(i) /\ UNCHANGED closing
    /\ resuming' = resuming \ {i}
    /\ UNCHANGED <<tomb, auth, handle, wanted, fence, frozen, step, held, cancelling,
                   local, crashes>>

\* clear_artifact_finalization and release_locks after a terminal fact.
Close(i) ==
    /\ i \in closing
    /\ closing' = closing \ {i} /\ held' = held \ {i}
    /\ fence' = IF Artifact[i] = "publish" THEN fence \ {i} ELSE fence
    /\ UNCHANGED <<row, sq, tomb, auth, handle, wanted, frozen, step, resuming, cancelling,
                   local, crashes>>

-----------------------------------------------------------------------------
(***************************************************************************)
(* The local cancel call and the Local EAIOS (external)                    *)
(***************************************************************************)
CancelAccepted(i) ==
    /\ i \in cancelling
    /\ cancelling' = cancelling \ {i} /\ told' = told \cup {i}
    /\ wanted' = IF row[i] \in Ended THEN wanted ELSE wanted \cup {i}
    /\ UNCHANGED <<row, sq, tomb, auth, handle, fence, frozen, step, resuming, closing, held,
                   calls, reads, phys, crashes>>

\* The cancel workflow reports an error; the request may have arrived all the same.
CancelFails(i) ==
    /\ i \in cancelling
    /\ cancelling' = cancelling \ {i} /\ told' \in {told, told \cup {i}}
    /\ UNCHANGED <<journal, step, resuming, closing, held, calls, reads, phys, crashes>>

LocalProgress(i) ==
    /\ \/ phys[i] = "none" /\ calls[i] > 0 /\ phys' = [phys EXCEPT ![i] = "queued"]
       \/ phys[i] = "queued" /\ phys' = [phys EXCEPT ![i] = "running"]
       \/ /\ phys[i] \in {"queued", "running"}
          /\ \E st \in {"completed", "failed"} \cup (IF i \in told THEN {"cancelled"} ELSE {}) :
                phys' = [phys EXCEPT ![i] = st]
    /\ UNCHANGED <<journal, process, calls, reads, told, crashes>>

-----------------------------------------------------------------------------
(***************************************************************************)
(* Crash, recover_ambiguous_dispatches at open, and recover                *)
(***************************************************************************)
\* None of these updates advances the sequence.
Reopened(i) ==
    IF row[i] = "Dispatching" /\ i \notin handle /\ i \notin auth THEN "Failed"
    ELSE IF row[i] = "Dispatching" THEN Fenced
    ELSE IF row[i] \in Open /\ i \in fence /\ Artifact[i] = "freeze" THEN Fenced
    ELSE row[i]

Faulty_Relocks(i) == Reopened(i) \in Open /\ i \in handle

\* recover takes the locks of every open row again before it polls.
Relocks(i) == Reopened(i) \in Open

\* recover fences an active row with a pending finalization under a new sequence.
FencesFinalization(i) ==
    Reopened(i) \in {"Accepted", "Running"} /\ i \in fence /\ Artifact[i] = "publish"

Restart ==
    /\ crashes < MaxCrashes
    /\ crashes' = crashes + 1
    /\ \A i \in Ids : FencesFinalization(i) => sq[i] < MaxSeq
    /\ row' = [i \in Ids |-> IF FencesFinalization(i) THEN Fenced ELSE Reopened(i)]
    /\ sq'  = [i \in Ids |-> IF FencesFinalization(i) THEN sq[i] + 1 ELSE sq[i]]
    /\ held' = {i \in Ids : Relocks(i)}
    /\ step' = [i \in Ids |-> IF Relocks(i) /\ i \notin fence /\ i \in handle
                              THEN "polling" ELSE "idle"]
    /\ resuming' = {} /\ closing' = {} /\ cancelling' = {}
    /\ UNCHANGED <<tomb, auth, handle, wanted, fence, frozen, local>>

DispatchTask(i) ==
    \/ PreDispatchFailure(i) \/ Authorize(i) \/ CallReturns(i) \/ CallFails(i)
    \/ RecordHandle(i) \/ RecordAccepted(i)

Poll(i) ==
    \/ PollActive(i) \/ PollMisses(i) \/ PollFails(i) \/ PollEnded(i)
    \/ PollOutput(i) \/ PollPublish(i)

Completion(i) ==
    \/ RecordFrozen(i) \/ RecordCompleted(i) \/ CompletionFails(i) \/ Resumed(i) \/ Close(i)

NNext ==
    \/ \E i \in Ids : \/ Execute(i) \/ ExecuteAgain(i) \/ Cancel(i)
                      \/ DispatchTask(i) \/ Poll(i) \/ Completion(i)
                      \/ CancelAccepted(i) \/ CancelFails(i) \/ LocalProgress(i)
    \/ Restart

NSpec == NInit /\ [][NNext]_nvars

\* A turn of the status loop that sends the local cancel call.
RepeatsCancel(i) == Poll(i) /\ cancelling' # cancelling

\* The status loop keeps turning (most turns change nothing, so fairness is on the turn
\* that has a cancellation to send), and a Local EAIOS that is asked to cancel again and
\* again takes one of the requests.  Nothing forces a poll to fail or the work to end.
NodeFairness == \A i \in Ids : WF_nvars(RepeatsCancel(i)) /\ SF_nvars(CancelAccepted(i))

NFairSpec ==
    NSpec /\ NodeFairness

-----------------------------------------------------------------------------
(***************************************************************************)
(* Properties                                                              *)
(***************************************************************************)

\* Type correctness of the journal and of the process-local state.
NodeTypeOK ==
    /\ row \in [Ids -> Status] /\ sq \in [Ids -> Nat]
    /\ tomb \subseteq Ids /\ auth \subseteq Ids /\ handle \subseteq Ids /\ wanted \subseteq Ids
    /\ fence \subseteq Ids /\ frozen \subseteq Ids
    /\ step \in [Ids -> Steps] /\ resuming \subseteq Ids /\ closing \subseteq Ids
    /\ held \subseteq Ids /\ cancelling \subseteq Ids
    /\ calls \in [Ids -> Nat] /\ reads \in [Ids -> Nat]
    /\ phys \in [Ids -> Phys] /\ told \subseteq Ids /\ crashes \in Nat

\* The local execute call of an identity is made at most once, across repeated Execute
\* commands, cancellations, failed calls and restarts (prepare_dispatch, spawn_dispatch).
AtMostOneLocalCall == \A i \in Ids : calls[i] <= 1

\* The mutable output of an execution is read at most once, also when the Node stops
\* between the read and the record of what was read (prepare_artifact_freeze).
AtMostOneOutputRead == \A i \in Ids : reads[i] <= 1

\* Failed and Cancelled rows are never shown for work that runs or may still start:
\* the journal forgets neither a call that left nor one the Node crashed in.
TerminalRowMeansStopped ==
    \A i \in Ids : row[i] \in {"Cancelled", "Failed"} =>
        phys[i] \in {"completed", "failed", "cancelled"} \/ calls[i] = 0

\* Work that may be physically active keeps its locks, and no two holders share a key:
\* neither a crash nor an ambiguous call lets another execution onto the resource
\* (record_ambiguous, recover).
ActiveWorkHoldsLocks ==
    /\ \A i \in Ids : calls[i] > 0 /\ row[i] \notin Ended => i \in held
    /\ \A i, j \in held : i # j => Needs[i] \cap Needs[j] = {}

\* One step as an ordered consumer of the journal row of i may see it.
Forward(i) ==
    /\ row[i] \in Ended => row'[i] = row[i] /\ sq'[i] = sq[i]
    /\ sq'[i] >= sq[i]
    /\ row'[i] # row[i] /\ row[i] # "None" /\ sq'[i] = sq[i] => crashes' # crashes

JournalForward == \A i \in Ids : Forward(i)

\* Terminal rows are immutable and sequences never go back.  A status changes under an
\* unchanged sequence only when the journal is opened (recover_ambiguous_dispatches).
JournalProgress == [][JournalForward]_nvars

\* A cancellation that arrives before the local handle is known is not forgotten: the
\* status loop repeats it until the local system takes it or the loop ends.
CancellationDelivered ==
    \A i \in Ids : (i \in tomb /\ step[i] = "polling") ~> (i \in wanted \/ step[i] # "polling")

\* A Failed row is conclusive (record_deterministic_failure): no other attempt to finish
\* the same artifact is still writing.  Violated: a resume can run beside the status loop.
FailureIsConclusive == \A i \in Ids : row[i] = "Failed" => i \notin resuming
=============================================================================

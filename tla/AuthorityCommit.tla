--------------------------- MODULE AuthorityCommit ---------------------------
(***************************************************************************)
(* What a thread does with the writer: the application transactions of the *)
(* Controller over its event store and its live projection.                *)
(*                                                                         *)
(* A transaction clones the live projection, opens a batch of the event    *)
(* store, reduces its input on the private clone, saves the checkpoint in  *)
(* the batch, commits, and only then publishes the clone.  Any of these    *)
(* steps may fail; the store latches the first persistence failure and     *)
(* refuses writes until an operator's recovery or a restart of the process.*)
(*                                                                         *)
(* An authority state is the set of effects it contains; effects are       *)
(* numbered in the order transactions start.  The jobs are                 *)
(*   "facts"    NodeFactDriver (application/fact_batch.rs)                 *)
(*   "timer"    drive_application_timer (application/timer.rs)             *)
(*   "request"  transaction (application/federation/execution.rs)          *)
(*   "recover"  POST /v1/authority/recover (controller_http/server.rs)     *)
(* The store is the standalone profile: no replicator is attached.         *)
(***************************************************************************)
EXTENDS ApplicationWriter

CONSTANTS MaxEffects,     \* bound: transactions that change the authority
          MaxGeneration   \* bound: write failures an operator may recover

ASSUME EffectAssumption == MaxEffects \in Nat /\ MaxGeneration \in Nat

VARIABLES
    \* the process
    live,       \* published ControllerState
    mutex,      \* its mutex: "sound" or "poisoned"
    job, step,  \* of each thread: its transaction and how far it is
    cand,       \* of each thread: its private candidate
    due,        \* of each thread: committed facts it has yet to acknowledge
    cmd,        \* of each thread: generation and checkpoint a recovery names
    \* the event store
    open,       \* batch_start_number is set
    pending,    \* pending_checkpoint_cache: no or one state
    cache,      \* checkpoint_cache
    failure,    \* first failure: "none", "retry" or "restart" (restart_required)
    generation, \* availability generation
    durable,    \* the checkpoint in SQLite
    \* observation
    made,       \* effects numbered so far
    acked       \* facts whose Node was told they are accepted

process == <<live, mutex, job, step, cand, due, cmd>>
log == <<open, pending, cache, failure, generation, durable>>
vars == <<writer, process, log, made, acked>>

Jobs == {"facts", "timer", "request", "recover"}
Steps == {"none", "begun", "saved", "committed", "published", "ended"}
States == SUBSET Nat

Init ==
    /\ WriterInit
    /\ live = {}
    /\ mutex = "sound"
    /\ job = [t \in Threads |-> "request"]
    /\ step = [t \in Threads |-> "none"]
    /\ cand = [t \in Threads |-> {}]
    /\ due = [t \in Threads |-> {}]
    /\ cmd = [t \in Threads |-> [generation |-> 0, checkpoint |-> {}]]
    /\ open = FALSE
    /\ pending = {}
    /\ cache = {}
    /\ failure = "none"
    /\ generation = 0
    /\ durable = {}
    /\ made = 0
    /\ acked = {}

-----------------------------------------------------------------------------
Holds(t, s) == place[t] = "turn" /\ step[t] = s
Advance(t, s) == step' = [step EXCEPT ![t] = s]

\* Fact batches and the timer latch any failure of theirs as one that needs a
\* restart; the other transactions leave the latch to the store.
DisablesWrites(t) == job[t] \in {"facts", "timer"}

\* restart_required is not passed on.
Faulty_Latched(t, persistence) ==
    IF failure # "none" THEN failure
    ELSE IF persistence \/ DisablesWrites(t) THEN "retry" ELSE "none"

\* The latch after t's transaction failed.  A persistence error is observed by
\* the store first, and the first failure is kept.
Latched(t, persistence) ==
    IF failure # "none" THEN failure
    ELSE IF persistence THEN "retry"
    ELSE IF DisablesWrites(t) THEN "restart" ELSE "none"

Fails(t, persistence) ==
    /\ failure' = Latched(t, persistence)
    /\ generation' = IF failure' = failure THEN generation ELSE generation + 1
    /\ Advance(t, "ended")

\* rollback_batch on an open batch; its ROLLBACK may itself fail.
Rollback ==
    \/ open' = FALSE /\ pending' = {}
    \/ UNCHANGED <<open, pending>>

-----------------------------------------------------------------------------
(* Entering.                                                                *)

\* A caller asks for the writer.  A recovery names the failure and checkpoint
\* its operator saw before; facts are driven by one task, one batch at a time.
Arrive(t) ==
    /\ due[t] = {}
    /\ Lock(t)
    /\ \E j \in Jobs : job' = [job EXCEPT ![t] = j]
    /\ cmd' = [cmd EXCEPT ![t] = [generation |-> generation, checkpoint |-> cache]]
    /\ UNCHANGED <<live, mutex, step, cand, due, log, made, acked>>

Wake(t) ==
    /\ Recheck(t)
    /\ UNCHANGED <<process, log, made, acked>>

\* AuthorizedRequestGate::lock got the guard and its second look at the request
\* says no: the guard is dropped.
Abandon(t) ==
    /\ Holds(t, "none")
    /\ job[t] \in {"request", "recover"}
    /\ Release(t, FALSE)
    /\ UNCHANGED <<process, log, made, acked>>

-----------------------------------------------------------------------------
(* A transaction.                                                           *)

\* Clone the live projection, begin_batch, reduce the input on the clone.
Begin(t) ==
    /\ Holds(t, "none")
    /\ job[t] # "recover"
    /\ mutex = "sound"
    /\ failure = "none"
    /\ ~open
    /\ open' = TRUE
    /\ \/ /\ made < MaxEffects
          /\ made' = made + 1
          /\ cand' = [cand EXCEPT ![t] = live \cup {made'}]
       \/ /\ cand' = [cand EXCEPT ![t] = live]
          /\ UNCHANGED made
    /\ Advance(t, "begun")
    /\ UNCHANGED <<writer, live, mutex, job, due, cmd,
                   pending, cache, failure, generation, durable, acked>>

\* begin_batch fails: writes are disabled, a batch was left open, or SQLite
\* refuses.  A request has cloned the projection before.
BeginRefused(t) ==
    /\ Holds(t, "none")
    /\ job[t] # "recover"
    /\ job[t] = "request" => mutex = "sound"
    /\ \/ failure # "none" /\ Fails(t, FALSE)
       \/ failure = "none" /\ open /\ Fails(t, FALSE)
       \/ failure = "none" /\ ~open /\ Fails(t, TRUE)
    /\ UNCHANGED <<writer, live, mutex, job, cand, due, cmd,
                   open, pending, cache, durable, made, acked>>

\* The projection's mutex is poisoned.  A request finds out before begin_batch,
\* a fact batch or the timer with the batch open.
CloneRefused(t) ==
    /\ Holds(t, "none")
    /\ mutex = "poisoned"
    /\ \/ /\ job[t] = "request"
          /\ Advance(t, "ended")
          /\ UNCHANGED <<open, failure, generation>>
       \/ /\ DisablesWrites(t)
          /\ failure = "none"
          /\ ~open
          /\ open' \in BOOLEAN
          /\ Fails(t, FALSE)
    /\ UNCHANGED <<writer, live, mutex, job, cand, due, cmd,
                   pending, cache, durable, made, acked>>

\* save_checkpoint_with_command.
Save(t) ==
    /\ Holds(t, "begun")
    /\ failure = "none"
    /\ pending' = {cand[t]}
    /\ Advance(t, "saved")
    /\ UNCHANGED <<writer, live, mutex, job, cand, due, cmd,
                   open, cache, failure, generation, durable, made, acked>>

\* The input changed nothing.  The timer rolls back if the store still holds
\* its checkpoint and publishes all the same; the others roll back and return.
\* A fact batch may then fail to fence a session it rejected.
EndUnchanged(t) ==
    /\ Holds(t, "begun")
    /\ cand[t] = live
    /\ open' = FALSE
    /\ pending' = {}
    /\ \/ /\ job[t] = "timer"
          /\ failure = "none" /\ pending = {} /\ cache = cand[t] /\ durable = cache
          /\ Advance(t, "committed")
          /\ UNCHANGED <<failure, generation>>
       \/ /\ job[t] # "timer"
          /\ Advance(t, "ended")
          /\ UNCHANGED <<failure, generation>>
       \/ /\ job[t] = "facts"
          /\ Fails(t, FALSE)
    /\ UNCHANGED <<writer, live, mutex, job, cand, due, cmd,
                   cache, durable, made, acked>>

\* The reduction, the save or the last validation before Commit fails.
Fail(t) ==
    /\ Holds(t, "begun") \/ Holds(t, "saved")
    /\ \E persistence \in BOOLEAN : Fails(t, persistence)
    /\ Rollback
    /\ UNCHANGED <<writer, live, mutex, job, cand, due, cmd,
                   cache, durable, made, acked>>

\* commit_batch.
Commit(t) ==
    /\ Holds(t, "saved")
    /\ failure = "none"
    /\ open
    /\ \E s \in pending : durable' = s /\ cache' = s
    /\ pending' = {}
    /\ open' = FALSE
    /\ Advance(t, "committed")
    /\ UNCHANGED <<writer, live, mutex, job, cand, due, cmd,
                   failure, generation, made, acked>>

\* The error of commit_batch is ignored.
Faulty_CommitFails(t) ==
    /\ Holds(t, "saved")
    /\ Advance(t, "committed")
    /\ Rollback
    /\ UNCHANGED <<writer, live, mutex, job, cand, due, cmd,
                   cache, failure, generation, durable, made, acked>>

\* SQLite reports an error for COMMIT: the transaction is rolled back or kept,
\* or it is in the file all the same and then there is none to roll back.
CommitFails(t) ==
    /\ Holds(t, "saved")
    /\ failure = "none"
    /\ Fails(t, TRUE)
    /\ \/ Rollback /\ UNCHANGED durable
       \/ durable' \in pending /\ UNCHANGED <<open, pending>>
    /\ UNCHANGED <<writer, live, mutex, job, cand, due, cmd, cache, made, acked>>

\* The committed candidate becomes the live projection.
Publish(t) ==
    /\ Holds(t, "committed")
    /\ mutex = "sound"
    /\ live' = cand[t]
    /\ due' = [due EXCEPT ![t] = IF job[t] = "facts" THEN cand[t] \ live ELSE {}]
    /\ Advance(t, "published")
    /\ UNCHANGED <<writer, mutex, job, cand, cmd, log, made, acked>>

\* Nothing is published after Commit: the projection's mutex is poisoned, or a
\* fact batch could not fence a rejected session.  There is no batch left that
\* rollback_batch could undo.
PublishRefused(t) ==
    /\ Holds(t, "committed")
    /\ mutex = "poisoned" \/ job[t] = "facts"
    /\ Fails(t, FALSE)
    /\ UNCHANGED <<writer, live, mutex, job, cand, due, cmd,
                   open, pending, cache, durable, made, acked>>

\* The timer cannot install a catalog after publishing.
InstallFails(t) ==
    /\ Holds(t, "published")
    /\ job[t] = "timer"
    /\ Fails(t, FALSE)
    /\ UNCHANGED <<writer, live, mutex, job, cand, due, cmd,
                   open, pending, cache, durable, made, acked>>

\* The transaction returns and its guard is dropped.
Leave(t) ==
    /\ Holds(t, "published") \/ Holds(t, "ended")
    /\ Release(t, FALSE)
    /\ Advance(t, "none")
    /\ UNCHANGED <<live, mutex, job, cand, due, cmd, log, made, acked>>

\* NodeFactDriver::run tells each Node of the batch, after the guard is gone.
Acknowledge(t) ==
    /\ place[t] # "turn"
    /\ due[t] # {}
    /\ acked' = acked \cup due[t]
    /\ due' = [due EXCEPT ![t] = {}]
    /\ UNCHANGED <<writer, live, mutex, job, step, cand, cmd, log, made>>

-----------------------------------------------------------------------------
(* Recovery and crashes.                                                    *)

\* recover_writes: a zero-event Commit of the unchanged checkpoint clears the
\* latch.
RecoverWrites(t) ==
    /\ Holds(t, "none")
    /\ job[t] = "recover"
    /\ generation < MaxGeneration
    /\ mutex = "sound"
    /\ ~open
    /\ failure = "retry"
    /\ cmd[t] = [generation |-> generation, checkpoint |-> cache]
    /\ pending = {}
    /\ durable = cache
    /\ failure' = "none"
    /\ Advance(t, "ended")
    /\ UNCHANGED <<writer, live, mutex, job, cand, due, cmd,
                   open, pending, cache, generation, durable, made, acked>>

\* A recovery is refused, or its probe fails.
RecoverRefused(t) ==
    /\ Holds(t, "none")
    /\ job[t] = "recover"
    /\ Advance(t, "ended")
    /\ UNCHANGED <<writer, live, mutex, job, cand, due, cmd, log, made, acked>>

\* The holder panics, perhaps with the projection's mutex locked.
Panic(t) ==
    /\ Release(t, TRUE)
    /\ mutex' \in {mutex, "poisoned"}
    /\ Advance(t, "none")
    /\ due' = [due EXCEPT ![t] = {}]
    /\ UNCHANGED <<live, job, cand, cmd, log, made, acked>>

\* A thread that only reads the projection panics with its mutex locked.
ReaderPanics ==
    /\ mutex = "sound"
    /\ mutex' = "poisoned"
    /\ UNCHANGED <<writer, live, job, step, cand, due, cmd, log, made, acked>>

\* The process ends anywhere and starts again from the checkpoint in SQLite,
\* which rolls an uncommitted transaction back.
Restart ==
    /\ next' = 0
    /\ serving' = 0
    /\ poisoned' = FALSE
    /\ place' = [t \in Threads |-> "idle"]
    /\ ticket' = [t \in Threads |-> 0]
    /\ live' = durable
    /\ mutex' = "sound"
    /\ job' = [t \in Threads |-> "request"]
    /\ step' = [t \in Threads |-> "none"]
    /\ cand' = [t \in Threads |-> {}]
    /\ due' = [t \in Threads |-> {}]
    /\ cmd' = [t \in Threads |-> [generation |-> 0, checkpoint |-> {}]]
    /\ open' = FALSE
    /\ pending' = {}
    /\ cache' = durable
    /\ failure' = "none"
    /\ generation' = 0
    /\ UNCHANGED <<durable, made, acked>>

Transact(t) ==
    \/ Begin(t) \/ BeginRefused(t) \/ CloneRefused(t)
    \/ Save(t) \/ EndUnchanged(t) \/ Fail(t)
    \/ Commit(t) \/ CommitFails(t)
    \/ Publish(t) \/ PublishRefused(t) \/ InstallFails(t)
    \/ Leave(t) \/ Acknowledge(t)

Next ==
    \/ \E t \in Threads :
          \/ Arrive(t) \/ Wake(t) \/ Abandon(t)
          \/ Transact(t)
          \/ RecoverWrites(t) \/ RecoverRefused(t)
          \/ Panic(t)
    \/ ReaderPanics
    \/ Restart

Spec == Init /\ [][Next]_vars

\* A notified thread gets the mutex, and the thread that holds the writer goes on until
\* it drops its guard; nothing makes a caller arrive, a process restart or a panic happen.
FairSpec ==
    /\ Spec
    /\ \A t \in Threads :
          /\ WF_vars(place[t] = "awake" /\ Wake(t))
          /\ WF_vars(place[t] = "turn" /\ (Transact(t) \/ RecoverRefused(t)))

-----------------------------------------------------------------------------
(* Properties.                                                              *)

CommittedKept == durable \subseteq durable'

\* Nothing committed is lost: no transaction commits a candidate derived from a
\* projection that misses an earlier Commit, whatever failed, panicked or was
\* recovered between that Commit and its publication.
CommitsAccumulate == [][CommittedKept]_vars

\* What the process shows and acts on is in the durable checkpoint, and a fact whose
\* Node was told "accepted" survives any later failure or restart: a candidate is
\* published, and its facts acknowledged, only after its Commit.
DurableBeforeShown == live \subseteq durable /\ acked \subseteq durable

\* Whenever the next transaction could start, with the writer free, the store
\* writable and the projection readable, that projection is the last Commit.
ProjectionCurrent ==
    /\ ~poisoned
    /\ mutex = "sound"
    /\ failure = "none"
    /\ \A t \in Threads : place[t] # "turn"
    => live = durable
=============================================================================

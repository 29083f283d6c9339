---------------------------- MODULE ReplicaHandoff ----------------------------
(***************************************************************************)
(* The replicated Controller: on every member a supervisor keeps at most   *)
(* one application process while its member leads                          *)
(* (src/apps/controller-replica/src/supervisor.rs), journals it            *)
(* (controller-replication/src/supervision.rs) and hands leadership over   *)
(* (request_leader_transfer and accept_leader_transfer of lib.rs); the     *)
(* application process commits its batches through consensus before its    *)
(* own SQLite.                                                             *)
(*                                                                         *)
(* The Raft library is external: a term has one leader, a quorum check     *)
(* succeeds only for the established leader of the newest term and waits   *)
(* until that member has applied what is accepted, and an entry of an      *)
(* older term may be accepted until the next leader is established.  Any   *)
(* check may also fail: it is bounded by a timeout.                        *)
(*                                                                         *)
(* One step is one SQL transaction, one check or one call to the operating *)
(* system, or several of them where no other actor can tell: a tick of the *)
(* supervisor loop, the checks, the intent and the spawn of a start.  A    *)
(* supervisor may die between any two steps, and its process survives it.  *)
(* Upgrades, changing membership, a configured target (the same gate with  *)
(* its process reaped first) and the streamed content profile are left     *)
(* out.  Faulty_X is a plausible slip in X that nothing uses.              *)
(***************************************************************************)
EXTENDS Naturals, Sequences, FiniteSetsExt

CONSTANTS
    Members,        \* voters that run a supervisor
    Transfers,      \* identities of leader transfers
    MaxTerm,        \* bound on elections
    MaxProcesses,   \* bound of the process journal of each member
    MaxStops        \* bound on the exits of each supervisor

ASSUME ReplicaAssumption ==
    /\ IsFiniteSet(Members) /\ Members # {} /\ MaxTerm \in Nat
    /\ MaxProcesses \in [Members -> Nat] /\ MaxStops \in [Members -> Nat]

VARIABLES
    leaderOf,   \* external: leader of each term so far
    est,        \* external: newest term whose leader committed its first entry
    sees,       \* external: term in which a member last heard of a leader
    flight,     \* external: proposed entries that are neither accepted nor gone
    accepted,   \* external: accepted batches, each named by the process that made it
    applied,    \* external: how many of them each member has applied
    journal,    \* controller_processes_v1 of each member
    xfer,       \* leader_transfers_v2 of each member
    local,      \* controller.sqlite3 of each member
    child,      \* what each application process is doing, "none" when it does not run
    writes,     \* commits in the memory of a member, between check and client_write
    sup,        \* the supervisor loop
    task,       \* the running request_leader_transfer of each member
    wire,       \* transfer commands and receipts on their way; a lost one is never taken
    stops       \* supervisor exits so far

raft    == <<leaderOf, est, sees, flight, accepted, applied>>
process == <<local, child, writes>>
handoff == <<xfer, task, wire>>
rvars   == <<raft, process, handoff, journal, sup, stops>>

Terms     == 1 .. MaxTerm
Processes == 1 .. Max({MaxProcesses[m] : m \in Members})
NoRecord  == [state |-> "none", source |-> 0, term |-> 0, target |-> 0,
              proc |-> 0, drain |-> FALSE, confirmed |-> 0]
Idle      == [at |-> "idle", cur |-> 0, owned |-> 0, failed |-> 0]
NoTask    == [at |-> "none", id |-> 0, target |-> 0, term |-> 0, proc |-> 0]

Init ==
    /\ leaderOf = <<>> /\ est = 0 /\ flight = {} /\ accepted = <<>> /\ wire = {}
    /\ stops   = [m \in Members |-> 0]
    /\ sees    = [m \in Members |-> 0]
    /\ applied = [m \in Members |-> 0]
    /\ journal = [m \in Members |-> <<>>]
    /\ xfer    = [m \in Members |-> [x \in Transfers |-> NoRecord]]
    /\ local   = [m \in Members |-> <<>>]
    /\ child   = [m \in Members |-> [p \in Processes |-> "none"]]
    /\ writes  = [m \in Members |-> {}]
    /\ sup     = [m \in Members |-> Idle]
    /\ task    = [m \in Members |-> NoTask]

-----------------------------------------------------------------------------
(***************************************************************************)
(* Consensus and the checks built on it                                    *)
(***************************************************************************)
Up(m)   == sup[m].at # "down"
View(m) == SubSeq(accepted, 1, applied[m])

IsPrefix(s, t) == Len(s) <= Len(t) /\ SubSeq(t, 1, Len(s)) = s

\* current_epoch: the term in which this member believes to lead, 0 when it does not.
CurrentEpoch(m) == IF sees[m] # 0 /\ leaderOf[sees[m]] = m THEN sees[m] ELSE 0

CheckConsensus(m, e) ==
    /\ e # 0 /\ CurrentEpoch(m) = e
    /\ e = Len(leaderOf) /\ e = est /\ applied[m] = Len(accepted)

Settled(r)  == r.state \in {"none", "completed"}
Pending(m)  == {x \in Transfers : ~Settled(xfer[m][x])}
SourceFenced(m) == \E x \in Pending(m) : xfer[m][x].source = m

\* check_epoch: the quorum and the fence of an own pending transfer.
CheckEpoch(m, e) == CheckConsensus(m, e) /\ ~SourceFenced(m)

Elect(m) ==
    /\ Up(m) /\ Len(leaderOf) < MaxTerm
    /\ leaderOf' = Append(leaderOf, m)
    /\ sees' = [sees EXCEPT ![m] = Len(leaderOf) + 1]
    /\ UNCHANGED <<est, flight, accepted, applied, process, handoff, journal, sup, stops>>

Learn(m) ==
    /\ Up(m) /\ sees[m] < Len(leaderOf) /\ leaderOf[Len(leaderOf)] # m
    /\ sees' = [sees EXCEPT ![m] = Len(leaderOf)]
    /\ UNCHANGED <<leaderOf, est, flight, accepted, applied, process, handoff, journal, sup, stops>>

\* The leader's first entry is committed; what its log does not hold by now is gone.
Establish(m) ==
    /\ Up(m) /\ est < Len(leaderOf) /\ CurrentEpoch(m) = Len(leaderOf)
    /\ est' = Len(leaderOf)
    /\ flight' = {f \in flight : f.term = Len(leaderOf)}
    /\ UNCHANGED <<leaderOf, sees, accepted, applied, process, handoff, journal, sup, stops>>

Faulty_Accepts(f) == TRUE      \* forgets to compare the predecessor

Accepts(f) == f.base = accepted

\* apply_batch_context: an entry is accepted only on the state it was made from.
ApplyBatch(f) ==
    /\ flight' = flight \ {f}
    /\ accepted' = IF Accepts(f) THEN Append(accepted, f.id) ELSE accepted
    /\ UNCHANGED <<leaderOf, est, sees, applied, process, handoff, journal, sup, stops>>

Replicate(m) ==
    /\ Up(m) /\ applied[m] < Len(accepted)
    /\ applied' = [applied EXCEPT ![m] = Len(accepted)]
    /\ UNCHANGED <<leaderOf, est, sees, flight, accepted, process, handoff, journal, sup, stops>>

-----------------------------------------------------------------------------
(***************************************************************************)
(* The application process                                                 *)
(***************************************************************************)
Runs(m, p)      == child[m][p] # "none"
HoldsLease(m)   == \E p \in Processes : child[m][p] \notin {"none", "boot"}
EpochOf(m, p)   == journal[m][p].epoch
Moves(m, p, from, to) == child[m][p] = from /\ child' = [child EXCEPT ![m][p] = to]

\* The writer leases of controller.sqlite3 admit one process.
OpenStore(m, p) ==
    /\ Moves(m, p, "boot", "ready") /\ ~HoldsLease(m)
    /\ UNCHANGED <<raft, local, writes, handoff, journal, sup, stops>>

\* begin_batch checks the write authority, ReplicaNode::commit checks it again before its
\* client_write; from here on the request is in the member's memory and outlives the process.
CommitBatch(m, p) ==
    /\ Moves(m, p, "ready", "waiting")
    /\ Up(m) /\ CheckEpoch(m, EpochOf(m, p))
    /\ writes' = [writes EXCEPT ![m] = @ \cup {[id |-> <<m, p>>, base |-> local[m]]}]
    /\ UNCHANGED <<raft, local, handoff, journal, sup, stops>>

\* client_write, in whatever term the member now leads; a deposed leader finds no quorum.
ClientWrite(m, w) ==
    /\ writes' = [writes EXCEPT ![m] = @ \ {w}]
    /\ flight' = IF CurrentEpoch(m) = 0 \/ CurrentEpoch(m) < Len(leaderOf) THEN flight
                 ELSE flight \cup {[term |-> CurrentEpoch(m), base |-> w.base, id |-> w.id]}
    /\ UNCHANGED <<leaderOf, est, sees, accepted, applied, local, child, handoff, journal, sup, stops>>

\* An accepted receipt, or an accepted identity that equals the batch, after a check.
ConfirmBatch(m, p) ==
    /\ Moves(m, p, "waiting", "confirmed")
    /\ Up(m) /\ CheckEpoch(m, EpochOf(m, p)) /\ <<m, p>> \in Range(View(m))
    /\ UNCHANGED <<raft, local, writes, handoff, journal, sup, stops>>

\* A refusal, an error or a timeout: the local transaction is rolled back.
RollBackBatch(m, p) ==
    /\ Moves(m, p, "waiting", "done")
    /\ UNCHANGED <<raft, local, writes, handoff, journal, sup, stops>>

LocalCommit(m, p) ==
    /\ Moves(m, p, "confirmed", "done")
    /\ local' = [local EXCEPT ![m] = Append(@, <<m, p>>)]
    /\ UNCHANGED <<raft, writes, handoff, journal, sup, stops>>

\* Its own watchdog, a fault or a signal.
ProcessDies(m, p) ==
    /\ Runs(m, p)
    /\ child' = [child EXCEPT ![m][p] = "none"]
    /\ UNCHANGED <<raft, local, writes, handoff, journal, sup, stops>>

-----------------------------------------------------------------------------
(***************************************************************************)
(* The supervisor loop                                                     *)
(***************************************************************************)
SupAt(m, from)     == sup[m].at = from
SupTo(m, to)       == sup' = [sup EXCEPT ![m].at = to]
SupFails(m)        == sup' = [sup EXCEPT ![m].at = "idle", ![m].cur = 0, ![m].failed = sup[m].cur]

\* leader_transfer_transition_allowed.
Allowed(old, new) ==
    \/ old = new
    \/ new = "completed"
    \/ <<old, new>> \in {<<"prepared", "accepted">>, <<"accepted", "target-elected">>}
    \/ new = "unknown" /\ old \in {"prepared", "accepted", "target-elected"}

Faulty_CompletedAt(n, x) ==      \* takes the target's acceptance for its completion
    Up(n) /\ xfer[n][x].state \in {"accepted", "completed"}

\* observe_leader_transfer: the target proved its own quorum in a newer term.
CompletedAt(n, x) ==
    Up(n) /\ xfer[n][x].state = "completed" /\ xfer[n][x].confirmed > xfer[n][x].term

\* Two records of one identity are of one transfer only when these fields agree.
SameTransfer(r, s) == r.source = s.source /\ r.term = s.term /\ r.target = s.target

\* reconcile_leader_transfer may complete the pending record x of member m.
Completable(m, x) ==
    LET r == xfer[m][x]
    IN /\ x \in Pending(m) /\ r.drain
       /\ IF r.target = m
          THEN CurrentEpoch(m) > r.term /\ CheckConsensus(m, CurrentEpoch(m))
          ELSE r.source = m /\ CompletedAt(r.target, x) /\ SameTransfer(xfer[r.target][x], r)

Complete(m, x) ==
    LET r == xfer[m][x]
    IN [r EXCEPT !.state = "completed",
                 !.confirmed = IF r.target = m THEN CurrentEpoch(m)
                               ELSE xfer[r.target][x].confirmed]

\* What reconcile_leader_transfer leaves: the record completed, or everything as it was
\* (nothing to complete, a failed check, an unanswered request).
Reconciled(m) ==
    {xfer[m]} \cup {[xfer[m] EXCEPT ![x] = Complete(m, x)] : x \in {y \in Transfers : Completable(m, y)}}

\* stop_controller: kill, wait, record the exit of the process this supervisor owns.
Stop(m) ==
    /\ child'   = IF sup[m].owned = 0 THEN child ELSE [child EXCEPT ![m][sup[m].owned] = "none"]
    /\ journal' = IF sup[m].owned = 0 THEN journal
                  ELSE [journal EXCEPT ![m][sup[m].owned].waited = TRUE]

\* A tick reads the epoch and checks it (e = 0: no epoch, or a failed check), reaps the
\* process that exited or whose epoch is not the checked one, reconciles the pending
\* transfer, and goes on when there is no process left, no transfer pending and no earlier
\* failure in this epoch.
Tick(m, e) ==
    LET p      == sup[m].owned
        dead   == p # 0 /\ ~Runs(m, p)
        reap   == p # 0 /\ (dead \/ EpochOf(m, p) # e)
        owned  == IF reap THEN 0 ELSE p
        failed == IF dead THEN EpochOf(m, p) ELSE sup[m].failed
        start  == owned = 0 /\ e \notin {0, failed} /\ Pending(m)' = {}
    IN /\ SupAt(m, "idle")
       /\ e = 0 \/ CheckEpoch(m, e)
       /\ IF reap THEN Stop(m) ELSE UNCHANGED <<child, journal>>
       /\ \E r \in Reconciled(m) : xfer' = [xfer EXCEPT ![m] = r]
       /\ sup' = [sup EXCEPT ![m] = [at |-> IF start THEN "ready" ELSE "idle",
                                     cur |-> IF start THEN e ELSE 0,
                                     owned |-> owned, failed |-> failed]]
       /\ UNCHANGED <<raft, local, writes, task, wire, stops>>

Faulty_Materialize(m) ==      \* starts on whatever store an earlier term left
    /\ SupAt(m, "ready") /\ ~HoldsLease(m) /\ SupTo(m, "projected")
    /\ UNCHANGED <<raft, process, handoff, journal, stops>>

\* materialize: the accepted view replaces the inactive store under its writer leases,
\* unless it would discard what the store holds.
Materialize(m) ==
    /\ SupAt(m, "ready")
    /\ IF ~HoldsLease(m) /\ IsPrefix(local[m], View(m))
       THEN local' = [local EXCEPT ![m] = View(m)] /\ SupTo(m, "projected")
       ELSE SupFails(m) /\ UNCHANGED local
    /\ UNCHANGED <<raft, child, writes, handoff, journal, stops>>

Faulty_MayBegin(m) ==      \* forgets processes nobody waited for
    Pending(m) = {} /\ Len(journal[m]) < MaxProcesses[m]

\* begin_controller_process: no pending transfer, every earlier process waited for.
MayBegin(m) ==
    /\ Pending(m) = {}
    /\ \A p \in DOMAIN journal[m] : journal[m][p].waited
    /\ Len(journal[m]) < MaxProcesses[m]

\* start_controller: after two more checks the intent becomes durable, then the process is
\* spawned.  The check after the projection only ends the tick; a failure of anything
\* later counts against the epoch, and a failed spawn leaves its intent open.
StartController(m) ==
    LET intent == [epoch |-> sup[m].cur, known |-> FALSE, waited |-> FALSE]
    IN /\ SupAt(m, "projected")
       /\ \/ sup' = [sup EXCEPT ![m].at = "idle", ![m].cur = 0] /\ UNCHANGED <<journal, child>>
          \/ SupFails(m) /\ UNCHANGED <<journal, child>>
          \/ /\ CheckEpoch(m, sup[m].cur) /\ MayBegin(m)
             /\ journal' = [journal EXCEPT ![m] = Append(@, intent)]
             /\ \/ SupFails(m) /\ UNCHANGED child
                \/ SupTo(m, "spawned") /\ child' = [child EXCEPT ![m][Len(journal[m]) + 1] = "boot"]
       /\ UNCHANGED <<raft, local, writes, handoff, stops>>

\* register_controller_process; a refusal kills the process and leaves its intent open.
Register(m) ==
    LET p == Len(journal[m])
    IN /\ SupAt(m, "spawned")
       /\ \/ /\ journal' = [journal EXCEPT ![m][p].known = TRUE]
             /\ sup' = [sup EXCEPT ![m].at = "idle", ![m].cur = 0, ![m].owned = p]
             /\ UNCHANGED child
          \/ /\ child' = [child EXCEPT ![m][p] = "none"]
             /\ SupFails(m) /\ UNCHANGED journal
       /\ UNCHANGED <<raft, local, writes, handoff, stops>>

\* The supervisor is killed: its process lives on, what it had in memory does not.
Crash(m) ==
    /\ Up(m) /\ stops[m] < MaxStops[m]
    /\ stops' = [stops EXCEPT ![m] = @ + 1]
    /\ sup'    = [sup EXCEPT ![m] = [Idle EXCEPT !.at = "down"]]
    /\ task'   = [task EXCEPT ![m] = NoTask]
    /\ writes' = [writes EXCEPT ![m] = {}]
    /\ UNCHANGED <<raft, local, child, xfer, wire, journal>>

\* A signal is honoured at the points where the loop looks for one; the process is reaped.
Shutdown(m) ==
    /\ sup[m].at \in {"idle", "projected"} /\ stops[m] < MaxStops[m]
    /\ stops' = [stops EXCEPT ![m] = @ + 1]
    /\ Stop(m)
    /\ sup'    = [sup EXCEPT ![m] = [Idle EXCEPT !.at = "down"]]
    /\ task'   = [task EXCEPT ![m] = NoTask]
    /\ writes' = [writes EXCEPT ![m] = {}]
    /\ UNCHANGED <<raft, local, xfer, wire>>

\* The stores are reopened; Raft may or may not resume a term the member led.
Restart(m) ==
    /\ SupAt(m, "down")
    /\ sup' = [sup EXCEPT ![m] = Idle]
    /\ \E t \in {0, sees[m]} : sees' = [sees EXCEPT ![m] = t]
    /\ UNCHANGED <<leaderOf, est, flight, accepted, applied, process, handoff, journal, stops>>

-----------------------------------------------------------------------------
(***************************************************************************)
(* Leader transfer: the source                                             *)
(***************************************************************************)
TaskAt(m, from) == task[m].at = from
TaskTo(m, to)   == task' = [task EXCEPT ![m].at = to]
TaskEnds(m)     == task' = [task EXCEPT ![m] = NoTask]
Record(m)       == xfer[m][task[m].id]

\* persist_leader_transfer on an existing record: a refused transition keeps it.
Persist(m, state) ==
    xfer' = IF Allowed(Record(m).state, state)
            THEN [xfer EXCEPT ![m][task[m].id].state = state] ELSE xfer

\* transfer_source_process: the newest registered process of the epoch, 0 for none;
\* refused while a process nobody waited for is unregistered or of another epoch.
SourceProcess(m, e, p) ==
    LET records == journal[m]
        same    == {q \in DOMAIN records : records[q].epoch = e}
    IN /\ \A q \in DOMAIN records : records[q].waited \/ (records[q].known /\ records[q].epoch = e)
       /\ IF same = {} THEN p = 0
          ELSE p = (LET last == Max(same) IN IF records[last].known THEN last ELSE 0)

\* request_leader_transfer on an operator's request: a fresh identity, one
\* reconciliation, an unfenced epoch, and the source process read from the journal.
RequestTransfer(m, x, n) ==
    LET e == CurrentEpoch(m)
    IN /\ Up(m) /\ TaskAt(m, "none") /\ n # m /\ xfer[m][x] = NoRecord
       /\ \E r \in Reconciled(m) : xfer' = [xfer EXCEPT ![m] = r]
       /\ CheckConsensus(m, e) /\ SourceFenced(m)' = FALSE
       /\ \E p \in {0} \cup Processes :
             /\ SourceProcess(m, e, p)
             /\ task' = [task EXCEPT ![m] =
                           [at |-> "frozen", id |-> x, target |-> n, term |-> e, proc |-> p]]
       /\ UNCHANGED <<raft, process, wire, journal, sup, stops>>

\* The intent is durable, and fences the source, in a transaction of its own; it is
\* refused when its identity was taken by a transfer to this member meanwhile.
Prepare(m) ==
    LET t == task[m]
    IN /\ TaskAt(m, "frozen")
       /\ IF Pending(m) = {} /\ xfer[m][t.id] = NoRecord
          THEN /\ xfer' = [xfer EXCEPT ![m][t.id] =
                             [NoRecord EXCEPT !.state = "prepared", !.source = m, !.term = t.term,
                                              !.target = t.target, !.proc = t.proc]]
               /\ TaskTo(m, "draining")
          ELSE TaskEnds(m) /\ UNCHANGED xfer
       /\ UNCHANGED <<raft, process, wire, journal, sup, stops>>

\* controller_drain_proof: the wait of the named process, or of all when none is named.
DrainProof(m, p) ==
    IF p # 0 THEN journal[m][p].waited
    ELSE \A q \in DOMAIN journal[m] : journal[m][q].waited

Drain(m) ==
    /\ TaskAt(m, "draining") /\ DrainProof(m, task[m].proc)
    /\ xfer' = [xfer EXCEPT ![m][task[m].id].drain = TRUE]
    /\ TaskTo(m, "drained")
    /\ UNCHANGED <<raft, process, wire, journal, sup, stops>>

Send(m) ==
    /\ TaskAt(m, "drained") /\ CheckConsensus(m, task[m].term)
    /\ wire' = wire \cup {[kind |-> "transfer", id |-> task[m].id, source |-> m]}
    /\ TaskTo(m, "sent")
    /\ UNCHANGED <<raft, process, xfer, journal, sup, stops>>

TargetAccepted(m) ==
    /\ TaskAt(m, "sent") /\ [kind |-> "receipt", id |-> task[m].id, source |-> m] \in wire
    /\ wire' = wire \ {[kind |-> "receipt", id |-> task[m].id, source |-> m]}
    /\ Persist(m, "accepted")
    /\ IF Allowed(Record(m).state, "accepted") THEN TaskTo(m, "awaiting") ELSE TaskEnds(m)
    /\ UNCHANGED <<raft, process, journal, sup, stops>>

\* member_epoch of the target: it leads a newer term, which is not yet a quorum proof.
TargetElected(m) ==
    LET n == task[m].target
    IN /\ TaskAt(m, "awaiting") /\ Up(n) /\ CurrentEpoch(n) > task[m].term
       /\ Persist(m, "target-elected")
       /\ TaskEnds(m)
       /\ UNCHANGED <<raft, process, wire, journal, sup, stops>>

\* The deadline, a failed check or an error: the outcome stays unknown.
GiveUp(m) ==
    /\ task[m].at \in {"draining", "drained", "sent", "awaiting"}
    /\ Persist(m, "unknown")
    /\ TaskEnds(m)
    /\ UNCHANGED <<raft, process, wire, journal, sup, stops>>

-----------------------------------------------------------------------------
(***************************************************************************)
(* Leader transfer: the target                                             *)
(***************************************************************************)

\* accept_leader_transfer: a known identity is answered without a second election; a fresh
\* one is recorded while the source still leads in the target's eyes.  The election it
\* triggers is an Elect like any other.  A refusal is answered with silence.
AcceptTransfer(n, w) ==
    LET m == w.source
        o == xfer[m][w.id]
        reply == [w EXCEPT !.kind = "receipt"]
        mine  == xfer[n][w.id]
    IN /\ w.kind = "transfer" /\ o.target = n /\ Up(n)
       /\ IF mine # NoRecord
          THEN /\ wire' = (wire \ {w}) \cup
                    (IF /\ SameTransfer(mine, o)
                        /\ mine.state \in {"accepted", "completed", "target-elected"} THEN {reply} ELSE {})
               /\ UNCHANGED xfer
          ELSE \E r \in Reconciled(n) :
                 IF sees[n] = o.term /\ \A x \in Transfers : Settled(r[x])
                 THEN /\ xfer' = [xfer EXCEPT ![n] = [r EXCEPT ![w.id] = [o EXCEPT !.state = "accepted",
                                                                                !.confirmed = 0]]]
                      /\ wire' = (wire \ {w}) \cup {reply}
                 ELSE /\ xfer' = [xfer EXCEPT ![n] = r] /\ wire' = wire \ {w}
       /\ UNCHANGED <<raft, process, task, journal, sup, stops>>

-----------------------------------------------------------------------------
MemberStep(m) ==
    \/ Elect(m) \/ Learn(m) \/ Establish(m) \/ Replicate(m)
    \/ \E e \in {0} \cup Terms : Tick(m, e)
    \/ Materialize(m) \/ StartController(m) \/ Register(m)
    \/ Crash(m) \/ Shutdown(m) \/ Restart(m)
    \/ \E x \in Transfers, n \in Members : RequestTransfer(m, x, n)
    \/ Prepare(m) \/ Drain(m) \/ Send(m) \/ TargetAccepted(m) \/ TargetElected(m) \/ GiveUp(m)
    \/ \E w \in wire : AcceptTransfer(m, w)

ProcessStep(m, p) ==
    \/ OpenStore(m, p) \/ CommitBatch(m, p)
    \/ ConfirmBatch(m, p) \/ RollBackBatch(m, p) \/ LocalCommit(m, p) \/ ProcessDies(m, p)

Next ==
    \/ \E m \in Members : MemberStep(m)
    \/ \E m \in Members, p \in Processes : ProcessStep(m, p)
    \/ \E m \in Members : \E w \in writes[m] : ClientWrite(m, w)
    \/ \E f \in flight : ApplyBatch(f)

Spec == Init /\ [][Next]_rvars

-----------------------------------------------------------------------------
(***************************************************************************)
(* Properties                                                              *)
(***************************************************************************)

\* A member never runs two application processes, although a supervisor may die at any
\* point around a spawn and leave its process behind.
OneProcess ==
    \A m \in Members, p, q \in Processes : Runs(m, p) /\ Runs(m, q) => p = q

\* A process of the newest established epoch works on a store that has every batch a
\* process of any member committed to its own store: no failover and no respawn goes back
\* behind what was acknowledged.
CurrentProcessIsNewest ==
    \A m \in Members, p \in Processes :
        Runs(m, p) /\ EpochOf(m, p) = est /\ est = Len(leaderOf) =>
            \A n \in Members, q \in Processes :
                <<n, q>> \in Range(local[n]) => <<n, q>> \in Range(local[m])

\* A store never holds a batch its own member has not applied, so its next projection is
\* never refused as a fork.
StoreFollowsView == \A m \in Members : IsPrefix(local[m], View(m))

\* Once the target holds a transfer, the source has no authority in the epoch it gave up,
\* whatever is lost, retried or restarted on either side.
SourceStaysSilent ==
    \A n \in Members, x \in Transfers :
        LET r == xfer[n][x] IN r.target = n => ~CheckEpoch(r.source, r.term)
=============================================================================

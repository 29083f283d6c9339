------------------------ MODULE AuthorityCommitProofs ------------------------
(***************************************************************************)
(* No committed effect is lost, and nothing is shown or acknowledged before*)
(* it is durable, for any number of threads, transactions and failures and *)
(* any width of the ticket counter.                                        *)
(*                                                                         *)
(* The argument: the projection can lag behind the store only inside the   *)
(* turn of a thread that has committed and not yet published.  If that turn*)
(* ends without publication, one of three latches is set that no recovery  *)
(* of this process clears: the writer's poison (a panic), the mutex of the *)
(* projection, or a failure that requires a restart.  The cached checkpoint*)
(* is the middle term: it equals the projection unless such a latch is set,*)
(* and equals SQLite unless a failure is latched.                          *)
(***************************************************************************)
EXTENDS AuthorityCommit, TLAPS

(***************************************************************************)
(* The writer admits one thread at a time, in arrival order.  These two    *)
(* are not inductive by themselves: they need that the holder's ticket is  *)
(* the one being served, that nobody who waits has an older one, and that  *)
(* no two threads have the same.                                           *)
(***************************************************************************)
Queued(t) == place[t] = "turn" \/ place[t] \in Waiting

Shape ==
    /\ next \in 0..MaxTicket
    /\ serving \in 0..MaxTicket
    /\ place \in [Threads -> {"idle", "turn", "refused"} \cup Waiting]
    /\ ticket \in [Threads -> 0..MaxTicket]

WriterInv ==
    /\ Shape
    /\ serving <= next
    /\ \A t \in Threads : place[t] = "turn" => ticket[t] = serving
    /\ \A t \in Threads : Queued(t) => serving <= ticket[t] /\ ticket[t] < next
    /\ \A t, u \in Threads : Queued(t) /\ Queued(u) /\ t # u => ticket[t] # ticket[u]

\* A fresh writer satisfies the invariant.
LEMMA WriterInitInv == WriterInit => WriterInv
BY TicketAssumption DEF WriterInit, WriterInv, Shape, Queued, Waiting

\* lock hands out a ticket nobody has.
LEMMA LockInv ==
    ASSUME WriterInv, NEW t \in Threads, Lock(t)
    PROVE  WriterInv'
<1> USE TicketAssumption DEF WriterInv, Shape, Queued, Waiting
<1>1. CASE poisoned
  BY <1>1 DEF Lock
<1>2. CASE ~poisoned /\ next = MaxTicket
  <2>1. /\ place' = [Notified EXCEPT ![t] = "refused"]
        /\ UNCHANGED <<next, serving, ticket>>
    BY <1>2 DEF Lock
  <2>2. /\ place' \in [Threads -> {"idle", "turn", "refused"} \cup Waiting]
        /\ \A u \in Threads : Queued(u)' => Queued(u)
        /\ \A u \in Threads : place'[u] = "turn" => place[u] = "turn"
    BY <2>1 DEF Notified
  <2> QED
    BY <2>1, <2>2
<1>3. CASE ~poisoned /\ next < MaxTicket
  BY <1>3 DEF Lock, TakeTicket
<1> QED
  BY <1>1, <1>2, <1>3

\* A wake-up enters only with the ticket being served.
LEMMA RecheckInv ==
    ASSUME WriterInv, NEW t \in Threads, Recheck(t)
    PROVE  WriterInv'
BY DEF WriterInv, Shape, Queued, Waiting, Recheck

\* Dropping the guard serves the next ticket, which nobody has passed.
LEMMA ReleaseInv ==
    ASSUME WriterInv, NEW t \in Threads, NEW p \in BOOLEAN, Release(t, p)
    PROVE  WriterInv'
<1> USE TicketAssumption DEF WriterInv, Shape, Queued, Waiting
<1>1. ticket[t] = serving /\ ticket[t] < next /\ next <= MaxTicket
  BY DEF Release
<1>2. serving' = serving + 1 /\ next' = next /\ ticket' = ticket
  BY <1>1 DEF Release
<1>3. place' \in [Threads -> {"idle", "turn", "refused"} \cup Waiting]
  BY DEF Release, Notified
<1>4. \A u \in Threads : Queued(u)' => Queued(u) /\ u # t
  BY DEF Release, Notified
<1>5. \A u \in Threads : Queued(u)' => ticket[u] # serving
  BY <1>1, <1>4 DEF Release
<1>6. \A u \in Threads : place'[u] = "turn" => place[u] = "turn" /\ u # t
  BY DEF Release, Notified
<1>7. \A u \in Threads : place'[u] # "turn"
  BY <1>1, <1>6 DEF Release
<1> QED
  BY <1>1, <1>2, <1>3, <1>4, <1>5, <1>7

\* Every step of the writer keeps the invariant.
LEMMA WriterNextInv == WriterInv /\ [WriterNext]_writer => WriterInv'
<1> SUFFICES ASSUME WriterInv, [WriterNext]_writer PROVE WriterInv'
  OBVIOUS
<1>1. CASE UNCHANGED writer
  BY <1>1 DEF writer, WriterInv, Shape, Queued, Waiting
<1>2. CASE WriterNext
  BY <1>2, LockInv, RecheckInv, ReleaseInv DEF WriterNext
<1> QED
  BY <1>1, <1>2

\* The invariant gives exclusion and arrival order.
LEMMA WriterInvImplies == WriterInv => OneWriter /\ NoOvertaking
BY DEF WriterInv, Shape, OneWriter, NoOvertaking, Queued, Waiting

\* For any threads and counter width at most one thread holds the WriteGuard of
\* write_gate.rs.
THEOREM Exclusion == WriterSpec => []OneWriter
<1>1. WriterSpec => []WriterInv
  BY WriterInitInv, WriterNextInv, PTL DEF WriterSpec
<1> QED
  BY <1>1, WriterInvImplies, PTL

\* For any threads and counter width the holder arrived before everyone waiting.
THEOREM ArrivalOrder == WriterSpec => []NoOvertaking
<1>1. WriterSpec => []WriterInv
  BY WriterInitInv, WriterNextInv, PTL DEF WriterSpec
<1> QED
  BY <1>1, WriterInvImplies, PTL

\* No step admits a thread to a poisoned writer.
THEOREM PoisonIsFinal == WriterSpec => PoisonedAdmitsNobody
<1>1. WriterInv /\ [WriterNext]_writer => [NobodyEnters]_writer
  <2> SUFFICES ASSUME WriterInv, WriterNext PROVE NobodyEnters
    OBVIOUS
  <2> USE DEF WriterInv, Shape
  <2>1. ASSUME NEW t \in Threads, Lock(t) PROVE NobodyEnters
    BY <2>1 DEF Lock, TakeTicket, NobodyEnters, Notified
  <2>2. ASSUME NEW t \in Threads, Recheck(t) PROVE NobodyEnters
    BY <2>2 DEF Recheck, NobodyEnters
  <2>3. ASSUME NEW t \in Threads, NEW p \in BOOLEAN, Release(t, p) PROVE NobodyEnters
    BY <2>3 DEF Release, NobodyEnters, Notified
  <2> QED
    BY <2>1, <2>2, <2>3 DEF WriterNext
<1>2. WriterSpec => []WriterInv
  BY WriterInitInv, WriterNextInv, PTL DEF WriterSpec
<1> QED
  BY <1>1, <1>2, PTL DEF WriterSpec, PoisonedAdmitsNobody

-----------------------------------------------------------------------------
(***************************************************************************)
(* The transactions of the writer's turns                                  *)
(***************************************************************************)

AuthorityTypes ==
    /\ step \in [Threads -> Steps]
    /\ job \in [Threads -> Jobs]
    /\ cand \in [Threads -> States]
    /\ due \in [Threads -> States]
    /\ live \in States
    /\ durable \in States
    /\ made \in Nat

\* Outside its turn a thread has no transaction.
NoStrayStep == \A t \in Threads : place[t] # "turn" => step[t] = "none"

\* A candidate under way contains everything published and committed.
CandidateCovers ==
    \A t \in Threads :
        step[t] \in {"begun", "saved"} =>
            /\ live \subseteq cand[t]
            /\ durable \subseteq cand[t]
            /\ failure = "none"

SavedIsPending == \A t \in Threads : step[t] = "saved" => pending = {cand[t]}

CommittedIsDurable ==
    \A t \in Threads :
        step[t] = "committed" =>
            /\ durable = cand[t]
            /\ cache = cand[t]
            /\ live \subseteq cand[t]
            /\ failure = "none"

StoreCoherent == failure = "none" => durable = cache

Clean == mutex = "sound" /\ failure # "restart"

HolderCurrent ==
    \A t \in Threads :
        place[t] = "turn" /\ step[t] # "committed" /\ Clean => live = cache

FreeCurrent ==
    (\A t \in Threads : place[t] # "turn") /\ ~poisoned /\ Clean => live = cache

Durability ==
    /\ live \subseteq durable
    /\ acked \subseteq durable
    /\ \A t \in Threads : due[t] \subseteq durable

AuthorityInv ==
    /\ WriterInv
    /\ AuthorityTypes
    /\ NoStrayStep
    /\ CandidateCovers
    /\ SavedIsPending
    /\ CommittedIsDurable
    /\ StoreCoherent
    /\ HolderCurrent
    /\ FreeCurrent
    /\ Durability

-----------------------------------------------------------------------------
\* The start of a process satisfies the invariant.
LEMMA AuthorityInitInv == Init => AuthorityInv
<1> SUFFICES ASSUME Init PROVE AuthorityInv
  OBVIOUS
<1>1. WriterInv
  BY WriterInitInv DEF Init
<1>2. place = [t \in Threads |-> "idle"]
  BY DEF Init, WriterInit
<1> QED
  BY <1>1, <1>2 DEF Init, AuthorityInv, AuthorityTypes, NoStrayStep, CandidateCovers,
     SavedIsPending, CommittedIsDurable, StoreCoherent, HolderCurrent, FreeCurrent,
     Durability, Steps, Jobs, States

\* While t has its turn nobody else has one, or a transaction.
LEMMA Alone ==
    ASSUME AuthorityInv, NEW t \in Threads, place[t] = "turn"
    PROVE  \A u \in Threads : u # t => place[u] # "turn" /\ step[u] = "none"
BY WriterInvImplies DEF AuthorityInv, OneWriter, NoStrayStep

\* A step that leaves the writer alone keeps its invariant.
LEMMA WriterUntouched == WriterInv /\ UNCHANGED writer => WriterInv'
BY WriterNextInv

\* Starting a transaction needs a projection that is the last Commit.
LEMMA BeginInv ==
    ASSUME AuthorityInv, NEW t \in Threads, Begin(t)
    PROVE  AuthorityInv'
<1>1. WriterInv'
  BY WriterUntouched DEF AuthorityInv, Begin
<1>2. place[t] = "turn" /\ \A u \in Threads : u # t => place[u] # "turn" /\ step[u] = "none"
  BY Alone DEF Begin, Holds
<1>3. UNCHANGED <<place, poisoned>>
  BY DEF Begin, writer
<1>4. /\ UNCHANGED <<live, mutex, job, due, pending, cache, failure, durable, acked>>
      /\ step' = [step EXCEPT ![t] = "begun"]
      /\ step[t] = "none" /\ failure = "none" /\ mutex = "sound"
  BY DEF Begin, Holds, Advance
<1>5. made' \in Nat
  BY DEF Begin, AuthorityInv, AuthorityTypes
<1>6. PICK c \in States : cand' = [cand EXCEPT ![t] = c] /\ live \subseteq c
  <2>1. CASE cand' = [cand EXCEPT ![t] = live \cup {made'}]
    <3>1. live \cup {made'} \in States /\ live \subseteq live \cup {made'}
      BY <1>5 DEF AuthorityInv, AuthorityTypes, States
    <3> QED
      BY <2>1, <3>1, Zenon
  <2>2. CASE cand' = [cand EXCEPT ![t] = live]
    BY <2>2, Zenon DEF AuthorityInv, AuthorityTypes
  <2> QED
    BY <2>1, <2>2 DEF Begin
<1>7. durable = live
  BY <1>2, <1>4 DEF AuthorityInv, HolderCurrent, StoreCoherent, Clean
<1> QED
  BY <1>1, <1>2, <1>3, <1>4, <1>5, <1>6, <1>7 DEF AuthorityInv, AuthorityTypes, NoStrayStep,
     CandidateCovers, SavedIsPending, CommittedIsDurable, StoreCoherent, HolderCurrent,
     FreeCurrent, Clean, Durability, Steps

\* A refused batch changes at most the latch.
LEMMA BeginRefusedInv ==
    ASSUME AuthorityInv, NEW t \in Threads, BeginRefused(t)
    PROVE  AuthorityInv'
<1>1. WriterInv'
  BY WriterUntouched DEF AuthorityInv, BeginRefused
<1>2. place[t] = "turn" /\ \A u \in Threads : u # t => place[u] # "turn" /\ step[u] = "none"
  BY Alone DEF BeginRefused, Holds
<1>3. UNCHANGED <<place, poisoned>>
  BY DEF BeginRefused, writer
<1> QED
  BY <1>1, <1>2, <1>3 DEF AuthorityInv, AuthorityTypes, NoStrayStep, CandidateCovers,
     SavedIsPending, CommittedIsDurable, StoreCoherent, HolderCurrent, FreeCurrent, Clean,
     Durability, Steps, Jobs, States, BeginRefused, Holds, Advance, Fails, Latched, DisablesWrites, log

\* An unreadable projection changes at most the latch and the batch.
LEMMA CloneRefusedInv ==
    ASSUME AuthorityInv, NEW t \in Threads, CloneRefused(t)
    PROVE  AuthorityInv'
<1>1. WriterInv'
  BY WriterUntouched DEF AuthorityInv, CloneRefused
<1>2. place[t] = "turn" /\ \A u \in Threads : u # t => place[u] # "turn" /\ step[u] = "none"
  BY Alone DEF CloneRefused, Holds
<1>3. UNCHANGED <<place, poisoned>>
  BY DEF CloneRefused, writer
<1> QED
  BY <1>1, <1>2, <1>3 DEF AuthorityInv, AuthorityTypes, NoStrayStep, CandidateCovers,
     SavedIsPending, CommittedIsDurable, StoreCoherent, HolderCurrent, FreeCurrent, Clean,
     Durability, Steps, Jobs, States, CloneRefused, Holds, Advance, Fails, Latched, DisablesWrites, log

\* Saving puts the candidate into the batch.
LEMMA SaveInv ==
    ASSUME AuthorityInv, NEW t \in Threads, Save(t)
    PROVE  AuthorityInv'
<1>1. WriterInv'
  BY WriterUntouched DEF AuthorityInv, Save
<1>2. place[t] = "turn" /\ \A u \in Threads : u # t => place[u] # "turn" /\ step[u] = "none"
  BY Alone DEF Save, Holds
<1>3. UNCHANGED <<place, poisoned>>
  BY DEF Save, writer
<1> QED
  BY <1>1, <1>2, <1>3 DEF AuthorityInv, AuthorityTypes, NoStrayStep, CandidateCovers,
     SavedIsPending, CommittedIsDurable, StoreCoherent, HolderCurrent, FreeCurrent, Clean,
     Durability, Steps, Jobs, States, Save, Holds, Advance, log

\* An unchanged candidate is the projection.
LEMMA EndUnchangedInv ==
    ASSUME AuthorityInv, NEW t \in Threads, EndUnchanged(t)
    PROVE  AuthorityInv'
<1>1. WriterInv'
  BY WriterUntouched DEF AuthorityInv, EndUnchanged
<1>2. place[t] = "turn" /\ \A u \in Threads : u # t => place[u] # "turn" /\ step[u] = "none"
  BY Alone DEF EndUnchanged, Holds
<1>3. UNCHANGED <<place, poisoned>>
  BY DEF EndUnchanged, writer
<1> QED
  BY <1>1, <1>2, <1>3 DEF AuthorityInv, AuthorityTypes, NoStrayStep, CandidateCovers,
     SavedIsPending, CommittedIsDurable, StoreCoherent, HolderCurrent, FreeCurrent, Clean,
     Durability, Steps, Jobs, States, EndUnchanged, Holds, Advance, Fails, Latched, DisablesWrites, log

\* A failed transaction leaves projection, cache and SQLite alone.
LEMMA FailInv ==
    ASSUME AuthorityInv, NEW t \in Threads, Fail(t)
    PROVE  AuthorityInv'
<1>1. WriterInv'
  BY WriterUntouched DEF AuthorityInv, Fail
<1>2. place[t] = "turn" /\ \A u \in Threads : u # t => place[u] # "turn" /\ step[u] = "none"
  BY Alone DEF Fail, Holds
<1>3. UNCHANGED <<place, poisoned>>
  BY DEF Fail, writer
<1> QED
  BY <1>1, <1>2, <1>3 DEF AuthorityInv, AuthorityTypes, NoStrayStep, CandidateCovers,
     SavedIsPending, CommittedIsDurable, StoreCoherent, HolderCurrent, FreeCurrent, Clean,
     Durability, Steps, Jobs, States, Fail, Holds, Advance, Fails, Latched, DisablesWrites, Rollback, log

\* Commit moves cache and SQLite to the candidate.
LEMMA CommitInv ==
    ASSUME AuthorityInv, NEW t \in Threads, Commit(t)
    PROVE  AuthorityInv'
<1>1. WriterInv'
  BY WriterUntouched DEF AuthorityInv, Commit
<1>2. place[t] = "turn" /\ \A u \in Threads : u # t => place[u] # "turn" /\ step[u] = "none"
  BY Alone DEF Commit, Holds
<1>3. UNCHANGED <<place, poisoned>>
  BY DEF Commit, writer
<1> QED
  BY <1>1, <1>2, <1>3 DEF AuthorityInv, AuthorityTypes, NoStrayStep, CandidateCovers,
     SavedIsPending, CommittedIsDurable, StoreCoherent, HolderCurrent, FreeCurrent, Clean,
     Durability, Steps, Jobs, States, Commit, Holds, Advance, log

\* A failed Commit may reach SQLite and then latches the store.
LEMMA CommitFailsInv ==
    ASSUME AuthorityInv, NEW t \in Threads, CommitFails(t)
    PROVE  AuthorityInv'
<1>1. WriterInv'
  BY WriterUntouched DEF AuthorityInv, CommitFails
<1>2. place[t] = "turn" /\ \A u \in Threads : u # t => place[u] # "turn" /\ step[u] = "none"
  BY Alone DEF CommitFails, Holds
<1>3. UNCHANGED <<place, poisoned>>
  BY DEF CommitFails, writer
<1>4. /\ UNCHANGED <<live, mutex, job, cand, due, cache, made, acked>>
      /\ step' = [step EXCEPT ![t] = "ended"]
      /\ step[t] = "saved" /\ failure' = "retry"
  BY DEF CommitFails, Holds, Advance, Fails, Latched
<1>5. durable' = durable \/ durable' = cand[t]
  BY <1>4 DEF CommitFails, AuthorityInv, SavedIsPending
<1>6. durable \subseteq durable' /\ durable' \in States
  BY <1>4, <1>5 DEF AuthorityInv, CandidateCovers, AuthorityTypes
<1> QED
  BY <1>1, <1>2, <1>3, <1>4, <1>6 DEF AuthorityInv, AuthorityTypes, NoStrayStep,
     CandidateCovers, SavedIsPending, CommittedIsDurable, StoreCoherent, HolderCurrent,
     FreeCurrent, Clean, Durability, Steps

\* Publication closes the gap to the store.
LEMMA PublishInv ==
    ASSUME AuthorityInv, NEW t \in Threads, Publish(t)
    PROVE  AuthorityInv'
<1>1. WriterInv'
  BY WriterUntouched DEF AuthorityInv, Publish
<1>2. place[t] = "turn" /\ \A u \in Threads : u # t => place[u] # "turn" /\ step[u] = "none"
  BY Alone DEF Publish, Holds
<1>3. UNCHANGED <<place, poisoned>>
  BY DEF Publish, writer
<1> QED
  BY <1>1, <1>2, <1>3 DEF AuthorityInv, AuthorityTypes, NoStrayStep, CandidateCovers,
     SavedIsPending, CommittedIsDurable, StoreCoherent, HolderCurrent, FreeCurrent, Clean,
     Durability, Steps, Jobs, States, Publish, Holds, Advance, log

\* A Commit that is not published leaves a latch only a restart clears.
LEMMA PublishRefusedInv ==
    ASSUME AuthorityInv, NEW t \in Threads, PublishRefused(t)
    PROVE  AuthorityInv'
<1>1. WriterInv'
  BY WriterUntouched DEF AuthorityInv, PublishRefused
<1>2. place[t] = "turn" /\ \A u \in Threads : u # t => place[u] # "turn" /\ step[u] = "none"
  BY Alone DEF PublishRefused, Holds
<1>3. UNCHANGED <<place, poisoned>>
  BY DEF PublishRefused, writer
<1> QED
  BY <1>1, <1>2, <1>3 DEF AuthorityInv, AuthorityTypes, NoStrayStep, CandidateCovers,
     SavedIsPending, CommittedIsDurable, StoreCoherent, HolderCurrent, FreeCurrent, Clean,
     Durability, Steps, Jobs, States, PublishRefused, Holds, Advance, Fails, Latched, DisablesWrites, log

\* A failure after publication leaves the projection current.
LEMMA InstallFailsInv ==
    ASSUME AuthorityInv, NEW t \in Threads, InstallFails(t)
    PROVE  AuthorityInv'
<1>1. WriterInv'
  BY WriterUntouched DEF AuthorityInv, InstallFails
<1>2. place[t] = "turn" /\ \A u \in Threads : u # t => place[u] # "turn" /\ step[u] = "none"
  BY Alone DEF InstallFails, Holds
<1>3. UNCHANGED <<place, poisoned>>
  BY DEF InstallFails, writer
<1> QED
  BY <1>1, <1>2, <1>3 DEF AuthorityInv, AuthorityTypes, NoStrayStep, CandidateCovers,
     SavedIsPending, CommittedIsDurable, StoreCoherent, HolderCurrent, FreeCurrent, Clean,
     Durability, Steps, Jobs, States, InstallFails, Holds, Advance, Fails, Latched, DisablesWrites, log

\* Recovery clears the latch only over an unchanged store.
LEMMA RecoverWritesInv ==
    ASSUME AuthorityInv, NEW t \in Threads, RecoverWrites(t)
    PROVE  AuthorityInv'
<1>1. WriterInv'
  BY WriterUntouched DEF AuthorityInv, RecoverWrites
<1>2. place[t] = "turn" /\ \A u \in Threads : u # t => place[u] # "turn" /\ step[u] = "none"
  BY Alone DEF RecoverWrites, Holds
<1>3. UNCHANGED <<place, poisoned>>
  BY DEF RecoverWrites, writer
<1> QED
  BY <1>1, <1>2, <1>3 DEF AuthorityInv, AuthorityTypes, NoStrayStep, CandidateCovers,
     SavedIsPending, CommittedIsDurable, StoreCoherent, HolderCurrent, FreeCurrent, Clean,
     Durability, Steps, Jobs, States, RecoverWrites, Holds, Advance, log

\* A refused recovery changes nothing.
LEMMA RecoverRefusedInv ==
    ASSUME AuthorityInv, NEW t \in Threads, RecoverRefused(t)
    PROVE  AuthorityInv'
<1>1. WriterInv'
  BY WriterUntouched DEF AuthorityInv, RecoverRefused
<1>2. place[t] = "turn" /\ \A u \in Threads : u # t => place[u] # "turn" /\ step[u] = "none"
  BY Alone DEF RecoverRefused, Holds
<1>3. UNCHANGED <<place, poisoned>>
  BY DEF RecoverRefused, writer
<1> QED
  BY <1>1, <1>2, <1>3 DEF AuthorityInv, AuthorityTypes, NoStrayStep, CandidateCovers,
     SavedIsPending, CommittedIsDurable, StoreCoherent, HolderCurrent, FreeCurrent, Clean,
     Durability, Steps, Jobs, States, RecoverRefused, Holds, Advance, log

\* A caller that enters finds the projection as the last turn left it.
LEMMA ArriveInv ==
    ASSUME AuthorityInv, NEW t \in Threads, Arrive(t)
    PROVE  AuthorityInv'
<1>1. WriterInv'
  BY LockInv DEF AuthorityInv, Arrive
<1>2. /\ UNCHANGED <<live, mutex, step, cand, due, pending, cache, failure, durable, made, acked>>
      /\ job' \in [Threads -> Jobs]
  BY DEF Arrive, log, AuthorityInv, AuthorityTypes
<1>3. \A u \in Threads : place'[u] = "turn" => place[u] = "turn" \/ u = t
  BY Zenon DEF Arrive, Lock, TakeTicket, Notified, AuthorityInv, WriterInv, Shape
<1>4. \A u \in Threads : place[u] = "turn" => place'[u] = "turn"
  BY Zenon DEF Arrive, Lock, TakeTicket, Notified, AuthorityInv, WriterInv, Shape
<1>5. ~poisoned' => ~poisoned
  BY Zenon DEF Arrive, Lock, TakeTicket
<1>6. place'[t] = "turn" => ~poisoned
  BY DEF Arrive, Lock, TakeTicket, Notified, AuthorityInv, WriterInv, Shape
<1>7. place[t] # "turn"
  BY DEF Arrive, Lock
<1>8. \A u, v \in Threads : place'[u] = "turn" /\ place'[v] = "turn" => u = v
  <2>1. OneWriter'
    BY <1>1, WriterInvImplies, PTL
  <2> QED
    BY <2>1 DEF OneWriter
<1> QED
  BY <1>1, <1>2, <1>3, <1>4, <1>5, <1>6, <1>7, <1>8 DEF AuthorityInv, AuthorityTypes,
     NoStrayStep, CandidateCovers, SavedIsPending, CommittedIsDurable, StoreCoherent,
     HolderCurrent, FreeCurrent, Clean, Durability

\* So does a thread that waited.
LEMMA WakeInv ==
    ASSUME AuthorityInv, NEW t \in Threads, Wake(t)
    PROVE  AuthorityInv'
<1>1. WriterInv'
  BY RecheckInv DEF AuthorityInv, Wake
<1>2. UNCHANGED <<live, mutex, job, step, cand, due, pending, cache, failure, durable,
                  made, acked, poisoned>>
  BY DEF Wake, Recheck, process, log
<1>3. \A u \in Threads : place'[u] = "turn" => place[u] = "turn" \/ u = t
  BY DEF Wake, Recheck, AuthorityInv, WriterInv, Shape
<1>4. \A u \in Threads : place[u] = "turn" => place'[u] = "turn"
  BY DEF Wake, Recheck, AuthorityInv, WriterInv, Shape, Waiting
<1>6. place'[t] = "turn" => ~poisoned
  BY DEF Wake, Recheck, AuthorityInv, WriterInv, Shape
<1>7. place[t] # "turn"
  BY DEF Wake, Recheck, Waiting
<1>8. \A u, v \in Threads : place'[u] = "turn" /\ place'[v] = "turn" => u = v
  <2>1. OneWriter'
    BY <1>1, WriterInvImplies, PTL
  <2> QED
    BY <2>1 DEF OneWriter
<1> QED
  BY <1>1, <1>2, <1>3, <1>4, <1>6, <1>7, <1>8 DEF AuthorityInv, AuthorityTypes,
     NoStrayStep, CandidateCovers, SavedIsPending, CommittedIsDurable, StoreCoherent,
     HolderCurrent, FreeCurrent, Clean, Durability

\* What dropping the guard does to the places of the threads.
LEMMA Released ==
    ASSUME AuthorityInv, NEW t \in Threads, NEW p \in BOOLEAN, Release(t, p)
    PROVE  /\ WriterInv'
           /\ place[t] = "turn"
           /\ \A u \in Threads : place'[u] # "turn"
           /\ \A u \in Threads : u # t => step[u] = "none"
           /\ ~poisoned' => ~poisoned /\ ~p
<1>1. WriterInv'
  BY ReleaseInv DEF AuthorityInv
<1>2. place[t] = "turn"
  BY DEF Release
<1>3. \A u \in Threads : u # t => place[u] # "turn" /\ step[u] = "none"
  BY <1>2, Alone
<1>4. \A u \in Threads : place'[u] # "turn"
  BY <1>3 DEF Release, Notified, AuthorityInv, WriterInv, Shape
<1>5. ~poisoned' => ~poisoned /\ ~p
  BY Zenon DEF Release
<1> QED
  BY <1>1, <1>2, <1>3, <1>4, <1>5

\* A request turned away leaves nothing behind.
LEMMA AbandonInv ==
    ASSUME AuthorityInv, NEW t \in Threads, Abandon(t)
    PROVE  AuthorityInv'
<1>1. Release(t, FALSE) /\ step[t] = "none"
  BY Zenon DEF Abandon, Holds
<1>2. UNCHANGED <<live, mutex, job, step, cand, due, pending, cache, failure, durable, made, acked>>
  BY DEF Abandon, process, log
<1> QED
  BY <1>1, <1>2, Released, Zenon DEF AuthorityInv, AuthorityTypes, NoStrayStep, CandidateCovers,
     SavedIsPending, CommittedIsDurable, StoreCoherent, HolderCurrent, FreeCurrent, Clean,
     Durability

\* A turn ends with the projection current or a latch set.
LEMMA LeaveInv ==
    ASSUME AuthorityInv, NEW t \in Threads, Leave(t)
    PROVE  AuthorityInv'
<1>1. Release(t, FALSE) /\ step[t] \in {"published", "ended"}
  BY Zenon DEF Leave, Holds
<1>2. /\ UNCHANGED <<live, mutex, job, cand, due, pending, cache, failure, durable, made, acked>>
      /\ step' = [step EXCEPT ![t] = "none"]
  BY DEF Leave, Advance, log
<1> QED
  BY <1>1, <1>2, Released, Zenon DEF AuthorityInv, AuthorityTypes, NoStrayStep, CandidateCovers,
     SavedIsPending, CommittedIsDurable, StoreCoherent, HolderCurrent, FreeCurrent, Clean,
     Durability, Steps

\* A panic poisons the writer, so a gap it leaves is never built upon.
LEMMA PanicInv ==
    ASSUME AuthorityInv, NEW t \in Threads, Panic(t)
    PROVE  AuthorityInv'
<1>1. Release(t, TRUE)
  BY Zenon DEF Panic
<1>2. /\ UNCHANGED <<live, job, cand, pending, cache, failure, durable, made, acked>>
      /\ step' = [step EXCEPT ![t] = "none"]
      /\ due' = [due EXCEPT ![t] = {}]
  BY DEF Panic, Advance, log
<1>3. poisoned'
  BY <1>1, Released, Zenon
<1> QED
  BY <1>1, <1>2, <1>3, Released, Zenon DEF AuthorityInv, AuthorityTypes, NoStrayStep, CandidateCovers,
     SavedIsPending, CommittedIsDurable, StoreCoherent, HolderCurrent, FreeCurrent, Clean,
     Durability, Steps, States

\* Acknowledged facts were published, hence durable.
LEMMA AcknowledgeInv ==
    ASSUME AuthorityInv, NEW t \in Threads, Acknowledge(t)
    PROVE  AuthorityInv'
<1>1. WriterInv'
  BY WriterUntouched DEF AuthorityInv, Acknowledge
<1>2. UNCHANGED <<place, poisoned>>
  BY DEF Acknowledge, writer
<1> QED
  BY <1>1, <1>2, Zenon DEF Acknowledge, log, AuthorityInv, AuthorityTypes, NoStrayStep,
     CandidateCovers, SavedIsPending, CommittedIsDurable, StoreCoherent, HolderCurrent,
     FreeCurrent, Clean, Durability, States

\* A poisoned projection is never read again.
LEMMA ReaderPanicsInv ==
    ASSUME AuthorityInv, ReaderPanics
    PROVE  AuthorityInv'
<1>1. WriterInv'
  BY WriterUntouched DEF AuthorityInv, ReaderPanics
<1>2. UNCHANGED <<place, poisoned>>
  BY DEF ReaderPanics, writer
<1> QED
  BY <1>1, <1>2 DEF ReaderPanics, log, AuthorityInv, AuthorityTypes, NoStrayStep,
     CandidateCovers, SavedIsPending, CommittedIsDurable, StoreCoherent, HolderCurrent,
     FreeCurrent, Clean, Durability

\* A restart reads the projection back from SQLite.
LEMMA RestartInv ==
    ASSUME AuthorityInv, Restart
    PROVE  AuthorityInv'
<1>1. WriterInit'
  BY Zenon DEF Restart, WriterInit
<1>2. WriterInv'
  BY <1>1, WriterInitInv, PTL
<1> QED
  BY <1>2 DEF Restart, AuthorityInv, AuthorityTypes, NoStrayStep, CandidateCovers,
     SavedIsPending, CommittedIsDurable, StoreCoherent, HolderCurrent, FreeCurrent, Clean,
     Durability, Steps, Jobs, States

\* Every step of the Controller keeps the invariant.
LEMMA AuthorityNextInv == AuthorityInv /\ [Next]_vars => AuthorityInv'
<1> SUFFICES ASSUME AuthorityInv, [Next]_vars PROVE AuthorityInv'
  OBVIOUS
<1>1. CASE UNCHANGED vars
  <2>1. WriterInv'
    BY <1>1, WriterUntouched DEF vars, AuthorityInv
  <2>2. UNCHANGED <<place, poisoned>>
    BY <1>1 DEF vars, writer
  <2> QED
    BY <1>1, <2>1, <2>2 DEF vars, process, log, AuthorityInv, AuthorityTypes, NoStrayStep,
       CandidateCovers, SavedIsPending, CommittedIsDurable, StoreCoherent, HolderCurrent,
       FreeCurrent, Clean, Durability
<1>2. ASSUME NEW t \in Threads, Transact(t) PROVE AuthorityInv'
  BY <1>2, BeginInv, BeginRefusedInv, CloneRefusedInv, SaveInv, EndUnchangedInv, FailInv,
     CommitInv, CommitFailsInv, PublishInv, PublishRefusedInv, InstallFailsInv, LeaveInv,
     AcknowledgeInv DEF Transact
<1>3. CASE Next
  BY <1>2, <1>3, ArriveInv, WakeInv, AbandonInv, RecoverWritesInv, RecoverRefusedInv, PanicInv,
     ReaderPanicsInv, RestartInv DEF Next
<1> QED
  BY <1>1, <1>3

\* The inductive invariant, for any threads, ticket width and bounds.
THEOREM AuthorityInvariant == Spec => []AuthorityInv
BY AuthorityInitInv, AuthorityNextInv, PTL DEF Spec

\* Nothing is published or acknowledged that SQLite does not hold.
THEOREM ShownIsDurable == Spec => []DurableBeforeShown
<1>1. AuthorityInv => DurableBeforeShown
  BY DEF AuthorityInv, Durability, DurableBeforeShown
<1> QED
  BY <1>1, AuthorityInvariant, PTL

\* Whenever a transaction may start, the projection is the last Commit.
THEOREM CurrentWhenWritable == Spec => []ProjectionCurrent
<1>1. AuthorityInv => ProjectionCurrent
  BY DEF AuthorityInv, FreeCurrent, StoreCoherent, Clean, ProjectionCurrent
<1> QED
  BY <1>1, AuthorityInvariant, PTL

\* No step replaces the checkpoint in SQLite by one that misses an effect of it:
\* only Commit, or a Commit SQLite reports as failed, writes it, and both write
\* a candidate that covers it.
THEOREM NothingCommittedIsLost == Spec => CommitsAccumulate
<1>1. AuthorityInv /\ [Next]_vars => [CommittedKept]_vars
  <2> SUFFICES ASSUME AuthorityInv, Next PROVE CommittedKept
    OBVIOUS
  <2>1. ASSUME NEW t \in Threads, Commit(t) PROVE CommittedKept
    BY <2>1 DEF Commit, Holds, AuthorityInv, CandidateCovers, SavedIsPending, CommittedKept
  <2>2. ASSUME NEW t \in Threads, CommitFails(t) PROVE CommittedKept
    BY <2>2 DEF CommitFails, Holds, AuthorityInv, CandidateCovers, SavedIsPending, CommittedKept
  <2>3. ASSUME NEW t \in Threads, Transact(t), ~Commit(t), ~CommitFails(t)
        PROVE  durable' = durable
    <3>1. CASE Begin(t) \/ BeginRefused(t) \/ CloneRefused(t) \/ Save(t) \/ EndUnchanged(t)
      BY <3>1, Zenon DEF Begin, BeginRefused, CloneRefused, Save, EndUnchanged, log
    <3>2. CASE \/ Fail(t) \/ Publish(t) \/ PublishRefused(t) \/ InstallFails(t)
              \/ Leave(t) \/ Acknowledge(t)
      BY <3>2, Zenon DEF Fail, Publish, PublishRefused, InstallFails, Leave, Acknowledge, log
    <3> QED BY <2>3, <3>1, <3>2, Zenon DEF Transact
  <2>4. ASSUME NEW t \in Threads,
               \/ Arrive(t) \/ Wake(t) \/ Abandon(t) \/ RecoverWrites(t)
               \/ RecoverRefused(t) \/ Panic(t)
        PROVE  durable' = durable
    BY <2>4, Zenon DEF Arrive, Wake, Abandon, RecoverWrites, RecoverRefused, Panic, log
  <2>5. CASE ReaderPanics \/ Restart
    BY <2>5 DEF ReaderPanics, Restart, log, CommittedKept
  <2>6. durable' = durable => CommittedKept
    BY DEF CommittedKept
  <2> QED
    BY <2>1, <2>2, <2>3, <2>4, <2>5, <2>6 DEF Next
<1> QED
  BY <1>1, AuthorityInvariant, PTL DEF Spec, CommitsAccumulate
=============================================================================

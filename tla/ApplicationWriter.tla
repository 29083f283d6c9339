-------------------------- MODULE ApplicationWriter --------------------------
(***************************************************************************)
(* The one writer of the Controller process                                *)
(* (apps/integration-server/src/application/write_gate.rs).                *)
(*                                                                         *)
(* Threads take a ticket under a short mutex and sleep on a condition      *)
(* variable until their ticket is served; the guard they then hold lasts   *)
(* for a whole application transaction.  A step here is one critical       *)
(* section of that mutex.  The condition variable is kept apart from it:   *)
(* a sleeping thread runs again only after notify_all, or spuriously.      *)
(*                                                                         *)
(* place[t]  "idle"    not in lock                                         *)
(*           "asleep"  in Condvar::wait                                    *)
(*           "awake"   notified, about to test the loop condition again    *)
(*           "turn"    holds the WriteGuard                                *)
(*           "refused" lock returned an error; the poison is permanent     *)
(*                                                                         *)
(* A definition whose name starts with Faulty_, Barging_, Unbounded_ or    *)
(* Forgetful_ is a plausible slip in the code it stands for and is used by *)
(* no specification.                                                       *)
(***************************************************************************)
EXTENDS Naturals

CONSTANTS Threads,    \* callers of lock
          MaxTicket   \* u64::MAX

ASSUME TicketAssumption == MaxTicket \in Nat \ {0}

VARIABLES next,       \* WriterQueue.next
          serving,    \* WriterQueue.serving
          poisoned,   \* WriterQueue.poisoned
          place,      \* where each thread is
          ticket      \* the ticket a waiting or holding thread took

writer == <<next, serving, poisoned, place, ticket>>

Waiting == {"asleep", "awake"}

WriterTypeOK ==
    /\ next \in 0..MaxTicket
    /\ serving \in 0..MaxTicket
    /\ poisoned \in BOOLEAN
    /\ place \in [Threads -> {"idle", "turn", "refused"} \cup Waiting]
    /\ ticket \in [Threads -> 0..MaxTicket]

WriterInit ==
    /\ next = 0
    /\ serving = 0
    /\ poisoned = FALSE
    /\ place = [t \in Threads |-> "idle"]
    /\ ticket = [t \in Threads |-> 0]

\* Condvar::notify_all.
Notified == [t \in Threads |-> IF place[t] = "asleep" THEN "awake" ELSE place[t]]

-----------------------------------------------------------------------------
TakeTicket(t, following) ==
    /\ ticket' = [ticket EXCEPT ![t] = next]
    /\ next' = following
    /\ place' = [place EXCEPT ![t] = IF next = serving THEN "turn" ELSE "asleep"]
    /\ UNCHANGED <<serving, poisoned>>

\* The arrival counter is never tested: its width is left behind.
Unbounded_Lock(t) ==
    /\ place[t] = "idle"
    /\ ~poisoned
    /\ TakeTicket(t, next + 1)

\* ApplicationWriter::lock up to its first wait.
Lock(t) ==
    /\ place[t] = "idle"
    /\ \/ /\ poisoned
          /\ place' = [place EXCEPT ![t] = "refused"]
          /\ UNCHANGED <<next, serving, poisoned, ticket>>
       \/ /\ ~poisoned
          /\ next = MaxTicket
          /\ poisoned' = TRUE
          /\ place' = [Notified EXCEPT ![t] = "refused"]
          /\ UNCHANGED <<next, serving, ticket>>
       \/ /\ ~poisoned
          /\ next < MaxTicket
          /\ TakeTicket(t, next + 1)

\* Poison ends the loop but is not tested again after it.
Faulty_Recheck(t) ==
    /\ place[t] \in Waiting
    /\ place' = [place EXCEPT ![t] =
                     IF poisoned \/ ticket[t] = serving THEN "turn" ELSE "asleep"]
    /\ UNCHANGED <<next, serving, poisoned, ticket>>

\* A woken thread enters whenever the writer is free, as with a plain mutex.
Barging_Recheck(t) ==
    /\ place[t] \in Waiting
    /\ place' = [place EXCEPT ![t] =
                     IF poisoned THEN "refused"
                     ELSE IF \A u \in Threads : place[u] # "turn" THEN "turn" ELSE "asleep"]
    /\ UNCHANGED <<next, serving, poisoned, ticket>>

\* The loop of lock after a wake-up.  A wake-up may be spurious.
Recheck(t) ==
    /\ place[t] \in Waiting
    /\ place' = [place EXCEPT ![t] =
                     IF poisoned THEN "refused"
                     ELSE IF ticket[t] = serving THEN "turn" ELSE "asleep"]
    /\ UNCHANGED <<next, serving, poisoned, ticket>>

\* The guard is dropped without waking the threads that wait.
Faulty_Release(t, panicking) ==
    /\ place[t] = "turn"
    /\ poisoned' = (poisoned \/ panicking \/ serving # ticket[t])
    /\ serving' = IF ticket[t] < MaxTicket THEN ticket[t] + 1 ELSE MaxTicket
    /\ place' = [place EXCEPT ![t] = "idle"]
    /\ UNCHANGED <<next, ticket>>

\* An unwinding thread leaves the writer usable.
Forgetful_Release(t, panicking) ==
    /\ place[t] = "turn"
    /\ poisoned' = (poisoned \/ serving # ticket[t])
    /\ serving' = IF ticket[t] < MaxTicket THEN ticket[t] + 1 ELSE MaxTicket
    /\ place' = [Notified EXCEPT ![t] = "idle"]
    /\ UNCHANGED <<next, ticket>>

\* Drop of the WriteGuard, on return or while the thread unwinds.
Release(t, panicking) ==
    /\ place[t] = "turn"
    /\ poisoned' = (poisoned \/ panicking \/ serving # ticket[t])
    /\ serving' = IF ticket[t] < MaxTicket THEN ticket[t] + 1 ELSE MaxTicket
    /\ place' = [Notified EXCEPT ![t] = "idle"]
    /\ UNCHANGED <<next, ticket>>

WriterNext ==
    \E t \in Threads :
        \/ Lock(t)
        \/ Recheck(t)
        \/ \E panicking \in BOOLEAN : Release(t, panicking)

WriterSpec == WriterInit /\ [][WriterNext]_writer

\* A notified thread gets the mutex, and a transaction ends; nothing makes a
\* thread call lock and nothing promises a spurious wake-up.
WriterFairness ==
    \A t \in Threads :
        /\ WF_writer(place[t] = "awake" /\ Recheck(t))
        /\ WF_writer(\E panicking \in BOOLEAN : Release(t, panicking))

WriterFairSpec == WriterSpec /\ WriterFairness

-----------------------------------------------------------------------------
(* Properties.                                                              *)

\* At most one thread holds the WriteGuard ("one real writer mutex"), also at
\* the last ticket and after a panic.
OneWriter ==
    \A t, u \in Threads : place[t] = "turn" /\ place[u] = "turn" => t = u

\* One thread holds the writer, and it arrived before everybody who waits: lock admits
\* in arrival order, whatever order the condition variable wakes threads in.
NoOvertaking ==
    /\ OneWriter
    /\ \A t, u \in Threads :
          place[t] = "turn" /\ place[u] \in Waiting => ticket[t] < ticket[u]

NobodyEnters ==
    poisoned => \A t \in Threads : place'[t] = "turn" => place[t] = "turn"

\* After a panic or an exhausted ticket counter no thread gets the writer, not
\* even one whose ticket is the one being served.
PoisonedAdmitsNobody == [][NobodyEnters]_writer

\* A thread that waits is served or refused: no wake-up of lock and Drop is
\* lost, on the poisoning paths too.
WaiterServed ==
    \A t \in Threads : place[t] \in Waiting ~> place[t] \notin Waiting
=============================================================================

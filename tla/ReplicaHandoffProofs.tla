------------------------- MODULE ReplicaHandoffProofs -------------------------
(***************************************************************************)
(* Proofs about ReplicaHandoff, for any members, transfers and bounds: one *)
(* process per member, a store that follows the accepted batches, a        *)
(* current process that starts from all of them, and a source that stays   *)
(* silent once its target holds a transfer.                                *)
(***************************************************************************)
EXTENDS ReplicaHandoff, TLAPS

Batch      == Members \X Processes
Intents    == [epoch : Nat, known : BOOLEAN, waited : BOOLEAN]
ChildPhase == {"none", "boot", "ready", "waiting", "confirmed", "done"}
SupPhase   == {"idle", "ready", "projected", "spawned", "down"}
States     == {"none", "prepared", "accepted", "target-elected", "unknown", "completed"}
Records    == [state : States, source : Members \cup {0}, term : Nat, target : Members \cup {0},
               proc : {0} \cup Processes, drain : BOOLEAN, confirmed : Nat]

SupStates  == [at : SupPhase, cur : Nat, owned : Nat, failed : Nat]

(* A process that runs is the newest of its journal, and nobody waited for it. *)
ProcessTypes ==
    /\ journal \in [Members -> Seq(Intents)]
    /\ child \in [Members -> [Processes -> ChildPhase]]
    /\ sup \in [Members -> SupStates]

EarlierWaited ==
    \A m \in Members : \A p \in 1 .. Len(journal[m]) : p # Len(journal[m]) => journal[m][p].waited

RunningUnwaited ==
    \A m \in Members, p \in Processes :
        Runs(m, p) => p \in 1 .. Len(journal[m]) /\ ~journal[m][p].waited

OwnedJournaled == \A m \in Members : sup[m].owned \in 0 .. Len(journal[m])

ProcessInv == ProcessTypes /\ EarlierWaited /\ RunningUnwaited /\ OwnedJournaled

(* A term has one leader, and the leader's word is about terms that were elected. *)
ElectionInv ==
    /\ leaderOf \in Seq(Members)
    /\ est \in 0 .. Len(leaderOf)
    /\ sees \in [Members -> Nat]
    /\ \A m \in Members : sees[m] <= Len(leaderOf)

Entries  == [term : Nat, base : Seq(Batch), id : Batch]
Requests == [id : Batch, base : Seq(Batch)]

BatchTypes ==
    /\ accepted \in Seq(Batch)
    /\ applied \in [Members -> Nat]
    /\ local \in [Members -> Seq(Batch)]
    /\ flight \subseteq Entries
    /\ writes \in [Members -> SUBSET Requests]

\* What a process asked for is on its way from the store it still works on, or accepted
\* right behind it.
Unsent(b) ==
    /\ \A n \in Members : \A w \in writes[n] : w.id # b
    /\ \A f \in flight : f.id # b
    /\ \A k \in 1 .. Len(accepted) : accepted[k] # b

MadeFrom(b, s) ==
    /\ \A n \in Members : \A w \in writes[n] : w.id = b => w.base = s
    /\ \A f \in flight : f.id = b => f.base = s
    /\ \A k \in 1 .. Len(accepted) : accepted[k] = b => k = Len(s) + 1

StoreWithin(m) ==
    /\ Len(local[m]) <= applied[m] /\ applied[m] <= Len(accepted)
    /\ \A k \in 1 .. Len(local[m]) : local[m][k] = accepted[k]

BatchSound(m, p) ==
    /\ p \notin 1 .. Len(journal[m]) => Unsent(<<m, p>>)
    /\ child[m][p] \in {"boot", "ready"} => Unsent(<<m, p>>)
    /\ child[m][p] = "waiting" => MadeFrom(<<m, p>>, local[m])
    /\ child[m][p] = "confirmed" =>
          Len(local[m]) < applied[m] /\ accepted[Len(local[m]) + 1] = <<m, p>>

StoreInv ==
    /\ BatchTypes
    /\ \A m \in Members : StoreWithin(m)
    /\ \A m \in Members, p \in Processes : BatchSound(m, p)

\* Every accepted batch of another member is among the first k.
ForeignWithin(m, k) == \A i \in 1 .. Len(accepted) : accepted[i][1] # m => i <= k

Newest(e) == e = est /\ e = Len(leaderOf)

\* An epoch that was checked for member m.
Led(m, e) == e \in 1 .. est /\ leaderOf[e] = m

\* What is on its way was proposed by the leader of its term, and once the newest term is
\* established nothing older is left.
FlightLed ==
    /\ \A f \in flight : f.term \in 1 .. Len(leaderOf) /\ f.id[1] = leaderOf[f.term]
    /\ est = Len(leaderOf) => \A f \in flight : f.term = est

WritesOwn == \A n \in Members : \A w \in writes[n] : w.id[1] = n

EpochsLed(m) ==
    /\ \A p \in 1 .. Len(journal[m]) : Led(m, journal[m][p].epoch)
    /\ sup[m].at \in {"ready", "projected", "spawned"} => Led(m, sup[m].cur)

\* In the newest epoch, the store a process starts from and works on misses no batch of
\* another member.
StartsNewest(m) ==
    /\ sup[m].at = "ready" /\ Newest(sup[m].cur) => ForeignWithin(m, applied[m])
    /\ sup[m].at = "projected" /\ Newest(sup[m].cur) => ForeignWithin(m, Len(local[m]))
    /\ \A p \in Processes :
          Runs(m, p) /\ Newest(EpochOf(m, p)) => ForeignWithin(m, Len(local[m]))

EpochInv ==
    /\ FlightLed /\ WritesOwn
    /\ \A m \in Members : EpochsLed(m) /\ StartsNewest(m)

(* A transfer that its target holds is the source's own, and stays it. *)
TransferOf(m, x) == xfer[m][x].source = m /\ xfer[m][x].state # "none"

Tasks == [at : {"none", "frozen", "draining", "drained", "sent", "awaiting"}, id : Transfers \cup {0},
          target : Members \cup {0}, term : Nat, proc : {0} \cup Processes]

HandoffTypes ==
    /\ xfer \in [Members -> [Transfers -> Records]]
    /\ task \in [Members -> Tasks]
    /\ wire \subseteq [kind : {"transfer", "receipt"}, id : Transfers, source : Members]

RecordSound(m, x) ==
    LET r == xfer[m][x]
    IN /\ r.state = "none" => r = NoRecord
       /\ r.state = "completed" => r.term < Len(leaderOf)
       /\ r.state # "none" => r.source \in Members /\ r.target \in Members \ {r.source}
       /\ r.state # "none" /\ r.target = m =>
             TransferOf(r.source, x) /\ SameTransfer(xfer[r.source][x], r)

TaskSound(m) ==
    /\ task[m].at # "none" => task[m].id \in Transfers /\ task[m].target \in Members \ {m}
    /\ task[m].at \notin {"none", "frozen"} => TransferOf(m, task[m].id)

HandoffInv ==
    /\ HandoffTypes
    /\ \A m \in Members, x \in Transfers : RecordSound(m, x)
    /\ \A m \in Members : TaskSound(m)
    /\ \A w \in wire : TransferOf(w.source, w.id)

-----------------------------------------------------------------------------
(***************************************************************************)
(* One process per member                                                  *)
(***************************************************************************)

\* The length of a journal is a number, and its positions are the numbers up to it.
LEMMA JournalLength ==
  ASSUME ProcessInv
  PROVE  \A m \in Members : Len(journal[m]) \in Nat /\ DOMAIN journal[m] = 1 .. Len(journal[m])
<1>1. journal \in [Members -> Seq(Intents)]
  BY Zenon DEF ProcessInv, ProcessTypes
<1> QED BY <1>1

\* Rewriting one record leaves a sequence of the same length.
LEMMA RecordRewritten ==
  ASSUME NEW s \in Seq(Intents), NEW i \in Nat, NEW v, i \in 1 .. Len(s) => v \in Intents,
         NEW t, t = [s EXCEPT ![i] = v]
  PROVE  /\ t \in Seq(Intents) /\ Len(t) = Len(s)
         /\ \A j \in 1 .. Len(s) : t[j] = IF j = i THEN v ELSE s[j]
<1>1. DOMAIN s = 1 .. Len(s) /\ Len(s) \in Nat /\ \A j \in 1 .. Len(s) : s[j] \in Intents
  OBVIOUS
<1>2. t = [j \in DOMAIN s |-> IF j = i THEN v ELSE s[j]]
  BY Zenon
<1>3. t \in [1 .. Len(s) -> Intents]
  BY <1>1, <1>2, Zenon
<1>4. PICK n \in Nat : n = Len(s)
  BY <1>1, Zenon
<1>5. t \in [1 .. n -> Intents]
  BY <1>3, <1>4, Zenon
<1>6. t \in Seq(Intents) /\ Len(t) = n
  BY <1>5
<1> QED BY <1>1, <1>2, <1>4, <1>6, Zenon

\* A step that starts no process and settles none keeps the invariant.
LEMMA NothingStarts ==
  ASSUME ProcessInv, journal' = journal,
         child' \in [Members -> [Processes -> ChildPhase]],
         \A n \in Members, q \in Processes : Runs(n, q)' => Runs(n, q),
         sup' \in [Members -> SupStates],
         \A n \in Members : sup'[n].owned \in {0, sup[n].owned}
  PROVE  ProcessInv'
<1>1. \A n \in Members : sup[n].owned \in 0 .. Len(journal[n]) /\ Len(journal[n]) \in Nat
  BY JournalLength, Zenon DEF ProcessInv, OwnedJournaled
<1>2. \A n \in Members : 0 \in 0 .. Len(journal[n])
  BY <1>1
<1>3. OwnedJournaled'
  BY <1>1, <1>2, Zenon DEF OwnedJournaled
<1> QED BY <1>3, Zenon DEF ProcessInv, ProcessTypes, EarlierWaited, RunningUnwaited

\* A step keeps the epochs in the journals, or adds one intent to one journal.
JournalKept ==
    \A n \in Members : /\ Len(journal'[n]) = Len(journal[n])
                       /\ \A q \in 1 .. Len(journal[n]) : journal'[n][q].epoch = journal[n][q].epoch

JournalGrew(m) ==
    /\ Len(journal'[m]) = Len(journal[m]) + 1
    /\ journal'[m][Len(journal[m]) + 1].epoch = sup[m].cur
    /\ \A q \in 1 .. Len(journal[m]) : journal'[m][q] = journal[m][q]
    /\ \A n \in Members : n # m => journal'[n] = journal[n]

\* stop_controller ends the owned process before it records the wait for it.
LEMMA StopKeeps ==
  ASSUME ProcessInv, NEW m \in Members, Stop(m),
         sup' \in [Members -> SupStates],
         \A n \in Members : sup'[n].owned \in {0, sup[n].owned}
  PROVE  ProcessInv' /\ JournalKept
<1>1. CASE sup[m].owned = 0
  BY <1>1, NothingStarts, Zenon DEF Stop, ProcessInv, ProcessTypes, Runs, JournalKept
<1>2. CASE sup[m].owned # 0
  <2>a. journal \in [Members -> Seq(Intents)]
    BY Zenon DEF ProcessInv, ProcessTypes
  <2>b. child \in [Members -> [Processes -> ChildPhase]]
    BY Zenon DEF ProcessInv, ProcessTypes
  <2>c. sup[m].owned \in 0 .. Len(journal[m]) /\ Len(journal[m]) \in Nat
    BY JournalLength, Zenon DEF ProcessInv, OwnedJournaled
  <2>1. PICK p \in 1 .. Len(journal[m]) : p = sup[m].owned
    BY <1>2, <2>c
  <2>2. /\ child' = [child EXCEPT ![m][p] = "none"]
        /\ journal' = [journal EXCEPT ![m][p].waited = TRUE]
    BY <1>2, <2>1, Zenon DEF Stop
  <2>3. /\ journal' \in [Members -> Seq(Intents)]
        /\ \A n \in Members : Len(journal'[n]) = Len(journal[n])
    <3> DEFINE v == [journal[m][p] EXCEPT !.waited = TRUE]
    <3>0. journal[m] \in Seq(Intents) /\ journal[m][p] \in Intents /\ p \in Nat
      BY <2>1, <2>a
    <3>1. v \in Intents
      BY <3>0, Zenon DEF Intents
    <3>2. /\ journal'[m] = [journal[m] EXCEPT ![p] = v]
          /\ \A n \in Members : n # m => journal'[n] = journal[n]
      BY <2>2, <2>a, Zenon
    <3> HIDE DEF v
    <3>3. journal'[m] \in Seq(Intents) /\ Len(journal'[m]) = Len(journal[m])
      BY <3>0, <3>1, <3>2, RecordRewritten
    <3>4. journal' = [n \in Members |-> journal'[n]]
      BY <2>2, <2>a, Zenon
    <3> QED BY <2>a, <3>2, <3>3, <3>4, Zenon
  <2>4. child' \in [Members -> [Processes -> ChildPhase]]
    BY <2>2, <2>b, Zenon DEF ChildPhase
  <2>5. /\ journal'[m][p].waited
        /\ \A n \in Members : \A q \in 1 .. Len(journal[n]) :
              <<n, q>> # <<m, p>> => journal'[n][q] = journal[n][q]
    BY <2>1, <2>2, <2>a DEF Intents
  <2>6. /\ \A q \in Processes : q = p => ~Runs(m, q)'
        /\ \A n \in Members, q \in Processes :
              <<n, q>> # <<m, p>> => child'[n][q] = child[n][q]
    BY <2>2, <2>b DEF Runs
  <2>7. EarlierWaited'
    BY <2>3, <2>5, Zenon DEF ProcessInv, EarlierWaited
  <2>8. ASSUME NEW n \in Members, NEW q \in Processes, Runs(n, q)'
        PROVE  q \in 1 .. Len(journal'[n]) /\ ~journal'[n][q].waited
    <3>1. <<n, q>> # <<m, p>>
      BY <2>6, <2>8, Zenon
    <3>2. q \in 1 .. Len(journal[n]) /\ ~journal[n][q].waited
      BY <2>6, <2>8, <3>1, Zenon DEF ProcessInv, RunningUnwaited, Runs
    <3> QED BY <2>3, <2>5, <3>1, <3>2, Zenon
  <2>9. OwnedJournaled'
    <3>1. \A n \in Members : sup[n].owned \in 0 .. Len(journal[n]) /\ 0 \in 0 .. Len(journal[n])
      BY JournalLength DEF ProcessInv, OwnedJournaled
    <3> QED BY <2>3, <3>1, Zenon DEF OwnedJournaled
  <2>10. JournalKept
    <3>1. journal'[m][p].epoch = journal[m][p].epoch
      BY <2>1, <2>2, <2>a DEF Intents
    <3> QED BY <2>3, <2>5, <3>1, Zenon DEF JournalKept
  <2> QED BY <2>3, <2>4, <2>7, <2>8, <2>9, <2>10, Zenon DEF ProcessInv, ProcessTypes, RunningUnwaited
<1> QED BY <1>1, <1>2

\* start_controller spawns only when every earlier process was waited for.
LEMMA StartKeeps ==
  ASSUME ProcessInv, NEW m \in Members, StartController(m)
  PROVE  /\ ProcessInv'
         /\ \/ UNCHANGED <<journal, child>>
            \/ /\ JournalGrew(m) /\ CheckEpoch(m, sup[m].cur)
               /\ \/ child' = child
                  \/ child' = [child EXCEPT ![m][Len(journal[m]) + 1] = "boot"]
<1> DEFINE new == [epoch |-> sup[m].cur, known |-> FALSE, waited |-> FALSE]
           k   == Len(journal[m]) + 1
<1>a. journal \in [Members -> Seq(Intents)]
  BY Zenon DEF ProcessInv, ProcessTypes
<1>b. child \in [Members -> [Processes -> ChildPhase]]
  BY Zenon DEF ProcessInv, ProcessTypes
<1>c. sup \in [Members -> SupStates]
  BY Zenon DEF ProcessInv, ProcessTypes
<1>1. /\ sup' \in [Members -> SupStates]
      /\ \A n \in Members : sup'[n].owned = sup[n].owned
  <2>1. \/ sup' = [sup EXCEPT ![m].at = "idle", ![m].cur = 0]
        \/ sup' = [sup EXCEPT ![m].at = "idle", ![m].cur = 0, ![m].failed = sup[m].cur]
        \/ sup' = [sup EXCEPT ![m].at = "spawned"]
    BY Zenon DEF StartController, SupFails, SupTo
  <2> QED BY <1>c, <2>1 DEF SupStates, SupPhase
<1>2. CASE UNCHANGED <<journal, child>>
  BY <1>1, <1>2, NothingStarts, Zenon DEF ProcessInv, ProcessTypes, Runs
<1>3. CASE /\ CheckEpoch(m, sup[m].cur) /\ MayBegin(m)
           /\ journal' = [journal EXCEPT ![m] = Append(@, new)]
           /\ child' = child \/ child' = [child EXCEPT ![m][k] = "boot"]
  <2>1. new \in Intents
    BY <1>c DEF SupStates, Intents
  <2>2. \A q \in 1 .. Len(journal[m]) : journal[m][q].waited
    BY <1>3, JournalLength, Zenon DEF MayBegin
  <2>3. ~new.waited /\ new.epoch = sup[m].cur
    OBVIOUS
  <2> HIDE DEF new
  <2>4. /\ journal' \in [Members -> Seq(Intents)]
        /\ Len(journal'[m]) = k /\ journal'[m][k] = new
        /\ \A q \in 1 .. Len(journal[m]) : journal'[m][q] = journal[m][q]
        /\ \A n \in Members : n # m => journal'[n] = journal[n]
    BY <1>3, <1>a, <2>1
  <2>6. k \in 1 .. k /\ \A q \in 1 .. k : q = k \/ q \in 1 .. Len(journal[m])
    BY JournalLength
  <2>5. /\ child' \in [Members -> [Processes -> ChildPhase]]
        /\ \A n \in Members, q \in Processes : <<n, q>> # <<m, k>> => child'[n][q] = child[n][q]
    <3> HIDE DEF k
    <3> QED BY <1>3, <1>b DEF ChildPhase
  <2>10. \A n \in Members : Len(journal'[n]) >= Len(journal[n]) /\ Len(journal'[n]) \in Nat
    BY <2>4, JournalLength, SMTT(30)
  <2>11. JournalGrew(m)
    BY <2>3, <2>4, Zenon DEF JournalGrew
  <2>12. child' = child \/ child' = [child EXCEPT ![m][Len(journal[m]) + 1] = "boot"]
    BY <1>3, Zenon
  <2> HIDE DEF k
  <2>7. EarlierWaited'
    BY <2>2, <2>4, <2>6, Zenon DEF ProcessInv, EarlierWaited
  <2>8. ASSUME NEW n \in Members, NEW q \in Processes, Runs(n, q)'
        PROVE  q \in 1 .. Len(journal'[n]) /\ ~journal'[n][q].waited
    <3>1. CASE <<n, q>> = <<m, k>>
      BY <2>3, <2>4, <2>6, <3>1
    <3>2. CASE <<n, q>> # <<m, k>>
      <4>1. q \in 1 .. Len(journal[n]) /\ ~journal[n][q].waited
        BY <2>5, <2>8, <3>2, Zenon DEF ProcessInv, RunningUnwaited, Runs
      <4> QED BY <2>2, <2>4, <4>1, Zenon
    <3> QED BY <3>1, <3>2
  <2>9. OwnedJournaled'
    <3>1. \A n \in Members : sup[n].owned \in 0 .. Len(journal[n]) /\ Len(journal[n]) \in Nat
      BY JournalLength, Zenon DEF ProcessInv, OwnedJournaled
    <3> QED BY <1>1, <2>10, <3>1 DEF OwnedJournaled
  <2>13. ProcessInv'
    BY <1>1, <2>4, <2>5, <2>7, <2>8, <2>9, Zenon DEF ProcessInv, ProcessTypes, RunningUnwaited
  <2> QED BY <1>3, <2>11, <2>12, <2>13, Zenon
<1> QED BY <1>2, <1>3, Zenon DEF StartController

\* register_controller_process changes nothing that OneProcess depends on; its refusal
\* ends the process that was just spawned.
LEMMA RegisterKeeps ==
  ASSUME ProcessInv, NEW m \in Members, Register(m)
  PROVE  ProcessInv' /\ JournalKept
<1> DEFINE p == Len(journal[m])
<1>a. journal \in [Members -> Seq(Intents)]
  BY Zenon DEF ProcessInv, ProcessTypes
<1>b. child \in [Members -> [Processes -> ChildPhase]]
  BY Zenon DEF ProcessInv, ProcessTypes
<1>c. sup \in [Members -> SupStates]
  BY Zenon DEF ProcessInv, ProcessTypes
<1>1. p \in Nat
  BY JournalLength, Zenon
<1>2. CASE /\ child' = [child EXCEPT ![m][p] = "none"] /\ UNCHANGED journal /\ SupFails(m)
  <2>1. sup' \in [Members -> SupStates] /\ \A n \in Members : sup'[n].owned = sup[n].owned
    BY <1>2, <1>c, Zenon DEF SupFails, SupStates, SupPhase
  <2>2. /\ child' \in [Members -> [Processes -> ChildPhase]]
        /\ \A n \in Members, q \in Processes : Runs(n, q)' => Runs(n, q)
    <3> HIDE DEF p
    <3> QED BY <1>2, <1>b, Zenon DEF ChildPhase, Runs
  <2> QED BY <1>2, <2>1, <2>2, NothingStarts, Zenon DEF JournalKept
<1>3. CASE /\ journal' = [journal EXCEPT ![m][p].known = TRUE] /\ UNCHANGED child
           /\ sup' = [sup EXCEPT ![m].at = "idle", ![m].cur = 0, ![m].owned = p]
  <2>1. /\ journal' \in [Members -> Seq(Intents)]
        /\ \A n \in Members : Len(journal'[n]) = Len(journal[n])
    <3> DEFINE v == [journal[m][p] EXCEPT !.known = TRUE]
    <3>0. journal[m] \in Seq(Intents) /\ (p \in 1 .. Len(journal[m]) => journal[m][p] \in Intents)
      BY <1>a
    <3>1. p \in 1 .. Len(journal[m]) => v \in Intents
      BY <3>0, Zenon DEF Intents
    <3>2. /\ journal'[m] = [journal[m] EXCEPT ![p] = v]
          /\ \A n \in Members : n # m => journal'[n] = journal[n]
      BY <1>3, <1>a, Zenon
    <3>4. journal' = [n \in Members |-> journal'[n]]
      BY <1>3, <1>a, Zenon
    <3> HIDE DEF v, p
    <3>3. ASSUME NEW s \in Seq(Intents), s = journal[m], NEW t, t = journal'[m]
          PROVE  t \in Seq(Intents) /\ Len(t) = Len(s)
      <4>1. (p \in 1 .. Len(s) => v \in Intents) /\ t = [s EXCEPT ![p] = v]
        BY <3>1, <3>2, <3>3, Zenon
      <4> QED BY <1>1, <4>1, RecordRewritten, Zenon
    <3> QED BY <1>a, <3>0, <3>2, <3>3, <3>4, Zenon
  <2>2. \A n \in Members : \A q \in 1 .. Len(journal[n]) :
           journal'[n][q].waited = journal[n][q].waited
    BY <1>3, <1>a DEF Intents
  <2>8. \A n \in Members : \A q \in 1 .. Len(journal[n]) :
           journal'[n][q].epoch = journal[n][q].epoch
    BY <1>3, <1>a DEF Intents
  <2> HIDE DEF p
  <2>3. /\ sup' \in [Members -> SupStates]
        /\ \A n \in Members : sup'[n].owned = IF n = m THEN p ELSE sup[n].owned
    BY <1>1, <1>3, <1>c, Zenon DEF SupStates, SupPhase
  <2>4. OwnedJournaled'
    <3>1. \A n \in Members : sup[n].owned \in 0 .. Len(journal[n]) /\ Len(journal[n]) \in Nat
      BY JournalLength, Zenon DEF ProcessInv, OwnedJournaled
    <3>2. p = Len(journal[m])
      BY DEF p
    <3> QED BY <2>1, <2>3, <3>1, <3>2 DEF OwnedJournaled
  <2>5. EarlierWaited'
    BY <2>1, <2>2, Zenon DEF ProcessInv, EarlierWaited
  <2>6. RunningUnwaited'
    BY <1>3, <2>1, <2>2, Zenon DEF ProcessInv, RunningUnwaited, Runs
  <2>7. JournalKept
    BY <2>1, <2>8, Zenon DEF JournalKept
  <2> QED BY <1>3, <1>b, <2>1, <2>3, <2>4, <2>5, <2>6, <2>7, Zenon DEF ProcessInv, ProcessTypes
<1> QED BY <1>2, <1>3, Zenon DEF Register

\* What a tick of the supervisor loop does to its own state: it is ready to start a process
\* only in an epoch it checked in this tick.
LEMMA TickShape ==
  ASSUME ProcessInv, NEW m \in Members, NEW e \in {0} \cup Terms, Tick(m, e)
  PROVE  /\ sup' \in [Members -> SupStates]
         /\ \A n \in Members : n # m => sup'[n] = sup[n]
         /\ sup'[m].owned \in {0, sup[m].owned}
         /\ sup'[m].at \in {"idle", "ready"}
         /\ sup'[m].at = "ready" => sup'[m].cur = e /\ CheckEpoch(m, e)
         /\ Stop(m) \/ UNCHANGED <<child, journal>>
<1> DEFINE p      == sup[m].owned
           dead   == p # 0 /\ ~Runs(m, p)
           reap   == p # 0 /\ (dead \/ EpochOf(m, p) # e)
           owned  == IF reap THEN 0 ELSE p
           failed == IF dead THEN EpochOf(m, p) ELSE sup[m].failed
           start  == owned = 0 /\ e \notin {0, failed} /\ Pending(m)' = {}
           new    == [at |-> IF start THEN "ready" ELSE "idle",
                      cur |-> IF start THEN e ELSE 0, owned |-> owned, failed |-> failed]
<1>1. /\ e = 0 \/ CheckEpoch(m, e)
      /\ IF reap THEN Stop(m) ELSE UNCHANGED <<child, journal>>
      /\ sup' = [sup EXCEPT ![m] = new]
  BY Zenon DEF Tick
<1>2. sup \in [Members -> SupStates]
  BY Zenon DEF ProcessInv, ProcessTypes
<1>3. sup[m].owned \in Nat /\ sup[m].failed \in Nat /\ e \in Nat
  BY <1>2, ReplicaAssumption DEF SupStates, Terms
<1>4. p # 0 => EpochOf(m, p) \in Nat
  <2>1. journal \in [Members -> Seq(Intents)] /\ (p # 0 => p \in 1 .. Len(journal[m]))
    BY <1>3, JournalLength DEF ProcessInv, ProcessTypes, OwnedJournaled
  <2>2. p # 0 => journal[m][p] \in Intents
    BY <2>1
  <2> QED BY <2>2 DEF Intents, EpochOf
<1>5. owned \in {0, p} /\ owned \in Nat /\ failed \in Nat
  BY <1>3, <1>4, Zenon
<1> HIDE DEF owned, failed, reap
<1>6. new \in SupStates
  BY <1>3, <1>5 DEF SupStates, SupPhase
<1>7. /\ new.owned = owned /\ new.at \in {"idle", "ready"}
      /\ new.at = "ready" => new.cur = e /\ e # 0
  BY Zenon
<1> HIDE DEF new
<1>8. sup'[m] = new /\ \A n \in Members : n # m => sup'[n] = sup[n]
  BY <1>1, <1>2, Zenon
<1>9. sup' \in [Members -> SupStates]
  BY <1>1, <1>2, <1>6, Zenon
<1> QED BY <1>1, <1>5, <1>7, <1>8, <1>9, Zenon

\* The supervisor's other steps start no process: a projection, an exit and a restart.
LEMMA SupervisorKeeps ==
  ASSUME ProcessInv, NEW m \in Members,
         \/ \E e \in {0} \cup Terms : Tick(m, e)
         \/ Materialize(m) \/ Crash(m) \/ Shutdown(m) \/ Restart(m)
  PROVE  ProcessInv'
<1>0. sup \in [Members -> SupStates]
  BY Zenon DEF ProcessInv, ProcessTypes
<1>1. CASE \E e \in {0} \cup Terms : Tick(m, e)
  <2>1. PICK e \in {0} \cup Terms : Tick(m, e)
    BY <1>1
  <2>2. /\ sup' \in [Members -> SupStates]
        /\ \A n \in Members : sup'[n].owned \in {0, sup[n].owned}
    BY <2>1, TickShape, Zenon
  <2>3. CASE Stop(m)
    BY <2>2, <2>3, StopKeeps, Zenon
  <2>4. CASE UNCHANGED <<child, journal>>
    BY <2>2, <2>4, NothingStarts, Zenon DEF ProcessInv, ProcessTypes, Runs
  <2> QED BY <2>1, <2>3, <2>4, TickShape, Zenon
<1>2. CASE Materialize(m)
  <2>1. \/ sup' = [sup EXCEPT ![m].at = "projected"]
        \/ sup' = [sup EXCEPT ![m].at = "idle", ![m].cur = 0, ![m].failed = sup[m].cur]
    BY <1>2, Zenon DEF Materialize, SupTo, SupFails
  <2>2. /\ sup' \in [Members -> SupStates]
        /\ \A n \in Members : sup'[n].owned \in {0, sup[n].owned}
    BY <1>0, <2>1 DEF SupStates, SupPhase
  <2>3. UNCHANGED <<child, journal>>
    BY <1>2, Zenon DEF Materialize
  <2> QED BY <2>2, <2>3, NothingStarts, Zenon DEF ProcessInv, ProcessTypes, Runs
<1>3. CASE Crash(m) \/ Shutdown(m) \/ Restart(m)
  <2>1. sup' = [sup EXCEPT ![m] = [Idle EXCEPT !.at = "down"]] \/ sup' = [sup EXCEPT ![m] = Idle]
    BY <1>3, Zenon DEF Crash, Shutdown, Restart
  <2>2. /\ sup' \in [Members -> SupStates]
        /\ \A n \in Members : sup'[n].owned \in {0, sup[n].owned}
    BY <1>0, <2>1 DEF SupStates, SupPhase, Idle
  <2>3. Stop(m) \/ UNCHANGED <<child, journal>>
    BY <1>3, Zenon DEF Crash, Shutdown, Restart, process
  <2>4. CASE Stop(m)
    BY <2>2, <2>4, StopKeeps, Zenon
  <2>5. CASE UNCHANGED <<child, journal>>
    BY <2>2, <2>5, NothingStarts, Zenon DEF ProcessInv, ProcessTypes, Runs
  <2> QED BY <2>3, <2>4, <2>5
<1> QED BY <1>1, <1>2, <1>3

\* A process moves from one phase to the next, or ends.
LEMMA PhaseMoves ==
  ASSUME NEW m \in Members, NEW p \in Processes, ProcessStep(m, p)
  PROVE  /\ \E to \in ChildPhase : child' = [child EXCEPT ![m][p] = to]
         /\ Runs(m, p) /\ UNCHANGED <<journal, sup, leaderOf, est, sees, xfer, task, wire>>
<1>1. CASE ProcessDies(m, p)
  BY <1>1, Zenon DEF ProcessDies, ChildPhase, raft, handoff
<1>2. CASE \E from, to \in ChildPhase \ {"none"} :
             Moves(m, p, from, to) /\ UNCHANGED <<journal, sup, leaderOf, est, sees, xfer, task, wire>>
  BY <1>2, Zenon DEF Moves, Runs
<1>3. ~ProcessDies(m, p) => \E from, to \in ChildPhase \ {"none"} :
        Moves(m, p, from, to) /\ UNCHANGED <<journal, sup, leaderOf, est, sees, xfer, task, wire>>
  BY SMT DEF ProcessStep, OpenStore, CommitBatch, ConfirmBatch, RollBackBatch, LocalCommit, ChildPhase,
         raft, handoff
<1> QED BY <1>1, <1>2, <1>3, Zenon

\* Every step keeps at most one process alive, the newest of its journal.
LEMMA ProcessInvStep == ProcessInv /\ [Next]_rvars => ProcessInv'
<1> SUFFICES ASSUME ProcessInv, [Next]_rvars PROVE ProcessInv'
  OBVIOUS
<1>1. CASE UNCHANGED <<journal, child, sup>>
  BY <1>1, Zenon
     DEF ProcessInv, ProcessTypes, EarlierWaited, RunningUnwaited, OwnedJournaled, Runs
<1>2. ASSUME NEW m \in Members, MemberStep(m) PROVE ProcessInv'
  <2>1. CASE \/ \E e \in {0} \cup Terms : Tick(m, e)
             \/ Materialize(m) \/ Crash(m) \/ Shutdown(m) \/ Restart(m)
    BY <2>1, SupervisorKeeps, Zenon
  <2>2. CASE StartController(m) \/ Register(m)
    BY <2>2, StartKeeps, RegisterKeeps, Zenon
  <2>3. CASE Elect(m) \/ Learn(m) \/ Establish(m) \/ Replicate(m)
    BY <1>1, <2>3, Zenon DEF Elect, Learn, Establish, Replicate, process
  <2>4. CASE \/ \E x \in Transfers, n \in Members : RequestTransfer(m, x, n)
             \/ Prepare(m) \/ Drain(m) \/ Send(m) \/ TargetAccepted(m) \/ TargetElected(m) \/ GiveUp(m)
             \/ \E w \in wire : AcceptTransfer(m, w)
    BY <1>1, <2>4, Zenon DEF RequestTransfer, Prepare, Drain, Send, TargetAccepted, TargetElected,
       GiveUp, AcceptTransfer, process
  <2> QED BY <1>2, <2>1, <2>2, <2>3, <2>4, Zenon DEF MemberStep
<1>3. ASSUME NEW m \in Members, NEW p \in Processes, ProcessStep(m, p) PROVE ProcessInv'
  <2>1. PICK to \in ChildPhase : child' = [child EXCEPT ![m][p] = to]
    BY <1>3, PhaseMoves, Zenon
  <2>2. child \in [Members -> [Processes -> ChildPhase]] /\ sup \in [Members -> SupStates]
    BY Zenon DEF ProcessInv, ProcessTypes
  <2>3. /\ child' \in [Members -> [Processes -> ChildPhase]]
        /\ \A n \in Members, q \in Processes : Runs(n, q)' => Runs(n, q)
    BY <1>3, <2>1, <2>2, PhaseMoves DEF Runs
  <2> QED BY <1>3, <2>2, <2>3, PhaseMoves, NothingStarts, Zenon
<1>4. ASSUME NEW m \in Members, NEW w \in writes[m], ClientWrite(m, w) PROVE ProcessInv'
  BY <1>1, <1>4, Zenon DEF ClientWrite
<1>5. ASSUME NEW f \in flight, ApplyBatch(f) PROVE ProcessInv'
  BY <1>1, <1>5, Zenon DEF ApplyBatch, process
<1>6. CASE UNCHANGED rvars
  BY <1>1, <1>6, Zenon DEF rvars, process
<1> QED BY <1>2, <1>3, <1>4, <1>5, <1>6, Zenon DEF Next

\* At first no process runs and no journal holds one.
LEMMA ProcessInvInit == Init => ProcessInv
<1> SUFFICES ASSUME Init PROVE ProcessInv
  OBVIOUS
<1>1. \A m \in Members : journal[m] = <<>> /\ Len(journal[m]) = 0
  BY DEF Init
<1>2. journal \in [Members -> Seq(Intents)]
  BY DEF Init
<1>3. child \in [Members -> [Processes -> ChildPhase]] /\ \A m \in Members, p \in Processes : ~Runs(m, p)
  BY DEF Init, ChildPhase, Runs
<1>4. sup \in [Members -> SupStates] /\ \A m \in Members : sup[m].owned = 0
  BY DEF Init, Idle, SupStates, SupPhase
<1>5. EarlierWaited /\ OwnedJournaled
  BY <1>1, <1>4 DEF EarlierWaited, OwnedJournaled
<1> QED BY <1>2, <1>3, <1>4, <1>5, Zenon DEF ProcessInv, ProcessTypes, RunningUnwaited

\* The process invariant allows one process per member.
LEMMA OneIsEnough == ProcessInv => OneProcess
  BY Zenon DEF ProcessInv, EarlierWaited, RunningUnwaited, OneProcess

\* A member never runs two application processes, although a supervisor may die at any point
\* around a spawn and leave its process behind (begin_controller_process).
THEOREM OneProcessPerMember == Spec => []OneProcess
<1>1. Init => ProcessInv
  BY ProcessInvInit
<1>2. ProcessInv /\ [Next]_rvars => ProcessInv'
  BY ProcessInvStep
<1> QED BY <1>1, <1>2, OneIsEnough, PTL DEF Spec

-----------------------------------------------------------------------------
(***************************************************************************)
(* Terms and their leaders                                                 *)
(***************************************************************************)

\* Terms are only added, and a term keeps its leader.
TermsGrow ==
    /\ Len(leaderOf') >= Len(leaderOf)
    /\ \A e \in 1 .. Len(leaderOf) : leaderOf'[e] = leaderOf[e]

\* current_epoch names a term that was elected, with the member as its leader.
LEMMA CurrentEpochLed ==
  ASSUME ElectionInv, NEW m \in Members
  PROVE  /\ CurrentEpoch(m) \in 0 .. Len(leaderOf) /\ Len(leaderOf) \in Nat
         /\ CurrentEpoch(m) # 0 => leaderOf[CurrentEpoch(m)] = m
<1>1. Len(leaderOf) \in Nat /\ sees[m] \in Nat /\ sees[m] <= Len(leaderOf)
  BY DEF ElectionInv
<1> QED BY <1>1 DEF CurrentEpoch

\* check_consensus_epoch succeeds only in the newest term, for its leader.
LEMMA CheckedEpoch ==
  ASSUME ElectionInv, NEW m \in Members, NEW e, CheckConsensus(m, e)
  PROVE  Led(m, e) /\ Newest(e) /\ applied[m] = Len(accepted)
<1>1. e # 0 /\ CurrentEpoch(m) = e /\ e = Len(leaderOf) /\ e = est /\ applied[m] = Len(accepted)
  BY Zenon DEF CheckConsensus
<1>2. e \in 1 .. est
  BY <1>1, CurrentEpochLed
<1>3. leaderOf[e] = m
  BY <1>1, CurrentEpochLed, Zenon
<1> QED BY <1>1, <1>2, <1>3, Zenon DEF Led, Newest

\* Only an election, the news of one, a first entry and a restart touch the terms.
LEMMA QuietTerms ==
  ASSUME [Next]_rvars,
         ~ \E m \in Members : Elect(m) \/ Learn(m) \/ Establish(m) \/ Restart(m)
  PROVE  UNCHANGED <<leaderOf, est, sees>>
<1>1. ASSUME NEW m \in Members, MemberStep(m) PROVE UNCHANGED <<leaderOf, est, sees>>
  <2>1. CASE Replicate(m) \/ (\E e \in {0} \cup Terms : Tick(m, e)) \/ Materialize(m)
             \/ StartController(m) \/ Register(m) \/ Crash(m) \/ Shutdown(m)
    BY <2>1, Zenon DEF Replicate, Tick, Materialize, StartController, Register, Crash, Shutdown, raft
  <2>2. CASE \/ \E x \in Transfers, n \in Members : RequestTransfer(m, x, n)
             \/ Prepare(m) \/ Drain(m) \/ Send(m) \/ TargetAccepted(m) \/ TargetElected(m) \/ GiveUp(m)
             \/ \E w \in wire : AcceptTransfer(m, w)
    BY <2>2, Zenon DEF RequestTransfer, Prepare, Drain, Send, TargetAccepted, TargetElected,
       GiveUp, AcceptTransfer, raft
  <2> QED BY <1>1, <2>1, <2>2, Zenon DEF MemberStep
<1>2. ASSUME NEW m \in Members, NEW p \in Processes, ProcessStep(m, p)
      PROVE  UNCHANGED <<leaderOf, est, sees>>
  BY <1>2, PhaseMoves, Zenon
<1>3. ASSUME NEW m \in Members, NEW w \in writes[m], ClientWrite(m, w)
      PROVE  UNCHANGED <<leaderOf, est, sees>>
  BY <1>3, Zenon DEF ClientWrite
<1>4. ASSUME NEW f \in flight, ApplyBatch(f) PROVE UNCHANGED <<leaderOf, est, sees>>
  BY <1>4, Zenon DEF ApplyBatch
<1>5. CASE UNCHANGED rvars
  BY <1>5, Zenon DEF rvars, raft
<1> QED BY <1>1, <1>2, <1>3, <1>4, <1>5, Zenon DEF Next

\* Every step keeps the terms in order.
LEMMA ElectionStep == ElectionInv /\ [Next]_rvars => ElectionInv' /\ TermsGrow
<1> SUFFICES ASSUME ElectionInv, [Next]_rvars PROVE ElectionInv' /\ TermsGrow
  OBVIOUS
<1>a. leaderOf \in Seq(Members) /\ Len(leaderOf) \in Nat
  BY DEF ElectionInv
<1>b. sees \in [Members -> Nat] /\ \A n \in Members : sees[n] <= Len(leaderOf)
  BY Zenon DEF ElectionInv
<1>c. est \in 0 .. Len(leaderOf)
  BY Zenon DEF ElectionInv
<1>d. ASSUME leaderOf' = leaderOf PROVE TermsGrow
  BY <1>a, <1>d DEF TermsGrow
<1>1. ASSUME NEW m \in Members, Elect(m) PROVE ElectionInv' /\ TermsGrow
  <2>1. /\ leaderOf' = Append(leaderOf, m) /\ est' = est
        /\ sees' = [sees EXCEPT ![m] = Len(leaderOf) + 1]
    BY <1>1, Zenon DEF Elect
  <2>2. leaderOf' \in Seq(Members) /\ Len(leaderOf') = Len(leaderOf) + 1 /\ TermsGrow
    BY <1>a, <2>1 DEF TermsGrow
  <2>3. \A n \in Members : sees'[n] \in Nat /\ sees'[n] <= Len(leaderOf) + 1
    BY <1>a, <1>b, <2>1
  <2>4. sees' \in [Members -> Nat]
    BY <1>a, <1>b, <2>1
  <2> QED BY <1>a, <1>c, <2>1, <2>2, <2>3, <2>4 DEF ElectionInv
<1>2. ASSUME NEW m \in Members, Learn(m) \/ Restart(m) PROVE ElectionInv' /\ TermsGrow
  <2>1. /\ leaderOf' = leaderOf /\ est' = est
        /\ \E t \in {0, sees[m], Len(leaderOf)} : sees' = [sees EXCEPT ![m] = t]
    BY <1>2, Zenon DEF Learn, Restart
  <2>2. PICK t \in {0, sees[m], Len(leaderOf)} : sees' = [sees EXCEPT ![m] = t]
    BY <2>1, Zenon
  <2>4. t \in Nat /\ t <= Len(leaderOf)
    <3>1. Len(leaderOf) \in Nat /\ sees[m] \in Nat /\ sees[m] <= Len(leaderOf)
      BY <1>a, <1>b, Zenon
    <3> QED BY <3>1
  <2>3. sees' \in [Members -> Nat] /\ \A n \in Members : sees'[n] <= Len(leaderOf)
    BY <1>b, <2>2, <2>4
  <2> QED BY <1>a, <1>c, <1>d, <2>1, <2>3, Zenon DEF ElectionInv
<1>3. ASSUME NEW m \in Members, Establish(m) PROVE ElectionInv' /\ TermsGrow
  <2>1. leaderOf' = leaderOf /\ est' = Len(leaderOf) /\ sees' = sees
    BY <1>3, Zenon DEF Establish
  <2>2. est' \in 0 .. Len(leaderOf)
    BY <1>a, <2>1
  <2> QED BY <1>a, <1>b, <1>d, <2>1, <2>2, Zenon DEF ElectionInv
<1>4. CASE UNCHANGED <<leaderOf, est, sees>>
  BY <1>4, <1>d, Zenon DEF ElectionInv
<1> QED BY <1>1, <1>2, <1>3, <1>4, QuietTerms, Zenon

\* At first no term has a leader.
LEMMA ElectionInit == Init => ElectionInv
<1> SUFFICES ASSUME Init PROVE ElectionInv
  OBVIOUS
<1>1. leaderOf = <<>> /\ est = 0 /\ sees = [m \in Members |-> 0]
  BY Zenon DEF Init
<1>2. leaderOf \in Seq(Members) /\ Len(leaderOf) = 0
  BY <1>1
<1>3. est \in 0 .. Len(leaderOf) /\ sees \in [Members -> Nat] /\ \A m \in Members : sees[m] <= Len(leaderOf)
  BY <1>1, <1>2
<1> QED BY <1>2, <1>3, Zenon DEF ElectionInv

-----------------------------------------------------------------------------
(***************************************************************************)
(* The source of a transfer stays silent                                   *)
(***************************************************************************)

\* A record only advances: it stays one of the same transfer, and is completed only when
\* the term it gave up is over.
Advances(r, m, x) ==
    \/ r = xfer[m][x]
    \/ /\ xfer[m][x].state # "none" /\ r.state # "none" /\ SameTransfer(r, xfer[m][x])
       /\ r.state = "completed" => r.term < Len(leaderOf)

\* A new record is the source's own intent, or the target's copy of it.
Fresh(r, m, x) ==
    /\ xfer[m][x] = NoRecord /\ r.state \in {"prepared", "accepted"}
    /\ \/ r.source = m /\ r.target \in Members \ {m}
       \/ /\ r.source \in Members \ {m} /\ r.target = m
          /\ TransferOf(r.source, x) /\ SameTransfer(xfer[r.source][x], r)

\* Steps that only advance records or add new ones keep every record sound.
LEMMA RecordsStaySound ==
  ASSUME HandoffInv, ElectionInv, ElectionInv', TermsGrow,
         xfer' \in [Members -> [Transfers -> Records]],
         \A m \in Members, x \in Transfers : Advances(xfer'[m][x], m, x) \/ Fresh(xfer'[m][x], m, x)
  PROVE  /\ \A m \in Members, x \in Transfers : RecordSound(m, x)'
         /\ \A m \in Members, x \in Transfers : TransferOf(m, x) => TransferOf(m, x)'
<1>1. ASSUME NEW m \in Members, NEW x \in Transfers, TransferOf(m, x)
      PROVE  TransferOf(m, x)' /\ SameTransfer(xfer'[m][x], xfer[m][x])
  <2>1. ~Fresh(xfer'[m][x], m, x)
    BY <1>1 DEF TransferOf, Fresh, NoRecord
  <2> QED BY <1>1, <2>1, Zenon DEF Advances, TransferOf, SameTransfer
<1>2. ASSUME NEW m \in Members, NEW x \in Transfers PROVE RecordSound(m, x)'
  <2> DEFINE r == xfer[m][x]
             s == xfer'[m][x]
  <2>1. RecordSound(m, x)
    BY DEF HandoffInv
  <2>2. r \in Records /\ s \in Records
    BY DEF HandoffInv, HandoffTypes
  <2>6. r.term \in Nat /\ s.term \in Nat
    BY <2>2 DEF Records
  <2>7. Len(leaderOf) \in Nat /\ Len(leaderOf') \in Nat
    BY DEF ElectionInv
  <2>3. /\ r.term \in Nat /\ s.term \in Nat /\ Len(leaderOf) \in Nat /\ Len(leaderOf') \in Nat
        /\ Len(leaderOf') >= Len(leaderOf)
    BY <2>6, <2>7, Zenon DEF TermsGrow
  <2>4. CASE Advances(s, m, x)
    <3>1. /\ s.state = "none" => s = NoRecord
          /\ s.state # "none" => s.source \in Members /\ s.target \in Members \ {s.source}
      BY <2>1, <2>4, Zenon DEF RecordSound, Advances, SameTransfer
    <3>2. s.state = "completed" => s.term < Len(leaderOf)
      BY <2>1, <2>4, Zenon DEF RecordSound, Advances
    <3>3. s.state = "completed" => s.term < Len(leaderOf')
      BY <2>3, <3>2
    <3>4. ASSUME s.state # "none", s.target = m
          PROVE  /\ xfer'[s.source][x].source = s.source /\ xfer'[s.source][x].state # "none"
                 /\ SameTransfer(xfer'[s.source][x], s)
      <4>1. r.state # "none" /\ r.target = m /\ SameTransfer(s, r)
        BY <2>4, <3>4, Zenon DEF Advances, SameTransfer
      <4>2. r.source \in Members /\ TransferOf(r.source, x) /\ SameTransfer(xfer[r.source][x], r)
        BY <2>1, <4>1, Zenon DEF RecordSound
      <4>3. PICK n \in Members : n = r.source
        BY <4>2
      <4>4. TransferOf(n, x)' /\ SameTransfer(xfer'[n][x], xfer[n][x])
        BY <1>1, <4>2, <4>3, Zenon
      <4>5. s.source = n
        BY <4>1, <4>3, Zenon DEF SameTransfer
      <4> QED BY <4>1, <4>2, <4>3, <4>4, <4>5, Zenon DEF SameTransfer, TransferOf
    <3> QED BY <3>1, <3>3, <3>4, Zenon DEF RecordSound, TransferOf
  <2>5. CASE Fresh(s, m, x)
    <3>1. /\ s.state # "none" /\ s.state # "completed"
          /\ s.source \in Members /\ s.target \in Members \ {s.source}
      BY <2>5 DEF Fresh
    <3>2. ASSUME s.target = m
          PROVE  /\ xfer'[s.source][x].source = s.source /\ xfer'[s.source][x].state # "none"
                 /\ SameTransfer(xfer'[s.source][x], s)
      <4>1. s.source \in Members /\ TransferOf(s.source, x) /\ SameTransfer(xfer[s.source][x], s)
        BY <2>5, <3>2, Zenon DEF Fresh
      <4>2. PICK n \in Members : n = s.source
        BY <4>1
      <4>3. TransferOf(n, x)' /\ SameTransfer(xfer'[n][x], xfer[n][x])
        BY <1>1, <4>1, <4>2, Zenon
      <4> QED BY <4>1, <4>2, <4>3, Zenon DEF SameTransfer, TransferOf
    <3> QED BY <3>1, <3>2, Zenon DEF RecordSound, TransferOf
  <2> QED BY <2>4, <2>5
<1> QED BY <1>1, <1>2, Zenon

\* reconcile_leader_transfer completes a record only when the target proved its quorum in a
\* newer term.
LEMMA ReconcileAdvances ==
  ASSUME HandoffInv, ElectionInv, NEW m \in Members, NEW r \in Reconciled(m)
  PROVE  r \in [Transfers -> Records] /\ \A x \in Transfers : Advances(r[x], m, x)
<1>0. xfer[m] \in [Transfers -> Records]
  BY Zenon DEF HandoffInv, HandoffTypes
<1>1. CASE r = xfer[m]
  BY <1>0, <1>1, Zenon DEF Advances
<1>2. ASSUME NEW y \in Transfers, Completable(m, y), r = [xfer[m] EXCEPT ![y] = Complete(m, y)]
      PROVE  r \in [Transfers -> Records] /\ \A x \in Transfers : Advances(r[x], m, x)
  <2> DEFINE o == xfer[m][y]
             c == Complete(m, y)
  <2>1. o \in Records /\ o.state # "none" /\ RecordSound(m, y)
    BY <1>0, <1>2, Zenon DEF Completable, Pending, Settled, HandoffInv
  <2>2. o.target \in Members
    BY <2>1, Zenon DEF RecordSound
  <2>3. CurrentEpoch(m) \in Nat /\ xfer[o.target][y] \in Records
    BY <2>2, CurrentEpochLed DEF HandoffInv, HandoffTypes
  <2>4. c \in Records /\ c.state = "completed" /\ SameTransfer(c, o) /\ c.term = o.term
    BY <2>1, <2>3, Zenon DEF Complete, Records, States, SameTransfer
  <2>5. o.term < Len(leaderOf)
    <3>1. CASE o.target = m
      <4>1. CurrentEpoch(m) > o.term
        BY <1>2, <3>1, Zenon DEF Completable
      <4>2. o.term \in Nat
        BY <2>1 DEF Records
      <4> QED BY <4>1, <4>2, CurrentEpochLed
    <3>2. CASE o.target # m
      <4>1. xfer[o.target][y].state = "completed" /\ xfer[o.target][y].term = o.term
        BY <1>2, <3>2, Zenon DEF Completable, CompletedAt, SameTransfer
      <4>2. RecordSound(o.target, y)
        BY <2>2, Zenon DEF HandoffInv
      <4> QED BY <4>1, <4>2, Zenon DEF RecordSound
    <3> QED BY <3>1, <3>2
  <2> HIDE DEF c
  <2>6. r \in [Transfers -> Records] /\ \A x \in Transfers : r[x] = IF x = y THEN c ELSE xfer[m][x]
    BY <1>0, <1>2, <2>4, Zenon DEF c
  <2>7. Advances(c, m, y)
    BY <2>1, <2>4, <2>5, Zenon DEF Advances
  <2> QED BY <2>6, <2>7, Zenon DEF Advances
<1> QED BY <1>1, <1>2, Zenon DEF Reconciled

\* A step that leaves the source's tasks and the wire alone, or takes from them, is sound when
\* its records are.
LEMMA HandoffKeeps ==
  ASSUME HandoffInv, ElectionInv, ElectionInv', TermsGrow,
         xfer' \in [Members -> [Transfers -> Records]],
         \A m \in Members, x \in Transfers : Advances(xfer'[m][x], m, x) \/ Fresh(xfer'[m][x], m, x),
         task' \in [Members -> Tasks],
         \A m \in Members : task'[m].at # "none" =>
            /\ task'[m].id \in Transfers /\ task'[m].target \in Members \ {m}
            /\ task'[m].at # "frozen" => xfer'[m][task'[m].id].source = m
                                         /\ xfer'[m][task'[m].id].state # "none",
         wire' \subseteq [kind : {"transfer", "receipt"}, id : Transfers, source : Members],
         \A w \in wire' : TransferOf(w.source, w.id)
  PROVE  HandoffInv'
<1>1. HandoffTypes'
  BY Zenon DEF HandoffTypes
<1>2. /\ \A m \in Members, x \in Transfers : RecordSound(m, x)'
      /\ \A m \in Members, x \in Transfers : TransferOf(m, x) => TransferOf(m, x)'
  BY RecordsStaySound, Zenon
<1>3. \A m \in Members : TaskSound(m)'
  BY DEF TaskSound, TransferOf
<1>4. ASSUME NEW w \in wire' PROVE TransferOf(w.source, w.id)'
  <2>1. w.source \in Members /\ w.id \in Transfers
    BY <1>4
  <2> QED BY <1>2, <1>4, <2>1, Zenon
<1> QED BY <1>1, <1>2, <1>3, <1>4, Zenon DEF HandoffInv

\* What a running task may count on: its record is the member's own.
LEMMA TaskFacts ==
  ASSUME HandoffInv, NEW m \in Members
  PROVE  /\ task[m] \in Tasks /\ TaskSound(m)
         /\ \A x \in Transfers : xfer[m][x] \in Records
  BY Zenon DEF HandoffInv, HandoffTypes

\* The steps of the supervisor and of consensus: they complete records at most, and an exit
\* drops the running request.
LEMMA OtherStepsKeepHandoff ==
  ASSUME HandoffInv, ElectionInv, ElectionInv', TermsGrow, NEW m \in Members,
         \/ xfer' = xfer
         \/ \E r \in Reconciled(m) : xfer' = [xfer EXCEPT ![m] = r],
         task' = task \/ task' = [task EXCEPT ![m] = NoTask],
         wire' = wire
  PROVE  HandoffInv'
<1>0. /\ xfer \in [Members -> [Transfers -> Records]] /\ task \in [Members -> Tasks]
      /\ wire \subseteq [kind : {"transfer", "receipt"}, id : Transfers, source : Members]
  BY Zenon DEF HandoffInv, HandoffTypes
<1>1. /\ xfer' \in [Members -> [Transfers -> Records]]
      /\ \A n \in Members, x \in Transfers : Advances(xfer'[n][x], n, x)
  <2>1. CASE xfer' = xfer
    BY <1>0, <2>1, Zenon DEF Advances
  <2>2. ASSUME NEW r \in Reconciled(m), xfer' = [xfer EXCEPT ![m] = r]
        PROVE  /\ xfer' \in [Members -> [Transfers -> Records]]
               /\ \A n \in Members, x \in Transfers : Advances(xfer'[n][x], n, x)
    <3>1. r \in [Transfers -> Records] /\ \A x \in Transfers : Advances(r[x], m, x)
      BY <2>2, ReconcileAdvances, Zenon
    <3>2. xfer'[m] = r /\ \A n \in Members : n # m => xfer'[n] = xfer[n]
      BY <1>0, <2>2, Zenon
    <3>3. xfer' \in [Members -> [Transfers -> Records]]
      BY <1>0, <2>2, <3>1, Zenon
    <3> QED BY <3>1, <3>2, <3>3, Zenon DEF Advances
  <2> QED BY <2>1, <2>2
<1>2. /\ task' \in [Members -> Tasks]
      /\ \A n \in Members : task'[n] = task[n] \/ task'[n].at = "none"
  <2>1. NoTask \in Tasks /\ NoTask.at = "none"
    BY DEF NoTask, Tasks
  <2> QED BY <1>0, <2>1, Zenon
<1>3. ASSUME NEW n \in Members, task'[n].at # "none"
      PROVE  /\ task'[n].id \in Transfers /\ task'[n].target \in Members \ {n}
             /\ task'[n].at # "frozen" => xfer'[n][task'[n].id].source = n
                                          /\ xfer'[n][task'[n].id].state # "none"
  <2>1. task'[n] = task[n] /\ TaskSound(n)
    BY <1>2, <1>3, Zenon DEF HandoffInv
  <2>2. task[n].id \in Transfers /\ task[n].target \in Members \ {n}
    BY <1>3, <2>1, Zenon DEF TaskSound
  <2>3. ASSUME task[n].at # "frozen"
        PROVE  xfer'[n][task[n].id].source = n /\ xfer'[n][task[n].id].state # "none"
    <3>1. TransferOf(n, task[n].id)
      BY <1>3, <2>1, <2>3 DEF TaskSound
    <3> QED BY <1>1, <2>2, <3>1, Zenon DEF TransferOf, Advances, SameTransfer
  <2> QED BY <2>1, <2>2, <2>3, Zenon
<1>4. \A w \in wire' : TransferOf(w.source, w.id)
  BY Zenon DEF HandoffInv
<1> QED BY <1>0, <1>1, <1>2, <1>3, <1>4, HandoffKeeps, Zenon

\* A step of one member on its own records and its own request.
LEMMA OwnStepKeepsHandoff ==
  ASSUME HandoffInv, ElectionInv, ElectionInv', TermsGrow, NEW m \in Members,
         xfer' \in [Members -> [Transfers -> Records]],
         \A n \in Members : n # m => xfer'[n] = xfer[n],
         \A x \in Transfers : Advances(xfer'[m][x], m, x) \/ Fresh(xfer'[m][x], m, x),
         NEW t \in Tasks, task' = [task EXCEPT ![m] = t],
         t.at # "none" => t.id \in Transfers /\ t.target \in Members \ {m},
         t.at \notin {"none", "frozen"} =>
            xfer'[m][t.id].source = m /\ xfer'[m][t.id].state # "none",
         wire' \subseteq [kind : {"transfer", "receipt"}, id : Transfers, source : Members],
         \A w \in wire' : TransferOf(w.source, w.id)
  PROVE  HandoffInv'
<1>0. xfer \in [Members -> [Transfers -> Records]] /\ task \in [Members -> Tasks]
  BY Zenon DEF HandoffInv, HandoffTypes
<1>1. \A n \in Members, x \in Transfers : Advances(xfer'[n][x], n, x) \/ Fresh(xfer'[n][x], n, x)
  BY Zenon DEF Advances
<1>2. /\ task' \in [Members -> Tasks]
      /\ task'[m] = t /\ \A n \in Members : n # m => task'[n] = task[n]
  BY <1>0, Zenon
<1>3. ASSUME NEW n \in Members, task'[n].at # "none"
      PROVE  /\ task'[n].id \in Transfers /\ task'[n].target \in Members \ {n}
             /\ task'[n].at # "frozen" => xfer'[n][task'[n].id].source = n
                                          /\ xfer'[n][task'[n].id].state # "none"
  <2>1. CASE n = m
    BY <1>2, <1>3, <2>1
  <2>2. CASE n # m
    <3>1. task'[n] = task[n] /\ TaskSound(n) /\ xfer'[n] = xfer[n]
      BY <1>2, <2>2, Zenon DEF HandoffInv
    <3> QED BY <1>3, <3>1 DEF TaskSound, TransferOf
  <2> QED BY <2>1, <2>2
<1> QED BY <1>1, <1>2, <1>3, HandoffKeeps, Zenon

\* Rewriting one record of a member.
LEMMA OneRecord ==
  ASSUME HandoffInv, NEW m \in Members, NEW x \in Transfers, NEW v \in Records,
         Advances(v, m, x) \/ Fresh(v, m, x), xfer' = [xfer EXCEPT ![m][x] = v]
  PROVE  /\ xfer' \in [Members -> [Transfers -> Records]] /\ xfer'[m][x] = v
         /\ \A n \in Members : n # m => xfer'[n] = xfer[n]
         /\ \A y \in Transfers : Advances(xfer'[m][y], m, y) \/ Fresh(xfer'[m][y], m, y)
<1>0. xfer \in [Members -> [Transfers -> Records]]
  BY Zenon DEF HandoffInv, HandoffTypes
<1>1. /\ xfer' \in [Members -> [Transfers -> Records]]
      /\ \A n \in Members : n # m => xfer'[n] = xfer[n]
      /\ xfer'[m] = [xfer[m] EXCEPT ![x] = v]
  BY <1>0, Zenon
<1>2. \A y \in Transfers : xfer'[m][y] = IF y = x THEN v ELSE xfer[m][y]
  BY <1>0, <1>1, Zenon
<1> QED BY <1>1, <1>2, Zenon DEF Advances

\* persist_leader_transfer on the record of a running request.
LEMMA PersistAdvances ==
  ASSUME HandoffInv, NEW m \in Members, task[m].at \notin {"none", "frozen"},
         NEW st \in {"accepted", "target-elected", "unknown"}, Persist(m, st)
  PROVE  /\ xfer' \in [Members -> [Transfers -> Records]]
         /\ \A n \in Members : n # m => xfer'[n] = xfer[n]
         /\ \A y \in Transfers : Advances(xfer'[m][y], m, y) \/ Fresh(xfer'[m][y], m, y)
         /\ xfer'[m][task[m].id].source = m /\ xfer'[m][task[m].id].state # "none"
<1>1. PICK x \in Transfers : x = task[m].id /\ TransferOf(m, x) /\ xfer[m][x] \in Records
  <2>1. task[m].at # "none" /\ TaskSound(m)
    BY TaskFacts
  <2> QED BY <2>1, TaskFacts, Zenon DEF TaskSound
<1>2. CASE xfer' = xfer
  BY <1>1, <1>2, Zenon DEF HandoffInv, HandoffTypes, Advances, TransferOf
<1>3. CASE xfer' = [xfer EXCEPT ![m][x].state = st]
  <2> DEFINE v == [xfer[m][x] EXCEPT !.state = st]
  <2>1. v \in Records /\ v.state = st /\ v.source = xfer[m][x].source /\ SameTransfer(v, xfer[m][x])
    BY <1>1 DEF Records, States, SameTransfer
  <2>2. xfer' = [xfer EXCEPT ![m][x] = v]
    BY <1>3, Zenon
  <2>3. Advances(v, m, x)
    BY <1>1, <2>1 DEF Advances, TransferOf
  <2>4. v.source = m /\ v.state # "none"
    BY <1>1, <2>1 DEF TransferOf
  <2> HIDE DEF v
  <2>5. /\ xfer' \in [Members -> [Transfers -> Records]] /\ xfer'[m][x] = v
        /\ \A n \in Members : n # m => xfer'[n] = xfer[n]
        /\ \A y \in Transfers : Advances(xfer'[m][y], m, y) \/ Fresh(xfer'[m][y], m, y)
    BY <2>1, <2>2, <2>3, OneRecord, Zenon
  <2> QED BY <1>1, <2>4, <2>5, Zenon
<1> QED BY <1>1, <1>2, <1>3, Zenon DEF Persist

\* The request of a leader transfer, from its first check to its outcome.
LEMMA RequestKeepsHandoff ==
  ASSUME HandoffInv, ElectionInv, ElectionInv', TermsGrow, NEW m \in Members,
         \/ \E x \in Transfers, n \in Members : RequestTransfer(m, x, n)
         \/ Prepare(m) \/ Drain(m) \/ Send(m) \/ TargetAccepted(m) \/ TargetElected(m) \/ GiveUp(m)
  PROVE  HandoffInv'
<1>0. /\ xfer \in [Members -> [Transfers -> Records]] /\ task[m] \in Tasks
      /\ wire \subseteq [kind : {"transfer", "receipt"}, id : Transfers, source : Members]
      /\ \A w \in wire : TransferOf(w.source, w.id)
  BY Zenon DEF HandoffInv, HandoffTypes
<1>1. NoTask \in Tasks /\ NoTask.at = "none"
  BY DEF NoTask, Tasks
<1>2. ASSUME NEW to \in {"draining", "drained", "sent", "awaiting"}
      PROVE  /\ [task[m] EXCEPT !.at = to] \in Tasks
             /\ [task[m] EXCEPT !.at = to].at = to
             /\ [task[m] EXCEPT !.at = to].id = task[m].id
             /\ [task[m] EXCEPT !.at = to].target = task[m].target
  BY <1>0 DEF Tasks
<1>3. task[m].at # "none" => task[m].id \in Transfers /\ task[m].target \in Members \ {m}
  BY TaskFacts DEF TaskSound
<1>4. task[m].at \notin {"none", "frozen"} => TransferOf(m, task[m].id)
  BY TaskFacts DEF TaskSound
<1>5. \A to : TaskTo(m, to) => task' = [task EXCEPT ![m] = [task[m] EXCEPT !.at = to]]
  BY Zenon DEF TaskTo
<1>6. ASSUME NEW x \in Transfers, NEW n \in Members, RequestTransfer(m, x, n) PROVE HandoffInv'
  <2>1. PICK r \in Reconciled(m) : xfer' = [xfer EXCEPT ![m] = r]
    BY <1>6, Zenon DEF RequestTransfer
  <2>2. PICK p \in {0} \cup Processes : task' = [task EXCEPT ![m] =
            [at |-> "frozen", id |-> x, target |-> n, term |-> CurrentEpoch(m), proc |-> p]]
    BY <1>6, Zenon DEF RequestTransfer
  <2>3. CurrentEpoch(m) \in Nat /\ n # m /\ wire' = wire
    BY <1>6, CurrentEpochLed DEF RequestTransfer
  <2> DEFINE t == [at |-> "frozen", id |-> x, target |-> n, term |-> CurrentEpoch(m), proc |-> p]
  <2>4. t \in Tasks /\ t.at = "frozen" /\ t.id = x /\ t.target = n
    BY <2>3 DEF Tasks
  <2>5. r \in [Transfers -> Records] /\ \A y \in Transfers : Advances(r[y], m, y)
    BY ReconcileAdvances, Zenon
  <2>6. /\ xfer' \in [Members -> [Transfers -> Records]] /\ xfer'[m] = r
        /\ \A k \in Members : k # m => xfer'[k] = xfer[k]
    BY <1>0, <2>1, <2>5, Zenon
  <2> HIDE DEF t
  <2>7. task' = [task EXCEPT ![m] = t]
    BY <2>2 DEF t
  <2>8. /\ t.at # "none" => t.id \in Transfers /\ t.target \in Members \ {m}
        /\ ~(t.at \notin {"none", "frozen"})
    BY <2>3, <2>4
  <2> QED BY <1>0, <2>3, <2>4, <2>5, <2>6, <2>7, <2>8, OwnStepKeepsHandoff, Zenon
<1>7. CASE Prepare(m)
  <2>1. wire' = wire /\ task[m].at = "frozen"
    BY <1>7, Zenon DEF Prepare, TaskAt
  <2>2. PICK x \in Transfers : x = task[m].id
    BY <1>3, <2>1
  <2>3. CASE TaskEnds(m) /\ xfer' = xfer
    BY <2>1, <2>3, OtherStepsKeepHandoff, Zenon DEF TaskEnds
  <2>4. CASE /\ xfer[m][x] = NoRecord /\ TaskTo(m, "draining")
             /\ xfer' = [xfer EXCEPT ![m][x] =
                  [NoRecord EXCEPT !.state = "prepared", !.source = m, !.term = task[m].term,
                                   !.target = task[m].target, !.proc = task[m].proc]]
    <3> DEFINE v == [NoRecord EXCEPT !.state = "prepared", !.source = m, !.term = task[m].term,
                                     !.target = task[m].target, !.proc = task[m].proc]
               t == [task[m] EXCEPT !.at = "draining"]
    <3>1. /\ v \in Records /\ v.state = "prepared" /\ v.source = m /\ v.target = task[m].target
      BY <1>0, Zenon DEF Tasks, Records, States, NoRecord
    <3>2. t \in Tasks /\ t.at = "draining" /\ t.id = x /\ t.target = task[m].target
      BY <1>2, <2>2
    <3>3. task' = [task EXCEPT ![m] = t] /\ xfer' = [xfer EXCEPT ![m][x] = v]
      BY <1>5, <2>4, Zenon
    <3> HIDE DEF v, t
    <3>4. Fresh(v, m, x)
      BY <1>3, <2>1, <2>4, <3>1 DEF Fresh
    <3>5. /\ xfer' \in [Members -> [Transfers -> Records]] /\ xfer'[m][x] = v
          /\ \A n \in Members : n # m => xfer'[n] = xfer[n]
          /\ \A y \in Transfers : Advances(xfer'[m][y], m, y) \/ Fresh(xfer'[m][y], m, y)
      BY <3>1, <3>3, <3>4, OneRecord, Zenon
    <3>6. /\ t.id \in Transfers /\ t.target \in Members \ {m}
          /\ xfer'[m][t.id].source = m /\ xfer'[m][t.id].state # "none"
      BY <1>3, <2>1, <3>1, <3>2, <3>5
    <3> QED BY <1>0, <2>1, <3>2, <3>3, <3>5, <3>6, OwnStepKeepsHandoff, Zenon
  <2> QED BY <1>7, <2>2, <2>3, <2>4, Zenon DEF Prepare
<1>8. CASE Drain(m)
  <2>1. wire' = wire /\ task[m].at = "draining"
    BY <1>8, Zenon DEF Drain, TaskAt
  <2>2. PICK x \in Transfers : x = task[m].id /\ TransferOf(m, x) /\ xfer[m][x] \in Records
    BY <1>3, <1>4, <2>1, TaskFacts
  <2> DEFINE v == [xfer[m][x] EXCEPT !.drain = TRUE]
             t == [task[m] EXCEPT !.at = "drained"]
  <2>3. v \in Records /\ v.state = xfer[m][x].state /\ v.source = m /\ SameTransfer(v, xfer[m][x])
    BY <2>2, Zenon DEF Records, SameTransfer, TransferOf
  <2>4. t \in Tasks /\ t.at = "drained" /\ t.id = x /\ t.target = task[m].target
    BY <1>2, <2>2
  <2>5. task' = [task EXCEPT ![m] = t] /\ xfer' = [xfer EXCEPT ![m][x] = v]
    BY <1>5, <1>8, <2>2, Zenon DEF Drain
  <2>6. v.term = xfer[m][x].term /\ RecordSound(m, x)
    BY <2>3, Zenon DEF SameTransfer, HandoffInv
  <2> HIDE DEF v, t
  <2>7. Advances(v, m, x)
    BY <2>2, <2>3, <2>6, Zenon DEF Advances, TransferOf, RecordSound
  <2>8. /\ xfer' \in [Members -> [Transfers -> Records]] /\ xfer'[m][x] = v
        /\ \A n \in Members : n # m => xfer'[n] = xfer[n]
        /\ \A y \in Transfers : Advances(xfer'[m][y], m, y) \/ Fresh(xfer'[m][y], m, y)
    BY <2>3, <2>5, <2>7, OneRecord, Zenon
  <2>9. /\ t.id \in Transfers /\ t.target \in Members \ {m}
        /\ xfer'[m][t.id].source = m /\ xfer'[m][t.id].state # "none"
    BY <1>3, <2>1, <2>2, <2>3, <2>4, <2>8 DEF TransferOf
  <2> QED BY <1>0, <2>1, <2>4, <2>5, <2>8, <2>9, OwnStepKeepsHandoff, Zenon
<1>9. CASE Send(m)
  <2>1. /\ task[m].at = "drained" /\ xfer' = xfer /\ TaskTo(m, "sent")
        /\ wire' = wire \cup {[kind |-> "transfer", id |-> task[m].id, source |-> m]}
    BY <1>9, Zenon DEF Send, TaskAt
  <2>2. TransferOf(m, task[m].id) /\ task[m].id \in Transfers /\ task[m].target \in Members \ {m}
    BY <1>3, <1>4, <2>1
  <2> DEFINE t == [task[m] EXCEPT !.at = "sent"]
             w == [kind |-> "transfer", id |-> task[m].id, source |-> m]
  <2>3. t \in Tasks /\ t.at = "sent" /\ t.id = task[m].id /\ t.target = task[m].target
    BY <1>2
  <2>4. /\ w \in [kind : {"transfer", "receipt"}, id : Transfers, source : Members]
        /\ w.id = task[m].id /\ w.source = m
    BY <2>2
  <2>5. task' = [task EXCEPT ![m] = t] /\ wire' = wire \cup {w}
    BY <1>5, <2>1, Zenon
  <2> HIDE DEF t, w
  <2>6. /\ wire' \subseteq [kind : {"transfer", "receipt"}, id : Transfers, source : Members]
        /\ \A v \in wire' : TransferOf(v.source, v.id)
    BY <1>0, <2>2, <2>4, <2>5, Zenon
  <2>7. \A y \in Transfers : Advances(xfer'[m][y], m, y)
    BY <2>1, Zenon DEF Advances
  <2>8. /\ t.id \in Transfers /\ t.target \in Members \ {m}
        /\ xfer'[m][t.id].source = m /\ xfer'[m][t.id].state # "none"
    BY <2>1, <2>2, <2>3 DEF TransferOf
  <2> QED BY <1>0, <2>1, <2>3, <2>5, <2>6, <2>7, <2>8, OwnStepKeepsHandoff, Zenon
<1>10. CASE TargetAccepted(m) \/ TargetElected(m) \/ GiveUp(m)
  <2>1. /\ task[m].at \notin {"none", "frozen"}
        /\ \E st \in {"accepted", "target-elected", "unknown"} : Persist(m, st)
        /\ TaskTo(m, "awaiting") \/ TaskEnds(m)
        /\ wire' \subseteq wire
    BY <1>10 DEF TargetAccepted, TargetElected, GiveUp, TaskAt
  <2>2. /\ xfer' \in [Members -> [Transfers -> Records]]
        /\ \A n \in Members : n # m => xfer'[n] = xfer[n]
        /\ \A y \in Transfers : Advances(xfer'[m][y], m, y) \/ Fresh(xfer'[m][y], m, y)
        /\ xfer'[m][task[m].id].source = m /\ xfer'[m][task[m].id].state # "none"
    BY <2>1, PersistAdvances, Zenon
  <2>3. /\ wire' \subseteq [kind : {"transfer", "receipt"}, id : Transfers, source : Members]
        /\ \A w \in wire' : TransferOf(w.source, w.id)
    BY <1>0, <2>1, Zenon
  <2>4. CASE TaskEnds(m)
    BY <1>1, <2>2, <2>3, <2>4, OwnStepKeepsHandoff, Zenon DEF TaskEnds
  <2>5. CASE TaskTo(m, "awaiting")
    <3> DEFINE t == [task[m] EXCEPT !.at = "awaiting"]
    <3>1. t \in Tasks /\ t.at = "awaiting" /\ t.id = task[m].id /\ t.target = task[m].target
      BY <1>2
    <3>2. task' = [task EXCEPT ![m] = t]
      BY <1>5, <2>5, Zenon
    <3> HIDE DEF t
    <3>3. /\ t.id \in Transfers /\ t.target \in Members \ {m}
          /\ xfer'[m][t.id].source = m /\ xfer'[m][t.id].state # "none"
      BY <1>3, <2>1, <2>2, <3>1
    <3> QED BY <2>2, <2>3, <3>1, <3>2, <3>3, OwnStepKeepsHandoff, Zenon
  <2> QED BY <2>1, <2>4, <2>5
<1> QED BY <1>6, <1>7, <1>8, <1>9, <1>10, Zenon

\* accept_leader_transfer records what the source still holds, and never twice.
LEMMA AcceptKeepsHandoff ==
  ASSUME HandoffInv, ElectionInv, ElectionInv', TermsGrow,
         NEW n \in Members, NEW w \in wire, AcceptTransfer(n, w)
  PROVE  HandoffInv'
<1>0. /\ xfer \in [Members -> [Transfers -> Records]] /\ task \in [Members -> Tasks]
      /\ wire \subseteq [kind : {"transfer", "receipt"}, id : Transfers, source : Members]
      /\ \A v \in wire : TransferOf(v.source, v.id)
  BY Zenon DEF HandoffInv, HandoffTypes
<1>1. PICK m \in Members, x \in Transfers : m = w.source /\ x = w.id
  BY <1>0
<1> DEFINE o     == xfer[m][x]
           copy  == [o EXCEPT !.state = "accepted", !.confirmed = 0]
           reply == [w EXCEPT !.kind = "receipt"]
<1>2. o \in Records /\ o.source = m /\ o.state # "none" /\ RecordSound(m, x)
  BY <1>0, <1>1, Zenon DEF TransferOf, HandoffInv
<1>3. o.target = n /\ n # m
  <2>1. o.target = n
    BY <1>1, Zenon DEF AcceptTransfer
  <2> QED BY <1>2, <2>1 DEF RecordSound
<1>4. /\ copy \in Records /\ copy.state = "accepted" /\ copy.source = m /\ copy.target = n
      /\ SameTransfer(o, copy)
  BY <1>2, <1>3, Zenon DEF Records, States, SameTransfer
<1>5. /\ reply \in [kind : {"transfer", "receipt"}, id : Transfers, source : Members]
      /\ reply.source = m /\ reply.id = x
  BY <1>0, <1>1
<1>6. \/ xfer' = xfer
      \/ \E r \in Reconciled(n) : xfer' = [xfer EXCEPT ![n] = r]
      \/ xfer[n][x] = NoRecord /\ \E r \in Reconciled(n) : xfer' = [xfer EXCEPT ![n] = [r EXCEPT ![x] = copy]]
  BY <1>1, Zenon DEF AcceptTransfer
<1>7. wire' \subseteq wire \cup {reply} /\ task' = task
  BY <1>1 DEF AcceptTransfer
<1>8. Fresh(copy, n, x) \/ xfer[n][x] # NoRecord
  BY <1>1, <1>2, <1>3, <1>4, Zenon DEF Fresh, TransferOf
<1> HIDE DEF copy, reply
<1>9. /\ xfer' \in [Members -> [Transfers -> Records]]
      /\ \A k \in Members, y \in Transfers : Advances(xfer'[k][y], k, y) \/ Fresh(xfer'[k][y], k, y)
  <2>1. CASE xfer' = xfer
    BY <1>0, <2>1, Zenon DEF Advances
  <2>2. ASSUME NEW r \in Reconciled(n),
               \/ xfer' = [xfer EXCEPT ![n] = r]
               \/ xfer[n][x] = NoRecord /\ xfer' = [xfer EXCEPT ![n] = [r EXCEPT ![x] = copy]]
        PROVE  /\ xfer' \in [Members -> [Transfers -> Records]]
               /\ \A k \in Members, y \in Transfers : Advances(xfer'[k][y], k, y) \/ Fresh(xfer'[k][y], k, y)
    <3>1. r \in [Transfers -> Records] /\ \A y \in Transfers : Advances(r[y], n, y)
      BY ReconcileAdvances, Zenon
    <3>2. PICK s \in [Transfers -> Records] :
             /\ xfer' = [xfer EXCEPT ![n] = s]
             /\ \A y \in Transfers : s[y] = r[y] \/ (y = x /\ s[y] = copy /\ xfer[n][x] = NoRecord)
      <4>1. CASE xfer' = [xfer EXCEPT ![n] = r]
        BY <3>1, <4>1, Zenon
      <4>2. CASE xfer[n][x] = NoRecord /\ xfer' = [xfer EXCEPT ![n] = [r EXCEPT ![x] = copy]]
        <5>1. /\ [r EXCEPT ![x] = copy] \in [Transfers -> Records]
              /\ \A y \in Transfers : [r EXCEPT ![x] = copy][y] = IF y = x THEN copy ELSE r[y]
          BY <1>4, <3>1, Zenon
        <5> QED BY <4>2, <5>1, Zenon
      <4> QED BY <2>2, <4>1, <4>2
    <3>3. xfer'[n] = s /\ \A k \in Members : k # n => xfer'[k] = xfer[k]
      BY <1>0, <3>2, Zenon
    <3>4. xfer' \in [Members -> [Transfers -> Records]]
      BY <1>0, <3>2, Zenon
    <3>5. \A y \in Transfers : Advances(s[y], n, y) \/ Fresh(s[y], n, y)
      BY <1>8, <3>1, <3>2, Zenon
    <3> QED BY <3>3, <3>4, <3>5, Zenon DEF Advances
  <2> QED BY <1>6, <2>1, <2>2, Zenon
<1>10. /\ wire' \subseteq [kind : {"transfer", "receipt"}, id : Transfers, source : Members]
       /\ \A v \in wire' : TransferOf(v.source, v.id)
  BY <1>0, <1>1, <1>5, <1>7, Zenon
<1>11. \A k \in Members, y \in Transfers : TransferOf(k, y) => TransferOf(k, y)'
  BY <1>9, RecordsStaySound, Zenon
<1>12. ASSUME NEW k \in Members, task'[k].at # "none"
       PROVE  /\ task'[k].id \in Transfers /\ task'[k].target \in Members \ {k}
              /\ task'[k].at # "frozen" => xfer'[k][task'[k].id].source = k
                                           /\ xfer'[k][task'[k].id].state # "none"
  <2>1. task'[k] = task[k] /\ TaskSound(k)
    BY <1>7, Zenon DEF HandoffInv
  <2>2. task[k].id \in Transfers /\ task[k].target \in Members \ {k}
    BY <1>12, <2>1, Zenon DEF TaskSound
  <2>3. PICK y \in Transfers : y = task[k].id
    BY <2>2
  <2>4. task[k].at # "frozen" => TransferOf(k, y)'
    BY <1>11, <1>12, <2>1, <2>3 DEF TaskSound
  <2> QED BY <2>1, <2>2, <2>3, <2>4, Zenon DEF TransferOf
<1> QED BY <1>0, <1>7, <1>9, <1>10, <1>12, HandoffKeeps, Zenon

\* Every step keeps the transfers sound.
LEMMA HandoffStep == HandoffInv /\ ElectionInv /\ [Next]_rvars => HandoffInv'
<1> SUFFICES ASSUME HandoffInv, ElectionInv, [Next]_rvars PROVE HandoffInv'
  OBVIOUS
<1>0. ElectionInv' /\ TermsGrow
  BY ElectionStep
<1>1. ASSUME NEW m \in Members, UNCHANGED <<xfer, task, wire>> PROVE HandoffInv'
  BY <1>0, <1>1, OtherStepsKeepHandoff, Zenon
<1>2. ASSUME NEW m \in Members, MemberStep(m) PROVE HandoffInv'
  <2>1. CASE Elect(m) \/ Learn(m) \/ Establish(m) \/ Replicate(m) \/ Materialize(m)
             \/ StartController(m) \/ Register(m) \/ Restart(m)
    BY <1>1, <2>1, Zenon DEF Elect, Learn, Establish, Replicate, Materialize, StartController, Register,
       Restart, handoff
  <2>2. CASE (\E e \in {0} \cup Terms : Tick(m, e)) \/ Crash(m) \/ Shutdown(m)
    <3>1. /\ xfer' = xfer \/ \E r \in Reconciled(m) : xfer' = [xfer EXCEPT ![m] = r]
          /\ task' = task \/ task' = [task EXCEPT ![m] = NoTask]
          /\ wire' = wire
      BY <2>2, Zenon DEF Tick, Crash, Shutdown
    <3> QED BY <1>0, <3>1, OtherStepsKeepHandoff, Zenon
  <2>3. CASE \/ \E x \in Transfers, n \in Members : RequestTransfer(m, x, n)
             \/ Prepare(m) \/ Drain(m) \/ Send(m) \/ TargetAccepted(m) \/ TargetElected(m) \/ GiveUp(m)
    BY <1>0, <2>3, RequestKeepsHandoff, Zenon
  <2>4. CASE \E w \in wire : AcceptTransfer(m, w)
    BY <1>0, <2>4, AcceptKeepsHandoff, Zenon
  <2> QED BY <1>2, <2>1, <2>2, <2>3, <2>4, Zenon DEF MemberStep
<1>3. ASSUME NEW m \in Members, NEW p \in Processes, ProcessStep(m, p) PROVE HandoffInv'
  BY <1>1, <1>3, PhaseMoves, Zenon
<1>4. ASSUME NEW m \in Members, NEW w \in writes[m], ClientWrite(m, w) PROVE HandoffInv'
  BY <1>1, <1>4, Zenon DEF ClientWrite, handoff
<1>5. CASE (\E f \in flight : ApplyBatch(f)) \/ UNCHANGED rvars
  <2>1. UNCHANGED <<xfer, task, wire>>
    BY <1>5, Zenon DEF ApplyBatch, rvars, handoff
  <2>2. \E m \in Members : TRUE
    BY ReplicaAssumption
  <2> QED BY <1>1, <2>1, <2>2, Zenon
<1> QED BY <1>2, <1>3, <1>4, <1>5, Zenon DEF Next

\* At first there is no transfer.
LEMMA HandoffInit == Init => HandoffInv
<1> SUFFICES ASSUME Init PROVE HandoffInv
  OBVIOUS
<1>1. NoRecord \in Records /\ NoRecord.state = "none" /\ NoTask \in Tasks /\ NoTask.at = "none"
  BY DEF NoRecord, Records, States, NoTask, Tasks
<1>2. /\ xfer = [m \in Members |-> [x \in Transfers |-> NoRecord]]
      /\ task = [m \in Members |-> NoTask] /\ wire = {}
  BY Zenon DEF Init
<1>3. HandoffTypes
  BY <1>1, <1>2, Zenon DEF HandoffTypes
<1>4. \A m \in Members, x \in Transfers : xfer[m][x] = NoRecord /\ RecordSound(m, x)
  BY <1>1, <1>2 DEF RecordSound
<1>5. \A m \in Members : TaskSound(m)
  BY <1>1, <1>2 DEF TaskSound
<1> QED BY <1>2, <1>3, <1>4, <1>5, Zenon DEF HandoffInv

\* The source of a record its target holds is fenced, or its term is over.
LEMMA SoundIsSilent ==
  ASSUME HandoffInv, ElectionInv
  PROVE  SourceStaysSilent
<1> SUFFICES ASSUME NEW n \in Members, NEW x \in Transfers, xfer[n][x].target = n,
                    CheckEpoch(xfer[n][x].source, xfer[n][x].term)
             PROVE  FALSE
  BY Zenon DEF SourceStaysSilent
<1> DEFINE r == xfer[n][x]
<1>1. RecordSound(n, x) /\ r.term # 0 /\ r.term = Len(leaderOf) /\ ~SourceFenced(r.source)
  BY Zenon DEF HandoffInv, CheckEpoch, CheckConsensus
<1>2. r.state # "none"
  BY <1>1 DEF RecordSound, NoRecord
<1>3. PICK m \in Members : m = r.source /\ TransferOf(m, x) /\ xfer[m][x].term = r.term
  BY <1>1, <1>2, Zenon DEF RecordSound, SameTransfer
<1>4. xfer[m][x].state # "completed"
  <2>1. RecordSound(m, x) /\ Len(leaderOf) \in Nat
    BY CurrentEpochLed, Zenon DEF HandoffInv
  <2>2. xfer[m][x].state = "completed" => r.term < Len(leaderOf)
    BY <1>3, <2>1, Zenon DEF RecordSound
  <2> HIDE DEF r
  <2> QED BY <1>1, <2>1, <2>2
<1>5. x \in Pending(m) /\ xfer[m][x].source = m
  BY <1>3, <1>4, Zenon DEF Pending, Settled, TransferOf
<1> QED BY <1>1, <1>3, <1>5, Zenon DEF SourceFenced

\* Once the target holds a transfer, the source has no authority in the epoch it gave up,
\* whatever is lost, retried or restarted on either side (check_epoch).
THEOREM TransferredSourceSilent == Spec => []SourceStaysSilent
<1>1. Init => ElectionInv /\ HandoffInv
  BY ElectionInit, HandoffInit
<1>2. (ElectionInv /\ HandoffInv) /\ [Next]_rvars => (ElectionInv /\ HandoffInv)'
  BY ElectionStep, HandoffStep
<1>3. ElectionInv /\ HandoffInv => SourceStaysSilent
  BY SoundIsSilent
<1> QED BY <1>1, <1>2, <1>3, PTL DEF Spec

-----------------------------------------------------------------------------
(***************************************************************************)
(* Stores and accepted batches                                             *)
(***************************************************************************)

\* Lengths and counts are numbers.
LEMMA StoreNumbers ==
  ASSUME BatchTypes
  PROVE  /\ Len(accepted) \in Nat
         /\ \A m \in Members : Len(local[m]) \in Nat /\ applied[m] \in Nat
<1>1. accepted \in Seq(Batch)
  BY Zenon DEF BatchTypes
<1>2. local \in [Members -> Seq(Batch)]
  BY Zenon DEF BatchTypes
<1>3. applied \in [Members -> Nat]
  BY Zenon DEF BatchTypes
<1>4. Len(accepted) \in Nat
  BY <1>1
<1>5. \A m \in Members : Len(local[m]) \in Nat
  BY <1>2
<1> QED BY <1>3, <1>4, <1>5, Zenon

\* A step that sends nothing, accepts nothing and leaves the stores alone.
LEMMA StoreKeeps ==
  ASSUME StoreInv, BatchTypes', accepted' = accepted, local' = local,
         \A m \in Members : applied[m] <= applied'[m] /\ applied'[m] <= Len(accepted),
         flight' \subseteq flight, \A n \in Members : writes'[n] \subseteq writes[n],
         \A m \in Members, p \in Processes :
            /\ p \notin 1 .. Len(journal'[m]) => p \notin 1 .. Len(journal[m])
            /\ child'[m][p] \in {"boot", "ready"} => Unsent(<<m, p>>)
            /\ child'[m][p] \in {"waiting", "confirmed"} => child'[m][p] = child[m][p]
  PROVE  StoreInv'
<1>1. \A b : Unsent(b) => Unsent(b)'
  BY Zenon DEF Unsent
<1>2. \A b, s : MadeFrom(b, s) => MadeFrom(b, s)'
  BY Zenon DEF MadeFrom
<1>3. ASSUME NEW m \in Members PROVE StoreWithin(m)'
  <2>1. StoreWithin(m)
    BY DEF StoreInv
  <2>2. /\ Len(local[m]) \in Nat /\ Len(accepted) \in Nat /\ applied[m] \in Nat /\ applied'[m] \in Nat
    BY StoreNumbers, Zenon DEF StoreInv, BatchTypes
  <2>3. Len(local[m]) <= applied'[m] /\ applied'[m] <= Len(accepted)
    BY <2>1, <2>2 DEF StoreWithin
  <2> QED BY <2>1, <2>3, Zenon DEF StoreWithin
<1>4. ASSUME NEW m \in Members, NEW p \in Processes PROVE BatchSound(m, p)'
  <2>1. BatchSound(m, p)
    BY DEF StoreInv
  <2>2. p \notin 1 .. Len(journal'[m]) => Unsent(<<m, p>>)'
    BY <1>1, <2>1, Zenon DEF BatchSound
  <2>3. child'[m][p] \in {"boot", "ready"} => Unsent(<<m, p>>)'
    BY <1>1, Zenon
  <2>4. child'[m][p] = "waiting" => MadeFrom(<<m, p>>, local[m])'
    <3>1. PICK s : s = local[m]
      OBVIOUS
    <3>2. child'[m][p] = "waiting" => MadeFrom(<<m, p>>, s)'
      BY <1>2, <2>1, <3>1, Zenon DEF BatchSound
    <3> QED BY <3>1, <3>2
  <2>5. child'[m][p] = "confirmed" =>
           Len(local'[m]) < applied'[m] /\ accepted'[Len(local'[m]) + 1] = <<m, p>>
    <3>1. child'[m][p] = "confirmed" =>
             Len(local[m]) < applied[m] /\ accepted[Len(local[m]) + 1] = <<m, p>>
      BY <2>1, Zenon DEF BatchSound
    <3>2. Len(local[m]) \in Nat /\ applied[m] \in Nat /\ applied'[m] \in Nat /\ applied[m] <= applied'[m]
      BY StoreNumbers, Zenon DEF StoreInv, BatchTypes
    <3> QED BY <3>1, <3>2
  <2> QED BY <2>2, <2>3, <2>4, <2>5, Zenon DEF BatchSound
<1> QED BY <1>3, <1>4, Zenon DEF StoreInv

\* Only one process of a member is past its boot: the others neither wait nor commit.
LEMMA OneWorks ==
  ASSUME ProcessInv, NEW m \in Members, NEW p \in Processes, NEW q \in Processes,
         child[m][p] \notin {"none", "boot"}, child[m][q] \notin {"none", "boot"}
  PROVE  p = q
  BY OneIsEnough DEF OneProcess, Runs

\* client_write moves a commit from the member's memory into flight, as it is.
LEMMA ClientWriteKeepsStore ==
  ASSUME StoreInv, ElectionInv, NEW m \in Members, NEW w \in writes[m], ClientWrite(m, w)
  PROVE  StoreInv'
<1>0. /\ writes \in [Members -> SUBSET Requests] /\ flight \subseteq Entries
  BY Zenon DEF StoreInv, BatchTypes
<1> DEFINE e == [term |-> CurrentEpoch(m), base |-> w.base, id |-> w.id]
<1>1. /\ UNCHANGED <<accepted, applied, local, child, journal>>
      /\ writes' = [writes EXCEPT ![m] = writes[m] \ {w}]
      /\ flight' \subseteq flight \cup {e}
  BY Zenon DEF ClientWrite
<1>2. w \in Requests
  BY <1>0
<1>3. e \in Entries /\ e.id = w.id /\ e.base = w.base
  BY <1>2, CurrentEpochLed DEF Requests, Entries
<1> HIDE DEF e
<1>4. \A n \in Members : writes'[n] \subseteq writes[n]
  BY <1>0, <1>1, Zenon
<1>5. BatchTypes'
  <2>1. writes' \in [Members -> SUBSET Requests]
    BY <1>0, <1>1, Zenon
  <2>2. flight' \subseteq Entries
    BY <1>0, <1>1, <1>3, Zenon
  <2> QED BY <1>1, <2>1, <2>2, Zenon DEF StoreInv, BatchTypes
<1>6. \A b : Unsent(b) => Unsent(b)'
  BY <1>1, <1>3, <1>4, Zenon DEF Unsent
<1>7. \A b, s : MadeFrom(b, s) => MadeFrom(b, s)'
  BY <1>1, <1>3, <1>4, Zenon DEF MadeFrom
<1>8. \A n \in Members : StoreWithin(n)'
  BY <1>1, Zenon DEF StoreInv, StoreWithin
<1>9. ASSUME NEW n \in Members, NEW p \in Processes PROVE BatchSound(n, p)'
  <2>1. BatchSound(n, p)
    BY Zenon DEF StoreInv
  <2>2. PICK s : s = local[n]
    OBVIOUS
  <2>3. child'[n][p] = "waiting" => MadeFrom(<<n, p>>, s)'
    BY <1>1, <1>7, <2>1, <2>2, Zenon DEF BatchSound
  <2> QED BY <1>1, <1>6, <2>1, <2>2, <2>3, Zenon DEF BatchSound
<1> QED BY <1>5, <1>8, <1>9, Zenon DEF StoreInv

\* apply_batch_context accepts a batch right behind the state it was made from.
LEMMA ApplyKeepsStore ==
  ASSUME StoreInv, NEW f \in flight, ApplyBatch(f)
  PROVE  StoreInv'
<1>0. /\ flight \subseteq Entries /\ accepted \in Seq(Batch) /\ f \in Entries
  BY Zenon DEF StoreInv, BatchTypes
<1>1. /\ UNCHANGED <<applied, local, child, writes, journal>> /\ flight' \subseteq flight
      /\ accepted' = IF Accepts(f) THEN Append(accepted, f.id) ELSE accepted
  BY Zenon DEF ApplyBatch, process
<1>2. Len(accepted) \in Nat /\ \A m \in Members : Len(local[m]) \in Nat /\ applied[m] \in Nat
  BY StoreNumbers, Zenon DEF StoreInv
<1>3. CASE ~Accepts(f)
  <2>1. accepted' = accepted /\ BatchTypes'
    BY <1>1, <1>3, Zenon DEF StoreInv, BatchTypes
  <2>2. \A m \in Members : applied[m] <= applied'[m] /\ applied'[m] <= Len(accepted)
    <3>1. \A m \in Members : applied[m] <= Len(accepted)
      BY Zenon DEF StoreInv, StoreWithin
    <3> QED BY <1>1, <1>2, <3>1
  <2> QED BY <1>1, <2>1, <2>2, StoreKeeps, Zenon DEF StoreInv, BatchSound
<1>4. CASE Accepts(f)
  <2>1. accepted' = Append(accepted, f.id) /\ f.base = accepted /\ f.id \in Batch
    BY <1>0, <1>1, <1>4 DEF Accepts, Entries
  <2>2. /\ accepted' \in Seq(Batch) /\ Len(accepted') = Len(accepted) + 1
        /\ accepted'[Len(accepted) + 1] = f.id
        /\ \A k \in 1 .. Len(accepted) : accepted'[k] = accepted[k]
    BY <1>0, <2>1
  <2>3. BatchTypes'
    BY <1>1, <2>2, Zenon DEF StoreInv, BatchTypes
  <2>4. \A k \in 1 .. Len(accepted') : k \in 1 .. Len(accepted) \/ k = Len(accepted) + 1
    BY <1>2, <2>2
  <2>5. ASSUME NEW m \in Members PROVE StoreWithin(m)'
    <3>1. StoreWithin(m)
      BY Zenon DEF StoreInv
    <3>2. applied[m] <= Len(accepted')
      BY <1>2, <2>2, <3>1 DEF StoreWithin
    <3>3. \A k \in 1 .. Len(local[m]) : k \in 1 .. Len(accepted)
      BY <1>2, <3>1 DEF StoreWithin
    <3> QED BY <1>1, <2>2, <3>1, <3>2, <3>3, Zenon DEF StoreWithin
  <2>6. \A b : Unsent(b) => Unsent(b)'
    BY <1>1, <2>2, <2>4, Zenon DEF Unsent
  <2>7. ASSUME NEW b, NEW s, MadeFrom(b, s) PROVE MadeFrom(b, s)'
    <3>1. f.id = b => Len(s) = Len(accepted)
      BY <2>1, <2>7, Zenon DEF MadeFrom
    <3>2. \A k \in 1 .. Len(accepted') : accepted'[k] = b => k = Len(s) + 1
      BY <2>2, <2>4, <2>7, <3>1, Zenon DEF MadeFrom
    <3> QED BY <1>1, <2>7, <3>2, Zenon DEF MadeFrom
  <2>8. ASSUME NEW n \in Members, NEW p \in Processes PROVE BatchSound(n, p)'
    <3>1. BatchSound(n, p)
      BY Zenon DEF StoreInv
    <3>2. PICK s : s = local[n]
      OBVIOUS
    <3>3. child'[n][p] = "waiting" => MadeFrom(<<n, p>>, s)'
      BY <1>1, <2>7, <3>1, <3>2, Zenon DEF BatchSound
    <3>4. Len(local[n]) < applied[n] => Len(local[n]) + 1 \in 1 .. Len(accepted)
      <4>1. applied[n] <= Len(accepted)
        BY Zenon DEF StoreInv, StoreWithin
      <4> QED BY <1>2, <4>1
    <3> QED BY <1>1, <2>2, <2>6, <3>1, <3>2, <3>3, <3>4, Zenon DEF BatchSound
  <2> QED BY <2>3, <2>5, <2>8, Zenon DEF StoreInv
<1> QED BY <1>3, <1>4

\* The view of a member is the accepted batches it applied.
LEMMA ViewFacts ==
  ASSUME StoreInv, NEW m \in Members
  PROVE  /\ View(m) \in Seq(Batch) /\ Len(View(m)) = applied[m]
         /\ DOMAIN View(m) = 1 .. applied[m]
         /\ \A k \in 1 .. applied[m] : View(m)[k] = accepted[k]
<1>1. accepted \in Seq(Batch) /\ applied[m] \in Nat /\ applied[m] <= Len(accepted)
  BY StoreNumbers, Zenon DEF StoreInv, BatchTypes, StoreWithin
<1> QED BY <1>1 DEF View

\* begin_batch sends the first batch of a process, made from the store it works on.
LEMMA CommitKeepsStore ==
  ASSUME StoreInv, ProcessInv, NEW m \in Members, NEW p \in Processes, CommitBatch(m, p)
  PROVE  StoreInv'
<1>0. /\ writes \in [Members -> SUBSET Requests] /\ local[m] \in Seq(Batch)
      /\ child \in [Members -> [Processes -> ChildPhase]]
  BY Zenon DEF StoreInv, BatchTypes, ProcessInv, ProcessTypes
<1> DEFINE b == <<m, p>>
           w == [id |-> b, base |-> local[m]]
<1>1. /\ child[m][p] = "ready" /\ child' = [child EXCEPT ![m][p] = "waiting"]
      /\ writes' = [writes EXCEPT ![m] = writes[m] \cup {w}]
      /\ UNCHANGED <<accepted, applied, local, flight, journal>>
  BY Zenon DEF CommitBatch, Moves, raft
<1>2. w \in Requests /\ w.id = b /\ w.base = local[m]
  BY <1>0 DEF Requests, Batch
<1> HIDE DEF w
<1>3. Unsent(b)
  BY <1>1 DEF StoreInv, BatchSound
<1>4. /\ writes'[m] = writes[m] \cup {w} /\ \A n \in Members : n # m => writes'[n] = writes[n]
      /\ writes' \in [Members -> SUBSET Requests]
  BY <1>0, <1>1, <1>2, Zenon
<1>5. BatchTypes'
  BY <1>1, <1>4, Zenon DEF StoreInv, BatchTypes
<1>6. \A n \in Members, q \in Processes :
         child'[n][q] = IF n = m /\ q = p THEN "waiting" ELSE child[n][q]
  BY <1>0, <1>1
<1>7. \A n \in Members, q \in Processes : Unsent(<<n, q>>) /\ <<n, q>> # b => Unsent(<<n, q>>)'
  BY <1>1, <1>2, <1>4, Zenon DEF Unsent
<1>8. \A s, n, q : MadeFrom(<<n, q>>, s) /\ <<n, q>> # b => MadeFrom(<<n, q>>, s)'
  BY <1>1, <1>2, <1>4, Zenon DEF MadeFrom
<1>9. \A n \in Members : StoreWithin(n)'
  BY <1>1, Zenon DEF StoreInv, StoreWithin
<1>10. ASSUME NEW n \in Members, NEW q \in Processes PROVE BatchSound(n, q)'
  <2>1. BatchSound(n, q)
    BY Zenon DEF StoreInv
  <2>2. CASE n = m /\ q = p
    <3>1. p \in 1 .. Len(journal[m])
      BY <1>1 DEF ProcessInv, RunningUnwaited, Runs
    <3>2. PICK s : s = local[m]
      OBVIOUS
    <3>3. MadeFrom(b, s)'
      BY <1>1, <1>2, <1>3, <1>4, <3>2, Zenon DEF MadeFrom, Unsent
    <3>4. child'[n][q] = "waiting" /\ p \in 1 .. Len(journal'[m])
      BY <1>1, <1>6, <2>2, <3>1, Zenon
    <3> QED BY <1>1, <2>2, <3>2, <3>3, <3>4 DEF BatchSound
  <2>3. CASE ~(n = m /\ q = p)
    <3>1. <<n, q>> # b /\ child'[n][q] = child[n][q]
      BY <1>6, <2>3
    <3>2. PICK s : s = local[n]
      OBVIOUS
    <3>3. child'[n][q] = "waiting" => MadeFrom(<<n, q>>, s)'
      BY <1>8, <2>1, <3>1, <3>2, Zenon DEF BatchSound
    <3> HIDE DEF b
    <3> QED BY <1>1, <1>7, <2>1, <3>1, <3>2, <3>3, Zenon DEF BatchSound
  <2> QED BY <2>2, <2>3
<1> QED BY <1>5, <1>9, <1>10, Zenon DEF StoreInv

\* An accepted receipt names the batch right behind the store.
LEMMA ConfirmKeepsStore ==
  ASSUME StoreInv, ProcessInv, NEW m \in Members, NEW p \in Processes, ConfirmBatch(m, p)
  PROVE  StoreInv'
<1>0. child \in [Members -> [Processes -> ChildPhase]]
  BY Zenon DEF ProcessInv, ProcessTypes
<1>1. /\ child[m][p] = "waiting" /\ child' = [child EXCEPT ![m][p] = "confirmed"]
      /\ <<m, p>> \in Range(View(m))
      /\ UNCHANGED <<accepted, applied, local, flight, writes, journal>>
  BY Zenon DEF ConfirmBatch, Moves, raft
<1>2. PICK k \in 1 .. applied[m] : accepted[k] = <<m, p>>
  BY <1>1, ViewFacts, Zenon DEF Range
<1>3. MadeFrom(<<m, p>>, local[m])
  BY <1>1 DEF StoreInv, BatchSound
<1>4. Len(local[m]) < applied[m] /\ accepted[Len(local[m]) + 1] = <<m, p>>
  <2>1. Len(accepted) \in Nat /\ Len(local[m]) \in Nat /\ applied[m] \in Nat /\ applied[m] <= Len(accepted)
    BY StoreNumbers, Zenon DEF StoreInv, StoreWithin
  <2>2. k \in 1 .. Len(accepted)
    BY <2>1
  <2>3. k = Len(local[m]) + 1
    BY <1>2, <1>3, <2>2, Zenon DEF MadeFrom
  <2> QED BY <1>2, <2>1, <2>3
<1>5. \A n \in Members, q \in Processes :
         child'[n][q] = IF n = m /\ q = p THEN "confirmed" ELSE child[n][q]
  BY <1>0, <1>1
<1>6. BatchTypes' /\ \A n \in Members : StoreWithin(n)'
  BY <1>1, Zenon DEF StoreInv, BatchTypes, StoreWithin
<1>7. ASSUME NEW n \in Members, NEW q \in Processes PROVE BatchSound(n, q)'
  <2>1. BatchSound(n, q)
    BY Zenon DEF StoreInv
  <2>2. CASE n = m /\ q = p
    <3>1. child'[n][q] = "confirmed"
      BY <1>5, <2>2, Zenon
    <3> QED BY <1>1, <1>4, <2>1, <2>2, <3>1 DEF BatchSound, Unsent
  <2>3. CASE ~(n = m /\ q = p)
    <3>1. child'[n][q] = child[n][q]
      BY <1>5, <2>3, Zenon
    <3> QED BY <1>1, <2>1, <3>1, Zenon DEF BatchSound, Unsent, MadeFrom
  <2> QED BY <2>2, <2>3
<1> QED BY <1>6, <1>7, Zenon DEF StoreInv

\* A store that changes while no other process of its member works on it.
LEMMA NewStoreKeeps ==
  ASSUME StoreInv, ProcessInv, NEW m \in Members, NEW s \in Seq(Batch),
         local' = [local EXCEPT ![m] = s],
         UNCHANGED <<accepted, applied, flight, writes, journal>>,
         Len(s) <= applied[m], \A k \in 1 .. Len(s) : s[k] = accepted[k],
         \A n \in Members, q \in Processes :
            /\ child'[n][q] = child[n][q] \/ child'[n][q] = "done"
            /\ n = m => child'[n][q] \notin {"waiting", "confirmed"}
  PROVE  StoreInv'
<1>0. local \in [Members -> Seq(Batch)]
  BY Zenon DEF StoreInv, BatchTypes
<1>1. /\ local'[m] = s /\ \A n \in Members : n # m => local'[n] = local[n]
      /\ local' \in [Members -> Seq(Batch)]
  BY <1>0, Zenon
<1>2. BatchTypes'
  BY <1>1, Zenon DEF StoreInv, BatchTypes
<1>3. \A n \in Members : StoreWithin(n)'
  BY <1>1, Zenon DEF StoreInv, StoreWithin
<1>4. ASSUME NEW n \in Members, NEW q \in Processes PROVE BatchSound(n, q)'
  <2>1. BatchSound(n, q)
    BY Zenon DEF StoreInv
  <2>2. /\ q \notin 1 .. Len(journal'[n]) => Unsent(<<n, q>>)'
        /\ child'[n][q] \in {"boot", "ready"} => Unsent(<<n, q>>)'
    <3>1. Unsent(<<n, q>>) => Unsent(<<n, q>>)'
      BY Zenon DEF Unsent
    <3>2. child'[n][q] \in {"boot", "ready"} => child[n][q] \in {"boot", "ready"}
      OBVIOUS
    <3> QED BY <2>1, <3>1, <3>2, Zenon DEF BatchSound
  <2>3. CASE n = m
    BY <2>2, <2>3 DEF BatchSound
  <2>4. CASE n # m
    <3>1. local'[n] = local[n]
      BY <1>1, <2>4, Zenon
    <3>2. child'[n][q] \in {"waiting", "confirmed"} => child'[n][q] = child[n][q]
      OBVIOUS
    <3>3. child'[n][q] = "waiting" => MadeFrom(<<n, q>>, local[n])'
      BY <2>1, <3>1, <3>2, Zenon DEF BatchSound, MadeFrom
    <3>4. child'[n][q] = "confirmed" =>
             Len(local'[n]) < applied'[n] /\ accepted'[Len(local'[n]) + 1] = <<n, q>>
      BY <2>1, <3>1, <3>2, Zenon DEF BatchSound
    <3> QED BY <2>2, <3>3, <3>4, Zenon DEF BatchSound
  <2> QED BY <2>3, <2>4
<1> QED BY <1>2, <1>3, <1>4, Zenon DEF StoreInv

\* The local transaction follows the accepted batch it confirmed.
LEMMA LocalCommitKeepsStore ==
  ASSUME StoreInv, ProcessInv, NEW m \in Members, NEW p \in Processes, LocalCommit(m, p)
  PROVE  StoreInv' /\ Len(local'[m]) = Len(local[m]) + 1 /\ \A n \in Members : n # m => local'[n] = local[n]
<1>0. /\ local \in [Members -> Seq(Batch)] /\ child \in [Members -> [Processes -> ChildPhase]]
  BY Zenon DEF StoreInv, BatchTypes, ProcessInv, ProcessTypes
<1> DEFINE s == Append(local[m], <<m, p>>)
<1>1. /\ child[m][p] = "confirmed" /\ child' = [child EXCEPT ![m][p] = "done"]
      /\ local' = [local EXCEPT ![m] = s]
      /\ UNCHANGED <<accepted, applied, flight, writes, journal>>
  BY Zenon DEF LocalCommit, Moves, raft
<1>2. /\ s \in Seq(Batch) /\ Len(s) = Len(local[m]) + 1 /\ s[Len(local[m]) + 1] = <<m, p>>
      /\ \A k \in 1 .. Len(local[m]) : s[k] = local[m][k]
  <2>1. local[m] \in Seq(Batch) /\ <<m, p>> \in Batch
    BY <1>0 DEF Batch
  <2> QED BY <2>1
<1> HIDE DEF s
<1>3. Len(local[m]) < applied[m] /\ accepted[Len(local[m]) + 1] = <<m, p>>
  BY <1>1, Zenon DEF StoreInv, BatchSound
<1>4. Len(local[m]) \in Nat /\ applied[m] \in Nat
  BY StoreNumbers, Zenon DEF StoreInv
<1>5. Len(s) <= applied[m]
  BY <1>2, <1>3, <1>4
<1>6. \A k \in 1 .. Len(s) : s[k] = accepted[k]
  <2>1. \A k \in 1 .. Len(s) : k \in 1 .. Len(local[m]) \/ k = Len(local[m]) + 1
    BY <1>2, <1>4
  <2>2. \A k \in 1 .. Len(local[m]) : local[m][k] = accepted[k]
    BY Zenon DEF StoreInv, StoreWithin
  <2> QED BY <1>2, <1>3, <2>1, <2>2, Zenon
<1>7. ASSUME NEW n \in Members, NEW q \in Processes
      PROVE  /\ child'[n][q] = child[n][q] \/ child'[n][q] = "done"
             /\ n = m => child'[n][q] \notin {"waiting", "confirmed"}
  <2>1. child'[n][q] = IF n = m /\ q = p THEN "done" ELSE child[n][q]
    BY <1>0, <1>1
  <2>2. n = m /\ q # p => child[n][q] \in {"none", "boot"}
    BY <1>1, OneWorks
  <2> QED BY <2>1, <2>2
<1> QED BY <1>0, <1>1, <1>2, <1>5, <1>6, <1>7, NewStoreKeeps, Zenon

\* materialize replaces a store that no process has open by the member's view, which does
\* not go back behind it.
LEMMA MaterializeKeepsStore ==
  ASSUME StoreInv, ProcessInv, NEW m \in Members, ~HoldsLease(m), IsPrefix(local[m], View(m)),
         local' = [local EXCEPT ![m] = View(m)],
         UNCHANGED <<accepted, applied, flight, writes, journal, child>>
  PROVE  StoreInv' /\ local'[m] = View(m) /\ Len(local'[m]) = applied[m]
         /\ \A n \in Members : n # m => local'[n] = local[n]
<1>0. local \in [Members -> Seq(Batch)]
  BY Zenon DEF StoreInv, BatchTypes
<1>1. PICK s \in Seq(Batch) : s = View(m) /\ Len(s) = applied[m] /\ \A k \in 1 .. applied[m] : s[k] = accepted[k]
  BY ViewFacts, Zenon
<1>2. Len(s) <= applied[m] /\ \A k \in 1 .. Len(s) : s[k] = accepted[k]
  BY <1>1, StoreNumbers DEF StoreInv
<1>3. \A n \in Members, q \in Processes :
         /\ child'[n][q] = child[n][q] \/ child'[n][q] = "done"
         /\ n = m => child'[n][q] \notin {"waiting", "confirmed"}
  BY DEF HoldsLease
<1>4. local' = [local EXCEPT ![m] = s]
  BY <1>1, Zenon
<1>5. StoreInv'
  BY <1>2, <1>3, <1>4, NewStoreKeeps, Zenon
<1> QED BY <1>0, <1>1, <1>4, <1>5, Zenon

\* What the supervisor does to processes and memory sends no batch.
LEMMA SupervisorKeepsStore ==
  ASSUME StoreInv, ProcessInv, NEW m \in Members,
         UNCHANGED <<accepted, applied, local, flight>>,
         writes' = writes \/ writes' = [writes EXCEPT ![m] = {}],
         JournalKept \/ JournalGrew(m),
         \A n \in Members, q \in Processes :
            \/ child'[n][q] \in {"none", child[n][q]}
            \/ child'[n][q] = "boot" /\ q \notin 1 .. Len(journal[n])
  PROVE  StoreInv'
<1>0. writes \in [Members -> SUBSET Requests]
  BY Zenon DEF StoreInv, BatchTypes
<1>1. writes' \in [Members -> SUBSET Requests] /\ \A n \in Members : writes'[n] \subseteq writes[n]
  BY <1>0, Zenon
<1>2. BatchTypes'
  BY <1>1, Zenon DEF StoreInv, BatchTypes
<1>3. \A n \in Members : applied[n] <= applied'[n] /\ applied'[n] <= Len(accepted)
  <2>1. \A n \in Members : applied[n] \in Nat /\ applied[n] <= Len(accepted)
    BY StoreNumbers, Zenon DEF StoreInv, StoreWithin
  <2> QED BY <2>1
<1>4. \A n \in Members : \A q : q \notin 1 .. Len(journal'[n]) => q \notin 1 .. Len(journal[n])
  <2>1. \A n \in Members : Len(journal[n]) \in Nat
                           /\ Len(journal'[n]) \in {Len(journal[n]), Len(journal[n]) + 1}
    BY JournalLength DEF JournalKept, JournalGrew
  <2> QED BY <2>1
<1>5. ASSUME NEW n \in Members, NEW q \in Processes
      PROVE  /\ child'[n][q] \in {"boot", "ready"} => Unsent(<<n, q>>)
             /\ child'[n][q] \in {"waiting", "confirmed"} => child'[n][q] = child[n][q]
  <2>1. BatchSound(n, q)
    BY Zenon DEF StoreInv
  <2> QED BY <2>1 DEF BatchSound
<1> QED BY <1>1, <1>2, <1>3, <1>4, <1>5, StoreKeeps, Zenon

\* stop_controller only ends processes.
LEMMA StopChild ==
  ASSUME ProcessInv, NEW m \in Members, Stop(m)
  PROVE  \A n \in Members, q \in Processes : child'[n][q] \in {"none", child[n][q]}
<1>1. child \in [Members -> [Processes -> ChildPhase]]
  BY Zenon DEF ProcessInv, ProcessTypes
<1>2. PICK p : child' = child \/ child' = [child EXCEPT ![m][p] = "none"]
  BY Zenon DEF Stop
<1> QED BY <1>1, <1>2

\* A shutdown records the exit of the process it reaps, and changes no other record.
LEMMA ShutdownJournal ==
  ASSUME ProcessInv, NEW m \in Members, Shutdown(m)
  PROVE  JournalKept
<1>1. sup \in [Members -> SupStates] /\ Stop(m) /\ sup' = [sup EXCEPT ![m] = [Idle EXCEPT !.at = "down"]]
  BY Zenon DEF ProcessInv, ProcessTypes, Shutdown
<1> DEFINE d == [Idle EXCEPT !.at = "down"]
<1>2. d \in SupStates /\ d.owned = 0
  BY DEF Idle, SupStates, SupPhase
<1>3. sup' \in [Members -> SupStates] /\ \A n \in Members : sup'[n].owned \in {0, sup[n].owned}
  BY <1>1, <1>2, Zenon
<1> QED BY <1>1, <1>3, StopKeeps, Zenon

\* The supervisor's steps leave the accepted batches and every store alone, except for the
\* projection.
LEMMA SupervisorStore ==
  ASSUME StoreInv, ProcessInv, NEW m \in Members,
         \/ \E e \in {0} \cup Terms : Tick(m, e)
         \/ Materialize(m) \/ StartController(m) \/ Register(m) \/ Crash(m) \/ Shutdown(m)
  PROVE  StoreInv'
<1>a. child \in [Members -> [Processes -> ChildPhase]]
  BY Zenon DEF ProcessInv, ProcessTypes
<1>0. ASSUME UNCHANGED <<child, journal>> PROVE JournalKept
  BY <1>0, Zenon DEF JournalKept
<1>1. ASSUME NEW e \in {0} \cup Terms, Tick(m, e) PROVE StoreInv'
  <2>1. UNCHANGED <<accepted, applied, local, flight, writes>>
    BY <1>1, Zenon DEF Tick, raft
  <2>2. CASE UNCHANGED <<child, journal>>
    BY <1>0, <2>1, <2>2, SupervisorKeepsStore, Zenon
  <2>3. CASE Stop(m)
    <3>1. JournalKept
      <4>1. sup' \in [Members -> SupStates]
        BY <1>1, TickShape, Zenon
      <4>2. \A n \in Members : sup'[n].owned \in {0, sup[n].owned}
        BY <1>1, TickShape, Zenon
      <4> QED BY <2>3, <4>1, <4>2, StopKeeps, Zenon
    <3> QED BY <2>1, <2>3, <3>1, StopChild, SupervisorKeepsStore, Zenon
  <2> QED BY <1>1, <2>2, <2>3, TickShape, Zenon
<1>2. CASE Materialize(m)
  <2>1. UNCHANGED <<accepted, applied, flight, writes, journal, child>>
    BY <1>2, Zenon DEF Materialize, raft
  <2>2. CASE local' = local
    BY <1>0, <2>1, <2>2, SupervisorKeepsStore, Zenon
  <2>3. CASE local' # local
    <3>1. ~HoldsLease(m) /\ IsPrefix(local[m], View(m)) /\ local' = [local EXCEPT ![m] = View(m)]
      BY <1>2, <2>3, Zenon DEF Materialize
    <3> QED BY <2>1, <3>1, MaterializeKeepsStore, Zenon
  <2> QED BY <2>2, <2>3, Zenon
<1>3. CASE StartController(m)
  <2>1. UNCHANGED <<accepted, applied, local, flight, writes>>
    BY <1>3, Zenon DEF StartController, raft
  <2>2. CASE UNCHANGED <<child, journal>>
    BY <1>0, <2>1, <2>2, SupervisorKeepsStore, Zenon
  <2>3. CASE /\ JournalGrew(m)
             /\ child' = child \/ child' = [child EXCEPT ![m][Len(journal[m]) + 1] = "boot"]
    <3>1. PICK k : k = Len(journal[m]) + 1 /\ k \notin 1 .. Len(journal[m])
      BY JournalLength
    <3>2. child' = child \/ child' = [child EXCEPT ![m][k] = "boot"]
      BY <2>3, <3>1, Zenon
    <3>3. \A n \in Members, q \in Processes :
             \/ child'[n][q] = child[n][q]
             \/ child'[n][q] = "boot" /\ n = m /\ q = k
      BY <1>a, <3>2
    <3>4. \A n \in Members, q \in Processes :
             \/ child'[n][q] \in {"none", child[n][q]}
             \/ child'[n][q] = "boot" /\ q \notin 1 .. Len(journal[n])
      BY <3>1, <3>3, Zenon
    <3> QED BY <2>1, <2>3, <3>4, SupervisorKeepsStore, Zenon
  <2> QED BY <1>3, <2>2, <2>3, StartKeeps, Zenon
<1>4. CASE Register(m)
  <2>1. UNCHANGED <<accepted, applied, local, flight, writes>>
    BY <1>4, Zenon DEF Register, raft
  <2>2. PICK k : child' = child \/ child' = [child EXCEPT ![m][k] = "none"]
    BY <1>4, Zenon DEF Register
  <2>3. \A n \in Members, q \in Processes : child'[n][q] \in {"none", child[n][q]}
    BY <1>a, <2>2
  <2>4. JournalKept
    BY <1>4, RegisterKeeps, Zenon
  <2> QED BY <2>1, <2>3, <2>4, SupervisorKeepsStore, Zenon
<1>5. CASE Crash(m)
  <2>1. UNCHANGED <<accepted, applied, local, flight, child, journal>>
        /\ writes' = [writes EXCEPT ![m] = {}]
    BY <1>5, Zenon DEF Crash, raft
  <2> QED BY <1>0, <2>1, SupervisorKeepsStore, Zenon
<1>6. CASE Shutdown(m)
  <2>1. UNCHANGED <<accepted, applied, local, flight>> /\ writes' = [writes EXCEPT ![m] = {}]
    BY <1>6, Zenon DEF Shutdown, raft
  <2>2. Stop(m)
    BY <1>6, Zenon DEF Shutdown
  <2>3. JournalKept
    BY <1>6, <2>2, ShutdownJournal, Zenon
  <2> QED BY <2>1, <2>2, <2>3, StopChild, SupervisorKeepsStore, Zenon
<1> QED BY <1>1, <1>2, <1>3, <1>4, <1>5, <1>6, Zenon

\* What a process does apart from sending and writing its batch.
LEMMA ProcessStore ==
  ASSUME StoreInv, ProcessInv, NEW m \in Members, NEW p \in Processes, ProcessStep(m, p)
  PROVE  StoreInv'
<1>a. child \in [Members -> [Processes -> ChildPhase]]
  BY Zenon DEF ProcessInv, ProcessTypes
<1>1. CASE CommitBatch(m, p)
  BY <1>1, CommitKeepsStore, Zenon
<1>2. CASE ConfirmBatch(m, p)
  BY <1>2, ConfirmKeepsStore, Zenon
<1>3. CASE LocalCommit(m, p)
  BY <1>3, LocalCommitKeepsStore, Zenon
<1>4. CASE OpenStore(m, p) \/ RollBackBatch(m, p) \/ ProcessDies(m, p)
  <2>1. UNCHANGED <<accepted, applied, local, flight, writes, journal>>
    BY <1>4, Zenon DEF OpenStore, RollBackBatch, ProcessDies, raft
  <2>2. PICK to \in {"none", "ready", "done"} :
           child' = [child EXCEPT ![m][p] = to] /\ (to = "ready" => child[m][p] = "boot")
    BY <1>4, Zenon DEF OpenStore, RollBackBatch, ProcessDies, Moves
  <2>3. \A n \in Members, q \in Processes :
           child'[n][q] = IF n = m /\ q = p THEN to ELSE child[n][q]
    BY <1>a, <2>2
  <2>4. ASSUME NEW n \in Members, NEW q \in Processes
        PROVE  /\ child'[n][q] \in {"boot", "ready"} => Unsent(<<n, q>>)
               /\ child'[n][q] \in {"waiting", "confirmed"} => child'[n][q] = child[n][q]
    <3>1. BatchSound(n, q)
      BY Zenon DEF StoreInv
    <3> QED BY <2>2, <2>3, <3>1 DEF BatchSound
  <2>5. BatchTypes'
    BY <2>1, Zenon DEF StoreInv, BatchTypes
  <2>6. \A n \in Members : applied[n] <= applied'[n] /\ applied'[n] <= Len(accepted)
    <3>1. \A n \in Members : applied[n] \in Nat /\ applied[n] <= Len(accepted)
      BY StoreNumbers, Zenon DEF StoreInv, StoreWithin
    <3> QED BY <2>1, <3>1
  <2> QED BY <2>1, <2>4, <2>5, <2>6, StoreKeeps, Zenon
<1> QED BY <1>1, <1>2, <1>3, <1>4, Zenon DEF ProcessStep

\* Every step keeps the stores behind the accepted batches.
LEMMA StoreStep == StoreInv /\ ProcessInv /\ ElectionInv /\ [Next]_rvars => StoreInv'
<1> SUFFICES ASSUME StoreInv, ProcessInv, ElectionInv, [Next]_rvars PROVE StoreInv'
  OBVIOUS
<1>0. ASSUME UNCHANGED <<accepted, applied, local, flight, writes, child, journal>> PROVE StoreInv'
  <2>1. BatchTypes'
    BY <1>0, Zenon DEF StoreInv, BatchTypes
  <2>2. \A m \in Members : applied[m] <= applied'[m] /\ applied'[m] <= Len(accepted)
    <3>1. \A m \in Members : applied[m] \in Nat /\ applied[m] <= Len(accepted)
      BY StoreNumbers, Zenon DEF StoreInv, StoreWithin
    <3> QED BY <1>0, <3>1
  <2>3. \A m \in Members, p \in Processes : child[m][p] \in {"boot", "ready"} => Unsent(<<m, p>>)
    BY Zenon DEF StoreInv, BatchSound
  <2> QED BY <1>0, <2>1, <2>2, <2>3, StoreKeeps, Zenon
<1>1. ASSUME NEW m \in Members, MemberStep(m) PROVE StoreInv'
  <2>1. CASE Elect(m) \/ Learn(m) \/ Restart(m)
    BY <1>0, <2>1, Zenon DEF Elect, Learn, Restart, process
  <2>2. CASE \/ \E x \in Transfers, n \in Members : RequestTransfer(m, x, n)
             \/ Prepare(m) \/ Drain(m) \/ Send(m) \/ TargetAccepted(m) \/ TargetElected(m) \/ GiveUp(m)
             \/ \E w \in wire : AcceptTransfer(m, w)
    BY <1>0, <2>2, Zenon DEF RequestTransfer, Prepare, Drain, Send, TargetAccepted, TargetElected,
       GiveUp, AcceptTransfer, raft, process
  <2>3. CASE Establish(m) \/ Replicate(m)
    <3>0. applied \in [Members -> Nat] /\ flight \subseteq Entries /\ Len(accepted) \in Nat
      BY StoreNumbers, Zenon DEF StoreInv, BatchTypes
    <3>1. /\ UNCHANGED <<accepted, local, writes, child, journal>> /\ flight' \subseteq flight
          /\ applied' = applied \/ applied' = [applied EXCEPT ![m] = Len(accepted)]
      BY <2>3, Zenon DEF Establish, Replicate, process
    <3>2. \A n \in Members : applied[n] \in Nat /\ applied[n] <= Len(accepted)
      BY <3>0, Zenon DEF StoreInv, StoreWithin
    <3>3. /\ applied' \in [Members -> Nat]
          /\ \A n \in Members : applied[n] <= applied'[n] /\ applied'[n] <= Len(accepted)
      BY <3>0, <3>1, <3>2
    <3>4. BatchTypes'
      BY <3>0, <3>1, <3>3, Zenon DEF StoreInv, BatchTypes
    <3>5. \A n \in Members, q \in Processes : child[n][q] \in {"boot", "ready"} => Unsent(<<n, q>>)
      BY Zenon DEF StoreInv, BatchSound
    <3> QED BY <3>1, <3>3, <3>4, <3>5, StoreKeeps, Zenon
  <2>4. CASE \/ \E e \in {0} \cup Terms : Tick(m, e)
             \/ Materialize(m) \/ StartController(m) \/ Register(m) \/ Crash(m) \/ Shutdown(m)
    BY <2>4, SupervisorStore, Zenon
  <2> QED BY <1>1, <2>1, <2>2, <2>3, <2>4, Zenon DEF MemberStep
<1>2. ASSUME NEW m \in Members, NEW p \in Processes, ProcessStep(m, p) PROVE StoreInv'
  BY <1>2, ProcessStore, Zenon
<1>3. ASSUME NEW m \in Members, NEW w \in writes[m], ClientWrite(m, w) PROVE StoreInv'
  BY <1>3, ClientWriteKeepsStore, Zenon
<1>4. ASSUME NEW f \in flight, ApplyBatch(f) PROVE StoreInv'
  BY <1>4, ApplyKeepsStore, Zenon
<1>5. CASE UNCHANGED rvars
  BY <1>0, <1>5, Zenon DEF rvars, raft, process
<1> QED BY <1>1, <1>2, <1>3, <1>4, <1>5, Zenon DEF Next

\* At first nothing was sent.
LEMMA StoreInit == Init => StoreInv
<1> SUFFICES ASSUME Init PROVE StoreInv
  OBVIOUS
<1>1. /\ accepted = <<>> /\ flight = {} /\ applied = [m \in Members |-> 0]
      /\ local = [m \in Members |-> <<>>] /\ writes = [m \in Members |-> {}]
      /\ child = [m \in Members |-> [p \in Processes |-> "none"]]
  BY Zenon DEF Init
<1>2. accepted \in Seq(Batch) /\ Len(accepted) = 0
  BY <1>1
<1>3. local \in [Members -> Seq(Batch)] /\ \A m \in Members : Len(local[m]) = 0
  BY <1>1
<1>4. BatchTypes
  <2>1. applied \in [Members -> Nat]
    BY <1>1
  <2>2. writes \in [Members -> SUBSET Requests]
    BY <1>1, Zenon
  <2> QED BY <1>1, <1>2, <1>3, <2>1, <2>2, Zenon DEF BatchTypes
<1>5. \A m \in Members : StoreWithin(m)
  BY <1>1, <1>2, <1>3 DEF StoreWithin
<1>6. \A m \in Members, p \in Processes : BatchSound(m, p)
  <2>1. \A b : Unsent(b)
    BY <1>1, <1>2 DEF Unsent
  <2>2. \A m \in Members, p \in Processes : child[m][p] = "none"
    BY <1>1, Zenon
  <2> QED BY <2>1, <2>2 DEF BatchSound
<1> QED BY <1>4, <1>5, <1>6, Zenon DEF StoreInv

\* A store that agrees with the accepted batches and is no longer than the applied ones is
\* a prefix of the view.
LEMMA WithinIsPrefix == StoreInv => StoreFollowsView
<1> SUFFICES ASSUME StoreInv, NEW m \in Members PROVE IsPrefix(local[m], View(m))
  BY Zenon DEF StoreFollowsView
<1>1. Len(local[m]) <= applied[m] /\ \A k \in 1 .. Len(local[m]) : local[m][k] = accepted[k]
  BY Zenon DEF StoreInv, StoreWithin
<1>2. PICK s \in Seq(Batch) : s = local[m]
  BY Zenon DEF StoreInv, BatchTypes
<1>3. PICK v \in Seq(Batch) : v = View(m) /\ Len(v) = applied[m] /\ \A k \in 1 .. applied[m] : v[k] = accepted[k]
  BY ViewFacts, Zenon
<1>4. Len(s) \in Nat /\ Len(s) <= Len(v) /\ \A k \in 1 .. Len(s) : s[k] = v[k]
  BY <1>1, <1>2, <1>3
<1>5. SubSeq(v, 1, Len(s)) = s
  BY <1>4
<1> QED BY <1>2, <1>3, <1>4, <1>5, Zenon DEF IsPrefix

\* A store never holds a batch its own member has not applied, so the next projection is
\* never refused as a fork (materialize).
THEOREM StoresFollowViews == Spec => []StoreFollowsView
<1>1. Init => ProcessInv /\ ElectionInv /\ StoreInv
  BY ProcessInvInit, ElectionInit, StoreInit
<1>2. ProcessInv /\ ElectionInv /\ StoreInv /\ [Next]_rvars => (ProcessInv /\ ElectionInv /\ StoreInv)'
  BY ProcessInvStep, ElectionStep, StoreStep
<1> QED BY <1>1, <1>2, WithinIsPrefix, PTL DEF Spec

-----------------------------------------------------------------------------
(***************************************************************************)
(* A current process starts from everything that was acknowledged          *)
(***************************************************************************)

\* What one step may do to the store, the supervisor, the journal and the processes of m:
\* a store and a view only grow; a start is reached through a checked tick, the projection
\* and a spawn; and a process that appears is a new one, of the epoch of that start.
Moved(m) ==
    /\ Len(local[m]) <= Len(local'[m]) /\ applied[m] <= applied'[m]
    /\ \/ sup'[m] = sup[m]
       \/ sup'[m].at \in {"idle", "down"}
       \/ accepted' = accepted /\ sup'[m].at = "ready" /\ CheckEpoch(m, sup'[m].cur)
       \/ /\ sup[m].at = "ready" /\ sup'[m].at = "projected" /\ sup'[m].cur = sup[m].cur
          /\ Len(local'[m]) = applied[m]
       \/ sup[m].at = "projected" /\ sup'[m].at = "spawned" /\ sup'[m].cur = sup[m].cur
    /\ \A q \in 1 .. Len(journal'[m]) :
          \/ q \in 1 .. Len(journal[m]) /\ journal'[m][q].epoch = journal[m][q].epoch
          \/ sup[m].at = "projected" /\ journal'[m][q].epoch = sup[m].cur
    /\ \A p \in Processes : Runs(m, p)' => Runs(m, p) \/ p \notin 1 .. Len(journal[m])

\* A member whose supervisor, journal and processes rest may still apply batches.
LEMMA RestMoves ==
  ASSUME StoreInv, NEW m \in Members, sup'[m] = sup[m], local'[m] = local[m],
         applied'[m] = applied[m],
         journal'[m] = journal[m], \A p \in Processes : Runs(m, p)' => Runs(m, p)
  PROVE  Moved(m)
<1>1. Len(local[m]) \in Nat /\ applied[m] \in Nat
  BY StoreNumbers, Zenon DEF StoreInv
<1>2. Len(local[m]) <= Len(local'[m]) /\ applied[m] <= applied'[m]
  BY <1>1
<1> QED BY <1>2, Zenon DEF Moved

\* A supervisor step that keeps the journal's epochs and starts nothing.
LEMMA KeptMoves ==
  ASSUME StoreInv, ProcessInv, JournalKept, UNCHANGED <<local, applied>>,
         \A n \in Members, q \in Processes : child'[n][q] \in {"none", child[n][q]},
         \A n \in Members : \/ sup'[n] = sup[n]
                            \/ sup'[n].at \in {"idle", "down"}
                            \/ accepted' = accepted /\ sup'[n].at = "ready" /\ CheckEpoch(n, sup'[n].cur)
  PROVE  \A n \in Members : Moved(n)
<1> TAKE n \in Members
<1>1. Len(local[n]) \in Nat /\ applied[n] \in Nat
  BY StoreNumbers, Zenon DEF StoreInv
<1>2. Len(local[n]) <= Len(local'[n]) /\ applied[n] <= applied'[n]
  BY <1>1
<1>3. \A q \in 1 .. Len(journal'[n]) :
         q \in 1 .. Len(journal[n]) /\ journal'[n][q].epoch = journal[n][q].epoch
  BY Zenon DEF JournalKept
<1>4. \A p \in Processes : Runs(n, p)' => Runs(n, p)
  BY Zenon DEF Runs
<1> QED BY <1>2, <1>3, <1>4, Zenon DEF Moved

\* The supervisor's steps.
LEMMA SupervisorMoves ==
  ASSUME StoreInv, ProcessInv, NEW m \in Members,
         \/ \E e \in {0} \cup Terms : Tick(m, e)
         \/ Register(m) \/ Crash(m) \/ Shutdown(m) \/ Restart(m)
  PROVE  \A n \in Members : Moved(n)
<1>a. child \in [Members -> [Processes -> ChildPhase]]
  BY Zenon DEF ProcessInv, ProcessTypes
<1>b. sup \in [Members -> SupStates]
  BY Zenon DEF ProcessInv, ProcessTypes
<1>0. ASSUME UNCHANGED <<child, journal>>
      PROVE  JournalKept /\ \A n \in Members, q \in Processes : child'[n][q] \in {"none", child[n][q]}
  BY <1>0, Zenon DEF JournalKept
<1>1. ASSUME NEW e \in {0} \cup Terms, Tick(m, e) PROVE \A n \in Members : Moved(n)
  <2>1. UNCHANGED <<accepted, applied, local>>
    BY <1>1, Zenon DEF Tick, raft
  <2>2. /\ sup' \in [Members -> SupStates] /\ \A n \in Members : n # m => sup'[n] = sup[n]
        /\ sup'[m].owned \in {0, sup[m].owned} /\ sup'[m].at \in {"idle", "ready"}
        /\ sup'[m].at = "ready" => sup'[m].cur = e /\ CheckEpoch(m, e)
        /\ Stop(m) \/ UNCHANGED <<child, journal>>
    BY <1>1, TickShape, Zenon
  <2>3. \A n \in Members : \/ sup'[n] = sup[n]
                           \/ sup'[n].at \in {"idle", "down"}
                           \/ accepted' = accepted /\ sup'[n].at = "ready" /\ CheckEpoch(n, sup'[n].cur)
    BY <2>1, <2>2, Zenon
  <2>4. JournalKept /\ \A n \in Members, q \in Processes : child'[n][q] \in {"none", child[n][q]}
    <3>1. \A n \in Members : sup'[n].owned \in {0, sup[n].owned}
      BY <2>2, Zenon
    <3> QED BY <1>0, <2>2, <3>1, StopKeeps, StopChild, Zenon
  <2> QED BY <2>1, <2>3, <2>4, KeptMoves, Zenon
<1>2. CASE Register(m)
  <2>1. UNCHANGED <<accepted, applied, local>>
    BY <1>2, Zenon DEF Register, raft
  <2>2. PICK k : child' = child \/ child' = [child EXCEPT ![m][k] = "none"]
    BY <1>2, Zenon DEF Register
  <2>3. \A n \in Members, q \in Processes : child'[n][q] \in {"none", child[n][q]}
    BY <1>a, <2>2
  <2>4. PICK p, c : \/ sup' = [sup EXCEPT ![m].at = "idle", ![m].cur = 0, ![m].owned = p]
                    \/ sup' = [sup EXCEPT ![m].at = "idle", ![m].cur = 0, ![m].failed = c]
    BY <1>2, Zenon DEF Register, SupFails
  <2>5. \A n \in Members : sup'[n] = sup[n] \/ sup'[n].at = "idle"
    BY <1>b, <2>4 DEF SupStates
  <2> QED BY <1>2, <2>1, <2>3, <2>5, RegisterKeeps, KeptMoves, Zenon
<1>3. CASE Crash(m) \/ Shutdown(m) \/ Restart(m)
  <2>1. UNCHANGED <<accepted, applied, local>>
    BY <1>3, Zenon DEF Crash, Shutdown, Restart, raft, process
  <2>2. sup' = [sup EXCEPT ![m] = [Idle EXCEPT !.at = "down"]] \/ sup' = [sup EXCEPT ![m] = Idle]
    BY <1>3, Zenon DEF Crash, Shutdown, Restart
  <2>3. \A n \in Members : sup'[n] = sup[n] \/ sup'[n].at \in {"idle", "down"}
    BY <1>b, <2>2 DEF Idle
  <2>4. JournalKept /\ \A n \in Members, q \in Processes : child'[n][q] \in {"none", child[n][q]}
    <3>1. CASE Shutdown(m)
      BY <3>1, ShutdownJournal, StopChild, Zenon DEF Shutdown
    <3>2. CASE Crash(m) \/ Restart(m)
      BY <1>0, <3>2, Zenon DEF Crash, Restart, process
    <3> QED BY <1>3, <3>1, <3>2, Zenon
  <2> QED BY <2>1, <2>3, <2>4, KeptMoves, Zenon
<1> QED BY <1>1, <1>2, <1>3, Zenon

\* The projection and the spawn that follow a checked tick.
LEMMA StartMoves ==
  ASSUME StoreInv, ProcessInv, NEW m \in Members, Materialize(m) \/ StartController(m)
  PROVE  \A n \in Members : Moved(n)
<1>a. child \in [Members -> [Processes -> ChildPhase]]
  BY Zenon DEF ProcessInv, ProcessTypes
<1>b. sup \in [Members -> SupStates]
  BY Zenon DEF ProcessInv, ProcessTypes
<1>c. \A n \in Members : Len(local[n]) \in Nat /\ applied[n] \in Nat /\ Len(local[n]) <= applied[n]
  BY StoreNumbers, Zenon DEF StoreInv, StoreWithin
<1>0. ASSUME UNCHANGED <<child, journal>>
      PROVE  JournalKept /\ \A n \in Members, q \in Processes : child'[n][q] \in {"none", child[n][q]}
  BY <1>0, Zenon DEF JournalKept
<1>d. ASSUME NEW c, sup' = [sup EXCEPT ![m].at = "idle", ![m].cur = 0, ![m].failed = c]
      PROVE  \A n \in Members : sup'[n] = sup[n] \/ sup'[n].at = "idle"
  BY <1>b, <1>d DEF SupStates
<1>e. ASSUME NEW to, sup' = [sup EXCEPT ![m].at = to]
      PROVE  /\ sup'[m].at = to /\ sup'[m].cur = sup[m].cur
             /\ \A n \in Members : n # m => sup'[n] = sup[n]
  BY <1>b, <1>e DEF SupStates
<1>1. CASE Materialize(m)
  <2>1. UNCHANGED <<accepted, applied, flight, writes, journal, child>> /\ sup[m].at = "ready"
    BY <1>1, Zenon DEF Materialize, raft, SupAt
  <2>2. CASE SupFails(m) /\ local' = local
    BY <1>0, <1>d, <2>1, <2>2, KeptMoves, Zenon DEF SupFails
  <2>3. CASE /\ ~HoldsLease(m) /\ IsPrefix(local[m], View(m))
             /\ local' = [local EXCEPT ![m] = View(m)] /\ SupTo(m, "projected")
    <3>1. Len(local'[m]) = applied[m] /\ \A n \in Members : n # m => local'[n] = local[n]
      BY <2>1, <2>3, MaterializeKeepsStore, Zenon
    <3>2. /\ sup'[m].at = "projected" /\ sup'[m].cur = sup[m].cur
          /\ \A n \in Members : n # m => sup'[n] = sup[n]
      BY <1>e, <2>3, Zenon DEF SupTo
    <3>3. ASSUME NEW n \in Members, n # m PROVE Moved(n)
      BY <2>1, <3>1, <3>2, <3>3, RestMoves, Zenon DEF Runs
    <3>4. Moved(m)
      <4>1. Len(local[m]) <= Len(local'[m]) /\ applied[m] <= applied'[m]
        BY <1>c, <2>1, <3>1
      <4> QED BY <2>1, <3>1, <3>2, <4>1, Zenon DEF Moved, Runs
    <3> QED BY <3>3, <3>4, Zenon
  <2> QED BY <1>1, <2>2, <2>3, Zenon DEF Materialize
<1>2. CASE StartController(m)
  <2>1. UNCHANGED <<accepted, applied, local>> /\ sup[m].at = "projected"
    BY <1>2, Zenon DEF StartController, raft, SupAt
  <2>2. \A n \in Members :
           \/ sup'[n] = sup[n] \/ sup'[n].at = "idle"
           \/ n = m /\ sup'[n].at = "spawned" /\ sup'[n].cur = sup[n].cur
    <3>1. CASE SupFails(m)
      BY <1>d, <3>1, Zenon DEF SupFails
    <3>2. CASE sup' = [sup EXCEPT ![m].at = "idle", ![m].cur = 0]
      BY <1>b, <3>2 DEF SupStates
    <3>3. CASE SupTo(m, "spawned")
      BY <1>e, <3>3, Zenon DEF SupTo
    <3> QED BY <1>2, <3>1, <3>2, <3>3, Zenon DEF StartController
  <2>3. CASE UNCHANGED <<child, journal>>
    <3>1. \A n \in Members : Len(local[n]) <= Len(local'[n]) /\ applied[n] <= applied'[n]
      BY <1>c, <2>1
    <3> QED BY <2>1, <2>2, <2>3, <3>1, Zenon DEF Moved, Runs
  <2>4. CASE /\ JournalGrew(m)
             /\ child' = child \/ child' = [child EXCEPT ![m][Len(journal[m]) + 1] = "boot"]
    <3>1. PICK k : /\ k = Len(journal[m]) + 1 /\ k \notin 1 .. Len(journal[m])
                   /\ \A q \in 1 .. Len(journal'[m]) : q \in 1 .. Len(journal[m]) \/ q = k
      BY <2>4, JournalLength DEF JournalGrew
    <3>2. child' = child \/ child' = [child EXCEPT ![m][k] = "boot"]
      BY <2>4, <3>1, Zenon
    <3>3. \A n \in Members, q \in Processes : child'[n][q] = child[n][q] \/ (n = m /\ q = k)
      BY <1>a, <3>2
    <3>4. \A n \in Members : Len(local[n]) <= Len(local'[n]) /\ applied[n] <= applied'[n]
      BY <1>c, <2>1
    <3>5. \A q \in 1 .. Len(journal'[m]) :
             \/ q \in 1 .. Len(journal[m]) /\ journal'[m][q].epoch = journal[m][q].epoch
             \/ journal'[m][q].epoch = sup[m].cur
      BY <2>4, <3>1, Zenon DEF JournalGrew
    <3>6. \A n \in Members : n # m => journal'[n] = journal[n]
      BY <2>4, Zenon DEF JournalGrew
    <3>7. \A n \in Members, p \in Processes : Runs(n, p)' => Runs(n, p) \/ p \notin 1 .. Len(journal[n])
      BY <3>1, <3>3, Zenon DEF Runs
    <3> QED BY <2>1, <2>2, <3>4, <3>5, <3>6, <3>7, Zenon DEF Moved
  <2> QED BY <1>2, <2>3, <2>4, StartKeeps, Zenon
<1> QED BY <1>1, <1>2, Zenon

\* A process moves on without touching supervisor and journal.
LEMMA ProcessMoves ==
  ASSUME StoreInv, ProcessInv, NEW m \in Members, NEW p \in Processes, ProcessStep(m, p)
  PROVE  \A n \in Members : Moved(n)
<1> TAKE n \in Members
<1>1. PICK to : child' = [child EXCEPT ![m][p] = to] /\ Runs(m, p) /\ UNCHANGED <<journal, sup>>
  BY PhaseMoves, Zenon
<1>2. \A q \in Processes : Runs(n, q)' => Runs(n, q)
  <2>1. child \in [Members -> [Processes -> ChildPhase]]
    BY Zenon DEF ProcessInv, ProcessTypes
  <2>2. \A q \in Processes : child'[n][q] = child[n][q] \/ (n = m /\ q = p)
    BY <1>1, <2>1
  <2> QED BY <1>1, <2>2, Zenon DEF Runs
<1>3. applied' = applied
  BY Zenon DEF ProcessStep, OpenStore, CommitBatch, ConfirmBatch, RollBackBatch, LocalCommit, ProcessDies, raft
<1>4. Len(local[n]) <= Len(local'[n]) /\ applied[n] <= applied'[n]
  <2>1. Len(local[n]) \in Nat /\ applied[n] \in Nat
    BY StoreNumbers, Zenon DEF StoreInv
  <2>2. Len(local'[n]) = Len(local[n]) \/ Len(local'[n]) = Len(local[n]) + 1
    <3>1. CASE LocalCommit(m, p)
      BY <3>1, LocalCommitKeepsStore, Zenon
    <3>2. CASE ~LocalCommit(m, p)
      BY <3>2, Zenon DEF ProcessStep, OpenStore, CommitBatch, ConfirmBatch, RollBackBatch, ProcessDies
    <3> QED BY <3>1, <3>2, Zenon
  <2> QED BY <1>3, <2>1, <2>2
<1> QED BY <1>1, <1>2, <1>4, Zenon DEF Moved

\* Every step moves every member in one of these ways.
LEMMA StepMoves ==
  ASSUME StoreInv, ProcessInv, [Next]_rvars
  PROVE  \A n \in Members : Moved(n)
<1>0. ASSUME UNCHANGED <<sup, local, applied, journal, child>> PROVE \A n \in Members : Moved(n)
  BY <1>0, RestMoves, Zenon DEF Runs
<1>1. ASSUME NEW m \in Members, MemberStep(m) PROVE \A n \in Members : Moved(n)
  <2>1. CASE Elect(m) \/ Learn(m) \/ Establish(m)
    BY <1>0, <2>1, Zenon DEF Elect, Learn, Establish, process
  <2>2. CASE \/ \E x \in Transfers, n \in Members : RequestTransfer(m, x, n)
             \/ Prepare(m) \/ Drain(m) \/ Send(m) \/ TargetAccepted(m) \/ TargetElected(m) \/ GiveUp(m)
             \/ \E w \in wire : AcceptTransfer(m, w)
    BY <1>0, <2>2, Zenon DEF RequestTransfer, Prepare, Drain, Send, TargetAccepted, TargetElected,
       GiveUp, AcceptTransfer, raft, process
  <2>3. CASE Replicate(m)
    <3>1. UNCHANGED <<sup, local, journal, child>> /\ applied' = [applied EXCEPT ![m] = Len(accepted)]
      BY <2>3, Zenon DEF Replicate, process
    <3>2. applied \in [Members -> Nat]
      BY Zenon DEF StoreInv, BatchTypes
    <3>3. \A n \in Members : applied[n] <= Len(accepted) /\ Len(local[n]) \in Nat /\ Len(accepted) \in Nat
      BY StoreNumbers, Zenon DEF StoreInv, StoreWithin
    <3>4. \A n \in Members : Len(local[n]) <= Len(local'[n]) /\ applied[n] <= applied'[n]
      BY <3>1, <3>2, <3>3
    <3> QED BY <3>1, <3>4, Zenon DEF Moved, Runs
  <2>4. CASE \/ \E e \in {0} \cup Terms : Tick(m, e)
             \/ Register(m) \/ Crash(m) \/ Shutdown(m) \/ Restart(m)
    BY <2>4, SupervisorMoves, Zenon
  <2>5. CASE Materialize(m) \/ StartController(m)
    BY <2>5, StartMoves, Zenon
  <2> QED BY <1>1, <2>1, <2>2, <2>3, <2>4, <2>5, Zenon DEF MemberStep
<1>2. ASSUME NEW m \in Members, NEW p \in Processes, ProcessStep(m, p) PROVE \A n \in Members : Moved(n)
  BY <1>2, ProcessMoves, Zenon
<1>3. ASSUME NEW m \in Members, NEW w \in writes[m], ClientWrite(m, w) PROVE \A n \in Members : Moved(n)
  BY <1>0, <1>3, Zenon DEF ClientWrite
<1>4. ASSUME NEW f \in flight, ApplyBatch(f) PROVE \A n \in Members : Moved(n)
  BY <1>0, <1>4, Zenon DEF ApplyBatch, process
<1>5. CASE UNCHANGED rvars
  BY <1>0, <1>5, Zenon DEF rvars, raft, process
<1> QED BY <1>1, <1>2, <1>3, <1>4, <1>5, Zenon DEF Next

\* An epoch that was led stays it, and is the newest after a step only when the step left
\* the terms alone: an election is not established yet, an established one is newer.
LEMMA LedStays ==
  ASSUME ElectionInv, [Next]_rvars, NEW m \in Members, NEW e, Led(m, e)
  PROVE  Led(m, e)' /\ (Newest(e)' => Newest(e) /\ UNCHANGED <<leaderOf, est>>)
<1>a. Len(leaderOf) \in Nat /\ est \in 0 .. Len(leaderOf) /\ leaderOf \in Seq(Members)
  BY DEF ElectionInv
<1>b. e \in 1 .. est /\ leaderOf[e] = m
  BY Zenon DEF Led
<1>c. TermsGrow
  BY ElectionStep
<1>d. e \in 1 .. Len(leaderOf) /\ leaderOf'[e] = m
  <2>1. e \in 1 .. Len(leaderOf)
    BY <1>a, <1>b
  <2> QED BY <1>b, <1>c, <2>1, Zenon DEF TermsGrow
<1>1. CASE UNCHANGED <<leaderOf, est>>
  BY <1>1, Zenon DEF Led, Newest
<1>2. ASSUME NEW n \in Members, Elect(n) PROVE Led(m, e)' /\ ~Newest(e)'
  <2>1. est' = est /\ leaderOf' = Append(leaderOf, n)
    BY <1>2, Zenon DEF Elect
  <2>2. Len(leaderOf') = Len(leaderOf) + 1
    BY <1>a, <2>1
  <2>3. e # Len(leaderOf')
    BY <1>a, <1>d, <2>2
  <2> QED BY <1>b, <1>d, <2>1, <2>3, Zenon DEF Led, Newest
<1>3. ASSUME NEW n \in Members, Establish(n) PROVE Led(m, e)' /\ ~Newest(e)'
  <2>1. est' = Len(leaderOf) /\ leaderOf' = leaderOf /\ est < Len(leaderOf)
    BY <1>3, Zenon DEF Establish
  <2>2. e \in 1 .. est' /\ e # est'
    BY <1>a, <1>b, <2>1
  <2> QED BY <1>d, <2>2, Zenon DEF Led, Newest
<1>4. ASSUME NEW n \in Members, Learn(n) \/ Restart(n) PROVE UNCHANGED <<leaderOf, est>>
  BY <1>4, Zenon DEF Learn, Restart
<1> QED BY <1>1, <1>2, <1>3, <1>4, QuietTerms, Zenon

\* client_write proposes in the leader's own term, and an established term leaves nothing
\* older behind.
LEMMA FlightStaysLed == FlightLed /\ WritesOwn /\ ElectionInv /\ [Next]_rvars => FlightLed'
<1> SUFFICES ASSUME FlightLed, WritesOwn, ElectionInv, [Next]_rvars PROVE FlightLed'
  OBVIOUS
<1>a. Len(leaderOf) \in Nat /\ est \in 0 .. Len(leaderOf)
  BY DEF ElectionInv
<1>b. TermsGrow
  BY ElectionStep
<1>1. ASSUME flight' \subseteq flight, UNCHANGED <<leaderOf, est>> PROVE FlightLed'
  BY <1>1, Zenon DEF FlightLed
<1>2. ASSUME NEW m \in Members, MemberStep(m) PROVE FlightLed'
  <2>1. CASE Elect(m)
    <3>1. leaderOf' = Append(leaderOf, m) /\ est' = est /\ flight' = flight
      BY <2>1, Zenon DEF Elect
    <3>2. Len(leaderOf') = Len(leaderOf) + 1 /\ est' # Len(leaderOf')
      <4>1. leaderOf \in Seq(Members)
        BY Zenon DEF ElectionInv
      <4>2. Len(leaderOf') = Len(leaderOf) + 1
        BY <3>1, <4>1
      <4> QED BY <1>a, <3>1, <4>2
    <3>3. ASSUME NEW f \in flight PROVE f.term \in 1 .. Len(leaderOf') /\ f.id[1] = leaderOf'[f.term]
      <4>1. f.term \in 1 .. Len(leaderOf) /\ f.id[1] = leaderOf[f.term]
        BY Zenon DEF FlightLed
      <4>2. f.term \in 1 .. Len(leaderOf')
        BY <1>a, <3>2, <4>1
      <4> QED BY <1>b, <4>1, <4>2, Zenon DEF TermsGrow
    <3> QED BY <3>1, <3>2, <3>3, Zenon DEF FlightLed
  <2>2. CASE Establish(m)
    BY <2>2, Zenon DEF Establish, FlightLed
  <2>3. CASE Learn(m) \/ Replicate(m) \/ Restart(m) \/ (\E e \in {0} \cup Terms : Tick(m, e))
             \/ Materialize(m) \/ StartController(m) \/ Register(m) \/ Crash(m) \/ Shutdown(m)
    BY <1>1, <2>3, Zenon DEF Learn, Replicate, Restart, Tick, Materialize, StartController, Register,
       Crash, Shutdown, raft
  <2>4. CASE \/ \E x \in Transfers, n \in Members : RequestTransfer(m, x, n)
             \/ Prepare(m) \/ Drain(m) \/ Send(m) \/ TargetAccepted(m) \/ TargetElected(m) \/ GiveUp(m)
             \/ \E w \in wire : AcceptTransfer(m, w)
    BY <1>1, <2>4, Zenon DEF RequestTransfer, Prepare, Drain, Send, TargetAccepted, TargetElected,
       GiveUp, AcceptTransfer, raft
  <2> QED BY <1>2, <2>1, <2>2, <2>3, <2>4, Zenon DEF MemberStep
<1>3. ASSUME NEW m \in Members, NEW p \in Processes, ProcessStep(m, p) PROVE FlightLed'
  BY <1>1, <1>3, Zenon DEF ProcessStep, OpenStore, CommitBatch, ConfirmBatch, RollBackBatch,
     LocalCommit, ProcessDies, raft
<1>4. ASSUME NEW m \in Members, NEW w \in writes[m], ClientWrite(m, w) PROVE FlightLed'
  <2> DEFINE new == [term |-> CurrentEpoch(m), base |-> w.base, id |-> w.id]
  <2>1. /\ UNCHANGED <<leaderOf, est>>
        /\ flight' = flight \/ (/\ CurrentEpoch(m) # 0 /\ ~(CurrentEpoch(m) < Len(leaderOf))
                                /\ flight' = flight \cup {new})
    BY <1>4, Zenon DEF ClientWrite
  <2>2. CASE flight' = flight
    BY <1>1, <2>1, <2>2, Zenon
  <2>3. CASE /\ CurrentEpoch(m) # 0 /\ ~(CurrentEpoch(m) < Len(leaderOf))
             /\ flight' = flight \cup {new}
    <3>1. new.term = CurrentEpoch(m) /\ new.id = w.id
      OBVIOUS
    <3> HIDE DEF new
    <3>2. new.term = Len(leaderOf) /\ new.term \in 1 .. Len(leaderOf)
      BY <2>3, <3>1, CurrentEpochLed
    <3>3. new.id[1] = leaderOf[new.term]
      BY <2>3, <3>1, CurrentEpochLed, Zenon DEF WritesOwn
    <3> QED BY <2>1, <2>3, <3>2, <3>3, Zenon DEF FlightLed
  <2> QED BY <2>1, <2>2, <2>3, Zenon
<1>5. CASE (\E f \in flight : ApplyBatch(f)) \/ UNCHANGED rvars
  <2>1. flight' \subseteq flight /\ UNCHANGED <<leaderOf, est>>
    BY <1>5, Zenon DEF ApplyBatch, rvars, raft
  <2> QED BY <1>1, <2>1, Zenon
<1> QED BY <1>2, <1>3, <1>4, <1>5, Zenon DEF Next

\* A request in a member's memory is one of its own processes'.
LEMMA WritesStayOwn == WritesOwn /\ StoreInv /\ [Next]_rvars => WritesOwn'
<1> SUFFICES ASSUME WritesOwn, StoreInv, [Next]_rvars PROVE WritesOwn'
  OBVIOUS
<1>a. writes \in [Members -> SUBSET Requests]
  BY Zenon DEF StoreInv, BatchTypes
<1>1. ASSUME NEW m \in Members, NEW s, writes' = [writes EXCEPT ![m] = s], \A w \in s : w.id[1] = m
      PROVE  WritesOwn'
  BY <1>a, <1>1, Zenon DEF WritesOwn
<1>2. CASE writes' = writes
  BY <1>2, Zenon DEF WritesOwn
<1>3. ASSUME NEW m \in Members, MemberStep(m) PROVE WritesOwn'
  <2>1. CASE Crash(m) \/ Shutdown(m)
    BY <1>1, <2>1, Zenon DEF Crash, Shutdown
  <2>2. CASE \/ Elect(m) \/ Learn(m) \/ Establish(m) \/ Replicate(m) \/ Restart(m)
             \/ (\E e \in {0} \cup Terms : Tick(m, e))
             \/ Materialize(m) \/ StartController(m) \/ Register(m)
    BY <1>2, <2>2, Zenon DEF Elect, Learn, Establish, Replicate, Restart, Tick, Materialize,
       StartController, Register, process
  <2>3. CASE \/ \E x \in Transfers, n \in Members : RequestTransfer(m, x, n)
             \/ Prepare(m) \/ Drain(m) \/ Send(m) \/ TargetAccepted(m) \/ TargetElected(m) \/ GiveUp(m)
             \/ \E w \in wire : AcceptTransfer(m, w)
    BY <1>2, <2>3, Zenon DEF RequestTransfer, Prepare, Drain, Send, TargetAccepted, TargetElected,
       GiveUp, AcceptTransfer, process
  <2> QED BY <1>3, <2>1, <2>2, <2>3, Zenon DEF MemberStep
<1>4. ASSUME NEW m \in Members, NEW p \in Processes, ProcessStep(m, p) PROVE WritesOwn'
  <2>1. CASE CommitBatch(m, p)
    <3> DEFINE new == [id |-> <<m, p>>, base |-> local[m]]
    <3>1. writes' = [writes EXCEPT ![m] = writes[m] \cup {new}]
      BY <2>1, Zenon DEF CommitBatch
    <3>2. new.id[1] = m
      OBVIOUS
    <3>3. \A w \in writes[m] \cup {new} : w.id[1] = m
      BY <3>2, Zenon DEF WritesOwn
    <3> QED BY <1>1, <3>1, <3>3, Zenon
  <2>2. CASE ~CommitBatch(m, p)
    BY <1>2, <1>4, <2>2, Zenon DEF ProcessStep, OpenStore, ConfirmBatch, RollBackBatch, LocalCommit, ProcessDies
  <2> QED BY <2>1, <2>2, Zenon
<1>5. ASSUME NEW m \in Members, NEW w \in writes[m], ClientWrite(m, w) PROVE WritesOwn'
  <2>1. writes' = [writes EXCEPT ![m] = writes[m] \ {w}]
    BY <1>5, Zenon DEF ClientWrite
  <2>2. \A v \in writes[m] \ {w} : v.id[1] = m
    BY Zenon DEF WritesOwn
  <2> QED BY <1>1, <2>1, <2>2, Zenon
<1>6. CASE (\E f \in flight : ApplyBatch(f)) \/ UNCHANGED rvars
  BY <1>2, <1>6, Zenon DEF ApplyBatch, rvars, process
<1> QED BY <1>3, <1>4, <1>5, <1>6, Zenon DEF Next

\* A step that accepts a batch accepts one that was in flight.
LEMMA AcceptedMoves ==
  ASSUME [Next]_rvars
  PROVE  accepted' = accepted \/ \E f \in flight : accepted' = Append(accepted, f.id)
<1>1. ASSUME NEW m \in Members, MemberStep(m) PROVE accepted' = accepted
  <2>1. CASE \/ Elect(m) \/ Learn(m) \/ Establish(m) \/ Replicate(m) \/ Restart(m)
             \/ (\E e \in {0} \cup Terms : Tick(m, e))
             \/ Materialize(m) \/ StartController(m) \/ Register(m) \/ Crash(m) \/ Shutdown(m)
    BY <2>1, Zenon DEF Elect, Learn, Establish, Replicate, Restart, Tick, Materialize,
       StartController, Register, Crash, Shutdown, raft
  <2>2. CASE \/ \E x \in Transfers, n \in Members : RequestTransfer(m, x, n)
             \/ Prepare(m) \/ Drain(m) \/ Send(m) \/ TargetAccepted(m) \/ TargetElected(m) \/ GiveUp(m)
             \/ \E w \in wire : AcceptTransfer(m, w)
    BY <2>2, Zenon DEF RequestTransfer, Prepare, Drain, Send, TargetAccepted, TargetElected,
       GiveUp, AcceptTransfer, raft
  <2> QED BY <1>1, <2>1, <2>2, Zenon DEF MemberStep
<1>2. ASSUME NEW m \in Members, NEW p \in Processes, ProcessStep(m, p) PROVE accepted' = accepted
  BY <1>2, Zenon DEF ProcessStep, OpenStore, CommitBatch, ConfirmBatch, RollBackBatch,
     LocalCommit, ProcessDies, raft
<1>3. ASSUME NEW m \in Members, NEW w \in writes[m], ClientWrite(m, w) PROVE accepted' = accepted
  BY <1>3, Zenon DEF ClientWrite
<1>4. ASSUME NEW f \in flight, ApplyBatch(f)
      PROVE  accepted' = accepted \/ accepted' = Append(accepted, f.id)
  BY <1>4, Zenon DEF ApplyBatch
<1>5. CASE UNCHANGED rvars
  BY <1>5, Zenon DEF rvars, raft
<1> QED BY <1>1, <1>2, <1>3, <1>4, <1>5, Zenon DEF Next

\* While m's epoch is the newest, only batches of m are accepted: what m holds of the
\* others stays complete.
LEMMA ForeignStays ==
  ASSUME FlightLed, StoreInv, [Next]_rvars, NEW m \in Members, NEW e, Led(m, e), Newest(e),
         NEW k \in Nat, NEW j \in Nat, k <= j, ForeignWithin(m, k)
  PROVE  ForeignWithin(m, j)'
<1>a. accepted \in Seq(Batch) /\ Len(accepted) \in Nat
  BY StoreNumbers, Zenon DEF StoreInv, BatchTypes
<1>b. \A i \in 1 .. Len(accepted) : accepted[i][1] # m => i <= j
  BY <1>a DEF ForeignWithin
<1>1. CASE accepted' = accepted
  BY <1>b, <1>1, Zenon DEF ForeignWithin
<1>2. ASSUME NEW f \in flight, accepted' = Append(accepted, f.id) PROVE ForeignWithin(m, j)'
  <2>1. f.id[1] = m
    BY Zenon DEF FlightLed, Newest, Led
  <2>2. f \in Entries
    BY Zenon DEF StoreInv, BatchTypes
  <2>3. f.id \in Batch
    BY <2>2, Zenon DEF Entries
  <2>4. /\ Len(accepted') = Len(accepted) + 1 /\ accepted'[Len(accepted) + 1] = f.id
        /\ \A i \in 1 .. Len(accepted) : accepted'[i] = accepted[i]
    BY <1>a, <1>2, <2>3
  <2>5. \A i \in 1 .. Len(accepted') : i \in 1 .. Len(accepted) \/ i = Len(accepted) + 1
    BY <1>a, <2>4
  <2>6. ASSUME NEW i \in 1 .. Len(accepted'), accepted'[i][1] # m PROVE i <= j
    <3>1. i \in 1 .. Len(accepted)
      BY <2>1, <2>4, <2>5, <2>6
    <3> QED BY <1>b, <2>4, <2>6, <3>1
  <2> QED BY <2>6, Zenon DEF ForeignWithin
<1> QED BY <1>1, <1>2, AcceptedMoves, Zenon

\* A checked tick sees every accepted batch applied.
LEMMA CheckedIsComplete ==
  ASSUME StoreInv, StoreInv', ElectionInv, NEW m \in Members, NEW e, CheckEpoch(m, e),
         accepted' = accepted, applied[m] <= applied'[m]
  PROVE  Led(m, e) /\ ForeignWithin(m, applied[m])'
<1>1. Led(m, e) /\ applied[m] = Len(accepted)
  BY CheckedEpoch, Zenon DEF CheckEpoch
<1>2. Len(accepted) \in Nat /\ applied[m] \in Nat
  BY StoreNumbers, Zenon DEF StoreInv
<1>3. applied'[m] \in Nat
  <2>1. applied' \in [Members -> Nat]
    BY Zenon DEF StoreInv, BatchTypes
  <2> QED BY <2>1
<1>4. \A i \in 1 .. Len(accepted) : i <= applied'[m]
  BY <1>1, <1>2, <1>3
<1> QED BY <1>1, <1>4, Zenon DEF ForeignWithin

\* What a member starts, and what it runs, stays complete in the newest epoch.
LEMMA MemberStaysNewest ==
  ASSUME EpochInv, StoreInv, StoreInv', ProcessInv, ProcessInv', ElectionInv, [Next]_rvars,
         NEW m \in Members
  PROVE  EpochsLed(m)' /\ StartsNewest(m)'
<1>0. Moved(m) /\ EpochsLed(m) /\ StartsNewest(m) /\ FlightLed
  BY StepMoves, Zenon DEF EpochInv
<1>a. /\ Len(local[m]) \in Nat /\ applied[m] \in Nat
      /\ Len(local'[m]) \in Nat /\ applied'[m] \in Nat
  <2>1. local' \in [Members -> Seq(Batch)] /\ applied' \in [Members -> Nat]
    BY Zenon DEF StoreInv, BatchTypes
  <2>2. Len(local'[m]) \in Nat /\ applied'[m] \in Nat
    BY <2>1
  <2> QED BY <2>2, StoreNumbers, Zenon DEF StoreInv
<1>b. Len(local[m]) <= Len(local'[m]) /\ applied[m] <= applied'[m]
  BY <1>0, Zenon DEF Moved
<1>1. EpochsLed(m)'
  <2>1. \A q \in 1 .. Len(journal'[m]) : Led(m, journal'[m][q].epoch)
    BY <1>0, Zenon DEF Moved, EpochsLed
  <2>2. sup'[m].at \in {"ready", "projected", "spawned"} => Led(m, sup'[m].cur)
    <3>1. CASE accepted' = accepted /\ sup'[m].at = "ready" /\ CheckEpoch(m, sup'[m].cur)
      BY <1>b, <3>1, CheckedIsComplete, Zenon
    <3>2. CASE sup'[m] = sup[m] \/ sup'[m].at \in {"idle", "down"}
      BY <1>0, <3>2 DEF EpochsLed
    <3>3. CASE sup[m].at \in {"ready", "projected"} /\ sup'[m].cur = sup[m].cur
      BY <1>0, <3>3, Zenon DEF EpochsLed
    <3> QED BY <1>0, <3>1, <3>2, <3>3, Zenon DEF Moved
  <2> QED BY <2>1, <2>2, LedStays, Zenon DEF EpochsLed
<1>2. ASSUME NEW e, Led(m, e), Newest(e)', NEW k \in Nat, NEW j \in Nat, k <= j,
             Newest(e) => ForeignWithin(m, k)
      PROVE  ForeignWithin(m, j)'
  BY <1>0, <1>2, LedStays, ForeignStays, Zenon
<1>3. ASSUME sup'[m].at = "ready", Newest(sup[m].cur)' PROVE ForeignWithin(m, applied[m])'
  <2>1. CASE accepted' = accepted /\ CheckEpoch(m, sup'[m].cur)
    BY <1>b, <2>1, CheckedIsComplete, Zenon
  <2>2. CASE sup'[m] = sup[m]
    <3>1. PICK e : e = sup[m].cur /\ Led(m, e) /\ (Newest(e) => ForeignWithin(m, applied[m]))
      BY <1>0, <1>3, <2>2, Zenon DEF EpochsLed, StartsNewest
    <3>2. PICK j \in Nat : j = applied'[m]
      BY <1>a, Zenon
    <3>3. ForeignWithin(m, j)'
      BY <1>2, <1>3, <1>a, <1>b, <2>2, <3>1, <3>2, Zenon
    <3> QED BY <3>2, <3>3, Zenon
  <2> QED BY <1>0, <1>3, <2>1, <2>2 DEF Moved
<1>4. ASSUME sup'[m].at = "projected", Newest(sup[m].cur)' PROVE ForeignWithin(m, Len(local[m]))'
  <2>0. PICK j \in Nat : j = Len(local'[m])
    BY <1>a, Zenon
  <2>1. CASE sup[m].at = "ready" /\ sup'[m].cur = sup[m].cur /\ Len(local'[m]) = applied[m]
    <3>1. PICK e : e = sup[m].cur /\ Led(m, e) /\ (Newest(e) => ForeignWithin(m, j))
      BY <1>0, <2>0, <2>1, Zenon DEF EpochsLed, StartsNewest
    <3>2. j <= j
      OBVIOUS
    <3>3. ForeignWithin(m, j)'
      BY <1>2, <1>4, <2>1, <3>1, <3>2, Zenon
    <3> QED BY <2>0, <3>3, Zenon
  <2>2. CASE sup'[m] = sup[m]
    <3>1. PICK e : e = sup[m].cur /\ Led(m, e) /\ (Newest(e) => ForeignWithin(m, Len(local[m])))
      BY <1>0, <1>4, <2>2, Zenon DEF EpochsLed, StartsNewest
    <3>2. ForeignWithin(m, j)'
      BY <1>2, <1>4, <1>a, <1>b, <2>0, <2>2, <3>1, Zenon
    <3> QED BY <2>0, <3>2, Zenon
  <2> QED BY <1>0, <1>4, <2>1, <2>2 DEF Moved
<1>5. ASSUME NEW p \in Processes, Runs(m, p)', Newest(EpochOf(m, p))'
      PROVE  ForeignWithin(m, Len(local[m]))'
  <2>0. PICK j \in Nat : j = Len(local'[m])
    BY <1>a, Zenon
  <2>1. p \in 1 .. Len(journal'[m])
    BY <1>5, Zenon DEF ProcessInv, RunningUnwaited
  <2>2. PICK e : e = journal'[m][p].epoch /\ Led(m, e) /\ (Newest(e) => ForeignWithin(m, Len(local[m])))
    <3>1. CASE p \in 1 .. Len(journal[m]) /\ journal'[m][p].epoch = journal[m][p].epoch
      <4>1. Runs(m, p)
        BY <1>0, <1>5, <3>1, Zenon DEF Moved
      <4> QED BY <1>0, <3>1, <4>1, Zenon DEF EpochsLed, StartsNewest, EpochOf
    <3>2. CASE sup[m].at = "projected" /\ journal'[m][p].epoch = sup[m].cur
      BY <1>0, <3>2, Zenon DEF EpochsLed, StartsNewest
    <3> QED BY <1>0, <2>1, <3>1, <3>2, Zenon DEF Moved
  <2>3. Newest(e)'
    BY <1>5, <2>2, Zenon DEF EpochOf
  <2>4. ForeignWithin(m, j)'
    BY <1>2, <1>a, <1>b, <2>0, <2>2, <2>3, Zenon
  <2> QED BY <2>0, <2>4, Zenon
<1> QED BY <1>1, <1>3, <1>4, <1>5, Zenon DEF StartsNewest

\* Every step keeps the epochs sound.
LEMMA EpochStep ==
  EpochInv /\ StoreInv /\ StoreInv' /\ ProcessInv /\ ProcessInv' /\ ElectionInv /\ [Next]_rvars => EpochInv'
<1> SUFFICES ASSUME EpochInv, StoreInv, StoreInv', ProcessInv, ProcessInv', ElectionInv, [Next]_rvars
             PROVE  EpochInv'
  OBVIOUS
<1>1. FlightLed /\ WritesOwn
  BY Zenon DEF EpochInv
<1>2. FlightLed'
  BY <1>1, FlightStaysLed
<1>3. WritesOwn'
  BY <1>1, WritesStayOwn
<1>4. \A m \in Members : EpochsLed(m)' /\ StartsNewest(m)'
  BY MemberStaysNewest, Zenon
<1> QED BY <1>2, <1>3, <1>4, Zenon DEF EpochInv

\* At first no term was elected, nothing is in flight and nothing runs.
LEMMA EpochInit == Init => EpochInv
<1> SUFFICES ASSUME Init PROVE EpochInv
  OBVIOUS
<1>1. /\ flight = {} /\ writes = [m \in Members |-> {}] /\ journal = [m \in Members |-> <<>>]
      /\ sup = [m \in Members |-> Idle]
      /\ child = [m \in Members |-> [p \in Processes |-> "none"]]
  BY Zenon DEF Init
<1>2. FlightLed /\ WritesOwn
  BY <1>1, Zenon DEF FlightLed, WritesOwn
<1>3. ASSUME NEW m \in Members PROVE EpochsLed(m) /\ StartsNewest(m)
  <2>1. sup[m].at = "idle"
    BY <1>1 DEF Idle
  <2>2. Len(journal[m]) = 0
    BY <1>1
  <2>3. \A p \in Processes : ~Runs(m, p)
    BY <1>1, Zenon DEF Runs
  <2>4. EpochsLed(m)
    BY <2>1, <2>2 DEF EpochsLed
  <2>5. StartsNewest(m)
    BY <2>1, <2>3 DEF StartsNewest
  <2> QED BY <2>4, <2>5
<1> QED BY <1>2, <1>3, Zenon DEF EpochInv

\* A store that misses no accepted batch of another member misses none that member wrote.
LEMMA CompleteIsNewest ==
  ASSUME EpochInv, StoreInv
  PROVE  CurrentProcessIsNewest
<1> SUFFICES ASSUME NEW m \in Members, NEW p \in Processes, Runs(m, p), Newest(EpochOf(m, p)),
                    NEW n \in Members, NEW q \in Processes, <<n, q>> \in Range(local[n])
             PROVE  <<n, q>> \in Range(local[m])
  BY Zenon DEF CurrentProcessIsNewest, Newest
<1>a. local \in [Members -> Seq(Batch)]
  BY Zenon DEF StoreInv, BatchTypes
<1>b. \A o \in Members : DOMAIN local[o] = 1 .. Len(local[o]) /\ Len(local[o]) \in Nat
  BY <1>a
<1>c. \A o \in Members : /\ Len(local[o]) <= applied[o] /\ applied[o] <= Len(accepted)
                         /\ \A i \in 1 .. Len(local[o]) : local[o][i] = accepted[i]
  BY Zenon DEF StoreInv, StoreWithin
<1>d. Len(accepted) \in Nat /\ \A o \in Members : applied[o] \in Nat
  BY StoreNumbers, Zenon DEF StoreInv
<1>1. CASE n = m
  BY <1>1, Zenon
<1>2. CASE n # m
  <2>1. PICK k \in 1 .. Len(local[n]) : local[n][k] = <<n, q>>
    BY <1>b, Zenon DEF Range
  <2>2. k \in 1 .. Len(accepted)
    BY <1>b, <1>c, <1>d, <2>1
  <2>3. accepted[k] = <<n, q>>
    BY <1>c, <2>1, Zenon
  <2>4. accepted[k][1] # m
    BY <1>2, <2>3
  <2>5. ForeignWithin(m, Len(local[m]))
    BY Zenon DEF EpochInv, StartsNewest
  <2>6. k <= Len(local[m])
    BY <2>2, <2>4, <2>5, Zenon DEF ForeignWithin
  <2>7. k \in 1 .. Len(local[m])
    BY <1>b, <2>1, <2>6
  <2>8. local[m][k] = <<n, q>>
    BY <1>c, <2>3, <2>7, Zenon
  <2> QED BY <1>b, <2>7, <2>8, Zenon DEF Range
<1> QED BY <1>1, <1>2, Zenon

\* A process of the newest established epoch works on a store that has every batch a process
\* of any member committed to its own: no failover and no respawn goes back behind what was
\* acknowledged (supervise, materialize, start_controller).
THEOREM CurrentProcessesAreNewest == Spec => []CurrentProcessIsNewest
<1>1. Init => ProcessInv /\ ElectionInv /\ StoreInv /\ EpochInv
  BY ProcessInvInit, ElectionInit, StoreInit, EpochInit
<1>2. ProcessInv /\ ElectionInv /\ StoreInv /\ EpochInv /\ [Next]_rvars
      => (ProcessInv /\ ElectionInv /\ StoreInv /\ EpochInv)'
  <2> SUFFICES ASSUME ProcessInv, ElectionInv, StoreInv, EpochInv, [Next]_rvars
               PROVE  (ProcessInv /\ ElectionInv /\ StoreInv /\ EpochInv)'
    OBVIOUS
  <2>1. ProcessInv' /\ ElectionInv' /\ StoreInv'
    BY ProcessInvStep, ElectionStep, StoreStep
  <2> QED BY <2>1, EpochStep
<1> QED BY <1>1, <1>2, CompleteIsNewest, PTL DEF Spec
=============================================================================

-------------------------- MODULE AuditWave_proofs --------------------------
(***************************************************************************)
(* Proofs about AuditWave, for any circles of reviews, permits, retries    *)
(* and kills: a writer of shared truth is never dispatched beside another  *)
(* review (Inv), and what the reports on disk have found is on record once *)
(* the audits are passed (RecordInv, with the types).                      *)
(***************************************************************************)
EXTENDS AuditWave, TLAPS

Active(a) == task[a] \in {"waiting", "dispatching"}

\* The part of the types that the argument needs.
Placed == at \in Position /\ task \in [Audits -> Worker] /\ collected \subseteq Audits

\* Whoever is active belongs to the part the main thread waits in.
Joined ==
  \A a \in Audits : Active(a) =>
    \/ at.part = "wave" /\ a \in Parallel[Here]
    \/ at.part = "serial" /\ a \in SerialSet(Here)

\* A result that was taken is one of a wave that has begun.
Taken ==
  \A a \in collected :
    /\ Ended(a)
    /\ \E c \in 1..Circles : /\ a \in Parallel[c]
                             /\ c < Here \/ (c = Here /\ at.part # "start")

\* Serial reviews begin in their part, and in their order.
Begun ==
  \A c \in 1..Circles : \A i \in DOMAIN Serial[c] :
    task[Serial[c][i]] # "absent" =>
      /\ c < Here \/ (c = Here /\ at.part \notin {"start", "wave"})
      /\ ~Skipped(Serial[c][i])
      /\ \A j \in DOMAIN Serial[c] : j < i =>
           Skipped(Serial[c][j]) \/ task[Serial[c][j]] # "absent"

\* One serial review at a time.
Lone ==
  \A a, b \in SerialSet(Here) : at.part = "serial" /\ Active(a) /\ Active(b) => a = b

Inv == Placed /\ Joined /\ Taken /\ Begun /\ Lone

-----------------------------------------------------------------------------
\* Circles share no review, and in one circle none is of both kinds.
LEMMA Disjoint ==
  ASSUME NEW c \in 1..Circles, NEW d \in 1..Circles, NEW a
  PROVE  /\ ~(a \in Parallel[c] /\ a \in SerialSet(d))
         /\ a \in Parallel[c] /\ a \in Parallel[d] => c = d
         /\ a \in SerialSet(c) /\ a \in SerialSet(d) => c = d
BY WaveAssumption DEF WaveAssumption

\* Reviews of a circle are reviews.
LEMMA Members ==
  ASSUME NEW c \in 1..Circles
  PROVE  /\ Parallel[c] \subseteq Audits /\ SerialSet(c) \subseteq Audits
         /\ \A i \in DOMAIN Serial[c] : Serial[c][i] \in SerialSet(c)
BY DEF Audits, SerialSet

\* Nothing is active at first.
LEMMA InvInit == Init => Inv
<1> SUFFICES ASSUME Init PROVE Inv
    OBVIOUS
<1>1. Placed
    BY WaveAssumption DEF Init, Placed, Start, Position, NoTasks, Worker, WaveAssumption
<1>2. \A a \in Audits : task[a] = "absent"
    BY DEF Init, NoTasks
<1>3. Joined /\ Lone
    BY <1>1, <1>2, Members DEF Joined, Lone, Active, Placed, Position, Here
<1>4. Taken
    BY DEF Init, Taken
<1>5. Begun
  <2>1. \A c \in 1..Circles : \A i \in DOMAIN Serial[c] : task[Serial[c][i]] = "absent"
      BY <1>2, Members
  <2> QED BY <2>1 DEF Begun
<1> QED BY <1>1, <1>3, <1>4, <1>5 DEF Inv

-----------------------------------------------------------------------------
(* Workers.                                                                *)

\* What a worker does changes its own task, and only once it is active.
LEMMA WorkerMoves ==
  ASSUME NEW a \in Audits, Placed, WorkerStep(a)
  PROVE  /\ Active(a)
         /\ \E w \in Worker \ {"absent"} : task' = [task EXCEPT ![a] = w]
         /\ at' = at /\ collected' = collected /\ past' = past
BY DEF WorkerStep, Acquire, Succeeds, FailsTransiently, FailsForGood, Ends, Active,
       Worker, OutOfRetries

\* A worker's step keeps the invariant: it makes no review active.
LEMMA WorkerKeeps ==
  ASSUME Inv, NEW a \in Audits, WorkerStep(a)
  PROVE  Inv'
<1> USE DEF Inv, Here
<1>1. Active(a) /\ at' = at /\ collected' = collected /\ past' = past
    BY WorkerMoves
<1>2. PICK w \in Worker \ {"absent"} : task' = [task EXCEPT ![a] = w]
    BY WorkerMoves
<1>3. \A b \in Audits : /\ Active(b)' => Active(b)
                        /\ task'[b] = "absent" <=> task[b] = "absent"
                        /\ b # a => task'[b] = task[b]
    BY <1>1, <1>2 DEF Active, Placed
<1>4. Placed'
    BY <1>1, <1>2 DEF Placed
<1>5. Joined'
    BY <1>1, <1>3 DEF Joined
<1>6. Taken'
  <2>1. a \notin collected
      BY <1>1 DEF Taken, Active, Ended
  <2> QED BY <1>1, <1>3, <2>1 DEF Taken, Ended, Placed
<1>7. Begun'
  <2>1. \A b : Skipped(b)' <=> Skipped(b)
      BY <1>1 DEF Skipped
  <2> QED BY <1>1, <1>3, <2>1, Members DEF Begun
<1>8. Lone'
    BY <1>1, <1>3, Members DEF Lone, Placed, Position
<1> QED BY <1>4, <1>5, <1>6, <1>7, <1>8

-----------------------------------------------------------------------------
(* The main thread.                                                        *)

\* A wave begins: what is started belongs to it, and was not taken before.
LEMMA StartWaveKeeps == Inv /\ StartWave => Inv'
<1> SUFFICES ASSUME Inv, StartWave PROVE Inv'
    OBVIOUS
<1> USE DEF Inv, Here
<1>1. /\ at.part = "start" /\ Here \in 1..Circles /\ Here' = Here /\ at'.part = "wave"
      /\ collected' = collected /\ past' = past
    BY DEF StartWave, Goto, Placed, Position
<1>2. \A a \in Audits : task'[a] = IF a \in ToRun(Here) THEN "waiting" ELSE task[a]
    BY DEF StartWave
<1>3. ToRun(Here) \subseteq Parallel[Here]
    BY DEF ToRun
<1>4. \A a \in Audits : ~Active(a)
    BY <1>1 DEF Joined
<1>5. Placed'
    BY <1>1 DEF Placed, StartWave, Goto, Position, Worker
<1>6. Joined'
    BY <1>1, <1>2, <1>3, <1>4 DEF Joined, Active
<1>7. Taken'
  <2>1. ASSUME NEW a \in collected
        PROVE  \E c \in 1..Circles : a \in Parallel[c] /\ c < Here
      BY <1>1, <2>1 DEF Taken
  <2>2. \A a \in collected : a \notin ToRun(Here)
      BY <1>1, <1>3, <2>1, Disjoint
  <2> QED BY <1>1, <1>2, <2>1, <2>2 DEF Taken, Ended, Placed
<1>8. Begun'
  <2>1. \A c \in 1..Circles : \A i \in DOMAIN Serial[c] : Serial[c][i] \notin ToRun(Here)
      BY <1>1, <1>3, Disjoint, Members
  <2>2. \A c \in 1..Circles : \A i \in DOMAIN Serial[c] :
          task'[Serial[c][i]] = task[Serial[c][i]]
      BY <1>2, <2>1, Members
  <2>3. \A b : Skipped(b)' <=> Skipped(b)
      BY <1>1 DEF Skipped
  <2> QED BY <1>1, <2>2, <2>3 DEF Begun
<1>9. Lone'
    BY <1>1 DEF Lone
<1> QED BY <1>5, <1>6, <1>7, <1>8, <1>9

\* A result is taken of a review that has ended.
LEMMA CollectKeeps == ASSUME Inv, NEW a \in Audits, Collect(a) PROVE Inv'
<1> USE DEF Inv, Here
<1>1. /\ at' = at /\ task' = task /\ past' = past /\ collected' = collected \cup {a}
      /\ at.part = "wave" /\ a \in Parallel[Here] /\ Ended(a) /\ Here \in 1..Circles
    BY DEF Collect, Placed, Position
<1>2. Placed' /\ Joined' /\ Lone'
    BY <1>1 DEF Placed, Joined, Lone, Active
<1>3. Taken'
    BY <1>1 DEF Taken, Ended
<1>4. Begun'
    BY <1>1 DEF Begun, Skipped
<1> QED BY <1>2, <1>3, <1>4

\* The main thread goes on to another part when nothing is active.
LEMMA MovesOn ==
  ASSUME Inv, \A a \in Audits : ~Active(a), at' \in Position,
         task' = task, collected' = collected, past' = past,
         \/ Here < Here' \/ (Here' = Here /\ at.part # "start" /\ at'.part # "start"
                             /\ (at.part = "wave" \/ at'.part # "wave"))
  PROVE  Inv'
<1> USE DEF Inv, Here
<1>1. Placed' /\ Joined' /\ Taken'
    BY DEF Placed, Joined, Taken, Active, Ended, Position
<1>2. Lone'
    BY Members DEF Lone, Active, Position
<1>3. Begun'
    BY DEF Begun, Skipped, Placed, Position
<1> QED BY <1>1, <1>2, <1>3

\* The parallel part has been joined when the serial one begins.
LEMMA EndWaveKeeps == Inv /\ EndWave => Inv'
<1> SUFFICES ASSUME Inv, EndWave PROVE Inv'
    OBVIOUS
<1>1. \A a \in Audits : ~Active(a)
  <2> SUFFICES ASSUME NEW a \in Audits, Active(a) PROVE FALSE
      OBVIOUS
  <2>1. a \in Parallel[Here]
      BY DEF EndWave, Inv, Joined
  <2>2. a \in collected
      BY <2>1 DEF EndWave, WaveOver, Active
  <2> QED BY <2>2 DEF Inv, Taken, Active, Ended
<1>2. at' \in Position /\ Here' = Here /\ at.part = "wave" /\ at'.part = "serial"
    BY DEF EndWave, Goto, Inv, Placed, Position, Here
<1>3. task' = task /\ collected' = collected /\ past' = past
    BY DEF EndWave
<1> QED BY <1>1, <1>2, <1>3, MovesOn

\* So has the serial one when the next circle begins.
LEMMA EndSerialKeeps == Inv /\ EndSerial => Inv'
<1> SUFFICES ASSUME Inv, EndSerial PROVE Inv'
    OBVIOUS
<1>1. Here \in 1..Circles /\ at.part = "serial"
    BY DEF EndSerial, Inv, Placed, Position, Here
<1>2. \A a \in Audits : ~Active(a)
  <2> SUFFICES ASSUME NEW a \in Audits, Active(a) PROVE FALSE
      OBVIOUS
  <2>1. a \in SerialSet(Here)
      BY <1>1 DEF Inv, Joined
  <2>2. PICK i \in DOMAIN Serial[Here] : a = Serial[Here][i]
      BY <2>1 DEF SerialSet
  <2>3. ~Skipped(a)
      BY <1>1, <2>2 DEF Inv, Begun, Active
  <2> QED BY <2>1, <2>3 DEF EndSerial, Over, Ended, Active
<1>3. at' \in Position /\ (Here < Here' \/ (Here' = Here /\ at'.part = "consolidate"))
    BY <1>1, WaveAssumption DEF EndSerial, Goto, Position, Here, WaveAssumption
<1>4. task' = task /\ collected' = collected /\ past' = past
    BY DEF EndSerial
<1> QED BY <1>1, <1>2, <1>3, <1>4, MovesOn

\* After the circles nothing is active.
LEMMA EndKeeps == Inv /\ (Consolidate \/ Close \/ Save) => Inv'
<1> SUFFICES ASSUME Inv, Consolidate \/ Close \/ Save PROVE Inv'
    OBVIOUS
<1>1. at.part \in {"consolidate", "close", "save"}
    BY DEF Consolidate, Close, Save
<1>2. \A a \in Audits : ~Active(a)
    BY <1>1 DEF Inv, Joined
<1>3. /\ at' \in Position /\ Here' = Here /\ at'.part \in {"close", "save", "done"}
      /\ task' = task /\ collected' = collected /\ past' = past
    BY DEF Consolidate, Close, Save, Goto, Inv, Placed, Position, Here
<1> QED BY <1>1, <1>2, <1>3, MovesOn

\* A serial review begins when those before it are over, so it is alone.
LEMMA StartSerialKeeps ==
  ASSUME Inv, NEW i \in DOMAIN Serial[Here], StartSerial(i)
  PROVE  Inv'
<1> DEFINE s == Serial[Here][i]
<1> USE DEF Inv, Here
<1>1. /\ at' = at /\ collected' = collected /\ past' = past
      /\ at.part = "serial" /\ Here \in 1..Circles /\ s \in SerialSet(Here) /\ s \in Audits
      /\ task[s] = "absent" /\ ~Skipped(s) /\ task' = [task EXCEPT ![s] = "waiting"]
    BY Members DEF StartSerial, Placed, Position
<1>2. \A j \in DOMAIN Serial[Here] : j < i => Over(Serial[Here][j])
    BY DEF StartSerial
<1>3. \A b \in Audits : b # s => task'[b] = task[b]
    BY <1>1 DEF Placed
<1>4. task'[s] = "waiting"
    BY <1>1 DEF Placed
<1> HIDE DEF s
<1>5. Placed'
    BY <1>1 DEF Placed, Worker
<1>6. Joined'
    BY <1>1, <1>3 DEF Joined, Active
<1>7. Taken'
  <2>1. s \notin collected
      BY <1>1 DEF Taken, Ended
  <2> QED BY <1>1, <1>3, <2>1 DEF Taken, Ended, Placed
<1>8. \A b : Skipped(b)' <=> Skipped(b)
    BY <1>1 DEF Skipped
<1>9. Begun'
  <2>1. ASSUME NEW c \in 1..Circles, NEW k \in DOMAIN Serial[c],
               task'[Serial[c][k]] # "absent", Serial[c][k] # s
        PROVE  /\ c < Here \/ c = Here
               /\ ~Skipped(Serial[c][k])
               /\ \A j \in DOMAIN Serial[c] : j < k =>
                    Skipped(Serial[c][j]) \/ task'[Serial[c][j]] # "absent"
    <3>1. \A j \in DOMAIN Serial[c] : Serial[c][j] \in Audits
        BY Members
    <3>2. task[Serial[c][k]] # "absent"
        BY <1>3, <2>1, <3>1
    <3> QED BY <1>3, <1>4, <2>1, <3>1, <3>2 DEF Begun
  <2>2. ASSUME NEW c \in 1..Circles, NEW k \in DOMAIN Serial[c], Serial[c][k] = s
        PROVE  /\ c = Here
               /\ \A j \in DOMAIN Serial[c] : j < k =>
                    Skipped(Serial[c][j]) \/ task'[Serial[c][j]] # "absent"
    <3>1. c = Here
        BY <1>1, <2>2, Members, Disjoint
    <3>2. ASSUME NEW j \in DOMAIN Serial[c], j < k
          PROVE  Skipped(Serial[c][j]) \/ task'[Serial[c][j]] # "absent"
      <4>1. k = i
          BY <1>1, <2>2, <3>1, WaveAssumption DEF WaveAssumption, s
      <4>2. Over(Serial[c][j]) /\ Serial[c][j] # s
          BY <1>1, <1>2, <3>1, <3>2, <4>1, WaveAssumption DEF WaveAssumption, s
      <4> QED BY <1>3, <3>1, <3>2, <4>2, Members DEF Over, Ended
    <3> QED BY <3>1, <3>2
  <2> QED BY <1>1, <1>8, <2>1, <2>2 DEF Begun
<1>10. Lone'
  <2>1. ASSUME NEW b \in SerialSet(Here), b # s, Active(b)
        PROVE  FALSE
    <3>1. PICK k \in DOMAIN Serial[Here] : b = Serial[Here][k]
        BY DEF SerialSet
    <3>2. i \in Nat /\ k \in Nat /\ i # k
        BY <1>1, <2>1, <3>1, WaveAssumption DEF WaveAssumption, s
    <3>3. ~Skipped(b)
        BY <1>1, <2>1, <3>1 DEF Begun, Active
    <3>4. ~(k < i)
        BY <1>2, <2>1, <3>1, <3>3 DEF Over, Ended, Active
    <3>5. ~(i < k)
        BY <1>1, <2>1, <3>1 DEF Begun, Active, s
    <3> QED BY <3>2, <3>4, <3>5
  <2>2. \A b \in SerialSet(Here) : Active(b)' => b = s
      BY <1>1, <1>3, <2>1, Members DEF Active
  <2> QED BY <1>1, <2>2 DEF Lone
<1> QED BY <1>5, <1>6, <1>7, <1>9, <1>10

\* A new process has started nothing.
LEMMA KillKeeps == Inv /\ Kill => Inv'
<1> SUFFICES ASSUME Inv, Kill PROVE Inv'
    OBVIOUS
<1>1. at' = Start /\ task' = NoTasks /\ collected' = {}
    BY DEF Kill
<1>2. Placed'
    BY <1>1, WaveAssumption DEF Placed, Start, Position, NoTasks, Worker, WaveAssumption
<1>3. \A a \in Audits : task'[a] = "absent"
    BY <1>1 DEF NoTasks
<1>4. Joined' /\ Lone'
    BY <1>1, <1>2, <1>3, Members DEF Joined, Lone, Active, Placed, Position, Here
<1>5. Begun'
  <2>1. \A c \in 1..Circles : \A i \in DOMAIN Serial[c] : task'[Serial[c][i]] = "absent"
      BY <1>3, Members
  <2> QED BY <2>1 DEF Begun
<1> QED BY <1>1, <1>2, <1>4, <1>5 DEF Inv, Taken

-----------------------------------------------------------------------------
(* The theorems.                                                           *)

\* Every step keeps the invariant.
LEMMA InvStep == Inv /\ [Next]_vars => Inv'
<1> SUFFICES ASSUME Inv, [Next]_vars PROVE Inv'
    OBVIOUS
<1>1. CASE MainStep
  <2>1. Here \in 1..Circles
      BY DEF Inv, Placed, Position, Here
  <2> QED BY <1>1, <2>1, StartWaveKeeps, EndWaveKeeps, EndSerialKeeps, EndKeeps,
             CollectKeeps, StartSerialKeeps DEF MainStep
<1>2. CASE \E a \in Audits : WorkerStep(a)
    BY <1>2, WorkerKeeps
<1>3. CASE Kill
    BY <1>3, KillKeeps
<1>4. CASE UNCHANGED vars
    BY <1>4 DEF vars, Inv, Placed, Joined, Taken, Begun, Lone, Active, Ended, Skipped, Here
<1> QED BY <1>1, <1>2, <1>3, <1>4 DEF Next

\* The invariant holds in every reachable state: the main thread has joined
\* the parallel reviews of a circle before its serial ones begin, and begins
\* those one by one in their order.
THEOREM Invariant == Spec => []Inv
<1> QED BY InvInit, InvStep, PTL DEF Spec

\* A review that writes shared truth is dispatched while no other review is,
\* whatever retries, is skipped by the cascade or is replayed after a kill.
THEOREM WritersAlone == Spec => []SharedWritersAlone
<1>1. Inv => SharedWritersAlone
  <2> SUFFICES ASSUME Inv, NEW a \in Dispatching, NEW c \in 1..Circles, a \in SerialSet(c),
                      NEW b \in Dispatching
               PROVE  b = a
      BY DEF SharedWritersAlone
  <2>1. a \in Audits /\ b \in Audits /\ Active(a) /\ Active(b) /\ Here \in 1..Circles
      BY DEF Dispatching, Active, Inv, Placed, Position, Here
  <2>2. at.part = "serial" /\ a \in SerialSet(Here)
      BY <2>1, Disjoint DEF Inv, Joined
  <2>3. b \in SerialSet(Here)
      BY <2>1, <2>2 DEF Inv, Joined
  <2> QED BY <2>1, <2>2, <2>3 DEF Inv, Lone
<1> QED BY <1>1, Invariant, PTL

-----------------------------------------------------------------------------
(* What the audits put on record.                                          *)

\* A review that waits for a permit has a try left, and one that this process
\* did not start has used none.
Patient ==
  \A a \in Audits : /\ task[a] = "waiting" => attempts[a] <= MaxRetries
                    /\ task[a] = "absent" => attempts[a] = 0

\* Parallel reviews begin in the wave of their circle.
Launched ==
  \A c \in 1..Circles : \A a \in Parallel[c] :
    task[a] # "absent" => c < Here \/ (c = Here /\ at.part # "start")

\* The cursor passes the audits with the close alone, and is not saved before;
\* the summary it is decided by lists what any report on disk has found.
Judged ==
  /\ at.part \notin {"save", "done"} => ~st.past
  /\ at.part # "done" => ~disk.past
  /\ at.part = "close" /\ Findings # {} => summary \in {"listed", "echoes"}
  /\ at.part \in {"save", "done"} =>
       /\ Findings # {} => st.blocking /\ st.route = "revise"
       /\ report[ScoreReview] = "pending" => st.asks

RecordInv == TypeOK /\ Patient /\ Launched /\ Judged

LEMMA Bounds ==
  /\ MaxRetries \in Nat /\ MaxKills \in Nat /\ Circles \in Nat /\ 1 \in 1..Circles
  /\ ScoreReview \in Audits /\ \A a \in Audits : Verdicts[a] \subseteq Verdict
BY WaveAssumption DEF WaveAssumption

LEMMA RecordInit == Init => RecordInv
<1> SUFFICES ASSUME Init PROVE RecordInv
    OBVIOUS
<1>1. Fresh \in State
    BY Bounds DEF Fresh, State
<1>2. TypeOK
    BY <1>1, Bounds DEF Init, TypeOK, Start, Position, NoTasks, Worker, Summary, Report
<1>3. Patient /\ Launched
  <2>1. \A a \in Audits : task[a] = "absent" /\ attempts[a] = 0
      BY DEF Init, NoTasks
  <2> QED BY <2>1, Bounds, Members DEF Patient, Launched
<1>4. Judged
    BY Bounds DEF Init, Judged, Start, Fresh, Findings
<1> QED BY <1>2, <1>3, <1>4 DEF RecordInv

\* A worker lands its reports while the main thread waits for it.
LEMMA WorkerRecords ==
  ASSUME Inv, RecordInv, NEW a \in Audits, WorkerStep(a)
  PROVE  RecordInv'
<1>1. /\ Active(a) /\ UNCHANGED <<at, collected, past, summary, st, disk, kills>>
    BY WorkerMoves DEF Inv, WorkerStep, Acquire, Succeeds, FailsTransiently, FailsForGood, Ends
<1>2. PICK w \in Worker \ {"absent"} : task' = [task EXCEPT ![a] = w]
    BY WorkerMoves DEF Inv
<1>3. at.part \in {"wave", "serial"}
    BY <1>1 DEF Inv, Joined
<1>4. /\ task \in [Audits -> Worker] /\ attempts \in [Audits -> 0..(MaxRetries + 1)]
      /\ report \in [Audits -> Report]
    BY DEF RecordInv, TypeOK
<1>5. /\ attempts' \in [Audits -> 0..(MaxRetries + 1)]
      /\ task'[a] = "waiting" => attempts'[a] <= MaxRetries
      /\ \A b \in Audits : b # a => attempts'[b] = attempts[b]
  <2>1. CASE Acquire(a)
    <3>1. /\ attempts' = [attempts EXCEPT ![a] = @ + 1] /\ attempts[a] <= MaxRetries
          /\ task' = [task EXCEPT ![a] = "dispatching"]
        BY <2>1 DEF Acquire, RecordInv, Patient
    <3>2. attempts[a] + 1 \in 0..(MaxRetries + 1)
        BY <1>4, <3>1, Bounds
    <3> QED BY <1>4, <3>1, <3>2
  <2>2. CASE FailsTransiently(a)
    BY <1>4, <2>2, Bounds DEF FailsTransiently, Ends, OutOfRetries
  <2>3. CASE Succeeds(a) \/ FailsForGood(a)
    BY <1>4, <2>3 DEF Succeeds, FailsForGood, Ends
  <2> QED BY <2>1, <2>2, <2>3 DEF WorkerStep
<1>6. report' \in [Audits -> Report]
  <2>1. CASE Acquire(a)
    BY <1>4, <2>1 DEF Acquire
  <2>2. CASE Lands(a)
    <3>1. PICK r \in Verdicts[a] \cup IF Reported(a) THEN {} ELSE {"none"} :
            report' = [report EXCEPT ![a] = r]
        BY <2>2 DEF Lands
    <3>2. r \in Report
        BY <3>1, Bounds DEF Report
    <3> QED BY <1>4, <3>1, <3>2
  <2> QED BY <2>1, <2>2 DEF WorkerStep, Succeeds, FailsTransiently, FailsForGood
<1>7. TypeOK'
    BY <1>1, <1>2, <1>4, <1>5, <1>6 DEF RecordInv, TypeOK
<1>8. Patient' /\ Launched'
  <2>1. \A b \in Audits : b # a => task'[b] = task[b] /\ attempts'[b] = attempts[b]
      BY <1>2, <1>4, <1>5
  <2>2. task'[a] # "absent" /\ task[a] # "absent"
      BY <1>1, <1>2, <1>4 DEF Active
  <2>3. Patient'
      BY <1>5, <2>1, <2>2 DEF RecordInv, Patient
  <2>4. Launched'
      BY <1>1, <2>1, <2>2, Members DEF RecordInv, Launched, Here
  <2> QED BY <2>3, <2>4
<1>9. Judged'
    BY <1>1, <1>3 DEF RecordInv, Judged
<1> QED BY <1>7, <1>8, <1>9 DEF RecordInv

LEMMA StartWaveRecords == Inv /\ RecordInv /\ StartWave => RecordInv'
<1> SUFFICES ASSUME Inv, RecordInv, StartWave PROVE RecordInv'
    OBVIOUS
<1>1. /\ at.part = "start" /\ Here \in 1..Circles /\ Here' = Here /\ at'.part = "wave"
      /\ at' \in Position
      /\ UNCHANGED <<attempts, collected, past, report, summary, st, disk, kills>>
    BY DEF StartWave, Goto, RecordInv, TypeOK, Position, Here
<1>2. \A a \in Audits : task'[a] = IF a \in ToRun(Here) THEN "waiting" ELSE task[a]
    BY DEF StartWave
<1>3. TypeOK'
    BY <1>1 DEF RecordInv, TypeOK, StartWave, Worker
<1>4. \A a \in ToRun(Here) : a \in Parallel[Here] /\ a \in Audits /\ task[a] = "absent"
  <2>1. \A a \in Parallel[Here] : task[a] = "absent"
      BY <1>1 DEF RecordInv, Launched, Position, Here
  <2> QED BY <1>1, <2>1, Members DEF ToRun
<1>5. Patient'
    BY <1>1, <1>2, <1>4, Bounds DEF RecordInv, Patient
<1>6. Launched'
  <2>1. ASSUME NEW c \in 1..Circles, NEW a \in Parallel[c], task'[a] # "absent"
        PROVE  c < Here \/ c = Here
      BY <1>1, <1>2, <1>4, <2>1, Members, Disjoint DEF RecordInv, Launched
  <2> QED BY <1>1, <2>1 DEF Launched
<1>7. Judged'
    BY <1>1 DEF RecordInv, Judged
<1> QED BY <1>3, <1>5, <1>6, <1>7 DEF RecordInv

LEMMA CollectRecords == ASSUME Inv, RecordInv, NEW a \in Audits, Collect(a) PROVE RecordInv'
<1>1. /\ at.part = "wave" /\ collected' = collected \cup {a}
      /\ UNCHANGED <<at, task, attempts, past, report, summary, kills>>
    BY DEF Collect
<1>2. st \in State /\ disk \in State /\ ~st.past /\ ~disk.past
    BY <1>1 DEF RecordInv, TypeOK, Judged
<1>3. /\ st' \in State /\ disk' \in State /\ ~st'.past /\ ~disk'.past
  <2> DEFINE y == [st EXCEPT !.saved = @ \cup {a}]
  <2>1. y \in State /\ ~y.past
      BY <1>2 DEF State
  <2>2. (st' = y /\ disk' = y) \/ (st' = st /\ disk' = disk)
      BY DEF Collect
  <2> HIDE DEF y
  <2> QED BY <1>2, <2>1, <2>2
<1>4. TypeOK'
    BY <1>1, <1>3 DEF RecordInv, TypeOK
<1>5. Judged'
    BY <1>1, <1>3 DEF RecordInv, Judged
<1>6. Patient' /\ Launched'
    BY <1>1 DEF RecordInv, Patient, Launched, Here
<1> QED BY <1>4, <1>5, <1>6 DEF RecordInv

LEMMA StartSerialRecords ==
  ASSUME Inv, RecordInv, NEW i \in DOMAIN Serial[Here], StartSerial(i)
  PROVE  RecordInv'
<1> DEFINE s == Serial[Here][i]
<1>1. /\ at.part = "serial" /\ s \in SerialSet(Here) /\ s \in Audits /\ Here \in 1..Circles
      /\ task[s] = "absent" /\ task' = [task EXCEPT ![s] = "waiting"]
      /\ UNCHANGED <<at, attempts, collected, past, report, summary, st, disk, kills>>
    BY Members DEF StartSerial, RecordInv, TypeOK, Position, Here
<1> HIDE DEF s
<1>2. task \in [Audits -> Worker]
    BY DEF RecordInv, TypeOK
<1>3. TypeOK'
    BY <1>1, <1>2 DEF RecordInv, TypeOK, Worker
<1>4. Patient'
    BY <1>1, <1>2, Bounds DEF RecordInv, Patient
<1>5. Launched'
  <2>1. \A c \in 1..Circles : \A a \in Parallel[c] : a # s /\ a \in Audits
      BY <1>1, Disjoint, Members
  <2> QED BY <1>1, <1>2, <2>1 DEF RecordInv, Launched, Here
<1>6. Judged'
    BY <1>1 DEF RecordInv, Judged
<1> QED BY <1>3, <1>4, <1>5, <1>6 DEF RecordInv

LEMMA EndsRecord == Inv /\ RecordInv /\ (EndWave \/ EndSerial) => RecordInv'
<1> SUFFICES ASSUME Inv, RecordInv, EndWave \/ EndSerial PROVE RecordInv'
    OBVIOUS
<1>1. /\ at \in Position /\ at.part \in {"wave", "serial"} /\ Here \in 1..Circles
      /\ UNCHANGED <<task, attempts, collected, past, report, summary, st, disk, kills>>
    BY DEF EndWave, EndSerial, RecordInv, TypeOK, Position, Here
<1>2. /\ at' \in Position /\ at'.part \in {"serial", "start", "consolidate"}
      /\ (Here' = Here /\ at'.part # "start") \/ Here' = Here + 1
    BY <1>1, Bounds DEF EndWave, EndSerial, Goto, Position, Here
<1>3. TypeOK' /\ Patient'
    BY <1>1, <1>2 DEF RecordInv, TypeOK, Patient
<1>4. Launched'
  <2>1. ASSUME NEW c \in 1..Circles, NEW a \in Parallel[c], task[a] # "absent"
        PROVE  c < Here \/ c = Here
      BY <2>1 DEF RecordInv, Launched
  <2> QED BY <1>1, <1>2, <2>1 DEF Launched
<1>5. Judged'
    BY <1>1, <1>2 DEF RecordInv, Judged
<1> QED BY <1>3, <1>4, <1>5 DEF RecordInv

LEMMA ConsolidateRecords == Inv /\ RecordInv /\ Consolidate => RecordInv'
<1> SUFFICES ASSUME Inv, RecordInv, Consolidate PROVE RecordInv'
    OBVIOUS
<1>1. /\ at.part = "consolidate" /\ at' \in Position /\ at'.part = "close" /\ Here' = Here
      /\ UNCHANGED <<task, attempts, collected, past, report, st, disk, kills>>
    BY DEF Consolidate, Goto, RecordInv, TypeOK, Position, Here
<1>2. summary' \in Summary /\ (Findings # {} => summary' \in {"listed", "echoes"})
    BY DEF Consolidate, Summary
<1>3. TypeOK' /\ Patient' /\ Launched'
    BY <1>1, <1>2 DEF RecordInv, TypeOK, Patient, Launched
<1>4. Judged'
    BY <1>1, <1>2 DEF RecordInv, Judged, Findings
<1> QED BY <1>3, <1>4 DEF RecordInv

\* The close: what any report says is counted and routed.
LEMMA CloseRecords == Inv /\ RecordInv /\ Close => RecordInv'
<1> SUFFICES ASSUME Inv, RecordInv, Close PROVE RecordInv'
    OBVIOUS
<1> DEFINE done     == st.done \cup MarkedDone
           blocking == summary \in {"listed", "echoes"}
           entry    == [a \in Audits |-> Recorded(a)]
           budget   == [a \in Audits |-> Charged(a)]
           asks     == st.asks \/ report[ScoreReview] = "pending"
           y        == [st EXCEPT !.past = TRUE, !.done = done, !.blocking = blocking,
                                  !.entry = entry, !.budget = budget, !.route = Route,
                                  !.asks = asks]
<1>1. /\ at.part = "close" /\ at' \in Position /\ at'.part = "save" /\ Here' = Here
      /\ UNCHANGED <<task, attempts, collected, past, report, summary, disk, kills>>
      /\ st' = y
    BY DEF Close, Goto, RecordInv, TypeOK, Position, Here
<1>2. /\ st \in State /\ attempts \in [Audits -> 0..(MaxRetries + 1)]
      /\ st.budget \in [Audits -> 0..MaxRetries]
      /\ st.entry \in [Audits -> {"none", "passed", "failed"}]
      /\ st.done \in SUBSET Audits /\ st.asks \in BOOLEAN
    BY DEF RecordInv, TypeOK, State
<1>3. /\ done \in SUBSET Audits /\ blocking \in BOOLEAN /\ asks \in BOOLEAN
      /\ Route \in {"none", "pass", "revise"}
    BY <1>2, Members, Bounds DEF MarkedDone, Core, Route
<1>4. entry \in [Audits -> {"none", "passed", "failed"}]
    BY <1>2 DEF Recorded
<1>5. budget \in [Audits -> 0..MaxRetries]
  <2>1. ASSUME NEW a \in Audits PROVE Charged(a) \in 0..MaxRetries
    <3>1. attempts[a] \in 0..(MaxRetries + 1) /\ st.budget[a] \in 0..MaxRetries
        BY <1>2
    <3> QED BY <3>1, Bounds DEF Charged
  <2> QED BY <2>1
<1> HIDE DEF done, blocking, entry, budget, asks
<1>6. /\ y \in State /\ y.blocking = blocking /\ y.route = Route /\ y.asks = asks
    BY <1>2, <1>3, <1>4, <1>5 DEF State
<1> HIDE DEF y
<1>7. TypeOK' /\ Patient' /\ Launched'
    BY <1>1, <1>6 DEF RecordInv, TypeOK, Patient, Launched
<1>8. /\ Findings # {} => y.blocking /\ y.route = "revise"
      /\ report[ScoreReview] = "pending" => y.asks
    BY <1>1, <1>6 DEF RecordInv, Judged, Route, blocking, asks
<1>9. Judged'
    BY <1>1, <1>8 DEF RecordInv, Judged, Findings
<1> QED BY <1>7, <1>9 DEF RecordInv

LEMMA SaveRecords == Inv /\ RecordInv /\ Save => RecordInv'
<1> SUFFICES ASSUME Inv, RecordInv, Save PROVE RecordInv'
    OBVIOUS
<1>1. /\ at.part = "save" /\ at' \in Position /\ at'.part = "done" /\ Here' = Here /\ disk' = st
      /\ UNCHANGED <<task, attempts, collected, past, report, summary, st, kills>>
    BY DEF Save, Goto, RecordInv, TypeOK, Position, Here
<1>2. TypeOK' /\ Patient' /\ Launched'
    BY <1>1 DEF RecordInv, TypeOK, Patient, Launched
<1>3. Judged'
    BY <1>1 DEF RecordInv, Judged, Findings
<1> QED BY <1>2, <1>3 DEF RecordInv

\* A new process has the state of the file, which is not past the audits.
LEMMA KillRecords == Inv /\ RecordInv /\ Kill => RecordInv'
<1> SUFFICES ASSUME Inv, RecordInv, Kill PROVE RecordInv'
    OBVIOUS
<1>1. /\ at' = Start /\ task' = NoTasks /\ attempts' = [a \in Audits |-> 0] /\ collected' = {}
      /\ st' = disk /\ kills < MaxKills /\ kills' = kills + 1 /\ at.part # "done"
      /\ UNCHANGED <<past, report, summary, disk>>
    BY DEF Kill
<1>2. TypeOK'
    BY <1>1, Bounds DEF RecordInv, TypeOK, Start, Position, NoTasks, Worker
<1>3. Patient' /\ Launched'
  <2>1. \A a \in Audits : task'[a] = "absent" /\ attempts'[a] = 0
      BY <1>1 DEF NoTasks
  <2> QED BY <2>1, Bounds, Members DEF Patient, Launched
<1>4. Judged'
    BY <1>1 DEF RecordInv, Judged, Start
<1> QED BY <1>2, <1>3, <1>4 DEF RecordInv

LEMMA RecordStep == Inv /\ RecordInv /\ [Next]_vars => RecordInv'
<1> SUFFICES ASSUME Inv, RecordInv, [Next]_vars PROVE RecordInv'
    OBVIOUS
<1>1. CASE MainStep
  <2>1. Here \in 1..Circles
      BY DEF Inv, Placed, Position, Here
  <2> QED BY <1>1, <2>1, StartWaveRecords, EndsRecord, CollectRecords, StartSerialRecords,
             ConsolidateRecords, CloseRecords, SaveRecords DEF MainStep
<1>2. CASE \E a \in Audits : WorkerStep(a)
    BY <1>2, WorkerRecords
<1>3. CASE Kill
    BY <1>3, KillRecords
<1>4. CASE UNCHANGED vars
    BY <1>4 DEF vars, RecordInv, TypeOK, Patient, Launched, Judged, Here, Findings
<1> QED BY <1>1, <1>2, <1>3, <1>4 DEF Next

LEMMA RecordAlways == Spec => [](Inv /\ RecordInv)
<1>1. Inv /\ RecordInv /\ [Next]_vars => (Inv /\ RecordInv)'
    BY InvStep, RecordStep
<1> QED BY <1>1, InvInit, RecordInit, PTL DEF Spec

\* The state of the wave is well typed; no review is tried more often than its
\* retries allow.
THEOREM TypeCorrect == Spec => []TypeOK
<1>1. RecordInv => TypeOK
    BY DEF RecordInv
<1> QED BY <1>1, RecordAlways, PTL

\* For any circles, permits, retries and kills: past the audits every blocking
\* finding on disk, of whatever process, is on record and routes a revision,
\* and an open score asks a human (chapter_loop.py:4188-4282).
THEOREM FindingsSeen == Spec => []BlockingSeen
<1>1. RecordInv => BlockingSeen
    BY DEF RecordInv, Judged, BlockingSeen, Findings, TypeOK, Position
<1> QED BY <1>1, RecordAlways, PTL
=============================================================================

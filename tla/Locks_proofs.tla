---------------------------- MODULE Locks_proofs ----------------------------
(***************************************************************************)
(* Proofs about the three locks of the code, which share no variable.      *)
(* WriteLock, for any calls and processes and any number of polls: until a *)
(* lock file stands there unprotected, that of safe_write.py is exclusive. *)
(* StateFile, for any number of command slots and updates: under the lock  *)
(* of filelock_utils.py a saved update is lost only to the exit hook, and  *)
(* no thread waits for its own lock. TruthFile, for any calls, processes,  *)
(* files and room in the registry: the locks of truth_io.py exclude        *)
(* although entries are evicted, a keyed write changes the row of its key  *)
(* and no other and leaves a table in one piece, and together the writes   *)
(* are those of KeyedStore.                                                *)
(***************************************************************************)
EXTENDS WriteLock, StateFile, TruthFile, FiniteSetTheorems, SequenceTheorems,
        WellFoundedInduction, TLAPS

-----------------------------------------------------------------------------
(* Types.                                                                  *)

\* A type-correct state stays so in every step.
LEMMA TypeStep == TypeOK /\ [Next]_vars => TypeOK'
<1> USE WriteLockAssumption DEF Places, Judging, Holding, Critical, Over
<1> SUFFICES ASSUME TypeOK, [Next]_vars PROVE TypeOK'
    OBVIOUS
<1>1. ASSUME NEW c \in Calls, Begin(c) \/ ChmodFails(c) PROVE TypeOK'
    BY <1>1 DEF TypeOK, Begin, ChmodFails, Goes, lockVars
<1>2. ASSUME NEW c \in Calls, Flock(c) \/ Record(c) PROVE TypeOK'
    BY <1>2 DEF TypeOK, Flock, Record, Goes, lockVars
<1>10. ASSUME NEW c \in Calls, Again(c), pc[c] \notin Over PROVE TypeOK'
  <2>1. polls' \in [Calls -> 0..Polls]
      BY <1>10 DEF TypeOK, Again
  <2> QED BY <1>10, <2>1 DEF TypeOK, Again, Goes, lockVars
<1>11. ASSUME NEW c \in Calls, Create(c) PROVE TypeOK'
    BY <1>10, <1>11 DEF TypeOK, Create, Goes, lockVars
<1>3. ASSUME NEW c \in Calls, Stat(c) PROVE TypeOK'
    BY <1>10, <1>3 DEF TypeOK, Stat, Goes, lockVars
<1>12. ASSUME NEW c \in Calls, JudgeAge(c) \/ JudgePid(c) \/ Compare(c) PROVE TypeOK'
    BY <1>10, <1>12 DEF TypeOK, JudgeAge, JudgePid, Compare, Goes, lockVars
<1>4. ASSUME NEW c \in Calls, Unlink(c) PROVE TypeOK'
  <2>1. polls' \in [Calls -> 0..Polls]
      BY <1>4 DEF TypeOK, Unlink
  <2> QED BY <1>4, <2>1 DEF TypeOK, Unlink, Unlinked, Goes
<1>5. ASSUME NEW c \in Calls, Read(c) \/ Release(c) PROVE TypeOK'
    BY <1>5 DEF TypeOK, Read, Release, Unlinked, Goes, lockVars
<1>6. ASSUME NEW c \in Calls, Write(c) PROVE TypeOK'
  <2>1. Written(c) \subseteq Calls
      BY DEF Written, TypeOK
  <2> QED BY <1>6, <2>1 DEF TypeOK, Write, Goes, lockVars
<1>7. ASSUME NEW p \in Procs, Kill(p) PROVE TypeOK'
    BY <1>7 DEF TypeOK, Kill, lockVars
<1>8. CASE Age
    BY <1>8 DEF TypeOK, Age
<1>9. CASE UNCHANGED vars
    BY <1>9 DEF TypeOK, vars, lockVars
<1> QED
  <2>1. ASSUME NEW c \in Calls, Step(c) PROVE TypeOK'
      BY <2>1, <1>2, <1>11, <1>3, <1>12, <1>4, <1>5, <1>6 DEF Step
  <2> QED BY <2>1, <1>1, <1>7, <1>8, <1>9 DEF Next

\* Nobody writes at first, and there is no lock file.
LEMMA TypeInit == Init => TypeOK
<1> SUFFICES ASSUME Init PROVE TypeOK
    OBVIOUS
<1>1. pc \in [Calls -> Places] /\ polls \in [Calls -> 0..Polls]
    BY WriteLockAssumption DEF Init, Places
<1>2. seen \in [Calls -> Calls \cup {None}] /\ copy \in [Calls -> SUBSET Calls]
    BY DEF Init
<1> QED BY <1>1, <1>2 DEF Init, TypeOK

\* Every variable keeps its type.
THEOREM TypeCorrect == Spec => []TypeOK
BY TypeInit, TypeStep, PTL DEF Spec

-----------------------------------------------------------------------------
(* Exclusion, until a lock file is left behind or grows old unprotected.   *)

\* Whoever holds the lock has made the lock file, or is the kernel's one
\* holder; and the lock file is a holder's.
Owned ==
  /\ \A c \in Calls : pc[c] \in Holding =>
       IF flock THEN \A d \in Calls : pc[d] \in Holding => d = c ELSE lock = c
  /\ lock # None => ~flock /\ pc[lock] \in Holding
  /\ \A c \in Calls : pc[c] = "record" => ~flock

\* A call that has not ended runs in a live process.
Running == \A c \in Calls : pc[c] \notin Over => ProcOf[c] \in alive

\* A lock that has aged shows the pid of its holder, whom no other thread of
\* its process waits for.
AgedIsShown ==
  /\ aged => lock \in Calls /\ recorded
  /\ aged => \A d \in Calls \ {lock} : ProcOf[d] = ProcOf[lock] => pc[d] \in Over
  /\ \A c \in Calls : pc[c] = "record" => ~aged /\ ~recorded

\* A waiter about to unlink judged a lock file that is gone: the one in its
\* place is another's, and the call that made the first makes no second.
Judged ==
  \A c \in Calls :
    /\ pc[c] # "unlink"
    /\ pc[c] \in {"age", "pid", "compare"} =>
         seen[c] \in Calls /\ pc[seen[c]] \in Holding \cup Over
    /\ pc[c] = "pid" /\ seen[c] = lock => aged
    /\ pc[c] = "compare" => seen[c] # lock

\* Who is about to write has read what the file holds.
Fresh == \A c \in Calls : pc[c] = "write" => copy[c] = file

Sound == Owned /\ Running /\ AgedIsShown /\ Judged /\ Fresh
Inv   == TypeOK /\ (~exposed => Sound)

\* The lock is taken: by flock while nobody holds, by the lock file while
\* there is none.
LEMMA TakesSound ==
  ASSUME TypeOK, Sound, ~exposed, NEW c \in Calls,
         Begin(c) \/ Flock(c) \/ Create(c) \/ Record(c)
  PROVE  Sound'
<1> USE WriteLockAssumption DEF TypeOK, Sound, Judging, Holding, Critical, Over, Goes, lockVars
<1>1. CASE Begin(c)
    BY <1>1 DEF Begin, Owned, Running, AgedIsShown, Judged, Fresh
<1>2. CASE Flock(c)
    BY <1>2 DEF Flock, Owned, Running, AgedIsShown, Judged, Fresh
<1>3. CASE Create(c)
  <2>1. Owned' /\ Running' /\ AgedIsShown'
      BY <1>3 DEF Create, Again, Owned, Running, AgedIsShown
  <2>2. Judged' /\ Fresh'
      BY <1>3 DEF Create, Again, Owned, Judged, Fresh
  <2> QED BY <2>1, <2>2
<1>4. CASE Record(c)
    BY <1>4 DEF Record, Owned, Running, AgedIsShown, Judged, Fresh
<1> QED BY <1>1, <1>2, <1>3, <1>4

\* A waiter that judges a lock file disturbs nothing: the pid in a file that is
\* old is alive, and any other file it finds old is no longer the one it saw.
LEMMA JudgesSound ==
  ASSUME TypeOK, Sound, ~exposed, NEW c \in Calls,
         Stat(c) \/ JudgeAge(c) \/ JudgePid(c) \/ Compare(c) \/ Unlink(c)
  PROVE  Sound'
<1> USE WriteLockAssumption DEF TypeOK, Sound, Judging, Holding, Critical, Over, Goes, lockVars
<1>1. CASE Stat(c)
  <2>1. Owned' /\ Running' /\ AgedIsShown' /\ Fresh'
      BY <1>1 DEF Stat, Again, Owned, Running, AgedIsShown, Fresh
  <2>2. CASE Again(c)
      BY <1>1, <2>1, <2>2 DEF Stat, Again, Judged
  <2>3. CASE ~Again(c)
    <3>1. lock \in Calls /\ pc[lock] \in Holding /\ lock # c
        BY <1>1, <2>3 DEF Stat, Owned
    <3>2. /\ pc[c] = "stat" /\ pc' = [pc EXCEPT ![c] = "age"]
          /\ seen' = [seen EXCEPT ![c] = lock] /\ lock' = lock /\ aged' = aged
        BY <1>1, <2>3 DEF Stat
    <3>3. Judged'
      <4> SUFFICES ASSUME NEW d \in Calls
                   PROVE  /\ pc'[d] # "unlink"
                          /\ pc'[d] \in {"age", "pid", "compare"} =>
                               seen'[d] \in Calls /\ pc'[seen'[d]] \in Holding \cup Over
                          /\ pc'[d] = "pid" /\ seen'[d] = lock' => aged'
                          /\ pc'[d] = "compare" => seen'[d] # lock'
          BY DEF Judged
      <4>1. CASE d = c
          BY <3>1, <3>2, <4>1
      <4>2. CASE d # c
          BY <3>2, <4>2 DEF Judged
      <4> QED BY <4>1, <4>2
    <3> QED BY <2>1, <3>3
  <2> QED BY <2>1, <2>2, <2>3
<1>2. CASE JudgeAge(c)
    BY <1>2 DEF JudgeAge, Again, Owned, Running, AgedIsShown, Judged, Fresh
<1>3. CASE JudgePid(c)
  <2>1. ASSUME seen[c] = lock PROVE HolderAlive(c)
    <3>1. lock \in Calls /\ recorded /\ lock # c /\ pc[lock] \in Holding
        BY <1>3, <2>1 DEF JudgePid, Judged, AgedIsShown, Owned
    <3>2. ProcOf[lock] # ProcOf[c] /\ ProcOf[lock] \in alive
        BY <1>3, <2>1, <3>1 DEF JudgePid, Judged, AgedIsShown, Running
    <3> QED BY <3>1, <3>2 DEF HolderAlive
  <2>2. CASE Again(c)
      BY <1>3, <2>2 DEF JudgePid, Again, Owned, Running, AgedIsShown, Judged, Fresh
  <2>3. CASE ~HolderAlive(c)
    <3>1. seen[c] # lock
        BY <2>1, <2>3
    <3>2. Owned' /\ Running' /\ AgedIsShown' /\ Fresh'
        BY <1>3, <2>3 DEF JudgePid, Owned, Running, AgedIsShown, Fresh
    <3>3. Judged'
        BY <1>3, <2>3, <3>1 DEF JudgePid, Judged
    <3> QED BY <3>2, <3>3
  <2> QED BY <1>3, <2>2, <2>3 DEF JudgePid
<1>4. CASE Compare(c)
    BY <1>4 DEF Compare, Again, Owned, Running, AgedIsShown, Judged, Fresh
<1>5. CASE Unlink(c)
    BY <1>5 DEF Unlink, Judged
<1> QED BY <1>1, <1>2, <1>3, <1>4, <1>5

\* The work under the lock, and its release.
LEMMA WorksSound ==
  ASSUME TypeOK, Sound, ~exposed, NEW c \in Calls, Read(c) \/ Write(c) \/ Release(c)
  PROVE  Sound'
<1> USE WriteLockAssumption DEF TypeOK, Sound, Judging, Holding, Critical, Over, Goes, lockVars
<1>1. CASE Read(c)
    BY <1>1 DEF Read, Owned, Running, AgedIsShown, Judged, Fresh
<1>2. CASE Write(c)
  <2>1. \A d \in Calls : pc[d] = "write" => d = c
      BY <1>2 DEF Write, Owned
  <2> QED BY <1>2, <2>1 DEF Write, Owned, Running, AgedIsShown, Judged, Fresh
<1>3. CASE Release(c)
    BY <1>3 DEF Release, Unlinked, Owned, Running, AgedIsShown, Judged, Fresh
<1> QED BY <1>1, <1>2, <1>3

\* Every step that leaves no lock file behind keeps the invariant.
LEMMA InvStep == Inv /\ [Next]_vars => Inv'
<1> SUFFICES ASSUME Inv, [Next]_vars PROVE Inv'
    OBVIOUS
<1>1. TypeOK'
    BY TypeStep DEF Inv
<1> SUFFICES ASSUME ~exposed' PROVE Sound'
    BY <1>1 DEF Inv
<1> USE DEF Inv, lockVars
<1>2. ~exposed
    BY DEF Next, Step, vars, Begin, ChmodFails, Flock, Create, Record, Stat, JudgeAge, JudgePid,
       Compare, Unlink, Again, Read, Write, Release, Kill, Age
<1>3. ASSUME NEW c \in Calls, Begin(c) \/ ChmodFails(c) \/ Step(c) PROVE Sound'
    BY <1>2, <1>3, TakesSound, JudgesSound, WorksSound DEF Step, ChmodFails
<1>4. ASSUME NEW p \in Procs, Kill(p) PROVE Sound'
    BY <1>2, <1>4, WriteLockAssumption DEF Kill, TypeOK, Sound, Owned, Running, AgedIsShown,
       Judged, Fresh, Judging, Holding, Critical, Over
<1>5. CASE Age
  <2>1. lock \in Calls /\ pc[lock] \in Holding /\ Protected
      BY <1>2, <1>5 DEF Age, TypeOK, Sound, Owned
  <2> QED BY <1>2, <1>5, <2>1 DEF Age, Protected, Sound, Owned, Running, AgedIsShown, Judged, Fresh,
             Holding, Critical
<1>6. CASE UNCHANGED vars
    BY <1>2, <1>6 DEF vars, Sound, Owned, Running, AgedIsShown, Judged, Fresh
<1> QED BY <1>3, <1>4, <1>5, <1>6 DEF Next

\* The inductive invariant holds from the start.
THEOREM Invariant == Spec => []Inv
<1>2. Init => Sound
    BY WriteLockAssumption DEF Init, Sound, Owned, Running, AgedIsShown, Judged,
       Fresh, Judging, Holding, Critical, Over
<1>3. Init => Inv
    BY <1>2, TypeInit DEF Inv
<1> QED BY <1>3, InvStep, PTL DEF Spec

\* Until a lock file is left behind or grows old unprotected, one call at a time
\* is in the file.
THEOREM WriteExclusion == Spec => []Exclusive
<1>1. Inv => Exclusive
    BY DEF Inv, TypeOK, Sound, Owned, Exclusive, Holding
<1> QED BY <1>1, Invariant, PTL

\* Until then the lock file is that of a call in the middle of its work.
THEOREM NoStrayLock == Spec => []NothingLeft
<1>1. Inv => NothingLeft
    BY DEF Inv, Sound, Owned, NothingLeft
<1> QED BY <1>1, Invariant, PTL

\* Until then only a call that overwrites the file loses writes.
THEOREM WritesKept == Spec => LostOnlyToOverwrite
<1>1. Inv /\ [Next]_vars =>
        [~exposed /\ ~(file \subseteq file')
         => \E c \in Calls : pc[c] = "write" /\ KindOf[c] = "overwrite"]_vars
  <2> SUFFICES ASSUME Inv, Next, ~exposed, ~(file \subseteq file')
               PROVE  \E c \in Calls : pc[c] = "write" /\ KindOf[c] = "overwrite"
      OBVIOUS
  <2>1. PICK c \in Calls : Write(c)
      BY DEF Next, Step, lockVars, Begin, ChmodFails, Flock, Create, Record, Stat, JudgeAge,
         JudgePid, Compare, Unlink, Again, Read, Write, Release, Kill, Age
  <2>2. pc[c] = "write" /\ file \subseteq copy[c] /\ ~(file \subseteq Written(c))
      BY <2>1 DEF Write, Inv, Sound, Fresh
  <2>3. KindOf[c] = "overwrite"
      BY <2>2, WriteLockAssumption DEF Written
  <2> QED BY <2>2, <2>3
<1> QED BY <1>1, Invariant, PTL DEF Spec, LostOnlyToOverwrite

-----------------------------------------------------------------------------
(* The state file of several commands.                                     *)

\* flock: who has the write lock has it alone.
Alone == \A p, q \in Slots : mode[p] = "write" /\ p # q => mode[q] = "none"

FileInv == FileTypeOK /\ Alone /\ WorksOnLatest

\* The initial state satisfies the invariant: nobody runs, the file is empty.
LEMMA FileInvInit == FileInit => FileInv
<1> SUFFICES ASSUME FileInit PROVE FileInv
  OBVIOUS
<1>1. FileTypeOK
  BY StateFileAssumption DEF FileInit, FileTypeOK, CommandPlaces, Modes, Contents
<1>2. Alone /\ WorksOnLatest
  BY DEF FileInit, Alone, WorksOnLatest
<1> QED
  BY <1>1, <1>2 DEF FileInv

\* A process that goes takes nothing with it but its own state.
LEMMA GoneInv ==
  ASSUME FileInv, NEW p \in Slots, Gone(p) PROVE FileInv'
<1>1. FileTypeOK'
  BY DEF FileInv, FileTypeOK, Gone, Moves, Holds, CommandPlaces, Modes, Contents
<1>2. Alone' /\ WorksOnLatest'
  BY DEF FileInv, FileTypeOK, Gone, Moves, Holds, Alone, WorksOnLatest
<1> QED
  BY <1>1, <1>2 DEF FileInv

\* A change of place and lock that leaves file and memory alone and is not
\* to "work" keeps WorksOnLatest; the steps that begin and that lock do that.
LEMMA WaitInv ==
  ASSUME FileInv, NEW p \in Slots,
         BeginCommand(p) \/ LockWrite(p) \/ LockRead(p) \/ Status(p) \/ LockExit(p)
  PROVE  FileInv'
<1>1. CASE BeginCommand(p)
  <2>1. FileTypeOK'
    BY <1>1 DEF FileInv, FileTypeOK, BeginCommand, Moves, CommandPlaces
  <2> QED
    BY <1>1, <2>1 DEF FileInv, FileTypeOK, BeginCommand, Moves, Alone, WorksOnLatest
<1>2. CASE LockWrite(p)
  <2>1. FileTypeOK'
    BY <1>2 DEF FileInv, FileTypeOK, LockWrite, Moves, Holds, CommandPlaces, Modes
  <2> QED
    BY <1>2, <2>1 DEF FileInv, FileTypeOK, LockWrite, FreeToWrite, Moves, Holds,
                   Alone, WorksOnLatest
<1>3. CASE LockRead(p)
  <2>1. FileTypeOK'
    BY <1>3 DEF FileInv, FileTypeOK, LockRead, Holds, Modes
  <2> QED
    BY <1>3, <2>1 DEF FileInv, FileTypeOK, LockRead, FreeToRead, Holds, Alone, WorksOnLatest
<1>4. CASE Status(p)
  <2>1. FileTypeOK'
    BY <1>4 DEF FileInv, FileTypeOK, Status, Moves, Holds, CommandPlaces, Modes
  <2> QED
    BY <1>4, <2>1 DEF FileInv, FileTypeOK, Status, Moves, Holds, Alone, WorksOnLatest
<1>5. CASE LockExit(p)
  <2>1. FileTypeOK'
    BY <1>5 DEF FileInv, FileTypeOK, LockExit, Moves, Holds, CommandPlaces, Modes
  <2> QED
    BY <1>5, <2>1 DEF FileInv, FileTypeOK, LockExit, FreeToWrite, Moves, Holds,
                   Alone, WorksOnLatest
<1> QED
  BY <1>1, <1>2, <1>3, <1>4, <1>5

\* Who works holds the write lock, so nobody else works and what it saves
\* can take nothing from another's memory.
LEMMA OnlyOneWorks ==
  ASSUME FileInv, NEW p \in Slots, NEW q \in Slots,
         place[p] \in {"load", "work", "overlay"}, p # q
  PROVE  place[q] \notin {"load", "work", "overlay"}
BY DEF FileInv, FileTypeOK, Alone

\* The steps of a command under the write lock.
LEMMA CommandInv ==
  ASSUME FileInv, NEW p \in Slots,
         Load(p) \/ Work(p) \/ SaveState(p) \/ Shutdown(p) \/ EndCommand(p)
  PROVE  FileInv'
<1>0. \A q \in Slots : p # q => place[q] # "work"
  <2>1. place[p] \in {"load", "work", "overlay"}
    BY DEF Load, Work, SaveState, Shutdown, EndCommand
  <2> QED
    BY <2>1, OnlyOneWorks
<1>1. CASE Load(p)
  <2>1. FileTypeOK'
    BY <1>1 DEF FileInv, FileTypeOK, Load, Moves, CommandPlaces, Contents
  <2> QED
    BY <1>0, <1>1, <2>1 DEF FileInv, FileTypeOK, Load, Moves, Alone, WorksOnLatest
<1>2. CASE Work(p)
  <2>1. updates' \in 1..MaxUpdates
    BY <1>2, StateFileAssumption DEF FileInv, FileTypeOK, Work
  <2>2. mem' \in [Slots -> Contents] /\ armed' \in [Slots -> BOOLEAN]
    BY <1>2, <2>1 DEF FileInv, FileTypeOK, Work, Contents
  <2>3. FileTypeOK'
    BY <1>2, <2>1, <2>2, StateFileAssumption DEF FileInv, FileTypeOK, Work
  <2>4. WorksOnLatest'
    BY <1>2 DEF FileInv, FileTypeOK, Work, WorksOnLatest
  <2> QED
    BY <1>2, <2>3, <2>4 DEF FileInv, Work, Alone
<1>3. CASE SaveState(p)
  <2>1. FileTypeOK'
    BY <1>3 DEF FileInv, FileTypeOK, SaveState
  <2> QED
    BY <1>0, <1>3, <2>1 DEF FileInv, FileTypeOK, SaveState, Alone, WorksOnLatest
<1>4. CASE Shutdown(p)
  <2>1. stateFile' = mem[p] /\ UNCHANGED <<place, mode, mem, armed, updates>>
    BY <1>4 DEF FileInv, FileTypeOK, Shutdown, HolderMode
  <2>2. FileTypeOK'
    BY <1>4, <2>1 DEF FileInv, FileTypeOK, Shutdown
  <2> QED
    BY <1>0, <2>1, <2>2 DEF FileInv, FileTypeOK, Alone, WorksOnLatest
<1>5. CASE EndCommand(p)
  <2>1. FileTypeOK'
    BY <1>5 DEF FileInv, FileTypeOK, EndCommand, Moves, Holds, CommandPlaces, Modes
  <2> QED
    BY <1>0, <1>5, <2>1 DEF FileInv, FileTypeOK, EndCommand, Moves, Holds, Alone, WorksOnLatest
<1> QED
  BY <1>1, <1>2, <1>3, <1>4, <1>5

\* The steps of the exit hook.
LEMMA ExitInv ==
  ASSUME FileInv, NEW p \in Slots, Exit(p) \/ Overlay(p)
  PROVE  FileInv'
<1>1. CASE Exit(p) /\ Gone(p)
  BY <1>1, GoneInv
<1>2. CASE Exit(p) /\ ~Gone(p)
  <2>1. place[p] = "exit" /\ Moves(p, "exitwait")
        /\ UNCHANGED <<mode, mem, armed, cleaned, stateFile, updates>>
    BY <1>2 DEF Exit
  <2>2. FileTypeOK'
    BY <2>1 DEF FileInv, FileTypeOK, Moves, CommandPlaces
  <2> QED
    BY <2>1, <2>2 DEF FileInv, FileTypeOK, Moves, Alone, WorksOnLatest
<1>3. CASE Overlay(p)
  <2>1. \A q \in Slots : p # q => place[q] # "work"
    BY <1>3, OnlyOneWorks DEF Overlay
  <2>2. FileTypeOK'
    BY <1>3 DEF FileInv, FileTypeOK, Overlay, Moves, Holds, CommandPlaces, Modes, Contents
  <2> QED
    BY <1>3, <2>1, <2>2 DEF FileInv, FileTypeOK, Overlay, Moves, Holds, Alone, WorksOnLatest
<1> QED
  BY <1>1, <1>2, <1>3

\* Every step preserves the invariant.
LEMMA FileStep == FileInv /\ [FileNext]_fileVars => FileInv'
<1> SUFFICES ASSUME FileInv, [FileNext]_fileVars PROVE FileInv'
  OBVIOUS
<1>1. ASSUME NEW p \in Slots, CommandStep(p) PROVE FileInv'
  <2>1. CASE TimesOut(p) \/ KillCommand(p)
    BY <2>1, GoneInv DEF TimesOut, KillCommand
  <2> QED
    BY <1>1, <2>1, WaitInv, CommandInv, ExitInv DEF CommandStep
<1>2. CASE UNCHANGED fileVars
  BY <1>2 DEF fileVars, FileInv, FileTypeOK, Alone, WorksOnLatest
<1> QED
  BY <1>1, <1>2 DEF FileNext

\* The invariant: the lock is exclusive, held where it is needed, and who
\* works under it has all that the file has.
THEOREM FileInvariant == FileSpec => []FileInv
BY FileInvInit, FileStep, PTL DEF FileSpec

\* Who works on the state has in memory what the file has.
THEOREM Latest == FileSpec => []WorksOnLatest
BY FileInvariant, PTL DEF FileInv

\* No thread waits for the lock it holds itself.
THEOREM NoSelfDeadlock == FileSpec => []NoSelfWait
<1>1. FileInv => NoSelfWait
  BY DEF FileInv, FileTypeOK, NoSelfWait, Modes
<1> QED
  BY <1>1, FileInvariant, PTL

\* A step that takes an update out of the file is that of an exit hook: a
\* locked load, change and save loses nothing.
THEOREM OnlyExitLoses == FileSpec => LostOnlyAtExit
<1>1. ASSUME FileInv, [FileNext]_fileVars, ~(stateFile \subseteq stateFile')
      PROVE  \E p \in Slots : place[p] = "overlay"
  <2>1. PICK p \in Slots : CommandStep(p)
    BY <1>1 DEF FileNext, fileVars
  <2>2. ~Gone(p)
    BY <1>1 DEF Gone
  <2>3. ~SaveState(p) /\ ~EndCommand(p) /\ ~Shutdown(p)
    BY <1>1 DEF FileInv, WorksOnLatest, SaveState, EndCommand, Shutdown
  <2>4. Overlay(p)
    BY <1>1, <2>1, <2>2, <2>3 DEF CommandStep, BeginCommand, LockWrite, LockRead, Status, TimesOut,
       KillCommand, Load, Work, Exit, LockExit
  <2> QED
    BY <2>4 DEF Overlay
<1>2. FileInv /\ [FileNext]_fileVars
      => [~(stateFile \subseteq stateFile') => \E p \in Slots : place[p] = "overlay"]_fileVars
  BY <1>1
<1> QED
  BY <1>2, FileInvariant, PTL DEF FileSpec, LostOnlyAtExit

-----------------------------------------------------------------------------
(* The registry of truth_io.py.                                            *)

\* What of a state the locks depend on.
LockTypes ==
  /\ posix \in BOOLEAN /\ stage \in [Writes -> Stages]
  /\ registry \in [Programs -> [Paths -> Entry]]
  /\ lockOf \in [Writes -> Writes \cup {NoLock}]
  /\ DOMAIN basis = Writes /\ basis = [c \in Writes |-> basis[c]]
  /\ files = [q \in Paths |-> files[q]]
  /\ \A c \in Writes : Helper(c) => stage[c] \notin {"register", "thread", "unregister"}

\* The calls between the two critical sections of _path_lock.
Refers(c)   == ~Helper(c) /\ stage[c] \in {"thread", "close", "unregister"} \cup Inside
Users(p, q) == {c \in Writes : Refers(c) /\ ProgramOf[c] = p /\ PathOf[c] = q}
Threaded(c) == ~Helper(c) /\ stage[c] \in Inside

\* The count of an entry is that of the calls that refer to it.
Counted ==
  \A p \in Programs, q \in Paths :
    IsFiniteSet(Users(p, q)) /\ registry[p][q].refs = Cardinality(Users(p, q))
\* The entry that a call refers to still has the lock it has looked up.
LookedUp ==
  \A c \in Writes : Refers(c) => lockOf[c] # NoLock /\ MyEntry(c).lock = lockOf[c]
\* Under one lock there is one call.
ThreadAlone ==
  \A c, d \in Writes : c # d /\ Threaded(c) /\ Threaded(d) => lockOf[c] # lockOf[d]
FlockAlone ==
  \A c, d \in Writes : c # d /\ HasFlock(c) /\ HasFlock(d) => PathOf[c] # PathOf[d]

Registered == LockTypes /\ Counted /\ LookedUp
Excluded   == ThreadAlone /\ FlockAlone
TruthInv   == Registered /\ Excluded /\ NothingStale

\* Every call has its process and its path.
LEMMA Whose ==
  \A c \in Writes : ProgramOf[c] \in Programs /\ PathOf[c] \in Paths /\ NoLock \notin Writes
  BY TruthFileAssumption

\* Nobody refers to an entry at first.
LEMMA TruthInvInit == TruthInit => TruthInv
<1> SUFFICES ASSUME TruthInit PROVE TruthInv
  OBVIOUS
<1>1. /\ posix \in BOOLEAN /\ stage = [c \in Writes |-> "idle"]
      /\ lockOf = [c \in Writes |-> NoLock] /\ basis = [c \in Writes |-> <<>>]
      /\ registry = [p \in Programs |-> [q \in Paths |-> NoEntry]]
      /\ files \in [Paths -> UNION {Bases[q] : q \in Paths}]
  BY DEF TruthInit
<1>2. LockTypes
  BY <1>1 DEF LockTypes, Stages, Entry, NoEntry
<1>3. \A c \in Writes : ~Refers(c) /\ ~Threaded(c) /\ ~HasFlock(c) /\ stage[c] # "write"
  BY <1>1 DEF Refers, Threaded, HasFlock, Inside
<1>4. Counted
  <2>1. \A p, q : Users(p, q) = {}
    BY <1>3 DEF Users
  <2>2. \A p \in Programs, q \in Paths : registry[p][q].refs = 0
    BY <1>1 DEF NoEntry
  <2> QED BY <2>1, <2>2, FS_EmptySet DEF Counted
<1> QED BY <1>2, <1>3, <1>4 DEF TruthInv, Registered, Excluded, LookedUp, ThreadAlone,
             FlockAlone, NothingStale

\* A call moves within the registry's two sections, or outside of them.
LEMMA UsersStay ==
  ASSUME LockTypes, NEW c \in Writes, NEW to, Reaches(c, to), Refers(c)' = Refers(c)
  PROVE  \A p, q : Users(p, q)' = Users(p, q)
<1>1. \A d \in Writes : d # c => Refers(d)' = Refers(d)
  BY DEF LockTypes, Reaches, Refers, Helper
<1> QED BY <1>1 DEF Users

\* A step that keeps the calls and the registry keeps what they say of another.
LEMMA RegisteredStays ==
  ASSUME Registered, NEW c \in Writes, NEW to, Reaches(c, to), LockTypes',
         Refers(c)' = Refers(c), UNCHANGED <<registry, lockOf>>
  PROVE  Registered'
<1>1. \A p, q : Users(p, q)' = Users(p, q)
  BY UsersStay DEF Registered
<1>2. Counted'
  BY <1>1 DEF Registered, Counted
<1>3. \A d \in Writes : Refers(d)' => Refers(d)
  BY DEF Registered, LockTypes, Reaches, Refers, Helper
<1>4. LookedUp'
  BY <1>3 DEF Registered, LookedUp, MyEntry
<1> QED BY <1>2, <1>4 DEF Registered

\* A call looks up its lock: the entry of the path as it is, or a new one in
\* place of others that nobody refers to.
LEMMA RegisterKeeps ==
  ASSUME Registered, NEW c \in Writes, Register(c)
  PROVE  Registered'
<1> DEFINE p == ProgramOf[c]
           q == PathOf[c]
<1>1. p \in Programs /\ q \in Paths /\ NoLock \notin Writes
  BY Whose
<1>2. /\ stage[c] = "register" /\ stage' = [stage EXCEPT ![c] = "thread"]
      /\ UNCHANGED <<posix, basis, files>>
  BY DEF Register, Reaches
<1>3. LockTypes /\ ~Helper(c) /\ ~Refers(c)
  BY <1>2 DEF Registered, LockTypes, Refers, Inside
<1>4. /\ stage'[c] = "thread" /\ stage' \in [Writes -> Stages] /\ Refers(c)'
      /\ \A d \in Writes : d # c => Refers(d)' = Refers(d) /\ stage'[d] = stage[d]
  BY <1>2, <1>3 DEF LockTypes, Stages, Refers, Helper
<1>5. /\ Users(p, q)' = Users(p, q) \cup {c} /\ c \notin Users(p, q)
      /\ \A o, r : o # p \/ r # q => Users(o, r)' = Users(o, r)
  BY <1>3, <1>4 DEF Users
<1>6. ASSUME MyEntry(c).lock # NoLock,
             registry' = [registry EXCEPT ![p][q].refs = @ + 1],
             lockOf' = [lockOf EXCEPT ![c] = MyEntry(c).lock]
      PROVE  Registered'
  <2>1. registry[p][q] \in Entry
    BY <1>1, <1>3 DEF LockTypes
  <2>2. /\ registry' \in [Programs -> [Paths -> Entry]]
        /\ registry'[p][q].lock = registry[p][q].lock
        /\ registry'[p][q].refs = registry[p][q].refs + 1
        /\ \A o \in Programs, r \in Paths : o # p \/ r # q => registry'[o][r] = registry[o][r]
    <3> DEFINE more == [registry[p][q] EXCEPT !.refs = @ + 1]
    <3>1. more \in Entry /\ more.lock = registry[p][q].lock /\ more.refs = registry[p][q].refs + 1
      BY <2>1 DEF Entry
    <3>2. registry' = [registry EXCEPT ![p][q] = more]
      BY <1>1, <1>3, <1>6 DEF LockTypes
    <3> HIDE DEF more
    <3> QED BY <1>1, <1>3, <3>1, <3>2 DEF LockTypes
  <2>3. LockTypes'
    <3>1. MyEntry(c).lock \in Writes \cup {NoLock}
      BY <2>1 DEF MyEntry, Entry
    <3>2. lockOf' \in [Writes -> Writes \cup {NoLock}]
      BY <1>3, <1>6, <3>1 DEF LockTypes
    <3>3. \A d \in Writes : Helper(d) => stage'[d] \notin {"register", "thread", "unregister"}
      BY <1>3, <1>4 DEF LockTypes
    <3>4. registry' \in [Programs -> [Paths -> Entry]] /\ stage' \in [Writes -> Stages]
      BY <1>4, <2>2
    <3> QED BY <1>2, <1>3, <3>2, <3>3, <3>4 DEF LockTypes, Helper
  <2>4. Counted'
    <3> SUFFICES ASSUME NEW o \in Programs, NEW r \in Paths
                 PROVE  /\ IsFiniteSet(Users(o, r)')
                        /\ registry'[o][r].refs = Cardinality(Users(o, r)')
      BY DEF Counted
    <3>1. IsFiniteSet(Users(o, r)) /\ registry[o][r].refs = Cardinality(Users(o, r))
      BY DEF Registered, Counted
    <3>2. CASE o = p /\ r = q
      <4>1. /\ IsFiniteSet(Users(p, q) \cup {c})
            /\ Cardinality(Users(p, q) \cup {c}) = Cardinality(Users(p, q)) + 1
        BY <1>5, <3>1, <3>2, FS_AddElement
      <4> QED BY <1>5, <2>2, <3>1, <3>2, <4>1
    <3>3. CASE o # p \/ r # q
      BY <1>5, <2>2, <3>1, <3>3
    <3> QED BY <3>2, <3>3
  <2>5. LookedUp'
    <3> SUFFICES ASSUME NEW d \in Writes, Refers(d)'
                 PROVE  lockOf'[d] # NoLock /\ registry'[ProgramOf[d]][PathOf[d]].lock = lockOf'[d]
      BY DEF LookedUp, MyEntry
    <3>1. registry'[ProgramOf[d]][PathOf[d]].lock = registry[ProgramOf[d]][PathOf[d]].lock
      BY <2>2, Whose
    <3>2. CASE d = c
      BY <1>3, <1>6, <3>1, <3>2 DEF LockTypes, MyEntry
    <3>3. CASE d # c
      <4>1. Refers(d) /\ lockOf'[d] = lockOf[d]
        BY <1>3, <1>4, <1>6, <3>3 DEF LockTypes
      <4> QED BY <3>1, <4>1 DEF Registered, LookedUp, MyEntry
    <3> QED BY <3>2, <3>3
  <2> QED BY <2>3, <2>4, <2>5 DEF Registered
<1>7. ASSUME MyEntry(c).lock = NoLock,
             NEW gone \in SUBSET Evictable(registry[p]),
             registry' = [registry EXCEPT ![p] =
                [r \in Paths |-> IF r = q THEN [lock |-> c, refs |-> 1]
                                 ELSE IF r \in gone THEN NoEntry ELSE @[r]]],
             lockOf' = [lockOf EXCEPT ![c] = c]
      PROVE  Registered'
  <2>1. /\ \A r \in Paths : registry'[p][r] = IF r = q THEN [lock |-> c, refs |-> 1]
                                              ELSE IF r \in gone THEN NoEntry ELSE registry[p][r]
        /\ \A o \in Programs : o # p => registry'[o] = registry[o]
        /\ registry' \in [Programs -> [Paths -> Entry]]
    <3>1. [lock |-> c, refs |-> 1] \in Entry /\ NoEntry \in Entry
      BY DEF Entry, NoEntry
    <3>2. registry[p] \in [Paths -> Entry]
      BY <1>1, <1>3 DEF LockTypes
    <3> QED BY <1>1, <1>3, <1>7, <3>1, <3>2 DEF LockTypes
  <2>2. Users(p, q) = {}
    BY <1>7 DEF Registered, LookedUp, MyEntry, Users
  <2>3. ASSUME NEW r \in gone PROVE r \in Paths /\ Users(p, r) = {}
    <3>1. r \in Paths /\ registry[p][r].refs = 0
      BY <1>7 DEF Evictable
    <3>2. IsFiniteSet(Users(p, r)) /\ Cardinality(Users(p, r)) = 0
      BY <1>1, <3>1 DEF Registered, Counted
    <3> QED BY <3>1, <3>2, FS_EmptySet
  <2>4. LockTypes'
    BY <1>1, <1>2, <1>3, <1>4, <1>7, <2>1 DEF LockTypes, Helper
  <2>5. Counted'
    <3> SUFFICES ASSUME NEW o \in Programs, NEW r \in Paths
                 PROVE  /\ IsFiniteSet(Users(o, r)')
                        /\ registry'[o][r].refs = Cardinality(Users(o, r)')
      BY DEF Counted
    <3>1. IsFiniteSet(Users(o, r)) /\ registry[o][r].refs = Cardinality(Users(o, r))
      BY DEF Registered, Counted
    <3>2. CASE o = p /\ r = q
      <4>1. Users(o, r)' = {c}
        BY <1>5, <2>2, <3>2
      <4>2. registry'[o][r].refs = 1
        BY <2>1, <3>2
      <4> QED BY <4>1, <4>2, FS_Singleton
    <3>3. CASE o = p /\ r # q /\ r \in gone
      <4>1. Users(o, r)' = {}
        BY <1>5, <2>3, <3>3
      <4>2. registry'[o][r].refs = 0
        BY <2>1, <3>3 DEF NoEntry
      <4> QED BY <4>1, <4>2, FS_EmptySet
    <3>4. CASE o # p \/ (r # q /\ r \notin gone)
      <4>1. Users(o, r)' = Users(o, r)
        BY <1>5, <3>4
      <4>2. registry'[o][r] = registry[o][r]
        BY <2>1, <3>4
      <4> QED BY <3>1, <4>1, <4>2
    <3> QED BY <3>2, <3>3, <3>4
  <2>6. LookedUp'
    <3> SUFFICES ASSUME NEW d \in Writes, Refers(d)'
                 PROVE  lockOf'[d] # NoLock /\ registry'[ProgramOf[d]][PathOf[d]].lock = lockOf'[d]
      BY DEF LookedUp, MyEntry
    <3>1. CASE d = c
      BY <1>1, <1>3, <1>7, <2>1, <3>1 DEF LockTypes
    <3>2. CASE d # c
      <4>1. Refers(d) /\ lockOf'[d] = lockOf[d]
        BY <1>3, <1>4, <1>7, <3>2 DEF LockTypes
      <4>2. d \in Users(ProgramOf[d], PathOf[d])
        BY <4>1 DEF Users
      <4>3. ProgramOf[d] \in Programs /\ PathOf[d] \in Paths
        BY Whose
      <4>4. registry'[ProgramOf[d]][PathOf[d]] = registry[ProgramOf[d]][PathOf[d]]
        BY <2>1, <2>2, <2>3, <4>2, <4>3
      <4> QED BY <4>1, <4>4 DEF Registered, LookedUp, MyEntry
    <3> QED BY <3>1, <3>2
  <2> QED BY <2>4, <2>5, <2>6 DEF Registered
<1> QED BY <1>6, <1>7 DEF Register

\* A call that is through takes its reference back.
LEMMA UnregisterKeeps ==
  ASSUME Registered, NEW c \in Writes, Unregister(c)
  PROVE  Registered'
<1> DEFINE p == ProgramOf[c]
           q == PathOf[c]
<1>1. p \in Programs /\ q \in Paths /\ NoLock \notin Writes
  BY Whose
<1>2. /\ stage[c] = "unregister" /\ stage' = [stage EXCEPT ![c] = "done"]
      /\ lockOf' = [lockOf EXCEPT ![c] = NoLock]
      /\ UNCHANGED <<posix, basis, files>>
  BY DEF Unregister, Reaches
<1>3. LockTypes /\ ~Helper(c) /\ Refers(c)
  BY <1>2 DEF Registered, LockTypes, Refers
<1>4. /\ stage'[c] = "done" /\ stage' \in [Writes -> Stages] /\ ~Refers(c)'
      /\ \A d \in Writes : d # c => Refers(d)' = Refers(d) /\ stage'[d] = stage[d]
  BY <1>2, <1>3 DEF LockTypes, Stages, Finished, Refers, Inside, Helper
<1>5. /\ Users(p, q)' = Users(p, q) \ {c} /\ c \in Users(p, q)
      /\ \A o, r : o # p \/ r # q => Users(o, r)' = Users(o, r)
  BY <1>3, <1>4 DEF Users
<1>6. /\ IsFiniteSet(Users(p, q)) /\ registry[p][q].refs = Cardinality(Users(p, q))
      /\ registry[p][q].lock # NoLock
  BY <1>1, <1>3 DEF Registered, Counted, LookedUp, MyEntry
<1>7. /\ IsFiniteSet(Users(p, q)') /\ Cardinality(Users(p, q)') = Cardinality(Users(p, q)) - 1
      /\ Cardinality(Users(p, q)') \in Nat /\ Cardinality(Users(p, q)) \in Nat
  BY <1>5, <1>6, FS_RemoveElement, FS_CardinalityType
<1>8. registry' = [registry EXCEPT ![p][q].refs = @ - 1]
  <2>1. registry[p][q].refs # 0
    BY <1>6, <1>7
  <2> QED BY <1>6, <2>1 DEF Unregister, MyEntry
<1>9. /\ registry' \in [Programs -> [Paths -> Entry]]
      /\ registry'[p][q].lock = registry[p][q].lock
      /\ registry'[p][q].refs = registry[p][q].refs - 1
      /\ \A o \in Programs, r \in Paths : o # p \/ r # q => registry'[o][r] = registry[o][r]
  <2>1. registry[p][q] \in Entry /\ registry[p][q].refs - 1 \in Nat
    BY <1>1, <1>3, <1>6, <1>7 DEF LockTypes
  <2> QED BY <1>1, <1>3, <1>8, <2>1 DEF LockTypes, Entry
<1>10. LockTypes'
  BY <1>1, <1>2, <1>3, <1>4, <1>9 DEF LockTypes, Helper
<1>11. Counted'
  <2> SUFFICES ASSUME NEW o \in Programs, NEW r \in Paths
               PROVE  /\ IsFiniteSet(Users(o, r)')
                      /\ registry'[o][r].refs = Cardinality(Users(o, r)')
    BY DEF Counted
  <2>1. CASE o = p /\ r = q
    BY <1>6, <1>7, <1>9, <2>1
  <2>2. CASE o # p \/ r # q
    BY <1>5, <1>9, <2>2 DEF Registered, Counted
  <2> QED BY <2>1, <2>2
<1>12. LookedUp'
  <2> SUFFICES ASSUME NEW d \in Writes, Refers(d)'
               PROVE  lockOf'[d] # NoLock /\ registry'[ProgramOf[d]][PathOf[d]].lock = lockOf'[d]
    BY DEF LookedUp, MyEntry
  <2>1. d # c /\ Refers(d) /\ lockOf'[d] = lockOf[d]
    BY <1>2, <1>3, <1>4 DEF LockTypes
  <2>2. registry'[ProgramOf[d]][PathOf[d]].lock = registry[ProgramOf[d]][PathOf[d]].lock
    BY <1>9, Whose
  <2> QED BY <2>1, <2>2 DEF Registered, LookedUp, MyEntry
<1> QED BY <1>10, <1>11, <1>12 DEF Registered

\* A process dies, and with it its registry and the calls that refer to it.
LEMMA KillKeeps ==
  ASSUME Registered, NEW p \in Programs, KillProgram(p)
  PROVE  Registered'
<1>1. /\ stage' = [c \in Writes |-> IF ProgramOf[c] = p /\ stage[c] \notin Finished
                                    THEN "dead" ELSE stage[c]]
      /\ registry' = [registry EXCEPT ![p] = [q \in Paths |-> NoEntry]]
      /\ lockOf' = [c \in Writes |-> IF ProgramOf[c] = p THEN NoLock ELSE lockOf[c]]
      /\ basis' = [c \in Writes |-> IF ProgramOf[c] = p THEN <<>> ELSE basis[c]]
      /\ UNCHANGED <<posix, files>>
  BY DEF KillProgram
<1>2. LockTypes
  BY DEF Registered
<1>3. \A c \in Writes : IF ProgramOf[c] = p THEN ~Refers(c)'
                        ELSE Refers(c)' = Refers(c) /\ lockOf'[c] = lockOf[c]
  BY <1>1, <1>2 DEF LockTypes, Refers, Helper, Inside, Finished
<1>4. /\ registry' \in [Programs -> [Paths -> Entry]]
      /\ \A q \in Paths : registry'[p][q].refs = 0
      /\ \A o \in Programs : o # p => registry'[o] = registry[o]
  BY <1>1, <1>2 DEF LockTypes, Entry, NoEntry
<1>5. LockTypes'
  <2>1. stage' \in [Writes -> Stages] /\ lockOf' \in [Writes -> Writes \cup {NoLock}]
    BY <1>1, <1>2 DEF LockTypes, Stages, Finished
  <2>2. \A c \in Writes : Helper(c) => stage'[c] \notin {"register", "thread", "unregister"}
    BY <1>1, <1>2 DEF LockTypes
  <2> QED BY <1>1, <1>2, <1>4, <2>1, <2>2 DEF LockTypes, Helper
<1>6. Counted'
  <2> SUFFICES ASSUME NEW o \in Programs, NEW q \in Paths
               PROVE  /\ IsFiniteSet(Users(o, q)')
                      /\ registry'[o][q].refs = Cardinality(Users(o, q)')
    BY DEF Counted
  <2>1. CASE o = p
    <3>1. Users(o, q)' = {}
      BY <1>3, <2>1 DEF Users
    <3> QED BY <1>4, <2>1, <3>1, FS_EmptySet
  <2>2. CASE o # p
    <3>1. Users(o, q)' = Users(o, q)
      BY <1>3, <2>2 DEF Users
    <3> QED BY <1>4, <2>2, <3>1 DEF Registered, Counted
  <2> QED BY <2>1, <2>2
<1>7. LookedUp'
  BY <1>3, <1>4, Whose DEF Registered, LookedUp, MyEntry
<1> QED BY <1>5, <1>6, <1>7 DEF Registered

\* The other steps leave the registry alone.
LEMMA MovesKeep ==
  ASSUME Registered, NEW c \in Writes,
         \/ BeginWrite(c) \/ TakeThread(c) \/ TakeFlock(c) \/ ReadFile(c)
         \/ WriteFile(c) \/ LeaveThread(c) \/ Close(c)
  PROVE  Registered'
<1>1. LockTypes
  BY DEF Registered
<1>2. UNCHANGED <<posix, registry, lockOf>>
  BY DEF BeginWrite, TakeThread, TakeFlock, ReadFile, WriteFile, LeaveThread, Close
<1>3. PICK to \in Stages :
        /\ Reaches(c, to)
        /\ Helper(c) => to \notin {"register", "thread", "unregister"}
        /\ Refers(c) <=> ~Helper(c) /\ to \in {"thread", "close", "unregister"} \cup Inside
  BY <1>1 DEF BeginWrite, TakeThread, TakeFlock, ReadFile, WriteFile, LeaveThread, Close, Refers,
     Inside, Stages, Finished, LockTypes
<1>4. /\ stage'[c] = to /\ stage' \in [Writes -> Stages]
      /\ \A d \in Writes : d # c => stage'[d] = stage[d]
  BY <1>1, <1>3 DEF LockTypes, Reaches
<1>5. basis' = [d \in Writes |-> basis'[d]] /\ DOMAIN basis' = Writes
  BY <1>1 DEF BeginWrite, TakeThread, TakeFlock, ReadFile, WriteFile, LeaveThread, Close, LockTypes
<1>6. files' = [q \in Paths |-> files'[q]]
  BY <1>1 DEF BeginWrite, TakeThread, TakeFlock, ReadFile, WriteFile, LeaveThread, Close, LockTypes
<1>7. LockTypes'
  BY <1>1, <1>2, <1>3, <1>4, <1>5, <1>6 DEF LockTypes, Helper
<1>8. Refers(c)' = Refers(c)
  BY <1>3, <1>4 DEF Refers, Helper
<1> QED BY <1>2, <1>3, <1>7, <1>8, RegisteredStays

-----------------------------------------------------------------------------
(* Exclusion.                                                              *)

\* Two calls of one process for one path have looked up the same lock.
LEMMA OneLock ==
  ASSUME Registered, NEW c \in Writes, NEW d \in Writes, Refers(c), Refers(d),
         ProgramOf[c] = ProgramOf[d], PathOf[c] = PathOf[d]
  PROVE  lockOf[c] = lockOf[d]
  BY DEF Registered, LookedUp, MyEntry

\* Two calls that exclude one another are not both between their locks.
LEMMA NotBoth ==
  ASSUME Registered, Excluded, NEW c \in Writes, NEW d \in Writes, c # d,
         PathOf[c] = PathOf[d], OneDomain(c, d),
         stage[c] \in {"read", "write", "leave"}, stage[d] \in {"read", "write", "leave"}
  PROVE  FALSE
<1>1. CASE posix
  BY <1>1 DEF Excluded, FlockAlone, HasFlock
<1>2. CASE ~posix
  <2>1. ProgramOf[c] = ProgramOf[d] /\ Threaded(c) /\ Threaded(d) /\ Refers(c) /\ Refers(d)
    BY <1>2 DEF OneDomain, Threaded, Refers, Inside
  <2> QED BY <2>1, OneLock DEF Excluded, ThreadAlone
<1> QED BY <1>1, <1>2

\* A call under the thread lock or the flock had it, or finds it free.
LEMMA Takes ==
  ASSUME Registered, NEW c \in Writes, WriteStep(c)
  PROVE  /\ posix' = posix /\ stage' = [stage EXCEPT ![c] = stage'[c]]
         /\ \A d \in Writes : d # c => lockOf'[d] = lockOf[d]
         /\ Threaded(c)' => /\ lockOf'[c] = lockOf[c]
                            /\ Threaded(c) \/ ~Locked(lockOf[c])
         /\ HasFlock(c)' => \/ HasFlock(c)
                            \/ \A d \in Writes : PathOf[d] = PathOf[c] => ~HasFlock(d)
<1>1. LockTypes
  BY DEF Registered
<1>2. CASE Register(c) \/ Unregister(c)
  BY <1>1, <1>2 DEF LockTypes, Register, Unregister, Reaches, Threaded, HasFlock, Helper, Inside
<1>3. CASE BeginWrite(c)
  BY <1>1, <1>3 DEF LockTypes, BeginWrite, Reaches, Threaded, HasFlock, Helper, Inside
<1>4. CASE TakeThread(c)
  BY <1>1, <1>4 DEF LockTypes, TakeThread, Reaches, Threaded, HasFlock, Helper, Inside
<1>5. CASE TakeFlock(c)
  BY <1>1, <1>5 DEF LockTypes, TakeFlock, Reaches, Threaded, HasFlock, Helper, Inside
<1>6. CASE ReadFile(c) \/ WriteFile(c) \/ LeaveThread(c) \/ Close(c)
  BY <1>1, <1>6 DEF LockTypes, ReadFile, WriteFile, LeaveThread, Close, Reaches, Threaded, HasFlock,
     Helper, Inside
<1> QED BY <1>2, <1>3, <1>4, <1>5, <1>6 DEF WriteStep

\* The locks exclude.
LEMMA ExcludedNext ==
  ASSUME Registered, Excluded, TruthNext
  PROVE  Excluded'
<1>1. LockTypes
  BY DEF Registered
<1>2. ASSUME NEW c \in Writes, WriteStep(c) PROVE Excluded'
  <2>1. /\ posix' = posix /\ stage' = [stage EXCEPT ![c] = stage'[c]]
        /\ \A d \in Writes : d # c => lockOf'[d] = lockOf[d]
        /\ Threaded(c)' => lockOf'[c] = lockOf[c] /\ (Threaded(c) \/ ~Locked(lockOf[c]))
        /\ HasFlock(c)' => \/ HasFlock(c)
                           \/ \A d \in Writes : PathOf[d] = PathOf[c] => ~HasFlock(d)
    BY <1>2, Takes
  <2>2. \A d \in Writes : d # c => Threaded(d)' = Threaded(d) /\ HasFlock(d)' = HasFlock(d)
    BY <1>1, <2>1 DEF LockTypes, Threaded, HasFlock, Helper
  <2>3. ThreadAlone'
    BY <2>1, <2>2 DEF Excluded, ThreadAlone, Locked, Threaded
  <2>4. FlockAlone'
    BY <2>1, <2>2 DEF Excluded, FlockAlone
  <2> QED BY <2>3, <2>4 DEF Excluded
<1>3. ASSUME NEW p \in Programs, KillProgram(p) PROVE Excluded'
  <2>1. \A d \in Writes : /\ Threaded(d)' => Threaded(d) /\ lockOf'[d] = lockOf[d]
                          /\ HasFlock(d)' => HasFlock(d)
    BY <1>1, <1>3 DEF LockTypes, KillProgram, Threaded, HasFlock, Helper, Inside, Finished
  <2> QED BY <2>1 DEF Excluded, ThreadAlone, FlockAlone
<1> QED BY <1>2, <1>3 DEF TruthNext

\* What a call has read is still there when it writes.
LEMMA StaleNext ==
  ASSUME Registered, Excluded, NothingStale, TruthNext
  PROVE  NothingStale'
<1>1. LockTypes
  BY DEF Registered
<1>2. ASSUME NEW d \in Writes, Guarded(d)' PROVE Guarded(d)
  <2>1. \A e \in Writes : stage[e] # "idle" => stage'[e] # "idle"
    <3>1. ASSUME NEW c \in Writes, WriteStep(c)
          PROVE  \E to \in Stages \ {"idle"} : Reaches(c, to)
      BY <3>1 DEF WriteStep, BeginWrite, Register, TakeThread, TakeFlock, ReadFile,
         WriteFile, LeaveThread, Close, Unregister, Stages, Inside, Finished
    <3>2. ASSUME NEW c \in Writes, NEW to \in Stages \ {"idle"}, Reaches(c, to)
          PROVE  \A e \in Writes : stage[e] # "idle" => stage'[e] # "idle"
      BY <1>1, <3>2 DEF LockTypes, Reaches
    <3>3. ASSUME NEW p \in Programs, KillProgram(p)
          PROVE  \A e \in Writes : stage[e] # "idle" => stage'[e] # "idle"
      BY <3>3 DEF KillProgram
    <3> QED BY <3>1, <3>2, <3>3 DEF TruthNext
  <2>2. posix' = posix
    BY DEF TruthNext, WriteStep, BeginWrite, Register, TakeThread, TakeFlock, ReadFile,
       WriteFile, LeaveThread, Close, Unregister, KillProgram
  <2> QED BY <1>2, <2>1, <2>2 DEF Guarded, OneDomain, Helper
<1> SUFFICES ASSUME NEW d \in Writes, stage'[d] = "write", Guarded(d)'
             PROVE  basis'[d] = files'[PathOf[d]]
  BY DEF NothingStale
<1>3. Guarded(d) /\ PathOf[d] \in Paths
  BY <1>2, Whose
<1>4. ASSUME NEW c \in Writes, ReadFile(c) PROVE basis'[d] = files'[PathOf[d]]
  <2>1. d # c => stage[d] = "write" /\ basis'[d] = basis[d]
    BY <1>1, <1>4 DEF ReadFile, Reaches, LockTypes
  <2>2. d = c => basis'[d] = files[PathOf[d]]
    BY <1>1, <1>4 DEF ReadFile, LockTypes
  <2> QED BY <1>3, <1>4, <2>1, <2>2 DEF ReadFile, NothingStale
<1>5. ASSUME NEW c \in Writes, WriteFile(c) PROVE basis'[d] = files'[PathOf[d]]
  <2>1. d # c /\ stage[d] = "write" /\ stage[c] = "write" /\ basis'[d] = basis[d]
    BY <1>1, <1>5 DEF WriteFile, Reaches, LockTypes
  <2>2. PathOf[c] # PathOf[d]
    <3>1. PathOf[c] = PathOf[d] => OneDomain(d, c)
      BY <1>3, <2>1 DEF Guarded
    <3> QED BY <2>1, <3>1, NotBoth
  <2>3. files'[PathOf[d]] = files[PathOf[d]]
    BY <1>1, <1>3, <1>5, <2>2 DEF WriteFile, LockTypes
  <2> QED BY <1>3, <2>1, <2>3 DEF NothingStale
<1>6. ASSUME NEW c \in Writes,
             \/ BeginWrite(c) \/ Register(c) \/ TakeThread(c) \/ TakeFlock(c)
             \/ LeaveThread(c) \/ Close(c) \/ Unregister(c)
      PROVE  basis'[d] = files'[PathOf[d]]
  <2>1. UNCHANGED <<basis, files>> /\ stage[d] = "write"
    BY <1>1, <1>6 DEF LockTypes, BeginWrite, Register, TakeThread, TakeFlock, LeaveThread, Close,
       Unregister, Reaches
  <2> QED BY <1>3, <2>1 DEF NothingStale
<1>7. ASSUME NEW p \in Programs, KillProgram(p) PROVE basis'[d] = files'[PathOf[d]]
  <2>1. files' = files /\ stage[d] = "write" /\ basis'[d] = basis[d]
    BY <1>1, <1>7 DEF LockTypes, KillProgram, Finished
  <2> QED BY <1>3, <2>1 DEF NothingStale
<1> QED BY <1>4, <1>5, <1>6, <1>7 DEF TruthNext, WriteStep

\* The locks, and what is read under them, survive every step.
LEMMA TruthStep == TruthInv /\ [TruthNext]_truthVars => TruthInv'
<1> SUFFICES ASSUME TruthInv, [TruthNext]_truthVars PROVE TruthInv'
  OBVIOUS
<1>1. Registered /\ Excluded /\ NothingStale
  BY DEF TruthInv
<1>2. CASE TruthNext
  <2>1. Registered'
    BY <1>1, <1>2, RegisterKeeps, UnregisterKeeps, KillKeeps, MovesKeep DEF TruthNext, WriteStep
  <2> QED BY <1>1, <1>2, <2>1, ExcludedNext, StaleNext DEF TruthInv
<1>3. CASE UNCHANGED truthVars
  <2>1. Registered'
    <3>1. Counted'
      BY <1>1, <1>3 DEF truthVars, Registered, Counted, Users, Refers
    <3> QED BY <1>1, <1>3, <3>1 DEF truthVars, Registered, LockTypes, LookedUp, MyEntry, Refers
  <2>2. Excluded'
    BY <1>1, <1>3 DEF truthVars, Excluded, ThreadAlone, Threaded, FlockAlone, HasFlock
  <2>3. NothingStale'
    BY <1>1, <1>3 DEF truthVars, NothingStale, Guarded, OneDomain
  <2> QED BY <2>1, <2>2, <2>3 DEF TruthInv
<1> QED BY <1>2, <1>3

\* Whatever calls, processes, paths and room in the registry there are, the
\* locks of truth_io.py exclude (truth_io.py:64-130).
THEOREM TruthInvariant == TruthSpec => []TruthInv
<1> QED BY TruthInvInit, TruthStep, PTL DEF TruthSpec

\* So no call writes what it made of an older file (truth_io.py:64-130).
THEOREM NoneStale == TruthSpec => []NothingStale
<1>1. TruthInv => NothingStale
  BY DEF TruthInv
<1> QED BY <1>1, TruthInvariant, PTL

-----------------------------------------------------------------------------
(* Lines picked from a file.                                               *)

\* Of some numbers one is the least.
LEMMA LeastNumber ==
  ASSUME NEW T \in SUBSET Nat, T # {}
  PROVE  \E m \in T : \A n \in T : m <= n
<1> DEFINE R == {ss \in Nat \X Nat : ss[1] < ss[2]}
<1>1. IsWellFoundedOn(R, Nat)
  BY NatLessThanWellFounded DEF OpToRel
<1>2. PICK m \in T : \A n \in T : <<n, m>> \notin R
  <2> HIDE DEF R
  <2> QED BY <1>1, WFMin
<1>3. ASSUME NEW n \in T PROVE m <= n
  <2>1. ~(n < m)
    BY <1>2
  <2> QED BY <2>1
<1> QED BY <1>3

\* What holds at first and goes on from place to place holds at every place.
LEMMA Upwards ==
  ASSUME NEW n \in Nat, NEW Good, 0 \in Good, \A m \in 1..n : m - 1 \in Good => m \in Good
  PROVE  n \in Good
<1> DEFINE T == {m \in 0..n : m \notin Good}
<1> SUFFICES ASSUME T # {} PROVE FALSE
  OBVIOUS
<1>1. PICK m \in T : \A k \in T : m <= k
  <2>1. T \in SUBSET Nat
    OBVIOUS
  <2> HIDE DEF T
  <2> QED BY <2>1, LeastNumber
<1>2. m \in 1..n /\ m - 1 \in 0..n /\ m \notin Good
  BY <1>1
<1>3. m - 1 \in Good
  BY <1>1, <1>2
<1> QED BY <1>2, <1>3

\* The places of a file are gone through one by one.
LEMMA PickedStepwise ==
  ASSUME NEW lines, NEW places, Len(lines) \in Nat
  PROVE  \E u : /\ u[0] = <<>>
                /\ \A i \in 1..Len(lines) :
                     u[i] = IF i \in places THEN Append(u[i - 1], lines[i]) ELSE u[i - 1]
                /\ Picked(lines, places) = u[Len(lines)]
<1> DEFINE one(before, i) == IF i \in places THEN Append(before, lines[i]) ELSE before
           UpTo(r, m) == r = [i \in 0..m |-> IF i = 0 THEN <<>> ELSE one(r[i - 1], i)]
           Good == {m \in Nat : \E r : UpTo(r, m)}
<1>1. 0 \in Good
  <2>1. UpTo([i \in 0..0 |-> <<>>], 0)
    OBVIOUS
  <2> QED BY <2>1
<1>2. ASSUME NEW m \in Nat, NEW r, UpTo(r, m) PROVE \E q : UpTo(q, m + 1)
  <2> DEFINE q == [i \in 0..(m + 1) |-> IF i <= m THEN r[i] ELSE one(r[m], m + 1)]
  <2> HIDE DEF one
  <2>1. r[0] = <<>>
    BY <1>2
  <2>2. \A i \in 1..m : r[i] = one(r[i - 1], i)
    BY <1>2
  <2>3. \A i \in 0..(m + 1) : q[i] = IF i = 0 THEN <<>> ELSE one(q[i - 1], i)
    <3> SUFFICES ASSUME NEW i \in 0..(m + 1)
                 PROVE  q[i] = IF i = 0 THEN <<>> ELSE one(q[i - 1], i)
      OBVIOUS
    <3>1. CASE i = 0
      BY <2>1, <3>1
    <3>2. CASE i \in 1..m
      <4>1. q[i] = r[i] /\ q[i - 1] = r[i - 1]
        BY <3>2
      <4> QED BY <2>2, <3>2, <4>1
    <3>3. CASE i = m + 1
      <4>1. q[i] = one(r[m], m + 1) /\ q[i - 1] = r[m]
        BY <3>3
      <4> QED BY <3>3, <4>1
    <3> QED BY <3>1, <3>2, <3>3
  <2>4. UpTo(q, m + 1)
    <3>1. q = [i \in 0..(m + 1) |-> q[i]]
      OBVIOUS
    <3> HIDE DEF q
    <3> QED BY <2>3, <3>1
  <2> QED BY <2>4
<1> DEFINE n == Len(lines)
<1>0. n \in Nat
  OBVIOUS
<1>3. \A m \in 1..n : m - 1 \in Good => m \in Good
  <2> SUFFICES ASSUME NEW m \in 1..n, m - 1 \in Good PROVE m \in Good
    OBVIOUS
  <2>1. PICK r : UpTo(r, m - 1)
    OBVIOUS
  <2>2. m - 1 \in Nat /\ (m - 1) + 1 = m
    OBVIOUS
  <2>3. \E q : UpTo(q, (m - 1) + 1)
    BY <1>2, <2>1, <2>2
  <2> HIDE DEF UpTo
  <2> QED BY <2>2, <2>3
<1> DEFINE upto == CHOOSE r : UpTo(r, n)
<1>4. UpTo(upto, n)
  <2>1. n \in Good
    <3> HIDE DEF Good, n
    <3> QED BY <1>0, <1>1, <1>3, Upwards
  <2>2. \E r : UpTo(r, n)
    BY <2>1
  <2> HIDE DEF UpTo
  <2> QED BY <2>2
<1>5. Picked(lines, places) = upto[n]
  BY DEF Picked
<1> HIDE DEF upto
<1>6. upto[0] = <<>> /\ \A i \in 1..n : upto[i] = one(upto[i - 1], i)
  <2> HIDE DEF one
  <2> QED BY <1>4
<1> QED BY <1>5, <1>6

\* The lines of a file that belong to a set.
Within(lines, G) == Picked(lines, {i \in DOMAIN lines : lines[i] \in G})

\* Picked lines are lines of the file.
LEMMA PickedType ==
  ASSUME NEW S, NEW lines \in Seq(S), NEW places
  PROVE  Picked(lines, places) \in Seq(S)
<1> DEFINE n == Len(lines)
<1>1. n \in Nat
  OBVIOUS
<1>2. PICK u : /\ u[0] = <<>>
               /\ \A i \in 1..n : u[i] = IF i \in places THEN Append(u[i - 1], lines[i]) ELSE u[i - 1]
               /\ Picked(lines, places) = u[n]
  BY <1>1, PickedStepwise
<1> DEFINE Good == {m \in Nat : u[m] \in Seq(S)}
<1>3. 0 \in Good
  <2>1. <<>> \in Seq(S)
    OBVIOUS
  <2> QED BY <1>2, <2>1
<1>4. \A m \in 1..n : m - 1 \in Good => m \in Good
  <2> SUFFICES ASSUME NEW m \in 1..n, u[m - 1] \in Seq(S) PROVE u[m] \in Seq(S)
    OBVIOUS
  <2>1. lines[m] \in S
    OBVIOUS
  <2>2. u[m] = u[m - 1] \/ u[m] = Append(u[m - 1], lines[m])
    BY <1>2
  <2>3. \A t \in Seq(S), x \in S : Append(t, x) \in Seq(S)
    OBVIOUS
  <2> QED BY <2>1, <2>2, <2>3
<1>5. n \in Good
  <2> HIDE DEF Good, n
  <2> QED BY <1>1, <1>3, <1>4, Upwards
<1> QED BY <1>2, <1>5

\* A line more at the end.
LEMMA WithinAppend ==
  ASSUME NEW S, NEW lines \in Seq(S), NEW e \in S, NEW G
  PROVE  Within(Append(lines, e), G) = IF e \in G THEN Append(Within(lines, G), e) ELSE Within(lines, G)
<1> DEFINE n == Len(lines)
           more == Append(lines, e)
           P == {i \in DOMAIN lines : lines[i] \in G}
           Q == {i \in DOMAIN more : more[i] \in G}
<1>1. /\ n \in Nat /\ DOMAIN lines = 1..n /\ more \in Seq(S)
      /\ Len(more) = n + 1 /\ DOMAIN more = 1..(n + 1) /\ n + 1 \in Nat
      /\ \A i \in 1..n : more[i] = lines[i]
      /\ more[n + 1] = e
  OBVIOUS
<1>2. PICK u : /\ u[0] = <<>>
               /\ \A i \in 1..n : u[i] = IF i \in P THEN Append(u[i - 1], lines[i]) ELSE u[i - 1]
               /\ Picked(lines, P) = u[n]
  <2> HIDE DEF P
  <2> QED BY <1>1, PickedStepwise
<1>3. PICK v : /\ v[0] = <<>>
               /\ \A i \in 1..(n + 1) : v[i] = IF i \in Q THEN Append(v[i - 1], more[i]) ELSE v[i - 1]
               /\ Picked(more, Q) = v[n + 1]
  <2> HIDE DEF Q, more
  <2> QED BY <1>1, PickedStepwise
<1>4. \A i \in 1..n : i \in P <=> i \in Q
  BY <1>1
<1>5. n + 1 \in Q <=> e \in G
  BY <1>1
<1> HIDE DEF P, Q, more
<1> DEFINE Good == {m \in Nat : u[m] = v[m]}
<1>6. 0 \in Good
  BY <1>2, <1>3
<1>7. \A m \in 1..n : m - 1 \in Good => m \in Good
  BY <1>1, <1>2, <1>3, <1>4
<1>8. u[n] = v[n]
  <2>1. n \in Good
    <3> HIDE DEF Good, n
    <3> QED BY <1>1, <1>6, <1>7, Upwards
  <2> QED BY <2>1
<1>9. v[n + 1] = IF e \in G THEN Append(v[n], e) ELSE v[n]
  BY <1>1, <1>3, <1>5
<1>10. Within(lines, G) = u[n] /\ Within(more, G) = v[n + 1]
  BY <1>2, <1>3 DEF Within, P, Q
<1> QED BY <1>8, <1>9, <1>10 DEF more


\* The lines of a set are lines of the file.
LEMMA WithinType ==
  ASSUME NEW S, NEW lines \in Seq(S), NEW G
  PROVE  Within(lines, G) \in Seq(S)
  BY PickedType DEF Within

\* One line more at the end of a part of a file.
LEMMA PartStep ==
  ASSUME NEW S, NEW t \in Seq(S), NEW m \in 1..Len(t)
  PROVE  /\ SubSeq(t, 1, m - 1) \in Seq(S) /\ t[m] \in S
         /\ SubSeq(t, 1, m) = Append(SubSeq(t, 1, m - 1), t[m])
<1>1. SubSeq(t, 1, m) = SubSeq(t, 1, m - 1) \o <<t[m]>>
  BY SubSeqRecursiveSecond
<1>2. SubSeq(t, 1, m - 1) \in Seq(S) /\ t[m] \in S
  BY SubSeqProperties
<1> QED BY <1>1, <1>2

\* An empty file has none.
LEMMA WithinEmpty ==
  ASSUME NEW G
  PROVE  Within(<<>>, G) = <<>>
<1>1. Len(<<>>) = 0 /\ 0 \in Nat
  OBVIOUS
<1>2. PICK u : u[0] = <<>> /\ Picked(<<>>, {i \in DOMAIN <<>> : <<>>[i] \in G}) = u[Len(<<>>)]
  BY <1>1, PickedStepwise
<1> QED BY <1>1, <1>2 DEF Within

\* Of two parts of a file one is gone through after the other.
LEMMA WithinConcat ==
  ASSUME NEW S, NEW s \in Seq(S), NEW t \in Seq(S), NEW G
  PROVE  Within(s \o t, G) = Within(s, G) \o Within(t, G)
<1> DEFINE n == Len(t)
           part(m) == SubSeq(t, 1, m)
           Good == {m \in Nat : Within(s \o part(m), G) = Within(s, G) \o Within(part(m), G)}
<1>1. n \in Nat /\ Within(s, G) \in Seq(S)
  BY WithinType
<1>2. 0 \in Good
  <2>1. part(0) = <<>>
    BY SubSeqEmpty
  <2>2. s \o <<>> = s /\ Within(s, G) \o <<>> = Within(s, G)
    BY <1>1
  <2> QED BY <2>1, <2>2, WithinEmpty
<1>3. ASSUME NEW m \in 1..n, m - 1 \in Good PROVE m \in Good
  <2> DEFINE x == part(m - 1)
             e == t[m]
  <2>1. x \in Seq(S) /\ e \in S /\ part(m) = Append(x, e)
    BY PartStep
  <2>2. Within(s \o x, G) = Within(s, G) \o Within(x, G)
    BY <1>3
  <2> HIDE DEF x, e, part
  <2>3. s \o Append(x, e) = Append(s \o x, e) /\ s \o x \in Seq(S)
    BY <2>1
  <2>4. Within(Append(s \o x, e), G) =
          IF e \in G THEN Append(Within(s \o x, G), e) ELSE Within(s \o x, G)
    <3> DEFINE y == s \o x
    <3>1. y \in Seq(S)
      BY <2>3
    <3> HIDE DEF y
    <3>2. Within(Append(y, e), G) = IF e \in G THEN Append(Within(y, G), e) ELSE Within(y, G)
      BY <2>1, <3>1, WithinAppend
    <3> QED BY <3>2 DEF y
  <2>5. Within(Append(x, e), G) = IF e \in G THEN Append(Within(x, G), e) ELSE Within(x, G)
    BY <2>1, WithinAppend
  <2>6. Within(x, G) \in Seq(S)
    BY <2>1, WithinType
  <2>7. Within(s, G) \o Append(Within(x, G), e) = Append(Within(s, G) \o Within(x, G), e)
    BY <1>1, <2>1, <2>6
  <2>8. Within(s \o part(m), G) = Within(s, G) \o Within(part(m), G)
    BY <2>1, <2>2, <2>3, <2>4, <2>5, <2>7
  <2> QED BY <2>8
<1>4. n \in Good
  <2> HIDE DEF Good, n
  <2> QED BY <1>1, <1>2, <1>3, Upwards
<1>5. part(n) = t
  BY SubSeqFull
<1> QED BY <1>4, <1>5

\* Nothing of a part that has no line of a set is within it.
LEMMA WithinNothing ==
  ASSUME NEW S, NEW t \in Seq(S), NEW G, \A i \in 1..Len(t) : t[i] \notin G
  PROVE  Within(t, G) = <<>>
<1> DEFINE n == Len(t)
           P == {i \in DOMAIN t : t[i] \in G}
           Good == {m \in Nat : Within(SubSeq(t, 1, m), G) = <<>>}
<1>1. n \in Nat
  OBVIOUS
<1>2. 0 \in Good
  <2>1. SubSeq(t, 1, 0) = <<>>
    BY SubSeqEmpty
  <2> QED BY <2>1, WithinEmpty
<1>3. ASSUME NEW m \in 1..n, m - 1 \in Good PROVE m \in Good
  <2>1. /\ SubSeq(t, 1, m - 1) \in Seq(S) /\ t[m] \in S
        /\ SubSeq(t, 1, m) = Append(SubSeq(t, 1, m - 1), t[m])
    BY PartStep
  <2>2. t[m] \notin G
    OBVIOUS
  <2>3. Within(SubSeq(t, 1, m), G) = Within(SubSeq(t, 1, m - 1), G)
    <3> DEFINE x == SubSeq(t, 1, m - 1)
               e == t[m]
    <3> HIDE DEF x, e
    <3>1. x \in Seq(S) /\ e \in S /\ e \notin G
      BY <2>1, <2>2 DEF x, e
    <3>2. Within(Append(x, e), G) = Within(x, G)
      BY <3>1, WithinAppend
    <3> QED BY <2>1, <3>2 DEF x, e
  <2> QED BY <1>3, <2>3
<1>4. n \in Good
  <2> HIDE DEF Good, n
  <2> QED BY <1>1, <1>2, <1>3, Upwards
<1> QED BY <1>4, SubSeqFull

\* What is dropped or replaced does not belong to the set, nor does what is
\* put there: then the lines of the set are as they were.
LEMMA PickedWithin ==
  ASSUME NEW S, NEW lines \in Seq(S), NEW put \in Seq(S), Len(put) = Len(lines), NEW places, NEW G,
         \A i \in 1..Len(lines) :
           IF i \in places THEN put[i] = lines[i] \/ (put[i] \notin G /\ lines[i] \notin G)
           ELSE lines[i] \notin G
  PROVE  Within(Picked(put, places), G) = Within(lines, G)
<1> DEFINE n == Len(lines)
           P == {i \in DOMAIN lines : lines[i] \in G}
<1>1. n \in Nat /\ Len(put) = n /\ DOMAIN lines = 1..n /\ \A i \in 1..n : put[i] \in S
  OBVIOUS
<1>2. PICK u : /\ u[0] = <<>>
               /\ \A i \in 1..n : u[i] = IF i \in places THEN Append(u[i - 1], put[i]) ELSE u[i - 1]
               /\ Picked(put, places) = u[n]
  <2>1. Len(put) \in Nat
    BY <1>1
  <2>2. \E u : /\ u[0] = <<>>
               /\ \A i \in 1..Len(put) :
                    u[i] = IF i \in places THEN Append(u[i - 1], put[i]) ELSE u[i - 1]
               /\ Picked(put, places) = u[Len(put)]
    BY <2>1, PickedStepwise
  <2> QED BY <1>1, <2>2
<1>3. PICK v : /\ v[0] = <<>>
               /\ \A i \in 1..n : v[i] = IF i \in P THEN Append(v[i - 1], lines[i]) ELSE v[i - 1]
               /\ Picked(lines, P) = v[n]
  <2>1. Len(lines) \in Nat
    OBVIOUS
  <2> HIDE DEF P
  <2> QED BY <2>1, PickedStepwise
<1>4. \A i \in 1..n : i \in P <=> lines[i] \in G
  BY <1>1
<1> HIDE DEF P, n
<1> DEFINE Good == {m \in Nat : u[m] \in Seq(S) /\ Within(u[m], G) = v[m]}
<1>5. 0 \in Good
  <2>1. <<>> \in Seq(S)
    OBVIOUS
  <2> QED BY <1>2, <1>3, <2>1, WithinEmpty
<1>6. ASSUME NEW m \in 1..n, m - 1 \in Good PROVE m \in Good
  <2>1. u[m - 1] \in Seq(S) /\ Within(u[m - 1], G) = v[m - 1] /\ put[m] \in S /\ m \in Nat
    BY <1>1, <1>6
  <2>2. v[m] = IF lines[m] \in G THEN Append(v[m - 1], lines[m]) ELSE v[m - 1]
    BY <1>3, <1>4
  <2>3. CASE m \in places
    <3>1. u[m] = Append(u[m - 1], put[m])
      BY <1>2, <2>3
    <3>2. u[m] \in Seq(S)
      BY <2>1, <3>1
    <3>3. Within(u[m], G) = IF put[m] \in G THEN Append(v[m - 1], put[m]) ELSE v[m - 1]
      <4> DEFINE x == u[m - 1]
                 e == put[m]
      <4> HIDE DEF x, e
      <4>1. x \in Seq(S) /\ e \in S
        BY <2>1 DEF x, e
      <4>2. Within(Append(x, e), G) = IF e \in G THEN Append(Within(x, G), e) ELSE Within(x, G)
        BY <4>1, WithinAppend
      <4> QED BY <2>1, <3>1, <4>2 DEF x, e
    <3>4. put[m] = lines[m] \/ (put[m] \notin G /\ lines[m] \notin G)
      BY <2>3 DEF n
    <3>5. Within(u[m], G) = v[m]
      BY <2>2, <3>3, <3>4
    <3> QED BY <2>1, <3>2, <3>5
  <2>4. CASE m \notin places
    <3>1. u[m] = u[m - 1] /\ lines[m] \notin G
      BY <1>2, <2>4 DEF n
    <3> QED BY <2>1, <2>2, <3>1
  <2> QED BY <2>3, <2>4
<1>7. n \in Good
  <2> HIDE DEF Good
  <2> QED BY <1>1, <1>5, <1>6, Upwards
<1>8. Within(lines, G) = v[n]
  BY <1>3 DEF Within, P
<1> QED BY <1>2, <1>7, <1>8

\* A file keeps its beginning when nothing is dropped of it.
LEMMA PickedBegins ==
  ASSUME NEW S, NEW lines \in Seq(S), NEW places, NEW k \in 1..Len(lines), 1..k \subseteq places
  PROVE  /\ k <= Len(Picked(lines, places))
         /\ \A i \in 1..k : Picked(lines, places)[i] = lines[i]
<1> DEFINE n == Len(lines)
<1>1. n \in Nat /\ k \in Nat /\ 1 <= k /\ k <= n /\ \A i \in 1..n : lines[i] \in S
  OBVIOUS
<1>2. PICK u : /\ u[0] = <<>>
               /\ \A i \in 1..n : u[i] = IF i \in places THEN Append(u[i - 1], lines[i]) ELSE u[i - 1]
               /\ Picked(lines, places) = u[n]
  BY <1>1, PickedStepwise
<1> HIDE DEF n
<1> DEFINE Begins(t, j) == j <= Len(t) /\ \A i \in 1..j : t[i] = lines[i]
           Good == {m \in Nat : /\ u[m] \in Seq(S)
                                /\ m <= k => Len(u[m]) = m /\ Begins(u[m], m)
                                /\ m >= k => Begins(u[m], k)}
<1>3. 0 \in Good
  <2>1. u[0] \in Seq(S) /\ Len(u[0]) = 0
    BY <1>2
  <2>2. Begins(u[0], 0)
    BY <2>1
  <2>3. ~(0 >= k)
    BY <1>1
  <2> HIDE DEF Begins
  <2> QED BY <2>1, <2>2, <2>3
<1>4. ASSUME NEW m \in 1..n, m - 1 \in Good PROVE m \in Good
  <2> DEFINE t == u[m - 1]
  <2>1. t \in Seq(S) /\ lines[m] \in S /\ m \in Nat /\ Len(t) \in Nat
    BY <1>1, <1>4
  <2>2. u[m] = IF m \in places THEN Append(t, lines[m]) ELSE t
    BY <1>2
  <2>3. /\ m - 1 <= k => Len(t) = m - 1 /\ Begins(t, m - 1)
        /\ m - 1 >= k => Begins(t, k)
    BY <1>4
  <2> HIDE DEF t
  <2>4. /\ Append(t, lines[m]) \in Seq(S) /\ Len(Append(t, lines[m])) = Len(t) + 1
        /\ \A i \in 1..Len(t) : Append(t, lines[m])[i] = t[i]
        /\ Append(t, lines[m])[Len(t) + 1] = lines[m]
    BY <2>1
  <2>5. CASE m <= k
    <3>1. u[m] = Append(t, lines[m]) /\ Len(t) = m - 1 /\ Begins(t, m - 1)
      BY <1>1, <2>1, <2>2, <2>3, <2>5
    <3>2. Len(u[m]) = m /\ Begins(u[m], m)
      BY <2>1, <2>4, <3>1
    <3>3. m >= k => Begins(u[m], k)
      <4>1. m >= k => m = k
        BY <1>1, <2>1, <2>5
      <4> QED BY <3>2, <4>1
    <3>4. u[m] \in Seq(S)
      BY <2>4, <3>1
    <3> HIDE DEF Begins
    <3> QED BY <2>1, <3>2, <3>3, <3>4
  <2>6. CASE ~(m <= k)
    <3>1. Begins(t, k)
      BY <1>1, <2>1, <2>3, <2>6
    <3>2. Begins(Append(t, lines[m]), k)
      BY <1>1, <2>1, <2>4, <3>1
    <3> QED BY <1>1, <2>1, <2>2, <2>4, <2>6, <3>1, <3>2
  <2> QED BY <2>5, <2>6
<1>5. n \in Good
  <2> HIDE DEF Good
  <2> QED BY <1>1, <1>3, <1>4, Upwards
<1> QED BY <1>1, <1>2, <1>5

-----------------------------------------------------------------------------
(* The contract's table.                                                   *)

\* The first place is the least.
LEMMA FirstIs ==
  ASSUME NEW P \in SUBSET Nat, NEW m \in P, \A j \in P : m <= j
  PROVE  First(P) = m
<1>1. \A i \in P : (\A j \in P : i <= j) => i = m
  OBVIOUS
<1> QED BY <1>1 DEF First

\* It is one of them.
LEMMA FirstType ==
  ASSUME NEW P \in SUBSET Nat, P # {}
  PROVE  First(P) \in P /\ \A j \in P : First(P) <= j
  BY LeastNumber DEF First

\* The lines that nobody's and the calls' are made of.
LEMMA LinesAre ==
  /\ {Fence, Header, Sep(Width)} \subseteq Line
  /\ \A c \in Writes : Text(c) \in Line /\ NewRow(c) \in Line
  /\ \A c \in Writes : NewRow(c).by = c /\ NewRow(c).kind = "row" /\ NewRow(c).cells = CellsOf[c]
  /\ \A c \in Writes : Text(c).kind = "text" /\ Text(c) # Header
  /\ Fence.kind = "fence" /\ Fence.by = Scaffold
  /\ Header.kind = "row" /\ Header.by = Scaffold /\ Header.cells = <<"A", "B", "now">>
  /\ Sep(Width).kind = "sep" /\ Sep(Width).by = Scaffold
  /\ Width = 3 /\ Fence # Header /\ Scaffold \notin Writes
<1>1. Header.cells = <<"A", "B", "now">> /\ Width = 3
  BY DEF Header, Row, Width
<1>2. <<"A", "B", "now">> \in Seq(Words) /\ <<>> \in Seq(Words)
      /\ [i \in 1..3 |-> "---"] \in Seq(Words)
  <2>1. "A" \in Words /\ "B" \in Words /\ "now" \in Words /\ "---" \in Words
    BY TruthFileAssumption
  <2>2. \A S : \A x, y, z \in S : <<x, y, z>> \in Seq(S)
    OBVIOUS
  <2>3. [i \in 1..3 |-> "---"] \in [1..3 -> Words]
    BY <2>1
  <2>4. [i \in 1..3 |-> "---"] \in Seq(Words)
    BY <2>3, SeqDef
  <2>5. <<"A", "B", "now">> \in Seq(Words)
    BY <2>1, <2>2
  <2> QED BY <2>4, <2>5
<1>3. \A c \in Writes : CellsOf[c] \in Seq(Words)
  BY TruthFileAssumption
<1>4. {Fence, Header, Sep(Width)} \subseteq Line
  BY <1>1, <1>2 DEF Fence, Header, Row, Sep, Line, Authors
<1>5. \A c \in Writes : Text(c) \in Line /\ NewRow(c) \in Line
  BY <1>2, <1>3 DEF Text, NewRow, Row, Line, Authors
<1> QED BY <1>1, <1>4, <1>5, TruthFileAssumption DEF Fence, Header, Row, Sep, Text, NewRow

\* A table that begins with the contract's header is keyed by its two columns.
LEMMA HeadedKeys ==
  ASSUME NEW lines \in Seq(Line), NEW h, HeadedAt(lines, h)
  PROVE  /\ KeyColumns(lines) = <<1, 2>>
         /\ h \in Structural(lines) /\ Named(lines[h]) /\ lines[h].kind = "row"
<1> DEFINE n == Len(lines)
           pipes == Pipes(lines)
           next == After(lines, h)
<1>1. n \in Nat /\ DOMAIN lines = 1..n
  OBVIOUS
<1>2. /\ h \in 1..n /\ h + 1 \in 1..n /\ lines[h] = Header /\ lines[h + 1].kind = "sep"
      /\ \A i \in pipes : i >= h
  BY DEF HeadedAt
<1>3. pipes \in SUBSET Nat /\ h \in pipes /\ h + 1 \in pipes /\ lines[h].kind = "row"
  BY <1>1, <1>2, LinesAre DEF Pipes
<1>4. First(pipes) = h
  <2> HIDE DEF pipes
  <2> QED BY <1>2, <1>3, FirstIs
<1>5. next \in SUBSET Nat /\ h + 1 \in next /\ \A j \in next : h + 1 <= j
  BY <1>1, <1>2, <1>3 DEF After
<1>6. First(next) = h + 1
  <2> HIDE DEF next
  <2> QED BY <1>5, FirstIs
<1>7. OnASep(lines, next)
  BY <1>2, <1>5, <1>6 DEF OnASep
<1>8. h \in Structural(lines)
  BY <1>3, <1>7 DEF Structural
<1> DEFINE cells == lines[h].cells
<1>9. cells = <<"A", "B", "now">> /\ Len(cells) = 3 /\ DOMAIN cells = 1..3
      /\ cells[1] = "A" /\ cells[2] = "B" /\ cells[3] = "now"
  BY <1>2, LinesAre
<1>10. KeyNames[1] = "A" /\ KeyNames[2] = "B" /\ DOMAIN KeyNames = 1..2
  BY DEF KeyNames
<1> HIDE DEF cells
<1>11. Named(lines[h])
  <2>1. Contains(cells, "A") /\ Contains(cells, "B")
    BY <1>9 DEF Contains
  <2> QED BY <1>10, <2>1 DEF Named, cells
<1>12. First({i \in DOMAIN cells : cells[i] = "A"}) = 1
  <2>1. {i \in DOMAIN cells : cells[i] = "A"} = {1}
    BY <1>9
  <2> QED BY <2>1, FirstIs
<1>13. First({i \in DOMAIN cells : cells[i] = "B"}) = 2
  <2>1. {i \in DOMAIN cells : cells[i] = "B"} = {2}
    BY <1>9
  <2> QED BY <2>1, FirstIs
<1>14. KeyColumns(lines) = [k \in DOMAIN KeyNames |->
                              First({i \in DOMAIN cells : cells[i] = KeyNames[k]})]
  BY <1>3, <1>4, <1>7, <1>11 DEF KeyColumns, cells
<1>15. KeyColumns(lines) = <<1, 2>>
  <2> DEFINE column(k) == First({i \in DOMAIN cells : cells[i] = KeyNames[k]})
             at == [k \in DOMAIN KeyNames |-> column(k)]
  <2>1. at[1] = 1 /\ at[2] = 2
    <3>1. /\ {i \in DOMAIN cells : cells[i] = KeyNames[1]} = {i \in DOMAIN cells : cells[i] = "A"}
          /\ {i \in DOMAIN cells : cells[i] = KeyNames[2]} = {i \in DOMAIN cells : cells[i] = "B"}
      BY <1>10
    <3>2. column(1) = 1 /\ column(2) = 2
      BY <1>12, <1>13, <3>1
    <3> HIDE DEF column
    <3> QED BY <1>10, <3>2
  <2>2. at = [k \in 1..2 |-> at[k]]
    BY <1>10
  <2> HIDE DEF at
  <2>3. at = [k \in 1..2 |-> k]
    BY <2>1, <2>2
  <2>4. <<1, 2>> = [k \in 1..2 |-> k]
    OBVIOUS
  <2> QED BY <1>14, <2>3, <2>4 DEF at
<1> QED BY <1>3, <1>8, <1>11, <1>15

\* A file that begins as one with the contract's table has it, too.
LEMMA HeadedBegins ==
  ASSUME NEW lines \in Seq(Line), NEW h, HeadedAt(lines, h), NEW more \in Seq(Line),
         h + 1 <= Len(more), \A i \in 1..(h + 1) : more[i] = lines[i]
  PROVE  HeadedAt(more, h)
<1>1. Len(lines) \in Nat /\ Len(more) \in Nat /\ DOMAIN lines = 1..Len(lines)
      /\ DOMAIN more = 1..Len(more)
  OBVIOUS
<1>2. /\ h \in DOMAIN lines /\ h + 1 \in DOMAIN lines /\ lines[h] = Header
      /\ lines[h + 1].kind = "sep" /\ \A i \in Pipes(lines) : i >= h
  BY DEF HeadedAt
<1>3. h \in 1..(h + 1) /\ h + 1 \in 1..(h + 1) /\ h \in DOMAIN more /\ h + 1 \in DOMAIN more
  BY <1>1, <1>2
<1>4. ASSUME NEW i \in Pipes(more) PROVE i >= h
  <2> SUFFICES ASSUME i < h PROVE FALSE
    BY <1>1, <1>2 DEF Pipes
  <2>1. i \in 1..(h + 1) /\ i \in DOMAIN lines
    BY <1>1, <1>2 DEF Pipes
  <2>2. i \in Pipes(lines)
    BY <2>1 DEF Pipes
  <2> QED BY <1>1, <1>2, <2>1, <2>2
<1> QED BY <1>2, <1>3, <1>4 DEF HeadedAt

\* As is one that has only lines without pipes before such a file.
LEMMA HeadedBehind ==
  ASSUME NEW lines \in Seq(Line), NEW h, HeadedAt(lines, h), NEW x \in Line,
         x.kind \notin {"row", "sep"}
  PROVE  HeadedAt(<<x>> \o lines, h + 1)
<1> DEFINE more == <<x>> \o lines
<1>1. /\ Len(lines) \in Nat /\ DOMAIN lines = 1..Len(lines)
      /\ more \in Seq(Line) /\ Len(more) = Len(lines) + 1 /\ DOMAIN more = 1..(Len(lines) + 1)
      /\ more[1] = x
      /\ \A i \in 1..Len(lines) : more[i + 1] = lines[i]
  OBVIOUS
<1>2. /\ h \in DOMAIN lines /\ h + 1 \in DOMAIN lines /\ lines[h] = Header
      /\ lines[h + 1].kind = "sep" /\ \A i \in Pipes(lines) : i >= h
  BY DEF HeadedAt
<1> HIDE DEF more
<1>3. ASSUME NEW i \in Pipes(more) PROVE i >= h + 1
  <2>1. i \in 1..(Len(lines) + 1) /\ more[i].kind \in {"row", "sep"}
    BY <1>1, <1>3 DEF Pipes
  <2>2. i # 1 /\ i - 1 \in 1..Len(lines) /\ more[(i - 1) + 1] = lines[i - 1]
    BY <1>1, <2>1
  <2>3. (i - 1) + 1 = i
    BY <2>1
  <2>4. i - 1 \in Pipes(lines)
    BY <1>1, <2>1, <2>2, <2>3 DEF Pipes
  <2> QED BY <1>1, <1>2, <2>1, <2>4
<1>4. h + 1 \in DOMAIN more /\ (h + 1) + 1 \in DOMAIN more
      /\ more[h + 1] = lines[h] /\ more[(h + 1) + 1] = lines[h + 1]
  BY <1>1, <1>2
<1>5. HeadedAt(more, h + 1)
  BY <1>2, <1>3, <1>4 DEF HeadedAt
<1> QED BY <1>5 DEF more

-----------------------------------------------------------------------------
(* What a write makes of a file.                                           *)

\* Somebody else's lines but the rows of a call's key.
Data(c) == {x \in Line : x.by \notin {Scaffold, c} /\ ~HasKey(x, NewRow(c), <<1, 2>>)}

\* The lines that a call may write or take away are none of these.
LEMMA NotData ==
  ASSUME NEW c \in Writes
  PROVE  /\ Fence \notin Data(c) /\ Header \notin Data(c) /\ Sep(Width) \notin Data(c)
         /\ NewRow(c) \notin Data(c)
  BY LinesAre DEF Data

\* What is compared of a file before and after a write.
LEMMA OthersAre ==
  ASSUME NEW c \in Writes, NEW lines \in Seq(Line)
  PROVE  Others(lines, c) = Within(lines, Data(c))
<1>1. \A i \in DOMAIN lines : lines[i] \in Line
  OBVIOUS
<1>2. {i \in DOMAIN lines : lines[i].by \notin {Scaffold, c} /\ ~HasKey(lines[i], NewRow(c), <<1, 2>>)}
        = {i \in DOMAIN lines : lines[i] \in Data(c)}
  BY <1>1 DEF Data
<1> QED BY <1>2 DEF Others, Within

\* A file with its fence is the fence and what the file has besides.
LEMMA FenceFirst ==
  ASSUME NEW lines \in Seq(Line)
  PROVE  \E body \in Seq(Line) :
           /\ WithFence(lines) = <<Fence>> \o body /\ Tail(WithFence(lines)) = body
           /\ IF lines # <<>> /\ lines[1] = Fence THEN lines = <<Fence>> \o body ELSE lines = body
<1>1. Fence \in Line
  BY LinesAre
<1>2. CASE lines # <<>> /\ lines[1] = Fence
  <2>1. Tail(lines) \in Seq(Line) /\ lines = <<Fence>> \o Tail(lines)
    BY <1>2
  <2>2. WithFence(lines) = lines
    BY <1>2 DEF WithFence
  <2> QED BY <1>2, <2>1, <2>2
<1>3. CASE ~(lines # <<>> /\ lines[1] = Fence)
  <2>1. WithFence(lines) = <<Fence>> \o lines
    BY <1>3 DEF WithFence
  <2>2. Tail(<<Fence>> \o lines) = lines
    BY <1>1
  <2> QED BY <1>3, <2>1, <2>2
<1> QED BY <1>2, <1>3

\* A file without a table gets one at its end.
LEMMA EnsuredNone ==
  ASSUME NEW lines \in Seq(Line), NoTable(lines)
  PROVE  /\ EnsureTableHeader(lines) = WithFence(lines) \o <<Header, Sep(Width)>>
         /\ WithFence(lines) \in Seq(Line)
         /\ \A i \in 1..Len(WithFence(lines)) : WithFence(lines)[i].kind \notin {"row", "sep"}
<1> DEFINE content == WithFence(lines)
<1>1. PICK body \in Seq(Line) :
        /\ content = <<Fence>> \o body
        /\ IF lines # <<>> /\ lines[1] = Fence THEN lines = <<Fence>> \o body ELSE lines = body
  BY FenceFirst
<1>2. Fence \in Line /\ Fence.kind = "fence" /\ Header.kind = "row"
  BY LinesAre
<1> HIDE DEF content
<1>3. content \in Seq(Line)
  BY <1>1, <1>2
<1>4. \A i \in DOMAIN lines : lines[i].kind \notin {"row", "sep"}
  BY DEF NoTable, Pipes
<1>5. \A i \in 1..Len(content) : content[i].kind \notin {"row", "sep"}
  <2>1. CASE lines = content
    BY <1>3, <1>4, <2>1
  <2>2. CASE lines = body
    <3>1. /\ Len(body) \in Nat /\ DOMAIN body = 1..Len(body) /\ Len(content) = Len(body) + 1
          /\ content[1] = Fence /\ \A i \in 1..Len(body) : content[i + 1] = body[i]
      BY <1>1, <1>2
    <3>2. \A i \in 1..Len(content) : i = 1 \/ (i - 1 \in 1..Len(body) /\ (i - 1) + 1 = i)
      BY <3>1
    <3> QED BY <1>2, <1>4, <2>2, <3>1, <3>2
  <2> QED BY <1>1, <2>1, <2>2
<1>6. Pipes(content) = {} /\ ~Contains(content, Header)
  BY <1>2, <1>3, <1>5 DEF Pipes, Contains
<1>7. EnsureTableHeader(lines) = content \o <<Header, Sep(Width)>>
  BY <1>6 DEF EnsureTableHeader, content
<1> QED BY <1>3, <1>5, <1>7 DEF content

\* One that starts with bare rows gets it before them.
LEMMA EnsuredBare ==
  ASSUME NEW lines \in Seq(Line), Bare(lines)
  PROVE  \E body \in Seq(Line) :
           /\ EnsureTableHeader(lines) = <<Fence, Header, Sep(Width)>> \o body
           /\ body = Tail(WithFence(lines))
           /\ IF lines # <<>> /\ lines[1] = Fence THEN lines = <<Fence>> \o body ELSE lines = body
<1> DEFINE content == WithFence(lines)
<1>1. PICK body \in Seq(Line) :
        /\ content = <<Fence>> \o body /\ Tail(content) = body
        /\ IF lines # <<>> /\ lines[1] = Fence THEN lines = <<Fence>> \o body ELSE lines = body
  BY FenceFirst
<1>2. Fence \in Line /\ Fence.kind = "fence" /\ Header.kind = "row" /\ Fence # Header
  BY LinesAre
<1>3. EnsureTableHeader(lines) =
        IF Contains(content, Header) THEN content
        ELSE IF Pipes(content) = {} THEN content \o <<Header, Sep(Width)>>
        ELSE IF Head(body).kind = "row" THEN <<Fence, Header, Sep(Width)>> \o body
        ELSE content
  BY <1>1 DEF EnsureTableHeader
<1> HIDE DEF content
<1>4. content \in Seq(Line) /\ Len(content) \in Nat /\ Len(body) \in Nat
      /\ DOMAIN content = 1..Len(content) /\ Len(content) = Len(body) + 1 /\ DOMAIN body = 1..Len(body)
      /\ content[1] = Fence /\ \A i \in 1..Len(body) : content[i + 1] = body[i]
  BY <1>1, <1>2
<1>5. \A i \in 1..Len(content) :
         i = 1 \/ (i - 1 \in 1..Len(body) /\ content[i] = body[i - 1])
  <2>1. \A i \in 1..Len(content) : i = 1 \/ (i - 1 \in 1..Len(body) /\ (i - 1) + 1 = i)
    BY <1>4
  <2> QED BY <1>4, <2>1
<1>6. ~Contains(content, Header)
  <2>1. \A i \in DOMAIN lines : lines[i] # Header
    BY DEF Bare, Contains
  <2>2. CASE lines = content
    BY <1>4, <2>1, <2>2 DEF Contains
  <2>3. CASE lines = body
    BY <1>2, <1>4, <1>5, <2>1, <2>3 DEF Contains
  <2> QED BY <1>1, <2>2, <2>3
<1>7. 1 \in 1..Len(body) /\ body[1].kind = "row"
  <2>1. PICK i \in DOMAIN lines \cap {1, 2} : lines[i].kind = "row" /\ (i = 2 => lines[1] = Fence)
    BY DEF Bare
  <2>2. lines # <<>> /\ DOMAIN lines = 1..Len(lines)
    BY <2>1
  <2>3. CASE lines[1] = Fence
    <3>1. lines = content
      BY <1>1, <2>2, <2>3
    <3>2. i = 2
      BY <1>2, <2>1, <2>3
    <3> QED BY <1>4, <2>1, <2>2, <3>1, <3>2
  <2>4. CASE lines[1] # Fence
    <3>1. lines = body /\ i = 1
      BY <1>1, <2>1, <2>4
    <3> QED BY <2>1, <2>2, <3>1
  <2> QED BY <2>3, <2>4
<1>8. Head(body) = body[1] /\ Pipes(content) # {}
  <2>1. 2 \in DOMAIN content /\ content[1 + 1] = body[1]
    BY <1>4, <1>7
  <2>2. 2 \in Pipes(content)
    BY <1>7, <2>1 DEF Pipes
  <2> QED BY <1>7, <2>2
<1> QED BY <1>1, <1>3, <1>6, <1>7, <1>8 DEF content

\* One with the table gets its fence.
LEMMA EnsuredHeaded ==
  ASSUME NEW lines \in Seq(Line), NEW h, HeadedAt(lines, h)
  PROVE  EnsureTableHeader(lines) \in {lines, <<Fence>> \o lines}
<1>1. PICK body \in Seq(Line) :
        /\ WithFence(lines) = <<Fence>> \o body
        /\ IF lines # <<>> /\ lines[1] = Fence THEN lines = <<Fence>> \o body ELSE lines = body
  BY FenceFirst
<1>2. WithFence(lines) \in {lines, <<Fence>> \o lines}
  BY <1>1
<1>3. Contains(lines, Header)
  BY DEF HeadedAt, Contains
<1>4. Contains(<<Fence>> \o lines, Header)
  <2>1. PICK i \in 1..Len(lines) : lines[i] = Header
    BY <1>3 DEF Contains
  <2> DEFINE e == <<Fence>> \o lines
  <2>2. Fence \in Line
    BY LinesAre
  <2>3. e[i + 1] = Header /\ i + 1 \in 1..Len(e) /\ DOMAIN e = 1..Len(e)
    BY <2>1, <2>2
  <2> HIDE DEF e
  <2> QED BY <2>3 DEF e, Contains
<1>5. Contains(WithFence(lines), Header)
  BY <1>2, <1>3, <1>4
<1> QED BY <1>2, <1>5 DEF EnsureTableHeader

\* A table is put first of all, or found there; the rest stays as it is.
LEMMA HeaderEnsured ==
  ASSUME NEW lines, Table(lines), NEW G, Fence \notin G, Header \notin G, Sep(Width) \notin G
  PROVE  /\ EnsureTableHeader(lines) \in Seq(Line) /\ Headed(EnsureTableHeader(lines))
         /\ Within(EnsureTableHeader(lines), G) = Within(lines, G)
         /\ \A i \in DOMAIN lines : \E j \in DOMAIN EnsureTableHeader(lines) :
              EnsureTableHeader(lines)[j] = lines[i]
<1>1. lines \in Seq(Line) /\ {Fence, Header, Sep(Width)} \subseteq Line
  BY LinesAre DEF Table
<1> DEFINE content == WithFence(lines)
           s == Sep(Width)
<1>2. PICK body \in Seq(Line) :
        /\ content = <<Fence>> \o body /\ Tail(content) = body
        /\ IF lines # <<>> /\ lines[1] = Fence THEN lines = <<Fence>> \o body ELSE lines = body
  BY <1>1, FenceFirst
<1>3. /\ Fence.kind = "fence" /\ Header.kind = "row" /\ s.kind = "sep" /\ Fence # Header
      /\ Fence \in Line /\ Header \in Line /\ s \in Line
      /\ Fence \notin G /\ Header \notin G /\ s \notin G
  BY <1>1, LinesAre
<1>4. EnsureTableHeader(lines) =
        IF Contains(content, Header) THEN content
        ELSE IF Pipes(content) = {} THEN content \o <<Header, s>>
        ELSE IF Head(body).kind = "row" THEN <<Fence, Header, s>> \o body
        ELSE content
  BY <1>2 DEF EnsureTableHeader
<1> HIDE DEF content, s
<1>5. content \in Seq(Line) /\ <<Fence>> \in Seq(Line) /\ <<Header, s>> \in Seq(Line)
      /\ <<Fence, Header, s>> \in Seq(Line) /\ Len(content) \in Nat /\ Len(body) \in Nat
      /\ DOMAIN content = 1..Len(content) /\ Len(content) = Len(body) + 1
      /\ content[1] = Fence /\ \A i \in 1..Len(body) : content[i + 1] = body[i]
  BY <1>2, <1>3
<1>13. \A i \in 1..Len(content) :
         i = 1 \/ (i - 1 \in 1..Len(body) /\ content[i] = body[i - 1])
  <2>1. \A i \in 1..Len(content) : i = 1 \/ (i - 1 \in 1..Len(body) /\ (i - 1) + 1 = i)
    BY <1>5
  <2> QED BY <1>5, <2>1
<1>6. Within(<<Fence>>, G) = <<>> /\ Within(<<Header, s>>, G) = <<>> /\ Within(<<Fence, Header, s>>, G) = <<>>
  <2>1. \A i \in 1..Len(<<Fence>>) : <<Fence>>[i] \notin G
    BY <1>3
  <2>2. \A i \in 1..Len(<<Header, s>>) : <<Header, s>>[i] \notin G
    BY <1>3
  <2>3. \A i \in 1..Len(<<Fence, Header, s>>) : <<Fence, Header, s>>[i] \notin G
    BY <1>3
  <2> QED BY <1>5, <2>1, <2>2, <2>3, WithinNothing
<1>7. Within(body, G) \in Seq(Line)
  BY WithinType
<1>8. /\ Within(content, G) = Within(body, G)
      /\ Within(lines, G) = Within(body, G)
      /\ Within(content \o <<Header, s>>, G) = Within(body, G)
      /\ Within(<<Fence, Header, s>> \o body, G) = Within(body, G)
  <2>0. \A x, y \in Seq(Line) : Within(x \o y, G) = Within(x, G) \o Within(y, G)
    BY WithinConcat
  <2>1. Within(<<Fence>> \o body, G) = Within(<<Fence>>, G) \o Within(body, G)
    BY <1>5, <2>0, Zenon
  <2>2. Within(content \o <<Header, s>>, G) = Within(content, G) \o Within(<<Header, s>>, G)
    BY <1>5, <2>0, Zenon
  <2>3. Within(<<Fence, Header, s>> \o body, G) = Within(<<Fence, Header, s>>, G) \o Within(body, G)
    BY <1>5, <2>0, Zenon
  <2>4. <<>> \o Within(body, G) = Within(body, G) /\ Within(body, G) \o <<>> = Within(body, G)
    BY <1>7
  <2>5. Within(content, G) = Within(body, G)
    BY <1>2, <1>6, <2>1, <2>4
  <2>6. Within(lines, G) = Within(body, G)
    BY <1>2, <2>5
  <2> QED BY <1>6, <2>2, <2>3, <2>4, <2>5, <2>6
<1>9. \A i \in DOMAIN lines : \E j \in DOMAIN content : content[j] = lines[i]
  <2>1. CASE lines = content
    BY <2>1
  <2>2. CASE lines = body
    BY <1>5, <2>2
  <2> QED BY <1>2, <2>1, <2>2
<1>10. CASE Headed(lines)
  <2>1. Headed(content)
    <3>1. PICK h \in DOMAIN lines : HeadedAt(lines, h)
      BY <1>10 DEF Headed
    <3>2. CASE lines = content
      BY <3>1, <3>2 DEF Headed
    <3>3. CASE lines = body
      <4>1. HeadedAt(content, h + 1)
        BY <1>1, <1>2, <1>3, <3>1, <3>3, HeadedBehind
      <4> QED BY <4>1 DEF Headed, HeadedAt
    <3> QED BY <1>2, <3>2, <3>3
  <2>2. Contains(content, Header)
    BY <1>5, <2>1 DEF Headed, HeadedAt, Contains
  <2> QED BY <1>4, <1>5, <1>8, <1>9, <2>1, <2>2
<1>11. CASE NoTable(lines)
  <2> DEFINE n == Len(content)
             e == content \o <<Header, s>>
  <2>1. \A i \in 1..n : content[i].kind \notin {"row", "sep"}
    BY <1>1, <1>11, EnsuredNone DEF content
  <2>3. EnsureTableHeader(lines) = e
    BY <1>1, <1>11, EnsuredNone DEF content, s
  <2>4. /\ e \in Seq(Line) /\ Len(e) = n + 2 /\ DOMAIN e = 1..(n + 2)
        /\ \A i \in 1..n : e[i] = content[i]
        /\ e[n + 1] = Header /\ e[n + 2] = s
    BY <1>3, <1>5
  <2>5. HeadedAt(e, n + 1)
    <3>1. n + 1 \in DOMAIN e /\ (n + 1) + 1 \in DOMAIN e /\ (n + 1) + 1 = n + 2
      BY <1>5, <2>4
    <3>2. ASSUME NEW i \in Pipes(e) PROVE i >= n + 1
      <4> HIDE DEF e
      <4>1. i \in 1..(n + 2) /\ e[i].kind \in {"row", "sep"}
        BY <2>4, <3>2 DEF Pipes
      <4> QED BY <1>5, <2>1, <2>4, <4>1
    <3> HIDE DEF e, n
    <3> QED BY <1>3, <2>4, <3>1, <3>2 DEF HeadedAt
  <2>6. Headed(e)
    BY <2>5 DEF Headed, HeadedAt
  <2>7. \A i \in DOMAIN lines : \E j \in DOMAIN e : e[j] = lines[i]
    <3> HIDE DEF e
    <3> QED BY <1>5, <1>9, <2>4
  <2> QED BY <1>8, <2>3, <2>4, <2>6, <2>7
<1>12. CASE Bare(lines)
  <2> DEFINE e == <<Fence, Header, s>> \o body
  <2>4. EnsureTableHeader(lines) = e
    BY <1>1, <1>2, <1>12, EnsuredBare DEF content, s
  <2>5. /\ e \in Seq(Line) /\ Len(e) = Len(body) + 3 /\ DOMAIN e = 1..(Len(body) + 3)
        /\ e[1] = Fence /\ e[2] = Header /\ e[3] = s /\ \A i \in 1..Len(body) : e[i + 3] = body[i]
    BY <1>3, <1>5
  <2>6. HeadedAt(e, 2)
    <3> HIDE DEF e
    <3>1. 2 \in DOMAIN e /\ 2 + 1 \in DOMAIN e /\ 2 + 1 = 3
      BY <1>5, <2>5
    <3>2. ASSUME NEW i \in Pipes(e) PROVE i >= 2
      <4>1. i \in 1..(Len(body) + 3) /\ e[i].kind \in {"row", "sep"}
        BY <2>5, <3>2 DEF Pipes
      <4> QED BY <1>3, <1>5, <2>5, <4>1
    <3> QED BY <1>3, <2>5, <3>1, <3>2 DEF HeadedAt
  <2>7. Headed(e)
    BY <2>6 DEF Headed, HeadedAt
  <2>8. \A i \in DOMAIN lines : \E j \in DOMAIN e : e[j] = lines[i]
    <3> HIDE DEF e
    <3>1. \A i \in 1..Len(body) : i + 3 \in DOMAIN e
      BY <1>5, <2>5
    <3>2. 1 \in DOMAIN e /\ e[1] = content[1]
      BY <1>5, <2>5
    <3>3. ASSUME NEW i \in 1..Len(content) PROVE \E j \in DOMAIN e : e[j] = content[i]
      <4>1. CASE i = 1
        BY <3>2, <4>1
      <4>2. CASE i # 1
        <5>1. (i - 1) + 3 \in DOMAIN e /\ e[(i - 1) + 3] = content[i]
          BY <1>13, <2>5, <3>1, <4>2
        <5> QED BY <5>1
      <4> QED BY <4>1, <4>2
    <3>4. \A i \in DOMAIN lines : \E k \in 1..Len(content) : content[k] = lines[i]
      BY <1>5, <1>9
    <3> QED BY <3>3, <3>4
  <2> QED BY <1>8, <2>4, <2>5, <2>7, <2>8
<1> QED BY <1>10, <1>11, <1>12 DEF Table

\* In a headed table a new row comes after the header and its separator.
LEMMA TailBehind ==
  ASSUME NEW lines \in Seq(Line), NEW h, HeadedAt(lines, h)
  PROVE  KeyTableTail(lines) \in (h + 2)..(Len(lines) + 1)
<1> DEFINE n == Len(lines)
           heads == {i \in Structural(lines) : lines[i].kind = "row" /\ Named(lines[i])}
           head  == First(heads)
           width(j) == Len(lines[j].cells)
           ends  == {j \in DOMAIN lines :
                      /\ j > head
                      /\ \/ j \notin Pipes(lines)
                         \/ /\ lines[j].kind = "row" /\ width(j) # width(head)
                            /\ j + 1 \in Pipes(lines) /\ width(j + 1) = width(j)}
<1>1. /\ n \in Nat /\ DOMAIN lines = 1..n /\ h \in 1..n /\ h + 1 \in 1..n
      /\ lines[h + 1].kind = "sep" /\ \A i \in Pipes(lines) : i >= h
  BY DEF HeadedAt
<1>2. KeyTableTail(lines) = IF heads = {} \/ ends = {} THEN n + 1 ELSE First(ends)
  BY DEF KeyTableTail
<1>3. heads \in SUBSET Nat /\ h \in heads /\ \A j \in heads : h <= j
  BY <1>1, HeadedKeys DEF Structural, Pipes
<1>4. head = h
  <2> HIDE DEF heads
  <2> QED BY <1>3, FirstIs
<1>5. h + 1 \in Pipes(lines) /\ lines[h + 1].kind # "row"
  BY <1>1 DEF Pipes
<1> HIDE DEF heads
<1>6. \A j \in ends : j \in 1..n /\ j > h /\ j # h + 1
  BY <1>1, <1>4, <1>5
<1> HIDE DEF ends, head
<1>7. CASE ends = {}
  BY <1>1, <1>2, <1>7
<1>8. CASE ends # {}
  <2>1. ends \in SUBSET Nat
    BY <1>1, <1>6
  <2>2. First(ends) \in ends
    BY <1>8, <2>1, FirstType
  <2>3. KeyTableTail(lines) = First(ends)
    BY <1>2, <1>3, <1>8
  <2> QED BY <1>1, <1>6, <2>2, <2>3
<1> QED BY <1>7, <1>8

\* A row put in between leaves what is before and behind it.
LEMMA InsertedAt ==
  ASSUME NEW lines \in Seq(Line), NEW row \in Line, NEW t \in 1..(Len(lines) + 1),
         NEW G, row \notin G
  PROVE  /\ InsertAt(lines, t, row) \in Seq(Line) /\ t <= Len(InsertAt(lines, t, row))
         /\ \A i \in 1..(t - 1) : InsertAt(lines, t, row)[i] = lines[i]
         /\ Within(InsertAt(lines, t, row), G) = Within(lines, G)
<1> DEFINE n == Len(lines)
           s1 == SubSeq(lines, 1, t - 1)
           s2 == SubSeq(lines, t, n)
           mid == <<row>>
<1>1. n \in Nat /\ t \in Nat /\ t - 1 \in 0..n /\ DOMAIN lines = 1..n /\ \A i \in 1..n : lines[i] \in Line
  OBVIOUS
<1>2. s1 \in Seq(Line) /\ Len(s1) = t - 1 /\ \A i \in 1..(t - 1) : s1[i] = lines[i]
  <2>1. \A i \in 1..(t - 1) : lines[i] \in Line
    BY <1>1
  <2>2. /\ SubSeq(lines, 1, t - 1) \in Seq(Line)
        /\ Len(SubSeq(lines, 1, t - 1)) = IF 1 <= t - 1 THEN (t - 1) - 1 + 1 ELSE 0
        /\ \A i \in 1..((t - 1) - 1 + 1) : SubSeq(lines, 1, t - 1)[i] = lines[1 + i - 1]
    BY <1>1, <2>1, SubSeqProperties
  <2> QED BY <1>1, <2>2
<1>3. s2 \in Seq(Line)
  <2>1. \A i \in t..n : lines[i] \in Line
    BY <1>1
  <2> QED BY <1>1, <2>1, SubSeqProperties
<1>4. s1 \o s2 = lines
  <2> DEFINE k == t - 1
  <2>1. 1 \in 1..(Len(lines) + 1) /\ k \in (1 - 1)..Len(lines) /\ Len(lines) \in k..Len(lines)
    BY <1>1
  <2> HIDE DEF k
  <2>2. SubSeq(lines, 1, k) \o SubSeq(lines, k + 1, Len(lines)) = SubSeq(lines, 1, Len(lines))
    BY <2>1, ConcatAdjacentSubSeq
  <2> USE DEF k
  <2>3. (t - 1) + 1 = t
    BY <1>1
  <2> QED BY <2>2, <2>3, SubSeqFull
<1>5. InsertAt(lines, t, row) = s1 \o mid \o s2
  BY DEF InsertAt
<1>6. mid \in Seq(Line) /\ Len(mid) = 1 /\ \A i \in 1..Len(mid) : mid[i] \notin G
  OBVIOUS
<1> HIDE DEF s1, s2, mid, n
<1>7. Within(mid, G) = <<>>
  BY <1>6, WithinNothing
<1>8. s1 \o mid \in Seq(Line) /\ s1 \o mid \o s2 \in Seq(Line)
  BY <1>2, <1>3, <1>6
<1>9. /\ Len(s1 \o mid \o s2) = (t - 1) + 1 + Len(s2) /\ Len(s2) \in Nat
      /\ \A i \in 1..(t - 1) : (s1 \o mid \o s2)[i] = s1[i]
  <2>1. \A x, y \in Seq(Line) : /\ Len(x \o y) = Len(x) + Len(y) /\ Len(x) \in Nat /\ Len(y) \in Nat
                                /\ \A i \in 1..Len(x) : (x \o y)[i] = x[i]
    OBVIOUS
  <2> DEFINE z == s1 \o mid
  <2>2. z \in Seq(Line) /\ Len(z) = (t - 1) + 1 /\ \A i \in 1..(t - 1) : z[i] = s1[i]
    <3>1. Len(s1) = t - 1 /\ s1 \in Seq(Line)
      BY <1>2
    <3>2. /\ Len(s1 \o mid) = Len(s1) + Len(mid)
          /\ \A i \in 1..Len(s1) : (s1 \o mid)[i] = s1[i]
      BY <1>6, <2>1, <3>1
    <3> QED BY <1>6, <1>8, <3>1, <3>2
  <2> HIDE DEF z
  <2>3. /\ Len(z \o s2) = (t - 1) + 1 + Len(s2) /\ Len(s2) \in Nat
        /\ \A i \in 1..(t - 1) : (z \o s2)[i] = z[i]
    BY <1>1, <1>3, <2>1, <2>2
  <2> QED BY <2>2, <2>3 DEF z
<1>10. Within(s1 \o mid \o s2, G) = Within(lines, G)
  <2>0. \A x, y \in Seq(Line) : Within(x \o y, G) = Within(x, G) \o Within(y, G)
    BY WithinConcat
  <2>1. Within(s1 \o mid \o s2, G) = Within(s1 \o mid, G) \o Within(s2, G)
    BY <1>3, <1>8, <2>0, Zenon
  <2>2. Within(s1 \o mid, G) = Within(s1, G) \o Within(mid, G)
    BY <1>2, <1>6, <2>0, Zenon
  <2>3. Within(lines, G) = Within(s1, G) \o Within(s2, G)
    BY <1>2, <1>3, <1>4, <2>0, Zenon
  <2>4. Within(s1, G) \o <<>> = Within(s1, G)
    BY <1>2, WithinType, ConcatEmptySeq
  <2> QED BY <1>7, <2>1, <2>2, <2>3, <2>4
<1> QED BY <1>1, <1>2, <1>5, <1>8, <1>9, <1>10

\* A keyed write of a headed table: it stays one, and of somebody's lines
\* only those of the key may change.
LEMMA UpsertKeeps ==
  ASSUME NEW base \in Seq(Line), Headed(base), NEW c \in Writes
  PROVE  /\ UpsertRow(base, NewRow(c)) \in Seq(Line) /\ Headed(UpsertRow(base, NewRow(c)))
         /\ Within(UpsertRow(base, NewRow(c)), Data(c)) = Within(base, Data(c))
<1> DEFINE n == Len(base)
           row == NewRow(c)
           G == Data(c)
           same  == {i \in DOMAIN base : i \notin Structural(base) /\ HasKey(base[i], row, <<1, 2>>)}
           fits  == {i \in same : \/ Len(base[i].cells) = Len(row.cells)
                                  \/ IsPrefix(base[i].cells, row.cells)}
           stays == {i \in DOMAIN base : i \notin same \/ fits = {} \/ i <= First(fits)}
           put   == [i \in DOMAIN base |-> IF i \in fits /\ i = First(fits) THEN row ELSE base[i]]
           u == UpsertRow(base, row)
<1>1. PICK h \in DOMAIN base : HeadedAt(base, h)
  BY DEF Headed
<1>2. /\ n \in Nat /\ DOMAIN base = 1..n /\ h \in 1..n /\ h + 1 \in 1..n
      /\ base[h] = Header /\ base[h + 1].kind = "sep" /\ \A i \in Pipes(base) : i >= h
  BY <1>1 DEF HeadedAt
<1>3. KeyColumns(base) = <<1, 2>> /\ h \in Structural(base)
  BY <1>1, HeadedKeys
<1>4. row \in Line /\ row \notin G
  BY LinesAre, NotData
<1>5. u = IF HeaderAgain(row, <<1, 2>>) THEN base
          ELSE IF NoKey(row, <<1, 2>>) THEN Append(base, row)
          ELSE IF same = {} THEN InsertAt(base, KeyTableTail(base), row) ELSE Picked(put, stays)
  BY <1>3 DEF UpsertRow
<1>6. /\ \A i \in same : i \in 1..n /\ base[i] \notin G
      /\ \A i \in 1..(h + 1) : i \notin same
  <2>1. \A i \in same : i \in 1..n /\ base[i].kind = "row" /\ HasKey(base[i], row, <<1, 2>>)
                        /\ i \notin Structural(base)
    BY <1>2 DEF HasKey
  <2>2. \A i \in same : i \in Pipes(base)
    BY <1>2, <2>1 DEF Pipes
  <2>3. \A i \in same : i > h + 1
    <3> SUFFICES ASSUME NEW i \in same PROVE i > h + 1
      OBVIOUS
    <3>1. i \in 1..n /\ i >= h /\ i # h /\ i # h + 1
      BY <1>2, <1>3, <2>1, <2>2
    <3> QED BY <1>2, <3>1
  <2> HIDE DEF same
  <2> QED BY <1>2, <2>1, <2>3 DEF Data
<1>7. fits \subseteq same
  OBVIOUS
<1> HIDE DEF same, fits, row, G, n
<1>10. CASE HeaderAgain(row, <<1, 2>>)
  BY <1>5, <1>10 DEF row, G
<1>11. CASE ~HeaderAgain(row, <<1, 2>>) /\ NoKey(row, <<1, 2>>)
  <2>1. u = Append(base, row)
    BY <1>5, <1>11
  <2> HIDE DEF u
  <2>2. /\ u \in Seq(Line) /\ h + 1 <= Len(u) /\ \A i \in 1..(h + 1) : u[i] = base[i]
    <3>1. /\ Append(base, row) \in Seq(Line) /\ Len(Append(base, row)) = n + 1
          /\ \A i \in 1..n : Append(base, row)[i] = base[i]
      BY <1>4 DEF n
    <3> QED BY <1>2, <2>1, <3>1
  <2>3. Within(u, G) = Within(base, G)
    BY <1>4, <2>1, WithinAppend
  <2>4. HeadedAt(u, h)
    BY <1>1, <2>2, HeadedBegins
  <2>5. Headed(u)
    BY <2>4 DEF Headed, HeadedAt
  <2> QED BY <2>2, <2>3, <2>5 DEF u, row, G
<1> DEFINE keyed == ~HeaderAgain(row, <<1, 2>>) /\ ~NoKey(row, <<1, 2>>)
<1>8. CASE keyed /\ same = {}
  <2> DEFINE t == KeyTableTail(base)
  <2>1. t \in (h + 2)..(n + 1)
    BY <1>1, TailBehind DEF n
  <2>2. t \in 1..(n + 1) /\ h + 1 <= t - 1 /\ t \in Nat
    BY <1>2, <2>1
  <2> HIDE DEF t
  <2>3. /\ InsertAt(base, t, row) \in Seq(Line) /\ t <= Len(InsertAt(base, t, row))
        /\ \A i \in 1..(t - 1) : InsertAt(base, t, row)[i] = base[i]
        /\ Within(InsertAt(base, t, row), G) = Within(base, G)
    BY <1>4, <2>2, InsertedAt DEF n
  <2>4. u = InsertAt(base, t, row)
    BY <1>5, <1>8 DEF t
  <2> HIDE DEF u
  <2>5. h + 1 <= Len(u) /\ \A i \in 1..(h + 1) : u[i] = base[i]
    BY <1>2, <2>2, <2>3, <2>4
  <2>6. HeadedAt(u, h)
    BY <1>1, <2>3, <2>4, <2>5, HeadedBegins
  <2>7. Headed(u)
    BY <2>6 DEF Headed, HeadedAt
  <2> QED BY <2>3, <2>4, <2>7 DEF u, row, G
<1>9. CASE keyed /\ same # {}
  <2>1. u = Picked(put, stays)
    BY <1>5, <1>9
  <2>2. put \in Seq(Line) /\ Len(put) = n
        /\ \A i \in 1..n : put[i] = IF i \in fits /\ i = First(fits) THEN row ELSE base[i]
    <3>1. \A i \in 1..n : base[i] \in Line
      BY <1>2 DEF n
    <3>2. put \in [1..n -> Line]
      BY <1>2, <1>4, <3>1
    <3>3. put \in Seq(Line)
      BY <1>2, <3>2, SeqDef
    <3>4. DOMAIN put = 1..n
      BY <3>2
    <3>5. Len(put) = n
      <4> HIDE DEF put
      <4> QED BY <1>2, <3>3, <3>4
    <3> QED BY <1>2, <3>3, <3>5
  <2>3. \A i \in 1..n : IF i \in stays THEN put[i] = base[i] \/ (put[i] \notin G /\ base[i] \notin G)
                        ELSE base[i] \notin G
    BY <1>2, <1>4, <1>6, <1>7, <2>2
  <2>4. 1..(h + 1) \subseteq stays /\ \A i \in 1..(h + 1) : put[i] = base[i]
    BY <1>2, <1>6, <1>7, <2>2
  <2> HIDE DEF put, stays, u
  <2>5. Picked(put, stays) \in Seq(Line)
    BY <2>2, PickedType
  <2>6. Within(Picked(put, stays), G) = Within(base, G)
    BY <2>2, <2>3, PickedWithin DEF n
  <2>7. /\ h + 1 <= Len(Picked(put, stays))
        /\ \A i \in 1..(h + 1) : Picked(put, stays)[i] = put[i]
    <3> DEFINE k == h + 1
    <3>1. k \in 1..Len(put) /\ 1..k \subseteq stays
      BY <1>2, <2>2, <2>4
    <3> HIDE DEF k
    <3>2. k <= Len(Picked(put, stays)) /\ \A i \in 1..k : Picked(put, stays)[i] = put[i]
      BY <2>2, <3>1, PickedBegins
    <3> QED BY <3>2 DEF k
  <2>8. HeadedAt(u, h)
    BY <1>1, <2>1, <2>4, <2>5, <2>7, HeadedBegins
  <2>9. Headed(u)
    BY <2>8 DEF Headed, HeadedAt
  <2> QED BY <2>1, <2>5, <2>6, <2>9 DEF u, row, G
<1> QED BY <1>8, <1>9, <1>10, <1>11

\* A helper's note at the end leaves the kind of file it was.
LEMMA NoteKeeps ==
  ASSUME NEW lines, Table(lines), NEW c \in Writes
  PROVE  /\ Table(lines \o <<Text(c)>>) /\ IsPrefix(lines, lines \o <<Text(c)>>)
<1> DEFINE n == Len(lines)
           x == Text(c)
           e == lines \o <<x>>
<1>1. lines \in Seq(Line) /\ x \in Line /\ x.kind = "text" /\ x # Header
  BY LinesAre DEF Table
<1> HIDE DEF x
<1>2. /\ n \in Nat /\ e \in Seq(Line) /\ Len(e) = n + 1 /\ DOMAIN e = 1..(n + 1) /\ DOMAIN lines = 1..n
      /\ e[n + 1] = x /\ \A i \in 1..n : e[i] = lines[i]
  BY <1>1
<1>3. IsPrefix(lines, e)
  <2>1. SubSeq(e, 1, n) = SubSeq(lines, 1, n)
    BY <1>1, <1>2
  <2> QED BY <1>2, <2>1 DEF IsPrefix
<1> HIDE DEF e
<1>4. Pipes(e) = Pipes(lines)
  <2>1. \A i \in DOMAIN e : e[i].kind \in {"row", "sep"} => i \in 1..n
    BY <1>1, <1>2
  <2> QED BY <1>2, <2>1 DEF Pipes
<1>5. ASSUME NoTable(lines) PROVE Table(e)
  BY <1>2, <1>4, <1>5 DEF NoTable, Table
<1>6. ASSUME Headed(lines) PROVE Table(e)
  <2>1. PICK h \in DOMAIN lines : HeadedAt(lines, h)
    BY <1>6 DEF Headed
  <2>2. HeadedAt(e, h)
    BY <1>2, <1>4, <2>1 DEF HeadedAt
  <2> QED BY <1>2, <2>2 DEF Headed, HeadedAt, Table
<1>7. ASSUME Bare(lines) PROVE Table(e)
  <2>1. ~Contains(e, Header)
    BY <1>1, <1>2, <1>7 DEF Bare, Contains
  <2>2. PICK i \in DOMAIN lines \cap {1, 2} : lines[i].kind = "row" /\ (i = 2 => lines[1] = Fence)
    BY <1>7 DEF Bare
  <2>3. i \in DOMAIN e \cap {1, 2} /\ e[i].kind = "row" /\ (i = 2 => e[1] = Fence)
    BY <1>2, <2>2
  <2> QED BY <1>2, <2>1, <2>3 DEF Bare, Table
<1> QED BY <1>1, <1>3, <1>5, <1>6, <1>7 DEF Table, e, x

\* The first whole file has the contract's table.
LEMMA CreatedIs ==
  ASSUME NEW c \in Writes
  PROVE  Table(<<Fence, Header, Sep(Width), NewRow(c)>>)
<1> DEFINE s == Sep(Width)
           row == NewRow(c)
           e == <<Fence, Header, s, row>>
<1>1. /\ Fence \in Line /\ Header \in Line /\ s \in Line /\ row \in Line
      /\ Fence.kind = "fence" /\ s.kind = "sep"
  BY LinesAre
<1> HIDE DEF s, row
<1>2. e \in Seq(Line) /\ DOMAIN e = 1..4 /\ e[1] = Fence /\ e[2] = Header /\ e[3] = s
  BY <1>1
<1> HIDE DEF e
<1>3. \A i \in Pipes(e) : i >= 2
  BY <1>1, <1>2 DEF Pipes
<1>4. 2 \in DOMAIN e /\ 2 + 1 \in DOMAIN e /\ 2 + 1 = 3
  BY <1>2
<1>5. HeadedAt(e, 2)
  BY <1>1, <1>2, <1>3, <1>4 DEF HeadedAt
<1> QED BY <1>2, <1>4, <1>5 DEF Headed, Table, e, s, row

\* What a call writes, out of a file it has read as it is.
LEMMA ContentKeeps ==
  ASSUME NEW c \in Writes, Table(basis[c]), Table(files[PathOf[c]])
  PROVE  /\ Table(Content(c))
         /\ Helper(c) => IsPrefix(basis[c], Content(c))
         /\ WriteKind[c] = "upsert" => Others(Content(c), c) = Others(basis[c], c)
         /\ WriteKind[c] = "insert" => \/ Content(c) = files[PathOf[c]]
                                       \/ Others(Content(c), c) = Others(basis[c], c)
         /\ /\ WriteKind[c] = "insert"
            /\ \E i \in DOMAIN basis[c] : HasKey(basis[c][i], NewRow(c), <<1, 2>>)
            => Content(c) = files[PathOf[c]]
<1> DEFINE old == basis[c]
           base == EnsureTableHeader(old)
           u == UpsertRow(base, NewRow(c))
           G == Data(c)
<1>1. WriteKind[c] \in {"upsert", "insert", "create", "append"}
  BY TruthFileAssumption
<1>2. /\ WriteKind[c] = "upsert" => Content(c) = u
      /\ WriteKind[c] = "insert" => Content(c) = IF HasRow(base, NewRow(c)) THEN files[PathOf[c]] ELSE u
      /\ WriteKind[c] = "create" => Content(c) = <<Fence, Header, Sep(Width), NewRow(c)>>
      /\ WriteKind[c] = "append" => Content(c) = old \o <<Text(c)>>
  BY <1>1 DEF Content
<1>3. old \in Seq(Line)
  BY DEF Table
<1>4. /\ base \in Seq(Line) /\ Headed(base) /\ Within(base, G) = Within(old, G)
      /\ \A i \in DOMAIN old : \E j \in DOMAIN base : base[j] = old[i]
  <2> HIDE DEF G, old
  <2>1. Fence \notin G /\ Header \notin G /\ Sep(Width) \notin G
    BY NotData DEF G
  <2> QED BY <2>1, HeaderEnsured DEF old
<1>5. u \in Seq(Line) /\ Headed(u) /\ Within(u, G) = Within(base, G)
  <2> HIDE DEF base
  <2> QED BY <1>4, UpsertKeeps
<1>6. Table(u)
  BY <1>5 DEF Table
<1>7. Others(u, c) = Others(old, c)
  BY <1>3, <1>4, <1>5, OthersAre
<1>8. Table(old \o <<Text(c)>>) /\ IsPrefix(old, old \o <<Text(c)>>)
  BY NoteKeeps
<1>9. ASSUME NEW i \in DOMAIN old, HasKey(old[i], NewRow(c), <<1, 2>>)
      PROVE  HasRow(base, NewRow(c))
  <2>1. PICK j \in DOMAIN base : base[j] = old[i]
    BY <1>4
  <2>2. KeyColumns(base) = <<1, 2>>
    <3>1. PICK h \in DOMAIN base : HeadedAt(base, h)
      BY <1>4 DEF Headed
    <3> HIDE DEF base
    <3> QED BY <1>4, <3>1, HeadedKeys
  <2> HIDE DEF base, old
  <2> QED BY <1>9, <2>1, <2>2 DEF HasRow
<1> HIDE DEF old, base, u, G
<1>10. Table(Content(c))
  BY <1>1, <1>2, <1>6, <1>8, CreatedIs
<1>11. Helper(c) => IsPrefix(old, Content(c))
  BY <1>2, <1>8 DEF Helper
<1>12. WriteKind[c] = "upsert" => Others(Content(c), c) = Others(old, c)
  BY <1>2, <1>7
<1>13. WriteKind[c] = "insert" => Content(c) = files[PathOf[c]] \/ Others(Content(c), c) = Others(old, c)
  BY <1>2, <1>7
<1>14. WriteKind[c] = "insert" /\ (\E i \in DOMAIN old : HasKey(old[i], NewRow(c), <<1, 2>>))
       => Content(c) = files[PathOf[c]]
  BY <1>2, <1>9
<1> QED BY <1>10, <1>11, <1>12, <1>13, <1>14 DEF old

\* Every file is one of the three that the calls know how to write.
Tables ==
  /\ \A q \in Paths : Table(files[q])
  /\ \A c \in Writes : stage[c] = "write" => Table(basis[c])

\* The files there were are of the three kinds.
LEMMA TablesInit == TruthInit => Tables
<1> SUFFICES ASSUME TruthInit PROVE Tables
  OBVIOUS
<1>1. \A q \in Paths : files[q] \in Bases[q]
  BY DEF TruthInit
<1>2. \A c \in Writes : stage[c] # "write"
  BY DEF TruthInit
<1> QED BY <1>1, <1>2, TruthFileAssumption DEF Tables

\* What is written and what is read is of these kinds, too.
LEMMA TablesStep == TruthInv /\ Tables /\ [TruthNext]_truthVars => Tables'
<1> SUFFICES ASSUME TruthInv, Tables, [TruthNext]_truthVars PROVE Tables'
  OBVIOUS
<1>1. LockTypes
  BY DEF TruthInv, Registered
<1>2. ASSUME NEW c \in Writes, WriteFile(c) PROVE Tables'
  <2>1. /\ stage[c] = "write" /\ stage' = [stage EXCEPT ![c] = "leave"]
        /\ files' \in {files, [files EXCEPT ![PathOf[c]] = Content(c)]}
        /\ basis' = [basis EXCEPT ![c] = <<>>]
    BY <1>2 DEF WriteFile, Reaches
  <2>2. PathOf[c] \in Paths
    BY TruthFileAssumption
  <2>3. Table(Content(c))
    BY <2>1, <2>2, ContentKeeps DEF Tables
  <2>4. \A q \in Paths : files'[q] = files[q] \/ files'[q] = Content(c)
    BY <1>1, <2>1, <2>2 DEF LockTypes
  <2>5. \A d \in Writes : stage'[d] = "write" => stage[d] = "write" /\ basis'[d] = basis[d]
    BY <1>1, <2>1 DEF LockTypes
  <2> QED BY <2>3, <2>4, <2>5 DEF Tables
<1>3. ASSUME NEW c \in Writes, ReadFile(c) PROVE Tables'
  <2>1. /\ stage' = [stage EXCEPT ![c] = "write"] /\ files' = files
        /\ basis' = [basis EXCEPT ![c] = files[PathOf[c]]]
    BY <1>3 DEF ReadFile, Reaches
  <2>2. PathOf[c] \in Paths
    BY TruthFileAssumption
  <2>3. \A d \in Writes : stage'[d] = "write" => basis'[d] = files[PathOf[c]]
                                                \/ (stage[d] = "write" /\ basis'[d] = basis[d])
    BY <1>1, <2>1 DEF LockTypes
  <2> QED BY <2>1, <2>2, <2>3 DEF Tables
<1>4. ASSUME NEW c \in Writes,
             \/ BeginWrite(c) \/ Register(c) \/ TakeThread(c) \/ TakeFlock(c)
             \/ LeaveThread(c) \/ Close(c) \/ Unregister(c)
      PROVE  Tables'
  <2>1. UNCHANGED <<basis, files>> /\ \A d \in Writes : stage'[d] = "write" => stage[d] = "write"
    BY <1>1, <1>4 DEF LockTypes, BeginWrite, Register, TakeThread, TakeFlock, LeaveThread, Close,
       Unregister, Reaches
  <2> QED BY <2>1 DEF Tables
<1>5. ASSUME NEW p \in Programs, KillProgram(p) PROVE Tables'
  <2>1. files' = files /\ \A d \in Writes : stage'[d] = "write" => stage[d] = "write" /\ basis'[d] = basis[d]
    BY <1>1, <1>5 DEF LockTypes, KillProgram, Finished
  <2> QED BY <2>1 DEF Tables
<1>6. CASE UNCHANGED truthVars
  BY <1>6 DEF truthVars, Tables
<1> QED BY <1>2, <1>3, <1>4, <1>5, <1>6 DEF TruthNext, WriteStep

\* The types of every state.
THEOREM TruthTypes == TruthSpec => []TruthTypeOK
<1>1. TruthSpec => []Tables
  BY TablesInit, TablesStep, TruthInvariant, PTL DEF TruthSpec
<1>2. TruthInv /\ Tables => TruthTypeOK
  BY DEF TruthInv, Registered, LockTypes, Tables, Table, TruthTypeOK
<1> QED BY <1>1, <1>2, TruthInvariant, PTL

\* A call that goes on to leave has written its content, or nothing.
LEMMA WrittenIs ==
  ASSUME TruthInv, Tables, [TruthNext]_truthVars, NEW c \in Writes,
         stage[c] = "write", stage'[c] = "leave", Guarded(c)
  PROVE  /\ files' = files \/ files' = [files EXCEPT ![PathOf[c]] = Content(c)]
         /\ PathOf[c] \in Paths /\ basis[c] = files[PathOf[c]] /\ Table(basis[c])
         /\ files' # files => files'[PathOf[c]] = Content(c)
         /\ files = [files EXCEPT ![PathOf[c]] = files[PathOf[c]]]
<1>1. LockTypes /\ PathOf[c] \in Paths
  BY TruthFileAssumption DEF TruthInv, Registered
<1>2. basis[c] = files[PathOf[c]] /\ Table(basis[c])
  BY DEF TruthInv, NothingStale, Tables
<1>3. WriteFile(c)
  <2>1. ASSUME NEW d \in Writes, WriteStep(d) PROVE WriteFile(c)
    <3>1. \E to : Reaches(d, to)
      BY <2>1 DEF WriteStep, BeginWrite, Register, TakeThread, TakeFlock, ReadFile, WriteFile,
         LeaveThread, Close, Unregister
    <3>2. d = c
      BY <1>1, <3>1 DEF LockTypes, Reaches
    <3> QED BY <2>1, <3>2 DEF WriteStep, BeginWrite, Register, TakeThread, TakeFlock, ReadFile,
               LeaveThread, Close, Unregister
  <2>2. ASSUME NEW p \in Programs, KillProgram(p) PROVE FALSE
    BY <1>1, <2>2 DEF KillProgram
  <2>3. ~UNCHANGED truthVars
    BY DEF truthVars
  <2> QED BY <2>1, <2>2, <2>3 DEF TruthNext
<1>4. files' = files \/ files' = [files EXCEPT ![PathOf[c]] = Content(c)]
  BY <1>3 DEF WriteFile
<1> QED BY <1>1, <1>2, <1>4 DEF LockTypes

\* A keyed write or a note loses nothing that another call has written
\* (write_truth_file and upsert_markdown_row, truth_io.py:169-281, 1615-1755).
THEOREM TheirRowOnly == TruthSpec => OnlyItsRow
<1> DEFINE step ==
      \A c \in Writes :
        stage[c] = "write" /\ stage'[c] = "leave" /\ WriteKind[c] # "create" /\ Guarded(c)
          => Kept(c, files[PathOf[c]], files'[PathOf[c]])
<1>1. TruthInv /\ Tables /\ [TruthNext]_truthVars => step
  <2> SUFFICES ASSUME TruthInv, Tables, [TruthNext]_truthVars, NEW c \in Writes,
                      stage[c] = "write", stage'[c] = "leave", WriteKind[c] # "create", Guarded(c)
               PROVE  Kept(c, files[PathOf[c]], files'[PathOf[c]])
    OBVIOUS
  <2>1. /\ PathOf[c] \in Paths /\ basis[c] = files[PathOf[c]] /\ Table(basis[c])
        /\ files' # files => files'[PathOf[c]] = Content(c)
    BY WrittenIs
  <2>2. Kept(c, files[PathOf[c]], files[PathOf[c]])
    <3>1. basis[c] \in Seq(Line)
      BY <2>1 DEF Table
    <3>2. Len(basis[c]) \in Nat /\ IsPrefix(basis[c], basis[c])
      BY <3>1 DEF IsPrefix
    <3> QED BY <2>1, <3>2 DEF Kept
  <2>3. Kept(c, files[PathOf[c]], Content(c))
    <3>1. /\ Helper(c) => IsPrefix(basis[c], Content(c))
          /\ WriteKind[c] = "upsert" => Others(Content(c), c) = Others(basis[c], c)
          /\ WriteKind[c] = "insert" => \/ Content(c) = files[PathOf[c]]
                                        \/ Others(Content(c), c) = Others(basis[c], c)
      BY <2>1, ContentKeeps
    <3>2. WriteKind[c] \in {"upsert", "insert", "append"}
      BY TruthFileAssumption
    <3> QED BY <2>1, <3>1, <3>2 DEF Kept, Helper
  <2> QED BY <2>1, <2>2, <2>3
<1>2. TruthSpec => []Tables
  BY TablesInit, TablesStep, TruthInvariant, PTL DEF TruthSpec
<1> QED BY <1>1, <1>2, TruthInvariant, PTL DEF TruthSpec, OnlyItsRow

\* A row that yields finds the row with its key wherever the header came from
\* (has_markdown_row, truth_io.py:1758-1783).
THEOREM InsertsYield == TruthSpec => InsertYields
<1> DEFINE step ==
      \A c \in Writes :
        /\ stage[c] = "write" /\ stage'[c] = "leave" /\ WriteKind[c] = "insert" /\ Guarded(c)
        /\ \E i \in DOMAIN files[PathOf[c]] : HasKey(files[PathOf[c]][i], NewRow(c), <<1, 2>>)
        => UNCHANGED files
<1>1. TruthInv /\ Tables /\ [TruthNext]_truthVars => step
  <2> SUFFICES ASSUME TruthInv, Tables, [TruthNext]_truthVars, NEW c \in Writes,
                      stage[c] = "write", stage'[c] = "leave", WriteKind[c] = "insert", Guarded(c),
                      \E i \in DOMAIN files[PathOf[c]] : HasKey(files[PathOf[c]][i], NewRow(c), <<1, 2>>)
               PROVE  UNCHANGED files
    OBVIOUS
  <2>1. /\ files' = files \/ files' = [files EXCEPT ![PathOf[c]] = Content(c)]
        /\ PathOf[c] \in Paths /\ basis[c] = files[PathOf[c]] /\ Table(basis[c])
        /\ files = [files EXCEPT ![PathOf[c]] = files[PathOf[c]]]
    BY WrittenIs
  <2>2. Content(c) = files[PathOf[c]]
    BY <2>1, ContentKeeps
  <2> QED BY <2>1, <2>2
<1>2. TruthSpec => []Tables
  BY TablesInit, TablesStep, TruthInvariant, PTL DEF TruthSpec
<1> QED BY <1>1, <1>2, TruthInvariant, PTL DEF TruthSpec, InsertYields

-----------------------------------------------------------------------------
(* The table in one piece.                                                 *)

\* A key by the first two columns is the two cells.
LEMMA KeysAre ==
  ASSUME NEW line \in Line, NEW row \in Line
  PROVE  /\ NoKey(row, <<1, 2>>) <=> row.cells[1] = "" /\ row.cells[2] = ""
         /\ HasKey(line, row, <<1, 2>>) <=>
              /\ line.kind = "row" /\ Len(line.cells) >= 2 /\ ~NoKey(row, <<1, 2>>)
              /\ line.cells[1] = row.cells[1] /\ line.cells[2] = row.cells[2]
<1>1. DOMAIN <<1, 2>> = 1..2 /\ <<1, 2>>[1] = 1 /\ <<1, 2>>[2] = 2
  OBVIOUS
<1>2. \A k \in 1..2 : k = 1 \/ k = 2
  OBVIOUS
<1>3. line.cells \in Seq(Words)
  BY DEF Line
<1>4. DOMAIN line.cells = 1..Len(line.cells) /\ Len(line.cells) \in Nat
  BY <1>3
<1>5. (\A k \in DOMAIN <<1, 2>> : <<1, 2>>[k] \in DOMAIN line.cells) <=> Len(line.cells) >= 2
  BY <1>1, <1>2, <1>4
<1>6. KeyOf(line, <<1, 2>>) = KeyOf(row, <<1, 2>>) <=>
        line.cells[1] = row.cells[1] /\ line.cells[2] = row.cells[2]
  <2> DEFINE a == [k \in 1..2 |-> line.cells[<<1, 2>>[k]]]
             b == [k \in 1..2 |-> row.cells[<<1, 2>>[k]]]
  <2>1. a[1] = line.cells[1] /\ a[2] = line.cells[2] /\ b[1] = row.cells[1] /\ b[2] = row.cells[2]
    BY <1>1
  <2>2. a = [k \in 1..2 |-> a[k]] /\ b = [k \in 1..2 |-> b[k]]
    OBVIOUS
  <2>3. KeyOf(line, <<1, 2>>) = a /\ KeyOf(row, <<1, 2>>) = b
    BY <1>1 DEF KeyOf
  <2> HIDE DEF a, b
  <2>4. a = b <=> a[1] = b[1] /\ a[2] = b[2]
    BY <1>2, <2>2
  <2> QED BY <2>1, <2>3, <2>4
<1>7. NoKey(row, <<1, 2>>) <=> row.cells[1] = "" /\ row.cells[2] = ""
  <2> DEFINE c == <<1, 2>>
  <2>1. NoKey(row, c) <=> \A k \in 1..2 : row.cells[c[k]] = ""
    BY <1>1 DEF NoKey
  <2>2. c[1] = 1 /\ c[2] = 2
    OBVIOUS
  <2> HIDE DEF c
  <2>3. (\A k \in 1..2 : row.cells[c[k]] = "") <=> row.cells[1] = "" /\ row.cells[2] = ""
    <3>1. 1 \in 1..2 /\ 2 \in 1..2
      OBVIOUS
    <3> QED BY <1>2, <2>2, <3>1
  <2>4. NoKey(row, c) <=> row.cells[1] = "" /\ row.cells[2] = ""
    BY <2>1, <2>3
  <2> QED BY <2>4 DEF c
<1> QED BY <1>5, <1>6, <1>7 DEF HasKey

\* What a file is taken apart into.
LEMMA OrderlyIs ==
  ASSUME NEW lines \in Seq(Line), NEW h, NEW m, Orderly(lines, h, m)
  PROVE  /\ h \in Nat /\ m \in Nat /\ Len(lines) \in Nat /\ DOMAIN lines = 1..Len(lines)
         /\ 1 <= h /\ h + 1 <= m /\ m <= Len(lines)
         /\ lines[h] = Header /\ lines[h + 1] = Sep(Width) /\ HeadedAt(lines, h)
         /\ \A i \in 1..Len(lines) : lines[i] \in Line
         /\ \A i \in 1..Len(lines) : i < h => lines[i].kind \notin {"row", "sep"}
         /\ \A i \in (h + 2)..m : i \in 1..Len(lines) /\ InTable(lines[i])
<1>1. DOMAIN lines = 1..Len(lines) /\ Len(lines) \in Nat /\ \A i \in 1..Len(lines) : lines[i] \in Line
  OBVIOUS
<1>2. HeadedAt(lines, h) /\ lines[h + 1] = Sep(Width) /\ m \in (h + 1)..Len(lines)
      /\ \A i \in (h + 2)..m : InTable(lines[i])
  BY DEF Orderly
<1>3. h \in 1..Len(lines) /\ lines[h] = Header /\ \A i \in Pipes(lines) : i >= h
  BY <1>1, <1>2 DEF HeadedAt
<1>4. \A i \in 1..Len(lines) : i < h => lines[i].kind \notin {"row", "sep"}
  BY <1>1, <1>3 DEF Pipes
<1>5. \A i \in (h + 2)..m : i \in 1..Len(lines)
  BY <1>1, <1>2, <1>3
<1> QED BY <1>1, <1>2, <1>3, <1>4, <1>5

\* The rows of the table are data, and a new row comes behind them.
LEMMA TailIs ==
  ASSUME NEW lines \in Seq(Line), NEW h, NEW m, Orderly(lines, h, m)
  PROVE  /\ KeyTableTail(lines) = m + 1
         /\ \A i \in (h + 2)..m : i \notin Structural(lines)
<1> DEFINE n == Len(lines)
           heads == {i \in Structural(lines) : lines[i].kind = "row" /\ Named(lines[i])}
           head  == First(heads)
           width(j) == Len(lines[j].cells)
           ends  == {j \in DOMAIN lines :
                      /\ j > head
                      /\ \/ j \notin Pipes(lines)
                         \/ /\ lines[j].kind = "row" /\ width(j) # width(head)
                            /\ j + 1 \in Pipes(lines) /\ width(j + 1) = width(j)}
<1>1. /\ h \in Nat /\ m \in Nat /\ n \in Nat /\ DOMAIN lines = 1..n
      /\ 1 <= h /\ h + 1 <= m /\ m <= n /\ HeadedAt(lines, h) /\ lines[h + 1] = Sep(Width)
      /\ \A i \in (h + 2)..m : i \in 1..n /\ InTable(lines[i])
  BY OrderlyIs
<1>2. /\ m < n => Ends(lines, m + 1)
      /\ \A i \in (m + 1)..n :
           lines[i].kind = "sep" => \E j \in (m + 1)..(i - 1) : lines[j].kind = "row"
  BY DEF Orderly
<1>3. KeyTableTail(lines) = IF heads = {} \/ ends = {} THEN n + 1 ELSE First(ends)
  BY DEF KeyTableTail
<1>4. heads \in SUBSET Nat /\ h \in heads /\ \A j \in heads : h <= j
  BY <1>1, HeadedKeys DEF Structural, Pipes, HeadedAt
<1>5. head = h /\ heads # {}
  <2> HIDE DEF heads
  <2> QED BY <1>4, FirstIs
<1>6. width(h) = Width
  BY <1>1 DEF HeadedAt, Width
<1>7. \A j \in ends : j \in 1..n /\ j >= m + 1
  <2> SUFFICES ASSUME NEW j \in ends PROVE j \in 1..n /\ j >= m + 1
    OBVIOUS
  <2>1. j \in 1..n /\ j > h
    BY <1>1, <1>5
  <2>2. j # h + 1
    <3>1. h + 1 \in Pipes(lines) /\ lines[h + 1].kind # "row"
      BY <1>1, LinesAre DEF Pipes
    <3> HIDE DEF heads, head
    <3> QED BY <3>1
  <2>3. j \notin (h + 2)..m
    <3> SUFFICES ASSUME j \in (h + 2)..m PROVE FALSE
      OBVIOUS
    <3>1. lines[j].kind = "row" /\ width(j) = Width /\ j \in DOMAIN lines
      BY <1>1 DEF InTable
    <3>2. j \in Pipes(lines)
      BY <3>1 DEF Pipes
    <3> HIDE DEF heads, head, width
    <3> QED BY <1>5, <1>6, <3>1, <3>2
  <2> HIDE DEF ends
  <2> QED BY <1>1, <2>1, <2>2, <2>3
<1>8. m < n => m + 1 \in ends
  <2> SUFFICES ASSUME m < n PROVE m + 1 \in ends
    OBVIOUS
  <2>1. m + 1 \in DOMAIN lines /\ m + 1 > h
    BY <1>1
  <2>2. Ends(lines, m + 1)
    BY <1>2
  <2> HIDE DEF heads, head
  <2> QED BY <1>5, <1>6, <2>1, <2>2 DEF Ends
<1> HIDE DEF ends, heads, head
<1>9. KeyTableTail(lines) = m + 1
  <2>1. CASE m = n
    <3>1. ends = {}
      BY <1>1, <1>7, <2>1
    <3> QED BY <1>3, <2>1, <3>1
  <2>2. CASE m < n
    <3>1. ends \in SUBSET Nat /\ m + 1 \in ends /\ \A j \in ends : m + 1 <= j
      BY <1>1, <1>7, <1>8, <2>2
    <3>2. First(ends) = m + 1
      BY <3>1, FirstIs
    <3> QED BY <1>3, <1>5, <3>1, <3>2
  <2>3. m = n \/ m < n
    <3>1. m \in Nat /\ n \in Nat /\ m <= n
      BY <1>1
    <3> HIDE DEF n
    <3> QED BY <3>1
  <2> QED BY <2>1, <2>2, <2>3
<1>10. ASSUME NEW i \in (h + 2)..m PROVE i \notin Structural(lines)
  <2> DEFINE next == After(lines, i)
             s == First(next)
  <2>1. i \in 1..n /\ lines[i].kind = "row" /\ i \in Nat
    BY <1>1, <1>10 DEF InTable
  <2> SUFFICES ASSUME OnASep(lines, next) PROVE FALSE
    BY <2>1 DEF Structural
  <2>2. next \in SUBSET Nat /\ next # {} /\ lines[s].kind = "sep"
    BY <1>1 DEF OnASep, After, Pipes
  <2>3. s \in next /\ \A j \in next : s <= j
    <3> HIDE DEF next
    <3> QED BY <2>2, FirstType
  <2>4. s \in 1..n /\ s > i
    BY <1>1, <2>3 DEF After, Pipes
  <2>5. s \notin (h + 2)..m
    BY <1>1, <2>2 DEF InTable
  <2>6. s \in (m + 1)..n
    BY <1>1, <1>10, <2>4, <2>5
  <2>7. PICK j \in (m + 1)..(s - 1) : lines[j].kind = "row"
    BY <1>2, <2>2, <2>6
  <2>8. j \in DOMAIN lines /\ j > i /\ j < s
    BY <1>1, <1>10, <2>4, <2>6, <2>7
  <2>9. j \in next
    BY <2>7, <2>8 DEF After, Pipes
  <2> QED BY <1>1, <2>3, <2>4, <2>8, <2>9
<1> QED BY <1>9, <1>10

\* Of two rows with one key each has the key of the other.
LEMMA KeysAlike ==
  ASSUME NEW x \in Line, NEW y \in Line, InTable(x), InTable(y), HasKey(x, y, <<1, 2>>)
  PROVE  HasKey(y, x, <<1, 2>>) /\ ~NoKey(x, <<1, 2>>) /\ ~NoKey(y, <<1, 2>>)
<1>1. Len(x.cells) = 3 /\ Len(y.cells) = 3 /\ x.kind = "row" /\ y.kind = "row"
  BY LinesAre DEF InTable
<1> QED BY <1>1, KeysAre

\* A call's row belongs in the table.
LEMMA RowFits ==
  ASSUME NEW c \in Writes
  PROVE  NewRow(c) \in Line /\ InTable(NewRow(c)) /\ NewRow(c) = Row(CellsOf[c], c)
<1>1. Len(CellsOf[c]) = Width
  BY TruthFileAssumption
<1>2. NewRow(c).by = c /\ NewRow(c).kind = "row" /\ NewRow(c).cells = CellsOf[c] /\ Scaffold \notin Writes
      /\ NewRow(c) \in Line
  BY LinesAre
<1> QED BY <1>1, <1>2 DEF InTable, NewRow

\* What orderly says of the rows of a file.
LEMMA OrderlyRows ==
  ASSUME NEW lines \in Seq(Line), NEW h, NEW m, Orderly(lines, h, m)
  PROVE  /\ m < Len(lines) => Ends(lines, m + 1)
         /\ \A i \in (m + 1)..Len(lines) :
              lines[i].kind = "sep" => \E j \in (m + 1)..(i - 1) : lines[j].kind = "row"
         /\ \A i \in 1..Len(lines) :
              InTable(lines[i]) /\ ~NoKey(lines[i], <<1, 2>>) => i \in (h + 2)..m
         /\ \A i, j \in (h + 2)..m : HasKey(lines[i], lines[j], <<1, 2>>) => i = j
         /\ \A i \in 1..Len(lines), c \in Writes :
              HasKey(lines[i], NewRow(c), <<1, 2>>) => i \in {h} \cup (h + 2)..m
<1>1. DOMAIN lines = 1..Len(lines) /\ \A i \in 1..Len(lines) : lines[i] \in Line
  OBVIOUS
<1>2. \A i \in (h + 2)..m : i \in 1..Len(lines) /\ InTable(lines[i])
  BY OrderlyIs
<1>3. /\ m < Len(lines) => Ends(lines, m + 1)
      /\ \A i \in (m + 1)..Len(lines) :
           lines[i].kind = "sep" => \E j \in (m + 1)..(i - 1) : lines[j].kind = "row"
      /\ \A i \in Keyed(lines) : i \in (h + 2)..m
      /\ \A i, j \in Keyed(lines) : HasKey(lines[i], lines[j], <<1, 2>>) => i = j
      /\ \A i \in DOMAIN lines, c \in Writes :
           HasKey(lines[i], Row(CellsOf[c], c), <<1, 2>>) => i \in {h} \cup (h + 2)..m
  BY DEF Orderly
<1>4. ASSUME NEW i \in (h + 2)..m, NEW j \in (h + 2)..m, HasKey(lines[i], lines[j], <<1, 2>>)
      PROVE  i = j
  <2>1. ~NoKey(lines[i], <<1, 2>>) /\ ~NoKey(lines[j], <<1, 2>>)
    BY <1>1, <1>2, <1>4, KeysAlike
  <2>2. i \in Keyed(lines) /\ j \in Keyed(lines)
    BY <1>1, <1>2, <2>1 DEF Keyed
  <2> QED BY <1>3, <1>4, <2>2
<1>5. \A i \in 1..Len(lines) : InTable(lines[i]) /\ ~NoKey(lines[i], <<1, 2>>) => i \in Keyed(lines)
  BY <1>1 DEF Keyed
<1>6. \A i \in 1..Len(lines), c \in Writes :
        HasKey(lines[i], NewRow(c), <<1, 2>>) => i \in {h} \cup (h + 2)..m
  BY <1>1, <1>3 DEF NewRow
<1> QED BY <1>3, <1>4, <1>5, <1>6

\* And what makes a file orderly.
LEMMA OrderlyOf ==
  ASSUME NEW lines \in Seq(Line), NEW h, NEW m, HeadedAt(lines, h), lines[h + 1] = Sep(Width),
         m \in (h + 1)..Len(lines), \A i \in (h + 2)..m : InTable(lines[i]),
         m < Len(lines) => Ends(lines, m + 1),
         \A i \in (m + 1)..Len(lines) :
           lines[i].kind = "sep" => \E j \in (m + 1)..(i - 1) : lines[j].kind = "row",
         \A i \in 1..Len(lines) :
           InTable(lines[i]) /\ ~NoKey(lines[i], <<1, 2>>) => i \in (h + 2)..m,
         \A i, j \in (h + 2)..m : HasKey(lines[i], lines[j], <<1, 2>>) => i = j,
         \A i \in 1..Len(lines), c \in Writes :
           HasKey(lines[i], NewRow(c), <<1, 2>>) => i \in {h} \cup (h + 2)..m
  PROVE  Orderly(lines, h, m)
<1>1. DOMAIN lines = 1..Len(lines)
  OBVIOUS
<1>2. \A i \in Keyed(lines) : i \in (h + 2)..m
  BY <1>1 DEF Keyed
<1>3. \A i, j \in Keyed(lines) : HasKey(lines[i], lines[j], <<1, 2>>) => i = j
  BY <1>2
<1>4. \A i \in DOMAIN lines, c \in Writes :
        HasKey(lines[i], Row(CellsOf[c], c), <<1, 2>>) => i \in {h} \cup (h + 2)..m
  BY <1>1 DEF NewRow
<1> QED BY <1>2, <1>3, <1>4 DEF Orderly

\* A row more at the end of the table, of a key that it has not.
LEMMA OrderlyGrown ==
  ASSUME NEW lines \in Seq(Line), NEW h, NEW m, Orderly(lines, h, m), NEW c \in Writes,
         \A i \in (h + 2)..m : ~HasKey(lines[i], NewRow(c), <<1, 2>>),
         NEW e \in Seq(Line), Len(e) = Len(lines) + 1, \A i \in 1..m : e[i] = lines[i],
         e[m + 1] = NewRow(c), \A i \in (m + 1)..Len(lines) : e[i + 1] = lines[i]
  PROVE  Orderly(e, h, m + 1)
<1> DEFINE n == Len(lines)
           row == NewRow(c)
<1>1. /\ h \in Nat /\ m \in Nat /\ n \in Nat /\ 1 <= h /\ h + 1 <= m /\ m <= n /\ HeadedAt(lines, h)
      /\ lines[h] = Header /\ lines[h + 1] = Sep(Width)
      /\ \A i \in 1..n : lines[i] \in Line
      /\ \A i \in (h + 2)..m : i \in 1..n /\ InTable(lines[i])
  BY OrderlyIs
<1>2. /\ m < n => Ends(lines, m + 1)
      /\ \A i \in (m + 1)..n : lines[i].kind = "sep" => \E j \in (m + 1)..(i - 1) : lines[j].kind = "row"
      /\ \A i \in 1..n : InTable(lines[i]) /\ ~NoKey(lines[i], <<1, 2>>) => i \in (h + 2)..m
      /\ \A i, j \in (h + 2)..m : HasKey(lines[i], lines[j], <<1, 2>>) => i = j
      /\ \A i \in 1..n, d \in Writes :
           HasKey(lines[i], NewRow(d), <<1, 2>>) => i \in {h} \cup (h + 2)..m
  BY OrderlyRows
<1>3. row \in Line /\ InTable(row)
  BY RowFits
<1>4. DOMAIN e = 1..(n + 1) /\ DOMAIN lines = 1..n /\ Len(e) = n + 1
  OBVIOUS
<1>5. /\ \A i \in 1..m : e[i] = lines[i]
      /\ e[m + 1] = row
      /\ \A i \in (m + 2)..(n + 1) : i - 1 \in (m + 1)..n /\ e[i] = lines[i - 1]
  <2>1. \A i \in (m + 2)..(n + 1) : i - 1 \in (m + 1)..n /\ (i - 1) + 1 = i
    BY <1>1
  <2> QED BY <2>1
<1> HIDE DEF n, row
<1>6. HeadedAt(e, h)
  <2>1. h + 1 <= Len(e) /\ \A i \in 1..(h + 1) : e[i] = lines[i]
    BY <1>1, <1>4, <1>5
  <2> QED BY <1>1, <2>1, HeadedBegins
<1>7. e[h + 1] = Sep(Width) /\ m + 1 \in (h + 1)..(n + 1)
  BY <1>1, <1>5
<1>8. \A i \in (h + 2)..(m + 1) : i = m + 1 \/ (i \in (h + 2)..m /\ e[i] = lines[i])
  BY <1>1, <1>5
<1>9. \A i \in (h + 2)..(m + 1) : InTable(e[i])
  BY <1>1, <1>3, <1>5, <1>8
<1>10. ASSUME m + 1 < n + 1 PROVE Ends(e, (m + 1) + 1)
  <2>1. Ends(lines, m + 1) /\ m + 1 \in (m + 1)..n /\ m + 1 \in 1..n /\ m + 2 \in 1..(n + 1)
        /\ (m + 1) + 1 = m + 2
    BY <1>1, <1>2, <1>10
  <2>2. e[m + 2] = lines[m + 1]
    BY <1>1, <1>5, <2>1
  <2>3. CASE m + 1 \notin Pipes(lines)
    <3>1. m + 2 \notin Pipes(e)
      BY <1>4, <2>1, <2>2, <2>3 DEF Pipes
    <3> QED BY <2>1, <3>1 DEF Ends
  <2>4. CASE /\ lines[m + 1].kind = "row" /\ Len(lines[m + 1].cells) # Width
             /\ (m + 1) + 1 \in Pipes(lines) /\ Len(lines[(m + 1) + 1].cells) = Len(lines[m + 1].cells)
    <3>1. m + 2 \in 1..n /\ m + 3 \in 1..(n + 1) /\ m + 2 \in (m + 1)..n /\ (m + 2) + 1 = m + 3
          /\ lines[m + 2].kind \in {"row", "sep"} /\ Len(lines[m + 2].cells) = Len(lines[m + 1].cells)
      BY <1>1, <1>4, <2>1, <2>4 DEF Pipes
    <3>2. e[m + 3] = lines[m + 2]
      <4>1. m + 3 \in (m + 2)..(n + 1) /\ (m + 3) - 1 = m + 2
        BY <1>1, <3>1
      <4> QED BY <1>5, <4>1
    <3>3. m + 3 \in Pipes(e)
      BY <1>4, <3>1, <3>2 DEF Pipes
    <3> QED BY <2>1, <2>2, <2>4, <3>1, <3>2, <3>3 DEF Ends
  <2> QED BY <2>1, <2>3, <2>4 DEF Ends
<1>11. ASSUME NEW i \in ((m + 1) + 1)..(n + 1), e[i].kind = "sep"
       PROVE  \E j \in ((m + 1) + 1)..(i - 1) : e[j].kind = "row"
  <2>1. i - 1 \in (m + 1)..n /\ e[i] = lines[i - 1]
    BY <1>1, <1>5
  <2>2. PICK j \in (m + 1)..((i - 1) - 1) : lines[j].kind = "row"
    BY <1>2, <1>11, <2>1
  <2>3. j + 1 \in ((m + 1) + 1)..(i - 1) /\ j + 1 \in (m + 2)..(n + 1) /\ (j + 1) - 1 = j
    <3>1. m \in Nat /\ n \in Nat /\ i \in Int /\ j \in Int /\ m + 1 <= j /\ j <= (i - 1) - 1 /\ i <= n + 1
      BY <1>1, <2>1, <2>2
    <3> QED BY <3>1
  <2>4. e[j + 1] = lines[j]
    BY <1>5, <2>3
  <2> QED BY <2>2, <2>3, <2>4
<1>12. ASSUME NEW i \in 1..(n + 1)
       PROVE  \/ i \in 1..n /\ i <= m /\ e[i] = lines[i]
              \/ i = m + 1 /\ i \in (h + 2)..(m + 1) /\ e[i] = row
              \/ i - 1 \in 1..n /\ i - 1 > m /\ e[i] = lines[i - 1]
  <2>1. CASE i <= m
    <3>1. i \in 1..m /\ i \in 1..n
      BY <1>1, <2>1
    <3> QED BY <1>5, <2>1, <3>1
  <2>2. CASE i = m + 1
    BY <1>1, <1>5, <2>2
  <2>3. CASE i > m + 1
    <3>1. i \in (m + 2)..(n + 1) /\ i - 1 \in 1..n /\ i - 1 > m
      BY <1>1, <2>3
    <3> QED BY <1>5, <3>1
  <2> QED BY <1>1, <2>1, <2>2, <2>3
<1>13. ASSUME NEW i \in 1..(n + 1), InTable(e[i]), ~NoKey(e[i], <<1, 2>>)
       PROVE  i \in (h + 2)..(m + 1)
  <2>1. CASE i \in 1..n /\ e[i] = lines[i]
    <3>1. i \in (h + 2)..m
      BY <1>2, <1>13, <2>1
    <3> QED BY <1>1, <3>1
  <2>2. CASE i - 1 \in 1..n /\ i - 1 > m /\ e[i] = lines[i - 1]
    <3>1. i - 1 \in (h + 2)..m
      BY <1>2, <1>13, <2>2
    <3> QED BY <1>1, <2>2, <3>1
  <2> QED BY <1>12, <2>1, <2>2
<1>14. ASSUME NEW i \in (h + 2)..(m + 1), NEW j \in (h + 2)..(m + 1), HasKey(e[i], e[j], <<1, 2>>)
       PROVE  i = j
  <2>1. CASE i = m + 1 /\ j # m + 1
    <3>1. j \in (h + 2)..m /\ e[i] = row /\ e[j] = lines[j]
      BY <1>5, <1>8, <2>1
    <3>2. lines[j] \in Line /\ InTable(lines[j])
      BY <1>1, <3>1
    <3>3. HasKey(lines[j], row, <<1, 2>>)
      BY <1>3, <1>14, <3>1, <3>2, KeysAlike
    <3> QED BY <3>1, <3>3 DEF row
  <2>2. CASE i # m + 1 /\ j = m + 1
    <3>1. i \in (h + 2)..m /\ e[j] = row /\ e[i] = lines[i]
      BY <1>5, <1>8, <2>2
    <3> QED BY <1>14, <3>1 DEF row
  <2>3. CASE i # m + 1 /\ j # m + 1
    BY <1>2, <1>8, <1>14, <2>3
  <2> QED BY <2>1, <2>2, <2>3
<1>15. ASSUME NEW i \in 1..(n + 1), NEW d \in Writes, HasKey(e[i], NewRow(d), <<1, 2>>)
       PROVE  i \in {h} \cup (h + 2)..(m + 1)
  <2>1. CASE i \in 1..n /\ e[i] = lines[i]
    <3>1. i \in {h} \cup (h + 2)..m
      BY <1>2, <1>15, <2>1
    <3> QED BY <1>1, <3>1
  <2>2. CASE i - 1 \in 1..n /\ i - 1 > m /\ e[i] = lines[i - 1]
    <3>1. i - 1 \in {h} \cup (h + 2)..m
      BY <1>2, <1>15, <2>2
    <3> QED BY <1>1, <2>2, <3>1
  <2> QED BY <1>12, <2>1, <2>2
<1> QED BY <1>4, <1>6, <1>7, <1>9, <1>10, <1>11, <1>13, <1>14, <1>15, OrderlyOf

\* A note behind the table, or behind what follows it a row without a key.
LEMMA OrderlyBehind ==
  ASSUME NEW lines \in Seq(Line), NEW h, NEW m, Orderly(lines, h, m), NEW x \in Line,
         x.kind = "text" \/ (x.kind = "row" /\ NoKey(x, <<1, 2>>) /\ m < Len(lines)),
         NEW e \in Seq(Line), Len(e) = Len(lines) + 1,
         \A i \in 1..Len(lines) : e[i] = lines[i], e[Len(lines) + 1] = x
  PROVE  Orderly(e, h, m)
<1> DEFINE n == Len(lines)
<1>1. /\ h \in Nat /\ m \in Nat /\ n \in Nat /\ 1 <= h /\ h + 1 <= m /\ m <= n /\ HeadedAt(lines, h)
      /\ lines[h] = Header /\ lines[h + 1] = Sep(Width)
      /\ \A i \in 1..n : lines[i] \in Line
      /\ \A i \in 1..n : i < h => lines[i].kind \notin {"row", "sep"}
      /\ \A i \in (h + 2)..m : i \in 1..n /\ InTable(lines[i])
  BY OrderlyIs
<1>2. /\ m < n => Ends(lines, m + 1)
      /\ \A i \in (m + 1)..n : lines[i].kind = "sep" => \E j \in (m + 1)..(i - 1) : lines[j].kind = "row"
      /\ \A i \in 1..n : InTable(lines[i]) /\ ~NoKey(lines[i], <<1, 2>>) => i \in (h + 2)..m
      /\ \A i, j \in (h + 2)..m : HasKey(lines[i], lines[j], <<1, 2>>) => i = j
      /\ \A i \in 1..n, d \in Writes :
           HasKey(lines[i], NewRow(d), <<1, 2>>) => i \in {h} \cup (h + 2)..m
  BY OrderlyRows
<1>3. DOMAIN e = 1..(n + 1) /\ DOMAIN lines = 1..n /\ Len(e) = n + 1
  OBVIOUS
<1>4. \A i \in 1..n : e[i] = lines[i]
  OBVIOUS
<1>5. e[n + 1] = x
  OBVIOUS
<1>6. x.kind = "text" \/ (x.kind = "row" /\ NoKey(x, <<1, 2>>) /\ m < n)
  OBVIOUS
<1> HIDE DEF n
<1>7. HeadedAt(e, h)
  <2>1. h + 1 <= Len(e) /\ \A i \in 1..(h + 1) : e[i] = lines[i]
    BY <1>1, <1>3, <1>4
  <2> QED BY <1>1, <2>1, HeadedBegins
<1>8. e[h + 1] = Sep(Width) /\ m \in (h + 1)..(n + 1)
  BY <1>1, <1>4
<1>9. \A i \in (h + 2)..m : i \in 1..n /\ e[i] = lines[i] /\ InTable(e[i])
  BY <1>1, <1>4
<1>10. Ends(e, m + 1)
  <2>1. CASE m = n
    <3>1. e[m + 1] = x /\ x.kind = "text"
      <4>1. ~(m < n)
        BY <1>1, <2>1
      <4> QED BY <1>5, <1>6, <2>1, <4>1
    <3>2. m + 1 \notin Pipes(e)
      BY <3>1 DEF Pipes
    <3> QED BY <3>2 DEF Ends
  <2>2. CASE m < n
    <3>1. Ends(lines, m + 1) /\ m + 1 \in 1..n /\ e[m + 1] = lines[m + 1]
      BY <1>1, <1>2, <1>4, <2>2
    <3>2. m + 1 \in Pipes(e) => m + 1 \in Pipes(lines)
      BY <1>3, <3>1 DEF Pipes
    <3>3. ASSUME (m + 1) + 1 \in Pipes(lines)
          PROVE  (m + 1) + 1 \in Pipes(e) /\ e[(m + 1) + 1] = lines[(m + 1) + 1]
      <4>1. (m + 1) + 1 \in 1..n /\ (m + 1) + 1 \in 1..(n + 1)
        BY <1>1, <1>3, <3>3 DEF Pipes
      <4> QED BY <1>3, <1>4, <3>3, <4>1 DEF Pipes
    <3> QED BY <3>1, <3>2, <3>3 DEF Ends
  <2> QED BY <1>1, <2>1, <2>2
<1>11. \A i \in 1..(n + 1) : (i \in 1..n /\ e[i] = lines[i]) \/ (i = n + 1 /\ e[i] = x)
  BY <1>1, <1>4, <1>5
<1>12. ASSUME NEW i \in (m + 1)..(n + 1), e[i].kind = "sep"
       PROVE  \E j \in (m + 1)..(i - 1) : e[j].kind = "row"
  <2>1. i # n + 1
    BY <1>5, <1>6, <1>12
  <2>2. i \in (m + 1)..n /\ i \in 1..n
    <3>1. m \in Nat /\ n \in Nat
      BY <1>1
    <3> QED BY <2>1, <3>1
  <2>3. PICK j \in (m + 1)..(i - 1) : lines[j].kind = "row"
    BY <1>2, <1>4, <1>12, <2>2
  <2>4. j \in 1..n
    BY <1>1, <2>2, <2>3
  <2> QED BY <1>4, <2>3, <2>4
<1>13. ASSUME NEW i \in 1..(n + 1), InTable(e[i]), ~NoKey(e[i], <<1, 2>>)
       PROVE  i \in (h + 2)..m
  BY <1>2, <1>6, <1>11, <1>13 DEF InTable
<1>14. \A i, j \in (h + 2)..m : HasKey(e[i], e[j], <<1, 2>>) => i = j
  BY <1>2, <1>9
<1>15. ASSUME NEW i \in 1..(n + 1), NEW d \in Writes, HasKey(e[i], NewRow(d), <<1, 2>>)
       PROVE  i \in {h} \cup (h + 2)..m
  <2>1. ~HasKey(x, NewRow(d), <<1, 2>>)
    <3>1. NewRow(d) \in Line
      BY LinesAre
    <3> QED BY <1>6, <3>1, KeysAre
  <2> QED BY <1>2, <1>11, <1>15, <2>1
<1> QED BY <1>3, <1>7, <1>8, <1>9, <1>10, <1>12, <1>13, <1>14, <1>15, OrderlyOf

\* The row of a key is replaced where it stands.
LEMMA OrderlyReplaced ==
  ASSUME NEW lines \in Seq(Line), NEW h, NEW m, Orderly(lines, h, m), NEW c \in Writes,
         NEW k \in (h + 2)..m, HasKey(lines[k], NewRow(c), <<1, 2>>),
         NEW e \in Seq(Line), Len(e) = Len(lines),
         \A i \in 1..Len(lines) : e[i] = IF i = k THEN NewRow(c) ELSE lines[i]
  PROVE  Orderly(e, h, m)
<1> DEFINE n == Len(lines)
           row == NewRow(c)
<1>1. /\ h \in Nat /\ m \in Nat /\ n \in Nat /\ 1 <= h /\ h + 1 <= m /\ m <= n /\ HeadedAt(lines, h)
      /\ lines[h] = Header /\ lines[h + 1] = Sep(Width)
      /\ \A i \in 1..n : lines[i] \in Line
      /\ \A i \in 1..n : i < h => lines[i].kind \notin {"row", "sep"}
      /\ \A i \in (h + 2)..m : i \in 1..n /\ InTable(lines[i])
  BY OrderlyIs
<1>2. /\ m < n => Ends(lines, m + 1)
      /\ \A i \in (m + 1)..n : lines[i].kind = "sep" => \E j \in (m + 1)..(i - 1) : lines[j].kind = "row"
      /\ \A i \in 1..n : InTable(lines[i]) /\ ~NoKey(lines[i], <<1, 2>>) => i \in (h + 2)..m
      /\ \A i, j \in (h + 2)..m : HasKey(lines[i], lines[j], <<1, 2>>) => i = j
      /\ \A i \in 1..n, d \in Writes :
           HasKey(lines[i], NewRow(d), <<1, 2>>) => i \in {h} \cup (h + 2)..m
  BY OrderlyRows
<1>3. row \in Line /\ InTable(row)
  BY RowFits
<1>4. DOMAIN e = 1..n /\ DOMAIN lines = 1..n /\ Len(e) = n
  OBVIOUS
<1>5. \A i \in 1..n : e[i] = IF i = k THEN row ELSE lines[i]
  OBVIOUS
<1>6. HasKey(lines[k], row, <<1, 2>>)
  OBVIOUS
<1> HIDE DEF n, row
<1>7. HeadedAt(e, h) /\ e[h + 1] = Sep(Width) /\ m \in (h + 1)..n
  <2>1. h + 1 <= Len(e) /\ \A i \in 1..(h + 1) : e[i] = lines[i]
    BY <1>1, <1>4, <1>5
  <2>2. HeadedAt(e, h)
    BY <1>1, <2>1, HeadedBegins
  <2> QED BY <1>1, <2>1, <2>2
<1>8. \A i \in (h + 2)..m : i \in 1..n /\ InTable(e[i])
  BY <1>1, <1>3, <1>5
<1>9. \A i \in (m + 1)..n : i \in 1..n /\ e[i] = lines[i]
  BY <1>1, <1>5
<1>10. ASSUME m < n PROVE Ends(e, m + 1)
  <2>1. Ends(lines, m + 1) /\ m + 1 \in (m + 1)..n /\ e[m + 1] = lines[m + 1]
    BY <1>1, <1>2, <1>9, <1>10
  <2>2. \A i \in {m + 1, (m + 1) + 1} : i \in Pipes(lines) <=> i \in Pipes(e)
    BY <1>1, <1>4, <1>9 DEF Pipes
  <2>3. (m + 1) + 1 \in Pipes(lines) => e[(m + 1) + 1] = lines[(m + 1) + 1]
    BY <1>1, <1>4, <1>9 DEF Pipes
  <2> QED BY <2>1, <2>2, <2>3 DEF Ends
<1>11. ASSUME NEW i \in (m + 1)..n, e[i].kind = "sep"
       PROVE  \E j \in (m + 1)..(i - 1) : e[j].kind = "row"
  <2>1. PICK j \in (m + 1)..(i - 1) : lines[j].kind = "row"
    BY <1>2, <1>9, <1>11
  <2>2. j \in (m + 1)..n
    BY <1>1, <1>11, <2>1
  <2> QED BY <1>9, <2>1, <2>2
<1>12. \A i \in 1..n : InTable(e[i]) /\ ~NoKey(e[i], <<1, 2>>) => i \in (h + 2)..m
  BY <1>2, <1>5
<1>13. ASSUME NEW i \in (h + 2)..m, NEW j \in (h + 2)..m, HasKey(e[i], e[j], <<1, 2>>)
       PROVE  i = j
  <2>1. \A l \in (h + 2)..m : /\ lines[l] \in Line /\ InTable(lines[l])
                              /\ e[l] = IF l = k THEN row ELSE lines[l]
    BY <1>1, <1>5
  <2>2. \A l \in (h + 2)..m : HasKey(lines[l], row, <<1, 2>>) => l = k
    <3> SUFFICES ASSUME NEW l \in (h + 2)..m, HasKey(lines[l], row, <<1, 2>>) PROVE l = k
      OBVIOUS
    <3>1. HasKey(lines[l], lines[k], <<1, 2>>)
      <4>1. ~NoKey(lines[k], <<1, 2>>)
        BY <1>3, <1>6, <2>1, KeysAlike
      <4>2. lines[k].cells[1] = row.cells[1] /\ lines[k].cells[2] = row.cells[2]
        BY <1>3, <1>6, <2>1, KeysAre
      <4>3. /\ lines[l].kind = "row" /\ Len(lines[l].cells) >= 2
            /\ lines[l].cells[1] = row.cells[1] /\ lines[l].cells[2] = row.cells[2]
        BY <1>3, <2>1, KeysAre
      <4>4. lines[l] \in Line /\ lines[k] \in Line
        BY <2>1
      <4>5. HasKey(lines[l], lines[k], <<1, 2>>) <=>
              /\ lines[l].kind = "row" /\ Len(lines[l].cells) >= 2 /\ ~NoKey(lines[k], <<1, 2>>)
              /\ lines[l].cells[1] = lines[k].cells[1] /\ lines[l].cells[2] = lines[k].cells[2]
        <5>1. \A x, y \in Line : HasKey(x, y, <<1, 2>>) <=>
                /\ x.kind = "row" /\ Len(x.cells) >= 2 /\ ~NoKey(y, <<1, 2>>)
                /\ x.cells[1] = y.cells[1] /\ x.cells[2] = y.cells[2]
          BY KeysAre
        <5> QED BY <4>4, <5>1, Zenon
      <4> QED BY <4>1, <4>2, <4>3, <4>5
    <3> QED BY <1>2, <3>1
  <2>3. CASE i = k /\ j # k
    <3>1. HasKey(row, lines[j], <<1, 2>>)
      BY <1>13, <2>1, <2>3
    <3>2. HasKey(lines[j], row, <<1, 2>>)
      BY <1>3, <2>1, <3>1, KeysAlike
    <3> QED BY <2>2, <2>3, <3>2
  <2>4. CASE i # k /\ j = k
    BY <1>13, <2>1, <2>2, <2>4
  <2>5. CASE i # k /\ j # k
    BY <1>2, <1>13, <2>1, <2>5
  <2> QED BY <2>3, <2>4, <2>5
<1>14. \A i \in 1..n, d \in Writes : HasKey(e[i], NewRow(d), <<1, 2>>) => i \in {h} \cup (h + 2)..m
  BY <1>2, <1>5
<1> QED BY <1>4, <1>7, <1>8, <1>10, <1>11, <1>12, <1>13, <1>14, OrderlyOf

\* A fence in front of the file moves the table by a line.
LEMMA OrderlyFenced ==
  ASSUME NEW lines \in Seq(Line), NEW h, NEW m, Orderly(lines, h, m)
  PROVE  Orderly(<<Fence>> \o lines, h + 1, m + 1)
<1> DEFINE n == Len(lines)
           e == <<Fence>> \o lines
<1>1. /\ h \in Nat /\ m \in Nat /\ n \in Nat /\ 1 <= h /\ h + 1 <= m /\ m <= n /\ HeadedAt(lines, h)
      /\ lines[h] = Header /\ lines[h + 1] = Sep(Width)
      /\ \A i \in 1..n : lines[i] \in Line
      /\ \A i \in 1..n : i < h => lines[i].kind \notin {"row", "sep"}
      /\ \A i \in (h + 2)..m : i \in 1..n /\ InTable(lines[i])
  BY OrderlyIs
<1>2. /\ m < n => Ends(lines, m + 1)
      /\ \A i \in (m + 1)..n : lines[i].kind = "sep" => \E j \in (m + 1)..(i - 1) : lines[j].kind = "row"
      /\ \A i \in 1..n : InTable(lines[i]) /\ ~NoKey(lines[i], <<1, 2>>) => i \in (h + 2)..m
      /\ \A i, j \in (h + 2)..m : HasKey(lines[i], lines[j], <<1, 2>>) => i = j
      /\ \A i \in 1..n, d \in Writes :
           HasKey(lines[i], NewRow(d), <<1, 2>>) => i \in {h} \cup (h + 2)..m
  BY OrderlyRows
<1>3. Fence \in Line /\ Fence.kind = "fence"
  BY LinesAre
<1>4. DOMAIN e = 1..(n + 1) /\ DOMAIN lines = 1..n /\ Len(e) = n + 1 /\ e \in Seq(Line)
  BY <1>3
<1>5. e[1] = Fence /\ \A i \in 1..n : e[i + 1] = lines[i]
  BY <1>3
<1>6. HeadedAt(e, h + 1)
  BY <1>1, <1>3, HeadedBehind
<1> HIDE DEF n, e
<1>7. \A i \in 2..(n + 1) : i - 1 \in 1..n /\ e[i] = lines[i - 1]
  <2>1. \A i \in 2..(n + 1) : i - 1 \in 1..n /\ (i - 1) + 1 = i
    BY <1>1
  <2> QED BY <1>5, <2>1
<1>8. e[(h + 1) + 1] = Sep(Width) /\ m + 1 \in ((h + 1) + 1)..(n + 1)
  <2>1. h + 1 \in 1..n
    BY <1>1
  <2> QED BY <1>1, <1>5, <2>1
<1>9. \A i \in ((h + 1) + 2)..(m + 1) : /\ i \in 2..(n + 1) /\ i - 1 \in (h + 2)..m
                                     /\ e[i] = lines[i - 1] /\ InTable(e[i])
  <2>1. \A i \in ((h + 1) + 2)..(m + 1) : i \in 2..(n + 1) /\ i - 1 \in (h + 2)..m
    BY <1>1
  <2> QED BY <1>1, <1>7, <2>1
<1>10. ASSUME m + 1 < n + 1 PROVE Ends(e, (m + 1) + 1)
  <2>1. Ends(lines, m + 1) /\ m + 1 \in 1..n /\ (m + 1) + 1 \in 1..(n + 1) /\ e[(m + 1) + 1] = lines[m + 1]
    BY <1>1, <1>2, <1>5, <1>10
  <2>2. (m + 1) + 1 \in Pipes(e) => m + 1 \in Pipes(lines)
    BY <1>4, <2>1 DEF Pipes
  <2>3. ASSUME (m + 1) + 1 \in Pipes(lines)
        PROVE  /\ ((m + 1) + 1) + 1 \in Pipes(e)
               /\ e[((m + 1) + 1) + 1] = lines[(m + 1) + 1]
    <3>1. (m + 1) + 1 \in 1..n /\ ((m + 1) + 1) + 1 \in 1..(n + 1)
          /\ lines[(m + 1) + 1].kind \in {"row", "sep"}
      BY <1>1, <1>4, <2>3 DEF Pipes
    <3>2. e[((m + 1) + 1) + 1] = lines[(m + 1) + 1]
      BY <1>5, <3>1
    <3> QED BY <1>4, <3>1, <3>2 DEF Pipes
  <2> QED BY <2>1, <2>2, <2>3 DEF Ends
<1>11. ASSUME NEW i \in ((m + 1) + 1)..(n + 1), e[i].kind = "sep"
       PROVE  \E j \in ((m + 1) + 1)..(i - 1) : e[j].kind = "row"
  <2>1. i - 1 \in (m + 1)..n /\ e[i] = lines[i - 1]
    <3>1. i \in 2..(n + 1) /\ i - 1 \in (m + 1)..n
      BY <1>1
    <3> QED BY <1>7, <3>1
  <2>2. PICK j \in (m + 1)..((i - 1) - 1) : lines[j].kind = "row"
    BY <1>2, <1>11, <2>1
  <2>3. j + 1 \in ((m + 1) + 1)..(i - 1) /\ j \in 1..n
    <3>1. m \in Nat /\ n \in Nat /\ i \in Int /\ j \in Int /\ m + 1 <= j /\ j <= (i - 1) - 1 /\ i <= n + 1
      BY <1>1, <2>1, <2>2
    <3> QED BY <3>1
  <2> QED BY <1>5, <2>2, <2>3
<1>12. \A i \in 1..(n + 1) : (i = 1 /\ e[i] = Fence) \/ (i - 1 \in 1..n /\ e[i] = lines[i - 1])
  <2>1. \A i \in 1..(n + 1) : i = 1 \/ i \in 2..(n + 1)
    BY <1>1
  <2> QED BY <1>5, <1>7, <2>1
<1>13. ASSUME NEW i \in 1..(n + 1), InTable(e[i]), ~NoKey(e[i], <<1, 2>>)
       PROVE  i \in ((h + 1) + 2)..(m + 1)
  <2>1. i - 1 \in (h + 2)..m
    BY <1>2, <1>3, <1>12, <1>13 DEF InTable
  <2> QED BY <1>1, <2>1
<1>14. ASSUME NEW i \in ((h + 1) + 2)..(m + 1), NEW j \in ((h + 1) + 2)..(m + 1),
              HasKey(e[i], e[j], <<1, 2>>)
       PROVE  i = j
  <2>1. i - 1 = j - 1
    BY <1>2, <1>9, <1>14
  <2> QED BY <1>1, <2>1
<1>15. ASSUME NEW i \in 1..(n + 1), NEW d \in Writes, HasKey(e[i], NewRow(d), <<1, 2>>)
       PROVE  i \in {h + 1} \cup ((h + 1) + 2)..(m + 1)
  <2>1. ~HasKey(Fence, NewRow(d), <<1, 2>>)
    BY <1>3 DEF HasKey
  <2>2. i - 1 \in {h} \cup (h + 2)..m
    BY <1>2, <1>12, <1>15, <2>1
  <2> QED BY <1>1, <2>2
<1>16. Orderly(e, h + 1, m + 1)
  BY <1>4, <1>6, <1>8, <1>9, <1>10, <1>11, <1>13, <1>14, <1>15, OrderlyOf
<1> QED BY <1>16 DEF e

\* A row put in at a place.
LEMMA InsertedIs ==
  ASSUME NEW lines \in Seq(Line), NEW row \in Line, NEW t \in 1..(Len(lines) + 1)
  PROVE  /\ InsertAt(lines, t, row) \in Seq(Line) /\ Len(InsertAt(lines, t, row)) = Len(lines) + 1
         /\ \A i \in 1..(t - 1) : InsertAt(lines, t, row)[i] = lines[i]
         /\ InsertAt(lines, t, row)[t] = row
         /\ \A i \in t..Len(lines) : InsertAt(lines, t, row)[i + 1] = lines[i]
<1> DEFINE n == Len(lines)
           s1 == SubSeq(lines, 1, t - 1)
           s2 == SubSeq(lines, t, n)
           mid == <<row>>
<1>1. n \in Nat /\ t \in Nat /\ t - 1 \in 0..n /\ \A i \in 1..n : lines[i] \in Line
  OBVIOUS
<1>2. s1 \in Seq(Line) /\ Len(s1) = t - 1 /\ \A i \in 1..(t - 1) : s1[i] = lines[i]
  <2>1. \A i \in 1..(t - 1) : lines[i] \in Line
    BY <1>1
  <2>2. /\ SubSeq(lines, 1, t - 1) \in Seq(Line)
        /\ Len(SubSeq(lines, 1, t - 1)) = IF 1 <= t - 1 THEN (t - 1) - 1 + 1 ELSE 0
        /\ \A i \in 1..((t - 1) - 1 + 1) : SubSeq(lines, 1, t - 1)[i] = lines[1 + i - 1]
    BY <1>1, <2>1, SubSeqProperties
  <2> QED BY <1>1, <2>2
<1>3. s2 \in Seq(Line) /\ Len(s2) = n - t + 1 /\ \A i \in 1..(n - t + 1) : s2[i] = lines[t + i - 1]
  <2>1. \A i \in t..n : lines[i] \in Line
    BY <1>1
  <2>2. /\ SubSeq(lines, t, n) \in Seq(Line)
        /\ Len(SubSeq(lines, t, n)) = IF t <= n THEN n - t + 1 ELSE 0
        /\ \A i \in 1..(n - t + 1) : SubSeq(lines, t, n)[i] = lines[t + i - 1]
    BY <1>1, <2>1, SubSeqProperties
  <2> QED BY <1>1, <2>2
<1>4. InsertAt(lines, t, row) = s1 \o mid \o s2
  BY DEF InsertAt
<1>5. mid \in Seq(Line) /\ Len(mid) = 1 /\ mid[1] = row
  OBVIOUS
<1> HIDE DEF s1, s2, mid, n
<1> DEFINE e == s1 \o mid
           f == e \o s2
<1>10. \A x, y \in Seq(Line) :
         /\ x \o y \in Seq(Line) /\ Len(x \o y) = Len(x) + Len(y) /\ Len(x) \in Nat /\ Len(y) \in Nat
         /\ \A i \in 1..Len(x) : (x \o y)[i] = x[i]
         /\ \A i \in 1..Len(y) : (x \o y)[Len(x) + i] = y[i]
  OBVIOUS
<1>6. e \in Seq(Line) /\ Len(e) = t /\ e[t] = row /\ \A i \in 1..(t - 1) : e[i] = lines[i]
  <2>1. /\ e \in Seq(Line) /\ Len(e) = Len(s1) + Len(mid)
        /\ \A i \in 1..Len(s1) : e[i] = s1[i]
        /\ \A i \in 1..Len(mid) : e[Len(s1) + i] = mid[i]
    BY <1>2, <1>5, <1>10, Zenon
  <2>2. (t - 1) + 1 = t /\ 1 \in 1..1
    BY <1>1
  <2> HIDE DEF e
  <2>3. e[t] = row
    BY <1>2, <1>5, <2>1, <2>2
  <2> QED BY <1>2, <1>5, <2>1, <2>2, <2>3
<1> HIDE DEF e
<1>7. /\ f \in Seq(Line) /\ Len(f) = t + Len(s2) /\ \A i \in 1..t : f[i] = e[i]
      /\ \A i \in 1..Len(s2) : f[t + i] = s2[i]
  <2>1. /\ f \in Seq(Line) /\ Len(f) = Len(e) + Len(s2)
        /\ \A i \in 1..Len(e) : f[i] = e[i]
        /\ \A i \in 1..Len(s2) : f[Len(e) + i] = s2[i]
    BY <1>3, <1>6, <1>10, Zenon
  <2> HIDE DEF f
  <2> QED BY <1>6, <2>1
<1> HIDE DEF f
<1>8. Len(f) = n + 1 /\ f[t] = row /\ \A i \in 1..(t - 1) : f[i] = lines[i]
  BY <1>1, <1>3, <1>6, <1>7
<1>9. ASSUME NEW i \in t..n PROVE f[i + 1] = lines[i]
  <2>1. i - t + 1 \in 1..(n - t + 1) /\ t + (i - t + 1) = i + 1 /\ t + (i - t + 1) - 1 = i
    BY <1>1
  <2> QED BY <1>3, <1>7, <2>1
<1> QED BY <1>4, <1>7, <1>8, <1>9 DEF f, e, n

\* A file of which every line is picked.
LEMMA PickedAll ==
  ASSUME NEW S, NEW lines \in Seq(S), NEW places, 1..Len(lines) \subseteq places
  PROVE  Picked(lines, places) = lines
<1> DEFINE n == Len(lines)
           part(m) == SubSeq(lines, 1, m)
<1>1. n \in Nat
  OBVIOUS
<1>2. PICK u : /\ u[0] = <<>>
               /\ \A i \in 1..n : u[i] = IF i \in places THEN Append(u[i - 1], lines[i]) ELSE u[i - 1]
               /\ Picked(lines, places) = u[n]
  BY <1>1, PickedStepwise
<1> DEFINE Good == {m \in Nat : u[m] = part(m)}
<1>3. 0 \in Good
  <2>1. part(0) = <<>>
    BY SubSeqEmpty
  <2> QED BY <1>2, <2>1
<1>4. \A m \in 1..n : m - 1 \in Good => m \in Good
  <2> SUFFICES ASSUME NEW m \in 1..n, u[m - 1] = part(m - 1) PROVE u[m] = part(m)
    OBVIOUS
  <2>1. part(m) = Append(part(m - 1), lines[m])
    BY PartStep
  <2>2. u[m] = Append(u[m - 1], lines[m])
    BY <1>2
  <2> HIDE DEF part
  <2> QED BY <2>1, <2>2
<1>5. n \in Good
  <2> HIDE DEF Good, n
  <2> QED BY <1>1, <1>3, <1>4, Upwards
<1>6. part(n) = lines
  BY SubSeqFull
<1> QED BY <1>2, <1>5, <1>6

\* What a keyed write makes of an orderly file: the file as it was, a line more
\* at its end, a row more in its table, or another row in the place of one.
LEMMA UpsertIs ==
  ASSUME NEW base \in Seq(Line), NEW h, NEW m, Orderly(base, h, m), NEW c \in Writes,
         NEW u, u = UpsertRow(base, NewRow(c))
  PROVE  \/ HeaderAgain(NewRow(c), <<1, 2>>) /\ u = base
         \/ /\ NoKey(NewRow(c), <<1, 2>>)
            /\ u \in Seq(Line) /\ Len(u) = Len(base) + 1 /\ u[Len(base) + 1] = NewRow(c)
            /\ \A i \in 1..Len(base) : u[i] = base[i]
         \/ /\ ~HeaderAgain(NewRow(c), <<1, 2>>) /\ ~NoKey(NewRow(c), <<1, 2>>)
            /\ \A i \in (h + 2)..m : ~HasKey(base[i], NewRow(c), <<1, 2>>)
            /\ u \in Seq(Line) /\ Len(u) = Len(base) + 1 /\ u[m + 1] = NewRow(c)
            /\ \A i \in 1..m : u[i] = base[i]
            /\ \A i \in (m + 1)..Len(base) : u[i + 1] = base[i]
         \/ /\ ~HeaderAgain(NewRow(c), <<1, 2>>) /\ ~NoKey(NewRow(c), <<1, 2>>)
            /\ u \in Seq(Line) /\ Len(u) = Len(base)
            /\ \E k \in (h + 2)..m :
                 /\ HasKey(base[k], NewRow(c), <<1, 2>>)
                 /\ \A i \in 1..Len(base) : u[i] = IF i = k THEN NewRow(c) ELSE base[i]
<1> DEFINE n == Len(base)
           row == NewRow(c)
           same  == {i \in DOMAIN base : i \notin Structural(base) /\ HasKey(base[i], row, <<1, 2>>)}
           fits  == {i \in same : \/ Len(base[i].cells) = Len(row.cells)
                                  \/ IsPrefix(base[i].cells, row.cells)}
           stays == {i \in DOMAIN base : i \notin same \/ fits = {} \/ i <= First(fits)}
           put   == [i \in DOMAIN base |-> IF i \in fits /\ i = First(fits) THEN row ELSE base[i]]
<1>1. /\ h \in Nat /\ m \in Nat /\ n \in Nat /\ 1 <= h /\ h + 1 <= m /\ m <= n /\ DOMAIN base = 1..n
      /\ HeadedAt(base, h)
      /\ \A i \in 1..n : base[i] \in Line
      /\ \A i \in (h + 2)..m : i \in 1..n /\ InTable(base[i])
  BY OrderlyIs
<1>2. KeyColumns(base) = <<1, 2>> /\ h \in Structural(base)
  BY <1>1, HeadedKeys
<1>3. row \in Line /\ InTable(row)
  BY RowFits
<1>4. KeyTableTail(base) = m + 1 /\ \A i \in (h + 2)..m : i \notin Structural(base)
  BY TailIs
<1>5. u = IF HeaderAgain(row, <<1, 2>>) THEN base
          ELSE IF NoKey(row, <<1, 2>>) THEN Append(base, row)
          ELSE IF same = {} THEN InsertAt(base, KeyTableTail(base), row) ELSE Picked(put, stays)
  BY <1>2 DEF UpsertRow
<1>6. \A i \in same : i \in (h + 2)..m /\ HasKey(base[i], row, <<1, 2>>)
  <2> SUFFICES ASSUME NEW i \in same PROVE i \in (h + 2)..m /\ HasKey(base[i], row, <<1, 2>>)
    OBVIOUS
  <2>1. i \in 1..n /\ i \notin Structural(base) /\ HasKey(base[i], row, <<1, 2>>)
    BY <1>1
  <2>2. i \in {h} \cup (h + 2)..m
    BY <2>1, OrderlyRows
  <2> QED BY <1>2, <2>1, <2>2
<1>7. \A i \in (h + 2)..m : HasKey(base[i], row, <<1, 2>>) => i \in same
  BY <1>1, <1>4
<1>8. \A i, j \in same : i = j
  <2> SUFFICES ASSUME NEW i \in same, NEW j \in same PROVE i = j
    OBVIOUS
  <2>1. /\ base[i] \in Line /\ InTable(base[i]) /\ HasKey(base[i], row, <<1, 2>>) /\ i \in (h + 2)..m
        /\ base[j] \in Line /\ InTable(base[j]) /\ HasKey(base[j], row, <<1, 2>>) /\ j \in (h + 2)..m
    BY <1>1, <1>6
  <2> HIDE DEF same, row
  <2>2. \A x, y \in Line : HasKey(x, y, <<1, 2>>) <=>
          /\ x.kind = "row" /\ Len(x.cells) >= 2 /\ ~NoKey(y, <<1, 2>>)
          /\ x.cells[1] = y.cells[1] /\ x.cells[2] = y.cells[2]
    BY KeysAre
  <2>3. ~NoKey(base[j], <<1, 2>>)
    BY <1>3, <2>1, KeysAlike
  <2>4. HasKey(base[i], base[j], <<1, 2>>)
    BY <1>3, <2>1, <2>2, <2>3
  <2> QED BY <2>1, <2>4, OrderlyRows
<1>9. fits = same
  <2>1. \A i \in same : Len(base[i].cells) = Len(row.cells)
    BY <1>1, <1>3, <1>6 DEF InTable
  <2> QED BY <2>1
<1>10. CASE HeaderAgain(row, <<1, 2>>)
  BY <1>5, <1>10 DEF row
<1>11. CASE ~HeaderAgain(row, <<1, 2>>) /\ NoKey(row, <<1, 2>>)
  <2> DEFINE e == Append(base, row)
  <2>1. u = e
    BY <1>5, <1>11
  <2>2. e \in Seq(Line) /\ Len(e) = n + 1 /\ e[n + 1] = row /\ \A i \in 1..n : e[i] = base[i]
    BY <1>3
  <2> HIDE DEF e
  <2> QED BY <1>11, <2>1, <2>2
<1> DEFINE keyed == ~HeaderAgain(row, <<1, 2>>) /\ ~NoKey(row, <<1, 2>>)
<1>12. CASE keyed /\ same = {}
  <2> DEFINE t == m + 1
             e == InsertAt(base, t, row)
  <2>1. u = e
    BY <1>4, <1>5, <1>12
  <2>2. t \in 1..(n + 1) /\ t - 1 = m
    BY <1>1
  <2> HIDE DEF t
  <2>3. /\ e \in Seq(Line) /\ Len(e) = n + 1 /\ \A i \in 1..(t - 1) : e[i] = base[i]
        /\ e[t] = row /\ \A i \in t..n : e[i + 1] = base[i]
    BY <1>3, <2>2, InsertedIs
  <2>4. \A i \in (h + 2)..m : ~HasKey(base[i], row, <<1, 2>>)
    BY <1>7, <1>12
  <2>5. ~HeaderAgain(row, <<1, 2>>) /\ ~NoKey(row, <<1, 2>>)
    BY <1>12
  <2> HIDE DEF e, same, row
  <2>6. \A i \in 1..m : e[i] = base[i]
    BY <2>2, <2>3
  <2>7. e[m + 1] = row /\ \A i \in (m + 1)..n : e[i + 1] = base[i]
    BY <2>3 DEF t
  <2> QED BY <2>1, <2>3, <2>4, <2>5, <2>6, <2>7 DEF row
<1>13. CASE keyed /\ same # {}
  <2>1. u = Picked(put, stays)
    BY <1>5, <1>13
  <2>2. PICK k \in same : TRUE
    BY <1>13
  <2>3. k \in (h + 2)..m /\ k \in 1..n /\ HasKey(base[k], row, <<1, 2>>)
    BY <1>1, <1>6
  <2>4. same = {k} /\ k \in Nat
    BY <1>1, <1>8, <2>3
  <2>5. fits = {k} /\ First(fits) = k
    <3> HIDE DEF same, fits
    <3>1. fits = {k}
      BY <1>9, <2>4
    <3>2. First({k}) = k
      BY <2>4, FirstIs
    <3> QED BY <3>1, <3>2
  <2> HIDE DEF same, fits
  <2>6. put = [i \in 1..n |-> IF i = k THEN row ELSE base[i]]
    BY <1>1, <2>5
  <2>7. 1..n \subseteq stays
    BY <1>1, <2>4, <2>5
  <2> HIDE DEF put, stays
  <2>8. put \in Seq(Line) /\ Len(put) = n /\ \A i \in 1..n : put[i] = IF i = k THEN row ELSE base[i]
    <3>1. put \in [1..n -> Line]
      BY <1>1, <1>3, <2>6
    <3>2. put \in Seq(Line)
      BY <1>1, <3>1, SeqDef
    <3>3. DOMAIN put = 1..n
      BY <3>1
    <3> QED BY <1>1, <2>6, <3>2, <3>3
  <2>9. Picked(put, stays) = put
    <3>1. 1..Len(put) \subseteq stays
      BY <2>7, <2>8
    <3> QED BY <2>8, <3>1, PickedAll
  <2>10. ~HeaderAgain(row, <<1, 2>>) /\ ~NoKey(row, <<1, 2>>)
    BY <1>13
  <2>11. u = put
    BY <2>1, <2>9
  <2> QED BY <2>3, <2>8, <2>10, <2>11
<1> QED BY <1>10, <1>11, <1>12, <1>13

\* A keyed write leaves the table in one piece.
LEMMA UpsertOrderly ==
  ASSUME NEW base \in Seq(Line), NEW h, NEW m, Orderly(base, h, m), NEW c \in Writes
  PROVE  \E k \in {m, m + 1} : Orderly(UpsertRow(base, NewRow(c)), h, k)
<1> DEFINE n == Len(base)
           row == NewRow(c)
           u == UpsertRow(base, row)
<1>1. m \in Nat /\ n \in Nat /\ m <= n /\ row \in Line /\ row.kind = "row"
  BY OrderlyIs, RowFits DEF InTable
<1>2. \A i \in (h + 2)..m : ~NoKey(row, <<1, 2>>) \/ ~HasKey(base[i], row, <<1, 2>>)
  BY DEF HasKey
<1> HIDE DEF u, row
<1>3. \/ u = base
      \/ /\ NoKey(row, <<1, 2>>)
         /\ u \in Seq(Line) /\ Len(u) = n + 1 /\ u[n + 1] = row /\ \A i \in 1..n : u[i] = base[i]
      \/ /\ \A i \in (h + 2)..m : ~HasKey(base[i], row, <<1, 2>>)
         /\ u \in Seq(Line) /\ Len(u) = n + 1 /\ u[m + 1] = row
         /\ \A i \in 1..m : u[i] = base[i]
         /\ \A i \in (m + 1)..n : u[i + 1] = base[i]
      \/ /\ u \in Seq(Line) /\ Len(u) = n
         /\ \E k \in (h + 2)..m :
              /\ HasKey(base[k], row, <<1, 2>>)
              /\ \A i \in 1..n : u[i] = IF i = k THEN row ELSE base[i]
  BY UpsertIs DEF u, row
<1>4. ASSUME NoKey(row, <<1, 2>>), u \in Seq(Line), Len(u) = n + 1, u[n + 1] = row,
             \A i \in 1..n : u[i] = base[i]
      PROVE  Orderly(u, h, m) \/ Orderly(u, h, m + 1)
  <2>1. CASE m < n
    BY <1>1, <1>4, <2>1, OrderlyBehind
  <2>2. CASE m = n
    <3>1. \A i \in (h + 2)..m : ~HasKey(base[i], row, <<1, 2>>)
      BY <1>2, <1>4
    <3>2. \A i \in (m + 1)..n : u[i + 1] = base[i]
      BY <1>1, <2>2
    <3>3. u[m + 1] = row /\ \A i \in 1..m : u[i] = base[i]
      BY <1>4, <2>2
    <3> HIDE DEF n
    <3> QED BY <1>4, <3>1, <3>2, <3>3, OrderlyGrown DEF n, row
  <2> HIDE DEF n
  <2> QED BY <1>1, <2>1, <2>2
<1>5. ASSUME \A i \in (h + 2)..m : ~HasKey(base[i], row, <<1, 2>>),
             u \in Seq(Line), Len(u) = n + 1, u[m + 1] = row,
             \A i \in 1..m : u[i] = base[i], \A i \in (m + 1)..n : u[i + 1] = base[i]
      PROVE  Orderly(u, h, m + 1)
  BY <1>5, OrderlyGrown DEF row
<1>6. ASSUME u \in Seq(Line), Len(u) = n, NEW k \in (h + 2)..m, HasKey(base[k], row, <<1, 2>>),
             \A i \in 1..n : u[i] = IF i = k THEN row ELSE base[i]
      PROVE  Orderly(u, h, m)
  BY <1>6, OrderlyReplaced DEF row
<1> HIDE DEF n
<1>7. Orderly(u, h, m) \/ Orderly(u, h, m + 1)
  BY <1>3, <1>4, <1>5, <1>6
<1> QED BY <1>7 DEF u, row

\* A table put at the end of a file has no rows yet.
LEMMA OrderlyNew ==
  ASSUME NEW content \in Seq(Line),
         \A i \in 1..Len(content) : content[i].kind \notin {"row", "sep"}
  PROVE  Orderly(content \o <<Header, Sep(Width)>>, Len(content) + 1, Len(content) + 2)
<1> DEFINE n == Len(content)
           s == Sep(Width)
           e == content \o <<Header, s>>
<1>1. /\ Header \in Line /\ s \in Line /\ Header.kind = "row" /\ s.kind = "sep" /\ n \in Nat
      /\ Header.by = Scaffold
  BY LinesAre
<1> HIDE DEF s
<1>2. /\ e \in Seq(Line) /\ Len(e) = n + 2 /\ DOMAIN e = 1..(n + 2)
      /\ \A i \in 1..n : e[i] = content[i]
      /\ e[n + 1] = Header /\ e[n + 2] = s
  BY <1>1
<1>3. \A i \in 1..n : e[i].kind \notin {"row", "sep"}
  BY <1>2
<1> HIDE DEF e, n
<1>4. \A i \in 1..(n + 2) : i \in 1..n \/ i = n + 1 \/ i = n + 2
  BY <1>1
<1>5. HeadedAt(e, n + 1)
  <2>1. n + 1 \in DOMAIN e /\ (n + 1) + 1 \in DOMAIN e /\ (n + 1) + 1 = n + 2
    BY <1>1, <1>2
  <2>2. \A i \in Pipes(e) : i >= n + 1
    BY <1>1, <1>2, <1>3, <1>4 DEF Pipes
  <2> QED BY <1>1, <1>2, <2>1, <2>2 DEF HeadedAt
<1>6. e[(n + 1) + 1] = s /\ n + 2 \in ((n + 1) + 1)..Len(e) /\ ~(n + 2 < Len(e))
      /\ ((n + 1) + 2)..(n + 2) = {} /\ ((n + 2) + 1)..Len(e) = {}
  BY <1>1, <1>2
<1>7. \A i \in 1..Len(e) : ~InTable(e[i])
  BY <1>1, <1>2, <1>3, <1>4 DEF InTable
<1>8. \A i \in 1..Len(e), c \in Writes :
        HasKey(e[i], NewRow(c), <<1, 2>>) => i \in {n + 1} \cup ((n + 1) + 2)..(n + 2)
  BY <1>1, <1>2, <1>3, <1>4 DEF HasKey
<1>9. Orderly(e, n + 1, n + 2)
  BY <1>2, <1>5, <1>6, <1>7, <1>8, OrderlyOf DEF s
<1> QED BY <1>9 DEF e, n, s

\* A neat file has an orderly table once it has its header.
LEMMA EnsuredOrderly ==
  ASSUME NEW lines \in Seq(Line), Neat(lines)
  PROVE  \E h, m \in Nat : Orderly(EnsureTableHeader(lines), h, m)
<1>1. CASE NoTable(lines)
  <2> DEFINE content == WithFence(lines)
  <2>1. /\ EnsureTableHeader(lines) = content \o <<Header, Sep(Width)>> /\ content \in Seq(Line)
        /\ \A i \in 1..Len(content) : content[i].kind \notin {"row", "sep"}
    BY <1>1, EnsuredNone
  <2> HIDE DEF content
  <2>2. Orderly(content \o <<Header, Sep(Width)>>, Len(content) + 1, Len(content) + 2)
    BY <2>1, OrderlyNew
  <2>3. Len(content) + 1 \in Nat /\ Len(content) + 2 \in Nat
    BY <2>1
  <2> QED BY <2>1, <2>2, <2>3
<1>2. ASSUME NEW h \in DOMAIN lines, NEW m \in DOMAIN lines, Orderly(lines, h, m)
      PROVE  \E i, j \in Nat : Orderly(EnsureTableHeader(lines), i, j)
  <2>1. h \in Nat /\ m \in Nat /\ HeadedAt(lines, h)
    BY <1>2, OrderlyIs
  <2>2. EnsureTableHeader(lines) \in {lines, <<Fence>> \o lines}
    BY <2>1, EnsuredHeaded
  <2>3. Orderly(<<Fence>> \o lines, h + 1, m + 1)
    BY <1>2, OrderlyFenced
  <2>4. h + 1 \in Nat /\ m + 1 \in Nat
    BY <2>1
  <2> QED BY <1>2, <2>1, <2>2, <2>3, <2>4
<1>3. ASSUME Bare(lines),
             \E h, m \in DOMAIN EnsureTableHeader(lines) : Orderly(EnsureTableHeader(lines), h, m)
      PROVE  \E h, m \in Nat : Orderly(EnsureTableHeader(lines), h, m)
  <2> DEFINE e == EnsureTableHeader(lines)
  <2>1. e \in Seq(Line)
    <3>1. PICK body \in Seq(Line) : e = <<Fence, Header, Sep(Width)>> \o body
      BY <1>3, EnsuredBare
    <3>2. <<Fence, Header, Sep(Width)>> \in Seq(Line)
      BY LinesAre
    <3> HIDE DEF e
    <3> QED BY <3>1, <3>2
  <2> HIDE DEF e
  <2>2. PICK h \in DOMAIN e, m \in DOMAIN e : Orderly(e, h, m)
    BY <1>3 DEF e
  <2> QED BY <2>1, <2>2 DEF e
<1> QED BY <1>1, <1>2, <1>3 DEF Neat

\* An orderly file is neat.
LEMMA OrderlyNeat ==
  ASSUME NEW lines \in Seq(Line), NEW h, NEW m, Orderly(lines, h, m)
  PROVE  Neat(lines)
<1>1. h \in DOMAIN lines /\ m \in DOMAIN lines
  BY OrderlyIs
<1> QED BY <1>1 DEF Neat

\* A note at the end of an orderly file.
LEMMA OrderlyNoted ==
  ASSUME NEW lines \in Seq(Line), NEW h, NEW m, Orderly(lines, h, m), NEW c \in Writes
  PROVE  /\ lines \o <<Text(c)>> \in Seq(Line)
         /\ Orderly(lines \o <<Text(c)>>, h, m)
<1> DEFINE x == Text(c)
           e == lines \o <<x>>
<1>1. x \in Line /\ x.kind = "text"
  BY LinesAre
<1> HIDE DEF x
<1>2. /\ e \in Seq(Line) /\ Len(e) = Len(lines) + 1 /\ \A i \in 1..Len(lines) : e[i] = lines[i]
      /\ e[Len(lines) + 1] = x
  BY <1>1
<1> HIDE DEF e
<1>3. Orderly(e, h, m)
  BY <1>1, <1>2, OrderlyBehind
<1> QED BY <1>2, <1>3 DEF e, x

\* A helper's note leaves a file neat.
LEMMA NoteNeat ==
  ASSUME NEW lines \in Seq(Line), Neat(lines), NEW c \in Writes
  PROVE  Neat(lines \o <<Text(c)>>)
<1> DEFINE x == Text(c)
           e == lines \o <<x>>
<1>1. x \in Line /\ x.kind = "text" /\ x # Header
  BY LinesAre
<1>2. CASE NoTable(lines)
  <2> HIDE DEF x
  <2>1. /\ e \in Seq(Line) /\ Len(e) = Len(lines) + 1 /\ Len(lines) \in Nat
        /\ e[Len(lines) + 1] = x /\ \A i \in 1..Len(lines) : e[i] = lines[i]
    BY <1>1
  <2> HIDE DEF e
  <2>2. \A i \in 1..Len(lines) : lines[i].kind \notin {"row", "sep"}
    BY <1>2 DEF NoTable, Pipes
  <2>3. \A i \in DOMAIN e : i \in 1..Len(lines) \/ i = Len(lines) + 1
    BY <2>1
  <2>4. NoTable(e)
    BY <1>1, <2>1, <2>2, <2>3 DEF NoTable, Pipes
  <2> QED BY <2>4 DEF Neat, e, x
<1>3. ASSUME NEW h \in DOMAIN lines, NEW m \in DOMAIN lines, Orderly(lines, h, m) PROVE Neat(e)
  <2>1. e \in Seq(Line) /\ Orderly(e, h, m)
    BY <1>3, OrderlyNoted
  <2> HIDE DEF e
  <2> QED BY <2>1, OrderlyNeat
<1>4. ASSUME Bare(lines), NEW h \in Nat, NEW m \in Nat, Orderly(EnsureTableHeader(lines), h, m)
      PROVE  Neat(e)
  <2> DEFINE top == <<Fence, Header, Sep(Width)>>
             headed == EnsureTableHeader(lines)
  <2>1. e \in Seq(Line) /\ top \in Seq(Line) /\ <<x>> \in Seq(Line) /\ <<Fence>> \in Seq(Line)
    BY <1>1, LinesAre
  <2> HIDE DEF x, top
  <2>2. PICK body \in Seq(Line) :
          /\ headed = top \o body
          /\ IF lines # <<>> /\ lines[1] = Fence THEN lines = <<Fence>> \o body ELSE lines = body
    BY <1>4, EnsuredBare DEF top
  <2>3. lines # <<>> /\ Len(lines) \in Nat \ {0}
    <3>1. PICK i \in DOMAIN lines : TRUE
      BY <1>4 DEF Bare
    <3> QED BY <3>1
  <2>4. e # <<>> /\ e[1] = lines[1]
    BY <2>1, <2>3
  <2>5. Bare(e)
    <3>1. Table(lines)
      BY <1>4 DEF Table
    <3>2. /\ Len(e) = Len(lines) + 1 /\ e[Len(lines) + 1] = x /\ \A i \in 1..Len(lines) : e[i] = lines[i]
          /\ DOMAIN e = 1..(Len(lines) + 1) /\ DOMAIN lines = 1..Len(lines)
      BY <2>1
    <3> HIDE DEF e
    <3>3. ~Contains(e, Header)
      <4>1. \A i \in 1..Len(lines) : lines[i] # Header
        BY <1>4 DEF Bare, Contains
      <4>2. \A i \in 1..(Len(lines) + 1) : i \in 1..Len(lines) \/ i = Len(lines) + 1
        BY <2>3
      <4>3. x # Header
        BY <1>1
      <4> QED BY <3>2, <4>1, <4>2, <4>3 DEF Contains
    <3>4. PICK i \in DOMAIN lines \cap {1, 2} : lines[i].kind = "row" /\ (i = 2 => lines[1] = Fence)
      BY <1>4 DEF Bare
    <3>5. i \in DOMAIN e \cap {1, 2} /\ e[i].kind = "row" /\ (i = 2 => e[1] = Fence)
      BY <2>4, <3>2, <3>4
    <3> QED BY <3>3, <3>5 DEF Bare
  <2>6. PICK more \in Seq(Line) :
          /\ EnsureTableHeader(e) = top \o more
          /\ IF e # <<>> /\ e[1] = Fence THEN e = <<Fence>> \o more ELSE e = more
    <3> HIDE DEF e
    <3> QED BY <2>1, <2>5, EnsuredBare DEF top
  <2>7. more = body \o <<x>>
    <3>1. CASE lines[1] = Fence
      <4>1. lines = <<Fence>> \o body /\ e = <<Fence>> \o more
        BY <2>2, <2>3, <2>4, <2>6, <3>1
      <4>2. e = <<Fence>> \o (body \o <<x>>) /\ body \o <<x>> \in Seq(Line)
        BY <2>1, <4>1, ConcatAssociative
      <4>3. \A y \in Seq(Line) : Tail(<<Fence>> \o y) = y
        BY <2>1
      <4> HIDE DEF e
      <4>4. Tail(e) = more
        BY <4>1, <4>3
      <4> DEFINE z == body \o <<x>>
      <4>5. z \in Seq(Line) /\ e = <<Fence>> \o z
        BY <4>2
      <4> HIDE DEF z
      <4>6. Tail(e) = z
        BY <4>3, <4>5
      <4> QED BY <4>4, <4>6 DEF z
    <3>2. CASE lines[1] # Fence
      <4>1. lines = body /\ e = more
        BY <2>2, <2>3, <2>4, <2>6, <3>2
      <4> QED BY <4>1
    <3> QED BY <3>1, <3>2
  <2>8. EnsureTableHeader(e) = headed \o <<x>>
    <3>1. (top \o body) \o <<x>> = top \o (body \o <<x>>)
      BY <2>1, ConcatAssociative
    <3> QED BY <2>2, <2>6, <2>7, <3>1
  <2>9. headed \in Seq(Line)
    BY <2>1, <2>2
  <2> HIDE DEF headed, e
  <2>10. headed \o <<x>> \in Seq(Line) /\ Orderly(headed \o <<x>>, h, m)
    BY <1>4, <2>9, OrderlyNoted DEF headed, x
  <2>11. h \in DOMAIN (headed \o <<x>>) /\ m \in DOMAIN (headed \o <<x>>)
    <3> DEFINE y == headed \o <<x>>
    <3>1. y \in Seq(Line) /\ Orderly(y, h, m)
      BY <2>10
    <3> HIDE DEF y
    <3>2. h \in DOMAIN y /\ m \in DOMAIN y
      BY <3>1, OrderlyIs
    <3> QED BY <3>2 DEF y
  <2> QED BY <2>5, <2>8, <2>10, <2>11 DEF Neat
<1>5. ASSUME ~NoTable(lines), ~\E h, m \in DOMAIN lines : Orderly(lines, h, m)
      PROVE  Bare(lines) /\ \E h, m \in Nat : Orderly(EnsureTableHeader(lines), h, m)
  BY <1>5, EnsuredOrderly DEF Neat
<1> QED BY <1>2, <1>3, <1>4, <1>5

\* The first whole file is neat.
LEMMA CreatedNeat ==
  ASSUME NEW c \in Writes
  PROVE  Neat(<<Fence, Header, Sep(Width), NewRow(c)>>)
<1> DEFINE s == Sep(Width)
           row == NewRow(c)
           top == <<Fence>> \o <<Header, s>>
           e == <<Fence, Header, s, row>>
<1>1. Fence \in Line /\ Header \in Line /\ s \in Line /\ row \in Line /\ Fence.kind = "fence"
  BY LinesAre
<1>2. Orderly(top, 2, 3)
  <2> DEFINE content == <<Fence>>
  <2>1. content \in Seq(Line) /\ Len(content) = 1 /\ content[1] = Fence
    BY <1>1
  <2>2. \A i \in 1..Len(content) : content[i].kind \notin {"row", "sep"}
    BY <1>1, <2>1
  <2> HIDE DEF content
  <2>3. Orderly(content \o <<Header, Sep(Width)>>, Len(content) + 1, Len(content) + 2)
    BY <2>1, <2>2, OrderlyNew
  <2>4. 1 + 1 = 2 /\ 1 + 2 = 3
    OBVIOUS
  <2> QED BY <2>1, <2>3, <2>4 DEF content
<1> HIDE DEF s, row
<1>3. top \in Seq(Line) /\ Len(top) = 3 /\ top[1] = Fence /\ top[2] = Header /\ top[3] = s
  BY <1>1
<1>4. e \in Seq(Line) /\ Len(e) = 4 /\ e[1] = Fence /\ e[2] = Header /\ e[3] = s /\ e[4] = row
  BY <1>1
<1> HIDE DEF e, top
<1>5. \A i \in 1..3 : e[i] = top[i]
  <2>1. \A i \in 1..3 : i = 1 \/ i = 2 \/ i = 3
    OBVIOUS
  <2> QED BY <1>3, <1>4, <2>1
<1>6. (2 + 2)..3 = {} /\ (3 + 1)..3 = {} /\ 3 + 1 = 4
  OBVIOUS
<1>7. Orderly(e, 2, 3 + 1)
  <2>1. \A i \in (2 + 2)..3 : ~HasKey(top[i], NewRow(c), <<1, 2>>)
    BY <1>6
  <2>2. \A i \in (3 + 1)..Len(top) : e[i + 1] = top[i]
    BY <1>3, <1>6
  <2>3. e[3 + 1] = NewRow(c) /\ Len(e) = Len(top) + 1
    BY <1>3, <1>4, <1>6 DEF row
  <2> QED BY <1>2, <1>3, <1>4, <1>5, <2>1, <2>2, <2>3, OrderlyGrown
<1> QED BY <1>4, <1>7, OrderlyNeat DEF e, s, row

\* What a call writes is neat when what it has read is, and the file.
LEMMA ContentNeat ==
  ASSUME NEW c \in Writes, Table(basis[c]), Neat(basis[c]), Neat(files[PathOf[c]])
  PROVE  Neat(Content(c))
<1> DEFINE old == basis[c]
           base == EnsureTableHeader(old)
           u == UpsertRow(base, NewRow(c))
<1>1. WriteKind[c] \in {"upsert", "insert", "create", "append"}
  BY TruthFileAssumption
<1>2. /\ WriteKind[c] = "upsert" => Content(c) = u
      /\ WriteKind[c] = "insert" => Content(c) = IF HasRow(base, NewRow(c)) THEN files[PathOf[c]] ELSE u
      /\ WriteKind[c] = "create" => Content(c) = <<Fence, Header, Sep(Width), NewRow(c)>>
      /\ WriteKind[c] = "append" => Content(c) = old \o <<Text(c)>>
  BY <1>1 DEF Content
<1>3. Neat(u)
  <2>1. base \in Seq(Line) /\ Headed(base)
    <3>1. Fence \notin Data(c) /\ Header \notin Data(c) /\ Sep(Width) \notin Data(c)
      BY NotData
    <3> QED BY <3>1, HeaderEnsured
  <2>2. \E h, m \in Nat : Orderly(base, h, m)
    <3>1. old \in Seq(Line)
      BY DEF Table
    <3> QED BY <3>1, EnsuredOrderly
  <2> HIDE DEF base
  <2>3. PICK h \in Nat, m \in Nat : Orderly(base, h, m)
    BY <2>2
  <2>4. PICK k : Orderly(u, h, k)
    BY <2>1, <2>3, UpsertOrderly
  <2>5. u \in Seq(Line)
    BY <2>1, UpsertKeeps
  <2> HIDE DEF u
  <2> QED BY <2>4, <2>5, OrderlyNeat
<1>4. Neat(<<Fence, Header, Sep(Width), NewRow(c)>>)
  BY CreatedNeat
<1>5. Neat(old \o <<Text(c)>>)
  <2>1. old \in Seq(Line)
    BY DEF Table
  <2> HIDE DEF old
  <2> QED BY <2>1, NoteNeat DEF old
<1> HIDE DEF u, base, old
<1> QED BY <1>1, <1>2, <1>3, <1>4, <1>5

\* Every file is neat, and what a call is about to write makes of one.
AllNeat ==
  /\ \A q \in Paths : Neat(files[q])
  /\ \A c \in Writes : stage[c] = "write" => Neat(basis[c])

\* The files there were are neat.
LEMMA NeatInit == TruthInit => AllNeat
<1> SUFFICES ASSUME TruthInit PROVE AllNeat
  OBVIOUS
<1>1. \A q \in Paths : files[q] \in Bases[q]
  BY DEF TruthInit
<1>2. \A c \in Writes : stage[c] # "write"
  BY DEF TruthInit
<1> QED BY <1>1, <1>2, NeatAssumption DEF AllNeat

\* A write of a neat file leaves it neat.
LEMMA NeatStep == TruthInv /\ Tables /\ AllNeat /\ [TruthNext]_truthVars => AllNeat'
<1> SUFFICES ASSUME TruthInv, Tables, AllNeat, [TruthNext]_truthVars PROVE AllNeat'
  OBVIOUS
<1>1. LockTypes
  BY DEF TruthInv, Registered
<1>2. ASSUME NEW c \in Writes, WriteFile(c) PROVE AllNeat'
  <2>1. /\ stage[c] = "write" /\ stage' = [stage EXCEPT ![c] = "leave"]
        /\ files' \in {files, [files EXCEPT ![PathOf[c]] = Content(c)]}
        /\ basis' = [basis EXCEPT ![c] = <<>>]
    BY <1>2 DEF WriteFile, Reaches
  <2>2. PathOf[c] \in Paths
    BY TruthFileAssumption
  <2>3. Neat(Content(c))
    BY <2>1, <2>2, ContentNeat DEF Tables, AllNeat
  <2>4. \A q \in Paths : files'[q] = files[q] \/ files'[q] = Content(c)
    BY <1>1, <2>1, <2>2 DEF LockTypes
  <2>5. \A d \in Writes : stage'[d] = "write" => stage[d] = "write" /\ basis'[d] = basis[d]
    BY <1>1, <2>1 DEF LockTypes
  <2> QED BY <2>3, <2>4, <2>5 DEF AllNeat
<1>3. ASSUME NEW c \in Writes, ReadFile(c) PROVE AllNeat'
  <2>1. /\ stage' = [stage EXCEPT ![c] = "write"] /\ files' = files
        /\ basis' = [basis EXCEPT ![c] = files[PathOf[c]]]
    BY <1>3 DEF ReadFile, Reaches
  <2>2. PathOf[c] \in Paths
    BY TruthFileAssumption
  <2>3. \A d \in Writes : stage'[d] = "write" => basis'[d] = files[PathOf[c]]
                                                \/ (stage[d] = "write" /\ basis'[d] = basis[d])
    BY <1>1, <2>1 DEF LockTypes
  <2> QED BY <2>1, <2>2, <2>3 DEF AllNeat
<1>4. ASSUME NEW c \in Writes,
             \/ BeginWrite(c) \/ Register(c) \/ TakeThread(c) \/ TakeFlock(c)
             \/ LeaveThread(c) \/ Close(c) \/ Unregister(c)
      PROVE  AllNeat'
  <2>1. UNCHANGED <<basis, files>> /\ \A d \in Writes : stage'[d] = "write" => stage[d] = "write"
    BY <1>1, <1>4 DEF LockTypes, BeginWrite, Register, TakeThread, TakeFlock, LeaveThread, Close,
       Unregister, Reaches
  <2> QED BY <2>1 DEF AllNeat
<1>5. ASSUME NEW p \in Programs, KillProgram(p) PROVE AllNeat'
  <2>1. files' = files /\ \A d \in Writes : stage'[d] = "write" => stage[d] = "write" /\ basis'[d] = basis[d]
    BY <1>1, <1>5 DEF LockTypes, KillProgram, Finished
  <2> QED BY <2>1 DEF AllNeat
<1>6. CASE UNCHANGED truthVars
  BY <1>6 DEF truthVars, AllNeat
<1> QED BY <1>2, <1>3, <1>4, <1>5, <1>6 DEF TruthNext, WriteStep

\* A neat file has a sound table, or none.
LEMMA NeatSound ==
  ASSUME NEW lines \in Seq(Line), Neat(lines), Contains(lines, Header)
  PROVE  /\ \A i \in Keyed(lines) :
              /\ i > First({j \in DOMAIN lines : lines[j] = Header}) + 1
              /\ lines[First({j \in DOMAIN lines : lines[j] = Header}) + 1] = Sep(Width)
              /\ \A j \in (First({l \in DOMAIN lines : lines[l] = Header}) + 2)..i : InTable(lines[j])
         /\ \A i, j \in Keyed(lines) : HasKey(lines[i], lines[j], <<1, 2>>) => i = j
<1> DEFINE heads == {j \in DOMAIN lines : lines[j] = Header}
<1>1. Header.kind = "row"
  BY LinesAre
<1>2. PICK i \in DOMAIN lines : lines[i] = Header
  BY DEF Contains
<1>3. ~NoTable(lines)
  BY <1>1, <1>2 DEF NoTable, Pipes
<1>4. ~Bare(lines)
  BY DEF Bare
<1>5. PICK h \in DOMAIN lines, m \in DOMAIN lines : Orderly(lines, h, m)
  BY <1>3, <1>4 DEF Neat
<1>6. h \in Nat /\ m \in Nat /\ DOMAIN lines = 1..Len(lines) /\ lines[h] = Header
      /\ lines[h + 1] = Sep(Width) /\ \A j \in (h + 2)..m : InTable(lines[j])
  BY <1>5, OrderlyIs
<1>7. First(heads) = h
  <2>1. \A j \in heads : j \in Pipes(lines)
    BY <1>1 DEF Pipes
  <2>2. \A j \in heads : h <= j /\ j \in Nat
    BY <1>5, <1>6, <2>1 DEF Orderly, HeadedAt
  <2>3. h \in heads
    BY <1>6
  <2> HIDE DEF heads
  <2> QED BY <2>2, <2>3, FirstIs
<1>8. /\ \A j \in Keyed(lines) : j \in (h + 2)..m
      /\ \A j, k \in Keyed(lines) : HasKey(lines[j], lines[k], <<1, 2>>) => j = k
  BY <1>5 DEF Orderly
<1>9. \A j \in Keyed(lines) : j > h + 1 /\ \A k \in (h + 2)..j : InTable(lines[k])
  BY <1>6, <1>8
<1> QED BY <1>6, <1>7, <1>8, <1>9

\* A table that was in one piece, with one row for a key, stays so whatever is
\* written into it and behind it (upsert_markdown_row, _key_table_tail and
\* ensure_table_header, truth_io.py:1615-1755, 1516-1569, 358-407).
THEOREM StaysSound == TruthSpec => []TableSound
<1>1. TruthSpec => []Tables
  BY TablesInit, TablesStep, TruthInvariant, PTL DEF TruthSpec
<1>2. TruthSpec => []AllNeat
  BY <1>1, NeatInit, NeatStep, TruthInvariant, PTL DEF TruthSpec
<1>3. Tables /\ AllNeat => TableSound
  <2> SUFFICES ASSUME Tables, AllNeat, NEW q \in Paths, Contains(files[q], Header)
               PROVE  LET head == First({i \in DOMAIN files[q] : files[q][i] = Header})
                      IN  /\ \A i \in Keyed(files[q]) :
                               /\ i > head + 1 /\ files[q][head + 1] = Sep(Width)
                               /\ \A j \in (head + 2)..i : InTable(files[q][j])
                          /\ \A i, j \in Keyed(files[q]) :
                               HasKey(files[q][i], files[q][j], <<1, 2>>) => i = j
    BY DEF TableSound
  <2>1. files[q] \in Seq(Line) /\ Neat(files[q])
    BY DEF Tables, Table, AllNeat
  <2> QED BY <2>1, NeatSound
<1> QED BY <1>1, <1>2, <1>3, PTL

-----------------------------------------------------------------------------
(* The files as a keyed store.                                             *)

\* A line that is an item of the table: a row of its width that has a key.
Dated(x) == InTable(x) /\ ~NoKey(x, <<1, 2>>)

\* An item is a dated line of the file.
LEMMA ItemsAre ==
  ASSUME NEW lines \in Seq(Line)
  PROVE  \A e : e \in Items(lines) <=> \E i \in 1..Len(lines) : Dated(lines[i]) /\ e = ItemFor(lines[i])
<1>1. DOMAIN lines = 1..Len(lines)
  OBVIOUS
<1> QED BY <1>1 DEF Items, Keyed, Dated

\* The fields of an item.
LEMMA ItemIs ==
  \A x : ItemFor(x).key = <<x.cells[1], x.cells[2]>> /\ ItemFor(x).row = x
  BY DEF ItemFor

\* Two rows have one key when the items have, and a row has none if its item
\* has not; the columns' names are the key of the header.
LEMMA ItemKeys ==
  ASSUME NEW x \in Line, NEW c \in Writes
  PROVE  /\ Dated(x) => (ItemFor(x).key = ItemFor(NewRow(c)).key <=> HasKey(x, NewRow(c), <<1, 2>>))
         /\ NoKey(NewRow(c), <<1, 2>>) <=> ItemFor(NewRow(c)).key = <<"", "">>
         /\ HeaderAgain(NewRow(c), <<1, 2>>) <=> ItemFor(NewRow(c)).key = KeyNames
         /\ Dated(x) => ItemFor(x).key # <<"", "">>
<1> DEFINE row == NewRow(c)
<1>1. row \in Line /\ InTable(row)
  BY RowFits
<1> HIDE DEF row
<1>3. KeyNames = <<"A", "B">>
  BY DEF KeyNames
<1>4. ASSUME Dated(x) PROVE Len(x.cells) >= 2 /\ x.kind = "row" /\ ~NoKey(x, <<1, 2>>)
  BY <1>4, LinesAre DEF Dated, InTable
<1>5. NoKey(row, <<1, 2>>) <=> ItemFor(row).key = <<"", "">>
  <2>1. NoKey(row, <<1, 2>>) <=> row.cells[1] = "" /\ row.cells[2] = ""
    BY <1>1, KeysAre
  <2>2. <<row.cells[1], row.cells[2]>> = <<"", "">> <=> row.cells[1] = "" /\ row.cells[2] = ""
    OBVIOUS
  <2>3. ItemFor(row).key = <<row.cells[1], row.cells[2]>>
    BY ItemIs
  <2> QED BY <2>1, <2>2, <2>3
<1>6. ASSUME Dated(x) PROVE ItemFor(x).key # <<"", "">>
  <2>1. NoKey(x, <<1, 2>>) <=> x.cells[1] = "" /\ x.cells[2] = ""
    BY KeysAre
  <2>2. <<x.cells[1], x.cells[2]>> = <<"", "">> <=> x.cells[1] = "" /\ x.cells[2] = ""
    OBVIOUS
  <2>3. ItemFor(x).key = <<x.cells[1], x.cells[2]>>
    BY ItemIs
  <2>4. ~NoKey(x, <<1, 2>>)
    BY <1>4, <1>6
  <2> QED BY <2>1, <2>2, <2>3, <2>4
<1>7. ASSUME Dated(x) PROVE ItemFor(x).key = ItemFor(row).key <=> HasKey(x, row, <<1, 2>>)
  <2>1. HasKey(x, row, <<1, 2>>) <=>
          /\ x.kind = "row" /\ Len(x.cells) >= 2 /\ ~NoKey(row, <<1, 2>>)
          /\ x.cells[1] = row.cells[1] /\ x.cells[2] = row.cells[2]
    BY <1>1, KeysAre
  <2>2. ItemFor(x).key = ItemFor(row).key <=> x.cells[1] = row.cells[1] /\ x.cells[2] = row.cells[2]
    <3>1. ItemFor(x).key = <<x.cells[1], x.cells[2]>> /\ ItemFor(row).key = <<row.cells[1], row.cells[2]>>
      BY ItemIs
    <3>2. <<x.cells[1], x.cells[2]>> = <<row.cells[1], row.cells[2]>>
            <=> x.cells[1] = row.cells[1] /\ x.cells[2] = row.cells[2]
      OBVIOUS
    <3> QED BY <3>1, <3>2
  <2>3. ItemFor(x).key = ItemFor(row).key => ~NoKey(row, <<1, 2>>)
    BY <1>5, <1>6, <1>7
  <2>4. x.kind = "row" /\ Len(x.cells) >= 2
    BY <1>4, <1>7
  <2> QED BY <2>1, <2>2, <2>3, <2>4
<1>8. HeaderAgain(row, <<1, 2>>) <=> ItemFor(row).key = KeyNames
  <2> DEFINE k == <<1, 2>>
             names == KeyNames
  <2>1. DOMAIN k = 1..2 /\ k[1] = 1 /\ k[2] = 2 /\ names[1] = "A" /\ names[2] = "B"
    BY <1>3
  <2>2. 1 \in 1..2 /\ 2 \in 1..2 /\ \A i \in 1..2 : i = 1 \/ i = 2
    OBVIOUS
  <2>3. HeaderAgain(row, k) <=> \A i \in DOMAIN k : row.cells[k[i]] = names[i]
    BY DEF HeaderAgain
  <2> HIDE DEF k, names
  <2>4. HeaderAgain(row, k) <=> row.cells[1] = "A" /\ row.cells[2] = "B"
    BY <2>1, <2>2, <2>3
  <2>5. HeaderAgain(row, <<1, 2>>) <=> row.cells[1] = "A" /\ row.cells[2] = "B"
    BY <2>4 DEF k
  <2>6. ItemFor(row).key = <<row.cells[1], row.cells[2]>>
    BY ItemIs
  <2>7. <<row.cells[1], row.cells[2]>> = <<"A", "B">> <=> row.cells[1] = "A" /\ row.cells[2] = "B"
    OBVIOUS
  <2> QED BY <1>3, <2>5, <2>6, <2>7
<1> QED BY <1>5, <1>6, <1>7, <1>8 DEF row

\* Files with the same dated lines have the same items.
LEMMA ItemsSame ==
  ASSUME NEW lines \in Seq(Line), NEW e \in Seq(Line),
         \A i \in 1..Len(lines) : Dated(lines[i]) => \E j \in 1..Len(e) : e[j] = lines[i],
         \A j \in 1..Len(e) : Dated(e[j]) => \E i \in 1..Len(lines) : lines[i] = e[j]
  PROVE  Items(e) = Items(lines)
<1>1. \A x : x \in Items(lines) <=> \E i \in 1..Len(lines) : Dated(lines[i]) /\ x = ItemFor(lines[i])
  BY ItemsAre
<1>2. \A x : x \in Items(e) <=> \E i \in 1..Len(e) : Dated(e[i]) /\ x = ItemFor(e[i])
  BY ItemsAre
<1>3. \A x : x \in Items(lines) => x \in Items(e)
  BY <1>1, <1>2
<1>4. \A x : x \in Items(e) => x \in Items(lines)
  BY <1>1, <1>2
<1> QED BY <1>3, <1>4

\* A line more that is no item.
LEMMA ItemsBehind ==
  ASSUME NEW lines \in Seq(Line), NEW e \in Seq(Line), Len(e) = Len(lines) + 1,
         \A i \in 1..Len(lines) : e[i] = lines[i], ~Dated(e[Len(lines) + 1])
  PROVE  Items(e) = Items(lines)
<1> DEFINE n == Len(lines)
<1>1. n \in Nat /\ \A j \in 1..(n + 1) : j \in 1..n \/ j = n + 1
  OBVIOUS
<1>2. \A i \in 1..n : i \in 1..(n + 1)
  BY <1>1
<1>3. \A i \in 1..n : Dated(lines[i]) => \E j \in 1..Len(e) : e[j] = lines[i]
  BY <1>2
<1>4. \A j \in 1..Len(e) : Dated(e[j]) => \E i \in 1..n : lines[i] = e[j]
  BY <1>1
<1> HIDE DEF n
<1> QED BY <1>3, <1>4, ItemsSame DEF n

\* A line before the file that is no item, and one behind it.
LEMMA ItemsJoined ==
  ASSUME NEW s \in Seq(Line), NEW t \in Seq(Line)
  PROVE  /\ s \o t \in Seq(Line)
         /\ (\A i \in 1..Len(s) : ~Dated(s[i])) => Items(s \o t) = Items(t)
         /\ (\A i \in 1..Len(t) : ~Dated(t[i])) => Items(s \o t) = Items(s)
<1> DEFINE e == s \o t
           n == Len(s)
           k == Len(t)
<1>1. /\ e \in Seq(Line) /\ Len(e) = n + k /\ n \in Nat /\ k \in Nat
      /\ \A i \in 1..n : e[i] = s[i]
      /\ \A i \in 1..k : e[n + i] = t[i]
  OBVIOUS
<1> HIDE DEF e, n, k
<1>2. /\ \A i \in 1..n : i \in 1..(n + k)
      /\ \A i \in 1..k : n + i \in 1..(n + k)
      /\ \A j \in 1..(n + k) : j \in 1..n \/ (j - n \in 1..k /\ n + (j - n) = j)
  BY <1>1
<1>3. \A j \in 1..(n + k) : (j \in 1..n /\ e[j] = s[j]) \/ (\E i \in 1..k : e[j] = t[i])
  BY <1>1, <1>2
<1>4. ASSUME \A i \in 1..n : ~Dated(s[i]) PROVE Items(e) = Items(t)
  <2>1. \A i \in 1..k : \E j \in 1..Len(e) : e[j] = t[i]
    BY <1>1, <1>2
  <2>2. \A j \in 1..Len(e) : Dated(e[j]) => \E i \in 1..k : t[i] = e[j]
    BY <1>1, <1>3, <1>4
  <2> QED BY <1>1, <2>1, <2>2, ItemsSame DEF k
<1>5. ASSUME \A i \in 1..k : ~Dated(t[i]) PROVE Items(e) = Items(s)
  <2>1. \A i \in 1..n : \E j \in 1..Len(e) : e[j] = s[i]
    BY <1>1, <1>2
  <2>2. \A j \in 1..Len(e) : Dated(e[j]) => \E i \in 1..n : s[i] = e[j]
    BY <1>1, <1>3, <1>5
  <2> QED BY <1>1, <2>1, <2>2, ItemsSame DEF n
<1> QED BY <1>1, <1>4, <1>5 DEF e, n, k

\* The header and what comes with it is no item.
LEMMA ItemsFramed ==
  ASSUME NEW t \in Seq(Line)
  PROVE  /\ Items(<<Fence>> \o t) = Items(t)
         /\ Items(<<Fence, Header, Sep(Width)>> \o t) = Items(t)
         /\ Items(t \o <<Header, Sep(Width)>>) = Items(t)
<1> DEFINE s == Sep(Width)
<1>1. Fence \in Line /\ Header \in Line /\ s \in Line /\ ~Dated(Fence) /\ ~Dated(Header) /\ ~Dated(s)
  BY LinesAre DEF Dated, InTable
<1> HIDE DEF s
<1>2. Items(<<Fence>> \o t) = Items(t)
  <2> DEFINE f == <<Fence>>
  <2>1. f \in Seq(Line) /\ Len(f) = 1 /\ f[1] = Fence
    BY <1>1
  <2>2. \A i \in 1..1 : i = 1
    OBVIOUS
  <2> HIDE DEF f
  <2>3. \A i \in 1..Len(f) : ~Dated(f[i])
    BY <1>1, <2>1, <2>2
  <2>4. Items(f \o t) = Items(t)
    BY <2>1, <2>3, ItemsJoined
  <2> QED BY <2>4 DEF f
<1>3. Items(<<Fence, Header, s>> \o t) = Items(t)
  <2> DEFINE f == <<Fence, Header, s>>
  <2>1. f \in Seq(Line) /\ Len(f) = 3 /\ f[1] = Fence /\ f[2] = Header /\ f[3] = s
    BY <1>1
  <2>2. \A i \in 1..3 : i = 1 \/ i = 2 \/ i = 3
    OBVIOUS
  <2> HIDE DEF f
  <2>3. \A i \in 1..Len(f) : ~Dated(f[i])
    BY <1>1, <2>1, <2>2
  <2>4. Items(f \o t) = Items(t)
    BY <2>1, <2>3, ItemsJoined
  <2> QED BY <2>4 DEF f
<1>4. Items(t \o <<Header, s>>) = Items(t)
  <2> DEFINE f == <<Header, s>>
  <2>1. f \in Seq(Line) /\ Len(f) = 2 /\ f[1] = Header /\ f[2] = s
    BY <1>1
  <2>2. \A i \in 1..2 : i = 1 \/ i = 2
    OBVIOUS
  <2> HIDE DEF f
  <2>3. \A i \in 1..Len(f) : ~Dated(f[i])
    BY <1>1, <2>1, <2>2
  <2>4. Items(t \o f) = Items(t)
    BY <2>1, <2>3, ItemsJoined
  <2> QED BY <2>4 DEF f
<1> QED BY <1>2, <1>3, <1>4 DEF s

\* The header a file gets adds no item to it.
LEMMA ItemsEnsured ==
  ASSUME NEW lines \in Seq(Line), Table(lines)
  PROVE  Items(EnsureTableHeader(lines)) = Items(lines)
<1>1. CASE NoTable(lines)
  <2> DEFINE content == WithFence(lines)
  <2>1. EnsureTableHeader(lines) = content \o <<Header, Sep(Width)>> /\ content \in Seq(Line)
    BY <1>1, EnsuredNone
  <2>2. content = <<Fence>> \o lines \/ content = lines
    BY DEF WithFence
  <2> HIDE DEF content
  <2>3. Items(content) = Items(lines)
    BY <2>2, ItemsFramed
  <2> QED BY <2>1, <2>3, ItemsFramed
<1>2. CASE Headed(lines)
  <2>1. PICK h : HeadedAt(lines, h)
    BY <1>2 DEF Headed
  <2>2. EnsureTableHeader(lines) \in {lines, <<Fence>> \o lines}
    BY <2>1, EnsuredHeaded
  <2> QED BY <2>2, ItemsFramed
<1>3. CASE Bare(lines)
  <2>1. PICK body \in Seq(Line) :
          /\ EnsureTableHeader(lines) = <<Fence, Header, Sep(Width)>> \o body
          /\ IF lines # <<>> /\ lines[1] = Fence THEN lines = <<Fence>> \o body ELSE lines = body
    BY <1>3, EnsuredBare
  <2>2. Items(lines) = Items(body)
    BY <2>1, ItemsFramed
  <2> QED BY <2>1, <2>2, ItemsFramed
<1> QED BY <1>1, <1>2, <1>3 DEF Table

\* Two rows that have the key of a third have each other's.
LEMMA KeysJoin ==
  ASSUME NEW x \in Line, NEW y \in Line, NEW row \in Line, InTable(x), InTable(y), InTable(row),
         HasKey(x, row, <<1, 2>>), HasKey(y, row, <<1, 2>>)
  PROVE  HasKey(x, y, <<1, 2>>)
<1>1. \A p, q \in Line : HasKey(p, q, <<1, 2>>) <=>
        /\ p.kind = "row" /\ Len(p.cells) >= 2 /\ ~NoKey(q, <<1, 2>>)
        /\ p.cells[1] = q.cells[1] /\ p.cells[2] = q.cells[2]
  BY KeysAre
<1>2. ~NoKey(y, <<1, 2>>)
  BY KeysAlike
<1> QED BY <1>1, <1>2

\* A keyed write sets one item: what it writes replaces the item with its key.
LEMMA UpsertItems ==
  ASSUME NEW base \in Seq(Line), NEW h, NEW m, Orderly(base, h, m), NEW c \in Writes
  PROVE  Items(UpsertRow(base, NewRow(c))) =
           IF ItemFor(NewRow(c)).key \in {<<"", "">>, KeyNames} THEN Items(base)
           ELSE {e \in Items(base) : e.key # ItemFor(NewRow(c)).key} \cup {ItemFor(NewRow(c))}
<1> DEFINE n == Len(base)
           row == NewRow(c)
           key == ItemFor(row).key
           u == UpsertRow(base, row)
           blank == <<"", "">>
<1>1. /\ m \in Nat /\ n \in Nat /\ m <= n /\ row \in Line /\ InTable(row)
      /\ \A i \in 1..n : base[i] \in Line
      /\ \A i \in (h + 2)..m : i \in 1..n /\ InTable(base[i])
  BY OrderlyIs, RowFits
<1>2. /\ \A x \in Line : Dated(x) => (ItemFor(x).key = key <=> HasKey(x, row, <<1, 2>>))
      /\ NoKey(row, <<1, 2>>) <=> key = blank
      /\ HeaderAgain(row, <<1, 2>>) <=> key = KeyNames
  BY <1>1, ItemKeys
<1>3. \A i \in 1..n : Dated(base[i]) => i \in (h + 2)..m
  BY OrderlyRows DEF Dated
<1> HIDE DEF u, row, key, blank
<1>4. \/ HeaderAgain(row, <<1, 2>>) /\ u = base
      \/ /\ NoKey(row, <<1, 2>>)
         /\ u \in Seq(Line) /\ Len(u) = n + 1 /\ u[n + 1] = row /\ \A i \in 1..n : u[i] = base[i]
      \/ /\ ~HeaderAgain(row, <<1, 2>>) /\ ~NoKey(row, <<1, 2>>)
         /\ \A i \in (h + 2)..m : ~HasKey(base[i], row, <<1, 2>>)
         /\ u \in Seq(Line) /\ Len(u) = n + 1 /\ u[m + 1] = row
         /\ \A i \in 1..m : u[i] = base[i]
         /\ \A i \in (m + 1)..n : u[i + 1] = base[i]
      \/ /\ ~HeaderAgain(row, <<1, 2>>) /\ ~NoKey(row, <<1, 2>>)
         /\ u \in Seq(Line) /\ Len(u) = n
         /\ \E k \in (h + 2)..m :
              /\ HasKey(base[k], row, <<1, 2>>)
              /\ \A i \in 1..n : u[i] = IF i = k THEN row ELSE base[i]
  BY UpsertIs DEF u, row
<1> DEFINE goal == Items(u) = IF key \in {blank, KeyNames} THEN Items(base)
                              ELSE {e \in Items(base) : e.key # key} \cup {ItemFor(row)}
<1>5. ASSUME HeaderAgain(row, <<1, 2>>), u = base PROVE goal
  BY <1>2, <1>5
<1>6. ASSUME NoKey(row, <<1, 2>>), u \in Seq(Line), Len(u) = n + 1, u[n + 1] = row,
             \A i \in 1..n : u[i] = base[i]
      PROVE  goal
  <2>1. ~Dated(u[Len(base) + 1])
    BY <1>6 DEF Dated
  <2>2. Items(u) = Items(base)
    BY <1>6, <2>1, ItemsBehind
  <2> QED BY <1>2, <1>6, <2>2
<1>7. \A x : x \in Items(base) <=> \E i \in 1..n : Dated(base[i]) /\ x = ItemFor(base[i])
  BY ItemsAre
<1>8. ASSUME u \in Seq(Line)
      PROVE  \A x : x \in Items(u) <=> \E i \in 1..Len(u) : Dated(u[i]) /\ x = ItemFor(u[i])
  BY <1>8, ItemsAre
<1>9. ~NoKey(row, <<1, 2>>) => Dated(row)
  BY <1>1 DEF Dated
<1>10. ASSUME ~HeaderAgain(row, <<1, 2>>), ~NoKey(row, <<1, 2>>),
              \A i \in (h + 2)..m : ~HasKey(base[i], row, <<1, 2>>),
              u \in Seq(Line), Len(u) = n + 1, u[m + 1] = row,
              \A i \in 1..m : u[i] = base[i], \A i \in (m + 1)..n : u[i + 1] = base[i]
       PROVE  goal
  <2>1. \A x \in Items(base) : x.key # key
    <3> SUFFICES ASSUME NEW i \in 1..n, Dated(base[i]) PROVE ItemFor(base[i]).key # key
      BY <1>7
    <3> QED BY <1>1, <1>2, <1>3, <1>10
  <2>2. \A i \in 1..n : \E j \in 1..Len(u) : u[j] = base[i]
    <3> SUFFICES ASSUME NEW i \in 1..n PROVE \E j \in 1..Len(u) : u[j] = base[i]
      OBVIOUS
    <3> HIDE DEF n
    <3>1. (i \in 1..m /\ i \in 1..(n + 1)) \/ (i \in (m + 1)..n /\ i + 1 \in 1..(n + 1))
      BY <1>1
    <3> QED BY <1>10, <3>1
  <2>3. \A j \in 1..Len(u) : u[j] = row \/ \E i \in 1..n : u[j] = base[i]
    <3> SUFFICES ASSUME NEW j \in 1..(n + 1) PROVE u[j] = row \/ \E i \in 1..n : u[j] = base[i]
      BY <1>10
    <3> HIDE DEF n
    <3>1. \/ j = m + 1 \/ (j \in 1..m /\ j \in 1..n)
          \/ (j - 1 \in (m + 1)..n /\ (j - 1) + 1 = j /\ j - 1 \in 1..n)
      BY <1>1
    <3>2. ASSUME j - 1 \in (m + 1)..n, (j - 1) + 1 = j PROVE u[j] = base[j - 1]
      BY <1>10, <3>2
    <3> QED BY <1>10, <3>1, <3>2
  <2>4. m + 1 \in 1..Len(u)
    <3> HIDE DEF n
    <3> QED BY <1>1, <1>10
  <2> HIDE DEF n
  <2>5. \A x : x \in Items(u) <=> x \in Items(base) \/ x = ItemFor(row)
    <3>1. \A x : x \in Items(u) => x \in Items(base) \/ x = ItemFor(row)
      BY <1>7, <1>8, <1>10, <2>3
    <3>2. \A x \in Items(base) : x \in Items(u)
      BY <1>7, <1>8, <1>10, <2>2
    <3>3. ItemFor(row) \in Items(u)
      BY <1>8, <1>9, <1>10, <2>4
    <3> QED BY <3>1, <3>2, <3>3
  <2>6. key \notin {blank, KeyNames}
    BY <1>2, <1>10
  <2> QED BY <2>1, <2>5, <2>6
<1>11. ASSUME ~HeaderAgain(row, <<1, 2>>), ~NoKey(row, <<1, 2>>), u \in Seq(Line), Len(u) = n,
              NEW k \in (h + 2)..m, HasKey(base[k], row, <<1, 2>>),
              \A i \in 1..n : u[i] = IF i = k THEN row ELSE base[i]
       PROVE  goal
  <2>1. k \in 1..n /\ InTable(base[k])
    BY <1>1
  <2>2. \A i \in 1..n : Dated(base[i]) => (ItemFor(base[i]).key # key <=> i # k)
    <3> SUFFICES ASSUME NEW i \in 1..n, Dated(base[i])
                 PROVE  ItemFor(base[i]).key # key <=> i # k
      OBVIOUS
    <3>1. ItemFor(base[i]).key = key <=> HasKey(base[i], row, <<1, 2>>)
      BY <1>1, <1>2
    <3>2. ASSUME HasKey(base[i], row, <<1, 2>>) PROVE i = k
      <4>1. i \in (h + 2)..m /\ base[i] \in Line /\ InTable(base[i]) /\ base[k] \in Line
        BY <1>1, <1>3, <2>1
      <4>2. HasKey(base[i], base[k], <<1, 2>>)
        BY <1>1, <1>11, <2>1, <3>2, <4>1, KeysJoin
      <4> QED BY <4>1, <4>2, OrderlyRows
    <3> QED BY <1>11, <3>1, <3>2
  <2> HIDE DEF n
  <2>3. \A x : x \in Items(u) <=> (x \in Items(base) /\ x.key # key) \/ x = ItemFor(row)
    <3>1. \A x : x \in Items(u) => (x \in Items(base) /\ x.key # key) \/ x = ItemFor(row)
      <4> SUFFICES ASSUME NEW i \in 1..n, Dated(u[i]), i # k
                   PROVE  ItemFor(u[i]) \in Items(base) /\ ItemFor(u[i]).key # key
        BY <1>8, <1>11
      <4> QED BY <1>7, <1>11, <2>2
    <3>2. \A x : x \in Items(base) /\ x.key # key => x \in Items(u)
      <4> SUFFICES ASSUME NEW i \in 1..n, Dated(base[i]), ItemFor(base[i]).key # key
                   PROVE  ItemFor(base[i]) \in Items(u)
        BY <1>7
      <4> QED BY <1>8, <1>11, <2>2
    <3>3. ItemFor(row) \in Items(u)
      BY <1>8, <1>9, <1>11, <2>1
    <3> QED BY <3>1, <3>2, <3>3
  <2>4. key \notin {blank, KeyNames}
    BY <1>2, <1>11
  <2> QED BY <2>3, <2>4
<1> HIDE DEF goal, n
<1>12. goal
  BY <1>4, <1>5, <1>6, <1>10, <1>11
<1> QED BY <1>12 DEF goal, u, key, row, blank

\* A row that yields finds what it yields to.
LEMMA PresentFound ==
  ASSUME NEW base \in Seq(Line), NEW h, NEW m, Orderly(base, h, m), NEW c \in Writes,
         \/ ItemFor(NewRow(c)).key = KeyNames
         \/ \E e \in Items(base) : e.key = ItemFor(NewRow(c)).key
  PROVE  HasRow(base, NewRow(c))
<1> DEFINE n == Len(base)
           row == NewRow(c)
           key == ItemFor(row).key
<1>1. /\ h \in 1..n /\ DOMAIN base = 1..n /\ HeadedAt(base, h) /\ base[h] = Header
      /\ \A i \in 1..n : base[i] \in Line
      /\ row \in Line
  BY OrderlyIs, RowFits
<1>2. KeyColumns(base) = <<1, 2>>
  BY <1>1, HeadedKeys
<1>3. CASE key = KeyNames
  <2>1. Header \in Line /\ Header.kind = "row" /\ Header.cells = <<"A", "B", "now">>
    BY LinesAre
  <2>2. KeyNames = <<"A", "B">> /\ key = <<row.cells[1], row.cells[2]>>
    BY ItemIs DEF KeyNames
  <2> HIDE DEF key, row
  <2>3. row.cells[1] = "A" /\ row.cells[2] = "B"
    <3>1. <<row.cells[1], row.cells[2]>> = <<"A", "B">>
      BY <1>3, <2>2
    <3> QED BY <3>1
  <2>4. ~NoKey(row, <<1, 2>>)
    <3>1. NoKey(row, <<1, 2>>) <=> row.cells[1] = "" /\ row.cells[2] = ""
      BY <1>1, KeysAre
    <3> QED BY <2>3, <3>1
  <2>5. Len(Header.cells) >= 2 /\ Header.cells[1] = "A" /\ Header.cells[2] = "B"
    BY <2>1
  <2>6. HasKey(Header, row, <<1, 2>>)
    <3>1. HasKey(Header, row, <<1, 2>>) <=>
            /\ Header.kind = "row" /\ Len(Header.cells) >= 2 /\ ~NoKey(row, <<1, 2>>)
            /\ Header.cells[1] = row.cells[1] /\ Header.cells[2] = row.cells[2]
      BY <1>1, <2>1, KeysAre
    <3> QED BY <2>1, <2>3, <2>4, <2>5, <3>1
  <2> QED BY <1>1, <1>2, <2>6 DEF HasRow, row
<1>4. CASE \E e \in Items(base) : e.key = key
  <2>1. PICK i \in 1..n : Dated(base[i]) /\ ItemFor(base[i]).key = key
    BY <1>4, ItemsAre
  <2>2. HasKey(base[i], row, <<1, 2>>)
    BY <1>1, <2>1, ItemKeys
  <2> QED BY <1>1, <1>2, <2>2 DEF HasRow
<1> QED BY <1>3, <1>4

\* In a neat file the items have keys of their own.
LEMMA NeatAlone ==
  ASSUME NEW lines \in Seq(Line), Table(lines), Neat(lines)
  PROVE  \A e, f \in Items(lines) : e.key = f.key => e = f
<1> DEFINE base == EnsureTableHeader(lines)
<1>1. Items(base) = Items(lines)
  BY ItemsEnsured
<1>2. PICK h \in Nat, m \in Nat : Orderly(base, h, m)
  BY EnsuredOrderly
<1>3. base \in Seq(Line)
  <2> DEFINE none == {}
  <2>1. Fence \notin none /\ Header \notin none /\ Sep(Width) \notin none
    OBVIOUS
  <2> HIDE DEF none
  <2> QED BY <2>1, HeaderEnsured
<1> HIDE DEF base
<1>4. ASSUME NEW i \in 1..Len(base), NEW j \in 1..Len(base), Dated(base[i]), Dated(base[j]),
             ItemFor(base[i]).key = ItemFor(base[j]).key
      PROVE  base[i] = base[j]
  <2>1. /\ base[i] \in Line /\ InTable(base[i]) /\ i \in (h + 2)..m
        /\ base[j] \in Line /\ ~NoKey(base[j], <<1, 2>>) /\ j \in (h + 2)..m
    BY <1>2, <1>3, <1>4, OrderlyRows DEF Dated
  <2>2. Len(base[i].cells) >= 2 /\ base[i].kind = "row"
    BY <2>1, LinesAre DEF InTable
  <2>3. base[i].cells[1] = base[j].cells[1] /\ base[i].cells[2] = base[j].cells[2]
    <3>1. <<base[i].cells[1], base[i].cells[2]>> = <<base[j].cells[1], base[j].cells[2]>>
      BY <1>4, ItemIs
    <3> QED BY <3>1
  <2>4. HasKey(base[i], base[j], <<1, 2>>)
    BY <2>1, <2>2, <2>3, KeysAre
  <2> QED BY <1>2, <1>3, <2>1, <2>4, OrderlyRows
<1>5. \A e \in Items(base) : \E i \in 1..Len(base) : Dated(base[i]) /\ e = ItemFor(base[i])
  BY <1>3, ItemsAre
<1> QED BY <1>1, <1>4, <1>5

\* No separator follows an item.
LEMMA NoSepBehind ==
  ASSUME NEW e \in Seq(Line), NEW h, NEW m, Orderly(e, h, m), NEW a \in 1..Len(e), NEW b \in 1..Len(e),
         a < b, Dated(e[a]), e[b].kind = "sep",
         \A k \in 1..Len(e) : a < k /\ k < b => e[k].kind \notin {"row", "sep"}
  PROVE  FALSE
<1>1. h \in Nat /\ m \in Nat /\ Len(e) \in Nat /\ a \in (h + 2)..m
  BY OrderlyIs, OrderlyRows DEF Dated
<1>2. CASE b <= m
  <2>1. b \in (h + 2)..m
    BY <1>1, <1>2
  <2>2. InTable(e[b])
    BY <2>1, OrderlyIs
  <2> QED BY <2>2 DEF InTable
<1>3. CASE b > m
  <2>1. b \in (m + 1)..Len(e)
    BY <1>1, <1>3
  <2>2. PICK k \in (m + 1)..(b - 1) : e[k].kind = "row"
    BY <2>1, OrderlyRows
  <2>3. k \in 1..Len(e) /\ a < k /\ k < b
    BY <1>1, <2>1
  <2> QED BY <2>2, <2>3
<1> QED BY <1>1, <1>2, <1>3

\* A shell has no items.
LEMMA ShellEmpty ==
  ASSUME NEW lines \in Seq(Line), Table(lines), Neat(lines), BaseIsShell(lines)
  PROVE  Items(lines) = {}
<1> DEFINE n == Len(lines)
<1> SUFFICES ASSUME NEW a \in 1..n, Dated(lines[a]) PROVE FALSE
  BY ItemsAre
<1>1. n \in Nat /\ DOMAIN lines = 1..n
  OBVIOUS
<1>2. a \in Structural(lines) /\ lines[a].kind = "row"
  BY <1>1 DEF BaseIsShell, Dated, InTable
<1>3. OnASep(lines, After(lines, a))
  BY <1>2 DEF Structural
<1> DEFINE next == After(lines, a)
           b == First(next)
<1>4. next \in SUBSET Nat /\ next # {}
  BY <1>1, <1>3 DEF After, Pipes, OnASep
<1>5. b \in next /\ \A j \in next : b <= j
  BY <1>4, FirstType
<1>6. lines[b].kind = "sep"
  BY <1>3 DEF OnASep
<1>7. b \in 1..n /\ a < b
  BY <1>1, <1>5 DEF After, Pipes
<1>8. \A k \in 1..n : a < k /\ k < b => lines[k].kind \notin {"row", "sep"}
  <2> SUFFICES ASSUME NEW k \in 1..n, a < k, k < b, lines[k].kind \in {"row", "sep"} PROVE FALSE
    OBVIOUS
  <2>1. k \in next
    BY <1>1 DEF After, Pipes
  <2> QED BY <1>5, <1>7, <2>1
<1> HIDE DEF b, next
\* Wherever the lines come in an orderly file.
<1>9. ASSUME NEW e \in Seq(Line), NEW d \in Nat, Len(e) >= n + d, \A i \in 1..n : i >= a => e[i + d] = lines[i],
             \E h, m : Orderly(e, h, m)
      PROVE  FALSE
  <2>1. PICK h, m : Orderly(e, h, m)
    BY <1>9
  <2>2. a + d \in 1..Len(e) /\ b + d \in 1..Len(e) /\ a + d < b + d
    BY <1>1, <1>7, <1>9
  <2>3. e[a + d] = lines[a] /\ e[b + d] = lines[b]
    BY <1>7, <1>9
  <2>4. ASSUME NEW k \in 1..Len(e), a + d < k, k < b + d PROVE e[k].kind \notin {"row", "sep"}
    <3>1. k - d \in 1..n /\ a < k - d /\ k - d < b /\ (k - d) + d = k /\ k - d >= a
      BY <1>1, <1>7, <2>4
    <3> QED BY <1>8, <1>9, <3>1
  <2> HIDE DEF n
  <2> QED BY <1>6, <2>1, <2>2, <2>3, <2>4, NoSepBehind
<1>10. ~NoTable(lines)
  BY <1>1, <1>2 DEF NoTable, Pipes
<1>11. CASE \E h, m \in DOMAIN lines : Orderly(lines, h, m)
  <2>1. \A i \in 1..n : i + 0 = i
    OBVIOUS
  <2>2. \A i \in 1..n : i >= a => lines[i + 0] = lines[i]
    BY <2>1
  <2>3. n >= n + 0 /\ 0 \in Nat
    BY <1>1
  <2> HIDE DEF n
  <2> QED BY <1>9, <1>11, <2>2, <2>3 DEF n
<1>12. CASE Bare(lines) /\ \E h, m \in DOMAIN EnsureTableHeader(lines) : Orderly(EnsureTableHeader(lines), h, m)
  <2> DEFINE top == <<Fence, Header, Sep(Width)>>
  <2>1. PICK body \in Seq(Line) :
          /\ EnsureTableHeader(lines) = top \o body
          /\ IF lines # <<>> /\ lines[1] = Fence THEN lines = <<Fence>> \o body ELSE lines = body
    BY <1>12, EnsuredBare
  <2>2. top \in Seq(Line) /\ Len(top) = 3 /\ Fence.kind = "fence" /\ Fence \in Line
    BY LinesAre
  <2> HIDE DEF top
  <2> DEFINE e == top \o body
  <2>3. e \in Seq(Line) /\ Len(e) = 3 + Len(body) /\ \A i \in 1..Len(body) : e[i + 3] = body[i]
    <3>1. \A x, y \in Seq(Line) : /\ x \o y \in Seq(Line) /\ Len(x \o y) = Len(x) + Len(y)
                                 /\ \A i \in 1..Len(y) : (x \o y)[Len(x) + i] = y[i]
      OBVIOUS
    <3>2. /\ e \in Seq(Line) /\ Len(e) = Len(top) + Len(body)
          /\ \A i \in 1..Len(body) : e[Len(top) + i] = body[i]
      BY <2>2, <3>1, Zenon
    <3>3. \A i \in 1..Len(body) : i + 3 = 3 + i
      OBVIOUS
    <3> HIDE DEF e
    <3> QED BY <2>2, <3>2, <3>3
  <2>4. \E h, m : Orderly(e, h, m)
    <3>1. PICK h, m : Orderly(EnsureTableHeader(lines), h, m)
      BY <1>12
    <3>2. EnsureTableHeader(lines) = e
      BY <2>1
    <3> HIDE DEF e
    <3> QED BY <3>1, <3>2
  <2> HIDE DEF e
  <2>5. CASE lines = body
    BY <1>9, <2>3, <2>4, <2>5
  <2>6. CASE lines = <<Fence>> \o body /\ lines[1] = Fence
    <3>1. n = 1 + Len(body) /\ lines[1] = Fence /\ \A i \in 1..n : i >= 2 => lines[i] = body[i - 1]
      BY <2>2, <2>6
    <3>2. a >= 2
      BY <1>1, <1>2, <2>2, <3>1
    <3>3. \A i \in 1..n : i >= a => e[i + 2] = lines[i]
      <4> SUFFICES ASSUME NEW i \in 1..n, i >= a PROVE e[i + 2] = lines[i]
        OBVIOUS
      <4>1. i - 1 \in 1..Len(body) /\ (i - 1) + 3 = i + 2 /\ i >= 2
        BY <1>1, <3>1, <3>2
      <4> QED BY <2>3, <3>1, <4>1
    <3>4. Len(e) >= n + 2
      BY <1>1, <2>3, <3>1
    <3> HIDE DEF n
    <3> QED BY <1>9, <2>3, <2>4, <3>3, <3>4
  <2>7. (lines # <<>> /\ lines[1] = Fence) => lines[1] = Fence
    OBVIOUS
  <2> QED BY <2>1, <2>5, <2>6
<1> QED BY <1>10, <1>11, <1>12 DEF Neat

\* A note is no item, and the first file has one if its row has a key.
LEMMA NotedItems ==
  ASSUME NEW lines \in Seq(Line), NEW c \in Writes
  PROVE  Items(lines \o <<Text(c)>>) = Items(lines)
<1> DEFINE x == Text(c)
           s == <<x>>
<1>1. x \in Line /\ ~Dated(x)
  BY LinesAre DEF Dated, InTable
<1> HIDE DEF x
<1>2. s \in Seq(Line) /\ Len(s) = 1 /\ s[1] = x /\ \A i \in 1..1 : i = 1
  BY <1>1
<1> HIDE DEF s
<1>3. \A i \in 1..Len(s) : ~Dated(s[i])
  BY <1>1, <1>2
<1>4. Items(lines \o s) = Items(lines)
  BY <1>2, <1>3, ItemsJoined
<1> QED BY <1>4 DEF s, x

\* The first whole file has the item of its row, if the row has a key.
LEMMA CreatedItems ==
  ASSUME NEW c \in Writes
  PROVE  Items(<<Fence, Header, Sep(Width), NewRow(c)>>) =
           IF ItemFor(NewRow(c)).key = <<"", "">> THEN {} ELSE {ItemFor(NewRow(c))}
<1> DEFINE s == Sep(Width)
           row == NewRow(c)
           e == <<Fence, Header, s, row>>
<1>1. /\ Fence \in Line /\ Header \in Line /\ s \in Line /\ row \in Line
      /\ ~Dated(Fence) /\ ~Dated(Header) /\ ~Dated(s)
  BY LinesAre DEF Dated, InTable
<1>2. Dated(row) <=> ItemFor(row).key # <<"", "">>
  BY <1>1, RowFits, ItemKeys DEF Dated
<1> HIDE DEF s, row
<1>3. /\ e \in Seq(Line) /\ Len(e) = 4 /\ e[1] = Fence /\ e[2] = Header /\ e[3] = s /\ e[4] = row
      /\ 4 \in 1..4 /\ \A i \in 1..4 : i = 1 \/ i = 2 \/ i = 3 \/ i = 4
  BY <1>1
<1> HIDE DEF e
<1>4. \A x : x \in Items(e) <=> \E i \in 1..4 : Dated(e[i]) /\ x = ItemFor(e[i])
  BY <1>3, ItemsAre
<1>5. \A x : x \in Items(e) <=> Dated(row) /\ x = ItemFor(row)
  BY <1>1, <1>3, <1>4
<1>6. Items(e) = IF ItemFor(row).key = <<"", "">> THEN {} ELSE {ItemFor(row)}
  BY <1>2, <1>5
<1> QED BY <1>6 DEF e, s, row

\* What a call writes is what the store makes of the table it has looked at,
\* unless it writes the file back as it is.
LEMMA ContentItems ==
  ASSUME NEW c \in Writes, Table(basis[c]), Neat(basis[c])
  PROVE  \/ Content(c) = files[PathOf[c]]
         \/ /\ ~(WriteKind[c] = "insert" /\ Store!Present(c, Items(basis[c])))
            /\ Items(Content(c)) = Store!Written(c, Items(basis[c]))
<1> DEFINE old == basis[c]
           base == EnsureTableHeader(old)
           row == NewRow(c)
           key == ItemFor(row).key
           u == UpsertRow(base, row)
           blank == <<"", "">>
<1>1. WriteKind[c] \in {"upsert", "insert", "create", "append"}
  BY TruthFileAssumption
<1>2. /\ WriteKind[c] = "upsert" => Content(c) = u
      /\ WriteKind[c] = "insert" => Content(c) = IF HasRow(base, row) THEN files[PathOf[c]] ELSE u
      /\ WriteKind[c] = "create" => Content(c) = <<Fence, Header, Sep(Width), row>>
      /\ WriteKind[c] = "append" => Content(c) = old \o <<Text(c)>>
  BY <1>1 DEF Content
<1>3. old \in Seq(Line) /\ base \in Seq(Line)
  <2>1. Fence \notin Data(c) /\ Header \notin Data(c) /\ Sep(Width) \notin Data(c)
    BY NotData
  <2> QED BY <2>1, HeaderEnsured DEF Table
<1>4. Items(base) = Items(old)
  BY <1>3, ItemsEnsured
<1>5. PICK h \in Nat, m \in Nat : Orderly(base, h, m)
  BY <1>3, EnsuredOrderly
<1> HIDE DEF base
<1>6. Items(u) = IF key \in {blank, KeyNames} THEN Items(old)
                 ELSE {e \in Items(old) : e.key # key} \cup {ItemFor(row)}
  BY <1>3, <1>4, <1>5, UpsertItems
<1>7. (key = KeyNames \/ \E e \in Items(old) : e.key = key) => HasRow(base, row)
  BY <1>3, <1>4, <1>5, PresentFound
<1>8. Items(<<Fence, Header, Sep(Width), row>>) = IF key = blank THEN {} ELSE {ItemFor(row)}
  BY CreatedItems
<1>9. Items(old \o <<Text(c)>>) = Items(old)
  BY <1>3, NotedItems
<1>10. /\ Store!Present(c, Items(old)) <=> key = KeyNames \/ \E e \in Items(old) : e.key = key
       /\ WriteKind[c] \in {"upsert", "insert"} =>
            Store!Written(c, Items(old)) =
              IF key \in {blank, KeyNames} THEN Items(old)
              ELSE {e \in Items(old) : e.key # key} \cup {ItemFor(row)}
       /\ WriteKind[c] = "create" =>
            Store!Written(c, Items(old)) = IF key = blank THEN {} ELSE {ItemFor(row)}
       /\ WriteKind[c] = "append" => Store!Written(c, Items(old)) = Items(old)
  <2> DEFINE item == [d \in Writes |-> ItemFor(NewRow(d))]
  <2>1. item[c] = ItemFor(row)
    OBVIOUS
  <2> HIDE DEF item, old, row
  <2>2. /\ Store!Present(c, Items(old)) <=>
             item[c].key = KeyNames \/ \E e \in Items(old) : e.key = item[c].key
        /\ Store!Written(c, Items(old)) =
             CASE WriteKind[c] = "append" -> Items(old)
               [] WriteKind[c] = "create" -> IF item[c].key = blank THEN {} ELSE {item[c]}
               [] WriteKind[c] \in {"upsert", "insert"} ->
                    IF item[c].key \in {blank, KeyNames} THEN Items(old)
                    ELSE {e \in Items(old) : e.key # item[c].key} \cup {item[c]}
    BY DEF Store!Present, Store!Written, item
  <2> HIDE DEF blank
  <2> QED BY <1>1, <2>1, <2>2
<1> HIDE DEF old, row, key, u, blank
<1>11. CASE WriteKind[c] = "upsert"
  BY <1>2, <1>6, <1>10, <1>11 DEF old
<1>12. CASE WriteKind[c] = "insert"
  BY <1>2, <1>6, <1>7, <1>10, <1>12 DEF old
<1>13. CASE WriteKind[c] = "create"
  BY <1>2, <1>8, <1>10, <1>13 DEF old
<1>14. CASE WriteKind[c] = "append"
  BY <1>2, <1>9, <1>10, <1>14 DEF old
<1> QED BY <1>1, <1>11, <1>12, <1>13, <1>14

\* What a step of a call's stage is to the store.
LEMMA StatusMoves ==
  ASSUME LockTypes, NEW c \in Writes, NEW to, stage' = [stage EXCEPT ![c] = to]
  PROVE  /\ StatusOf' = [StatusOf EXCEPT ![c] = Progress(to)]
         /\ Progress(to) = StatusOf[c] => StatusOf' = StatusOf
         /\ StatusOf[c] = Progress(stage[c])
<1>1. /\ stage'[c] = to /\ \A d \in Writes : d # c => stage'[d] = stage[d]
  BY DEF LockTypes
<1>2. /\ \A d \in Writes : StatusOf[d] = Progress(stage[d]) /\ StatusOf'[d] = Progress(stage'[d])
      /\ StatusOf = [d \in Writes |-> StatusOf[d]] /\ StatusOf' = [d \in Writes |-> StatusOf'[d]]
  BY DEF StatusOf
<1> QED BY <1>1, <1>2

\* What a call looks at and a file's table change with what it has read and
\* with the file alone.
LEMMA SeenStays ==
  /\ UNCHANGED basis /\ (\A d \in Writes : stage'[d] = "write" <=> stage[d] = "write") => SeenOf' = SeenOf
  /\ UNCHANGED files => TableOf' = TableOf
  BY DEF SeenOf, TableOf

\* The initial states are a store in which nobody writes yet.
LEMMA StoreInits == TruthInit /\ Tables /\ AllNeat => Store!StoreInit
<1> SUFFICES ASSUME TruthInit, Tables, AllNeat PROVE Store!StoreInit
  OBVIOUS
<1>1. posix \in BOOLEAN /\ stage = [c \in Writes |-> "idle"]
  BY DEF TruthInit
<1>2. \A c \in Writes : stage[c] = "idle"
  BY <1>1
<1>3. StatusOf = [c \in Writes |-> "idle"] /\ SeenOf = [c \in Writes |-> {}]
  BY <1>2 DEF StatusOf, SeenOf, Progress
<1>4. ASSUME NEW q \in Paths PROVE Store!OnePerKey(TableOf[q])
  <2>1. TableOf[q] = Items(files[q])
    BY DEF TableOf
  <2>2. files[q] \in Seq(Line) /\ Table(files[q]) /\ Neat(files[q])
    BY DEF Tables, AllNeat, Table
  <2>3. \A e, f \in Items(files[q]) : e.key = f.key => e = f
    BY <2>2, NeatAlone
  <2> QED BY <2>1, <2>3 DEF Store!OnePerKey
<1> QED BY <1>1, <1>3, <1>4 DEF Store!StoreInit

\* The locks reach those whom the store excludes.
LEMMA SameReach ==
  ASSUME NEW c \in Writes
  PROVE  Guarded(c) <=> Store!Undisturbed(c)
<1>1. \A d \in Writes : StatusOf[d] # "idle" <=> stage[d] # "idle"
  BY DEF StatusOf, Progress
<1>2. \A d \in Writes : OneDomain(c, d) <=> Store!Excludes(c, d)
  BY DEF OneDomain, Helper, Store!Excludes
<1> QED BY <1>1, <1>2 DEF Guarded, Store!Undisturbed

\* A write is one step of the store.
LEMMA TakeStep ==
  ASSUME TruthInv, Tables, AllNeat, NEW c \in Writes, WriteFile(c)
  PROVE  Store!Take(c)
<1>1. LockTypes /\ PathOf[c] \in Paths
  BY TruthFileAssumption DEF TruthInv, Registered
<1>2. /\ stage[c] = "write" /\ stage' = [stage EXCEPT ![c] = "leave"]
      /\ files' \in {files, [files EXCEPT ![PathOf[c]] = Content(c)]}
      /\ basis' = [basis EXCEPT ![c] = <<>>] /\ posix' = posix
  BY DEF WriteFile, Reaches
<1>3. StatusOf[c] = "looked" /\ StatusOf' = [StatusOf EXCEPT ![c] = "over"]
  <2>1. Progress("write") = "looked" /\ Progress("leave") = "over"
    BY DEF Progress
  <2>2. StatusOf' = [StatusOf EXCEPT ![c] = Progress("leave")] /\ StatusOf[c] = Progress(stage[c])
    BY <1>1, <1>2, StatusMoves
  <2> QED BY <1>2, <2>1, <2>2
<1>4. SeenOf[c] = Items(basis[c]) /\ SeenOf' = [SeenOf EXCEPT ![c] = {}]
  <2>1. \A d \in Writes : d # c => stage'[d] = stage[d] /\ basis'[d] = basis[d]
    BY <1>1, <1>2 DEF LockTypes
  <2>2. stage'[c] # "write"
    BY <1>1, <1>2 DEF LockTypes
  <2>3. /\ \A d \in Writes : SeenOf[d] = IF stage[d] = "write" THEN Items(basis[d]) ELSE {}
        /\ \A d \in Writes : SeenOf'[d] = IF stage'[d] = "write" THEN Items(basis'[d]) ELSE {}
        /\ SeenOf = [d \in Writes |-> SeenOf[d]] /\ SeenOf' = [d \in Writes |-> SeenOf'[d]]
    BY DEF SeenOf
  <2>4. SeenOf'[c] = {} /\ \A d \in Writes : d # c => SeenOf'[d] = SeenOf[d]
    BY <2>1, <2>2, <2>3
  <2>5. SeenOf' = [SeenOf EXCEPT ![c] = {}]
    BY <2>3, <2>4
  <2> QED BY <1>2, <2>3, <2>5
<1>5. Table(basis[c]) /\ Neat(basis[c])
  BY <1>2 DEF Tables, AllNeat
<1> DEFINE t == IF Store!Undisturbed(c) THEN TableOf[PathOf[c]] ELSE SeenOf[c]
<1>6. t = Items(basis[c])
  <2>1. CASE Guarded(c)
    <3>1. basis[c] = files[PathOf[c]]
      BY <1>2, <2>1 DEF TruthInv, NothingStale
    <3>2. TableOf[PathOf[c]] = Items(files[PathOf[c]])
      BY <1>1 DEF TableOf
    <3>3. t = TableOf[PathOf[c]]
      BY <2>1, SameReach
    <3> QED BY <3>1, <3>2, <3>3
  <2>2. CASE ~Guarded(c)
    BY <1>4, <2>2, SameReach
  <2> QED BY <2>1, <2>2
<1> HIDE DEF t
<1>7. \/ TableOf' = TableOf
      \/ /\ ~(WriteKind[c] = "insert" /\ Store!Present(c, t))
         /\ TableOf' = [TableOf EXCEPT ![PathOf[c]] = Store!Written(c, t)]
  <2>1. CASE files' = files
    BY <2>1, SeenStays
  <2>2. CASE files' = [files EXCEPT ![PathOf[c]] = Content(c)] /\ Content(c) = files[PathOf[c]]
    <3>1. files' = files
      BY <1>1, <2>2 DEF LockTypes
    <3> QED BY <3>1, SeenStays
  <2>3. CASE /\ files' = [files EXCEPT ![PathOf[c]] = Content(c)]
             /\ ~(WriteKind[c] = "insert" /\ Store!Present(c, t))
             /\ Items(Content(c)) = Store!Written(c, t)
    <3>1. \A q \in Paths : files'[q] = IF q = PathOf[c] THEN Content(c) ELSE files[q]
      BY <1>1, <2>3 DEF LockTypes
    <3>2. TableOf' = [q \in Paths |-> Items(files'[q])] /\ TableOf = [q \in Paths |-> Items(files[q])]
      BY DEF TableOf
    <3>3. TableOf' = [TableOf EXCEPT ![PathOf[c]] = Items(Content(c))]
      BY <1>1, <3>1, <3>2
    <3> QED BY <2>3, <3>3
  <2>4. \/ Content(c) = files[PathOf[c]]
        \/ /\ ~(WriteKind[c] = "insert" /\ Store!Present(c, t))
           /\ Items(Content(c)) = Store!Written(c, t)
    BY <1>5, <1>6, ContentItems
  <2> QED BY <1>2, <2>1, <2>2, <2>3, <2>4
<1> QED BY <1>2, <1>3, <1>4, <1>7 DEF Store!Take, Store!Moves, t

\* Every step is one of the store, or none.
LEMMA StoreStep == TruthInv /\ Tables /\ AllNeat /\ [TruthNext]_truthVars
                     => [Store!StoreNext]_(Store!storeVars)
<1> SUFFICES ASSUME TruthInv, Tables, AllNeat, [TruthNext]_truthVars
             PROVE  [Store!StoreNext]_(Store!storeVars)
  OBVIOUS
<1>1. LockTypes /\ \A c \in Writes : PathOf[c] \in Paths
  BY TruthFileAssumption DEF TruthInv, Registered
<1>2. /\ Progress("idle") = "idle" /\ Progress("write") = "looked"
      /\ \A at \in {"register", "thread", "flock", "read"} : Progress(at) = "open"
      /\ \A at \in {"leave", "close", "unregister", "done", "failed", "dead"} : Progress(at) = "over"
  BY DEF Progress
<1> DEFINE still == UNCHANGED <<posix, StatusOf, SeenOf, TableOf>>
<1>3. still => UNCHANGED Store!storeVars
  BY DEF Store!storeVars
<1>4. ASSUME NEW c \in Writes, BeginWrite(c) PROVE Store!StoreNext
  <2>1. /\ stage[c] = "idle" /\ UNCHANGED <<posix, basis, files>>
        /\ stage' = [stage EXCEPT ![c] = IF WriteKind[c] = "create" /\ ~BaseIsShell(files[PathOf[c]])
                                         THEN "failed" ELSE IF Helper(c) THEN "flock" ELSE "register"]
    BY <1>4 DEF BeginWrite, Reaches
  <2> DEFINE to == IF WriteKind[c] = "create" /\ ~BaseIsShell(files[PathOf[c]])
                   THEN "failed" ELSE IF Helper(c) THEN "flock" ELSE "register"
  <2>2. stage' = [stage EXCEPT ![c] = to] /\ to # "write"
    BY <2>1
  <2>3. /\ to = "failed" => WriteKind[c] = "create"
        /\ to # "failed" => to \in {"flock", "register"}
                            /\ (WriteKind[c] = "create" => BaseIsShell(files[PathOf[c]]))
    OBVIOUS
  <2> HIDE DEF to
  <2>4. StatusOf' = [StatusOf EXCEPT ![c] = Progress(to)] /\ StatusOf[c] = Progress(stage[c])
    BY <1>1, <2>2, StatusMoves
  <2>5. \A d \in Writes : stage'[d] = "write" <=> stage[d] = "write"
    BY <1>1, <2>1, <2>2 DEF LockTypes
  <2>6. SeenOf' = SeenOf /\ TableOf' = TableOf /\ posix' = posix
    BY <2>1, <2>5, SeenStays
  <2>7. CASE to = "failed"
    <3>1. Store!Refuse(c)
      BY <1>2, <2>1, <2>3, <2>4, <2>6, <2>7 DEF Store!Refuse, Store!Moves
    <3> QED BY <3>1 DEF Store!StoreNext
  <2>8. CASE to # "failed"
    <3>1. ASSUME WriteKind[c] = "create" PROVE TableOf[PathOf[c]] = {}
      <4>1. BaseIsShell(files[PathOf[c]])
        BY <2>3, <2>8, <3>1
      <4>2. Table(files[PathOf[c]]) /\ Neat(files[PathOf[c]])
        BY <1>1 DEF Tables, AllNeat
      <4>3. Items(files[PathOf[c]]) = {}
        BY <4>1, <4>2, ShellEmpty DEF Table
      <4> QED BY <1>1, <4>3 DEF TableOf
    <3>2. Progress(to) = "open"
      BY <1>2, <2>3, <2>8
    <3>3. Store!Begin(c)
      BY <1>2, <2>1, <2>4, <2>6, <3>1, <3>2 DEF Store!Begin, Store!Moves
    <3> QED BY <3>3 DEF Store!StoreNext
  <2> QED BY <2>7, <2>8
<1>5. ASSUME NEW c \in Writes, NEW from, NEW to, stage[c] = from, stage' = [stage EXCEPT ![c] = to],
             UNCHANGED <<posix, basis, files>>, from # "write", to # "write", Progress(from) = Progress(to)
      PROVE  still
  <2>1. StatusOf' = StatusOf
    BY <1>1, <1>5, StatusMoves
  <2>2. \A d \in Writes : stage'[d] = "write" <=> stage[d] = "write"
    BY <1>1, <1>5 DEF LockTypes
  <2> QED BY <1>5, <2>1, <2>2, SeenStays
<1>6. ASSUME NEW c \in Writes, Register(c) \/ TakeThread(c) \/ TakeFlock(c) PROVE still
  <2>1. /\ UNCHANGED <<posix, basis, files>>
        /\ \/ stage[c] = "register" /\ stage' = [stage EXCEPT ![c] = "thread"]
           \/ stage[c] = "thread" /\ stage' = [stage EXCEPT ![c] = "flock"]
           \/ stage[c] = "flock" /\ stage' = [stage EXCEPT ![c] = "read"]
    BY <1>6 DEF Register, TakeThread, TakeFlock, Reaches
  <2> HIDE DEF still
  <2>2. /\ Progress("register") = Progress("thread") /\ Progress("thread") = Progress("flock")
        /\ Progress("flock") = Progress("read")
    BY <1>2
  <2> QED BY <1>5, <2>1, <2>2
<1>7. ASSUME NEW c \in Writes, LeaveThread(c) \/ Close(c) \/ Unregister(c) PROVE still
  <2>1. /\ UNCHANGED <<posix, basis, files>>
        /\ \/ stage[c] = "leave" /\ stage' = [stage EXCEPT ![c] = "close"]
           \/ stage[c] = "close" /\ stage' = [stage EXCEPT ![c] = "done"]
           \/ stage[c] = "close" /\ stage' = [stage EXCEPT ![c] = "unregister"]
           \/ stage[c] = "unregister" /\ stage' = [stage EXCEPT ![c] = "done"]
    BY <1>7 DEF LeaveThread, Close, Unregister, Reaches
  <2> HIDE DEF still
  <2>2. /\ Progress("leave") = Progress("close") /\ Progress("close") = Progress("done")
        /\ Progress("close") = Progress("unregister") /\ Progress("unregister") = Progress("done")
    BY <1>2
  <2> QED BY <1>5, <2>1, <2>2
<1>8. ASSUME NEW c \in Writes, ReadFile(c) PROVE Store!StoreNext
  <2>1. /\ stage[c] = "read" /\ stage' = [stage EXCEPT ![c] = "write"]
        /\ basis' = [basis EXCEPT ![c] = files[PathOf[c]]] /\ UNCHANGED <<posix, files>>
    BY <1>8 DEF ReadFile, Reaches
  <2>2. StatusOf' = [StatusOf EXCEPT ![c] = "looked"] /\ StatusOf[c] = "open"
    <3>1. StatusOf' = [StatusOf EXCEPT ![c] = Progress("write")] /\ StatusOf[c] = Progress(stage[c])
      BY <1>1, <2>1, StatusMoves
    <3> QED BY <1>2, <2>1, <3>1
  <2>3. TableOf' = TableOf /\ TableOf[PathOf[c]] = Items(files[PathOf[c]])
    BY <1>1, <2>1, SeenStays DEF TableOf
  <2>4. SeenOf' = [SeenOf EXCEPT ![c] = TableOf[PathOf[c]]]
    <3>1. stage'[c] = "write" /\ basis'[c] = files[PathOf[c]]
          /\ \A d \in Writes : d # c => stage'[d] = stage[d] /\ basis'[d] = basis[d]
      BY <1>1, <2>1 DEF LockTypes
    <3>2. /\ \A d \in Writes : SeenOf[d] = IF stage[d] = "write" THEN Items(basis[d]) ELSE {}
          /\ \A d \in Writes : SeenOf'[d] = IF stage'[d] = "write" THEN Items(basis'[d]) ELSE {}
          /\ SeenOf = [d \in Writes |-> SeenOf[d]] /\ SeenOf' = [d \in Writes |-> SeenOf'[d]]
      BY DEF SeenOf
    <3>3. SeenOf'[c] = Items(basis'[c])
      BY <3>1, <3>2
    <3>4. SeenOf'[c] = TableOf[PathOf[c]]
      BY <2>3, <3>1, <3>3
    <3>5. ASSUME NEW d \in Writes, d # c PROVE SeenOf'[d] = SeenOf[d]
      <4>1. stage'[d] = stage[d] /\ basis'[d] = basis[d]
        BY <3>1, <3>5
      <4> QED BY <3>2, <4>1
    <3> QED BY <3>2, <3>4, <3>5
  <2>5. Store!Look(c)
    BY <2>1, <2>2, <2>3, <2>4 DEF Store!Look, Store!Moves
  <2> QED BY <2>5 DEF Store!StoreNext
<1>9. ASSUME NEW c \in Writes, WriteFile(c) PROVE Store!StoreNext
  BY <1>9, TakeStep DEF Store!StoreNext
<1>10. ASSUME NEW p \in Programs, KillProgram(p) PROVE Store!StoreNext
  <2>1. /\ stage' = [c \in Writes |-> IF ProgramOf[c] = p /\ stage[c] \notin Finished THEN "dead" ELSE stage[c]]
        /\ basis' = [c \in Writes |-> IF ProgramOf[c] = p THEN <<>> ELSE basis[c]]
        /\ UNCHANGED <<posix, files>>
    BY <1>10 DEF KillProgram
  <2>2. \A c \in Writes : /\ ProgramOf[c] = p => stage'[c] \in Finished
                          /\ ProgramOf[c] # p => stage'[c] = stage[c] /\ basis'[c] = basis[c]
    BY <2>1 DEF Finished
  <2>3. \A at \in Finished : Progress(at) = "over" /\ at # "write"
    BY <1>2 DEF Finished
  <2>4. StatusOf' = [c \in Writes |-> IF ProgramOf[c] = p THEN "over" ELSE StatusOf[c]]
    <3>1. /\ \A c \in Writes : StatusOf[c] = Progress(stage[c]) /\ StatusOf'[c] = Progress(stage'[c])
          /\ StatusOf' = [c \in Writes |-> StatusOf'[c]]
      BY DEF StatusOf
    <3>2. \A c \in Writes : StatusOf'[c] = IF ProgramOf[c] = p THEN "over" ELSE StatusOf[c]
      BY <2>2, <2>3, <3>1
    <3> QED BY <3>1, <3>2
  <2>5. SeenOf' = [c \in Writes |-> IF ProgramOf[c] = p THEN {} ELSE SeenOf[c]]
    <3>1. /\ \A c \in Writes : SeenOf[c] = IF stage[c] = "write" THEN Items(basis[c]) ELSE {}
          /\ \A c \in Writes : SeenOf'[c] = IF stage'[c] = "write" THEN Items(basis'[c]) ELSE {}
          /\ SeenOf' = [c \in Writes |-> SeenOf'[c]]
      BY DEF SeenOf
    <3>2. \A c \in Writes : SeenOf'[c] = IF ProgramOf[c] = p THEN {} ELSE SeenOf[c]
      BY <2>2, <2>3, <3>1
    <3> QED BY <3>1, <3>2
  <2>6. TableOf' = TableOf
    BY <2>1, SeenStays
  <2>7. Store!Die(p)
    BY <2>1, <2>4, <2>5, <2>6 DEF Store!Die
  <2> QED BY <2>7 DEF Store!StoreNext
<1>11. CASE UNCHANGED truthVars
  <2>1. UNCHANGED <<posix, stage, basis, files>>
    BY <1>11 DEF truthVars
  <2>2. StatusOf' = StatusOf
    BY <2>1 DEF StatusOf
  <2> QED BY <1>3, <2>1, <2>2, SeenStays
<1> HIDE DEF still
<1> QED BY <1>3, <1>4, <1>6, <1>7, <1>8, <1>9, <1>10, <1>11 DEF TruthNext, WriteStep

\* The files are a keyed store on which every write is one step, although a
\* call reads and writes a file in two and its lock may be evicted meanwhile
\* (write_truth_file and _path_lock, truth_io.py:72-281).
THEOREM WritesAtomic == TruthSpec => AtomicStore
<1>1. TruthSpec => []Tables
  BY TablesInit, TablesStep, TruthInvariant, PTL DEF TruthSpec
<1>2. TruthSpec => []AllNeat
  BY <1>1, NeatInit, NeatStep, TruthInvariant, PTL DEF TruthSpec
<1>3. TruthInit => Store!StoreInit
  BY StoreInits, TablesInit, NeatInit
<1> QED BY <1>1, <1>2, <1>3, StoreStep, TruthInvariant, PTL DEF TruthSpec, AtomicStore, Store!StoreSpec
=============================================================================

----------------------------- MODULE WriteLock ------------------------------
(***************************************************************************)
(* One file under the write lock of safe_write.py.  Where flock works the  *)
(* lock is the kernel's, and dies with its holder.  Elsewhere it is the    *)
(* existence of a lock file: a writer that finds one polls for a bounded   *)
(* time, and removes it once it is older than STALE_LOCK_TTL and the       *)
(* process recorded in it is gone.  A call is one write; calls of one      *)
(* process are its threads.  The lock file is named by the call that       *)
(* created it, which stands for its inode: numbers are not reused.         *)
(***************************************************************************)
EXTENDS Naturals, FiniteSets

CONSTANTS
  Calls,    \* the writes ever made
  Procs,    \* the processes that make them
  ProcOf,   \* the process of a call
  KindOf,   \* "transact", "append" or "overwrite"
  Polls,    \* LOCK_WAIT_TIMEOUT / _LOCK_POLL_INTERVAL
  None

ASSUME WriteLockAssumption ==
  /\ None \notin Calls /\ Polls \in Nat
  /\ ProcOf \in [Calls -> Procs]
  /\ KindOf \in [Calls -> {"transact", "append", "overwrite"}]

VARIABLES
  flock,     \* flock works on this file system
  pc,        \* where each call is
  polls,     \* its rounds in the waiting loop
  seen,      \* the lock file it judges
  copy,      \* what locked_transact read
  lock,      \* the lock file, by the call that created it
  recorded,  \* its holder's pid is in it
  aged,      \* it is older than STALE_LOCK_TTL
  alive,     \* the running processes
  file,      \* the writes the file contains
  exposed    \* a lock file has stood there that nothing protected, see Age
vars == <<flock, pc, polls, seen, copy, lock, recorded, aged, alive, file, exposed>>
lockVars == <<lock, recorded, aged>>

Judging  == {"stat", "age", "pid", "compare", "unlink"}
Critical == {"read", "write"}
Holding  == {"record"} \cup Critical \cup {"release"}
Over     == {"done", "failed", "dead"}
Places   == {"idle", "create"} \cup Judging \cup Holding \cup Over

TypeOK ==
  /\ flock \in BOOLEAN /\ pc \in [Calls -> Places] /\ polls \in [Calls -> 0..Polls]
  /\ seen \in [Calls -> Calls \cup {None}] /\ copy \in [Calls -> SUBSET Calls]
  /\ lock \in Calls \cup {None} /\ recorded \in BOOLEAN /\ aged \in BOOLEAN
  /\ alive \subseteq Procs /\ file \subseteq Calls /\ exposed \in BOOLEAN

Init ==
  /\ flock \in BOOLEAN
  /\ pc = [c \in Calls |-> "idle"] /\ polls = [c \in Calls |-> 0]
  /\ seen = [c \in Calls |-> None] /\ copy = [c \in Calls |-> {}]
  /\ lock = None /\ recorded = FALSE /\ aged = FALSE
  /\ alive = Procs /\ file = {} /\ exposed = FALSE

Goes(c, place) == pc' = [pc EXCEPT ![c] = place]

-----------------------------------------------------------------------------
(* Taking the lock.                                                        *)

Begin(c) ==
  /\ pc[c] = "idle" /\ Goes(c, "create")
  /\ UNCHANGED <<flock, polls, seen, copy, lockVars, alive, file, exposed>>

Flock(c) ==
  /\ flock /\ pc[c] = "create"
  /\ \A d \in Calls : pc[d] \notin Holding
  /\ Goes(c, "read")
  /\ UNCHANGED <<flock, polls, seen, copy, lockVars, alive, file, exposed>>

AgainFaulty(c) ==                           \* no deadline
  /\ Goes(c, "create") /\ UNCHANGED <<flock, polls, seen, copy, lockVars, alive, file, exposed>>

AgainLate(c) ==                             \* one round past the deadline
  /\ IF polls[c] <= Polls
     THEN polls' = [polls EXCEPT ![c] = @ + 1] /\ Goes(c, "create")
     ELSE Goes(c, "failed") /\ UNCHANGED polls
  /\ UNCHANGED <<flock, seen, copy, lockVars, alive, file, exposed>>

\* The next round of the waiting loop, or its deadline.
Again(c) ==
  /\ IF polls[c] < Polls
     THEN polls' = [polls EXCEPT ![c] = @ + 1] /\ Goes(c, "create")
     ELSE Goes(c, "failed") /\ UNCHANGED polls
  /\ UNCHANGED <<flock, seen, copy, lockVars, alive, file, exposed>>

\* O_CREAT | O_EXCL.  Only the loop looks at the lock file it runs into.
Create(c) ==
  /\ ~flock /\ pc[c] = "create"
  /\ \/ /\ lock = None
        /\ lock' = c /\ recorded' = FALSE /\ aged' = FALSE /\ Goes(c, "record")
        /\ UNCHANGED <<flock, polls, seen, copy, alive, file, exposed>>
     \/ /\ lock # None /\ polls[c] = 0 /\ Again(c)
     \/ /\ lock # None /\ polls[c] > 0 /\ Goes(c, "stat")
        /\ UNCHANGED <<flock, polls, seen, copy, lockVars, alive, file, exposed>>

\* The pid is advisory: the lock is held whether or not it could be written.
\* Writing it makes the file young; it goes to the file that the call made,
\* which may be in its place no more.
Record(c) ==
  /\ pc[c] = "record" /\ Goes(c, "read")
  /\ \/ UNCHANGED lockVars
     \/ lock = c /\ recorded' = TRUE /\ aged' = FALSE /\ UNCHANGED lock
  /\ UNCHANGED <<flock, polls, seen, copy, alive, file, exposed>>

\* chmod fails: the call raises, and nobody removes the file it created.
ChmodFails(c) ==
  /\ pc[c] = "record" /\ Goes(c, "failed") /\ exposed' = TRUE
  /\ UNCHANGED <<flock, polls, seen, copy, lockVars, alive, file>>

\* What keeps a lock file that has grown old from the waiters of its path: a
\* pid, of a process that lives, and is not their own.
Protected ==
  /\ recorded /\ ProcOf[lock] \in alive
  /\ \A d \in Calls \ {lock} : ProcOf[d] = ProcOf[lock] => pc[d] \in Over

\* Time passes, and whoever holds the lock is not done.
Age ==
  /\ lock # None /\ ~aged /\ aged' = TRUE
  /\ exposed' = (exposed \/ ~Protected)
  /\ UNCHANGED <<flock, pc, polls, seen, copy, lock, recorded, alive, file>>

-----------------------------------------------------------------------------
(* Judging a lock file that is in the way: every line reads it afresh.     *)

Stat(c) ==
  /\ pc[c] = "stat"
  /\ \/ lock = None /\ Again(c)
     \/ /\ lock # None /\ seen' = [seen EXCEPT ![c] = lock] /\ Goes(c, "age")
        /\ UNCHANGED <<flock, polls, copy, lockVars, alive, file, exposed>>

\* _lock_is_stale: a file that is gone counts as stale.
JudgeAge(c) ==
  /\ pc[c] = "age"
  /\ IF lock # None /\ ~aged
     THEN Again(c)
     ELSE /\ Goes(c, IF lock = None THEN "compare" ELSE "pid")
          /\ UNCHANGED <<flock, polls, seen, copy, lockVars, alive, file, exposed>>

HolderAlive(c) ==
  lock # None /\ recorded /\ ProcOf[lock] # ProcOf[c] /\ ProcOf[lock] \in alive

JudgePid(c) ==
  /\ pc[c] = "pid"
  /\ IF HolderAlive(c)
     THEN Again(c)
     ELSE /\ Goes(c, "compare")
          /\ UNCHANGED <<flock, polls, seen, copy, lockVars, alive, file, exposed>>

CompareFaulty(c) ==                         \* removes whatever is there now
  /\ pc[c] = "compare"
  /\ IF lock # None
     THEN /\ Goes(c, "unlink")
          /\ UNCHANGED <<flock, polls, seen, copy, lockVars, alive, file, exposed>>
     ELSE Again(c)

\* _unlink_if_same: the inode is compared, and then the path is unlinked.
Compare(c) ==
  /\ pc[c] = "compare"
  /\ IF lock # None /\ lock = seen[c]
     THEN /\ Goes(c, "unlink")
          /\ UNCHANGED <<flock, polls, seen, copy, lockVars, alive, file, exposed>>
     ELSE Again(c)

Unlinked == lock' = None /\ recorded' = FALSE /\ aged' = FALSE

\* The path is unlinked, whichever file it now names.
Unlink(c) ==
  /\ pc[c] = "unlink" /\ Unlinked
  /\ IF polls[c] < Polls
     THEN polls' = [polls EXCEPT ![c] = @ + 1] /\ Goes(c, "create")
     ELSE Goes(c, "failed") /\ UNCHANGED polls
  /\ UNCHANGED <<flock, seen, copy, alive, file, exposed>>

-----------------------------------------------------------------------------
(* Under the lock.                                                         *)

ReadFaulty(c) ==                            \* reads nothing: plain safe_write
  /\ pc[c] = "read" /\ Goes(c, "write") /\ copy' = [copy EXCEPT ![c] = {}]
  /\ UNCHANGED <<flock, polls, seen, lockVars, alive, file, exposed>>

Read(c) ==
  /\ pc[c] = "read" /\ Goes(c, "write")
  /\ copy' = [copy EXCEPT ![c] = file]
  /\ UNCHANGED <<flock, polls, seen, lockVars, alive, file, exposed>>

Written(c) ==
  CASE KindOf[c] = "transact"  -> copy[c] \cup {c}
    [] KindOf[c] = "append"    -> file \cup {c}
    [] KindOf[c] = "overwrite" -> {c}

\* os.replace, or an error that leaves the file as it was.
Write(c) ==
  /\ pc[c] = "write" /\ Goes(c, "release")
  /\ file' \in {file, Written(c)}
  /\ UNCHANGED <<flock, polls, seen, copy, lockVars, alive, exposed>>

\* The finally clause: the lock file goes by its path, whoever created it.
Release(c) ==
  /\ pc[c] = "release" /\ Goes(c, "done")
  /\ IF flock THEN UNCHANGED lockVars ELSE Unlinked
  /\ UNCHANGED <<flock, polls, seen, copy, alive, file, exposed>>

\* A process dies: flock is released, a lock file stays.
Kill(p) ==
  /\ p \in alive /\ alive' = alive \ {p}
  /\ pc' = [c \in Calls |-> IF ProcOf[c] = p /\ pc[c] \notin Over THEN "dead" ELSE pc[c]]
  /\ exposed' = (exposed \/ (lock # None /\ pc'[lock] = "dead"))
  /\ UNCHANGED <<flock, polls, seen, copy, lockVars, file>>

Step(c) ==
  \/ Flock(c) \/ Create(c) \/ Record(c) \/ Stat(c) \/ JudgeAge(c) \/ JudgePid(c)
  \/ Compare(c) \/ Unlink(c) \/ Read(c) \/ Write(c) \/ Release(c)

Next ==
  \/ \E c \in Calls : Begin(c) \/ ChmodFails(c) \/ Step(c)
  \/ \E p \in Procs : Kill(p)
  \/ Age

Spec     == Init /\ [][Next]_vars
\* A running thread goes on; nobody has to start a write, or to fail or die.
FairSpec == Spec /\ \A c \in Calls : WF_vars(Step(c))

-----------------------------------------------------------------------------
(* Properties.                                                             *)

\* Until a holder leaves a lock file behind, or keeps one past its age that
\* does not show its pid or that another thread of its process waits for, one
\* call at a time reads and writes the file: no waiter robs a recorded holder
\* that merely went quiet, also when locks come and go while it judges.
Exclusive ==
  ~exposed => \A c, d \in Calls : pc[c] \in Critical /\ pc[d] \in Critical => c = d

\* Until then a write is lost only to a call that overwrites the file.
LostOnlyToOverwrite ==
  [][~exposed /\ ~(file \subseteq file')
     => \E c \in Calls : pc[c] = "write" /\ KindOf[c] = "overwrite"]_vars

\* Until then the lock file is that of a call in the middle of its work:
\* also a write that fails takes its lock away.
NothingLeft == ~exposed /\ lock # None => pc[lock] \in Holding

\* Every call ends, with the file written or with an error.
EveryCallEnds == \A c \in Calls : pc[c] # "idle" ~> pc[c] \in Over

-----------------------------------------------------------------------------
(* What the code says of itself and does not do.                           *)

\* safe_write.py:71-72: a live holder that merely went quiet must not be
\* robbed.  One whose pid is not, or not yet, in the file is.
QuietHolderKept ==
  [][\A c \in Calls :
       lock \in Calls \ {c} /\ pc[c] = "unlink" /\ pc'[c] # "unlink" => pc[lock] \notin Holding]_vars

\* safe_write.py:93-100: comparing inodes closes the race of two waiters
\* that take over one stale lock.
TakeoverExclusive ==
  \A c, d \in Calls : pc[c] \in Critical /\ pc[d] \in Critical => c = d
=============================================================================

----------------------------- MODULE StateFile ------------------------------
(***************************************************************************)
(* Several commands on one project: pipeline-state.json under the write    *)
(* and read locks of filelock_utils.py, and the exit hook of a command     *)
(* that began a chapter, which takes the lock again to save once more.     *)
(* The state is abstracted to the set of updates it contains.  Pipeline    *)
(* is what one command does between Load and Release.                      *)
(***************************************************************************)
EXTENDS Naturals

CONSTANTS
  Slots,       \* slots in which commands run, one after the other
  MaxUpdates   \* bound: updates ever made

ASSUME StateFileAssumption == MaxUpdates \in Nat

VARIABLES
  place,      \* where each process is
  mode,       \* the lock it holds
  mem,        \* the updates in its PipelineState
  armed,      \* it began a chapter: the exit hook is registered
  cleaned,    \* _cleanup_done
  stateFile,  \* the updates in pipeline-state.json
  updates     \* number of updates made
fileVars == <<place, mode, mem, armed, cleaned, stateFile, updates>>

Modes         == {"none", "read", "write"}
CommandPlaces == {"idle", "write", "read", "load", "work", "exit", "exitwait", "overlay"}
Waiting       == {"write", "read", "exitwait"}
Contents      == SUBSET (1..MaxUpdates)

FileTypeOK ==
  /\ place \in [Slots -> CommandPlaces] /\ mode \in [Slots -> Modes]
  /\ mem \in [Slots -> Contents] /\ stateFile \in Contents
  /\ armed \in [Slots -> BOOLEAN] /\ cleaned \in [Slots -> BOOLEAN]
  /\ updates \in 0..MaxUpdates
  /\ \A p \in Slots :                        \* a process holds the lock its place needs
       /\ mode[p] = "write" <=> place[p] \in {"load", "work", "overlay"}
       /\ mode[p] = "read" => place[p] = "read"

FileInit ==
  /\ place = [p \in Slots |-> "idle"] /\ mode = [p \in Slots |-> "none"]
  /\ mem = [p \in Slots |-> {}] /\ stateFile = {} /\ updates = 0
  /\ armed = [p \in Slots |-> FALSE] /\ cleaned = [p \in Slots |-> FALSE]

-----------------------------------------------------------------------------
(* The locks.  flock conflicts between descriptors, also of one process.   *)

FreeToWriteFaulty == \A q \in Slots : mode[q] # "read"   \* a writer is not kept out
FreeToWrite == \A q \in Slots : mode[q] = "none"
FreeToRead  == \A q \in Slots : mode[q] # "write"

Moves(p, to) == place' = [place EXCEPT ![p] = to]
Holds(p, m)    == mode' = [mode EXCEPT ![p] = m]

\* holder_mode: which lock the running thread holds already.
HolderModeFaulty(p) == "none"
HolderMode(p)       == mode[p]

BeginCommand(p) ==
  /\ place[p] = "idle"
  /\ \E kind \in {"read", "write"} : Moves(p, kind)
  /\ UNCHANGED <<mode, mem, armed, cleaned, stateFile, updates>>

LoadFaulty(p) ==                            \* keeps what it had in memory
  /\ place[p] = "load" /\ Moves(p, "work")
  /\ UNCHANGED <<mode, mem, armed, cleaned, stateFile, updates>>

LockWrite(p) ==
  /\ place[p] = "write" /\ FreeToWrite
  /\ Holds(p, "write") /\ Moves(p, "load")
  /\ UNCHANGED <<mem, armed, cleaned, stateFile, updates>>

\* The status of the book: read under the lock and printed.
LockRead(p) ==
  /\ place[p] = "read" /\ mode[p] = "none" /\ FreeToRead
  /\ Holds(p, "read") /\ UNCHANGED <<place, mem, armed, cleaned, stateFile, updates>>
Status(p) ==
  /\ place[p] = "read" /\ mode[p] = "read"
  /\ Holds(p, "none") /\ Moves(p, "idle")
  /\ UNCHANGED <<mem, armed, cleaned, stateFile, updates>>

\* The process is gone, and with it its locks and its memory.
Gone(p) ==
  /\ Moves(p, "idle") /\ Holds(p, "none")
  /\ mem' = [mem EXCEPT ![p] = {}]
  /\ armed' = [armed EXCEPT ![p] = FALSE] /\ cleaned' = [cleaned EXCEPT ![p] = FALSE]
  /\ UNCHANGED <<stateFile, updates>>

\* The timeout runs while another process holds a conflicting lock.  The
\* exit hook logs it and goes on.
TimesOut(p) ==
  /\ place[p] \in Waiting /\ mode[p] = "none"
  /\ ~IF place[p] = "read" THEN FreeToRead ELSE FreeToWrite
  /\ Gone(p)
KillCommand(p) == place[p] # "idle" /\ Gone(p)

-----------------------------------------------------------------------------
(* A writing command.                                                      *)

Load(p) ==
  /\ place[p] = "load" /\ Moves(p, "work")
  /\ mem' = [mem EXCEPT ![p] = stateFile]
  /\ UNCHANGED <<mode, armed, cleaned, stateFile, updates>>

Work(p) ==
  /\ place[p] = "work" /\ updates < MaxUpdates
  /\ updates' = updates + 1
  /\ mem' = [mem EXCEPT ![p] = @ \cup {updates'}]
  /\ armed' \in {armed, [armed EXCEPT ![p] = TRUE]}
  /\ UNCHANGED <<place, mode, cleaned, stateFile>>

SaveState(p) ==
  /\ place[p] = "work" /\ stateFile' = mem[p]
  /\ UNCHANGED <<place, mode, mem, armed, cleaned, updates>>

\* A signal seen at a step boundary: the emergency cleanup, under the lock
\* the thread already holds.
Shutdown(p) ==
  /\ place[p] = "work" /\ armed[p] /\ ~cleaned[p]
  /\ cleaned' = [cleaned EXCEPT ![p] = TRUE]
  /\ IF HolderMode(p) = "write"
     THEN stateFile' = mem[p] /\ UNCHANGED place
     ELSE Moves(p, "exitwait") /\ UNCHANGED stateFile
  /\ UNCHANGED <<mode, mem, armed, updates>>

\* The command ends, having saved, or with an error and its updates unsaved.
EndCommand(p) ==
  /\ place[p] = "work"
  /\ Holds(p, "none") /\ Moves(p, "exit")
  /\ stateFile' \in {stateFile, mem[p]}
  /\ UNCHANGED <<mem, armed, cleaned, updates>>

\* atexit: only a process that began a chapter, and only once.
Exit(p) ==
  /\ place[p] = "exit"
  /\ IF armed[p] /\ ~cleaned[p]
     THEN Moves(p, "exitwait") /\ UNCHANGED <<mode, mem, armed, cleaned, stateFile, updates>>
     ELSE Gone(p)

LockExit(p) ==
  /\ place[p] = "exitwait" /\ FreeToWrite
  /\ Holds(p, "write") /\ Moves(p, "overlay")
  /\ UNCHANGED <<mem, armed, cleaned, stateFile, updates>>

\* transact_state loads the file, and _overlay replaces every field of it.
Overlay(p) ==
  /\ place[p] = "overlay" /\ stateFile' = mem[p]
  /\ Moves(p, "idle") /\ Holds(p, "none")
  /\ mem' = [mem EXCEPT ![p] = {}]
  /\ armed' = [armed EXCEPT ![p] = FALSE] /\ cleaned' = [cleaned EXCEPT ![p] = FALSE]
  /\ UNCHANGED updates

CommandStep(p) ==
  \/ BeginCommand(p) \/ LockWrite(p) \/ LockRead(p) \/ Status(p) \/ TimesOut(p) \/ KillCommand(p)
  \/ Load(p) \/ Work(p) \/ SaveState(p) \/ Shutdown(p) \/ EndCommand(p) \/ Exit(p)
  \/ LockExit(p) \/ Overlay(p)

FileNext == \E p \in Slots : CommandStep(p)
FileSpec == FileInit /\ [][FileNext]_fileVars

-----------------------------------------------------------------------------
(* Properties.                                                             *)

\* Whatever reviews, runs and status commands meet, an update in the state
\* file is lost only to the exit hook of a command that began a chapter.
LostOnlyAtExit ==
  [][~(stateFile \subseteq stateFile') => \E p \in Slots : place[p] = "overlay"]_fileVars

\* Whoever works on the state has in memory all that the file has, so that
\* its next save loses nothing of another command's.
WorksOnLatest == \A p \in Slots : place[p] = "work" => stateFile \subseteq mem[p]

\* No thread waits for the lock it holds: a signal that arrives under the
\* lock is cleaned up under that lock.
NoSelfWait ==
  \A p \in Slots : place[p] \in {"write", "exitwait"} => mode[p] = "none"

-----------------------------------------------------------------------------
(* What the code says of itself and does not do.                           *)

\* machine.py:46: the locked read-modify-write replaces the pattern that
\* lost cross-writer updates.
UpdatesKept == [][stateFile \subseteq stateFile']_fileVars
=============================================================================

----------------------------- MODULE TruthFile ------------------------------
(***************************************************************************)
(* Writers of the truth files and the locks of truth_io.py: a registry of  *)
(* thread locks in every process, bounded, whose entries are evicted when  *)
(* nobody refers to them, and under the thread lock the flock that keeps   *)
(* processes apart where there is one.  A call is one write: a keyed row   *)
(* that replaces (upsert) or yields to (insert) the row with its key, the  *)
(* first whole file of a shell (create), or a note that a helper appends   *)
(* under the flock alone (append).  A lock is named by the call that put   *)
(* it into the registry.                                                   *)
(***************************************************************************)
EXTENDS Naturals, FiniteSets, TruthTable

CONSTANTS
  Writes,     \* the writes ever made
  Programs,   \* the processes that make them
  Paths,      \* the files
  ProgramOf, PathOf,
  WriteKind,  \* "upsert", "insert", "create" or "append"
  Words,      \* what a cell may say
  CellsOf,    \* the cells of the row a call writes
  Bases,      \* what a file may contain before
  Before,     \* whoever wrote that
  Capacity,   \* _PATH_LOCKS_MAX
  NoLock

Authors == Writes \cup {Scaffold, Before}
Line    == [kind : {"text", "row", "sep", "fence"}, cells : Seq(Words), by : Authors]

\* What the bases are assumed to be: no table at all, the contract's table
\* first of all, or bare rows where it would begin.
NoTable(lines) == Pipes(lines) = {}
HeadedAt(lines, h) ==
  /\ h \in DOMAIN lines /\ h + 1 \in DOMAIN lines /\ lines[h] = Header /\ lines[h + 1].kind = "sep"
  /\ \A i \in Pipes(lines) : i >= h
Headed(lines) == \E h \in DOMAIN lines : HeadedAt(lines, h)
Bare(lines) ==
  /\ ~Contains(lines, Header)
  /\ \E i \in DOMAIN lines \cap {1, 2} : lines[i].kind = "row" /\ (i = 2 => lines[1] = Fence)
Table(lines) == lines \in Seq(Line) /\ (NoTable(lines) \/ Headed(lines) \/ Bare(lines))

ASSUME TruthFileAssumption ==
  /\ {NoLock, Scaffold, Before} \cap Writes = {} /\ Scaffold # Before /\ Capacity \in Nat \ {0}
  /\ ProgramOf \in [Writes -> Programs] /\ PathOf \in [Writes -> Paths]
  /\ WriteKind \in [Writes -> {"upsert", "insert", "create", "append"}]
  /\ {"", "A", "B", "now", "---"} \subseteq Words
  /\ \A c \in Writes : CellsOf[c] \in Seq(Words) /\ Len(CellsOf[c]) = Width
  /\ \A q \in Paths : \A b \in Bases[q] :
       Table(b) /\ \A i \in DOMAIN b : b[i].by \in {Scaffold, Before}

\* What TableSound asks of the bases besides: the table reaches from its header
\* at h to m, with the rows of its width and one for a key; what follows tells
\* where it ends; no other table has a row with the key of a call.
InTable(line) == line.kind = "row" /\ line.by # Scaffold /\ Len(line.cells) = Width
Keyed(lines)  == {i \in DOMAIN lines : InTable(lines[i]) /\ ~NoKey(lines[i], <<1, 2>>)}
Ends(lines, j) ==
  \/ j \notin Pipes(lines)
  \/ /\ lines[j].kind = "row" /\ Len(lines[j].cells) # Width
     /\ j + 1 \in Pipes(lines) /\ Len(lines[j + 1].cells) = Len(lines[j].cells)
Orderly(lines, h, m) ==
  /\ HeadedAt(lines, h) /\ lines[h + 1] = Sep(Width)
  /\ m \in (h + 1)..Len(lines) /\ \A i \in (h + 2)..m : InTable(lines[i])
  /\ m < Len(lines) => Ends(lines, m + 1)
  /\ \A i \in (m + 1)..Len(lines) :
       lines[i].kind = "sep" => \E j \in (m + 1)..(i - 1) : lines[j].kind = "row"
  /\ Keyed(lines) \subseteq (h + 2)..m
  /\ \A i, j \in Keyed(lines) : HasKey(lines[i], lines[j], <<1, 2>>) => i = j
  /\ \A i \in DOMAIN lines, c \in Writes :
       HasKey(lines[i], Row(CellsOf[c], c), <<1, 2>>) => i \in {h} \cup (h + 2)..m
Neat(lines) ==
  \/ NoTable(lines)
  \/ \E h, m \in DOMAIN lines : Orderly(lines, h, m)
  \/ Bare(lines) /\ LET headed == EnsureTableHeader(lines)
                    IN  \E h, m \in DOMAIN headed : Orderly(headed, h, m)
ASSUME NeatAssumption == \A q \in Paths : \A b \in Bases[q] : Neat(b)

VARIABLES
  posix,     \* flock is there
  stage,     \* where each call is
  registry,  \* _PATH_LOCKS of each process: the lock of a path, who refers to it
  lockOf,    \* the thread lock a call has looked up
  basis,     \* what it read
  files      \* truth/*.md
truthVars == <<posix, stage, registry, lockOf, basis, files>>

Inside   == {"flock", "read", "write", "leave"}    \* within the thread lock
Finished == {"done", "failed", "dead"}
Stages   == {"idle", "register", "thread"} \cup Inside \cup {"close", "unregister"} \cup Finished

Entry   == [lock : Writes \cup {NoLock}, refs : Nat]
NoEntry == [lock |-> NoLock, refs |-> 0]

TruthTypeOK ==
  /\ posix \in BOOLEAN /\ stage \in [Writes -> Stages]
  /\ registry \in [Programs -> [Paths -> Entry]]
  /\ lockOf \in [Writes -> Writes \cup {NoLock}]
  /\ \A q \in Paths : files[q] \in Seq(Line)

TruthInit ==
  /\ posix \in BOOLEAN
  /\ files \in {f \in [Paths -> UNION {Bases[q] : q \in Paths}] : \A q \in Paths : f[q] \in Bases[q]}
  /\ stage = [c \in Writes |-> "idle"] /\ lockOf = [c \in Writes |-> NoLock]
  /\ registry = [p \in Programs |-> [q \in Paths |-> NoEntry]]
  /\ basis = [c \in Writes |-> <<>>]

Reaches(c, to) == stage' = [stage EXCEPT ![c] = to]
Helper(c)      == WriteKind[c] = "append"
MyEntry(c)     == registry[ProgramOf[c]][PathOf[c]]
NewRow(c)      == Row(CellsOf[c], c)

-----------------------------------------------------------------------------
(* Taking the locks.                                                       *)

\* A whole file is judged before any lock is taken: only a shell may be
\* replaced.  A helper has no registry.
BeginWrite(c) ==
  /\ stage[c] = "idle"
  /\ Reaches(c, IF WriteKind[c] = "create" /\ ~BaseIsShell(files[PathOf[c]]) THEN "failed"
                ELSE IF Helper(c) THEN "flock" ELSE "register")
  /\ UNCHANGED <<posix, registry, lockOf, basis, files>>

Locked(l) == \E d \in Writes : stage[d] \in Inside /\ ~Helper(d) /\ lockOf[d] = l

EvictableFaulty(entries) ==                 \* the locked() snapshot alone
  {q \in Paths : entries[q].lock # NoLock /\ ~Locked(entries[q].lock)}
Evictable(entries) ==
  {q \in Paths : entries[q].lock # NoLock /\ entries[q].refs = 0 /\ ~Locked(entries[q].lock)}

\* _path_lock, under _REGISTRY_LOCK: the path's lock, or a new one, for which
\* entries are evicted until there is room or none is left to evict.
Register(c) ==
  /\ stage[c] = "register" /\ Reaches(c, "thread")
  /\ LET p == ProgramOf[c] IN
     LET entries == registry[p]
         size    == Cardinality({q \in Paths : entries[q].lock # NoLock})
         excess  == IF size < Capacity THEN 0 ELSE size - Capacity + 1
     IN  IF MyEntry(c).lock # NoLock
         THEN /\ registry' = [registry EXCEPT ![p][PathOf[c]].refs = @ + 1]
              /\ lockOf' = [lockOf EXCEPT ![c] = MyEntry(c).lock]
         ELSE \E gone \in SUBSET Evictable(entries) :
                /\ Cardinality(gone) <= excess
                /\ Cardinality(gone) < excess => gone = Evictable(entries)
                /\ registry' = [registry EXCEPT ![p] =
                     [q \in Paths |-> IF q = PathOf[c] THEN [lock |-> c, refs |-> 1]
                                      ELSE IF q \in gone THEN NoEntry ELSE @[q]]]
                /\ lockOf' = [lockOf EXCEPT ![c] = c]
  /\ UNCHANGED <<posix, basis, files>>

TakeThread(c) ==
  /\ stage[c] = "thread" /\ ~Locked(lockOf[c]) /\ Reaches(c, "flock")
  /\ UNCHANGED <<posix, registry, lockOf, basis, files>>

\* Held until the descriptor is closed; without flock there is no waiting.
HasFlockFaulty(d) ==                        \* the file is read first
  posix /\ stage[d] \in {"write", "leave", "close"}
HasFlock(d) == posix /\ stage[d] \in {"read", "write", "leave", "close"}
TakeFlock(c) ==
  /\ stage[c] = "flock" /\ Reaches(c, "read")
  /\ \A d \in Writes : PathOf[d] = PathOf[c] => ~HasFlock(d)
  /\ UNCHANGED <<posix, registry, lockOf, basis, files>>

-----------------------------------------------------------------------------
(* Under the locks, and out of them.                                       *)

ReadFile(c) ==
  /\ stage[c] = "read" /\ Reaches(c, "write")
  /\ basis' = [basis EXCEPT ![c] = files[PathOf[c]]]
  /\ UNCHANGED <<posix, registry, lockOf, files>>

\* write_truth_file
Content(c) ==
  LET base == EnsureTableHeader(basis[c])
  IN  CASE WriteKind[c] = "upsert" -> UpsertRow(base, NewRow(c))
        [] WriteKind[c] = "insert" -> IF HasRow(base, NewRow(c)) THEN files[PathOf[c]]
                                   ELSE UpsertRow(base, NewRow(c))
        [] WriteKind[c] = "create" -> <<Fence, Header, Sep(Width), NewRow(c)>>
        [] WriteKind[c] = "append" -> basis[c] \o <<Text(c)>>

\* Replaced as a whole, or an error and the file as it was.
WriteFile(c) ==
  /\ stage[c] = "write" /\ Reaches(c, "leave")
  /\ files' \in {files, [files EXCEPT ![PathOf[c]] = Content(c)]}
  /\ basis' = [basis EXCEPT ![c] = <<>>]
  /\ UNCHANGED <<posix, registry, lockOf>>

\* The thread lock is let go before the descriptor is closed.
LeaveThread(c) ==
  /\ stage[c] = "leave" /\ Reaches(c, "close")
  /\ UNCHANGED <<posix, registry, lockOf, basis, files>>
Close(c) ==
  /\ stage[c] = "close" /\ Reaches(c, IF Helper(c) THEN "done" ELSE "unregister")
  /\ UNCHANGED <<posix, registry, lockOf, basis, files>>

Unregister(c) ==
  /\ stage[c] = "unregister" /\ Reaches(c, "done")
  /\ registry' = IF MyEntry(c).lock = NoLock \/ MyEntry(c).refs = 0 THEN registry
                 ELSE [registry EXCEPT ![ProgramOf[c]][PathOf[c]].refs = @ - 1]
  /\ lockOf' = [lockOf EXCEPT ![c] = NoLock]
  /\ UNCHANGED <<posix, basis, files>>

\* A process dies, and with it its registry, its locks and descriptors.
KillProgram(p) ==
  /\ stage' = [c \in Writes |-> IF ProgramOf[c] = p /\ stage[c] \notin Finished THEN "dead" ELSE stage[c]]
  /\ registry' = [registry EXCEPT ![p] = [q \in Paths |-> NoEntry]]
  /\ lockOf' = [c \in Writes |-> IF ProgramOf[c] = p THEN NoLock ELSE lockOf[c]]
  /\ basis' = [c \in Writes |-> IF ProgramOf[c] = p THEN <<>> ELSE basis[c]]
  /\ UNCHANGED <<posix, files>>

WriteStep(c) ==
  \/ BeginWrite(c) \/ Register(c) \/ TakeThread(c) \/ TakeFlock(c) \/ ReadFile(c)
  \/ WriteFile(c) \/ LeaveThread(c) \/ Close(c) \/ Unregister(c)
TruthNext == (\E c \in Writes : WriteStep(c)) \/ (\E p \in Programs : KillProgram(p))
TruthSpec == TruthInit /\ [][TruthNext]_truthVars

-----------------------------------------------------------------------------
(* Properties.                                                             *)

\* Without flock only the threads of one process exclude one another, and
\* they no helper.
OneDomain(c, d) == posix \/ (ProgramOf[c] = ProgramOf[d] /\ ~Helper(c) /\ ~Helper(d))
Guarded(c) ==
  \A d \in Writes : PathOf[d] = PathOf[c] /\ stage[d] # "idle" => OneDomain(c, d)

\* No call writes what it made of a file that has changed since: of two calls
\* for one path the lock of the one is the lock of the other, whichever
\* entries were evicted before, and a helper is kept out by the flock.
NothingStale ==
  \A c \in Writes : stage[c] = "write" /\ Guarded(c) => basis[c] = files[PathOf[c]]

\* The data of a file but a call's own row and those of its key.
Others(lines, c) ==
  Picked(lines, {i \in DOMAIN lines : /\ lines[i].by \notin {Scaffold, c}
                                      /\ ~HasKey(lines[i], NewRow(c), <<1, 2>>)})
Kept(c, old, new) ==
  IF Helper(c) THEN IsPrefix(old, new) ELSE Others(old, c) = Others(new, c)

\* A keyed write changes the row of its key and nothing else: no row and no
\* note another call has written meanwhile is lost, moved or written again,
\* whatever locks were evicted in between.
OnlyItsRow ==
  [][\A c \in Writes :
       stage[c] = "write" /\ stage'[c] = "leave" /\ WriteKind[c] # "create" /\ Guarded(c)
         => Kept(c, files[PathOf[c]], files'[PathOf[c]])]_truthVars

\* A row that yields never replaces one with its key.
InsertYields ==
  [][\A c \in Writes :
       /\ stage[c] = "write" /\ stage'[c] = "leave" /\ WriteKind[c] = "insert" /\ Guarded(c)
       /\ \E i \in DOMAIN files[PathOf[c]] : HasKey(files[PathOf[c]][i], NewRow(c), <<1, 2>>)
       => UNCHANGED files]_truthVars

\* A table with its header has one row for a key, and every row that has one
\* stands below the header and the separator with rows of its width alone in
\* between: none is left behind the prose or the table that follows.
TableSound ==
  \A q \in Paths : LET lines == files[q] IN
    Contains(lines, Header) =>
      LET head == First({i \in DOMAIN lines : lines[i] = Header})
      IN  /\ \A i \in Keyed(lines) :
               /\ i > head + 1 /\ lines[head + 1] = Sep(Width)
               /\ \A j \in (head + 2)..i : InTable(lines[j])
          /\ \A i, j \in Keyed(lines) :
               HasKey(lines[i], lines[j], <<1, 2>>) => i = j

-----------------------------------------------------------------------------
(* The keyed store that the files are.                                     *)

ItemFor(row) == [key |-> <<row.cells[1], row.cells[2]>>, row |-> row]
Items(lines) == {ItemFor(lines[i]) : i \in Keyed(lines)}

Progress(at) ==
  CASE at = "idle" -> "idle"
    [] at \in {"register", "thread", "flock", "read"} -> "open"
    [] at = "write" -> "looked"
    [] OTHER -> "over"
StatusOf == [c \in Writes |-> Progress(stage[c])]
SeenOf   == [c \in Writes |-> IF stage[c] = "write" THEN Items(basis[c]) ELSE {}]
TableOf  == [q \in Paths |-> Items(files[q])]

Store == INSTANCE KeyedStore WITH
  Calls <- Writes, Owners <- Programs, Files <- Paths, OwnerOf <- ProgramOf, FileOf <- PathOf,
  Kind <- WriteKind, ItemOf <- [c \in Writes |-> ItemFor(NewRow(c))],
  Blank <- <<"", "">>, Heading <- KeyNames,
  joined <- posix, status <- StatusOf, seen <- SeenOf, table <- TableOf

\* Every write takes effect in one step, on the table of that moment, for all
\* that it reads and writes the file in two, finds its row among the lines by
\* its key, and uses locks that may be evicted: a write under way is kept from
\* no other's entry but by a call that the locks do not reach.
AtomicStore == Store!StoreSpec

-----------------------------------------------------------------------------
(* What the code says of itself and does not do.                           *)

\* dispatch_helper.py:2652-2656: whether the base is a shell is checked again
\* under the path lock, so that a first writer is not overwritten.
CreationYields ==
  [][\A c \in Writes :
       stage[c] = "write" /\ WriteKind[c] = "create" /\ posix /\ files' # files
         => BaseIsShell(files[PathOf[c]])]_truthVars
=============================================================================

----------------------------- MODULE KeyedStore ------------------------------
(***************************************************************************)
(* What the truth files promise their writers: each is a table with one    *)
(* row for a key, and a write takes effect on it in one step, on the table *)
(* as it is at that moment.  Where somebody uses the file whom a write     *)
(* does not exclude, it takes effect on the table it has looked at.        *)
(* TruthFile.tla implements it (there: AtomicStore).                       *)
(***************************************************************************)
CONSTANTS
  Calls, Owners, Files,
  OwnerOf, FileOf,
  Kind,      \* "upsert", "insert", "create" or "append"
  ItemOf,   \* what a call writes: its key and its row
  Blank,     \* the key of a row that has none
  Heading    \* the key that the header would have

VARIABLES
  joined,    \* the owners exclude one another
  status,    \* "idle", "open", "looked" or "over"
  seen,      \* the table a call has looked at
  table      \* the items of a file
storeVars == <<joined, status, seen, table>>

OnePerKey(t) == \A e, f \in t : e.key = f.key => e = f

StoreInit ==
  /\ joined \in BOOLEAN
  /\ status = [c \in Calls |-> "idle"] /\ seen = [c \in Calls |-> {}]
  /\ \A f \in Files : OnePerKey(table[f])

\* Between owners that are not joined nobody is excluded, and no note then.
Excludes(c, d) == joined \/ (OwnerOf[c] = OwnerOf[d] /\ "append" \notin {Kind[c], Kind[d]})
Undisturbed(c) ==
  \A d \in Calls : FileOf[d] = FileOf[c] /\ status[d] # "idle" => Excludes(c, d)

Moves(c, to) == status' = [status EXCEPT ![c] = to]
Present(c, t) == ItemOf[c].key = Heading \/ \E e \in t : e.key = ItemOf[c].key

\* A table after a write: its item takes the place of the one with its key,
\* or yields to it; a first file has nothing else in it; a note adds nothing.
Written(c, t) ==
  CASE Kind[c] = "append" -> t
    [] Kind[c] = "create" -> IF ItemOf[c].key = Blank THEN {} ELSE {ItemOf[c]}
    [] Kind[c] \in {"upsert", "insert"} ->
         IF ItemOf[c].key \in {Blank, Heading} THEN t
         ELSE {e \in t : e.key # ItemOf[c].key} \cup {ItemOf[c]}

-----------------------------------------------------------------------------

\* A first file is for a table without items.
Begin(c) ==
  /\ status[c] = "idle" /\ Moves(c, "open")
  /\ Kind[c] = "create" => table[FileOf[c]] = {}
  /\ UNCHANGED <<joined, seen, table>>
Refuse(c) ==
  /\ status[c] = "idle" /\ Kind[c] = "create" /\ Moves(c, "over")
  /\ UNCHANGED <<joined, seen, table>>

Look(c) ==
  /\ status[c] = "open" /\ Moves(c, "looked")
  /\ seen' = [seen EXCEPT ![c] = table[FileOf[c]]]
  /\ UNCHANGED <<joined, table>>

\* Or an error, and the table is as it was.
Take(c) ==
  /\ status[c] = "looked" /\ Moves(c, "over")
  /\ LET t == IF Undisturbed(c) THEN table[FileOf[c]] ELSE seen[c] IN
     \/ table' = table
     \/ ~(Kind[c] = "insert" /\ Present(c, t)) /\ table' = [table EXCEPT ![FileOf[c]] = Written(c, t)]
  /\ seen' = [seen EXCEPT ![c] = {}]
  /\ UNCHANGED joined

Die(o) ==
  /\ status' = [c \in Calls |-> IF OwnerOf[c] = o THEN "over" ELSE status[c]]
  /\ seen' = [c \in Calls |-> IF OwnerOf[c] = o THEN {} ELSE seen[c]]
  /\ UNCHANGED <<joined, table>>

StoreNext ==
  \/ \E c \in Calls : Begin(c) \/ Refuse(c) \/ Look(c) \/ Take(c)
  \/ \E o \in Owners : Die(o)
StoreSpec == StoreInit /\ [][StoreNext]_storeVars
=============================================================================

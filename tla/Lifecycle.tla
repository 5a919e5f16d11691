----------------------------- MODULE Lifecycle ------------------------------
(***************************************************************************)
(* What the pipeline promises the author, seen through the state file: the *)
(* book is written bundle by bundle in order, closed after its last        *)
(* chapter, and whatever is put to a human stays put until it is answered. *)
(* Pipeline.tla implements it (there: KeepsPromise).                       *)
(***************************************************************************)
EXTENDS Book

VARIABLES
  phase,    \* a member of Phases
  chapter,  \* the chapter being written
  pending   \* the question before the human, or NoCheckpoint
vars == <<phase, chapter, pending>>

Init == phase = "chapter-loop" /\ chapter = 1 /\ pending = NoCheckpoint

\* An escalation asks for nothing that a later question would not stop for.
Open == pending.type \in {"none", "escalation"}

\* The questions the pipeline may ask; that about a whole chapter is asked as
\* the chapter completes.
Alarm     == {At("escalation", c) : c \in 0..Horizon}
Product   == {At(t, c) : t \in {"chapter-memo", "state-settle"}, c \in 1..chapter}
Boundary  == IF phase = "chapter-loop" /\ chapter - 1 \in VolumeEnds
             THEN {At("volume-boundary", chapter - 1)} ELSE {}
Closed    == {At("book-closure", 0)}
Questions == Alarm \cup Product \cup Boundary
             \cup (IF phase = "closure" THEN Closed ELSE {})

Ask == Open /\ pending' \in Questions /\ UNCHANGED <<phase, chapter>>

\* Only a rejected closure has a consequence of its own, it reopens the book.
Answer ==
  /\ pending # NoCheckpoint /\ pending' = NoCheckpoint
  /\ phase' \in IF pending \in Closed THEN {phase, "chapter-loop"} ELSE {phase}
  /\ UNCHANGED chapter

FinishChapter ==
  /\ phase = "chapter-loop" /\ Open
  /\ chapter' = NextLeader(chapter)
  /\ pending' \in {pending, At("per-chapter", chapter)}
  /\ UNCHANGED phase

\* The first question of closure may come with the phase.
Close ==
  /\ phase = "chapter-loop" /\ chapter > TotalChapters
  /\ phase' = "closure"
  /\ \/ UNCHANGED pending
     \/ Open /\ pending' \in Alarm \cup Product \cup Closed
  /\ UNCHANGED chapter

Complete ==
  /\ phase = "closure" /\ pending = NoCheckpoint
  /\ phase' = "completed"
  /\ UNCHANGED <<chapter, pending>>

\* An approval of the last volume's end that no resume had acted on.
Reopen == phase = "completed" /\ phase' = "closure" /\ UNCHANGED <<chapter, pending>>

Next == Ask \/ Answer \/ FinishChapter \/ Close \/ Complete \/ Reopen
Spec == Init /\ [][Next]_vars
=============================================================================

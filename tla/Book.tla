-------------------------------- MODULE Book --------------------------------
(***************************************************************************)
(* The book being written: its chapters and volumes, and the values that   *)
(* the pipeline's state file and project directory range over.  Everything *)
(* here is constant; Pipeline.tla gives it behaviour.                      *)
(***************************************************************************)
EXTENDS Naturals, Sequences

CONSTANTS
  TotalChapters,  \* novel.json total_chapters, the last volume's end
  VolumeEnds,     \* last chapters of the volumes of outline/volume_map.md
  Horizon         \* bound: the cursor is followed up to this chapter

ASSUME BookAssumption ==
  /\ TotalChapters \in Nat \ {0}
  /\ Horizon \in Nat /\ Horizon > TotalChapters
  /\ VolumeEnds \subseteq 1..TotalChapters
  /\ TotalChapters \in VolumeEnds

Chapters == 1..Horizon

\* Two chapters share one planning and one drafting dispatch unless the
\* second would cross the volume's end; past the map a chapter stands alone.
HasFollower(c) == c < TotalChapters /\ c \notin VolumeEnds
Bundle(c)      == IF HasFollower(c) THEN {c, c + 1} ELSE {c}
NextLeader(c)  == IF HasFollower(c) THEN c + 2 ELSE c + 1

-----------------------------------------------------------------------------

Phases == {"chapter-loop", "closure", "completed"}

\* What a pending checkpoint is about.  Chapter 0 is a checkpoint raised
\* without a chapter.
CheckpointTypes ==
  {"none", "chapter-memo", "state-settle", "per-chapter", "escalation",
   "volume-boundary", "book-closure"}
Checkpoint   == [type : CheckpointTypes, chapter : 0..Horizon]
At(type, c)  == [type |-> type, chapter |-> c]
NoCheckpoint == At("none", 0)

\* The skills a re-dispatch queue entry names.  "derived" stands for the
\* re-sync skills (pacing-design, relationship-map, foreshadowing-resolve):
\* the queue treats them alike, they read no draft and stage nothing.
QueueSkills    == {"planning", "settle", "revision", "derived"}
DraftReaders   == {"settle", "revision"}
Entry          == [skill : QueueSkills, chapter : 0..Horizon, attempts : Nat]
NewEntry(s, c) == [skill |-> s, chapter |-> c, attempts |-> 0]

\* A chapter's settlement relative to its draft: never settled, settled from
\* an earlier draft, settled from the current one.
Freshness == {"none", "stale", "fresh"}
NoTruth   == [c \in Chapters |-> "none"]
=============================================================================

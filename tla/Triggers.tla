------------------------------ MODULE Triggers ------------------------------
(***************************************************************************)
(* The fan-out of triggered skills at the top of a chapter: which of them  *)
(* the chapter before calls for, the order in which they run, what is      *)
(* remembered of it when one fails, the genre configuration that one of    *)
(* them may rewrite, and the question to the human at a volume's end.      *)
(* What happens inside a chapter is Pipeline's subject: here it is one     *)
(* step from the top of a bundle's leader to the top of the next leader.   *)
(***************************************************************************)
EXTENDS Book

CONSTANTS
  StyleInterval,    \* STYLE_INTERVAL
  StratumInterval,  \* STRATUM_INTERVAL
  ProfileFloor,     \* chapters after which a style profile must be learned
  MaxFailures,      \* bound: failing skills
  MaxKills          \* bound: processes killed

ASSUME TriggersAssumption ==
  /\ StyleInterval \in Nat \ {0} /\ StratumInterval \in Nat \ {0}
  /\ ProfileFloor \in Nat /\ MaxFailures \in Nat /\ MaxKills \in Nat

-----------------------------------------------------------------------------
(* The table of triggered skills, in the order in which they run.  Rows    *)
(* that stand together, with one category and a skill no other row has,    *)
(* are one: foreshadowing-resolve, volume-consolidation and                *)
(* review-arc-payoff; drift-guidance and the five that expand the book.    *)

Row(skill, category) == [skill |-> skill, category |-> category]
TriggerSteps ==
  << Row("memory-distill", "l2_distill"),      Row("score-arc", "score_arc"),
     Row("memory-distill", "l4_distill"),      Row("score-stratum", "score_stratum"),
     Row("style-learning", "style_learning"),  Row("consolidation", "volume_boundary"),
     Row("score-volume", "score_volume"),      Row("memory-distill", "volume_boundary"),
     Row("style-learning", "volume_boundary"), Row("expansion", "volume_boundary"),
     Row("genre-config", "genre_config_update") >>

Rows       == DOMAIN TriggerSteps
Skills     == {TriggerSteps[i].skill : i \in Rows}
Categories == {TriggerSteps[i].category : i \in Rows}
RowOf(category) == CHOOSE i \in Rows : TriggerSteps[i].category = category
ConfigRow  == RowOf("genre_config_update")
Finished   == Len(TriggerSteps) + 1

\* check_triggers, with what it reads of the project: whether the profile is
\* stale and whether the same drift was reported often enough.
CheckTriggers(n, stale, drifting) ==
     (IF n % StyleInterval = 0
      THEN {"l2_distill", "score_arc", "style_learning"} ELSE {})
  \cup (IF n % StratumInterval = 0 THEN {"l4_distill", "score_stratum"} ELSE {})
  \cup (IF n \in VolumeEnds
        THEN {"volume_boundary", "score_volume", "style_learning"} ELSE {})
  \cup (IF drifting THEN {"genre_config_update"} ELSE {})
  \cup (IF stale THEN {"style_learning"} ELSE {})

\* get_trigger_steps: a volume's end has a row of its own for the style.
GetTriggerSteps(flags) ==
  LET active == IF "volume_boundary" \in flags THEN flags \ {"style_learning"} ELSE flags
  IN  {i \in Rows : TriggerSteps[i].category \in active}

-----------------------------------------------------------------------------

VARIABLES
  st,         \* PipelineState as the running process holds it
  disk,       \* pipeline-state.json
  project,    \* what the skills leave in the project directory
  run,        \* the process and its fan-out
  rows,       \* how often each row has passed for the chapter at hand
  distilled,  \* chapters whose arc was distilled
  answered,   \* volume ends whose question was answered
  refused,    \* the volume end that was rejected and not yet redone, or 0
  failures, kills
ghosts == <<rows, distilled, answered, refused, failures, kills>>
vars   == <<st, disk, project, run, ghosts>>

Key   == Chapters \X Skills
State ==
  [phase   : {"chapter-loop", "closure"},
   current : Chapters,
   step    : {0, 1},              \* at the top, or past it
   cp      : Checkpoint,
   closing : BOOLEAN,             \* an unconsumed approval of the last volume
   done    : SUBSET Key,          \* trigger_steps_done
   words   : SUBSET Key,          \* retry_feedback of triggered skills
   failure : Key \cup {<<>>}]     \* last_trigger_failure
Project == [profile : {"seed", "learned"}, config : {"governed", "raw"}]
Process ==
  [pc     : {"idle", "top", "fan", "landed", "chapter", "save"},
   active : SUBSET Rows,          \* the rows of this fan-out
   row    : 1..Finished,          \* where it stands
   before : {"governed", "raw"}]  \* the configuration a dispatch found
Idle == [pc |-> "idle", active |-> {}, row |-> 1, before |-> "governed"]
None == [i \in Rows |-> 0]

TypeOK ==
  /\ st \in State /\ disk \in State /\ project \in Project /\ run \in Process
  /\ rows \in [Rows -> 0..(MaxKills + 1)] /\ distilled \subseteq Chapters
  /\ answered \subseteq VolumeEnds /\ refused \in VolumeEnds \cup {0}
  /\ failures \in 0..MaxFailures /\ kills \in 0..MaxKills

Start == [phase |-> "chapter-loop", current |-> 1, step |-> 0, cp |-> NoCheckpoint,
          closing |-> FALSE, done |-> {}, words |-> {}, failure |-> <<>>]
Init ==
  /\ st = Start /\ disk = Start /\ project = [profile |-> "seed", config |-> "governed"]
  /\ run = Idle /\ rows = None /\ distilled = {} /\ answered = {} /\ refused = 0
  /\ failures = 0 /\ kills = 0

-----------------------------------------------------------------------------
(* The commands.                                                           *)

CmdNext ==
  /\ run.pc = "idle" /\ st.cp = NoCheckpoint /\ st.phase = "chapter-loop"
  /\ run' = [run EXCEPT !.pc = "top"] /\ UNCHANGED <<st, disk, project, ghosts>>

\* resume acts on the approval of the last volume, which closes the book.
CmdResume ==
  /\ run.pc = "idle" /\ st.cp = NoCheckpoint /\ st.phase = "chapter-loop" /\ st.closing
  /\ st' = [st EXCEPT !.closing = FALSE, !.phase = "closure"] /\ disk' = st'
  /\ UNCHANGED <<project, run, ghosts>>

Stop(s) == st' = s /\ disk' = s /\ run' = Idle

-----------------------------------------------------------------------------
(* The top of a chapter.                                                   *)

AtTop == run.pc = "top" /\ st.step = 0
Prev  == st.current - 1
Stale == Prev >= ProfileFloor /\ project.profile = "seed"
Called(drifting) ==
  IF Prev = 0 THEN {} ELSE GetTriggerSteps(CheckTriggers(Prev, Stale, drifting))

\* The flags are computed afresh at every entry.
FanOut ==
  /\ AtTop
  /\ \E drifting \in BOOLEAN :
       /\ Called(drifting) # {}
       /\ run' = [run EXCEPT !.pc = "fan", !.active = Called(drifting), !.row = 1]
  /\ refused' = IF refused = Prev THEN 0 ELSE refused
  /\ UNCHANGED <<st, disk, project, rows, distilled, answered, failures, kills>>

\* A book that is written is closed; otherwise the chapter begins.
GoesOn(s) ==
  IF Prev >= TotalChapters THEN Stop([s EXCEPT !.phase = "closure"])
  ELSE st' = s /\ run' = [run EXCEPT !.pc = "chapter"] /\ UNCHANGED disk
NothingFires == AtTop /\ Called(FALSE) = {} /\ GoesOn(st) /\ UNCHANGED <<project, ghosts>>

Skill(i) == <<Prev, TriggerSteps[i].skill>>

DueFaulty(i) == i \in run.active             \* forgets what has passed
\* A row that passed in this fan-out is skipped, unless the reviewer has
\* said something about its skill.
Due(i) == i \in run.active /\ (Skill(i) \in st.done => Skill(i) \in st.words)
NextDue(i) == i \in run.row..Len(TriggerSteps) /\ Due(i) /\ \A j \in run.row..(i - 1) : ~Due(j)

\* What the skill wrote is there; its gates have not run.
Dispatched(i) ==
  /\ run.pc = "fan" /\ NextDue(i)
  /\ run' = [run EXCEPT !.pc = "landed", !.row = i, !.before = project.config]
  /\ project' = IF i = ConfigRow THEN [project EXCEPT !.config = "raw"] ELSE project
  /\ UNCHANGED <<st, disk, ghosts>>

\* Whatever fails, a rewritten configuration is put back, the failure is
\* noted for the reviewer, and the command stops.
RolledBack == [project EXCEPT !.config = IF run.row = ConfigRow THEN run.before ELSE @]
Fails(i) ==
  /\ failures < MaxFailures /\ failures' = failures + 1
  /\ Stop([st EXCEPT !.failure = Skill(i), !.cp = At("escalation", Prev)])
  /\ UNCHANGED <<rows, distilled, answered, refused, kills>>
DispatchFails(i) == run.pc = "fan" /\ NextDue(i) /\ Fails(i) /\ UNCHANGED project
GateFailsFaulty  == run.pc = "landed" /\ Fails(run.row) /\ UNCHANGED project
GateFails        == run.pc = "landed" /\ Fails(run.row) /\ project' = RolledBack

\* G4, the governance of a configuration, G3 of a score: all pass.  A change
\* is governed against the file the dispatch found.
RowPasses ==
  /\ run.pc = "landed"
  /\ st' = [st EXCEPT !.done = @ \cup {Skill(run.row)}, !.words = @ \ {Skill(run.row)}]
  /\ \E profile \in {project.profile, IF TriggerSteps[run.row].skill = "style-learning"
                                      THEN "learned" ELSE project.profile} :
       project' = [profile |-> profile,
                   config |-> IF run.row = ConfigRow THEN run.before ELSE project.config]
  /\ run' = [run EXCEPT !.pc = "fan", !.row = @ + 1]
  /\ rows' = [rows EXCEPT ![run.row] = @ + 1]
  /\ distilled' = IF run.row = RowOf("l2_distill") THEN distilled \cup {Prev} ELSE distilled
  /\ UNCHANGED <<disk, answered, refused, failures, kills>>

\* The memory of this chapter's rows is dropped; a volume's end is put to the
\* human, with the cursor past the top so that it does not fire again.
Forgotten == [st EXCEPT !.done = {k \in @ : k[1] # Prev}]
AllRan    == run.pc = "fan" /\ \A i \in run.row..Len(TriggerSteps) : ~Due(i)
FanOutEndsFaulty ==                          \* a volume's end is like any other
  /\ AllRan /\ GoesOn(Forgotten) /\ UNCHANGED <<project, ghosts>>
FanOutEnds ==
  /\ AllRan /\ UNCHANGED <<project, ghosts>>
  /\ IF Prev \in VolumeEnds
     THEN Stop([Forgotten EXCEPT !.cp = At("volume-boundary", Prev), !.step = 1])
     ELSE GoesOn(Forgotten)

\* The first step of the chapter, and the others up to the next leader.
Begins ==
  /\ run.pc = "chapter" /\ st' = [st EXCEPT !.step = 1] /\ run' = [Idle EXCEPT !.pc = "save"]
  /\ UNCHANGED <<disk, project, ghosts>>
Completes ==
  /\ run.pc = "top" /\ st.step = 1 /\ NextLeader(st.current) \in Chapters
  /\ st' = [st EXCEPT !.step = 0, !.current = NextLeader(@)]
  /\ run' = [Idle EXCEPT !.pc = "save"] /\ rows' = None
  /\ UNCHANGED <<disk, project, distilled, answered, refused, failures, kills>>
Save ==
  /\ run.pc = "save" /\ disk' = st /\ run' = [run EXCEPT !.pc = "top"]
  /\ UNCHANGED <<st, project, ghosts>>

Kill ==
  /\ run.pc # "idle" /\ kills < MaxKills /\ kills' = kills + 1
  /\ st' = disk /\ run' = Idle
  /\ UNCHANGED <<disk, project, rows, distilled, answered, refused, failures>>

-----------------------------------------------------------------------------
(* The reviewer.                                                           *)

Decides(type, s) ==
  /\ run.pc = "idle" /\ st.cp.type = type
  /\ st' = [s EXCEPT !.cp = NoCheckpoint] /\ disk' = st'
  /\ UNCHANGED <<project, run, rows, distilled, failures, kills>>

\* Words about an escalation go to the skill that failed for its chapter.
Resolve ==
  /\ \E words \in {{}, {st.failure}} :
       /\ words # {} => st.failure # <<>> /\ st.failure[1] = st.cp.chapter
       /\ Decides("escalation", [st EXCEPT !.words = @ \cup words])
  /\ UNCHANGED <<answered, refused>>

Answered == answered' = answered \cup {st.cp.chapter}
ApproveVolume ==
  /\ Decides("volume-boundary", [st EXCEPT !.closing = @ \/ st.cp.chapter >= TotalChapters])
  /\ Answered /\ UNCHANGED refused
ModifyVolume == Decides("volume-boundary", st) /\ Answered /\ UNCHANGED refused

\* The rewind to the top belongs to the chapter that the checkpoint is about.
RejectVolume ==
  /\ Decides("volume-boundary",
             IF st.cp.chapter # st.current THEN st ELSE [st EXCEPT !.step = 0])
  /\ Answered /\ refused' = st.cp.chapter

-----------------------------------------------------------------------------
Review == Resolve \/ ApproveVolume \/ ModifyVolume \/ RejectVolume
Step ==
  \/ FanOut \/ NothingFires \/ GateFails \/ RowPasses \/ FanOutEnds
  \/ \E i \in Rows : Dispatched(i) \/ DispatchFails(i)
  \/ Begins \/ Completes \/ Save
Next == CmdNext \/ CmdResume \/ Step \/ Kill \/ Review
Spec == Init /\ [][Next]_vars

-----------------------------------------------------------------------------
(* Properties.                                                             *)

\* A triggered skill that has passed is not paid for again, through failures
\* and re-entries of the fan-out; only a kill loses what was not yet saved.
RunsOnce == \A i \in Rows : rows[i] <= 1 + kills

\* A rewritten configuration that no governance has passed stays only if the
\* process was killed over it.
ConfigGoverned ==
  kills = 0 /\ project.config = "raw" => run.pc = "landed" /\ run.row = ConfigRow

\* The cursor leaves a volume's end only when the human has answered for it,
\* whatever failed in its fan-out and wherever the process died.
VolumeAnswered ==
  \A v \in VolumeEnds :
    \/ v > Prev \/ v \in answered
    \/ v = Prev /\ (st.step = 0 \/ st.cp = At("volume-boundary", v))

-----------------------------------------------------------------------------
(* What the code says of itself and does not do.                           *)

\* triggers.py:14-15 and [I14]: the stratum is distilled first, its score is
\* second.
StratumBeforeScore == rows[RowOf("score_stratum")] > 0 => rows[RowOf("l4_distill")] > 0

\* triggers.py:9-10: after every N with N % 12 = 0 the arc is distilled.
EveryArcDistilled ==
  \A n \in 1..(Prev - 1) : n % StyleInterval = 0 => n \in distilled

\* cli.py:1103: a rejection is a redo of the step that raised the checkpoint;
\* cli.py:1153: the fan-out runs again.
RejectedIsRedone == refused # 0 => Prev = refused /\ st.step = 0
=============================================================================

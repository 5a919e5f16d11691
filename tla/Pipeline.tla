------------------------------ MODULE Pipeline ------------------------------
(***************************************************************************)
(* The chapter pipeline of src/shenbi/pipeline: the commands next, resume  *)
(* and review, the orchestration loop they run, the sixteen-step chapter   *)
(* cursor, the re-dispatch queue, the staging area between a skill's       *)
(* output and the live project, and what is left of all that when the      *)
(* process exits, is asked to stop, or dies.                               *)
(*                                                                         *)
(* One pipeline process runs at a time (the project write lock).  It works *)
(* on st, an in-memory copy of the state file disk; the project directory  *)
(* fs changes under it at once.  Dispatching a skill is a nondeterministic *)
(* outcome; how many retries precede an escalation is StepRetry's subject, *)
(* so here a failing step may retry or escalate at any attempt.            *)
(* Genesis is over: the initial state is the entry to the chapter loop.    *)
(***************************************************************************)
EXTENDS Book

CONSTANTS
  MemoReview, SettleReview, ChapterReview,  \* the review switches of config
  Crashes,        \* where the process may be killed: in a next or resume
                  \* ("orchestration"), in a review between what it does to
                  \* staging and its save ("review")
  Unplanned,      \* chapters whose plan an answer for a bundle leaves out
  ReDispatchCap,  \* RE_DISPATCH_RETRY_CAP
  ClosureLen,     \* number of closure steps
  MaxBacklog      \* bound: approve events left unconsumed

ASSUME PipelineAssumption ==
  /\ {MemoReview, SettleReview, ChapterReview} \subseteq BOOLEAN
  /\ Crashes \subseteq {"orchestration", "review"}
  /\ Unplanned \subseteq Nat
  /\ ReDispatchCap \in Nat \ {0}
  /\ ClosureLen \in Nat /\ ClosureLen > 1
  /\ MaxBacklog \in Nat \ {0}

VARIABLES
  st,    \* PipelineState as the running process holds it
  disk,  \* pipeline-state.json
  fs,    \* the project directory: live products, staging/, staging marks
  run    \* the process: where it is, and the queue pass under way
vars == <<st, disk, fs, run>>

-----------------------------------------------------------------------------
(* Cursor positions of CHAPTER_STEPS.  The audit steps 9..14 run as one.   *)

AlignStep     == 0
PlanStep      == 1
PrepareStep   == 2
DraftStep     == 3
SplitStep     == 4
ExtractStep   == 5
DriftStep     == 6
LifecycleStep == 7
SettleStep    == 8
AuditStep     == 9
RevisionStep  == 15
PastEnd       == 16
Steps == 0..9 \cup {RevisionStep, PastEnd}

State ==
  [phase   : Phases,
   current : Chapters,            \* chapter_loop.current_chapter
   step    : Steps,               \* chapter_loop.step_index
   cp      : Checkpoint,          \* pending_checkpoint
   events  : Seq(Checkpoint),     \* approvals of checkpoint_history not consumed
   queue   : Seq(Entry),          \* pending_re_dispatches
   closure : 0..ClosureLen,       \* closure_step
   revise  : BOOLEAN,             \* route of the current chapter, TRUE until routed
   begun   : SUBSET Nat]          \* chapters with a step done

Files ==
  [plans       : SUBSET Nat,              \* plans/chapter-N-plan.md
   drafts      : SUBSET Nat,              \* chapters/chapter-N.md
   truth       : [Chapters -> Freshness], \* truth/*.md
   stagedPlans : SUBSET Nat,              \* staging/plans
   stagedTruth : [Chapters -> Freshness], \* staging/truth
   cluster     : 0..Horizon,              \* leader of staging/chapter-N-bundle.md
   markedPlans : SUBSET Nat,              \* .staging-meta.json checkpointed:
   markedTruth : BOOLEAN]                 \*   plans one by one, truth files whole

Process ==
  [pc      : {"idle", "decided", "top", "queue", "save", "exit", "atexit"},
   armed   : BOOLEAN,       \* emergency handlers registered in this process
   todo    : Seq(Entry),    \* the queue pass: entries still to dispatch,
   kept    : Seq(Entry),    \* failed and kept,
   dropped : Seq(Entry)]    \* given up
Idle == [pc |-> "idle", armed |-> FALSE, todo |-> <<>>, kept |-> <<>>,
         dropped |-> <<>>]

\* transition_genesis_to_chapter_loop has just been persisted.
Start ==
  [phase |-> "chapter-loop", current |-> 1, step |-> AlignStep,
   cp |-> NoCheckpoint, events |-> <<>>, queue |-> <<>>, closure |-> 0,
   revise |-> TRUE, begun |-> {}]
NoFiles ==
  [plans |-> {}, drafts |-> {}, truth |-> NoTruth, stagedPlans |-> {},
   stagedTruth |-> NoTruth, cluster |-> 0, markedPlans |-> {},
   markedTruth |-> FALSE]

Init == st = Start /\ disk = Start /\ fs = NoFiles /\ run = Idle

-----------------------------------------------------------------------------
(* The staging area.                                                       *)

CleanStaging(f) ==
  [f EXCEPT !.stagedPlans = {}, !.stagedTruth = NoTruth, !.cluster = 0,
            !.markedPlans = {}, !.markedTruth = FALSE]

\* clear_staging(preserve_checkpointed): only what a checkpoint marked stays.
KeepMarked(f) ==
  [f EXCEPT !.stagedPlans = @ \cap f.markedPlans,
            !.stagedTruth = IF f.markedTruth THEN @ ELSE NoTruth,
            !.cluster = 0]

MarkPlansFaulty(f, chapters) == f           \* leaves the plans unmarked
MarkPlans(f, chapters) == [f EXCEPT !.markedPlans = @ \cup chapters]
MarkTruth(f) == [f EXCEPT !.markedTruth = TRUE]

CommitPlansFaulty(f, chapters) ==           \* leaves the follower's plan behind
  [f EXCEPT !.plans = @ \cup
     (f.stagedPlans \cap {CHOOSE c \in chapters : \A d \in chapters : c <= d})]
CommitPlans(f, chapters) == [f EXCEPT !.plans = @ \cup (f.stagedPlans \cap chapters)]

CommitTruth(f) ==
  [f EXCEPT !.truth = [c \in Chapters |->
     IF f.stagedTruth[c] = "none" THEN f.truth[c] ELSE f.stagedTruth[c]]]

StageTruth(f, c) == [f EXCEPT !.stagedTruth[c] = "fresh"]

\* A revision rewrites the draft under whatever was settled from it.
ReviseDraft(f, c) ==
  [f EXCEPT !.truth[c]       = IF @ = "fresh" THEN "stale" ELSE @,
            !.stagedTruth[c] = IF @ = "fresh" THEN "stale" ELSE @]

\* At the start of a command staging survives as long as the cursor has not
\* passed the last step that writes to it.
ResidualCleanup(f, s) == IF s.step <= SettleStep THEN f ELSE KeepMarked(f)

-----------------------------------------------------------------------------
(* Review: the only command that runs on a pending checkpoint.             *)

Enqueue(q, e) ==
  IF \E i \in DOMAIN q : q[i].skill = e.skill /\ q[i].chapter = e.chapter
  THEN q
  ELSE Append(q, e)

ChapterMismatchFaulty(s, cp) == FALSE       \* rewinds whatever chapter is current
ChapterMismatch(s, cp) == s.phase = "chapter-loop" /\ cp.chapter # s.current

\* Redo the step behind the checkpoint: rewind the cursor, unless it has left
\* the checkpoint's chapter; then the chapter's redo rides the queue.
Redo(s, cp, skill, step) ==
  IF ChapterMismatch(s, cp)
  THEN [s EXCEPT !.queue = Enqueue(@, NewEntry(skill, cp.chapter))]
  ELSE [s EXCEPT !.step = step]

\* DERIVED_TRUTH_MAP: what else a decision makes stale.
QueueDerived(s, cp) ==
  CASE cp.type \in {"chapter-memo", "state-settle"} ->
         [s EXCEPT !.queue = Enqueue(@, NewEntry("derived", cp.chapter))]
    [] cp.type = "per-chapter" ->
         [s EXCEPT !.queue = Enqueue(Enqueue(@, NewEntry("revision", cp.chapter)),
                                     NewEntry("settle", cp.chapter))]
    [] OTHER -> s

BackToLoop(s) ==
  [s EXCEPT !.phase = "chapter-loop", !.closure = 0, !.step = AlignStep]

\* Approvals matter to resume only when they are about a volume boundary, so
\* an other approval with none of those beneath it is as good as consumed.
Approved(s, cp) ==
  IF cp.type = "volume-boundary" THEN [s EXCEPT !.events = Append(@, cp)]
  ELSE IF s.events = <<>> THEN s
  ELSE [s EXCEPT !.events = Append(@, NoCheckpoint)]

Rejected(s, cp) ==
  CASE cp.type = "chapter-memo"    -> Redo(s, cp, "planning", PlanStep)
    [] cp.type = "state-settle"    -> Redo(s, cp, "settle", SettleStep)
    [] cp.type = "per-chapter"     -> QueueDerived(s, cp)
    [] cp.type = "volume-boundary" ->
         IF ChapterMismatch(s, cp) THEN s ELSE [s EXCEPT !.step = AlignStep]
    [] cp.type = "book-closure"    -> BackToLoop(s)
    [] OTHER -> s

Modified(s, cp) ==
  CASE cp.type = "chapter-memo" ->
         QueueDerived(Redo(s, cp, "planning", PlanStep), cp)
    [] cp.type = "state-settle" ->
         QueueDerived(Redo(s, cp, "settle", SettleStep), cp)
    [] OTHER -> QueueDerived(s, cp)

ApproveFilesFaulty(f, cp) ==                \* commits only, clears nothing
  CASE cp.type = "chapter-memo" -> CommitPlans(f, Bundle(cp.chapter))
    [] cp.type \in {"state-settle", "per-chapter"} -> CommitTruth(f)
    [] OTHER -> f
ApproveFiles(f, cp) ==
  CASE cp.type = "chapter-memo" -> CleanStaging(CommitPlans(f, Bundle(cp.chapter)))
    [] cp.type \in {"state-settle", "per-chapter"} -> CleanStaging(CommitTruth(f))
    [] OTHER -> f

\* discard_staging_targets drops the files, but of their marks only the first
\* it finds: any() stops there, a follower's plan keeps its mark, and so do the
\* other truth files, if there are any.
RejectFiles(f, cp, others) ==
  CASE cp.type = "chapter-memo" ->
         [f EXCEPT !.stagedPlans = @ \ Bundle(cp.chapter),
                   !.markedPlans = @ \ {cp.chapter}]
    [] cp.type \in {"state-settle", "per-chapter"} ->
         [f EXCEPT !.stagedTruth = NoTruth, !.markedTruth = @ /\ others]
    [] OTHER -> f

Decide(files, state) ==
  /\ run.pc = "idle" /\ st.cp # NoCheckpoint
  /\ fs' = files
  /\ st' = [state EXCEPT !.cp = NoCheckpoint]
  /\ run' = [run EXCEPT !.pc = "decided"]
  /\ UNCHANGED disk

\* An approval whose facts_ops are refused is an error that changes nothing.
Approve ==
  /\ Len(st.events) < MaxBacklog
  /\ Decide(ApproveFiles(fs, st.cp), Approved(st, st.cp))
Modify == Decide(CleanStaging(fs), Modified(st, st.cp))
Reject ==
  \E others \in BOOLEAN : Decide(RejectFiles(fs, st.cp, others), Rejected(st, st.cp))

-----------------------------------------------------------------------------
(* next and resume: entering the orchestration loop.                       *)

CmdNextFaulty ==                            \* does not stop at a checkpoint
  /\ run.pc = "idle"
  /\ fs' = ResidualCleanup(fs, st)
  /\ run' = [run EXCEPT !.pc = "top"]
  /\ UNCHANGED <<st, disk>>

CmdNext ==
  /\ run.pc = "idle" /\ st.cp = NoCheckpoint
  /\ fs' = ResidualCleanup(fs, st)
  /\ run' = [run EXCEPT !.pc = "top"]
  /\ UNCHANGED <<st, disk>>

\* _verify_truth_integrity: resume wants the previous chapter's plan.
PlansIntact ==
  st.phase = "chapter-loop" /\ st.current > 1 => st.current - 1 \in fs.plans

\* _clamp_resume_cursor: a cursor that ran ahead of the drafts comes back.
RanAhead(s, f) ==
  /\ s.current \notin s.begun
  /\ \A c \in f.drafts : c < s.current - 1
  /\ s.current > 1
Clamped(s, f) ==
  IF ~RanAhead(s, f) THEN s
  ELSE [s EXCEPT !.step = AlignStep,
                 !.current = CHOOSE c \in Chapters :
                               /\ c = 1 \/ c - 1 \in f.drafts
                               /\ \A d \in f.drafts : d < c]

ToClosure(s) == [s EXCEPT !.phase = "closure"]

\* The newest unconsumed approval.  A volume boundary runs its snapshot and
\* stays unconsumed when that fails; if it was the book's last one it closes
\* the book either way.
BoundaryApproved(s) ==
  s.events # <<>> /\ s.events[Len(s.events)].type = "volume-boundary"
LastBoundaryApproved(s) ==
  BoundaryApproved(s) /\ s.events[Len(s.events)].chapter >= TotalChapters

Popped(s) ==
  IF s.events = <<>> THEN s
  ELSE [s EXCEPT !.events = SubSeq(@, 1, Len(@) - 1)]
Consumed(s, snapshotFails) ==
  LET kept == IF snapshotFails THEN s ELSE Popped(s)
  IN  IF LastBoundaryApproved(s) THEN ToClosure(kept) ELSE kept

\* A failed snapshot also skips the save.
CmdResume ==
  /\ run.pc = "idle" /\ PlansIntact
  /\ \E snapshotFails \in IF BoundaryApproved(st) THEN BOOLEAN ELSE {FALSE} :
       LET s == Consumed(Clamped(st, fs), snapshotFails) IN
       /\ disk' = IF snapshotFails THEN disk ELSE s
       /\ IF st.cp # NoCheckpoint
          THEN st' = disk' /\ UNCHANGED <<fs, run>>
          ELSE /\ st' = s
               /\ fs' = ResidualCleanup(fs, s)
               /\ run' = [run EXCEPT !.pc = "top"]

-----------------------------------------------------------------------------
(* The loop's bookkeeping: how a step ends, how the process ends.          *)

Continue == run' = [run EXCEPT !.pc = "save"]
Stop     == run' = [run EXCEPT !.pc = "exit"]

Escalated(s, c) == [s EXCEPT !.cp = At("escalation", c)]

\* _handle_failure: the step is retried, or a human is called.  f is what
\* the failed attempt left behind.
StepFails(f) ==
  /\ fs' = f
  /\ \/ st' = st /\ Continue
     \/ st' = Escalated(st, st.current) /\ Stop
  /\ UNCHANGED disk

Save ==
  /\ run.pc = "save"
  /\ disk' = st
  /\ run' = [run EXCEPT !.pc = "top"]
  /\ UNCHANGED <<st, fs>>

Finish ==
  /\ run.pc \in {"exit", "decided"}
  /\ disk' = st
  /\ run' = IF run.armed THEN [run EXCEPT !.pc = "atexit"] ELSE Idle
  /\ UNCHANGED <<st, fs>>

\* The atexit hook of a process that ran a volume-align step.
AtExit ==
  /\ run.pc = "atexit"
  /\ disk' = st
  /\ fs' = KeepMarked(fs)
  /\ run' = Idle
  /\ UNCHANGED st

\* kill -9, power loss, an uncaught error outside the armed window.
Kill ==
  /\ run.pc # "idle"
  /\ (IF run.pc = "decided" THEN "review" ELSE "orchestration") \in Crashes
  /\ st' = disk
  /\ run' = Idle
  /\ UNCHANGED <<disk, fs>>

-----------------------------------------------------------------------------
(* The re-dispatch queue, drained before every step.                       *)

QueueBegin ==
  /\ run.pc = "top" /\ st.queue # <<>>
  /\ run' = [run EXCEPT !.pc = "queue", !.todo = st.queue, !.kept = <<>>,
                        !.dropped = <<>>]
  /\ UNCHANGED <<st, disk, fs>>

\* What a dispatched entry leaves in the project directory.
Landed(f, e) ==
  CASE e.skill = "settle"   -> StageTruth(f, e.chapter)
    [] e.skill = "planning" -> [f EXCEPT !.stagedPlans = @ \cup {e.chapter}]
    [] e.skill = "revision" -> ReviseDraft(f, e.chapter)
    [] OTHER                -> f

\* The checkpoint a successful entry raises again.
ReRaised(s, e) ==
  CASE e.skill = "settle"   -> [s EXCEPT !.cp = At("state-settle", e.chapter)]
    [] e.skill = "planning" -> [s EXCEPT !.cp = At("chapter-memo", e.chapter)]
    [] OTHER                -> s

DraftMissing(e) == e.skill \in DraftReaders /\ e.chapter \notin fs.drafts

InQueuePass == run.pc = "queue" /\ run.todo # <<>>

EntryDone ==
  /\ InQueuePass /\ ~DraftMissing(Head(run.todo))
  /\ fs' = Landed(fs, Head(run.todo))
  /\ st' = ReRaised(st, Head(run.todo))
  /\ run' = [run EXCEPT !.todo = Tail(@)]
  /\ UNCHANGED disk

\* A failed dispatch leaves nothing, a failed gate leaves the output.
EntryFails ==
  /\ InQueuePass
  /\ LET e     == Head(run.todo)
         again == [e EXCEPT !.attempts = @ + 1]
     IN  IF DraftMissing(e)
         THEN /\ fs' = fs
              /\ run' = [run EXCEPT !.todo = Tail(@), !.dropped = Append(@, e)]
         ELSE /\ fs' \in {fs, Landed(fs, e)}
              /\ run' = IF again.attempts >= ReDispatchCap
                        THEN [run EXCEPT !.todo = Tail(@), !.dropped = Append(@, again)]
                        ELSE [run EXCEPT !.todo = Tail(@), !.kept = Append(@, again)]
  /\ UNCHANGED <<st, disk>>

\* A queue that did not drain calls a human, whatever it re-raised.
QueueEnd ==
  /\ run.pc = "queue" /\ run.todo = <<>>
  /\ st' = LET left == [st EXCEPT !.queue = run.kept] IN
           IF run.dropped # <<>> THEN Escalated(left, Head(run.dropped).chapter)
           ELSE IF run.kept # <<>> THEN Escalated(left, Head(run.kept).chapter)
           ELSE left
  /\ disk' = st'
  /\ run' = [run EXCEPT !.pc = IF st'.cp = NoCheckpoint THEN "top" ELSE "exit",
                        !.kept = <<>>, !.dropped = <<>>]
  /\ UNCHANGED fs

-----------------------------------------------------------------------------
(* The top of a chapter: triggers of the previous one, and closure.        *)

AtStep(i) ==
  /\ run.pc = "top" /\ st.queue = <<>>
  /\ st.phase = "chapter-loop" /\ st.step = i

AtTop == AtStep(AlignStep)
Prev  == st.current - 1

StopAt(s) ==
  /\ st' = s /\ disk' = s
  /\ Stop
  /\ UNCHANGED fs

TriggerFails == AtTop /\ Prev > 0 /\ StopAt(Escalated(st, Prev))

VolumeBoundary ==
  /\ AtTop /\ Prev \in VolumeEnds
  /\ StopAt([st EXCEPT !.cp = At("volume-boundary", Prev), !.step = PlanStep])

\* Periodic triggers ran and an older checkpoint is still pending.
TriggersAtCheckpoint ==
  /\ AtTop /\ Prev > 0 /\ Prev \notin VolumeEnds /\ st.cp # NoCheckpoint
  /\ StopAt([st EXCEPT !.step = PlanStep])

EnterClosureFaulty ==                       \* closes one chapter early
  /\ AtTop /\ Prev + 1 >= TotalChapters /\ Prev \notin VolumeEnds
  /\ st' = ToClosure(st)
  /\ UNCHANGED <<disk, fs, run>>

EnterClosure ==
  /\ AtTop /\ Prev >= TotalChapters /\ Prev \notin VolumeEnds
  /\ st' = ToClosure(st)
  /\ UNCHANGED <<disk, fs, run>>

\* Neither a volume boundary nor the end of the book intervenes.
ChapterGoesOn == Prev < TotalChapters /\ Prev \notin VolumeEnds

VolumeAlign ==
  /\ AtTop /\ ChapterGoesOn
  /\ st' = [st EXCEPT !.step = PlanStep, !.begun = @ \cup {st.current}]
  /\ run' = [run EXCEPT !.pc = "save", !.armed = TRUE]
  /\ UNCHANGED <<disk, fs>>

-----------------------------------------------------------------------------
(* The steps of a chapter.                                                 *)

\* What planning writes for a bundle; only its first plan is asked for afterwards
\* (_step_output_exists).
StagePlans(f) ==
  [f EXCEPT !.stagedPlans = @ \cup {st.current} \cup (Bundle(st.current) \ Unplanned)]

Planning ==
  /\ AtStep(PlanStep)
  /\ \/ \E f \in {fs, StagePlans(fs)} : StepFails(f)
     \/ LET planned == [st EXCEPT !.step = PrepareStep,
                                  !.begun = @ \cup Bundle(st.current)]
        IN  /\ UNCHANGED disk
            /\ IF MemoReview
               THEN /\ st' = [planned EXCEPT !.cp = At("chapter-memo", st.current)]
                    /\ fs' = MarkPlans(StagePlans(fs), Bundle(st.current))
                    /\ Stop
               ELSE /\ st' = planned
                    /\ fs' = CleanStaging(CommitPlans(StagePlans(fs), Bundle(st.current)))
                    /\ Continue

ContextPrepare ==
  /\ AtStep(PrepareStep)
  /\ st' = [st EXCEPT !.step = DraftStep]
  /\ Continue
  /\ UNCHANGED <<disk, fs>>

StageCluster(f) == [f EXCEPT !.cluster = st.current]

Drafting ==
  /\ AtStep(DraftStep)
  /\ \/ \E f \in {fs, StageCluster(fs)} : StepFails(f)
     \/ /\ st' = [st EXCEPT !.step = SplitStep]
        /\ fs' = StageCluster(fs)
        /\ Continue
        /\ UNCHANGED disk

PromoteFaulty(f) == [f EXCEPT !.drafts = @ \cup {st.current}]  \* leader only
Promote(f) == [f EXCEPT !.drafts = @ \cup Bundle(st.current)]
Splittable == fs.cluster = st.current

SceneSplit ==
  /\ AtStep(SplitStep) /\ Splittable
  /\ st' = [st EXCEPT !.step = ExtractStep]
  /\ fs' = Promote(fs)
  /\ Continue
  /\ UNCHANGED disk

\* No bundle, a malformed one, or one whose chapters fail their gates after
\* promotion: back to drafting, or over the budget to a human.
SceneSplitFails ==
  /\ AtStep(SplitStep)
  /\ fs' \in IF Splittable THEN {fs, Promote(fs)} ELSE {fs}
  /\ \/ st' = [st EXCEPT !.step = DraftStep] /\ Continue
     \/ st' = Escalated(st, st.current) /\ Stop
  /\ UNCHANGED disk

\* Killed between the two chapter files of the bundle.
SceneSplitTorn ==
  /\ AtStep(SplitStep) /\ Splittable /\ "orchestration" \in Crashes
  /\ fs' = [fs EXCEPT !.drafts = @ \cup {st.current}]
  /\ st' = disk /\ run' = Idle
  /\ UNCHANGED disk

PostDraftExtract ==
  /\ AtStep(ExtractStep)
  /\ st' = [st EXCEPT !.step = DriftStep]
  /\ Continue
  /\ UNCHANGED <<disk, fs>>

LinguisticDrift ==
  /\ AtStep(DriftStep)
  /\ \/ st' = [st EXCEPT !.step = LifecycleStep] /\ Continue
     \/ st' = Escalated(st, st.current) /\ Stop
  /\ UNCHANGED <<disk, fs>>

\* The ghost-chain guard: a skill that reads the draft is not dispatched for
\* a chapter without one.
Drafted == st.current \in fs.drafts
RefuseUndrafted ==
  st' = Escalated(st, st.current) /\ Stop /\ UNCHANGED <<disk, fs>>

\* Lifecycle and settling run as a pair.  factsOk is the facts_ops check of
\* the auto-commit; a refusal puts the settlement up for review instead.
SettlePair ==
  /\ AtStep(LifecycleStep)
  /\ IF ~Drafted THEN RefuseUndrafted ELSE
     \/ \E f \in {fs, StageTruth(fs, st.current)} : StepFails(f)
     \/ \E factsOk \in BOOLEAN :
          /\ UNCHANGED disk
          /\ IF SettleReview \/ ~factsOk
             THEN /\ st' = [st EXCEPT !.step = AuditStep,
                                      !.cp = At("state-settle", st.current)]
                  /\ fs' = MarkTruth(StageTruth(fs, st.current))
                  /\ Stop
             ELSE /\ st' = [st EXCEPT !.step = AuditStep]
                  /\ fs' = CleanStaging(CommitTruth(StageTruth(fs, st.current)))
                  /\ Continue

\* The settling step alone, reached by a review's rewind: its output stays in
\* staging with no checkpoint and no mark.
SettleAgain ==
  /\ AtStep(SettleStep)
  /\ IF ~Drafted THEN RefuseUndrafted ELSE
     \/ \E f \in {fs, StageTruth(fs, st.current)} : StepFails(f)
     \/ /\ st' = [st EXCEPT !.step = AuditStep]
        /\ fs' = StageTruth(fs, st.current)
        /\ Continue
        /\ UNCHANGED disk

\* Six audits, then the route.  A resonance score that could not be read
\* raises an escalation, but the step reports that it merely advanced; an
\* exhausted retry budget stops before the route is recorded.
AuditWave ==
  /\ AtStep(AuditStep)
  /\ \/ \E route, unread \in BOOLEAN :
          /\ st' = LET s == [st EXCEPT !.step = RevisionStep, !.revise = route]
                   IN  IF unread THEN Escalated(s, st.current) ELSE s
          /\ Continue
     \/ /\ st' = Escalated([st EXCEPT !.step = RevisionStep], st.current)
        /\ Stop
  /\ UNCHANGED <<disk, fs>>

\* _complete_chapter: the cursor jumps over the bundle.
Complete(s) ==
  /\ NextLeader(st.current) <= Horizon
  /\ LET closed == [s EXCEPT !.current = NextLeader(st.current),
                             !.step = AlignStep, !.revise = TRUE]
     IN  IF ChapterReview
         THEN st' = [closed EXCEPT !.cp = At("per-chapter", st.current)] /\ Stop
         ELSE st' = closed /\ Continue
  /\ UNCHANGED disk

\* The product contract check raises out of the completion: the command ends
\* without saving, and an armed process saves the half-advanced cursor.
CompletionRefused(s) ==
  /\ IF run.armed
     THEN st' = [s EXCEPT !.step = PastEnd] /\ run' = [run EXCEPT !.pc = "atexit"]
     ELSE st' = disk /\ run' = Idle
  /\ UNCHANGED disk

Revision ==
  /\ AtStep(RevisionStep)
  /\ IF ~Drafted THEN RefuseUndrafted ELSE
     \/ /\ ~st.revise
        /\ Complete(st) \/ CompletionRefused(st)
        /\ UNCHANGED fs
     \/ /\ st.revise
        /\ \E f \in {fs, ReviseDraft(fs, st.current)} : StepFails(f)
     \/ /\ st.revise
        /\ fs' = ReviseDraft(fs, st.current)
        /\ LET owed == [st EXCEPT !.queue =
                           Enqueue(@, NewEntry("settle", st.current))]
           IN  Complete(owed) \/ CompletionRefused(owed)

StepsConsumed == AtStep(PastEnd) /\ Stop /\ UNCHANGED <<st, disk, fs>>

\* SIGTERM seen at a step boundary: emergency save and staging clear under
\* the lock the process holds, then an escalation.  The latch makes atexit
\* a no-op afterwards.
Shutdown ==
  /\ run.pc = "top" /\ st.queue = <<>> /\ st.phase = "chapter-loop"
  /\ st.step # PastEnd /\ run.armed
  /\ st.step = AlignStep => ChapterGoesOn
  /\ disk' = st
  /\ fs' = KeepMarked(fs)
  /\ st' = Escalated(st, st.current)
  /\ run' = [run EXCEPT !.pc = "exit", !.armed = FALSE]

-----------------------------------------------------------------------------
(* Closure.                                                                *)

AtClosure == run.pc = "top" /\ st.queue = <<>> /\ st.phase = "closure"
Last      == ClosureLen - 1

ClosureStep ==
  /\ AtClosure /\ st.closure < ClosureLen
  /\ ~(st.closure = Last /\ st.cp # NoCheckpoint)
  /\ LET done == [st EXCEPT !.closure = @ + 1] IN
     IF done.closure = Last
     THEN st' = [done EXCEPT !.cp = At("book-closure", 0)] /\ Stop
     ELSE IF st.cp # NoCheckpoint THEN st' = done /\ Stop
     ELSE IF done.closure = ClosureLen
     THEN st' = [done EXCEPT !.phase = "completed"] /\ Stop
     ELSE st' = done /\ Continue
  /\ UNCHANGED <<disk, fs>>

ClosureFails ==
  /\ AtClosure /\ st.closure < ClosureLen
  /\ ~(st.closure = Last /\ st.cp # NoCheckpoint)
  /\ st' = Escalated(st, 0) /\ Stop
  /\ UNCHANGED <<disk, fs>>

\* Blocked at the checkpoint, or past the last step.
ClosureRests ==
  /\ AtClosure
  /\ st.closure = ClosureLen \/ (st.closure = Last /\ st.cp # NoCheckpoint)
  /\ st' = IF st.cp = NoCheckpoint THEN [st EXCEPT !.phase = "completed"] ELSE st
  /\ Stop
  /\ UNCHANGED <<disk, fs>>

Completed ==
  /\ run.pc = "top" /\ st.queue = <<>> /\ st.phase = "completed"
  /\ Stop /\ UNCHANGED <<st, disk, fs>>

-----------------------------------------------------------------------------
Command == CmdNext \/ CmdResume \/ Approve \/ Modify \/ Reject
ProcessEnds == Save \/ Finish \/ AtExit \/ Kill \/ Shutdown
QueuePass == QueueBegin \/ EntryDone \/ EntryFails \/ QueueEnd
ChapterTop ==
  \/ TriggerFails \/ VolumeBoundary \/ TriggersAtCheckpoint \/ EnterClosure
  \/ VolumeAlign
ChapterStep ==
  \/ Planning \/ ContextPrepare \/ Drafting \/ SceneSplit \/ SceneSplitFails
  \/ SceneSplitTorn \/ PostDraftExtract \/ LinguisticDrift \/ SettlePair \/ SettleAgain
  \/ AuditWave \/ Revision \/ StepsConsumed
Closing == ClosureStep \/ ClosureFails \/ ClosureRests \/ Completed

Next ==
  Command \/ ProcessEnds \/ QueuePass \/ ChapterTop \/ ChapterStep \/ Closing

Spec == Init /\ [][Next]_vars

-----------------------------------------------------------------------------
(* Properties.                                                             *)

TypeOK ==
  /\ st \in State /\ disk \in State
  /\ fs \in Files
  /\ run \in Process

\* A skill that reads the draft is about to run, or queued, only where the
\* draft exists: no truth is settled from a chapter nobody wrote.
NoGhostChapter ==
  /\ st.phase = "chapter-loop" /\ st.step \in LifecycleStep..RevisionStep => Drafted
  /\ \A q \in {st.queue, run.todo, run.kept} : \A i \in DOMAIN q : ~DraftMissing(q[i])

\* The cursor never leaves a chapter behind without a draft, through bundles,
\* rewinds, clamps and crashes.
DraftsBehindCursor == 1..(st.current - 1) \subseteq fs.drafts

\* Nobody drafts from a plan that was written and is not committed.
PlannedBeforeDrafted == fs.drafts \ Unplanned \subseteq fs.plans

\* When a human is asked about a plan or a settlement, there is one to commit.
PendingProduct ==
  run.pc = "idle" =>
    /\ st.cp.type = "state-settle" => fs.stagedTruth[st.cp.chapter] # "none"
    /\ st.cp.type = "chapter-memo" => st.cp.chapter \in fs.stagedPlans

\* A review takes its decision.
Deciding == run.pc = "idle" /\ run'.pc = "decided"

\* A fresh settlement of a chapter goes live by a decision about that very
\* chapter, never in the slipstream of another one.
OwnSettlementOnly ==
  [][\A c \in Chapters : fs'.truth[c] = "fresh" /\ fs.truth[c] # "fresh" =>
       /\ Deciding
       /\ st.cp.type \in {"state-settle", "per-chapter"} /\ st.cp.chapter = c]_vars

\* The state file keeps the promise of Lifecycle: chapters complete one
\* bundle at a time in order, the book closes after its last chapter, and a
\* question other than an escalation is only ever taken back by an answer.
Promise == INSTANCE Lifecycle WITH
  phase <- disk.phase, chapter <- disk.current, pending <- disk.cp
KeepsPromise == Promise!Spec

\* The book closes only over a complete manuscript.
ClosureIsLate == st.phase # "chapter-loop" => 1..TotalChapters \subseteq fs.drafts

-----------------------------------------------------------------------------
(* What the code says of itself and does not do.                           *)

\* chapter_loop.py:3296 on a resonance escalation: it must block the
\* chapter's silent completion.
EscalationBlocksCompletion ==
  [][st.cp.type = "escalation" => st'.current = st.current]_vars

\* transitions.py:47: all chapters written -> enter book closure.
NoPlanPastTheBook == fs.plans \cup fs.stagedPlans \subseteq 1..TotalChapters

\* chapter_loop.py:4845: a bundle's planning completes for both its chapters, so
\* neither is drafted without a plan.
BothArePlanned == fs.drafts \subseteq fs.plans

\* cli.py:78: a revision is followed by a settlement that reads it, so at the
\* top of a chapter with nothing queued and nobody asked, a stale settlement
\* has its successor at least in staging.
RevisionIsResettled ==
  AtTop /\ st.cp = NoCheckpoint =>
    \A c \in 1..Prev : fs.truth[c] = "stale" => fs.stagedTruth[c] = "fresh"

\* cli.py:732: the staged truth of a settlement that was redone rides until
\* the per-chapter review, so the chapter that completes is settled.
ClosedIsSettled ==
  [][st'.current > st.current =>
       fs.truth[st.current] # "none" \/ fs.stagedTruth[st.current] # "none"]_vars
=============================================================================

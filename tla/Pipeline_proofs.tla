-------------------------- MODULE Pipeline_proofs ---------------------------
(***************************************************************************)
(* Proofs about Pipeline, for every book, every choice of review switches, *)
(* crash points and bounds, unless a theorem says otherwise.  They rest on *)
(* five inductive invariants, each on the ones before it:                  *)
(*   Inv            whatever the pipeline remembers about a chapter -- a   *)
(*                  queue entry, a pending checkpoint, an unconsumed       *)
(*                  approval, the cursor, in memory or in the state file   *)
(*                  -- is backed by the drafts on disk, never removed;     *)
(*   Promised       memory is at most one step of Lifecycle ahead of the   *)
(*                  state file;                                            *)
(*   PlansFirst     past its planning a chapter's plan is live, or staged, *)
(*                  marked and before the human;                           *)
(*   ProductsKept   what is asked about is staged, and an armed process    *)
(*                  has marked it and owes nothing;                        *)
(*   OneSettlement  what is staged, asked or owed about settling is about  *)
(*                  one chapter.                                           *)
(***************************************************************************)
EXTENDS Pipeline, SequenceTheorems, TLAPS

\* Entries, checkpoints and states backed by the drafts D.
BackedEntry(D) == {e \in Entry : e.skill \in DraftReaders => Bundle(e.chapter) \subseteq D}

BackedCheckpoint(D) ==
  {cp \in Checkpoint :
     /\ cp.type \in {"state-settle", "per-chapter"} => Bundle(cp.chapter) \subseteq D
     /\ cp.type = "volume-boundary" => 1..cp.chapter \subseteq D}

BackedState(D) ==
  {s \in State :
     /\ 1..(s.current - 1) \subseteq D
     /\ s.phase = "chapter-loop" /\ s.step > SplitStep => Bundle(s.current) \subseteq D
     /\ s.phase # "chapter-loop" => 1..TotalChapters \subseteq D
     /\ s.cp \in BackedCheckpoint(D)
     /\ s.events \in Seq(BackedCheckpoint(D))
     /\ s.queue \in Seq(BackedEntry(D))}

BackedProcess(D) ==
  {r \in Process : r.todo \in Seq(BackedEntry(D)) /\ r.kept \in Seq(BackedEntry(D))}

Inv ==
  /\ fs \in Files
  /\ st \in BackedState(fs.drafts)
  /\ disk \in BackedState(fs.drafts)
  /\ run \in BackedProcess(fs.drafts)

USE BookAssumption, PipelineAssumption

-----------------------------------------------------------------------------
(* Facts about the book and about sequences.                               *)

LEMMA BundleFacts ==
  ASSUME NEW c \in Chapters
  PROVE  /\ c \in Bundle(c) /\ Bundle(c) \subseteq Nat
         /\ NextLeader(c) \in Nat /\ NextLeader(c) > c
         /\ \A D : 1..(c - 1) \subseteq D /\ Bundle(c) \subseteq D
                     => 1..(NextLeader(c) - 1) \subseteq D
BY DEF Bundle, NextLeader, HasFollower, Chapters

LEMMA SeqMonotone ==
  ASSUME NEW S, NEW T, S \subseteq T, NEW q \in Seq(S)
  PROVE  q \in Seq(T)
OBVIOUS

LEMMA EnqueueSeq ==
  ASSUME NEW S, NEW q \in Seq(S), NEW e \in S
  PROVE  Enqueue(q, e) \in Seq(S)
BY DEF Enqueue

LEMMA FrontSeq ==
  ASSUME NEW S, NEW q \in Seq(S), q # <<>>
  PROVE  q[Len(q)] \in S /\ SubSeq(q, 1, Len(q) - 1) \in Seq(S)
<1>1. Len(q) \in Nat \ {0} /\ \A i \in 1..Len(q) : q[i] \in S
  BY EmptySeq, ElementOfSeq
<1>2. \A i \in 1..(Len(q) - 1) : q[i] \in S
  BY <1>1
<1>3. SubSeq(q, 1, Len(q) - 1) \in Seq(S)
  BY <1>1, <1>2, SubSeqProperties
<1>4. QED BY <1>1, <1>3

\* More drafts back more.
LEMMA Monotone ==
  ASSUME NEW D, NEW E, D \subseteq E
  PROVE  /\ BackedEntry(D) \subseteq BackedEntry(E)
         /\ BackedCheckpoint(D) \subseteq BackedCheckpoint(E)
         /\ BackedState(D) \subseteq BackedState(E)
         /\ BackedProcess(D) \subseteq BackedProcess(E)
<1>1. BackedEntry(D) \subseteq BackedEntry(E) BY DEF BackedEntry
<1>2. BackedCheckpoint(D) \subseteq BackedCheckpoint(E) BY DEF BackedCheckpoint
<1>3. BackedState(D) \subseteq BackedState(E)
  BY <1>1, <1>2, SeqMonotone DEF BackedState
<1>4. BackedProcess(D) \subseteq BackedProcess(E)
  BY <1>1, SeqMonotone DEF BackedProcess
<1>5. QED BY <1>1, <1>2, <1>3, <1>4

-----------------------------------------------------------------------------
(* One field of a backed state replaced.                                   *)

LEMMA CpBacked ==
  ASSUME NEW D, NEW s \in BackedState(D), NEW cp \in BackedCheckpoint(D)
  PROVE  [s EXCEPT !.cp = cp] \in BackedState(D)
BY DEF BackedState, State, BackedCheckpoint

LEMMA QueueBacked ==
  ASSUME NEW D, NEW s \in BackedState(D), NEW q \in Seq(BackedEntry(D))
  PROVE  [s EXCEPT !.queue = q] \in BackedState(D)
<1>1. q \in Seq(Entry) BY SeqMonotone DEF BackedEntry
<1>2. QED BY <1>1 DEF BackedState, State

LEMMA EventsBacked ==
  ASSUME NEW D, NEW s \in BackedState(D), NEW e \in Seq(BackedCheckpoint(D))
  PROVE  [s EXCEPT !.events = e] \in BackedState(D)
<1>1. e \in Seq(Checkpoint) BY SeqMonotone DEF BackedCheckpoint
<1>2. QED BY <1>1 DEF BackedState, State

LEMMA StepBacked ==
  ASSUME NEW D, NEW s \in BackedState(D), NEW i \in Steps,
         s.phase = "chapter-loop" /\ i > SplitStep => Bundle(s.current) \subseteq D
  PROVE  [s EXCEPT !.step = i] \in BackedState(D)
BY DEF BackedState, State

LEMMA AlignStepFacts == AlignStep \in Steps /\ ~(AlignStep > SplitStep)
BY DEF AlignStep, Steps, SplitStep

LEMMA EnqueueBacked ==
  ASSUME NEW D, NEW s \in BackedState(D), NEW e \in BackedEntry(D)
  PROVE  [s EXCEPT !.queue = Enqueue(@, e)] \in BackedState(D)
<1>1. s.queue \in Seq(BackedEntry(D)) BY DEF BackedState
<1>2. Enqueue(s.queue, e) \in Seq(BackedEntry(D)) BY <1>1, EnqueueSeq
<1>3. [s EXCEPT !.queue = Enqueue(s.queue, e)] \in BackedState(D) BY <1>2, QueueBacked
<1>4. QED BY <1>3

LEMMA NoCheckpointBacked ==
  ASSUME NEW D
  PROVE  NoCheckpoint \in BackedCheckpoint(D)
BY DEF NoCheckpoint, At, BackedCheckpoint, Checkpoint, CheckpointTypes

LEMMA EscalatedBacked ==
  ASSUME NEW D, NEW s \in BackedState(D), NEW c \in 0..Horizon
  PROVE  Escalated(s, c) \in BackedState(D)
<1>1. At("escalation", c) \in BackedCheckpoint(D)
  BY DEF At, BackedCheckpoint, Checkpoint, CheckpointTypes
<1>2. QED BY <1>1, CpBacked DEF Escalated

-----------------------------------------------------------------------------
(* What a review does to the state.                                        *)

LEMMA NewEntryBacked ==
  ASSUME NEW D, NEW cp \in BackedCheckpoint(D), NEW skill \in QueueSkills,
         skill \in DraftReaders =>
           Bundle(cp.chapter) \subseteq D
  PROVE  NewEntry(skill, cp.chapter) \in BackedEntry(D)
BY DEF NewEntry, BackedEntry, BackedCheckpoint, Checkpoint, Entry

LEMMA RedoBacked ==
  ASSUME NEW D, NEW s \in BackedState(D), NEW cp \in BackedCheckpoint(D),
         NEW skill \in QueueSkills, NEW i \in Steps,
         skill \in DraftReaders \/ i > SplitStep => Bundle(cp.chapter) \subseteq D
  PROVE  Redo(s, cp, skill, i) \in BackedState(D)
<1>1. CASE ChapterMismatch(s, cp)
  <2>1. NewEntry(skill, cp.chapter) \in BackedEntry(D) BY NewEntryBacked
  <2>2. QED BY <1>1, <2>1, EnqueueBacked DEF Redo
<1>2. CASE ~ChapterMismatch(s, cp)
  <2>1. s.phase = "chapter-loop" => cp.chapter = s.current BY <1>2 DEF ChapterMismatch
  <2>2. s.phase = "chapter-loop" /\ i > SplitStep => Bundle(s.current) \subseteq D BY <2>1
  <2>3. QED BY <1>2, <2>2, StepBacked DEF Redo
<1>3. QED BY <1>1, <1>2

LEMMA QueueDerivedBacked ==
  ASSUME NEW D, NEW s \in BackedState(D), NEW cp \in BackedCheckpoint(D)
  PROVE  QueueDerived(s, cp) \in BackedState(D)
<1>1. NewEntry("derived", cp.chapter) \in BackedEntry(D)
  BY NewEntryBacked DEF QueueSkills, DraftReaders
<1>2. CASE cp.type \in {"chapter-memo", "state-settle"}
  BY <1>1, <1>2, EnqueueBacked DEF QueueDerived
<1>3. CASE cp.type = "per-chapter"
  <2>1. Bundle(cp.chapter) \subseteq D BY <1>3 DEF BackedCheckpoint
  <2>2. /\ NewEntry("revision", cp.chapter) \in BackedEntry(D)
        /\ NewEntry("settle", cp.chapter) \in BackedEntry(D)
    BY <2>1, NewEntryBacked DEF QueueSkills
  <2>3. s.queue \in Seq(BackedEntry(D)) BY DEF BackedState
  <2>4. Enqueue(Enqueue(s.queue, NewEntry("revision", cp.chapter)),
                NewEntry("settle", cp.chapter)) \in Seq(BackedEntry(D))
    BY <2>2, <2>3, EnqueueSeq
  <2>5. QED BY <1>3, <2>4, QueueBacked DEF QueueDerived
<1>4. CASE cp.type \notin {"chapter-memo", "state-settle", "per-chapter"}
  BY <1>4 DEF QueueDerived
<1>5. QED BY <1>2, <1>3, <1>4

LEMMA ApprovedBacked ==
  ASSUME NEW D, NEW s \in BackedState(D), NEW cp \in BackedCheckpoint(D)
  PROVE  Approved(s, cp) \in BackedState(D)
<1>1. s.events \in Seq(BackedCheckpoint(D)) BY DEF BackedState
<1>2. /\ Append(s.events, cp) \in Seq(BackedCheckpoint(D))
      /\ Append(s.events, NoCheckpoint) \in Seq(BackedCheckpoint(D))
  BY <1>1, NoCheckpointBacked, AppendProperties
<1>3. /\ [s EXCEPT !.events = Append(s.events, cp)] \in BackedState(D)
      /\ [s EXCEPT !.events = Append(s.events, NoCheckpoint)] \in BackedState(D)
  BY <1>2, EventsBacked
<1>4. QED BY <1>3 DEF Approved

LEMMA RejectedBacked ==
  ASSUME NEW D, NEW s \in BackedState(D), NEW cp \in BackedCheckpoint(D)
  PROVE  Rejected(s, cp) \in BackedState(D)
<1>1. CASE cp.type = "chapter-memo"
  <2>1. Redo(s, cp, "planning", PlanStep) \in BackedState(D)
    BY RedoBacked DEF QueueSkills, DraftReaders, Steps, PlanStep, SplitStep
  <2>2. QED BY <1>1, <2>1 DEF Rejected
<1>2. CASE cp.type = "state-settle"
  <2>1. Bundle(cp.chapter) \subseteq D BY <1>2 DEF BackedCheckpoint
  <2>2. Redo(s, cp, "settle", SettleStep) \in BackedState(D)
    BY <2>1, RedoBacked DEF QueueSkills, Steps, SettleStep
  <2>3. QED BY <1>2, <2>2 DEF Rejected
<1>3. CASE cp.type = "per-chapter"
  BY <1>3, QueueDerivedBacked DEF Rejected
<1>4. CASE cp.type = "volume-boundary"
  <2>1. [s EXCEPT !.step = AlignStep] \in BackedState(D)
    BY AlignStepFacts, StepBacked
  <2>2. QED BY <1>4, <2>1 DEF Rejected
<1>5. CASE cp.type = "book-closure"
  <2>0. 0 \in 0..ClosureLen /\ "chapter-loop" \in Phases BY DEF Phases
  <2>1. BackToLoop(s) \in State
    BY <2>0, AlignStepFacts DEF BackToLoop, BackedState, State
  <2>2. BackToLoop(s) \in BackedState(D)
    BY <2>1, AlignStepFacts DEF BackToLoop, BackedState, State
  <2>3. QED BY <1>5, <2>2 DEF Rejected
<1>6. CASE cp.type \notin {"chapter-memo", "state-settle", "per-chapter",
                            "volume-boundary", "book-closure"}
  BY <1>6 DEF Rejected
<1>7. QED BY <1>1, <1>2, <1>3, <1>4, <1>5, <1>6

LEMMA ModifiedBacked ==
  ASSUME NEW D, NEW s \in BackedState(D), NEW cp \in BackedCheckpoint(D)
  PROVE  Modified(s, cp) \in BackedState(D)
<1>1. CASE cp.type = "chapter-memo"
  <2>1. Redo(s, cp, "planning", PlanStep) \in BackedState(D)
    BY RedoBacked DEF QueueSkills, DraftReaders, Steps, PlanStep, SplitStep
  <2>2. QED BY <1>1, <2>1, QueueDerivedBacked DEF Modified
<1>2. CASE cp.type = "state-settle"
  <2>1. Bundle(cp.chapter) \subseteq D BY <1>2 DEF BackedCheckpoint
  <2>2. Redo(s, cp, "settle", SettleStep) \in BackedState(D)
    BY <2>1, RedoBacked DEF QueueSkills, Steps, SettleStep
  <2>3. QED BY <1>2, <2>2, QueueDerivedBacked DEF Modified
<1>3. CASE cp.type \notin {"chapter-memo", "state-settle"}
  BY <1>3, QueueDerivedBacked DEF Modified
<1>4. QED BY <1>1, <1>2, <1>3

-----------------------------------------------------------------------------
(* Everything but the promotion of a bundle leaves the drafts alone.       *)

SameDrafts(f) == {g \in Files : g.drafts = f.drafts}

LEMMA StagingFiles ==
  ASSUME NEW f \in Files
  PROVE  /\ f \in SameDrafts(f)
         /\ CleanStaging(f) \in SameDrafts(f)
         /\ KeepMarked(f) \in SameDrafts(f)
         /\ CommitTruth(f) \in SameDrafts(f)
         /\ \A S \in SUBSET Nat : CommitPlans(f, S) \in SameDrafts(f)
         /\ \A b \in SUBSET Nat : MarkPlans(f, b) \in SameDrafts(f)
         /\ MarkTruth(f) \in SameDrafts(f)
<1>1. NoTruth \in [Chapters -> Freshness] /\ 0 \in 0..Horizon BY DEF NoTruth, Freshness
<1>2. CleanStaging(f) \in SameDrafts(f)
  BY <1>1 DEF CleanStaging, SameDrafts, Files
<1>3. KeepMarked(f) \in SameDrafts(f)
  BY <1>1 DEF KeepMarked, SameDrafts, Files
<1>4. CommitTruth(f) \in SameDrafts(f)
  <2>1. [c \in Chapters |-> IF f.stagedTruth[c] = "none" THEN f.truth[c]
                            ELSE f.stagedTruth[c]] \in [Chapters -> Freshness]
    BY DEF Files
  <2>2. QED BY <2>1 DEF CommitTruth, SameDrafts, Files
<1>5. \A S \in SUBSET Nat : CommitPlans(f, S) \in SameDrafts(f)
  BY DEF CommitPlans, SameDrafts, Files
<1>6. \A b \in SUBSET Nat : MarkPlans(f, b) \in SameDrafts(f)
  BY DEF MarkPlans, SameDrafts, Files
<1>7. MarkTruth(f) \in SameDrafts(f) BY DEF MarkTruth, SameDrafts, Files
<1>8. QED BY <1>2, <1>3, <1>4, <1>5, <1>6, <1>7 DEF SameDrafts

LEMMA SettlementFiles ==
  ASSUME NEW f \in Files, NEW c \in 0..Horizon
  PROVE  StageTruth(f, c) \in SameDrafts(f) /\ ReviseDraft(f, c) \in SameDrafts(f)
<1>1. [f.stagedTruth EXCEPT ![c] = "fresh"] \in [Chapters -> Freshness]
  BY DEF Files, Freshness
<1>2. \A t \in [Chapters -> Freshness] :
        [t EXCEPT ![c] = IF @ = "fresh" THEN "stale" ELSE @] \in [Chapters -> Freshness]
  BY DEF Freshness
<1>3. StageTruth(f, c) \in SameDrafts(f)
  BY <1>1 DEF StageTruth, SameDrafts, Files
<1>4. ReviseDraft(f, c) \in SameDrafts(f)
  BY <1>2 DEF ReviseDraft, SameDrafts, Files
<1>5. QED BY <1>3, <1>4

LEMMA SameDraftsTransitive ==
  ASSUME NEW f, NEW g \in SameDrafts(f), NEW h \in SameDrafts(g)
  PROVE  h \in SameDrafts(f)
BY DEF SameDrafts

LEMMA BundleNat == ASSUME NEW c \in 0..Horizon PROVE Bundle(c) \subseteq Nat
BY DEF Bundle, HasFollower

LEMMA ReviewFiles ==
  ASSUME NEW f \in Files, NEW cp \in Checkpoint
  PROVE  /\ ApproveFiles(f, cp) \in SameDrafts(f)
         /\ \A others \in BOOLEAN : RejectFiles(f, cp, others) \in SameDrafts(f)
<1>0. NoTruth \in [Chapters -> Freshness] BY DEF NoTruth, Freshness
<1>1. Bundle(cp.chapter) \in SUBSET Nat BY BundleNat DEF Checkpoint
<1>2. ApproveFiles(f, cp) \in SameDrafts(f)
  <2>1. CASE cp.type = "chapter-memo"
    <3>1. CommitPlans(f, Bundle(cp.chapter)) \in SameDrafts(f) BY <1>1, StagingFiles
    <3>2. CommitPlans(f, Bundle(cp.chapter)) \in Files BY <3>1 DEF SameDrafts
    <3>3. CleanStaging(CommitPlans(f, Bundle(cp.chapter)))
            \in SameDrafts(CommitPlans(f, Bundle(cp.chapter))) BY <3>2, StagingFiles
    <3>4. QED BY <2>1, <3>1, <3>3, SameDraftsTransitive DEF ApproveFiles
  <2>2. CASE cp.type \in {"state-settle", "per-chapter"}
    <3>1. CommitTruth(f) \in SameDrafts(f) BY StagingFiles
    <3>2. CommitTruth(f) \in Files BY <3>1 DEF SameDrafts
    <3>3. CleanStaging(CommitTruth(f)) \in SameDrafts(CommitTruth(f)) BY <3>2, StagingFiles
    <3>4. QED BY <2>2, <3>1, <3>3, SameDraftsTransitive DEF ApproveFiles
  <2>3. CASE cp.type \notin {"chapter-memo", "state-settle", "per-chapter"}
    BY <2>3, StagingFiles DEF ApproveFiles
  <2>4. QED BY <2>1, <2>2, <2>3
<1>3. ASSUME NEW others \in BOOLEAN PROVE RejectFiles(f, cp, others) \in SameDrafts(f)
  BY <1>0 DEF RejectFiles, SameDrafts, Files
<1>4. QED BY <1>2, <1>3

\* A step that promotes nothing preserves Inv as soon as what it remembers
\* is backed by the drafts there are.
LEMMA Preserved ==
  ASSUME fs' \in SameDrafts(fs),
         st' \in BackedState(fs.drafts), disk' \in BackedState(fs.drafts),
         run' \in BackedProcess(fs.drafts)
  PROVE  Inv'
BY DEF Inv, SameDrafts

LEMMA PcBacked ==
  ASSUME NEW D, NEW r \in BackedProcess(D),
         NEW pc \in {"idle", "decided", "top", "queue", "save", "exit", "atexit"}
  PROVE  /\ [r EXCEPT !.pc = pc] \in BackedProcess(D)
         /\ \A a \in BOOLEAN : [r EXCEPT !.pc = pc, !.armed = a] \in BackedProcess(D)
BY DEF BackedProcess, Process

LEMMA IdleBacked == ASSUME NEW D PROVE Idle \in BackedProcess(D)
BY EmptySeq DEF Idle, BackedProcess, Process

-----------------------------------------------------------------------------
(* Commands.                                                               *)

LEMMA ReviewInv ==
  ASSUME Inv, Approve \/ Modify \/ Reject
  PROVE  Inv'
<1> DEFINE D == fs.drafts
<1>1. /\ st \in BackedState(D) /\ fs \in Files /\ disk \in BackedState(D)
      /\ run \in BackedProcess(D)
  BY DEF Inv
<1>2. st.cp \in BackedCheckpoint(D) /\ st.cp \in Checkpoint
  BY <1>1 DEF BackedState, BackedCheckpoint
<1>3. ASSUME NEW f \in SameDrafts(fs), NEW s \in BackedState(D), Decide(f, s)
      PROVE  Inv'
  <2>1. st' \in BackedState(D) BY <1>3, CpBacked, NoCheckpointBacked DEF Decide
  <2>2. run' \in BackedProcess(D) BY <1>1, <1>3, PcBacked DEF Decide
  <2>3. fs' \in SameDrafts(fs) /\ disk' \in BackedState(D) BY <1>1, <1>3 DEF Decide
  <2>4. QED BY <2>1, <2>2, <2>3, Preserved
<1>4. CASE Approve
  <2>1. ApproveFiles(fs, st.cp) \in SameDrafts(fs) BY <1>1, <1>2, ReviewFiles
  <2>2. Approved(st, st.cp) \in BackedState(D) BY <1>1, <1>2, ApprovedBacked
  <2>3. QED BY <1>3, <1>4, <2>1, <2>2 DEF Approve
<1>5. CASE Modify
  <2>1. CleanStaging(fs) \in SameDrafts(fs) BY <1>1, StagingFiles
  <2>2. Modified(st, st.cp) \in BackedState(D) BY <1>1, <1>2, ModifiedBacked
  <2>3. QED BY <1>3, <1>5, <2>1, <2>2 DEF Modify
<1>6. CASE Reject
  <2>1. \A others \in BOOLEAN : RejectFiles(fs, st.cp, others) \in SameDrafts(fs)
    BY <1>1, <1>2, ReviewFiles
  <2>2. Rejected(st, st.cp) \in BackedState(D) BY <1>1, <1>2, RejectedBacked
  <2>3. QED BY <1>3, <1>6, <2>1, <2>2 DEF Reject
<1>7. QED BY <1>4, <1>5, <1>6

LEMMA ResidualFiles ==
  ASSUME NEW f \in Files, NEW s
  PROVE  ResidualCleanup(f, s) \in SameDrafts(f)
BY StagingFiles DEF ResidualCleanup

LEMMA NextInv ==
  ASSUME Inv, CmdNext
  PROVE  Inv'
<1>1. fs' \in SameDrafts(fs) BY ResidualFiles DEF Inv, CmdNext
<1>2. run' \in BackedProcess(fs.drafts) BY PcBacked DEF Inv, CmdNext
<1>3. QED BY <1>1, <1>2, Preserved DEF Inv, CmdNext

\* The cursor of a backed state has not run ahead of the drafts, so resume
\* leaves it where it is.
LEMMA ClampedBacked ==
  ASSUME NEW f \in Files, NEW s \in BackedState(f.drafts)
  PROVE  Clamped(s, f) = s
<1>1. s.current \in Nat BY DEF BackedState, State, Chapters
<1>2. s.current > 1 => s.current - 1 \in f.drafts
  BY <1>1 DEF BackedState
<1>3. ~RanAhead(s, f) BY <1>1, <1>2 DEF RanAhead
<1>4. QED BY <1>3 DEF Clamped

LEMMA ToClosureBacked ==
  ASSUME NEW D, NEW s \in BackedState(D), 1..TotalChapters \subseteq D
  PROVE  ToClosure(s) \in BackedState(D)
BY DEF ToClosure, BackedState, State, Phases

LEMMA ConsumedBacked ==
  ASSUME NEW D, NEW s \in BackedState(D), NEW snapshotFails \in BOOLEAN
  PROVE  Consumed(s, snapshotFails) \in BackedState(D)
<1> DEFINE kept == IF snapshotFails THEN s ELSE Popped(s)
<1>1. s.events \in Seq(BackedCheckpoint(D)) BY DEF BackedState
<1>2. kept \in BackedState(D)
  <2>1. CASE s.events = <<>> BY <2>1 DEF Popped
  <2>2. CASE s.events # <<>>
    <3>1. SubSeq(s.events, 1, Len(s.events) - 1) \in Seq(BackedCheckpoint(D))
      BY <1>1, <2>2, FrontSeq
    <3>2. Popped(s) \in BackedState(D) BY <2>2, <3>1, EventsBacked DEF Popped
    <3>3. QED BY <3>2
  <2>3. QED BY <2>1, <2>2
<1>3. CASE LastBoundaryApproved(s)
  <2>1. s.events # <<>> BY <1>3 DEF LastBoundaryApproved, BoundaryApproved
  <2>2. s.events[Len(s.events)] \in BackedCheckpoint(D) BY <1>1, <2>1, FrontSeq
  <2>3. 1..s.events[Len(s.events)].chapter \subseteq D
    BY <1>3, <2>2 DEF LastBoundaryApproved, BoundaryApproved, BackedCheckpoint
  <2>4. /\ s.events[Len(s.events)].chapter \in Nat
        /\ s.events[Len(s.events)].chapter >= TotalChapters
    BY <1>3, <2>2 DEF LastBoundaryApproved, BackedCheckpoint, Checkpoint
  <2>5. 1..TotalChapters \subseteq D BY <2>3, <2>4
  <2>6. QED BY <1>2, <1>3, <2>5, ToClosureBacked DEF Consumed
<1>4. CASE ~LastBoundaryApproved(s) BY <1>2, <1>4 DEF Consumed
<1>5. QED BY <1>3, <1>4

LEMMA ResumeInv ==
  ASSUME Inv, CmdResume
  PROVE  Inv'
<1>1. fs \in Files /\ st \in BackedState(fs.drafts) /\ disk \in BackedState(fs.drafts)
      /\ run \in BackedProcess(fs.drafts)
  BY DEF Inv
<1>2. PICK snapshotFails \in BOOLEAN :
        LET s == Consumed(Clamped(st, fs), snapshotFails) IN
        /\ disk' = IF snapshotFails THEN disk ELSE s
        /\ IF st.cp # NoCheckpoint
           THEN st' = disk' /\ UNCHANGED <<fs, run>>
           ELSE /\ st' = s
                /\ fs' = ResidualCleanup(fs, s)
                /\ run' = [run EXCEPT !.pc = "top"]
  BY DEF CmdResume
<1> DEFINE s == Consumed(Clamped(st, fs), snapshotFails)
<1>3. s \in BackedState(fs.drafts) BY <1>1, ClampedBacked, ConsumedBacked
<1>4. disk' \in BackedState(fs.drafts) BY <1>1, <1>2, <1>3
<1>5. CASE st.cp # NoCheckpoint
  <2>1. st' = disk' /\ fs' = fs /\ run' = run BY <1>2, <1>5
  <2>2. QED BY <1>1, <1>4, <2>1, StagingFiles, Preserved
<1>6. CASE st.cp = NoCheckpoint
  <2>1. st' = s /\ fs' = ResidualCleanup(fs, s) /\ run' = [run EXCEPT !.pc = "top"]
    BY <1>2, <1>6
  <2>2. fs' \in SameDrafts(fs) BY <1>1, <2>1, ResidualFiles
  <2>3. run' \in BackedProcess(fs.drafts) BY <1>1, <2>1, PcBacked
  <2>4. QED BY <1>3, <1>4, <2>1, <2>2, <2>3, Preserved
<1>7. QED BY <1>5, <1>6

-----------------------------------------------------------------------------
(* How a process ends, and the re-dispatch queue.                          *)

LEMMA ProcessEndsInv ==
  ASSUME Inv, ProcessEnds
  PROVE  Inv'
<1> DEFINE D == fs.drafts
<1>1. /\ st \in BackedState(D) /\ fs \in Files /\ disk \in BackedState(D)
      /\ run \in BackedProcess(D)
  BY DEF Inv
<1>2. fs \in SameDrafts(fs) /\ KeepMarked(fs) \in SameDrafts(fs) BY <1>1, StagingFiles
<1>3. CASE Save BY <1>1, <1>2, <1>3, PcBacked, Preserved DEF Save
<1>4. CASE Finish
  <2>1. run' \in BackedProcess(D) BY <1>1, <1>4, PcBacked, IdleBacked DEF Finish
  <2>2. QED BY <1>1, <1>2, <1>4, <2>1, Preserved DEF Finish
<1>5. CASE AtExit BY <1>1, <1>2, <1>5, IdleBacked, Preserved DEF AtExit
<1>6. CASE Kill BY <1>1, <1>2, <1>6, IdleBacked, Preserved DEF Kill
<1>7. CASE Shutdown
  <2>1. st.current \in 0..Horizon BY <1>1 DEF BackedState, State, Chapters
  <2>2. st' \in BackedState(D) BY <1>1, <1>7, <2>1, EscalatedBacked DEF Shutdown
  <2>3. run' \in BackedProcess(D) BY <1>1, <1>7, PcBacked DEF Shutdown
  <2>4. QED BY <1>1, <1>2, <1>7, <2>2, <2>3, Preserved DEF Shutdown
<1>8. QED BY <1>3, <1>4, <1>5, <1>6, <1>7 DEF ProcessEnds

LEMMA LandedFiles ==
  ASSUME NEW f \in Files, NEW e \in Entry
  PROVE  Landed(f, e) \in SameDrafts(f)
<1>1. e.chapter \in 0..Horizon BY DEF Entry
<1>2. [f EXCEPT !.stagedPlans = @ \cup {e.chapter}] \in SameDrafts(f)
  BY <1>1 DEF SameDrafts, Files
<1>3. QED BY <1>1, <1>2, SettlementFiles, StagingFiles DEF Landed

LEMMA ReRaisedBacked ==
  ASSUME NEW D, NEW s \in BackedState(D), NEW e \in BackedEntry(D)
  PROVE  ReRaised(s, e) \in BackedState(D)
<1>1. CASE e.skill = "settle"
  <2>1. At("state-settle", e.chapter) \in BackedCheckpoint(D)
    BY <1>1 DEF At, BackedCheckpoint, Checkpoint, CheckpointTypes, BackedEntry, Entry,
                DraftReaders
  <2>2. QED BY <1>1, <2>1, CpBacked DEF ReRaised
<1>2. CASE e.skill = "planning"
  <2>1. At("chapter-memo", e.chapter) \in BackedCheckpoint(D)
    BY DEF At, BackedCheckpoint, Checkpoint, CheckpointTypes, BackedEntry, Entry
  <2>2. QED BY <1>2, <2>1, CpBacked DEF ReRaised
<1>3. CASE e.skill \notin {"settle", "planning"} BY <1>3 DEF ReRaised
<1>4. QED BY <1>1, <1>2, <1>3

LEMMA AgainBacked ==
  ASSUME NEW D, NEW e \in BackedEntry(D)
  PROVE  /\ [e EXCEPT !.attempts = @ + 1] \in BackedEntry(D)
         /\ [e EXCEPT !.attempts = @ + 1] \in Entry
BY DEF BackedEntry, Entry

LEMMA QueuePassInv ==
  ASSUME Inv, QueuePass
  PROVE  Inv'
<1> DEFINE D == fs.drafts
<1>1. /\ st \in BackedState(D) /\ fs \in Files /\ disk \in BackedState(D)
      /\ run \in BackedProcess(D)
  BY DEF Inv
<1>2. fs \in SameDrafts(fs) BY <1>1, StagingFiles
<1>3. /\ run \in Process
      /\ run.todo \in Seq(BackedEntry(D)) /\ run.kept \in Seq(BackedEntry(D))
      /\ run.dropped \in Seq(Entry)
  BY <1>1 DEF BackedProcess, Process
<1>4. BackedEntry(D) \subseteq Entry BY DEF BackedEntry
<1>5. ASSUME InQueuePass
      PROVE  Head(run.todo) \in BackedEntry(D) /\ Tail(run.todo) \in Seq(BackedEntry(D))
  BY <1>3, <1>5, HeadTailProperties DEF InQueuePass
<1>6. CASE QueueBegin
  <2>1. st.queue \in Seq(BackedEntry(D)) BY <1>1 DEF BackedState
  <2>2. st.queue \in Seq(Entry) BY <1>4, <2>1, SeqMonotone
  <2>3. run' \in BackedProcess(D)
    BY <1>3, <1>6, <2>1, <2>2, EmptySeq DEF QueueBegin, BackedProcess, Process
  <2>4. QED BY <1>1, <1>2, <1>6, <2>3, Preserved DEF QueueBegin
<1>7. CASE EntryDone
  <2>1. /\ Head(run.todo) \in BackedEntry(D) /\ Head(run.todo) \in Entry
        /\ Tail(run.todo) \in Seq(BackedEntry(D)) /\ Tail(run.todo) \in Seq(Entry)
    BY <1>4, <1>5, <1>7, SeqMonotone DEF EntryDone
  <2>2. fs' \in SameDrafts(fs) BY <1>1, <1>7, <2>1, LandedFiles DEF EntryDone
  <2>3. st' \in BackedState(D) BY <1>1, <1>7, <2>1, ReRaisedBacked DEF EntryDone
  <2>4. run' \in BackedProcess(D)
    BY <1>3, <1>7, <2>1 DEF EntryDone, BackedProcess, Process
  <2>5. QED BY <1>1, <1>7, <2>2, <2>3, <2>4, Preserved DEF EntryDone
<1>8. CASE EntryFails
  <2> DEFINE e     == Head(run.todo)
             again == [e EXCEPT !.attempts = @ + 1]
  <2>1. /\ e \in BackedEntry(D) /\ e \in Entry
        /\ Tail(run.todo) \in Seq(BackedEntry(D)) /\ Tail(run.todo) \in Seq(Entry)
    BY <1>4, <1>5, <1>8, SeqMonotone DEF EntryFails
  <2>2. again \in BackedEntry(D) /\ again \in Entry
    BY <2>1, AgainBacked
  <2>3. /\ Append(run.kept, again) \in Seq(BackedEntry(D))
        /\ Append(run.kept, again) \in Seq(Entry)
        /\ Append(run.dropped, e) \in Seq(Entry)
        /\ Append(run.dropped, again) \in Seq(Entry)
    BY <1>3, <1>4, <2>1, <2>2, SeqMonotone, AppendProperties
  <2>4. fs' \in SameDrafts(fs)
    BY <1>1, <1>2, <1>8, <2>1, LandedFiles DEF EntryFails
  <2>5. \/ run' = [run EXCEPT !.todo = Tail(@), !.dropped = Append(@, e)]
        \/ run' = [run EXCEPT !.todo = Tail(@), !.dropped = Append(@, again)]
        \/ run' = [run EXCEPT !.todo = Tail(@), !.kept = Append(@, again)]
    BY <1>8 DEF EntryFails
  <2>6. run' \in BackedProcess(D)
    BY <1>3, <2>1, <2>3, <2>5 DEF BackedProcess, Process
  <2>7. QED BY <1>1, <1>8, <2>4, <2>6, Preserved DEF EntryFails
<1>9. CASE QueueEnd
  <2> DEFINE left == [st EXCEPT !.queue = run.kept]
  <2>1. left \in BackedState(D) BY <1>1, <1>3, QueueBacked
  <2>2. run.dropped # <<>> => Head(run.dropped).chapter \in 0..Horizon
    <3>1. run.dropped # <<>> => Head(run.dropped) \in Entry BY <1>3, HeadTailProperties
    <3>2. QED BY <3>1 DEF Entry
  <2>3. run.kept # <<>> => Head(run.kept).chapter \in 0..Horizon
    BY <1>3, <1>4, HeadTailProperties DEF Entry
  <2>4. st' \in BackedState(D)
    BY <1>9, <2>1, <2>2, <2>3, EscalatedBacked DEF QueueEnd
  <2>5. run' \in BackedProcess(D)
    BY <1>3, <1>9, EmptySeq DEF QueueEnd, BackedProcess, Process
  <2>6. QED BY <1>2, <1>9, <2>4, <2>5, Preserved DEF QueueEnd
<1>10. QED BY <1>6, <1>7, <1>8, <1>9 DEF QueuePass

-----------------------------------------------------------------------------
(* The chapter loop.                                                       *)

\* The steps differ in what they do to the state and to staging; all of them
\* continue or stop, so all of them leave a backed process.
LEMMA StepPreserved ==
  ASSUME Inv, Continue \/ Stop,
         fs' \in SameDrafts(fs), st' \in BackedState(fs.drafts),
         disk' \in BackedState(fs.drafts)
  PROVE  Inv'
<1>1. run \in BackedProcess(fs.drafts) /\ run.armed \in BOOLEAN
  BY DEF Inv, BackedProcess, Process
<1>2. \A pc \in {"save", "exit"} : [run EXCEPT !.pc = pc] \in BackedProcess(fs.drafts)
  BY <1>1, PcBacked
<1>3. run' \in BackedProcess(fs.drafts) BY <1>2 DEF Continue, Stop
<1>4. QED BY <1>3, Preserved

LEMMA StopAtInv ==
  ASSUME Inv, NEW s \in BackedState(fs.drafts), StopAt(s)
  PROVE  Inv'
<1>1. fs' = fs /\ st' = s /\ disk' = s /\ Stop BY DEF StopAt
<1>2. fs' \in SameDrafts(fs) BY <1>1, StagingFiles DEF Inv
<1>3. QED BY <1>1, <1>2, StepPreserved

LEMMA StepsTypes ==
  /\ /\ {AlignStep, PlanStep, PrepareStep, DraftStep, SplitStep, ExtractStep} \subseteq Steps
     /\ {DriftStep, LifecycleStep, SettleStep, AuditStep, RevisionStep, PastEnd} \subseteq Steps
  /\ \A i \in {AlignStep, PlanStep, PrepareStep, DraftStep, SplitStep} : ~(i > SplitStep)
  /\ \A i \in {ExtractStep, DriftStep, LifecycleStep, SettleStep, AuditStep,
               RevisionStep, PastEnd} : i > SplitStep
BY DEF Steps, AlignStep, PlanStep, PrepareStep, DraftStep, SplitStep, ExtractStep,
       DriftStep, LifecycleStep, SettleStep, AuditStep, RevisionStep, PastEnd

LEMMA CursorFacts ==
  ASSUME Inv
  PROVE  /\ st.current \in Chapters /\ st.current \in 0..Horizon
         /\ Prev \in Nat /\ Prev \in 0..Horizon
         /\ 1..Prev \subseteq fs.drafts
BY DEF Inv, BackedState, State, Chapters, Prev

LEMMA ChapterTopInv ==
  ASSUME Inv, ChapterTop
  PROVE  Inv'
<1> DEFINE D == fs.drafts
<1>1. /\ st \in BackedState(D) /\ fs \in Files /\ disk \in BackedState(D)
      /\ run \in BackedProcess(D)
  BY DEF Inv
<1>2. fs \in SameDrafts(fs) BY <1>1, StagingFiles
<1>3. CASE TriggerFails
  <2>1. Escalated(st, Prev) \in BackedState(D) BY <1>1, CursorFacts, EscalatedBacked
  <2>2. QED BY <1>3, <2>1, StopAtInv DEF TriggerFails
<1>4. CASE VolumeBoundary
  <2>1. At("volume-boundary", Prev) \in BackedCheckpoint(D)
    BY CursorFacts DEF At, BackedCheckpoint, Checkpoint, CheckpointTypes
  <2>2. [st EXCEPT !.cp = At("volume-boundary", Prev)] \in BackedState(D)
    BY <1>1, <2>1, CpBacked
  <2>3. [[st EXCEPT !.cp = At("volume-boundary", Prev)] EXCEPT !.step = PlanStep]
          \in BackedState(D)
    BY <2>2, StepsTypes, StepBacked
  <2>4. [st EXCEPT !.cp = At("volume-boundary", Prev), !.step = PlanStep]
          \in BackedState(D)
    BY <2>3
  <2>5. QED BY <1>4, <2>4, StopAtInv DEF VolumeBoundary
<1>5. CASE TriggersAtCheckpoint
  <2>1. [st EXCEPT !.step = PlanStep] \in BackedState(D)
    BY <1>1, StepsTypes, StepBacked
  <2>2. QED BY <1>5, <2>1, StopAtInv DEF TriggersAtCheckpoint
<1>6. CASE EnterClosure
  <2>1. 1..TotalChapters \subseteq D BY <1>6, CursorFacts DEF EnterClosure
  <2>2. st' \in BackedState(D) BY <1>1, <1>6, <2>1, ToClosureBacked DEF EnterClosure
  <2>3. QED BY <1>1, <1>2, <1>6, <2>2, Preserved DEF EnterClosure
<1>7. CASE VolumeAlign
  <2>1. [st EXCEPT !.step = PlanStep] \in BackedState(D)
    BY <1>1, StepsTypes, StepBacked
  <2>2. st.begun \cup {st.current} \subseteq Nat
    BY <1>1, CursorFacts DEF BackedState, State
  <2>3. st' \in BackedState(D)
    BY <1>7, <2>1, <2>2 DEF VolumeAlign, BackedState, State
  <2>4. run' \in BackedProcess(D) BY <1>1, <1>7, PcBacked DEF VolumeAlign
  <2>5. QED BY <1>1, <1>2, <1>7, <2>3, <2>4, Preserved DEF VolumeAlign
<1>8. QED BY <1>3, <1>4, <1>5, <1>6, <1>7 DEF ChapterTop

LEMMA StepFailsInv ==
  ASSUME Inv, NEW f \in SameDrafts(fs), StepFails(f)
  PROVE  Inv'
<1>1. Escalated(st, st.current) \in BackedState(fs.drafts)
  BY CursorFacts, EscalatedBacked DEF Inv
<1>2. st' \in BackedState(fs.drafts) BY <1>1 DEF Inv, StepFails
<1>3. Continue \/ Stop BY DEF StepFails
<1>4. fs' \in SameDrafts(fs) /\ disk' \in BackedState(fs.drafts) BY DEF Inv, StepFails
<1>5. QED BY <1>2, <1>3, <1>4, StepPreserved

LEMMA PlanningInv ==
  ASSUME Inv, Planning
  PROVE  Inv'
<1> DEFINE D == fs.drafts
           planned == [st EXCEPT !.step = PrepareStep,
                                 !.begun = @ \cup Bundle(st.current)]
<1>1. /\ st \in BackedState(D) /\ fs \in Files /\ disk \in BackedState(D)
  BY DEF Inv
<1>2. Bundle(st.current) \in SUBSET Nat /\ st.current \in Nat
  BY CursorFacts, BundleFacts, BookAssumption
<1>3. fs \in SameDrafts(fs) /\ StagePlans(fs) \in SameDrafts(fs)
  BY <1>1, <1>2 DEF StagePlans, SameDrafts, Files
<1>4. StagePlans(fs) \in Files BY <1>3 DEF SameDrafts
<1>5. CASE \E f \in {fs, StagePlans(fs)} : StepFails(f)
  BY <1>3, <1>5, StepFailsInv
<1>6. planned \in BackedState(D)
  <2>1. [st EXCEPT !.step = PrepareStep] \in BackedState(D)
    BY <1>1, StepsTypes, StepBacked
  <2>2. QED BY <1>2, <2>1 DEF BackedState, State
<1>7. CASE /\ disk' = disk /\ MemoReview
           /\ st' = [planned EXCEPT !.cp = At("chapter-memo", st.current)]
           /\ fs' = MarkPlans(StagePlans(fs), Bundle(st.current))
           /\ Stop
  <2>1. At("chapter-memo", st.current) \in BackedCheckpoint(D)
    BY CursorFacts DEF At, BackedCheckpoint, Checkpoint, CheckpointTypes
  <2>2. st' \in BackedState(D) BY <1>6, <1>7, <2>1, CpBacked
  <2>3. fs' \in SameDrafts(fs)
    BY <1>2, <1>3, <1>4, <1>7, StagingFiles, SameDraftsTransitive
  <2>4. QED BY <1>1, <1>7, <2>2, <2>3, StepPreserved
<1>8. CASE /\ disk' = disk /\ st' = planned
           /\ fs' = CleanStaging(CommitPlans(StagePlans(fs), Bundle(st.current)))
           /\ Continue
  <2> DEFINE g == CommitPlans(StagePlans(fs), Bundle(st.current))
  <2>1. g \in SameDrafts(fs) BY <1>2, <1>3, <1>4, StagingFiles, SameDraftsTransitive
  <2>2. g \in Files BY <2>1 DEF SameDrafts
  <2>3. fs' \in SameDrafts(fs) BY <1>8, <2>1, <2>2, StagingFiles, SameDraftsTransitive
  <2>4. QED BY <1>1, <1>6, <1>8, <2>3, StepPreserved
<1>9. QED BY <1>5, <1>7, <1>8 DEF Planning

LEMMA DraftingInv ==
  ASSUME Inv, ContextPrepare \/ Drafting
  PROVE  Inv'
<1> DEFINE D == fs.drafts
<1>1. /\ st \in BackedState(D) /\ fs \in Files /\ disk \in BackedState(D)
  BY DEF Inv
<1>2. fs \in SameDrafts(fs) /\ StageCluster(fs) \in SameDrafts(fs)
  BY <1>1, CursorFacts DEF StageCluster, SameDrafts, Files
<1>3. /\ [st EXCEPT !.step = DraftStep] \in BackedState(D)
      /\ [st EXCEPT !.step = SplitStep] \in BackedState(D)
  BY <1>1, StepsTypes, StepBacked
<1>4. CASE ContextPrepare BY <1>1, <1>2, <1>3, <1>4, StepPreserved DEF ContextPrepare
<1>5. CASE \E f \in {fs, StageCluster(fs)} : StepFails(f)
  BY <1>2, <1>5, StepFailsInv
<1>6. CASE /\ st' = [st EXCEPT !.step = SplitStep]
           /\ fs' = StageCluster(fs) /\ Continue /\ disk' = disk
  BY <1>1, <1>2, <1>3, <1>6, StepPreserved
<1>7. QED BY <1>4, <1>5, <1>6 DEF Drafting

\* The one place where drafts appear, and where the cursor may go on to the
\* steps that read them.
LEMMA SceneSplitInv ==
  ASSUME Inv, SceneSplit \/ SceneSplitFails \/ SceneSplitTorn
  PROVE  Inv'
<1> DEFINE D == fs.drafts
           E == fs.drafts \cup Bundle(st.current)
<1>1. /\ st \in BackedState(D) /\ fs \in Files /\ disk \in BackedState(D)
      /\ run \in BackedProcess(D)
  BY DEF Inv
<1>2. Promote(fs) \in Files /\ Promote(fs).drafts = E
  <2>1. Bundle(st.current) \subseteq Nat BY CursorFacts, BundleFacts
  <2>2. QED BY <1>1, <2>1 DEF Promote, Files
<1>3. /\ st \in BackedState(E) /\ disk \in BackedState(E) /\ run \in BackedProcess(E)
  BY <1>1, Monotone
<1>4. ASSUME NEW F, F \in {D, E} PROVE run \in BackedProcess(F) => 
        [run EXCEPT !.pc = "save"] \in BackedProcess(F) /\ [run EXCEPT !.pc = "exit"] \in BackedProcess(F)
  BY PcBacked
<1>5. CASE SceneSplit
  <2>1. [st EXCEPT !.step = ExtractStep] \in BackedState(E)
    BY <1>3, StepsTypes, StepBacked
  <2>2. QED BY <1>2, <1>3, <1>4, <1>5, <2>1 DEF SceneSplit, Continue, Inv
<1>6. CASE SceneSplitFails
  <2>1. fs' = fs \/ fs' = Promote(fs) BY <1>6 DEF SceneSplitFails
  <2>2. fs' \in Files /\ fs'.drafts \in {D, E} BY <1>1, <1>2, <2>1
  <2>3. ASSUME NEW F, F \in {D, E} 
        PROVE  st' \in BackedState(F) /\ disk' \in BackedState(F) /\ run' \in BackedProcess(F)
    <3>1. st \in BackedState(F) /\ disk \in BackedState(F) /\ run \in BackedProcess(F)
      BY <1>1, <1>3, <2>3
    <3>2. /\ [st EXCEPT !.step = DraftStep] \in BackedState(F)
          /\ Escalated(st, st.current) \in BackedState(F)
      BY <3>1, StepsTypes, StepBacked, CursorFacts, EscalatedBacked
    <3>3. run' \in BackedProcess(F)
      BY <1>4, <1>6, <2>3, <3>1 DEF SceneSplitFails, Continue, Stop
    <3>4. QED BY <1>6, <3>1, <3>2, <3>3 DEF SceneSplitFails
  <2>4. QED BY <2>2, <2>3 DEF Inv
<1>7. CASE SceneSplitTorn
  <2> DEFINE F == D \cup {st.current}
  <2>1. fs' \in Files /\ fs'.drafts = F
    <3>1. st.current \in Nat BY CursorFacts DEF Chapters
    <3>2. fs' = [fs EXCEPT !.drafts = @ \cup {st.current}] BY <1>7 DEF SceneSplitTorn
    <3>3. QED BY <1>1, <3>1, <3>2 DEF Files
  <2>2. st' = disk /\ disk' = disk /\ run' = Idle BY <1>7 DEF SceneSplitTorn
  <2>3. disk \in BackedState(F)
    <3>1. D \subseteq F OBVIOUS
    <3>2. QED BY <1>1, <3>1, Monotone
  <2>4. QED BY <2>1, <2>2, <2>3, IdleBacked DEF Inv
<1>8. QED BY <1>5, <1>6, <1>7

\* Past the split every step finds the bundle's drafts.
LEMMA PastSplit ==
  ASSUME Inv, NEW i \in {ExtractStep, DriftStep, LifecycleStep, SettleStep, AuditStep,
                         RevisionStep, PastEnd}, AtStep(i)
  PROVE  /\ Bundle(st.current) \subseteq fs.drafts
         /\ \A j \in Steps : [st EXCEPT !.step = j] \in BackedState(fs.drafts)
<1>1. st \in BackedState(fs.drafts) BY DEF Inv
<1>2. Bundle(st.current) \subseteq fs.drafts
  BY <1>1, StepsTypes DEF AtStep, BackedState
<1>3. QED BY <1>1, <1>2, StepBacked

LEMMA RefuseUndraftedInv ==
  ASSUME Inv, RefuseUndrafted
  PROVE  Inv'
<1>1. fs' = fs /\ disk' = disk /\ Stop /\ st' = Escalated(st, st.current)
  BY DEF RefuseUndrafted
<1>2. st' \in BackedState(fs.drafts) BY <1>1, CursorFacts, EscalatedBacked DEF Inv
<1>3. QED BY <1>1, <1>2, StagingFiles, StepPreserved DEF Inv

LEMMA PostDraftInv ==
  ASSUME Inv, PostDraftExtract \/ LinguisticDrift
  PROVE  Inv'
<1>1. fs \in SameDrafts(fs) BY StagingFiles DEF Inv
<1>2. CASE PostDraftExtract
  <2>1. st' \in BackedState(fs.drafts)
    BY <1>2, PastSplit, StepsTypes DEF PostDraftExtract
  <2>2. QED BY <1>1, <1>2, <2>1, StepPreserved DEF PostDraftExtract, Inv
<1>3. CASE LinguisticDrift
  <2>1. [st EXCEPT !.step = LifecycleStep] \in BackedState(fs.drafts)
    BY <1>3, PastSplit, StepsTypes DEF LinguisticDrift
  <2>2. Escalated(st, st.current) \in BackedState(fs.drafts)
    BY CursorFacts, EscalatedBacked DEF Inv
  <2>3. st' \in BackedState(fs.drafts) BY <1>3, <2>1, <2>2 DEF LinguisticDrift
  <2>4. QED BY <1>1, <1>3, <2>3, StepPreserved DEF LinguisticDrift, Inv
<1>4. QED BY <1>2, <1>3

LEMMA SettleInv ==
  ASSUME Inv, SettlePair \/ SettleAgain
  PROVE  Inv'
<1> DEFINE D == fs.drafts
           staged == StageTruth(fs, st.current)
<1>1. fs \in Files /\ disk \in BackedState(D) BY DEF Inv
<1>2. AtStep(LifecycleStep) \/ AtStep(SettleStep) BY DEF SettlePair, SettleAgain
<1>3. /\ Bundle(st.current) \subseteq D
      /\ [st EXCEPT !.step = AuditStep] \in BackedState(D)
  BY <1>2, PastSplit, StepsTypes
<1>4. fs \in SameDrafts(fs) /\ staged \in SameDrafts(fs)
  BY <1>1, CursorFacts, StagingFiles, SettlementFiles
<1>5. staged \in Files BY <1>4 DEF SameDrafts
<1>6. CASE RefuseUndrafted BY <1>6, RefuseUndraftedInv
<1>7. CASE \E f \in {fs, staged} : StepFails(f) BY <1>4, <1>7, StepFailsInv
<1>8. CASE /\ disk' = disk /\ Stop /\ fs' = MarkTruth(staged)
           /\ st' = [st EXCEPT !.step = AuditStep, !.cp = At("state-settle", st.current)]
  <2>1. At("state-settle", st.current) \in BackedCheckpoint(D)
    BY <1>3, CursorFacts DEF At, BackedCheckpoint, Checkpoint, CheckpointTypes
  <2>2. [[st EXCEPT !.step = AuditStep] EXCEPT !.cp = At("state-settle", st.current)]
          \in BackedState(D)
    BY <1>3, <2>1, CpBacked
  <2>3. st' \in BackedState(D) BY <1>8, <2>2
  <2>4. fs' \in SameDrafts(fs) BY <1>4, <1>5, <1>8, StagingFiles, SameDraftsTransitive
  <2>5. QED BY <1>1, <1>8, <2>3, <2>4, StepPreserved
<1>9. CASE /\ disk' = disk /\ Continue /\ fs' = CleanStaging(CommitTruth(staged))
           /\ st' = [st EXCEPT !.step = AuditStep]
  <2>1. CommitTruth(staged) \in SameDrafts(fs)
    BY <1>4, <1>5, StagingFiles, SameDraftsTransitive
  <2>2. CommitTruth(staged) \in Files BY <2>1 DEF SameDrafts
  <2>3. fs' \in SameDrafts(fs) BY <1>9, <2>1, <2>2, StagingFiles, SameDraftsTransitive
  <2>4. QED BY <1>1, <1>3, <1>9, <2>3, StepPreserved
<1>10. CASE /\ disk' = disk /\ Continue /\ fs' = staged
            /\ st' = [st EXCEPT !.step = AuditStep]
  BY <1>1, <1>3, <1>4, <1>10, StepPreserved
<1>11. CASE SettlePair
  <2>1. CASE ~Drafted BY <1>6, <1>11, <2>1 DEF SettlePair
  <2>2. CASE Drafted BY <1>7, <1>8, <1>9, <1>11, <2>2 DEF SettlePair
  <2>3. QED BY <2>1, <2>2
<1>12. CASE SettleAgain
  <2>1. CASE ~Drafted BY <1>6, <1>12, <2>1 DEF SettleAgain
  <2>2. CASE Drafted BY <1>7, <1>10, <1>12, <2>2 DEF SettleAgain
  <2>3. QED BY <2>1, <2>2
<1>13. QED BY <1>11, <1>12

LEMMA AuditInv ==
  ASSUME Inv, AuditWave
  PROVE  Inv'
<1> DEFINE D == fs.drafts
<1>1. fs' \in SameDrafts(fs) /\ disk' \in BackedState(D)
  BY StagingFiles DEF Inv, AuditWave
<1>2. [st EXCEPT !.step = RevisionStep] \in BackedState(D)
  BY PastSplit, StepsTypes DEF AuditWave
<1>3. \A route \in BOOLEAN :
        [st EXCEPT !.step = RevisionStep, !.revise = route] \in BackedState(D)
  BY <1>2 DEF BackedState, State
<1>4. /\ \A route \in BOOLEAN :
           Escalated([st EXCEPT !.step = RevisionStep, !.revise = route], st.current)
             \in BackedState(D)
      /\ Escalated([st EXCEPT !.step = RevisionStep], st.current) \in BackedState(D)
  BY <1>2, <1>3, CursorFacts, EscalatedBacked
<1>5. st' \in BackedState(D) /\ (Continue \/ Stop) BY <1>2, <1>3, <1>4 DEF AuditWave
<1>6. QED BY <1>1, <1>5, StepPreserved

\* The cursor moves on: the bundle it leaves behind is drafted.
LEMMA CompleteInv ==
  ASSUME Inv, NEW s \in BackedState(fs.drafts), s.current = st.current,
         Bundle(st.current) \subseteq fs.drafts, fs' \in SameDrafts(fs), Complete(s)
  PROVE  Inv'
<1> DEFINE D == fs.drafts
           closed == [s EXCEPT !.current = NextLeader(st.current),
                               !.step = AlignStep, !.revise = TRUE]
<1>1. 1..(NextLeader(st.current) - 1) \subseteq D
  BY CursorFacts, BundleFacts DEF Prev
<1>2. NextLeader(st.current) \in Chapters
  BY CursorFacts, BundleFacts DEF Complete, Chapters
<1>3. closed \in BackedState(D)
  BY <1>1, <1>2, AlignStepFacts DEF BackedState, State
<1>4. At("per-chapter", st.current) \in BackedCheckpoint(D)
  BY CursorFacts DEF At, BackedCheckpoint, Checkpoint, CheckpointTypes
<1>5. [closed EXCEPT !.cp = At("per-chapter", st.current)] \in BackedState(D)
  BY <1>3, <1>4, CpBacked
<1>6. st' \in BackedState(D) /\ (Continue \/ Stop) BY <1>3, <1>5 DEF Complete
<1>7. disk' \in BackedState(D) BY DEF Inv, Complete
<1>8. QED BY <1>6, <1>7, StepPreserved

LEMMA CompletionRefusedInv ==
  ASSUME Inv, NEW s \in BackedState(fs.drafts), s.current = st.current,
         Bundle(st.current) \subseteq fs.drafts, fs' \in SameDrafts(fs),
         CompletionRefused(s)
  PROVE  Inv'
<1>1. [s EXCEPT !.step = PastEnd] \in BackedState(fs.drafts) BY StepsTypes, StepBacked
<1>2. st' \in BackedState(fs.drafts) /\ disk' \in BackedState(fs.drafts)
  BY <1>1 DEF Inv, CompletionRefused
<1>3. run' \in BackedProcess(fs.drafts)
  <2>1. [run EXCEPT !.pc = "atexit"] \in BackedProcess(fs.drafts) BY PcBacked DEF Inv
  <2>2. QED BY <2>1, IdleBacked DEF CompletionRefused
<1>4. QED BY <1>2, <1>3, Preserved

LEMMA RevisionInv ==
  ASSUME Inv, Revision
  PROVE  Inv'
<1> DEFINE D == fs.drafts
           owed == [st EXCEPT !.queue = Enqueue(@, NewEntry("settle", st.current))]
<1>1. st \in BackedState(D) /\ fs \in Files BY DEF Inv
<1>2. Bundle(st.current) \subseteq D BY PastSplit DEF Revision
<1>3. fs \in SameDrafts(fs) /\ ReviseDraft(fs, st.current) \in SameDrafts(fs)
  BY <1>1, CursorFacts, StagingFiles, SettlementFiles
<1>4. owed \in BackedState(D) /\ owed.current = st.current
  <2>1. NewEntry("settle", st.current) \in BackedEntry(D)
    BY <1>2, CursorFacts DEF NewEntry, BackedEntry, Entry, QueueSkills
  <2>2. owed \in BackedState(D) BY <1>1, <2>1, EnqueueBacked
  <2>3. QED BY <1>1, <2>2 DEF BackedState, State
<1>5. CASE RefuseUndrafted BY <1>5, RefuseUndraftedInv
<1>6. CASE (Complete(st) \/ CompletionRefused(st)) /\ fs' = fs
  BY <1>1, <1>2, <1>3, <1>6, CompleteInv, CompletionRefusedInv
<1>7. CASE \E f \in {fs, ReviseDraft(fs, st.current)} : StepFails(f)
  BY <1>3, <1>7, StepFailsInv
<1>8. CASE /\ fs' = ReviseDraft(fs, st.current)
           /\ Complete(owed) \/ CompletionRefused(owed)
  BY <1>2, <1>3, <1>4, <1>8, CompleteInv, CompletionRefusedInv
<1>9. QED
  <2>1. CASE ~Drafted BY <1>5, <2>1 DEF Revision
  <2>2. CASE Drafted BY <1>6, <1>7, <1>8, <2>2 DEF Revision
  <2>3. QED BY <2>1, <2>2

LEMMA ChapterStepInv ==
  ASSUME Inv, ChapterStep
  PROVE  Inv'
<1>1. CASE StepsConsumed
  <2>1. fs' = fs /\ st' = st /\ disk' = disk /\ Stop BY <1>1 DEF StepsConsumed
  <2>2. QED BY <2>1, StagingFiles, StepPreserved DEF Inv
<1>2. QED BY <1>1, PlanningInv, DraftingInv, SceneSplitInv, PostDraftInv, SettleInv,
             AuditInv, RevisionInv DEF ChapterStep

-----------------------------------------------------------------------------
(* Closure.                                                                *)

LEMMA ClosingInv ==
  ASSUME Inv, Closing
  PROVE  Inv'
<1> DEFINE D == fs.drafts
           done == [st EXCEPT !.closure = @ + 1]
<1>1. st \in BackedState(D) /\ disk \in BackedState(D) /\ fs \in SameDrafts(fs)
  BY StagingFiles DEF Inv
<1>2. fs' = fs /\ disk' = disk BY DEF Closing, ClosureStep, ClosureFails, ClosureRests, Completed
<1>3. \A s \in BackedState(D) : s.phase # "chapter-loop" =>
        [s EXCEPT !.phase = "completed"] \in BackedState(D)
  BY DEF BackedState, State, Phases
<1>4. CASE ClosureStep
  <2>1. done \in BackedState(D)
    <3>1. st.closure + 1 \in 0..ClosureLen BY <1>1, <1>4 DEF ClosureStep, BackedState, State
    <3>2. QED BY <1>1, <3>1 DEF BackedState, State
  <2>2. done.phase # "chapter-loop" BY <1>1, <1>4 DEF ClosureStep, AtClosure, BackedState, State
  <2>3. At("book-closure", 0) \in BackedCheckpoint(D)
    BY DEF At, BackedCheckpoint, Checkpoint, CheckpointTypes
  <2>4. /\ [done EXCEPT !.cp = At("book-closure", 0)] \in BackedState(D)
        /\ [done EXCEPT !.phase = "completed"] \in BackedState(D)
    BY <1>3, <2>1, <2>2, <2>3, CpBacked
  <2>5. st' \in BackedState(D) /\ (Continue \/ Stop) BY <1>4, <2>1, <2>4 DEF ClosureStep
  <2>6. QED BY <1>1, <1>2, <2>5, StepPreserved
<1>5. CASE ClosureFails
  <2>1. 0 \in 0..Horizon OBVIOUS
  <2>2. st' \in BackedState(D) /\ Stop BY <1>1, <1>5, <2>1, EscalatedBacked DEF ClosureFails
  <2>3. QED BY <1>1, <1>2, <2>2, StepPreserved
<1>6. CASE ClosureRests
  <2>1. st.phase # "chapter-loop" BY <1>6 DEF ClosureRests, AtClosure
  <2>2. st' \in BackedState(D) /\ Stop BY <1>1, <1>3, <1>6, <2>1 DEF ClosureRests
  <2>3. QED BY <1>1, <1>2, <2>2, StepPreserved
<1>7. CASE Completed
  <2>1. st' = st /\ Stop BY <1>7 DEF Completed
  <2>2. QED BY <1>1, <1>2, <2>1, StepPreserved
<1>8. QED BY <1>4, <1>5, <1>6, <1>7 DEF Closing

-----------------------------------------------------------------------------
(* The theorems.                                                           *)

LEMMA InitInv == Init => Inv
<1> SUFFICES ASSUME Init PROVE Inv
  OBVIOUS
<1>1. NoTruth \in [Chapters -> Freshness] /\ 0 \in 0..Horizon BY DEF NoTruth, Freshness
<1>2. fs \in Files BY <1>1 DEF Init, NoFiles, Files
<1>3. NoCheckpoint \in Checkpoint /\ NoCheckpoint \in BackedCheckpoint(fs.drafts)
  BY NoCheckpointBacked DEF BackedCheckpoint
<1>4. Start \in State
  BY <1>3, EmptySeq, AlignStepFacts DEF Start, State, Phases, Chapters
<1>5. Start \in BackedState(fs.drafts)
  <2>1. 1..(Start.current - 1) \subseteq fs.drafts BY DEF Start
  <2>2. Start.phase = "chapter-loop" /\ ~(Start.step > SplitStep) BY AlignStepFacts DEF Start
  <2>3. /\ Start.cp \in BackedCheckpoint(fs.drafts)
        /\ Start.events \in Seq(BackedCheckpoint(fs.drafts))
        /\ Start.queue \in Seq(BackedEntry(fs.drafts))
    BY <1>3, EmptySeq DEF Start
  <2>4. QED BY <1>4, <2>1, <2>2, <2>3 DEF BackedState
<1>6. QED BY <1>2, <1>5, IdleBacked DEF Init, Inv

LEMMA NextPreservesInv == Inv /\ [Next]_vars => Inv'
<1> SUFFICES ASSUME Inv, [Next]_vars PROVE Inv'
  OBVIOUS
<1>1. CASE UNCHANGED vars BY <1>1 DEF vars, Inv
<1>2. CASE Command BY <1>2, ReviewInv, NextInv, ResumeInv DEF Command
<1>3. CASE ProcessEnds \/ QueuePass BY <1>3, ProcessEndsInv, QueuePassInv
<1>4. CASE ChapterTop \/ ChapterStep \/ Closing
  BY <1>4, ChapterTopInv, ChapterStepInv, ClosingInv
<1>5. QED BY <1>1, <1>2, <1>3, <1>4 DEF Next

\* What the pipeline remembers is backed by the drafts on disk, always.
THEOREM Backed == Spec => []Inv
BY InitInv, NextPreservesInv, PTL DEF Spec

\* The variables keep their types, whatever the book and the switches.
THEOREM TypeCorrect == Spec => []TypeOK
<1>1. Inv => TypeOK BY DEF Inv, TypeOK, BackedState, BackedProcess
<1>2. QED BY <1>1, Backed, PTL

\* The cursor leaves no chapter without a draft behind.
THEOREM NoChapterSkipped == Spec => []DraftsBehindCursor
<1>1. Inv => DraftsBehindCursor BY DEF Inv, DraftsBehindCursor, BackedState
<1>2. QED BY <1>1, Backed, PTL

\* No skill that reads a draft runs, or waits in the queue, without one.
THEOREM NoGhosts == Spec => []NoGhostChapter
<1>1. Inv => NoGhostChapter
  <2> SUFFICES ASSUME Inv PROVE NoGhostChapter
    OBVIOUS
  <2>1. st.phase = "chapter-loop" /\ st.step \in LifecycleStep..RevisionStep => Drafted
    <3>1. \A i \in LifecycleStep..RevisionStep : i > SplitStep
      BY DEF LifecycleStep, RevisionStep, SplitStep
    <3>2. st.current \in Bundle(st.current) BY CursorFacts, BundleFacts
    <3>3. QED BY <3>1, <3>2 DEF Inv, BackedState, Drafted
  <2>2. ASSUME NEW q \in Seq(BackedEntry(fs.drafts)), NEW i \in DOMAIN q
        PROVE  ~DraftMissing(q[i])
    <3>1. q[i] \in BackedEntry(fs.drafts) BY LenProperties, ElementOfSeq
    <3>2. q[i].chapter \in Bundle(q[i].chapter) BY <3>1 DEF Bundle
    <3>3. QED BY <3>1, <3>2 DEF BackedEntry, DraftMissing
  <2>3. \A q \in {st.queue, run.todo, run.kept} : q \in Seq(BackedEntry(fs.drafts))
    BY DEF Inv, BackedState, BackedProcess
  <2>4. QED BY <2>1, <2>2, <2>3 DEF NoGhostChapter
<1>2. QED BY <1>1, Backed, PTL

\* The book closes only over a complete manuscript.
THEOREM ClosedComplete == Spec => []ClosureIsLate
<1>1. Inv => ClosureIsLate BY DEF Inv, ClosureIsLate, BackedState
<1>2. QED BY <1>1, Backed, PTL

-----------------------------------------------------------------------------
(* The promise of Lifecycle: what a process at work has reached, seen from *)
(* the state file, is one step of that life ahead of it, or none.          *)

\* What may be asked, and what may be owed, of a book whose cursor is at n.
AskedBy(n) ==
  {cp \in Checkpoint :
     /\ cp.type \in {"chapter-memo", "state-settle", "per-chapter"} => cp.chapter \in 1..n
     /\ cp.type = "volume-boundary" => cp.chapter < n
     /\ cp.type = "book-closure" => cp.chapter = 0}
OwedBy(n) == {e \in Entry : e.chapter \in 1..n}

Orderly(s) ==
  /\ s.cp \in AskedBy(s.current)
  /\ s.events \in Seq(AskedBy(s.current))
  /\ s.queue \in Seq(OwedBy(s.current))
  /\ s.phase = "chapter-loop" => s.closure = 0
  /\ s.phase = "completed" => s.queue = <<>> /\ s.cp = NoCheckpoint /\ s.closure = ClosureLen

\* The steps of Lifecycle, as a relation between two states of the file.
Quiet(cp) == cp.type \in {"none", "escalation"}
SameLife(d, s) == s.phase = d.phase /\ s.current = d.current /\ s.cp = d.cp
Alarms == {At("escalation", c) : c \in 0..Horizon}
Products(s) == {At(t, c) : t \in {"chapter-memo", "state-settle"}, c \in 1..s.current}
Boundaries(s) == IF s.phase = "chapter-loop" /\ s.current - 1 \in VolumeEnds
                 THEN {At("volume-boundary", s.current - 1)} ELSE {}
Ending == At("book-closure", 0)

Leads(d, s) ==
  \/ SameLife(d, s)
  \/ /\ s.phase = d.phase /\ s.current = d.current /\ Quiet(d.cp)
     /\ \/ s.cp \in Alarms \cup Products(d) \cup Boundaries(d)
        \/ s.phase = "closure" /\ s.cp = Ending
  \/ /\ s.phase = d.phase \/ (d.cp = Ending /\ s.phase = "chapter-loop")
     /\ s.current = d.current /\ d.cp # NoCheckpoint /\ s.cp = NoCheckpoint
  \/ /\ s.phase = d.phase /\ d.phase = "chapter-loop" /\ Quiet(d.cp)
     /\ s.current = NextLeader(d.current) /\ s.cp \in {d.cp, At("per-chapter", d.current)}
  \/ /\ d.phase = "chapter-loop" /\ s.phase = "closure"
     /\ s.current = d.current /\ d.current > TotalChapters
     /\ \/ s.cp = d.cp
        \/ Quiet(d.cp) /\ s.cp \in Alarms \cup Products(d) \cup {Ending}
  \/ /\ d.phase = "closure" /\ s.phase = "completed"
     /\ s.current = d.current /\ d.cp = NoCheckpoint /\ s.cp = NoCheckpoint
  \/ /\ d.phase = "completed" /\ s.phase = "closure"
     /\ s.current = d.current /\ s.cp = d.cp

\* The phase that a process at work has reached without having saved it.
Abreast ==
  /\ st.current = disk.current /\ Quiet(disk.cp)
  /\ \/ st.phase = disk.phase
     \/ /\ disk.phase = "chapter-loop" /\ st.phase = "closure"
        /\ st.current > TotalChapters /\ st.closure = 0
     \/ /\ disk.phase = "completed" /\ st.phase = "closure"
        /\ st.closure = ClosureLen /\ st.cp = NoCheckpoint /\ st.queue = <<>>

Coupled ==
  /\ run.pc = "idle" => st = disk
  /\ run.pc \in {"top", "queue"} => Abreast
  /\ run.pc = "top" => st.cp = disk.cp
  /\ run.pc = "queue" => st.queue # <<>> /\ (st.cp = disk.cp \/ st.cp \in Products(st))
  /\ run.pc \in {"save", "exit", "atexit", "decided"} => Leads(disk, st)
  /\ run.pc = "save" => Quiet(st.cp)

Promised ==
  /\ Orderly(st) /\ Orderly(disk) /\ Coupled
  /\ \A q \in {run.todo, run.kept, run.dropped} : q \in Seq(OwedBy(st.current))

\* Lifecycle speaks of the same book.
LEMMA SameBook ==
  /\ Promise!NoCheckpoint = NoCheckpoint
  /\ \A t, c : Promise!At(t, c) = At(t, c)
  /\ \A c : Promise!NextLeader(c) = NextLeader(c)
BY DEF Promise!NoCheckpoint, NoCheckpoint, Promise!At, At, Promise!NextLeader, NextLeader,
       Promise!HasFollower, HasFollower

LEMMA SameQuestions ==
  /\ Promise!Alarm = Alarms /\ Promise!Product = Products(disk)
  /\ Promise!Boundary = Boundaries(disk) /\ Promise!Closed = {Ending}
  /\ Promise!Open <=> Quiet(disk.cp)
<1>1. Promise!Alarm = Alarms BY SameBook DEF Promise!Alarm, Alarms
<1>2. Promise!Product = Products(disk) BY SameBook DEF Promise!Product, Products
<1>3. Promise!Boundary = Boundaries(disk) BY SameBook DEF Promise!Boundary, Boundaries
<1>4. Promise!Closed = {Ending} BY SameBook DEF Promise!Closed, Ending
<1>5. QED BY <1>1, <1>2, <1>3, <1>4 DEF Promise!Open, Quiet

LEMMA Simulates ==
  ASSUME Leads(disk, disk')
  PROVE  [Promise!Next]_(Promise!vars)
<1> DEFINE same == disk'.phase = disk.phase /\ disk'.current = disk.current
           atLoop == disk.phase = "chapter-loop"
<1>1. CASE SameLife(disk, disk') BY <1>1 DEF SameLife, Promise!vars
<1>2. CASE /\ same /\ Quiet(disk.cp)
           /\ \/ disk'.cp \in Alarms \cup Products(disk) \cup Boundaries(disk)
              \/ disk'.phase = "closure" /\ disk'.cp = Ending
  <2>1. disk'.cp \in Promise!Questions
    BY <1>2, SameQuestions DEF Promise!Questions
  <2>2. Promise!Ask BY <1>2, <2>1, SameQuestions DEF Promise!Ask
  <2>3. QED BY <2>2 DEF Promise!Next
<1>3. CASE /\ disk'.phase = disk.phase \/ (disk.cp = Ending /\ disk'.phase = "chapter-loop")
           /\ disk'.current = disk.current /\ disk.cp # NoCheckpoint /\ disk'.cp = NoCheckpoint
  <2>1. Promise!Answer BY <1>3, SameBook, SameQuestions DEF Promise!Answer
  <2>2. QED BY <2>1 DEF Promise!Next
<1>4. CASE /\ disk'.phase = disk.phase /\ atLoop /\ Quiet(disk.cp)
           /\ disk'.current = NextLeader(disk.current)
           /\ disk'.cp \in {disk.cp, At("per-chapter", disk.current)}
  <2>1. Promise!FinishChapter BY <1>4, SameBook, SameQuestions DEF Promise!FinishChapter
  <2>2. QED BY <2>1 DEF Promise!Next
<1>5. CASE /\ atLoop /\ disk'.phase = "closure"
           /\ disk'.current = disk.current /\ disk.current > TotalChapters
           /\ \/ disk'.cp = disk.cp
              \/ Quiet(disk.cp) /\ disk'.cp \in Alarms \cup Products(disk) \cup {Ending}
  <2>1. Promise!Close BY <1>5, SameQuestions DEF Promise!Close
  <2>2. QED BY <2>1 DEF Promise!Next
<1>6. CASE /\ disk.phase = "closure" /\ disk'.phase = "completed"
           /\ disk'.current = disk.current /\ disk.cp = NoCheckpoint /\ disk'.cp = NoCheckpoint
  <2>1. Promise!Complete BY <1>6, SameBook DEF Promise!Complete
  <2>2. QED BY <2>1 DEF Promise!Next
<1>7. CASE /\ disk.phase = "completed" /\ disk'.phase = "closure"
           /\ disk'.current = disk.current /\ disk'.cp = disk.cp
  <2>1. Promise!Reopen BY <1>7 DEF Promise!Reopen
  <2>2. QED BY <2>1 DEF Promise!Next
<1>8. QED BY <1>1, <1>2, <1>3, <1>4, <1>5, <1>6, <1>7 DEF Leads

-----------------------------------------------------------------------------

LEMMA TypesOf ==
  ASSUME Inv
  PROVE  st \in State /\ disk \in State /\ run \in Process
BY DEF Inv, BackedState, BackedProcess

LEMMA LaterAsksMore ==
  ASSUME NEW m \in Nat, NEW n \in Nat, m <= n
  PROVE  /\ AskedBy(m) \subseteq AskedBy(n) /\ OwedBy(m) \subseteq OwedBy(n)
         /\ Seq(AskedBy(m)) \subseteq Seq(AskedBy(n))
         /\ Seq(OwedBy(m)) \subseteq Seq(OwedBy(n))
<1>1. 1..m \subseteq 1..n OBVIOUS
<1>2. AskedBy(m) \subseteq AskedBy(n) BY <1>1 DEF AskedBy, Checkpoint
<1>3. OwedBy(m) \subseteq OwedBy(n) BY <1>1 DEF OwedBy
<1>4. QED BY <1>2, <1>3, SeqMonotone

LEMMA AskedFacts ==
  ASSUME NEW n \in Chapters
  PROVE  /\ NoCheckpoint \in AskedBy(n) /\ Alarms \subseteq AskedBy(n)
         /\ Ending \in AskedBy(n)
         /\ \A c \in 1..n : /\ At("chapter-memo", c) \in AskedBy(n)
                            /\ At("state-settle", c) \in AskedBy(n)
                            /\ At("per-chapter", c) \in AskedBy(n)
         /\ \A c \in 0..(n - 1) : At("volume-boundary", c) \in AskedBy(n)
         /\ Quiet(NoCheckpoint) /\ \A a \in Alarms : Quiet(a)
<1>1. \A t \in CheckpointTypes, c \in 0..Horizon :
        /\ At(t, c) \in Checkpoint /\ At(t, c).type = t /\ At(t, c).chapter = c
  BY DEF At, Checkpoint
<1>2. n \in Nat /\ n <= Horizon /\ 0 \in 0..Horizon BY DEF Chapters
<1>3. NoCheckpoint \in AskedBy(n) BY <1>1, <1>2 DEF AskedBy, NoCheckpoint, CheckpointTypes
<1>4. Alarms \subseteq AskedBy(n) BY <1>1 DEF AskedBy, Alarms, CheckpointTypes
<1>5. Ending \in AskedBy(n) BY <1>1, <1>2 DEF AskedBy, Ending, CheckpointTypes
<1>6. ASSUME NEW c \in 1..n
      PROVE  /\ At("chapter-memo", c) \in AskedBy(n) /\ At("state-settle", c) \in AskedBy(n)
             /\ At("per-chapter", c) \in AskedBy(n)
  <2>1. c \in 0..Horizon BY <1>2
  <2>2. QED BY <1>1, <2>1 DEF AskedBy, CheckpointTypes
<1>7. ASSUME NEW c \in 0..(n - 1) PROVE At("volume-boundary", c) \in AskedBy(n)
  <2>1. c \in 0..Horizon /\ c < n BY <1>2
  <2>2. QED BY <1>1, <2>1 DEF AskedBy, CheckpointTypes
<1>8. Quiet(NoCheckpoint) /\ \A a \in Alarms : Quiet(a)
  BY DEF Quiet, NoCheckpoint, Alarms, At
<1>9. QED BY <1>3, <1>4, <1>5, <1>6, <1>7, <1>8

\* A step that leaves the state file alone, and what it has reached is one
\* step of the life ahead of it.
LEMMA Reached ==
  ASSUME Inv, Inv', Promised, disk' = disk, Orderly(st'), st.current <= st'.current,
         Leads(disk, st'), run'.pc \in {"save", "exit", "atexit", "decided"},
         run'.pc = "save" => Quiet(st'.cp),
         run'.todo = run.todo /\ run'.kept = run.kept /\ run'.dropped = run.dropped
  PROVE  Promised' /\ Leads(disk, disk')
<1>1. st.current \in Nat /\ st'.current \in Nat
  BY TypesOf DEF State, Chapters, Inv, BackedState
<1>2. \A q \in {run.todo, run.kept, run.dropped} : q \in Seq(OwedBy(st'.current))
  BY <1>1, LaterAsksMore DEF Promised
<1>3. Orderly(disk') BY DEF Promised
<1>4. Coupled' BY DEF Coupled
<1>5. Leads(disk, disk') BY DEF Leads, SameLife
<1>6. QED BY <1>2, <1>3, <1>4, <1>5 DEF Promised

\* A step that makes memory and state file agree.
LEMMA Persisted ==
  ASSUME disk' = st', Orderly(st'), Leads(disk, st'), run'.pc # "queue",
         run'.pc \in {"top", "save"} => Quiet(st'.cp),
         \A q \in {run'.todo, run'.kept, run'.dropped} : q \in Seq(OwedBy(st'.current))
  PROVE  Promised' /\ Leads(disk, disk')
<1>1. Orderly(disk') OBVIOUS
<1>2. Coupled' BY DEF Coupled, Abreast, Leads, SameLife
<1>3. QED BY <1>1, <1>2 DEF Promised

\* At the top of a chapter memory and state file tell the same life.
LEMMA TopOfChapter ==
  ASSUME Inv, Promised, run.pc = "top", st.phase = "chapter-loop"
  PROVE  /\ SameLife(disk, st) /\ Quiet(disk.cp) /\ Quiet(st.cp)
         /\ Orderly(st) /\ st.closure = 0
         /\ st.current \in Chapters /\ st.current \in Nat
BY TypesOf DEF Promised, Coupled, Abreast, SameLife, Orderly, State, Chapters

\* A chapter step moves the cursor within the chapter, and may call a human
\* or put one of the chapter's products up for review.
LEMMA StepKeeps ==
  ASSUME Inv, Inv', Promised, run.pc = "top", st.phase = "chapter-loop", disk' = disk,
         st'.phase = st.phase, st'.current = st.current, st'.closure = st.closure,
         st'.events = st.events, st'.queue \in Seq(OwedBy(st.current)),
         \/ st'.cp = st.cp /\ run'.pc \in {"save", "exit", "atexit"}
         \/ st'.cp \in Alarms /\ run'.pc \in {"save", "exit"}
         \/ st'.cp \in Products(st) /\ run'.pc = "exit",
         run'.todo = run.todo /\ run'.kept = run.kept /\ run'.dropped = run.dropped
  PROVE  Promised' /\ Leads(disk, disk')
<1>1. /\ SameLife(disk, st) /\ Quiet(disk.cp) /\ Quiet(st.cp) /\ Orderly(st)
      /\ st.current \in Chapters /\ st.current \in Nat
  BY TopOfChapter
<1>2. st'.cp \in AskedBy(st.current)
  BY <1>1, AskedFacts DEF Orderly, Products
<1>3. Orderly(st') BY <1>1, <1>2 DEF Orderly
<1>4. Leads(disk, st')
  BY <1>1 DEF Leads, SameLife, Products
<1>5. run'.pc = "save" => Quiet(st'.cp) BY <1>1, AskedFacts
<1>6. QED BY <1>1, <1>3, <1>4, <1>5, Reached

-----------------------------------------------------------------------------
(* What a review leaves of a state: the same life, with the cursor rewound *)
(* and more of what it owes in the queue.                                  *)

Requeued(s) ==
  {t \in State : /\ t.phase = s.phase /\ t.current = s.current /\ t.cp = s.cp
                 /\ t.events = s.events /\ t.closure = s.closure
                 /\ t.queue \in Seq(OwedBy(s.current))}

LEMMA RequeuedTransitive ==
  ASSUME NEW s, NEW t \in Requeued(s), NEW u \in Requeued(t)
  PROVE  u \in Requeued(s)
BY DEF Requeued

LEMMA EnqueueRequeues ==
  ASSUME NEW s \in State, s.queue \in Seq(OwedBy(s.current)),
         NEW skill \in QueueSkills, NEW c \in 1..s.current
  PROVE  /\ [s EXCEPT !.queue = Enqueue(@, NewEntry(skill, c))] \in Requeued(s)
         /\ Enqueue(s.queue, NewEntry(skill, c)) \in Seq(OwedBy(s.current))
<1> DEFINE q == Enqueue(s.queue, NewEntry(skill, c))
<1>1. NewEntry(skill, c) \in OwedBy(s.current)
  BY DEF NewEntry, OwedBy, Entry, State, Chapters
<1>2. q \in Seq(OwedBy(s.current)) BY <1>1, EnqueueSeq
<1>3. q \in Seq(Entry) BY <1>2, SeqMonotone DEF OwedBy
<1>4. QED BY <1>2, <1>3 DEF Requeued, State

LEMMA RedoRequeues ==
  ASSUME NEW s \in State, s.queue \in Seq(OwedBy(s.current)),
         NEW cp, cp.chapter \in 1..s.current, NEW skill \in QueueSkills, NEW i \in Steps
  PROVE  Redo(s, cp, skill, i) \in Requeued(s)
<1>1. [s EXCEPT !.step = i] \in Requeued(s) BY DEF Requeued, State
<1>2. QED BY <1>1, EnqueueRequeues DEF Redo

LEMMA QueueDerivedRequeues ==
  ASSUME NEW s \in State, s.queue \in Seq(OwedBy(s.current)),
         NEW cp \in AskedBy(s.current)
  PROVE  QueueDerived(s, cp) \in Requeued(s)
<1>1. {"derived", "revision", "settle"} \subseteq QueueSkills BY DEF QueueSkills
<1>2. CASE cp.type \in {"chapter-memo", "state-settle"}
  <2>1. cp.chapter \in 1..s.current BY <1>2 DEF AskedBy
  <2>2. QED BY <1>1, <1>2, <2>1, EnqueueRequeues DEF QueueDerived
<1>3. CASE cp.type = "per-chapter"
  <2> DEFINE t == [s EXCEPT !.queue = Enqueue(@, NewEntry("revision", cp.chapter))]
  <2>1. cp.chapter \in 1..s.current BY <1>3 DEF AskedBy
  <2>2. t \in Requeued(s) BY <1>1, <2>1, EnqueueRequeues
  <2>3. t \in State /\ t.queue \in Seq(OwedBy(t.current)) /\ t.current = s.current
    BY <2>2 DEF Requeued
  <2>4. [t EXCEPT !.queue = Enqueue(@, NewEntry("settle", cp.chapter))] \in Requeued(s)
    BY <1>1, <2>1, <2>2, <2>3, EnqueueRequeues, RequeuedTransitive
  <2>5. QueueDerived(s, cp) = [t EXCEPT !.queue = Enqueue(@, NewEntry("settle", cp.chapter))]
    BY <1>3 DEF QueueDerived, State
  <2>6. QED BY <2>4, <2>5
<1>4. CASE cp.type \notin {"chapter-memo", "state-settle", "per-chapter"}
  BY <1>4 DEF QueueDerived, Requeued
<1>5. QED BY <1>2, <1>3, <1>4

LEMMA RejectedRequeues ==
  ASSUME NEW s \in State, s.queue \in Seq(OwedBy(s.current)),
         NEW cp \in AskedBy(s.current), cp.type # "book-closure"
  PROVE  Rejected(s, cp) \in Requeued(s)
<1>1. {PlanStep, SettleStep, AlignStep} \subseteq Steps /\ {"planning", "settle"} \subseteq QueueSkills
  BY StepsTypes DEF QueueSkills
<1>2. cp.type \in {"chapter-memo", "state-settle"} => cp.chapter \in 1..s.current
  BY DEF AskedBy
<1>3. s \in Requeued(s) /\ [s EXCEPT !.step = AlignStep] \in Requeued(s)
  BY <1>1 DEF Requeued, State
<1>4. QED BY <1>1, <1>2, <1>3, RedoRequeues, QueueDerivedRequeues DEF Rejected

LEMMA ModifiedRequeues ==
  ASSUME NEW s \in State, s.queue \in Seq(OwedBy(s.current)), NEW cp \in AskedBy(s.current)
  PROVE  Modified(s, cp) \in Requeued(s)
<1>1. {PlanStep, SettleStep} \subseteq Steps /\ {"planning", "settle"} \subseteq QueueSkills
  BY StepsTypes DEF QueueSkills
<1>2. ASSUME NEW skill \in {"planning", "settle"}, NEW i \in {PlanStep, SettleStep},
             cp.type \in {"chapter-memo", "state-settle"}
      PROVE  QueueDerived(Redo(s, cp, skill, i), cp) \in Requeued(s)
  <2> DEFINE t == Redo(s, cp, skill, i)
  <2>1. cp.chapter \in 1..s.current BY <1>2 DEF AskedBy
  <2>2. t \in Requeued(s) BY <1>1, <1>2, <2>1, RedoRequeues
  <2>3. t \in State /\ t.queue \in Seq(OwedBy(t.current)) /\ t.current = s.current
    BY <2>2 DEF Requeued
  <2>4. QED BY <2>2, <2>3, QueueDerivedRequeues, RequeuedTransitive
<1>3. QED BY <1>2, QueueDerivedRequeues DEF Modified

LEMMA ReviewKeeps ==
  ASSUME Inv, Inv', Promised, Approve \/ Modify \/ Reject
  PROVE  Promised' /\ Leads(disk, disk')
<1>1. /\ st \in State /\ disk = st /\ Orderly(st) /\ run.pc = "idle"
      /\ st.cp # NoCheckpoint /\ st.phase # "completed" /\ st.current \in Chapters
      /\ st.queue \in Seq(OwedBy(st.current)) /\ st.cp \in AskedBy(st.current)
  BY TypesOf DEF Promised, Coupled, Orderly, Approve, Modify, Reject, Decide, State
<1>2. ASSUME NEW f, NEW s \in State, Decide(f, s), s.current = st.current,
             s.phase = st.phase \/ (st.cp = Ending /\ s.phase = "chapter-loop"),
             s.events \in Seq(AskedBy(st.current)), s.queue \in Seq(OwedBy(st.current)),
             s.phase = "chapter-loop" => s.closure = 0
      PROVE  Promised' /\ Leads(disk, disk')
  <2>1. /\ st' = [s EXCEPT !.cp = NoCheckpoint] /\ disk' = disk
        /\ run' = [run EXCEPT !.pc = "decided"]
    BY <1>2 DEF Decide
  <2>2. /\ st'.phase = s.phase /\ st'.current = st.current /\ st'.cp = NoCheckpoint
        /\ st'.events = s.events /\ st'.queue = s.queue /\ st'.closure = s.closure
    BY <1>2, <2>1 DEF State
  <2>3. Orderly(st') BY <1>1, <1>2, <2>2, AskedFacts DEF Orderly
  <2>4. Leads(disk, st') BY <1>1, <1>2, <2>2 DEF Leads
  <2>5. /\ run'.pc = "decided" /\ run'.todo = run.todo /\ run'.kept = run.kept
        /\ run'.dropped = run.dropped
    BY <2>1, TypesOf DEF Process
  <2>6. st.current <= st'.current BY <1>1, <2>2 DEF Chapters
  <2>7. QED BY <2>1, <2>3, <2>4, <2>5, <2>6, Reached
<1>3. ASSUME NEW f, NEW s \in Requeued(st), Decide(f, s)
      PROVE  Promised' /\ Leads(disk, disk')
  BY <1>1, <1>2, <1>3 DEF Requeued, Orderly
<1>4. CASE Approve
  <2>1. /\ Append(st.events, st.cp) \in Seq(AskedBy(st.current))
        /\ Append(st.events, NoCheckpoint) \in Seq(AskedBy(st.current))
    BY <1>1, AskedFacts, AppendProperties DEF Orderly
  <2>2. AskedBy(st.current) \subseteq Checkpoint BY DEF AskedBy
  <2>3. \A e \in Seq(AskedBy(st.current)) : [st EXCEPT !.events = e] \in State
    BY <1>1, <2>2, SeqMonotone DEF State
  <2>4. /\ Approved(st, st.cp) \in State /\ Approved(st, st.cp).current = st.current
        /\ Approved(st, st.cp).phase = st.phase
        /\ Approved(st, st.cp).closure = st.closure
        /\ Approved(st, st.cp).queue = st.queue
        /\ Approved(st, st.cp).events \in Seq(AskedBy(st.current))
    BY <1>1, <2>1, <2>3 DEF Approved, Orderly, State
  <2>5. QED BY <1>1, <1>2, <1>4, <2>4 DEF Approve, Orderly
<1>5. CASE Modify BY <1>1, <1>3, <1>5, ModifiedRequeues DEF Modify
<1>6. CASE Reject
  <2>1. CASE st.cp.type # "book-closure"
    BY <1>1, <1>3, <1>6, <2>1, RejectedRequeues DEF Reject
  <2>2. CASE st.cp.type = "book-closure"
    <3>1. st.cp = Ending BY <1>1, <2>2 DEF AskedBy, Ending, At, Checkpoint
    <3>2. Rejected(st, st.cp) = BackToLoop(st) BY <2>2 DEF Rejected
    <3>3. /\ BackToLoop(st) \in State /\ BackToLoop(st).current = st.current
          /\ BackToLoop(st).phase = "chapter-loop" /\ BackToLoop(st).closure = 0
          /\ BackToLoop(st).events = st.events /\ BackToLoop(st).queue = st.queue
      <4>1. 0 \in 0..ClosureLen /\ "chapter-loop" \in Phases BY DEF Phases
      <4>2. QED BY <1>1, <4>1, AlignStepFacts DEF BackToLoop, State
    <3>4. QED BY <1>1, <1>2, <1>6, <3>1, <3>2, <3>3 DEF Reject, Orderly
  <2>3. QED BY <2>1, <2>2
<1>7. QED BY <1>4, <1>5, <1>6

-----------------------------------------------------------------------------
(* Entering the loop, leaving the process, the queue pass.                 *)

LEMMA NextKeeps ==
  ASSUME Inv, Promised, CmdNext
  PROVE  Promised' /\ Leads(disk, disk')
<1>1. /\ st' = st /\ disk' = disk /\ st = disk /\ st.cp = NoCheckpoint
      /\ run' = [run EXCEPT !.pc = "top"]
  BY DEF CmdNext, Promised, Coupled
<1>2. /\ run'.pc = "top" /\ run'.todo = run.todo /\ run'.kept = run.kept
      /\ run'.dropped = run.dropped
  BY <1>1, TypesOf DEF Process
<1>3. Coupled' BY <1>1, <1>2 DEF Coupled, Abreast, Quiet, NoCheckpoint, At
<1>4. Leads(disk, disk') BY <1>1 DEF Leads, SameLife
<1>5. QED BY <1>1, <1>2, <1>3, <1>4 DEF Promised

\* What resume makes of a state: one approval less, and closure reached if
\* that approval was about the end of the book.
LEMMA ConsumedKeeps ==
  ASSUME NEW s \in State, Orderly(s), NEW snapshotFails \in BOOLEAN
  PROVE  LET t == Consumed(s, snapshotFails) IN
         /\ Orderly(t) /\ t.current = s.current /\ t.cp = s.cp
         /\ t.queue = s.queue /\ t.closure = s.closure
         /\ t.phase = s.phase \/ (t.phase = "closure" /\ s.current > TotalChapters)
         /\ Leads(s, t)
<1> DEFINE kept == IF snapshotFails THEN s ELSE Popped(s)
           t    == Consumed(s, snapshotFails)
<1>1. s.events \in Seq(AskedBy(s.current)) /\ AskedBy(s.current) \subseteq Checkpoint
  BY DEF Orderly, AskedBy
<1>2. /\ kept.events \in Seq(AskedBy(s.current)) /\ kept.phase = s.phase
      /\ kept.current = s.current /\ kept.cp = s.cp /\ kept.queue = s.queue
      /\ kept.closure = s.closure
      /\ ToClosure(kept) = [kept EXCEPT !.phase = "closure"] /\ kept \in State
  <2>1. CASE s.events = <<>> BY <1>1, <2>1 DEF Popped, ToClosure
  <2>2. CASE s.events # <<>>
    <3>1. SubSeq(s.events, 1, Len(s.events) - 1) \in Seq(AskedBy(s.current))
      BY <1>1, <2>2, FrontSeq
    <3>2. SubSeq(s.events, 1, Len(s.events) - 1) \in Seq(Checkpoint)
      BY <1>1, <3>1, SeqMonotone
    <3>3. QED BY <1>1, <2>2, <3>1, <3>2 DEF Popped, ToClosure, State
  <2>3. QED BY <2>1, <2>2
<1>3. CASE ~LastBoundaryApproved(s)
  <2>1. t = kept BY <1>3 DEF Consumed
  <2>2. QED BY <1>2, <2>1 DEF Orderly, Leads, SameLife
<1>4. CASE LastBoundaryApproved(s)
  <2>1. t = ToClosure(kept) BY <1>4 DEF Consumed
  <2>2. /\ t.phase = "closure" /\ t.current = s.current /\ t.cp = s.cp
        /\ t.queue = s.queue /\ t.closure = s.closure /\ t.events = kept.events
    BY <1>2, <2>1 DEF State
  <2>3. s.current > TotalChapters
    <3>1. s.events[Len(s.events)] \in AskedBy(s.current)
      BY <1>1, <1>4, FrontSeq DEF LastBoundaryApproved, BoundaryApproved
    <3>2. QED
      BY <1>4, <3>1 DEF LastBoundaryApproved, BoundaryApproved, AskedBy, Checkpoint, State,
                        Chapters
  <2>4. Orderly(t) BY <1>2, <2>2 DEF Orderly
  <2>5. Leads(s, t) BY <2>2, <2>3 DEF Leads, SameLife, State, Phases
  <2>6. QED BY <2>2, <2>3, <2>4, <2>5
<1>5. QED BY <1>3, <1>4

LEMMA ResumeKeeps ==
  ASSUME Inv, Promised, CmdResume
  PROVE  Promised' /\ Leads(disk, disk')
<1>1. /\ st = disk /\ Orderly(st) /\ run.pc = "idle" /\ st \in State /\ run \in Process
      /\ Clamped(st, fs) = st
  BY TypesOf, ClampedBacked DEF CmdResume, Promised, Coupled, Inv
<1>2. PICK snapshotFails \in BOOLEAN :
        LET s == Consumed(Clamped(st, fs), snapshotFails) IN
        /\ disk' = IF snapshotFails THEN disk ELSE s
        /\ IF st.cp # NoCheckpoint
           THEN st' = disk' /\ UNCHANGED <<fs, run>>
           ELSE /\ st' = s
                /\ fs' = ResidualCleanup(fs, s)
                /\ run' = [run EXCEPT !.pc = "top"]
  BY DEF CmdResume
<1> DEFINE s == Consumed(st, snapshotFails)
<1>3. /\ Orderly(s) /\ s.current = st.current /\ s.cp = st.cp
      /\ s.queue = st.queue /\ s.closure = st.closure
      /\ s.phase = st.phase \/ (s.phase = "closure" /\ st.current > TotalChapters)
      /\ Leads(disk, s)
  BY <1>1, ConsumedKeeps
<1>4. Leads(disk, disk') /\ Orderly(disk') /\ disk'.current = st.current
  BY <1>1, <1>2, <1>3 DEF Leads, SameLife
<1>5. CASE st.cp # NoCheckpoint
  <2>1. st' = disk' /\ run' = run BY <1>2, <1>5
  <2>2. Coupled' BY <1>1, <2>1 DEF Coupled
  <2>3. QED BY <1>3, <1>4, <2>1, <2>2 DEF Promised
<1>6. CASE st.cp = NoCheckpoint
  <2>1. /\ st' = s /\ run' = [run EXCEPT !.pc = "top"] /\ disk' \in {disk, s}
    BY <1>1, <1>2, <1>6
  <2>2. /\ run'.pc = "top" /\ run'.todo = run.todo /\ run'.kept = run.kept
        /\ run'.dropped = run.dropped
    BY <1>1, <2>1 DEF Process
  <2>3. Quiet(disk'.cp) /\ st'.cp = disk'.cp /\ st'.current = disk'.current
    BY <1>1, <1>3, <1>6, <2>1 DEF Quiet, NoCheckpoint, At
  <2>4. CASE disk' = s BY <1>3, <1>4, <2>1, <2>2, <2>3, <2>4 DEF Promised, Coupled, Abreast
  <2>5. CASE disk' = disk
    <3>1. st.phase \in Phases BY <1>1 DEF State
    <3>2. Abreast'
      BY <1>1, <1>3, <1>6, <2>1, <2>3, <2>5, <3>1 DEF Abreast, Orderly, Phases
    <3>3. QED BY <1>3, <1>4, <2>1, <2>2, <2>3, <3>2 DEF Promised, Coupled
  <2>6. QED BY <2>1, <2>4, <2>5
<1>7. QED BY <1>5, <1>6

LEMMA ProcessEndsKeeps ==
  ASSUME Inv, Inv', Promised, ProcessEnds
  PROVE  Promised' /\ Leads(disk, disk')
<1>1. run \in Process /\ st \in State /\ st.current \in 0..Horizon
  BY TypesOf, CursorFacts
<1>2. /\ Orderly(st) /\ Orderly(disk)
      /\ \A q \in {run.todo, run.kept, run.dropped} : q \in Seq(OwedBy(st.current))
  BY DEF Promised
<1>3. /\ Idle.pc = "idle" /\ \A n : \A q \in {Idle.todo, Idle.kept, Idle.dropped} :
           q \in Seq(OwedBy(n))
  BY EmptySeq DEF Idle
<1>4. CASE Save
  <2>1. /\ disk' = st' /\ st' = st /\ run' = [run EXCEPT !.pc = "top"]
        /\ Leads(disk, st) /\ Quiet(st.cp)
    BY <1>4 DEF Save, Promised, Coupled
  <2>2. /\ run'.pc = "top" /\ run'.todo = run.todo /\ run'.kept = run.kept
        /\ run'.dropped = run.dropped
    BY <1>1, <2>1 DEF Process
  <2>3. QED BY <1>2, <2>1, <2>2, Persisted
<1>5. CASE Finish \/ AtExit
  <2>1. /\ disk' = st' /\ st' = st /\ Leads(disk, st)
        /\ run' \in {[run EXCEPT !.pc = "atexit"], Idle}
    BY <1>5 DEF Finish, AtExit, Promised, Coupled
  <2>2. /\ run'.pc \in {"atexit", "idle"}
        /\ \A q \in {run'.todo, run'.kept, run'.dropped} : q \in Seq(OwedBy(st.current))
    BY <1>1, <1>2, <1>3, <2>1 DEF Process
  <2>3. QED BY <1>2, <2>1, <2>2, Persisted
<1>6. CASE Kill
  <2>1. st' = disk' /\ disk' = disk /\ run' = Idle BY <1>6 DEF Kill
  <2>2. Leads(disk, st') BY <2>1 DEF Leads, SameLife
  <2>3. QED BY <1>2, <1>3, <2>1, <2>2, Persisted
<1>7. CASE Shutdown
  <2>1. /\ run.pc = "top" /\ st.phase = "chapter-loop" /\ disk' = st
        /\ st' = Escalated(st, st.current)
        /\ run' = [run EXCEPT !.pc = "exit", !.armed = FALSE]
    BY <1>7 DEF Shutdown
  <2>2. SameLife(disk, st) /\ Quiet(st.cp) BY <2>1, TopOfChapter
  <2>3. /\ st'.phase = st.phase /\ st'.current = st.current /\ st'.closure = st.closure
        /\ st'.events = st.events /\ st'.queue = st.queue /\ st'.cp \in Alarms
    BY <1>1, <2>1 DEF Escalated, State, Alarms
  <2>4. Orderly(st') BY <1>2, <2>1, <2>2, <2>3, AskedFacts, CursorFacts DEF Orderly
  <2>5. Leads(disk, disk') /\ Leads(disk', st') BY <2>1, <2>2, <2>3 DEF Leads, SameLife
  <2>6. /\ run'.pc = "exit" /\ run'.todo = run.todo /\ run'.kept = run.kept
        /\ run'.dropped = run.dropped
    BY <1>1, <2>1 DEF Process
  <2>7. Coupled' BY <2>5, <2>6 DEF Coupled
  <2>8. QED BY <1>2, <2>1, <2>3, <2>4, <2>5, <2>6, <2>7 DEF Promised
<1>8. QED BY <1>4, <1>5, <1>6, <1>7 DEF ProcessEnds

LEMMA AgainOwed ==
  ASSUME NEW n, NEW e \in OwedBy(n)
  PROVE  [e EXCEPT !.attempts = @ + 1] \in OwedBy(n)
BY DEF OwedBy, Entry

LEMMA QueuePassKeeps ==
  ASSUME Inv, Inv', Promised, QueuePass
  PROVE  Promised' /\ Leads(disk, disk')
<1> DEFINE owed == Seq(OwedBy(st.current))
<1>1. /\ run \in Process /\ st \in State /\ st.current \in Nat
      /\ Orderly(st) /\ Orderly(disk)
      /\ run.todo \in owed /\ run.kept \in owed /\ run.dropped \in owed
  BY TypesOf DEF Promised, State, Chapters
<1>2. CASE QueueBegin
  <2>1. /\ run.pc = "top" /\ st.queue # <<>> /\ st' = st /\ disk' = disk
        /\ run' = [run EXCEPT !.pc = "queue", !.todo = st.queue, !.kept = <<>>,
                              !.dropped = <<>>]
    BY <1>2 DEF QueueBegin
  <2>2. /\ run'.pc = "queue" /\ run'.todo \in owed /\ run'.kept \in owed
        /\ run'.dropped \in owed
    BY <1>1, <2>1, EmptySeq DEF Process, Orderly
  <2>3. Coupled' BY <2>1, <2>2 DEF Promised, Coupled, Abreast
  <2>4. Leads(disk, disk') BY <2>1 DEF Leads, SameLife
  <2>5. QED BY <1>1, <2>1, <2>2, <2>3, <2>4 DEF Promised
<1>3. ASSUME InQueuePass
      PROVE  /\ run.pc = "queue" /\ st.queue # <<>> /\ Abreast
             /\ st.cp = disk.cp \/ st.cp \in Products(st)
             /\ Head(run.todo) \in OwedBy(st.current) /\ Tail(run.todo) \in owed
  BY <1>1, <1>3, HeadTailProperties DEF InQueuePass, Promised, Coupled
<1>4. CASE EntryDone
  <2> DEFINE e == Head(run.todo)
  <2>1. /\ InQueuePass /\ disk' = disk /\ st' = ReRaised(st, e)
        /\ run' = [run EXCEPT !.todo = Tail(@)]
    BY <1>4 DEF EntryDone
  <2>2. /\ st'.phase = st.phase /\ st'.current = st.current /\ st'.closure = st.closure
        /\ st'.events = st.events /\ st'.queue = st.queue
        /\ st'.cp \in {st.cp} \cup Products(st)
    <3>1. e.chapter \in 1..st.current BY <1>3, <2>1 DEF OwedBy
    <3>2. \/ st' = st
          \/ st' = [st EXCEPT !.cp = At("state-settle", e.chapter)]
          \/ st' = [st EXCEPT !.cp = At("chapter-memo", e.chapter)]
      BY <2>1 DEF ReRaised
    <3>3. /\ At("state-settle", e.chapter) \in Products(st)
          /\ At("chapter-memo", e.chapter) \in Products(st)
      BY <3>1 DEF Products
    <3>4. QED BY <1>1, <3>2, <3>3 DEF State
  <2>3. /\ run'.pc = "queue" /\ run'.todo \in owed /\ run'.kept \in owed
        /\ run'.dropped \in owed
    BY <1>1, <1>3, <2>1 DEF Process
  <2>4. Products(st)' = Products(st) BY <2>2 DEF Products
  <2>5. st'.cp \in AskedBy(st.current)
    BY <1>1, <2>2, CursorFacts, AskedFacts DEF Orderly, Products
  <2>6. st.phase # "completed" BY <1>1, <1>3, <2>1 DEF Orderly
  <2>7. Orderly(st') BY <1>1, <2>2, <2>5, <2>6 DEF Orderly
  <2>8. Coupled' BY <1>3, <2>1, <2>2, <2>3, <2>4 DEF Coupled, Abreast
  <2>9. Leads(disk, disk') BY <2>1 DEF Leads, SameLife
  <2>10. QED BY <1>1, <2>1, <2>2, <2>3, <2>7, <2>8, <2>9 DEF Promised
<1>5. CASE EntryFails
  <2> DEFINE e     == Head(run.todo)
             again == [e EXCEPT !.attempts = @ + 1]
  <2>1. /\ InQueuePass /\ disk' = disk /\ st' = st
        /\ \/ run' = [run EXCEPT !.todo = Tail(@), !.dropped = Append(@, e)]
           \/ run' = [run EXCEPT !.todo = Tail(@), !.dropped = Append(@, again)]
           \/ run' = [run EXCEPT !.todo = Tail(@), !.kept = Append(@, again)]
    BY <1>5 DEF EntryFails
  <2>2. e \in OwedBy(st.current) /\ again \in OwedBy(st.current)
    BY <1>3, <2>1, AgainOwed
  <2>3. /\ Append(run.dropped, e) \in owed /\ Append(run.dropped, again) \in owed
        /\ Append(run.kept, again) \in owed
    BY <1>1, <2>2, AppendProperties
  <2>4. /\ run'.pc = run.pc /\ run'.todo \in owed /\ run'.kept \in owed
        /\ run'.dropped \in owed
    BY <1>1, <1>3, <2>1, <2>3 DEF Process
  <2>5. Coupled' BY <2>1, <2>4 DEF Promised, Coupled, Abreast
  <2>6. Leads(disk, disk') BY <2>1 DEF Leads, SameLife
  <2>7. QED BY <1>1, <2>1, <2>4, <2>5, <2>6 DEF Promised
<1>6. CASE QueueEnd
  <2> DEFINE left == [st EXCEPT !.queue = run.kept]
  <2>1. /\ run.pc = "queue" /\ st.queue # <<>> /\ Abreast
        /\ st.cp = disk.cp \/ st.cp \in Products(st)
        /\ disk' = st'
        /\ run' = [run EXCEPT !.pc = IF st'.cp = NoCheckpoint THEN "top" ELSE "exit",
                              !.kept = <<>>, !.dropped = <<>>]
    BY <1>6 DEF QueueEnd, Promised, Coupled
  <2>2. \A q \in owed : q # <<>> => Head(q).chapter \in 0..Horizon
    <3>1. \A q \in owed : q # <<>> => Head(q) \in OwedBy(st.current)
      BY HeadTailProperties
    <3>2. QED BY <3>1 DEF OwedBy, Entry
  <2>3. \/ st' = left
        \/ \E c \in 0..Horizon : st' = Escalated(left, c)
    BY <1>1, <1>6, <2>2 DEF QueueEnd
  <2>4. /\ st'.phase = st.phase /\ st'.current = st.current /\ st'.closure = st.closure
        /\ st'.events = st.events /\ st'.queue = run.kept
        /\ st'.cp \in {st.cp} \cup Alarms
    BY <1>1, <2>3 DEF Escalated, State, Alarms
  <2>5. st'.cp \in AskedBy(st.current)
    BY <1>1, <2>4, CursorFacts, AskedFacts DEF Orderly
  <2>6. st.phase # "completed" BY <1>1, <2>1 DEF Orderly
  <2>7. Orderly(st') BY <1>1, <2>4, <2>5, <2>6 DEF Orderly
  <2>8. Leads(disk, st')
    <3>1. Products(st) = Products(disk) BY <2>1 DEF Products, Abreast
    <3>2. QED BY <2>1, <2>4, <3>1 DEF Leads, SameLife, Abreast
  <2>9. /\ run'.pc \in {"top", "exit"} /\ (run'.pc = "top" => st'.cp = NoCheckpoint)
        /\ run'.todo \in owed /\ run'.kept \in owed /\ run'.dropped \in owed
    BY <1>1, <2>1, EmptySeq DEF Process
  <2>10. run'.pc \in {"top", "save"} => Quiet(st'.cp)
    BY <2>9 DEF Quiet, NoCheckpoint, At
  <2>11. QED BY <2>1, <2>4, <2>7, <2>8, <2>9, <2>10, Persisted
<1>7. QED BY <1>2, <1>4, <1>5, <1>6 DEF QueuePass

-----------------------------------------------------------------------------
(* The chapter loop.                                                       *)

LEMMA Going ==
  ASSUME run \in Process, Continue \/ Stop
  PROVE  /\ run'.todo = run.todo /\ run'.kept = run.kept /\ run'.dropped = run.dropped
         /\ Continue => run'.pc = "save"
         /\ Stop => run'.pc = "exit"
         /\ run'.pc \in {"save", "exit"}
BY DEF Continue, Stop, Process

LEMMA StopAtKeeps ==
  ASSUME Inv, Inv', Promised, AtTop, NEW s, StopAt(s),
         s.phase = st.phase, s.current = st.current, s.closure = st.closure,
         s.events = st.events, s.queue = st.queue,
         s.cp \in {st.cp} \cup Alarms \cup Boundaries(st)
  PROVE  Promised' /\ Leads(disk, disk')
<1>1. /\ run.pc = "top" /\ st.phase = "chapter-loop" /\ st' = s /\ disk' = s /\ Stop
  BY DEF AtTop, AtStep, StopAt
<1>2. /\ SameLife(disk, st) /\ Quiet(disk.cp) /\ Orderly(st) /\ st.closure = 0
      /\ st.current \in Chapters /\ st.current \in Nat
  BY <1>1, TopOfChapter
<1>3. s.cp \in AskedBy(st.current)
  <2>1. Boundaries(st) \subseteq AskedBy(st.current)
    <3>1. CASE st.current - 1 \in VolumeEnds
      <4>1. st.current - 1 \in 0..(st.current - 1) BY <1>2 DEF Chapters
      <4>2. QED BY <1>2, <3>1, <4>1, AskedFacts DEF Boundaries
    <3>2. CASE st.current - 1 \notin VolumeEnds BY <3>2 DEF Boundaries
    <3>3. QED BY <3>1, <3>2
  <2>2. QED BY <1>2, <2>1, AskedFacts DEF Orderly
<1>4. Orderly(s) BY <1>1, <1>2, <1>3 DEF Orderly
<1>5. Leads(disk, s)
  <2>1. Boundaries(st) = Boundaries(disk) BY <1>2 DEF Boundaries, SameLife
  <2>2. QED BY <1>2, <2>1 DEF Leads, SameLife
<1>6. /\ run'.todo = run.todo /\ run'.kept = run.kept /\ run'.dropped = run.dropped
      /\ run'.pc = "exit"
  BY <1>1, Going, TypesOf
<1>7. \A q \in {run'.todo, run'.kept, run'.dropped} : q \in Seq(OwedBy(st'.current))
  BY <1>1, <1>6 DEF Promised
<1>8. QED BY <1>1, <1>4, <1>5, <1>6, <1>7, Persisted

LEMMA ChapterTopKeeps ==
  ASSUME Inv, Inv', Promised, ChapterTop
  PROVE  Promised' /\ Leads(disk, disk')
<1>1. /\ run.pc = "top" /\ st.phase = "chapter-loop" /\ AtTop
      /\ st \in State /\ run \in Process /\ Prev \in 0..Horizon
  BY TypesOf, CursorFacts DEF ChapterTop, TriggerFails, VolumeBoundary,
     TriggersAtCheckpoint, EnterClosure, VolumeAlign, AtTop, AtStep
<1>2. /\ SameLife(disk, st) /\ Quiet(disk.cp) /\ Orderly(st) /\ st.closure = 0
      /\ st.current \in Chapters /\ st.current \in Nat
  BY <1>1, TopOfChapter
<1>3. CASE TriggerFails
  <2>1. Escalated(st, Prev).cp \in Alarms BY <1>1 DEF Escalated, Alarms, State
  <2>2. QED BY <1>1, <1>3, <2>1, StopAtKeeps DEF TriggerFails, Escalated, State
<1>4. CASE VolumeBoundary
  <2>1. At("volume-boundary", Prev) \in Boundaries(st)
    BY <1>1, <1>4 DEF VolumeBoundary, Boundaries, Prev
  <2>2. QED BY <1>1, <1>4, <2>1, StopAtKeeps DEF VolumeBoundary, State
<1>5. CASE TriggersAtCheckpoint
  BY <1>1, <1>5, StopAtKeeps DEF TriggersAtCheckpoint, State
<1>6. CASE EnterClosure
  <2>1. /\ st' = ToClosure(st) /\ disk' = disk /\ run' = run /\ st.current > TotalChapters
    BY <1>2, <1>6 DEF EnterClosure, Prev
  <2>2. /\ st'.phase = "closure" /\ st'.current = st.current /\ st'.cp = st.cp
        /\ st'.closure = 0 /\ st'.events = st.events /\ st'.queue = st.queue
    BY <1>1, <1>2, <2>1 DEF ToClosure, State
  <2>3. Orderly(st') BY <1>2, <2>2 DEF Orderly
  <2>4. Coupled' BY <1>1, <1>2, <2>1, <2>2 DEF Coupled, Abreast, SameLife
  <2>5. Leads(disk, disk') BY <2>1 DEF Leads, SameLife
  <2>6. QED BY <2>1, <2>2, <2>3, <2>4, <2>5 DEF Promised
<1>7. CASE VolumeAlign
  <2>1. /\ st' = [st EXCEPT !.step = PlanStep, !.begun = @ \cup {st.current}]
        /\ run' = [run EXCEPT !.pc = "save", !.armed = TRUE] /\ disk' = disk
    BY <1>7 DEF VolumeAlign
  <2>2. /\ st'.phase = st.phase /\ st'.current = st.current /\ st'.closure = st.closure
        /\ st'.events = st.events /\ st'.queue = st.queue /\ st'.cp = st.cp
        /\ run'.todo = run.todo /\ run'.kept = run.kept /\ run'.dropped = run.dropped
        /\ run'.pc = "save"
    BY <1>1, <2>1 DEF State, Process
  <2>3. st.queue \in Seq(OwedBy(st.current)) BY <1>2 DEF Orderly
  <2>4. QED BY <1>1, <2>1, <2>2, <2>3, StepKeeps
<1>8. QED BY <1>3, <1>4, <1>5, <1>6, <1>7 DEF ChapterTop

\* A process that dies, or gives up without saving, forgets what is unsaved.
LEMMA DiedKeeps ==
  ASSUME Inv, Promised, st' = disk, disk' = disk, run' = Idle
  PROVE  Promised' /\ Leads(disk, disk')
<1>1. /\ Idle.pc = "idle" /\ \A n : \A q \in {Idle.todo, Idle.kept, Idle.dropped} :
           q \in Seq(OwedBy(n))
  BY EmptySeq DEF Idle
<1>2. Orderly(disk) /\ Leads(disk, st') BY DEF Promised, Leads, SameLife
<1>3. QED BY <1>1, <1>2, Persisted

\* What a chapter step may leave of the state in memory.
InChapter(s) ==
  {t \in State :
     /\ t.phase = s.phase /\ t.current = s.current /\ t.closure = s.closure
     /\ t.events = s.events /\ t.queue \in Seq(OwedBy(s.current))}

LEMMA InChapterFacts ==
  ASSUME NEW s \in State, s.queue \in Seq(OwedBy(s.current))
  PROVE  /\ s \in InChapter(s)
         /\ \A i \in Steps : /\ [s EXCEPT !.step = i] \in InChapter(s)
                             /\ [s EXCEPT !.step = i].cp = s.cp
BY DEF InChapter, State

\* The three ways a chapter step ends short of completing the chapter.
LEMMA MovedKeeps ==
  ASSUME Inv, Inv', Promised, run.pc = "top", st.phase = "chapter-loop", disk' = disk,
         st' \in InChapter(st),
         \/ st'.cp = st.cp /\ (Continue \/ Stop)
         \/ st'.cp \in Alarms /\ (Continue \/ Stop)
         \/ st'.cp \in Products(st) /\ Stop
  PROVE  Promised' /\ Leads(disk, disk')
<1>1. run \in Process /\ (Continue \/ Stop) BY TypesOf
<1>2. /\ run'.todo = run.todo /\ run'.kept = run.kept /\ run'.dropped = run.dropped
      /\ run'.pc \in {"save", "exit"} /\ (Stop => run'.pc = "exit")
  BY <1>1, Going
<1>3. QED BY <1>2, StepKeeps DEF InChapter

LEMMA EscalatedKeeps ==
  ASSUME Inv, Inv', Promised, run.pc = "top", st.phase = "chapter-loop", disk' = disk,
         NEW s \in InChapter(st), st' = Escalated(s, st.current), Continue \/ Stop
  PROVE  Promised' /\ Leads(disk, disk')
<1>1. At("escalation", st.current) \in Alarms /\ st.current \in 0..Horizon
  BY CursorFacts DEF Alarms
<1>2. st' \in InChapter(st) /\ st'.cp \in Alarms
  BY <1>1 DEF Escalated, InChapter, State, Alarms, At, Checkpoint, CheckpointTypes
<1>3. QED BY <1>2, MovedKeeps

LEMMA CompleteKeeps ==
  ASSUME Inv, Inv', Promised, run.pc = "top", st.phase = "chapter-loop",
         NEW s \in InChapter(st), s.cp = st.cp, Complete(s) \/ CompletionRefused(s)
  PROVE  Promised' /\ Leads(disk, disk')
<1>1. /\ SameLife(disk, st) /\ Quiet(disk.cp) /\ Quiet(st.cp) /\ Orderly(st)
      /\ st.current \in Chapters /\ st.current \in Nat /\ run \in Process
  BY TopOfChapter, TypesOf
<1>2. CASE Complete(s)
  <2>1. NextLeader(st.current) \in Nat /\ NextLeader(st.current) > st.current
        /\ NextLeader(st.current) \in Chapters
    BY <1>1, <1>2, BundleFacts DEF Complete, Chapters
  <2>2. /\ disk' = disk
        /\ \/ Stop /\ st' = [s EXCEPT !.current = NextLeader(st.current),
                               !.step = AlignStep, !.revise = TRUE,
                               !.cp = At("per-chapter", st.current)]
           \/ Continue /\ st' = [s EXCEPT !.current = NextLeader(st.current),
                                   !.step = AlignStep, !.revise = TRUE]
    BY <1>2 DEF Complete, InChapter, State
  <2>3. /\ st'.phase = st.phase /\ st'.current = NextLeader(st.current)
        /\ st'.closure = st.closure /\ st'.events = st.events
        /\ st'.queue \in Seq(OwedBy(st.current))
        /\ st'.cp = st.cp \/ (st'.cp = At("per-chapter", st.current) /\ Stop)
    BY <2>2 DEF InChapter, State
  <2>4. AskedBy(st.current) \subseteq AskedBy(st'.current)
        /\ Seq(AskedBy(st.current)) \subseteq Seq(AskedBy(st'.current))
        /\ Seq(OwedBy(st.current)) \subseteq Seq(OwedBy(st'.current))
    BY <1>1, <2>1, <2>3, LaterAsksMore
  <2>5. st'.cp \in AskedBy(st'.current)
    <3>1. st.current \in 1..st.current BY <1>1 DEF Chapters
    <3>2. QED BY <1>1, <2>3, <2>4, <3>1, AskedFacts DEF Orderly
  <2>6. Orderly(st') BY <1>1, <2>3, <2>4, <2>5 DEF Orderly
  <2>7. Leads(disk, st') BY <1>1, <2>3 DEF Leads, SameLife
  <2>8. /\ run'.todo = run.todo /\ run'.kept = run.kept /\ run'.dropped = run.dropped
        /\ run'.pc \in {"save", "exit"} /\ (Stop => run'.pc = "exit")
    BY <1>1, <2>2, Going
  <2>9. st.current <= st'.current BY <1>1, <2>1, <2>3
  <2>10. QED BY <1>1, <2>2, <2>3, <2>6, <2>7, <2>8, <2>9, Reached
<1>3. CASE CompletionRefused(s) /\ run.armed
  <2>1. /\ st' = [s EXCEPT !.step = PastEnd] /\ run' = [run EXCEPT !.pc = "atexit"]
        /\ disk' = disk
    BY <1>3 DEF CompletionRefused
  <2>2. st' \in InChapter(st) /\ st'.cp = st.cp
    BY <2>1, StepsTypes DEF InChapter, State
  <2>3. /\ run'.todo = run.todo /\ run'.kept = run.kept /\ run'.dropped = run.dropped
        /\ run'.pc = "atexit"
    BY <1>1, <2>1 DEF Process
  <2>4. QED BY <2>1, <2>2, <2>3, StepKeeps DEF InChapter
<1>4. CASE CompletionRefused(s) /\ ~run.armed
  BY <1>4, DiedKeeps DEF CompletionRefused
<1>5. QED BY <1>2, <1>3, <1>4

LEMMA ChapterStepKeeps ==
  ASSUME Inv, Inv', Promised, ChapterStep
  PROVE  Promised' /\ Leads(disk, disk')
<1>1. run.pc = "top" /\ st.phase = "chapter-loop"
  BY DEF ChapterStep, Planning, ContextPrepare, Drafting, SceneSplit, SceneSplitFails,
     SceneSplitTorn, PostDraftExtract, LinguisticDrift, SettlePair, SettleAgain, AuditWave,
     Revision, StepsConsumed, AtStep
<1>2. /\ st \in State /\ st.current \in Chapters /\ st.queue \in Seq(OwedBy(st.current))
      /\ st.current \in 1..st.current
  BY TypesOf, CursorFacts DEF Promised, Orderly, Chapters
<1>3. /\ st \in InChapter(st)
      /\ \A i \in Steps : /\ [st EXCEPT !.step = i] \in InChapter(st)
                          /\ [st EXCEPT !.step = i].cp = st.cp
  BY <1>2, InChapterFacts
<1>4. /\ {PrepareStep, DraftStep, SplitStep, ExtractStep, DriftStep} \subseteq Steps
      /\ {LifecycleStep, SettleStep, AuditStep, RevisionStep} \subseteq Steps
  BY StepsTypes
<1>5. ASSUME NEW i \in Steps, disk' = disk, st' = [st EXCEPT !.step = i], Continue \/ Stop
      PROVE  Promised' /\ Leads(disk, disk')
  BY <1>1, <1>3, <1>5, MovedKeeps
<1>6. ASSUME NEW i \in Steps, disk' = disk, Stop, NEW t \in {"chapter-memo", "state-settle"},
             st' = [st EXCEPT !.step = i, !.cp = At(t, st.current)]
                \/ st' = [st EXCEPT !.step = i, !.begun = @ \cup Bundle(st.current),
                                    !.cp = At(t, st.current)]
      PROVE  Promised' /\ Leads(disk, disk')
  <2>1. /\ At(t, st.current) \in Checkpoint /\ At(t, st.current) \in Products(st)
        /\ Bundle(st.current) \in SUBSET Nat
    BY <1>2, BundleFacts DEF At, Checkpoint, CheckpointTypes, Products, Chapters
  <2>2. st' \in InChapter(st) /\ st'.cp \in Products(st)
    BY <1>2, <1>6, <2>1 DEF InChapter, State
  <2>3. QED BY <1>1, <1>6, <2>2, MovedKeeps
<1>7. ASSUME NEW f, StepFails(f) PROVE Promised' /\ Leads(disk, disk')
  BY <1>1, <1>3, <1>7, MovedKeeps, EscalatedKeeps DEF StepFails
<1>8. ASSUME NEW s \in InChapter(st), st' = Escalated(s, st.current), disk' = disk,
             Continue \/ Stop
      PROVE  Promised' /\ Leads(disk, disk')
  BY <1>1, <1>8, EscalatedKeeps
<1>9. ASSUME RefuseUndrafted PROVE Promised' /\ Leads(disk, disk')
  BY <1>3, <1>8, <1>9 DEF RefuseUndrafted
<1>10. CASE Planning
  <2>1. ASSUME st' = [st EXCEPT !.step = PrepareStep, !.begun = @ \cup Bundle(st.current)],
               disk' = disk, Continue
        PROVE  Promised' /\ Leads(disk, disk')
    <3>1. Bundle(st.current) \in SUBSET Nat BY <1>2, BundleFacts
    <3>2. st' \in InChapter(st) /\ st'.cp = st.cp
      BY <1>2, <1>4, <2>1, <3>1 DEF InChapter, State
    <3>3. QED BY <1>1, <2>1, <3>2, MovedKeeps
  <2>2. QED BY <1>4, <1>6, <1>7, <1>10, <2>1 DEF Planning
<1>11. CASE ContextPrepare \/ Drafting
  BY <1>4, <1>5, <1>7, <1>11 DEF ContextPrepare, Drafting
<1>12. CASE SceneSplit \/ SceneSplitFails
  BY <1>3, <1>4, <1>5, <1>8, <1>12 DEF SceneSplit, SceneSplitFails
<1>13. CASE SceneSplitTorn BY <1>13, DiedKeeps DEF SceneSplitTorn
<1>14. CASE PostDraftExtract \/ LinguisticDrift
  BY <1>3, <1>4, <1>5, <1>8, <1>14 DEF PostDraftExtract, LinguisticDrift
<1>15. CASE SettlePair
  BY <1>4, <1>5, <1>6, <1>7, <1>9, <1>15 DEF SettlePair
<1>16. CASE SettleAgain
  BY <1>4, <1>5, <1>7, <1>9, <1>16 DEF SettleAgain
<1>17. CASE AuditWave
  <2>1. \A b \in BOOLEAN : /\ [st EXCEPT !.step = RevisionStep, !.revise = b] \in InChapter(st)
                           /\ [st EXCEPT !.step = RevisionStep, !.revise = b].cp = st.cp
    BY <1>2, <1>4 DEF InChapter, State
  <2>2. ASSUME NEW b \in BOOLEAN, disk' = disk, Continue,
               st' = [st EXCEPT !.step = RevisionStep, !.revise = b]
        PROVE  Promised' /\ Leads(disk, disk')
    BY <1>1, <2>1, <2>2, MovedKeeps
  <2>3. QED BY <1>3, <1>4, <1>8, <1>17, <2>1, <2>2 DEF AuditWave
<1>18. CASE Revision
  <2> DEFINE owed == [st EXCEPT !.queue = Enqueue(@, NewEntry("settle", st.current))]
  <2>1. owed \in InChapter(st) /\ owed.cp = st.cp
    <3>1. NewEntry("settle", st.current) \in OwedBy(st.current)
      BY <1>2 DEF NewEntry, OwedBy, Entry, QueueSkills, Chapters
    <3>2. Enqueue(st.queue, NewEntry("settle", st.current)) \in Seq(OwedBy(st.current))
      BY <1>2, <3>1, EnqueueSeq
    <3>3. Enqueue(st.queue, NewEntry("settle", st.current)) \in Seq(Entry)
      BY <3>2, SeqMonotone DEF OwedBy
    <3>4. QED BY <1>2, <3>2, <3>3 DEF InChapter, State
  <2>2. ASSUME NEW s \in {st, owed}, Complete(s) \/ CompletionRefused(s)
        PROVE  Promised' /\ Leads(disk, disk')
    BY <1>1, <1>3, <2>1, <2>2, CompleteKeeps
  <2>3. QED BY <1>7, <1>9, <1>18, <2>2 DEF Revision
<1>19. CASE StepsConsumed
  BY <1>1, <1>3, <1>19, MovedKeeps DEF StepsConsumed
<1>20. QED BY <1>10, <1>11, <1>12, <1>13, <1>14, <1>15, <1>16, <1>17, <1>18, <1>19
           DEF ChapterStep

-----------------------------------------------------------------------------
(* Closure, and the theorem.                                               *)

LEMMA ClosingKeeps ==
  ASSUME Inv, Inv', Promised, Closing
  PROVE  Promised' /\ Leads(disk, disk')
<1>1. /\ st \in State /\ run \in Process /\ disk \in State /\ Orderly(st)
      /\ run.pc = "top" /\ disk' = disk
      /\ st.cp = disk.cp /\ st.queue = <<>> /\ (Continue \/ Stop)
      /\ st.current \in Nat /\ Abreast /\ st.cp \in AskedBy(st.current)
  BY TypesOf DEF Closing, ClosureStep, ClosureFails, ClosureRests, Completed, AtClosure,
     Promised, Coupled, Orderly, State, Chapters
<1>2. /\ run'.todo = run.todo /\ run'.kept = run.kept /\ run'.dropped = run.dropped
      /\ run'.pc \in {"save", "exit"} /\ (Stop => run'.pc = "exit")
      /\ (Continue => run'.pc = "save")
  BY <1>1, Going
<1>3. ASSUME Orderly(st'), Leads(disk, st'), st'.current = st.current,
             Stop \/ Quiet(st'.cp)
      PROVE  Promised' /\ Leads(disk, disk')
  BY <1>1, <1>2, <1>3, Reached
<1>4. CASE ClosureStep
  <2> DEFINE done == [st EXCEPT !.closure = @ + 1]
  <2>1. /\ st.phase = "closure" /\ st.closure < ClosureLen /\ st.closure \in Nat
        /\ ~(st.closure = Last /\ st.cp # NoCheckpoint)
    BY <1>1, <1>4 DEF ClosureStep, AtClosure, State
  <2>2. /\ done.closure = st.closure + 1 /\ done.cp = st.cp /\ done.phase = "closure"
        /\ done.queue = <<>> /\ done.events = st.events /\ done.current = st.current
    BY <1>1, <2>1 DEF State
  <2>3. \/ disk.phase = "closure"
        \/ disk.phase = "chapter-loop" /\ st.closure = 0 /\ st.current > TotalChapters
    BY <2>1, <1>1 DEF Abreast
  <2>4. CASE /\ done.closure = Last /\ Stop
             /\ st' = [done EXCEPT !.cp = At("book-closure", 0)]
    <3>1. /\ st'.cp = Ending /\ st'.phase = "closure" /\ st'.current = st.current
          /\ st'.events = st.events /\ st'.queue = <<>>
      BY <1>1, <2>1, <2>2, <2>4 DEF Ending, State
    <3>2. Orderly(st')
      BY <1>1, <3>1, CursorFacts, AskedFacts, EmptySeq DEF Orderly
    <3>3. Leads(disk, st') BY <1>1, <2>3, <3>1 DEF Leads, Abreast
    <3>4. QED BY <1>3, <2>4, <3>1, <3>2, <3>3
  <2>5. CASE st' = done /\ (Stop \/ st.cp = NoCheckpoint)
    <3>1. Orderly(st') BY <1>1, <2>2, <2>5, EmptySeq DEF Orderly
    <3>2. Leads(disk, st') BY <1>1, <2>2, <2>3, <2>5 DEF Leads, SameLife, Abreast
    <3>3. Stop \/ Quiet(st'.cp) BY <2>2, <2>5 DEF Quiet, NoCheckpoint, At
    <3>4. QED BY <1>3, <2>2, <2>5, <3>1, <3>2, <3>3
  <2>6. CASE /\ st.cp = NoCheckpoint /\ done.closure = ClosureLen
             /\ st' = [done EXCEPT !.phase = "completed"] /\ Stop
    <3>1. disk.phase = "closure" BY <2>2, <2>3, <2>6
    <3>2. /\ st'.cp = NoCheckpoint /\ st'.phase = "completed" /\ st'.current = st.current
          /\ st'.events = st.events /\ st'.queue = <<>> /\ st'.closure = ClosureLen
      BY <1>1, <2>1, <2>2, <2>6 DEF State
    <3>3. Orderly(st') BY <1>1, <3>2, CursorFacts, AskedFacts, EmptySeq DEF Orderly
    <3>4. Leads(disk, st') BY <1>1, <2>6, <3>1, <3>2 DEF Leads, Abreast
    <3>5. QED BY <1>3, <2>6, <3>2, <3>3, <3>4
  <2>7. QED BY <1>4, <2>2, <2>4, <2>5, <2>6 DEF ClosureStep
<1>5. CASE ClosureFails
  <2>1. /\ st.phase = "closure" /\ st.closure < ClosureLen /\ Stop
        /\ st' = Escalated(st, 0)
    BY <1>5 DEF ClosureFails, AtClosure
  <2>2. /\ st'.cp \in Alarms /\ st'.phase = st.phase /\ st'.current = st.current
        /\ st'.events = st.events /\ st'.queue = <<>> /\ st'.closure = st.closure
    <3>1. At("escalation", 0) \in Alarms BY DEF Alarms
    <3>2. st' = [st EXCEPT !.cp = At("escalation", 0)] BY <2>1 DEF Escalated
    <3>3. QED BY <1>1, <3>1, <3>2 DEF State
  <2>3. Orderly(st') BY <1>1, <2>1, <2>2, CursorFacts, AskedFacts, EmptySeq DEF Orderly
  <2>4. Leads(disk, st')
    <3>1. /\ st.current = disk.current /\ Quiet(disk.cp)
          /\ \/ disk.phase = "closure"
             \/ disk.phase = "chapter-loop" /\ st.current > TotalChapters
      BY <1>1, <2>1 DEF Abreast
    <3>2. CASE disk.phase = "closure" BY <2>1, <2>2, <3>1, <3>2 DEF Leads
    <3>3. CASE disk.phase = "chapter-loop" /\ st.current > TotalChapters
      BY <2>1, <2>2, <3>1, <3>3 DEF Leads
    <3>4. QED BY <3>1, <3>2, <3>3
  <2>5. QED BY <1>3, <2>1, <2>2, <2>3, <2>4
<1>6. CASE ClosureRests
  <2>1. /\ st.phase = "closure" /\ Stop /\ st.closure > 0
        /\ \/ st.cp # NoCheckpoint /\ st' = st
           \/ /\ st.cp = NoCheckpoint /\ st.closure = ClosureLen
              /\ st' = [st EXCEPT !.phase = "completed"]
    BY <1>6 DEF ClosureRests, AtClosure, Last
  <2>2. CASE st.cp # NoCheckpoint /\ st' = st
    <3>1. SameLife(disk, st) BY <1>1, <2>1, <2>2 DEF Abreast, SameLife
    <3>2. QED BY <1>1, <1>3, <2>1, <2>2, <3>1 DEF Leads
  <2>3. CASE /\ st.cp = NoCheckpoint /\ st.closure = ClosureLen
             /\ st' = [st EXCEPT !.phase = "completed"]
    <3>1. /\ st'.cp = NoCheckpoint /\ st'.phase = "completed" /\ st'.current = st.current
          /\ st'.events = st.events /\ st'.queue = <<>> /\ st'.closure = ClosureLen
      BY <1>1, <2>3 DEF State
    <3>2. Orderly(st') BY <1>1, <2>3, <3>1, EmptySeq DEF Orderly
    <3>3. disk.phase \in {"closure", "completed"} BY <1>1, <2>1, <2>3 DEF Abreast
    <3>4. Leads(disk, st') BY <1>1, <2>3, <3>1, <3>3 DEF Leads, SameLife, Abreast
    <3>5. QED BY <1>3, <2>1, <3>1, <3>2, <3>4
  <2>4. QED BY <2>1, <2>2, <2>3
<1>7. CASE Completed
  <2>1. st' = st /\ Stop /\ st.phase = "completed" BY <1>7 DEF Completed
  <2>2. SameLife(disk, st) BY <1>1, <2>1 DEF Abreast, SameLife
  <2>3. QED BY <1>1, <1>3, <2>1, <2>2 DEF Leads
<1>8. QED BY <1>4, <1>5, <1>6, <1>7 DEF Closing

LEMMA InitPromised == Init => Promised /\ Promise!Init
<1> SUFFICES ASSUME Init PROVE Promised /\ Promise!Init
  OBVIOUS
<1>1. st = Start /\ disk = Start /\ run = Idle BY DEF Init
<1>2. /\ Start.phase = "chapter-loop" /\ Start.current = 1 /\ Start.cp = NoCheckpoint
      /\ Start.events = <<>> /\ Start.queue = <<>> /\ Start.closure = 0
      /\ Idle.pc = "idle" /\ Idle.todo = <<>> /\ Idle.kept = <<>> /\ Idle.dropped = <<>>
  BY DEF Start, Idle
<1>3. 1 \in Chapters BY DEF Chapters
<1>4. Orderly(Start) BY <1>2, <1>3, AskedFacts, EmptySeq DEF Orderly
<1>5. Coupled BY <1>1, <1>2 DEF Coupled
<1>6. Promised BY <1>1, <1>2, <1>4, <1>5, EmptySeq DEF Promised
<1>7. QED BY <1>1, <1>2, <1>6, SameBook DEF Promise!Init

LEMMA NextKeepsPromised ==
  Inv /\ Promised /\ [Next]_vars => Promised' /\ [Promise!Next]_(Promise!vars)
<1> SUFFICES ASSUME Inv, Promised, [Next]_vars
             PROVE  Promised' /\ [Promise!Next]_(Promise!vars)
  OBVIOUS
<1>1. Inv' BY NextPreservesInv
<1>2. CASE UNCHANGED vars
  <2>1. Promised' BY <1>2 DEF vars, Promised, Coupled, Abreast
  <2>2. QED BY <1>2, <2>1 DEF vars, Promise!vars
<1>3. CASE Next
  <2>1. Promised' /\ Leads(disk, disk')
    BY <1>1, <1>3, ReviewKeeps, NextKeeps, ResumeKeeps, ProcessEndsKeeps, QueuePassKeeps,
       ChapterTopKeeps, ChapterStepKeeps, ClosingKeeps DEF Next, Command
  <2>2. QED BY <2>1, Simulates
<1>4. QED BY <1>2, <1>3

LEMMA AlwaysPromised == Spec => []Promised
<1>1. Init => Inv /\ Promised BY InitInv, InitPromised
<1>2. (Inv /\ Promised) /\ [Next]_vars => (Inv /\ Promised)'
  BY NextPreservesInv, NextKeepsPromised
<1>3. QED BY <1>1, <1>2, PTL DEF Spec

\* The state file lives the life Lifecycle promises the author, for every
\* book and whichever reviews are on, through crashes and stops at any point:
\* every step of the pipeline is one of Lifecycle's, or none.
THEOREM Refinement == Spec => KeepsPromise
BY Backed, AlwaysPromised, InitPromised, NextKeepsPromised, PTL
   DEF Spec, KeepsPromise, Promise!Spec

-----------------------------------------------------------------------------
(* Plans come first.                                                       *)

\* The plans of a bundle that its answer holds in any case.
Due(c) == Bundle(c) \ Unplanned
\* The plan of the chapter the cursor is past planning is live, or in staging
\* and before the human.
Planned(s, f) ==
  s.phase = "chapter-loop" /\ s.step > PlanStep => Due(s.current) \subseteq f.plans
PlanReady(s, f) ==
  \/ Planned(s, f)
  \/ /\ MemoReview /\ s.cp = At("chapter-memo", s.current)
     /\ Due(s.current) \subseteq f.stagedPlans \cap f.markedPlans

PlansFirst ==
  /\ fs.drafts \ Unplanned \subseteq fs.plans
  /\ PlanReady(st, fs)
  /\ run.pc = "queue" => Planned(st, fs)
  /\ run.pc # "decided" \/ ~MemoReview => PlanReady(disk, fs)

\* What files must keep for a plan to stay ready.
Spares(f, g) ==
  /\ f.plans \subseteq g.plans /\ g.drafts = f.drafts
  /\ f.stagedPlans \cap f.markedPlans \subseteq g.stagedPlans \cap g.markedPlans

LEMMA SparesPlans ==
  ASSUME NEW f, NEW g, NEW s
  PROVE  /\ f.plans \subseteq g.plans /\ Planned(s, f) => Planned(s, g)
         /\ Spares(f, g) /\ PlanReady(s, f) => PlanReady(s, g)
BY DEF Planned, PlanReady, Spares

LEMMA SparingCleanup ==
  ASSUME NEW f \in Files
  PROVE  Spares(f, f) /\ Spares(f, KeepMarked(f)) /\ \A s : Spares(f, ResidualCleanup(f, s))
BY DEF Spares, KeepMarked, ResidualCleanup, Files

LEMMA SparingFiles ==
  ASSUME NEW f \in Files, NEW c \in 0..Horizon, NEW S \in SUBSET Nat
  PROVE  /\ Spares(f, StageTruth(f, c))
         /\ Spares(f, ReviseDraft(f, c)) /\ Spares(f, MarkTruth(f))
         /\ Spares(f, [f EXCEPT !.stagedPlans = @ \cup S])
         /\ Spares(f, [f EXCEPT !.cluster = c])
         /\ CommitTruth(f).plans = f.plans /\ CommitTruth(f).drafts = f.drafts
         /\ CleanStaging(f).plans = f.plans /\ CleanStaging(f).drafts = f.drafts
BY DEF Spares, StageTruth, ReviseDraft, MarkTruth, CommitTruth, CleanStaging,
       Files

\* Planning aside, the cursor does not pass the planning step.
Behind(s, t) ==
  \/ t.phase # "chapter-loop" \/ ~(t.step > PlanStep)
  \/ t.current = s.current /\ s.phase = "chapter-loop" /\ s.step > PlanStep

LEMMA BehindPlanned ==
  ASSUME NEW f, NEW s, NEW t, Behind(s, t), Planned(s, f)
  PROVE  Planned(t, f)
BY DEF Behind, Planned

\* A step of a process at work whose question, if any, is an escalation.
LEMMA AtWork ==
  ASSUME Promised, PlansFirst, run.pc = "top"
  PROVE  Planned(st, fs) /\ Planned(disk, fs)
BY DEF Promised, Coupled, Abreast, PlansFirst, PlanReady, Quiet, At

LEMMA WorkKeepsPlans ==
  ASSUME Promised, PlansFirst, run.pc = "top", fs.plans \subseteq fs'.plans,
         fs'.drafts \ Unplanned \subseteq fs'.plans, PlanReady(st', fs'),
         run'.pc = "queue" => Planned(st', fs'), disk' \in {disk, st, st'}
  PROVE  PlansFirst'
<1>1. Planned(st, fs') /\ Planned(disk, fs') BY AtWork, SparesPlans
<1>2. QED BY <1>1 DEF PlansFirst, PlanReady

LEMMA MovedKeepsPlans ==
  ASSUME Promised, PlansFirst, run.pc = "top", fs.plans \subseteq fs'.plans,
         fs'.drafts = fs.drafts, Behind(st, st'), disk' \in {disk, st, st'}
  PROVE  PlansFirst'
<1>1. Planned(st', fs') BY AtWork, SparesPlans, BehindPlanned
<1>2. fs'.drafts \ Unplanned \subseteq fs'.plans BY DEF PlansFirst
<1>3. QED BY <1>1, <1>2, WorkKeepsPlans DEF PlanReady

-----------------------------------------------------------------------------

LEMMA PlanSteps ==
  /\ ~(PlanStep > PlanStep) /\ ~(AlignStep > PlanStep)
  /\ \A i \in {PrepareStep, DraftStep, SplitStep, ExtractStep, DriftStep, LifecycleStep,
               SettleStep, AuditStep, RevisionStep, PastEnd} : i > PlanStep
BY DEF PlanStep, AlignStep, PrepareStep, DraftStep, SplitStep, ExtractStep, DriftStep,
       LifecycleStep, SettleStep, AuditStep, RevisionStep, PastEnd

LEMMA RedoCursor ==
  ASSUME NEW s \in State, NEW cp, NEW skill, NEW i
  PROVE  LET t == Redo(s, cp, skill, i) IN
         /\ t.current = s.current /\ t.phase = s.phase /\ t.cp = s.cp
         /\ t.step = IF ChapterMismatch(s, cp) THEN s.step ELSE i
BY DEF Redo, State

LEMMA QueueDerivedCursor ==
  ASSUME NEW s \in State, NEW cp
  PROVE  LET t == QueueDerived(s, cp) IN
         t.current = s.current /\ t.phase = s.phase /\ t.step = s.step /\ t.cp = s.cp
BY DEF QueueDerived, State

\* A review rewinds to the planning, to the settling of the checkpoint's own
\* chapter, or it leaves the cursor where it is.
LEMMA ReviewCursor ==
  ASSUME NEW D, NEW s \in BackedState(D), NEW cp \in BackedCheckpoint(D),
         NEW t \in {Rejected(s, cp), Modified(s, cp)}
  PROVE  /\ t.current = s.current
         /\ \/ t.phase = "chapter-loop" => ~(t.step > PlanStep)
            \/ /\ t.phase = s.phase /\ t.step = s.step
               /\ cp.type = "chapter-memo" => ChapterMismatch(s, cp)
            \/ t.phase = s.phase /\ cp.type = "state-settle" /\ ~ChapterMismatch(s, cp)
<1>1. s \in State BY DEF BackedState
<1>2. CASE cp.type \in {"chapter-memo", "state-settle"}
  <2> DEFINE skill == IF cp.type = "chapter-memo" THEN "planning" ELSE "settle"
             i     == IF cp.type = "chapter-memo" THEN PlanStep ELSE SettleStep
             r     == Redo(s, cp, skill, i)
  <2>1. skill \in QueueSkills /\ i \in Steps BY StepsTypes DEF QueueSkills
  <2>2. skill \in DraftReaders \/ i > SplitStep => Bundle(cp.chapter) \subseteq D
    BY <1>2, StepsTypes DEF BackedCheckpoint, DraftReaders
  <2>3. r \in State BY <2>1, <2>2, RedoBacked DEF BackedState
  <2>4. /\ r.current = s.current /\ r.phase = s.phase
        /\ r.step = IF ChapterMismatch(s, cp) THEN s.step ELSE i
    BY <1>1, RedoCursor
  <2>5. t \in {r, QueueDerived(r, cp)} BY <1>2 DEF Rejected, Modified
  <2>6. t.current = s.current /\ t.phase = s.phase /\ t.step = r.step
    BY <2>3, <2>4, <2>5, QueueDerivedCursor
  <2>7. QED BY <1>2, <2>4, <2>6, PlanSteps
<1>3. CASE cp.type \notin {"chapter-memo", "state-settle"}
  <2>1. t \in {s, [s EXCEPT !.step = AlignStep], BackToLoop(s), QueueDerived(s, cp)}
    BY <1>3 DEF Rejected, Modified
  <2>2. /\ [s EXCEPT !.step = AlignStep].step = AlignStep
        /\ [s EXCEPT !.step = AlignStep].current = s.current
        /\ BackToLoop(s).step = AlignStep /\ BackToLoop(s).current = s.current
    BY <1>1 DEF BackToLoop, State
  <2>3. CASE t \in {s, QueueDerived(s, cp)}
    <3>1. t.current = s.current /\ t.phase = s.phase /\ t.step = s.step
      BY <1>1, <2>3, QueueDerivedCursor
    <3>2. QED BY <1>3, <3>1
  <2>4. CASE t \in {[s EXCEPT !.step = AlignStep], BackToLoop(s)}
    BY <2>2, <2>4, PlanSteps
  <2>5. QED BY <2>1, <2>3, <2>4
<1>4. QED BY <1>2, <1>3

LEMMA ReviewKeepsPlans ==
  ASSUME Inv, Promised, PlansFirst, Approve \/ Modify \/ Reject
  PROVE  PlansFirst'
<1>1. /\ st \in State /\ fs \in Files /\ run \in Process /\ disk = st /\ run.pc = "idle"
      /\ st \in BackedState(fs.drafts) /\ st.cp \in BackedCheckpoint(fs.drafts)
      /\ Bundle(st.cp.chapter) \in SUBSET Nat
  BY TypesOf, BundleNat DEF Inv, Promised, Coupled, Approve, Modify, Reject, Decide,
     BackedState, State, Checkpoint
<1>2. ASSUME NEW f, NEW s \in State, Decide(f, s), fs.plans \subseteq f.plans,
             f.drafts = fs.drafts, Planned(s, f)
      PROVE  PlansFirst'
  <2>1. /\ fs' = f /\ disk' = disk /\ run'.pc = "decided"
        /\ st' = [s EXCEPT !.cp = NoCheckpoint]
    BY <1>1, <1>2 DEF Decide, Process
  <2>2. Planned(st', fs') BY <1>2, <2>1 DEF Planned, State
  <2>3. ~MemoReview => Planned(disk, fs')
    BY <1>1, <1>2, <2>1, SparesPlans DEF PlansFirst, PlanReady
  <2>4. QED BY <1>2, <2>1, <2>2, <2>3 DEF PlansFirst, PlanReady
<1>3. ASSUME NEW t \in {Rejected(st, st.cp), Modified(st, st.cp)}, NEW f,
             fs.plans \subseteq f.plans
      PROVE  Planned(t, f)
  <2>1. CASE t.phase = "chapter-loop" => ~(t.step > PlanStep)
    BY <2>1 DEF Planned
  <2>2. CASE /\ t.phase = st.phase /\ t.step = st.step /\ t.current = st.current
             /\ st.cp.type = "chapter-memo" => ChapterMismatch(st, st.cp)
    <3>1. Planned(st, fs)
      BY <2>2 DEF PlansFirst, PlanReady, Planned, ChapterMismatch, At
    <3>2. QED BY <1>3, <2>2, <3>1 DEF Planned
  <2>3. CASE /\ t.phase = st.phase /\ t.current = st.current
             /\ st.cp.type = "state-settle" /\ ~ChapterMismatch(st, st.cp)
    BY <1>1, <1>3, <2>3 DEF Planned, Due, ChapterMismatch, BackedCheckpoint, PlansFirst
  <2>4. QED BY <1>1, <2>1, <2>2, <2>3, ReviewCursor
<1>4. CASE Approve
  <2>1. /\ Approved(st, st.cp) \in State /\ Approved(st, st.cp).phase = st.phase
        /\ Approved(st, st.cp).current = st.current /\ Approved(st, st.cp).step = st.step
    <3>1. Approved(st, st.cp) \in State BY <1>1, ApprovedBacked DEF BackedState
    <3>2. QED BY <1>1, <3>1 DEF Approved, State
  <2>2. fs.plans \subseteq ApproveFiles(fs, st.cp).plans
    BY <1>1 DEF ApproveFiles, CommitPlans, CommitTruth, CleanStaging, Files
  <2>3. ApproveFiles(fs, st.cp).drafts = fs.drafts
    BY <1>1, ReviewFiles DEF BackedCheckpoint, SameDrafts
  <2>4. Planned(st, ApproveFiles(fs, st.cp))
    <3>1. CASE Planned(st, fs) BY <2>2, <3>1, SparesPlans
    <3>2. CASE /\ st.cp = At("chapter-memo", st.current)
               /\ Due(st.current) \subseteq fs.stagedPlans
      <4>1. ApproveFiles(fs, st.cp) = CleanStaging(CommitPlans(fs, Bundle(st.current)))
        BY <3>2 DEF ApproveFiles, At
      <4>2. Due(st.current) \subseteq ApproveFiles(fs, st.cp).plans
        <5>1. CommitPlans(fs, Bundle(st.current)).plans
                = fs.plans \cup (fs.stagedPlans \cap Bundle(st.current))
          BY <1>1 DEF CommitPlans, Files
        <5>2. CleanStaging(CommitPlans(fs, Bundle(st.current))).plans
                = CommitPlans(fs, Bundle(st.current)).plans
          BY <1>1 DEF CommitPlans, CleanStaging, Files
        <5>3. QED BY <3>2, <4>1, <5>1, <5>2 DEF Due
      <4>3. QED BY <4>2 DEF Planned
    <3>3. QED BY <3>1, <3>2 DEF PlansFirst, PlanReady
  <2>5. Planned(Approved(st, st.cp), ApproveFiles(fs, st.cp)) BY <2>1, <2>4 DEF Planned
  <2>6. QED BY <1>2, <1>4, <2>1, <2>2, <2>3, <2>5 DEF Approve
<1>5. CASE Modify
  <2>1. Modified(st, st.cp) \in State BY <1>1, ModifiedBacked DEF BackedState
  <2>2. CleanStaging(fs).plans = fs.plans /\ CleanStaging(fs).drafts = fs.drafts
    BY <1>1 DEF CleanStaging, Files
  <2>3. QED BY <1>2, <1>3, <1>5, <2>1, <2>2 DEF Modify
<1>6. CASE Reject
  <2>1. Rejected(st, st.cp) \in State BY <1>1, RejectedBacked DEF BackedState
  <2>2. \A others \in BOOLEAN : /\ RejectFiles(fs, st.cp, others).plans = fs.plans
                               /\ RejectFiles(fs, st.cp, others).drafts = fs.drafts
    BY <1>1 DEF RejectFiles, Files
  <2>3. QED BY <1>2, <1>3, <1>6, <2>1, <2>2 DEF Reject
<1>7. QED BY <1>4, <1>5, <1>6

LEMMA CommandsKeepPlans ==
  ASSUME Inv, Promised, PlansFirst, CmdNext \/ CmdResume
  PROVE  PlansFirst'
<1>1. /\ st \in State /\ fs \in Files /\ run \in Process /\ disk = st /\ run.pc = "idle"
      /\ Orderly(st) /\ Clamped(st, fs) = st
  BY TypesOf, ClampedBacked DEF Inv, Promised, Coupled, CmdNext, CmdResume
<1>2. \A s : Spares(fs, ResidualCleanup(fs, s))
  BY <1>1, SparingCleanup
<1>3. ASSUME NEW s, Behind(st, s), s.cp = st.cp
      PROVE  \A g : Spares(fs, g) => PlanReady(s, g)
  <2>1. PlanReady(s, fs)
    BY <1>3 DEF PlansFirst, PlanReady, Behind, Planned
  <2>2. QED BY <2>1, SparesPlans
<1>4. Behind(st, st) BY DEF Behind
<1>5. ASSUME NEW f \in {fs, ResidualCleanup(fs, st'), ResidualCleanup(fs, st)}, fs' = f,
             run'.pc # "queue", Behind(st, st'), st'.cp = st.cp,
             Behind(st, disk'), disk'.cp = st.cp
      PROVE  PlansFirst'
  <2>1. Spares(fs, fs') BY <1>1, <1>2, <1>5, SparingCleanup
  <2>2. PlanReady(st', fs') /\ PlanReady(disk', fs') BY <1>3, <1>5, <2>1
  <2>3. QED BY <1>5, <2>1, <2>2 DEF PlansFirst, Spares
<1>6. CASE CmdNext
  <2>1. /\ st' = st /\ disk' = st /\ fs' = ResidualCleanup(fs, st) /\ run'.pc # "queue"
    BY <1>1, <1>6 DEF CmdNext, Process
  <2>2. QED BY <1>4, <1>5, <2>1
<1>7. CASE CmdResume
  <2>1. PICK snapshotFails \in BOOLEAN :
        LET s == Consumed(st, snapshotFails) IN
        /\ disk' = IF snapshotFails THEN disk ELSE s
        /\ IF st.cp # NoCheckpoint
           THEN st' = disk' /\ UNCHANGED <<fs, run>>
           ELSE /\ st' = s
                /\ fs' = ResidualCleanup(fs, s)
                /\ run' = [run EXCEPT !.pc = "top"]
    BY <1>1, <1>7 DEF CmdResume
  <2> DEFINE s == Consumed(st, snapshotFails)
  <2>2. s.cp = st.cp /\ Behind(st, s)
    <3>1. /\ s.cp = st.cp /\ s.current = st.current
          /\ s.phase = st.phase \/ s.phase = "closure"
      BY <1>1, ConsumedKeeps
    <3>2. s.step = st.step BY <1>1 DEF Consumed, Popped, ToClosure, State
    <3>3. QED BY <3>1, <3>2 DEF Behind
  <2>3. disk' \in {st, s} /\ st' \in {st, s} BY <1>1, <2>1
  <2>4. /\ run'.pc # "queue"
        /\ fs' \in {fs, ResidualCleanup(fs, st')}
    BY <1>1, <2>1 DEF Process
  <2>5. QED BY <1>4, <1>5, <2>2, <2>3, <2>4
<1>8. QED BY <1>6, <1>7

LEMMA ProcessEndsKeepPlans ==
  ASSUME Inv, Promised, PlansFirst, ProcessEnds, "review" \notin Crashes \/ ~MemoReview
  PROVE  PlansFirst'
<1>1. fs \in Files /\ run \in Process /\ Idle.pc = "idle"
  BY TypesOf DEF Inv, Idle
<1>2. Spares(fs, fs) /\ Spares(fs, KeepMarked(fs)) BY <1>1, SparingCleanup
<1>3. ASSUME Spares(fs, fs'), disk' = st, st' = st, run'.pc # "queue"
      PROVE  PlansFirst'
  <2>1. PlanReady(st', fs') /\ PlanReady(disk', fs') BY <1>3, SparesPlans DEF PlansFirst
  <2>2. QED BY <1>3, <2>1 DEF PlansFirst, Spares
<1>4. CASE Save \/ Finish \/ AtExit
  <2>1. /\ disk' = st /\ st' = st /\ fs' \in {fs, KeepMarked(fs)} /\ run'.pc # "queue"
    BY <1>1, <1>4 DEF Save, Finish, AtExit, Process
  <2>2. QED BY <1>2, <1>3, <2>1
<1>5. CASE Kill
  <2>1. /\ st' = disk /\ disk' = disk /\ fs' = fs /\ run'.pc = "idle"
        /\ run.pc # "decided" \/ ~MemoReview
    BY <1>1, <1>5 DEF Kill
  <2>2. QED BY <2>1 DEF PlansFirst
<1>6. CASE Shutdown
  <2>1. /\ run.pc = "top" /\ disk' = st /\ fs' = KeepMarked(fs)
        /\ st' = Escalated(st, st.current)
    BY <1>6 DEF Shutdown
  <2>2. Behind(st, st') BY <2>1, TypesOf DEF Behind, Escalated, State
  <2>3. QED BY <1>2, <2>1, <2>2, MovedKeepsPlans DEF Spares
<1>7. QED BY <1>4, <1>5, <1>6 DEF ProcessEnds

LEMMA QueuePassKeepsPlans ==
  ASSUME Inv, Promised, PlansFirst, QueuePass
  PROVE  PlansFirst'
<1>1. fs \in Files /\ run \in Process /\ st \in State BY TypesOf DEF Inv
<1>2. CASE QueueBegin
  <2>1. run.pc = "top" /\ st' = st /\ disk' = disk /\ fs' = fs BY <1>2 DEF QueueBegin
  <2>2. QED BY <2>1, MovedKeepsPlans DEF Behind
<1>3. ASSUME InQueuePass PROVE \A e : e = Head(run.todo) => Spares(fs, Landed(fs, e))
  <2>1. Head(run.todo) \in Entry
    BY <1>1, <1>3, HeadTailProperties DEF InQueuePass, Process
  <2>2. Head(run.todo).chapter \in 0..Horizon /\ {Head(run.todo).chapter} \in SUBSET Nat
    BY <2>1 DEF Entry
  <2>3. QED BY <1>1, <2>2, SparingFiles, SparingCleanup DEF Landed
<1>4. CASE EntryDone \/ EntryFails
  <2>1. /\ InQueuePass /\ disk' = disk /\ run'.pc = "queue" /\ run.pc = "queue"
        /\ st' \in {st, ReRaised(st, Head(run.todo))}
        /\ fs' \in {fs, Landed(fs, Head(run.todo))}
    BY <1>1, <1>4 DEF EntryDone, EntryFails, InQueuePass, Process
  <2>2. Spares(fs, fs') BY <1>1, <1>3, <2>1, SparingCleanup
  <2>3. Planned(st', fs')
    <3>1. Planned(st, fs') BY <2>1, <2>2, SparesPlans DEF PlansFirst, Spares
    <3>2. st'.phase = st.phase /\ st'.step = st.step /\ st'.current = st.current
      BY <1>1, <2>1 DEF ReRaised, State
    <3>3. QED BY <3>1, <3>2 DEF Planned
  <2>4. PlanReady(disk', fs') BY <2>1, <2>2, SparesPlans DEF PlansFirst
  <2>5. QED BY <2>2, <2>3, <2>4 DEF PlansFirst, Spares, PlanReady
<1>5. CASE QueueEnd
  <2>1. /\ run.pc = "queue" /\ fs' = fs /\ disk' = st'
        /\ st'.phase = st.phase /\ st'.step = st.step /\ st'.current = st.current
    BY <1>1, <1>5 DEF QueueEnd, Escalated, State
  <2>2. Planned(st', fs') BY <2>1 DEF PlansFirst, Planned
  <2>3. QED BY <2>1, <2>2 DEF PlansFirst, PlanReady
<1>6. QED BY <1>2, <1>4, <1>5 DEF QueuePass

LEMMA TopKeepsPlans ==
  ASSUME Inv, Promised, PlansFirst, ChapterTop \/ Closing
  PROVE  PlansFirst'
<1>1. st \in State BY TypesOf
<1>2. run.pc = "top" /\ fs' = fs /\ disk' \in {disk, st'}
  BY DEF ChapterTop, TriggerFails, VolumeBoundary, TriggersAtCheckpoint, EnterClosure,
     VolumeAlign, AtTop, AtStep, StopAt, Closing, ClosureStep, ClosureFails, ClosureRests,
     Completed, AtClosure
<1>3. CASE ChapterTop
  <2>1. st.step = AlignStep /\ ~(st'.step > PlanStep)
    BY <1>1, <1>3, PlanSteps DEF ChapterTop, TriggerFails, VolumeBoundary,
       TriggersAtCheckpoint, EnterClosure, VolumeAlign, AtTop, AtStep, StopAt, ToClosure,
       Escalated, State
  <2>2. QED BY <1>2, <2>1, MovedKeepsPlans DEF Behind
<1>4. CASE Closing
  <2>1. st.phase # "chapter-loop" /\ st'.phase # "chapter-loop"
    BY <1>1, <1>4 DEF Closing, ClosureStep, ClosureFails, ClosureRests, Completed,
       AtClosure, Escalated, State
  <2>2. QED BY <1>2, <2>1, MovedKeepsPlans DEF Behind
<1>5. QED BY <1>3, <1>4

LEMMA StepKeepsPlans ==
  ASSUME Inv, Promised, PlansFirst, ChapterStep
  PROVE  PlansFirst'
<1>1. /\ run.pc = "top" /\ st.phase = "chapter-loop" /\ disk' = disk
      /\ st \in State /\ fs \in Files /\ st.current \in 0..Horizon
      /\ Bundle(st.current) \in SUBSET Nat
  BY TypesOf, CursorFacts, BundleNat DEF Inv, ChapterStep, Planning, ContextPrepare,
     Drafting, SceneSplit, SceneSplitFails, SceneSplitTorn, PostDraftExtract,
     LinguisticDrift, SettlePair, SettleAgain, AuditWave, Revision, StepsConsumed, AtStep,
     StepFails, RefuseUndrafted, Complete, CompletionRefused
<1>2. Planned(st, fs) /\ Planned(disk, fs) BY <1>1, AtWork
<1>3. \A f \in {fs, StagePlans(fs), StageCluster(fs), StageTruth(fs, st.current),
                ReviseDraft(fs, st.current)} : Spares(fs, f)
  <2>1. Spares(fs, StagePlans(fs)) BY <1>1 DEF Spares, StagePlans, Files
  <2>2. QED BY <1>1, <2>1, SparingFiles, SparingCleanup DEF StageCluster
<1>4. ASSUME Behind(st, st'), fs.plans \subseteq fs'.plans, fs'.drafts = fs.drafts
      PROVE  PlansFirst'
  BY <1>1, <1>4, MovedKeepsPlans
<1>5. ASSUME NEW f \in {fs, StagePlans(fs), StageCluster(fs), StageTruth(fs, st.current),
                        ReviseDraft(fs, st.current)}, StepFails(f)
      PROVE  PlansFirst'
  <2>1. Behind(st, st') BY <1>1, <1>5 DEF StepFails, Escalated, Behind, State
  <2>2. QED BY <1>3, <1>4, <1>5, <2>1 DEF StepFails, Spares
<1>6. CASE Planning
  <2> DEFINE planned == [st EXCEPT !.step = PrepareStep,
                                   !.begun = @ \cup Bundle(st.current)]
  <2>1. CASE /\ MemoReview /\ st' = [planned EXCEPT !.cp = At("chapter-memo", st.current)]
             /\ fs' = MarkPlans(StagePlans(fs), Bundle(st.current)) /\ Stop
    <3>1. /\ fs'.plans = fs.plans /\ fs'.drafts = fs.drafts
          /\ Due(st.current) \subseteq fs'.stagedPlans \cap fs'.markedPlans
      BY <1>1, <2>1 DEF MarkPlans, StagePlans, Files, Due
    <3>2. st'.cp = At("chapter-memo", st'.current) /\ st'.current = st.current
      BY <1>1, <2>1 DEF State
    <3>3. PlanReady(st', fs') BY <2>1, <3>1, <3>2 DEF PlanReady
    <3>4. run'.pc # "queue" BY <2>1, TypesOf DEF Stop, Process
    <3>5. QED BY <1>1, <3>1, <3>3, <3>4, WorkKeepsPlans DEF PlansFirst
  <2>2. CASE /\ st' = planned
             /\ fs' = CleanStaging(CommitPlans(StagePlans(fs), Bundle(st.current)))
    <3>1. /\ fs.plans \cup Due(st.current) \subseteq fs'.plans /\ fs'.drafts = fs.drafts
      BY <1>1, <2>2 DEF CleanStaging, CommitPlans, StagePlans, Files, Due
    <3>2. Planned(st', fs') BY <1>1, <2>2, <3>1 DEF Planned, State
    <3>3. QED BY <1>1, <3>1, <3>2, WorkKeepsPlans DEF PlansFirst, PlanReady
  <2>3. QED BY <1>5, <1>6, <2>1, <2>2 DEF Planning
<1>7. ASSUME NEW i \in {PrepareStep, DraftStep, SplitStep, ExtractStep, DriftStep,
                        LifecycleStep, SettleStep, AuditStep, RevisionStep, PastEnd},
             AtStep(i), st'.current = st.current
      PROVE  Behind(st, st')
  BY <1>7, PlanSteps DEF Behind, AtStep
<1>8. CASE ContextPrepare \/ PostDraftExtract \/ LinguisticDrift \/ AuditWave \/ StepsConsumed
  <2>1. st'.current = st.current /\ fs' = fs
    BY <1>1, <1>8 DEF ContextPrepare, PostDraftExtract, LinguisticDrift, AuditWave,
       StepsConsumed, Escalated, State
  <2>2. Behind(st, st')
    BY <1>7, <1>8, <2>1 DEF ContextPrepare, PostDraftExtract, LinguisticDrift, AuditWave,
       StepsConsumed
  <2>3. QED BY <1>4, <2>1, <2>2
<1>9. CASE Drafting
  <2>1. CASE st' = [st EXCEPT !.step = SplitStep] /\ fs' = StageCluster(fs)
    <3>1. st'.current = st.current BY <1>1, <2>1 DEF State
    <3>2. Behind(st, st') BY <1>7, <1>9, <3>1 DEF Drafting
    <3>3. QED BY <1>3, <1>4, <2>1, <3>2 DEF Spares
  <2>2. QED BY <1>5, <1>9, <2>1 DEF Drafting
<1>10. CASE SceneSplit \/ SceneSplitFails \/ SceneSplitTorn
  <2>1. /\ st' \in {[st EXCEPT !.step = ExtractStep], [st EXCEPT !.step = DraftStep],
                    Escalated(st, st.current), disk}
        /\ fs' \in {fs, Promote(fs), [fs EXCEPT !.drafts = @ \cup {st.current}]}
    BY <1>10 DEF SceneSplit, SceneSplitFails, SceneSplitTorn
  <2>2. Due(st.current) \subseteq fs.plans
    BY <1>2, <1>10, PlanSteps DEF Planned, SceneSplit, SceneSplitFails, SceneSplitTorn,
       AtStep
  <2>3. fs'.plans = fs.plans /\ fs'.drafts \subseteq fs.drafts \cup Bundle(st.current)
    BY <1>1, <2>1 DEF Promote, Files, Bundle
  <2>4. fs'.drafts \ Unplanned \subseteq fs'.plans BY <2>2, <2>3 DEF PlansFirst, Due
  <2>5. Planned(st', fs')
    <3>1. CASE st' = disk BY <1>2, <2>3, <3>1, SparesPlans
    <3>2. CASE st' # disk
      <4>1. st'.current = st.current BY <1>1, <2>1, <3>2 DEF Escalated, State
      <4>2. QED BY <2>2, <2>3, <4>1 DEF Planned
    <3>3. QED BY <3>1, <3>2
  <2>6. QED BY <1>1, <2>3, <2>4, <2>5, WorkKeepsPlans DEF PlanReady
<1>11. ASSUME RefuseUndrafted PROVE PlansFirst'
  <2>1. Behind(st, st') BY <1>1, <1>11 DEF RefuseUndrafted, Escalated, Behind, State
  <2>2. QED BY <1>4, <1>11, <2>1 DEF RefuseUndrafted
<1>12. CASE SettlePair \/ SettleAgain
  <2> DEFINE staged == StageTruth(fs, st.current)
  <2>1. ASSUME st'.current = st.current,
               fs' \in {staged, MarkTruth(staged), CleanStaging(CommitTruth(staged))}
        PROVE  PlansFirst'
    <3>1. fs'.plans = fs.plans /\ fs'.drafts = fs.drafts
      BY <1>1, <2>1 DEF StageTruth, MarkTruth, CommitTruth, CleanStaging, Files
    <3>2. Behind(st, st') BY <1>7, <1>12, <2>1 DEF SettlePair, SettleAgain
    <3>3. QED BY <1>4, <3>1, <3>2
  <2>2. /\ [st EXCEPT !.step = AuditStep].current = st.current
        /\ [st EXCEPT !.step = AuditStep, !.cp = At("state-settle", st.current)].current
             = st.current
    BY <1>1 DEF State
  <2>3. CASE SettlePair BY <1>5, <1>11, <2>1, <2>2, <2>3 DEF SettlePair
  <2>4. CASE SettleAgain BY <1>5, <1>11, <2>1, <2>2, <2>4 DEF SettleAgain
  <2>5. QED BY <1>12, <2>3, <2>4
<1>13. CASE Revision
  <2> DEFINE owed == [st EXCEPT !.queue = Enqueue(@, NewEntry("settle", st.current))]
  <2>1. fs' \in {fs, ReviseDraft(fs, st.current)}
    BY <1>13 DEF Revision, RefuseUndrafted, StepFails
  <2>2. fs.plans \subseteq fs'.plans /\ fs'.drafts = fs.drafts
    BY <1>3, <2>1 DEF Spares
  <2>3. ASSUME NEW s \in {st, owed}, Complete(s) \/ CompletionRefused(s)
        PROVE  PlansFirst'
    <3>1. CASE Complete(s)
      <4>1. st'.step = AlignStep BY <1>1, <2>3, <3>1 DEF Complete, State
      <4>2. QED BY <1>4, <2>2, <4>1, PlanSteps DEF Behind
    <3>2. CASE CompletionRefused(s) /\ run.armed
      <4>1. st'.current = st.current BY <1>1, <2>3, <3>2 DEF CompletionRefused, State
      <4>2. QED BY <1>4, <1>7, <1>13, <2>2, <4>1 DEF Revision
    <3>3. CASE CompletionRefused(s) /\ ~run.armed
      <4>1. Planned(st', fs') /\ fs'.drafts \ Unplanned \subseteq fs'.plans
        BY <1>2, <2>2, <3>3, SparesPlans DEF CompletionRefused, PlansFirst
      <4>2. QED BY <1>1, <2>2, <4>1, WorkKeepsPlans DEF PlanReady
    <3>4. QED BY <2>3, <3>1, <3>2, <3>3
  <2>4. QED BY <1>3, <1>5, <1>11, <1>13, <2>3 DEF Revision
<1>14. QED BY <1>6, <1>8, <1>9, <1>10, <1>12, <1>13 DEF ChapterStep

\* Nobody drafts from a plan that was written and is not committed, as long as no review of a
\* plan is killed between what it does to staging and its save.
THEOREM PlansBeforeDrafts ==
  ASSUME "review" \notin Crashes \/ ~MemoReview
  PROVE  Spec => []PlannedBeforeDrafted
<1>1. Init => PlansFirst
  BY PlanSteps DEF Init, Start, NoFiles, Idle, PlansFirst, PlanReady, Planned
<1>2. Inv /\ Promised /\ PlansFirst /\ [Next]_vars => PlansFirst'
  <2> SUFFICES ASSUME Inv, Promised, PlansFirst, [Next]_vars PROVE PlansFirst'
    OBVIOUS
  <2>1. CASE UNCHANGED vars BY <2>1 DEF vars, PlansFirst, PlanReady, Planned
  <2>2. CASE Next
    BY <2>2, ReviewKeepsPlans, CommandsKeepPlans, ProcessEndsKeepPlans,
       QueuePassKeepsPlans, TopKeepsPlans, StepKeepsPlans DEF Next, Command
  <2>3. QED BY <2>1, <2>2
<1>3. PlansFirst => PlannedBeforeDrafted BY DEF PlansFirst, PlannedBeforeDrafted
<1>4. QED BY <1>1, <1>2, <1>3, Backed, AlwaysPromised, PTL DEF Spec

-----------------------------------------------------------------------------
(* What a human is asked about is there.                                   *)

Blank(cp) == cp.type \notin {"state-settle", "chapter-memo"}

\* The product that a checkpoint is about is in staging, and marked.
Staged(cp, f) ==
  /\ cp.type = "state-settle" => f.stagedTruth[cp.chapter] # "none"
  /\ cp.type = "chapter-memo" => cp.chapter \in f.stagedPlans
Marked(cp, f) ==
  /\ cp.type = "state-settle" => f.markedTruth
  /\ cp.type = "chapter-memo" => cp.chapter \in f.markedPlans

\* An armed process owes nothing when it goes on, and what it puts to the
\* human is marked: the exit hook spares it.
ProductsKept ==
  /\ run.pc # "decided" => Staged(st.cp, fs) /\ Staged(disk.cp, fs)
  /\ run.pc = "decided" => st.cp = NoCheckpoint
  /\ run.armed => Marked(st.cp, fs)
  /\ run.armed /\ run.pc \in {"top", "save"} => st.queue = <<>>
  /\ run.pc \in {"idle", "decided", "queue"} => ~run.armed
  /\ run.pc = "atexit" => run.armed

LEMMA BlankFacts ==
  /\ \A cp, f : Blank(cp) => Staged(cp, f) /\ Marked(cp, f)
  /\ Blank(NoCheckpoint) /\ Blank(Ending) /\ \A cp \in Alarms : Blank(cp)
  /\ \A cp : Quiet(cp) => Blank(cp)
  /\ \A c : Blank(At("per-chapter", c)) /\ Blank(At("volume-boundary", c))
            /\ Blank(At("escalation", c))
BY DEF Blank, Staged, Marked, NoCheckpoint, Ending, Alarms, At, Quiet

LEMMA TopBlank ==
  ASSUME Promised, run.pc = "top"
  PROVE  Blank(st.cp) /\ Blank(disk.cp)
BY BlankFacts DEF Promised, Coupled, Abreast

\* Staging that only grows.
Stocks(f, g) ==
  /\ \A c \in Chapters : f.stagedTruth[c] # "none" => g.stagedTruth[c] # "none"
  /\ f.stagedPlans \subseteq g.stagedPlans

LEMMA StocksStaged ==
  ASSUME NEW n \in Chapters, NEW cp \in AskedBy(n), NEW f, NEW g, Stocks(f, g), Staged(cp, f)
  PROVE  Staged(cp, g)
BY DEF Stocks, Staged, AskedBy, Chapters

LEMMA StockingFiles ==
  ASSUME NEW f \in Files, NEW c \in 0..Horizon, NEW S \in SUBSET Nat
  PROVE  /\ Stocks(f, f) /\ Stocks(f, StageTruth(f, c)) /\ Stocks(f, ReviseDraft(f, c))
         /\ Stocks(f, [f EXCEPT !.stagedPlans = @ \cup S])
BY DEF Stocks, StageTruth, ReviseDraft, Files, Freshness

LEMMA WorkKeepsProducts ==
  ASSUME Inv, Promised, ProductsKept, run.pc = "top", Continue \/ Stop,
         Staged(st'.cp, fs'), Marked(st'.cp, fs'), Stop \/ st'.queue = <<>>,
         disk' \in {disk, st, st'}
  PROVE  ProductsKept'
<1>1. Staged(disk'.cp, fs') BY TopBlank, BlankFacts
<1>2. run'.armed = run.armed /\ run'.pc \in {"save", "exit"} /\ (Stop => run'.pc = "exit")
  BY TypesOf DEF Continue, Stop, Process
<1>3. QED BY <1>1, <1>2 DEF ProductsKept

LEMMA BlankKeepsProducts ==
  ASSUME Inv, Promised, ProductsKept, run.pc = "top", Continue \/ Stop,
         Blank(st'.cp), Stop \/ st'.queue = <<>>, disk' \in {disk, st, st'}
  PROVE  ProductsKept'
BY BlankFacts, WorkKeepsProducts

LEMMA DiedKeepsProducts ==
  ASSUME ProductsKept, run.pc # "decided", st' = disk, disk' = disk, run' = Idle,
         Stocks(fs, fs') \/ Blank(disk.cp), Inv, Promised
  PROVE  ProductsKept'
<1>1. disk.current \in Chapters /\ disk.cp \in AskedBy(disk.current)
  BY TypesOf DEF Promised, Orderly, State
<1>2. Staged(disk.cp, fs') BY <1>1, StocksStaged, BlankFacts DEF ProductsKept
<1>3. Idle.pc = "idle" /\ ~Idle.armed BY DEF Idle
<1>4. QED BY <1>2, <1>3 DEF ProductsKept

LEMMA CommandsKeepProducts ==
  ASSUME Inv, Promised, ProductsKept, Command
  PROVE  ProductsKept'
<1>1. run \in Process /\ run.pc = "idle" /\ st = disk /\ st \in State /\ ~run.armed
  BY TypesOf DEF Command, CmdNext, CmdResume, Approve, Modify, Reject, Decide, Promised,
     Coupled, ProductsKept
<1>2. CASE Approve \/ Modify \/ Reject
  <2>1. /\ run'.pc = "decided" /\ ~run'.armed
    BY <1>1, <1>2 DEF Approve, Modify, Reject, Decide, Process
  <2>2. st'.cp = NoCheckpoint
    <3>1. st.cp \in BackedCheckpoint(fs.drafts) /\ st \in BackedState(fs.drafts)
      BY DEF Inv, BackedState
    <3>2. {Approved(st, st.cp), Modified(st, st.cp), Rejected(st, st.cp)} \subseteq State
      BY <3>1, ApprovedBacked, ModifiedBacked, RejectedBacked DEF BackedState
    <3>3. QED BY <1>2, <3>2 DEF Approve, Modify, Reject, Decide, State
  <2>3. QED BY <2>1, <2>2 DEF ProductsKept
<1>3. CASE CmdNext
  <2>1. /\ st' = st /\ disk' = st /\ st.cp = NoCheckpoint /\ run'.pc = "top" /\ ~run'.armed
    BY <1>1, <1>3 DEF CmdNext, Process
  <2>2. QED BY <2>1, BlankFacts DEF ProductsKept
<1>4. CASE CmdResume
  <2>0. Clamped(st, fs) = st /\ Orderly(st) BY ClampedBacked DEF Inv, Promised
  <2>1. \A b \in BOOLEAN : Consumed(st, b).cp = st.cp BY <1>1, <2>0, ConsumedKeeps
  <2>2. /\ st'.cp = st.cp /\ disk'.cp = st.cp
        /\ \/ st.cp # NoCheckpoint /\ fs' = fs /\ run' = run
           \/ st.cp = NoCheckpoint /\ run'.pc = "top" /\ ~run'.armed
    BY <1>1, <1>4, <2>0, <2>1 DEF CmdResume, Process
  <2>3. QED BY <1>1, <2>2, BlankFacts DEF ProductsKept
<1>5. QED BY <1>2, <1>3, <1>4 DEF Command

LEMMA ProcessEndsKeepProducts ==
  ASSUME Inv, Promised, ProductsKept, ProcessEnds, "review" \notin Crashes
  PROVE  ProductsKept'
<1>1. /\ run \in Process /\ fs \in Files /\ st \in State /\ st.current \in Chapters
      /\ st.cp \in AskedBy(st.current) /\ Idle.pc = "idle" /\ ~Idle.armed
  BY TypesOf DEF Inv, Promised, Orderly, State, Idle
<1>2. CASE Save
  <2>1. /\ run.pc = "save" /\ st' = st /\ disk' = st /\ fs' = fs
        /\ run'.pc = "top" /\ run'.armed = run.armed
    BY <1>1, <1>2 DEF Save, Process
  <2>2. QED BY <2>1 DEF ProductsKept
<1>3. CASE Finish
  <2>1. /\ run.pc \in {"exit", "decided"} /\ st' = st /\ disk' = st /\ fs' = fs
        /\ \/ run.armed /\ run'.pc = "atexit" /\ run'.armed
           \/ run' = Idle
    BY <1>1, <1>3 DEF Finish, Process
  <2>2. Staged(st.cp, fs) BY <2>1, BlankFacts DEF ProductsKept
  <2>3. QED BY <1>1, <2>1, <2>2 DEF ProductsKept
<1>4. CASE AtExit
  <2>1. /\ run.pc = "atexit" /\ st' = st /\ disk' = st /\ fs' = KeepMarked(fs) /\ run' = Idle
    BY <1>4 DEF AtExit
  <2>2. Staged(st.cp, fs) /\ Marked(st.cp, fs) BY <2>1 DEF ProductsKept
  <2>3. Staged(st.cp, KeepMarked(fs))
    BY <1>1, <2>2 DEF Staged, Marked, KeepMarked, Files, AskedBy
  <2>4. QED BY <1>1, <2>1, <2>3 DEF ProductsKept
<1>5. CASE Kill
  <2>1. /\ st' = disk /\ disk' = disk /\ fs' = fs /\ run' = Idle /\ run.pc # "decided"
    BY <1>5 DEF Kill
  <2>2. Stocks(fs, fs') BY <2>1 DEF Stocks
  <2>3. QED BY <2>1, <2>2, DiedKeepsProducts
<1>6. CASE Shutdown
  <2>1. /\ run.pc = "top" /\ disk' = st /\ st' = Escalated(st, st.current)
        /\ run'.pc = "exit" /\ ~run'.armed
    BY <1>1, <1>6 DEF Shutdown, Process
  <2>2. Blank(st'.cp) /\ Blank(disk'.cp)
    BY <1>1, <2>1, TopBlank, BlankFacts DEF Escalated, State
  <2>3. QED BY <2>1, <2>2, BlankFacts DEF ProductsKept
<1>7. QED BY <1>2, <1>3, <1>4, <1>5, <1>6 DEF ProcessEnds

LEMMA QueuePassKeepsProducts ==
  ASSUME Inv, Promised, ProductsKept, QueuePass
  PROVE  ProductsKept'
<1>1. /\ run \in Process /\ fs \in Files /\ st \in State /\ st.current \in Chapters
      /\ st.cp \in AskedBy(st.current)
  BY TypesOf DEF Inv, Promised, Orderly, State
<1>2. CASE QueueBegin
  <2>1. /\ run.pc = "top" /\ st.queue # <<>> /\ st' = st /\ disk' = disk /\ fs' = fs
        /\ run'.pc = "queue" /\ run'.armed = run.armed
    BY <1>1, <1>2 DEF QueueBegin, Process
  <2>2. QED BY <2>1 DEF ProductsKept
<1>3. CASE EntryDone \/ EntryFails
  <2> DEFINE e == Head(run.todo)
  <2>1. /\ InQueuePass /\ run.pc = "queue" /\ disk' = disk
        /\ run'.pc = "queue" /\ run'.armed = run.armed
        /\ fs' \in {fs, Landed(fs, e)}
        /\ st' = st \/ (st' = ReRaised(st, e) /\ fs' = Landed(fs, e))
    BY <1>1, <1>3 DEF EntryDone, EntryFails, InQueuePass, Process
  <2>2. e \in OwedBy(st.current)
    BY <2>1, HeadTailProperties DEF InQueuePass, Promised
  <2>3. e.chapter \in 0..Horizon /\ {e.chapter} \in SUBSET Nat /\ e.chapter \in Chapters
    BY <1>1, <2>2 DEF OwedBy, Entry, Chapters
  <2>4. Stocks(fs, fs')
    BY <1>1, <2>1, <2>3, StockingFiles DEF Landed
  <2>5. Staged(st'.cp, fs')
    <3>1. CASE st'.cp = st.cp BY <1>1, <2>1, <2>4, <3>1, StocksStaged DEF ProductsKept
    <3>2. CASE st'.cp # st.cp
      <4>1. /\ fs' = Landed(fs, e)
            /\ \/ e.skill = "settle" /\ st'.cp = At("state-settle", e.chapter)
               \/ e.skill = "planning" /\ st'.cp = At("chapter-memo", e.chapter)
        BY <1>1, <2>1, <3>2 DEF ReRaised, State
      <4>2. QED
        BY <1>1, <2>3, <4>1 DEF Landed, StageTruth, Staged, At, Files
    <3>3. QED BY <3>1, <3>2
  <2>6. Staged(disk'.cp, fs')
    BY <2>1, BlankFacts DEF Promised, Coupled, Abreast
  <2>7. QED BY <2>1, <2>5, <2>6 DEF ProductsKept
<1>4. CASE QueueEnd
  <2>1. /\ run.pc = "queue" /\ fs' = fs /\ disk' = st' /\ run'.armed = run.armed
        /\ run'.pc \in {"top", "exit"}
    BY <1>1, <1>4 DEF QueueEnd, Process
  <2>2. st'.cp = st.cp \/ \E c : st'.cp = At("escalation", c)
    BY <1>1, <1>4 DEF QueueEnd, Escalated, State
  <2>3. Staged(st'.cp, fs') BY <2>1, <2>2, BlankFacts DEF ProductsKept
  <2>4. QED BY <2>1, <2>3 DEF ProductsKept
<1>5. QED BY <1>2, <1>3, <1>4 DEF QueuePass

LEMMA TopKeepsProducts ==
  ASSUME Inv, Promised, ProductsKept, ChapterTop \/ Closing
  PROVE  ProductsKept'
<1>1. /\ run.pc = "top" /\ st.queue = <<>> /\ st \in State /\ run \in Process
      /\ disk' \in {disk, st'} /\ Blank(st.cp)
  BY TypesOf, TopBlank DEF ChapterTop, TriggerFails, VolumeBoundary, TriggersAtCheckpoint,
     EnterClosure, VolumeAlign, AtTop, AtStep, StopAt, Closing, ClosureStep, ClosureFails,
     ClosureRests, Completed, AtClosure
<1>2. CASE EnterClosure \/ VolumeAlign
  <2>1. /\ st'.cp = st.cp /\ st'.queue = <<>> /\ disk' = disk
        /\ run'.pc \in {"top", "save"}
    BY <1>1, <1>2 DEF EnterClosure, VolumeAlign, ToClosure, State, Process
  <2>2. QED BY <1>1, <2>1, TopBlank, BlankFacts DEF ProductsKept
<1>3. CASE TriggerFails \/ VolumeBoundary \/ TriggersAtCheckpoint
  <2>1. /\ Stop
        /\ st'.cp \in {st.cp, At("escalation", Prev), At("volume-boundary", Prev)}
    BY <1>1, <1>3 DEF TriggerFails, VolumeBoundary, TriggersAtCheckpoint, StopAt,
       Escalated, State
  <2>2. QED BY <1>1, <2>1, BlankFacts, BlankKeepsProducts
<1>4. CASE Closing
  <2>1. /\ (Continue \/ Stop) /\ st'.queue = <<>>
        /\ st'.cp \in {st.cp, Ending, At("escalation", 0)}
    BY <1>1, <1>4 DEF Closing, ClosureStep, ClosureFails, ClosureRests, Completed,
       Escalated, Ending, State
  <2>2. QED BY <1>1, <2>1, BlankFacts, BlankKeepsProducts
<1>5. QED BY <1>2, <1>3, <1>4 DEF ChapterTop

LEMMA StepKeepsProducts ==
  ASSUME Inv, Promised, ProductsKept, ChapterStep, ChapterReview
  PROVE  ProductsKept'
<1>1. /\ run.pc = "top" /\ st.phase = "chapter-loop" /\ st.queue = <<>> /\ disk' = disk
      /\ st \in State /\ fs \in Files /\ st.current \in Chapters
      /\ Bundle(st.current) \in SUBSET Nat /\ st.current \in Bundle(st.current)
      /\ Blank(st.cp)
  BY TypesOf, CursorFacts, BundleFacts, TopBlank DEF Inv, ChapterStep, Planning,
     ContextPrepare, Drafting, SceneSplit, SceneSplitFails, SceneSplitTorn,
     PostDraftExtract, LinguisticDrift, SettlePair, SettleAgain, AuditWave, Revision,
     StepsConsumed, AtStep, StepFails, RefuseUndrafted, Complete, CompletionRefused
<1>2. ASSUME NEW s \in State, s.queue = <<>>, s.cp = st.cp, Continue \/ Stop,
             st' = s \/ st' = Escalated(s, st.current)
      PROVE  ProductsKept'
  <2>1. Blank(st'.cp) /\ st'.queue = <<>>
    BY <1>1, <1>2, BlankFacts DEF Escalated, State
  <2>2. QED BY <1>1, <1>2, <2>1, BlankKeepsProducts
<1>3. \A i \in Steps : /\ [st EXCEPT !.step = i] \in State
                       /\ [st EXCEPT !.step = i].queue = <<>>
                       /\ [st EXCEPT !.step = i].cp = st.cp
  BY <1>1 DEF State
<1>4. ASSUME NEW i \in Steps, Continue \/ Stop,
             \/ st' = [st EXCEPT !.step = i]
             \/ st' = Escalated([st EXCEPT !.step = i], st.current)
      PROVE  ProductsKept'
  BY <1>2, <1>3, <1>4
<1>5. ASSUME st' = st \/ st' = Escalated(st, st.current), Continue \/ Stop
      PROVE  ProductsKept'
  BY <1>1, <1>2, <1>5
<1>6. ASSUME NEW f, StepFails(f) PROVE ProductsKept'
  BY <1>5, <1>6 DEF StepFails
<1>7. ASSUME RefuseUndrafted PROVE ProductsKept'
  BY <1>5, <1>7 DEF RefuseUndrafted
<1>8. CASE Planning
  <2> DEFINE planned == [st EXCEPT !.step = PrepareStep,
                                   !.begun = @ \cup Bundle(st.current)]
  <2>1. planned \in State /\ planned.queue = <<>> /\ planned.cp = st.cp
    BY <1>1, StepsTypes DEF State
  <2>2. CASE /\ st' = [planned EXCEPT !.cp = At("chapter-memo", st.current)] /\ Stop
             /\ fs' = MarkPlans(StagePlans(fs), Bundle(st.current))
    <3>1. st'.cp = At("chapter-memo", st.current) BY <2>1, <2>2 DEF State
    <3>2. st.current \in fs'.stagedPlans /\ st.current \in fs'.markedPlans
      BY <1>1, <2>2 DEF MarkPlans, StagePlans, Files
    <3>3. Staged(st'.cp, fs') /\ Marked(st'.cp, fs') BY <3>1, <3>2 DEF Staged, Marked, At
    <3>4. QED BY <1>1, <2>2, <3>3, WorkKeepsProducts
  <2>3. CASE st' = planned /\ Continue BY <1>2, <2>1, <2>3
  <2>4. QED BY <1>6, <1>8, <2>2, <2>3 DEF Planning
<1>9. CASE ContextPrepare \/ Drafting \/ SceneSplit \/ SceneSplitFails \/ PostDraftExtract
           \/ LinguisticDrift \/ StepsConsumed
  BY <1>4, <1>5, <1>6, <1>9, StepsTypes DEF ContextPrepare, Drafting, SceneSplit,
     SceneSplitFails, PostDraftExtract, LinguisticDrift, StepsConsumed
<1>10. ASSUME st' = disk, disk' = disk, run' = Idle PROVE ProductsKept'
  BY <1>1, <1>10, TopBlank, DiedKeepsProducts
<1>11. CASE SceneSplitTorn BY <1>10, <1>11 DEF SceneSplitTorn
<1>12. CASE SettlePair \/ SettleAgain
  <2>1. CASE /\ fs' = MarkTruth(StageTruth(fs, st.current)) /\ Stop
             /\ st' = [st EXCEPT !.step = AuditStep, !.cp = At("state-settle", st.current)]
    <3>1. st'.cp = At("state-settle", st.current) BY <1>1, <2>1 DEF State
    <3>2. fs'.stagedTruth[st.current] = "fresh" /\ fs'.markedTruth
      BY <1>1, <2>1 DEF MarkTruth, StageTruth, Files
    <3>3. Staged(st'.cp, fs') /\ Marked(st'.cp, fs') BY <3>1, <3>2 DEF Staged, Marked, At
    <3>4. QED BY <1>1, <2>1, <3>3, WorkKeepsProducts
  <2>2. CASE st' = [st EXCEPT !.step = AuditStep] /\ Continue
    BY <1>4, <2>2, StepsTypes
  <2>3. QED BY <1>6, <1>7, <1>12, <2>1, <2>2 DEF SettlePair, SettleAgain
<1>13. CASE AuditWave
  <2>1. \A b \in BOOLEAN : /\ [st EXCEPT !.step = RevisionStep, !.revise = b] \in State
                           /\ [st EXCEPT !.step = RevisionStep, !.revise = b].queue = <<>>
                           /\ [st EXCEPT !.step = RevisionStep, !.revise = b].cp = st.cp
    BY <1>1, StepsTypes DEF State
  <2>2. QED BY <1>2, <1>4, <1>13, <2>1, StepsTypes DEF AuditWave
<1>14. CASE Revision
  <2> DEFINE owed == [st EXCEPT !.queue = Enqueue(@, NewEntry("settle", st.current))]
  <2>1. ASSUME NEW s \in {st, owed}, Complete(s) \/ CompletionRefused(s)
        PROVE  ProductsKept'
    <3>0. s \in State /\ s.cp = st.cp
      <4>1. NewEntry("settle", st.current) \in Entry
        BY <1>1 DEF NewEntry, Entry, QueueSkills, Chapters
      <4>2. Enqueue(st.queue, NewEntry("settle", st.current)) \in Seq(Entry)
        BY <1>1, <4>1, EnqueueSeq DEF State
      <4>3. QED BY <1>1, <4>2 DEF State
    <3>1. CASE Complete(s)
      <4>1. st'.cp = At("per-chapter", st.current) /\ Stop
        BY <3>0, <3>1 DEF Complete, State
      <4>2. QED BY <1>1, <4>1, BlankFacts, BlankKeepsProducts
    <3>2. CASE CompletionRefused(s) /\ run.armed
      <4>1. st'.cp = st.cp /\ disk' = disk /\ run'.pc = "atexit" /\ run'.armed
        BY <3>0, <3>2, TypesOf DEF CompletionRefused, State, Process
      <4>2. QED BY <1>1, <4>1, TopBlank, BlankFacts DEF ProductsKept
    <3>3. CASE CompletionRefused(s) /\ ~run.armed
      BY <1>10, <3>3 DEF CompletionRefused
    <3>4. QED BY <2>1, <3>1, <3>2, <3>3
  <2>2. QED BY <1>6, <1>7, <1>14, <2>1 DEF Revision
<1>15. QED BY <1>8, <1>9, <1>11, <1>12, <1>13, <1>14 DEF ChapterStep

\* When a human is asked about a plan or a settlement there is one to commit,
\* as long as every chapter ends in a review and no review is killed between
\* what it does to staging and its save.
THEOREM ProductsPending ==
  ASSUME ChapterReview, "review" \notin Crashes
  PROVE  Spec => []PendingProduct
<1>1. Init => ProductsKept
  BY BlankFacts DEF Init, Start, Idle, ProductsKept
<1>2. Inv /\ Promised /\ ProductsKept /\ [Next]_vars => ProductsKept'
  <2> SUFFICES ASSUME Inv, Promised, ProductsKept, [Next]_vars PROVE ProductsKept'
    OBVIOUS
  <2>1. CASE UNCHANGED vars BY <2>1 DEF vars, ProductsKept, Staged, Marked
  <2>2. CASE Next
    BY <2>2, CommandsKeepProducts, ProcessEndsKeepProducts, QueuePassKeepsProducts,
       TopKeepsProducts, StepKeepsProducts DEF Next
  <2>3. QED BY <2>1, <2>2
<1>3. ProductsKept => PendingProduct BY DEF ProductsKept, Staged, PendingProduct
<1>4. QED BY <1>1, <1>2, <1>3, Backed, AlwaysPromised, PTL DEF Spec

-----------------------------------------------------------------------------
(* One settlement at a time.  Whatever is in staging, asked or owed about  *)
(* the settling of a chapter is about one chapter, the member of T; past   *)
(* the planning of a chapter it is that very chapter.                      *)

Riding(f) == {c \in Chapters : f.stagedTruth[c] # "none"}

\* Entries that settle a chapter of T, or settle and plan nothing.
Settling(T) ==
  {e \in Entry : e.skill # "planning" /\ (e.skill = "settle" => e.chapter \in T)}

SettlesIn(s, T) ==
  /\ s.cp.type \in {"state-settle", "per-chapter"} => s.cp.chapter \in T
  /\ s.queue \in Seq(Settling(T))
  /\ s.phase = "chapter-loop" /\ s.step > PlanStep /\ s.cp.type # "chapter-memo"
       => T \subseteq {s.current}
  /\ s.cp.type = "chapter-memo" => s.cp.chapter = s.current /\ s.queue = <<>>

AboutOne(T) ==
  /\ \A c, d \in T : c = d
  /\ Riding(fs) \subseteq T
  /\ SettlesIn(st, T) /\ SettlesIn(disk, T)
  /\ run.todo \in Seq(Settling(T)) /\ run.kept \in Seq(Settling(T))

OneSettlement ==
  /\ \E T : AboutOne(T)
  /\ run.pc = "top" => disk.queue = st.queue
  /\ run.pc # "queue" => run.todo = <<>> /\ run.kept = <<>>

LEMMA RidingFiles ==
  ASSUME NEW f \in Files, NEW c \in 0..Horizon, NEW cp
  PROVE  /\ Riding(CleanStaging(f)) = {} /\ Riding(KeepMarked(f)) \subseteq Riding(f)
         /\ Riding(ReviseDraft(f, c)) \subseteq Riding(f)
         /\ Riding(StageTruth(f, c)) \subseteq Riding(f) \cup {c}
         /\ \A others \in BOOLEAN : Riding(RejectFiles(f, cp, others)) \subseteq Riding(f)
         /\ Riding(MarkTruth(f)) = Riding(f)
<1>1. \A d \in Chapters : NoTruth[d] = "none" BY DEF NoTruth
<1>2. Riding(CleanStaging(f)) = {} BY <1>1 DEF Riding, CleanStaging, Files
<1>3. Riding(KeepMarked(f)) \subseteq Riding(f) BY <1>1 DEF Riding, KeepMarked, Files
<1>4. Riding(ReviseDraft(f, c)) \subseteq Riding(f) BY DEF Riding, ReviseDraft, Files
<1>5. Riding(StageTruth(f, c)) \subseteq Riding(f) \cup {c}
  BY DEF Riding, StageTruth, Files
<1>6. \A others \in BOOLEAN : Riding(RejectFiles(f, cp, others)) \subseteq Riding(f)
  BY <1>1 DEF Riding, RejectFiles, Files
<1>7. Riding(MarkTruth(f)) = Riding(f) BY DEF Riding, MarkTruth, Files
<1>8. QED BY <1>2, <1>3, <1>4, <1>5, <1>6, <1>7

\* At the top of a chapter nothing is owed, and past its planning what rides
\* in staging is its own settlement.
LEMMA TopSettles ==
  ASSUME Inv, Promised, OneSettlement, run.pc = "top", st.phase = "chapter-loop",
         st.queue = <<>>
  PROVE  /\ Quiet(st.cp) /\ Quiet(disk.cp) /\ SameLife(disk, st)
         /\ disk.queue = <<>> /\ run.todo = <<>> /\ run.kept = <<>>
         /\ st.step > PlanStep => Riding(fs) \subseteq {st.current}
<1>1. Quiet(st.cp) /\ Quiet(disk.cp) /\ SameLife(disk, st) BY TopOfChapter
<1>2. disk.queue = <<>> /\ run.todo = <<>> /\ run.kept = <<>> BY DEF OneSettlement
<1>3. st.step > PlanStep => Riding(fs) \subseteq {st.current}
  BY <1>1 DEF OneSettlement, AboutOne, SettlesIn, Quiet
<1>4. QED BY <1>1, <1>2, <1>3

LEMMA AboutOneNext ==
  ASSUME NEW T, \A c, d \in T : c = d, Riding(fs') \subseteq T,
         SettlesIn(st', T), SettlesIn(disk', T),
         run'.todo \in Seq(Settling(T)), run'.kept \in Seq(Settling(T)),
         run'.pc = "top" => disk'.queue = st'.queue,
         run'.pc # "queue" => run'.todo = <<>> /\ run'.kept = <<>>
  PROVE  OneSettlement'
<1>1. AboutOne(T)' BY DEF AboutOne
<1>2. QED BY <1>1 DEF OneSettlement

\* Nothing about a settlement is added.
LEMMA NothingAdded ==
  ASSUME NEW T, AboutOne(T), Riding(fs') \subseteq T,
         SettlesIn(st', T), SettlesIn(disk', T), run'.pc # "queue",
         run'.todo = <<>> /\ run'.kept = <<>>,
         run'.pc = "top" => disk'.queue = st'.queue
  PROVE  OneSettlement'
<1>1. <<>> \in Seq(Settling(T)) BY EmptySeq
<1>2. QED BY <1>1, AboutOneNext DEF AboutOne

\* A step of a chapter past its planning is about that chapter.
LEMMA PastPlanning ==
  ASSUME Inv, Promised, OneSettlement, run.pc = "top", st.phase = "chapter-loop",
         st.queue = <<>>, st.step > PlanStep, disk' = disk, run'.pc \notin {"top", "queue"},
         run'.todo = run.todo /\ run'.kept = run.kept,
         Riding(fs') \subseteq Riding(fs) \cup {st.current},
         st'.queue = <<>> \/ st'.queue \in Seq(Settling({st.current})),
         st'.cp.type \in {"state-settle", "per-chapter"} => st'.cp.chapter = st.current,
         st'.cp.type # "chapter-memo",
         st'.current = st.current \/ ~(st'.step > PlanStep)
  PROVE  OneSettlement'
<1> DEFINE T == {st.current}
<1>1. /\ Quiet(disk.cp) /\ disk.queue = <<>> /\ run.todo = <<>> /\ run.kept = <<>>
      /\ Riding(fs) \subseteq T /\ disk.current = st.current
  BY TopSettles DEF SameLife
<1>2. <<>> \in Seq(Settling(T)) BY EmptySeq
<1>3. SettlesIn(disk, T) BY <1>1, <1>2 DEF SettlesIn, Quiet
<1>4. SettlesIn(st', T) BY <1>2 DEF SettlesIn
<1>5. QED BY <1>1, <1>2, <1>3, <1>4, AboutOneNext

LEMMA SettleEntry ==
  ASSUME NEW T, NEW c \in 0..Horizon
  PROVE  /\ NewEntry("derived", c) \in Settling(T) /\ NewEntry("revision", c) \in Settling(T)
         /\ c \in T => NewEntry("settle", c) \in Settling(T)
BY DEF NewEntry, Settling, Entry, QueueSkills

LEMMA EnqueueSettles ==
  ASSUME NEW T, NEW s \in State, s.queue \in Seq(Settling(T)), NEW e \in Settling(T)
  PROVE  [s EXCEPT !.queue = Enqueue(@, e)].queue \in Seq(Settling(T))
BY EnqueueSeq DEF State

LEMMA QueueDerivedSettles ==
  ASSUME NEW T, NEW s \in State, s.queue \in Seq(Settling(T)), NEW cp \in Checkpoint,
         cp.type = "per-chapter" => cp.chapter \in T
  PROVE  QueueDerived(s, cp).queue \in Seq(Settling(T))
<1> DEFINE twice == Enqueue(Enqueue(s.queue, NewEntry("revision", cp.chapter)),
                            NewEntry("settle", cp.chapter))
<1>1. cp.chapter \in 0..Horizon BY DEF Checkpoint
<1>2. cp.type = "per-chapter" => twice \in Seq(Settling(T))
  BY <1>1, SettleEntry, EnqueueSeq
<1>3. QED BY <1>1, <1>2, SettleEntry, EnqueueSettles DEF QueueDerived, State

LEMMA ReviewSettles ==
  ASSUME NEW T, \A c, d \in T : c = d, NEW D, NEW s \in BackedState(D), SettlesIn(s, T),
         NEW t \in {Rejected(s, s.cp), Modified(s, s.cp)}
  PROVE  /\ t.queue \in Seq(Settling(T)) /\ t \in State
         /\ t.phase = "chapter-loop" /\ t.step > PlanStep => T \subseteq {t.current}
<1> DEFINE cp == s.cp
<1>1. /\ s \in State /\ cp \in Checkpoint /\ cp \in BackedCheckpoint(D)
      /\ cp.chapter \in 0..Horizon
  BY DEF BackedState, State, Checkpoint
<1>2. t \in State BY <1>1, RejectedBacked, ModifiedBacked DEF BackedState
<1>3. ~(cp.type = "chapter-memo" /\ ChapterMismatch(s, cp))
  BY DEF SettlesIn, ChapterMismatch
<1>4. t.phase = "chapter-loop" /\ t.step > PlanStep => T \subseteq {t.current}
  <2>1. CASE t.phase = s.phase /\ t.step = s.step /\ t.current = s.current
             /\ cp.type # "chapter-memo"
    BY <2>1 DEF SettlesIn
  <2>2. CASE t.phase = s.phase /\ t.current = s.current /\ cp.type = "state-settle"
             /\ ~ChapterMismatch(s, cp)
    BY <2>2 DEF SettlesIn, ChapterMismatch
  <2>3. QED BY <1>1, <1>3, <2>1, <2>2, ReviewCursor
<1>5. s.queue \in Seq(Settling(T))
      /\ (cp.type \in {"state-settle", "per-chapter"} => cp.chapter \in T)
  BY DEF SettlesIn
<1>6. ASSUME NEW skill, NEW i \in Steps, skill \in QueueSkills,
             \/ cp.type = "chapter-memo" /\ skill = "planning" /\ i = PlanStep
             \/ cp.type = "state-settle" /\ skill = "settle" /\ i = SettleStep
      PROVE  /\ Redo(s, cp, skill, i).queue \in Seq(Settling(T))
             /\ Redo(s, cp, skill, i) \in State
  <2>1. CASE ~ChapterMismatch(s, cp) BY <1>1, <1>5, <1>6, <2>1 DEF Redo, State
  <2>2. CASE ChapterMismatch(s, cp)
    <3>1. NewEntry("settle", cp.chapter) \in Settling(T) /\ skill = "settle"
      BY <1>1, <1>3, <1>5, <1>6, <2>2, SettleEntry
    <3>2. Redo(s, cp, skill, i) = [s EXCEPT !.queue = Enqueue(@, NewEntry("settle", cp.chapter))]
      BY <2>2, <3>1 DEF Redo
    <3>3. NewEntry("settle", cp.chapter) \in Entry BY <3>1 DEF Settling
    <3>4. Enqueue(s.queue, NewEntry("settle", cp.chapter)) \in Seq(Entry)
      BY <1>1, <3>3, EnqueueSeq DEF State
    <3>5. QED BY <1>1, <1>5, <3>1, <3>2, <3>4, EnqueueSettles DEF State
  <2>3. QED BY <2>1, <2>2
<1>7. /\ "planning" \in QueueSkills /\ "settle" \in QueueSkills
      /\ PlanStep \in Steps /\ SettleStep \in Steps /\ AlignStep \in Steps
  BY StepsTypes DEF QueueSkills
<1>8. t.queue \in Seq(Settling(T))
  <2>1. CASE cp.type = "chapter-memo"
    <3>1. t \in {Redo(s, cp, "planning", PlanStep),
                 QueueDerived(Redo(s, cp, "planning", PlanStep), cp)}
      BY <2>1 DEF Rejected, Modified
    <3>2. QED BY <1>1, <1>6, <1>7, <2>1, <3>1, QueueDerivedSettles
  <2>2. CASE cp.type = "state-settle"
    <3>1. t \in {Redo(s, cp, "settle", SettleStep),
                 QueueDerived(Redo(s, cp, "settle", SettleStep), cp)}
      BY <2>2 DEF Rejected, Modified
    <3>2. QED BY <1>1, <1>6, <1>7, <2>2, <3>1, QueueDerivedSettles
  <2>3. CASE cp.type \notin {"chapter-memo", "state-settle"}
    <3>1. t \in {s, [s EXCEPT !.step = AlignStep], BackToLoop(s), QueueDerived(s, cp)}
      BY <2>3 DEF Rejected, Modified
    <3>2. BackToLoop(s).queue = s.queue /\ [s EXCEPT !.step = AlignStep].queue = s.queue
      BY <1>1 DEF BackToLoop, State
    <3>3. QED BY <1>1, <1>5, <3>1, <3>2, QueueDerivedSettles
  <2>4. QED BY <2>1, <2>2, <2>3
<1>9. QED BY <1>2, <1>4, <1>8

LEMMA ReviewKeepsOne ==
  ASSUME Inv, Promised, OneSettlement, Approve \/ Modify \/ Reject
  PROVE  OneSettlement'
<1>1. PICK T : AboutOne(T) BY DEF OneSettlement
<1>2. /\ st \in State /\ fs \in Files /\ run \in Process /\ disk = st /\ run.pc = "idle"
      /\ st \in BackedState(fs.drafts) /\ st.cp \in BackedCheckpoint(fs.drafts)
      /\ run.todo = <<>> /\ run.kept = <<>> /\ st.cp \in Checkpoint
  BY TypesOf DEF Inv, Promised, Coupled, Approve, Modify, Reject, Decide, BackedState,
     State, OneSettlement
<1>3. ASSUME NEW f, NEW s, Decide(f, s)
      PROVE  /\ run'.pc = "decided" /\ run'.todo = <<>> /\ run'.kept = <<>>
             /\ fs' = f /\ st' = [s EXCEPT !.cp = NoCheckpoint] /\ disk' = disk
  BY <1>2, <1>3 DEF Decide, Process
<1>4. ASSUME NEW f, NEW s \in State, Decide(f, s), Riding(f) \subseteq T,
             s.queue \in Seq(Settling(T)),
             s.phase = "chapter-loop" /\ s.step > PlanStep => T \subseteq {s.current}
      PROVE  OneSettlement'
  <2>1. SettlesIn(st', T)
    BY <1>3, <1>4 DEF SettlesIn, State, NoCheckpoint, At
  <2>2. QED BY <1>1, <1>3, <1>4, <2>1, NothingAdded DEF AboutOne
<1>5. CASE Approve
  <2>1. /\ Approved(st, st.cp) \in State /\ Approved(st, st.cp).phase = st.phase
        /\ Approved(st, st.cp).current = st.current /\ Approved(st, st.cp).step = st.step
        /\ Approved(st, st.cp).queue = st.queue
    <3>1. Approved(st, st.cp) \in State BY <1>2, ApprovedBacked DEF BackedState
    <3>2. QED BY <1>2, <3>1 DEF Approved, State
  <2>2. CASE st.cp.type = "chapter-memo"
    <3>1. st.queue = <<>> BY <1>1, <2>2 DEF AboutOne, SettlesIn
    <3>2. Riding(fs') = {}
      <4>1. Bundle(st.cp.chapter) \in SUBSET Nat BY <1>2, BundleNat DEF Checkpoint
      <4>2. CommitPlans(fs, Bundle(st.cp.chapter)) \in Files
        BY <1>2, <4>1, StagingFiles DEF SameDrafts
      <4>3. 0 \in 0..Horizon OBVIOUS
      <4>4. fs' = CleanStaging(CommitPlans(fs, Bundle(st.cp.chapter)))
        BY <1>5, <2>2 DEF Approve, Decide, ApproveFiles
      <4>5. QED BY <4>2, <4>3, <4>4, RidingFiles
    <3>3. SettlesIn(disk, T) BY <1>1 DEF AboutOne
    <3>4. <<>> \in Seq(Settling({})) BY EmptySeq
    <3>5. /\ run'.pc = "decided" /\ run'.todo = <<>> /\ run'.kept = <<>> /\ disk' = disk
          /\ st' = [Approved(st, st.cp) EXCEPT !.cp = NoCheckpoint]
      BY <1>3, <1>5 DEF Approve
    <3>6. SettlesIn(disk', {})
      BY <1>2, <2>2, <3>1, <3>3, <3>4, <3>5 DEF SettlesIn
    <3>7. SettlesIn(st', {})
      <4>1. st'.queue = <<>> /\ st'.cp = NoCheckpoint
        BY <2>1, <3>1, <3>5 DEF State
      <4>2. NoCheckpoint.type = "none" BY DEF NoCheckpoint, At
      <4>3. QED BY <3>4, <4>1, <4>2 DEF SettlesIn
    <3>8. QED BY <3>2, <3>4, <3>5, <3>6, <3>7, AboutOneNext
  <2>3. CASE st.cp.type # "chapter-memo"
    <3>1. Riding(ApproveFiles(fs, st.cp)) \subseteq T
      <4>1. CommitTruth(fs) \in Files /\ 0 \in 0..Horizon
        BY <1>2, StagingFiles DEF SameDrafts
      <4>2. ApproveFiles(fs, st.cp) \in {fs, CleanStaging(CommitTruth(fs))}
        BY <2>3 DEF ApproveFiles
      <4>3. QED BY <1>1, <4>1, <4>2, RidingFiles DEF AboutOne
    <3>2. /\ st.queue \in Seq(Settling(T))
          /\ st.phase = "chapter-loop" /\ st.step > PlanStep => T \subseteq {st.current}
      BY <1>1, <2>3 DEF AboutOne, SettlesIn
    <3>3. QED BY <1>4, <1>5, <2>1, <3>1, <3>2 DEF Approve
  <2>4. QED BY <2>2, <2>3
<1>6. CASE Modify
  <2>1. Riding(CleanStaging(fs)) \subseteq T
    <3>1. 0 \in 0..Horizon OBVIOUS
    <3>2. QED BY <1>2, <3>1, RidingFiles
  <2>2. QED BY <1>1, <1>2, <1>4, <1>6, <2>1, ReviewSettles DEF Modify, AboutOne
<1>7. CASE Reject
  <2>1. \A others \in BOOLEAN : Riding(RejectFiles(fs, st.cp, others)) \subseteq T
    <3>1. 0 \in 0..Horizon OBVIOUS
    <3>2. QED BY <1>1, <1>2, <3>1, RidingFiles DEF AboutOne
  <2>2. PICK others \in BOOLEAN :
          Decide(RejectFiles(fs, st.cp, others), Rejected(st, st.cp))
    BY <1>7 DEF Reject
  <2>3. Riding(RejectFiles(fs, st.cp, others)) \subseteq T BY <2>1
  <2>4. QED BY <1>1, <1>2, <1>4, <2>2, <2>3, ReviewSettles DEF AboutOne
<1>8. QED BY <1>5, <1>6, <1>7

LEMMA SameSettles ==
  ASSUME NEW T, NEW s, NEW t, SettlesIn(s, T), t.cp = s.cp, t.queue = s.queue,
         t.current = s.current,
         \/ t.phase = s.phase /\ t.step = s.step
         \/ t.phase # "chapter-loop" \/ ~(t.step > PlanStep)
  PROVE  SettlesIn(t, T)
BY DEF SettlesIn

LEMMA EscalatedSettles ==
  ASSUME NEW T, NEW s \in State, SettlesIn(s, T), s.cp.type # "chapter-memo", NEW c
  PROVE  SettlesIn(Escalated(s, c), T)
BY DEF SettlesIn, Escalated, At, State

\* At the top of the loop nobody is asked but about an alarm.
LEMMA TopIsQuiet ==
  ASSUME Promised, OneSettlement, run.pc = "top"
  PROVE  /\ Quiet(st.cp) /\ Quiet(disk.cp) /\ disk.queue = st.queue
         /\ run.todo = <<>> /\ run.kept = <<>>
BY DEF Promised, Coupled, Abreast, OneSettlement

LEMMA CommandsKeepOne ==
  ASSUME Inv, Promised, OneSettlement, CmdNext \/ CmdResume
  PROVE  OneSettlement'
<1>1. PICK T : AboutOne(T) BY DEF OneSettlement
<1>2. /\ st \in State /\ fs \in Files /\ run \in Process /\ disk = st /\ run.pc = "idle"
      /\ Orderly(st) /\ Clamped(st, fs) = st /\ run.todo = <<>> /\ run.kept = <<>>
  BY TypesOf, ClampedBacked DEF Inv, Promised, Coupled, CmdNext, CmdResume, OneSettlement
<1>3. Riding(fs) \subseteq T /\ \A s : Riding(ResidualCleanup(fs, s)) \subseteq T
  <2>1. 0 \in 0..Horizon OBVIOUS
  <2>2. Riding(KeepMarked(fs)) \subseteq Riding(fs) BY <1>2, <2>1, RidingFiles
  <2>3. QED BY <1>1, <2>2 DEF AboutOne, ResidualCleanup
<1>4. SettlesIn(st, T) BY <1>1 DEF AboutOne
<1>5. CASE CmdNext
  <2>1. /\ st' = st /\ disk' = st /\ fs' = ResidualCleanup(fs, st) /\ run'.pc = "top"
        /\ run'.todo = <<>> /\ run'.kept = <<>>
    BY <1>2, <1>5 DEF CmdNext, Process
  <2>2. QED BY <1>1, <1>3, <1>4, <2>1, NothingAdded
<1>6. CASE CmdResume
  <2>1. PICK snapshotFails \in BOOLEAN :
        LET s == Consumed(st, snapshotFails) IN
        /\ disk' = IF snapshotFails THEN disk ELSE s
        /\ IF st.cp # NoCheckpoint
           THEN st' = disk' /\ UNCHANGED <<fs, run>>
           ELSE /\ st' = s
                /\ fs' = ResidualCleanup(fs, s)
                /\ run' = [run EXCEPT !.pc = "top"]
    BY <1>2, <1>6 DEF CmdResume
  <2> DEFINE s == Consumed(st, snapshotFails)
  <2>2. SettlesIn(s, T) /\ s.queue = st.queue
    <3>1. /\ s.cp = st.cp /\ s.current = st.current /\ s.queue = st.queue
          /\ s.phase = st.phase \/ s.phase = "closure"
      BY <1>2, ConsumedKeeps
    <3>2. s.step = st.step BY <1>2 DEF Consumed, Popped, ToClosure, State
    <3>3. QED BY <1>4, <3>1, <3>2, SameSettles
  <2>3. disk' \in {st, s} /\ st' \in {st, s} BY <1>2, <2>1
  <2>4. /\ run'.pc # "queue" /\ run'.todo = <<>> /\ run'.kept = <<>>
        /\ fs' = fs \/ fs' = ResidualCleanup(fs, s)
    BY <1>2, <2>1 DEF Process
  <2>5. QED BY <1>1, <1>3, <1>4, <2>2, <2>3, <2>4, NothingAdded
<1>7. QED BY <1>5, <1>6

LEMMA ProcessEndsKeepOne ==
  ASSUME Inv, Promised, OneSettlement, ProcessEnds
  PROVE  OneSettlement'
<1>1. PICK T : AboutOne(T) BY DEF OneSettlement
<1>2. fs \in Files /\ run \in Process /\ st \in State BY TypesOf DEF Inv
<1>3. Idle.pc = "idle" /\ Idle.todo = <<>> /\ Idle.kept = <<>> BY DEF Idle
<1>4. /\ Riding(fs) \subseteq T /\ Riding(KeepMarked(fs)) \subseteq T
      /\ SettlesIn(st, T) /\ SettlesIn(disk, T)
  <2>1. 0 \in 0..Horizon OBVIOUS
  <2>2. Riding(KeepMarked(fs)) \subseteq Riding(fs) BY <1>2, <2>1, RidingFiles
  <2>3. QED BY <1>1, <2>2 DEF AboutOne
<1>5. CASE Save \/ Finish \/ AtExit
  <2>1. /\ disk' = st /\ st' = st /\ fs' \in {fs, KeepMarked(fs)} /\ run'.pc # "queue"
        /\ run'.todo = <<>> /\ run'.kept = <<>>
    <3>1. run.todo = <<>> /\ run.kept = <<>>
      BY <1>5 DEF OneSettlement, Save, Finish, AtExit
    <3>2. QED BY <1>2, <1>3, <1>5, <3>1 DEF Save, Finish, AtExit, Process
  <2>2. QED BY <1>1, <1>4, <2>1, NothingAdded
<1>6. CASE Kill
  <2>1. st' = disk /\ disk' = disk /\ fs' = fs /\ run' = Idle BY <1>6 DEF Kill
  <2>2. QED BY <1>1, <1>3, <1>4, <2>1, NothingAdded
<1>7. CASE Shutdown
  <2>1. /\ run.pc = "top" /\ disk' = st /\ fs' = KeepMarked(fs) /\ run'.pc = "exit"
        /\ run'.todo = run.todo /\ run'.kept = run.kept
        /\ st' = Escalated(st, st.current)
    BY <1>2, <1>7 DEF Shutdown, Process
  <2>2. st.cp.type # "chapter-memo" /\ run.todo = <<>> /\ run.kept = <<>>
    BY <2>1, TopIsQuiet DEF Quiet
  <2>3. SettlesIn(st', T) BY <1>2, <1>4, <2>1, <2>2, EscalatedSettles
  <2>4. QED BY <1>1, <1>4, <2>1, <2>2, <2>3, NothingAdded
<1>8. QED BY <1>5, <1>6, <1>7 DEF ProcessEnds

LEMMA AgainSettles ==
  ASSUME NEW T, NEW e \in Settling(T)
  PROVE  [e EXCEPT !.attempts = @ + 1] \in Settling(T)
<1>1. e \in Entry BY DEF Settling
<1>2. [e EXCEPT !.attempts = @ + 1] \in Entry BY <1>1 DEF Entry
<1>3. /\ [e EXCEPT !.attempts = @ + 1].skill = e.skill
      /\ [e EXCEPT !.attempts = @ + 1].chapter = e.chapter
  BY <1>1 DEF Entry
<1>4. QED BY <1>2, <1>3 DEF Settling

LEMMA QueuePassKeepsOne ==
  ASSUME Inv, Promised, OneSettlement, QueuePass
  PROVE  OneSettlement'
<1>1. PICK T : AboutOne(T) BY DEF OneSettlement
<1>2. fs \in Files /\ run \in Process /\ st \in State BY TypesOf DEF Inv
<1>3. /\ Riding(fs) \subseteq T /\ SettlesIn(st, T) /\ SettlesIn(disk, T)
      /\ run.todo \in Seq(Settling(T)) /\ run.kept \in Seq(Settling(T))
      /\ \A c, d \in T : c = d
  BY <1>1 DEF AboutOne
<1>4. <<>> \in Seq(Settling(T)) BY EmptySeq
<1>5. st.queue # <<>> => st.cp.type # "chapter-memo" BY <1>3 DEF SettlesIn
<1>6. CASE QueueBegin
  <2>1. /\ st' = st /\ disk' = disk /\ fs' = fs /\ run'.pc = "queue"
        /\ run'.todo = st.queue /\ run'.kept = <<>>
    BY <1>2, <1>6 DEF QueueBegin, Process
  <2>2. st.queue \in Seq(Settling(T)) BY <1>3 DEF SettlesIn
  <2>3. QED BY <1>3, <1>4, <2>1, <2>2, AboutOneNext
<1>7. CASE EntryDone \/ EntryFails
  <2> DEFINE e     == Head(run.todo)
             again == [e EXCEPT !.attempts = @ + 1]
  <2>1. /\ run.pc = "queue" /\ run.todo # <<>> /\ disk' = disk
        /\ st' \in {st, ReRaised(st, e)} /\ fs' \in {fs, Landed(fs, e)}
        /\ run'.pc = "queue" /\ run'.todo = Tail(run.todo)
        /\ run'.kept \in {run.kept, Append(run.kept, again)}
    BY <1>2, <1>7 DEF EntryDone, EntryFails, InQueuePass, Process
  <2>2. e \in Settling(T) /\ Tail(run.todo) \in Seq(Settling(T))
    BY <1>3, <2>1, HeadTailProperties
  <2>3. again \in Settling(T) BY <2>2, AgainSettles
  <2>4. run'.kept \in Seq(Settling(T))
    <3> HIDE DEF again
    <3>1. Append(run.kept, again) \in Seq(Settling(T)) BY <1>3, <2>3, AppendProperties
    <3>2. QED BY <1>3, <2>1, <3>1
  <2>5. e.chapter \in 0..Horizon /\ e.skill # "planning"
        /\ (e.skill = "settle" => e.chapter \in T)
    BY <2>2 DEF Settling, Entry
  <2>6. Riding(fs') \subseteq T
    <3>1. Landed(fs, e) \in {fs, StageTruth(fs, e.chapter), ReviseDraft(fs, e.chapter)}
          /\ (e.skill # "settle" => Landed(fs, e) \in {fs, ReviseDraft(fs, e.chapter)})
      BY <2>5 DEF Landed
    <3>2. /\ Riding(StageTruth(fs, e.chapter)) \subseteq Riding(fs) \cup {e.chapter}
          /\ Riding(ReviseDraft(fs, e.chapter)) \subseteq Riding(fs)
      BY <1>2, <2>5, RidingFiles
    <3>3. QED BY <1>3, <2>1, <2>5, <3>1, <3>2
  <2>7. st.queue # <<>> BY <2>1 DEF Promised, Coupled
  <2>8. SettlesIn(st', T)
    <3>1. CASE st' = st BY <1>3, <3>1
    <3>2. CASE st' = ReRaised(st, e) /\ e.skill = "settle"
      <4>1. st' = [st EXCEPT !.cp = At("state-settle", e.chapter)] BY <3>2 DEF ReRaised
      <4>2. /\ st'.cp.type = "state-settle" /\ st'.cp.chapter = e.chapter
            /\ st'.queue = st.queue /\ st'.phase = st.phase /\ st'.step = st.step
            /\ st'.current = st.current
        BY <1>2, <4>1 DEF At, State
      <4>3. QED BY <1>3, <1>5, <2>5, <2>7, <3>2, <4>2 DEF SettlesIn
    <3>3. CASE st' = ReRaised(st, e) /\ e.skill # "settle"
      BY <1>3, <2>5, <3>3 DEF ReRaised
    <3>4. QED BY <2>1, <3>1, <3>2, <3>3
  <2>9. QED BY <1>3, <2>1, <2>2, <2>4, <2>6, <2>8, AboutOneNext
<1>8. CASE QueueEnd
  <2> DEFINE left == [st EXCEPT !.queue = run.kept]
  <2>1. /\ run.pc = "queue" /\ run.todo = <<>> /\ fs' = fs /\ disk' = st'
        /\ run'.pc # "queue" /\ run'.todo = <<>> /\ run'.kept = <<>>
        /\ \/ st' = left
           \/ \E c : st' = Escalated(left, c)
    BY <1>2, <1>8 DEF QueueEnd, Process
  <2>2. st.queue # <<>> BY <2>1 DEF Promised, Coupled
  <2>3. SettlesIn(left, T) /\ left.cp = st.cp /\ left \in State
    <3>1. run.kept \in Seq(Entry) BY <1>2 DEF Process
    <3>2. left \in State BY <1>2, <3>1 DEF State
    <3>3. QED BY <1>2, <1>3, <1>5, <2>2, <3>2 DEF SettlesIn, State
  <2>4. SettlesIn(st', T) BY <1>5, <2>1, <2>2, <2>3, EscalatedSettles
  <2>5. QED BY <1>1, <1>3, <2>1, <2>4, NothingAdded
<1>9. QED BY <1>6, <1>7, <1>8 DEF QueuePass

LEMMA TopKeepsOne ==
  ASSUME Inv, Promised, OneSettlement, ChapterTop \/ Closing
  PROVE  OneSettlement'
<1>1. PICK T : AboutOne(T) BY DEF OneSettlement
<1>2. /\ st \in State /\ run \in Process /\ run.pc = "top" /\ fs' = fs
      /\ disk' \in {disk, st'}
      /\ st.queue = <<>>
  BY TypesOf DEF ChapterTop, TriggerFails, VolumeBoundary, TriggersAtCheckpoint,
     EnterClosure, VolumeAlign, AtTop, AtStep, StopAt, Closing, ClosureStep, ClosureFails,
     ClosureRests, Completed, AtClosure
<1>3. /\ run'.pc \in {"top", "save", "exit"} /\ run'.todo = run.todo
      /\ run'.kept = run.kept /\ (run'.pc = "top" => EnterClosure)
  BY <1>2 DEF ChapterTop, TriggerFails, VolumeBoundary, TriggersAtCheckpoint,
     EnterClosure, VolumeAlign, StopAt, Closing, ClosureStep, ClosureFails,
     ClosureRests, Completed, Stop, Continue, Process
<1>4. /\ Quiet(st.cp) /\ disk.queue = <<>> /\ run.todo = <<>> /\ run.kept = <<>>
  BY <1>2, TopIsQuiet
<1>5. st'.queue = <<>> /\ st'.cp.type \in {"none", "escalation", "volume-boundary", "book-closure"}
  <2>1. st.cp.type \in {"none", "escalation"} BY <1>4 DEF Quiet
  <2>2. \A c : /\ Escalated(st, c).cp.type = "escalation" /\ Escalated(st, c).queue = st.queue
    BY <1>2 DEF Escalated, At, State
  <2>3. CASE ChapterTop
    <3>1. TriggerFails \/ VolumeBoundary \/ TriggersAtCheckpoint \/ EnterClosure \/ VolumeAlign
      BY <2>3 DEF ChapterTop
    <3>2. \/ \E c : st' = Escalated(st, c)
          \/ st' \in {[st EXCEPT !.step = PlanStep], ToClosure(st),
                      [st EXCEPT !.step = PlanStep, !.begun = @ \cup {st.current}],
                      [st EXCEPT !.cp = At("volume-boundary", Prev), !.step = PlanStep]}
      BY <3>1 DEF TriggerFails, VolumeBoundary, TriggersAtCheckpoint, EnterClosure,
         VolumeAlign, StopAt
    <3>3. At("volume-boundary", Prev).type = "volume-boundary" BY DEF At
    <3>4. \/ \E c : st' = Escalated(st, c)
          \/ st'.queue = st.queue /\ st'.cp \in {st.cp, At("volume-boundary", Prev)}
      BY <1>2, <3>2 DEF ToClosure, State
    <3>5. QED BY <1>2, <2>1, <2>2, <3>3, <3>4
  <2>4. CASE Closing
    <3> DEFINE done == [st EXCEPT !.closure = @ + 1]
    <3>1. \/ st' = Escalated(st, 0)
          \/ st' \in {st, done, [done EXCEPT !.cp = At("book-closure", 0)],
                      [done EXCEPT !.phase = "completed"], [st EXCEPT !.phase = "completed"]}
      BY <2>4 DEF Closing, ClosureStep, ClosureFails, ClosureRests, Completed
    <3>2. At("book-closure", 0).type = "book-closure" BY DEF At
    <3>3. \/ st' = Escalated(st, 0)
          \/ st'.queue = st.queue /\ st'.cp \in {st.cp, At("book-closure", 0)}
      BY <1>2, <3>1 DEF State
    <3>4. QED BY <1>2, <2>1, <2>2, <3>2, <3>3
  <2>5. QED BY <2>3, <2>4
<1>6. st'.phase # "chapter-loop" \/ ~(st'.step > PlanStep)
  <2>1. CASE ChapterTop
    BY <1>2, <2>1, PlanSteps DEF ChapterTop, TriggerFails, VolumeBoundary,
       TriggersAtCheckpoint, EnterClosure, VolumeAlign, AtTop, AtStep, StopAt, ToClosure,
       Escalated, State
  <2>2. CASE Closing
    BY <1>2, <2>2 DEF Closing, ClosureStep, ClosureFails, ClosureRests, Completed,
       AtClosure, Escalated, State
  <2>3. QED BY <2>1, <2>2
<1>7. SettlesIn(st', T)
  <2>1. <<>> \in Seq(Settling(T)) BY EmptySeq
  <2>2. QED BY <1>5, <1>6, <2>1 DEF SettlesIn
<1>8. SettlesIn(disk', T) /\ Riding(fs') \subseteq T BY <1>1, <1>2, <1>7 DEF AboutOne
<1>9. run'.pc = "top" => disk'.queue = st'.queue
  BY <1>2, <1>3, <1>4, <1>5
<1>10. QED BY <1>1, <1>3, <1>4, <1>7, <1>8, <1>9, NothingAdded

\* A chapter step leaves the queue pass alone, and ends with a save or a stop.
LEMMA PlanningKeepsOne ==
  ASSUME Inv, Promised, OneSettlement, Planning
  PROVE  OneSettlement'
<1>1. PICK T : AboutOne(T) BY DEF OneSettlement
<1>2. /\ run.pc = "top" /\ st.phase = "chapter-loop" /\ disk' = disk /\ st.queue = <<>>
      /\ st.step = PlanStep /\ run \in Process
      /\ st \in State /\ fs \in Files /\ Bundle(st.current) \in SUBSET Nat
      /\ 0 \in 0..Horizon
  BY TypesOf, CursorFacts, BundleNat DEF Inv, Planning, AtStep, StepFails
<1>3. /\ Quiet(st.cp) /\ Quiet(disk.cp) /\ disk.queue = <<>> /\ disk.current = st.current
      /\ run.todo = <<>> /\ run.kept = <<>>
  BY <1>2, TopSettles DEF SameLife
<1>4. /\ run'.pc \in {"save", "exit"} /\ run'.todo = <<>> /\ run'.kept = <<>>
  BY <1>2, <1>3 DEF Planning, StepFails, Continue, Stop, Process
<1>5. /\ Riding(fs) \subseteq T /\ SettlesIn(st, T) /\ SettlesIn(disk, T)
  BY <1>1 DEF AboutOne
<1>6. \A T2 : <<>> \in Seq(Settling(T2)) BY EmptySeq
<1>7. ASSUME NEW f \in {fs, StagePlans(fs)}, StepFails(f)
      PROVE  OneSettlement'
  <2>1. Riding(fs') = Riding(fs)
    BY <1>2, <1>7 DEF StepFails, StagePlans, Riding, Files
  <2>2. st.cp.type # "chapter-memo" BY <1>3 DEF Quiet
  <2>3. SettlesIn(st', T)
    BY <1>2, <1>5, <1>7, <2>2, EscalatedSettles DEF StepFails
  <2>4. QED BY <1>1, <1>2, <1>4, <1>5, <2>1, <2>3, NothingAdded
<1>8. CASE ~\E f \in {fs, StagePlans(fs)} : StepFails(f)
  <2> DEFINE planned == [st EXCEPT !.step = PrepareStep,
                                   !.begun = @ \cup Bundle(st.current)]
  <2>1. planned \in State /\ planned.queue = <<>> /\ planned.cp = st.cp
        /\ planned.current = st.current /\ planned.phase = st.phase
    BY <1>2, StepsTypes DEF State
  <2>2. CASE MemoReview
    <3>1. /\ st' = [planned EXCEPT !.cp = At("chapter-memo", st.current)]
          /\ fs' = MarkPlans(StagePlans(fs), Bundle(st.current))
      BY <1>8, <2>2 DEF Planning
    <3>2. Riding(fs') = Riding(fs) BY <1>2, <3>1 DEF MarkPlans, StagePlans, Riding, Files
    <3>3. /\ st'.queue = <<>> /\ st'.current = st.current
          /\ st'.cp.type = "chapter-memo" /\ st'.cp.chapter = st.current
      BY <2>1, <3>1 DEF At, State
    <3>4. SettlesIn(st', T) BY <1>6, <3>3 DEF SettlesIn
    <3>5. QED BY <1>1, <1>2, <1>4, <1>5, <3>2, <3>4, NothingAdded
  <2>3. CASE ~MemoReview
    <3>1. /\ st' = planned
          /\ fs' = CleanStaging(CommitPlans(StagePlans(fs), Bundle(st.current)))
      BY <1>8, <2>3 DEF Planning
    <3>2. CommitPlans(StagePlans(fs), Bundle(st.current)) \in Files
      <4>1. st.current \in Nat BY CursorFacts, BookAssumption
      <4>2. StagePlans(fs) \in Files BY <1>2, <4>1 DEF StagePlans, Files
      <4>3. QED BY <1>2, <4>2 DEF CommitPlans, Files
    <3>3. Riding(fs') = {} BY <1>2, <3>1, <3>2, RidingFiles
    <3>4. SettlesIn(st', {})
      BY <1>3, <1>6, <2>1, <3>1 DEF SettlesIn, Quiet
    <3>5. SettlesIn(disk', {})
      BY <1>2, <1>3, <1>6 DEF SettlesIn, Quiet
    <3>6. QED BY <1>4, <1>6, <3>3, <3>4, <3>5, AboutOneNext
  <2>4. QED BY <2>2, <2>3
<1>9. QED BY <1>7, <1>8

LEMMA StepKeepsOne ==
  ASSUME Inv, Promised, OneSettlement, ChapterStep, ~Planning
  PROVE  OneSettlement'
<1>1. PICK T : AboutOne(T) BY DEF OneSettlement
<1>2. /\ run.pc = "top" /\ st.phase = "chapter-loop" /\ disk' = disk /\ st.queue = <<>>
      /\ run \in Process
      /\ st \in State /\ fs \in Files /\ st.current \in 0..Horizon
      /\ 0 \in 0..Horizon
  <2>1. run.pc = "top" /\ st.phase = "chapter-loop" /\ st.queue = <<>>
    BY DEF ChapterStep, ContextPrepare,
       Drafting, SceneSplit, SceneSplitFails, SceneSplitTorn, PostDraftExtract,
       LinguisticDrift, SettlePair, SettleAgain, AuditWave, Revision, StepsConsumed, AtStep
  <2>2. disk' = disk
    BY DEF ChapterStep, ContextPrepare,
       Drafting, SceneSplit, SceneSplitFails, SceneSplitTorn, PostDraftExtract,
       LinguisticDrift, SettlePair, SettleAgain, AuditWave, Revision, StepsConsumed,
       StepFails, RefuseUndrafted, Complete, CompletionRefused
  <2>3. /\ run \in Process /\ st \in State /\ fs \in Files /\ st.current \in 0..Horizon
        /\ 0 \in 0..Horizon
    BY TypesOf, CursorFacts DEF Inv
  <2>4. QED BY <2>1, <2>2, <2>3
<1>3. /\ Quiet(st.cp) /\ Quiet(disk.cp) /\ disk.queue = <<>> /\ disk.current = st.current
      /\ run.todo = <<>> /\ run.kept = <<>>
  BY <1>2, TopSettles DEF SameLife
<1>4. st.step > PlanStep
  BY PlanSteps DEF ChapterStep, ContextPrepare,
     Drafting, SceneSplit, SceneSplitFails, SceneSplitTorn, PostDraftExtract,
     LinguisticDrift, SettlePair, SettleAgain, AuditWave, Revision, StepsConsumed, AtStep
<1>5. ASSUME Continue \/ Stop \/ run' = [run EXCEPT !.pc = "atexit"],
             Riding(fs') \subseteq Riding(fs) \cup {st.current},
             st'.queue = <<>> \/ st'.queue \in Seq(Settling({st.current})),
             \/ Quiet(st'.cp)
             \/ /\ st'.cp.type \in {"state-settle", "per-chapter"}
                /\ st'.cp.chapter = st.current,
             st'.current = st.current \/ ~(st'.step > PlanStep)
      PROVE  OneSettlement'
  <2>1. /\ run'.pc \notin {"top", "queue"} /\ run'.todo = run.todo /\ run'.kept = run.kept
    BY <1>2, <1>5 DEF Continue, Stop, Process
  <2>2. /\ st'.cp.type # "chapter-memo"
        /\ st'.cp.type \in {"state-settle", "per-chapter"} => st'.cp.chapter = st.current
    BY <1>5 DEF Quiet
  <2>3. QED BY <1>2, <1>4, <1>5, <2>1, <2>2, PastPlanning
<1>6. ASSUME st' = disk, run' = Idle, Riding(fs') = Riding(fs)
      PROVE  OneSettlement'
  <2>1. Idle.pc = "idle" /\ Idle.todo = <<>> /\ Idle.kept = <<>> BY DEF Idle
  <2>2. QED BY <1>1, <1>2, <1>6, <2>1, NothingAdded DEF AboutOne
<1>7. /\ \A c : Quiet(Escalated(st, c).cp) /\ Escalated(st, c).queue = <<>>
      /\ \A c : Escalated(st, c).current = st.current
  BY <1>2 DEF Escalated, Quiet, At, State
<1>8. ASSUME NEW f, StepFails(f), Riding(f) \subseteq Riding(fs) \cup {st.current}
      PROVE  OneSettlement'
  <2>1. st' \in {st, Escalated(st, st.current)} /\ (Continue \/ Stop) /\ fs' = f
    BY <1>8 DEF StepFails
  <2>2. /\ Riding(fs') \subseteq Riding(fs) \cup {st.current}
        /\ st'.queue = <<>> /\ Quiet(st'.cp) /\ st'.current = st.current
    BY <1>2, <1>3, <1>7, <1>8, <2>1
  <2>3. QED BY <1>5, <2>1, <2>2
<1>9. ASSUME RefuseUndrafted PROVE OneSettlement'
  BY <1>5, <1>7, <1>9 DEF RefuseUndrafted
<1>10. \A i : /\ [st EXCEPT !.step = i].queue = <<>> /\ Quiet([st EXCEPT !.step = i].cp)
              /\ [st EXCEPT !.step = i].current = st.current
  BY <1>2, <1>3 DEF State
<1>11. /\ Riding(StageCluster(fs)) = Riding(fs) /\ Riding(Promote(fs)) = Riding(fs)
       /\ Riding([fs EXCEPT !.drafts = @ \cup {st.current}]) = Riding(fs)
  BY <1>2 DEF StageCluster, Promote, Riding, Files
<1>12. CASE ContextPrepare \/ PostDraftExtract \/ LinguisticDrift \/ StepsConsumed
  <2>1. /\ fs' = fs /\ (Continue \/ Stop)
        /\ \/ st' = st \/ st' = Escalated(st, st.current)
           \/ \E i : st' = [st EXCEPT !.step = i]
    BY <1>12 DEF ContextPrepare, PostDraftExtract, LinguisticDrift, StepsConsumed
  <2>2. st'.queue = <<>> /\ Quiet(st'.cp) /\ st'.current = st.current
    BY <1>2, <1>3, <1>7, <1>10, <2>1
  <2>3. Riding(fs') \subseteq Riding(fs) \cup {st.current} BY <2>1
  <2>4. QED BY <1>5, <2>1, <2>2, <2>3
<1>13. CASE AuditWave
  <2>1. \A b : LET s == [st EXCEPT !.step = RevisionStep, !.revise = b] IN
          /\ s.queue = <<>> /\ Quiet(s.cp) /\ s.current = st.current
          /\ Escalated(s, st.current).queue = <<>>
          /\ Quiet(Escalated(s, st.current).cp)
          /\ Escalated(s, st.current).current = st.current
    BY <1>2, <1>3 DEF Escalated, Quiet, At, State
  <2>2. LET s == [st EXCEPT !.step = RevisionStep] IN
          /\ Escalated(s, st.current).queue = <<>>
          /\ Quiet(Escalated(s, st.current).cp)
          /\ Escalated(s, st.current).current = st.current
    BY <1>2, <1>3 DEF Escalated, Quiet, At, State
  <2>3. /\ fs' = fs /\ (Continue \/ Stop)
        /\ st'.queue = <<>> /\ Quiet(st'.cp) /\ st'.current = st.current
    BY <1>13, <2>1, <2>2 DEF AuditWave
  <2>4. Riding(fs') \subseteq Riding(fs) \cup {st.current} BY <2>3
  <2>5. QED BY <1>5, <2>3, <2>4
<1>14. CASE Drafting
  <2>1. CASE st' = [st EXCEPT !.step = SplitStep] /\ fs' = StageCluster(fs) /\ Continue
    BY <1>5, <1>10, <1>11, <2>1
  <2>2. QED BY <1>8, <1>11, <1>14, <2>1 DEF Drafting
<1>15. CASE SceneSplit \/ SceneSplitFails
  <2>1. /\ st' \in {[st EXCEPT !.step = ExtractStep], [st EXCEPT !.step = DraftStep],
                    Escalated(st, st.current)}
        /\ fs' \in {fs, Promote(fs)} /\ (Continue \/ Stop)
    BY <1>15 DEF SceneSplit, SceneSplitFails
  <2>2. st'.queue = <<>> /\ Quiet(st'.cp) /\ st'.current = st.current
    BY <1>7, <1>10, <2>1
  <2>3. QED BY <1>5, <1>11, <2>1, <2>2
<1>16. CASE SceneSplitTorn BY <1>6, <1>11, <1>16 DEF SceneSplitTorn
<1>17. CASE SettlePair \/ SettleAgain
  <2> DEFINE staged == StageTruth(fs, st.current)
  <2>1. /\ Riding(staged) \subseteq Riding(fs) \cup {st.current}
        /\ Riding(MarkTruth(staged)) = Riding(staged)
        /\ Riding(CleanStaging(CommitTruth(staged))) = {}
    <3>1. staged \in Files /\ CommitTruth(staged) \in Files
      BY <1>2, StagingFiles DEF SameDrafts, StageTruth, CommitTruth, Files, Freshness
    <3>2. QED BY <1>2, <3>1, RidingFiles
  <2>2. LET s == [st EXCEPT !.step = AuditStep, !.cp = At("state-settle", st.current)] IN
          /\ s.queue = <<>> /\ s.current = st.current
          /\ s.cp.type = "state-settle" /\ s.cp.chapter = st.current
    BY <1>2 DEF At, State
  <2>3. ASSUME Continue \/ Stop,
               st' \in {[st EXCEPT !.step = AuditStep],
                        [st EXCEPT !.step = AuditStep, !.cp = At("state-settle", st.current)]},
               fs' \in {staged, MarkTruth(staged), CleanStaging(CommitTruth(staged))}
        PROVE  OneSettlement'
    BY <1>5, <1>10, <2>1, <2>2, <2>3
  <2>4. CASE SettlePair BY <1>8, <1>9, <2>1, <2>3, <2>4 DEF SettlePair
  <2>5. CASE SettleAgain BY <1>8, <1>9, <2>1, <2>3, <2>5 DEF SettleAgain
  <2>6. QED BY <1>17, <2>4, <2>5
<1>18. CASE Revision
  <2> DEFINE owed == [st EXCEPT !.queue = Enqueue(@, NewEntry("settle", st.current))]
  <2>1. /\ fs' \in {fs, ReviseDraft(fs, st.current)}
    BY <1>18 DEF Revision, RefuseUndrafted, StepFails
  <2>2. Riding(ReviseDraft(fs, st.current)) \subseteq Riding(fs) BY <1>2, RidingFiles
  <2>3. /\ owed.queue \in Seq(Settling({st.current})) /\ owed \in State
        /\ owed.cp = st.cp /\ owed.current = st.current /\ owed.phase = st.phase
    <3>1. NewEntry("settle", st.current) \in Settling({st.current}) BY <1>2, SettleEntry
    <3>2. <<>> \in Seq(Settling({st.current})) BY EmptySeq
    <3>3. Enqueue(st.queue, NewEntry("settle", st.current)) \in Seq(Settling({st.current}))
      BY <1>2, <3>1, <3>2, EnqueueSeq
    <3>4. Enqueue(st.queue, NewEntry("settle", st.current)) \in Seq(Entry)
      BY <3>3, SeqMonotone DEF Settling
    <3>5. QED BY <1>2, <3>3, <3>4 DEF State
  <2>4. ASSUME NEW s \in State, s.queue = <<>> \/ s.queue \in Seq(Settling({st.current})),
               s.cp = st.cp, s.current = st.current, Complete(s) \/ CompletionRefused(s)
        PROVE  OneSettlement'
    <3> DEFINE closed == [s EXCEPT !.current = NextLeader(st.current),
                                   !.step = AlignStep, !.revise = TRUE]
    <3>1. Riding(fs') \subseteq Riding(fs) BY <2>1, <2>2
    <3>2. CASE Complete(s)
      <4>1. \/ st' = [closed EXCEPT !.cp = At("per-chapter", st.current)] /\ Stop
            \/ st' = closed /\ Continue
        BY <3>2 DEF Complete
      <4>2. /\ st'.queue = s.queue /\ st'.step = AlignStep
            /\ st'.cp \in {s.cp, At("per-chapter", st.current)}
        BY <2>4, <4>1 DEF State
      <4>3. /\ At("per-chapter", st.current).type = "per-chapter"
            /\ At("per-chapter", st.current).chapter = st.current
        BY DEF At
      <4>4. QED BY <1>3, <1>5, <2>4, <3>1, <4>1, <4>2, <4>3, PlanSteps
    <3>3. CASE CompletionRefused(s) /\ run.armed
      <4>1. /\ st' = [s EXCEPT !.step = PastEnd] /\ run' = [run EXCEPT !.pc = "atexit"]
        BY <3>3 DEF CompletionRefused
      <4>2. st'.queue = s.queue /\ st'.cp = s.cp /\ st'.current = s.current
        BY <2>4, <4>1 DEF State
      <4>3. QED BY <1>3, <1>5, <2>4, <3>1, <4>1, <4>2
    <3>4. CASE CompletionRefused(s) /\ ~run.armed
      <4>1. st' = disk /\ run' = Idle BY <3>4 DEF CompletionRefused
      <4>2. Idle.pc = "idle" /\ Idle.todo = <<>> /\ Idle.kept = <<>> BY DEF Idle
      <4>3. QED BY <1>1, <1>2, <3>1, <4>1, <4>2, NothingAdded DEF AboutOne
    <3>5. QED BY <2>4, <3>2, <3>3, <3>4
  <2>5. Riding(fs) \subseteq Riding(fs) \cup {st.current} OBVIOUS
  <2>6. QED BY <1>2, <1>8, <1>9, <1>18, <2>2, <2>3, <2>4, <2>5 DEF Revision
<1>19. QED BY <1>12, <1>13, <1>14, <1>15, <1>16, <1>17, <1>18 DEF ChapterStep

\* What a decision about a settlement makes live is the settlement it is about.
LEMMA DecidedSettlement ==
  ASSUME Inv, OneSettlement, Approve, NEW c \in Chapters,
         fs'.truth[c] = "fresh", fs.truth[c] # "fresh"
  PROVE  /\ Deciding
         /\ st.cp.type \in {"state-settle", "per-chapter"} /\ st.cp.chapter = c
<1>1. PICK T : AboutOne(T) BY DEF OneSettlement
<1>2. run \in Process /\ fs \in Files BY TypesOf DEF Inv
<1>3. Deciding BY <1>2 DEF Approve, Decide, Deciding, Process
<1>4. fs' = ApproveFiles(fs, st.cp) BY DEF Approve, Decide
<1>5. st.cp.type \in {"state-settle", "per-chapter"} /\ c \in Riding(fs)
  <2>1. CleanStaging(CommitTruth(fs)).truth[c]
          = IF fs.stagedTruth[c] = "none" THEN fs.truth[c] ELSE fs.stagedTruth[c]
    BY <1>2 DEF CleanStaging, CommitTruth, Files
  <2>2. CleanStaging(CommitPlans(fs, Bundle(st.cp.chapter))).truth = fs.truth
    BY <1>2 DEF CleanStaging, CommitPlans, Files
  <2>3. QED BY <1>4, <2>1, <2>2 DEF ApproveFiles, Riding
<1>6. st.cp.chapter \in T /\ c \in T BY <1>1, <1>5 DEF AboutOne, SettlesIn
<1>7. QED BY <1>1, <1>3, <1>5, <1>6 DEF AboutOne

\* A settlement goes live nowhere but in an approval: everything else spares
\* the live truth or makes it stale.
LEMMA NothingElseSettles ==
  ASSUME Inv, SettleReview, Next, ~Approve, NEW c \in Chapters, fs'.truth[c] = "fresh"
  PROVE  fs.truth[c] = "fresh"
<1>1. fs \in Files BY DEF Inv
<1>2. ASSUME NEW f \in {fs, KeepMarked(fs), CleanStaging(fs),
                        RejectFiles(fs, st.cp, TRUE), RejectFiles(fs, st.cp, FALSE),
                        StagePlans(fs), StageCluster(fs), Promote(fs),
                        [fs EXCEPT !.drafts = @ \cup {st.current}],
                        MarkPlans(StagePlans(fs), Bundle(st.current)),
                        CleanStaging(CommitPlans(StagePlans(fs), Bundle(st.current))),
                        StageTruth(fs, st.current),
                        MarkTruth(StageTruth(fs, st.current))}
      PROVE  f.truth = fs.truth
  BY <1>1, <1>2 DEF KeepMarked, CleanStaging, RejectFiles, StagePlans, StageCluster, Promote,
     MarkPlans, CommitPlans, StageTruth, MarkTruth, Files
<1>3. \A n : ReviseDraft(fs, n).truth[c] = "fresh" => fs.truth[c] = "fresh"
  BY <1>1 DEF ReviseDraft, Files
<1>4. \A e : Landed(fs, e).truth[c] = "fresh" => fs.truth[c] = "fresh"
  <2>1. \A n : /\ StageTruth(fs, n).truth = fs.truth
               /\ [fs EXCEPT !.stagedPlans = @ \cup {n}].truth = fs.truth
    BY <1>1 DEF StageTruth, Files
  <2>2. QED BY <1>3, <2>1 DEF Landed
<1>5. CASE Command
  BY <1>2, <1>5 DEF Command, CmdNext, CmdResume, Modify, Reject, Decide, ResidualCleanup
<1>6. CASE ProcessEnds
  BY <1>2, <1>6 DEF ProcessEnds, Save, Finish, AtExit, Kill, Shutdown
<1>7. CASE QueuePass
  BY <1>4, <1>7 DEF QueuePass, QueueBegin, EntryDone, EntryFails, QueueEnd
<1>8. CASE ChapterTop
  BY <1>8 DEF ChapterTop, TriggerFails, VolumeBoundary, TriggersAtCheckpoint,
     EnterClosure, VolumeAlign, StopAt
<1>9. CASE ChapterStep
  <2>1. CASE Planning \/ ContextPrepare \/ Drafting \/ SceneSplit \/ SceneSplitFails
             \/ SceneSplitTorn
    BY <1>2, <2>1 DEF Planning, ContextPrepare, Drafting, SceneSplit, SceneSplitFails,
       SceneSplitTorn, StepFails
  <2>2. CASE PostDraftExtract \/ LinguisticDrift \/ AuditWave \/ StepsConsumed
    BY <2>2 DEF PostDraftExtract, LinguisticDrift, AuditWave, StepsConsumed
  <2>3. CASE SettlePair \/ SettleAgain
    BY <1>2, <2>3 DEF SettlePair, SettleAgain, StepFails, RefuseUndrafted
  <2>4. CASE Revision
    BY <1>3, <2>4 DEF Revision, StepFails, RefuseUndrafted
  <2>5. QED BY <1>9, <2>1, <2>2, <2>3, <2>4 DEF ChapterStep
<1>10. CASE Closing
  BY <1>10 DEF Closing, ClosureStep, ClosureFails, ClosureRests, Completed
<1>11. QED BY <1>5, <1>6, <1>7, <1>8, <1>9, <1>10 DEF Next

\* With settlements under review, a fresh settlement of a chapter goes live by
\* a decision about that very chapter, never in the slipstream of another one.
THEOREM SettledOnItsOwn ==
  ASSUME SettleReview
  PROVE  Spec => OwnSettlementOnly
<1> DEFINE Own == \A c \in Chapters : fs'.truth[c] = "fresh" /\ fs.truth[c] # "fresh" =>
                    /\ Deciding
                    /\ st.cp.type \in {"state-settle", "per-chapter"} /\ st.cp.chapter = c
<1>1. Init => OneSettlement
  <2> SUFFICES ASSUME Init PROVE OneSettlement OBVIOUS
  <2>1. <<>> \in Seq(Settling({})) BY EmptySeq
  <2>2. Riding(NoFiles) = {} BY DEF Riding, NoFiles, NoTruth
  <2>3. SettlesIn(Start, {})
    BY <2>1, PlanSteps DEF Start, SettlesIn, NoCheckpoint, At
  <2>4. AboutOne({}) BY <2>1, <2>2, <2>3 DEF Init, AboutOne, Idle
  <2>5. QED BY <2>4 DEF Init, OneSettlement, Idle
<1>2. Inv /\ Promised /\ OneSettlement /\ [Next]_vars => OneSettlement'
  <2> SUFFICES ASSUME Inv, Promised, OneSettlement, [Next]_vars PROVE OneSettlement'
    OBVIOUS
  <2>1. CASE UNCHANGED vars
    BY <2>1 DEF vars, OneSettlement, AboutOne, SettlesIn, Riding
  <2>2. CASE Next
    BY <2>2, ReviewKeepsOne, CommandsKeepOne, ProcessEndsKeepOne, QueuePassKeepsOne,
       TopKeepsOne, PlanningKeepsOne, StepKeepsOne DEF Next, Command
  <2>3. QED BY <2>1, <2>2
<1>3. Inv /\ OneSettlement /\ [Next]_vars => [Own]_vars
  <2> SUFFICES ASSUME Inv, OneSettlement, Next PROVE Own OBVIOUS
  <2>1. CASE Approve BY <2>1, DecidedSettlement
  <2>2. CASE ~Approve BY <2>2, NothingElseSettles
  <2>3. QED BY <2>1, <2>2
<1>4. QED BY <1>1, <1>2, <1>3, Backed, AlwaysPromised, PTL DEF Spec, OwnSettlementOnly
=============================================================================

---------------------------- MODULE Skills_proofs ----------------------------
(***************************************************************************)
(* Proofs about the skills of a book.  Triggers, for any book, intervals   *)
(* and any number of failures and kills: what has passed is not paid for   *)
(* again, no configuration stays ungoverned, and no volume's end is passed *)
(* over.  Dispatch, for any number of tries and files: the ledger charges  *)
(* each billed try once, and only a whole reply is written.  The two share *)
(* no variable.                                                            *)
(***************************************************************************)
EXTENDS Triggers, Dispatch, TLAPS, SequenceTheorems

-----------------------------------------------------------------------------
(* The fan-out of triggered skills: what is kept.                          *)

\* What a state keeps, in memory and on disk, when "asked" was answered.
Sound(s, asked) ==
  /\ s.words \cap s.done = {}
  /\ s.cp.type = "escalation" => s.failure \notin s.done
  /\ s.cp.type = "volume-boundary" => s.cp.chapter = s.current - 1 /\ s.cp.chapter \in VolumeEnds
  /\ \A v \in VolumeEnds :
       \/ v > s.current - 1 \/ v \in asked
       \/ v = s.current - 1 /\ (s.step = 0 \/ s.cp = At("volume-boundary", v))

\* What the place of the process says of its state.
Running ==
  /\ run.pc # "idle" => st.cp = NoCheckpoint /\ st.phase = "chapter-loop"
  /\ run.pc \in {"fan", "landed", "chapter"} => st.step = 0
  /\ run.pc \in {"fan", "landed"} => Prev \in Chapters
  /\ run.pc = "landed" => run.row \in Rows /\ Skill(run.row) \notin st.done
  /\ run.pc = "chapter" => Prev \notin VolumeEnds

\* A row passes once more only if the state does not know that it has.
Known(i) == Skill(i) \in st.done \/ st.step = 1 \/ run.pc = "chapter" \/ st.phase = "closure"
Spent    == \A i \in Rows : rows[i] <= kills \/ (rows[i] <= kills + 1 /\ Known(i))

\* The copy that a dispatch kept is the governed one.
Restored == kills = 0 /\ run.pc = "landed" => run.before = "governed"

\* What every step keeps.
Inv ==
  /\ TypeOK /\ Sound(st, answered) /\ Sound(disk, answered)
  /\ Running /\ Spent /\ ConfigGoverned /\ Restored

-----------------------------------------------------------------------------
(* The table.                                                              *)

\* The rows that the proofs name.
LEMMA Table ==
  /\ Rows = 1..11 /\ Len(TriggerSteps) = 11 /\ Finished = 12
  /\ TriggerSteps[6].category = "volume_boundary"
  BY DEF Rows, Finished, TriggerSteps, Row

\* What the constants are.
LEMMA Bounds ==
  /\ TotalChapters \in Nat /\ Horizon \in Nat /\ Horizon >= 1 /\ VolumeEnds \subseteq Nat \ {0}
  /\ VolumeEnds \subseteq Chapters /\ Chapters \subseteq Nat
  /\ MaxFailures \in Nat /\ MaxKills \in Nat
  /\ \A c \in Chapters : c \in 1..Horizon
  BY BookAssumption, TriggersAssumption DEF Chapters

\* A skill of the chapter before is a key.
LEMMA SkillKey == ASSUME NEW i \in Rows, Prev \in Chapters PROVE Skill(i) \in Key
  BY DEF Skill, Key, Skills

\* At a volume's end the fan-out is not empty.
LEMMA BoundaryCalls ==
  ASSUME Prev \in VolumeEnds, NEW drifting \in BOOLEAN PROVE Called(drifting) # {}
<1> DEFINE flags == CheckTriggers(Prev, Stale, drifting)
<1>1. Prev # 0
  BY Bounds
<1>2. "volume_boundary" \in flags
  BY DEF CheckTriggers
<1> HIDE DEF flags
<1>3. 6 \in GetTriggerSteps(flags)
  BY <1>2, Table DEF GetTriggerSteps
<1> QED
  BY <1>1, <1>3 DEF Called, flags

\* A fan-out is made of rows of the table.
LEMMA CalledRows == ASSUME NEW drifting \in BOOLEAN PROVE Called(drifting) \subseteq Rows
  BY DEF Called, GetTriggerSteps

\* From a leader to the next no volume ends but with the chapter before it.
LEMMA Leading ==
  ASSUME NEW c \in Chapters
  PROVE  /\ NextLeader(c) \in Nat /\ NextLeader(c) > c
         /\ \A v \in VolumeEnds : v <= NextLeader(c) - 1 => v <= c - 1 \/ v = NextLeader(c) - 1
  BY Bounds DEF NextLeader, HasFollower

\* A state whose cursor stays, and whose checkpoint goes or is an escalation.
LEMMA SoundNext ==
  ASSUME NEW s, NEW t, NEW a, NEW b, Sound(s, a), a \subseteq b,
         t.current = s.current, t.step = s.step \/ t.step = 0,
         t.words \cap t.done = {},
         t.cp.type = "escalation" => t.failure \notin t.done,
         t.cp.type # "volume-boundary",
         s.cp.type = "volume-boundary" => s.cp.chapter \in b
  PROVE  Sound(t, b)
<1>1. \A v \in VolumeEnds :
        \/ v > t.current - 1 \/ v \in b
        \/ v = t.current - 1 /\ (t.step = 0 \/ t.cp = At("volume-boundary", v))
  <2> SUFFICES ASSUME NEW v \in VolumeEnds, ~(v > t.current - 1), v \notin b
               PROVE  v = t.current - 1 /\ t.step = 0
    OBVIOUS
  <2>1. v = s.current - 1 /\ (s.step = 0 \/ s.cp = At("volume-boundary", v))
    BY DEF Sound
  <2>2. s.cp # At("volume-boundary", v)
    BY DEF At
  <2> QED
    BY <2>1, <2>2
<1> QED
  BY <1>1 DEF Sound

\* A book begins with nothing asked, failed or paid for.
LEMMA InitInv == Init => Inv
<1> SUFFICES ASSUME Init PROVE Inv
  OBVIOUS
<1>1. NoCheckpoint \in Checkpoint /\ NoCheckpoint.type = "none"
  BY Bounds DEF NoCheckpoint, At, Checkpoint, CheckpointTypes
<1>2. st = Start /\ disk = Start /\ Start \in State
  BY <1>1, Bounds DEF Init, Start, State, Chapters
<1>3. TypeOK
  BY <1>2, Bounds, Table DEF Init, TypeOK, Project, Process, Idle, None
<1>4. Sound(Start, {})
  BY <1>1, Bounds DEF Sound, Start
<1>5. Running /\ Spent /\ ConfigGoverned /\ Restored
  BY Table DEF Init, Running, Spent, ConfigGoverned, Restored, Idle, None
<1> QED
  BY <1>2, <1>3, <1>4, <1>5 DEF Inv, Init

-----------------------------------------------------------------------------
(* The invariant through the actions.                                      *)

\* The commands that begin a run leave what is kept alone.
LEMMA Commands == ASSUME Inv, CmdNext \/ CmdResume PROVE Inv'
<1>1. TypeOK /\ Sound(st, answered) /\ Sound(disk, answered) /\ Running /\ Spent
      /\ ConfigGoverned /\ Restored
  BY DEF Inv
<1>2. UNCHANGED <<project, ghosts>> /\ run.pc = "idle" /\ st.cp = NoCheckpoint
  BY DEF CmdNext, CmdResume
<1>3. CASE CmdNext
  <2>1. st' = st /\ disk' = disk /\ run' = [run EXCEPT !.pc = "top"] /\ st.phase = "chapter-loop"
    BY <1>3 DEF CmdNext
  <2>2. run' \in Process /\ run'.pc = "top"
    BY <1>1, <2>1 DEF TypeOK, Process
  <2>3. TypeOK'
    BY <1>1, <1>2, <2>1, <2>2 DEF TypeOK, ghosts
  <2>4. Sound(st, answered)' /\ Sound(disk, answered)'
    BY <1>1, <1>2, <2>1 DEF Sound, ghosts
  <2>5. Running' /\ Spent'
    BY <1>1, <1>2, <2>1, <2>2 DEF Running, Spent, Known, Skill, Prev, ghosts
  <2>6. ConfigGoverned' /\ Restored'
    BY <1>1, <1>2, <2>2 DEF ConfigGoverned, Restored, ghosts
  <2> QED
    BY <2>3, <2>4, <2>5, <2>6 DEF Inv
<1>4. CASE CmdResume
  <2>1. st' = [st EXCEPT !.closing = FALSE, !.phase = "closure"] /\ disk' = st' /\ run' = run
    BY <1>4 DEF CmdResume
  <2>2. st' \in State
    BY <1>1, <2>1 DEF TypeOK, State
  <2>3. TypeOK'
    BY <1>1, <1>2, <2>1, <2>2 DEF TypeOK, ghosts
  <2>4. /\ st'.current = st.current /\ st'.step = st.step /\ st'.cp = st.cp /\ st'.words = st.words
        /\ st'.done = st.done /\ st'.failure = st.failure /\ st'.phase = "closure"
    BY <1>1, <2>1 DEF TypeOK, State
  <2>5. Sound(st', answered)
    BY <1>1, <2>4 DEF Sound
  <2>6. Running' /\ Spent'
    BY <1>1, <1>2, <2>1, <2>4 DEF Running, Spent, Known, Skill, Prev, ghosts
  <2>7. ConfigGoverned' /\ Restored'
    BY <1>1, <1>2, <2>1 DEF ConfigGoverned, Restored, ghosts
  <2> QED
    BY <1>2, <2>1, <2>3, <2>5, <2>6, <2>7 DEF Inv, ghosts
<1> QED
  BY <1>3, <1>4

\* A killed process leaves the state file, and its row may pass once more.
LEMMA KillInv == ASSUME Inv, Kill PROVE Inv'
<1>1. TypeOK /\ Sound(st, answered) /\ Sound(disk, answered) /\ Running /\ Spent
      /\ ConfigGoverned /\ Restored
  BY DEF Inv
<1>2. /\ kills < MaxKills /\ kills' = kills + 1 /\ st' = disk /\ run' = Idle
      /\ UNCHANGED <<disk, project, rows, distilled, answered, refused, failures>>
  BY DEF Kill
<1>3. kills \in Nat /\ kills' \in Nat /\ kills' # 0 /\ kills' \in 0..MaxKills
  BY <1>1, <1>2, Bounds DEF TypeOK
<1>4. run' \in Process /\ run'.pc = "idle"
  BY <1>2, Table DEF Idle, Process
<1>5. TypeOK'
  BY <1>1, <1>2, <1>3, <1>4 DEF TypeOK
<1>6. Running'
  BY <1>4 DEF Running
<1>7. Spent'
  <2> SUFFICES ASSUME NEW i \in Rows PROVE rows[i] <= kills'
    BY <1>2 DEF Spent
  <2>1. rows[i] \in Nat
    BY <1>1, Bounds DEF TypeOK
  <2>2. rows[i] <= kills \/ rows[i] <= kills + 1
    BY <1>1 DEF Spent
  <2> QED
    BY <1>2, <1>3, <2>1, <2>2
<1>8. ConfigGoverned' /\ Restored'
  BY <1>3, <1>4 DEF ConfigGoverned, Restored
<1>9. Sound(st', answered) /\ Sound(disk', answered)
  BY <1>1, <1>2
<1> QED
  BY <1>2, <1>5, <1>6, <1>7, <1>8, <1>9 DEF Inv

\* The fan-out begins: the flags decide which rows are in it.
LEMMA FanOutInv == ASSUME Inv, FanOut PROVE Inv'
<1>1. TypeOK /\ Sound(st, answered) /\ Sound(disk, answered) /\ Running /\ Spent
      /\ ConfigGoverned /\ Restored
  BY DEF Inv
<1>2. PICK drifting \in BOOLEAN :
        /\ Called(drifting) # {}
        /\ run' = [run EXCEPT !.pc = "fan", !.active = Called(drifting), !.row = 1]
  BY DEF FanOut
<1>3. /\ run.pc = "top" /\ st.step = 0 /\ refused' = (IF refused = Prev THEN 0 ELSE refused)
      /\ UNCHANGED <<st, disk, project, rows, distilled, answered, failures, kills>>
  BY DEF FanOut, AtTop
<1>4. Prev \in Chapters /\ Prev' = Prev
  <2>1. Prev # 0
    BY <1>2 DEF Called
  <2>2. st.current \in Chapters
    BY <1>1 DEF TypeOK, State
  <2> QED
    BY <1>3, <2>1, <2>2, Bounds DEF Prev, Chapters
<1>5. run' \in Process /\ run'.pc = "fan"
  <2>1. Called(drifting) \in SUBSET Rows
    BY CalledRows
  <2>2. 1 \in 1..Finished /\ run \in Process
    BY <1>1, Table DEF TypeOK
  <2> QED
    BY <1>2, <2>1, <2>2 DEF Process
<1>6. TypeOK'
  BY <1>1, <1>3, <1>5 DEF TypeOK
<1>7. Running'
  BY <1>1, <1>3, <1>4, <1>5 DEF Running
<1>8. Spent'
  BY <1>1, <1>3, <1>4, <1>5 DEF Spent, Known, Skill
<1>9. ConfigGoverned' /\ Restored'
  BY <1>1, <1>3, <1>5 DEF ConfigGoverned, Restored
<1> QED
  BY <1>1, <1>3, <1>6, <1>7, <1>8, <1>9 DEF Inv

\* The command stops with the state s on disk.
LEMMA StopInv ==
  ASSUME Inv, NEW s \in State, Stop(s), Sound(s, answered),
         UNCHANGED <<rows, distilled, answered, kills>>,
         refused' = refused, failures' \in 0..MaxFailures, project' \in Project,
         kills = 0 => project'.config # "raw",
         \A i \in Rows :
           rows[i] <= kills \/ Skill(i) \in s.done \/ s.step = 1 \/ s.phase = "closure",
         s.current = st.current
  PROVE  Inv'
<1>1. TypeOK /\ Spent
  BY DEF Inv
<1>2. st' = s /\ disk' = s /\ run' = Idle
  BY DEF Stop
<1>3. run' \in Process /\ run'.pc = "idle"
  BY <1>2, Table DEF Idle, Process
<1>4. TypeOK'
  BY <1>1, <1>2, <1>3 DEF TypeOK
<1>5. Running'
  BY <1>3 DEF Running
<1>6. Spent'
  <2> SUFFICES ASSUME NEW i \in Rows
               PROVE  rows[i] <= kills \/ (rows[i] <= kills + 1 /\ Known(i)')
    BY DEF Spent
  <2>1. Skill(i)' = Skill(i)
    BY <1>2 DEF Skill, Prev
  <2>2. rows[i] <= kills \/ rows[i] <= kills + 1
    BY <1>1 DEF Spent
  <2> QED
    BY <1>2, <2>1, <2>2 DEF Known
<1>7. ConfigGoverned' /\ Restored'
  BY <1>3 DEF ConfigGoverned, Restored
<1>8. Sound(st', answered') /\ Sound(disk', answered')
  BY <1>2
<1> QED
  BY <1>4, <1>5, <1>6, <1>7, <1>8 DEF Inv

\* The fan-out is over, and the book is closed or the chapter begins.
LEMMA GoesOnInv ==
  ASSUME Inv, run.pc \in {"top", "fan"}, st.step = 0, NEW s \in State, GoesOn(s),
         s.words = st.words, s.done \subseteq st.done, s.cp = st.cp, s.failure = st.failure,
         s.current = st.current, s.step = st.step, s.phase = st.phase,
         Prev \notin VolumeEnds, UNCHANGED <<project, ghosts>>
  PROVE  Inv'
<1>1. TypeOK /\ Sound(st, answered) /\ Sound(disk, answered) /\ Running /\ Spent
      /\ ConfigGoverned /\ Restored
  BY DEF Inv
<1>2. st.cp = NoCheckpoint /\ NoCheckpoint.type = "none"
  BY <1>1 DEF Running, NoCheckpoint, At
<1>3. CASE Prev >= TotalChapters
  <2> DEFINE t == [s EXCEPT !.phase = "closure"]
  <2>1. Stop(t)
    BY <1>3 DEF GoesOn
  <2>2. /\ t \in State /\ t.words = s.words /\ t.done = s.done
        /\ t.cp = s.cp /\ t.failure = s.failure
        /\ t.current = s.current /\ t.step = s.step /\ t.phase = "closure"
    BY DEF State
  <2> HIDE DEF t
  <2>3. Sound(t, answered)
    <3>1. t.words \cap t.done = {}
      BY <1>1, <2>2 DEF Sound
    <3> QED
      BY <1>1, <1>2, <2>2, <3>1, SoundNext
  <2>4. /\ project' \in Project /\ (kills = 0 => project'.config # "raw")
        /\ failures' \in 0..MaxFailures
    BY <1>1 DEF TypeOK, ConfigGoverned, ghosts
  <2> QED
    BY <2>1, <2>2, <2>3, <2>4, StopInv DEF ghosts
<1>4. CASE ~(Prev >= TotalChapters)
  <2>1. st' = s /\ run' = [run EXCEPT !.pc = "chapter"] /\ disk' = disk
    BY <1>4 DEF GoesOn
  <2>2. run' \in Process /\ run'.pc = "chapter"
    BY <1>1, <2>1 DEF TypeOK, Process
  <2>3. TypeOK'
    BY <1>1, <2>1, <2>2 DEF TypeOK, ghosts
  <2>4. Sound(s, answered)
    <3>1. s.words \cap s.done = {}
      BY <1>1 DEF Sound
    <3> QED
      BY <1>1, <1>2, <3>1, SoundNext
  <2>5. Running'
    BY <1>1, <2>1, <2>2 DEF Running, Prev
  <2>6. Spent'
    BY <1>1, <2>2 DEF Spent, Known, ghosts
  <2>7. ConfigGoverned' /\ Restored'
    BY <1>1, <2>2 DEF ConfigGoverned, Restored, ghosts
  <2> QED
    BY <1>1, <2>1, <2>3, <2>4, <2>5, <2>6, <2>7 DEF Inv, ghosts
<1> QED
  BY <1>3, <1>4

\* Where nothing is called for, no volume has ended.
LEMMA NothingFiresInv == ASSUME Inv, NothingFires PROVE Inv'
<1>1. run.pc = "top" /\ st.step = 0 /\ Called(FALSE) = {} /\ GoesOn(st)
      /\ UNCHANGED <<project, ghosts>>
  BY DEF NothingFires, AtTop
<1>2. st \in State
  BY DEF Inv, TypeOK
<1>3. Prev \notin VolumeEnds
  BY <1>1, BoundaryCalls
<1> QED
  BY <1>1, <1>2, <1>3, GoesOnInv

\* The fan-out is over: a volume's end is put to the human before the chapter.
LEMMA FanOutEndsInv == ASSUME Inv, FanOutEnds PROVE Inv'
<1>1. TypeOK /\ Sound(st, answered) /\ Running /\ Spent /\ ConfigGoverned
  BY DEF Inv
<1>2. run.pc = "fan" /\ st.step = 0 /\ UNCHANGED <<project, ghosts>> /\ Prev \in Chapters
  BY <1>1 DEF FanOutEnds, AllRan, Running
<1>3. /\ Forgotten \in State /\ Forgotten.words = st.words /\ Forgotten.done \subseteq st.done
      /\ Forgotten.cp = st.cp /\ Forgotten.failure = st.failure
      /\ Forgotten.current = st.current /\ Forgotten.step = st.step /\ Forgotten.phase = st.phase
  BY <1>1 DEF Forgotten, TypeOK, State
<1>4. CASE Prev \notin VolumeEnds
  <2>1. GoesOn(Forgotten)
    BY <1>4 DEF FanOutEnds
  <2> QED
    BY <1>2, <1>3, <1>4, <2>1, GoesOnInv
<1>5. CASE Prev \in VolumeEnds
  <2> DEFINE t == [Forgotten EXCEPT !.cp = At("volume-boundary", Prev), !.step = 1]
  <2>1. Stop(t)
    BY <1>5 DEF FanOutEnds
  <2>2. At("volume-boundary", Prev) \in Checkpoint
    BY <1>2, Bounds DEF At, Checkpoint, CheckpointTypes, Chapters
  <2>3. /\ t \in State /\ t.words = st.words /\ t.done \subseteq st.done
        /\ t.cp = At("volume-boundary", Prev) /\ t.current = st.current /\ t.step = 1
    BY <1>3, <2>2 DEF State
  <2> HIDE DEF t
  <2>4. At("volume-boundary", Prev).type = "volume-boundary"
        /\ At("volume-boundary", Prev).chapter = Prev
    BY DEF At
  <2>5. Sound(t, answered)
    <3>1. t.words \cap t.done = {}
      BY <1>1, <2>3 DEF Sound
    <3>2. \A v \in VolumeEnds :
            \/ v > t.current - 1 \/ v \in answered
            \/ v = t.current - 1 /\ (t.step = 0 \/ t.cp = At("volume-boundary", v))
      BY <1>1, <2>3 DEF Sound, Prev
    <3>3. /\ t.cp.type = "volume-boundary" /\ t.cp.chapter = t.current - 1
          /\ t.cp.chapter \in VolumeEnds
      BY <1>5, <2>3, <2>4 DEF Prev
    <3> QED
      BY <3>1, <3>2, <3>3 DEF Sound
  <2>6. /\ project' \in Project /\ (kills = 0 => project'.config # "raw")
        /\ failures' \in 0..MaxFailures
    BY <1>1, <1>2 DEF TypeOK, ConfigGoverned, ghosts
  <2> QED
    BY <1>2, <2>1, <2>3, <2>5, <2>6, StopInv DEF ghosts
<1> QED
  BY <1>4, <1>5

\* A row is due only if its skill has not passed.
LEMMA DispatchedInv == ASSUME Inv, NEW i \in Rows, Dispatched(i) PROVE Inv'
<1>1. TypeOK /\ Sound(st, answered) /\ Sound(disk, answered) /\ Running /\ Spent
      /\ ConfigGoverned /\ Restored
  BY DEF Inv
<1>2. /\ run.pc = "fan" /\ NextDue(i) /\ UNCHANGED <<st, disk, ghosts>>
      /\ run' = [run EXCEPT !.pc = "landed", !.row = i, !.before = project.config]
      /\ project' = IF i = ConfigRow THEN [project EXCEPT !.config = "raw"] ELSE project
  BY DEF Dispatched
<1>3. run' \in Process /\ run'.pc = "landed" /\ run'.row = i /\ run'.before = project.config
  <2>1. i \in 1..Finished /\ run \in Process /\ project.config \in {"governed", "raw"}
    BY <1>1, Table DEF TypeOK, Project
  <2> QED
    BY <1>2, <2>1 DEF Process
<1>4. project' \in Project /\ (i # ConfigRow => project' = project)
  BY <1>1, <1>2 DEF TypeOK, Project
<1>5. TypeOK'
  BY <1>1, <1>2, <1>3, <1>4 DEF TypeOK, ghosts
<1>6. Skill(i) \notin st.done
  BY <1>1, <1>2 DEF NextDue, Due, Sound
<1>7. Running'
  BY <1>1, <1>2, <1>3, <1>6 DEF Running, Skill, Prev
<1>8. Spent'
  BY <1>1, <1>2, <1>3 DEF Spent, Known, Skill, Prev, ghosts
<1>9. ConfigGoverned' /\ Restored'
  <2>1. kills = 0 => project.config = "governed"
    BY <1>1, <1>2 DEF TypeOK, Project, ConfigGoverned
  <2> QED
    BY <1>2, <1>3, <1>4, <2>1 DEF ConfigGoverned, Restored, ghosts
<1> QED
  BY <1>1, <1>2, <1>5, <1>7, <1>8, <1>9 DEF Inv, ghosts

\* Whatever fails is noted, and had not passed.
LEMMA FailsInv ==
  ASSUME Inv, NEW i \in Rows, Fails(i), run.pc \in {"fan", "landed"}, Skill(i) \notin st.done,
         project' \in Project, kills = 0 => project'.config # "raw"
  PROVE  Inv'
<1>1. TypeOK /\ Sound(st, answered) /\ Running /\ Spent
  BY DEF Inv
<1> DEFINE t == [st EXCEPT !.failure = Skill(i), !.cp = At("escalation", Prev)]
<1>2. /\ Stop(t) /\ failures < MaxFailures /\ failures' = failures + 1
      /\ UNCHANGED <<rows, distilled, answered, refused, kills>>
  BY DEF Fails
<1>3. Prev \in Chapters /\ st.step = 0 /\ st.cp = NoCheckpoint
  BY <1>1 DEF Running
<1>4. /\ At("escalation", Prev) \in Checkpoint /\ At("escalation", Prev).type = "escalation"
      /\ NoCheckpoint.type = "none" /\ Skill(i) \in Key
  BY <1>3, Bounds, SkillKey DEF At, NoCheckpoint, Checkpoint, CheckpointTypes, Chapters
<1>5. /\ t \in State /\ t.words = st.words /\ t.done = st.done /\ t.failure = Skill(i)
      /\ t.cp.type = "escalation" /\ t.current = st.current /\ t.step = st.step
      /\ t.phase = st.phase
  BY <1>1, <1>4 DEF TypeOK, State
<1> HIDE DEF t
<1>6. Sound(t, answered)
  <2>1. t.words \cap t.done = {}
    BY <1>1, <1>5 DEF Sound
  <2> QED
    BY <1>1, <1>3, <1>4, <1>5, <2>1, SoundNext
<1>7. failures' \in 0..MaxFailures
  BY <1>1, <1>2, Bounds DEF TypeOK
<1>8. \A j \in Rows : rows[j] <= kills \/ Skill(j) \in t.done \/ t.step = 1 \/ t.phase = "closure"
  BY <1>1, <1>5 DEF Spent, Known
<1> QED
  BY <1>2, <1>5, <1>6, <1>7, <1>8, StopInv

\* A dispatch or its gates fail: a rewritten configuration is put back.
LEMMA FailureInv == ASSUME Inv, (\E i \in Rows : DispatchFails(i)) \/ GateFails PROVE Inv'
<1>1. TypeOK /\ Sound(st, answered) /\ Running /\ ConfigGoverned /\ Restored
  BY DEF Inv
<1>2. CASE \E i \in Rows : DispatchFails(i)
  <2>1. PICK i \in Rows : DispatchFails(i)
    BY <1>2
  <2>2. run.pc = "fan" /\ NextDue(i) /\ Fails(i) /\ project' = project
    BY <2>1 DEF DispatchFails
  <2>3. Skill(i) \notin st.done
    BY <1>1, <2>2 DEF NextDue, Due, Sound
  <2>4. project' \in Project /\ (kills = 0 => project'.config # "raw")
    BY <1>1, <2>2 DEF TypeOK, ConfigGoverned
  <2> QED
    BY <2>2, <2>3, <2>4, FailsInv
<1>3. CASE GateFails
  <2>1. run.pc = "landed" /\ Fails(run.row) /\ project' = RolledBack
    BY <1>3 DEF GateFails
  <2>2. run.row \in Rows /\ Skill(run.row) \notin st.done
    BY <1>1, <2>1 DEF Running
  <2>3. run.before \in {"governed", "raw"} /\ project \in Project
    BY <1>1 DEF TypeOK, Process
  <2>4. project' \in Project
        /\ project'.config = IF run.row = ConfigRow THEN run.before ELSE project.config
    BY <2>1, <2>3 DEF RolledBack, Project
  <2>5. kills = 0 => project'.config # "raw"
    BY <1>1, <2>1, <2>4 DEF ConfigGoverned, Restored
  <2> QED
    BY <2>1, <2>2, <2>4, <2>5, FailsInv
<1> QED
  BY <1>2, <1>3

\* A row passes, and from then on the state knows it.
LEMMA RowPassesInv == ASSUME Inv, RowPasses PROVE Inv'
<1>1. TypeOK /\ Sound(st, answered) /\ Sound(disk, answered) /\ Running /\ Spent
      /\ ConfigGoverned /\ Restored
  BY DEF Inv
<1> DEFINE r == run.row
<1>2. /\ run.pc = "landed"
      /\ st' = [st EXCEPT !.done = @ \cup {Skill(r)}, !.words = @ \ {Skill(r)}]
      /\ run' = [run EXCEPT !.pc = "fan", !.row = @ + 1]
      /\ rows' = [rows EXCEPT ![r] = @ + 1]
      /\ distilled' = (IF r = RowOf("l2_distill") THEN distilled \cup {Prev} ELSE distilled)
      /\ UNCHANGED <<disk, answered, refused, failures, kills>>
  BY DEF RowPasses
<1>3. /\ r \in Rows /\ Skill(r) \notin st.done /\ st.step = 0 /\ st.cp = NoCheckpoint
      /\ st.phase = "chapter-loop" /\ Prev \in Chapters /\ Skill(r) \in Key
  BY <1>1, <1>2, SkillKey DEF Running
<1>4. /\ project' \in Project
      /\ project'.config = IF r = ConfigRow THEN run.before ELSE project.config
  <2>1. PICK profile \in {project.profile, IF TriggerSteps[r].skill = "style-learning"
                                             THEN "learned" ELSE project.profile} :
          project' = [profile |-> profile,
                      config |-> IF r = ConfigRow THEN run.before ELSE project.config]
    BY DEF RowPasses
  <2>2. /\ project.profile \in {"seed", "learned"} /\ project.config \in {"governed", "raw"}
        /\ run.before \in {"governed", "raw"}
    BY <1>1 DEF TypeOK, Project, Process
  <2> QED
    BY <2>1, <2>2 DEF Project
<1>5. /\ st' \in State /\ st'.done = st.done \cup {Skill(r)} /\ st'.words = st.words \ {Skill(r)}
      /\ st'.current = st.current /\ st'.step = st.step /\ st'.cp = st.cp /\ st'.phase = st.phase
  BY <1>1, <1>2, <1>3 DEF TypeOK, State
<1>6. run' \in Process /\ run'.pc = "fan"
  <2>1. r + 1 \in 1..Finished /\ run \in Process
    BY <1>1, <1>3, Table DEF TypeOK
  <2> QED
    BY <1>2, <2>1 DEF Process
<1> HIDE DEF r
<1>7. /\ \A i \in Rows : rows[i] \in Nat /\ rows[i] \in 0..(MaxKills + 1)
      /\ kills \in Nat /\ kills \in 0..MaxKills
  BY <1>1, Bounds DEF TypeOK
<1>8. rows[r] <= kills
  BY <1>1, <1>2, <1>3 DEF Spent, Known
<1>9. rows' \in [Rows -> 0..(MaxKills + 1)]
  <2>1. rows[r] + 1 \in 0..(MaxKills + 1)
    BY <1>3, <1>7, <1>8, Bounds
  <2>2. rows \in [Rows -> 0..(MaxKills + 1)]
    BY <1>1 DEF TypeOK
  <2> QED
    BY <1>2, <2>1, <2>2
<1>10. TypeOK'
  BY <1>1, <1>2, <1>3, <1>4, <1>5, <1>6, <1>9 DEF TypeOK
<1>11. Sound(st', answered) /\ Sound(disk, answered)
  <2>1. st'.words \cap st'.done = {}
    BY <1>1, <1>5 DEF Sound
  <2>2. NoCheckpoint.type = "none"
    BY DEF NoCheckpoint, At
  <2> QED
    BY <1>1, <1>3, <1>5, <2>1, <2>2, SoundNext
<1>12. Running'
  BY <1>1, <1>2, <1>3, <1>5, <1>6 DEF Running, Prev
<1>13. Spent'
  <2> SUFFICES ASSUME NEW i \in Rows
               PROVE  rows'[i] <= kills \/ (rows'[i] <= kills + 1 /\ Known(i)')
    BY <1>2 DEF Spent
  <2>1. Skill(i)' = Skill(i)
    BY <1>5 DEF Skill, Prev
  <2>2. CASE i = r
    <3>1. rows'[i] = rows[r] + 1
      BY <1>1, <1>2, <1>3, <2>2 DEF TypeOK
    <3>2. Known(i)'
      BY <1>5, <2>1, <2>2 DEF Known
    <3> QED
      BY <1>3, <1>7, <1>8, <3>1, <3>2
  <2>3. CASE i # r
    <3>1. rows'[i] = rows[i]
      BY <1>1, <1>2, <2>3 DEF TypeOK
    <3>2. rows[i] <= kills \/ (rows[i] <= kills + 1 /\ Skill(i) \in st.done)
      BY <1>1, <1>2, <1>3 DEF Spent, Known
    <3> QED
      BY <1>5, <2>1, <3>1, <3>2 DEF Known
  <2> QED
    BY <2>2, <2>3
<1>14. ConfigGoverned' /\ Restored'
  <2>1. kills = 0 => project'.config # "raw"
    BY <1>1, <1>2, <1>4 DEF ConfigGoverned, Restored, r
  <2> QED
    BY <1>2, <1>6, <2>1 DEF ConfigGoverned, Restored
<1> QED
  BY <1>2, <1>10, <1>11, <1>12, <1>13, <1>14 DEF Inv

\* The steps of the chapter: from one leader to the next.
LEMMA ChapterInv == ASSUME Inv, Begins \/ Completes \/ Save PROVE Inv'
<1>1. TypeOK /\ Sound(st, answered) /\ Sound(disk, answered) /\ Running /\ Spent
      /\ ConfigGoverned /\ Restored
  BY DEF Inv
<1>2. NoCheckpoint.type = "none"
  BY DEF NoCheckpoint, At
<1>3. CASE Begins
  <2>1. /\ run.pc = "chapter" /\ st' = [st EXCEPT !.step = 1] /\ run' = [Idle EXCEPT !.pc = "save"]
        /\ UNCHANGED <<disk, project, ghosts>>
    BY <1>3 DEF Begins
  <2>2. /\ st' \in State /\ st'.done = st.done /\ st'.words = st.words /\ st'.failure = st.failure
        /\ st'.current = st.current /\ st'.step = 1 /\ st'.cp = st.cp /\ st'.phase = st.phase
    BY <1>1, <2>1 DEF TypeOK, State
  <2>3. run' \in Process /\ run'.pc = "save"
    BY <2>1, Table DEF Idle, Process
  <2>4. TypeOK'
    BY <1>1, <2>1, <2>2, <2>3 DEF TypeOK, ghosts
  <2>5. st.cp = NoCheckpoint /\ Prev \notin VolumeEnds
    BY <1>1, <2>1 DEF Running
  <2>6. Sound(st', answered)
    <3>1. \A v \in VolumeEnds : v > st.current - 1 \/ v \in answered
      BY <1>1, <2>5 DEF Sound, Prev
    <3> QED
      BY <1>1, <1>2, <2>2, <2>5, <3>1 DEF Sound
  <2>7. Running' /\ Spent'
    BY <1>1, <2>1, <2>2, <2>3 DEF Running, Spent, Known, ghosts
  <2>8. ConfigGoverned' /\ Restored'
    BY <1>1, <2>1, <2>3 DEF ConfigGoverned, Restored, ghosts
  <2> QED
    BY <1>1, <2>1, <2>4, <2>6, <2>7, <2>8 DEF Inv, ghosts
<1>4. CASE Completes
  <2>1. /\ run.pc = "top" /\ st.step = 1 /\ NextLeader(st.current) \in Chapters
        /\ st' = [st EXCEPT !.step = 0, !.current = NextLeader(@)]
        /\ run' = [Idle EXCEPT !.pc = "save"] /\ rows' = None
        /\ UNCHANGED <<disk, project, distilled, answered, refused, failures, kills>>
    BY <1>4 DEF Completes
  <2>2. /\ st' \in State /\ st'.done = st.done /\ st'.words = st.words /\ st'.failure = st.failure
        /\ st'.current = NextLeader(st.current) /\ st'.step = 0 /\ st'.cp = st.cp
        /\ st'.phase = st.phase /\ st.current \in Chapters
    BY <1>1, <2>1 DEF TypeOK, State
  <2>3. run' \in Process /\ run'.pc = "save"
    BY <2>1, Table DEF Idle, Process
  <2>4. rows' \in [Rows -> 0..(MaxKills + 1)] /\ \A i \in Rows : rows'[i] = 0
    BY <2>1, Bounds DEF None
  <2>5. TypeOK'
    BY <1>1, <2>1, <2>2, <2>3, <2>4 DEF TypeOK
  <2>6. st.cp = NoCheckpoint
    BY <1>1, <2>1 DEF Running
  <2>7. Sound(st', answered)
    <3>1. \A v \in VolumeEnds : v > st.current - 1 \/ v \in answered
      <4> SUFFICES ASSUME NEW v \in VolumeEnds, ~(v > st.current - 1) PROVE v \in answered
        OBVIOUS
      <4>1. st.cp # At("volume-boundary", v)
        BY <1>2, <2>6 DEF At
      <4> QED
        BY <1>1, <2>1, <4>1 DEF Sound
    <3>2. \A v \in VolumeEnds :
            v > st'.current - 1 \/ v \in answered \/ v = st'.current - 1
      <4> SUFFICES ASSUME NEW v \in VolumeEnds, ~(v > st'.current - 1), v \notin answered
                   PROVE  v = st'.current - 1
        OBVIOUS
      <4>1. v \in Nat /\ st.current \in Nat /\ st'.current \in Nat
        BY <2>2, Bounds, Leading
      <4>2. v > st.current - 1
        BY <3>1
      <4>3. v <= NextLeader(st.current) - 1
        BY <2>2, <4>1
      <4>4. v <= st.current - 1 \/ v = NextLeader(st.current) - 1
        BY <2>2, <4>3, Leading
      <4> QED
        BY <2>2, <4>1, <4>2, <4>4
    <3> QED
      BY <1>1, <1>2, <2>2, <2>6, <3>2 DEF Sound
  <2>8. Running'
    BY <1>1, <2>1, <2>2, <2>3 DEF Running
  <2>9. Spent'
    <3>1. kills \in Nat
      BY <1>1, Bounds DEF TypeOK
    <3> QED
      BY <2>1, <2>4, <3>1 DEF Spent
  <2>10. ConfigGoverned' /\ Restored'
    BY <1>1, <2>1, <2>3 DEF ConfigGoverned, Restored
  <2> QED
    BY <1>1, <2>1, <2>5, <2>7, <2>8, <2>9, <2>10 DEF Inv
<1>5. CASE Save
  <2>1. /\ run.pc = "save" /\ disk' = st /\ run' = [run EXCEPT !.pc = "top"]
        /\ UNCHANGED <<st, project, ghosts>>
    BY <1>5 DEF Save
  <2>2. run' \in Process /\ run'.pc = "top"
    BY <1>1, <2>1 DEF TypeOK, Process
  <2>3. TypeOK'
    BY <1>1, <2>1, <2>2 DEF TypeOK, ghosts
  <2>4. Running' /\ Spent'
    BY <1>1, <2>1, <2>2 DEF Running, Spent, Known, Skill, Prev, ghosts
  <2>5. ConfigGoverned' /\ Restored'
    BY <1>1, <2>1, <2>2 DEF ConfigGoverned, Restored, ghosts
  <2> QED
    BY <1>1, <2>1, <2>3, <2>4, <2>5 DEF Inv, ghosts
<1> QED
  BY <1>3, <1>4, <1>5

\* A decision: the checkpoint goes, the cursor stays.
LEMMA DecidedInv ==
  ASSUME Inv, run.pc = "idle", NEW t \in State, st' = t, disk' = t, t.cp = NoCheckpoint,
         UNCHANGED <<project, run, rows, distilled, failures, kills>>,
         answered \subseteq answered', answered' \subseteq VolumeEnds,
         refused' \in VolumeEnds \cup {0},
         st.cp.type = "volume-boundary" => st.cp.chapter \in answered',
         t.words \cap t.done = {},
         t.current = st.current, t.step = st.step, t.done = st.done, t.phase = st.phase
  PROVE  Inv'
<1>1. TypeOK /\ Sound(st, answered) /\ Running /\ Spent /\ ConfigGoverned /\ Restored
  BY DEF Inv
<1>2. TypeOK'
  BY <1>1 DEF TypeOK
<1>3. NoCheckpoint.type = "none"
  BY DEF NoCheckpoint, At
<1>4. Sound(t, answered')
  BY <1>1, <1>3, SoundNext
<1>5. Running'
  BY DEF Running
<1>6. Spent'
  BY <1>1 DEF Spent, Known, Skill, Prev
<1>7. ConfigGoverned' /\ Restored'
  BY <1>1 DEF ConfigGoverned, Restored
<1> QED
  BY <1>2, <1>4, <1>5, <1>6, <1>7 DEF Inv

\* The reviewer speaks only of a skill that has not passed, and answers for the
\* volume that ends before the cursor.
LEMMA ReviewInv == ASSUME Inv, Review PROVE Inv'
<1>1. TypeOK /\ Sound(st, answered) /\ st \in State
  BY DEF Inv, TypeOK
<1>2. NoCheckpoint \in Checkpoint
  BY Bounds DEF NoCheckpoint, At, Checkpoint, CheckpointTypes
<1>3. answered \subseteq VolumeEnds /\ refused \in VolumeEnds \cup {0}
  BY <1>1 DEF TypeOK
<1>4. CASE Resolve
  <2>1. PICK words \in {{}, {st.failure}} :
          /\ words # {} => st.failure # <<>>
          /\ Decides("escalation", [st EXCEPT !.words = @ \cup words])
    BY <1>4 DEF Resolve
  <2> DEFINE t == [[st EXCEPT !.words = @ \cup words] EXCEPT !.cp = NoCheckpoint]
  <2>2. words \subseteq Key
    BY <1>1, <2>1 DEF State
  <2>3. /\ t \in State /\ t.words = st.words \cup words /\ t.done = st.done /\ t.cp = NoCheckpoint
        /\ t.current = st.current /\ t.step = st.step /\ t.phase = st.phase
    BY <1>1, <1>2, <2>2 DEF State
  <2>4. /\ run.pc = "idle" /\ st.cp.type = "escalation" /\ st' = t /\ disk' = t
        /\ UNCHANGED <<project, run, rows, distilled, failures, kills>>
    BY <2>1 DEF Decides
  <2>5. UNCHANGED <<answered, refused>>
    BY <1>4 DEF Resolve
  <2>6. t.words \cap t.done = {}
    BY <1>1, <2>1, <2>3, <2>4 DEF Sound
  <2> HIDE DEF t
  <2> QED
    BY <1>3, <2>3, <2>4, <2>5, <2>6, DecidedInv
<1>5. CASE ApproveVolume \/ ModifyVolume \/ RejectVolume
  <2>1. /\ st.cp.type = "volume-boundary" /\ run.pc = "idle"
        /\ answered' = answered \cup {st.cp.chapter}
    BY <1>5 DEF ApproveVolume, ModifyVolume, RejectVolume, Decides, Answered
  <2>2. st.cp.chapter = st.current - 1 /\ st.cp.chapter \in VolumeEnds
    BY <1>1, <2>1 DEF Sound
  <2>3. refused' \in VolumeEnds \cup {0}
    BY <1>3, <1>5, <2>2 DEF ApproveVolume, ModifyVolume, RejectVolume
  <2>4. st.words \cap st.done = {}
    BY <1>1 DEF Sound
  <2>5. \E s \in State :
          /\ Decides("volume-boundary", s) /\ s.words = st.words /\ s.done = st.done
          /\ s.current = st.current /\ s.step = st.step /\ s.phase = st.phase
    <3>1. CASE ApproveVolume
      <4> DEFINE s == [st EXCEPT !.closing = @ \/ st.cp.chapter >= TotalChapters]
      <4>1. /\ s \in State /\ s.words = st.words /\ s.done = st.done
            /\ s.current = st.current /\ s.step = st.step /\ s.phase = st.phase
        BY <1>1 DEF State
      <4>2. Decides("volume-boundary", s)
        BY <3>1 DEF ApproveVolume
      <4> HIDE DEF s
      <4> QED
        BY <4>1, <4>2
    <3>2. CASE ModifyVolume
      BY <1>1, <3>2 DEF ModifyVolume
    <3>3. CASE RejectVolume
      <4>1. st.cp.chapter # st.current
        <5>1. st.current \in Chapters
          BY <1>1 DEF State
        <5>2. st.current \in Nat
          BY <5>1, Bounds
        <5> QED
          BY <2>2, <5>2
      <4> QED
        BY <1>1, <3>3, <4>1 DEF RejectVolume
    <3> QED
      BY <1>5, <3>1, <3>2, <3>3
  <2>6. PICK s \in State :
          /\ Decides("volume-boundary", s) /\ s.words = st.words /\ s.done = st.done
          /\ s.current = st.current /\ s.step = st.step /\ s.phase = st.phase
    BY <2>5
  <2> DEFINE t == [s EXCEPT !.cp = NoCheckpoint]
  <2>7. /\ t \in State /\ t.words = s.words /\ t.done = s.done /\ t.cp = NoCheckpoint
        /\ t.current = s.current /\ t.step = s.step /\ t.phase = s.phase
    BY <1>2 DEF State
  <2>8. st' = t /\ disk' = t /\ UNCHANGED <<project, run, rows, distilled, failures, kills>>
    BY <2>6 DEF Decides
  <2> HIDE DEF t
  <2>9. /\ answered' \subseteq VolumeEnds /\ answered \subseteq answered'
        /\ st.cp.chapter \in answered'
    BY <1>3, <2>1, <2>2
  <2> QED
    BY <2>1, <2>3, <2>4, <2>6, <2>7, <2>8, <2>9, DecidedInv
<1> QED
  BY <1>4, <1>5 DEF Review

\* Every step keeps the invariant.
LEMMA NextInv == Inv /\ [Next]_vars => Inv'
<1> SUFFICES ASSUME Inv, [Next]_vars PROVE Inv'
  OBVIOUS
<1>1. CASE CmdNext \/ CmdResume
  BY <1>1, Commands
<1>2. CASE FanOut
  BY <1>2, FanOutInv
<1>3. CASE NothingFires
  BY <1>3, NothingFiresInv
<1>4. CASE \E i \in Rows : Dispatched(i)
  BY <1>4, DispatchedInv
<1>5. CASE (\E i \in Rows : DispatchFails(i)) \/ GateFails
  BY <1>5, FailureInv
<1>6. CASE RowPasses
  BY <1>6, RowPassesInv
<1>7. CASE FanOutEnds
  BY <1>7, FanOutEndsInv
<1>8. CASE Begins \/ Completes \/ Save
  BY <1>8, ChapterInv
<1>9. CASE Kill
  BY <1>9, KillInv
<1>10. CASE Review
  BY <1>10, ReviewInv
<1>11. CASE UNCHANGED vars
  BY <1>11 DEF vars, ghosts, Inv, TypeOK, Sound, Running, Spent, Known, Skill, Prev,
     ConfigGoverned, Restored
<1> QED
  BY <1>1, <1>2, <1>3, <1>4, <1>5, <1>6, <1>7, <1>8, <1>9, <1>10, <1>11 DEF Next, Step

\* What the state remembers of its fan-out is sound, in memory and on disk.
THEOREM Invariant == Spec => []Inv
  BY InitInv, NextInv, PTL DEF Spec

\* A triggered skill that has passed is not paid for again but after a kill,
\* whatever failed and however often the fan-out was entered.
THEOREM PaidOnce == Spec => []RunsOnce
<1>1. Inv => RunsOnce
  <2> SUFFICES ASSUME Inv, NEW i \in Rows PROVE rows[i] <= 1 + kills
    BY DEF RunsOnce
  <2>1. rows[i] \in Nat /\ kills \in Nat
    BY Bounds DEF Inv, TypeOK
  <2>2. rows[i] <= kills \/ rows[i] <= kills + 1
    BY DEF Inv, Spent
  <2> QED
    BY <2>1, <2>2
<1> QED
  BY <1>1, Invariant, PTL

\* A rewritten genre configuration that no governance has passed is put back,
\* but where the process was killed over it.
THEOREM Governed == Spec => []ConfigGoverned
<1>1. Inv => ConfigGoverned
  BY DEF Inv
<1> QED
  BY <1>1, Invariant, PTL

\* The cursor leaves a volume's end only when the human has answered for it.
THEOREM EndsAnswered == Spec => []VolumeAnswered
<1>1. Inv => VolumeAnswered
  BY DEF Inv, Sound, VolumeAnswered, Prev
<1> QED
  BY <1>1, Invariant, PTL

-----------------------------------------------------------------------------
(* One dispatch: what is kept.                                             *)

\* The first call has not ended.
First == call.name = "first" /\ pc \in {"start", "call", "failed", "answered"}
\* The tries whose usage the counters hold.
Seen == {acc.prior[i] : i \in 1..Len(acc.prior)} \cup ({acc.usage} \ {0})

\* A row of the token ledger.
LedgerRow == [metered : Nat, attempt : Nat \ {0}]
\* The types, but for "todo", which SelectSeq makes.
Typed ==
  /\ MaxTries \in Nat
  /\ route \in {"api", "ide", "legacy"}
  /\ pc \in {"start", "call", "failed", "answered", "judge", "write", "audit", "done"}
  /\ call \in [name : Calls, tried : 0..MaxTries]
  /\ acc.attempts \in Nat /\ acc.usage \in Nat /\ acc.prior \in Seq(Nat)
  /\ reply \in [try : Nat, usage : Nat, finish : Finishes, empty : BOOLEAN]
  /\ ledger \in Seq(LedgerRow)
  /\ outputs \in [Paths -> Nat]
  /\ tries \in Seq([call : Calls, billed : BOOLEAN])

\* The counters: usage of tries, each once, and of fewer than were made.
Counted ==
  /\ acc.usage \in 0..This
  /\ \A i \in 1..Len(acc.prior) : acc.prior[i] \in 1..This /\ acc.prior[i] # acc.usage
  /\ \A i, j \in 1..Len(acc.prior) : acc.prior[i] = acc.prior[j] => i = j
  /\ Len(acc.prior) < acc.attempts \/ (acc.prior = <<>> /\ acc.attempts = 0 /\ acc.usage = 0)
  /\ pc \in {"failed", "answered"} \/ call.name # "first" => acc.attempts # 0
  /\ pc = "judge" /\ route = "api" => acc.attempts # 0

\* Where no provider is called nothing is billed, and nothing is cut.
Elsewhere ==
  /\ pc = "start" => tries = <<>> /\ call.name = "first"
  /\ pc \in {"failed", "answered"} => route = "api"
  /\ route # "api" =>
       /\ call.name = "first" /\ reply.finish = "stop"
       /\ pc \in {"start", "call"} => tries = <<>> /\ ledger = <<>>

\* The ledger knows the billed tries of the first call once that has ended,
\* and those of the calls that were answered.
Charged ==
  /\ \A i \in 1..Len(ledger) :
       ledger[i].metered # 0 => ledger[i].metered \in 1..This /\ tries[ledger[i].metered].billed
  /\ \A i, j \in 1..Len(ledger) :
       ledger[i].metered = ledger[j].metered /\ ledger[i].metered # 0 => i = j
  /\ First => ledger = <<>> /\ Billed("first") = Seen
  /\ ~First => Billed("first") \subseteq MeteredTries

\* The last reply: charged unless it has just come.
Replied ==
  /\ reply.try \in 0..This /\ reply.usage \in {0, reply.try}
  /\ pc = "answered" =>
       /\ reply.try = This /\ This # 0
       /\ reply.usage # 0 => tries[This].billed
       /\ IF call.name = "first" THEN acc.usage = reply.usage ELSE This \notin MeteredTries
  /\ pc # "answered" /\ reply.usage # 0 => reply.usage \in MeteredTries

\* Files are written from the reply at hand, unless it is said to be cut or filtered.
Landed ==
  /\ pc \notin {"write", "audit", "done"} => \A f \in Paths : outputs[f] = 0
  /\ pc = "write" => reply.finish \notin {"length", "content_filter"}
  /\ WrittenOfOneReply

\* What every step of a dispatch keeps.
DispatchInv == Typed /\ Counted /\ Elsewhere /\ Charged /\ Replied /\ Landed

-----------------------------------------------------------------------------
(* The rows of a call.                                                     *)

\* The tries that rows name, and that none is named twice.
MeteredOf(lines) == {lines[i].metered : i \in 1..Len(lines)} \ {0}
Once(lines) == \A i, j \in 1..Len(lines) :
                lines[i].metered = lines[j].metered /\ lines[i].metered # 0 => i = j

\* The counters are numbers.
LEMMA Counts ==
  ASSUME Typed
  PROVE  /\ acc.attempts \in Nat /\ acc.usage \in Nat
         /\ acc.prior \in Seq(Nat) /\ Len(acc.prior) \in Nat
         /\ \A i \in 1..Len(acc.prior) : acc.prior[i] \in Nat
<1>1. acc.attempts \in Nat /\ acc.usage \in Nat /\ acc.prior \in Seq(Nat)
  BY DEF Typed
<1> QED
  BY <1>1, LenProperties, ElementOfSeq

\* What a row names.
LEMMA RowTypes ==
  /\ \A u \in Nat, a \in Nat \ {0} : Metered(u, a) \in LedgerRow /\ Metered(u, a).metered = u
  /\ \A a \in Nat \ {0} : Estimate(a) \in LedgerRow /\ Estimate(a).metered = 0
  BY DEF Metered, Estimate, LedgerRow

\* The rows of the earlier tries: the usage set aside, then estimates.
LEMMA EarlierRows ==
  ASSUME Typed, Counted, acc.attempts # 0
  PROVE  /\ Earlier \in Seq(LedgerRow) /\ Len(Earlier) = acc.attempts - 1
         /\ \A i \in 1..Len(acc.prior) : Earlier[i].metered = acc.prior[i]
         /\ \A i \in 1..Len(Earlier) : i > Len(acc.prior) => Earlier[i].metered = 0
<1> DEFINE n == Len(acc.prior)
           k == acc.attempts - n - 1
           l == [i \in 1..n |-> Metered(acc.prior[i], i)]
           r == [i \in 1..k |-> Estimate(acc.attempts - i)]
<1>1. n \in Nat /\ k \in Nat /\ acc.attempts \in Nat /\ n + k = acc.attempts - 1
  <2>1. Len(acc.prior) < acc.attempts
    BY DEF Counted
  <2> QED
    BY <2>1, Counts
<1>2. l \in Seq(LedgerRow) /\ Len(l) = n
  <2>1. \A i \in 1..n : Metered(acc.prior[i], i) \in LedgerRow
    BY <1>1, Counts, RowTypes
  <2> QED
    BY <1>1, <2>1, IsASeq
<1>3. r \in Seq(LedgerRow) /\ Len(r) = k
  <2>1. \A i \in 1..k : Estimate(acc.attempts - i) \in LedgerRow
    BY <1>1, RowTypes
  <2> QED
    BY <1>1, <2>1, IsASeq
<1>4. Earlier = l \o r
  BY DEF Earlier
<1>5. \A i \in 1..n : l[i].metered = acc.prior[i]
  BY DEF Metered
<1>6. \A i \in 1..k : r[i].metered = 0
  BY DEF Estimate
<1> HIDE DEF n, k, l, r
<1>7. Earlier \in Seq(LedgerRow) /\ Len(Earlier) = acc.attempts - 1
  BY <1>1, <1>2, <1>3, <1>4, ConcatProperties
<1>8. \A i \in 1..n : Earlier[i].metered = acc.prior[i]
  BY <1>1, <1>2, <1>3, <1>4, <1>5, ConcatProperties
<1>9. \A i \in 1..Len(Earlier) : i > n => Earlier[i].metered = 0
  BY <1>1, <1>2, <1>3, <1>4, <1>6, <1>7, ConcatProperties
<1> QED
  BY <1>7, <1>8, <1>9 DEF n

\* Rows of which the first n name the tries p[1..n], and the last, if it is
\* there, the try u.
LEMMA Tally ==
  ASSUME NEW n \in Nat, NEW a \in Nat \ {0}, n < a, NEW u \in Nat,
         NEW p, \A i \in 1..n : p[i] \in Nat \ {0} /\ p[i] # u,
         \A i, j \in 1..n : p[i] = p[j] => i = j,
         NEW m \in (a - 1)..a, u # 0 => m = a,
         NEW f, \A i \in 1..m : f[i] = IF i <= n THEN p[i] ELSE IF i = a THEN u ELSE 0
  PROVE  /\ {f[i] : i \in 1..m} \ {0} = {p[i] : i \in 1..n} \cup ({u} \ {0})
         /\ \A i, j \in 1..m : f[i] = f[j] /\ f[i] # 0 => i = j
<1>1. ASSUME NEW v \in {p[i] : i \in 1..n} \cup ({u} \ {0})
      PROVE  v \in {f[i] : i \in 1..m} \ {0}
  <2>1. CASE v = u /\ u # 0
    <3>1. a \in 1..m /\ f[a] = u
      BY <2>1
    <3> QED
      BY <2>1, <3>1
  <2>2. CASE \E i \in 1..n : v = p[i]
    <3>1. PICK i \in 1..n : v = p[i]
      BY <2>2
    <3>2. i \in 1..m /\ f[i] = p[i] /\ p[i] # 0
      OBVIOUS
    <3> QED
      BY <3>1, <3>2
  <2> QED
    BY <2>1, <2>2
<1>2. ASSUME NEW v \in {f[i] : i \in 1..m} \ {0}
      PROVE  v \in {p[i] : i \in 1..n} \cup ({u} \ {0})
  <2>1. PICK i \in 1..m : v = f[i] /\ v # 0
    BY <1>2
  <2>2. CASE i <= n
    <3>1. i \in 1..n /\ v = p[i]
      BY <2>1, <2>2
    <3> QED
      BY <3>1
  <2>3. CASE ~(i <= n)
    <3>1. v = u
      BY <2>1, <2>3
    <3> QED
      BY <2>1, <3>1
  <2> QED
    BY <2>2, <2>3
<1>3. \A i, j \in 1..m : f[i] = f[j] /\ f[i] # 0 => i = j
  OBVIOUS
<1> QED
  BY <1>1, <1>2, <1>3

\* The rows of a first call: of every try that was billed, once.
LEMMA FirstRows ==
  ASSUME Typed, Counted, acc.attempts # 0,
         NEW last \in Seq(LedgerRow), Len(last) \in {0, 1},
         Len(last) = 1 => last[1].metered = acc.usage,
         acc.usage # 0 => Len(last) = 1
  PROVE  /\ Earlier \o last \in Seq(LedgerRow)
         /\ MeteredOf(Earlier \o last) = Seen /\ Once(Earlier \o last)
<1>1. /\ Len(acc.prior) \in Nat /\ acc.attempts \in Nat \ {0} /\ acc.usage \in Nat
      /\ \A i \in 1..Len(acc.prior) : acc.prior[i] \in Nat
  BY Counts
<1>2. \A i \in 1..Len(acc.prior) : acc.prior[i] # 0 /\ acc.prior[i] # acc.usage
  BY DEF Counted
<1>3. /\ \A i, j \in 1..Len(acc.prior) : acc.prior[i] = acc.prior[j] => i = j
      /\ Len(acc.prior) < acc.attempts
  BY DEF Counted
<1>4. /\ Earlier \in Seq(LedgerRow) /\ Len(Earlier) = acc.attempts - 1
      /\ \A i \in 1..Len(acc.prior) : Earlier[i].metered = acc.prior[i]
      /\ \A i \in 1..Len(Earlier) : i > Len(acc.prior) => Earlier[i].metered = 0
  BY EarlierRows
<1>5. \A i \in 1..Len(acc.prior) : acc.prior[i] \in Nat \ {0} /\ acc.prior[i] # acc.usage
  BY <1>1, <1>2
<1>0. PICK p : p = acc.prior
  OBVIOUS
<1>6. PICK e \in Seq(LedgerRow), n \in Nat, a \in Nat \ {0}, u \in Nat, k \in {0, 1} :
        /\ e = Earlier /\ n = Len(acc.prior) /\ a = acc.attempts /\ u = acc.usage
        /\ k = Len(last) /\ p = acc.prior
  BY <1>0, <1>1, <1>4
<1>7. n < a /\ Len(e) = a - 1 /\ Len(last) = k /\ (u # 0 => k = 1) /\ (k = 1 => last[1].metered = u)
  BY <1>3, <1>4, <1>6
<1>8. /\ \A i \in 1..n : p[i] \in Nat \ {0} /\ p[i] # u
      /\ \A i, j \in 1..n : p[i] = p[j] => i = j
      /\ \A i \in 1..n : e[i].metered = p[i]
      /\ \A i \in 1..Len(e) : i > n => e[i].metered = 0
  BY <1>3, <1>4, <1>5, <1>6
<1>9. Seen = {p[i] : i \in 1..n} \cup ({u} \ {0})
  BY <1>6 DEF Seen
<1> DEFINE lines == e \o last
           m == a - 1 + k
           f == [i \in 1..m |-> lines[i].metered]
<1>10. m \in (a - 1)..a /\ (u # 0 => m = a)
  BY <1>7
<1>11. /\ lines \in Seq(LedgerRow) /\ Len(lines) = m
      /\ \A i \in 1..m : lines[i] = IF i <= a - 1 THEN e[i] ELSE last[i - (a - 1)]
  <2>1. lines \in Seq(LedgerRow) /\ Len(lines) = Len(e) + Len(last)
    BY ConcatProperties
  <2>2. \A i \in 1..(Len(e) + Len(last)) :
          lines[i] = IF i <= Len(e) THEN e[i] ELSE last[i - Len(e)]
    BY ConcatProperties
  <2> HIDE DEF lines
  <2> QED
    BY <2>1, <2>2, <1>7
<1> HIDE DEF lines
<1>12. \A i \in 1..m :
        lines[i].metered = IF i <= n THEN p[i] ELSE IF i = a THEN u ELSE 0
  <2> SUFFICES ASSUME NEW i \in 1..m
               PROVE  lines[i].metered = IF i <= n THEN p[i] ELSE IF i = a THEN u ELSE 0
    OBVIOUS
  <2>1. CASE i <= n
    BY <2>1, <1>7, <1>8, <1>11
  <2>2. CASE i > n /\ i < a
    BY <2>2, <1>7, <1>8, <1>11
  <2>3. CASE i = a
    <3>1. k = 1 /\ lines[i] = last[1] /\ i > n
      BY <2>3, <1>7, <1>11
    <3> QED
      BY <2>3, <3>1, <1>7
  <2> QED
    BY <2>1, <2>2, <2>3
<1>13. \A i \in 1..m : f[i] = lines[i].metered
  OBVIOUS
<1> HIDE DEF f, m
<1>14. \A i \in 1..m : f[i] = IF i <= n THEN p[i] ELSE IF i = a THEN u ELSE 0
  BY <1>12, <1>13
<1>15. /\ {f[i] : i \in 1..m} \ {0} = {p[i] : i \in 1..n} \cup ({u} \ {0})
      /\ \A i, j \in 1..m : f[i] = f[j] /\ f[i] # 0 => i = j
  BY <1>7, <1>8, <1>10, <1>14, Tally
<1>16. MeteredOf(lines) = {p[i] : i \in 1..n} \cup ({u} \ {0})
  <2>1. MeteredOf(lines) = {lines[i].metered : i \in 1..m} \ {0}
    BY <1>11 DEF MeteredOf
  <2>2. {lines[i].metered : i \in 1..m} = {f[i] : i \in 1..m}
    BY <1>13
  <2> QED
    BY <2>1, <2>2, <1>15
<1>17. Once(lines)
  <2> SUFFICES ASSUME NEW i \in 1..Len(lines), NEW j \in 1..Len(lines),
                      lines[i].metered = lines[j].metered, lines[i].metered # 0
               PROVE  i = j
    BY DEF Once
  <2>1. i \in 1..m /\ j \in 1..m
    BY <1>11
  <2>2. f[i] = f[j] /\ f[i] # 0
    BY <1>13, <2>1
  <2> QED
    BY <1>15, <2>1, <2>2
<1> QED
  BY <1>6, <1>9, <1>11, <1>16, <1>17 DEF lines

\* A row more, of a try that has none.
LEMMA RowAdded ==
  ASSUME NEW lines \in Seq(LedgerRow), NEW line \in LedgerRow, Once(lines),
         line.metered # 0 => line.metered \notin MeteredOf(lines)
  PROVE  /\ lines \o <<line>> \in Seq(LedgerRow) /\ Once(lines \o <<line>>)
         /\ MeteredOf(lines \o <<line>>) = MeteredOf(lines) \cup ({line.metered} \ {0})
<1> DEFINE more == lines \o <<line>>
<1>1. /\ more \in Seq(LedgerRow) /\ Len(more) = Len(lines) + 1 /\ Len(lines) \in Nat
      /\ more[Len(lines) + 1] = line /\ \A i \in 1..Len(lines) : more[i] = lines[i]
  BY ConcatProperties
<1> HIDE DEF more
<1>2. Once(more)
  BY <1>1 DEF Once, MeteredOf
<1>3. MeteredOf(more) = MeteredOf(lines) \cup ({line.metered} \ {0})
  <2>1. 1..Len(more) = 1..Len(lines) \cup {Len(lines) + 1}
    BY <1>1
  <2>2. {more[i].metered : i \in 1..Len(more)}
          = {lines[i].metered : i \in 1..Len(lines)} \cup {line.metered}
    BY <1>1, <2>1
  <2> QED
    BY <2>2 DEF MeteredOf
<1> QED
  BY <1>1, <1>2, <1>3 DEF more

\* No rows name nothing.
LEMMA EmptyRows == <<>> \in Seq(LedgerRow) /\ Once(<<>>) /\ MeteredOf(<<>>) = {}
  BY DEF Once, MeteredOf

\* Rows are numbered from 1.
LEMMA RowsDomain == \A l \in Seq(LedgerRow) : DOMAIN l = 1..Len(l)
  BY LenProperties

\* The tries charged are those that the ledger's rows name.
LEMMA MeteredIs ==
  /\ ledger \in Seq(LedgerRow) => MeteredTries = MeteredOf(ledger)
  /\ ledger' \in Seq(LedgerRow) => MeteredTries' = MeteredOf(ledger')
  BY RowsDomain DEF MeteredTries, MeteredOf

\* What the tries are.
LEMMA TriesAre ==
  ASSUME Typed
  PROVE  /\ This \in Nat /\ DOMAIN tries = 1..This
         /\ \A i \in 1..This : tries[i].call \in Calls /\ tries[i].billed \in BOOLEAN
<1>1. tries \in Seq([call : Calls, billed : BOOLEAN])
  BY DEF Typed
<1>2. This \in Nat /\ DOMAIN tries = 1..This
  BY <1>1, LenProperties DEF This
<1>3. \A i \in 1..This : tries[i] \in [call : Calls, billed : BOOLEAN]
  BY <1>1, ElementOfSeq DEF This
<1> QED
  BY <1>2, <1>3

-----------------------------------------------------------------------------
(* The invariant through the actions.                                      *)

\* A dispatch begins with no try made and no row written.
LEMMA DispatchInvInit == DispatchInit => DispatchInv
<1> SUFFICES ASSUME DispatchInit PROVE DispatchInv
  OBVIOUS
<1>1. This = 0 /\ Len(acc.prior) = 0 /\ Len(ledger) = 0
  BY DEF DispatchInit, This
<1>2. MaxTries \in Nat
  BY DispatchAssumption
<1>3. Typed
  <2>1. acc.attempts \in Nat /\ acc.usage \in Nat /\ acc.prior \in Seq(Nat)
    BY DEF DispatchInit
  <2>2. ledger \in Seq(LedgerRow) /\ tries \in Seq([call : Calls, billed : BOOLEAN])
    BY DEF DispatchInit
  <2>3. call \in [name : Calls, tried : 0..MaxTries] /\ outputs \in [Paths -> Nat]
    BY <1>2 DEF DispatchInit, Calls
  <2>4. reply \in [try : Nat, usage : Nat, finish : Finishes, empty : BOOLEAN]
    BY DEF DispatchInit, NoReply, Finishes
  <2>5. /\ route \in {"api", "ide", "legacy"}
        /\ pc \in {"start", "call", "failed", "answered", "judge", "write", "audit", "done"}
    BY DEF DispatchInit
  <2> QED
    BY <1>2, <2>1, <2>2, <2>3, <2>4, <2>5 DEF Typed
<1>4. Counted
  BY <1>1 DEF DispatchInit, Counted
<1>5. Elsewhere
  BY DEF DispatchInit, Elsewhere, NoReply
<1>6. Charged
  <2>1. Billed("first") = {}
    BY DEF DispatchInit, Billed
  <2>2. Seen = {}
    BY <1>1 DEF Seen, DispatchInit
  <2> QED
    BY <1>1, <2>1, <2>2 DEF Charged, First, DispatchInit
<1>7. Replied
  BY <1>1 DEF DispatchInit, Replied, NoReply
<1>8. Landed
  BY DEF DispatchInit, Landed, WrittenOfOneReply
<1> QED
  BY <1>3, <1>4, <1>5, <1>6, <1>7, <1>8 DEF DispatchInv

\* What comes after the reply was judged: no try, and at most an estimate in
\* the ledger.
LEMMA AfterReply ==
  ASSUME DispatchInv, UNCHANGED <<route, acc, reply, tries>>,
         pc \in {"judge", "write", "audit"}, pc' \in {"call", "write", "audit", "done"},
         \/ call' = call
         \/ route = "api" /\ call' = [name |-> "raised", tried |-> 0] /\ pc = "judge",
         pc' = "call" => call' # call /\ outputs' = outputs,
         pc' = "write" => reply.finish \notin {"length", "content_filter"},
         ledger' = ledger \/ ledger' = ledger \o <<Estimate(1)>>,
         outputs' \in [Paths -> Nat], WrittenOfOneReply'
  PROVE  DispatchInv'
<1>1. Typed /\ Counted /\ Elsewhere /\ Charged /\ Replied /\ Landed
  BY DEF DispatchInv
<1>2. call'.name = call.name \/ (call'.name = "raised" /\ route = "api" /\ pc = "judge")
  OBVIOUS
<1>3. /\ ledger' \in Seq(LedgerRow) /\ Once(ledger') /\ MeteredOf(ledger') = MeteredOf(ledger)
  <2>1. ledger \in Seq(LedgerRow) /\ Once(ledger)
    BY <1>1 DEF Typed, Charged, Once
  <2>2. Estimate(1) \in LedgerRow /\ Estimate(1).metered = 0
    BY RowTypes
  <2>3. CASE ledger' = ledger
    BY <2>1, <2>3
  <2>4. CASE ledger' = ledger \o <<Estimate(1)>>
    <3> DEFINE line == Estimate(1)
    <3>1. line \in LedgerRow /\ line.metered = 0 /\ ledger' = ledger \o <<line>>
      BY <2>2, <2>4
    <3> HIDE DEF line
    <3>2. /\ ledger' \in Seq(LedgerRow) /\ Once(ledger')
          /\ MeteredOf(ledger') = MeteredOf(ledger) \cup ({line.metered} \ {0})
      BY <2>1, <3>1, RowAdded
    <3> QED
      BY <3>1, <3>2
  <2> QED
    BY <2>3, <2>4
<1>4. Typed'
  <2>1. MaxTries \in Nat
    BY <1>1 DEF Typed
  <2>2. call \in [name : Calls, tried : 0..MaxTries]
    BY <1>1 DEF Typed
  <2>3. call' \in [name : Calls, tried : 0..MaxTries]
    BY <2>1, <2>2 DEF Calls
  <2>4. pc' \in {"call", "write", "audit", "done"} /\ outputs' \in [Paths -> Nat]
    OBVIOUS
  <2> QED
    BY <1>1, <1>3, <2>3, <2>4 DEF Typed
<1>5. Counted'
  BY <1>1, <1>2 DEF Counted, This, Elsewhere
<1>6. Elsewhere'
  BY <1>1, <1>2 DEF Elsewhere
<1>7. MeteredTries' = MeteredTries
  BY <1>1, <1>3, MeteredIs DEF Typed
<1>8. Charged'
  <2>1. ~First /\ ~First'
    BY <1>2 DEF First
  <2>2. Billed("first")' = Billed("first")
    BY DEF Billed
  <2>3. \A i \in 1..Len(ledger') :
          ledger'[i].metered # 0 =>
            ledger'[i].metered \in 1..This' /\ tries'[ledger'[i].metered].billed
    <3>1. ASSUME NEW u \in MeteredOf(ledger) PROVE u \in 1..This /\ tries[u].billed
      BY <1>1 DEF MeteredOf, Charged
    <3>2. ASSUME NEW i \in 1..Len(ledger'), ledger'[i].metered # 0
          PROVE  ledger'[i].metered \in MeteredOf(ledger)
      BY <1>3, <3>2 DEF MeteredOf
    <3> QED
      BY <3>1, <3>2 DEF This
  <2> QED
    BY <1>1, <1>3, <1>7, <2>1, <2>2, <2>3 DEF Charged, Once
<1>9. Replied'
  BY <1>1, <1>7 DEF Replied, This
<1>10. Landed'
  BY <1>1 DEF Landed
<1> QED
  BY <1>4, <1>5, <1>6, <1>8, <1>9, <1>10 DEF DispatchInv

\* The reply is judged: it is not written when it is said to be cut or filtered.
LEMMA Judged ==
  ASSUME DispatchInv, Accepted \/ Filtered \/ Cut PROVE DispatchInv'
<1>1. outputs' = outputs /\ outputs \in [Paths -> Nat] /\ WrittenOfOneReply
  BY DEF DispatchInv, Typed, Landed, Accepted, Filtered, Cut
<1>2. UNCHANGED <<route, acc, reply, tries, ledger>> /\ pc = "judge"
  BY DEF Accepted, Filtered, Cut, Fail
<1>3. WrittenOfOneReply'
  BY <1>1, <1>2 DEF WrittenOfOneReply
<1>4. CASE Accepted
  BY <1>1, <1>2, <1>3, <1>4, AfterReply DEF Accepted, Acceptable
<1>5. CASE Filtered
  BY <1>1, <1>2, <1>3, <1>5, AfterReply DEF Filtered, Fail
<1>6. CASE Cut
  <2>1. CASE call.name # "raised" /\ raises
    <3>1. route = "api"
      BY <1>6, <2>1 DEF DispatchInv, Elsewhere, Cut
    <3>2. pc' = "call" /\ call' = [name |-> "raised", tried |-> 0] /\ call' # call
      BY <1>6, <2>1 DEF Cut, Call
    <3> QED
      BY <1>1, <1>2, <1>3, <3>1, <3>2, AfterReply
  <2>2. CASE ~(call.name # "raised" /\ raises)
    BY <1>1, <1>2, <1>3, <1>6, <2>2, AfterReply DEF Cut, Fail
  <2> QED
    BY <2>1, <2>2
<1> QED
  BY <1>4, <1>5, <1>6

\* What is written is of the reply at hand.
LEMMA WritesFiles ==
  ASSUME DispatchInv,
         WriteFile \/ RefuseFile \/ NothingWritten \/ AllWritten \/ Audit
  PROVE  DispatchInv'
<1>1. outputs \in [Paths -> Nat] /\ WrittenOfOneReply /\ reply.try \in Nat
  BY DEF DispatchInv, Typed, Landed
<1>2. /\ UNCHANGED <<route, acc, reply, tries, call>>
      /\ pc \in {"write", "audit"} /\ pc' \in {"write", "audit", "done"}
      /\ pc' = "write" => pc = "write"
      /\ ledger' = ledger \/ ledger' = ledger \o <<Estimate(1)>>
  BY DEF WriteFile, RefuseFile, NothingWritten, AllWritten, Audit, Fail, Ledger
<1>3. pc = "write" => reply.finish \notin {"length", "content_filter"}
  BY DEF DispatchInv, Landed
<1>4. outputs' \in [Paths -> Nat] /\ WrittenOfOneReply'
  <2>1. CASE outputs' = outputs
    BY <1>1, <1>2, <2>1 DEF WrittenOfOneReply
  <2>2. CASE WriteFile /\ outputs' = [outputs EXCEPT ![Head(todo)] = reply.try]
    <3>1. pc = "write"
      BY <2>2 DEF WriteFile
    <3>2. outputs' \in [Paths -> Nat]
      BY <1>1, <2>2
    <3>3. \A f \in Paths : outputs'[f] = outputs[f] \/ outputs'[f] = reply.try
      BY <1>1, <2>2
    <3> QED
      BY <1>1, <1>2, <1>3, <3>1, <3>2, <3>3 DEF WrittenOfOneReply
  <2> QED
    BY <2>1, <2>2 DEF WriteFile, RefuseFile, NothingWritten, AllWritten, Audit
<1> QED
  BY <1>2, <1>3, <1>4, AfterReply

\* The tries with one more, and what is known of the ledger then.
LEMMA OneMore ==
  ASSUME Typed, NEW t \in [call : Calls, billed : BOOLEAN], tries' = Append(tries, t)
  PROVE  /\ tries' \in Seq([call : Calls, billed : BOOLEAN])
         /\ This \in Nat /\ This' = This + 1 /\ tries'[This + 1] = t
         /\ \A i \in 1..This : tries'[i] = tries[i]
         /\ Billed("first")' = Billed("first") \cup
              (IF t.billed /\ t.call = "first" THEN {This + 1} ELSE {})
<1>1. tries \in Seq([call : Calls, billed : BOOLEAN])
  BY DEF Typed
<1>2. /\ tries' \in Seq([call : Calls, billed : BOOLEAN])
      /\ This \in Nat /\ This' = This + 1 /\ tries'[This + 1] = t
      /\ \A i \in 1..This : tries'[i] = tries[i]
  BY <1>1, AppendProperties, LenProperties DEF This
<1>3. DOMAIN tries = 1..This /\ DOMAIN tries' = 1..This \cup {This + 1}
  <2>1. DOMAIN tries = 1..This
    BY <1>1, LenProperties DEF This
  <2>2. DOMAIN tries' = 1..(This + 1)
    BY <1>2, LenProperties DEF This
  <2> QED
    BY <2>1, <2>2, <1>2
<1>4. Billed("first") = {i \in 1..This : tries[i].billed /\ tries[i].call = "first"}
  BY <1>3 DEF Billed
<1>5. Billed("first")' =
        {i \in 1..This \cup {This + 1} : tries'[i].billed /\ tries'[i].call = "first"}
  BY <1>3 DEF Billed
<1>6. \A i \in 1..This : i \in Billed("first")' <=> i \in Billed("first")
  BY <1>2, <1>4, <1>5
<1>7. This + 1 \in Billed("first")' <=> t.billed /\ t.call = "first"
  BY <1>2, <1>5
<1>8. /\ Billed("first") \subseteq 1..This
      /\ Billed("first")' \subseteq 1..This \cup {This + 1}
  BY <1>4, <1>5
<1> QED
  BY <1>2, <1>6, <1>7, <1>8

\* The counters of the first call and its resend after one more try.
LEMMA CountedMore ==
  ASSUME DispatchInv, NEW billed \in BOOLEAN, Try(billed), call.name # "raised"
  PROVE  /\ acc'.attempts \in Nat \ {0} /\ acc'.prior \in Seq(Nat)
         /\ acc'.usage = IF billed THEN This + 1 ELSE 0
         /\ \A i \in 1..Len(acc'.prior) : acc'.prior[i] \in 1..This
         /\ \A i, j \in 1..Len(acc'.prior) : acc'.prior[i] = acc'.prior[j] => i = j
         /\ Len(acc'.prior) < acc'.attempts
         /\ {acc'.prior[i] : i \in 1..Len(acc'.prior)} = Seen
<1>1. /\ acc.attempts \in Nat /\ acc.usage \in Nat /\ acc.prior \in Seq(Nat)
      /\ Len(acc.prior) \in Nat
  BY Counts DEF DispatchInv
<1>2. /\ acc.usage \in 0..This
      /\ \A i \in 1..Len(acc.prior) : acc.prior[i] \in 1..This /\ acc.prior[i] # acc.usage
  BY DEF DispatchInv, Counted
<1>3. \A i, j \in 1..Len(acc.prior) : acc.prior[i] = acc.prior[j] => i = j
  BY DEF DispatchInv, Counted
<1>4. Len(acc.prior) < acc.attempts \/ (acc.prior = <<>> /\ acc.attempts = 0 /\ acc.usage = 0)
  BY DEF DispatchInv, Counted
<1>5. /\ acc'.attempts = acc.attempts + 1
      /\ acc'.prior = IF acc.usage = 0 THEN acc.prior ELSE Append(acc.prior, acc.usage)
      /\ acc'.usage = IF billed THEN This + 1 ELSE 0
  BY DEF Try, Begun
<1>6. CASE acc.usage = 0
  <2>1. acc'.prior = acc.prior
    BY <1>5, <1>6
  <2>2. Len(acc.prior) < acc.attempts + 1
    BY <1>1, <1>4
  <2>3. Seen = {acc.prior[i] : i \in 1..Len(acc.prior)}
    BY <1>6 DEF Seen
  <2>4. acc'.attempts \in Nat \ {0} /\ Len(acc'.prior) < acc'.attempts
    <3>1. acc'.attempts = acc.attempts + 1 /\ acc.attempts + 1 \in Nat \ {0}
      BY <1>1, <1>5
    <3> QED
      BY <2>1, <2>2, <3>1
  <2>5. /\ \A i \in 1..Len(acc'.prior) : acc'.prior[i] \in 1..This
        /\ \A i, j \in 1..Len(acc'.prior) : acc'.prior[i] = acc'.prior[j] => i = j
    BY <1>2, <1>3, <2>1
  <2>6. acc'.prior \in Seq(Nat) /\ {acc'.prior[i] : i \in 1..Len(acc'.prior)} = Seen
    BY <1>1, <2>1, <2>3
  <2> QED
    BY <1>5, <2>4, <2>5, <2>6
<1>7. CASE acc.usage # 0
  <2> DEFINE n == Len(acc.prior)
             q == Append(acc.prior, acc.usage)
  <2>1. acc'.prior = q /\ n < acc.attempts
    BY <1>4, <1>5, <1>7
  <2>2. /\ q \in Seq(Nat) /\ Len(q) = n + 1 /\ q[n + 1] = acc.usage
        /\ \A i \in 1..n : q[i] = acc.prior[i]
    BY <1>1, AppendProperties
  <2>3. n \in Nat
    BY <1>1
  <2>4. acc.usage \in 1..This
    BY <1>1, <1>2, <1>7
  <2> HIDE DEF n, q
  <2>5. 1..Len(q) = 1..n \cup {n + 1}
    BY <2>2, <2>3
  <2>6. \A i \in 1..n : acc.prior[i] \in 1..This /\ acc.prior[i] # acc.usage
    BY <1>2 DEF n
  <2>7. \A i, j \in 1..n : acc.prior[i] = acc.prior[j] => i = j
    BY <1>3 DEF n
  <2>8. \A i \in 1..Len(q) : q[i] \in 1..This
    BY <2>2, <2>4, <2>5, <2>6
  <2>9. \A i, j \in 1..Len(q) : q[i] = q[j] => i = j
    BY <2>2, <2>5, <2>6, <2>7
  <2>10. {q[i] : i \in 1..Len(q)} = {acc.prior[i] : i \in 1..n} \cup {acc.usage}
    BY <2>2, <2>5
  <2>11. Seen = {acc.prior[i] : i \in 1..n} \cup {acc.usage}
    BY <1>7 DEF Seen, n
  <2>12. Len(q) < acc.attempts + 1
    BY <1>1, <2>1, <2>2, <2>3
  <2>13. acc'.attempts \in Nat \ {0} /\ Len(acc'.prior) < acc'.attempts
    <3>1. acc'.attempts = acc.attempts + 1 /\ acc.attempts + 1 \in Nat \ {0}
      BY <1>1, <1>5
    <3> QED
      BY <2>1, <2>12, <3>1
  <2>14. /\ \A i \in 1..Len(acc'.prior) : acc'.prior[i] \in 1..This
         /\ \A i, j \in 1..Len(acc'.prior) : acc'.prior[i] = acc'.prior[j] => i = j
    BY <2>1, <2>8, <2>9
  <2>15. acc'.prior \in Seq(Nat) /\ {acc'.prior[i] : i \in 1..Len(acc'.prior)} = Seen
    BY <2>1, <2>2, <2>10, <2>11
  <2> QED
    BY <1>5, <2>13, <2>14, <2>15
<1> QED
  BY <1>6, <1>7

\* A try, however it ends, is in the counters unless it is of the raised call.
LEMMA Tried ==
  ASSUME DispatchInv, NEW billed \in BOOLEAN, Try(billed),
         call' \in [name : Calls, tried : 0..MaxTries], call'.name = call.name,
         reply' \in [try : Nat, usage : Nat, finish : Finishes, empty : BOOLEAN],
         pc' \in {"call", "failed", "answered"},
         IF pc' = "answered"
           THEN reply'.try = This + 1 /\ reply'.usage = (IF billed THEN This + 1 ELSE 0)
           ELSE reply' = reply
  PROVE  DispatchInv'
<1>1. Typed /\ Counted /\ Elsewhere /\ Charged /\ Replied /\ Landed
  BY DEF DispatchInv
<1>2. pc = "call" /\ route = "api" /\ UNCHANGED <<route, ledger, outputs>>
  BY DEF Try
<1>3. PICK t \in [call : Calls, billed : BOOLEAN] :
        t.call = call.name /\ t.billed = billed /\ tries' = Append(tries, t)
  BY <1>1 DEF Try, Typed
<1>4. /\ tries' \in Seq([call : Calls, billed : BOOLEAN])
      /\ This \in Nat /\ This' = This + 1 /\ tries'[This + 1] = t
      /\ \A i \in 1..This : tries'[i] = tries[i]
      /\ Billed("first")' = Billed("first") \cup
           (IF billed /\ call.name = "first" THEN {This + 1} ELSE {})
  BY <1>1, <1>3, OneMore
<1>5. /\ acc'.attempts \in Nat \ {0} /\ acc'.usage \in Nat /\ acc'.prior \in Seq(Nat)
      /\ acc'.usage \in 0..This'
      /\ \A i \in 1..Len(acc'.prior) : acc'.prior[i] \in 1..This' /\ acc'.prior[i] # acc'.usage
      /\ \A i, j \in 1..Len(acc'.prior) : acc'.prior[i] = acc'.prior[j] => i = j
      /\ Len(acc'.prior) < acc'.attempts
  <2>1. CASE call.name = "raised"
    <3>0. acc' = acc
      BY <2>1 DEF Try
    <3>1. /\ acc.attempts \in Nat /\ acc.usage \in 0..This /\ acc.prior \in Seq(Nat)
          /\ acc.attempts # 0
      BY <1>1, <2>1 DEF Typed, Counted
    <3>2. \A i \in 1..Len(acc.prior) : acc.prior[i] \in 1..This /\ acc.prior[i] # acc.usage
      BY <1>1 DEF Counted
    <3>3. /\ \A i, j \in 1..Len(acc.prior) : acc.prior[i] = acc.prior[j] => i = j
          /\ Len(acc.prior) < acc.attempts
      BY <1>1, <3>1 DEF Counted
    <3>4. acc.usage \in 0..(This + 1) /\ 1..This \subseteq 1..(This + 1)
      BY <1>4, <3>1
    <3>5. acc.usage \in Nat /\ acc.attempts \in Nat \ {0}
      BY <1>4, <3>1
    <3> QED
      BY <1>4, <3>0, <3>1, <3>2, <3>3, <3>4, <3>5
  <2>2. CASE call.name # "raised"
    <3>1. /\ acc'.attempts \in Nat \ {0} /\ acc'.prior \in Seq(Nat)
          /\ acc'.usage = IF billed THEN This + 1 ELSE 0
          /\ \A i \in 1..Len(acc'.prior) : acc'.prior[i] \in 1..This
          /\ \A i, j \in 1..Len(acc'.prior) : acc'.prior[i] = acc'.prior[j] => i = j
          /\ Len(acc'.prior) < acc'.attempts
      BY <2>2, CountedMore
    <3>2. acc'.usage \in {0, This + 1} /\ acc'.usage \in 0..(This + 1) /\ acc'.usage \in Nat
      BY <1>4, <3>1
    <3>3. \A i \in 1..Len(acc'.prior) :
            acc'.prior[i] \in 1..(This + 1) /\ acc'.prior[i] # acc'.usage
      BY <1>4, <3>1, <3>2
    <3> QED
      BY <1>4, <3>1, <3>2, <3>3
  <2> QED
    BY <2>1, <2>2
<1>6. Typed'
  BY <1>1, <1>2, <1>4, <1>5 DEF Typed
<1>7. Counted'
  <2>1. acc'.attempts # 0
    BY <1>5
  <2> QED
    BY <1>2, <1>5, <2>1 DEF Counted
<1>8. Elsewhere'
  BY <1>1, <1>2 DEF Elsewhere
<1>9. MeteredTries' = MeteredTries
  BY <1>2 DEF MeteredTries
<1>10. \A i \in 1..Len(ledger') :
         ledger'[i].metered # 0 =>
           ledger'[i].metered \in 1..This' /\ tries'[ledger'[i].metered].billed
  <2> SUFFICES ASSUME NEW i \in 1..Len(ledger), ledger[i].metered # 0
               PROVE  ledger[i].metered \in 1..This' /\ tries'[ledger[i].metered].billed
    BY <1>2
  <2>1. ledger[i].metered \in 1..This /\ tries[ledger[i].metered].billed
    BY <1>1 DEF Charged
  <2> QED
    BY <1>4, <2>1
<1>11. Charged'
  <2>1. \A i, j \in 1..Len(ledger') :
          ledger'[i].metered = ledger'[j].metered /\ ledger'[i].metered # 0 => i = j
    BY <1>1, <1>2 DEF Charged
  <2>2. CASE call.name = "first"
    <3>1. First /\ First'
      BY <1>2, <2>2 DEF First
    <3>2. ledger' = <<>> /\ Billed("first") = Seen
      BY <1>1, <1>2, <3>1 DEF Charged
    <3>3. /\ acc'.usage = IF billed THEN This + 1 ELSE 0
          /\ {acc'.prior[i] : i \in 1..Len(acc'.prior)} = Seen
      BY <2>2, CountedMore
    <3>4. This + 1 # 0
      BY <1>4
    <3>5. Billed("first")' = Seen'
      BY <1>4, <2>2, <3>2, <3>3, <3>4 DEF Seen
    <3> QED
      BY <1>10, <2>1, <3>1, <3>2, <3>5 DEF Charged
  <2>3. CASE call.name # "first"
    <3>1. ~First /\ ~First'
      BY <2>3 DEF First
    <3>2. Billed("first") \subseteq MeteredTries
      BY <1>1, <3>1 DEF Charged
    <3>3. Billed("first")' = Billed("first")
      BY <1>4, <2>3
    <3> QED
      BY <1>9, <1>10, <2>1, <3>1, <3>2, <3>3 DEF Charged
  <2> QED
    BY <2>2, <2>3
<1>12. Replied'
  <2>1. CASE pc' = "answered"
    <3>1. reply'.try = This' /\ This' # 0 /\ reply'.usage = (IF billed THEN This' ELSE 0)
      BY <1>4, <2>1
    <3>2. reply'.usage # 0 => tries'[This'].billed
      BY <1>3, <1>4, <3>1
    <3>3. call.name = "first" => acc'.usage = reply'.usage
      BY <1>4, <3>1, CountedMore
    <3>4. This' \notin MeteredTries
      <4>1. MeteredTries = MeteredOf(ledger)
        BY <1>1, MeteredIs DEF Typed
      <4>2. \A u \in MeteredOf(ledger) : u \in 1..This
        BY <1>1 DEF Charged, MeteredOf
      <4> QED
        BY <1>4, <4>1, <4>2
    <3>5. reply'.try \in 0..This' /\ reply'.usage \in {0, reply'.try}
      BY <1>4, <3>1
    <3> QED
      BY <1>9, <2>1, <3>1, <3>2, <3>3, <3>4, <3>5 DEF Replied
  <2>2. CASE pc' # "answered"
    <3>1. reply' = reply /\ reply.try \in 0..This' /\ reply.usage \in {0, reply.try}
      BY <1>1, <1>4, <2>2 DEF Replied
    <3> QED
      BY <1>1, <1>2, <1>9, <2>2, <3>1 DEF Replied
  <2> QED
    BY <2>1, <2>2
<1>13. Landed'
  BY <1>1, <1>2 DEF Landed, WrittenOfOneReply
<1> QED
  BY <1>6, <1>7, <1>8, <1>11, <1>12, <1>13 DEF DispatchInv

\* The three ways in which a try ends.
LEMMA TriesInv ==
  ASSUME DispatchInv, Answers \/ BreaksTransiently \/ BreaksForGood PROVE DispatchInv'
<1>1. /\ call \in [name : Calls, tried : 0..MaxTries] /\ MaxTries \in Nat /\ This \in Nat
      /\ reply \in [try : Nat, usage : Nat, finish : Finishes, empty : BOOLEAN]
  BY TriesAre DEF DispatchInv, Typed
<1>2. CASE Answers
  <2>1. PICK billed \in BOOLEAN, empty \in BOOLEAN, finish \in Finishes :
          /\ Try(billed)
          /\ reply' = [try |-> This + 1, usage |-> IF billed THEN This + 1 ELSE 0,
                       finish |-> finish, empty |-> empty]
          /\ pc' = "answered" /\ UNCHANGED call
    BY <1>2 DEF Answers
  <2>2. reply' \in [try : Nat, usage : Nat, finish : Finishes, empty : BOOLEAN]
    BY <1>1, <2>1
  <2>3. reply'.try = This + 1 /\ reply'.usage = (IF billed THEN This + 1 ELSE 0)
    BY <2>1
  <2> QED
    BY <1>1, <2>1, <2>2, <2>3, Tried
<1>3. CASE BreaksTransiently
  <2>1. PICK billed \in BOOLEAN :
          /\ Try(billed) /\ call' = [call EXCEPT !.tried = @ + 1] /\ UNCHANGED reply
          /\ pc' \in {"failed", "call"}
    BY <1>3 DEF BreaksTransiently
  <2>2. call.tried < MaxTries
    BY <2>1 DEF Try
  <2>3. call' \in [name : Calls, tried : 0..MaxTries] /\ call'.name = call.name
    BY <1>1, <2>1, <2>2
  <2> QED
    BY <1>1, <2>1, <2>3, Tried
<1>4. CASE BreaksForGood
  <2>1. PICK billed \in BOOLEAN : Try(billed) /\ pc' = "failed" /\ UNCHANGED <<call, reply>>
    BY <1>4 DEF BreaksForGood
  <2> QED
    BY <1>1, <2>1, Tried
<1> QED
  BY <1>2, <1>3, <1>4

\* The first call begins, or the prompt cannot be built.
LEMMA BuildPromptInv == ASSUME DispatchInv, BuildPrompt PROVE DispatchInv'
<1>1. Typed /\ Counted /\ Elsewhere /\ Charged /\ Replied /\ Landed
  BY DEF DispatchInv
<1>2. /\ pc = "start" /\ tries = <<>> /\ call.name = "first" /\ call'.name = "first"
      /\ call' \in [name : Calls, tried : 0..MaxTries] /\ pc' \in {"call", "audit"}
      /\ UNCHANGED <<route, acc, reply, raises, ledger, outputs, todo, trace, tries>>
  <2>1. MaxTries \in Nat
    BY <1>1 DEF Typed
  <2> QED
    BY <1>1, <2>1 DEF BuildPrompt, Call, Fail, Typed, Elsewhere, Calls
<1>3. Typed'
  BY <1>1, <1>2 DEF Typed
<1>4. Counted' /\ Elsewhere' /\ Landed'
  BY <1>1, <1>2 DEF Counted, This, Elsewhere, Landed, WrittenOfOneReply
<1>5. MeteredTries' = MeteredTries /\ Billed("first")' = Billed("first") /\ Seen' = Seen
  BY <1>2 DEF MeteredTries, Billed, Seen
<1>6. Billed("first") = {}
  BY <1>2 DEF Billed
<1>7. Charged'
  <2>1. First
    BY <1>2 DEF First
  <2> QED
    BY <1>1, <1>2, <1>5, <1>6, <2>1 DEF Charged, This
<1>8. Replied'
  BY <1>1, <1>2, <1>5 DEF Replied, This
<1> QED
  BY <1>3, <1>4, <1>7, <1>8 DEF DispatchInv

\* The first call is over, and the ledger is given its rows.
LEMMA FirstEnds ==
  ASSUME DispatchInv, First, pc \in {"failed", "answered"},
         NEW last \in Seq(LedgerRow), Len(last) \in {0, 1},
         Len(last) = 1 => last[1].metered = acc.usage,
         acc.usage # 0 => Len(last) = 1,
         ledger' = ledger \o (Earlier \o last),
         call' \in [name : Calls, tried : 0..MaxTries], pc' \in {"audit", "call", "judge"},
         pc' = "call" => call'.name # "first", pc' = "audit" => pc = "failed",
         UNCHANGED <<route, acc, reply, outputs, tries>>
  PROVE  DispatchInv'
<1>1. Typed /\ Counted /\ Elsewhere /\ Charged /\ Replied /\ Landed
  BY DEF DispatchInv
<1>2. /\ route = "api" /\ acc.attempts # 0 /\ ledger = <<>> /\ Billed("first") = Seen
      /\ ~First' /\ call.name = "first"
  BY <1>1 DEF Elsewhere, Counted, Charged, First
<1>3. /\ Earlier \o last \in Seq(LedgerRow)
      /\ MeteredOf(Earlier \o last) = Seen /\ Once(Earlier \o last)
  BY <1>1, <1>2, FirstRows
<1>4. ledger' \in Seq(LedgerRow) /\ MeteredOf(ledger') = Seen /\ Once(ledger')
  <2>1. ledger' = Earlier \o last
    BY <1>2, <1>3, ConcatEmptySeq
  <2> QED
    BY <1>3, <2>1
<1>5. Typed'
  BY <1>1, <1>4 DEF Typed
<1>6. Counted' /\ Elsewhere' /\ Landed'
  BY <1>1, <1>2 DEF Counted, This, Elsewhere, Landed, WrittenOfOneReply
<1>7. MeteredTries' = Billed("first") /\ Billed("first")' = Billed("first")
  BY <1>2, <1>4, MeteredIs DEF Billed
<1>8. \A u \in Billed("first") : u \in 1..This /\ tries[u].billed
  BY <1>1, TriesAre DEF Billed
<1>9. Charged'
  <2>1. \A i \in 1..Len(ledger') :
          ledger'[i].metered # 0 =>
            ledger'[i].metered \in 1..This' /\ tries'[ledger'[i].metered].billed
    <3> SUFFICES ASSUME NEW i \in 1..Len(ledger'), ledger'[i].metered # 0
                 PROVE  ledger'[i].metered \in 1..This' /\ tries'[ledger'[i].metered].billed
      OBVIOUS
    <3>1. ledger'[i].metered \in Billed("first")
      BY <1>2, <1>4 DEF MeteredOf
    <3> QED
      BY <1>8, <3>1 DEF This
  <2> QED
    BY <1>2, <1>4, <1>7, <2>1 DEF Charged, Once
<1>10. Replied'
  <2>1. reply.usage # 0 => reply.usage \in Billed("first")
    <3>1. MeteredTries = {}
      BY <1>2 DEF MeteredTries
    <3>2. CASE pc = "answered"
      <4>1. acc.usage = reply.usage
        BY <1>1, <1>2, <3>2 DEF Replied
      <4> QED
        BY <1>2, <4>1 DEF Seen
    <3>3. CASE pc # "answered"
      BY <1>1, <3>1, <3>3 DEF Replied
    <3> QED
      BY <3>2, <3>3
  <2> QED
    BY <1>1, <1>7, <2>1 DEF Replied, This
<1> QED
  BY <1>5, <1>6, <1>9, <1>10 DEF DispatchInv

\* A call that failed: the first is charged with all it was billed.
LEMMA CallFailsInv == ASSUME DispatchInv, CallFails PROVE DispatchInv'
<1>1. Typed /\ Counted /\ Elsewhere /\ Charged /\ Replied /\ Landed
  BY DEF DispatchInv
<1>2. /\ pc = "failed" /\ pc' = "audit" /\ UNCHANGED <<route, call, acc, reply, outputs, tries>>
      /\ acc.attempts # 0
  BY <1>1 DEF CallFails, Fail, Counted
<1>3. CASE call.name = "first"
  <2> DEFINE last == <<IF acc.usage = 0 THEN Estimate(acc.attempts)
                       ELSE Metered(acc.usage, acc.attempts)>>
  <2>1. ledger' = ledger \o (Earlier \o last)
    BY <1>3 DEF CallFails, Ledger
  <2>2. last \in Seq(LedgerRow) /\ Len(last) = 1 /\ last[1].metered = acc.usage
    <3>1. acc.attempts \in Nat \ {0} /\ acc.usage \in Nat
      BY <1>1, <1>2, Counts
    <3>2. Estimate(acc.attempts) \in LedgerRow /\ Estimate(acc.attempts).metered = 0
      BY <3>1, RowTypes
    <3>3. /\ Metered(acc.usage, acc.attempts) \in LedgerRow
          /\ Metered(acc.usage, acc.attempts).metered = acc.usage
      BY <3>1, RowTypes
    <3> QED
      BY <3>2, <3>3
  <2>3. First /\ call' \in [name : Calls, tried : 0..MaxTries]
    BY <1>1, <1>2, <1>3 DEF First, Typed
  <2> HIDE DEF last
  <2> QED
    BY <1>2, <2>1, <2>2, <2>3, FirstEnds
<1>4. CASE call.name # "first"
  <2>1. ledger' = ledger
    BY <1>4 DEF CallFails
  <2>2. /\ MeteredTries' = MeteredTries /\ Billed("first")' = Billed("first")
        /\ ~First /\ ~First'
    BY <1>2, <1>4, <2>1 DEF MeteredTries, Billed, First
  <2>3. Typed' /\ Counted' /\ Elsewhere' /\ Landed'
    BY <1>1, <1>2, <2>1 DEF Typed, Counted, This, Elsewhere, Landed, WrittenOfOneReply
  <2>4. Charged' /\ Replied'
    BY <1>1, <1>2, <2>1, <2>2 DEF Charged, Replied, This
  <2> QED
    BY <2>3, <2>4 DEF DispatchInv
<1> QED
  BY <1>3, <1>4

\* A call that was answered is charged, and so are the tries before it.
LEMMA AnsweredInv == ASSUME DispatchInv, CallAnswered PROVE DispatchInv'
<1>1. Typed /\ Counted /\ Elsewhere /\ Charged /\ Replied /\ Landed
  BY DEF DispatchInv
<1>2. /\ pc = "answered" /\ pc' \in {"call", "judge"}
      /\ pc' = "call" => call.name = "first" /\ call'.name = "resend"
      /\ pc' = "judge" => call' = call
      /\ UNCHANGED <<route, acc, reply, outputs, tries>> /\ ledger' = ledger \o LedgerRows
      /\ acc.attempts # 0
  BY <1>1 DEF CallAnswered, SendAgain, Call, Ledger, Counted
<1>3. call' \in [name : Calls, tried : 0..MaxTries]
  <2>1. MaxTries \in Nat
    BY <1>1 DEF Typed
  <2> QED
    BY <1>1, <2>1 DEF CallAnswered, Call, Calls, Typed
<1>4. /\ acc.attempts \in Nat \ {0} /\ acc.usage \in Nat /\ reply.usage \in Nat
      /\ reply.usage \in {0, This} /\ This \in Nat
  BY <1>1, <1>2, Counts, TriesAre DEF Typed, Replied
<1>5. CASE call.name = "first"
  <2> DEFINE last == IF reply.usage = 0 THEN <<>> ELSE <<Metered(reply.usage, acc.attempts)>>
  <2>1. ledger' = ledger \o (Earlier \o last)
    BY <1>2, <1>5 DEF LedgerRows
  <2>2. acc.usage = reply.usage
    BY <1>1, <1>2, <1>5 DEF Replied
  <2>3. /\ last \in Seq(LedgerRow) /\ Len(last) \in {0, 1}
        /\ Len(last) = 1 => last[1].metered = acc.usage
        /\ acc.usage # 0 => Len(last) = 1
    <3>1. CASE reply.usage = 0
      BY <2>2, <3>1
    <3>2. CASE reply.usage # 0
      <4>1. Metered(reply.usage, acc.attempts) \in LedgerRow
            /\ Metered(reply.usage, acc.attempts).metered = reply.usage
        BY <1>4, RowTypes
      <4> QED
        BY <2>2, <3>2, <4>1
    <3> QED
      BY <3>1, <3>2
  <2>4. First /\ pc' = "call" => call'.name # "first"
    BY <1>2
  <2>5. First
    BY <1>2, <1>5 DEF First
  <2> HIDE DEF last
  <2> QED
    BY <1>2, <1>3, <2>1, <2>3, <2>4, <2>5, FirstEnds
<1>6. CASE call.name # "first"
  <2>1. pc' = "judge" /\ call' = call /\ ~First /\ ~First'
    BY <1>2, <1>6 DEF First
  <2>2. LedgerRows = IF reply.usage = 0 THEN <<>>
               ELSE <<Metered(reply.usage, IF call.name = "raised" THEN 1 ELSE acc.attempts)>>
    <3>1. CASE reply.usage = 0
      BY <1>6, <3>1 DEF LedgerRows
    <3>2. CASE reply.usage # 0
      <4> DEFINE x == <<Metered(reply.usage, IF call.name = "raised" THEN 1 ELSE acc.attempts)>>
      <4>1. x \in Seq(LedgerRow)
        BY <1>4, RowTypes
      <4>2. LedgerRows = <<>> \o x
        BY <1>6, <3>2 DEF LedgerRows
      <4> HIDE DEF x
      <4>3. LedgerRows = x
        BY <4>1, <4>2, ConcatEmptySeq
      <4> QED
        BY <3>2, <4>3 DEF x
    <3> QED
      BY <3>1, <3>2
  <2>3. /\ ledger' \in Seq(LedgerRow) /\ Once(ledger')
        /\ MeteredOf(ledger') = MeteredOf(ledger) \cup ({reply.usage} \ {0})
    <3>1. ledger \in Seq(LedgerRow) /\ Once(ledger) /\ This \notin MeteredOf(ledger)
      BY <1>1, <1>2, <1>6, MeteredIs DEF Typed, Charged, Once, Replied
    <3>2. CASE reply.usage = 0
      <4>1. ledger' = ledger
        BY <1>2, <2>2, <3>1, <3>2, ConcatEmptySeq
      <4> QED
        BY <3>1, <3>2, <4>1
    <3>3. CASE reply.usage # 0
      <4> DEFINE line == Metered(reply.usage, IF call.name = "raised" THEN 1 ELSE acc.attempts)
      <4>1. line \in LedgerRow /\ line.metered = reply.usage
        BY <1>4, RowTypes
      <4>2. ledger' = ledger \o <<line>>
        BY <1>2, <2>2, <3>3
      <4>3. line.metered \notin MeteredOf(ledger)
        BY <1>4, <3>1, <3>3, <4>1
      <4> HIDE DEF line
      <4> QED
        BY <3>1, <4>1, <4>2, <4>3, RowAdded
    <3> QED
      BY <3>2, <3>3
  <2>4. /\ MeteredTries' = MeteredTries \cup ({reply.usage} \ {0})
        /\ Billed("first")' = Billed("first")
    BY <1>1, <1>2, <2>3, MeteredIs DEF Typed, Billed
  <2>5. Typed'
    BY <1>1, <1>2, <1>3, <2>1, <2>3 DEF Typed
  <2>6. Counted' /\ Elsewhere' /\ Landed'
    BY <1>1, <1>2, <2>1 DEF Counted, This, Elsewhere, Landed, WrittenOfOneReply
  <2>7. Charged'
    <3>1. \A u \in MeteredOf(ledger') : u \in 1..This /\ tries[u].billed
      <4>1. \A u \in MeteredOf(ledger) : u \in 1..This /\ tries[u].billed
        BY <1>1 DEF Charged, MeteredOf
      <4>2. reply.usage # 0 => reply.usage \in 1..This /\ tries[reply.usage].billed
        BY <1>1, <1>2, <1>4 DEF Replied
      <4> QED
        BY <2>3, <4>1, <4>2
    <3>2. \A i \in 1..Len(ledger') :
            ledger'[i].metered # 0 =>
              ledger'[i].metered \in 1..This' /\ tries'[ledger'[i].metered].billed
      BY <1>2, <3>1 DEF MeteredOf, This
    <3> QED
      BY <1>1, <2>1, <2>3, <2>4, <3>2 DEF Charged, Once
  <2>8. Replied'
    BY <1>1, <1>2, <2>1, <2>4 DEF Replied, This
  <2> QED
    BY <2>5, <2>6, <2>7, <2>8 DEF DispatchInv
<1> QED
  BY <1>5, <1>6

\* The other routes: one try, billed by nobody.
LEMMA ElsewhereInv == ASSUME DispatchInv, AgentReturns \/ LegacyReturns PROVE DispatchInv'
<1>1. Typed /\ Counted /\ Elsewhere /\ Charged /\ Replied /\ Landed
  BY DEF DispatchInv
<1>2. /\ pc = "call" /\ route # "api" /\ pc' \in {"judge", "audit", "done"}
      /\ UNCHANGED <<route, call, acc>>
      /\ tries = <<>> /\ ledger = <<>> /\ call.name = "first"
      /\ tries' = <<[call |-> "first", billed |-> FALSE]>>
      /\ \/ reply' = reply
         \/ \E empty \in BOOLEAN : reply' = [NoReply EXCEPT !.try = 1, !.empty = empty]
      /\ ledger' = <<>> \/ ledger' = <<>> \o <<Estimate(1)>>
      /\ outputs' \in [Paths -> Nat] /\ (route # "legacy" => outputs' = outputs)
      /\ pc' # "done" => outputs' = outputs
  <2>1. CASE AgentReturns
    BY <1>1, <2>1 DEF AgentReturns, Fail, Elsewhere, Typed
  <2>2. CASE LegacyReturns
    <3>1. tries = <<>> /\ ledger = <<>> /\ call.name = "first"
      BY <1>1, <2>2 DEF LegacyReturns, Elsewhere
    <3>2. outputs' \in [Paths -> Nat]
      BY <2>2 DEF LegacyReturns
    <3>3. ledger' = <<>> \/ ledger' = <<>> \o <<Estimate(1)>>
      BY <2>2, <3>1 DEF LegacyReturns, Ledger
    <3> QED
      BY <2>2, <3>1, <3>2, <3>3 DEF LegacyReturns
  <2> QED
    BY <2>1, <2>2
<1>3. /\ This = 0 /\ This' = 1 /\ tries' \in Seq([call : Calls, billed : BOOLEAN])
      /\ DOMAIN tries' = {1} /\ tries'[1].billed = FALSE
  <2>1. tries = <<>> /\ tries' = <<[call |-> "first", billed |-> FALSE]>>
    BY <1>2
  <2>2. This = 0 /\ This' = 1
    BY <2>1 DEF This
  <2>3. [call |-> "first", billed |-> FALSE] \in [call : Calls, billed : BOOLEAN]
    BY DEF Calls
  <2>4. tries' \in Seq([call : Calls, billed : BOOLEAN])
    BY <2>1, <2>3
  <2>5. DOMAIN tries' = {1} /\ tries'[1].billed = FALSE
    BY <2>1
  <2> QED
    BY <2>2, <2>4, <2>5
<1>4. /\ ledger' \in Seq(LedgerRow) /\ Once(ledger') /\ MeteredOf(ledger') = {}
  <2>1. Estimate(1) \in LedgerRow /\ Estimate(1).metered = 0
    BY RowTypes
  <2> QED
    BY <1>2, <2>1, EmptyRows, RowAdded
<1>5. /\ reply' \in [try : Nat, usage : Nat, finish : Finishes, empty : BOOLEAN]
      /\ reply'.finish = "stop" /\ reply'.usage = 0 /\ reply'.try \in 0..1
  <2>1. reply.try = 0 /\ reply.usage = 0 /\ reply.finish = "stop"
    <3>1. reply.try \in 0..This /\ reply.usage \in {0, reply.try}
      BY <1>1 DEF Replied
    <3>2. reply.finish = "stop" /\ This = 0
      BY <1>1, <1>2, <1>3 DEF Elsewhere
    <3> QED
      BY <3>1, <3>2
  <2>2. CASE reply' = reply
    BY <1>1, <2>1, <2>2 DEF Typed
  <2>3. CASE \E empty \in BOOLEAN : reply' = [NoReply EXCEPT !.try = 1, !.empty = empty]
    <3>1. PICK empty \in BOOLEAN :
            reply' = [try |-> 1, usage |-> 0, finish |-> "stop", empty |-> empty]
      BY <2>3 DEF NoReply
    <3> QED
      BY <3>1 DEF Finishes
  <2> QED
    BY <1>2, <2>2, <2>3
<1>6. MeteredTries' = {} /\ Billed("first")' = {} /\ ~First'
  BY <1>2, <1>3, <1>4, MeteredIs DEF Billed, First
<1>7. Typed'
  BY <1>1, <1>2, <1>3, <1>4, <1>5 DEF Typed
<1>8. Counted'
  <2>1. /\ acc.usage \in 0..0
        /\ \A i \in 1..Len(acc.prior) : acc.prior[i] \in 1..0 /\ acc.prior[i] # acc.usage
    BY <1>1, <1>3 DEF Counted
  <2>2. /\ acc.usage \in 0..1
        /\ \A i \in 1..Len(acc.prior) : acc.prior[i] \in 1..1 /\ acc.prior[i] # acc.usage
    BY <2>1
  <2>3. /\ \A i, j \in 1..Len(acc.prior) : acc.prior[i] = acc.prior[j] => i = j
        /\ Len(acc.prior) < acc.attempts \/ (acc.prior = <<>> /\ acc.attempts = 0 /\ acc.usage = 0)
    BY <1>1 DEF Counted
  <2>4. acc' = acc /\ call'.name = "first" /\ pc' \notin {"failed", "answered"} /\ route' # "api"
    BY <1>2
  <2> QED
    BY <1>3, <2>2, <2>3, <2>4 DEF Counted
<1>9. Elsewhere'
  BY <1>1, <1>2, <1>5 DEF Elsewhere
<1>10. Charged'
  <2>1. \A i \in 1..Len(ledger') : ledger'[i].metered = 0
    BY <1>4 DEF MeteredOf
  <2> QED
    BY <1>4, <1>6, <2>1 DEF Charged, Once
<1>11. Replied'
  BY <1>2, <1>3, <1>5 DEF Replied
<1>12. Landed'
  BY <1>1, <1>2, <1>5 DEF Landed, WrittenOfOneReply
<1> QED
  BY <1>7, <1>8, <1>9, <1>10, <1>11, <1>12 DEF DispatchInv

\* Every step keeps the invariant.
LEMMA DispatchStep == DispatchInv /\ [DispatchNext]_dispatchVars => DispatchInv'
<1> SUFFICES ASSUME DispatchInv, [DispatchNext]_dispatchVars PROVE DispatchInv'
  OBVIOUS
<1>1. CASE BuildPrompt
  BY <1>1, BuildPromptInv
<1>2. CASE Answers \/ BreaksTransiently \/ BreaksForGood
  BY <1>2, TriesInv
<1>3. CASE CallFails
  BY <1>3, CallFailsInv
<1>4. CASE CallAnswered
  BY <1>4, AnsweredInv
<1>5. CASE Accepted \/ Filtered \/ Cut
  BY <1>5, Judged
<1>6. CASE AgentReturns \/ LegacyReturns
  BY <1>6, ElsewhereInv
<1>7. CASE WriteFile \/ RefuseFile \/ NothingWritten \/ AllWritten \/ Audit
  BY <1>7, WritesFiles
<1>8. CASE UNCHANGED dispatchVars
  BY <1>8 DEF dispatchVars, DispatchInv, Typed, Counted, This, Elsewhere, Charged, First, Billed,
     Seen, MeteredTries, Replied, Landed, WrittenOfOneReply
<1> QED
  BY <1>1, <1>2, <1>3, <1>4, <1>5, <1>6, <1>7, <1>8 DEF DispatchNext

\* The counters hold what was billed until the ledger does.
THEOREM DispatchInvariant == DispatchSpec => []DispatchInv
  BY DispatchInvInit, DispatchStep, PTL DEF DispatchSpec

\* Every billed try of the first call is charged, and every answered call,
\* none of them twice, and nothing that was not billed.
THEOREM BilledOnce == DispatchSpec => []BilledIsCharged
<1>1. DispatchInv => BilledIsCharged
  <2> SUFFICES ASSUME DispatchInv PROVE BilledIsCharged
    OBVIOUS
  <2>1. Typed /\ Charged /\ Replied
    BY DEF DispatchInv
  <2>2. DOMAIN ledger = 1..Len(ledger)
    BY <2>1, RowsDomain DEF Typed
  <2>3. \A i \in MeteredTries : tries[i].billed
    BY <2>1, <2>2 DEF Charged, MeteredTries
  <2>4. \A i, j \in DOMAIN ledger :
          ledger[i].metered = ledger[j].metered /\ ledger[i].metered # 0 => i = j
    BY <2>1, <2>2 DEF Charged
  <2>5. pc = "done" => ~First
    BY DEF First
  <2>6. pc = "done" /\ route = "api" =>
          /\ Billed("first") \subseteq MeteredTries
          /\ reply.usage # 0 => reply.usage \in MeteredTries
    BY <2>1, <2>5 DEF Charged, Replied
  <2> QED
    BY <2>3, <2>4, <2>6, Zenon DEF BilledIsCharged
<1> QED
  BY <1>1, DispatchInvariant, PTL

\* What is on disk comes from one reply, which nobody has called cut or filtered.
THEOREM OneReplyWritten == DispatchSpec => []WrittenOfOneReply
<1>1. DispatchInv => WrittenOfOneReply
  BY DEF DispatchInv, Landed
<1> QED
  BY <1>1, DispatchInvariant, PTL
=============================================================================

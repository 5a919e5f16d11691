---------------------------- MODULE Round_proofs ----------------------------
(***************************************************************************)
(* Proofs about Round.  What a command saves follows from the copy it      *)
(* loaded, and what its copy claims is true for good because no marker is  *)
(* ever withdrawn; what G7 found holds for as long as nobody disturbs it.  *)
(***************************************************************************)
EXTENDS Round, TLAPS

Past    == {"skills_done", "scored", "finalized"}
Working == {"loaded", "gated"}
Command ==
  [pc : {"idle", "loaded", "gated", "rerun", "passed"}, name : Commands,
   phase : Phases \cup {"created"}, copy : ToSet(PhaseState), ok : BOOLEAN, quiet : BOOLEAN]
States  == {"created", "started", "skills_done", "scored", "finalized"}

\* A command at work on a phase holds the copy it was admitted with.
Admitted(r) == r.pc \in Working =>
  /\ r.phase \in Phases /\ r.name \in DOMAIN Expected /\ r.copy = Expected[r.name]
\* What the copy says of the markers is so, however old the copy is.
Truthful(r) == r.pc \in Working /\ r.copy \in Past => HasMarkers(r.phase)
\* What G7 found holds while nobody has moved.
Current(r) ==
  /\ r.pc = "passed" => r.ok
  /\ r.quiet => r.pc \in {"rerun", "passed"} /\ (r.ok => PassesG713)
Sound(r) == r \in Command /\ Admitted(r) /\ Truthful(r) /\ Current(r)

Inv ==
  /\ TypeOK
  /\ ScoredIsMarked
  /\ \A p \in Procs : Sound(cmd[p])

-----------------------------------------------------------------------------
(* Helpers.                                                                *)

LEMMA StateSet == ToSet(PhaseState) = States
  BY DEF ToSet, PhaseState, States

LEMMA Ranks ==
  /\ Rank("created") = 1 /\ Rank("started") = 2 /\ Rank("skills_done") = 3
  /\ Rank("scored") = 4 /\ Rank("finalized") = 5
  BY DEF Rank, PhaseState

LEMMA ContentsAreStates == \A f \in Files : Contents(f) \subseteq FileStates
  BY DEF Contents, FileStates

LEMMA IdleSound == Sound(Idle) /\ Sound(Idle)'
  BY StateSet DEF Sound, Command, Admitted, Truthful, Current, Idle, Working, Commands, States

\* Whoever goes on soundly leaves everybody sound, if no marker went away.
LEMMA GoesSound ==
  ASSUME NEW p \in Procs, NEW r, Inv, Goes(p, r), Sound(r)',
         \A s \in Skills : marker[s] # {} => marker'[s] # {}
  PROVE  /\ cmd' \in [Procs -> Command]
         /\ \A q \in Procs : Sound(cmd[q])'
<1>1. cmd' = [q \in Procs |-> IF q = p THEN r ELSE [cmd[q] EXCEPT !.quiet = FALSE]]
  BY DEF Goes
<1>2. ASSUME NEW q \in Procs PROVE Sound(cmd[q])' /\ cmd'[q] \in Command
  <2>1. CASE q = p
    BY <1>1, <2>1 DEF Sound
  <2>2. CASE q # p
    <3>1. cmd'[q] = [cmd[q] EXCEPT !.quiet = FALSE] BY <1>1, <2>2
    <3>2. Sound(cmd[q]) BY DEF Inv
    <3>3. /\ cmd'[q] \in Command /\ cmd'[q].quiet = FALSE
          /\ cmd'[q].pc = cmd[q].pc /\ cmd'[q].phase = cmd[q].phase
          /\ cmd'[q].name = cmd[q].name /\ cmd'[q].copy = cmd[q].copy
          /\ cmd'[q].ok = cmd[q].ok
      BY <3>1, <3>2 DEF Sound, Command
    <3>4. Admitted(cmd[q])' BY <3>2, <3>3 DEF Sound, Admitted
    <3>5. Truthful(cmd[q])'
      BY <3>2, <3>3, RoundAssumption DEF Sound, Admitted, Truthful, HasMarkers
    <3>6. Current(cmd[q])' BY <3>2, <3>3 DEF Sound, Current
    <3> QED BY <3>3, <3>4, <3>5, <3>6 DEF Sound
  <2> QED BY <2>1, <2>2
<1> QED BY <1>1, <1>2

\* The same for a step that ends a command and moves neither phase nor marker back.
LEMMA IdlesSound ==
  ASSUME NEW p \in Procs, Inv, Goes(p, Idle),
         \A s \in Skills : marker[s] # {} => marker'[s] # {}
  PROVE  cmd' \in [Procs -> Command] /\ \A q \in Procs : Sound(cmd[q])'
BY GoesSound, IdleSound

\* A marker replaced by a gate is a marker still.
LEMMA MarkersStay ==
  ASSUME NEW s \in Skills, NEW files \in SUBSET Files, NEW v,
         TypeOK, marker' = Marked(s, files, v)
  PROVE  /\ marker' \in [Skills -> SUBSET SUBSET Files]
         /\ \A t \in Skills : marker[t] # {} => marker'[t] # {}
BY DEF TypeOK, Marked

\* What a command may save: its copy, or the state that it has earned.
LEMMA SaveSound ==
  ASSUME NEW p \in Procs, NEW state \in States, Inv, cmd[p].pc \in Working, Save(p, state),
         state \in Past => HasMarkers(cmd[p].phase), UNCHANGED <<out, marker, report>>
  PROVE  Inv'
<1>1. Sound(cmd[p]) /\ cmd[p].phase \in Phases
  BY DEF Inv, Sound, Admitted
<1>2. phase' = [phase EXCEPT ![cmd[p].phase] = state] /\ Goes(p, Idle)
  BY DEF Save
<1>3. cmd' \in [Procs -> Command] /\ \A q \in Procs : Sound(cmd[q])'
  BY <1>2, IdlesSound
<1>4. phase' \in [Phases -> ToSet(PhaseState)]
  BY <1>1, <1>2, StateSet DEF Inv, TypeOK
<1>5. TypeOK'
  BY <1>3, <1>4 DEF Inv, TypeOK, Command
<1>6. ScoredIsMarked'
  <2> SUFFICES ASSUME NEW ph \in Phases, phase'[ph] \in Past
               PROVE  \A s \in Prerequisites[ph] : marker[s] # {}
    BY DEF ScoredIsMarked, Past
  <2>1. CASE ph = cmd[p].phase
    BY <1>1, <1>2, <2>1 DEF Inv, TypeOK, HasMarkers
  <2>2. CASE ph # cmd[p].phase
    BY <1>1, <1>2, <2>2 DEF Inv, TypeOK, ScoredIsMarked, Past
  <2> QED BY <2>1, <2>2
<1> QED BY <1>3, <1>5, <1>6 DEF Inv

\* A step that leaves the phases as they are.
LEMMA CommandSound ==
  ASSUME NEW p \in Procs, NEW r, Inv, Goes(p, r), Sound(r)', UNCHANGED phase,
         out' \in [Files -> FileStates],
         marker' \in [Skills -> SUBSET SUBSET Files],
         report' \in [Skills -> [by : {"nobody", "operator", "agent"}, passes : BOOLEAN]],
         \A s \in Skills : marker[s] # {} => marker'[s] # {}
  PROVE  Inv'
<1>1. cmd' \in [Procs -> Command] /\ \A q \in Procs : Sound(cmd[q])'
  BY GoesSound
<1>2. TypeOK'
  BY <1>1 DEF Inv, TypeOK, Command
<1>3. ScoredIsMarked'
  BY RoundAssumption DEF Inv, ScoredIsMarked
<1> QED BY <1>1, <1>2, <1>3 DEF Inv

-----------------------------------------------------------------------------
(* The invariant.                                                          *)

LEMMA InitInv == Init => Inv
<1> SUFFICES ASSUME Init PROVE Inv
  OBVIOUS
<1>1. Sound(Idle) BY IdleSound
<1>2. \A p \in Procs : Sound(cmd[p]) /\ cmd[p] \in Command
  BY <1>1 DEF Init, Sound
<1>3. TypeOK
  BY <1>2, StateSet DEF Init, TypeOK, Command, NoReport, States, NoFile, FileStates
<1>4. ScoredIsMarked
  BY DEF Init, ScoredIsMarked
<1> QED BY <1>2, <1>3, <1>4 DEF Inv

LEMMA LoadSound ==
  ASSUME NEW p \in Procs, NEW name \in Commands, NEW ph \in Phases, Inv, Load(p, name, ph)
  PROVE  Inv'
<1>1. PICK r : /\ Goes(p, r)
               /\ r = [Idle EXCEPT !.pc = "loaded", !.name = name, !.phase = ph,
                                  !.copy = phase[ph]]
  BY DEF Load
<1>2. /\ r.pc = "loaded" /\ r.name = name /\ r.phase = ph /\ r.copy = phase[ph]
      /\ r.ok = FALSE /\ r.quiet = FALSE /\ r \in Command
  BY <1>1, RoundAssumption DEF Idle, Command, Inv, TypeOK
<1>3. Admitted(r)
  BY <1>2 DEF Load, Admits, Admitted
<1>4. HasMarkers(ph)' <=> HasMarkers(ph)
  BY DEF Load, HasMarkers
<1>5. Truthful(r)'
  BY <1>2, <1>4 DEF Truthful, Inv, ScoredIsMarked, HasMarkers, Past
<1>6. Sound(r)'
  BY <1>2, <1>3, <1>5 DEF Sound, Current, Admitted
<1> QED BY <1>1, <1>6, CommandSound DEF Load, Inv, TypeOK

LEMMA BoundaryGateSound ==
  ASSUME NEW p \in Procs, Inv, BoundaryGate(p)
  PROVE  Inv'
<1>1. PICK ok \in BOOLEAN : Goes(p, [cmd[p] EXCEPT !.pc = "gated", !.ok = ok])
  BY DEF BoundaryGate
<1>5. PICK r : Goes(p, r) /\ r = [cmd[p] EXCEPT !.pc = "gated", !.ok = ok]
  BY <1>1
<1>2. Sound(cmd[p]) BY DEF Inv
<1>3. /\ r.pc = "gated" /\ r.name = cmd[p].name /\ r.phase = cmd[p].phase
      /\ r.copy = cmd[p].copy /\ r.quiet = cmd[p].quiet /\ r \in Command
  BY <1>2, <1>5 DEF Sound, Command
<1>4. Sound(r)'
  BY <1>2, <1>3 DEF BoundaryGate, Sound, Admitted, Truthful, Current, Working, HasMarkers
<1> QED BY <1>4, <1>5, CommandSound DEF BoundaryGate, Inv, TypeOK

LEMMA PostSkillGateSound ==
  ASSUME NEW p \in Procs, Inv, PostSkillGate(p)
  PROVE  Inv'
<1>7. PICK r : Goes(p, r) /\ r = [cmd[p] EXCEPT !.pc = "gated"]
  BY DEF PostSkillGate
<1>1. Sound(cmd[p]) BY DEF Inv
<1>2. PICK s \in Prerequisites[cmd[p].phase], files \in SUBSET Files,
           v \in {"PASS", "WARN", "FAIL"} : marker' = Marked(s, files, v)
  <2>1. cmd[p].phase \in Phases
    BY <1>1 DEF PostSkillGate, Sound, Admitted, Working
  <2> DEFINE Given(s, chapter) ==
        {f \in Outputs[s] : out[f].is = "text" /\ (f \in Parametric => chapter)}
  <2>2. PICK s \in Prerequisites[cmd[p].phase], chapter \in BOOLEAN :
          \E v \in Verdicts(s, Given(s, chapter)) : marker' = Marked(s, Given(s, chapter), v)
    BY DEF PostSkillGate
  <2>3. s \in Skills /\ Outputs[s] \subseteq Files
    BY <2>1, <2>2, RoundAssumption
  <2>4. Given(s, chapter) \in SUBSET Files
    BY <2>3
  <2>5. \A files : Verdicts(s, files) \subseteq {"PASS", "WARN", "FAIL"}
    BY DEF Verdicts
  <2> HIDE DEF Given
  <2> QED BY <2>2, <2>4, <2>5
<1>3. s \in Skills
  BY <1>1, RoundAssumption DEF PostSkillGate, Sound, Admitted, Working
<1>4. /\ marker' \in [Skills -> SUBSET SUBSET Files]
      /\ \A t \in Skills : marker[t] # {} => marker'[t] # {}
  BY <1>2, <1>3, MarkersStay DEF Inv
<1>5. /\ r.pc = "gated" /\ r.name = cmd[p].name /\ r.phase = cmd[p].phase
      /\ r.copy = cmd[p].copy /\ r.quiet = cmd[p].quiet /\ r \in Command
  BY <1>1, <1>7 DEF Sound, Command
<1>6. Sound(r)'
  BY <1>1, <1>4, <1>5, RoundAssumption
     DEF PostSkillGate, Sound, Admitted, Truthful, Current, Working, HasMarkers
<1> QED BY <1>4, <1>6, <1>7, CommandSound DEF PostSkillGate, Inv, TypeOK

LEMMA SavesSound ==
  ASSUME NEW p \in Procs, Inv,
         Start(p) \/ Finalize(p) \/ PreSkill(p) \/ PostSkill(p) \/ PreScore(p) \/ PostScore(p)
  PROVE  Inv'
<1>1. Sound(cmd[p]) /\ cmd[p].pc \in Working
  BY DEF Inv, Working, Start, Finalize, PreSkill, PostSkill, PreScore, PostScore
<1>2. /\ cmd[p].copy \in States /\ (cmd[p].copy \in Past => HasMarkers(cmd[p].phase))
      /\ cmd[p].copy = Expected[cmd[p].name]
  BY <1>1, StateSet DEF Sound, Truthful, Admitted, Command
<1>3. UNCHANGED <<out, marker, report>>
  BY DEF Start, Finalize, PreSkill, PostSkill, PreScore, PostScore
<1>4. CASE Save(p, cmd[p].copy)
  BY <1>1, <1>2, <1>3, <1>4, SaveSound
<1>5. CASE Goes(p, Idle) /\ UNCHANGED phase
  BY <1>3, <1>5, IdleSound, CommandSound DEF Inv, TypeOK
<1>6. CASE Start(p)
  BY <1>1, <1>3, <1>4, <1>6, SaveSound DEF Start, States, Past
<1>7. CASE Finalize(p)
  BY <1>1, <1>3, <1>4, <1>5, <1>7, SaveSound DEF Finalize, States
<1>8. CASE PreScore(p)
  BY <1>1, <1>3, <1>5, <1>8, SaveSound DEF PreScore, States
<1>9. CASE PostScore(p)
  <2>1. cmd[p].copy = "skills_done"
    BY <1>2, <1>9 DEF PostScore, Expected
  <2> QED BY <1>1, <1>2, <1>3, <1>5, <1>9, <2>1, SaveSound DEF PostScore, States, Past
<1> QED BY <1>4, <1>6, <1>7, <1>8, <1>9 DEF PreSkill, PostSkill

LEMMA GateCommandsSound ==
  ASSUME NEW p \in Procs, NEW s \in Skills, Inv, ValidateG4(p, s) \/ Score(p, s) \/ Execute(p, s)
  PROVE  Inv'
<1>1. Goes(p, Idle) BY DEF ValidateG4, Score, Execute
<1>2. CASE ValidateG4(p, s)
  <2>1. PICK files \in SUBSET Files, v \in {"PASS", "WARN", "FAIL"} :
          marker' = Marked(s, files, v)
    BY <1>2, RoundAssumption DEF ValidateG4, Verdicts
  <2>2. /\ marker' \in [Skills -> SUBSET SUBSET Files]
        /\ \A t \in Skills : marker[t] # {} => marker'[t] # {}
    BY <2>1, MarkersStay DEF Inv
  <2> QED BY <1>1, <1>2, <2>2, IdleSound, CommandSound DEF ValidateG4, Inv, TypeOK
<1>3. CASE Score(p, s)
  <2>1. report' \in [Skills -> [by : {"nobody", "operator", "agent"}, passes : BOOLEAN]]
    BY <1>3 DEF Score, Inv, TypeOK
  <2> QED BY <1>1, <1>3, <2>1, IdleSound, CommandSound DEF Score, Inv, TypeOK
<1>4. CASE Execute(p, s)
  <2>1. PICK written \in SUBSET Outputs[s] :
          \E w \in [written -> UNION {Contents(f) : f \in written}] :
            /\ \A f \in written : w[f] \in Contents(f)
            /\ out' = [f \in Files |-> IF f \in written THEN w[f] ELSE out[f]]
    BY <1>4 DEF Execute
  <2>3. PICK passes \in BOOLEAN :
          report' = [report EXCEPT ![s] = [by |-> "agent", passes |-> passes]]
    BY <1>4 DEF Execute
  <2>2. /\ report' \in [Skills -> [by : {"nobody", "operator", "agent"}, passes : BOOLEAN]]
        /\ out' \in [Files -> FileStates]
    BY <2>1, <2>3, ContentsAreStates DEF Inv, TypeOK
  <2> QED BY <1>1, <1>4, <2>2, IdleSound, CommandSound DEF Execute, Inv, TypeOK
<1> QED BY <1>2, <1>3, <1>4

LEMMA G7Sound ==
  ASSUME NEW p \in Procs, Inv, G7Rerun(p) \/ G7Close(p) \/ Ends(p)
  PROVE  Inv'
<1>1. UNCHANGED <<phase, out, marker, report>>
  BY DEF G7Rerun, G7Close, Ends
<1>2. CASE Goes(p, Idle)
  BY <1>1, <1>2, IdleSound, CommandSound DEF Inv, TypeOK
<1>3. CASE G7Rerun(p)
  <2>1. PICK ok \in BOOLEAN :
          /\ ok => PassesG713
          /\ Goes(p, [Idle EXCEPT !.pc = "rerun", !.ok = ok, !.quiet = TRUE])
    BY <1>3 DEF G7Rerun
  <2>3. PICK r : Goes(p, r) /\ r = [Idle EXCEPT !.pc = "rerun", !.ok = ok, !.quiet = TRUE]
    BY <2>1
  <2>2. r.pc = "rerun" /\ r.ok = ok /\ r \in Command
    BY <2>3, StateSet DEF Idle, Command, Commands, States
  <2>4. Sound(r)'
    BY <1>1, <2>1, <2>2 DEF Sound, Admitted, Truthful, Current, Working, PassesG713, Accepts, Judged
  <2> QED BY <1>1, <2>3, <2>4, CommandSound DEF Inv, TypeOK
<1>4. CASE G7Close(p) /\ cmd[p].ok /\ Goes(p, [cmd[p] EXCEPT !.pc = "passed"])
  <2>3. PICK r : Goes(p, r) /\ r = [cmd[p] EXCEPT !.pc = "passed"]
    BY <1>4
  <2>1. Sound(cmd[p]) BY DEF Inv
  <2>2. r.pc = "passed" /\ r.ok = cmd[p].ok /\ r.quiet = cmd[p].quiet /\ r \in Command
    BY <2>1, <2>3 DEF Sound, Command
  <2>4. Sound(r)'
    BY <1>1, <1>4, <2>1, <2>2
       DEF G7Close, Sound, Admitted, Truthful, Current, Working, PassesG713, Accepts, Judged
  <2> QED BY <1>1, <2>3, <2>4, CommandSound DEF Inv, TypeOK
<1> QED BY <1>2, <1>3, <1>4 DEF G7Close, Ends

LEMMA EditSound ==
  ASSUME NEW f \in Files, Inv, Edit(f)
  PROVE  Inv'
<1>1. cmd' = [q \in Procs |-> [cmd[q] EXCEPT !.quiet = FALSE]] /\ UNCHANGED <<phase, marker, report>>
  BY DEF Edit
<1>2. ASSUME NEW q \in Procs PROVE Sound(cmd[q])' /\ cmd'[q] \in Command
  <2>1. Sound(cmd[q]) BY DEF Inv
  <2>2. /\ cmd'[q] \in Command /\ cmd'[q].quiet = FALSE
        /\ cmd'[q].pc = cmd[q].pc /\ cmd'[q].phase = cmd[q].phase
        /\ cmd'[q].name = cmd[q].name /\ cmd'[q].copy = cmd[q].copy
        /\ cmd'[q].ok = cmd[q].ok
    BY <1>1, <2>1 DEF Sound, Command
  <2> QED BY <1>1, <2>1, <2>2 DEF Sound, Admitted, Truthful, Current, HasMarkers
<1>3. TypeOK'
  <2>1. PICK c \in FileStates : out' = [out EXCEPT ![f] = c]
    BY ContentsAreStates DEF Edit, FileStates, NoFile
  <2>2. out' \in [Files -> FileStates]
    BY <2>1 DEF Inv, TypeOK
  <2>3. cmd' \in [Procs -> Command]
    BY <1>1, <1>2
  <2> QED BY <1>1, <2>2, <2>3 DEF Inv, TypeOK, Command
<1>4. ScoredIsMarked'
  BY <1>1 DEF Inv, ScoredIsMarked
<1> QED BY <1>2, <1>3, <1>4 DEF Inv

LEMMA NextInv == Inv /\ [Next]_vars => Inv'
<1> SUFFICES ASSUME Inv, [Next]_vars PROVE Inv'
  OBVIOUS
<1>1. CASE UNCHANGED vars
  BY <1>1 DEF vars, Inv, TypeOK, ScoredIsMarked, Sound, Admitted, Truthful, Current,
              HasMarkers, PassesG713, Accepts, Judged
<1>2. CASE Next
  BY <1>2, LoadSound, BoundaryGateSound, PostSkillGateSound, SavesSound, GateCommandsSound,
     G7Sound, EditSound DEF Next
<1> QED BY <1>1, <1>2

\* The inductive invariant of a round: what every command in flight has been
\* admitted with, what its copy says of the markers, and what G7 has found.
THEOREM Invariant == Spec => []Inv
BY InitInv, NextInv, PTL DEF Spec

\* The variables of a round keep their types.
THEOREM TypeCorrect == Spec => []TypeOK
<1>1. Inv => TypeOK BY DEF Inv
<1> QED BY <1>1, Invariant, PTL

\* However many commands work on one phase with copies of whatever age, a
\* phase past pre-score has a marker for each of its skills.
THEOREM MarkedPhases == Spec => []ScoredIsMarked
<1>1. Inv => ScoredIsMarked BY DEF Inv
<1> QED BY <1>1, Invariant, PTL

\* In a round that G7 passes undisturbed each skill of a finalized phase has been
\* checked on some file, and what its checker saw then passes it now.
THEOREM CleanClose == Spec => []ClosedIsClean
<1>1. Inv => ClosedIsClean
  BY RoundAssumption
     DEF Inv, Sound, Current, ClosedIsClean, ScoredIsMarked, PassesG713, Accepts, Judged
<1> QED BY <1>1, Invariant, PTL

-----------------------------------------------------------------------------
(* Rewinds.                                                                *)

\* A save of the latest copy never takes the phase back: only the saves of a
\* command whose copy another command has overtaken do.
THEOREM OnlyStaleRewinds == Spec => RewindIsStale
<1> DEFINE Rewound == \A ph \in Phases :
       Rank(phase'[ph]) < Rank(phase[ph]) =>
         \E p \in Procs : cmd[p].phase = ph /\ cmd[p].copy # phase[ph]
                          /\ cmd'[p].pc = "idle"
<1>1. Inv /\ [Next]_vars => [Rewound]_vars
  <2> SUFFICES ASSUME Inv, [Next]_vars, NEW ph \in Phases,
                      Rank(phase'[ph]) < Rank(phase[ph])
               PROVE  \E p \in Procs : cmd[p].phase = ph /\ cmd[p].copy # phase[ph]
                                       /\ cmd'[p].pc = "idle"
    OBVIOUS
  <2>1. phase[ph] \in States /\ Rank(phase[ph]) \in 1..5
    BY StateSet, Ranks DEF Inv, TypeOK, States
  <2>2. ~UNCHANGED phase
    BY <2>1
  <2>3. PICK p \in Procs : Start(p) \/ Finalize(p) \/ PreSkill(p) \/ PostSkill(p)
                           \/ PreScore(p) \/ PostScore(p)
    BY <2>2 DEF Next, vars, Load, BoundaryGate, PostSkillGate, G7Rerun, G7Close, Ends,
                ValidateG4, Score, Execute, Edit
  <2>4. /\ cmd[p].phase \in Phases /\ cmd[p].copy = Expected[cmd[p].name]
    BY <2>3 DEF Inv, Sound, Admitted, Working, Start, Finalize, PreSkill, PostSkill,
                PreScore, PostScore
  <2>5. PICK state : /\ Save(p, state)
                     /\ \/ state = cmd[p].copy
                        \/ cmd[p].copy = "created" /\ state = "started"
                        \/ cmd[p].copy = "scored" /\ state = "finalized"
                        \/ cmd[p].copy = "started" /\ state = "skills_done"
                        \/ cmd[p].copy = "skills_done" /\ state = "scored"
    BY <2>2, <2>3, <2>4 DEF Start, Finalize, PreSkill, PostSkill, PreScore, PostScore, Expected
  <2>6. phase' = [phase EXCEPT ![cmd[p].phase] = state] /\ cmd'[p].pc = "idle"
    BY <2>5 DEF Save, Goes, Idle
  <2>7. cmd[p].phase = ph /\ phase'[ph] = state
    BY <2>1, <2>4, <2>6 DEF Inv, TypeOK
  <2>8. cmd[p].copy # phase[ph]
    BY <2>1, <2>5, <2>7, Ranks
  <2> QED BY <2>6, <2>7, <2>8
<1> QED BY <1>1, Invariant, PTL DEF Spec, RewindIsStale
=============================================================================

------------------------------- MODULE Round -------------------------------
(***************************************************************************)
(* A test round: the phase runner (phase_runner.py) that takes a phase     *)
(* from created to finalized, the gate command that leaves PASS markers,   *)
(* the dispatcher that scores a skill, and the gate G7 that closes the     *)
(* round.  They share the files of one round directory and hold no lock:   *)
(* each process runs one command after the other, and a command works on   *)
(* the phase file it loaded when it began.                                 *)
(***************************************************************************)
EXTENDS FiniteSets, Sequences, SequencesExt

CONSTANTS
  Phases,        \* t2-phases of deps.json
  Skills,
  Files,
  Prerequisites, \* of each phase, its skills
  Expects,       \* of each phase, what each of its output patterns matches
  Outputs,       \* of each skill, what its contract has it write
  Reads,         \* of each skill, the files its checker judges when given them
  Fixed,         \* and those that it judges whatever it is given
  Swept,         \* of each skill, the markdown that G5.5 has its checker judge
  Parametric,    \* files that have a name only for a given chapter
  Procs,
  Runs           \* which commands each process runs

Commands == {"start", "pre-skill", "post-skill", "pre-score", "post-score",
             "finalize", "G4", "score", "dispatch", "G7"}

ASSUME RoundAssumption ==
  /\ Prerequisites \in [Phases -> SUBSET Skills]
  /\ Expects \in [Phases -> SUBSET SUBSET Files]
  /\ \A of \in {Outputs, Reads, Fixed, Swept} : of \in [Skills -> SUBSET Files]
  /\ Parametric \subseteq Files
  /\ Runs \in [Procs -> SUBSET Commands]

VARIABLES
  phase,   \* state in phase-state/<phase>.json, "created" while there is none
  out,     \* of each file of the project, the skills for whom it will do
  marker,  \* the files_checked of gate-markers/G4-<skill>-generative.json, if any
  report,  \* what find_report finds in t1-reports
  cmd      \* the command each process is in
vars == <<phase, out, marker, report, cmd>>

FileStates == [is : {"missing", "empty", "text"}, for : SUBSET Skills]
NoFile     == [is |-> "missing", for |-> {}]
PhaseState == <<"created", "started", "skills_done", "scored", "finalized">>
Rank(s)    == CHOOSE i \in DOMAIN PhaseState : PhaseState[i] = s
NoReport   == [by |-> "nobody", passes |-> FALSE]
Idle == [pc |-> "idle", name |-> "G7", phase |-> "created", copy |-> "created",
         ok |-> FALSE, quiet |-> FALSE]

TypeOK ==
  /\ phase \in [Phases -> ToSet(PhaseState)]
  /\ out \in [Files -> FileStates]
  /\ marker \in [Skills -> SUBSET SUBSET Files]
  /\ report \in [Skills -> [by : {"nobody", "operator", "agent"}, passes : BOOLEAN]]
  /\ cmd \in [Procs ->
       [pc : {"idle", "loaded", "gated", "rerun", "passed"}, name : Commands,
        phase : Phases \cup {"created"}, copy : ToSet(PhaseState),
        ok : BOOLEAN, quiet : BOOLEAN]]

Init ==
  /\ phase = [ph \in Phases |-> "created"]
  /\ out = [f \in Files |-> NoFile]
  /\ marker = [s \in Skills |-> {}]
  /\ report = [s \in Skills |-> NoReport]
  /\ cmd = [p \in Procs |-> Idle]

\* p goes on with r; whoever watches the round has been disturbed.
Goes(p, r) ==
  cmd' = [q \in Procs |-> IF q = p THEN r ELSE [cmd[q] EXCEPT !.quiet = FALSE]]
MayRun(p, name) == cmd[p].pc = "idle" /\ name \in Runs[p]

-----------------------------------------------------------------------------
(* Gates.                                                                  *)

\* What the checker of s looks at, of a list it is given and beside it; it
\* accepts no file that is missing or empty.
Judged(s, files)  == (files \cap Reads[s]) \cup Fixed[s]
Accepts(s, files) == \A f \in Judged(s, files) : out[f].is = "text" /\ s \in out[f].for

\* gate_G4; with nothing to look at most checkers have nothing to object to.
Verdicts(s, files) ==
  IF Judged(s, files) = {} THEN {"PASS", "FAIL"}
  ELSE IF Accepts(s, files) THEN {"PASS", "WARN"} ELSE {"FAIL"}

\* write_gate_marker: only a PASS writes, and nothing ever takes a marker back.
Marked(s, files, verdict) ==
  IF verdict = "PASS" THEN [marker EXCEPT ![s] = {files}] ELSE marker

HasMarkersFaulty(ph) ==    \* one marker is enough
  Prerequisites[ph] = {} \/ \E s \in Prerequisites[ph] : marker[s] # {}
HasMarkers(ph) == \A s \in Prerequisites[ph] : marker[s] # {}
\* Of each pattern one match is enough.
HasOutputs(ph) == \A pattern \in Expects[ph] : \E f \in pattern : out[f].is # "missing"

\* G5.5: the checkers once more, over the outputs in markdown, one by one.
NoRegression(ph) ==
  \A s \in Prerequisites[ph] : \A f \in Swept[s] \cap UNION Expects[ph] :
    out[f].is # "missing" => Accepts(s, {f})

\* gate_G5: a passing report for every prerequisite; with a project directory
\* also its outputs, and no regression of them.
PassesG5(ph, project) ==
  /\ \A s \in Prerequisites[ph] : report[s].by # "nobody" /\ report[s].passes
  /\ project => HasOutputs(ph) /\ NoRegression(ph)

\* gate_G7, G7.13: every marker is checked again, on the files it names, and
\* must name some; what else the skill has written is not looked at.
PassesG713Faulty ==    \* a marker that names no file is passed over
  \A s \in Skills : \A files \in marker[s] : files # {} => Accepts(s, files)
PassesG713 ==
  \A s \in Skills : \A files \in marker[s] : files # {} /\ Accepts(s, files)
\* G7.1b: a report for every skill.
AllReported == \A s \in Skills : report[s].by # "nobody"

-----------------------------------------------------------------------------
(* The phase runner.                                                       *)

Expected == [name \in {"start", "pre-skill", "post-skill", "pre-score", "post-score",
                       "finalize"} |->
  CASE name = "start" -> "created"
    [] name = "post-score" -> "skills_done"
    [] name = "finalize" -> "scored"
    [] OTHER -> "started"]

AdmitsFaulty(name, state) ==    \* start forgets its require_state
  name = "start" \/ state = Expected[name]
\* require_state; a command that is refused leaves nothing behind.
Admits(name, state) == state = Expected[name]

\* load_state: from here on the command knows the phase by its copy.
Load(p, name, ph) ==
  /\ MayRun(p, name) /\ name \in DOMAIN Expected /\ Admits(name, phase[ph])
  /\ Goes(p, [Idle EXCEPT !.pc = "loaded", !.name = name, !.phase = ph, !.copy = phase[ph]])
  /\ UNCHANGED <<phase, out, marker, report>>

\* save_state of the copy, in the given state.
Save(p, state) ==
  /\ phase' = [phase EXCEPT ![cmd[p].phase] = state]
  /\ Goes(p, Idle)

\* cmd_start and cmd_finalize: G5 in a process of its own, which may also find
\* a conflict between files or time out.
BoundaryGate(p) ==
  /\ cmd[p].pc = "loaded" /\ cmd[p].name \in {"start", "finalize"}
  /\ \E ok, project \in BOOLEAN :
       /\ ok => PassesG5(cmd[p].phase, project)
       /\ Goes(p, [cmd[p] EXCEPT !.pc = "gated", !.ok = ok])
  /\ UNCHANGED <<phase, out, marker, report>>

\* A start that is blocked records the attempt all the same, in its copy.
Start(p) ==
  /\ cmd[p].pc = "gated" /\ cmd[p].name = "start"
  /\ Save(p, IF cmd[p].ok THEN "started" ELSE cmd[p].copy)
  /\ UNCHANGED <<out, marker, report>>

\* A finalize past its gate that misses a marker leaves without saving.
Finalize(p) ==
  /\ cmd[p].pc = "gated" /\ cmd[p].name = "finalize"
  /\ IF ~cmd[p].ok THEN Save(p, cmd[p].copy)
     ELSE IF HasMarkers(cmd[p].phase) THEN Save(p, "finalized")
     ELSE Goes(p, Idle) /\ UNCHANGED phase
  /\ UNCHANGED <<out, marker, report>>

PreSkill(p) ==
  /\ cmd[p].pc = "loaded" /\ cmd[p].name = "pre-skill"
  /\ Save(p, cmd[p].copy)
  /\ UNCHANGED <<out, marker, report>>

\* The gates of a skill that was executed: each output that is missing or empty,
\* or has no name without a chapter, is left out of the list G4 is given.
PostSkillGate(p) ==
  /\ cmd[p].pc = "loaded" /\ cmd[p].name = "post-skill"
  /\ \E s \in Prerequisites[cmd[p].phase], chapter \in BOOLEAN :
       LET files == {f \in Outputs[s] : out[f].is = "text" /\ (f \in Parametric => chapter)}
       IN \E v \in Verdicts(s, files) : marker' = Marked(s, files, v)
  /\ Goes(p, [cmd[p] EXCEPT !.pc = "gated"])
  /\ UNCHANGED <<phase, out, report>>

\* Blocked or not, the step is recorded.
PostSkill(p) ==
  /\ cmd[p].pc = "gated" /\ cmd[p].name = "post-skill"
  /\ Save(p, cmd[p].copy)
  /\ UNCHANGED <<out, marker, report>>

PreScore(p) ==
  /\ cmd[p].pc = "loaded" /\ cmd[p].name = "pre-score"
  /\ IF HasMarkers(cmd[p].phase) /\ HasOutputs(cmd[p].phase) THEN Save(p, "skills_done")
     ELSE Goes(p, Idle) /\ UNCHANGED phase
  /\ UNCHANGED <<out, marker, report>>

\* The scores file need only parse.
PostScore(p) ==
  /\ cmd[p].pc = "loaded" /\ cmd[p].name = "post-score"
  /\ \/ Save(p, "scored")
     \/ Goes(p, Idle) /\ UNCHANGED phase
  /\ UNCHANGED <<out, marker, report>>

-----------------------------------------------------------------------------
(* Gate, score and dispatch commands.                                      *)

\* shenbi-validate G4, on any list of the skill's files: the checker and, on a
\* PASS, the marker.
ValidateG4(p, s) ==
  /\ MayRun(p, "G4")
  /\ \E files \in SUBSET Outputs[s] :
       \E v \in Verdicts(s, files) : marker' = Marked(s, files, v)
  /\ Goes(p, Idle)
  /\ UNCHANGED <<phase, out, report>>

\* check_gate_markers of shenbi-score.
Scorable(s) == marker[s] # {}

\* shenbi-score, its result kept as <skill>-generative-scores.json; find_report
\* goes on finding an agent's report before it.
Score(p, s) ==
  /\ MayRun(p, "score") /\ Scorable(s)
  /\ \E passes \in BOOLEAN :
       report' = IF report[s].by = "agent" THEN report
                 ELSE [report EXCEPT ![s] = [by |-> "operator", passes |-> passes]]
  /\ Goes(p, Idle)
  /\ UNCHANGED <<phase, out, marker>>

\* What may stand in f: it will do for some of those whose checkers look at it.
Contents(f) ==
  LET judges == {s \in Skills : f \in Reads[s] \cup Fixed[s]}
  IN [is : {"text"}, for : SUBSET judges] \cup [is : {"empty"}, for : {{}}]

\* dispatch: past G1 the agent executes and writes what it will, and
\* dispatch_codex files its raw scores before shenbi-score has looked for a
\* marker; what G2 and the write audit find later changes what the command
\* returns and nothing else here.
Execute(p, s) ==
  /\ MayRun(p, "dispatch")
  /\ \E written \in SUBSET Outputs[s] :
       \E w \in [written -> UNION {Contents(f) : f \in written}] :
         /\ \A f \in written : w[f] \in Contents(f)
         /\ out' = [f \in Files |-> IF f \in written THEN w[f] ELSE out[f]]
  /\ \E passes \in BOOLEAN :
       report' = [report EXCEPT ![s] = [by |-> "agent", passes |-> passes]]
  /\ Goes(p, Idle)
  /\ UNCHANGED <<phase, marker>>

\* An agent at work on the project, between the commands or during one.
Edit(f) ==
  /\ \E c \in Contents(f) \cup {NoFile} : out[f] # c /\ out' = [out EXCEPT ![f] = c]
  /\ cmd' = [q \in Procs |-> [cmd[q] EXCEPT !.quiet = FALSE]]
  /\ UNCHANGED <<phase, marker, report>>

-----------------------------------------------------------------------------
(* Closing the round.                                                      *)

\* gate_G7 up to G7.13; it also looks for placeholders and a broken trace.
G7Rerun(p) ==
  /\ MayRun(p, "G7")
  /\ \E ok \in BOOLEAN :
       /\ ok => PassesG713 /\ AllReported
       /\ Goes(p, [Idle EXCEPT !.pc = "rerun", !.ok = ok, !.quiet = TRUE])
  /\ UNCHANGED <<phase, out, marker, report>>

\* G7.16: the phases that summary.json has scores for are finalized.
G7Close(p) ==
  /\ cmd[p].pc = "rerun"
  /\ \E scored \in SUBSET Phases :
       IF cmd[p].ok /\ \A ph \in scored : phase[ph] = "finalized"
       THEN Goes(p, [cmd[p] EXCEPT !.pc = "passed"]) ELSE Goes(p, Idle)
  /\ UNCHANGED <<phase, out, marker, report>>

\* The verdict is read; or the command is killed wherever it is.
Ends(p) ==
  /\ cmd[p].pc # "idle"
  /\ Goes(p, Idle)
  /\ UNCHANGED <<phase, out, marker, report>>

Next ==
  \/ \E p \in Procs, name \in Commands, ph \in Phases : Load(p, name, ph)
  \/ \E p \in Procs :
       \/ BoundaryGate(p) \/ Start(p) \/ Finalize(p) \/ PreSkill(p)
       \/ PostSkillGate(p) \/ PostSkill(p) \/ PreScore(p) \/ PostScore(p)
       \/ G7Rerun(p) \/ G7Close(p) \/ Ends(p)
  \/ \E p \in Procs, s \in Skills : ValidateG4(p, s) \/ Score(p, s) \/ Execute(p, s)
  \/ \E f \in Files : Edit(f)

Spec == Init /\ [][Next]_vars

-----------------------------------------------------------------------------
(* What a round relies on.                                                 *)

\* A phase goes back only under the save of a command that loaded it before
\* another command moved it on (save_state without a lock).
RewindIsStale ==
  [][\A ph \in Phases :
       Rank(phase'[ph]) < Rank(phase[ph]) =>
         \E p \in Procs : cmd[p].phase = ph /\ cmd[p].copy # phase[ph]
                          /\ cmd'[p].pc = "idle"]_vars

\* Whatever the commands running beside it did, a phase past pre-score has a
\* marker for each of its skills (cmd_pre_score, cmd_finalize).
ScoredIsMarked ==
  \A ph \in Phases :
    phase[ph] \in {"skills_done", "scored", "finalized"} =>
      \A s \in Prerequisites[ph] : marker[s] # {}

\* In a round that G7 passes undisturbed, each skill of a finalized phase has
\* been checked on some file, and what its checker saw then passes it now, by
\* whatever stale copies and early markers the phase came that far
\* (write_gate_marker never takes a marker back).
ClosedIsClean ==
  \A p \in Procs : cmd[p].pc = "passed" /\ cmd[p].quiet =>
    \A ph \in Phases : phase[ph] = "finalized" =>
      \A s \in Prerequisites[ph] :
        \E files \in marker[s] : files # {} /\ Accepts(s, files)

-----------------------------------------------------------------------------
(* What a closed round is not.                                             *)

\* That all a skill has written passes its checker: a marker stands over the
\* files that were there, or had a name, when it was earned, and G7.13 checks no
\* others (phase_runner.py:241-245, g7.py:167-191).
ClosedIsWhole ==
  \A p \in Procs : cmd[p].pc = "passed" /\ cmd[p].quiet =>
    \A ph \in Phases : phase[ph] = "finalized" =>
      \A s \in Prerequisites[ph] : Accepts(s, Outputs[s])
=============================================================================

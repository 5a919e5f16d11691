------------------------------ MODULE Genesis -------------------------------
(***************************************************************************)
(* The genesis of a book: a table of steps, each a dispatched skill and    *)
(* its gates, run in order by the commands next and resume; the reviewer's *)
(* answers at genesis-complete and at an escalation; and the scoped redo,  *)
(* which runs some steps again and stops where a redone step changes the   *)
(* structure that was frozen for it.  What a text contains is its shape,   *)
(* the structure bindings extracted from it; 0 is a file that is not       *)
(* there.  A text without any heading or table is left out.                *)
(***************************************************************************)
EXTENDS Naturals, FiniteSets

CONSTANTS
  N,            \* len(GENESIS_STEPS)
  Optional,     \* the steps that are skipped when they fail
  Independent,  \* the steps whose score needs independent evidence (G3)
  Files,        \* what the steps write
  WritesOf,     \* the files of a step: output_path and GENESIS_EXTRA_OUTPUTS
  Shapes,       \* bound: number of structures a file may have
  MaxAttempts,  \* max_revision_retries
  MaxReviews    \* bound: answers ever given

Steps == 1..N

ASSUME GenesisAssumption ==
  /\ N \in Nat \ {0} /\ Shapes \in Nat /\ MaxAttempts \in Nat \ {0, 1} /\ MaxReviews \in Nat
  /\ Optional \subseteq Steps /\ Independent \subseteq Steps
  /\ WritesOf \in [Steps -> SUBSET Files]

VARIABLES
  reviewed,  \* per_chapter_review_enabled
  pc,        \* the command that runs: at a step, about to save, or ending
  g,         \* its PipelineState
  saved,     \* pipeline-state.json
  shape,     \* the structure of each file
  reviews    \* answers given
vars == <<reviewed, pc, g, saved, shape, reviews>>

Bindings == [Files -> 0..Shapes]
Nothing  == [f \in Files |-> 0]
Notes    == {"failure", "feedback", "binding"}

States == [
  cursor   : 0..N,                  \* current_step
  done     : SUBSET Steps,          \* skills_done
  attempts : [Steps -> 0..MaxAttempts],
  slot     : [Steps -> SUBSET Notes],   \* what retry_feedback tells the step
  frozen   : [Steps -> Bindings],   \* Nothing: the step is not frozen
  cp       : {"none", "complete", "escalation"},
  told     : SUBSET Steps,          \* a genesis-complete has reported its drift since it was done
  approved : BOOLEAN,               \* an approval of genesis-complete is not consumed
  phase    : {"genesis", "chapters"},
  stopped  : BOOLEAN]               \* a drift has stopped the sequence before its end

TypeOK ==
  /\ reviewed \in BOOLEAN /\ pc \in {"idle", "step", "save", "end"}
  /\ g \in States /\ saved \in States /\ shape \in Bindings /\ reviews \in 0..MaxReviews

Fresh == [cursor |-> 0, done |-> {}, attempts |-> [s \in Steps |-> 0],
          slot |-> [s \in Steps |-> {}], frozen |-> [s \in Steps |-> Nothing],
          cp |-> "none", told |-> {}, approved |-> FALSE, phase |-> "genesis",
          stopped |-> FALSE]

Init ==
  /\ reviewed \in BOOLEAN /\ pc = "idle"
  /\ g = Fresh /\ saved = Fresh /\ shape = Nothing /\ reviews = 0

-----------------------------------------------------------------------------
(* Structure bindings.                                                     *)

\* extract_structure_bindings
Structure(files, s) == [f \in Files |-> IF f \in WritesOf[s] THEN files[f] ELSE 0]

\* _skill_binding_drift: texts without structure are no drift.
Drifted(st, files, s) ==
  /\ st.frozen[s] # Nothing /\ Structure(files, s) # Nothing
  /\ Structure(files, s) # st.frozen[s]

-----------------------------------------------------------------------------
(* What a step does to the state.                                          *)

\* _advance: past the last step genesis-complete is raised, with the drift of
\* every frozen step, and the freezes are consumed.
Advance(st, files) ==
  LET past == [st EXCEPT !.cursor = @ + 1] IN
  IF past.cursor < N THEN past
  ELSE [past EXCEPT !.cp = "complete", !.told = @ \cup {s \in Steps : Drifted(st, files, s)},
                    !.frozen = [s \in Steps |-> Nothing]]

FailedLate(st, files, s) ==                 \* one attempt too many
  LET counted == [st EXCEPT !.attempts[s] = @ + 1] IN
  IF counted.attempts[s] <= MaxAttempts THEN counted
  ELSE [counted EXCEPT !.cp = "escalation"]

FailedUncounted(st, files, s) ==            \* the retry is not counted
  IF s \in Optional THEN Advance([st EXCEPT !.attempts[s] = 0], files) ELSE st

\* _handle_failure: skip, retry, or escalate.
Failed(st, files, s) ==
  IF s \in Optional THEN Advance([st EXCEPT !.attempts[s] = 0], files)
  ELSE LET counted == [st EXCEPT !.attempts[s] = @ + 1] IN
       IF counted.attempts[s] < MaxAttempts THEN counted
       ELSE [counted EXCEPT !.cp = "escalation"]

SucceededFaulty(st, files, s) ==            \* drift is left to the final report
  Advance([st EXCEPT !.attempts[s] = 0, !.done = @ \cup {s}], files)

\* The step is done; a redone step that drifts stops the sequence here.
Succeeded(st, files, s) ==
  LET done == [st EXCEPT !.attempts[s] = 0, !.done = @ \cup {s}] IN
  IF Drifted(done, files, s)
  THEN [done EXCEPT !.cursor = N, !.cp = "complete", !.told = @ \cup {s},
                    !.stopped = @ \/ \E t \in (s + 1)..N : t \notin done.done]
  ELSE Advance(done, files)

-----------------------------------------------------------------------------
(* A command.                                                              *)

Current == g.cursor + 1    \* the step the cursor points at

\* run_genesis_step has returned: True ends the command, False goes on.
Returns(st) == g' = st /\ pc' = IF st.cp = "none" THEN "save" ELSE "end"

Command ==                                    \* cmd_next; at a checkpoint it is blocked
  /\ pc = "idle" /\ g.cp = "none" /\ g.phase = "genesis"
  /\ pc' = "step" /\ UNCHANGED <<reviewed, g, saved, shape, reviews>>

\* cmd_resume: an approval of genesis-complete enters the chapter loop.
Resume ==
  /\ pc = "idle" /\ g.approved /\ g.phase = "genesis"
  /\ g' = [g EXCEPT !.phase = "chapters", !.approved = FALSE] /\ saved' = g'
  /\ UNCHANGED <<reviewed, pc, shape, reviews>>

\* All steps are behind the cursor: nothing is done.
NothingLeft ==
  /\ pc = "step" /\ g.cursor = N /\ pc' = "end"
  /\ UNCHANGED <<reviewed, g, saved, shape, reviews>>

\* A step that is done is passed without a dispatch.
Skip ==
  /\ pc = "step" /\ g.cursor < N /\ Current \in g.done
  /\ Returns([g EXCEPT !.cursor = @ + 1]) /\ UNCHANGED <<reviewed, saved, shape, reviews>>

Due == pc = "step" /\ g.cursor < N /\ Current \notin g.done

\* The dispatch fails; what it says on stderr replaces the step's feedback.
DispatchFails ==
  /\ Due
  /\ \E st \in {g, [g EXCEPT !.slot[Current] = {"failure"}]} : Returns(Failed(st, shape, Current))
  /\ UNCHANGED <<reviewed, saved, shape, reviews>>

\* The dispatch writes the step's files, of one and the same shape.
Lands ==
  /\ Due /\ \E v \in 1..Shapes :
               shape' = [f \in Files |-> IF f \in WritesOf[Current] THEN v ELSE shape[f]]
  /\ UNCHANGED <<reviewed, saved, reviews>>

GatePasses == [g EXCEPT !.slot[Current] = {}]
GateFails  == [g EXCEPT !.slot[Current] = {"failure"}]

Passes == Lands /\ Returns(Succeeded(GatePasses, shape', Current))

\* G3 fails: always when the step's own completion is on record as evidence.
ScoreFails ==
  /\ Current \in Independent /\ Lands /\ Returns(Failed(GatePasses, shape', Current))

\* G4 fails, under review or because a declared file is missing.
GateFailsHard == Lands /\ Returns(Failed(GateFails, shape', Current))

\* G4 fails without review: one more try, and then the step is let pass.
GateFailsSoft ==
  /\ ~reviewed /\ Lands
  /\ \/ g.attempts[Current] = 0 /\ Returns([GateFails EXCEPT !.attempts[Current] = 1])
     \/ /\ g.attempts[Current] > 0
        /\ \/ Returns(Succeeded([GateFails EXCEPT !.attempts[Current] = 0], shape', Current))
           \/ /\ Current \in Independent
              /\ Returns(Failed([GateFails EXCEPT !.attempts[Current] = 0], shape', Current))

Save ==
  /\ pc = "save" /\ saved' = g /\ pc' = "step"
  /\ UNCHANGED <<reviewed, g, shape, reviews>>
End ==
  /\ pc = "end" /\ saved' = g /\ pc' = "idle"
  /\ UNCHANGED <<reviewed, g, shape, reviews>>

\* The process dies: what it wrote stays, its state is the saved one.
Kill ==
  /\ pc # "idle" /\ pc' = "idle" /\ g' = saved
  /\ UNCHANGED <<reviewed, saved, shape, reviews>>

-----------------------------------------------------------------------------
(* The reviewer's answers, each read, applied and saved under the lock.    *)

Answers(st) ==
  /\ pc = "idle" /\ reviews < MaxReviews /\ reviews' = reviews + 1
  /\ g' = [st EXCEPT !.cp = "none"] /\ saved' = g'
  /\ UNCHANGED <<reviewed, pc, shape>>

NoAttempts == [s \in Steps |-> 0]

\* _rollback_genesis_step
OneBack == [g EXCEPT !.cursor = @ - 1, !.done = @ \ {g.cursor}, !.told = @ \ {g.cursor}]

Approve == g.cp = "complete" /\ Answers([g EXCEPT !.approved = TRUE])
Modify  == g.cp = "complete" /\ Answers(OneBack)
Reject  == g.cp = "complete" /\ Answers([OneBack EXCEPT !.attempts = NoAttempts])

RefrozenFaulty(s) == Structure(shape, s)    \* the drifted text is the new freeze

\* The first freeze of a contested step wins.
Refrozen(s) == IF g.frozen[s] # Nothing THEN g.frozen[s] ELSE Structure(shape, s)

ToStepsFaulty(redo, notes) ==               \* rewinds to the last of the listed steps
  [g EXCEPT !.cursor = (CHOOSE s \in redo : \A t \in redo : t <= s) - 1,
            !.done = @ \ redo, !.attempts = NoAttempts]

\* _rollback_genesis_to_steps: the listed steps are frozen and undone; an
\* unlisted freeze from the first of them on is consumed.
ToSteps(redo, notes) ==
  LET first == CHOOSE s \in redo : \A t \in redo : s <= t IN
  [g EXCEPT
    !.cursor = first - 1, !.done = @ \ redo, !.told = @ \ redo, !.attempts = NoAttempts,
    !.frozen = [s \in Steps |-> IF s \in redo THEN Refrozen(s)
                                ELSE IF s >= first THEN Nothing ELSE @[s]],
    !.slot = [s \in Steps |->
                LET said == notes \cup IF Refrozen(s) # Nothing THEN {"binding"} ELSE {}
                IN IF s \in redo /\ said # {} THEN said ELSE @[s]]]

Redo ==
  /\ g.cp = "complete"
  /\ \E redo \in (SUBSET Steps) \ {{}}, notes \in {{}, {"feedback"}} : Answers(ToSteps(redo, notes))

\* Any answer to an escalation gives every step its attempts back, and tells
\* the reviewer's feedback to the step that failed.
Decide ==
  /\ g.cp = "escalation"
  /\ \E st \in {g, [g EXCEPT !.slot[Current] = {"feedback"}]} :
       Answers([st EXCEPT !.attempts = NoAttempts])

Step ==
  \/ NothingLeft \/ Skip \/ DispatchFails \/ Passes \/ ScoreFails
  \/ GateFailsHard \/ GateFailsSoft \/ Save \/ End
Review == Approve \/ Modify \/ Reject \/ Redo \/ Decide

Next     == Command \/ Resume \/ Step \/ Review \/ Kill
Spec     == Init /\ [][Next]_vars
\* A command that runs goes on; nobody has to give one.
FairSpec == Spec /\ WF_vars(Step)

-----------------------------------------------------------------------------
(* Properties.                                                             *)

\* Through redos, skips, kills and retries: unless a drift has stopped the
\* sequence, genesis is complete only when every step that is not optional
\* has been done and has not been undone since.
CompletionEarned ==
  ~g.stopped /\ (g.cp = "complete" \/ g.approved \/ g.phase = "chapters")
    => Steps \ Optional \subseteq g.done

\* While a redo is contested its freeze is the structure first reviewed: no
\* redo and no kill makes the drifted text the measure.
FreezeStands ==
  [][\A s \in Steps : g.frozen[s] # Nothing => g'.frozen[s] \in {g.frozen[s], Nothing}]_vars

\* No step runs on the drifted output of a redone step before the reviewer
\* has been told of the drift; of files that are the step's alone.
DriftTold ==
  \A s \in g.done :
    /\ pc = "step" /\ Drifted(g, shape, s)
    /\ \E f \in WritesOf[s] : /\ shape[f] # g.frozen[s][f]
                             /\ \A t \in Steps : f \in WritesOf[t] => t = s
    => s \in g.told

\* Under review every command stops, at a checkpoint or past the last step.
ReviewedCommandsStop == (reviewed /\ pc # "idle") ~> pc = "idle"

-----------------------------------------------------------------------------
(* What the code says of itself and does not do.                           *)

\* genesis.py:730-731: the drift of a frozen step that a redo does not list is
\* accepted, and its freeze is consumed; not if the step comes before the redo.
RulingConsumes == [][Redo => \A s \in g'.done : g'.frozen[s] = Nothing]_vars

\* cli.py:1812-1816: the steps a redo does not list stay done and are
\* skipped; genesis then has to come to its checkpoint again.
NeverWedged ==
  pc = "idle" /\ g.phase = "genesis" /\ g.cursor = N => g.cp # "none" \/ g.approved

\* genesis.py:10-11: failures retry up to max_revision_retries attempts, and
\* then an escalation is raised.
CommandsStop == pc # "idle" ~> pc = "idle"
=============================================================================

----------------------------- MODULE StepRetry ------------------------------
(***************************************************************************)
(* How often a failing step of a chapter is tried again: the attempts of   *)
(* one run of failures, the durable budget a success does not give back,   *)
(* the rewind of a scene split that cannot use the draft, the escalation   *)
(* to a reviewer, and what the next attempt is told of the last ones.      *)
(* One chapter, from its draft to its revision; the audit wave and the     *)
(* deterministic steps between them always pass here.  What the machine    *)
(* says of its failures is one voice, of which the families are counted;   *)
(* the other voice is the reviewer's, a family of its own.                 *)
(***************************************************************************)
EXTENDS Naturals

CONSTANTS
  MaxAttempts,  \* max_revision_retries
  MaxBudget,    \* max_audit_retries
  MaxFamilies,  \* _RETRY_HISTORY_MAX_FAMILIES
  MaxAnswers,   \* bound: answers given
  MaxKills      \* bound: processes killed

ASSUME StepRetryAssumption ==
  /\ MaxAttempts \in Nat \ {0} /\ MaxBudget \in Nat \ {0} /\ MaxFamilies \in Nat \ {0}
  /\ MaxAnswers \in Nat /\ MaxKills \in Nat

VARIABLES
  reviewed,  \* the review switches of config: all on, or --auto
  pc,        \* the command that runs: at a step, about to save, or ending
  st,        \* its PipelineState
  saved,     \* pipeline-state.json
  failures,  \* failing dispatches of a skill since its counters were reset
  answers,   \* answers given
  kills      \* processes killed
vars == <<reviewed, pc, st, saved, failures, answers, kills>>

Skills == {"draft", "lifecycle", "settle", "revise"}

\* The cursor: the split follows the draft, the lifecycle step runs the
\* settlement as well, and the settlement's own place is that of its redo.
Place    == [draft |-> 1, lifecycle |-> 3, settle |-> 4, revise |-> 5]
SplitAt  == 2
Over     == 6

Most == MaxBudget + MaxKills + 2   \* bound: failures are counted up to here

Voices == {"machine", "reviewer"}

\* The history of a step's failures, in the order in which their families were
\* first named: whether it holds the reviewer's last words, and how many
\* families it holds that are older and newer than these.
History == [words : BOOLEAN, older : 0..MaxFamilies, newer : 0..MaxFamilies]

State == [
  cursor   : 1..Over,
  attempts : [Skills -> 0..(MaxAttempts + 1)],  \* retry_counts
  budget   : [Skills -> 0..(MaxBudget + 1)],  \* retry_budget_consumed
  told     : [Skills -> SUBSET Voices],     \* retry_feedback
  known    : [Skills -> History],           \* retry_failure_history
  cp       : {"none", "settle", "escalation", "over"},
  why      : {"none", "attempts", "budget", "settle", "drift"},
  culprit  : Skills,                        \* the step that failed last
  good     : SUBSET Skills,                 \* the last dispatch brought what it should
  owed     : SUBSET Skills]                 \* the reviewer was not yet obeyed

TypeOK ==
  /\ reviewed \in BOOLEAN /\ pc \in {"idle", "step", "save", "end"}
  /\ st \in State /\ saved \in State
  /\ failures \in [Skills -> 0..Most] /\ answers \in 0..MaxAnswers /\ kills \in 0..MaxKills

Zero    == [s \in Skills |-> 0]
Nothing == [s \in Skills |-> {}]
NoHistory == [words |-> FALSE, older |-> 0, newer |-> 0]
NoneKnown == [s \in Skills |-> NoHistory]
Start ==
  [cursor |-> 1, attempts |-> Zero, budget |-> Zero, told |-> Nothing, known |-> NoneKnown,
   cp |-> "none", why |-> "none", culprit |-> "draft", good |-> {}, owed |-> {}]

Init ==
  /\ reviewed \in BOOLEAN /\ pc = "idle" /\ st = Start /\ saved = Start
  /\ failures = Zero /\ answers = 0 /\ kills = 0

-----------------------------------------------------------------------------
(* What a failure and a success do to the state.                           *)

Least(i, j) == IF i < j THEN i ELSE j

Recalled(h) == (IF h.words THEN {"reviewer"} ELSE {})
            \cup (IF h.older + h.newer > 0 THEN {"machine"} ELSE {})

\* The history once its newest families count as many: beyond MaxFamilies the
\* oldest are dropped, and the reviewer's words are one of them.
Capped(h, newer) ==
  LET kept  == Least(newer, MaxFamilies)
      words == h.words /\ kept < MaxFamilies
      room  == MaxFamilies - kept - (IF words THEN 1 ELSE 0) IN
  [words |-> words, older |-> Least(h.older, room), newer |-> kept]

ToldFaulty(x, s, fresh) ==                  \* only the last failure
  [x EXCEPT !.told[s] = {"machine"}, !.known[s] = Capped(@, @.newer + fresh)]
\* accumulate_retry_feedback: a failure is told with what the history holds,
\* and then enters it with the families which are not in it yet.
Told(x, s, fresh) ==
  [x EXCEPT !.told[s] = Recalled(x.known[s]) \cup {"machine"},
            !.known[s] = Capped(@, @.newer + fresh)]

\* The states after a failure that names a family, and no more than most.
Tellings(x, s, most) ==
  {Told(x, s, fresh) : fresh \in
     {n \in 0..most : n = 0 => x.known[s].older + x.known[s].newer > 0}}

\* The same for the reviewer's words: of a family that the history holds, they
\* keep its place; else they are its newest family, and those of an earlier
\* answer one of the older.
Worded(x, s, again) ==
  LET h == x.known[s] IN
  [x EXCEPT !.told[s] = Recalled(h) \cup {"reviewer"}, !.owed = @ \cup {s},
            !.known[s] = IF again /\ h.words THEN h
                         ELSE [words |-> TRUE, newer |-> 0,
                               older |-> Least(h.older + h.newer + (IF h.words THEN 1 ELSE 0),
                                               MaxFamilies - 1)]]

\* _clear_retry_feedback: of a step whose gate passes.
Obeyed(x, s) == [x EXCEPT !.told[s] = {}, !.known[s] = NoHistory, !.owed = @ \ {s}]

Failing(x, s) == [x EXCEPT !.culprit = s, !.good = @ \ {s}]
Escalated(x, why) == [x EXCEPT !.cp = "escalation", !.why = why]

\* The durable budget; RetryExhaustedError becomes an escalation.
Charged(x, s)   == [x EXCEPT !.budget[s] = @ + 1]
ExhaustedLate(x, s) == x.budget[s] > MaxBudget + 1
Exhausted(x, s) == x.budget[s] > MaxBudget

\* _handle_failure once the budget is charged: exhausted, a failure that no
\* retry can mend, one more try, or the attempts are used up.
Handled(x, s, deterministic) ==
  LET counted == [Failing(x, s) EXCEPT !.attempts[s] = @ + 1] IN
  IF Exhausted(counted, s) THEN Escalated(counted, "budget")
  ELSE IF deterministic \/ counted.attempts[s] >= MaxAttempts THEN Escalated(counted, "attempts")
  ELSE counted
HandleFailure(x, s, deterministic) == Handled(Charged(x, s), s, deterministic)

ForgivenFaulty(x, s) ==                     \* a success gives the budget back
  [x EXCEPT !.attempts[s] = 0, !.known[s] = NoHistory, !.budget[s] = 0]
\* _reset_retries
Forgiven(x, s) == [x EXCEPT !.attempts[s] = 0, !.known[s] = NoHistory]
Done(x, s) == [Forgiven(x, s) EXCEPT !.good = @ \cup {s}, !.owed = @ \ {s}]

AdvanceTo(x, place) == [x EXCEPT !.cursor = place]

\* The last step closes the chapter and sweeps what its steps were told.
Close(x) ==
  [AdvanceTo(x, Over) EXCEPT !.cp = "over", !.told = Nothing, !.known = NoneKnown, !.owed = {}]

\* The settlement is reviewed, or committed at once unless its facts are
\* refused.
Settled(x) ==
  LET ahead == AdvanceTo(x, Place.revise) IN
  {[ahead EXCEPT !.cp = "settle"]} \cup IF reviewed THEN {} ELSE {ahead}

\* Where a step that is done may lead.
After(x, s) ==
  CASE s = "draft"  -> {AdvanceTo(x, SplitAt)}
    [] s = "settle" -> Settled(x)
    [] s = "revise" -> {Close(x)}

-----------------------------------------------------------------------------
(* A command.                                                              *)

\* state_heal: feedback without a budget means that one was lost.
Healed(x) ==
  [x EXCEPT !.budget = [s \in Skills |-> IF x.told[s] # {} /\ @[s] = 0 THEN 1 ELSE @[s]]]

\* next, or resume, which heals the counters first.
Command ==
  /\ pc = "idle" /\ st.cp = "none" /\ pc' = "step"
  /\ \/ UNCHANGED <<st, saved>>
     \/ st' = Healed(st) /\ saved' = st'
  /\ UNCHANGED <<reviewed, failures, answers, kills>>

Returns(x) == st' = x /\ pc' = IF x.cp = "none" THEN "save" ELSE "end"

At(place) == pc = "step" /\ st.cursor = place
Counts(s) == failures' = [failures EXCEPT ![s] = IF @ < Most THEN @ + 1 ELSE @]
Rest      == UNCHANGED <<reviewed, saved, answers, kills>>

\* The skills that are dispatched on their own.
Serial == {"draft", "settle", "revise"}

\* The dispatch fails, transiently or for good; what it said on stderr is
\* told to the next attempt.
DispatchFails(s) ==
  /\ At(Place[s]) /\ s # "settle" /\ Counts(s) /\ Rest
  /\ \E x \in {st} \cup Tellings(st, s, 1), deterministic \in BOOLEAN :
       Returns(HandleFailure(x, s, deterministic))

\* A settlement that fails is not counted: the reviewer is called.
SettleFails ==
  /\ At(Place.settle) /\ Rest /\ UNCHANGED failures
  /\ Returns(Escalated(Failing(st, "settle"), "settle"))

\* A settlement on stale declarations is refused before it is dispatched.
GuardRefuses ==
  /\ At(Place.settle) /\ Counts("settle") /\ Rest
  /\ \E told \in Tellings(st, "settle", MaxFamilies) :
       Returns(HandleFailure(told, "settle", FALSE))

\* The gate fails hard, on one check or on many, and the feedback is written.
\* Without review the second failure is let pass, and the step may still miss
\* its output.
HardGate(s, told) ==
  LET x == Failing(Charged(told, s), s) IN
  IF Exhausted(x, s) THEN Returns(Escalated(x, "budget"))
  ELSE IF reviewed THEN Returns(Handled(x, s, FALSE))
  ELSE IF x.attempts[s] = 0 THEN Returns([x EXCEPT !.attempts[s] = 1])
  ELSE LET passed == [x EXCEPT !.attempts[s] = 0] IN
       \/ \E y \in After(Done(passed, s), s) : Returns(y)
       \/ Returns(HandleFailure(passed, s, FALSE))
GateFailsHard(s) ==
  /\ At(Place[s]) /\ Counts(s) /\ Rest
  /\ \E told \in Tellings(st, s, MaxFamilies) : HardGate(s, told)

\* The gate passes, and the declared output is not there.
OutputMissingFaulty(s) ==                   \* the step is advanced all the same
  /\ At(Place[s]) /\ Counts(s) /\ Rest
  /\ \E y \in After(Forgiven(Failing(Obeyed(st, s), s), s), s) : Returns(y)
OutputMissing(s) ==
  /\ At(Place[s]) /\ Counts(s) /\ Rest
  /\ Returns(HandleFailure(Obeyed(st, s), s, FALSE))

\* The step is done: its gate has passed; or failed only softly, or the
\* chapter needs no revision, and then what it was told stays.
Passes(s) ==
  /\ At(Place[s]) /\ Rest /\ UNCHANGED failures
  /\ \E x \in {st, Obeyed(st, s)} : \E y \in After(Done(x, s), s) : Returns(y)

\* The revised chapter is validated again after the revision is done.
RevalidationFails ==
  /\ At(Place.revise) /\ Counts("revise") /\ Rest
  /\ \E told \in Tellings(Done(Obeyed(st, "revise"), "revise"), "revise", 1) :
       Returns(HandleFailure(told, "revise", FALSE))

\* The contract of a file has drifted: nothing is counted.
DriftEscalates(s) ==
  /\ At(Place[s]) /\ Rest /\ UNCHANGED failures
  /\ Returns(Escalated(Failing(st, s), "drift"))

\* A draft that can be split is one, also when a human has mended it.
SplitPasses ==
  /\ At(SplitAt) /\ Rest /\ UNCHANGED failures
  /\ Returns([AdvanceTo(st, Place.lifecycle) EXCEPT !.good = @ \cup {"draft"}])

\* The draft cannot be split: it is charged, and the cursor goes back to it.
SplitFails ==
  /\ At(SplitAt) /\ Counts("draft") /\ Rest
  /\ \E told \in Tellings(st, "draft", 1) :
     LET x == Failing(Charged(told, "draft"), "draft") IN
     Returns(IF Exhausted(x, "draft") THEN Escalated(x, "budget")
             ELSE AdvanceTo(x, Place.draft))

\* The lifecycle step and the settlement, one after the other; a failed
\* settlement is told why, and outweighs a failed lifecycle.
PairSettleFails ==
  /\ At(Place.lifecycle) /\ Rest /\ UNCHANGED failures
  /\ \E x \in {st} \cup Tellings(st, "settle", 1) :
       Returns(Escalated(Failing(x, "settle"), "settle"))

\* The gates of both run in order, and then their outputs are looked for.
PairGateFails(s) ==
  /\ At(Place.lifecycle) /\ Counts(s) /\ Rest
  /\ LET before == IF s = "settle" THEN Obeyed(st, "lifecycle") ELSE st IN
     \E told \in Tellings(before, s, MaxFamilies) : Returns(HandleFailure(told, s, FALSE))

Both == Obeyed(Obeyed(st, "lifecycle"), "settle")
PairOutputMissing(s) ==
  /\ At(Place.lifecycle) /\ Counts(s) /\ Rest
  /\ LET before == IF s = "settle" THEN Done(Both, "lifecycle") ELSE Both IN
     Returns(HandleFailure(before, s, FALSE))

PairPasses ==
  /\ At(Place.lifecycle) /\ Rest /\ UNCHANGED failures
  /\ \E y \in Settled(Done(Done(Both, "lifecycle"), "settle")) : Returns(y)

Save ==
  /\ pc = "save" /\ saved' = st /\ pc' = "step"
  /\ UNCHANGED <<reviewed, st, failures, answers, kills>>
End ==
  /\ pc = "end" /\ saved' = st /\ pc' = "idle"
  /\ UNCHANGED <<reviewed, st, failures, answers, kills>>

\* The process dies: what it counted since the last save is lost.
Kill ==
  /\ pc # "idle" /\ kills < MaxKills /\ kills' = kills + 1
  /\ pc' = "idle" /\ st' = saved /\ UNCHANGED <<reviewed, saved, failures, answers>>

-----------------------------------------------------------------------------
(* The reviewer.                                                           *)

Answers(x) ==
  /\ pc = "idle" /\ answers < MaxAnswers /\ answers' = answers + 1
  /\ st' = [x EXCEPT !.cp = "none", !.why = "none"] /\ saved' = st'
  /\ UNCHANGED <<reviewed, pc, kills>>

ResetFaulty(x) == [x EXCEPT !.attempts = Zero]     \* the durable budget stays
\* clear_checkpoint and _reset_retry_budget, of the chapter's steps
Reset(x) == [x EXCEPT !.attempts = Zero, !.budget = Zero]

\* The step whose slot takes the reviewer's words: the one at the cursor, and
\* the draft for the split (ESCALATION_PIPELINE_TARGET).
Target(x) == IF x.cursor = SplitAt THEN "draft" ELSE CHOOSE s \in Skills : Place[s] = x.cursor

\* Any answer to an escalation gives the counters back.
Resolve ==
  /\ st.cp = "escalation" /\ failures' = Zero
  /\ \E x \in {Reset(st)} \cup {Worded(Reset(st), Target(st), again) : again \in BOOLEAN} :
       Answers(x)

ApproveSettle == st.cp = "settle" /\ Answers(st) /\ UNCHANGED failures
ModifySettle  == st.cp = "settle" /\ Answers(AdvanceTo(st, Place.settle)) /\ UNCHANGED failures
RejectSettle  ==
  st.cp = "settle" /\ Answers(AdvanceTo(Reset(st), Place.settle)) /\ failures' = Zero

Review == Resolve \/ ApproveSettle \/ ModifySettle \/ RejectSettle

Step ==
  \/ \E s \in Serial : DispatchFails(s) \/ GateFailsHard(s) \/ OutputMissing(s) \/ Passes(s)
  \/ \E s \in Serial : DriftEscalates(s)
  \/ DispatchFails("lifecycle")
  \/ SettleFails \/ GuardRefuses \/ RevalidationFails \/ SplitPasses \/ SplitFails
  \/ PairSettleFails \/ PairPasses
  \/ \E s \in {"lifecycle", "settle"} : PairGateFails(s) \/ PairOutputMissing(s)
  \/ Save \/ End

Next     == Command \/ Step \/ Kill \/ Review
Spec     == Init /\ [][Next]_vars
\* A command that runs goes on; nobody has to give one.
FairSpec == Spec /\ WF_vars(Step)

-----------------------------------------------------------------------------
(* Properties.                                                             *)

\* A step never fails more often than its budget allows before a reviewer is
\* called: not through successes in between, rewinds or fresh attempts.  A
\* kill may lose the one failure that was not saved.
BudgetHolds == \A s \in Skills : failures[s] <= MaxBudget + 1 + kills

\* Under review, the reviewer is called for a spent budget only when as many
\* dispatches have failed since the last answer, up to the one charge that
\* healing may put back.
ExhaustionEarned ==
  reviewed /\ st.cp = "escalation" /\ st.why = "budget" => failures[st.culprit] >= MaxBudget

\* What the reviewer told a step is repeated to every attempt until its gate
\* has passed or the step is done: only MaxFamilies families of failures first
\* named after these words, and still in the history, can take their place.
ReviewerHeard ==
  \A s \in st.owed : "reviewer" \in st.told[s] \/ st.known[s].newer = MaxFamilies

\* Under review, the cursor is past a step only if its last dispatch brought
\* what it should; no answer and no failure path skips one.
NothingSkipped ==
  reviewed => \A s \in Skills : Place[s] < st.cursor /\ st.cursor # SplitAt => s \in st.good

\* A command comes back, at a checkpoint or with the chapter.
CommandReturns == pc # "idle" ~> pc = "idle"

-----------------------------------------------------------------------------
(* What the code says of itself and does not do.                           *)

\* cli.py:1300-1305: the reviewer's words go to the failing step, since the
\* cursor still points at it.
WordsFindTheStep == st.cp = "escalation" => Target(st) = st.culprit

\* cli.py:1321-1323: the rounds in which the machine fails later keep the
\* reviewer's constraint.
WordsAlwaysHeard == \A s \in st.owed : "reviewer" \in st.told[s]
=============================================================================

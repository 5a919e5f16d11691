-------------------------- MODULE StepRetry_proofs --------------------------
(***************************************************************************)
(* The counters and the words of StepRetry, whatever the limits are.       *)
(*  - IInv: types and BudgetHolds.  Every failing dispatch charges the     *)
(*    budget of its skill in the state the command goes on with, no        *)
(*    success lowers it, and a command that goes on has not exceeded it.   *)
(*  - SInv: ReviewerHeard, NothingSkipped and ExhaustionEarned, of the     *)
(*    state in memory and of the file alike, since a kill exchanges them.  *)
(***************************************************************************)
EXTENDS StepRetry, TLAPS

\* A state within its limits, and one that a command may go on with.
Within(x) == \A s \in Skills : x.attempts[s] <= MaxAttempts /\ x.budget[s] <= MaxBudget
Known(x)  == x \in State /\ x.cursor # Over     \* not behind the last step
Ok(x)     == x \in State /\ (x.cp # "escalation" => Within(x)) /\ (x.cp # "over" => Known(x))
Live(x)   == Known(x) /\ x.cp = "none" /\ Within(x)

\* y follows x with the same budget, or with s charged.
Same(x, y)       == y.budget = x.budget
Paid(x, y, s)    == y.budget = [x.budget EXCEPT ![s] = @ + 1]

\* What a state keeps: the budget of a skill counts its failures up to the
\* ones that kills have hidden, and the file is at most one failure behind.
IInv ==
  /\ TypeOK
  /\ Ok(st) /\ Ok(saved)
  /\ pc \in {"step", "save"} => st.cp = "none"
  /\ pc \in {"idle", "step"} => st = saved
  /\ \A s \in Skills : failures[s] <= st.budget[s] + kills
  /\ \A s \in Skills : failures[s] <= saved.budget[s] + kills + 1

-----------------------------------------------------------------------------
(* What the helpers do to the state of a command.                          *)

LEMMA Limits == MaxAttempts \in Nat /\ MaxAttempts >= 1 /\ MaxBudget \in Nat /\ MaxBudget >= 1
                /\ MaxFamilies \in Nat /\ MaxFamilies >= 1
                /\ MaxAnswers \in Nat /\ MaxKills \in Nat /\ Most \in Nat
  BY StepRetryAssumption DEF Most

LEMMA AttemptsSet ==
  ASSUME NEW f \in [Skills -> 0..(MaxAttempts + 1)], NEW s \in Skills, NEW n \in {0, 1}
  PROVE  [f EXCEPT ![s] = n] \in [Skills -> 0..(MaxAttempts + 1)]
<1>1. n \in 0..(MaxAttempts + 1)
  BY Limits
<1> QED
  BY <1>1

LEMMA HistoryTypes ==
  /\ NoHistory \in History
  /\ \A h \in History, n \in Nat : Capped(h, n) \in History
  /\ \A h \in History : h.words \in BOOLEAN /\ h.older \in Nat /\ h.newer \in Nat
  /\ \A h : Recalled(h) \in SUBSET Voices
<1>1. NoHistory \in History
  BY Limits DEF NoHistory, History
<1>2. ASSUME NEW h \in History, NEW n \in Nat
      PROVE  Capped(h, n) \in History
  <2> DEFINE kept  == Least(n, MaxFamilies)
             words == h.words /\ kept < MaxFamilies
             room  == MaxFamilies - kept - (IF words THEN 1 ELSE 0)
  <2>1. kept \in 0..MaxFamilies
    BY Limits DEF Least
  <2>2. h.words \in BOOLEAN /\ h.older \in 0..MaxFamilies
    BY DEF History
  <2>3. words \in BOOLEAN /\ room \in 0..MaxFamilies
    <3>1. CASE words
      BY <3>1, <2>1, Limits
    <3>2. CASE ~words
      BY <3>2, <2>1, Limits
    <3> QED
      BY <3>1, <3>2
  <2>4. Capped(h, n) = [words |-> words, older |-> Least(h.older, room), newer |-> kept]
    BY DEF Capped
  <2> HIDE DEF kept, words, room
  <2>5. Least(h.older, room) \in 0..MaxFamilies
    BY <2>2, <2>3, Limits DEF Least
  <2> QED
    BY <2>1, <2>3, <2>4, <2>5 DEF History
<1>3. \A h \in History : h.words \in BOOLEAN /\ h.older \in Nat /\ h.newer \in Nat
  BY Limits DEF History
<1>4. \A h : Recalled(h) \in SUBSET Voices
  BY DEF Recalled, Voices
<1> QED
  BY <1>1, <1>2, <1>3, <1>4

LEMMA ToldIs ==
  ASSUME NEW x, x \in State, NEW s \in Skills, NEW most \in Nat, NEW t \in Tellings(x, s, most)
  PROVE  \E n \in Nat :
           /\ t = Told(x, s, n) /\ t \in State
           /\ x.known[s].newer + n \in Nat /\ x.known[s].newer + n >= x.known[s].newer
<1>1. PICK n \in 0..most : t = Told(x, s, n)
  BY DEF Tellings
<1> DEFINE k == x.known[s]
           h == Capped(k, k.newer + n)
           voices == Recalled(k) \cup {"machine"}
<1>2. k \in History
  BY DEF State
<1> HIDE DEF k
<1>3. k.newer + n \in Nat /\ k.newer + n >= k.newer /\ h \in History
  <2>1. k.newer \in Nat /\ n \in Nat
    BY <1>2, HistoryTypes
  <2>2. k.newer + n \in Nat /\ k.newer + n >= k.newer
    BY <2>1
  <2> QED
    BY <2>2, <1>2, HistoryTypes
<1>4. voices \in SUBSET Voices
  BY HistoryTypes DEF Voices
<1>5. t = [x EXCEPT !.told[s] = voices, !.known[s] = h]
  <2>1. x.known \in [Skills -> History] /\ x = [x EXCEPT !.known = x.known]
    BY DEF State
  <2> QED
    BY <1>1, <2>1 DEF Told, State, k
<1> HIDE DEF h, voices
<1>6. t \in State
  BY <1>3, <1>4, <1>5 DEF State
<1> QED
  BY <1>1, <1>3, <1>6 DEF k

LEMMA ToldLive ==
  ASSUME NEW x, Live(x), NEW s \in Skills, NEW most \in Nat, NEW t \in Tellings(x, s, most)
  PROVE  Live(t) /\ Same(x, t)
<1>1. x \in State
  BY DEF Live, Known
<1>2. PICK n \in Nat : t = Told(x, s, n) /\ t \in State
  BY <1>1, ToldIs
<1>3. /\ t.cursor = x.cursor /\ t.cp = x.cp /\ t.attempts = x.attempts /\ t.budget = x.budget
  BY <1>1, <1>2 DEF Told, State
<1> QED
  BY <1>2, <1>3 DEF Live, Within, Same, Known

\* The reviewer's words are in what the step is told, and in its history.
LEMMA WordedIs ==
  ASSUME NEW x, x \in State, NEW s \in Skills, NEW again \in BOOLEAN
  PROVE  LET y == Worded(x, s, again) IN
         /\ y \in State /\ y.cursor = x.cursor /\ y.good = x.good
         /\ y.attempts = x.attempts /\ y.budget = x.budget /\ y.owed = x.owed \cup {s}
         /\ "reviewer" \in y.told[s] /\ y.known[s].words
         /\ \A r \in Skills \ {s} : y.told[r] = x.told[r] /\ y.known[r] = x.known[r]
<1> DEFINE h == x.known[s]
           sum == h.older + h.newer + (IF h.words THEN 1 ELSE 0)
           k == IF again /\ h.words THEN h
                ELSE [words |-> TRUE, newer |-> 0, older |-> Least(sum, MaxFamilies - 1)]
           voices == Recalled(h) \cup {"reviewer"}
           y == [x EXCEPT !.told[s] = voices, !.owed = @ \cup {s}, !.known[s] = k]
<1>1. h \in History
  BY DEF State
<1>2. k \in History /\ k.words
  <2>1. sum \in Nat
    <3>1. h.older \in Nat /\ h.newer \in Nat
      BY <1>1, HistoryTypes
    <3> HIDE DEF h
    <3> QED
      BY <3>1
  <2> HIDE DEF sum
  <2>2. Least(sum, MaxFamilies - 1) \in 0..MaxFamilies
    BY <2>1, Limits DEF Least
  <2>3. [words |-> TRUE, newer |-> 0, older |-> Least(sum, MaxFamilies - 1)] \in History
    BY <2>2, Limits DEF History
  <2> QED
    BY <1>1, <2>3
<1>3. voices \in SUBSET Voices /\ "reviewer" \in voices
  BY HistoryTypes DEF Voices
<1>4. Worded(x, s, again) = y
  BY DEF Worded
<1> HIDE DEF h, k, voices
<1>5. y \in State
  BY <1>2, <1>3 DEF State
<1>6. /\ y.cursor = x.cursor /\ y.good = x.good /\ y.attempts = x.attempts
      /\ y.budget = x.budget /\ y.owed = x.owed \cup {s}
      /\ y.told = [x.told EXCEPT ![s] = voices] /\ y.known = [x.known EXCEPT ![s] = k]
  BY DEF State
<1>7. x.told \in [Skills -> SUBSET Voices] /\ x.known \in [Skills -> History]
  BY DEF State
<1> QED
  BY <1>2, <1>3, <1>4, <1>5, <1>6, <1>7

LEMMA ObeyedLive ==
  ASSUME NEW x, Live(x), NEW s \in Skills
  PROVE  Live(Obeyed(x, s)) /\ Same(x, Obeyed(x, s))
  BY HistoryTypes DEF Live, Within, Same, Obeyed, State, Known

LEMMA FailingLive ==
  ASSUME NEW x, Live(x), NEW s \in Skills
  PROVE  Live(Failing(x, s)) /\ Same(x, Failing(x, s))
  BY DEF Live, Within, Same, Failing, State, Known

LEMMA DoneLive ==
  ASSUME NEW x, Live(x), NEW s \in Skills
  PROVE  Live(Done(x, s)) /\ Same(x, Done(x, s))
<1> DEFINE y == Forgiven(x, s)
<1>1. Live(y) /\ Same(x, y)
  <2>1. /\ y.cp = x.cp /\ y.budget = x.budget /\ y.attempts = [x.attempts EXCEPT ![s] = 0]
        /\ x.attempts \in [Skills -> 0..(MaxAttempts + 1)]
    BY DEF Live, Forgiven, State, Known
  <2>2. Known(y)
    <3>1. [x.attempts EXCEPT ![s] = 0] \in [Skills -> 0..(MaxAttempts + 1)]
      BY Limits DEF Live, State, Known
    <3>2. [x.known EXCEPT ![s] = NoHistory] \in [Skills -> History]
      BY HistoryTypes DEF Live, State, Known
    <3> QED
      BY <3>1, <3>2 DEF Live, Forgiven, State, Known
  <2> HIDE DEF y
  <2>3. Within(y)
    BY <2>1, Limits DEF Live, Within, Known
  <2> QED
    BY <2>1, <2>2, <2>3 DEF Live, Same, Known
<1> HIDE DEF y
<1>2. Live(Done(x, s)) /\ Same(y, Done(x, s))
  BY <1>1 DEF Live, Within, Same, Done, State, y, Known
<1> QED
  BY <1>1, <1>2 DEF Same

LEMMA AdvanceLive ==
  ASSUME NEW x, Live(x), NEW p \in 1..(Over - 1)
  PROVE  Live(AdvanceTo(x, p)) /\ Same(x, AdvanceTo(x, p))
  BY DEF Live, Within, Same, AdvanceTo, State, Known, Over

\* A state may be charged beyond its limits when it is then escalated.
LEMMA EscalatedOk ==
  ASSUME NEW x, Known(x), NEW why \in {"attempts", "budget", "settle", "drift"}
  PROVE  Ok(Escalated(x, why)) /\ Same(x, Escalated(x, why))
  BY DEF Ok, Same, Escalated, State, Known

LEMMA ChargedState ==
  ASSUME NEW x, Live(x), NEW s \in Skills
  PROVE  /\ Known(Charged(x, s)) /\ Charged(x, s).cp = "none" /\ Paid(x, Charged(x, s), s)
         /\ Charged(x, s).attempts = x.attempts
  BY Limits DEF Live, Within, Charged, Paid, State, Known

\* The charge is in already, and it did not exhaust the budget.
LEMMA HandledCounts ==
  ASSUME NEW x, Known(x), x.cp = "none", NEW s \in Skills, NEW hard \in BOOLEAN,
         \A r \in Skills : x.attempts[r] <= MaxAttempts,
         \A r \in Skills \ {s} : x.budget[r] <= MaxBudget
  PROVE  Ok(Handled(x, s, hard)) /\ Same(x, Handled(x, s, hard))
<1> DEFINE f == Failing(x, s)
           y == [f EXCEPT !.attempts[s] = @ + 1]
<1>1. Known(f) /\ f.cp = "none" /\ f.budget = x.budget /\ f.attempts = x.attempts
  BY DEF Failing, State, Known
<1> HIDE DEF f
<1>2. f.attempts[s] \in Nat /\ f.attempts[s] <= MaxAttempts
  BY <1>1, Limits DEF State, Known
<1>3. /\ Known(y) /\ y.cp = "none" /\ y.budget = x.budget
      /\ y.attempts = [x.attempts EXCEPT ![s] = @ + 1]
  BY <1>1, <1>2, Limits DEF State, Known
<1>4. Handled(x, s, hard) =
        IF Exhausted(y, s) THEN Escalated(y, "budget")
        ELSE IF hard \/ y.attempts[s] >= MaxAttempts THEN Escalated(y, "attempts")
        ELSE y
  BY DEF Handled, f
<1> HIDE DEF y
<1>5. CASE Exhausted(y, s) \/ hard \/ y.attempts[s] >= MaxAttempts
  BY <1>3, <1>4, <1>5, EscalatedOk DEF Same
<1>6. CASE ~(Exhausted(y, s) \/ hard \/ y.attempts[s] >= MaxAttempts)
  <2>1. x.attempts \in [Skills -> Nat] /\ x.budget \in [Skills -> Nat]
    BY Limits DEF State, Known
  <2>2. Within(y)
    BY <2>1, <1>6, <1>3, Limits DEF Within, Exhausted
  <2> QED
    BY <2>2, <1>6, <1>3, <1>4 DEF Ok, Same, Known
<1> QED
  BY <1>5, <1>6

LEMMA HandledUncharged ==
  ASSUME NEW x, Live(x), NEW s \in Skills, NEW hard \in BOOLEAN
  PROVE  Ok(Handled(x, s, hard)) /\ Same(x, Handled(x, s, hard))
  BY HandledCounts DEF Live, Within, Known

LEMMA HandledOk ==
  ASSUME NEW x, Live(x), NEW s \in Skills, NEW hard \in BOOLEAN
  PROVE  Ok(HandleFailure(x, s, hard)) /\ Paid(x, HandleFailure(x, s, hard), s)
<1> DEFINE c == Charged(x, s)
<1>1. Known(c) /\ c.cp = "none" /\ Paid(x, c, s) /\ c.attempts = x.attempts
  BY ChargedState
<1> HIDE DEF c
<1>2. /\ \A r \in Skills : c.attempts[r] <= MaxAttempts
      /\ \A r \in Skills \ {s} : c.budget[r] <= MaxBudget
  BY <1>1 DEF Live, Within, Paid, State, Known
<1>3. Ok(Handled(c, s, hard)) /\ Same(c, Handled(c, s, hard))
  BY <1>1, <1>2, HandledCounts
<1> QED
  BY <1>1, <1>3 DEF HandleFailure, Same, Paid, c

LEMMA CloseOk ==
  ASSUME NEW x, Live(x)
  PROVE  Ok(Close(x)) /\ Same(x, Close(x))
<1> DEFINE y == AdvanceTo(x, Over)
<1>1. /\ y \in State /\ y.cp = "none" /\ y.budget = x.budget /\ y.attempts = x.attempts
  BY DEF Live, Known, AdvanceTo, State, Over
<1> HIDE DEF y
<1>2. /\ Close(x) \in State /\ Close(x).cp = "over" /\ Close(x).budget = x.budget
      /\ Close(x).attempts = x.attempts
  BY <1>1, HistoryTypes DEF Close, State, Nothing, NoneKnown, y
<1> QED
  BY <1>2 DEF Live, Ok, Within, Same

LEMMA SettledOk ==
  ASSUME NEW x, Live(x), NEW y \in Settled(x)
  PROVE  Ok(y) /\ Same(x, y)
<1> DEFINE z == AdvanceTo(x, Place.revise)
<1>1. Live(z) /\ Same(x, z)
  BY AdvanceLive DEF Over, Place
<1>2. y = z \/ y = [z EXCEPT !.cp = "settle"]
  BY DEF Settled
<1> HIDE DEF z
<1>3. Ok(z) /\ Ok([z EXCEPT !.cp = "settle"]) /\ Same(z, [z EXCEPT !.cp = "settle"])
  BY <1>1 DEF Live, Ok, Within, Same, State, Known
<1> QED
  BY <1>1, <1>2, <1>3 DEF Same

LEMMA AfterOk ==
  ASSUME NEW x, Live(x), NEW s \in Serial, NEW y \in After(x, s)
  PROVE  Ok(y) /\ Same(x, y)
<1>1. CASE s = "draft"
  <2>1. y = AdvanceTo(x, SplitAt)
    BY <1>1 DEF After
  <2> QED
    BY <2>1, AdvanceLive DEF SplitAt, Over, Live, Ok, Known
<1>2. CASE s = "settle"
  <2>1. y \in Settled(x)
    BY <1>2 DEF After
  <2> QED
    BY <2>1, SettledOk
<1>3. CASE s = "revise"
  <2>1. y = Close(x)
    BY <1>3 DEF After
  <2> QED
    BY <2>1, CloseOk
<1> QED
  BY <1>1, <1>2, <1>3 DEF Serial

-----------------------------------------------------------------------------
(* The invariant.                                                          *)

LEMMA SkillSets == Serial \subseteq Skills /\ "draft" \in Skills /\ "settle" \in Skills
                   /\ "lifecycle" \in Skills /\ "revise" \in Skills
  BY DEF Serial, Skills

LEMMA InitInvariant == Init => IInv
<1> SUFFICES ASSUME Init PROVE IInv
  OBVIOUS
<1>1. Known(Start) /\ Start.budget = Zero /\ Start.attempts = Zero
  BY Limits, HistoryTypes DEF Start, State, Zero, Nothing, NoneKnown, Over, Skills, Known
<1>2. TypeOK
  BY <1>1, Limits DEF Init, TypeOK, Zero, Known
<1>3. Ok(st)
  BY <1>1, Limits DEF Init, Ok, Within, Zero, Known
<1> QED
  BY <1>1, <1>2, <1>3, Limits DEF Init, IInv, Zero

\* A step that returns to the loop, or ends the command: every failing
\* dispatch it counts was charged.
LEMMA ReturnKeeps ==
  ASSUME IInv, pc = "step", NEW y, Ok(y), Returns(y), Rest,
         NEW C \in SUBSET Skills,
         \A s \in C : y.budget[s] >= st.budget[s] + 1,
         \A s \in Skills : y.budget[s] >= st.budget[s],
         failures' \in [Skills -> 0..Most],
         \A s \in Skills : failures'[s] <= failures[s] + (IF s \in C THEN 1 ELSE 0)
  PROVE  IInv'
<1>1. /\ st = saved /\ st \in State /\ y \in State /\ st' = y /\ saved' = saved
      /\ failures \in [Skills -> 0..Most] /\ kills \in Nat /\ kills' = kills
  BY Limits DEF IInv, Ok, Returns, Rest, TypeOK, Known
<1>2. TypeOK'
  BY <1>1 DEF IInv, TypeOK, Returns, Rest
<1>3. Ok(st)' /\ Ok(saved)'
  BY <1>1 DEF IInv, Ok, Within, Known
<1>4. (pc \in {"step", "save"} => st.cp = "none")' /\ (pc \in {"idle", "step"} => st = saved)'
  BY <1>1 DEF Returns
<1>5. ASSUME NEW s \in Skills
      PROVE  failures'[s] <= st'.budget[s] + kills' /\ failures'[s] <= saved'.budget[s] + kills' + 1
  <2>1. /\ y.budget[s] \in Nat /\ st.budget[s] \in Nat /\ failures[s] \in Nat
        /\ failures'[s] \in Nat /\ failures[s] <= st.budget[s] + kills
    BY <1>1, Limits DEF State, IInv, Most, Known
  <2> QED
    BY <1>1, <2>1
<1> QED
  BY <1>2, <1>3, <1>4, <1>5 DEF IInv

LEMMA CountsKeeps ==
  ASSUME IInv, NEW s \in Skills, Counts(s)
  PROVE  /\ failures' \in [Skills -> 0..Most]
         /\ \A r \in Skills : failures'[r] <= failures[r] + (IF r \in {s} THEN 1 ELSE 0)
<1>1. failures \in [Skills -> 0..Most]
  BY DEF IInv, TypeOK
<1> QED
  BY <1>1, Limits DEF Counts

\* The two ways a step returns: a failure that is counted and charged, and
\* anything that is not counted.
LEMMA CountedKeeps ==
  ASSUME IInv, pc = "step", NEW s \in Skills, Counts(s), Rest, NEW y, Ok(y), Returns(y),
         y.budget[s] >= st.budget[s] + 1, \A r \in Skills : y.budget[r] >= st.budget[r]
  PROVE  IInv'
<1> DEFINE C == {s}
<1>1. C \in SUBSET Skills /\ \A r \in C : y.budget[r] >= st.budget[r] + 1
  OBVIOUS
<1>2. /\ failures' \in [Skills -> 0..Most]
      /\ \A r \in Skills : failures'[r] <= failures[r] + (IF r \in C THEN 1 ELSE 0)
  BY CountsKeeps
<1> HIDE DEF C
<1> QED
  BY <1>1, <1>2, ReturnKeeps

LEMMA FailedKeeps ==
  ASSUME IInv, pc = "step", NEW s \in Skills, Counts(s), Rest, NEW x, Live(x), Same(st, x),
         NEW hard \in BOOLEAN, Returns(HandleFailure(x, s, hard))
  PROVE  IInv'
<1> DEFINE y == HandleFailure(x, s, hard)
<1>1. Ok(y) /\ Paid(x, y, s) /\ Returns(y)
  BY HandledOk
<1> HIDE DEF y
<1>2. st.budget \in [Skills -> Nat]
  BY Limits DEF IInv, Ok, State, Known
<1>3. y.budget[s] >= st.budget[s] + 1 /\ \A r \in Skills : y.budget[r] >= st.budget[r]
  BY <1>1, <1>2 DEF Paid, Same
<1> QED
  BY <1>1, <1>3, CountedKeeps

LEMMA UncountedKeeps ==
  ASSUME IInv, pc = "step", Rest, UNCHANGED failures, NEW y, Ok(y), Same(st, y), Returns(y)
  PROVE  IInv'
<1> DEFINE C == {}
<1>1. C \in SUBSET Skills /\ \A r \in C : y.budget[r] >= st.budget[r] + 1
  OBVIOUS
<1>2. /\ failures' \in [Skills -> 0..Most]
      /\ \A r \in Skills : failures'[r] <= failures[r] + (IF r \in C THEN 1 ELSE 0)
  BY Limits DEF IInv, TypeOK
<1>3. \A r \in Skills : y.budget[r] >= st.budget[r]
  BY Limits DEF IInv, Ok, State, Same, Known
<1> HIDE DEF C
<1> QED
  BY <1>1, <1>2, <1>3, ReturnKeeps

LEMMA LiveAtStep == IInv /\ pc = "step" => Live(st) /\ Same(st, st)
  BY DEF IInv, Live, Ok, Same, Known

-----------------------------------------------------------------------------
(* Every action keeps it.                                                  *)

LEMMA DispatchFailsKeeps ==
  ASSUME IInv, NEW s \in Skills, DispatchFails(s)
  PROVE  IInv'
<1>1. pc = "step" /\ Counts(s) /\ Rest
  BY DEF DispatchFails, At
<1>2. PICK x \in {st} \cup Tellings(st, s, 1), hard \in BOOLEAN :
        Returns(HandleFailure(x, s, hard))
  BY DEF DispatchFails
<1>3. Live(x) /\ Same(st, x)
  BY <1>1, <1>2, LiveAtStep, ToldLive, SkillSets
<1> QED
  BY <1>1, <1>2, <1>3, FailedKeeps

LEMMA GuardRefusesKeeps ==
  ASSUME IInv, GuardRefuses
  PROVE  IInv'
<1>1. pc = "step" /\ Counts("settle") /\ Rest
  BY DEF GuardRefuses, At
<1>2. PICK t \in Tellings(st, "settle", MaxFamilies) : Returns(HandleFailure(t, "settle", FALSE))
  BY DEF GuardRefuses
<1>3. Live(t) /\ Same(st, t)
  BY <1>1, LiveAtStep, ToldLive, SkillSets, Limits
<1> QED
  BY <1>1, <1>2, <1>3, FailedKeeps, SkillSets

LEMMA GateFailsHardKeeps ==
  ASSUME IInv, NEW s \in Serial, GateFailsHard(s)
  PROVE  IInv'
<1>0. PICK t \in Tellings(st, s, MaxFamilies) : HardGate(s, t)
  BY DEF GateFailsHard
<1> DEFINE c == Charged(t, s)
           x == Failing(c, s)
<1>1. pc = "step" /\ Counts(s) /\ Rest /\ s \in Skills
  BY SkillSets DEF GateFailsHard, At
<1>2. Live(t) /\ Same(st, t)
  BY <1>1, LiveAtStep, ToldLive, SkillSets, Limits
<1>3. Known(c) /\ c.cp = "none" /\ Paid(t, c, s) /\ c.attempts = t.attempts
  BY <1>1, <1>2, ChargedState
<1> HIDE DEF c
<1>4. Known(x) /\ x.cp = "none" /\ Paid(st, x, s) /\ x.attempts = t.attempts
  <2>1. Known(x) /\ x.cp = "none" /\ x.budget = c.budget /\ x.attempts = c.attempts
    BY <1>1, <1>3 DEF Failing, State, Known
  <2> QED
    BY <2>1, <1>2, <1>3 DEF Paid, Same
<1>5. IF Exhausted(x, s) THEN Returns(Escalated(x, "budget"))
      ELSE IF reviewed THEN Returns(Handled(x, s, FALSE))
      ELSE IF x.attempts[s] = 0 THEN Returns([x EXCEPT !.attempts[s] = 1])
      ELSE LET passed == [x EXCEPT !.attempts[s] = 0] IN
           \/ \E y \in After(Done(passed, s), s) : Returns(y)
           \/ Returns(HandleFailure(passed, s, FALSE))
  BY <1>0 DEF HardGate, x, c
<1> HIDE DEF x
<1>6. st.budget \in [Skills -> Nat] /\ x.attempts \in [Skills -> Nat]
  BY <1>4, Limits DEF IInv, Ok, State, Known
<1>7. x.budget[s] >= st.budget[s] + 1 /\ \A r \in Skills : x.budget[r] >= st.budget[r]
  BY <1>1, <1>4, <1>6 DEF Paid
<1>8. ~Exhausted(x, s) => Live(x)
  BY <1>1, <1>2, <1>4, <1>6, LiveAtStep, Limits DEF Exhausted, Live, Within, Paid, Known
<1>9. CASE Exhausted(x, s)
  <2>1. Ok(Escalated(x, "budget")) /\ Same(x, Escalated(x, "budget"))
    BY <1>4, EscalatedOk
  <2> QED
    BY <2>1, <1>1, <1>5, <1>7, <1>9, CountedKeeps DEF Same
<1>10. CASE ~Exhausted(x, s) /\ reviewed
  <2> DEFINE y == Handled(x, s, FALSE)
  <2>1. Ok(y) /\ Same(x, y)
    BY <1>8, <1>10, <1>1, HandledUncharged
  <2>2. Returns(y)
    BY <1>5, <1>10
  <2> HIDE DEF y
  <2> QED
    BY <2>1, <2>2, <1>1, <1>7, CountedKeeps DEF Same
<1>11. CASE ~Exhausted(x, s) /\ ~reviewed /\ x.attempts[s] = 0
  <2> DEFINE y == [x EXCEPT !.attempts[s] = 1]
  <2>1. Known(y) /\ y.cp = "none" /\ y.budget = x.budget /\ y.attempts = [x.attempts EXCEPT ![s] = 1]
    <3>1. x.attempts \in [Skills -> 0..(MaxAttempts + 1)]
      BY <1>4 DEF State, Known
    <3>2. [x.attempts EXCEPT ![s] = 1] \in [Skills -> 0..(MaxAttempts + 1)]
      BY <3>1, <1>1, AttemptsSet
    <3> QED
      BY <3>2, <1>4 DEF State, Known
  <2>2. Returns(y)
    BY <1>5, <1>11
  <2> HIDE DEF y
  <2>3. Ok(y) /\ Same(x, y)
    BY <2>1, <1>6, <1>8, <1>11, Limits DEF Live, Ok, Within, Same, Known
  <2> QED
    BY <2>2, <2>3, <1>1, <1>7, CountedKeeps DEF Same
<1>12. CASE ~Exhausted(x, s) /\ ~reviewed /\ x.attempts[s] # 0
  <2> DEFINE passed == [x EXCEPT !.attempts[s] = 0]
  <2>1. /\ Known(passed) /\ passed.cp = "none" /\ passed.budget = x.budget
        /\ passed.attempts = [x.attempts EXCEPT ![s] = 0]
    <3>1. x.attempts \in [Skills -> 0..(MaxAttempts + 1)]
      BY <1>4 DEF State, Known
    <3>2. [x.attempts EXCEPT ![s] = 0] \in [Skills -> 0..(MaxAttempts + 1)]
      BY <3>1, <1>1, AttemptsSet
    <3> QED
      BY <3>2, <1>4 DEF State, Known
  <2>2. \/ \E y \in After(Done(passed, s), s) : Returns(y)
        \/ Returns(HandleFailure(passed, s, FALSE))
    BY <1>5, <1>12
  <2> HIDE DEF passed
  <2>3. Live(passed) /\ Same(x, passed)
    BY <2>1, <1>6, <1>8, <1>12, Limits DEF Live, Within, Same, Known
  <2>4. ASSUME NEW y \in After(Done(passed, s), s), Returns(y)
        PROVE  IInv'
    <3>1. Live(Done(passed, s)) /\ Same(passed, Done(passed, s))
      BY <2>3, <1>1, DoneLive
    <3>2. Ok(y) /\ Same(Done(passed, s), y)
      BY <3>1, AfterOk
    <3> QED
      BY <3>1, <3>2, <2>3, <2>4, <1>1, <1>7, CountedKeeps DEF Same
  <2>5. ASSUME Returns(HandleFailure(passed, s, FALSE))
        PROVE  IInv'
    <3> DEFINE y == HandleFailure(passed, s, FALSE)
    <3>1. Ok(y) /\ Paid(passed, y, s) /\ Returns(y)
      BY <2>3, <2>5, <1>1, HandledOk
    <3> HIDE DEF y
    <3>2. x.budget \in [Skills -> Nat] /\ y.budget = [x.budget EXCEPT ![s] = @ + 1]
      <4>1. x.budget \in [Skills -> 0..(MaxBudget + 1)]
        BY <1>4 DEF State, Known
      <4> QED
        BY <4>1, <3>1, <2>3, Limits DEF Same, Paid
    <3>3. y.budget[s] >= st.budget[s] + 1 /\ \A r \in Skills : y.budget[r] >= st.budget[r]
      BY <3>2, <1>1, <1>6, <1>7
    <3> QED
      BY <3>1, <3>3, <1>1, CountedKeeps
  <2> QED
    BY <2>2, <2>4, <2>5
<1> QED
  BY <1>9, <1>10, <1>11, <1>12

LEMMA OutputMissingKeeps ==
  ASSUME IInv, NEW s \in Serial, OutputMissing(s)
  PROVE  IInv'
<1>1. pc = "step" /\ Counts(s) /\ Rest /\ s \in Skills
  BY SkillSets DEF OutputMissing, At
<1>2. Live(Obeyed(st, s)) /\ Same(st, Obeyed(st, s))
  BY <1>1, LiveAtStep, ObeyedLive
<1> QED
  BY <1>1, <1>2, FailedKeeps DEF OutputMissing

LEMMA PassesKeeps ==
  ASSUME IInv, NEW s \in Serial, Passes(s)
  PROVE  IInv'
<1>1. pc = "step" /\ Rest /\ UNCHANGED failures /\ s \in Skills
  BY SkillSets DEF Passes, At
<1>2. PICK x \in {st, Obeyed(st, s)} : \E y \in After(Done(x, s), s) : Returns(y)
  BY DEF Passes
<1>3. PICK y \in After(Done(x, s), s) : Returns(y)
  BY <1>2
<1>4. Live(x) /\ Same(st, x)
  BY <1>1, <1>2, LiveAtStep, ObeyedLive
<1>5. Live(Done(x, s)) /\ Same(x, Done(x, s))
  BY <1>1, <1>4, DoneLive
<1>6. Ok(y) /\ Same(Done(x, s), y)
  BY <1>5, AfterOk
<1> QED
  BY <1>1, <1>3, <1>4, <1>5, <1>6, UncountedKeeps DEF Same

LEMMA EscalatesKeeps ==
  ASSUME IInv, SettleFails \/ PairSettleFails \/ \E s \in Serial : DriftEscalates(s)
  PROVE  IInv'
<1>1. pc = "step" /\ Rest /\ UNCHANGED failures
  BY DEF SettleFails, PairSettleFails, DriftEscalates, At
<1>2. PICK x \in {st} \cup Tellings(st, "settle", 1), s \in Skills, why \in {"settle", "drift"} :
        Returns(Escalated(Failing(x, s), why))
  BY SkillSets DEF SettleFails, PairSettleFails, DriftEscalates
<1>3. Live(x) /\ Same(st, x)
  BY <1>1, <1>2, LiveAtStep, ToldLive, SkillSets
<1> DEFINE f == Failing(x, s)
           y == Escalated(f, why)
<1>4. Live(f) /\ Same(x, f)
  BY <1>3, FailingLive
<1> HIDE DEF f
<1>5. Ok(y) /\ Same(f, y)
  BY <1>4, EscalatedOk DEF Live, Known
<1>6. Returns(y)
  BY <1>2 DEF f
<1> HIDE DEF y
<1> QED
  BY <1>1, <1>3, <1>4, <1>5, <1>6, UncountedKeeps DEF Same

LEMMA RevalidationFailsKeeps ==
  ASSUME IInv, RevalidationFails
  PROVE  IInv'
<1> DEFINE o == Obeyed(st, "revise")
           d == Done(o, "revise")
<1>1. /\ pc = "step" /\ Rest /\ Counts("revise")
      /\ \E x \in Tellings(d, "revise", 1) : Returns(HandleFailure(x, "revise", FALSE))
  BY DEF RevalidationFails, At
<1>2. Live(o) /\ Same(st, o)
  BY <1>1, LiveAtStep, ObeyedLive, SkillSets
<1> HIDE DEF o
<1>3. Live(d) /\ Same(o, d)
  BY <1>2, DoneLive, SkillSets
<1> HIDE DEF d
<1>told. PICK x \in Tellings(d, "revise", 1) : Returns(HandleFailure(x, "revise", FALSE))
  BY <1>1
<1>4. Live(x) /\ Same(d, x)
  BY <1>3, ToldLive, SkillSets
<1>5. Same(st, x)
  BY <1>2, <1>3, <1>4 DEF Same
<1> QED
  BY <1>told, <1>1, <1>4, <1>5, FailedKeeps, SkillSets

LEMMA SplitPassesKeeps ==
  ASSUME IInv, SplitPasses
  PROVE  IInv'
<1> DEFINE a == AdvanceTo(st, Place.lifecycle)
           y == [a EXCEPT !.good = @ \cup {"draft"}]
<1>1. pc = "step" /\ Rest /\ UNCHANGED failures /\ Returns(y)
  BY DEF SplitPasses, At
<1>2. Live(a) /\ Same(st, a)
  BY <1>1, LiveAtStep, AdvanceLive DEF Over, Place
<1> HIDE DEF a
<1>3. Ok(y) /\ Same(a, y)
  BY <1>2, SkillSets DEF Live, Ok, Within, Same, State, Known
<1> HIDE DEF y
<1> QED
  BY <1>1, <1>2, <1>3, UncountedKeeps DEF Same

LEMMA SplitFailsKeeps ==
  ASSUME IInv, SplitFails
  PROVE  IInv'
<1>0. PICK t \in Tellings(st, "draft", 1) :
        LET x == Failing(Charged(t, "draft"), "draft") IN
        Returns(IF Exhausted(x, "draft") THEN Escalated(x, "budget")
                ELSE AdvanceTo(x, Place.draft))
  BY DEF SplitFails
<1> DEFINE c == Charged(t, "draft")
           x == Failing(c, "draft")
           y == IF Exhausted(x, "draft") THEN Escalated(x, "budget")
                ELSE AdvanceTo(x, Place.draft)
<1>1. pc = "step" /\ Rest /\ Counts("draft") /\ Returns(y)
  BY <1>0 DEF SplitFails, At
<1>2. Live(t) /\ Same(st, t)
  BY <1>1, LiveAtStep, ToldLive, SkillSets
<1>3. Known(c) /\ c.cp = "none" /\ Paid(t, c, "draft") /\ c.attempts = t.attempts
  BY <1>2, ChargedState, SkillSets
<1> HIDE DEF c
<1>4. Known(x) /\ x.cp = "none" /\ Paid(st, x, "draft") /\ x.attempts = t.attempts
  <2>1. Known(x) /\ x.cp = "none" /\ x.budget = c.budget /\ x.attempts = c.attempts
    BY <1>3, SkillSets DEF Failing, State, Known
  <2> QED
    BY <2>1, <1>2, <1>3 DEF Paid, Same
<1> HIDE DEF x
<1>5. st.budget \in [Skills -> Nat]
  BY Limits DEF IInv, Ok, State, Known
<1>6. Ok(y) /\ Same(x, y)
  <2>1. CASE Exhausted(x, "draft")
    BY <2>1, <1>4, EscalatedOk
  <2>2. CASE ~Exhausted(x, "draft")
    <3>1. Live(x)
      BY <2>2, <1>1, <1>2, <1>4, <1>5, LiveAtStep, SkillSets, Limits
      DEF Exhausted, Live, Within, Paid, Known
    <3> QED
      BY <3>1, <2>2, AdvanceLive DEF Over, Place, Live, Ok, Known
  <2> QED
    BY <2>1, <2>2
<1> HIDE DEF y
<1>7. y.budget["draft"] >= st.budget["draft"] + 1 /\ \A r \in Skills : y.budget[r] >= st.budget[r]
  BY <1>4, <1>5, <1>6, SkillSets DEF Paid, Same
<1> QED
  BY <1>1, <1>6, <1>7, CountedKeeps, SkillSets

LEMMA BothLive ==
  ASSUME IInv, pc = "step"
  PROVE  Live(Both) /\ Same(st, Both) /\ Live(Obeyed(st, "lifecycle"))
         /\ Same(st, Obeyed(st, "lifecycle"))
<1> DEFINE o == Obeyed(st, "lifecycle")
<1>1. Live(o) /\ Same(st, o)
  BY LiveAtStep, ObeyedLive, SkillSets
<1>2. Both = Obeyed(o, "settle")
  BY DEF Both
<1> HIDE DEF o
<1>3. Live(Obeyed(o, "settle")) /\ Same(o, Obeyed(o, "settle"))
  BY <1>1, ObeyedLive, SkillSets
<1> QED
  BY <1>1, <1>2, <1>3 DEF Same, o

LEMMA PairGateFailsKeeps ==
  ASSUME IInv, NEW s \in {"lifecycle", "settle"}, PairGateFails(s)
  PROVE  IInv'
<1> DEFINE before == IF s = "settle" THEN Obeyed(st, "lifecycle") ELSE st
<1>1. pc = "step" /\ Rest /\ Counts(s) /\ s \in Skills
  BY SkillSets DEF PairGateFails, At
<1>told. PICK x \in Tellings(before, s, MaxFamilies) : Returns(HandleFailure(x, s, FALSE))
  BY DEF PairGateFails
<1>2. Live(before) /\ Same(st, before)
  BY <1>1, BothLive, LiveAtStep
<1> HIDE DEF before
<1>3. Live(x) /\ Same(before, x)
  BY <1>1, <1>2, ToldLive, SkillSets, Limits
<1> QED
  BY <1>told, <1>1, <1>2, <1>3, FailedKeeps DEF Same

LEMMA PairOutputMissingKeeps ==
  ASSUME IInv, NEW s \in {"lifecycle", "settle"}, PairOutputMissing(s)
  PROVE  IInv'
<1> DEFINE x == IF s = "settle" THEN Done(Both, "lifecycle") ELSE Both
<1>1. pc = "step" /\ Rest /\ Counts(s) /\ Returns(HandleFailure(x, s, FALSE)) /\ s \in Skills
  BY SkillSets DEF PairOutputMissing, At
<1>2. Live(x) /\ Same(st, x)
  BY <1>1, BothLive, DoneLive, SkillSets DEF Same
<1> HIDE DEF x
<1> QED
  BY <1>1, <1>2, FailedKeeps

LEMMA PairPassesKeeps ==
  ASSUME IInv, PairPasses
  PROVE  IInv'
<1> DEFINE l == Done(Both, "lifecycle")
           b == Done(l, "settle")
<1>1. pc = "step" /\ Rest /\ UNCHANGED failures
  BY DEF PairPasses, At
<1>2. PICK y \in Settled(b) : Returns(y)
  BY DEF PairPasses
<1>3. Live(l) /\ Same(st, l)
  BY <1>1, BothLive, DoneLive, SkillSets DEF Same
<1> HIDE DEF l
<1>4. Live(b) /\ Same(l, b)
  BY <1>3, DoneLive, SkillSets
<1> HIDE DEF b
<1>5. Ok(y) /\ Same(b, y)
  BY <1>4, SettledOk
<1> QED
  BY <1>1, <1>2, <1>3, <1>4, <1>5, UncountedKeeps DEF Same

LEMMA SaveEndKeeps ==
  ASSUME IInv, Save \/ End
  PROVE  IInv'
<1>1. /\ st \in State /\ failures \in [Skills -> 0..Most] /\ kills \in Nat
      /\ st' = st /\ saved' = st /\ failures' = failures /\ kills' = kills
  BY Limits DEF IInv, Ok, TypeOK, Save, End, Known
<1>2. TypeOK'
  BY DEF IInv, TypeOK, Save, End
<1>3. Ok(st)' /\ Ok(saved)'
  BY <1>1 DEF IInv, Ok, Within, Known
<1>4. (pc \in {"step", "save"} => st.cp = "none")' /\ (pc \in {"idle", "step"} => st = saved)'
  BY <1>1 DEF IInv, Save, End
<1>5. ASSUME NEW s \in Skills
      PROVE  failures'[s] <= st'.budget[s] + kills' /\ failures'[s] <= saved'.budget[s] + kills' + 1
  <2>1. st.budget[s] \in Nat /\ failures[s] \in Nat /\ failures[s] <= st.budget[s] + kills
    BY <1>1, Limits DEF State, IInv, Most, Known
  <2> QED
    BY <1>1, <2>1
<1> QED
  BY <1>2, <1>3, <1>4, <1>5 DEF IInv

\* The failure that a kill hides is the one that was not saved.
LEMMA KillKeeps ==
  ASSUME IInv, Kill
  PROVE  IInv'
<1>1. /\ saved \in State /\ failures \in [Skills -> 0..Most] /\ kills \in Nat
      /\ st' = saved /\ saved' = saved /\ failures' = failures /\ kills' = kills + 1
  BY Limits DEF IInv, Ok, TypeOK, Kill, Known
<1>2. TypeOK'
  BY Limits DEF IInv, TypeOK, Kill
<1>3. Ok(st)' /\ Ok(saved)'
  BY <1>1 DEF IInv, Ok, Within, Known
<1>4. (pc \in {"step", "save"} => st.cp = "none")' /\ (pc \in {"idle", "step"} => st = saved)'
  BY <1>1 DEF Kill
<1>5. ASSUME NEW s \in Skills
      PROVE  failures'[s] <= st'.budget[s] + kills' /\ failures'[s] <= saved'.budget[s] + kills' + 1
  <2>1. saved.budget[s] \in Nat /\ failures[s] \in Nat /\ failures[s] <= saved.budget[s] + kills + 1
    BY <1>1, Limits DEF State, IInv, Most, Known
  <2> QED
    BY <1>1, <2>1
<1> QED
  BY <1>2, <1>3, <1>4, <1>5 DEF IInv

\* What is known of a state that takes the place of the idle one.
LEMMA IdleKeeps ==
  ASSUME IInv, pc = "idle", NEW y, Ok(y), st' = y, saved' = y, kills' = kills,
         \/ failures' = Zero
         \/ failures' = failures /\ \A s \in Skills : y.budget[s] >= st.budget[s],
         TypeOK', pc' \in {"step", "save"} => y.cp = "none"
  PROVE  IInv'
<1>1. /\ y \in State /\ st \in State /\ failures \in [Skills -> 0..Most] /\ kills \in Nat
  BY Limits DEF IInv, Ok, TypeOK, Known
<1>2. Ok(st)' /\ Ok(saved)'
  BY DEF Ok, Within, Known
<1>3. (pc \in {"step", "save"} => st.cp = "none")' /\ (pc \in {"idle", "step"} => st = saved)'
  OBVIOUS
<1>4. ASSUME NEW s \in Skills
      PROVE  failures'[s] <= st'.budget[s] + kills' /\ failures'[s] <= saved'.budget[s] + kills' + 1
  <2>1. /\ y.budget[s] \in Nat /\ st.budget[s] \in Nat /\ failures[s] \in Nat
        /\ failures[s] <= st.budget[s] + kills
    <3>1. y.budget \in [Skills -> 0..(MaxBudget + 1)] /\ st.budget \in [Skills -> 0..(MaxBudget + 1)]
      BY <1>1 DEF State
    <3>2. failures[s] <= st.budget[s] + kills
      BY DEF IInv
    <3>3. failures[s] \in Nat
      BY <1>1, Limits
    <3> QED
      BY <3>1, <3>2, <3>3, Limits
  <2>2. failures'[s] = 0 \/ (failures'[s] = failures[s] /\ y.budget[s] >= st.budget[s])
    <3>1. Zero[s] = 0
      BY DEF Zero
    <3> QED
      BY <3>1
  <2> QED
    BY <1>1, <2>1, <2>2
<1> QED
  BY <1>2, <1>3, <1>4 DEF IInv

LEMMA CommandKeeps ==
  ASSUME IInv, Command
  PROVE  IInv'
<1> DEFINE y == IF st' = st THEN st ELSE Healed(st)
<1>1. Known(st) /\ st.cp = "none" /\ Within(st) /\ pc = "idle" /\ st = saved
  BY DEF IInv, Ok, Command, Known
<1>2. st' = y /\ saved' = y
  BY <1>1 DEF Command
<1>3. /\ Known(Healed(st)) /\ Healed(st).cp = "none"
      /\ Healed(st).attempts = st.attempts
      /\ \A s \in Skills : Healed(st).budget[s] >= st.budget[s] /\ Healed(st).budget[s] <= MaxBudget
  <2> DEFINE b == [s \in Skills |-> IF st.told[s] # {} /\ st.budget[s] = 0 THEN 1 ELSE st.budget[s]]
  <2>1. Healed(st) = [st EXCEPT !.budget = b]
    BY DEF Healed
  <2>2. st.budget \in [Skills -> 0..(MaxBudget + 1)]
    BY <1>1 DEF State, Known
  <2>3. b \in [Skills -> 0..(MaxBudget + 1)]
    BY <2>2, Limits
  <2>4. \A s \in Skills : b[s] >= st.budget[s] /\ b[s] <= MaxBudget
    BY <2>2, <1>1, Limits DEF Within
  <2> HIDE DEF b
  <2>5. /\ Known(Healed(st)) /\ Healed(st).cp = "none" /\ Healed(st).attempts = st.attempts
        /\ Healed(st).budget = b
    BY <2>1, <2>3, <1>1 DEF State, Known
  <2> QED
    BY <2>4, <2>5
<1>4. st.budget \in [Skills -> Nat]
  BY <1>1, Limits DEF State, Known
<1>5. Ok(y) /\ y.cp = "none" /\ \A s \in Skills : y.budget[s] >= st.budget[s]
  BY <1>1, <1>3, <1>4 DEF Ok, Within, Known
<1> HIDE DEF y
<1>6. TypeOK'
  BY <1>2, <1>5 DEF IInv, TypeOK, Command, Ok, Known
<1>7. kills' = kills /\ failures' = failures
  BY DEF Command
<1> QED
  BY <1>1, <1>2, <1>5, <1>6, <1>7, IdleKeeps

\* What an answer to a state does to it.
Answered(x) == [x EXCEPT !.cp = "none", !.why = "none"]

LEMMA AnswersKeeps ==
  ASSUME IInv, NEW x, Known(x), Within(x), Answers(x),
         \/ failures' = Zero
         \/ failures' = failures /\ \A s \in Skills : x.budget[s] >= st.budget[s]
  PROVE  IInv'
<1> DEFINE y == Answered(x)
<1>1. Known(y) /\ y.cp = "none" /\ y.budget = x.budget /\ y.attempts = x.attempts
  BY DEF Answered, State, Known
<1>2. /\ st' = y /\ saved' = y /\ pc = "idle" /\ pc' = pc /\ kills' = kills
      /\ answers' = answers + 1 /\ answers < MaxAnswers /\ reviewed' = reviewed
  BY DEF Answers, Answered
<1> HIDE DEF y
<1>3. Ok(y)
  BY <1>1 DEF Ok, Within, Known
<1>4. failures' \in [Skills -> 0..Most]
  BY Limits DEF IInv, TypeOK, Zero
<1>5. TypeOK'
  BY <1>1, <1>2, <1>4, Limits DEF IInv, TypeOK, Known
<1> QED
  BY <1>1, <1>2, <1>3, <1>5, IdleKeeps

LEMMA ResetWithin ==
  ASSUME NEW x, Known(x)
  PROVE  Known(Reset(x)) /\ Within(Reset(x))
<1>1. Zero \in [Skills -> 0..(MaxAttempts + 1)] /\ Zero \in [Skills -> 0..(MaxBudget + 1)]
  BY Limits DEF Zero
<1>2. Known(Reset(x)) /\ Reset(x).attempts = Zero /\ Reset(x).budget = Zero
  BY <1>1 DEF Reset, State, Known
<1> QED
  BY <1>2, Limits DEF Within, Zero

LEMMA SettleAnswersKeep ==
  ASSUME IInv, ApproveSettle \/ ModifySettle \/ RejectSettle
  PROVE  IInv'
<1>1. Known(st) /\ Within(st)
  BY DEF IInv, Ok, ApproveSettle, ModifySettle, RejectSettle, Known
<1>2. st.budget \in [Skills -> Nat]
  BY <1>1, Limits DEF State, Known
<1>3. ASSUME ApproveSettle
      PROVE  IInv'
  BY <1>1, <1>2, <1>3, AnswersKeeps DEF ApproveSettle
<1>4. ASSUME ModifySettle
      PROVE  IInv'
  <2> DEFINE x == AdvanceTo(st, Place.settle)
  <2>1. Known(x) /\ Within(x) /\ x.budget = st.budget
    BY <1>1 DEF AdvanceTo, State, Place, Over, Within, Known
  <2>2. Answers(x) /\ failures' = failures
    BY <1>4 DEF ModifySettle
  <2> HIDE DEF x
  <2> QED
    BY <2>1, <2>2, <1>2, AnswersKeeps
<1>5. ASSUME RejectSettle
      PROVE  IInv'
  <2> DEFINE r == Reset(st)
             x == AdvanceTo(r, Place.settle)
  <2>1. Known(r) /\ Within(r)
    BY <1>1, ResetWithin
  <2>2. Answers(x) /\ failures' = Zero
    BY <1>5 DEF RejectSettle
  <2> HIDE DEF r
  <2>3. Known(x) /\ Within(x)
    BY <2>1 DEF AdvanceTo, State, Place, Over, Within, Known
  <2> HIDE DEF x
  <2> QED
    BY <2>2, <2>3, AnswersKeeps
<1> QED
  BY <1>3, <1>4, <1>5

LEMMA ResolveKeeps ==
  ASSUME IInv, Resolve
  PROVE  IInv'
<1> DEFINE r == Reset(st)
<1>1. Known(st)
  BY DEF IInv, Ok, Resolve
<1>2. Known(r) /\ Within(r)
  BY <1>1, ResetWithin
<1>3. PICK x \in {r} \cup {Worded(r, Target(st), again) : again \in BOOLEAN} : Answers(x)
  BY DEF Resolve
<1> HIDE DEF r
<1>4. failures' = Zero
  BY DEF Resolve
<1>5. Target(st) \in Skills
  <2>1. st.cursor \in 1..Over /\ st.cursor # Over
    BY <1>1 DEF State, Known
  <2>2. st.cursor # SplitAt => \E s \in Skills : Place[s] = st.cursor
    BY <2>1 DEF Over, SplitAt, Place, Skills
  <2> QED
    BY <2>2, SkillSets DEF Target
<1>6. Known(x) /\ Within(x)
  <2>1. ASSUME NEW again \in BOOLEAN
        PROVE  LET y == Worded(r, Target(st), again) IN Known(y) /\ Within(y)
    <3> DEFINE y == Worded(r, Target(st), again)
    <3>1. /\ y \in State /\ y.cursor = r.cursor /\ y.attempts = r.attempts
          /\ y.budget = r.budget
      BY <1>2, <1>5, WordedIs DEF Known
    <3> QED
      BY <3>1, <1>2 DEF Known, Within
  <2> QED
    BY <1>2, <1>3, <2>1
<1> QED
  BY <1>3, <1>4, <1>6, AnswersKeeps

LEMMA NextInvariant == IInv /\ [Next]_vars => IInv'
<1> SUFFICES ASSUME IInv, [Next]_vars PROVE IInv'
  OBVIOUS
<1>1. CASE Command
  BY <1>1, CommandKeeps
<1>2. CASE Step
  <2>1. ASSUME NEW s \in Serial, DispatchFails(s) \/ GateFailsHard(s) \/ OutputMissing(s) \/ Passes(s)
        PROVE  IInv'
    BY <2>1, SkillSets, DispatchFailsKeeps, GateFailsHardKeeps, OutputMissingKeeps, PassesKeeps
  <2>2. ASSUME NEW s \in {"lifecycle", "settle"}, PairGateFails(s) \/ PairOutputMissing(s)
        PROVE  IInv'
    BY <2>2, PairGateFailsKeeps, PairOutputMissingKeeps
  <2>3. CASE DispatchFails("lifecycle")
    BY <2>3, SkillSets, DispatchFailsKeeps
  <2>4. CASE (\E s \in Serial : DriftEscalates(s)) \/ SettleFails \/ PairSettleFails
    BY <2>4, EscalatesKeeps
  <2>5. CASE GuardRefuses \/ RevalidationFails \/ SplitPasses \/ SplitFails \/ PairPasses \/ Save \/ End
    BY <2>5, GuardRefusesKeeps, RevalidationFailsKeeps, SplitPassesKeeps, SplitFailsKeeps,
       PairPassesKeeps, SaveEndKeeps
  <2> QED
    BY <1>2, <2>1, <2>2, <2>3, <2>4, <2>5 DEF Step
<1>3. CASE Kill
  BY <1>3, KillKeeps
<1>4. CASE Review
  BY <1>4, ResolveKeeps, SettleAnswersKeep DEF Review
<1>5. CASE UNCHANGED vars
  BY <1>5 DEF vars, IInv, TypeOK, Ok, Known, Within
<1> QED
  BY <1>1, <1>2, <1>3, <1>4, <1>5 DEF Next

\* The inductive invariant of StepRetry, for all limits.
THEOREM Invariant == Spec => []IInv
<1>1. Init => IInv
  BY InitInvariant
<1>2. IInv /\ [Next]_vars => IInv'
  BY NextInvariant
<1> QED
  BY <1>1, <1>2, PTL DEF Spec

\* The counters stay within one of their limits, whatever fails and however
\* often the process is killed (state.py:215-230).
THEOREM TypeCorrect == Spec => []TypeOK
<1>1. IInv => TypeOK
  BY DEF IInv
<1> QED
  BY <1>1, Invariant, PTL

\* However failures, successes, rewinds, gates let pass, answers and kills
\* follow each other, a step does not fail more often than its durable budget
\* allows before a reviewer is called (chapter_loop.py:1952-2030).
THEOREM DurableBudget == Spec => []BudgetHolds
<1>1. IInv => BudgetHolds
  <2> SUFFICES ASSUME IInv, NEW s \in Skills
      PROVE  failures[s] <= MaxBudget + 1 + kills
    BY DEF BudgetHolds
  <2>1. /\ failures[s] \in Nat /\ st.budget[s] \in Nat /\ kills \in Nat
        /\ st.budget[s] <= MaxBudget + 1
    BY Limits DEF IInv, TypeOK, State
  <2>2. failures[s] <= st.budget[s] + kills
    BY DEF IInv
  <2> QED
    BY <2>1, <2>2, Limits
<1> QED
  BY <1>1, Invariant, PTL

-----------------------------------------------------------------------------
(* What a state says about the steps behind it and the reviewer's words.   *)

Heard(x)  == \A s \in x.owed :
               ("reviewer" \in x.told[s] /\ x.known[s].words) \/ x.known[s].newer = MaxFamilies
Behind(x) == \A s \in Skills : Place[s] < x.cursor /\ x.cursor # SplitAt => s \in x.good
Spent(x)  == x.cp = "escalation" /\ x.why = "budget" => x.budget[x.culprit] > MaxBudget
Sound(x)  == Heard(x) /\ Behind(x) /\ Spent(x) /\ (x.cp = "settle" => x.cursor = Place.revise)

\* The step s is not behind the cursor: a failure of it skips nothing.
Ahead(x, s) == ~(Place[s] < x.cursor) \/ x.cursor = SplitAt

\* Under review no budget is charged without a failure, but for the one charge
\* that healing puts back.
Backed(x) == \A s \in Skills : x.budget[s] <= failures[s] + 1

SInv ==
  /\ Sound(st) /\ Sound(saved)
  /\ reviewed => Backed(st) /\ Backed(saved)

LEMMA Places ==
  /\ Place["draft"] = 1 /\ Place["lifecycle"] = 3 /\ Place["settle"] = 4 /\ Place["revise"] = 5
  /\ Place.draft = 1 /\ Place.lifecycle = 3 /\ Place.settle = 4 /\ Place.revise = 5
  /\ SplitAt = 2 /\ Over = 6
  BY DEF Place, SplitAt, Over

LEMMA ToldSound ==
  ASSUME NEW x, x \in State, Sound(x), NEW s \in Skills, NEW most \in Nat,
         NEW y \in Tellings(x, s, most)
  PROVE  Sound(y) /\ y.cursor = x.cursor
<1> DEFINE k == x.known[s]
           voices == Recalled(k) \cup {"machine"}
<1>0. PICK fresh \in Nat : /\ y = Told(x, s, fresh)
                           /\ k.newer + fresh \in Nat /\ k.newer + fresh >= k.newer
  BY ToldIs
<1> DEFINE n == k.newer + fresh
           h == Capped(k, n)
<1>1. /\ y.cursor = x.cursor /\ y.good = x.good /\ y.cp = x.cp /\ y.why = x.why
      /\ y.budget = x.budget /\ y.culprit = x.culprit /\ y.owed = x.owed
      /\ y.told = [x.told EXCEPT ![s] = voices]
      /\ y.known = [x.known EXCEPT ![s] = h]
  BY <1>0 DEF Told, State
<1>2. x.owed \subseteq Skills /\ x.told \in [Skills -> SUBSET Voices]
      /\ x.known \in [Skills -> History] /\ k \in History
  BY DEF State
\* The history still holds the words, or has no room for them.
<1>3. s \in x.owed => ("reviewer" \in voices /\ h.words) \/ h.newer = MaxFamilies
  <2> SUFFICES ASSUME s \in x.owed
               PROVE  ("reviewer" \in voices /\ h.words) \/ h.newer = MaxFamilies
    OBVIOUS
  <2>1. h.newer = Least(n, MaxFamilies) /\ h.words = (k.words /\ Least(n, MaxFamilies) < MaxFamilies)
    BY <1>0 DEF Capped
  <2>2. k.newer \in 0..MaxFamilies
    BY <1>2 DEF History
  <2>3. CASE k.newer = MaxFamilies
    BY <2>1, <2>2, <2>3, <1>0, Limits DEF Least
  <2>4. CASE k.newer # MaxFamilies
    <3>1. k.words
      BY <2>4 DEF Sound, Heard
    <3>2. "reviewer" \in voices
      BY <3>1, <1>0 DEF Recalled
    <3>3. Least(n, MaxFamilies) < MaxFamilies \/ Least(n, MaxFamilies) = MaxFamilies
      BY Limits DEF Least
    <3> QED
      BY <2>1, <3>1, <3>2, <3>3
  <2> QED
    BY <2>3, <2>4
<1>4. Heard(y)
  BY <1>1, <1>2, <1>3 DEF Sound, Heard
<1>5. Sound(y)
  BY <1>1, <1>4 DEF Sound, Behind, Spent
<1> QED
  BY <1>1, <1>5

LEMMA ObeyedSound ==
  ASSUME NEW x, x \in State, Sound(x), NEW s \in Skills
  PROVE  Sound(Obeyed(x, s)) /\ Obeyed(x, s).cursor = x.cursor
<1> DEFINE y == Obeyed(x, s)
<1>1. /\ y.cursor = x.cursor /\ y.good = x.good /\ y.cp = x.cp /\ y.why = x.why
      /\ y.budget = x.budget /\ y.culprit = x.culprit /\ y.owed = x.owed \ {s}
      /\ y.told = [x.told EXCEPT ![s] = {}]
      /\ y.known = [x.known EXCEPT ![s] = NoHistory]
  BY DEF Obeyed, State
<1>2. x.owed \subseteq Skills /\ x.told \in [Skills -> SUBSET Voices]
      /\ x.known \in [Skills -> History]
  BY DEF State
<1> HIDE DEF y
<1>3. Heard(y)
  BY <1>1, <1>2 DEF Sound, Heard
<1>4. Sound(y)
  BY <1>1, <1>3 DEF Sound, Behind, Spent
<1> QED
  BY <1>1, <1>4 DEF y

LEMMA DoneSound ==
  ASSUME NEW x, x \in State, x.cp = "none", Sound(x), NEW s \in Skills
  PROVE  /\ Sound(Done(x, s)) /\ Done(x, s).cursor = x.cursor
         /\ s \in Done(x, s).good /\ x.good \subseteq Done(x, s).good
<1> DEFINE y == Done(x, s)
<1>1. /\ y.cursor = x.cursor /\ y.good = x.good \cup {s} /\ y.cp = x.cp
      /\ y.owed = x.owed \ {s} /\ y.told = x.told
      /\ y.known = [x.known EXCEPT ![s] = NoHistory]
  BY DEF Done, Forgiven, State
<1>2. x.owed \subseteq Skills /\ x.told \in [Skills -> SUBSET Voices]
      /\ x.known \in [Skills -> History]
  BY DEF State
<1> HIDE DEF y
<1>3. Heard(y)
  BY <1>1, <1>2 DEF Sound, Heard
<1>4. Sound(y)
  BY <1>1, <1>3 DEF Sound, Behind, Spent
<1> QED
  BY <1>1, <1>4 DEF y

\* A state with other counters, and not asked about a settlement.
LEMMA SameSound ==
  ASSUME NEW x, Sound(x), NEW y, y.cp # "settle", Spent(y),
         y.cursor = x.cursor, y.owed = x.owed, y.told = x.told, y.known = x.known,
         x.good \subseteq y.good
  PROVE  Sound(y)
  BY DEF Sound, Heard, Behind

LEMMA FailingSound ==
  ASSUME NEW x, x \in State, x.cp = "none", Sound(x), NEW s \in Skills, Ahead(x, s)
  PROVE  /\ Sound(Failing(x, s)) /\ Failing(x, s).cursor = x.cursor
         /\ Failing(x, s).culprit = s
<1> DEFINE y == Failing(x, s)
<1>1. /\ y.cursor = x.cursor /\ y.good = x.good \ {s} /\ y.cp = x.cp /\ y.culprit = s
      /\ y.owed = x.owed /\ y.told = x.told /\ y.known = x.known
  BY DEF Failing, State
<1> HIDE DEF y
<1>2. Sound(y)
  BY <1>1 DEF Sound, Heard, Behind, Spent, Ahead
<1> QED
  BY <1>1, <1>2 DEF y

LEMMA EscalatedSound ==
  ASSUME NEW x, x \in State, Sound(x), NEW why, why = "budget" => x.budget[x.culprit] > MaxBudget
  PROVE  Sound(Escalated(x, why))
<1> DEFINE y == Escalated(x, why)
<1>1. /\ y.cursor = x.cursor /\ y.good = x.good /\ y.cp = "escalation" /\ y.culprit = x.culprit
      /\ y.owed = x.owed /\ y.told = x.told /\ y.known = x.known /\ y.why = why
      /\ y.budget = x.budget
  BY DEF Escalated, State
<1> HIDE DEF y
<1>2. Sound(y)
  BY <1>1, SameSound DEF Spent
<1> QED
  BY <1>1, <1>2 DEF y

LEMMA ChargedSound ==
  ASSUME NEW x, x \in State, x.cp = "none", Sound(x), NEW s \in Skills
  PROVE  Sound(Charged(x, s)) /\ Charged(x, s).cursor = x.cursor
<1> DEFINE y == Charged(x, s)
<1>1. /\ y.cursor = x.cursor /\ y.good = x.good /\ y.cp = x.cp
      /\ y.owed = x.owed /\ y.told = x.told /\ y.known = x.known
  BY DEF Charged, State
<1> HIDE DEF y
<1>2. Sound(y)
  BY <1>1, SameSound DEF Spent
<1> QED
  BY <1>1, <1>2 DEF y

LEMMA HandledSound ==
  ASSUME NEW x, Known(x), x.cp = "none", Sound(x), NEW s \in Skills, Ahead(x, s),
         x.attempts[s] <= MaxAttempts, NEW hard \in BOOLEAN
  PROVE  Sound(Handled(x, s, hard))
<1> DEFINE f == Failing(x, s)
           y == [f EXCEPT !.attempts[s] = @ + 1]
<1>1. /\ f \in State /\ f.cp = "none" /\ f.attempts = x.attempts
      /\ Sound(f) /\ f.culprit = s
  <2>1. /\ f \in State /\ f.cp = "none" /\ f.attempts = x.attempts
    BY DEF Failing, State, Known
  <2> QED
    BY <2>1, FailingSound DEF Known
<1> HIDE DEF f
<1>2. f.attempts[s] \in Nat /\ f.attempts[s] <= MaxAttempts
  BY <1>1, Limits DEF State, Known
<1>3. /\ y \in State /\ y.cp = "none" /\ y.culprit = s
      /\ y.cursor = f.cursor /\ y.owed = f.owed /\ y.told = f.told /\ y.known = f.known
      /\ y.good = f.good
  BY <1>1, <1>2, Limits DEF State
<1>4. Handled(x, s, hard) =
        IF Exhausted(y, s) THEN Escalated(y, "budget")
        ELSE IF hard \/ y.attempts[s] >= MaxAttempts THEN Escalated(y, "attempts")
        ELSE y
  BY DEF Handled, f
<1> HIDE DEF y
<1>5. Sound(y)
  BY <1>1, <1>3, SameSound DEF Spent
<1>6. Exhausted(y, s) => Sound(Escalated(y, "budget"))
  BY <1>3, <1>5, EscalatedSound DEF Exhausted
<1>7. Sound(Escalated(y, "attempts"))
  BY <1>3, <1>5, EscalatedSound
<1> QED
  BY <1>4, <1>5, <1>6, <1>7

LEMMA HandleFailureSound ==
  ASSUME NEW x, Live(x), Sound(x), NEW s \in Skills, Ahead(x, s), NEW hard \in BOOLEAN
  PROVE  Sound(HandleFailure(x, s, hard))
<1> DEFINE c == Charged(x, s)
<1>1. /\ Known(c) /\ c.cp = "none" /\ c.attempts = x.attempts /\ Sound(c)
      /\ c.cursor = x.cursor
  BY ChargedState, ChargedSound DEF Live, Known
<1> HIDE DEF c
<1>2. Ahead(c, s) /\ c.attempts[s] <= MaxAttempts
  BY <1>1 DEF Ahead, Live, Within
<1>3. Sound(Handled(c, s, hard))
  BY <1>1, <1>2, HandledSound
<1> QED
  BY <1>3 DEF HandleFailure, c

LEMMA SettledSound ==
  ASSUME NEW x, x \in State, x.cp = "none", Heard(x),
         "draft" \in x.good, "lifecycle" \in x.good, "settle" \in x.good, NEW y \in Settled(x)
  PROVE  Sound(y)
<1>1. /\ y.cursor = Place.revise /\ y.good = x.good /\ y.cp \in {"none", "settle"}
      /\ y.owed = x.owed /\ y.told = x.told /\ y.known = x.known
  BY DEF Settled, AdvanceTo, State
<1>2. Behind(y)
  BY <1>1, Places DEF Behind, Skills
<1> QED
  BY <1>1, <1>2 DEF Sound, Heard, Spent

\* Where a step that is done leads, nothing is skipped.
LEMMA AfterSound ==
  ASSUME NEW x, x \in State, x.cp = "none", Sound(x), NEW s \in Serial,
         x.cursor = Place[s], s \in x.good, NEW y \in After(x, s)
  PROVE  Sound(y)
<1>1. CASE s = "draft"
  <2>1. y = AdvanceTo(x, SplitAt)
    BY <1>1 DEF After
  <2>2. /\ y.cursor = SplitAt /\ y.cp = "none" /\ y.owed = x.owed /\ y.told = x.told
        /\ y.known = x.known
    BY <2>1 DEF AdvanceTo, State
  <2> QED
    BY <2>2 DEF Sound, Heard, Behind, Spent
<1>2. CASE s = "settle"
  <2>1. y \in Settled(x)
    BY <1>2 DEF After
  <2>2. "draft" \in x.good /\ "lifecycle" \in x.good
    BY <1>2, Places, SkillSets DEF Sound, Behind
  <2> QED
    BY <1>2, <2>1, <2>2, SettledSound DEF Sound
<1>3. CASE s = "revise"
  <2>1. y = Close(x)
    BY <1>3 DEF After
  <2>2. y.cursor = Over /\ y.cp = "over" /\ y.owed = {} /\ y.good = x.good
    BY <2>1 DEF Close, AdvanceTo, State
  <2>3. \A r \in Skills : r \in x.good
    BY <1>3, Places, SkillSets DEF Sound, Behind, Skills
  <2> QED
    BY <2>2, <2>3 DEF Sound, Heard, Behind, Spent
<1> QED
  BY <1>1, <1>2, <1>3 DEF Serial

-----------------------------------------------------------------------------
(* Every action keeps it.                                                  *)

LEMMA ReturnSound ==
  ASSUME IInv, SInv, pc = "step", Rest, NEW y, Sound(y), Returns(y),
         failures' \in [Skills -> 0..Most], \A s \in Skills : failures[s] <= failures'[s],
         reviewed => \A s \in Skills : y.budget[s] <= failures'[s] + 1
  PROVE  SInv'
<1>1. st' = y /\ saved' = saved /\ reviewed' = reviewed /\ saved \in State
  BY DEF Returns, Rest, IInv, Ok
<1>2. Sound(st)' /\ Sound(saved)'
  BY <1>1 DEF SInv, Sound, Heard, Behind, Spent
<1>3. ASSUME reviewed, NEW s \in Skills
      PROVE  saved.budget[s] <= failures'[s] + 1
  <2>1. /\ saved.budget[s] \in Nat /\ failures[s] \in Nat /\ failures'[s] \in Nat
        /\ saved.budget[s] <= failures[s] + 1
    BY <1>1, <1>3, Limits DEF State, IInv, TypeOK, SInv, Backed
  <2> QED
    BY <2>1
<1> QED
  BY <1>1, <1>2, <1>3 DEF SInv, Backed

LEMMA CountedSound ==
  ASSUME IInv, SInv, pc = "step", NEW s \in Skills, Counts(s), Rest,
         NEW y, y \in State, Sound(y), Returns(y), reviewed => Paid(st, y, s)
  PROVE  SInv'
<1>1. /\ failures \in [Skills -> 0..Most] /\ st.budget \in [Skills -> Nat]
      /\ y.budget \in [Skills -> 0..(MaxBudget + 1)] /\ MaxBudget + 1 <= Most
  BY Limits DEF IInv, TypeOK, State, Most
<1>2. /\ failures' \in [Skills -> 0..Most] /\ \A r \in Skills : failures[r] <= failures'[r]
      /\ failures'[s] = failures[s] + 1 \/ failures'[s] = Most
  BY <1>1, Limits DEF Counts
<1>3. ASSUME reviewed, NEW r \in Skills
      PROVE  y.budget[r] <= failures'[r] + 1
  <2>1. st.budget[r] <= failures[r] + 1
    BY <1>3 DEF SInv, Backed
  <2>2. CASE r # s
    <3>1. y.budget[r] = st.budget[r]
      BY <1>1, <1>3, <2>2 DEF Paid
    <3> QED
      BY <3>1, <2>1, <1>1, <1>2, Limits
  <2>3. CASE r = s
    <3>1. y.budget[s] = st.budget[s] + 1 /\ y.budget[s] <= MaxBudget + 1
      BY <1>1, <1>3, Limits DEF Paid
    <3> QED
      BY <3>1, <2>1, <2>3, <1>1, <1>2, Limits
  <2> QED
    BY <2>2, <2>3
<1> QED
  BY <1>2, <1>3, ReturnSound

LEMMA FailedSound ==
  ASSUME IInv, SInv, pc = "step", NEW s \in Skills, Counts(s), Rest, NEW x, Live(x),
         Same(st, x), Sound(x), Ahead(x, s), NEW hard \in BOOLEAN,
         Returns(HandleFailure(x, s, hard))
  PROVE  SInv'
<1> DEFINE y == HandleFailure(x, s, hard)
<1>1. Ok(y) /\ Paid(x, y, s) /\ Returns(y) /\ Sound(y)
  BY HandledOk, HandleFailureSound
<1> HIDE DEF y
<1>2. y \in State /\ Paid(st, y, s)
  BY <1>1 DEF Ok, Paid, Same
<1> QED
  BY <1>1, <1>2, CountedSound

LEMMA UncountedSound ==
  ASSUME IInv, SInv, pc = "step", Rest, UNCHANGED failures, NEW y, Same(st, y), Sound(y),
         Returns(y)
  PROVE  SInv'
<1>1. failures \in [Skills -> 0..Most] /\ failures' = failures
  BY DEF IInv, TypeOK
<1>2. reviewed => \A s \in Skills : y.budget[s] <= failures'[s] + 1
  BY <1>1 DEF SInv, Backed, Same
<1>3. \A s \in Skills : failures[s] <= failures'[s]
  BY <1>1, Limits
<1> QED
  BY <1>1, <1>2, <1>3, ReturnSound

\* At a step: the state is live and sound, and a skill is ahead at its place.
LEMMA AtStep ==
  ASSUME IInv, SInv, pc = "step"
  PROVE  /\ Live(st) /\ Same(st, st) /\ Sound(st) /\ st \in State /\ st.cp = "none"
         /\ \A x, s : x.cursor = Place[s] /\ s \in Skills => Ahead(x, s)
<1>1. \A s \in Skills : Place[s] \in Nat
  BY Places DEF Skills
<1> QED
  BY <1>1, LiveAtStep DEF SInv, Live, Known, Ahead

LEMMA DispatchFailsSound ==
  ASSUME IInv, SInv, NEW s \in Skills, DispatchFails(s)
  PROVE  SInv'
<1>1. pc = "step" /\ Counts(s) /\ Rest /\ st.cursor = Place[s]
  BY DEF DispatchFails, At
<1>2. PICK x \in {st} \cup Tellings(st, s, 1), hard \in BOOLEAN :
        Returns(HandleFailure(x, s, hard))
  BY DEF DispatchFails
<1>3. Live(x) /\ Same(st, x) /\ Sound(x) /\ x.cursor = st.cursor
  BY <1>1, <1>2, AtStep, ToldLive, ToldSound, SkillSets
<1> QED
  BY <1>1, <1>2, <1>3, AtStep, FailedSound

LEMMA GuardRefusesSound ==
  ASSUME IInv, SInv, GuardRefuses
  PROVE  SInv'
<1>1. /\ pc = "step" /\ Counts("settle") /\ Rest /\ st.cursor = Place["settle"]
  BY Places DEF GuardRefuses, At
<1>2. PICK x \in Tellings(st, "settle", MaxFamilies) : Returns(HandleFailure(x, "settle", FALSE))
  BY DEF GuardRefuses
<1>3. Live(x) /\ Same(st, x) /\ Sound(x) /\ x.cursor = st.cursor
  BY <1>1, AtStep, ToldLive, ToldSound, SkillSets, Limits
<1> QED
  BY <1>1, <1>2, <1>3, AtStep, FailedSound, SkillSets

LEMMA OutputMissingSound ==
  ASSUME IInv, SInv, NEW s \in Serial, OutputMissing(s)
  PROVE  SInv'
<1> DEFINE x == Obeyed(st, s)
<1>1. /\ pc = "step" /\ Counts(s) /\ Rest /\ s \in Skills /\ st.cursor = Place[s]
      /\ Returns(HandleFailure(x, s, FALSE))
  BY SkillSets DEF OutputMissing, At
<1>2. Live(x) /\ Same(st, x) /\ Sound(x) /\ x.cursor = st.cursor
  BY <1>1, AtStep, ObeyedLive, ObeyedSound
<1> HIDE DEF x
<1> QED
  BY <1>1, <1>2, AtStep, FailedSound

\* A step that is done at its place.
LEMMA DoneAtPlace ==
  ASSUME NEW x, Live(x), Sound(x), NEW s \in Serial, x.cursor = Place[s],
         NEW y \in After(Done(x, s), s)
  PROVE  Sound(y) /\ Same(x, y) /\ Ok(y)
<1> DEFINE d == Done(x, s)
<1>1. Live(d) /\ Same(x, d)
  BY DoneLive, SkillSets
<1>2. Sound(d) /\ d.cursor = x.cursor /\ s \in d.good
  BY DoneSound, SkillSets DEF Live, Known
<1>3. y \in After(d, s)
  OBVIOUS
<1> HIDE DEF d
<1>4. Sound(y)
  BY <1>1, <1>2, <1>3, AfterSound DEF Live, Known
<1>5. Ok(y) /\ Same(d, y)
  BY <1>1, <1>3, AfterOk
<1> QED
  BY <1>1, <1>4, <1>5 DEF Same

LEMMA PassesSound ==
  ASSUME IInv, SInv, NEW s \in Serial, Passes(s)
  PROVE  SInv'
<1>1. pc = "step" /\ Rest /\ UNCHANGED failures /\ s \in Skills /\ st.cursor = Place[s]
  BY SkillSets DEF Passes, At
<1>2. PICK x \in {st, Obeyed(st, s)} : \E y \in After(Done(x, s), s) : Returns(y)
  BY DEF Passes
<1>3. PICK y \in After(Done(x, s), s) : Returns(y)
  BY <1>2
<1>4. Live(x) /\ Same(st, x) /\ Sound(x) /\ x.cursor = st.cursor
  BY <1>1, <1>2, AtStep, ObeyedLive, ObeyedSound
<1>5. Sound(y) /\ Same(x, y)
  BY <1>1, <1>4, DoneAtPlace
<1> QED
  BY <1>1, <1>3, <1>4, <1>5, UncountedSound DEF Same

LEMMA GateFailsHardSound ==
  ASSUME IInv, SInv, NEW s \in Serial, GateFailsHard(s)
  PROVE  SInv'
<1>0. PICK t \in Tellings(st, s, MaxFamilies) : HardGate(s, t)
  BY DEF GateFailsHard
<1> DEFINE c == Charged(t, s)
           x == Failing(c, s)
<1>1. /\ pc = "step" /\ Counts(s) /\ Rest /\ s \in Skills /\ st.cursor = Place[s]
  BY SkillSets DEF GateFailsHard, At
<1>2. Live(t) /\ Same(st, t) /\ Sound(t) /\ t.cursor = st.cursor
  BY <1>1, AtStep, ToldLive, ToldSound, SkillSets, Limits
<1>3. /\ Known(c) /\ c.cp = "none" /\ Paid(t, c, s) /\ c.attempts = t.attempts
      /\ Sound(c) /\ c.cursor = t.cursor
  BY <1>1, <1>2, ChargedState, ChargedSound DEF Live, Known
<1> HIDE DEF c
<1>4. /\ Known(x) /\ x.cp = "none" /\ Paid(st, x, s) /\ x.attempts = t.attempts
      /\ Sound(x) /\ x.cursor = Place[s] /\ x.culprit = s
  <2>1. Known(x) /\ x.cp = "none" /\ x.budget = c.budget /\ x.attempts = c.attempts
    BY <1>1, <1>3 DEF Failing, State, Known
  <2>2. Ahead(c, s)
    BY <1>1, <1>2, <1>3, AtStep
  <2>3. Sound(x) /\ x.cursor = c.cursor /\ x.culprit = s
    BY <1>1, <1>3, <2>2, FailingSound DEF Known
  <2> QED
    BY <2>1, <2>3, <1>1, <1>2, <1>3 DEF Paid, Same
<1>5. IF Exhausted(x, s) THEN Returns(Escalated(x, "budget"))
      ELSE IF reviewed THEN Returns(Handled(x, s, FALSE))
      ELSE IF x.attempts[s] = 0 THEN Returns([x EXCEPT !.attempts[s] = 1])
      ELSE LET passed == [x EXCEPT !.attempts[s] = 0] IN
           \/ \E y \in After(Done(passed, s), s) : Returns(y)
           \/ Returns(HandleFailure(passed, s, FALSE))
  BY <1>0 DEF HardGate, x, c
<1> HIDE DEF x
<1>6. st.budget \in [Skills -> Nat] /\ x.attempts \in [Skills -> 0..(MaxAttempts + 1)]
  BY <1>4, Limits DEF IInv, Ok, State, Known
<1>7. ~Exhausted(x, s) => Live(x)
  BY <1>1, <1>2, <1>4, <1>6, LiveAtStep, Limits DEF Exhausted, Live, Within, Paid, Known
<1>8. CASE Exhausted(x, s)
  <2> DEFINE y == Escalated(x, "budget")
  <2>1. Sound(y)
    BY <1>4, <1>8, EscalatedSound DEF Known, Exhausted
  <2>2. y \in State /\ Paid(st, y, s)
    BY <1>4, EscalatedOk DEF Ok, Same, Paid
  <2>3. Returns(y)
    BY <1>5, <1>8
  <2> HIDE DEF y
  <2> QED
    BY <2>1, <2>2, <2>3, <1>1, CountedSound
<1>9. CASE ~Exhausted(x, s) /\ reviewed
  <2> DEFINE y == Handled(x, s, FALSE)
  <2>1. Ok(y) /\ Same(x, y)
    BY <1>7, <1>9, <1>1, HandledUncharged
  <2>2. Sound(y)
    <3>1. Ahead(x, s) /\ x.attempts[s] <= MaxAttempts
      BY <1>1, <1>4, <1>7, <1>9, AtStep DEF Live, Within
    <3> QED
      BY <3>1, <1>1, <1>4, HandledSound
  <2>3. Returns(y)
    BY <1>5, <1>9
  <2> HIDE DEF y
  <2>4. y \in State /\ Paid(st, y, s)
    BY <2>1, <1>4 DEF Ok, Same, Paid
  <2> QED
    BY <2>2, <2>3, <2>4, <1>1, CountedSound
<1>10. ASSUME NEW n \in {0, 1}
       PROVE  LET y == [x EXCEPT !.attempts[s] = n] IN
              /\ y \in State /\ Sound(y) /\ y.cursor = x.cursor
              /\ Live(x) => Live(y)
  <2> DEFINE y == [x EXCEPT !.attempts[s] = n]
  <2>1. [x.attempts EXCEPT ![s] = n] \in [Skills -> 0..(MaxAttempts + 1)]
    BY <1>6, <1>1, AttemptsSet
  <2>2. /\ Known(y) /\ y.cp = "none" /\ y.budget = x.budget
        /\ y.attempts = [x.attempts EXCEPT ![s] = n]
        /\ y.cursor = x.cursor /\ y.owed = x.owed /\ y.told = x.told /\ y.known = x.known
        /\ y.good = x.good
    BY <2>1, <1>4 DEF State, Known
  <2> HIDE DEF y
  <2>3. Sound(y)
    BY <2>2, <1>4, SameSound DEF Spent
  <2>4. Live(x) => Live(y)
    BY <2>2, <1>6, Limits DEF Live, Within, Known
  <2>5. y \in State /\ Sound(y) /\ y.cursor = x.cursor /\ (Live(x) => Live(y))
    BY <2>2, <2>3, <2>4 DEF Known
  <2> QED
    BY <2>5 DEF y
<1>11. CASE ~Exhausted(x, s) /\ ~reviewed /\ x.attempts[s] = 0
  <2> DEFINE y == [x EXCEPT !.attempts[s] = 1]
  <2>1. y \in State /\ Sound(y) /\ Returns(y)
    BY <1>5, <1>10, <1>11
  <2> HIDE DEF y
  <2> QED
    BY <2>1, <1>1, <1>11, CountedSound
<1>12. CASE ~Exhausted(x, s) /\ ~reviewed /\ x.attempts[s] # 0
  <2> DEFINE passed == [x EXCEPT !.attempts[s] = 0]
  <2>1. Live(passed) /\ Sound(passed) /\ passed.cursor = Place[s]
    BY <1>4, <1>7, <1>10, <1>12
  <2>2. \/ \E y \in After(Done(passed, s), s) : Returns(y)
        \/ Returns(HandleFailure(passed, s, FALSE))
    BY <1>5, <1>12
  <2> HIDE DEF passed
  <2>3. ASSUME NEW y \in After(Done(passed, s), s), Returns(y)
        PROVE  SInv'
    <3>1. Sound(y) /\ y \in State
      BY <2>1, <2>3, DoneAtPlace DEF Ok
    <3> QED
      BY <3>1, <2>3, <1>1, <1>12, CountedSound
  <2>4. ASSUME Returns(HandleFailure(passed, s, FALSE))
        PROVE  SInv'
    <3> DEFINE y == HandleFailure(passed, s, FALSE)
    <3>1. Ok(y) /\ Sound(y) /\ Returns(y)
      BY <2>1, <2>4, <1>1, AtStep, HandledOk, HandleFailureSound
    <3> HIDE DEF y
    <3> QED
      BY <3>1, <1>1, <1>12, CountedSound DEF Ok
  <2> QED
    BY <2>2, <2>3, <2>4
<1> QED
  BY <1>8, <1>9, <1>11, <1>12

LEMMA EscalatesSound ==
  ASSUME IInv, SInv, SettleFails \/ PairSettleFails \/ \E s \in Serial : DriftEscalates(s)
  PROVE  SInv'
<1>1. pc = "step" /\ Rest /\ UNCHANGED failures
  BY DEF SettleFails, PairSettleFails, DriftEscalates, At
<1>2. PICK x \in {st} \cup Tellings(st, "settle", 1), s \in Skills, why \in {"settle", "drift"} :
        /\ Returns(Escalated(Failing(x, s), why))
        /\ st.cursor = Place[s] \/ (s = "settle" /\ st.cursor = Place["lifecycle"])
  BY SkillSets, Places DEF SettleFails, PairSettleFails, DriftEscalates, At
<1>3. Live(x) /\ Same(st, x) /\ Sound(x) /\ x.cursor = st.cursor
  BY <1>1, <1>2, AtStep, ToldLive, ToldSound, SkillSets
<1>4. Ahead(x, s)
  BY <1>1, <1>2, <1>3, AtStep, Places DEF Ahead
<1> DEFINE f == Failing(x, s)
           y == Escalated(f, why)
<1>5. Live(f) /\ Same(x, f) /\ Sound(f)
  BY <1>3, <1>4, FailingLive, FailingSound DEF Live, Known
<1> HIDE DEF f
<1>6. Same(f, y) /\ Sound(y)
  BY <1>5, EscalatedOk, EscalatedSound DEF Live, Known
<1>7. Returns(y)
  BY <1>2 DEF f
<1> HIDE DEF y
<1> QED
  BY <1>1, <1>3, <1>5, <1>6, <1>7, UncountedSound DEF Same

LEMMA RevalidationFailsSound ==
  ASSUME IInv, SInv, RevalidationFails
  PROVE  SInv'
<1> DEFINE o == Obeyed(st, "revise")
           d == Done(o, "revise")
<1>1. /\ pc = "step" /\ Rest /\ Counts("revise")
      /\ \E x \in Tellings(d, "revise", 1) : Returns(HandleFailure(x, "revise", FALSE))
      /\ st.cursor = Place["revise"]
  BY Places DEF RevalidationFails, At
<1>2. Live(o) /\ Same(st, o) /\ Sound(o) /\ o.cursor = st.cursor
  BY <1>1, AtStep, ObeyedLive, ObeyedSound, SkillSets
<1> HIDE DEF o
<1>3. Live(d) /\ Same(o, d) /\ Sound(d) /\ d.cursor = o.cursor
  BY <1>2, DoneLive, DoneSound, SkillSets DEF Live, Known
<1> HIDE DEF d
<1>told. PICK x \in Tellings(d, "revise", 1) : Returns(HandleFailure(x, "revise", FALSE))
  BY <1>1
<1>4. Live(x) /\ Same(d, x) /\ Sound(x) /\ x.cursor = d.cursor
  BY <1>3, ToldLive, ToldSound, SkillSets DEF Live, Known
<1>5. Same(st, x) /\ Ahead(x, "revise")
  BY <1>1, <1>2, <1>3, <1>4, AtStep, SkillSets DEF Same
<1> QED
  BY <1>told, <1>1, <1>4, <1>5, FailedSound, SkillSets

LEMMA SplitPassesSound ==
  ASSUME IInv, SInv, SplitPasses
  PROVE  SInv'
<1> DEFINE y == [AdvanceTo(st, Place.lifecycle) EXCEPT !.good = @ \cup {"draft"}]
<1>1. pc = "step" /\ Rest /\ UNCHANGED failures /\ Returns(y)
  BY DEF SplitPasses, At
<1>2. st \in State /\ st.cp = "none" /\ Sound(st)
  BY <1>1, AtStep
<1>3. /\ y.cursor = Place.lifecycle /\ "draft" \in y.good /\ y.cp = "none"
      /\ y.owed = st.owed /\ y.told = st.told /\ y.known = st.known /\ y.budget = st.budget
  BY <1>2 DEF AdvanceTo, State
<1> HIDE DEF y
<1>4. Behind(y)
  BY <1>3, Places DEF Behind, Skills
<1>5. Sound(y) /\ Same(st, y)
  BY <1>2, <1>3, <1>4 DEF Sound, Heard, Spent, Same
<1> QED
  BY <1>1, <1>5, UncountedSound

LEMMA SplitFailsSound ==
  ASSUME IInv, SInv, SplitFails
  PROVE  SInv'
<1>0. PICK t \in Tellings(st, "draft", 1) :
        LET x == Failing(Charged(t, "draft"), "draft") IN
        Returns(IF Exhausted(x, "draft") THEN Escalated(x, "budget")
                ELSE AdvanceTo(x, Place.draft))
  BY DEF SplitFails
<1> DEFINE c == Charged(t, "draft")
           x == Failing(c, "draft")
           y == IF Exhausted(x, "draft") THEN Escalated(x, "budget")
                ELSE AdvanceTo(x, Place.draft)
<1>1. pc = "step" /\ Rest /\ Counts("draft") /\ Returns(y) /\ st.cursor = SplitAt
  BY <1>0 DEF SplitFails, At
<1>2. Live(t) /\ Same(st, t) /\ Sound(t) /\ t.cursor = SplitAt
  BY <1>1, AtStep, ToldLive, ToldSound, SkillSets
<1>3. Known(c) /\ c.cp = "none" /\ Paid(t, c, "draft") /\ Sound(c) /\ c.cursor = SplitAt
  BY <1>2, ChargedState, ChargedSound, SkillSets DEF Live, Known
<1> HIDE DEF c
<1>4. /\ Known(x) /\ x.cp = "none" /\ Paid(st, x, "draft") /\ Sound(x) /\ x.culprit = "draft"
  <2>1. Known(x) /\ x.cp = "none" /\ x.budget = c.budget
    BY <1>3, SkillSets DEF Failing, State, Known
  <2>2. Sound(x) /\ x.culprit = "draft"
    BY <1>3, FailingSound, SkillSets DEF Ahead, Known
  <2> QED
    BY <2>1, <2>2, <1>2, <1>3 DEF Paid, Same
<1> HIDE DEF x
<1>5. CASE Exhausted(x, "draft")
  <2>1. y = Escalated(x, "budget")
    BY <1>5
  <2>2. Ok(y) /\ Same(x, y)
    BY <2>1, <1>4, EscalatedOk
  <2>3. Sound(y)
    BY <2>1, <1>4, <1>5, EscalatedSound DEF Known, Exhausted
  <2> HIDE DEF y
  <2>4. y \in State /\ Paid(st, y, "draft")
    BY <2>2, <1>4 DEF Ok, Same, Paid
  <2> QED
    BY <2>3, <2>4, <1>1, CountedSound, SkillSets
<1>6. CASE ~Exhausted(x, "draft")
  <2>1. y = AdvanceTo(x, Place.draft)
    BY <1>6
  <2>2. /\ y \in State /\ y.cursor = 1 /\ y.cp = "none" /\ y.owed = x.owed /\ y.told = x.told
        /\ y.known = x.known /\ y.budget = x.budget
    BY <2>1, <1>4, Places DEF AdvanceTo, State, Known
  <2> HIDE DEF y
  <2>3. Behind(y)
    BY <2>2, Places DEF Behind, Skills
  <2>4. Sound(y) /\ Paid(st, y, "draft")
    BY <2>2, <2>3, <1>4 DEF Sound, Heard, Spent, Paid
  <2> QED
    BY <2>2, <2>4, <1>1, CountedSound, SkillSets
<1> QED
  BY <1>5, <1>6

LEMMA BothSound ==
  ASSUME IInv, SInv, pc = "step"
  PROVE  /\ Sound(Obeyed(st, "lifecycle")) /\ Obeyed(st, "lifecycle").cursor = st.cursor
         /\ Sound(Both) /\ Both.cursor = st.cursor
<1> DEFINE o == Obeyed(st, "lifecycle")
<1>1. o \in State /\ Sound(o) /\ o.cursor = st.cursor
  BY AtStep, ObeyedLive, ObeyedSound, SkillSets DEF Live, Known
<1>2. Both = Obeyed(o, "settle")
  BY DEF Both
<1> HIDE DEF o
<1>3. Sound(Obeyed(o, "settle")) /\ Obeyed(o, "settle").cursor = o.cursor
  BY <1>1, ObeyedSound, SkillSets
<1> QED
  BY <1>1, <1>2, <1>3 DEF o

\* Neither skill of the pair is behind the cursor of the pair.
LEMMA PairAhead ==
  ASSUME NEW x, x.cursor = Place.lifecycle, NEW s \in {"lifecycle", "settle"}
  PROVE  Ahead(x, s)
  BY Places DEF Ahead

LEMMA PairGateFailsSound ==
  ASSUME IInv, SInv, NEW s \in {"lifecycle", "settle"}, PairGateFails(s)
  PROVE  SInv'
<1> DEFINE before == IF s = "settle" THEN Obeyed(st, "lifecycle") ELSE st
<1>1. /\ pc = "step" /\ Rest /\ Counts(s) /\ s \in Skills
      /\ st.cursor = Place.lifecycle
  BY SkillSets DEF PairGateFails, At
<1>told. PICK x \in Tellings(before, s, MaxFamilies) : Returns(HandleFailure(x, s, FALSE))
  BY DEF PairGateFails
<1>2. Live(before) /\ Same(st, before) /\ Sound(before) /\ before.cursor = st.cursor
  BY <1>1, BothLive, BothSound, AtStep
<1> HIDE DEF before
<1>3. Live(x) /\ Same(before, x) /\ Sound(x) /\ x.cursor = before.cursor
  BY <1>1, <1>2, ToldLive, ToldSound, SkillSets, Limits DEF Live, Known
<1>4. Ahead(x, s)
  BY <1>1, <1>2, <1>3, PairAhead
<1> QED
  BY <1>told, <1>1, <1>2, <1>3, <1>4, FailedSound DEF Same

LEMMA PairOutputMissingSound ==
  ASSUME IInv, SInv, NEW s \in {"lifecycle", "settle"}, PairOutputMissing(s)
  PROVE  SInv'
<1> DEFINE d == Done(Both, "lifecycle")
           x == IF s = "settle" THEN d ELSE Both
<1>1. /\ pc = "step" /\ Rest /\ Counts(s) /\ Returns(HandleFailure(x, s, FALSE)) /\ s \in Skills
      /\ st.cursor = Place.lifecycle
  BY SkillSets DEF PairOutputMissing, At
<1>2. Live(Both) /\ Same(st, Both) /\ Sound(Both) /\ Both.cursor = st.cursor
  BY <1>1, BothLive, BothSound
<1>3. Live(d) /\ Same(st, d) /\ Sound(d) /\ d.cursor = st.cursor
  BY <1>2, DoneLive, DoneSound, SkillSets DEF Same, Live, Known
<1> HIDE DEF d
<1>4. Live(x) /\ Same(st, x) /\ Sound(x) /\ x.cursor = st.cursor
  BY <1>2, <1>3
<1> HIDE DEF x
<1>5. Ahead(x, s)
  BY <1>1, <1>4, PairAhead
<1> QED
  BY <1>1, <1>4, <1>5, FailedSound

LEMMA PairPassesSound ==
  ASSUME IInv, SInv, PairPasses
  PROVE  SInv'
<1> DEFINE l == Done(Both, "lifecycle")
           b == Done(l, "settle")
<1>1. pc = "step" /\ Rest /\ UNCHANGED failures /\ st.cursor = Place.lifecycle
  BY DEF PairPasses, At
<1>2. PICK y \in Settled(b) : Returns(y)
  BY DEF PairPasses
<1>3. Live(Both) /\ Same(st, Both) /\ Sound(Both) /\ "draft" \in Both.good
  <2>1. Live(Both) /\ Same(st, Both) /\ Sound(Both) /\ Both.cursor = Place.lifecycle
    BY <1>1, BothLive, BothSound
  <2> QED
    BY <2>1, Places, SkillSets DEF Sound, Behind
<1>4. Live(l) /\ Same(st, l) /\ Sound(l) /\ {"draft", "lifecycle"} \subseteq l.good
  BY <1>3, DoneLive, DoneSound, SkillSets DEF Same, Live, Known
<1> HIDE DEF l
<1>5. Live(b) /\ Same(l, b) /\ Sound(b) /\ {"draft", "lifecycle", "settle"} \subseteq b.good
  BY <1>4, DoneLive, DoneSound, SkillSets DEF Live, Known
<1> HIDE DEF b
<1>6. Sound(y) /\ Same(b, y)
  <2>1. /\ b \in State /\ b.cp = "none" /\ Heard(b)
        /\ "draft" \in b.good /\ "lifecycle" \in b.good /\ "settle" \in b.good
    BY <1>5 DEF Live, Known, Sound
  <2> QED
    BY <2>1, <1>5, SettledSound, SettledOk
<1> QED
  BY <1>1, <1>2, <1>4, <1>5, <1>6, UncountedSound DEF Same

LEMMA SaveEndSound ==
  ASSUME SInv, Save \/ End \/ Kill
  PROVE  SInv'
<1>1. /\ (st' = st /\ saved' = st) \/ (st' = saved /\ saved' = saved)
      /\ failures' = failures /\ reviewed' = reviewed
  BY DEF Save, End, Kill
<1> QED
  BY <1>1 DEF SInv, Sound, Heard, Behind, Spent, Backed

\* What takes the place of the idle state.
LEMMA IdleSound ==
  ASSUME NEW y, Sound(y), st' = y, saved' = y,
         reviewed' => \A s \in Skills : y.budget[s] <= failures'[s] + 1
  PROVE  SInv'
  BY DEF SInv, Sound, Heard, Behind, Spent, Backed

LEMMA CommandSound ==
  ASSUME IInv, SInv, Command
  PROVE  SInv'
<1> DEFINE b == [s \in Skills |-> IF st.told[s] # {} /\ st.budget[s] = 0 THEN 1 ELSE st.budget[s]]
           y == [st EXCEPT !.budget = b]
<1>1. /\ st \in State /\ st.cp = "none" /\ Sound(st) /\ st = saved
      /\ failures' = failures /\ reviewed' = reviewed /\ failures \in [Skills -> Nat]
  BY Limits DEF IInv, TypeOK, Ok, Command, Known, SInv
<1>2. (st' = st /\ saved' = st) \/ (st' = Healed(st) /\ saved' = Healed(st))
  BY <1>1 DEF Command
<1>3. Healed(st) = y
  BY DEF Healed
<1>4. reviewed => \A s \in Skills : b[s] <= failures[s] + 1 /\ st.budget[s] <= failures[s] + 1
  BY <1>1 DEF SInv, Backed
<1> HIDE DEF b
<1>5. /\ y.cursor = st.cursor /\ y.cp = "none" /\ y.owed = st.owed /\ y.told = st.told
      /\ y.known = st.known /\ y.good = st.good /\ y.budget = b
  BY <1>1 DEF State
<1> HIDE DEF y
<1>6. Sound(y)
  BY <1>1, <1>5, SameSound DEF Spent
<1> QED
  BY <1>1, <1>2, <1>3, <1>4, <1>5, <1>6, IdleSound

\* An answer to x, which is sound but for the checkpoint that it ends.
LEMMA AnswersSound ==
  ASSUME NEW x, x \in State, Heard(x), Behind(x), Answers(x),
         reviewed => \A s \in Skills : x.budget[s] <= failures'[s] + 1
  PROVE  SInv'
<1> DEFINE y == [x EXCEPT !.cp = "none", !.why = "none"]
<1>1. st' = y /\ saved' = y /\ reviewed' = reviewed
  BY DEF Answers
<1>2. /\ y.cursor = x.cursor /\ y.cp = "none" /\ y.owed = x.owed /\ y.told = x.told
      /\ y.known = x.known /\ y.good = x.good /\ y.budget = x.budget
  BY DEF State
<1> HIDE DEF y
<1>3. Sound(y)
  BY <1>2 DEF Sound, Heard, Behind, Spent
<1> QED
  BY <1>1, <1>2, <1>3, IdleSound

LEMMA ResetSound ==
  ASSUME NEW x, x \in State, Sound(x)
  PROVE  LET r == Reset(x) IN
         /\ r \in State /\ Heard(r) /\ Behind(r) /\ r.cursor = x.cursor
         /\ r.budget = Zero /\ r.owed = x.owed /\ r.told = x.told /\ r.known = x.known
<1>1. /\ Zero \in [Skills -> 0..(MaxAttempts + 1)] /\ Zero \in [Skills -> 0..(MaxBudget + 1)]
  BY Limits DEF Zero
<1>2. /\ Reset(x) \in State
  BY <1>1 DEF Reset, State
<1>3. /\ Reset(x).cursor = x.cursor /\ Reset(x).budget = Zero /\ Reset(x).good = x.good
      /\ Reset(x).owed = x.owed /\ Reset(x).told = x.told /\ Reset(x).known = x.known
  BY DEF Reset, State
<1>4. Heard(Reset(x)) /\ Behind(Reset(x))
  BY <1>3 DEF Sound, Heard, Behind
<1> QED
  BY <1>2, <1>3, <1>4

\* After a rejection the settlement is behind nothing: it is done again.
LEMMA RedoSettle ==
  ASSUME NEW x, x \in State, Heard(x), Behind(x), x.cursor = Place.revise
  PROVE  LET y == AdvanceTo(x, Place.settle) IN
         y \in State /\ Heard(y) /\ Behind(y) /\ y.budget = x.budget
<1> DEFINE y == AdvanceTo(x, Place.settle)
<1>1. /\ y \in State /\ y.cursor = 4 /\ y.good = x.good /\ y.owed = x.owed
      /\ y.told = x.told /\ y.known = x.known /\ y.budget = x.budget
  BY Places DEF AdvanceTo, State
<1> HIDE DEF y
<1>2. Behind(y)
  BY <1>1, Places DEF Behind, Skills
<1>3. Heard(y)
  BY <1>1 DEF Heard
<1>4. y \in State /\ Heard(y) /\ Behind(y) /\ y.budget = x.budget
  BY <1>1, <1>2, <1>3
<1> QED
  BY <1>4 DEF y

LEMMA SettleAnswersSound ==
  ASSUME IInv, SInv, ApproveSettle \/ ModifySettle \/ RejectSettle
  PROVE  SInv'
<1>1. /\ st \in State /\ Sound(st) /\ Heard(st) /\ Behind(st) /\ st.cursor = Place.revise
      /\ failures \in [Skills -> Nat] /\ (reviewed => Backed(st))
  BY Limits DEF IInv, TypeOK, SInv, Sound, ApproveSettle, ModifySettle, RejectSettle
<1>2. CASE ApproveSettle
  BY <1>1, <1>2, AnswersSound DEF ApproveSettle, Backed
<1>3. CASE ModifySettle
  <2> DEFINE x == AdvanceTo(st, Place.settle)
  <2>1. x \in State /\ Heard(x) /\ Behind(x) /\ x.budget = st.budget
    BY <1>1, RedoSettle
  <2>2. Answers(x) /\ failures' = failures
    BY <1>3 DEF ModifySettle
  <2> HIDE DEF x
  <2> QED
    BY <2>1, <2>2, <1>1, AnswersSound DEF Backed
<1>4. CASE RejectSettle
  <2> DEFINE r == Reset(st)
             x == AdvanceTo(r, Place.settle)
  <2>1. r \in State /\ Heard(r) /\ Behind(r) /\ r.cursor = Place.revise /\ r.budget = Zero
    BY <1>1, ResetSound
  <2>2. Answers(x) /\ failures' = Zero
    BY <1>4 DEF RejectSettle
  <2> HIDE DEF r
  <2>3. x \in State /\ Heard(x) /\ Behind(x) /\ x.budget = Zero
    BY <2>1, RedoSettle
  <2> HIDE DEF x
  <2>4. \A s \in Skills : x.budget[s] <= failures'[s] + 1
    BY <2>2, <2>3 DEF Zero
  <2> QED
    BY <2>2, <2>3, <2>4, AnswersSound
<1> QED
  BY <1>2, <1>3, <1>4

LEMMA TargetSkill ==
  ASSUME NEW x, Known(x)
  PROVE  Target(x) \in Skills
<1>1. x.cursor \in 1..Over /\ x.cursor # Over
  BY DEF State, Known
<1>2. x.cursor # SplitAt => \E s \in Skills : Place[s] = x.cursor
  BY <1>1 DEF Over, SplitAt, Place, Skills
<1> QED
  BY <1>2, SkillSets DEF Target

LEMMA ResolveSound ==
  ASSUME IInv, SInv, Resolve
  PROVE  SInv'
<1> DEFINE r == Reset(st)
           t == Target(st)
<1>1. Known(st) /\ st \in State /\ Sound(st)
  BY DEF IInv, Ok, Resolve, SInv, Known
<1>2. /\ r \in State /\ Heard(r) /\ Behind(r) /\ r.budget = Zero
  BY <1>1, ResetSound
<1>3. t \in Skills
  BY <1>1, TargetSkill
<1>4. PICK x \in {r} \cup {Worded(r, t, again) : again \in BOOLEAN} : Answers(x)
  BY DEF Resolve
<1> HIDE DEF r, t
<1>5. failures' = Zero
  BY DEF Resolve
<1>6. ASSUME NEW again \in BOOLEAN
      PROVE  LET y == Worded(r, t, again) IN
             y \in State /\ Heard(y) /\ Behind(y) /\ y.budget = Zero
  <2> DEFINE y == Worded(r, t, again)
             h == y.known[t]
  <2>1. /\ y \in State /\ y.cursor = r.cursor /\ y.good = r.good /\ y.budget = r.budget
        /\ y.owed = r.owed \cup {t} /\ "reviewer" \in y.told[t] /\ h.words
        /\ \A s \in Skills \ {t} : y.told[s] = r.told[s] /\ y.known[s] = r.known[s]
    BY <1>2, <1>3, WordedIs
  <2>2. r.owed \subseteq Skills
    BY <1>2 DEF State
  <2> HIDE DEF y
  <2>3. Heard(y)
    BY <2>1, <2>2, <1>2, <1>3 DEF Heard
  <2>4. Behind(y)
    BY <2>1, <1>2 DEF Behind
  <2> QED
    BY <2>1, <2>3, <2>4, <1>2 DEF y
<1>7. x \in State /\ Heard(x) /\ Behind(x) /\ x.budget = Zero
  BY <1>2, <1>4, <1>6
<1>8. \A s \in Skills : x.budget[s] <= failures'[s] + 1
  BY <1>5, <1>7 DEF Zero
<1> QED
  BY <1>4, <1>7, <1>8, AnswersSound

LEMMA InitSound == Init => SInv
<1> SUFFICES ASSUME Init PROVE SInv
  OBVIOUS
<1>1. Sound(Start)
  BY Places DEF Sound, Heard, Behind, Spent, Start, Skills
<1>2. Backed(Start)
  BY DEF Init, Backed, Start, Zero
<1> QED
  BY <1>1, <1>2 DEF Init, SInv

LEMMA NextSound == IInv /\ SInv /\ [Next]_vars => SInv'
<1> SUFFICES ASSUME IInv, SInv, [Next]_vars PROVE SInv'
  OBVIOUS
<1>1. CASE Command
  BY <1>1, CommandSound
<1>2. CASE Step
  <2>1. ASSUME NEW s \in Serial, DispatchFails(s) \/ GateFailsHard(s) \/ OutputMissing(s) \/ Passes(s)
        PROVE  SInv'
    BY <2>1, SkillSets, DispatchFailsSound, GateFailsHardSound, OutputMissingSound, PassesSound
  <2>2. ASSUME NEW s \in {"lifecycle", "settle"}, PairGateFails(s) \/ PairOutputMissing(s)
        PROVE  SInv'
    BY <2>2, PairGateFailsSound, PairOutputMissingSound
  <2>3. CASE DispatchFails("lifecycle")
    BY <2>3, SkillSets, DispatchFailsSound
  <2>4. CASE (\E s \in Serial : DriftEscalates(s)) \/ SettleFails \/ PairSettleFails
    BY <2>4, EscalatesSound
  <2>5. CASE GuardRefuses \/ RevalidationFails \/ SplitPasses \/ SplitFails \/ PairPasses \/ Save \/ End
    BY <2>5, GuardRefusesSound, RevalidationFailsSound, SplitPassesSound, SplitFailsSound,
       PairPassesSound, SaveEndSound
  <2> QED
    BY <1>2, <2>1, <2>2, <2>3, <2>4, <2>5 DEF Step
<1>3. CASE Kill
  BY <1>3, SaveEndSound
<1>4. CASE Review
  BY <1>4, ResolveSound, SettleAnswersSound DEF Review
<1>5. CASE UNCHANGED vars
  BY <1>5 DEF vars, SInv, Sound, Heard, Behind, Spent, Backed
<1> QED
  BY <1>1, <1>2, <1>3, <1>4, <1>5 DEF Next

LEMMA SoundAlways == Spec => [](IInv /\ SInv)
<1>1. Init => IInv /\ SInv
  BY InitInvariant, InitSound
<1>2. (IInv /\ SInv) /\ [Next]_vars => (IInv /\ SInv)'
  BY NextInvariant, NextSound
<1> QED
  BY <1>1, <1>2, PTL DEF Spec

\* The reviewer's words are repeated to every attempt of the step that took
\* them, through failures, rewinds, kills and healing, until it has obeyed or
\* the history is full of failures first named after them
\* (chapter_loop.py:1226-1264).
THEOREM WordsRepeated == Spec => []ReviewerHeard
<1>1. SInv => ReviewerHeard
  BY DEF SInv, Sound, Heard, ReviewerHeard
<1> QED
  BY <1>1, SoundAlways, PTL

\* Under review, no answer and no failure path takes the cursor past a step
\* whose last dispatch did not bring what it should.
THEOREM CursorEarned == Spec => []NothingSkipped
<1>1. SInv => NothingSkipped
  BY DEF SInv, Sound, Behind, NothingSkipped
<1> QED
  BY <1>1, SoundAlways, PTL

\* Under review, an escalation over a spent budget stands for as many failing
\* dispatches of that step, one of them perhaps made up by healing.
THEOREM EscalationEarned == Spec => []ExhaustionEarned
<1>1. IInv /\ SInv => ExhaustionEarned
  <2> SUFFICES ASSUME IInv, SInv, reviewed, st.cp = "escalation", st.why = "budget"
               PROVE  failures[st.culprit] >= MaxBudget
    BY DEF ExhaustionEarned
  <2> DEFINE s == st.culprit
  <2>1. s \in Skills /\ st.budget[s] \in Nat /\ failures[s] \in Nat
    BY Limits DEF IInv, TypeOK, State
  <2>2. st.budget[s] > MaxBudget /\ st.budget[s] <= failures[s] + 1
    BY <2>1 DEF SInv, Sound, Spent, Backed
  <2> QED
    BY <2>1, <2>2, Limits
<1> QED
  BY <1>1, SoundAlways, PTL
=============================================================================

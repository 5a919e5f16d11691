--------------------------- MODULE Genesis_proofs ---------------------------
(***************************************************************************)
(* Proofs about Genesis, for a table of any length: completion is earned   *)
(* unless a drift stopped the sequence, a freeze stands while it is        *)
(* contested (both from Inv), and no step runs on a drift that was not     *)
(* reported (RInv, of the state in memory and of the file).                *)
(***************************************************************************)
EXTENDS Genesis, WellFoundedInduction, TLAPS

-----------------------------------------------------------------------------
(* The operators on the state.                                             *)

\* Every step before the cursor is done, unless it is optional or a drift has
\* stopped the sequence; the checkpoints are where the cursor says.
Sound(st) ==
  /\ ~st.stopped => \A s \in Steps : s <= st.cursor => s \in st.done \cup Optional
  /\ st.cp = "complete" \/ st.approved \/ st.phase = "chapters" => st.cursor = N
  /\ st.cp = "escalation" => st.cursor < N
  /\ st.approved \/ st.phase = "chapters" => st.cp = "none"

\* Going past a step that is done or optional keeps the state sound.
LEMMA AdvanceSound ==
  ASSUME NEW st \in States, Sound(st), st.cp = "none", st.cursor < N,
         NEW files \in Bindings, st.cursor + 1 \in st.done \cup Optional
  PROVE  Advance(st, files) \in States /\ Sound(Advance(st, files))
<1> USE GenesisAssumption DEF Steps
<1> DEFINE past == [st EXCEPT !.cursor = @ + 1]
<1>0. st.cursor + 1 \in 0..N
  <2>1. st.cursor \in 0..N
      BY DEF States
  <2> QED BY <2>1
<1>1. past \in States /\ past.cursor = st.cursor + 1 /\ past.cp = "none"
  <2> HIDE DEF Steps
  <2> QED BY <1>0 DEF States
<1>2. ASSUME ~st.stopped, NEW s \in Steps, s <= st.cursor + 1 PROVE s \in st.done \cup Optional
  <2>1. st.cursor \in Nat /\ s \in Nat
      BY DEF States
  <2>2. s <= st.cursor \/ s = st.cursor + 1
      BY <1>2, <2>1
  <2> QED BY <1>2, <2>2 DEF Sound
<1>3. ~st.approved /\ st.phase # "chapters"
    BY DEF Sound, States
<1>4. CASE past.cursor < N
    BY <1>1, <1>2, <1>3, <1>4 DEF Advance, Sound, States
<1>5. CASE ~(past.cursor < N)
  <2> DEFINE drift == past.told \cup {s \in Steps : Drifted(st, files, s)}
  <2> DEFINE none == [s \in Steps |-> Nothing]
  <2>1. none \in [Steps -> Bindings] /\ drift \in SUBSET Steps
    <3>1. past.told \in SUBSET Steps
        BY <1>1 DEF States
    <3> QED BY <3>1 DEF Nothing, Bindings
  <2>2. Advance(st, files) = [past EXCEPT !.cp = "complete", !.told = drift, !.frozen = none]
      BY <1>5 DEF Advance
  <2> HIDE DEF none, drift
  <2>3. Advance(st, files) \in States
      BY <1>1, <2>1, <2>2 DEF States
  <2>4. past.cursor = N
      BY <1>1, <1>5 DEF States
  <2>5. /\ Advance(st, files).cursor = N /\ Advance(st, files).done = st.done
        /\ Advance(st, files).cp = "complete" /\ Advance(st, files).approved = st.approved
        /\ Advance(st, files).phase = st.phase /\ Advance(st, files).stopped = st.stopped
      BY <2>2, <2>4 DEF States
  <2> QED BY <1>1, <1>2, <1>3, <2>3, <2>4, <2>5 DEF Sound
<1> QED BY <1>4, <1>5

\* What a step may change of a state without moving the cursor.
LEMMA CountSound ==
  ASSUME NEW st \in States, Sound(st), NEW s \in Steps, NEW n \in 0..MaxAttempts
  PROVE  /\ [st EXCEPT !.attempts[s] = n] \in States
         /\ Sound([st EXCEPT !.attempts[s] = n])
<1>1. [st EXCEPT !.attempts[s] = n] \in States
    BY GenesisAssumption DEF States
<1> QED BY <1>1 DEF Sound, States

\* Nor does a note that a step is told.
LEMMA NoteSound ==
  ASSUME NEW st \in States, Sound(st), NEW s \in Steps, NEW notes \in SUBSET Notes
  PROVE  /\ [st EXCEPT !.slot[s] = notes] \in States
         /\ Sound([st EXCEPT !.slot[s] = notes])
<1>1. [st EXCEPT !.slot[s] = notes] \in States
    BY DEF States
<1> QED BY <1>1 DEF Sound, States
\* A failure skips an optional step, and otherwise counts or escalates.
LEMMA FailedSound ==
  ASSUME NEW st \in States, Sound(st), st.cp = "none", st.cursor < N,
         NEW files \in Bindings, NEW s \in Steps, s = st.cursor + 1, st.attempts[s] < MaxAttempts
  PROVE  Failed(st, files, s) \in States /\ Sound(Failed(st, files, s))
<1>1. CASE s \in Optional
  <2> DEFINE zero == [st EXCEPT !.attempts[s] = 0]
  <2>1. zero \in States /\ Sound(zero)
      BY CountSound, GenesisAssumption
  <2>2. zero.cp = "none" /\ zero.cursor = st.cursor
      BY DEF States
  <2> HIDE DEF zero
  <2>3. Advance(zero, files) \in States /\ Sound(Advance(zero, files))
      BY <1>1, <2>1, <2>2, AdvanceSound
  <2> QED BY <1>1, <2>3 DEF Failed, zero
<1>2. CASE s \notin Optional
  <2> DEFINE n       == st.attempts[s] + 1
             counted == [st EXCEPT !.attempts[s] = n]
  <2>1. n \in 0..MaxAttempts
      BY GenesisAssumption DEF States
  <2>2. counted \in States /\ Sound(counted) /\ counted.cp = "none" /\ counted.cursor = st.cursor
      BY <2>1, CountSound DEF States
  <2>3. Failed(st, files, s) \in {counted, [counted EXCEPT !.cp = "escalation"]}
      BY <1>2 DEF Failed
  <2> HIDE DEF counted
  <2>4. [counted EXCEPT !.cp = "escalation"] \in States
      BY <2>2 DEF States
  <2>5. Sound([counted EXCEPT !.cp = "escalation"])
      BY <2>2 DEF Sound, States
  <2> QED BY <2>2, <2>3, <2>4, <2>5
<1> QED BY <1>1, <1>2

\* A success marks the step done, and advances or stops at a drift.
LEMMA SucceededSound ==
  ASSUME NEW st \in States, Sound(st), st.cp = "none", st.cursor < N,
         NEW files \in Bindings, NEW s \in Steps, s = st.cursor + 1
  PROVE  Succeeded(st, files, s) \in States /\ Sound(Succeeded(st, files, s))
<1> DEFINE zero == [st EXCEPT !.attempts[s] = 0]
           done == [zero EXCEPT !.done = @ \cup {s}]
<1>1. zero \in States /\ Sound(zero) /\ zero.cp = "none" /\ zero.cursor = st.cursor
  <2>1. zero \in States /\ Sound(zero)
      BY CountSound, GenesisAssumption
  <2> QED BY <2>1 DEF States
<1>2. ~zero.approved /\ zero.phase # "chapters"
  <2> HIDE DEF zero
  <2>1. zero.cursor # N
      BY <1>1, GenesisAssumption DEF States
  <2> QED BY <1>1, <2>1 DEF Sound
<1> HIDE DEF zero
<1>3. /\ done \in States /\ done.cp = "none" /\ done.cursor = st.cursor /\ s \in done.done
      /\ zero.done \subseteq done.done /\ done.stopped = zero.stopped
      /\ ~done.approved /\ done.phase # "chapters"
  <2>1. zero.done \cup {s} \in SUBSET Steps
      BY <1>1 DEF States
  <2> QED BY <1>1, <1>2, <2>1 DEF States
<1>4. Sound(done)
  <2>1. done.cursor = zero.cursor /\ done.cp = zero.cp
      BY <1>1, <1>3
  <2> HIDE DEF done
  <2> QED BY <1>1, <1>3, <2>1 DEF Sound
<1> HIDE DEF done
<1>5. Advance(done, files) \in States /\ Sound(Advance(done, files))
    BY <1>3, <1>4, AdvanceSound
<1>6. CASE Drifted(done, files, s)
  <2> DEFINE halt == done.stopped \/ \E t \in (s + 1)..N : t \notin done.done
             told == done.told \cup {s}
             end  == [done EXCEPT !.cursor = N, !.cp = "complete", !.told = told, !.stopped = halt]
  <2>1. Succeeded(st, files, s) = end
      BY <1>6 DEF Succeeded, done, zero
  <2>2. end \in States
    <3>1. halt \in BOOLEAN /\ told \in SUBSET Steps /\ N \in 0..N
        BY <1>3, GenesisAssumption DEF States
    <3> HIDE DEF halt, told
    <3> QED BY <1>3, <3>1 DEF States
  <2>3. /\ end.cursor = N /\ end.done = done.done /\ end.cp = "complete"
        /\ ~end.approved /\ end.phase # "chapters" /\ end.stopped = halt
      BY <1>3 DEF States
  <2>4. ASSUME ~halt, NEW t \in Steps PROVE t \in done.done \cup Optional
    <3>1. t <= s \/ t \in (s + 1)..N
      <4>1. t \in Nat /\ s \in Nat /\ t <= N
          BY GenesisAssumption DEF Steps
      <4> QED BY <4>1, GenesisAssumption
    <3>2. CASE t \in (s + 1)..N
        BY <2>4, <3>2
    <3>3. CASE t <= s
      <4>1. t = s \/ t <= done.cursor
          BY <1>3, <3>3, GenesisAssumption DEF Steps, States
      <4> QED BY <1>3, <1>4, <2>4, <4>1 DEF Sound
    <3> QED BY <3>1, <3>2, <3>3
  <2> HIDE DEF end, halt
  <2>5. Sound(end)
      BY <2>3, <2>4, GenesisAssumption DEF Sound
  <2> QED BY <2>1, <2>2, <2>5
<1>7. CASE ~Drifted(done, files, s)
    BY <1>5, <1>7 DEF Succeeded, done, zero
<1> QED BY <1>6, <1>7
\* Only an escalation has used up a step's attempts.
Within(st) == st.cp # "escalation" => \A s \in Steps : st.attempts[s] < MaxAttempts

\* A step of a command consumes freezes and never changes one.
Keeps(st, next) ==
  /\ Within(next) /\ next.phase = st.phase
  /\ \A s \in Steps : next.frozen[s] \in {st.frozen[s], Nothing}

\* What the three operators keep.
LEMMA AdvanceKeeps ==
  ASSUME NEW st \in States, Within(st), st.cp = "none", st.cursor < N, NEW files \in Bindings
  PROVE  Keeps(st, Advance(st, files))
<1> DEFINE past == [st EXCEPT !.cursor = @ + 1]
           drift == past.told \cup {s \in Steps : Drifted(st, files, s)}
           none == [s \in Steps |-> Nothing]
           over == [past EXCEPT !.cp = "complete", !.told = drift, !.frozen = none]
<1>1. /\ past.frozen = st.frozen /\ past.attempts = st.attempts /\ past.cp = "none"
      /\ past.phase = st.phase
    BY DEF States
<1>2. /\ over.frozen = none /\ over.attempts = st.attempts /\ over.cp = "complete"
      /\ over.phase = st.phase
  <2> HIDE DEF none, drift
  <2> QED BY DEF States
<1>3. Advance(st, files) \in {past, over}
    BY DEF Advance
<1> HIDE DEF past, over
<1> QED BY <1>1, <1>2, <1>3 DEF Keeps, Within

\* Also a step of which the attempts are forgotten, and its completion noted.
LEMMA ClearedKeeps ==
  ASSUME NEW st \in States, Within(st), st.cp = "none", NEW s \in Steps, NEW d \in SUBSET Steps
  PROVE  /\ [st EXCEPT !.attempts[s] = 0, !.done = d] \in States
         /\ Within([st EXCEPT !.attempts[s] = 0, !.done = d])
         /\ [st EXCEPT !.attempts[s] = 0, !.done = d].cp = "none"
         /\ [st EXCEPT !.attempts[s] = 0, !.done = d].cursor = st.cursor
         /\ [st EXCEPT !.attempts[s] = 0, !.done = d].frozen = st.frozen
         /\ [st EXCEPT !.attempts[s] = 0, !.done = d].phase = st.phase
<1>1. 0 \in 0..MaxAttempts /\ 0 < MaxAttempts
    BY GenesisAssumption
<1>2. [st EXCEPT !.attempts[s] = 0, !.done = d] \in States
    BY <1>1 DEF States
<1> QED BY <1>1, <1>2 DEF Within, States

\* A failure counts an attempt and escalates with the last.
LEMMA FailedKeeps ==
  ASSUME NEW st \in States, Within(st), st.cp = "none", st.cursor < N, NEW files \in Bindings,
         NEW s \in Steps
  PROVE  Keeps(st, Failed(st, files, s))
<1>1. CASE s \in Optional
  <2> DEFINE zero == [st EXCEPT !.attempts[s] = 0]
  <2>1. zero = [st EXCEPT !.attempts[s] = 0, !.done = st.done] /\ st.done \in SUBSET Steps
      BY DEF States
  <2> HIDE DEF zero
  <2>2. /\ zero \in States /\ Within(zero) /\ zero.cp = "none" /\ zero.cursor < N /\ zero.frozen = st.frozen
        /\ zero.phase = st.phase
      BY <2>1, ClearedKeeps
  <2>3. Keeps(zero, Advance(zero, files))
      BY <2>2, AdvanceKeeps
  <2> QED BY <1>1, <2>2, <2>3 DEF Failed, Keeps, zero
<1>2. CASE s \notin Optional
  <2> DEFINE counted == [st EXCEPT !.attempts[s] = @ + 1]
             ended == [counted EXCEPT !.cp = "escalation"]
  <2>1. /\ counted.cp = "none" /\ counted.frozen = st.frozen /\ counted.phase = st.phase
        /\ \A t \in Steps : t # s => counted.attempts[t] = st.attempts[t]
      BY DEF States
  <2>2. ended.cp = "escalation" /\ ended.frozen = st.frozen /\ ended.phase = st.phase
      BY DEF States
  <2>3. IF counted.attempts[s] < MaxAttempts THEN Failed(st, files, s) = counted
                                             ELSE Failed(st, files, s) = ended
      BY <1>2 DEF Failed
  <2> HIDE DEF counted, ended
  <2> QED BY <2>1, <2>2, <2>3 DEF Keeps, Within
<1> QED BY <1>1, <1>2

\* A success forgets the attempts.
LEMMA SucceededKeeps ==
  ASSUME NEW st \in States, Within(st), st.cp = "none", st.cursor < N, NEW files \in Bindings,
         NEW s \in Steps
  PROVE  Keeps(st, Succeeded(st, files, s))
<1> DEFINE done == [st EXCEPT !.attempts[s] = 0, !.done = @ \cup {s}]
           halt == done.stopped \/ \E t \in (s + 1)..N : t \notin done.done
           told == done.told \cup {s}
           end  == [done EXCEPT !.cursor = N, !.cp = "complete", !.told = told, !.stopped = halt]
<1>1. st.done \cup {s} \in SUBSET Steps
    BY DEF States
<1>2. /\ done \in States /\ Within(done) /\ done.cp = "none" /\ done.cursor < N
      /\ done.frozen = st.frozen /\ done.phase = st.phase
    BY <1>1, ClearedKeeps
<1>3. Keeps(done, Advance(done, files))
  <2> HIDE DEF done
  <2> QED BY <1>2, AdvanceKeeps
<1>4. Succeeded(st, files, s) \in {end, Advance(done, files)}
    BY DEF Succeeded
<1>5. /\ end.frozen = st.frozen /\ end.attempts = done.attempts /\ end.cp = "complete"
      /\ end.phase = st.phase
  <2> HIDE DEF done, halt, told
  <2> QED BY <1>2 DEF States
<1> HIDE DEF done, end
<1> QED BY <1>2, <1>3, <1>4, <1>5 DEF Keeps, Within
-----------------------------------------------------------------------------
(* The invariant.                                                          *)

\* A running command is not at a checkpoint until it ends; what is saved is
\* all that an idle project has, with at least the freezes of a running one.
Running ==
  /\ pc \in {"step", "save"} => g.cp = "none" /\ g.phase = "genesis"
  /\ pc = "idle" => g = saved
  /\ \A s \in Steps : g.frozen[s] \in {saved.frozen[s], Nothing}

Inv == TypeOK /\ Sound(g) /\ Sound(saved) /\ Within(g) /\ Within(saved) /\ Running

\* Genesis starts at its first step with nothing done.
LEMMA InvInit == Init => Inv
<1> USE GenesisAssumption DEF Steps
<1> SUFFICES ASSUME Init PROVE Inv
    OBVIOUS
<1>1. Fresh \in States
  <2>1. 0 \in 0..N /\ 0 \in 0..MaxAttempts
      OBVIOUS
  <2>2. [s \in Steps |-> Nothing] \in [Steps -> Bindings]
      BY DEF Nothing, Bindings
  <2> HIDE DEF Steps
  <2> QED BY <2>1, <2>2 DEF Fresh, States
<1>2. Sound(Fresh) /\ Within(Fresh)
    BY DEF Sound, Within, Fresh
<1>3. TypeOK
    BY <1>1 DEF Init, TypeOK, Nothing, Bindings
<1> QED BY <1>2, <1>3 DEF Init, Inv, Running

\* The step of a command that applies one of the operators, to the state as
\* it is or with another note for the step at the cursor.
LEMMA ReturnsInv ==
  ASSUME Inv, pc = "step", NEW st \in States, Sound(st), Keeps(g, st), Returns(st),
         shape' \in Bindings, UNCHANGED <<reviewed, saved, reviews>>
  PROVE  Inv'
<1>1. TypeOK'
    BY DEF Inv, TypeOK, Returns
<1>2. Sound(g)' /\ Sound(saved)' /\ Within(g)' /\ Within(saved)'
    BY DEF Inv, Returns, Keeps, Sound, Within
<1>3. Running'
    BY DEF Inv, Running, Returns, Keeps
<1> QED BY <1>1, <1>2, <1>3 DEF Inv
\* The state before a dispatch, with what its gates note and count.
Variant(st) ==
  /\ st \in States /\ Sound(st) /\ Within(st) /\ st.cp = "none" /\ st.phase = "genesis"
  /\ st.cursor = g.cursor /\ st.frozen = g.frozen

\* A dispatch that fails or succeeds from such a state keeps the invariant.
LEMMA VariantInv ==
  ASSUME Inv, Due, NEW st, Variant(st), shape' \in Bindings, NEW files \in Bindings,
         UNCHANGED <<reviewed, saved, reviews>>,
         \/ Returns(st)
         \/ Returns(Failed(st, files, Current))
         \/ Returns(Succeeded(st, files, Current))
  PROVE  Inv'
<1>1. /\ pc = "step" /\ g.phase = "genesis" /\ st.cursor < N /\ Current \in Steps
      /\ Current = st.cursor + 1 /\ st.attempts[Current] < MaxAttempts
  <2>1. g.cursor \in 0..N /\ g.cursor < N /\ N \in Nat
      BY GenesisAssumption DEF Inv, TypeOK, Due, States
  <2>2. Current \in Steps
      BY <2>1 DEF Current, Steps
  <2> QED BY <2>1, <2>2 DEF Inv, Running, Due, Variant, Within, Current
<1>2. CASE Returns(st)
  <2>1. Keeps(g, st)
      BY <1>1 DEF Variant, Keeps
  <2> QED BY <1>1, <1>2, <2>1, ReturnsInv DEF Variant
<1>3. CASE Returns(Failed(st, files, Current))
  <2>1. Failed(st, files, Current) \in States /\ Sound(Failed(st, files, Current))
      BY <1>1, FailedSound DEF Variant
  <2>2. Keeps(st, Failed(st, files, Current))
      BY <1>1, FailedKeeps DEF Variant
  <2>3. Keeps(g, Failed(st, files, Current))
      BY <1>1, <2>2 DEF Keeps, Variant
  <2> QED BY <1>1, <1>3, <2>1, <2>3, ReturnsInv
<1>4. CASE Returns(Succeeded(st, files, Current))
  <2>1. Succeeded(st, files, Current) \in States /\ Sound(Succeeded(st, files, Current))
      BY <1>1, SucceededSound DEF Variant
  <2>2. Keeps(st, Succeeded(st, files, Current))
      BY <1>1, SucceededKeeps DEF Variant
  <2>3. Keeps(g, Succeeded(st, files, Current))
      BY <1>1, <2>2 DEF Keeps, Variant
  <2> QED BY <1>1, <1>4, <2>1, <2>3, ReturnsInv
<1> QED BY <1>2, <1>3, <1>4

\* What the gates note and count makes such states.
LEMMA Variants ==
  ASSUME Inv, Due
  PROVE  /\ Variant(g)
         /\ Variant(GatePasses) /\ Variant(GateFails)
         /\ \A n \in {0, 1} : Variant([GateFails EXCEPT !.attempts[Current] = n])
<1>1. g \in States /\ Current \in Steps /\ Variant(g)
  <2>1. g.cursor \in 0..N /\ g.cursor < N /\ N \in Nat
      BY GenesisAssumption DEF Inv, TypeOK, Due, States
  <2>2. Current \in Steps
      BY <2>1 DEF Current, Steps
  <2> QED BY <2>2 DEF Inv, TypeOK, Running, Due, Variant
<1>2. ASSUME NEW notes \in SUBSET Notes PROVE Variant([g EXCEPT !.slot[Current] = notes])
  <2> DEFINE st == [g EXCEPT !.slot[Current] = notes]
  <2>1. st \in States /\ Sound(st)
      BY <1>1, <1>2, NoteSound DEF Variant
  <2>2. /\ st.cp = g.cp /\ st.phase = g.phase /\ st.cursor = g.cursor
        /\ st.frozen = g.frozen /\ st.attempts = g.attempts
      BY <1>1 DEF States
  <2> HIDE DEF st
  <2>3. Variant(st)
      BY <1>1, <2>1, <2>2 DEF Variant, Within
  <2> QED BY <2>3 DEF st
<1>3. Variant(GatePasses) /\ Variant(GateFails)
  <2>1. {} \in SUBSET Notes /\ {"failure"} \in SUBSET Notes
      BY DEF Notes
  <2> QED BY <1>2, <2>1 DEF GatePasses, GateFails
<1>4. ASSUME NEW n \in {0, 1} PROVE Variant([GateFails EXCEPT !.attempts[Current] = n])
  <2> DEFINE st == [GateFails EXCEPT !.attempts[Current] = n]
  <2>1. n \in 0..MaxAttempts /\ n < MaxAttempts
      BY GenesisAssumption
  <2>2. st \in States /\ Sound(st)
      BY <1>1, <1>3, <2>1, CountSound DEF Variant
  <2>3. /\ st.cp = GateFails.cp /\ st.phase = GateFails.phase /\ st.cursor = GateFails.cursor
        /\ st.frozen = GateFails.frozen
        /\ \A t \in Steps : st.attempts[t] \in {n, GateFails.attempts[t]}
      BY <1>1, <1>3 DEF States, Variant
  <2> HIDE DEF st
  <2>4. Variant(st)
      BY <1>3, <2>1, <2>2, <2>3 DEF Variant, Within
  <2> QED BY <2>4 DEF st
<1> QED BY <1>1, <1>3, <1>4
-----------------------------------------------------------------------------
(* The reviewer's answers.                                                 *)

\* Of some steps one is the first.
LEMMA LeastStep ==
  ASSUME NEW redo \in SUBSET Steps, redo # {}
  PROVE  \E s \in redo : \A t \in redo : s <= t
<1> DEFINE R == {ss \in Nat \X Nat : ss[1] < ss[2]}
<1>1. IsWellFoundedOn(R, Nat)
    BY NatLessThanWellFounded DEF OpToRel
<1>2. redo \subseteq Nat /\ redo # {}
    BY DEF Steps
<1>3. PICK s \in redo : \A t \in redo : <<t, s>> \notin R
  <2> HIDE DEF R
  <2> QED BY <1>1, <1>2, WFMin
<1>4. ASSUME NEW t \in redo PROVE s <= t
  <2>1. ~(t < s)
      BY <1>2, <1>3
  <2>2. t \in Nat /\ s \in Nat
      BY <1>2
  <2> QED BY <2>1, <2>2
<1> QED BY <1>4

\* An answer is applied and saved at once.
LEMMA AnswersInv ==
  ASSUME Inv, NEW st \in States, Sound([st EXCEPT !.cp = "none"]), Answers(st),
         \A s \in Steps : st.attempts[s] < MaxAttempts
  PROVE  Inv'
<1> DEFINE next == [st EXCEPT !.cp = "none"]
<1>1. next \in States /\ next.attempts = st.attempts
    BY DEF States
<1>2. g' = next /\ saved' = next /\ pc = "idle" /\ pc' = pc /\ UNCHANGED <<reviewed, shape>>
    BY DEF Answers
<1>3. reviews' \in 0..MaxReviews
    BY GenesisAssumption DEF Answers, Inv, TypeOK
<1>4. Sound(next)
    OBVIOUS
<1> HIDE DEF next
<1>5. TypeOK'
    BY <1>1, <1>2, <1>3 DEF Inv, TypeOK
<1>6. Sound(g)' /\ Sound(saved)' /\ Within(g)' /\ Within(saved)'
    BY <1>1, <1>2, <1>4 DEF Sound, Within
<1> QED BY <1>2, <1>5, <1>6 DEF Inv, Running

\* The one-step rollback and the redo leave behind the cursor what was done.
LEMMA RollbackSound ==
  ASSUME Inv, g.cp = "complete"
  PROVE  /\ OneBack \in States /\ Sound([OneBack EXCEPT !.cp = "none"])
         /\ OneBack.attempts = g.attempts
         /\ \A redo \in (SUBSET Steps) \ {{}}, notes \in {{}, {"feedback"}} :
              /\ ToSteps(redo, notes) \in States
              /\ Sound([ToSteps(redo, notes) EXCEPT !.cp = "none"])
              /\ ToSteps(redo, notes).attempts = NoAttempts
<1> USE GenesisAssumption
<1>1. /\ g \in States /\ g.cursor = N /\ ~g.approved /\ g.phase = "genesis"
      /\ ~g.stopped => \A s \in Steps : s \in g.done \cup Optional
  <2>1. g \in States /\ g.cursor = N
      BY DEF Inv, TypeOK, Sound
  <2>2. ~g.approved /\ g.phase = "genesis"
      BY <2>1 DEF Inv, Sound, States
  <2>3. \A s \in Steps : s <= N
      BY DEF Steps
  <2> QED BY <2>1, <2>2, <2>3 DEF Inv, Sound
<1>2. OneBack \in States /\ OneBack.attempts = g.attempts
  <2>1. N - 1 \in 0..N
      OBVIOUS
  <2>2. OneBack = [g EXCEPT !.cursor = N - 1, !.done = @ \ {N}, !.told = @ \ {N}]
      BY <1>1 DEF OneBack
  <2> QED BY <1>1, <2>1, <2>2 DEF States
<1>3. Sound([OneBack EXCEPT !.cp = "none"])
  <2> DEFINE st == [OneBack EXCEPT !.cp = "none"]
  <2>1. /\ st.cursor = N - 1 /\ st.done = g.done \ {N} /\ st.stopped = g.stopped
        /\ st.cp = "none" /\ ~st.approved /\ st.phase = "genesis"
      BY <1>1 DEF OneBack, States
  <2> HIDE DEF st
  <2>2. \A s \in Steps : s <= N - 1 => s # N
      BY DEF Steps
  <2>3. Sound(st)
      BY <1>1, <2>1, <2>2 DEF Sound
  <2> QED BY <2>3 DEF st
<1>4. ASSUME NEW redo \in (SUBSET Steps) \ {{}}, NEW notes \in {{}, {"feedback"}}
      PROVE  /\ ToSteps(redo, notes) \in States
             /\ Sound([ToSteps(redo, notes) EXCEPT !.cp = "none"])
             /\ ToSteps(redo, notes).attempts = NoAttempts
  <2> DEFINE first  == CHOOSE s \in redo : \A t \in redo : s <= t
             frozen == [s \in Steps |-> IF s \in redo THEN Refrozen(s)
                                        ELSE IF s >= first THEN Nothing ELSE g.frozen[s]]
             said(s) == notes \cup IF Refrozen(s) # Nothing THEN {"binding"} ELSE {}
             slot   == [s \in Steps |-> IF s \in redo /\ said(s) # {} THEN said(s) ELSE g.slot[s]]
             st     == [g EXCEPT !.cursor = first - 1, !.done = @ \ redo, !.told = @ \ redo,
                                 !.attempts = NoAttempts, !.frozen = frozen, !.slot = slot]
  <2>1. ToSteps(redo, notes) = st
      BY DEF ToSteps
  <2>2. first \in redo /\ \A t \in redo : first <= t
    <3>1. \E s \in redo : \A t \in redo : s <= t
        BY LeastStep
    <3> QED BY <3>1
  <2>3. first - 1 \in 0..N /\ \A s \in Steps : s <= first - 1 => s \notin redo
    <3> HIDE DEF first
    <3>1. first \in 1..N /\ \A s \in redo : s \in 1..N
        BY <2>2 DEF Steps
    <3> QED BY <2>2, <3>1 DEF Steps
  <2>4. \A s \in Steps : Refrozen(s) \in Bindings
      BY <1>1 DEF Refrozen, Structure, Bindings, States, Inv, TypeOK
  <2>5. frozen \in [Steps -> Bindings]
    <3> HIDE DEF first
    <3> QED BY <1>1, <2>4 DEF States, Nothing, Bindings
  <2>6. slot \in [Steps -> SUBSET Notes]
      BY <1>1 DEF States, Notes
  <2>7. NoAttempts \in [Steps -> 0..MaxAttempts]
      BY DEF NoAttempts
  <2> HIDE DEF first, frozen, slot
  <2>8. st \in States /\ st.attempts = NoAttempts
      BY <1>1, <2>3, <2>5, <2>6, <2>7 DEF States
  <2> DEFINE end == [st EXCEPT !.cp = "none"]
  <2>9. /\ end.cursor = first - 1 /\ end.done = g.done \ redo /\ end.stopped = g.stopped
        /\ end.cp = "none" /\ ~end.approved /\ end.phase = "genesis"
      BY <1>1 DEF States
  <2>10. Sound(end)
    <3> HIDE DEF end
    <3> QED BY <1>1, <2>3, <2>9 DEF Sound
  <2> HIDE DEF st
  <2> QED BY <2>1, <2>8, <2>10
<1> QED BY <1>2, <1>3, <1>4

-----------------------------------------------------------------------------
(* The actions.                                                            *)

\* A dispatch, whatever its outcome.
LEMMA DueInv ==
  ASSUME Inv, DispatchFails \/ Passes \/ ScoreFails \/ GateFailsHard \/ GateFailsSoft
  PROVE  Inv'
<1>1. Due /\ UNCHANGED <<reviewed, saved, reviews>>
    BY DEF DispatchFails, Passes, ScoreFails, GateFailsHard, GateFailsSoft, Lands
<1>2. shape \in Bindings
    BY DEF Inv, TypeOK
<1>3. ASSUME Lands PROVE shape' \in Bindings
  <2>1. PICK v \in 1..Shapes :
          shape' = [f \in Files |-> IF f \in WritesOf[Current] THEN v ELSE shape[f]]
      BY <1>3 DEF Lands
  <2>2. v \in 0..Shapes
      BY GenesisAssumption
  <2> QED BY <1>2, <2>1, <2>2 DEF Bindings
<1>4. Current \in Steps
  <2>1. g.cursor \in 0..N /\ g.cursor < N
      BY <1>1 DEF Inv, TypeOK, Due, States
  <2> QED BY <2>1, GenesisAssumption DEF Current, Steps
<1>5. CASE DispatchFails
  <2>1. shape' = shape
      BY <1>5 DEF DispatchFails
  <2>2. Variant(g)
      BY <1>1, Variants
  <2>3. Variant([g EXCEPT !.slot[Current] = {"failure"}])
      BY <1>1, Variants DEF GateFails
  <2>4. PICK st \in {g, [g EXCEPT !.slot[Current] = {"failure"}]} :
          Returns(Failed(st, shape, Current))
      BY <1>5 DEF DispatchFails
  <2>5. Variant(st)
      BY <2>2, <2>3, <2>4
  <2> QED BY <1>1, <1>2, <2>1, <2>4, <2>5, VariantInv
<1>6. CASE Passes
  <2>1. Lands /\ Returns(Succeeded(GatePasses, shape', Current))
      BY <1>6 DEF Passes
  <2> QED BY <1>1, <1>3, <2>1, Variants, VariantInv
<1>7. CASE ScoreFails
  <2>1. Lands /\ Returns(Failed(GatePasses, shape', Current))
      BY <1>7 DEF ScoreFails
  <2> QED BY <1>1, <1>3, <2>1, Variants, VariantInv
<1>8. CASE GateFailsHard
  <2>1. Lands /\ Returns(Failed(GateFails, shape', Current))
      BY <1>8 DEF GateFailsHard
  <2> QED BY <1>1, <1>3, <2>1, Variants, VariantInv
<1>9. CASE GateFailsSoft
  <2> DEFINE once == [GateFails EXCEPT !.attempts[Current] = 1]
             zero == [GateFails EXCEPT !.attempts[Current] = 0]
  <2>1. Variant(once) /\ Variant(zero)
      BY <1>1, Variants
  <2>2. /\ Lands
        /\ \/ Returns(once) \/ Returns(Succeeded(zero, shape', Current))
           \/ Returns(Failed(zero, shape', Current))
      BY <1>9 DEF GateFailsSoft
  <2> HIDE DEF once, zero
  <2> QED BY <1>1, <1>3, <2>1, <2>2, VariantInv
<1> QED BY <1>5, <1>6, <1>7, <1>8, <1>9

\* A step that is done lies behind the cursor once it is passed.
LEMMA SkipInv == Inv /\ Skip => Inv'
<1> SUFFICES ASSUME Inv, Skip PROVE Inv'
    OBVIOUS
<1> USE GenesisAssumption
<1> DEFINE past == [g EXCEPT !.cursor = @ + 1]
<1>1. g.cursor \in 0..N /\ g.cursor < N /\ g.cp = "none" /\ g.phase = "genesis" /\ ~g.approved
  <2>1. g.cursor \in 0..N /\ g.cursor < N /\ g.cp = "none" /\ g.phase = "genesis"
      BY DEF Inv, TypeOK, Running, Skip, States
  <2>2. g.cursor # N
      BY <2>1
  <2> QED BY <2>1, <2>2 DEF Inv, Sound
<1>2. g.cursor + 1 \in 0..N
    BY <1>1
<1>3. past \in States
    BY <1>2 DEF Inv, TypeOK, States
<1>4. /\ past.cursor = g.cursor + 1 /\ past.cp = "none" /\ past.phase = "genesis" /\ ~past.approved
      /\ past.done = g.done /\ past.stopped = g.stopped /\ past.frozen = g.frozen
      /\ past.attempts = g.attempts
    BY <1>1 DEF Inv, TypeOK, States
<1>5. Returns(past) /\ UNCHANGED <<reviewed, saved, shape, reviews>> /\ pc = "step"
    BY DEF Skip
<1> HIDE DEF past
<1>6. Sound(past)
  <2>1. ASSUME NEW s \in Steps, s <= g.cursor + 1, ~g.stopped PROVE s \in g.done \cup Optional
    <3>1. s <= g.cursor \/ s = g.cursor + 1
        BY <1>1, <2>1 DEF Steps
    <3>2. g.cursor + 1 \in g.done
        BY DEF Skip, Current
    <3> QED BY <2>1, <3>1, <3>2 DEF Inv, Sound
  <2> QED BY <1>4, <2>1 DEF Sound
<1>7. Keeps(g, past)
    BY <1>1, <1>4 DEF Keeps, Within, Inv
<1>8. shape' \in Bindings
    BY <1>5 DEF Inv, TypeOK
<1> QED BY <1>3, <1>5, <1>6, <1>7, <1>8, ReturnsInv

\* Nothing is left: the command ends as it is.
LEMMA EndInv == Inv /\ (NothingLeft \/ Save \/ End \/ Kill \/ Command) => Inv'
<1> SUFFICES ASSUME Inv, NothingLeft \/ Save \/ End \/ Kill \/ Command PROVE Inv'
    OBVIOUS
<1>1. TypeOK'
    BY DEF Inv, TypeOK, NothingLeft, Save, End, Kill, Command
<1>2. Sound(g)' /\ Sound(saved)' /\ Within(g)' /\ Within(saved)'
    BY DEF Inv, Sound, Within, NothingLeft, Save, End, Kill, Command
<1>3. Running'
    BY DEF Inv, Running, NothingLeft, Save, End, Kill, Command
<1> QED BY <1>1, <1>2, <1>3 DEF Inv

\* The chapters are entered from the end of the table.
LEMMA ResumeInv == Inv /\ Resume => Inv'
<1> SUFFICES ASSUME Inv, Resume PROVE Inv'
    OBVIOUS
<1> DEFINE next == [g EXCEPT !.phase = "chapters", !.approved = FALSE]
<1>1. next \in States
    BY DEF Inv, TypeOK, States
<1>2. /\ next.cursor = g.cursor /\ next.cp = g.cp /\ next.phase = "chapters" /\ ~next.approved
      /\ next.done = g.done /\ next.stopped = g.stopped /\ next.attempts = g.attempts
    BY DEF Inv, TypeOK, States
<1>3. g' = next /\ saved' = next /\ g.approved /\ UNCHANGED <<reviewed, pc, shape, reviews>>
      /\ pc = "idle"
    BY DEF Resume
<1> HIDE DEF next
<1>4. Sound(next) /\ Within(next)
    BY <1>2, <1>3 DEF Inv, Sound, Within
<1>5. TypeOK'
    BY <1>1, <1>3 DEF Inv, TypeOK
<1>6. Sound(g)' /\ Sound(saved)' /\ Within(g)' /\ Within(saved)'
    BY <1>3, <1>4 DEF Sound, Within
<1>7. Running'
    BY <1>3 DEF Running
<1> QED BY <1>5, <1>6, <1>7 DEF Inv

\* The answers.
LEMMA ReviewInv == Inv /\ Review => Inv'
<1> SUFFICES ASSUME Inv, Review PROVE Inv'
    OBVIOUS
<1>1. 0 < MaxAttempts /\ NoAttempts \in [Steps -> 0..MaxAttempts]
      /\ \A s \in Steps : NoAttempts[s] < MaxAttempts
    BY GenesisAssumption DEF NoAttempts
<1>2. g \in States
    BY DEF Inv, TypeOK
<1>3. CASE Approve
  <2> DEFINE st == [g EXCEPT !.approved = TRUE]
             end == [st EXCEPT !.cp = "none"]
  <2>1. st \in States /\ st.attempts = g.attempts /\ Answers(st) /\ g.cp = "complete"
      BY <1>2, <1>3 DEF States, Approve
  <2>2. /\ end.cursor = g.cursor /\ end.done = g.done /\ end.stopped = g.stopped
        /\ end.cp = "none"
      BY <1>2 DEF States
  <2> HIDE DEF end
  <2>3. Sound(end)
      BY <2>1, <2>2 DEF Inv, Sound
  <2>4. \A s \in Steps : st.attempts[s] < MaxAttempts
      BY <2>1 DEF Inv, Within
  <2> HIDE DEF st
  <2> QED BY <2>1, <2>3, <2>4, AnswersInv DEF end
<1>4. CASE Modify
  <2>1. g.cp = "complete" /\ Answers(OneBack)
      BY <1>4 DEF Modify
  <2>2. \A s \in Steps : OneBack.attempts[s] < MaxAttempts
      BY <2>1, RollbackSound DEF Inv, Within
  <2> QED BY <2>1, <2>2, RollbackSound, AnswersInv
<1>5. CASE Reject
  <2> DEFINE st == [OneBack EXCEPT !.attempts = NoAttempts]
             end == [st EXCEPT !.cp = "none"]
             back == [OneBack EXCEPT !.cp = "none"]
  <2>1. g.cp = "complete" /\ Answers(st)
      BY <1>5 DEF Reject
  <2>2. OneBack \in States /\ Sound(back)
      BY <2>1, RollbackSound
  <2> HIDE DEF OneBack
  <2>3. st \in States /\ st.attempts = NoAttempts
      BY <1>1, <2>2 DEF States
  <2>4. /\ end.cursor = back.cursor /\ end.done = back.done /\ end.stopped = back.stopped
        /\ end.cp = back.cp /\ end.approved = back.approved /\ end.phase = back.phase
      BY <2>2 DEF States
  <2> HIDE DEF end, back
  <2>5. Sound(end)
      BY <2>2, <2>4 DEF Sound
  <2> HIDE DEF st
  <2> QED BY <1>1, <2>1, <2>3, <2>5, AnswersInv DEF end
<1>6. CASE Redo
  <2>1. PICK redo \in (SUBSET Steps) \ {{}}, notes \in {{}, {"feedback"}} :
          Answers(ToSteps(redo, notes))
      BY <1>6 DEF Redo
  <2>2. g.cp = "complete"
      BY <1>6 DEF Redo
  <2> DEFINE st == ToSteps(redo, notes)
  <2>3. st \in States /\ Sound([st EXCEPT !.cp = "none"]) /\ st.attempts = NoAttempts
      BY <2>2, RollbackSound
  <2>4. Answers(st)
      BY <2>1
  <2> HIDE DEF st
  <2> QED BY <1>1, <2>3, <2>4, AnswersInv
<1>7. CASE Decide
  <2>1. g.cp = "escalation"
      BY <1>7 DEF Decide
  <2>2. Current \in Steps
    <3>1. g.cursor \in 0..N /\ g.cursor < N
        BY <1>2, <2>1 DEF Inv, Sound, States
    <3> QED BY <3>1, GenesisAssumption DEF Current, Steps
  <2>3. PICK st \in {g, [g EXCEPT !.slot[Current] = {"feedback"}]} :
          Answers([st EXCEPT !.attempts = NoAttempts])
      BY <1>7 DEF Decide
  <2>4. st \in States /\ Sound(st)
    <3>1. {"feedback"} \in SUBSET Notes
        BY DEF Notes
    <3> QED BY <1>2, <2>2, <2>3, <3>1, NoteSound DEF Inv
  <2>5. st.approved = g.approved /\ st.phase = g.phase /\ st.cp = g.cp
      BY <1>2, <2>3 DEF States
  <2>6. ~st.approved /\ st.phase # "chapters"
      BY <2>1, <2>5 DEF Inv, Sound
  <2> DEFINE all == [st EXCEPT !.attempts = NoAttempts]
             end == [all EXCEPT !.cp = "none"]
  <2>7. all \in States /\ all.attempts = NoAttempts
      BY <1>1, <2>4 DEF States
  <2>8. /\ end.cursor = st.cursor /\ end.done = st.done /\ end.stopped = st.stopped
        /\ end.cp = "none" /\ ~end.approved /\ end.phase # "chapters"
      BY <2>4, <2>6 DEF States
  <2> HIDE DEF end
  <2>9. Sound(end)
      BY <2>4, <2>8 DEF Sound
  <2>10. Answers(all)
      BY <2>3
  <2> HIDE DEF all
  <2> QED BY <1>1, <2>7, <2>9, <2>10, AnswersInv DEF end
<1> QED BY <1>3, <1>4, <1>5, <1>6, <1>7 DEF Review

LEMMA InvNext == Inv /\ [Next]_vars => Inv'
<1> SUFFICES ASSUME Inv, [Next]_vars PROVE Inv'
    OBVIOUS
<1>1. CASE UNCHANGED vars
  <2>1. TypeOK'
      BY <1>1 DEF Inv, TypeOK, vars
  <2> QED BY <1>1, <2>1 DEF Inv, Sound, Within, Running, vars
<1>2. CASE Next
    BY <1>2, DueInv, SkipInv, EndInv, ResumeInv, ReviewInv DEF Next, Step
<1> QED BY <1>1, <1>2

-----------------------------------------------------------------------------
(* The theorems.                                                           *)

\* The invariant holds of every genesis.
THEOREM Invariant == Spec => []Inv
<1> QED BY InvInit, InvNext, PTL DEF Spec

\* The state is always well typed.
THEOREM TypeCorrect == Spec => []TypeOK
<1>1. Inv => TypeOK
    BY DEF Inv
<1> QED BY <1>1, Invariant, PTL

\* However often steps are redone, killed and retried: unless a drift stopped
\* the sequence, a genesis that is complete has every obligatory step done.
THEOREM EarnedCompletion == Spec => []CompletionEarned
<1>1. Inv => CompletionEarned
  <2> SUFFICES ASSUME Inv, ~g.stopped, g.cp = "complete" \/ g.approved \/ g.phase = "chapters",
                      NEW s \in Steps, s \notin Optional
               PROVE  s \in g.done
      BY DEF CompletionEarned
  <2>1. g.cursor = N
      BY DEF Inv, Sound
  <2>2. s <= g.cursor
      BY <2>1 DEF Steps
  <2> QED BY <2>2 DEF Inv, Sound
<1> QED BY <1>1, Invariant, PTL

\* A freeze is kept as it is or consumed, in every step of the system.
THEOREM FreezesStand == Spec => FreezeStands
<1>1. Inv /\ Inv' /\ [Next]_vars
        => [\A s \in Steps : g.frozen[s] # Nothing => g'.frozen[s] \in {g.frozen[s], Nothing}]_vars
  <2> SUFFICES ASSUME Inv, Inv', Next, NEW s \in Steps, g.frozen[s] # Nothing
               PROVE  g'.frozen[s] \in {g.frozen[s], Nothing}
      OBVIOUS
  <2>1. g \in States
      BY DEF Inv, TypeOK
  <2>2. CASE saved' = saved
      BY <2>2 DEF Inv, Running
  <2>3. CASE Save \/ End
      BY <2>3 DEF Save, End
  <2>4. CASE Resume
      BY <2>1, <2>4 DEF Resume, States
  <2>5. CASE Approve \/ Modify \/ Reject \/ Decide
    <3>1. CASE Approve
        BY <2>1, <3>1 DEF Approve, Answers, States
    <3>2. CASE Modify
        BY <2>1, <3>2 DEF Modify, Answers, OneBack, States
    <3>3. CASE Reject
        BY <2>1, <3>3 DEF Reject, Answers, OneBack, States
    <3>4. CASE Decide
      <4>1. PICK st \in {g, [g EXCEPT !.slot[Current] = {"feedback"}]} :
              g' = [[st EXCEPT !.attempts = NoAttempts] EXCEPT !.cp = "none"]
          BY <3>4 DEF Decide, Answers
      <4>2. st.frozen = g.frozen
          BY <2>1, <4>1 DEF States
      <4>3. DOMAIN st = DOMAIN g
          BY <2>1, <4>1 DEF States
      <4> QED BY <2>1, <4>1, <4>2, <4>3 DEF States
    <3> QED BY <2>5, <3>1, <3>2, <3>3, <3>4
  <2>6. CASE Redo
    <3>1. PICK redo \in (SUBSET Steps) \ {{}}, notes \in {{}, {"feedback"}} :
            g' = [ToSteps(redo, notes) EXCEPT !.cp = "none"]
        BY <2>6 DEF Redo, Answers
    <3>2. \E first : ToSteps(redo, notes).frozen =
                       [t \in Steps |-> IF t \in redo THEN Refrozen(t)
                                        ELSE IF t >= first THEN Nothing ELSE g.frozen[t]]
        BY <2>1 DEF ToSteps, States
    <3>3. g'.frozen = ToSteps(redo, notes).frozen
        BY <2>1, <3>1 DEF ToSteps, States
    <3> QED BY <3>2, <3>3 DEF Refrozen
  <2>7. \/ saved' = saved \/ Save \/ End \/ Resume
        \/ Approve \/ Modify \/ Reject \/ Decide \/ Redo
      BY DEF Next, Step, Review, Command, NothingLeft, Skip, DispatchFails, Passes, ScoreFails,
             GateFailsHard, GateFailsSoft, Lands, Kill
  <2> QED BY <2>2, <2>3, <2>4, <2>5, <2>6, <2>7
<1> QED BY <1>1, Invariant, PTL DEF Spec, FreezeStands

-----------------------------------------------------------------------------
(* What is reported of a drift.                                            *)

\* The files of a step that no other step writes.
Alone(s) == {f \in WritesOf[s] : \A t \in Steps : f \in WritesOf[t] => t = s}

\* A step that is done and frozen has been reported, or has its own files as
\* they were frozen.
Reported(st, files) ==
  \A s \in st.done :
    st.frozen[s] # Nothing => s \in st.told \/ \A f \in Alone(s) : files[f] = st.frozen[s][f]

\* Of the state in memory and of the file alike, since a kill goes back to the
\* file; and nothing that is done in the file is written again.
RInv == Reported(g, shape) /\ Reported(saved, shape) /\ saved.done \subseteq g.done

LEMMA LessReported ==
  ASSUME NEW x, NEW y, NEW files, Reported(x, files), y.done \subseteq x.done,
         \A s \in y.done : y.frozen[s] \in {x.frozen[s], Nothing} /\ (s \in x.told => s \in y.told)
  PROVE  Reported(y, files)
  BY DEF Reported

LEMMA AdvanceReported ==
  ASSUME NEW st \in States, NEW files, NEW seen, Reported(st, files)
  PROVE  Reported(Advance(st, seen), files) /\ Advance(st, seen).done = st.done
<1> DEFINE past == [st EXCEPT !.cursor = @ + 1]
           told == past.told \cup {s \in Steps : Drifted(st, seen, s)}
           none == [s \in Steps |-> Nothing]
           over == [past EXCEPT !.cp = "complete", !.told = told, !.frozen = none]
           y    == Advance(st, seen)
<1>1. past.done = st.done /\ past.frozen = st.frozen /\ past.told = st.told
    BY DEF States
<1>2. over.done = st.done /\ over.frozen = none
  <2> HIDE DEF none, told
  <2> QED BY DEF States
<1>3. y \in {past, over}
    BY DEF Advance
<1>4. st.done \subseteq Steps
    BY DEF States
<1> HIDE DEF past, over, y
<1>5. Reported(past, files)
    BY <1>1, LessReported
<1>6. Reported(over, files)
    BY <1>2, <1>4 DEF Reported
<1>7. Reported(y, files) /\ y.done = st.done
    BY <1>1, <1>2, <1>3, <1>5, <1>6
<1> QED BY <1>7 DEF y

\* The steps of which the file or the memory says that they are done do not
\* get their own files written.
LEMMA LandsReported ==
  ASSUME Lands, Current \in Steps, NEW x \in States, Reported(x, shape), Current \notin x.done
  PROVE  Reported(x, shape')
<1>1. PICK v \in 1..Shapes :
        shape' = [f \in Files |-> IF f \in WritesOf[Current] THEN v ELSE shape[f]]
    BY DEF Lands
<1>2. x.done \subseteq Steps /\ WritesOf \in [Steps -> SUBSET Files]
    BY GenesisAssumption DEF States
<1>3. ASSUME NEW s \in x.done, NEW f \in Alone(s) PROVE shape'[f] = shape[f]
  <2>1. s \in Steps /\ s # Current /\ f \in Files /\ f \notin WritesOf[Current]
      BY <1>2, <1>3 DEF Alone
  <2> QED BY <1>1, <2>1
<1> QED BY <1>3 DEF Reported

LEMMA FailedReported ==
  ASSUME NEW st \in States, NEW files, NEW seen, NEW s \in Steps, Reported(st, files)
  PROVE  Reported(Failed(st, seen, s), files) /\ Failed(st, seen, s).done = st.done
<1> DEFINE zero    == [st EXCEPT !.attempts[s] = 0]
           counted == [st EXCEPT !.attempts[s] = @ + 1]
           ended   == [counted EXCEPT !.cp = "escalation"]
<1>1. zero \in States /\ zero.done = st.done /\ zero.frozen = st.frozen /\ zero.told = st.told
  <2>1. 0 \in 0..MaxAttempts
      BY GenesisAssumption
  <2> QED BY <2>1 DEF States
<1>2. counted.done = st.done /\ counted.frozen = st.frozen /\ counted.told = st.told
    BY DEF States
<1>3. ended.done = st.done /\ ended.frozen = st.frozen /\ ended.told = st.told
    BY DEF States
<1>4. Failed(st, seen, s) \in {Advance(zero, seen), counted, ended}
    BY DEF Failed
<1> HIDE DEF zero, counted, ended
<1>5. Reported(zero, files) /\ Reported(counted, files) /\ Reported(ended, files)
    BY <1>1, <1>2, <1>3, LessReported
<1>6. Reported(Advance(zero, seen), files) /\ Advance(zero, seen).done = st.done
    BY <1>1, <1>5, AdvanceReported
<1> QED BY <1>2, <1>3, <1>4, <1>5, <1>6

\* A step that has written its files and is done drifts, and is reported, or
\* has the files as they were frozen.
LEMMA SucceededReported ==
  ASSUME Lands, Current \in Steps, NEW st \in States, Reported(st, shape')
  PROVE  /\ Reported(Succeeded(st, shape', Current), shape')
         /\ st.done \subseteq Succeeded(st, shape', Current).done
<1> DEFINE s    == Current
           done == [st EXCEPT !.attempts[s] = 0, !.done = @ \cup {s}]
           halt == done.stopped \/ \E t \in (s + 1)..N : t \notin done.done
           told == done.told \cup {s}
           end  == [done EXCEPT !.cursor = N, !.cp = "complete", !.told = told, !.stopped = halt]
           y    == Succeeded(st, shape', s)
<1>1. PICK v \in 1..Shapes :
        shape' = [f \in Files |-> IF f \in WritesOf[s] THEN v ELSE shape[f]]
    BY DEF Lands
<1>2. WritesOf[s] \subseteq Files /\ v # 0
    BY GenesisAssumption
<1>3. /\ done \in States /\ done.done = st.done \cup {s} /\ done.frozen = st.frozen
      /\ done.told = st.told
  <2>1. 0 \in 0..MaxAttempts /\ st.done \cup {s} \in SUBSET Steps
      BY GenesisAssumption DEF States
  <2> QED BY <2>1 DEF States
<1>4. IF Drifted(done, shape', s) THEN y = end ELSE y = Advance(done, shape')
    BY DEF Succeeded
<1>5. end.done = done.done /\ end.frozen = done.frozen /\ end.told = done.told \cup {s}
  <2> HIDE DEF done, halt
  <2> QED BY <1>3 DEF States
<1> HIDE DEF done, end, y, s
<1>6. CASE Drifted(done, shape', s)
  <2>1. Reported(end, shape')
      BY <1>3, <1>5 DEF Reported
  <2> QED BY <1>3, <1>4, <1>5, <1>6, <2>1 DEF y, s
<1>7. CASE ~Drifted(done, shape', s)
  <2>1. ASSUME NEW f \in Alone(s), done.frozen[s] # Nothing PROVE shape'[f] = done.frozen[s][f]
    <3>1. f \in WritesOf[s] /\ f \in Files /\ shape'[f] = v
        BY <1>1, <1>2, <2>1 DEF Alone
    <3>2. Structure(shape', s)[f] = v /\ Structure(shape', s) # Nothing
        BY <3>1, <1>2 DEF Structure, Nothing
    <3>3. Structure(shape', s) = done.frozen[s]
        BY <1>7, <2>1, <3>2 DEF Drifted
    <3> QED BY <3>1, <3>2, <3>3
  <2>2. Reported(done, shape')
      BY <1>3, <2>1 DEF Reported
  <2>3. Reported(Advance(done, shape'), shape') /\ Advance(done, shape').done = done.done
      BY <1>3, <2>2, AdvanceReported
  <2> QED BY <1>3, <1>4, <1>7, <2>3 DEF y, s
<1> QED BY <1>6, <1>7

\* What a dispatch starts from, as far as reports go.
Like(st) == st \in States /\ st.done = g.done /\ st.frozen = g.frozen /\ st.told = g.told

LEMMA LikeStates ==
  ASSUME Inv, Due
  PROVE  /\ Current \in Steps /\ Like(g) /\ Like([g EXCEPT !.slot[Current] = {"failure"}])
         /\ Like(GatePasses) /\ Like(GateFails)
         /\ \A n \in {0, 1} : Like([GateFails EXCEPT !.attempts[Current] = n])
<1>1. g \in States /\ Current \in Steps
  <2>1. g.cursor \in 0..N /\ g.cursor < N /\ N \in Nat
      BY GenesisAssumption DEF Inv, TypeOK, Due, States
  <2> QED BY <2>1 DEF Current, Steps, Inv, TypeOK
<1>2. Variant(GatePasses) /\ Variant(GateFails)
      /\ \A n \in {0, 1} : Variant([GateFails EXCEPT !.attempts[Current] = n])
    BY Variants
<1>3. Like(GatePasses) /\ Like(GateFails)
    BY <1>1, <1>2 DEF Like, GatePasses, GateFails, Variant, States
<1>4. ASSUME NEW n \in {0, 1} PROVE Like([GateFails EXCEPT !.attempts[Current] = n])
  <2> HIDE DEF GateFails
  <2> QED BY <1>2, <1>3, <1>4 DEF Like, Variant, States
<1> QED BY <1>1, <1>3, <1>4 DEF Like, GateFails

\* A dispatch that returns: it wrote nothing and failed, or it landed.
LEMMA DueReported ==
  ASSUME Inv, RInv, DispatchFails \/ Passes \/ ScoreFails \/ GateFailsHard \/ GateFailsSoft
  PROVE  RInv'
<1>1. Due /\ saved' = saved /\ saved \in States
    BY DEF DispatchFails, Passes, ScoreFails, GateFailsHard, GateFailsSoft, Lands, Inv, TypeOK
<1>2. Current \in Steps /\ Current \notin g.done
    BY <1>1, LikeStates DEF Due
<1>3. ASSUME NEW y, Returns(y), Reported(y, shape'), Reported(saved, shape'), g.done \subseteq y.done
      PROVE  RInv'
    BY <1>1, <1>3 DEF RInv, Returns, Reported
<1>4. ASSUME NEW st, Like(st) PROVE Reported(st, shape)
    BY <1>4, LessReported DEF Like, RInv
<1>5. CASE DispatchFails
  <2>1. PICK st \in {g, [g EXCEPT !.slot[Current] = {"failure"}]} :
          Returns(Failed(st, shape, Current)) /\ shape' = shape
      BY <1>5 DEF DispatchFails
  <2>2. Like(st)
      BY <1>1, <2>1, LikeStates
  <2>3. Reported(Failed(st, shape, Current), shape) /\ Failed(st, shape, Current).done = g.done
      BY <1>2, <1>4, <2>2, FailedReported DEF Like
  <2> QED BY <1>3, <2>1, <2>3 DEF RInv
<1>6. ASSUME NEW st, Like(st), Lands,
             \/ Returns(st) \/ Returns(Failed(st, shape', Current))
             \/ Returns(Succeeded(st, shape', Current))
      PROVE  RInv'
  <2>1. Reported(saved, shape')
      BY <1>1, <1>2, <1>6, LandsReported DEF RInv
  <2>2. Reported(st, shape')
      BY <1>2, <1>4, <1>6, LandsReported DEF Like
  <2>3. CASE Returns(st)
      BY <1>3, <1>6, <2>1, <2>2, <2>3 DEF Like
  <2>4. CASE Returns(Failed(st, shape', Current))
    <3>1. /\ Reported(Failed(st, shape', Current), shape')
          /\ Failed(st, shape', Current).done = g.done
        BY <1>2, <1>6, <2>2, FailedReported DEF Like
    <3> QED BY <1>3, <2>1, <2>4, <3>1
  <2>5. CASE Returns(Succeeded(st, shape', Current))
    <3>1. /\ Reported(Succeeded(st, shape', Current), shape')
          /\ g.done \subseteq Succeeded(st, shape', Current).done
        BY <1>2, <1>6, <2>2, SucceededReported DEF Like
    <3> QED BY <1>3, <2>1, <2>5, <3>1
  <2> QED BY <1>6, <2>3, <2>4, <2>5
<1>7. CASE Passes
    BY <1>1, <1>6, <1>7, LikeStates DEF Passes
<1>8. CASE ScoreFails
    BY <1>1, <1>6, <1>8, LikeStates DEF ScoreFails
<1>9. CASE GateFailsHard
    BY <1>1, <1>6, <1>9, LikeStates DEF GateFailsHard
<1>10. CASE GateFailsSoft
  <2>1. PICK st \in {[GateFails EXCEPT !.attempts[Current] = 0],
                     [GateFails EXCEPT !.attempts[Current] = 1]} :
          /\ Lands
          /\ \/ Returns(st) \/ Returns(Failed(st, shape', Current))
             \/ Returns(Succeeded(st, shape', Current))
      BY <1>10 DEF GateFailsSoft
  <2>2. Like(st)
      BY <1>1, <2>1, LikeStates
  <2> QED BY <1>6, <2>1, <2>2
<1> QED BY <1>5, <1>7, <1>8, <1>9, <1>10

\* A command that goes on, ends, is killed, or enters the chapters.
LEMMA RestReported ==
  ASSUME Inv, RInv, Skip \/ NothingLeft \/ Save \/ End \/ Kill \/ Command \/ Resume
  PROVE  RInv'
<1>1. g \in States
    BY DEF Inv, TypeOK
<1>2. CASE Skip
  <2> DEFINE past == [g EXCEPT !.cursor = @ + 1]
  <2>1. past.done = g.done /\ past.frozen = g.frozen /\ past.told = g.told
      BY <1>1 DEF States
  <2>2. g' = past /\ saved' = saved /\ shape' = shape
      BY <1>2 DEF Skip, Returns
  <2> HIDE DEF past
  <2> QED BY <2>1, <2>2 DEF RInv, Reported
<1>3. CASE Resume
  <2> DEFINE next == [g EXCEPT !.phase = "chapters", !.approved = FALSE]
  <2>1. next.done = g.done /\ next.frozen = g.frozen /\ next.told = g.told
      BY <1>1 DEF States
  <2>2. g' = next /\ saved' = next /\ shape' = shape
      BY <1>3 DEF Resume
  <2> HIDE DEF next
  <2> QED BY <2>1, <2>2 DEF RInv, Reported
<1>4. CASE NothingLeft \/ Save \/ End \/ Kill \/ Command
    BY <1>4 DEF RInv, Reported, NothingLeft, Save, End, Kill, Command
<1> QED BY <1>2, <1>3, <1>4

\* An answer that undoes steps forgets what was reported of them, and no
\* freeze of a step that stays done is replaced.
LEMMA AnswersReported ==
  ASSUME Inv, RInv, NEW st, Answers(st), DOMAIN st = DOMAIN g, st.done \subseteq g.done,
         \A s \in st.done : st.frozen[s] \in {g.frozen[s], Nothing} /\ (s \in g.told => s \in st.told)
  PROVE  RInv'
<1> DEFINE y == [st EXCEPT !.cp = "none"]
<1>1. g' = y /\ saved' = y /\ shape' = shape
    BY DEF Answers
<1>2. y.done = st.done /\ y.frozen = st.frozen /\ y.told = st.told
    BY DEF Inv, TypeOK, States
<1> HIDE DEF y
<1>3. Reported(y, shape)
    BY <1>2, LessReported DEF RInv
<1> QED BY <1>1, <1>3 DEF RInv, Reported

LEMMA ReviewReported ==
  ASSUME Inv, RInv, Review
  PROVE  RInv'
<1>1. g \in States
    BY DEF Inv, TypeOK
<1>2. CASE Approve
  <2> DEFINE st == [g EXCEPT !.approved = TRUE]
  <2>1. DOMAIN st = DOMAIN g /\ st.done = g.done /\ st.frozen = g.frozen /\ st.told = g.told
      BY <1>1 DEF States
  <2>2. Answers(st)
      BY <1>2 DEF Approve
  <2> HIDE DEF st
  <2> QED BY <2>1, <2>2, AnswersReported
<1>3. CASE Modify \/ Reject
  <2> DEFINE redone == [OneBack EXCEPT !.attempts = NoAttempts]
  <2>1. /\ DOMAIN OneBack = DOMAIN g /\ OneBack.done = g.done \ {g.cursor}
        /\ OneBack.frozen = g.frozen /\ OneBack.told = g.told \ {g.cursor}
      BY <1>1 DEF OneBack, States
  <2>2. /\ DOMAIN redone = DOMAIN g /\ redone.done = g.done \ {g.cursor}
        /\ redone.frozen = g.frozen /\ redone.told = g.told \ {g.cursor}
      BY <1>1 DEF OneBack, States
  <2>3. Answers(OneBack) \/ Answers(redone)
      BY <1>3 DEF Modify, Reject
  <2> HIDE DEF redone, OneBack
  <2> QED BY <2>1, <2>2, <2>3, AnswersReported
<1>4. CASE Redo
  <2>1. PICK redo \in (SUBSET Steps) \ {{}}, notes \in {{}, {"feedback"}} :
          Answers(ToSteps(redo, notes))
      BY <1>4 DEF Redo
  <2> DEFINE st == ToSteps(redo, notes)
  <2>2. \E first :
          /\ DOMAIN st = DOMAIN g /\ st.done = g.done \ redo /\ st.told = g.told \ redo
          /\ st.frozen = [t \in Steps |-> IF t \in redo THEN Refrozen(t)
                                          ELSE IF t >= first THEN Nothing ELSE g.frozen[t]]
      BY <1>1 DEF ToSteps, States
  <2>3. Answers(st)
      BY <2>1
  <2>4. g.done \subseteq Steps
      BY <1>1 DEF States
  <2> HIDE DEF st
  <2> QED BY <2>2, <2>3, <2>4, AnswersReported
<1>5. CASE Decide
  <2>1. PICK x \in {g, [g EXCEPT !.slot[Current] = {"feedback"}]} :
          Answers([x EXCEPT !.attempts = NoAttempts])
      BY <1>5 DEF Decide
  <2>2. DOMAIN x = DOMAIN g /\ x.done = g.done /\ x.frozen = g.frozen /\ x.told = g.told
      BY <1>1, <2>1 DEF States
  <2> DEFINE st == [x EXCEPT !.attempts = NoAttempts]
  <2>3. DOMAIN st = DOMAIN g /\ st.done = g.done /\ st.frozen = g.frozen /\ st.told = g.told
      BY <1>1, <2>2 DEF States
  <2> HIDE DEF st
  <2> QED BY <2>1, <2>3, AnswersReported DEF st
<1> QED BY <1>2, <1>3, <1>4, <1>5 DEF Review

LEMMA ReportedAlways == Spec => [](Inv /\ RInv)
<1>1. Init => RInv
    BY DEF Init, RInv, Reported, Fresh
<1>2. Inv /\ RInv /\ [Next]_vars => RInv'
  <2>1. Inv /\ RInv /\ Next => RInv'
      BY DueReported, RestReported, ReviewReported DEF Next, Step
  <2>2. RInv /\ UNCHANGED vars => RInv'
      BY DEF RInv, Reported, vars
  <2> QED BY <2>1, <2>2
<1> QED BY <1>1, <1>2, InvInit, InvNext, PTL DEF Spec

\* However redos, rollbacks and kills follow each other, no step runs on the
\* drifted output of a redone step whose drift was not reported
\* (genesis.py:721-766).
THEOREM DriftReported == Spec => []DriftTold
<1>1. Inv /\ RInv => DriftTold
    BY DEF RInv, Reported, DriftTold, Drifted, Alone
<1> QED BY <1>1, ReportedAlways, PTL
=============================================================================

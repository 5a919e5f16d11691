-------------------------- MODULE Settlement_proofs --------------------------
(***************************************************************************)
(* Proofs about Settlement.  The rows are seen through what a step does to *)
(* them (DataStep): a writer leaves a row with a stamp of its own, tables  *)
(* go out of staging, a live row is written, a staged table is merged.     *)
(* From this follow the types of the rows, that doomed rows stay apart     *)
(* (Apart) and that owed rows are staged (OwedStaged).  Where a command    *)
(* goes, and what of a question it leaves, is told action by action.       *)
(* The operations of the facts are counted apart (Logged): a batch is      *)
(* applied one by one, and of the steps that would go wrong there is a     *)
(* first one, which the step before refutes.                               *)
(***************************************************************************)
EXTENDS Settlement, SequenceTheorems, FiniteSetTheorems, WellFoundedInduction, TLAPS

-----------------------------------------------------------------------------
(* Types.                                                                  *)

Questioning == [at : Places, ask : Questions, queue : Seq(Entries)]
Things  == Targets \cup Dims \cup Entries
Replies == {"", "approved", "refused", "aborted"}
Row(t)  == staging.rows[t]

StagingType(s) ==
  s \in [rows : [Tables -> Rows \cup {NoFile}], ops : {s.ops}, sidecar : BOOLEAN,
         marked : SUBSET Targets]
JobType(j) ==
  j \in [pc : Pcs, mem : Questioning, todo : Seq(Things), kept : Seq(Things),
         ready : {j.ready}, reply : Replies, doomed : SUBSET Stamps]
HistoryType(h) ==
  h \in [shown : [Tables -> Rows], doomed : SUBSET Stamps, asked : {h.asked},
         before : {h.before}]

Typed ==
  /\ live \in [Tables -> Rows]
  /\ StagingType(staging)
  /\ st \in Questioning
  /\ JobType(job)
  /\ count \in [stamp : Stamps, kills : 0..MaxKills]
  /\ owed \in [Tables -> Rows]
  /\ HistoryType(history)

LEMMA Bounds == MaxStamp \in Nat /\ MaxKills \in Nat
BY SettlementAssumption

LEMMA Literals ==
  /\ {"settle", "derived"} \subseteq Things /\ {"props", "counters"} \subseteq Things
  /\ Targets \subseteq Things /\ Entries \subseteq Things /\ Tables \subseteq Targets
BY DEF Things, Entries, Dims, Targets, Tables

LEMMA BlankType == Blank \in [Tables -> Rows] /\ NoRows \in Rows
BY Bounds DEF Blank, NoRows, Rows, Stamps

LEMMA NoOneType == NoOne \in Questioning
BY DEF NoOne, Questioning, Places, Questions

LEMMA EmptyType == StagingType(Empty)
<1>1. [t \in Tables |-> NoFile] \in [Tables -> Rows \cup {NoFile}]
  OBVIOUS
<1>2. {} \in SUBSET Targets
  OBVIOUS
<1> QED BY <1>1, <1>2 DEF StagingType, Empty

LEMMA IdleType ==
  ASSUME NEW reply \in Replies
  PROVE  JobType(Idle(reply))
<1>1. "idle" \in Pcs
  BY DEF Pcs
<1>2. <<>> \in Seq(Things)
  OBVIOUS
<1>3. {} \in SUBSET Stamps
  OBVIOUS
<1> QED BY <1>1, <1>2, <1>3, NoOneType DEF JobType, Idle

LEMMA NoThings == ToSet(<<>>) = {}
<1>1. Len(<<>>) = 0 /\ DOMAIN <<>> = 1..Len(<<>>)
  BY EmptySeq
<1>2. DOMAIN <<>> = {}
  BY <1>1
<1> QED BY <1>2, Zenon DEF ToSet

LEMMA OnlyIs ==
  ASSUME NEW t \in Targets, NEW targets
  PROVE  Only(t, targets) \in Seq(Targets) /\ ToSet(Only(t, targets)) = targets \cap {t}
<1>1. CASE t \in targets
  <2>1. DOMAIN <<t>> = {1} /\ <<t>>[1] = t /\ <<t>> \in Seq(Targets)
    OBVIOUS
  <2>2. ToSet(<<t>>) = {t}
    BY <2>1, Zenon DEF ToSet
  <2>3. targets \cap {t} = {t} /\ Only(t, targets) = <<t>>
    BY <1>1 DEF Only
  <2> QED BY <2>1, <2>2, <2>3
<1>2. CASE t \notin targets
  <2>1. targets \cap {t} = {} /\ Only(t, targets) = <<>>
    BY <1>2 DEF Only
  <2>2. <<>> \in Seq(Targets)
    OBVIOUS
  <2> QED BY <2>1, <2>2, NoThings
<1> QED BY <1>1, <1>2

LEMMA ListedIs ==
  ASSUME NEW targets
  PROVE  Listed(targets) \in Seq(Things) /\ ToSet(Listed(targets)) = targets \cap Targets
<1> DEFINE a == Only("matrix", targets)
           b == Only("hooks", targets)
           c == Only("decisions", targets)
<1>0. {"matrix", "hooks", "decisions"} = Targets
  BY DEF Targets, Tables
<1>1. a \in Seq(Targets) /\ b \in Seq(Targets) /\ c \in Seq(Targets)
  BY <1>0, OnlyIs
<1>2. /\ ToSet(a) = targets \cap {"matrix"} /\ ToSet(b) = targets \cap {"hooks"}
      /\ ToSet(c) = targets \cap {"decisions"}
  BY <1>0, OnlyIs
<1>3. \A x, y \in Seq(Targets) : x \o y \in Seq(Targets) /\ ToSet(x \o y) = ToSet(x) \cup ToSet(y)
  <2> SUFFICES ASSUME NEW x \in Seq(Targets), NEW y \in Seq(Targets)
               PROVE  ToSet(x \o y) = ToSet(x) \cup ToSet(y)
    OBVIOUS
  <2>1. ToSet(x \o y) \subseteq ToSet(x) \cup ToSet(y)
    BY DEF ToSet
  <2>2. ToSet(x) \subseteq ToSet(x \o y)
    BY DEF ToSet
  <2>3. ToSet(y) \subseteq ToSet(x \o y)
    <3> SUFFICES ASSUME NEW i \in DOMAIN y PROVE y[i] \in ToSet(x \o y)
      BY DEF ToSet
    <3>1. Len(x) + i \in DOMAIN (x \o y) /\ (x \o y)[Len(x) + i] = y[i]
      OBVIOUS
    <3> QED BY <3>1 DEF ToSet
  <2> QED BY <2>1, <2>2, <2>3
<1>4. Listed(targets) = a \o b \o c
  BY DEF Listed
<1>5. ToSet(Listed(targets)) = targets \cap {"matrix", "hooks", "decisions"}
  <2> HIDE DEF a, b, c
  <2>1. ToSet(a \o b) = ToSet(a) \cup ToSet(b) /\ a \o b \in Seq(Targets)
    BY <1>1, <1>3
  <2>2. ToSet((a \o b) \o c) = ToSet(a \o b) \cup ToSet(c)
    BY <1>1, <1>3, <2>1
  <2> QED BY <1>2, <1>4, <2>1, <2>2
<1>6. Listed(targets) \in Seq(Targets)
  <2> HIDE DEF a, b, c
  <2>1. a \o b \in Seq(Targets)
    BY <1>1, <1>3
  <2> QED BY <1>1, <1>3, <1>4, <2>1
<1> QED
  BY <1>5, <1>6, Literals DEF Targets, Tables

LEMMA TailIs ==
  ASSUME NEW S, NEW s \in Seq(S), s # <<>>
  PROVE  /\ Tail(s) \in Seq(S) /\ Head(s) \in S /\ Head(s) = s[1]
         /\ ToSet(s) = {Head(s)} \cup ToSet(Tail(s))
         /\ ToSet(s) \subseteq S
<1>1. Tail(s) \in Seq(S) /\ Head(s) \in S /\ Head(s) = s[1] /\ Len(s) \in Nat \ {0}
  OBVIOUS
<1>2. ToSet(s) \subseteq {Head(s)} \cup ToSet(Tail(s))
  <2> SUFFICES ASSUME NEW i \in 1..Len(s), i # 1 PROVE s[i] \in ToSet(Tail(s))
    BY <1>1 DEF ToSet
  <2>1. i - 1 \in DOMAIN Tail(s) /\ Tail(s)[i - 1] = s[i]
    OBVIOUS
  <2> QED BY <2>1 DEF ToSet
<1>3. {Head(s)} \cup ToSet(Tail(s)) \subseteq ToSet(s)
  <2>1. Head(s) \in ToSet(s)
    BY <1>1 DEF ToSet
  <2>2. ToSet(Tail(s)) \subseteq ToSet(s)
    <3> SUFFICES ASSUME NEW i \in DOMAIN Tail(s) PROVE Tail(s)[i] \in ToSet(s)
      BY DEF ToSet
    <3>1. i + 1 \in DOMAIN s /\ Tail(s)[i] = s[i + 1]
      OBVIOUS
    <3> QED BY <3>1 DEF ToSet
  <2> QED BY <2>1, <2>2
<1>4. ToSet(s) \subseteq S
  BY DEF ToSet
<1> QED BY <1>1, <1>2, <1>3, <1>4

-----------------------------------------------------------------------------
(* What a step does to the rows.                                           *)

\* A writer leaves a row with a stamp of its own in each of some tables.
Lands(W, k) ==
  /\ count.stamp < MaxStamp /\ count' = [count EXCEPT !.stamp = This]
  /\ StagingType(staging')
  /\ owed' \in [Tables -> Rows]
  /\ \A t \in Tables :
       /\ staging'.rows[t] = IF t \in W THEN [Base(staging, t) EXCEPT ![k] = This] ELSE Row(t)
       /\ owed'[t] = IF t \in W THEN [owed[t] EXCEPT ![k] = This] ELSE owed[t]
  /\ UNCHANGED live
\* Tables go out of staging.
Thins ==
  /\ StagingType(staging')
  /\ \A t \in Tables : staging'.rows[t] = Row(t) \/ staging'.rows[t] = NoFile
  /\ owed' = StillOwed(staging')
  /\ UNCHANGED live /\ count'.stamp = count.stamp
\* A row is written straight to a live table.
Writes(t, k) ==
  /\ count.stamp < MaxStamp /\ count' = [count EXCEPT !.stamp = This]
  /\ live' = [live EXCEPT ![t][k] = This]
  /\ UNCHANGED <<staging, owed>>
\* A staged table is merged into the live one.
Merges(t) ==
  /\ live' = [live EXCEPT ![t] = Merged(t)]
  /\ StagingType(staging') /\ staging'.rows = staging.rows
  /\ UNCHANGED <<owed, count>>
Keeps ==
  /\ UNCHANGED <<live, owed>> /\ StagingType(staging') /\ staging'.rows = staging.rows
  /\ count'.stamp = count.stamp

LEMMA ThisType ==
  ASSUME Typed, count.stamp < MaxStamp
  PROVE  /\ This \in Stamps /\ This > count.stamp
         /\ [count EXCEPT !.stamp = This] \in [stamp : Stamps, kills : 0..MaxKills]
<1>1. count.stamp \in 0..MaxStamp
  BY DEF Typed, Stamps
<1>2. This \in Stamps /\ This > count.stamp
  BY <1>1, Bounds DEF This, Stamps
<1> QED BY <1>2 DEF Typed

LEMMA PutIs ==
  ASSUME Typed, count.stamp < MaxStamp, NEW s, StagingType(s), NEW t \in Tables, NEW k \in Keys
  PROVE  /\ StagingType(Put(s, t, k))
         /\ Base(s, t) \in Rows
         /\ Put(s, t, k).rows[t] = [Base(s, t) EXCEPT ![k] = This]
         /\ \A u \in Tables : u # t => Put(s, t, k).rows[u] = s.rows[u]
<1>1. Base(s, t) \in Rows
  BY DEF Base, StagingType, Typed
<1>2. [Base(s, t) EXCEPT ![k] = This] \in Rows
  <2> HIDE DEF Base, This
  <2> QED BY <1>1, ThisType DEF Rows
<1> DEFINE row == [Base(s, t) EXCEPT ![k] = This]
<1>3. Put(s, t, k) = [s EXCEPT !.rows[t] = row, !.marked = @ \ {t}]
  BY DEF Put
<1>4. row \in Rows
  BY <1>2
<1> HIDE DEF row
<1>5. /\ StagingType(Put(s, t, k)) /\ Put(s, t, k).rows[t] = row
      /\ \A u \in Tables : u # t => Put(s, t, k).rows[u] = s.rows[u]
  BY <1>3, <1>4 DEF StagingType
<1> QED BY <1>1, <1>5 DEF row

LEMMA LandIs ==
  ASSUME Typed, NEW n \in 0..Len(WriteOrder), NEW k \in Keys, NEW batch \in Batches,
         Land(n, k, batch)
  PROVE  \E W \in SUBSET Tables : Lands(W, k)
<1> DEFINE landed == {WriteOrder[i] : i \in 1..n}
           W == landed \cap Tables
           sealed == IF "decisions" \in landed
                     THEN [staging EXCEPT !.ops = batch, !.sidecar = TRUE] ELSE staging
           hooks  == IF "hooks" \in landed THEN Put(sealed, "hooks", k) ELSE sealed
<1>1. /\ NewStamp
      /\ staging' = IF "matrix" \in landed THEN Put(hooks, "matrix", k) ELSE hooks
      /\ owed' = [t \in Tables |->
           IF t \in landed THEN [owed[t] EXCEPT ![k] = This] ELSE owed[t]]
      /\ UNCHANGED live
  BY DEF Land
<1>2. count.stamp < MaxStamp /\ count' = [count EXCEPT !.stamp = This]
  BY <1>1 DEF NewStamp
<1>3. StagingType(sealed) /\ sealed.rows = staging.rows
  BY DEF Typed, StagingType
<1> HIDE DEF landed, sealed
<1>4. \A t \in Tables : Base(sealed, t) = Base(staging, t)
  BY <1>3 DEF Base
<1>5. /\ StagingType(hooks) /\ hooks.rows["matrix"] = Row("matrix")
      /\ hooks.rows["hooks"] = IF "hooks" \in landed
           THEN [Base(staging, "hooks") EXCEPT ![k] = This] ELSE Row("hooks")
  <2>0. "hooks" \in Tables /\ "matrix" \in Tables
    BY DEF Tables
  <2>1. CASE "hooks" \in landed
    <3>1. hooks = Put(sealed, "hooks", k)
      BY <2>1
    <3>2. /\ StagingType(Put(sealed, "hooks", k))
          /\ Put(sealed, "hooks", k).rows["hooks"] = [Base(sealed, "hooks") EXCEPT ![k] = This]
          /\ Put(sealed, "hooks", k).rows["matrix"] = sealed.rows["matrix"]
      BY <1>2, <1>3, <2>0, PutIs
    <3> QED BY <1>3, <1>4, <2>0, <2>1, <3>1, <3>2 DEF Row
  <2>2. CASE "hooks" \notin landed
    BY <1>3, <2>2 DEF Row
  <2> QED BY <2>1, <2>2
<1> HIDE DEF hooks
<1>6. Base(hooks, "matrix") = Base(staging, "matrix")
  BY <1>5 DEF Base, Row
<1>7. /\ StagingType(staging')
      /\ staging'.rows["hooks"] = hooks.rows["hooks"]
      /\ staging'.rows["matrix"] = IF "matrix" \in landed
           THEN [Base(staging, "matrix") EXCEPT ![k] = This] ELSE Row("matrix")
  <2>0. "matrix" \in Tables /\ "hooks" \in Tables
    BY DEF Tables
  <2>1. CASE "matrix" \in landed
    <3>1. staging' = Put(hooks, "matrix", k)
      BY <1>1, <2>1
    <3>2. /\ StagingType(Put(hooks, "matrix", k))
          /\ Put(hooks, "matrix", k).rows["matrix"] = [Base(hooks, "matrix") EXCEPT ![k] = This]
          /\ Put(hooks, "matrix", k).rows["hooks"] = hooks.rows["hooks"]
      <4>0. StagingType(hooks) /\ count.stamp < MaxStamp
        BY <1>2, <1>5
      <4>1. \A u \in Tables : u # "matrix" => Put(hooks, "matrix", k).rows[u] = hooks.rows[u]
        BY <2>0, <4>0, PutIs
      <4>2. /\ StagingType(Put(hooks, "matrix", k))
            /\ Put(hooks, "matrix", k).rows["matrix"] = [Base(hooks, "matrix") EXCEPT ![k] = This]
        BY <2>0, <4>0, PutIs
      <4> QED BY <2>0, <4>1, <4>2
    <3> QED BY <1>6, <2>1, <3>1, <3>2
  <2>2. CASE "matrix" \notin landed
    BY <1>1, <1>5, <2>2
  <2> QED BY <2>1, <2>2
<1>8. owed' \in [Tables -> Rows]
  <2>1. This \in Stamps
    BY <1>2, ThisType
  <2> HIDE DEF This
  <2> QED BY <1>1, <2>1 DEF Typed, Rows
<1>9. \A t \in Tables :
        /\ staging'.rows[t] = IF t \in W THEN [Base(staging, t) EXCEPT ![k] = This] ELSE Row(t)
        /\ owed'[t] = IF t \in W THEN [owed[t] EXCEPT ![k] = This] ELSE owed[t]
  BY <1>1, <1>5, <1>7 DEF Tables
<1>10. Lands(W, k)
  BY <1>1, <1>2, <1>7, <1>8, <1>9 DEF Lands
<1> QED BY <1>10

LEMMA KeepMarkedIs ==
  ASSUME Typed
  PROVE  /\ StagingType(KeepMarked)
         /\ \A t \in Tables : KeepMarked.rows[t] = Row(t) \/ KeepMarked.rows[t] = NoFile
<1> DEFINE rows == [t \in Tables |-> IF t \in staging.marked THEN Row(t) ELSE NoFile]
<1>1. rows \in [Tables -> Rows \cup {NoFile}]
  BY DEF Typed, StagingType, Row
<1>2. KeepMarked = [staging EXCEPT !.rows = rows,
        !.ops = IF "decisions" \in staging.marked THEN staging.ops ELSE NoOps,
        !.sidecar = staging.sidecar /\ "decisions" \in staging.marked]
  BY DEF KeepMarked, Row, Typed, StagingType
<1>3. \A t \in Tables : rows[t] = Row(t) \/ rows[t] = NoFile
  OBVIOUS
<1> HIDE DEF rows
<1>4. (staging.sidecar /\ "decisions" \in staging.marked) \in BOOLEAN
  BY DEF Typed, StagingType
<1>5. StagingType(KeepMarked) /\ KeepMarked.rows = rows
  BY <1>1, <1>2, <1>4 DEF Typed, StagingType
<1> QED BY <1>3, <1>5

LEMMA StillOwedType ==
  ASSUME Typed, NEW s
  PROVE  StillOwed(s) \in [Tables -> Rows]
BY BlankType DEF StillOwed, Typed

-----------------------------------------------------------------------------
(* The types are kept.                                                     *)

\* What is left to do: entries of a queue, facts to write, staged tables.
Lists ==
  /\ job.pc = "queue" => job.todo \in Seq(Entries) /\ job.kept \in Seq(Entries)
  /\ job.pc = "facts" => job.todo # <<>>
  /\ job.pc = "commit" =>
       \A t \in Tables : t \in ToSet(job.todo) => Row(t) # NoFile

DataStep ==
  \/ \E W \in SUBSET Tables, k \in Keys : Lands(W, k)
  \/ Thins
  \/ \E t \in Tables, k \in Keys : Writes(t, k)
  \/ \E t \in Tables : Row(t) # NoFile /\ job.pc = "commit" /\ Merges(t)
  \/ Keeps
CountType == count' \in [stamp : Stamps, kills : 0..MaxKills]
\* What a command does to itself, the state file and the record.
Control == JobType(job)' /\ (st \in Questioning)' /\ HistoryType(history)'

LEMMA SameStaging ==
  ASSUME Typed, UNCHANGED staging
  PROVE  StagingType(staging') /\ staging'.rows = staging.rows
BY DEF Typed

LEMMA SameCount ==
  ASSUME Typed, UNCHANGED count
  PROVE  CountType /\ count'.stamp = count.stamp
BY DEF Typed, CountType

LEMMA SameHistory ==
  ASSUME Typed, UNCHANGED history
  PROVE  HistoryType(history)'
BY DEF Typed, HistoryType

LEMMA SameState ==
  ASSUME Typed, UNCHANGED st
  PROVE  (st \in Questioning)'
BY DEF Typed

LEMMA AsksType ==
  ASSUME Typed, NEW rows, rows \in [Tables -> Rows], Asks(rows)
  PROVE  HistoryType(history)' /\ history'.shown = rows /\ history'.doomed = history.doomed
BY DEF Typed, HistoryType, Asks

LEMMA GotoType ==
  ASSUME Typed, NEW pc \in Pcs, NEW mem \in Questioning, NEW todo \in Seq(Things),
         Goto(pc, mem, todo)
  PROVE  /\ JobType(job)'
         /\ job'.pc = pc /\ job'.mem = mem /\ job'.todo = todo
         /\ job'.kept = job.kept /\ job'.reply = job.reply /\ job'.doomed = job.doomed
BY DEF Goto, Typed, JobType

LEMMA MemType ==
  ASSUME NEW mem \in Questioning
  PROVE  /\ \A ask \in Questions : [mem EXCEPT !.ask = ask] \in Questioning
         /\ \A ask \in Questions, at \in Places :
              [mem EXCEPT !.at = at, !.ask = ask] \in Questioning
         /\ \A at \in Places : [mem EXCEPT !.at = at] \in Questioning
         /\ \A ask \in Questions, q \in Seq(Entries) :
              [mem EXCEPT !.ask = ask, !.queue = q] \in Questioning
BY DEF Questioning

LEMMA Words ==
  /\ {"none", "settle", "chapter", "escalation"} \subseteq Questions
  /\ {"pair", "serial", "past", "next"} \subseteq Places
  /\ {"idle", "queue", "loop", "mark", "check", "facts", "commit", "discard", "save"} \subseteq Pcs
  /\ {"", "approved", "refused", "aborted"} \subseteq Replies
BY DEF Questions, Places, Pcs, Replies

LEMMA Subsequences ==
  ASSUME NEW S, NEW T, S \subseteq T, NEW s \in Seq(S)
  PROVE  s \in Seq(T)
OBVIOUS

LEMMA EmptyThings == <<>> \in Seq(Things) /\ <<>> \in Seq(Entries)
OBVIOUS

\* The forms a fresh command takes.
LEMMA FreshType ==
  ASSUME NEW reply \in Replies, NEW pc \in Pcs, NEW mem \in Questioning,
         NEW todo \in Seq(Things), NEW kept \in Seq(Things), NEW doomed \in SUBSET Stamps,
         NEW ready
  PROVE  /\ JobType([Idle(reply) EXCEPT !.pc = pc, !.mem = mem, !.todo = todo])
         /\ JobType([Idle(reply) EXCEPT !.pc = pc, !.mem = mem])
         /\ JobType([Idle(reply) EXCEPT !.pc = pc, !.mem = mem, !.todo = todo, !.ready = ready])
         /\ JobType([Idle(reply) EXCEPT !.pc = pc, !.todo = todo, !.kept = kept, !.mem = mem,
                       !.doomed = doomed])
<1> DEFINE i == Idle(reply)
<1>1. JobType(i)
  BY IdleType
<1> HIDE DEF i
<1>2. JobType([i EXCEPT !.pc = pc, !.mem = mem, !.todo = todo])
  BY <1>1 DEF JobType
<1>3. JobType([i EXCEPT !.pc = pc, !.mem = mem])
  BY <1>1 DEF JobType
<1>4. JobType([i EXCEPT !.pc = pc, !.mem = mem, !.todo = todo, !.ready = ready])
  BY <1>1 DEF JobType
<1>5. JobType([i EXCEPT !.pc = pc, !.todo = todo, !.kept = kept, !.mem = mem,
                 !.doomed = doomed])
  BY <1>1 DEF JobType
<1> QED BY <1>2, <1>3, <1>4, <1>5 DEF i

LEMMA IdleIs ==
  ASSUME NEW reply
  PROVE  /\ Idle(reply).pc = "idle" /\ Idle(reply).mem = NoOne /\ Idle(reply).todo = <<>>
         /\ Idle(reply).kept = <<>> /\ Idle(reply).reply = reply /\ Idle(reply).doomed = {}
BY DEF Idle

LEMMA CommandType ==
  ASSUME Typed, Lists, Command
  PROVE  Control /\ CountType /\ Thins
<1>1. st.queue \in Seq(Entries) /\ st.queue \in Seq(Things)
  <2>1. st.queue \in Seq(Entries)
    BY DEF Typed, Questioning
  <2> QED BY <2>1, Subsequences, Literals
<1>2. job' = [Idle("") EXCEPT !.pc = "queue", !.mem = st, !.todo = st.queue]
  BY DEF Command
<1>3. JobType(job)'
  <2>1. JobType([Idle("") EXCEPT !.pc = "queue", !.mem = st, !.todo = st.queue])
    BY <1>1, FreshType, Words DEF Typed
  <2> QED BY <1>2, <2>1 DEF JobType
<1>4. UNCHANGED <<live, facts, st, count, history>>
  BY DEF Command
<1>5. Control
  BY <1>3, <1>4, SameState, SameHistory DEF Control
<1>6. staging' = KeepMarked \/ staging' = staging
  BY DEF Command
<1>7. /\ StagingType(staging')
      /\ \A t \in Tables : staging'.rows[t] = Row(t) \/ staging'.rows[t] = NoFile
  BY <1>6, KeepMarkedIs DEF Typed, Row
<1>8. Thins
  BY <1>4, <1>7 DEF Thins, Command
<1> QED BY <1>4, <1>5, <1>8, SameCount

LEMMA LandsType ==
  ASSUME Typed, NEW W \in SUBSET Tables, NEW k \in Keys, Lands(W, k)
  PROVE  /\ CountType /\ owed' \in [Tables -> Rows] /\ live' \in [Tables -> Rows]
         /\ DataStep
<1>1. CountType
  BY ThisType DEF Lands, CountType
<1>2. DataStep
  BY DEF DataStep
<1> QED BY <1>1, <1>2 DEF Lands, Typed

LEMMA StampedType ==
  ASSUME Typed, NewStamp
  PROVE  CountType
BY ThisType DEF NewStamp, CountType

LEMMA QueueTail ==
  ASSUME Typed, Lists, job.pc = "queue", job.todo # <<>>
  PROVE  /\ Tail(job.todo) \in Seq(Entries) /\ Tail(job.todo) \in Seq(Things)
         /\ Head(job.todo) \in Entries
<1>1. Tail(job.todo) \in Seq(Entries) /\ Head(job.todo) \in Entries
  BY TailIs DEF Lists
<1> QED BY <1>1, Subsequences, Literals

LEMMA SettleAgainType ==
  ASSUME Typed, Lists, SettleAgain
  PROVE  Control /\ CountType /\ DataStep
<1>1. PICK n \in 0..Len(WriteOrder), k \in Keys, batch \in Batches, passes \in BOOLEAN :
        /\ Land(n, k, batch)
        /\ IF passes
           THEN /\ Goto("queue", [job.mem EXCEPT !.ask = "settle"], Tail(job.todo))
                /\ Asks(owed')
           ELSE /\ job' = [job EXCEPT !.todo = Tail(@), !.kept = Append(@, "settle")]
                /\ UNCHANGED history
  BY DEF SettleAgain
<1>2. PICK W \in SUBSET Tables : Lands(W, k)
  BY <1>1, LandIs
<1>3. CountType /\ owed' \in [Tables -> Rows] /\ DataStep
  BY <1>2, LandsType
<1>4. (st \in Questioning)'
  BY SameState DEF SettleAgain, Running
<1>5. Tail(job.todo) \in Seq(Things) /\ job.mem \in Questioning
  BY QueueTail DEF SettleAgain, Running, Typed, JobType
<1>6. CASE passes
  <2>1. [job.mem EXCEPT !.ask = "settle"] \in Questioning
    BY <1>5, MemType, Words
  <2>2. JobType(job)'
    BY <1>1, <1>5, <1>6, <2>1, GotoType, Words
  <2>3. HistoryType(history)'
    BY <1>1, <1>3, <1>6, AsksType
  <2> QED BY <1>3, <1>4, <2>2, <2>3 DEF Control
<1>7. CASE ~passes
  <2>1. job' = [job EXCEPT !.todo = Tail(@), !.kept = Append(@, "settle")]
    BY <1>1, <1>7
  <2>2. Append(job.kept, "settle") \in Seq(Things)
    BY Literals DEF Typed, JobType
  <2>3. JobType(job)'
    BY <1>5, <2>1, <2>2 DEF Typed, JobType
  <2> QED BY <1>1, <1>3, <1>4, <1>7, <2>3, SameHistory DEF Control
<1> QED BY <1>6, <1>7

LEMMA DerivedType ==
  ASSUME Typed, Lists, Derived
  PROVE  Control /\ CountType /\ DataStep
<1>1. Tail(job.todo) \in Seq(Things) /\ job.mem \in Questioning
  BY QueueTail DEF Derived, Running, Typed, JobType
<1>2. (st \in Questioning)' /\ HistoryType(history)'
  BY SameState, SameHistory DEF Derived, Running
<1>3. UNCHANGED <<staging, owed>>
  BY DEF Derived
<1>4. CASE /\ NewStamp /\ Goto("queue", job.mem, Tail(job.todo))
           /\ \E t \in Tables, k \in Keys : live' = [live EXCEPT ![t][k] = This]
  <2>1. JobType(job)'
    BY <1>1, <1>4, GotoType, Words
  <2>2. \E t \in Tables, k \in Keys : Writes(t, k)
    BY <1>3, <1>4 DEF Writes, NewStamp
  <2> QED BY <1>2, <1>4, <2>1, <2>2, StampedType DEF Control, DataStep
<1>5. CASE /\ job' = [job EXCEPT !.todo = Tail(@), !.kept = Append(@, "derived")]
           /\ UNCHANGED <<live, count>>
  <2>1. Append(job.kept, "derived") \in Seq(Things)
    BY Literals DEF Typed, JobType
  <2>2. JobType(job)'
    BY <1>1, <1>5, <2>1 DEF Typed, JobType
  <2>3. Keeps
    BY <1>3, <1>5, SameStaging, SameCount DEF Keeps
  <2> QED BY <1>2, <1>5, <2>2, <2>3, SameCount DEF Control, DataStep
<1> QED BY <1>4, <1>5 DEF Derived

LEMMA QueueEndsType ==
  ASSUME Typed, Lists, QueueEnds
  PROVE  Control /\ CountType /\ DataStep
<1>1. job.kept \in Seq(Entries) /\ <<>> \in Seq(Entries) /\ <<>> \in Seq(Things)
  BY EmptyThings DEF QueueEnds, Running, Lists
<1>2. PICK kept \in {job.kept, <<>>}, ask \in Questions, pc \in Pcs :
        job' = [job EXCEPT !.pc = pc, !.mem.ask = ask, !.mem.queue = kept, !.kept = <<>>]
  <2>1. PICK kept \in {job.kept, <<>>} :
          LET ask == IF job.kept # <<>> THEN "escalation" ELSE job.mem.ask
          IN  job' = [job EXCEPT !.pc = IF ask = "none" THEN "loop" ELSE "save",
                        !.mem.ask = ask, !.mem.queue = kept, !.kept = <<>>]
    BY DEF QueueEnds
  <2> DEFINE ask == IF job.kept # <<>> THEN "escalation" ELSE job.mem.ask
             pc == IF ask = "none" THEN "loop" ELSE "save"
  <2>2. ask \in Questions /\ pc \in Pcs
    BY Words DEF Typed, JobType, Questioning
  <2> QED BY <2>1, <2>2
<1>3. kept \in Seq(Entries)
  BY <1>1, <1>2
<1>4. [job.mem EXCEPT !.ask = ask, !.queue = kept] \in Questioning
  BY <1>3, MemType DEF Typed, JobType
<1>5. job' = [job EXCEPT !.pc = pc, !.mem = [job.mem EXCEPT !.ask = ask, !.queue = kept],
                         !.kept = <<>>]
  BY <1>2 DEF Typed, JobType
<1>6. JobType(job)'
  BY <1>1, <1>4, <1>5 DEF Typed, JobType
<1>7. Keeps
  BY SameStaging, SameCount DEF Keeps, QueueEnds
<1> QED BY <1>6, <1>7, SameState, SameHistory, SameCount DEF Control, DataStep, QueueEnds, Running

LEMMA LifecycleIs ==
  ASSUME Typed, Lifecycle
  PROVE  \E k \in Keys : Lands({"hooks"}, k)
<1>1. PICK k \in Keys : /\ staging' = Put(staging, "hooks", k)
                        /\ owed' = [owed EXCEPT !["hooks"][k] = This]
  BY DEF Lifecycle
<1>2. count.stamp < MaxStamp /\ count' = [count EXCEPT !.stamp = This] /\ UNCHANGED live
  BY DEF Lifecycle, NewStamp
<1>3. "hooks" \in Tables /\ StagingType(staging)
  BY DEF Tables, Typed
<1>4. /\ StagingType(staging')
      /\ staging'.rows["hooks"] = [Base(staging, "hooks") EXCEPT ![k] = This]
  <2>1. StagingType(Put(staging, "hooks", k))
    BY <1>2, <1>3, PutIs
  <2>2. Put(staging, "hooks", k).rows["hooks"] = [Base(staging, "hooks") EXCEPT ![k] = This]
    BY <1>2, <1>3, PutIs
  <2> QED BY <1>1, <2>1, <2>2
<1>5. \A t \in Tables : t # "hooks" => staging'.rows[t] = Row(t)
  <2>1. \A u \in Tables : u # "hooks" => Put(staging, "hooks", k).rows[u] = staging.rows[u]
    BY <1>2, <1>3, PutIs
  <2> QED BY <1>1, <2>1 DEF Row
<1>6. This \in Stamps
  BY <1>2, ThisType
<1> HIDE DEF This
<1>7. owed["hooks"] \in Rows
  BY <1>3 DEF Typed
<1>8. [owed["hooks"] EXCEPT ![k] = This] \in Rows
  BY <1>6, <1>7 DEF Rows
<1>9. owed' = [owed EXCEPT !["hooks"] = [owed["hooks"] EXCEPT ![k] = This]]
  BY <1>1
<1>10. /\ owed' \in [Tables -> Rows] /\ owed'["hooks"] = [owed["hooks"] EXCEPT ![k] = This]
       /\ \A t \in Tables : t # "hooks" => owed'[t] = owed[t]
  BY <1>3, <1>8, <1>9 DEF Typed
<1>11. Lands({"hooks"}, k)
  BY <1>2, <1>4, <1>5, <1>10 DEF Lands
<1> QED BY <1>11

LEMMA LifecycleType ==
  ASSUME Typed, Lifecycle
  PROVE  Control /\ CountType /\ DataStep
<1>1. PICK k \in Keys : Lands({"hooks"}, k)
  BY LifecycleIs
<1>2. CountType /\ DataStep
  BY <1>1, LandsType DEF Tables
<1>3. <<"settle">> \in Seq(Things)
  BY Literals
<1>4. JobType(job)'
  BY <1>3, GotoType, Words DEF Lifecycle, Typed, JobType
<1> QED BY <1>2, <1>4, SameState, SameHistory DEF Control, Lifecycle, Running

LEMMA PairSettlesType ==
  ASSUME Typed, PairSettles
  PROVE  Control /\ CountType /\ DataStep
<1>1. PICK n \in 0..Len(WriteOrder), k \in Keys, batch \in Batches, passes \in BOOLEAN :
       /\ Land(n, k, batch)
       /\ \/ /\ passes /\ Goto("mark", [job.mem EXCEPT !.at = "past", !.ask = "settle"], <<>>)
             /\ Asks(owed')
          \/ /\ ~passes /\ UNCHANGED history
             /\ IF Landed(n) THEN Goto("loop", job.mem, <<>>)
                ELSE Goto("save", [job.mem EXCEPT !.ask = "escalation"], <<>>)
  BY DEF PairSettles
<1>2. PICK W \in SUBSET Tables : Lands(W, k)
  BY <1>1, LandIs
<1>3. CountType /\ owed' \in [Tables -> Rows] /\ DataStep
  BY <1>2, LandsType
<1>4. (st \in Questioning)'
  BY SameState DEF PairSettles, Running
<1>5. job.mem \in Questioning
  BY DEF Typed, JobType
<1>6. /\ [job.mem EXCEPT !.at = "past", !.ask = "settle"] \in Questioning
      /\ [job.mem EXCEPT !.ask = "escalation"] \in Questioning
  BY <1>5, MemType, Words
<1>7. JobType(job)'
  <2>1. CASE Goto("mark", [job.mem EXCEPT !.at = "past", !.ask = "settle"], <<>>)
    BY <1>6, <2>1, GotoType, Words, EmptyThings
  <2>2. CASE Goto("loop", job.mem, <<>>)
    BY <1>5, <2>2, GotoType, Words, EmptyThings
  <2>3. CASE Goto("save", [job.mem EXCEPT !.ask = "escalation"], <<>>)
    BY <1>6, <2>3, GotoType, Words, EmptyThings
  <2> QED BY <1>1, <2>1, <2>2, <2>3
<1>8. HistoryType(history)'
  BY <1>1, <1>3, AsksType, SameHistory
<1> QED BY <1>3, <1>4, <1>7, <1>8 DEF Control

LEMMA SettlesType ==
  ASSUME Typed, Settles
  PROVE  Control /\ CountType /\ DataStep
<1>1. PICK n \in 0..Len(WriteOrder), k \in Keys, batch \in Batches, passes \in BOOLEAN :
       /\ Land(n, k, batch)
       /\ IF Landed(n)
          THEN Goto("loop", IF passes THEN [job.mem EXCEPT !.at = "past"] ELSE job.mem, <<>>)
          ELSE Goto("save", [job.mem EXCEPT !.ask = "escalation"], <<>>)
  BY DEF Settles
<1>2. PICK W \in SUBSET Tables : Lands(W, k)
  BY <1>1, LandIs
<1>3. CountType /\ DataStep
  BY <1>2, LandsType
<1>4. job.mem \in Questioning
  BY DEF Typed, JobType
<1>5. /\ [job.mem EXCEPT !.at = "past"] \in Questioning
      /\ [job.mem EXCEPT !.ask = "escalation"] \in Questioning
  BY <1>4, MemType, Words
<1>6. JobType(job)'
  <2>1. CASE Goto("loop", [job.mem EXCEPT !.at = "past"], <<>>)
    BY <1>5, <2>1, GotoType, Words, EmptyThings
  <2>2. CASE Goto("loop", job.mem, <<>>)
    BY <1>4, <2>2, GotoType, Words, EmptyThings
  <2>3. CASE Goto("save", [job.mem EXCEPT !.ask = "escalation"], <<>>)
    BY <1>5, <2>3, GotoType, Words, EmptyThings
  <2> QED BY <1>1, <2>1, <2>2, <2>3
<1> QED BY <1>3, <1>6, SameState, SameHistory DEF Control, Settles, Running

LEMMA MarkType ==
  ASSUME Typed, Mark
  PROVE  Control /\ CountType /\ DataStep
<1>1. JobType(job)'
  BY GotoType, Words, EmptyThings DEF Mark, Typed, JobType
<1>2. staging' = [staging EXCEPT !.marked = @ \cup StagedTargets]
  BY DEF Mark
<1>3. staging.marked \cup StagedTargets \in SUBSET Targets
  BY DEF Typed, StagingType, StagedTargets
<1>4. StagingType(staging') /\ staging'.rows = staging.rows
  <2> DEFINE m == staging.marked \cup StagedTargets
  <2>1. staging' = [staging EXCEPT !.marked = m] /\ m \in SUBSET Targets
    BY <1>2, <1>3
  <2> HIDE DEF m
  <2> QED BY <2>1 DEF Typed, StagingType
<1>5. Keeps
  BY <1>4, SameCount DEF Keeps, Mark
<1> QED BY <1>1, <1>5, SameState, SameHistory, SameCount DEF Control, DataStep, Mark, Running

LEMMA CompletesType ==
  ASSUME Typed, Completes
  PROVE  Control /\ CountType /\ DataStep
<1>1. [job.mem EXCEPT !.at = "next", !.ask = "chapter"] \in Questioning
  BY MemType, Words DEF Typed, JobType
<1>2. JobType(job)'
  BY <1>1, GotoType, Words, EmptyThings DEF Completes
<1>3. HistoryType(history)'
  BY AsksType DEF Completes, Typed
<1>4. Keeps
  BY SameStaging, SameCount DEF Keeps, Completes
<1> QED BY <1>2, <1>3, <1>4, SameState, SameCount DEF Control, DataStep, Completes, Running

LEMMA ElsewhereType ==
  ASSUME Typed, Elsewhere
  PROVE  Control /\ CountType /\ DataStep
<1>1. JobType(job)'
  BY GotoType, Words, EmptyThings DEF Elsewhere, Typed, JobType
<1>2. Keeps
  BY SameStaging, SameCount DEF Keeps, Elsewhere
<1> QED BY <1>1, <1>2, SameState, SameHistory, SameCount DEF Control, DataStep, Elsewhere, Running

LEMMA ApproveType ==
  ASSUME Typed, Approve
  PROVE  Control /\ CountType /\ DataStep
<1>1. [st EXCEPT !.ask = "none"] \in Questioning
  BY MemType, Words DEF Typed
<1>2. <<"props", "counters">> \in Seq(Things)
  BY Literals
<1>3. JobType([Idle("") EXCEPT !.pc = "check", !.mem = [st EXCEPT !.ask = "none"],
                 !.todo = <<"props", "counters">>, !.ready = facts])
  BY <1>1, <1>2, FreshType, Words, EmptyThings
<1>4. JobType(job)'
  BY <1>3 DEF Approve, JobType
<1>5. HistoryType(history)' /\ history'.shown = history.shown /\ history'.doomed = history.doomed
  <2>1. history' = [history EXCEPT !.before = <<facts, live, staging>>,
                                   !.asked = @ \cup {staging.ops}]
    BY DEF Approve
  <2> QED BY <2>1 DEF Typed, HistoryType
<1>6. Keeps
  BY SameStaging, SameCount DEF Keeps, Approve
<1> QED BY <1>4, <1>5, <1>6, SameState, SameCount DEF Control, DataStep, Approve

LEMMA CheckType ==
  ASSUME Typed, Check
  PROVE  Control /\ CountType /\ DataStep
<1>1. \/ \E d, log : job' = [job EXCEPT !.todo = Tail(@), !.ready[d] = log]
      \/ job' = Idle("refused")
  BY DEF Check
<1>2. Tail(job.todo) \in Seq(Things)
  BY TailIs DEF Typed, JobType, Check
<1>3. JobType(job)'
  <2>1. ASSUME NEW d, NEW log, job' = [job EXCEPT !.todo = Tail(@), !.ready[d] = log]
        PROVE  JobType(job)'
    BY <1>2, <2>1 DEF Typed, JobType
  <2>2. CASE job' = Idle("refused")
    <3>1. JobType(Idle("refused"))
      BY IdleType, Words
    <3> QED BY <2>2, <3>1 DEF JobType
  <2> QED BY <1>1, <2>1, <2>2
<1>4. Keeps
  BY SameStaging, SameCount DEF Keeps, Check
<1> QED BY <1>3, <1>4, SameState, SameHistory, SameCount DEF Control, DataStep, Check, Running

LEMMA ChecksType ==
  ASSUME Typed, Checks
  PROVE  Control /\ CountType /\ DataStep
<1>1. <<"props", "counters">> \in Seq(Things)
  BY Literals
<1>2. JobType(job)'
  BY <1>1, GotoType, Words DEF Checks, Typed, JobType
<1>3. Keeps
  BY SameStaging, SameCount DEF Keeps, Checks
<1> QED BY <1>2, <1>3, SameState, SameHistory, SameCount DEF Control, DataStep, Checks, Running

LEMMA WriteFactsType ==
  ASSUME Typed, WriteFacts, job.todo # <<>>
  PROVE  Control /\ CountType /\ DataStep
<1>1. \/ job' = [job EXCEPT !.pc = "commit", !.todo = ToCommit, !.ready = NoOps]
      \/ Goto("facts", job.mem, Tail(job.todo))
  BY DEF WriteFacts
<1>2. ToCommit \in Seq(Things) /\ Tail(job.todo) \in Seq(Things)
  BY ListedIs, TailIs DEF Typed, JobType, ToCommit
<1>3. JobType(job)'
  <2>1. CASE job' = [job EXCEPT !.pc = "commit", !.todo = ToCommit, !.ready = NoOps]
    BY <1>2, <2>1, Words DEF Typed, JobType
  <2>2. CASE Goto("facts", job.mem, Tail(job.todo))
    BY <1>2, <2>2, GotoType, Words DEF Typed, JobType
  <2> QED BY <1>1, <2>1, <2>2
<1>4. Keeps
  BY SameStaging, SameCount DEF Keeps, WriteFacts
<1> QED BY <1>3, <1>4, SameState, SameHistory, SameCount DEF Control, DataStep, WriteFacts, Running

LEMMA CommitType ==
  ASSUME Typed, Lists, Commit
  PROVE  /\ Control /\ CountType /\ DataStep
         /\ Head(job.todo) \in Tables => Row(Head(job.todo)) # NoFile /\ Merges(Head(job.todo))
         /\ Head(job.todo) \notin Tables => Keeps
<1> DEFINE t == Head(job.todo)
<1>1. Tail(job.todo) \in Seq(Things) /\ t \in ToSet(job.todo)
  BY TailIs DEF Typed, JobType, Commit
<1>2. JobType(job)'
  BY <1>1, GotoType, Words DEF Commit, Typed, JobType
<1>3. StagingType(staging') /\ staging'.rows = staging.rows
  <2>1. staging' = [staging EXCEPT !.marked = @ \ {t}]
    BY DEF Commit
  <2> HIDE DEF t
  <2> QED BY <2>1 DEF Typed, StagingType
<1>4. t \in Tables => Row(t) # NoFile /\ Merges(t)
  BY <1>1, <1>3 DEF Commit, Merges, Lists, Running
<1>5. t \notin Tables => Keeps
  BY <1>3, SameCount DEF Commit, Keeps
<1>6. DataStep
  BY <1>4, <1>5 DEF DataStep, Commit, Running
<1> QED BY <1>2, <1>4, <1>5, <1>6, SameState, SameHistory, SameCount DEF Control, Commit, Running

LEMMA ClearType ==
  ASSUME Typed, Clear
  PROVE  Control /\ CountType /\ Thins
<1>1. JobType(job)'
  BY Words DEF Clear, Typed, JobType
<1>2. /\ StagingType(Empty)
      /\ \A t \in Tables : Empty.rows[t] = NoFile
  BY EmptyType DEF Empty
<1>3. Thins
  BY <1>2, SameCount DEF Thins, Clear
<1> QED BY <1>1, <1>3, SameState, SameHistory, SameCount DEF Control, Clear, Running

LEMMA QueuedType ==
  ASSUME Typed, NEW queue \in Seq(Entries), NEW entry \in Entries
  PROVE  Queued(queue, entry) \in Seq(Entries)
BY DEF Queued

LEMMA RedoType ==
  ASSUME Typed
  PROVE  OwnRedo \in Seq(Entries) /\ Propagated(OwnRedo) \in Seq(Entries) /\ Rewound \in Places
<1>1. st.queue \in Seq(Entries) /\ st.at \in Places /\ "settle" \in Entries /\ "derived" \in Entries
  BY DEF Typed, Questioning, Entries
<1>2. OwnRedo \in Seq(Entries)
  BY <1>1, QueuedType DEF OwnRedo
<1>3. Propagated(OwnRedo) \in Seq(Entries)
  BY <1>1, <1>2, QueuedType DEF Propagated
<1>4. Rewound \in Places
  BY <1>1, Words DEF Rewound
<1> QED BY <1>2, <1>3, <1>4

LEMMA UnwantedType ==
  ASSUME Typed
  PROVE  Unwanted \in SUBSET Stamps
<1> SUFFICES ASSUME NEW t \in Tables, NEW k \in Keys, staging.rows[t][k] # -1
             PROVE  staging.rows[t][k] \in Stamps
  BY DEF Unwanted
<1>1. staging.rows[t] \in Rows \cup {NoFile}
  BY DEF Typed, StagingType
<1>2. staging.rows[t] # NoFile
  BY DEF NoFile
<1> QED BY <1>1, <1>2 DEF Rows

LEMMA DecideType ==
  ASSUME Typed, NEW pc \in Pcs, NEW todo \in Seq(Things), NEW queue \in Seq(Entries),
         Decide(pc, todo, queue)
  PROVE  /\ Control /\ CountType
         /\ job' = [Idle("") EXCEPT !.pc = pc, !.todo = todo, !.kept = todo,
                      !.mem = [at |-> Rewound, ask |-> "none", queue |-> queue],
                      !.doomed = Unwanted]
         /\ history'.shown = Blank /\ history'.doomed = history.doomed
<1> DEFINE mem == [at |-> Rewound, ask |-> "none", queue |-> queue]
<1>1. mem \in Questioning
  BY RedoType, Words DEF Questioning
<1>2. job' = [Idle("") EXCEPT !.pc = pc, !.todo = todo, !.kept = todo,
                !.mem = mem, !.doomed = Unwanted]
  BY DEF Decide
<1>3. JobType(job)'
  <2> HIDE DEF mem
  <2>1. JobType([Idle("") EXCEPT !.pc = pc, !.todo = todo, !.kept = todo,
                   !.mem = mem, !.doomed = Unwanted])
    BY <1>1, FreshType, UnwantedType, Words
  <2> QED BY <1>2, <2>1 DEF JobType
<1>4. HistoryType(history)' /\ history'.shown = Blank /\ history'.doomed = history.doomed
  <2>1. history' = [history EXCEPT !.shown = Blank, !.before = <<>>]
    BY DEF Decide
  <2> QED BY <2>1, BlankType DEF Typed, HistoryType
<1> QED BY <1>2, <1>3, <1>4, SameState, SameCount DEF Control, Decide

LEMMA RejectType ==
  ASSUME Typed, Reject
  PROVE  Control /\ CountType /\ Keeps
<1>1. Discarded \in Seq(Things)
  BY ListedIs DEF Discarded
<1>2. PICK pc \in Pcs : Decide(pc, Discarded, OwnRedo)
  BY Words DEF Reject
<1>3. Control /\ CountType
  BY <1>1, <1>2, DecideType, RedoType
<1>4. Keeps
  BY SameStaging, SameCount DEF Keeps, Reject, Decide
<1> QED BY <1>3, <1>4

LEMMA DiscardIs ==
  ASSUME Typed, Discard
  PROVE  /\ Thins
         /\ job.todo # <<>> /\ Head(job.todo) \in Tables => staging'.rows[Head(job.todo)] = NoFile
<1> DEFINE t == Head(job.todo)
<1>1. CASE job.todo = <<>>
  <2>1. PICK m \in SUBSET Targets : staging' = [staging EXCEPT !.marked = m]
    BY <1>1 DEF Discard, Typed, StagingType
  <2>2. StagingType(staging') /\ staging'.rows = staging.rows
    BY <2>1 DEF Typed, StagingType
  <2> QED BY <1>1, <2>2, SameCount DEF Thins, Discard, Row
<1>2. CASE job.todo # <<>> /\ t = "decisions"
  <2>1. staging' = [staging EXCEPT !.ops = NoOps, !.sidecar = FALSE]
    BY <1>2 DEF Discard
  <2>2. StagingType(staging') /\ staging'.rows = staging.rows
    BY <2>1 DEF Typed, StagingType
  <2>3. t \notin Tables
    BY <1>2 DEF Tables
  <2> QED BY <2>2, <2>3, SameCount DEF Thins, Discard, Row
<1>3. CASE job.todo # <<>> /\ t # "decisions"
  <2>1. staging' = [staging EXCEPT !.rows[t] = NoFile]
    BY <1>3 DEF Discard
  <2> HIDE DEF t
  <2>2. /\ StagingType(staging')
        /\ t \in Tables => staging'.rows[t] = NoFile
        /\ \A u \in Tables : u # t => staging'.rows[u] = Row(u)
    BY <2>1 DEF Typed, StagingType, Row
  <2>3. \A u \in Tables : staging'.rows[u] = Row(u) \/ staging'.rows[u] = NoFile
    BY <2>2
  <2>4. Thins
    BY <2>2, <2>3, SameCount DEF Thins, Discard
  <2> QED BY <2>2, <2>4 DEF t
<1> QED BY <1>1, <1>2, <1>3

LEMMA DiscardType ==
  ASSUME Typed, Discard
  PROVE  Control /\ CountType /\ Thins
<1>1. job.todo # <<>> => Tail(job.todo) \in Seq(Things)
  BY TailIs DEF Typed, JobType
<1>2. Goto("save", job.mem, <<>>) \/ (job.todo # <<>> /\ Goto("discard", job.mem, Tail(job.todo)))
  BY DEF Discard
<1>3. JobType(job)'
  BY <1>1, <1>2, GotoType, Words, EmptyThings DEF Typed, JobType
<1> QED BY <1>3, DiscardIs, SameState, SameHistory, SameCount DEF Control, Discard, Running

LEMMA ModifyType ==
  ASSUME Typed, Modify
  PROVE  Control /\ CountType /\ Thins
<1>1. Control /\ CountType
  BY DecideType, RedoType, Words, EmptyThings DEF Modify
<1>2. /\ StagingType(Empty)
      /\ \A t \in Tables : Empty.rows[t] = NoFile
  BY EmptyType DEF Empty
<1>3. Thins
  BY <1>2, SameCount DEF Thins, Modify, Decide
<1> QED BY <1>1, <1>3

LEMMA DismissType ==
  ASSUME Typed, Dismiss
  PROVE  Control /\ CountType /\ Keeps
<1>1. [st EXCEPT !.ask = "none"] \in Questioning
  BY MemType, Words DEF Typed
<1>2. JobType([Idle("") EXCEPT !.pc = "save", !.mem = [st EXCEPT !.ask = "none"]])
  BY <1>1, FreshType, Words, EmptyThings
<1>3. JobType(job)'
  BY <1>2 DEF Dismiss, JobType
<1>4. Keeps
  BY SameStaging, SameCount DEF Keeps, Dismiss
<1> QED BY <1>3, <1>4, SameState, SameHistory, SameCount DEF Control, Dismiss

LEMMA SaveType ==
  ASSUME Typed, Save
  PROVE  /\ Control /\ CountType /\ Keeps
         /\ history'.doomed = history.doomed \cup job.doomed
         /\ history'.shown = IF job.mem.ask = "none" THEN Blank ELSE history.shown
<1>1. JobType(job)'
  BY IdleType, Words DEF Save, JobType
<1>2. (st \in Questioning)'
  BY DEF Save, Typed, JobType
<1>3. /\ HistoryType(history)'
      /\ history'.doomed = history.doomed \cup job.doomed
      /\ history'.shown = IF job.mem.ask = "none" THEN Blank ELSE history.shown
  <2> DEFINE sh == IF job.mem.ask = "none" THEN Blank ELSE history.shown
             do == history.doomed \cup job.doomed
  <2>1. history' = [history EXCEPT !.doomed = do, !.before = <<>>, !.shown = sh]
    BY DEF Save
  <2>2. sh \in [Tables -> Rows] /\ do \in SUBSET Stamps
    BY BlankType DEF Typed, HistoryType, JobType
  <2> HIDE DEF sh, do
  <2>3. HistoryType(history)' /\ history'.doomed = do /\ history'.shown = sh
    BY <2>1, <2>2 DEF Typed, HistoryType
  <2> QED BY <2>3 DEF sh, do
<1>4. Keeps
  BY SameStaging, SameCount DEF Keeps, Save
<1> QED BY <1>1, <1>2, <1>3, <1>4, SameCount DEF Control, Save

LEMMA DiesType ==
  ASSUME Typed, Dies
  PROVE  CountType /\ count'.stamp = count.stamp /\ UNCHANGED live
BY Bounds DEF Dies, Typed, CountType

LEMMA KillType ==
  ASSUME Typed, Kill
  PROVE  /\ Control /\ CountType /\ Keeps
         /\ history'.shown = history.shown /\ history'.doomed = history.doomed
<1>1. CountType /\ count'.stamp = count.stamp /\ UNCHANGED live
  BY DiesType DEF Kill
<1>2. JobType(job)'
  BY IdleType, Words DEF Kill, JobType
<1>3. /\ HistoryType(history)'
      /\ history'.shown = history.shown /\ history'.doomed = history.doomed
  BY DEF Kill, Typed, HistoryType
<1>4. Keeps
  BY <1>1, SameStaging DEF Keeps, Kill
<1> QED BY <1>1, <1>2, <1>3, <1>4, SameState DEF Control, Kill

LEMMA AbortType ==
  ASSUME Typed, Abort
  PROVE  /\ Control /\ CountType /\ Thins
         /\ history'.doomed = history.doomed
         /\ \A t \in Tables : history'.shown[t] =
              IF staging'.rows[t] = NoFile THEN NoRows ELSE history.shown[t]
<1>1. CountType /\ count'.stamp = count.stamp /\ UNCHANGED live
  BY DiesType DEF Abort
<1>2. JobType(job)'
  BY IdleType, Words DEF Abort, JobType
<1>3. (st \in Questioning)'
  BY DEF Abort, Typed, JobType
<1>4. Thins
  BY <1>1, KeepMarkedIs DEF Thins, Abort
<1>5. /\ HistoryType(history)' /\ history'.doomed = history.doomed
      /\ \A t \in Tables : history'.shown[t] =
           IF staging'.rows[t] = NoFile THEN NoRows ELSE history.shown[t]
  <2> DEFINE sh == [t \in Tables |-> IF staging'.rows[t] = NoFile THEN NoRows
                                     ELSE history.shown[t]]
  <2>1. history' = [history EXCEPT !.shown = sh]
    BY DEF Abort, Typed, HistoryType
  <2>2. sh \in [Tables -> Rows]
    BY BlankType DEF Typed, HistoryType
  <2>3. \A t \in Tables : sh[t] = IF staging'.rows[t] = NoFile THEN NoRows ELSE history.shown[t]
    OBVIOUS
  <2> HIDE DEF sh
  <2>4. HistoryType(history)' /\ history'.doomed = history.doomed /\ history'.shown = sh
    BY <2>1, <2>2 DEF Typed, HistoryType
  <2> QED BY <2>3, <2>4
<1> QED BY <1>1, <1>2, <1>3, <1>4, <1>5 DEF Control

LEMMA StepTypes ==
  ASSUME Typed, Lists, Next
  PROVE  Control /\ CountType /\ DataStep
<1>1. Thins \/ Keeps => DataStep
  BY DEF DataStep
<1>2. ASSUME SettleAgain \/ Derived \/ QueueEnds \/ Lifecycle \/ PairSettles \/ Mark
             \/ Settles \/ Completes \/ Elsewhere
      PROVE  Control /\ CountType /\ DataStep
  BY <1>2, SettleAgainType, DerivedType, QueueEndsType, LifecycleType, PairSettlesType,
     MarkType, SettlesType, CompletesType, ElsewhereType
<1>3. ASSUME WriteFacts
      PROVE  Control /\ CountType /\ DataStep
  <2>1. job.todo # <<>>
    BY <1>3 DEF WriteFacts, Running, Lists
  <2> QED BY <1>3, <2>1, WriteFactsType
<1>4. ASSUME Approve \/ Check \/ Checks \/ Commit
      PROVE  Control /\ CountType /\ DataStep
  BY <1>4, ApproveType, CheckType, ChecksType, CommitType
<1>5. ASSUME Command \/ Clear \/ Reject \/ Discard \/ Modify \/ Dismiss \/ Save \/ Kill \/ Abort
      PROVE  Control /\ CountType /\ DataStep
  BY <1>1, <1>5, CommandType, ClearType, RejectType, DiscardType, ModifyType, DismissType,
     SaveType, KillType, AbortType
<1> QED BY <1>2, <1>3, <1>4, <1>5 DEF Next

LEMMA DataTypes ==
  ASSUME Typed, DataStep
  PROVE  /\ (live \in [Tables -> Rows])' /\ StagingType(staging)'
         /\ (owed \in [Tables -> Rows])'
<1>1. ASSUME NEW W \in SUBSET Tables, NEW k \in Keys, Lands(W, k)
      PROVE  /\ (live \in [Tables -> Rows])' /\ StagingType(staging)'
             /\ (owed \in [Tables -> Rows])'
  BY <1>1 DEF Lands, Typed, StagingType
<1>2. CASE Thins
  BY <1>2, StillOwedType DEF Thins, Typed, StagingType
<1>3. ASSUME NEW t \in Tables, NEW k \in Keys, Writes(t, k)
      PROVE  /\ (live \in [Tables -> Rows])' /\ StagingType(staging)'
             /\ (owed \in [Tables -> Rows])'
  <2>1. This \in Stamps
    BY <1>3, ThisType DEF Writes
  <2>2. live' = [live EXCEPT ![t] = [live[t] EXCEPT ![k] = This]]
    BY <1>3 DEF Writes
  <2> HIDE DEF This
  <2>3. [live[t] EXCEPT ![k] = This] \in Rows
    BY <2>1 DEF Typed, Rows
  <2>4. live' \in [Tables -> Rows]
    BY <2>2, <2>3 DEF Typed
  <2> QED BY <1>3, <2>4 DEF Writes, Typed, StagingType
<1>4. ASSUME NEW t \in Tables, Row(t) # NoFile, Merges(t)
      PROVE  /\ (live \in [Tables -> Rows])' /\ StagingType(staging)'
             /\ (owed \in [Tables -> Rows])'
  <2>1. staging.rows[t] \in Rows
    BY <1>4 DEF Typed, StagingType, Row
  <2>2. Merged(t) \in Rows
    BY <2>1 DEF Merged, Typed, Rows
  <2>3. live' \in [Tables -> Rows]
    BY <1>4, <2>2 DEF Merges, Typed
  <2> QED BY <1>4, <2>3 DEF Merges, Typed, StagingType
<1>5. CASE Keeps
  BY <1>5 DEF Keeps, Typed, StagingType
<1> QED BY <1>1, <1>2, <1>3, <1>4, <1>5 DEF DataStep

LEMMA TypedStep ==
  ASSUME Typed, Lists, [Next]_vars
  PROVE  Typed'
<1>1. CASE Next
  BY <1>1, StepTypes, DataTypes DEF Typed, Control, CountType
<1>2. CASE UNCHANGED vars
  <2>1. StagingType(staging)' /\ JobType(job)' /\ HistoryType(history)'
    <3>1. StagingType(staging)'
      BY <1>2, SameStaging DEF vars, StagingType
    <3>2. JobType(job)'
      BY <1>2 DEF vars, Typed, JobType
    <3> QED BY <1>2, <3>1, <3>2, SameHistory DEF vars
  <2> QED BY <1>2, <2>1 DEF vars, Typed
<1> QED BY <1>1, <1>2

LEMMA InitTyped == Init => Typed /\ Lists
<1> SUFFICES ASSUME Init PROVE Typed /\ Lists
  OBVIOUS
<1>1. StagingType(staging)
  BY EmptyType DEF Init
<1>2. JobType(job)
  BY IdleType, Words DEF Init
<1>3. count \in [stamp : Stamps, kills : 0..MaxKills]
  <2>1. 0 \in 0..MaxStamp /\ 0 \in 0..MaxKills
    BY Bounds
  <2> QED BY <2>1 DEF Init, Stamps
<1>4. HistoryType(history)
  BY BlankType DEF Init, HistoryType
<1>5. Typed
  BY <1>1, <1>2, <1>3, <1>4, BlankType, NoOneType DEF Init, Typed
<1>6. Lists
  BY IdleIs DEF Init, Lists
<1> QED BY <1>5, <1>6

-----------------------------------------------------------------------------
(* Where each command goes, and what it has left to do.                    *)

LEMMA QueueGoes ==
  ASSUME Typed, Lists, SettleAgain \/ Derived
  PROVE  /\ job'.pc = "queue" /\ job'.todo = Tail(job.todo) /\ job'.reply = job.reply
         /\ job'.doomed = job.doomed
         /\ \/ job'.kept = job.kept
            \/ job'.kept = Append(job.kept, Head(job.todo)) /\ job'.mem = job.mem
<1>1. Tail(job.todo) \in Seq(Things) /\ job.mem \in Questioning /\ job.pc = "queue"
  BY QueueTail DEF SettleAgain, Derived, Running, Typed, JobType
<1>2. \/ Goto("queue", [job.mem EXCEPT !.ask = "settle"], Tail(job.todo))
      \/ Goto("queue", job.mem, Tail(job.todo))
      \/ job' = [job EXCEPT !.todo = Tail(@), !.kept = Append(@, Head(job.todo))]
  BY DEF SettleAgain, Derived
<1>3. [job.mem EXCEPT !.ask = "settle"] \in Questioning
  BY <1>1, MemType, Words
<1>4. CASE Goto("queue", [job.mem EXCEPT !.ask = "settle"], Tail(job.todo))
  BY <1>1, <1>3, <1>4, GotoType, Words
<1>5. CASE Goto("queue", job.mem, Tail(job.todo))
  BY <1>1, <1>5, GotoType, Words
<1>6. CASE job' = [job EXCEPT !.todo = Tail(@), !.kept = Append(@, Head(job.todo))]
  BY <1>1, <1>6 DEF Typed, JobType
<1> QED BY <1>2, <1>4, <1>5, <1>6

LEMMA QueueEndsGoes ==
  ASSUME Typed, QueueEnds
  PROVE  /\ job'.pc = IF job'.mem.ask = "none" THEN "loop" ELSE "save"
         /\ job'.mem.ask = IF job.kept # <<>> THEN "escalation" ELSE job.mem.ask
         /\ job'.mem.queue \in {job.kept, <<>>}
         /\ job'.kept = <<>> /\ job'.reply = job.reply /\ job'.doomed = job.doomed
         /\ job'.todo = job.todo
<1> DEFINE ask == IF job.kept # <<>> THEN "escalation" ELSE job.mem.ask
<1>1. PICK kept \in {job.kept, <<>>} :
        job' = [job EXCEPT !.pc = IF ask = "none" THEN "loop" ELSE "save",
                      !.mem.ask = ask, !.mem.queue = kept, !.kept = <<>>]
  BY DEF QueueEnds
<1> HIDE DEF ask
<1>2. /\ job'.pc = IF ask = "none" THEN "loop" ELSE "save"
      /\ job'.kept = <<>> /\ job'.reply = job.reply /\ job'.doomed = job.doomed
      /\ job'.todo = job.todo
      /\ job'.mem = [job.mem EXCEPT !.ask = ask, !.queue = kept]
  BY <1>1 DEF Typed, JobType
<1>3. job'.mem.ask = ask /\ job'.mem.queue = kept
  BY <1>2 DEF Typed, JobType, Questioning
<1> QED BY <1>2, <1>3 DEF ask

LEMMA LoopGoes ==
  ASSUME Typed, Lifecycle \/ PairSettles \/ Mark \/ Settles \/ Completes \/ Elsewhere
  PROVE  /\ job'.pc \in {"loop", "mark", "save"} /\ job'.reply = job.reply
         /\ job'.doomed = job.doomed /\ job'.mem.queue = job.mem.queue
         /\ job.pc \in {"loop", "mark"}
<1>1. \E pc \in {"loop", "mark", "save"}, mem \in Questioning, todo \in Seq(Things) :
        Goto(pc, mem, todo) /\ mem.queue = job.mem.queue
  <2>1. /\ job.mem \in Questioning
        /\ [job.mem EXCEPT !.at = "past", !.ask = "settle"] \in Questioning
        /\ [job.mem EXCEPT !.ask = "escalation"] \in Questioning
        /\ [job.mem EXCEPT !.at = "past"] \in Questioning
        /\ [job.mem EXCEPT !.at = "next", !.ask = "chapter"] \in Questioning
    BY MemType, Words DEF Typed, JobType
  <2>2. /\ [job.mem EXCEPT !.at = "past", !.ask = "settle"].queue = job.mem.queue
        /\ [job.mem EXCEPT !.ask = "escalation"].queue = job.mem.queue
        /\ [job.mem EXCEPT !.at = "past"].queue = job.mem.queue
        /\ [job.mem EXCEPT !.at = "next", !.ask = "chapter"].queue = job.mem.queue
    BY DEF Typed, JobType, Questioning
  <2>3. <<"settle">> \in Seq(Things) /\ <<>> \in Seq(Things)
    BY Literals
  <2>4. CASE Lifecycle \/ Mark \/ Completes \/ Elsewhere
    BY <2>1, <2>2, <2>3, <2>4 DEF Lifecycle, Mark, Completes, Elsewhere
  <2>5. CASE PairSettles
    <3>1. \/ Goto("mark", [job.mem EXCEPT !.at = "past", !.ask = "settle"], <<>>)
          \/ Goto("loop", job.mem, <<>>)
          \/ Goto("save", [job.mem EXCEPT !.ask = "escalation"], <<>>)
      BY <2>5 DEF PairSettles
    <3> QED BY <2>1, <2>2, <2>3, <3>1
  <2>6. CASE Settles
    <3>1. \/ Goto("loop", [job.mem EXCEPT !.at = "past"], <<>>)
          \/ Goto("loop", job.mem, <<>>)
          \/ Goto("save", [job.mem EXCEPT !.ask = "escalation"], <<>>)
      BY <2>6 DEF Settles
    <3> QED BY <2>1, <2>2, <2>3, <3>1
  <2> QED BY <2>4, <2>5, <2>6
<1>2. PICK pc \in {"loop", "mark", "save"}, mem \in Questioning, todo \in Seq(Things) :
        Goto(pc, mem, todo) /\ mem.queue = job.mem.queue
  BY <1>1
<1>3. /\ job'.pc = pc /\ job'.mem = mem /\ job'.reply = job.reply /\ job'.doomed = job.doomed
  BY <1>2, GotoType, Words
<1>4. job.pc \in {"loop", "mark"}
  BY DEF Lifecycle, PairSettles, Mark, Settles, Completes, Elsewhere, Running
<1> QED BY <1>2, <1>3, <1>4

LEMMA ApproveGoes ==
  ASSUME Typed, Approve
  PROVE  /\ job'.pc = "check" /\ job'.mem.ask = "none" /\ job'.reply = "" /\ job'.doomed = {}
         /\ job'.mem.queue = st.queue /\ job'.kept = <<>>
<1> DEFINE mem == [st EXCEPT !.ask = "none"]
<1>1. mem.ask = "none" /\ mem.queue = st.queue
  BY DEF Typed, Questioning
<1>2. job' = [Idle("") EXCEPT !.pc = "check", !.mem = mem,
                              !.todo = <<"props", "counters">>, !.ready = facts]
  BY DEF Approve
<1> HIDE DEF mem
<1>3. /\ job'.pc = "check" /\ job'.mem = mem /\ job'.reply = ""
      /\ job'.doomed = {} /\ job'.kept = <<>>
  BY <1>2 DEF Idle
<1> QED BY <1>1, <1>3

LEMMA DismissGoes ==
  ASSUME Typed, Dismiss
  PROVE  /\ job'.pc = "save" /\ job'.mem.ask = "none" /\ job'.reply = "" /\ job'.doomed = {}
         /\ job'.mem.queue = st.queue /\ job'.kept = <<>>
<1> DEFINE mem == [st EXCEPT !.ask = "none"]
<1>1. mem.ask = "none" /\ mem.queue = st.queue
  BY DEF Typed, Questioning
<1>2. job' = [Idle("") EXCEPT !.pc = "save", !.mem = mem]
  BY DEF Dismiss
<1> HIDE DEF mem
<1>3. /\ job'.pc = "save" /\ job'.mem = mem /\ job'.reply = ""
      /\ job'.doomed = {} /\ job'.kept = <<>>
  BY <1>2 DEF Idle
<1> QED BY <1>1, <1>3

LEMMA CommandGoes ==
  ASSUME Command
  PROVE  /\ job'.pc = "queue" /\ job'.mem = st /\ job'.todo = st.queue /\ job'.kept = <<>>
         /\ job'.reply = "" /\ job'.doomed = {}
BY DEF Command, Idle

LEMMA CheckGoes ==
  ASSUME Typed, Check
  PROVE  /\ job.pc = "check" /\ job.todo # <<>> /\ UNCHANGED <<live, staging, facts, history>>
         /\ \/ /\ job'.pc = "check" /\ job'.mem = job.mem /\ job'.reply = job.reply
               /\ job'.kept = job.kept /\ job'.doomed = job.doomed
            \/ job' = Idle("refused")
<1>1. UNCHANGED facts
  BY DEF Check, Checked
<1>2. \/ \E d, log : job' = [job EXCEPT !.todo = Tail(@), !.ready[d] = log]
      \/ job' = Idle("refused")
  BY DEF Check
<1>3. ASSUME NEW d, NEW log, job' = [job EXCEPT !.todo = Tail(@), !.ready[d] = log]
      PROVE  /\ job'.pc = job.pc /\ job'.mem = job.mem /\ job'.reply = job.reply
             /\ job'.kept = job.kept /\ job'.doomed = job.doomed
  BY <1>3 DEF Typed, JobType
<1>4. job.pc = "check" /\ job.todo # <<>> /\ UNCHANGED <<live, staging, history>>
  BY DEF Check, Running
<1> QED BY <1>1, <1>2, <1>3, <1>4

LEMMA ChecksGoes ==
  ASSUME Typed, Checks
  PROVE  /\ job.pc = "check" /\ job'.pc = "facts" /\ job'.todo = <<"props", "counters">>
         /\ job'.mem = job.mem
         /\ job'.reply = job.reply /\ job'.kept = job.kept /\ job'.doomed = job.doomed
<1>1. <<"props", "counters">> \in Seq(Things) /\ job.mem \in Questioning
  BY Literals DEF Typed, JobType
<1> QED BY <1>1, GotoType, Words DEF Checks, Running

LEMMA WriteFactsGoes ==
  ASSUME Typed, Lists, WriteFacts
  PROVE  /\ job.pc = "facts" /\ job'.mem = job.mem
         /\ job'.reply = job.reply /\ job'.kept = job.kept /\ job'.doomed = job.doomed
         /\ \/ job'.pc = "commit" /\ job'.todo = ToCommit
            \/ job'.pc = "facts" /\ job'.todo # <<>>
<1>1. job.pc = "facts" /\ job.todo # <<>> /\ job.todo \in Seq(Things) /\ job.mem \in Questioning
  BY DEF WriteFacts, Running, Lists, Typed, JobType
<1>2. CASE Len(job.todo) = 1
  <2>1. job' = [job EXCEPT !.pc = "commit", !.todo = ToCommit, !.ready = NoOps]
    BY <1>2 DEF WriteFacts
  <2> QED BY <1>1, <2>1 DEF Typed, JobType
<1>3. CASE Len(job.todo) # 1
  <2>1. Goto("facts", job.mem, Tail(job.todo))
    BY <1>3 DEF WriteFacts
  <2>2. Tail(job.todo) \in Seq(Things) /\ Tail(job.todo) # <<>>
    <3>1. Len(job.todo) \in Nat /\ Len(job.todo) # 0
      BY <1>1
    <3>2. Tail(job.todo) \in Seq(Things) /\ Len(Tail(job.todo)) = Len(job.todo) - 1
      BY <1>1
    <3>3. Len(<<>>) = 0
      OBVIOUS
    <3>4. Len(Tail(job.todo)) # Len(<<>>)
      BY <1>3, <3>1, <3>2, <3>3
    <3> QED BY <3>2, <3>4
  <2> QED BY <1>1, <2>1, <2>2, GotoType, Words
<1> QED BY <1>2, <1>3

LEMMA CommitGoes ==
  ASSUME Typed, Commit
  PROVE  /\ job.pc = "commit" /\ job'.pc = "commit" /\ job'.todo = Tail(job.todo)
         /\ job.todo \in Seq(Things) /\ job.todo # <<>>
         /\ job'.mem = job.mem
         /\ job'.reply = job.reply /\ job'.kept = job.kept /\ job'.doomed = job.doomed
<1>1. job.todo \in Seq(Things) /\ job.todo # <<>> /\ job.mem \in Questioning /\ job.pc = "commit"
  BY DEF Commit, Running, Typed, JobType
<1>2. Tail(job.todo) \in Seq(Things)
  BY <1>1, TailIs
<1> QED BY <1>1, <1>2, GotoType, Words DEF Commit

LEMMA ClearGoes ==
  ASSUME Typed, Clear
  PROVE  /\ job.pc = "commit" /\ job.todo = <<>> /\ job'.pc = "save" /\ job'.mem = job.mem
         /\ job'.reply = "approved" /\ job'.kept = job.kept /\ job'.doomed = job.doomed
BY DEF Clear, Running, Typed, JobType

LEMMA DecideGoes ==
  ASSUME Typed, NEW pc, NEW todo, NEW queue, Decide(pc, todo, queue)
  PROVE  /\ job'.pc = pc /\ job'.todo = todo /\ job'.mem.ask = "none" /\ job'.mem.queue = queue
         /\ job'.reply = "" /\ job'.doomed = Unwanted
<1> DEFINE mem == [at |-> Rewound, ask |-> "none", queue |-> queue]
<1>1. job' = [Idle("") EXCEPT !.pc = pc, !.todo = todo, !.kept = todo,
                !.mem = mem, !.doomed = Unwanted]
  BY DEF Decide
<1>2. mem.ask = "none" /\ mem.queue = queue
  OBVIOUS
<1> HIDE DEF mem
<1>3. /\ job'.pc = pc /\ job'.todo = todo /\ job'.mem = mem
      /\ job'.reply = "" /\ job'.doomed = Unwanted
  BY <1>1 DEF Idle
<1> QED BY <1>2, <1>3

LEMMA DiscardGoes ==
  ASSUME Typed, Discard
  PROVE  /\ job.pc = "discard" /\ job'.mem = job.mem
         /\ job'.reply = job.reply /\ job'.kept = job.kept /\ job'.doomed = job.doomed
         /\ \/ job.todo = <<>> /\ job'.pc = "save"
            \/ job.todo # <<>> /\ job'.pc = "discard" /\ job'.todo = Tail(job.todo)
<1>1. job.todo \in Seq(Things) /\ job.mem \in Questioning /\ job.pc = "discard"
  BY DEF Discard, Running, Typed, JobType
<1>2. job.todo # <<>> => Tail(job.todo) \in Seq(Things)
  BY <1>1, TailIs
<1>3. CASE job.todo = <<>>
  <2>1. Goto("save", job.mem, <<>>)
    BY <1>3 DEF Discard
  <2> QED BY <1>1, <1>3, <2>1, GotoType, Words, EmptyThings
<1>4. CASE job.todo # <<>>
  <2>1. Goto("discard", job.mem, Tail(job.todo))
    BY <1>4 DEF Discard
  <2> QED BY <1>1, <1>2, <1>4, <2>1, GotoType, Words
<1> QED BY <1>3, <1>4

LEMMA EndGoes ==
  ASSUME Save \/ Kill \/ Abort
  PROVE  /\ job'.pc = "idle" /\ job'.mem = NoOne /\ job'.reply \in {"", "aborted"}
         /\ job'.doomed = {} /\ job'.todo = <<>> /\ job'.kept = <<>> /\ job.pc # "idle"
<1>1. (job' = Idle("") \/ job' = Idle("aborted")) /\ job.pc # "idle"
  BY DEF Save, Kill, Abort, Dies
<1>2. \A reply : /\ Idle(reply).pc = "idle" /\ Idle(reply).mem = NoOne
                  /\ Idle(reply).doomed = {} /\ Idle(reply).todo = <<>>
                  /\ Idle(reply).kept = <<>> /\ Idle(reply).reply = reply
  BY DEF Idle
<1>3. CASE job' = Idle("")
  BY <1>1, <1>2, <1>3
<1>4. CASE job' = Idle("aborted")
  BY <1>1, <1>2, <1>4
<1> QED BY <1>1, <1>3, <1>4

LEMMA ListsStep ==
  ASSUME Typed, Lists, [Next]_vars
  PROVE  Lists'
<1>1. CASE Command
  BY <1>1, CommandGoes, EmptyThings DEF Lists, Typed, Questioning
<1>2. CASE SettleAgain \/ Derived
  <2>1. job.pc = "queue" /\ job.todo # <<>>
    BY <1>2 DEF SettleAgain, Derived, Running
  <2>2. /\ Tail(job.todo) \in Seq(Entries) /\ Append(job.kept, Head(job.todo)) \in Seq(Entries)
        /\ job.kept \in Seq(Entries)
    BY <2>1, QueueTail DEF Lists
  <2> QED BY <1>2, <2>2, QueueGoes DEF Lists
<1>3. CASE QueueEnds
  BY <1>3, QueueEndsGoes DEF Lists
<1>4. CASE Lifecycle \/ PairSettles \/ Mark \/ Settles \/ Completes \/ Elsewhere
  BY <1>4, LoopGoes DEF Lists
<1>5. CASE Approve
  BY <1>5, ApproveGoes DEF Lists
<1>6. CASE Check
  BY <1>6, CheckGoes, IdleIs DEF Lists
<1>7. CASE Checks
  <2>1. <<"props", "counters">> # <<>>
    OBVIOUS
  <2> QED BY <1>7, <2>1, ChecksGoes DEF Lists
<1>8. CASE WriteFacts
  <2>1. UNCHANGED staging
    BY <1>8 DEF WriteFacts
  <2>2. ToSet(ToCommit) = StagedTargets \cap Targets
    BY ListedIs DEF ToCommit
  <2>3. \A t \in Tables : t \in ToSet(ToCommit) => Row(t) # NoFile
    BY <2>2 DEF StagedTargets, Staged, Tables, Row
  <2> QED BY <1>8, <2>1, <2>3, WriteFactsGoes DEF Lists, Row
<1>9. CASE Commit
  <2>1. ToSet(Tail(job.todo)) \subseteq ToSet(job.todo)
    BY <1>9, CommitGoes, TailIs
  <2>2. staging'.rows = staging.rows
    BY <1>9, CommitType DEF Merges, Keeps
  <2> QED BY <1>9, <2>1, <2>2, CommitGoes DEF Lists, Row
<1>10. CASE Clear
  BY <1>10, ClearGoes DEF Lists
<1>11. CASE Reject
  <2>1. PICK pc \in {"save", "discard"} : Decide(pc, Discarded, OwnRedo)
    BY <1>11 DEF Reject
  <2> QED BY <2>1, DecideGoes DEF Lists
<1>12. CASE Discard
  BY <1>12, DiscardGoes DEF Lists
<1>13. CASE Modify
  <2>1. job'.pc = "save"
    BY <1>13, DecideGoes DEF Modify
  <2> QED BY <2>1 DEF Lists
<1>14. CASE Dismiss
  BY <1>14, DismissGoes DEF Lists
<1>15. CASE Save \/ Kill \/ Abort
  BY <1>15, EndGoes DEF Lists
<1>16. CASE UNCHANGED vars
  BY <1>16 DEF vars, Lists, Row
<1> QED BY <1>1, <1>2, <1>3, <1>4, <1>5, <1>6, <1>7, <1>8, <1>9, <1>10, <1>11, <1>12, <1>13,
           <1>14, <1>15, <1>16 DEF Next

-----------------------------------------------------------------------------
(* A refusal changed nothing: while the operations are checked in memory   *)
(* everything is as the approval found it.                                 *)

Clean ==
  /\ job.pc = "check" \/ job.reply = "refused" => history.before = <<facts, live, staging>>
  /\ job.reply = "refused" => job.pc = "idle"

LEMMA CleanStep ==
  ASSUME Typed, Lists, Clean, [Next]_vars
  PROVE  Clean'
<1>1. CASE Approve
  <2>1. history' = [history EXCEPT !.before = <<facts, live, staging>>,
                                   !.asked = @ \cup {staging.ops}]
    BY <1>1 DEF Approve
  <2>2. history'.before = <<facts, live, staging>>
    BY <2>1 DEF Typed, HistoryType
  <2>3. UNCHANGED <<facts, live, staging>>
    BY <1>1 DEF Approve
  <2> QED BY <1>1, <2>2, <2>3, ApproveGoes DEF Clean
<1>2. CASE Check
  BY <1>2, CheckGoes, IdleIs DEF Clean
<1>3. ASSUME job'.pc # "check", job'.reply # "refused"
      PROVE  Clean'
  BY <1>3 DEF Clean
<1>4. CASE Command
  BY <1>3, <1>4, CommandGoes
<1>5. CASE SettleAgain \/ Derived
  <2>1. job.pc = "queue"
    BY <1>5 DEF SettleAgain, Derived, Running
  <2> QED BY <1>3, <1>5, <2>1, QueueGoes DEF Clean
<1>6. CASE QueueEnds
  <2>1. job.pc = "queue"
    BY <1>6 DEF QueueEnds, Running
  <2> QED BY <1>3, <1>6, <2>1, QueueEndsGoes DEF Clean
<1>7. CASE Lifecycle \/ PairSettles \/ Mark \/ Settles \/ Completes \/ Elsewhere
  BY <1>3, <1>7, LoopGoes DEF Clean
<1>8. CASE Checks \/ WriteFacts \/ Commit \/ Clear
  BY <1>3, <1>8, ChecksGoes, WriteFactsGoes, CommitGoes, ClearGoes DEF Clean
<1>9. CASE Reject
  <2>1. PICK pc \in {"save", "discard"} : Decide(pc, Discarded, OwnRedo)
    BY <1>9 DEF Reject
  <2> QED BY <1>3, <2>1, DecideGoes
<1>10. CASE Discard
  BY <1>3, <1>10, DiscardGoes DEF Clean
<1>11. CASE Modify
  <2>1. job'.pc = "save" /\ job'.reply = ""
    BY <1>11, DecideGoes DEF Modify
  <2> QED BY <1>3, <2>1
<1>12. CASE Dismiss
  BY <1>3, <1>12, DismissGoes
<1>13. CASE Save \/ Kill \/ Abort
  BY <1>3, <1>13, EndGoes
<1>14. CASE UNCHANGED vars
  BY <1>14 DEF vars, Clean
<1> QED BY <1>1, <1>2, <1>4, <1>5, <1>6, <1>7, <1>8, <1>9, <1>10, <1>11, <1>12, <1>13, <1>14
        DEF Next

-----------------------------------------------------------------------------
(* What is rejected is out of staging before the answer is saved.          *)

Apart ==
  /\ \A t \in Tables, k \in Keys :
       /\ live[t][k] <= count.stamp /\ Row(t)[k] <= count.stamp
       /\ live[t][k] \notin history.doomed \cup job.doomed
       /\ Row(t)[k] \notin history.doomed
  /\ \A d \in history.doomed \cup job.doomed : d <= count.stamp
Rejecting ==
  /\ job.doomed # {} => job.pc \in {"discard", "save"}
  /\ job.pc = "save" /\ job.doomed # {} => \A t \in Tables : Row(t) = NoFile
  /\ job.pc = "discard" => \A t \in Tables : Row(t) # NoFile => t \in ToSet(job.todo)

LEMMA Numbers ==
  ASSUME Typed
  PROVE  /\ count.stamp \in Nat /\ This = count.stamp + 1
         /\ \A t \in Tables, k \in Keys : live[t][k] \in Nat /\ Row(t)[k] \in Nat \cup {-1}
         /\ \A d \in history.doomed \cup job.doomed : d \in Nat
<1>1. Stamps \subseteq Nat
  BY Bounds DEF Stamps
<1>2. count.stamp \in Nat /\ This = count.stamp + 1
  BY <1>1 DEF Typed, This
<1>3. \A t \in Tables, k \in Keys : live[t][k] \in Nat
  BY <1>1 DEF Typed, Rows
<1>4. \A t \in Tables, k \in Keys : Row(t)[k] \in Nat \cup {-1}
  <2> SUFFICES ASSUME NEW t \in Tables, NEW k \in Keys PROVE Row(t)[k] \in Nat \cup {-1}
    OBVIOUS
  <2>1. Row(t) \in Rows \/ Row(t) = NoFile
    BY DEF Typed, StagingType, Row
  <2> QED BY <1>1, <2>1 DEF Rows, NoFile
<1>5. \A d \in history.doomed \cup job.doomed : d \in Nat
  BY <1>1 DEF Typed, HistoryType, JobType
<1> QED BY <1>2, <1>3, <1>4, <1>5

LEMMA LandedRows ==
  ASSUME Typed, NEW W \in SUBSET Tables, NEW w \in Keys, Lands(W, w),
         NEW t \in Tables, NEW k \in Keys
  PROVE  \/ Row(t)'[k] = Row(t)[k] \/ Row(t)'[k] = live[t][k] \/ Row(t)'[k] = This
<1>1. Row(t)' = IF t \in W THEN [Base(staging, t) EXCEPT ![w] = This] ELSE Row(t)
  BY DEF Lands, Row
<1>2. CASE t \in W
  <2>1. Base(staging, t) \in Rows
    BY DEF Base, Typed, StagingType
  <2>2. Base(staging, t) = live[t] \/ Base(staging, t) = Row(t)
    BY DEF Base, Row
  <2>3. Row(t)'[k] = IF k = w THEN This ELSE Base(staging, t)[k]
    BY <1>1, <1>2, <2>1 DEF Rows
  <2> QED BY <2>2, <2>3
<1>3. CASE t \notin W
  BY <1>1, <1>3
<1> QED BY <1>2, <1>3

LEMMA ApartData ==
  ASSUME Typed, Apart, Rejecting, DataStep,
         history'.doomed = history.doomed, job'.doomed \in {job.doomed, {}}
  PROVE  Apart'
<1> USE Numbers
<1>1. ASSUME NEW W \in SUBSET Tables, NEW k \in Keys, Lands(W, k)
      PROVE  Apart'
  <2>1. live' = live /\ count'.stamp = count.stamp + 1
    BY <1>1 DEF Lands, Typed
  <2>2. \A t \in Tables, l \in Keys :
          Row(t)'[l] = Row(t)[l] \/ Row(t)'[l] = live[t][l] \/ Row(t)'[l] = This
    BY <1>1, LandedRows
  <2> QED BY <2>1, <2>2 DEF Apart
<1>2. CASE Thins
  <2>1. \A t \in Tables, k \in Keys : Row(t)'[k] = Row(t)[k] \/ Row(t)'[k] = -1
    BY <1>2 DEF Thins, Row, NoFile
  <2>2. live' = live /\ count'.stamp = count.stamp
    BY <1>2 DEF Thins
  <2> QED BY <2>1, <2>2 DEF Apart
<1>3. ASSUME NEW t \in Tables, NEW k \in Keys, Writes(t, k)
      PROVE  Apart'
  <2>1. staging' = staging /\ count'.stamp = count.stamp + 1
    BY <1>3 DEF Writes, Typed
  <2>2. \A u \in Tables, l \in Keys : live'[u][l] = live[u][l] \/ live'[u][l] = This
    BY <1>3 DEF Writes, Typed, Rows
  <2> QED BY <2>1, <2>2 DEF Apart, Row
<1>4. ASSUME NEW t \in Tables, Row(t) # NoFile, job.pc = "commit", Merges(t)
      PROVE  Apart'
  <2>1. job.doomed = {}
    BY <1>4 DEF Rejecting
  <2>2. \A u \in Tables, l \in Keys : live'[u][l] = live[u][l] \/ live'[u][l] = Row(u)[l]
    <3>1. live' = [live EXCEPT ![t] = Merged(t)]
      BY <1>4 DEF Merges
    <3>2. \A l \in Keys : Merged(t)[l] = live[t][l] \/ Merged(t)[l] = Row(t)[l]
      BY DEF Merged, Row
    <3> HIDE DEF Merged
    <3> QED BY <3>1, <3>2 DEF Typed
  <2>3. staging'.rows = staging.rows /\ count' = count
    BY <1>4 DEF Merges
  <2> QED BY <2>1, <2>2, <2>3 DEF Apart, Row
<1>5. CASE Keeps
  BY <1>5 DEF Keeps, Apart, Row
<1> QED BY <1>1, <1>2, <1>3, <1>4, <1>5 DEF DataStep

LEMMA UnwantedIs ==
  ASSUME Typed, Apart
  PROVE  /\ \A t \in Tables, k \in Keys : live[t][k] \notin Unwanted
         /\ \A d \in Unwanted : d <= count.stamp
         /\ (\A t \in Tables : Row(t) = NoFile) => Unwanted = {}
<1>1. \A t \in Tables, k \in Keys : live[t][k] \notin Unwanted
  BY DEF Unwanted
<1>2. \A d \in Unwanted : \E t \in Tables, k \in Keys : d = Row(t)[k] /\ d # -1
  BY DEF Unwanted, Row
<1>3. \A d \in Unwanted : d <= count.stamp
  BY <1>2 DEF Apart
<1>4. (\A t \in Tables : Row(t) = NoFile) => Unwanted = {}
  BY <1>2 DEF NoFile
<1> QED BY <1>1, <1>3, <1>4

LEMMA DecideApart ==
  ASSUME Typed, Apart, Keeps \/ Thins, UNCHANGED live,
         history'.doomed = history.doomed, job'.doomed = Unwanted
  PROVE  Apart'
<1>1. count'.stamp = count.stamp
  BY DEF Keeps, Thins
<1>2. \A t \in Tables, k \in Keys : Row(t)'[k] = Row(t)[k] \/ Row(t)'[k] = -1
  BY DEF Keeps, Thins, Row, NoFile
<1> QED BY <1>1, <1>2, Numbers, UnwantedIs DEF Apart

LEMMA SaveApart ==
  ASSUME Typed, Apart, Rejecting, Save
  PROVE  Apart'
<1>1. /\ Keeps /\ history'.doomed = history.doomed \cup job.doomed
      /\ job'.doomed = {} /\ job.pc = "save"
  BY SaveType, EndGoes DEF Save
<1>2. count'.stamp = count.stamp /\ live' = live /\ \A t \in Tables : Row(t)' = Row(t)
  BY <1>1 DEF Keeps, Row
<1>3. \A t \in Tables, k \in Keys : Row(t)[k] \notin job.doomed
  <2> SUFFICES ASSUME NEW t \in Tables, NEW k \in Keys, job.doomed # {}
               PROVE  Row(t)[k] \notin job.doomed
    OBVIOUS
  <2>1. Row(t)[k] = -1
    BY <1>1 DEF Rejecting, NoFile
  <2> QED BY <2>1, Numbers
<1> QED BY <1>1, <1>2, <1>3 DEF Apart

\* What an action other than an answer and its save does to the doomed rows.
LEMMA OthersDoom ==
  ASSUME Typed, Lists, Next, ~Save, ~Reject, ~Modify
  PROVE  history'.doomed = history.doomed /\ job'.doomed \in {job.doomed, {}}
<1>1. CASE Command
  BY <1>1, CommandGoes DEF Command
<1>2. CASE SettleAgain \/ Derived
  <2>1. UNCHANGED history \/ \E rows \in [Tables -> Rows] : Asks(rows)
    <3>1. CASE SettleAgain
      <4>1. UNCHANGED history \/ Asks(owed')
        BY <3>1 DEF SettleAgain
      <4>2. owed' \in [Tables -> Rows]
        BY <3>1, SettleAgainType, DataTypes
      <4> QED BY <4>1, <4>2
    <3> QED BY <1>2, <3>1 DEF Derived
  <2> QED BY <1>2, <2>1, QueueGoes, AsksType
<1>3. CASE QueueEnds
  BY <1>3, QueueEndsGoes DEF QueueEnds
<1>4. CASE Lifecycle \/ PairSettles \/ Mark \/ Settles \/ Completes \/ Elsewhere
  <2>1. UNCHANGED history \/ \E rows \in [Tables -> Rows] : Asks(rows)
    <3>1. CASE PairSettles
      <4>1. UNCHANGED history \/ Asks(owed')
        BY <3>1 DEF PairSettles
      <4>2. owed' \in [Tables -> Rows]
        BY <3>1, PairSettlesType, DataTypes
      <4> QED BY <4>1, <4>2
    <3>2. CASE Completes
      BY <3>2 DEF Completes, Typed
    <3> QED BY <1>4, <3>1, <3>2 DEF Lifecycle, Mark, Settles, Elsewhere
  <2> QED BY <1>4, <2>1, LoopGoes, AsksType
<1>5. CASE Approve
  <2>1. history' = [history EXCEPT !.before = <<facts, live, staging>>,
                                   !.asked = @ \cup {staging.ops}]
    BY <1>5 DEF Approve
  <2>2. history'.doomed = history.doomed
    BY <2>1 DEF Typed, HistoryType
  <2> QED BY <1>5, <2>2, ApproveGoes
<1>6. CASE Check
  BY <1>6, CheckGoes, IdleIs
<1>7. CASE Checks \/ WriteFacts \/ Commit \/ Clear
  BY <1>7, ChecksGoes, WriteFactsGoes, CommitGoes, ClearGoes DEF Checks, WriteFacts, Commit, Clear
<1>8. CASE Discard
  BY <1>8, DiscardGoes DEF Discard
<1>9. CASE Dismiss
  BY <1>9, DismissGoes DEF Dismiss
<1>10. CASE Kill
  BY <1>10, KillType, EndGoes
<1>11. CASE Abort
  BY <1>11, AbortType, EndGoes
<1> QED BY <1>1, <1>2, <1>3, <1>4, <1>5, <1>6, <1>7, <1>8, <1>9, <1>10, <1>11 DEF Next

LEMMA ApartStep ==
  ASSUME Typed, Lists, Apart, Rejecting, [Next]_vars
  PROVE  Apart'
<1>1. CASE Save
  BY <1>1, SaveApart
<1>2. CASE Reject
  <2>1. PICK pc \in {"save", "discard"} : Decide(pc, Discarded, OwnRedo)
    BY <1>2 DEF Reject
  <2>2. Discarded \in Seq(Things) /\ pc \in Pcs
    BY ListedIs, Words DEF Discarded
  <2>3. history'.doomed = history.doomed /\ job'.doomed = Unwanted
    BY <2>1, <2>2, DecideType, DecideGoes, RedoType
  <2> QED BY <1>2, <2>3, RejectType, DecideApart DEF Keeps
<1>3. CASE Modify
  <2>1. Decide("save", <<>>, Propagated(OwnRedo))
    BY <1>3 DEF Modify
  <2>2. history'.doomed = history.doomed /\ job'.doomed = Unwanted
    BY <2>1, DecideType, DecideGoes, RedoType, Words, EmptyThings
  <2> QED BY <1>3, <2>2, ModifyType, DecideApart DEF Thins
<1>4. CASE Next /\ ~Save /\ ~Reject /\ ~Modify
  BY <1>4, StepTypes, OthersDoom, ApartData
<1>5. CASE UNCHANGED vars
  BY <1>5 DEF vars, Apart, Row
<1> QED BY <1>1, <1>2, <1>3, <1>4, <1>5

LEMMA RejectingStep ==
  ASSUME Typed, Lists, Apart, Rejecting, [Next]_vars
  PROVE  Rejecting'
<1>1. ASSUME job'.doomed = {}, job'.pc # "discard"
      PROVE  Rejecting'
  BY <1>1 DEF Rejecting
<1>2. CASE Command
  BY <1>1, <1>2, CommandGoes
<1>3. CASE SettleAgain \/ Derived
  <2>1. job.pc = "queue"
    BY <1>3 DEF SettleAgain, Derived, Running
  <2> QED BY <1>1, <1>3, <2>1, QueueGoes DEF Rejecting
<1>4. CASE QueueEnds
  <2>1. job.pc = "queue"
    BY <1>4 DEF QueueEnds, Running
  <2> QED BY <1>1, <1>4, <2>1, QueueEndsGoes DEF Rejecting
<1>5. CASE Lifecycle \/ PairSettles \/ Mark \/ Settles \/ Completes \/ Elsewhere
  BY <1>1, <1>5, LoopGoes DEF Rejecting
<1>6. CASE Approve
  BY <1>1, <1>6, ApproveGoes
<1>7. CASE Check
  BY <1>1, <1>7, CheckGoes, IdleIs DEF Rejecting
<1>8. CASE Checks \/ WriteFacts \/ Commit \/ Clear
  BY <1>1, <1>8, ChecksGoes, WriteFactsGoes, CommitGoes, ClearGoes DEF Rejecting
<1>9. CASE Reject
  <2> DEFINE pc == IF Discarded = <<>> THEN "save" ELSE "discard"
  <2>1. Decide(pc, Discarded, OwnRedo) /\ UNCHANGED staging
    BY <1>9 DEF Reject
  <2>2. job'.pc = pc /\ job'.todo = Discarded /\ job'.doomed = Unwanted
    BY <2>1, DecideGoes
  <2>3. \A t \in Tables : Row(t) # NoFile => t \in ToSet(Discarded)
    <3>1. ToSet(Discarded) = StagedTargets \cap Targets
      BY ListedIs DEF Discarded
    <3> QED BY <3>1 DEF StagedTargets, Staged, Targets, Tables, Row
  <2>4. Discarded = <<>> => \A t \in Tables : Row(t) = NoFile
    BY <2>3, NoThings
  <2> QED BY <2>1, <2>2, <2>3, <2>4 DEF Rejecting, Row
<1>10. CASE Discard
  <2>1. Thins /\ (job.todo # <<>> /\ Head(job.todo) \in Tables => staging'.rows[Head(job.todo)] = NoFile)
    BY <1>10, DiscardIs
  <2>2. \A t \in Tables : Row(t)' # NoFile => Row(t) # NoFile
    BY <2>1 DEF Thins, Row
  <2>3. /\ job.pc = "discard" /\ job'.doomed = job.doomed
        /\ \/ job.todo = <<>> /\ job'.pc = "save"
           \/ job.todo # <<>> /\ job'.pc = "discard" /\ job'.todo = Tail(job.todo)
    BY <1>10, DiscardGoes
  <2>4. CASE job.todo = <<>> /\ job'.pc = "save"
    <3>1. \A t \in Tables : Row(t) = NoFile
      BY <2>3, <2>4, NoThings DEF Rejecting
    <3> QED BY <2>2, <2>4, <3>1 DEF Rejecting
  <2>5. CASE job.todo # <<>> /\ job'.pc = "discard" /\ job'.todo = Tail(job.todo)
    <3>1. ToSet(job.todo) = {Head(job.todo)} \cup ToSet(Tail(job.todo))
      BY <2>5, TailIs DEF Typed, JobType
    <3>2. \A t \in Tables : Row(t)' # NoFile => t \in ToSet(job.todo) /\ t # Head(job.todo)
      BY <2>1, <2>2, <2>3, <2>5 DEF Rejecting, Row
    <3> QED BY <2>5, <3>1, <3>2 DEF Rejecting
  <2> QED BY <2>3, <2>4, <2>5
<1>11. CASE Modify
  <2>1. Decide("save", <<>>, Propagated(OwnRedo)) /\ staging' = Empty
    BY <1>11 DEF Modify
  <2>2. job'.pc = "save"
    BY <2>1, DecideGoes
  <2>3. \A t \in Tables : Row(t)' = NoFile
    BY <2>1 DEF Empty, Row
  <2> QED BY <2>2, <2>3 DEF Rejecting
<1>12. CASE Dismiss
  BY <1>1, <1>12, DismissGoes
<1>13. CASE Save \/ Kill \/ Abort
  BY <1>1, <1>13, EndGoes
<1>14. CASE UNCHANGED vars
  BY <1>14 DEF vars, Rejecting, Row
<1> QED BY <1>2, <1>3, <1>4, <1>5, <1>6, <1>7, <1>8, <1>9, <1>10, <1>11, <1>12, <1>13, <1>14
        DEF Next

-----------------------------------------------------------------------------
(* A chapter's settlement waits in the queue at most once.                 *)

Once(queue) == \A i, j \in DOMAIN queue :
                 queue[i] = "settle" /\ queue[j] = "settle" => i = j
Single ==
  /\ Once(st.queue) /\ Once(job.mem.queue)
  /\ job.pc = "queue" =>
       /\ Once(job.todo) /\ Once(job.kept)
       /\ ~("settle" \in ToSet(job.todo) /\ "settle" \in ToSet(job.kept))

LEMMA OnceTail ==
  ASSUME NEW s \in Seq(Entries), s # <<>>, Once(s)
  PROVE  Once(Tail(s)) /\ (Head(s) = "settle" => "settle" \notin ToSet(Tail(s)))
<1>1. /\ Len(s) \in Nat \ {0} /\ Len(Tail(s)) = Len(s) - 1
      /\ DOMAIN s = 1..Len(s) /\ DOMAIN Tail(s) = 1..Len(Tail(s)) /\ Head(s) = s[1]
  OBVIOUS
<1>2. \A i \in DOMAIN Tail(s) : i \in Nat /\ i + 1 \in DOMAIN s /\ Tail(s)[i] = s[i + 1]
  OBVIOUS
<1>3. Once(Tail(s))
  <2> SUFFICES ASSUME NEW i \in DOMAIN Tail(s), NEW j \in DOMAIN Tail(s),
                      Tail(s)[i] = "settle", Tail(s)[j] = "settle"
               PROVE  i = j
    BY DEF Once
  <2>1. i + 1 = j + 1
    BY <1>2 DEF Once
  <2> QED BY <1>2, <2>1
<1>4. ASSUME Head(s) = "settle", NEW i \in DOMAIN Tail(s), Tail(s)[i] = "settle"
      PROVE  FALSE
  <2>1. i + 1 = 1
    BY <1>1, <1>2, <1>4 DEF Once
  <2> QED BY <1>1, <1>2, <2>1
<1>5. Head(s) = "settle" => "settle" \notin ToSet(Tail(s))
  BY <1>4 DEF ToSet
<1> QED BY <1>3, <1>5

LEMMA OnceAppend ==
  ASSUME NEW s \in Seq(Entries), NEW e \in Entries, Once(s), e = "settle" => "settle" \notin ToSet(s)
  PROVE  Once(Append(s, e)) /\ ToSet(Append(s, e)) \subseteq ToSet(s) \cup {e}
<1>1. /\ Len(s) \in Nat /\ DOMAIN s = 1..Len(s)
      /\ DOMAIN Append(s, e) = 1..(Len(s) + 1) /\ Append(s, e)[Len(s) + 1] = e
      /\ \A i \in 1..Len(s) : Append(s, e)[i] = s[i]
  OBVIOUS
<1>2. Once(Append(s, e))
  <2> SUFFICES ASSUME NEW i \in 1..(Len(s) + 1), NEW j \in 1..(Len(s) + 1),
                      Append(s, e)[i] = "settle", Append(s, e)[j] = "settle"
               PROVE  i = j
    BY <1>1 DEF Once
  <2>1. CASE i \in 1..Len(s) /\ j \in 1..Len(s)
    BY <1>1, <2>1 DEF Once
  <2>2. CASE e = "settle"
    <3>1. \A l \in 1..Len(s) : s[l] # "settle"
      BY <1>1, <2>2 DEF ToSet
    <3>2. i \notin 1..Len(s) /\ j \notin 1..Len(s)
      BY <1>1, <3>1
    <3> QED BY <1>1, <3>2
  <2>3. CASE e # "settle"
    <3>1. i # Len(s) + 1 /\ j # Len(s) + 1
      BY <1>1, <2>3
    <3> QED BY <1>1, <2>1, <3>1
  <2> QED BY <2>2, <2>3
<1>3. ToSet(Append(s, e)) \subseteq ToSet(s) \cup {e}
  <2> SUFFICES ASSUME NEW i \in 1..(Len(s) + 1) PROVE Append(s, e)[i] \in ToSet(s) \cup {e}
    BY <1>1 DEF ToSet
  <2>1. CASE i \in 1..Len(s)
    BY <1>1, <2>1 DEF ToSet
  <2>2. CASE i = Len(s) + 1
    BY <1>1, <2>2
  <2> QED BY <1>1, <2>1, <2>2
<1> QED BY <1>2, <1>3

LEMMA OnceQueued ==
  ASSUME NEW q \in Seq(Entries), NEW e \in Entries, Once(q)
  PROVE  Once(Queued(q, e)) /\ Queued(q, e) \in Seq(Entries)
<1>1. CASE Contains(q, e)
  BY <1>1 DEF Queued
<1>2. CASE ~Contains(q, e)
  <2>1. e \notin ToSet(q)
    <3>1. DOMAIN q = 1..Len(q)
      OBVIOUS
    <3> QED BY <1>2, <3>1 DEF Contains, ToSet
  <2>2. Queued(q, e) = Append(q, e)
    BY <1>2 DEF Queued
  <2> QED BY <2>1, <2>2, OnceAppend
<1> QED BY <1>1, <1>2

LEMMA OnceEmpty == Once(<<>>)
BY DEF Once

LEMMA OnceRedo ==
  ASSUME Typed, Single
  PROVE  Once(OwnRedo) /\ Once(Propagated(OwnRedo))
<1>1. st.queue \in Seq(Entries) /\ "settle" \in Entries /\ "derived" \in Entries
  BY DEF Typed, Questioning, Entries
<1>2. Once(OwnRedo) /\ OwnRedo \in Seq(Entries)
  BY <1>1, OnceQueued DEF OwnRedo, Single
<1>3. Once(Propagated(OwnRedo))
  BY <1>1, <1>2, OnceQueued DEF Propagated
<1> QED BY <1>2, <1>3

LEMMA SettleAgainGoes ==
  ASSUME Typed, Lists, SettleAgain \/ Derived
  PROVE  job'.mem.queue = job.mem.queue
<1>1. \/ Goto("queue", [job.mem EXCEPT !.ask = "settle"], Tail(job.todo))
      \/ Goto("queue", job.mem, Tail(job.todo))
      \/ job' = [job EXCEPT !.todo = Tail(@), !.kept = Append(@, Head(job.todo))]
  BY DEF SettleAgain, Derived
<1>2. /\ job.mem \in Questioning /\ [job.mem EXCEPT !.ask = "settle"] \in Questioning
      /\ Tail(job.todo) \in Seq(Things)
  BY QueueTail, MemType, Words DEF Typed, JobType, SettleAgain, Derived, Running
<1>3. [job.mem EXCEPT !.ask = "settle"].queue = job.mem.queue
  BY <1>2 DEF Questioning
<1>4. CASE Goto("queue", [job.mem EXCEPT !.ask = "settle"], Tail(job.todo))
  BY <1>2, <1>3, <1>4, GotoType, Words
<1>5. CASE Goto("queue", job.mem, Tail(job.todo))
  BY <1>2, <1>5, GotoType, Words
<1>6. CASE job' = [job EXCEPT !.todo = Tail(@), !.kept = Append(@, Head(job.todo))]
  BY <1>6 DEF Typed, JobType
<1> QED BY <1>1, <1>4, <1>5, <1>6

LEMMA SingleStep ==
  ASSUME Typed, Lists, Single, [Next]_vars
  PROVE  Single'
<1>1. CASE Command
  <2>1. st' = st /\ st.queue \in Seq(Entries)
    BY <1>1 DEF Command, Typed, Questioning
  <2> QED BY <1>1, <2>1, CommandGoes, OnceEmpty, NoThings DEF Single
<1>2. CASE SettleAgain \/ Derived
  <2>1. /\ job.pc = "queue" /\ job.todo # <<>> /\ st' = st
        /\ job.todo \in Seq(Entries) /\ job.kept \in Seq(Entries)
    BY <1>2 DEF SettleAgain, Derived, Running, Lists
  <2>2. /\ Once(Tail(job.todo)) /\ (Head(job.todo) = "settle" => "settle" \notin ToSet(Tail(job.todo)))
        /\ ToSet(job.todo) = {Head(job.todo)} \cup ToSet(Tail(job.todo))
        /\ Head(job.todo) \in Entries
    BY <2>1, OnceTail, TailIs DEF Single
  <2>3. Head(job.todo) = "settle" => "settle" \notin ToSet(job.kept)
    BY <2>1, <2>2 DEF Single
  <2>4. /\ Once(Append(job.kept, Head(job.todo)))
        /\ ToSet(Append(job.kept, Head(job.todo))) \subseteq ToSet(job.kept) \cup {Head(job.todo)}
    BY <2>1, <2>2, <2>3, OnceAppend DEF Single
  <2>5. /\ job'.pc = "queue" /\ job'.todo = Tail(job.todo) /\ job'.mem.queue = job.mem.queue
        /\ job'.kept = job.kept \/ job'.kept = Append(job.kept, Head(job.todo))
    BY <1>2, QueueGoes, SettleAgainGoes
  <2>6. ~("settle" \in ToSet(job'.todo) /\ "settle" \in ToSet(job'.kept))
    BY <2>1, <2>2, <2>4, <2>5 DEF Single
  <2> QED BY <2>1, <2>2, <2>4, <2>5, <2>6 DEF Single
<1>3. ASSUME job'.pc # "queue", Once(job'.mem.queue), Once(st'.queue)
      PROVE  Single'
  BY <1>3 DEF Single
<1>4. CASE QueueEnds
  <2>1. job'.pc # "queue" /\ job'.mem.queue \in {job.kept, <<>>} /\ job.pc = "queue" /\ st' = st
    BY <1>4, QueueEndsGoes DEF QueueEnds, Running
  <2> QED BY <1>3, <2>1, OnceEmpty DEF Single
<1>5. CASE Lifecycle \/ PairSettles \/ Mark \/ Settles \/ Completes \/ Elsewhere
  <2>1. st' = st
    BY <1>5 DEF Lifecycle, PairSettles, Mark, Settles, Completes, Elsewhere, Running
  <2>2. job'.pc # "queue" /\ job'.mem.queue = job.mem.queue
    BY <1>5, LoopGoes
  <2> QED BY <1>3, <2>1, <2>2 DEF Single
<1>6. CASE Approve \/ Dismiss
  <2>1. st' = st
    BY <1>6 DEF Approve, Dismiss
  <2> QED BY <1>3, <1>6, <2>1, ApproveGoes, DismissGoes DEF Single
<1>7. CASE Check
  <2>1. st' = st
    BY <1>7 DEF Check, Running
  <2>2. job'.pc # "queue" /\ (job'.mem = job.mem \/ job'.mem = NoOne)
    BY <1>7, CheckGoes, IdleIs
  <2>3. Once(NoOne.queue)
    BY OnceEmpty DEF NoOne
  <2> QED BY <1>3, <2>1, <2>2, <2>3 DEF Single
<1>8. CASE Checks \/ WriteFacts \/ Commit \/ Clear
  <2>1. st' = st
    BY <1>8 DEF Checks, WriteFacts, Commit, Clear, Running
  <2>2. job'.pc # "queue" /\ job'.mem = job.mem
    BY <1>8, ChecksGoes, WriteFactsGoes, CommitGoes, ClearGoes
  <2> QED BY <1>3, <2>1, <2>2 DEF Single
<1>9. CASE Reject
  <2>1. PICK pc \in {"save", "discard"} : Decide(pc, Discarded, OwnRedo)
    BY <1>9 DEF Reject
  <2>2. st' = st
    BY <2>1 DEF Decide
  <2>3. job'.pc # "queue" /\ job'.mem.queue = OwnRedo
    BY <2>1, DecideGoes
  <2> QED BY <1>3, <2>2, <2>3, OnceRedo DEF Single
<1>10. CASE Discard
  <2>1. st' = st
    BY <1>10 DEF Discard, Running
  <2> QED BY <1>3, <1>10, <2>1, DiscardGoes DEF Single
<1>11. CASE Modify
  <2>1. Decide("save", <<>>, Propagated(OwnRedo))
    BY <1>11 DEF Modify
  <2>2. st' = st
    BY <2>1 DEF Decide
  <2>3. job'.pc = "save"
    BY <2>1, DecideGoes
  <2>4. job'.mem.queue = Propagated(OwnRedo)
    BY <2>1, DecideGoes
  <2> QED BY <1>3, <2>2, <2>3, <2>4, OnceRedo DEF Single
<1>12. CASE Save \/ Kill \/ Abort
  <2>1. st' = st \/ st' = job.mem
    BY <1>12 DEF Save, Kill, Abort
  <2>2. Once(NoOne.queue)
    BY OnceEmpty DEF NoOne
  <2> QED BY <1>3, <1>12, <2>1, <2>2, EndGoes DEF Single
<1>13. CASE UNCHANGED vars
  BY <1>13 DEF vars, Single
<1> QED BY <1>1, <1>2, <1>4, <1>5, <1>6, <1>7, <1>8, <1>9, <1>10, <1>11, <1>12, <1>13 DEF Next

-----------------------------------------------------------------------------
(* The rows a human was shown, on their way from staging to live.          *)

OwedStaged == \A t \in Tables, k \in Keys :
  owed[t][k] # 0 => Row(t) # NoFile /\ Row(t)[k] = owed[t][k]

Own == {"settle", "chapter"}
Shown(t, k) == history.shown[t][k]
\* They wait in staging; they wait there or are live; they are live.
InStaging   == \A t \in Tables, k \in Keys :
  Shown(t, k) # 0 => Row(t) # NoFile /\ Row(t)[k] = Shown(t, k)
SomewhereAt(t) == \A k \in Keys :
  Shown(t, k) # 0 => Shown(t, k) = IF Row(t) # NoFile THEN Row(t)[k] ELSE live[t][k]
Somewhere   == \A t \in Tables : SomewhereAt(t)
LiveAt(t)   == \A k \in Keys : Shown(t, k) # 0 => live[t][k] = Shown(t, k)

Asking ==
  /\ st.ask \in Own => Somewhere
  /\ job.mem.ask \in Own => InStaging
  /\ job.pc \notin {"queue", "mark", "save"} => job.mem.ask = "none"
  /\ job.pc \in {"queue", "loop", "mark"} => st.ask = "none"
  /\ job.pc = "save" => st.ask = "none" \/ job.mem.ask = "none"
  /\ job.pc \in {"check", "facts", "commit"} => st.ask \in Own
  /\ job.pc = "queue" /\ job.mem.ask \in Own => "settle" \notin ToSet(job.todo)
Landing ==
  /\ job.pc = "commit" =>
       \A t \in Tables : t \notin ToSet(job.todo) /\ Row(t) # NoFile => LiveAt(t)
  /\ job.pc = "discard" => history.shown = Blank
  /\ job.reply = "approved" => \A t \in Tables : LiveAt(t)
  /\ job.reply = "approved" => job.pc = "save"

LEMMA OwedStep ==
  ASSUME Typed, OwedStaged, DataStep
  PROVE  OwedStaged'
<1>1. ASSUME NEW W \in SUBSET Tables, NEW w \in Keys, Lands(W, w)
      PROVE  OwedStaged'
  <2> SUFFICES ASSUME NEW t \in Tables, NEW k \in Keys, owed'[t][k] # 0
               PROVE  Row(t)' # NoFile /\ Row(t)'[k] = owed'[t][k]
    BY DEF OwedStaged
  <2>1. CASE t \notin W
    <3>1. Row(t)' = Row(t) /\ owed'[t] = owed[t]
      BY <1>1, <2>1 DEF Lands, Row
    <3> QED BY <3>1 DEF OwedStaged
  <2>2. CASE t \in W
    <3>1. /\ Row(t)' = [Base(staging, t) EXCEPT ![w] = This]
          /\ owed'[t] = [owed[t] EXCEPT ![w] = This]
      BY <1>1, <2>2 DEF Lands, Row
    <3>2. Base(staging, t) \in Rows /\ owed[t] \in Rows
      BY DEF Base, Typed, StagingType
    <3>3. Row(t)'[w] = This /\ This # -1
      BY <3>1, <3>2, Numbers DEF Rows
    <3>4. Row(t)' # NoFile
      BY <3>3 DEF NoFile
    <3>5. CASE k = w
      BY <3>1, <3>2, <3>4, <3>5 DEF Rows
    <3>6. CASE k # w
      <4>1. owed'[t][k] = owed[t][k] /\ Row(t)'[k] = Base(staging, t)[k]
        BY <3>1, <3>2, <3>6 DEF Rows
      <4>2. Row(t) # NoFile /\ Row(t)[k] = owed[t][k]
        BY <4>1 DEF OwedStaged
      <4>3. Base(staging, t) = Row(t)
        BY <4>2 DEF Base, Row
      <4> QED BY <3>4, <4>1, <4>2, <4>3
    <3> QED BY <3>5, <3>6
  <2> QED BY <2>1, <2>2
<1>2. CASE Thins
  <2> SUFFICES ASSUME NEW t \in Tables, NEW k \in Keys, owed'[t][k] # 0
               PROVE  Row(t)' # NoFile /\ Row(t)'[k] = owed'[t][k]
    BY DEF OwedStaged
  <2>1. owed'[t] = IF Row(t)' = NoFile THEN NoRows ELSE owed[t]
    BY <1>2 DEF Thins, StillOwed, Row
  <2>2. Row(t)' # NoFile /\ owed'[t] = owed[t]
    BY <2>1 DEF NoRows
  <2>3. Row(t)' = Row(t)
    BY <1>2, <2>2 DEF Thins, Row
  <2> QED BY <2>2, <2>3 DEF OwedStaged
<1>3. ASSUME NEW t \in Tables, NEW k \in Keys, Writes(t, k)
      PROVE  OwedStaged'
  BY <1>3 DEF Writes, OwedStaged, Row
<1>4. ASSUME NEW t \in Tables, Merges(t)
      PROVE  OwedStaged'
  BY <1>4 DEF Merges, OwedStaged, Row
<1>5. CASE Keeps
  BY <1>5 DEF Keeps, OwedStaged, Row
<1> QED BY <1>1, <1>2, <1>3, <1>4, <1>5 DEF DataStep

\* A step that leaves rows and what was shown of them alone.
LEMMA QuietRows ==
  ASSUME staging'.rows = staging.rows, live' = live, history'.shown = history.shown
  PROVE  /\ Somewhere' = Somewhere /\ InStaging' = InStaging
         /\ \A t \in Tables : LiveAt(t)' = LiveAt(t) /\ Row(t)' = Row(t)
BY DEF Somewhere, SomewhereAt, InStaging, LiveAt, Shown, Row

LEMMA SettleAgainAsks ==
  ASSUME Typed, Lists, Single, OwedStaged, Asking, Landing, SettleAgain
  PROVE  Asking' /\ Landing'
<1>1. PICK n \in 0..Len(WriteOrder), k \in Keys, batch \in Batches, passes \in BOOLEAN :
        /\ Land(n, k, batch)
        /\ IF passes
           THEN /\ Goto("queue", [job.mem EXCEPT !.ask = "settle"], Tail(job.todo))
                /\ Asks(owed')
           ELSE /\ job' = [job EXCEPT !.todo = Tail(@), !.kept = Append(@, "settle")]
                /\ UNCHANGED history
  BY DEF SettleAgain
<1>2. /\ job.pc = "queue" /\ job.todo # <<>> /\ Head(job.todo) = "settle" /\ st' = st
      /\ job.todo \in Seq(Entries)
  BY DEF SettleAgain, Running, Lists
<1>3. job'.pc = "queue" /\ job'.todo = Tail(job.todo) /\ job'.reply = job.reply
  BY QueueGoes
<1>4. st.ask = "none" /\ job.mem.ask \notin Own /\ job.reply # "approved"
  <2>1. "settle" \in ToSet(job.todo)
    BY <1>2, TailIs
  <2> QED BY <1>2, <2>1 DEF Asking, Landing
<1>5. CASE passes
  <2>1. OwedStaged' /\ owed' \in [Tables -> Rows]
    BY OwedStep, SettleAgainType, DataTypes
  <2>2. history'.shown = owed'
    BY <1>1, <1>5, <2>1, AsksType
  <2>3. InStaging'
    BY <2>1, <2>2 DEF InStaging, OwedStaged, Shown, Row
  <2>4. "settle" \notin ToSet(Tail(job.todo))
    BY <1>2, OnceTail DEF Single
  <2> QED BY <1>2, <1>3, <1>4, <2>3, <2>4 DEF Asking, Landing, Own
<1>6. CASE ~passes
  <2>1. job'.mem = job.mem
    BY <1>1, <1>6 DEF Typed, JobType
  <2> QED BY <1>2, <1>3, <1>4, <2>1 DEF Asking, Landing, Own
<1> QED BY <1>5, <1>6

\* A question whose rows are all in staging, after which a step of a command
\* that runs the loop or a save leaves nothing else to see to.
LEMMA AsksAnew ==
  ASSUME st' = st, st.ask = "none", job'.reply # "approved",
         job'.pc \in {"loop", "mark", "save"},
         job'.pc = "loop" => job'.mem.ask = "none",
         job'.mem.ask \in Own => InStaging'
  PROVE  Asking' /\ Landing'
BY DEF Asking, Landing, Own

LEMMA DerivedAsks ==
  ASSUME Typed, Lists, Asking, Landing, Derived
  PROVE  Asking' /\ Landing'
<1>1. /\ job.pc = "queue" /\ job.todo # <<>> /\ st' = st /\ staging' = staging /\ history' = history
      /\ job.todo \in Seq(Entries)
  BY DEF Derived, Running, Lists
<1>2. job'.pc = "queue" /\ job'.todo = Tail(job.todo) /\ job'.reply = job.reply
  BY QueueGoes
<1>3. job'.mem = job.mem
  <2>1. job.mem \in Questioning /\ Tail(job.todo) \in Seq(Things)
    BY <1>1, QueueTail DEF Typed, JobType
  <2>2. \/ Goto("queue", job.mem, Tail(job.todo))
        \/ job' = [job EXCEPT !.todo = Tail(@), !.kept = Append(@, "derived")]
    BY DEF Derived
  <2>3. CASE Goto("queue", job.mem, Tail(job.todo))
    BY <2>1, <2>3, GotoType, Words
  <2>4. CASE job' = [job EXCEPT !.todo = Tail(@), !.kept = Append(@, "derived")]
    BY <2>4 DEF Typed, JobType
  <2> QED BY <2>2, <2>3, <2>4
<1>4. ToSet(Tail(job.todo)) \subseteq ToSet(job.todo)
  BY <1>1, TailIs
<1>5. InStaging' = InStaging
  BY <1>1 DEF InStaging, Shown, Row
<1> QED BY <1>1, <1>2, <1>3, <1>4, <1>5 DEF Asking, Landing, Own

LEMMA QueueEndsAsks ==
  ASSUME Typed, Asking, Landing, QueueEnds
  PROVE  Asking' /\ Landing'
<1>1. job.pc = "queue" /\ st' = st /\ UNCHANGED <<live, staging, history>>
  BY DEF QueueEnds, Running
<1>2. /\ job'.pc = IF job'.mem.ask = "none" THEN "loop" ELSE "save"
      /\ job'.mem.ask = IF job.kept # <<>> THEN "escalation" ELSE job.mem.ask
      /\ job'.reply = job.reply
  BY QueueEndsGoes
<1>3. InStaging' = InStaging
  BY <1>1 DEF InStaging, Shown, Row
<1>4. job'.mem.ask \in Own => InStaging'
  BY <1>2, <1>3 DEF Asking, Own
<1>5. st.ask = "none" /\ job'.reply # "approved"
  BY <1>1, <1>2 DEF Asking, Landing
<1> QED BY <1>1, <1>2, <1>4, <1>5, AsksAnew

LEMMA LoopAsks ==
  ASSUME Typed, Lists, OwedStaged, Asking, Landing,
         Lifecycle \/ PairSettles \/ Mark \/ Settles \/ Completes \/ Elsewhere
  PROVE  Asking' /\ Landing'
<1>1. /\ job'.pc \in {"loop", "mark", "save"} /\ job'.reply = job.reply
      /\ job.pc \in {"loop", "mark"}
  BY LoopGoes
<1>2. st' = st /\ st.ask = "none" /\ job'.reply # "approved"
  BY <1>1 DEF Lifecycle, PairSettles, Mark, Settles, Completes, Elsewhere, Running, Asking, Landing
<1>3. job.pc = "loop" => job.mem.ask = "none"
  BY DEF Asking
<1>4. /\ job.mem \in Questioning
      /\ [job.mem EXCEPT !.at = "past", !.ask = "settle"] \in Questioning
      /\ [job.mem EXCEPT !.ask = "escalation"] \in Questioning
      /\ [job.mem EXCEPT !.at = "past"] \in Questioning
      /\ [job.mem EXCEPT !.at = "next", !.ask = "chapter"] \in Questioning
  BY MemType, Words DEF Typed, JobType
<1>5. /\ [job.mem EXCEPT !.ask = "escalation"].ask = "escalation"
      /\ [job.mem EXCEPT !.at = "past"].ask = job.mem.ask
  BY <1>4 DEF Questioning
<1>6. CASE Lifecycle \/ Elsewhere
  <2>1. <<"settle">> \in Seq(Things) /\ <<>> \in Seq(Things)
    BY Literals
  <2>2. job.pc = "loop" /\ job'.mem = job.mem
    BY <1>4, <1>6, <2>1, GotoType, Words DEF Lifecycle, Elsewhere, Running
  <2> QED BY <1>1, <1>2, <1>3, <2>2, AsksAnew DEF Own
<1>7. CASE PairSettles
  <2>1. PICK n \in 0..Len(WriteOrder), k \in Keys, batch \in Batches, passes \in BOOLEAN :
         /\ Land(n, k, batch)
         /\ \/ /\ passes /\ Goto("mark", [job.mem EXCEPT !.at = "past", !.ask = "settle"], <<>>)
               /\ Asks(owed')
            \/ /\ ~passes /\ UNCHANGED history
               /\ IF Landed(n) THEN Goto("loop", job.mem, <<>>)
                  ELSE Goto("save", [job.mem EXCEPT !.ask = "escalation"], <<>>)
    BY <1>7 DEF PairSettles
  <2>2. job.pc = "loop"
    BY <1>7 DEF PairSettles, Running
  <2>3. CASE Goto("mark", [job.mem EXCEPT !.at = "past", !.ask = "settle"], <<>>) /\ Asks(owed')
    <3>1. OwedStaged' /\ owed' \in [Tables -> Rows]
      BY <1>7, OwedStep, PairSettlesType, DataTypes
    <3>2. history'.shown = owed'
      BY <2>3, <3>1, AsksType
    <3>3. InStaging'
      BY <3>1, <3>2 DEF InStaging, OwedStaged, Shown, Row
    <3>4. job'.pc = "mark"
      BY <1>4, <2>3, GotoType, Words, EmptyThings
    <3> QED BY <1>1, <1>2, <3>3, <3>4, AsksAnew
  <2>4. CASE Goto("loop", job.mem, <<>>)
    <3>1. job'.mem = job.mem
      BY <1>4, <2>4, GotoType, Words, EmptyThings
    <3> QED BY <1>1, <1>2, <1>3, <2>2, <3>1, AsksAnew DEF Own
  <2>5. CASE Goto("save", [job.mem EXCEPT !.ask = "escalation"], <<>>)
    <3>1. job'.pc = "save" /\ job'.mem.ask = "escalation"
      BY <1>4, <1>5, <2>5, GotoType, Words, EmptyThings
    <3> QED BY <1>1, <1>2, <3>1, AsksAnew DEF Own
  <2> QED BY <2>1, <2>3, <2>4, <2>5
<1>8. CASE Mark
  <2>1. job'.pc = "save" /\ job'.mem = job.mem
    BY <1>4, <1>8, GotoType, Words, EmptyThings DEF Mark
  <2>2. staging'.rows = staging.rows /\ history' = history
    <3>1. staging' = [staging EXCEPT !.marked = @ \cup StagedTargets] /\ history' = history
      BY <1>8 DEF Mark
    <3> QED BY <3>1 DEF Typed, StagingType
  <2>3. InStaging' = InStaging
    BY <2>2 DEF InStaging, Shown, Row
  <2>4. job'.mem.ask \in Own => InStaging'
    BY <2>1, <2>3 DEF Asking
  <2> QED BY <1>1, <1>2, <2>1, <2>4, AsksAnew
<1>9. CASE Settles
  <2>1. \/ Goto("loop", [job.mem EXCEPT !.at = "past"], <<>>)
        \/ Goto("loop", job.mem, <<>>)
        \/ Goto("save", [job.mem EXCEPT !.ask = "escalation"], <<>>)
    BY <1>9 DEF Settles
  <2>2. job.mem.ask = "none"
    BY <1>3, <1>9 DEF Settles, Running
  <2>3. CASE Goto("save", [job.mem EXCEPT !.ask = "escalation"], <<>>)
    <3>1. job'.pc = "save" /\ job'.mem.ask = "escalation"
      BY <1>4, <1>5, <2>3, GotoType, Words, EmptyThings
    <3> QED BY <1>1, <1>2, <3>1, AsksAnew DEF Own
  <2>4. CASE Goto("loop", [job.mem EXCEPT !.at = "past"], <<>>)
    <3>1. job'.mem.ask = "none"
      BY <1>4, <1>5, <2>2, <2>4, GotoType, Words, EmptyThings
    <3> QED BY <1>1, <1>2, <3>1, AsksAnew DEF Own
  <2>5. CASE Goto("loop", job.mem, <<>>)
    <3>1. job'.mem.ask = "none"
      BY <1>4, <2>2, <2>5, GotoType, Words, EmptyThings
    <3> QED BY <1>1, <1>2, <3>1, AsksAnew DEF Own
  <2> QED BY <2>1, <2>3, <2>4, <2>5
<1>10. CASE Completes
  <2>1. job'.pc = "save"
    BY <1>4, <1>10, GotoType, Words, EmptyThings DEF Completes
  <2>2. history'.shown = owed /\ staging' = staging
    BY <1>10, AsksType DEF Completes, Typed
  <2>3. InStaging'
    BY <2>2 DEF InStaging, OwedStaged, Shown, Row
  <2> QED BY <1>1, <1>2, <2>1, <2>3, AsksAnew
<1> QED BY <1>6, <1>7, <1>8, <1>9, <1>10

LEMMA CommandAsks ==
  ASSUME Asking, Command
  PROVE  Asking' /\ Landing'
<1>1. st' = st /\ st.ask = "none"
  BY DEF Command
<1>2. job'.pc = "queue" /\ job'.mem = st /\ job'.reply = ""
  BY CommandGoes
<1> QED BY <1>1, <1>2 DEF Asking, Landing, Own

LEMMA ApproveShows ==
  ASSUME Typed, Approve
  PROVE  history'.shown = history.shown
<1>1. history' = [history EXCEPT !.before = <<facts, live, staging>>,
                                 !.asked = @ \cup {staging.ops}]
  BY DEF Approve
<1> QED BY <1>1 DEF Typed, HistoryType

LEMMA ApproveAsks ==
  ASSUME Typed, Asking, Approve
  PROVE  Asking' /\ Landing'
<1>1. st' = st /\ st.ask \in Own /\ UNCHANGED <<live, staging>>
  BY DEF Approve, Owns, Own
<1>2. job'.pc = "check" /\ job'.mem.ask = "none" /\ job'.reply = ""
  BY ApproveGoes
<1>3. Somewhere' = Somewhere
  BY <1>1, QuietRows, ApproveShows
<1> QED BY <1>1, <1>2, <1>3 DEF Asking, Landing, Own

LEMMA CheckAsks ==
  ASSUME Typed, Asking, Landing, Check
  PROVE  Asking' /\ Landing'
<1>1. st' = st /\ UNCHANGED <<live, staging, history>> /\ job.pc = "check"
  BY CheckGoes DEF Check, Running
<1>2. \/ job'.pc = "check" /\ job'.mem = job.mem /\ job'.reply = job.reply
      \/ job'.pc = "idle" /\ job'.mem = NoOne /\ job'.reply = "refused"
  BY CheckGoes, IdleIs
<1>3. NoOne.ask = "none"
  BY DEF NoOne
<1>4. Somewhere' = Somewhere
  BY <1>1, QuietRows
<1> QED BY <1>1, <1>2, <1>3, <1>4 DEF Asking, Landing, Own

LEMMA FactsAsks ==
  ASSUME Typed, Lists, Asking, Landing, Checks \/ WriteFacts
  PROVE  Asking' /\ Landing'
<1>1. /\ st' = st /\ UNCHANGED <<live, staging, history>> /\ job.pc \in {"check", "facts"}
      /\ job'.mem = job.mem /\ job'.reply = job.reply /\ job'.pc \in {"facts", "commit"}
      /\ job'.pc = "commit" => job'.todo = ToCommit
  BY ChecksGoes, WriteFactsGoes DEF Checks, WriteFacts, Running
<1>2. ToSet(ToCommit) = StagedTargets \cap Targets
  BY ListedIs DEF ToCommit
<1>3. \A t \in Tables : t \notin ToSet(ToCommit) => Row(t) = NoFile
  BY <1>2 DEF StagedTargets, Staged, Targets, Tables, Row
<1>4. Somewhere' = Somewhere /\ \A t \in Tables : Row(t)' = Row(t)
  BY <1>1, QuietRows
<1> QED BY <1>1, <1>3, <1>4 DEF Asking, Landing, Own

LEMMA CommitAsks ==
  ASSUME Typed, Lists, Asking, Landing, Commit
  PROVE  Asking' /\ Landing'
<1>0. PICK h : h = Head(job.todo)
  OBVIOUS
<1>1. /\ job.pc = "commit" /\ job'.pc = "commit" /\ job'.todo = Tail(job.todo)
      /\ job.todo \in Seq(Things) /\ job.todo # <<>>
      /\ job'.mem = job.mem /\ job'.reply = job.reply
  BY CommitGoes
<1>2. /\ ToSet(job.todo) = {h} \cup ToSet(Tail(job.todo))
      /\ st' = st /\ history' = history
  BY <1>0, <1>1, TailIs DEF Commit, Running
<1>3. staging'.rows = staging.rows /\ \A t \in Tables : Row(t)' = Row(t)
  BY CommitType DEF Merges, Keeps, Row
<1>4. job.reply # "approved"
  BY <1>1 DEF Landing
<1>5. CASE h \in Tables
  <2>1. Row(h) # NoFile /\ live' = [live EXCEPT ![h] = Merged(h)]
    <3>1. Row(h) # NoFile /\ Merges(h)
      BY <1>0, <1>5, CommitType
    <3> QED BY <3>1 DEF Merges
  <2>2. \A t \in Tables : t # h => live'[t] = live[t]
    BY <2>1
  <2>3. live'[h] = Merged(h)
    BY <1>5, <2>1 DEF Typed
  <2>4. \A k \in Keys : Shown(h, k) # 0 => live'[h][k] = Shown(h, k)
    <3>1. \A k \in Keys : Shown(h, k) # 0 => Row(h)[k] = Shown(h, k)
      BY <1>1, <1>5, <2>1 DEF Asking, Somewhere, SomewhereAt
    <3> QED BY <2>3, <3>1 DEF Merged, Row
  <2>5. LiveAt(h)'
    BY <1>2, <2>4 DEF LiveAt, Shown
  <2>6. \A t \in Tables : t # h => LiveAt(t)' = LiveAt(t)
    BY <1>2, <2>2 DEF LiveAt, Shown
  <2>7. Somewhere'
    <3> SUFFICES ASSUME NEW t \in Tables PROVE SomewhereAt(t)'
      BY DEF Somewhere
    <3>1. SomewhereAt(t)
      BY <1>1 DEF Asking, Somewhere
    <3>2. CASE t = h
      <4>1. \A k \in Keys : Shown(h, k) # 0 => Shown(h, k) = Row(h)[k]
        BY <2>1, <3>1, <3>2 DEF SomewhereAt
      <4>2. Row(h)' = Row(h) /\ \A k \in Keys : Shown(h, k)' = Shown(h, k)
        BY <1>2, <1>3, <1>5 DEF Shown
      <4>3. SomewhereAt(h)'
        BY <2>1, <4>1, <4>2 DEF SomewhereAt
      <4> QED BY <3>2, <4>3
    <3>3. CASE t # h
      BY <1>2, <1>3, <2>2, <3>1, <3>3 DEF SomewhereAt, Shown
    <3> QED BY <3>2, <3>3
  <2>8. \A t \in Tables : t \notin ToSet(job'.todo) /\ Row(t)' # NoFile => LiveAt(t)'
    <3> SUFFICES ASSUME NEW t \in Tables, t # h, t \notin ToSet(Tail(job.todo)), Row(t) # NoFile
                 PROVE  LiveAt(t)
      BY <1>1, <1>3, <2>5, <2>6
    <3> QED BY <1>1, <1>2 DEF Landing
  <2> QED BY <1>1, <1>2, <1>4, <2>7, <2>8 DEF Asking, Landing, Own
<1>6. CASE h \notin Tables
  <2>1. live' = live
    BY <1>0, <1>6, CommitType DEF Keeps
  <2>2. Somewhere' = Somewhere /\ \A t \in Tables : LiveAt(t)' = LiveAt(t)
    BY <1>2, <1>3, <2>1, QuietRows
  <2>3. \A t \in Tables : t \notin ToSet(job'.todo) /\ Row(t)' # NoFile => LiveAt(t)'
    BY <1>1, <1>2, <1>3, <1>6, <2>2 DEF Landing
  <2> QED BY <1>1, <1>2, <1>4, <2>2, <2>3 DEF Asking, Landing, Own
<1> QED BY <1>5, <1>6

LEMMA ClearAsks ==
  ASSUME Typed, Asking, Landing, Clear
  PROVE  Asking' /\ Landing'
<1>1. /\ job.pc = "commit" /\ job.todo = <<>> /\ job'.pc = "save" /\ job'.mem = job.mem
      /\ job'.reply = "approved"
  BY ClearGoes
<1>2. st' = st /\ live' = live /\ history' = history /\ staging' = Empty
  BY DEF Clear, Running
<1>3. \A t \in Tables : LiveAt(t)
  <2> SUFFICES ASSUME NEW t \in Tables PROVE LiveAt(t)
    OBVIOUS
  <2>1. CASE Row(t) # NoFile
    BY <1>1, <2>1, NoThings DEF Landing
  <2>2. CASE Row(t) = NoFile
    BY <1>1, <2>2 DEF Asking, Somewhere, SomewhereAt, LiveAt
  <2> QED BY <2>1, <2>2
<1>4. \A t \in Tables : LiveAt(t)'
  BY <1>2, <1>3 DEF LiveAt, Shown
<1>5. \A t \in Tables : Row(t)' = NoFile
  BY <1>2 DEF Row, Empty
<1>6. Somewhere'
  BY <1>4, <1>5 DEF Somewhere, SomewhereAt, LiveAt
<1>7. job'.mem.ask = "none"
  BY <1>1 DEF Asking
<1> QED BY <1>1, <1>4, <1>6, <1>7 DEF Asking, Landing, Own

LEMMA BlankShows ==
  ASSUME history'.shown = Blank
  PROVE  Somewhere' /\ InStaging'
BY DEF Somewhere, SomewhereAt, InStaging, Shown, Blank, NoRows

LEMMA RejectAsks ==
  ASSUME Typed, Asking, Landing, Reject
  PROVE  Asking' /\ Landing'
<1>1. PICK pc \in {"save", "discard"} : Decide(pc, Discarded, OwnRedo)
  BY DEF Reject
<1>2. Discarded \in Seq(Things) /\ pc \in Pcs
  BY ListedIs, Words DEF Discarded
<1>3. history'.shown = Blank
  BY <1>1, <1>2, DecideType, RedoType
<1>4. job'.pc \in {"save", "discard"} /\ job'.mem.ask = "none" /\ job'.reply = ""
  BY <1>1, DecideGoes
<1> QED BY <1>3, <1>4, BlankShows DEF Asking, Landing, Own

LEMMA ModifyAsks ==
  ASSUME Typed, Asking, Landing, Modify
  PROVE  Asking' /\ Landing'
<1>1. Decide("save", <<>>, Propagated(OwnRedo))
  BY DEF Modify
<1>2. history'.shown = Blank
  BY <1>1, DecideType, RedoType, Words, EmptyThings
<1>3. job'.pc = "save"
  BY <1>1, DecideGoes
<1>4. job'.mem.ask = "none" /\ job'.reply = ""
  BY <1>1, DecideGoes
<1> QED BY <1>2, <1>3, <1>4, BlankShows DEF Asking, Landing, Own

LEMMA DiscardAsks ==
  ASSUME Typed, Asking, Landing, Discard
  PROVE  Asking' /\ Landing'
<1>1. /\ job.pc = "discard" /\ job'.mem = job.mem /\ job'.reply = job.reply
      /\ job'.pc \in {"save", "discard"}
  BY DiscardGoes
<1>2. history' = history
  BY DEF Discard
<1>3. history'.shown = Blank /\ job.mem.ask = "none" /\ job.reply # "approved"
  BY <1>1, <1>2 DEF Asking, Landing
<1> QED BY <1>1, <1>3, BlankShows DEF Asking, Landing, Own

LEMMA DismissAsks ==
  ASSUME Typed, Asking, Landing, Dismiss
  PROVE  Asking' /\ Landing'
<1>1. st' = st /\ st.ask = "escalation"
  BY DEF Dismiss
<1>2. job'.pc = "save" /\ job'.mem.ask = "none" /\ job'.reply = ""
  BY DismissGoes
<1> QED BY <1>1, <1>2 DEF Asking, Landing, Own

LEMMA Waiting ==
  ASSUME InStaging
  PROVE  Somewhere
BY DEF InStaging, Somewhere, SomewhereAt

LEMMA EndAsks ==
  ASSUME Typed, Asking, Landing, Save \/ Kill \/ Abort
  PROVE  Asking' /\ Landing'
<1>1. /\ job'.pc = "idle" /\ job'.mem = NoOne /\ job'.reply # "approved"
  BY EndGoes
<1>2. NoOne.ask = "none"
  BY DEF NoOne
<1>3. st'.ask \in Own => Somewhere'
  <2>1. CASE Save
    <3>1. st' = job.mem /\ UNCHANGED <<live, staging>>
      BY <2>1 DEF Save
    <3> SUFFICES ASSUME job.mem.ask \in Own PROVE Somewhere'
      BY <3>1
    <3>2. history'.shown = history.shown
      BY <2>1, SaveType DEF Own
    <3> QED BY <3>1, <3>2, QuietRows, Waiting DEF Asking
  <2>2. CASE Kill
    <3>1. st' = st /\ UNCHANGED <<live, staging>> /\ history'.shown = history.shown
      BY <2>2, KillType DEF Kill, Dies
    <3> QED BY <3>1, QuietRows DEF Asking
  <2>3. CASE Abort
    <3> SUFFICES ASSUME job.mem.ask \in Own PROVE Somewhere'
      BY <2>3 DEF Abort
    <3> SUFFICES ASSUME NEW t \in Tables, NEW k \in Keys, Shown(t, k)' # 0
                 PROVE  Row(t)' # NoFile /\ Row(t)'[k] = Shown(t, k)'
      BY DEF Somewhere, SomewhereAt
    <3>1. /\ Row(t)' = Row(t) \/ Row(t)' = NoFile
          /\ history'.shown[t] = IF Row(t)' = NoFile THEN NoRows ELSE history.shown[t]
      BY <2>3, AbortType DEF Thins, Row
    <3>2. Row(t)' = Row(t) /\ Row(t)' # NoFile /\ history'.shown[t] = history.shown[t]
      BY <3>1 DEF Shown, NoRows
    <3> QED BY <3>2 DEF Asking, InStaging, Shown
  <2> QED BY <2>1, <2>2, <2>3
<1> QED BY <1>1, <1>2, <1>3 DEF Asking, Landing, Own

-----------------------------------------------------------------------------
(* Theorems.                                                               *)

IInv ==
  /\ Typed /\ Lists
  /\ Clean
  /\ Apart /\ Rejecting
  /\ Single /\ OwedStaged /\ Asking /\ Landing

LEMMA InitInvariant == Init => IInv
<1> SUFFICES ASSUME Init PROVE IInv
  OBVIOUS
<1>1. Typed /\ Lists
  BY InitTyped
<1>2. /\ job.pc = "idle" /\ job.reply = "" /\ job.doomed = {} /\ job.mem = NoOne /\ st = NoOne
  BY IdleIs DEF Init
<1>3. /\ NoOne.ask = "none" /\ NoOne.queue = <<>>
  BY DEF NoOne
<1>4. Clean
  BY <1>2 DEF Clean
<1>5. Apart
  <2>1. \A t \in Tables, k \in Keys : live[t][k] = 0 /\ Row(t)[k] = -1
    BY DEF Init, Blank, NoRows, Empty, NoFile, Row
  <2>2. history.doomed = {} /\ count.stamp = 0
    BY DEF Init
  <2>3. history.doomed \cup job.doomed = {}
    BY <1>2, <2>2
  <2>4. \A t \in Tables, k \in Keys : live[t][k] <= count.stamp /\ Row(t)[k] <= count.stamp
    BY <2>1, <2>2
  <2> QED BY <2>2, <2>3, <2>4 DEF Apart
<1>6. Rejecting
  BY <1>2 DEF Rejecting
<1>7. Single
  BY <1>2, <1>3, OnceEmpty DEF Single
<1>8. OwedStaged
  BY DEF Init, Blank, NoRows, OwedStaged
<1>9. Asking /\ Landing
  BY <1>2, <1>3 DEF Asking, Landing, Own
<1> QED BY <1>1, <1>4, <1>5, <1>6, <1>7, <1>8, <1>9 DEF IInv

LEMMA SameAsks ==
  ASSUME Asking, Landing, OwedStaged, UNCHANGED vars
  PROVE  Asking' /\ Landing' /\ OwedStaged'
<1>1. Somewhere' = Somewhere /\ InStaging' = InStaging
  BY QuietRows DEF vars
<1>2. \A t \in Tables : LiveAt(t)' = LiveAt(t) /\ Row(t)' = Row(t)
  BY QuietRows DEF vars
<1>3. Asking'
  BY <1>1 DEF vars, Asking
<1>4. Landing'
  BY <1>2 DEF vars, Landing
<1>5. OwedStaged'
  BY <1>2 DEF vars, OwedStaged
<1> QED BY <1>3, <1>4, <1>5

LEMMA NextInvariant == IInv /\ [Next]_vars => IInv'
<1> SUFFICES ASSUME IInv, [Next]_vars PROVE IInv'
  OBVIOUS
<1>0. /\ Typed /\ Lists /\ Clean /\ Apart /\ Rejecting /\ Single /\ OwedStaged /\ Asking /\ Landing
  BY DEF IInv
<1>1. Typed' /\ Lists'
  BY <1>0, TypedStep, ListsStep
<1>2. Clean'
  BY <1>0, CleanStep
<1>3. Apart' /\ Rejecting'
  BY <1>0, ApartStep, RejectingStep
<1>4. Single'
  BY <1>0, SingleStep
<1>5. OwedStaged' /\ Asking' /\ Landing'
  <2>1. CASE UNCHANGED vars
    BY <1>0, <2>1, SameAsks
  <2>2. CASE Next
    <3>1. OwedStaged'
      BY <1>0, <2>2, StepTypes, OwedStep
    <3>2. CASE Command
      BY <1>0, <3>1, <3>2, CommandAsks
    <3>3. CASE SettleAgain
      BY <1>0, <3>1, <3>3, SettleAgainAsks
    <3>4. CASE Derived
      BY <1>0, <3>1, <3>4, DerivedAsks
    <3>5. CASE QueueEnds
      BY <1>0, <3>1, <3>5, QueueEndsAsks
    <3>6. CASE Lifecycle \/ PairSettles \/ Mark \/ Settles \/ Completes \/ Elsewhere
      BY <1>0, <3>1, <3>6, LoopAsks
    <3>7. CASE Approve
      BY <1>0, <3>1, <3>7, ApproveAsks
    <3>8. CASE Check
      BY <1>0, <3>1, <3>8, CheckAsks
    <3>9. CASE Checks \/ WriteFacts
      BY <1>0, <3>1, <3>9, FactsAsks
    <3>10. CASE Commit
      BY <1>0, <3>1, <3>10, CommitAsks
    <3>11. CASE Clear
      BY <1>0, <3>1, <3>11, ClearAsks
    <3>12. CASE Reject
      BY <1>0, <3>1, <3>12, RejectAsks
    <3>13. CASE Discard
      BY <1>0, <3>1, <3>13, DiscardAsks
    <3>14. CASE Modify
      BY <1>0, <3>1, <3>14, ModifyAsks
    <3>15. CASE Dismiss
      BY <1>0, <3>1, <3>15, DismissAsks
    <3>16. CASE Save \/ Kill \/ Abort
      BY <1>0, <3>1, <3>16, EndAsks
    <3> QED
      BY <2>2, <3>1, <3>2, <3>3, <3>4, <3>5, <3>6, <3>7, <3>8, <3>9, <3>10,
         <3>11, <3>12, <3>13, <3>14, <3>15, <3>16 DEF Next
  <2> QED BY <2>1, <2>2
<1> QED BY <1>1, <1>2, <1>3, <1>4, <1>5 DEF IInv

\* What every state satisfies: no list of a command runs out of what it acts
\* on, what is doomed is apart from what is staged and live, and the rows a
\* question showed are in staging or have gone live.
THEOREM Invariant == Spec => []IInv
<1> QED BY InitInvariant, NextInvariant, PTL DEF Spec

\* An approval that is answered has made every row the human was shown truth,
\* whichever writer staged it, however often the approval was killed and begun
\* again (cli.py:1237-1255, checkpoint.py:95-144).
THEOREM ApprovedLands == Spec => []RowsLand
<1>1. IInv => RowsLand
  BY DEF IInv, Landing, LiveAt, Shown, RowsLand
<1> QED BY <1>1, Invariant, PTL

\* What a human rejected or replaced by edits never becomes truth, for any
\* number of writers and kills (cli.py:1256-1285, checkpoint.py:215-261).
THEOREM RejectedNeverLands == Spec => []RejectedStaysOut
<1>1. IInv => RejectedStaysOut
  BY DEF IInv, Apart, RejectedStaysOut
<1> QED BY <1>1, Invariant, PTL

\* A batch of facts operations that is refused for one of them leaves facts,
\* truth files and staging as the approval found them (settle_ops.py:127-185).
THEOREM RefusedIsClean == Spec => []RefusalIsClean
<1>1. IInv => RefusalIsClean
  BY DEF IInv, Clean, RefusalIsClean
<1> QED BY <1>1, Invariant, PTL

-----------------------------------------------------------------------------
(* The operations of a batch, counted.                                     *)

\* Of some numbers one is the least.
LEMMA LeastNumber ==
  ASSUME NEW T \in SUBSET Nat, T # {}
  PROVE  \E m \in T : \A n \in T : m <= n
<1> DEFINE R == {ss \in Nat \X Nat : ss[1] < ss[2]}
<1>1. IsWellFoundedOn(R, Nat)
  BY NatLessThanWellFounded DEF OpToRel
<1>2. PICK m \in T : \A n \in T : <<n, m>> \notin R
  <2> HIDE DEF R
  <2> QED BY <1>1, WFMin
<1>3. ASSUME NEW n \in T PROVE m <= n
  <2>1. ~(n < m)
    BY <1>2
  <2> QED BY <2>1
<1> QED BY <1>3

\* One operation more in a log, and no other more often.
LEMMA TimesAppend ==
  ASSUME NEW S, NEW log \in Seq(S), NEW e \in S, NEW op
  PROVE  /\ Append(log, e) \in Seq(S) /\ Times(op, log) \in Nat
         /\ Times(op, Append(log, e)) = Times(op, log) + IF op = e THEN 1 ELSE 0
<1> DEFINE n == Len(log)
           held == {i \in 1..n : log[i] = op}
           more == {i \in 1..(n + 1) : Append(log, e)[i] = op}
<1>1. /\ n \in Nat /\ DOMAIN log = 1..n /\ DOMAIN Append(log, e) = 1..(n + 1)
      /\ Append(log, e) \in Seq(S)
      /\ \A i \in 1..n : Append(log, e)[i] = log[i]
      /\ Append(log, e)[n + 1] = e
  OBVIOUS
<1>2. Times(op, log) = Cardinality(held) /\ Times(op, Append(log, e)) = Cardinality(more)
  BY <1>1 DEF Times
<1>0. n \in Nat
  OBVIOUS
<1> HIDE DEF n
<1>3. IsFiniteSet(1..n)
  BY <1>0, FS_Interval
<1>4. held \in SUBSET (1..n)
  OBVIOUS
<1>5. more = IF op = e THEN held \cup {n + 1} ELSE held
  BY <1>1
<1>6. n + 1 \notin held
  BY <1>1
<1> HIDE DEF held, more
<1>7. IsFiniteSet(held) /\ Cardinality(held) \in Nat
  BY <1>3, <1>4, FS_Subset, FS_CardinalityType
<1>8. Cardinality(held \cup {n + 1}) = Cardinality(held) + 1
  BY <1>6, <1>7, FS_AddElement
<1> QED BY <1>1, <1>2, <1>5, <1>7, <1>8

\* Nothing is in an empty log.
LEMMA TimesNone ==
  ASSUME NEW op
  PROVE  Times(op, <<>>) = 0
<1>1. {i \in DOMAIN <<>> : <<>>[i] = op} = {}
  OBVIOUS
<1> QED BY <1>1, FS_EmptySet DEF Times

\* What is in a log is there at least once.
LEMMA TimesHeld ==
  ASSUME NEW S, NEW log \in Seq(S), NEW op \in ToSet(log)
  PROVE  Times(op, log) # 0
<1> DEFINE held == {i \in DOMAIN log : log[i] = op}
<1>1. PICK i \in DOMAIN log : log[i] = op
  BY DEF ToSet
<1>2. IsFiniteSet(DOMAIN log)
  <2>1. Len(log) \in Nat /\ DOMAIN log = 1..Len(log)
    OBVIOUS
  <2> QED BY <2>1, FS_Interval
<1>3. held \in SUBSET DOMAIN log /\ held # {}
  BY <1>1
<1>4. Times(op, log) = Cardinality(held)
  BY DEF Times
<1> HIDE DEF held
<1> QED BY <1>2, <1>3, <1>4, FS_Subset, FS_EmptySet

\* One by one the operations of a batch are applied.
LEMMA ApplyStepwise ==
  ASSUME NEW d, NEW log, NEW batch, Len(batch) \in Nat
  PROVE  \E r : /\ r[0] = [log |-> log, legal |-> TRUE]
                /\ \A i \in 1..Len(batch) : r[i] = ApplyOne(d, r[i - 1], batch, i)
                /\ Apply(d, log, batch) = r[Len(batch)]
<1> DEFINE first == [log |-> log, legal |-> TRUE]
           one(before, i) == ApplyOne(d, before, batch, i)
           After(r, m) == r = [i \in 0..m |-> IF i = 0 THEN first ELSE one(r[i - 1], i)]
           T == {m \in Nat : ~ \E r : After(r, m)}
<1>1. \E r : After(r, 0)
  <2>1. After([i \in 0..0 |-> first], 0)
    OBVIOUS
  <2> QED BY <2>1
<1>2. ASSUME NEW m \in Nat, NEW r, After(r, m) PROVE \E q : After(q, m + 1)
  <2> DEFINE q == [i \in 0..(m + 1) |-> IF i <= m THEN r[i] ELSE one(r[m], m + 1)]
  <2> HIDE DEF one, first
  <2>1. r[0] = first
    BY <1>2
  <2>2. \A i \in 1..m : r[i] = one(r[i - 1], i)
    BY <1>2
  <2>3. \A i \in 0..(m + 1) : q[i] = IF i = 0 THEN first ELSE one(q[i - 1], i)
    <3> SUFFICES ASSUME NEW i \in 0..(m + 1)
                 PROVE  q[i] = IF i = 0 THEN first ELSE one(q[i - 1], i)
      OBVIOUS
    <3>1. CASE i = 0
      BY <2>1, <3>1
    <3>2. CASE i \in 1..m
      <4>1. q[i] = r[i] /\ q[i - 1] = r[i - 1]
        BY <3>2
      <4> QED BY <2>2, <3>2, <4>1
    <3>3. CASE i = m + 1
      <4>1. q[i] = one(r[m], m + 1) /\ q[i - 1] = r[m]
        BY <3>3
      <4> QED BY <3>3, <4>1
    <3> QED BY <3>1, <3>2, <3>3
  <2>4. After(q, m + 1)
    <3>1. q = [i \in 0..(m + 1) |-> q[i]]
      OBVIOUS
    <3> HIDE DEF q
    <3> QED BY <2>3, <3>1
  <2> QED BY <2>4
<1>3. T = {}
  <2> SUFFICES ASSUME T # {} PROVE FALSE
    OBVIOUS
  <2>1. PICK m \in T : \A n \in T : m <= n
    <3>1. T \in SUBSET Nat
      OBVIOUS
    <3> HIDE DEF T
    <3> QED BY <3>1, LeastNumber
  <2>2. m \in Nat /\ ~ \E r : After(r, m)
    OBVIOUS
  <2>3. m # 0
    BY <1>1, <2>2
  <2>4. m - 1 \in Nat /\ m - 1 \notin T
    BY <2>1, <2>2, <2>3
  <2>5. PICK r : After(r, m - 1)
    BY <2>4
  <2>6. \E q : After(q, (m - 1) + 1)
    BY <1>2, <2>4, <2>5
  <2>7. (m - 1) + 1 = m
    BY <2>2
  <2> HIDE DEF After
  <2> QED BY <2>2, <2>6, <2>7
<1> DEFINE after == CHOOSE r : After(r, Len(batch))
<1>4. After(after, Len(batch))
  <2>1. \E r : After(r, Len(batch))
    BY <1>3
  <2> HIDE DEF After
  <2> QED BY <2>1
<1>5. Apply(d, log, batch) = after[Len(batch)]
  BY DEF Apply
<1> HIDE DEF after
<1>6. after[0] = first /\ \A i \in 1..Len(batch) : after[i] = one(after[i - 1], i)
  <2> HIDE DEF one, first
  <2> QED BY <1>4
<1> QED BY <1>5, <1>6

\* How often a log that began as `log` has what is said so far: no more often
\* than before or than said, and as often as said unless it was refused.
Counts(r, log, said) ==
  /\ \A op : Times(op, r.log) <= Times(op, log) \/ Times(op, r.log) <= Times(op, said)
  /\ r.legal => \A op : Times(op, r.log) >= Times(op, said)

\* An operation occurs a number of times.
LEMMA TimesType ==
  ASSUME NEW S, NEW log \in Seq(S), NEW op
  PROVE  Times(op, log) \in Nat
<1>1. Len(log) \in Nat /\ DOMAIN log = 1..Len(log)
  OBVIOUS
<1>2. IsFiniteSet(1..Len(log))
  BY <1>1, FS_Interval
<1>3. {i \in DOMAIN log : log[i] = op} \in SUBSET (1..Len(log))
  BY <1>1
<1>4. IsFiniteSet({i \in DOMAIN log : log[i] = op})
  BY <1>2, <1>3, FS_Subset
<1> QED BY <1>4, FS_CardinalityType DEF Times

\* One operation of the batch more, and the counts still hold.
LEMMA ApplyOneCounts ==
  ASSUME NEW d, NEW S, NEW log \in Seq(S), NEW said \in Seq(S), NEW e \in S,
         NEW r \in [log : Seq(S), legal : BOOLEAN], Counts(r, log, said),
         NEW batch, NEW i, batch[i] = e, SubSeq(batch, 1, i - 1) = said
  PROVE  LET q == ApplyOne(d, r, batch, i)
         IN  q \in [log : Seq(S), legal : BOOLEAN] /\ Counts(q, log, Append(said, e))
<1> DEFINE q == ApplyOne(d, r, batch, i)
           more == Append(said, e)
<1>1. /\ r.log \in Seq(S) /\ Append(r.log, e) \in Seq(S) /\ r.legal \in BOOLEAN
      /\ r = [log |-> r.log, legal |-> r.legal]
  OBVIOUS
<1>2. \A op : /\ Times(op, r.log) \in Nat /\ Times(op, log) \in Nat /\ Times(op, said) \in Nat
              /\ Times(op, more) = Times(op, said) + IF op = e THEN 1 ELSE 0
              /\ Times(op, Append(r.log, e)) = Times(op, r.log) + IF op = e THEN 1 ELSE 0
  BY <1>1, TimesType, TimesAppend
<1>3. \A op : Times(op, r.log) <= Times(op, log) \/ Times(op, r.log) <= Times(op, said)
  BY DEF Counts
<1>4. r.legal => \A op : Times(op, r.log) >= Times(op, said)
  BY DEF Counts
<1>5. \/ q = r /\ (r.legal => Times(e, r.log) > Times(e, said))
      \/ r.legal /\ ~(Times(e, r.log) > Times(e, said)) /\ q = [r EXCEPT !.log = Append(@, e)]
      \/ q = [r EXCEPT !.legal = FALSE]
  BY DEF ApplyOne, ReplaySkip
<1> HIDE DEF q, more
<1>6. CASE q = r /\ (r.legal => Times(e, r.log) > Times(e, said))
  <2>1. \A op : Times(op, r.log) <= Times(op, log) \/ Times(op, r.log) <= Times(op, more)
    <3> TAKE op
    <3> QED BY <1>2, <1>3
  <2>2. r.legal => \A op : Times(op, r.log) >= Times(op, more)
    <3> SUFFICES ASSUME r.legal, NEW op PROVE Times(op, r.log) >= Times(op, more)
      OBVIOUS
    <3>1. CASE op = e
      BY <1>2, <1>6, <3>1
    <3>2. CASE op # e
      BY <1>2, <1>4, <3>2
    <3> QED BY <3>1, <3>2
  <2> QED BY <1>6, <2>1, <2>2 DEF Counts, q, more
<1>7. CASE r.legal /\ ~(Times(e, r.log) > Times(e, said)) /\ q = [r EXCEPT !.log = Append(@, e)]
  <2>1. q = [log |-> Append(r.log, e), legal |-> r.legal]
    BY <1>1, <1>7
  <2>2. q \in [log : Seq(S), legal : BOOLEAN] /\ q.log = Append(r.log, e)
    BY <1>1, <2>1
  <2>3. ASSUME NEW op
        PROVE  /\ Times(op, q.log) <= Times(op, log) \/ Times(op, q.log) <= Times(op, more)
               /\ Times(op, q.log) >= Times(op, more)
    <3>1. Times(op, r.log) >= Times(op, said)
      BY <1>4, <1>7
    <3>2. CASE op = e
      <4>1. Times(op, q.log) = Times(op, r.log) + 1 /\ Times(op, more) = Times(op, said) + 1
        BY <1>2, <2>2, <3>2
      <4> QED BY <1>2, <1>7, <3>1, <3>2, <4>1
    <3>3. CASE op # e
      <4>1. Times(op, q.log) = Times(op, r.log) /\ Times(op, more) = Times(op, said)
        BY <1>2, <2>2, <3>3
      <4> QED BY <1>3, <3>1, <4>1
    <3> QED BY <3>2, <3>3
  <2> QED BY <2>2, <2>3 DEF Counts, q, more
<1>8. CASE q = [r EXCEPT !.legal = FALSE]
  <2>1. q = [log |-> r.log, legal |-> FALSE]
    BY <1>1, <1>8
  <2>2. q \in [log : Seq(S), legal : BOOLEAN] /\ q.log = r.log /\ q.legal = FALSE
    BY <1>1, <2>1
  <2>3. \A op : Times(op, q.log) <= Times(op, log) \/ Times(op, q.log) <= Times(op, more)
    <3> TAKE op
    <3> QED BY <1>2, <1>3, <2>2
  <2> QED BY <2>2, <2>3 DEF Counts, q, more
<1> QED BY <1>5, <1>6, <1>7, <1>8

\* What a batch does to a log.
LEMMA ApplyCounts ==
  ASSUME NEW d, NEW S, NEW log \in Seq(S), NEW batch \in Seq(S)
  PROVE  LET r == Apply(d, log, batch)
         IN  r \in [log : Seq(S), legal : BOOLEAN] /\ Counts(r, log, batch)
<1> DEFINE n == Len(batch)
           R == [log : Seq(S), legal : BOOLEAN]
<1>1. n \in Nat
  OBVIOUS
<1>2. PICK r : /\ r[0] = [log |-> log, legal |-> TRUE]
               /\ \A i \in 1..n : r[i] = ApplyOne(d, r[i - 1], batch, i)
               /\ Apply(d, log, batch) = r[n]
  BY <1>1, ApplyStepwise
<1> DEFINE said(m) == SubSeq(batch, 1, m)
           Good(m) == r[m] \in R /\ Counts(r[m], log, said(m))
           T == {m \in 0..n : ~Good(m)}
<1>3. Good(0)
  <2>1. said(0) = <<>>
    BY SubSeqEmpty
  <2>2. r[0] \in R /\ r[0].log = log
    BY <1>2
  <2>3. \A op : Times(op, <<>>) = 0 /\ Times(op, log) \in Nat
    BY TimesNone, TimesType
  <2>4. Counts(r[0], log, <<>>)
    <3> HIDE DEF R
    <3> QED BY <2>2, <2>3 DEF Counts
  <2> QED BY <2>1, <2>2, <2>4
<1>4. ASSUME NEW m \in 1..n, Good(m - 1) PROVE Good(m)
  <2>1. /\ said(m - 1) \in Seq(S) /\ batch[m] \in S
        /\ said(m) = Append(said(m - 1), batch[m])
    <3>1. SubSeq(batch, 1, m) = SubSeq(batch, 1, m - 1) \o <<batch[m]>>
      BY SubSeqRecursiveSecond
    <3>2. SubSeq(batch, 1, m - 1) \in Seq(S) /\ batch[m] \in S
      BY SubSeqProperties
    <3> QED BY <3>1, <3>2
  <2>2. r[m] = ApplyOne(d, r[m - 1], batch, m)
    BY <1>2
  <2>3. r[m - 1] \in [log : Seq(S), legal : BOOLEAN] /\ Counts(r[m - 1], log, said(m - 1))
    BY <1>4
  <2> HIDE DEF Good
  <2>4. /\ ApplyOne(d, r[m - 1], batch, m) \in [log : Seq(S), legal : BOOLEAN]
        /\ Counts(ApplyOne(d, r[m - 1], batch, m), log, Append(said(m - 1), batch[m]))
    BY <2>1, <2>3, ApplyOneCounts
  <2> QED BY <2>1, <2>2, <2>4 DEF Good
<1>5. Good(n)
  <2> HIDE DEF n, Good
  <2> SUFFICES ASSUME T # {} PROVE FALSE
    BY <1>1
  <2>1. T \in SUBSET Nat
    BY <1>1
  <2>2. PICK m \in T : \A k \in T : m <= k
    <3> HIDE DEF T
    <3> QED BY <2>1, LeastNumber
  <2>3. m \in 1..n /\ m - 1 \in 0..n
    BY <1>1, <1>3, <2>2
  <2>4. Good(m - 1)
    BY <2>1, <2>2, <2>3
  <2> QED BY <1>4, <2>2, <2>3, <2>4
<1>6. said(n) = batch
  BY SubSeqFull
<1> QED BY <1>2, <1>5, <1>6

-----------------------------------------------------------------------------
(* The operations of the settlements, counted.                             *)

Operation == (Owners \X Owners) \cup Int
Logs      == [Dims -> Seq(Operation)]
IsBatch(b) == \A d \in Dims : b[d] \in Seq(Operation)

\* A log has no more of an operation than one of these batches.
Said(batches, log, d) ==
  \A op \in ToSet(log) : \E b \in batches : Times(op, log) <= Times(op, b[d])

\* A log has all of the batch that the approval found.
Approved      == history.before[3].ops
Full(log, d)  == \A op : Times(op, log) >= Times(op, Approved[d])
\* The dimensions that are still to be checked, or to be written.
Left(d) == \/ job.todo = <<"props", "counters">>
           \/ job.todo = <<"counters">> /\ d = "counters"

Applying ==
  /\ Approved = staging.ops /\ staging.ops \in history.asked
  /\ job.todo \in {<<"props", "counters">>, <<"counters">>, <<>>}
  /\ \A d \in Dims : Said(history.asked, job.ready[d], d)
  /\ \A d \in Dims : Left(d) \/ Full(job.ready[d], d) \/ job.pc = "facts"
  /\ job.pc = "facts" => \A d \in Dims : Full(job.ready[d], d)
  /\ job.pc = "facts" => \A d \in Dims : Left(d) \/ Full(facts[d], d)

Logged ==
  /\ facts \in Logs /\ job.ready \in Logs
  /\ IsBatch(staging.ops) /\ \A b \in history.asked : IsBatch(b)
  /\ \A d \in Dims : Said(history.asked, facts[d], d)
  /\ job.pc \in {"check", "facts"} => Applying
  /\ job.pc = "commit" \/ job.reply = "approved" => \A d \in Dims : Full(facts[d], d)

\* Whatever a dispatch puts into its sidecar is a batch.
LEMMA BatchIs ==
  /\ \A b \in Batches \cup {NoOps} : IsBatch(b)
  /\ NoOps \in Logs
<1>1. Dims = {"props", "counters"}
  BY DEF Dims
<1>2. IsBatch(NoOps) /\ NoOps \in Logs
  BY DEF IsBatch, NoOps, Logs
<1>3. ASSUME NEW b \in Batches PROVE IsBatch(b)
  <2>1. b["props"] \in Seq(Owners \X Owners) /\ b["counters"] \in Seq(Int)
    BY SettlementAssumption
  <2>2. \A S, T : S \subseteq T => Seq(S) \subseteq Seq(T)
    <3> SUFFICES ASSUME NEW S, NEW T, S \subseteq T, NEW s \in Seq(S) PROVE s \in Seq(T)
      OBVIOUS
    <3>1. Len(s) \in Nat /\ s \in [1..Len(s) -> S]
      BY LenProperties
    <3>2. s \in [1..Len(s) -> T]
      BY <3>1
    <3> QED BY <3>1, <3>2, SeqDef
  <2>3. Seq(Owners \X Owners) \subseteq Seq(Operation) /\ Seq(Int) \subseteq Seq(Operation)
    BY <2>2 DEF Operation
  <2> QED BY <1>1, <2>1, <2>3 DEF IsBatch
<1> QED BY <1>2, <1>3

\* Most steps leave the facts alone and answer nothing.
LEMMA QuietLogged ==
  ASSUME Logged, facts' = facts, history'.asked = history.asked, job'.ready \in Logs,
         IsBatch(staging'.ops), job'.pc \notin {"check", "facts", "commit"},
         job'.reply # "approved"
  PROVE  Logged'
  BY DEF Logged, Said

\* A settlement lands: its operations are those of a batch.
LEMMA LandBatch ==
  ASSUME Logged, StagingType(staging), NEW n, NEW k, NEW batch \in Batches, Land(n, k, batch)
  PROVE  IsBatch(staging'.ops) /\ facts' = facts
<1> DEFINE landed == {WriteOrder[i] : i \in 1..n}
           sealed == IF "decisions" \in landed
                     THEN [staging EXCEPT !.ops = batch, !.sidecar = TRUE] ELSE staging
           hooks  == IF "hooks" \in landed THEN Put(sealed, "hooks", k) ELSE sealed
           put    == IF "matrix" \in landed THEN Put(hooks, "matrix", k) ELSE hooks
<1>1. staging' = put /\ facts' = facts
  BY DEF Land
<1> HIDE DEF landed
<1>2. DOMAIN staging = {"rows", "ops", "sidecar", "marked"}
  BY DEF StagingType
<1>3. \A s, t : DOMAIN s = {"rows", "ops", "sidecar", "marked"} =>
        /\ Put(s, t, k).ops = s.ops /\ DOMAIN Put(s, t, k) = {"rows", "ops", "sidecar", "marked"}
  BY DEF Put
<1>4. sealed.ops \in {staging.ops, batch} /\ DOMAIN sealed = {"rows", "ops", "sidecar", "marked"}
  BY <1>2
<1> HIDE DEF sealed
<1>5. hooks.ops = sealed.ops /\ DOMAIN hooks = {"rows", "ops", "sidecar", "marked"}
  BY <1>3, <1>4
<1> HIDE DEF hooks
<1>6. put.ops = hooks.ops
  BY <1>3, <1>5
<1>7. IsBatch(staging.ops) /\ IsBatch(batch)
  BY BatchIs DEF Logged
<1> QED BY <1>1, <1>4, <1>5, <1>6, <1>7

\* Going on within a command keeps what is ready and the answer.
LEMMA GotoKeeps ==
  ASSUME JobType(job), NEW pc, NEW mem, NEW todo, Goto(pc, mem, todo)
  PROVE  /\ job'.pc = pc /\ job'.todo = todo /\ job'.ready = job.ready
         /\ job'.reply = job.reply
  BY DEF JobType, Goto

\* A command that is over has nothing ready.
LEMMA IdleKeeps ==
  ASSUME NEW reply
  PROVE  /\ Idle(reply).ready \in Logs /\ Idle(reply).pc = "idle" /\ Idle(reply).reply = reply
  BY BatchIs DEF Idle

\* Emptied or kept, staging holds a batch.
LEMMA KeptBatch ==
  ASSUME Logged, StagingType(staging)
  PROVE  IsBatch(KeepMarked.ops) /\ IsBatch(Empty.ops)
<1>1. KeepMarked.ops \in {staging.ops, NoOps}
  BY DEF KeepMarked, StagingType
<1> QED BY <1>1, BatchIs DEF Logged, Empty

\* The steps of the commands that run the loop.
LEMMA LoopLogged ==
  ASSUME Logged, Typed, Landing,
         \/ Command \/ SettleAgain \/ Derived \/ QueueEnds \/ Lifecycle \/ PairSettles
         \/ Mark \/ Settles \/ Completes \/ Elsewhere
  PROVE  Logged'
<1>1. StagingType(staging) /\ JobType(job) /\ HistoryType(history)
  BY DEF Typed
<1>2. /\ facts \in Logs /\ job.ready \in Logs /\ IsBatch(staging.ops)
      /\ job.pc # "save" => job.reply # "approved"
  BY DEF Logged, Landing
<1>3. CASE Command
  <2>1. job' = [Idle("") EXCEPT !.pc = "queue", !.mem = st, !.todo = st.queue]
        /\ facts' = facts /\ history' = history /\ staging' \in {KeepMarked, staging}
    BY <1>3 DEF Command
  <2>2. job'.pc = "queue" /\ job'.reply = "" /\ job'.ready = NoOps
    BY <2>1 DEF Idle
  <2>3. IsBatch(staging'.ops)
    BY <1>1, <1>2, <2>1, KeptBatch
  <2> QED BY <2>1, <2>2, <2>3, BatchIs, QuietLogged
<1>4. CASE SettleAgain
  <2>1. PICK n \in 0..Len(WriteOrder), k \in Keys, batch \in Batches, passes \in BOOLEAN :
          /\ Land(n, k, batch)
          /\ \/ /\ Goto("queue", [job.mem EXCEPT !.ask = "settle"], Tail(job.todo))
                /\ Asks(owed')
             \/ /\ job' = [job EXCEPT !.todo = Tail(@), !.kept = Append(@, "settle")]
                /\ UNCHANGED history
    BY <1>4 DEF SettleAgain
  <2>2. job.pc = "queue"
    BY <1>4 DEF SettleAgain, Running
  <2>3. job'.pc = "queue" /\ job'.reply = job.reply /\ job'.ready = job.ready
    BY <1>1, <2>1, <2>2, GotoKeeps DEF JobType
  <2>4. history'.asked = history.asked
    BY <1>1, <2>1 DEF Asks, HistoryType
  <2>5. IsBatch(staging'.ops) /\ facts' = facts
    BY <1>1, <2>1, LandBatch
  <2> QED BY <1>2, <2>2, <2>3, <2>4, <2>5, QuietLogged
<1>5. CASE Derived
  <2>1. job.pc = "queue" /\ UNCHANGED <<staging, facts, history>>
    BY <1>5 DEF Derived, Running
  <2>2. job'.pc = "queue" /\ job'.reply = job.reply /\ job'.ready = job.ready
    BY <1>1, <1>5, <2>1, GotoKeeps DEF JobType, Derived
  <2> QED BY <1>2, <2>1, <2>2, QuietLogged
<1>6. CASE QueueEnds
  <2>1. job.pc = "queue" /\ UNCHANGED <<staging, facts, history>>
    BY <1>6 DEF QueueEnds, Running
  <2>2. job'.pc \in {"loop", "save"} /\ job'.reply = job.reply /\ job'.ready = job.ready
    BY <1>1, <1>6 DEF JobType, QueueEnds
  <2> QED BY <1>2, <2>1, <2>2, QuietLogged
<1>7. CASE Lifecycle
  <2>1. PICK k \in Keys : staging' = Put(staging, "hooks", k)
    BY <1>7 DEF Lifecycle
  <2>2. job.pc = "loop" /\ UNCHANGED <<facts, history>>
    BY <1>7 DEF Lifecycle, Running
  <2>3. staging'.ops = staging.ops
    BY <1>1, <2>1 DEF Put, StagingType
  <2>4. job'.pc = "loop" /\ job'.reply = job.reply /\ job'.ready = job.ready
    BY <1>1, <1>7, GotoKeeps DEF Lifecycle
  <2> QED BY <1>2, <2>2, <2>3, <2>4, QuietLogged
<1>8. CASE PairSettles \/ Settles
  <2>1. PICK n \in 0..Len(WriteOrder), k \in Keys, batch \in Batches : Land(n, k, batch)
    BY <1>8 DEF PairSettles, Settles
  <2>2. job.pc = "loop"
    BY <1>8 DEF PairSettles, Settles, Running
  <2>3. /\ \E pc \in {"mark", "save", "loop"} : \E mem, todo : Goto(pc, mem, todo)
        /\ (history' = history \/ Asks(owed'))
    BY <1>8 DEF PairSettles, Settles
  <2>4. job'.pc \in {"mark", "save", "loop"} /\ job'.reply = job.reply /\ job'.ready = job.ready
    BY <1>1, <2>3, GotoKeeps
  <2>5. history'.asked = history.asked
    BY <1>1, <2>3 DEF Asks, HistoryType
  <2>6. IsBatch(staging'.ops) /\ facts' = facts
    BY <1>1, <2>1, LandBatch
  <2> QED BY <1>2, <2>2, <2>4, <2>5, <2>6, QuietLogged
<1>9. CASE Mark \/ Completes \/ Elsewhere
  <2>1. job.pc \in {"mark", "loop"} /\ facts' = facts
    BY <1>9 DEF Mark, Completes, Elsewhere, Running
  <2>2. history' = history \/ Asks(owed)
    BY <1>9 DEF Mark, Completes, Elsewhere
  <2>3. history'.asked = history.asked
    BY <1>1, <2>2 DEF Asks, HistoryType
  <2>4. staging'.ops = staging.ops
    BY <1>1, <1>9 DEF Mark, Completes, Elsewhere, StagingType
  <2>5. job'.pc = "save" /\ job'.reply = job.reply /\ job'.ready = job.ready
    BY <1>1, <1>9, GotoKeeps DEF Mark, Completes, Elsewhere
  <2> QED BY <1>2, <2>1, <2>3, <2>4, <2>5, QuietLogged
<1> QED BY <1>3, <1>4, <1>5, <1>6, <1>7, <1>8, <1>9

\* Other answers, and the end of a command.
LEMMA EndLogged ==
  ASSUME Logged, Typed, Landing,
         Reject \/ Discard \/ Modify \/ Dismiss \/ Save \/ Kill \/ Abort
  PROVE  Logged'
<1>1. StagingType(staging) /\ JobType(job) /\ HistoryType(history)
  BY DEF Typed
<1>2. /\ facts \in Logs /\ job.ready \in Logs /\ IsBatch(staging.ops)
      /\ job.pc # "save" => job.reply # "approved"
  BY DEF Logged, Landing
<1>3. CASE Reject \/ Modify
  <2>1. \E pc \in {"save", "discard"} : \E todo, queue : Decide(pc, todo, queue)
    BY <1>3 DEF Reject, Modify
  <2>2. /\ job'.pc \in {"save", "discard"} /\ job'.reply = "" /\ job'.ready = NoOps
        /\ facts' = facts /\ history'.asked = history.asked
    BY <1>1, <2>1 DEF Decide, Idle, HistoryType
  <2>3. IsBatch(staging'.ops)
    BY <1>1, <1>2, <1>3, KeptBatch DEF Reject, Modify
  <2> QED BY <2>2, <2>3, BatchIs, QuietLogged
<1>4. CASE Discard
  <2>1. job.pc = "discard" /\ facts' = facts /\ history' = history
    BY <1>4 DEF Discard, Running
  <2>2. /\ job'.pc \in {"save", "discard"} /\ job'.reply = job.reply /\ job'.ready = job.ready
    <3>1. \E pc \in {"save", "discard"} : \E mem, todo : Goto(pc, mem, todo)
      BY <1>4 DEF Discard
    <3> QED BY <1>1, <3>1, GotoKeeps
  <2>3. staging'.ops \in {staging.ops, NoOps}
    BY <1>1, <1>4 DEF Discard, StagingType
  <2>4. IsBatch(staging'.ops)
    BY <1>2, <2>3, BatchIs
  <2> QED BY <1>2, <2>1, <2>2, <2>4, QuietLogged
<1>5. CASE Dismiss
  <2>1. facts' = facts /\ history' = history /\ staging' = staging
    BY <1>5 DEF Dismiss
  <2>2. /\ job'.pc = "save" /\ job'.reply = "" /\ job'.ready = NoOps
    BY <1>5 DEF Dismiss, Idle
  <2> QED BY <1>2, <2>1, <2>2, BatchIs, QuietLogged
<1>6. CASE Save \/ Kill \/ Abort
  <2>1. facts' = facts /\ job' \in {Idle(""), Idle("aborted")}
    BY <1>6 DEF Save, Kill, Abort, Dies
  <2>2. history'.asked = history.asked
    BY <1>1, <1>6 DEF Save, Kill, Abort, HistoryType
  <2>3. IsBatch(staging'.ops)
    BY <1>1, <1>2, <1>6, KeptBatch DEF Save, Kill, Abort
  <2> QED BY <1>2, <2>1, <2>2, <2>3, IdleKeeps, QuietLogged
<1> QED BY <1>3, <1>4, <1>5, <1>6

\* What is not in a log occurs no time.
LEMMA TimesZero ==
  ASSUME NEW log, NEW op, op \notin ToSet(log)
  PROVE  Times(op, log) = 0
<1>1. {i \in DOMAIN log : log[i] = op} = {}
  BY DEF ToSet
<1> QED BY <1>1, FS_EmptySet DEF Times

\* One batch more has been said.
LEMMA SaidMore ==
  ASSUME NEW batches, NEW more, batches \subseteq more, NEW log, NEW d, Said(batches, log, d)
  PROVE  Said(more, log, d)
  BY DEF Said

\* A dimension is checked: its log has what was said before or is said now.
LEMMA CheckedSaid ==
  ASSUME Logged, NEW d \in Dims, staging.ops \in history.asked,
         NEW r, r = Apply(d, facts[d], staging.ops[d])
  PROVE  /\ r.log \in Seq(Operation) /\ r.legal \in BOOLEAN
         /\ Said(history.asked, r.log, d)
         /\ r.legal => \A op : Times(op, r.log) >= Times(op, staging.ops[d])
<1>1. facts[d] \in Seq(Operation) /\ staging.ops[d] \in Seq(Operation)
  BY DEF Logged, Logs, IsBatch
<1>2. r \in [log : Seq(Operation), legal : BOOLEAN] /\ Counts(r, facts[d], staging.ops[d])
  BY <1>1, ApplyCounts
<1>3. r.log \in Seq(Operation) /\ r.legal \in BOOLEAN
  BY <1>2
<1>4. Said(history.asked, r.log, d)
  <2> SUFFICES ASSUME NEW op \in ToSet(r.log)
               PROVE  \E b \in history.asked : Times(op, r.log) <= Times(op, b[d])
    BY DEF Said
  <2>1. Times(op, r.log) \in Nat /\ Times(op, r.log) # 0 /\ Times(op, facts[d]) \in Nat
    BY <1>1, <1>3, TimesType, TimesHeld
  <2>2. CASE Times(op, r.log) <= Times(op, facts[d])
    <3>1. op \in ToSet(facts[d])
      <4>1. Times(op, facts[d]) # 0
        BY <2>1, <2>2
      <4> QED BY <4>1, TimesZero
    <3>2. PICK b \in history.asked : Times(op, facts[d]) <= Times(op, b[d])
      BY <3>1 DEF Logged, Said
    <3>3. Times(op, b[d]) \in Nat
      <4>1. b[d] \in Seq(Operation)
        BY DEF Logged, IsBatch
      <4> QED BY <4>1, TimesType
    <3> QED BY <2>1, <2>2, <3>2, <3>3
  <2>3. CASE Times(op, r.log) <= Times(op, staging.ops[d])
    BY <2>3
  <2> QED BY <1>2, <2>2, <2>3 DEF Counts
<1> QED BY <1>2, <1>3, <1>4 DEF Counts

\* An approval begins: its batch is said.
LEMMA ApproveLogged ==
  ASSUME Logged, Typed, Approve
  PROVE  Logged'
<1>1. StagingType(staging) /\ JobType(job) /\ HistoryType(history)
  BY DEF Typed
<1>2. /\ job' = [Idle("") EXCEPT !.pc = "check", !.mem = [st EXCEPT !.ask = "none"],
                                 !.todo = <<"props", "counters">>, !.ready = facts]
      /\ history' = [history EXCEPT !.before = <<facts, live, staging>>,
                                    !.asked = @ \cup {staging.ops}]
      /\ UNCHANGED <<staging, facts>>
  BY DEF Approve
<1>3. /\ job'.pc = "check" /\ job'.todo = <<"props", "counters">> /\ job'.ready = facts
      /\ job'.reply = ""
  BY <1>2 DEF Idle
<1>4. /\ history'.asked = history.asked \cup {staging.ops}
      /\ history'.before = <<facts, live, staging>>
  BY <1>1, <1>2 DEF HistoryType
<1>5. Approved' = staging.ops
  <2>1. history'.before[3] = staging
    BY <1>4
  <2> QED BY <2>1 DEF Approved
<1>6. /\ facts \in Logs /\ IsBatch(staging.ops) /\ \A b \in history'.asked : IsBatch(b)
      /\ \A d \in Dims : Said(history.asked, facts[d], d)
  BY <1>4 DEF Logged
<1>7. \A d \in Dims : Said(history'.asked, facts[d], d)
  <2>1. history.asked \subseteq history'.asked
    BY <1>4
  <2> QED BY <1>6, <2>1, SaidMore
<1>8. Applying'
  <2>1. staging'.ops = staging.ops /\ staging.ops \in history'.asked
    BY <1>2, <1>4
  <2>2. \A d \in Dims : Left(d)'
    BY <1>3 DEF Left
  <2>3. job'.pc # "facts"
    BY <1>3
  <2> QED BY <1>3, <1>5, <1>7, <2>1, <2>2, <2>3 DEF Applying
<1> QED BY <1>2, <1>3, <1>6, <1>7, <1>8 DEF Logged

\* The dimensions, one after the other.
LEMMA Sequences ==
  /\ Head(<<"props", "counters">>) = "props" /\ Tail(<<"props", "counters">>) = <<"counters">>
  /\ Head(<<"counters">>) = "counters" /\ Tail(<<"counters">>) = <<>>
  /\ Len(<<"props", "counters">>) = 2 /\ Len(<<"counters">>) = 1 /\ Len(<<>>) = 0
  /\ <<"props", "counters">> # <<"counters">>
  /\ <<>> # <<"counters">> /\ <<"props", "counters">> # <<>>
  /\ Dims = {"props", "counters"}
  BY DEF Dims

\* A dimension is checked: it is ready, or the approval is refused.
LEMMA CheckLogged ==
  ASSUME Logged, Typed, Landing, Check
  PROVE  Logged'
<1> DEFINE d == Head(job.todo)
           r == Apply(d, facts[d], staging.ops[d])
<1>1. JobType(job) /\ job.reply # "approved" /\ facts \in Logs /\ job.ready \in Logs
  <2>1. job.pc = "check"
    BY DEF Check, Running
  <2> QED BY <2>1 DEF Typed, Landing, Logged
<1>2. /\ job.pc = "check" /\ job.todo # <<>> /\ UNCHANGED <<facts, staging, history>>
      /\ job' = IF r.legal THEN [job EXCEPT !.todo = Tail(@), !.ready[d] = r.log]
                ELSE Idle("refused")
  BY DEF Check, Checked, Running
<1>3. Applying
  BY <1>2 DEF Logged
<1>4. /\ d \in Dims /\ job.todo \in {<<"props", "counters">>, <<"counters">>}
  BY <1>2, <1>3, Sequences DEF Applying
<1>5. /\ r.log \in Seq(Operation) /\ r.legal \in BOOLEAN /\ Said(history.asked, r.log, d)
      /\ r.legal => \A op : Times(op, r.log) >= Times(op, staging.ops[d])
  BY <1>3, <1>4, CheckedSaid DEF Applying
<1> HIDE DEF r
<1>6. CASE ~r.legal
  <2>1. job'.pc = "idle" /\ job'.reply = "refused" /\ job'.ready \in Logs
    BY <1>2, <1>6, IdleKeeps
  <2> QED BY <1>2, <2>1, QuietLogged DEF Logged
<1>7. CASE r.legal
  <2>1. /\ job'.pc = "check" /\ job'.todo = Tail(job.todo) /\ job'.reply = job.reply
        /\ job'.ready = [job.ready EXCEPT ![d] = r.log]
    BY <1>1, <1>2, <1>7 DEF JobType
  <2>2. /\ job'.ready \in Logs /\ job'.ready[d] = r.log
        /\ \A e \in Dims : e # d => job'.ready[e] = job.ready[e]
    BY <1>1, <1>4, <1>5, <2>1 DEF Logs
  <2>3. job'.todo \in {<<"counters">>, <<>>}
    BY <1>4, <2>1, Sequences
  <2>4. Approved' = Approved /\ Approved = staging.ops
    BY <1>2, <1>3 DEF Approved, Applying
  <2>5. ASSUME NEW e \in Dims PROVE Said(history.asked, job'.ready[e], e)
    BY <1>3, <1>5, <2>2 DEF Applying
  <2>6. ASSUME NEW e \in Dims PROVE Left(e)' \/ Full(job.ready[e], e)'
    <3>1. CASE e = d
      BY <1>5, <1>7, <2>2, <2>4, <3>1 DEF Full
    <3>2. CASE e # d
      <4>1. Left(e) => Left(e)'
        BY <1>4, <2>1, <3>2, Sequences DEF Left
      <4>2. Left(e) \/ Full(job.ready[e], e)
        BY <1>2, <1>3 DEF Applying
      <4>3. Full(job.ready[e], e) => Full(job.ready[e], e)'
        BY <2>2, <2>4, <3>2 DEF Full
      <4> QED BY <4>1, <4>2, <4>3
    <3> QED BY <3>1, <3>2
  <2>7. Applying'
    BY <1>2, <1>3, <2>1, <2>3, <2>4, <2>5, <2>6 DEF Applying
  <2> QED BY <1>1, <1>2, <2>1, <2>2, <2>7 DEF Logged
<1> QED BY <1>5, <1>6, <1>7

\* Every dimension is checked: what is ready has the whole batch.
LEMMA ChecksLogged ==
  ASSUME Logged, Typed, Landing, Checks
  PROVE  Logged'
<1>1. /\ job.pc = "check" /\ job.todo = <<>> /\ UNCHANGED <<staging, facts, history>>
      /\ Goto("facts", job.mem, <<"props", "counters">>)
  BY DEF Checks, Running
<1>2. /\ JobType(job) /\ job.reply # "approved" /\ Applying
  BY <1>1 DEF Typed, Landing, Logged
<1>3. /\ job'.pc = "facts" /\ job'.todo = <<"props", "counters">>
      /\ job'.ready = job.ready /\ job'.reply = job.reply
  BY <1>1, <1>2, GotoKeeps
<1>4. Approved' = Approved
  BY <1>1 DEF Approved
<1>5. ASSUME NEW d \in Dims PROVE Full(job.ready[d], d)
  <2>1. ~Left(d)
    BY <1>1, Sequences DEF Left
  <2> QED BY <1>1, <1>2, <2>1 DEF Applying
<1>6. ASSUME NEW d \in Dims PROVE Full(job.ready[d], d)'
  BY <1>3, <1>4, <1>5 DEF Full
<1>7. ASSUME NEW d \in Dims PROVE Left(d)'
  BY <1>3 DEF Left
<1>8. Applying'
  BY <1>1, <1>2, <1>3, <1>4, <1>6, <1>7 DEF Applying
<1> QED BY <1>1, <1>2, <1>3, <1>8 DEF Logged

\* A dimension is written: what is ready becomes its log.
LEMMA WriteFactsLogged ==
  ASSUME Logged, Typed, Landing, Lists, WriteFacts
  PROVE  Logged'
<1> DEFINE d == Head(job.todo)
<1>1. /\ job.pc = "facts" /\ UNCHANGED <<staging, history>>
      /\ facts' = [facts EXCEPT ![d] = job.ready[d]]
      /\ IF Len(job.todo) = 1
         THEN job' = [job EXCEPT !.pc = "commit", !.todo = ToCommit, !.ready = NoOps]
         ELSE Goto("facts", job.mem, Tail(job.todo))
  BY DEF WriteFacts, Running
<1>2. /\ JobType(job) /\ job.reply # "approved" /\ Applying
      /\ facts \in Logs /\ job.ready \in Logs
  BY <1>1 DEF Typed, Landing, Logged
<1>3. job.todo \in {<<"props", "counters">>, <<"counters">>}
  <2>1. job.todo # <<>>
    BY <1>1 DEF Lists
  <2> QED BY <1>2, <2>1 DEF Applying
<1>4. d \in Dims
  BY <1>3, Sequences
<1>5. Approved' = Approved
  BY <1>1 DEF Approved
<1>6. /\ facts' \in Logs /\ facts'[d] = job.ready[d]
      /\ \A e \in Dims : e # d => facts'[e] = facts[e]
  BY <1>1, <1>2, <1>4 DEF Logs
<1>7. ASSUME NEW e \in Dims PROVE Said(history.asked, facts'[e], e)
  BY <1>2, <1>4, <1>6 DEF Applying, Logged
<1>8. ASSUME NEW e \in Dims
      PROVE  /\ Full(job.ready[e], e)
             /\ e = d \/ Left(e) \/ Full(facts[e], e)
  BY <1>1, <1>2 DEF Applying
<1>9. CASE job.todo = <<"counters">>
  <2>1. job' = [job EXCEPT !.pc = "commit", !.todo = ToCommit, !.ready = NoOps]
    BY <1>1, <1>9, Sequences
  <2>2. job'.pc = "commit" /\ job'.ready = NoOps /\ job'.reply = job.reply
    BY <1>2, <2>1 DEF JobType
  <2>3. ASSUME NEW e \in Dims PROVE Full(facts[e], e)'
    <3>1. e # d => ~Left(e)
      <4>1. d = "counters" /\ job.todo # <<"props", "counters">>
        BY <1>9, Sequences
      <4> QED BY <4>1 DEF Left
    <3>2. CASE e = d
      <4>1. facts'[e] = job.ready[e]
        BY <1>6, <3>2
      <4> QED BY <1>5, <1>8, <4>1 DEF Full
    <3>3. CASE e # d
      <4>1. Full(facts[e], e) /\ facts'[e] = facts[e]
        BY <1>6, <1>8, <3>1, <3>3
      <4> QED BY <1>5, <4>1 DEF Full
    <3> QED BY <3>2, <3>3
  <2> QED BY <1>1, <1>2, <1>6, <1>7, <2>2, <2>3, BatchIs DEF Logged
<1>10. CASE job.todo = <<"props", "counters">>
  <2>1. Goto("facts", job.mem, <<"counters">>)
    BY <1>1, <1>10, Sequences
  <2>2. /\ job'.pc = "facts" /\ job'.todo = <<"counters">>
        /\ job'.ready = job.ready /\ job'.reply = job.reply
    BY <1>2, <2>1, GotoKeeps
  <2>3. ASSUME NEW e \in Dims PROVE Left(e)' \/ Full(facts[e], e)'
    <3>1. e = "counters" => Left(e)'
      BY <2>2 DEF Left
    <3>2. e # "counters" => facts'[e] = job.ready[e]
      BY <1>6, <1>10, Sequences
    <3> QED BY <1>5, <1>8, <3>1, <3>2 DEF Full
  <2>4. ASSUME NEW e \in Dims PROVE Full(job.ready[e], e)'
    BY <1>5, <1>8, <2>2 DEF Full
  <2>5. Applying'
    BY <1>1, <1>2, <1>5, <2>2, <2>3, <2>4 DEF Applying
  <2> QED BY <1>1, <1>2, <1>6, <1>7, <2>2, <2>5 DEF Logged
<1> QED BY <1>3, <1>9, <1>10

\* The facts are written: the files follow, and the answer.
LEMMA CommitLogged ==
  ASSUME Logged, Typed, Commit \/ Clear
  PROVE  Logged'
<1>1. /\ job.pc = "commit" /\ UNCHANGED <<facts, history>>
  BY DEF Commit, Clear, Running
<1>2. JobType(job) /\ StagingType(staging) /\ \A d \in Dims : Full(facts[d], d)
  BY <1>1 DEF Typed, Logged
<1>3. job'.pc \in {"commit", "save"} /\ job'.ready = job.ready
  BY <1>1, <1>2, GotoKeeps DEF Commit, Clear, JobType
<1>4. staging'.ops \in {staging.ops, NoOps}
  BY <1>2 DEF Commit, Clear, StagingType, Empty
<1>5. IsBatch(staging'.ops)
  BY <1>4, BatchIs DEF Logged
<1>6. ASSUME NEW d \in Dims PROVE Full(facts[d], d)'
  BY <1>1, <1>2 DEF Full, Approved
<1> QED BY <1>1, <1>3, <1>5, <1>6 DEF Logged

\* At first no operation was said and none applied.
LEMMA InitLogged == Init => Logged
<1> SUFFICES ASSUME Init PROVE Logged
  OBVIOUS
<1>1. /\ facts = NoOps /\ staging = Empty /\ job = Idle("") /\ history.asked = {}
  BY DEF Init
<1>2. /\ job.ready = NoOps /\ job.pc = "idle" /\ job.reply = "" /\ staging.ops = NoOps
  BY <1>1 DEF Idle, Empty
<1>3. ASSUME NEW d \in Dims PROVE Said(history.asked, facts[d], d)
  <2>1. facts[d] = <<>>
    BY <1>1 DEF NoOps
  <2> QED BY <2>1 DEF Said, ToSet
<1> QED BY <1>1, <1>2, <1>3, BatchIs DEF Logged

\* Every step keeps the count.
LEMMA LoggedNext == IInv /\ Logged /\ [Next]_vars => Logged'
<1> SUFFICES ASSUME IInv, Logged, [Next]_vars PROVE Logged'
  OBVIOUS
<1>1. Typed /\ Landing /\ Lists
  BY DEF IInv
<1>2. CASE UNCHANGED vars
  BY <1>2 DEF vars, Logged, Applying, Approved, Full, Left, Said
<1>3. CASE \/ Command \/ SettleAgain \/ Derived \/ QueueEnds \/ Lifecycle \/ PairSettles
           \/ Mark \/ Settles \/ Completes \/ Elsewhere
  BY <1>1, <1>3, LoopLogged
<1>4. CASE Reject \/ Discard \/ Modify \/ Dismiss \/ Save \/ Kill \/ Abort
  BY <1>1, <1>4, EndLogged
<1>5. CASE Approve \/ Check \/ Checks \/ WriteFacts \/ Commit \/ Clear
  BY <1>1, <1>5, ApproveLogged, CheckLogged, ChecksLogged, WriteFactsLogged, CommitLogged
<1> QED BY <1>2, <1>3, <1>4, <1>5 DEF Next

\* However often an approval is killed and repeated and a chapter settled
\* again, a facts operation counts as often as a settlement said it, and an
\* approval that is answered has applied all of its own (settle_ops.py:37-124,
\* 127-185).
THEOREM FactsCounted == Spec => []FactsOnce
<1>1. Logged => FactsOnce
  <2> SUFFICES ASSUME Logged PROVE FactsOnce
    OBVIOUS
  <2>1. \A d \in Dims : \A op \in ToSet(facts[d]) :
          \E b \in history.asked : Times(op, facts[d]) <= Times(op, b[d])
    BY DEF Logged, Said
  <2>2. job.reply = "approved" =>
          \A d \in Dims : \A op \in ToSet(Approved[d]) :
            Times(op, facts[d]) >= Times(op, Approved[d])
    BY DEF Logged, Full
  <2> QED BY <2>1, <2>2 DEF FactsOnce, Approved
<1>2. Spec => []IInv
  BY Invariant
<1>3. Spec => []Logged
  BY <1>2, InitLogged, LoggedNext, PTL DEF Spec
<1> QED BY <1>1, <1>3, PTL
=============================================================================

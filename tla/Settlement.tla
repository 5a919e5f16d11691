----------------------------- MODULE Settlement -----------------------------
(***************************************************************************)
(* One chapter's settlement on its way to the truth files: the writers     *)
(* that merge increments into the staged tables, the commit that merges    *)
(* the staged tables into the live ones, the facts operations of the       *)
(* decisions sidecar that are applied with it, the answers of the reviewer *)
(* and the writers that go to the live tables directly.  Every command may *)
(* be killed between two of its writes.  Of a row only the stamp of the    *)
(* write that made it is kept.                                             *)
(***************************************************************************)
EXTENDS Integers, Sequences, FiniteSets, SequencesExt

CONSTANTS
  Keys,       \* keys of the rows of a table
  Owners,     \* who may own the one prop
  FirstOwner, \* who owns it before the chapter
  Batches,    \* facts_ops a dispatch may put into its sidecar
  MaxStamp,   \* bound: writers that run
  MaxKills    \* bound: processes killed or aborted

Dims   == {"props", "counters"}
Tables == {"matrix", "hooks"}        \* character_matrix.md, pending_hooks.md
Targets == Tables \cup {"decisions"} \* and state-settling-decisions.json
\* The order of the dispatched files.
WriteOrder  == <<"decisions", "hooks", "matrix">>

Stamps == 0..MaxStamp                \* 0: there is no such row
Rows   == [Keys -> Stamps]
NoRows == [k \in Keys |-> 0]
Blank  == [t \in Tables |-> NoRows]
NoFile == [k \in Keys |-> -1]
NoOps  == [d \in Dims |-> <<>>]

ASSUME SettlementAssumption ==
  /\ MaxStamp \in Nat /\ MaxKills \in Nat /\ FirstOwner \in Owners
  /\ \A b \in Batches : /\ DOMAIN b = Dims
                        /\ b["props"] \in Seq(Owners \X Owners)
                        /\ b["counters"] \in Seq(Int)

VARIABLES
  live,    \* truth/*.md
  staging, \* staging/: tables, sidecar, checkpointed marks
  facts,   \* truth/facts: the ops_log of a dimension, its facts follow from it
  st,      \* the state file
  job,     \* the running command
  count,   \* what is bounded: stamps given, kills
  owed,    \* rows the writers put into staging and nothing took out since
  history  \* shown: owed when the question was asked; doomed: rows rejected;
           \* asked: batches an approval began to apply; before: what the
           \* approval found
vars == <<live, staging, facts, st, job, count, owed, history>>

Empty == [rows |-> [t \in Tables |-> NoFile], ops |-> NoOps, sidecar |-> FALSE,
          marked |-> {}]
Staged(t) == IF t = "decisions" THEN staging.sidecar ELSE staging.rows[t] # NoFile
StagedTargets == {t \in Targets : Staged(t)}

Questions == {"none", "settle", "chapter", "escalation"}
Entries   == {"settle", "derived"}  \* the skills that derive from the truth as one
Places    == {"pair", "serial", "past", "next"}
Pcs == {"idle", "queue", "loop", "mark", "check", "facts", "commit", "discard", "save"}

TypeOK ==
  /\ live \in [Tables -> Rows]
  /\ staging.rows \in [Tables -> Rows \cup {NoFile}]
  /\ staging.ops \in Batches \cup {NoOps} /\ staging.sidecar \in BOOLEAN
  /\ staging.marked \subseteq Targets
  /\ DOMAIN facts = Dims
  /\ facts["props"] \in Seq(Owners \X Owners) /\ facts["counters"] \in Seq(Nat)
  /\ st \in [at : Places, ask : Questions, queue : Seq(Entries)]
  /\ job.pc \in Pcs /\ job.mem \in [at : Places, ask : Questions, queue : Seq(Entries)]
  /\ job.todo \in Seq(Targets \cup Dims \cup Entries)
  /\ job.reply \in {"", "approved", "refused", "aborted"}
  /\ count.stamp \in Stamps /\ count.kills \in 0..MaxKills

NoOne == [at |-> "pair", ask |-> "none", queue |-> <<>>]
Idle(reply) == [pc |-> "idle", mem |-> NoOne, todo |-> <<>>, kept |-> <<>>,
                ready |-> NoOps, reply |-> reply, doomed |-> {}]

Init ==
  /\ live = Blank /\ staging = Empty /\ facts = NoOps
  /\ st = NoOne /\ job = Idle("") /\ count = [stamp |-> 0, kills |-> 0]
  /\ owed = Blank
  /\ history = [shown |-> Blank, doomed |-> {}, asked |-> {},
                before |-> <<>>]

-----------------------------------------------------------------------------
(* Merging: an increment into a staged table, a staged table into a live   *)
(* one, the operations of a sidecar into the log of a dimension.           *)

BaseFaulty(s, t) == live[t]          \* the increment of the writer before is lost
\* The base of a staged write is the staged table, or live for the first one.
Base(s, t) == IF s.rows[t] = NoFile THEN live[t] ELSE s.rows[t]

\* _merge_staged_rows_keyed: staged rows win, rows only live has are kept.
Merged(t) == [k \in Keys |-> IF staging.rows[t][k] # 0 THEN staging.rows[t][k]
                             ELSE live[t][k]]

Times(op, log) == Cardinality({i \in DOMAIN log : log[i] = op})
Owner(log) == IF log = <<>> THEN FirstOwner ELSE log[Len(log)][2]
Legal(d, log, op) ==
  CASE d = "props"    -> op[1] = Owner(log)   \* transfer: from the owner
    [] d = "counters" -> op > 0               \* increment: only forward

ReplaySkipFaulty(log, op, seen) == FALSE      \* applies a replay again
\* replay_skip: the log holds more of these than the batch has shown so far.
ReplaySkip(log, op, seen) == Times(op, log) > seen

\* _apply_props, _apply_counters: the whole batch of a dimension, or refusal.
ApplyOne(d, r, batch, i) ==
  IF ~r.legal \/ ReplaySkip(r.log, batch[i], Times(batch[i], SubSeq(batch, 1, i - 1)))
  THEN r
  ELSE IF Legal(d, r.log, batch[i]) THEN [r EXCEPT !.log = Append(@, batch[i])]
  ELSE [r EXCEPT !.legal = FALSE]
Apply(d, log, batch) ==
  LET after[i \in 0..Len(batch)] ==
        IF i = 0 THEN [log |-> log, legal |-> TRUE] ELSE ApplyOne(d, after[i - 1], batch, i)
  IN  after[Len(batch)]

\* clear_staging(preserve_checkpointed): a command's exit, its residual cleanup.
KeepMarked ==
  [staging EXCEPT
     !.rows = [t \in Tables |-> IF t \in staging.marked THEN @[t] ELSE NoFile],
     !.ops = IF "decisions" \in staging.marked THEN @ ELSE NoOps,
     !.sidecar = @ /\ "decisions" \in staging.marked]

\* What is still owed of the rows once staging has changed.
StillOwed(s) == [t \in Tables |-> IF s.rows[t] = NoFile THEN NoRows ELSE owed[t]]

-----------------------------------------------------------------------------
(* The commands that run the loop: the queue first, then the steps.        *)

Running(pc) == job.pc = pc /\ UNCHANGED st
Goto(pc, mem, todo) == job' = [job EXCEPT !.pc = pc, !.mem = mem, !.todo = todo]
\* Every writer's rows carry a stamp of their own.
This == count.stamp + 1
NewStamp == count.stamp < MaxStamp /\ count' = [count EXCEPT !.stamp = This]

Command ==
  /\ job.pc = "idle" /\ st.ask = "none"
  /\ staging' = IF st.at = "past" THEN KeepMarked ELSE staging
  /\ owed' = StillOwed(staging')
  /\ job' = [Idle("") EXCEPT !.pc = "queue", !.mem = st, !.todo = st.queue]
  /\ UNCHANGED <<live, facts, st, count, history>>

\* _route_append_dedup_write to a staged table: merged, its mark forgotten.
Put(s, t, k) == [s EXCEPT !.rows[t] = [Base(s, t) EXCEPT ![k] = This],
                          !.marked = @ \ {t}]
\* The first n files of a settlement's package.
Land(n, k, batch) ==
  LET landed == {WriteOrder[i] : i \in 1..n}
      sealed == IF "decisions" \in landed
                THEN [staging EXCEPT !.ops = batch, !.sidecar = TRUE] ELSE staging
      hooks  == IF "hooks" \in landed THEN Put(sealed, "hooks", k) ELSE sealed
  IN  /\ NewStamp
      /\ staging' = IF "matrix" \in landed THEN Put(hooks, "matrix", k) ELSE hooks
      /\ owed' = [t \in Tables |->
           IF t \in landed THEN [owed[t] EXCEPT ![k] = This] ELSE owed[t]]
      /\ UNCHANGED <<live, facts>>
Landed(n) == n = Len(WriteOrder)

\* A question about the settlement: from here on its rows are shown.
Asks(rows) == history' = [history EXCEPT !.shown = rows]

\* _execute_pending_re_dispatches: an entry that succeeds leaves the queue.
SettleAgain ==
  /\ Running("queue") /\ job.todo # <<>> /\ Head(job.todo) = "settle"
  /\ \E n \in 0..Len(WriteOrder), k \in Keys, batch \in Batches, passes \in BOOLEAN :
       /\ Land(n, k, batch) /\ (passes => Landed(n))
       /\ IF passes
          THEN /\ Goto("queue", [job.mem EXCEPT !.ask = "settle"], Tail(job.todo))
               /\ Asks(owed')
          ELSE /\ job' = [job EXCEPT !.todo = Tail(@), !.kept = Append(@, "settle")]
               /\ UNCHANGED history
\* relationship-map and foreshadowing-resolve, each to a live table.
Derived ==
  /\ Running("queue") /\ job.todo # <<>> /\ Head(job.todo) = "derived"
  /\ \/ /\ NewStamp /\ Goto("queue", job.mem, Tail(job.todo))
        /\ \E t \in Tables, k \in Keys : live' = [live EXCEPT ![t][k] = This]
     \/ /\ job' = [job EXCEPT !.todo = Tail(@), !.kept = Append(@, "derived")]
        /\ UNCHANGED <<live, count>>
  /\ UNCHANGED <<staging, facts, owed, history>>

\* What could not be drained is kept, or given up, and a human is told.
QueueEnds ==
  /\ Running("queue") /\ job.todo = <<>>
  /\ \E kept \in {job.kept, <<>>} :
       LET ask == IF job.kept # <<>> THEN "escalation" ELSE job.mem.ask
       IN  job' = [job EXCEPT !.pc = IF ask = "none" THEN "loop" ELSE "save",
                              !.mem.ask = ask, !.mem.queue = kept, !.kept = <<>>]
  /\ UNCHANGED <<live, staging, facts, count, owed, history>>

\* foreshadowing-lifecycle, the first writer of the pair.
Lifecycle ==
  /\ Running("loop") /\ job.mem.at = "pair" /\ job.todo = <<>>
  /\ NewStamp
  /\ \E k \in Keys : /\ staging' = Put(staging, "hooks", k)
                     /\ owed' = [owed EXCEPT !["hooks"][k] = This]
  /\ Goto("loop", job.mem, <<"settle">>)
  /\ UNCHANGED <<live, facts, history>>

\* Its second writer: the question, or the escalation of a failed settlement;
\* a gate that fails leaves the step where it is.
PairSettles ==
  /\ Running("loop") /\ job.todo # <<>>
  /\ \E n \in 0..Len(WriteOrder), k \in Keys, batch \in Batches, passes \in BOOLEAN :
       /\ Land(n, k, batch) /\ (passes => Landed(n))
       /\ \/ /\ passes /\ Goto("mark", [job.mem EXCEPT !.at = "past", !.ask = "settle"], <<>>)
             /\ Asks(owed')
          \/ /\ ~passes /\ UNCHANGED history
             /\ IF Landed(n) THEN Goto("loop", job.mem, <<>>)
                ELSE Goto("save", [job.mem EXCEPT !.ask = "escalation"], <<>>)
Mark ==
  /\ Running("mark")
  /\ staging' = [staging EXCEPT !.marked = @ \cup StagedTargets]
  /\ Goto("save", job.mem, <<>>)
  /\ UNCHANGED <<live, facts, count, owed, history>>

\* The settlement alone, after a decision sent the cursor back to it: nobody
\* is asked, what it stages rides to the end of the chapter.
Settles ==
  /\ Running("loop") /\ job.mem.at = "serial"
  /\ \E n \in 0..Len(WriteOrder), k \in Keys, batch \in Batches, passes \in BOOLEAN :
       /\ Land(n, k, batch) /\ (passes => Landed(n))
       /\ IF Landed(n)
          THEN Goto("loop", IF passes THEN [job.mem EXCEPT !.at = "past"] ELSE job.mem, <<>>)
          ELSE Goto("save", [job.mem EXCEPT !.ask = "escalation"], <<>>)
  /\ UNCHANGED history

\* _complete_chapter: the cursor moves on, the review is of the chapter left.
Completes ==
  /\ Running("loop") /\ job.mem.at = "past"
  /\ Goto("save", [job.mem EXCEPT !.at = "next", !.ask = "chapter"], <<>>) /\ Asks(owed)
  /\ UNCHANGED <<live, staging, facts, count, owed>>

Elsewhere ==      \* the steps of the next chapter
  /\ Running("loop") /\ job.mem.at = "next"
  /\ Goto("save", job.mem, <<>>)
  /\ UNCHANGED <<live, staging, facts, count, owed, history>>

-----------------------------------------------------------------------------
(* The review.                                                             *)

Owns == st.ask \in {"settle", "chapter"}
\* _checkpoint_staging_targets: everything staged of the truth and its sidecar,
\* in the order of the commit and of the discard.
Only(t, targets) == IF t \in targets THEN <<t>> ELSE <<>>
Listed(targets) ==
  Only("matrix", targets) \o Only("hooks", targets) \o Only("decisions", targets)
ToCommit == Listed(StagedTargets)

Approve ==
  /\ job.pc = "idle" /\ Owns
  /\ job' = [Idle("") EXCEPT !.pc = "check", !.mem = [st EXCEPT !.ask = "none"],
                             !.todo = <<"props", "counters">>, !.ready = facts]
  /\ history' = [history EXCEPT !.before = <<facts, live, staging>>,
                                !.asked = @ \cup {staging.ops}]
  /\ UNCHANGED <<live, staging, facts, st, count, owed>>

CheckedFaulty(d, log) == facts' = [facts EXCEPT ![d] = log]  \* written at once
\* apply_sidecar_ops, first phase: every dimension in memory.
Checked(d, log) == UNCHANGED facts
Check ==
  /\ Running("check") /\ job.todo # <<>>
  /\ LET d == Head(job.todo)
         r == Apply(d, facts[d], staging.ops[d])
     IN  /\ job' = IF r.legal
                   THEN [job EXCEPT !.todo = Tail(@), !.ready[d] = r.log]
                   ELSE Idle("refused")
         /\ Checked(d, r.log)
  /\ UNCHANGED <<live, staging, st, count, owed, history>>
\* Second phase: dimension after dimension is written, then the files.
Checks ==
  /\ Running("check") /\ job.todo = <<>>
  /\ Goto("facts", job.mem, <<"props", "counters">>)
  /\ UNCHANGED <<live, staging, facts, count, owed, history>>
WriteFacts ==
  /\ Running("facts")
  /\ LET d == Head(job.todo)
     IN  /\ facts' = [facts EXCEPT ![d] = job.ready[d]]
         /\ IF Len(job.todo) = 1
            THEN job' = [job EXCEPT !.pc = "commit", !.todo = ToCommit, !.ready = NoOps]
            ELSE Goto("facts", job.mem, Tail(job.todo))
  /\ UNCHANGED <<live, staging, count, owed, history>>

Commit ==
  /\ Running("commit") /\ job.todo # <<>>
  /\ LET t == Head(job.todo)
     IN  /\ live' = IF t \in Tables THEN [live EXCEPT ![t] = Merged(t)] ELSE live
         /\ staging' = [staging EXCEPT !.marked = @ \ {t}]
  /\ Goto("commit", job.mem, Tail(job.todo))
  /\ UNCHANGED <<facts, count, owed, history>>
Clear ==
  /\ Running("commit") /\ job.todo = <<>>
  /\ staging' = Empty /\ owed' = StillOwed(staging')
  /\ job' = [job EXCEPT !.pc = "save", !.reply = "approved"]
  /\ UNCHANGED <<live, facts, count, history>>

\* _defer_redo_to_re_dispatch_queue when the cursor has moved on, else the
\* rewind; MODIFY and a rejected chapter queue their derived skills as well.
Rewound == IF st.ask = "settle" /\ st.at # "next" THEN "serial" ELSE st.at
Queued(queue, entry) ==
  IF Contains(queue, entry) THEN queue ELSE Append(queue, entry)
OwnRedo == IF st.ask = "chapter" \/ (st.ask = "settle" /\ st.at = "next")
           THEN Queued(st.queue, "settle") ELSE st.queue
Propagated(queue) == IF st.ask = "settle" THEN Queued(queue, "derived") ELSE queue

\* The rows an answer takes out of staging and that never were live.
Unwanted == {staging.rows[t][k] : t \in Tables, k \in Keys} \
              ({-1, 0} \cup {live[t][k] : t \in Tables, k \in Keys})
Decide(pc, todo, queue) ==
  /\ job' = [Idle("") EXCEPT !.pc = pc, !.todo = todo, !.kept = todo,
               !.mem = [at |-> Rewound, ask |-> "none", queue |-> queue],
               !.doomed = Unwanted]
  /\ history' = [history EXCEPT !.shown = Blank, !.before = <<>>]
  /\ UNCHANGED <<live, facts, st, count>>

DiscardedFaulty == Listed(StagedTargets \ {"hooks"})   \* leaves a table behind
Discarded == Listed(StagedTargets)
Reject ==
  /\ job.pc = "idle" /\ Owns
  /\ Decide(IF Discarded = <<>> THEN "save" ELSE "discard", Discarded, OwnRedo)
  /\ UNCHANGED <<staging, owed>>
\* discard_staging_targets: file after file, and then one entry of the sidecar
\* of marks: any() stops popping at the first it finds.
Discard ==
  /\ Running("discard")
  /\ LET t == Head(job.todo)
     IN  staging' = IF job.todo = <<>> THEN [staging EXCEPT !.marked = @ \ {Head(job.kept)}]
                    ELSE IF t = "decisions"
                         THEN [staging EXCEPT !.ops = NoOps, !.sidecar = FALSE]
                         ELSE [staging EXCEPT !.rows[t] = NoFile]
  /\ IF job.todo = <<>> THEN Goto("save", job.mem, <<>>)
     ELSE Goto("discard", job.mem, Tail(job.todo))
  /\ owed' = StillOwed(staging')
  /\ UNCHANGED <<live, facts, count, history>>

Modify ==
  /\ job.pc = "idle" /\ st.ask # "none"
  /\ Decide("save", <<>>, Propagated(OwnRedo))
  /\ staging' = Empty /\ owed' = StillOwed(staging')

\* An escalation owns nothing in staging: approved or rejected, it stays.
Dismiss ==
  /\ job.pc = "idle" /\ st.ask = "escalation"
  /\ job' = [Idle("") EXCEPT !.pc = "save", !.mem = [st EXCEPT !.ask = "none"]]
  /\ UNCHANGED <<live, staging, facts, st, count, owed, history>>

-----------------------------------------------------------------------------
(* The end of a command.                                                   *)

Save ==
  /\ job.pc = "save"
  /\ st' = job.mem
  /\ job' = Idle("")
  /\ history' = [history EXCEPT !.doomed = @ \cup job.doomed, !.before = <<>>,
                   !.shown = IF job.mem.ask = "none" THEN Blank ELSE @]
  /\ UNCHANGED <<live, staging, facts, count, owed>>

Dies == /\ job.pc # "idle" /\ count.kills < MaxKills
        /\ count' = [count EXCEPT !.kills = @ + 1]
        /\ UNCHANGED <<live, facts>>
Kill == /\ Dies /\ job' = Idle("") /\ UNCHANGED <<staging, st, owed>>
        /\ history' = [history EXCEPT !.before = <<>>]
\* The exit hook of a command that runs the loop: it saves what is in memory
\* and empties staging of what is not marked.
Abort ==
  /\ Dies /\ job.pc \in {"queue", "loop", "mark"}
  /\ st' = job.mem /\ staging' = KeepMarked /\ owed' = StillOwed(staging')
  /\ job' = Idle("aborted")
  /\ history' = [history EXCEPT !.shown = [t \in Tables |->
                   IF staging'.rows[t] = NoFile THEN NoRows ELSE @[t]]]

Next ==
  \/ Command \/ SettleAgain \/ Derived \/ QueueEnds
  \/ Lifecycle \/ PairSettles \/ Mark \/ Settles \/ Completes \/ Elsewhere
  \/ Approve \/ Check \/ Checks \/ WriteFacts \/ Commit \/ Clear
  \/ Reject \/ Discard \/ Modify \/ Dismiss
  \/ Save \/ Kill \/ Abort

Spec == Init /\ [][Next]_vars

-----------------------------------------------------------------------------
(* Properties.                                                             *)

\* A settlement that was approved is in the truth files, every row that was
\* staged when the human was asked, whichever writer staged it, and however
\* often the approval was killed and repeated.
RowsLand ==
  job.reply = "approved" =>
    \A t \in Tables, k \in Keys :
      history.shown[t][k] # 0 => live[t][k] = history.shown[t][k]

\* What a human rejected, or replaced by edits, never becomes truth: no later
\* settlement is built on it and no later approval takes it along.
RejectedStaysOut ==
  \A t \in Tables, k \in Keys : live[t][k] \notin history.doomed

\* However often an approval is killed and repeated and a chapter settled
\* again, a facts operation counts as often as a settlement said it; and once
\* an approval is answered its operations are all there.
FactsOnce ==
  /\ \A d \in Dims : \A op \in ToSet(facts[d]) :
       \E b \in history.asked : Times(op, facts[d]) <= Times(op, b[d])
  /\ job.reply = "approved" =>
       LET ops == history.before[3].ops
       IN  \A d \in Dims : \A op \in ToSet(ops[d]) :
             Times(op, facts[d]) >= Times(op, ops[d])

\* An approval that is refused for one illegal operation has changed nothing:
\* no fact of another dimension, no truth file, nothing staged.
RefusalIsClean ==
  job.reply = "refused" => history.before = <<facts, live, staging>>

\* Nothing is lost in either direction: a row never goes back to what it was
\* before a later writer changed it.
NothingLost ==
  [][\A t \in Tables, k \in Keys : live'[t][k] >= live[t][k]]_vars

\* What survives the exit of a command is what an approval would commit: with
\* no question pending staging is empty.
OnlyAskedSurvives ==
  job.reply = "aborted" /\ st.ask = "none" => StagedTargets = {}
=============================================================================

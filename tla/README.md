# Shenbi pipeline: TLA+ models and proofs

Shenbi writes a novel with language-model "skills". Its own core logic is
`src/src/shenbi/pipeline`: a command-line driven state machine that walks a book through
genesis, a chapter loop and closure, stops to ask a human, stages what a skill
wrote until it is accepted, and has to survive being killed at any moment.
This directory holds TLA+ models of that machine, the TLC runs that check them
and TLAPS proofs about them. Paths below are relative to `src/src/shenbi`.

## 1. The system

### Components

| Component | State it keeps | Operations |
|---|---|---|
| Command line and orchestration (`pipeline/cli.py`) | none of its own; works on `PipelineState` under the project write lock | `init`, `next`, `resume`, `review`, `status`; the loop that drains the re-dispatch queue, runs triggers, chapter steps and closure until a checkpoint |
| State file (`pipeline/state.py`, `machine.py`, `transitions.py`, `state_heal.py`) | `pipeline-state.json`: phase, cursor, pending checkpoint and its history, queue, retry counters | load, save, locked read-modify-write, set and clear a checkpoint, phase transitions, healing of impossible counters |
| Chapter loop (`pipeline/chapter_loop.py`) | the cursor (chapter, step) and the per-chapter records | sixteen steps per bundle of one or two chapters; success, retry, escalation; completion |
| Staging area (`pipeline/checkpoint.py`) | `staging/`, `.staging-meta.json` | commit (with a keyed merge for truth tables), mark, scoped discard, clear |
| Crash recovery (`pipeline/crash_recovery.py`) | handlers and a latch of the process | register, signal flag, atexit save and staging clear |
| Triggers (`pipeline/triggers.py`) | none; derived from the chapter number | volume boundary, book closure, periodic skills |
| Genesis (`pipeline/genesis.py` and its parsers) | a cursor over seventeen steps, retry counters | run a step, retry, optional steps, scoped redo |
| Closure (`pipeline/closure.py`) | a cursor over the closure steps | run a step, escalate, the checkpoint before the last step |
| Error handling (`pipeline/error_handler.py`, `retry_routing.py`) | attempt counters, the durable retry budget, feedback | retry or escalate, reset |
| Audit wave (`pipeline/parallel_dispatch.py`, `write_safety.py`, `audit_*.py`) | worker threads, a semaphore, `audits/` | a wave of parallel reviews, serial reviews, save points, consolidation |
| Revision router (`pipeline/revision_router.py`) | none | findings to a revision route |
| State lock (`pipeline/filelock_utils.py`) | `flock` files, per-thread holders | write lock, read lock |
| Atomic writes (`safe_write.py`) | temporary files, fallback lock files | replace under a directory lock, stale-lock takeover |
| Truth files (`pipeline/truth_io.py`, readers, archives), facts store (`facts/`) | `truth/*.md`, `facts/` | keyed upsert, append-dedup, archive, two-phase application of operations |
| Dispatch (`pipeline/dispatch_helper.py` and helpers) | none | run a skill, land its output files |
| Scene splitting, context assembly | none | text processing between drafting and settling |
| Gates (`gates/`), scoring, cost, trace, observability, contracts, configuration, text utilities | reports and ledgers | pure predicates and recorders around the above |
| Phase runner and dispatcher (`phase_runner.py`, `dispatcher/`) | `phase-state/`, `gate-markers/`, `t1-reports/` of a test round | start, pre-skill, post-skill, pre-score, post-score, finalize; dispatch; the gate that closes the round |

### How they interact

One process runs a command at a time, under the project write lock. It loads the
state file, mutates the copy in memory, and saves it at fixed points (after
each step, after a queue pass, at a stop). The project directory is not part
of that: live files and staging change as soon as a skill's output lands. So
there are always three versions of the truth, the process's state, the file's
and the directory's, and a crash keeps the last two. `review` is the only command that
runs while a checkpoint is pending; it edits staging first and saves second.
It may rewind the cursor, and it may queue work that the next command does
before it takes a step. A process that began a chapter has armed an atexit
hook which saves the state once more and empties staging of all that is not marked as
under review.

### What is hard

The hazards are listed, each at its line, in `PROJECT.json`. In groups:

- **Three versions of the truth.** A crash between an effect on the directory and
  the save; a hook that empties staging while a human is being asked about
  it; a torn promotion of a two-chapter bundle.
- **Rewinds and jumps.** Reviews, failures, resume's clamp, deferred redos and
  bundles all move the cursor; nothing may settle, audit or revise a chapter
  that has not been written.
- **Decisions out of season.** A checkpoint answered after the cursor has left
  its chapter; an approval no resume has consumed; a queue that raises a checkpoint again.
- **The queue.** Entries merged, kept, given up, and served in the order in which
  different writers added them.
- **Parallel audits.** Workers with their own retries and a collecting thread
  that saves in mid-wave; a crash and a replay; audits that fail for good.
- **Locks.** A state overlay at exit over what another process has saved
  meanwhile; a stale lock file taken over twice.
- **Retries.** Counters a success resets and a budget it does not; whether a command always stops.

### What makes each component correct

- Chapter loop: chapters are drafted in order and none is skipped; only planned
  chapters are drafted; only drafted ones are settled, audited and revised; a chapter
  that closes is settled, and re-settled after a revision.
- Commands and checkpoints: a question stays until answered, is asked about
  something that exists, and an answer acts on its own chapter.
- Staging: only a decision takes a product under review out of staging.
- Closure: the book closes over a complete manuscript, once, after its last chapter.
- Crash recovery: none of the above depends on where a process died.
- Audit wave: no audit is lost, run twice after its save point, or run concurrently with
  a writer of shared truth; the wave ends.
- Retries: every command stops; a budget is charged once per attempt.
- Locks: mutual exclusion; no saved update is lost.
- Truth files: a write takes effect in one step, changes the row of its own key and no other, and
  leaves the table in one piece.
- Phase runner: a phase that calls itself scored has its markers; a closed round is clean.

## 2. The modules

| Module | What it is |
|---|---|
| `Book` | Constants: chapters, volumes, bundles; the values checkpoints, queue entries and settlements take |
| `Lifecycle` | The abstract specification: what the state file promises the author |
| `Pipeline` | Commands, chapter loop, queue, staging, exit and crash; implements `Lifecycle` (`KeepsPromise`) |
| `AuditWave` | The review steps of one bundle: worker threads, semaphore, retries, serial reviews, save points, kill and replay; what `Pipeline` takes in its one action `AuditWave` |
| `Genesis` | The genesis steps, their gates, the reviewer's answers and the scoped redo; the phase before `Pipeline` |
| `StepRetry` | Attempts, durable budget, escalation and feedback of the steps of one chapter; what `Pipeline` takes as "retries or escalates" |
| `Triggers` | The fan-out of triggered skills at the top of a bundle, which `Pipeline` takes as one step |
| `Settlement` | One chapter's rows and facts from the writers through staging to the truth files; what `Pipeline` keeps as `none`, `stale` or `fresh` |
| `Dispatch` | One dispatch of a skill: tries, resends, ledger, files, write audit; everywhere else an outcome |
| `TruthTable` | The lines of a truth file: contract header, key columns, where a row lands |
| `KeyedStore` | The abstract specification: what the truth files promise their writers |
| `TruthFile` | Processes that write truth files under their path locks; implements `KeyedStore` (`AtomicStore`); what `Settlement` takes as one write of a key |
| `StateFile` | Several commands on one project: the locks, the state file, the exit hook; what `Pipeline` takes to be one process at a time |
| `WriteLock` | One file under the write lock of `safe_write.py`, with and without `flock` |
| `Round` | A test round beside the pipeline: phase runner, gate markers, reports, dispatch and the closing gate |
| `MC<module>` | The instance of a module that TLC checks |
| `<module>_proofs` | The inductive invariant of a module and the theorems that follow |
| `Locks_proofs`, `Skills_proofs` | The same for `WriteLock`, `StateFile` and `TruthFile`, and for `Triggers` and `Dispatch` |

Each detailed module replaces what another one leaves open: `Pipeline` is the frame,
and `StepRetry`, `Triggers`, `Settlement` and `AuditWave` are its steps looked at closely,
each with the part of the state that the step works on. They share its view of a
process: the state it holds, the state file, the directory, and a kill that keeps the
last two.

### Pipeline

`st` is the `PipelineState` a process holds, `disk` is `pipeline-state.json`,
`fs` the project directory (committed plans, drafts and settlements; their staged
counterparts; the staged two-chapter manuscript; the marks of
`.staging-meta.json`), `run` the process (where it is between two atomic
stretches, whether its handlers are armed, and the queue pass under way).

One action is one handler up to the next point where the process can die with a
different file or directory: a chapter step (`Planning`, `Drafting`,
`SceneSplit`, `SettlePair`, `SettleAgain`, `AuditWave`, `Revision`, ...), the
save after it (`Save`), one entry of the queue (`EntryDone`, `EntryFails`), the
end of a pass (`QueueEnd`), the effects of a decision (`Approve`, `Modify`,
`Reject`) and the save after it (`Finish`), the exit hook (`AtExit`), a stop
requested by a signal (`Shutdown`). `Kill` may fall between any two, and
`SceneSplitTorn` is a kill between the two files of one promotion.

Abstractions, all in the data:

- A dispatch is an outcome. A failing step retries or escalates at any attempt, so the
  model allows more than the counters do.
- Of a bundle's planning only the leader's plan is looked for in staging; `Unplanned` are the
  chapters whose plan an answer leaves out when it is not the leader's.
- A rejection unmarks what its chapter had staged; whether other chapters' truth stays
  marked is left open (`others` of `RejectFiles`).
- The audit steps 9 to 14 are one action: nothing in them but the route, the
  escalations and the move of the cursor touches what `Pipeline` keeps.
- A settlement is `none`, `stale` (made from an earlier draft) or `fresh`. The
  keyed merge of one table into another is the replacement of a chapter's settlement.
- The three skills that re-sync derived files are one (`derived`): the queue treats them alike.
- Approvals other than of a volume boundary count only while one of those lies beneath
  them in the history.
- Genesis is over. The book's volume map does not change.

### Genesis

`g` is the state of the running command, `saved` the state file, `shape` the structure of each
file a step writes (the bindings `extract_structure_bindings` reads from it). A command
runs the step after the cursor: `Skip` if it is done, `DispatchFails`, or it
`Lands` and its gates pass or fail (`Passes`, `ScoreFails`, `GateFailsHard`,
`GateFailsSoft`); a failure skips an optional step, retries or escalates. `Redo` is the scoped redo of
`review`: it freezes the structure of the listed steps, undoes them and rewinds to
the first; a redone step whose structure differs from its freeze stops the sequence
and reports the drift. The prose of a file is abstracted to its structure. That a
dispatch's stderr replaces the reviewer's feedback is in `DispatchFails`; that a
redo of the two skeleton steps rewrites files of later steps that stay done is not
followed, and `DriftTold` speaks of files a step has to itself.

### StepRetry

A chapter from its draft to its revision, and the four skills that can fail on the way.
`attempts` is `retry_counts`, reset by a success; `budget` is `retry_budget_consumed`, reset by
an answer only; `told` is `retry_feedback`, with the
machine's failures and the reviewer's words as two voices. `known` is the history, in the order in which
families were first named: whether the reviewer's last words are in it, and how many families are older and
newer. It holds `MaxFamilies`; beyond that the oldest go (`Capped`), the reviewer's words like any other. A gate
names as many families at once as it likes, a broken dispatch one. The reviewer's words of
an answer are a family that the history has or a new one (`Worded`); that a machine's message may
be of the same family as they are is left out. `failures` counts what really happened, to
compare the counters with. The actions are the ways a dispatch, its gates, its output
check and the revalidation can end, serially and for the pair of lifecycle and
settlement, the split that rewinds to the draft, the healing of `resume`, a kill
between two saves, and the answers. Not in it: the streak of identical
failures and its targeted edit, the one-shot feedback of MODIFY, trigger slots.

### Triggers

The table of `triggers.py`, with rows that stand together and behave alike taken
as one. `st.done` is `trigger_steps_done`, what a fan-out remembers of its rows
when a later one fails; `project.config` is the genre configuration, `raw`
between its rewriting and the governance check that puts back what it may not
change; a volume's end asks the reviewer, whose answer may rewind. Chapters between two
fan-outs are one action, which jumps over the followers of bundles as the cursor does.

### Settlement

`staging` and `live` are two truth tables (one written by the lifecycle and settlement, one by
the settlement alone), each a function from keys to the stamp of the write that
made the row; `facts` is the operations log of two dimensions of the facts
store. A settlement lands any prefix of its files (a crash or a refusal may fall between
two of them), is shown, approved, replaced or refused. An approval first checks every dimension's operations
(`Check`), writes them (`WriteFacts`), then commits file by file (`Commit`) and clears staging;
a kill may fall between any two of these and the approval is then given again. Derived
skills write the live tables meanwhile. Not in it: automatic settlement by copying whole files, the identity
dimension, creation rows, outline ledgers.

### Dispatch

One dispatch from prompt to write audit. A try of the provider is known by
its number; `acc` is `usage_acc`, which carries the usage of tries that were
billed and failed; the ledger's rows name the try they charge. The resend of an empty answer and of one cut
by its limit, the refusals of what was cut or filtered, the files written one
after the other with a refusal in the middle, the IDE and legacy routes. A reply whose finish reason is
neither `length` nor `content_filter` is written, also one that has none because its stream just ended. Not in it: streaming
fallback for usage, early stop, quarantine; `trace.jsonl` is there.

### AuditWave

`at` is the place of the main thread in the wave branch of the chapter step: the
circle and whether it runs the circle's parallel or serial part. `task` and `attempts` are
the worker and the attempts of each review, `collected` the results the main thread has
taken, `report` what `audits/` says, `summary` the consolidated report, `st` and `disk` the state of
the process and of the file. A worker acquires a permit, dispatches and lands
(`Acquire`, `Ends`, `Lands`), may fail transiently and back off without its
permit (`FailsTransiently`) or for good (`FailsForGood`); the main thread starts a
wave, collects results with a save point after each, runs the writers of shared
truth one by one in the order of their table, writes the summary, judges the reports and
moves the cursor (`StartWave`, `Collect`, `EndWave`, `StartSerial`, `EndSerial`,
`Consolidate`, `Close`). `Kill` may fall anywhere; the replay leaves out the reviews whose
reports exist.

The cascade leaves out a review whose recorded history ends in a streak of clean entries, unless its
last entry is too long ago (`Skipped`). `Close` appends the entry of each review that
ran, sets the chapter's flag, chooses the route and asks about a score that could
not be read.

A report is its verdict: clean, blocking (of the leader's chapter), follower (blocking,
but of the follower's chapter only), pending (a score that could not be read), or none (missing or
incomplete). The severity vocabularies of the sensors are one; critical findings route like blocking
ones and set no flag, and are not told apart from them. The kinds of revision, their count
and its cap, the trend row and the audit context (text for a prompt) are left out.
The serial close of `chapter_loop.py:392-470` and the boundary circle of `audit_layer.py` lie
behind the wave's jump of the cursor and are not reached.

### StateFile

The state is the set of updates it contains. A process is in a slot of `Slots`; `place` is
where it is, `mode` the lock it holds, `mem` the updates in its `PipelineState`. A
writing command waits for the lock, loads, works and saves, releases, and if it
began a chapter (`armed`) its exit hook takes the lock again and overlays its
state on the file. A reading command is `status`. A wait times out only while
another process holds a conflicting lock. A process that is gone frees its slot, and
its locks with it, as `flock` does. What a command does between load and
release is `Pipeline`.

### WriteLock

One file and every write that is ever made to it (`Calls`), by threads of several
processes. Where `flock` works the kernel excludes. Elsewhere the existence of a lock
file does: a call creates it exclusively, records its pid, reads, writes, removes it;
one that finds it in the way polls, and judges it line by line, each line reading
the file system afresh (`Stat`, `JudgeAge`, `JudgePid`, `Compare`, `Unlink`). The creator
stands for the inode. Any lock file grows old (`Age`), and what protects one that is old is a pid in it
(`Protected`), of a living process that is not the waiter's own. The pid is recorded after the file is created, if it can be,
so a holder that stalls before, or that could not write it, is not protected. `exposed` remembers that a lock file was
left behind by a holder that died or could not set its mode, or grew old without protection; only from then on may a
judgement take over the lock of a holder at work. Not in it: reuse of inode numbers and of pids, the Windows branch.

### TruthFile

`TruthTable` has the files: a sequence of lines, each text, a row of cells, a separator or a fence; the header that the
file's contract declares and the columns it keys the rows by; and where a replacement, an insertion or a creation puts a row, line by
line as `truth_io.py` scans for it. `TruthFile` has the writes: a call takes the lock of its path from the
process's bounded registry (`Register`, `TakeThread`, `TakeFlock`; an entry may be evicted when the
registry is full), reads the file, writes it whole and releases. `flock` joins the processes; where it fails, exclusion is
that of one process, and the properties then promise for calls of one process
only. A live creation decides before the lock whether the base is a shell. `basis` is what a call has read, and
`NothingStale`, which is proved and which `OnlyItsRow` rests on, says that it is still there when the call writes. A row with an empty key is appended, one that
emits the header again is left out, one with more cells may replace the row it begins like. What a file contains before
is assumed to be one of three (`Table`): no table at all, the contract's table first of all, or bare rows
where it would begin. `TableSound` asks more of them (`Neat`): the table there is reaches without a gap from
its header to its last row, has one row for a key, and is followed by something that ends it; and no row of another table has
the key of a call, since a write looks for its key in every table of the file. The code keeps a sound table sound; it
does not repair one. Not in it: patches of a cell, bullet and
YAML records, hook sections, outline ledgers, files in which another table comes before the contract's.

### KeyedStore

What the truth files promise their writers, without lines and without locks: of each file the items, a key and
its row; of each call whether it is under way, and what it has looked at. A write is one step (`Take`) on the
table of that moment: its item takes the place of the one with its key, or yields to it, a first file replaces a
table without items, a note changes none; or an error changes nothing. Only where somebody uses the file whom the call's locks
do not reach does a write act on what it has looked at before. `TruthFile` implements it (`AtomicStore`) with the
rows of a line that belong to the table and have a key (`Items`) for the items, `basis` for what a call has looked at, and the stages
of a call for its `status`. A first file (`create`) is the weak spot that it makes visible: what it replaces was
empty when the call began, not when it writes (`CreationYields` in section 5).

### Round

The one part that works without a lock. `phase` is the file of a phase, `out` each file of the project (there,
empty, and which skills' checkers it will do for), `marker` the list of files in a skill's PASS marker, `report` what `find_report` finds, and
`cmd` the command each process is in. A command loads the phase file (`Load`) and is admitted or refused;
from there it knows the phase by its copy only. `BoundaryGate` and `PostSkillGate` are the gates it runs in a process
of their own; `Start`, `Finalize`, `PreSkill`, `PostSkill`, `PreScore` and `PostScore` write the copy
back, in a new state or as it was: a start that is blocked, a finalize that is blocked and
every post-skill do the latter. Beside them `ValidateG4`, `Score` and `Execute` are commands that do not look at
the phase, and `Edit` is an agent at work. `G7Rerun` and `G7Close` are the two parts of G7 that a round's
state bears on; `quiet` remembers that nobody moved between them. A skill writes several files. The
gate of `post-skill` is given those that are there, not empty, and have a name without a chapter unless one is given; `ValidateG4`
any of them; and the marker names exactly these. `Judged` is what a checker looks at of such a list, with the
files it reads whatever it is given (`Fixed`): one that is missing or empty it rejects, one it has no
eyes for it passes over; its verdict on a file is that of the file alone. G7.13 judges the marker's list again, and no other file of the skill. A gate that fails for a reason outside the model (a conflict,
a placeholder, a broken trace, a timeout) is the free choice of `ok`. Not in it: `progress.json`, G1, G2, the write
audit and the dual scorer, which decide what a dispatch returns; the gate manifest, which nothing reads.

### Lifecycle

Three variables, the phase, the chapter and the pending question. A chapter finishes
by moving to the next bundle's leader, the book closes after its last chapter, and
a question other than an escalation leaves only when answered. `Pipeline`
implements it with `disk` for the state: the promise is about what a human or a
restarted process can see. Two things it had to be weakened for are
visible in its text: an escalation may be overtaken by another question, and a
completed book may reopen its closure (`Reopen`) when an approval of the last volume
was never consumed by a `resume`.

## 3. The runs

| Run | Checks | What it shows |
|---|---|---|
| `reviewed` | `NoGhostChapter`, `DraftsBehindCursor`, `PlannedBeforeDrafted`, `PendingProduct`, `OwnSettlementOnly`, `KeepsPromise` | all three reviews on, two volumes, kills anywhere in `next` and `resume` |
| `unattended` | `ClosureIsLate` | all reviews off, one volume, kills anywhere at all |
| `audit_wave` | `SharedWritersAlone`, `BlockingSeen`, `WaveEnds` | reviews with retries, a cascade, a consolidated summary and a kill anywhere: writers of shared truth run alone; what a report finds in the leader's chapter is on record and routed; the wave ends |
| `state_file` | `NoSelfWait`, `WorksOnLatest`, `LostOnlyAtExit` | commands that meet on one state file lose updates to nothing but an exit hook |
| `write_lock` | `Exclusive`, `LostOnlyToOverwrite`, `EveryCallEnds` | with and without `flock`, lock files of any age: until one is left behind, or grows old without a pid that protects it, writes exclude one another; every call ends, also past one that was left |
| `genesis` | `CompletionEarned`, `DriftTold`, `FreezeStands`, `ReviewedCommandsStop` | genesis is complete only over its steps, drift of a redone step is told, a freeze is not replaced by what drifted |
| `step_retry` | `BudgetHolds`, `ExhaustionEarned`, `ReviewerHeard`, `NothingSkipped`, `CommandReturns` | the budget counts what failed, through successes, rewinds and a kill; the reviewer's words reach every attempt until newer failures fill the history; commands return |
| `triggers` | `RunsOnce`, `ConfigGoverned`, `VolumeAnswered` | a triggered skill that passed is not run again, an ungoverned configuration does not stay, no volume's end is passed over |
| `settlement` | `RowsLand`, `RejectedStaysOut`, `FactsOnce`, `RefusalIsClean` | what was shown and approved is in the truth, what was rejected is not, a fact counts once, however often an approval is killed |
| `dispatch` | `BilledIsCharged`, `WrittenOfOneReply` | every billed try is in the ledger, files come from one reply, which nobody called cut or filtered |
| `truth_file` | `OnlyItsRow`, `TableSound`, `AtomicStore` | a write of a truth file changes its own row, a keyed table stays in one piece; the writes of two processes, with `flock` and without, are those of `KeyedStore`: each in one step, an insert yielding to the row that is there |
| `round` | `ScoredIsMarked`, `ClosedIsClean`, `RewindIsStale` | commands without a lock: no phase is scored without its markers, in a round that G7 closes undisturbed what the markers name passes, and a phase goes back only under a copy that was overtaken |

The bounds.

- `reviewed`, `unattended`: three chapters give a two-chapter bundle and a single
  one, in either order with the two volume maps, and a chapter after the first bundle
  for decisions that come late. `Horizon = 5` leaves room for the chapters planned
  past the end of the book, so that running past it is not cut off.
  `ReDispatchCap = 2` has an entry kept once and given up once (the code's cap is
  larger, the branches are these two). `ClosureLen = 2` has a step before the
  checkpoint and the one after it. `MaxBacklog = 2` lets two approvals accumulate unread.
  `Unplanned` is the follower of a bundle in `unattended`, nobody in `reviewed`.
- `audit_wave`: two circles of reviews, so that a permit passes between workers,
  serial reviews follow parallel ones and a circle another; one permit (the code
  has four), so that the reviews of a circle compete for it and one that fails or
  backs off matters to the other; one retry and one kill, after which a second is like the first; a history
  with a streak of clean entries that is fresh and one whose streak is out of date.
  Each review has few verdicts (one finds or misses its report, one is clean, one
  may also lack its score, one may speak of the follower), so that every kind occurs.
- `state_file`: three slots, so that one command overwrites, one is overwritten and
  one watches or waits, and three updates; the slots are alike and declared
  symmetric (no liveness is checked there).
- `write_lock`: three calls, two of them threads of one process, so that a lock
  comes and goes while a third judges it; one call of each kind of write; two rounds of waiting, so that the first round, which does not
  look at the lock file, and the deadline are both met.
- `genesis`: three steps, one optional, one scored independently; two files, one of
  which two steps write; two structures, so that a file can drift and drift back; three answers, a
  redo, another over what it left and the ruling on what drifted.
- `step_retry`: two attempts and a budget of two, so that the attempts are used up
  first and the budget by failures with successes between them; a history of two families (the
  code's has sixteen), so that words are kept beside one newer family and dropped by a second; two
  answers, so that words meet earlier ones; one kill.
- `triggers`: arcs of two chapters and a stratum of four instead of twelve and thirty-six, a volume
  that ends inside and one that ends the book, two failures and one kill.
- `settlement`: two keys, two owners of a prop, batches of operations that
  repeat one, that depend on one another and that are refused in their second
  dimension; five writers, which is a settlement, its redo and a derived write
  between; one kill.
- `dispatch`: three tries as in the code, two outputs.
- `truth_file`: a replacing and an inserting call that write the same key and a helper's note on one file, a first file
  on another; two processes; a registry with room for one lock, so that a lock is evicted while it is
  waited for; four bases: a shell, a table without a header row, a keyed table with another one below it, and such a table
  without frontmatter. A first file that meets a keyed write on its own file, threads that write different keys of
  one file and a row without a key would make it too large for the steps of the store it is compared with; the theorems have them.
- `round`: one phase over two skills, one with a markdown file that has a chapter in its name and one with
  two files, of which its checker always reads one and the other has a name for a given chapter only, so
  that a list may be whole, part or empty, and G5 re-checks some; an operator with every command but `dispatch` and an agent that
  dispatches and runs `post-skill`, so that commands of one are overtaken by the other's.

All runs exhaust their state space; the largest are `audit_wave` and `settlement` with
about two million states each, and `round` with one million.

`reviewed` does not kill a review between its effects and its save. That case is real and
is not covered up: an approval that died there is repeated over a
staging area it already emptied, `commit_staging` then finds nothing, and
`PlannedBeforeDrafted` and `PendingProduct` do not hold of it. `unattended` does kill
reviews (of escalations, boundaries and the closure).

Deadlock is checked in `reviewed`, `unattended`, `state_file` and `round`, where there is always
something to do. The other models stop when their subject is over: a wave, a
dispatch or all calls or writes done, genesis left, the chapters written, the answers and
kills of the bound used up.

Fairness. `WaveEnds` assumes weak fairness of the main thread and of each worker
thread: the operating system schedules them, a back-off is a finite sleep and a
dispatch has a timeout of its own. `EveryCallEnds` assumes that a
thread which is inside a write goes on; nobody has to start one, and a kill
ends it. `ReviewedCommandsStop` and `CommandReturns` assume that a command that runs goes on; nobody
has to give one, answer a question or be killed. In none of them is an
outcome assumed: a dispatch may fail for ever as far as the counters let it.
No liveness is checked of `Pipeline`: a command's termination depends on
the retry counters, which are `StepRetry`'s.

## 4. The proofs

`tlapm` checks them; each theorem holds for every value of the constants that the named
assumptions allow. `<module>_proofs` EXTENDS the module; `Locks_proofs` extends three modules and
`Skills_proofs` two, which share no name.

`Pipeline_proofs`: for every book, setting of the switches, choice of kills and bound.

| Theorem | States |
|---|---|
| `Backed` | `Spec => []Inv`, the inductive invariant |
| `TypeCorrect` | `Spec => []TypeOK` |
| `NoChapterSkipped` | `Spec => []DraftsBehindCursor` |
| `NoGhosts` | `Spec => []NoGhostChapter` |
| `ClosedComplete` | `Spec => []ClosureIsLate` |
| `Refinement` | `Spec => KeepsPromise`: the state file implements `Lifecycle` |
| `PlansBeforeDrafts` | `Spec => []PlannedBeforeDrafted`, if `"review" \notin Crashes` or memos are not reviewed |
| `ProductsPending` | `Spec => []PendingProduct`, if `ChapterReview` and `"review" \notin Crashes` |
| `SettledOnItsOwn` | `Spec => OwnSettlementOnly`, if `SettleReview` |

None of the properties is inductive. A rewind may send the cursor back and a
restart may bring back an older state, so whether the cursor is safe tomorrow depends on
what is in the state *file*, in the *queue*, in the *pending checkpoint* and in
the *history of approvals* today. `Inv` says of all of them that what they
rely on is drafted: `BackedState(D)` is the set of states backed by the drafts `D`,
and both `st` and `disk` belong to it for the drafts in the directory. Two facts
carry the proof. Drafts are never removed and `BackedState` is monotone in `D`
(`Monotone`), so what is backed stays backed across a crash. And each way of
building a new state from an old one (a rewind, an entry, a checkpoint, a decision)
preserves membership for a fixed `D`; those are the lemmas `StepBacked`, `RedoBacked`,
`RejectedBacked`, `ClampedBacked` and so on, from which each action follows. A
settlement checkpoint has to back the whole bundle and not only its chapter,
because rejecting it rewinds the leader's cursor past the point where both drafts exist.

`Refinement` needs besides that the states are in order (`Promised`): which queue a cursor allows, and
what the copy in memory may have done that the file does not know of yet. The step
simulation goes through the actions that write the file; all others stutter.

The hypotheses of the last three are the cases in which the code does not keep the property. A review
of a memo or a settlement killed between what it does to staging and its save leaves the checkpoint pending over
a staging that is empty: the next approval commits nothing, and the chapter is drafted from a plan that is not there. Without
chapter reviews a process that began a chapter goes on over a settlement it owes, and its exit
hook removes the product of the question it ends with, which carries no marker yet. Without settlement
reviews settlements commit by themselves. The run `reviewed` meets the three hypotheses.

`Locks_proofs`: `WriteLock` for any calls, processes and number of polls.

| Theorem | States |
|---|---|
| `Invariant` | `Spec => []Inv`, the inductive invariant |
| `TypeCorrect` | `Spec => []TypeOK` |
| `WriteExclusion` | `Spec => []Exclusive` |
| `NoStrayLock` | `Spec => []NothingLeft` |
| `WritesKept` | `Spec => LostOnlyToOverwrite` |

`Inv` relates the lock file to the thread that made it. While no lock file was exposed
(`~exposed`) the holder made the lock file there is, or is the one holder of the `flock`
(`Owned`); a lock file that is old shows the pid of its holder, whose process has no other thread at the file
(`AgedIsShown`); so a waiter's judgement reaches `Unlink` for nobody's lock, and one that was
judged and is gone had a maker that makes no second (`Judged`). `Fresh` says that a thread about to
write has read what the file holds, from which a write loses nothing.

In the same module `StateFile`, for any set of command slots and number of updates:

| Theorem | States |
|---|---|
| `FileInvariant` | `FileSpec => []FileInv`, the inductive invariant |
| `Latest` | `FileSpec => []WorksOnLatest` |
| `NoSelfDeadlock` | `FileSpec => []NoSelfWait` |
| `OnlyExitLoses` | `FileSpec => LostOnlyAtExit` |

Its invariant is mutual exclusion (`Alone`), the lock each place needs (in
`FileTypeOK`), and `WorksOnLatest`. `WorksOnLatest` needs the other two: a save by
another process would break it, and only the lock rules that out. From it every
save but the overlay writes a superset of the file.

And `TruthFile`, for any calls, processes, files, cells and capacity of the registry:

| Theorem | States |
|---|---|
| `TruthInvariant` | `TruthSpec => []TruthInv`, the inductive invariant of the locks |
| `TruthTypes` | `TruthSpec => []TruthTypeOK` |
| `NoneStale` | `TruthSpec => []NothingStale` |
| `TheirRowOnly` | `TruthSpec => OnlyItsRow` |
| `InsertsYield` | `TruthSpec => InsertYields` |
| `StaysSound` | `TruthSpec => []TableSound` |
| `WritesAtomic` | `TruthSpec => AtomicStore`, the refinement of `KeyedStore` |

The reference count of an entry is the number of calls that are between the two sections of `_path_lock`
(`Counted`, a cardinality); an entry with none may go, one with some stays, so every such call still finds
the lock it has looked up (`LookedUp`) and two of them for a path have the same one. With that `ThreadAlone` and
`FlockAlone` are inductive, and a call's `basis` is the file (`NothingStale`). The eviction by `locked()` alone,
which the mutant has, breaks `LookedUp` first: a call that has looked up its lock and does not hold it yet counts for
nothing there.

What is written is proved line by line. `Picked` is a recursive function over the lines; since no induction theorem
can be instantiated, `Upwards` gets its induction from a least counterexample (`LeastNumber`), and
`PickedStepwise` shows that the recursion has a solution. From there: the lines of a set, gone
through in order (`Within`), are the same when only lines outside of the set are dropped, replaced or put in
(`PickedWithin`, `InsertedAt`); `HeaderEnsured` and `UpsertKeeps` apply that to everybody else's lines, and show that
the file comes out with the contract's table first of all (`Headed`), whose key is its first two columns
(`HeadedKeys`). That is why a key means the same to the next call, and why `Tables`, which says of every file that it has one
of the three shapes, is inductive.

`StaysSound` needs the order of the lines besides. `Orderly` names the two ends of the table, its header at `h` and its
last row at `m`; everything with a key is in between, once, and the line behind `m` ends the table for the scan. A call does one of four
things to such a file: a row more behind `m` (`OrderlyGrown`), a line at the end of the file that the table does not
reach (`OrderlyBehind`), another row in the place of one (`OrderlyReplaced`), a fence in front (`OrderlyFenced`);
`UpsertOrderly` says that there is no fifth. A file without the table gets one of that form from any call
(`OrderlyNew`, `EnsuredOrderly`). `AllNeat`, that every file and everything a call has read is of one of these forms, is
inductive, and it holds without any lock: a stale basis is as orderly as a fresh one.

`WritesAtomic` puts the two together. `UpsertIs` says what a keyed write makes of an orderly file, and `UpsertItems` that
it sets one item; `ItemsEnsured`, `NotedItems` and `CreatedItems` do the same for the header, a note and a first file, and
`ShellEmpty` shows that a shell has no items. So what a call writes is what the store makes of the table it has looked at (`ContentItems`),
for which no lock is needed; that this is the table of the moment is `NothingStale` (`TakeStep`). Every other step
is a step of the store before or after the write, or none (`StoreStep`).

`Genesis_proofs`: for any table of steps, files, structures and numbers of attempts and answers.

| Theorem | States |
|---|---|
| `Invariant` | `Spec => []Inv`, the inductive invariant |
| `TypeCorrect` | `Spec => []TypeOK` |
| `EarnedCompletion` | `Spec => []CompletionEarned` |
| `FreezesStand` | `Spec => FreezeStands` |
| `DriftReported` | `Spec => []DriftTold` |

`Inv` says of the running state and of the saved one that they are sound: what is behind the
cursor is done or optional, unless the sequence stopped on a drift; a checkpoint stands where the
cursor says; and the saved freeze is the command's. That a kill brings back the saved
state is why both are needed. `DriftReported` has an invariant of its own (`RInv`): of both states, a
done step that is frozen was told or has on disk, in the files it alone writes, what was frozen; and
what the file says is done, memory says too, so that a kill gives back no step that has drifted since.

`StepRetry_proofs`: for any numbers of attempts, budget, answers and kills.

| Theorem | States |
|---|---|
| `Invariant` | `Spec => []IInv`, the inductive invariant of the counters |
| `TypeCorrect` | `Spec => []TypeOK` |
| `DurableBudget` | `Spec => []BudgetHolds` |
| `WordsRepeated` | `Spec => []ReviewerHeard` |
| `CursorEarned` | `Spec => []NothingSkipped` |
| `EscalationEarned` | `Spec => []ExhaustionEarned` |

`IInv` bounds the failures that really happened by what is charged: in the process's state up to one
per kill, in the file's up to one more, for the failure whose save is under way; the two states
are equal between steps. `BudgetHolds` follows from the cap on what is charged. The last three come from
`SInv`, about the state in memory and the saved one: the reviewer's words are kept where a rewind and a
kill find them, unless the history is full of families newer than they are; every step behind the cursor is good, except where a settlement is split; the step an
escalation is about has spent its budget; a question about the settlement has the cursor at the
revision; and under review no step is charged more than one failure that did not happen, the one
that healing makes up (`Backed`).

`AuditWave_proofs`: for any circles, reviews, permits, retries, histories and kills.

| Theorem | States |
|---|---|
| `Invariant` | `Spec => []Inv`, the inductive invariant of the waves |
| `TypeCorrect` | `Spec => []TypeOK` |
| `WritersAlone` | `Spec => []SharedWritersAlone` |
| `FindingsSeen` | `Spec => []BlockingSeen` |

An active review belongs to the part of the wave in which the main thread waits (`Joined`), a serial
review begins in its part and after those before it are over (`Begun`), and at most one serial
review is active (`Lone`). `Lone` needs that a result is taken only of a review that
has ended (`Taken`): otherwise the next writer could start beside the one whose result it was.
`RecordInv` bounds the attempts (`Patient`), says that no review of a later part has begun
(`Launched`), and that the judgement waits for all of them: before the cursor has passed, nothing
is on record, and afterwards what the reports on disk say is (`Judged`).

`Settlement_proofs`: for any keys, owners, batches of operations, writers and bounds.

| Theorem | States |
|---|---|
| `Invariant` | `Spec => []IInv`, the inductive invariant |
| `ApprovedLands` | `Spec => []RowsLand` |
| `RejectedNeverLands` | `Spec => []RejectedStaysOut` |
| `RefusedIsClean` | `Spec => []RefusalIsClean` |
| `FactsCounted` | `Spec => []FactsOnce` |

The proofs see a step by what it does to the tables (`DataStep`): a row goes live (`Lands`), staging
shrinks (`Thins`), is written (`Writes`) or merged (`Merges`), or all stays (`Keeps`). A row is
known by its stamp. What is rejected is `Apart` from what is staged and live from then on, and what
is about to be is only on its way out (`Rejecting`). What the human was shown is first in staging,
then there or live, then live (`Asking`, `Landing`), which a kill at any line between
keeps; that needs that an owed row is still staged (`OwedStaged`) and that no settlement is queued
twice (`Single`). `Clean` holds the copy that a refused batch is compared with.

The operations of the facts are counted by an invariant of their own (`Logged`). While an approval
is under way every log, on disk or ready to be written, has an operation no more often than some
batch said it (`Said`), and a dimension that is past its check, or is written, has all of the batch that the approval
found (`Full`). That one batch keeps both (`ApplyCounts`) is an induction along the batch, which is
argued from a first operation at which the count would fail (`LeastNumber`).

`Round_proofs`: for any phases, skills, processes and any division of the commands among them.

| Theorem | States |
|---|---|
| `Invariant` | `Spec => []Inv`, the inductive invariant |
| `TypeCorrect` | `Spec => []TypeOK` |
| `MarkedPhases` | `Spec => []ScoredIsMarked` |
| `CleanClose` | `Spec => []ClosedIsClean` |
| `OnlyStaleRewinds` | `Spec => RewindIsStale` |

A command in flight holds the copy it was admitted with (`Admitted`), and what that copy says of the
markers is true however old it is (`Truthful`), because a marker is never withdrawn; that is
why the commands may overtake one another and still mark nothing that is not there. What G7 found
holds as long as nobody else moves (`Current`), and the two together are `ClosedIsClean`: each skill has a marker,
which names some file, and what its checker sees of the list passes. It says nothing of files that the marker does not name
(`ClosedIsWhole` in section 5).

`Skills_proofs`: `Triggers` for any book, intervals, failures and kills; `Dispatch` for any number of tries and
any files.

| Theorem | States |
|---|---|
| `Invariant` | `Spec => []Inv`, the inductive invariant of `Triggers` |
| `PaidOnce` | `Spec => []RunsOnce` |
| `Governed` | `Spec => []ConfigGoverned` |
| `EndsAnswered` | `Spec => []VolumeAnswered` |
| `DispatchInvariant` | `DispatchSpec => []DispatchInv`, that of `Dispatch` |
| `BilledOnce` | `DispatchSpec => []BilledIsCharged` |
| `OneReplyWritten` | `DispatchSpec => []WrittenOfOneReply` |

`Inv` says of memory and of the file (`Sound`) that a skill with words for it is not done, so that a row
is due only if it is not; that the skill of an escalation has not passed; and that a
question about a volume is about the chapter before the cursor, which therefore does not move past
an end without an answer. A row that has passed once more than there were kills is known to the state (`Spent`),
and the copy a dispatch keeps of the configuration is the governed one as long as nobody
was killed over it (`Restored`).

`DispatchInv` follows the usage of a billed try: while the first call goes on it is in `usage_acc`,
once and only there (`Counted`); when the call has ended it is in the ledger (`Charged`), and so is that of
the reply at hand (`Replied`); what is on disk comes of that reply, and only if it
is acceptable (`Landed`). The list of files still to write is a filtered sequence and stays untyped.

The assumptions are the named `ASSUME`s of the modules: `BookAssumption` (the
volumes end within the book, and the last one ends with it), and the types of the
constants. `WaveAssumption` says that circles share no review
and that a circle lists each of its serial reviews once, as the tables of `chapter_loop.py` do.
`TruthFileAssumption` has the three shapes of a base, and that a row has the contract's number of cells;
`NeatAssumption`, that the tables in the bases are sound, is used by `StaysSound` alone.

Only model-checked: all liveness (`WaveEnds`, `EveryCallEnds`, `CommandReturns` and the like). Every invariant and every action property
of a run is also a theorem. The
prover has no rules for liveness under fairness and `ENABLED`, nor for `RECURSIVE`
operators; the first keeps liveness with TLC, the other kept such operators out of the modules with proofs. Induction is
to be had only by a least counterexample, as above.


## 5. Disagreements between the code and what it says

They are definitions in the modules, which TLC refutes when they are added to a run's
invariants (or properties). Each quotes the line it is about.

| Definition | The code says | It does |
|---|---|---|
| `FollowerRouted` (AuditWave) | `chapter_loop.py:4817`: the close runs for every chapter of a bundle | the wave jumps over it; its own routing reads the leader's reports |
| `EveryReportCounts` (AuditWave) | `chapter_loop.py:4227`: an entry per review that ran | reviews of a killed wave are left out by the replay and get none, so the cascade does not count them |
| `NoEcho` (AuditWave) | `audit_aggregate.py:85`: the summary is an echo, no finding | the router counts it |
| `FailedAuditsRemain` (AuditWave) | `chapter_loop.py:4188`: a review that failed is kept out of what is done so that resume runs it again | the cursor has passed it |
| `ClosedIsSettled` (Pipeline) | `cli.py:734`: a redone settlement rides until the review | it is unmarked, and the next command's cleanup removes it |
| `EscalationBlocksCompletion` (Pipeline) | `chapter_loop.py:3296`: an unread score must block silent completion | it is raised in a step that reports progress |
| `NoPlanPastTheBook` (Pipeline) | `transitions.py:47`: all chapters written, enter closure | the transition belongs to `resume`; `next` plans on |
| `BothArePlanned` (Pipeline) | `chapter_loop.py:4845`: a bundle's step completes for both chapters | only the leader's plan is looked for; an answer without the follower's completes it too |
| `RevisionIsResettled` (Pipeline) | `cli.py:78`: settle reads the revised chapters | a settlement already queued keeps its earlier place |
| `UpdatesKept` (StateFile) | `machine.py:46`: locked read-modify-write replaces what lost updates | the exit hook uses it to write back its own copy whole |
| `TakeoverExclusive` (WriteLock) | `safe_write.py:97-100`: comparing inodes closes the race of two takeovers | the file is replaced between the comparison and the unlink |
| `QuietHolderKept` (WriteLock) | `safe_write.py:71-72`: a live holder that merely went quiet must not be robbed | one whose pid is not, or not yet, in its lock file counts as gone |
| `CommandsStop` (Genesis) | `genesis.py:10-13`: failures retry up to their maximum | without reviews, G4 and G3 that fail by turns reset each other's counter |
| `RulingConsumes` (Genesis) | `cli.py:1098-1101`: a redo list leaves what it does not name standing, and keeping its freeze would report the accepted drift again | its loop begins at the first listed step (`cli.py:1072`); a frozen step before that keeps its freeze |
| `NeverWedged` (Genesis) | `cli.py:1812-1816`: steps a redo does not list stay done | if the last step is one of them it is skipped, and nothing raises the checkpoint again |
| `WordsFindTheStep` (StepRetry) | `cli.py:1300-1305`: the reviewer's words go to the failing step | after a rewind the cursor is at another |
| `WordsAlwaysHeard` (StepRetry) | `cli.py:1321-1323`: later rounds of failures keep the reviewer's constraint | the history drops its oldest families, these words among them |
| `StratumBeforeScore` (Triggers) | `triggers.py:14`: the stratum first, its score second | the fan-out's memory is by skill: once the arc is distilled the stratum's distillation, the same skill, counts as done, and the score runs without it |
| `EveryArcDistilled` (Triggers) | `triggers.py:9`: after every N with N % 12 = 0 | the cursor jumps over followers |
| `RejectedIsRedone` (Triggers) | `cli.py:1153`: the fan-out runs again | the branch is not reached |
| `NothingLost` (Settlement, without kills) | `checkpoint.py:52-65`: staged rows merge over the live ones so that nothing is lost in either direction | a settlement that waits for its answer is merged over rows that a derived skill wrote to the live table meanwhile |
| `OnlyAskedSurvives` (Settlement) | `chapter_loop.py:1914-1927`: what survives is what is asked about | marks outlive their question |
| `WrittenIsWhole` (Dispatch) | `dispatch_helper.py:4151-4153`: a reply that gets so far is valid | so is one that broke off without a finish reason |
| `SuccessNotOverstated` (Dispatch) | `dispatch_helper.py:4214-4218`: success in the trace is not overstated | the audit that follows downgrades it |
| `EveryTryCharged` (Dispatch) | `dispatch_helper.py:3777-3779`: every billed try is charged | of a resend only the try that answered is |
| `ClosedIsWhole` (Round) | `g7.py:209`: all markers verified by re-run | a marker may name part of what its skill wrote (`phase_runner.py:241-245`); the rest is in nobody's list |
| `CreationYields` (TruthFile) | `dispatch_helper.py:2652-2656`: the shell is checked again under the lock | not on the live path |

Smaller ones met on the way, with no definition: the cap on revisions is read by one
dispatch only (`chapter_loop.py:3257-3260`); `resonance_pending` is never cleared; revised drafts are
not audited again though `decide_revision` says its caller does; the base of an outline
is read before its lock (`dispatch_helper.py:2778` and 2801); the commit of staging takes no path lock though
`truth_io.py:163-165` says they share the registry; `ledger_archive.py` removes the live text (251)
before it appends it to the archive (260); a marker stays when its output fails later, and an empty list of
files earns one from a checker without objections (`generic.py:91`), which only G7.13 finds; G5.1 reads
`final_score` or `score` from the first report `find_report` meets, so an agent's flat scores count as 0 and
hide the operator's verdict (`g5.py:111`); G5 without a project directory skips its re-checks, and `finalize` need not
name one; `upsert_markdown_row` looks for a key in every table of the file (`truth_io.py:1718-1726`), so that a row of
another table which begins with the same cells is replaced or dropped in the place of the contract's; and a row without a key goes
to the end of the file, whatever table ends there (1691-1695).

## 6. The plan

Done: `Book`, `Lifecycle`, `Pipeline`; `StateFile` and `WriteLock`; `AuditWave`; `StepRetry`,
`Genesis`, `Triggers`; `Settlement`, `Dispatch`, `TruthFile`; `Round`; the inductive invariants of
all of them, `KeyedStore`, and the refinements of `Lifecycle` and `KeyedStore`. Left, in order:

1. A model of staging together with the locks: the exit hook empties it outside
   the write lock (`crash_recovery.py:189`).
2. The archive of ledgers with its two writes.
3. `progress.json`, the dual scorer and the other modes of the dispatcher.

## 7. Not modelled

- Text: prompts, context assembly, scene splitting, read extractors, seed parsers,
  review checklists, embeddings. They are functions of text and keep no state; where
  they can fail, the failure is an outcome.
- The checkers of the gates, the arithmetic of scores, contracts and configuration tables: predicates over text files, about a
  third of the implementation. A gate is an outcome wherever a step runs one, so the models cover
  what happens after any verdict and say nothing of which verdict is right. This
  is why the share of the implementation the map covers is small.
- `init`, `status`, listings: they read or create state once.
- In modelled parts: the Windows branches, reuse of inode numbers and of pids (`WriteLock`); seeding
  (`Genesis`); targeted edits, the one-shot feedback of MODIFY, trigger slots (`StepRetry`); a kill
  of the process in the middle of a fan-out loses what it remembered, and `last_trigger_failure` is
  never cleared, both of which `Triggers` has as they are; automatic settlement by whole files, the identity
  dimension, creation rows, the retry cap (`Settlement`); streaming usage, early stop,
  archive, quarantine, a row of the ledger that cannot be written and is given up
  (`dispatch_helper.py:3374-3377` and 3407; `Dispatch`); closure steps are not told apart (`Pipeline`).

----------------------------- MODULE AuditWave ------------------------------
(***************************************************************************)
(* The audits of a bundle, the step that Pipeline takes as a whole (there: *)
(* AuditWave).  Each circle of reviews runs its read-only members on       *)
(* worker threads that share a semaphore, then its writers of shared truth *)
(* one at a time; a collecting thread saves the state whenever a parallel  *)
(* review succeeds.  The reports are then consolidated into a summary and  *)
(* judged, which routes the revision.  The process may be killed and the   *)
(* step replayed.                                                          *)
(***************************************************************************)
EXTENDS Naturals, FiniteSets, Sequences

CONSTANTS
  Circles,                \* 1: core, 2: genre
  Parallel,               \* circle -> its read-only reviews
  Serial,                 \* circle -> sequence of its writers of shared truth
  ScoreReview,            \* review-resonance, whose score a gate waits for
  Verdicts,               \* review -> what its reports can say
  Cascadable,             \* CASCADABLE_AUDITS
  CascadeStreak,          \* CASCADE_STREAK_LENGTH
  ReverifyGap,            \* CASCADE_REVERIFY_GAP
  Histories,              \* bound: what earlier chapters recorded of a review
  MaxConcurrentReviews,   \* MAX_CONCURRENT_REVIEWS
  MaxRetries,             \* MAX_RETRIES
  MaxKills                \* bound: kills of the process

SerialSet(c) == {Serial[c][i] : i \in DOMAIN Serial[c]}
Audits == UNION {Parallel[c] \cup SerialSet(c) : c \in 1..Circles}

\* What a review's reports say of the bundle: a blocking finding about the
\* leader's chapter, one about the follower's only, a score left to a human.
Verdict == {"clean", "blocking", "follower", "pending"}
Entry   == [age : Nat, passed : BOOLEAN]    \* age: chapters ago

ASSUME WaveAssumption ==
  /\ ScoreReview \in Audits /\ Cascadable \subseteq Audits \ {ScoreReview}
  /\ \A a \in Audits : Verdicts[a] # {} /\ Verdicts[a] \subseteq Verdict
  /\ CascadeStreak \in Nat \ {0} /\ ReverifyGap \in Nat
  /\ Histories \subseteq Seq(Entry)
  /\ Circles \in Nat \ {0}
  /\ MaxConcurrentReviews \in Nat \ {0}
  /\ MaxRetries \in Nat /\ MaxKills \in Nat
  /\ IsFiniteSet(Audits)
  /\ \A c \in 1..Circles :
       /\ DOMAIN Serial[c] \subseteq Nat
       /\ \A i, j \in DOMAIN Serial[c] : Serial[c][i] = Serial[c][j] => i = j
  /\ \A c \in 1..Circles : Parallel[c] \cap SerialSet(c) = {}
  /\ \A c, d \in 1..Circles : c # d =>
       (Parallel[c] \cup SerialSet(c)) \cap (Parallel[d] \cup SerialSet(d)) = {}

VARIABLES
  at,        \* the main thread: circle and whether it runs wave or serial part
  task,      \* worker of each review
  attempts,  \* ReviewTask.attempts, of the current process
  collected, \* reviews whose result the main thread has taken
  past,      \* audit_results of earlier chapters, of each that
             \* may be skipped, oldest first
  report,    \* audits/ on disk: what each report says, "none" if incomplete
  summary,   \* the consolidated summary on disk
  st, disk,  \* the state of the process, the state file
  kills
vars == <<at, task, attempts, collected, past, report, summary, st, disk, kills>>

Position == [circle : 1..Circles, part : {"start", "wave", "serial", "consolidate",
                                           "close", "save", "done"}]
Worker   == {"absent", "waiting", "dispatching", "ok", "failed"}
Report   == Verdict \cup {"none"}
\* The summary of blocking findings quotes their lines, and a line with a bold
\* or keyed marker reads like a finding of its own ("echoes").
Summary  == {"none", "clean", "listed", "echoes"}
State ==
  [past     : BOOLEAN,          \* step_index is past the last audit
   saved    : SUBSET Audits,    \* audit_results["wave_completed"]
   done     : SUBSET Audits,    \* steps_done
   blocking : BOOLEAN,          \* audit_results["blocking_found"]
   entry    : [Audits -> {"none", "passed", "failed"}],  \* audit_results[a]
   route    : {"none", "pass", "revise"},  \* audit_results["revision_route"]
   asks     : BOOLEAN,          \* resonance_pending, and its escalation
   budget   : [Audits -> 0..MaxRetries]]  \* retry_budget_consumed

Start   == [circle |-> 1, part |-> "start"]
NoTasks == [a \in Audits |-> "absent"]
Fresh   == [past |-> FALSE, saved |-> {}, done |-> {}, blocking |-> FALSE,
            entry |-> [a \in Audits |-> "none"], route |-> "none", asks |-> FALSE,
            budget |-> [a \in Audits |-> 0]]

Init ==
  /\ at = Start /\ task = NoTasks /\ attempts = [a \in Audits |-> 0]
  /\ past \in [Cascadable -> Histories]
  /\ collected = {} /\ report = [a \in Audits |-> "none"] /\ summary = "none"
  /\ st = Fresh /\ disk = Fresh /\ kills = 0

-----------------------------------------------------------------------------
(* Workers.                                                                *)

Dispatching == {a \in Audits : task[a] = "dispatching"}
\* Reviews that hold a permit of the semaphore; one that backs off before a
\* retry has released it and waits like a new one.
HoldersFaulty == {a \in Audits : task[a] \in {"dispatching", "failed"}}
Holders       == Dispatching

\* A serial review has a semaphore to itself.
Permitted(a) == a \in SerialSet(at.circle) \/ Cardinality(Holders) < MaxConcurrentReviews

Acquire(a) ==
  /\ task[a] = "waiting" /\ Permitted(a)
  /\ task' = [task EXCEPT ![a] = "dispatching"]
  /\ attempts' = [attempts EXCEPT ![a] = @ + 1]
  /\ UNCHANGED <<at, collected, past, report, summary, st, disk, kills>>

Ends(a, outcome) ==
  /\ task[a] = "dispatching"
  /\ task' = [task EXCEPT ![a] = outcome]
  /\ UNCHANGED <<at, attempts, collected, past, summary, st, disk, kills>>

Reported(a) == report[a] # "none"
\* What a dispatch leaves, whether it succeeds or not: one that misses a
\* report is logged and succeeds, and the write audit may refuse one whose
\* reports have landed.  Reports are rewritten, never removed.
Lands(a) ==
  \E r \in Verdicts[a] \cup IF Reported(a) THEN {} ELSE {"none"} :
    report' = [report EXCEPT ![a] = r]

Succeeds(a) == Ends(a, "ok") /\ Lands(a)

OutOfRetries(a) == attempts[a] > MaxRetries

FailsTransiently(a) ==
  Ends(a, IF OutOfRetries(a) THEN "failed" ELSE "waiting") /\ Lands(a)
FailsForGood(a) == Ends(a, "failed") /\ Lands(a)

WorkerStep(a) ==
  Acquire(a) \/ Succeeds(a) \/ FailsTransiently(a) \/ FailsForGood(a)

-----------------------------------------------------------------------------
(* The main thread.                                                        *)

Here       == at.circle
Goto(c, p) == at' = [circle |-> c, part |-> p]

\* _should_skip_audit: a streak of passes that is recent enough stands for the
\* review.  A review that is skipped leaves no entry, so a streak ages.
Skipped(a) ==
  /\ a \in Cascadable /\ Len(past[a]) >= CascadeStreak
  /\ \A i \in (Len(past[a]) - CascadeStreak + 1)..Len(past[a]) : past[a][i].passed
  /\ past[a][Len(past[a])].age <= ReverifyGap

\* _filter_completed_audit_tasks: a replay leaves out what has its reports.
ToRun(c) == {a \in Parallel[c] : ~Skipped(a) /\ ~Reported(a)}

StartWave ==
  /\ at.part = "start"
  /\ task' = [a \in Audits |-> IF a \in ToRun(Here) THEN "waiting" ELSE task[a]]
  /\ Goto(Here, "wave")
  /\ UNCHANGED <<attempts, collected, past, report, summary, st, disk, kills>>

Ended(a) == task[a] \in {"ok", "failed"}

\* as_completed hands over a result; a success is a save point.
Collect(a) ==
  /\ at.part = "wave" /\ a \in Parallel[Here] \ collected /\ Ended(a)
  /\ collected' = collected \cup {a}
  /\ IF task[a] = "ok"
     THEN st' = [st EXCEPT !.saved = @ \cup {a}] /\ disk' = st'
     ELSE UNCHANGED <<st, disk>>
  /\ UNCHANGED <<at, task, attempts, past, report, summary, kills>>

WaveOverFaulty(c) == \A a \in Parallel[c] : task[a] # "waiting"   \* does not join
WaveOver(c) == \A a \in Parallel[c] : task[a] = "absent" \/ a \in collected

EndWave ==
  /\ at.part = "wave" /\ WaveOver(Here)
  /\ Goto(Here, "serial")
  /\ UNCHANGED <<task, attempts, collected, past, report, summary, st, disk, kills>>

\* Serial reviews are never filtered, and none of them is a save point.
Over(a) == Skipped(a) \/ Ended(a)
StartSerial(i) ==
  /\ at.part = "serial" /\ task[Serial[Here][i]] = "absent" /\ ~Skipped(Serial[Here][i])
  /\ \A j \in DOMAIN Serial[Here] : j < i => Over(Serial[Here][j])
  /\ task' = [task EXCEPT ![Serial[Here][i]] = "waiting"]
  /\ UNCHANGED <<at, attempts, collected, past, report, summary, st, disk, kills>>

EndSerial ==
  /\ at.part = "serial" /\ \A a \in SerialSet(Here) : Over(a)
  /\ IF Here < Circles THEN Goto(Here + 1, "start") ELSE Goto(Here, "consolidate")
  /\ UNCHANGED <<task, attempts, collected, past, report, summary, st, disk, kills>>

Failed == {a \in Audits : task[a] = "failed"}

\* Blocking findings about the leader's chapter are read from every report in
\* audits/, those of an earlier process included.
FindingsFaulty == {a \in Audits : Ended(a) /\ report[a] = "blocking"}
Findings       == {a \in Audits : report[a] = "blocking"}

\* An old summary is among the files: what it echoes is listed again, but the
\* line that is quoted of it is not an echo.
Consolidate ==
  /\ at.part = "consolidate"
  /\ summary' \in IF Findings # {} THEN {"listed", "echoes"}
                  ELSE IF summary = "echoes" THEN {"listed"} ELSE {"clean"}
  /\ Goto(Here, "close")
  /\ UNCHANGED <<task, attempts, collected, past, report, st, disk, kills>>

\* Only the core reviews are steps of the table.
Core       == Parallel[1] \cup SerialSet(1)
MarkedDone == Core \ Failed

Charged(a) ==
  LET retries == IF attempts[a] > 1 THEN attempts[a] - 1 ELSE 0
  IN  IF retries > st.budget[a] THEN retries ELSE st.budget[a]

\* _wave_audit_entry, of the reviews this process ran: what the cascade of
\* later chapters reads.  A pending score is no pass.
Recorded(a) ==
  IF task[a] = "absent" THEN st.entry[a]
  ELSE IF task[a] = "ok" /\ report[a] \in {"clean", "none"} THEN "passed" ELSE "failed"

\* collect_audit_issues also reads the summary just written.
Route == IF Findings # {} \/ summary = "echoes" THEN "revise" ELSE "pass"

Close ==
  /\ at.part = "close"
  /\ st' = [st EXCEPT !.past = TRUE, !.done = @ \cup MarkedDone,
                      !.blocking = summary \in {"listed", "echoes"},
                      !.entry = [a \in Audits |-> Recorded(a)],
                      !.budget = [a \in Audits |-> Charged(a)],
                      !.route = Route,
                      !.asks = @ \/ report[ScoreReview] = "pending"]
  /\ Goto(Here, "save")
  /\ UNCHANGED <<task, attempts, collected, past, report, summary, disk, kills>>

\* The orchestration loop saves after the step.
Save ==
  /\ at.part = "save"
  /\ disk' = st
  /\ Goto(Here, "done")
  /\ UNCHANGED <<task, attempts, collected, past, report, summary, st, kills>>

\* A new process finds the cursor where the state file has it.
Kill ==
  /\ kills < MaxKills /\ kills' = kills + 1
  /\ at.part # "done"
  /\ at' = Start /\ task' = NoTasks /\ attempts' = [a \in Audits |-> 0]
  /\ collected' = {} /\ st' = disk
  /\ UNCHANGED <<past, report, summary, disk>>

MainStep ==
  \/ StartWave \/ EndWave \/ EndSerial \/ Consolidate \/ Close \/ Save
  \/ \E a \in Audits : Collect(a)
  \/ \E c \in 1..Circles : c = Here /\ \E i \in DOMAIN Serial[c] : StartSerial(i)

Next == MainStep \/ (\E a \in Audits : WorkerStep(a)) \/ Kill

\* Threads are scheduled, and a dispatch ends: it has a timeout.
Fairness == WF_vars(MainStep) /\ \A a \in Audits : WF_vars(WorkerStep(a))
Spec     == Init /\ [][Next]_vars /\ Fairness

-----------------------------------------------------------------------------
(* Properties.                                                             *)

TypeOK ==
  /\ at \in Position /\ task \in [Audits -> Worker]
  /\ attempts \in [Audits -> 0..(MaxRetries + 1)]
  /\ collected \subseteq Audits /\ summary \in Summary
  /\ past \in [Cascadable -> Histories] /\ report \in [Audits -> Report]
  /\ st \in State /\ disk \in State /\ kills \in 0..MaxKills

\* A review that writes shared truth runs alone: parallel reviews have been
\* joined before it starts, and the next circle waits for it.
SharedWritersAlone ==
  \A a \in Dispatching : (\E c \in 1..Circles : a \in SerialSet(c)) => Dispatching = {a}

\* Past the audits, a blocking finding that any report on disk makes of the
\* leader's chapter is on record and routes a revision, and a score that was
\* left open asks a human, also when the report is of a process that was killed.
BlockingSeen ==
  st.past =>
    /\ \A a \in Audits : report[a] = "blocking" => st.blocking /\ st.route = "revise"
    /\ report[ScoreReview] = "pending" => st.asks

\* The wave ends: no review waits for a permit or a retry for ever.
WaveEnds == <>(at.part = "done")

-----------------------------------------------------------------------------
(* What the code says of itself and does not do.                           *)

\* chapter_loop.py:4188: a failed audit is not marked done, or else "resume
\* never re-dispatched it".  The cursor passes it all the same.
FailedAuditsRemain == disk.past => \A a \in Audits : Reported(a) \/ task[a] = "ok"

\* chapter_loop.py:4817: the "audit close (blocking detection -> revision
\* routing) runs for EVERY bundle chapter".  The wave's cursor passes the place
\* where it would, and its own routing reads the leader's reports.
FollowerRouted ==
  st.past => \A a \in Audits : report[a] = "follower" => st.route = "revise"

\* chapter_loop.py:4227: the cascade consumes an entry per review that ran.  A
\* replay leaves out the reviews of the killed process, and writes none for them.
EveryReportCounts ==
  st.past => \A a \in Audits : report[a] \in {"blocking", "follower"} => st.entry[a] = "failed"

\* audit_aggregate.py:85: the summary is "downstream echo" and not a finding.
\* Consolidation and router read it as one.
NoEcho == st.past /\ st.blocking => Findings # {}
=============================================================================

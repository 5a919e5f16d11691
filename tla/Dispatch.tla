------------------------------ MODULE Dispatch ------------------------------
(***************************************************************************)
(* One dispatch of a skill: the tries of the provider call and its two     *)
(* resends (an empty reply that was billed, a reply cut by its own limit), *)
(* what of it the token ledger is told, the files written from the reply   *)
(* one after the other, and the audit of what was written.  A try is known *)
(* by its place among all tries, a reply by the try it answers.            *)
(***************************************************************************)
EXTENDS Integers, Sequences, FiniteSets, SequencesExt

CONSTANTS
  MaxTries, \* tries of one call: stop_after_attempt
  Files     \* the declared outputs, in the order they are written

ASSUME DispatchAssumption ==
  /\ MaxTries \in Nat \ {0}
  /\ Files \in Seq(STRING) /\ Files # <<>> /\ IsInjective(Files)

VARIABLES
  route,   \* provider, IDE agent or legacy subprocess
  pc,      \* where the dispatch is
  call,    \* which call is made and how often it was tried
  acc,     \* usage_acc: tries counted, usage seen, usage of earlier tries
  reply,   \* what the last call returned
  raises,  \* the skill's limit can be raised
  ledger,  \* rows of token-ledger.jsonl
  outputs, \* of which try each output file is, 0: of none of these
  todo,    \* files of the reply still to be written
  trace,   \* DISPATCH events: their success field
  result,  \* DispatchResult
  tries    \* every try ever made: its call, whether it was billed
dispatchVars == <<route, pc, call, acc, reply, raises, ledger, outputs, todo, trace, result, tries>>

Calls    == {"first", "resend", "raised"}
Finishes == {"stop", "length", "content_filter", "tool_calls", "none"}   \* none: the stream just ended
NoReply  == [try |-> 0, usage |-> 0, finish |-> "stop", empty |-> TRUE]
This     == Len(tries)
Paths    == ToSet(Files)

DispatchTypeOK ==
  /\ route \in {"api", "ide", "legacy"}
  /\ pc \in {"start", "call", "failed", "answered", "judge", "write", "audit", "done"}
  /\ call \in [name : Calls, tried : 0..MaxTries]
  /\ acc.attempts \in Nat /\ acc.usage \in Nat /\ acc.prior \in Seq(Nat)
  /\ reply \in [try : Nat, usage : Nat, finish : Finishes, empty : BOOLEAN]
  /\ raises \in BOOLEAN
  /\ ledger \in Seq([metered : Nat, attempt : Nat \ {0}])
  /\ outputs \in [Paths -> 0..This] /\ todo \in Seq(Paths)
  /\ trace \in Seq(BOOLEAN) /\ result \in {"none", "ok", "failed", "gate_fail"}
  /\ tries \in Seq([call : Calls, billed : BOOLEAN])

DispatchInit ==
  /\ route \in {"api", "ide", "legacy"} /\ raises \in BOOLEAN
  /\ pc = "start" /\ call = [name |-> "first", tried |-> 0]
  /\ acc = [attempts |-> 0, usage |-> 0, prior |-> <<>>]
  /\ reply = NoReply /\ ledger = <<>> /\ outputs = [f \in Paths |-> 0]
  /\ todo = <<>> /\ trace = <<>> /\ result = "none" /\ tries = <<>>

-----------------------------------------------------------------------------
(* The ledger: a metered row names the try it is about, an estimate 0.     *)

Metered(try, attempt) == [metered |-> try, attempt |-> attempt]
Estimate(attempt)     == [metered |-> 0, attempt |-> attempt]

\* The tries before the last: those that were billed, then the others.
Earlier ==
  [i \in 1..Len(acc.prior) |-> Metered(acc.prior[i], i)] \o
  [k \in 1..(acc.attempts - Len(acc.prior) - 1) |-> Estimate(acc.attempts - k)]

BegunFaulty ==    \* the usage of the try before is overwritten
  [attempts |-> acc.attempts + 1, usage |-> 0, prior |-> acc.prior]
\* usage_acc when a try begins: usage that an earlier try left is set aside.
Begun == [attempts |-> acc.attempts + 1, usage |-> 0,
          prior |-> IF acc.usage = 0 THEN acc.prior ELSE Append(acc.prior, acc.usage)]

-----------------------------------------------------------------------------
(* The provider.                                                           *)

Fail(pcs) == pc = pcs /\ pc' = "audit" /\ result' = "failed"
Ledger(rows) == ledger' = ledger \o rows
Call(name) == pc' = "call" /\ call' = [name |-> name, tried |-> 0]

BuildPrompt ==
  /\ pc = "start"
  /\ \/ Call("first") /\ UNCHANGED result
     \/ route # "legacy" /\ Fail("start") /\ UNCHANGED call
  /\ UNCHANGED <<route, acc, reply, raises, ledger, outputs, todo, trace, tries>>

\* _call_llm_streaming, once: usage may have come before it broke.  The call
\* with the raised limit is not given usage_acc.
Try(billed) ==
  /\ pc = "call" /\ route = "api" /\ call.tried < MaxTries
  /\ tries' = Append(tries, [call |-> call.name, billed |-> billed])
  /\ acc' = IF call.name = "raised" THEN acc
            ELSE [Begun EXCEPT !.usage = IF billed THEN This + 1 ELSE 0]
  /\ UNCHANGED <<route, raises, ledger, outputs, todo, trace, result>>
Answers ==
  \E billed, empty \in BOOLEAN, finish \in Finishes :
    /\ Try(billed)
    /\ reply' = [try |-> This + 1, usage |-> IF billed THEN This + 1 ELSE 0,
                 finish |-> finish, empty |-> empty]
    /\ pc' = "answered" /\ UNCHANGED call
BreaksTransiently ==
  \E billed \in BOOLEAN :
    /\ Try(billed) /\ call' = [call EXCEPT !.tried = @ + 1] /\ UNCHANGED reply
    /\ pc' = IF call'.tried = MaxTries THEN "failed" ELSE "call"
BreaksForGood ==
  \E billed \in BOOLEAN : Try(billed) /\ pc' = "failed" /\ UNCHANGED <<call, reply>>

\* _account_failed_attempt, and the trace: only of a first call that failed.
CallFails ==
  /\ Fail("failed")
  /\ IF call.name = "first"
     THEN /\ Ledger(Earlier \o <<IF acc.usage = 0 THEN Estimate(acc.attempts)
                                 ELSE Metered(acc.usage, acc.attempts)>>)
          /\ trace' = Append(trace, FALSE)
     ELSE UNCHANGED <<ledger, trace>>
  /\ UNCHANGED <<route, call, acc, reply, raises, outputs, todo, tries>>

\* What an answered call adds to the ledger.
LedgerRows ==
  (IF call.name = "first" THEN Earlier ELSE <<>>) \o
  (IF reply.usage = 0 THEN <<>>
   ELSE <<Metered(reply.usage, IF call.name = "raised" THEN 1 ELSE acc.attempts)>>)

\* Billed and nothing in it: the completion went another way.
SendAgain == call.name = "first" /\ reply.empty /\ reply.usage # 0
CallAnswered ==
  /\ pc = "answered" /\ Ledger(LedgerRows)
  /\ \/ SendAgain /\ Call("resend")      \* completion_tokens > 0
     \/ pc' = "judge" /\ UNCHANGED call
  /\ UNCHANGED <<route, acc, reply, raises, outputs, todo, trace, result, tries>>

AcceptableFaulty ==                        \* the limit was raised, so it is enough
  reply.finish # "content_filter" /\ (call.name = "raised" \/ reply.finish # "length")
\* Only these two are turned away; a reply without its last chunk is not.
Acceptable == reply.finish \notin {"length", "content_filter"}

Accepted ==
  /\ pc = "judge" /\ Acceptable
  /\ pc' = "write"
  \* Which files it holds is up to the reply; a file without a block, an empty
  \* block, a file of the framework are passed over.
  /\ todo' \in {SelectSeq(Files, LAMBDA f : f \in held) :
                  held \in IF reply.empty THEN {{}} ELSE SUBSET Paths}
  /\ UNCHANGED <<route, call, acc, reply, raises, ledger, outputs, trace, result, tries>>
Filtered ==
  /\ ~Acceptable /\ reply.finish = "content_filter" /\ Fail("judge")
  /\ trace' = IF call.name = "raised" THEN trace ELSE Append(trace, FALSE)
  /\ UNCHANGED <<route, call, acc, reply, raises, ledger, outputs, todo, tries>>
Cut ==
  /\ pc = "judge" /\ ~Acceptable /\ reply.finish = "length"
  /\ IF call.name # "raised" /\ raises
     THEN Call("raised") /\ UNCHANGED result
     ELSE Fail("judge") /\ UNCHANGED call
  /\ UNCHANGED <<route, acc, reply, raises, ledger, outputs, todo, trace, tries>>

-----------------------------------------------------------------------------
(* The other routes: an agent whose reply is written like a provider's,    *)
(* and a subprocess that writes and audits by itself.                      *)

AgentReturns ==
  /\ pc = "call" /\ route = "ide"
  /\ \/ /\ pc' = "judge" /\ UNCHANGED result
        /\ \E empty \in BOOLEAN : reply' = [NoReply EXCEPT !.try = 1, !.empty = empty]
     \/ Fail("call") /\ UNCHANGED reply
  /\ tries' = <<[call |-> "first", billed |-> FALSE]>>
  /\ UNCHANGED <<route, call, acc, raises, ledger, outputs, todo, trace>>

LegacyReturns ==
  /\ pc = "call" /\ route = "legacy" /\ pc' = "done"
  /\ tries' = <<[call |-> "first", billed |-> FALSE]>>
  /\ \E ran \in BOOLEAN, written \in SUBSET Paths :
       /\ outputs' = [f \in Paths |-> IF f \in written THEN 1 ELSE 0]
       /\ result' \in IF ran THEN {"ok", "failed"} ELSE {"failed"}   \* timed out
       /\ Ledger(IF ran THEN <<Estimate(1)>> ELSE <<>>)
  /\ UNCHANGED <<route, call, acc, reply, raises, todo, trace>>

-----------------------------------------------------------------------------
(* _write_parsed_outputs and _with_write_audit.                            *)

Written == {f \in Paths : outputs[f] = reply.try}

\* A file is written, or kept as it was because the new one is far too short.
WriteFile ==
  /\ pc = "write" /\ todo # <<>> /\ todo' = Tail(todo)
  /\ outputs' \in {outputs, [outputs EXCEPT ![Head(todo)] = reply.try]}
  /\ UNCHANGED <<route, pc, call, acc, reply, raises, ledger, trace, result, tries>>
\* A block that reports a failure, breaks its form or leaves the project: what
\* was written before it stays.
RefuseFile ==
  /\ todo # <<>> /\ Fail("write") /\ todo' = <<>>
  /\ UNCHANGED <<route, call, acc, reply, raises, ledger, outputs, trace, tries>>
NothingWritten ==
  /\ todo = <<>> /\ Written = {} /\ Fail("write")
  /\ UNCHANGED <<route, call, acc, reply, raises, ledger, outputs, todo, trace, tries>>
AllWritten ==
  /\ pc = "write" /\ todo = <<>> /\ Written # {}
  /\ pc' = "audit" /\ result' = "ok"
  /\ IF route = "api" THEN trace' = Append(trace, TRUE) /\ UNCHANGED ledger
     ELSE Ledger(<<Estimate(1)>>) /\ UNCHANGED trace
  /\ UNCHANGED <<route, call, acc, reply, raises, outputs, todo, tries>>

\* The audit sees what changed, of a dispatch that failed as well.
Audit ==
  /\ pc = "audit" /\ pc' = "done"
  /\ \/ UNCHANGED result
     \/ result = "ok" /\ Written # {} /\ result' = "gate_fail"
  /\ UNCHANGED <<route, call, acc, reply, raises, ledger, outputs, todo, trace, tries>>

DispatchNext ==
  \/ BuildPrompt \/ Answers \/ BreaksTransiently \/ BreaksForGood \/ CallFails
  \/ CallAnswered \/ Accepted \/ Filtered \/ Cut
  \/ AgentReturns \/ LegacyReturns
  \/ WriteFile \/ RefuseFile \/ NothingWritten \/ AllWritten \/ Audit

DispatchSpec == DispatchInit /\ [][DispatchNext]_dispatchVars

-----------------------------------------------------------------------------
(* Properties.                                                             *)

Billed(name) == {i \in DOMAIN tries : tries[i].billed /\ tries[i].call = name}
MeteredTries == {ledger[i].metered : i \in DOMAIN ledger} \ {0}

\* Once a dispatch has ended, every billed try of its first call is charged,
\* those that broke after they were billed included, and so is every call that
\* was answered.  No try is charged twice, whatever resends follow it, and none
\* that was not billed.
BilledIsCharged ==
  /\ \A i \in MeteredTries : tries[i].billed
  /\ \A i, j \in DOMAIN ledger :
       ledger[i].metered = ledger[j].metered /\ ledger[i].metered # 0 => i = j
  /\ pc = "done" /\ route = "api" =>
       /\ Billed("first") \subseteq MeteredTries
       /\ reply.usage # 0 => reply.usage \in MeteredTries

\* What is on disk comes from one reply, the last, and the provider has not
\* said of that one that it was cut or filtered: whichever of the three calls
\* was answered by it, and whatever became of it after its first file.
WrittenOfOneReply ==
  \A f \in Paths : outputs[f] # 0 /\ route # "legacy" =>
    outputs[f] = reply.try /\ reply.finish \notin {"length", "content_filter"}

-----------------------------------------------------------------------------
(* What the code says of itself and does not do.                           *)

\* dispatch_helper.py:4151-4153: a reply that gets so far is valid.  One that
\* the provider has not finished gets there too.
WrittenIsWhole ==
  \A f \in Paths : outputs[f] # 0 /\ route # "legacy" => reply.finish = "stop"

\* Success in the trace never overstates a dispatch that failed later.
SuccessNotOverstated ==
  pc = "done" => (TRUE \in ToSet(trace) => result = "ok")

\* Every try the provider billed has its row in the ledger.
EveryTryCharged ==
  pc = "done" => {i \in DOMAIN tries : tries[i].billed} \subseteq MeteredTries
=============================================================================

---------------------------- MODULE MCWriteLock -----------------------------
(***************************************************************************)
(* An instance of WriteLock for TLC: two threads of one process, and a     *)
(* process with one.                                                       *)
(***************************************************************************)
EXTENDS WriteLock

CONSTANTS ledger, audit, snapshot, engine, tool

MCCalls  == {ledger, audit, snapshot}
MCProcs  == {engine, tool}
MCProcOf == [c \in MCCalls |-> IF c = snapshot THEN tool ELSE engine]
MCKindOf == [c \in MCCalls |-> CASE c = ledger   -> "append"
                                 [] c = audit    -> "transact"
                                 [] c = snapshot -> "overwrite"]
=============================================================================

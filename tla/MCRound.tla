------------------------------ MODULE MCRound ------------------------------
(***************************************************************************)
(* An instance of Round for TLC: of the phase planning, one skill whose    *)
(* only file has a name for a chapter alone, and one that writes such a    *)
(* file beside one its checker looks for in any case.                      *)
(***************************************************************************)
EXTENDS Round

OnePhase == [ph \in {"planning"} |-> {"context-composing", "foreshadowing-lifecycle"}]
Patterns == [ph \in {"planning"} |-> {{"context.md"}, {"pending_hooks.md"}, {"audit.md"}}]
Written  == [s \in {"context-composing", "foreshadowing-lifecycle"} |->
  IF s = "context-composing" THEN {"context.md"} ELSE {"pending_hooks.md", "audit.md"}]
Always   == [s \in {"context-composing", "foreshadowing-lifecycle"} |->
  IF s = "context-composing" THEN {} ELSE {"pending_hooks.md"}]
Markdown == [s \in {"context-composing", "foreshadowing-lifecycle"} |->
  IF s = "context-composing" THEN {"context.md"} ELSE {"pending_hooks.md"}]
Roles == [p \in {"operator", "agent"} |->
  IF p = "operator" THEN Commands \ {"dispatch"} ELSE {"post-skill", "dispatch"}]
=============================================================================

\* Two skills of the phase, one with a second file that only a chapter names; the
\* agent executes skills and gates them.
CONSTANTS
  Phases = {"planning"}
  Skills = {"context-composing", "foreshadowing-lifecycle"}
  Files = {"context.md", "pending_hooks.md", "audit.md"}
  Prerequisites <- OnePhase
  Expects <- Patterns
  Outputs <- Written
  Reads <- Written
  Fixed <- Always
  Swept <- Markdown
  Parametric = {"context.md", "audit.md"}
  Procs = {"operator", "agent"}
  Runs <- Roles
SPECIFICATION Spec
INVARIANTS
  ScoredIsMarked
  ClosedIsClean
PROPERTY
  RewindIsStale

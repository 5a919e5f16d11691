---------------------------- MODULE MCTruthFile -----------------------------
(***************************************************************************)
(* An instance of TruthFile for TLC: threads that replace and insert in    *)
(* one file, one that creates another and needs room in the registry, a    *)
(* helper in a process of its own.                                         *)
(***************************************************************************)
EXTENDS TruthFile

CONSTANTS upsert, insert, create, note, engine, tool, matrix, arcs

MCWrites    == {upsert, insert, create, note}
MCPrograms  == {engine, tool}
MCPaths     == {matrix, arcs}
MCProgramOf == [c \in Writes |-> IF c = note THEN tool ELSE engine]
MCPathOf    == [c \in Writes |-> IF c = create THEN arcs ELSE matrix]
MCWriteKind == [c \in Writes |-> CASE c = upsert -> "upsert" [] c = insert -> "insert"
                                    [] c = create -> "create" [] c = note -> "append"]
MCWords     == {"", "A", "B", "now", "---", "pair", "limit", "a", "b", "x", "y", "a-x", "-"}
MCCellsOf   == [c \in Writes |-> IF c = create THEN <<"b", "x", "-">> ELSE <<"a", "y", "-">>]

Title     == Text(Scaffold)
OldRow    == Row(<<"a", "x", "-">>, Before)
Neighbour == <<OtherHeader, Sep(2), Row(<<"a-x", "-">>, Before)>>
MCBases   ==
  [q \in MCPaths |->
     IF q = arcs THEN {<<Fence, Title>>, <<Header, Sep(3), OldRow>> \o Neighbour}
     ELSE {<<Fence, Title>>, <<Fence, OldRow>>,
           <<Fence, Header, Sep(3), OldRow>> \o Neighbour}]
=============================================================================

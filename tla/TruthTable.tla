----------------------------- MODULE TruthTable -----------------------------
(***************************************************************************)
(* A truth file as the lines it consists of, and what truth_io.py makes of *)
(* them: the contract header a table starts with, the columns that key its *)
(* rows, and the place a new row takes.  A pipe line is a row (a header is *)
(* a row before a separator) or a separator; any other line is text.       *)
(* `by` is who wrote a line: of two lines that say the same of a key it    *)
(* tells which is newer.                                                   *)
(***************************************************************************)
EXTENDS Naturals, SequencesExt

CONSTANTS
  Scaffold   \* nobody's: frontmatter, headings, headers, separators

Text(by)       == [kind |-> "text", cells |-> <<>>, by |-> by]
Row(cells, by) == [kind |-> "row", cells |-> cells, by |-> by]
Sep(width)     == [kind |-> "sep", cells |-> [i \in 1..width |-> "---"], by |-> Scaffold]
Fence          == [kind |-> "fence", cells |-> <<>>, by |-> Scaffold]

\* The file's header of _TABLE_HEADER_BOOTSTRAP and the key its contract
\* declares: two columns of three.
KeyNames == <<"A", "B">>
Header   == Row(<<"A", "B", "now">>, Scaffold)
Width    == Len(Header.cells)

\* The second table of such a file, with a header of its own.
OtherHeader == Row(<<"pair", "limit">>, Scaffold)

Pipes(lines) == {i \in DOMAIN lines : lines[i].kind \in {"row", "sep"}}
First(S)     == CHOOSE i \in S : \A j \in S : i <= j
After(lines, i)    == {j \in Pipes(lines) : j > i}
OnASep(lines, S)   == S # {} /\ lines[First(S)].kind = "sep"

\* _structural_table_lines: separators, and rows whose next pipe line is one.
Structural(lines) ==
  {i \in Pipes(lines) : lines[i].kind = "sep" \/ OnASep(lines, After(lines, i))}

-----------------------------------------------------------------------------

Named(line) == \A k \in DOMAIN KeyNames : Contains(line.cells, KeyNames[k])

\* _key_columns: by name when the first pipe line is the header, otherwise
\* the first column.
KeyColumns(lines) ==
  LET pipes == Pipes(lines)
      head  == First(pipes)
      next  == After(lines, head)
  IN  IF pipes # {} /\ (next = {} \/ OnASep(lines, next)) /\ Named(lines[head])
      THEN [k \in DOMAIN KeyNames |->
              First({i \in DOMAIN lines[head].cells : lines[head].cells[i] = KeyNames[k]})]
      ELSE <<1>>

\* _norm_key: a key of nothing is none.
KeyOf(line, columns) == [k \in DOMAIN columns |-> line.cells[columns[k]]]
NoKey(row, columns)  == \A k \in DOMAIN columns : row.cells[columns[k]] = ""
HasKey(line, row, columns) ==
  /\ line.kind = "row" /\ \A k \in DOMAIN columns : columns[k] \in DOMAIN line.cells
  /\ KeyOf(line, columns) = KeyOf(row, columns) /\ ~NoKey(row, columns)
\* The names of the columns in place of a key.
HeaderAgain(row, columns) == \A k \in DOMAIN columns : row.cells[columns[k]] = KeyNames[k]

KeyTableTailFaulty(lines) ==          \* walks through whatever has pipes
  LET heads == {i \in Structural(lines) : lines[i].kind = "row" /\ Named(lines[i])}
      ends  == {j \in DOMAIN lines : j > First(heads) /\ j \notin Pipes(lines)}
  IN  IF heads = {} \/ ends = {} THEN Len(lines) + 1 ELSE First(ends)

\* _key_table_tail: before the first line after the keyed header that is no
\* pipe line or begins a run of rows of another width; a lone ragged row
\* belongs to the table.  Without a keyed header, the end of the file.
KeyTableTail(lines) ==
  LET heads == {i \in Structural(lines) : lines[i].kind = "row" /\ Named(lines[i])}
      head  == First(heads)
      width(j) == Len(lines[j].cells)
      ends  == {j \in DOMAIN lines :
                  /\ j > head
                  /\ \/ j \notin Pipes(lines)
                     \/ /\ lines[j].kind = "row" /\ width(j) # width(head)
                        /\ j + 1 \in Pipes(lines) /\ width(j + 1) = width(j)}
  IN  IF heads = {} \/ ends = {} THEN Len(lines) + 1 ELSE First(ends)

\* The lines at some places, in their order.
Picked(lines, places) ==
  LET upto[n \in 0..Len(lines)] ==
        IF n = 0 THEN <<>>
        ELSE IF n \in places THEN Append(upto[n - 1], lines[n]) ELSE upto[n - 1]
  IN  upto[Len(lines)]

\* upsert_markdown_row: in place of the row with its key, whose duplicates are
\* dropped; a row of another width is not replaced unless the new one only
\* adds cells to it; a new key joins its table.  A row without a key is
\* appended, the header written again is left out.
UpsertRow(lines, row) ==
  LET columns == KeyColumns(lines)
      same  == {i \in DOMAIN lines : /\ i \notin Structural(lines)
                                     /\ HasKey(lines[i], row, columns)}
      fits  == {i \in same : \/ Len(lines[i].cells) = Len(row.cells)
                             \/ IsPrefix(lines[i].cells, row.cells)}
      stays == {i \in DOMAIN lines : i \notin same \/ fits = {} \/ i <= First(fits)}
      put   == [i \in DOMAIN lines |-> IF i \in fits /\ i = First(fits) THEN row ELSE lines[i]]
  IN  IF HeaderAgain(row, columns) THEN lines
      ELSE IF NoKey(row, columns) THEN Append(lines, row)
      ELSE IF same = {} THEN InsertAt(lines, KeyTableTail(lines), row) ELSE Picked(put, stays)

\* has_markdown_row
HasRow(lines, row) ==
  \E i \in DOMAIN lines : HasKey(lines[i], row, KeyColumns(lines))

-----------------------------------------------------------------------------

\* ensure_truth_frontmatter
WithFence(lines) == IF lines # <<>> /\ lines[1] = Fence THEN lines ELSE <<Fence>> \o lines

\* ensure_table_header: of a file without a table at its end, of one that
\* starts with bare rows before them.
EnsureTableHeader(lines) ==
  LET content == WithFence(lines)
      body    == Tail(content)
  IN  IF Contains(content, Header) THEN content
      ELSE IF Pipes(content) = {} THEN content \o <<Header, Sep(Width)>>
      ELSE IF Head(body).kind = "row" THEN <<Fence, Header, Sep(Width)>> \o body
      ELSE content

\* base_is_shell: frontmatter, headings, headers and separators, no data.
BaseIsShell(lines) ==
  \A i \in DOMAIN lines : i \in Structural(lines) \/ (lines[i].by = Scaffold /\ lines[i].kind # "row")

=============================================================================

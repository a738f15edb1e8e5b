----------------------------- MODULE FireSource ----------------------------
(***************************************************************************)
(* The text of a file by lines, and the carets that a diagnostic draws     *)
(* under a span of it: SourceFile's index and lookups, and the part of     *)
(* DiagnosticEngine::render_one that measures. A text is a sequence of     *)
(* one-character strings. Offsets are from 0, lines and columns from 1.    *)
(***************************************************************************)
EXTENDS Integers, Sequences, FiniteSetsExt, SequencesExt

\* m_line_starts, as a set: the index is in order and has no duplicates.
LineStarts(text) == {0} \cup { i \in 1 .. Len(text) : text[i] = "\n" }

\* A slip of a line search: the first start not before the offset.
LocateFromLowerBound(text, offset) ==
  LET clamped == Min({offset, Len(text)})
      before == {0} \cup { s \in LineStarts(text) : s < clamped }
  IN [line |-> Cardinality(before), column |-> clamped - Max(before) + 1]

\* The line before the first start past the offset: upper_bound, then back.
Locate(text, offset) ==
  LET clamped == Min({offset, Len(text)})
      before == { s \in LineStarts(text) : s <= clamped }
  IN [line |-> Cardinality(before), column |-> clamped - Max(before) + 1]

\* The span of a line, without what ends it.
LineSpan(text, line) ==
  LET begin == CHOOSE s \in LineStarts(text) :
                 Cardinality({ t \in LineStarts(text) : t <= s }) = line
      later == { s \in LineStarts(text) : s > begin }
      end == IF later = {} THEN Len(text) ELSE Min(later)
      kept == { i \in begin + 1 .. end : text[i] \notin {"\n", "\r"} }
  IN <<begin, IF kept = {} THEN begin ELSE Max(kept)>>

LineText(text, line) == SubSeq(text, LineSpan(text, line)[1] + 1, LineSpan(text, line)[2])

TabWidth == 4

\* expand_tabs: each column shown, with the character of the line it shows.
ExpandTabs(line) ==
  LET shown[n \in 0 .. Len(line)] ==
        IF n = 0 THEN <<>>
        ELSE shown[n - 1] \o [ k \in 1 .. (IF line[n] = "\t" THEN TabWidth ELSE 1) |-> n ]
  IN shown[Len(line)]

\* visual_column, from 0: a column past the line counts one.
VisualColumn(line, column) ==
  column - 1 + (TabWidth - 1) * Cardinality({ i \in 1 .. Min({column - 1, Len(line)}) : line[i] = "\t" })

\* The line shown, the column of the first caret and the number of carets.
Carets(text, begin, end) ==
  LET from == Locate(text, begin)
      to == Locate(text, end)
      line == LineText(text, from.line)
      first == VisualColumn(line, from.column)
      stop == IF to.line = from.line THEN VisualColumn(line, to.column) ELSE Len(ExpandTabs(line))
  IN [line |-> from.line, first |-> first, width |-> IF stop > first THEN stop - first ELSE 1]
=============================================================================

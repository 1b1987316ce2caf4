--------------------------- MODULE TakeoutParser ---------------------------
(***************************************************************************)
(* WatchHistoryParser and WatchLaterParser: what they find in a file, on   *)
(* one thread and on three.                                                *)
(*                                                                         *)
(* An HTML file is a sequence of cells: the start of an href (the video it *)
(* leads to, or "link" when it leads elsewhere), a "quote", which also     *)
(* ends an href, and other "text".  A CSV file is a sequence of lines: the *)
(* "header", rows, given by their first field, and "empty" ones.  Offsets  *)
(* count from 0, as in the code.                                           *)
(***************************************************************************)
EXTENDS Positions, FiniteSetsExt

CONSTANT Videos

Cells == Videos \cup {"link", "quote", "text"}
Rows == Videos \cup {"empty"}

\* A list that grows in three parts, each found by a thread of its own.
Merged(parts) == Unique(parts[1] \o parts[2] \o parts[3])

\* Where section k of n positions begins.
SectionStart(k, n) == ((k - 1) * n) \div 3
-----------------------------------------------------------------------------
(* Watch history.                                                          *)

Starts(html) == {p \in 0 .. Len(html) - 1 : html[p + 1] \notin {"quote", "text"}}

\* find: the first position of S from p on; the end of the file is npos.
Find(S, p, html) == Min({q \in S : q >= p} \cup {Len(html)})
ValueEnd(html, p) ==
  Find({q \in 0 .. Len(html) - 1 : html[q + 1] = "quote"}, p + 1, html)

\* Of what the client reads, an href ends before the next one starts; only the
\* last one of a file cut short may not end.
WellFormed(html) ==
  \A p, q \in Starts(html) : p < q => ValueEnd(html, p) < q

\* The hrefs scanned from a up to b, each with an end no later than b, and the
\* videos they lead to.
Scan(html, a, b) ==
  LET hrefs == {p \in Starts(html) : a <= p /\ p < b /\ ValueEnd(html, p) < Len(html)
                                     /\ ValueEnd(html, p) <= b}
  IN  Unique(At(html, {p + 1 : p \in {q \in hrefs : html[q + 1] \in Videos}}))

\* parse.
ParseHistory(html) == Scan(html, 0, Len(html))

\* Mutant: a section ends where it was cut.
ParseCut(html, a, b) == Scan(html, a, b)

\* parseRange: a section is widened to the starts of hrefs on both sides.
ParseRange(html, a, b) ==
  Scan(html, Max({p \in Starts(html) : p <= a} \cup {0}), Find(Starts(html), b, html))
-----------------------------------------------------------------------------
(* Watch later.                                                            *)

\* CsvParser: the first line names the column of what the others hold.
ParseCsv(lines) ==
  [i \in 1 .. Len(lines) - 1 |-> [column |-> Head(lines), value |-> lines[i + 1]]]

\* WatchLaterParser::parse: without a column "Video ID" nothing is found.
ParseRows(lines) ==
  LET rows == ParseCsv(lines)
      ids == {i \in DOMAIN rows : rows[i].column = "header" /\ rows[i].value # "empty"}
  IN  At([i \in DOMAIN rows |-> rows[i].value], ids)

\* parseMultiThreaded: the first line is left out if it is the header.
DataStart(lines) == IF lines # <<>> /\ Head(lines) = "header" THEN 1 ELSE 0

\* Rows a .. b - 1.
RowsOf(lines, a, b) == At(lines, {i \in a + 1 .. b : lines[i] # "empty"})
-----------------------------------------------------------------------------
\* YouTubeDataImporter: what the thread of section k finds in a file.
Section(file, k) ==
  IF file.kind = "html"
  THEN LET n == Len(file.cells)
       IN  ParseRange(file.cells, SectionStart(k, n), SectionStart(k + 1, n))
  ELSE LET d == DataStart(file.cells)
           n == Len(file.cells) - d
       IN  RowsOf(file.cells, d + SectionStart(k, n), d + SectionStart(k + 1, n))

\* What one thread would find.
Whole(file) ==
  IF file.kind = "html" THEN ParseHistory(file.cells)
  ELSE IF DataStart(file.cells) = 1 THEN Unique(ParseRows(file.cells))
  ELSE Unique(ParseRows(<<"header">> \o file.cells))
=============================================================================

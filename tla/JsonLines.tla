----------------------------- MODULE JsonLines -----------------------------
(***************************************************************************)
(* The JSON-lines files of the reflexion memory (memory/failures.py,       *)
(* memory/reflexion.py): rows are appended one line at a time, and the     *)
(* whole file is replaced through a temporary one.  A write that fails, or *)
(* that a crash cuts short, leaves any part of its line.                   *)
(***************************************************************************)
EXTENDS Naturals, SequencesExt

CONSTANT Junk     \* a line that is not JSON

\* How much of "row\n" reaches the file: nothing, a part of the row, the row
\* without its newline, or all of it.
Extents == {"none", "part", "row", "all"}

Tears == {"part", "row"}

\* A file: its lines, and whether the last one lacks its newline.
Empty == [lines |-> <<>>, open |-> FALSE]

\* open("a") does not look at the file: what is written after a line without
\* a newline becomes part of that line.
Written(file, row, extent) ==
    LET line == IF extent = "part" THEN Junk ELSE row IN
    IF extent = "none" THEN file
    ELSE [lines |-> IF file.open THEN Append(Front(file.lines), Junk)
                                 ELSE Append(file.lines, line),
          open  |-> extent # "all"]

\* tmp.replace(path).
Replaced(rows) == [lines |-> rows, open |-> FALSE]

\* Faulty: reading ends at the first line that does not parse.
ParsedPrefix(file) ==
    LET junk == {i \in DOMAIN file.lines : file.lines[i] = Junk} IN
    IF junk = {} THEN file.lines
    ELSE SubSeq(file.lines, 1, (CHOOSE i \in junk : \A j \in junk : i <= j) - 1)

\* s without what is in S.
Without(s, S) ==
    LET kept[n \in 0..Len(s)] ==
          IF n = 0 THEN <<>>
          ELSE IF s[n] \in S THEN kept[n - 1] ELSE Append(kept[n - 1], s[n])
    IN kept[Len(s)]

\* The rows of the lines that parse.
Parsed(file) == Without(file.lines, {Junk})

\* s[-n:]
LastOf(s, n) == SubSeq(s, IF Len(s) > n THEN Len(s) - n + 1 ELSE 1, Len(s))
=============================================================================

---------------------------- MODULE RecentStore ----------------------------
(***************************************************************************)
(* ExemplarStore and GoldenSet (memory/reflexion.py): the most recent      *)
(* items per tenant and query, appended to a JSON-lines file that is       *)
(* compacted by a count of its lines.  The two classes do the same with    *)
(* different rows; what they keep is a key and a value, the key being      *)
(* tenant and fingerprint and the value the exemplar's output.             *)
(***************************************************************************)
EXTENDS JsonLines, FiniteSets

CONSTANTS
    ItemKeys,    \* (tenant, fingerprint of the query)
    Outputs,     \* what an item may say
    Capacity,    \* capacity
    CompactFactor, \* 4 in the code
    MaxFaults    \* bound: writes that fail or tear

ItemsOf(keys) == [key: keys, output: Outputs]

ASSUME RecentAssumption ==
    /\ Capacity \in Nat \ {0} /\ CompactFactor \in Nat \ {0} /\ MaxFaults \in Nat
    /\ Junk \notin ItemsOf(ItemKeys)

VARIABLES
    opened,      \* is there a process?
    items,       \* _items, oldest first
    lines,       \* _Jsonl.lines
    recentFile,  \* exemplars.jsonl, golden.jsonl
    faults,      \* history: writes that did not succeed
    inStep       \* history: nothing went wrong since file and memory agreed

recentVars == <<opened, items, lines, recentFile, faults, inStep>>

RecentInit ==
    /\ opened = FALSE /\ items = <<>> /\ lines = 0 /\ recentFile = Empty
    /\ faults = 0 /\ inStep = TRUE

\* Faulty: an item that is there already keeps its place.
PutInPlace(s, row) ==
    IF \E i \in DOMAIN s : s[i].key = row.key
    THEN [i \in DOMAIN s |-> IF s[i].key = row.key THEN row ELSE s[i]]
    ELSE Append(s, row)

\* _put(): newest wins and moves to the back.
PutItem(s, row) == Append(Without(s, ItemsOf({row.key})), row)

\* What is there when every row was put, in order.
Replayed(rows) ==
    LET put[n \in 0..Len(rows)] ==
          IF n = 0 THEN <<>> ELSE PutItem(put[n - 1], rows[n])
    IN put[Len(rows)]

\* Construction puts every row of the file and then trims.
RecentLoaded == LastOf(Replayed(Parsed(recentFile)), Capacity)

OpenRecent ==
    /\ ~opened /\ opened' = TRUE
    /\ items' = RecentLoaded
    /\ lines' = Len(Parsed(recentFile))
    /\ inStep' = ~recentFile.open
    /\ UNCHANGED <<recentFile, faults>>

CompactAt == CompactFactor * Capacity

Faulted(failed) ==
    /\ failed => faults < MaxFaults
    /\ faults' = faults + (IF failed THEN 1 ELSE 0)

Kept(row) == LastOf(PutItem(items, row), Capacity)

\* Faulty: the line is not counted.
AppendUncounted(row, extent) ==
    /\ lines < CompactAt
    /\ items' = Kept(row)
    /\ recentFile' = Written(recentFile, row, extent)
    /\ lines' = lines
    /\ inStep' = (inStep /\ extent = "all")
    /\ Faulted(extent # "all")

\* add() while the file is short: append, and count the line if that worked.
AppendItem(row, extent) ==
    /\ lines < CompactAt
    /\ items' = Kept(row)
    /\ recentFile' = Written(recentFile, row, extent)
    /\ lines' = IF extent = "all" THEN lines + 1 ELSE lines
    /\ inStep' = (inStep /\ extent = "all")
    /\ Faulted(extent # "all")

\* Faulty: the file is compacted to what was there before the item.
CompactFirst(row, succeeds) ==
    /\ lines >= CompactAt
    /\ items' = Kept(row)
    /\ recentFile' = IF succeeds THEN Replaced(items) ELSE recentFile
    /\ lines' = IF succeeds THEN Len(items) ELSE lines
    /\ inStep' = succeeds
    /\ Faulted(~succeeds)

\* add() otherwise: the file becomes what is kept, or stays as it is.
Compact(row, succeeds) ==
    /\ lines >= CompactAt
    /\ items' = Kept(row)
    /\ recentFile' = IF succeeds THEN Replaced(Kept(row)) ELSE recentFile
    /\ lines' = IF succeeds THEN Len(Kept(row)) ELSE lines
    /\ inStep' = succeeds
    /\ Faulted(~succeeds)

AddItem(row) ==
    /\ opened
    /\ \/ \E extent \in Extents : AppendItem(row, extent)
       \/ \E succeeds \in BOOLEAN : Compact(row, succeeds)
    /\ UNCHANGED opened

Ended == opened' = FALSE /\ items' = <<>> /\ lines' = 0 /\ UNCHANGED inStep

\* The process ends, or dies while it appends.
CloseRecent == opened /\ Ended /\ UNCHANGED <<recentFile, faults>>

DieAdding(row, extent) ==
    /\ opened /\ Ended /\ lines < CompactAt
    /\ extent # "none"
    /\ recentFile' = Written(recentFile, row, extent)
    /\ Faulted(extent # "all")

RecentNext ==
    \/ OpenRecent \/ CloseRecent
    \/ \E k \in ItemKeys, v \in Outputs : LET row == [key |-> k, output |-> v] IN
         AddItem(row) \/ \E extent \in Extents : DieAdding(row, extent)

RecentSpec == RecentInit /\ [][RecentNext]_recentVars
-----------------------------------------------------------------------------
\* The file is compacted before it outgrows a multiple of the capacity: only lines
\* of writes that went wrong come on top (memory/reflexion.py:147, 157, 225).
FileBounded == Len(recentFile.lines) <= CompactAt + faults

\* As long as every write succeeded, a restart gives exactly the items in
\* memory, in their order: trimming at each addition and replaying the file
\* with one trim at the end agree (memory/reflexion.py:192-205, 225-228).
RecentReloads == opened /\ inStep => RecentLoaded = items
=============================================================================

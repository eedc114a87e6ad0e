----------------------------- MODULE FailureLog -----------------------------
(***************************************************************************)
(* FailureLog (memory/failures.py) with its file, over the life of the     *)
(* processes that open it one after the other: records are appended on the *)
(* request path, dropped at the cap or when consumed, and loaded again,    *)
(* through write errors, torn lines and changes of embedder.  Clustering   *)
(* is part of RuleMemory, as are two processes at once.                    *)
(***************************************************************************)
EXTENDS JsonLines, FiniteSets

CONSTANTS
    Embedders,     \* names of embedders
    MaxRecords,    \* max_records
    MaxFailures,   \* bound: failures recorded
    MaxTears,      \* bound: writes that leave a torn line
    Down           \* no process has the log open

\* A row of the file, as far as it matters here.
RowsOf(embedders) == [id: Nat, embedder: embedders]

ASSUME LogAssumption ==
    /\ MaxRecords \in Nat \ {0} /\ MaxFailures \in Nat /\ MaxTears \in Nat
    /\ Down \notin Embedders /\ Junk \notin RowsOf(Embedders)

VARIABLES
    session,    \* embedder_name of the running process, or Down
    records,    \* _records: the request ids, which name the failures
    logFile,    \* failures.jsonl: rows [id, embedder]
    failures,   \* history: how many failures there were; they are numbered
    acked,      \* history: failures whose append succeeded
    excused,    \* history: failures the log dropped on purpose
    tears,      \* history: writes that left a torn line
    mirrored    \* history: nothing went wrong since file and memory agreed

logVars == <<session, records, logFile, failures, acked, excused, tears, mirrored>>

LogInit ==
    /\ session = Down /\ records = <<>> /\ logFile = Empty
    /\ failures = 0 /\ acked = {} /\ excused = {} /\ tears = 0
    /\ mirrored = TRUE

IdsOf(rows) == [i \in DOMAIN rows |-> rows[i].id]

\* Rows of another embedding space are not loaded.
Compatible(e) == IdsOf(Without(Parsed(logFile), RowsOf(Embedders \ {e})))

Foreign(e) == ToSet(IdsOf(Without(Parsed(logFile), RowsOf({e}))))

\* load()
LogLoaded(e) == LastOf(Compatible(e), MaxRecords)

OpenLog(e) ==
    /\ session = Down
    /\ session' = e
    /\ records' = LogLoaded(e)
    /\ excused' = excused \cup Foreign(e)
                  \cup (ToSet(Compatible(e)) \ ToSet(LogLoaded(e)))
    /\ mirrored' = ~logFile.open
    /\ UNCHANGED <<logFile, failures, acked, tears>>

LogRow(id) == [id |-> id, embedder |-> session]

\* _rewrite(): the memory's records, all under this process's embedder.
Rewritten(ids) == Replaced([i \in DOMAIN ids |-> LogRow(ids[i])])

\* The next failure is recorded, and its line reaches the file as far as extent
\* says.
Attempted(id, extent) ==
    /\ failures < MaxFailures /\ failures' = id
    /\ extent \in Tears => tears < MaxTears
    /\ tears' = tears + (IF extent \in Tears THEN 1 ELSE 0)

Trimmed(ids) == LastOf(ids, MaxRecords)

\* record(): append in memory and to the file, whose errors are swallowed; over
\* the cap, drop the oldest record and rewrite the file.
RecordFailure(extent, rewrites) ==
    LET id == failures + 1
        all == Append(records, id)
        over == Len(all) > MaxRecords IN
    /\ session # Down
    /\ Attempted(id, extent)
    /\ records' = Trimmed(all)
    /\ logFile' = IF over /\ rewrites THEN Rewritten(Trimmed(all))
                                      ELSE Written(logFile, LogRow(id), extent)
    /\ acked' = IF extent = "all" THEN acked \cup {id} ELSE acked
    /\ excused' = excused \cup (ToSet(all) \ ToSet(Trimmed(all)))
    /\ mirrored' = \/ over /\ rewrites
                   \/ mirrored /\ extent = "all"
    /\ UNCHANGED session

\* Faulty: the file keeps what was consumed.
ConsumeUnwritten(ids, rewrites) ==
    /\ session # Down /\ ids # {} /\ ids \subseteq ToSet(records)
    /\ records' = Without(records, ids)
    /\ excused' = excused \cup ids
    /\ mirrored' = rewrites
    /\ UNCHANGED <<session, logFile, failures, acked, tears>>

\* remove(): the failures a learning pass consumed; only a call that removes
\* something rewrites the file.
Consume(ids, rewrites) ==
    /\ session # Down /\ ids # {} /\ ids \subseteq ToSet(records)
    /\ records' = Without(records, ids)
    /\ excused' = excused \cup ids
    /\ logFile' = IF rewrites THEN Rewritten(records') ELSE logFile
    /\ mirrored' = rewrites
    /\ UNCHANGED <<session, failures, acked, tears>>

Closed == session' = Down /\ records' = <<>> /\ UNCHANGED <<acked, excused, mirrored>>

CloseLog == session # Down /\ Closed /\ UNCHANGED <<logFile, failures, tears>>

\* The process dies while it appends; a rewrite it dies in leaves the old file.
DieAppending(extent) ==
    /\ session # Down /\ Closed
    /\ Attempted(failures + 1, extent)
    /\ logFile' = Written(logFile, LogRow(failures + 1), extent)

LogNext ==
    \/ \E e \in Embedders : OpenLog(e)
    \/ \E extent \in Extents : DieAppending(extent)
    \/ \E extent \in Extents, rewrites \in BOOLEAN : RecordFailure(extent, rewrites)
    \/ \E ids \in SUBSET (1..MaxFailures), rewrites \in BOOLEAN : Consume(ids, rewrites)
    \/ CloseLog

LogSpec == LogInit /\ [][LogNext]_logVars
-----------------------------------------------------------------------------
\* A torn line costs the log one further record, the one appended to it, and no
\* other: what was appended successfully and not dropped on purpose is in the
\* file, or was lost to a tear of its own (memory/failures.py:118-119, 147).
TearCostsOne ==
    Cardinality((acked \ excused) \ ToSet(IdsOf(Parsed(logFile)))) <= tears

\* As long as every write of a process succeeded, a restart with the same
\* embedder gives exactly its records, in their order (memory/failures.py:150-152,
\* 176, 187).
LogReloads == session # Down /\ mirrored => LogLoaded(session) = records
=============================================================================

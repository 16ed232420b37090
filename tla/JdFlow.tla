------------------------------- MODULE JdFlow -------------------------------
(***************************************************************************)
(* Job descriptions (rows of jd_raw) on their way through the crawl,       *)
(* dedup, clean and import stages.  An execution loads the rows of one     *)
(* status, works outside any lock and writes by primary key, so executions *)
(* of two runs, or of one message delivered twice, act on the same rows;   *)
(* what dedup has seen is kept in Redis, outside its transaction.          *)
(***************************************************************************)
EXTENDS Integers, FiniteSets

CONSTANTS
    Executions,     \* stage executions that may be under way
    Jds,            \* rows of jd_raw, as the crawlers deliver them
    Texts,          \* contents of a posting
    TextOf,         \* the content of each row
    Alike,          \* the contents within the SimHash threshold of each content
    Batch,          \* pipeline_import_batch_size
    MaxExecutions   \* bound: executions in all

JdAssumption == TextOf \in [Jds -> Texts] /\ MaxExecutions \in Nat

VARIABLES
    status,       \* JdStatus of each row, or "absent"
    seen,         \* contents dedup has marked in Redis
    extractions,  \* jd_extraction_records persisted for each row
    stage,        \* what each execution does
    loaded,       \* the rows it has loaded and not looked at
    marks,        \* the rows it is going to write
    accepted,     \* the rows dedup keeps, the contents import has cached
    looking,      \* the row, if any, whose key dedup has found missing
    executions,   \* history: executions so far
    kept,         \* history: rows the first pass has kept
    rechecked,    \* history: rows looked at again while the key of their content lives
    shared,       \* history: rows two executions had at the same time
    unmarked      \* history: rows extracted by an execution that did not mark them

jdVars == <<status, seen, extractions, stage, loaded, marks, accepted, looking,
            executions, kept, rechecked, shared, unmarked>>

InStatus(s) == {j \in Jds : status[j] = s}

Init ==
    /\ status = [j \in Jds |-> "absent"]
    /\ seen = {}
    /\ extractions = [j \in Jds |-> 0]
    /\ stage = [x \in Executions |-> "idle"]
    /\ loaded = [x \in Executions |-> {}]
    /\ marks = [x \in Executions |-> {}]
    /\ accepted = [x \in Executions |-> {}]
    /\ looking = [x \in Executions |-> {}]
    /\ executions = 0
    /\ kept = {} /\ rechecked = {} /\ shared = {} /\ unmarked = {}

\* The rows execution x has loaded and has not written.
Holds(x) == loaded[x] \cup marks[x]
             \cup (IF stage[x] \in {"dedup", "fuzzy"} THEN accepted[x] ELSE {})
             \cup looking[x]

-----------------------------------------------------------------------------
\* dao.upsert_jd: a row that exists is left alone.
CrawlOne(j) ==
    /\ status[j] = "absent"
    /\ status' = [status EXCEPT ![j] = "raw"]
    /\ UNCHANGED <<seen, extractions, stage, loaded, marks, accepted, looking,
                   executions, kept, rechecked, shared, unmarked>>

\* Execution x of a stage loads `rows'.
Load(x, what, rows) ==
    /\ stage[x] = "idle" /\ rows # {}
    /\ executions < MaxExecutions
    /\ executions' = executions + 1
    /\ stage' = [stage EXCEPT ![x] = what]
    /\ loaded' = [loaded EXCEPT ![x] = rows]
    /\ shared' = shared \cup {j \in rows : \E y \in Executions \ {x} : j \in Holds(y)}
    /\ UNCHANGED <<status, seen, extractions, marks, accepted, looking, kept, unmarked>>

\* Execution x is over.
Finish(x) ==
    /\ stage' = [stage EXCEPT ![x] = "idle"]
    /\ loaded' = [loaded EXCEPT ![x] = {}]
    /\ marks' = [marks EXCEPT ![x] = {}]
    /\ accepted' = [accepted EXCEPT ![x] = {}]
    /\ looking' = [looking EXCEPT ![x] = {}]

-----------------------------------------------------------------------------
\* execute_dedup: all raw rows.
DedupLoad(x) ==
    /\ Load(x, "dedup", InStatus("raw"))
    /\ rechecked' = rechecked \cup {j \in kept \cap InStatus("raw") : TextOf[j] \in seen}

\* Variant: the key is set before it is looked for.
DedupLookAfterSet(x, j) ==
    /\ stage[x] = "dedup" /\ looking[x] = {}
    /\ j \in loaded[x]
    /\ loaded' = [loaded EXCEPT ![x] = @ \ {j}]
    /\ seen' = seen \cup {TextOf[j]}
    /\ marks' = [marks EXCEPT ![x] = @ \cup {j}]
    /\ UNCHANGED <<status, extractions, stage, accepted, looking, executions, kept,
                   rechecked, shared, unmarked>>

\* _redis_exact_dedup, EXISTS: a content that was seen is a duplicate.
DedupLook(x, j) ==
    /\ stage[x] = "dedup" /\ looking[x] = {}
    /\ j \in loaded[x]
    /\ loaded' = [loaded EXCEPT ![x] = @ \ {j}]
    /\ IF TextOf[j] \in seen
       THEN marks' = [marks EXCEPT ![x] = @ \cup {j}] /\ UNCHANGED looking
       ELSE looking' = [looking EXCEPT ![x] = {j}] /\ UNCHANGED marks
    /\ UNCHANGED <<status, seen, extractions, stage, accepted, executions, kept,
                   rechecked, shared, unmarked>>

\* SETEX: the row is kept.
DedupAccept(x) ==
    /\ stage[x] = "dedup" /\ looking[x] # {}
    /\ seen' = seen \cup {TextOf[j] : j \in looking[x]}
    /\ accepted' = [accepted EXCEPT ![x] = @ \cup looking[x]]
    /\ looking' = [looking EXCEPT ![x] = {}]
    /\ kept' = kept \cup looking[x]
    /\ UNCHANGED <<status, extractions, stage, loaded, marks, executions,
                   rechecked, shared, unmarked>>

\* Without a Redis client the first pass keeps every row.
DedupWithoutRedis(x) ==
    /\ stage[x] = "dedup" /\ loaded[x] # {}
    /\ looking[x] = {} /\ marks[x] = {} /\ accepted[x] = {}
    /\ accepted' = [accepted EXCEPT ![x] = loaded[x]]
    /\ loaded' = [loaded EXCEPT ![x] = {}]
    /\ kept' = kept \cup loaded[x]
    /\ UNCHANGED <<status, seen, extractions, stage, marks, looking, executions,
                   rechecked, shared, unmarked>>

\* _simhash_fuzzy_dedup: a row that looks like one kept before it is a duplicate.
\* The sets of duplicates the orders of the rows lead to.
FuzzyDuplicates(rows) ==
    {dups \in SUBSET rows :
        /\ \A j, k \in rows \ dups : j # k => TextOf[k] \notin Alike[TextOf[j]]
        /\ \A j \in dups : \E k \in rows \ dups : TextOf[k] \in Alike[TextOf[j]]}

\* The second pass is skipped while the source has no history.
DedupFuzzy(x) ==
    /\ stage[x] = "dedup" /\ loaded[x] = {} /\ looking[x] = {}
    /\ stage' = [stage EXCEPT ![x] = "fuzzy"]
    /\ \E dups \in IF InStatus("cleaned") \cup InStatus("extracted") = {} THEN {{}}
                  ELSE FuzzyDuplicates(accepted[x]) :
        marks' = [marks EXCEPT ![x] = @ \cup dups]
    /\ UNCHANGED <<status, seen, extractions, loaded, accepted, looking,
                   executions, kept, rechecked, shared, unmarked>>

\* The duplicates are committed, whatever their status is by now.
DedupCommit(x) ==
    /\ stage[x] = "fuzzy"
    /\ status' = [j \in Jds |-> IF j \in marks[x] THEN "duplicate" ELSE status[j]]
    /\ Finish(x)
    /\ UNCHANGED <<seen, extractions, executions, kept, rechecked, shared, unmarked>>

\* A key lives for seven days.
SeenExpires(t) ==
    /\ t \in seen
    /\ seen' = seen \ {t}
    /\ UNCHANGED <<status, extractions, stage, loaded, marks, accepted, looking,
                   executions, kept, rechecked, shared, unmarked>>

-----------------------------------------------------------------------------
\* execute_clean takes every raw row, deduplicated or not.
ToClean == InStatus("raw")

CleanLoad(x) == Load(x, "clean", ToClean) /\ UNCHANGED rechecked

CleanCommit(x) ==
    /\ stage[x] = "clean"
    /\ status' = [j \in Jds |-> IF j \in loaded[x] THEN "cleaned" ELSE status[j]]
    /\ Finish(x)
    /\ UNCHANGED <<seen, extractions, executions, kept, rechecked, shared, unmarked>>

-----------------------------------------------------------------------------
\* execute_import: some cleaned rows, in no order.
ImportLoad(x) ==
    \E rows \in SUBSET InStatus("cleaned") :
        /\ Cardinality(rows) <= Batch
        /\ Load(x, "import", rows)
        /\ UNCHANGED rechecked

\* A content this execution has extracted already is not extracted again.
ImportReuse(x, j) ==
    /\ stage[x] = "import" /\ j \in loaded[x]
    /\ TextOf[j] \in accepted[x]
    /\ loaded' = [loaded EXCEPT ![x] = @ \ {j}]
    /\ marks' = [marks EXCEPT ![x] = @ \cup {j}]
    /\ UNCHANGED <<status, seen, extractions, stage, accepted, looking,
                   executions, kept, rechecked, shared, unmarked>>

\* Variant: an extracted row stays in the batch and is taken again.
ImportExtractAgain(x, j) ==
    /\ stage[x] = "import" /\ j \in loaded[x]
    /\ TextOf[j] \notin accepted[x]
    /\ extractions' = [extractions EXCEPT ![j] = @ + 1]
    /\ marks' = [marks EXCEPT ![x] = @ \cup {j}]
    /\ UNCHANGED <<status, seen, stage, loaded, accepted, looking, executions, kept,
                   rechecked, shared, unmarked>>

\* run_batch_extract_jd: the result is committed before the graph is written.
ImportExtract(x, j) ==
    /\ stage[x] = "import" /\ j \in loaded[x]
    /\ TextOf[j] \notin accepted[x]
    /\ loaded' = [loaded EXCEPT ![x] = @ \ {j}]
    /\ extractions' = [extractions EXCEPT ![j] = @ + 1]
    /\ accepted' = [accepted EXCEPT ![x] = @ \cup {TextOf[j]}]
    /\ marks' = [marks EXCEPT ![x] = @ \cup {j}]
    /\ UNCHANGED <<status, seen, stage, looking, executions, kept, rechecked,
                   shared, unmarked>>

\* The extraction fails, before its result is committed or after.
ImportFails(x, j) ==
    /\ stage[x] = "import" /\ j \in loaded[x]
    /\ TextOf[j] \notin accepted[x]
    /\ loaded' = [loaded EXCEPT ![x] = @ \ {j}]
    /\ \E persisted \in BOOLEAN :
        /\ extractions' = IF persisted THEN [extractions EXCEPT ![j] = @ + 1]
                          ELSE extractions
        /\ unmarked' = IF persisted THEN unmarked \cup {j} ELSE unmarked
    /\ UNCHANGED <<status, seen, stage, marks, accepted, looking, executions,
                   kept, rechecked, shared>>

\* Variant: the marks are never committed.
ImportMarkNone(x) ==
    /\ stage[x] = "import"
    /\ Finish(x)
    /\ UNCHANGED <<status, seen, extractions, executions, kept, rechecked, shared, unmarked>>

\* At the end of the batch, or of the time for it, the rows that succeeded are
\* marked; the others stay cleaned for the next run.
ImportMark(x) ==
    /\ stage[x] = "import"
    /\ status' = [j \in Jds |-> IF j \in marks[x] THEN "extracted" ELSE status[j]]
    /\ Finish(x)
    /\ UNCHANGED <<seen, extractions, executions, kept, rechecked, shared, unmarked>>

-----------------------------------------------------------------------------
\* An error or the end of the process: nothing is written, but the keys of dedup
\* and the extractions of import stay.
Lost(x) ==
    /\ stage[x] # "idle"
    /\ Finish(x)
    /\ unmarked' = IF stage[x] = "import" THEN unmarked \cup marks[x] ELSE unmarked
    /\ UNCHANGED <<status, seen, extractions, executions, kept, rechecked, shared>>

ExecutionStep(x) ==
    \/ DedupLoad(x) \/ DedupWithoutRedis(x) \/ DedupAccept(x)
    \/ DedupFuzzy(x) \/ DedupCommit(x)
    \/ CleanLoad(x) \/ CleanCommit(x)
    \/ ImportLoad(x) \/ ImportMark(x) \/ Lost(x)
    \/ \E j \in Jds :
        DedupLook(x, j) \/ ImportReuse(x, j) \/ ImportExtract(x, j) \/ ImportFails(x, j)

Next ==
    \/ \E j \in Jds : CrawlOne(j)
    \/ \E t \in Texts : SeenExpires(t)
    \/ \E x \in Executions : ExecutionStep(x)

Spec == Init /\ [][Next]_jdVars

-----------------------------------------------------------------------------
TypeOK ==
    /\ status \in [Jds -> {"absent", "raw", "duplicate", "cleaned", "extracted"}]
    /\ seen \subseteq Texts
    /\ extractions \in [Jds -> 0 .. MaxExecutions]
    /\ stage \in [Executions -> {"idle", "dedup", "fuzzy", "clean", "import"}]
    /\ loaded \in [Executions -> SUBSET Jds]
    /\ marks \in [Executions -> SUBSET Jds]
    /\ accepted \in [Executions -> SUBSET (Jds \cup Texts)]
    /\ looking \in [Executions -> SUBSET Jds]
    /\ executions \in 0 .. MaxExecutions
    /\ kept \subseteq Jds /\ rechecked \subseteq Jds /\ shared \subseteq Jds /\ unmarked \subseteq Jds

\* Contents that look like each other, directly or through others.
Likenesses == {likeness \in SUBSET Texts : \A t \in likeness : Alike[t] \subseteq likeness}

\* Dedup keeps a row of every likeness it removes rows of, over several
\* executions and expiring keys, unless it checks a row a second time: then the
\* key of the first time condemns the row (execute_dedup).  That the one it
\* keeps is alike the removed one itself is not promised: rows alike are
\* removed one for the other, and the last may look like the first no more.
NoneLost ==
    \A likeness \in Likenesses :
        LET rows == {j \in Jds : TextOf[j] \in likeness}
        IN  (\E j \in rows \ (rechecked \cup shared) : status[j] = "duplicate") =>
               \E k \in rows :
                  status[k] \in {"raw", "cleaned", "extracted"} \/ k \in rechecked \cup shared

\* No extraction is paid twice for a row unless an execution that had extracted
\* it ended before it marked it, or two executions had it.
ExtractedOnce ==
    \A j \in Jds : extractions[j] > 1 => j \in unmarked \cup shared

=============================================================================

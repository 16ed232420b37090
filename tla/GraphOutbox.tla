----------------------------- MODULE GraphOutbox -----------------------------
(***************************************************************************)
(* How the extraction records of one position get into the graph: the      *)
(* import and graph_sync stages of pipeline runs (tasks/stage3_services.py,*)
(* core/pipeline/stages/graph_sync.py), extractions outside of runs, the   *)
(* approval of the position (api/v1/admin.py), and the row of              *)
(* graph_write_outbox each graph_sync keeps.                               *)
(*                                                                         *)
(* A record is its number in order of creation.  An extraction never       *)
(* writes the graph itself: _position_is_approved compares a method with a *)
(* string and is always false.  The worker that should replay failed rows  *)
(* (tasks/outbox_retry.py) passes a function where asyncio.run wants a     *)
(* coroutine, raises before it reads a row and is no action here.          *)
(***************************************************************************)
EXTENDS Naturals, FiniteSets

CONSTANTS
    Runs,          \* pipeline runs
    MaxRecords,    \* bound on the extractions
    ApprovalLimit  \* records an approval writes at most

OutboxAssumption == MaxRecords \in Nat /\ ApprovalLimit \in Nat

VARIABLES
    approved,  \* review_status of the position
    records,   \* extraction records so far
    graph,     \* the records that were written to Neo4j
    stage,     \* the stage of each run
    since,     \* the records there were when the run started
    loaded,    \* what its graph_sync has read
    outbox,    \* the status of its row
    approval,  \* where the request that approves the position is
    writing,   \* what it has read
    lost       \* history: records nothing is going to write

vars == <<approved, records, graph, stage, since, loaded, outbox, approval, writing, lost>>
runVars == <<stage, since, loaded, outbox>>
approvalVars == <<approval, writing>>

Numbers == 1..MaxRecords

TypeOK ==
    /\ approved \in BOOLEAN
    /\ records \in 0..MaxRecords
    /\ graph \subseteq 1..records
    /\ stage \in [Runs -> {"new", "import", "graph_sync", "write", "ended"}]
    /\ since \in [Runs -> 0..MaxRecords]
    /\ loaded \in [Runs -> SUBSET Numbers]
    /\ outbox \in [Runs -> {"none", "pending", "completed", "failed"}]
    /\ approval \in {"idle", "committed", "write"}
    /\ writing \subseteq Numbers
    /\ lost \subseteq Numbers

Init ==
    /\ approved = FALSE /\ records = 0 /\ graph = {}
    /\ stage = [r \in Runs |-> "new"]
    /\ since = [r \in Runs |-> 0]
    /\ loaded = [r \in Runs |-> {}]
    /\ outbox = [r \in Runs |-> "none"]
    /\ approval = "idle" /\ writing = {} /\ lost = {}

\* Writing the records in set reaches those in ok; the others are given up.
Write(set, ok) ==
    /\ graph' = graph \cup ok
    /\ lost' = (lost \cup (set \ ok)) \ graph'

GiveUp(set) ==
    /\ lost' = (lost \cup set) \ graph
    /\ UNCHANGED graph

-----------------------------------------------------------------------------
(* Extractions and the stages of a run.                                    *)

StartRun(r) ==
    /\ stage[r] = "new"
    /\ stage' = [stage EXCEPT ![r] = "import"]
    /\ since' = [since EXCEPT ![r] = records]
    /\ UNCHANGED <<approved, records, graph, loaded, outbox, approvalVars, lost>>

\* run_batch_extract_jd in the import stage of a run.
Extract(r) ==
    /\ stage[r] = "import" /\ records < MaxRecords
    /\ records' = records + 1
    /\ UNCHANGED <<approved, graph, runVars, approvalVars, lost>>

\* The same outside of runs: no graph_sync looks for it but one that is late.
ExtractAlone ==
    /\ records < MaxRecords
    /\ records' = records + 1
    /\ lost' = IF approved THEN lost \cup {records + 1} ELSE lost
    /\ UNCHANGED <<approved, graph, runVars, approvalVars>>

\* The row is made first; the stage goes on without it if that fails.
BeginSync(r) ==
    /\ stage[r] = "import"
    /\ stage' = [stage EXCEPT ![r] = "graph_sync"]
    /\ \E status \in {"none", "pending"} : outbox' = [outbox EXCEPT ![r] = status]
    /\ UNCHANGED <<approved, records, graph, since, loaded, approvalVars, lost>>

\* Variant: the first record after the start is taken for an older one.
RecentLater(r) == (since[r] + 2)..records

\* The records created since the run started, if the position is approved.
Recent(r) == (since[r] + 1)..records

\* If the start of the run cannot be looked up, all records are taken.
LoadRecords(r) ==
    /\ stage[r] = "graph_sync"
    /\ stage' = [stage EXCEPT ![r] = "write"]
    /\ \E set \in {Recent(r), 1..records} :
           loaded' = [loaded EXCEPT ![r] = IF approved THEN set ELSE {}]
    /\ UNCHANGED <<approved, records, graph, since, outbox, approvalVars, lost>>

EndSync(r, status) ==
    /\ stage' = [stage EXCEPT ![r] = "ended"]
    /\ loaded' = [loaded EXCEPT ![r] = {}]
    /\ outbox' = [outbox EXCEPT ![r] = IF @ = "none" THEN "none" ELSE status]
    /\ UNCHANGED <<approved, records, since, approvalVars>>

\* batch_write_extractions goes on after the failure of a record, and the
\* row is completed whatever failed.
WriteRecords(r) ==
    /\ stage[r] = "write"
    /\ \E ok \in SUBSET loaded[r] : Write(loaded[r], ok)
    /\ EndSync(r, "completed")

\* Something beyond the single records fails: Neo4j cannot be reached, or the
\* row cannot be completed; marking it failed may fail as well.
SyncFails(r) ==
    /\ stage[r] = "write"
    /\ \E ok \in SUBSET loaded[r] : Write(loaded[r], ok)
    /\ \E status \in {"failed", "pending"} : EndSync(r, status)

\* The run is cancelled, or its worker dies, before graph_sync has ended.
RunDies(r) ==
    /\ stage[r] \in {"import", "graph_sync", "write"}
    /\ GiveUp(IF approved THEN Recent(r) ELSE loaded[r])
    /\ EndSync(r, outbox[r])

-----------------------------------------------------------------------------
(* The position.                                                           *)

Approve ==
    /\ ~approved /\ approval = "idle"
    /\ approved' = TRUE
    /\ approval' = "committed"
    /\ UNCHANGED <<records, graph, runVars, writing, lost>>

\* sync_approved_position_to_graph reads the latest records of the position.
Newest == {n \in 1..records : n + ApprovalLimit > records}

LoadForApproval ==
    /\ approval = "committed"
    /\ approval' = "write"
    /\ writing' = Newest
    /\ lost' = (lost \cup ((1..records) \ Newest)) \ graph
    /\ UNCHANGED <<approved, records, graph, runVars>>

\* A failure is logged and the request answered.
WriteForApproval ==
    /\ approval = "write"
    /\ \E ok \in SUBSET writing : Write(writing, ok)
    /\ approval' = "idle" /\ writing' = {}
    /\ UNCHANGED <<approved, records, runVars>>

ApprovalDies ==
    /\ approval # "idle"
    /\ GiveUp(1..records)
    /\ approval' = "idle" /\ writing' = {}
    /\ UNCHANGED <<approved, records, runVars>>

\* The position is sent back to draft; the graph keeps what it has.
Unpublish ==
    /\ approved
    /\ approved' = FALSE
    /\ UNCHANGED <<records, graph, runVars, approvalVars, lost>>

RunStep(r) ==
    \/ StartRun(r) \/ Extract(r) \/ BeginSync(r) \/ LoadRecords(r)
    \/ WriteRecords(r) \/ SyncFails(r) \/ RunDies(r)

Next ==
    \/ \E r \in Runs : RunStep(r)
    \/ ExtractAlone
    \/ Approve \/ LoadForApproval \/ WriteForApproval \/ ApprovalDies \/ Unpublish

\* A run goes on until it has ended, a pipeline is started after another.
Spec == Init /\ [][Next]_vars /\ \A r \in Runs : WF_vars(RunStep(r))

-----------------------------------------------------------------------------
\* When no run and no approval is under way, every record of an approved
\* position is in the graph, except those whose write failed or never began
\* and those beyond the limit of the approval.
RecordsInGraph ==
    approved /\ approval = "idle" /\ (\A r \in Runs : stage[r] \in {"new", "ended"}) =>
        1..records \subseteq graph \cup lost

\* "Mark outbox record as failed (will be retried on next pipeline run)"
\* (graph_sync.py:75): a failed row becomes completed.
FailedIsRetried ==
    \A r \in Runs : outbox[r] = "failed" ~> outbox[r] = "completed"
=============================================================================

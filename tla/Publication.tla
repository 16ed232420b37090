---------------------------- MODULE Publication ----------------------------
(***************************************************************************)
(* One position or skill between PostgreSQL, which says whether it is      *)
(* approved, and the Neo4j graph that publishes it: the review requests    *)
(* and their graph writes, the graph_sync stage and its healing of nodes   *)
(* without a record, the reconciliation, and the queue of orphan nodes.    *)
(* Nothing locks the record and no transaction spans the two databases.    *)
(***************************************************************************)
EXTENDS Integers, FiniteSets

CONSTANTS
    Reviewers,  \* review requests that may run at the same time
    MaxOps      \* bound: operations and failures in all

PublicationAssumption == MaxOps \in Nat

VARIABLES
    kind,      \* "position" or "skill"
    record,    \* review_status of the row, or "absent"
    node,      \* review_status of the node with the row's id, "none" without a node
    bare,      \* whether there is a node of its name without canonical_id
    dead,      \* whether there is a node of its name with the id of no row
    phase,     \* where each review request is
    does,      \* what it does
    read,      \* the status it has read
    sync,      \* where the graph_sync stage is
    repair,    \* where the reconciliation is
    snap,      \* what the reconciliation has read
    queue,     \* status of the entity's entry in the orphan queue
    entry,     \* what the entry names: the node, the dead id or the bare name
    touched,   \* history: something has changed since a reconciliation began
    causes,    \* history: why the graph may differ from the records
    ops        \* history: operations and failures so far

pubVars == <<kind, record, node, bare, dead, phase, does, read, sync, repair, snap,
            queue, entry, touched, causes, ops>>

reviewVars == <<phase, does, read>>
graphVars == <<node, bare, dead>>
queueVars == <<queue, entry>>
repairVars == <<repair, snap>>

Statuses == {"draft", "pending_review", "approved", "rejected"}
Actions == {"submit", "approve", "reject", "unpublish", "rename"}
Requested == Actions \cup {"sync_all"}

Nothing == [node |-> FALSE, dead |-> FALSE, approved |-> FALSE]

Init ==
    /\ kind \in {"position", "skill"}
    /\ record = "absent" /\ node = "none" /\ bare = FALSE /\ dead = FALSE
    /\ phase = [r \in Reviewers |-> "idle"]
    /\ does = [r \in Reviewers |-> "submit"]
    /\ read = [r \in Reviewers |-> "absent"]
    /\ sync = "idle" /\ repair = "idle"
    /\ snap = Nothing
    /\ queue = "none" /\ entry = "bare" /\ touched = FALSE /\ causes = {} /\ ops = 0

\* One more operation, or failure, of the bounded number.
Counted == ops < MaxOps /\ ops' = ops + 1
Uncounted == UNCHANGED ops
Touch == touched' = (repair # "idle")

\* MERGE by canonical_id: a node that is created has no review_status.
Merged == IF node = "none" THEN "unset" ELSE node

-----------------------------------------------------------------------------
(* Review requests: review_service and the routes of api/v1/admin.         *)

\* The statuses an action is accepted in, and the one it leads to.
From(a) == CASE a = "submit" -> {"draft", "rejected"}
             [] a = "approve" -> {"pending_review"}
             [] a = "reject" -> {"pending_review"}
             [] a = "unpublish" -> {"approved"}
             [] a = "rename" -> Statuses
To(a) == CASE a = "submit" -> "pending_review"
           [] a = "approve" -> "approved"
           [] a = "reject" -> "rejected"
           [] a = "unpublish" -> "draft"

\* The row is read and the transition checked.  Approving or rejecting what is
\* approved or rejected already changes nothing and goes on to the graph write.
ReviewLoad(r, a) ==
    /\ phase[r] = "idle" /\ Counted
    /\ \/ record \in From(a)
          /\ phase' = [phase EXCEPT ![r] = IF a = "rename" THEN "write" ELSE "checked"]
       \/ /\ a \in {"approve", "reject"} /\ record = To(a)
          /\ phase' = [phase EXCEPT ![r] = "committed"]
    /\ does' = [does EXCEPT ![r] = a]
    /\ read' = [read EXCEPT ![r] = record]
    /\ UNCHANGED <<kind, record, graphVars, sync, repairVars, queueVars, touched, causes>>

\* A request is over.
Done(r) ==
    /\ phase' = [phase EXCEPT ![r] = "idle"]
    /\ does' = [does EXCEPT ![r] = "submit"]
    /\ read' = [read EXCEPT ![r] = "absent"]

ReviewCommit(r) ==
    /\ phase[r] = "checked" /\ Uncounted
    /\ record' = To(does[r])
    /\ phase' = [phase EXCEPT ![r] = "committed"]
    /\ Touch
    /\ UNCHANGED <<kind, graphVars, does, read, sync, repairVars, queueVars, causes>>

\* Variant: a rejection leaves the graph alone.
WritesGraphApprove(r) == does[r] = "approve" /\ "approved" \in {record, read[r]}

\* Which requests write the graph: every rejection, and an approval whose row is
\* approved when it is refreshed, or was when it was read.
WritesGraph(r) ==
    does[r] = "reject" \/ (does[r] = "approve" /\ "approved" \in {record, read[r]})

\* A skill's write reads the row again, and so does the write of a rejection.
ReviewRefresh(r) ==
    /\ phase[r] = "committed" /\ Uncounted
    /\ IF WritesGraph(r)
       THEN /\ phase' = [phase EXCEPT ![r] = "write"]
            /\ read' = [read EXCEPT ![r] = record]
            /\ UNCHANGED does
       ELSE Done(r)
    /\ UNCHANGED <<kind, record, graphVars, sync, repairVars, queueVars, touched, causes>>

\* sync_approved_position_to_graph and apply_change leave review_status alone;
\* _sync_neo4j_on_audit sets it to what it has read.
ReviewWrite(r) ==
    /\ phase[r] = "write" /\ does[r] # "sync_all" /\ Uncounted
    /\ IF does[r] = "reject" \/ (does[r] = "approve" /\ kind = "skill")
       THEN /\ node' = read[r]
            /\ causes' = IF read[r] = record THEN causes ELSE causes \cup {"stale"}
       ELSE /\ node' = Merged
            /\ causes' = IF record = "approved" THEN causes
                         ELSE causes \cup {IF does[r] = "rename" THEN "unchecked" ELSE "stale"}
    /\ Done(r)
    /\ Touch
    /\ UNCHANGED <<kind, record, bare, dead, sync, repairVars, queueVars>>

\* sync_all_positions_to_neo4j: the approved positions are read, each is merged
\* with its status, and nodes without id are deleted if the request asks for it.
SyncAllLoad(r) ==
    /\ phase[r] = "idle" /\ kind = "position" /\ Counted
    /\ does' = [does EXCEPT ![r] = "sync_all"]
    /\ read' = [read EXCEPT ![r] = record]
    /\ phase' = [phase EXCEPT ![r] = IF record = "approved" THEN "write" ELSE "prune"]
    /\ UNCHANGED <<kind, record, graphVars, sync, repairVars, queueVars, touched, causes>>

SyncAllWrite(r) ==
    /\ phase[r] = "write" /\ does[r] = "sync_all"
    /\ phase' = [phase EXCEPT ![r] = "prune"]
    /\ \/ /\ node' = read[r] /\ Touch /\ Uncounted
          /\ causes' = IF read[r] = record THEN causes ELSE causes \cup {"stale"}
       \/ /\ causes' = causes \cup {"failed"} /\ Counted
          /\ UNCHANGED <<node, touched>>
    /\ UNCHANGED <<kind, record, bare, dead, does, read, sync, repairVars, queueVars>>

SyncAllPrune(r) ==
    /\ phase[r] = "prune" /\ Uncounted
    /\ bare' \in {bare, FALSE}
    /\ Done(r)
    /\ Touch
    /\ UNCHANGED <<kind, record, node, dead, sync, repairVars, queueVars, causes>>

\* The request ends early: before its commit, or between the commit and the
\* graph, whose failures do not fail the request.
ReviewFails(r) ==
    /\ phase[r] # "idle" /\ Counted
    /\ Done(r)
    /\ causes' = IF phase[r] = "checked" \/ does[r] \in {"submit", "unpublish"} THEN causes
               ELSE causes \cup {"failed"}
    /\ UNCHANGED <<kind, record, graphVars, sync, repairVars, queueVars, touched>>

-----------------------------------------------------------------------------
(* Extraction, the graph_sync stage and its healing.                       *)

\* persist_extraction_result: a new row waits for review.  While a heal has an
\* uncommitted row of the name, the insert fails or waits.
Extracted ==
    /\ record = "absent" /\ sync # "linked" /\ Counted
    /\ record' = "pending_review"
    /\ Touch
    /\ UNCHANGED <<kind, graphVars, reviewVars, sync, repairVars, queueVars, causes>>

\* merge_triple: a posting that mentions the name creates a node without id
\* unless a node has the name.
Mentioned ==
    /\ ~bare /\ ~dead /\ node = "none" /\ Counted
    /\ bare' = TRUE
    /\ Touch
    /\ UNCHANGED <<kind, record, node, dead, reviewVars, sync, repairVars, queueVars, causes>>

\* run_build_graph_from_extractions: positions that are approved, and the skills
\* their postings ask for, which are inserted as approved if they are new.
SyncLoad ==
    /\ sync = "idle" /\ Counted
    /\ sync' = "write"
    /\ IF kind = "position"
       THEN record = "approved" /\ UNCHANGED <<record, touched>>
       ELSE record' = (IF record = "absent" THEN "approved" ELSE record) /\ Touch
    /\ UNCHANGED <<kind, graphVars, reviewVars, repairVars, queueVars, causes>>

\* The node is merged by the id of the row, whatever its status is.
SyncWrite ==
    /\ sync = "write" /\ Uncounted
    /\ sync' = "heal"
    /\ node' = Merged
    /\ causes' = IF record = "approved" THEN causes ELSE causes \cup {"unchecked"}
    /\ Touch
    /\ UNCHANGED <<kind, record, bare, dead, reviewVars, repairVars, queueVars>>

\* A run without postings of this entity heals as well.
HealBegin ==
    /\ sync = "idle" /\ Counted
    /\ sync' = "heal"
    /\ UNCHANGED <<kind, record, graphVars, reviewVars, repairVars, queueVars, touched, causes>>

\* backfill_*_records: a node without id and without row gets a row, not yet
\* committed, and its id; the link may fail.
HealLink ==
    /\ sync = "heal" /\ Uncounted
    /\ IF bare /\ record = "absent"
       THEN /\ sync' = "linked"
            /\ \/ bare' = FALSE /\ node' = Merged /\ UNCHANGED causes
               \/ causes' = causes \cup {"failed"} /\ UNCHANGED <<bare, node>>
            /\ Touch
       ELSE sync' = "idle" /\ UNCHANGED <<bare, node, causes, touched>>
    /\ UNCHANGED <<kind, record, dead, reviewVars, repairVars, queueVars>>

HealCommit ==
    /\ sync = "linked" /\ Uncounted
    /\ sync' = "idle"
    /\ record' = IF kind = "skill" THEN "approved" ELSE "pending_review"
    /\ Touch
    /\ UNCHANGED <<kind, graphVars, reviewVars, repairVars, queueVars, causes>>

\* The stage ends early.  The rows of a heal are rolled back, its links are not.
SyncFails ==
    /\ sync # "idle" /\ Counted
    /\ sync' = "idle"
    /\ causes' = causes \cup {"failed"}
    /\ IF sync = "linked" /\ node # "none"
       THEN /\ node' = "none" /\ dead' = TRUE /\ Touch
            /\ entry' = IF entry = "node" THEN "dead" ELSE entry
       ELSE UNCHANGED <<node, dead, entry, touched>>
    /\ UNCHANGED <<kind, record, bare, reviewVars, repairVars, queue>>

-----------------------------------------------------------------------------
(* GraphProjector.reconcile_all, daily or by hand.                         *)

\* The ids of the graph.
RepairGraph ==
    /\ repair = "idle"
    /\ repair' = "graph"
    /\ snap' = [node |-> node # "none", dead |-> dead, approved |-> FALSE]
    /\ touched' = (sync = "linked")  \* a row that is not committed changes
    /\ UNCHANGED <<kind, record, graphVars, reviewVars, sync, queueVars, causes, ops>>

\* Variant: every row counts, approved or not.
PublishedAny == record # "absent"

\* The ids PostgreSQL publishes.
Published == record = "approved"

RepairRecords ==
    /\ repair = "graph"
    /\ repair' = "records"
    /\ snap' = [snap EXCEPT !.approved = Published]
    /\ UNCHANGED <<kind, record, graphVars, reviewVars, sync, queueVars, touched, causes, ops>>

\* Nodes whose id was not published are deleted, one whose row is published by
\* now, or that a heal has just linked, included.
RepairPrune ==
    /\ repair = "records"
    /\ repair' = "pruned"
    /\ node' = IF snap.node /\ ~snap.approved THEN "none" ELSE node
    /\ dead' = (dead /\ ~snap.dead)
    /\ causes' = IF node' # node /\ (record = "approved" \/ sync = "linked")
                 THEN causes \cup {"stale"} ELSE causes
    /\ UNCHANGED <<kind, record, bare, reviewVars, sync, snap, queueVars, touched, ops>>

\* A published row without a node gets one: the node of its name without id if
\* there is one, else a new one.
RepairBackfill ==
    /\ repair = "pruned"
    /\ repair' = "filled"
    /\ IF snap.approved /\ ~snap.node
       THEN /\ node' = Merged /\ bare' = FALSE
            /\ causes' = IF record = "approved" THEN causes ELSE causes \cup {"stale"}
       ELSE UNCHANGED <<node, bare, causes>>
    /\ UNCHANGED <<kind, record, dead, reviewVars, sync, snap, queueVars, touched, ops>>


\* Variant: nodes without id are linked but never deleted.
RepairBareLinks ==
    /\ repair = "filled"
    /\ repair' = "idle" /\ snap' = Nothing /\ touched' = FALSE
    /\ node' = IF bare /\ snap.approved THEN Merged ELSE node
    /\ bare' = (bare /\ ~snap.approved)
    /\ causes' = IF ~touched THEN {}
                 ELSE IF node' # node /\ record # "approved" THEN causes \cup {"stale"}
                 ELSE causes
    /\ UNCHANGED <<kind, record, dead, reviewVars, sync, queueVars, ops>>

\* A node of the name without id is linked if the row was published, and deleted
\* if the row is not published now.
RepairBare ==
    /\ repair = "filled"
    /\ repair' = "idle" /\ snap' = Nothing /\ touched' = FALSE
    /\ node' = IF bare /\ snap.approved THEN Merged ELSE node
    /\ bare' = (bare /\ ~snap.approved /\ record \in {"absent", "approved"})
    /\ causes' = IF ~touched THEN {}
                 ELSE IF node' # node /\ record # "approved" THEN causes \cup {"stale"}
                 ELSE causes
    /\ UNCHANGED <<kind, record, dead, reviewVars, sync, queueVars, ops>>

\* An error ends it; an error in the last part is swallowed.
RepairFails ==
    /\ repair # "idle" /\ Counted
    /\ repair' = "idle" /\ snap' = Nothing /\ touched' = FALSE
    /\ UNCHANGED <<kind, record, graphVars, reviewVars, sync, queueVars, causes>>

-----------------------------------------------------------------------------
(* The queue of orphans: RepairEngine.sync_orphan_queue and its clean-up.  *)

\* detect_orphans: an id of no committed row, or no id and no row of the name.
Orphans == {o \in {"node", "dead", "bare"} :
              CASE o = "node" -> node # "none" /\ record = "absent"
                [] o = "dead" -> dead
                [] o = "bare" -> bare /\ record = "absent"}

\* A new orphan is queued and a pending entry looked up again in the graph, by
\* its label in lower case, which no node has: the entry is closed as cleaned.
\* If the look-up fails the entry stays pending.
QueueSync ==
    /\ Counted
    /\ IF queue = "pending" THEN UNCHANGED entry ELSE entry' \in Orphans
    /\ queue' \in {"cleaned", "pending"}
    /\ UNCHANGED <<kind, record, graphVars, reviewVars, sync, repairVars, touched, causes>>

\* execute_cleanup, approved: what the entry names is deleted, without looking
\* again for a row.
QueueDelete ==
    /\ queue = "pending" /\ Counted
    /\ queue' = "cleaned"
    /\ node' = IF entry = "node" THEN "none" ELSE node
    /\ dead' = (dead /\ entry # "dead")
    /\ bare' = (bare /\ entry # "bare")
    /\ causes' = IF node' # node THEN causes \cup {"stale"} ELSE causes
    /\ Touch
    /\ UNCHANGED <<kind, record, reviewVars, sync, repairVars, entry>>

\* A rejection does not ask whether the entry is pending.
QueueReject ==
    /\ queue # "none" /\ Counted
    /\ queue' = "rejected"
    /\ UNCHANGED <<kind, record, graphVars, reviewVars, sync, repairVars, entry, touched, causes>>

-----------------------------------------------------------------------------
ReviewStep(r) ==
    \/ ReviewCommit(r) \/ ReviewRefresh(r) \/ ReviewWrite(r)
    \/ SyncAllWrite(r) \/ SyncAllPrune(r)
SyncStep == SyncWrite \/ HealLink \/ HealCommit
RepairStep ==
    RepairGraph \/ RepairRecords \/ RepairPrune \/ RepairBackfill \/ RepairBare

Next ==
    \/ \E r \in Reviewers :
        \/ ReviewStep(r) \/ ReviewFails(r) \/ SyncAllLoad(r)
        \/ \E a \in Actions : ReviewLoad(r, a)
    \/ Extracted \/ Mentioned
    \/ SyncLoad \/ HealBegin \/ SyncStep \/ SyncFails
    \/ RepairStep \/ RepairFails
    \/ QueueSync \/ QueueDelete \/ QueueReject

\* Requests and stages go on unless they fail, and the reconciliation runs daily.
Fairness ==
    /\ \A r \in Reviewers : WF_pubVars(ReviewStep(r))
    /\ WF_pubVars(SyncStep)
    /\ WF_pubVars(RepairStep)

Spec == Init /\ [][Next]_pubVars /\ Fairness

-----------------------------------------------------------------------------
TypeOK ==
    /\ kind \in {"position", "skill"}
    /\ record \in Statuses \cup {"absent"}
    /\ node \in Statuses \cup {"none", "unset"}
    /\ bare \in BOOLEAN /\ dead \in BOOLEAN /\ touched \in BOOLEAN
    /\ phase \in [Reviewers -> {"idle", "checked", "committed", "write", "prune"}]
    /\ does \in [Reviewers -> Requested]
    /\ read \in [Reviewers -> Statuses \cup {"absent"}]
    /\ sync \in {"idle", "write", "heal", "linked"}
    /\ repair \in {"idle", "graph", "records", "pruned", "filled"}
    /\ snap \in [node : BOOLEAN, dead : BOOLEAN, approved : BOOLEAN]
    /\ queue \in {"none", "pending", "cleaned", "rejected"}
    /\ entry \in {"node", "dead", "bare"}
    /\ causes \subseteq {"failed", "stale", "unchecked"}
    /\ ops \in 0 .. MaxOps

Quiet == sync = "idle" /\ repair = "idle" /\ \A r \in Reviewers : phase[r] = "idle"

\* When nothing is under way, an approved entity is in the graph, unless a graph
\* write failed or acted on a status that had changed, and a rejected one has a
\* node that says so, or none, unless a write did not look at the status either
\* (the review routes, graph_sync, reconcile_all; the public queries ask the node
\* for its status).
GraphShowsReview ==
    Quiet =>
        /\ record = "approved" /\ causes \cap {"failed", "stale"} = {} => node # "none"
        /\ record = "rejected" /\ causes = {} => node \in {"none", "rejected"}

Aligned ==
    /\ record = "approved" => node # "none" /\ ~bare
    /\ record \in Statuses \ {"approved"} => node = "none" /\ ~bare
    /\ ~dead

\* A reconciliation during which nothing else changed leaves exactly the approved
\* entity in the graph, whatever failed before it (reconcile_all).
ReconcileAligns ==
    [][RepairBare /\ ~touched => Aligned']_pubVars

\* When operations stop, the daily reconciliation brings the graph to the state
\* of the records and keeps it there.
GraphConverges == <>[]Aligned

=============================================================================

----------------------------- MODULE StageGraph -----------------------------
(***************************************************************************)
(* The stage graph of the ETL pipeline (orchestrator.py): the six stages   *)
(* in the order of the `stages' JSON array, their direct dependencies, and *)
(* the pure functions the engine computes on one copy of that array.  A    *)
(* copy is a function from stages to stage statuses; timings, counters and *)
(* activity texts of a stage entry are left out.                           *)
(***************************************************************************)
EXTENDS Naturals

\* StageName, in the order of the array and of the serial chain.
Stages == {"crawl", "dedup", "clean", "import", "graph_sync", "timeseries"}

Position ==
    [crawl |-> 1, dedup |-> 2, clean |-> 3, import |-> 4,
     graph_sync |-> 5, timeseries |-> 6]

\* STAGE_DEPS.
Deps ==
    [crawl |-> {}, dedup |-> {"crawl"}, clean |-> {"dedup"},
     import |-> {"clean"}, graph_sync |-> {"import"},
     timeseries |-> {"graph_sync"}]

\* OPTIONAL_STAGES.
Optional == {"graph_sync", "timeseries"}

\* StageStatus, and the literal "cancelled" that the code also stores.
StageStatus ==
    {"pending", "running", "completed", "failed", "skipped", "cancelled"}

\* RunStatus of pipeline_runs.status; "absent" before the row exists.
RunStatus == {"absent", "running", "completed", "failed", "cancelled"}

TerminalRun == {"completed", "failed", "cancelled"}

Snapshots == [Stages -> StageStatus]

\* create_run: an unselected stage starts out skipped; no selection means all.
InitialStages(selected) ==
    [s \in Stages |->
        IF selected = {} \/ s \in selected THEN "pending" ELSE "skipped"]

\* Variant: a dependency only has to be free of failure.
ReadyUnlessFailed(c) ==
    {s \in Stages : c[s] = "pending" /\ \A d \in Deps[s] : c[d] # "failed"}

\* get_ready_stages: pending, and every direct dependency is completed or
\* skipped.
Ready(c) ==
    {s \in Stages : /\ c[s] = "pending"
                    /\ \A d \in Deps[s] : c[d] \in {"completed", "skipped"}}

\* Variants: nothing is running; "cancelled" counts; "skipped" does not.
AllDoneIdle(c) == \A s \in Stages : c[s] # "running"

AllDoneCancelled(c) ==
    \A s \in Stages : c[s] \in {"completed", "failed", "skipped", "cancelled"}

AllDoneNoSkips(c) == \A s \in Stages : c[s] \in {"completed", "failed"}

\* all_stages_done: "cancelled" does not count as done.
AllDone(c) == \A s \in Stages : c[s] \in {"completed", "failed", "skipped"}

\* get_failed_stages.
Failed(c) == {s \in Stages : c[s] = "failed"}

\* _has_recoverable_stage: import failed and no stage before it did.
Recoverable(c) ==
    /\ "import" \in Failed(c)
    /\ Failed(c) \cap {"crawl", "dedup", "clean"} = {}

(***************************************************************************)
(* The cascade of advance_pipeline.  The code makes one pass over the      *)
(* array; a pending stage with a failed direct dependency becomes skipped  *)
(* if it is optional and failed otherwise, and later stages see the new    *)
(* status.  In the serial chain that pass reaches a stage s exactly when   *)
(* some stage before s is failed and everything in between is pending and  *)
(* required, since an optional stage turns skipped and stops the cascade.  *)
(* Module CascadePass runs the loop itself and compares the two.           *)
(***************************************************************************)
Reached(c, s) ==
    \E a \in Stages :
        /\ Position[a] < Position[s]
        /\ c[a] = "failed"
        /\ \A b \in Stages :
            Position[a] < Position[b] /\ Position[b] < Position[s]
                => c[b] = "pending" /\ b \notin Optional

Cascade(c) ==
    [s \in Stages |->
        IF c[s] = "pending" /\ Reached(c, s)
        THEN IF s \in Optional THEN "skipped" ELSE "failed"
        ELSE c[s]]

\* Variant: a status that is not a StageStatus.
MarkQueued(c, s) == [c EXCEPT ![s] = "queued"]

\* update_stage_status, when an advance marks a stage it dispatches.
MarkRunning(c, s) == [c EXCEPT ![s] = "running"]

\* cancel_run: what is running becomes cancelled, the rest stays.
CancelRunning(c) ==
    [s \in Stages |-> IF c[s] = "running" THEN "cancelled" ELSE c[s]]

\* force_reset_pipeline: running and pending become cancelled.
CancelUnfinished(c) ==
    [s \in Stages |->
        IF c[s] \in {"running", "pending"} THEN "cancelled" ELSE c[s]]

\* force_advance_pipeline: what is neither finished nor running is stuck.
Stuck(c) == {s \in Stages : c[s] \in {"pending", "cancelled"}}

\* Variant: stuck stages are skipped instead of failed.
SkipStuck(c) == [s \in Stages |-> IF s \in Stuck(c) THEN "skipped" ELSE c[s]]

FailStuck(c) == [s \in Stages |-> IF s \in Stuck(c) THEN "failed" ELSE c[s]]

\* resume_run: failed stages go back to pending, and so does a completed
\* import whose activity text carries the leftover marker.
Resumable(c, leftover) ==
    {s \in Stages : \/ c[s] = "failed"
                    \/ s = "import" /\ c[s] = "completed" /\ leftover}

ResetStages(c, leftover) ==
    [s \in Stages |-> IF s \in Resumable(c, leftover) THEN "pending" ELSE c[s]]

=============================================================================

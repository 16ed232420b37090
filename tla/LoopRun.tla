------------------------------ MODULE LoopRun ------------------------------
(***************************************************************************)
(* One closed-loop run (POST /loop/run): five steps that fail by degrees,  *)
(* each recorded in the loop_results row, and a status that readers take   *)
(* from the row first and from the memory of the process otherwise.  A     *)
(* database error leaves the session of the request unusable, so nothing   *)
(* more of the run reaches the row.                                        *)
(***************************************************************************)
EXTENDS Integers, Sequences, FiniteSets

VARIABLES
    todo,       \* what run_loop does next
    target,     \* whether the caller named a target position
    steps,      \* the results of the steps so far
    found,      \* what the extraction found: skills, a position name
    session,    \* whether the database session of the request still works
    row,        \* the loop_results row: status and steps_json
    memory,     \* the entry of _LOOP_RESULTS
    end,        \* how the request ended
    restarted   \* history: the process restarted after the run

vars == <<todo, target, steps, found, session, row, memory, end, restarted>>

Absent == [status |-> "absent", steps |-> <<>>]

Init ==
    /\ todo = "insert"
    /\ target \in BOOLEAN
    /\ steps = <<>>
    /\ found = {}
    /\ session = "ok"
    /\ row = Absent
    /\ memory = Absent
    /\ end = "none"
    /\ restarted = FALSE

\* The numbers of the failed steps.
Failed == {i \in DOMAIN steps : steps[i] = "failed"}

-----------------------------------------------------------------------------
\* The overall status: an invalid input fails the run at once; otherwise losing
\* the match and the path is tolerated, and so are two failures of any steps.
Outcome ==
    IF 1 \in Failed THEN "failed"
    ELSE IF Failed \subseteq {4, 5} THEN "completed"
    ELSE IF Cardinality(Failed) >= 3 THEN "failed" ELSE "completed"

\* _insert_loop_run: without a row the run lives in memory only.
Insert ==
    /\ todo = "insert"
    /\ todo' = "step"
    /\ \/ row' = [status |-> "running", steps |-> <<>>] /\ UNCHANGED session
       \/ session' = "broken" /\ UNCHANGED row
    /\ UNCHANGED <<target, steps, found, memory, end, restarted>>

\* Step n of the run has result r.
StepResult(n, r) ==
    /\ todo = "step"
    /\ Len(steps) = n - 1
    /\ steps' = Append(steps, r)
    /\ UNCHANGED <<target, row, memory, end, restarted>>

Validate ==
    /\ \/ StepResult(1, "success")
       \/ StepResult(1, "failed")
    /\ todo' = "save"
    /\ UNCHANGED <<found, session>>

\* A successful extraction may have found no skill and no position name.
Extract ==
    /\ \/ StepResult(2, "success") /\ found' \in SUBSET {"skills", "name"}
       \/ StepResult(2, "failed") /\ UNCHANGED found
    /\ todo' = "save"
    /\ UNCHANGED session

UpdateGraph ==
    /\ \/ StepResult(3, "success")
       \/ StepResult(3, "failed")
    /\ todo' = "save"
    /\ UNCHANGED <<found, session>>

\* resolve_target_position: the caller's target or the extracted name.
HasTarget == target \/ "name" \in found

\* Matching needs a target and skills.
Match ==
    /\ \/ ~HasTarget /\ StepResult(4, "skipped") /\ UNCHANGED session
       \/ HasTarget /\ "skills" \notin found
          /\ StepResult(4, "failed") /\ UNCHANGED session
       \/ HasTarget /\ "skills" \in found
          /\ \E r \in {"success", "failed"} : StepResult(4, r)
          /\ session' \in {session, "broken"}
    /\ todo' = "save"
    /\ UNCHANGED found

\* The path follows from a successful match, also when storing the plan fails;
\* without one it is the generic path of a failed step.
LearningPath ==
    /\ \/ ~HasTarget /\ StepResult(5, "skipped") /\ UNCHANGED session
       \/ HasTarget /\ StepResult(5, "success")
          /\ steps[4] = "success"
          /\ session' \in {session, "broken"}
       \/ HasTarget /\ StepResult(5, "failed") /\ UNCHANGED session
    /\ todo' = "complete"
    /\ UNCHANGED found

\* _update_steps_json swallows database errors.
Save ==
    /\ todo = "save"
    /\ todo' = IF steps[1] = "failed" THEN "complete" ELSE "step"
    /\ \/ session = "ok" /\ row.status # "absent"
          /\ row' = [row EXCEPT !.steps = steps] /\ UNCHANGED session
       \/ row.status # "absent" /\ session' = "broken" /\ UNCHANGED row
       \/ row.status = "absent" /\ UNCHANGED <<row, session>>
    /\ UNCHANGED <<target, steps, found, memory, end, restarted>>

Result == [status |-> Outcome, steps |-> steps]

\* Variant: a failing result is only logged.
CompleteSuccessOnly ==
    /\ todo = "complete"
    /\ todo' = "over"
    /\ end' = "answered"
    /\ row' = IF Outcome = "completed" /\ row.status # "absent" THEN Result ELSE row
    /\ memory' = IF row.status = "absent" THEN Result ELSE memory
    /\ UNCHANGED <<target, steps, found, session, restarted>>

\* _complete_loop_run: the row, or the memory if there is no row or the
\* database fails.
Complete ==
    /\ todo = "complete"
    /\ todo' = "over"
    /\ end' = "answered"
    /\ \/ session = "ok" /\ row.status # "absent"
          /\ row' = Result /\ UNCHANGED <<session, memory>>
       \/ /\ session' = "broken"
          /\ memory' = Result
          /\ UNCHANGED row
    /\ UNCHANGED <<target, steps, found, restarted>>

-----------------------------------------------------------------------------
Stop(how) ==
    /\ todo # "over"
    /\ todo' = "over"
    /\ end' = how
    /\ UNCHANGED <<target, steps, found, session, row, memory, restarted>>

\* wait_for cancels run_loop after LOOP_RUN_TIMEOUT_SECONDS; nothing in run_loop
\* handles the cancellation.
Timeout == todo \in {"step", "save", "complete"} /\ Stop("timeout")

\* Steps 2 to 5 let StarMapError and PipelineStageError through.
StepRaises == todo = "step" /\ Len(steps) > 0 /\ Stop("raised")

Crash == Stop("crashed")

\* The memory is lost with the process.
Restart ==
    /\ todo = "over"
    /\ ~restarted
    /\ memory' = Absent
    /\ restarted' = TRUE
    /\ UNCHANGED <<todo, target, steps, found, session, row, end>>

LoopStep ==
    Insert \/ Validate \/ Extract \/ UpdateGraph \/ Match \/ LearningPath \/ Save \/ Complete

Next == LoopStep \/ Timeout \/ StepRaises \/ Crash \/ Restart

Spec == Init /\ [][Next]_vars

\* A request keeps running, or the timeout ends it.
FairSpec == Spec /\ WF_vars(LoopStep \/ Timeout)

-----------------------------------------------------------------------------
\* get_loop_status: the row comes first.
Visible == IF row.status # "absent" THEN row ELSE memory

TypeOK ==
    /\ todo \in {"insert", "step", "save", "complete", "over"}
    /\ target \in BOOLEAN
    /\ steps \in Seq({"success", "failed", "skipped"}) /\ Len(steps) <= 5
    /\ found \subseteq {"skills", "name"}
    /\ session \in {"ok", "broken"}
    /\ {row.status, memory.status} \subseteq {"absent", "running", "completed", "failed"}
    /\ end \in {"none", "answered", "timeout", "raised", "crashed"}
    /\ restarted \in BOOLEAN

\* A run whose caller got an answer can be looked up afterwards with that same
\* answer, unless its row exists and the database failed (then the row keeps
\* hiding the result in memory) or the process restarted (get_loop_status,
\* _complete_loop_run).
AnswerCanBeRead ==
    (/\ end = "answered"
     /\ session = "ok" \/ (row.status = "absent" /\ ~restarted))
        => Visible = Result

\* A run leaves the status running, unless it was stopped from outside its own
\* steps or the database failed.
RunLeavesRunning ==
    row.status = "running" ~>
        (row.status # "running" \/ session = "broken" \/ end \in {"timeout", "raised", "crashed"})

=============================================================================

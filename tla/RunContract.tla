---------------------------- MODULE RunContract ----------------------------
(***************************************************************************)
(* What a pipeline run promises, whatever the workers, the administrators  *)
(* and the cleanups do to its row: stages complete only after the required *)
(* stages they depend on, and a run is reported completed only when all    *)
(* required stages have completed.  `status' is the status of the run and  *)
(* `completed' the set of stages that have completed at least once.        *)
(***************************************************************************)
EXTENDS StageGraph

CONSTANT Required  \* the stages the run has to complete

VARIABLES status, completed

vars == <<status, completed>>

Init == status = "absent" /\ completed = {}

Begin ==
    /\ status = "absent"
    /\ status' = "running"
    /\ UNCHANGED completed

\* A stage completes once its required dependencies have.
CompleteStage(s) ==
    /\ Deps[s] \cap Required \subseteq completed
    /\ completed' = completed \cup {s}
    /\ UNCHANGED status

\* The run is reported completed.
Succeed ==
    /\ Required \subseteq completed
    /\ status' = "completed"
    /\ UNCHANGED completed

\* The run fails or is cancelled.
GiveUp ==
    /\ status' \in {"failed", "cancelled"}
    /\ UNCHANGED completed

\* A run is resumed.
Reopen ==
    /\ status' = "running"
    /\ UNCHANGED completed

Next ==
    \/ Begin
    \/ \E s \in Stages : CompleteStage(s)
    \/ status # "absent" /\ (Succeed \/ GiveUp \/ Reopen)

Spec == Init /\ [][Next]_vars

-----------------------------------------------------------------------------
\* The stricter life of a run that nobody interferes with: it ends once, and
\* only a failed run is reopened.
StrictNext ==
    \/ Begin
    \/ \E s \in Stages : CompleteStage(s) /\ status = "running"
    \/ status = "running" /\ (Succeed \/ GiveUp)
    \/ status = "failed" /\ Reopen

StrictSpec == Init /\ [][StrictNext]_vars

=============================================================================

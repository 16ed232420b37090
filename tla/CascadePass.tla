---------------------------- MODULE CascadePass ----------------------------
(***************************************************************************)
(* The loop of advance_pipeline (engine.py) that skips or fails the stages *)
(* whose dependencies failed, one iteration per step, over every content   *)
(* the stages array can have.                                              *)
(***************************************************************************)
EXTENDS StageGraph

VARIABLES given, \* the array as it was read
          array, \* the array being changed in place
          at     \* position of the next stage the loop looks at

vars == <<given, array, at>>

Last == 6

Init ==
    /\ given \in Snapshots
    /\ array = given
    /\ at = 1

Here == CHOOSE s \in Stages : Position[s] = at

\* Variant: the dependencies are looked up in the array as it was read.
VerdictStale(s) ==
    IF array[s] = "pending" /\ \E d \in Deps[s] : given[d] = "failed"
    THEN IF s \in Optional THEN "skipped" ELSE "failed"
    ELSE array[s]

Verdict(s) ==
    IF array[s] = "pending" /\ \E d \in Deps[s] : array[d] = "failed"
    THEN IF s \in Optional THEN "skipped" ELSE "failed"
    ELSE array[s]

Visit ==
    /\ at <= Last
    /\ array' = [array EXCEPT ![Here] = Verdict(Here)]
    /\ at' = at + 1
    /\ UNCHANGED given

Next == Visit

Spec == Init /\ [][Next]_vars

-----------------------------------------------------------------------------
\* When the loop ends, the array is the one-expression Cascade that the engine
\* model uses, on every array, cancelled and out-of-order contents included; a
\* second pass would change nothing; and whatever the pass made ready depends on
\* an optional stage it skipped (advance_pipeline).
CascadeCorrect ==
    at = Last + 1 =>
        /\ array = Cascade(given)
        /\ Cascade(array) = array
        /\ \A s \in Ready(array) \ Ready(given) :
               \E d \in Deps[s] : d \in Optional /\ array[d] = "skipped"
=============================================================================

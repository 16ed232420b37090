------------------------------ MODULE Evolution ------------------------------
(***************************************************************************)
(* How the requirement a position makes of one skill follows the job       *)
(* descriptions over the months: extraction adds rows to                   *)
(* position_skill_relations, core/evolution takes a snapshot of each month *)
(* (snapshot_manager.py), compares it with the one before (diff_engine.py),*)
(* records the change once (orchestrator.py) and writes it back when it is *)
(* approved (write_back.py), and a reviewer decides on the others          *)
(* (api/v1/evolution.py).                                                  *)
(*                                                                         *)
(* A transaction of one month is a step; a run may die between two of      *)
(* them.  The score of a change is only high (approved) or low (pending).  *)
(* The position is one that position_records knows by its name, and its    *)
(* postings are ones the content gate of the extraction lets through.      *)
(***************************************************************************)
EXTENDS Naturals, FiniteSets

CONSTANTS
    MaxMonth,    \* months that pass
    MonthsBack   \* months before the current one that a run looks at

EvolutionAssumption == MaxMonth \in Nat \ {0} /\ MonthsBack \in Nat

Months == 1..MaxMonth
Requirements == {"required", "preferred"}
ChangeTypes == {"added_required", "added_preferred", "removed", "promoted", "demoted"}
NoRun == [next |-> 0, last |-> 0, prev |-> {}, hasPrev |-> FALSE]
NoSnapshot == {"none"}

VARIABLES
    month,       \* the current month
    mentioned,   \* the lists that mention the skill often enough, by month
    others,      \* the months that mention another skill often enough
    snapshots,   \* the lists of the snapshot of a month that hold the skill
    changelog,   \* status and month of the change recorded for a type
    relations,   \* the requirement types that have a row
    run,         \* the months a run has still to do, and its prev_snapshot
    approving,   \* a change marked approved and not yet written back
    excused      \* the relation need not follow the snapshots any more

vars == <<month, mentioned, others, snapshots, changelog, relations, run, approving, excused>>

TypeOK ==
    /\ month \in Months
    /\ mentioned \in [Months -> SUBSET Requirements]
    /\ others \subseteq Months
    /\ snapshots \in [Months -> {NoSnapshot} \cup SUBSET Requirements]
    /\ changelog \in [ChangeTypes ->
           [status : {"none", "pending", "approved", "rejected"}, month : 0..MaxMonth]]
    /\ relations \subseteq Requirements
    /\ run \in [next : 0..MaxMonth, last : 0..MaxMonth,
                prev : SUBSET Requirements, hasPrev : BOOLEAN]
    /\ approving \in ChangeTypes \cup {"none"}
    /\ excused \in BOOLEAN

Init ==
    /\ month = 1
    /\ mentioned = [m \in Months |-> {}]
    /\ others = {}
    /\ snapshots = [m \in Months |-> NoSnapshot]
    /\ changelog = [t \in ChangeTypes |-> [status |-> "none", month |-> 0]]
    /\ relations = {}
    /\ run = NoRun
    /\ approving = "none"
    /\ excused = FALSE

-----------------------------------------------------------------------------
\* A job description of the month mentions the skill: its relation is
\* upserted at once; the snapshot counts it when it has MIN_MENTIONS.
Extract ==
    /\ \E requirement \in Requirements, enough \in BOOLEAN :
           /\ relations' = relations \cup {requirement}
           /\ mentioned' = IF enough
                  THEN [mentioned EXCEPT ![month] = @ \cup {requirement}]
                  ELSE mentioned
    /\ UNCHANGED <<month, others, snapshots, changelog, run, approving, excused>>

\* One of the month mentions another skill of the position.
ExtractOther ==
    /\ others' = others \cup {month}
    /\ UNCHANGED <<month, mentioned, snapshots, changelog, relations, run, approving, excused>>

MonthEnds ==
    /\ month < MaxMonth
    /\ month' = month + 1
    /\ UNCHANGED <<mentioned, others, snapshots, changelog, relations, run, approving, excused>>

-----------------------------------------------------------------------------
Main(lists) == IF "required" \in lists THEN "required" ELSE "preferred"

\* The class of the change between two snapshots; "none" stands for retained
\* as well, which is recorded and never written back.
Classify(old, new) ==
    IF old # {} /\ new = {} THEN "removed"
    ELSE IF new = {} THEN "none"
    ELSE IF old = {}
         THEN IF Main(new) = "required" THEN "added_required" ELSE "added_preferred"
    ELSE IF Main(old) = Main(new) THEN "none"
    ELSE IF Main(new) = "required" THEN "promoted" ELSE "demoted"

\* Variant: a promotion leaves the row as it is.
WrittenBackOnce(type, rows) ==
    CASE type = "added_required" -> rows \cup {"required"}
      [] type = "added_preferred" -> rows \cup {"preferred"}
      [] type = "promoted" -> rows
      [] type = "demoted" -> {"preferred"}
      [] type = "removed" -> IF rows = Requirements THEN rows ELSE {}

\* The rows after the write-back of a change.  A pair of rows makes the
\* query of a removal fail, and the failure is only a warning.
WrittenBack(type, rows) ==
    CASE type = "added_required" -> rows \cup {"required"}
      [] type = "added_preferred" -> rows \cup {"preferred"}
      [] type = "promoted" -> {"required"}
      [] type = "demoted" -> {"preferred"}
      [] type = "removed" -> IF rows = Requirements THEN rows ELSE {}

\* The next month of the run is to do.
Due(m) == run.next = m /\ m \in 1..run.last

Advanced(prev) ==
    IF run.next = run.last THEN NoRun
    ELSE [run EXCEPT !.next = @ + 1, !.prev = prev, !.hasPrev = TRUE]

StartRun ==
    /\ run = NoRun
    /\ run' = [NoRun EXCEPT !.next = IF month > MonthsBack THEN month - MonthsBack ELSE 1,
                            !.last = month]
    /\ UNCHANGED <<month, mentioned, others, snapshots, changelog, relations, approving, excused>>

\* The snapshots before month m that the database has.
Earlier(m) == {e \in 1..(m - 1) : snapshots[e] # NoSnapshot}
Latest(set) == CHOOSE m \in set : \A other \in set : other <= m

\* Without a skill named often enough the month gets no snapshot.
Empty(m) == mentioned[m] = {} /\ m \notin others

SkipMonth ==
    /\ \E m \in Months :
           /\ Due(m) /\ Empty(m)
           /\ run' = IF m = run.last THEN NoRun ELSE [run EXCEPT !.next = @ + 1]
    /\ UNCHANGED <<month, mentioned, others, snapshots, changelog, relations, approving, excused>>

\* The change is recorded unless its type was recorded before, for whatever
\* month, and written back when its score approves it.
Record(m, type, high) ==
    IF changelog[type].status # "none"
    THEN /\ excused' = (excused \/ changelog[type].month # m)
         /\ UNCHANGED <<changelog, relations>>
    ELSE /\ changelog' = [changelog EXCEPT ![type] =
                [status |-> IF high THEN "approved" ELSE "pending", month |-> m]]
         /\ relations' = IF high THEN WrittenBack(type, relations) ELSE relations
         /\ excused' = (excused \/ ~high)

\* The transaction of a month: its snapshot replaced, and compared with the
\* one before, taken from the database for the first month of the run.
TakeSnapshot ==
    /\ \E m \in Months :
           /\ Due(m) /\ ~Empty(m)
           /\ LET lists == mentioned[m]
                  hasPrev == run.hasPrev \/ Earlier(m) # {}
                  prev == IF run.hasPrev THEN run.prev ELSE snapshots[Latest(Earlier(m))]
                  type == Classify(prev, lists)
              IN /\ snapshots' = [snapshots EXCEPT ![m] = lists]
                 /\ run' = Advanced(lists)
                 /\ IF hasPrev /\ type # "none"
                    THEN \E high \in BOOLEAN : Record(m, type, high)
                    ELSE UNCHANGED <<changelog, relations, excused>>
    /\ UNCHANGED <<month, mentioned, others, approving>>

RunDies ==
    /\ run # NoRun
    /\ run' = NoRun
    /\ UNCHANGED <<month, mentioned, others, snapshots, changelog, relations, approving, excused>>

-----------------------------------------------------------------------------
(* The review queue.  Neither action looks at the status of the row.       *)

Decide(types, status) ==
    changelog' = [t \in ChangeTypes |->
        IF t \in types THEN [changelog[t] EXCEPT !.status = status] ELSE changelog[t]]

Recorded == {t \in ChangeTypes : changelog[t].status # "none"}
Pending == {t \in ChangeTypes : changelog[t].status = "pending"}

\* The status is committed before the write-back begins.
ApproveOne ==
    /\ approving = "none"
    /\ \E type \in Recorded :
           /\ Decide({type}, "approved")
           /\ approving' = type
    /\ excused' = TRUE
    /\ UNCHANGED <<month, mentioned, others, snapshots, relations, run>>

WriteBackApproved ==
    /\ approving # "none"
    /\ relations' = WrittenBack(approving, relations)
    /\ approving' = "none"
    /\ UNCHANGED <<month, mentioned, others, snapshots, changelog, run, excused>>

ApprovalDies ==
    /\ approving # "none"
    /\ approving' = "none"
    /\ UNCHANGED <<month, mentioned, others, snapshots, changelog, relations, run, excused>>

RejectOne ==
    /\ \E type \in Recorded : Decide({type}, "rejected")
    /\ UNCHANGED <<month, mentioned, others, snapshots, relations, run, approving, excused>>

\* The batch action decides on what is pending and passes its filter, and
\* writes nothing back.
DecideAll ==
    /\ Pending # {}
    /\ \E status \in {"approved", "rejected"}, types \in SUBSET Pending : Decide(types, status)
    /\ UNCHANGED <<month, mentioned, others, snapshots, relations, run, approving, excused>>

Next ==
    \/ Extract \/ ExtractOther \/ MonthEnds
    \/ StartRun \/ SkipMonth \/ TakeSnapshot \/ RunDies
    \/ ApproveOne \/ WriteBackApproved \/ ApprovalDies \/ RejectOne \/ DecideAll

Spec == Init /\ [][Next]_vars

-----------------------------------------------------------------------------
\* Between runs, the requirement of the latest snapshot has its row, unless
\* a change came a second time, scored low, or was approved by hand.
RelationFollows ==
    LET taken == {m \in Months : snapshots[m] # NoSnapshot}
    IN run = NoRun /\ ~excused /\ taken # {} =>
           LET lists == snapshots[Latest(taken)]
           IN lists # {} => Main(lists) \in relations
=============================================================================

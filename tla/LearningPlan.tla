---------------------------- MODULE LearningPlan ----------------------------
(***************************************************************************)
(* One learning plan and the progress rows of its skills, changed by       *)
(* concurrent requests of its owner.  An update locks the row of its skill *)
(* (FOR UPDATE), reads the rows of the whole plan without locking them,    *)
(* and completes the plan if all are mastered.  Transactions are READ      *)
(* COMMITTED: they see their own change and what others have committed.    *)
(***************************************************************************)
EXTENDS Integers, Sequences, SequencesExt

CONSTANTS
    Skills,       \* skills a plan may hold
    Planned,      \* the skills the plan is created with
    Requests,     \* requests that may run at the same time
    MaxUpdates    \* bound: updates and additions in all

PlanAssumption == Planned \subseteq Skills /\ Skills # {} /\ MaxUpdates \in Nat

Status == {"not_started", "in_progress", "mastered"}
Pct == {0, 50, 100}
None == "none"
Row == [status : Status, pct : Pct]

VARIABLES
    plan,       \* learning_plans.status
    rows,       \* committed progress rows of each skill
    tx,         \* what each request is doing
    mastered,   \* history: skills that have had a mastered row
    updates     \* updates and additions so far

vars == <<plan, rows, tx, mastered, updates>>

\* overlapped: another request has been under way during this one.
Idle == [pc |-> "idle", skill |-> CHOOSE s \in Skills : TRUE,
         row |-> [status |-> "not_started", pct |-> 0], overlapped |-> FALSE]

\* The rows create_plan makes: mastered gaps start mastered.
NewRows == {[status |-> "not_started", pct |-> 0], [status |-> "mastered", pct |-> 100]}

Init ==
    /\ plan = "active"
    /\ \E first \in [Planned -> NewRows] :
        /\ rows = [s \in Skills |-> IF s \in Planned THEN <<first[s]>> ELSE <<>>]
        /\ mastered = {s \in Planned : first[s].status = "mastered"}
    /\ tx = [r \in Requests |-> Idle]
    /\ updates = 0

Busy == {r \in Requests : tx[r].pc # "idle"}

\* Request r starts and, with every request under way, overlaps.
Start(r, pc, s) ==
    /\ tx[r].pc = "idle"
    /\ updates < MaxUpdates
    /\ updates' = updates + 1
    /\ tx' = [q \in Requests |->
                IF q = r
                THEN [Idle EXCEPT !.pc = pc, !.skill = s, !.overlapped = Busy # {}]
                ELSE [tx[q] EXCEPT !.overlapped = tx[q].pc # "idle"]]

End(r) == tx' = [tx EXCEPT ![r] = Idle]

Step(r, pc) == tx' = [tx EXCEPT ![r].pc = pc]

-----------------------------------------------------------------------------
\* update_progress on one row: the status, then the percentage.
WithStatus(row, status) ==
    IF status = None THEN row
    ELSE [status |-> status, pct |-> IF status = "mastered" THEN 100 ELSE row.pct]

WithPct(row, pct) ==
    IF pct \notin Pct THEN row
    ELSE [pct |-> pct,
          status |-> IF pct = 100 THEN "mastered"
                     ELSE IF pct > 0 /\ row.status = "not_started"
                          THEN "in_progress" ELSE row.status]

Locked(s) ==
    \E r \in Requests : tx[r].pc \in {"check", "save", "plan", "commit"} /\ tx[r].skill = s
PlanLocked == \E r \in Requests : tx[r].pc = "commit"

\* update_skill_progress_for_user reads the plan; the row is locked next.
UpdateStart(r, s) ==
    /\ Start(r, "lock", s)
    /\ UNCHANGED <<plan, rows, mastered>>

\* No row for the skill: nothing to update.  Two rows: scalar_one_or_none raises.
UpdateRefused(r) ==
    /\ tx[r].pc = "lock"
    /\ Len(rows[tx[r].skill]) # 1
    /\ End(r)
    /\ UNCHANGED <<plan, rows, mastered, updates>>

\* SELECT ... FOR UPDATE sees the latest committed row; the change stays in the
\* transaction.
UpdateLock(r) ==
    LET s == tx[r].skill IN
    /\ tx[r].pc = "lock"
    /\ Len(rows[s]) = 1
    /\ ~Locked(s)
    /\ \E status \in Status \cup {None}, pct \in Pct \cup {-1} :
        tx' = [tx EXCEPT ![r].pc = "check",
                         ![r].row = WithPct(WithStatus(rows[s][1], status), pct)]
    /\ UNCHANGED <<plan, rows, mastered, updates>>

\* The rows r sees: its own uncommitted row and the committed rows of others.
SeenBy(r) == [rows EXCEPT ![tx[r].skill] = <<tx[r].row>>]

\* Variant: a skill that has been started counts as mastered.
AllStarted(view) ==
    \A s \in Skills : \A i \in DOMAIN view[s] : view[s][i].status # "not_started"

\* Variant: every skill needs a row, in the plan or not.
AllPresent(view) ==
    \A s \in Skills : Len(view[s]) = 1 /\ view[s][1].status = "mastered"

AllMastered(view) ==
    \A s \in Skills : \A i \in DOMAIN view[s] : view[s][i].status = "mastered"

Commit(r) ==
    /\ rows' = SeenBy(r)
    /\ mastered' = IF tx[r].row.status = "mastered"
                   THEN mastered \cup {tx[r].skill} ELSE mastered
    /\ End(r)

\* get_plan_progress_list: rows of the plan, not locked.
CheckOthers(r) ==
    /\ tx[r].pc = "check"
    /\ AllMastered(SeenBy(r))
    /\ Step(r, "plan")
    /\ UNCHANGED <<plan, rows, mastered, updates>>

CheckUnfinished(r) ==
    /\ tx[r].pc = "check"
    /\ ~AllMastered(SeenBy(r))
    /\ Step(r, "save")
    /\ UNCHANGED <<plan, rows, mastered, updates>>

\* By now another request may have committed the row that was missing.
CommitUnfinished(r) ==
    /\ tx[r].pc = "save"
    /\ Commit(r)
    /\ UNCHANGED <<plan, updates>>

LockPlan(r) ==
    /\ tx[r].pc = "plan"
    /\ ~PlanLocked
    /\ Step(r, "commit")
    /\ UNCHANGED <<plan, rows, mastered, updates>>

CommitFinished(r) ==
    /\ tx[r].pc = "commit"
    /\ plan' = "completed"
    /\ Commit(r)
    /\ UNCHANGED updates

\* A statement fails: the session rolls back.
UpdateFails(r) ==
    /\ tx[r].pc \in {"check", "save", "plan", "commit"}
    /\ End(r)
    /\ UNCHANGED <<plan, rows, mastered, updates>>

-----------------------------------------------------------------------------
\* add_skill_to_plan: a skill that is there is returned as it is (and two rows
\* of it raise); otherwise a row is inserted, whatever the plan's status is now.
AddRead(r, s) ==
    /\ rows[s] = <<>>
    /\ Start(r, "insert", s)
    /\ UNCHANGED <<plan, rows, mastered>>

AddCommit(r) ==
    LET s == tx[r].skill IN
    /\ tx[r].pc = "insert"
    /\ rows' = [rows EXCEPT ![s] = Append(@, [status |-> "not_started", pct |-> 0])]
    /\ End(r)
    /\ UNCHANGED <<plan, mastered, updates>>

UpdateStep(r) ==
    \/ UpdateRefused(r) \/ UpdateLock(r) \/ CheckOthers(r) \/ CheckUnfinished(r)
    \/ CommitUnfinished(r) \/ LockPlan(r) \/ CommitFinished(r) \/ AddCommit(r)

Next ==
    \E r \in Requests :
        \/ \E s \in Skills : UpdateStart(r, s) \/ AddRead(r, s)
        \/ UpdateStep(r) \/ UpdateFails(r)

Spec == Init /\ [][Next]_vars

\* A request keeps running; PostgreSQL grants a row lock to those who wait.
FairSpec == Spec /\ \A r \in Requests : WF_vars(UpdateStep(r)) /\ SF_vars(UpdateLock(r))

-----------------------------------------------------------------------------
TypeOK ==
    /\ plan \in {"active", "completed"}
    /\ \A s \in Skills : \A i \in DOMAIN rows[s] : rows[s][i] \in Row
    /\ \A r \in Requests :
        /\ tx[r].pc \in {"idle", "lock", "check", "save", "plan", "commit", "insert"}
        /\ tx[r].skill \in Skills
        /\ tx[r].row \in Row
    /\ mastered \subseteq Skills
    /\ updates \in 0 .. MaxUpdates

\* A plan is completed only if every skill it was created with has been
\* mastered, although the rows an update looks at are not locked and may change
\* before it commits (update_progress).
CompletionEarned == plan = "completed" => Planned \subseteq mastered

\* The update that masters the last skill completes the plan, unless another
\* request ran at the same time: then neither may have seen the other's row, and
\* nothing completes the plan until the next update.
LastMasteryCompletes ==
    [][\A r \in Requests :
        (/\ tx[r].pc \in {"save", "commit"} /\ tx'[r].pc = "idle"
         /\ rows' = SeenBy(r) /\ rows' # rows
         /\ ~tx[r].overlapped
         /\ \A s \in Skills : \A i \in DOMAIN rows'[s] : rows'[s][i].status = "mastered")
            => plan' = "completed"]_vars

\* Updates lock a row and then the plan; they never wait for each other forever.
UpdatesEnd == \A r \in Requests : tx[r].pc # "idle" ~> tx[r].pc = "idle"

=============================================================================

---------------------------- MODULE CronSchedule ----------------------------
(***************************************************************************)
(* The cron scheduler: pipeline_schedules rows, the scanner loop of the    *)
(* API process that dispatches what is due, the Celery task that starts a  *)
(* run for a schedule, the circuit breaker that pauses pipeline schedules  *)
(* after recent failures, and the administrators who edit the rows.        *)
(*                                                                         *)
(* Time is cyclic and relative: `phase' is the time within one cycle of    *)
(* all cron expressions, and a row keeps how many ticks are left until its *)
(* next_run_at instead of the timestamp.  A cron expression is the set of  *)
(* phases at which it occurs; one that does not parse is the empty set.    *)
(***************************************************************************)
EXTENDS Integers, Functions

CONSTANTS
    Schedules,   \* ids that schedules may get
    Reconciles,  \* those named daily_reconcile or graph_reconcile
    Seeded,      \* those that exist at the start
    Workers,     \* Celery worker slots
    Cycle,       \* ticks in the common cycle of the cron expressions
    HalfHour,    \* ticks in half an hour
    Crons,       \* cron expressions in use
    BreakerLimit, \* failures that open the breaker, 3 in the code
    MaxAttempts, \* max_retries of the task, 2 in the code
    MaxRequests, \* bound: administrator requests
    MaxFaults,   \* bound: failures
    MaxRuns,     \* bound: pipeline runs running at a time
    MaxFailures, \* bound: failed runs started within the last hour
    MaxCopies    \* bound: first attempts of one schedule in the queue

Hour == 2 * HalfHour

ASSUME CronAssumption ==
    /\ Schedules # {}
    /\ Reconciles \subseteq Schedules
    /\ Seeded \subseteq Schedules
    /\ Cycle \in Nat \ {0}
    /\ HalfHour \in Nat \ {0}
    /\ Crons \subseteq SUBSET (0 .. Cycle - 1)
    /\ BreakerLimit \in Nat \ {0}
    /\ MaxAttempts \in Nat
    /\ MaxRequests \in Nat
    /\ MaxFaults \in Nat
    /\ MaxRuns \in Nat
    /\ MaxFailures \in Nat
    /\ MaxCopies \in Nat \ {0}

VARIABLES
    phase,    \* the time, modulo Cycle
    live,     \* schedules that have a row
    used,     \* schedule ids used so far
    row,      \* their rows; `wait' is what is left until next_run_at
    pc,       \* where the scanner is
    due,      \* schedules the scan has still to dispatch
    seen,     \* rows as the scan has read and changed them
    sending,  \* the schedule dispatched last, its timestamps not yet set
    staged,   \* schedules whose new timestamps are flushed, not committed
    queue,    \* scheduled_pipeline_run messages: how many of each
    wpc,      \* where each worker is
    job,      \* its message
    copy,     \* the cron expression it has read
    running,  \* pipeline runs with status running, by age
    failed,   \* failed runs started within the last hour, by age
    sent,     \* history: dispatches since the last occurrence
    edited,   \* history: their expression was changed, until it has occurred
              \* with nothing left that was computed from the old one
    requests, faults

clock == <<phase, sent, edited>>
table == <<live, used, row>>
scanner == <<pc, due, seen, sending, staged>>
workerVars == <<wpc, job, copy>>
runs == <<running, failed>>
bounds == <<requests, faults>>
vars == <<clock, table, scanner, queue, workerVars, runs, bounds>>

\* next_run_at is NULL.
Never == -1

Top == IF Cycle > Hour THEN Cycle ELSE Hour

Row == [enabled : BOOLEAN, cron : Crons, wait : Never .. Top]

Message == [id : Schedules, attempt : 0 .. MaxAttempts]

Ages == 0 .. Hour + 1

\* Variant: the current time counts.
NextCronInclusive(cron) ==
    IF cron = {} THEN Never
    ELSE CHOOSE d \in 0 .. Cycle :
            /\ (phase + d) % Cycle \in cron
            /\ \A e \in 0 .. d - 1 : (phase + e) % Cycle \notin cron

\* compute_next_cron at the current time: ticks until the next occurrence,
\* which is strictly in the future.
NextCron(cron) ==
    IF cron = {} THEN Never
    ELSE CHOOSE d \in 1 .. Cycle :
            /\ (phase + d) % Cycle \in cron
            /\ \A e \in 1 .. d - 1 : (phase + e) % Cycle \notin cron

Blank == [enabled |-> FALSE, cron |-> {}, wait |-> Never]

NoMessage == CHOOSE m \in Message : TRUE

Init ==
    /\ phase = 0
    /\ live = Seeded
    /\ used = Seeded
    /\ \E cron \in Crons :
        row = [s \in Schedules |->
                IF s \in Seeded
                THEN [enabled |-> TRUE, cron |-> cron, wait |-> NextCron(cron)]
                ELSE Blank]
    /\ pc = "idle"
    /\ due = {}
    /\ seen = [s \in Schedules |-> Blank]
    /\ sending = {}
    /\ staged = {}
    /\ queue = [m \in Message |-> 0]
    /\ wpc = [w \in Workers |-> "idle"]
    /\ job = [w \in Workers |-> NoMessage]
    /\ copy = [w \in Workers |-> {}]
    /\ running = [a \in Ages |-> 0]
    /\ failed = [a \in 0 .. Hour |-> 0]
    /\ sent = [s \in Schedules |-> 0]
    /\ edited = {}
    /\ requests = 0
    /\ faults = 0

Total(f) == FoldFunction(LAMBDA n, total : n + total, 0, f)

Fault ==
    /\ faults < MaxFaults
    /\ faults' = faults + 1
    /\ UNCHANGED requests

Request ==
    /\ requests < MaxRequests
    /\ requests' = requests + 1
    /\ UNCHANGED faults

Due(s) == s \in live /\ row[s].enabled /\ row[s].wait = 0

-----------------------------------------------------------------------------
(***************************************************************************)
(* cron_scanner_once: one transaction that reads the due rows, looks at    *)
(* the breaker, dispatches each row and sets its timestamps, and commits   *)
(* all timestamps at the end.                                              *)
(***************************************************************************)
ScanDue ==
    /\ pc = "idle"
    /\ {s \in Schedules : Due(s)} # {}
    /\ due' = {s \in Schedules : Due(s)}
    /\ seen' = row
    /\ pc' = "counting"
    /\ UNCHANGED <<clock, table, sending, staged, queue, workerVars, runs, bounds>>

\* The breaker counts failed runs by the time they started.
BreakerOpen == Total(failed) >= BreakerLimit

\* Variant: the breaker pauses everything.
CheckBreakerOfAll ==
    /\ pc = "counting"
    /\ due' = IF BreakerOpen THEN {} ELSE due
    /\ pc' = "sending"
    /\ UNCHANGED <<clock, table, seen, sending, staged, queue, workerVars, runs, bounds>>

CheckBreaker ==
    /\ pc = "counting"
    /\ due' = IF BreakerOpen THEN due \cap Reconciles ELSE due
    /\ pc' = "sending"
    /\ UNCHANGED <<clock, table, seen, sending, staged, queue, workerVars, runs, bounds>>

\* task.delay: to the broker before anything about it is committed.  The name
\* of a schedule decides on the task; what the reconcile task does changes no
\* state of this module.
Dispatch(s) ==
    /\ pc = "sending"
    /\ sending = {}
    /\ s \in due
    /\ IF s \in Reconciles
       THEN UNCHANGED queue
       ELSE LET m == [id |-> s, attempt |-> 0] IN
            /\ queue[m] < MaxCopies
            /\ queue' = [queue EXCEPT ![m] = @ + 1]
    /\ due' = due \ {s}
    /\ sending' = {s}
    /\ sent' = [sent EXCEPT ![s] = @ + 1]
    /\ UNCHANGED <<phase, edited, table, pc, seen, staged, workerVars, runs, bounds>>

\* The broker refuses: logged, the row stays due, the scan goes on.
DispatchFails(s) ==
    /\ pc = "sending"
    /\ sending = {}
    /\ s \in due
    /\ Fault
    /\ due' = due \ {s}
    /\ UNCHANGED <<clock, table, pc, seen, sending, staged, queue, workerVars, runs>>

\* The scan is over or given up: what it has not committed is gone.
EndScan ==
    /\ pc' = "idle"
    /\ due' = {}
    /\ seen' = [s \in Schedules |-> Blank]
    /\ sending' = {}
    /\ staged' = {}

Rollback ==
    /\ EndScan
    /\ sent' = [s \in Schedules |->
                IF s \in staged \cup sending /\ sent[s] > 0
                THEN sent[s] - 1 ELSE sent[s]]
    /\ UNCHANGED <<phase, edited, table, queue, workerVars, runs>>

\* Set last_run_at and next_run_at and flush, which locks the row.  The cron
\* expression is the one the scan has read; one that does not parse is tried
\* again after an hour.
Stamp(s) ==
    LET next == NextCron(seen[s].cron) IN
    /\ s \in sending
    /\ s \in live
    /\ seen' = [seen EXCEPT ![s].wait = IF next = Never THEN Hour ELSE next]
    /\ staged' = staged \cup {s}
    /\ sending' = {}
    /\ UNCHANGED <<clock, table, pc, due, queue, workerVars, runs, bounds>>

\* The row is gone: the flush raises, and so does the handler of the exception,
\* which reads the name of the expired row; the transaction is rolled back.
StampFails(s) ==
    /\ s \in sending
    /\ s \notin live
    /\ Rollback
    /\ UNCHANGED bounds

CommitScan ==
    /\ pc = "sending"
    /\ due = {}
    /\ sending = {}
    /\ row' = [s \in Schedules |->
                IF s \in staged THEN [row[s] EXCEPT !.wait = seen[s].wait]
                ELSE row[s]]
    /\ EndScan
    /\ UNCHANGED <<clock, live, used, queue, workerVars, runs, bounds>>

\* The database fails or the API process restarts.
ScanAborts ==
    /\ pc # "idle"
    /\ Fault
    /\ Rollback

-----------------------------------------------------------------------------
(***************************************************************************)
(* scheduled_pipeline_run: read the schedule, trigger a run, and set the   *)
(* timestamps once more.  It looks neither at `enabled' nor at the breaker *)
(* and is acknowledged when it is taken.                                   *)
(***************************************************************************)
Idle(w) ==
    /\ wpc' = [wpc EXCEPT ![w] = "idle"]
    /\ job' = [job EXCEPT ![w] = NoMessage]
    /\ copy' = [copy EXCEPT ![w] = {}]

\* trigger_and_start: runs that have been running for over half an hour are
\* cancelled, and a new one starts.
TriggerAndStart ==
    LET others == [a \in Ages |-> IF a > HalfHour THEN 0 ELSE running[a]] IN
    /\ Total(others) < MaxRuns
    /\ running' = [others EXCEPT ![0] = @ + 1]
    /\ UNCHANGED failed

TakeTask(w) ==
    /\ wpc[w] = "idle"
    /\ \E m \in Message :
        /\ queue[m] > 0
        /\ queue' = [queue EXCEPT ![m] = @ - 1]
        /\ IF m.id \in live
           THEN /\ wpc' = [wpc EXCEPT ![w] = "starting"]
                /\ job' = [job EXCEPT ![w] = m]
                /\ copy' = [copy EXCEPT ![w] = row[m.id].cron]
           ELSE UNCHANGED workerVars
    /\ UNCHANGED <<clock, table, scanner, runs, bounds>>

StartRun(w) ==
    /\ wpc[w] = "starting"
    /\ TriggerAndStart
    /\ wpc' = [wpc EXCEPT ![w] = "recording"]
    /\ UNCHANGED <<clock, table, scanner, queue, job, copy, bounds>>

\* self.retry: the whole task again, the run it has started included.
RetryTask(w) ==
    LET m == [id |-> job[w].id, attempt |-> job[w].attempt + 1] IN
    /\ IF job[w].attempt < MaxAttempts
       THEN queue' = [queue EXCEPT ![m] = @ + 1]
       ELSE UNCHANGED queue
    /\ Idle(w)

\* trigger_and_start raises, before its run is committed or after it.
StartFails(w) ==
    /\ wpc[w] = "starting"
    /\ Fault
    /\ RetryTask(w)
    /\ UNCHANGED runs \/ TriggerAndStart
    /\ UNCHANGED <<clock, table, scanner>>

\* next_run_at becomes NULL when the expression does not parse.  An update of
\* a row the scanner has locked waits for its commit.
Record(w) ==
    LET s == job[w].id IN
    /\ wpc[w] = "recording"
    /\ s \in live \ staged
    /\ row' = [row EXCEPT ![s].wait = NextCron(copy[w])]
    /\ Idle(w)
    /\ UNCHANGED <<clock, live, used, scanner, queue, runs, bounds>>

\* The row is gone: the update finds nothing and the commit raises.
RowGone(w) ==
    /\ wpc[w] = "recording"
    /\ job[w].id \notin live
    /\ RetryTask(w)
    /\ UNCHANGED <<clock, table, scanner, runs, bounds>>

RecordFails(w) ==
    /\ wpc[w] = "recording"
    /\ Fault
    /\ RetryTask(w)
    /\ UNCHANGED <<clock, table, scanner, runs>>

WorkerCrash(w) ==
    /\ wpc[w] # "idle"
    /\ Fault
    /\ Idle(w)
    /\ UNCHANGED <<clock, table, scanner, queue, runs>>

-----------------------------------------------------------------------------
(***************************************************************************)
(* Administrators: create, update and delete schedules, trigger one.  An   *)
(* update leaves next_run_at as it is.                                     *)
(***************************************************************************)
Create(s) ==
    /\ Request
    /\ s \notin used
    /\ used' = used \cup {s}
    /\ live' = live \cup {s}
    /\ \E enabled \in BOOLEAN, cron \in Crons :
        row' = [row EXCEPT ![s] =
                [enabled |-> enabled, cron |-> cron, wait |-> NextCron(cron)]]
    /\ UNCHANGED <<clock, scanner, queue, workerVars, runs>>

Update(s) ==
    /\ Request
    /\ s \in live \ staged
    /\ \E enabled \in BOOLEAN, cron \in Crons :
        /\ row' = [row EXCEPT ![s].enabled = enabled, ![s].cron = cron]
        /\ edited' = IF cron = row[s].cron THEN edited ELSE edited \cup {s}
    /\ UNCHANGED <<phase, sent, live, used, scanner, queue, workerVars, runs>>

Delete(s) ==
    /\ Request
    /\ s \in live \ staged
    /\ live' = live \ {s}
    /\ row' = [row EXCEPT ![s] = Blank]
    /\ UNCHANGED <<clock, used, scanner, queue, workerVars, runs>>

TriggerNow(s) ==
    /\ Request
    /\ s \in live
    /\ TriggerAndStart
    /\ UNCHANGED <<clock, table, scanner, queue, workerVars>>

-----------------------------------------------------------------------------
\* A run ends; a failed one counts from the time it started.
RunEnds(a) ==
    /\ running[a] > 0
    /\ running' = [running EXCEPT ![a] = @ - 1]
    /\ \/ UNCHANGED failed
       \/ /\ a <= Hour
          /\ Total(failed) < MaxFailures
          /\ failed' = [failed EXCEPT ![a] = @ + 1]
    /\ UNCHANGED <<clock, table, scanner, queue, workerVars, bounds>>

\* One that does not parse has no occurrences to miss or to repeat.
Occurs(cron, at) == cron = {} \/ at \in cron

\* Variant: a missing next_run_at gets earlier too.
SoonerAlways(wait) == wait - 1

Sooner(wait) == IF wait > 0 THEN wait - 1 ELSE wait

\* Variant: nothing is forgotten.
OlderKept(f) == f

\* Failures older than an hour are forgotten; runs older than an hour are alike.
Older(f) == [a \in DOMAIN f |-> IF a = 0 THEN 0 ELSE f[a - 1]]

\* What is on its way to next_run_at of s belongs to the expression of s.
Fresh(s) ==
    /\ row[s].wait > 0 => Occurs(row[s].cron, (phase + row[s].wait) % Cycle)
    /\ s \in due \cup sending \cup staged => seen[s].cron = row[s].cron
    /\ s \in staged /\ seen[s].wait > 0 =>
        Occurs(row[s].cron, (phase + seen[s].wait) % Cycle)
    /\ \A w \in Workers :
        wpc[w] # "idle" /\ job[w].id = s => copy[w] = row[s].cron

Tick ==
    /\ phase' = (phase + 1) % Cycle
    /\ row' = [s \in Schedules |-> [row[s] EXCEPT !.wait = Sooner(@)]]
    /\ seen' = [s \in Schedules |-> [seen[s] EXCEPT !.wait = Sooner(@)]]
    /\ failed' = Older(failed)
    /\ running' = [Older(running) EXCEPT ![Hour + 1] = @ + running[Hour + 1]]
    /\ sent' = [s \in Schedules |->
                IF Occurs(row[s].cron, phase') THEN 0 ELSE sent[s]]
    /\ UNCHANGED <<live, used, pc, due, sending, staged, queue, workerVars, bounds>>
    /\ edited' = {s \in edited : ~ (Occurs(row[s].cron, phase') /\ Fresh(s)')}

-----------------------------------------------------------------------------
ScannerStep ==
    \/ ScanDue \/ CheckBreaker \/ CommitScan
    \/ \E s \in Schedules : Dispatch(s) \/ Stamp(s) \/ StampFails(s)

WorkerStep(w) == TakeTask(w) \/ StartRun(w) \/ Record(w) \/ RowGone(w)

AdminStep ==
    \E s \in Schedules : Create(s) \/ Update(s) \/ Delete(s) \/ TriggerNow(s)

FaultStep ==
    \/ ScanAborts
    \/ \E s \in Schedules : DispatchFails(s)
    \/ \E w \in Workers : StartFails(w) \/ RecordFails(w) \/ WorkerCrash(w)

Next ==
    \/ ScannerStep
    \/ \E w \in Workers : WorkerStep(w)
    \/ AdminStep
    \/ FaultStep
    \/ \E a \in Ages : RunEnds(a)
    \/ Tick

Spec == Init /\ [][Next]_vars

(***************************************************************************)
(* The loop scans every minute, workers keep working, PostgreSQL grants    *)
(* row locks in turn, and a run ends, by itself or by the watchdog         *)
(* (PipelineRun!NeverRunsForever).  Time is not required to pass.          *)
(***************************************************************************)
FairSpec ==
    /\ Spec
    /\ WF_vars(ScannerStep)
    /\ \A w \in Workers :
        /\ WF_vars(TakeTask(w) \/ StartRun(w) \/ RowGone(w))
        /\ SF_vars(Record(w))
    /\ WF_vars(\E a \in Ages : RunEnds(a))

-----------------------------------------------------------------------------
TypeOK ==
    /\ phase \in 0 .. Cycle - 1
    /\ live \subseteq used /\ used \subseteq Schedules
    /\ row \in [Schedules -> Row \cup {Blank}]
    /\ pc \in {"idle", "counting", "sending"}
    /\ due \subseteq Schedules
    /\ seen \in [Schedules -> Row \cup {Blank}]
    /\ sending \subseteq Schedules /\ staged \subseteq live
    /\ queue \in [Message -> Nat]
    /\ wpc \in [Workers -> {"idle", "starting", "recording"}]
    /\ job \in [Workers -> Message]
    /\ copy \in [Workers -> Crons \cup {{}}]
    /\ running \in [Ages -> Nat]
    /\ failed \in [0 .. Hour -> Nat]
    /\ sent \in [Schedules -> Nat] /\ edited \subseteq Schedules
    /\ requests \in 0 .. MaxRequests
    /\ faults \in 0 .. MaxFaults

\* A schedule is dispatched at most once for each occurrence of its cron
\* expression, unless the timestamps of a dispatch are rolled back or the
\* expression has just been edited: late tasks that set next_run_at again,
\* downtime, and rows disabled for a while and enabled again cause no second
\* dispatch.
OncePerOccurrence == \A s \in Schedules \ edited : sent[s] <= 1

\* Schedule s has just been dispatched, or there is no reason to any more.
Settled(s) == s \in sending \/ ~Due(s)

\* The breaker pauses pipelines only: a due reconcile is dispatched (or
\* deleted, or disabled) even if time stands still and no failure is forgotten.
ReconcileNotBlocked ==
    \A s \in Reconciles : Due(s) ~> Settled(s)

\* The breaker pauses and does not stop: as time passes, every due schedule is
\* dispatched (or deleted, or disabled), however many runs have failed.
DueIsDispatched == WF_vars(Tick) => \A s \in Schedules : Due(s) ~> Settled(s)

=============================================================================

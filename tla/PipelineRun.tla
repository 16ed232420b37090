---------------------------- MODULE PipelineRun ----------------------------
(***************************************************************************)
(* One pipeline run of the ETL engine: the pipeline_runs row, the Celery   *)
(* queue, the workers that execute stages and advance the DAG, and every   *)
(* other actor that writes the same row: API handlers (cancel, retry,      *)
(* resume, force-advance, force-reset), the delayed auto-resume thread,    *)
(* the watchdog, the zombie cleanup of the status endpoint and the stuck   *)
(* check of the next trigger.                                              *)
(*                                                                         *)
(* Every writer of the `stages' array reads the whole array, changes its   *)
(* copy and writes the whole copy back.  There is no row lock and no       *)
(* version check (READ COMMITTED), so the read and the write are separate  *)
(* steps and the copy a process holds, snap[p], may be stale.  What one    *)
(* transaction writes becomes visible in one step, at its commit.          *)
(***************************************************************************)
EXTENDS StageGraph

CONSTANTS
    SelectedStages,  \* selected_stages of the trigger; {} selects all
    Workers,         \* Celery worker slots
    Handlers,        \* threads that run API requests, triggers, auto-resumes
    MaxAttempts,     \* pipeline_retry_max
    AdminOps,        \* the operations administrators may request
    RetryStages,     \* the stages administrators may ask to retry
    Reapers,         \* the cleanups that may take a run away
    FaultKinds,      \* the failures that may happen
    MaxRequests,     \* bound: administrator requests
    MaxFaults,       \* bound: failures
    MaxAutoResumes,  \* bound: auto-resume threads started
    MaxCopies        \* bound: copies of one message in the queue

AllAdminOps == {"cancel", "retry", "resume", "force_advance", "force_reset"}
AllReapers == {"watchdog", "zombie", "stuck"}
AllFaults == {"error", "crash", "lost", "redis", "abort"}

ASSUME ConstantsAssumption ==
    /\ SelectedStages \subseteq Stages
    /\ Workers \cap Handlers = {}
    /\ MaxAttempts \in Nat
    /\ AdminOps \subseteq AllAdminOps
    /\ RetryStages \subseteq Stages
    /\ Reapers \subseteq AllReapers
    /\ FaultKinds \subseteq AllFaults
    /\ MaxRequests \in Nat
    /\ MaxFaults \in Nat
    /\ MaxAutoResumes \in Nat
    /\ MaxCopies \in Nat \ {0}

VARIABLES
    run,         \* pipeline_runs.status
    stages,      \* pipeline_runs.stages
    stop,        \* the Redis key pipeline:stop:{run_id}
    queue,       \* Celery messages not yet taken: how many of each
    pc,          \* where each worker and handler is
    snap,        \* the copy of `stages' each of them holds
    job,         \* what each of them works on
    todo,        \* ready stages an advance still has to dispatch
    asleep,      \* auto-resume threads in their 60 s sleep
    autoResumes, \* auto-resume threads started so far
    reaping,     \* cleanups that have selected this run, not yet written
    age,         \* of the run: 0 young, 1 over 30 min, 2 over 60 min
    done,        \* history: stages a worker has recorded as completed
    late,        \* history: stages each process has dispatched under the STOP
                 \* flag of a cancel since it was set
    requests,    \* administrator requests so far
    faults       \* failures so far

row == <<run, stages>>
procVars == <<pc, snap, job, todo>>
timers == <<asleep, autoResumes>>
history == <<done, late>>
bounds == <<requests, faults>>
vars == <<row, stop, queue, procVars, timers, reaping, age, history, bounds>>

Procs == Workers \cup Handlers

Selected == IF SelectedStages = {} THEN Stages ELSE SelectedStages

\* The stages a run must complete to be reported completed.
Required == Selected \ Optional

Message == [stage : Stages, attempt : 0 .. MaxAttempts]

\* What a process works on: the stage, the attempt of its message, the status
\* update_stage_status is to store, and where to go on after storing it.
Job == [stage : Stages, attempt : 0 .. MaxAttempts,
        status : {"pending", "running", "completed", "failed"},
        next : {"idle", "exec", "ended", "advCheck"}]

\* Holding a message, with no update under way.
Holding(m) == [stage |-> m.stage, attempt |-> m.attempt,
               status |-> "pending", next |-> "idle"]

NoJob == Holding([stage |-> "crawl", attempt |-> 0])

\* What snap[p] is when p holds no copy.
NoCopy == InitialStages(SelectedStages)

PC == {"idle", "check", "marking", "exec", "ended", "updRead", "updWrite",
       "advCheck", "advRead", "advWrite", "advMark", "advSend",
       "cancelWrite", "setFlag", "resumeWrite", "resetWrite", "forceWrite"}

\* The steps of advance_pipeline, and of a stage update that leads to it.
Advancing == {"advCheck", "advRead", "advWrite", "advMark", "advSend"}

Init ==
    /\ run = "absent"
    /\ stages = InitialStages(SelectedStages)
    /\ stop = FALSE
    /\ queue = [m \in Message |-> 0]
    /\ pc = [p \in Procs |-> "idle"]
    /\ snap = [p \in Procs |-> NoCopy]
    /\ job = [p \in Procs |-> NoJob]
    /\ todo = [p \in Procs |-> {}]
    /\ asleep = 0
    /\ autoResumes = 0
    /\ reaping = {}
    /\ age = 0
    /\ done = {}
    /\ late = [p \in Procs |-> {}]
    /\ requests = 0
    /\ faults = 0

-----------------------------------------------------------------------------
(***************************************************************************)
(* Steps shared by the processes.                                          *)
(***************************************************************************)

\* Process p moves to `where' and drops its copy, if it holds one.
Goto(p, where) ==
    /\ pc' = [pc EXCEPT ![p] = where]
    /\ snap' = [snap EXCEPT ![p] = NoCopy]
    /\ UNCHANGED <<job, todo>>

\* Process p is finished: its copy and its job are gone, and for a worker the
\* message is acknowledged (acks_late).
Finish(p) ==
    /\ pc' = [pc EXCEPT ![p] = "idle"]
    /\ snap' = [snap EXCEPT ![p] = NoCopy]
    /\ job' = [job EXCEPT ![p] = NoJob]
    /\ todo' = [todo EXCEPT ![p] = {}]

\* SELECT the row and go on with a private copy of the array.
ReadRow(p, where) ==
    /\ pc' = [pc EXCEPT ![p] = where]
    /\ snap' = [snap EXCEPT ![p] = stages]
    /\ UNCHANGED <<job, todo>>

\* Enter update_stage_status to store `status' for stage s.
StartUpdate(p, s, status, next) ==
    /\ pc' = [pc EXCEPT ![p] = "updRead"]
    /\ job' = [job EXCEPT ![p] = [stage |-> s, attempt |-> @.attempt,
                                  status |-> status, next |-> next]]
    /\ UNCHANGED <<snap, todo>>

Send(m) ==
    /\ queue[m] < MaxCopies
    /\ queue' = [queue EXCEPT ![m] = @ + 1]

Held(p) == [stage |-> job[p].stage, attempt |-> job[p].attempt]

Fault(kind) ==
    /\ kind \in FaultKinds
    /\ faults < MaxFaults
    /\ faults' = faults + 1

NoFault == UNCHANGED faults

\* is_run_cancelled, as seen by a caller: a Redis error reads as "not set".
SeesStop == stop /\ NoFault
SeesNoStop ==
    \/ ~stop /\ NoFault
    \/ stop /\ Fault("redis")

-----------------------------------------------------------------------------
(***************************************************************************)
(* update_stage_status and _persist_progress: read-modify-write of the     *)
(* array for one stage.  `done' remembers completions recorded by workers. *)
(***************************************************************************)
UpdateRead(p) ==
    /\ pc[p] = "updRead"
    /\ ReadRow(p, "updWrite")
    /\ UNCHANGED <<row, stop, queue, timers, reaping, age, history, bounds>>

\* Go on where the update was called; the worker still holds its message.
UpdateDone(p) ==
    /\ pc' = [pc EXCEPT ![p] = job[p].next]
    /\ snap' = [snap EXCEPT ![p] = NoCopy]
    /\ job' = [job EXCEPT ![p] = Holding(Held(p))]
    /\ UNCHANGED todo

UpdateWrite(p) ==
    /\ pc[p] = "updWrite"
    /\ stages' = [snap[p] EXCEPT ![job[p].stage] = job[p].status]
    /\ done' = IF job[p].status = "completed"
               THEN done \cup {job[p].stage} ELSE done
    /\ UNCHANGED late
    /\ IF job[p].next = "idle" THEN Finish(p) ELSE UpdateDone(p)
    /\ UNCHANGED <<run, stop, queue, timers, reaping, age, bounds>>

-----------------------------------------------------------------------------
(***************************************************************************)
(* advance_pipeline, run by workers after a stage and by handlers after a  *)
(* trigger, a retry, a resume or a force-advance.  It never looks at       *)
(* run.status.                                                             *)
(***************************************************************************)
AdvanceStopped(p) ==
    /\ pc[p] = "advCheck"
    /\ SeesStop
    /\ Finish(p)
    /\ UNCHANGED <<row, stop, queue, timers, reaping, age, history, requests>>

\* Variant: the STOP flag is not looked at.
AdvanceUnchecked(p) ==
    /\ pc[p] = "advCheck"
    /\ NoFault
    /\ Goto(p, "advRead")
    /\ UNCHANGED <<row, stop, queue, timers, reaping, age, history, requests>>

AdvanceChecked(p) ==
    /\ pc[p] = "advCheck"
    /\ SeesNoStop
    /\ Goto(p, "advRead")
    /\ UNCHANGED <<row, stop, queue, timers, reaping, age, history, requests>>

AdvanceRead(p) ==
    /\ pc[p] = "advRead"
    /\ ReadRow(p, "advWrite")
    /\ UNCHANGED <<row, stop, queue, timers, reaping, age, history, bounds>>

\* Every stage is done after the cascade: the array and, through complete_run,
\* the run status are written in one transaction, whatever the status is now.
\* A failed run that looks recoverable starts an auto-resume thread; the
\* "auto-retried" marker is looked up in the fresh error text, where it never
\* is, so an earlier auto-resume does not prevent the next.
AdvanceComplete(p) ==
    LET c == Cascade(snap[p]) IN
    /\ pc[p] = "advWrite"
    /\ AllDone(c)
    /\ stages' = c
    /\ run' = IF Failed(c) # {} THEN "failed" ELSE "completed"
    /\ IF Recoverable(c) /\ autoResumes < MaxAutoResumes
       THEN /\ asleep' = asleep + 1
            /\ autoResumes' = autoResumes + 1
       ELSE UNCHANGED timers
    /\ Finish(p)
    /\ UNCHANGED <<stop, queue, reaping, age, history, bounds>>

\* Otherwise the whole copy is written back, cascade included, and the ready
\* stages of that copy are to be dispatched.
AdvanceWrite(p) ==
    LET c == Cascade(snap[p]) IN
    /\ pc[p] = "advWrite"
    /\ ~AllDone(c)
    /\ stages' = c
    /\ IF Ready(c) = {}
       THEN Finish(p)
       ELSE /\ pc' = [pc EXCEPT ![p] = "advMark"]
            /\ snap' = [snap EXCEPT ![p] = c]
            /\ todo' = [todo EXCEPT ![p] = Ready(c)]
            /\ UNCHANGED job
    /\ UNCHANGED <<run, stop, queue, timers, reaping, age, history, bounds>>

\* Ready stages are dispatched in the order of the array.
IsNext(s, p) == \A r \in todo[p] : Position[s] <= Position[r]

\* Mark the next ready stage running.  The session still holds the row it read
\* (expire_on_commit=False), so update_stage_status works on the copy of the
\* advance and writes it back whole.
AdvanceMark(p) ==
    /\ pc[p] = "advMark"
    /\ \E s \in todo[p] :
        /\ IsNext(s, p)
        /\ stages' = MarkRunning(snap[p], s)
        /\ snap' = [snap EXCEPT ![p] = MarkRunning(snap[p], s)]
    /\ pc' = [pc EXCEPT ![p] = "advSend"]
    /\ UNCHANGED <<job, todo>>
    /\ UNCHANGED <<run, stop, queue, timers, reaping, age, history, bounds>>

\* execute_pipeline_stage.delay of the stage just marked.
AdvanceSend(p) ==
    /\ pc[p] = "advSend"
    /\ \E s \in todo[p] :
        /\ IsNext(s, p)
        /\ Send([stage |-> s, attempt |-> 0])
        /\ late' = IF stop /\ run = "cancelled"
                   THEN [late EXCEPT ![p] = @ \cup {s}] ELSE late
        /\ IF todo[p] = {s}
           THEN Finish(p)
           ELSE /\ pc' = [pc EXCEPT ![p] = "advMark"]
                /\ todo' = [todo EXCEPT ![p] = @ \ {s}]
                /\ UNCHANGED <<snap, job>>
    /\ UNCHANGED <<row, stop, timers, reaping, age, done, bounds>>

-----------------------------------------------------------------------------
(***************************************************************************)
(* execute_pipeline_stage: a worker takes a message, checks the STOP flag, *)
(* runs the executor, records the outcome and advances the DAG.            *)
(***************************************************************************)
Take(w) ==
    /\ pc[w] = "idle"
    /\ \E m \in Message :
        /\ queue[m] > 0
        /\ queue' = [queue EXCEPT ![m] = @ - 1]
        /\ job' = [job EXCEPT ![w] = Holding(m)]
    /\ pc' = [pc EXCEPT ![w] = "check"]
    /\ UNCHANGED <<row, stop, snap, todo, timers, reaping, age, history, bounds>>

StartStopped(w) ==
    /\ pc[w] = "check"
    /\ SeesStop
    /\ Goto(w, "marking")
    /\ UNCHANGED <<row, stop, queue, timers, reaping, age, history, requests>>

Start(w) ==
    /\ pc[w] = "check"
    /\ SeesNoStop
    /\ Goto(w, "exec")
    /\ UNCHANGED <<row, stop, queue, timers, reaping, age, history, requests>>

\* _mark_stage_cancelled.  It stores the bound method `isoformat' instead of a
\* timestamp, so the commit raises whenever there is a stage to mark, and the
\* caller logs "continuing" and executes the stage; nothing is written.
MarkCancelled(w) ==
    /\ pc[w] = "marking"
    /\ IF stages[job[w].stage] \in {"running", "pending"}
       THEN Goto(w, "exec")
       ELSE Finish(w)
    /\ UNCHANGED <<row, stop, queue, timers, reaping, age, history, bounds>>

\* execute_import writes the status of its own stage into the row while it
\* runs; once it has reported its end it only returns.  A report may also be
\* missing, since its failures are swallowed.
ReportProgress(w) ==
    /\ pc[w] = "exec"
    /\ job[w].stage = "import"
    /\ \/ NoFault /\ StartUpdate(w, "import", "running", "exec")
       \/ NoFault /\ StartUpdate(w, "import", "completed", "ended")
       \/ Fault("error") /\ StartUpdate(w, "import", "failed", "ended")
    /\ UNCHANGED <<row, stop, queue, timers, reaping, age, history, requests>>

\* The executor returned; _mark_stage_completed stores completed, or failed
\* when nothing was processed and there were errors.
ExecutorReturns(w) ==
    /\ pc[w] \in {"exec", "ended"}
    /\ \/ NoFault /\ StartUpdate(w, job[w].stage, "completed", "advCheck")
       \/ Fault("error") /\ StartUpdate(w, job[w].stage, "failed", "advCheck")
    /\ UNCHANGED <<row, stop, queue, timers, reaping, age, history, requests>>

\* The task body raised: retry with the next attempt number, or, when the
\* attempts are used up, record the failure and return without advancing.
RetryOrGiveUp(w) ==
    IF job[w].attempt < MaxAttempts
    THEN /\ Send([stage |-> job[w].stage, attempt |-> job[w].attempt + 1])
         /\ Finish(w)
    ELSE /\ StartUpdate(w, job[w].stage, "failed", "idle")
         /\ UNCHANGED queue

ExecutorRaises(w) ==
    /\ pc[w] \in {"exec", "ended"}
    /\ Fault("error")
    /\ RetryOrGiveUp(w)
    /\ UNCHANGED <<row, stop, timers, reaping, age, history, requests>>

\* A StarMapError, or the hard time limit: the message is acknowledged and
\* nothing is recorded.
TaskLost(w) ==
    /\ pc[w] # "idle"
    /\ Fault("lost")
    /\ Finish(w)
    /\ UNCHANGED <<row, stop, queue, timers, reaping, age, history, requests>>

\* The worker process dies: the broker delivers the message again
\* (acks_late, reject_on_worker_lost).
Crash(w) ==
    /\ pc[w] # "idle"
    /\ Fault("crash")
    /\ Send(Held(w))
    /\ Finish(w)
    /\ UNCHANGED <<row, stop, timers, reaping, age, history, requests>>

\* A database or broker call of an update or an advance raises: the task goes
\* to its retry path; an update that records a final failure or a progress
\* report is given up silently.
WorkerCallRaises(w) ==
    /\ pc[w] \in Advancing \cup {"updRead", "updWrite"}
    /\ Fault("abort")
    /\ \/ /\ pc[w] \in Advancing \/ job[w].next = "advCheck"
          /\ RetryOrGiveUp(w)
       \/ /\ pc[w] \in {"updRead", "updWrite"}
          /\ job[w].next \in {"exec", "ended"}
          /\ UpdateDone(w)
          /\ UNCHANGED queue
       \/ /\ pc[w] \in {"updRead", "updWrite"}
          /\ job[w].next = "idle"
          /\ Finish(w)
          /\ UNCHANGED queue
    /\ UNCHANGED <<row, stop, timers, reaping, age, history, requests>>

-----------------------------------------------------------------------------
(***************************************************************************)
(* Handlers: triggers, administrator requests and auto-resume threads.     *)
(***************************************************************************)

\* trigger_and_start: create_run commits the row, then the DAG is advanced.
Trigger(h) ==
    /\ pc[h] = "idle"
    /\ run = "absent"
    /\ run' = "running"
    /\ stages' = InitialStages(SelectedStages)
    /\ Goto(h, "advCheck")
    /\ UNCHANGED <<stop, queue, timers, reaping, age, history, bounds>>

Request(h, op) ==
    /\ pc[h] = "idle"
    /\ run # "absent"
    /\ op \in AdminOps
    /\ requests < MaxRequests
    /\ requests' = requests + 1
    /\ UNCHANGED <<row, stop, queue, timers, reaping, age, history, faults>>

\* cancel_run: a terminal run is refused (409) on what was read; the commit
\* does not look again.
RequestCancel(h) ==
    /\ Request(h, "cancel")
    /\ run \notin TerminalRun
    /\ ReadRow(h, "cancelWrite")

CancelWrite(h) ==
    /\ pc[h] = "cancelWrite"
    /\ run' = "cancelled"
    /\ stages' = CancelRunning(snap[h])
    /\ Goto(h, "setFlag")
    /\ UNCHANGED <<stop, queue, timers, reaping, age, history, bounds>>

\* The STOP flag follows the commit and is best effort.
CancelSetFlag(h) ==
    /\ pc[h] = "setFlag"
    /\ \/ stop' = TRUE /\ late' = [p \in Procs |-> {}] /\ NoFault
       \/ UNCHANGED <<stop, late>> /\ Fault("redis")
    /\ Finish(h)
    /\ UNCHANGED <<row, queue, timers, reaping, age, done, requests>>

\* retry_stage: any stage, in any state, of a run in any state.
RequestRetry(h) ==
    /\ Request(h, "retry")
    /\ \E s \in RetryStages : StartUpdate(h, s, "pending", "advCheck")

\* resume_run reads the row; with nothing to reset it returns.  Whether a
\* completed import carries the leftover marker in its activity text is not
\* kept, so it is a choice here.
ResumeRead(h) ==
    \E leftover \in BOOLEAN :
        IF Resumable(stages, leftover) = {}
        THEN Finish(h)
        ELSE /\ pc' = [pc EXCEPT ![h] = "resumeWrite"]
             /\ snap' = [snap EXCEPT ![h] = ResetStages(stages, leftover)]
             /\ UNCHANGED <<job, todo>>

RequestResume(h) ==
    /\ Request(h, "resume")
    /\ ResumeRead(h)

\* A sleeping auto-resume thread wakes up and calls resume_run.
AutoResume(h) ==
    /\ pc[h] = "idle"
    /\ asleep > 0
    /\ asleep' = asleep - 1
    /\ ResumeRead(h)
    /\ UNCHANGED <<row, stop, queue, autoResumes, reaping, age, history, bounds>>

ResumeWrite(h) ==
    /\ pc[h] = "resumeWrite"
    /\ run' = "running"
    /\ stages' = snap[h]
    /\ Goto(h, "advCheck")
    /\ UNCHANGED <<stop, queue, timers, reaping, age, history, bounds>>

\* force_advance_pipeline: stuck stages fail, then the DAG is advanced.
RequestForceAdvance(h) ==
    /\ Request(h, "force_advance")
    /\ IF Stuck(stages) = {}
       THEN Goto(h, "advCheck")
       ELSE ReadRow(h, "forceWrite")

ForceAdvanceWrite(h) ==
    /\ pc[h] = "forceWrite"
    /\ stages' = FailStuck(snap[h])
    /\ Goto(h, "advCheck")
    /\ UNCHANGED <<run, stop, queue, timers, reaping, age, history, bounds>>

\* force_reset_pipeline: only a running run, and no STOP flag.
RequestForceReset(h) ==
    /\ Request(h, "force_reset")
    /\ run = "running"
    /\ ReadRow(h, "resetWrite")

ForceResetWrite(h) ==
    /\ pc[h] = "resetWrite"
    /\ run' = "cancelled"
    /\ stages' = CancelUnfinished(snap[h])
    /\ Finish(h)
    /\ UNCHANGED <<stop, queue, timers, reaping, age, history, bounds>>

\* A handler's database or broker call raises (HTTP 500) or its thread dies.
HandlerFails(h) ==
    /\ pc[h] # "idle"
    /\ Fault("abort")
    /\ Finish(h)
    /\ UNCHANGED <<row, stop, queue, timers, reaping, age, history, requests>>

-----------------------------------------------------------------------------
(***************************************************************************)
(* Cleanups.  Each selects running runs by age and then updates the status *)
(* by id.  They also change stage entries, but of the loaded array in      *)
(* place and without flag_modified, which SQLAlchemy does not write.       *)
(*   watchdog: _sweep_orphan_runs_async, started over 60 min ago           *)
(*   zombie:   get_status, over 30 min, and all stages finished or some    *)
(*             stage running for over 30 min (its start time is not kept,  *)
(*             so any running stage may count once the run is that old)    *)
(*   stuck:    trigger_and_start of another run, over 30 min               *)
(***************************************************************************)
\* Variant: the watchdog waits for an age that is never reached.
ReapableTooLate(k) == IF k = "watchdog" THEN age > 2 ELSE age >= 1

Reapable(k) ==
    CASE k = "watchdog" -> age = 2
      [] k = "stuck" -> age >= 1
      [] k = "zombie" ->
            /\ age >= 1
            /\ \/ \A s \in Stages : stages[s] \notin {"pending", "running"}
               \/ \E s \in Stages : stages[s] = "running"

ReapSelect(k) ==
    /\ k \in Reapers \ reaping
    /\ run = "running"
    /\ Reapable(k)
    /\ reaping' = reaping \cup {k}
    /\ UNCHANGED <<row, stop, queue, procVars, timers, age, history, bounds>>

ReapWrite(k) ==
    /\ k \in reaping
    /\ run' = IF k = "watchdog" THEN "failed" ELSE "cancelled"
    /\ reaping' = reaping \ {k}
    /\ UNCHANGED <<stages, stop, queue, procVars, timers, age, history, bounds>>

\* Time passes; the STOP flag lives one hour, so it expires in an old run.
Tick ==
    /\ run # "absent"
    /\ age < 2
    /\ age' = age + 1
    /\ UNCHANGED <<row, stop, queue, procVars, timers, reaping, history, bounds>>

FlagExpires ==
    /\ stop
    /\ age = 2
    /\ stop' = FALSE
    /\ UNCHANGED <<row, queue, procVars, timers, reaping, age, history, bounds>>

-----------------------------------------------------------------------------
AdvanceStep(p) ==
    \/ AdvanceStopped(p) \/ AdvanceChecked(p) \/ AdvanceRead(p)
    \/ AdvanceComplete(p) \/ AdvanceWrite(p) \/ AdvanceMark(p)
    \/ AdvanceSend(p)

UpdateStep(p) == UpdateRead(p) \/ UpdateWrite(p)

\* What a worker does when nothing goes wrong.
WorkerStep(w) ==
    \/ Take(w) \/ StartStopped(w) \/ Start(w) \/ MarkCancelled(w)
    \/ ExecutorReturns(w)

WorkerFault(w) ==
    \/ ExecutorRaises(w) \/ TaskLost(w) \/ Crash(w) \/ WorkerCallRaises(w)

AdminRequest(h) ==
    \/ RequestCancel(h) \/ RequestRetry(h) \/ RequestResume(h)
    \/ RequestForceAdvance(h) \/ RequestForceReset(h)

HandlerStep(h) ==
    \/ CancelWrite(h) \/ CancelSetFlag(h) \/ ResumeWrite(h)
    \/ ForceAdvanceWrite(h) \/ ForceResetWrite(h)

Next ==
    \/ \E p \in Procs : AdvanceStep(p) \/ UpdateStep(p)
    \/ \E w \in Workers : WorkerStep(w) \/ ReportProgress(w) \/ WorkerFault(w)
    \/ \E h \in Handlers :
        \/ Trigger(h) \/ AdminRequest(h) \/ HandlerStep(h)
        \/ AutoResume(h) \/ HandlerFails(h)
    \/ \E k \in AllReapers : ReapSelect(k) \/ ReapWrite(k)
    \/ Tick
    \/ FlagExpires

Spec == Init /\ [][Next]_vars

(***************************************************************************)
(* Fairness.  Celery workers keep taking messages and their code keeps     *)
(* running; an executor ends (the task has a time limit) although import   *)
(* may report progress many times before, hence strong fairness there.     *)
(* API handlers run to their end.  Nothing obliges an administrator to     *)
(* act, a fault to happen or an auto-resume thread to survive its process. *)
(***************************************************************************)
ProcessFairness ==
    /\ \A p \in Procs : WF_vars(AdvanceStep(p) \/ UpdateStep(p))
    /\ \A w \in Workers :
        /\ WF_vars(Take(w) \/ StartStopped(w) \/ Start(w) \/ MarkCancelled(w))
        /\ SF_vars(ExecutorReturns(w))
    /\ \A h \in Handlers : WF_vars(Trigger(h)) /\ WF_vars(HandlerStep(h))

\* Celery beat sweeps every 5 minutes and the cron loop every minute.
WatchdogFairness ==
    /\ WF_vars(Tick)
    /\ WF_vars(ReapSelect("watchdog"))
    /\ WF_vars(ReapWrite("watchdog"))

FairSpec == Spec /\ ProcessFairness

WatchedSpec == Spec /\ ProcessFairness /\ WatchdogFairness

-----------------------------------------------------------------------------
TypeOK ==
    /\ run \in RunStatus
    /\ stages \in Snapshots
    /\ stop \in BOOLEAN
    /\ queue \in [Message -> Nat]
    /\ pc \in [Procs -> PC]
    /\ snap \in [Procs -> Snapshots]
    /\ job \in [Procs -> Job]
    /\ todo \in [Procs -> SUBSET Stages]
    /\ asleep \in Nat
    /\ autoResumes \in Nat
    /\ reaping \subseteq AllReapers
    /\ age \in 0 .. 2
    /\ done \subseteq Stages
    /\ late \in [Procs -> SUBSET Stages]
    /\ requests \in Nat
    /\ faults \in Nat

\* The required stages s directly depends on are all in D.
DepsIn(s, D) == Deps[s] \cap Required \subseteq D

\* A stage is in Celery's hands (queued, or held by a worker) only after every
\* required stage it depends on has completed once, although dispatches are
\* decided on copies of the array that may be stale and later overwrite it.
DispatchSound ==
    /\ \A m \in Message : queue[m] > 0 => DepsIn(m.stage, done)
    /\ \A w \in Workers : pc[w] # "idle" => DepsIn(job[w].stage, done)

\* A run is reported completed only if every required selected stage has
\* completed at least once, whatever retries, resumes, cancels, crashes and
\* lost updates came before (advance_pipeline and complete_run).
CompletedSound == run = "completed" => Required \subseteq done

\* The promise of a run, as an abstract specification.
Contract == INSTANCE RunContract WITH status <- run, completed <- done

\* The promises above hold as a behaviour: every step of the engine is a step
\* of the contract or leaves status and completions alone.
ImplementsContract == Contract!Spec

\* Without interference the run also has the strict life of the contract: it
\* ends once, stages complete only while it runs, and only a failed run is
\* reopened (by an auto-resume).
ImplementsStrictContract == Contract!StrictSpec

InFlight(s) ==
    {m \in Message : m.stage = s /\ queue[m] > 0}
        \cup {w \in Workers : pc[w] # "idle" /\ job[w].stage = s}

\* Nobody has anything left to do for this run.
Quiet ==
    /\ \A m \in Message : queue[m] = 0
    /\ \A p \in Procs : pc[p] = "idle"

\* A settled run agrees with its stages array: completed means every stage is
\* completed or was left out, failed means every stage has ended and one of
\* them failed.
OutcomeMatches ==
    Quiet =>
        /\ run = "completed" =>
            \A s \in Stages : stages[s] \in {"completed", "skipped"}
        /\ run = "failed" => AllDone(stages) /\ Failed(stages) # {}

\* The serial core chain, crawl to graph_sync (docs/reference/glossary.md:38),
\* runs one stage at a time: no stage is queued or executing twice, and no two
\* stages are in Celery's hands together. It is not said of a run that selects
\* timeseries too, or leaves a stage of the chain out: after a failed import
\* timeseries runs and an auto-resume can start both again together, and behind
\* a gap a stage is ready from the start.
OneStageAtATime ==
    /\ \A m \in Message : queue[m] <= 1
    /\ \A x, y \in UNION {InFlight(s) : s \in Stages} : x = y

\* A run that has been created ends by the engine alone, through retries and
\* cascades, with no cleanup needed.
Settles == run = "running" ~> run \in {"completed", "failed"}

\* Whatever is lost, crashed or cancelled, no run stays running: the watchdog
\* takes it away.
NeverRunsForever == run = "running" ~> run # "running"

\* A cancellation stops the chain: what a process still dispatches under its
\* STOP flag was decided by one advance, which had looked before the flag was
\* set, so no process carries the chain on past a stage it dispatched that late.
CancelStopsChain ==
    \A p \in Procs : \A s, t \in late[p] : s \notin Deps[t]

-----------------------------------------------------------------------------
(***************************************************************************)
(* What the repository says of a run and the code does not keep.           *)
(***************************************************************************)

\* execute_pipeline_stage: after the last attempt the stage is marked failed
\* and the DAG is advanced, so a failure never leaves the run standing still.
FailureIsAdvanced == Quiet /\ run = "running" => Failed(stages) = {}

\* execute_pipeline_stage: a stage whose start sees the STOP flag is skipped.
StopSkipsStage ==
    [][\A w \in Workers : pc[w] = "marking" => pc'[w] # "exec"]_vars

=============================================================================

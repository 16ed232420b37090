------------------------- MODULE PipelineRunProofs -------------------------
(***************************************************************************)
(* Proofs about PipelineRun, for every selection of stages, any numbers of *)
(* workers and handlers and every bound.                                   *)
(***************************************************************************)
EXTENDS PipelineRun, TLAPS

(***************************************************************************)
(* What every copy of the stages array satisfies, in the row or in the     *)
(* hands of a process, however stale it is: it calls a stage completed     *)
(* only if the stage has completed, and never calls a required stage       *)
(* skipped.  Completions are never taken back, so a copy stays sound while *)
(* others write.                                                           *)
(***************************************************************************)
SoundCopy(c, D) ==
    \A s \in Stages : /\ c[s] = "completed" => s \in D
                      /\ s \in Required => c[s] # "skipped"

\* The row.
RowOK ==
    /\ run \in RunStatus
    /\ stages \in Snapshots
    /\ done \subseteq Stages
    /\ SoundCopy(stages, done)
    /\ run = "completed" => Required \subseteq done

\* The queue holds only messages of stages whose dependencies completed.
QueueOK ==
    /\ queue \in [Message -> Nat]
    /\ \A m \in Message : queue[m] > 0 => DepsIn(m.stage, done)

\* The processes: their copies are sound, what an advance is about to dispatch
\* and what a worker holds had its dependencies completed, and a handler never
\* records a completion.
ProcsOK ==
    /\ pc \in [Procs -> PC]
    /\ snap \in [Procs -> Snapshots]
    /\ job \in [Procs -> Job]
    /\ todo \in [Procs -> SUBSET Stages]
    /\ \A p \in Procs : SoundCopy(snap[p], done)
    /\ \A p \in Procs : \A s \in todo[p] : DepsIn(s, done)
    /\ \A w \in Workers : pc[w] # "idle" => DepsIn(job[w].stage, done)
    /\ \A h \in Handlers : job[h].status # "completed"

\* Flags, counters and clocks.
RestOK ==
    /\ stop \in BOOLEAN
    /\ asleep \in Nat
    /\ autoResumes \in Nat
    /\ reaping \subseteq AllReapers
    /\ age \in 0 .. 2
    /\ late \in [Procs -> SUBSET Stages]
    /\ requests \in Nat
    /\ faults \in Nat

IInv == RowOK /\ QueueOK /\ ProcsOK /\ RestOK

\* Before the run is created nothing is going on.
AbsentIdle ==
    run = "absent" =>
        /\ \A p \in Procs : pc[p] = "idle"
        /\ \A m \in Message : queue[m] = 0
        /\ asleep = 0
        /\ reaping = {}
        /\ age = 0

-----------------------------------------------------------------------------
(***************************************************************************)
(* The functions of StageGraph keep arrays well formed and sound.          *)
(***************************************************************************)
LEMMA DepsType == ASSUME NEW s \in Stages PROVE Deps[s] \subseteq Stages
  BY DEF Deps, Stages

LEMMA RequiredType == Required \subseteq Stages \ Optional
  BY ConstantsAssumption DEF Required, Selected

\* The array create_run stores.
LEMMA InitialSound ==
  ASSUME NEW D
  PROVE  /\ NoCopy \in Snapshots
         /\ SoundCopy(NoCopy, D)
  BY DEF NoCopy, InitialStages, Snapshots, StageStatus, SoundCopy, Required,
         Selected

\* The pass of advance_pipeline completes nothing and skips only optional
\* stages.
LEMMA CascadeSound ==
  ASSUME NEW c \in Snapshots, NEW D, SoundCopy(c, D)
  PROVE  /\ Cascade(c) \in Snapshots
         /\ SoundCopy(Cascade(c), D)
<1>1. Cascade(c) \in Snapshots
  BY DEF Cascade, Snapshots, StageStatus
<1>2. ASSUME NEW s \in Stages
      PROVE  /\ Cascade(c)[s] = "completed" => s \in D
             /\ s \in Required => Cascade(c)[s] # "skipped"
  BY <1>2, RequiredType DEF Cascade, SoundCopy
<1>3. QED
  BY <1>1, <1>2 DEF SoundCopy

LEMMA MarkRunningSound ==
  ASSUME NEW c \in Snapshots, NEW D, SoundCopy(c, D), NEW s \in Stages
  PROVE  /\ MarkRunning(c, s) \in Snapshots
         /\ SoundCopy(MarkRunning(c, s), D)
  BY DEF MarkRunning, Snapshots, StageStatus, SoundCopy

LEMMA CancelSound ==
  ASSUME NEW c \in Snapshots, NEW D, SoundCopy(c, D)
  PROVE  /\ CancelRunning(c) \in Snapshots
         /\ SoundCopy(CancelRunning(c), D)
         /\ CancelUnfinished(c) \in Snapshots
         /\ SoundCopy(CancelUnfinished(c), D)
  BY DEF CancelRunning, CancelUnfinished, Snapshots, StageStatus, SoundCopy

LEMMA FailStuckSound ==
  ASSUME NEW c \in Snapshots, NEW D, SoundCopy(c, D)
  PROVE  /\ FailStuck(c) \in Snapshots
         /\ SoundCopy(FailStuck(c), D)
  BY DEF FailStuck, Stuck, Snapshots, StageStatus, SoundCopy

LEMMA ResetSound ==
  ASSUME NEW c \in Snapshots, NEW D, SoundCopy(c, D), NEW leftover \in BOOLEAN
  PROVE  /\ ResetStages(c, leftover) \in Snapshots
         /\ SoundCopy(ResetStages(c, leftover), D)
  BY DEF ResetStages, Snapshots, StageStatus, SoundCopy

\* update_stage_status on a sound copy, with the completion it may record.
LEMMA UpdateSound ==
  ASSUME NEW c \in Snapshots, NEW D, NEW E, SoundCopy(c, D), D \subseteq E,
         NEW s \in Stages, NEW status \in StageStatus \ {"skipped"},
         status = "completed" => s \in E
  PROVE  /\ [c EXCEPT ![s] = status] \in Snapshots
         /\ SoundCopy([c EXCEPT ![s] = status], E)
  BY DEF Snapshots, SoundCopy

\* get_ready_stages on a sound copy: the required dependencies completed.
LEMMA ReadySound ==
  ASSUME NEW c \in Snapshots, NEW D, SoundCopy(c, D), NEW s \in Ready(c)
  PROVE  /\ s \in Stages
         /\ DepsIn(s, D)
<1>1. s \in Stages /\ \A d \in Deps[s] : c[d] \in {"completed", "skipped"}
  BY DEF Ready
<1>2. ASSUME NEW d \in Deps[s] \cap Required
      PROVE  d \in D
  <2>1. d \in Stages /\ c[d] # "skipped"
    BY <1>1, DepsType DEF SoundCopy
  <2>2. QED
    BY <1>1, <2>1 DEF SoundCopy
<1>3. QED
  BY <1>1, <1>2 DEF DepsIn

\* all_stages_done without a failure: every required stage completed.
LEMMA AllDoneSound ==
  ASSUME NEW c \in Snapshots, NEW D, SoundCopy(c, D), AllDone(c), Failed(c) = {}
  PROVE  Required \subseteq D
<1>1. ASSUME NEW s \in Required
      PROVE  s \in D
  BY <1>1, RequiredType DEF AllDone, Failed, SoundCopy
<1>2. QED
  BY <1>1

\* A copy stays sound while completions are recorded.
LEMMA SoundGrows ==
  ASSUME NEW c, NEW D, NEW E, SoundCopy(c, D), D \subseteq E
  PROVE  SoundCopy(c, E)
  BY DEF SoundCopy

-----------------------------------------------------------------------------
LEMMA HoldingType ==
  ASSUME NEW m \in Message
  PROVE  /\ Holding(m) \in Job
         /\ Holding(m).stage = m.stage
         /\ Holding(m).status = "pending"
  BY DEF Holding, Message, Job

LEMMA NoJobType == NoJob \in Job /\ NoJob.status = "pending"
  BY ConstantsAssumption DEF NoJob, Holding, Job, Stages

LEMMA DepsGrow ==
  ASSUME NEW s, NEW D, NEW E, DepsIn(s, D), D \subseteq E
  PROVE  DepsIn(s, E)
  BY DEF DepsIn

(***************************************************************************)
(* The steps shared by the processes.  One step of process p leaves the    *)
(* others alone; a worker that goes on must have a stage in hand whose     *)
(* dependencies completed.                                                 *)
(***************************************************************************)
LEMMA MoveOK ==
  ASSUME ProcsOK, NEW p \in Procs, done \subseteq done',
         NEW where \in PC, NEW c \in Snapshots, NEW j \in Job,
         NEW t \in SUBSET Stages,
         pc' = [pc EXCEPT ![p] = where], snap' = [snap EXCEPT ![p] = c],
         job' = [job EXCEPT ![p] = j], todo' = [todo EXCEPT ![p] = t],
         SoundCopy(c, done'), \A s \in t : DepsIn(s, done'),
         p \in Workers /\ where # "idle" => DepsIn(j.stage, done'),
         p \in Handlers => j.status # "completed"
  PROVE  ProcsOK'
<1>1. /\ pc' \in [Procs -> PC]
      /\ snap' \in [Procs -> Snapshots]
      /\ job' \in [Procs -> Job]
      /\ todo' \in [Procs -> SUBSET Stages]
  BY DEF ProcsOK
<1>2. ASSUME NEW q \in Procs PROVE SoundCopy(snap'[q], done')
  BY <1>2, SoundGrows DEF ProcsOK
<1>3. ASSUME NEW q \in Procs, NEW s \in todo'[q] PROVE DepsIn(s, done')
  BY <1>3, DepsGrow DEF ProcsOK
<1>4. ASSUME NEW w \in Workers, pc'[w] # "idle" PROVE DepsIn(job'[w].stage, done')
  BY <1>4, DepsGrow DEF ProcsOK, Procs
<1>5. ASSUME NEW h \in Handlers PROVE job'[h].status # "completed"
  BY <1>5 DEF ProcsOK, Procs
<1>6. QED
  BY <1>1, <1>2, <1>3, <1>4, <1>5 DEF ProcsOK

LEMMA FinishOK ==
  ASSUME ProcsOK, NEW p \in Procs, Finish(p), done \subseteq done'
  PROVE  ProcsOK'
<1>1. "idle" \in PC /\ {} \in SUBSET Stages
  BY DEF PC
<1>2. QED
  BY <1>1, MoveOK, NoJobType, InitialSound DEF Finish

LEMMA GotoOK ==
  ASSUME ProcsOK, NEW p \in Procs, NEW where \in PC, Goto(p, where),
         p \in Workers => pc[p] # "idle", done' = done
  PROVE  ProcsOK'
<1>1. job[p] \in Job /\ todo[p] \in SUBSET Stages
  BY DEF ProcsOK
<1>2. job' = [job EXCEPT ![p] = job[p]] /\ todo' = [todo EXCEPT ![p] = todo[p]]
  BY DEF ProcsOK, Goto
<1>3. \A s \in todo[p] : DepsIn(s, done')
  BY DepsGrow DEF ProcsOK
<1>4. p \in Workers => DepsIn(job[p].stage, done')
  BY DEF ProcsOK
<1>5. QED
  BY <1>1, <1>2, <1>3, <1>4, MoveOK, InitialSound DEF Goto, ProcsOK

LEMMA HoldOK ==
  ASSUME ProcsOK, NEW p \in Procs, NEW where \in PC, NEW c \in Snapshots,
         pc' = [pc EXCEPT ![p] = where], snap' = [snap EXCEPT ![p] = c],
         UNCHANGED <<job, todo>>, SoundCopy(c, done),
         p \in Workers => pc[p] # "idle", done' = done
  PROVE  ProcsOK'
<1>1. job[p] \in Job /\ todo[p] \in SUBSET Stages
  BY DEF ProcsOK
<1>2. job' = [job EXCEPT ![p] = job[p]] /\ todo' = [todo EXCEPT ![p] = todo[p]]
  BY DEF ProcsOK
<1>3. \A s \in todo[p] : DepsIn(s, done')
  BY DepsGrow DEF ProcsOK
<1>4. p \in Workers => DepsIn(job[p].stage, done')
  BY DEF ProcsOK
<1>5. QED
  BY <1>1, <1>2, <1>3, <1>4, MoveOK DEF ProcsOK

LEMMA ReadRowOK ==
  ASSUME ProcsOK, RowOK, NEW p \in Procs, NEW where \in PC,
         ReadRow(p, where), p \in Workers => pc[p] # "idle", done' = done
  PROVE  ProcsOK'
  BY HoldOK DEF ReadRow, RowOK

\* A worker updates the stage it holds; a handler only resets.
LEMMA StartUpdateOK ==
  ASSUME ProcsOK, NEW p \in Procs, NEW s \in Stages,
         NEW status \in {"pending", "running", "completed", "failed"},
         NEW next \in {"idle", "exec", "ended", "advCheck"},
         StartUpdate(p, s, status, next),
         p \in Workers => pc[p] # "idle" /\ s = job[p].stage,
         p \in Handlers => status # "completed", done' = done
  PROVE  ProcsOK'
<1> DEFINE j == [stage |-> s, attempt |-> job[p].attempt,
                 status |-> status, next |-> next]
<1>1. /\ j \in Job
      /\ j.stage = s
      /\ j.status = status
  BY DEF ProcsOK, Job
<1>2. job' = [job EXCEPT ![p] = j]
  BY DEF ProcsOK, StartUpdate
<1>3. /\ snap' = [snap EXCEPT ![p] = snap[p]]
      /\ todo' = [todo EXCEPT ![p] = todo[p]]
      /\ pc' = [pc EXCEPT ![p] = "updRead"]
      /\ snap[p] \in Snapshots
      /\ todo[p] \in SUBSET Stages
      /\ "updRead" \in PC
  BY DEF ProcsOK, StartUpdate, PC
<1>4. SoundCopy(snap[p], done') /\ \A r \in todo[p] : DepsIn(r, done')
  BY DepsGrow DEF ProcsOK
<1>5. p \in Workers => DepsIn(j.stage, done')
  BY <1>1, DepsGrow DEF ProcsOK
<1> HIDE DEF j
<1>6. QED
  BY <1>1, <1>2, <1>3, <1>4, <1>5, MoveOK

LEMMA UpdateDoneOK ==
  ASSUME ProcsOK, NEW p \in Procs, UpdateDone(p), p \in Workers => pc[p] # "idle",
         done \subseteq done'
  PROVE  ProcsOK'
<1> DEFINE j == Holding(Held(p))
<1>1. /\ j \in Job
      /\ j.stage = job[p].stage
      /\ j.status = "pending"
      /\ job[p].next \in PC
  <2>1. Held(p) \in Message /\ Held(p).stage = job[p].stage
    BY DEF ProcsOK, Job, Held, Message
  <2>2. job[p].next \in PC
    BY DEF ProcsOK, Job, PC
  <2>3. QED
    BY <2>1, <2>2, HoldingType
<1>2. job' = [job EXCEPT ![p] = j]
  BY DEF ProcsOK, UpdateDone
<1>3. /\ todo' = [todo EXCEPT ![p] = todo[p]]
      /\ todo[p] \in SUBSET Stages
      /\ pc' = [pc EXCEPT ![p] = job[p].next]
      /\ snap' = [snap EXCEPT ![p] = NoCopy]
  BY DEF ProcsOK, UpdateDone
<1>4. \A r \in todo[p] : DepsIn(r, done')
  BY DepsGrow DEF ProcsOK
<1>5. p \in Workers => DepsIn(j.stage, done')
  BY <1>1, DepsGrow DEF ProcsOK
<1> HIDE DEF j
<1>6. QED
  BY <1>1, <1>2, <1>3, <1>4, <1>5, InitialSound, MoveOK

LEMMA SendOK ==
  ASSUME QueueOK, NEW m \in Message, DepsIn(m.stage, done), Send(m), done' = done
  PROVE  QueueOK'
  BY DEF QueueOK, Send

LEMMA RetryOrGiveUpOK ==
  ASSUME QueueOK, ProcsOK, NEW w \in Workers, RetryOrGiveUp(w), pc[w] # "idle",
         done' = done
  PROVE  QueueOK' /\ ProcsOK'
<1>1. /\ w \in Procs
      /\ w \notin Handlers
      /\ job[w].stage \in Stages
      /\ job[w].attempt \in 0 .. MaxAttempts
      /\ DepsIn(job[w].stage, done)
  BY ConstantsAssumption DEF ProcsOK, Procs, Job
<1>2. CASE job[w].attempt < MaxAttempts
  <2> DEFINE m == [stage |-> job[w].stage, attempt |-> job[w].attempt + 1]
  <2>1. m \in Message /\ m.stage = job[w].stage
    BY <1>1, <1>2, ConstantsAssumption DEF Message
  <2>2. Send(m) /\ Finish(w)
    BY <1>2 DEF RetryOrGiveUp
  <2> HIDE DEF m
  <2>3. QED
    BY <1>1, <2>1, <2>2, SendOK, FinishOK
<1>3. CASE ~(job[w].attempt < MaxAttempts)
  BY <1>1, <1>3, StartUpdateOK DEF RetryOrGiveUp, QueueOK
<1>4. QED
  BY <1>2, <1>3

LEMMA ResumeReadOK ==
  ASSUME RowOK, ProcsOK, NEW h \in Handlers, ResumeRead(h), done' = done
  PROVE  ProcsOK'
<1>1. h \in Procs /\ h \notin Workers /\ "resumeWrite" \in PC
  BY ConstantsAssumption DEF Procs, PC
<1>2. PICK leftover \in BOOLEAN :
        \/ Finish(h)
        \/ /\ pc' = [pc EXCEPT ![h] = "resumeWrite"]
           /\ snap' = [snap EXCEPT ![h] = ResetStages(stages, leftover)]
           /\ UNCHANGED <<job, todo>>
  BY DEF ResumeRead
<1>3. /\ ResetStages(stages, leftover) \in Snapshots
      /\ SoundCopy(ResetStages(stages, leftover), done)
  BY ResetSound DEF RowOK
<1>4. QED
  BY <1>1, <1>2, <1>3, FinishOK, HoldOK

(***************************************************************************)
(* Every action preserves the invariant: first what workers and handlers   *)
(* share, then the workers, the handlers and the rest.                     *)
(***************************************************************************)
LEMMA AdvanceOK ==
  ASSUME IInv, NEW p \in Procs, AdvanceStep(p)
  PROVE  IInv'
<1> USE DEF IInv
<1>p. Cascade(snap[p]) \in Snapshots /\ SoundCopy(Cascade(snap[p]), done)
  BY CascadeSound DEF ProcsOK
<1>1. CASE AdvanceStopped(p)
  <2>1. ProcsOK'
    BY <1>1, FinishOK DEF AdvanceStopped, history
  <2>2. QED
    BY <1>1, <2>1 DEF AdvanceStopped, SeesStop, NoFault, row, timers, history,
                      RowOK, QueueOK, RestOK
<1>2. CASE AdvanceChecked(p)
  <2>1. ProcsOK'
    BY <1>2, GotoOK DEF AdvanceChecked, history, PC
  <2>2. QED
    BY <1>2, <2>1 DEF AdvanceChecked, SeesNoStop, NoFault, Fault, row, timers,
                      history, RowOK, QueueOK, RestOK
<1>3. CASE AdvanceRead(p)
  <2>1. ProcsOK'
    BY <1>3, ReadRowOK DEF AdvanceRead, history, PC
  <2>2. QED
    BY <1>3, <2>1 DEF AdvanceRead, row, timers, history, bounds, RowOK,
                      QueueOK, RestOK
<1>4. CASE AdvanceComplete(p)
  <2>1. ProcsOK'
    BY <1>4, FinishOK DEF AdvanceComplete, history
  <2>2. run' = "completed" => Required \subseteq done
    BY <1>4, <1>p, AllDoneSound DEF AdvanceComplete
  <2>3. RowOK'
    BY <1>4, <1>p, <2>2 DEF AdvanceComplete, history, RowOK, RunStatus
  <2>4. QED
    BY <1>4, <2>1, <2>3 DEF AdvanceComplete, timers, history, bounds, QueueOK,
                            RestOK
<1>5. CASE AdvanceWrite(p)
  <2>1. RowOK'
    BY <1>5, <1>p DEF AdvanceWrite, history, RowOK
  <2>2. ASSUME Ready(Cascade(snap[p])) = {} PROVE ProcsOK'
    BY <1>5, <2>2, FinishOK DEF AdvanceWrite, history
  <2>3. ASSUME Ready(Cascade(snap[p])) # {} PROVE ProcsOK'
    <3>1. /\ Ready(Cascade(snap[p])) \in SUBSET Stages
          /\ \A s \in Ready(Cascade(snap[p])) : DepsIn(s, done)
      BY <1>p, ReadySound
    <3>2. /\ job' = [job EXCEPT ![p] = job[p]]
          /\ job[p] \in Job
          /\ "advMark" \in PC
          /\ p \in Workers => pc[p] # "idle" /\ DepsIn(job[p].stage, done)
          /\ p \in Handlers => job[p].status # "completed"
      BY <1>5, <2>3 DEF AdvanceWrite, ProcsOK, PC
    <3>3. QED
      BY <1>5, <2>3, <1>p, <3>1, <3>2, MoveOK DEF AdvanceWrite, history
  <2>4. QED
    BY <1>5, <2>1, <2>2, <2>3 DEF AdvanceWrite, timers, history, bounds,
                                  QueueOK, RestOK
<1>6. CASE AdvanceMark(p)
  <2>1. PICK s \in todo[p] :
          /\ stages' = MarkRunning(snap[p], s)
          /\ snap' = [snap EXCEPT ![p] = MarkRunning(snap[p], s)]
    BY <1>6 DEF AdvanceMark
  <2>2. /\ MarkRunning(snap[p], s) \in Snapshots
        /\ SoundCopy(MarkRunning(snap[p], s), done)
    BY MarkRunningSound DEF ProcsOK
  <2>3. ProcsOK'
    BY <1>6, <2>1, <2>2, HoldOK DEF AdvanceMark, history, PC
  <2>4. QED
    BY <1>6, <2>1, <2>2, <2>3 DEF AdvanceMark, timers, history, bounds, RowOK,
                                  QueueOK, RestOK
<1>7. CASE AdvanceSend(p)
  <2>1. PICK s \in todo[p] :
          /\ Send([stage |-> s, attempt |-> 0])
          /\ late' = IF stop /\ run = "cancelled"
                     THEN [late EXCEPT ![p] = @ \cup {s}] ELSE late
          /\ IF todo[p] = {s}
             THEN Finish(p)
             ELSE /\ pc' = [pc EXCEPT ![p] = "advMark"]
                  /\ todo' = [todo EXCEPT ![p] = @ \ {s}]
                  /\ UNCHANGED <<snap, job>>
    BY <1>7 DEF AdvanceSend
  <2>2. s \in Stages /\ DepsIn(s, done) /\ done' = done
    BY <1>7 DEF ProcsOK, AdvanceSend
  <2>3. QueueOK'
    <3> DEFINE m == [stage |-> s, attempt |-> 0]
    <3>1. m \in Message /\ m.stage = s
      BY <2>2, ConstantsAssumption DEF Message
    <3>2. Send(m)
      BY <2>1
    <3> HIDE DEF m
    <3>3. QED
      BY <2>2, <3>1, <3>2, SendOK
  <2>4. ASSUME todo[p] = {s} PROVE ProcsOK'
    BY <2>1, <2>2, <2>4, FinishOK
  <2>5. ASSUME todo[p] # {s} PROVE ProcsOK'
    <3>1. /\ snap' = [snap EXCEPT ![p] = snap[p]]
          /\ job' = [job EXCEPT ![p] = job[p]]
          /\ pc' = [pc EXCEPT ![p] = "advMark"]
          /\ todo' = [todo EXCEPT ![p] = todo[p] \ {s}]
      BY <2>1, <2>5 DEF ProcsOK
    <3>2. /\ "advMark" \in PC
          /\ snap[p] \in Snapshots /\ SoundCopy(snap[p], done)
          /\ job[p] \in Job
          /\ todo[p] \ {s} \in SUBSET Stages
          /\ \A r \in todo[p] \ {s} : DepsIn(r, done)
          /\ p \in Workers => DepsIn(job[p].stage, done)
          /\ p \in Handlers => job[p].status # "completed"
      BY <1>7 DEF ProcsOK, PC, AdvanceSend
    <3>3. QED
      BY <2>2, <3>1, <3>2, MoveOK
  <2>6. late' \in [Procs -> SUBSET Stages]
    BY <2>1, <2>2 DEF RestOK
  <2>7. QED
    BY <1>7, <2>2, <2>3, <2>4, <2>5, <2>6 DEF AdvanceSend, row, timers, bounds,
                                              RowOK, RestOK
<1>8. QED
  BY <1>1, <1>2, <1>3, <1>4, <1>5, <1>6, <1>7 DEF AdvanceStep

LEMMA UpdateOK ==
  ASSUME IInv, NEW p \in Procs, UpdateStep(p)
  PROVE  IInv'
<1> USE DEF IInv
<1>1. CASE UpdateRead(p)
  <2>1. ProcsOK'
    BY <1>1, ReadRowOK DEF UpdateRead, history, PC
  <2>2. QED
    BY <1>1, <2>1 DEF UpdateRead, row, timers, history, bounds, RowOK,
                      QueueOK, RestOK
<1>2. CASE UpdateWrite(p)
  <2>1. /\ job[p].stage \in Stages
        /\ job[p].status \in StageStatus \ {"skipped"}
        /\ p \in Workers => pc[p] # "idle"
    BY <1>2 DEF ProcsOK, Job, StageStatus, UpdateWrite
  <2>2. /\ done \subseteq done'
        /\ done' \subseteq Stages
        /\ job[p].status = "completed" => job[p].stage \in done'
    BY <1>2, <2>1 DEF UpdateWrite, RowOK
  <2>3. stages' \in Snapshots /\ SoundCopy(stages', done')
    BY <1>2, <2>1, <2>2, UpdateSound DEF UpdateWrite, ProcsOK
  <2>4. RowOK'
    BY <1>2, <2>2, <2>3 DEF UpdateWrite, RowOK
  <2>5. QueueOK'
    BY <1>2, <2>2, DepsGrow DEF UpdateWrite, QueueOK
  <2>6. ProcsOK'
    BY <1>2, <2>1, <2>2, FinishOK, UpdateDoneOK DEF UpdateWrite
  <2>7. QED
    BY <1>2, <2>4, <2>5, <2>6 DEF UpdateWrite, timers, bounds, RestOK
<1>3. QED
  BY <1>1, <1>2 DEF UpdateStep

LEMMA WorkerOK ==
  ASSUME IInv, NEW w \in Workers,
         WorkerStep(w) \/ ReportProgress(w) \/ WorkerFault(w)
  PROVE  IInv'
<1> USE DEF IInv
<1>w. w \in Procs /\ w \notin Handlers
  BY ConstantsAssumption DEF Procs
<1>1. CASE Take(w)
  <2>1. PICK m \in Message :
          /\ queue[m] > 0
          /\ queue' = [queue EXCEPT ![m] = @ - 1]
          /\ job' = [job EXCEPT ![w] = Holding(m)]
    BY <1>1 DEF Take
  <2>2. QueueOK'
    BY <1>1, <2>1 DEF Take, QueueOK, history
  <2>3. /\ pc' = [pc EXCEPT ![w] = "check"]
        /\ snap' = [snap EXCEPT ![w] = snap[w]]
        /\ todo' = [todo EXCEPT ![w] = todo[w]]
        /\ done' = done
        /\ "check" \in PC
        /\ snap[w] \in Snapshots /\ SoundCopy(snap[w], done)
        /\ todo[w] \in SUBSET Stages
        /\ \A s \in todo[w] : DepsIn(s, done)
    BY <1>1, <1>w DEF Take, history, ProcsOK, PC
  <2>4. DepsIn(m.stage, done)
    BY <2>1 DEF QueueOK
  <2>5. ProcsOK'
    BY <1>w, <2>1, <2>3, <2>4, HoldingType, MoveOK
  <2>6. QED
    BY <1>1, <2>2, <2>5 DEF Take, row, timers, history, bounds, RowOK, RestOK
<1>2. CASE StartStopped(w)
  <2>1. ProcsOK'
    BY <1>2, <1>w, GotoOK DEF StartStopped, history, PC
  <2>2. QED
    BY <1>2, <2>1 DEF StartStopped, SeesStop, NoFault, row, timers, history,
                      RowOK, QueueOK, RestOK
<1>3. CASE Start(w)
  <2>1. ProcsOK'
    BY <1>3, <1>w, GotoOK DEF Start, history, PC
  <2>2. QED
    BY <1>3, <2>1 DEF Start, SeesNoStop, NoFault, Fault, row, timers, history,
                      RowOK, QueueOK, RestOK
<1>4. CASE MarkCancelled(w)
  <2>1. ProcsOK'
    BY <1>4, <1>w, GotoOK, FinishOK DEF MarkCancelled, history, PC
  <2>2. QED
    BY <1>4, <2>1 DEF MarkCancelled, row, timers, history, bounds, RowOK,
                      QueueOK, RestOK
<1>5. CASE ExecutorReturns(w)
  <2>1. ProcsOK'
    BY <1>5, <1>w, StartUpdateOK DEF ExecutorReturns, history, ProcsOK, Job
  <2>2. QED
    BY <1>5, <2>1 DEF ExecutorReturns, NoFault, Fault, row, timers, history,
                      RowOK, QueueOK, RestOK
<1>6. CASE ReportProgress(w)
  <2>1. ProcsOK'
    BY <1>6, <1>w, StartUpdateOK DEF ReportProgress, history, Stages
  <2>2. QED
    BY <1>6, <2>1 DEF ReportProgress, NoFault, Fault, row, timers, history,
                      RowOK, QueueOK, RestOK
<1>7. CASE ExecutorRaises(w)
  <2>1. QueueOK' /\ ProcsOK'
    BY <1>7, RetryOrGiveUpOK DEF ExecutorRaises, history
  <2>2. QED
    BY <1>7, <2>1 DEF ExecutorRaises, Fault, row, timers, history, RowOK, RestOK
<1>8. CASE TaskLost(w)
  <2>1. ProcsOK'
    BY <1>8, <1>w, FinishOK DEF TaskLost, history
  <2>2. QED
    BY <1>8, <2>1 DEF TaskLost, Fault, row, timers, history, RowOK, QueueOK,
                      RestOK
<1>9. CASE Crash(w)
  <2>1. ProcsOK'
    BY <1>9, <1>w, FinishOK DEF Crash, history
  <2>2. Held(w) \in Message /\ DepsIn(Held(w).stage, done)
    BY <1>9, <1>w DEF Crash, ProcsOK, Held, Message, Job
  <2>3. QueueOK'
    BY <1>9, <2>2, SendOK DEF Crash, history
  <2>4. QED
    BY <1>9, <2>1, <2>3 DEF Crash, Fault, row, timers, history, RowOK, RestOK
<1>10. CASE WorkerCallRaises(w)
  <2>1. pc[w] # "idle" /\ done' = done
    BY <1>10 DEF WorkerCallRaises, Advancing, history
  <2>2. CASE RetryOrGiveUp(w)
    <3>1. QueueOK' /\ ProcsOK'
      BY <2>1, <2>2, RetryOrGiveUpOK
    <3>2. QED
      BY <1>10, <3>1 DEF WorkerCallRaises, Fault, row, timers, history, RowOK,
                         RestOK
  <2>3. CASE (UpdateDone(w) \/ Finish(w)) /\ UNCHANGED queue
    <3>1. ProcsOK'
      BY <1>w, <2>1, <2>3, UpdateDoneOK, FinishOK
    <3>2. QED
      BY <1>10, <2>3, <3>1 DEF WorkerCallRaises, Fault, row, timers, history,
                               RowOK, QueueOK, RestOK
  <2>4. QED
    BY <1>10, <2>2, <2>3 DEF WorkerCallRaises
<1>11. QED
  BY <1>1, <1>2, <1>3, <1>4, <1>5, <1>6, <1>7, <1>8, <1>9, <1>10
  DEF WorkerStep, WorkerFault

LEMMA HandlerOK ==
  ASSUME IInv, NEW h \in Handlers, HandlerStep(h) \/ Trigger(h) \/ HandlerFails(h)
  PROVE  IInv'
<1> USE DEF IInv
<1>h. h \in Procs /\ h \notin Workers
  BY ConstantsAssumption DEF Procs
<1>c. /\ CancelRunning(snap[h]) \in Snapshots
      /\ SoundCopy(CancelRunning(snap[h]), done)
      /\ CancelUnfinished(snap[h]) \in Snapshots
      /\ SoundCopy(CancelUnfinished(snap[h]), done)
      /\ FailStuck(snap[h]) \in Snapshots
      /\ SoundCopy(FailStuck(snap[h]), done)
      /\ snap[h] \in Snapshots
      /\ SoundCopy(snap[h], done)
  BY <1>h, CancelSound, FailStuckSound DEF ProcsOK
<1>1. CASE CancelWrite(h)
  <2>1. ProcsOK'
    BY <1>1, <1>h, GotoOK DEF CancelWrite, history, PC
  <2>2. QED
    BY <1>1, <1>c, <2>1 DEF CancelWrite, timers, history, bounds, RowOK,
                            RunStatus, QueueOK, RestOK
<1>2. CASE CancelSetFlag(h)
  <2>1. ProcsOK'
    BY <1>2, <1>h, FinishOK DEF CancelSetFlag, history
  <2>2. stop' \in BOOLEAN
    BY <1>2, Zenon DEF CancelSetFlag, RestOK
  <2>3. QED
    BY <1>2, <2>1, <2>2 DEF CancelSetFlag, NoFault, Fault, row, timers, history,
                            RowOK, QueueOK, RestOK
<1>3. CASE ResumeWrite(h)
  <2>1. ProcsOK'
    BY <1>3, <1>h, GotoOK DEF ResumeWrite, history, PC
  <2>2. QED
    BY <1>3, <1>c, <2>1 DEF ResumeWrite, timers, history, bounds, RowOK,
                            RunStatus, QueueOK, RestOK
<1>4. CASE ForceAdvanceWrite(h)
  <2>1. ProcsOK'
    BY <1>4, <1>h, GotoOK DEF ForceAdvanceWrite, history, PC
  <2>2. QED
    BY <1>4, <1>c, <2>1 DEF ForceAdvanceWrite, timers, history, bounds, RowOK,
                            QueueOK, RestOK
<1>5. CASE ForceResetWrite(h)
  <2>1. ProcsOK'
    BY <1>5, <1>h, FinishOK DEF ForceResetWrite, history
  <2>2. QED
    BY <1>5, <1>c, <2>1 DEF ForceResetWrite, timers, history, bounds, RowOK,
                            RunStatus, QueueOK, RestOK
<1>6. CASE Trigger(h)
  <2>1. ProcsOK'
    BY <1>6, <1>h, GotoOK DEF Trigger, history, PC
  <2>2. stages' \in Snapshots /\ SoundCopy(stages', done)
    BY <1>6, InitialSound DEF Trigger, NoCopy
  <2>3. QED
    BY <1>6, <2>1, <2>2 DEF Trigger, timers, history, bounds, RowOK, RunStatus,
                            QueueOK, RestOK
<1>7. CASE HandlerFails(h)
  <2>1. ProcsOK'
    BY <1>7, <1>h, FinishOK DEF HandlerFails, history
  <2>2. QED
    BY <1>7, <2>1 DEF HandlerFails, Fault, row, timers, history, RowOK,
                      QueueOK, RestOK
<1>8. QED
  BY <1>1, <1>2, <1>3, <1>4, <1>5, <1>6, <1>7 DEF HandlerStep

LEMMA RequestOK ==
  ASSUME IInv, NEW h \in Handlers, AdminRequest(h) \/ AutoResume(h)
  PROVE  IInv'
<1> USE DEF IInv
<1>h. h \in Procs /\ h \notin Workers
  BY ConstantsAssumption DEF Procs
<1>1. ASSUME NEW op, Request(h, op), ProcsOK'
      PROVE  IInv'
  BY <1>1 DEF Request, row, timers, history, RowOK, QueueOK, RestOK
<1>2. ASSUME NEW op, Request(h, op)
      PROVE  done' = done
  BY <1>2 DEF Request, history
<1>3. CASE RequestCancel(h)
  BY <1>3, <1>h, <1>1, <1>2, ReadRowOK DEF RequestCancel, PC
<1>4. CASE RequestRetry(h)
  BY <1>4, <1>h, <1>1, <1>2, StartUpdateOK, ConstantsAssumption DEF RequestRetry
<1>5. CASE RequestResume(h)
  BY <1>5, <1>1, <1>2, ResumeReadOK DEF RequestResume
<1>6. CASE RequestForceAdvance(h)
  BY <1>6, <1>h, <1>1, <1>2, GotoOK, ReadRowOK DEF RequestForceAdvance, PC
<1>7. CASE RequestForceReset(h)
  BY <1>7, <1>h, <1>1, <1>2, ReadRowOK DEF RequestForceReset, PC
<1>8. CASE AutoResume(h)
  <2>1. ProcsOK'
    BY <1>8, ResumeReadOK DEF AutoResume, history
  <2>2. QED
    BY <1>8, <2>1 DEF AutoResume, row, history, bounds, RowOK, QueueOK, RestOK
<1>9. QED
  BY <1>3, <1>4, <1>5, <1>6, <1>7, <1>8 DEF AdminRequest

LEMMA CleanupOK ==
  ASSUME IInv, \/ \E k \in AllReapers : ReapSelect(k) \/ ReapWrite(k)
               \/ Tick
               \/ FlagExpires
               \/ UNCHANGED vars
  PROVE  IInv'
<1> USE DEF IInv, row, procVars, timers, history, bounds, QueueOK, ProcsOK
<1>1. ASSUME NEW k \in AllReapers, ReapSelect(k) \/ ReapWrite(k) PROVE IInv'
  BY <1>1 DEF ReapSelect, ReapWrite, RowOK, RunStatus, RestOK
<1>2. CASE Tick
  BY <1>2 DEF Tick, RowOK, RestOK
<1>3. CASE FlagExpires
  <2>1. stop' \in BOOLEAN
    BY <1>3, Zenon DEF FlagExpires
  <2>2. QED
    BY <1>3, <2>1 DEF FlagExpires, RowOK, RestOK
<1>4. CASE UNCHANGED vars
  BY <1>4 DEF vars, RowOK, RestOK
<1>5. QED
  BY <1>1, <1>2, <1>3, <1>4

LEMMA InitOK == Init => IInv
<1> SUFFICES ASSUME Init PROVE IInv
  OBVIOUS
<1>1. RowOK
  BY InitialSound DEF Init, NoCopy, RowOK, RunStatus
<1>2. QueueOK
  BY DEF Init, QueueOK
<1>3. ProcsOK
  <2>1. "idle" \in PC
    BY DEF PC
  <2>2. NoCopy \in Snapshots /\ SoundCopy(NoCopy, done)
    BY InitialSound
  <2>3. \A w \in Workers : w \in Procs
    BY DEF Procs
  <2>4. \A h \in Handlers : h \in Procs
    BY DEF Procs
  <2>5. QED
    BY <2>1, <2>2, <2>3, <2>4, NoJobType DEF Init, ProcsOK
<1>4. RestOK
  <2>1. stop \in BOOLEAN
    BY Zenon DEF Init
  <2>2. QED
    BY <2>1 DEF Init, RestOK
<1>5. QED
  BY <1>1, <1>2, <1>3, <1>4 DEF IInv

LEMMA NextOK == IInv /\ [Next]_vars => IInv'
  BY AdvanceOK, UpdateOK, WorkerOK, HandlerOK, RequestOK, CleanupOK DEF Next

-----------------------------------------------------------------------------
\* The inductive invariant holds in every reachable state.
THEOREM Invariant == Spec => []IInv
  BY InitOK, NextOK, PTL DEF Spec

\* Every variable keeps its type, whatever faults, requests and cleanups there
\* are.
THEOREM TypeCorrect == Spec => []TypeOK
<1>1. IInv => TypeOK
  BY DEF IInv, RowOK, QueueOK, ProcsOK, RestOK, TypeOK
<1>2. QED
  BY <1>1, Invariant, PTL

\* No stage is handed to Celery before the required stages it depends on have
\* completed, although advance_pipeline decides on copies that may be stale.
THEOREM DispatchIsSound == Spec => []DispatchSound
<1>1. IInv => DispatchSound
  BY DEF IInv, QueueOK, ProcsOK, DispatchSound
<1>2. QED
  BY <1>1, Invariant, PTL

\* complete_run reports completed only when every required stage completed.
THEOREM CompletedIsSound == Spec => []CompletedSound
<1>1. IInv => CompletedSound
  BY DEF IInv, RowOK, CompletedSound
<1>2. QED
  BY <1>1, Invariant, PTL

-----------------------------------------------------------------------------
(***************************************************************************)
(* PipelineRun implements RunContract.  Only a created run has steps, and  *)
(* a created run is never absent again.                                    *)
(***************************************************************************)
LEMMA AbsentInit == Init => AbsentIdle
  BY DEF Init, AbsentIdle

LEMMA Created ==
  ASSUME IInv, AbsentIdle, Next
  PROVE  /\ run' # "absent"
         /\ run # "absent" \/ \E h \in Handlers : Trigger(h)
<1> USE DEF AbsentIdle, row, timers, history, bounds
<1>1. ASSUME NEW p \in Procs, pc[p] # "idle", run' = run \/ run' # "absent"
      PROVE  run # "absent" /\ run' # "absent"
  BY <1>1
<1>2. ASSUME NEW p \in Procs, AdvanceStep(p) \/ UpdateStep(p)
      PROVE  run # "absent" /\ run' # "absent"
  BY <1>1, <1>2 DEF AdvanceStep, UpdateStep, AdvanceStopped, AdvanceChecked,
     AdvanceRead, AdvanceComplete, AdvanceWrite, AdvanceMark, AdvanceSend,
     UpdateRead, UpdateWrite
<1>3. ASSUME NEW w \in Workers, WorkerStep(w) \/ ReportProgress(w) \/ WorkerFault(w)
      PROVE  run # "absent" /\ run' # "absent"
  <2>1. CASE Take(w)
    BY <2>1 DEF Take, IInv, QueueOK
  <2>2. CASE ~Take(w)
    BY <1>1, <1>3, <2>2 DEF Procs, WorkerStep, WorkerFault, StartStopped, Start,
       MarkCancelled, ExecutorReturns, ReportProgress, ExecutorRaises, TaskLost,
       Crash, WorkerCallRaises, Advancing
  <2>3. QED
    BY <2>1, <2>2
<1>4. ASSUME NEW h \in Handlers, AdminRequest(h) \/ HandlerStep(h) \/ HandlerFails(h)
      PROVE  run # "absent" /\ run' # "absent"
  <2>1. CASE AdminRequest(h)
    BY <2>1 DEF AdminRequest, Request, RequestCancel, RequestRetry,
       RequestResume, RequestForceAdvance, RequestForceReset
  <2>2. CASE HandlerStep(h) \/ HandlerFails(h)
    BY <1>1, <2>2 DEF Procs, HandlerStep, CancelWrite, CancelSetFlag,
       ResumeWrite, ForceAdvanceWrite, ForceResetWrite, HandlerFails
  <2>3. QED
    BY <1>4, <2>1, <2>2
<1>5. ASSUME NEW h \in Handlers, AutoResume(h)
      PROVE  run # "absent" /\ run' # "absent"
  BY <1>5 DEF AutoResume
<1>6. ASSUME NEW h \in Handlers, Trigger(h)
      PROVE  run' # "absent"
  BY <1>6 DEF Trigger
<1>7. ASSUME NEW k \in AllReapers, ReapSelect(k) \/ ReapWrite(k)
      PROVE  run # "absent" /\ run' # "absent"
  BY <1>7 DEF ReapSelect, ReapWrite
<1>8. CASE Tick \/ FlagExpires
  BY <1>8 DEF Tick, FlagExpires
<1>9. QED
  BY <1>2, <1>3, <1>4, <1>5, <1>6, <1>7, <1>8 DEF Next

LEMMA AbsentStep ==
  ASSUME IInv, AbsentIdle, [Next]_vars
  PROVE  AbsentIdle'
<1>1. CASE Next
  BY <1>1, Created DEF AbsentIdle
<1>2. CASE UNCHANGED vars
  BY <1>2 DEF vars, row, procVars, timers, AbsentIdle
<1>3. QED
  BY <1>1, <1>2

\* The only steps that change the status or record a completion.
LEMMA RowWriters ==
  ASSUME [Next]_vars
  PROVE  \/ UNCHANGED <<run, done>>
         \/ \E p \in Procs : AdvanceComplete(p) \/ UpdateWrite(p)
         \/ \E h \in Handlers : Trigger(h) \/ CancelWrite(h) \/ ResumeWrite(h)
                                    \/ ForceResetWrite(h)
         \/ \E k \in AllReapers : ReapWrite(k)
<1> USE DEF row, history
<1>1. ASSUME NEW p \in Procs, AdvanceStep(p), ~AdvanceComplete(p)
      PROVE  UNCHANGED <<run, done>>
  BY <1>1 DEF AdvanceStep, AdvanceStopped, AdvanceChecked, AdvanceRead,
              AdvanceWrite, AdvanceMark, AdvanceSend
<1>2. ASSUME NEW w \in Workers, WorkerStep(w) \/ ReportProgress(w) \/ WorkerFault(w)
      PROVE  UNCHANGED <<run, done>>
  BY <1>2 DEF WorkerStep, WorkerFault, Take, StartStopped, Start, MarkCancelled,
     ExecutorReturns, ReportProgress, ExecutorRaises, TaskLost, Crash,
     WorkerCallRaises
<1>3. ASSUME NEW h \in Handlers, AdminRequest(h) \/ AutoResume(h) \/ HandlerFails(h)
      PROVE  UNCHANGED <<run, done>>
  BY <1>3 DEF AdminRequest, Request, RequestCancel, RequestRetry, RequestResume,
     RequestForceAdvance, RequestForceReset, AutoResume, HandlerFails
<1>4. ASSUME NEW h \in Handlers, CancelSetFlag(h) \/ ForceAdvanceWrite(h)
      PROVE  UNCHANGED <<run, done>>
  BY <1>4 DEF CancelSetFlag, ForceAdvanceWrite
<1>5. ASSUME \/ \E p \in Procs : UpdateRead(p)
             \/ \E k \in AllReapers : ReapSelect(k)
             \/ Tick \/ FlagExpires \/ UNCHANGED vars
      PROVE  UNCHANGED <<run, done>>
  BY <1>5 DEF UpdateRead, ReapSelect, Tick, FlagExpires, vars
<1>6. QED
  BY <1>1, <1>2, <1>3, <1>4, <1>5 DEF Next, UpdateStep, HandlerStep

\* One step of the engine is a step of the contract, or leaves the status and
\* the completions alone.
LEMMA StepImplements ==
  ASSUME IInv, AbsentIdle, [Next]_vars
  PROVE  [Contract!Next]_<<run, done>>
<1> USE DEF row, history
<1>0. Contract!Stages = Stages /\ Contract!Deps = Deps
  BY DEF Contract!Stages, Stages, Contract!Deps, Deps
<1>1. ASSUME NEW p \in Procs, AdvanceComplete(p)
      PROVE  Contract!Next
  <2>1. run # "absent"
    BY <1>1 DEF AdvanceComplete, AbsentIdle
  <2>2. CASE Failed(Cascade(snap[p])) = {}
    <3>1. Required \subseteq done
      BY <1>1, <2>2, CascadeSound, AllDoneSound
      DEF AdvanceComplete, IInv, ProcsOK
    <3>2. QED
      BY <1>1, <2>1, <2>2, <3>1 DEF AdvanceComplete, Contract!Next, Contract!Succeed
  <2>3. CASE Failed(Cascade(snap[p])) # {}
    BY <1>1, <2>1, <2>3 DEF AdvanceComplete, Contract!Next, Contract!GiveUp
  <2>4. QED
    BY <2>2, <2>3
<1>2. ASSUME NEW p \in Procs, UpdateWrite(p)
      PROVE  [Contract!Next]_<<run, done>>
  <2>1. CASE job[p].status = "completed"
    <3>1. /\ p \in Workers
          /\ pc[p] # "idle"
          /\ job[p].stage \in Stages
      BY <1>2, <2>1 DEF UpdateWrite, IInv, ProcsOK, Procs, Job
    <3>2. DepsIn(job[p].stage, done)
      BY <3>1 DEF IInv, ProcsOK
    <3>3. Contract!CompleteStage(job[p].stage)
      BY <1>0, <1>2, <2>1, <3>2 DEF UpdateWrite, Contract!CompleteStage, DepsIn
    <3>4. QED
      BY <1>0, <3>1, <3>3 DEF Contract!Next
  <2>2. CASE job[p].status # "completed"
    BY <1>2, <2>2 DEF UpdateWrite
  <2>3. QED
    BY <2>1, <2>2
<1>3. ASSUME NEW h \in Handlers, Trigger(h)
      PROVE  Contract!Next
  BY <1>3 DEF Trigger, Contract!Next, Contract!Begin
<1>4. ASSUME NEW h \in Handlers, CancelWrite(h) \/ ForceResetWrite(h)
      PROVE  Contract!Next
  BY <1>4 DEF CancelWrite, ForceResetWrite, AbsentIdle, Procs, Contract!Next,
              Contract!GiveUp
<1>5. ASSUME NEW h \in Handlers, ResumeWrite(h)
      PROVE  Contract!Next
  BY <1>5 DEF ResumeWrite, AbsentIdle, Procs, Contract!Next, Contract!Reopen
<1>6. ASSUME NEW k \in AllReapers, ReapWrite(k)
      PROVE  Contract!Next
  BY <1>6 DEF ReapWrite, AbsentIdle, Contract!Next, Contract!GiveUp
<1>7. QED
  BY <1>1, <1>2, <1>3, <1>4, <1>5, <1>6, RowWriters

\* Every behaviour of the engine keeps the contract of a run: stages complete
\* only after the required stages they depend on, and the run is reported
\* completed only when all required stages have completed.
THEOREM ContractKept == Spec => ImplementsContract
<1>1. Init => Contract!Init
  BY DEF Init, Contract!Init
<1>2. Spec => [](IInv /\ AbsentIdle)
  BY InitOK, NextOK, AbsentInit, AbsentStep, PTL DEF Spec
<1>3. IInv /\ AbsentIdle /\ [Next]_vars => [Contract!Next]_(Contract!vars)
  BY StepImplements DEF Contract!vars
<1>4. QED
  BY <1>1, <1>2, <1>3, PTL DEF Spec, ImplementsContract, Contract!Spec

-----------------------------------------------------------------------------
(***************************************************************************)
(* A cancellation stops the chain.  Stages that are ready in one copy of   *)
(* the array do not depend on each other, and under the STOP flag a        *)
(* process dispatches only what it had decided before it could see the     *)
(* flag: one such set.  A Redis error reads as "not set", so Redis is      *)
(* assumed to answer.                                                      *)
(***************************************************************************)
Unordered(S) == \A s, t \in S : s \notin Deps[t]

\* The steps of an advance after it has looked for the flag.
Reading == {"advRead", "advWrite"}
Dispatching == {"advMark", "advSend"}

ChainOK ==
    /\ \A p \in Procs : Unordered(todo[p]) /\ Unordered(late[p])
    /\ \A p \in Procs : stop /\ pc[p] \in Reading => late[p] = {}
    /\ \A p \in Procs :
        stop /\ pc[p] \in Dispatching => Unordered(late[p] \cup todo[p])

\* get_ready_stages: a ready stage is pending, and what it depends on is not.
LEMMA ReadyUnordered == ASSUME NEW c PROVE Unordered(Ready(c))
  BY DEF Unordered, Ready

\* A step that decides nothing: no process gets past its look at the flag, and
\* what is to be dispatched is dropped or left alone.
LEMMA ChainKept ==
  ASSUME ChainOK, late' = late, stop' => stop,
         \A p \in Procs : pc'[p] = pc[p] \/ pc'[p] \notin Reading \cup Dispatching,
         \A p \in Procs : todo'[p] = todo[p] \/ todo'[p] = {}
  PROVE  ChainOK'
<1>1. ASSUME NEW p \in Procs
      PROVE  Unordered(todo'[p]) /\ Unordered(late'[p])
  BY <1>1 DEF ChainOK, Unordered
<1>2. ASSUME NEW p \in Procs, stop', pc'[p] \in Reading
      PROVE  late'[p] = {}
  BY <1>2 DEF ChainOK
<1>3. ASSUME NEW p \in Procs, stop', pc'[p] \in Dispatching
      PROVE  Unordered(late'[p] \cup todo'[p])
  BY <1>3 DEF ChainOK, Unordered
<1>4. QED
  BY <1>1, <1>2, <1>3 DEF ChainOK

LEMMA ChainInit == Init => ChainOK
  BY DEF Init, ChainOK, Unordered, Reading, Dispatching

LEMMA ChainAdvance ==
  ASSUME IInv, ChainOK, "redis" \notin FaultKinds, NEW p \in Procs, AdvanceStep(p)
  PROVE  ChainOK'
<1> USE DEF row, history, bounds
<1>t. /\ pc \in [Procs -> PC]
      /\ todo \in [Procs -> SUBSET Stages]
      /\ late \in [Procs -> SUBSET Stages]
      /\ stop \in BOOLEAN
  BY DEF IInv, ProcsOK, RestOK
<1>1. CASE AdvanceStopped(p) \/ AdvanceComplete(p)
  BY <1>1, <1>t, ChainKept DEF AdvanceStopped, AdvanceComplete, Finish, Reading,
                               Dispatching
<1>2. CASE AdvanceChecked(p)
  <2>1. ~stop
    BY <1>2, Zenon DEF AdvanceChecked, SeesNoStop, Fault
  <2>2. ~stop' /\ todo' = todo /\ late' = late
    BY <1>2, <2>1 DEF AdvanceChecked, Goto
  <2>3. QED
    BY <2>2 DEF ChainOK
<1>3. CASE AdvanceRead(p)
  BY <1>3, <1>t DEF AdvanceRead, ReadRow, ChainOK, Reading, Dispatching
<1>4. CASE AdvanceWrite(p)
  <2> DEFINE R == Ready(Cascade(snap[p]))
  <2>1. CASE R = {}
    BY <1>4, <1>t, <2>1, ChainKept DEF AdvanceWrite, Finish, Reading, Dispatching
  <2>2. CASE R # {}
    <3>1. /\ pc' = [pc EXCEPT ![p] = "advMark"]
          /\ todo' = [todo EXCEPT ![p] = R]
          /\ late' = late
          /\ stop' = stop
          /\ pc[p] = "advWrite"
      BY <1>4, <2>2 DEF AdvanceWrite
    <3>2. Unordered(R)
      BY ReadyUnordered
    <3> HIDE DEF R
    <3>3. stop => late[p] = {}
      BY <3>1 DEF ChainOK, Reading
    <3>4. ASSUME NEW q \in Procs
          PROVE  /\ Unordered(todo'[q]) /\ Unordered(late'[q])
                 /\ stop' /\ pc'[q] \in Reading => late'[q] = {}
                 /\ stop' /\ pc'[q] \in Dispatching
                        => Unordered(late'[q] \cup todo'[q])
      <4>1. CASE q = p
        BY <1>t, <3>1, <3>2, <3>3, <4>1 DEF ChainOK, Reading, Unordered
      <4>2. CASE q # p
        BY <1>t, <3>1, <4>2 DEF ChainOK
      <4>3. QED
        BY <4>1, <4>2
    <3>5. QED
      BY <3>4 DEF ChainOK
  <2>3. QED
    BY <2>1, <2>2
<1>5. CASE AdvanceMark(p)
  BY <1>5, <1>t DEF AdvanceMark, ChainOK, Reading, Dispatching
<1>6. CASE AdvanceSend(p)
  <2>1. PICK s \in todo[p] :
          /\ late' = IF stop /\ run = "cancelled"
                     THEN [late EXCEPT ![p] = @ \cup {s}] ELSE late
          /\ \/ Finish(p)
             \/ /\ pc' = [pc EXCEPT ![p] = "advMark"]
                /\ todo' = [todo EXCEPT ![p] = @ \ {s}]
    BY <1>6 DEF AdvanceSend
  <2>2. stop' = stop /\ pc[p] = "advSend"
    BY <1>6 DEF AdvanceSend
  <2>3. /\ \A q \in Procs \ {p} : pc'[q] = pc[q]
        /\ pc'[p] \in {"idle", "advMark"}
        /\ \A q \in Procs \ {p} : todo'[q] = todo[q] /\ late'[q] = late[q]
        /\ todo'[p] \subseteq todo[p]
        /\ late'[p] \subseteq late[p] \cup todo[p]
        /\ ~stop => late'[p] = late[p]
    BY <1>t, <2>1 DEF Finish
  <2>4. stop => Unordered(late[p] \cup todo[p])
    BY <2>2 DEF ChainOK, Dispatching
  <2>5. ASSUME NEW q \in Procs
        PROVE  /\ Unordered(todo'[q]) /\ Unordered(late'[q])
               /\ stop' /\ pc'[q] \in Reading => late'[q] = {}
               /\ stop' /\ pc'[q] \in Dispatching
                      => Unordered(late'[q] \cup todo'[q])
    <3>1. CASE q = p
      <4>1. Unordered(todo[p]) /\ Unordered(late[p])
        BY DEF ChainOK
      <4>2. QED
        BY <2>2, <2>3, <2>4, <3>1, <4>1 DEF Reading, Unordered
    <3>2. CASE q # p
      BY <2>2, <2>3, <3>2 DEF ChainOK
    <3>3. QED
      BY <3>1, <3>2
  <2>6. QED
    BY <2>5 DEF ChainOK
<1>7. QED
  BY <1>1, <1>2, <1>3, <1>4, <1>5, <1>6 DEF AdvanceStep

\* Only process p moves, to a step that decides nothing.
Unhurried(p) ==
    /\ \A q \in Procs \ {p} : pc'[q] = pc[q] /\ todo'[q] = todo[q]
    /\ pc'[p] \notin Reading \cup Dispatching
    /\ todo'[p] \in {todo[p], {}}

LEMMA MoveUnhurried ==
  ASSUME IInv, NEW p \in Procs,
         \/ Finish(p)
         \/ UpdateDone(p)
         \/ \E s, status, next : StartUpdate(p, s, status, next)
         \/ \E where \in {"marking", "exec", "advCheck", "setFlag"} :
               Goto(p, where)
         \/ \E where \in {"updWrite", "cancelWrite", "forceWrite", "resetWrite"} :
               ReadRow(p, where)
         \/ /\ UNCHANGED todo
            /\ \E where \in {"check", "resumeWrite"} :
                  pc' = [pc EXCEPT ![p] = where]
  PROVE  Unhurried(p)
<1>1. /\ pc \in [Procs -> PC]
      /\ todo \in [Procs -> SUBSET Stages]
      /\ job[p].next \notin Reading \cup Dispatching
  BY DEF IInv, ProcsOK, Job, Reading, Dispatching
<1>2. CASE Finish(p)
  BY <1>1, <1>2 DEF Finish, Unhurried, Reading, Dispatching
<1>3. CASE UpdateDone(p)
  BY <1>1, <1>3 DEF UpdateDone, Unhurried
<1>4. CASE \E s, status, next : StartUpdate(p, s, status, next)
  BY <1>1, <1>4 DEF StartUpdate, Unhurried, Reading, Dispatching
<1>5. CASE \E where \in {"marking", "exec", "advCheck", "setFlag"} : Goto(p, where)
  BY <1>1, <1>5 DEF Goto, Unhurried, Reading, Dispatching
<1>6. CASE \E where \in {"updWrite", "cancelWrite", "forceWrite", "resetWrite"} :
              ReadRow(p, where)
  BY <1>1, <1>6 DEF ReadRow, Unhurried, Reading, Dispatching
<1>7. CASE /\ UNCHANGED todo
           /\ \E where \in {"check", "resumeWrite"} :
                 pc' = [pc EXCEPT ![p] = where]
  BY <1>1, <1>7 DEF Unhurried, Reading, Dispatching
<1>8. QED
  BY <1>2, <1>3, <1>4, <1>5, <1>6, <1>7

LEMMA ChainWorker ==
  ASSUME IInv, ChainOK, NEW w \in Workers,
         UpdateStep(w) \/ WorkerStep(w) \/ ReportProgress(w) \/ WorkerFault(w)
  PROVE  ChainOK'
<1> USE DEF row, history, bounds
<1>w. w \in Procs
  BY DEF Procs
<1>1. late' = late /\ stop' = stop
  BY DEF UpdateStep, UpdateRead, UpdateWrite, WorkerStep, WorkerFault, Take,
     StartStopped, Start, MarkCancelled, ExecutorReturns, ReportProgress,
     ExecutorRaises, TaskLost, Crash, WorkerCallRaises
<1>2. Unhurried(w)
  <2>1. CASE UpdateStep(w)
    BY <1>w, <2>1, MoveUnhurried DEF UpdateStep, UpdateRead, UpdateWrite
  <2>2. CASE WorkerStep(w) \/ ReportProgress(w)
    BY <1>w, <2>2, MoveUnhurried
    DEF WorkerStep, Take, StartStopped, Start, MarkCancelled, ExecutorReturns,
        ReportProgress
  <2>3. CASE WorkerFault(w)
    BY <1>w, <2>3, MoveUnhurried
    DEF WorkerFault, ExecutorRaises, TaskLost, Crash, WorkerCallRaises,
        RetryOrGiveUp
  <2>4. QED
    BY <2>1, <2>2, <2>3
<1>3. QED
  BY <1>1, <1>2, ChainKept DEF Unhurried

LEMMA ChainHandler ==
  ASSUME IInv, ChainOK, NEW h \in Handlers,
         \/ UpdateStep(h) \/ HandlerStep(h) \/ Trigger(h) \/ HandlerFails(h)
         \/ AdminRequest(h) \/ AutoResume(h)
  PROVE  ChainOK'
<1> USE DEF row, history, bounds
<1>h. h \in Procs
  BY DEF Procs
<1>1. \/ late' = late /\ stop' = stop
      \/ CancelSetFlag(h) /\ late' = [p \in Procs |-> {}]
  BY DEF UpdateStep, UpdateRead, UpdateWrite, HandlerStep, CancelWrite,
     CancelSetFlag, ResumeWrite, ForceAdvanceWrite, ForceResetWrite, Trigger,
     HandlerFails, AdminRequest, Request, RequestCancel, RequestRetry,
     RequestResume, RequestForceAdvance, RequestForceReset, AutoResume
<1>2. Unhurried(h)
  <2>1. CASE UpdateStep(h)
    BY <1>h, <2>1, MoveUnhurried DEF UpdateStep, UpdateRead, UpdateWrite
  <2>2. CASE HandlerStep(h) \/ Trigger(h) \/ HandlerFails(h)
    BY <1>h, <2>2, MoveUnhurried
    DEF HandlerStep, CancelWrite, CancelSetFlag, ResumeWrite, ForceAdvanceWrite,
        ForceResetWrite, Trigger, HandlerFails
  <2>3. CASE AdminRequest(h) \/ AutoResume(h)
    BY <1>h, <2>3, MoveUnhurried
    DEF AdminRequest, RequestCancel, RequestRetry, RequestResume,
        RequestForceAdvance, RequestForceReset, AutoResume, ResumeRead
  <2>4. QED
    BY <2>1, <2>2, <2>3
<1>3. CASE late' = late /\ stop' = stop
  BY <1>2, <1>3, ChainKept DEF Unhurried
<1>4. CASE late' = [p \in Procs |-> {}]
  BY <1>2, <1>4 DEF Unhurried, ChainOK, Unordered
<1>5. QED
  BY <1>1, <1>3, <1>4

LEMMA ChainNext ==
  ASSUME IInv, ChainOK, "redis" \notin FaultKinds, [Next]_vars
  PROVE  ChainOK'
<1>1. ASSUME NEW p \in Procs, UpdateStep(p) PROVE ChainOK'
  BY <1>1, ChainWorker, ChainHandler DEF Procs
<1>2. ASSUME \/ \E k \in AllReapers : ReapSelect(k) \/ ReapWrite(k)
             \/ Tick \/ FlagExpires \/ UNCHANGED vars
      PROVE  ChainOK'
  <2>1. /\ late' = late /\ pc' = pc /\ todo' = todo
        /\ stop' => stop
    BY <1>2 DEF ReapSelect, ReapWrite, Tick, FlagExpires, vars, procVars, history
  <2>2. QED
    BY <2>1, ChainKept
<1>3. QED
  BY <1>1, <1>2, ChainAdvance, ChainWorker, ChainHandler DEF Next

\* A cancellation stops the chain: unless Redis fails, no process that
\* dispatches stages under the STOP flag dispatches one that another of them
\* leads to (advance_pipeline looks at the flag first).
THEOREM CancellationStops ==
  ASSUME "redis" \notin FaultKinds
  PROVE  Spec => []CancelStopsChain
<1>1. ChainOK => CancelStopsChain
  BY DEF ChainOK, Unordered, CancelStopsChain
<1>2. IInv /\ ChainOK /\ [Next]_vars => ChainOK'
  BY ChainNext
<1>3. QED
  BY <1>1, <1>2, ChainInit, InitOK, NextOK, PTL DEF Spec

-----------------------------------------------------------------------------
(***************************************************************************)
(* A run nobody interferes with: no administrator, no cleanup, and no      *)
(* failure but that of an executor, on a serial selection, a piece of the  *)
(* core chain without a gap.  (With a gap the stage after it is ready from *)
(* the start, and timeseries may run next to a resumed import.)  Then one  *)
(* token goes round: a worker or a handler at work, a message in the queue *)
(* or a thread asleep, and the holder of the token is the only one who     *)
(* touches the array, so that no copy is ever stale.                       *)
(***************************************************************************)
Serial ==
    /\ SelectedStages # {}
    /\ "timeseries" \notin SelectedStages
    /\ \A a, c \in SelectedStages : \A b \in Stages :
        Position[a] < Position[b] /\ Position[b] < Position[c]
            => b \in SelectedStages

Undisturbed ==
    /\ Serial
    /\ AdminOps = {}
    /\ Reapers = {}
    /\ FaultKinds \subseteq {"error"}

\* What a stage may be while an earlier one is not finished: a cascade of an
\* earlier attempt may have left the optional stage out.
Waiting(s) == IF s = "graph_sync" THEN {"pending", "skipped"} ELSE {"pending"}

Unselected(c) == \A s \in Stages \ Selected : c[s] = "skipped"

\* An array between two stages: nothing runs, nothing has overtaken a pending
\* stage and nothing has completed after a failed one.
AtRest(c) ==
    /\ Unselected(c)
    /\ \A s \in Selected : c[s] \in {"completed", "failed"} \cup Waiting(s)
    /\ \A a, b \in Selected :
        Position[a] < Position[b] =>
            /\ c[a] = "pending" => c[b] \in Waiting(b)
            /\ c[a] = "failed" => c[b] \in {"failed"} \cup Waiting(b)

\* An array while stage s is dispatched or worked on: all before it are
\* completed, all after it wait.
Active(c, s) ==
    /\ s \in Selected
    /\ Unselected(c)
    /\ c[s] \in {"pending", "running", "completed", "failed"}
    /\ \A a \in Selected :
        /\ Position[a] < Position[s] => c[a] = "completed"
        /\ Position[s] < Position[a] => c[a] \in Waiting(a)

\* The steps of a worker on its stage.
Working == {"check", "exec", "ended", "updRead", "updWrite"}

\* What holds where the holder p of the token is.
Place(p) ==
    /\ pc[p] \in Advancing \cup Working \cup {"resumeWrite"}
    /\ pc[p] \in Advancing \cup Working => run = "running"
    /\ pc[p] \in {"advCheck"} \cup Reading => AtRest(stages)
    /\ pc[p] \in {"advWrite", "updWrite"} \cup Dispatching => snap[p] = stages
    /\ pc[p] \in Dispatching =>
        \E s \in Stages : todo[p] = {s} /\ Active(stages, s)
    /\ pc[p] \in Working => Active(stages, job[p].stage)
    /\ pc[p] \in {"updRead", "updWrite"} /\ job[p].next = "advCheck" =>
        job[p].status # "running"
    /\ pc[p] = "resumeWrite" => run = "failed" /\ AtRest(snap[p])

NoMessage == \A m \in Message : queue[m] = 0

NoProcess == \A p \in Procs : pc[p] = "idle"

Alone(p) ==
    /\ \A q \in Procs : q # p => pc[q] = "idle"
    /\ NoMessage
    /\ asleep = 0

\* Message m is the token.
InQueue(m) ==
    /\ queue[m] = 1
    /\ \A n \in Message : n # m => queue[n] = 0
    /\ NoProcess
    /\ asleep = 0
    /\ run = "running"
    /\ Active(stages, m.stage)

\* The sleeping thread is the token.
Sleeping ==
    /\ asleep = 1
    /\ NoProcess
    /\ NoMessage
    /\ run = "failed"
    /\ AtRest(stages)
    /\ stages["import"] = "failed"

\* A run that has ended agrees with its array.
Outcome ==
    /\ run # "cancelled"
    /\ run = "completed" => AllDone(stages) /\ Failed(stages) = {}
    /\ run = "failed" => AllDone(stages) /\ Failed(stages) # {}

TokenOK ==
    /\ ~stop
    /\ reaping = {}
    /\ Outcome
    /\ \A p \in Procs : pc[p] # "idle" => Alone(p) /\ Place(p)
    /\ \A m \in Message : queue[m] > 0 => InQueue(m)
    /\ asleep > 0 => Sleeping

\* The serial chain: every stage after the first depends on the one before it.
LEMMA ChainFacts ==
  /\ \A s \in Stages : Position[s] \in 1 .. 6
  /\ \A s, t \in Stages : Position[s] = Position[t] => s = t
  /\ \A s \in Stages : \A d \in Deps[s] : d \in Stages /\ Position[d] + 1 = Position[s]
  /\ \A s, a \in Stages :
        Position[a] < Position[s] => \E d \in Deps[s] : Position[a] <= Position[d]
  /\ Position["import"] = 4 /\ Position["graph_sync"] = 5 /\ Position["timeseries"] = 6
<1>1. Stages = {"crawl", "dedup", "clean", "import", "graph_sync", "timeseries"}
  BY DEF Stages
<1>2. /\ Position["crawl"] = 1 /\ Position["dedup"] = 2 /\ Position["clean"] = 3
      /\ Position["import"] = 4 /\ Position["graph_sync"] = 5
      /\ Position["timeseries"] = 6
  BY DEF Position
<1>3. /\ Deps["crawl"] = {} /\ Deps["dedup"] = {"crawl"}
      /\ Deps["clean"] = {"dedup"} /\ Deps["import"] = {"clean"}
      /\ Deps["graph_sync"] = {"import"} /\ Deps["timeseries"] = {"graph_sync"}
  BY DEF Deps
<1>4. QED
  BY <1>1, <1>2, <1>3

LEMMA Selection ==
  ASSUME Serial
  PROVE  /\ Selected \subseteq Stages
         /\ \A s \in Selected : Position[s] <= 5
         /\ \A a, c \in Selected : \A b \in Stages :
              Position[a] < Position[b] /\ Position[b] < Position[c] => b \in Selected
<1>1. Selected = SelectedStages
  BY DEF Serial, Selected
<1>2. Selected \subseteq Stages
  BY <1>1, ConstantsAssumption
<1>3. ASSUME NEW s \in Selected PROVE Position[s] <= 5
  <2>1. s # "timeseries"
    BY <1>1, <1>3 DEF Serial
  <2>2. Position[s] # 6
    BY <1>2, <1>3, <2>1, ChainFacts DEF Stages
  <2>3. QED
    BY <1>2, <1>3, <2>2, ChainFacts
<1>4. QED
  BY <1>1, <1>2, <1>3 DEF Serial

LEMMA InitialAtRest == ASSUME Serial PROVE AtRest(NoCopy)
  BY Selection DEF NoCopy, InitialStages, AtRest, Unselected, Waiting, Selected,
                   Serial

\* get_ready_stages on an array at rest: all before a ready stage completed,
\* and so nothing else is ready.
LEMMA ReadyActive ==
  ASSUME Serial, NEW c, AtRest(c), NEW s \in Ready(c)
  PROVE  Active(c, s)
<1>1. /\ s \in Stages
      /\ c[s] = "pending"
      /\ \A d \in Deps[s] : c[d] \in {"completed", "skipped"}
  BY DEF Ready
<1>2. s \in Selected
  BY <1>1 DEF AtRest, Unselected
<1>3. ASSUME NEW a \in Selected, Position[a] < Position[s]
      PROVE  c[a] = "completed"
  <2>1. PICK d \in Deps[s] : Position[a] <= Position[d]
    BY <1>1, <1>3, Selection, ChainFacts
  <2>2. /\ d \in Stages
        /\ Position[d] + 1 = Position[s]
        /\ Position[s] <= 5
        /\ Position[a] \in Nat /\ Position[d] \in Nat /\ Position[s] \in Nat
        /\ a \in Stages
    BY <1>1, <1>2, <1>3, <2>1, Selection, ChainFacts
  <2>3. d \in Selected
    <3>1. CASE a = d
      BY <3>1
    <3>2. CASE a # d
      <4>1. Position[a] # Position[d]
        BY <2>2, <3>2, ChainFacts
      <4>2. Position[a] < Position[d] /\ Position[d] < Position[s]
        BY <2>1, <2>2, <4>1
      <4>3. QED
        BY <1>2, <2>2, <4>2, Selection
    <3>3. QED
      BY <3>1, <3>2
  <2>4. a # "graph_sync" /\ d # "graph_sync"
    BY <2>1, <2>2, ChainFacts
  <2>5. c[d] = "completed"
    BY <1>1, <2>3, <2>4 DEF AtRest, Waiting
  <2>6. CASE a = d
    BY <2>5, <2>6
  <2>7. CASE a # d
    <3>1. Position[a] < Position[d]
      <4>1. Position[a] # Position[d]
        BY <2>2, <2>7, ChainFacts
      <4>2. QED
        BY <2>1, <2>2, <4>1
    <3>2. c[a] \notin {"pending", "failed"}
      BY <2>3, <2>4, <2>5, <3>1 DEF AtRest, Waiting
    <3>3. QED
      BY <2>4, <3>2 DEF AtRest, Waiting
  <2>8. QED
    BY <2>6, <2>7
<1>4. ASSUME NEW a \in Selected, Position[s] < Position[a]
      PROVE  c[a] \in Waiting(a)
  BY <1>1, <1>2, <1>4 DEF AtRest
<1>5. QED
  BY <1>1, <1>2, <1>3, <1>4 DEF Active, AtRest

LEMMA OneReady ==
  ASSUME Serial, NEW c, AtRest(c), NEW s \in Ready(c)
  PROVE  Ready(c) = {s}
<1>1. ASSUME NEW r \in Ready(c) PROVE r = s
  <2>1. Active(c, r) /\ Active(c, s)
    BY ReadyActive
  <2>2. c[r] = "pending" /\ c[s] = "pending" /\ r \in Stages /\ s \in Stages
    BY DEF Ready
  <2>3. ~(Position[r] < Position[s]) /\ ~(Position[s] < Position[r])
    BY <2>1, <2>2 DEF Active
  <2>4. Position[r] = Position[s]
    BY <2>2, <2>3, ChainFacts
  <2>5. QED
    BY <2>2, <2>4, ChainFacts
<1>2. QED
  BY <1>1

\* The pass over an array at rest leaves it at rest.
LEMMA CascadeAtRest ==
  ASSUME Serial, NEW c \in Snapshots, AtRest(c)
  PROVE  AtRest(Cascade(c))
<1> DEFINE d == Cascade(c)
<1>1. \A s \in Stages : \/ d[s] = c[s]
                        \/ /\ c[s] = "pending"
                           /\ Reached(c, s)
                           /\ d[s] = IF s \in Optional THEN "skipped" ELSE "failed"
  BY DEF Cascade
<1>2. \A s \in Stages : c[s] = "pending" /\ Reached(c, s) => d[s] # "pending"
  BY DEF Cascade
<1> HIDE DEF d
<1>3. Unselected(d)
  BY <1>1 DEF AtRest, Unselected
<1>4. ASSUME NEW s \in Selected
      PROVE  /\ s \in Stages
             /\ s \in Optional => s = "graph_sync"
  BY Selection, ChainFacts DEF Optional
<1>5. ASSUME NEW s \in Selected
      PROVE  d[s] \in {"completed", "failed"} \cup Waiting(s)
  BY <1>1, <1>4 DEF AtRest, Waiting
<1>6. ASSUME NEW a \in Selected, NEW b \in Selected, Position[a] < Position[b],
             d[a] = "pending"
      PROVE  d[b] \in Waiting(b)
  <2>1. c[a] = "pending" /\ ~Reached(c, a)
    BY <1>1, <1>2, <1>4, <1>6 DEF Optional
  <2>2. c[b] \in Waiting(b)
    BY <1>6, <2>1 DEF AtRest
  <2>3. ASSUME c[b] = "pending", Reached(c, b) PROVE FALSE
    <3>1. PICK z \in Stages :
            /\ Position[z] < Position[b]
            /\ c[z] = "failed"
            /\ \A y \in Stages :
                Position[z] < Position[y] /\ Position[y] < Position[b]
                    => c[y] = "pending" /\ y \notin Optional
      BY <2>3 DEF Reached
    <3>2. z \in Selected
      BY <3>1 DEF AtRest, Unselected
    <3>3. ~(Position[a] < Position[z])
      BY <2>1, <3>1, <3>2 DEF AtRest, Waiting
    <3>4. Position[z] # Position[a]
      BY <1>4, <2>1, <3>1, ChainFacts
    <3>5. Position[z] < Position[a]
      BY <1>4, <3>3, <3>4, ChainFacts
    <3>6. Reached(c, a)
      <4>1. ASSUME NEW y \in Stages, Position[z] < Position[y], Position[y] < Position[a]
            PROVE  c[y] = "pending" /\ y \notin Optional
        <5>1. Position[y] < Position[b]
          BY <1>4, <1>6, <4>1, ChainFacts
        <5>2. QED
          BY <3>1, <4>1, <5>1
      <4>2. QED
        BY <3>1, <3>5, <4>1 DEF Reached
    <3>7. QED
      BY <2>1, <3>6
  <2>4. d[b] = c[b]
    BY <1>1, <1>4, <2>3
  <2>5. QED
    BY <2>2, <2>4
<1>7. ASSUME NEW a \in Selected, NEW b \in Selected, Position[a] < Position[b],
             d[a] = "failed"
      PROVE  d[b] \in {"failed"} \cup Waiting(b)
  <2>1. c[a] \in {"pending", "failed"}
    BY <1>1, <1>4, <1>7
  <2>2. c[b] \in {"failed"} \cup Waiting(b)
    BY <1>7, <2>1 DEF AtRest
  <2>3. QED
    BY <1>1, <1>4, <2>2 DEF Waiting
<1>8. AtRest(d)
  BY <1>3, <1>5, <1>6, <1>7 DEF AtRest
<1>9. QED
  BY <1>8 DEF d

\* resume_run on the array of a failed run whose import failed.
LEMMA ResetAtRest ==
  ASSUME Serial, NEW c \in Snapshots, AtRest(c), AllDone(c), c["import"] = "failed",
         NEW leftover \in BOOLEAN
  PROVE  AtRest(ResetStages(c, leftover))
<1> DEFINE d == ResetStages(c, leftover)
<1>1. \A s \in Stages : d[s] = IF c[s] = "failed" THEN "pending" ELSE c[s]
  BY DEF ResetStages, Resumable
<1> HIDE DEF d
<1>2. Selected \subseteq Stages
  BY Selection
<1>3. AtRest(d)
  BY <1>1, <1>2 DEF AtRest, Unselected, AllDone, Waiting
<1>4. QED
  BY <1>3 DEF d

\* update_stage_status of the active stage.
LEMMA ActiveUpdate ==
  ASSUME Serial, NEW c \in Snapshots, NEW s \in Stages, Active(c, s),
         NEW status \in {"pending", "running", "completed", "failed"}
  PROVE  Active([c EXCEPT ![s] = status], s)
<1>1. Selected \subseteq Stages /\ \A a \in Selected : Position[a] \in Nat
  BY Selection, ChainFacts
<1>2. QED
  BY <1>1 DEF Active, Unselected, Snapshots

LEMMA ActiveAtRest ==
  ASSUME Serial, NEW c, NEW s \in Stages, Active(c, s), c[s] # "running"
  PROVE  AtRest(c)
<1>1. /\ Selected \subseteq Stages
      /\ \A a \in Selected : Position[a] \in Nat
      /\ \A a, b \in Selected : Position[a] = Position[b] => a = b
  BY Selection, ChainFacts
<1>2. s \in Selected /\ Unselected(c)
  BY DEF Active
<1>3. ASSUME NEW a \in Selected
      PROVE  \/ a = s
             \/ Position[a] < Position[s] /\ c[a] = "completed"
             \/ Position[s] < Position[a] /\ c[a] \in Waiting(a)
  BY <1>1, <1>2 DEF Active
<1>4. ASSUME NEW a \in Selected
      PROVE  c[a] \in {"completed", "failed"} \cup Waiting(a)
  BY <1>3 DEF Active, Waiting
<1>5. ASSUME NEW a \in Selected, NEW b \in Selected, Position[a] < Position[b],
             c[a] \in {"pending", "failed"}
      PROVE  c[b] \in Waiting(b)
  <2>1. ~(Position[a] < Position[s])
    BY <1>5 DEF Active
  <2>2. Position[s] < Position[b]
    BY <1>1, <1>2, <1>5, <2>1
  <2>3. QED
    BY <2>2 DEF Active
<1>6. QED
  BY <1>2, <1>4, <1>5 DEF AtRest

-----------------------------------------------------------------------------
(***************************************************************************)
(* The token goes round.  Its holder keeps it, drops it, puts it into the  *)
(* queue or leaves it to a sleeping thread; whoever has no token finds it. *)
(***************************************************************************)
LEMMA TokenKept ==
  ASSUME TokenOK, IInv, NEW p \in Procs, Alone(p), pc'[p] # "idle",
         \A q \in Procs \ {p} : pc'[q] = pc[q],
         UNCHANGED <<stop, queue, asleep, reaping>>, Outcome', Place(p)'
  PROVE  TokenOK'
<1>1. Alone(p)'
  BY DEF Alone, NoMessage
<1>2. \A q \in Procs : pc'[q] # "idle" => q = p
  BY DEF Alone
<1>3. \A m \in Message : ~(queue'[m] > 0)
  BY DEF Alone, NoMessage
<1>4. ~(asleep' > 0)
  BY DEF Alone
<1>5. ~stop' /\ reaping' = {}
  BY DEF TokenOK
<1>6. QED
  BY <1>1, <1>2, <1>3, <1>4, <1>5 DEF TokenOK

LEMMA TokenDropped ==
  ASSUME TokenOK, IInv, NEW p \in Procs, Alone(p), Finish(p),
         UNCHANGED <<stop, queue, reaping>>, Outcome',
         asleep' = asleep \/ Sleeping'
  PROVE  TokenOK'
<1>1. \A q \in Procs : pc'[q] = "idle"
  BY DEF Alone, Finish, IInv, ProcsOK
<1>2. \A m \in Message : ~(queue'[m] > 0)
  BY DEF Alone, NoMessage
<1>3. asleep' > 0 => Sleeping'
  BY DEF Alone
<1>4. ~stop' /\ reaping' = {}
  BY DEF TokenOK
<1>5. QED
  BY <1>1, <1>2, <1>3, <1>4 DEF TokenOK

LEMMA TokenSent ==
  ASSUME TokenOK, IInv, NEW p \in Procs, Alone(p), Finish(p),
         NEW m \in Message, Send(m),
         UNCHANGED <<stop, asleep, reaping>>, Outcome',
         run' = "running", Active(stages, m.stage)'
  PROVE  TokenOK'
<1>1. \A q \in Procs : pc'[q] = "idle"
  BY DEF Alone, Finish, IInv, ProcsOK
<1>2. \A n \in Message : queue'[n] = IF n = m THEN 1 ELSE 0
  <2>1. queue \in [Message -> Nat] /\ \A n \in Message : queue[n] = 0
    BY DEF IInv, QueueOK, Alone, NoMessage
  <2>2. QED
    BY <2>1 DEF Send
<1>3. asleep' = 0
  BY DEF Alone
<1>4. ~stop' /\ reaping' = {}
  BY DEF TokenOK
<1>5. \A n \in Message : queue'[n] > 0 => InQueue(n)'
  BY <1>1, <1>2, <1>3 DEF InQueue, NoProcess
<1>6. QED
  BY <1>1, <1>3, <1>4, <1>5 DEF TokenOK

LEMMA TokenInit == Serial => (Init => TokenOK)
  BY DEF Init, TokenOK, Outcome

LEMMA TokenAdvance ==
  ASSUME TokenOK, IInv, Undisturbed, NEW p \in Procs, AdvanceStep(p)
  PROVE  TokenOK'
<1> USE DEF row, history, bounds
<1>1. /\ pc[p] \in Advancing
      /\ Alone(p)
      /\ Place(p)
  BY DEF AdvanceStep, AdvanceStopped, AdvanceChecked, AdvanceRead,
     AdvanceComplete, AdvanceWrite, AdvanceMark, AdvanceSend, Advancing, TokenOK
<1>2. /\ pc \in [Procs -> PC]
      /\ snap \in [Procs -> Snapshots]
      /\ todo \in [Procs -> SUBSET Stages]
      /\ stages \in Snapshots
  BY DEF IInv, ProcsOK, RowOK
<1>3. run = "running" /\ ~stop /\ Serial
  BY <1>1 DEF Place, TokenOK, Undisturbed
<1>4. run' = "running" => Outcome'
  BY DEF Outcome
<1>5. ~AdvanceStopped(p)
  BY <1>3, Zenon DEF AdvanceStopped, SeesStop
<1>6. CASE AdvanceChecked(p)
  <2>1. /\ pc' = [pc EXCEPT ![p] = "advRead"]
        /\ UNCHANGED <<run, stages, stop, queue, asleep, reaping>>
    BY <1>6 DEF AdvanceChecked, Goto, timers
  <2>2. AtRest(stages)
    BY <1>6, <1>1 DEF AdvanceChecked, Place
  <2>3. Place(p)'
    BY <1>2, <1>3, <2>1, <2>2 DEF Place, Advancing, Working, Reading, Dispatching
  <2>4. QED
    BY <1>1, <1>2, <1>3, <1>4, <2>1, <2>3, TokenKept
<1>7. CASE AdvanceRead(p)
  <2>1. /\ pc' = [pc EXCEPT ![p] = "advWrite"]
        /\ snap' = [snap EXCEPT ![p] = stages]
        /\ UNCHANGED <<run, stages, stop, queue, asleep, reaping>>
    BY <1>7 DEF AdvanceRead, ReadRow, timers
  <2>2. AtRest(stages)
    BY <1>7, <1>1 DEF AdvanceRead, Place, Reading
  <2>3. Place(p)'
    BY <1>2, <1>3, <2>1, <2>2 DEF Place, Advancing, Working, Reading, Dispatching
  <2>4. QED
    BY <1>1, <1>2, <1>3, <1>4, <2>1, <2>3, TokenKept
<1>c. pc[p] = "advWrite" => /\ AtRest(Cascade(snap[p]))
                            /\ Cascade(snap[p]) \in Snapshots
  <2>1. ASSUME pc[p] = "advWrite" PROVE snap[p] = stages /\ AtRest(stages)
    BY <1>1, <2>1 DEF Place, Reading
  <2>2. Cascade(stages) \in Snapshots
    BY <1>2 DEF Cascade, Snapshots, StageStatus
  <2>3. QED
    BY <1>2, <1>3, <2>1, <2>2, CascadeAtRest
<1>8. CASE AdvanceComplete(p)
  <2> DEFINE c == Cascade(snap[p])
  <2>1. /\ AtRest(c)
        /\ c \in Snapshots
        /\ AllDone(c)
        /\ stages' = c
        /\ run' = IF Failed(c) # {} THEN "failed" ELSE "completed"
        /\ Finish(p)
        /\ UNCHANGED <<stop, queue, reaping>>
        /\ \/ asleep' = asleep
           \/ asleep' = asleep + 1 /\ Recoverable(c)
    BY <1>8, <1>c DEF AdvanceComplete, timers
  <2> HIDE DEF c
  <2>2. Outcome'
    BY <2>1 DEF Outcome
  <2>3. ASSUME asleep' = asleep + 1, Recoverable(c) PROVE Sleeping'
    <3>1. asleep' = 1 /\ NoMessage'
      BY <1>1, <2>1, <2>3 DEF Alone, NoMessage
    <3>2. NoProcess'
      BY <1>1, <1>2, <2>1 DEF Alone, NoProcess, Finish
    <3>3. c["import"] = "failed" /\ Failed(c) # {}
      BY <2>3 DEF Recoverable, Failed
    <3>4. QED
      BY <2>1, <3>1, <3>2, <3>3 DEF Sleeping
  <2>4. QED
    BY <1>1, <2>1, <2>2, <2>3, TokenDropped
<1>9. CASE AdvanceWrite(p)
  <2> DEFINE c == Cascade(snap[p])
  <2>1. /\ AtRest(c)
        /\ c \in Snapshots
        /\ stages' = c
        /\ UNCHANGED <<run, stop, queue, asleep, reaping>>
    BY <1>9, <1>c DEF AdvanceWrite, timers
  <2>2. CASE Ready(c) = {}
    <3>1. Finish(p)
      BY <1>9, <2>2 DEF AdvanceWrite
    <3>2. QED
      BY <1>1, <1>3, <1>4, <2>1, <3>1, TokenDropped
  <2>3. CASE Ready(c) # {}
    <3>1. /\ pc' = [pc EXCEPT ![p] = "advMark"]
          /\ snap' = [snap EXCEPT ![p] = c]
          /\ todo' = [todo EXCEPT ![p] = Ready(c)]
      BY <1>9, <2>3 DEF AdvanceWrite
    <3> HIDE DEF c
    <3>2. PICK s \in Ready(c) : TRUE
      BY <2>3
    <3>3. s \in Stages /\ Active(c, s) /\ Ready(c) = {s}
      BY <1>3, <2>1, <3>2, ReadyActive, OneReady DEF Ready
    <3>4. Place(p)'
      BY <1>2, <1>3, <2>1, <3>1, <3>3
      DEF Place, Advancing, Working, Reading, Dispatching
    <3>5. QED
      BY <1>1, <1>2, <1>3, <1>4, <2>1, <3>1, <3>4, TokenKept
  <2>4. QED
    BY <2>2, <2>3
<1>10. CASE AdvanceMark(p)
  <2>1. PICK s \in todo[p] :
          /\ stages' = MarkRunning(snap[p], s)
          /\ snap' = [snap EXCEPT ![p] = MarkRunning(snap[p], s)]
    BY <1>10 DEF AdvanceMark
  <2>2. /\ pc[p] = "advMark"
        /\ pc' = [pc EXCEPT ![p] = "advSend"]
        /\ todo' = todo
        /\ UNCHANGED <<run, stop, queue, asleep, reaping>>
    BY <1>10 DEF AdvanceMark, timers
  <2>3. s \in Stages /\ todo[p] = {s} /\ Active(stages, s) /\ snap[p] = stages
    BY <1>1, <2>1, <2>2 DEF Place, Dispatching
  <2>4. Active(stages', s)
    BY <1>2, <1>3, <2>1, <2>3, ActiveUpdate DEF MarkRunning
  <2>5. Place(p)'
    BY <1>2, <1>3, <2>1, <2>2, <2>3, <2>4
    DEF Place, Advancing, Working, Reading, Dispatching
  <2>6. QED
    BY <1>1, <1>2, <1>3, <1>4, <2>2, <2>5, TokenKept
<1>11. CASE AdvanceSend(p)
  <2>1. PICK s \in todo[p] :
          /\ Send([stage |-> s, attempt |-> 0])
          /\ todo[p] = {s} => Finish(p)
    BY <1>11 DEF AdvanceSend
  <2>2. /\ pc[p] = "advSend"
        /\ UNCHANGED <<run, stages, stop, asleep, reaping>>
    BY <1>11 DEF AdvanceSend, timers
  <2>3. s \in Stages /\ todo[p] = {s} /\ Active(stages, s)
    BY <1>1, <2>1, <2>2 DEF Place, Dispatching
  <2> DEFINE m == [stage |-> s, attempt |-> 0]
  <2>4. m \in Message /\ m.stage = s
    BY <2>3, ConstantsAssumption DEF Message
  <2>5. Send(m) /\ Finish(p)
    BY <2>1, <2>3
  <2> HIDE DEF m
  <2>6. Active(stages, m.stage)'
    BY <2>2, <2>3, <2>4
  <2>7. QED
    BY <1>1, <1>3, <1>4, <2>2, <2>4, <2>5, <2>6, TokenSent
<1>12. QED
  BY <1>5, <1>6, <1>7, <1>8, <1>9, <1>10, <1>11 DEF AdvanceStep

LEMMA TokenUpdate ==
  ASSUME TokenOK, IInv, Undisturbed, NEW p \in Procs, UpdateStep(p)
  PROVE  TokenOK'
<1> USE DEF row, history, bounds
<1>1. /\ pc[p] \in {"updRead", "updWrite"}
      /\ Alone(p)
      /\ Place(p)
  BY DEF UpdateStep, UpdateRead, UpdateWrite, TokenOK
<1>2. /\ pc \in [Procs -> PC]
      /\ snap \in [Procs -> Snapshots]
      /\ job \in [Procs -> Job]
      /\ stages \in Snapshots
      /\ job[p].stage \in Stages
      /\ job[p].status \in {"pending", "running", "completed", "failed"}
      /\ job[p].next \in {"idle", "exec", "ended", "advCheck"}
  BY DEF IInv, ProcsOK, RowOK, Job
<1>3. run = "running" /\ Serial /\ Active(stages, job[p].stage)
  BY <1>1 DEF Place, Undisturbed, Working
<1>4. run' = "running" => Outcome'
  BY DEF Outcome
<1>5. CASE UpdateRead(p)
  <2>1. /\ pc[p] = "updRead"
        /\ pc' = [pc EXCEPT ![p] = "updWrite"]
        /\ snap' = [snap EXCEPT ![p] = stages]
        /\ UNCHANGED <<run, stages, job, stop, queue, asleep, reaping>>
    BY <1>5 DEF UpdateRead, ReadRow, timers
  <2>2. job[p].next = "advCheck" => job[p].status # "running"
    BY <1>1, <2>1 DEF Place
  <2>3. Place(p)'
    BY <1>2, <1>3, <2>1, <2>2 DEF Place, Advancing, Working, Reading, Dispatching
  <2>4. QED
    BY <1>1, <1>2, <1>3, <1>4, <2>1, <2>3, TokenKept
<1>6. CASE UpdateWrite(p)
  <2> DEFINE s == job[p].stage
             c == [stages EXCEPT ![s] = job[p].status]
  <2>1. /\ pc[p] = "updWrite"
        /\ snap[p] = stages
        /\ stages' = c
        /\ UNCHANGED <<run, stop, queue, asleep, reaping>>
    BY <1>1, <1>6 DEF UpdateWrite, timers, Place
  <2>2. Active(c, s)
    BY <1>2, <1>3, ActiveUpdate
  <2>3. CASE job[p].next = "idle"
    BY <1>1, <1>3, <1>4, <1>6, <2>1, <2>3, TokenDropped DEF UpdateWrite
  <2>4. CASE job[p].next # "idle"
    <3>1. /\ pc' = [pc EXCEPT ![p] = job[p].next]
          /\ job' = [job EXCEPT ![p] = Holding(Held(p))]
      BY <1>6, <2>4 DEF UpdateWrite, UpdateDone
    <3>2. /\ pc'[p] = job[p].next
          /\ job'[p].stage = s
      BY <1>2, <3>1 DEF Holding, Held
    <3>3. ASSUME job[p].next = "advCheck" PROVE AtRest(c)
      <4>1. c[s] # "running"
        BY <1>1, <1>2, <2>1, <3>3 DEF Place, Snapshots
      <4>2. QED
        BY <1>2, <1>3, <2>2, <4>1, ActiveAtRest
    <3> HIDE DEF c, s
    <3>4. Place(p)'
      BY <1>2, <1>3, <2>1, <2>2, <2>4, <3>2, <3>3
      DEF Place, Advancing, Working, Reading, Dispatching
    <3>5. QED
      BY <1>1, <1>2, <1>3, <1>4, <2>1, <2>4, <3>1, <3>4, TokenKept
  <2>5. QED
    BY <2>3, <2>4
<1>7. QED
  BY <1>5, <1>6 DEF UpdateStep

LEMMA TokenWorker ==
  ASSUME TokenOK, IInv, Undisturbed, NEW w \in Workers,
         WorkerStep(w) \/ ReportProgress(w) \/ WorkerFault(w)
  PROVE  TokenOK'
<1> USE DEF row, history, bounds
<1>w. w \in Procs
  BY DEF Procs
<1>2. /\ pc \in [Procs -> PC]
      /\ queue \in [Message -> Nat]
      /\ job \in [Procs -> Job]
      /\ stages \in Snapshots
      /\ job[w].stage \in Stages
      /\ job[w].attempt \in 0 .. MaxAttempts
  BY <1>w DEF IInv, ProcsOK, RowOK, QueueOK, Job
<1>3. ~stop /\ Serial /\ FaultKinds \subseteq {"error"}
  BY DEF TokenOK, Undisturbed
<1>4. run' = "running" => Outcome'
  BY DEF Outcome
<1>5. pc[w] # "idle" => Alone(w) /\ Place(w)
  BY <1>w DEF TokenOK
<1>6. CASE Take(w)
  <2>1. PICK m \in Message :
          /\ queue[m] > 0
          /\ queue' = [queue EXCEPT ![m] = @ - 1]
          /\ job' = [job EXCEPT ![w] = Holding(m)]
    BY <1>6 DEF Take
  <2>2. InQueue(m)
    BY <2>1 DEF TokenOK
  <2>3. /\ pc' = [pc EXCEPT ![w] = "check"]
        /\ UNCHANGED <<run, stages, stop, asleep, reaping>>
    BY <1>6 DEF Take, timers
  <2>4. \A n \in Message : queue'[n] = 0
    BY <1>2, <2>1, <2>2 DEF InQueue
  <2>5. pc'[w] = "check" /\ job'[w].stage = m.stage
    BY <1>w, <1>2, <2>1, <2>3 DEF Holding
  <2>6. Place(w)'
    BY <2>2, <2>3, <2>5
    DEF InQueue, Place, Advancing, Working, Reading, Dispatching
  <2>7. \A q \in Procs : q # w => pc'[q] = "idle"
    BY <1>2, <2>2, <2>3 DEF InQueue, NoProcess
  <2>8. Alone(w)' /\ Outcome' /\ ~stop' /\ reaping' = {}
    BY <1>3, <1>4, <2>2, <2>3, <2>4, <2>7
    DEF InQueue, Alone, NoMessage, TokenOK
  <2>9. QED
    BY <2>4, <2>6, <2>7, <2>8 DEF TokenOK, Alone
<1>7. ~StartStopped(w)
  BY <1>3, Zenon DEF StartStopped, SeesStop
<1>8. ~MarkCancelled(w)
  BY <1>5 DEF MarkCancelled, Place, Advancing, Working
<1>9. CASE Start(w)
  <2>1. /\ pc[w] = "check"
        /\ pc' = [pc EXCEPT ![w] = "exec"]
        /\ UNCHANGED <<run, stages, job, stop, queue, asleep, reaping>>
    BY <1>9 DEF Start, Goto, timers
  <2>2. run = "running" /\ Active(stages, job[w].stage) /\ Alone(w)
    BY <1>5, <2>1 DEF Place, Working
  <2>3. Place(w)'
    BY <1>w, <1>2, <2>1, <2>2 DEF Place, Advancing, Working, Reading, Dispatching
  <2>4. QED
    BY <1>w, <1>2, <1>4, <2>1, <2>2, <2>3, TokenKept
<1>u. ASSUME NEW status \in {"running", "completed", "failed"},
             NEW next \in {"idle", "exec", "ended", "advCheck"},
             next = "advCheck" => status # "running",
             StartUpdate(w, job[w].stage, status, next),
             pc[w] \in Working,
             UNCHANGED <<run, stages, stop, queue, asleep, reaping>>
      PROVE  TokenOK'
  <2>1. /\ pc' = [pc EXCEPT ![w] = "updRead"]
        /\ job' = [job EXCEPT ![w] = [stage |-> job[w].stage,
                                      attempt |-> job[w].attempt,
                                      status |-> status, next |-> next]]
    BY <1>w, <1>2, <1>u DEF StartUpdate
  <2>2. /\ pc'[w] = "updRead"
        /\ job'[w].stage = job[w].stage
        /\ job'[w].next = next
        /\ job'[w].status = status
    BY <1>w, <1>2, <2>1
  <2>3. run = "running" /\ Active(stages, job[w].stage) /\ Alone(w)
    BY <1>5, <1>u DEF Place, Working
  <2>4. Place(w)'
    BY <1>u, <2>2, <2>3 DEF Place, Advancing, Working, Reading, Dispatching
  <2>5. QED
    BY <1>w, <1>2, <1>4, <1>u, <2>1, <2>2, <2>3, <2>4, TokenKept
<1>10. CASE ExecutorReturns(w)
  <2>1. /\ pc[w] \in Working
        /\ UNCHANGED <<run, stages, stop, queue, asleep, reaping>>
        /\ \/ StartUpdate(w, job[w].stage, "completed", "advCheck")
           \/ StartUpdate(w, job[w].stage, "failed", "advCheck")
    BY <1>10 DEF ExecutorReturns, timers, Working
  <2>2. QED
    BY <1>u, <2>1
<1>11. CASE ReportProgress(w)
  <2>1. /\ pc[w] \in Working
        /\ UNCHANGED <<run, stages, stop, queue, asleep, reaping>>
        /\ \/ StartUpdate(w, job[w].stage, "running", "exec")
           \/ StartUpdate(w, job[w].stage, "completed", "ended")
           \/ StartUpdate(w, job[w].stage, "failed", "ended")
    BY <1>11 DEF ReportProgress, timers, Working
  <2>2. QED
    BY <1>u, <2>1
<1>12. CASE ExecutorRaises(w)
  <2>1. /\ pc[w] \in Working
        /\ pc[w] # "idle"
        /\ UNCHANGED <<run, stages, stop, asleep, reaping>>
        /\ RetryOrGiveUp(w)
    BY <1>12 DEF ExecutorRaises, timers, Working
  <2>2. run = "running" /\ Active(stages, job[w].stage) /\ Alone(w)
    BY <1>5, <2>1 DEF Place, Working
  <2>3. CASE job[w].attempt < MaxAttempts
    <3>0. [stage |-> job[w].stage, attempt |-> job[w].attempt + 1] \in Message
      BY <1>2, <2>3, ConstantsAssumption DEF Message
    <3>1. PICK m \in Message :
            m = [stage |-> job[w].stage, attempt |-> job[w].attempt + 1]
      BY <3>0
    <3>2. m.stage = job[w].stage /\ Send(m) /\ Finish(w)
      BY <2>1, <2>3, <3>1 DEF RetryOrGiveUp
    <3>3. Active(stages, m.stage)'
      BY <2>1, <2>2, <3>2
    <3>4. QED
      BY <1>w, <1>4, <2>1, <2>2, <3>2, <3>3, TokenSent
  <2>4. CASE ~(job[w].attempt < MaxAttempts)
    <3>1. StartUpdate(w, job[w].stage, "failed", "idle") /\ UNCHANGED queue
      BY <2>1, <2>4 DEF RetryOrGiveUp
    <3>2. QED
      BY <1>u, <2>1, <3>1
  <2>5. QED
    BY <2>3, <2>4
<1>13. ~TaskLost(w) /\ ~Crash(w) /\ ~WorkerCallRaises(w)
  BY <1>3 DEF TaskLost, Crash, WorkerCallRaises, Fault
<1>14. QED
  BY <1>6, <1>7, <1>8, <1>9, <1>10, <1>11, <1>12, <1>13 DEF WorkerStep, WorkerFault

LEMMA TokenHandler ==
  ASSUME TokenOK, IInv, AbsentIdle, Undisturbed, NEW h \in Handlers,
         \/ HandlerStep(h) \/ Trigger(h) \/ HandlerFails(h)
         \/ AdminRequest(h) \/ AutoResume(h)
  PROVE  TokenOK'
<1> USE DEF row, history, bounds
<1>h. h \in Procs
  BY DEF Procs
<1>2. /\ pc \in [Procs -> PC]
      /\ snap \in [Procs -> Snapshots]
      /\ stages \in Snapshots
      /\ asleep \in Nat
  BY DEF IInv, ProcsOK, RowOK, RestOK
<1>3. Serial /\ AdminOps = {} /\ FaultKinds \subseteq {"error"}
  BY DEF Undisturbed
<1>4. pc[h] # "idle" => Alone(h) /\ Place(h)
  BY <1>h DEF TokenOK
<1>5. CASE ResumeWrite(h)
  <2>1. /\ pc[h] = "resumeWrite"
        /\ pc' = [pc EXCEPT ![h] = "advCheck"]
        /\ run' = "running"
        /\ stages' = snap[h]
        /\ UNCHANGED <<stop, queue, asleep, reaping>>
    BY <1>5 DEF ResumeWrite, Goto, timers
  <2>2. AtRest(snap[h]) /\ Alone(h)
    BY <1>4, <2>1 DEF Place
  <2>3. Place(h)'
    BY <1>h, <1>2, <2>1, <2>2 DEF Place, Advancing, Working, Reading, Dispatching
  <2>4. Outcome'
    BY <2>1 DEF Outcome
  <2>5. QED
    BY <1>h, <1>2, <2>1, <2>2, <2>3, <2>4, TokenKept
<1>6. ~(CancelWrite(h) \/ CancelSetFlag(h) \/ ForceAdvanceWrite(h) \/ ForceResetWrite(h))
  BY <1>4 DEF CancelWrite, CancelSetFlag, ForceAdvanceWrite, ForceResetWrite,
              Place, Advancing, Working
<1>7. ~HandlerFails(h)
  BY <1>3 DEF HandlerFails, Fault
<1>8. ~AdminRequest(h)
  BY <1>3 DEF AdminRequest, Request, RequestCancel, RequestRetry, RequestResume,
              RequestForceAdvance, RequestForceReset
<1>9. CASE Trigger(h)
  <2>1. /\ run = "absent"
        /\ pc' = [pc EXCEPT ![h] = "advCheck"]
        /\ run' = "running"
        /\ stages' = NoCopy
        /\ UNCHANGED <<stop, queue, asleep, reaping>>
    BY <1>9 DEF Trigger, Goto, timers, NoCopy
  <2>2. Alone(h)
    BY <2>1 DEF AbsentIdle, Alone, NoMessage
  <2>3. AtRest(NoCopy)
    BY <1>3, InitialAtRest
  <2>4. Place(h)'
    BY <1>h, <1>2, <2>1, <2>3 DEF Place, Advancing, Working, Reading, Dispatching
  <2>5. Outcome'
    BY <2>1 DEF Outcome
  <2>6. QED
    BY <1>h, <1>2, <2>1, <2>2, <2>4, <2>5, TokenKept
<1>10. CASE AutoResume(h)
  <2>1. /\ asleep > 0
        /\ asleep' = asleep - 1
        /\ ResumeRead(h)
        /\ UNCHANGED <<run, stages, stop, queue, reaping>>
    BY <1>10 DEF AutoResume
  <2>2. Sleeping
    BY <2>1 DEF TokenOK
  <2>3. asleep' = 0 /\ NoMessage' /\ Outcome' /\ ~stop' /\ reaping' = {}
    BY <2>1, <2>2 DEF Sleeping, NoMessage, TokenOK, Outcome
  <2>4. PICK leftover \in BOOLEAN :
          \/ Finish(h)
          \/ /\ pc' = [pc EXCEPT ![h] = "resumeWrite"]
             /\ snap' = [snap EXCEPT ![h] = ResetStages(stages, leftover)]
    BY <2>1 DEF ResumeRead
  <2>5. CASE Finish(h)
    <3>1. NoProcess'
      BY <1>2, <2>2, <2>5 DEF Sleeping, NoProcess, Finish
    <3>2. QED
      BY <2>3, <3>1 DEF TokenOK, NoProcess, NoMessage
  <2>6. CASE /\ pc' = [pc EXCEPT ![h] = "resumeWrite"]
             /\ snap' = [snap EXCEPT ![h] = ResetStages(stages, leftover)]
    <3>1. AllDone(stages)
      BY <2>2 DEF Sleeping, TokenOK, Outcome
    <3>2. AtRest(ResetStages(stages, leftover))
      BY <1>2, <1>3, <2>2, <3>1, ResetAtRest DEF Sleeping
    <3>3. Place(h)'
      BY <1>h, <1>2, <2>1, <2>2, <2>6, <3>2
      DEF Sleeping, Place, Advancing, Working, Reading, Dispatching
    <3>4. \A q \in Procs : q # h => pc'[q] = "idle"
      BY <1>2, <2>2, <2>6 DEF Sleeping, NoProcess
    <3>5. QED
      BY <2>3, <3>3, <3>4 DEF TokenOK, Alone, NoMessage
  <2>7. QED
    BY <2>4, <2>5, <2>6
<1>11. QED
  BY <1>5, <1>6, <1>7, <1>8, <1>9, <1>10 DEF HandlerStep

LEMMA TokenNext ==
  ASSUME TokenOK, IInv, AbsentIdle, Undisturbed, [Next]_vars
  PROVE  TokenOK'
<1>1. ASSUME NEW k \in AllReapers, ReapSelect(k) \/ ReapWrite(k) PROVE FALSE
  BY <1>1 DEF ReapSelect, ReapWrite, Undisturbed, TokenOK
<1>2. ~FlagExpires
  BY Zenon DEF FlagExpires, TokenOK
<1>3. CASE Tick \/ UNCHANGED vars
  <2>1. UNCHANGED <<run, stages, stop, queue, pc, snap, job, todo, asleep, reaping>>
    BY <1>3 DEF Tick, vars, row, procVars, timers
  <2>2. QED
    BY <2>1 DEF TokenOK, Outcome, Alone, Place, InQueue, Sleeping, NoMessage,
                NoProcess
<1>4. QED
  BY <1>1, <1>2, <1>3, TokenAdvance, TokenUpdate, TokenWorker, TokenHandler
  DEF Next

\* While nobody interferes, the one token is where the invariant says.
LEMMA TokenInvariant ==
  ASSUME Undisturbed
  PROVE  Spec => [](IInv /\ AbsentIdle /\ TokenOK)
<1>1. Init => TokenOK
  BY TokenInit DEF Undisturbed
<1>2. IInv /\ AbsentIdle /\ TokenOK /\ [Next]_vars => TokenOK'
  BY TokenNext
<1>3. IInv /\ AbsentIdle /\ [Next]_vars => AbsentIdle'
  BY AbsentStep
<1>4. QED
  BY <1>1, <1>2, <1>3, InitOK, NextOK, AbsentInit, PTL DEF Spec

\* The serial chain runs one stage at a time: advance_pipeline hands Celery the
\* next stage of an undisturbed run only when the one before has left, through
\* retries, final failures and auto-resumes.
THEOREM OneAtATime == ASSUME Undisturbed PROVE Spec => []OneStageAtATime
<1>1. ASSUME IInv, TokenOK PROVE OneStageAtATime
  <2>1. ASSUME NEW m \in Message PROVE queue[m] <= 1
    <3>1. queue[m] \in Nat
      BY <1>1 DEF IInv, QueueOK
    <3>2. queue[m] > 0 => queue[m] = 1
      BY <1>1 DEF TokenOK, InQueue
    <3>3. QED
      BY <3>1, <3>2
  <2>2. ASSUME NEW x \in UNION {InFlight(s) : s \in Stages}
        PROVE  \/ x \in Message /\ queue[x] > 0
               \/ x \in Workers /\ pc[x] # "idle"
    BY <2>2 DEF InFlight
  <2>3. ASSUME NEW m \in Message, queue[m] > 0
        PROVE  /\ \A n \in Message : queue[n] > 0 => n = m
               /\ \A w \in Workers : pc[w] = "idle"
    BY <1>1, <2>3 DEF TokenOK, InQueue, NoProcess, Procs
  <2>4. ASSUME NEW v \in Workers, NEW w \in Workers, pc[v] # "idle", pc[w] # "idle"
        PROVE  v = w
    BY <1>1, <2>4 DEF TokenOK, Alone, Procs
  <2>5. ASSUME NEW x \in UNION {InFlight(s) : s \in Stages},
               NEW y \in UNION {InFlight(s) : s \in Stages}
        PROVE  x = y
    <3>1. CASE x \in Message /\ queue[x] > 0
      BY <2>2, <2>3, <3>1
    <3>2. CASE x \in Workers /\ pc[x] # "idle"
      BY <2>2, <2>3, <2>4, <3>2
    <3>3. QED
      BY <2>2, <3>1, <3>2
  <2>6. QED
    BY <2>1, <2>5 DEF OneStageAtATime
<1>2. QED
  BY <1>1, TokenInvariant, PTL

\* The status complete_run writes agrees with the array: an undisturbed run is
\* never reported completed with a stage unfinished or failed, nor failed with
\* every stage completed, and no auto-resume leaves the two apart.
THEOREM OutcomeIsRight == ASSUME Undisturbed PROVE Spec => []OutcomeMatches
<1>1. TokenOK /\ IInv => OutcomeMatches
  BY DEF TokenOK, Outcome, OutcomeMatches, AllDone, Failed
<1>2. QED
  BY <1>1, TokenInvariant, PTL

\* The strict life of a run (RunContract): an undisturbed run ends once, stages
\* complete only while it runs, and only resume_run reopens it, after a failure.
THEOREM StrictContractKept ==
  ASSUME Undisturbed
  PROVE  Spec => ImplementsStrictContract
<1>1. Init => Contract!Init
  BY DEF Init, Contract!Init
<1>2. ASSUME IInv, AbsentIdle, TokenOK, [Next]_vars
      PROVE  [Contract!StrictNext]_<<run, done>>
  <2> USE DEF row, history
  <2>0. Contract!Stages = Stages
    BY DEF Contract!Stages, Stages
  <2>1. [Contract!Next]_<<run, done>>
    BY <1>2, StepImplements
  <2>2. ASSUME NEW p \in Procs, UpdateWrite(p)
        PROVE  [Contract!StrictNext]_<<run, done>>
    <3>1. run = "running" /\ run' = run
      BY <1>2, <2>2 DEF UpdateWrite, TokenOK, Place, Working
    <3>2. QED
      BY <2>0, <2>1, <3>1
      DEF Contract!Next, Contract!StrictNext, Contract!Begin, Contract!Succeed,
          Contract!GiveUp, Contract!Reopen
  <2>3. ASSUME NEW p \in Procs, AdvanceComplete(p)
        PROVE  [Contract!StrictNext]_<<run, done>>
    <3>1. run = "running" /\ run' \in {"completed", "failed"}
      BY <1>2, <2>3 DEF AdvanceComplete, TokenOK, Place, Advancing
    <3>2. QED
      BY <2>1, <3>1
      DEF Contract!Next, Contract!StrictNext, Contract!Begin,
          Contract!CompleteStage, Contract!Reopen
  <2>4. ASSUME NEW h \in Handlers, ResumeWrite(h)
        PROVE  [Contract!StrictNext]_<<run, done>>
    <3>1. run = "failed" /\ run' = "running" /\ done' = done
      BY <1>2, <2>4 DEF ResumeWrite, TokenOK, Place, Procs
    <3>2. QED
      BY <3>1 DEF Contract!StrictNext, Contract!Reopen
  <2>5. ASSUME NEW h \in Handlers, Trigger(h)
        PROVE  [Contract!StrictNext]_<<run, done>>
    BY <2>5 DEF Trigger, Contract!StrictNext, Contract!Begin
  <2>6. ASSUME NEW h \in Handlers, CancelWrite(h) \/ ForceResetWrite(h)
        PROVE  FALSE
    BY <1>2, <2>6 DEF CancelWrite, ForceResetWrite, TokenOK, Place, Procs,
                      Advancing, Working
  <2>7. ASSUME NEW k \in AllReapers, ReapWrite(k)
        PROVE  FALSE
    BY <1>2, <2>7 DEF ReapWrite, TokenOK
  <2>8. QED
    BY <1>2, <2>2, <2>3, <2>4, <2>5, <2>6, <2>7, RowWriters
<1>3. QED
  BY <1>1, <1>2, TokenInvariant, PTL
  DEF Spec, ImplementsStrictContract, Contract!StrictSpec, Contract!vars


=============================================================================

---------------------------- MODULE CronProofs ----------------------------
(***************************************************************************)
(* Theorems about the cron scheduler: its types, and that a schedule is    *)
(* dispatched once for each occurrence of its expression.                  *)
(***************************************************************************)
EXTENDS CronSchedule, WellFoundedInduction, TLAPS

-----------------------------------------------------------------------------
\* Time goes in a circle.

LEMMA Division ==
    ASSUME NEW C \in Nat \ {0}, NEW x \in Nat
    PROVE  x \div C \in Nat /\ x = C * (x \div C) + (x % C)
OBVIOUS
LEMMA ModUnique ==
    ASSUME NEW C \in Nat \ {0}, NEW p \in Int, NEW q \in Int,
           NEW r \in 0 .. C - 1, NEW t \in 0 .. C - 1, C * p + r = C * q + t
    PROVE  r = t
<1>1. C * (p - q) = t - r
  OBVIOUS
<1>2. CASE p - q >= 1
  <2>1. C * (p - q) >= C
    BY <1>2, SMT
  <2> QED BY <1>1, <2>1
<1>3. CASE q - p >= 1
  <2>1. C * (q - p) >= C
    BY <1>3, SMT
  <2>2. C * (q - p) = r - t
    BY <1>1
  <2> QED BY <2>2, <2>1
<1>4. CASE p = q
  BY <1>4
<1> QED BY <1>2, <1>3, <1>4
LEMMA ModTurn ==
    ASSUME NEW C \in Nat \ {0}, NEW x \in Nat
    PROVE  (x + C) % C = x % C
<1> DEFINE p == (x \div C) + 1
           q == (x + C) \div C
           r == x % C
           t == (x + C) % C
<1>1. x \div C \in Nat /\ x = C * (x \div C) + (x % C)
  BY Division
<1>2. q \in Int /\ x + C = C * q + t
  BY Division
<1>3. p \in Int /\ x + C = C * p + r
  BY <1>1
<1>4. r \in 0 .. C - 1 /\ t \in 0 .. C - 1
  OBVIOUS
<1> HIDE DEF p, q, r, t
<1>5. r = t
  BY <1>2, <1>3, <1>4, ModUnique
<1> QED BY <1>5 DEF r, t

\* A tick later, with a tick less to go, it is the same time.
LEMMA SameTime ==
    ASSUME NEW C \in Nat \ {0}, NEW p \in 0 .. C - 1, NEW d \in Nat \ {0}
    PROVE  (((p + 1) % C) + (d - 1)) % C = (p + d) % C
<1>1. CASE p + 1 < C
  <2>1. (p + 1) % C = p + 1
    BY <1>1
  <2> QED BY <2>1
<1>2. CASE p + 1 = C
  <2>1. (p + 1) % C = 0
    BY <1>2
  <2>2. p + d = (d - 1) + C /\ d - 1 \in Nat
    BY <1>2
  <2>3. ((d - 1) + C) % C = (d - 1) % C
    BY <2>2, ModTurn
  <2>4. ((p + 1) % C) + (d - 1) = d - 1
    BY <2>1
  <2> QED BY <2>2, <2>3, <2>4
<1> QED BY <1>1, <1>2

LEMMA LeastNatural ==
    ASSUME NEW S \in SUBSET Nat, S # {}
    PROVE  \E x \in S : \A y \in S : x <= y
<1> DEFINE R == OpToRel(<, Nat)
<1>1. IsWellFoundedOn(R, Nat)
  BY NatLessThanWellFounded
<1>2. \A x, y \in Nat : x < y => <<x, y>> \in R
  BY DEF OpToRel
<1> HIDE DEF R
<1>3. \E x \in S : \A y \in S : ~ (<<y, x>> \in R)
  <2>1. S \subseteq Nat
    OBVIOUS
  <2> QED BY <1>1, <2>1, WFMin, Zenon
<1>4. PICK x \in S : \A y \in S : ~ (<<y, x>> \in R)
  BY <1>3
<1>5. \A y \in S : ~ (y < x)
  BY <1>2, <1>4, Zenon
<1> QED BY <1>5

\* compute_next_cron finds the next occurrence, strictly in the future.
LEMMA NextCronFinds ==
    ASSUME CronAssumption, phase \in 0 .. Cycle - 1,
           NEW cron \in SUBSET (0 .. Cycle - 1)
    PROVE  /\ NextCron(cron) \in Never .. Top
           /\ NextCron(cron) # 0
           /\ NextCron(cron) = Never <=> cron = {}
           /\ NextCron(cron) > 0 => Occurs(cron, (phase + NextCron(cron)) % Cycle)
<1>1. Cycle \in Nat \ {0} /\ HalfHour \in Nat \ {0}
  BY DEF CronAssumption
<1>2. Top >= Cycle /\ Top >= Hour /\ Top \in Nat /\ Hour \in Nat \ {0}
  BY <1>1 DEF Top, Hour
<1>3. CASE cron = {}
  BY <1>2, <1>3 DEF NextCron, Never
<1>4. CASE cron # {}
  <2> DEFINE Next1(d) == /\ (phase + d) % Cycle \in cron
                         /\ \A e \in 1 .. d - 1 : (phase + e) % Cycle \notin cron
             D == {d \in 1 .. Cycle : (phase + d) % Cycle \in cron}
  <2>1. PICK c \in cron : c \in 0 .. Cycle - 1
    BY <1>4
  <2>2. ASSUME c > phase PROVE D # {}
    <3>1. c - phase \in 1 .. Cycle
      BY <1>1, <2>1, <2>2
    <3>2. phase + (c - phase) = c /\ c % Cycle = c
      BY <1>1, <2>1
    <3> QED BY <3>1, <3>2, <2>1
  <2>3. ASSUME c <= phase PROVE D # {}
    <3>1. c - phase + Cycle \in 1 .. Cycle
      BY <1>1, <2>1, <2>3
    <3>2. phase + (c - phase + Cycle) = c + Cycle /\ c % Cycle = c /\ c \in Nat
      BY <1>1, <2>1
    <3>3. (c + Cycle) % Cycle = c
      BY <1>1, <3>2, ModTurn
    <3>4. c - phase + Cycle \in D
      BY <3>1, <3>2, <3>3, <2>1
    <3> QED BY <3>4
  <2>4. D # {} /\ D \in SUBSET Nat
    BY <2>1, <2>2, <2>3, <1>1
  <2>5. PICK d \in D : \A e \in D : d <= e
    BY <2>4, LeastNatural
  <2>6. d \in 1 .. Cycle /\ Next1(d)
    <3>1. \A e \in 1 .. d - 1 : e \in 1 .. Cycle /\ ~ (d <= e)
      BY <1>1, <2>5
    <3> QED BY <2>5, <3>1
  <2>7. NextCron(cron) = CHOOSE x \in 1 .. Cycle : Next1(x)
    BY <1>4 DEF NextCron
  <2> HIDE DEF Next1, D
  <2>8. NextCron(cron) \in 1 .. Cycle /\ Next1(NextCron(cron))
    BY <2>6, <2>7
  <2> QED BY <2>8, <1>1, <1>2, <1>4 DEF Next1, Never, Occurs
<1> QED BY <1>3, <1>4

-----------------------------------------------------------------------------
\* What the variables hold besides their types: the scan has nothing open when it is
\* idle, a schedule is due, being sent or stamped but never two of these, and what a
\* scan or a worker knows of a schedule has been read from a row.  A scan sends one task
\* at a time.
Shape ==
    /\ pc = "idle" => due = {} /\ sending = {} /\ staged = {}
    /\ due \cap sending = {} /\ due \cap staged = {} /\ sending \cap staged = {}
    /\ due \cup sending \subseteq used
    /\ \A s, t \in sending : s = t
    /\ \A s \in live : row[s] \in Row
    /\ \A s \in due \cup sending \cup staged : seen[s] \in Row
    /\ \A w \in Workers : wpc[w] # "idle" => job[w].id \in used

LEMMA Constants ==
    /\ Cycle \in Nat \ {0} /\ HalfHour \in Nat \ {0} /\ Hour \in Nat \ {0}
    /\ Top \in Nat \ {0} /\ Hour <= Top /\ Cycle <= Top
    /\ NoMessage \in Message
    /\ \A cron \in Crons : cron \in SUBSET (0 .. Cycle - 1)
<1>1. Cycle \in Nat \ {0} /\ HalfHour \in Nat \ {0} /\ MaxAttempts \in Nat
  BY CronAssumption DEF CronAssumption
<1>2. \E m \in Message : TRUE
  <2>1. PICK s \in Schedules : TRUE
    BY CronAssumption DEF CronAssumption
  <2>2. [id |-> s, attempt |-> 0] \in Message
    BY <1>1, <2>1 DEF Message
  <2> QED BY <2>2
<1>3. NoMessage \in Message
  BY <1>2 DEF NoMessage
<1>4. \A cron \in Crons : cron \in SUBSET (0 .. Cycle - 1)
  BY CronAssumption DEF CronAssumption
<1> QED BY <1>1, <1>3, <1>4 DEF Top, Hour

\* Setting the time of a row leaves the rest of it.
LEMMA RowWithWait ==
    ASSUME NEW r \in Row, NEW n \in Never .. Top
    PROVE  /\ [r EXCEPT !.wait = n] \in Row
           /\ [r EXCEPT !.wait = n].wait = n
           /\ [r EXCEPT !.wait = n].cron = r.cron
  BY DEF Row

LEMMA BlankRow ==
    Blank.cron = {} /\ Blank.wait = Never /\ [Blank EXCEPT !.wait = Sooner(Never)] = Blank
  BY DEF Blank, Sooner, Never

\* A tick brings a time that is set one tick nearer.
LEMMA SoonerWait ==
    ASSUME NEW n \in Never .. Top
    PROVE  /\ Sooner(n) \in Never .. Top
           /\ Sooner(n) > 0 => n = Sooner(n) + 1
           /\ Sooner(n) = 0 => n \in {0, 1}
  BY Constants DEF Sooner, Never

LEMMA RowSooner ==
    ASSUME NEW r \in Row \cup {Blank}
    PROVE  /\ [r EXCEPT !.wait = Sooner(@)] \in Row \cup {Blank}
           /\ r \in Row => [r EXCEPT !.wait = Sooner(@)] \in Row
           /\ [r EXCEPT !.wait = Sooner(@)].wait = Sooner(r.wait)
           /\ [r EXCEPT !.wait = Sooner(@)].cron = r.cron
           /\ r.wait \in Never .. Top
<1>1. CASE r \in Row
  <2>1. r.wait \in Never .. Top
    BY <1>1 DEF Row
  <2>2. Sooner(r.wait) \in Never .. Top
    BY <2>1, SoonerWait
  <2>3. [r EXCEPT !.wait = Sooner(@)] = [r EXCEPT !.wait = Sooner(r.wait)]
    BY <1>1 DEF Row
  <2> QED BY <1>1, <2>1, <2>2, <2>3, RowWithWait
<1>2. CASE r = Blank
  <2>1. [Blank EXCEPT !.wait = Sooner(@)] = Blank /\ Sooner(Blank.wait) = Blank.wait
    BY DEF Blank, Sooner, Never
  <2>2. Never \in Never .. Top
    BY Constants DEF Never
  <2>3. Blank \in Row => Blank \in Row
    OBVIOUS
  <2> QED BY <1>2, <2>1, <2>2, BlankRow
<1> QED BY <1>1, <1>2

LEMMA ShapeInit == Init => TypeOK /\ Shape
<1> SUFFICES ASSUME Init PROVE TypeOK /\ Shape
  OBVIOUS
<1>1. phase \in 0 .. Cycle - 1 /\ phase = 0
  BY Constants DEF Init
<1>2. PICK cron \in Crons : row = [s \in Schedules |->
                IF s \in Seeded
                THEN [enabled |-> TRUE, cron |-> cron, wait |-> NextCron(cron)]
                ELSE Blank]
  BY DEF Init
<1>3. NextCron(cron) \in Never .. Top
  BY <1>1, NextCronFinds, Constants, CronAssumption
<1>4. [enabled |-> TRUE, cron |-> cron, wait |-> NextCron(cron)] \in Row
  BY <1>3 DEF Row
<1>5. Seeded \subseteq Schedules /\ MaxRequests \in Nat /\ MaxFaults \in Nat
  BY CronAssumption DEF CronAssumption
<1>6. row \in [Schedules -> Row \cup {Blank}] /\ \A s \in live : row[s] \in Row
  BY <1>2, <1>4, <1>5 DEF Init
<1>7. job \in [Workers -> Message] /\ copy \in [Workers -> Crons \cup {{}}]
  BY Constants DEF Init
<1>8. running \in [Ages -> Nat] /\ failed \in [0 .. Hour -> Nat] /\ queue \in [Message -> Nat]
  BY DEF Init
<1>9. sent \in [Schedules -> Nat] /\ seen \in [Schedules -> Row \cup {Blank}]
      /\ wpc \in [Workers -> {"idle", "starting", "recording"}]
  BY DEF Init
<1>10. /\ live \subseteq used /\ used \subseteq Schedules /\ pc = "idle" /\ due = {}
       /\ sending = {} /\ staged = {} /\ requests = 0 /\ faults = 0 /\ edited = {}
  BY <1>5 DEF Init
<1>11. TypeOK
  BY <1>1, <1>5, <1>6, <1>7, <1>8, <1>9, <1>10 DEF TypeOK
<1>12. \A w \in Workers : wpc[w] = "idle"
  BY DEF Init
<1> QED BY <1>6, <1>10, <1>11, <1>12 DEF Shape

\* A fault or a request is counted up to its bound.
LEMMA BoundsCount ==
    ASSUME TypeOK, Fault \/ Request \/ UNCHANGED bounds
    PROVE  requests' \in 0 .. MaxRequests /\ faults' \in 0 .. MaxFaults
<1>1. MaxRequests \in Nat /\ MaxFaults \in Nat
  BY CronAssumption DEF CronAssumption
<1> QED BY <1>1 DEF TypeOK, Fault, Request, bounds

\* The end of a scan that leaves the rows alone.
LEMMA RollbackTypes ==
    ASSUME TypeOK, Shape, Rollback, Fault \/ UNCHANGED bounds
    PROVE  TypeOK' /\ Shape'
<1>1. /\ pc' = "idle" /\ due' = {} /\ sending' = {} /\ staged' = {}
      /\ seen' = [s \in Schedules |-> Blank]
      /\ UNCHANGED <<phase, edited, live, used, row, queue, wpc, job, copy, running, failed>>
  BY DEF Rollback, EndScan, table, workerVars, runs
<1>2. sent' \in [Schedules -> Nat]
  BY DEF Rollback, TypeOK
<1>3. requests' \in 0 .. MaxRequests /\ faults' \in 0 .. MaxFaults
  BY BoundsCount
<1>4. seen' \in [Schedules -> Row \cup {Blank}]
  BY <1>1
<1> QED BY <1>1, <1>2, <1>3, <1>4 DEF TypeOK, Shape

LEMMA ScannerTypes ==
    ASSUME TypeOK, Shape,
           ScannerStep \/ ScanAborts \/ \E s \in Schedules : DispatchFails(s)
    PROVE  TypeOK' /\ Shape'
<1> USE DEF TypeOK, Shape
<1>1. CASE ScanDue
  <2>1. due' \subseteq live /\ \A s \in due' : seen'[s] \in Row
    BY <1>1 DEF ScanDue, Due
  <2>2. UNCHANGED <<phase, sent, edited, live, used, row, sending, staged, queue,
                    wpc, job, copy, running, failed, requests, faults>>
    BY <1>1 DEF ScanDue, clock, table, workerVars, runs, bounds
  <2>3. pc' = "counting" /\ seen' = row /\ sending = {} /\ staged = {}
    BY <1>1 DEF ScanDue
  <2> QED BY <2>1, <2>2, <2>3
<1>2. CASE CheckBreaker
  <2>1. UNCHANGED <<phase, sent, edited, live, used, row, seen, sending, staged, queue,
                    wpc, job, copy, running, failed, requests, faults>>
    BY <1>2 DEF CheckBreaker, clock, table, workerVars, runs, bounds
  <2>2. pc' = "sending" /\ due' \subseteq due
    BY <1>2 DEF CheckBreaker
  <2> QED BY <2>1, <2>2
<1>3. ASSUME NEW s \in Schedules, Dispatch(s) PROVE TypeOK' /\ Shape'
  <2>1. UNCHANGED <<phase, edited, live, used, row, pc, seen, staged,
                    wpc, job, copy, running, failed, requests, faults>>
    BY <1>3 DEF Dispatch, table, workerVars, runs, bounds
  <2>2. pc = "sending" /\ s \in due /\ due' = due \ {s} /\ sending' = {s}
    BY <1>3 DEF Dispatch
  <2>3. sent' \in [Schedules -> Nat]
    BY <1>3 DEF Dispatch
  <2>4. queue' \in [Message -> Nat]
    <3> DEFINE m == [id |-> s, attempt |-> 0]
    <3>1. m \in Message
      BY CronAssumption DEF CronAssumption, Message
    <3>2. queue' = queue \/ queue' = [queue EXCEPT ![m] = @ + 1]
      BY <1>3 DEF Dispatch
    <3>3. queue \in [Message -> Nat]
      OBVIOUS
    <3> HIDE DEF m
    <3>4. [queue EXCEPT ![m] = @ + 1] \in [Message -> Nat]
      BY <3>1, <3>3
    <3> QED BY <3>2, <3>3, <3>4
  <2> QED BY <2>1, <2>2, <2>3, <2>4
<1>4. ASSUME NEW s \in Schedules, DispatchFails(s) PROVE TypeOK' /\ Shape'
  <2>1. UNCHANGED <<phase, sent, edited, live, used, row, pc, seen, sending, staged,
                    queue, wpc, job, copy, running, failed>>
    BY <1>4 DEF DispatchFails, clock, table, workerVars, runs
  <2>2. pc = "sending" /\ due' = due \ {s}
    BY <1>4 DEF DispatchFails
  <2>3. requests' \in 0 .. MaxRequests /\ faults' \in 0 .. MaxFaults
    BY <1>4, BoundsCount DEF DispatchFails
  <2> QED BY <2>1, <2>2, <2>3
<1>5. ASSUME NEW s \in Schedules, Stamp(s) PROVE TypeOK' /\ Shape'
  <2>1. UNCHANGED <<phase, sent, edited, live, used, row, pc, due, queue,
                    wpc, job, copy, running, failed, requests, faults>>
    BY <1>5 DEF Stamp, clock, table, workerVars, runs, bounds
  <2>2. s \in sending /\ s \in live /\ sending' = {} /\ staged' = staged \cup {s}
    BY <1>5 DEF Stamp
  <2> DEFINE next == NextCron(seen[s].cron)
             wait == IF next = Never THEN Hour ELSE next
  <2>3. seen[s] \in Row /\ seen[s].cron \in SUBSET (0 .. Cycle - 1)
    BY <2>2, Constants DEF Row
  <2>4. wait \in Never .. Top
    BY <2>3, NextCronFinds, CronAssumption, Constants DEF Never
  <2>5. seen' = [seen EXCEPT ![s].wait = wait]
    BY <1>5 DEF Stamp
  <2>6. seen' = [seen EXCEPT ![s] = [seen[s] EXCEPT !.wait = wait]]
    BY <2>5
  <2>7. [seen[s] EXCEPT !.wait = wait] \in Row
    BY <2>3, <2>4, RowWithWait
  <2> HIDE DEF wait
  <2>8. seen' \in [Schedules -> Row \cup {Blank}] /\ seen'[s] \in Row
        /\ \A t \in Schedules : t # s => seen'[t] = seen[t]
    BY <2>6, <2>7
  <2>9. \A t \in due' \cup sending' \cup staged' : seen'[t] \in Row
    BY <2>1, <2>2, <2>8
  <2> QED BY <2>1, <2>2, <2>8, <2>9
<1>6. ASSUME NEW s \in Schedules, StampFails(s) PROVE TypeOK' /\ Shape'
  BY <1>6, RollbackTypes DEF StampFails
<1>7. CASE ScanAborts
  BY <1>7, RollbackTypes DEF ScanAborts
<1>8. CASE CommitScan
  <2>1. UNCHANGED <<phase, sent, edited, live, used, queue,
                    wpc, job, copy, running, failed, requests, faults>>
    BY <1>8 DEF CommitScan, clock, workerVars, runs, bounds
  <2>2. /\ pc' = "idle" /\ due' = {} /\ sending' = {} /\ staged' = {}
        /\ seen' = [s \in Schedules |-> Blank]
    BY <1>8 DEF CommitScan, EndScan
  <2>3. ASSUME NEW s \in staged PROVE [row[s] EXCEPT !.wait = seen[s].wait] \in Row
    <3>1. row[s] \in Row /\ seen[s].wait \in Never .. Top
      BY DEF Row
    <3> QED BY <3>1, RowWithWait
  <2>4. \A s \in Schedules :
            /\ row'[s] \in Row \cup {Blank}
            /\ s \in live => row'[s] \in Row
    BY <1>8, <2>3 DEF CommitScan
  <2>5. row' \in [Schedules -> Row \cup {Blank}]
    BY <1>8, <2>4 DEF CommitScan
  <2>6. seen' \in [Schedules -> Row \cup {Blank}]
    BY <2>2
  <2> QED BY <2>1, <2>2, <2>4, <2>5, <2>6
<1> QED BY <1>1, <1>2, <1>3, <1>4, <1>5, <1>6, <1>7, <1>8 DEF ScannerStep

\* Nothing but the workers, the queue, the runs and the bounds changes.
WorkOnly ==
    UNCHANGED <<phase, sent, edited, live, used, row, pc, due, seen, sending, staged>>

LEMMA IdleTypes ==
    ASSUME TypeOK, NEW w \in Workers, Idle(w)
    PROVE  /\ wpc' \in [Workers -> {"idle", "starting", "recording"}]
           /\ job' \in [Workers -> Message]
           /\ copy' \in [Workers -> Crons \cup {{}}]
           /\ wpc'[w] = "idle"
           /\ \A v \in Workers : v # w =>
                wpc'[v] = wpc[v] /\ job'[v] = job[v] /\ copy'[v] = copy[v]
  BY Constants DEF Idle, TypeOK

LEMMA StartTypes ==
    ASSUME TypeOK, TriggerAndStart
    PROVE  running' \in [Ages -> Nat] /\ failed' = failed
<1> DEFINE others == [a \in Ages |-> IF a > HalfHour THEN 0 ELSE running[a]]
<1>1. others \in [Ages -> Nat] /\ 0 \in Ages
  BY Constants DEF TypeOK, Ages
<1>2. running' = [others EXCEPT ![0] = @ + 1] /\ failed' = failed
  BY DEF TriggerAndStart
<1> HIDE DEF others
<1> QED BY <1>1, <1>2

LEMMA RetryTypes ==
    ASSUME TypeOK, NEW w \in Workers, RetryTask(w)
    PROVE  queue' \in [Message -> Nat]
  BY DEF RetryTask, TypeOK

LEMMA WorkerTypes ==
    ASSUME TypeOK, Shape, NEW w \in Workers,
           WorkerStep(w) \/ StartFails(w) \/ RecordFails(w) \/ WorkerCrash(w)
    PROVE  TypeOK' /\ Shape'
<1> USE DEF TypeOK, Shape
<1>1. CASE TakeTask(w)
  <2>1. WorkOnly /\ UNCHANGED <<running, failed, requests, faults>>
    BY <1>1 DEF TakeTask, WorkOnly, clock, table, scanner, runs, bounds
  <2>2. PICK m \in Message :
            /\ queue[m] > 0
            /\ queue' = [queue EXCEPT ![m] = @ - 1]
            /\ IF m.id \in live
               THEN /\ wpc' = [wpc EXCEPT ![w] = "starting"]
                    /\ job' = [job EXCEPT ![w] = m]
                    /\ copy' = [copy EXCEPT ![w] = row[m.id].cron]
               ELSE UNCHANGED workerVars
    BY <1>1 DEF TakeTask
  <2>3. queue' \in [Message -> Nat]
    BY <2>2
  <2>4. CASE m.id \in live
    <3>1. row[m.id].cron \in Crons
      BY <2>4 DEF Row
    <3>2. /\ wpc' \in [Workers -> {"idle", "starting", "recording"}]
          /\ job' \in [Workers -> Message]
          /\ copy' \in [Workers -> Crons \cup {{}}]
      BY <2>2, <2>4, <3>1
    <3>3. \A v \in Workers : wpc'[v] # "idle" => job'[v].id \in used
      BY <2>2, <2>4
    <3> QED BY <2>1, <2>3, <3>2, <3>3 DEF WorkOnly
  <2>5. CASE m.id \notin live
    <3>1. UNCHANGED <<wpc, job, copy>>
      BY <2>2, <2>5 DEF workerVars
    <3> QED BY <2>1, <2>3, <3>1 DEF WorkOnly
  <2> QED BY <2>4, <2>5
<1>2. CASE StartRun(w)
  <2>1. WorkOnly /\ UNCHANGED <<queue, job, copy, requests, faults>>
    BY <1>2 DEF StartRun, WorkOnly, clock, table, scanner, bounds
  <2>2. wpc[w] = "starting" /\ wpc' = [wpc EXCEPT ![w] = "recording"]
    BY <1>2 DEF StartRun
  <2>3. running' \in [Ages -> Nat] /\ failed' = failed
    BY <1>2, StartTypes DEF StartRun
  <2> QED BY <2>1, <2>2, <2>3 DEF WorkOnly
<1>3. CASE RowGone(w)
  <2>1. WorkOnly /\ UNCHANGED <<running, failed, requests, faults>>
    BY <1>3 DEF RowGone, WorkOnly, clock, table, scanner, runs, bounds
  <2>2. RetryTask(w) /\ Idle(w)
    BY <1>3 DEF RowGone, RetryTask
  <2> QED BY <2>1, <2>2, RetryTypes, IdleTypes DEF WorkOnly
<1>4. CASE RecordFails(w)
  <2>1. WorkOnly /\ UNCHANGED <<running, failed>>
    BY <1>4 DEF RecordFails, WorkOnly, clock, table, scanner, runs
  <2>2. RetryTask(w) /\ Idle(w) /\ Fault
    BY <1>4 DEF RecordFails, RetryTask
  <2> QED BY <2>1, <2>2, RetryTypes, IdleTypes, BoundsCount DEF WorkOnly
<1>5. CASE StartFails(w)
  <2>1. WorkOnly
    BY <1>5 DEF StartFails, WorkOnly, clock, table, scanner
  <2>2. RetryTask(w) /\ Idle(w) /\ Fault
    BY <1>5 DEF StartFails, RetryTask
  <2>3. running' \in [Ages -> Nat] /\ failed' = failed
    BY <1>5, StartTypes DEF StartFails, runs
  <2> QED BY <2>1, <2>2, <2>3, RetryTypes, IdleTypes, BoundsCount DEF WorkOnly
<1>6. CASE WorkerCrash(w)
  <2>1. WorkOnly /\ UNCHANGED <<queue, running, failed>>
    BY <1>6 DEF WorkerCrash, WorkOnly, clock, table, scanner, runs
  <2>2. Idle(w) /\ Fault
    BY <1>6 DEF WorkerCrash
  <2> QED BY <2>1, <2>2, IdleTypes, BoundsCount DEF WorkOnly
<1>7. CASE Record(w)
  <2> DEFINE s == job[w].id
             r == [row[s] EXCEPT !.wait = NextCron(copy[w])]
  <2>1. UNCHANGED <<phase, sent, edited, live, used, pc, due, seen, sending, staged,
                    queue, running, failed, requests, faults>>
    BY <1>7 DEF Record, clock, scanner, runs, bounds
  <2>2. Idle(w) /\ s \in live
    BY <1>7 DEF Record
  <2>3. copy[w] \in SUBSET (0 .. Cycle - 1)
    BY Constants
  <2>4. r \in Row
    <3>1. row[s] \in Row /\ NextCron(copy[w]) \in Never .. Top
      BY <2>2, <2>3, NextCronFinds, CronAssumption
    <3> QED BY <3>1, RowWithWait
  <2>5. row' = [row EXCEPT ![s] = r]
    BY <1>7 DEF Record
  <2> HIDE DEF r, s
  <2>6. row' \in [Schedules -> Row \cup {Blank}] /\ \A t \in live : row'[t] \in Row
    BY <2>4, <2>5, <2>2
  <2> QED BY <2>1, <2>2, <2>6, IdleTypes
<1> QED BY <1>1, <1>2, <1>3, <1>4, <1>5, <1>6, <1>7 DEF WorkerStep

LEMMA AdminTypes ==
    ASSUME TypeOK, Shape, NEW s \in Schedules,
           Create(s) \/ Update(s) \/ Delete(s) \/ TriggerNow(s)
    PROVE  TypeOK' /\ Shape'
<1> USE DEF TypeOK, Shape
<1>0. requests' \in 0 .. MaxRequests /\ faults' \in 0 .. MaxFaults
  BY BoundsCount DEF Create, Update, Delete, TriggerNow
<1>1. CASE Create(s)
  <2>1. UNCHANGED <<phase, sent, edited, pc, due, seen, sending, staged, queue,
                    wpc, job, copy, running, failed>>
    BY <1>1 DEF Create, clock, scanner, workerVars, runs
  <2>2. s \notin used /\ used' = used \cup {s} /\ live' = live \cup {s}
    BY <1>1 DEF Create
  <2>3. PICK enabled \in BOOLEAN, cron \in Crons :
            row' = [row EXCEPT ![s] =
                    [enabled |-> enabled, cron |-> cron, wait |-> NextCron(cron)]]
    BY <1>1 DEF Create
  <2>4. [enabled |-> enabled, cron |-> cron, wait |-> NextCron(cron)] \in Row
    <3>1. NextCron(cron) \in Never .. Top
      BY NextCronFinds, CronAssumption, Constants
    <3> QED BY <3>1 DEF Row
  <2>5. row' \in [Schedules -> Row \cup {Blank}] /\ row'[s] \in Row
        /\ \A t \in Schedules : t # s => row'[t] = row[t]
    BY <2>3, <2>4
  <2> QED BY <1>0, <2>1, <2>2, <2>5
<1>2. CASE Update(s)
  <2>1. UNCHANGED <<phase, sent, live, used, pc, due, seen, sending, staged, queue,
                    wpc, job, copy, running, failed>>
    BY <1>2 DEF Update, scanner, workerVars, runs
  <2>2. s \in live /\ edited' \subseteq Schedules
    BY <1>2 DEF Update
  <2>3. PICK enabled \in BOOLEAN, cron \in Crons :
            row' = [row EXCEPT ![s].enabled = enabled, ![s].cron = cron]
    BY <1>2 DEF Update
  <2>4. row[s] \in Row
    BY <2>2
  <2>5. row' = [row EXCEPT ![s] = [row[s] EXCEPT !.enabled = enabled, !.cron = cron]]
    BY <2>3
  <2>6. [row[s] EXCEPT !.enabled = enabled, !.cron = cron] \in Row
    BY <2>4 DEF Row
  <2>7. row' \in [Schedules -> Row \cup {Blank}] /\ row'[s] \in Row
        /\ \A t \in Schedules : t # s => row'[t] = row[t]
    BY <2>5, <2>6
  <2> QED BY <1>0, <2>1, <2>2, <2>7
<1>3. CASE Delete(s)
  <2>1. UNCHANGED <<phase, sent, edited, used, pc, due, seen, sending, staged, queue,
                    wpc, job, copy, running, failed>>
    BY <1>3 DEF Delete, clock, scanner, workerVars, runs
  <2>2. s \in live \ staged /\ live' = live \ {s} /\ row' = [row EXCEPT ![s] = Blank]
    BY <1>3 DEF Delete
  <2> QED BY <1>0, <2>1, <2>2
<1>4. CASE TriggerNow(s)
  <2>1. WorkOnly /\ UNCHANGED <<queue, wpc, job, copy>>
    BY <1>4 DEF TriggerNow, WorkOnly, clock, table, scanner, workerVars
  <2>2. running' \in [Ages -> Nat] /\ failed' = failed
    BY <1>4, StartTypes DEF TriggerNow
  <2> QED BY <1>0, <2>1, <2>2 DEF WorkOnly
<1> QED BY <1>1, <1>2, <1>3, <1>4

LEMMA TimeTypes ==
    ASSUME TypeOK, Shape, Tick \/ \E a \in Ages : RunEnds(a)
    PROVE  TypeOK' /\ Shape'
<1> USE DEF TypeOK, Shape
<1>1. ASSUME NEW a \in Ages, RunEnds(a) PROVE TypeOK' /\ Shape'
  <2>1. WorkOnly /\ UNCHANGED <<queue, wpc, job, copy, requests, faults>>
    BY <1>1 DEF RunEnds, WorkOnly, clock, table, scanner, workerVars, bounds
  <2>2. running' \in [Ages -> Nat]
    BY <1>1 DEF RunEnds
  <2>3. failed' \in [0 .. Hour -> Nat]
    BY <1>1 DEF RunEnds
  <2> QED BY <2>1, <2>2, <2>3 DEF WorkOnly
<1>2. CASE Tick
  <2>1. UNCHANGED <<live, used, pc, due, sending, staged, queue, wpc, job, copy,
                    requests, faults>>
    BY <1>2 DEF Tick, workerVars, bounds
  <2>2. phase' \in 0 .. Cycle - 1 /\ edited' \subseteq Schedules
    BY <1>2, Constants DEF Tick
  <2>3. /\ row' = [s \in Schedules |-> [row[s] EXCEPT !.wait = Sooner(@)]]
        /\ seen' = [s \in Schedules |-> [seen[s] EXCEPT !.wait = Sooner(@)]]
    BY <1>2 DEF Tick
  <2>4. /\ \A s \in Schedules : /\ [row[s] EXCEPT !.wait = Sooner(@)] \in Row \cup {Blank}
                                /\ row[s] \in Row => [row[s] EXCEPT !.wait = Sooner(@)] \in Row
        /\ \A s \in Schedules : /\ [seen[s] EXCEPT !.wait = Sooner(@)] \in Row \cup {Blank}
                                /\ seen[s] \in Row => [seen[s] EXCEPT !.wait = Sooner(@)] \in Row
    BY RowSooner
  <2>5. /\ row' \in [Schedules -> Row \cup {Blank}]
        /\ seen' \in [Schedules -> Row \cup {Blank}]
        /\ \A s \in Schedules : row[s] \in Row => row'[s] \in Row
        /\ \A s \in Schedules : seen[s] \in Row => seen'[s] \in Row
    BY <2>3, <2>4
  <2>6. sent' \in [Schedules -> Nat]
    BY <1>2 DEF Tick
  <2>7. failed' \in [0 .. Hour -> Nat]
    <3>1. failed' = [a \in 0 .. Hour |-> IF a = 0 THEN 0 ELSE failed[a - 1]]
      BY <1>2 DEF Tick, Older
    <3>2. \A a \in 0 .. Hour : a # 0 => a - 1 \in 0 .. Hour
      BY Constants
    <3> QED BY <3>1, <3>2
  <2>8. running' \in [Ages -> Nat]
    <3> DEFINE older == [a \in Ages |-> IF a = 0 THEN 0 ELSE running[a - 1]]
    <3>1. Older(running) = older
      BY DEF Older
    <3>2. \A a \in Ages : a # 0 => a - 1 \in Ages
      BY Constants DEF Ages
    <3>3. older \in [Ages -> Nat] /\ Hour + 1 \in Ages
      BY <3>2, Constants DEF Ages
    <3>4. running' = [older EXCEPT ![Hour + 1] = @ + running[Hour + 1]]
      BY <1>2, <3>1 DEF Tick
    <3> HIDE DEF older
    <3> QED BY <3>3, <3>4
  <2> QED BY <2>1, <2>2, <2>5, <2>6, <2>7, <2>8
<1> QED BY <1>1, <1>2

LEMMA TypesStay ==
    TypeOK /\ Shape /\ [Next]_vars => TypeOK' /\ Shape'
<1>1. TypeOK /\ Shape /\ Next => TypeOK' /\ Shape'
  BY ScannerTypes, WorkerTypes, AdminTypes, TimeTypes DEF Next, AdminStep, FaultStep
<1>2. TypeOK /\ Shape /\ UNCHANGED vars => TypeOK' /\ Shape'
  BY DEF TypeOK, Shape, vars, clock, table, scanner, workerVars, runs, bounds
<1> QED BY <1>1, <1>2

\* Rows, messages, tasks and timestamps of the scheduler keep their types under every
\* interleaving of scans, workers and administrators (cron_scheduler, celery_app,
\* schedule_routes).
THEOREM SchedulerTypes == Spec => []TypeOK
<1>1. Spec => [](TypeOK /\ Shape)
  BY ShapeInit, TypesStay, PTL DEF Spec
<1> QED BY <1>1, PTL

-----------------------------------------------------------------------------
\* What makes the dispatches of s right: everything set or to be set in its row belongs
\* to its expression, so a time that has come is one that has just occurred, and a
\* schedule that is due, or will be when a scan commits, has not been dispatched since.
Right(s) ==
    /\ s \in live => Fresh(s)
    /\ sent[s] <= 1
    /\ s \in due => sent[s] = 0
    /\ s \in staged /\ seen[s].wait = 0 => sent[s] = 0
    /\ s \in live \ (staged \cup sending) /\ row[s].wait = 0 => sent[s] = 0

AllRight == \A s \in Schedules \ edited : Right(s)

LEMMA RightInit == Init => AllRight
<1> SUFFICES ASSUME Init, NEW s \in Schedules PROVE Right(s)
  BY DEF AllRight
<1>1. phase = 0 /\ phase \in 0 .. Cycle - 1 /\ live = Seeded
  BY Constants DEF Init
<1>2. due = {} /\ staged = {} /\ sending = {} /\ sent[s] = 0 /\ \A w \in Workers : wpc[w] = "idle"
  BY DEF Init
<1>3. PICK cron \in Crons : row = [t \in Schedules |->
                IF t \in Seeded
                THEN [enabled |-> TRUE, cron |-> cron, wait |-> NextCron(cron)]
                ELSE Blank]
  BY DEF Init
<1>4. ASSUME s \in live PROVE Fresh(s)
  <2>1. row[s].cron = cron /\ row[s].wait = NextCron(cron)
    BY <1>1, <1>3, <1>4
  <2>2. NextCron(cron) > 0 => Occurs(cron, (phase + NextCron(cron)) % Cycle)
    BY <1>1, NextCronFinds, CronAssumption, Constants
  <2> QED BY <1>2, <2>1, <2>2 DEF Fresh
<1> QED BY <1>2, <1>4 DEF Right

\* Workers that go on with what they have, or stop.
WorkersKeep ==
    \A w \in Workers : wpc'[w] # "idle" =>
        wpc[w] # "idle" /\ job'[w] = job[w] /\ copy'[w] = copy[w]

LEMMA RightByWorkers ==
    ASSUME AllRight, WorkOnly, WorkersKeep
    PROVE  AllRight'
<1> SUFFICES ASSUME NEW s \in Schedules \ edited PROVE Right(s)'
  BY DEF AllRight, WorkOnly
<1>1. Right(s)
  BY DEF AllRight
<1>2. UNCHANGED <<phase, sent, live, row, due, seen, sending, staged>>
  BY DEF WorkOnly
<1>3. s \in live => Fresh(s)'
  <2>1. ASSUME s \in live, NEW w \in Workers, wpc'[w] # "idle", job'[w].id = s
        PROVE  copy'[w] = row'[s].cron
    BY <1>1, <1>2, <2>1 DEF Right, Fresh, WorkersKeep
  <2> QED BY <1>1, <1>2, <2>1 DEF Right, Fresh, Occurs
<1> QED BY <1>1, <1>2, <1>3 DEF Right

LEMMA RollbackRight ==
    ASSUME TypeOK, Shape, AllRight, Rollback
    PROVE  AllRight'
<1>1. /\ due' = {} /\ sending' = {} /\ staged' = {}
      /\ UNCHANGED <<phase, edited, live, row, wpc, job, copy>>
  BY DEF Rollback, EndScan, table, workerVars
<1>2. SUFFICES ASSUME NEW s \in Schedules \ edited PROVE Right(s)'
  BY <1>1 DEF AllRight
<1>3. Right(s) /\ sent[s] \in Nat
  BY DEF AllRight, TypeOK
<1>4. sent'[s] = IF s \in staged \cup sending /\ sent[s] > 0 THEN sent[s] - 1 ELSE sent[s]
  BY DEF Rollback
<1>5. sent'[s] <= 1 /\ (s \in live /\ row[s].wait = 0 => sent'[s] = 0)
  BY <1>3, <1>4 DEF Right
<1>6. s \in live => Fresh(s)'
  BY <1>1, <1>3 DEF Right, Fresh, Occurs
<1> QED BY <1>1, <1>5, <1>6 DEF Right

LEMMA ScannerRight ==
    ASSUME TypeOK, Shape, AllRight,
           ScannerStep \/ ScanAborts \/ \E s \in Schedules : DispatchFails(s)
    PROVE  AllRight'
<1>1. CASE ScanDue
  <2>1. UNCHANGED <<phase, sent, edited, live, row, sending, staged, wpc, job, copy>>
    BY <1>1 DEF ScanDue, clock, table, workerVars
  <2>2. seen' = row /\ due' = {t \in Schedules : Due(t)} /\ sending = {} /\ staged = {}
    BY <1>1 DEF ScanDue, Shape
  <2>3. SUFFICES ASSUME NEW s \in Schedules \ edited PROVE Right(s)'
    BY <2>1 DEF AllRight
  <2>4. Right(s)
    BY DEF AllRight
  <2>5. s \in due' => s \in live /\ row[s].wait = 0
    BY <2>2 DEF Due
  <2>6. s \in live => Fresh(s)'
    BY <2>1, <2>2, <2>4 DEF Right, Fresh, Occurs
  <2> QED BY <2>1, <2>2, <2>4, <2>5, <2>6 DEF Right
<1>2. CASE CheckBreaker
  <2>1. UNCHANGED <<phase, sent, edited, live, row, seen, sending, staged, wpc, job, copy>>
    BY <1>2 DEF CheckBreaker, clock, table, workerVars
  <2>2. due' \subseteq due
    BY <1>2 DEF CheckBreaker
  <2>3. SUFFICES ASSUME NEW s \in Schedules \ edited PROVE Right(s)'
    BY <2>1 DEF AllRight
  <2>4. Right(s)
    BY DEF AllRight
  <2>6. s \in live => Fresh(s)'
    BY <2>1, <2>2, <2>4 DEF Right, Fresh, Occurs
  <2> QED BY <2>1, <2>2, <2>4, <2>6 DEF Right
<1>3. ASSUME NEW t \in Schedules, Dispatch(t) PROVE AllRight'
  <2>1. UNCHANGED <<phase, edited, live, row, seen, staged, wpc, job, copy>>
    BY <1>3 DEF Dispatch, table, workerVars
  <2>2. t \in due /\ due' = due \ {t} /\ sending' = {t} /\ sending = {}
        /\ sent' = [sent EXCEPT ![t] = @ + 1] /\ due \cap staged = {}
    BY <1>3 DEF Dispatch, Shape
  <2>3. SUFFICES ASSUME NEW s \in Schedules \ edited PROVE Right(s)'
    BY <2>1 DEF AllRight
  <2>4. Right(s) /\ sent[s] \in Nat
    BY DEF AllRight, TypeOK
  <2>5. s # t => sent'[s] = sent[s]
    BY <2>2 DEF TypeOK
  <2>6. s = t => sent'[s] = sent[s] + 1
    BY <2>2 DEF TypeOK
  <2>7. s \in live => Fresh(s)'
    BY <2>1, <2>2, <2>4 DEF Right, Fresh, Occurs
  <2> QED BY <2>1, <2>2, <2>4, <2>5, <2>6, <2>7 DEF Right
<1>4. ASSUME NEW t \in Schedules, DispatchFails(t) PROVE AllRight'
  <2>1. UNCHANGED <<phase, sent, edited, live, row, seen, sending, staged, wpc, job, copy>>
    BY <1>4 DEF DispatchFails, clock, table, workerVars
  <2>2. due' \subseteq due
    BY <1>4 DEF DispatchFails
  <2>3. SUFFICES ASSUME NEW s \in Schedules \ edited PROVE Right(s)'
    BY <2>1 DEF AllRight
  <2>4. Right(s)
    BY DEF AllRight
  <2>6. s \in live => Fresh(s)'
    BY <2>1, <2>2, <2>4 DEF Right, Fresh, Occurs
  <2> QED BY <2>1, <2>2, <2>4, <2>6 DEF Right
<1>5. ASSUME NEW t \in Schedules, Stamp(t) PROVE AllRight'
  <2>1. UNCHANGED <<phase, sent, edited, live, row, due, wpc, job, copy>>
    BY <1>5 DEF Stamp, clock, table, workerVars
  <2>2. t \in sending /\ t \in live /\ sending' = {} /\ staged' = staged \cup {t}
    BY <1>5 DEF Stamp
  <2> DEFINE next == NextCron(seen[t].cron)
             wait == IF next = Never THEN Hour ELSE next
  <2>3. seen[t] \in Row /\ seen[t].cron \in SUBSET (0 .. Cycle - 1)
    BY <2>2, Constants DEF Row, Shape
  <2>4. /\ next # 0 /\ next \in Never .. Top /\ (next = Never <=> seen[t].cron = {})
        /\ next > 0 => Occurs(seen[t].cron, (phase + next) % Cycle)
    BY <2>3, NextCronFinds, CronAssumption DEF TypeOK
  <2>5. wait \in Nat \ {0} /\ Occurs(seen[t].cron, (phase + wait) % Cycle)
    BY <2>4, Constants DEF Never, Occurs
  <2>6. seen' = [seen EXCEPT ![t].wait = wait]
    BY <1>5 DEF Stamp
  <2> HIDE DEF wait, next
  <2>7. seen'[t].wait = wait /\ seen'[t].cron = seen[t].cron
        /\ \A s \in Schedules : s # t => seen'[s] = seen[s]
    BY <2>3, <2>6 DEF TypeOK, Row
  <2>8. SUFFICES ASSUME NEW s \in Schedules \ edited PROVE Right(s)'
    BY <2>1 DEF AllRight
  <2>9. Right(s)
    BY DEF AllRight
  <2>10. CASE s # t
    <3>1. s \in live => Fresh(s)'
      BY <2>1, <2>2, <2>7, <2>9, <2>10 DEF Right, Fresh, Occurs
    <3>2. s \notin sending /\ (s \in staged' => s \in staged) /\ sending' = {}
      BY <2>2, <2>10 DEF Shape
    <3>3. seen'[s] = seen[s]
      BY <2>7, <2>10
    <3> QED BY <2>1, <2>9, <3>1, <3>2, <3>3, <2>2 DEF Right
  <2>11. CASE s = t
    <3>1. Fresh(s) /\ seen[s].cron = row[s].cron
      BY <2>2, <2>9, <2>11 DEF Right, Fresh
    <3>2. Occurs(row[s].cron, (phase + seen'[s].wait) % Cycle)
      BY <2>5, <2>7, <2>11, <3>1
    <3>3. Fresh(s)'
      BY <2>1, <2>2, <2>7, <2>11, <3>1, <3>2 DEF Fresh, Occurs
    <3> QED BY <2>1, <2>2, <2>5, <2>7, <2>9, <2>11, <3>3 DEF Right
  <2> QED BY <2>10, <2>11
<1>6. ASSUME NEW t \in Schedules, StampFails(t) PROVE AllRight'
  BY <1>6, RollbackRight DEF StampFails
<1>7. CASE ScanAborts
  BY <1>7, RollbackRight DEF ScanAborts
<1>8. CASE CommitScan
  <2>1. UNCHANGED <<phase, sent, edited, live, wpc, job, copy>>
    BY <1>8 DEF CommitScan, clock, workerVars
  <2>2. due' = {} /\ sending' = {} /\ staged' = {} /\ sending = {} /\ staged \subseteq live
    BY <1>8 DEF CommitScan, EndScan, TypeOK
  <2>3. SUFFICES ASSUME NEW s \in Schedules \ edited PROVE Right(s)'
    BY <2>1 DEF AllRight
  <2>4. Right(s)
    BY DEF AllRight
  <2>5. CASE s \in staged
    <3>1. row'[s] = [row[s] EXCEPT !.wait = seen[s].wait]
      BY <1>8, <2>5 DEF CommitScan
    <3>2. row[s] \in Row /\ seen[s].wait \in Never .. Top
      BY <2>2, <2>5 DEF Shape, Row
    <3>3. row'[s].cron = row[s].cron /\ row'[s].wait = seen[s].wait
      BY <3>1, <3>2, RowWithWait
    <3>4. Fresh(s)'
      BY <2>1, <2>2, <2>4, <2>5, <3>3 DEF Right, Fresh, Occurs
    <3> QED BY <2>1, <2>2, <2>4, <2>5, <3>3, <3>4 DEF Right
  <2>6. CASE s \notin staged
    <3>1. row'[s] = row[s]
      BY <1>8, <2>6 DEF CommitScan
    <3>2. s \in live => Fresh(s)'
      BY <2>1, <2>2, <2>4, <3>1 DEF Right, Fresh, Occurs
    <3> QED BY <2>1, <2>2, <2>4, <2>6, <3>1, <3>2 DEF Right
  <2> QED BY <2>5, <2>6
<1> QED BY <1>1, <1>2, <1>3, <1>4, <1>5, <1>6, <1>7, <1>8 DEF ScannerStep

LEMMA WorkerRight ==
    ASSUME TypeOK, Shape, AllRight, NEW w \in Workers,
           WorkerStep(w) \/ StartFails(w) \/ RecordFails(w) \/ WorkerCrash(w)
    PROVE  AllRight'
<1>1. CASE TakeTask(w)
  <2>1. WorkOnly
    BY <1>1 DEF TakeTask, WorkOnly, clock, table, scanner
  <2>2. PICK m \in Message :
            IF m.id \in live
            THEN /\ wpc' = [wpc EXCEPT ![w] = "starting"]
                 /\ job' = [job EXCEPT ![w] = m]
                 /\ copy' = [copy EXCEPT ![w] = row[m.id].cron]
            ELSE UNCHANGED workerVars
    BY <1>1 DEF TakeTask
  <2>3. CASE m.id \notin live
    <3>1. WorkersKeep
      BY <2>2, <2>3 DEF workerVars, WorkersKeep
    <3> QED BY <2>1, <3>1, RightByWorkers
  <2>4. CASE m.id \in live
    <3>1. UNCHANGED <<phase, sent, live, row, due, seen, sending, staged, edited>>
      BY <2>1 DEF WorkOnly
    <3>2. SUFFICES ASSUME NEW s \in Schedules \ edited PROVE Right(s)'
      BY <3>1 DEF AllRight
    <3>3. Right(s)
      BY DEF AllRight
    <3>4. ASSUME s \in live, NEW v \in Workers, wpc'[v] # "idle", job'[v].id = s
          PROVE  copy'[v] = row[s].cron
      <4>1. CASE v = w
        BY <2>2, <2>4, <3>4, <4>1 DEF TypeOK
      <4>2. CASE v # w
        <5>1. wpc[v] # "idle" /\ job[v].id = s /\ copy'[v] = copy[v]
          BY <2>2, <2>4, <3>4, <4>2 DEF TypeOK
        <5> QED BY <3>3, <3>4, <5>1 DEF Right, Fresh
      <4> QED BY <4>1, <4>2
    <3>5. s \in live => Fresh(s)'
      BY <3>1, <3>3, <3>4 DEF Right, Fresh, Occurs
    <3> QED BY <3>1, <3>3, <3>5 DEF Right
  <2> QED BY <2>3, <2>4
<1>2. CASE StartRun(w)
  <2>1. WorkOnly
    BY <1>2 DEF StartRun, WorkOnly, clock, table, scanner
  <2>2. WorkersKeep
    BY <1>2 DEF StartRun, WorkersKeep, TypeOK
  <2> QED BY <2>1, <2>2, RightByWorkers
<1>3. CASE RowGone(w) \/ RecordFails(w) \/ StartFails(w) \/ WorkerCrash(w)
  <2>1. WorkOnly
    BY <1>3 DEF RowGone, RecordFails, StartFails, WorkerCrash, WorkOnly, clock, table, scanner
  <2>2. Idle(w)
    BY <1>3 DEF RowGone, RecordFails, StartFails, WorkerCrash, RetryTask
  <2>3. WorkersKeep
    BY <2>2, IdleTypes DEF WorkersKeep
  <2> QED BY <2>1, <2>3, RightByWorkers
<1>4. CASE Record(w)
  <2> DEFINE t == job[w].id
             next == NextCron(copy[w])
  <2>1. UNCHANGED <<phase, sent, edited, live, due, seen, sending, staged>>
    BY <1>4 DEF Record, clock, scanner
  <2>2. Idle(w) /\ t \in live /\ t \notin staged /\ wpc[w] # "idle"
    BY <1>4 DEF Record
  <2>3. WorkersKeep
    BY <2>2, IdleTypes DEF WorkersKeep
  <2>4. /\ next \in Never .. Top /\ next # 0
        /\ next > 0 => Occurs(copy[w], (phase + next) % Cycle)
    BY NextCronFinds, CronAssumption, Constants DEF TypeOK
  <2>5. row' = [row EXCEPT ![t].wait = next]
    BY <1>4 DEF Record
  <2>6. t \in Schedules /\ row[t] \in Row
    BY <2>2 DEF Shape, TypeOK
  <2>7. SUFFICES ASSUME NEW s \in Schedules \ edited PROVE Right(s)'
    BY <2>1 DEF AllRight
  <2>8. Right(s)
    BY DEF AllRight
  <2>9. ASSUME s \in live, NEW v \in Workers, wpc'[v] # "idle", job'[v].id = s
        PROVE  copy'[v] = row[s].cron
    BY <2>3, <2>8, <2>9 DEF WorkersKeep, Right, Fresh
  <2>10. CASE s = t
    <3>1. copy[w] = row[s].cron
      BY <2>2, <2>8, <2>10 DEF Right, Fresh
    <3>2. row'[s].wait = next /\ row'[s].cron = row[s].cron
      BY <2>5, <2>6, <2>10 DEF TypeOK, Row
    <3> HIDE DEF t, next
    <3>3. Fresh(s)'
      BY <2>1, <2>2, <2>4, <2>8, <2>9, <2>10, <3>1, <3>2 DEF Right, Fresh, Occurs
    <3> QED BY <2>1, <2>2, <2>4, <2>8, <2>10, <3>2, <3>3 DEF Right
  <2>11. CASE s # t
    <3>1. row'[s] = row[s]
      BY <2>5, <2>11 DEF TypeOK
    <3> HIDE DEF t, next
    <3>2. s \in live => Fresh(s)'
      BY <2>1, <2>8, <2>9, <3>1 DEF Right, Fresh, Occurs
    <3> QED BY <2>1, <2>8, <3>1, <3>2 DEF Right
  <2> QED BY <2>10, <2>11
<1> QED BY <1>1, <1>2, <1>3, <1>4 DEF WorkerStep

LEMMA AdminRight ==
    ASSUME TypeOK, Shape, AllRight, NEW t \in Schedules,
           Create(t) \/ Update(t) \/ Delete(t) \/ TriggerNow(t)
    PROVE  AllRight'
<1>1. CASE Create(t)
  <2>1. UNCHANGED <<phase, sent, edited, due, seen, sending, staged, wpc, job, copy>>
    BY <1>1 DEF Create, clock, scanner, workerVars
  <2>2. t \notin used /\ live' = live \cup {t}
    BY <1>1 DEF Create
  <2>3. PICK enabled \in BOOLEAN, cron \in Crons :
            row' = [row EXCEPT ![t] =
                    [enabled |-> enabled, cron |-> cron, wait |-> NextCron(cron)]]
    BY <1>1 DEF Create
  <2>4. /\ NextCron(cron) \in Never .. Top /\ NextCron(cron) # 0
        /\ NextCron(cron) > 0 => Occurs(cron, (phase + NextCron(cron)) % Cycle)
    BY NextCronFinds, CronAssumption, Constants DEF TypeOK
  <2>5. row'[t].cron = cron /\ row'[t].wait = NextCron(cron)
        /\ \A s \in Schedules : s # t => row'[s] = row[s]
    BY <2>3 DEF TypeOK
  <2>6. SUFFICES ASSUME NEW s \in Schedules \ edited PROVE Right(s)'
    BY <2>1 DEF AllRight
  <2>7. Right(s)
    BY DEF AllRight
  <2>8. CASE s = t
    <3>1. s \notin due \cup sending \cup staged
      BY <2>2, <2>8 DEF Shape, TypeOK
    <3>2. \A w \in Workers : wpc[w] # "idle" => job[w].id # s
      BY <2>2, <2>8 DEF Shape
    <3>3. Fresh(s)'
      BY <2>1, <2>4, <2>5, <2>8, <3>1, <3>2 DEF Fresh, Occurs
    <3> QED BY <2>1, <2>4, <2>5, <2>7, <2>8, <3>1, <3>3 DEF Right
  <2>9. CASE s # t
    <3>1. row'[s] = row[s] /\ (s \in live' => s \in live)
      BY <2>2, <2>5, <2>9
    <3>2. s \in live => Fresh(s)'
      BY <2>1, <2>7, <3>1 DEF Right, Fresh, Occurs
    <3> QED BY <2>1, <2>7, <3>1, <3>2 DEF Right
  <2> QED BY <2>8, <2>9
<1>2. CASE Update(t)
  <2>1. UNCHANGED <<phase, sent, live, due, seen, sending, staged, wpc, job, copy>>
    BY <1>2 DEF Update, scanner, workerVars
  <2>2. PICK enabled \in BOOLEAN, cron \in Crons :
            /\ row' = [row EXCEPT ![t].enabled = enabled, ![t].cron = cron]
            /\ edited' = IF cron = row[t].cron THEN edited ELSE edited \cup {t}
    BY <1>2 DEF Update
  <2>3. row[t] \in Row
    BY <1>2 DEF Update, Shape
  <2>4. row' = [row EXCEPT ![t] = [row[t] EXCEPT !.enabled = enabled, !.cron = cron]]
    BY <2>2
  <2>5. row'[t].cron = cron /\ row'[t].wait = row[t].wait
        /\ \A s \in Schedules : s # t => row'[s] = row[s]
    BY <2>3, <2>4 DEF TypeOK, Row
  <2>6. SUFFICES ASSUME NEW s \in Schedules \ edited' PROVE Right(s)'
    BY DEF AllRight
  <2>7. s \notin edited /\ (s = t => cron = row[s].cron)
    BY <2>2, <2>6
  <2>8. Right(s)
    BY <2>7 DEF AllRight
  <2>9. row'[s].cron = row[s].cron /\ row'[s].wait = row[s].wait
    BY <2>5, <2>7
  <2>10. s \in live => Fresh(s)'
    BY <2>1, <2>8, <2>9 DEF Right, Fresh, Occurs
  <2> QED BY <2>1, <2>8, <2>9, <2>10 DEF Right
<1>3. CASE Delete(t)
  <2>1. UNCHANGED <<phase, sent, edited, due, seen, sending, staged, wpc, job, copy>>
    BY <1>3 DEF Delete, clock, scanner, workerVars
  <2>2. live' = live \ {t} /\ row' = [row EXCEPT ![t] = Blank]
    BY <1>3 DEF Delete
  <2>3. SUFFICES ASSUME NEW s \in Schedules \ edited PROVE Right(s)'
    BY <2>1 DEF AllRight
  <2>4. Right(s)
    BY DEF AllRight
  <2>5. s \in live' => s \in live /\ row'[s] = row[s]
    BY <2>2 DEF TypeOK
  <2>6. s \in live' => Fresh(s)'
    BY <2>1, <2>4, <2>5 DEF Right, Fresh, Occurs
  <2> QED BY <2>1, <2>4, <2>5, <2>6 DEF Right
<1>4. CASE TriggerNow(t)
  <2>1. WorkOnly /\ WorkersKeep
    BY <1>4 DEF TriggerNow, WorkOnly, WorkersKeep, clock, table, scanner, workerVars
  <2> QED BY <2>1, RightByWorkers
<1> QED BY <1>1, <1>2, <1>3, <1>4

LEMMA TickRight ==
    ASSUME TypeOK, Shape, AllRight, Tick
    PROVE  AllRight'
<1>1. UNCHANGED <<live, due, sending, staged, wpc, job, copy>>
  BY DEF Tick, workerVars
<1>2. phase' = (phase + 1) % Cycle /\ phase \in 0 .. Cycle - 1
  BY DEF Tick, TypeOK
<1>3. SUFFICES ASSUME NEW s \in Schedules \ edited' PROVE Right(s)'
  BY DEF AllRight
<1>4. /\ row'[s].wait = Sooner(row[s].wait) /\ row'[s].cron = row[s].cron
      /\ seen'[s].wait = Sooner(seen[s].wait) /\ seen'[s].cron = seen[s].cron
      /\ row[s].wait \in Never .. Top /\ seen[s].wait \in Never .. Top
  BY RowSooner DEF Tick, TypeOK
<1>5. sent'[s] = IF Occurs(row[s].cron, phase') THEN 0 ELSE sent[s]
  BY DEF Tick
<1>6. CASE s \in edited
  <2>1. Occurs(row[s].cron, phase') /\ Fresh(s)'
    BY <1>3, <1>6 DEF Tick
  <2>2. sent'[s] = 0
    BY <1>5, <2>1
  <2> QED BY <2>1, <2>2 DEF Right
<1>7. CASE s \notin edited
  <2>1. Right(s)
    BY <1>7 DEF AllRight
  <2>2. ASSUME NEW d \in Nat \ {0} PROVE (phase' + (d - 1)) % Cycle = (phase + d) % Cycle
    BY <1>2, <2>2, Constants, SameTime
  <2>3. ASSUME NEW n \in Never .. Top, n > 0 => Occurs(row[s].cron, (phase + n) % Cycle)
        PROVE  /\ Sooner(n) > 0 => Occurs(row[s].cron, (phase' + Sooner(n)) % Cycle)
               /\ Sooner(n) = 0 => n = 0 \/ Occurs(row[s].cron, phase')
    <3>1. CASE n > 0
      <4>1. n \in Nat \ {0} /\ Sooner(n) = n - 1
        BY <2>3, <3>1, Constants DEF Sooner, Never
      <4>2. (phase' + (n - 1)) % Cycle = (phase + n) % Cycle
        BY <4>1, <2>2
      <4>3. n = 1 => (phase + n) % Cycle = phase'
        BY <1>2
      <4> QED BY <2>3, <3>1, <4>1, <4>2, <4>3
    <3>2. CASE n <= 0
      <4>1. Sooner(n) = n
        BY <2>3, <3>2, Constants DEF Sooner, Never
      <4> QED BY <3>2, <4>1
    <3> QED BY <2>3, <3>1, <3>2, Constants DEF Never
  <2>4. s \in live => Fresh(s)'
    <3> SUFFICES ASSUME s \in live PROVE Fresh(s)'
      OBVIOUS
    <3>1. Fresh(s)
      BY <2>1 DEF Right
    <3>2. row'[s].wait > 0 => Occurs(row'[s].cron, (phase' + row'[s].wait) % Cycle)
      BY <1>4, <2>3, <3>1 DEF Fresh
    <3>3. s \in staged /\ seen'[s].wait > 0 =>
            Occurs(row'[s].cron, (phase' + seen'[s].wait) % Cycle)
      BY <1>4, <2>3, <3>1 DEF Fresh
    <3> QED BY <1>1, <1>4, <3>1, <3>2, <3>3 DEF Fresh, Occurs
  <2>5. CASE Occurs(row[s].cron, phase')
    <3>1. sent'[s] = 0
      BY <1>5, <2>5
    <3> QED BY <1>1, <2>4, <3>1 DEF Right
  <2>6. CASE ~ Occurs(row[s].cron, phase')
    <3>1. sent'[s] = sent[s]
      BY <1>5, <2>6
    <3>2. s \in live /\ row'[s].wait = 0 => row[s].wait = 0
      BY <1>4, <2>1, <2>3, <2>6 DEF Right, Fresh
    <3>3. s \in staged /\ seen'[s].wait = 0 => seen[s].wait = 0
      <4>1. s \in staged => Fresh(s)
        BY <2>1 DEF Right, TypeOK
      <4> QED BY <1>4, <2>3, <2>6, <4>1 DEF Fresh
    <3> QED BY <1>1, <2>1, <2>4, <3>1, <3>2, <3>3 DEF Right
  <2> QED BY <2>5, <2>6
<1> QED BY <1>6, <1>7

LEMMA RightStays ==
    TypeOK /\ Shape /\ AllRight /\ [Next]_vars => AllRight'
<1>1. ASSUME TypeOK, Shape, AllRight, NEW a \in Ages, RunEnds(a) PROVE AllRight'
  <2>1. WorkOnly /\ WorkersKeep
    BY <1>1 DEF RunEnds, WorkOnly, WorkersKeep, clock, table, scanner, workerVars
  <2> QED BY <1>1, <2>1, RightByWorkers
<1>2. TypeOK /\ Shape /\ AllRight /\ Next => AllRight'
  BY <1>1, ScannerRight, WorkerRight, AdminRight, TickRight DEF Next, AdminStep, FaultStep
<1>3. AllRight /\ UNCHANGED vars => AllRight'
  <2>1. SUFFICES ASSUME AllRight, UNCHANGED vars PROVE AllRight'
    OBVIOUS
  <2>2. WorkOnly /\ WorkersKeep
    BY <2>1 DEF vars, WorkOnly, WorkersKeep, clock, table, scanner, workerVars
  <2> QED BY <2>1, <2>2, RightByWorkers
<1> QED BY <1>2, <1>3

\* For any schedules, expressions, workers and number of requests and failures, a
\* schedule is dispatched at most once for each occurrence of its expression, unless a
\* scan was rolled back or the expression has just been edited: whatever tasks run late,
\* set next_run_at again or never run (cron_scanner_once, scheduled_pipeline_run).
THEOREM DispatchedOnce == Spec => []OncePerOccurrence
<1>1. Spec => [](TypeOK /\ Shape /\ AllRight)
  BY ShapeInit, TypesStay, RightInit, RightStays, PTL DEF Spec
<1>2. AllRight => OncePerOccurrence
  BY DEF AllRight, Right, OncePerOccurrence
<1> QED BY <1>1, <1>2, PTL

=============================================================================

----------------------------- MODULE MCServices -----------------------------
(***************************************************************************)
(* Six services that share no state: language-model calls, SSE admission,  *)
(* the live feed of a page, learning plans, loop runs and the publication  *)
(* of reviewed entities.  A behaviour runs one of them, chosen at the      *)
(* start, and leaves the others in an initial state, so one search covers  *)
(* the behaviours of each.                                                 *)
(***************************************************************************)
EXTENDS LlmCalls

CONSTANTS Clients, Ips, IpOf, MaxPerIp, MaxGlobal, MaxStreams
CONSTANTS Skills, Planned, Requests, MaxUpdates
CONSTANTS Reviewers, MaxOps
CONSTANTS PollThreshold, MaxRetries, MaxPolls

VARIABLES perIp, global, active, conn, owes, lost, lostInAll, lostStreams
VARIABLES plan, rows, tx, mastered, updates
VARIABLES todo, target, steps, found, session, row, memory, end, restarted
VARIABLES kind, record, node, bare, dead, phase, does, read, sync, repair, snap,
          queue, entry, touched, causes, ops
VARIABLES source, mode, retryCount, failed, retryTimer, pollTimer, sseTimer, refreshing,
          renewable, polls, disposed
VARIABLE focus  \* the service of this behaviour

Sse == INSTANCE SseSlots
Plan == INSTANCE LearningPlan
Loop == INSTANCE LoopRun
Publish == INSTANCE Publication
Feed == INSTANCE LiveFeed WITH failures <- failed

ASSUME ServicesAssumptions ==
    /\ Sse!SlotsAssumption /\ Plan!PlanAssumption
    /\ Publish!PublicationAssumption /\ Feed!FeedAssumption

sseVars == <<perIp, global, active, conn, owes, lost, lostInAll, lostStreams>>
planVars == <<plan, rows, tx, mastered, updates>>
loopVars == <<todo, target, steps, found, session, row, memory, end, restarted>>
pubVars == <<kind, record, node, bare, dead, phase, does, read, sync, repair, snap,
            queue, entry, touched, causes, ops>>
feedVars == <<source, mode, retryCount, failed, retryTimer, pollTimer, sseTimer, refreshing,
              renewable, polls, disposed>>
allVars == <<vars, sseVars, planVars, loopVars, pubVars, feedVars, focus>>

SumInit ==
    /\ Init /\ Sse!Init /\ Plan!Init /\ Loop!Init /\ Publish!Init /\ Feed!Init
    /\ focus \in {"calls", "slots", "plan", "loop", "publish", "feed"}
    /\ focus # "publish" => kind = "skill"
    /\ focus # "plan" => mastered = {}
    /\ focus # "loop" => target
    /\ focus # "feed" => renewable

\* The service of the behaviour takes a step, the others stay as they are.
SumNext ==
    /\ UNCHANGED focus
    /\ IF focus = "calls" THEN Next ELSE UNCHANGED vars
    /\ IF focus = "slots" THEN Sse!Next ELSE UNCHANGED sseVars
    /\ IF focus = "plan" THEN Plan!Next ELSE UNCHANGED planVars
    /\ IF focus = "loop" THEN Loop!Next ELSE UNCHANGED loopVars
    /\ IF focus = "publish" THEN Publish!Next ELSE UNCHANGED pubVars
    /\ IF focus = "feed" THEN Feed!Next ELSE UNCHANGED feedVars

\* The fairness of each service, in the behaviours that run it.
SumSpec ==
    /\ SumInit /\ [][SumNext]_allVars
    /\ \A c \in Callers : WF_vars(focus = "calls" /\ CallStep(c))
    /\ \A r \in Requests :
        /\ WF_planVars(focus = "plan" /\ Plan!UpdateStep(r))
        /\ SF_planVars(focus = "plan" /\ Plan!UpdateLock(r))
    /\ WF_loopVars(focus = "loop" /\ (Loop!LoopStep \/ Loop!Timeout))
    /\ \A r \in Reviewers : WF_pubVars(focus = "publish" /\ Publish!ReviewStep(r))
    /\ WF_pubVars(focus = "publish" /\ Publish!SyncStep)
    /\ WF_pubVars(focus = "publish" /\ Publish!RepairStep)
    /\ WF_feedVars(focus = "feed" /\ (Feed!AttemptEnds \/ Feed!Refreshed))
    /\ WF_feedVars(focus = "feed" /\ Feed!RetryFires)
    /\ WF_feedVars(focus = "feed" /\ Feed!PollReturns)

-----------------------------------------------------------------------------
\* Every service keeps the types of its variables, limits included.
AllTypesOK == TypeOK /\ Sse!TypeOK /\ Plan!TypeOK /\ Loop!TypeOK /\ Publish!TypeOK
              /\ Feed!TypeOK
\* No call waits forever, no update of a plan either, and the one that masters
\* the last skill alone completes it; a loop run does not stay running unless
\* something stopped it; and a page never waits for nothing to bring it events.
WorkEnds ==
    /\ CallsEnd
    /\ Plan!UpdatesEnd /\ Plan!LastMasteryCompletes
    /\ focus = "loop" => Loop!RunLeavesRunning
    /\ focus = "feed" => Feed!FeedGoesOn
\* The counters of SSE connections say who is connected and what was leaked, and
\* a page never makes two connections.
StreamsSound == Sse!SlotsAccounted /\ Feed!OneAttempt
\* A plan is completed only if each of its first skills has been mastered.
CompletionEarned == Plan!CompletionEarned
\* The answer of a loop run can be read again from its status.
AnswerCanBeRead == Loop!AnswerCanBeRead
\* What is approved is in the graph and what is rejected is marked so, but
\* for failures, stale decisions and unchecked writes.
GraphShowsReview == Publish!GraphShowsReview
\* An undisturbed reconciliation leaves exactly what is approved in the graph.
ReconcileAligns == Publish!ReconcileAligns
\* Reconciliation brings the graph to the records once operations stop.
GraphConverges == focus = "publish" => Publish!GraphConverges

\* The address of each client, two of them behind the same one.
Address == [c \in Clients |-> IF c = "client1" THEN "ip1" ELSE "ip2"]

=============================================================================

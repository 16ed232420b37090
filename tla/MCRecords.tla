------------------------------ MODULE MCRecords ------------------------------
(***************************************************************************)
(* Records that concurrent workers change without locks - the row of an    *)
(* account, the rows of jd_raw, a crawl and the requests of its spiders,   *)
(* the row of a data source, the versions of a prompt, the snapshots and   *)
(* relations of a skill, the extraction records on their way to the graph, *)
(* the session of a browser tab, the events a page polls for, the graph    *)
(* page - and two algorithms that change theirs in place: the cascade over *)
(* the stages of a run and the order of a learning path.  A behaviour      *)
(* works on one of them, chosen at the start.                              *)
(***************************************************************************)
EXTENDS Accounts

CONSTANTS Executions, Jds, Texts, TextOf, Alike, Batch, MaxExecutions
CONSTANTS SkillCount, HourChoices, Budget
CONSTANTS MaxMonth, MonthsBack
CONSTANTS Versions, Templates
CONSTANTS MaxRecords, ApprovalLimit
CONSTANTS MaxRows, MaxExtracted, MaxByHand, MaxJobs
CONSTANTS Sources, Crawlable, WithSpider, Default, Offers, FoundAt, MaxAttempts, MaxChanges
CONSTANTS Threads, Proxies, Direct, Topics, MinInterval, Sleep
CONSTANTS Calls, MaxLogins, MaxExpiries, MaxLoads
CONSTANTS MaxEvents, Publishers, Limit, PollSlots
CONSTANTS Modes, StartMode, BubblesOf, EdgesUnder, AnswerSlots, MaxAsked
CONSTANTS PositionNodes, SkillNodes, StackOf, LevelOf, Ladder, Areas, Belongs

VARIABLES status, seen, extractions, stage, loaded, marks, accepted, looking,
          executions, kept, rechecked, shared, unmarked
VARIABLES given, array, at
VARIABLES graph, step, waits, queue, order, calls, stack, index, lowlink, sccs,
          placed, phases, current
VARIABLES month, mentioned, others, snapshots, changelog, relations, run,
          approving, missed
VARIABLES builtin, registry, active, rows, request, excused
VARIABLES approved, records, written, runStage, since, read, outbox, approval,
          writing, lost
VARIABLES source, postings, byHand, task, loadedRow, counted, extracted, jobs
VARIABLES enabled, disabled, selected, jdRaw, crawl, todo, runNo, thread, items, outcome,
          new, duplicate, total, handled, mine, changes, single
VARIABLES spider, pages, fetch, attempt, via, last, deadProxies, clock, asked, gaveUp,
          weather
VARIABLES stored, shown, page, going, boot, bootRefresh, calling, refresh, leaving,
          logins, age, revoked, loads, crossed, thrownOut
VARIABLES recent, cursor, poll, polled, published, late, gone, twoPolls
VARIABLES overview, domains, layer, island, named, opened, cached, links, known, panel,
          evolution, paths, inFocus, edgesLoaded, answer, requested, chosen, doubled,
          unordered, strayed, behind, outrun
VARIABLES inReview, required, areas, groupBy, query, members, connections, counts, listed,
          graphChanges, moved
VARIABLE focus  \* what this behaviour works on

Flow == INSTANCE JdFlow
Pass == INSTANCE CascadePass
Path == INSTANCE PathOrder
Months == INSTANCE Evolution WITH excused <- missed
Prompts == INSTANCE PromptVersions WITH Admins <- Requests
Outbox == INSTANCE GraphOutbox WITH
    Runs <- Executions, stage <- runStage, loaded <- read, graph <- written
Stats == INSTANCE Sources WITH Workers <- Requests, row <- source, copy <- loadedRow
Crawl == INSTANCE CrawlStage WITH active <- enabled, pc <- crawl, attempt <- runNo,
    seen <- total
Web == INSTANCE Spiders WITH pc <- fetch, dead <- deadProxies, now <- clock, lost <- gaveUp
Tab == INSTANCE ClientSession WITH request <- calling
Poll == INSTANCE PollCursor WITH overlapped <- twoPolls
Browser == INSTANCE GraphBrowser WITH
    Bubbles <- BubblesOf, Requires <- EdgesUnder, Slots <- AnswerSlots, selected <- panel,
    focus <- inFocus, asked <- requested
Overview == INSTANCE GraphOverview WITH
    state <- inReview, requires <- required, mode <- groupBy, at <- query,
    links <- connections, opened <- listed, changes <- graphChanges

ASSUME RecordsAssumptions ==
    /\ Flow!JdAssumption /\ Path!PathAssumption /\ Months!EvolutionAssumption
    /\ Prompts!PromptAssumption /\ Outbox!OutboxAssumption
    /\ Stats!SourcesAssumption /\ Crawl!CrawlAssumption /\ Web!SpidersAssumption
    /\ Tab!SessionAssumption /\ Poll!PollAssumption
    /\ Browser!BrowserAssumption /\ Overview!OverviewAssumption

jdVars == <<status, seen, extractions, stage, loaded, marks, accepted, looking,
            executions, kept, rechecked, shared, unmarked>>
passVars == <<given, array, at>>
pathVars == <<graph, step, waits, queue, order, calls, stack, index, lowlink, sccs,
              placed, phases, current>>
monthVars == <<month, mentioned, others, snapshots, changelog, relations, run,
               approving, missed>>
promptVars == <<builtin, registry, active, rows, request, excused>>
outboxVars == <<approved, records, written, runStage, since, read, outbox, approval,
                writing, lost>>
sourceVars == <<source, postings, byHand, task, loadedRow, counted, extracted, jobs>>
crawlVars == <<enabled, disabled, selected, jdRaw, crawl, todo, runNo, thread, items,
               outcome, new, duplicate, total, handled, mine, changes, single>>
webVars == <<spider, pages, fetch, attempt, via, last, deadProxies, clock, asked, gaveUp,
             weather>>
tabVars == <<stored, shown, page, going, boot, bootRefresh, calling, refresh, leaving,
             logins, age, revoked, loads, crossed, thrownOut>>
pollVars == <<recent, cursor, poll, polled, published, late, gone, twoPolls>>
browserVars == <<overview, domains, layer, island, named, opened, cached, links, known,
                 panel, evolution, paths, inFocus, edgesLoaded, answer, requested, chosen,
                 doubled, unordered, strayed, behind, outrun>>
overviewVars == <<inReview, required, areas, groupBy, query, members, connections, counts,
                  listed, graphChanges, moved>>
allVars == <<vars, jdVars, passVars, pathVars, monthVars, promptVars, outboxVars,
             sourceVars, crawlVars, webVars, tabVars, pollVars, browserVars, overviewVars,
             focus>>

\* The choices that belong to one kind are made only in its behaviours.
SumInit ==
    /\ focus \in {"users", "jd_raw", "stages", "path", "months", "prompts", "outbox",
                  "source", "crawl", "web", "tab", "poll",
                  "browser", "overview"}
    /\ IF focus = "stages" THEN Pass!Init
       ELSE given = Pass!InitialStages({}) /\ array = given /\ at = 1
    /\ IF focus = "path" THEN graph \in [Path!Skills -> SUBSET Path!Skills]
       ELSE graph = [s \in Path!Skills |-> {}]
    /\ builtin \in IF focus = "prompts" THEN {{"v1"}, {}} ELSE {{}}
    /\ selected \in IF focus = "crawl" THEN SUBSET Sources ELSE {{}}
    /\ weather \in IF focus = "web" THEN {"proxies_down", "unstable"} ELSE {"unstable"}
    /\ Init /\ Flow!Init /\ Path!Init /\ Months!Init /\ Prompts!Init /\ Outbox!Init
    /\ Stats!Init /\ Crawl!Init /\ Web!Init /\ Tab!Init /\ Poll!Init
    /\ Browser!Init
    /\ IF focus = "overview" THEN Overview!Init
       ELSE /\ inReview = [p \in PositionNodes |-> "absent"] /\ required = {}
            /\ areas = {} /\ groupBy = "none" /\ query = "idle"
            /\ members = << >> /\ connections = {} /\ counts = Overview!NoCounts
            /\ listed = Overview!Closed /\ graphChanges = 0 /\ moved = FALSE

\* What the behaviour is about takes a step, everything else stays as it is.
SumNext ==
    /\ UNCHANGED focus
    /\ IF focus = "users" THEN Next ELSE UNCHANGED vars
    /\ IF focus = "jd_raw" THEN Flow!Next ELSE UNCHANGED jdVars
    /\ IF focus = "stages" THEN Pass!Next ELSE UNCHANGED passVars
    /\ IF focus = "path" THEN Path!Next ELSE UNCHANGED pathVars
    /\ IF focus = "months" THEN Months!Next ELSE UNCHANGED monthVars
    /\ IF focus = "prompts" THEN Prompts!Next ELSE UNCHANGED promptVars
    /\ IF focus = "outbox" THEN Outbox!Next ELSE UNCHANGED outboxVars
    /\ IF focus = "source" THEN Stats!Next ELSE UNCHANGED sourceVars
    /\ IF focus = "crawl" THEN Crawl!Next ELSE UNCHANGED crawlVars
    /\ IF focus = "web" THEN Web!Next ELSE UNCHANGED webVars
    /\ IF focus = "tab" THEN Tab!Next ELSE UNCHANGED tabVars
    /\ IF focus = "poll" THEN Poll!Next ELSE UNCHANGED pollVars
    /\ IF focus = "browser" THEN Browser!Next ELSE UNCHANGED browserVars
    /\ IF focus = "overview" THEN Overview!Next ELSE UNCHANGED overviewVars

\* Two requests, executions or sessions, whichever is which: neither the actions
\* nor the properties tell one from the other.
UserView ==
    <<row, issued, now, streak, failures, raced, used, reused,
      {<<pc[r], op[r], copy[r], token[r], overlapped[r]>> : r \in Requests}>>
PromptView == <<builtin, registry, active, rows, excused, {request[r] : r \in Requests}>>
JdView ==
    <<status, seen, extractions, executions, kept, rechecked, shared, unmarked,
      {<<stage[x], loaded[x], marks[x], accepted[x], looking[x]>> : x \in Executions}>>
SourceView ==
    <<source, postings, byHand, extracted, jobs,
      {<<task[r], loadedRow[r], counted[r]>> : r \in Requests}>>
PollView ==
    <<recent, cursor, polled, published, late, gone, twoPolls,
      {<<poll[p], Cardinality({q \in PollSlots : poll[q] = poll[p]})>> : p \in PollSlots}>>
BrowserView ==
    <<overview, domains, layer, island, named, opened, cached, links, known, panel,
      evolution, paths, inFocus, edgesLoaded, requested, chosen, doubled, unordered,
      strayed, behind, outrun,
      {<<answer[a], Cardinality({b \in AnswerSlots : answer[b] = answer[a]})>> :
           a \in AnswerSlots}>>

\* What tells two states of the search apart: the rest has its initial value.
Observed ==
    <<focus,
      CASE focus = "users" -> UserView [] focus = "jd_raw" -> JdView
        [] focus = "stages" -> passVars [] focus = "path" -> pathVars
        [] focus = "months" -> monthVars [] focus = "prompts" -> PromptView
        [] focus = "outbox" -> outboxVars [] focus = "source" -> SourceView
        [] focus = "crawl" -> crawlVars [] focus = "web" -> webVars
        [] focus = "tab" -> tabVars [] focus = "poll" -> PollView
        [] focus = "browser" -> BrowserView
        [] focus = "overview" -> overviewVars>>

SumSpec == SumInit /\ [][SumNext]_allVars

-----------------------------------------------------------------------------
\* Every record keeps the types of its variables.
AllTypesOK ==
    /\ focus = "users" => TypeOK
    /\ focus = "jd_raw" => Flow!TypeOK
    /\ focus = "months" => Months!TypeOK
    /\ focus = "prompts" => Prompts!TypeOK
    /\ focus = "outbox" => Outbox!TypeOK
    /\ focus = "source" => Stats!TypeOK
    /\ focus = "crawl" => Crawl!TypeOK
    /\ focus = "web" => Web!TypeOK
    /\ focus = "tab" => Tab!TypeOK
    /\ focus = "poll" => Poll!TypeOK
    /\ focus = "browser" => Browser!TypeOK
    /\ focus = "overview" => Overview!TypeOK
\* Dedup keeps a row of every likeness, unless it checks a row twice.
NoneLost == focus = "jd_raw" => Flow!NoneLost
\* A row is extracted twice only after an execution did not mark it.
ExtractedOnce == focus = "jd_raw" => Flow!ExtractedOnce
\* The pass of the cascade computes its closed form, whatever the array holds,
\* and prerequisites come first in a learning path, in its phases as well.
AlgorithmsCorrect ==
    /\ focus = "stages" => Pass!CascadeCorrect
    /\ focus = "path" => Path!OrderIsSound /\ Path!PhasesAreSound
\* The relation of a skill follows the latest snapshot, but for changes that
\* repeat, score low or are decided by hand.
RelationFollows == focus = "months" => Months!RelationFollows
\* What a restart loads is what the process serves, but for requests that
\* overlapped or failed halfway.
RestartChangesNothing == focus = "prompts" => Prompts!RestartChangesNothing
\* The records of an approved position are in the graph, but for writes that
\* failed or never began and what the approval leaves behind.
RecordsInGraph == focus = "outbox" => Outbox!RecordsInGraph
\* The statistics of a source never promise postings that are not stored.
StatsBounded == focus = "source" => Stats!StatsBounded
\* A source is paused for postings it has had, and activated by administrators.
PausedAndRevivedRightly == Stats!PausedAndRevivedRightly
\* The counts of a crawl are what it stored, and its spiders take turns.
CrawlIsTold == focus = "crawl" => Crawl!CrawlIsTold
\* Proxies that refuse every connection cost requests, never a page.
DeadProxiesHarmless == focus = "web" => Web!DeadProxiesHarmless
\* What a tab stores is what it shows, but for answers meant for another session;
\* polls bring every event in their reach once, unless two of them overlap; the
\* graph page shows what its user chose, but for answers that come late.
PagesSound ==
    /\ focus = "tab" => Tab!SessionSound
    /\ focus = "poll" => Poll!CursorSound
    /\ focus = "browser" => Browser!BrowserSound
\* The overview of the graph has both ends of every connection, every position once,
\* and bubbles that open on what they announce, whatever changed between its queries.
OverviewSound == focus = "overview" => Overview!OverviewSound

Sites == [p \in Offers |-> IF p = "posting1" THEN "v2ex" ELSE "juejin"]

\* Two postings with one content and one with another that looks like it.
TwoAndOne == [j \in Jds |-> IF j = "jd3" THEN "text2" ELSE "text1"]
AllAlike == [t \in Texts |-> Texts]

\* Two bubbles that share a position, and one of another mode that holds it too.
BubblesByMode == [domain |-> {"area1", "area2"}, level |-> {"junior"}]
EdgesByBubble ==
    [area1 |-> {<<"position1", "skill1">>},
     area2 |-> {<<"position1", "skill2">>, <<"position2", "skill2">>},
     junior |-> {<<"position1", "skill1">>, <<"position1", "skill2">>}]

\* Two positions of different stacks and levels, each skill in an area of its own.
StackByPosition == [position1 |-> "backend", position2 |-> "other"]
LevelByPosition == [position1 |-> "middle", position2 |-> "senior"]
SkillsByArea == [area1 |-> {"skill1"}, area2 |-> {"skill2"}]

=============================================================================

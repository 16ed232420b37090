----------------------------- MODULE CrawlStage -----------------------------
(***************************************************************************)
(* execute_crawl: the sources are read once, then crawled one after the    *)
(* other.  A spider runs in a thread under a timeout and is run again      *)
(* after an error or a timeout; what it returns is stored posting by       *)
(* posting.  Meanwhile an administrator crawls a single source, changes    *)
(* the sources, or the worker is lost and the stage starts over.           *)
(***************************************************************************)
EXTENDS Integers, FiniteSets, Sequences, SequencesExt

CONSTANTS
    Sources,      \* rows of data_sources
    Crawlable,    \* those of a type that is crawled without being selected
    WithSpider,   \* those whose platform is in the registry of spiders
    Default,      \* the source crawled when no configuration is found
    Offers, FoundAt,
    MaxAttempts,  \* runs of a spider: one and max_retries
    MaxChanges    \* requests of administrators and lost workers

CrawlAssumption ==
    /\ IsFiniteSet(Sources)
    /\ Crawlable \subseteq Sources /\ WithSpider \subseteq Sources
    /\ Default \in WithSpider
    /\ FoundAt \in [Offers -> Sources]
    /\ MaxAttempts \in Nat \ {0}

VARIABLES
    active, disabled,  \* the sources as their rows have them
    selected,  \* selected_sources of the run
    jdRaw,     \* postings stored
    pc, todo,  \* the configurations not yet crawled, as they were read
    attempt,
    thread,    \* the thread of the spider, which outlives its timeout
    items,     \* what it returned, not yet stored
    outcome,   \* sub_breakdown: -1 disabled, -2 no spider, -3 given up, or a count
    new, duplicate, seen,
    handled,   \* of the source under way: new and duplicate
    mine,      \* postings this execution stored
    changes,
    single     \* the source and the postings of a request to crawl one source

sourceVars == <<active, disabled, selected>>
countVars == <<new, duplicate, seen, handled, mine>>
vars == <<sourceVars, jdRaw, pc, todo, attempt, thread, items, outcome, countVars,
          changes, single>>

Disabled == -1
NoSpider == -2
GivenUp == -3

Init ==
    /\ active = Sources /\ disabled = {}
    /\ selected \in SUBSET Sources
    /\ jdRaw = {} /\ changes = 0 /\ single = <<>>
    /\ pc = "config" /\ todo = <<>> /\ attempt = 0 /\ thread = "none"
    /\ items = {} /\ outcome = <<>>
    /\ new = 0 /\ duplicate = 0 /\ seen = 0 /\ handled = 0 /\ mine = {}

Current == Head(todo).source

-----------------------------------------------------------------------------
\* A selection is taken by name, whatever the type of the source.
Chosen == active \cap (IF selected = {} THEN Crawlable ELSE selected)

\* With nothing to crawl, also because the query failed, V2EX is crawled.
ReadConfigs ==
    /\ pc = "config"
    /\ LET config(s) == [source |-> s, disabled |-> s \in disabled]
       IN  \E found \in {Chosen, {}} :
             todo' = IF found = {} THEN <<[source |-> Default, disabled |-> FALSE]>>
                     ELSE SetToSeq({config(s) : s \in found})
    /\ pc' = "source"
    /\ UNCHANGED <<sourceVars, jdRaw, attempt, thread, items, outcome, countVars,
                   changes, single>>

SetOutcome(s, o) ==
    outcome' = [x \in DOMAIN outcome \cup {s} |-> IF x = s THEN o ELSE outcome[x]]

SkipSource ==
    /\ pc = "source" /\ todo # <<>>
    /\ \/ Head(todo).disabled /\ SetOutcome(Current, Disabled)
       \/ /\ ~Head(todo).disabled /\ Current \notin WithSpider
          /\ SetOutcome(Current, NoSpider)
    /\ todo' = Tail(todo)
    /\ UNCHANGED <<sourceVars, jdRaw, pc, attempt, thread, items, countVars,
                   changes, single>>

Runs(n) ==
    /\ attempt' = n
    /\ thread' = "running"
    /\ pc' = "spider"

StartSource ==
    /\ pc = "source" /\ todo # <<>>
    /\ ~Head(todo).disabled /\ Current \in WithSpider
    /\ Runs(1)
    /\ UNCHANGED <<sourceVars, jdRaw, todo, items, outcome, countVars, changes, single>>

\* wait_for gives up, but asyncio.run returns only after its threads ended.
TimeLimit ==
    /\ pc = "spider" /\ thread = "running"
    /\ pc' = "late"
    /\ UNCHANGED <<sourceVars, jdRaw, todo, attempt, thread, items, outcome, countVars,
                   changes, single>>

SpiderEnds ==
    /\ thread = "running"
    /\ thread' = "none"
    /\ \/ /\ pc = "spider"
          /\ \E found \in SUBSET {p \in Offers : FoundAt[p] = Current} :
                items' = found
          /\ handled' = 0
          /\ pc' = "items"
       \/ /\ pc \in {"spider", "late"}
          /\ pc' = "failed"
          /\ UNCHANGED <<items, handled>>
    /\ UNCHANGED <<sourceVars, jdRaw, todo, attempt, outcome, new, duplicate, seen, mine,
                   changes, single>>

TryAgain ==
    /\ pc = "failed" /\ attempt < MaxAttempts
    /\ Runs(attempt + 1)
    /\ UNCHANGED <<sourceVars, jdRaw, todo, items, outcome, countVars, changes, single>>

GiveUp ==
    /\ pc = "failed" /\ attempt >= MaxAttempts
    /\ SetOutcome(Current, GivenUp)
    /\ todo' = Tail(todo)
    /\ pc' = "source"
    /\ UNCHANGED <<sourceVars, jdRaw, attempt, thread, items, countVars, changes, single>>

\* What dao.upsert_jd answers.  Whatever error the statement raises is taken
\* for a second unique key that is violated.
Answers(p) ==
    IF p \in jdRaw THEN {"duplicate", "failed"}
    ELSE {"inserted", "duplicate", "failed"}

Stored(p, answer) ==
    jdRaw' = IF answer = "inserted" THEN jdRaw \cup {p} ELSE jdRaw

IsHandled(answer) == answer # "failed"
IsNew(answer) == answer = "inserted"

One(condition) == IF condition THEN 1 ELSE 0

\* Duplicates count as handled: the outcome of a source is not what is new.
StoreOne ==
    /\ pc = "items"
    /\ \E p \in items : \E answer \in Answers(p) :
          /\ items' = items \ {p}
          /\ Stored(p, answer)
          /\ seen' = seen + 1
          /\ new' = new + One(IsNew(answer))
          /\ duplicate' = duplicate + One(answer = "duplicate")
          /\ handled' = handled + One(IsHandled(answer))
          /\ mine' = IF answer = "inserted" THEN mine \cup {p} ELSE mine
    /\ UNCHANGED <<sourceVars, pc, todo, attempt, thread, outcome, changes, single>>

SourceDone ==
    /\ pc = "items" /\ items = {}
    /\ SetOutcome(Current, handled)
    /\ todo' = Tail(todo)
    /\ pc' = "source"
    /\ UNCHANGED <<sourceVars, jdRaw, attempt, thread, items, countVars, changes, single>>

StageEnds ==
    /\ pc = "source" /\ todo = <<>>
    /\ pc' = "returned"
    /\ UNCHANGED <<sourceVars, jdRaw, todo, attempt, thread, items, outcome, countVars,
                   changes, single>>

-----------------------------------------------------------------------------
Change == changes < MaxChanges /\ changes' = changes + 1

\* PUT, DELETE and resume of a source, and its automatic pauses.
SourceChanges ==
    /\ Change
    /\ \E s \in Sources :
          \/ active' = (active \ {s}) \cup ({s} \ active) /\ UNCHANGED disabled
          \/ disabled' = (disabled \ {s}) \cup ({s} \ disabled) /\ UNCHANGED active
    /\ UNCHANGED <<selected, jdRaw, pc, todo, attempt, thread, items, outcome,
                   countVars, single>>

\* POST /pipeline/crawl-source looks at neither the status nor the switch.
CrawlSingle ==
    /\ Change
    /\ single = <<>>
    /\ \E s \in WithSpider :
         \E found \in SUBSET {p \in Offers : FoundAt[p] = s} : single' = <<s, found>>
    /\ UNCHANGED <<sourceVars, jdRaw, pc, todo, attempt, thread, items, outcome, countVars>>

StoreSingle ==
    /\ single # <<>>
    /\ IF single[2] = {} THEN single' = <<>> /\ UNCHANGED jdRaw
       ELSE \E p \in single[2] : \E answer \in Answers(p) :
              /\ single' = <<single[1], single[2] \ {p}>>
              /\ Stored(p, answer)
    /\ UNCHANGED <<sourceVars, pc, todo, attempt, thread, items, outcome, countVars, changes>>

\* The message is delivered again; the thread ended with its process.
Redelivered ==
    /\ Change
    /\ pc # "returned"
    /\ pc' = "config" /\ todo' = <<>> /\ attempt' = 0 /\ thread' = "none"
    /\ items' = {} /\ outcome' = <<>>
    /\ new' = 0 /\ duplicate' = 0 /\ seen' = 0 /\ handled' = 0 /\ mine' = {}
    /\ UNCHANGED <<sourceVars, jdRaw, single>>

StageStep ==
    \/ ReadConfigs \/ SkipSource \/ StartSource \/ TimeLimit \/ SpiderEnds \/ TryAgain
    \/ GiveUp \/ StoreOne \/ SourceDone \/ StageEnds

Next == StageStep \/ SourceChanges \/ CrawlSingle \/ StoreSingle \/ Redelivered

Spec == Init /\ [][Next]_vars

-----------------------------------------------------------------------------
Outcomes == {Disabled, NoSpider, GivenUp} \cup Nat

TypeOK ==
    /\ active \subseteq Sources /\ disabled \subseteq Sources
    /\ jdRaw \subseteq Offers /\ mine \subseteq jdRaw /\ items \subseteq Offers
    /\ \A i \in DOMAIN todo : todo[i].source \in Sources
    /\ \A s \in DOMAIN outcome : outcome[s] \in Outcomes
    /\ attempt \in 0..MaxAttempts

\* The postings the sources report, numbered by source: a source that was skipped
\* or given up reports none.
Reported == UNION {{s} \X (1..outcome[s]) : s \in DOMAIN outcome}

\* What a crawl reports is what it did, although another crawl stores the same
\* postings: records_new counts the rows it stored itself, the counts of the
\* sources add up to the new and the duplicate ones, and no source is given up
\* while one of its spiders still runs: a timeout waits for the thread, and
\* only then is the spider run again or the next source begun (execute_crawl).
CrawlIsTold ==
    /\ new = Cardinality(mine)
    /\ pc = "returned" => new + duplicate = Cardinality(Reported)
    /\ thread = "running" => pc \in {"spider", "late"}

=============================================================================

------------------------------ MODULE Spiders ------------------------------
(***************************************************************************)
(* The spiders and their one way to the network, compliance.fetch.  A      *)
(* spider requests pages one after the other; a fetch asks at most twice,  *)
(* leaves a proxy that refuses the connection, and waits with a limiter    *)
(* that is created for this fetch (no spider passes one of its own).  What *)
(* a page says is left out; the robots check is off for all spiders.       *)
(***************************************************************************)
EXTENDS Naturals, Sequences

CONSTANTS
    Threads,      \* threads of one process that run a spider
    Proxies,      \* PROXY_LIST
    Direct,       \* stands for no proxy
    Topics,       \* postings a listing spider looks at
    MinInterval,  \* the interval that is promised to the sites
    Sleep,        \* DEFAULT_SLEEP
    MaxTime       \* bound of the clock

SpidersAssumption ==
    /\ Direct \notin Proxies
    /\ MinInterval \in Nat /\ Sleep \in Nat /\ MaxTime \in Nat /\ Topics \in Nat

Kinds == {"v2ex", "juejin", "page"}

VARIABLES
    spider,   \* what each thread runs
    pages,    \* the pages it has still to request: is one "needed" or "extra"?
    pc,
    attempt,  \* attempts of the fetch under way
    via,      \* its proxy
    last,     \* the last time its limiter knows
    dead,     \* _DEAD_PROXIES
    now,
    asked,    \* when a site of each kind was last requested
    lost,     \* threads that gave up a page
    weather   \* what the network does: proxies refuse, or anything may fail

fetchVars == <<attempt, via, last>>
vars == <<spider, pages, pc, fetchVars, dead, now, asked, lost, weather>>

Extras == [i \in 1..Topics |-> "extra"]

\* The clock of the machine has run for a while when the process starts.
Init ==
    /\ spider = [t \in Threads |-> "none"]
    /\ pages = [t \in Threads |-> <<>>]
    /\ pc = [t \in Threads |-> "idle"]
    /\ attempt = [t \in Threads |-> 0]
    /\ via = [t \in Threads |-> Direct]
    /\ last = [t \in Threads |-> 0]
    /\ dead = {}
    /\ now = Sleep
    /\ asked = [k \in Kinds |-> 0]
    /\ lost = {}
    /\ weather \in {"proxies_down", "unstable"}

Goto(t, place) == pc' = [pc EXCEPT ![t] = place]

-----------------------------------------------------------------------------
\* The listing of V2EX, then a page for each of its first topics.
RunV2ex(t) ==
    /\ spider' = [spider EXCEPT ![t] = "v2ex"]
    /\ pages' = [pages EXCEPT ![t] = <<"needed">> \o Extras]

\* The index of the sitemaps, the first of them, then its articles.
RunJuejin(t) ==
    /\ spider' = [spider EXCEPT ![t] = "juejin"]
    /\ pages' = [pages EXCEPT ![t] = <<"needed", "needed">> \o Extras]

\* The other spiders request one page.
RunOnePage(t) ==
    /\ spider' = [spider EXCEPT ![t] = "page"]
    /\ pages' = [pages EXCEPT ![t] = <<"needed">>]

Start(t) ==
    /\ pc[t] = "idle" /\ spider[t] = "none"
    /\ RunV2ex(t) \/ RunJuejin(t) \/ RunOnePage(t)
    /\ Goto(t, "page")
    /\ UNCHANGED <<fetchVars, dead, now, asked, lost, weather>>

\* A proxy not known to be dead, if there is one.
ChooseProxy(t) ==
    IF Proxies \subseteq dead THEN via' = [via EXCEPT ![t] = Direct]
    ELSE \E p \in Proxies \ dead : via' = [via EXCEPT ![t] = p]

\* A fetch begins, with a limiter of its own.
Fetch(t) ==
    /\ pc[t] = "page" /\ pages[t] # <<>>
    /\ ChooseProxy(t)
    /\ attempt' = [attempt EXCEPT ![t] = 0]
    /\ last' = [last EXCEPT ![t] = 0]
    /\ Goto(t, "request")
    /\ UNCHANGED <<spider, pages, dead, now, asked, lost, weather>>

Request(t) ==
    /\ pc[t] = "request"
    /\ asked' = [asked EXCEPT ![spider[t]] = now]
    /\ Goto(t, "asked")
    /\ UNCHANGED <<spider, pages, fetchVars, dead, now, lost, weather>>

\* RateLimiter.wait sleeps only if it has been used less than Sleep ago.
MustSleep(t) == now - last[t] < Sleep

Wait(t, rest) ==
    IF MustSleep(t) THEN Goto(t, rest) /\ UNCHANGED last
    ELSE Goto(t, IF rest = "retry_wait" THEN "request" ELSE "answered")
         /\ last' = [last EXCEPT ![t] = now]

Answered(t) ==
    /\ pc[t] = "asked"
    /\ weather = "proxies_down" => via[t] = Direct
    /\ Wait(t, "final_wait")
    /\ UNCHANGED <<spider, pages, attempt, via, dead, now, asked, lost, weather>>

KeepsProxy(t) == via
Downgraded(t) == [via EXCEPT ![t] = Direct]

\* The proxy refuses: it is dead for this process, and the next attempt is
\* direct.
Refused(t) ==
    /\ pc[t] = "asked" /\ via[t] # Direct
    /\ dead' = dead \cup {via[t]}
    /\ via' = Downgraded(t)
    /\ attempt' = [attempt EXCEPT ![t] = @ + 1]
    /\ IF attempt[t] = 0 THEN Goto(t, "request") ELSE Goto(t, "failed")
    /\ UNCHANGED <<spider, pages, last, now, asked, lost, weather>>

\* Any other failure: the limiter, and the same way once more.
Fails(t) ==
    /\ pc[t] = "asked" /\ weather = "unstable"
    /\ attempt' = [attempt EXCEPT ![t] = @ + 1]
    /\ IF attempt[t] = 0 THEN Wait(t, "retry_wait")
       ELSE Goto(t, "failed") /\ UNCHANGED last
    /\ UNCHANGED <<spider, pages, via, dead, now, asked, lost, weather>>

WakeUp(t) ==
    /\ pc[t] \in {"retry_wait", "final_wait"} /\ ~MustSleep(t)
    /\ last' = [last EXCEPT ![t] = now]
    /\ Goto(t, IF pc[t] = "retry_wait" THEN "request" ELSE "answered")
    /\ UNCHANGED <<spider, pages, attempt, via, dead, now, asked, lost, weather>>

\* Without a needed page there is nothing to go on with; an extra one is
\* missed on its own.  A page that does not parse counts as no answer.
PageLost(t) ==
    /\ \/ pc[t] = "failed"
       \/ pc[t] = "answered" /\ weather = "unstable"
    /\ lost' = lost \cup {t}
    /\ pages' = [pages EXCEPT ![t] = IF Head(@) = "needed" THEN <<>> ELSE Tail(@)]
    /\ Goto(t, "page")
    /\ UNCHANGED <<spider, fetchVars, dead, now, asked, weather>>

PageRead(t) ==
    /\ pc[t] = "answered"
    /\ pages' = [pages EXCEPT ![t] = Tail(@)]
    /\ Goto(t, "page")
    /\ UNCHANGED <<spider, fetchVars, dead, now, asked, lost, weather>>

Return(t) ==
    /\ pc[t] = "page" /\ pages[t] = <<>>
    /\ Goto(t, "returned")
    /\ UNCHANGED <<spider, pages, fetchVars, dead, now, asked, lost, weather>>

Step(t) ==
    \/ Fetch(t) \/ Request(t) \/ Answered(t) \/ Refused(t) \/ Fails(t)
    \/ WakeUp(t) \/ PageLost(t) \/ PageRead(t) \/ Return(t)

Tick ==
    /\ now < MaxTime
    /\ now' = now + 1
    /\ UNCHANGED <<spider, pages, pc, fetchVars, dead, asked, lost, weather>>

Next == (\E t \in Threads : Start(t) \/ Step(t)) \/ Tick

Spec == Init /\ [][Next]_vars

-----------------------------------------------------------------------------
TypeOK ==
    /\ spider \in [Threads -> Kinds \cup {"none"}]
    /\ pages \in [Threads -> Seq({"needed", "extra"})]
    /\ attempt \in [Threads -> 0..2]
    /\ via \in [Threads -> Proxies \cup {Direct}]
    /\ dead \subseteq Proxies
    /\ \A t \in Threads : last[t] <= now
    /\ \A k \in Kinds : asked[k] <= now

\* Proxies that refuse every connection cost requests, never a page: a fetch
\* that met a dead proxy asks again without one, and a proxy that some thread
\* has met is not chosen again (get_proxy, mark_proxy_dead).
DeadProxiesHarmless ==
    weather = "proxies_down" => lost = {}

\* The requests of a thread to a site are MinInterval apart: "D8 决策要求
\* QPS ≤ 1，即两次请求之间至少间隔 1 秒" (compliance.py:69).
RequestsSpaced ==
    [][\A t \in Threads :
        pc[t] = "request" /\ pc'[t] = "asked" =>
            now - asked[spider[t]] >= MinInterval]_vars

=============================================================================

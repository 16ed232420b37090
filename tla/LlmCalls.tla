------------------------------ MODULE LlmCalls ------------------------------
(***************************************************************************)
(* Concurrent calls of call_llm_with_fallback in one process: the response *)
(* cache in Redis, the cost cap of the primary model, and the chain of     *)
(* providers that is tried until one answers.  Each await is a step: the   *)
(* cap is checked before a call is made and charged after its answer has   *)
(* been cached.                                                            *)
(***************************************************************************)
EXTENDS Integers, FiniteSets

CONSTANTS
    Callers,      \* concurrent calls
    Prompts,      \* prompts they may ask
    Short,        \* prompts short enough for Spark X
    TooLong,      \* prompts above the input limit
    Configured,   \* the providers with an API key
    Local,        \* whether the local fallback model is configured
    Cap,          \* cost cap of the primary model; 0: none
    MaxCost,      \* the largest cost of one call
    MaxCalls      \* bound: calls in all

Primary == "dashscope"
Providers == {"dashscope", "spark_x", "mimo", "deepseek", "xunfei"}

ASSUME LlmAssumption ==
    /\ IsFiniteSet(Callers)
    /\ Configured \subseteq Providers
    /\ Local \in BOOLEAN
    /\ Cap \in Nat /\ MaxCost \in Nat
    /\ MaxCalls \in Nat
    /\ Prompts # {}

VARIABLES
    pc,      \* where each call is
    prompt,  \* what it asks
    at,      \* the provider that is asked
    tried,   \* the providers that failed
    late,    \* the fallback budget is used up
    answer,  \* what the provider sent
    cache,   \* the prompts with a cached answer of the primary model
    cost,    \* the recorded cost of the primary model
    paid,    \* history: the part of it that was paid for
    calls    \* calls so far

vars == <<pc, prompt, at, tried, late, answer, cache, cost, paid, calls>>

Init ==
    /\ pc = [c \in Callers |-> "idle"]
    /\ prompt = [c \in Callers |-> CHOOSE p \in Prompts : TRUE]
    /\ at = [c \in Callers |-> Primary]
    /\ tried = [c \in Callers |-> {}]
    /\ late = [c \in Callers |-> FALSE]
    /\ answer = [c \in Callers |-> "none"]
    /\ cache = {}
    /\ cost = 0
    /\ paid = 0
    /\ calls = 0

Goto(c, where) == pc' = [pc EXCEPT ![c] = where]

\* Calls that are over.
Over == {"idle", "hit", "answered", "blocked", "unavailable", "raised", "cancelled"}

-----------------------------------------------------------------------------
Begin(c, p) ==
    /\ pc[c] \in Over
    /\ calls < MaxCalls
    /\ calls' = calls + 1
    /\ prompt' = [prompt EXCEPT ![c] = p]
    /\ tried' = [tried EXCEPT ![c] = {}]
    /\ late' = [late EXCEPT ![c] = FALSE]
    /\ answer' = [answer EXCEPT ![c] = "none"]
    /\ Goto(c, "lookup")
    /\ UNCHANGED <<at, cache, cost, paid>>

\* A hit is recorded as if it had been paid for.
CacheHit(c) ==
    /\ pc[c] = "lookup"
    /\ prompt[c] \in cache
    /\ \E x \in 0 .. MaxCost : cost' = cost + x
    /\ Goto(c, "hit")
    /\ UNCHANGED <<prompt, at, tried, late, answer, cache, paid, calls>>

\* No entry, or Redis does not answer.
CacheMiss(c) ==
    /\ pc[c] = "lookup"
    /\ Goto(c, "gate")
    /\ UNCHANGED <<prompt, at, tried, late, answer, cache, cost, paid, calls>>

\* Variant: the cap may be reached before calls are blocked.
BlockedAboveCap == Cap > 0 /\ cost > Cap

\* is_blocked
Blocked == Cap > 0 /\ cost >= Cap

Refuse(c) ==
    /\ pc[c] = "gate"
    /\ Blocked \/ prompt[c] \in TooLong
    /\ Goto(c, "blocked")
    /\ UNCHANGED <<prompt, at, tried, late, answer, cache, cost, paid, calls>>

Admit(c) ==
    /\ pc[c] = "gate"
    /\ ~Blocked
    /\ prompt[c] \notin TooLong
    /\ Goto(c, "try")
    /\ UNCHANGED <<prompt, at, tried, late, answer, cache, cost, paid, calls>>

-----------------------------------------------------------------------------
\* The providers a prompt may go to, in the order of the chain.
Candidates(p) == {m \in Configured : m = "spark_x" => p \in Short}

Before(m, n) ==
    \/ m = "dashscope"
    \/ m = "spark_x" /\ n # "dashscope"
    \/ m = "mimo" /\ n \in {"mimo", "deepseek", "xunfei"}
    \/ m = "deepseek" /\ n \in {"deepseek", "xunfei"}
    \/ m = n

\* The next provider of the call's chain.
IsNext(c, m) ==
    LET left == Candidates(prompt[c]) \ tried[c] IN
    m \in left /\ \A n \in left : Before(m, n)

Ask(c, m) ==
    /\ pc[c] = "try"
    /\ ~late[c]
    /\ IsNext(c, m)
    /\ at' = [at EXCEPT ![c] = m]
    /\ Goto(c, "waiting")
    /\ UNCHANGED <<prompt, tried, late, answer, cache, cost, paid, calls>>

\* The budget is checked before each provider; used up, it fails every one of
\* them without a request.
Skip(c, m) ==
    /\ pc[c] = "try"
    /\ late[c]
    /\ IsNext(c, m)
    /\ tried' = [tried EXCEPT ![c] = @ \cup {m}]
    /\ UNCHANGED <<pc, prompt, at, late, answer, cache, cost, paid, calls>>

\* Variant: a provider that failed is asked again.
ProviderFailsForgotten(c) ==
    /\ pc[c] = "waiting"
    /\ late' \in {late, [late EXCEPT ![c] = TRUE]}
    /\ Goto(c, "try")
    /\ UNCHANGED <<prompt, at, tried, answer, cache, cost, paid, calls>>

\* Connection, response or timeout error, possibly after the budget's time.
ProviderFails(c) ==
    /\ pc[c] = "waiting"
    /\ tried' = [tried EXCEPT ![c] = @ \cup {at[c]}]
    /\ late' \in {late, [late EXCEPT ![c] = TRUE]}
    /\ Goto(c, "try")
    /\ UNCHANGED <<prompt, at, answer, cache, cost, paid, calls>>

ProviderAnswers(c) ==
    /\ pc[c] = "waiting"
    /\ \E a \in {"complete", "truncated", "empty"} : answer' = [answer EXCEPT ![c] = a]
    /\ Goto(c, "caching")
    /\ UNCHANGED <<prompt, at, tried, late, cache, cost, paid, calls>>

\* An error of another kind, such as a body that is not JSON, ends the call.
ProviderRaises(c) ==
    /\ pc[c] = "waiting"
    /\ Goto(c, "raised")
    /\ UNCHANGED <<prompt, at, tried, late, answer, cache, cost, paid, calls>>

\* finish_reason = length is never cached, nor is an empty answer (aset).
Cacheable(c) == answer[c] = "complete"

\* Redis stores the answer, or does not answer in turn.
Store(c) ==
    /\ pc[c] = "caching"
    /\ \/ /\ Cacheable(c) /\ at[c] = Primary
          /\ cache' = cache \cup {prompt[c]}
       \/ UNCHANGED cache
    /\ Goto(c, "recording")
    /\ UNCHANGED <<prompt, at, tried, late, answer, cost, paid, calls>>

\* Back from the cache, the call records its cost.
Record(c) ==
    /\ pc[c] = "recording"
    /\ \E x \in 0 .. MaxCost :
        IF at[c] = Primary
        THEN cost' = cost + x /\ paid' = paid + x
        ELSE UNCHANGED <<cost, paid>>
    /\ Goto(c, "answered")
    /\ UNCHANGED <<prompt, at, tried, late, answer, cache, calls>>

\* The local model, neither budgeted nor cached, when no provider is left.
AskLocal(c) ==
    /\ pc[c] = "try"
    /\ Candidates(prompt[c]) \subseteq tried[c]
    /\ \E end \in {"unavailable"} \cup {e \in {"answered", "raised"} : Local} : Goto(c, end)
    /\ UNCHANGED <<prompt, at, tried, late, answer, cache, cost, paid, calls>>

\* The caller is cancelled at an await; a paid answer is then never recorded.
Cancel(c) ==
    /\ pc[c] \in {"lookup", "waiting", "caching", "recording"}
    /\ Goto(c, "cancelled")
    /\ UNCHANGED <<prompt, at, tried, late, answer, cache, cost, paid, calls>>

\* Entries live seven days.
Expire(p) ==
    /\ p \in cache
    /\ cache' = cache \ {p}
    /\ UNCHANGED <<pc, prompt, at, tried, late, answer, cost, paid, calls>>

CallStep(c) ==
    \/ CacheHit(c) \/ CacheMiss(c) \/ Refuse(c) \/ Admit(c)
    \/ \E m \in Providers : Ask(c, m) \/ Skip(c, m)
    \/ ProviderFails(c) \/ ProviderAnswers(c) \/ ProviderRaises(c)
    \/ Store(c) \/ Record(c) \/ AskLocal(c)

Next ==
    \/ \E c \in Callers : CallStep(c) \/ Cancel(c) \/ \E p \in Prompts : Begin(c, p)
    \/ \E p \in Prompts : Expire(p)

Spec == Init /\ [][Next]_vars

\* Every request to a provider has a timeout.
FairSpec == Spec /\ \A c \in Callers : WF_vars(CallStep(c))

-----------------------------------------------------------------------------
TypeOK ==
    /\ pc \in [Callers -> Over \cup {"lookup", "gate", "try", "waiting", "caching", "recording"}]
    /\ prompt \in [Callers -> Prompts]
    /\ at \in [Callers -> Providers]
    /\ tried \in [Callers -> SUBSET Providers]
    /\ late \in [Callers -> BOOLEAN]
    /\ answer \in [Callers -> {"none", "complete", "truncated", "empty"}]
    /\ cache \subseteq Prompts
    /\ cost \in Nat /\ paid \in Nat /\ calls \in Nat

\* The cap is checked before the cost of calls under way is known: what is
\* recorded for the primary model stays below the cap plus one call of each
\* concurrent caller (is_blocked, record).
SpendBounded == Cap > 0 => paid <= Cap - 1 + MaxCost * Cardinality(Callers)

\* A call ends, whatever the providers do.
CallsEnd == \A c \in Callers : pc[c] = "lookup" ~> pc[c] \in Over

=============================================================================

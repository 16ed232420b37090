------------------------------ MODULE LiveFeed ------------------------------
(***************************************************************************)
(* useSSE, the live feed of a page: an EventSource that is opened again    *)
(* after errors, a silent refresh of the access token, and polling when    *)
(* the stream stays down.  What the polls bring is in PollCursor, here     *)
(* they only count as failures or successes.                               *)
(***************************************************************************)
EXTENDS Integers, FiniteSets, FiniteSetsExt

CONSTANTS
    PollThreshold,  \* pollThreshold
    MaxRetries,     \* maxRetries
    MaxPolls        \* bound: polls under way at the same time

FeedAssumption == {PollThreshold, MaxRetries, MaxPolls} \subseteq Nat

VARIABLES
    source,      \* eventSource: "none", "connecting" or "open"
    mode,        \* what the page shows
    retryCount, failures,             \* retryCount, consecutiveFailures
    retryTimer, pollTimer, sseTimer,  \* the timers that are set
    refreshing,  \* refreshingToken: a refresh is under way
    renewable,   \* a refresh token is stored
    polls,       \* polls that have not returned
    disposed     \* the page was left

vars == <<source, mode, retryCount, failures, retryTimer, pollTimer, sseTimer, refreshing,
          renewable, polls, disposed>>

\* Beyond the threshold all counts of failures are the same.
OneMore(n) == Min({n + 1, PollThreshold})

Init ==
    /\ source = "connecting" /\ mode = "sse"
    /\ retryCount = 0 /\ failures = 0 /\ polls = 0
    /\ retryTimer = FALSE /\ pollTimer = FALSE /\ sseTimer = FALSE
    /\ refreshing = FALSE /\ disposed = FALSE
    /\ renewable \in BOOLEAN

\* pollOnce up to its fetch.
PollOnce == polls < MaxPolls /\ polls' = polls + 1

\* startPolling
StartPolling ==
    IF disposed \/ pollTimer
    THEN UNCHANGED <<mode, pollTimer, sseTimer, polls>>
    ELSE mode' = "polling" /\ pollTimer' = TRUE /\ sseTimer' = TRUE /\ PollOnce

\* Variant: nothing is done before the threshold is reached.
HandleSseErrorAtThreshold ==
    /\ UNCHANGED <<retryCount, retryTimer>>
    /\ \/ failures' >= PollThreshold /\ StartPolling
       \/ failures' < PollThreshold /\ UNCHANGED <<mode, pollTimer, sseTimer, polls>>

\* handleSSEError: polling after PollThreshold failures or MaxRetries attempts,
\* another attempt later before that.
HandleSseError ==
    \/ /\ failures' >= PollThreshold \/ retryCount >= MaxRetries
       /\ StartPolling
       /\ UNCHANGED <<retryCount, retryTimer>>
    \/ /\ failures' < PollThreshold /\ retryCount < MaxRetries
       /\ retryCount' = retryCount + 1 /\ retryTimer' = TRUE
       /\ UNCHANGED <<mode, pollTimer, sseTimer, polls>>

\* Variant: a page that was left connects again.
ConnectSseAlways == source' = "connecting" /\ mode' = "sse"

\* connectSSE
ConnectSse ==
    IF disposed THEN UNCHANGED <<source, mode>>
    ELSE source' = "connecting" /\ mode' = "sse"

\* The attempts start counting anew.
ConnectAfresh == retryCount' = 0 /\ failures' = 0 /\ ConnectSse

-----------------------------------------------------------------------------
\* onopen
Opens ==
    /\ source = "connecting"
    /\ source' = "open" /\ mode' = "sse"
    /\ retryCount' = 0 /\ failures' = 0
    /\ pollTimer' = FALSE /\ sseTimer' = FALSE
    /\ UNCHANGED <<retryTimer, refreshing, renewable, polls, disposed>>

\* onmessage
Message ==
    /\ source = "open" /\ failures # 0
    /\ failures' = 0
    /\ UNCHANGED <<source, mode, retryCount, retryTimer, pollTimer, sseTimer, refreshing,
                   renewable, polls, disposed>>

\* onerror: the first of a series of failures tries the refresh token.
StreamFails ==
    /\ source # "none" /\ source' = "none"
    /\ failures' = OneMore(failures)
    /\ IF failures = 0 /\ renewable /\ ~refreshing
       THEN /\ refreshing' = TRUE
            /\ UNCHANGED <<mode, retryCount, retryTimer, pollTimer, sseTimer, polls>>
       ELSE HandleSseError /\ UNCHANGED refreshing
    /\ UNCHANGED <<renewable, disposed>>

\* silentRefreshForSSE has an access token, or has none.
Refreshed ==
    /\ refreshing /\ refreshing' = FALSE
    /\ \/ /\ renewable /\ ~disposed
          /\ ConnectAfresh
          /\ UNCHANGED <<retryTimer, pollTimer, sseTimer, polls>>
       \/ UNCHANGED <<source, failures>> /\ HandleSseError
    /\ UNCHANGED <<renewable, disposed>>

\* The backoff is over.
RetryFires ==
    /\ retryTimer /\ retryTimer' = FALSE
    /\ ConnectSse
    /\ UNCHANGED <<retryCount, failures, pollTimer, sseTimer, refreshing, renewable, polls,
                   disposed>>

\* Variant: the stream is tried again although an attempt is under way.
SseTimerFiresAlways ==
    /\ sseTimer
    /\ ConnectAfresh
    /\ UNCHANGED <<retryTimer, pollTimer, sseTimer, refreshing, renewable, polls, disposed>>

\* While polling, the stream is tried again every sseRetryInterval.
SseTimerFires ==
    /\ sseTimer /\ mode # "sse"
    /\ ConnectAfresh
    /\ UNCHANGED <<retryTimer, pollTimer, sseTimer, refreshing, renewable, polls, disposed>>

PollTimerFires ==
    /\ pollTimer /\ PollOnce
    /\ UNCHANGED <<source, mode, retryCount, failures, retryTimer, pollTimer, sseTimer,
                   refreshing, renewable, disposed>>

\* A poll brings an answer, an error status or no answer at all.
PollReturns ==
    /\ polls > 0 /\ polls' = polls - 1
    /\ failures' \in {0, failures, OneMore(failures)}
    /\ UNCHANGED <<source, mode, retryCount, retryTimer, pollTimer, sseTimer, refreshing,
                   renewable, disposed>>

\* The refresh token is removed: the session ended in this or in another tab.
SessionEnds ==
    /\ renewable /\ renewable' = FALSE
    /\ UNCHANGED <<source, mode, retryCount, failures, retryTimer, pollTimer, sseTimer,
                   refreshing, polls, disposed>>

\* disconnect, when the page is left
Disconnect ==
    /\ ~disposed /\ disposed' = TRUE
    /\ source' = "none" /\ mode' = "disconnected"
    /\ retryTimer' = FALSE /\ pollTimer' = FALSE /\ sseTimer' = FALSE
    /\ UNCHANGED <<retryCount, failures, refreshing, renewable, polls>>

Next ==
    \/ Opens \/ Message \/ StreamFails \/ Refreshed \/ RetryFires \/ SseTimerFires
    \/ PollTimerFires \/ PollReturns \/ SessionEnds \/ Disconnect

Spec == Init /\ [][Next]_vars

\* An attempt at the stream ends.
AttemptEnds == source = "connecting" /\ (Opens \/ StreamFails)

-----------------------------------------------------------------------------
TypeOK ==
    /\ source \in {"none", "connecting", "open"}
    /\ mode \in {"sse", "polling", "disconnected"}
    /\ retryCount \in 0 .. MaxRetries
    /\ failures \in 0 .. PollThreshold
    /\ polls \in 0 .. MaxPolls
    /\ {retryTimer, pollTimer, sseTimer, refreshing, renewable, disposed} \subseteq BOOLEAN

\* There is never a second attempt at the stream while one is under way, waits
\* for its time or for a refresh, although two timers and the refresh start
\* them; and a page that was left has no stream and no interval, whatever
\* arrives later (useSSE).
OneAttempt ==
    /\ source # "none" => ~retryTimer /\ ~refreshing
    /\ ~(retryTimer /\ refreshing)
    /\ disposed => source = "none" /\ ~pollTimer /\ ~sseTimer

\* Whatever fails, the page again and again has a stream, polls or refreshes its
\* token: it never waits for nothing (handleSSEError).
FeedGoesOn == []<>(disposed \/ source = "open" \/ pollTimer \/ refreshing)

=============================================================================

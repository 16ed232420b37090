------------------------------ MODULE SseSlots ------------------------------
(***************************************************************************)
(* Admission of server-sent-event clients in one API process: the slots    *)
(* per IP and in all that the authentication dependency takes, and the     *)
(* stream counter of the broadcaster.  A stream endpoint gives its slot    *)
(* back in the `finally' of its wrapper, the broadcaster its stream in the *)
(* `finally' of its own generator; the two run in either order when a      *)
(* connection is dropped.  What is never given back is remembered in       *)
(* `lost', `lostInAll' and `lostStreams'.                                  *)
(***************************************************************************)
EXTENDS Integers, FiniteSets

CONSTANTS
    Clients,     \* connections that may exist at the same time
    Ips,         \* client addresses
    IpOf,        \* the address of each client
    MaxPerIp,    \* _SSE_MAX_PER_IP
    MaxGlobal,   \* _SSE_MAX_GLOBAL
    MaxStreams   \* MAX_SSE_CLIENTS

SlotsAssumption ==
    /\ IsFiniteSet(Clients) /\ IpOf \in [Clients -> Ips]
    /\ {MaxPerIp, MaxGlobal, MaxStreams} \subseteq Nat

VARIABLES
    perIp,       \* _sse_ip_connections
    global,      \* _sse_global_connections
    active,      \* _active_sse_clients
    conn,        \* where each client's connection is
    owes,        \* what the generators of a closing connection still release
    lost,        \* history: slots of each address nobody will release
    lostInAll,   \* history: those slots of all addresses
    lostStreams  \* history: streams of the broadcaster nobody will release

vars == <<perIp, global, active, conn, owes, lost, lostInAll, lostStreams>>

Init ==
    /\ perIp = [i \in Ips |-> 0]
    /\ global = 0
    /\ active = 0
    /\ conn = [c \in Clients |-> "none"]
    /\ owes = [c \in Clients |-> {}]
    /\ lost = [i \in Ips |-> 0]
    /\ lostInAll = 0
    /\ lostStreams = 0

Goto(c, where) == conn' = [conn EXCEPT ![c] = where]

\* The request is over and its slot was not released.
Leak(c) ==
    /\ Goto(c, "none")
    /\ lost' = [lost EXCEPT ![IpOf[c]] = @ + 1]
    /\ lostInAll' = lostInAll + 1

-----------------------------------------------------------------------------
\* sse_connect, the first thing get_current_user_sse does, for a stream
\* endpoint or for one of the polling endpoints.
Connect(c, kind) ==
    /\ conn[c] = "none"
    /\ global < MaxGlobal
    /\ perIp[IpOf[c]] < MaxPerIp
    /\ perIp' = [perIp EXCEPT ![IpOf[c]] = @ + 1]
    /\ global' = global + 1
    /\ Goto(c, kind)
    /\ UNCHANGED <<active, owes, lost, lostInAll, lostStreams>>

\* The token is invalid or has expired: 401, after the slot was taken.
Unauthorised(c) ==
    /\ conn[c] \in {"stream", "poll"}
    /\ Leak(c)
    /\ UNCHANGED <<perIp, global, active, owes, lostStreams>>

\* realtime-poll and events-poll take a slot through the same dependency and
\* answer without releasing it.
PollAnswered(c) ==
    /\ conn[c] = "poll"
    /\ Leak(c)
    /\ UNCHANGED <<perIp, global, active, owes, lostStreams>>

\* The client is gone before the response body is iterated: the generator with
\* the `finally' never starts.
Abandoned(c) ==
    /\ conn[c] = "stream"
    /\ Leak(c)
    /\ UNCHANGED <<perIp, global, active, owes, lostStreams>>

\* event_stream without Redis, or with too many streams: one error event, end.
StreamRefused(c) ==
    /\ conn[c] = "stream"
    /\ Goto(c, "closing")
    /\ owes' = [owes EXCEPT ![c] = {"slot"}]
    /\ UNCHANGED <<perIp, global, active, lost, lostInAll, lostStreams>>

\* Variant: the limit of streams is not looked at.
StreamOpensUnlimited(c) ==
    /\ conn[c] = "stream"
    /\ active' = active + 1
    /\ Goto(c, "subscribing")
    /\ UNCHANGED <<perIp, global, owes, lost, lostInAll, lostStreams>>

StreamOpens(c) ==
    /\ conn[c] = "stream"
    /\ active < MaxStreams
    /\ active' = active + 1
    /\ Goto(c, "subscribing")
    /\ UNCHANGED <<perIp, global, owes, lost, lostInAll, lostStreams>>

\* The subscription fails, or is cancelled, before the `try' whose `finally'
\* counts the stream down.
SubscribeFails(c) ==
    /\ conn[c] = "subscribing"
    /\ Goto(c, "closing")
    /\ owes' = [owes EXCEPT ![c] = {"slot"}]
    /\ lostStreams' = lostStreams + 1
    /\ UNCHANGED <<perIp, global, active, lost, lostInAll>>

Subscribed(c) ==
    /\ conn[c] = "subscribing"
    /\ Goto(c, "streaming")
    /\ UNCHANGED <<perIp, global, active, owes, lost, lostInAll, lostStreams>>

\* Disconnect, cancellation or a stream error.
StreamEnds(c) ==
    /\ conn[c] = "streaming"
    /\ Goto(c, "closing")
    /\ owes' = [owes EXCEPT ![c] = {"slot", "stream"}]
    /\ UNCHANGED <<perIp, global, active, lost, lostInAll, lostStreams>>

-----------------------------------------------------------------------------
\* What is left to do for c once `what' is released.
Released(c, what) ==
    /\ what \in owes[c]
    /\ owes' = [owes EXCEPT ![c] = @ \ {what}]
    /\ conn' = [conn EXCEPT ![c] = IF owes[c] = {what} THEN "none" ELSE @]

\* Variant: the address is not counted down.
ReleaseGlobalOnly(c) ==
    /\ Released(c, "slot")
    /\ global' = IF global > 0 THEN global - 1 ELSE 0
    /\ UNCHANGED <<perIp, active, lost, lostInAll, lostStreams>>

\* sse_disconnect
ReleaseSlot(c) ==
    /\ Released(c, "slot")
    /\ perIp' = [perIp EXCEPT ![IpOf[c]] = IF @ > 0 THEN @ - 1 ELSE 0]
    /\ global' = IF global > 0 THEN global - 1 ELSE 0
    /\ UNCHANGED <<active, lost, lostInAll, lostStreams>>

\* The `finally' of event_stream.
ReleaseStream(c) ==
    /\ Released(c, "stream")
    /\ active' = IF active > 0 THEN active - 1 ELSE 0
    /\ UNCHANGED <<perIp, global, lost, lostInAll, lostStreams>>

\* The counters live in the process: a restart drops connections and counters.
Restart ==
    /\ perIp' = [i \in Ips |-> 0]
    /\ global' = 0
    /\ active' = 0
    /\ conn' = [c \in Clients |-> "none"]
    /\ owes' = [c \in Clients |-> {}]
    /\ lost' = [i \in Ips |-> 0]
    /\ lostInAll' = 0
    /\ lostStreams' = 0

ClientStep(c) ==
    \/ \E kind \in {"stream", "poll"} : Connect(c, kind)
    \/ Unauthorised(c) \/ PollAnswered(c) \/ Abandoned(c)
    \/ StreamRefused(c) \/ StreamOpens(c) \/ SubscribeFails(c)
    \/ Subscribed(c) \/ StreamEnds(c) \/ ReleaseSlot(c) \/ ReleaseStream(c)

Next == (\E c \in Clients : ClientStep(c)) \/ Restart

Spec == Init /\ [][Next]_vars

-----------------------------------------------------------------------------
Conn == {"none", "stream", "poll", "subscribing", "streaming", "closing"}

TypeOK ==
    /\ perIp \in [Ips -> 0 .. MaxPerIp]
    /\ global \in 0 .. MaxGlobal
    /\ active \in 0 .. MaxStreams
    /\ conn \in [Clients -> Conn]
    /\ owes \in [Clients -> SUBSET {"slot", "stream"}]
    /\ lost \in [Ips -> Nat]
    /\ {lostInAll, lostStreams} \subseteq Nat

\* The connections that hold a slot, and those that hold a stream.
SlotHolders ==
    {c \in Clients : conn[c] \in {"stream", "poll", "subscribing", "streaming"}
                        \/ "slot" \in owes[c]}
StreamHolders ==
    {c \in Clients : conn[c] \in {"subscribing", "streaming"} \/ "stream" \in owes[c]}

\* The counters say exactly who is connected, plus what failed requests, polls
\* and failed subscriptions left behind: no release is counted twice or for
\* somebody else, in whatever order generators are closed (sse_disconnect,
\* event_stream).
SlotsAccounted ==
    /\ \A i \in Ips :
        perIp[i] = lost[i] + Cardinality({c \in SlotHolders : IpOf[c] = i})
    /\ global = lostInAll + Cardinality(SlotHolders)
    /\ active = lostStreams + Cardinality(StreamHolders)

=============================================================================

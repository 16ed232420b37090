----------------------------- MODULE PollCursor -----------------------------
(***************************************************************************)
(* The events a page gets by polling: the list of recent events that       *)
(* publish_event keeps in Redis, get_recent_events, and the cursor with    *)
(* which pollOnce asks for the events after the youngest it has seen.      *)
(* Events are numbered by their timestamps.                                *)
(***************************************************************************)
EXTENDS Integers, Sequences, FiniteSets, FiniteSetsExt, SequencesExt

CONSTANTS
    MaxEvents,   \* bound: events published
    Publishers,  \* processes that publish at the same time
    Limit,       \* the limit of get_recent_events
    PollSlots    \* bound: polls under way at the same time

PollAssumption == MaxEvents \in Nat /\ Limit \in Nat \ {0}

VARIABLES
    recent,      \* dashboard:recent_events, the oldest first
    cursor,      \* lastEventTs
    poll,        \* the polls under way
    polled,      \* history: how often each event was handled
    published,   \* history: the events published,
    late, gone,  \* those behind a younger one, those no longer in reach
    overlapped   \* history: two polls were under way at the same time

vars == <<recent, cursor, poll, polled, published, late, gone, overlapped>>

Events == 1 .. MaxEvents
Idle == [at |-> "idle", since |-> 0, events |-> {}]

Init ==
    /\ recent = <<>> /\ cursor = 0 /\ poll = [p \in PollSlots |-> Idle]
    /\ polled = [e \in Events |-> 0]
    /\ published = {} /\ late = {} /\ gone = {} /\ overlapped = FALSE

\* What a poll can be answered with.
Newest(list) == ToSet(SubSeq(list, Max({1, Len(list) - Limit + 1}), Len(list)))

\* publish_event: a process stamps an event and pushes it, others may push
\* theirs in between.
Publish(e) ==
    /\ e \notin published
    /\ Cardinality(1 .. e - 1 \ published) < Publishers
    /\ published' = published \union {e}
    /\ recent' = Append(recent, e)
    /\ late' = late \union {d \in {e} : \E younger \in published : younger > d}
    /\ gone' = gone \union (Newest(recent) \ Newest(recent'))
    /\ UNCHANGED <<cursor, poll, polled, overlapped>>

\* EVENT_TTL after the last event the list is gone.
Expire ==
    /\ recent # <<>>
    /\ recent' = <<>> /\ gone' = gone \union ToSet(recent)
    /\ UNCHANGED <<cursor, poll, polled, published, late, overlapped>>

-----------------------------------------------------------------------------
\* pollOnce up to its fetch.
Ask(p) ==
    /\ poll[p] = Idle
    /\ poll' = [poll EXCEPT ![p].at = "asked", ![p].since = cursor]
    /\ overlapped' = (overlapped \/ \E q \in PollSlots : poll[q] # Idle)
    /\ UNCHANGED <<recent, cursor, polled, published, late, gone>>

\* Variant: events of the same age as the cursor are returned again.
AnsweredWithEqual(p) ==
    /\ poll[p].at \in {"asked", "renewed"}
    /\ LET events == {e \in Newest(recent) : e >= poll[p].since}
       IN poll' = [poll EXCEPT ![p].at = "answered", ![p].events = events]
    /\ UNCHANGED <<recent, cursor, polled, published, late, gone, overlapped>>

\* get_recent_events
Answered(p) ==
    /\ poll[p].at \in {"asked", "renewed"}
    /\ LET events == {e \in Newest(recent) : e > poll[p].since}
       IN poll' = [poll EXCEPT ![p].at = "answered", ![p].events = events]
    /\ UNCHANGED <<recent, cursor, polled, published, late, gone, overlapped>>

\* The access token has expired: it is refreshed and the same URL fetched again.
Renew(p) ==
    /\ poll[p].at = "asked"
    /\ poll' = [poll EXCEPT ![p].at = "renewed"]
    /\ UNCHANGED <<recent, cursor, polled, published, late, gone, overlapped>>

\* The request fails, or the token cannot be refreshed.
AskFails(p) ==
    /\ poll[p].at # "idle"
    /\ poll' = [poll EXCEPT ![p] = Idle]
    /\ UNCHANGED <<recent, cursor, polled, published, late, gone, overlapped>>

\* Each event is handled and the cursor moves to the youngest.
Arrive(p) ==
    /\ poll[p].at = "answered"
    /\ poll' = [poll EXCEPT ![p] = Idle]
    /\ polled' = [e \in Events |-> polled[e] + IF e \in poll[p].events THEN 1 ELSE 0]
    /\ cursor' = Max(poll[p].events \union {cursor})
    /\ UNCHANGED <<recent, published, late, gone, overlapped>>

Next ==
    \/ (\E e \in Events : Publish(e)) \/ Expire
    \/ \E p \in PollSlots : Ask(p) \/ Answered(p) \/ Renew(p) \/ AskFails(p) \/ Arrive(p)

Spec == Init /\ [][Next]_vars

-----------------------------------------------------------------------------
TypeOK ==
    /\ recent \in Seq(Events) /\ cursor \in 0 .. MaxEvents
    /\ \A p \in PollSlots :
        /\ poll[p].at \in {"idle", "asked", "renewed", "answered"}
        /\ poll[p].since \in 0 .. MaxEvents
        /\ poll[p].events \subseteq Events
    /\ polled \in [Events -> Nat] /\ overlapped \in BOOLEAN
    /\ published \union late \union gone \subseteq Events

\* Polls repeat an event only when two were under way at the same time, and the
\* cursor passes an event only if it was handled, was published behind a younger
\* one, or had left the reach of a poll (pollOnce, get_recent_events).
CursorSound ==
    /\ overlapped \/ \A e \in Events : polled[e] <= 1
    /\ \A e \in published : e <= cursor => polled[e] > 0 \/ e \in late \union gone

=============================================================================

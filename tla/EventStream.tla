----------------------------- MODULE EventStream -----------------------------
(***************************************************************************)
(* The event bus and GET /events.                                          *)
(*                                                                         *)
(* An event gets its time when it is made and its place when it is sent, a *)
(* few steps later, by whichever task made it.  The bus keeps the last few *)
(* events; each listener reads them at its own pace and skips what has     *)
(* been overwritten meanwhile.  Left out: filters on labels, which work    *)
(* like those on types, and the encoding.                                  *)
(***************************************************************************)
EXTENDS Naturals, Sequences, FiniteSets

CONSTANTS
    Publishers,  \* tasks that announce something
    Listeners,   \* requests
    Kinds,       \* the types of events
    Filters,     \* what a request may ask for: since, until (0: not given), kinds
    BusCap,      \* events the bus keeps
    MaxEvents,   \* bound: events
    MaxTime      \* bound: the clock

ASSUME EventsAssumption ==
    /\ BusCap \in Nat \ {0} /\ MaxEvents \in Nat /\ MaxTime \in Nat
    /\ IsFiniteSet(Listeners)

VARIABLES
    clock,
    making,      \* publisher -> the event it has made and not sent
    bus,         \* every event sent, in order; the last BusCap can be read
    hearer,      \* request -> its filter, the next event it reads, its state
    listeners,   \* event_listeners
    got,         \* request -> what was written to it
    overrun      \* ghost: request -> the places overwritten before it read them

eventVars == <<clock, making, bus, hearer, listeners, got, overrun>>

NoEvent == [time |-> 0, kind |-> "none"]
NotAsked == [filter |-> [since |-> 0, until |-> 0, kinds |-> {}], next |-> 1, first |-> 1,
             state |-> "new"]
Oldest == IF Len(bus) > BusCap THEN Len(bus) - BusCap + 1 ELSE 1
Open == {l \in Listeners : hearer[l].state = "open"}

EventInit ==
    /\ clock = 1
    /\ making = [p \in Publishers |-> NoEvent]
    /\ bus = <<>>
    /\ hearer = [l \in Listeners |-> NotAsked]
    /\ listeners = 0
    /\ got = [l \in Listeners |-> <<>>]
    /\ overrun = [l \in Listeners |-> {}]

Tick ==
    /\ clock < MaxTime
    /\ clock' = clock + 1
    /\ UNCHANGED <<making, bus, hearer, listeners, got, overrun>>

(* EventMessage::new() stamps the event.                                   *)
MakeEvent(p, kind) ==
    /\ making[p] = NoEvent
    /\ Len(bus) + Cardinality({q \in Publishers : making[q] # NoEvent}) < MaxEvents
    /\ making' = [making EXCEPT ![p] = [time |-> clock, kind |-> kind]]
    /\ UNCHANGED <<clock, bus, hearer, listeners, got, overrun>>

(* publish().  The oldest event goes when the bus is full.                 *)
Publish(p) ==
    /\ making[p] # NoEvent
    /\ bus' = Append(bus, making[p])
    /\ making' = [making EXCEPT ![p] = NoEvent]
    /\ overrun' = [l \in Listeners |->
            IF l \in Open /\ Len(bus) + 1 - BusCap >= hearer[l].next
            THEN overrun[l] \cup {Len(bus) + 1 - BusCap} ELSE overrun[l]]
    /\ UNCHANGED <<clock, hearer, listeners, got>>

(* events(): a listener hears what is sent after it has subscribed.        *)
Listen(l, f) ==
    /\ hearer[l].state = "new"
    /\ hearer' = [hearer EXCEPT ![l] = [filter |-> f, next |-> Len(bus) + 1,
                                            first |-> Len(bus) + 1, state |-> "open"]]
    /\ listeners' = listeners + 1
    /\ UNCHANGED <<clock, making, bus, got, overrun>>

(* matches_filter().                                                       *)
Matches(ev, f) ==
    /\ f.since # 0 => ev.time >= f.since
    /\ f.kinds # {} => ev.kind \in f.kinds

MutRecvLagged(l) ==
    /\ l \in Open /\ hearer[l].next < Oldest
    /\ hearer' = [hearer EXCEPT ![l].next = Len(bus) + 1]
    /\ UNCHANGED <<clock, making, bus, listeners, got, overrun>>

(* recv() answers Lagged once and goes on with the oldest event there is.  *)
RecvLagged(l) ==
    /\ l \in Open /\ hearer[l].next < Oldest
    /\ hearer' = [hearer EXCEPT ![l].next = Oldest]
    /\ UNCHANGED <<clock, making, bus, listeners, got, overrun>>

Past(ev, f) == f.until # 0 /\ ev.time > f.until

(* The stream is asked for more: an event past `until` ends it, one that   *)
(* does not match is skipped, another is written.                          *)
RecvEvent(l) ==
    /\ l \in Open
    /\ hearer[l].next >= Oldest /\ hearer[l].next <= Len(bus)
    /\ ~Past(bus[hearer[l].next], hearer[l].filter)
    /\ LET ev == bus[hearer[l].next] IN
       got' = IF Matches(ev, hearer[l].filter)
              THEN [got EXCEPT ![l] = Append(@, ev)] ELSE got
    /\ hearer' = [hearer EXCEPT ![l].next = @ + 1]
    /\ UNCHANGED <<clock, making, bus, listeners, overrun>>

(* The stream ends; its guard counts the listener out.                     *)
RecvPast(l) ==
    /\ l \in Open
    /\ hearer[l].next >= Oldest /\ hearer[l].next <= Len(bus)
    /\ Past(bus[hearer[l].next], hearer[l].filter)
    /\ hearer' = [hearer EXCEPT ![l].state = "ended", ![l].next = @ + 1]
    /\ listeners' = listeners - 1
    /\ UNCHANGED <<clock, making, bus, got, overrun>>

(* The client goes: the stream is dropped, with its guard.                 *)
HangUp(l) ==
    /\ l \in Open
    /\ hearer' = [hearer EXCEPT ![l].state = "ended"]
    /\ listeners' = listeners - 1
    /\ UNCHANGED <<clock, making, bus, got, overrun>>

EventNext ==
    \/ Tick
    \/ \E p \in Publishers : Publish(p) \/ \E kind \in Kinds : MakeEvent(p, kind)
    \/ \E l \in Listeners :
        \/ \E f \in Filters : Listen(l, f)
        \/ RecvLagged(l) \/ RecvEvent(l) \/ RecvPast(l) \/ HangUp(l)

EventSpec == EventInit /\ [][EventNext]_eventVars
-----------------------------------------------------------------------------
(* event_listeners, which GET /info reports, is the number of open streams *)
(* ("Decrement on disconnect (previously leaked monotonically)").          *)
ListenersCounted == listeners = Cardinality(Open)

(* The sequence s is events at these places of the stream: each of them    *)
(* once and in their order.                                                *)
Transcript(s, places, stream) ==
    \E at \in [1..Len(s) -> places] :
        /\ \A j, k \in 1..Len(s) : j < k => at[j] < at[k]
        /\ \A i \in places : \E k \in 1..Len(s) : at[k] = i
        /\ \A k \in 1..Len(s) : s[k] = stream[at[k]]

(* The events a listener asked for that were sent between its subscription *)
(* and where it has got to and that were not overwritten before.           *)
DueTo(l) ==
    {i \in 1..Len(bus) :
        /\ i >= hearer[l].first /\ i < hearer[l].next /\ i \notin overrun[l]
        /\ Matches(bus[i], hearer[l].filter) /\ ~Past(bus[i], hearer[l].filter)}

(* What a listener got is every event it asked for that was sent between   *)
(* its subscription and where it has got to, once each and in the order    *)
(* sent, but for those that were overwritten while it was slow, and        *)
(* nothing from before it subscribed; none is later than `until`.          *)
HeardEverything == \A l \in Listeners : Transcript(got[l], DueTo(l), bus)

(* A listener hears every event it asked for once and in order, save those *)
(* it was told it missed, and the count of listeners is that of the open   *)
(* streams (the events handler).                                           *)
StreamFaithful ==
    /\ ListenersCounted
    /\ HeardEverything
=============================================================================

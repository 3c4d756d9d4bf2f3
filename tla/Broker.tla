------------------------------- MODULE Broker -------------------------------
(***************************************************************************)
(* internal/broker: publish and subscribe by topic, with the last payload  *)
(* of a topic kept for new subscribers and a bounded buffer for each.      *)
(*                                                                         *)
(* A payload is represented by its number on its topic, so that a gap, a   *)
(* repetition or an exchange shows.  A payload that cannot be marshalled   *)
(* is logged and changes nothing.                                          *)
(***************************************************************************)
EXTENDS Naturals, Sequences, FiniteSets

CONSTANTS
    Topics,
    Transient,     \* topics their callers publish with PublishNoCache
    Chans,         \* channels; one may be made anew where an old one is closed
    Cap,           \* buffer of a channel (64)
    MaxPublishes   \* bound: payloads on one topic

ASSUME TopicsAssumption == Topics # {} /\ Transient \subseteq Topics
ASSUME CapAssumption == Cap \in Nat \ {0}
ASSUME MaxPublishesAssumption == MaxPublishes \in Nat

VARIABLES
    subs,     \* Broker.subs: the channels registered for each topic
    cache,    \* Broker.cache: the payload kept for each topic, 0 for none
    buf,      \* what a channel holds
    chan,     \* "new", "open" or "closed"
    of,       \* the topic a channel was subscribed to
    got,      \* the payload its reader took last (or what came before its first)
    count     \* payloads published on each topic so far

brokerVars == <<subs, cache, buf, chan, of, got, count>>

Payload == 1 .. MaxPublishes

TypeOK ==
    /\ subs \in [Topics -> SUBSET Chans]
    /\ cache \in [Topics -> Payload \cup {0}]
    /\ buf \in [Chans -> Seq(Payload)]
    /\ chan \in [Chans -> {"new", "open", "closed"}]
    /\ of \in [Chans -> Topics]
    /\ got \in [Chans -> Payload \cup {0}]
    /\ count \in [Topics -> Payload \cup {0}]

\* of is meaningless for a channel that was not made yet.
BrokerInit ==
    /\ subs = [t \in Topics |-> {}]
    /\ cache = [t \in Topics |-> 0]
    /\ buf = [c \in Chans |-> <<>>]
    /\ chan = [c \in Chans |-> "new"]
    /\ of = [c \in Chans |-> CHOOSE t \in Topics : TRUE]
    /\ got = [c \in Chans |-> 0]
    /\ count = [t \in Topics |-> 0]

\* What a new subscriber finds in its buffer: the present payload, if any.
Welcome(t) == IF cache[t] = 0 THEN <<>> ELSE <<cache[t]>>

Subscribe(t, c) ==
    /\ chan[c] # "open"
    /\ chan' = [chan EXCEPT ![c] = "open"]
    /\ of' = [of EXCEPT ![c] = t]
    /\ subs' = [subs EXCEPT ![t] = @ \cup {c}]
    /\ buf' = [buf EXCEPT ![c] = Welcome(t)]
    /\ got' = [got EXCEPT ![c] = IF cache[t] = 0 THEN count[t] ELSE cache[t] - 1]
    /\ UNCHANGED <<cache, count>>

\* A channel that publishLocked already dropped is not found and not closed.
Unsubscribe(t, c) ==
    /\ c \in subs[t]
    /\ subs' = [subs EXCEPT ![t] = @ \ {c}]
    /\ chan' = [chan EXCEPT ![c] = "closed"]
    /\ UNCHANGED <<cache, buf, of, got, count>>

\* The subscribers whose buffer has no room.
SlowOneEarly(t) == {c \in subs[t] : Len(buf[c]) >= Cap - 1}
Slow(t) == {c \in subs[t] : Len(buf[c]) >= Cap}

\* publishLocked: never waits; who has no room is dropped and its channel closed.
PublishLockedSkips(t, p) ==
    /\ buf' = [c \in Chans |-> IF c \in subs[t] \ Slow(t) THEN Append(buf[c], p) ELSE buf[c]]
    /\ count' = [count EXCEPT ![t] = p]
    /\ UNCHANGED <<subs, chan>>
PublishLocked(t, p) ==
    /\ buf' = [c \in Chans |-> IF c \in subs[t] \ Slow(t) THEN Append(buf[c], p) ELSE buf[c]]
    /\ chan' = [c \in Chans |-> IF c \in Slow(t) THEN "closed" ELSE chan[c]]
    /\ subs' = [subs EXCEPT ![t] = @ \ Slow(t)]
    /\ count' = [count EXCEPT ![t] = p]

\* The cache and the channels change under one lock.
PublishKeepsOldest(t) ==
    /\ t \notin Transient /\ count[t] < MaxPublishes
    /\ cache' = [cache EXCEPT ![t] = IF @ = 0 THEN count[t] + 1 ELSE @]
    /\ PublishLocked(t, count[t] + 1)
    /\ UNCHANGED <<of, got>>
Publish(t) ==
    /\ t \notin Transient /\ count[t] < MaxPublishes
    /\ cache' = [cache EXCEPT ![t] = count[t] + 1]
    /\ PublishLocked(t, count[t] + 1)
    /\ UNCHANGED <<of, got>>

PublishNoCache(t) ==
    /\ t \in Transient /\ count[t] < MaxPublishes
    /\ PublishLocked(t, count[t] + 1)
    /\ UNCHANGED <<cache, of, got>>

\* The reader takes the next payload; a closed channel still yields its rest.
Receive(c) ==
    /\ buf[c] # <<>>
    /\ got' = [got EXCEPT ![c] = Head(buf[c])]
    /\ buf' = [buf EXCEPT ![c] = Tail(@)]
    /\ UNCHANGED <<subs, cache, chan, of, count>>

BrokerNext ==
    \/ \E t \in Topics : Publish(t) \/ PublishNoCache(t)
    \/ \E t \in Topics, c \in Chans : Subscribe(t, c) \/ Unsubscribe(t, c)
    \/ \E c \in Chans : Receive(c)

BrokerSpec == BrokerInit /\ [][BrokerNext]_brokerVars

-----------------------------------------------------------------------------

\* A registered channel is open and registered for one topic only, and every
\* open channel is registered: publishLocked sends on no closed channel and
\* nothing closes one twice (both would panic), and Unsubscribe finds what it
\* is given (Subscribe 48-57, Unsubscribe 61-73, publishLocked 78-96).
RegisteredIsOpen ==
    \A c \in Chans, t \in Topics :
        c \in subs[t] <=> chan[c] = "open" /\ of[c] = t

\* The payloads in a channel follow the one taken last without a gap, and a
\* subscriber that was not dropped has them all, up to the newest
\* (publishLocked 82-89, Subscribe 51-54).
Consecutive(c) == \A i \in 1 .. Len(buf[c]) : buf[c][i] = got[c] + i
Gapless ==
    \A c \in Chans :
        /\ Consecutive(c)
        /\ chan[c] = "open" => got[c] + Len(buf[c]) = count[of[c]]

\* A new subscriber of a topic that is published with Publish gets the present
\* payload, the same that everyone subscribed before has got last
\* (Publish 110, PublishNoCache 114-126).
CacheIsPresent ==
    \A t \in Topics : cache[t] = IF t \in Transient THEN 0 ELSE count[t]

BrokerIInv ==
    /\ TypeOK
    /\ RegisteredIsOpen /\ Gapless /\ CacheIsPresent
    /\ \A c \in Chans : Len(buf[c]) <= Cap
    /\ \A c \in Chans : chan[c] = "new" => buf[c] = <<>>

\* Where a reader of a closed channel will find its end.
Stop == [c \in Chans |-> IF chan[c] = "closed" THEN got[c] + Len(buf[c]) ELSE 0]

Log == INSTANCE TopicLog WITH
    Readers <- Chans, Lag <- Cap,
    length <- count, topic <- of, state <- chan, taken <- got, stop <- Stop

\* Seen by its readers the broker is a log they follow without gaps, and only
\* who is a whole buffer behind is cut off (Publish 98-101).
ImplementsLog == Log!Spec
=============================================================================

----------------------------- MODULE EventStream -----------------------------
(***************************************************************************)
(* One browser tab and the connections of GET /api/events it opens, one    *)
(* after the other (getEvents in internal/api/handlers.go; the EventSource *)
(* of static/js/loader.js).                                                *)
(*                                                                         *)
(* A handler subscribes to each topic asked for, starts one forwarding     *)
(* goroutine per topic and copies what they merge to the client.  Client,  *)
(* broker and forwarders can each end the connection; the handler then     *)
(* unsubscribes what its map of channels holds.  Heartbeats are left out,  *)
(* and so is what the browser fetches by itself whenever a stream opens    *)
(* (loadAll) and stores beside the events: that is in the module Requests. *)
(***************************************************************************)
EXTENDS Broker

CONSTANTS
    Conns,        \* connections; one may be used anew when all of it has ended
    Places,       \* positions in a list of topics
    Requests,     \* what a client may ask for: sequences of valid topics
    MergedCap,    \* buffer of the merged channel (16)
    MaxBreaks     \* bound: times the network or the user ends a connection

ASSUME PlacesAssumption == Places \subseteq Nat \ {0}
ASSUME ChansAssumption == Chans = Conns \X Places
ASSUME RequestsAssumption ==
    \A r \in Requests : r \in Seq(Topics) /\ 1 .. Len(r) \subseteq Places
ASSUME MergedCapAssumption == MergedCap \in Nat \ {0}
ASSUME MaxBreaksAssumption == MaxBreaks \in Nat

VARIABLES
    conn,      \* "idle", "subscribing", "streaming", "closing" or "closed"
    asked,     \* the valid topics of the request
    channels,  \* topic -> the channel the handler's map holds, or NoChan
    at,        \* how many topics asked for have been subscribed to
    held,      \* topics of the map still to be unsubscribed
    fwd,       \* per topic: "none", "recv", "send" or "done"
    hand,      \* what a forwarder took and has not merged yet
    merged,    \* the merged channel
    cancelled, \* the context of the connection is done
    tab,       \* the connection the browser reads, or NoConn
    delivered, \* the payload of each topic that the streams delivered last
    breaks

handler == <<conn, asked, channels, at, held>>
forwarders == <<fwd, hand, merged, cancelled>>
browser == <<tab, delivered, breaks>>
vars == <<brokerVars, handler, forwarders, browser>>

NoConn == "none"
NoChan == <<>>

ASSUME ConnsAssumption == NoConn \notin Conns

StreamTypeOK ==
    /\ TypeOK
    /\ conn \in [Conns -> {"idle", "subscribing", "streaming", "closing", "closed"}]
    /\ asked \in [Conns -> Requests \cup {<<>>}]
    /\ channels \in [Conns -> [Topics -> Chans \cup {NoChan}]]
    /\ at \in [Conns -> Places \cup {0}]
    /\ held \in [Conns -> SUBSET Topics]
    /\ fwd \in [Conns -> [Topics -> {"none", "recv", "send", "done"}]]
    /\ hand \in [Conns -> [Topics -> Payload \cup {0}]]
    /\ merged \in [Conns -> Seq([topic : Topics, data : Payload])]
    /\ \A c \in Conns : Len(merged[c]) <= MergedCap
    /\ cancelled \in [Conns -> BOOLEAN]
    /\ tab \in Conns \cup {NoConn}
    /\ delivered \in [Topics -> Payload \cup {0}]
    /\ breaks \in 0 .. MaxBreaks

Init ==
    /\ BrokerInit
    /\ conn = [c \in Conns |-> "idle"]
    /\ asked = [c \in Conns |-> <<>>]
    /\ channels = [c \in Conns |-> [t \in Topics |-> NoChan]]
    /\ at = [c \in Conns |-> 0]
    /\ held = [c \in Conns |-> {}]
    /\ fwd = [c \in Conns |-> [t \in Topics |-> "none"]]
    /\ hand = [c \in Conns |-> [t \in Topics |-> 0]]
    /\ merged = [c \in Conns |-> <<>>]
    /\ cancelled = [c \in Conns |-> FALSE]
    /\ tab = NoConn /\ delivered = [t \in Topics |-> 0] /\ breaks = 0

-----------------------------------------------------------------------------
(* The browser *)

\* new EventSource, at first and again after the stream ended
Connect(c) ==
    /\ tab = NoConn /\ conn[c] = "idle"
    /\ tab' = c
    /\ conn' = [conn EXCEPT ![c] = "subscribing"]
    /\ \E r \in Requests : asked' = [asked EXCEPT ![c] = r]
    /\ UNCHANGED <<brokerVars, channels, at, held, forwarders, delivered, breaks>>

\* The response ended.
SeeEnd ==
    /\ tab # NoConn /\ conn[tab] \in {"closing", "closed"}
    /\ tab' = NoConn
    /\ UNCHANGED <<brokerVars, handler, forwarders, delivered, breaks>>

\* The network fails; what was under way is lost.
Break ==
    /\ tab # NoConn /\ breaks < MaxBreaks
    /\ tab' = NoConn /\ breaks' = breaks + 1
    /\ UNCHANGED <<brokerVars, handler, forwarders, delivered>>

-----------------------------------------------------------------------------
(* The handler *)

\* The context of the request ends some time after the client left.
ContextDone(c) ==
    /\ tab # c /\ conn[c] \in {"subscribing", "streaming"} /\ ~cancelled[c]
    /\ cancelled' = [cancelled EXCEPT ![c] = TRUE]
    /\ UNCHANGED <<brokerVars, handler, fwd, hand, merged, browser>>

\* channels[t] = h.broker.Subscribe(t) for each topic asked for in turn; a
\* topic asked for twice replaces its first channel in the map.
SubscribeNext(c) ==
    /\ conn[c] = "subscribing" /\ at[c] < Len(asked[c])
    /\ LET i == at[c] + 1
           t == asked[c][i]
       IN /\ Subscribe(t, <<c, i>>)
          /\ channels' = [channels EXCEPT ![c][t] = <<c, i>>]
          /\ at' = [at EXCEPT ![c] = i]
    /\ UNCHANGED <<conn, asked, held, forwarders, browser>>

StartForwarding(c) ==
    /\ conn[c] = "subscribing" /\ at[c] = Len(asked[c])
    /\ LET topics == {t \in Topics : channels[c][t] # NoChan}
       IN /\ fwd' = [fwd EXCEPT ![c] = [t \in Topics |-> IF t \in topics THEN "recv" ELSE "none"]]
          /\ held' = [held EXCEPT ![c] = topics]
    /\ conn' = [conn EXCEPT ![c] = "streaming"]
    /\ UNCHANGED <<brokerVars, asked, channels, at, hand, merged, cancelled, browser>>

\* The main loop writes a merged event; it may do so once more after the end.
Write(c) ==
    /\ conn[c] = "streaming" /\ merged[c] # <<>>
    /\ merged' = [merged EXCEPT ![c] = Tail(@)]
    /\ delivered' =
          IF tab = c THEN [delivered EXCEPT ![Head(merged[c]).topic] = Head(merged[c]).data]
          ELSE delivered
    /\ UNCHANGED <<brokerVars, handler, fwd, hand, cancelled, tab, breaks>>

\* ctx.Done in the main loop; the deferred calls follow.
LeaveForgetsDefer(c) ==
    /\ conn[c] = "streaming" /\ cancelled[c]
    /\ conn' = [conn EXCEPT ![c] = "closed"]
    /\ UNCHANGED <<brokerVars, asked, channels, at, held, forwarders, browser>>
Leave(c) ==
    /\ conn[c] = "streaming" /\ cancelled[c]
    /\ conn' = [conn EXCEPT ![c] = "closing"]
    /\ UNCHANGED <<brokerVars, asked, channels, at, held, forwarders, browser>>

\* h.broker.Unsubscribe(t, ch) for each entry of the map, which may find that
\* the broker has dropped the channel.
UnsubscribeOne(c, t) ==
    /\ conn[c] = "closing" /\ t \in held[c]
    /\ held' = [held EXCEPT ![c] = @ \ {t}]
    /\ \/ Unsubscribe(t, channels[c][t])
       \/ channels[c][t] \notin subs[t] /\ UNCHANGED brokerVars
    /\ UNCHANGED <<conn, asked, channels, at, forwarders, browser>>

Return(c) ==
    /\ conn[c] = "closing" /\ held[c] = {}
    /\ conn' = [conn EXCEPT ![c] = "closed"]
    /\ UNCHANGED <<brokerVars, asked, channels, at, held, forwarders, browser>>

\* No code: the identifier of a connection of which nothing runs any more and
\* nothing is subscribed stands for a later connection.
Recycle(c) ==
    /\ conn[c] = "closed" /\ tab # c
    /\ \A t \in Topics : fwd[c][t] \in {"none", "done"}
    /\ \A i \in Places : chan[<<c, i>>] # "open"
    /\ conn' = [conn EXCEPT ![c] = "idle"]
    /\ asked' = [asked EXCEPT ![c] = <<>>]
    /\ channels' = [channels EXCEPT ![c] = [t \in Topics |-> NoChan]]
    /\ at' = [at EXCEPT ![c] = 0]
    /\ fwd' = [fwd EXCEPT ![c] = [t \in Topics |-> "none"]]
    /\ merged' = [merged EXCEPT ![c] = <<>>]
    /\ cancelled' = [cancelled EXCEPT ![c] = FALSE]
    /\ UNCHANGED <<brokerVars, held, hand, browser>>

-----------------------------------------------------------------------------
(* The forwarding goroutine of topic t.  Where several branches of a select *)
(* are ready Go takes any of them.                                          *)

ForwardTake(c, t) ==
    /\ fwd[c][t] = "recv"
    /\ Receive(channels[c][t])
    /\ hand' = [hand EXCEPT ![c][t] = Head(buf[channels[c][t]])]
    /\ fwd' = [fwd EXCEPT ![c][t] = "send"]
    /\ UNCHANGED <<handler, merged, cancelled, browser>>

\* A closed channel ends the whole connection, once its rest was forwarded.
ForwardSeesCloseQuietly(c, t) ==
    /\ fwd[c][t] = "recv"
    /\ chan[channels[c][t]] = "closed" /\ buf[channels[c][t]] = <<>>
    /\ fwd' = [fwd EXCEPT ![c][t] = "done"]
    /\ UNCHANGED <<brokerVars, handler, hand, merged, cancelled, browser>>
ForwardSeesClose(c, t) ==
    /\ fwd[c][t] = "recv"
    /\ chan[channels[c][t]] = "closed" /\ buf[channels[c][t]] = <<>>
    /\ cancelled' = [cancelled EXCEPT ![c] = TRUE]
    /\ fwd' = [fwd EXCEPT ![c][t] = "done"]
    /\ UNCHANGED <<brokerVars, handler, hand, merged, browser>>

ForwardMerge(c, t) ==
    /\ fwd[c][t] = "send" /\ Len(merged[c]) < MergedCap
    /\ merged' = [merged EXCEPT ![c] = Append(@, [topic |-> t, data |-> hand[c][t]])]
    /\ hand' = [hand EXCEPT ![c][t] = 0]
    /\ fwd' = [fwd EXCEPT ![c][t] = "recv"]
    /\ UNCHANGED <<brokerVars, handler, cancelled, browser>>

ForwardStopInRecv(c, t) ==
    /\ fwd[c][t] = "recv" /\ cancelled[c]
    /\ fwd' = [fwd EXCEPT ![c][t] = "done"]
    /\ UNCHANGED <<brokerVars, handler, hand, merged, cancelled, browser>>
ForwardStop(c, t) ==
    /\ fwd[c][t] \in {"recv", "send"} /\ cancelled[c]
    /\ hand' = [hand EXCEPT ![c][t] = 0]
    /\ fwd' = [fwd EXCEPT ![c][t] = "done"]
    /\ UNCHANGED <<brokerVars, handler, merged, cancelled, browser>>

-----------------------------------------------------------------------------

Forward(c, t) ==
    ForwardTake(c, t) \/ ForwardSeesClose(c, t) \/ ForwardMerge(c, t) \/ ForwardStop(c, t)

Handle(c) ==
    \/ SubscribeNext(c) \/ StartForwarding(c) \/ Write(c)
    \/ \E t \in Topics : UnsubscribeOne(c, t)
    \/ Return(c)

Announce ==
    /\ \E t \in Topics : Publish(t) \/ PublishNoCache(t)
    /\ UNCHANGED <<handler, forwarders, browser>>

Next ==
    \/ Announce
    \/ SeeEnd \/ Break
    \/ \E c \in Conns :
          \/ Connect(c) \/ ContextDone(c)
          \/ Handle(c) \/ Leave(c) \/ Recycle(c)
          \/ \E t \in Topics : Forward(c, t)

Spec == Init /\ [][Next]_vars

\* Goroutines that can run are run, each for itself; Leave is kept apart from
\* the other branches of the main loop because select is fair between them.
\* The browser connects again (EventSource by itself, loader.js after 5 s) and
\* the server notices a client that left.  Nothing has to be published.
FairSpec ==
    /\ Spec
    /\ WF_vars(SeeEnd) /\ WF_vars(\E c \in Conns : Connect(c))
    /\ \A c \in Conns :
          /\ WF_vars(ContextDone(c)) /\ WF_vars(Handle(c)) /\ WF_vars(Leave(c))
          /\ WF_vars(Recycle(c))
          /\ \A t \in Topics : WF_vars(Forward(c, t))

-----------------------------------------------------------------------------

\* When the handler has returned, what it subscribed last for each topic is not
\* registered with the broker any more (getEvents 445-449; broker.go 46: the
\* caller must call Unsubscribe). It forgets the earlier channels of a topic that
\* a request names again: those stay registered until the broker drops them.
LastPlace(c, i) == \A j \in i + 1 .. at[c] : asked[c][j] # asked[c][i]
ReturnedIsReleased ==
    \A c \in Conns, i \in Places, t \in Topics :
        conn[c] = "closed" /\ LastPlace(c, i) => <<c, i>> \notin subs[t]

\* The streams of a tab never deliver a payload of a topic that is older than
\* one delivered before, across drops, breaks and new connections (Subscribe
\* 51-54 under the lock of Publish 108-111, and one forwarder per topic).
StreamNeverGoesBack == [][\A t \in Topics : delivered'[t] >= delivered[t]]_vars

\* Once nothing more is published, what was delivered last of every kept topic
\* is its newest payload, however often the tab was dropped or cut off before
\* (getEvents 460-462: "auto-reconnect and get fresh cached state").
StreamCatchesUp == \A t \in Topics \ Transient : <>[](delivered[t] = count[t])

\* No forwarder outlives its connection for ever (getEvents 470-487).
ForwardersEnd ==
    \A c \in Conns, t \in Topics :
        conn[c] = "closed" ~> fwd[c][t] \in {"none", "done"}
-----------------------------------------------------------------------------
(* Why they hold *)

Mapped(c) == {t \in Topics : channels[c][t] # NoChan}

\* How far a connection has come.
StageInv(c) ==
    /\ at[c] <= Len(asked[c])
    /\ conn[c] = "idle" => at[c] = 0 /\ Mapped(c) = {}
    /\ conn[c] \in {"idle", "subscribing"} =>
          merged[c] = <<>> /\ \A t \in Topics : fwd[c][t] = "none"
    /\ \A t \in Topics : fwd[c][t] \in {"recv", "send"} => t \in Mapped(c)
    /\ \A t \in Topics : fwd[c][t] = "send" => hand[c][t] # 0
    /\ conn[c] \notin {"streaming", "closing"} => held[c] = {}
    /\ conn[c] = "streaming" => held[c] = Mapped(c)
    /\ held[c] \subseteq Mapped(c)

\* What the map holds for a topic is a channel of this connection and topic.
ChannelInv(c) ==
    \A t \in Mapped(c) :
        \E i \in 1 .. at[c] : asked[c][i] = t /\ channels[c][t] = <<c, i>> /\ of[<<c, i>>] = t

\* From the broker to the browser a topic goes one way: what is merged is not
\* newer than what its forwarder took last, and what was delivered is not newer
\* than what is on its way to the tab.
PathInv(c) ==
    /\ \A i \in 1 .. Len(merged[c]) :
          /\ merged[c][i].topic \in Mapped(c)
          /\ merged[c][i].data <= got[channels[c][merged[c][i].topic]]
          /\ tab = c => delivered[merged[c][i].topic] <= merged[c][i].data
    /\ \A i, j \in 1 .. Len(merged[c]) :
          i < j /\ merged[c][i].topic = merged[c][j].topic =>
              merged[c][i].data <= merged[c][j].data
    /\ \A t \in Mapped(c) :
          /\ fwd[c][t] = "send" => hand[c][t] = got[channels[c][t]]
          /\ tab = c => delivered[t] <= got[channels[c][t]] + 1
          /\ tab = c /\ fwd[c][t] = "send" => delivered[t] <= hand[c][t]

\* Nobody has more than was published.
PastInv ==
    /\ \A k \in Chans : got[k] + Len(buf[k]) <= count[of[k]]
    /\ \A t \in Topics : delivered[t] <= count[t]

\* An open channel that is the last of its topic is in the map, for as long as it
\* will be unsubscribed.
ReleaseInv(c) ==
    \A i \in Places :
        chan[<<c, i>>] = "open" =>
            /\ i \in 1 .. at[c]
            /\ LastPlace(c, i) =>
                  /\ channels[c][asked[c][i]] = <<c, i>>
                  /\ \/ conn[c] \in {"subscribing", "streaming"}
                     \/ conn[c] = "closing" /\ asked[c][i] \in held[c]

ConnInv(c) == StageInv(c) /\ ChannelInv(c) /\ PathInv(c) /\ ReleaseInv(c)

StreamIInv ==
    /\ BrokerIInv /\ StreamTypeOK /\ PastInv
    /\ \A c \in Conns : ConnInv(c)
=============================================================================

------------------------- MODULE EventStream_proofs -------------------------
(***************************************************************************)
(* The invariant of the broker and its refinement of TopicLog, for any     *)
(* topics, channels and buffer size; and what the connections that use it  *)
(* deliver and release, for any number of them.                            *)
(***************************************************************************)
EXTENDS EventStream, TLAPS

USE DEF Payload

\* A welcome is the present payload of a topic, numbered from got on.
LEMMA WelcomeFacts ==
    ASSUME BrokerIInv, NEW t \in Topics
    PROVE  /\ Welcome(t) \in Seq(Payload)
           /\ Len(Welcome(t)) <= Cap
           /\ LET g == IF cache[t] = 0 THEN count[t] ELSE cache[t] - 1
              IN /\ g \in Payload \cup {0}
                 /\ \A i \in 1 .. Len(Welcome(t)) : Welcome(t)[i] = g + i
                 /\ g + Len(Welcome(t)) = count[t]
<1> USE DEF BrokerIInv, TypeOK, CacheIsPresent
<1>1. CASE cache[t] = 0
  BY <1>1, CapAssumption DEF Welcome
<1>2. CASE cache[t] # 0
  <2>1. cache[t] \in Payload /\ cache[t] = count[t] /\ Welcome(t) = <<cache[t]>>
    BY <1>2 DEF Welcome
  <2> QED
    BY <2>1, <1>2, CapAssumption, MaxPublishesAssumption
<1> QED
  BY <1>1, <1>2

LEMMA AppendType ==
    ASSUME NEW s \in Seq(Payload), NEW p \in Payload
    PROVE  Append(s, p) \in Seq(Payload)
OBVIOUS

LEMMA HeadTailType ==
    ASSUME NEW S, NEW s \in Seq(S), s # <<>>
    PROVE  /\ Len(s) \in Nat /\ Len(s) >= 1
           /\ Head(s) = s[1] /\ s[1] \in S
           /\ Tail(s) \in Seq(S) /\ Len(Tail(s)) = Len(s) - 1
           /\ \A i \in 1 .. Len(Tail(s)) : Tail(s)[i] = s[i + 1]
<1>1. Len(s) \in Nat /\ Len(s) # 0
  OBVIOUS
<1>2. Len(s) >= 1
  BY <1>1
<1>3. Head(s) = s[1] /\ s[1] \in S
  BY <1>2
<1>4. Tail(s) \in Seq(S) /\ Len(Tail(s)) = Len(s) - 1
  BY <1>2
<1>5. \A i \in 1 .. Len(Tail(s)) : Tail(s)[i] = s[i + 1]
  BY <1>2
<1> QED
  BY <1>1, <1>2, <1>3, <1>4, <1>5

LEMMA InitInv == BrokerInit => BrokerIInv
<1> SUFFICES ASSUME BrokerInit PROVE BrokerIInv
  OBVIOUS
<1>1. (CHOOSE t \in Topics : TRUE) \in Topics
  BY TopicsAssumption
<1>2. TypeOK
  BY <1>1 DEF BrokerInit, TypeOK
<1> QED
  BY <1>2, CapAssumption DEF BrokerInit, BrokerIInv, RegisteredIsOpen, Gapless,
     Consecutive, CacheIsPresent

LEMMA SubscribeInv ==
    ASSUME BrokerIInv, NEW t \in Topics, NEW c \in Chans, Subscribe(t, c)
    PROVE  BrokerIInv'
<1> USE DEF Subscribe
<1> DEFINE g == IF cache[t] = 0 THEN count[t] ELSE cache[t] - 1
<1>w. /\ Welcome(t) \in Seq(Payload) /\ Len(Welcome(t)) <= Cap
      /\ g \in Payload \cup {0}
      /\ \A i \in 1 .. Len(Welcome(t)) : Welcome(t)[i] = g + i
      /\ g + Len(Welcome(t)) = count[t]
  BY WelcomeFacts
<1>g. got' = [got EXCEPT ![c] = g]
  OBVIOUS
<1> HIDE DEF g
<1>t. TypeOK
  BY DEF BrokerIInv
<1>1. TypeOK'
  BY <1>w, <1>g, <1>t DEF TypeOK
<1>2. RegisteredIsOpen'
  BY <1>t DEF BrokerIInv, RegisteredIsOpen, TypeOK
<1>3. Gapless'
  <2> SUFFICES ASSUME NEW k \in Chans
               PROVE  /\ Consecutive(k)'
                      /\ chan'[k] = "open" => got'[k] + Len(buf'[k]) = count'[of'[k]]
    BY DEF Gapless
  <2>1. CASE k = c
    <3>1. buf'[k] = Welcome(t) /\ got'[k] = g /\ of'[k] = t
      BY <2>1, <1>g, <1>t DEF TypeOK
    <3> QED
      BY <3>1, <1>w DEF Consecutive
  <2>2. CASE k # c
    <3>1. /\ buf'[k] = buf[k] /\ got'[k] = got[k] /\ of'[k] = of[k]
          /\ chan'[k] = chan[k] /\ count' = count
      BY <2>2, <1>g, <1>t DEF TypeOK
    <3>2. Consecutive(k) /\ (chan[k] = "open" => got[k] + Len(buf[k]) = count[of[k]])
      BY DEF BrokerIInv, Gapless
    <3> QED
      BY <3>1, <3>2 DEF Consecutive
  <2> QED
    BY <2>1, <2>2
<1>4. CacheIsPresent'
  BY DEF BrokerIInv, CacheIsPresent
<1>5. \A k \in Chans : Len(buf'[k]) <= Cap /\ (chan'[k] = "new" => buf'[k] = <<>>)
  BY <1>w, <1>t DEF BrokerIInv, TypeOK
<1> QED
  BY <1>1, <1>2, <1>3, <1>4, <1>5 DEF BrokerIInv

LEMMA UnsubscribeInv ==
    ASSUME BrokerIInv, NEW t \in Topics, NEW c \in Chans, Unsubscribe(t, c)
    PROVE  BrokerIInv'
<1> USE DEF Unsubscribe
<1>t. TypeOK
  BY DEF BrokerIInv
<1>1. TypeOK'
  BY <1>t DEF TypeOK
<1>2. RegisteredIsOpen'
  BY <1>t DEF BrokerIInv, RegisteredIsOpen, TypeOK
<1>3. Gapless'
  BY <1>t DEF BrokerIInv, Gapless, Consecutive, TypeOK
<1>4. CacheIsPresent'
  BY DEF BrokerIInv, CacheIsPresent
<1>5. \A k \in Chans : Len(buf'[k]) <= Cap /\ (chan'[k] = "new" => buf'[k] = <<>>)
  BY <1>t DEF BrokerIInv, TypeOK
<1> QED
  BY <1>1, <1>2, <1>3, <1>4, <1>5 DEF BrokerIInv

\* publishLocked keeps the channels and gives everyone who stays the payload.
LEMMA PublishLockedInv ==
    ASSUME BrokerIInv, NEW t \in Topics, count[t] < MaxPublishes,
           PublishLocked(t, count[t] + 1), UNCHANGED <<of, got>>,
           cache' \in [Topics -> Payload \cup {0}], CacheIsPresent'
    PROVE  BrokerIInv'
<1> DEFINE p == count[t] + 1
<1>t. TypeOK
  BY DEF BrokerIInv
<1>p. p \in Payload /\ count[t] \in Nat
  BY <1>t, MaxPublishesAssumption DEF TypeOK
<1>e. /\ buf' = [c \in Chans |-> IF c \in subs[t] \ Slow(t) THEN Append(buf[c], p) ELSE buf[c]]
      /\ chan' = [c \in Chans |-> IF c \in Slow(t) THEN "closed" ELSE chan[c]]
      /\ subs' = [subs EXCEPT ![t] = @ \ Slow(t)]
      /\ count' = [count EXCEPT ![t] = p]
  BY DEF PublishLocked
<1>s. Slow(t) = {c \in subs[t] : Len(buf[c]) >= Cap} /\ Slow(t) \subseteq Chans
  BY <1>t DEF Slow, TypeOK
<1> HIDE DEF p
<1>1. TypeOK'
  <2>1. buf' \in [Chans -> Seq(Payload)]
    <3>1. ASSUME NEW c \in Chans
          PROVE  Append(buf[c], p) \in Seq(Payload) /\ buf[c] \in Seq(Payload)
      <4>1. buf[c] \in Seq(Payload)
        BY <1>t DEF TypeOK
      <4> QED
        BY <4>1, <1>p, AppendType
    <3> QED
      BY <3>1, <1>e
  <2>2. chan' \in [Chans -> {"new", "open", "closed"}]
    BY <1>t, <1>e DEF TypeOK
  <2>3. subs' \in [Topics -> SUBSET Chans] /\ count' \in [Topics -> Payload \cup {0}]
    BY <1>t, <1>p, <1>e DEF TypeOK
  <2> QED
    BY <2>1, <2>2, <2>3, <1>t DEF TypeOK
<1>2. RegisteredIsOpen'
  BY <1>t, <1>e, <1>s DEF BrokerIInv, RegisteredIsOpen, TypeOK
<1>3. ASSUME NEW k \in Chans
      PROVE  /\ Consecutive(k)'
             /\ chan'[k] = "open" => got'[k] + Len(buf'[k]) = count'[of'[k]]
             /\ Len(buf'[k]) <= Cap
             /\ chan'[k] = "new" => buf'[k] = <<>>
  <2>0. /\ Consecutive(k) /\ Len(buf[k]) <= Cap /\ (chan[k] = "new" => buf[k] = <<>>)
        /\ chan[k] = "open" => got[k] + Len(buf[k]) = count[of[k]]
        /\ buf[k] \in Seq(Payload) /\ got[k] \in Nat /\ of[k] \in Topics
        /\ got'[k] = got[k] /\ of'[k] = of[k]
        /\ count[of[k]] \in Nat
    BY <1>t, MaxPublishesAssumption DEF BrokerIInv, Gapless, TypeOK
  <2>r. k \in subs[t] <=> chan[k] = "open" /\ of[k] = t
    BY DEF BrokerIInv, RegisteredIsOpen
  <2>1. CASE k \in subs[t] \ Slow(t)
    <3>1. /\ buf'[k] = Append(buf[k], p) /\ chan'[k] = "open" /\ Len(buf[k]) < Cap
          /\ of[k] = t /\ count'[t] = p
      BY <2>1, <2>r, <2>0, <1>e, <1>s, <1>t, CapAssumption DEF TypeOK
    <3>2. got[k] + Len(buf[k]) = count[t]
      BY <3>1, <2>0, <2>1, <2>r
    <3>3. Len(buf'[k]) = Len(buf[k]) + 1 /\ Len(buf[k]) \in Nat
      BY <3>1, <2>0, <1>p
    <3>4. ASSUME NEW i \in 1 .. Len(buf'[k])
          PROVE  buf'[k][i] = got[k] + i
      <4>1. CASE i = Len(buf'[k])
        <5>1. buf'[k][i] = p
          <6>1. buf[k] \in Seq(Payload) /\ p \in Payload
            BY <2>0, <1>p
          <6> HIDE DEF p
          <6> QED
            BY <4>1, <3>1, <3>3, <6>1
        <5>2. i = Len(buf[k]) + 1 /\ Len(buf[k]) \in Nat /\ got[k] \in Nat
          BY <4>1, <3>3, <2>0
        <5>3. got[k] + (Len(buf[k]) + 1) = (got[k] + Len(buf[k])) + 1
          BY <5>2
        <5> QED
          BY <5>1, <5>2, <5>3, <3>2 DEF p
      <4>2. CASE i # Len(buf'[k])
        <5>1. i \in 1 .. Len(buf[k]) /\ buf'[k][i] = buf[k][i]
          BY <4>2, <3>1, <3>3, <2>0, <1>p
        <5> QED
          BY <5>1, <2>0 DEF Consecutive
      <4> QED
        BY <4>1, <4>2
    <3>5. Consecutive(k)'
      BY <3>4, <2>0 DEF Consecutive
    <3>6. got'[k] + Len(buf'[k]) = count'[of'[k]]
      <4>1. got'[k] = got[k] /\ of'[k] = t
        BY <2>0, <3>1
      <4>2. got[k] + Len(buf'[k]) = p
        <5>1. got[k] \in Nat /\ Len(buf[k]) \in Nat
          BY <2>0, <3>3
        <5>2. got[k] + (Len(buf[k]) + 1) = (got[k] + Len(buf[k])) + 1
          BY <5>1
        <5> QED
          BY <5>2, <3>2, <3>3 DEF p
      <4> QED
        BY <4>1, <4>2, <3>1
    <3>7. Len(buf'[k]) <= Cap
      BY <3>1, <3>3, CapAssumption
    <3> QED
      BY <3>1, <3>5, <3>6, <3>7
  <2>2. CASE k \notin subs[t] \ Slow(t)
    <3>1. buf'[k] = buf[k]
      BY <2>2, <1>e
    <3>2. chan'[k] = "open" => chan[k] = "open" /\ of[k] # t
      BY <2>2, <2>r, <1>e, <1>s
    <3>3. chan'[k] = "new" => chan[k] = "new"
      BY <1>e
    <3>4. of[k] # t => count'[of[k]] = count[of[k]]
      BY <1>e, <1>t, <2>0 DEF TypeOK
    <3> QED
      BY <3>1, <3>2, <3>3, <3>4, <2>0 DEF Consecutive
  <2> QED
    BY <2>1, <2>2
<1> QED
  BY <1>1, <1>2, <1>3 DEF BrokerIInv, Gapless

LEMMA PublishInv ==
    ASSUME BrokerIInv, NEW t \in Topics, Publish(t)
    PROVE  BrokerIInv'
<1>1. count'[t] = count[t] + 1 /\ count' = [count EXCEPT ![t] = count[t] + 1]
      /\ cache' = [cache EXCEPT ![t] = count[t] + 1]
      /\ count[t] < MaxPublishes /\ t \notin Transient
  BY DEF Publish, PublishLocked, BrokerIInv, TypeOK
<1>2. cache' \in [Topics -> Payload \cup {0}]
  BY <1>1, MaxPublishesAssumption DEF BrokerIInv, TypeOK
<1>3. CacheIsPresent'
  BY <1>1 DEF BrokerIInv, CacheIsPresent, TypeOK
<1> QED
  BY <1>1, <1>2, <1>3, PublishLockedInv DEF Publish

LEMMA PublishNoCacheInv ==
    ASSUME BrokerIInv, NEW t \in Topics, PublishNoCache(t)
    PROVE  BrokerIInv'
<1>1. count' = [count EXCEPT ![t] = count[t] + 1] /\ cache' = cache
      /\ count[t] < MaxPublishes /\ t \in Transient
  BY DEF PublishNoCache, PublishLocked
<1>2. cache' \in [Topics -> Payload \cup {0}]
  BY <1>1 DEF BrokerIInv, TypeOK
<1>3. CacheIsPresent'
  BY <1>1 DEF BrokerIInv, CacheIsPresent, TypeOK
<1> QED
  BY <1>1, <1>2, <1>3, PublishLockedInv DEF PublishNoCache

LEMMA ReceiveInv ==
    ASSUME BrokerIInv, NEW c \in Chans, Receive(c)
    PROVE  BrokerIInv' /\ got'[c] = got[c] + 1
<1>t. TypeOK
  BY DEF BrokerIInv
<1>b. /\ buf[c] \in Seq(Payload) /\ buf[c] # <<>> /\ Len(buf[c]) \in Nat
      /\ Consecutive(c) /\ got[c] \in Nat
  BY <1>t, MaxPublishesAssumption DEF Receive, BrokerIInv, Gapless, TypeOK
<1>n. /\ Len(buf[c]) >= 1 /\ Head(buf[c]) = got[c] + 1 /\ Head(buf[c]) \in Payload
      /\ Len(Tail(buf[c])) = Len(buf[c]) - 1 /\ Tail(buf[c]) \in Seq(Payload)
      /\ \A i \in 1 .. Len(Tail(buf[c])) : Tail(buf[c])[i] = buf[c][i + 1]
  <2> HIDE DEF Payload
  <2>1. /\ Len(buf[c]) >= 1 /\ Head(buf[c]) = buf[c][1] /\ buf[c][1] \in Payload
        /\ Len(Tail(buf[c])) = Len(buf[c]) - 1 /\ Tail(buf[c]) \in Seq(Payload)
        /\ \A i \in 1 .. Len(Tail(buf[c])) : Tail(buf[c])[i] = buf[c][i + 1]
    BY <1>b, HeadTailType
  <2>2. buf[c][1] = got[c] + 1
    BY <2>1, <1>b DEF Consecutive
  <2> QED
    BY <2>1, <2>2
<1>e. /\ got' = [got EXCEPT ![c] = Head(buf[c])]
      /\ buf' = [buf EXCEPT ![c] = Tail(buf[c])]
      /\ UNCHANGED <<subs, cache, chan, of, count>>
  BY DEF Receive
<1>v. got'[c] = got[c] + 1 /\ buf'[c] = Tail(buf[c])
  BY <1>e, <1>n, <1>t DEF TypeOK
<1>1. TypeOK'
  BY <1>t, <1>e, <1>n DEF TypeOK
<1>2. RegisteredIsOpen' /\ CacheIsPresent'
  BY <1>e DEF BrokerIInv, RegisteredIsOpen, CacheIsPresent
<1>3. ASSUME NEW k \in Chans
      PROVE  /\ Consecutive(k)'
             /\ chan'[k] = "open" => got'[k] + Len(buf'[k]) = count'[of'[k]]
             /\ Len(buf'[k]) <= Cap
             /\ chan'[k] = "new" => buf'[k] = <<>>
  <2>0. /\ Consecutive(k) /\ Len(buf[k]) <= Cap /\ (chan[k] = "new" => buf[k] = <<>>)
        /\ chan[k] = "open" => got[k] + Len(buf[k]) = count[of[k]]
    BY DEF BrokerIInv, Gapless
  <2>1. CASE k = c
    <3>1. \A i \in 1 .. Len(buf'[c]) : buf'[c][i] = got'[c] + i
      <4> SUFFICES ASSUME NEW i \in 1 .. Len(buf'[c])
                   PROVE  buf'[c][i] = got'[c] + i
        OBVIOUS
      <4>1. i \in 1 .. Len(Tail(buf[c])) /\ i + 1 \in 1 .. Len(buf[c])
        BY <1>v, <1>n, <1>b
      <4>2. buf'[c][i] = buf[c][i + 1]
        BY <4>1, <1>v, <1>n
      <4>3. buf[c][i + 1] = got[c] + (i + 1)
        BY <4>1, <1>b DEF Consecutive
      <4>4. i \in Nat /\ got[c] + (i + 1) = (got[c] + 1) + i
        BY <4>1, <1>b
      <4> QED
        BY <4>2, <4>3, <4>4, <1>v
    <3>2. Consecutive(k)'
      BY <2>1, <3>1 DEF Consecutive
    <3>3. Len(buf'[k]) = Len(buf[k]) - 1 /\ got'[k] = got[k] + 1
      BY <2>1, <1>v, <1>n
    <3>4. got'[k] + Len(buf'[k]) = got[k] + Len(buf[k])
      BY <3>3, <2>1, <1>b
    <3>5. Len(buf'[k]) <= Cap
      BY <3>3, <2>0, <2>1, <1>b, CapAssumption
    <3>6. chan' = chan /\ count' = count /\ of' = of /\ chan[k] # "new"
      BY <1>e, <1>b, <2>0, <2>1
    <3> QED
      BY <3>2, <3>4, <3>5, <3>6, <2>0
  <2>2. CASE k # c
    <3>1. buf'[k] = buf[k] /\ got'[k] = got[k]
      BY <2>2, <1>e, <1>t DEF TypeOK
    <3> QED
      BY <3>1, <2>0, <1>e DEF Consecutive
  <2> QED
    BY <2>1, <2>2
<1> QED
  BY <1>1, <1>2, <1>3, <1>v DEF BrokerIInv, Gapless

LEMMA BrokerNextInv == BrokerIInv /\ [BrokerNext]_brokerVars => BrokerIInv'
<1> SUFFICES ASSUME BrokerIInv, [BrokerNext]_brokerVars PROVE BrokerIInv'
  OBVIOUS
<1>1. CASE UNCHANGED brokerVars
  BY <1>1 DEF brokerVars, BrokerIInv, TypeOK, RegisteredIsOpen, Gapless, Consecutive,
     CacheIsPresent
<1>2. CASE \E t \in Topics : Publish(t) \/ PublishNoCache(t)
  BY <1>2, PublishInv, PublishNoCacheInv
<1>3. CASE \E t \in Topics, c \in Chans : Subscribe(t, c) \/ Unsubscribe(t, c)
  BY <1>3, SubscribeInv, UnsubscribeInv
<1>4. CASE \E c \in Chans : Receive(c)
  BY <1>4, ReceiveInv
<1> QED
  BY <1>1, <1>2, <1>3, <1>4 DEF BrokerNext

\* The invariant of the broker: channels, list of subscribers, buffers, cache
\* and numbers agree after every operation of any number of callers.
THEOREM BrokerInvariant == BrokerSpec => []BrokerIInv
BY InitInv, BrokerNextInv, PTL DEF BrokerSpec

\* No send on a closed channel, no channel closed twice, and Unsubscribe always
\* finds an open channel.
THEOREM RegisteredChannelsAreOpen == BrokerSpec => []RegisteredIsOpen
<1>1. BrokerIInv => RegisteredIsOpen
  BY DEF BrokerIInv
<1> QED
  BY <1>1, BrokerInvariant, PTL

\* Subscribers get every payload in order, and who was not dropped has them all.
THEOREM SubscribersMissNothing == BrokerSpec => []Gapless
<1>1. BrokerIInv => Gapless
  BY DEF BrokerIInv
<1> QED
  BY <1>1, BrokerInvariant, PTL

-----------------------------------------------------------------------------

\* What of the invariant the refinement rests on, for one channel.
LEMMA ChannelFacts ==
    ASSUME BrokerIInv, NEW c \in Chans
    PROVE  /\ got[c] \in Nat /\ Len(buf[c]) \in Nat /\ of[c] \in Topics
           /\ count[of[c]] \in Nat
           /\ chan[c] = "open" => got[c] + Len(buf[c]) = count[of[c]]
           /\ Stop[c] = IF chan[c] = "closed" THEN got[c] + Len(buf[c]) ELSE 0
BY MaxPublishesAssumption DEF BrokerIInv, TypeOK, Gapless, Stop

\* Subscribing is attaching at the present of the topic.
LEMMA SubscribeAttaches ==
    ASSUME BrokerIInv, NEW t \in Topics, NEW c \in Chans, Subscribe(t, c)
    PROVE  Log!Attach(t, c)
<1>t. TypeOK
  BY DEF BrokerIInv
<1>1. (IF cache[t] = 0 THEN count[t] ELSE cache[t] - 1) = Log!Present(t)
  BY DEF BrokerIInv, CacheIsPresent, Log!Present
<1>2. Stop' = [Stop EXCEPT ![c] = 0]
  <2> SUFFICES ASSUME NEW k \in Chans PROVE Stop'[k] = [Stop EXCEPT ![c] = 0][k]
    BY DEF Stop
  <2>1. CASE k = c
    BY <2>1, <1>t DEF Subscribe, Stop, TypeOK
  <2>2. CASE k # c
    BY <2>2, <1>t DEF Subscribe, Stop, TypeOK
  <2> QED
    BY <2>1, <2>2
<1> QED
  BY <1>1, <1>2 DEF Subscribe, Log!Attach

\* Unsubscribing is detaching: the payloads of the topic so far stay readable.
LEMMA UnsubscribeDetaches ==
    ASSUME BrokerIInv, NEW t \in Topics, NEW c \in Chans, Unsubscribe(t, c)
    PROVE  Log!Detach(c)
<1>t. TypeOK
  BY DEF BrokerIInv
<1>1. chan[c] = "open" /\ of[c] = t
  BY DEF Unsubscribe, BrokerIInv, RegisteredIsOpen
<1>2. Stop' = [Stop EXCEPT ![c] = count[of[c]]]
  <2> SUFFICES ASSUME NEW k \in Chans
               PROVE  Stop'[k] = [Stop EXCEPT ![c] = count[of[c]]][k]
    BY DEF Stop
  <2>1. CASE k = c
    <3>1. Stop'[k] = got[c] + Len(buf[c])
      BY <2>1, <1>t DEF Unsubscribe, Stop, TypeOK
    <3> QED
      BY <3>1, <2>1, <1>1, ChannelFacts DEF Stop
  <2>2. CASE k # c
    BY <2>2, <1>t DEF Unsubscribe, Stop, TypeOK
  <2> QED
    BY <2>1, <2>2
<1> QED
  BY <1>1, <1>2 DEF Unsubscribe, Log!Detach

\* Publishing, kept or not, announces one item and cuts off the slow readers.
LEMMA PublishLockedAnnounces ==
    ASSUME BrokerIInv, NEW t \in Topics, PublishLocked(t, count[t] + 1),
           UNCHANGED <<of, got>>
    PROVE  Log!Announce(t)
<1>t. TypeOK
  BY DEF BrokerIInv
<1>s. Slow(t) \subseteq subs[t] /\ Slow(t) \subseteq Chans
  BY <1>t DEF Slow, TypeOK
<1>1. ASSUME NEW c \in Slow(t)
      PROVE  /\ chan[c] = "open" /\ of[c] = t /\ Log!Behind(c) >= Cap
             /\ got[c] + Len(buf[c]) = count[t]
  <2>1. c \in Chans /\ c \in subs[t] /\ Len(buf[c]) >= Cap
    BY <1>s DEF Slow
  <2>2. chan[c] = "open" /\ of[c] = t
    BY <2>1 DEF BrokerIInv, RegisteredIsOpen
  <2>3. got[c] \in Nat /\ Len(buf[c]) \in Nat /\ got[c] + Len(buf[c]) = count[t]
    BY <2>1, <2>2, ChannelFacts
  <2>4. count[t] - got[c] = Len(buf[c])
    BY <2>3
  <2> QED
    BY <2>1, <2>2, <2>3, <2>4 DEF Log!Behind
<1>2. Slow(t) \in SUBSET {r \in Chans : chan[r] = "open" /\ of[r] = t
                                          /\ Log!Behind(r) >= Cap}
  BY <1>1, <1>s
<1>3. chan' = [r \in Chans |-> IF r \in Slow(t) THEN "closed" ELSE chan[r]]
  BY DEF PublishLocked
<1>4. Stop' = [r \in Chans |-> IF r \in Slow(t) THEN count[t] ELSE Stop[r]]
  <2> SUFFICES ASSUME NEW k \in Chans
               PROVE  Stop'[k] = IF k \in Slow(t) THEN count[t] ELSE Stop[k]
    BY DEF Stop
  <2>1. CASE k \in Slow(t)
    <3>1. buf'[k] = buf[k] /\ chan'[k] = "closed" /\ got'[k] = got[k]
      BY <2>1 DEF PublishLocked
    <3> QED
      BY <3>1, <2>1, <1>1 DEF Stop
  <2>2. CASE k \notin Slow(t)
    <3>1. chan'[k] = chan[k] /\ got'[k] = got[k]
      BY <2>2 DEF PublishLocked
    <3>2. chan[k] = "closed" => buf'[k] = buf[k]
      BY DEF PublishLocked, BrokerIInv, RegisteredIsOpen
    <3> QED
      BY <3>1, <3>2, <2>2 DEF Stop
  <2> QED
    BY <2>1, <2>2
<1>5. count' = [count EXCEPT ![t] = @ + 1]
  BY DEF PublishLocked
<1> QED
  BY <1>2, <1>3, <1>4, <1>5 DEF Log!Announce

\* Receiving takes the next item, and only one that is there.
LEMMA ReceiveTakes ==
    ASSUME BrokerIInv, NEW c \in Chans, Receive(c)
    PROVE  Log!Take(c)
<1>t. TypeOK
  BY DEF BrokerIInv
<1>1. got'[c] = got[c] + 1
  BY ReceiveInv
<1>2. got' = [got EXCEPT ![c] = @ + 1] /\ UNCHANGED <<count, of, chan>>
  BY <1>1, <1>t DEF Receive, TypeOK
<1> HIDE DEF Payload
<1>3. Len(buf[c]) >= 1 /\ Len(Tail(buf[c])) = Len(buf[c]) - 1 /\ Len(buf[c]) \in Nat
  BY <1>t, HeadTailType DEF Receive, TypeOK
<1>4. chan[c] # "new"
  BY DEF BrokerIInv, Receive
<1>5. got[c] \in Nat /\ got[c] < got[c] + Len(buf[c])
  BY <1>3, ChannelFacts
<1>6. got[c] < IF chan[c] = "open" THEN count[of[c]] ELSE Stop[c]
  <2>1. CASE chan[c] = "open"
    BY <2>1, <1>5, ChannelFacts
  <2>2. CASE chan[c] = "closed"
    BY <2>2, <1>5, ChannelFacts
  <2> QED
    BY <2>1, <2>2, <1>4, <1>t DEF TypeOK
<1>7. Stop' = Stop
  <2> SUFFICES ASSUME NEW k \in Chans PROVE Stop'[k] = Stop[k]
    BY DEF Stop
  <2>1. CASE k = c
    <3>1. buf'[c] = Tail(buf[c])
      BY <1>t DEF Receive, TypeOK
    <3>2. (got[c] + 1) + (Len(buf[c]) - 1) = got[c] + Len(buf[c])
      BY <1>3, <1>5
    <3> QED
      BY <3>1, <3>2, <2>1, <1>1, <1>2, <1>3 DEF Stop
  <2>2. CASE k # c
    BY <2>2, <1>t DEF Receive, Stop, TypeOK
  <2> QED
    BY <2>1, <2>2
<1> QED
  BY <1>2, <1>4, <1>6, <1>7 DEF Log!Take

\* Seen by its readers the broker is the log of TopicLog: no gap, no exchange,
\* and nobody is cut off before a whole buffer lies unread.
THEOREM BrokerImplementsLog == BrokerSpec => ImplementsLog
<1>1. BrokerInit => Log!Init
  <2>1. (CHOOSE t \in Topics : TRUE) \in Topics
    BY TopicsAssumption
  <2> QED
    BY <2>1 DEF BrokerInit, Log!Init, Stop
<1>2. BrokerIInv /\ [BrokerNext]_brokerVars => [Log!Next]_(Log!vars)
  <2> SUFFICES ASSUME BrokerIInv, [BrokerNext]_brokerVars
               PROVE  [Log!Next]_(Log!vars)
    OBVIOUS
  <2>1. CASE UNCHANGED brokerVars
    BY <2>1 DEF brokerVars, Log!vars, Stop
  <2>2. ASSUME NEW t \in Topics, Publish(t) \/ PublishNoCache(t)
        PROVE  Log!Announce(t)
    BY <2>2, PublishLockedAnnounces DEF Publish, PublishNoCache
  <2>3. ASSUME NEW t \in Topics, NEW c \in Chans, Subscribe(t, c) \/ Unsubscribe(t, c)
        PROVE  Log!Attach(t, c) \/ Log!Detach(c)
    BY <2>3, SubscribeAttaches, UnsubscribeDetaches
  <2>4. ASSUME NEW c \in Chans, Receive(c)
        PROVE  Log!Take(c)
    BY <2>4, ReceiveTakes
  <2> QED
    BY <2>1, <2>2, <2>3, <2>4 DEF BrokerNext, Log!Next
<1> QED
  BY <1>1, <1>2, BrokerInvariant, PTL DEF BrokerSpec, ImplementsLog, Log!Spec
-----------------------------------------------------------------------------
(* The connections *)

HIDE DEF Payload

LEMMA PayloadIsNat == Payload \cup {0} \subseteq Nat
BY MaxPublishesAssumption DEF Payload

\* What is counted is a number.
LEMMA BrokerNumbers ==
    ASSUME BrokerIInv
    PROVE  /\ \A t \in Topics : count[t] \in Nat
           /\ \A k \in Chans : got[k] \in Nat /\ Len(buf[k]) \in Nat /\ of[k] \in Topics
<1>1. TypeOK
  BY DEF BrokerIInv
<1>2. ASSUME NEW k \in Chans PROVE Len(buf[k]) \in Nat
  BY <1>1 DEF TypeOK
<1> QED
  BY <1>1, <1>2, PayloadIsNat DEF TypeOK

\* What is in the map is a channel of the topic and of nothing else.
LEMMA MappedFacts ==
    ASSUME StreamIInv, NEW c \in Conns, NEW t \in Mapped(c)
    PROVE  /\ t \in Topics /\ channels[c][t] \in Chans /\ of[channels[c][t]] = t
           /\ channels[c][t] # NoChan
           /\ got[channels[c][t]] \in Nat /\ count[t] \in Nat
           /\ got[channels[c][t]] <= count[t]
<1>1. PICK i \in 1 .. at[c] : channels[c][t] = <<c, i>> /\ of[<<c, i>>] = t
  BY DEF StreamIInv, ConnInv, ChannelInv
<1>2. t \in Topics /\ channels[c][t] # NoChan /\ channels[c][t] \in Chans
  BY DEF Mapped, StreamIInv, StreamTypeOK
<1>3. /\ got[channels[c][t]] \in Nat /\ Len(buf[channels[c][t]]) \in Nat /\ count[t] \in Nat
  BY <1>2, BrokerNumbers DEF StreamIInv
<1>4. got[channels[c][t]] + Len(buf[channels[c][t]]) <= count[t]
  BY <1>1, <1>2 DEF StreamIInv, PastInv
<1> QED
  BY <1>1, <1>2, <1>3, <1>4

LEMMA MappedApart ==
    ASSUME StreamIInv, NEW c \in Conns, NEW t \in Mapped(c), NEW d \in Conns, NEW u \in Mapped(d),
           channels[c][t] = channels[d][u]
    PROVE  c = d /\ t = u
<1>1. PICK i \in 1 .. at[c] : asked[c][i] = t /\ channels[c][t] = <<c, i>>
  BY DEF StreamIInv, ConnInv, ChannelInv
<1>2. PICK j \in 1 .. at[d] : asked[d][j] = u /\ channels[d][u] = <<d, j>>
  BY DEF StreamIInv, ConnInv, ChannelInv
<1>3. <<c, i>> = <<d, j>>
  BY <1>1, <1>2
<1>4. c = d /\ i = j
  BY ONLY <1>3
<1> QED
  BY <1>1, <1>2, <1>4

\* The channel that is subscribed next.
LEMMA NextPlace ==
    ASSUME StreamIInv, NEW c \in Conns, SubscribeNext(c)
    PROVE  /\ at[c] + 1 \in Places /\ at[c] + 1 \in 1 .. Len(asked[c]) /\ at[c] \in Nat
           /\ asked[c][at[c] + 1] \in Topics
           /\ <<c, at[c] + 1>> \in Chans
           /\ asked[c] \in Requests
           /\ Subscribe(asked[c][at[c] + 1], <<c, at[c] + 1>>)
<1>1. at[c] < Len(asked[c]) /\ asked[c] \in Requests \cup {<<>>} /\ at[c] \in Places \cup {0}
  BY DEF SubscribeNext, StreamIInv, StreamTypeOK
<1>2. at[c] \in Nat /\ Len(asked[c]) \in Nat /\ asked[c] # <<>>
  <2>1. at[c] \in Nat /\ asked[c] \in Seq(Topics)
    <3>1. Places \cup {0} \subseteq Nat
      BY PlacesAssumption
    <3>2. <<>> \in Seq(Topics) /\ \A r \in Requests : r \in Seq(Topics)
      BY RequestsAssumption
    <3> QED
      BY <1>1, <3>1, <3>2
  <2> QED
    BY <2>1, <1>1
<1> QED
  BY <1>1, <1>2, RequestsAssumption, ChansAssumption DEF SubscribeNext

\* The step of a connection is a step of the broker, or none.
LEMMA StreamStepIsBrokerStep ==
    ASSUME StreamIInv, [Next]_vars
    PROVE  [BrokerNext]_brokerVars
<1>1. CASE Announce
  BY <1>1 DEF Announce, BrokerNext
<1>2. ASSUME NEW c \in Conns, SubscribeNext(c) PROVE BrokerNext
  BY <1>2, NextPlace DEF BrokerNext
<1>3. ASSUME NEW c \in Conns, NEW t \in Topics, UnsubscribeOne(c, t)
      PROVE  [BrokerNext]_brokerVars
  <2>1. t \in Mapped(c)
    BY <1>3 DEF UnsubscribeOne, StreamIInv, ConnInv, StageInv
  <2> QED
    BY <1>3, <2>1, MappedFacts DEF UnsubscribeOne, BrokerNext
<1>4. ASSUME NEW c \in Conns, NEW t \in Topics, ForwardTake(c, t) PROVE BrokerNext
  <2>1. t \in Mapped(c)
    BY <1>4 DEF ForwardTake, StreamIInv, ConnInv, StageInv
  <2> QED
    BY <1>4, <2>1, MappedFacts DEF ForwardTake, BrokerNext
<1>5. CASE SeeEnd \/ Break \/ UNCHANGED vars
  BY <1>5 DEF SeeEnd, Break, vars
<1>6. ASSUME NEW c \in Conns,
             \/ Connect(c) \/ ContextDone(c) \/ Leave(c) \/ Recycle(c)
             \/ StartForwarding(c) \/ Write(c) \/ Return(c)
      PROVE  UNCHANGED brokerVars
  BY <1>6 DEF Connect, ContextDone, Leave, Recycle, StartForwarding, Write, Return
<1>7. ASSUME NEW c \in Conns, NEW t \in Topics,
             ForwardSeesClose(c, t) \/ ForwardMerge(c, t) \/ ForwardStop(c, t)
      PROVE  UNCHANGED brokerVars
  BY <1>7 DEF ForwardSeesClose, ForwardMerge, ForwardStop
<1> QED
  BY <1>1, <1>2, <1>3, <1>4, <1>5, <1>6, <1>7 DEF Next, Handle, Forward

\* Nobody takes or holds more than was published.
LEMMA BrokerPast ==
    ASSUME BrokerIInv, BrokerIInv', [BrokerNext]_brokerVars,
           \A k \in Chans : got[k] + Len(buf[k]) <= count[of[k]]
    PROVE  /\ \A t \in Topics : count[t] <= count'[t]
           /\ \A k \in Chans : got'[k] + Len(buf'[k]) <= count'[of'[k]]
<1>t. TypeOK /\ TypeOK'
  BY DEF BrokerIInv
<1>n. /\ \A t \in Topics : count[t] \in Nat /\ count'[t] \in Nat
      /\ \A k \in Chans : got[k] \in Nat /\ Len(buf[k]) \in Nat /\ of[k] \in Topics
                          /\ got'[k] \in Nat /\ Len(buf'[k]) \in Nat /\ of'[k] \in Topics
  <2>1. (/\ \A t \in Topics : count[t] \in Nat
         /\ \A k \in Chans : got[k] \in Nat /\ Len(buf[k]) \in Nat /\ of[k] \in Topics)'
    BY BrokerNumbers, PTL
  <2> QED
    BY <2>1, BrokerNumbers
<1>o. \A k \in Chans : chan'[k] = "open" => got'[k] + Len(buf'[k]) = count'[of'[k]]
  BY DEF BrokerIInv, Gapless
<1>1. CASE UNCHANGED brokerVars
  BY <1>1, <1>n DEF brokerVars
<1>2. ASSUME NEW t \in Topics, Publish(t) \/ PublishNoCache(t)
      PROVE  /\ \A u \in Topics : count[u] <= count'[u]
             /\ \A k \in Chans : got'[k] + Len(buf'[k]) <= count'[of'[k]]
  <2>1. PublishLocked(t, count[t] + 1) /\ of' = of /\ got' = got
    BY <1>2 DEF Publish, PublishNoCache
  <2>2. ASSUME NEW u \in Topics PROVE count[u] <= count'[u]
    BY <2>1, <1>t, <1>n DEF PublishLocked, TypeOK
  <2>3. ASSUME NEW k \in Chans PROVE got'[k] + Len(buf'[k]) <= count'[of'[k]]
    <3>1. CASE k \in subs[t] \ Slow(t)
      <4>1. chan[k] = "open" /\ chan'[k] = chan[k]
        BY <3>1, <2>1, <1>t DEF PublishLocked, BrokerIInv, RegisteredIsOpen
      <4> QED
        BY <4>1, <1>o, <1>n
    <3>2. CASE k \notin subs[t] \ Slow(t)
      <4>1. buf'[k] = buf[k]
        BY <3>2, <2>1 DEF PublishLocked
      <4>2. count[of[k]] <= count'[of[k]] /\ of[k] \in Topics
        BY <2>2, <1>n
      <4> QED
        BY <4>1, <4>2, <2>1, <1>n
    <3> QED
      BY <3>1, <3>2
  <2> QED
    BY <2>2, <2>3
<1>3. ASSUME NEW t \in Topics, NEW c \in Chans, Subscribe(t, c) \/ Unsubscribe(t, c)
      PROVE  /\ count' = count
             /\ \A k \in Chans : got'[k] + Len(buf'[k]) <= count'[of'[k]]
  <2>1. CASE Subscribe(t, c)
    <3>1. count' = count /\ chan'[c] = "open"
      BY <2>1, <1>t DEF Subscribe, TypeOK
    <3>2. ASSUME NEW k \in Chans, k # c PROVE got'[k] = got[k] /\ buf'[k] = buf[k] /\ of'[k] = of[k]
      BY <2>1, <3>2, <1>t DEF Subscribe, TypeOK
    <3>3. got'[c] + Len(buf'[c]) <= count'[of'[c]]
      BY <3>1, <1>o, <1>n
    <3> QED
      BY <3>1, <3>2, <3>3
  <2>2. CASE Unsubscribe(t, c)
    BY <2>2 DEF Unsubscribe
  <2> QED
    BY <1>3, <2>1, <2>2
<1>4. ASSUME NEW c \in Chans, Receive(c)
      PROVE  /\ count' = count
             /\ \A k \in Chans : got'[k] + Len(buf'[k]) <= count'[of'[k]]
  <2>1. got'[c] = got[c] + 1 /\ count' = count /\ of' = of
    BY <1>4, ReceiveInv DEF Receive
  <2>2. Len(buf'[c]) = Len(buf[c]) - 1
    BY <1>4, <1>t, HeadTailType DEF Receive, TypeOK
  <2>3. ASSUME NEW k \in Chans, k # c PROVE got'[k] = got[k] /\ buf'[k] = buf[k]
    BY <1>4, <2>3, <1>t DEF Receive, TypeOK
  <2>4. got'[c] + Len(buf'[c]) = got[c] + Len(buf[c])
    BY <2>1, <2>2, <1>n
  <2> QED
    BY <2>1, <2>3, <2>4
<1> QED
  BY <1>n, <1>1, <1>2, <1>3, <1>4 DEF BrokerNext

\* What holds of a connection rests on its own state, on what its channels
\* have given and, while the tab reads it, on what was delivered to it.
LEMMA ChannelKept ==
    ASSUME StreamIInv, NEW d \in Conns,
           at'[d] = at[d], asked'[d] = asked[d], channels'[d] = channels[d],
           \A t \in Mapped(d) : of'[channels[d][t]] = t
    PROVE  ChannelInv(d)' /\ Mapped(d)' = Mapped(d)
<1>1. Mapped(d)' = Mapped(d)
  BY DEF Mapped
<1>2. ASSUME NEW t \in Mapped(d)
      PROVE  \E i \in 1 .. at'[d] :
                asked'[d][i] = t /\ channels'[d][t] = <<d, i>> /\ of'[<<d, i>>] = t
  <2>1. PICK i \in 1 .. at[d] : asked[d][i] = t /\ channels[d][t] = <<d, i>>
    BY DEF StreamIInv, ConnInv, ChannelInv
  <2>2. of'[<<d, i>>] = t
    BY <2>1
  <2> QED
    BY <2>1, <2>2
<1> QED
  BY <1>1, <1>2 DEF ChannelInv

LEMMA PathKept ==
    ASSUME StreamIInv, NEW d \in Conns,
           merged'[d] = merged[d], channels'[d] = channels[d],
           \A t \in Mapped(d) : got'[channels[d][t]] = got[channels[d][t]],
           \A t \in Mapped(d) : fwd'[d][t] = "send" =>
                                   fwd[d][t] = "send" /\ hand'[d][t] = hand[d][t],
           tab' = d => tab = d /\ delivered' = delivered
    PROVE  PathInv(d)'
<1>1. Mapped(d)' = Mapped(d)
  BY DEF Mapped
<1>2. PathInv(d)
  BY DEF StreamIInv, ConnInv
<1>3. ASSUME NEW i \in 1 .. Len(merged[d])
      PROVE  /\ merged'[d][i].topic \in Mapped(d)
             /\ merged'[d][i].data <= got'[channels'[d][merged'[d][i].topic]]
             /\ tab' = d => delivered'[merged'[d][i].topic] <= merged'[d][i].data
  BY <1>2 DEF PathInv
<1>4. ASSUME NEW t \in Mapped(d)
      PROVE  /\ fwd'[d][t] = "send" => hand'[d][t] = got'[channels'[d][t]]
             /\ tab' = d => delivered'[t] <= got'[channels'[d][t]] + 1
             /\ tab' = d /\ fwd'[d][t] = "send" => delivered'[t] <= hand'[d][t]
  BY <1>2 DEF PathInv
<1>5. \A i, j \in 1 .. Len(merged'[d]) :
          i < j /\ merged'[d][i].topic = merged'[d][j].topic =>
              merged'[d][i].data <= merged'[d][j].data
  BY <1>2 DEF PathInv
<1> QED
  BY <1>1, <1>3, <1>4, <1>5 DEF PathInv

LEMMA ReleaseKept ==
    ASSUME NEW d \in Conns, ReleaseInv(d),
           at'[d] = at[d], asked'[d] = asked[d], channels'[d] = channels[d],
           conn[d] \in {"subscribing", "streaming"} => conn'[d] \in {"subscribing", "streaming"},
           conn[d] = "closing" => conn'[d] = "closing" /\ held'[d] = held[d],
           \A i \in Places : chan'[<<d, i>>] = "open" => chan[<<d, i>>] = "open"
    PROVE  ReleaseInv(d)'
<1> SUFFICES ASSUME NEW i \in Places, chan'[<<d, i>>] = "open"
             PROVE  /\ i \in 1 .. at'[d]
                    /\ LastPlace(d, i)' =>
                          /\ channels'[d][asked'[d][i]] = <<d, i>>
                          /\ \/ conn'[d] \in {"subscribing", "streaming"}
                             \/ conn'[d] = "closing" /\ asked'[d][i] \in held'[d]
  BY DEF ReleaseInv
<1>1. chan[<<d, i>>] = "open"
  OBVIOUS
<1>2. LastPlace(d, i)' = LastPlace(d, i)
  BY DEF LastPlace
<1> QED
  BY <1>1, <1>2 DEF ReleaseInv

LEMMA ConnKept ==
    ASSUME StreamIInv, NEW d \in Conns,
           conn'[d] = conn[d], at'[d] = at[d], asked'[d] = asked[d], channels'[d] = channels[d],
           held'[d] = held[d], fwd'[d] = fwd[d], hand'[d] = hand[d], merged'[d] = merged[d],
           \A t \in Mapped(d) : of'[channels[d][t]] = t
                                /\ got'[channels[d][t]] = got[channels[d][t]],
           tab' = d => tab = d /\ delivered' = delivered,
           \A i \in Places : chan'[<<d, i>>] = "open" => chan[<<d, i>>] = "open"
    PROVE  ConnInv(d)'
<1>1. ChannelInv(d)' /\ Mapped(d)' = Mapped(d)
  BY ChannelKept
<1>2. PathInv(d)'
  BY PathKept
<1>3. StageInv(d)'
  BY <1>1 DEF StreamIInv, ConnInv, StageInv
<1>4. ReleaseInv(d)'
  BY ReleaseKept DEF StreamIInv, ConnInv
<1> QED
  BY <1>1, <1>2, <1>3, <1>4 DEF ConnInv

\* Two connections have no channel in common.
LEMMA MappedIsOwn ==
    ASSUME StreamIInv, NEW d \in Conns, NEW t \in Mapped(d)
    PROVE  /\ \E j \in 1 .. at[d] : channels[d][t] = <<d, j>>
           /\ \A c \in Conns, i \in Places :
                 channels[d][t] = <<c, i>> => c = d /\ i \in 1 .. at[d]
<1>1. PICK j \in 1 .. at[d] : channels[d][t] = <<d, j>>
  BY DEF StreamIInv, ConnInv, ChannelInv
<1>2. ASSUME NEW c \in Conns, NEW i \in Places, <<d, j>> = <<c, i>> PROVE c = d /\ i = j
  BY ONLY <1>2
<1> QED
  BY <1>1, <1>2

\* Where nothing of the broker changes, channels and what they gave are as before.
LEMMA OthersKept ==
    ASSUME StreamIInv, UNCHANGED brokerVars, NEW d \in Conns,
           conn'[d] = conn[d], at'[d] = at[d], asked'[d] = asked[d], channels'[d] = channels[d],
           held'[d] = held[d], fwd'[d] = fwd[d], hand'[d] = hand[d], merged'[d] = merged[d],
           tab' = d => tab = d /\ delivered' = delivered
    PROVE  ConnInv(d)'
BY ConnKept, MappedFacts DEF brokerVars

LEMMA BrowserSteps ==
    ASSUME StreamIInv,
           SeeEnd \/ Break \/ (\E c \in Conns : ContextDone(c)) \/ UNCHANGED vars
    PROVE  \A d \in Conns : ConnInv(d)'
<1> SUFFICES ASSUME NEW d \in Conns PROVE ConnInv(d)'
  OBVIOUS
<1>1. UNCHANGED <<brokerVars, handler, fwd, hand, merged, delivered>>
  BY DEF SeeEnd, Break, ContextDone, vars, forwarders, browser
<1>2. tab' = d => tab = d
  BY ConnsAssumption DEF SeeEnd, Break, ContextDone, vars, browser
<1> QED
  BY <1>1, <1>2, OthersKept DEF handler

LEMMA ConnectKeeps ==
    ASSUME StreamIInv, NEW c \in Conns, Connect(c)
    PROVE  \A d \in Conns : ConnInv(d)'
<1>1. ASSUME NEW d \in Conns, d # c PROVE ConnInv(d)'
  BY <1>1, OthersKept DEF Connect, StreamIInv, StreamTypeOK, forwarders
<1>2. /\ conn[c] = "idle" /\ at[c] = 0 /\ Mapped(c) = {} /\ merged[c] = <<>> /\ held[c] = {}
      /\ \A t \in Topics : fwd[c][t] = "none"
      /\ ReleaseInv(c)
  BY DEF Connect, StreamIInv, ConnInv, StageInv
<1>3. /\ conn'[c] = "subscribing" /\ UNCHANGED <<brokerVars, channels, at, held, fwd, hand, merged>>
  BY DEF Connect, forwarders, StreamIInv, StreamTypeOK
<1>4. at'[c] <= Len(asked'[c])
  <2>1. PICK r \in Requests : asked' = [asked EXCEPT ![c] = r]
    BY DEF Connect
  <2>2. asked'[c] = r /\ r \in Seq(Topics)
    BY <2>1, RequestsAssumption DEF StreamIInv, StreamTypeOK
  <2>3. Len(r) \in Nat
    BY <2>2
  <2> QED
    BY <1>2, <1>3, <2>2, <2>3
<1>5. Mapped(c)' = {}
  BY <1>2, <1>3 DEF Mapped
<1>6. StageInv(c)'
  BY <1>2, <1>3, <1>4, <1>5 DEF StageInv
<1>7. ChannelInv(c)' /\ PathInv(c)'
  BY <1>2, <1>3, <1>5 DEF ChannelInv, PathInv
<1>8. ReleaseInv(c)'
  BY <1>2, <1>3 DEF ReleaseInv, brokerVars
<1> QED
  BY <1>1, <1>6, <1>7, <1>8 DEF ConnInv

LEMMA StartForwardingKeeps ==
    ASSUME StreamIInv, NEW c \in Conns, StartForwarding(c)
    PROVE  \A d \in Conns : ConnInv(d)'
<1>1. ASSUME NEW d \in Conns, d # c PROVE ConnInv(d)'
  BY <1>1, OthersKept DEF StartForwarding, StreamIInv, StreamTypeOK, browser
<1>2. /\ UNCHANGED <<brokerVars, asked, channels, at, hand, merged, tab, delivered>>
      /\ conn[c] = "subscribing" /\ conn'[c] = "streaming" /\ held'[c] = Mapped(c)
      /\ \A t \in Topics : fwd'[c][t] = IF t \in Mapped(c) THEN "recv" ELSE "none"
  BY DEF StartForwarding, StreamIInv, StreamTypeOK, browser, Mapped
<1>3. ChannelInv(c)' /\ Mapped(c)' = Mapped(c)
  BY <1>2, ChannelKept, MappedFacts DEF brokerVars
<1>4. PathInv(c)'
  <2>1. \A t \in Mapped(c) : fwd'[c][t] # "send"
    BY <1>2 DEF Mapped
  <2> QED
    BY <1>2, <2>1, PathKept DEF brokerVars
<1>5. StageInv(c)'
  BY <1>2, <1>3 DEF StageInv, StreamIInv, ConnInv
<1>6. ReleaseInv(c)'
  BY <1>2, ReleaseKept DEF brokerVars, StreamIInv, ConnInv
<1> QED
  BY <1>1, <1>3, <1>4, <1>5, <1>6 DEF ConnInv

LEMMA LeaveKeeps ==
    ASSUME StreamIInv, NEW c \in Conns, Leave(c)
    PROVE  \A d \in Conns : ConnInv(d)'
<1>1. ASSUME NEW d \in Conns, d # c PROVE ConnInv(d)'
  BY <1>1, OthersKept DEF Leave, StreamIInv, StreamTypeOK, browser, forwarders
<1>2. /\ UNCHANGED <<brokerVars, asked, channels, at, held, fwd, hand, merged, tab, delivered>>
      /\ conn[c] = "streaming" /\ conn'[c] = "closing" /\ held[c] = Mapped(c)
  BY DEF Leave, StreamIInv, StreamTypeOK, browser, forwarders, ConnInv, StageInv
<1>3. ChannelInv(c)' /\ Mapped(c)' = Mapped(c)
  BY <1>2, ChannelKept, MappedFacts DEF brokerVars
<1>4. PathInv(c)'
  BY <1>2, PathKept DEF brokerVars
<1>5. StageInv(c)'
  BY <1>2, <1>3 DEF StageInv, StreamIInv, ConnInv
<1>6. ASSUME NEW i \in Places, chan'[<<c, i>>] = "open", LastPlace(c, i)
      PROVE  channels[c][asked[c][i]] = <<c, i>> /\ asked[c][i] \in held[c]
  <2>1. i \in 1 .. at[c] /\ channels[c][asked[c][i]] = <<c, i>>
    BY <1>2, <1>6 DEF brokerVars, StreamIInv, ConnInv, ReleaseInv
  <2>2. asked[c][i] \in Topics
    <3>1. asked[c] \in Requests \cup {<<>>} /\ at[c] <= Len(asked[c]) /\ at[c] \in Places \cup {0}
      BY DEF StreamIInv, StreamTypeOK, ConnInv, StageInv
    <3>2. asked[c] \in Seq(Topics)
      <4>1. <<>> \in Seq(Topics) /\ \A r \in Requests : r \in Seq(Topics)
        BY RequestsAssumption
      <4> QED
        BY <3>1, <4>1
    <3>3. at[c] \in Nat /\ Len(asked[c]) \in Nat
      <4>1. Places \cup {0} \subseteq Nat
        BY PlacesAssumption
      <4>2. at[c] \in Nat
        BY <3>1, <4>1
      <4>3. Len(asked[c]) \in Nat
        BY ONLY <3>2
      <4> QED
        BY ONLY <4>2, <4>3
    <3>4. i \in 1 .. Len(asked[c])
      BY ONLY <2>1, <3>1, <3>3
    <3> QED
      BY ONLY <3>2, <3>4
  <2>3. channels[c][asked[c][i]] # NoChan
    BY <2>1 DEF NoChan
  <2> QED
    BY <1>2, <2>1, <2>2, <2>3 DEF Mapped
<1>7. ReleaseInv(c)'
  <2> SUFFICES ASSUME NEW i \in Places, chan'[<<c, i>>] = "open"
               PROVE  /\ i \in 1 .. at[c]
                      /\ LastPlace(c, i)' =>
                            channels[c][asked[c][i]] = <<c, i>> /\ asked[c][i] \in held[c]
    BY <1>2 DEF ReleaseInv
  <2>1. i \in 1 .. at[c]
    BY <1>2 DEF brokerVars, StreamIInv, ConnInv, ReleaseInv
  <2>2. LastPlace(c, i)' = LastPlace(c, i)
    BY <1>2 DEF LastPlace
  <2> QED
    BY <1>6, <2>1, <2>2
<1> QED
  BY <1>1, <1>3, <1>4, <1>5, <1>7 DEF ConnInv

LEMMA ReturnKeeps ==
    ASSUME StreamIInv, NEW c \in Conns, Return(c)
    PROVE  \A d \in Conns : ConnInv(d)'
<1>1. ASSUME NEW d \in Conns, d # c PROVE ConnInv(d)'
  BY <1>1, OthersKept DEF Return, StreamIInv, StreamTypeOK, browser, forwarders
<1>2. /\ UNCHANGED <<brokerVars, asked, channels, at, held, fwd, hand, merged, tab, delivered>>
      /\ conn[c] = "closing" /\ conn'[c] = "closed" /\ held[c] = {}
  BY DEF Return, StreamIInv, StreamTypeOK, browser, forwarders
<1>3. ChannelInv(c)' /\ Mapped(c)' = Mapped(c)
  BY <1>2, ChannelKept, MappedFacts DEF brokerVars
<1>4. PathInv(c)'
  BY <1>2, PathKept DEF brokerVars
<1>5. StageInv(c)'
  BY <1>2, <1>3 DEF StageInv, StreamIInv, ConnInv
<1>6. ReleaseInv(c)'
  BY <1>2 DEF ReleaseInv, LastPlace, brokerVars, StreamIInv, ConnInv
<1> QED
  BY <1>1, <1>3, <1>4, <1>5, <1>6 DEF ConnInv

LEMMA RecycleKeeps ==
    ASSUME StreamIInv, NEW c \in Conns, Recycle(c)
    PROVE  \A d \in Conns : ConnInv(d)'
<1>1. ASSUME NEW d \in Conns, d # c PROVE ConnInv(d)'
  BY <1>1, OthersKept DEF Recycle, StreamIInv, StreamTypeOK, browser
<1>2. /\ conn'[c] = "idle" /\ asked'[c] = <<>> /\ at'[c] = 0 /\ merged'[c] = <<>>
      /\ \A t \in Topics : channels'[c][t] = NoChan /\ fwd'[c][t] = "none"
      /\ UNCHANGED <<brokerVars, held>> /\ conn[c] = "closed"
      /\ \A i \in Places : chan[<<c, i>>] # "open"
  BY DEF Recycle, StreamIInv, StreamTypeOK
<1>3. Mapped(c)' = {} /\ held[c] = {}
  BY <1>2 DEF Mapped, StreamIInv, ConnInv, StageInv
<1>4. StageInv(c)' /\ ChannelInv(c)' /\ PathInv(c)'
  BY <1>2, <1>3 DEF StageInv, ChannelInv, PathInv
<1>5. ReleaseInv(c)'
  BY <1>2 DEF ReleaseInv, brokerVars
<1> QED
  BY <1>1, <1>4, <1>5 DEF ConnInv

LEMMA AnnounceKeeps ==
    ASSUME StreamIInv, Announce
    PROVE  \A d \in Conns : ConnInv(d)'
<1> SUFFICES ASSUME NEW d \in Conns PROVE ConnInv(d)'
  OBVIOUS
<1>1. /\ UNCHANGED <<of, got, conn, asked, channels, at, held, fwd, hand, merged, tab, delivered>>
      /\ \A k \in Chans : chan'[k] = "open" => chan[k] = "open"
  BY DEF Announce, Publish, PublishNoCache, PublishLocked, handler, forwarders, browser
<1>2. \A i \in Places : chan'[<<d, i>>] = "open" => chan[<<d, i>>] = "open"
  BY <1>1, ChansAssumption
<1> QED
  BY <1>1, <1>2, ConnKept, MappedFacts

LEMMA SubscribeNextKeeps ==
    ASSUME StreamIInv, NEW c \in Conns, SubscribeNext(c)
    PROVE  \A d \in Conns : ConnInv(d)'
<1> DEFINE i == at[c] + 1
           t == asked[c][i]
<1>1. /\ i \in Places /\ i \in 1 .. Len(asked[c]) /\ at[c] \in Nat /\ t \in Topics
      /\ <<c, i>> \in Chans /\ asked[c] \in Requests /\ Subscribe(t, <<c, i>>)
  BY NextPlace
<1>2. /\ conn[c] = "subscribing" /\ merged[c] = <<>> /\ \A u \in Topics : fwd[c][u] = "none"
      /\ held[c] = {}
  BY DEF SubscribeNext, StreamIInv, ConnInv, StageInv
<1>3. /\ channels' = [channels EXCEPT ![c][t] = <<c, i>>] /\ at' = [at EXCEPT ![c] = i]
      /\ UNCHANGED <<conn, asked, held, fwd, hand, merged, tab, delivered>>
  BY DEF SubscribeNext, forwarders, browser
<1>4. /\ of' = [of EXCEPT ![<<c, i>>] = t] /\ chan' = [chan EXCEPT ![<<c, i>>] = "open"]
      /\ got' = [got EXCEPT ![<<c, i>>] = IF cache[t] = 0 THEN count[t] ELSE cache[t] - 1]
  BY <1>1 DEF Subscribe
<1>5. TypeOK /\ channels \in [Conns -> [Topics -> Chans \cup {NoChan}]] /\ DOMAIN at = Conns
  BY DEF StreamIInv, StreamTypeOK
<1>6. of'[<<c, i>>] = t /\ delivered[t] <= got'[<<c, i>>] + 1
  <2>1. of'[<<c, i>>] = t
    BY <1>1, <1>4, <1>5 DEF TypeOK
  <2>2. got'[<<c, i>>] = IF cache[t] = 0 THEN count[t] ELSE cache[t] - 1
    BY <1>1, <1>4, <1>5 DEF TypeOK
  <2>3. delivered[t] <= count[t] /\ delivered[t] \in Nat /\ count[t] \in Nat
    BY <1>1, PayloadIsNat, BrokerNumbers DEF StreamIInv, PastInv, StreamTypeOK
  <2>4. cache[t] = 0 \/ cache[t] = count[t]
    BY <1>1 DEF StreamIInv, BrokerIInv, CacheIsPresent
  <2> QED
    BY <2>1, <2>2, <2>3, <2>4
<1>7. ASSUME NEW k \in Chans, k # <<c, i>>
      PROVE  of'[k] = of[k] /\ got'[k] = got[k] /\ chan'[k] = chan[k]
  BY <1>4, <1>5, <1>7 DEF TypeOK
<1> HIDE DEF i, t
<1>8. ASSUME NEW d \in Conns, d # c PROVE ConnInv(d)'
  <2>1. channels'[d] = channels[d] /\ at'[d] = at[d]
    BY <1>3, <1>5, <1>8
  <2>2. ASSUME NEW u \in Mapped(d)
        PROVE  of'[channels[d][u]] = u /\ got'[channels[d][u]] = got[channels[d][u]]
    <3>1. channels[d][u] # <<c, i>>
      BY <1>1, <1>8, MappedIsOwn
    <3> QED
      BY <3>1, <1>7, MappedFacts
  <2>3. ASSUME NEW j \in Places PROVE chan'[<<d, j>>] = chan[<<d, j>>]
    <3>1. <<d, j>> \in Chans
      BY ChansAssumption
    <3>2. <<d, j>> # <<c, i>>
      BY <1>8
    <3> QED
      BY <3>1, <3>2, <1>7
  <2> QED
    BY <1>3, <2>1, <2>2, <2>3, ConnKept
<1>9. /\ channels'[c][t] = <<c, i>> /\ at'[c] = i
      /\ \A u \in Topics : u # t => channels'[c][u] = channels[c][u]
  BY <1>1, <1>3, <1>5
<1>10. Mapped(c)' = Mapped(c) \cup {t}
  <2>1. <<c, i>> # NoChan
    BY DEF NoChan
  <2> QED
    BY <1>1, <1>9, <2>1 DEF Mapped
<1>11. ASSUME NEW u \in Mapped(c), u # t
       PROVE  /\ channels'[c][u] = channels[c][u] /\ got'[channels[c][u]] = got[channels[c][u]]
              /\ \E j \in 1 .. at[c] : /\ asked[c][j] = u /\ channels[c][u] = <<c, j>>
                                       /\ of'[<<c, j>>] = u
  <2>1. PICK j \in 1 .. at[c] : asked[c][j] = u /\ channels[c][u] = <<c, j>> /\ of[<<c, j>>] = u
    BY DEF StreamIInv, ConnInv, ChannelInv
  <2>2. j # i
    BY <1>1 DEF i
  <2>3. <<c, j>> # <<c, i>>
    BY <2>2
  <2>4. <<c, j>> \in Chans /\ u \in Topics
    BY <2>1, MappedFacts
  <2> QED
    BY <1>7, <1>9, <1>11, <2>1, <2>3, <2>4
<1>12. StageInv(c)'
  BY <1>1, <1>2, <1>3, <1>9 DEF StageInv
<1>13. ChannelInv(c)'
  <2>1. ASSUME NEW u \in Mapped(c)'
        PROVE  \E j \in 1 .. at'[c] : /\ asked'[c][j] = u /\ channels'[c][u] = <<c, j>>
                                      /\ of'[<<c, j>>] = u
    <3>1. CASE u = t
      <4>1. i \in 1 .. at'[c] /\ asked'[c][i] = t
        BY <1>1, <1>3, <1>9 DEF t
      <4> QED
        BY <3>1, <4>1, <1>6, <1>9
    <3>2. CASE u # t
      <4>1. PICK j \in 1 .. at[c] : /\ asked[c][j] = u /\ channels[c][u] = <<c, j>>
                                    /\ of'[<<c, j>>] = u
        BY <1>10, <1>11, <2>1, <3>2
      <4>2. j \in 1 .. at'[c]
        BY <1>1, <1>9 DEF i
      <4> QED
        BY <1>3, <1>10, <1>11, <2>1, <3>2, <4>1, <4>2
    <3> QED
      BY <3>1, <3>2
  <2> QED
    BY <2>1 DEF ChannelInv
<1>14. PathInv(c)'
  <2>1. ASSUME NEW u \in Mapped(c)'
        PROVE  fwd'[c][u] # "send" /\ (tab' = c => delivered'[u] <= got'[channels'[c][u]] + 1)
    <3>1. fwd'[c][u] # "send"
      BY <1>2, <1>3, <2>1 DEF Mapped
    <3>2. CASE u = t
      BY <3>1, <3>2, <1>3, <1>6, <1>9
    <3>3. CASE u # t
      <4>1. u \in Mapped(c) /\ (tab = c => delivered[u] <= got[channels[c][u]] + 1)
        BY <2>1, <3>3, <1>10 DEF StreamIInv, ConnInv, PathInv
      <4> QED
        BY <3>1, <3>3, <4>1, <1>3, <1>11
    <3> QED
      BY <3>2, <3>3
  <2>2. merged'[c] = <<>> /\ 1 .. Len(merged'[c]) = {}
    BY <1>2, <1>3
  <2> QED
    BY <2>1, <2>2 DEF PathInv
<1>15. ReleaseInv(c)'
  <2> SUFFICES ASSUME NEW j \in Places, chan'[<<c, j>>] = "open"
               PROVE  /\ j \in 1 .. at'[c]
                      /\ LastPlace(c, j)' => channels'[c][asked[c][j]] = <<c, j>>
    BY <1>2, <1>3 DEF ReleaseInv
  <2>1. CASE j = i
    BY <2>1, <1>1, <1>9 DEF t
  <2>2. CASE j # i
    <3>1. chan[<<c, j>>] = "open"
      <4>1. <<c, j>> \in Chans /\ <<c, j>> # <<c, i>>
        BY <2>2, ChansAssumption
      <4> QED
        BY <4>1, <1>7
    <3>2. j \in 1 .. at[c] /\ (LastPlace(c, j) => channels[c][asked[c][j]] = <<c, j>>)
      BY <3>1 DEF StreamIInv, ConnInv, ReleaseInv
    <3>3. j \in 1 .. at'[c] /\ i \in j + 1 .. at'[c] /\ j \in 1 .. Len(asked[c])
      BY <3>2, <1>1, <1>9 DEF i
    <3>4. ASSUME LastPlace(c, j)' PROVE LastPlace(c, j) /\ asked[c][j] # t
      <4>1. \A l \in j + 1 .. at'[c] : asked[c][l] # asked[c][j]
        BY <3>4, <1>3 DEF LastPlace
      <4>2. \A l \in j + 1 .. at[c] : l \in j + 1 .. at'[c]
        BY <3>2, <1>1, <1>9 DEF i
      <4> QED
        BY <4>1, <4>2, <3>3 DEF LastPlace, t
    <3>5. asked[c][j] \in Topics
      BY <3>3, <1>1, RequestsAssumption
    <3> QED
      BY <3>2, <3>3, <3>4, <3>5, <1>9
  <2> QED
    BY <2>1, <2>2
<1> QED
  BY <1>8, <1>12, <1>13, <1>14, <1>15 DEF ConnInv

LEMMA UnsubscribeOneKeeps ==
    ASSUME StreamIInv, NEW c \in Conns, NEW t \in Topics, UnsubscribeOne(c, t)
    PROVE  \A d \in Conns : ConnInv(d)'
<1>1. /\ UNCHANGED <<of, got, conn, asked, channels, at, fwd, hand, merged, tab, delivered>>
      /\ conn[c] = "closing" /\ t \in held[c] /\ held' = [held EXCEPT ![c] = held[c] \ {t}]
  BY DEF UnsubscribeOne, Unsubscribe, brokerVars, forwarders, browser
<1>2. t \in Mapped(c) /\ held[c] \subseteq Mapped(c) /\ DOMAIN held = Conns
  BY <1>1 DEF StreamIInv, ConnInv, StageInv, StreamTypeOK
<1>3. /\ channels[c][t] \in Chans /\ of[channels[c][t]] = t
      /\ \A k \in Chans : chan'[k] = "open" => chan[k] = "open"
      /\ chan'[channels[c][t]] # "open"
  <2>1. channels[c][t] \in Chans /\ of[channels[c][t]] = t
    BY <1>2, MappedFacts
  <2>2. channels[c][t] \in subs[t] <=> chan[channels[c][t]] = "open"
    BY <2>1 DEF StreamIInv, BrokerIInv, RegisteredIsOpen
  <2>3. DOMAIN chan = Chans
    BY DEF StreamIInv, StreamTypeOK, TypeOK
  <2> QED
    BY <2>1, <2>2, <2>3 DEF UnsubscribeOne, Unsubscribe, brokerVars
<1>4. ASSUME NEW d \in Conns, NEW i \in Places, chan'[<<d, i>>] = "open"
      PROVE  chan[<<d, i>>] = "open"
  BY <1>3, <1>4, ChansAssumption
<1>5. ASSUME NEW d \in Conns, d # c PROVE ConnInv(d)'
  BY <1>1, <1>2, <1>4, <1>5, ConnKept, MappedFacts
<1>6. ChannelInv(c)' /\ Mapped(c)' = Mapped(c)
  BY <1>1, ChannelKept, MappedFacts
<1>7. PathInv(c)'
  BY <1>1, PathKept
<1>8. StageInv(c)'
  BY <1>1, <1>2, <1>6 DEF StageInv, StreamIInv, ConnInv
<1>9. ReleaseInv(c)'
  <2> SUFFICES ASSUME NEW i \in Places, chan'[<<c, i>>] = "open"
               PROVE  /\ i \in 1 .. at[c]
                      /\ LastPlace(c, i)' => /\ channels[c][asked[c][i]] = <<c, i>>
                                             /\ asked[c][i] \in held'[c]
    BY <1>1 DEF ReleaseInv
  <2>1. /\ i \in 1 .. at[c]
        /\ LastPlace(c, i) => /\ channels[c][asked[c][i]] = <<c, i>>
                              /\ asked[c][i] \in held[c]
    BY <1>1, <1>4 DEF StreamIInv, ConnInv, ReleaseInv
  <2>2. LastPlace(c, i)' = LastPlace(c, i)
    BY <1>1 DEF LastPlace
  <2>3. LastPlace(c, i) => asked[c][i] # t
    BY <2>1, <1>3
  <2> QED
    BY <2>1, <2>2, <2>3, <1>1, <1>2
<1> QED
  BY <1>5, <1>6, <1>7, <1>8, <1>9 DEF ConnInv

LEMMA ElementType ==
    ASSUME NEW S, NEW s \in Seq(S), NEW i \in 1 .. Len(s)
    PROVE  s[i] \in S
OBVIOUS

LEMMA AppendFacts ==
    ASSUME NEW S, NEW s \in Seq(S), NEW e \in S
    PROVE  /\ Append(s, e) \in Seq(S) /\ Len(s) \in Nat /\ Len(Append(s, e)) = Len(s) + 1
           /\ Append(s, e)[Len(s) + 1] = e
           /\ \A i \in 1 .. Len(s) : Append(s, e)[i] = s[i]
OBVIOUS

\* What is merged are numbered payloads.
LEMMA MergedFacts ==
    ASSUME StreamIInv, NEW c \in Conns
    PROVE  /\ merged[c] \in Seq([topic : Topics, data : Payload]) /\ Len(merged[c]) \in Nat
           /\ \A i \in 1 .. Len(merged[c]) :
                 /\ merged[c][i] \in [topic : Topics, data : Payload]
                 /\ merged[c][i].topic \in Topics
                 /\ merged[c][i].data \in Payload /\ merged[c][i].data \in Nat
<1>1. merged[c] \in Seq([topic : Topics, data : Payload])
  BY DEF StreamIInv, StreamTypeOK
<1> DEFINE Event == [topic : Topics, data : Payload]
<1>2. merged[c] \in Seq(Event)
  BY <1>1
<1> HIDE DEF Event
<1>3. Len(merged[c]) \in Nat /\ \A i \in 1 .. Len(merged[c]) : merged[c][i] \in Event
  BY <1>2, ElementType
<1> USE DEF Event
<1>4. ASSUME NEW e \in Event PROVE e.topic \in Topics /\ e.data \in Payload /\ e.data \in Nat
  BY PayloadIsNat
<1> QED
  BY <1>1, <1>3, <1>4

LEMMA ForwardTakeKeeps ==
    ASSUME StreamIInv, NEW c \in Conns, NEW t \in Topics, ForwardTake(c, t)
    PROVE  \A d \in Conns : ConnInv(d)'
<1> DEFINE k == channels[c][t]
<1>1. /\ UNCHANGED <<of, chan, conn, asked, channels, at, held, merged, tab, delivered>>
      /\ Receive(k) /\ fwd[c][t] = "recv"
      /\ fwd' = [fwd EXCEPT ![c][t] = "send"] /\ hand' = [hand EXCEPT ![c][t] = Head(buf[k])]
  BY DEF ForwardTake, Receive, handler, browser
<1>2. t \in Mapped(c) /\ k \in Chans /\ got[k] \in Nat
  <2>1. t \in Mapped(c)
    BY <1>1 DEF StreamIInv, ConnInv, StageInv
  <2> QED
    BY <2>1, MappedFacts
<1>3. got'[k] = got[k] + 1 /\ got'[k] = Head(buf[k])
  BY <1>1, <1>2, ReceiveInv DEF Receive, StreamIInv, StreamTypeOK, TypeOK
<1>4. \A l \in Chans : l # k => got'[l] = got[l]
  BY <1>1, <1>2 DEF Receive, StreamIInv, StreamTypeOK, TypeOK
<1>5. /\ fwd'[c][t] = "send" /\ hand'[c][t] = got'[k]
      /\ \A u \in Topics : u # t => fwd'[c][u] = fwd[c][u] /\ hand'[c][u] = hand[c][u]
      /\ \A d \in Conns : d # c => fwd'[d] = fwd[d] /\ hand'[d] = hand[d]
  BY <1>1, <1>3 DEF StreamIInv, StreamTypeOK
<1> HIDE DEF k
<1>6. ASSUME NEW d \in Conns, NEW u \in Mapped(d), d # c \/ u # t
      PROVE  got'[channels[d][u]] = got[channels[d][u]]
  <2>1. channels[d][u] # k
    BY <1>2, <1>6, MappedApart DEF k
  <2> QED
    BY <2>1, <1>4, MappedFacts
<1>7. ASSUME NEW d \in Conns, d # c PROVE ConnInv(d)'
  BY <1>1, <1>5, <1>6, <1>7, ConnKept, MappedFacts
<1>8. ChannelInv(c)' /\ Mapped(c)' = Mapped(c)
  BY <1>1, ChannelKept, MappedFacts
<1>9. StageInv(c)'
  <2>1. StageInv(c)
    BY DEF StreamIInv, ConnInv
  <2>2. conn[c] \notin {"idle", "subscribing"}
    BY <1>1, <2>1 DEF StageInv
  <2> QED
    BY <1>1, <1>2, <1>3, <1>5, <1>8, <2>1, <2>2 DEF StageInv
<1>10. PathInv(c)'
  <2>1. PathInv(c)
    BY DEF StreamIInv, ConnInv
  <2>2. ASSUME NEW i \in 1 .. Len(merged[c])
        PROVE  /\ merged'[c][i].topic \in Mapped(c)
               /\ merged'[c][i].data <= got'[channels'[c][merged'[c][i].topic]]
               /\ tab' = c => delivered'[merged'[c][i].topic] <= merged'[c][i].data
    <3>1. /\ merged[c][i].topic \in Mapped(c)
          /\ merged[c][i].data <= got[channels[c][merged[c][i].topic]]
          /\ tab = c => delivered[merged[c][i].topic] <= merged[c][i].data
      BY <2>1 DEF PathInv
    <3>2. merged[c][i].data \in Nat
      BY MergedFacts
    <3>3. CASE merged[c][i].topic = t
      BY <1>1, <1>2, <1>3, <3>1, <3>2, <3>3 DEF k
    <3>4. CASE merged[c][i].topic # t
      BY <1>1, <1>6, <3>1, <3>4
    <3> QED
      BY <3>3, <3>4
  <2>3. ASSUME NEW u \in Mapped(c)
        PROVE  /\ fwd'[c][u] = "send" => hand'[c][u] = got'[channels'[c][u]]
               /\ tab' = c => delivered'[u] <= got'[channels'[c][u]] + 1
               /\ tab' = c /\ fwd'[c][u] = "send" => delivered'[u] <= hand'[c][u]
    <3>1. /\ u \in Topics /\ (fwd[c][u] = "send" => hand[c][u] = got[channels[c][u]])
          /\ tab = c => delivered[u] <= got[channels[c][u]] + 1
          /\ tab = c /\ fwd[c][u] = "send" => delivered[u] <= hand[c][u]
      BY <2>1, MappedFacts DEF PathInv
    <3>2. CASE u = t
      <4>1. tab = c => delivered[t] <= got'[k]
        BY <3>1, <3>2, <1>3 DEF k
      <4>2. delivered[t] \in Nat
        BY PayloadIsNat DEF StreamIInv, StreamTypeOK
      <4> QED
        BY <4>1, <4>2, <3>2, <1>1, <1>2, <1>3, <1>5 DEF k
    <3>3. CASE u # t
      BY <3>1, <3>3, <1>1, <1>5, <1>6
    <3> QED
      BY <3>2, <3>3
  <2>4. \A i, j \in 1 .. Len(merged'[c]) :
            i < j /\ merged'[c][i].topic = merged'[c][j].topic =>
                merged'[c][i].data <= merged'[c][j].data
    BY <1>1, <2>1 DEF PathInv
  <2> QED
    BY <1>1, <1>8, <2>2, <2>3, <2>4 DEF PathInv
<1>11. ReleaseInv(c)'
  BY <1>1, ReleaseKept DEF StreamIInv, ConnInv
<1> QED
  BY <1>7, <1>8, <1>9, <1>10, <1>11 DEF ConnInv

\* A forwarder that ends has nothing on its way.
LEMMA ForwardEndKeeps ==
    ASSUME StreamIInv, NEW c \in Conns, NEW t \in Topics,
           ForwardSeesClose(c, t) \/ ForwardStop(c, t)
    PROVE  \A d \in Conns : ConnInv(d)'
<1>1. /\ UNCHANGED <<brokerVars, conn, asked, channels, at, held, merged, tab, delivered>>
      /\ fwd' = [fwd EXCEPT ![c][t] = "done"] /\ fwd[c][t] # "none"
      /\ hand' = hand \/ hand' = [hand EXCEPT ![c][t] = 0]
  BY DEF ForwardSeesClose, ForwardStop, handler, browser
<1>2. /\ fwd'[c][t] = "done"
      /\ \A u \in Topics : u # t => fwd'[c][u] = fwd[c][u] /\ hand'[c][u] = hand[c][u]
      /\ \A d \in Conns : d # c => fwd'[d] = fwd[d] /\ hand'[d] = hand[d]
  BY <1>1 DEF StreamIInv, StreamTypeOK
<1>3. ASSUME NEW d \in Conns, d # c PROVE ConnInv(d)'
  BY <1>1, <1>2, <1>3, OthersKept
<1>4. ChannelInv(c)' /\ Mapped(c)' = Mapped(c)
  BY <1>1, ChannelKept, MappedFacts DEF brokerVars
<1>5. PathInv(c)'
  <2>1. \A u \in Mapped(c) : fwd'[c][u] = "send" => fwd[c][u] = "send" /\ hand'[c][u] = hand[c][u]
    BY <1>2, MappedFacts
  <2> QED
    BY <1>1, <2>1, PathKept DEF brokerVars
<1>6. StageInv(c)'
  <2>1. StageInv(c)
    BY DEF StreamIInv, ConnInv
  <2>2. conn[c] \notin {"idle", "subscribing"}
    BY <1>1, <2>1 DEF StageInv
  <2> QED
    BY <1>1, <1>2, <1>4, <2>1, <2>2 DEF StageInv
<1>7. ReleaseInv(c)'
  BY <1>1, ReleaseKept DEF StreamIInv, ConnInv, brokerVars
<1> QED
  BY <1>3, <1>4, <1>5, <1>6, <1>7 DEF ConnInv

LEMMA ForwardMergeKeeps ==
    ASSUME StreamIInv, NEW c \in Conns, NEW t \in Topics, ForwardMerge(c, t)
    PROVE  \A d \in Conns : ConnInv(d)'
<1> DEFINE Event == [topic : Topics, data : Payload]
           e == [topic |-> t, data |-> hand[c][t]]
           n == Len(merged[c])
<1>1. /\ UNCHANGED <<brokerVars, conn, asked, channels, at, held, tab, delivered>>
      /\ fwd' = [fwd EXCEPT ![c][t] = "recv"] /\ fwd[c][t] = "send"
      /\ hand' = [hand EXCEPT ![c][t] = 0]
      /\ merged' = [merged EXCEPT ![c] = Append(merged[c], e)]
  BY DEF ForwardMerge, handler, browser
<1>2. /\ fwd'[c][t] = "recv" /\ merged'[c] = Append(merged[c], e)
      /\ \A u \in Topics : u # t => fwd'[c][u] = fwd[c][u] /\ hand'[c][u] = hand[c][u]
      /\ \A d \in Conns : d # c => fwd'[d] = fwd[d] /\ hand'[d] = hand[d]
                                   /\ merged'[d] = merged[d]
  BY <1>1 DEF StreamIInv, StreamTypeOK
<1>3. ASSUME NEW d \in Conns, d # c PROVE ConnInv(d)'
  BY <1>1, <1>2, <1>3, OthersKept
<1>4. ChannelInv(c)' /\ Mapped(c)' = Mapped(c)
  BY <1>1, ChannelKept, MappedFacts DEF brokerVars
<1>5. StageInv(c) /\ PathInv(c)
  BY DEF StreamIInv, ConnInv
<1>6. t \in Mapped(c) /\ conn[c] \notin {"idle", "subscribing"}
  BY <1>1, <1>5 DEF StageInv
<1>7. StageInv(c)'
  BY <1>1, <1>2, <1>4, <1>5, <1>6 DEF StageInv
<1>8. /\ hand[c][t] = got[channels[c][t]] /\ got[channels[c][t]] \in Nat
      /\ tab = c => delivered[t] <= hand[c][t]
      /\ e \in Event
  <2>1. hand[c][t] = got[channels[c][t]] /\ (tab = c => delivered[t] <= hand[c][t])
    BY <1>1, <1>5, <1>6 DEF PathInv
  <2>2. got[channels[c][t]] \in Nat
    BY <1>6, MappedFacts
  <2>3. hand[c][t] \in Payload
    <3>1. hand[c][t] # 0
      BY <1>1, <1>5 DEF StageInv
    <3> QED
      BY <3>1 DEF StreamIInv, StreamTypeOK
  <2> QED
    BY <2>1, <2>2, <2>3
<1>9. /\ n \in Nat /\ Len(merged'[c]) = n + 1 /\ merged'[c][n + 1] = e
      /\ \A i \in 1 .. n : merged'[c][i] = merged[c][i]
  <2>1. merged[c] \in Seq(Event)
    BY MergedFacts
  <2> HIDE DEF Event, e
  <2> QED
    BY <2>1, <1>2, <1>8, AppendFacts
<1> HIDE DEF n
<1>10. PathInv(c)'
  <2>1. ASSUME NEW i \in 1 .. n
        PROVE  /\ merged[c][i].topic \in Mapped(c)
               /\ merged[c][i].data <= got[channels[c][merged[c][i].topic]]
               /\ tab = c => delivered[merged[c][i].topic] <= merged[c][i].data
    BY <1>5 DEF PathInv, n
  <2>2. ASSUME NEW i \in 1 .. n + 1
        PROVE  /\ merged'[c][i].topic \in Mapped(c)
               /\ merged'[c][i].data <= got'[channels'[c][merged'[c][i].topic]]
               /\ tab' = c => delivered'[merged'[c][i].topic] <= merged'[c][i].data
    <3>1. CASE i \in 1 .. n
      BY <3>1, <2>1, <1>1, <1>9 DEF brokerVars
    <3>2. CASE i = n + 1
      <4>1. merged'[c][i].topic = t /\ merged'[c][i].data = hand[c][t]
        BY <3>2, <1>9
      <4>2. hand[c][t] <= got[channels[c][t]]
        BY <1>8
      <4> QED
        BY <4>1, <4>2, <1>1, <1>6, <1>8 DEF brokerVars
    <3> QED
      BY <3>1, <3>2, <1>9
  <2>3. ASSUME NEW i \in 1 .. n + 1, NEW j \in 1 .. n + 1,
               i < j, merged'[c][i].topic = merged'[c][j].topic
        PROVE  merged'[c][i].data <= merged'[c][j].data
    <3>1. i \in 1 .. n /\ merged'[c][i] = merged[c][i]
      BY <2>3, <1>9
    <3>2. CASE j \in 1 .. n
      BY <3>1, <3>2, <2>3, <1>5, <1>9 DEF PathInv, n
    <3>3. CASE j = n + 1
      <4>1. merged[c][i].topic = t /\ merged'[c][j].data = hand[c][t]
        BY <2>3, <3>1, <3>3, <1>9
      <4> QED
        BY <4>1, <2>1, <3>1, <1>8
    <3> QED
      BY <3>2, <3>3, <1>9
  <2>4. ASSUME NEW u \in Mapped(c)
        PROVE  /\ fwd'[c][u] = "send" => hand'[c][u] = got'[channels'[c][u]]
               /\ tab' = c => delivered'[u] <= got'[channels'[c][u]] + 1
               /\ tab' = c /\ fwd'[c][u] = "send" => delivered'[u] <= hand'[c][u]
    <3>1. /\ u \in Topics /\ (fwd[c][u] = "send" => hand[c][u] = got[channels[c][u]])
          /\ tab = c => delivered[u] <= got[channels[c][u]] + 1
          /\ tab = c /\ fwd[c][u] = "send" => delivered[u] <= hand[c][u]
      BY <1>5, MappedFacts DEF PathInv
    <3> QED
      BY <3>1, <1>1, <1>2 DEF brokerVars
  <2>5. \A i, j \in 1 .. Len(merged'[c]) :
            i < j /\ merged'[c][i].topic = merged'[c][j].topic =>
                merged'[c][i].data <= merged'[c][j].data
    BY <2>3, <1>9
  <2> QED
    BY <1>4, <1>9, <2>2, <2>4, <2>5 DEF PathInv
<1>11. ReleaseInv(c)'
  BY <1>1, ReleaseKept DEF StreamIInv, ConnInv, brokerVars
<1> QED
  BY <1>3, <1>4, <1>7, <1>10, <1>11 DEF ConnInv

\* The tab gets an event that is no older than what it got before, and no newer
\* than anything of the same topic that follows.
LEMMA WriteKeeps ==
    ASSUME StreamIInv, NEW c \in Conns, Write(c)
    PROVE  /\ \A d \in Conns : ConnInv(d)'
           /\ \A t \in Topics : delivered'[t] >= delivered[t] /\ delivered'[t] <= count'[t]
           /\ delivered' \in [Topics -> Payload \cup {0}]
<1> DEFINE e == Head(merged[c])
           m == merged[c]
           n == Len(merged[c])
<1>1. /\ UNCHANGED <<brokerVars, conn, asked, channels, at, held, fwd, hand, tab>>
      /\ conn[c] = "streaming" /\ m # <<>>
      /\ merged' = [merged EXCEPT ![c] = Tail(m)]
      /\ delivered' = IF tab = c THEN [delivered EXCEPT ![e.topic] = e.data] ELSE delivered
  BY DEF Write, handler
<1>2. /\ n \in Nat /\ n >= 1 /\ e = m[1] /\ Tail(m) \in Seq([topic : Topics, data : Payload])
      /\ Len(Tail(m)) = n - 1 /\ \A i \in 1 .. n - 1 : Tail(m)[i] = m[i + 1]
  <2>1. m \in Seq([topic : Topics, data : Payload])
    BY MergedFacts
  <2> QED
    BY <2>1, <1>1, HeadTailType
<1>3. /\ merged'[c] = Tail(m) /\ \A d \in Conns : d # c => merged'[d] = merged[d]
  BY <1>1 DEF StreamIInv, StreamTypeOK
<1>4. \A i \in 1 .. n : m[i].topic \in Topics /\ m[i].data \in Nat /\ m[i].data \in Payload
  BY MergedFacts
<1>5. PathInv(c) /\ StageInv(c)
  BY DEF StreamIInv, ConnInv
<1> HIDE DEF m, n, e
<1>6. /\ e.topic \in Mapped(c) /\ e.topic \in Topics /\ e.data \in Nat /\ e.data \in Payload
      /\ e.data <= got[channels[c][e.topic]] /\ (tab = c => delivered[e.topic] <= e.data)
  <2>1. 1 \in 1 .. n
    BY <1>2
  <2> QED
    BY <2>1, <1>2, <1>4, <1>5 DEF PathInv, m, n
<1>7. \A t \in Topics : delivered[t] \in Nat /\ delivered'[t] \in Nat
      /\ (tab = c => delivered'[t] = IF t = e.topic THEN e.data ELSE delivered[t])
  <2>1. delivered \in [Topics -> Payload \cup {0}]
    BY DEF StreamIInv, StreamTypeOK
  <2> QED
    BY <2>1, <1>1, <1>6, PayloadIsNat
<1>8. ASSUME NEW d \in Conns, d # c PROVE ConnInv(d)'
  <2>1. tab' = d => tab = d /\ delivered' = delivered
    BY <1>1, <1>8
  <2> QED
    BY <1>1, <1>3, <1>8, <2>1, OthersKept
<1>9. ChannelInv(c)' /\ Mapped(c)' = Mapped(c)
  BY <1>1, ChannelKept, MappedFacts DEF brokerVars
<1>10. StageInv(c)'
  BY <1>1, <1>5, <1>9 DEF StageInv
<1>11. PathInv(c)'
  <2>1. ASSUME NEW i \in 1 .. n
        PROVE  /\ m[i].topic \in Mapped(c) /\ m[i].topic \in Topics /\ m[i].data \in Nat
               /\ m[i].data <= got[channels[c][m[i].topic]]
               /\ tab = c => delivered[m[i].topic] <= m[i].data
               /\ \A j \in 1 .. n : i < j /\ m[i].topic = m[j].topic => m[i].data <= m[j].data
    BY <1>4, <1>5 DEF PathInv, m, n
  <2>2. ASSUME NEW i \in 1 .. n - 1
        PROVE  /\ merged'[c][i].topic \in Mapped(c)
               /\ merged'[c][i].data <= got'[channels'[c][merged'[c][i].topic]]
               /\ tab' = c => delivered'[merged'[c][i].topic] <= merged'[c][i].data
    <3>1. i + 1 \in 1 .. n /\ merged'[c][i] = m[i + 1] /\ 1 \in 1 .. n /\ 1 < i + 1
      BY <1>2, <1>3
    <3>2. /\ m[i + 1].topic \in Mapped(c) /\ m[i + 1].topic \in Topics /\ m[i + 1].data \in Nat
          /\ m[i + 1].data <= got[channels[c][m[i + 1].topic]]
          /\ tab = c => delivered[m[i + 1].topic] <= m[i + 1].data
          /\ e.topic = m[i + 1].topic => e.data <= m[i + 1].data
      BY <2>1, <3>1, <1>2
    <3>3. tab = c => delivered'[m[i + 1].topic] <= m[i + 1].data
      BY <3>2, <1>7
    <3> QED
      BY <3>1, <3>2, <3>3, <1>1 DEF brokerVars
  <2>3. ASSUME NEW i \in 1 .. n - 1, NEW j \in 1 .. n - 1,
               i < j, merged'[c][i].topic = merged'[c][j].topic
        PROVE  merged'[c][i].data <= merged'[c][j].data
    <3>1. /\ i + 1 \in 1 .. n /\ merged'[c][i] = m[i + 1]
          /\ j + 1 \in 1 .. n /\ merged'[c][j] = m[j + 1] /\ i + 1 < j + 1
      BY <2>3, <1>2, <1>3
    <3> QED
      BY <2>1, <2>3, <3>1
  <2>4. ASSUME NEW u \in Mapped(c)
        PROVE  /\ fwd'[c][u] = "send" => hand'[c][u] = got'[channels'[c][u]]
               /\ tab' = c => delivered'[u] <= got'[channels'[c][u]] + 1
               /\ tab' = c /\ fwd'[c][u] = "send" => delivered'[u] <= hand'[c][u]
    <3>1. /\ u \in Topics /\ (fwd[c][u] = "send" => hand[c][u] = got[channels[c][u]])
          /\ tab = c => delivered[u] <= got[channels[c][u]] + 1
          /\ tab = c /\ fwd[c][u] = "send" => delivered[u] <= hand[c][u]
          /\ got[channels[c][u]] \in Nat
      BY <1>5, MappedFacts DEF PathInv
    <3>2. CASE tab = c /\ u = e.topic
      <4>1. delivered'[u] = e.data /\ e.data <= got[channels[c][u]]
        BY <3>1, <3>2, <1>6, <1>7
      <4>2. e.data <= got[channels[c][u]] + 1
        BY <4>1, <3>1, <1>6
      <4> QED
        BY <4>1, <4>2, <3>1, <1>1 DEF brokerVars
    <3>3. CASE tab = c /\ u # e.topic
      BY <3>1, <3>3, <1>1, <1>7 DEF brokerVars
    <3>4. CASE tab # c
      BY <3>1, <3>4, <1>1 DEF brokerVars
    <3> QED
      BY <3>2, <3>3, <3>4
  <2>5. Len(merged'[c]) = n - 1
    BY <1>2, <1>3
  <2>6. \A i, j \in 1 .. Len(merged'[c]) :
            i < j /\ merged'[c][i].topic = merged'[c][j].topic =>
                merged'[c][i].data <= merged'[c][j].data
    BY <2>3, <2>5
  <2> QED
    BY <1>9, <2>2, <2>4, <2>5, <2>6 DEF PathInv
<1>12. ReleaseInv(c)'
  BY <1>1, ReleaseKept DEF StreamIInv, ConnInv, brokerVars
<1>13. ASSUME NEW t \in Topics PROVE delivered'[t] >= delivered[t] /\ delivered'[t] <= count'[t]
  <2>1. delivered[t] <= count[t] /\ count[t] \in Nat /\ count' = count
    BY <1>1, BrokerNumbers DEF StreamIInv, PastInv, brokerVars
  <2>2. CASE tab = c /\ t = e.topic
    <3>1. got[channels[c][t]] <= count[t] /\ got[channels[c][t]] \in Nat
      BY <1>6, <2>2, MappedFacts
    <3> QED
      BY <3>1, <2>1, <2>2, <1>6, <1>7
  <2>3. CASE ~(tab = c /\ t = e.topic)
    BY <2>1, <2>3, <1>1, <1>7
  <2> QED
    BY <2>2, <2>3
<1>14. delivered' \in [Topics -> Payload \cup {0}]
  <2>1. delivered \in [Topics -> Payload \cup {0}]
    BY DEF StreamIInv, StreamTypeOK
  <2> QED
    BY <2>1, <1>1, <1>6
<1> QED
  BY <1>8, <1>9, <1>10, <1>11, <1>12, <1>13, <1>14 DEF ConnInv

\* Types, one group of steps after the other.
PlainTyped ==
    /\ conn \in [Conns -> {"idle", "subscribing", "streaming", "closing", "closed"}]
    /\ asked \in [Conns -> Requests \cup {<<>>}]
    /\ channels \in [Conns -> [Topics -> Chans \cup {NoChan}]]
    /\ at \in [Conns -> Places \cup {0}]
    /\ held \in [Conns -> SUBSET Topics]
    /\ fwd \in [Conns -> [Topics -> {"none", "recv", "send", "done"}]]
    /\ hand \in [Conns -> [Topics -> Payload \cup {0}]]
    /\ cancelled \in [Conns -> BOOLEAN]
    /\ tab \in Conns \cup {NoConn}
    /\ delivered \in [Topics -> Payload \cup {0}]
    /\ breaks \in 0 .. MaxBreaks
MergedTyped ==
    /\ merged \in [Conns -> Seq([topic : Topics, data : Payload])]
    /\ \A c \in Conns : Len(merged[c]) <= MergedCap

LEMMA TypedParts == StreamTypeOK <=> TypeOK /\ PlainTyped /\ MergedTyped
BY DEF StreamTypeOK, PlainTyped, MergedTyped

LEMMA TypedAfter ==
    ASSUME TypeOK', PlainTyped', MergedTyped'
    PROVE  StreamTypeOK'
<1>1. (TypeOK /\ PlainTyped /\ MergedTyped => StreamTypeOK)'
  BY TypedParts, PTL
<1> QED
  BY <1>1

LEMMA HandlerTypes ==
    ASSUME StreamIInv, TypeOK', NEW c \in Conns,
           \/ Connect(c) \/ ContextDone(c) \/ SubscribeNext(c) \/ StartForwarding(c)
           \/ (\E t \in Topics : UnsubscribeOne(c, t)) \/ Return(c) \/ Leave(c) \/ Recycle(c)
    PROVE  StreamTypeOK'
<1>t. PlainTyped /\ MergedTyped
  BY TypedParts DEF StreamIInv
<1>m. MergedTyped'
  <2>1. CASE merged' = merged
    BY <2>1, <1>t DEF MergedTyped
  <2>2. CASE merged' = [merged EXCEPT ![c] = <<>>]
    <3>1. /\ Len(<<>>) = 0 /\ 0 <= MergedCap
          /\ <<>> \in Seq([topic : Topics, data : Payload])
      BY MergedCapAssumption
    <3>2. merged' \in [Conns -> Seq([topic : Topics, data : Payload])]
      BY <2>2, <3>1, <1>t DEF MergedTyped
    <3>3. \A d \in Conns : Len(merged'[d]) <= MergedCap
      BY <2>2, <3>1, <1>t DEF MergedTyped
    <3> QED
      BY <3>2, <3>3 DEF MergedTyped
  <2> QED
    BY <2>1, <2>2 DEF Connect, ContextDone, SubscribeNext, StartForwarding, UnsubscribeOne,
       Return, Leave, Recycle, forwarders
<1> SUFFICES PlainTyped'
  BY <1>m, TypedAfter
<1>1. CASE Connect(c)
  <2>1. tab' = c /\ conn' = [conn EXCEPT ![c] = "subscribing"]
        /\ \E r \in Requests : asked' = [asked EXCEPT ![c] = r]
        /\ UNCHANGED <<channels, at, held, fwd, hand, cancelled, delivered, breaks>>
    BY <1>1 DEF Connect, forwarders
  <2> QED
    BY <2>1, <1>t DEF PlainTyped
<1>2. CASE ContextDone(c)
  BY <1>2, <1>t DEF ContextDone, PlainTyped, handler, browser
<1>3. CASE SubscribeNext(c)
  <2> DEFINE i == at[c] + 1
             t == asked[c][i]
  <2>1. i \in Places /\ t \in Topics /\ <<c, i>> \in Chans
    BY <1>3, NextPlace
  <2>2. /\ channels' = [channels EXCEPT ![c][t] = <<c, i>>] /\ at' = [at EXCEPT ![c] = i]
        /\ UNCHANGED <<conn, asked, held, forwarders, browser>>
    BY <1>3 DEF SubscribeNext
  <2> HIDE DEF i, t
  <2>3. /\ channels' \in [Conns -> [Topics -> Chans \cup {NoChan}]]
        /\ at' \in [Conns -> Places \cup {0}]
    BY <2>1, <2>2, <1>t DEF PlainTyped
  <2> QED
    BY <2>2, <2>3, <1>t DEF PlainTyped, forwarders, browser
<1>4. CASE StartForwarding(c)
  <2>1. /\ fwd' \in [Conns -> [Topics -> {"none", "recv", "send", "done"}]]
        /\ held' \in [Conns -> SUBSET Topics]
        /\ conn' \in [Conns -> {"idle", "subscribing", "streaming", "closing", "closed"}]
    BY <1>4, <1>t DEF StartForwarding, PlainTyped
  <2> QED
    BY <1>4, <2>1, <1>t DEF StartForwarding, PlainTyped, browser
<1>5. CASE \E t \in Topics : UnsubscribeOne(c, t)
  BY <1>5, <1>t DEF UnsubscribeOne, PlainTyped, forwarders, browser
<1>6. CASE Return(c) \/ Leave(c)
  BY <1>6, <1>t DEF Return, Leave, PlainTyped, forwarders, browser
<1>7. CASE Recycle(c)
  <2>1. /\ channels' \in [Conns -> [Topics -> Chans \cup {NoChan}]]
        /\ fwd' \in [Conns -> [Topics -> {"none", "recv", "send", "done"}]]
    BY <1>7, <1>t DEF Recycle, PlainTyped
  <2>2. /\ conn' \in [Conns -> {"idle", "subscribing", "streaming", "closing", "closed"}]
        /\ asked' \in [Conns -> Requests \cup {<<>>}]
        /\ at' \in [Conns -> Places \cup {0}] /\ cancelled' \in [Conns -> BOOLEAN]
    BY <1>7, <1>t DEF Recycle, PlainTyped
  <2>3. UNCHANGED <<held, hand, tab, delivered, breaks>>
    BY <1>7 DEF Recycle, browser
  <2> QED
    BY <2>1, <2>2, <2>3, <1>t DEF PlainTyped
<1> QED
  BY <1>1, <1>2, <1>3, <1>4, <1>5, <1>6, <1>7

LEMMA ForwardTypes ==
    ASSUME StreamIInv, TypeOK', NEW c \in Conns, NEW t \in Topics, Forward(c, t)
    PROVE  StreamTypeOK'
<1>t. PlainTyped /\ MergedTyped
  BY TypedParts DEF StreamIInv
<1>1. CASE ForwardTake(c, t)
  <2>1. channels[c][t] \in Chans /\ buf[channels[c][t]] # <<>>
    <3>1. t \in Mapped(c)
      BY <1>1 DEF ForwardTake, StreamIInv, ConnInv, StageInv
    <3> QED
      BY <1>1, <3>1, MappedFacts DEF ForwardTake, Receive
  <2>2. Head(buf[channels[c][t]]) \in Payload
    <3>1. buf[channels[c][t]] \in Seq(Payload)
      BY <2>1 DEF StreamIInv, BrokerIInv, TypeOK
    <3> QED
      BY <2>1, <3>1, HeadTailType
  <2>3. /\ hand' \in [Conns -> [Topics -> Payload \cup {0}]]
        /\ fwd' \in [Conns -> [Topics -> {"none", "recv", "send", "done"}]]
        /\ UNCHANGED <<handler, merged, cancelled, browser>>
    BY <1>1, <2>2, <1>t DEF ForwardTake, PlainTyped
  <2>4. PlainTyped'
    BY <2>3, <1>t DEF PlainTyped, handler, browser
  <2>5. MergedTyped'
    BY <2>3, <1>t DEF MergedTyped
  <2> QED
    BY <2>4, <2>5, TypedAfter
<1>2. CASE ForwardSeesClose(c, t) \/ ForwardStop(c, t)
  <2>1. /\ fwd' = [fwd EXCEPT ![c][t] = "done"] /\ UNCHANGED <<handler, merged, browser>>
        /\ hand' = hand \/ hand' = [hand EXCEPT ![c][t] = 0]
        /\ cancelled' = cancelled \/ cancelled' = [cancelled EXCEPT ![c] = TRUE]
    BY <1>2 DEF ForwardSeesClose, ForwardStop
  <2>2. /\ fwd' \in [Conns -> [Topics -> {"none", "recv", "send", "done"}]]
        /\ hand' \in [Conns -> [Topics -> Payload \cup {0}]]
    <3>1. [hand EXCEPT ![c][t] = 0] \in [Conns -> [Topics -> Payload \cup {0}]]
      BY <1>t DEF PlainTyped
    <3>2. fwd' \in [Conns -> [Topics -> {"none", "recv", "send", "done"}]]
      BY <2>1, <1>t DEF PlainTyped
    <3>3. hand \in [Conns -> [Topics -> Payload \cup {0}]]
      BY <1>t DEF PlainTyped
    <3> HIDE DEF PlainTyped
    <3> QED
      BY <2>1, <3>1, <3>2, <3>3
  <2>3. cancelled' \in [Conns -> BOOLEAN]
    BY <2>1, <1>t DEF PlainTyped
  <2>4. PlainTyped'
    BY <2>1, <2>2, <2>3, <1>t DEF PlainTyped, handler, browser
  <2>5. MergedTyped'
    BY <2>1, <1>t DEF MergedTyped
  <2> QED
    BY <2>4, <2>5, TypedAfter
<1>3. CASE ForwardMerge(c, t)
  <2> DEFINE Event == [topic : Topics, data : Payload]
             e == [topic |-> t, data |-> hand[c][t]]
  <2>1. /\ merged' = [merged EXCEPT ![c] = Append(merged[c], e)] /\ Len(merged[c]) < MergedCap
        /\ hand' = [hand EXCEPT ![c][t] = 0] /\ fwd' = [fwd EXCEPT ![c][t] = "recv"]
        /\ fwd[c][t] = "send" /\ UNCHANGED <<handler, cancelled, browser>>
    BY <1>3 DEF ForwardMerge
  <2>2. hand[c][t] \in Payload
    BY <2>1, <1>t DEF StreamIInv, ConnInv, StageInv, PlainTyped
  <2>3. merged \in [Conns -> Seq(Event)] /\ e \in Event /\ merged[c] \in Seq(Event)
    BY <2>2, <1>t DEF MergedTyped
  <2> HIDE DEF Event, e
  <2>4. Append(merged[c], e) \in Seq(Event) /\ Len(Append(merged[c], e)) <= MergedCap
    BY <2>1, <2>3, AppendFacts, MergedCapAssumption
  <2>5. /\ merged' \in [Conns -> Seq(Event)] /\ \A d \in Conns : Len(merged'[d]) <= MergedCap
    BY <2>1, <2>3, <2>4, <1>t DEF MergedTyped
  <2>6. /\ hand' \in [Conns -> [Topics -> Payload \cup {0}]]
        /\ fwd' \in [Conns -> [Topics -> {"none", "recv", "send", "done"}]]
    BY <2>1, <1>t DEF PlainTyped
  <2>7. PlainTyped'
    BY <2>1, <2>6, <1>t DEF PlainTyped, handler, browser
  <2>8. MergedTyped'
    BY <2>5 DEF MergedTyped, Event
  <2> QED
    BY <2>7, <2>8, TypedAfter
<1> QED
  BY <1>1, <1>2, <1>3 DEF Forward

LEMMA WriteTypes ==
    ASSUME StreamIInv, TypeOK', NEW c \in Conns, Write(c)
    PROVE  StreamTypeOK'
<1>t. PlainTyped /\ MergedTyped
  BY TypedParts DEF StreamIInv
<1> DEFINE Event == [topic : Topics, data : Payload]
<1>1. /\ merged' = [merged EXCEPT ![c] = Tail(merged[c])] /\ merged[c] # <<>>
      /\ UNCHANGED <<handler, fwd, hand, cancelled, tab, breaks>>
  BY DEF Write
<1>2. delivered' \in [Topics -> Payload \cup {0}]
  BY WriteKeeps
<1>3. merged \in [Conns -> Seq(Event)] /\ merged[c] \in Seq(Event) /\ Len(merged[c]) <= MergedCap
  BY <1>t DEF MergedTyped
<1> HIDE DEF Event
<1>4. /\ Tail(merged[c]) \in Seq(Event) /\ Len(Tail(merged[c])) = Len(merged[c]) - 1
      /\ Len(merged[c]) \in Nat
  BY <1>1, <1>3, HeadTailType
<1>5. Len(Tail(merged[c])) <= MergedCap
  BY <1>3, <1>4, MergedCapAssumption
<1>6. merged' \in [Conns -> Seq(Event)] /\ \A d \in Conns : Len(merged'[d]) <= MergedCap
  BY <1>1, <1>3, <1>4, <1>5, <1>t DEF MergedTyped
<1>7. PlainTyped'
  BY <1>1, <1>2, <1>t DEF PlainTyped, handler
<1>8. MergedTyped'
  BY <1>6 DEF MergedTyped, Event
<1> QED
  BY <1>7, <1>8, TypedAfter

LEMMA QuietTypes ==
    ASSUME StreamIInv, TypeOK', Announce \/ SeeEnd \/ Break \/ UNCHANGED vars
    PROVE  StreamTypeOK'
<1>t. PlainTyped /\ MergedTyped
  BY TypedParts DEF StreamIInv
<1>1. UNCHANGED <<handler, forwarders, delivered>>
  BY DEF Announce, SeeEnd, Break, vars, browser
<1>2. MergedTyped'
  BY <1>1, <1>t DEF MergedTyped, forwarders
<1>3. tab' \in Conns \cup {NoConn} /\ breaks' \in 0 .. MaxBreaks
  <2>1. tab \in Conns \cup {NoConn} /\ breaks \in 0 .. MaxBreaks
    BY <1>t DEF PlainTyped
  <2> QED
    BY <2>1, MaxBreaksAssumption DEF Announce, SeeEnd, Break, vars, browser
<1>4. PlainTyped'
  BY <1>1, <1>3, <1>t DEF PlainTyped, handler, forwarders
<1> QED
  BY <1>2, <1>4, TypedAfter

LEMMA StreamInitInv == Init => StreamIInv
<1> SUFFICES ASSUME Init PROVE StreamIInv
  OBVIOUS
<1>1. BrokerIInv /\ BrokerInit
  BY InitInv DEF Init
<1>2. StreamTypeOK
  <2>1. <<>> \in Seq([topic : Topics, data : Payload]) /\ Len(<<>>) = 0 /\ 0 <= MergedCap
    BY MergedCapAssumption
  <2>2. /\ merged \in [Conns -> Seq([topic : Topics, data : Payload])]
        /\ \A c \in Conns : Len(merged[c]) <= MergedCap
    BY <2>1 DEF Init
  <2>3. breaks \in 0 .. MaxBreaks
    BY MaxBreaksAssumption DEF Init
  <2> QED
    BY <1>1, <2>2, <2>3 DEF BrokerIInv, Init, StreamTypeOK
<1>3. PastInv
  BY <1>1 DEF Init, BrokerInit, PastInv, BrokerIInv, TypeOK
<1>4. ASSUME NEW c \in Conns PROVE ConnInv(c)
  <2>1. Mapped(c) = {} /\ merged[c] = <<>> /\ asked[c] = <<>> /\ Len(<<>>) = 0
    BY DEF Init, Mapped
  <2>2. StageInv(c) /\ ChannelInv(c) /\ PathInv(c)
    BY <2>1 DEF Init, StageInv, ChannelInv, PathInv
  <2>3. ReleaseInv(c)
    BY <1>1, ChansAssumption DEF BrokerInit, ReleaseInv
  <2> QED
    BY <2>2, <2>3 DEF ConnInv
<1> QED
  BY <1>1, <1>2, <1>3, <1>4 DEF StreamIInv

\* Whoever takes a step: the broker keeps its invariant, the types hold, nobody
\* is ahead of what was published, and each connection is as it should be.
LEMMA StreamNextInv ==
    StreamIInv /\ [Next]_vars => StreamIInv' /\ \A t \in Topics : delivered'[t] >= delivered[t]
<1> SUFFICES ASSUME StreamIInv, [Next]_vars
             PROVE  StreamIInv' /\ \A t \in Topics : delivered'[t] >= delivered[t]
  OBVIOUS
<1>1. [BrokerNext]_brokerVars /\ BrokerIInv'
  BY StreamStepIsBrokerStep, BrokerNextInv DEF StreamIInv
<1>2. /\ \A t \in Topics : count[t] <= count'[t]
      /\ \A k \in Chans : got'[k] + Len(buf'[k]) <= count'[of'[k]]
  BY <1>1, BrokerPast DEF StreamIInv, PastInv
<1>3. StreamTypeOK'
  BY <1>1, HandlerTypes, ForwardTypes, WriteTypes, QuietTypes
  DEF BrokerIInv, Next, Handle
<1>4. \A d \in Conns : ConnInv(d)'
  BY AnnounceKeeps, BrowserSteps, ConnectKeeps, SubscribeNextKeeps, StartForwardingKeeps,
     WriteKeeps, UnsubscribeOneKeeps, ReturnKeeps, LeaveKeeps, RecycleKeeps, ForwardTakeKeeps,
     ForwardEndKeeps, ForwardMergeKeeps
  DEF Next, Handle, Forward
<1>5. (\E c \in Conns : Write(c)) \/ delivered' = delivered
  <2>1. ASSUME NEW c \in Conns,
               \/ Connect(c) \/ ContextDone(c) \/ SubscribeNext(c) \/ StartForwarding(c)
               \/ (\E t \in Topics : UnsubscribeOne(c, t)) \/ Return(c) \/ Leave(c) \/ Recycle(c)
        PROVE  delivered' = delivered
    BY <2>1 DEF Connect, ContextDone, SubscribeNext, StartForwarding, UnsubscribeOne, Return,
       Leave, Recycle, browser
  <2>2. ASSUME NEW c \in Conns, NEW t \in Topics, Forward(c, t) PROVE delivered' = delivered
    BY <2>2 DEF Forward, ForwardTake, ForwardSeesClose, ForwardMerge, ForwardStop, browser
  <2>3. CASE Announce \/ SeeEnd \/ Break \/ UNCHANGED vars
    BY <2>3 DEF Announce, SeeEnd, Break, vars, browser
  <2> QED
    BY <2>1, <2>2, <2>3 DEF Next, Handle
<1>6. \A t \in Topics : delivered'[t] >= delivered[t] /\ delivered'[t] <= count'[t]
  <2>1. CASE \E c \in Conns : Write(c)
    BY <2>1, WriteKeeps
  <2>2. CASE delivered' = delivered
    <3>1. ASSUME NEW t \in Topics
          PROVE  /\ delivered[t] \in Nat /\ count[t] \in Nat /\ count'[t] \in Nat
                 /\ delivered[t] <= count[t]
      <4>1. count'[t] \in Payload \cup {0} /\ delivered[t] \in Payload \cup {0}
        BY <1>1 DEF BrokerIInv, TypeOK, StreamIInv, StreamTypeOK
      <4> QED
        BY <4>1, PayloadIsNat, BrokerNumbers DEF StreamIInv, PastInv
    <3> QED
      BY <2>2, <3>1, <1>2
  <2> QED
    BY <1>5, <2>1, <2>2
<1>7. PastInv'
  BY <1>2, <1>6 DEF PastInv
<1> QED
  BY <1>1, <1>3, <1>4, <1>6, <1>7 DEF StreamIInv

\* Channels, forwarders, the merged events, the map of the handler and what was
\* delivered to the tab fit together, whatever the clients ask for and however
\* they leave (getEvents).
THEOREM StreamInvariant == Spec => []StreamIInv
BY StreamInitInv, StreamNextInv, PTL DEF Spec

\* The connections use the broker as any callers may.
LEMMA StreamUsesBroker == Spec => BrokerSpec
<1>1. Init => BrokerInit
  BY DEF Init
<1>2. StreamIInv /\ [Next]_vars => [BrokerNext]_brokerVars
  BY StreamStepIsBrokerStep
<1> QED
  BY <1>1, <1>2, StreamInvariant, PTL DEF Spec, BrokerSpec

\* Their subscriptions miss nothing and repeat nothing (Subscribe, publishLocked).
THEOREM StreamsMissNothing == Spec => []Gapless
BY StreamUsesBroker, SubscribersMissNothing, PTL

\* Seen by the connections the broker is the log of TopicLog.
THEOREM StreamImplementsLog == Spec => ImplementsLog
BY StreamUsesBroker, BrokerImplementsLog, PTL

\* No stream of a tab delivers a payload of a topic that is older than one
\* delivered before, across drops, breaks and new connections, for any requests
\* (getEvents, Subscribe).
THEOREM StreamDeliversInOrder == Spec => StreamNeverGoesBack
<1>1. StreamIInv /\ [Next]_vars => [\A t \in Topics : delivered'[t] >= delivered[t]]_vars
  BY StreamNextInv
<1> QED
  BY <1>1, StreamInvariant, PTL DEF Spec, StreamNeverGoesBack

\* A handler that has returned leaves the last channel of no topic registered,
\* whatever was asked for and whatever ended the connection (getEvents; a second
\* subscription to a topic replaces the first in its map, which then stays).
THEOREM HandlersRelease == Spec => []ReturnedIsReleased
<1>1. StreamIInv => ReturnedIsReleased
  <2> SUFFICES ASSUME StreamIInv, NEW c \in Conns, NEW i \in Places, NEW t \in Topics,
                      conn[c] = "closed", LastPlace(c, i), <<c, i>> \in subs[t]
               PROVE  FALSE
    BY DEF ReturnedIsReleased
  <2>1. <<c, i>> \in Chans
    BY ChansAssumption
  <2>2. chan[<<c, i>>] = "open"
    BY <2>1 DEF StreamIInv, BrokerIInv, RegisteredIsOpen
  <2> QED
    BY <2>2 DEF StreamIInv, ConnInv, ReleaseInv
<1> QED
  BY <1>1, StreamInvariant, PTL
=============================================================================

------------------------------ MODULE TopicLog ------------------------------
(***************************************************************************)
(* What the broker promises a reader of a topic, without buffers: topics   *)
(* are logs of numbered items, a reader begins at the present of its topic *)
(* and takes every item after that in order, until it leaves or, if it is  *)
(* Lag items behind, is cut off.  What was in the log when it was cut off  *)
(* it may still take.                                                      *)
(***************************************************************************)
EXTENDS Naturals

CONSTANTS
    Topics,
    Transient,   \* topics of which a new reader gets no past item
    Readers,
    Lag          \* a reader less than this behind is not cut off

VARIABLES
    length,   \* items announced on each topic so far
    topic,    \* what each reader reads
    state,    \* "new", "open" or "closed"
    taken,    \* the number of the last item each reader took or skipped
    stop      \* a closed reader takes nothing after this item; 0 while open

vars == <<length, topic, state, taken, stop>>

Init ==
    /\ length = [t \in Topics |-> 0]
    /\ state = [r \in Readers |-> "new"]
    /\ taken = [r \in Readers |-> 0]
    /\ stop = [r \in Readers |-> 0]
    /\ topic \in [Readers -> Topics]

\* The number after which a reader that attaches now begins.
Present(t) == IF t \in Transient \/ length[t] = 0 THEN length[t] ELSE length[t] - 1

Behind(r) == length[topic[r]] - taken[r]

Attach(t, r) ==
    /\ state[r] # "open"
    /\ state' = [state EXCEPT ![r] = "open"]
    /\ topic' = [topic EXCEPT ![r] = t]
    /\ taken' = [taken EXCEPT ![r] = Present(t)]
    /\ stop' = [stop EXCEPT ![r] = 0]
    /\ UNCHANGED length

\* Announcing never waits for a reader; some that are far behind are cut off.
Announce(t) ==
    /\ length' = [length EXCEPT ![t] = @ + 1]
    /\ \E cut \in SUBSET {r \in Readers : state[r] = "open" /\ topic[r] = t
                                            /\ Behind(r) >= Lag} :
          /\ state' = [r \in Readers |-> IF r \in cut THEN "closed" ELSE state[r]]
          /\ stop' = [r \in Readers |-> IF r \in cut THEN length[t] ELSE stop[r]]
    /\ UNCHANGED <<topic, taken>>

Take(r) ==
    /\ state[r] # "new"
    /\ taken[r] < IF state[r] = "open" THEN length[topic[r]] ELSE stop[r]
    /\ taken' = [taken EXCEPT ![r] = @ + 1]
    /\ UNCHANGED <<length, topic, state, stop>>

Detach(r) ==
    /\ state[r] = "open"
    /\ state' = [state EXCEPT ![r] = "closed"]
    /\ stop' = [stop EXCEPT ![r] = length[topic[r]]]
    /\ UNCHANGED <<length, topic, taken>>

Next ==
    \/ \E t \in Topics : Announce(t) \/ \E r \in Readers : Attach(t, r)
    \/ \E r \in Readers : Take(r) \/ Detach(r)

Spec == Init /\ [][Next]_vars
=============================================================================

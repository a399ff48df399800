------------------------ MODULE HandlerRoutingProofs ------------------------
(***************************************************************************)
(* Proofs about HandlerRouting for any brokers, keys, points and times.    *)
(* The invariant is the type invariant with RingHoldsTheLive: the ring is  *)
(* determined by the set of live brokers.  From it follows that a metatile *)
(* moves only when it has to.  For the heartbeats PunctualAreHeard joins   *)
(* it: how many of a broker's heartbeats were dropped in a row, against    *)
(* when the subscriptions are renewed next.                                *)
(***************************************************************************)
EXTENDS HandlerRouting, LeastElement

RoutingInv == RoutingTypeOK /\ RingHoldsTheLive

PointsOf(S) == UNION {Points[b] : b \in S}

\* The brokers marked live after an update are those whose heartbeat is young.
LEMMA UpdatedLive ==
  ASSUME RoutingTypeOK, UpdateLiveBrokers
  PROVE  Live' = Beating /\ Beating \subseteq Brokers /\ Live \subseteq Brokers
BY DEF RoutingTypeOK, UpdateLiveBrokers, Live, Beating

\* An update leaves the ring with the points of the live brokers.
LEMMA UpdateKeepsRing ==
  ASSUME RoutingInv, UpdateLiveBrokers
  PROVE  RingHoldsTheLive'
<1> DEFINE L == Live
           B == Beating
           e == erase(ring, L \ B)
<1>1. Live' = B /\ B \subseteq Brokers /\ L \subseteq Brokers
  BY UpdatedLive DEF RoutingInv
<1>2. ring' = insert(e, B \ L)
  BY DEF UpdateLiveBrokers
<1>3. DOMAIN ring = PointsOf(L) /\ \A p \in DOMAIN ring : p \in Points[ring[p]]
  BY DEF RoutingInv, RingHoldsTheLive, PointsOf
<1>4. \A p \in DOMAIN ring : ring[p] \in Brokers
  BY DEF RoutingInv, RoutingTypeOK
<1> HIDE DEF L, B
<1>5. /\ DOMAIN e = PointsOf(L) \ PointsOf(L \ B)
      /\ \A p \in DOMAIN e : e[p] = ring[p] /\ p \in DOMAIN ring
  BY <1>3 DEF erase, PointsOf
<1> HIDE DEF e
<1>6. DOMAIN e = PointsOf(L \cap B)
  <2>1. ASSUME NEW p \in DOMAIN e PROVE p \in PointsOf(L \cap B)
    BY <1>5 DEF PointsOf
  <2>2. ASSUME NEW p \in PointsOf(L \cap B) PROVE p \in DOMAIN e
    <3>1. PICK b \in L \cap B : p \in Points[b]
      BY DEF PointsOf
    <3>2. ASSUME NEW c \in L \ B, p \in Points[c] PROVE FALSE
      <4>1. p \in Points[b] \cap Points[c] /\ b \in Brokers /\ c \in Brokers
        BY <1>1, <3>1, <3>2
      <4> QED BY <4>1, NoCollision
    <3> QED BY <1>5, <3>1, <3>2 DEF PointsOf
  <2> QED BY <2>1, <2>2
<1>7. DOMAIN ring' = DOMAIN e \cup PointsOf(B \ L)
  BY <1>2 DEF insert, PointsOf
<1>8. DOMAIN ring' = PointsOf(B)
  BY <1>6, <1>7 DEF PointsOf
<1>9. ASSUME NEW p \in DOMAIN ring' PROVE p \in Points[ring'[p]]
  <2>1. CASE p \in DOMAIN e
    <3>1. ring'[p] = e[p]
      BY <1>2, <1>7, <2>1 DEF insert, PointsOf
    <3> QED BY <1>3, <1>5, <2>1, <3>1
  <2>2. CASE p \notin DOMAIN e
    <3>1. \E b \in B \ L : p \in Points[b]
      BY <1>7, <1>9, <2>2 DEF PointsOf
    <3>2. ring'[p] = CHOOSE b \in B \ L : p \in Points[b]
      BY <1>2, <1>7, <1>9, <2>2 DEF insert, PointsOf
    <3> QED BY <3>1, <3>2
  <2> QED BY <2>1, <2>2
<1> QED BY <1>1, <1>8, <1>9 DEF RingHoldsTheLive, PointsOf

\* While no broker is marked or unmarked, and the ring stays, nothing changes.
LEMMA SameLive ==
  ASSUME RoutingInv, Live' = Live, ring' = ring
  PROVE  RingHoldsTheLive'
BY DEF RoutingInv, RingHoldsTheLive

\* The constructor starts with an empty ring and no live broker.
LEMMA RoutingInitInv ==
  RoutingInit => RoutingInv
<1> SUFFICES ASSUME RoutingInit PROVE RoutingInv
  OBVIOUS
<1>1. Live = {} /\ DOMAIN ring = {}
  BY DEF RoutingInit, Live
<1>2. RingHoldsTheLive
  BY <1>1 DEF RingHoldsTheLive
<1>3. RoutingTypeOK
  BY <1>1, RoutingAssumption DEF RoutingInit, RoutingTypeOK, Unset
<1> QED BY <1>2, <1>3 DEF RoutingInv

\* Sending a job updates the live brokers, and the ring with them.
LEMMA SendInv ==
  ASSUME RoutingInv, Send
  PROVE  RoutingInv'
<1>1. RingHoldsTheLive'
  BY UpdateKeepsRing DEF Send
<1>2. Live' \subseteq Brokers
  BY UpdatedLive DEF RoutingInv, Send
<1>3. heartbeats' \in [Brokers -> [age : 0 .. liveness_time, queue_size : QueueSizes \cup {0},
                                   is_live : BOOLEAN]]
  <2> DEFINE beats(b) == b \in Beating
  <2>1. heartbeats' = [b \in Brokers |-> [heartbeats[b] EXCEPT !.is_live = beats(b)]]
    BY DEF Send, UpdateLiveBrokers
  <2>2. ASSUME NEW b PROVE beats(b) \in BOOLEAN
    <3>1. beats(b) = TRUE \/ beats(b) = FALSE
      OBVIOUS
    <3> QED BY <3>1
  <2> DEFINE Marks == BOOLEAN
  <2>3. /\ heartbeats \in [Brokers -> [age : 0 .. liveness_time,
                                       queue_size : QueueSizes \cup {0}, is_live : Marks]]
        /\ \A b : beats(b) \in Marks
    BY <2>2 DEF RoutingInv, RoutingTypeOK
  <2> HIDE DEF beats, Marks
  <2>4. heartbeats' \in [Brokers -> [age : 0 .. liveness_time,
                                     queue_size : QueueSizes \cup {0}, is_live : Marks]]
    BY <2>1, <2>3
  <2> QED BY <2>4 DEF Marks
<1>4. DOMAIN ring' \subseteq UNION {Points[b] : b \in Brokers}
  BY <1>1, <1>2 DEF RingHoldsTheLive
<1>5. \A p \in DOMAIN ring' : ring'[p] \in Brokers
  <2>1. Beating \subseteq Brokers
    BY DEF RoutingInv, RoutingTypeOK, Beating
  <2>2. \A p \in DOMAIN ring : ring[p] \in Brokers
    BY DEF RoutingInv, RoutingTypeOK
  <2> DEFINE e == erase(ring, Live \ Beating)
             S == Beating \ Live
  <2>3. ring' = insert(e, S)
    BY DEF Send, UpdateLiveBrokers
  <2>4. \A p \in DOMAIN e : e[p] \in Brokers
    BY <2>2 DEF erase
  <2>5. S \subseteq Brokers
    BY <2>1
  <2> HIDE DEF e, S
  <2>6. DOMAIN ring' = DOMAIN e \cup PointsOf(S)
    BY <2>3 DEF insert, PointsOf
  <2>7. ASSUME NEW p \in DOMAIN ring' PROVE ring'[p] \in Brokers
    <3>1. CASE p \in DOMAIN e
      BY <2>3, <2>4, <2>6, <3>1 DEF insert, PointsOf
    <3>2. CASE p \notin DOMAIN e
      <4>1. \E b \in S : p \in Points[b]
        BY <2>6, <2>7, <3>2 DEF PointsOf
      <4>2. ring'[p] = CHOOSE b \in S : p \in Points[b]
        BY <2>3, <2>6, <2>7, <3>2 DEF insert, PointsOf
      <4> QED BY <2>5, <4>1, <4>2
    <3> QED BY <3>1, <3>2
  <2> QED BY <2>7
<1>6. m_settle_time' \in Unset .. SettleTime
  BY RoutingAssumption DEF Send, settle_check, Unset
<1>7. /\ m_next_sub_reconnect' \in -m_sub_reconnect_interval .. m_sub_reconnect_interval
      /\ broker_sub' \in Seq([broker : Brokers, queue_size : QueueSizes])
  <2> DEFINE Msg == [broker : Brokers, queue_size : QueueSizes]
  <2>1. /\ broker_sub \in Seq(Msg)
        /\ m_next_sub_reconnect \in -m_sub_reconnect_interval .. m_sub_reconnect_interval
    BY DEF RoutingInv, RoutingTypeOK
  <2> HIDE DEF Msg
  <2>2. broker_sub' \in {broker_sub, <<>>}
    BY DEF Send, UpdateLiveBrokers, resubscribe
  <2>3. broker_sub' \in Seq(Msg)
    <3>1. <<>> \in Seq(Msg)
      OBVIOUS
    <3> QED BY <2>1, <2>2, <3>1
  <2>4. m_next_sub_reconnect' \in -m_sub_reconnect_interval .. m_sub_reconnect_interval
    BY <2>1, RoutingAssumption DEF Send, UpdateLiveBrokers
  <2> QED BY <2>3, <2>4 DEF Msg
<1>8. RoutingTypeOK'
  BY <1>3, <1>4, <1>5, <1>6, <1>7 DEF RoutingInv, RoutingTypeOK, Send
<1> QED BY <1>1, <1>8 DEF RoutingInv

\* Reading a heartbeat touches neither marks nor ring.
LEMMA ReadHeartbeatInv ==
  ASSUME RoutingInv, ReadHeartbeat
  PROVE  RoutingInv'
<1> DEFINE hb == Head(broker_sub)
<1>1. /\ hb \in [broker : Brokers, queue_size : QueueSizes]
      /\ broker_sub' \in Seq([broker : Brokers, queue_size : QueueSizes])
  <2> DEFINE Msg == [broker : Brokers, queue_size : QueueSizes]
  <2>1. broker_sub \in Seq(Msg) /\ broker_sub # <<>>
    BY DEF RoutingInv, RoutingTypeOK, ReadHeartbeat
  <2> HIDE DEF Msg
  <2>2. hb \in Msg /\ broker_sub' \in Seq(Msg)
    BY <2>1 DEF ReadHeartbeat
  <2> QED BY <2>2 DEF Msg
<1>2. /\ hb.broker \in Brokers /\ hb.queue_size \in QueueSizes
      /\ known' = known \cup {hb.broker}
      /\ heartbeats' = [heartbeats EXCEPT ![hb.broker].age = 0,
                                          ![hb.broker].queue_size = hb.queue_size]
  BY <1>1 DEF ReadHeartbeat
<1> HIDE DEF hb
<1>3. heartbeats' \in [Brokers -> [age : 0 .. liveness_time, queue_size : QueueSizes \cup {0},
                                   is_live : BOOLEAN]]
  <2> DEFINE Marks == BOOLEAN
  <2>1. heartbeats \in [Brokers -> [age : 0 .. liveness_time,
                                    queue_size : QueueSizes \cup {0}, is_live : Marks]]
    BY DEF RoutingInv, RoutingTypeOK
  <2> HIDE DEF Marks
  <2>2. heartbeats' \in [Brokers -> [age : 0 .. liveness_time,
                                     queue_size : QueueSizes \cup {0}, is_live : Marks]]
    BY <1>2, <2>1, RoutingAssumption
  <2> QED BY <2>2 DEF Marks
<1>4. Live' = Live
  BY <1>2 DEF RoutingInv, RoutingTypeOK, Live
<1>5. RoutingTypeOK'
  BY <1>1, <1>2, <1>3 DEF RoutingInv, RoutingTypeOK, ReadHeartbeat
<1>6. RingHoldsTheLive'
  BY <1>4, SameLive DEF ReadHeartbeat
<1> QED BY <1>5, <1>6 DEF RoutingInv

\* Nor does the passing of time.
LEMMA TickInv ==
  ASSUME RoutingInv, Tick
  PROVE  RoutingInv'
<1>1. heartbeats' \in [Brokers -> [age : 0 .. liveness_time, queue_size : QueueSizes \cup {0},
                                   is_live : BOOLEAN]]
  <2> DEFINE Marks == BOOLEAN
  <2>1. heartbeats \in [Brokers -> [age : 0 .. liveness_time,
                                    queue_size : QueueSizes \cup {0}, is_live : Marks]]
    BY DEF RoutingInv, RoutingTypeOK
  <2> HIDE DEF Marks
  <2>2. heartbeats' \in [Brokers -> [age : 0 .. liveness_time,
                                     queue_size : QueueSizes \cup {0}, is_live : Marks]]
    <3> DEFINE older(b) == IF heartbeats[b].age < liveness_time
                           THEN heartbeats[b].age + 1 ELSE heartbeats[b].age
    <3>1. \A b \in Brokers : older(b) \in 0 .. liveness_time
      BY <2>1, RoutingAssumption
    <3>2. heartbeats' = [b \in Brokers |-> [heartbeats[b] EXCEPT !.age = older(b)]]
      BY <2>1 DEF Tick
    <3> HIDE DEF older
    <3> QED BY <2>1, <3>1, <3>2
  <2> QED BY <2>2 DEF Marks
<1>2. Live' = Live
  BY DEF RoutingInv, RoutingTypeOK, Tick, Live
<1>3. quiet' \in [Brokers -> 0 .. heartbeat_time]
  BY RoutingAssumption DEF RoutingInv, RoutingTypeOK, Tick
<1>4. /\ m_settle_time' \in Unset .. SettleTime
      /\ m_next_sub_reconnect' \in -m_sub_reconnect_interval .. m_sub_reconnect_interval
  BY RoutingAssumption DEF RoutingInv, RoutingTypeOK, Tick, Unset, Settling
<1>5. RoutingTypeOK'
  BY <1>1, <1>3, <1>4 DEF RoutingInv, RoutingTypeOK, Tick
<1>6. RingHoldsTheLive'
  BY <1>2, SameLive DEF Tick
<1> QED BY <1>5, <1>6 DEF RoutingInv

\* Nor what the brokers do on their side.
LEMMA BrokerStepInv ==
  ASSUME RoutingInv, NEW b \in Brokers, Publish(b) \/ Die(b) \/ Start(b)
  PROVE  RoutingInv'
<1>1. heartbeats' = heartbeats /\ ring' = ring
  BY DEF Publish, Die, Start
<1>2. Live' = Live
  BY <1>1 DEF Live
<1>3. RingHoldsTheLive'
  BY <1>1, <1>2, SameLive
<1>4. CASE Publish(b)
  <2>1. PICK size \in QueueSizes :
          broker_sub' = Append(broker_sub, [broker |-> b, queue_size |-> size])
    BY <1>4 DEF Publish
  <2>2. broker_sub' \in Seq([broker : Brokers, queue_size : QueueSizes])
    BY <2>1 DEF RoutingInv, RoutingTypeOK
  <2>3. quiet' \in [Brokers -> 0 .. heartbeat_time]
    BY <1>4, RoutingAssumption DEF RoutingInv, RoutingTypeOK, Publish
  <2> QED BY <1>3, <1>4, <2>2, <2>3 DEF RoutingInv, RoutingTypeOK, Publish
<1>5. CASE Die(b)
  <2>1. deaths' \in 0 .. MaxDeaths
    BY <1>5, RoutingAssumption DEF RoutingInv, RoutingTypeOK, Die
  <2> QED BY <1>3, <1>5, <2>1 DEF RoutingInv, RoutingTypeOK, Die
<1>6. CASE Start(b)
  <2>1. quiet' \in [Brokers -> 0 .. heartbeat_time]
    BY <1>6, RoutingAssumption DEF RoutingInv, RoutingTypeOK, Start
  <2> QED BY <1>3, <1>6, <2>1 DEF RoutingInv, RoutingTypeOK, Start
<1> QED BY <1>4, <1>5, <1>6

\* RoutingInv is inductive.
LEMMA RoutingStepInv ==
  RoutingInv /\ [RoutingNext]_routingVars => RoutingInv'
<1> SUFFICES ASSUME RoutingInv, [RoutingNext]_routingVars PROVE RoutingInv'
  OBVIOUS
<1>1. CASE Send
  BY <1>1, SendInv
<1>2. CASE ReadHeartbeat
  BY <1>2, ReadHeartbeatInv
<1>3. CASE \E b \in Brokers : Publish(b) \/ Die(b) \/ Start(b)
  BY <1>3, BrokerStepInv
<1>4. CASE Tick
  BY <1>4, TickInv
<1>5. CASE UNCHANGED routingVars
  BY <1>5 DEF routingVars, RoutingInv, RoutingTypeOK, RingHoldsTheLive, Live
<1> QED BY <1>1, <1>2, <1>3, <1>4, <1>5 DEF RoutingNext

\* Every variable of the routing keeps its type, however many brokers there are.
THEOREM RoutingTypeCorrect ==
  RoutingSpec => []RoutingTypeOK
<1>1. RoutingInv => RoutingTypeOK
  BY DEF RoutingInv
<1> QED BY <1>1, RoutingInitInv, RoutingStepInv, PTL DEF RoutingSpec

\* The ring is determined by the set of live brokers (update_live_brokers,
\* consistent_hash::insert, erase), in whatever order they came and went.
THEOREM RingIsExact ==
  RoutingSpec => []RingHoldsTheLive
<1>1. RoutingInv => RingHoldsTheLive
  BY DEF RoutingInv
<1> QED BY <1>1, RoutingInitInv, RoutingStepInv, PTL DEF RoutingSpec

\* What lookup finds: the least point from the hash on or, when the hash is
\* beyond all points, the least point of the ring.
LEMMA NextPointLeast ==
  ASSUME NEW r, DOMAIN r \subseteq Nat, DOMAIN r # {}, NEW h \in Nat
  PROVE  /\ NextPoint(r, h) \in DOMAIN r
         /\ \/ /\ NextPoint(r, h) >= h
               /\ \A q \in DOMAIN r : q >= h => NextPoint(r, h) <= q
            \/ \A q \in DOMAIN r : q < h /\ NextPoint(r, h) <= q
<1> DEFINE after == {p \in DOMAIN r : p >= h}
           candidates == IF after # {} THEN after ELSE DOMAIN r
           p == NextPoint(r, h)
<1>1. candidates \in SUBSET Nat /\ candidates # {}
  OBVIOUS
<1>2. p = CHOOSE x \in candidates : \A y \in candidates : x <= y
  BY DEF NextPoint
<1> HIDE DEF p, candidates
<1>3. \E x \in candidates : \A y \in candidates : x <= y
  BY <1>1, LeastNatural
<1>4. p \in candidates /\ \A y \in candidates : p <= y
  BY <1>2, <1>3
<1>5. CASE after # {}
  BY <1>4, <1>5 DEF candidates, p
<1>6. CASE after = {}
  BY <1>4, <1>6 DEF candidates, p
<1> QED BY <1>5, <1>6

\* Two rings that agree on the points found in each find the same point.
LEMMA SamePoint ==
  ASSUME NEW r, DOMAIN r \subseteq Nat, DOMAIN r # {},
         NEW s, DOMAIN s \subseteq Nat, DOMAIN s # {}, NEW h \in Nat,
         NextPoint(r, h) \in DOMAIN s, NextPoint(s, h) \in DOMAIN r
  PROVE  NextPoint(r, h) = NextPoint(s, h)
<1> DEFINE p == NextPoint(r, h)
           q == NextPoint(s, h)
<1>1. /\ p \in DOMAIN r
      /\ \/ p >= h /\ \A x \in DOMAIN r : x >= h => p <= x
         \/ \A x \in DOMAIN r : x < h /\ p <= x
  BY NextPointLeast
<1>2. /\ q \in DOMAIN s
      /\ \/ q >= h /\ \A x \in DOMAIN s : x >= h => q <= x
         \/ \A x \in DOMAIN s : x < h /\ q <= x
  BY NextPointLeast
<1>3. p \in DOMAIN s /\ q \in DOMAIN r
  OBVIOUS
<1> HIDE DEF p, q
<1>4. p = q
  BY <1>1, <1>2, <1>3
<1> QED BY <1>4 DEF p, q

\* A ring that holds the points of some brokers is over the natural numbers.
LEMMA RingOverNat ==
  ASSUME NEW D, NEW S \in SUBSET Brokers, D = UNION {Points[b] : b \in S}
  PROVE  /\ D \subseteq Nat
         /\ S # {} => D # {}
         /\ \A b \in S : Points[b] \subseteq D
<1>1. \A b \in Brokers : Points[b] \subseteq Nat /\ Points[b] # {}
  BY RoutingAssumption
<1>2. \A b \in S : Points[b] \subseteq D
  OBVIOUS
<1>3. D \subseteq Nat
  BY <1>1
<1>4. S # {} => D # {}
  BY <1>1, <1>2
<1> QED BY <1>2, <1>3, <1>4

\* A metatile whose old owner is still live and whose new owner was live
\* before has not moved.
LEMMA MovesAreNecessary ==
  ASSUME RoutingInv, RoutingInv', NEW k \in Keys, Live # {}, Live' # {},
         lookup(ring, k) \in Live', lookup(ring', k) \in Live
  PROVE  lookup(ring, k) = lookup(ring', k)
<1> DEFINE h == key_hash[k]
           p == NextPoint(ring, h)
           q == NextPoint(ring', h)
<1>1. h \in Nat
  BY RoutingAssumption
<1>2. /\ DOMAIN ring \subseteq Nat /\ DOMAIN ring # {}
      /\ \A x \in DOMAIN ring : ring[x] \in Brokers /\ x \in Points[ring[x]]
      /\ \A b \in Live : Points[b] \subseteq DOMAIN ring
  <2>1. Live \in SUBSET Brokers
    BY DEF Live
  <2>2. DOMAIN ring = UNION {Points[b] : b \in Live}
    BY DEF RoutingInv, RingHoldsTheLive
  <2>3. \A x \in DOMAIN ring : ring[x] \in Brokers /\ x \in Points[ring[x]]
    BY DEF RoutingInv, RoutingTypeOK, RingHoldsTheLive
  <2> QED BY <2>1, <2>2, <2>3, RingOverNat
<1>3. /\ DOMAIN ring' \subseteq Nat /\ DOMAIN ring' # {}
      /\ \A x \in DOMAIN ring' : ring'[x] \in Brokers /\ x \in Points[ring'[x]]
      /\ \A b \in Live' : Points[b] \subseteq DOMAIN ring'
  <2>1. Live' \in SUBSET Brokers
    BY DEF Live
  <2>2. DOMAIN ring' = UNION {Points[b] : b \in Live'}
    BY DEF RoutingInv, RingHoldsTheLive
  <2>3. \A x \in DOMAIN ring' : ring'[x] \in Brokers /\ x \in Points[ring'[x]]
    BY DEF RoutingInv, RoutingTypeOK, RingHoldsTheLive
  <2> QED BY <2>1, <2>2, <2>3, RingOverNat
<1>4. lookup(ring, k) = ring[p] /\ lookup(ring', k) = ring'[q]
  BY DEF lookup
<1> HIDE DEF h
<1>5. p \in DOMAIN ring /\ q \in DOMAIN ring'
  BY <1>1, <1>2, <1>3, NextPointLeast
<1>6. p \in DOMAIN ring' /\ q \in DOMAIN ring
  BY <1>2, <1>3, <1>4, <1>5
<1>7. p = q
  BY <1>1, <1>2, <1>3, <1>6, SamePoint
<1> HIDE DEF p, q
<1>8. /\ ring[p] \in Brokers /\ ring'[q] \in Brokers
      /\ p \in Points[ring[p]] \cap Points[ring'[q]]
  BY <1>2, <1>3, <1>5, <1>7
<1> QED BY <1>4, <1>8, NoCollision

\* A metatile moves only away from a broker that has gone or to one that has
\* come (consistent_hash::lookup), for any points and any hash.
THEOREM MovesOnlyWhenNecessary ==
  RoutingSpec => OnlyNecessaryMoves
<1>1. RoutingInv /\ RoutingInv' /\ [RoutingNext]_routingVars
        => [\A k \in Keys :
              (Live # {} /\ Live' # {} /\ lookup(ring, k) # lookup(ring', k))
              => (lookup(ring, k) \notin Live' \/ lookup(ring', k) \notin Live)]_routingVars
  BY MovesAreNecessary
<1> QED BY <1>1, RoutingInitInv, RoutingStepInv, PTL DEF RoutingSpec, OnlyNecessaryMoves
-----------------------------------------------------------------------------
(* Heartbeats *)

HeardInv == RoutingInv /\ PunctualAreHeard

\* The times are positive numbers.
LEMMA Times ==
  /\ heartbeat_time \in Nat \ {0} /\ m_sub_reconnect_interval \in Nat \ {0}
  /\ liveness_time \in Nat \ {0}
BY RoutingAssumption

\* What the types say of one broker.
LEMMA BrokerTypes ==
  ASSUME RoutingTypeOK, NEW b \in Brokers
  PROVE  /\ heartbeats[b].age \in Nat /\ quiet[b] \in 0 .. heartbeat_time
         /\ m_next_sub_reconnect \in Int /\ m_next_sub_reconnect >= -m_sub_reconnect_interval
         /\ broker_sub \in Seq([broker : Brokers, queue_size : QueueSizes])
<1>1. heartbeats[b] \in [age : 0 .. liveness_time, queue_size : QueueSizes \cup {0},
                         is_live : BOOLEAN]
  BY DEF RoutingTypeOK
<1>2. heartbeats[b].age \in Nat
  BY <1>1, Times
<1>3. m_next_sub_reconnect \in -m_sub_reconnect_interval .. m_sub_reconnect_interval
  BY DEF RoutingTypeOK
<1> QED BY <1>2, <1>3, Times DEF RoutingTypeOK

\* A renewal: what waits is dropped when it is not the third in a row.
LEMMA RenewalInTime ==
  ASSUME TimesSuffice, NEW age \in Nat, NEW q \in 0 .. heartbeat_time, NEW w \in BOOLEAN,
         NEW due \in Int, due >= -m_sub_reconnect_interval, due < 0,
         w => q = 0, InTime(w, age, q, due)
  PROVE  InTime(FALSE, age, q, due + m_sub_reconnect_interval)
<1>1. CASE w
  BY <1>1, Times DEF InTime, TimesSuffice
<1>2. CASE ~w
  BY <1>2, Times DEF InTime, TimesSuffice
<1> QED BY <1>1, <1>2

\* A heartbeat is published.
LEMMA PublishInTime ==
  ASSUME TimesSuffice, NEW age \in Nat, NEW due \in Int,
         InTime(FALSE, age, heartbeat_time, due)
  PROVE  InTime(TRUE, age, 0, due)
BY Times DEF InTime, TimesSuffice

\* A tick passes, and the time for the renewal with it.
LEMMA TickInTime ==
  ASSUME TimesSuffice, NEW age \in Nat, NEW q \in 0 .. heartbeat_time, q < heartbeat_time,
         NEW due \in Int, InTime(FALSE, age, q, due)
  PROVE  /\ age < liveness_time
         /\ InTime(FALSE, age + 1, q + 1,
                   IF due = -m_sub_reconnect_interval THEN -1 ELSE due - 1)
BY Times DEF InTime, TimesSuffice

\* Whoever is in time is not taken for dead.
LEMMA InTimeIsYoung ==
  ASSUME TimesSuffice, NEW age \in Nat, NEW q \in 0 .. heartbeat_time, NEW w \in BOOLEAN,
         NEW due \in Int, InTime(w, age, q, due)
  PROVE  age < liveness_time
BY Times DEF InTime, TimesSuffice

LEMMA WaitingIsBoolean == \A b : Waiting(b) \in BOOLEAN
BY DEF Waiting

\* Nothing waits in an empty subscription.
LEMMA NobodyWaits ==
  ASSUME broker_sub = <<>>, NEW b
  PROVE  ~Waiting(b)
BY DEF Waiting

LEMMA HeardInit ==
  RoutingInit => HeardInv
<1> SUFFICES ASSUME RoutingInit PROVE PunctualAreHeard
  BY RoutingInitInv DEF HeardInv
<1>1. broker_sub = <<>> /\ known = {} /\ Live = {}
  BY DEF RoutingInit, Live
<1>2. OneWaits
  BY <1>1, NobodyWaits DEF OneWaits
<1> QED BY <1>1, <1>2, NobodyWaits DEF PunctualAreHeard

\* send: the renewal drops what waits.
LEMMA SendIsHeard ==
  ASSUME TimesSuffice, HeardInv, Send
  PROVE  PunctualAreHeard'
<1>1. Live' = Beating
  BY UpdatedLive DEF HeardInv, RoutingInv, Send
<1>2. Live' \subseteq known'
  BY <1>1 DEF Beating, Send
<1>3. \A b \in Brokers : heartbeats'[b].age = heartbeats[b].age
  <2> DEFINE beats(b) == b \in Beating
  <2>1. heartbeats' = [b \in Brokers |-> [heartbeats[b] EXCEPT !.is_live = beats(b)]]
    BY DEF Send, UpdateLiveBrokers
  <2> HIDE DEF beats
  <2> QED BY <2>1 DEF HeardInv, RoutingInv, RoutingTypeOK
<1>4. quiet' = quiet /\ known' = known /\ up' = up /\ died' = died
  BY DEF Send
<1>5. CASE m_next_sub_reconnect < 0
  <2>1. /\ broker_sub' = <<>>
        /\ m_next_sub_reconnect' = m_next_sub_reconnect + m_sub_reconnect_interval
    BY <1>5 DEF Send, UpdateLiveBrokers, resubscribe
  <2>2. \A b : ~Waiting(b)'
    BY <2>1 DEF Waiting
  <2>3. OneWaits'
    BY <2>1, <2>2 DEF OneWaits
  <2>4. ASSUME NEW b \in Brokers \ died, b \in known PROVE HeardInTime(b)'
    <3>1. HeardInTime(b) /\ (Waiting(b) => quiet[b] = 0)
      BY <2>4 DEF HeardInv, PunctualAreHeard, OneWaits
    <3>2. InTime(FALSE, heartbeats[b].age, quiet[b],
                 m_next_sub_reconnect + m_sub_reconnect_interval)
      BY <1>5, <3>1, BrokerTypes, RenewalInTime, WaitingIsBoolean
         DEF HeardInTime, HeardInv, RoutingInv
    <3>3. Waiting(b)' = FALSE
      BY <2>2, WaitingIsBoolean DEF Waiting
    <3> QED BY <1>3, <1>4, <2>1, <3>2, <3>3 DEF HeardInTime
  <2> QED BY <1>2, <1>4, <2>2, <2>3, <2>4 DEF HeardInv, PunctualAreHeard
<1>6. CASE ~(m_next_sub_reconnect < 0)
  <2>1. broker_sub' = broker_sub /\ m_next_sub_reconnect' = m_next_sub_reconnect
    BY <1>6 DEF Send, UpdateLiveBrokers
  <2>2. \A b : Waiting(b)' = Waiting(b)
    BY <2>1 DEF Waiting
  <2>3. OneWaits'
    BY <1>4, <2>1, <2>2 DEF OneWaits, HeardInv, PunctualAreHeard
  <2>4. \A b \in Brokers \ died : b \in known => HeardInTime(b)'
    BY <1>3, <1>4, <2>1, <2>2 DEF HeardInTime, HeardInv, PunctualAreHeard
  <2> QED BY <1>2, <1>4, <2>2, <2>3, <2>4 DEF HeardInv, PunctualAreHeard
<1> QED BY <1>5, <1>6

\* handle_pollitems: the one heartbeat that a broker has waiting is read.
LEMMA ReadIsHeard ==
  ASSUME TimesSuffice, HeardInv, ReadHeartbeat
  PROVE  PunctualAreHeard'
<1> DEFINE c == Head(broker_sub).broker
<1>1. /\ broker_sub # <<>> /\ broker_sub' = Tail(broker_sub)
      /\ broker_sub \in Seq([broker : Brokers, queue_size : QueueSizes])
      /\ OneWaits
  BY DEF ReadHeartbeat, HeardInv, RoutingInv, RoutingTypeOK, PunctualAreHeard
<1>2. c \in Brokers /\ broker_sub[1].broker = c /\ 1 \in 1 .. Len(broker_sub)
  <2>1. Len(broker_sub) \in Nat /\ Len(broker_sub) # 0 /\ Head(broker_sub) = broker_sub[1]
    BY <1>1
  <2>2. broker_sub[1] \in [broker : Brokers, queue_size : QueueSizes]
    <3> DEFINE M == [broker : Brokers, queue_size : QueueSizes]
    <3>1. broker_sub \in Seq(M)
      BY <1>1
    <3> HIDE DEF M
    <3>2. broker_sub[1] \in M
      BY <2>1, <3>1
    <3> QED BY <3>2 DEF M
  <2> QED BY <2>1, <2>2
<1>3. /\ quiet' = quiet /\ up' = up /\ died' = died /\ known' = known \cup {c}
      /\ m_next_sub_reconnect' = m_next_sub_reconnect
  BY DEF ReadHeartbeat
<1>4. /\ heartbeats'[c].age = 0
      /\ \A b \in Brokers \ {c} : heartbeats'[b] = heartbeats[b]
      /\ \A b \in Brokers : heartbeats'[b].is_live = heartbeats[b].is_live
  <2>1. heartbeats' = [heartbeats EXCEPT ![c].age = 0,
                                         ![c].queue_size = Head(broker_sub).queue_size]
    BY DEF ReadHeartbeat
  <2> QED BY <1>2, <2>1 DEF HeardInv, RoutingInv, RoutingTypeOK
<1> HIDE DEF c
<1>5. \A i \in 1 .. Len(broker_sub') : i + 1 \in 1 .. Len(broker_sub)
                                       /\ broker_sub'[i] = broker_sub[i + 1]
  BY <1>1
<1>6. \A b \in Brokers : Waiting(b)' <=> Waiting(b) /\ b # c
  <2>1. ASSUME NEW b \in Brokers, Waiting(b)' PROVE Waiting(b) /\ b # c
    <3>1. PICK i \in 1 .. Len(broker_sub') : broker_sub'[i].broker = b
      BY <2>1 DEF Waiting
    <3>2. i + 1 \in 1 .. Len(broker_sub) /\ broker_sub[i + 1].broker = b /\ i + 1 # 1
      BY <1>5, <3>1
    <3> QED BY <1>1, <1>2, <3>2 DEF OneWaits, Waiting
  <2>2. ASSUME NEW b \in Brokers, Waiting(b), b # c PROVE Waiting(b)'
    <3>1. PICK i \in 1 .. Len(broker_sub) : broker_sub[i].broker = b
      BY <2>2 DEF Waiting
    <3>2. i # 1
      BY <1>2, <2>2, <3>1
    <3>3. i - 1 \in 1 .. Len(broker_sub') /\ broker_sub'[i - 1] = broker_sub[i]
      BY <1>1, <3>1, <3>2
    <3> QED BY <3>1, <3>3 DEF Waiting
  <2> QED BY <2>1, <2>2
<1>7. OneWaits'
  <2>1. ASSUME NEW i \in 1 .. Len(broker_sub'), NEW j \in 1 .. Len(broker_sub'),
               broker_sub'[i].broker = broker_sub'[j].broker
        PROVE  i = j
    <3>1. i + 1 = j + 1
      BY <1>1, <1>5, <2>1 DEF OneWaits
    <3> QED BY <3>1
  <2> QED BY <1>1, <1>3, <1>6, <2>1 DEF OneWaits
<1>8. Live' = Live
  BY <1>4 DEF Live
<1>9. Waiting(c) /\ quiet[c] = 0
  BY <1>1, <1>2 DEF Waiting, OneWaits
<1>10. ASSUME NEW b \in Brokers \ died, b \in known' PROVE HeardInTime(b)'
  <2>1. CASE b = c
    <3>1. Waiting(b)' = FALSE
      BY <1>6, <2>1, WaitingIsBoolean DEF Waiting
    <3> QED BY <1>3, <1>4, <1>9, <2>1, <3>1 DEF HeardInTime, InTime
  <2>2. CASE b # c
    <3>1. Waiting(b)' = Waiting(b)
      BY <1>6, <2>2, WaitingIsBoolean DEF Waiting
    <3>2. HeardInTime(b)
      BY <1>3, <1>10, <2>2 DEF HeardInv, PunctualAreHeard
    <3> QED BY <1>3, <1>4, <2>2, <3>1, <3>2 DEF HeardInTime
  <2> QED BY <2>1, <2>2
<1> QED BY <1>2, <1>3, <1>6, <1>7, <1>8, <1>9, <1>10 DEF HeardInv, PunctualAreHeard

\* A broker publishes, when it has nothing waiting.
LEMMA PublishIsHeard ==
  ASSUME TimesSuffice, HeardInv, NEW c \in Brokers, Publish(c)
  PROVE  PunctualAreHeard'
<1>1. PICK size \in QueueSizes :
        broker_sub' = Append(broker_sub, [broker |-> c, queue_size |-> size])
  BY DEF Publish
<1>2. /\ quiet[c] = heartbeat_time /\ quiet' = [quiet EXCEPT ![c] = 0] /\ c \in up
      /\ heartbeats' = heartbeats /\ known' = known /\ up' = up /\ died' = died
      /\ m_next_sub_reconnect' = m_next_sub_reconnect
  BY DEF Publish
<1>3. OneWaits /\ broker_sub \in Seq([broker : Brokers, queue_size : QueueSizes])
      /\ quiet \in [Brokers -> 0 .. heartbeat_time]
  BY DEF HeardInv, RoutingInv, RoutingTypeOK, PunctualAreHeard
<1>4. ~Waiting(c)
  BY <1>2, <1>3, Times DEF OneWaits
<1>5. /\ Len(broker_sub') = Len(broker_sub) + 1 /\ Len(broker_sub) \in Nat
      /\ \A i \in 1 .. Len(broker_sub) : broker_sub'[i] = broker_sub[i]
      /\ broker_sub'[Len(broker_sub) + 1].broker = c
  BY <1>1, <1>3
<1>6. \A b : Waiting(b)' <=> Waiting(b) \/ b = c
  BY <1>5 DEF Waiting
<1>7. quiet'[c] = 0 /\ \A b \in Brokers \ {c} : quiet'[b] = quiet[b]
  BY <1>2, <1>3
<1>8. OneWaits'
  <2>1. ASSUME NEW i \in 1 .. Len(broker_sub'), NEW j \in 1 .. Len(broker_sub'),
               broker_sub'[i].broker = broker_sub'[j].broker
        PROVE  i = j
    BY <1>3, <1>4, <1>5, <2>1 DEF OneWaits, Waiting
  <2>2. \A b \in Brokers : Waiting(b)' => quiet'[b] = 0
    BY <1>3, <1>6, <1>7 DEF OneWaits
  <2> QED BY <2>1, <2>2 DEF OneWaits
<1>9. ASSUME NEW b \in Brokers \ died, b \in known PROVE HeardInTime(b)'
  <2>1. HeardInTime(b)
    BY <1>9 DEF HeardInv, PunctualAreHeard
  <2>2. CASE b = c
    <3>1. Waiting(b)' = TRUE /\ Waiting(b) = FALSE
      BY <1>4, <1>6, <2>2, WaitingIsBoolean DEF Waiting
    <3>2. InTime(TRUE, heartbeats[b].age, 0, m_next_sub_reconnect)
      BY <1>2, <2>1, <2>2, <3>1, BrokerTypes, PublishInTime DEF HeardInTime, HeardInv, RoutingInv
    <3> QED BY <1>2, <1>7, <2>2, <3>1, <3>2 DEF HeardInTime
  <2>3. CASE b # c
    <3>1. Waiting(b)' = Waiting(b)
      BY <1>6, <2>3, WaitingIsBoolean DEF Waiting
    <3> QED BY <1>2, <1>7, <2>1, <2>3, <3>1 DEF HeardInTime
  <2> QED BY <2>2, <2>3
<1>10. Live' = Live
  BY <1>2 DEF Live
<1> QED BY <1>2, <1>6, <1>8, <1>9, <1>10 DEF HeardInv, PunctualAreHeard

\* A broker that dies is not asked for more; one that starts was not heard of, or died.
LEMMA UpAndDownIsHeard ==
  ASSUME HeardInv, NEW c \in Brokers, Die(c) \/ Start(c)
  PROVE  PunctualAreHeard'
<1>1. /\ heartbeats' = heartbeats /\ known' = known /\ broker_sub' = broker_sub
      /\ m_next_sub_reconnect' = m_next_sub_reconnect
      /\ quiet \in [Brokers -> 0 .. heartbeat_time]
      /\ died \subseteq died'
  BY DEF Die, Start, HeardInv, RoutingInv, RoutingTypeOK
<1>2. Live' = Live /\ \A b : Waiting(b)' = Waiting(b)
  BY <1>1 DEF Live, Waiting
<1>3. /\ \A b \in Brokers \ {c} : quiet'[b] = quiet[b] /\ (b \in up => b \in up')
      /\ quiet'[c] = quiet[c] \/ quiet'[c] = 0
  BY <1>1 DEF Die, Start
<1>4. OneWaits'
  BY <1>1, <1>2, <1>3 DEF OneWaits, HeardInv, PunctualAreHeard
<1>5. ASSUME NEW b \in Brokers \ died', b \in known \/ Waiting(b)
      PROVE  b # c /\ b \in up' /\ (b \in known => HeardInTime(b)')
  <2>1. b \in up /\ (b \in known => HeardInTime(b))
    BY <1>1, <1>5 DEF HeardInv, PunctualAreHeard
  <2>2. b # c
    BY <1>5, <2>1 DEF Die, Start
  <2>3. b \in known => HeardInTime(b)'
    BY <1>1, <1>2, <1>3, <2>1, <2>2 DEF HeardInTime
  <2> QED BY <1>3, <2>1, <2>2, <2>3
<1> QED BY <1>1, <1>2, <1>4, <1>5 DEF HeardInv, PunctualAreHeard

\* Time passes when everyone has published and all is read.
LEMMA TickIsHeard ==
  ASSUME TimesSuffice, HeardInv, Tick
  PROVE  PunctualAreHeard'
<1>1. /\ broker_sub = <<>> /\ broker_sub' = <<>>
      /\ known' = known /\ up' = up /\ died' = died
  BY DEF Tick
<1>2. \A b : ~Waiting(b) /\ ~Waiting(b)'
  BY <1>1 DEF Waiting
<1>3. OneWaits'
  BY <1>1, <1>2 DEF OneWaits
<1>4. \A b \in Brokers :
        /\ heartbeats'[b].is_live = heartbeats[b].is_live
        /\ heartbeats[b].age < liveness_time => heartbeats'[b].age = heartbeats[b].age + 1
  BY DEF Tick, HeardInv, RoutingInv, RoutingTypeOK
<1>5. Live' = Live
  BY <1>4 DEF Live
<1>6. ASSUME NEW b \in Brokers \ died, b \in known PROVE HeardInTime(b)'
  <2>1. HeardInTime(b) /\ b \in up
    BY <1>6 DEF HeardInv, PunctualAreHeard
  <2>2. Waiting(b) = FALSE /\ Waiting(b)' = FALSE
    BY <1>2, WaitingIsBoolean DEF Waiting
  <2>3. quiet[b] < heartbeat_time /\ quiet'[b] = quiet[b] + 1
    BY <2>1 DEF Tick
  <2>4. m_next_sub_reconnect' = IF m_next_sub_reconnect = -m_sub_reconnect_interval
                                THEN -1 ELSE m_next_sub_reconnect - 1
    BY DEF Tick
  <2>5. /\ heartbeats[b].age < liveness_time
        /\ InTime(FALSE, heartbeats[b].age + 1, quiet[b] + 1, m_next_sub_reconnect')
    BY <2>1, <2>2, <2>3, <2>4, BrokerTypes, TickInTime DEF HeardInTime, HeardInv, RoutingInv
  <2> QED BY <1>4, <2>2, <2>3, <2>5 DEF HeardInTime
<1> QED BY <1>1, <1>2, <1>3, <1>5, <1>6 DEF HeardInv, PunctualAreHeard

LEMMA HeardStep ==
  ASSUME TimesSuffice, HeardInv, [RoutingNext]_routingVars
  PROVE  HeardInv'
<1>1. RoutingInv'
  BY RoutingStepInv DEF HeardInv
<1>2. CASE Send
  BY <1>1, <1>2, SendIsHeard DEF HeardInv
<1>3. CASE ReadHeartbeat
  BY <1>1, <1>3, ReadIsHeard DEF HeardInv
<1>4. CASE \E b \in Brokers : Publish(b) \/ Die(b) \/ Start(b)
  BY <1>1, <1>4, PublishIsHeard, UpAndDownIsHeard DEF HeardInv
<1>5. CASE Tick
  BY <1>1, <1>5, TickIsHeard DEF HeardInv
<1>6. CASE UNCHANGED routingVars
  BY <1>1, <1>6 DEF routingVars, HeardInv, PunctualAreHeard, OneWaits, Waiting, HeardInTime, Live
<1> QED BY <1>2, <1>3, <1>4, <1>5, <1>6 DEF RoutingNext

\* A step that unmarks a broker is an update that finds it silent for too long.
LEMMA OnlyTheDeadAreUnmarked ==
  ASSUME TimesSuffice, HeardInv, [RoutingNext]_routingVars,
         NEW b \in Brokers, b \in Live, b \notin Live'
  PROVE  b \in died
<1>1. SUFFICES ASSUME b \notin died PROVE FALSE
  OBVIOUS
<1>2. b \in known /\ HeardInTime(b)
  BY <1>1 DEF HeardInv, PunctualAreHeard
<1>3. heartbeats[b].age < liveness_time
  BY <1>2, BrokerTypes, InTimeIsYoung, WaitingIsBoolean DEF HeardInTime, HeardInv, RoutingInv
<1>4. b \in Beating
  BY <1>2, <1>3 DEF Beating
<1>5. CASE Send
  BY <1>4, <1>5, UpdatedLive DEF Send, HeardInv, RoutingInv
<1>6. CASE ReadHeartbeat
  BY <1>6 DEF ReadHeartbeat, Live, HeardInv, RoutingInv, RoutingTypeOK
<1>7. CASE \E c \in Brokers : Publish(c) \/ Die(c) \/ Start(c)
  BY <1>7 DEF Publish, Die, Start, Live
<1>8. CASE Tick
  BY <1>8 DEF Tick, Live, HeardInv, RoutingInv, RoutingTypeOK
<1>9. CASE UNCHANGED routingVars
  BY <1>9 DEF routingVars, Live
<1> QED BY <1>5, <1>6, <1>7, <1>8, <1>9 DEF RoutingNext

\* A broker that never died is never taken for dead (update_live_brokers), although
\* the renewal of the subscriptions drops heartbeats, for any brokers and any times
\* that suffice: two heartbeats in a row may be dropped, three may not.
THEOREM PunctualBrokersStay ==
  TimesSuffice => (RoutingSpec => PunctualBrokerStays)
<1> SUFFICES ASSUME TimesSuffice PROVE RoutingSpec => PunctualBrokerStays
  OBVIOUS
<1>1. HeardInv /\ [RoutingNext]_routingVars => HeardInv'
  BY HeardStep
<1>2. HeardInv /\ [RoutingNext]_routingVars
        => [\A b \in Brokers : b \in Live /\ b \notin Live' => b \in died]_routingVars
  BY OnlyTheDeadAreUnmarked
<1> QED BY <1>1, <1>2, HeardInit, PTL DEF RoutingSpec, PunctualBrokerStays
=============================================================================

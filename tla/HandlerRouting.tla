--------------------------- MODULE HandlerRouting ---------------------------
(***************************************************************************)
(* How a handler chooses a broker (zmq_backend_handler): the heartbeats it *)
(* has heard, which of the brokers it takes to be live, and the ring of    *)
(* the consistent hash.  Liveness is looked at when a job is sent, and     *)
(* only then; the queue length that decides whether a job is sent at all   *)
(* is the average over the brokers marked live at the last send.  Time     *)
(* passes in ticks; a running broker publishes every heartbeat_time ticks. *)
(***************************************************************************)
EXTENDS Integers, Sequences, FiniteSets

CONSTANTS
  Brokers,
  Keys,                \* metatiles
  key_hash,            \* key_hash[k]: where k falls on the ring
  Points,              \* Points[b]: the points of broker b, drawn from its own seed
  QueueSizes,          \* what a broker may report
  m_queue_threshold_max,
  liveness_time, heartbeat_time, m_sub_reconnect_interval, SettleTime,
  MaxDeaths            \* bound: how often a broker dies

ASSUME RoutingAssumption ==
  /\ key_hash \in [Keys -> Nat]
  /\ Points \in [Brokers -> SUBSET Nat] /\ \A b \in Brokers : Points[b] # {}
  /\ QueueSizes \subseteq Nat
  /\ {liveness_time, heartbeat_time, m_sub_reconnect_interval, SettleTime} \subseteq Nat \ {0}
  /\ {m_queue_threshold_max, MaxDeaths} \subseteq Nat

\* size_t points from a Mersenne twister: no two brokers share one.
ASSUME NoCollision ==
  \A b, c \in Brokers : Points[b] \cap Points[c] # {} => b = c

VARIABLES
  heartbeats,            \* heartbeats[b]: age of the last one, capped at
                         \* liveness_time; queue_size; is_live
  known,                 \* the brokers that have an entry in heartbeats
  ring,                  \* function from points to brokers
  m_settle_time,         \* ticks until settling ends; Unset when it was reset
  m_next_sub_reconnect,  \* ticks until the subscriptions are renewed; when that
                         \* is overdue, by how much modulo the interval
  broker_sub,            \* published heartbeats that the handler has not read
  up,                    \* environment: the brokers that run
  quiet,                 \* quiet[b]: ticks since b published
  deaths,                \* how many times a broker died
  died                   \* the brokers that died at some time

routingVars == <<heartbeats, known, ring, m_settle_time, m_next_sub_reconnect, broker_sub,
                 up, quiet, deaths, died>>

Unset == -1

RoutingInit ==
  /\ heartbeats = [b \in Brokers |-> [age |-> liveness_time, queue_size |-> 0, is_live |-> FALSE]]
  /\ known = {}
  /\ ring = <<>>
  /\ m_settle_time \in {Unset, SettleTime}
  /\ m_next_sub_reconnect = m_sub_reconnect_interval
  /\ broker_sub = <<>>
  /\ up \in SUBSET Brokers
  /\ quiet = [b \in Brokers |-> 0]
  /\ deaths = 0 /\ died = {}
-----------------------------------------------------------------------------
(* consistent_hash *)

insert(r, S) ==
  LET owner(p) == CHOOSE b \in S : p \in Points[b]
  IN  [p \in DOMAIN r \cup UNION {Points[b] : b \in S} |->
         IF p \in DOMAIN r THEN r[p] ELSE owner(p)]

erase(r, S) == [p \in DOMAIN r \ UNION {Points[b] : b \in S} |-> r[p]]

\* The first point at or after the hash, or else the first point of all.
NextPoint(r, h) ==
  LET after == {p \in DOMAIN r : p >= h}
      candidates == IF after # {} THEN after ELSE DOMAIN r
  IN  CHOOSE p \in candidates : \A q \in candidates : p <= q

\* Mutant: the points take turns, as in a plain hash modulo their number.
LookupModulo(r, k) ==
  r[CHOOSE p \in DOMAIN r : Cardinality({q \in DOMAIN r : q < p})
                              = key_hash[k] % Cardinality(DOMAIN r)]

lookup(r, k) == r[NextPoint(r, key_hash[k])]
-----------------------------------------------------------------------------
Live == {b \in Brokers : heartbeats[b].is_live}

\* Mutants: a broker's heartbeats may be one tick old at most; a broker that
\* was heard of once beats for ever.
BeatingStrictly == {b \in known : heartbeats[b].age < heartbeat_time}
BeatingForEver == known

Beating == {b \in known : heartbeats[b].age < liveness_time}

Settling == m_settle_time > 0

\* settle_check as send calls it: the time is reset when it has passed.
settle_check == ~Settling /\ m_settle_time' = Unset

\* New sockets in place of the old ones, with what those had received.
resubscribe == broker_sub' = <<>>

\* Mutant: the next renewal is one tick more than the interval away.
UpdateRenewsLate ==
  /\ heartbeats' = [b \in Brokers |-> [heartbeats[b] EXCEPT !.is_live = b \in Beating]]
  /\ ring' = insert(erase(ring, Live \ Beating), Beating \ Live)
  /\ IF m_next_sub_reconnect < 0
     THEN m_next_sub_reconnect' = m_sub_reconnect_interval + 1 /\ resubscribe
     ELSE UNCHANGED <<m_next_sub_reconnect, broker_sub>>

\* Mutant: a broker that died stays in the ring.
UpdateWithoutErase ==
  /\ heartbeats' = [b \in Brokers |-> [heartbeats[b] EXCEPT !.is_live = b \in Beating]]
  /\ ring' = insert(ring, Beating \ Live)
  /\ IF m_next_sub_reconnect < 0
     THEN /\ m_next_sub_reconnect' = m_next_sub_reconnect + m_sub_reconnect_interval
          /\ resubscribe
     ELSE UNCHANGED <<m_next_sub_reconnect, broker_sub>>

\* update_live_brokers: the subscriptions are renewed when that is due, which
\* drops what was not read, and the time for it moves on by intervals; then
\* every entry is compared with its age.
UpdateLiveBrokers ==
  /\ heartbeats' = [b \in Brokers |-> [heartbeats[b] EXCEPT !.is_live = b \in Beating]]
  /\ ring' = insert(erase(ring, Live \ Beating), Beating \ Live)
  /\ IF m_next_sub_reconnect < 0
     THEN /\ m_next_sub_reconnect' = m_next_sub_reconnect + m_sub_reconnect_interval
          /\ resubscribe
     ELSE UNCHANGED <<m_next_sub_reconnect, broker_sub>>

SumOf(S) ==
  LET Total[T \in SUBSET S] ==
        IF T = {} THEN 0
        ELSE LET b == CHOOSE x \in T : TRUE IN heartbeats[b].queue_size + Total[T \ {b}]
  IN  Total[S]

\* The average over the brokers marked live.  While settling the code returns
\* the greatest number there is, which Overload stands for.
queue_length == IF Live = {} THEN 0 ELSE SumOf(Live) \div Cardinality(Live)

\* The handler's answer to a tile that must be rendered: 503 when the queues
\* are long or still settling.  Nothing else happens then.
Overload == Settling \/ queue_length >= m_queue_threshold_max

\* A job is sent to the owner of its metatile in the updated ring, or refused
\* because that is empty; the handler's own state does not depend on which.
Send ==
  /\ ~Overload
  /\ settle_check
  /\ UpdateLiveBrokers
  /\ UNCHANGED <<known, up, quiet, deaths, died>>

\* Mutant: the age of a known broker is not renewed.
ReadHeartbeatOnce ==
  /\ broker_sub # <<>>
  /\ LET hb == Head(broker_sub)
     IN  /\ known' = known \cup {hb.broker}
         /\ heartbeats' = [heartbeats EXCEPT
              ![hb.broker].age = IF hb.broker \in known THEN @ ELSE 0,
              ![hb.broker].queue_size = hb.queue_size]
  /\ broker_sub' = Tail(broker_sub)
  /\ UNCHANGED <<ring, m_settle_time, m_next_sub_reconnect, up, quiet, deaths, died>>

\* handle_pollitems: one heartbeat is read.
ReadHeartbeat ==
  /\ broker_sub # <<>>
  /\ LET hb == Head(broker_sub)
     IN  /\ known' = known \cup {hb.broker}
         /\ heartbeats' = [heartbeats EXCEPT ![hb.broker].age = 0,
                                             ![hb.broker].queue_size = hb.queue_size]
  /\ broker_sub' = Tail(broker_sub)
  /\ UNCHANGED <<ring, m_settle_time, m_next_sub_reconnect, up, quiet, deaths, died>>

Publish(b) ==
  /\ b \in up /\ quiet[b] = heartbeat_time
  /\ \E size \in QueueSizes :
       broker_sub' = Append(broker_sub, [broker |-> b, queue_size |-> size])
  /\ quiet' = [quiet EXCEPT ![b] = 0]
  /\ UNCHANGED <<heartbeats, known, ring, m_settle_time, m_next_sub_reconnect, up, deaths, died>>

Die(b) ==
  /\ b \in up /\ deaths < MaxDeaths
  /\ up' = up \ {b}
  /\ deaths' = deaths + 1
  /\ died' = died \cup {b}
  /\ UNCHANGED <<heartbeats, known, ring, m_settle_time, m_next_sub_reconnect, broker_sub, quiet>>

Start(b) ==
  /\ b \notin up
  /\ up' = up \cup {b}
  /\ quiet' = [quiet EXCEPT ![b] = 0]
  /\ UNCHANGED <<heartbeats, known, ring, m_settle_time, m_next_sub_reconnect, broker_sub,
                 deaths, died>>

\* Brokers publish in time, and the handler reads within a tick what was
\* published: its loop polls all sockets.
Tick ==
  /\ \A b \in up : quiet[b] < heartbeat_time
  /\ broker_sub = <<>>
  /\ heartbeats' = [b \in Brokers |-> [heartbeats[b] EXCEPT
                      !.age = IF @ < liveness_time THEN @ + 1 ELSE @]]
  /\ quiet' = [b \in Brokers |-> IF b \in up THEN quiet[b] + 1 ELSE 0]
  /\ m_settle_time' = IF Settling THEN m_settle_time - 1 ELSE m_settle_time
  /\ m_next_sub_reconnect' = IF m_next_sub_reconnect = -m_sub_reconnect_interval
                             THEN -1 ELSE m_next_sub_reconnect - 1
  /\ UNCHANGED <<known, ring, broker_sub, up, deaths, died>>

RoutingNext ==
  \/ Send
  \/ ReadHeartbeat
  \/ \E b \in Brokers : Publish(b) \/ Die(b) \/ Start(b)
  \/ Tick

\* Requests that have to be rendered keep coming, the handler reads what it is
\* sent, running brokers publish and time passes.
RoutingSpec ==
  /\ RoutingInit /\ [][RoutingNext]_routingVars
  /\ WF_routingVars(Send)
  /\ WF_routingVars(ReadHeartbeat)
  /\ \A b \in Brokers : WF_routingVars(Publish(b))
  /\ WF_routingVars(Tick)
-----------------------------------------------------------------------------
(* Every variable has its type. *)
RoutingTypeOK ==
  /\ heartbeats \in [Brokers -> [age : 0 .. liveness_time, queue_size : QueueSizes \cup {0},
                                 is_live : BOOLEAN]]
  /\ known \subseteq Brokers
  /\ DOMAIN ring \subseteq UNION {Points[b] : b \in Brokers}
  /\ \A p \in DOMAIN ring : ring[p] \in Brokers
  /\ m_settle_time \in Unset .. SettleTime
  /\ m_next_sub_reconnect \in -m_sub_reconnect_interval .. m_sub_reconnect_interval
  /\ broker_sub \in Seq([broker : Brokers, queue_size : QueueSizes])
  /\ up \subseteq Brokers /\ died \subseteq Brokers
  /\ quiet \in [Brokers -> 0 .. heartbeat_time]
  /\ deaths \in 0 .. MaxDeaths

(* The ring holds the points of the brokers marked live, each under its    *)
(* own broker, and no others, whatever order they came and went in.  So    *)
(* two handlers that hold the same brokers live send the requests for a    *)
(* metatile to the same broker, where they merge (update_live_brokers,     *)
(* consistent_hash::insert, erase).                                        *)
RingHoldsTheLive ==
  /\ DOMAIN ring = UNION {Points[b] : b \in Live}
  /\ \A p \in DOMAIN ring : p \in Points[ring[p]]

(* The point of a consistent hash: when brokers come and go, a metatile    *)
(* moves only away from a broker that has gone or to one that has come     *)
(* (consistent_hash::lookup).                                              *)
OnlyNecessaryMoves ==
  [][\A k \in Keys :
       (Live # {} /\ Live' # {} /\ lookup(ring, k) # lookup(ring', k))
       => (lookup(ring, k) \notin Live' \/ lookup(ring', k) \notin Live)]_routingVars

(* A broker that never died is never taken for dead, although the renewal  *)
(* of the subscriptions drops heartbeats that were not read                *)
(* (update_live_brokers, zmq_backend_common::resubscribe).                 *)
PunctualBrokerStays ==
  [][\A b \in Brokers : b \in Live /\ b \notin Live' => b \in died]_routingVars

(* Why that is so.  The times of a configuration suffice when the          *)
(* subscriptions are renewed at most every other heartbeat and a broker is *)
(* taken for dead after more than three.  The code's defaults for these    *)
(* are 3600 and 30 seconds, and dqueue.conf has a heartbeat every 5.       *)
TimesSuffice ==
  /\ 2 * heartbeat_time <= m_sub_reconnect_interval
  /\ 3 * heartbeat_time < liveness_time

(* A heartbeat waits only until the tick is over, so a broker has at most  *)
(* one waiting.                                                            *)
Waiting(b) == \E i \in 1 .. Len(broker_sub) : broker_sub[i].broker = b
OneWaits ==
  /\ \A b \in Brokers : Waiting(b) => quiet[b] = 0
  /\ \A i, j \in 1 .. Len(broker_sub) : broker_sub[i].broker = broker_sub[j].broker => i = j

(* After a renewal the next one is not due at once, and after that one it  *)
(* is due an interval later: of three heartbeats in a row one is read.     *)
InTime(waits, age, q, due) ==
  IF waits
  THEN \/ age = heartbeat_time
       \/ age = 2 * heartbeat_time /\ due >= -heartbeat_time
       \/ age = 3 * heartbeat_time /\ due >= 0
  ELSE \/ age = q
       \/ age = q + heartbeat_time /\ due >= -q
       \/ age = q + 2 * heartbeat_time /\ due >= m_sub_reconnect_interval - heartbeat_time - q
HeardInTime(b) == InTime(Waiting(b), heartbeats[b].age, quiet[b], m_next_sub_reconnect)

(* A broker that was heard of and never died runs, and is heard in time.   *)
PunctualAreHeard ==
  /\ OneWaits
  /\ Live \subseteq known
  /\ \A b \in Brokers \ died :
       /\ b \in known \/ Waiting(b) => b \in up
       /\ b \in known => HeardInTime(b)

(* A broker that runs from some time on is marked live from some time on,  *)
(* after settling, after deaths and restarts, as long as jobs are sent.    *)
RunningBrokerIsUsed ==
  \A b \in Brokers : <>[](b \in up) => <>[](b \in Live)

(* "the liveness (point at which to consider the broker dead)"             *)
(* (zmq_backend.cpp): a broker that has been silent for the liveness time  *)
(* does not stay marked live, and so in the average of queue_length.       *)
SilentBrokerIsDead ==
  \A b \in Brokers :
     (b \in Live /\ heartbeats[b].age = liveness_time)
       ~> (b \notin Live \/ heartbeats[b].age < liveness_time)
=============================================================================

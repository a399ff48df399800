------------------------------ MODULE TileBroker ------------------------------
(***************************************************************************)
(* The brokers (tile_broker_impl.cpp): one action per message that the     *)
(* poll loop takes from its backend, frontend or monitor socket.  What a   *)
(* broker sends goes into channels: FIFO to each worker, and a publish     *)
(* socket that drops what does not fit.  BrokerSpec closes the brokers     *)
(* with workers that may ask for a job or return any result at any time.   *)
(***************************************************************************)
EXTENDS TaskQueue, Channels

CONSTANTS
  AnnounceHWM,   \* announcements a SUB socket holds before it drops more
  WorkerHWM      \* bound: unread broker responses a worker lets pile up

ASSUME HwmAssumption == AnnounceHWM \in Nat /\ WorkerHWM \in Nat

VARIABLES
  queue,         \* queue[b]: impl->queue
  running,       \* running[b]: the poll loop has not been shut down
  accepted,      \* requests that have reached a broker's frontend socket
  replies,       \* replies[r]: the answers sent to the handler of request r
  frontend_pub   \* frontend_pub[b]: the last queue count told to the handlers

brokerVars == <<queue, running, accepted, replies, frontend_pub, to_worker, announce>>

JobMsg == [type : {"JOB"}, x : Metatiles, format : SUBSET Formats]
Announcement == [broker : Brokers, priority : Nat, qsize : Nat]
Result == [x : Metatiles, status : ResultCmd, data : SUBSET Formats]
NoData == {}
-----------------------------------------------------------------------------
\* The if/else chain over tile.status before the push.
PriorityOf(r) ==
  CASE r.status = "cmdRenderBulk" -> 0
    [] r.status = "cmdDirty"      -> 50
    [] r.status = "cmdRenderPrio" -> 150
    [] OTHER                      -> 100

\* Subscribers that send_tile_to_listeners answers.
Interactive == {r \in Requests : r.status \notin {"cmdDirty", "cmdRenderBulk"}}

\* metatile_reader: the tile at r.x, cut out of the header of r's format if the
\* metatile has one, and nothing otherwise.
CutOut(r, data) == {x \in {r.x} : \E f \in data : r.format = {f}}

Answer(r, res) ==
  [status |-> res.status,
   data   |-> IF res.status = "cmdNotDone" THEN NoData ELSE CutOut(r, res.data)]

\* publish_availability, given the queue as it is at the call.
Published(b, q) ==
  IF Available(q) = {} THEN announce
  ELSE LET a == [broker |-> b, priority |-> q.tasks[front(q)].priority,
                 qsize |-> count_unprocessed(q)]
       IN  [w \in Workers |-> IF Len(announce[w]) < AnnounceHWM
                              THEN Append(announce[w], a) ELSE announce[w]]
-----------------------------------------------------------------------------
BrokerInit ==
  /\ queue = [b \in Brokers |-> EmptyQueue]
  /\ running = [b \in Brokers |-> TRUE]
  /\ accepted = {}
  /\ replies = [r \in Requests |-> << >>]
  /\ frontend_pub = [b \in Brokers |-> 0]
  /\ to_worker = [w \in Workers |-> [b \in Brokers |-> << >>]]
  /\ announce = [w \in Workers |-> << >>]

\* Mutant: the first job of an idle broker is not announced.
FrontChangedByPriority(b, q, p) ==
  /\ Available(queue[b]) # {}
  /\ q.tasks[front(queue[b])].priority < p

\* The push may merge into front_task, which is a reference: its priority is
\* read after the push.
FrontChanged(b, q, p) ==
  \/ Available(queue[b]) = {}
  \/ q.tasks[front(queue[b])].priority < p

FrontendRequest(b, r) ==
  LET p == PriorityOf(r)
      q == push(queue[b], r, p)
  IN  /\ running[b]
      /\ r \notin accepted
      /\ accepted' = accepted \cup {r}
      /\ queue' = [queue EXCEPT ![b] = q]
      /\ announce' = IF FrontChanged(b, q, p) THEN Published(b, q) ELSE announce
      /\ UNCHANGED <<running, replies, frontend_pub, to_worker>>

\* Mutant: a task whose rendering failed is dropped without an answer.
BackendResultSilent(b, res) ==
  /\ running[b]
  /\ res.x \in DOMAIN queue[b].tasks
  /\ queue' = [queue EXCEPT ![b] = erase(@, res.x)]
  /\ LET subs == queue[b].tasks[res.x].subscribers \cap Interactive
     IN  replies' = [r \in Requests |->
                       IF r \in subs /\ res.status # "cmdNotDone"
                       THEN Append(replies[r], Answer(r, res)) ELSE replies[r]]
  /\ UNCHANGED <<running, accepted, frontend_pub, to_worker, announce>>

\* send_tile_to_listeners: a result nobody subscribes to is dropped.
BackendResult(b, res) ==
  /\ running[b]
  /\ \/ /\ res.x \in DOMAIN queue[b].tasks
        /\ LET subs == queue[b].tasks[res.x].subscribers \cap Interactive
           IN  replies' = [r \in Requests |->
                             IF r \in subs THEN Append(replies[r], Answer(r, res))
                             ELSE replies[r]]
        /\ queue' = [queue EXCEPT ![b] = erase(@, res.x)]
     \/ /\ res.x \notin DOMAIN queue[b].tasks
        /\ UNCHANGED <<queue, replies>>
  /\ UNCHANGED <<running, accepted, frontend_pub, to_worker, announce>>

BackendGetJob(b, w) ==
  /\ running[b]
  /\ \/ /\ Available(queue[b]) # {}
        /\ LET m   == front(queue[b])
               job == [type |-> "JOB", x |-> m, format |-> queue[b].tasks[m].format]
           IN  /\ to_worker' = [to_worker EXCEPT ![w][b] = Append(@, job)]
               /\ queue' = [queue EXCEPT ![b] = set_processed(@, m)]
     \/ /\ Available(queue[b]) = {}
        /\ to_worker' = [to_worker EXCEPT ![w][b] = Append(@, NoJobs)]
        /\ UNCHANGED queue
  /\ UNCHANGED <<running, accepted, replies, frontend_pub, announce>>

MonitorClear(b) ==
  /\ running[b]
  /\ queue' = [queue EXCEPT ![b] = EmptyQueue]
  /\ UNCHANGED <<running, accepted, replies, frontend_pub, to_worker, announce>>

MonitorResubmit(b) ==
  /\ running[b]
  /\ queue' = [queue EXCEPT ![b] = resubmit_older_than(@)]
  /\ UNCHANGED <<running, accepted, replies, frontend_pub, to_worker, announce>>

MonitorHeartbeat(b) ==
  /\ running[b]
  /\ frontend_pub' = [frontend_pub EXCEPT ![b] = count_unprocessed(queue[b])]
  /\ announce' = Published(b, queue[b])
  /\ UNCHANGED <<queue, running, accepted, replies, to_worker>>

MonitorShutdown(b) ==
  /\ running[b]
  /\ running' = [running EXCEPT ![b] = FALSE]
  /\ UNCHANGED <<queue, accepted, replies, frontend_pub, to_worker, announce>>

\* A second passes for every task of every broker.
Tick ==
  /\ queue' = [b \in Brokers |-> Aged(queue[b])]
  /\ UNCHANGED <<running, accepted, replies, frontend_pub, to_worker, announce>>
-----------------------------------------------------------------------------
\* Workers that read what they are sent in their own time.
EnvRead(w, b) ==
  /\ to_worker[w][b] # << >>
  /\ to_worker' = [to_worker EXCEPT ![w][b] = Tail(@)]
  /\ UNCHANGED <<queue, running, accepted, replies, frontend_pub, announce>>

EnvHear(w) ==
  /\ announce[w] # << >>
  /\ announce' = [announce EXCEPT ![w] = Tail(@)]
  /\ UNCHANGED <<queue, running, accepted, replies, frontend_pub, to_worker>>

EnvGetJob(b, w) == Len(to_worker[w][b]) < WorkerHWM /\ BackendGetJob(b, w)

\* Everything but the passage of time.
BrokerStep ==
  \/ \E b \in Brokers :
       \/ \E r \in Requests : FrontendRequest(b, r)
       \/ \E res \in Result : BackendResult(b, res)
       \/ \E w \in Workers : EnvGetJob(b, w)
       \/ MonitorClear(b)
       \/ MonitorResubmit(b)
       \/ MonitorHeartbeat(b)
       \/ MonitorShutdown(b)
       \/ \E w \in Workers : EnvRead(w, b)
  \/ \E w \in Workers : EnvHear(w)

BrokerNext == BrokerStep \/ Tick

BrokerSpec == BrokerInit /\ [][BrokerNext]_brokerVars
-----------------------------------------------------------------------------
Subscribed(q) == UNION {q.tasks[m].subscribers : m \in DOMAIN q.tasks}

\* The requests that wait in the queue of broker b.
Waiting(b) == Subscribed(queue[b])

IsPermutation(s, S) ==
  /\ {s[i] : i \in 1 .. Len(s)} = S
  /\ \A i, j \in 1 .. Len(s) : s[i] = s[j] => i = j

QueueType(q) ==
  /\ DOMAIN q = {"tasks", "arrivals", "stamps"}
  /\ q.tasks \in [DOMAIN q.tasks -> Task]
  /\ DOMAIN q.tasks \subseteq Metatiles
  /\ q.arrivals \in Seq(Metatiles)
  /\ q.stamps \in Seq(Metatiles)

Reply == [status : ResultCmd, data : SUBSET Nat]

\* Type invariant of the brokers and of what they send.
BrokerTypeOK ==
  /\ DOMAIN queue = Brokers
  /\ \A b \in Brokers : QueueType(queue[b])
  /\ running \in [Brokers -> BOOLEAN]
  /\ accepted \in SUBSET Requests
  /\ replies \in [Requests -> Seq(Reply)]
  /\ frontend_pub \in [Brokers -> Nat]
  /\ to_worker \in [Workers -> [Brokers -> Seq(JobMsg \cup {NoJobs})]]
  /\ announce \in [Workers -> Seq(Announcement)]

QueueIndexes(q) ==
  /\ IsPermutation(q.arrivals, DOMAIN q.tasks)
  /\ IsPermutation(q.stamps, DOMAIN q.tasks)

(***************************************************************************)
(* Every task is in each index of the multi-index container exactly once.  *)
(* The container guarantees it whatever the broker does; the proofs need   *)
(* it said of the sequences that stand for the indexes.                    *)
(***************************************************************************)
IndexesAgree == \A b \in Brokers : QueueIndexes(queue[b])

QueueSums(q) ==
  \A m \in DOMAIN q.tasks :
     LET t == q.tasks[m]
     IN  /\ \A r \in t.subscribers : /\ MetaOf(r.x) = m
                                      /\ PriorityOf(r) <= t.priority
         /\ \E r \in t.subscribers : PriorityOf(r) = t.priority
         /\ t.format = UNION {r.format : r \in t.subscribers}

(***************************************************************************)
(* A task is the sum of the requests merged into it (add_subscriber): they *)
(* all fall in its metatile, its priority is the highest of theirs, so     *)
(* that a high priority request is not slowed down by the bulk task it     *)
(* was merged with, and its formats are the union of theirs.               *)
(***************************************************************************)
TaskSumsUpSubscribers == \A b \in Brokers : QueueSums(queue[b])

(***************************************************************************)
(* No request is answered twice, or answered while it still waits, or      *)
(* waits in two brokers, whatever results come back and in whatever order  *)
(* (a worker that was given up on may return its result after another).    *)
(***************************************************************************)
AnsweredAtMostOnce ==
  /\ \A r \in Requests : Len(replies[r]) <= 1 /\ (replies[r] # << >> => r \in accepted)
  /\ \A b \in Brokers : \A r \in Waiting(b) : r \in accepted /\ replies[r] = << >>
  /\ \A b, c \in Brokers : Waiting(b) \cap Waiting(c) # {} => b = c

\* A step announces the work it makes available on a broker that had none.
AnnouncesNewWork ==
  \A b \in Brokers :
     (/\ accepted' # accepted
      /\ Available(queue[b]) = {}
      /\ Available(queue[b])' # {})
     => \A w \in Workers : Len(announce[w]) < AnnounceHWM =>
           Len(announce'[w]) = Len(announce[w]) + 1

(***************************************************************************)
(* A request that makes work available on a broker that had none is        *)
(* announced to every worker with room for the announcement, so that an    *)
(* idle worker does not have to wait for the next heartbeat.               *)
(***************************************************************************)
NewWorkIsAnnounced == [][AnnouncesNewWork]_brokerVars
-----------------------------------------------------------------------------
(***************************************************************************)
(* The brokers implement RenderService: pending is what waits in the task  *)
(* queues, answers counts the replies sent, and closed is what was         *)
(* accepted, is no longer queued and had no reply.                         *)
(***************************************************************************)
Service == INSTANCE RenderService WITH
  key     <- [r \in Requests |-> MetaOf(r.x)],
  pending <- [b \in Brokers |-> Waiting(b)],
  answers <- [r \in Requests |-> Len(replies[r])],
  closed  <- {r \in accepted : /\ \A b \in Brokers : r \notin Waiting(b)
                               /\ replies[r] = << >>}

ImplementsRenderService == Service!ServiceSpec
=============================================================================

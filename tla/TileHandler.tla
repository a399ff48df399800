----------------------------- MODULE TileHandler -----------------------------
(***************************************************************************)
(* The tile handler (tile_handler.cpp) on top of its storage worker: a     *)
(* request from mongrel2 goes to the storage worker, and what comes back   *)
(* is answered at once, sent to a broker with the client waiting, or       *)
(* answered and also sent to a broker as a background job.  The brokers    *)
(* are external here: they accept a job or put_job throws, they settle a   *)
(* job once (TileBroker, AnsweredAtMostOnce) or lose it.                   *)
(***************************************************************************)
EXTENDS StorageWorker

CONSTANTS
  Clients,                 \* mongrel2's connection ids, one request each
  Asks,                    \* Asks[c]: the requests client c may send
  m_queue_threshold_stale, m_queue_threshold_satisfy, m_queue_threshold_max,
  MaxQueueLength           \* bound: the longest average queue a heartbeat reports

Commands == {"cmdRender", "cmdStatus", "cmdDirty"}

\* The outcome of parsing a request is part of it: no mongrel2 message, a path
\* or style that is refused ("bad"), or one of the commands of the grammar.
Ask == [cmd : Commands \cup {"unparsable", "bad"}, tile : Tiles]

ASSUME HandlerAssumption ==
  /\ Clients \subseteq Nat \ {0}
  /\ Asks \in [Clients -> SUBSET Ask]
  /\ {m_queue_threshold_stale, m_queue_threshold_satisfy, m_queue_threshold_max,
      MaxQueueLength} \subseteq Nat

VARIABLES
  m_stale_render_background,  \* configuration, fixed at the start
  asked,    \* asked[c]: what client c sent; "nothing" until then
  mongrel,  \* requests that mongrel2 has sent and the handler has not read
  replies,  \* replies[c]: the status codes the handler sent to c
  ignored,  \* requests that were dropped without a reply: not parsable
  broker,   \* jobs that the brokers have accepted and not settled
  lost,     \* clients whose job a broker lost
  results   \* answers of the brokers that the handler has not read

handlerVars == <<m_stale_render_background, asked, mongrel, replies, ignored, broker, lost, results>>
vars == <<poolVars, handlerVars>>

NoClient == -1

HandlerInit ==
  /\ PoolInit
  /\ m_stale_render_background \in BOOLEAN
  /\ asked = [c \in Clients |-> "nothing"]
  /\ mongrel = <<>>
  /\ replies = [c \in Clients |-> <<>>]
  /\ ignored = {}
  /\ broker = {} /\ lost = {}
  /\ results = <<>>

Reply(c, code) == replies' = [replies EXCEPT ![c] = Append(@, code)]

\* mongrel2 passes a client's request on.
ClientSends(c) ==
  /\ asked[c] = "nothing"
  /\ \E ask \in Asks[c] :
       /\ asked' = [asked EXCEPT ![c] = ask.cmd]
       /\ mongrel' = Append(mongrel, TileProtocol(c, ask.cmd, ask.tile, FALSE))
  /\ UNCHANGED <<poolVars, m_stale_render_background, replies, ignored, broker, lost, results>>

handle_request_from_mongrel ==
  /\ mongrel # <<>>
  /\ mongrel' = Tail(mongrel)
  /\ LET tile == Head(mongrel)
     IN  \/ /\ tile.status = "unparsable"
            /\ ignored' = ignored \cup {tile.id}
            /\ UNCHANGED <<poolVars, replies>>
         \/ /\ tile.status = "bad"
            /\ Reply(tile.id, 404)
            /\ UNCHANGED <<poolVars, ignored>>
         \/ /\ tile.status \in Commands
            /\ storage_request' = Append(storage_request, tile)
            /\ UNCHANGED <<replies, ignored>>
            /\ UNCHANGED <<instantiated, pool, storage_results, queued_requests,
                           cur_concurrency, next_thread, threads_out, threads_in, stored>>
  /\ UNCHANGED <<m_stale_render_background, asked, broker, lost, results>>

\* reply_with_tile: 200 with the tile, or 500; the 304 branch needs an
\* If-Modified-Since time, which no request carries.
TileReply(tile) == IF tile.status \in {"cmdDone", "cmdIgnore"} /\ tile.data THEN 200 ELSE 500

\* send_to_queue: put_job either accepts the job or throws, and then a client
\* that is attached to the tile gets a 404.
SendToQueue(tile) ==
  \/ /\ broker' = broker \cup {tile}
     /\ UNCHANGED replies
  \/ /\ IF tile.id > 0 THEN Reply(tile.id, 404) ELSE UNCHANGED replies
     /\ UNCHANGED broker

\* The client waits for the rendered tile.
RenderAndWait(tile) == SendToQueue([tile EXCEPT !.status = "cmdRender"])

\* Mutant: the background job keeps the client's id.
BackgroundKeepsId(tile) ==
  [tile EXCEPT !.status = "cmdRenderBulk", !.data = FALSE]

Background(tile) ==
  [tile EXCEPT !.status = "cmdRenderBulk", !.data = FALSE, !.id = NoClient]

\* The client is answered now; the job goes to the queue without a client.
AnswerThenQueue(tile, code) ==
  LET answered == [replies EXCEPT ![tile.id] = Append(@, code)]
      job == Background(tile)
  IN  \/ broker' = broker \cup {job} /\ replies' = answered
      \/ /\ replies' = IF job.id > 0 THEN [answered EXCEPT ![job.id] = Append(@, 404)]
                       ELSE answered
         /\ UNCHANGED broker

StatusReply(tile) ==
  /\ Reply(tile.id, IF tile.data THEN 200 ELSE 404)
  /\ UNCHANGED broker

DirtyReply(tile, queue_length) ==
  IF queue_length >= m_queue_threshold_max
  THEN Reply(tile.id, 503) /\ UNCHANGED broker
  ELSE AnswerThenQueue(tile, 200)

NotDoneReply(tile, queue_length) ==
  IF queue_length >= m_queue_threshold_max
  THEN Reply(tile.id, 503) /\ UNCHANGED broker
  ELSE IF queue_length >= m_queue_threshold_satisfy
  THEN AnswerThenQueue(tile, 202)
  ELSE RenderAndWait(tile)

FoundReply(tile, queue_length) ==
  IF tile.status = "cmdDone" \/ queue_length >= m_queue_threshold_stale
  THEN Reply(tile.id, TileReply(tile)) /\ UNCHANGED broker
  ELSE IF m_stale_render_background
  THEN AnswerThenQueue(tile, TileReply(tile))
  ELSE RenderAndWait(tile)

\* Polled after mongrel; queue_length is what the heartbeats of the live
\* brokers say, here any value.
handle_response_from_storage ==
  /\ mongrel = <<>> /\ storage_results # <<>>
  /\ storage_results' = Tail(storage_results)
  /\ LET tile == Head(storage_results)
     IN  \/ tile.status = "cmdStatus" /\ StatusReply(tile)
         \/ \E q \in 0 .. MaxQueueLength :
              \/ tile.status = "cmdDirty" /\ DirtyReply(tile, q)
              \/ tile.status = "cmdNotDone" /\ NotDoneReply(tile, q)
              \/ tile.status \in {"cmdDone", "cmdIgnore"} /\ FoundReply(tile, q)
  /\ UNCHANGED <<m_stale_render_background, asked, mongrel, ignored, lost, results>>
  /\ UNCHANGED <<instantiated, pool, storage_request, queued_requests, cur_concurrency,
                 next_thread, threads_out, threads_in, stored>>

\* Polled last: an answer from a broker is passed on to its client.
reply_with_tile ==
  /\ mongrel = <<>> /\ storage_results = <<>> /\ results # <<>>
  /\ results' = Tail(results)
  /\ LET tile == Head(results)
     IN  IF tile.id < 0 THEN UNCHANGED replies ELSE Reply(tile.id, TileReply(tile))
  /\ UNCHANGED <<poolVars, m_stale_render_background, asked, mongrel, ignored, broker, lost>>

\* A broker settles a job: the renderer has stored the metatile, and an
\* answer goes out unless the job was a background one.
BrokerSettles(job) ==
  /\ job \in broker
  /\ broker' = broker \ {job}
  /\ \/ stored' = [stored EXCEPT ![job.tile] = "fresh"]
     \/ UNCHANGED stored
  /\ IF job.status = "cmdRenderBulk" THEN UNCHANGED results
     ELSE \E status \in {"cmdDone", "cmdNotDone"}, data \in BOOLEAN :
            /\ data => status = "cmdDone"
            /\ results' = Append(results, TileProtocol(job.id, status, job.tile, data))
  /\ UNCHANGED <<m_stale_render_background, asked, mongrel, replies, ignored, lost>>
  /\ UNCHANGED <<instantiated, pool, storage_request, storage_results, queued_requests,
                 cur_concurrency, next_thread, threads_out, threads_in>>

\* A broker is cleared or dies with a job; the handler keeps no timer.
BrokerLoses(job) ==
  /\ job \in broker
  /\ broker' = broker \ {job}
  /\ lost' = IF job.id > 0 THEN lost \cup {job.id} ELSE lost
  /\ UNCHANGED <<poolVars, m_stale_render_background, asked, mongrel, replies, ignored, results>>

HandlerStep ==
  handle_request_from_mongrel \/ handle_response_from_storage \/ reply_with_tile

HandlerNext ==
  \/ PoolNext /\ UNCHANGED handlerVars
  \/ HandlerStep
  \/ \E c \in Clients : ClientSends(c)
  \/ \E job \in broker : BrokerSettles(job) \/ BrokerLoses(job)

\* The handler's loop, the worker's loop and each I/O thread keep running, and
\* the brokers settle or lose what they accept.
HandlerSpec ==
  /\ HandlerInit /\ [][HandlerNext]_vars
  /\ WF_vars(HandlerStep)
  /\ WF_vars(PoolRequest /\ UNCHANGED handlerVars)
  /\ \A t \in Threads :
       /\ WF_vars(PoolResult(t) /\ UNCHANGED handlerVars)
       /\ WF_vars((ThreadLookup(t) \/ ThreadDirty(t) \/ ThreadException(t)) /\ UNCHANGED handlerVars)
  /\ WF_vars(\E job \in broker : BrokerSettles(job) \/ BrokerLoses(job))
-----------------------------------------------------------------------------
Found == {"cmdStatus", "cmdDirty", "cmdDone", "cmdIgnore", "cmdNotDone"}

\* A message for a client with one of the given statuses.
ForClient(statuses) == [id : Clients, status : statuses, tile : Tiles, data : BOOLEAN]

BackgroundJob ==
  [id : {NoClient}, status : {"cmdRenderBulk"}, tile : Tiles, data : BOOLEAN]

(* Every variable of handler and storage worker has its type: only the jobs *)
(* that a broker holds may be without a client.                            *)
HandlerTypeOK ==
  /\ instantiated \in BOOLEAN /\ pool \in {"running", "blocked", "ended"}
  /\ mongrel \in Seq(ForClient(Commands \cup {"unparsable", "bad"}))
  /\ storage_request \in Seq(ForClient(Commands))
  /\ queued_requests \in Seq(ForClient(Commands))
  /\ threads_out \in [Threads -> Seq(ForClient(Commands))]
  /\ threads_in \in [Threads -> Seq(ForClient(Found))]
  /\ storage_results \in Seq(ForClient(Found))
  /\ results \in Seq(ForClient({"cmdDone", "cmdNotDone"}))
  /\ broker \subseteq ForClient({"cmdRender"}) \cup BackgroundJob
  /\ cur_concurrency \in 0 .. max_io_threads
  /\ next_thread \in Threads
  /\ stored \in [Tiles -> {"absent", "expired", "fresh"}]
  /\ m_stale_render_background \in BOOLEAN
  /\ asked \in [Clients -> Commands \cup {"nothing", "unparsable", "bad"}]
  /\ replies \in [Clients -> Seq({200, 202, 404, 500, 503})]
  /\ ignored \subseteq Clients /\ lost \subseteq Clients

LineNames == {"mongrel", "storage_request", "queued_requests", "threads_out", "threads_in",
              "storage_results", "results"}

\* The queues that a request goes through; t is 0 but for those of thread t.
Line(name, t) ==
  CASE name = "mongrel" /\ t = 0         -> mongrel
    [] name = "storage_request" /\ t = 0 -> storage_request
    [] name = "queued_requests" /\ t = 0 -> queued_requests
    [] name = "threads_out" /\ t > 0     -> threads_out[t]
    [] name = "threads_in" /\ t > 0      -> threads_in[t]
    [] name = "storage_results" /\ t = 0 -> storage_results
    [] name = "results" /\ t = 0         -> results
    [] OTHER                             -> <<>>

\* Where a queue holds a message of client c, and which jobs are the client's.
At(q, c) == {i \in 1 .. Len(q) : q[i].id = c}
Jobs(B, c) == {job \in B : job.id = c}

\* The places where the request of client c, or what became of it, is.
Places(c) ==
  (UNION {{<<s[1], s[2], i>> : i \in At(Line(s[1], s[2]), c)} :
            s \in LineNames \X ({0} \cup Threads)})
  \cup {<<"broker", 0, job>> : job \in Jobs(broker, c)}
  \cup {<<"replies", 0, i>> : i \in 1 .. Len(replies[c])}
  \cup {<<"ignored", 0, d>> : d \in {c} \cap ignored}
  \cup {<<"lost", 0, d>> : d \in {c} \cap lost}

(* A client's request is always in exactly one place: on its way through   *)
(* the handler, the pool or a broker, answered by exactly one reply,       *)
(* dropped as unparsable, or lost by a broker.  So no client ever gets two *)
(* replies, not even when the background job that follows an early reply   *)
(* is refused by the queue (handle_response_from_storage, send_to_queue,   *)
(* reply_with_tile).                                                       *)
OnePlacePerRequest ==
  \A c \in Clients : Cardinality(Places(c)) = IF asked[c] = "nothing" THEN 0 ELSE 1

(* Every request that mongrel2 passes on and the handler can parse is      *)
(* answered in the end, with storage exceptions, queue errors and full     *)
(* thread pools, provided the storage could be instantiated and no broker  *)
(* lost the job (tile_handler::operator(), storage_worker::operator()).    *)
EveryClientAnswered ==
  \A c \in Clients :
     (instantiated /\ asked[c] \in Commands) ~> (replies[c] # <<>> \/ c \in lost)

(* The types of handler and storage worker, and the exact count of busy    *)
(* threads in storage_worker::operator().                                  *)
HandlerInv == HandlerTypeOK /\ PoolCountIsExact

(* "don't change the status if the command was for the status, otherwise   *)
(* the handler won't know it was a status query and not a render request"  *)
(* (handle_tile): a status query is answered from the storage and never    *)
(* becomes a job of a broker.                                              *)
StatusQueryStaysOne ==
  \A job \in broker : job.id \in Clients => asked[job.id] # "cmdStatus"
=============================================================================

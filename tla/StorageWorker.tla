---------------------------- MODULE StorageWorker ----------------------------
(***************************************************************************)
(* The handler's storage worker (storage_worker.cpp): one thread that      *)
(* hands lookups to a fixed pool of I/O threads over inproc sockets and    *)
(* queues the rest, and the I/O threads that do the blocking storage       *)
(* calls.  A thread that cannot instantiate its storage returns before it  *)
(* connects its sockets, so the worker either blocks on its first send or  *)
(* notices the death of all threads and leaves its loop.                   *)
(***************************************************************************)
EXTENDS Integers, Sequences, FiniteSets

CONSTANTS
  max_io_threads,  \* the configured size of the pool
  Tiles,           \* a tile stands for its style and coordinates
  dirty_list       \* dirty_list[t]: the same tile in the styles that depend on t's

ASSUME PoolAssumption ==
  /\ max_io_threads \in Nat \ {0}
  /\ dirty_list \in [Tiles -> SUBSET Tiles]

VARIABLES
  instantiated,     \* get_tile_storage() returned a storage to the threads
  pool,             \* the worker's loop: running, blocked in a send, or ended
  storage_request,  \* inproc: handler to worker
  storage_results,  \* inproc: worker to handler
  queued_requests,  \* lookups that wait for a thread
  cur_concurrency,  \* the worker's count of busy threads
  next_thread,      \* the thread the PUSH socket turns to next
  threads_out,      \* threads_out[t]: lookups sent to thread t and not done
  threads_in,       \* threads_in[t]: answers of thread t the worker has not read
  stored            \* what the storage holds for each tile

poolVars == <<instantiated, pool, storage_request, storage_results, queued_requests,
              cur_concurrency, next_thread, threads_out, threads_in, stored>>

Threads == 1 .. max_io_threads

\* A tile_protocol, as far as the handler looks at it: the status doubles as
\* the command, and data says whether there is a tile to show: for a status
\* query a last-modified time will do.
TileProtocol(id, status, tile, data) ==
  [id |-> id, status |-> status, tile |-> tile, data |-> data]

PoolInit ==
  /\ instantiated \in BOOLEAN
  /\ pool = "running"
  /\ storage_request = <<>> /\ storage_results = <<>> /\ queued_requests = <<>>
  /\ cur_concurrency = 0
  /\ next_thread = 1
  /\ threads_out = [t \in Threads |-> <<>>]
  /\ threads_in = [t \in Threads |-> <<>>]
  /\ stored \in [Tiles -> {"absent", "expired", "fresh"}]

\* zmq PUSH: the peers take turns, busy or not.
ToNextThread(tile) ==
  /\ threads_out' = [threads_out EXCEPT ![next_thread] = Append(@, tile)]
  /\ next_thread' = (next_thread % max_io_threads) + 1

\* A new lookup is started or put on the pending queue.
StartOrQueue(tile) ==
  IF cur_concurrency < max_io_threads
  THEN /\ ToNextThread(tile)
       /\ cur_concurrency' = cur_concurrency + 1
       /\ UNCHANGED queued_requests
  ELSE /\ queued_requests' = Append(queued_requests, tile)
       /\ UNCHANGED <<cur_concurrency, threads_out, next_thread>>

PoolRequest ==
  /\ pool = "running" /\ storage_request # <<>>
  /\ instantiated
  /\ storage_request' = Tail(storage_request)
  /\ StartOrQueue(Head(storage_request))
  /\ UNCHANGED <<instantiated, pool, storage_results, threads_in, stored>>

\* No thread ever connected: the send of the first lookup blocks for ever.
PoolBlocks ==
  /\ pool = "running" /\ storage_request # <<>>
  /\ ~instantiated
  /\ pool' = "blocked"
  /\ UNCHANGED <<instantiated, storage_request, storage_results, queued_requests,
                 cur_concurrency, next_thread, threads_out, threads_in, stored>>

\* Mutant: the thread is counted idle although it got the next queued lookup.
IdleAnyway ==
  /\ cur_concurrency' = cur_concurrency - 1
  /\ IF queued_requests # <<>>
     THEN /\ ToNextThread(Head(queued_requests))
          /\ queued_requests' = Tail(queued_requests)
     ELSE UNCHANGED <<queued_requests, threads_out, next_thread>>

\* Mutant: the queued lookups are left where they are.
IdleOnly ==
  /\ cur_concurrency' = cur_concurrency - 1
  /\ UNCHANGED <<queued_requests, threads_out, next_thread>>

\* The thread whose answer was read takes the next queued lookup or becomes idle.
NextOrIdle ==
  IF queued_requests # <<>>
  THEN /\ ToNextThread(Head(queued_requests))
       /\ queued_requests' = Tail(queued_requests)
       /\ UNCHANGED cur_concurrency
  ELSE /\ cur_concurrency' = cur_concurrency - 1
       /\ UNCHANGED <<queued_requests, threads_out, next_thread>>

PoolResult(t) ==
  /\ pool = "running" /\ threads_in[t] # <<>>
  /\ threads_in' = [threads_in EXCEPT ![t] = Tail(@)]
  /\ storage_results' = Append(storage_results, Head(threads_in[t]))
  /\ NextOrIdle
  /\ UNCHANGED <<instantiated, pool, storage_request, stored>>

\* All threads are found dead at one check: the exception leaves the loop and
\* is swallowed.
CheckThreadDeath ==
  /\ pool = "running" /\ ~instantiated
  /\ pool' = "ended"
  /\ UNCHANGED <<instantiated, storage_request, storage_results, queued_requests,
                 cur_concurrency, next_thread, threads_out, threads_in, stored>>

\* What one storage->get() makes of a lookup.  The read of the data may fail
\* silently; a fresh tile has a last-modified time, an expired one may not.
Looked(tile) ==
  LET status == IF tile.status = "cmdStatus" THEN "cmdStatus"
                ELSE [fresh |-> "cmdDone", expired |-> "cmdIgnore",
                      absent |-> "cmdNotDone"][stored[tile.tile]]
      shown == CASE stored[tile.tile] = "absent" -> {FALSE}
                 [] stored[tile.tile] = "fresh" /\ status = "cmdStatus" -> {TRUE}
                 [] OTHER -> BOOLEAN
  IN  {TileProtocol(tile.id, status, tile.tile, data) : data \in shown}

\* storage->expire() on the tile and its dependents; a call may fail unnoticed.
Expirable(tile) == {tile} \cup dirty_list[tile]

Expire(S) == [t \in Tiles |-> IF t \in S /\ stored[t] # "absent" THEN "expired"
                              ELSE stored[t]]

Respond(t, tile) ==
  /\ threads_out' = [threads_out EXCEPT ![t] = Tail(@)]
  /\ threads_in' = [threads_in EXCEPT ![t] = Append(@, tile)]
  /\ UNCHANGED <<instantiated, pool, storage_request, storage_results, queued_requests,
                 cur_concurrency, next_thread>>

ThreadLookup(t) ==
  /\ threads_out[t] # <<>>
  /\ Head(threads_out[t]).status # "cmdDirty"
  /\ \E tile \in Looked(Head(threads_out[t])) : Respond(t, tile)
  /\ UNCHANGED stored

ThreadDirty(t) ==
  /\ threads_out[t] # <<>>
  /\ Head(threads_out[t]).status = "cmdDirty"
  /\ \E S \in SUBSET Expirable(Head(threads_out[t]).tile) : stored' = Expire(S)
  /\ Respond(t, Head(threads_out[t]))

\* An exception in the storage, whatever the command was, reports "not done";
\* a dirty command may have expired some of its tiles by then.
ThreadException(t) ==
  /\ threads_out[t] # <<>>
  /\ Respond(t, [Head(threads_out[t]) EXCEPT !.status = "cmdNotDone"])
  /\ IF Head(threads_out[t]).status = "cmdDirty"
     THEN \E S \in SUBSET Expirable(Head(threads_out[t]).tile) : stored' = Expire(S)
     ELSE UNCHANGED stored

PoolNext ==
  \/ PoolRequest
  \/ PoolBlocks
  \/ CheckThreadDeath
  \/ \E t \in Threads : PoolResult(t) \/ ThreadLookup(t) \/ ThreadDirty(t) \/ ThreadException(t)

\* Out with the threads: sent to one and not read back by the worker.
Out ==
  UNION {{<<"threads_out", t, i>> : i \in 1 .. Len(threads_out[t])}
         \cup {<<"threads_in", t, i>> : i \in 1 .. Len(threads_in[t])} : t \in Threads}

(* The count of busy threads is exact, whatever order the answers come in: *)
(* it equals the lookups that are out with the threads, it never exceeds   *)
(* the size of the pool, and no lookup waits in queued_requests while a    *)
(* place is free (storage_worker::operator()).                             *)
PoolCountIsExact ==
  /\ cur_concurrency = Cardinality(Out)
  /\ cur_concurrency <= max_io_threads
  /\ queued_requests # <<>> => cur_concurrency = max_io_threads
=============================================================================

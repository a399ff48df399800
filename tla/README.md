# The MapQuest render stack in TLA+

This directory holds a TLA+ model of the render stack: the handlers that take tile
requests, the brokers that queue them, the workers that render them, the storages that
keep the tiles, the expiry service, the tools, and the protocols between them. Modules,
TLC configurations and TLAPS proofs are kept together; `PROJECT.json` says which
definition models which lines.

## 1. The system

A client's HTTP request reaches a **handler** through mongrel2. The handler looks the tile
up in the **storage** (through its **storage worker**, a pool of I/O threads). What is not
there, or expired, is sent as a job to one of the **brokers**, chosen by a consistent hash
over the metatile (8x8 tiles). A broker keeps a **task queue** in which requests for the
same metatile are merged. **Workers** hear announcements of the brokers, ask for jobs,
render a metatile, save it, and send the result back to the broker, which cuts out a tile
for each waiting request and answers the handlers. A broker's **monitor thread** makes it
send heartbeats and resubmit jobs that were out for too long. Tiles are expired by clients
("dirty"), by tools and through the **expiry server**.

### Inventory

| Component | State | Operations | Talks to | Hard about it | What makes it correct |
|---|---|---|---|---|---|
| task queue, `task_queue.hpp` | tasks in four indexes (metatile, priority+time, timestamp) | push/merge, front, set_processed, erase, resubmit_older_than | owned by the broker | modifies the index it iterates over; merging into running tasks | a task sums up its requests; every zombie is found |
| broker, `tile_broker_impl.cpp` | queue, sockets, running flag | request, GET_JOB, result, CLEAR, RESUBMIT, HEARTBEAT, STATS, SHUTDOWN | handlers, workers, monitor thread, operator | late and duplicate results, priority changes, lost announcements | one answer per request; new work is announced |
| monitor thread, same file | two countdown timers | send a command, wait for the reply, sleep | broker main thread | two threads that wait for each other at shutdown | commands go on; shutdown ends |
| worker communicator, `dqueue/zmq_backend.cpp` | state machine, current broker, known brokers, retry timer | read responses, announcements, inproc messages; retry | brokers, worker code | a timeout that races the late answer | results go to the broker of the job; no job is lost except by a timeout |
| worker loop, `py/worker.py` | the job in hand | get job, check storage, render, save, notify; exit over memory limit | communicator, storage | crash with a job | every job comes back or is resubmitted |
| handler, `tile_handler.cpp` | mongrel id, thresholds | request, storage answer, broker answer | mongrel2, storage worker, brokers | early reply followed by a background job that fails | one reply per request |
| storage worker, `storage_worker.cpp` | busy count, pending lookups, threads | lookup, answer, death check | handler, I/O threads | out-of-order answers, full pool, dead threads | count exact, nothing waits beside a free place |
| handler routing, `zmq_backend.cpp`, `consistent_hash.hpp`, `distributed_queue.cpp` | heartbeat table, hash ring, settle time, callbacks | send, heartbeat, queue_length, settle | brokers | stale liveness, ring collisions, settling | ring = live brokers; jobs for one metatile meet at one broker |
| queue runner, `dqueue/distributed_queue.cpp` | handlers of jobs, back end | put_job, queue_length, poll | back end | a length from brokers heard of long ago | a job is put when the queues are short |
| pgq backend, `dqueue/pgq_backend.cpp` | job table, transactions | send, get_job, notify | PostgreSQL | its send quotes twice and fails (section 6) | a job is taken by one worker |
| LTS storage, `storage/lts_storage.cpp`, `http_storage.cpp` | two copies of each tile on hosts, marks of hosts that are down | get, get_meta, put_meta, expire | storage nodes, by HTTP | one of several requests fails; stale marks; copies of different age | a put that succeeded is stored; what was expired is not fresh |
| storage node, `storage_node/` | tile files, one expiry bit per metatile | put, get, expire | LTS storage | a bit shared by tiles that are stored one by one | see LTS storage |
| disk storage, `storage/disk_storage.cpp`, `meta_tile.cpp` | metatile files, a shared read buffer | get, get_meta, put_meta, expire | file system | files replaced between two system calls, short writes | whole metatiles; an expired tile is not fresh |
| composed storages, `union_`, `per_style_`, `compositing_storage.cpp`, `expiry_overlay.cpp`, `tile_storage.cpp` | the storages inside | get, put_meta, expire, creation from a configuration | storages, expiry service | one storage of several fails; two remote calls that are not one | the last put is served; an expiry is not lost; the storage described is the one made |
| metatile format, `meta_tile.cpp`, `http_storage.cpp`, `simple_http_storage.cpp`, `py/metatile.py` | none | write, read a tile | workers, brokers, storages | several writers and readers, low zoom levels, cut-off data | what was written is read, by any reader |
| expiry service, `storage/expiry_server.cpp`, `expiry_service.cpp` | marks by fragment, primary/backup state | set, get, heartbeats, failover | overlay, its peer | two servers and who is active; restart | never two active; every call returns |
| HTTP client, `http/http.cpp` | curl handles and their options, a pool of them | get, post, delete, head, batches | storages, tools | options left on a handle; handles refused or reported in any order | a batch answers each request once |
| tile submitter, `tile_submitter.cpp` | input, wait state | read, wait, put | runner | brokers that die while it waits | it ends; queues stay short |
| expire_tiles, `expire_tiles.cpp` | metatiles, threads, queues per host | read, collect relatives, split, batch | storages | leftovers of split and batches, an exception in a batch | every tile collected is expired |
| broker control, `broker_ctl.cpp` | none | a command and its reply | broker | the reply at shutdown | see monitor |
| parsers, style rules, logging, renderer, images | little of their own | | | I/O and formatting | not modelled, see section 6 |

## 2. The modules

| Module | Models | Extends |
|---|---|---|
| `TaskQueue` | `task_queue.hpp`: the queue as a record of tasks and two index sequences, its operations as operators | |
| `Channels` | the ZeroMQ channels that brokers and workers share | |
| `TileBroker` | the broker's poll loop, one action per branch | `TaskQueue`, `Channels` |
| `RenderService` | abstract: what brokers promise to handlers | |
| `TileBrokerProofs` | theorems about `TileBroker` | `TileBroker`, `LeastElement` |
| `TaskMonitor` | the monitor thread, the broker's monitor socket and an operator with `broker_ctl` | |
| `TaskCommunicator` | `task_communicator` with `get_job`/`notify`, and the worker loop | `Channels` |
| `RenderQueue` | brokers and workers composed | `TileBroker`, `TaskCommunicator` |
| `RenderQueueProofs` | theorems about brokers and workers together | `RenderQueue`, `TileBrokerProofs` |
| `StorageWorker` | the storage worker and its I/O threads | |
| `TileHandler` | the handler on top of `StorageWorker`, brokers external | `StorageWorker` |
| `TileHandlerProofs` | theorems about handler and storage worker | `TileHandler` |
| `HandlerRouting` | `zmq_backend_handler` and `consistent_hash`: heartbeats, live brokers, settling, the ring, the queue length | |
| `HandlerRoutingProofs` | theorems about `HandlerRouting` | `HandlerRouting`, `LeastElement` |
| `Recursions` | powers of two, sums and joins of a sequence, as recursive functions | |
| `LeastElement` | lemmas on natural numbers, sequences and the functions of `Recursions` that several proof modules use | `Recursions` |
| `StorageNode` | a storage node: files, the expiry bit, what is served as fresh | |
| `LtsStorage` | `lts_storage` put_meta, get_meta, expire and the batches of expire_tiles, one HTTP request per step | `StorageNode` |
| `LtsGet` | `lts_storage::get` with its marks of hosts that are down | `StorageNode` |
| `DiskStorage` | `disk_storage`, one system call per step | |
| `TileStorages` | union, per-style and compositing storage, composed | |
| `StorageConfig` | the factory: from a section of the configuration to a tree of storages | |
| `ExpiryOverlay` | `expiry_overlay` over a storage and the expiry service | |
| `StorageProofs` | theorems about LTS, disk, overlay and composed storages, the factory and single requests, and of all these side by side | `MCStorages`, `FormatProofs` |
| `MetaTile` | writers and readers of the metatile format | `Recursions` |
| `TileIndex` | the three numberings of metatiles: fragments, bits, file paths | `Recursions` |
| `FormatProofs` | theorems about the metatile format and the numberings | `TileIndex`, `MetaTile`, `LeastElement` |
| `ExpiryServer` | the pair of expiry servers and `request_with_failover` | |
| `HttpConnection` | single requests on a persistent handle | |
| `HttpBatch` | abstract: what a batch of HTTP requests promises | |
| `HttpMulti` | `do_multi_requests`, the loop under the batches | |
| `TileSubmitter` | the tile submitter on the queue runner | |
| `ExpireTiles` | the expire_tiles tool | `Recursions` |
| `ClientProofs` | theorems about the HTTP loop, expiry servers, LTS gets, submitter, expire_tiles and monitor, and of all these side by side | `MCClients`, `LeastElement` |
| `MC*` | instances for TLC | |

**Correspondence.** `queue[b].tasks` maps a metatile to its task; `arrivals` and `stamps`
are the insertion order within the priority index and the timestamp index. A time stamp is
kept as the task's age, capped at `ZombieTime`. A tile is its x coordinate on one row
(`MetaOf` clears the low bits, as the code does with `METATILE`), which keeps merging and
drops the second coordinate, zoom and style. A job's format mask is a set of formats, a
metatile's data the set of formats it was rendered in, and `CutOut` what `metatile_reader`
finds for a tile and format. In the communicator, `state`, `current_broker` and
`brokers_with_jobs` are the class's members; each branch of the poll loop is an action
that stands for the whole branch with the sends it ends in. In `TileHandler` the status of
a message is both command and outcome, as in `tile_protocol`; the sockets' order of
service in `operator()` (mongrel, then storage, then brokers) is in the guards. The
configured `m_stale_render_background` and whether the storage can be instantiated are
variables that `Init` chooses and nothing changes, so one run covers both.

For the storages, a tile's content is the version that was put. `LtsStorage` sees one
metatile: its tiles are numbers in the order of the urls, `HashedHost` is where the first
copy of a tile lies and the second is on the next host. A batch is what `HttpBatch`
promises, which `HttpMulti` is shown to implement: its requests are carried out in any
order, all of them even if one fails. `DiskStorage` keeps a file as version, size meant,
length written and formats, with modification time 0 as the expiry mark, as in the code.
`ExpiryServer` counts time in heartbeats and has the state machine's table as it is in
`fsm::event`; a restarted server has no marks. `ExpiryOverlay` makes each of the two
remote calls of an operation a step; several puts of one tile may be open at once, since
nothing in the code keeps them apart. `TileStorages` composes one storage of each kind; a
leaf behaves like a disk storage: a copy has a version and a modification time, which
expire overwrites with the epoch, and the time stands for the second of the put (no two
puts in the same second). In `StorageConfig` a key is a sequence of names, which
is what matters of the dots in `under.a.type`; `create` is written out for the two levels
of nesting that the sections describe. `MetaTile` keeps offsets and sizes as numbers and a
byte as the tile it belongs to. `TileIndex` has the real bit operations on coordinates of
the real size, a word as the set of its bits that are set. `HttpConnection` has the
options that a curl handle keeps between calls. In `ExpireTiles` the order in which
`boost::unordered_set` comes to its elements is a constant, `OrderOf`, of which only
`OrderAssumption` is known: each element comes once.

**Recursion.** `child_tiles` and `parent_tiles` are recursive functions over the levels
that are left, running offsets and joined contents come from `SumTo` and `Joined`, and the
factory's calls of itself are unfolded. No module has a RECURSIVE operator, so that all of
them can be proved about.

**External.** `std::time`, curl, the file system, ZeroMQ (ordered channels that lose
messages only with their process, PUB sockets that drop when full, PUSH sockets that take
turns), mongrel2, and for `TileHandler` the brokers.

## 3. The runs

| Run | Expect | Shows |
|---|---|---|
| `broker` | pass | One broker, one worker channel, three requests in two formats on two metatiles (an interactive and a bulk one that merge), workers that return any result at any time. Types, merging, at most one answer, announcement of new work, and refinement of `RenderService`. |
| `communicator` | pass | One worker against two brokers that answer when they like, with two timeouts and a crash. The cases that the code's comments call impossible do not happen; results go home; a job is dropped only after a timeout. |
| `queue` | pass | One broker, two workers, a retry timeout, RESUBMIT, CLEAR and SHUTDOWN: a metatile is with two workers only after a resubmission or a clear, and no request is answered twice. |
| `liveness` | pass | Every interactive request is answered in spite of a retry timeout and a crash; available work does not stay beside an idle worker. |
| `handler` | pass | Three clients, two I/O threads, storage exceptions, refused and lost jobs: exact pool count, one place and one reply per request, every request answered. |
| `routing` | pass | One handler and three brokers with two ring points each; brokers start, die and publish, subscriptions are renewed (which drops heartbeats), queues are short. The ring holds exactly the live brokers' points, a metatile moves only when it has to, a broker that never died is never taken for dead, a running broker is used in the end, and a silent one is dropped. |
| `storages` | pass | Storages and what they are built on, one component in each behaviour. LTS: two clients that put, expire and read while hosts fail, answer with errors or lose their message to the expiry server; a put that succeeded is in one copy in full (`PutIsStored`), what was expired is not served as fresh (`ExpiredIsNotFresh`). Disk: files replaced between the system calls of a read (`FreshWasFresh`). Overlay: two overlapping puts, expires and gets interleaved between their remote calls (`FreshIsNotStale`). Composed: puts and expires that fail half way (`UnionServesLast`). The factory makes what is described, at two levels of nesting (`MadeAsDescribed`). Three writers against three readers of the metatile format (`ReadBack`), and three numberings against a set of metatiles (`TileIndexesAgree`). `StoragesInv` has types and the other safety of each. |
| `clients` | pass | Clients of remote services and tools, one in each behaviour, with liveness. The HTTP loop implements `HttpBatch` and ends unless it has no connection left. Two expiry servers with crashes and restarts: never two active, a client that fails over does not stop the server that is left, every call returns. The submitter ends unless a broker dies. A tile that could not be read is found again after the hosts return. expire_tiles forgets nothing it has collected. The monitor thread's commands keep coming, and a shutdown that meets it asleep ends. `ClientsInv` has types and the other safety of each. |
| `shutdown_completes` | violation | SHUTDOWN while the monitor thread waits for a reply: join never returns. |
| `status_rendered` | violation | A storage exception turns a status query into a render job. |
| `silent_broker` | violation | With two brokers that may report a long queue: one that does so and dies keeps the average above the maximum, and the handler never sends, nor looks at liveness, again. |
| `expire_children` | violation | With expire-up-to, of a metatile's descendants only those of its first tile are expired. |

In `storages` and `clients` a behaviour belongs to one component, which the initial state
chooses; the others rest in a fixed state. The components share no state in these runs, so
nothing is lost against a run for each, and each keeps its own fairness.

**Bounds, and why they are enough.** Two tiles per metatile and two metatiles give every
merge and every order of two tasks in an index; two formats make the union differ from its
parts; `ZombieTime` 1 or 2 separates young from old; announcement and worker queues of
length 1 make a full queue the common case. `MaxTimeouts` and `MaxCrashes` bound the
faults of the worker; each run uses as many as its property needs to be threatened once or
twice. Three clients over two I/O threads fill the pool, queue a lookup and let answers
overtake each other, and the three queue lengths fall on each side of both thresholds
(`stale` and `satisfy` are used in different branches, so one value serves for both).
Workers are a symmetry set in `queue`, where no liveness is checked. In `routing` a tick
is one heartbeat interval, the liveness time is four of them and the renewal interval two;
the keys lie before, between, on and after the ring's points, so that lookups wrap around.
One death, any number of starts.

In `storages`, two tiles whose copies lie crosswise on two hosts make a bit of a host
cover the first copy of one tile and the second of another; two versions, three operations
and one failure let a put meet another put, an expire or a read on both sides of the
failure. On disk two puts, one of them cut short, meet each system call of a read; one
file descriptor is enough to lose it. The overlay has three expiries and three stores, one
before, one between and one after the calls of another, and two putters, so that either
may be the first to clear the mark and the last to store. Two styles, one of them with a
storage of its own, and three puts give the composed storages copies of different age.
Sections describe trees of storages two deep with names used twice. Metatiles have a side
of 4 and zoom levels 0 to 2, so that a level is smaller than, and as large as, a metatile;
sizes include empty tiles. `TileIndex` takes the tiles at the corners of zoom levels 3, 4,
5, 13, 14, 17 and 18, with the real side of 8: where fields of the packed number begin to
fill and where they end. Uploads of 0 to 5 bytes go through buffers of 1 to 3.

In `clients`, three connections and up to three requests, with a configured concurrency of
0, 1, 2 or 5 (below and above both); one client and two faults for the expiry servers,
enough for a crash of either, of both, and a restart; two brokers with queues up to 2 and
one death; batches of one url over one or two threads with one error; heartbeats every 4 s
and resubmissions every 7 s, so that the timers drift against each other.

Runs whose systems may come to rest (`handler`, `storages`, `clients`: all clients
answered, calls or operations used up, tool or broker exited) do not check for deadlock.

**Fairness.** `FairSpec` gives weak fairness to each input of the broker's poll loop (the
loop looks at every socket on each round), to the worker code, to each of the
communicator's inputs, and to the clock. The communicator's loop prefers responses of
brokers over announcements over inproc messages; that order is in the actions' guards, and
each input drains, so weak fairness per input is what the loop provides. The monitor
thread's commands are fair because `TaskMonitor` shows that they keep coming
(`CommandsKeepComing`). `HandlerSpec` is fair to the handler's loop as a whole (the
priorities are guards, and there are finitely many requests), to the worker's two inputs
(both are served on each round), to each I/O thread, and assumes that a broker settles or
loses what it has accepted. `RoutingSpec` assumes that requests which need rendering keep
coming (a job is sent again and again unless the handler refuses it), that running brokers
publish on time and that the handler reads what was published before the next tick: its
loop polls all sockets and does not block. In `clients`: the HTTP loop is weakly fair,
since it never blocks for longer than a second, and the end of a transfer strongly so,
since each round offers it again; the code sets no limit to the time of a transfer, so
that a host which took a connection answers or closes it is an assumption; expiry servers
poll both sockets, publish on time and are assumed to be started again (for
`EveryCallReturns`); the submitter, threads of expire_tiles and of the broker are
scheduled; workers take jobs from a running broker. `FoundAgain` assumes that hosts stay
up and no request to them fails from some point, and that clients go on asking. No
fairness is given to crashes, timeouts, operator commands, or a storage call's success.

**Mutants.** For each property of a passing run `PROJECT.json` names a mutated operation
(the operators marked "Mutant" in the modules) under which TLC finds the property
violated.

## 4. The proofs

`TileBrokerProofs` proves, for any sets of brokers, workers, requests and formats, any
metatile size and zombie time (the assumptions named in `TaskQueue` and `TileBroker`,
which TLC evaluates on the instances):

- `BrokerTypes`: types of queue, channels and answers;
- `TasksAlwaysSumUp`: merged requests are summed up by their task;
- `NeverAnsweredTwice`: at most one answer per request, and none while it waits;
- `NewWorkAlwaysAnnounced`: a request that makes work available on a broker that had none
  is announced to every worker with room for it;
- `BrokersImplementService`: the brokers implement `RenderService`.

The argument: `BrokerInv` is the conjunction of the first three properties and of
`IndexesAgree`, that each task is in each index once, and is inductive. `IndexesAgree` is
the container's own guarantee, and is said only because sequences stand for its indexes.
None of the later parts is inductive alone. That an answer goes out once needs
that the requests of the erased task wait nowhere else; that rests on every subscriber
falling into its task's metatile (`QueueSums`); and erase removes exactly one task only
because each index holds it exactly once (`QueueIndexes`). The proof first shows that each
operation of the queue keeps `QueueInv` and what it does to the set of subscribed requests
(`SubscribedPush`, `SubscribedErase`), then lifts that to each action. `front` and
`OldestZombie` are CHOOSE expressions; that they choose something follows from
`FirstInIndex`, which takes the least position in an index (`LeastNatural`, from the
well-foundedness of the naturals). For the refinement, a request is an Accept, a result
whose task is queued a Settle of all the requests it sums up, CLEAR a Forget, and all else
leaves the set of waiting requests alone.

`RenderQueueProofs` proves, for any brokers, workers, requests and formats and any number
of timeouts and crashes, about brokers and workers together:

- `WorkersAreNeverSurprised`: `WorkerInv`, with the cases the code's comments call
  impossible (`NeverSurprised`) and results that go to the broker of their job
  (`ResultGoesHome`);
- `DropsFollowTimeouts`: a job is thrown away only after a timeout or a restart;
- `NothingIsRenderedTwice`: a metatile is with two workers only after a resubmission or a
  clear;
- `RenderQueueImplementsService` and `BrokersStaySound`: what is proved of the brokers
  with workers that may send anything holds of the composition.

`RenderInv` adds three things to `BrokerInv`. `InStep`: what is in the two inproc queues
of a worker follows from the communicator's state, so that a result meets the broker its
job came from. `AskedOnce`: before a timeout or crash, one request of a worker is out, and
it expects the answer. For duplicates, `EachOneCopy`: a job that was not recalled is in at
most one place on its way to a worker, in it and back, and its task is marked processed
while it is. The last half is what makes it inductive, since `front` gives out unprocessed
tasks only. Each action either leaves the copies of a job alone (`CopyStays`) or moves one
to the next stage (`CopyMoves`); an action has one lemma for each part of the invariant
that it can disturb.

`TileHandlerProofs` proves, for any clients, tiles and I/O threads:

- `PoolIsNeverOverbooked`: types, and `PoolCountIsExact`: `cur_concurrency` is the number
  of lookups out with the threads and at most their number, and none waits beside a free
  place;
- `RequestsAreNeverDoubled`: a client's request is in exactly one place
  (`OnePlacePerRequest`).

The first rests on the lookups out being a finite set to which a send adds one place and
from which an answer takes one (`Grown`, `Shrunk`). For the second, a cardinality over all
queues is nothing to prove with; `EachOneSpot` says instead that for each client one spot
(a queue, the jobs at brokers, or one of the ends) holds one thing and the others nothing.
Every action leaves what the spots hold of a client as it is (`SpotStays`), or takes it
from one and puts it into another (`SpotMoves`). A background job has no client, which is
why an early reply and the job that follows it are not two.

`HandlerRoutingProofs` proves, for any brokers, keys, ring points and times (from
`RoutingAssumption` and `NoCollision`: no two brokers share a point):

- `RoutingTypeCorrect`: types;
- `RingIsExact`: the ring is determined by the set of live brokers;
- `MovesOnlyWhenNecessary`: a metatile changes its broker only when the old one has gone
  or the new one has come;
- `PunctualBrokersStay`: a broker that never died is never taken for dead, provided the
  subscriptions are renewed at most every other heartbeat and the liveness time is more
  than three heartbeats (`TimesSuffice`; the defaults are 3600 s and 30 s, with heartbeats
  every 5 s).

The invariant is types with `RingHoldsTheLive`. An update erases the points of the brokers
that have gone and inserts those of the brokers that have come; without collisions the
erased points belong to no one else (`UpdateKeepsRing`), and no other action touches marks
or ring. For the moves: the point found in the old ring is still in the new one when its
broker stayed live, and the other way round, and two rings that hold each other's answer
have the same answer (`SamePoint`, whose case distinction is the wrap-around of `lookup`).
`NoCollision` is needed: `erase` removes a point by its value, whoever owns it.

For the heartbeats, `PunctualAreHeard` relates a broker's age to when the next renewal is
due. After a renewal that dropped a heartbeat the next one is not due in the same tick;
one that drops the following heartbeat as well is at most a heartbeat late, and leaves a
whole interval less that until the third, which the third heartbeat does not meet. Both
conditions of `TimesSuffice` are needed; TLC finds a broker dropped when either is missed
by a tick.

`StorageProofs` proves, for any clients, tiles, hosts, styles, sizes and numbers of calls
and failures (the assumptions named in the four modules):

- `PutsAreStored`: after a put of the LTS storage that succeeded, one copy has no tile
  older than the put;
- `ExpiredStaysExpired`: after an expire whose requests were carried out, nothing that was
  stored before is served as fresh;
- `ReadsAndPathsCoverAll`: `CombinedIsWhole`, and `SpecialHoldsUntilPut` for a tool whose
  paths were all answered without an error and without losing a message;
- `FreshTilesWereFresh`: what `disk_storage::get` calls fresh was neither expired nor
  replaced when the get began;
- `DiskReadsAreWhole`: handles keep their data, and `get_meta` returns whole metatiles;
- `FreshIsNeverStale`: a tile that `expiry_overlay::get` calls fresh was made after every
  expire that had returned when the get began, if no put was open then and the stored tile
  was that of the last put to clear the mark;
- `NoExpiryIsLost`: a stored tile older than the last expire is marked, if it is that of
  the last put to clear the mark, whatever other puts are open;
- `UnionAlwaysServesLast`: after a put that returned true the union serves that version or
  nothing until the next put;
- `CompositesAreHonest`: `CompositeExpiryHolds`, and `LastModifiedTells` for a composite
  that is not expired.

Each component's inductive invariant is the last definition of its module. `LtsInv` turns
what an operation has ended with into what its answers so far mean: a tile that a put had
accepted is never older than the put again (`AcceptedIsNewer`), because versions are given
out in order and one that was in place belongs to a put that has ended
(`VersionsInOrder`). What an expire had accepted is expired or newer
(`AcceptedIsExpired`); the expiry bit could not carry this, since a put of any tile on the
host clears it, so the time of the file does. All requests are covered by one fact about
the nodes (`NodeStep`): a tile gets the version of a running put or keeps its own and is
not made fresh. For the disk, `GetFindsFresh` says what the file may be between the call
for its time and the read. In `OverlayInv`, a get that has asked the service and not yet
the storage needs `NothingOlderComes`, for the stored tile and for every put that is open,
which rests on `MarkedSinceCleared` for the last put to clear the mark: the reason for
clearing the mark before storing. The properties of the overlay leave out the tile of any
other put. A put that failed has cleared the mark of the old tile, and one that stores
last but cleared first stores an older tile whose mark the other has cleared.
`ComposedInv` strengthens `UnionServesLast` from what a get sees to every storage of the
union (`UnionAgrees`), since a storage that loses its copy uncovers the next. For
`LastModifiedTells`, a layer is as it was, gone, or newer than the composite's time
(`SameOrNewer`), and the time of a layer that is not expired is its version's
(`NoneNewer`).

`ClientProofs` proves of the HTTP loop, for any finite set of connections, any number of
requests and any concurrency (`HttpAssumption`):

- `MultiImplementsBatch`: the loop implements `HttpBatch`: each request is answered once,
  in its own place, and the call returns or throws only after all of them;
- `ConnectionsStayApart`: no connection carries two requests, is lost or is freed twice.

`HttpInv` is inductive. The loop ends when curl's count of running transfers has gone to
zero and no request is left to start; that all requests are answered then needs that each
request without an answer is an operation under way (`UnansweredIsUnderWay`), that each
operation's transfer is what curl has (`TransfersMatch`), and that the count is the number
of them (`CountIsExact`). `StartKeeps`, `PerformKeeps`, `ReadKeeps` and `EndKeeps` show it
for each part of the loop; a count of zero means an empty set by `CountOfConnections`.

`ClientProofs` also proves, for any clients, calls, faults, hosts, brokers and times:

- `NeverTwoMasters`: never two active expiry servers;
- `FailoversAreLateEnough`: a client that failed over does not stop the server that is
  left (an action property);
- `StoredTilesAreFound`: a get of the LTS storage misses a stored tile only after a
  failure within the recheck time;
- `JobsArePutWhenShort`: the submitter puts a job only when the length its runner has at
  that moment is short;
- `MonitorIsOnSchedule`: the monitor thread never sleeps past the time of either command;
- `NothingIsForgotten`: when the threads of expire_tiles have ended, all that was
  collected has been expired or was in a batch that failed (`NothingForgotten`), and no
  metatile was with two threads (`NothingTwice`);
- `RelativesAreCollected`: the ancestors of every tile of the input are collected down to
  min_z, and the descendants of its metatile's first tile up to max_z;
- `ClientsAreCorrect`: `ClientsInv`, each client's invariant, in every state of `clients`.

That there is one master says nothing about a message under way, and a server acts on
messages. `StarInv` says what is true of the two servers while news of one waits at the
other: the news is of this heartbeat, nobody has taken over on the state it tells of, and
a passive server has heard of an active one in every heartbeat (`MasterIsHeard`), so that
its silence cannot reach the limit. For the failover, `MovedAndSettled` relates a client's
wait to its new server's silence: as many heartbeats have passed for one as for the other.
The submitter's flag may be out of date in general; `LengthStands` says in which steps it
is not. A timer and the time since its last command add up to the interval
(`TimersAddUp`), but for the time that a reply is waited for.

In expire_tiles a request goes from the input to a thread's list, to a queue per host, to
a batch. `ExpireInv` follows it: each metatile is in one place of one list (`InOneList`,
from the cut of the order into shares in `main`, for any division with or without a
remainder) and each request in one place of one queue; what is on a list is not queued yet
and what is queued not made yet; and every request of a collected metatile is at one of
the three stages (`Kept`). A thread that is done has nothing at the first two. The
collected set is what the recursions give, by induction over the levels that are left: a
tile's ancestor at each level is among what `parent_tiles` returns for it.

`FormatProofs` proves, for any tiles of the zoom levels 3 to 18, and for any formats,
side of a metatile, zoom level and sizes of the tiles:

- `IndexesAgree`: fragments, bits and paths name the same metatiles (`TileIndexesAgree`);
- `MetatilesReadBack`: each tile of a whole metatile comes back as it went in, from each
  writer through each reader (`ReadBack`), `simple_http_storage` excepted off the diagonal
  and at levels smaller than a metatile;
- `CutTilesAreWhole`: from a metatile cut off anywhere `metatile_reader` gives out a whole
  tile or nothing (`TileOrNothing`).

The first is the claim that each numbering is injective. Packed fragments are told apart
field by field (`FragsAreOwn`), paths nibble by nibble (`PathsAreOwn`). For the bits,
`SpreadOnce` shows that one round of `_interleave` moves each bit of a word to its new
place and leaves nothing behind, five rounds double the number of a bit (`InterleaveIs`),
x and y then have the odd and the even places, and a number has one set of bits
(`NumbersAreOwn`); the offsets of the levels keep the codes of two levels apart
(`IndexInLevel`). For the format, all offsets are prefix sums of one row of sizes, and the
bytes before a place in the joined contents are as many as the sizes before it
(`SumsAlongRow`, `SumsAlongColumn`, `SumsAlongFormats`, by induction along the loops of
the writers); a part cut out at such an offset is the tile (`CutoutIsTile`). The three
writers differ in loops and arithmetic, and `WrittenIsWellMade` brings them to one form.

`StorageProofs` has three more theorems on this ground:

- `StoragesAreMade`: the factory makes the storage a section describes, or refuses it
  (`MadeAsDescribed`), for all types and names at two levels of nesting;
- `RequestsAreAsAsked`: `SentAsAsked` and `UploadIsWhole`, for any sizes of part and
  buffers;
- `StoragesAreCorrect`: `StoragesInv`, each storage's invariant, in every state of
  `storages`.

A section reaches a creator in one of two forms, with dotted keys or, inside another
storage, with a level for each name. `SubTreeIs` shows that what `get_subtree` takes
from either form is the second form of what stands after the name; `AfterPart` that this
is what the storage inside was written as, where a name used twice must stand for the same
storage; `TypeAndNames` that type and names are found in either form. The rest is one case
for each level. `ConnectionInv` adds to the two properties that an idle handle is a fresh
one unless del or head used it last, and that what was uploaded is how far the part was
read.

Only model-checked: liveness and everything under fairness, which the prover does not do,
and sections nested more than two deep, which the model does not describe. Every safety
property of the passing runs is also stated by a theorem.

## 5. What the runs found

The four violation runs are listed in `PROJECT.json` with the comment each contradicts.
`silent_broker` is the one with the widest effect: liveness is looked at only when a job
is sent, and the queue length that prevents sending averages over brokers that may be
dead. `SubmissionEnds` needs its premise for the same reason: the tile submitter waits for
ever on the length that a dead broker reported last. `PunctualBrokerStays` needs a
liveness time of at least four heartbeat intervals: the renewal of subscriptions keeps to
its schedule, so an overdue renewal may be followed closely by the next, and each may drop
a heartbeat.

The models do what the code does also where a comment says something else. Met while
modelling, without a run of their own:

- `resubmit_older_than` resubmits one task in each call, where its comment
  (`task_queue.hpp:243`) says all; the age of a task runs from its push, so one that
  waited long is resubmitted at the first sweep after its hand-out (263); `push` stores
  `cmdRender` in every task, so bulk tasks are resubmitted, which 250 excludes.
- A merge that raises the front task's priority is not announced
  (`tile_broker_impl.cpp:353`, against the comment at 351). A request in another format
  that joins a running task may be answered without data.
- `worker.py:244` assigns `job.satus`, so a job whose rendering failed goes back with the
  command it came with where the other error path says "sending ignore".
- A storage that cannot be instantiated makes the I/O threads log "sending direct to
  queue" and return; the worker then blocks in its first send or leaves its loop
  (`PoolBlocks`, `CheckThreadDeath`); `EveryClientAnswered` is stated for an instantiated
  storage.
- `lts_storage.cpp:319`, "if we made it here we had enough to make the metatile": read one
  copy after the other, two incomplete copies may combine to a metatile short of tiles.
  `CombinedIsWhole` is stated for copies read in parallel.
- `expire_tiles.cpp:228`, "we only need to send one path per host": the bit that this sets
  is cleared by a put of any tile of the metatile on that host, and the other tiles are
  fresh again. A path that fails, or whose message to the expiry server is lost (the node
  warns and answers 200, `mercator_tiles.py:237-239`), expires nothing.
  `SpecialHoldsUntilPut` is stated for tiles that are not stored again, and for a tool
  whose paths were all answered without either.
- `disk_storage::get_meta` asks for the size and then reads: a larger file put in between
  is cut to the old size. `read_from_meta` returns from its errors
  (`meta_tile.cpp:198-222`) without closing the file.
- `compositing_storage::expire` expires the layers under the tile's own style although get
  may read them under `under_style` and `over_style`; `can_generate_formats` (378) tests
  the reverse of its comment (376). `CompositeExpiryHolds` is stated for layers without a
  style of their own.
- `compositing_storage::get` takes the later of its layers' times
  (`compositing_storage.cpp:264-274`) so that a new layer shows in it, but expire sets a
  layer's time to the epoch. The layer under is put (1), the layer over is put (2), and
  get gives 2; the layer under is put again (3) and expired, and get gives 2 once more, of
  other layers. `LastModifiedTells` is stated for composites that are not expired.
- `expiry_overlay::put_meta` (142) does not lock the tile. Worker A clears the mark, the
  tile is expired, B clears the mark and stores, then A stores: a tile older than the
  expiry is unmarked. Two workers have one metatile after a resubmission or a clear.
  `StaleIsMarked` and `FreshIsNotStale` are stated for the put that cleared last.
- `simple_http_storage::get_meta` runs y from the first coordinate and x from the second
  (135-138), and fills low zoom levels by another stride: `ReadBack` trusts it on the
  diagonal and at full levels.
- The comments in `create_union_storage` expect trouble with nested unions; they work
  (`MadeAsDescribed`).
- `http::get` passes its timeout where `curl_get` expects the request's index
  (`http.cpp:666`), so the connect timeout of 300 ms that `lts_storage.cpp:33` describes
  is never set. `del` and `head` leave options and freed headers on the handle for the
  next call (`SentAsAsked`). A concurrency of 0, or refused handles, make the loop of a
  batch spin (`CallEnds`).
- `tile_submitter.cpp:210` takes a line for too long only if it fills the buffer exactly;
  a longer one ends the input silently.
- The expiry servers do not replicate marks, and a passive server that is asked while its
  peer lives leaves its loop. `OneMaster` holds while heartbeats arrive; a network that
  parts the two is not modelled.

## 6. Not modelled

- **pgq backend.** `send` escapes the style with `PQescapeLiteral`, which adds quotes, and
  puts the result between quotes again (`pgq_backend.cpp:238-245`): a syntax error, which
  aborts the transaction in which the second statement is then tried. `queue_length` is a
  stub. The repository has no schema and no test of it, so there is no working behaviour
  to model.
- **Code without a caller**: `metaTile::save`, `frag_to_tile`, `task_queue::pop` and
  `tasks`, `py/threadpool`, the one-shot handlers of the runner, and `http_storage`'s own
  put_meta and get_meta (the only subclass overrides them).
- **Rendering, coverage, images, pixels of composites**: an outcome of the step that needs
  them.
- **Parsers, style rules, configuration options**: their outcome is part of a request or a
  constant.
- **Framing, compression (`zstream`), logging, python bindings, deployment scripts, the
  storage node's web framework and statistics, `null_storage`**: I/O, formatting or glue
  without state of their own.
- STATS changes nothing and appears in `TaskMonitor` only. The storage worker's destructor
  is not reached: the handler's loop does not end.

## 7. What is left

1. Composition: `TileHandler` over `RenderService` in place of the external brokers;
   `ExpiryOverlay` over a service that restarts.
2. `StyleRules` (rewrite, forced formats, zoom and format checks), and the hash ring with
   collisions.

----------------------------- MODULE ExpireTiles -----------------------------
(***************************************************************************)
(* expire_tiles.cpp: the tool reads tiles, collects the metatiles to       *)
(* expire, splits them among threads, and each thread expires its share:   *)
(* one by one for a storage of any kind, in batches of requests per host   *)
(* for the LTS. An exception in a batch drops what is left of it.          *)
(***************************************************************************)
EXTENDS Integers, Sequences, SequencesExt, FiniteSets, Recursions

CONSTANTS
  METATILE,             \* 8 in the build
  LTS_QUEUE_BATCH_SIZE,
  ExpireInputs,         \* what the input files may hold, line by line
  MinZooms, MaxZooms,   \* values of expire-down-to and expire-up-to, or NoZoom
  ThreadCounts,         \* values of num-threads
  UrlHosts(_, _),       \* metatile, primary -> hosts of its urls in order
  OrderOf(_),           \* the order in which boost's unordered_set goes through a set
  MaxBatchErrors        \* bound on the batches that fail

ASSUME ExpireAssumption ==
  /\ METATILE \in Nat \ {0} /\ LTS_QUEUE_BATCH_SIZE \in Nat /\ MaxBatchErrors \in Nat
  /\ MinZooms \subseteq Nat \union {-1} /\ MaxZooms \subseteq Nat \union {-1}
  /\ ThreadCounts \subseteq Nat \ {0}
  /\ \A in \in ExpireInputs :
       in \in Seq([kind : {"tile", "empty", "malformed", "overlong"}, tile : [x : Nat, y : Nat, z : Nat]])

VARIABLES
  job,        \* the options and the input
  lists,      \* thread_tiles: thread -> metatiles it has still to do
  lts_queue,  \* thread -> host and primary -> metatiles in m_lts_request_queue
  at,         \* thread -> where it is
  clean,      \* metatiles that a generic storage has and does not call expired
  sent,       \* requests made: metatile, host, primary
  dropped,    \* requests dropped with a batch
  batch_errors

expireVars == <<job, lists, lts_queue, at, clean, sent, dropped, batch_errors>>

\* An option that is not given: main takes no relatives, the storage sets no limit.
NoZoom == -1

Xyz(x, y, z) == [x |-> x, y |-> y, z |-> z]

\* A line of the input: what kind it is of, and its tile.
Line(kind, t) == [kind |-> kind, tile |-> t]

\* x & ~(METATILE - 1)
Clip(n) == n - (n % METATILE)
Meta(t) == Xyz(Clip(t.x), Clip(t.y), t.z)

\* Mutant of Children: the coordinates are not doubled.
ChildrenUnscaled(t) == {Xyz(t.x + i, t.y + j, t.z + 1) : i, j \in {0, 1}}

\* The four tiles that the recursion goes on with.
Children(t) == {Xyz(2 * t.x + i, 2 * t.y + j, t.z + 1) : i, j \in {0, 1}}

\* Mutant of Parent: the coordinates are kept.
ParentUnscaled(t) == Xyz(t.x, t.y, t.z - 1)

Parent(t) == Xyz(t.x \div 2, t.y \div 2, t.z - 1)

\* What x, y and z of a tile may be while its relatives are taken.
Xyzs == [x : Nat, y : Nat, z : Int]

\* child_tiles, by the levels that are left to max_z.
child_tiles[levels \in Nat] ==
  [t \in Xyzs |-> {Meta(t)} \union
     IF levels = 0 THEN {} ELSE UNION {child_tiles[levels - 1][c] : c \in Children(t)}]

\* parent_tiles, by the levels that are left to min_z.
parent_tiles[levels \in Nat] ==
  [t \in Xyzs |-> {Meta(t)} \union IF levels = 0 THEN {} ELSE parent_tiles[levels - 1][Parent(t)]]

Lesser(a, b) == IF a < b THEN a ELSE b
Greater(a, b) == IF a > b THEN a ELSE b

\* main, for a tile of the input: it is clipped before its relatives are taken.
Relatives(t, min_z, max_z) ==
  LET zmin == IF min_z = NoZoom THEN t.z ELSE Lesser(t.z, min_z)
      zmax == IF max_z = NoZoom THEN t.z ELSE Greater(t.z, max_z)
  IN child_tiles[zmax - t.z][Meta(t)] \union parent_tiles[t.z - zmin][Meta(t)]

\* Lines are read up to one that is too long for the buffer, of which the part that
\* fits is still parsed; empty ones are skipped, and one that does not parse ends
\* the program.
LinesRead(in) ==
  LET cut == {i \in 1 .. Len(in) : in[i].kind = "overlong"}
  IN IF cut = {} THEN in ELSE SubSeq(in, 1, CHOOSE i \in cut : \A j \in cut : i <= j)

InputTiles(in) == {l.tile : l \in {k \in ToSet(LinesRead(in)) : k.kind \in {"tile", "overlong"}}}
Aborts(in) == \E l \in ToSet(LinesRead(in)) : l.kind = "malformed"

AllTiles(in, min_z, max_z) == UNION {Relatives(t, min_z, max_z) : t \in InputTiles(in)}

\* Mutant of TilesPerThread: rounded down.
RoundedDown(n, n_threads) == n \div n_threads

\* all_tiles.size() / n_threads, rounded up.
TilesPerThread(n, n_threads) == n \div n_threads + (IF n % n_threads > 0 THEN 1 ELSE 0)

\* An iteration comes to every metatile once, in some order.
Iterates(order, tiles) ==
  /\ order \in Seq(tiles) /\ ToSet(order) = tiles
  /\ \A i, j \in DOMAIN order : order[i] = order[j] => i = j

ASSUME OrderAssumption ==
  \A in \in ExpireInputs, min_z \in MinZooms, max_z \in MaxZooms :
    Iterates(OrderOf(AllTiles(in, min_z, max_z)), AllTiles(in, min_z, max_z))

\* Mutant of Share: a list starts where the one before it ends.
ShareOverlapping(order, n_threads, i) ==
  LET per == TilesPerThread(Len(order), n_threads)
  IN SubSeq(order, Greater((i - 1) * per, 1), Lesser(i * per, Len(order)))

\* The lists of the threads, for the order in which the set happens to be.
Share(order, n_threads, i) ==
  LET per == TilesPerThread(Len(order), n_threads)
  IN SubSeq(order, (i - 1) * per + 1, Lesser(i * per, Len(order)))

ExpireThreads == DOMAIN lists
QueueKeys == DOMAIN lts_queue[1]

\* lts_queue_urls: one path per host, for the first of its urls, primaries first.
HostsOfTile(t) == ToSet(UrlHosts(t, TRUE)) \union ToSet(UrlHosts(t, FALSE))
IsPrimary(t, h) == h \in ToSet(UrlHosts(t, TRUE))
RequestsOf(t) == {[tile |-> t, host |-> h, primary |-> IsPrimary(t, h)] : h \in HostsOfTile(t)}

HostsOfTiles(tiles) == UNION {HostsOfTile(t) : t \in tiles}

ExpireInit ==
  \E in \in ExpireInputs, min_z \in MinZooms, max_z \in MaxZooms, n \in ThreadCounts,
     storage \in {"lts", "generic"} :
    LET tiles == AllTiles(in, min_z, max_z)
        order == OrderOf(tiles)
    IN /\ job = [input |-> in, min_z |-> min_z, max_z |-> max_z, tiles |-> tiles,
                 storage |-> storage]
       /\ lists = [i \in 1 .. n |-> IF Aborts(in) THEN <<>> ELSE Share(order, n, i)]
       /\ lts_queue = [i \in 1 .. n |-> [k \in HostsOfTiles(tiles) \X BOOLEAN |-> <<>>]]
       /\ at = [i \in 1 .. n |-> IF Aborts(in) THEN "done" ELSE "next"]
       /\ clean \in IF storage = "lts" THEN {{}} ELSE {tiles, {t \in tiles : t.x # 0}}
       /\ sent = {} /\ dropped = {} /\ batch_errors = 0

RequestFor(t, key) == [tile |-> t, host |-> key[1], primary |-> key[2]]

\* lts_special_expire: the metatile's requests are queued; batches that are large
\* enough are performed before the next metatile.
NextMetatile(i) ==
  /\ job.storage = "lts" /\ at[i] = "next" /\ lists[i] # <<>>
  /\ lists' = [lists EXCEPT ![i] = Tail(@)]
  /\ LET t == Head(lists[i]) IN
     lts_queue' = [lts_queue EXCEPT ![i] = [k \in QueueKeys |->
       IF RequestFor(t, k) \in RequestsOf(t) THEN Append(@[k], t) ELSE @[k]]]
  /\ at' = [at EXCEPT ![i] = "flush"]
  /\ UNCHANGED <<job, clean, sent, dropped, batch_errors>>

\* generic_expire: a metatile that is there and clean, within the zooms.
Within(z) == /\ job.min_z = NoZoom \/ z >= job.min_z
             /\ job.max_z = NoZoom \/ z <= job.max_z

GenericExpire(i) ==
  /\ job.storage = "generic" /\ at[i] = "next" /\ lists[i] # <<>>
  /\ lists' = [lists EXCEPT ![i] = Tail(@)]
  /\ clean' = IF Within(Head(lists[i]).z) THEN clean \ {Head(lists[i])} ELSE clean
  /\ UNCHANGED <<job, lts_queue, at, sent, dropped, batch_errors>>

TooLong(i) == {k \in QueueKeys : Len(lts_queue[i][k]) > LTS_QUEUE_BATCH_SIZE}
Left(i) == {k \in QueueKeys : lts_queue[i][k] # <<>>}

\* lts_perform_urls: the requests one after the other; after an exception the
\* others are given up. The queue is cleared in either case.
PerformUrls(i, k) ==
  LET batch == lts_queue[i][k] IN
  \E n \in 0 .. Len(batch) :
    /\ n < Len(batch) => batch_errors < MaxBatchErrors
    /\ batch_errors' = IF n < Len(batch) THEN batch_errors + 1 ELSE batch_errors
    /\ sent' = sent \union {RequestFor(batch[j], k) : j \in 1 .. n}
    /\ dropped' = dropped \union {RequestFor(batch[j], k) : j \in n + 1 .. Len(batch)}
    /\ lts_queue' = [lts_queue EXCEPT ![i][k] = <<>>]

PerformLong(i) ==
  /\ at[i] = "flush"
  /\ \E k \in TooLong(i) : PerformUrls(i, k)
  /\ UNCHANGED <<job, lists, at, clean>>

EndOfFlush(i) ==
  /\ at[i] = "flush" /\ TooLong(i) = {}
  /\ at' = [at EXCEPT ![i] = "next"]
  /\ UNCHANGED <<job, lists, lts_queue, clean, sent, dropped, batch_errors>>

\* drain: what is left is performed, whatever its length.
Drain(i) ==
  /\ at[i] = "next" /\ lists[i] = <<>>
  /\ \E k \in Left(i) : PerformUrls(i, k)
  /\ UNCHANGED <<job, lists, at, clean>>

EndOfThread(i) ==
  /\ at[i] = "next" /\ lists[i] = <<>> /\ Left(i) = {}
  /\ at' = [at EXCEPT ![i] = "done"]
  /\ UNCHANGED <<job, lists, lts_queue, clean, sent, dropped, batch_errors>>

ExpireThread(i) ==
  NextMetatile(i) \/ GenericExpire(i) \/ PerformLong(i) \/ EndOfFlush(i) \/ Drain(i) \/ EndOfThread(i)

ExpireNext == \E i \in ExpireThreads : ExpireThread(i)

\* Threads are scheduled, and main joins them.
ExpireSpec ==
  /\ ExpireInit /\ [][ExpireNext]_expireVars
  /\ \A i \in 1 .. 3 : WF_expireVars(i \in ExpireThreads /\ ExpireThread(i))
-----------------------------------------------------------------------------
(* Properties *)

ThreadsDone == \A i \in ExpireThreads : at[i] = "done"

\* When main has joined its threads, every metatile that was collected was
\* expired on each of its hosts, or was in a batch that failed: the split leaves
\* no metatile over, and no queue holds any when its thread ends.
NothingForgotten ==
  ThreadsDone /\ ~Aborts(job.input) =>
    IF job.storage = "lts" THEN UNION {RequestsOf(t) : t \in job.tiles} = sent \union dropped
    ELSE \A t \in clean : ~Within(t.z)

\* No request is made by two threads, nor made and dropped.
NothingTwice ==
  /\ sent \cap dropped = {}
  /\ \A i, j \in ExpireThreads : i # j => ToSet(lists[i]) \cap ToSet(lists[j]) = {}

\* parent_tiles on clipped tiles: whatever tile of the metatile was in the input,
\* every ancestor of it down to min_z is in a metatile that is expired.
Ancestors(t, min_z) ==
  {Xyz(t.x \div TwoTo[d], t.y \div TwoTo[d], t.z - d) : d \in 0 .. IF min_z = NoZoom THEN 0 ELSE Greater(t.z - min_z, 0)}

AncestorsExpired ==
  \A t \in InputTiles(job.input) :
    \A a \in Ancestors(t, job.min_z) : Meta(a) \in job.tiles

Descendants(t, max_z) ==
  UNION {{Xyz(t.x * TwoTo[d] + i, t.y * TwoTo[d] + j, t.z + d) : i, j \in 0 .. TwoTo[d] - 1} :
         d \in 0 .. Greater(max_z - t.z, 0)}

\* What the recursion does reach: the descendants of the metatile's first tile.
FirstTileExpired ==
  \A t \in InputTiles(job.input) :
    \A d \in Descendants(Meta(t), job.max_z) : Meta(d) \in job.tiles

\* The help of expire-up-to, "also expire tiles at higer z which are children of
\* input tiles up to this maximum": once the threads are done, the metatiles of
\* the descendants of the input were expired.
DescendantsExpired ==
  ThreadsDone /\ ~Aborts(job.input) /\ job.storage = "lts" /\ batch_errors = 0 =>
    \A t \in InputTiles(job.input) :
      \A d \in Descendants(t, job.max_z) : RequestsOf(Meta(d)) \subseteq sent

-----------------------------------------------------------------------------
(* What every reachable state satisfies, for the proofs *)

\* The types: the job is one of the inputs with its metatiles, and each thread
\* has a list and queues of these.
ExpireTypeOK ==
  /\ job \in [input : ExpireInputs, min_z : MinZooms, max_z : MaxZooms,
              tiles : {AllTiles(job.input, job.min_z, job.max_z)}, storage : {"lts", "generic"}]
  /\ DOMAIN lists \in {1 .. n : n \in ThreadCounts}
  /\ lists \in [ExpireThreads -> Seq(job.tiles)]
  /\ lts_queue \in [ExpireThreads -> [HostsOfTiles(job.tiles) \X BOOLEAN -> Seq(job.tiles)]]
  /\ at \in [ExpireThreads -> {"next", "flush", "done"}]
  /\ clean \subseteq job.tiles
  /\ batch_errors \in 0 .. MaxBatchErrors

Handled == sent \union dropped

\* A metatile is in one place of one list; a request in one place of one queue.
InOneList ==
  \A i, j \in ExpireThreads : \A a \in DOMAIN lists[i], b \in DOMAIN lists[j] :
    lists[i][a] = lists[j][b] => i = j /\ a = b
InOneQueue ==
  \A i, j \in ExpireThreads, k \in QueueKeys :
    \A a \in DOMAIN lts_queue[i][k], b \in DOMAIN lts_queue[j][k] :
      lts_queue[i][k][a] = lts_queue[j][k][b] => i = j /\ a = b

\* What is on a list is not queued yet, and what is queued is not made yet.
ListedFirst ==
  \A i \in ExpireThreads : \A a \in DOMAIN lists[i] :
    /\ \A j \in ExpireThreads, k \in QueueKeys : \A b \in DOMAIN lts_queue[j][k] : lts_queue[j][k][b] # lists[i][a]
    /\ \A r \in Handled : r.tile # lists[i][a]
QueuedNext ==
  \A i \in ExpireThreads, k \in QueueKeys : \A a \in DOMAIN lts_queue[i][k] :
    LET r == RequestFor(lts_queue[i][k][a], k) IN r \in RequestsOf(r.tile) /\ r \notin Handled

\* Only the requests of the collected metatiles are made, and each of these is
\* made, queued or still to come from a list.
OnlyCollected == \A r \in Handled : r.tile \in job.tiles /\ r \in RequestsOf(r.tile)
Kept ==
  job.storage = "lts" /\ ~Aborts(job.input) => \A t \in job.tiles : \A r \in RequestsOf(t) :
    \/ r \in Handled
    \/ \E i \in ExpireThreads : \E a \in DOMAIN lists[i] : lists[i][a] = t
    \/ \E i \in ExpireThreads :
         \E a \in DOMAIN lts_queue[i][<<r.host, r.primary>>] : lts_queue[i][<<r.host, r.primary>>][a] = t
StillListed ==
  job.storage = "generic" /\ ~Aborts(job.input) => \A t \in clean : Within(t.z) =>
    \E i \in ExpireThreads : \E a \in DOMAIN lists[i] : lists[i][a] = t

\* A thread that is done has nothing left.
DoneIsEmpty ==
  \A i \in ExpireThreads : at[i] = "done" => lists[i] = <<>> /\ \A k \in QueueKeys : lts_queue[i][k] = <<>>

ExpireInv ==
  /\ ExpireTypeOK /\ InOneList /\ InOneQueue /\ ListedFirst /\ QueuedNext /\ OnlyCollected
  /\ Kept /\ StillListed /\ DoneIsEmpty
  /\ NothingTwice /\ AncestorsExpired /\ FirstTileExpired
=============================================================================

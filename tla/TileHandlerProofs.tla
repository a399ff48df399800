--------------------------- MODULE TileHandlerProofs ---------------------------
(***************************************************************************)
(* The handler and its storage worker, proved for any number of clients,   *)
(* tiles and I/O threads.  First the count of busy threads: the places of  *)
(* the lookups that are out with the threads are a finite set, to which    *)
(* each send adds one place and from which each answer that is read takes  *)
(* one.  Then the way of a request: each client's request is in one spot,  *)
(* a queue, the brokers or one of the ends, and every action leaves what   *)
(* the spots hold of a client as it is (SpotStays) or moves it from one    *)
(* spot to another (SpotMoves).                                            *)
(***************************************************************************)
EXTENDS TileHandler, FiniteSetTheorems, TLAPS

\* The places out with the threads, for given queues of the threads.
OutOf(out, in) ==
  UNION {{<<"threads_out", t, i>> : i \in 1 .. Len(out[t])}
         \cup {<<"threads_in", t, i>> : i \in 1 .. Len(in[t])} : t \in Threads}

LEMMA OutIsOutOf == Out = OutOf(threads_out, threads_in)
  BY DEF Out, OutOf

LEMMA InOutOf ==
  ASSUME NEW out, NEW in, NEW p
  PROVE  p \in OutOf(out, in) <=>
           \E t \in Threads : \/ \E i \in 1 .. Len(out[t]) : p = <<"threads_out", t, i>>
                              \/ \E i \in 1 .. Len(in[t]) : p = <<"threads_in", t, i>>
  BY DEF OutOf

\* One queue got one more message, or one less; k is the place it has or had.
Grown(f, f2, n, k) ==
  /\ n \in Threads /\ k \notin 1 .. Len(f[n])
  /\ 1 .. Len(f2[n]) = (1 .. Len(f[n])) \cup {k}
  /\ \A t \in Threads \ {n} : f2[t] = f[t]

Shrunk(f, f2, n, k) ==
  /\ n \in Threads /\ k \in 1 .. Len(f[n])
  /\ 1 .. Len(f2[n]) = (1 .. Len(f[n])) \ {k}
  /\ \A t \in Threads \ {n} : f2[t] = f[t]

LEMMA AppendGrows ==
  ASSUME NEW S, NEW f \in [Threads -> Seq(S)], NEW n \in Threads, NEW m \in S,
         NEW f2, f2 = [f EXCEPT ![n] = Append(@, m)]
  PROVE  Grown(f, f2, n, Len(f[n]) + 1)
<1>1. /\ Len(f[n]) \in Nat /\ Len(f2[n]) = Len(f[n]) + 1
      /\ \A t \in Threads \ {n} : f2[t] = f[t]
  OBVIOUS
<1> QED
  BY <1>1 DEF Grown

LEMMA TailShrinks ==
  ASSUME NEW S, NEW f \in [Threads -> Seq(S)], NEW n \in Threads, f[n] # <<>>,
         NEW f2, f2 = [f EXCEPT ![n] = Tail(@)]
  PROVE  Shrunk(f, f2, n, Len(f[n]))
<1>1. /\ Len(f[n]) \in Nat \ {0} /\ Len(f2[n]) = Len(f[n]) - 1
      /\ \A t \in Threads \ {n} : f2[t] = f[t]
  OBVIOUS
<1> QED
  BY <1>1 DEF Shrunk

\* A lookup that is sent to a thread is one more place.
LEMMA SentIsOut ==
  ASSUME NEW out, NEW in, NEW out2, NEW n, NEW k, Grown(out, out2, n, k),
         NEW p, p = <<"threads_out", n, k>>
  PROVE  OutOf(out2, in) = OutOf(out, in) \cup {p} /\ p \notin OutOf(out, in)
<1> USE DEF Grown
<1>1. ASSUME NEW q
      PROVE  q \in OutOf(out2, in) <=> q \in OutOf(out, in) \/ q = p
  <2>1. ASSUME NEW t \in Threads
        PROVE  (\E i \in 1 .. Len(out2[t]) : q = <<"threads_out", t, i>>)
                 <=> \/ \E i \in 1 .. Len(out[t]) : q = <<"threads_out", t, i>>
                     \/ t = n /\ q = p
    OBVIOUS
  <2>2. ASSUME NEW t, NEW i PROVE <<"threads_in", t, i>> # p
    OBVIOUS
  <2>3. q \in OutOf(out, in) <=>
           \E t \in Threads : \/ \E i \in 1 .. Len(out[t]) : q = <<"threads_out", t, i>>
                              \/ \E i \in 1 .. Len(in[t]) : q = <<"threads_in", t, i>>
    BY InOutOf
  <2>4. q \in OutOf(out2, in) <=>
           \E t \in Threads : \/ \E i \in 1 .. Len(out2[t]) : q = <<"threads_out", t, i>>
                              \/ \E i \in 1 .. Len(in[t]) : q = <<"threads_in", t, i>>
    BY InOutOf
  <2> QED
    BY <2>1, <2>2, <2>3, <2>4
<1>2. p \notin OutOf(out, in)
  BY InOutOf
<1> QED
  BY <1>1, <1>2

\* An answer that the worker reads is a place less.
LEMMA ReadIsBack ==
  ASSUME NEW out, NEW in, NEW in2, NEW n, NEW k, Shrunk(in, in2, n, k),
         NEW p, p = <<"threads_in", n, k>>
  PROVE  OutOf(out, in2) = OutOf(out, in) \ {p} /\ p \in OutOf(out, in)
<1> USE DEF Shrunk
<1>1. ASSUME NEW q
      PROVE  q \in OutOf(out, in2) <=> q \in OutOf(out, in) /\ q # p
  <2>1. ASSUME NEW t \in Threads
        PROVE  (\E i \in 1 .. Len(in2[t]) : q = <<"threads_in", t, i>>)
                 <=> /\ \E i \in 1 .. Len(in[t]) : q = <<"threads_in", t, i>>
                     /\ q # p
    OBVIOUS
  <2>2. ASSUME NEW t, NEW i PROVE <<"threads_out", t, i>> # p
    OBVIOUS
  <2>3. q \in OutOf(out, in) <=>
           \E t \in Threads : \/ \E i \in 1 .. Len(out[t]) : q = <<"threads_out", t, i>>
                              \/ \E i \in 1 .. Len(in[t]) : q = <<"threads_in", t, i>>
    BY InOutOf
  <2>4. q \in OutOf(out, in2) <=>
           \E t \in Threads : \/ \E i \in 1 .. Len(out[t]) : q = <<"threads_out", t, i>>
                              \/ \E i \in 1 .. Len(in2[t]) : q = <<"threads_in", t, i>>
    BY InOutOf
  <2> QED
    BY <2>1, <2>2, <2>3, <2>4
<1>2. p \in OutOf(out, in)
  BY InOutOf
<1> QED
  BY <1>1, <1>2

\* A thread takes the oldest of its lookups: a place less ...
LEMMA TakenIsLess ==
  ASSUME NEW out, NEW in, NEW out2, NEW n, NEW k, Shrunk(out, out2, n, k),
         NEW p, p = <<"threads_out", n, k>>
  PROVE  OutOf(out2, in) = OutOf(out, in) \ {p} /\ p \in OutOf(out, in)
<1> USE DEF Shrunk
<1>1. ASSUME NEW q
      PROVE  q \in OutOf(out2, in) <=> q \in OutOf(out, in) /\ q # p
  <2>1. ASSUME NEW t \in Threads
        PROVE  (\E i \in 1 .. Len(out2[t]) : q = <<"threads_out", t, i>>)
                 <=> /\ \E i \in 1 .. Len(out[t]) : q = <<"threads_out", t, i>>
                     /\ q # p
    OBVIOUS
  <2>2. ASSUME NEW t, NEW i PROVE <<"threads_in", t, i>> # p
    OBVIOUS
  <2>3. q \in OutOf(out, in) <=>
           \E t \in Threads : \/ \E i \in 1 .. Len(out[t]) : q = <<"threads_out", t, i>>
                              \/ \E i \in 1 .. Len(in[t]) : q = <<"threads_in", t, i>>
    BY InOutOf
  <2>4. q \in OutOf(out2, in) <=>
           \E t \in Threads : \/ \E i \in 1 .. Len(out2[t]) : q = <<"threads_out", t, i>>
                              \/ \E i \in 1 .. Len(in[t]) : q = <<"threads_in", t, i>>
    BY InOutOf
  <2> QED
    BY <2>1, <2>2, <2>3, <2>4
<1>2. p \in OutOf(out, in)
  BY InOutOf
<1> QED
  BY <1>1, <1>2

\* ... and its answer is one more.
LEMMA AnsweredIsOut ==
  ASSUME NEW out, NEW in, NEW in2, NEW n, NEW k, Grown(in, in2, n, k),
         NEW p, p = <<"threads_in", n, k>>
  PROVE  OutOf(out, in2) = OutOf(out, in) \cup {p} /\ p \notin OutOf(out, in)
<1> USE DEF Grown
<1>1. ASSUME NEW q
      PROVE  q \in OutOf(out, in2) <=> q \in OutOf(out, in) \/ q = p
  <2>1. ASSUME NEW t \in Threads
        PROVE  (\E i \in 1 .. Len(in2[t]) : q = <<"threads_in", t, i>>)
                 <=> \/ \E i \in 1 .. Len(in[t]) : q = <<"threads_in", t, i>>
                     \/ t = n /\ q = p
    OBVIOUS
  <2>2. ASSUME NEW t, NEW i PROVE <<"threads_out", t, i>> # p
    OBVIOUS
  <2>3. q \in OutOf(out, in) <=>
           \E t \in Threads : \/ \E i \in 1 .. Len(out[t]) : q = <<"threads_out", t, i>>
                              \/ \E i \in 1 .. Len(in[t]) : q = <<"threads_in", t, i>>
    BY InOutOf
  <2>4. q \in OutOf(out, in2) <=>
           \E t \in Threads : \/ \E i \in 1 .. Len(out[t]) : q = <<"threads_out", t, i>>
                              \/ \E i \in 1 .. Len(in2[t]) : q = <<"threads_in", t, i>>
    BY InOutOf
  <2> QED
    BY <2>1, <2>2, <2>3, <2>4
<1>2. p \notin OutOf(out, in)
  BY InOutOf
<1> QED
  BY <1>1, <1>2


\* What storage_worker::operator() keeps: the places are a finite set, too.
PoolCounts == IsFiniteSet(Out) /\ PoolCountIsExact

HandlerIInv == HandlerTypeOK /\ PoolCounts

LEMMA HeadTail ==
  ASSUME NEW S, NEW s \in Seq(S), s # <<>>
  PROVE  Head(s) \in S /\ Tail(s) \in Seq(S)
  OBVIOUS

LEMMA HandlerIInvInit ==
  HandlerInit => HandlerIInv
<1> SUFFICES ASSUME HandlerInit PROVE HandlerIInv
  OBVIOUS
<1> USE PoolAssumption, HandlerAssumption
<1>1. Threads # {} /\ 1 \in Threads /\ max_io_threads \in Nat
  BY DEF Threads
<1>2. HandlerTypeOK
  BY <1>1 DEF HandlerInit, PoolInit, HandlerTypeOK, Threads
<1>3. \A p : p \notin Out
  BY InOutOf, OutIsOutOf DEF HandlerInit, PoolInit
<1>4. Out = {}
  BY <1>3
<1>5. PoolCounts
  BY <1>1, <1>4, FS_EmptySet DEF PoolCounts, PoolCountIsExact, HandlerInit, PoolInit
<1> QED
  BY <1>2, <1>5 DEF HandlerIInv

\* The places only depend on the queues of the threads.
LEMMA CountsStay ==
  ASSUME PoolCounts, UNCHANGED <<cur_concurrency, queued_requests, threads_out, threads_in>>
  PROVE  PoolCounts'
<1>1. Out' = Out
  BY DEF Out, Threads
<1> QED
  BY <1>1 DEF PoolCounts, PoolCountIsExact

LEMMA CountIsPositive ==
  ASSUME PoolCounts, NEW p \in Out
  PROVE  cur_concurrency \in Nat /\ cur_concurrency > 0
<1>1. Cardinality(Out) \in Nat
  BY FS_CardinalityType DEF PoolCounts
<1>2. Cardinality(Out) # 0
  BY FS_EmptySet DEF PoolCounts
<1> QED
  BY <1>1, <1>2 DEF PoolCounts, PoolCountIsExact

LEMMA ThreadTurns ==
  ASSUME next_thread \in Threads
  PROVE  (next_thread % max_io_threads) + 1 \in Threads
  BY PoolAssumption DEF Threads

LEMMA PoolRequestIInv ==
  ASSUME HandlerIInv, PoolRequest, UNCHANGED handlerVars
  PROVE  HandlerIInv'
<1> USE PoolAssumption
<1> DEFINE S == ForClient(Commands)
<1>1. HandlerTypeOK /\ PoolCounts
  BY DEF HandlerIInv
<1>2. /\ storage_request # <<>> /\ storage_request \in Seq(S)
      /\ threads_out \in [Threads -> Seq(S)] /\ next_thread \in Threads
      /\ queued_requests \in Seq(S)
  BY <1>1 DEF PoolRequest, HandlerTypeOK
<1> DEFINE m == Head(storage_request)
<1>3. m \in S /\ Tail(storage_request) \in Seq(S)
  BY <1>2, HeadTail
<1>4. /\ UNCHANGED <<instantiated, pool, storage_results, threads_in, stored>>
      /\ storage_request' = Tail(storage_request)
      /\ StartOrQueue(m)
  BY DEF PoolRequest
<1>5. Threads' = Threads
  BY DEF Threads
<1>6. max_io_threads \in Nat /\ cur_concurrency \in Nat
  BY <1>1 DEF HandlerTypeOK
<1> HIDE DEF m, S
<1>7. CASE cur_concurrency < max_io_threads
  <2>1. /\ threads_out' = [threads_out EXCEPT ![next_thread] = Append(@, m)]
        /\ next_thread' = (next_thread % max_io_threads) + 1
        /\ cur_concurrency' = cur_concurrency + 1
        /\ queued_requests' = queued_requests
    BY <1>4, <1>7 DEF StartOrQueue, ToNextThread
  <2>2. threads_out' \in [Threads -> Seq(S)] /\ next_thread' \in Threads
    BY <1>2, <1>3, <2>1, ThreadTurns
  <2>3. cur_concurrency' \in 0 .. max_io_threads
    BY <1>6, <1>7, <2>1
  <2>4. HandlerTypeOK'
    BY <1>1, <1>3, <1>4, <1>5, <2>1, <2>2, <2>3 DEF HandlerTypeOK, handlerVars, S, ForClient
  <2> DEFINE k == Len(threads_out[next_thread]) + 1
             p == <<"threads_out", next_thread, k>>
  <2>5. /\ OutOf(threads_out', threads_in) = OutOf(threads_out, threads_in) \cup {p}
        /\ p \notin OutOf(threads_out, threads_in)
    <3>1. Grown(threads_out, threads_out', next_thread, k)
      BY <1>2, <1>3, <2>1, AppendGrows
    <3> HIDE DEF k
    <3> QED
      BY <3>1, SentIsOut
  <2> HIDE DEF p
  <2>6. Out' = Out \cup {p} /\ p \notin Out
    BY <1>4, <1>5, <2>5 DEF Out, OutOf
  <2>7. IsFiniteSet(Out') /\ Cardinality(Out') = Cardinality(Out) + 1
    BY <1>1, <2>6, FS_AddElement DEF PoolCounts
  <2>8. queued_requests = <<>>
    BY <1>1, <1>6, <1>7 DEF PoolCounts, PoolCountIsExact
  <2>9. PoolCounts'
    BY <1>1, <1>6, <1>7, <2>1, <2>7, <2>8 DEF PoolCounts, PoolCountIsExact
  <2> QED
    BY <2>4, <2>9 DEF HandlerIInv
<1>8. CASE ~(cur_concurrency < max_io_threads)
  <2>1. /\ queued_requests' = Append(queued_requests, m)
        /\ UNCHANGED <<cur_concurrency, threads_out, next_thread>>
    BY <1>4, <1>8 DEF StartOrQueue
  <2>2. queued_requests' \in Seq(S)
    BY <1>2, <1>3, <2>1
  <2>3. HandlerTypeOK'
    BY <1>1, <1>3, <1>4, <1>5, <2>1, <2>2 DEF HandlerTypeOK, handlerVars, S, ForClient
  <2>4. Out' = Out
    BY <1>4, <1>5, <2>1 DEF Out
  <2>5. cur_concurrency = max_io_threads
    BY <1>1, <1>6, <1>8 DEF PoolCounts, PoolCountIsExact
  <2>6. PoolCounts'
    BY <1>1, <2>1, <2>4, <2>5 DEF PoolCounts, PoolCountIsExact
  <2> QED
    BY <2>3, <2>6 DEF HandlerIInv
<1> QED
  BY <1>7, <1>8

LEMMA PoolResultIInv ==
  ASSUME HandlerIInv, NEW n \in Threads, PoolResult(n), UNCHANGED handlerVars
  PROVE  HandlerIInv'
<1> USE PoolAssumption
<1> DEFINE S == ForClient(Commands)
           R == ForClient(Found)
<1>1. HandlerTypeOK /\ PoolCounts
  BY DEF HandlerIInv
<1>2. /\ threads_in[n] # <<>> /\ threads_in \in [Threads -> Seq(R)]
      /\ threads_out \in [Threads -> Seq(S)] /\ next_thread \in Threads
      /\ queued_requests \in Seq(S) /\ storage_results \in Seq(R)
  BY <1>1 DEF PoolResult, HandlerTypeOK
<1>3. /\ threads_in' = [threads_in EXCEPT ![n] = Tail(@)]
      /\ storage_results' = Append(storage_results, Head(threads_in[n]))
      /\ UNCHANGED <<instantiated, pool, storage_request, stored>>
      /\ NextOrIdle
  BY DEF PoolResult
<1>4. Threads' = Threads
  BY DEF Threads
<1>5. max_io_threads \in Nat
  OBVIOUS
<1> HIDE DEF R, S
<1>6. Head(threads_in[n]) \in R /\ Tail(threads_in[n]) \in Seq(R)
  BY <1>2, HeadTail
<1>7. threads_in' \in [Threads -> Seq(R)] /\ storage_results' \in Seq(R)
  BY <1>2, <1>3, <1>6
<1> DEFINE k == Len(threads_in[n])
           p == <<"threads_in", n, k>>
<1>8. /\ OutOf(threads_out, threads_in') = OutOf(threads_out, threads_in) \ {p}
      /\ p \in OutOf(threads_out, threads_in)
  <2>1. Shrunk(threads_in, threads_in', n, k)
    BY <1>2, <1>3, TailShrinks
  <2> HIDE DEF k
  <2> QED
    BY <2>1, ReadIsBack
<1> DEFINE Mid == OutOf(threads_out, threads_in')
<1> HIDE DEF p
<1>9. Mid = Out \ {p} /\ p \in Out
  BY <1>8 DEF Out, OutOf
<1>10. IsFiniteSet(Mid) /\ Cardinality(Mid) = Cardinality(Out) - 1
  BY <1>1, <1>9, FS_RemoveElement DEF PoolCounts
<1>11. cur_concurrency \in Nat /\ cur_concurrency > 0 /\ cur_concurrency <= max_io_threads
  BY <1>1, <1>9, CountIsPositive DEF PoolCounts, PoolCountIsExact
<1>12. CASE queued_requests # <<>>
  <2> DEFINE m == Head(queued_requests)
  <2>1. /\ threads_out' = [threads_out EXCEPT ![next_thread] = Append(@, m)]
        /\ next_thread' = (next_thread % max_io_threads) + 1
        /\ queued_requests' = Tail(queued_requests)
        /\ cur_concurrency' = cur_concurrency
    BY <1>3, <1>12 DEF NextOrIdle, ToNextThread
  <2>2. m \in S /\ queued_requests' \in Seq(S)
    BY <1>2, <1>12, <2>1, HeadTail
  <2> HIDE DEF m
  <2>3. threads_out' \in [Threads -> Seq(S)] /\ next_thread' \in Threads
    BY <1>2, <2>1, <2>2, ThreadTurns
  <2>4. HandlerTypeOK'
    BY <1>1, <1>3, <1>4, <1>7, <2>1, <2>2, <2>3
       DEF HandlerTypeOK, handlerVars, S, R, ForClient
  <2> DEFINE l == Len(threads_out[next_thread]) + 1
             q == <<"threads_out", next_thread, l>>
  <2>5. OutOf(threads_out', threads_in') = Mid \cup {q} /\ q \notin Mid
    <3>1. Grown(threads_out, threads_out', next_thread, l)
      BY <1>2, <2>1, <2>2, AppendGrows
    <3> HIDE DEF l
    <3> QED
      BY <3>1, SentIsOut
  <2> HIDE DEF q, Mid
  <2>6. Out' = Mid \cup {q}
    BY <1>4, <2>5 DEF Out, OutOf
  <2>7. IsFiniteSet(Out') /\ Cardinality(Out') = Cardinality(Mid) + 1
    BY <1>10, <2>5, <2>6, FS_AddElement
  <2>8. Cardinality(Out') = Cardinality(Out)
    BY <1>1, <1>10, <1>11, <2>7 DEF PoolCounts, PoolCountIsExact
  <2>9. PoolCounts'
    BY <1>1, <1>12, <2>1, <2>7, <2>8 DEF PoolCounts, PoolCountIsExact
  <2> QED
    BY <2>4, <2>9 DEF HandlerIInv
<1>13. CASE queued_requests = <<>>
  <2>1. /\ cur_concurrency' = cur_concurrency - 1
        /\ UNCHANGED <<queued_requests, threads_out, next_thread>>
    BY <1>3, <1>13 DEF NextOrIdle
  <2>2. cur_concurrency' \in 0 .. max_io_threads
    BY <1>11, <1>5, <2>1
  <2>3. HandlerTypeOK'
    BY <1>1, <1>3, <1>4, <1>7, <2>1, <2>2 DEF HandlerTypeOK, handlerVars, S, R, ForClient
  <2>4. Out' = Mid
    BY <1>4, <2>1 DEF Out, OutOf
  <2> HIDE DEF Mid
  <2>5. PoolCounts'
    BY <1>1, <1>5, <1>10, <1>11, <1>13, <2>1, <2>4 DEF PoolCounts, PoolCountIsExact
  <2> QED
    BY <2>3, <2>5 DEF HandlerIInv
<1> QED
  BY <1>12, <1>13

\* A thread answers the lookup at the head of its queue.
LEMMA RespondIInv ==
  ASSUME HandlerIInv, NEW n \in Threads, threads_out[n] # <<>>,
         NEW tile \in ForClient(Found), Respond(n, tile),
         stored' \in [Tiles -> {"absent", "expired", "fresh"}], UNCHANGED handlerVars
  PROVE  HandlerIInv'
<1> DEFINE S == ForClient(Commands)
           R == ForClient(Found)
<1>1. HandlerTypeOK /\ PoolCounts
  BY DEF HandlerIInv
<1>2. threads_in \in [Threads -> Seq(R)] /\ threads_out \in [Threads -> Seq(S)] /\ tile \in R
  BY <1>1 DEF HandlerTypeOK
<1>3. /\ threads_out' = [threads_out EXCEPT ![n] = Tail(@)]
      /\ threads_in' = [threads_in EXCEPT ![n] = Append(@, tile)]
      /\ UNCHANGED <<instantiated, pool, storage_request, storage_results, queued_requests,
                     cur_concurrency, next_thread>>
  BY DEF Respond
<1>4. Threads' = Threads
  BY DEF Threads
<1> HIDE DEF R, S
<1>5. Tail(threads_out[n]) \in Seq(S)
  BY <1>2, HeadTail
<1>6. threads_in' \in [Threads -> Seq(R)] /\ threads_out' \in [Threads -> Seq(S)]
  BY <1>2, <1>3, <1>5
<1>7. HandlerTypeOK'
  BY <1>1, <1>3, <1>4, <1>6 DEF HandlerTypeOK, handlerVars, S, R, ForClient
<1> DEFINE k == Len(threads_out[n])
           l == Len(threads_in[n]) + 1
           p == <<"threads_out", n, k>>
           q == <<"threads_in", n, l>>
           Mid == OutOf(threads_out', threads_in)
<1>8. Shrunk(threads_out, threads_out', n, k) /\ Grown(threads_in, threads_in', n, l)
  BY <1>2, <1>3, TailShrinks, AppendGrows
<1> HIDE DEF k, l
<1>9. Out' = Mid \cup {q} /\ q \notin Mid /\ Mid = Out \ {p} /\ p \in Out
  <2>1. Mid = OutOf(threads_out, threads_in) \ {p} /\ p \in OutOf(threads_out, threads_in)
    BY <1>8, TakenIsLess
  <2>2. OutOf(threads_out', threads_in') = Mid \cup {q} /\ q \notin Mid
    BY <1>8, AnsweredIsOut
  <2> HIDE DEF Mid, p, q
  <2> QED
    BY <1>4, <2>1, <2>2 DEF Out, OutOf
<1> HIDE DEF p, q
<1>10. IsFiniteSet(Mid) /\ Cardinality(Mid) = Cardinality(Out) - 1
  BY <1>1, <1>9, FS_RemoveElement DEF PoolCounts
<1> HIDE DEF Mid
<1>11. IsFiniteSet(Out') /\ Cardinality(Out') = Cardinality(Mid) + 1
  BY <1>9, <1>10, FS_AddElement
<1>12. Cardinality(Out) \in Nat
  BY <1>1, FS_CardinalityType DEF PoolCounts
<1>13. Cardinality(Out') = Cardinality(Out)
  BY <1>10, <1>11, <1>12
<1>14. PoolCounts'
  BY <1>1, <1>3, <1>11, <1>13 DEF PoolCounts, PoolCountIsExact
<1> QED
  BY <1>7, <1>14 DEF HandlerIInv

LEMMA ExpireType ==
  ASSUME HandlerTypeOK, NEW S
  PROVE  Expire(S) \in [Tiles -> {"absent", "expired", "fresh"}]
  BY DEF HandlerTypeOK, Expire

\* What a thread answers is a message for the same client.
LEMMA AnswerOfThread ==
  ASSUME HandlerTypeOK, NEW n \in Threads, threads_out[n] # <<>>
  PROVE  LET m == Head(threads_out[n])
         IN  /\ m \in ForClient(Commands)
             /\ \A tile \in Looked(m) : tile \in ForClient(Found) /\ tile.id = m.id
             /\ m.status = "cmdDirty" => m \in ForClient(Found)
             /\ LET e == [m EXCEPT !.status = "cmdNotDone"]
                IN  e \in ForClient(Found) /\ e.id = m.id
<1> DEFINE m == Head(threads_out[n])
<1>1. m \in ForClient(Commands)
  BY HeadTail DEF HandlerTypeOK
<1> HIDE DEF m
<1>2. m.id \in Clients /\ m.tile \in Tiles /\ m.data \in BOOLEAN /\ m.status \in Commands
  BY <1>1 DEF ForClient
<1>3. ASSUME NEW tile \in Looked(m)
      PROVE  tile \in ForClient(Found) /\ tile.id = m.id
  <2>1. stored[m.tile] \in {"absent", "expired", "fresh"}
    BY <1>2 DEF HandlerTypeOK
  <2> DEFINE st == IF m.status = "cmdStatus" THEN "cmdStatus"
                   ELSE [fresh |-> "cmdDone", expired |-> "cmdIgnore",
                         absent |-> "cmdNotDone"][stored[m.tile]]
  <2>2. st \in Found
    BY <2>1 DEF Found
  <2>3. PICK data \in BOOLEAN : tile = TileProtocol(m.id, st, m.tile, data)
    <3>1. PICK d \in (CASE stored[m.tile] = "absent" -> {FALSE}
                        [] stored[m.tile] = "fresh" /\ st = "cmdStatus" -> {TRUE}
                        [] OTHER -> BOOLEAN) : tile = TileProtocol(m.id, st, m.tile, d)
      BY <1>3 DEF Looked
    <3> HIDE DEF st
    <3>2. d \in BOOLEAN
      BY <3>1, <2>1
    <3> QED
      BY <3>1, <3>2
  <2> HIDE DEF st
  <2> QED
    BY <1>2, <2>2, <2>3 DEF TileProtocol, ForClient
<1>4. m.status = "cmdDirty" => m \in ForClient(Found)
  BY <1>1 DEF ForClient, Found
<1>5. LET e == [m EXCEPT !.status = "cmdNotDone"]
      IN  e \in ForClient(Found) /\ e.id = m.id
  BY <1>1 DEF ForClient, Found
<1> QED
  BY <1>1, <1>3, <1>4, <1>5 DEF m

\* Each of a thread's steps is an answer to its oldest lookup.
LEMMA ThreadAnswers ==
  ASSUME HandlerTypeOK, NEW n \in Threads,
         ThreadLookup(n) \/ ThreadDirty(n) \/ ThreadException(n)
  PROVE  /\ threads_out[n] # <<>>
         /\ \E tile \in ForClient(Found) : /\ tile.id = Head(threads_out[n]).id
                                           /\ Respond(n, tile)
         /\ stored' \in [Tiles -> {"absent", "expired", "fresh"}]
<1> DEFINE m == Head(threads_out[n])
<1>1. threads_out[n] # <<>>
  BY DEF ThreadLookup, ThreadDirty, ThreadException
<1>2. stored \in [Tiles -> {"absent", "expired", "fresh"}]
  BY DEF HandlerTypeOK
<1>3. CASE ThreadLookup(n)
  <2>1. PICK tile \in Looked(m) : Respond(n, tile)
    BY <1>3 DEF ThreadLookup
  <2>2. tile \in ForClient(Found) /\ tile.id = m.id
    BY <1>1, <2>1, AnswerOfThread
  <2> QED
    BY <1>1, <1>2, <1>3, <2>1, <2>2 DEF ThreadLookup
<1>4. CASE ThreadDirty(n)
  <2>1. m.status = "cmdDirty" /\ Respond(n, m)
    BY <1>4 DEF ThreadDirty
  <2>2. m \in ForClient(Found)
    BY <1>1, <2>1, AnswerOfThread
  <2>3. stored' \in [Tiles -> {"absent", "expired", "fresh"}]
    BY <1>4, ExpireType DEF ThreadDirty
  <2> QED
    BY <1>1, <2>1, <2>2, <2>3
<1>5. CASE ThreadException(n)
  <2> DEFINE e == [m EXCEPT !.status = "cmdNotDone"]
  <2>1. Respond(n, e)
    BY <1>5 DEF ThreadException
  <2>2. e \in ForClient(Found) /\ e.id = m.id
    BY <1>1, AnswerOfThread
  <2>3. stored' \in [Tiles -> {"absent", "expired", "fresh"}]
    BY <1>2, <1>5, ExpireType DEF ThreadException
  <2> HIDE DEF e
  <2> QED
    BY <1>1, <2>1, <2>2, <2>3
<1> QED
  BY <1>3, <1>4, <1>5

LEMMA PoolNextIInv ==
  ASSUME HandlerIInv, PoolNext, UNCHANGED handlerVars
  PROVE  HandlerIInv'
<1>1. HandlerTypeOK /\ PoolCounts
  BY DEF HandlerIInv
<1>2. CASE PoolBlocks \/ CheckThreadDeath
  <2>1. HandlerTypeOK'
    BY <1>1, <1>2 DEF HandlerTypeOK, handlerVars, PoolBlocks, CheckThreadDeath, Threads
  <2>2. PoolCounts'
    BY <1>1, <1>2, CountsStay DEF PoolBlocks, CheckThreadDeath
  <2> QED
    BY <2>1, <2>2 DEF HandlerIInv
<1>3. ASSUME NEW t \in Threads, ThreadLookup(t) \/ ThreadDirty(t) \/ ThreadException(t)
      PROVE  HandlerIInv'
  BY <1>1, <1>3, ThreadAnswers, RespondIInv
<1> QED
  BY <1>2, <1>3, PoolRequestIInv, PoolResultIInv DEF PoolNext

Codes == {200, 202, 404, 500, 503}

LEMMA ClientIds ==
  ASSUME NEW c \in Clients
  PROVE  c \in Nat /\ c > 0 /\ ~(c < 0) /\ c # NoClient
<1>1. c \in Nat \ {0}
  BY HandlerAssumption, Zenon
<1> QED
  BY <1>1 DEF NoClient

\* What handle_response_from_storage does with an answer of the storage: it
\* replies, and no job or a background job goes to a broker; or the client
\* waits for a job; or the job is refused, which is a reply, too.
LEMMA ResponseEffect ==
  ASSUME HandlerTypeOK, handle_response_from_storage
  PROVE  LET tile == Head(storage_results)
         IN  /\ storage_results # <<>> /\ tile \in ForClient(Found)
             /\ storage_results' = Tail(storage_results)
             /\ \/ /\ \E code \in Codes : Reply(tile.id, code)
                   /\ \/ broker' = broker
                      \/ \E job \in BackgroundJob : broker' = broker \cup {job}
                \/ /\ replies' = replies
                   /\ \E job \in ForClient({"cmdRender"}) :
                        job.id = tile.id /\ broker' = broker \cup {job}
<1> DEFINE tile == Head(storage_results)
<1>1. storage_results # <<>> /\ storage_results' = Tail(storage_results)
  BY DEF handle_response_from_storage
<1>2. tile \in ForClient(Found)
  BY <1>1, HeadTail DEF HandlerTypeOK
<1>3. tile.id \in Clients
  BY <1>2 DEF ForClient
<1>4. replies \in [Clients -> Seq(Codes)]
  BY DEF HandlerTypeOK, Codes
<1> DEFINE Replied == \E code \in Codes : Reply(tile.id, code)
           InBackground == \E job \in BackgroundJob : broker' = broker \cup {job}
           Waits == /\ replies' = replies
                    /\ \E job \in ForClient({"cmdRender"}) :
                         job.id = tile.id /\ broker' = broker \cup {job}
           Goal == (Replied /\ (broker' = broker \/ InBackground)) \/ Waits
<1>5. PICK q \in 0 .. MaxQueueLength :
        \/ StatusReply(tile)
        \/ DirtyReply(tile, q)
        \/ NotDoneReply(tile, q)
        \/ FoundReply(tile, q)
  BY HandlerAssumption DEF handle_response_from_storage
<1> HIDE DEF tile
<1>6. TileReply(tile) \in Codes
  BY DEF TileReply, Codes
<1>7. ASSUME NEW code \in Codes, Reply(tile.id, code), broker' = broker
      PROVE  Goal
  BY <1>7 DEF Reply
<1>8. ASSUME NEW code \in Codes, AnswerThenQueue(tile, code)
      PROVE  Goal
  <2> DEFINE job == Background(tile)
  <2>1. job \in BackgroundJob /\ job.id = NoClient
    BY <1>2 DEF Background, BackgroundJob, ForClient
  <2>2. ~(job.id > 0)
    BY <2>1 DEF NoClient
  <2> HIDE DEF job
  <2>3. replies' = [replies EXCEPT ![tile.id] = Append(@, code)]
    BY <1>8, <2>2 DEF AnswerThenQueue, job
  <2>4. broker' = broker \/ broker' = broker \cup {job}
    BY <1>8 DEF AnswerThenQueue, job
  <2> QED
    BY <2>1, <2>3, <2>4 DEF Reply
<1>9. ASSUME RenderAndWait(tile)
      PROVE  Goal
  <2> DEFINE job == [tile EXCEPT !.status = "cmdRender"]
  <2>1. job \in ForClient({"cmdRender"}) /\ job.id = tile.id
    BY <1>2 DEF ForClient
  <2>2. SendToQueue(job)
    BY <1>9 DEF RenderAndWait
  <2> HIDE DEF job
  <2>3. CASE broker' = broker \cup {job} /\ replies' = replies
    BY <2>1, <2>3
  <2>4. CASE Reply(job.id, 404) /\ broker' = broker
    BY <1>7, <2>1, <2>4 DEF Codes
  <2> QED
    BY <1>3, <2>1, <2>2, <2>3, <2>4, ClientIds DEF SendToQueue
<1> HIDE DEF Goal
<1>10. ASSUME StatusReply(tile) PROVE Goal
  BY <1>7, <1>10 DEF StatusReply, Codes
<1>11. ASSUME DirtyReply(tile, q) PROVE Goal
  BY <1>7, <1>8, <1>11 DEF DirtyReply, Codes
<1>12. ASSUME NotDoneReply(tile, q) PROVE Goal
  BY <1>7, <1>8, <1>9, <1>12 DEF NotDoneReply, Codes
<1>13. ASSUME FoundReply(tile, q) PROVE Goal
  BY <1>6, <1>7, <1>8, <1>9, <1>13 DEF FoundReply
<1> QED
  BY <1>1, <1>2, <1>5, <1>10, <1>11, <1>12, <1>13 DEF Goal, tile

LEMMA ReplyType ==
  ASSUME HandlerTypeOK, NEW c \in Clients, NEW code \in Codes, Reply(c, code)
  PROVE  replies' \in [Clients -> Seq(Codes)]
<1>1. replies \in [Clients -> Seq(Codes)]
  BY DEF HandlerTypeOK, Codes
<1> QED
  BY <1>1 DEF Reply

LEMMA ClientSendsType ==
  ASSUME HandlerTypeOK, NEW c \in Clients, ClientSends(c)
  PROVE  HandlerTypeOK' /\ UNCHANGED poolVars
<1>1. PICK ask \in Asks[c] :
        /\ asked' = [asked EXCEPT ![c] = ask.cmd]
        /\ mongrel' = Append(mongrel, TileProtocol(c, ask.cmd, ask.tile, FALSE))
  BY DEF ClientSends
<1>2. ask \in Ask
  BY HandlerAssumption
<1>3. ask.cmd \in Commands \cup {"unparsable", "bad"} /\ ask.tile \in Tiles
  BY <1>2 DEF Ask
<1> DEFINE S == ForClient(Commands \cup {"unparsable", "bad"})
           m == TileProtocol(c, ask.cmd, ask.tile, FALSE)
<1>4. m \in S
  BY <1>3 DEF TileProtocol, ForClient
<1>5. mongrel \in Seq(S)
  BY DEF HandlerTypeOK
<1>6. mongrel' \in Seq(S)
  <2>1. mongrel' = Append(mongrel, m)
    BY <1>1
  <2> HIDE DEF S, m
  <2> QED
    BY <1>4, <1>5, <2>1
<1>7. asked' \in [Clients -> Commands \cup {"nothing", "unparsable", "bad"}]
  BY <1>1, <1>3 DEF HandlerTypeOK
<1>8. UNCHANGED <<poolVars, m_stale_render_background, replies, ignored, broker, lost, results>>
  BY DEF ClientSends
<1>9. UNCHANGED poolVars /\ Threads' = Threads
  BY <1>8 DEF Threads
<1>10. /\ UNCHANGED <<m_stale_render_background, replies, ignored, broker, lost, results>>
       /\ UNCHANGED <<instantiated, pool, storage_request, storage_results, queued_requests,
                      cur_concurrency, next_thread, threads_out, threads_in, stored>>
  BY <1>8 DEF poolVars
<1>11. HandlerTypeOK'
  BY <1>6, <1>7, <1>9, <1>10 DEF HandlerTypeOK, S, ForClient, BackgroundJob
<1> QED
  BY <1>9, <1>11

\* A request from mongrel2 is dropped, refused or passed to the storage worker.
LEMMA RequestEffect ==
  ASSUME HandlerTypeOK, handle_request_from_mongrel
  PROVE  LET tile == Head(mongrel)
         IN  /\ mongrel # <<>> /\ mongrel' = Tail(mongrel) /\ tile.id \in Clients
             /\ \/ /\ ignored' = ignored \cup {tile.id}
                   /\ UNCHANGED <<poolVars, replies>>
                \/ /\ Reply(tile.id, 404)
                   /\ UNCHANGED <<poolVars, ignored>>
                \/ /\ tile \in ForClient(Commands)
                   /\ storage_request' = Append(storage_request, tile)
                   /\ UNCHANGED <<replies, ignored, instantiated, pool, storage_results,
                                  queued_requests, cur_concurrency, next_thread, threads_out,
                                  threads_in, stored>>
<1> DEFINE tile == Head(mongrel)
<1>1. mongrel # <<>> /\ mongrel' = Tail(mongrel)
  BY DEF handle_request_from_mongrel
<1>2. tile \in ForClient(Commands \cup {"unparsable", "bad"})
  BY <1>1, HeadTail DEF HandlerTypeOK
<1>3. tile.id \in Clients /\ (tile.status \in Commands => tile \in ForClient(Commands))
  BY <1>2 DEF ForClient
<1> QED
  BY <1>1, <1>3 DEF handle_request_from_mongrel, Reply

LEMMA RequestType ==
  ASSUME HandlerTypeOK, handle_request_from_mongrel
  PROVE  HandlerTypeOK'
<1> DEFINE tile == Head(mongrel)
           S == ForClient(Commands)
           M == ForClient(Commands \cup {"unparsable", "bad"})
<1>1. mongrel \in Seq(M) /\ storage_request \in Seq(S)
  BY DEF HandlerTypeOK
<1>2. /\ mongrel # <<>> /\ mongrel' = Tail(mongrel) /\ tile.id \in Clients
      /\ UNCHANGED <<m_stale_render_background, asked, broker, lost, results>>
  BY RequestEffect DEF handle_request_from_mongrel
<1>3. Threads' = Threads
  BY DEF Threads
<1> HIDE DEF S, M
<1>4. mongrel' \in Seq(M)
  BY <1>1, <1>2, HeadTail
<1>5. CASE ignored' = ignored \cup {tile.id} /\ UNCHANGED <<poolVars, replies>>
  BY <1>2, <1>3, <1>4, <1>5 DEF HandlerTypeOK, poolVars, M, ForClient, BackgroundJob
<1>6. CASE Reply(tile.id, 404) /\ UNCHANGED <<poolVars, ignored>>
  <2>1. replies' \in [Clients -> Seq(Codes)]
    BY <1>2, <1>6, ReplyType DEF Codes
  <2> QED
    BY <1>2, <1>3, <1>4, <1>6, <2>1
       DEF HandlerTypeOK, poolVars, M, ForClient, BackgroundJob, Codes
<1>7. CASE /\ tile \in S
           /\ storage_request' = Append(storage_request, tile)
           /\ UNCHANGED <<replies, ignored, instantiated, pool, storage_results,
                          queued_requests, cur_concurrency, next_thread, threads_out,
                          threads_in, stored>>
  <2>1. storage_request' \in Seq(S)
    BY <1>1, <1>7
  <2> QED
    BY <1>2, <1>3, <1>4, <1>7, <2>1
       DEF HandlerTypeOK, M, S, ForClient, BackgroundJob
<1> QED
  BY <1>5, <1>6, <1>7, RequestEffect DEF S

LEMMA ResponseType ==
  ASSUME HandlerTypeOK, handle_response_from_storage
  PROVE  HandlerTypeOK'
<1> DEFINE tile == Head(storage_results)
           R == ForClient(Found)
           J == ForClient({"cmdRender"}) \cup BackgroundJob
<1>1. storage_results \in Seq(R) /\ broker \subseteq J
  BY DEF HandlerTypeOK
<1>2. /\ storage_results # <<>> /\ storage_results' = Tail(storage_results) /\ tile \in R
      /\ UNCHANGED <<m_stale_render_background, asked, mongrel, ignored, lost, results>>
      /\ UNCHANGED <<instantiated, pool, storage_request, queued_requests, cur_concurrency,
                     next_thread, threads_out, threads_in, stored>>
  BY ResponseEffect DEF handle_response_from_storage
<1>3. Threads' = Threads
  BY DEF Threads
<1>4. storage_results' \in Seq(R)
  <2> HIDE DEF R
  <2> QED
    BY <1>1, <1>2, HeadTail
<1>5. broker' \subseteq J
  BY <1>1, ResponseEffect
<1>6. tile.id \in Clients
  BY <1>2 DEF ForClient
<1>7. replies' \in [Clients -> Seq(Codes)]
  <2>1. replies' = replies \/ \E code \in Codes : Reply(tile.id, code)
    BY ResponseEffect
  <2> QED
    BY <1>6, <2>1, ReplyType DEF HandlerTypeOK, Codes
<1> QED
  BY <1>2, <1>3, <1>4, <1>5, <1>7 DEF HandlerTypeOK, ForClient, BackgroundJob, Codes

\* An answer of a broker always is for a client, who gets it.
LEMMA ReplyEffect ==
  ASSUME HandlerTypeOK, reply_with_tile
  PROVE  /\ results # <<>> /\ results' = Tail(results) /\ Head(results).id \in Clients
         /\ \E code \in Codes : Reply(Head(results).id, code)
         /\ UNCHANGED <<poolVars, m_stale_render_background, asked, mongrel, ignored, broker,
                        lost>>
<1> DEFINE tile == Head(results)
<1>1. /\ results # <<>> /\ results' = Tail(results)
      /\ UNCHANGED <<poolVars, m_stale_render_background, asked, mongrel, ignored, broker,
                     lost>>
  BY DEF reply_with_tile
<1>2. tile \in ForClient({"cmdDone", "cmdNotDone"})
  BY <1>1, HeadTail DEF HandlerTypeOK
<1>3. tile.id \in Clients
  BY <1>2 DEF ForClient
<1>4. Reply(tile.id, TileReply(tile))
  BY <1>3, ClientIds DEF reply_with_tile
<1>5. TileReply(tile) \in Codes
  BY DEF TileReply, Codes
<1> QED
  BY <1>1, <1>3, <1>4, <1>5 DEF Reply

LEMMA ReplyWithTileType ==
  ASSUME HandlerTypeOK, reply_with_tile
  PROVE  HandlerTypeOK'
<1> DEFINE B == ForClient({"cmdDone", "cmdNotDone"})
<1>1. results \in Seq(B)
  BY DEF HandlerTypeOK
<1>2. results' \in Seq(B)
  <2> HIDE DEF B
  <2> QED
    BY <1>1, ReplyEffect, HeadTail
<1>3. replies' \in [Clients -> Seq(Codes)]
  BY ReplyEffect, ReplyType
<1>4. Threads' = Threads
  BY DEF Threads
<1>5. /\ UNCHANGED <<m_stale_render_background, asked, mongrel, ignored, broker, lost>>
      /\ UNCHANGED <<instantiated, pool, storage_request, storage_results, queued_requests,
                     cur_concurrency, next_thread, threads_out, threads_in, stored>>
  BY ReplyEffect DEF poolVars
<1> QED
  BY <1>2, <1>3, <1>4, <1>5 DEF HandlerTypeOK, ForClient, BackgroundJob, Codes

\* A broker settles a job: one of a client is answered, a background job is not.
LEMMA SettleEffect ==
  ASSUME HandlerTypeOK, NEW job \in broker, BrokerSettles(job)
  PROVE  /\ broker' = broker \ {job}
         /\ \/ job.id = NoClient /\ results' = results
            \/ /\ job.id \in Clients
               /\ \E m \in ForClient({"cmdDone", "cmdNotDone"}) :
                    m.id = job.id /\ results' = Append(results, m)
         /\ stored' \in [Tiles -> {"absent", "expired", "fresh"}]
         /\ UNCHANGED <<m_stale_render_background, asked, mongrel, replies, ignored, lost>>
         /\ UNCHANGED <<instantiated, pool, storage_request, storage_results, queued_requests,
                        cur_concurrency, next_thread, threads_out, threads_in>>
<1>1. job \in ForClient({"cmdRender"}) \/ job \in BackgroundJob
  BY DEF HandlerTypeOK
<1>2. /\ broker' = broker \ {job}
      /\ UNCHANGED <<m_stale_render_background, asked, mongrel, replies, ignored, lost>>
      /\ UNCHANGED <<instantiated, pool, storage_request, storage_results, queued_requests,
                     cur_concurrency, next_thread, threads_out, threads_in>>
  BY DEF BrokerSettles
<1>3. job.tile \in Tiles
  BY <1>1 DEF ForClient, BackgroundJob
<1>4. stored' \in [Tiles -> {"absent", "expired", "fresh"}]
  <2>1. stored' = [stored EXCEPT ![job.tile] = "fresh"] \/ stored' = stored
    BY DEF BrokerSettles
  <2>2. stored \in [Tiles -> {"absent", "expired", "fresh"}]
    BY DEF HandlerTypeOK
  <2> QED
    BY <1>3, <2>1, <2>2
<1>5. CASE job \in BackgroundJob
  <2>1. job.id = NoClient /\ job.status = "cmdRenderBulk"
    BY <1>5 DEF BackgroundJob
  <2> QED
    BY <1>2, <1>4, <2>1 DEF BrokerSettles
<1>6. CASE job \in ForClient({"cmdRender"})
  <2>1. job.id \in Clients /\ job.status = "cmdRender"
    BY <1>6 DEF ForClient
  <2>2. PICK status \in {"cmdDone", "cmdNotDone"}, data \in BOOLEAN :
          results' = Append(results, TileProtocol(job.id, status, job.tile, data))
    BY <2>1 DEF BrokerSettles
  <2> DEFINE m == TileProtocol(job.id, status, job.tile, data)
  <2>3. m \in ForClient({"cmdDone", "cmdNotDone"}) /\ m.id = job.id
    BY <1>3, <2>1 DEF TileProtocol, ForClient
  <2> QED
    BY <1>2, <1>4, <2>1, <2>2, <2>3
<1> QED
  BY <1>1, <1>5, <1>6

LEMMA SettleType ==
  ASSUME HandlerTypeOK, NEW job \in broker, BrokerSettles(job)
  PROVE  HandlerTypeOK'
<1> DEFINE B == ForClient({"cmdDone", "cmdNotDone"})
<1>1. results \in Seq(B)
  BY DEF HandlerTypeOK
<1>2. results' \in Seq(B)
  <2>1. results' = results \/ \E m \in B : results' = Append(results, m)
    BY SettleEffect
  <2> HIDE DEF B
  <2> QED
    BY <1>1, <2>1
<1>3. /\ UNCHANGED <<m_stale_render_background, asked, mongrel, replies, ignored, lost>>
      /\ UNCHANGED <<instantiated, pool, storage_request, storage_results, queued_requests,
                     cur_concurrency, next_thread, threads_out, threads_in>>
      /\ broker' \subseteq broker
      /\ stored' \in [Tiles -> {"absent", "expired", "fresh"}]
  BY SettleEffect
<1>4. Threads' = Threads
  BY DEF Threads
<1> QED
  BY <1>2, <1>3, <1>4 DEF HandlerTypeOK, ForClient, BackgroundJob

LEMMA LoseEffect ==
  ASSUME HandlerTypeOK, NEW job \in broker, BrokerLoses(job)
  PROVE  /\ broker' = broker \ {job}
         /\ \/ job.id = NoClient /\ lost' = lost
            \/ job.id \in Clients /\ lost' = lost \cup {job.id}
         /\ UNCHANGED <<poolVars, m_stale_render_background, asked, mongrel, replies, ignored,
                        results>>
<1>1. job.id = NoClient \/ job.id \in Clients
  BY DEF HandlerTypeOK, ForClient, BackgroundJob
<1>2. ~(NoClient > 0)
  BY DEF NoClient
<1> QED
  BY <1>1, <1>2, ClientIds DEF BrokerLoses

LEMMA LoseType ==
  ASSUME HandlerTypeOK, NEW job \in broker, BrokerLoses(job)
  PROVE  HandlerTypeOK'
<1>1. /\ UNCHANGED <<m_stale_render_background, asked, mongrel, replies, ignored, results>>
      /\ UNCHANGED <<instantiated, pool, storage_request, storage_results, queued_requests,
                     cur_concurrency, next_thread, threads_out, threads_in, stored>>
      /\ broker' \subseteq broker
  BY LoseEffect DEF poolVars
<1>2. lost' \subseteq Clients
  <2>1. lost' = lost \/ \E c \in Clients : lost' = lost \cup {c}
    BY LoseEffect
  <2> QED
    BY <2>1 DEF HandlerTypeOK
<1>3. Threads' = Threads
  BY DEF Threads
<1> QED
  BY <1>1, <1>2, <1>3 DEF HandlerTypeOK, ForClient, BackgroundJob

LEMMA HandlerIInvNext ==
  HandlerIInv /\ [HandlerNext]_vars => HandlerIInv'
<1> SUFFICES ASSUME HandlerIInv, [HandlerNext]_vars
             PROVE  HandlerIInv'
  OBVIOUS
<1>1. HandlerTypeOK /\ PoolCounts
  BY DEF HandlerIInv
<1>2. CASE PoolNext /\ UNCHANGED handlerVars
  BY <1>2, PoolNextIInv
<1>3. CASE handle_request_from_mongrel
  <2>1. UNCHANGED <<cur_concurrency, queued_requests, threads_out, threads_in>>
    BY <1>1, <1>3, RequestEffect DEF poolVars
  <2> QED
    BY <1>1, <1>3, <2>1, RequestType, CountsStay DEF HandlerIInv
<1>4. CASE handle_response_from_storage
  <2>1. UNCHANGED <<cur_concurrency, queued_requests, threads_out, threads_in>>
    BY <1>4 DEF handle_response_from_storage
  <2> QED
    BY <1>1, <1>4, <2>1, ResponseType, CountsStay DEF HandlerIInv
<1>5. CASE reply_with_tile
  <2>1. UNCHANGED <<cur_concurrency, queued_requests, threads_out, threads_in>>
    BY <1>5 DEF reply_with_tile, poolVars
  <2> QED
    BY <1>1, <1>5, <2>1, ReplyWithTileType, CountsStay DEF HandlerIInv
<1>6. ASSUME NEW c \in Clients, ClientSends(c) PROVE HandlerIInv'
  <2>1. UNCHANGED <<cur_concurrency, queued_requests, threads_out, threads_in>>
    BY <1>6 DEF ClientSends, poolVars
  <2> QED
    BY <1>1, <1>6, <2>1, ClientSendsType, CountsStay DEF HandlerIInv
<1>7. ASSUME NEW job \in broker, BrokerSettles(job) PROVE HandlerIInv'
  <2>1. UNCHANGED <<cur_concurrency, queued_requests, threads_out, threads_in>>
    BY <1>7 DEF BrokerSettles
  <2> QED
    BY <1>1, <1>7, <2>1, SettleType, CountsStay DEF HandlerIInv
<1>8. ASSUME NEW job \in broker, BrokerLoses(job) PROVE HandlerIInv'
  <2>1. UNCHANGED <<cur_concurrency, queued_requests, threads_out, threads_in>>
    BY <1>8 DEF BrokerLoses, poolVars
  <2> QED
    BY <1>1, <1>8, <2>1, LoseType, CountsStay DEF HandlerIInv
<1>9. CASE UNCHANGED vars
  <2>1. /\ UNCHANGED <<m_stale_render_background, asked, mongrel, replies, ignored, broker, lost,
                       results>>
        /\ UNCHANGED <<instantiated, pool, storage_request, storage_results, queued_requests,
                       cur_concurrency, next_thread, threads_out, threads_in, stored>>
    BY <1>9 DEF vars, poolVars, handlerVars
  <2>2. HandlerTypeOK'
    BY <1>1, <2>1 DEF HandlerTypeOK, ForClient, BackgroundJob, Threads
  <2> QED
    BY <1>1, <2>1, <2>2, CountsStay DEF HandlerIInv
<1> QED
  BY <1>2, <1>3, <1>4, <1>5, <1>6, <1>7, <1>8, <1>9 DEF HandlerNext, HandlerStep

\* The handler's invariant holds without any of the specification's fairness.
LEMMA HandlerSpecIInv == HandlerSpec => []HandlerIInv
  BY HandlerIInvInit, HandlerIInvNext, PTL DEF HandlerSpec

(* The count of busy I/O threads that storage_worker::operator() keeps is   *)
(* exact for every size of the pool: it is the number of lookups that are  *)
(* out with the threads, it never exceeds max_io_threads, and no lookup    *)
(* waits in queued_requests while a thread is free.                        *)
THEOREM PoolIsNeverOverbooked == HandlerSpec => []HandlerInv
<1>1. HandlerIInv => HandlerInv
  BY DEF HandlerIInv, HandlerInv, PoolCounts
<1> QED
  BY <1>1, HandlerSpecIInv, PTL

One(S) == \E x : S = {x}

\* How what a spot holds of one client changes: not in number, it goes, or it comes.
Same(S, T) == (S = {} => T = {}) /\ (One(S) => One(T))
Leaves(S, T) == S # {} /\ (One(S) => T = {})
Enters(S, T) == S = {} => One(T)

LEMMA SameIfEqual ==
  ASSUME NEW S, NEW T, S = T
  PROVE  Same(S, T)
  BY DEF Same

LEMMA TailAt ==
  ASSUME NEW M, NEW q \in Seq(M), q # <<>>, NEW c
  PROVE  /\ Head(q).id # c => Same(At(q, c), At(Tail(q), c))
         /\ Head(q).id = c => Leaves(At(q, c), At(Tail(q), c))
<1>1. /\ Len(q) \in Nat \ {0} /\ Head(q) = q[1] /\ Len(Tail(q)) = Len(q) - 1
      /\ \A i \in 1 .. Len(q) - 1 : Tail(q)[i] = q[i + 1]
  OBVIOUS
<1> DEFINE S == At(q, c)
           T == At(Tail(q), c)
<1>2. \A i : i \in T => i \in Nat /\ i + 1 \in S /\ i + 1 # 1
  BY <1>1 DEF At
<1>3. \A i : i \in S /\ i # 1 => i - 1 \in T /\ i \in Nat
  BY <1>1 DEF At
<1>4. S \subseteq Nat /\ T \subseteq Nat
  BY <1>1 DEF At
<1>5. ASSUME Head(q).id # c
      PROVE  Same(S, T)
  <2>1. 1 \notin S
    BY <1>1, <1>5 DEF At
  <2> HIDE DEF S, T
  <2>2. S = {} => T = {}
    BY <1>2
  <2>3. ASSUME NEW x, S = {x}
        PROVE  T = {x - 1}
    <3>1. x \in Nat /\ x - 1 \in T
      BY <1>3, <2>1, <2>3
    <3>2. ASSUME NEW i \in T PROVE i = x - 1
      <4>1. i \in Nat /\ i + 1 \in S
        BY <1>2
      <4>2. i + 1 = x
        BY <2>3, <4>1
      <4> QED
        BY <3>1, <4>1, <4>2
    <3> QED
      BY <3>1, <3>2
  <2> QED
    BY <2>2, <2>3 DEF Same, One
<1>6. ASSUME Head(q).id = c
      PROVE  Leaves(S, T)
  <2>1. 1 \in S
    BY <1>1, <1>6 DEF At
  <2> HIDE DEF S, T
  <2>2. ASSUME NEW x, S = {x}
        PROVE  T = {}
    BY <1>2, <2>1, <2>2
  <2> QED
    BY <2>1, <2>2 DEF Leaves, One
<1> QED
  BY <1>5, <1>6

LEMMA AppendAt ==
  ASSUME NEW M, NEW q \in Seq(M), NEW m \in M, NEW c
  PROVE  /\ m.id # c => Same(At(q, c), At(Append(q, m), c))
         /\ m.id = c => Enters(At(q, c), At(Append(q, m), c))
<1>1. /\ Len(q) \in Nat /\ Len(Append(q, m)) = Len(q) + 1
      /\ \A i \in 1 .. Len(q) : Append(q, m)[i] = q[i]
      /\ Append(q, m)[Len(q) + 1] = m
  OBVIOUS
<1>2. 1 .. Len(q) + 1 = (1 .. Len(q)) \cup {Len(q) + 1}
  BY <1>1
<1> DEFINE r == Append(q, m)
           k == Len(q) + 1
<1>3. Len(r) = k /\ r[k] = m
  BY <1>1
<1>4. \A i : i \in At(r, c) <=> i \in At(q, c) \/ (i = k /\ m.id = c)
  <2>1. 1 .. Len(r) = (1 .. Len(q)) \cup {k}
    BY <1>2, <1>3
  <2>2. \A i \in 1 .. Len(q) : r[i] = q[i]
    BY <1>1
  <2> HIDE DEF r, k
  <2> QED
    BY <1>3, <2>1, <2>2 DEF At
<1> HIDE DEF r, k
<1>5. m.id # c => At(r, c) = At(q, c)
  BY <1>4
<1>6. m.id = c /\ At(q, c) = {} => At(r, c) = {k}
  BY <1>4
<1> QED
  BY <1>5, <1>6 DEF Same, Enters, One, r

\* The spots where a request can be, and what each holds of client c.
Spots == {<<"mongrel", 0>>, <<"storage_request", 0>>, <<"queued_requests", 0>>,
          <<"storage_results", 0>>, <<"results", 0>>, <<"broker", 0>>, <<"replies", 0>>,
          <<"ignored", 0>>, <<"lost", 0>>}
         \cup ({"threads_out", "threads_in"} \X Threads)

Slot(c, s) ==
  CASE s[1] = "mongrel"         -> At(mongrel, c)
    [] s[1] = "storage_request" -> At(storage_request, c)
    [] s[1] = "queued_requests" -> At(queued_requests, c)
    [] s[1] = "threads_out"     -> At(threads_out[s[2]], c)
    [] s[1] = "threads_in"      -> At(threads_in[s[2]], c)
    [] s[1] = "storage_results" -> At(storage_results, c)
    [] s[1] = "results"         -> At(results, c)
    [] s[1] = "broker"          -> Jobs(broker, c)
    [] s[1] = "replies"         -> 1 .. Len(replies[c])
    [] s[1] = "ignored"         -> {c} \cap ignored
    [] s[1] = "lost"            -> {c} \cap lost

\* The inductive form of OnePlacePerRequest: one spot holds one thing of the
\* client's, and the others nothing.
OneSpot(c) ==
  \/ asked[c] = "nothing" /\ \A s \in Spots : Slot(c, s) = {}
  \/ /\ asked[c] # "nothing"
     /\ \E s \in Spots : /\ One(Slot(c, s))
                         /\ \A r \in Spots \ {s} : Slot(c, r) = {}

LEMMA SlotIs ==
  ASSUME NEW c
  PROVE  /\ Slot(c, <<"mongrel", 0>>) = At(mongrel, c)
         /\ Slot(c, <<"storage_request", 0>>) = At(storage_request, c)
         /\ Slot(c, <<"queued_requests", 0>>) = At(queued_requests, c)
         /\ Slot(c, <<"storage_results", 0>>) = At(storage_results, c)
         /\ Slot(c, <<"results", 0>>) = At(results, c)
         /\ Slot(c, <<"broker", 0>>) = Jobs(broker, c)
         /\ Slot(c, <<"replies", 0>>) = 1 .. Len(replies[c])
         /\ Slot(c, <<"ignored", 0>>) = {c} \cap ignored
         /\ Slot(c, <<"lost", 0>>) = {c} \cap lost
         /\ \A t : Slot(c, <<"threads_out", t>>) = At(threads_out[t], c)
         /\ \A t : Slot(c, <<"threads_in", t>>) = At(threads_in[t], c)
  BY DEF Slot

LEMMA SlotIsNext ==
  ASSUME NEW c
  PROVE  /\ Slot(c, <<"mongrel", 0>>)' = At(mongrel', c)
         /\ Slot(c, <<"storage_request", 0>>)' = At(storage_request', c)
         /\ Slot(c, <<"queued_requests", 0>>)' = At(queued_requests', c)
         /\ Slot(c, <<"storage_results", 0>>)' = At(storage_results', c)
         /\ Slot(c, <<"results", 0>>)' = At(results', c)
         /\ Slot(c, <<"broker", 0>>)' = Jobs(broker', c)
         /\ Slot(c, <<"replies", 0>>)' = 1 .. Len(replies'[c])
         /\ Slot(c, <<"ignored", 0>>)' = {c} \cap ignored'
         /\ Slot(c, <<"lost", 0>>)' = {c} \cap lost'
         /\ \A t : Slot(c, <<"threads_out", t>>)' = At(threads_out'[t], c)
         /\ \A t : Slot(c, <<"threads_in", t>>)' = At(threads_in'[t], c)
  BY DEF Slot, At, Jobs

\* All spots but those in X hold as much as before if their variables do.
LEMMA RestIsSame ==
  ASSUME NEW c, NEW X,
         <<"mongrel", 0>> \in X \/ Same(At(mongrel, c), At(mongrel', c)),
         <<"storage_request", 0>> \in X \/ Same(At(storage_request, c), At(storage_request', c)),
         <<"queued_requests", 0>> \in X \/ Same(At(queued_requests, c), At(queued_requests', c)),
         <<"storage_results", 0>> \in X \/ Same(At(storage_results, c), At(storage_results', c)),
         <<"results", 0>> \in X \/ Same(At(results, c), At(results', c)),
         \/ <<"broker", 0>> \in X
         \/ Same(Jobs(broker, c), Jobs(broker', c)),
         <<"replies", 0>> \in X \/ Same(1 .. Len(replies[c]), 1 .. Len(replies'[c])),
         <<"ignored", 0>> \in X \/ Same({c} \cap ignored, {c} \cap ignored'),
         <<"lost", 0>> \in X \/ Same({c} \cap lost, {c} \cap lost'),
         \A t \in Threads : \/ <<"threads_out", t>> \in X
                            \/ Same(At(threads_out[t], c), At(threads_out'[t], c)),
         \A t \in Threads : \/ <<"threads_in", t>> \in X
                            \/ Same(At(threads_in[t], c), At(threads_in'[t], c))
  PROVE  \A s \in Spots \ X : Same(Slot(c, s), Slot(c, s)')
<1> SUFFICES ASSUME NEW s \in Spots \ X PROVE Same(Slot(c, s), Slot(c, s)')
  OBVIOUS
<1>1. ASSUME NEW t \in Threads, s = <<"threads_out", t>>
      PROVE  Same(Slot(c, s), Slot(c, s)')
  <2>1. Slot(c, s) = At(threads_out[t], c) /\ Slot(c, s)' = At(threads_out'[t], c)
    BY <1>1 DEF Slot, At
  <2> QED
    BY <1>1, <2>1
<1>2. ASSUME NEW t \in Threads, s = <<"threads_in", t>>
      PROVE  Same(Slot(c, s), Slot(c, s)')
  <2>1. Slot(c, s) = At(threads_in[t], c) /\ Slot(c, s)' = At(threads_in'[t], c)
    BY <1>2 DEF Slot, At
  <2> QED
    BY <1>2, <2>1
<1>3. CASE s \in {<<"mongrel", 0>>, <<"storage_request", 0>>, <<"queued_requests", 0>>,
                 <<"storage_results", 0>>, <<"results", 0>>}
  BY <1>3, SlotIs, SlotIsNext
<1>4. CASE s \in {<<"broker", 0>>, <<"replies", 0>>, <<"ignored", 0>>, <<"lost", 0>>}
  BY <1>4, SlotIs, SlotIsNext
<1> QED
  BY <1>1, <1>2, <1>3, <1>4 DEF Spots

LEMMA SpotStays ==
  ASSUME NEW c \in Clients, OneSpot(c), asked'[c] = asked[c],
         \A s \in Spots : Same(Slot(c, s), Slot(c, s)')
  PROVE  OneSpot(c)'
<1>1. CASE asked[c] = "nothing" /\ \A s \in Spots : Slot(c, s) = {}
  BY <1>1 DEF OneSpot, Same, Spots, Threads
<1>2. CASE /\ asked[c] # "nothing"
           /\ \E s \in Spots : /\ One(Slot(c, s))
                               /\ \A r \in Spots \ {s} : Slot(c, r) = {}
  <2>1. PICK s \in Spots : One(Slot(c, s)) /\ \A r \in Spots \ {s} : Slot(c, r) = {}
    BY <1>2
  <2>2. One(Slot(c, s)') /\ \A r \in Spots \ {s} : Slot(c, r)' = {}
    BY <2>1 DEF Same
  <2>3. Spots' = Spots
    BY DEF Spots, Threads
  <2> QED
    BY <1>2, <2>2, <2>3 DEF OneSpot, One
<1> QED
  BY <1>1, <1>2 DEF OneSpot

LEMMA SpotMoves ==
  ASSUME NEW c \in Clients, OneSpot(c), asked'[c] = asked[c],
         NEW s \in Spots, NEW r \in Spots, s # r,
         Leaves(Slot(c, s), Slot(c, s)'), Enters(Slot(c, r), Slot(c, r)'),
         \A u \in Spots \ {s, r} : Same(Slot(c, u), Slot(c, u)')
  PROVE  OneSpot(c)'
<1>1. asked[c] # "nothing" /\ One(Slot(c, s)) /\ \A u \in Spots \ {s} : Slot(c, u) = {}
  BY DEF OneSpot, Leaves
<1>2. One(Slot(c, r)') /\ \A u \in Spots \ {r} : Slot(c, u)' = {}
  BY <1>1 DEF Leaves, Enters, Same
<1>3. Spots' = Spots
  BY DEF Spots, Threads
<1> QED
  BY <1>1, <1>2, <1>3 DEF OneSpot, One

\* Before it sends, a client has nothing anywhere.
LEMMA SpotTaken ==
  ASSUME NEW c \in Clients, OneSpot(c), asked[c] = "nothing", asked'[c] # "nothing",
         NEW r \in Spots, Enters(Slot(c, r), Slot(c, r)'),
         \A u \in Spots \ {r} : Same(Slot(c, u), Slot(c, u)')
  PROVE  OneSpot(c)'
<1>1. \A u \in Spots : Slot(c, u) = {}
  BY DEF OneSpot
<1>2. One(Slot(c, r)') /\ \A u \in Spots \ {r} : Slot(c, u)' = {}
  BY <1>1 DEF Enters, Same
<1>3. Spots' = Spots
  BY DEF Spots, Threads
<1> QED
  BY <1>2, <1>3 DEF OneSpot, One

LEMMA ReplySlot ==
  ASSUME HandlerTypeOK, NEW c \in Clients, NEW d \in Clients, NEW code \in Codes,
         Reply(d, code)
  PROVE  /\ c # d => replies'[c] = replies[c]
         /\ c = d => Enters(1 .. Len(replies[c]), 1 .. Len(replies'[c]))
<1>1. replies \in [Clients -> Seq(Codes)]
  BY DEF HandlerTypeOK, Codes
<1>2. c # d => replies'[c] = replies[c]
  BY <1>1 DEF Reply
<1>3. ASSUME c = d PROVE Enters(1 .. Len(replies[c]), 1 .. Len(replies'[c]))
  <2>1. Len(replies[c]) \in Nat /\ Len(replies'[c]) = Len(replies[c]) + 1
    BY <1>1, <1>3 DEF Reply
  <2>2. ASSUME 1 .. Len(replies[c]) = {} PROVE 1 .. Len(replies'[c]) = {1}
    <3>1. 1 \notin 1 .. Len(replies[c])
      BY <2>2
    <3>2. Len(replies'[c]) = 1
      BY <2>1, <3>1
    <3> QED
      BY <3>2
  <2> QED
    BY <2>2 DEF Enters, One
<1> QED
  BY <1>2, <1>3

LEMMA JobAdded ==
  ASSUME NEW B, NEW C, NEW job, C = B \cup {job}, NEW c
  PROVE  /\ job.id # c => Same(Jobs(B, c), Jobs(C, c))
         /\ job.id = c => Enters(Jobs(B, c), Jobs(C, c))
<1> DEFINE S == Jobs(B, c)
           T == Jobs(C, c)
<1>1. job.id # c => T = S
  BY DEF Jobs
<1>2. job.id = c => T = S \cup {job}
  BY DEF Jobs
<1> HIDE DEF S, T
<1>3. job.id = c /\ S = {} => T = {job}
  BY <1>2
<1>4. Same(S, S)
  BY SameIfEqual
<1>5. job.id # c => Same(S, T)
  BY <1>1, <1>4
<1>6. job.id = c => Enters(S, T)
  BY <1>3 DEF Enters, One
<1> QED
  BY <1>5, <1>6 DEF S, T

LEMMA JobRemoved ==
  ASSUME NEW B, NEW C, NEW job \in B, C = B \ {job}, NEW c
  PROVE  /\ job.id # c => Same(Jobs(B, c), Jobs(C, c))
         /\ job.id = c => Leaves(Jobs(B, c), Jobs(C, c))
<1> DEFINE S == Jobs(B, c)
           T == Jobs(C, c)
<1>1. job.id # c => T = S
  BY DEF Jobs
<1>2. job.id = c => T = S \ {job} /\ job \in S
  BY DEF Jobs
<1> HIDE DEF S, T
<1>3. ASSUME job.id = c, NEW x, S = {x} PROVE T = {}
  BY <1>2, <1>3
<1>4. Same(S, S)
  BY SameIfEqual
<1>5. job.id # c => Same(S, T)
  BY <1>1, <1>4
<1>6. job.id = c => Leaves(S, T)
  BY <1>2, <1>3 DEF Leaves, One
<1> QED
  BY <1>5, <1>6 DEF S, T

LEMMA MemberAdded ==
  ASSUME NEW I, NEW d, NEW c
  PROVE  /\ c # d => {c} \cap (I \cup {d}) = {c} \cap I
         /\ c = d => Enters({c} \cap I, {c} \cap (I \cup {d}))
<1>1. c = d => {c} \cap (I \cup {d}) = {c}
  OBVIOUS
<1> QED
  BY <1>1 DEF Enters, One

\* What stays the same is held as before.
LEMMA SlotsOfUnchanged ==
  ASSUME NEW c
  PROVE  /\ mongrel' = mongrel => Same(At(mongrel, c), At(mongrel', c))
         /\ storage_request' = storage_request
              => Same(At(storage_request, c), At(storage_request', c))
         /\ queued_requests' = queued_requests
              => Same(At(queued_requests, c), At(queued_requests', c))
         /\ storage_results' = storage_results
              => Same(At(storage_results, c), At(storage_results', c))
         /\ results' = results => Same(At(results, c), At(results', c))
         /\ broker' = broker
              => Same(Jobs(broker, c), Jobs(broker', c))
         /\ replies'[c] = replies[c] => Same(1 .. Len(replies[c]), 1 .. Len(replies'[c]))
         /\ ignored' = ignored => Same({c} \cap ignored, {c} \cap ignored')
         /\ lost' = lost => Same({c} \cap lost, {c} \cap lost')
         /\ threads_out' = threads_out
              => \A t \in Threads : Same(At(threads_out[t], c), At(threads_out'[t], c))
         /\ threads_in' = threads_in
              => \A t \in Threads : Same(At(threads_in[t], c), At(threads_in'[t], c))
  BY SameIfEqual

EachOneSpot == \A c \in Clients : OneSpot(c)

LEMMA NothingMoves ==
  ASSUME EachOneSpot,
         UNCHANGED <<asked, mongrel, storage_request, queued_requests, threads_out, threads_in,
                     storage_results, results, broker, replies, ignored, lost>>
  PROVE  EachOneSpot'
<1> SUFFICES ASSUME NEW c \in Clients PROVE OneSpot(c)'
  BY DEF EachOneSpot
<1>1. \A s \in Spots \ {} : Same(Slot(c, s), Slot(c, s)')
  BY SlotsOfUnchanged, RestIsSame
<1> QED
  BY <1>1, SpotStays DEF EachOneSpot

LEMMA ClientSendsSpot ==
  ASSUME HandlerTypeOK, EachOneSpot, NEW d \in Clients, ClientSends(d)
  PROVE  EachOneSpot'
<1> SUFFICES ASSUME NEW c \in Clients PROVE OneSpot(c)'
  BY DEF EachOneSpot
<1>1. PICK ask \in Asks[d] :
        /\ asked' = [asked EXCEPT ![d] = ask.cmd]
        /\ mongrel' = Append(mongrel, TileProtocol(d, ask.cmd, ask.tile, FALSE))
  BY DEF ClientSends
<1>2. ask.cmd \in Commands \cup {"unparsable", "bad"} /\ ask.tile \in Tiles
  <2>1. ask \in Ask
    BY HandlerAssumption
  <2> QED
    BY <2>1 DEF Ask
<1> DEFINE M == ForClient(Commands \cup {"unparsable", "bad"})
           m == TileProtocol(d, ask.cmd, ask.tile, FALSE)
<1>3. m \in M /\ m.id = d
  BY <1>2 DEF TileProtocol, ForClient
<1>4. mongrel \in Seq(M) /\ mongrel' = Append(mongrel, m)
  BY <1>1 DEF HandlerTypeOK
<1> HIDE DEF M, m
<1>5. /\ d # c => Same(At(mongrel, c), At(mongrel', c))
      /\ d = c => Enters(At(mongrel, c), At(mongrel', c))
  BY <1>3, <1>4, AppendAt
<1>6. UNCHANGED <<storage_request, queued_requests, threads_out, threads_in,
                  storage_results, results, broker, replies, ignored, lost>>
  BY DEF ClientSends, poolVars
<1>7. asked \in [Clients -> Commands \cup {"nothing", "unparsable", "bad"}]
  BY DEF HandlerTypeOK
<1>8. CASE d # c
  <2>1. \A s \in Spots \ {} : Same(Slot(c, s), Slot(c, s)')
    BY <1>5, <1>6, <1>8, SlotsOfUnchanged, RestIsSame
  <2>2. asked'[c] = asked[c]
    BY <1>1, <1>7, <1>8
  <2> QED
    BY <2>1, <2>2, SpotStays DEF EachOneSpot
<1>9. CASE d = c
  <2> DEFINE r == <<"mongrel", 0>>
  <2>1. \A s \in Spots \ {r} : Same(Slot(c, s), Slot(c, s)')
    BY <1>6, SlotsOfUnchanged, RestIsSame
  <2>2. Enters(Slot(c, r), Slot(c, r)') /\ r \in Spots
    BY <1>5, <1>9, SlotIs, SlotIsNext DEF Spots
  <2>3. asked'[c] # "nothing" /\ asked[c] = "nothing"
    BY <1>1, <1>2, <1>7, <1>9 DEF ClientSends, Commands
  <2> HIDE DEF r
  <2> QED
    BY <2>1, <2>2, <2>3, SpotTaken DEF EachOneSpot
<1> QED
  BY <1>8, <1>9

LEMMA RequestSpot ==
  ASSUME HandlerTypeOK, EachOneSpot, handle_request_from_mongrel
  PROVE  EachOneSpot'
<1> SUFFICES ASSUME NEW c \in Clients PROVE OneSpot(c)'
  BY DEF EachOneSpot
<1> DEFINE tile == Head(mongrel)
           M == ForClient(Commands \cup {"unparsable", "bad"})
           s == <<"mongrel", 0>>
<1>1. /\ mongrel # <<>> /\ mongrel' = Tail(mongrel) /\ tile.id \in Clients
      /\ mongrel \in Seq(M)
  BY RequestEffect DEF HandlerTypeOK
<1>2. UNCHANGED <<asked, broker, lost, results>>
  BY DEF handle_request_from_mongrel
<1>3. /\ tile.id # c => Same(At(mongrel, c), At(mongrel', c))
      /\ tile.id = c => Leaves(At(mongrel, c), At(mongrel', c))
  <2> HIDE DEF M
  <2> QED
    BY <1>1, TailAt
<1>4. tile.id = c => Leaves(Slot(c, s), Slot(c, s)')
  BY <1>3, SlotIs, SlotIsNext
<1>5. s \in Spots /\ <<"ignored", 0>> \in Spots /\ <<"replies", 0>> \in Spots
      /\ <<"storage_request", 0>> \in Spots
  BY DEF Spots
<1>6. CASE ignored' = ignored \cup {tile.id} /\ UNCHANGED <<poolVars, replies>>
  <2> DEFINE r == <<"ignored", 0>>
  <2>1. UNCHANGED <<storage_request, queued_requests, threads_out, threads_in,
                    storage_results, results, broker, replies, lost>>
    BY <1>2, <1>6 DEF poolVars
  <2>2. /\ tile.id # c => Same({c} \cap ignored, {c} \cap ignored')
        /\ tile.id = c => Enters({c} \cap ignored, {c} \cap ignored')
    BY <1>6, MemberAdded, SameIfEqual
  <2>3. CASE tile.id # c
    <3>1. \A u \in Spots \ {} : Same(Slot(c, u), Slot(c, u)')
      BY <1>3, <2>1, <2>2, <2>3, SlotsOfUnchanged, RestIsSame
    <3> QED
      BY <1>2, <3>1, SpotStays DEF EachOneSpot
  <2>4. CASE tile.id = c
    <3>1. \A u \in Spots \ {s, r} : Same(Slot(c, u), Slot(c, u)')
      BY <2>1, SlotsOfUnchanged, RestIsSame
    <3>2. Enters(Slot(c, r), Slot(c, r)') /\ s # r
      BY <2>2, <2>4, SlotIs, SlotIsNext
    <3> HIDE DEF s, r
    <3> QED
      BY <1>2, <1>4, <1>5, <2>4, <3>1, <3>2, SpotMoves DEF EachOneSpot, r
  <2> QED
    BY <2>3, <2>4
<1>7. CASE Reply(tile.id, 404) /\ UNCHANGED <<poolVars, ignored>>
  <2> DEFINE r == <<"replies", 0>>
  <2>1. UNCHANGED <<storage_request, queued_requests, threads_out, threads_in,
                    storage_results, results, broker, ignored, lost>>
    BY <1>2, <1>7 DEF poolVars
  <2>2. /\ tile.id # c => replies'[c] = replies[c]
        /\ tile.id = c => Enters(1 .. Len(replies[c]), 1 .. Len(replies'[c]))
    BY <1>1, <1>7, ReplySlot DEF Codes
  <2>3. CASE tile.id # c
    <3>1. \A u \in Spots \ {} : Same(Slot(c, u), Slot(c, u)')
      BY <1>3, <2>1, <2>2, <2>3, SlotsOfUnchanged, RestIsSame
    <3> QED
      BY <1>2, <3>1, SpotStays DEF EachOneSpot
  <2>4. CASE tile.id = c
    <3>1. \A u \in Spots \ {s, r} : Same(Slot(c, u), Slot(c, u)')
      BY <2>1, SlotsOfUnchanged, RestIsSame
    <3>2. Enters(Slot(c, r), Slot(c, r)') /\ s # r
      BY <2>2, <2>4, SlotIs, SlotIsNext
    <3> HIDE DEF s, r
    <3> QED
      BY <1>2, <1>4, <1>5, <2>4, <3>1, <3>2, SpotMoves DEF EachOneSpot, r
  <2> QED
    BY <2>3, <2>4
<1>8. CASE /\ tile \in ForClient(Commands)
           /\ storage_request' = Append(storage_request, tile)
           /\ UNCHANGED <<replies, ignored, instantiated, pool, storage_results,
                          queued_requests, cur_concurrency, next_thread, threads_out,
                          threads_in, stored>>
  <2> DEFINE r == <<"storage_request", 0>>
             S == ForClient(Commands)
  <2>1. UNCHANGED <<queued_requests, threads_out, threads_in, storage_results, results,
                    broker, replies, ignored, lost>>
    BY <1>2, <1>8
  <2>2. /\ tile.id # c => Same(At(storage_request, c), At(storage_request', c))
        /\ tile.id = c => Enters(At(storage_request, c), At(storage_request', c))
    <3>1. storage_request \in Seq(S) /\ tile \in S
      BY <1>8 DEF HandlerTypeOK
    <3> HIDE DEF S
    <3> QED
      BY <1>8, <3>1, AppendAt
  <2>3. CASE tile.id # c
    <3>1. \A u \in Spots \ {} : Same(Slot(c, u), Slot(c, u)')
      BY <1>3, <2>1, <2>2, <2>3, SlotsOfUnchanged, RestIsSame
    <3> QED
      BY <1>2, <3>1, SpotStays DEF EachOneSpot
  <2>4. CASE tile.id = c
    <3>1. \A u \in Spots \ {s, r} : Same(Slot(c, u), Slot(c, u)')
      BY <2>1, SlotsOfUnchanged, RestIsSame
    <3>2. Enters(Slot(c, r), Slot(c, r)') /\ s # r
      BY <2>2, <2>4, SlotIs, SlotIsNext
    <3> HIDE DEF s, r
    <3> QED
      BY <1>2, <1>4, <1>5, <2>4, <3>1, <3>2, SpotMoves DEF EachOneSpot, r
  <2> QED
    BY <2>3, <2>4
<1> QED
  BY <1>6, <1>7, <1>8, RequestEffect

LEMMA ResponseSpot ==
  ASSUME HandlerTypeOK, EachOneSpot, handle_response_from_storage
  PROVE  EachOneSpot'
<1> SUFFICES ASSUME NEW c \in Clients PROVE OneSpot(c)'
  BY DEF EachOneSpot
<1> DEFINE tile == Head(storage_results)
           R == ForClient(Found)
           s == <<"storage_results", 0>>
<1>1. /\ storage_results # <<>> /\ storage_results' = Tail(storage_results) /\ tile \in R
      /\ storage_results \in Seq(R)
  BY ResponseEffect DEF HandlerTypeOK
<1>2. UNCHANGED <<asked, mongrel, storage_request, queued_requests, threads_out, threads_in,
                  results, ignored, lost>>
  BY DEF handle_response_from_storage
<1>3. /\ tile.id # c => Same(At(storage_results, c), At(storage_results', c))
      /\ tile.id = c => Leaves(At(storage_results, c), At(storage_results', c))
  <2> HIDE DEF R
  <2> QED
    BY <1>1, TailAt
<1>4. tile.id = c => Leaves(Slot(c, s), Slot(c, s)')
  BY <1>3, SlotIs, SlotIsNext
<1>5. s \in Spots /\ <<"replies", 0>> \in Spots /\ <<"broker", 0>> \in Spots
  BY DEF Spots
<1>6. tile.id \in Clients
  BY <1>1 DEF ForClient
<1>7. CASE /\ \E code \in Codes : Reply(tile.id, code)
           /\ \/ broker' = broker
              \/ \E job \in BackgroundJob : broker' = broker \cup {job}
  <2> DEFINE r == <<"replies", 0>>
  <2>1. /\ tile.id # c => replies'[c] = replies[c]
        /\ tile.id = c => Enters(1 .. Len(replies[c]), 1 .. Len(replies'[c]))
    BY <1>6, <1>7, ReplySlot
  <2>2. Same(Jobs(broker, c), Jobs(broker', c))
    <3>1. CASE broker' = broker
      BY <3>1, SlotsOfUnchanged
    <3>2. ASSUME NEW job \in BackgroundJob, broker' = broker \cup {job}
          PROVE  Same(Jobs(broker, c), Jobs(broker', c))
      <4>1. job.id # c
        BY ClientIds DEF BackgroundJob
      <4> QED
        BY <3>2, <4>1, JobAdded
    <3> QED
      BY <1>7, <3>1, <3>2
  <2>3. CASE tile.id # c
    <3>1. \A u \in Spots \ {} : Same(Slot(c, u), Slot(c, u)')
      BY <1>2, <1>3, <2>1, <2>2, <2>3, SlotsOfUnchanged, RestIsSame
    <3> QED
      BY <1>2, <3>1, SpotStays DEF EachOneSpot
  <2>4. CASE tile.id = c
    <3>1. \A u \in Spots \ {s, r} : Same(Slot(c, u), Slot(c, u)')
      BY <1>2, <2>2, SlotsOfUnchanged, RestIsSame
    <3>2. Enters(Slot(c, r), Slot(c, r)') /\ s # r
      BY <2>1, <2>4, SlotIs, SlotIsNext
    <3> HIDE DEF s, r
    <3> QED
      BY <1>2, <1>4, <1>5, <2>4, <3>1, <3>2, SpotMoves DEF EachOneSpot, r
  <2> QED
    BY <2>3, <2>4
<1>8. ASSUME replies' = replies, NEW job, job.id = tile.id, broker' = broker \cup {job}
      PROVE  OneSpot(c)'
  <2> DEFINE r == <<"broker", 0>>
  <2>1. /\ tile.id # c => Same(Jobs(broker, c), Jobs(broker', c))
        /\ tile.id = c => Enters(Jobs(broker, c), Jobs(broker', c))
    BY <1>8, JobAdded
  <2>2. CASE tile.id # c
    <3>1. \A u \in Spots \ {} : Same(Slot(c, u), Slot(c, u)')
      BY <1>2, <1>3, <1>8, <2>1, <2>2, SlotsOfUnchanged, RestIsSame
    <3> QED
      BY <1>2, <3>1, SpotStays DEF EachOneSpot
  <2>3. CASE tile.id = c
    <3>1. \A u \in Spots \ {s, r} : Same(Slot(c, u), Slot(c, u)')
      BY <1>2, <1>8, SlotsOfUnchanged, RestIsSame
    <3>2. Enters(Slot(c, r), Slot(c, r)') /\ s # r
      BY <2>1, <2>3, SlotIs, SlotIsNext
    <3> HIDE DEF s, r
    <3> QED
      BY <1>2, <1>4, <1>5, <2>3, <3>1, <3>2, SpotMoves DEF EachOneSpot, r
  <2> QED
    BY <2>2, <2>3
<1> QED
  BY <1>7, <1>8, ResponseEffect

LEMMA ReplyWithTileSpot ==
  ASSUME HandlerTypeOK, EachOneSpot, reply_with_tile
  PROVE  EachOneSpot'
<1> SUFFICES ASSUME NEW c \in Clients PROVE OneSpot(c)'
  BY DEF EachOneSpot
<1> DEFINE tile == Head(results)
           B == ForClient({"cmdDone", "cmdNotDone"})
           s == <<"results", 0>>
           r == <<"replies", 0>>
<1>1. results # <<>> /\ results' = Tail(results) /\ tile.id \in Clients /\ results \in Seq(B)
  BY ReplyEffect DEF HandlerTypeOK
<1>2. UNCHANGED <<asked, mongrel, storage_request, queued_requests, threads_out, threads_in,
                  storage_results, broker, ignored, lost>>
  BY ReplyEffect DEF poolVars
<1>3. /\ tile.id # c => Same(At(results, c), At(results', c))
      /\ tile.id = c => Leaves(At(results, c), At(results', c))
  <2> HIDE DEF B
  <2> QED
    BY <1>1, TailAt
<1>4. /\ tile.id # c => replies'[c] = replies[c]
      /\ tile.id = c => Enters(1 .. Len(replies[c]), 1 .. Len(replies'[c]))
  BY <1>1, ReplyEffect, ReplySlot
<1>5. CASE tile.id # c
  <2>1. \A u \in Spots \ {} : Same(Slot(c, u), Slot(c, u)')
    BY <1>2, <1>3, <1>4, <1>5, SlotsOfUnchanged, RestIsSame
  <2> QED
    BY <1>2, <2>1, SpotStays DEF EachOneSpot
<1>6. CASE tile.id = c
  <2>1. \A u \in Spots \ {s, r} : Same(Slot(c, u), Slot(c, u)')
    BY <1>2, SlotsOfUnchanged, RestIsSame
  <2>2. Leaves(Slot(c, s), Slot(c, s)') /\ Enters(Slot(c, r), Slot(c, r)') /\ s # r
    BY <1>3, <1>4, <1>6, SlotIs, SlotIsNext
  <2>3. s \in Spots /\ r \in Spots
    BY DEF Spots
  <2> HIDE DEF s, r
  <2> QED
    BY <1>2, <2>1, <2>2, <2>3, SpotMoves DEF EachOneSpot
<1> QED
  BY <1>5, <1>6

LEMMA SettleSpot ==
  ASSUME HandlerTypeOK, EachOneSpot, NEW job \in broker, BrokerSettles(job)
  PROVE  EachOneSpot'
<1> SUFFICES ASSUME NEW c \in Clients PROVE OneSpot(c)'
  BY DEF EachOneSpot
<1> DEFINE B == ForClient({"cmdDone", "cmdNotDone"})
           s == <<"broker", 0>>
           r == <<"results", 0>>
<1>1. UNCHANGED <<asked, mongrel, storage_request, queued_requests, threads_out, threads_in,
                  storage_results, replies, ignored, lost>>
  BY SettleEffect
<1>2. /\ job.id # c => Same(Jobs(broker, c), Jobs(broker', c))
      /\ job.id = c => Leaves(Jobs(broker, c), Jobs(broker', c))
  BY SettleEffect, JobRemoved
<1>3. /\ job.id # c => Same(At(results, c), At(results', c))
      /\ job.id = c => Enters(At(results, c), At(results', c))
  <2>1. CASE job.id = NoClient /\ results' = results
    BY <2>1, ClientIds, SlotsOfUnchanged
  <2>2. ASSUME NEW m \in B, m.id = job.id, results' = Append(results, m)
        PROVE  /\ job.id # c => Same(At(results, c), At(results', c))
               /\ job.id = c => Enters(At(results, c), At(results', c))
    <3>1. results \in Seq(B)
      BY DEF HandlerTypeOK
    <3> HIDE DEF B
    <3> QED
      BY <2>2, <3>1, AppendAt
  <2> QED
    BY <2>1, <2>2, SettleEffect
<1>4. CASE job.id # c
  <2>1. \A u \in Spots \ {} : Same(Slot(c, u), Slot(c, u)')
    BY <1>1, <1>2, <1>3, <1>4, SlotsOfUnchanged, RestIsSame
  <2> QED
    BY <1>1, <2>1, SpotStays DEF EachOneSpot
<1>5. CASE job.id = c
  <2>1. \A u \in Spots \ {s, r} : Same(Slot(c, u), Slot(c, u)')
    BY <1>1, SlotsOfUnchanged, RestIsSame
  <2>2. Leaves(Slot(c, s), Slot(c, s)') /\ Enters(Slot(c, r), Slot(c, r)') /\ s # r
    BY <1>2, <1>3, <1>5, SlotIs, SlotIsNext
  <2>3. s \in Spots /\ r \in Spots
    BY DEF Spots
  <2> HIDE DEF s, r
  <2> QED
    BY <1>1, <2>1, <2>2, <2>3, SpotMoves DEF EachOneSpot
<1> QED
  BY <1>4, <1>5

LEMMA LoseSpot ==
  ASSUME HandlerTypeOK, EachOneSpot, NEW job \in broker, BrokerLoses(job)
  PROVE  EachOneSpot'
<1> SUFFICES ASSUME NEW c \in Clients PROVE OneSpot(c)'
  BY DEF EachOneSpot
<1> DEFINE s == <<"broker", 0>>
           r == <<"lost", 0>>
<1>1. UNCHANGED <<asked, mongrel, storage_request, queued_requests, threads_out, threads_in,
                  storage_results, replies, ignored, results>>
  BY LoseEffect DEF poolVars
<1>2. /\ job.id # c => Same(Jobs(broker, c), Jobs(broker', c))
      /\ job.id = c => Leaves(Jobs(broker, c), Jobs(broker', c))
  BY LoseEffect, JobRemoved
<1>3. /\ job.id # c => Same({c} \cap lost, {c} \cap lost')
      /\ job.id = c => Enters({c} \cap lost, {c} \cap lost')
  <2>1. CASE job.id = NoClient /\ lost' = lost
    BY <2>1, ClientIds, SlotsOfUnchanged
  <2>2. CASE lost' = lost \cup {job.id}
    BY <2>2, MemberAdded, SameIfEqual
  <2> QED
    BY <2>1, <2>2, LoseEffect
<1>4. CASE job.id # c
  <2>1. \A u \in Spots \ {} : Same(Slot(c, u), Slot(c, u)')
    BY <1>1, <1>2, <1>3, <1>4, SlotsOfUnchanged, RestIsSame
  <2> QED
    BY <1>1, <2>1, SpotStays DEF EachOneSpot
<1>5. CASE job.id = c
  <2>1. \A u \in Spots \ {s, r} : Same(Slot(c, u), Slot(c, u)')
    BY <1>1, SlotsOfUnchanged, RestIsSame
  <2>2. Leaves(Slot(c, s), Slot(c, s)') /\ Enters(Slot(c, r), Slot(c, r)') /\ s # r
    BY <1>2, <1>3, <1>5, SlotIs, SlotIsNext
  <2>3. s \in Spots /\ r \in Spots
    BY DEF Spots
  <2> HIDE DEF s, r
  <2> QED
    BY <1>1, <2>1, <2>2, <2>3, SpotMoves DEF EachOneSpot
<1> QED
  BY <1>4, <1>5

\* What a queue that is one of a family of queues, one per thread, holds.
LEMMA ThreadAppendAt ==
  ASSUME NEW S, NEW f \in [Threads -> Seq(S)], NEW n \in Threads, NEW m \in S,
         NEW f2, f2 = [f EXCEPT ![n] = Append(@, m)], NEW c
  PROVE  /\ \A t \in Threads \ {n} : Same(At(f[t], c), At(f2[t], c))
         /\ m.id # c => Same(At(f[n], c), At(f2[n], c))
         /\ m.id = c => Enters(At(f[n], c), At(f2[n], c))
<1>1. \A t \in Threads \ {n} : f2[t] = f[t]
  OBVIOUS
<1>2. f2[n] = Append(f[n], m) /\ f[n] \in Seq(S)
  OBVIOUS
<1>3. \A t \in Threads \ {n} : Same(At(f[t], c), At(f2[t], c))
  BY <1>1, SameIfEqual
<1>4. /\ m.id # c => Same(At(f[n], c), At(Append(f[n], m), c))
      /\ m.id = c => Enters(At(f[n], c), At(Append(f[n], m), c))
  BY <1>2, AppendAt
<1> QED
  BY <1>2, <1>3, <1>4

LEMMA ThreadTailAt ==
  ASSUME NEW S, NEW f \in [Threads -> Seq(S)], NEW n \in Threads, f[n] # <<>>,
         NEW f2, f2 = [f EXCEPT ![n] = Tail(@)], NEW c
  PROVE  /\ \A t \in Threads \ {n} : Same(At(f[t], c), At(f2[t], c))
         /\ Head(f[n]).id # c => Same(At(f[n], c), At(f2[n], c))
         /\ Head(f[n]).id = c => Leaves(At(f[n], c), At(f2[n], c))
<1>1. \A t \in Threads \ {n} : f2[t] = f[t]
  OBVIOUS
<1>2. f2[n] = Tail(f[n]) /\ f[n] \in Seq(S)
  OBVIOUS
<1>3. \A t \in Threads \ {n} : Same(At(f[t], c), At(f2[t], c))
  BY <1>1, SameIfEqual
<1>4. /\ Head(f[n]).id # c => Same(At(f[n], c), At(Tail(f[n]), c))
      /\ Head(f[n]).id = c => Leaves(At(f[n], c), At(Tail(f[n]), c))
  BY <1>2, TailAt
<1> QED
  BY <1>2, <1>3, <1>4

LEMMA PoolRequestSpot ==
  ASSUME HandlerTypeOK, EachOneSpot, PoolRequest, UNCHANGED handlerVars
  PROVE  EachOneSpot'
<1> SUFFICES ASSUME NEW c \in Clients PROVE OneSpot(c)'
  BY DEF EachOneSpot
<1> DEFINE m == Head(storage_request)
           S == ForClient(Commands)
           s == <<"storage_request", 0>>
<1>1. /\ storage_request # <<>> /\ storage_request \in Seq(S)
      /\ storage_request' = Tail(storage_request)
      /\ StartOrQueue(m)
      /\ threads_out \in [Threads -> Seq(S)] /\ queued_requests \in Seq(S)
  BY DEF PoolRequest, HandlerTypeOK
<1>2. UNCHANGED <<asked, mongrel, threads_in, storage_results, results, broker, replies,
                  ignored, lost>>
  BY DEF PoolRequest, handlerVars
<1>3. PICK n \in Threads : n = next_thread
  BY DEF HandlerTypeOK
<1> HIDE DEF S
<1>4. /\ m.id # c => Same(At(storage_request, c), At(storage_request', c))
      /\ m.id = c => Leaves(At(storage_request, c), At(storage_request', c))
  BY <1>1, TailAt
<1>5. m \in S
  BY <1>1, HeadTail
<1> HIDE DEF m
<1>6. m.id = c => Leaves(Slot(c, s), Slot(c, s)')
  BY <1>4, SlotIs, SlotIsNext
<1>7. s \in Spots /\ <<"queued_requests", 0>> \in Spots /\ <<"threads_out", n>> \in Spots
  BY DEF Spots
<1>8. CASE cur_concurrency < max_io_threads
  <2> DEFINE r == <<"threads_out", n>>
  <2>1. /\ threads_out' = [threads_out EXCEPT ![n] = Append(@, m)]
        /\ queued_requests' = queued_requests
    BY <1>1, <1>3, <1>8 DEF StartOrQueue, ToNextThread
  <2>2. /\ \A t \in Threads \ {n} : Same(At(threads_out[t], c), At(threads_out'[t], c))
        /\ m.id # c => Same(At(threads_out[n], c), At(threads_out'[n], c))
        /\ m.id = c => Enters(At(threads_out[n], c), At(threads_out'[n], c))
    BY <1>1, <1>5, <2>1, ThreadAppendAt
  <2>3. CASE m.id # c
    <3>1. \A t \in Threads : Same(At(threads_out[t], c), At(threads_out'[t], c))
      BY <2>2, <2>3
    <3>2. \A u \in Spots \ {} : Same(Slot(c, u), Slot(c, u)')
      BY <1>2, <1>4, <2>1, <2>3, <3>1, SlotsOfUnchanged, RestIsSame
    <3> QED
      BY <1>2, <3>2, SpotStays DEF EachOneSpot
  <2>4. CASE m.id = c
    <3>1. \A t \in Threads : \/ <<"threads_out", t>> \in {s, r}
                             \/ Same(At(threads_out[t], c), At(threads_out'[t], c))
      BY <2>2
    <3>2. \A u \in Spots \ {s, r} : Same(Slot(c, u), Slot(c, u)')
      BY <1>2, <2>1, <3>1, SlotsOfUnchanged, RestIsSame
    <3>3. Enters(Slot(c, r), Slot(c, r)') /\ s # r
      BY <2>2, <2>4, SlotIs, SlotIsNext
    <3>4. r \in Spots
      BY <1>7
    <3> HIDE DEF s, r
    <3> QED
      BY <1>2, <1>6, <1>7, <2>4, <3>2, <3>3, <3>4, SpotMoves DEF EachOneSpot
  <2> QED
    BY <2>3, <2>4
<1>9. CASE ~(cur_concurrency < max_io_threads)
  <2> DEFINE r == <<"queued_requests", 0>>
  <2>1. /\ queued_requests' = Append(queued_requests, m)
        /\ threads_out' = threads_out
    BY <1>1, <1>9 DEF StartOrQueue
  <2>2. /\ m.id # c => Same(At(queued_requests, c), At(queued_requests', c))
        /\ m.id = c => Enters(At(queued_requests, c), At(queued_requests', c))
    BY <1>1, <1>5, <2>1, AppendAt
  <2>3. CASE m.id # c
    <3>1. \A u \in Spots \ {} : Same(Slot(c, u), Slot(c, u)')
      BY <1>2, <1>4, <2>1, <2>2, <2>3, SlotsOfUnchanged, RestIsSame
    <3> QED
      BY <1>2, <3>1, SpotStays DEF EachOneSpot
  <2>4. CASE m.id = c
    <3>1. \A u \in Spots \ {s, r} : Same(Slot(c, u), Slot(c, u)')
      BY <1>2, <2>1, SlotsOfUnchanged, RestIsSame
    <3>2. Enters(Slot(c, r), Slot(c, r)') /\ s # r
      BY <2>2, <2>4, SlotIs, SlotIsNext
    <3>3. r \in Spots
      BY <1>7
    <3> HIDE DEF s, r
    <3> QED
      BY <1>2, <1>6, <1>7, <2>4, <3>1, <3>2, <3>3, SpotMoves DEF EachOneSpot
  <2> QED
    BY <2>3, <2>4
<1> QED
  BY <1>8, <1>9

LEMMA RespondSpot ==
  ASSUME HandlerTypeOK, EachOneSpot, NEW n \in Threads, threads_out[n] # <<>>,
         NEW tile \in ForClient(Found), tile.id = Head(threads_out[n]).id, Respond(n, tile),
         UNCHANGED handlerVars
  PROVE  EachOneSpot'
<1> SUFFICES ASSUME NEW c \in Clients PROVE OneSpot(c)'
  BY DEF EachOneSpot
<1> DEFINE S == ForClient(Commands)
           R == ForClient(Found)
           s == <<"threads_out", n>>
           r == <<"threads_in", n>>
<1>1. threads_in \in [Threads -> Seq(R)] /\ threads_out \in [Threads -> Seq(S)] /\ tile \in R
  BY DEF HandlerTypeOK
<1>2. /\ threads_out' = [threads_out EXCEPT ![n] = Tail(@)]
      /\ threads_in' = [threads_in EXCEPT ![n] = Append(@, tile)]
      /\ UNCHANGED <<asked, mongrel, storage_request, queued_requests, storage_results, results,
                     broker, replies, ignored, lost>>
  BY DEF Respond, handlerVars
<1> HIDE DEF R, S
<1>3. /\ \A t \in Threads \ {n} : Same(At(threads_out[t], c), At(threads_out'[t], c))
      /\ tile.id # c => Same(At(threads_out[n], c), At(threads_out'[n], c))
      /\ tile.id = c => Leaves(At(threads_out[n], c), At(threads_out'[n], c))
  BY <1>1, <1>2, ThreadTailAt
<1>4. /\ \A t \in Threads \ {n} : Same(At(threads_in[t], c), At(threads_in'[t], c))
      /\ tile.id # c => Same(At(threads_in[n], c), At(threads_in'[n], c))
      /\ tile.id = c => Enters(At(threads_in[n], c), At(threads_in'[n], c))
  BY <1>1, <1>2, ThreadAppendAt
<1>5. CASE tile.id # c
  <2>1. /\ \A t \in Threads : Same(At(threads_out[t], c), At(threads_out'[t], c))
        /\ \A t \in Threads : Same(At(threads_in[t], c), At(threads_in'[t], c))
    BY <1>3, <1>4, <1>5
  <2>2. \A u \in Spots \ {} : Same(Slot(c, u), Slot(c, u)')
    BY <1>2, <2>1, SlotsOfUnchanged, RestIsSame
  <2> QED
    BY <1>2, <2>2, SpotStays DEF EachOneSpot
<1>6. CASE tile.id = c
  <2>1. /\ \A t \in Threads : \/ <<"threads_out", t>> \in {s, r}
                              \/ Same(At(threads_out[t], c), At(threads_out'[t], c))
        /\ \A t \in Threads : \/ <<"threads_in", t>> \in {s, r}
                              \/ Same(At(threads_in[t], c), At(threads_in'[t], c))
    BY <1>3, <1>4
  <2>2. \A u \in Spots \ {s, r} : Same(Slot(c, u), Slot(c, u)')
    BY <1>2, <2>1, SlotsOfUnchanged, RestIsSame
  <2>3. Leaves(Slot(c, s), Slot(c, s)') /\ Enters(Slot(c, r), Slot(c, r)') /\ s # r
    BY <1>3, <1>4, <1>6, SlotIs, SlotIsNext
  <2>4. s \in Spots /\ r \in Spots
    BY DEF Spots
  <2> HIDE DEF s, r
  <2> QED
    BY <1>2, <2>2, <2>3, <2>4, SpotMoves DEF EachOneSpot
<1> QED
  BY <1>5, <1>6

LEMMA PoolResultSpot ==
  ASSUME HandlerTypeOK, EachOneSpot, NEW n \in Threads, PoolResult(n), UNCHANGED handlerVars
  PROVE  EachOneSpot'
<1> SUFFICES ASSUME NEW c \in Clients PROVE OneSpot(c)'
  BY DEF EachOneSpot
<1> DEFINE S == ForClient(Commands)
           R == ForClient(Found)
           m == Head(threads_in[n])
           s == <<"threads_in", n>>
           r == <<"storage_results", 0>>
<1>1. /\ threads_in[n] # <<>> /\ threads_in \in [Threads -> Seq(R)]
      /\ threads_out \in [Threads -> Seq(S)]
      /\ queued_requests \in Seq(S) /\ storage_results \in Seq(R)
  BY DEF PoolResult, HandlerTypeOK
<1>2. /\ threads_in' = [threads_in EXCEPT ![n] = Tail(@)]
      /\ storage_results' = Append(storage_results, m)
      /\ NextOrIdle
      /\ UNCHANGED <<asked, mongrel, storage_request, results, broker, replies, ignored, lost>>
  BY DEF PoolResult, handlerVars
<1>3. PICK k \in Threads : k = next_thread
  BY DEF HandlerTypeOK
<1> HIDE DEF R, S
<1>4. m \in R
  BY <1>1, HeadTail
<1>5. /\ \A t \in Threads \ {n} : Same(At(threads_in[t], c), At(threads_in'[t], c))
      /\ m.id # c => Same(At(threads_in[n], c), At(threads_in'[n], c))
      /\ m.id = c => Leaves(At(threads_in[n], c), At(threads_in'[n], c))
  BY <1>1, <1>2, ThreadTailAt
<1> HIDE DEF m
<1>6. /\ m.id # c => Same(At(storage_results, c), At(storage_results', c))
      /\ m.id = c => Enters(At(storage_results, c), At(storage_results', c))
  BY <1>1, <1>2, <1>4, AppendAt
<1>7. /\ m.id = c => Leaves(Slot(c, s), Slot(c, s)')
      /\ m.id = c => Enters(Slot(c, r), Slot(c, r)')
      /\ s # r
  BY <1>5, <1>6, SlotIs, SlotIsNext
<1>8. s \in Spots /\ r \in Spots /\ <<"queued_requests", 0>> \in Spots
      /\ <<"threads_out", k>> \in Spots
  BY DEF Spots
<1>9. m.id # c => \A t \in Threads : Same(At(threads_in[t], c), At(threads_in'[t], c))
  BY <1>5
\* If the answer that is read is the client's, no queued lookup is.
<1>10. ASSUME m.id = c,
              Same(At(queued_requests, c), At(queued_requests', c)),
              \A t \in Threads : Same(At(threads_out[t], c), At(threads_out'[t], c))
       PROVE  OneSpot(c)'
  <2>1. \A t \in Threads : \/ <<"threads_in", t>> \in {s, r}
                           \/ Same(At(threads_in[t], c), At(threads_in'[t], c))
    BY <1>5
  <2>2. \A u \in Spots \ {s, r} : Same(Slot(c, u), Slot(c, u)')
    BY <1>2, <1>10, <2>1, SlotsOfUnchanged, RestIsSame
  <2> HIDE DEF s, r
  <2> QED
    BY <1>2, <1>7, <1>8, <1>10, <2>2, SpotMoves DEF EachOneSpot
<1>11. CASE queued_requests = <<>>
  <2>1. queued_requests' = queued_requests /\ threads_out' = threads_out
    BY <1>2, <1>11 DEF NextOrIdle
  <2>2. CASE m.id # c
    <3>1. \A u \in Spots \ {} : Same(Slot(c, u), Slot(c, u)')
      BY <1>2, <1>6, <1>9, <2>1, <2>2, SlotsOfUnchanged, RestIsSame
    <3> QED
      BY <1>2, <3>1, SpotStays DEF EachOneSpot
  <2>3. CASE m.id = c
    BY <1>10, <2>1, <2>3, SlotsOfUnchanged
  <2> QED
    BY <2>2, <2>3
<1>12. CASE queued_requests # <<>>
  <2> DEFINE m2 == Head(queued_requests)
             s2 == <<"queued_requests", 0>>
             r2 == <<"threads_out", k>>
  <2>1. /\ threads_out' = [threads_out EXCEPT ![k] = Append(@, m2)]
        /\ queued_requests' = Tail(queued_requests)
    BY <1>2, <1>3, <1>12 DEF NextOrIdle, ToNextThread
  <2>2. m2 \in S
    BY <1>1, <1>12, HeadTail
  <2>3. /\ m2.id # c => Same(At(queued_requests, c), At(queued_requests', c))
        /\ m2.id = c => Leaves(At(queued_requests, c), At(queued_requests', c))
    BY <1>1, <1>12, <2>1, TailAt
  <2> HIDE DEF m2
  <2>4. /\ \A t \in Threads \ {k} : Same(At(threads_out[t], c), At(threads_out'[t], c))
        /\ m2.id # c => Same(At(threads_out[k], c), At(threads_out'[k], c))
        /\ m2.id = c => Enters(At(threads_out[k], c), At(threads_out'[k], c))
    BY <1>1, <2>1, <2>2, ThreadAppendAt
  <2>5. m2.id # c => \A t \in Threads : Same(At(threads_out[t], c), At(threads_out'[t], c))
    BY <2>4
  <2>6. CASE m.id # c /\ m2.id # c
    <3>1. \A u \in Spots \ {} : Same(Slot(c, u), Slot(c, u)')
      BY <1>2, <1>6, <1>9, <2>3, <2>5, <2>6, SlotsOfUnchanged, RestIsSame
    <3> QED
      BY <1>2, <3>1, SpotStays DEF EachOneSpot
  <2>7. CASE m.id = c /\ m2.id # c
    BY <1>10, <2>3, <2>5, <2>7
  <2>8. ~(m.id = c /\ m2.id = c)
    <3>1. m.id = c => Slot(c, s) # {}
      BY <1>7 DEF Leaves
    <3>2. m2.id = c => Slot(c, s2) # {}
      BY <2>3, SlotIs DEF Leaves
    <3>3. s # s2
      OBVIOUS
    <3> HIDE DEF s, s2
    <3>4. ~(Slot(c, s) # {} /\ Slot(c, s2) # {})
      BY <1>8, <3>3 DEF EachOneSpot, OneSpot, s2
    <3> QED
      BY <3>1, <3>2, <3>4
  <2>9. CASE m.id # c /\ m2.id = c
    <3>1. \A t \in Threads : \/ <<"threads_out", t>> \in {s2, r2}
                             \/ Same(At(threads_out[t], c), At(threads_out'[t], c))
      BY <2>4
    <3>2. \A u \in Spots \ {s2, r2} : Same(Slot(c, u), Slot(c, u)')
      BY <1>2, <1>6, <1>9, <2>9, <3>1, SlotsOfUnchanged, RestIsSame
    <3>3. /\ Leaves(Slot(c, s2), Slot(c, s2)') /\ Enters(Slot(c, r2), Slot(c, r2)')
          /\ s2 # r2
      BY <2>3, <2>4, <2>9, SlotIs, SlotIsNext
    <3>4. s2 \in Spots /\ r2 \in Spots
      BY <1>8
    <3> HIDE DEF s2, r2
    <3> QED
      BY <1>2, <3>2, <3>3, <3>4, SpotMoves DEF EachOneSpot
  <2> QED
    BY <2>6, <2>7, <2>8, <2>9
<1> QED
  BY <1>11, <1>12

LEMMA EachOneSpotInit == HandlerInit => EachOneSpot
<1> SUFFICES ASSUME HandlerInit, NEW c \in Clients PROVE OneSpot(c)
  BY DEF EachOneSpot
<1>1. At(<<>>, c) = {} /\ Jobs({}, c) = {} /\ 1 .. Len(<<>>) = {}
  BY DEF At, Jobs
<1>2. asked[c] = "nothing"
  BY DEF HandlerInit
<1>3. /\ replies[c] = <<>> /\ broker = {} /\ ignored = {} /\ lost = {}
      /\ mongrel = <<>> /\ results = <<>> /\ storage_request = <<>>
      /\ queued_requests = <<>> /\ storage_results = <<>>
      /\ \A t \in Threads : threads_out[t] = <<>> /\ threads_in[t] = <<>>
  BY DEF HandlerInit, PoolInit
<1>4. ASSUME NEW s \in Spots PROVE Slot(c, s) = {}
  <2>1. ASSUME NEW t \in Threads, s = <<"threads_out", t>> \/ s = <<"threads_in", t>>
        PROVE  Slot(c, s) = {}
    BY <1>1, <1>3, <2>1, SlotIs
  <2>2. CASE s \in {<<"mongrel", 0>>, <<"storage_request", 0>>, <<"queued_requests", 0>>,
                    <<"storage_results", 0>>, <<"results", 0>>}
    BY <1>1, <1>3, <2>2, SlotIs
  <2>3. CASE s \in {<<"broker", 0>>, <<"replies", 0>>, <<"ignored", 0>>, <<"lost", 0>>}
    BY <1>1, <1>3, <2>3, SlotIs
  <2> QED
    BY <2>1, <2>2, <2>3 DEF Spots
<1> QED
  BY <1>2, <1>4 DEF OneSpot

LEMMA EachOneSpotNext ==
  HandlerTypeOK /\ EachOneSpot /\ [HandlerNext]_vars => EachOneSpot'
<1> SUFFICES ASSUME HandlerTypeOK, EachOneSpot, [HandlerNext]_vars
             PROVE  EachOneSpot'
  OBVIOUS
<1>1. CASE PoolNext /\ UNCHANGED handlerVars
  <2>1. CASE PoolBlocks \/ CheckThreadDeath
    BY <1>1, <2>1, NothingMoves DEF PoolBlocks, CheckThreadDeath, handlerVars
  <2>2. ASSUME NEW t \in Threads, ThreadLookup(t) \/ ThreadDirty(t) \/ ThreadException(t)
        PROVE  EachOneSpot'
    BY <1>1, <2>2, ThreadAnswers, RespondSpot
  <2> QED
    BY <1>1, <2>1, <2>2, PoolRequestSpot, PoolResultSpot DEF PoolNext
<1>2. CASE UNCHANGED vars
  BY <1>2, NothingMoves DEF vars, poolVars, handlerVars
<1> QED
  BY <1>1, <1>2, ClientSendsSpot, RequestSpot, ResponseSpot, ReplyWithTileSpot, SettleSpot,
     LoseSpot DEF HandlerNext, HandlerStep

\* The places of OnePlacePerRequest are those that the spots hold.
LEMMA PlacesAreSlots ==
  ASSUME NEW c, NEW p
  PROVE  p \in Places(c) <=>
           \E s \in Spots : \E x \in Slot(c, s) : p = <<s[1], s[2], x>>
<1> DEFINE Q == LineNames \X ({0} \cup Threads)
           L == UNION {{<<s[1], s[2], i>> : i \in At(Line(s[1], s[2]), c)} : s \in Q}
<1>1. p \in L <=> \E s \in Q : \E x \in At(Line(s[1], s[2]), c) : p = <<s[1], s[2], x>>
  <2> HIDE DEF Q
  <2> QED
    OBVIOUS
<1>2. ASSUME NEW name \in LineNames, NEW t \in {0} \cup Threads
      PROVE  \/ <<name, t>> \in Spots /\ At(Line(name, t), c) = Slot(c, <<name, t>>)
             \/ <<name, t>> \notin Spots /\ At(Line(name, t), c) = {}
  <2>1. At(<<>>, c) = {}
    BY DEF At
  <2>2. t = 0 \/ (t > 0 /\ t # 0 /\ t \in Threads)
    BY PoolAssumption DEF Threads
  <2>3. ~(0 > 0) /\ 0 \notin Threads
    BY PoolAssumption DEF Threads
  <2>4. CASE name \in {"mongrel", "storage_request", "queued_requests", "storage_results",
                       "results"}
    <3>1. CASE t = 0
      BY <2>4, <3>1, SlotIs DEF Line, Spots
    <3>2. CASE t # 0
      <4>1. Line(name, t) = <<>>
        BY <2>4, <3>2 DEF Line
      <4>2. <<name, t>> \notin Spots
        BY <2>4, <3>2 DEF Spots
      <4> QED
        BY <2>1, <4>1, <4>2
    <3> QED
      BY <3>1, <3>2
  <2>5. CASE name \in {"threads_out", "threads_in"}
    <3>1. CASE t = 0
      <4>1. Line(name, t) = <<>>
        BY <2>3, <2>5, <3>1 DEF Line
      <4>2. <<name, t>> \notin Spots
        BY <2>3, <2>5, <3>1 DEF Spots
      <4> QED
        BY <2>1, <4>1, <4>2
    <3>2. CASE t > 0 /\ t # 0 /\ t \in Threads
      BY <2>5, <3>2, SlotIs DEF Line, Spots
    <3> QED
      BY <2>2, <3>1, <3>2
  <2> QED
    BY <2>4, <2>5 DEF LineNames
<1> DEFINE D == {<<"broker", 0>>, <<"replies", 0>>, <<"ignored", 0>>, <<"lost", 0>>}
<1>3. p \in L <=> \E s \in Spots \cap Q : \E x \in Slot(c, s) : p = <<s[1], s[2], x>>
  <2>1. ASSUME NEW s \in Q
        PROVE  \/ s \in Spots /\ At(Line(s[1], s[2]), c) = Slot(c, s)
               \/ s \notin Spots /\ At(Line(s[1], s[2]), c) = {}
    <3>1. s = <<s[1], s[2]>> /\ s[1] \in LineNames /\ s[2] \in {0} \cup Threads
      OBVIOUS
    <3> QED
      BY <1>2, <3>1
  <2> HIDE DEF Q, L
  <2> QED
    BY <1>1, <2>1
<1>4. Spots = (Spots \cap Q) \cup D
  <2>1. D \subseteq Spots
    BY DEF Spots
  <2>2. ASSUME NEW s \in Spots PROVE s \in Q \/ s \in D
    BY DEF Spots, LineNames
  <2> QED
    BY <2>1, <2>2
<1>5. p \in Places(c) <=>
        \/ p \in L
        \/ \E x \in Jobs(broker, c) : p = <<"broker", 0, x>>
        \/ \E x \in 1 .. Len(replies[c]) : p = <<"replies", 0, x>>
        \/ \E x \in {c} \cap ignored : p = <<"ignored", 0, x>>
        \/ \E x \in {c} \cap lost : p = <<"lost", 0, x>>
  <2> HIDE DEF L
  <2>1. Places(c) = L \cup {<<"broker", 0, job>> : job \in Jobs(broker, c)}
                      \cup {<<"replies", 0, i>> : i \in 1 .. Len(replies[c])}
                      \cup {<<"ignored", 0, d>> : d \in {c} \cap ignored}
                      \cup {<<"lost", 0, d>> : d \in {c} \cap lost}
    BY DEF Places, L
  <2> QED
    BY <2>1
<1>6. (\E s \in D : \E x \in Slot(c, s) : p = <<s[1], s[2], x>>) <=>
        \/ \E x \in Jobs(broker, c) : p = <<"broker", 0, x>>
        \/ \E x \in 1 .. Len(replies[c]) : p = <<"replies", 0, x>>
        \/ \E x \in {c} \cap ignored : p = <<"ignored", 0, x>>
        \/ \E x \in {c} \cap lost : p = <<"lost", 0, x>>
  BY SlotIs
<1> HIDE DEF L, D, Q
<1> QED
  BY <1>3, <1>4, <1>5, <1>6

LEMMA OneSpotIsOnePlace ==
  ASSUME NEW c, OneSpot(c)
  PROVE  Cardinality(Places(c)) = IF asked[c] = "nothing" THEN 0 ELSE 1
<1>1. CASE asked[c] = "nothing" /\ \A s \in Spots : Slot(c, s) = {}
  <2>1. Places(c) = {}
    BY <1>1, PlacesAreSlots
  <2> QED
    BY <1>1, <2>1, FS_EmptySet
<1>2. ASSUME asked[c] # "nothing", NEW s \in Spots, One(Slot(c, s)),
             \A r \in Spots \ {s} : Slot(c, r) = {}
      PROVE  Cardinality(Places(c)) = 1
  <2>1. PICK x : Slot(c, s) = {x}
    BY <1>2 DEF One
  <2> DEFINE p == <<s[1], s[2], x>>
  <2>2. \A q : q \in Places(c) <=> q = p
    BY <1>2, <2>1, PlacesAreSlots
  <2>3. Places(c) = {p}
    BY <2>2
  <2> QED
    BY <2>3, FS_Singleton
<1> QED
  BY <1>1, <1>2 DEF OneSpot

(* No request is lost and none is answered twice, for any number of clients *)
(* and threads: each client's request is in exactly one place, from the    *)
(* moment mongrel2 passes it on until it is answered, dropped as           *)
(* unparsable, or lost by a broker (tile_handler::operator(),              *)
(* storage_worker::operator()).                                            *)
THEOREM RequestsAreNeverDoubled == HandlerSpec => []OnePlacePerRequest
<1>1. HandlerIInv => HandlerTypeOK
  BY DEF HandlerIInv
<1>2. EachOneSpot => OnePlacePerRequest
  BY OneSpotIsOnePlace DEF EachOneSpot, OnePlacePerRequest
<1> QED
  BY <1>1, <1>2, HandlerSpecIInv, EachOneSpotInit, EachOneSpotNext, PTL DEF HandlerSpec
=============================================================================

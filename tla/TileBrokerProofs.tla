--------------------------- MODULE TileBrokerProofs ---------------------------
(***************************************************************************)
(* Proofs about TileBroker, for any number of brokers, workers, requests   *)
(* and formats.  The inductive invariant BrokerInv is the conjunction of   *)
(* the type invariant, the agreement of the queue's indexes, the merging   *)
(* of requests into tasks and AnsweredAtMostOnce; each needs the others:   *)
(* an answer goes to the requests that a task sums up, and a task can be   *)
(* found and erased because the indexes agree.  The queue's operations are *)
(* shown to preserve their share of it (QueueInv) first, then every action *)
(* of the broker, then every action is matched with RenderService's.       *)
(***************************************************************************)
EXTENDS TileBroker, LeastElement, FiniteSetTheorems, TLAPS

\* A sequence index that holds S once each and gets a new element still does.
LEMMA AppendPermutation ==
  ASSUME NEW S, NEW T, NEW s \in Seq(T), NEW m \in T, IsPermutation(s, S), m \notin S
  PROVE  IsPermutation(Append(s, m), S \cup {m}) /\ Append(s, m) \in Seq(T)
BY DEF IsPermutation

\* Position finds every element that an index holds.
LEMMA PositionFound ==
  ASSUME NEW S, NEW T, NEW s \in Seq(T), NEW m \in S, IsPermutation(s, S)
  PROVE  /\ Position(s, m) \in 1 .. Len(s)
         /\ s[Position(s, m)] = m
BY DEF IsPermutation, Position

\* Erasing an element from an index leaves the others in it, once each.
LEMMA WithoutPermutation ==
  ASSUME NEW S, NEW T, NEW s \in Seq(T), NEW m \in S, IsPermutation(s, S)
  PROVE  IsPermutation(Without(s, m), S \ {m}) /\ Without(s, m) \in Seq(T)
<1> DEFINE p == Position(s, m)
           u == Without(s, m)
<1>1. p \in 1 .. Len(s) /\ s[p] = m
  BY PositionFound
<1>2. Len(s) - 1 \in Nat
  BY <1>1
<1>3. u \in Seq(T) /\ Len(u) = Len(s) - 1
  BY <1>1, <1>2 DEF Without
<1>4. \A i \in 1 .. Len(u) : u[i] = IF i < p THEN s[i] ELSE s[i + 1]
  BY <1>3 DEF Without
<1> HIDE DEF p, u
<1>5. \A i, j \in 1 .. Len(u) : u[i] = u[j] => i = j
  BY <1>1, <1>3, <1>4 DEF IsPermutation
<1>6. ASSUME NEW k \in S \ {m} PROVE \E i \in 1 .. Len(u) : u[i] = k
  <2>1. PICK j \in 1 .. Len(s) : s[j] = k
    BY DEF IsPermutation
  <2>2. CASE j < p
    BY <1>1, <1>3, <1>4, <2>1, <2>2
  <2>3. CASE j > p
    <3>1. j - 1 \in 1 .. Len(u) /\ ~(j - 1 < p) /\ (j - 1) + 1 = j
      BY <1>1, <1>3, <2>3
    <3> QED BY <1>4, <2>1, <3>1
  <2> QED BY <1>1, <1>6, <2>1, <2>2, <2>3
<1>7. \A i \in 1 .. Len(u) : u[i] \in S \ {m}
  BY <1>1, <1>3, <1>4 DEF IsPermutation
<1> QED
  BY <1>3, <1>5, <1>6, <1>7 DEF IsPermutation, u
-----------------------------------------------------------------------------
QueueInv(q) == QueueType(q) /\ QueueIndexes(q) /\ QueueSums(q)

\* The queue of a fresh or cleared broker satisfies the queue's invariant.
LEMMA EmptyQueueInv == QueueInv(EmptyQueue) /\ Subscribed(EmptyQueue) = {}
BY DEF QueueInv, QueueType, QueueIndexes, QueueSums, IsPermutation, EmptyQueue, Subscribed

\* What the assumption on the requests says of one request.
LEMMA RequestTypes ==
  ASSUME NEW r \in Requests
  PROVE  /\ MetaOf(r.x) \in Metatiles
         /\ r.x \in Nat
         /\ r.format \in SUBSET Formats
         /\ PriorityOf(r) \in {0, 50, 100, 150}
BY RequestsAssumption DEF Metatiles, PriorityOf

\* Moving an element to the back of an index keeps its contents.
LEMMA ToBackPermutation ==
  ASSUME NEW S, NEW T, NEW s \in Seq(T), NEW m \in S, IsPermutation(s, S), S \subseteq T
  PROVE  IsPermutation(ToBack(s, m), S) /\ ToBack(s, m) \in Seq(T)
<1>1. IsPermutation(Without(s, m), S \ {m}) /\ Without(s, m) \in Seq(T)
  BY WithoutPermutation
<1>2. IsPermutation(Append(Without(s, m), m), (S \ {m}) \cup {m})
      /\ Append(Without(s, m), m) \in Seq(T)
  BY <1>1, AppendPermutation
<1>3. (S \ {m}) \cup {m} = S
  OBVIOUS
<1> QED BY <1>2, <1>3 DEF ToBack

\* The task that push creates is a task.
LEMMA NewTaskType ==
  ASSUME NEW r \in Requests, NEW p \in Nat
  PROVE  NewTask(r, p) \in Task
<1>1. r.format \in SUBSET Formats
  BY RequestTypes
<1>2. 0 \in 0 .. ZombieTime
  BY ZombieTimeAssumption
<1> QED BY <1>1, <1>2 DEF NewTask, Task, RequestCmd

\* add_subscriber keeps a task a task.
LEMMA AddSubscriberType ==
  ASSUME NEW t \in Task, NEW r \in Requests, NEW p \in Nat
  PROVE  AddSubscriber(t, r, p) \in Task
<1>1. r.format \in SUBSET Formats
  BY RequestTypes
<1>2. AddSubscriber(t, r, p) =
        [t EXCEPT !.priority = IF p > t.priority THEN p ELSE t.priority,
                  !.subscribers = t.subscribers \cup {r},
                  !.format = t.format \cup r.format]
  BY DEF AddSubscriber
<1>3. /\ (IF p > t.priority THEN p ELSE t.priority) \in Nat
      /\ t.subscribers \cup {r} \in SUBSET Requests
      /\ t.format \cup r.format \in SUBSET Formats
  BY <1>1 DEF Task
<1> QED BY <1>2, <1>3 DEF Task

\* push, merging or not, preserves the queue's invariant.
LEMMA PushInv ==
  ASSUME NEW q, QueueInv(q), NEW r \in Requests
  PROVE  QueueInv(push(q, r, PriorityOf(r)))
<1> DEFINE p == PriorityOf(r)
           m == MetaOf(r.x)
           known == m \in DOMAIN q.tasks
           merged == IF known THEN q.tasks[m] ELSE NewTask(r, p)
           t == AddSubscriber(merged, r, p)
           n == push(q, r, p)
<1>1. /\ m \in Metatiles /\ r.format \in SUBSET Formats /\ p \in Nat
  BY RequestTypes
<1>2. merged \in Task
  <2>1. NewTask(r, p) \in Task
    BY <1>1, NewTaskType
  <2>2. known => q.tasks[m] \in Task
    BY DEF QueueInv, QueueType
  <2> QED BY <2>1, <2>2
<1>3. t \in Task
  <2> HIDE DEF merged, p
  <2> QED BY <1>1, <1>2, AddSubscriberType
<1>4. /\ DOMAIN n.tasks = DOMAIN q.tasks \cup {m}
      /\ n.tasks = [k \in DOMAIN q.tasks \cup {m} |-> IF k = m THEN t ELSE q.tasks[k]]
      /\ n.tasks[m] = t
      /\ \A k \in DOMAIN q.tasks \ {m} : n.tasks[k] = q.tasks[k]
      /\ DOMAIN n = {"tasks", "arrivals", "stamps"}
  BY DEF push
<1>5. /\ n.arrivals = IF ~known THEN Append(q.arrivals, m)
                     ELSE IF p > q.tasks[m].priority THEN ToBack(q.arrivals, m)
                     ELSE q.arrivals
      /\ n.stamps = IF known THEN q.stamps ELSE Append(q.stamps, m)
  BY DEF push
<1>6. QueueIndexes(n) /\ n.arrivals \in Seq(Metatiles) /\ n.stamps \in Seq(Metatiles)
  <2> HIDE DEF p, n, m
  <2>1. CASE known
    <3>1. DOMAIN q.tasks \cup {m} = DOMAIN q.tasks
      BY <2>1
    <3>2. IsPermutation(ToBack(q.arrivals, m), DOMAIN q.tasks)
          /\ ToBack(q.arrivals, m) \in Seq(Metatiles)
      BY <2>1, ToBackPermutation DEF QueueInv, QueueType, QueueIndexes
    <3> QED BY <1>4, <1>5, <2>1, <3>1, <3>2 DEF QueueInv, QueueType, QueueIndexes
  <2>2. CASE ~known
    <3>1. /\ IsPermutation(Append(q.arrivals, m), DOMAIN q.tasks \cup {m})
          /\ Append(q.arrivals, m) \in Seq(Metatiles)
      BY <1>1, <2>2, AppendPermutation DEF QueueInv, QueueType, QueueIndexes
    <3>2. /\ IsPermutation(Append(q.stamps, m), DOMAIN q.tasks \cup {m})
          /\ Append(q.stamps, m) \in Seq(Metatiles)
      BY <1>1, <2>2, AppendPermutation DEF QueueInv, QueueType, QueueIndexes
    <3> QED BY <1>4, <1>5, <2>2, <3>1, <3>2 DEF QueueIndexes
  <2> QED BY <2>1, <2>2
<1>7. QueueType(n)
  <2> HIDE DEF n, t, m
  <2>1. n.tasks \in [DOMAIN n.tasks -> Task]
    BY <1>3, <1>4 DEF QueueInv, QueueType
  <2> QED BY <1>1, <1>4, <1>6, <2>1 DEF QueueInv, QueueType
<1>8. QueueSums(n)
  <2>1. /\ t.subscribers = merged.subscribers \cup {r}
        /\ t.format = merged.format \cup r.format
        /\ t.priority = IF p > merged.priority THEN p ELSE merged.priority
    BY <1>2 DEF AddSubscriber, Task
  <2>2. CASE known
    <3>1. /\ \A s \in merged.subscribers : MetaOf(s.x) = m /\ PriorityOf(s) <= merged.priority
          /\ \E s \in merged.subscribers : PriorityOf(s) = merged.priority
          /\ merged.format = UNION {s.format : s \in merged.subscribers}
          /\ merged.priority \in Nat
          /\ merged.subscribers \subseteq Requests
      BY <1>2, <2>2 DEF QueueInv, QueueSums, Task
    <3> HIDE DEF merged, t, p, m
    <3>2. \A s \in t.subscribers : PriorityOf(s) <= t.priority
      BY <1>1, <2>1, <3>1, RequestTypes DEF p
    <3>3. \E s \in t.subscribers : PriorityOf(s) = t.priority
      BY <1>1, <2>1, <3>1 DEF p
    <3>4. t.format = UNION {s.format : s \in t.subscribers}
      BY <2>1, <3>1
    <3>5. \A s \in t.subscribers : MetaOf(s.x) = m
      BY <2>1, <3>1 DEF m
    <3> QED BY <1>4, <3>2, <3>3, <3>4, <3>5 DEF QueueInv, QueueSums
  <2>3. CASE ~known
    <3>1. /\ merged.subscribers = {} /\ merged.format = r.format /\ merged.priority = p
      BY <2>3 DEF NewTask
    <3> HIDE DEF merged, t, p, m
    <3>2. t.subscribers = {r} /\ t.format = r.format /\ t.priority = p
      BY <1>1, <2>1, <3>1
    <3>3. t.format = UNION {s.format : s \in t.subscribers}
      BY <3>2
    <3>4. \A s \in t.subscribers : MetaOf(s.x) = m /\ PriorityOf(s) <= t.priority
      BY <1>1, <3>2 DEF p, m
    <3>5. \E s \in t.subscribers : PriorityOf(s) = t.priority
      BY <3>2 DEF p
    <3> QED BY <1>4, <3>3, <3>4, <3>5 DEF QueueInv, QueueSums
  <2> QED BY <2>2, <2>3
<1> QED BY <1>6, <1>7, <1>8 DEF QueueInv

\* erase preserves the queue's invariant.
LEMMA EraseInv ==
  ASSUME NEW q, QueueInv(q), NEW m \in DOMAIN q.tasks
  PROVE  QueueInv(erase(q, m))
<1> DEFINE n == erase(q, m)
<1>1. /\ DOMAIN n = {"tasks", "arrivals", "stamps"}
      /\ n.tasks = [k \in DOMAIN q.tasks \ {m} |-> q.tasks[k]]
      /\ n.arrivals = Without(q.arrivals, m)
      /\ n.stamps = Without(q.stamps, m)
  BY DEF erase
<1>2. /\ DOMAIN n.tasks = DOMAIN q.tasks \ {m}
      /\ \A k \in DOMAIN n.tasks : n.tasks[k] = q.tasks[k]
  BY <1>1
<1>3. QueueIndexes(n) /\ n.arrivals \in Seq(Metatiles) /\ n.stamps \in Seq(Metatiles)
  BY <1>1, <1>2, WithoutPermutation DEF QueueInv, QueueType, QueueIndexes
<1> HIDE DEF n
<1>4. QueueType(n)
  BY <1>1, <1>2, <1>3 DEF QueueInv, QueueType
<1>5. QueueSums(n)
  BY <1>2 DEF QueueInv, QueueSums
<1> QED BY <1>3, <1>4, <1>5 DEF QueueInv, n

\* A change that keeps the indexes and the merged requests of every task.
LEMMA SameSums ==
  ASSUME NEW q, QueueInv(q), NEW n,
         DOMAIN n = {"tasks", "arrivals", "stamps"},
         n.tasks \in [DOMAIN q.tasks -> Task],
         \A k \in DOMAIN q.tasks : /\ n.tasks[k].subscribers = q.tasks[k].subscribers
                                   /\ n.tasks[k].priority = q.tasks[k].priority
                                   /\ n.tasks[k].format = q.tasks[k].format,
         n.arrivals = q.arrivals,
         IsPermutation(n.stamps, DOMAIN q.tasks),
         n.stamps \in Seq(Metatiles)
  PROVE  QueueInv(n) /\ Subscribed(n) = Subscribed(q)
<1>1. QueueType(n) /\ QueueIndexes(n)
  BY DEF QueueInv, QueueType, QueueIndexes
<1>2. QueueSums(n)
  BY DEF QueueInv, QueueSums
<1>3. Subscribed(n) = Subscribed(q)
  BY DEF Subscribed
<1> QED BY <1>1, <1>2, <1>3 DEF QueueInv

\* set_processed preserves the queue's invariant and loses no request.
LEMMA SetProcessedInv ==
  ASSUME NEW q, QueueInv(q), NEW m \in DOMAIN q.tasks
  PROVE  QueueInv(set_processed(q, m)) /\ Subscribed(set_processed(q, m)) = Subscribed(q)
<1> DEFINE t == [q.tasks[m] EXCEPT !.processed = TRUE]
           n == set_processed(q, m)
<1>1. /\ DOMAIN n = {"tasks", "arrivals", "stamps"}
      /\ n.tasks = [q.tasks EXCEPT ![m] = t]
      /\ n.arrivals = q.arrivals
      /\ n.stamps = q.stamps
  BY DEF set_processed, QueueInv, QueueType
<1>2. q.tasks \in [DOMAIN q.tasks -> Task]
  BY DEF QueueInv, QueueType
<1>3. t \in Task /\ t.subscribers = q.tasks[m].subscribers
      /\ t.priority = q.tasks[m].priority /\ t.format = q.tasks[m].format
  BY <1>2 DEF Task
<1> HIDE DEF n, t
<1>4. n.tasks \in [DOMAIN q.tasks -> Task]
  BY <1>1, <1>2, <1>3
<1>5. \A k \in DOMAIN q.tasks : /\ n.tasks[k].subscribers = q.tasks[k].subscribers
                                /\ n.tasks[k].priority = q.tasks[k].priority
                                /\ n.tasks[k].format = q.tasks[k].format
  BY <1>1, <1>2, <1>3
<1>6. IsPermutation(n.stamps, DOMAIN q.tasks) /\ n.stamps \in Seq(Metatiles)
  BY <1>1 DEF QueueInv, QueueType, QueueIndexes
<1>7. QueueInv(n) /\ Subscribed(n) = Subscribed(q)
  BY <1>1, <1>4, <1>5, <1>6, SameSums
<1> QED BY <1>7 DEF n

\* The passing of time preserves the queue's invariant and loses no request.
LEMMA AgedInv ==
  ASSUME NEW q, QueueInv(q)
  PROVE  QueueInv(Aged(q)) /\ Subscribed(Aged(q)) = Subscribed(q)
<1> DEFINE t(k) == [q.tasks[k] EXCEPT !.age = IF @ < ZombieTime THEN @ + 1 ELSE @]
           n == Aged(q)
<1>1. /\ DOMAIN n = {"tasks", "arrivals", "stamps"}
      /\ n.tasks = [k \in DOMAIN q.tasks |-> t(k)]
      /\ n.arrivals = q.arrivals
      /\ n.stamps = q.stamps
  BY DEF Aged, QueueInv, QueueType
<1>2. ASSUME NEW k \in DOMAIN q.tasks
      PROVE  t(k) \in Task /\ t(k).subscribers = q.tasks[k].subscribers
             /\ t(k).priority = q.tasks[k].priority /\ t(k).format = q.tasks[k].format
  <2>1. q.tasks[k] \in Task
    BY DEF QueueInv, QueueType
  <2>2. q.tasks[k].age \in 0 .. ZombieTime /\ ZombieTime \in Nat
    BY <2>1, ZombieTimeAssumption DEF Task
  <2>3. (IF q.tasks[k].age < ZombieTime THEN q.tasks[k].age + 1 ELSE q.tasks[k].age)
          \in 0 .. ZombieTime
    BY <2>2
  <2> QED BY <2>1, <2>3 DEF Task
<1> HIDE DEF n, t
<1>3. n.tasks \in [DOMAIN q.tasks -> Task]
  BY <1>1, <1>2
<1>4. \A k \in DOMAIN q.tasks : /\ n.tasks[k].subscribers = q.tasks[k].subscribers
                                /\ n.tasks[k].priority = q.tasks[k].priority
                                /\ n.tasks[k].format = q.tasks[k].format
  BY <1>1, <1>2
<1>5. IsPermutation(n.stamps, DOMAIN q.tasks) /\ n.stamps \in Seq(Metatiles)
  BY <1>1 DEF QueueInv, QueueType, QueueIndexes
<1>6. QueueInv(n) /\ Subscribed(n) = Subscribed(q)
  BY <1>1, <1>3, <1>4, <1>5, SameSums
<1> QED BY <1>6 DEF n
-----------------------------------------------------------------------------
\* Some metatile of a nonempty set comes first in an index that has them all.
LEMMA FirstInIndex ==
  ASSUME NEW S, NEW T, NEW s \in Seq(T), IsPermutation(s, S), NEW M \in SUBSET S, M # {}
  PROVE  \E m \in M : \A k \in M : Position(s, m) <= Position(s, k)
<1> DEFINE P == {Position(s, m) : m \in M}
<1>1. P \in SUBSET Nat /\ P # {}
  BY PositionFound
<1>2. PICK x \in P : \A y \in P : x <= y
  BY <1>1, LeastNatural
<1> QED BY <1>2

\* front() finds a task, and an unprocessed one, whenever there is one.
LEMMA FrontFound ==
  ASSUME NEW q, QueueInv(q), Available(q) # {}
  PROVE  front(q) \in TopClass(q) /\ front(q) \in Available(q)
<1>1. \A k \in Available(q) : q.tasks[k].priority \in {0, 50, 100, 150}
  BY RequestTypes DEF QueueInv, QueueType, QueueSums, Available, Task
<1>2. TopClass(q) # {}
  BY <1>1 DEF TopClass
<1>3. TopClass(q) \subseteq DOMAIN q.tasks
  BY DEF TopClass, Available
<1>4. \E m \in TopClass(q) :
        \A k \in TopClass(q) : Position(q.arrivals, m) <= Position(q.arrivals, k)
  BY <1>2, <1>3, FirstInIndex DEF QueueInv, QueueType, QueueIndexes
<1> QED BY <1>4 DEF front, TopClass

\* The zombie that resubmit_older_than picks is one.
LEMMA OldestZombieFound ==
  ASSUME NEW q, QueueInv(q), Zombies(q) # {}
  PROVE  OldestZombie(q) \in Zombies(q)
<1>1. Zombies(q) \subseteq DOMAIN q.tasks
  BY DEF Zombies
<1>2. \E m \in Zombies(q) :
        \A k \in Zombies(q) : Position(q.stamps, m) <= Position(q.stamps, k)
  BY <1>1, FirstInIndex DEF QueueInv, QueueType, QueueIndexes
<1> QED BY <1>2 DEF OldestZombie

\* resubmit_older_than preserves the queue's invariant and loses no request.
LEMMA ResubmitInv ==
  ASSUME NEW q, QueueInv(q)
  PROVE  QueueInv(resubmit_older_than(q)) /\ Subscribed(resubmit_older_than(q)) = Subscribed(q)
<1>1. CASE Zombies(q) = {}
  BY <1>1 DEF resubmit_older_than
<1>2. CASE Zombies(q) # {}
  <2> DEFINE m == OldestZombie(q)
             t == [q.tasks[m] EXCEPT !.processed = FALSE, !.age = 0]
             n == resubmit_older_than(q)
  <2>1. m \in DOMAIN q.tasks
    BY <1>2, OldestZombieFound DEF Zombies
  <2>2. q.tasks \in [DOMAIN q.tasks -> Task]
    BY DEF QueueInv, QueueType
  <2>3. /\ DOMAIN n = {"tasks", "arrivals", "stamps"}
        /\ n.tasks = [q.tasks EXCEPT ![m].processed = FALSE, ![m].age = 0]
        /\ n.arrivals = q.arrivals
        /\ n.stamps \in {q.stamps, ToBack(q.stamps, m)}
    BY <1>2 DEF resubmit_older_than
  <2>4. t \in Task /\ t.subscribers = q.tasks[m].subscribers
        /\ t.priority = q.tasks[m].priority /\ t.format = q.tasks[m].format
    <3>1. q.tasks[m] \in Task /\ 0 \in 0 .. ZombieTime
      BY <2>1, <2>2, ZombieTimeAssumption
    <3> QED BY <3>1 DEF Task
  <2>5. n.tasks = [q.tasks EXCEPT ![m] = t]
    BY <2>1, <2>2, <2>3
  <2>6. IsPermutation(n.stamps, DOMAIN q.tasks) /\ n.stamps \in Seq(Metatiles)
    BY <2>1, <2>3, ToBackPermutation DEF QueueInv, QueueType, QueueIndexes
  <2> HIDE DEF n, t, m
  <2>7. n.tasks \in [DOMAIN q.tasks -> Task]
    BY <2>2, <2>4, <2>5
  <2>8. \A k \in DOMAIN q.tasks : /\ n.tasks[k].subscribers = q.tasks[k].subscribers
                                  /\ n.tasks[k].priority = q.tasks[k].priority
                                  /\ n.tasks[k].format = q.tasks[k].format
    BY <2>2, <2>4, <2>5
  <2>9. QueueInv(n) /\ Subscribed(n) = Subscribed(q)
    BY <2>3, <2>6, <2>7, <2>8, SameSums
  <2> QED BY <2>9 DEF n
<1> QED BY <1>1, <1>2
-----------------------------------------------------------------------------
\* count_unprocessed counts: the queue's tasks are finitely many.
LEMMA AvailableFinite ==
  ASSUME NEW q, QueueInv(q)
  PROVE  count_unprocessed(q) \in Nat
<1> DEFINE s == q.arrivals
<1>1. s \in [1 .. Len(s) -> DOMAIN q.tasks] /\ Len(s) \in Nat
  BY DEF QueueInv, QueueType, QueueIndexes, IsPermutation
<1>2. \A m \in DOMAIN q.tasks : \E i \in 1 .. Len(s) : s[i] = m
  BY DEF QueueInv, QueueIndexes, IsPermutation
<1>3. s \in Surjection(1 .. Len(s), DOMAIN q.tasks)
  BY <1>1, <1>2 DEF Surjection
<1>4. IsFiniteSet(DOMAIN q.tasks)
  BY <1>1, <1>3, FS_NatSurjection DEF ExistsSurjection
<1>5. Available(q) \in SUBSET (DOMAIN q.tasks)
  BY DEF Available
<1>6. IsFiniteSet(Available(q))
  BY <1>4, <1>5, FS_Subset
<1> QED BY <1>6, FS_CardinalityType DEF count_unprocessed

\* The requests in a queue after each of its operations.
LEMMA SubscribedPush ==
  ASSUME NEW q, QueueInv(q), NEW r \in Requests
  PROVE  Subscribed(push(q, r, PriorityOf(r))) = Subscribed(q) \cup {r}
<1> DEFINE p == PriorityOf(r)
           m == MetaOf(r.x)
           n == push(q, r, p)
           merged == IF m \in DOMAIN q.tasks THEN q.tasks[m] ELSE NewTask(r, p)
<1>1. /\ DOMAIN n.tasks = DOMAIN q.tasks \cup {m}
      /\ \A k \in DOMAIN q.tasks \ {m} : n.tasks[k] = q.tasks[k]
      /\ n.tasks[m] = AddSubscriber(merged, r, p)
  BY DEF push
<1>2. p \in Nat
  BY RequestTypes
<1>3. merged \in Task
  BY <1>2, NewTaskType DEF QueueInv, QueueType
<1>4. n.tasks[m].subscribers = merged.subscribers \cup {r}
  BY <1>1, <1>3 DEF AddSubscriber, Task
<1>5. merged.subscribers = IF m \in DOMAIN q.tasks THEN q.tasks[m].subscribers ELSE {}
  BY DEF NewTask
<1> HIDE DEF n, m, p, merged
<1> QED BY <1>1, <1>4, <1>5 DEF Subscribed, n, p

\* erase forgets the requests of one metatile, all of them and no other.
LEMMA SubscribedErase ==
  ASSUME NEW q, QueueInv(q), NEW m \in DOMAIN q.tasks
  PROVE  /\ Subscribed(erase(q, m)) = Subscribed(q) \ q.tasks[m].subscribers
         /\ q.tasks[m].subscribers = {r \in Subscribed(q) : MetaOf(r.x) = m}
         /\ q.tasks[m].subscribers # {}
<1> DEFINE n == erase(q, m)
<1>1. /\ DOMAIN n.tasks = DOMAIN q.tasks \ {m}
      /\ \A k \in DOMAIN n.tasks : n.tasks[k] = q.tasks[k]
  BY DEF erase
<1>2. \A k \in DOMAIN q.tasks : \A r \in q.tasks[k].subscribers : MetaOf(r.x) = k
  BY DEF QueueInv, QueueSums
<1>3. q.tasks[m].subscribers # {}
  BY DEF QueueInv, QueueSums
<1> HIDE DEF n
<1>4. Subscribed(n) = Subscribed(q) \ q.tasks[m].subscribers
  BY <1>1, <1>2 DEF Subscribed
<1>5. q.tasks[m].subscribers = {r \in Subscribed(q) : MetaOf(r.x) = m}
  BY <1>2 DEF Subscribed
<1> QED BY <1>3, <1>4, <1>5 DEF n

\* Only requests subscribe to tasks.
LEMMA SubscribedTypes ==
  ASSUME NEW q, QueueInv(q)
  PROVE  Subscribed(q) \subseteq Requests
BY DEF Subscribed, QueueInv, QueueType, Task
-----------------------------------------------------------------------------
\* The inductive invariant.
BrokerInv ==
  /\ BrokerTypeOK
  /\ IndexesAgree
  /\ TaskSumsUpSubscribers
  /\ AnsweredAtMostOnce

\* The inductive invariant gives each broker's queue its invariant.
LEMMA QueuesInv ==
  BrokerInv => DOMAIN queue = Brokers /\ \A b \in Brokers : QueueInv(queue[b])
BY DEF BrokerInv, BrokerTypeOK, IndexesAgree, TaskSumsUpSubscribers, QueueInv

\* publish_availability sends well-formed announcements only.
LEMMA PublishedType ==
  ASSUME BrokerTypeOK, NEW b \in Brokers, NEW q, QueueInv(q)
  PROVE  Published(b, q) \in [Workers -> Seq(Announcement)]
<1>1. CASE Available(q) = {}
  BY <1>1 DEF Published, BrokerTypeOK
<1>2. CASE Available(q) # {}
  <2> DEFINE a == [broker |-> b, priority |-> q.tasks[front(q)].priority,
                   qsize |-> count_unprocessed(q)]
  <2>1. q.tasks[front(q)].priority \in Nat
    BY <1>2, FrontFound DEF Available, QueueInv, QueueType, Task
  <2>2. a \in Announcement
    BY <2>1, AvailableFinite DEF Announcement
  <2>3. Published(b, q) = [w \in Workers |-> IF Len(announce[w]) < AnnounceHWM
                                            THEN Append(announce[w], a) ELSE announce[w]]
    BY <1>2 DEF Published
  <2> HIDE DEF a
  <2> QED BY <2>2, <2>3 DEF BrokerTypeOK
<1> QED BY <1>1, <1>2

\* send_tile_to_listeners sends well-formed answers only.
LEMMA AnswerType ==
  ASSUME NEW r \in Requests, NEW res, res.status \in ResultCmd
  PROVE  Answer(r, res) \in Reply
<1>1. CutOut(r, res.data) \in SUBSET Nat
  BY RequestTypes DEF CutOut
<1> QED BY <1>1 DEF Answer, Reply, NoData

\* What every action leaves to show: the new queue of the one broker it touches.
LEMMA OneQueue ==
  ASSUME BrokerInv, NEW b \in Brokers, NEW q, QueueInv(q),
         queue' = [queue EXCEPT ![b] = q]
  PROVE  /\ DOMAIN queue' = Brokers
         /\ \A c \in Brokers : QueueInv(queue'[c])
         /\ \A c \in Brokers : Waiting(c)' = IF c = b THEN Subscribed(q) ELSE Waiting(c)
BY QueuesInv DEF Waiting

\* The parts from which every action below puts the invariant together again.
LEMMA QueuesInvPrime ==
  ASSUME DOMAIN queue' = Brokers, \A b \in Brokers : QueueInv(queue'[b]),
         running' \in [Brokers -> BOOLEAN], accepted' \in SUBSET Requests,
         replies' \in [Requests -> Seq(Reply)], frontend_pub' \in [Brokers -> Nat],
         to_worker' \in [Workers -> [Brokers -> Seq(JobMsg \cup {NoJobs})]],
         announce' \in [Workers -> Seq(Announcement)],
         AnsweredAtMostOnce'
  PROVE  BrokerInv'
BY DEF BrokerInv, BrokerTypeOK, IndexesAgree, TaskSumsUpSubscribers, QueueInv

\* A request from a handler preserves the invariant.
LEMMA FrontendRequestInv ==
  ASSUME BrokerInv, NEW b \in Brokers, NEW r \in Requests, FrontendRequest(b, r)
  PROVE  BrokerInv'
<1> DEFINE q == push(queue[b], r, PriorityOf(r))
<1>1. QueueInv(q) /\ Subscribed(q) = Waiting(b) \cup {r}
  BY QueuesInv, PushInv, SubscribedPush DEF Waiting
<1>2. /\ accepted' = accepted \cup {r} /\ r \notin accepted
      /\ queue' = [queue EXCEPT ![b] = q]
      /\ announce' \in {Published(b, q), announce}
      /\ UNCHANGED <<running, replies, frontend_pub, to_worker>>
  BY DEF FrontendRequest
<1> HIDE DEF q
<1>3. announce' \in [Workers -> Seq(Announcement)]
  BY <1>1, <1>2, PublishedType DEF BrokerInv, BrokerTypeOK
<1>4. \A c \in Brokers : Waiting(c)' = IF c = b THEN Waiting(b) \cup {r} ELSE Waiting(c)
  BY <1>1, <1>2, OneQueue
<1>5. AnsweredAtMostOnce'
  BY <1>2, <1>4 DEF BrokerInv, AnsweredAtMostOnce
<1>6. DOMAIN queue' = Brokers /\ \A c \in Brokers : QueueInv(queue'[c])
  BY <1>1, <1>2, OneQueue
<1> QED
  BY <1>2, <1>3, <1>5, <1>6, QueuesInvPrime DEF BrokerInv, BrokerTypeOK

\* A stuttering step preserves the invariant.
LEMMA StutterInv == BrokerInv /\ UNCHANGED brokerVars => BrokerInv'
BY DEF BrokerInv, BrokerTypeOK, IndexesAgree, TaskSumsUpSubscribers, AnsweredAtMostOnce,
       Waiting, brokerVars

\* A response to a worker keeps its channel typed.
LEMMA ToWorkerType ==
  ASSUME BrokerInv, NEW b \in Brokers, NEW w \in Workers, NEW msg \in JobMsg \cup {NoJobs},
         to_worker' = [to_worker EXCEPT ![w][b] = Append(@, msg)]
  PROVE  to_worker' \in [Workers -> [Brokers -> Seq(JobMsg \cup {NoJobs})]]
BY DEF BrokerInv, BrokerTypeOK

\* A result from a worker, for a task that exists or not, preserves the invariant.
LEMMA BackendResultInv ==
  ASSUME BrokerInv, NEW b \in Brokers, NEW res, res.status \in ResultCmd, BackendResult(b, res)
  PROVE  BrokerInv'
<1> DEFINE t == queue[b].tasks[res.x]
           subs == t.subscribers \cap Interactive
           q == erase(queue[b], res.x)
<1>1. UNCHANGED <<running, accepted, frontend_pub, to_worker, announce>>
  BY DEF BackendResult
<1>2. CASE res.x \in DOMAIN queue[b].tasks
  <2>1. /\ replies' = [r \in Requests |-> IF r \in subs THEN Append(replies[r], Answer(r, res))
                                          ELSE replies[r]]
        /\ queue' = [queue EXCEPT ![b] = q]
    BY <1>2 DEF BackendResult
  <2>2. QueueInv(q) /\ Subscribed(q) = Waiting(b) \ t.subscribers /\ t.subscribers \subseteq Waiting(b)
    BY <1>2, QueuesInv, EraseInv, SubscribedErase DEF Waiting
  <2> HIDE DEF q, t
  <2>3. \A c \in Brokers : Waiting(c)' = IF c = b THEN Waiting(b) \ t.subscribers ELSE Waiting(c)
    BY <2>1, <2>2, OneQueue
  <2>4. replies' \in [Requests -> Seq(Reply)]
    BY <2>1, AnswerType DEF BrokerInv, BrokerTypeOK
  <2>5. AnsweredAtMostOnce'
    <3>1. ASSUME NEW r \in Requests
          PROVE  Len(replies'[r]) <= 1 /\ (replies'[r] # << >> => r \in accepted)
      <4>1. CASE r \in subs
        <5>1. replies[r] = << >> /\ r \in accepted
          BY <2>2, <4>1 DEF BrokerInv, AnsweredAtMostOnce
        <5> QED BY <2>1, <4>1, <5>1
      <4>2. CASE r \notin subs
        BY <2>1, <4>2 DEF BrokerInv, AnsweredAtMostOnce
      <4> QED BY <4>1, <4>2
    <3>2. ASSUME NEW c \in Brokers, NEW r \in Waiting(c)'
          PROVE  r \in accepted /\ replies'[r] = << >>
      <4>1. r \in Waiting(c) /\ r \notin subs
        BY <2>2, <2>3 DEF BrokerInv, AnsweredAtMostOnce
      <4>2. r \in accepted /\ replies[r] = << >> /\ r \in Requests
        BY <4>1 DEF BrokerInv, AnsweredAtMostOnce, BrokerTypeOK
      <4> QED BY <2>1, <4>1, <4>2
    <3>3. ASSUME NEW c \in Brokers, NEW d \in Brokers, Waiting(c)' \cap Waiting(d)' # {}
          PROVE  c = d
      BY <2>3, <3>3 DEF BrokerInv, AnsweredAtMostOnce
    <3> QED BY <1>1, <3>1, <3>2, <3>3 DEF AnsweredAtMostOnce
  <2>6. DOMAIN queue' = Brokers /\ \A c \in Brokers : QueueInv(queue'[c])
    BY <2>1, <2>2, OneQueue
  <2> QED BY <1>1, <2>4, <2>5, <2>6, QueuesInvPrime DEF BrokerInv, BrokerTypeOK
<1>3. CASE res.x \notin DOMAIN queue[b].tasks
  <2>1. UNCHANGED brokerVars
    BY <1>1, <1>3 DEF BackendResult, brokerVars
  <2> QED BY <2>1, StutterInv
<1> QED BY <1>2, <1>3

\* Actions that keep who waits and who was answered.
LEMMA SameServiceInv ==
  ASSUME BrokerInv, DOMAIN queue' = Brokers,
         \A b \in Brokers : QueueInv(queue'[b]) /\ Waiting(b)' = Waiting(b),
         UNCHANGED <<accepted, replies>>,
         running' \in [Brokers -> BOOLEAN], frontend_pub' \in [Brokers -> Nat],
         to_worker' \in [Workers -> [Brokers -> Seq(JobMsg \cup {NoJobs})]],
         announce' \in [Workers -> Seq(Announcement)]
  PROVE  BrokerInv'
<1>1. AnsweredAtMostOnce'
  BY DEF BrokerInv, AnsweredAtMostOnce
<1> QED BY <1>1, QueuesInvPrime DEF BrokerInv, BrokerTypeOK

\* A GET_JOB from a worker preserves the invariant.
LEMMA BackendGetJobInv ==
  ASSUME BrokerInv, NEW b \in Brokers, NEW w \in Workers, BackendGetJob(b, w)
  PROVE  BrokerInv'
<1>1. UNCHANGED <<running, accepted, replies, frontend_pub, announce>>
  BY DEF BackendGetJob
<1>2. CASE Available(queue[b]) # {}
  <2> DEFINE m == front(queue[b])
             job == [type |-> "JOB", x |-> m, format |-> queue[b].tasks[m].format]
             q == set_processed(queue[b], m)
  <2>1. /\ to_worker' = [to_worker EXCEPT ![w][b] = Append(@, job)]
        /\ queue' = [queue EXCEPT ![b] = q]
    BY <1>2 DEF BackendGetJob
  <2>2. m \in DOMAIN queue[b].tasks
    BY <1>2, QueuesInv, FrontFound DEF Available
  <2>3. QueueInv(q) /\ Subscribed(q) = Waiting(b)
    BY <2>2, QueuesInv, SetProcessedInv DEF Waiting
  <2>4. job \in JobMsg
    BY <2>2, QueuesInv DEF QueueInv, QueueType, Task, JobMsg
  <2> HIDE DEF q, job
  <2>5. to_worker' \in [Workers -> [Brokers -> Seq(JobMsg \cup {NoJobs})]]
    BY <2>1, <2>4, ToWorkerType
  <2>6. /\ DOMAIN queue' = Brokers
        /\ \A c \in Brokers : QueueInv(queue'[c]) /\ Waiting(c)' = Waiting(c)
    BY <2>1, <2>3, OneQueue
  <2> QED BY <1>1, <2>5, <2>6, SameServiceInv DEF BrokerInv, BrokerTypeOK
<1>3. CASE Available(queue[b]) = {}
  <2>1. /\ to_worker' = [to_worker EXCEPT ![w][b] = Append(@, NoJobs)]
        /\ UNCHANGED queue
    BY <1>3 DEF BackendGetJob
  <2>2. to_worker' \in [Workers -> [Brokers -> Seq(JobMsg \cup {NoJobs})]]
    BY <2>1, ToWorkerType
  <2>3. /\ DOMAIN queue' = Brokers
        /\ \A c \in Brokers : QueueInv(queue'[c]) /\ Waiting(c)' = Waiting(c)
    BY <2>1, QueuesInv DEF Waiting
  <2> QED BY <1>1, <2>2, <2>3, SameServiceInv DEF BrokerInv, BrokerTypeOK
<1> QED BY <1>2, <1>3

\* CLEAR TASK QUEUE preserves the invariant.
LEMMA MonitorClearInv ==
  ASSUME BrokerInv, NEW b \in Brokers, MonitorClear(b)
  PROVE  BrokerInv'
<1>1. /\ queue' = [queue EXCEPT ![b] = EmptyQueue]
      /\ UNCHANGED <<running, accepted, replies, frontend_pub, to_worker, announce>>
  BY DEF MonitorClear
<1>2. /\ DOMAIN queue' = Brokers
      /\ \A c \in Brokers : QueueInv(queue'[c])
      /\ \A c \in Brokers : Waiting(c)' = IF c = b THEN {} ELSE Waiting(c)
  BY <1>1, EmptyQueueInv, OneQueue
<1>3. AnsweredAtMostOnce'
  BY <1>1, <1>2 DEF BrokerInv, AnsweredAtMostOnce
<1> QED BY <1>1, <1>2, <1>3, QueuesInvPrime DEF BrokerInv, BrokerTypeOK

\* RESUBMIT ZOMBIE TASKS preserves the invariant.
LEMMA MonitorResubmitInv ==
  ASSUME BrokerInv, NEW b \in Brokers, MonitorResubmit(b)
  PROVE  BrokerInv'
<1> DEFINE q == resubmit_older_than(queue[b])
<1>1. /\ queue' = [queue EXCEPT ![b] = q]
      /\ UNCHANGED <<running, accepted, replies, frontend_pub, to_worker, announce>>
  BY DEF MonitorResubmit
<1>2. QueueInv(q) /\ Subscribed(q) = Waiting(b)
  BY QueuesInv, ResubmitInv DEF Waiting
<1> HIDE DEF q
<1>3. /\ DOMAIN queue' = Brokers
      /\ \A c \in Brokers : QueueInv(queue'[c]) /\ Waiting(c)' = Waiting(c)
  BY <1>1, <1>2, OneQueue
<1> QED BY <1>1, <1>3, SameServiceInv DEF BrokerInv, BrokerTypeOK

\* The passing of time preserves the invariant.
LEMMA TickInv ==
  ASSUME BrokerInv, Tick
  PROVE  BrokerInv'
<1>1. /\ queue' = [b \in Brokers |-> Aged(queue[b])]
      /\ UNCHANGED <<running, accepted, replies, frontend_pub, to_worker, announce>>
  BY DEF Tick
<1>2. /\ DOMAIN queue' = Brokers
      /\ \A c \in Brokers : QueueInv(queue'[c]) /\ Waiting(c)' = Waiting(c)
  BY <1>1, QueuesInv, AgedInv DEF Waiting
<1> QED BY <1>1, <1>2, SameServiceInv DEF BrokerInv, BrokerTypeOK

\* Actions that leave the queues alone.
LEMMA QueueUnchangedInv ==
  ASSUME BrokerInv, UNCHANGED <<queue, accepted, replies>>,
         running' \in [Brokers -> BOOLEAN], frontend_pub' \in [Brokers -> Nat],
         to_worker' \in [Workers -> [Brokers -> Seq(JobMsg \cup {NoJobs})]],
         announce' \in [Workers -> Seq(Announcement)]
  PROVE  BrokerInv'
<1>1. /\ DOMAIN queue' = Brokers
      /\ \A c \in Brokers : QueueInv(queue'[c]) /\ Waiting(c)' = Waiting(c)
  BY QueuesInv DEF Waiting
<1> QED BY <1>1, SameServiceInv

\* The steps that leave the queues alone preserve the invariant.
LEMMA OtherStepsInv ==
  ASSUME BrokerInv,
         \/ \E b \in Brokers : MonitorHeartbeat(b) \/ MonitorShutdown(b)
         \/ \E w \in Workers : EnvHear(w) \/ \E b \in Brokers : EnvRead(w, b)
  PROVE  BrokerInv'
<1>1. ASSUME NEW b \in Brokers, MonitorHeartbeat(b) PROVE BrokerInv'
  <2>1. announce' \in [Workers -> Seq(Announcement)]
    BY <1>1, QueuesInv, PublishedType DEF MonitorHeartbeat, BrokerInv
  <2>2. count_unprocessed(queue[b]) \in Nat
    BY QueuesInv, AvailableFinite
  <2>3. frontend_pub' \in [Brokers -> Nat]
    BY <1>1, <2>2 DEF MonitorHeartbeat, BrokerInv, BrokerTypeOK
  <2> QED BY <1>1, <2>1, <2>3, QueueUnchangedInv DEF MonitorHeartbeat, BrokerInv, BrokerTypeOK
<1>2. ASSUME NEW b \in Brokers, MonitorShutdown(b) PROVE BrokerInv'
  BY <1>2, QueueUnchangedInv DEF MonitorShutdown, BrokerInv, BrokerTypeOK
<1>3. ASSUME NEW w \in Workers, NEW b \in Brokers, EnvRead(w, b) PROVE BrokerInv'
  <2>1. to_worker' \in [Workers -> [Brokers -> Seq(JobMsg \cup {NoJobs})]]
    BY <1>3 DEF EnvRead, BrokerInv, BrokerTypeOK
  <2> QED BY <1>3, <2>1, QueueUnchangedInv DEF EnvRead, BrokerInv, BrokerTypeOK
<1>4. ASSUME NEW w \in Workers, EnvHear(w) PROVE BrokerInv'
  <2>1. announce' \in [Workers -> Seq(Announcement)]
    BY <1>4 DEF EnvHear, BrokerInv, BrokerTypeOK
  <2> QED BY <1>4, <2>1, QueueUnchangedInv DEF EnvHear, BrokerInv, BrokerTypeOK
<1> QED BY <1>1, <1>2, <1>3, <1>4

\* The invariant holds in the initial states.
LEMMA BrokerInitInv == BrokerInit => BrokerInv
<1> SUFFICES ASSUME BrokerInit PROVE BrokerInv
  OBVIOUS
<1>1. DOMAIN queue = Brokers
      /\ \A b \in Brokers : QueueInv(queue[b]) /\ Waiting(b) = {}
  BY EmptyQueueInv DEF BrokerInit, Waiting
<1>2. AnsweredAtMostOnce
  BY <1>1 DEF BrokerInit, AnsweredAtMostOnce
<1>3. /\ running \in [Brokers -> BOOLEAN] /\ accepted \in SUBSET Requests
      /\ replies \in [Requests -> Seq(Reply)] /\ frontend_pub \in [Brokers -> Nat]
      /\ to_worker \in [Workers -> [Brokers -> Seq(JobMsg \cup {NoJobs})]]
      /\ announce \in [Workers -> Seq(Announcement)]
  BY DEF BrokerInit
<1> QED
  BY <1>1, <1>2, <1>3 DEF BrokerInv, BrokerTypeOK, IndexesAgree, TaskSumsUpSubscribers, QueueInv

\* Every step preserves the invariant: one case per action.
LEMMA BrokerNextInv == BrokerInv /\ [BrokerNext]_brokerVars => BrokerInv'
<1> SUFFICES ASSUME BrokerInv, [BrokerNext]_brokerVars PROVE BrokerInv'
  OBVIOUS
<1>1. ASSUME NEW b \in Brokers, NEW r \in Requests, FrontendRequest(b, r) PROVE BrokerInv'
  BY <1>1, FrontendRequestInv
<1>2. ASSUME NEW b \in Brokers, NEW res \in Result, BackendResult(b, res) PROVE BrokerInv'
  BY <1>2, BackendResultInv DEF Result
<1>3. ASSUME NEW b \in Brokers, NEW w \in Workers, EnvGetJob(b, w) PROVE BrokerInv'
  BY <1>3, BackendGetJobInv DEF EnvGetJob
<1>4. ASSUME NEW b \in Brokers, MonitorClear(b) PROVE BrokerInv'
  BY <1>4, MonitorClearInv
<1>5. ASSUME NEW b \in Brokers, MonitorResubmit(b) PROVE BrokerInv'
  BY <1>5, MonitorResubmitInv
<1>6. CASE \/ \E b \in Brokers : MonitorHeartbeat(b) \/ MonitorShutdown(b)
           \/ \E w \in Workers : EnvHear(w) \/ \E b \in Brokers : EnvRead(w, b)
  BY <1>6, OtherStepsInv
<1>7. CASE Tick
  BY <1>7, TickInv
<1>8. CASE UNCHANGED brokerVars
  BY <1>8, StutterInv
<1> QED
  BY <1>1, <1>2, <1>3, <1>4, <1>5, <1>6, <1>7, <1>8 DEF BrokerNext, BrokerStep

(***************************************************************************)
(* BrokerInv is an invariant of the brokers: for any number of brokers,    *)
(* workers, requests and formats, any metatile size and any timeout, and   *)
(* workers that return any result at any time.                             *)
(***************************************************************************)
THEOREM BrokerInvariance == BrokerSpec => []BrokerInv
BY BrokerInitInv, BrokerNextInv, PTL DEF BrokerSpec

\* The state of the brokers, and what they send, keep their types.
THEOREM BrokerTypes == BrokerSpec => []BrokerTypeOK
<1>1. BrokerInv => BrokerTypeOK
  BY DEF BrokerInv
<1> QED BY <1>1, BrokerInvariance, PTL

\* add_subscriber keeps every task the sum of the requests merged into it.
THEOREM TasksAlwaysSumUp == BrokerSpec => []TaskSumsUpSubscribers
<1>1. BrokerInv => TaskSumsUpSubscribers
  BY DEF BrokerInv
<1> QED BY <1>1, BrokerInvariance, PTL

\* send_tile_to_listeners answers no request twice.
THEOREM NeverAnsweredTwice == BrokerSpec => []AnsweredAtMostOnce
<1>1. BrokerInv => AnsweredAtMostOnce
  BY DEF BrokerInv
<1> QED BY <1>1, BrokerInvariance, PTL

\* A request that a broker reads is announced when it is the broker's only work.
LEMMA RequestIsAnnounced ==
  ASSUME BrokerInv, NEW c \in Brokers, NEW r \in Requests, FrontendRequest(c, r)
  PROVE  AnnouncesNewWork
<1> DEFINE p == PriorityOf(r)
           q == push(queue[c], r, p)
<1>1. /\ queue' = [queue EXCEPT ![c] = q]
      /\ announce' = IF FrontChanged(c, q, p) THEN Published(c, q) ELSE announce
  BY DEF FrontendRequest
<1>2. DOMAIN queue = Brokers /\ announce \in [Workers -> Seq(Announcement)]
  BY DEF BrokerInv, BrokerTypeOK
<1> HIDE DEF p, q
<1> SUFFICES ASSUME NEW b \in Brokers, Available(queue[b]) = {}, Available(queue'[b]) # {},
                    NEW w \in Workers, Len(announce[w]) < AnnounceHWM
             PROVE  Len(announce'[w]) = Len(announce[w]) + 1
  BY DEF AnnouncesNewWork
<1>3. b = c /\ queue'[c] = q
  BY <1>1, <1>2
<1>4. announce' = Published(c, q)
  BY <1>1, <1>3 DEF FrontChanged
<1> DEFINE a == [broker |-> c, priority |-> q.tasks[front(q)].priority,
                 qsize |-> count_unprocessed(q)]
<1>5. announce' = [v \in Workers |-> IF Len(announce[v]) < AnnounceHWM
                                     THEN Append(announce[v], a) ELSE announce[v]]
  BY <1>3, <1>4 DEF Published
<1> HIDE DEF a
<1>6. announce'[w] = Append(announce[w], a) /\ announce[w] \in Seq(Announcement)
  BY <1>2, <1>5
<1> QED BY <1>6

(***************************************************************************)
(* A request that makes work available on a broker that had none is        *)
(* announced to every worker with room for the announcement.               *)
(***************************************************************************)
THEOREM NewWorkAlwaysAnnounced == BrokerSpec => NewWorkIsAnnounced
<1>1. BrokerInv /\ [BrokerNext]_brokerVars => [AnnouncesNewWork]_brokerVars
  <2> SUFFICES ASSUME BrokerInv, BrokerNext PROVE AnnouncesNewWork
    OBVIOUS
  <2>1. ASSUME NEW b \in Brokers, NEW r \in Requests, FrontendRequest(b, r)
        PROVE  AnnouncesNewWork
    BY <2>1, RequestIsAnnounced
  <2>2. CASE accepted' = accepted
    BY <2>2 DEF AnnouncesNewWork
  <2> QED BY <2>1, <2>2 DEF BrokerNext, BrokerStep, BackendResult, EnvGetJob, BackendGetJob,
        MonitorClear, MonitorResubmit, MonitorHeartbeat, MonitorShutdown, EnvRead, EnvHear, Tick
<1> QED BY <1>1, BrokerInvariance, PTL DEF BrokerSpec, NewWorkIsAnnounced
-----------------------------------------------------------------------------
\* The abstract state, named for the proof.
Pending == [b \in Brokers |-> Waiting(b)]
Answers == [r \in Requests |-> Len(replies[r])]
Closed == {r \in accepted : /\ \A b \in Brokers : r \notin Waiting(b)
                           /\ replies[r] = << >>}

\* A step that keeps who waits and who was answered is a stutter of the service.
LEMMA ServiceStutter ==
  ASSUME \A b \in Brokers : Waiting(b)' = Waiting(b), UNCHANGED <<accepted, replies>>
  PROVE  UNCHANGED <<Pending, Answers, Closed>>
BY DEF Pending, Answers, Closed

\* A request that a broker reads is an Accept of the service.
LEMMA RequestIsAccept ==
  ASSUME BrokerInv, NEW b \in Brokers, NEW r \in Requests, FrontendRequest(b, r)
  PROVE  Service!Accept(b, r)
<1> DEFINE q == push(queue[b], r, PriorityOf(r))
<1>1. QueueInv(q) /\ Subscribed(q) = Waiting(b) \cup {r}
  BY QueuesInv, PushInv, SubscribedPush DEF Waiting
<1>2. /\ accepted' = accepted \cup {r} /\ r \notin accepted
      /\ queue' = [queue EXCEPT ![b] = q]
      /\ replies' = replies
  BY DEF FrontendRequest
<1> HIDE DEF q
<1>3. \A c \in Brokers : Waiting(c)' = IF c = b THEN Waiting(b) \cup {r} ELSE Waiting(c)
  BY <1>1, <1>2, OneQueue
<1>4. (\A c \in Brokers : r \notin Waiting(c)) /\ replies[r] = << >>
  BY <1>2 DEF BrokerInv, AnsweredAtMostOnce
<1>5. Pending' = [Pending EXCEPT ![b] = @ \cup {r}]
  BY <1>3 DEF Pending
<1>6. Answers' = Answers
  BY <1>2 DEF Answers
<1>7. Closed' = Closed
  BY <1>2, <1>3, <1>4 DEF Closed
<1>8. r \notin Closed /\ ~(Answers[r] > 0) /\ \A c \in Brokers : r \notin Pending[c]
  BY <1>2, <1>4 DEF Closed, Answers, Pending
<1> QED
  BY <1>5, <1>6, <1>7, <1>8 DEF Service!Accept, Service!Known, Pending, Answers, Closed

\* A result for a task that is in the queue is a Settle of the service.
LEMMA ResultIsSettle ==
  ASSUME BrokerInv, NEW b \in Brokers, NEW res, BackendResult(b, res),
         res.x \in DOMAIN queue[b].tasks
  PROVE  Service!Settle(b, res.x)
<1> DEFINE T == queue[b].tasks[res.x].subscribers
           q == erase(queue[b], res.x)
<1>1. /\ replies' = [r \in Requests |-> IF r \in T \cap Interactive
                                        THEN Append(replies[r], Answer(r, res)) ELSE replies[r]]
      /\ queue' = [queue EXCEPT ![b] = q]
      /\ accepted' = accepted
  BY DEF BackendResult
<1>2. /\ QueueInv(q)
      /\ Subscribed(q) = Waiting(b) \ T
      /\ T = {r \in Waiting(b) : MetaOf(r.x) = res.x}
      /\ T # {}
      /\ Waiting(b) \subseteq Requests
  BY QueuesInv, EraseInv, SubscribedErase, SubscribedTypes DEF Waiting
<1> HIDE DEF q, T
<1>3. \A c \in Brokers : Waiting(c)' = IF c = b THEN Waiting(b) \ T ELSE Waiting(c)
  BY <1>1, <1>2, OneQueue
<1>4. Pending' = [Pending EXCEPT ![b] = @ \ T]
  BY <1>3 DEF Pending
<1>5. \A r \in T : r \in Requests /\ r \in accepted /\ replies[r] = << >>
  BY <1>2 DEF BrokerInv, AnsweredAtMostOnce
<1>6. Answers' = [r \in Requests |-> IF r \in T \cap Interactive THEN 1 ELSE Answers[r]]
  <2>1. ASSUME NEW r \in Requests
        PROVE  Len(replies'[r]) = IF r \in T \cap Interactive THEN 1 ELSE Len(replies[r])
    BY <1>1, <1>5
  <2> QED BY <2>1 DEF Answers
<1>7. Closed' = Closed \cup (T \ Interactive)
  <2>1. \A r \in Requests : (replies'[r] = << >>) <=> (replies[r] = << >> /\ r \notin T \cap Interactive)
    <3>1. ASSUME NEW r \in Requests, r \in T \cap Interactive PROVE replies'[r] # << >>
      BY <1>1, <1>5, <3>1
    <3> QED BY <1>1, <3>1
  <2>2. \A r \in T : \A c \in Brokers : r \in Waiting(c) => c = b
    BY <1>2 DEF BrokerInv, AnsweredAtMostOnce
  <2>3. accepted \subseteq Requests
    BY DEF BrokerInv, BrokerTypeOK
  <2> QED BY <1>1, <1>2, <1>3, <1>5, <2>1, <2>2, <2>3 DEF Closed
<1>8. T = {r \in Pending[b] : [s \in Requests |-> MetaOf(s.x)][r] = res.x}
  BY <1>2 DEF Pending
<1> QED
  BY <1>2, <1>4, <1>6, <1>7, <1>8 DEF Service!Settle, Pending, Answers, Closed

\* CLEAR TASK QUEUE is a Forget of the service.
LEMMA ClearIsForget ==
  ASSUME BrokerInv, NEW b \in Brokers, MonitorClear(b)
  PROVE  Service!Forget(b)
<1>1. queue' = [queue EXCEPT ![b] = EmptyQueue] /\ UNCHANGED <<accepted, replies>>
  BY DEF MonitorClear
<1>2. \A c \in Brokers : Waiting(c)' = IF c = b THEN {} ELSE Waiting(c)
  BY <1>1, EmptyQueueInv, OneQueue
<1>3. Pending' = [Pending EXCEPT ![b] = {}]
  BY <1>2 DEF Pending
<1>4. Answers' = Answers
  BY <1>1 DEF Answers
<1>5. Closed' = Closed \cup Pending[b]
  <2>1. \A r \in Waiting(b) : /\ r \in accepted /\ replies[r] = << >>
                              /\ \A c \in Brokers : r \in Waiting(c) => c = b
    BY DEF BrokerInv, AnsweredAtMostOnce
  <2> QED BY <1>1, <1>2, <2>1 DEF Closed, Pending
<1> QED BY <1>3, <1>4, <1>5 DEF Service!Forget, Pending, Answers, Closed

\* Handing out, resubmission and time do not change who waits.
LEMMA SameWaiting ==
  ASSUME BrokerInv,
         \/ Tick
         \/ \E b \in Brokers : MonitorResubmit(b) \/ \E w \in Workers : BackendGetJob(b, w)
         \/ UNCHANGED <<queue, accepted, replies>>
  PROVE  (\A b \in Brokers : Waiting(b)' = Waiting(b)) /\ UNCHANGED <<accepted, replies>>
<1>1. CASE Tick
  BY <1>1, QueuesInv, AgedInv DEF Tick, Waiting
<1>2. ASSUME NEW b \in Brokers, MonitorResubmit(b)
      PROVE  (\A c \in Brokers : Waiting(c)' = Waiting(c)) /\ UNCHANGED <<accepted, replies>>
  BY <1>2, QueuesInv, ResubmitInv DEF MonitorResubmit, Waiting
<1>3. ASSUME NEW b \in Brokers, NEW w \in Workers, BackendGetJob(b, w)
      PROVE  (\A c \in Brokers : Waiting(c)' = Waiting(c)) /\ UNCHANGED <<accepted, replies>>
  <2>1. CASE Available(queue[b]) = {}
    BY <1>3, <2>1 DEF BackendGetJob, Waiting
  <2>2. CASE Available(queue[b]) # {}
    <3>1. front(queue[b]) \in DOMAIN queue[b].tasks
      BY <2>2, QueuesInv, FrontFound DEF Available
    <3>2. queue' = [queue EXCEPT ![b] = set_processed(queue[b], front(queue[b]))]
          /\ UNCHANGED <<accepted, replies>>
      BY <1>3, <2>2 DEF BackendGetJob
    <3> QED BY <3>1, <3>2, QueuesInv, SetProcessedInv DEF Waiting
  <2> QED BY <2>1, <2>2
<1>4. CASE UNCHANGED <<queue, accepted, replies>>
  BY <1>4 DEF Waiting
<1> QED BY <1>1, <1>2, <1>3, <1>4

\* Every step of the brokers is a step of the service or leaves it unchanged.
LEMMA StepIsServiceStep ==
  BrokerInv /\ [BrokerNext]_brokerVars => [Service!ServiceNext]_(Service!serviceVars)
<1> SUFFICES ASSUME BrokerInv, [BrokerNext]_brokerVars
             PROVE  Service!ServiceNext \/ UNCHANGED <<Pending, Answers, Closed>>
  BY DEF Service!serviceVars, Pending, Answers, Closed
<1>1. ASSUME NEW b \in Brokers, NEW r \in Requests, FrontendRequest(b, r)
      PROVE  Service!ServiceNext
  BY <1>1, RequestIsAccept DEF Service!ServiceNext
<1>2. ASSUME NEW b \in Brokers, NEW res \in Result, BackendResult(b, res)
      PROVE  Service!ServiceNext \/ UNCHANGED <<Pending, Answers, Closed>>
  <2>1. CASE res.x \in DOMAIN queue[b].tasks
    <3>1. Service!Settle(b, res.x)
      BY <1>2, <2>1, ResultIsSettle
    <3>2. res.x \in {[s \in Requests |-> MetaOf(s.x)][r] : r \in Requests}
      BY DEF Result, Metatiles
    <3> QED BY <3>1, <3>2 DEF Service!ServiceNext
  <2>2. CASE res.x \notin DOMAIN queue[b].tasks
    <3>1. UNCHANGED <<queue, accepted, replies>>
      BY <1>2, <2>2 DEF BackendResult
    <3> QED BY <3>1, SameWaiting, ServiceStutter
  <2> QED BY <2>1, <2>2
<1>3. ASSUME NEW b \in Brokers, MonitorClear(b) PROVE Service!ServiceNext
  BY <1>3, ClearIsForget DEF Service!ServiceNext
<1>4. CASE \/ Tick
           \/ \E b \in Brokers : MonitorResubmit(b) \/ \E w \in Workers : BackendGetJob(b, w)
           \/ UNCHANGED <<queue, accepted, replies>>
  BY <1>4, SameWaiting, ServiceStutter
<1>5. CASE \/ \E b \in Brokers : MonitorHeartbeat(b) \/ MonitorShutdown(b)
           \/ \E w \in Workers : EnvHear(w) \/ \E b \in Brokers : EnvRead(w, b)
           \/ UNCHANGED brokerVars
  BY <1>4, <1>5 DEF MonitorHeartbeat, MonitorShutdown, EnvHear, EnvRead, brokerVars
<1> QED
  BY <1>1, <1>2, <1>3, <1>4, <1>5 DEF BrokerNext, BrokerStep, EnvGetJob

\* The brokers start where the service starts.
LEMMA InitIsServiceInit == BrokerInit => Service!ServiceInit
<1> SUFFICES ASSUME BrokerInit PROVE Service!ServiceInit
  OBVIOUS
<1>1. \A b \in Brokers : Waiting(b) = {}
  BY EmptyQueueInv DEF BrokerInit, Waiting
<1> QED BY <1>1 DEF BrokerInit, Service!ServiceInit

(***************************************************************************)
(* The brokers implement the render service: what waits in the task queues *)
(* is settled metatile by metatile, each interactive request with one      *)
(* answer, and nothing but CLEAR forgets a request.                        *)
(***************************************************************************)
THEOREM BrokersImplementService == BrokerSpec => ImplementsRenderService
BY InitIsServiceInit, StepIsServiceStep, BrokerInvariance, PTL
   DEF BrokerSpec, ImplementsRenderService, Service!ServiceSpec
=============================================================================

-------------------------- MODULE RenderQueueProofs --------------------------
(***************************************************************************)
(* Proofs about RenderQueue: brokers and workers together, for any number  *)
(* of brokers, workers, requests and formats and any bound on timeouts and *)
(* crashes.  The inductive invariant RenderInv adds to BrokerInv           *)
(*   - InStep: what is between a communicator and its worker code follows  *)
(*     from the communicator's state, so that a result finds the broker    *)
(*     its job is from;                                                    *)
(*   - AskedOnce: without timeouts and crashes one request is out;         *)
(*   - EachOneCopy: a job that was not recalled is in one place, and its   *)
(*     task is handed out.  The second half is what makes the first one    *)
(*     inductive: front() only gives out tasks that are not handed out.    *)
(* Every action is shown to leave the copies of a job alone (CopyStays) or *)
(* to move one from a stage to the next (CopyMoves).                       *)
(***************************************************************************)
EXTENDS RenderQueue, TileBrokerProofs, FiniteSetTheorems, TLAPS

\* Some message of s carries the job of metatile m; no two do.
Has(s, m) == \E i \in 1 .. Len(s) : Carries(s[i], m)
Single(s, m) ==
  \A i, j \in 1 .. Len(s) : Carries(s[i], m) /\ Carries(s[j], m) => i = j

\* n is what s becomes when it gains no message that carries m.
NoNew(s, n, m) ==
  \/ n = s
  \/ n = << >>
  \/ ~Has(n, m)
  \/ s # << >> /\ n = Tail(s)
  \/ \E e : ~Carries(e, m) /\ n = Append(s, e)

\* The two kinds of messages that a broker sends are told apart.
LEMMA JobIsNotRefusal == "JOB" # NO_JOBS
BY Zenon DEF NO_JOBS

\* A refusal is not a result either.
LEMMA RefusalIsNotResult == "RESULT" # NO_JOBS
BY Zenon DEF NO_JOBS

\* What a typed channel holds.
LEMMA ElementsOf ==
  ASSUME NEW S, NEW s \in Seq(S)
  PROVE  Len(s) \in Nat /\ \A i \in 1 .. Len(s) : s[i] \in S
OBVIOUS

\* Nothing is left of a channel with one message that is read.
LEMMA TailOfOne ==
  ASSUME NEW S, NEW s \in Seq(S), Len(s) = 1
  PROVE  Tail(s) = << >>
<1> DEFINE t == Tail(s)
<1>1. t \in Seq(S) /\ Len(t) = 0
  OBVIOUS
<1> HIDE DEF t
<1>2. t = << >>
  BY <1>1
<1> QED BY <1>2 DEF t

\* Of two messages, the second is left.
LEMMA TailOfTwo ==
  ASSUME NEW S, NEW s \in Seq(S), Len(s) = 2
  PROVE  Tail(s) = <<s[2]>> /\ Tail(s) \in Seq(S)
<1> DEFINE t == Tail(s)
<1>a. s # << >>
  OBVIOUS
<1>b. t \in Seq(S) /\ Len(t) = 1
  BY <1>a
<1>c. \A i \in 1 .. Len(t) : t[i] = s[i + 1]
  BY <1>a
<1> HIDE DEF t
<1>1. t \in Seq(S) /\ Len(t) = 1 /\ t[1] = s[2]
  BY <1>b, <1>c
<1>2. t = <<s[2]>>
  BY <1>1
<1> QED BY <1>1, <1>2 DEF t

\* An empty channel carries no copy.
LEMMA EmptyCarriesNothing == \A m : ~Has(<< >>, m) /\ Single(<< >>, m)
BY DEF Has, Single

\* Reading the head of a channel leaves the other messages in it.
LEMMA TailKeeps ==
  ASSUME NEW S, NEW s \in Seq(S), s # << >>, NEW m
  PROVE  /\ Has(Tail(s), m) => Has(s, m)
         /\ Single(s, m) => Single(Tail(s), m)
         /\ Single(s, m) /\ Carries(Head(s), m) => ~Has(Tail(s), m)
         /\ Carries(Head(s), m) => Has(s, m)
<1>1. /\ Len(s) \in Nat \ {0} /\ Len(Tail(s)) = Len(s) - 1
      /\ Head(s) = s[1]
      /\ \A i \in 1 .. Len(Tail(s)) : Tail(s)[i] = s[i + 1]
  OBVIOUS
<1>2. Has(Tail(s), m) => Has(s, m)
  BY <1>1 DEF Has
<1>3. Single(s, m) => Single(Tail(s), m)
  BY <1>1 DEF Single
<1>4. Single(s, m) /\ Carries(Head(s), m) => ~Has(Tail(s), m)
  BY <1>1 DEF Single, Has
<1>5. Carries(Head(s), m) => Has(s, m)
  BY <1>1 DEF Has
<1> QED BY <1>2, <1>3, <1>4, <1>5

\* A message that is sent is the last of its channel.
LEMMA AppendAdds ==
  ASSUME NEW S, NEW s \in Seq(S), NEW e, NEW m
  PROVE  /\ Has(Append(s, e), m) <=> Has(s, m) \/ Carries(e, m)
         /\ (Single(s, m) /\ ~(Has(s, m) /\ Carries(e, m))) => Single(Append(s, e), m)
<1>1. /\ Len(s) \in Nat /\ Len(Append(s, e)) = Len(s) + 1
      /\ Append(s, e)[Len(s) + 1] = e
      /\ \A i \in 1 .. Len(s) : Append(s, e)[i] = s[i]
  OBVIOUS
<1>2. \A i \in 1 .. (Len(s) + 1) : i \in 1 .. Len(s) \/ i = Len(s) + 1
  BY <1>1
<1>3. Has(Append(s, e), m) => Has(s, m) \/ Carries(e, m)
  BY <1>1, <1>2 DEF Has
<1>4. Has(s, m) \/ Carries(e, m) => Has(Append(s, e), m)
  BY <1>1 DEF Has
<1>5. (Single(s, m) /\ ~(Has(s, m) /\ Carries(e, m))) => Single(Append(s, e), m)
  BY <1>1, <1>2 DEF Has, Single
<1> QED BY <1>3, <1>4, <1>5

\* A channel that gains no copy has at most the one it had.
LEMMA NoNewKeeps ==
  ASSUME NEW S, NEW s \in Seq(S), NEW n, NEW m, NoNew(s, n, m)
  PROVE  (Has(n, m) => Has(s, m)) /\ (Single(s, m) => Single(n, m))
<1>1. CASE n = s
  BY <1>1
<1>2. CASE n = << >>
  BY <1>2, EmptyCarriesNothing
<1>3. CASE s # << >> /\ n = Tail(s)
  BY <1>3, TailKeeps
<1>4. ASSUME NEW e, ~Carries(e, m), n = Append(s, e)
      PROVE  (Has(n, m) => Has(s, m)) /\ (Single(s, m) => Single(n, m))
  BY <1>4, AppendAdds
<1>5. CASE ~Has(n, m)
  BY <1>5 DEF Has, Single
<1> QED BY <1>1, <1>2, <1>3, <1>4, <1>5 DEF NoNew
-----------------------------------------------------------------------------
HandedOut(b, m) == m \in DOMAIN queue[b].tasks /\ queue[b].tasks[m].processed

\* The job of metatile m at broker b is in one place at most, and there only while
\* its task is handed out.
OneCopy(b, m) ==
  /\ \A w \in Workers, s \in Stages : Single(Path(w, b, s), m)
  /\ \A v, w \in Workers, s, t \in Stages :
       Has(Path(v, b, s), m) /\ Has(Path(w, b, t), m) => v = w /\ s = t
  /\ \A w \in Workers, s \in Stages : Has(Path(w, b, s), m) => HandedOut(b, m)

EachOneCopy ==
  \A b \in Brokers : \A m \in Metatiles : <<b, m>> \notin recalled => OneCopy(b, m)

Channel == JobMsg \cup ResultMsg \cup {NoJobs, RequestJob, GetJobMsg}

\* The stages one by one.
LEMMA PathStages ==
  ASSUME NEW w, NEW b
  PROVE  /\ Path(w, b, "sent") = to_worker[w][b]
         /\ Path(w, b, "held") = IF current_broker[w] = b
                                 THEN [i \in 1 .. Len(to_code[w]) |-> to_code[w][i].job]
                                 ELSE << >>
         /\ Path(w, b, "done") = IF current_broker[w] = b THEN to_comm[w] ELSE << >>
         /\ Path(w, b, "back") = to_broker[w][b]
BY DEF Path

\* Every stage is a channel of typed messages.
LEMMA PathType ==
  ASSUME BrokerTypeOK, MessagesOK, NEW w \in Workers, NEW b \in Brokers, NEW s \in Stages
  PROVE  Path(w, b, s) \in Seq(Channel)
<1>1. to_worker[w][b] \in Seq(JobMsg \cup {NoJobs})
  BY DEF BrokerTypeOK
<1>2. /\ to_broker[w][b] \in Seq(ResultMsg \cup {GetJobMsg})
      /\ to_comm[w] \in Seq(ResultMsg \cup {RequestJob})
  BY DEF MessagesOK
<1>3. to_code[w] \in Seq([job : JobMsg, from : Brokers])
  BY DEF MessagesOK
<1>4. to_worker[w][b] \in Seq(Channel)
  BY <1>1 DEF Channel
<1>5. to_broker[w][b] \in Seq(Channel) /\ to_comm[w] \in Seq(Channel)
  BY <1>2 DEF Channel
<1>6. [i \in 1 .. Len(to_code[w]) |-> to_code[w][i].job] \in Seq(JobMsg)
  <2> DEFINE c == to_code[w]
  <2>1. Len(c) \in Nat /\ \A i \in 1 .. Len(c) : c[i] \in [job : JobMsg, from : Brokers]
    BY <1>3, ElementsOf, Zenon
  <2> HIDE DEF c
  <2>2. [i \in 1 .. Len(c) |-> c[i].job] \in [1 .. Len(c) -> JobMsg]
    BY <2>1
  <2>3. [i \in 1 .. Len(c) |-> c[i].job] \in Seq(JobMsg)
    BY <2>1, <2>2
  <2> QED BY <2>3 DEF c
<1>7. [i \in 1 .. Len(to_code[w]) |-> to_code[w][i].job] \in Seq(Channel)
  BY <1>6 DEF Channel
<1>8. << >> \in Seq(Channel)
  OBVIOUS
<1>9. CASE s = "sent"
  BY <1>4, <1>9, PathStages
<1>10. CASE s = "back"
  BY <1>5, <1>10, PathStages
<1>11. CASE s = "held"
  <2>1. CASE current_broker[w] = b
    BY <1>7, <1>11, <2>1, PathStages, Zenon
  <2>2. CASE current_broker[w] # b
    BY <1>8, <1>11, <2>2, PathStages, Zenon
  <2> QED BY <2>1, <2>2
<1>12. CASE s = "done"
  <2>1. CASE current_broker[w] = b
    BY <1>5, <1>12, <2>1, PathStages, Zenon
  <2>2. CASE current_broker[w] # b
    BY <1>8, <1>12, <2>2, PathStages, Zenon
  <2> QED BY <2>1, <2>2
<1> QED BY <1>9, <1>10, <1>11, <1>12 DEF Stages

\* A step that makes no new copy keeps the copies apart.
LEMMA CopyStays ==
  ASSUME BrokerTypeOK, MessagesOK, NEW b \in Brokers, NEW m, OneCopy(b, m),
         HandedOut(b, m) => HandedOut(b, m)',
         \A w \in Workers, s \in Stages : NoNew(Path(w, b, s), Path(w, b, s)', m)
  PROVE  OneCopy(b, m)'
<1>1. ASSUME NEW w \in Workers, NEW s \in Stages
      PROVE  /\ Has(Path(w, b, s)', m) => Has(Path(w, b, s), m)
             /\ Single(Path(w, b, s)', m)
  <2>1. Path(w, b, s) \in Seq(Channel) /\ Single(Path(w, b, s), m)
    BY PathType DEF OneCopy
  <2>2. NoNew(Path(w, b, s), Path(w, b, s)', m)
    OBVIOUS
  <2> QED BY <2>1, <2>2, NoNewKeeps
<1>2. \A v, w \in Workers, s, t \in Stages :
        Has(Path(v, b, s)', m) /\ Has(Path(w, b, t)', m) => v = w /\ s = t
  BY <1>1 DEF OneCopy
<1>3. \A w \in Workers, s \in Stages : Single(Path(w, b, s)', m)
  BY <1>1, Zenon
<1>4. \A w \in Workers, s \in Stages : Has(Path(w, b, s)', m) => HandedOut(b, m)'
  BY <1>1 DEF OneCopy
<1> QED BY <1>2, <1>3, <1>4, Zenon DEF OneCopy, Has, Single

\* A step that moves a copy from one stage of a worker to another does, too.
LEMMA CopyMoves ==
  ASSUME BrokerTypeOK, MessagesOK, NEW b \in Brokers, NEW m, OneCopy(b, m),
         HandedOut(b, m) => HandedOut(b, m)',
         NEW w \in Workers, NEW s \in Stages, NEW t \in Stages,
         Has(Path(w, b, s), m), ~Has(Path(w, b, s)', m), Single(Path(w, b, t)', m),
         \A v \in Workers, u \in Stages :
           <<v, u>> # <<w, t>> => NoNew(Path(v, b, u), Path(v, b, u)', m)
  PROVE  OneCopy(b, m)'
<1>1. ASSUME NEW v \in Workers, NEW u \in Stages, <<v, u>> # <<w, t>>
      PROVE  /\ Has(Path(v, b, u)', m) => v = w /\ u = s
             /\ Single(Path(v, b, u)', m)
  <2>1. Path(v, b, u) \in Seq(Channel) /\ Single(Path(v, b, u), m)
    BY PathType DEF OneCopy
  <2>2. NoNew(Path(v, b, u), Path(v, b, u)', m)
    BY <1>1
  <2>3. /\ Has(Path(v, b, u)', m) => Has(Path(v, b, u), m)
        /\ Single(Path(v, b, u)', m)
    BY <2>1, <2>2, NoNewKeeps
  <2> QED BY <2>3 DEF OneCopy
<1>2. \A v \in Workers, u \in Stages : Has(Path(v, b, u)', m) => v = w /\ u = t
  BY <1>1, Zenon
<1>3. \A v \in Workers, u \in Stages : Single(Path(v, b, u)', m)
  BY <1>1, Zenon
<1>4. HandedOut(b, m)'
  BY DEF OneCopy
<1> QED BY <1>2, <1>3, <1>4, Zenon DEF OneCopy, Has, Single
-----------------------------------------------------------------------------
FieldsOK ==
  /\ state \in [Workers -> States]
  /\ current_broker \in [Workers -> Brokers \cup {None}]
  /\ DOMAIN brokers_with_jobs = Workers
  /\ \A w \in Workers : DOMAIN brokers_with_jobs[w] \subseteq Brokers
  /\ timeouts \in [Workers -> 0 .. MaxTimeouts]
  /\ crashes \in [Workers -> 0 .. MaxCrashes]

\* The inductive invariant of brokers and workers together.
RenderInv ==
  /\ BrokerInv /\ FieldsOK /\ MessagesOK
  /\ InStep
  /\ AskedOnce
  /\ EachOneCopy

\* A step of worker w, or one of a broker that only concerns w.
OthersAlone(w) ==
  \A v \in Workers \ {w} :
     /\ state'[v] = state[v] /\ current_broker'[v] = current_broker[v]
     /\ to_code'[v] = to_code[v] /\ to_comm'[v] = to_comm[v]
     /\ to_broker'[v] = to_broker[v] /\ to_worker'[v] = to_worker[v]
     /\ timeouts'[v] = timeouts[v] /\ crashes'[v] = crashes[v]

\* A step of w leaves the other workers in step with their communicators.
LEMMA OthersInStep ==
  ASSUME InStep, NEW w \in Workers, OthersAlone(w), PairInStep(w)'
  PROVE  InStep'
<1>1. ASSUME NEW v \in Workers \ {w} PROVE PairInStep(v)'
  <2>1. PairInStep(v)
    BY DEF InStep
  <2> QED BY <2>1 DEF PairInStep, OthersAlone
<1> QED BY <1>1 DEF InStep

\* A step of w leaves the requests of the other workers alone.
LEMMA OthersAskOnce ==
  ASSUME AskedOnce, NEW w \in Workers, OthersAlone(w), \A b \in Brokers : OneRequestOut(w, b)'
  PROVE  AskedOnce'
<1>1. ASSUME NEW v \in Workers \ {w}, NEW b \in Brokers PROVE OneRequestOut(v, b)'
  <2>1. OneRequestOut(v, b)
    BY DEF AskedOnce
  <2> QED BY <2>1 DEF OneRequestOut, Expected, OthersAlone
<1> QED BY <1>1 DEF AskedOnce

\* A step of w leaves the copies that the other workers have where they are.
LEMMA OthersKeepCopies ==
  ASSUME NEW w \in Workers, OthersAlone(w), NEW v \in Workers, v # w, NEW b, NEW s \in Stages
  PROVE  Path(v, b, s)' = Path(v, b, s)
<1>1. v \in Workers \ {w}
  OBVIOUS
<1>2. /\ current_broker'[v] = current_broker[v]
      /\ to_code'[v] = to_code[v] /\ to_comm'[v] = to_comm[v]
      /\ to_broker'[v] = to_broker[v] /\ to_worker'[v] = to_worker[v]
  BY <1>1 DEF OthersAlone
<1> QED BY <1>2 DEF Path

\* A step of w that makes no new copy of any job.
LEMMA QuietStep ==
  ASSUME RenderInv, NEW w \in Workers, OthersAlone(w),
         \A b \in Brokers, m \in Metatiles : <<b, m>> \notin recalled' =>
           <<b, m>> \notin recalled /\ (HandedOut(b, m) => HandedOut(b, m)'),
         \A b \in Brokers, m \in Metatiles, s \in Stages : NoNew(Path(w, b, s), Path(w, b, s)', m)
  PROVE  EachOneCopy'
<1> SUFFICES ASSUME NEW b \in Brokers, NEW m \in Metatiles, <<b, m>> \notin recalled'
             PROVE  OneCopy(b, m)'
  BY DEF EachOneCopy
<1>1. BrokerTypeOK /\ MessagesOK /\ OneCopy(b, m)
  BY DEF RenderInv, BrokerInv, EachOneCopy
<1>2. HandedOut(b, m) => HandedOut(b, m)'
  OBVIOUS
<1>3. ASSUME NEW v \in Workers, NEW s \in Stages
      PROVE  NoNew(Path(v, b, s), Path(v, b, s)', m)
  <2>1. CASE v = w
    BY <2>1
  <2>2. CASE v # w
    BY <2>2, OthersKeepCopies DEF NoNew
  <2> QED BY <2>1, <2>2
<1> QED BY <1>1, <1>2, <1>3, CopyStays

\* A step of broker or worker that leaves the worker's side of things alone.
LEMMA SamePaths ==
  ASSUME RenderInv, UNCHANGED <<ownVars, to_worker>>,
         \A b \in Brokers, m \in Metatiles : <<b, m>> \notin recalled' =>
           <<b, m>> \notin recalled /\ (HandedOut(b, m) => HandedOut(b, m)'),
         BrokerInv'
  PROVE  RenderInv'
<1>1. FieldsOK'
  BY DEF RenderInv, FieldsOK, ownVars, commVars, faultVars
<1>2. MessagesOK'
  BY DEF RenderInv, MessagesOK, ownVars, codeVars
<1>3. InStep'
  BY DEF RenderInv, InStep, PairInStep, ownVars, commVars, codeVars
<1>4. AskedOnce'
  BY DEF RenderInv, AskedOnce, OneRequestOut, Expected, ownVars, commVars, faultVars
<1>5. ASSUME NEW b \in Brokers, NEW m \in Metatiles, <<b, m>> \notin recalled'
      PROVE  OneCopy(b, m)'
  <2>1. BrokerTypeOK /\ MessagesOK /\ OneCopy(b, m)
    BY <1>5 DEF RenderInv, BrokerInv, EachOneCopy
  <2>2. ASSUME NEW v \in Workers, NEW s \in Stages
        PROVE  NoNew(Path(v, b, s), Path(v, b, s)', m)
    BY DEF NoNew, Path, ownVars, commVars, codeVars
  <2> QED BY <1>5, <2>1, <2>2, CopyStays
<1> QED BY <1>1, <1>2, <1>3, <1>4, <1>5 DEF RenderInv, EachOneCopy
-----------------------------------------------------------------------------
\* A request that merges into a task leaves the task handed out if it was.
LEMMA RequestInv ==
  ASSUME RenderInv, NEW b \in Brokers, NEW r \in Requests, Request(b, r)
  PROVE  RenderInv'
<1>1. BrokerInv'
  BY FrontendRequestInv DEF Request, RenderInv
<1>2. UNCHANGED <<ownVars, to_worker, recalled>>
  BY DEF Request, FrontendRequest
<1>3. queue' = [queue EXCEPT ![b] = push(queue[b], r, PriorityOf(r))]
  BY DEF Request, FrontendRequest
<1>4. ASSUME NEW c \in Brokers, NEW m \in Metatiles, HandedOut(c, m) PROVE HandedOut(c, m)'
  <2>1. DOMAIN queue = Brokers /\ QueueType(queue[c])
    BY DEF RenderInv, BrokerInv, BrokerTypeOK
  <2>2. CASE c # b
    BY <1>3, <1>4, <2>1, <2>2 DEF HandedOut
  <2>3. CASE c = b
    <3> DEFINE q == queue[b]
               n == push(q, r, PriorityOf(r))
    <3>1. m \in DOMAIN n.tasks
      BY <1>4, <2>3 DEF push, HandedOut
    <3>2. CASE m # MetaOf(r.x)
      <4>1. n.tasks[m] = q.tasks[m]
        BY <1>4, <2>3, <3>2 DEF push, HandedOut
      <4> QED BY <1>3, <1>4, <2>1, <2>3, <3>1, <4>1 DEF HandedOut
    <3>3. CASE m = MetaOf(r.x)
      <4>1. n.tasks[m] = AddSubscriber(q.tasks[m], r, PriorityOf(r))
        BY <1>4, <2>3, <3>3 DEF push, HandedOut
      <4>2. q.tasks[m] \in Task
        BY <1>4, <2>1, <2>3 DEF QueueType, HandedOut
      <4>3. n.tasks[m].processed = q.tasks[m].processed
        BY <4>1, <4>2 DEF AddSubscriber, Task
      <4> QED BY <1>3, <1>4, <2>1, <2>3, <3>1, <4>3 DEF HandedOut
    <3> QED BY <3>2, <3>3
  <2> QED BY <2>2, <2>3
<1> QED BY <1>1, <1>2, <1>4, SamePaths

\* CLEAR TASK QUEUE recalls every task it drops.
LEMMA ClearInv ==
  ASSUME RenderInv, NEW b \in Brokers, Clear(b)
  PROVE  RenderInv'
<1>1. BrokerInv'
  BY MonitorClearInv DEF Clear, RenderInv
<1>2. /\ UNCHANGED <<ownVars, to_worker>>
      /\ queue' = [queue EXCEPT ![b] = EmptyQueue]
      /\ recalled' = recalled \cup ({b} \X DOMAIN queue[b].tasks)
  BY DEF Clear, MonitorClear
<1>3. DOMAIN queue = Brokers
  BY DEF RenderInv, BrokerInv, BrokerTypeOK
<1>4. ASSUME NEW c \in Brokers, NEW m \in Metatiles, <<c, m>> \notin recalled', HandedOut(c, m)
      PROVE  HandedOut(c, m)'
  <2>1. c # b
    BY <1>2, <1>4 DEF HandedOut
  <2> QED BY <1>2, <1>3, <1>4, <2>1 DEF HandedOut
<1>5. \A c \in Brokers, m \in Metatiles : <<c, m>> \notin recalled' => <<c, m>> \notin recalled
  BY <1>2
<1> QED BY <1>1, <1>2, <1>4, <1>5, SamePaths

\* Resubmission recalls the task that it makes available again.
LEMMA ResubmitStepInv ==
  ASSUME RenderInv, NEW b \in Brokers, Resubmit(b)
  PROVE  RenderInv'
<1> DEFINE q == queue[b]
           n == resubmit_older_than(q)
<1>1. BrokerInv'
  BY MonitorResubmitInv DEF Resubmit, RenderInv
<1>2. /\ UNCHANGED <<ownVars, to_worker>>
      /\ queue' = [queue EXCEPT ![b] = n]
      /\ recalled' = recalled \cup ({b} \X (Available(queue'[b]) \ Available(queue[b])))
  BY DEF Resubmit, MonitorResubmit
<1>3. DOMAIN queue = Brokers /\ QueueInv(q)
  BY QueuesInv DEF RenderInv
<1>4. queue'[b] = n
  BY <1>2, <1>3
<1>5. DOMAIN n.tasks = DOMAIN q.tasks
  <2>1. CASE Zombies(q) = {}
    BY <2>1 DEF resubmit_older_than
  <2>2. CASE Zombies(q) # {}
    BY <2>2, <1>3 DEF resubmit_older_than, QueueInv, QueueType
  <2> QED BY <2>1, <2>2
<1>6. ASSUME NEW c \in Brokers, NEW m \in Metatiles, <<c, m>> \notin recalled', HandedOut(c, m)
      PROVE  HandedOut(c, m)'
  <2>1. CASE c # b
    BY <1>2, <1>3, <1>6, <2>1 DEF HandedOut
  <2>2. CASE c = b
    <3>1. m \notin Available(q) /\ m \in DOMAIN n.tasks
      BY <1>5, <1>6, <2>2 DEF HandedOut, Available
    <3>2. m \notin Available(n)
      BY <1>2, <1>4, <1>6, <2>2, <3>1
    <3>3. n.tasks[m].processed
      BY <3>1, <3>2 DEF Available
    <3> QED BY <1>4, <2>2, <3>1, <3>3 DEF HandedOut
  <2> QED BY <2>1, <2>2
<1>7. \A c \in Brokers, m \in Metatiles : <<c, m>> \notin recalled' => <<c, m>> \notin recalled
  BY <1>2
<1> QED BY <1>1, <1>2, <1>6, <1>7, SamePaths

\* Heartbeats, shutdowns and the clock touch no copy and hand out no task.
LEMMA QuietBrokerInv ==
  ASSUME RenderInv,
         \/ \E b \in Brokers : Heartbeat(b) \/ Shutdown(b)
         \/ ClockTick
  PROVE  RenderInv'
<1>1. BrokerInv'
  BY OtherStepsInv, TickInv DEF Heartbeat, Shutdown, ClockTick, RenderInv
<1>2. UNCHANGED <<ownVars, to_worker, recalled>>
  BY DEF Heartbeat, Shutdown, ClockTick, MonitorHeartbeat, MonitorShutdown, Tick
<1>3. \/ UNCHANGED queue
      \/ queue' = [b \in Brokers |-> Aged(queue[b])]
  BY DEF Heartbeat, Shutdown, ClockTick, MonitorHeartbeat, MonitorShutdown, Tick
<1>4. ASSUME NEW c \in Brokers, NEW m \in Metatiles, HandedOut(c, m) PROVE HandedOut(c, m)'
  <2>1. CASE UNCHANGED queue
    BY <1>4, <2>1 DEF HandedOut
  <2>2. CASE queue' = [b \in Brokers |-> Aged(queue[b])]
    <3> DEFINE q == queue[c]
    <3>1. q.tasks[m] \in Task /\ m \in DOMAIN q.tasks
      BY <1>4 DEF HandedOut, RenderInv, BrokerInv, BrokerTypeOK, QueueType
    <3>2. queue'[c] = Aged(q) /\ DOMAIN q = {"tasks", "arrivals", "stamps"}
      BY <2>2 DEF RenderInv, BrokerInv, BrokerTypeOK, QueueType
    <3>3. Aged(q).tasks = [k \in DOMAIN q.tasks |->
                             [q.tasks[k] EXCEPT !.age = IF @ < ZombieTime THEN @ + 1 ELSE @]]
      BY <3>2 DEF Aged
    <3>4. Aged(q).tasks[m].processed = q.tasks[m].processed
      BY <3>1, <3>3 DEF Task
    <3> QED BY <1>4, <3>1, <3>2, <3>3, <3>4 DEF HandedOut
  <2> QED BY <1>3, <2>1, <2>2
<1> QED BY <1>1, <1>2, <1>4, SamePaths
-----------------------------------------------------------------------------
\* A worker's message that a broker reads leaves its channel typed.
LEMMA BrokerReadsTypes ==
  ASSUME RenderInv, NEW b \in Brokers, NEW w \in Workers, NEW type, BrokerReads(b, w, type)
  PROVE  /\ FieldsOK' /\ MessagesOK'
         /\ \A v \in Workers : \A c \in Brokers :
              to_broker'[v][c] = IF v = w /\ c = b THEN Tail(to_broker[v][c])
                                 ELSE to_broker[v][c]
         /\ \A v \in Workers : v # w => to_broker'[v] = to_broker[v]
         /\ to_broker[w][b] \in Seq(ResultMsg \cup {GetJobMsg})
<1>1. /\ to_broker' = [to_broker EXCEPT ![w][b] = Tail(@)]
      /\ to_broker[w][b] # << >>
      /\ UNCHANGED <<state, current_broker, brokers_with_jobs, to_comm, to_code, timeouts, crashes>>
  BY DEF BrokerReads, commVars, codeVars, faultVars
<1>2. to_broker \in [Workers -> [Brokers -> Seq(ResultMsg \cup {GetJobMsg})]]
  BY DEF RenderInv, MessagesOK
<1>3. FieldsOK'
  BY <1>1 DEF RenderInv, FieldsOK
<1> DEFINE S == ResultMsg \cup {GetJobMsg}
<1> HIDE DEF S
<1>4. to_broker' \in [Workers -> [Brokers -> Seq(S)]]
  <2>1. to_broker \in [Workers -> [Brokers -> Seq(S)]]
    BY <1>2 DEF S
  <2>2. to_broker[w][b] \in Seq(S) /\ to_broker[w] \in [Brokers -> Seq(S)]
    BY <2>1
  <2>3. Tail(to_broker[w][b]) \in Seq(S)
    BY <1>1, <2>2
  <2> QED BY <1>1, <2>1, <2>2, <2>3
<1>5. MessagesOK'
  BY <1>1, <1>4 DEF RenderInv, MessagesOK, S
<1> QED BY <1>1, <1>2, <1>3, <1>5

\* A job goes out for a task of which no copy was out.
LEMMA GetJobInv ==
  ASSUME RenderInv, NEW b \in Brokers, NEW w \in Workers, GetJob(b, w)
  PROVE  RenderInv'
<1> DEFINE q == queue[b]
           f == front(q)
           job == [type |-> "JOB", x |-> f, format |-> q.tasks[f].format]
           e == IF Available(q) # {} THEN job ELSE NoJobs
<1>1. BrokerReads(b, w, "GET_JOB") /\ BackendGetJob(b, w)
  BY DEF GetJob
<1>2. BrokerInv'
  BY <1>1, BackendGetJobInv DEF RenderInv
<1>3. /\ FieldsOK' /\ MessagesOK'
      /\ \A v \in Workers : \A c \in Brokers :
           to_broker'[v][c] = IF v = w /\ c = b THEN Tail(to_broker[v][c]) ELSE to_broker[v][c]
      /\ \A v \in Workers : v # w => to_broker'[v] = to_broker[v]
      /\ to_broker[w][b] \in Seq(ResultMsg \cup {GetJobMsg})
  BY <1>1, BrokerReadsTypes
<1>4. /\ UNCHANGED <<state, current_broker, to_comm, to_code, timeouts, crashes, recalled>>
      /\ to_broker[w][b] # << >> /\ Head(to_broker[w][b]).type = "GET_JOB"
  BY <1>1 DEF BrokerReads, commVars, codeVars, faultVars
<1>5. to_worker \in [Workers -> [Brokers -> Seq(JobMsg \cup {NoJobs})]]
  BY DEF RenderInv, BrokerInv, BrokerTypeOK
<1>6. /\ to_worker' = [to_worker EXCEPT ![w][b] = Append(@, e)]
      /\ queue' = IF Available(q) # {} THEN [queue EXCEPT ![b] = set_processed(q, f)] ELSE queue
  BY <1>1 DEF BackendGetJob
<1>7. /\ to_worker'[w][b] = Append(to_worker[w][b], e)
      /\ \A c \in Brokers : c # b => to_worker'[w][c] = to_worker[w][c]
      /\ \A v \in Workers : v # w => to_worker'[v] = to_worker[v]
  BY <1>5, <1>6
<1>8. OthersAlone(w)
  BY <1>3, <1>4, <1>7 DEF OthersAlone
<1>9. InStep'
  BY <1>4 DEF RenderInv, InStep, PairInStep
<1>10. AskedOnce'
  <2>1. ASSUME NEW c \in Brokers PROVE OneRequestOut(w, c)'
    <3>1. OneRequestOut(w, c)
      BY DEF RenderInv, AskedOnce
    <3>2. CASE c # b
      BY <1>3, <1>4, <1>7, <3>1, <3>2 DEF OneRequestOut, Expected
    <3>3. CASE c = b
      <4> SUFFICES ASSUME timeouts[w] = 0, crashes[w] = 0 PROVE OneRequestOut(w, b)'
        BY <1>4, <3>3 DEF OneRequestOut
      <4> DEFINE s == to_broker[w][b]
                 S == ResultMsg \cup {GetJobMsg}
      <4> HIDE DEF S
      <4>1. s \in Seq(S) /\ s # << >> /\ Head(s).type = "GET_JOB"
        BY <1>3, <1>4 DEF S
      <4>2. \A i \in 1 .. Len(s) : s[i].type = "GET_JOB" =>
              i = Len(s) /\ to_worker[w][b] = << >> /\ Expected(w, b)
        BY <3>1, <3>3 DEF OneRequestOut
      <4> HIDE DEF s
      <4>3. 1 \in 1 .. Len(s) /\ s[1].type = "GET_JOB"
        BY <4>1
      <4>4. Len(s) = 1 /\ to_worker[w][b] = << >> /\ Expected(w, b)
        BY <4>2, <4>3
      <4>5. Len(Tail(s)) = 0
        BY <4>1, <4>4
      <4>6. to_broker'[w][b] = Tail(s) /\ Len(to_worker'[w][b]) = 1 /\ Expected(w, b)'
        BY <1>3, <1>4, <1>7, <4>4 DEF Expected, s
      <4> QED BY <4>5, <4>6 DEF OneRequestOut
    <3> QED BY <3>2, <3>3
  <2> QED BY <1>8, <2>1, OthersAskOnce DEF RenderInv
<1>11. ASSUME NEW c \in Brokers, NEW m \in Metatiles, <<c, m>> \notin recalled'
       PROVE  OneCopy(c, m)'
  <2>1. BrokerTypeOK /\ MessagesOK /\ OneCopy(c, m)
    BY <1>4, <1>11 DEF RenderInv, BrokerInv, EachOneCopy
  <2>2. \A v \in Workers, s \in Stages : v # w => Path(v, c, s)' = Path(v, c, s)
    BY <1>8, OthersKeepCopies
  <2>3. Path(w, c, "held")' = Path(w, c, "held") /\ Path(w, c, "done")' = Path(w, c, "done")
    BY <1>4 DEF Path
  <2>4. NoNew(Path(w, c, "back"), Path(w, c, "back")', m)
    BY <1>3, <1>4 DEF Path, NoNew
  <2>5. DOMAIN queue = Brokers /\ QueueInv(q)
    BY QueuesInv DEF RenderInv
  <2>6. CASE c # b \/ Available(q) = {} \/ f # m
    <3>1. c = b => ~Carries(e, m)
      <4>1. CASE Available(q) = {}
        BY <4>1, JobIsNotRefusal, RefusalIsNotResult DEF Carries, NoJobs
      <4>2. CASE Available(q) # {}
        BY <2>6, <4>2 DEF Carries
      <4> QED BY <4>1, <4>2
    <3>2. NoNew(Path(w, c, "sent"), Path(w, c, "sent")', m)
      <4>1. CASE c # b
        BY <1>7, <4>1 DEF Path, NoNew
      <4>2. CASE c = b
        <5>1. Path(w, c, "sent")' = Append(Path(w, c, "sent"), e)
          BY <1>7, <4>2 DEF Path
        <5> HIDE DEF e
        <5> QED BY <3>1, <4>2, <5>1 DEF NoNew
      <4> QED BY <4>1, <4>2
    <3>3. HandedOut(c, m) => HandedOut(c, m)'
      <4>1. CASE c # b \/ Available(q) = {}
        BY <1>6, <2>5, <4>1 DEF HandedOut
      <4>2. CASE c = b /\ Available(q) # {}
        <5>1. queue'[c] = set_processed(q, f) /\ f # m
          BY <1>6, <2>5, <2>6, <4>2
        <5> QED BY <2>5, <4>2, <5>1 DEF HandedOut, set_processed, QueueInv, QueueType
      <4> QED BY <4>1, <4>2
    <3>4. \A v \in Workers, s \in Stages : NoNew(Path(v, c, s), Path(v, c, s)', m)
      BY <2>2, <2>3, <2>4, <3>2 DEF NoNew, Stages
    <3> QED BY <2>1, <3>3, <3>4, CopyStays
  <2>7. CASE c = b /\ Available(q) # {} /\ f = m
    <3>1. f \in Available(q)
      BY <2>5, <2>7, FrontFound
    <3>2. \A v \in Workers, s \in Stages : ~Has(Path(v, c, s), m)
      BY <2>1, <2>7, <3>1 DEF OneCopy, HandedOut, Available
    <3>3. HandedOut(c, m)'
      <4>1. queue'[b] = set_processed(q, f)
        BY <1>6, <2>5, <2>7
      <4>2. q.tasks[m] \in Task /\ m \in DOMAIN q.tasks
        BY <2>5, <2>7, <3>1 DEF QueueInv, QueueType, Available
      <4>3. DOMAIN q = {"tasks", "arrivals", "stamps"} /\ DOMAIN q.tasks = DOMAIN q.tasks
        BY <2>5 DEF QueueInv, QueueType
      <4>4. set_processed(q, m).tasks = [q.tasks EXCEPT ![m].processed = TRUE]
        BY <4>3 DEF set_processed
      <4>5. [q.tasks EXCEPT ![m].processed = TRUE][m].processed = TRUE
            /\ m \in DOMAIN [q.tasks EXCEPT ![m].processed = TRUE]
        BY <4>2 DEF Task
      <4> QED BY <2>7, <4>1, <4>4, <4>5 DEF HandedOut
    <3>4. ASSUME NEW v \in Workers, NEW s \in Stages, <<v, s>> # <<w, "sent">>
          PROVE  ~Has(Path(v, c, s)', m) /\ Single(Path(v, c, s)', m)
      <4>1. NoNew(Path(v, c, s), Path(v, c, s)', m)
        BY <2>2, <2>3, <2>4, <3>4 DEF NoNew, Stages
      <4>2. Path(v, c, s) \in Seq(Channel) /\ Single(Path(v, c, s), m) /\ ~Has(Path(v, c, s), m)
        BY <2>1, <3>2, PathType DEF OneCopy
      <4> QED BY <4>1, <4>2, NoNewKeeps
    <3>5. Single(Path(w, c, "sent")', m)
      <4>1. Path(w, c, "sent")' = Append(Path(w, c, "sent"), e)
        BY <1>7, <2>7 DEF Path
      <4>2. Path(w, c, "sent") \in Seq(Channel) /\ Single(Path(w, c, "sent"), m)
            /\ ~Has(Path(w, c, "sent"), m)
        BY <2>1, <3>2, PathType DEF OneCopy, Stages
      <4> HIDE DEF e
      <4> QED BY <4>1, <4>2, AppendAdds
    <3>6. \A v \in Workers, s \in Stages : Has(Path(v, c, s)', m) => v = w /\ s = "sent"
      BY <3>4, Zenon
    <3>7. \A v \in Workers, s \in Stages : Single(Path(v, c, s)', m)
      BY <3>4, <3>5, Zenon
    <3> QED BY <3>3, <3>6, <3>7, Zenon DEF OneCopy, Has, Single
  <2> QED BY <2>6, <2>7
<1> QED BY <1>2, <1>3, <1>9, <1>10, <1>11 DEF RenderInv, EachOneCopy

\* A result that a broker reads was the only copy of its job.
LEMMA ReceiveResultInv ==
  ASSUME RenderInv, NEW b \in Brokers, NEW w \in Workers, ReceiveResult(b, w)
  PROVE  RenderInv'
<1> DEFINE res == Head(to_broker[w][b])
<1>1. BrokerReads(b, w, "RESULT") /\ BackendResult(b, res)
  BY DEF ReceiveResult
<1>2. /\ FieldsOK' /\ MessagesOK'
      /\ \A v \in Workers : \A c \in Brokers :
           to_broker'[v][c] = IF v = w /\ c = b THEN Tail(to_broker[v][c]) ELSE to_broker[v][c]
      /\ \A v \in Workers : v # w => to_broker'[v] = to_broker[v]
      /\ to_broker[w][b] \in Seq(ResultMsg \cup {GetJobMsg})
  BY <1>1, BrokerReadsTypes
<1>3. /\ UNCHANGED <<state, current_broker, to_comm, to_code, timeouts, crashes, recalled>>
      /\ to_broker[w][b] # << >> /\ res.type = "RESULT"
  BY <1>1 DEF BrokerReads, commVars, codeVars, faultVars
<1>4. UNCHANGED to_worker
  BY <1>1 DEF BackendResult
<1>5. res \in ResultMsg
  <2> DEFINE S == ResultMsg \cup {GetJobMsg}
  <2> HIDE DEF S
  <2>1. res \in S
    BY <1>2, <1>3 DEF S
  <2> QED BY <1>3, <2>1 DEF S, GetJobMsg
<1>6. BrokerInv'
  <2>1. res.status \in ResultCmd
    BY <1>5 DEF ResultMsg
  <2> QED BY <1>1, <2>1, BackendResultInv DEF RenderInv
<1>7. OthersAlone(w)
  BY <1>2, <1>3, <1>4 DEF OthersAlone
<1>8. InStep'
  BY <1>3 DEF RenderInv, InStep, PairInStep
<1>9. AskedOnce'
  <2>1. ASSUME NEW c \in Brokers PROVE OneRequestOut(w, c)'
    <3>1. OneRequestOut(w, c)
      BY DEF RenderInv, AskedOnce
    <3>2. CASE c # b
      BY <1>2, <1>3, <1>4, <3>1, <3>2 DEF OneRequestOut, Expected
    <3>3. CASE c = b
      <4> DEFINE s == to_broker[w][b]
                 S == ResultMsg \cup {GetJobMsg}
      <4> HIDE DEF S
      <4>1. s \in Seq(S) /\ s # << >>
        BY <1>2, <1>3 DEF S
      <4>2. to_broker'[w][b] = Tail(s)
        BY <1>2
      <4> HIDE DEF s
      <4>3. /\ Len(s) \in Nat /\ Len(Tail(s)) = Len(s) - 1
            /\ \A i \in 1 .. Len(Tail(s)) : Tail(s)[i] = s[i + 1] /\ i + 1 \in 1 .. Len(s)
        BY <4>1
      <4>4. Expected(w, b)' = Expected(w, b)
        BY <1>3 DEF Expected
      <4>5. OneRequestOut(w, b) <=>
             (timeouts[w] = 0 /\ crashes[w] = 0 =>
               /\ to_worker[w][b] # << >> => Expected(w, b) /\ Len(to_worker[w][b]) = 1
               /\ \A i \in 1 .. Len(s) : s[i].type = "GET_JOB"
                    => i = Len(s) /\ to_worker[w][b] = << >> /\ Expected(w, b))
        BY DEF OneRequestOut, s
      <4> QED BY <1>3, <1>4, <3>1, <3>3, <4>2, <4>3, <4>4, <4>5 DEF OneRequestOut
    <3> QED BY <3>2, <3>3
  <2> QED BY <1>7, <2>1, OthersAskOnce DEF RenderInv
<1>10. ASSUME NEW c \in Brokers, NEW m \in Metatiles, <<c, m>> \notin recalled'
       PROVE  OneCopy(c, m)'
  <2>1. BrokerTypeOK /\ MessagesOK /\ OneCopy(c, m)
    BY <1>3, <1>10 DEF RenderInv, BrokerInv, EachOneCopy
  <2>2. \A v \in Workers, s \in Stages : v # w => Path(v, c, s)' = Path(v, c, s)
    BY <1>7, OthersKeepCopies
  <2>3. /\ Path(w, c, "held")' = Path(w, c, "held") /\ Path(w, c, "done")' = Path(w, c, "done")
        /\ Path(w, c, "sent")' = Path(w, c, "sent")
    BY <1>3, <1>4 DEF Path
  <2>4. NoNew(Path(w, c, "back"), Path(w, c, "back")', m)
    BY <1>2, <1>3 DEF Path, NoNew
  <2>5. \A v \in Workers, s \in Stages : NoNew(Path(v, c, s), Path(v, c, s)', m)
    BY <2>2, <2>3, <2>4 DEF NoNew, Stages
  <2>6. CASE c # b \/ res.x # m
    <3>1. HandedOut(c, m) => HandedOut(c, m)'
      <4>1. \/ UNCHANGED queue
            \/ queue' = [queue EXCEPT ![b] = erase(@, res.x)]
        BY <1>1 DEF BackendResult
      <4>2. DOMAIN queue = Brokers
        BY DEF RenderInv, BrokerInv, BrokerTypeOK
      <4> HIDE DEF res
      <4>3. CASE queue' = [queue EXCEPT ![b] = erase(@, res.x)]
        BY <2>6, <4>2, <4>3 DEF HandedOut, erase
      <4> QED BY <4>1, <4>3 DEF HandedOut
    <3> QED BY <2>1, <2>5, <3>1, CopyStays
  <2>7. CASE c = b /\ res.x = m
    <3>1. Path(w, c, "back") = to_broker[w][b] /\ Path(w, c, "back")' = Tail(to_broker[w][b])
      BY <1>2, <2>7 DEF Path
    <3>2. Carries(res, m)
      BY <1>3, <2>7 DEF Carries
    <3>3. Path(w, c, "back") \in Seq(Channel) /\ Single(Path(w, c, "back"), m)
      BY <2>1, PathType DEF OneCopy, Stages
    <3>4. Has(Path(w, c, "back"), m) /\ ~Has(Path(w, c, "back")', m)
      BY <1>3, <3>1, <3>2, <3>3, TailKeeps
    <3>5. ASSUME NEW v \in Workers, NEW s \in Stages
          PROVE  ~Has(Path(v, c, s)', m) /\ Single(Path(v, c, s)', m)
      <4>1. Path(v, c, s) \in Seq(Channel) /\ Single(Path(v, c, s), m)
        BY <2>1, PathType DEF OneCopy
      <4>2. NoNew(Path(v, c, s), Path(v, c, s)', m)
        BY <2>5
      <4>3. Single(Path(v, c, s)', m) /\ (Has(Path(v, c, s)', m) => Has(Path(v, c, s), m))
        BY <4>1, <4>2, NoNewKeeps
      <4>4. Has(Path(v, c, s), m) => v = w /\ s = "back"
        BY <2>1, <3>4 DEF OneCopy, Stages
      <4> QED BY <3>4, <4>3, <4>4
    <3>6. \A v \in Workers, s \in Stages : ~Has(Path(v, c, s)', m)
      BY <3>5, Zenon
    <3>7. \A v \in Workers, s \in Stages : Single(Path(v, c, s)', m)
      BY <3>5, Zenon
    <3> QED BY <3>6, <3>7, Zenon DEF OneCopy, Has, Single
  <2> QED BY <2>6, <2>7
<1> QED BY <1>2, <1>6, <1>8, <1>9, <1>10 DEF RenderInv, EachOneCopy
-----------------------------------------------------------------------------
\* What try_to_get_job leaves behind.
Tried(w) ==
  \/ \E b \in Brokers :
       /\ current_broker' = [current_broker EXCEPT ![w] = b]
       /\ to_broker' = [to_broker EXCEPT ![w][b] = Append(@, GetJobMsg)]
       /\ state' = [state EXCEPT ![w] = "trying_to_get_job"]
  \/ /\ current_broker' = [current_broker EXCEPT ![w] = None]
     /\ state' = [state EXCEPT ![w] = "waiting_for_job"]
     /\ UNCHANGED to_broker

\* try_to_get_job asks a broker that the worker knows of, or waits.
LEMMA TryTried ==
  ASSUME NEW w, NEW known, DOMAIN known \subseteq Brokers, TryToGetJob(w, known)
  PROVE  Tried(w)
BY DEF TryToGetJob, Tried, HighestPriorityBrokers

\* A step of a worker that leaves the brokers' own variables alone.
LEMMA WorkerStepBroker ==
  ASSUME RenderInv, UNCHANGED <<queue, running, accepted, replies, frontend_pub>>,
         to_worker' \in [Workers -> [Brokers -> Seq(JobMsg \cup {NoJobs})]],
         announce' \in [Workers -> Seq(Announcement)]
  PROVE  BrokerInv'
BY QueueUnchangedInv DEF RenderInv, BrokerInv, BrokerTypeOK

\* Asking for a job, however the communicator came to it, with nothing in the
\* worker code and no request that may still be answered.
LEMMA AskInv ==
  ASSUME RenderInv, NEW w \in Workers, Tried(w), BrokerInv',
         to_code[w] = << >>, to_comm[w] \in {<< >>, <<RequestJob>>}, UNCHANGED to_code,
         to_comm' = [to_comm EXCEPT ![w] = << >>],
         DOMAIN brokers_with_jobs' = Workers,
         \A v \in Workers : DOMAIN brokers_with_jobs'[v] \subseteq Brokers,
         timeouts' \in [Workers -> 0 .. MaxTimeouts],
         \A v \in Workers \ {w} : timeouts'[v] = timeouts[v],
         UNCHANGED <<queue, crashes, recalled>>,
         \A v \in Workers \ {w} : to_worker'[v] = to_worker[v],
         \A b \in Brokers : \/ to_worker'[w][b] = to_worker[w][b]
                            \/ to_worker[w][b] # << >> /\ to_worker'[w][b] = Tail(to_worker[w][b]),
         timeouts'[w] = 0 /\ crashes[w] = 0 =>
           \A b \in Brokers :
             /\ to_worker'[w][b] = << >>
             /\ \A i \in 1 .. Len(to_broker[w][b]) : to_broker[w][b][i].type # "GET_JOB"
  PROVE  RenderInv'
<1> DEFINE S == ResultMsg \cup {GetJobMsg}
<1>1. /\ to_broker \in [Workers -> [Brokers -> Seq(S)]]
      /\ state \in [Workers -> States]
      /\ current_broker \in [Workers -> Brokers \cup {None}]
      /\ to_comm \in [Workers -> Seq(ResultMsg \cup {RequestJob})]
  BY DEF RenderInv, MessagesOK, FieldsOK
<1>2. GetJobMsg \in S
  OBVIOUS
<1> HIDE DEF S
<1>3. /\ \A v \in Workers \ {w} : /\ to_broker'[v] = to_broker[v] /\ state'[v] = state[v]
                                  /\ current_broker'[v] = current_broker[v]
      /\ to_broker' \in [Workers -> [Brokers -> Seq(S)]]
  <2>1. CASE \E b \in Brokers :
               /\ current_broker' = [current_broker EXCEPT ![w] = b]
               /\ to_broker' = [to_broker EXCEPT ![w][b] = Append(@, GetJobMsg)]
               /\ state' = [state EXCEPT ![w] = "trying_to_get_job"]
    BY <1>1, <1>2, <2>1
  <2>2. CASE /\ current_broker' = [current_broker EXCEPT ![w] = None]
             /\ state' = [state EXCEPT ![w] = "waiting_for_job"]
             /\ UNCHANGED to_broker
    BY <1>1, <2>2
  <2> QED BY <2>1, <2>2 DEF Tried
<1>4. FieldsOK'
  <2>1. state' \in [Workers -> States] /\ current_broker' \in [Workers -> Brokers \cup {None}]
    <3>1. ASSUME NEW x \in States, state' = [state EXCEPT ![w] = x]
          PROVE  state' \in [Workers -> States]
      BY <1>1, <3>1
    <3>2. ASSUME NEW x \in Brokers \cup {None},
                 current_broker' = [current_broker EXCEPT ![w] = x]
          PROVE  current_broker' \in [Workers -> Brokers \cup {None}]
      BY <1>1, <3>2
    <3> QED BY <3>1, <3>2 DEF Tried, States
  <2> QED BY <2>1 DEF FieldsOK, RenderInv
<1>5. MessagesOK'
  <2>1. to_comm' \in [Workers -> Seq(ResultMsg \cup {RequestJob})]
    BY <1>1
  <2> QED BY <1>3, <2>1 DEF MessagesOK, RenderInv, S
<1>6. /\ to_comm'[w] = << >> /\ to_code'[w] = << >>
      /\ \A v \in Workers \ {w} : to_comm'[v] = to_comm[v] /\ to_code'[v] = to_code[v]
  BY <1>1
<1>7. OthersAlone(w)
  BY <1>3, <1>6 DEF OthersAlone
<1>8. InStep'
  <2>1. \/ state'[w] = "trying_to_get_job" /\ current_broker'[w] \in Brokers
        \/ state'[w] = "waiting_for_job" /\ current_broker'[w] = None
    BY <1>1 DEF Tried
  <2>2. PairInStep(w)'
    BY <1>6, <2>1 DEF PairInStep
  <2> QED BY <1>7, <2>2, OthersInStep DEF RenderInv
<1>9. \A b \in Brokers :
        \/ to_broker'[w][b] = to_broker[w][b]
        \/ /\ to_broker'[w][b] = Append(to_broker[w][b], GetJobMsg)
           /\ state'[w] = "trying_to_get_job" /\ current_broker'[w] = b
  <2>1. ASSUME NEW c \in Brokers,
               /\ current_broker' = [current_broker EXCEPT ![w] = c]
               /\ to_broker' = [to_broker EXCEPT ![w][c] = Append(@, GetJobMsg)]
               /\ state' = [state EXCEPT ![w] = "trying_to_get_job"]
        PROVE  \A b \in Brokers :
                 \/ to_broker'[w][b] = to_broker[w][b]
                 \/ /\ to_broker'[w][b] = Append(to_broker[w][b], GetJobMsg)
                    /\ state'[w] = "trying_to_get_job" /\ current_broker'[w] = b
    BY <1>1, <2>1
  <2> QED BY <2>1 DEF Tried
<1>10. AskedOnce'
  <2>1. ASSUME NEW b \in Brokers PROVE OneRequestOut(w, b)'
    <3> SUFFICES ASSUME timeouts'[w] = 0, crashes[w] = 0 PROVE OneRequestOut(w, b)'
      BY DEF OneRequestOut
    <3> DEFINE s == to_broker[w][b]
               n == to_broker'[w][b]
    <3>1. /\ to_worker'[w][b] = << >> /\ s \in Seq(S)
          /\ \A i \in 1 .. Len(s) : s[i].type # "GET_JOB"
      BY <1>1
    <3>2. n = s \/ (n = Append(s, GetJobMsg) /\ Expected(w, b)')
      BY <1>9 DEF Expected
    <3>3. \A i \in 1 .. Len(n) : n[i].type = "GET_JOB" => i = Len(n) /\ Expected(w, b)'
      <4> HIDE DEF s, n
      <4>1. CASE n = s
        BY <3>1, <4>1
      <4>2. CASE n = Append(s, GetJobMsg) /\ Expected(w, b)'
        <5>1. Len(n) = Len(s) + 1 /\ Len(s) \in Nat /\ \A i \in 1 .. Len(s) : n[i] = s[i]
          BY <3>1, <4>2
        <5>2. \A i \in 1 .. Len(n) : i \in 1 .. Len(s) \/ i = Len(n)
          BY <5>1
        <5> QED BY <3>1, <4>2, <5>1, <5>2
      <4> QED BY <3>2, <4>1, <4>2
    <3> QED BY <3>1, <3>3 DEF OneRequestOut
  <2> QED BY <1>7, <2>1, OthersAskOnce DEF RenderInv
<1>11. EachOneCopy'
  <2>1. ASSUME NEW b \in Brokers, NEW m \in Metatiles, NEW s \in Stages
        PROVE  NoNew(Path(w, b, s), Path(w, b, s)', m)
    <3>1. CASE s = "sent"
      BY <3>1 DEF Path, NoNew
    <3>2. CASE s = "held"
      <4>1. Len(to_code'[w]) = 0
        BY <1>6
      <4>2. [i \in 1 .. Len(to_code'[w]) |-> to_code'[w][i].job] = << >>
        BY <4>1
      <4> QED BY <3>2, <4>2 DEF Path, NoNew
    <3>3. CASE s = "done"
      BY <1>6, <3>3 DEF Path, NoNew
    <3>4. CASE s = "back"
      <4>1. ~Carries(GetJobMsg, m)
        BY DEF Carries, GetJobMsg
      <4>2. \/ Path(w, b, s)' = Path(w, b, s)
            \/ Path(w, b, s)' = Append(Path(w, b, s), GetJobMsg)
        BY <1>9, <3>4 DEF Path
      <4> HIDE DEF Path
      <4> QED BY <4>1, <4>2 DEF NoNew
    <3> QED BY <3>1, <3>2, <3>3, <3>4 DEF Stages
  <2>2. \A b \in Brokers, m \in Metatiles : HandedOut(b, m) => HandedOut(b, m)'
    BY DEF HandedOut
  <2> QED BY <1>7, <2>1, <2>2, QuietStep
<1> QED BY <1>4, <1>5, <1>8, <1>10, <1>11 DEF RenderInv

\* Reading an answer shortens one channel to the worker.
LEMMA ReadFromEffect ==
  ASSUME RenderInv, NEW w \in Workers, NEW b \in Brokers, NEW type, ReadFrom(w, b, type)
  PROVE  /\ to_worker[w][b] # << >> /\ Head(to_worker[w][b]).type = type
         /\ to_worker[w][b] \in Seq(JobMsg \cup {NoJobs})
         /\ to_worker' \in [Workers -> [Brokers -> Seq(JobMsg \cup {NoJobs})]]
         /\ \A v \in Workers \ {w} : to_worker'[v] = to_worker[v]
         /\ to_worker'[w][b] = Tail(to_worker[w][b])
         /\ \A c \in Brokers \ {b} : to_worker'[w][c] = to_worker[w][c]
<1> DEFINE S == JobMsg \cup {NoJobs}
<1>1. to_worker \in [Workers -> [Brokers -> Seq(S)]]
  BY DEF RenderInv, BrokerInv, BrokerTypeOK
<1> HIDE DEF S
<1>2. /\ to_worker[w][b] # << >> /\ Head(to_worker[w][b]).type = type
      /\ to_worker' = [to_worker EXCEPT ![w][b] = Tail(@)]
  BY DEF ReadFrom
<1>3. to_worker[w][b] \in Seq(S) /\ Tail(to_worker[w][b]) \in Seq(S)
  BY <1>1, <1>2
<1>4. to_worker' \in [Workers -> [Brokers -> Seq(S)]]
  BY <1>1, <1>2, <1>3
<1>5. /\ \A v \in Workers \ {w} : to_worker'[v] = to_worker[v]
      /\ to_worker'[w][b] = Tail(to_worker[w][b])
      /\ \A c \in Brokers \ {b} : to_worker'[w][c] = to_worker[w][c]
  BY <1>1, <1>2
<1> QED BY <1>2, <1>3, <1>4, <1>5 DEF S

\* A broker is struck off the list of those with jobs.
LEMMA EraseKnown ==
  ASSUME NEW known, DOMAIN known \subseteq Brokers, NEW b
  PROVE  DOMAIN Erase(known, b) \subseteq Brokers
BY DEF Erase

\* The retry timer gives up on one broker and tries another.
LEMMA RetryTimeoutInv ==
  ASSUME RenderInv, NEW w \in Workers, RetryTimeout(w),
         UNCHANGED <<queue, running, accepted, replies, frontend_pub, recalled>>
  PROVE  RenderInv'
<1> DEFINE known == Erase(brokers_with_jobs[w], current_broker[w])
<1>1. /\ state[w] = "trying_to_get_job"
      /\ timeouts[w] < MaxTimeouts /\ timeouts' = [timeouts EXCEPT ![w] = @ + 1]
      /\ brokers_with_jobs' = [brokers_with_jobs EXCEPT ![w] = known]
      /\ TryToGetJob(w, known)
      /\ UNCHANGED <<to_comm, to_code, to_worker, announce, crashes>>
  BY DEF RetryTimeout, codeVars
<1>2. DOMAIN known \subseteq Brokers
  BY EraseKnown DEF RenderInv, FieldsOK
<1>3. Tried(w)
  BY <1>1, <1>2, TryTried
<1>4. BrokerInv'
  BY <1>1, WorkerStepBroker DEF RenderInv, BrokerInv, BrokerTypeOK
<1>5. to_code[w] = << >> /\ to_comm[w] = << >>
  BY <1>1 DEF RenderInv, InStep, PairInStep
<1>6. to_comm' = [to_comm EXCEPT ![w] = << >>]
  BY <1>1, <1>5 DEF RenderInv, MessagesOK
<1>7. /\ timeouts' \in [Workers -> 0 .. MaxTimeouts] /\ timeouts'[w] # 0
      /\ \A v \in Workers \ {w} : timeouts'[v] = timeouts[v]
  BY <1>1, TimeoutAssumption DEF RenderInv, FieldsOK
<1>8. /\ DOMAIN brokers_with_jobs' = Workers
      /\ \A v \in Workers : DOMAIN brokers_with_jobs'[v] \subseteq Brokers
  <2> HIDE DEF known
  <2> QED BY <1>1, <1>2 DEF RenderInv, FieldsOK
<1> QED BY <1>1, <1>3, <1>4, <1>5, <1>6, <1>7, <1>8, AskInv

\* A step of w that asks nobody for anything and keeps to its own.
LEMMA IdleStepInv ==
  ASSUME RenderInv, NEW w \in Workers, BrokerInv',
         UNCHANGED <<state, current_broker, to_code, to_comm, to_broker, timeouts, crashes,
                     queue, recalled>>,
         DOMAIN brokers_with_jobs' = Workers,
         \A v \in Workers : DOMAIN brokers_with_jobs'[v] \subseteq Brokers,
         \A v \in Workers \ {w} : to_worker'[v] = to_worker[v],
         \A b \in Brokers : \/ to_worker'[w][b] = to_worker[w][b]
                            \/ to_worker[w][b] # << >> /\ to_worker'[w][b] = Tail(to_worker[w][b])
  PROVE  RenderInv'
<1>1. FieldsOK' /\ MessagesOK'
  BY DEF RenderInv, FieldsOK, MessagesOK
<1>2. OthersAlone(w)
  BY DEF OthersAlone
<1>3. InStep'
  BY DEF RenderInv, InStep, PairInStep
<1>4. ASSUME NEW b \in Brokers PROVE OneRequestOut(w, b)'
  <2>1. OneRequestOut(w, b)
    BY DEF RenderInv, AskedOnce
  <2>2. CASE to_worker'[w][b] = to_worker[w][b]
    BY <2>1, <2>2 DEF OneRequestOut, Expected
  <2>3. CASE to_worker[w][b] # << >> /\ to_worker'[w][b] = Tail(to_worker[w][b])
    <3> SUFFICES ASSUME timeouts[w] = 0, crashes[w] = 0 PROVE OneRequestOut(w, b)'
      BY DEF OneRequestOut
    <3> DEFINE s == to_worker[w][b]
               S == JobMsg \cup {NoJobs}
    <3>1. s \in Seq(S) /\ s # << >>
      BY <2>3 DEF RenderInv, BrokerInv, BrokerTypeOK
    <3>2. Len(s) = 1
      BY <2>1, <2>3 DEF OneRequestOut
    <3> HIDE DEF s, S
    <3>3. Tail(s) = << >>
      BY <3>1, <3>2, TailOfOne
    <3>4. to_worker'[w][b] = << >>
      BY <2>3, <3>3 DEF s
    <3> QED BY <2>1, <2>3, <3>4 DEF OneRequestOut
  <2> QED BY <2>2, <2>3
<1>5. AskedOnce'
  BY <1>2, <1>4, OthersAskOnce DEF RenderInv
<1>6. EachOneCopy'
  <2>1. ASSUME NEW b \in Brokers, NEW m \in Metatiles, NEW s \in Stages
        PROVE  NoNew(Path(w, b, s), Path(w, b, s)', m)
    <3>1. CASE s = "sent"
      BY <3>1 DEF Path, NoNew
    <3>2. CASE s # "sent"
      BY <3>2 DEF Path, NoNew, Stages
    <3> QED BY <3>1, <3>2
  <2>2. \A b \in Brokers, m \in Metatiles : HandedOut(b, m) => HandedOut(b, m)'
    BY DEF HandedOut
  <2> QED BY <1>2, <2>1, <2>2, QuietStep
<1> QED BY <1>1, <1>3, <1>5, <1>6 DEF RenderInv

\* A job that is thrown away leaves one copy less.
LEMMA DropUnexpectedJobInv ==
  ASSUME RenderInv, NEW w \in Workers, NEW b \in Brokers, DropUnexpectedJob(w, b),
         UNCHANGED <<queue, running, accepted, replies, frontend_pub, recalled>>
  PROVE  RenderInv'
<1>1. /\ ReadFrom(w, b, "JOB")
      /\ UNCHANGED <<state, current_broker, brokers_with_jobs, to_comm, to_code, to_broker,
                     announce, timeouts, crashes>>
  BY DEF DropUnexpectedJob, commVars, codeVars, faultVars
<1>2. BrokerInv'
  BY <1>1, ReadFromEffect, WorkerStepBroker DEF RenderInv, BrokerInv, BrokerTypeOK
<1>3. /\ \A v \in Workers \ {w} : to_worker'[v] = to_worker[v]
      /\ \A c \in Brokers : \/ to_worker'[w][c] = to_worker[w][c]
                            \/ to_worker[w][c] # << >> /\ to_worker'[w][c] = Tail(to_worker[w][c])
  BY <1>1, ReadFromEffect
<1>4. /\ DOMAIN brokers_with_jobs' = Workers
      /\ \A v \in Workers : DOMAIN brokers_with_jobs'[v] \subseteq Brokers
  BY <1>1 DEF RenderInv, FieldsOK
<1> QED BY <1>1, <1>2, <1>3, <1>4, IdleStepInv

\* A refusal ends the one request that was out.
LEMMA ReceiveNoJobsInv ==
  ASSUME RenderInv, NEW w \in Workers, NEW b \in Brokers, ReceiveNoJobs(w, b),
         UNCHANGED <<queue, running, accepted, replies, frontend_pub, recalled>>
  PROVE  RenderInv'
<1> DEFINE known == Erase(brokers_with_jobs[w], b)
<1>1. /\ ReadFrom(w, b, NO_JOBS)
      /\ brokers_with_jobs' = [brokers_with_jobs EXCEPT ![w] = known]
      /\ UNCHANGED <<to_comm, to_code, announce, timeouts, crashes>>
  BY DEF ReceiveNoJobs, codeVars, faultVars
<1>2. DOMAIN known \subseteq Brokers
  BY EraseKnown DEF RenderInv, FieldsOK
<1>3. BrokerInv'
  BY <1>1, ReadFromEffect, WorkerStepBroker DEF RenderInv, BrokerInv, BrokerTypeOK
<1>4. /\ \A v \in Workers \ {w} : to_worker'[v] = to_worker[v]
      /\ \A c \in Brokers : \/ to_worker'[w][c] = to_worker[w][c]
                            \/ to_worker[w][c] # << >> /\ to_worker'[w][c] = Tail(to_worker[w][c])
  BY <1>1, ReadFromEffect
<1>5. /\ DOMAIN brokers_with_jobs' = Workers
      /\ \A v \in Workers : DOMAIN brokers_with_jobs'[v] \subseteq Brokers
  <2> HIDE DEF known
  <2> QED BY <1>1, <1>2 DEF RenderInv, FieldsOK
<1>6. CASE state[w] = "trying_to_get_job"
  <2>1. Tried(w)
    BY <1>2, <1>6, TryTried DEF ReceiveNoJobs
  <2>2. to_code[w] = << >> /\ to_comm[w] = << >>
    BY <1>6 DEF RenderInv, InStep, PairInStep
  <2>3. to_comm' = [to_comm EXCEPT ![w] = << >>]
    BY <1>1, <2>2 DEF RenderInv, MessagesOK
  <2>4. ASSUME timeouts[w] = 0, crashes[w] = 0, NEW c \in Brokers
        PROVE  /\ to_worker'[w][c] = << >>
               /\ \A i \in 1 .. Len(to_broker[w][c]) : to_broker[w][c][i].type # "GET_JOB"
    <3>1. OneRequestOut(w, c) /\ OneRequestOut(w, b)
      BY DEF RenderInv, AskedOnce
    <3>2. to_worker[w][b] # << >> /\ Len(to_worker[w][b]) = 1 /\ Expected(w, b)
      BY <1>1, <2>4, <3>1, ReadFromEffect DEF OneRequestOut
    <3>3. CASE c = b
      <4>1. Tail(to_worker[w][b]) = << >>
        BY <1>1, <3>2, ReadFromEffect, TailOfOne
      <4> QED BY <1>1, <2>4, <3>1, <3>2, <3>3, <4>1, ReadFromEffect DEF OneRequestOut
    <3>4. CASE c # b
      <4>1. ~Expected(w, c)
        BY <3>2, <3>4 DEF Expected
      <4> QED BY <1>1, <2>4, <3>1, <3>4, <4>1, ReadFromEffect DEF OneRequestOut
    <3> QED BY <3>3, <3>4
  <2>5. timeouts' \in [Workers -> 0 .. MaxTimeouts]
    BY <1>1 DEF RenderInv, FieldsOK
  <2> QED BY <1>1, <1>3, <1>4, <1>5, <2>1, <2>2, <2>3, <2>4, <2>5, AskInv
<1>7. CASE state[w] # "trying_to_get_job"
  <2>1. UNCHANGED <<state, current_broker, to_broker>>
    BY <1>7 DEF ReceiveNoJobs
  <2> QED BY <1>1, <1>3, <1>4, <1>5, <2>1, IdleStepInv
<1> QED BY <1>6, <1>7

\* An announcement makes only a waiting worker ask.
LEMMA HearAnnouncementInv ==
  ASSUME RenderInv, NEW w \in Workers, HearAnnouncement(w),
         UNCHANGED <<queue, running, accepted, replies, frontend_pub, recalled>>
  PROVE  RenderInv'
<1> DEFINE a == Head(announce[w])
           known == [b \in DOMAIN brokers_with_jobs[w] \cup {a.broker} |->
                       IF b = a.broker THEN [priority |-> a.priority, qsize |-> a.qsize]
                       ELSE brokers_with_jobs[w][b]]
<1>1. /\ announce[w] # << >>
      /\ announce' = [announce EXCEPT ![w] = Tail(@)]
      /\ brokers_with_jobs' = [brokers_with_jobs EXCEPT ![w] = known]
      /\ IF state[w] = "waiting_for_job" THEN TryToGetJob(w, known)
         ELSE UNCHANGED <<state, current_broker, to_broker>>
      /\ UNCHANGED <<to_comm, to_code, to_worker, timeouts, crashes>>
  BY DEF HearAnnouncement, codeVars, faultVars
<1>2. /\ announce \in [Workers -> Seq(Announcement)]
      /\ announce' \in [Workers -> Seq(Announcement)]
  <2>1. announce \in [Workers -> Seq(Announcement)]
    BY DEF RenderInv, BrokerInv, BrokerTypeOK
  <2>2. Tail(announce[w]) \in Seq(Announcement)
    BY <1>1, <2>1
  <2> QED BY <1>1, <2>1, <2>2
<1>3. DOMAIN known \subseteq Brokers
  <2>1. a \in Announcement
    BY <1>1, <1>2
  <2>2. a.broker \in Brokers
    BY <2>1 DEF Announcement
  <2> QED BY <2>2 DEF RenderInv, FieldsOK
<1>4. BrokerInv'
  BY <1>1, <1>2, WorkerStepBroker DEF RenderInv, BrokerInv, BrokerTypeOK
<1>5. /\ DOMAIN brokers_with_jobs' = Workers
      /\ \A v \in Workers : DOMAIN brokers_with_jobs'[v] \subseteq Brokers
  <2> HIDE DEF known
  <2> QED BY <1>1, <1>3 DEF RenderInv, FieldsOK
<1>6. CASE state[w] = "waiting_for_job"
  <2>1. Tried(w)
    BY <1>1, <1>3, <1>6, TryTried
  <2>2. to_code[w] = << >> /\ to_comm[w] = << >>
    BY <1>6 DEF RenderInv, InStep, PairInStep
  <2>3. to_comm' = [to_comm EXCEPT ![w] = << >>]
    BY <1>1, <2>2 DEF RenderInv, MessagesOK
  <2>4. ASSUME timeouts[w] = 0, crashes[w] = 0, NEW c \in Brokers
        PROVE  /\ to_worker'[w][c] = << >>
               /\ \A i \in 1 .. Len(to_broker[w][c]) : to_broker[w][c][i].type # "GET_JOB"
    <3>1. OneRequestOut(w, c) /\ ~Expected(w, c)
      BY <1>6 DEF RenderInv, AskedOnce, Expected
    <3> QED BY <1>1, <2>4, <3>1 DEF OneRequestOut
  <2>5. timeouts' \in [Workers -> 0 .. MaxTimeouts]
    BY <1>1 DEF RenderInv, FieldsOK
  <2> QED BY <1>1, <1>4, <1>5, <2>1, <2>2, <2>3, <2>4, <2>5, AskInv
<1>7. CASE state[w] # "waiting_for_job"
  BY <1>1, <1>4, <1>5, <1>7, IdleStepInv
<1> QED BY <1>6, <1>7

\* The worker code asks for a job only when its communicator is idle.
LEMMA InprocRequestInv ==
  ASSUME RenderInv, NEW w \in Workers, InprocRequest(w),
         UNCHANGED <<queue, running, accepted, replies, frontend_pub, recalled>>
  PROVE  RenderInv'
<1>1. /\ to_comm[w] # << >> /\ Head(to_comm[w]).type = "request"
      /\ to_comm' = [to_comm EXCEPT ![w] = Tail(@)]
      /\ UNCHANGED <<brokers_with_jobs, to_code, to_worker, announce, timeouts, crashes>>
  BY DEF InprocRequest, ReadInproc, faultVars
<1>2. state[w] = "idle" /\ to_code[w] = << >> /\ to_comm[w] = <<RequestJob>>
  <2>1. PairInStep(w)
    BY DEF RenderInv, InStep
  <2>2. ~(Len(to_comm[w]) = 2 /\ to_comm[w][1].type = "RESULT")
    BY <1>1 DEF RenderInv, MessagesOK
  <2> QED BY <1>1, <2>1, <2>2 DEF PairInStep
<1>3. DOMAIN brokers_with_jobs[w] \subseteq Brokers
  BY DEF RenderInv, FieldsOK
<1>4. Tried(w)
  BY <1>2, <1>3, TryTried DEF InprocRequest
<1>5. to_comm' = [to_comm EXCEPT ![w] = << >>]
  <2>1. Tail(<<RequestJob>>) = << >>
    OBVIOUS
  <2> QED BY <1>1, <1>2, <2>1
<1>6. BrokerInv'
  BY <1>1, WorkerStepBroker DEF RenderInv, BrokerInv, BrokerTypeOK
<1>7. ASSUME timeouts[w] = 0, crashes[w] = 0, NEW c \in Brokers
      PROVE  /\ to_worker'[w][c] = << >>
             /\ \A i \in 1 .. Len(to_broker[w][c]) : to_broker[w][c][i].type # "GET_JOB"
  <2>1. OneRequestOut(w, c) /\ ~Expected(w, c)
    BY <1>2 DEF RenderInv, AskedOnce, Expected
  <2> QED BY <1>1, <1>7, <2>1 DEF OneRequestOut
<1>8. /\ timeouts' \in [Workers -> 0 .. MaxTimeouts]
      /\ DOMAIN brokers_with_jobs' = Workers
      /\ \A v \in Workers : DOMAIN brokers_with_jobs'[v] \subseteq Brokers
  BY <1>1 DEF RenderInv, FieldsOK
<1> QED BY <1>1, <1>2, <1>4, <1>5, <1>6, <1>7, <1>8, AskInv
-----------------------------------------------------------------------------
\* An accepted job moves from the channel into the worker code.
LEMMA AcceptJobInv ==
  ASSUME RenderInv, NEW w \in Workers, NEW b \in Brokers, AcceptJob(w, b),
         UNCHANGED <<queue, running, accepted, replies, frontend_pub, recalled>>
  PROVE  RenderInv'
<1> DEFINE job == Head(to_worker[w][b])
           entry == [job |-> job, from |-> b]
<1>1. /\ ReadFrom(w, b, "JOB")
      /\ state[w] = "trying_to_get_job" /\ current_broker[w] = b
      /\ to_code' = [to_code EXCEPT ![w] = Append(@, entry)]
      /\ current_broker' = [current_broker EXCEPT ![w] = b]
      /\ state' = [state EXCEPT ![w] = "job_processing"]
      /\ UNCHANGED <<brokers_with_jobs, to_comm, to_broker, announce, timeouts, crashes>>
  BY DEF AcceptJob, Expected, faultVars
<1>2. /\ to_worker[w][b] # << >> /\ job.type = "JOB"
      /\ to_worker[w][b] \in Seq(JobMsg \cup {NoJobs})
      /\ to_worker' \in [Workers -> [Brokers -> Seq(JobMsg \cup {NoJobs})]]
      /\ \A v \in Workers \ {w} : to_worker'[v] = to_worker[v]
      /\ to_worker'[w][b] = Tail(to_worker[w][b])
      /\ \A c \in Brokers \ {b} : to_worker'[w][c] = to_worker[w][c]
  BY <1>1, ReadFromEffect
<1>3. job \in JobMsg
  <2> DEFINE S == JobMsg \cup {NoJobs}
  <2> HIDE DEF S
  <2>1. job \in S
    BY <1>2 DEF S
  <2> QED BY <1>2, <2>1, JobIsNotRefusal DEF S, NoJobs
<1>4. BrokerInv'
  BY <1>1, <1>2, WorkerStepBroker DEF RenderInv, BrokerInv, BrokerTypeOK
<1>5. to_code[w] = << >> /\ to_comm[w] = << >>
  BY <1>1 DEF RenderInv, InStep, PairInStep
<1>6. UNCHANGED current_broker
  BY <1>1 DEF RenderInv, FieldsOK
<1>7. /\ to_code'[w] = Append(<< >>, entry) /\ state'[w] = "job_processing"
      /\ \A v \in Workers \ {w} : to_code'[v] = to_code[v] /\ state'[v] = state[v]
      /\ to_code' \in [Workers -> Seq([job : JobMsg, from : Brokers])]
      /\ state' \in [Workers -> States]
  <2> DEFINE S == [job : JobMsg, from : Brokers]
  <2>1. entry \in S
    BY <1>3
  <2>2. to_code \in [Workers -> Seq(S)] /\ state \in [Workers -> States]
    BY DEF RenderInv, MessagesOK, FieldsOK
  <2> HIDE DEF S, entry
  <2>3. to_code' \in [Workers -> Seq(S)]
    BY <1>1, <2>1, <2>2
  <2>4. state' \in [Workers -> States]
    BY <1>1, <2>2 DEF States
  <2>5. /\ to_code'[w] = Append(<< >>, entry) /\ state'[w] = "job_processing"
        /\ \A v \in Workers \ {w} : to_code'[v] = to_code[v] /\ state'[v] = state[v]
    BY <1>1, <1>5, <2>2
  <2> QED BY <2>3, <2>4, <2>5 DEF S
<1>8. FieldsOK' /\ MessagesOK'
  BY <1>1, <1>6, <1>7 DEF RenderInv, FieldsOK, MessagesOK
<1>9. OthersAlone(w)
  BY <1>1, <1>2, <1>6, <1>7 DEF OthersAlone
<1>10. Len(to_code'[w]) = 1 /\ to_code'[w][1] = entry
  BY <1>7
<1>11. InStep'
  <2>1. PairInStep(w)'
    BY <1>1, <1>5, <1>6, <1>7, <1>10 DEF PairInStep
  <2> QED BY <1>9, <2>1, OthersInStep DEF RenderInv
<1>12. AskedOnce'
  <2>1. ASSUME NEW c \in Brokers PROVE OneRequestOut(w, c)'
    <3> SUFFICES ASSUME timeouts[w] = 0, crashes[w] = 0 PROVE OneRequestOut(w, c)'
      BY <1>1 DEF OneRequestOut
    <3>1. OneRequestOut(w, c) /\ OneRequestOut(w, b)
      BY DEF RenderInv, AskedOnce
    <3>2. CASE c = b
      <4>1. Len(to_worker[w][b]) = 1
        BY <1>2, <3>1 DEF OneRequestOut
      <4>2. to_worker'[w][b] = << >>
        BY <1>2, <4>1, TailOfOne
      <4> QED BY <1>1, <1>2, <3>1, <3>2, <4>2 DEF OneRequestOut
    <3>3. CASE c # b
      <4>1. ~Expected(w, c)
        BY <1>1, <3>3 DEF Expected
      <4> QED BY <1>1, <1>2, <3>1, <3>3, <4>1 DEF OneRequestOut
    <3> QED BY <3>2, <3>3
  <2> QED BY <1>9, <2>1, OthersAskOnce DEF RenderInv
<1>13. ASSUME NEW c \in Brokers, NEW m \in Metatiles, <<c, m>> \notin recalled'
       PROVE  OneCopy(c, m)'
  <2>1. BrokerTypeOK /\ MessagesOK /\ OneCopy(c, m)
    BY <1>13 DEF RenderInv, BrokerInv, EachOneCopy
  <2>2. \A v \in Workers, s \in Stages : v # w => Path(v, c, s)' = Path(v, c, s)
    BY <1>9, OthersKeepCopies
  <2>3. Path(w, c, "done")' = Path(w, c, "done") /\ Path(w, c, "back")' = Path(w, c, "back")
    BY <1>1, <1>6 DEF Path
  <2>4. HandedOut(c, m) => HandedOut(c, m)'
    BY DEF HandedOut
  <2>5. NoNew(Path(w, c, "sent"), Path(w, c, "sent")', m)
    <3>1. CASE c = b
      BY <1>2, <3>1 DEF Path, NoNew
    <3>2. CASE c # b
      BY <1>2, <3>2 DEF Path, NoNew
    <3> QED BY <3>1, <3>2
  <2>6. CASE c # b
    <3>1. Path(w, c, "held")' = << >>
      BY <1>1, <1>6, <2>6 DEF Path
    <3>2. \A v \in Workers, s \in Stages : NoNew(Path(v, c, s), Path(v, c, s)', m)
      BY <2>2, <2>3, <2>5, <3>1 DEF NoNew, Stages
    <3> QED BY <2>1, <2>4, <3>2, CopyStays
  <2>7. CASE c = b
    <3> DEFINE n == Path(w, c, "held")'
    <3>1. n = [i \in 1 .. Len(to_code'[w]) |-> to_code'[w][i].job]
      BY <1>1, <1>6, <2>7 DEF Path
    <3>2. n \in [1 .. 1 -> {job}]
      <4> HIDE DEF n, job
      <4> QED BY <1>10, <3>1 DEF entry
    <3> HIDE DEF n
    <3>3. Len(n) = 1 /\ n[1] = job
      BY <3>2
    <3>4. Single(n, m) /\ (Has(n, m) <=> Carries(job, m))
      <4> HIDE DEF job
      <4> QED BY <3>3 DEF Has, Single
    <3>5. CASE ~Carries(job, m)
      <4>1. NoNew(Path(w, c, "held"), n, m)
        BY <3>4, <3>5 DEF NoNew
      <4>2. \A v \in Workers, s \in Stages : NoNew(Path(v, c, s), Path(v, c, s)', m)
        BY <2>2, <2>3, <2>5, <4>1 DEF NoNew, Stages, n
      <4> QED BY <2>1, <2>4, <4>2, CopyStays
    <3>6. CASE Carries(job, m)
      <4>1. Path(w, c, "sent") = to_worker[w][b] /\ Path(w, c, "sent")' = Tail(to_worker[w][b])
        BY <1>2, <2>7 DEF Path
      <4>2. Path(w, c, "sent") \in Seq(Channel) /\ Single(Path(w, c, "sent"), m)
        BY <2>1, PathType DEF OneCopy, Stages
      <4>3. Has(Path(w, c, "sent"), m) /\ ~Has(Path(w, c, "sent")', m)
        BY <1>2, <3>6, <4>1, <4>2, TailKeeps
      <4>4. \A v \in Workers, s \in Stages :
              <<v, s>> # <<w, "held">> => NoNew(Path(v, c, s), Path(v, c, s)', m)
        BY <2>2, <2>3, <2>5 DEF NoNew, Stages
      <4>5. "sent" \in Stages /\ "held" \in Stages
        BY DEF Stages
      <4> QED BY <2>1, <2>4, <3>4, <4>3, <4>4, <4>5, CopyMoves DEF n
    <3> QED BY <3>5, <3>6
  <2> QED BY <2>6, <2>7
<1> QED BY <1>4, <1>8, <1>11, <1>12, <1>13 DEF RenderInv, EachOneCopy

\* A job comes back as a result for the same metatile.
LEMMA ResultOfType ==
  ASSUME NEW job \in JobMsg, NEW o \in Outcomes
  PROVE  ResultOf(job, o) \in ResultMsg /\ ResultOf(job, o).x = job.x
<1> DEFINE F == Formats \cup StyleFormats
           st == CASE o \in {"ignored", "exists"} -> "cmdIgnore"
                   [] o = "rendered" -> "cmdDone"
                   [] o = "failed"   -> "cmdRender"
           dt == CASE o = "exists"   -> job.format
                   [] o = "rendered" -> StyleFormats
                   [] OTHER          -> {}
<1>1. o \in {"ignored", "exists", "rendered", "failed"}
  BY OutcomeAssumption
<1>2. st \in ResultCmd
  BY <1>1 DEF ResultCmd
<1>3. dt \in SUBSET F
  BY <1>1 DEF JobMsg
<1>4. job.x \in Metatiles
  BY DEF JobMsg
<1>5. ResultOf(job, o) = [type |-> "RESULT", x |-> job.x, status |-> st, data |-> dt]
  BY Zenon DEF ResultOf
<1> HIDE DEF st, dt, F
<1>6. [type |-> "RESULT", x |-> job.x, status |-> st, data |-> dt]
        \in [type : {"RESULT"}, x : Metatiles, status : ResultCmd, data : SUBSET F]
  BY <1>2, <1>3, <1>4
<1> QED BY <1>5, <1>6 DEF ResultMsg, F

\* The worker code's result takes the place of its job.
LEMMA WorkOnJobInv ==
  ASSUME RenderInv, NEW w \in Workers, NEW o \in Outcomes, WorkOnJob(w, o),
         UNCHANGED <<queue, running, accepted, replies, frontend_pub, recalled>>
  PROVE  RenderInv'
<1> DEFINE job == Head(to_code[w]).job
           res == ResultOf(job, o)
           b == current_broker[w]
           E == [job : JobMsg, from : Brokers]
<1>1. /\ to_code[w] # << >>
      /\ to_comm' = [to_comm EXCEPT ![w] = @ \o <<res, RequestJob>>]
      /\ to_code' = [to_code EXCEPT ![w] = Tail(@)]
      /\ UNCHANGED <<state, current_broker, brokers_with_jobs, to_broker, to_worker, announce,
                     timeouts, crashes>>
  BY DEF WorkOnJob, commVars, netVars, faultVars
<1>2. /\ state[w] = "job_processing" /\ b \in Brokers
      /\ Len(to_code[w]) = 1 /\ to_comm[w] = << >>
  BY <1>1 DEF RenderInv, InStep, PairInStep
<1>3. to_code \in [Workers -> Seq(E)] /\ to_comm \in [Workers -> Seq(ResultMsg \cup {RequestJob})]
  BY DEF RenderInv, MessagesOK
<1>4. job \in JobMsg /\ to_code[w][1].job = job
  <2>1. Head(to_code[w]) \in E /\ Head(to_code[w]) = to_code[w][1]
    <3> HIDE DEF E
    <3> QED BY <1>1, <1>3
  <2> QED BY <2>1
<1>5. res \in ResultMsg /\ res.x = job.x
  <2> HIDE DEF job
  <2> QED BY <1>4, ResultOfType
<1> HIDE DEF E, job, res
<1>6. /\ to_code'[w] = << >> /\ to_code' \in [Workers -> Seq(E)]
      /\ \A v \in Workers \ {w} : to_code'[v] = to_code[v]
  <2>1. Tail(to_code[w]) = << >>
    BY <1>2, <1>3, TailOfOne
  <2> QED BY <1>1, <1>3, <2>1
<1>7. /\ to_comm'[w] = <<res, RequestJob>>
      /\ to_comm' \in [Workers -> Seq(ResultMsg \cup {RequestJob})]
      /\ \A v \in Workers \ {w} : to_comm'[v] = to_comm[v]
  <2> DEFINE M == ResultMsg \cup {RequestJob}
  <2>1. res \in M /\ RequestJob \in M
    BY <1>5
  <2>2. to_comm \in [Workers -> Seq(M)]
    BY <1>3
  <2> HIDE DEF M
  <2>3. <<res, RequestJob>> \in Seq(M)
    BY <2>1
  <2>4. << >> \o <<res, RequestJob>> = <<res, RequestJob>>
    OBVIOUS
  <2>5. to_comm' = [to_comm EXCEPT ![w] = <<res, RequestJob>>]
    BY <1>1, <1>2, <2>4
  <2> QED BY <2>2, <2>3, <2>5 DEF M
<1>8. FieldsOK' /\ MessagesOK'
  BY <1>1, <1>6, <1>7 DEF RenderInv, FieldsOK, MessagesOK, E
<1>9. BrokerInv'
  BY <1>1, WorkerStepBroker DEF RenderInv, BrokerInv, BrokerTypeOK
<1>10. OthersAlone(w)
  BY <1>1, <1>6, <1>7 DEF OthersAlone
<1>11. InStep'
  <2>1. Len(to_comm'[w]) = 2 /\ to_comm'[w][1] = res /\ to_comm'[w][2] = RequestJob
    BY <1>7
  <2>2. res.type = "RESULT"
    BY <1>5 DEF ResultMsg
  <2>3. PairInStep(w)'
    BY <1>1, <1>2, <1>6, <2>1, <2>2 DEF PairInStep
  <2> QED BY <1>10, <2>3, OthersInStep DEF RenderInv
<1>12. AskedOnce'
  BY <1>1 DEF RenderInv, AskedOnce, OneRequestOut, Expected
<1>13. ASSUME NEW c \in Brokers, NEW m \in Metatiles, <<c, m>> \notin recalled'
       PROVE  OneCopy(c, m)'
  <2>1. BrokerTypeOK /\ MessagesOK /\ OneCopy(c, m)
    BY <1>13 DEF RenderInv, BrokerInv, EachOneCopy
  <2>2. \A v \in Workers, s \in Stages : v # w => Path(v, c, s)' = Path(v, c, s)
    BY <1>10, OthersKeepCopies
  <2>3. Path(w, c, "sent")' = Path(w, c, "sent") /\ Path(w, c, "back")' = Path(w, c, "back")
    BY <1>1 DEF Path
  <2>4. HandedOut(c, m) => HandedOut(c, m)'
    BY DEF HandedOut
  <2>5. Path(w, c, "held")' = << >>
    <3>1. Len(to_code'[w]) = 0
      BY <1>6
    <3>2. [i \in 1 .. Len(to_code'[w]) |-> to_code'[w][i].job] = << >>
      BY <3>1
    <3> QED BY <3>2 DEF Path
  <2>6. NoNew(Path(w, c, "held"), Path(w, c, "held")', m)
    BY <2>5 DEF NoNew
  <2> DEFINE n == Path(w, c, "done")'
  <2>7. CASE c # b
    <3>1. n = << >>
      BY <1>1, <2>7 DEF Path
    <3>2. \A v \in Workers, s \in Stages : NoNew(Path(v, c, s), Path(v, c, s)', m)
      BY <2>2, <2>3, <2>6, <3>1 DEF NoNew, Stages
    <3> QED BY <2>1, <2>4, <3>2, CopyStays
  <2>8. CASE c = b
    <3>1. n = <<res, RequestJob>>
      BY <1>1, <1>7, <2>8 DEF Path
    <3>2. Len(n) = 2 /\ n[1] = res /\ n[2] = RequestJob
      <4> HIDE DEF n
      <4> QED BY <3>1
    <3>3. ~Carries(RequestJob, m)
      BY DEF Carries, RequestJob
    <3> HIDE DEF n
    <3>4. Single(n, m) /\ (Has(n, m) <=> Carries(res, m))
      <4>1. \A i \in 1 .. Len(n) : i = 1 \/ i = 2
        BY <3>2
      <4>2. 1 \in 1 .. Len(n)
        BY <3>2
      <4> QED BY <3>2, <3>3, <4>1, <4>2 DEF Has, Single
    <3>5. CASE ~Carries(res, m)
      <4>1. NoNew(Path(w, c, "done"), n, m)
        BY <3>4, <3>5 DEF NoNew
      <4>2. \A v \in Workers, s \in Stages : NoNew(Path(v, c, s), Path(v, c, s)', m)
        BY <2>2, <2>3, <2>6, <4>1 DEF NoNew, Stages, n
      <4> QED BY <2>1, <2>4, <4>2, CopyStays
    <3>6. CASE Carries(res, m)
      <4>1. Carries(job, m)
        BY <1>4, <1>5, <3>6 DEF Carries, JobMsg
      <4>2. Has(Path(w, c, "held"), m)
        <5> DEFINE h == Path(w, c, "held")
        <5>1. h = [i \in 1 .. Len(to_code[w]) |-> to_code[w][i].job]
          BY <2>8 DEF Path
        <5> HIDE DEF h
        <5>2. h \in [1 .. 1 -> {job}]
          BY <1>2, <1>4, <5>1
        <5>3. Len(h) = 1 /\ h[1] = job
          BY <5>2
        <5> QED BY <4>1, <5>3 DEF Has, h
      <4>3. ~Has(Path(w, c, "held")', m)
        BY <2>5, EmptyCarriesNothing
      <4>4. \A v \in Workers, s \in Stages :
              <<v, s>> # <<w, "done">> => NoNew(Path(v, c, s), Path(v, c, s)', m)
        BY <2>2, <2>3, <2>6 DEF NoNew, Stages
      <4>5. "held" \in Stages /\ "done" \in Stages
        BY DEF Stages
      <4> QED BY <2>1, <2>4, <3>4, <4>2, <4>3, <4>4, <4>5, CopyMoves DEF n
    <3> QED BY <3>5, <3>6
  <2> QED BY <2>7, <2>8
<1> QED BY <1>8, <1>9, <1>11, <1>12, <1>13 DEF RenderInv, EachOneCopy

\* The communicator sends the result to the broker that the job is from.
LEMMA InprocResultInv ==
  ASSUME RenderInv, NEW w \in Workers, InprocResult(w),
         UNCHANGED <<queue, running, accepted, replies, frontend_pub, recalled>>
  PROVE  RenderInv'
<1> DEFINE res == Head(to_comm[w])
           b == current_broker[w]
           M == ResultMsg \cup {RequestJob}
           S == ResultMsg \cup {GetJobMsg}
<1>1. /\ to_comm[w] # << >> /\ res.type = "RESULT"
      /\ to_comm' = [to_comm EXCEPT ![w] = Tail(@)]
      /\ UNCHANGED <<brokers_with_jobs, to_code, to_worker, announce, timeouts, crashes>>
  BY DEF InprocResult, ReadInproc, faultVars
<1>2. /\ to_comm \in [Workers -> Seq(M)] /\ to_broker \in [Workers -> [Brokers -> Seq(S)]]
      /\ state \in [Workers -> States] /\ current_broker \in [Workers -> Brokers \cup {None}]
  BY DEF RenderInv, MessagesOK, FieldsOK
<1>3. res \in ResultMsg /\ to_comm[w][1] = res
  <2>1. res \in M /\ res = to_comm[w][1]
    <3> HIDE DEF M
    <3> QED BY <1>1, <1>2
  <2> QED BY <1>1, <2>1 DEF RequestJob
<1>4. /\ state[w] = "job_processing" /\ b \in Brokers /\ b # None /\ to_code[w] = << >>
      /\ Len(to_comm[w]) = 2 /\ to_comm[w][2] = RequestJob
  <2>1. PairInStep(w)
    BY DEF RenderInv, InStep
  <2>2. to_comm[w] # <<RequestJob>>
    <3>1. <<RequestJob>>[1] = RequestJob
      OBVIOUS
    <3> QED BY <1>1, <1>3, <3>1 DEF RequestJob
  <2> QED BY <1>1, <2>1, <2>2, NoneAssumption DEF PairInStep
<1>5. /\ to_broker' = [to_broker EXCEPT ![w][b] = Append(@, res)]
      /\ current_broker' = [current_broker EXCEPT ![w] = None]
      /\ state' = [state EXCEPT ![w] = "idle"]
  BY <1>4 DEF InprocResult
<1> HIDE DEF res, b, M, S
<1>6. /\ to_comm'[w] = <<RequestJob>> /\ to_comm' \in [Workers -> Seq(M)]
      /\ \A v \in Workers \ {w} : to_comm'[v] = to_comm[v]
  <2>1. to_comm[w] \in Seq(M)
    BY <1>2
  <2>2. Tail(to_comm[w]) = <<RequestJob>> /\ Tail(to_comm[w]) \in Seq(M)
    BY <1>4, <2>1, TailOfTwo
  <2> QED BY <1>1, <1>2, <2>2
<1>7. /\ to_broker' \in [Workers -> [Brokers -> Seq(S)]]
      /\ to_broker'[w][b] = Append(to_broker[w][b], res)
      /\ \A c \in Brokers \ {b} : to_broker'[w][c] = to_broker[w][c]
      /\ \A v \in Workers \ {w} : to_broker'[v] = to_broker[v]
  <2>1. res \in S
    BY <1>3 DEF S
  <2>2. Append(to_broker[w][b], res) \in Seq(S)
    BY <1>2, <1>4, <2>1
  <2> QED BY <1>2, <1>4, <1>5, <2>2
<1>8. /\ state' \in [Workers -> States] /\ current_broker' \in [Workers -> Brokers \cup {None}]
      /\ state'[w] = "idle" /\ current_broker'[w] = None
      /\ \A v \in Workers \ {w} : state'[v] = state[v] /\ current_broker'[v] = current_broker[v]
  BY <1>2, <1>5 DEF States
<1>9. FieldsOK' /\ MessagesOK'
  BY <1>1, <1>6, <1>7, <1>8 DEF RenderInv, FieldsOK, MessagesOK, M, S
<1>10. BrokerInv'
  BY <1>1, WorkerStepBroker DEF RenderInv, BrokerInv, BrokerTypeOK
<1>11. OthersAlone(w)
  BY <1>1, <1>6, <1>7, <1>8 DEF OthersAlone
<1>12. InStep'
  <2>1. PairInStep(w)'
    BY <1>1, <1>4, <1>6, <1>8 DEF PairInStep
  <2> QED BY <1>11, <2>1, OthersInStep DEF RenderInv
<1>13. AskedOnce'
  <2>1. ASSUME NEW c \in Brokers PROVE OneRequestOut(w, c)'
    <3> SUFFICES ASSUME timeouts[w] = 0, crashes[w] = 0 PROVE OneRequestOut(w, c)'
      BY <1>1 DEF OneRequestOut
    <3> DEFINE s == to_broker[w][c]
               n == to_broker'[w][c]
    <3>1. OneRequestOut(w, c) /\ ~Expected(w, c)
      BY <1>4 DEF RenderInv, AskedOnce, Expected
    <3>2. to_worker'[w][c] = << >> /\ \A i \in 1 .. Len(s) : s[i].type # "GET_JOB"
      BY <1>1, <3>1 DEF OneRequestOut
    <3>3. s \in Seq(S) /\ (n = s \/ n = Append(s, res))
      BY <1>2, <1>7
    <3> HIDE DEF s, n
    <3>4. \A i \in 1 .. Len(n) : n[i].type # "GET_JOB"
      <4>1. CASE n = s
        BY <3>2, <4>1
      <4>2. CASE n = Append(s, res)
        <5>1. /\ Len(n) = Len(s) + 1 /\ Len(s) \in Nat /\ \A i \in 1 .. Len(s) : n[i] = s[i]
              /\ n[Len(s) + 1] = res
          BY <3>3, <4>2
        <5>2. \A i \in 1 .. Len(n) : i \in 1 .. Len(s) \/ i = Len(s) + 1
          BY <5>1
        <5>3. res.type # "GET_JOB"
          BY <1>3 DEF ResultMsg
        <5> QED BY <3>2, <5>1, <5>2, <5>3
      <4> QED BY <3>3, <4>1, <4>2
    <3> QED BY <3>2, <3>4 DEF OneRequestOut, n
  <2> QED BY <1>11, <2>1, OthersAskOnce DEF RenderInv
<1>14. ASSUME NEW c \in Brokers, NEW m \in Metatiles, <<c, m>> \notin recalled'
       PROVE  OneCopy(c, m)'
  <2>1. BrokerTypeOK /\ MessagesOK /\ OneCopy(c, m)
    BY <1>14 DEF RenderInv, BrokerInv, EachOneCopy
  <2>2. \A v \in Workers, s \in Stages : v # w => Path(v, c, s)' = Path(v, c, s)
    BY <1>11, OthersKeepCopies
  <2>3. Path(w, c, "sent")' = Path(w, c, "sent")
    BY <1>1 DEF Path
  <2>4. Path(w, c, "held")' = << >> /\ Path(w, c, "done")' = << >>
    BY <1>8, NoneAssumption DEF Path
  <2>5. HandedOut(c, m) => HandedOut(c, m)'
    BY DEF HandedOut
  <2>6. CASE c # b \/ ~Carries(res, m)
    <3>1. NoNew(Path(w, c, "back"), Path(w, c, "back")', m)
      <4>1. CASE c # b
        BY <1>7, <4>1 DEF Path, NoNew
      <4>2. CASE c = b /\ ~Carries(res, m)
        BY <1>7, <4>2 DEF Path, NoNew
      <4> QED BY <2>6, <4>1, <4>2
    <3>2. \A v \in Workers, s \in Stages : NoNew(Path(v, c, s), Path(v, c, s)', m)
      BY <2>2, <2>3, <2>4, <3>1 DEF NoNew, Stages
    <3> QED BY <2>1, <2>5, <3>2, CopyStays
  <2>7. CASE c = b /\ Carries(res, m)
    <3>1. Path(w, c, "done") = to_comm[w]
      BY <2>7 DEF Path, b
    <3>2. Has(Path(w, c, "done"), m)
      BY <1>3, <1>4, <2>7, <3>1 DEF Has
    <3>3. ~Has(Path(w, c, "done")', m)
      BY <2>4, EmptyCarriesNothing
    <3>4. /\ Path(w, c, "back") \in Seq(Channel) /\ Single(Path(w, c, "back"), m)
          /\ ~Has(Path(w, c, "back"), m)
      <4>1. "back" \in Stages /\ "done" \in Stages /\ "back" # "done"
        BY DEF Stages
      <4> QED BY <2>1, <3>2, <4>1, PathType DEF OneCopy
    <3>5. Path(w, c, "back")' = Append(Path(w, c, "back"), res)
      BY <1>7, <2>7 DEF Path
    <3>6. Single(Path(w, c, "back")', m)
      BY <3>4, <3>5, AppendAdds
    <3>7. \A v \in Workers, s \in Stages :
            <<v, s>> # <<w, "back">> => NoNew(Path(v, c, s), Path(v, c, s)', m)
      BY <2>2, <2>3, <2>4 DEF NoNew, Stages
    <3>8. "back" \in Stages /\ "done" \in Stages
      BY DEF Stages
    <3> QED BY <2>1, <2>5, <3>2, <3>3, <3>6, <3>7, <3>8, CopyMoves
  <2> QED BY <2>6, <2>7
<1> QED BY <1>9, <1>10, <1>12, <1>13, <1>14 DEF RenderInv, EachOneCopy

\* A crash loses what the worker held.
LEMMA CrashInv ==
  ASSUME RenderInv, NEW w \in Workers, Crash(w),
         UNCHANGED <<queue, running, accepted, replies, frontend_pub, recalled>>
  PROVE  RenderInv'
<1>1. /\ crashes[w] < MaxCrashes /\ crashes' = [crashes EXCEPT ![w] = @ + 1]
      /\ state' = [state EXCEPT ![w] = "idle"]
      /\ current_broker' = [current_broker EXCEPT ![w] = None]
      /\ brokers_with_jobs' = [brokers_with_jobs EXCEPT ![w] = << >>]
      /\ to_comm' = [to_comm EXCEPT ![w] = <<RequestJob>>]
      /\ to_code' = [to_code EXCEPT ![w] = << >>]
      /\ announce' = [announce EXCEPT ![w] = << >>]
      /\ to_worker' \in {to_worker, [to_worker EXCEPT ![w] = [b \in Brokers |-> << >>]]}
      /\ UNCHANGED <<to_broker, timeouts>>
  BY DEF Crash
<1>2. /\ state \in [Workers -> States] /\ current_broker \in [Workers -> Brokers \cup {None}]
      /\ crashes \in [Workers -> 0 .. MaxCrashes]
      /\ DOMAIN brokers_with_jobs = Workers
      /\ \A v \in Workers : DOMAIN brokers_with_jobs[v] \subseteq Brokers
  BY DEF RenderInv, FieldsOK
<1>3. FieldsOK'
  <2>1. state' \in [Workers -> States] /\ current_broker' \in [Workers -> Brokers \cup {None}]
    BY <1>1, <1>2 DEF States
  <2>2. crashes' \in [Workers -> 0 .. MaxCrashes]
    BY <1>1, <1>2, TimeoutAssumption
  <2>3. /\ DOMAIN brokers_with_jobs' = Workers
        /\ \A v \in Workers : DOMAIN brokers_with_jobs'[v] \subseteq Brokers
    BY <1>1, <1>2
  <2> QED BY <1>1, <2>1, <2>2, <2>3 DEF RenderInv, FieldsOK
<1>4. /\ to_comm \in [Workers -> Seq(ResultMsg \cup {RequestJob})]
      /\ to_code \in [Workers -> Seq([job : JobMsg, from : Brokers])]
  BY DEF RenderInv, MessagesOK
<1>5. MessagesOK'
  <2> DEFINE M == ResultMsg \cup {RequestJob}
             E == [job : JobMsg, from : Brokers]
  <2>1. to_comm \in [Workers -> Seq(M)] /\ RequestJob \in M /\ to_code \in [Workers -> Seq(E)]
    BY <1>4
  <2> HIDE DEF M, E
  <2>2. <<RequestJob>> \in Seq(M) /\ << >> \in Seq(E)
    BY <2>1
  <2>3. to_comm' \in [Workers -> Seq(M)] /\ to_code' \in [Workers -> Seq(E)]
    BY <1>1, <2>1, <2>2
  <2> QED BY <1>1, <2>3 DEF RenderInv, MessagesOK, M, E
<1>6. /\ to_worker' \in [Workers -> [Brokers -> Seq(JobMsg \cup {NoJobs})]]
      /\ \A v \in Workers \ {w} : to_worker'[v] = to_worker[v]
      /\ \A c \in Brokers : to_worker'[w][c] = to_worker[w][c] \/ to_worker'[w][c] = << >>
  <2>1. to_worker \in [Workers -> [Brokers -> Seq(JobMsg \cup {NoJobs})]]
    BY DEF RenderInv, BrokerInv, BrokerTypeOK
  <2>2. CASE to_worker' = to_worker
    BY <2>1, <2>2
  <2>3. CASE to_worker' = [to_worker EXCEPT ![w] = [b \in Brokers |-> << >>]]
    BY <2>1, <2>3
  <2> QED BY <1>1, <2>2, <2>3
<1>7. BrokerInv'
  <2>1. announce' \in [Workers -> Seq(Announcement)]
    BY <1>1 DEF RenderInv, BrokerInv, BrokerTypeOK
  <2> QED BY <1>6, <2>1, WorkerStepBroker
<1>8. /\ state'[w] = "idle" /\ current_broker'[w] = None /\ to_code'[w] = << >>
      /\ to_comm'[w] = <<RequestJob>> /\ crashes'[w] # 0
      /\ \A v \in Workers \ {w} :
           /\ state'[v] = state[v] /\ current_broker'[v] = current_broker[v]
           /\ to_code'[v] = to_code[v] /\ to_comm'[v] = to_comm[v] /\ crashes'[v] = crashes[v]
  BY <1>1, <1>2, <1>4
<1>9. OthersAlone(w)
  BY <1>1, <1>6, <1>8 DEF OthersAlone
<1>10. InStep'
  <2>1. PairInStep(w)'
    BY <1>8 DEF PairInStep
  <2> QED BY <1>9, <2>1, OthersInStep DEF RenderInv
<1>11. AskedOnce'
  <2>1. \A b \in Brokers : OneRequestOut(w, b)'
    BY <1>8 DEF OneRequestOut
  <2> QED BY <1>9, <2>1, OthersAskOnce DEF RenderInv
<1>12. EachOneCopy'
  <2>1. ASSUME NEW b \in Brokers, NEW m \in Metatiles, NEW s \in Stages
        PROVE  NoNew(Path(w, b, s), Path(w, b, s)', m)
    <3>1. CASE s = "sent"
      BY <1>6, <3>1 DEF Path, NoNew
    <3>2. CASE s \in {"held", "done"}
      BY <1>8, <3>2, NoneAssumption DEF Path, NoNew
    <3>3. CASE s = "back"
      BY <1>1, <3>3 DEF Path, NoNew
    <3> QED BY <3>1, <3>2, <3>3 DEF Stages
  <2>2. \A b \in Brokers, m \in Metatiles : HandedOut(b, m) => HandedOut(b, m)'
    BY DEF HandedOut
  <2> QED BY <1>9, <2>1, <2>2, QuietStep
<1> QED BY <1>3, <1>5, <1>7, <1>10, <1>11, <1>12 DEF RenderInv
-----------------------------------------------------------------------------
\* The invariant holds in the initial states.
LEMMA RenderInitInv == Init => RenderInv
<1> SUFFICES ASSUME Init PROVE RenderInv
  OBVIOUS
<1>1. BrokerInv
  BY BrokerInitInv DEF Init
<1>2. FieldsOK
  BY TimeoutAssumption DEF Init, WorkerInit, FieldsOK, States
<1>3. MessagesOK
  <2>1. <<RequestJob>> \in Seq(ResultMsg \cup {RequestJob})
    OBVIOUS
  <2> QED BY <2>1 DEF Init, WorkerInit, MessagesOK
<1>4. InStep
  BY DEF Init, WorkerInit, InStep, PairInStep
<1>5. AskedOnce
  BY DEF Init, WorkerInit, BrokerInit, AskedOnce, OneRequestOut
<1>6. EachOneCopy
  <2>1. ASSUME NEW b \in Brokers, NEW m, NEW w \in Workers, NEW s \in Stages
        PROVE  Path(w, b, s) = << >>
    BY NoneAssumption DEF Path, Stages, Init, WorkerInit, BrokerInit
  <2>2. \A b \in Brokers, m \in Metatiles : OneCopy(b, m)
    BY <2>1, EmptyCarriesNothing DEF OneCopy
  <2> QED BY <2>2 DEF EachOneCopy
<1> QED BY <1>1, <1>2, <1>3, <1>4, <1>5, <1>6 DEF RenderInv

\* Every step preserves the invariant: one case per action.
LEMMA RenderNextInv == RenderInv /\ [Next]_vars => RenderInv'
<1> SUFFICES ASSUME RenderInv, [Next]_vars PROVE RenderInv'
  OBVIOUS
<1>1. ASSUME NEW b \in Brokers, NEW r \in Requests, Request(b, r) PROVE RenderInv'
  BY <1>1, RequestInv
<1>2. ASSUME NEW b \in Brokers, NEW w \in Workers, GetJob(b, w) PROVE RenderInv'
  BY <1>2, GetJobInv
<1>3. ASSUME NEW b \in Brokers, NEW w \in Workers, ReceiveResult(b, w) PROVE RenderInv'
  BY <1>3, ReceiveResultInv
<1>4. ASSUME NEW b \in Brokers, Clear(b) PROVE RenderInv'
  BY <1>4, ClearInv
<1>5. ASSUME NEW b \in Brokers, Resubmit(b) PROVE RenderInv'
  BY <1>5, ResubmitStepInv
<1>6. ASSUME (\E b \in Brokers : Heartbeat(b) \/ Shutdown(b)) \/ ClockTick PROVE RenderInv'
  BY <1>6, QuietBrokerInv
<1>7. ASSUME NEW w \in Workers, Work(w) PROVE RenderInv'
  <2>1. UNCHANGED <<queue, running, accepted, replies, frontend_pub, recalled>>
    BY <1>7 DEF Work
  <2>2. ASSUME NEW b \in Brokers, AcceptJob(w, b) PROVE RenderInv'
    BY <2>1, <2>2, AcceptJobInv
  <2>3. ASSUME NEW b \in Brokers, DropUnexpectedJob(w, b) PROVE RenderInv'
    BY <2>1, <2>3, DropUnexpectedJobInv
  <2>4. ASSUME NEW b \in Brokers, ReceiveNoJobs(w, b) PROVE RenderInv'
    BY <2>1, <2>4, ReceiveNoJobsInv
  <2>5. CASE HearAnnouncement(w)
    BY <2>1, <2>5, HearAnnouncementInv
  <2>6. CASE InprocResult(w)
    BY <2>1, <2>6, InprocResultInv
  <2>7. CASE InprocRequest(w)
    BY <2>1, <2>7, InprocRequestInv
  <2>8. ASSUME NEW o \in Outcomes, WorkOnJob(w, o) PROVE RenderInv'
    BY <2>1, <2>8, WorkOnJobInv
  <2>9. CASE RetryTimeout(w)
    BY <2>1, <2>9, RetryTimeoutInv
  <2>10. CASE Crash(w)
    BY <2>1, <2>10, CrashInv
  <2> QED BY <1>7, <2>2, <2>3, <2>4, <2>5, <2>6, <2>7, <2>8, <2>9, <2>10
          DEF Work, WorkerStep, Communicate, RunCode
<1>8. CASE UNCHANGED vars
  <2>1. BrokerInv'
    BY <1>8, StutterInv DEF vars, RenderInv
  <2>2. UNCHANGED <<ownVars, to_worker, queue, recalled>>
    BY <1>8 DEF vars, brokerVars
  <2>3. \A b \in Brokers, m \in Metatiles : HandedOut(b, m) => HandedOut(b, m)'
    BY <2>2 DEF HandedOut
  <2> QED BY <2>1, <2>2, <2>3, SamePaths
<1> QED BY <1>1, <1>2, <1>3, <1>4, <1>5, <1>6, <1>7, <1>8 DEF Next

\* The invariant of brokers and workers together.
LEMMA RenderSpecInv == Spec => []RenderInv
BY RenderInitInv, RenderNextInv, PTL DEF Spec

\* What is in a worker's inproc queues, from the state of its communicator.
LEMMA WorkerInvHolds == RenderInv => WorkerInv /\ JobsDroppedOnlyAfterTimeout
<1> SUFFICES ASSUME RenderInv PROVE WorkerInv /\ JobsDroppedOnlyAfterTimeout
  OBVIOUS
<1>1. WorkerTypeOK
  <2>1. ASSUME NEW w \in Workers, NEW b \in Brokers
        PROVE  /\ \A i \in 1 .. Len(to_worker[w][b]) : to_worker[w][b][i].type \in {"JOB", NO_JOBS}
               /\ \A i \in 1 .. Len(to_broker[w][b]) :
                    to_broker[w][b][i].type \in {"GET_JOB", "RESULT"}
    <3>1. /\ to_worker[w][b] \in Seq(JobMsg \cup {NoJobs})
          /\ to_broker[w][b] \in Seq(ResultMsg \cup {GetJobMsg})
      BY DEF RenderInv, BrokerInv, BrokerTypeOK, MessagesOK
    <3>2. /\ \A i \in 1 .. Len(to_worker[w][b]) : to_worker[w][b][i] \in JobMsg \cup {NoJobs}
          /\ \A i \in 1 .. Len(to_broker[w][b]) :
               to_broker[w][b][i] \in ResultMsg \cup {GetJobMsg}
      BY <3>1, ElementsOf, Zenon
    <3>3. \A e \in JobMsg \cup {NoJobs} : e.type \in {"JOB", NO_JOBS}
      BY DEF JobMsg, NoJobs
    <3>4. \A e \in ResultMsg \cup {GetJobMsg} : e.type \in {"GET_JOB", "RESULT"}
      BY DEF ResultMsg, GetJobMsg
    <3> QED BY <3>2, <3>3, <3>4, Zenon
  <2> QED BY <2>1 DEF WorkerTypeOK, RenderInv, FieldsOK
<1>2. ASSUME NEW w \in Workers
      PROVE  /\ state[w] \in {"trying_to_get_job", "job_processing"} <=> current_broker[w] # None
             /\ (to_comm[w] # << >> /\ Head(to_comm[w]).type = "RESULT")
                  => state[w] = "job_processing"
             /\ (to_comm[w] # << >> /\ Head(to_comm[w]).type = "request") => state[w] = "idle"
  <2>1. PairInStep(w)
    BY DEF RenderInv, InStep
  <2>2. Head(<<RequestJob>>).type = "request"
    BY DEF RequestJob
  <2>3. Len(to_comm[w]) = 2 => Head(to_comm[w]) = to_comm[w][1]
    BY DEF RenderInv, MessagesOK
  <2> QED BY <2>1, <2>2, <2>3, NoneAssumption DEF PairInStep
<1>3. ASSUME NEW w \in Workers
      PROVE  /\ Held(w) = IF state[w] = "job_processing" THEN 1 ELSE 0
             /\ \A i \in 1 .. Len(to_code[w]) : to_code[w][i].from = current_broker[w]
  <2> DEFINE R == {i \in 1 .. Len(to_comm[w]) : to_comm[w][i].type = "RESULT"}
  <2>1. PairInStep(w)
    BY DEF RenderInv, InStep
  <2>2. Cardinality({}) = 0 /\ Cardinality({1}) = 1
    BY FS_EmptySet, FS_Singleton
  <2>a. Held(w) = Len(to_code[w]) + Cardinality(R)
    BY Zenon DEF Held
  <2>3. CASE to_comm[w] = << >>
    <3>1. R = {}
      BY <2>3
    <3>2. Len(to_comm[w]) = 0
      BY <2>3
    <3>3. \/ state[w] # "job_processing" /\ Len(to_code[w]) = 0
          \/ state[w] = "job_processing" /\ Len(to_code[w]) = 1
      BY <2>1, <3>2 DEF PairInStep
    <3> HIDE DEF R
    <3>4. \A i \in 1 .. Len(to_code[w]) : to_code[w][i].from = current_broker[w]
      BY <2>1, <3>2 DEF PairInStep
    <3> QED BY <2>2, <2>a, <3>1, <3>3, <3>4
  <2>4. CASE to_comm[w] = <<RequestJob>>
    <3>1. R = {}
      BY <2>4 DEF RequestJob
    <3> HIDE DEF R
    <3> QED BY <2>1, <2>2, <2>4, <2>a, <3>1 DEF PairInStep
  <2>5. CASE /\ Len(to_comm[w]) = 2 /\ to_comm[w][1].type = "RESULT" /\ to_comm[w][2] = RequestJob
             /\ state[w] = "job_processing" /\ to_code[w] = << >>
    <3>1. R = {1}
      BY <2>5 DEF RequestJob
    <3> HIDE DEF R
    <3> QED BY <2>2, <2>5, <2>a, <3>1
  <2> QED BY <2>1, <2>3, <2>4, <2>5 DEF PairInStep
<1>4. NeverSurprised
  BY <1>2 DEF NeverSurprised
<1>5. ResultGoesHome
  BY <1>3 DEF ResultGoesHome
<1>6. JobsDroppedOnlyAfterTimeout
  BY DEF RenderInv, AskedOnce, OneRequestOut, JobsDroppedOnlyAfterTimeout
<1> QED BY <1>1, <1>4, <1>5, <1>6 DEF WorkerInv, RenderInv

\* One copy in one place counts as one.
LEMMA NoDuplicatesFollow == RenderInv => NoDuplicateRender
<1> SUFFICES ASSUME RenderInv, NEW b \in Brokers, NEW m \in Metatiles, <<b, m>> \notin recalled
             PROVE  /\ Outstanding(b, m) <= 1
                    /\ Outstanding(b, m) = 1 => HandedOut(b, m)
  BY DEF NoDuplicateRender, HandedOut
<1>1. OneCopy(b, m)
  BY DEF RenderInv, EachOneCopy
<1>2. ASSUME NEW p \in Copies(b, m)
      PROVE  \E w \in Workers, s \in Stages : \E i \in 1 .. Len(Path(w, b, s)) :
               p = <<w, s, i>> /\ Carries(Path(w, b, s)[i], m)
  BY DEF Copies
<1>3. ASSUME NEW p \in Copies(b, m), NEW q \in Copies(b, m) PROVE p = q
  <2>a. PICK w \in Workers, s \in Stages : \E i \in 1 .. Len(Path(w, b, s)) :
               p = <<w, s, i>> /\ Carries(Path(w, b, s)[i], m)
    BY <1>2
  <2>1. PICK i \in 1 .. Len(Path(w, b, s)) : p = <<w, s, i>> /\ Carries(Path(w, b, s)[i], m)
    BY <2>a
  <2>b. PICK v \in Workers, t \in Stages : \E j \in 1 .. Len(Path(v, b, t)) :
               q = <<v, t, j>> /\ Carries(Path(v, b, t)[j], m)
    BY <1>2
  <2>2. PICK j \in 1 .. Len(Path(v, b, t)) : q = <<v, t, j>> /\ Carries(Path(v, b, t)[j], m)
    BY <2>b
  <2>3. w = v /\ s = t
    BY <1>1, <2>1, <2>2 DEF OneCopy, Has
  <2>4. i = j
    BY <1>1, <2>1, <2>2, <2>3 DEF OneCopy, Single
  <2> QED BY <2>1, <2>2, <2>3, <2>4
<1>4. CASE Copies(b, m) = {}
  BY <1>4, FS_EmptySet DEF Outstanding
<1>5. CASE Copies(b, m) # {}
  <2>1. PICK p \in Copies(b, m) : Copies(b, m) = {p}
    BY <1>3, <1>5
  <2>2. Outstanding(b, m) = 1
    BY <2>1, FS_Singleton DEF Outstanding
  <2>3. HandedOut(b, m)
    BY <1>1, <1>2, <2>1 DEF OneCopy, Has
  <2> QED BY <2>2, <2>3
<1> QED BY <1>4, <1>5

(***************************************************************************)
(* For every set of brokers, workers and requests: the communicators are   *)
(* never in a case that their comments rule out, a worker holds one job    *)
(* exactly while it is processing and returns it to the broker it is from  *)
(* (zmq_backend_worker::task_communicator), whatever the brokers do.       *)
(***************************************************************************)
THEOREM WorkersAreNeverSurprised == Spec => []WorkerInv
BY RenderSpecInv, WorkerInvHolds, PTL

(***************************************************************************)
(* A job is thrown away only by a worker whose retry timer fired or that   *)
(* was restarted.                                                          *)
(***************************************************************************)
THEOREM DropsFollowTimeouts == Spec => []JobsDroppedOnlyAfterTimeout
BY RenderSpecInv, WorkerInvHolds, PTL

(***************************************************************************)
(* No metatile is out to two workers unless its task was resubmitted or    *)
(* cleared, and one that is out has a task that is marked processed, for   *)
(* any number of brokers, workers and requests and any sequence of         *)
(* merges, refusals, timeouts and crashes.                                 *)
(***************************************************************************)
THEOREM NothingIsRenderedTwice == Spec => []NoDuplicateRender
BY RenderSpecInv, NoDuplicatesFollow, PTL
-----------------------------------------------------------------------------
\* Every step of brokers and workers is a step of the service or leaves it unchanged.
LEMMA RenderStepIsServiceStep ==
  RenderInv /\ [Next]_vars => [Service!ServiceNext]_(Service!serviceVars)
<1> SUFFICES ASSUME RenderInv, [Next]_vars
             PROVE  Service!ServiceNext \/ UNCHANGED <<Pending, Answers, Closed>>
  BY DEF Service!serviceVars, Pending, Answers, Closed
<1>1. BrokerInv
  BY DEF RenderInv
<1>2. ASSUME NEW b \in Brokers, NEW r \in Requests, Request(b, r) PROVE Service!ServiceNext
  BY <1>1, <1>2, RequestIsAccept DEF Service!ServiceNext, Request
<1>3. ASSUME NEW b \in Brokers, NEW w \in Workers, ReceiveResult(b, w)
      PROVE  Service!ServiceNext \/ UNCHANGED <<Pending, Answers, Closed>>
  <2>1. PICK res : BackendResult(b, res)
    BY <1>3 DEF ReceiveResult
  <2>2. CASE res.x \in DOMAIN queue[b].tasks
    <3>1. Service!Settle(b, res.x)
      BY <1>1, <2>1, <2>2, ResultIsSettle
    <3>2. res.x \in Metatiles
      BY <1>1, <2>2 DEF BrokerInv, BrokerTypeOK, QueueType
    <3>3. res.x \in {[s \in Requests |-> MetaOf(s.x)][r] : r \in Requests}
      BY <3>2 DEF Metatiles
    <3> QED BY <3>1, <3>3 DEF Service!ServiceNext
  <2>3. CASE res.x \notin DOMAIN queue[b].tasks
    <3>1. UNCHANGED <<queue, accepted, replies>>
      BY <2>1, <2>3 DEF BackendResult
    <3> QED BY <1>1, <3>1, SameWaiting, ServiceStutter
  <2> QED BY <2>2, <2>3
<1>4. ASSUME NEW b \in Brokers, Clear(b) PROVE Service!ServiceNext
  BY <1>1, <1>4, ClearIsForget DEF Service!ServiceNext, Clear
<1>5. CASE \/ ClockTick
           \/ \E b \in Brokers : Resubmit(b) \/ \E w \in Workers : GetJob(b, w)
  BY <1>1, <1>5, SameWaiting, ServiceStutter DEF ClockTick, Resubmit, GetJob
<1>6. CASE \/ \E b \in Brokers : Heartbeat(b) \/ Shutdown(b)
           \/ \E w \in Workers : Work(w)
           \/ UNCHANGED vars
  <2>1. UNCHANGED <<queue, accepted, replies>>
    BY <1>6 DEF Heartbeat, Shutdown, MonitorHeartbeat, MonitorShutdown, Work, vars, brokerVars
  <2> QED BY <1>1, <2>1, SameWaiting, ServiceStutter
<1> QED BY <1>2, <1>3, <1>4, <1>5, <1>6 DEF Next

(***************************************************************************)
(* Brokers and the real workers together still implement the render        *)
(* service that the brokers implement with any workers: each interactive   *)
(* request is settled at most once, with its metatile.                     *)
(***************************************************************************)
THEOREM RenderQueueImplementsService == Spec => ImplementsRenderService
<1>1. Init => Service!ServiceInit
  BY InitIsServiceInit DEF Init
<1> QED BY <1>1, RenderStepIsServiceStep, RenderSpecInv, PTL
        DEF Spec, ImplementsRenderService, Service!ServiceSpec

(***************************************************************************)
(* With the real workers, too, tasks sum up their subscribers and no       *)
(* request is answered twice.                                              *)
(***************************************************************************)
THEOREM BrokersStaySound ==
  Spec => [](TaskSumsUpSubscribers /\ AnsweredAtMostOnce)
<1>1. RenderInv => TaskSumsUpSubscribers /\ AnsweredAtMostOnce
  BY DEF RenderInv, BrokerInv
<1> QED BY <1>1, RenderSpecInv, PTL
=============================================================================

----------------------------- MODULE ClientProofs ------------------------------
(***************************************************************************)
(* Proofs about the clients of remote services and the broker's timers:    *)
(* do_multi_requests keeps its connections apart and implements the        *)
(* abstract batch, for any order in which transfers end; the binary star   *)
(* of expiry servers never has two masters and its clients never bring the *)
(* last server down, for any number of clients and faults; a read of       *)
(* lts_storage misses a stored tile only after a failure; the tile         *)
(* submitter puts jobs only while the queue is short; the monitor thread   *)
(* keeps both of its timers; expire_tiles shares the tiles out so that     *)
(* none is forgotten and none is expired twice. Together they are the      *)
(* invariant of the components checked side by side.                       *)
(***************************************************************************)
EXTENDS MCClients, LeastElement, FiniteSetTheorems

-----------------------------------------------------------------------------
(* do_multi_requests *)

(* The number of handles curl works on is a count of connections.          *)
LEMMA CountOfConnections ==
  ASSUME NEW S, S \subseteq Connections
  PROVE  /\ Cardinality(S) \in 0 .. Cardinality(Connections)
         /\ Cardinality(S) = 0 <=> S = {}
<1>1. IsFiniteSet(Connections)
  BY HttpAssumption
<1>2. IsFiniteSet(S) /\ Cardinality(S) <= Cardinality(Connections)
  BY <1>1, FS_Subset
<1>3. Cardinality(S) \in Nat /\ Cardinality(Connections) \in Nat
  BY <1>1, <1>2, FS_CardinalityType
<1>4. Cardinality(S) = 0 <=> S = {}
  BY <1>2, FS_EmptySet
<1> QED BY <1>2, <1>3, <1>4

(* The loop starts with no operation under way.                            *)
LEMMA HttpInitInv == HttpInit => HttpInv
<1> SUFFICES ASSUME HttpInit PROVE HttpInv
  OBVIOUS
<1>0. /\ size \in 0 .. MaxRequests /\ size \in Nat
      /\ in_progress = {} /\ opts = [c \in Connections |-> 0]
      /\ transfers = [c \in Connections |-> "out"]
      /\ responses = [i \in 1 .. size |-> NoAnswer]
      /\ req_i = 0 /\ running_handles = 0 /\ new_running_handles = 0 /\ pc = "fill"
      /\ free_connections \subseteq Connections
  BY HttpAssumption DEF HttpInit
<1>1. concurrency \in 0 .. size
  BY <1>0, HttpAssumption DEF HttpInit, MinOf
<1>2. 0 \in 0 .. Cardinality(Connections)
  BY CountOfConnections
<1>3. HttpTypeOK
  BY <1>0, <1>1, <1>2 DEF HttpTypeOK, Operations, NoAnswer
<1>4. ConnectionsApart /\ AnswersInPlace
  BY <1>0 DEF ConnectionsApart, AnswersInPlace, NoAnswer
<1>5. TransfersMatch /\ UnansweredIsUnderWay /\ CountIsExact
  BY <1>0 DEF TransfersMatch, UnansweredIsUnderWay, CountIsExact, NoAnswer
<1> QED BY <1>3, <1>4, <1>5 DEF HttpInv

(* What an operation is.                                                   *)
LEMMA OperationParts ==
  ASSUME HttpTypeOK, NEW o \in in_progress
  PROVE  o.conn \in Connections /\ o.index \in 1 .. size /\ o = [conn |-> o.conn, index |-> o.index]
BY DEF HttpTypeOK, Operations

(* A free connection is in no transfer: a request that is started on it    *)
(* shares it with none.                                                    *)
LEMMA StartKeeps == HttpInv /\ StartRequest => HttpInv'
<1> SUFFICES ASSUME HttpInv, StartRequest PROVE HttpInv'
  OBVIOUS
<1>t. HttpTypeOK /\ ConnectionsApart /\ AnswersInPlace /\ TransfersMatch /\ UnansweredIsUnderWay
  BY DEF HttpInv
<1> PICK conn \in free_connections :
      /\ MakeRequest(conn, req_i + 1) /\ TakeConnection(conn)
      /\ \/ /\ transfers' = [transfers EXCEPT ![conn] = "running"]
            /\ UNCHANGED responses
         \/ /\ responses' = [responses EXCEPT ![req_i + 1] = Error]
            /\ UNCHANGED transfers
  BY DEF StartRequest
<1> DEFINE n == [conn |-> conn, index |-> req_i + 1]
<1>0. /\ size \in Nat /\ req_i \in Nat /\ req_i < size /\ pc = "fill"
      /\ req_i' = req_i + 1 /\ size' = size /\ pc' = pc
      /\ UNCHANGED <<concurrency, running_handles, new_running_handles>>
  BY <1>t, HttpAssumption DEF StartRequest, CanStart, HttpTypeOK
<1>1. conn \in Connections /\ req_i + 1 \in 1 .. size
  BY <1>t, <1>0 DEF HttpTypeOK
<1>2. /\ opts' = [opts EXCEPT ![conn] = req_i + 1]
      /\ in_progress' = in_progress \union {n}
      /\ free_connections' = free_connections \ {conn}
  BY DEF MakeRequest, TakeConnection
<1>3. /\ transfers[conn] = "out"
      /\ \A o \in in_progress : o.conn # conn /\ o.index # req_i + 1 /\ o.conn \in Connections
                                /\ o.index \in 1 .. size
  BY <1>t, <1>0, <1>1, OperationParts DEF TransfersMatch, ConnectionsApart
<1>4. HttpTypeOK'
  <2>1. in_progress' \subseteq Operations'
    BY <1>0, <1>1, <1>2, <1>t DEF HttpTypeOK, Operations
  <2>2. opts' \in [Connections -> 0 .. size] /\ free_connections' \subseteq Connections
    BY <1>0, <1>1, <1>2, <1>t DEF HttpTypeOK
  <2>3. transfers' \in [Connections -> {"out", "running", "ok", "failed"}]
    BY <1>1, <1>t DEF HttpTypeOK
  <2>4. responses' \in [1 .. size -> -1 .. size]
    <3>1. responses \in [1 .. size -> -1 .. size] /\ Error \in -1 .. size
      BY <1>0, <1>t DEF HttpTypeOK, Error
    <3>2. responses' = responses \/ responses' = [responses EXCEPT ![req_i + 1] = Error]
      OBVIOUS
    <3> QED BY <3>1, <3>2, <1>1
  <2> QED BY <2>1, <2>2, <2>3, <2>4, <1>0, <1>t DEF HttpTypeOK
<1>5. ConnectionsApart'
  BY <1>0, <1>2, <1>3, <1>t DEF ConnectionsApart
<1>r. /\ \A i \in 1 .. size : i # req_i + 1 => responses'[i] = responses[i]
      /\ \A c \in Connections : c # conn => transfers'[c] = transfers[c]
      /\ \/ transfers'[conn] = "running" /\ responses'[req_i + 1] = NoAnswer
         \/ transfers'[conn] = "out" /\ responses'[req_i + 1] = Error
  <2>1. responses[req_i + 1] = NoAnswer
    BY <1>t, <1>0, <1>1 DEF UnansweredIsUnderWay
  <2> QED BY <2>1, <1>1, <1>3, <1>t DEF HttpTypeOK
<1>6. AnswersInPlace'
  BY <1>r, <1>0, <1>t DEF AnswersInPlace
<1>7. TransfersMatch'
  <2>1. ASSUME NEW c \in Connections, transfers'[c] # "out"
        PROVE  \E o \in in_progress' : o.conn = c
    <3>1. n \in in_progress' /\ n.conn = conn
      BY <1>2
    <3>2. CASE c # conn
      <4>1. transfers[c] # "out"
        BY <2>1, <3>2, <1>r
      <4> QED BY <4>1, <1>2, <1>t DEF TransfersMatch
    <3> QED BY <3>1, <3>2
  <2>2. ASSUME NEW o \in in_progress
        PROVE  /\ o.index <= req_i' /\ opts'[o.conn] = o.index
               /\ responses'[o.index] = IF transfers'[o.conn] = "out" THEN Error ELSE NoAnswer
    <3>1. /\ o.index <= req_i /\ opts[o.conn] = o.index
          /\ responses[o.index] = IF transfers[o.conn] = "out" THEN Error ELSE NoAnswer
      BY <1>t DEF TransfersMatch
    <3>2. transfers'[o.conn] = transfers[o.conn] /\ responses'[o.index] = responses[o.index]
      BY <1>r, <1>3
    <3>3. opts'[o.conn] = opts[o.conn]
      BY <1>2, <1>3, <1>t DEF HttpTypeOK
    <3>4. o.index <= req_i'
      BY <3>1, <1>0, <1>3
    <3> QED BY <3>1, <3>2, <3>3, <3>4
  <2>3. /\ n.index <= req_i' /\ opts'[n.conn] = n.index
        /\ responses'[n.index] = IF transfers'[n.conn] = "out" THEN Error ELSE NoAnswer
    BY <1>r, <1>0, <1>1, <1>2, <1>t DEF HttpTypeOK
  <2> QED BY <2>1, <2>2, <2>3, <1>2 DEF TransfersMatch
<1>8. UnansweredIsUnderWay'
  <2>1. ASSUME NEW i \in 1 .. req_i + 1, responses'[i] = NoAnswer
        PROVE  \E o \in in_progress' : o.index = i /\ transfers'[o.conn] # "out"
    <3>1. CASE i = req_i + 1
      <4>1. transfers'[conn] = "running"
        BY <2>1, <3>1, <1>r DEF Error, NoAnswer
      <4>2. n \in in_progress' /\ n.index = i /\ n.conn = conn
        BY <3>1, <1>2
      <4> QED BY <4>1, <4>2
    <3>2. CASE i # req_i + 1
      <4>1. i \in 1 .. req_i /\ i \in 1 .. size
        BY <3>2, <1>0
      <4>2. PICK o \in in_progress : o.index = i /\ transfers[o.conn] # "out"
        BY <4>1, <3>2, <2>1, <1>r, <1>t DEF UnansweredIsUnderWay
      <4> QED BY <4>2, <1>3, <1>r, <1>2
    <3> QED BY <3>1, <3>2
  <2>2. ASSUME NEW i \in req_i + 2 .. size
        PROVE  responses'[i] = NoAnswer
    BY <1>r, <1>0, <1>t DEF UnansweredIsUnderWay
  <2> QED BY <2>1, <2>2, <1>0 DEF UnansweredIsUnderWay
<1>9. CountIsExact'
  BY <1>0 DEF CountIsExact
<1> QED BY <1>4, <1>5, <1>6, <1>7, <1>8, <1>9 DEF HttpInv

(* curl_multi_perform: transfers end, and are counted as ended.            *)
LEMMA PerformKeeps == HttpInv /\ Perform => HttpInv'
<1> SUFFICES ASSUME HttpInv, Perform PROVE HttpInv'
  OBVIOUS
<1>t. HttpTypeOK /\ ConnectionsApart /\ AnswersInPlace /\ TransfersMatch /\ UnansweredIsUnderWay
  BY DEF HttpInv
<1> PICK good \in SUBSET Running : \E bad \in SUBSET (Running \ good) :
      /\ transfers' = [c \in Connections |->
                         IF c \in good THEN "ok"
                         ELSE IF c \in bad THEN "failed" ELSE transfers[c]]
      /\ new_running_handles' = Cardinality(Running \ (good \union bad))
  BY DEF Perform
<1> PICK bad \in SUBSET (Running \ good) :
      /\ transfers' = [c \in Connections |->
                         IF c \in good THEN "ok"
                         ELSE IF c \in bad THEN "failed" ELSE transfers[c]]
      /\ new_running_handles' = Cardinality(Running \ (good \union bad))
  OBVIOUS
<1>0. /\ pc' = "read"
      /\ UNCHANGED <<size, concurrency, free_connections, in_progress, opts,
                     responses, req_i, running_handles>>
  BY DEF Perform
<1>1. \A c \in Connections : transfers'[c] = "out" <=> transfers[c] = "out"
  BY DEF Running
<1>2. Running' = Running \ (good \union bad)
  BY DEF Running
<1>3. new_running_handles' = Cardinality(Running') /\ Running' \subseteq Connections
  BY <1>2 DEF Running
<1>4. HttpTypeOK'
  <2>1. transfers' \in [Connections -> {"out", "running", "ok", "failed"}]
    BY <1>t DEF HttpTypeOK
  <2>2. new_running_handles' \in 0 .. Cardinality(Connections)
    BY <1>3, CountOfConnections
  <2> QED BY <2>1, <2>2, <1>0, <1>t DEF HttpTypeOK, Operations
<1>5. ConnectionsApart' /\ AnswersInPlace'
  BY <1>0, <1>t DEF ConnectionsApart, AnswersInPlace
<1>6. TransfersMatch' /\ UnansweredIsUnderWay'
  BY <1>0, <1>1, <1>t, OperationParts DEF TransfersMatch, UnansweredIsUnderWay
<1> QED BY <1>3, <1>4, <1>5, <1>6 DEF HttpInv, CountIsExact

(* A transfer that ended is that of one operation; its answer is the one   *)
(* to the request that operation was made for.                             *)
LEMMA DoneOperation ==
  ASSUME HttpInv, NEW conn \in Done
  PROVE  /\ OperOf(conn) \in in_progress /\ OperOf(conn).conn = conn
         /\ OperOf(conn).index \in 1 .. size
         /\ responses[OperOf(conn).index] = NoAnswer
         /\ FinishOper(conn) \in {OperOf(conn).index, Error}
<1>1. conn \in Connections /\ transfers[conn] # "out"
  BY DEF Done
<1>2. \E o \in in_progress : o.conn = conn
  BY <1>1 DEF HttpInv, TransfersMatch
<1>3. OperOf(conn) \in in_progress /\ OperOf(conn).conn = conn
  BY <1>2 DEF OperOf
<1> QED BY <1>1, <1>3, OperationParts DEF HttpInv, TransfersMatch, FinishOper

(* A finished transfer: its answer is stored in its place, its connection  *)
(* is free again.                                                          *)
LEMMA ReadKeeps == HttpInv /\ ReadMessage => HttpInv'
<1> SUFFICES ASSUME HttpInv, ReadMessage PROVE HttpInv'
  OBVIOUS
<1>t. HttpTypeOK /\ ConnectionsApart /\ AnswersInPlace /\ TransfersMatch /\ UnansweredIsUnderWay
      /\ CountIsExact
  BY DEF HttpInv
<1>1. PICK conn \in Done :
        /\ in_progress' = in_progress \ {OperOf(conn)}
        /\ transfers' = [transfers EXCEPT ![conn] = "out"]
        /\ responses' = [responses EXCEPT ![OperOf(conn).index] = FinishOper(conn)]
        /\ free_connections' = free_connections \union {conn}
        /\ opts' = [opts EXCEPT ![conn] = 0]
        /\ pc' = pc
  BY DoneOperation DEF ReadMessage, SlotOf, ReturnConnection
<1> DEFINE oper == OperOf(conn)
           answer == FinishOper(conn)
<1>2. /\ oper \in in_progress /\ oper.conn = conn /\ oper.index \in 1 .. size
      /\ responses[oper.index] = NoAnswer /\ answer \in {oper.index, Error}
  BY DoneOperation
<1>3. /\ in_progress' = in_progress \ {oper}
      /\ responses' = [responses EXCEPT ![oper.index] = answer]
  BY <1>1
<1> HIDE DEF oper, answer
<1>0. /\ pc = "read" /\ size \in Nat /\ req_i \in 0 .. size
      /\ UNCHANGED <<size, concurrency, req_i, running_handles, new_running_handles>>
  BY <1>t, HttpAssumption DEF ReadMessage, HttpTypeOK
<1>4. conn \in Connections /\ transfers[conn] \in {"ok", "failed"}
  BY DEF Done
<1>5. \A o \in in_progress' : /\ o \in in_progress /\ o.conn # conn /\ o.index # oper.index
                              /\ o.conn \in Connections /\ o.index \in 1 .. size
  BY <1>2, <1>3, <1>t, OperationParts DEF ConnectionsApart
<1>6. /\ \A c \in Connections : c # conn => transfers'[c] = transfers[c]
      /\ transfers'[conn] = "out"
      /\ \A i \in 1 .. size : i # oper.index => responses'[i] = responses[i]
      /\ responses'[oper.index] = answer
  BY <1>1, <1>2, <1>3, <1>4, <1>t DEF HttpTypeOK
<1>7. HttpTypeOK'
  <2>1. responses' \in [1 .. size -> -1 .. size]
    BY <1>0, <1>2, <1>3, <1>t DEF HttpTypeOK, Error
  <2>2. opts' \in [Connections -> 0 .. size] /\ free_connections' \subseteq Connections
    BY <1>0, <1>1, <1>4, <1>t DEF HttpTypeOK
  <2>3. transfers' \in [Connections -> {"out", "running", "ok", "failed"}]
    BY <1>1, <1>4, <1>t DEF HttpTypeOK
  <2> QED BY <2>1, <2>2, <2>3, <1>0, <1>1, <1>5, <1>t DEF HttpTypeOK, Operations
<1>8. ConnectionsApart'
  BY <1>0, <1>1, <1>5, <1>t DEF ConnectionsApart
<1>9. AnswersInPlace'
  BY <1>0, <1>2, <1>6, <1>t DEF AnswersInPlace
<1>10. TransfersMatch'
  <2>1. ASSUME NEW c \in Connections, transfers'[c] # "out"
        PROVE  \E o \in in_progress' : o.conn = c
    BY <2>1, <1>2, <1>3, <1>6, <1>t DEF TransfersMatch
  <2>2. ASSUME NEW o \in in_progress'
        PROVE  /\ o.index <= req_i' /\ opts'[o.conn] = o.index
               /\ responses'[o.index] = IF transfers'[o.conn] = "out" THEN Error ELSE NoAnswer
    BY <1>0, <1>1, <1>5, <1>6, <1>t DEF TransfersMatch, HttpTypeOK
  <2> QED BY <2>1, <2>2 DEF TransfersMatch
<1>11. UnansweredIsUnderWay'
  <2>1. answer # NoAnswer
    BY <1>2, <1>0 DEF Error, NoAnswer
  <2>2. ASSUME NEW i \in 1 .. req_i, responses'[i] = NoAnswer
        PROVE  \E o \in in_progress' : o.index = i /\ transfers'[o.conn] # "out"
    <3>1. i # oper.index /\ i \in 1 .. size
      BY <2>1, <2>2, <1>6, <1>0
    <3>2. PICK o \in in_progress : o.index = i /\ transfers[o.conn] # "out"
      BY <3>1, <2>2, <1>6, <1>t DEF UnansweredIsUnderWay
    <3>3. o \in in_progress'
      BY <3>1, <3>2, <1>3
    <3> QED BY <3>2, <3>3, <1>5, <1>6
  <2>3. ASSUME NEW i \in req_i + 1 .. size
        PROVE  responses'[i] = NoAnswer
    BY <1>0, <1>2, <1>6, <1>t DEF UnansweredIsUnderWay, TransfersMatch
  <2> QED BY <2>2, <2>3, <1>0 DEF UnansweredIsUnderWay
<1>12. CountIsExact'
  <2>1. Running' = Running
    BY <1>1, <1>4, <1>6 DEF Running
  <2> QED BY <2>1, <1>0, <1>t DEF CountIsExact
<1> QED BY <1>7, <1>8, <1>9, <1>10, <1>11, <1>12 DEF HttpInv

(* The end of a round changes none of the operations.                      *)
LEMMA EndKeeps == HttpInv /\ EndRound => HttpInv'
BY DEF HttpInv, EndRound, HttpTypeOK, Operations, ConnectionsApart, AnswersInPlace,
       TransfersMatch, UnansweredIsUnderWay, CountIsExact, Running

LEMMA HttpInvKept == HttpInv /\ [HttpNext]_httpVars => HttpInv'
<1>1. HttpInv /\ UNCHANGED httpVars => HttpInv'
  BY DEF HttpInv, httpVars, HttpTypeOK, Operations, ConnectionsApart, AnswersInPlace,
         TransfersMatch, UnansweredIsUnderWay, CountIsExact, Running
<1> QED BY <1>1, StartKeeps, PerformKeeps, ReadKeeps, EndKeeps DEF HttpNext, HttpLoop

(* The inductive invariant holds throughout.                               *)
LEMMA HttpInvariance == HttpSpec => []HttpInv
BY HttpInitInv, HttpInvKept, PTL DEF HttpSpec

(* No two operations of do_multi_requests ever share a connection, and     *)
(* none uses a connection that counts as free.                             *)
THEOREM ConnectionsStayApart == HttpSpec => []ConnectionsApart
<1>1. HttpInv => ConnectionsApart
  BY DEF HttpInv
<1> QED BY HttpInvariance, <1>1, PTL

(* do_multi_requests implements the abstract batch: every request of       *)
(* multiGet, multiPost and multiPostForm is answered once, by its own      *)
(* answer or an error, and the call ends only after all of them were.      *)
THEOREM MultiImplementsBatch == HttpSpec => ImplementsBatch
<1>1. HttpInit => Batch!BatchInit
  BY HttpAssumption DEF HttpInit, Batch!BatchInit, Batch!Unanswered, NoAnswer, Outcome
<1>2. ASSUME HttpInv, [HttpNext]_httpVars
      PROVE  [Batch!BatchNext]_Batch!batchVars
  <2> USE DEF Batch!batchVars
  <2>t. HttpTypeOK /\ size \in Nat
    BY <1>2, HttpAssumption DEF HttpInv, HttpTypeOK
  <2>1. CASE StartRequest
    <3>1. size' = size /\ Outcome = "pending" /\ Outcome' = "pending" /\ req_i + 1 \in 1 .. size
      BY <2>1, <2>t DEF StartRequest, Outcome, CanStart, HttpTypeOK
    <3>2. CASE UNCHANGED responses
      BY <3>1, <3>2
    <3>3. CASE responses' = [responses EXCEPT ![req_i + 1] = Error]
      <4>1. responses[req_i + 1] = NoAnswer
        BY <1>2, <3>1, <2>t DEF HttpInv, UnansweredIsUnderWay, HttpTypeOK
      <4>2. Batch!Answer(req_i + 1)
        BY <3>1, <3>3, <4>1 DEF Batch!Answer, Batch!Unanswered, Batch!Failed, Error, NoAnswer
      <4> QED BY <3>1, <4>2 DEF Batch!BatchNext
    <3> QED BY <2>1, <3>2, <3>3 DEF StartRequest
  <2>2. CASE Perform
    BY <2>2 DEF Perform, Outcome
  <2>3. CASE ReadMessage
    <3>1. PICK conn \in Done :
            /\ responses' = [responses EXCEPT ![OperOf(conn).index] = FinishOper(conn)]
            /\ pc' = pc
      BY <1>2, <2>3, DoneOperation DEF ReadMessage, SlotOf
    <3>2. size' = size /\ Outcome = "pending" /\ Outcome' = "pending"
      BY <2>3, <3>1 DEF ReadMessage, Outcome
    <3> DEFINE i == OperOf(conn).index
               answer == FinishOper(conn)
    <3>3. i \in 1 .. size /\ responses[i] = NoAnswer /\ answer \in {i, Error}
      BY <1>2, DoneOperation
    <3>4. responses' = [responses EXCEPT ![i] = answer]
      BY <3>1
    <3> HIDE DEF i, answer
    <3>5. Batch!Answer(i)
      BY <3>2, <3>3, <3>4 DEF Batch!Answer, Batch!Unanswered, Batch!Failed, Error, NoAnswer
    <3> QED BY <3>3, <3>5 DEF Batch!BatchNext
  <2>4. CASE EndRound
    <3>1. size' = size /\ responses' = responses /\ Outcome = "pending"
      BY <2>4 DEF EndRound, Outcome
    <3>2. CASE ~AllDone
      BY <2>4, <3>1, <3>2 DEF EndRound, Outcome
    <3>3. CASE AllDone
      <4>1. Running = {}
        <5>1. Running \subseteq Connections /\ Cardinality(Running) = 0
          BY <1>2, <2>4, <3>3 DEF HttpInv, CountIsExact, EndRound, AllDone, Running
        <5> QED BY <5>1, CountOfConnections
      <4>2. \A c \in Connections : transfers[c] = "out"
        BY <4>1, <2>4, <2>t DEF EndRound, Done, Running, HttpTypeOK
      <4>3. \A j \in 1 .. size : responses[j] # NoAnswer
        BY <4>2, <3>3, <1>2, <2>t, OperationParts DEF HttpInv, UnansweredIsUnderWay, AllDone
      <4>4. Outcome' = IF \E j \in 1 .. size : responses[j] = Error THEN "thrown" ELSE "returned"
        BY <2>4, <3>3 DEF EndRound, Outcome, AnyError
      <4>5. Batch!Finish
        BY <3>1, <4>3, <4>4 DEF Batch!Finish, Batch!Unanswered, Batch!Failed, Error, NoAnswer
      <4> QED BY <4>5 DEF Batch!BatchNext
    <3> QED BY <3>2, <3>3
  <2>5. CASE UNCHANGED httpVars
    BY <2>5 DEF httpVars, Outcome
  <2> QED BY <1>2, <2>1, <2>2, <2>3, <2>4, <2>5 DEF HttpNext, HttpLoop
<1> QED BY <1>1, <1>2, HttpInvariance, PTL DEF HttpSpec, ImplementsBatch, Batch!BatchSpec

-----------------------------------------------------------------------------
(* The binary star of expiry servers *)

LEMMA TwoServers == Servers = {0, 1} /\ Peer(0) = 1 /\ Peer(1) = 0
BY DEF Servers, Peer

\* What the invariant of the two servers needs of the types.
LEMMA ServerTypes ==
  ASSUME ExpiryTypeOK
  PROVE  /\ state \in [Servers -> States \union {"down"}]
         /\ silence \in [Servers -> 0 .. PeerExpiry]
         /\ inbox \in [Servers -> States \union {"none"}]
         /\ due \subseteq Servers
BY DEF ExpiryTypeOK

LEMMA GoneKeepsStar ==
  ASSUME ExpiryTypeOK, StarInv, NEW s \in Servers, NEW lost, Gone(s, lost)
  PROVE  StarInv'
<1> USE TwoServers, ServerTypes
        DEF Gone, StarInv, Roles, DownIsSilent, OneMaster, OnePassive, NewsIsOfThisBeat,
            MasterIsHeard, SteppedBack, NewsIsStillTrue, States, PeerExpiry
<1>1. CASE s = 0 BY <1>1
<1>2. CASE s = 1 BY <1>2
<1> QED BY <1>1, <1>2

LEMMA PeerEventKeepsStar ==
  ASSUME ExpiryTypeOK, StarInv, NEW s \in Servers, HandlePeer(s)
  PROVE  StarInv'
<1>1. CASE PeerEvent(state[s], inbox[s]) = "bad"
  BY <1>1, GoneKeepsStar DEF HandlePeer
<1>2. CASE PeerEvent(state[s], inbox[s]) # "bad"
  <2>1. /\ state' = [state EXCEPT ![s] = PeerEvent(state[s], inbox[s])]
        /\ inbox' = [inbox EXCEPT ![s] = "none"]
        /\ silence' = [silence EXCEPT ![s] = 0]
        /\ due' = due /\ inbox[s] # "none"
    BY <1>2 DEF HandlePeer
  <2> USE TwoServers, ServerTypes
          DEF StarInv, Roles, DownIsSilent, OneMaster, OnePassive, NewsIsOfThisBeat,
              MasterIsHeard, SteppedBack, NewsIsStillTrue, States, PeerExpiry, PeerEvent
  <2>2. CASE s = 0 BY <1>2, <2>1, <2>2
  <2>3. CASE s = 1 BY <1>2, <2>1, <2>3
  <2> QED BY <2>2, <2>3
<1> QED BY <1>1, <1>2

LEMMA RequestEventKeepsStar ==
  ASSUME ExpiryTypeOK, StarInv, NEW s \in Servers, NEW c, HandleRequest(s, c)
  PROVE  StarInv'
<1>1. CASE RequestEvent(state[s], silence[s]) = "bad"
  BY <1>1, GoneKeepsStar DEF HandleRequest
<1>2. CASE RequestEvent(state[s], silence[s]) # "bad"
  <2>1. /\ state' = [state EXCEPT ![s] = RequestEvent(state[s], silence[s])]
        /\ UNCHANGED <<inbox, due, silence>> /\ state[s] # "down"
    BY <1>2 DEF HandleRequest, ServersUp
  <2> USE TwoServers, ServerTypes
          DEF StarInv, Roles, DownIsSilent, OneMaster, OnePassive, NewsIsOfThisBeat,
              MasterIsHeard, SteppedBack, NewsIsStillTrue, States, PeerExpiry, RequestEvent
  <2>2. CASE s = 0 BY <1>2, <2>1, <2>2
  <2>3. CASE s = 1 BY <1>2, <2>1, <2>3
  <2> QED BY <2>2, <2>3
<1> QED BY <1>1, <1>2

LEMMA PublishKeepsStar ==
  ASSUME ExpiryTypeOK, StarInv, NEW s \in Servers, Publish(s)
  PROVE  StarInv'
<1> USE TwoServers, ServerTypes
        DEF Publish, ServersUp, StarInv, Roles, DownIsSilent, OneMaster, OnePassive, NewsIsOfThisBeat,
            MasterIsHeard, SteppedBack, NewsIsStillTrue, States, PeerExpiry
<1>1. CASE s = 0 BY <1>1
<1>2. CASE s = 1 BY <1>2
<1> QED BY <1>1, <1>2

LEMMA StartKeepsStar ==
  ASSUME ExpiryTypeOK, StarInv, NEW s \in Servers, Start(s)
  PROVE  StarInv'
<1>1. state' = [state EXCEPT ![s] = InitialState(s)] /\ state[s] = "down" /\ UNCHANGED <<silence, inbox, due>>
  BY DEF Start, ServersUp
<1> USE <1>1, TwoServers, ServerTypes
        DEF InitialState, StarInv, Roles, DownIsSilent, OneMaster, OnePassive, NewsIsOfThisBeat,
            MasterIsHeard, SteppedBack, NewsIsStillTrue, States, PeerExpiry
<1>2. CASE s = 0 BY <1>2
<1>3. CASE s = 1 BY <1>3
<1> QED BY <1>2, <1>3

LEMMA HeartbeatKeepsStar ==
  ASSUME ExpiryTypeOK, StarInv, HeartbeatPasses
  PROVE  StarInv'
BY TwoServers, ServerTypes
   DEF HeartbeatPasses, ServersUp, Later, StarInv, Roles, DownIsSilent, OneMaster, OnePassive,
       NewsIsOfThisBeat, MasterIsHeard, SteppedBack, NewsIsStillTrue, States, PeerExpiry

LEMMA StarKept == ExpiryTypeOK /\ StarInv /\ [ExpiryNext]_expiryVars => StarInv'
<1> SUFFICES ASSUME ExpiryTypeOK, StarInv, [ExpiryNext]_expiryVars PROVE StarInv'
  OBVIOUS
<1>1. ASSUME NEW s \in Servers, ServerStep(s) PROVE StarInv'
  BY <1>1, RequestEventKeepsStar, PeerEventKeepsStar, PublishKeepsStar DEF ServerStep
<1>2. ASSUME NEW s \in Servers, Crash(s) PROVE StarInv'
  BY <1>2, GoneKeepsStar DEF Crash
<1>3. ASSUME NEW s \in Servers, Start(s) PROVE StarInv'
  BY <1>3, StartKeepsStar
<1>4. CASE HeartbeatPasses
  BY <1>4, HeartbeatKeepsStar
<1>5. ASSUME UNCHANGED <<state, silence, inbox, due>> PROVE StarInv'
  BY <1>5 DEF StarInv, Roles, DownIsSilent, OneMaster, OnePassive, NewsIsOfThisBeat,
              MasterIsHeard, SteppedBack, NewsIsStillTrue
<1>6. ASSUME NEW c \in ExpiryClients, MakeCall(c) \/ ClientStep(c) PROVE StarInv'
  BY <1>5, <1>6 DEF MakeCall, ClientStep, TimesOut, Resend
<1>7. CASE UNCHANGED expiryVars
  BY <1>5, <1>7 DEF expiryVars
<1> QED BY <1>1, <1>2, <1>3, <1>4, <1>6, <1>7 DEF ExpiryNext
-----------------------------------------------------------------------------
(* The clients of the expiry servers *)

ClientRecords ==
  [server : Servers, call : ExpiryCalls \union {"none"}, wait : Waits, moved : BOOLEAN,
   pc : {"idle", "waiting", "settling"}]

LEMMA PeerEventTypes ==
  ASSUME NEW st \in States \union {"down"}, NEW ev \in States, PeerEvent(st, ev) # "bad"
  PROVE  PeerEvent(st, ev) \in States \union {"down"}
BY DEF PeerEvent, States

LEMMA RequestEventTypes ==
  ASSUME NEW st \in States \union {"down"}, NEW quiet, RequestEvent(st, quiet) # "bad"
  PROVE  RequestEvent(st, quiet) \in States \union {"down"}
BY DEF RequestEvent, States

LEMMA GoneTypes ==
  ASSUME ExpiryTypeOK, NEW s \in Servers, NEW lost, Gone(s, lost), client' = client, faults' \in 0 .. MaxFaults
  PROVE  ExpiryTypeOK'
<1>1. frontend' \in [Servers -> SUBSET ExpiryRequests]
  BY DEF Gone, ExpiryTypeOK
<1> QED BY <1>1 DEF Gone, ExpiryTypeOK, PeerExpiry

LEMMA IdleClient ==
  ASSUME ExpiryTypeOK, NEW c \in ExpiryClients
  PROVE  /\ Idle(c) \in [ExpiryClients -> ClientRecords]
         /\ Idle(c)[c].moved = FALSE /\ Idle(c)[c].pc = "idle"
         /\ \A d \in ExpiryClients : d # c => Idle(c)[d] = client[d]
<1> DEFINE new == [client[c] EXCEPT !.call = "none", !.wait = 0, !.moved = FALSE, !.pc = "idle"]
<1>1. client \in [ExpiryClients -> ClientRecords]
  BY DEF ExpiryTypeOK, ClientRecords
<1>2. client[c] \in ClientRecords
  BY <1>1
<1>3. new \in ClientRecords /\ new.moved = FALSE /\ new.pc = "idle"
  <2>1. 0 \in Waits BY DEF Waits
  <2> QED BY <1>2, <2>1 DEF ClientRecords
<1>4. Idle(c) = [client EXCEPT ![c] = new]
  BY DEF Idle
<1> HIDE DEF new
<1> QED BY <1>1, <1>3, <1>4

LEMMA RequestTypes ==
  ASSUME ExpiryTypeOK, NEW s \in Servers, NEW c \in ExpiryClients, HandleRequest(s, c)
  PROVE  ExpiryTypeOK'
<1>1. PICK r \in frontend[s] :
        LET next == RequestEvent(state[s], silence[s]) IN
        IF next = "bad"
          THEN /\ \E lost \in SUBSET frontend[s] : r \in lost /\ Gone(s, lost)
               /\ UNCHANGED client
          ELSE /\ AnswerRequest(s, r)
               /\ state' = [state EXCEPT ![s] = next]
               /\ UNCHANGED <<inbox, due, silence>>
  BY DEF HandleRequest
<1>2. faults' \in 0 .. MaxFaults
  BY DEF HandleRequest, ExpiryTypeOK
<1>3. CASE RequestEvent(state[s], silence[s]) = "bad"
  BY <1>1, <1>2, <1>3, GoneTypes
<1>4. CASE RequestEvent(state[s], silence[s]) # "bad"
  <2>1. state' \in [Servers -> States \union {"down"}]
    BY <1>1, <1>4, RequestEventTypes DEF ExpiryTypeOK
  <2>2. r \in ExpiryRequests /\ AnswerRequest(s, r) /\ UNCHANGED <<inbox, due, silence>>
    BY <1>1, <1>4 DEF ExpiryTypeOK
  <2>3. client' \in [ExpiryClients -> ClientRecords]
    BY <2>2, IdleClient DEF AnswerRequest, ExpiryRequests, ExpiryTypeOK, ClientRecords
  <2>4. marked' \in [Servers -> BOOLEAN]
    <3> DEFINE m == r.call = "set" \/ (r.call = "get" /\ marked[s])
    <3>1. m \in BOOLEAN BY Zenon
    <3>2. marked' = [marked EXCEPT ![s] = m]
      BY <2>2, Zenon DEF AnswerRequest
    <3> HIDE DEF m
    <3> QED BY <3>1, <3>2 DEF ExpiryTypeOK
  <2>5. frontend' \in [Servers -> SUBSET ExpiryRequests]
    BY <2>2 DEF AnswerRequest, ExpiryTypeOK
  <2> QED BY <1>2, <2>1, <2>2, <2>3, <2>4, <2>5 DEF ExpiryTypeOK, ClientRecords
<1> QED BY <1>3, <1>4

LEMMA PeerTypes ==
  ASSUME ExpiryTypeOK, NEW s \in Servers, HandlePeer(s)
  PROVE  ExpiryTypeOK'
<1>1. client' = client /\ faults' \in 0 .. MaxFaults
  BY DEF HandlePeer, ExpiryTypeOK
<1>2. CASE PeerEvent(state[s], inbox[s]) = "bad"
  BY <1>1, <1>2, GoneTypes DEF HandlePeer
<1>3. CASE PeerEvent(state[s], inbox[s]) # "bad"
  <2>1. state' \in [Servers -> States \union {"down"}]
    <3>1. state[s] \in States \union {"down"} /\ inbox[s] \in States
      BY DEF HandlePeer, ExpiryTypeOK
    <3>2. PeerEvent(state[s], inbox[s]) \in States \union {"down"}
      BY <1>3, <3>1, PeerEventTypes
    <3>3. state' = [state EXCEPT ![s] = PeerEvent(state[s], inbox[s])]
      BY <1>3 DEF HandlePeer
    <3> QED BY <3>2, <3>3 DEF ExpiryTypeOK
  <2> QED BY <1>1, <1>3, <2>1 DEF HandlePeer, ExpiryTypeOK, PeerExpiry
<1> QED BY <1>2, <1>3

LEMMA PublishTypes ==
  ASSUME ExpiryTypeOK, StarInv, NEW s \in Servers, Publish(s)
  PROVE  ExpiryTypeOK'
<1>1. state[s] \in States
  BY DEF Publish, ExpiryTypeOK, StarInv, DownIsSilent
<1>2. inbox' \in [Servers -> States \union {"none"}]
  BY <1>1 DEF Publish, ExpiryTypeOK
<1> QED BY <1>2 DEF Publish, ExpiryTypeOK

LEMMA StartTypes ==
  ASSUME ExpiryTypeOK, NEW s \in Servers, Start(s)
  PROVE  ExpiryTypeOK'
<1>1. client' \in [ExpiryClients -> ClientRecords]
  <2>1. ASSUME NEW c \in ExpiryClients, NEW m \in BOOLEAN PROVE [client[c] EXCEPT !.moved = m] \in ClientRecords
    BY <2>1 DEF ExpiryTypeOK, ClientRecords
  <2>2. \A c \in ExpiryClients : (client[c].moved /\ client[c].server = s) \in BOOLEAN
    BY Zenon
  <2>3. \A c \in ExpiryClients : [client[c] EXCEPT !.moved = @ /\ client[c].server = s] \in ClientRecords
    BY <2>1, <2>2, Zenon
  <2> QED BY <2>3, Zenon DEF Start
<1>2. InitialState(s) \in States
  BY DEF InitialState, States
<1> QED BY <1>1, <1>2 DEF Start, ExpiryTypeOK, ClientRecords

LEMMA SentTypes ==
  ASSUME ExpiryTypeOK, NEW c \in ExpiryClients, NEW call \in ExpiryCalls, NEW s \in Servers,
         SendRequest(c, s, call)
  PROVE  frontend' \in [Servers -> SUBSET ExpiryRequests]
<1>1. [client |-> c, call |-> call, live |-> TRUE] \in ExpiryRequests
  BY DEF ExpiryRequests
<1> QED BY <1>1 DEF SendRequest, ExpiryTypeOK

\* A client that is not idle has made a call.
LEMMA MakeCallTypes ==
  ASSUME ExpiryTypeOK, NEW c \in ExpiryClients, MakeCall(c)
  PROVE  ExpiryTypeOK'
<1>1. PICK call \in ExpiryCalls :
        /\ client' = [client EXCEPT ![c] = [@ EXCEPT !.call = call, !.pc = "waiting"]]
        /\ SendRequest(c, client[c].server, call)
  BY DEF MakeCall
<1>2. client[c] \in ClientRecords /\ client \in [ExpiryClients -> ClientRecords]
  BY DEF ExpiryTypeOK, ClientRecords
<1>3. [client[c] EXCEPT !.call = call, !.pc = "waiting"] \in ClientRecords
  BY <1>2 DEF ClientRecords
<1>4. client' \in [ExpiryClients -> ClientRecords]
  BY <1>1, <1>2, <1>3, Zenon
<1>5. frontend' \in [Servers -> SUBSET ExpiryRequests]
  BY <1>1, <1>2, SentTypes DEF ClientRecords
<1> QED BY <1>4, <1>5 DEF MakeCall, ExpiryTypeOK, ClientRecords

LEMMA ResendTypes ==
  ASSUME ExpiryTypeOK, CallIsMade, NEW c \in ExpiryClients, Resend(c)
  PROVE  ExpiryTypeOK'
<1>1. client[c] \in ClientRecords /\ client \in [ExpiryClients -> ClientRecords]
  BY DEF ExpiryTypeOK, ClientRecords
<1>2. [client[c] EXCEPT !.wait = 0, !.pc = "waiting"] \in ClientRecords
  <2>1. 0 \in Waits BY DEF Waits
  <2> QED BY <1>1, <2>1 DEF ClientRecords
<1>3. client' \in [ExpiryClients -> ClientRecords]
  BY <1>1, <1>2, Zenon DEF Resend
<1>4. client[c].call \in ExpiryCalls
  BY <1>1 DEF Resend, CallIsMade, ClientRecords
<1>5. frontend' \in [Servers -> SUBSET ExpiryRequests]
  BY <1>1, <1>4, SentTypes DEF Resend, ClientRecords
<1> QED BY <1>3, <1>5 DEF Resend, ExpiryTypeOK, ClientRecords

LEMMA TimesOutTypes ==
  ASSUME ExpiryTypeOK, NEW c \in ExpiryClients, TimesOut(c)
  PROVE  ExpiryTypeOK'
<1> DEFINE s == client[c].server
           gone == s \notin ServersUp
<1>1. client[c] \in ClientRecords /\ client \in [ExpiryClients -> ClientRecords]
  BY DEF ExpiryTypeOK, ClientRecords
<1>2. s \in Servers /\ Switched(s) \in Servers /\ 0 \in Waits /\ gone \in BOOLEAN
  BY <1>1 DEF ClientRecords, Switched, Servers, Waits
<1>3. client' \in [ExpiryClients -> ClientRecords]
  <2>1. client' = [client EXCEPT ![c] = [@ EXCEPT !.server = Switched(s), !.wait = 0, !.moved = gone, !.pc = "settling"]]
    BY Zenon DEF TimesOut
  <2> HIDE DEF s, gone
  <2>2. [client[c] EXCEPT !.server = Switched(s), !.wait = 0, !.moved = gone, !.pc = "settling"] \in ClientRecords
    BY <1>1, <1>2 DEF ClientRecords
  <2> QED BY <1>1, <2>1, <2>2, Zenon
<1>4. frontend' \in [Servers -> SUBSET ExpiryRequests]
  <2>1. \A r \in ExpiryRequests : [r EXCEPT !.live = FALSE] \in ExpiryRequests
    BY DEF ExpiryRequests
  <2>2. Mine(s, c) \subseteq ExpiryRequests
    BY <1>2 DEF Mine, ExpiryTypeOK
  <2>3. {[r EXCEPT !.live = FALSE] : r \in Mine(s, c)} \subseteq ExpiryRequests
    BY <2>1, <2>2
  <2>4. frontend' = [frontend EXCEPT ![s] = (@ \ Mine(s, c)) \union {[r EXCEPT !.live = FALSE] : r \in Mine(s, c)}]
    BY Zenon DEF TimesOut
  <2> HIDE DEF s
  <2> QED BY <1>2, <2>3, <2>4 DEF ExpiryTypeOK
<1>5. faults' \in 0 .. MaxFaults
  BY ExpiryAssumption DEF TimesOut, ExpiryTypeOK
<1> QED BY <1>3, <1>4, <1>5 DEF TimesOut, ExpiryTypeOK, ClientRecords

LEMMA HeartbeatTypes ==
  ASSUME ExpiryTypeOK, HeartbeatPasses
  PROVE  ExpiryTypeOK'
<1>1. client' \in [ExpiryClients -> ClientRecords]
  <2>1. \A n \in Waits : Later(n, 2) \in Waits
    BY DEF Later, Waits
  <2>2. ASSUME NEW c \in ExpiryClients
        PROVE  (IF client[c].pc = "idle" THEN 0 ELSE Later(client[c].wait, 2)) \in Waits
    BY <2>1 DEF ExpiryTypeOK, Waits
  <2>3. ASSUME NEW c \in ExpiryClients, NEW w \in Waits PROVE [client[c] EXCEPT !.wait = w] \in ClientRecords
    BY DEF ExpiryTypeOK, ClientRecords
  <2>4. \A c \in ExpiryClients : [client[c] EXCEPT !.wait = IF client[c].pc = "idle" THEN 0 ELSE Later(@, 2)] \in ClientRecords
    BY <2>2, <2>3, Zenon
  <2> QED BY <2>4, Zenon DEF HeartbeatPasses
<1>2. silence' \in [Servers -> 0 .. PeerExpiry]
  BY DEF HeartbeatPasses, ExpiryTypeOK, Later, PeerExpiry
<1> QED BY <1>1, <1>2 DEF HeartbeatPasses, ExpiryTypeOK, ClientRecords, ServersUp

LEMMA ExpiryTypesKept ==
  ExpiryTypeOK /\ StarInv /\ CallIsMade /\ [ExpiryNext]_expiryVars => ExpiryTypeOK'
<1> SUFFICES ASSUME ExpiryTypeOK, StarInv, CallIsMade, [ExpiryNext]_expiryVars PROVE ExpiryTypeOK'
  OBVIOUS
<1>1. ASSUME NEW s \in Servers, ServerStep(s) PROVE ExpiryTypeOK'
  BY <1>1, RequestTypes, PeerTypes, PublishTypes DEF ServerStep
<1>2. ASSUME NEW s \in Servers, Crash(s) PROVE ExpiryTypeOK'
  <2>1. faults' \in 0 .. MaxFaults
    BY <1>2, ExpiryAssumption DEF Crash, ExpiryTypeOK
  <2> QED BY <1>2, <2>1, GoneTypes DEF Crash
<1>3. ASSUME NEW s \in Servers, Start(s) PROVE ExpiryTypeOK'
  BY <1>3, StartTypes
<1>4. ASSUME NEW c \in ExpiryClients, MakeCall(c) \/ ClientStep(c) PROVE ExpiryTypeOK'
  BY <1>4, MakeCallTypes, ResendTypes, TimesOutTypes DEF ClientStep
<1>5. CASE HeartbeatPasses
  BY <1>5, HeartbeatTypes
<1>6. CASE UNCHANGED expiryVars
  BY <1>6 DEF expiryVars, ExpiryTypeOK
<1> QED BY <1>1, <1>2, <1>3, <1>4, <1>5, <1>6 DEF ExpiryNext

\* The requests that a step takes away or leaves.
LEMMA GoneKeepsRequests ==
  ASSUME ExpiryTypeOK, NEW s \in Servers, NEW lost, Gone(s, lost)
  PROVE  \A q \in Servers : frontend'[q] \subseteq frontend[q]
BY DEF Gone, ExpiryTypeOK

LEMMA SentRequests ==
  ASSUME ExpiryTypeOK, NEW c \in ExpiryClients, NEW call, NEW s \in Servers, SendRequest(c, s, call)
  PROVE  \A q \in Servers : \A r \in frontend'[q] :
           r \in frontend[q] \/ (q = s /\ r = [client |-> c, call |-> call, live |-> TRUE])
BY DEF SendRequest, ExpiryTypeOK

\* Whose calls stay as they are.
SameCall(c) ==
  client'[c].server = client[c].server /\ client'[c].call = client[c].call /\ client'[c].pc = client[c].pc

LEMMA LessRequestsKeepsLive ==
  ASSUME ExpiryTypeOK, LiveIsWaitedFor,
         \A c \in ExpiryClients : SameCall(c),
         \A q \in Servers : frontend'[q] \subseteq frontend[q]
  PROVE  LiveIsWaitedFor'
<1>1. \A q \in Servers : \A r \in frontend[q] : r.client \in ExpiryClients
  BY DEF ExpiryTypeOK, ExpiryRequests
<1> QED BY <1>1 DEF LiveIsWaitedFor, SameCall

LEMMA OneLiveRequest ==
  ASSUME ExpiryTypeOK, LiveIsWaitedFor, NEW s \in Servers, NEW q \in Servers,
         NEW r1 \in frontend[s], NEW r2 \in frontend[q], r1.live, r2.live, r1.client = r2.client
  PROVE  q = s /\ r1 = r2
<1>1. r1 \in ExpiryRequests /\ r2 \in ExpiryRequests
  BY DEF ExpiryTypeOK
<1>2. q = s /\ r1.call = r2.call
  BY DEF LiveIsWaitedFor
<1>3. r1.live = TRUE /\ r2.live = TRUE
  BY <1>1 DEF ExpiryRequests
<1>4. r1 = [client |-> r1.client, call |-> r1.call, live |-> TRUE]
  BY <1>1, <1>3 DEF ExpiryRequests
<1>5. r2 = [client |-> r2.client, call |-> r2.call, live |-> TRUE]
  BY <1>1, <1>3 DEF ExpiryRequests
<1> QED BY <1>2, <1>4, <1>5

LEMMA AnswerKeepsLive ==
  ASSUME ExpiryTypeOK, CallIsMade, LiveIsWaitedFor, NEW s \in Servers, NEW r \in frontend[s], AnswerRequest(s, r)
  PROVE  LiveIsWaitedFor' /\ CallIsMade'
<1>1. r.client \in ExpiryClients
  BY DEF ExpiryTypeOK, ExpiryRequests
<1>2. \A q \in Servers : frontend'[q] \subseteq frontend[q]
  BY DEF AnswerRequest, ExpiryTypeOK
<1>3. CASE ~r.live
  BY <1>2, <1>3, LessRequestsKeepsLive DEF AnswerRequest, SameCall, CallIsMade
<1>4. CASE r.live
  <2>1. /\ client'[r.client].pc = "idle"
        /\ \A d \in ExpiryClients : d # r.client => client'[d] = client[d]
    BY <1>1, <1>4, IdleClient DEF AnswerRequest
  <2>2. ASSUME NEW q \in Servers, NEW r2 \in frontend'[q], r2.live PROVE r2.client # r.client
    <3>1. r2 \in frontend[q]
      BY <1>2
    <3>2. r2.client = r.client => q = s /\ r2 = r
      BY <1>4, <2>2, <3>1, OneLiveRequest
    <3>3. r \notin frontend'[s]
      BY DEF AnswerRequest, ExpiryTypeOK
    <3> QED BY <3>2, <3>3
  <2>3. \A q \in Servers : \A r2 \in frontend[q] : r2.client \in ExpiryClients
    BY DEF ExpiryTypeOK, ExpiryRequests
  <2>4. LiveIsWaitedFor'
    BY <1>2, <2>1, <2>2, <2>3 DEF LiveIsWaitedFor
  <2>5. CallIsMade'
    BY <2>1 DEF CallIsMade
  <2> QED BY <2>4, <2>5
<1> QED BY <1>3, <1>4

LEMMA SendKeepsLive ==
  ASSUME ExpiryTypeOK, LiveIsWaitedFor, NEW c \in ExpiryClients, client[c].pc # "waiting",
         NEW call, SendRequest(c, client[c].server, call),
         client'[c].server = client[c].server, client'[c].call = call, client'[c].pc = "waiting",
         \A d \in ExpiryClients : d # c => client'[d] = client[d]
  PROVE  LiveIsWaitedFor'
<1>1. client[c].server \in Servers
  BY DEF ExpiryTypeOK
<1>2. \A q \in Servers : \A r \in frontend'[q] :
        r \in frontend[q] \/ (q = client[c].server /\ r = [client |-> c, call |-> call, live |-> TRUE])
  BY <1>1, SentRequests
<1>3. SUFFICES ASSUME NEW q \in Servers, NEW r \in frontend'[q], r.live
               PROVE  client'[r.client].server = q /\ client'[r.client].call = r.call /\ client'[r.client].pc = "waiting"
  BY DEF LiveIsWaitedFor
<1>4. CASE r \in frontend[q]
  <2>1. r.client \in ExpiryClients
    BY <1>4 DEF ExpiryTypeOK, ExpiryRequests
  <2>2. client[r.client].server = q /\ client[r.client].call = r.call /\ client[r.client].pc = "waiting"
    BY <1>3, <1>4 DEF LiveIsWaitedFor
  <2> QED BY <2>1, <2>2
<1>5. CASE q = client[c].server /\ r = [client |-> c, call |-> call, live |-> TRUE]
  BY <1>5
<1> QED BY <1>2, <1>4, <1>5

LEMMA TimesOutKeepsLive ==
  ASSUME ExpiryTypeOK, LiveIsWaitedFor, NEW c \in ExpiryClients, TimesOut(c)
  PROVE  LiveIsWaitedFor'
<1> DEFINE s == client[c].server
           dead == {[r EXCEPT !.live = FALSE] : r \in Mine(s, c)}
<1>1. s \in Servers
  BY DEF ExpiryTypeOK
<1>2. frontend' = [frontend EXCEPT ![s] = (@ \ Mine(s, c)) \union dead]
  BY Zenon DEF TimesOut
<1>3. \A r \in dead : ~r.live
  <2>1. \A r \in Mine(s, c) : ~[r EXCEPT !.live = FALSE].live
    BY <1>1 DEF Mine, ExpiryTypeOK, ExpiryRequests
  <2> QED BY <2>1
<1>4. \A d \in ExpiryClients : d # c => client'[d] = client[d]
  BY DEF TimesOut, ExpiryTypeOK
<1> HIDE DEF dead
<1>5. SUFFICES ASSUME NEW q \in Servers, NEW r \in frontend'[q], r.live
               PROVE  client'[r.client].server = q /\ client'[r.client].call = r.call /\ client'[r.client].pc = "waiting"
  BY DEF LiveIsWaitedFor
<1>6. r \in frontend[q] /\ (q = s => r \notin Mine(s, c))
  BY <1>1, <1>2, <1>3, <1>5 DEF ExpiryTypeOK
<1>7. r.client # c
  BY <1>5, <1>6 DEF Mine, LiveIsWaitedFor
<1>8. r.client \in ExpiryClients
  BY <1>6 DEF ExpiryTypeOK, ExpiryRequests
<1> QED BY <1>4, <1>5, <1>6, <1>7, <1>8 DEF LiveIsWaitedFor

\* A step of the servers leaves one whose peer is gone as quiet as it is.
StaysQuiet(s) ==
  state[Peer(s)] = "down" =>
    /\ state'[Peer(s)] = "down"
    /\ inbox[s] = "none" =>
         /\ inbox'[s] = "none"
         /\ state'[s] = "passive" => state[s] = "passive" /\ silence'[s] >= silence[s]

LEMMA GoneStaysQuiet ==
  ASSUME ExpiryTypeOK, StarInv, NEW s \in Servers, NEW lost, Gone(s, lost), NEW q \in Servers
  PROVE  StaysQuiet(q)
BY TwoServers, ServerTypes DEF Gone, StaysQuiet, PeerExpiry

LEMMA ServerStepStaysQuiet ==
  ASSUME ExpiryTypeOK, StarInv, NEW s \in Servers, NEW q \in Servers,
         ServerStep(s) \/ UNCHANGED <<state, silence, inbox, due>>
  PROVE  StaysQuiet(q)
<1> USE TwoServers, ServerTypes
<1>1. ASSUME NEW c, HandleRequest(s, c) PROVE StaysQuiet(q)
  <2>1. CASE RequestEvent(state[s], silence[s]) = "bad"
    BY <1>1, <2>1, GoneStaysQuiet DEF HandleRequest
  <2>2. CASE RequestEvent(state[s], silence[s]) # "bad"
    <3>1. /\ state' = [state EXCEPT ![s] = RequestEvent(state[s], silence[s])] /\ state[s] # "down"
          /\ UNCHANGED <<inbox, due, silence>>
      BY <1>1, <2>2 DEF HandleRequest, ServersUp
    <3> QED BY <3>1 DEF RequestEvent, StaysQuiet, PeerExpiry
  <2> QED BY <2>1, <2>2
<1>2. ASSUME HandlePeer(s) PROVE StaysQuiet(q)
  <2>1. CASE PeerEvent(state[s], inbox[s]) = "bad"
    BY <1>2, <2>1, GoneStaysQuiet DEF HandlePeer
  <2>2. CASE PeerEvent(state[s], inbox[s]) # "bad"
    <3>1. /\ state' = [state EXCEPT ![s] = PeerEvent(state[s], inbox[s])] /\ state[s] # "down"
          /\ inbox' = [inbox EXCEPT ![s] = "none"] /\ inbox[s] # "none"
          /\ silence' = [silence EXCEPT ![s] = 0]
      BY <1>2, <2>2 DEF HandlePeer, ServersUp
    <3> QED BY <3>1 DEF StaysQuiet, PeerExpiry
  <2> QED BY <2>1, <2>2
<1>3. ASSUME Publish(s) PROVE StaysQuiet(q)
  BY <1>3 DEF Publish, ServersUp, StaysQuiet, PeerExpiry, StarInv, DownIsSilent
<1>4. ASSUME UNCHANGED <<state, silence, inbox, due>> PROVE StaysQuiet(q)
  BY <1>4 DEF StaysQuiet, PeerExpiry
<1> QED BY <1>1, <1>2, <1>3, <1>4 DEF ServerStep

LEMMA QuietKeepsMoved ==
  ASSUME ExpiryTypeOK, NEW c \in ExpiryClients, client'[c] = client[c], AfterMove(c),
         \A q \in Servers : StaysQuiet(q), ExpiryTypeOK'
  PROVE  AfterMove(c)'
<1> DEFINE s == client[c].server
<1>1. s \in Servers /\ client'[c].server = s /\ client'[c].pc = client[c].pc /\ client'[c].wait = client[c].wait
  BY DEF ExpiryTypeOK
<1>2. StaysQuiet(s)
  BY <1>1
<1>3. silence[s] \in Nat /\ silence'[s] \in Nat /\ client[c].wait \in Nat
  <2>1. silence \in [Servers -> 0 .. 2] /\ silence' \in [Servers -> 0 .. 2]
    BY DEF ExpiryTypeOK, PeerExpiry
  <2>2. client[c].wait \in 0 .. 2
    BY DEF ExpiryTypeOK, Waits
  <2> QED BY <1>1, <2>1, <2>2
<1> QED BY <1>1, <1>2, <1>3 DEF AfterMove, StaysQuiet, PeerExpiry

LEMMA ServerStepKeepsMoved ==
  ASSUME ExpiryTypeOK, ExpiryTypeOK', StarInv, MovedAndSettled,
         \A q \in Servers : StaysQuiet(q),
         \A c \in ExpiryClients : client'[c] = client[c] \/ ~client'[c].moved
  PROVE  MovedAndSettled'
<1>1. SUFFICES ASSUME NEW c \in ExpiryClients, client'[c].moved PROVE AfterMove(c)'
  BY DEF MovedAndSettled
<1>2. client'[c] = client[c] /\ client[c].moved
  BY <1>1
<1> QED BY <1>2, QuietKeepsMoved DEF MovedAndSettled

LEMMA StartKeepsMoved ==
  ASSUME ExpiryTypeOK, StarInv, MovedAndSettled, NEW s \in Servers, Start(s)
  PROVE  MovedAndSettled' /\ \A c \in ExpiryClients : SameCall(c)
<1>1. ASSUME NEW c \in ExpiryClients
      PROVE  /\ SameCall(c) /\ client'[c].wait = client[c].wait
             /\ client'[c].moved => client[c].moved /\ client[c].server = s
  <2> DEFINE m == client[c].moved /\ client[c].server = s
  <2>1. client'[c] = [client[c] EXCEPT !.moved = m]
    BY Zenon DEF Start
  <2>2. client[c] \in ClientRecords
    BY DEF ExpiryTypeOK, ClientRecords
  <2> HIDE DEF m
  <2>3. SameCall(c) /\ client'[c].wait = client[c].wait /\ client'[c].moved = m
    BY <2>1, <2>2 DEF SameCall, ClientRecords
  <2> QED BY <2>3 DEF m
<1>2. ASSUME NEW c \in ExpiryClients, client'[c].moved PROVE AfterMove(c)'
  <2>1. AfterMove(c) /\ client[c].server = s
    BY <1>1, <1>2 DEF MovedAndSettled
  <2>2. state'[s] # "passive" /\ state[s] = "down" /\ state'[Peer(s)] = state[Peer(s)] /\ inbox' = inbox
    BY TwoServers, ServerTypes DEF Start, InitialState, ServersUp
  <2>3. inbox[s] = "none"
    BY <2>2 DEF StarInv, DownIsSilent
  <2> QED BY <1>1, <2>1, <2>2, <2>3 DEF AfterMove, SameCall
<1> QED BY <1>1, <1>2 DEF MovedAndSettled

LEMMA HeartbeatKeepsMoved ==
  ASSUME ExpiryTypeOK, StarInv, MovedAndSettled, HeartbeatPasses
  PROVE  MovedAndSettled' /\ \A c \in ExpiryClients : SameCall(c)
<1>1. ASSUME NEW c \in ExpiryClients
      PROVE  /\ SameCall(c) /\ client'[c].moved = client[c].moved
             /\ client[c].pc # "idle" => client'[c].wait = Later(client[c].wait, 2)
  <2> DEFINE w == IF client[c].pc = "idle" THEN 0 ELSE Later(client[c].wait, 2)
  <2>1. client'[c] = [client[c] EXCEPT !.wait = w]
    BY Zenon DEF HeartbeatPasses
  <2>2. client[c] \in ClientRecords
    BY DEF ExpiryTypeOK, ClientRecords
  <2> HIDE DEF w
  <2>3. SameCall(c) /\ client'[c].moved = client[c].moved /\ client'[c].wait = w
    BY <2>1, <2>2 DEF SameCall, ClientRecords
  <2> QED BY <2>3 DEF w
<1>2. ASSUME NEW c \in ExpiryClients, client'[c].moved PROVE AfterMove(c)'
  <2> DEFINE s == client[c].server
  <2>1. AfterMove(c) /\ s \in Servers /\ client'[c].server = s /\ client'[c].pc = client[c].pc
    BY <1>1, <1>2 DEF MovedAndSettled, ExpiryTypeOK, SameCall
  <2>2. client[c].wait \in 0 .. 2 /\ silence[s] \in 0 .. 2
    BY <2>1 DEF ExpiryTypeOK, Waits, PeerExpiry
  <2>3. inbox'[s] = "none" /\ state' = state
    BY <2>1 DEF HeartbeatPasses
  <2>4. state[s] = "passive" => silence'[s] = Later(silence[s], 2)
    BY <2>1 DEF HeartbeatPasses, ServersUp, PeerExpiry
  <2>5. client'[c].wait = Later(client[c].wait, 2)
    BY <1>1, <2>1 DEF AfterMove
  <2> QED BY <2>1, <2>2, <2>3, <2>4, <2>5 DEF AfterMove, Later, PeerExpiry
<1> QED BY <1>1, <1>2 DEF MovedAndSettled

LEMMA ClientStepKeepsCalls ==
  ASSUME ExpiryTypeOK, ExpiryTypeOK', StarInv, CallIsMade, LiveIsWaitedFor, MovedAndSettled,
         NEW c \in ExpiryClients, MakeCall(c) \/ ClientStep(c)
  PROVE  CallIsMade' /\ LiveIsWaitedFor' /\ MovedAndSettled'
<1>1. client[c] \in ClientRecords /\ client \in [ExpiryClients -> ClientRecords]
  BY DEF ExpiryTypeOK, ClientRecords
<1>2. UNCHANGED <<state, silence, inbox, due>>
  BY DEF MakeCall, ClientStep, TimesOut, Resend
<1>3. \A d \in ExpiryClients : d # c => client'[d] = client[d]
  BY DEF MakeCall, ClientStep, TimesOut, Resend, ExpiryTypeOK
<1>4. \A d \in ExpiryClients : d # c /\ client'[d].moved => AfterMove(d)'
  <2>1. \A q \in Servers : StaysQuiet(q)
    BY <1>2, ServerStepStaysQuiet
  <2> QED BY <1>3, <2>1, QuietKeepsMoved DEF MovedAndSettled
<1>5. ASSUME MakeCall(c) PROVE CallIsMade' /\ LiveIsWaitedFor' /\ (client'[c].moved => AfterMove(c)')
  <2>1. PICK call \in ExpiryCalls :
          /\ client' = [client EXCEPT ![c] = [@ EXCEPT !.call = call, !.pc = "waiting"]]
          /\ SendRequest(c, client[c].server, call)
    BY <1>5 DEF MakeCall
  <2>2. /\ client'[c].server = client[c].server /\ client'[c].call = call /\ client'[c].pc = "waiting"
        /\ client'[c].moved = client[c].moved
    BY <1>1, <2>1 DEF ClientRecords
  <2>3. client[c].pc = "idle"
    BY <1>5 DEF MakeCall
  <2>4. LiveIsWaitedFor'
    BY <1>3, <2>1, <2>2, <2>3, SendKeepsLive
  <2>5. ~client'[c].moved
    BY <2>2, <2>3 DEF MovedAndSettled, AfterMove
  <2>6. CallIsMade'
    BY <1>3, <2>2, ExpiryAssumption DEF CallIsMade
  <2> QED BY <2>4, <2>5, <2>6
<1>6. ASSUME Resend(c) PROVE CallIsMade' /\ LiveIsWaitedFor' /\ (client'[c].moved => AfterMove(c)')
  <2>1. client[c].pc = "settling" /\ client[c].wait >= SettleTimeout
    BY <1>6 DEF Resend
  <2>2. /\ client'[c].server = client[c].server /\ client'[c].call = client[c].call
        /\ client'[c].pc = "waiting" /\ client'[c].moved = client[c].moved
    BY <1>1, <1>6 DEF Resend, ClientRecords
  <2>3. LiveIsWaitedFor'
    BY <1>3, <1>6, <2>1, <2>2, SendKeepsLive DEF Resend
  <2>4. CallIsMade'
    BY <1>3, <2>1, <2>2 DEF CallIsMade
  <2>5. client[c].wait \in Nat /\ silence[client[c].server] \in Nat
    BY <1>1 DEF ClientRecords, Waits, ExpiryTypeOK, PeerExpiry
  <2>6. client'[c].moved => AfterMove(c)'
    <3>1. SUFFICES ASSUME client'[c].moved PROVE AfterMove(c)'
      OBVIOUS
    <3>2. AfterMove(c)
      BY <2>2, <3>1 DEF MovedAndSettled
    <3>3. /\ state[Peer(client[c].server)] = "down" /\ inbox[client[c].server] = "none"
          /\ state[client[c].server] = "passive" => silence[client[c].server] >= 2
      BY <2>1, <2>5, <3>2 DEF AfterMove, SettleTimeout
    <3>4. state' = state /\ inbox' = inbox /\ silence' = silence
      BY <1>2
    <3> QED BY <2>2, <3>3, <3>4 DEF AfterMove, PeerExpiry
  <2> QED BY <2>3, <2>4, <2>6
<1>7. ASSUME TimesOut(c) PROVE CallIsMade' /\ LiveIsWaitedFor' /\ (client'[c].moved => AfterMove(c)')
  <2> DEFINE s == client[c].server
             gone == s \notin ServersUp
  <2>1. client' = [client EXCEPT ![c] = [@ EXCEPT !.server = Switched(s), !.wait = 0, !.moved = gone, !.pc = "settling"]]
    BY <1>7, Zenon DEF TimesOut
  <2>2. s \in Servers /\ Peer(Switched(s)) = s
    BY <1>1 DEF ClientRecords, Switched, Peer, Servers
  <2> HIDE DEF s, gone
  <2>3. /\ client'[c].server = Switched(s) /\ client'[c].call = client[c].call /\ client'[c].wait = 0
        /\ client'[c].pc = "settling" /\ client'[c].moved = gone
    BY <1>1, <2>1 DEF ClientRecords
  <2>4. LiveIsWaitedFor'
    BY <1>7, TimesOutKeepsLive
  <2>5. CallIsMade'
    BY <1>3, <1>7, <2>3 DEF TimesOut, CallIsMade
  <2>6. client'[c].moved => AfterMove(c)'
    <3>1. gone => state'[s] = "down"
      BY <1>2, <2>2 DEF gone, ServersUp
    <3> QED BY <2>2, <2>3, <3>1 DEF AfterMove
  <2> QED BY <2>4, <2>5, <2>6
<1>8. CallIsMade' /\ LiveIsWaitedFor' /\ (client'[c].moved => AfterMove(c)')
  BY <1>5, <1>6, <1>7 DEF ClientStep
<1> QED BY <1>4, <1>8 DEF MovedAndSettled

LEMMA ServerStepKeepsCalls ==
  ASSUME ExpiryTypeOK, ExpiryTypeOK', StarInv, CallIsMade, LiveIsWaitedFor, MovedAndSettled,
         NEW s \in Servers, ServerStep(s) \/ Crash(s)
  PROVE  CallIsMade' /\ LiveIsWaitedFor' /\ MovedAndSettled'
<1>1. \A q \in Servers : StaysQuiet(q)
  BY ServerStepStaysQuiet, GoneStaysQuiet DEF Crash
<1>2. CASE client' = client /\ \A q \in Servers : frontend'[q] \subseteq frontend[q]
  <2>1. MovedAndSettled'
    BY <1>1, <1>2, ServerStepKeepsMoved
  <2>2. LiveIsWaitedFor'
    BY <1>2, LessRequestsKeepsLive DEF SameCall
  <2> QED BY <1>2, <2>1, <2>2 DEF CallIsMade
<1>3. ASSUME NEW r \in frontend[s], AnswerRequest(s, r) PROVE CallIsMade' /\ LiveIsWaitedFor' /\ MovedAndSettled'
  <2>1. \A c \in ExpiryClients : client'[c] = client[c] \/ ~client'[c].moved
    <3>1. r.client \in ExpiryClients
      BY DEF ExpiryTypeOK, ExpiryRequests
    <3> QED BY <1>3, <3>1, IdleClient DEF AnswerRequest
  <2>2. MovedAndSettled'
    BY <1>1, <2>1, ServerStepKeepsMoved
  <2> QED BY <1>3, <2>2, AnswerKeepsLive
<1>4. ASSUME NEW c, HandleRequest(s, c) PROVE CallIsMade' /\ LiveIsWaitedFor' /\ MovedAndSettled'
  <2>1. PICK r \in frontend[s] :
          \/ (\E lost \in SUBSET frontend[s] : r \in lost /\ Gone(s, lost)) /\ UNCHANGED client
          \/ AnswerRequest(s, r)
    BY <1>4 DEF HandleRequest
  <2> QED BY <1>2, <1>3, <2>1, GoneKeepsRequests
<1>5. CASE HandlePeer(s)
  BY <1>2, <1>5, GoneKeepsRequests DEF HandlePeer
<1>6. CASE Publish(s)
  BY <1>2, <1>6 DEF Publish
<1>7. CASE Crash(s)
  BY <1>2, <1>7, GoneKeepsRequests DEF Crash
<1> QED BY <1>4, <1>5, <1>6, <1>7 DEF ServerStep

LEMMA ExpiryInvKept == ExpiryInv /\ [ExpiryNext]_expiryVars => ExpiryInv'
<1> SUFFICES ASSUME ExpiryInv, [ExpiryNext]_expiryVars PROVE ExpiryInv'
  OBVIOUS
<1> USE DEF ExpiryInv
<1>1. ExpiryTypeOK' /\ StarInv'
  BY ExpiryTypesKept, StarKept
<1>2. ASSUME NEW s \in Servers, ServerStep(s) \/ Crash(s) PROVE CallIsMade' /\ LiveIsWaitedFor' /\ MovedAndSettled'
  BY <1>1, <1>2, ServerStepKeepsCalls
<1>3. ASSUME NEW c \in ExpiryClients, MakeCall(c) \/ ClientStep(c) PROVE CallIsMade' /\ LiveIsWaitedFor' /\ MovedAndSettled'
  BY <1>1, <1>3, ClientStepKeepsCalls
<1>4. ASSUME \A c \in ExpiryClients : SameCall(c), UNCHANGED frontend PROVE CallIsMade' /\ LiveIsWaitedFor'
  BY <1>4, LessRequestsKeepsLive DEF SameCall, CallIsMade
<1>5. ASSUME NEW s \in Servers, Start(s) PROVE CallIsMade' /\ LiveIsWaitedFor' /\ MovedAndSettled'
  BY <1>4, <1>5, StartKeepsMoved DEF Start
<1>6. CASE HeartbeatPasses
  BY <1>1, <1>4, <1>6, HeartbeatKeepsMoved DEF HeartbeatPasses
<1>7. CASE UNCHANGED expiryVars
  BY <1>1, <1>7 DEF expiryVars, CallIsMade, LiveIsWaitedFor, MovedAndSettled, AfterMove
<1> QED BY <1>1, <1>2, <1>3, <1>5, <1>6, <1>7 DEF ExpiryNext

LEMMA ExpiryStarts == ExpiryInit => ExpiryInv
<1> SUFFICES ASSUME ExpiryInit PROVE ExpiryInv
  OBVIOUS
<1>1. client \in [ExpiryClients -> ClientRecords]
  BY TwoServers DEF ExpiryInit, ClientRecords, Waits
<1>2. ExpiryTypeOK
  BY <1>1, ExpiryAssumption DEF ExpiryInit, ExpiryTypeOK, ClientRecords, PeerExpiry
<1>3. StarInv
  BY TwoServers DEF ExpiryInit, StarInv, Roles, DownIsSilent, OneMaster, OnePassive,
                    NewsIsOfThisBeat, MasterIsHeard, SteppedBack, NewsIsStillTrue
<1> QED BY <1>2, <1>3 DEF ExpiryInit, ExpiryInv, CallIsMade, LiveIsWaitedFor, MovedAndSettled

LEMMA ExpiryInvariant == ExpirySpec => []ExpiryInv
BY ExpiryStarts, ExpiryInvKept, PTL DEF ExpirySpec

(***************************************************************************)
(* fsm::event, for any number of clients and of faults: as long as         *)
(* heartbeats reach a peer that runs, the two servers are never both       *)
(* active, whichever crash and are started again, and whatever clients     *)
(* that have moved make them take over.                                    *)
(***************************************************************************)
THEOREM NeverTwoMasters == ExpirySpec => []OneMaster
<1>1. ExpiryInv => OneMaster
  BY DEF ExpiryInv, StarInv
<1> QED BY <1>1, ExpiryInvariant, PTL

(***************************************************************************)
(* request_with_failover and fsm::event: a client that moved because its   *)
(* server was gone, and settled, never makes the passive server that is    *)
(* left leave its loop.                                                    *)
(***************************************************************************)
THEOREM FailoversAreLateEnough == ExpirySpec => FailoverIsLateEnough
<1> DEFINE Late == \A s \in Servers :
       state[s] = "passive" /\ state'[s] = "down" /\ faults' = faults /\ Peer(s) \notin ServersUp =>
         \E r \in frontend[s] \ frontend'[s] : ~(r.live /\ client[r.client].moved)
<1>1. ASSUME ExpiryInv, [ExpiryNext]_expiryVars PROVE [Late]_expiryVars
  <2>1. SUFFICES ASSUME NEW s \in Servers, state[s] = "passive", state'[s] = "down", faults' = faults,
                        Peer(s) \notin ServersUp
                 PROVE  \E r \in frontend[s] \ frontend'[s] : ~(r.live /\ client[r.client].moved)
    OBVIOUS
  <2> USE TwoServers, ServerTypes DEF ExpiryInv
  <2>2. PICK q \in Servers : ServerStep(q)
    <3>1. UNCHANGED state => FALSE
      BY <2>1
    <3>2. ASSUME NEW q \in Servers, Start(q) PROVE FALSE
      BY <2>1, <3>2 DEF Start, InitialState, ServersUp
    <3>3. ASSUME NEW q \in Servers, Crash(q) PROVE FALSE
      BY <2>1, <3>3 DEF Crash, ExpiryTypeOK
    <3> QED BY <1>1, <3>1, <3>2, <3>3
            DEF ExpiryNext, MakeCall, ClientStep, TimesOut, Resend, HeartbeatPasses, expiryVars
  <2>3. q = s
    <3>1. state'[s] = state[s] \/ q = s
      <4>1. ASSUME NEW x, state' = [state EXCEPT ![q] = x] PROVE state'[s] = state[s] \/ q = s
        BY <1>1, <4>1
      <4>2. CASE Publish(q)
        BY <4>2 DEF Publish
      <4>3. CASE HandlePeer(q)
        BY <4>1, <4>3 DEF HandlePeer, Gone
      <4>4. ASSUME NEW c, HandleRequest(q, c) PROVE state'[s] = state[s] \/ q = s
        BY <4>1, <4>4 DEF HandleRequest, Gone
      <4> QED BY <2>2, <4>2, <4>3, <4>4 DEF ServerStep
    <3> QED BY <2>1, <3>1
  <2>4. PICK c : HandleRequest(s, c)
    <3>1. ~Publish(s)
      BY <2>1 DEF Publish
    <3>2. ~HandlePeer(s)
      BY <1>1, <2>1 DEF HandlePeer, Gone, PeerEvent, StarInv, NewsIsStillTrue, States
    <3> QED BY <2>2, <2>3, <3>1, <3>2 DEF ServerStep
  <2>5. RequestEvent(state[s], silence[s]) = "bad"
    <3>1. RequestEvent(state[s], silence[s]) # "bad" => state'[s] = RequestEvent(state[s], silence[s])
      BY <1>1, <2>4 DEF HandleRequest
    <3> QED BY <2>1, <3>1 DEF RequestEvent
  <2>6. PICK r \in frontend[s] : \E lost \in SUBSET frontend[s] : r \in lost /\ Gone(s, lost)
    BY <2>4, <2>5 DEF HandleRequest
  <2>7. r \notin frontend'[s]
    BY <1>1, <2>6 DEF Gone, ExpiryTypeOK
  <2>8. silence[s] < PeerExpiry
    BY <1>1, <2>1, <2>5 DEF RequestEvent, PeerExpiry
  <2>9. ~(r.live /\ client[r.client].moved)
    <3>1. r.client \in ExpiryClients
      BY <1>1, <2>6 DEF ExpiryTypeOK, ExpiryRequests
    <3> QED BY <1>1, <2>1, <2>8, <3>1 DEF LiveIsWaitedFor, MovedAndSettled, AfterMove, PeerExpiry
  <2> QED BY <2>7, <2>9
<1> QED BY <1>1, ExpiryInvariant, PTL DEF ExpirySpec, FailoverIsLateEnough

-----------------------------------------------------------------------------
(* Reads of lts_storage *)

LEMMA HostOfCopy == \A t \in Tiles, r \in Replicas : Host(t, r) \in Hosts
BY NodeAssumption DEF Tiles, Replicas, Host, Hosts

LEMMA GetStarts == GetInit => GetInv
<1> SUFFICES ASSUME GetInit PROVE GetInv
  OBVIOUS
<1> DEFINE File == [ver : 0 .. MaxVersion, time : {"epoch", "now"}]
<1>1. files \in [Replicas -> [Tiles -> File]]
  <2>1. NoFile \in File /\ [ver |-> 1, time |-> "now"] \in File
    BY NodeAssumption, RecheckAssumption DEF NoFile
  <2> HIDE DEF File
  <2> QED BY <2>1 DEF GetInit
<1>2. 1 \in Tiles /\ 0 \in Replicas
  BY NodeAssumption DEF Tiles, Replicas
<1>3. GetTypeOK
  BY <1>1, <1>2, RecheckAssumption DEF GetInit, GetTypeOK, NodeTypeOK, Outcomes
<1> QED BY <1>3, RecheckAssumption
        DEF GetInit, GetInv, MarksElapse, CalmGet, MissedOnlyAfterFailure

\* An attempt ends with an answer of the node, or without one because the host is
\* marked, unreachable, or has no file; only an unreachable host is marked.
LEMMA AttemptAnswers ==
  ASSUME GetTypeOK, NEW t \in Tiles, NEW r \in Replicas, NEW answer, Attempt(t, r, answer)
  PROVE  /\ \/ UNCHANGED m_hosts_down
            \/ \E h \in Hosts \ up : m_hosts_down' = [m_hosts_down EXCEPT ![h] = m_down_recheck_time + 1]
         /\ answer = "none" => \/ files[r][t].ver = 0
                               \/ Host(t, r) \notin up
                               \/ m_hosts_down[Host(t, r)] > 0
<1>1. Host(t, r) \in Hosts
  BY HostOfCopy
<1>2. files[r][t].ver # 0 => \A served \in ServeTile(t, r) : served \in {"good", "dirty"}
  BY DEF ServeTile
<1> QED BY <1>1, <1>2 DEF Attempt, is_host_down, host_is_down

LEMMA GetTypesKept == GetTypeOK /\ [GetNext]_getVars => GetTypeOK'
<1> SUFFICES ASSUME GetTypeOK, [GetNext]_getVars PROVE GetTypeOK'
  OBVIOUS
<1> USE RecheckAssumption
<1>1. ASSUME StartGet PROVE GetTypeOK'
  <2>1. (up = Hosts /\ cut > m_down_recheck_time) \in BOOLEAN
    BY Zenon
  <2> DEFINE calm == up = Hosts /\ cut > m_down_recheck_time
  <2> HIDE DEF calm
  <2>2. PICK t \in Tiles : get' = [tile |-> t, replica |-> 0, result |-> "asking", calm |-> calm]
    BY <1>1 DEF StartGet, calm
  <2>3. calm \in BOOLEAN
    BY <2>1 DEF calm
  <2>4. get' \in [tile : Tiles, replica : Replicas, calm : BOOLEAN, result : Outcomes \union {"idle", "asking"}]
    BY <2>2, <2>3 DEF Replicas
  <2> QED BY <1>1, <2>4 DEF StartGet, GetTypeOK, NodeTypeOK, nodeVars
<1>2. ASSUME GetStep PROVE GetTypeOK'
  <2>1. PICK answer \in Outcomes :
          /\ Attempt(get.tile, get.replica, answer)
          /\ get' = IF answer = "none" /\ get.replica = 0
                      THEN [get EXCEPT !.replica = 1]
                      ELSE [get EXCEPT !.result = answer]
    BY <1>2 DEF GetStep
  <2>2. get.tile \in Tiles /\ get.replica \in Replicas
    BY DEF GetTypeOK
  <2>3. m_hosts_down' \in [Hosts -> 0 .. m_down_recheck_time + 1]
    BY <2>1, <2>2, AttemptAnswers DEF GetTypeOK
  <2>4. get' \in [tile : Tiles, replica : Replicas, calm : BOOLEAN, result : Outcomes \union {"idle", "asking"}]
    BY <2>1 DEF GetTypeOK, Replicas
  <2> QED BY <1>2, <2>3, <2>4 DEF GetStep, GetTypeOK, NodeTypeOK, nodeVars
<1>r. ASSUME RequestFails PROVE GetTypeOK'
  <2>1. m_hosts_down' \in [Hosts -> 0 .. m_down_recheck_time + 1]
    BY <1>r DEF RequestFails, host_is_down, GetTypeOK
  <2>2. get' \in [tile : Tiles, replica : Replicas, calm : BOOLEAN, result : Outcomes \union {"idle", "asking"}]
    BY <1>r DEF RequestFails, GetTypeOK, Replicas, Outcomes
  <2> QED BY <1>r, <2>1, <2>2 DEF RequestFails, GetTypeOK, NodeTypeOK, nodeVars
<1>3. ASSUME HostUpOrDown PROVE GetTypeOK'
  <2>1. NodeTypeOK'
    BY <1>3 DEF HostUpOrDown, HostFails, HostReturns, GetTypeOK, NodeTypeOK
  <2>2. get' \in [tile : Tiles, replica : Replicas, calm : BOOLEAN, result : Outcomes \union {"idle", "asking"}]
    BY <1>3 DEF HostUpOrDown, GetTypeOK
  <2> QED BY <1>3, <2>1, <2>2 DEF HostUpOrDown, GetTypeOK
<1>4. ASSUME ClockTick PROVE GetTypeOK'
  <2>1. m_hosts_down' \in [Hosts -> 0 .. m_down_recheck_time + 1]
    BY <1>4 DEF ClockTick, is_host_down, GetTypeOK
  <2>2. cut' \in 0 .. m_down_recheck_time + 1
    BY <1>4 DEF ClockTick, GetTypeOK
  <2> QED BY <1>4, <2>1, <2>2 DEF ClockTick, GetTypeOK, NodeTypeOK, nodeVars
<1>5. ASSUME UNCHANGED getVars PROVE GetTypeOK'
  BY <1>5 DEF GetTypeOK, NodeTypeOK, getVars, nodeVars
<1> QED BY <1>1, <1>2, <1>r, <1>3, <1>4, <1>5 DEF GetNext

LEMMA MarksElapseKept == GetInv /\ [GetNext]_getVars => MarksElapse'
<1> SUFFICES ASSUME GetInv, [GetNext]_getVars PROVE MarksElapse'
  OBVIOUS
<1> USE RecheckAssumption DEF MarksElapse
<1>1. ASSUME StartGet PROVE MarksElapse'
  BY <1>1 DEF StartGet, GetInv, nodeVars
<1>2. ASSUME GetStep PROVE MarksElapse'
  <2>1. PICK answer : Attempt(get.tile, get.replica, answer)
    BY <1>2 DEF GetStep
  <2>2. \/ UNCHANGED m_hosts_down
        \/ \E h \in Hosts \ up : m_hosts_down' = [m_hosts_down EXCEPT ![h] = m_down_recheck_time + 1]
    BY <2>1, AttemptAnswers DEF GetInv, GetTypeOK
  <2> QED BY <1>2, <2>2 DEF GetStep, GetInv, GetTypeOK, nodeVars
<1>r. ASSUME RequestFails PROVE MarksElapse'
  BY <1>r DEF RequestFails, host_is_down, GetInv, GetTypeOK, nodeVars
<1>3. ASSUME HostUpOrDown PROVE MarksElapse'
  BY <1>3 DEF HostUpOrDown, GetInv, GetTypeOK
<1>4. ASSUME ClockTick PROVE MarksElapse'
  BY <1>4 DEF ClockTick, is_host_down, GetInv, GetTypeOK, nodeVars
<1>5. ASSUME UNCHANGED getVars PROVE MarksElapse'
  BY <1>5 DEF GetInv, getVars, nodeVars
<1> QED BY <1>1, <1>2, <1>r, <1>3, <1>4, <1>5 DEF GetNext

LEMMA CalmGetKept == GetInv /\ [GetNext]_getVars => CalmGet' /\ MissedOnlyAfterFailure'
<1> SUFFICES ASSUME GetInv, [GetNext]_getVars PROVE CalmGet' /\ MissedOnlyAfterFailure'
  OBVIOUS
<1> USE RecheckAssumption DEF CalmGet, MissedOnlyAfterFailure
<1>1. ASSUME StartGet PROVE CalmGet' /\ MissedOnlyAfterFailure'
  <2>1. get'.calm => up = Hosts /\ cut > m_down_recheck_time
    <3> DEFINE calm == up = Hosts /\ cut > m_down_recheck_time
    <3> HIDE DEF calm
    <3>1. \E t \in Tiles : get' = [tile |-> t, replica |-> 0, result |-> "asking", calm |-> calm]
      BY <1>1 DEF StartGet, calm
    <3>2. get'.calm = calm
      BY <3>1
    <3> QED BY <3>2 DEF calm
  <2>2. get'.replica = 0 /\ get'.result = "asking"
    BY <1>1 DEF StartGet
  <2> QED BY <1>1, <2>1, <2>2 DEF StartGet, nodeVars
<1>2. ASSUME GetStep PROVE CalmGet' /\ MissedOnlyAfterFailure'
  <2>1. PICK answer \in Outcomes :
          /\ Attempt(get.tile, get.replica, answer)
          /\ get' = IF answer = "none" /\ get.replica = 0
                      THEN [get EXCEPT !.replica = 1]
                      ELSE [get EXCEPT !.result = answer]
    BY <1>2 DEF GetStep
  <2>2. get.tile \in Tiles /\ get.replica \in Replicas
    BY DEF GetInv, GetTypeOK
  <2>3. get.calm /\ answer = "none" => files[get.replica][get.tile].ver = 0
    <3>1. Host(get.tile, get.replica) \in Hosts
      BY <2>2, HostOfCopy
    <3>2. get.calm => up = Hosts /\ m_hosts_down[Host(get.tile, get.replica)] = 0
      BY <3>1 DEF GetInv, GetTypeOK, MarksElapse
    <3> QED BY <2>1, <2>2, <3>1, <3>2, AttemptAnswers DEF GetInv
  <2>4. UNCHANGED <<files, up, cut>> /\ get'.calm = get.calm /\ get'.tile = get.tile
    BY <1>2, <2>1 DEF GetStep, nodeVars, GetInv, GetTypeOK
  <2>5. CASE answer = "none" /\ get.replica = 0
    <3>1. get'.replica = 1 /\ get'.result = "asking"
      BY <1>2, <2>1, <2>5 DEF GetStep, GetInv, GetTypeOK
    <3> QED BY <2>3, <2>4, <2>5, <3>1 DEF GetInv
  <2>6. CASE ~(answer = "none" /\ get.replica = 0)
    <3>1. get'.replica = get.replica /\ get'.result = answer
      BY <2>1, <2>6 DEF GetInv, GetTypeOK
    <3> QED BY <2>2, <2>3, <2>4, <2>6, <3>1 DEF GetInv, Stored, Replicas
  <2> QED BY <2>5, <2>6
<1>r. ASSUME RequestFails PROVE CalmGet' /\ MissedOnlyAfterFailure'
  <2>1. get'.calm = FALSE
    BY <1>r DEF RequestFails, GetInv, GetTypeOK
  <2> QED BY <2>1
<1>3. ASSUME HostUpOrDown PROVE CalmGet' /\ MissedOnlyAfterFailure'
  BY <1>3 DEF HostUpOrDown, GetInv, GetTypeOK
<1>4. ASSUME ClockTick PROVE CalmGet' /\ MissedOnlyAfterFailure'
  BY <1>4 DEF ClockTick, GetInv, GetTypeOK, nodeVars, Stored
<1>5. ASSUME UNCHANGED getVars PROVE CalmGet' /\ MissedOnlyAfterFailure'
  BY <1>5 DEF GetInv, getVars, nodeVars, Stored
<1> QED BY <1>1, <1>2, <1>r, <1>3, <1>4, <1>5 DEF GetNext

LEMMA GetInvKept == GetInv /\ [GetNext]_getVars => GetInv'
BY GetTypesKept, MarksElapseKept, CalmGetKept DEF GetInv

(***************************************************************************)
(* lts_storage::get, for all hosts, tiles and recheck times: a tile that   *)
(* either copy has is missed only by a get that hosts failed or returned,  *)
(* or a request failed, during, or within the recheck time before.         *)
(***************************************************************************)
THEOREM StoredTilesAreFound == GetSpec => [](GetTypeOK /\ MissedOnlyAfterFailure)
<1>1. GetInv => GetTypeOK /\ MissedOnlyAfterFailure
  BY DEF GetInv
<1> QED BY <1>1, GetStarts, GetInvKept, PTL DEF GetSpec

-----------------------------------------------------------------------------
(* The tile submitter *)

\* A heartbeat that lapses changes neither who is live nor what was reported.
LEMMA LengthIsOfTheLive ==
  ASSUME NEW rep, NEW rep2,
         \A b \in SubmitBrokers : rep2[b].is_live = rep[b].is_live /\ rep2[b].queue_size = rep[b].queue_size
  PROVE  queue_length(rep2) = queue_length(rep)
<1>1. LiveBrokers(rep2) = LiveBrokers(rep)
  BY DEF LiveBrokers
<1>2. [b \in LiveBrokers(rep2) |-> rep2[b].queue_size] = [b \in LiveBrokers(rep) |-> rep[b].queue_size]
  BY <1>1 DEF LiveBrokers
<1> QED BY <1>2 DEF queue_length

LEMMA SubmitStarts == SubmitInit => SubmitInv
<1> SUFFICES ASSUME SubmitInit PROVE SubmitInv
  OBVIOUS
<1>1. input \in Seq(Lines)
  BY SubmitAssumption DEF SubmitInit
<1>2. reported \in [SubmitBrokers -> [queue_size : 0 .. MaxQueue, is_live : BOOLEAN, beats : BOOLEAN]]
  BY SubmitAssumption DEF SubmitInit
<1>3. SubmitTypeOK
  BY <1>1, <1>2, SubmitAssumption DEF SubmitInit, SubmitTypeOK
<1> QED BY <1>3 DEF SubmitInit, SubmitInv, LengthStands, PutOnlyWhenShort

LEMMA SubmitStepTypes == SubmitTypeOK /\ [SubmitNext]_submitVars => SubmitTypeOK'
<1> SUFFICES ASSUME SubmitTypeOK, [SubmitNext]_submitVars PROVE SubmitTypeOK'
  OBVIOUS
<1> DEFINE Report == [queue_size : 0 .. MaxQueue, is_live : BOOLEAN, beats : BOOLEAN]
<1> USE SubmitAssumption
<1>1. ASSUME Settled \/ PauseEnds PROVE SubmitTypeOK'
  BY <1>1 DEF Settled, PauseEnds, SubmitTypeOK
<1>2. ASSUME NextTile PROVE SubmitTypeOK'
  <2>1. input' \in Seq(Lines)
    BY <1>2 DEF NextTile, SubmitTypeOK
  <2> QED BY <1>2, <2>1 DEF NextTile, SubmitTypeOK
<1>3. ASSUME PutJob PROVE SubmitTypeOK'
  <2>1. reported' \in [SubmitBrokers -> Report]
    <3>1. \A b \in SubmitBrokers : [reported[b] EXCEPT !.is_live = reported[b].beats] \in Report
      BY DEF SubmitTypeOK
    <3> QED BY <1>3, <3>1 DEF PutJob, AfterUpdate
  <2>2. queued' \in [SubmitBrokers -> 0 .. MaxQueue] /\ failed' \in Nat
    <3>1. CASE failed' = failed + 1 /\ UNCHANGED queued
      BY <3>1 DEF SubmitTypeOK
    <3>2. ASSUME NEW b \in SubmitBrokers, UNCHANGED failed,
                 queued' = IF b \in running /\ queued[b] < MaxQueue
                             THEN [queued EXCEPT ![b] = @ + 1] ELSE queued
          PROVE  queued' \in [SubmitBrokers -> 0 .. MaxQueue] /\ failed' \in Nat
      BY <3>2 DEF SubmitTypeOK
    <3> QED BY <1>3, <3>1, <3>2 DEF PutJob, LiveBrokers
  <2> QED BY <1>3, <2>1, <2>2 DEF PutJob, SubmitTypeOK
<1>4. ASSUME PollNothing PROVE SubmitTypeOK'
  <2>1. queue_short' \in BOOLEAN
    BY <1>4, Zenon DEF PollNothing, QueueShort
  <2> QED BY <1>4, <2>1 DEF PollNothing, SubmitTypeOK
<1>5. ASSUME SettleTimePasses \/ BrokerDies PROVE SubmitTypeOK'
  BY <1>5 DEF SettleTimePasses, BrokerDies, SubmitTypeOK
<1>6. ASSUME NEW b \in SubmitBrokers, Hear(b) PROVE SubmitTypeOK'
  <2>1. reported' \in [SubmitBrokers -> Report]
    <3>1. reported[b] \in Report /\ queued[b] \in 0 .. MaxQueue
      BY DEF SubmitTypeOK
    <3>2. [reported[b] EXCEPT !.queue_size = queued[b], !.beats = TRUE] \in Report
      BY <3>1
    <3> QED BY <1>6, <3>2, Zenon DEF Hear, Heard, SubmitTypeOK
  <2>2. queue_short' \in BOOLEAN
    <3>1. queue_short \in BOOLEAN BY DEF SubmitTypeOK
    <3> QED BY <1>6, <3>1, Zenon DEF Hear
  <2>3. step' \in {"settle", "next", "wait", "put", "pause", "polled", "end"}
    BY <1>6 DEF Hear, SubmitTypeOK, Polling
  <2> QED BY <1>6, <2>1, <2>2, <2>3 DEF Hear, SubmitTypeOK
<1>7. ASSUME NEW b \in SubmitBrokers, WorkerTakes(b) PROVE SubmitTypeOK'
  BY <1>7 DEF WorkerTakes, SubmitTypeOK
<1>8. ASSUME NEW b \in SubmitBrokers, BeatLapses(b) PROVE SubmitTypeOK'
  BY <1>8 DEF BeatLapses, SubmitTypeOK
<1>9. ASSUME UNCHANGED submitVars PROVE SubmitTypeOK'
  BY <1>9 DEF SubmitTypeOK, submitVars
<1> QED BY <1>1, <1>2, <1>3, <1>4, <1>5, <1>6, <1>7, <1>8, <1>9 DEF SubmitNext, SubmitStep

LEMMA LengthStandsKept == SubmitInv /\ [SubmitNext]_submitVars => LengthStands'
<1> SUFFICES ASSUME SubmitInv, [SubmitNext]_submitVars PROVE LengthStands'
  OBVIOUS
<1> USE DEF LengthStands
<1>1. ASSUME Settled \/ PauseEnds PROVE LengthStands'
  BY <1>1 DEF Settled, PauseEnds, SubmitInv, QueueShort
<1>2. ASSUME NextTile PROVE LengthStands'
  BY <1>2 DEF NextTile, SubmitInv, QueueShort
<1>3. ASSUME PutJob PROVE LengthStands'
  BY <1>3 DEF PutJob
<1>4. ASSUME PollNothing PROVE LengthStands'
  BY <1>4 DEF PollNothing, QueueShort
<1>5. ASSUME SettleTimePasses \/ BrokerDies PROVE LengthStands'
  BY <1>5 DEF SettleTimePasses, BrokerDies, SubmitInv, QueueShort
<1>6. ASSUME NEW b \in SubmitBrokers, Hear(b) PROVE LengthStands'
  BY <1>6 DEF Hear, SubmitInv, QueueShort, Polling
<1>7. ASSUME NEW b \in SubmitBrokers, WorkerTakes(b) PROVE LengthStands'
  BY <1>7 DEF WorkerTakes, SubmitInv, QueueShort
<1>8. ASSUME NEW b \in SubmitBrokers, BeatLapses(b) PROVE LengthStands'
  <2>1. queue_length(reported') = queue_length(reported)
    <3>1. \A d \in SubmitBrokers : reported'[d].is_live = reported[d].is_live /\ reported'[d].queue_size = reported[d].queue_size
      BY <1>8 DEF BeatLapses, SubmitInv, SubmitTypeOK
    <3> QED BY <3>1, LengthIsOfTheLive
  <2> QED BY <1>8, <2>1 DEF BeatLapses, SubmitInv, QueueShort
<1>9. ASSUME UNCHANGED submitVars PROVE LengthStands'
  BY <1>9 DEF SubmitInv, submitVars, QueueShort
<1> QED BY <1>1, <1>2, <1>3, <1>4, <1>5, <1>6, <1>7, <1>8, <1>9 DEF SubmitNext, SubmitStep

LEMMA SubmitInvKept == SubmitInv /\ [SubmitNext]_submitVars => SubmitInv'
<1> SUFFICES ASSUME SubmitInv, [SubmitNext]_submitVars PROVE SubmitInv'
  OBVIOUS
<1>1. SubmitTypeOK' /\ LengthStands'
  BY SubmitStepTypes, LengthStandsKept DEF SubmitInv
<1> QED BY <1>1 DEF SubmitInv, LengthStands, PutOnlyWhenShort

(***************************************************************************)
(* enqueue_tiles, for all brokers, inputs and limits: a job is put only    *)
(* when the length that the runner has at that moment is short, and its    *)
(* settling time is over.                                                  *)
(***************************************************************************)
THEOREM JobsArePutWhenShort == SubmitSpec => [](SubmitTypeOK /\ PutOnlyWhenShort)
<1>1. SubmitInv => SubmitTypeOK /\ PutOnlyWhenShort
  BY DEF SubmitInv
<1> QED BY <1>1, SubmitStarts, SubmitInvKept, PTL DEF SubmitSpec

-----------------------------------------------------------------------------
(* The monitor thread of a broker *)

LEMMA TimedCommands == Timed = {"HEARTBEAT", RESUBMIT} /\ RESUBMIT # "HEARTBEAT" /\ "thread" \in Peers
BY Zenon DEF Timed, Peers, RESUBMIT

LEMMA TimersGiveSchedule == MonitorTypeOK /\ TimersAddUp => OnSchedule
<1> SUFFICES ASSUME MonitorTypeOK, TimersAddUp PROVE OnSchedule
  OBVIOUS
<1> DEFINE h == since["HEARTBEAT"]
           r == since[RESUBMIT]
<1>1. h \in Nat /\ r \in Nat /\ next_heartbeat \in Nat /\ next_resubmit \in Nat
  BY IntervalAssumption, TimedCommands DEF MonitorTypeOK
<1>2. /\ h + next_heartbeat <= heartbeat_interval
      /\ IF monitor = "await_resubmit" THEN r = 0 ELSE r + next_resubmit = resubmit_interval
  BY DEF TimersAddUp
<1> HIDE DEF h, r
<1>3. /\ h <= heartbeat_interval /\ r <= resubmit_interval
      /\ next_resubmit = 0 /\ monitor # "await_resubmit" => r = resubmit_interval
  BY <1>1, <1>2, IntervalAssumption
<1> QED BY <1>3 DEF OnSchedule, h, r

LEMMA MonitorStarts == MonitorInit => MonitorTypeOK /\ TimersAddUp
<1> SUFFICES ASSUME MonitorInit PROVE MonitorTypeOK /\ TimersAddUp
  OBVIOUS
<1>1. since \in [Timed -> Nat] /\ since["HEARTBEAT"] = 0 /\ since[RESUBMIT] = 0
  BY TimedCommands DEF MonitorInit
<1>2. command \in [Peers -> Timed \cup OperatorCommands \cup {"none"}] /\ reply \in [Peers -> BOOLEAN]
  BY DEF MonitorInit
<1>3. MonitorTypeOK
  <2>1. next_heartbeat \in 0 .. heartbeat_interval /\ next_resubmit \in 0 .. resubmit_interval
    BY IntervalAssumption DEF MonitorInit
  <2> QED BY <1>1, <1>2, <2>1 DEF MonitorInit, MonitorTypeOK
<1> QED BY <1>1, <1>3, IntervalAssumption DEF MonitorInit, TimersAddUp

LEMMA ThreadStepTypes == MonitorTypeOK /\ ThreadStep => MonitorTypeOK'
<1> USE IntervalAssumption, TimedCommands
<1>1. ASSUME MonitorTypeOK, LoopTest PROVE MonitorTypeOK'
  <2>1. since' \in [Timed -> Nat] /\ command' \in [Peers -> Timed \cup OperatorCommands \cup {"none"}]
    <3>1. CASE UNCHANGED <<command, since>>
      BY <1>1, <3>1 DEF MonitorTypeOK
    <3>2. CASE Send("HEARTBEAT", "await_heartbeat")
      BY <1>1, <3>2 DEF Send, MonitorTypeOK
    <3> QED BY <1>1, <3>1, <3>2 DEF LoopTest
  <2> QED BY <1>1, <2>1 DEF LoopTest, Send, MonitorTypeOK
<1>2. ASSUME MonitorTypeOK, HeartbeatDone PROVE MonitorTypeOK'
  BY <1>2 DEF HeartbeatDone, ReadReply, MonitorTypeOK
<1>3. ASSUME MonitorTypeOK, ResubmitTest PROVE MonitorTypeOK'
  BY <1>3 DEF ResubmitTest, Send, MonitorTypeOK
<1>4. ASSUME MonitorTypeOK, ResubmitDone PROVE MonitorTypeOK'
  BY <1>4 DEF ResubmitDone, ReadReply, MonitorTypeOK
<1>5. ASSUME MonitorTypeOK, Sleep PROVE MonitorTypeOK'
  BY <1>5 DEF Sleep, MonitorTypeOK
<1> QED BY <1>1, <1>2, <1>3, <1>4, <1>5 DEF ThreadStep

LEMMA ThreadStepTimes == MonitorTypeOK /\ TimersAddUp /\ ThreadStep => TimersAddUp'
<1> USE IntervalAssumption, TimedCommands
<1>1. ASSUME MonitorTypeOK, TimersAddUp, LoopTest PROVE TimersAddUp'
  <2>1. CASE Send("HEARTBEAT", "await_heartbeat") /\ next_heartbeat = 0
    <3>1. since'["HEARTBEAT"] = 0 /\ since'[RESUBMIT] = since[RESUBMIT]
      BY <1>1, <2>1 DEF Send, MonitorTypeOK
    <3> QED BY <1>1, <2>1, <3>1 DEF LoopTest, Send, MonitorTypeOK, TimersAddUp
  <2>2. CASE UNCHANGED since /\ monitor' \in {"exited", "resubmit"}
    BY <1>1, <2>2 DEF LoopTest, MonitorTypeOK, TimersAddUp
  <2> QED BY <1>1, <2>1, <2>2 DEF LoopTest
<1>2. ASSUME MonitorTypeOK, TimersAddUp, HeartbeatDone PROVE TimersAddUp'
  BY <1>2 DEF HeartbeatDone, ReadReply, MonitorTypeOK, TimersAddUp
<1>3. ASSUME MonitorTypeOK, TimersAddUp, ResubmitTest PROVE TimersAddUp'
  BY <1>3 DEF ResubmitTest, Send, MonitorTypeOK, TimersAddUp
<1>4. ASSUME MonitorTypeOK, TimersAddUp, ResubmitDone PROVE TimersAddUp'
  BY <1>4 DEF ResubmitDone, ReadReply, MonitorTypeOK, TimersAddUp
<1>5. ASSUME MonitorTypeOK, TimersAddUp, Sleep PROVE TimersAddUp'
  BY <1>5 DEF Sleep, MonitorTypeOK, TimersAddUp
<1> QED BY <1>1, <1>2, <1>3, <1>4, <1>5 DEF ThreadStep

LEMMA ThreadStepKeepsInv == MonitorInv /\ ThreadStep => MonitorInv'
<1> SUFFICES ASSUME MonitorInv, ThreadStep PROVE MonitorInv'
  OBVIOUS
<1>1. MonitorTypeOK' /\ TimersAddUp'
  BY ThreadStepTypes, ThreadStepTimes DEF MonitorInv
<1>2. OnSchedule'
  BY <1>1, TimersGiveSchedule, PTL
<1> QED BY <1>1, <1>2 DEF MonitorInv

LEMMA OtherMonitorStepKeepsInv ==
  ASSUME MonitorInv,
         \/ \E p \in Peers : Serve(p)
         \/ Join
         \/ \E c \in OperatorCommands : OperatorSend(c)
         \/ OperatorRead
         \/ UNCHANGED monitorVars
  PROVE  MonitorInv'
<1>1. MonitorTypeOK'
  <2>1. ASSUME NEW p \in Peers, Serve(p) PROVE MonitorTypeOK'
    BY <2>1 DEF Serve, MonitorInv, MonitorTypeOK, threadVars
  <2>2. ASSUME Join PROVE MonitorTypeOK'
    BY <2>2 DEF Join, MonitorInv, MonitorTypeOK, threadVars
  <2>3. ASSUME NEW c \in OperatorCommands, OperatorSend(c) PROVE MonitorTypeOK'
    BY <2>3 DEF OperatorSend, MonitorInv, MonitorTypeOK, threadVars
  <2>4. ASSUME OperatorRead PROVE MonitorTypeOK'
    BY <2>4 DEF OperatorRead, MonitorInv, MonitorTypeOK, threadVars
  <2>5. ASSUME UNCHANGED monitorVars PROVE MonitorTypeOK'
    BY <2>5 DEF MonitorInv, MonitorTypeOK, threadVars, monitorVars
  <2> QED BY <2>1, <2>2, <2>3, <2>4, <2>5
<1>2. UNCHANGED <<monitor, next_heartbeat, next_resubmit, since>>
  BY DEF Serve, Join, OperatorSend, OperatorRead, monitorVars, threadVars
<1> QED BY <1>1, <1>2 DEF MonitorInv, TimersAddUp, OnSchedule

LEMMA MonitorInvKept == MonitorInv /\ [MonitorNext]_monitorVars => MonitorInv'
BY ThreadStepKeepsInv, OtherMonitorStepKeepsInv DEF MonitorNext

LEMMA MonitorInvStarts == MonitorInit => MonitorInv
BY MonitorStarts, TimersGiveSchedule DEF MonitorInv

(***************************************************************************)
(* task_monitor, for all intervals: neither timer wraps below zero, the    *)
(* thread never sleeps past the time of either command, and a RESUBMIT is  *)
(* due exactly when its interval has passed, whatever HEARTBEATs and       *)
(* commands of an operator come in between.                                *)
(***************************************************************************)
THEOREM MonitorIsOnSchedule == MonitorSpec => [](MonitorTypeOK /\ OnSchedule)
<1>1. MonitorInv => MonitorTypeOK /\ OnSchedule
  BY DEF MonitorInv
<1> QED BY <1>1, MonitorInvStarts, MonitorInvKept, PTL DEF MonitorSpec

-----------------------------------------------------------------------------
(* The relatives that expire_tiles collects *)

LEMMA ClipIs ==
  ASSUME NEW n \in Nat
  PROVE  Clip(n) \in Nat /\ Clip(n) = METATILE * (n \div METATILE)
<1>1. METATILE \in Nat \ {0} BY ExpireAssumption
<1> DEFINE q == n \div METATILE
           r == n % METATILE
<1>2. q \in Nat /\ r \in 0 .. METATILE - 1 /\ n = METATILE * q + r BY <1>1, Quotient
<1> HIDE DEF q, r
<1>3. METATILE * q \in Nat BY <1>1, <1>2
<1>4. n - r = METATILE * q BY <1>1, <1>2, <1>3
<1> QED BY <1>3, <1>4 DEF Clip, q, r

\* Numbers in the same metatile are clipped to the same, and so are their halves.
LEMMA ClippedAlike ==
  ASSUME NEW m \in Nat, NEW n \in Nat, m \div METATILE = n \div METATILE
  PROVE  /\ Clip(m) = Clip(n)
         /\ m \div 2 \in Nat /\ n \div 2 \in Nat
         /\ (m \div 2) \div METATILE = (n \div 2) \div METATILE
<1>1. METATILE \in Nat \ {0} BY ExpireAssumption
<1>2. Clip(m) = Clip(n) BY ClipIs
<1>3. m \div 2 \in Nat /\ n \div 2 \in Nat OBVIOUS
<1>4. 2 \in Nat \ {0} OBVIOUS
<1>5. (m \div 2) \div METATILE = (m \div METATILE) \div 2 BY <1>1, <1>4, DivisionsCommute
<1>6. (n \div 2) \div METATILE = (n \div METATILE) \div 2 BY <1>1, <1>4, DivisionsCommute
<1> QED BY <1>2, <1>3, <1>5, <1>6

LEMMA ClipKeepsMeta ==
  ASSUME NEW n \in Nat
  PROVE  Clip(n) \div METATILE = n \div METATILE
<1>1. METATILE \in Nat \ {0} BY ExpireAssumption
<1> DEFINE q == n \div METATILE
<1>2. q \in Nat BY <1>1, Quotient
<1>3. Clip(n) \in Nat /\ Clip(n) = METATILE * q BY ClipIs
<1> HIDE DEF q
<1>4. Clip(n) = METATILE * q + 0 /\ 0 \in 0 .. METATILE - 1 BY <1>1, <1>2, <1>3
<1>5. Clip(n) \div METATILE = q BY <1>1, <1>2, <1>3, <1>4, QuotientIs
<1> QED BY <1>5 DEF q

LEMMA XyzFields ==
  ASSUME NEW x \in Nat, NEW y \in Nat, NEW z \in Int
  PROVE  Xyz(x, y, z) \in Xyzs /\ Xyz(x, y, z).x = x /\ Xyz(x, y, z).y = y /\ Xyz(x, y, z).z = z
BY DEF Xyz, Xyzs

LEMMA RelativesTyped ==
  ASSUME NEW t \in Xyzs
  PROVE  Meta(t) \in Xyzs /\ Parent(t) \in Xyzs /\ Children(t) \subseteq Xyzs
<1>1. t.x \in Nat /\ t.y \in Nat /\ t.z \in Int BY DEF Xyzs
<1>2. Clip(t.x) \in Nat /\ Clip(t.y) \in Nat BY <1>1, ClipIs
<1>3. t.x \div 2 \in Nat /\ t.y \div 2 \in Nat BY <1>1
<1> QED BY <1>1, <1>2, <1>3 DEF Meta, Parent, Children, Xyz, Xyzs

\* The two recursions, unfolded.
LEMMA ChildTilesDef ==
  /\ \A t \in Xyzs : child_tiles[0][t] = {Meta(t)}
  /\ \A n \in Nat, t \in Xyzs :
       child_tiles[n + 1][t] = {Meta(t)} \union UNION {child_tiles[n][c] : c \in Children(t)}
<1> DEFINE V == [Xyzs -> SUBSET Xyzs]
           a == [t \in Xyzs |-> {Meta(t)}]
           g == [p \in Nat \X V |-> [t \in Xyzs |-> {Meta(t)} \union UNION {p[2][c] : c \in Children(t)}]]
           D(f) == [levels \in Nat |-> [t \in Xyzs |-> {Meta(t)} \union
                      IF levels = 0 THEN {} ELSE UNION {f[levels - 1][c] : c \in Children(t)}]]
           P(h) == h = D(h)
<1>1. a \in V BY RelativesTyped
<1>2. \A m \in Nat, v \in V :
        g[<<m, v>>] = [t \in Xyzs |-> {Meta(t)} \union UNION {v[c] : c \in Children(t)}]
  OBVIOUS
<1>3. \A m \in Nat, v \in V : g[<<m, v>>] \in V
  <2>1. ASSUME NEW v \in V, NEW t \in Xyzs
        PROVE  {Meta(t)} \union UNION {v[c] : c \in Children(t)} \in SUBSET Xyzs
    BY RelativesTyped
  <2>2. ASSUME NEW m \in Nat, NEW v \in V PROVE g[<<m, v>>] \in V
    <3>1. [t \in Xyzs |-> {Meta(t)} \union UNION {v[c] : c \in Children(t)}] \in V
      BY <2>1
    <3>2. g[<<m, v>>] = [t \in Xyzs |-> {Meta(t)} \union UNION {v[c] : c \in Children(t)}]
      BY <1>2
    <3> HIDE DEF g, V
    <3> QED BY <3>1, <3>2
  <2> QED BY <2>2
<1> HIDE DEF g
<1>4. PICK f \in [Nat -> V] : f[0] = a /\ \A n \in Nat : f[n + 1] = g[<<n + 1, f[n]>>]
  <2> HIDE DEF V, a
  <2>1. IsStep(V, g) BY <1>3 DEF IsStep
  <2>2. \E f : Recurses(V, a, g, f) BY <1>1, <2>1, RecursionExists
  <2> QED BY <2>2 DEF Recurses
<1>5. ASSUME NEW n \in Nat PROVE f[n] = D(f)[n]
  <2>1. CASE n = 0 BY <2>1, <1>4
  <2>2. CASE n # 0
    <3>1. n - 1 \in Nat /\ (n - 1) + 1 = n BY <2>2
    <3>2. f[n] = g[<<n, f[n - 1]>>] BY <1>4, <3>1
    <3>3. f[n - 1] \in V BY <1>4, <3>1
    <3>4. f[n] = [t \in Xyzs |-> {Meta(t)} \union UNION {f[n - 1][c] : c \in Children(t)}]
      <4> HIDE DEF V
      <4> QED BY <1>2, <3>2, <3>3
    <3> QED BY <3>4, <2>2
  <2> QED BY <2>1, <2>2
<1>6. P(f) BY <1>4, <1>5
<1>7. child_tiles = CHOOSE h : P(h) BY DEF child_tiles
<1>8. P(child_tiles)
  <2> HIDE DEF P
  <2> QED BY <1>6, <1>7, Zenon
<1>9. ASSUME NEW n \in Nat
      PROVE  child_tiles[n] = [t \in Xyzs |-> {Meta(t)} \union
                IF n = 0 THEN {} ELSE UNION {child_tiles[n - 1][c] : c \in Children(t)}]
  BY <1>8
<1>10. ASSUME NEW n \in Nat, NEW t \in Xyzs
       PROVE  child_tiles[n + 1][t] = {Meta(t)} \union UNION {child_tiles[n][c] : c \in Children(t)}
  <2>1. n + 1 \in Nat /\ n + 1 # 0 /\ (n + 1) - 1 = n OBVIOUS
  <2>2. child_tiles[n + 1] = [u \in Xyzs |-> {Meta(u)} \union
           IF n + 1 = 0 THEN {} ELSE UNION {child_tiles[(n + 1) - 1][c] : c \in Children(u)}]
    BY <2>1, <1>9
  <2> QED BY <2>1, <2>2
<1>11. ASSUME NEW t \in Xyzs PROVE child_tiles[0][t] = {Meta(t)}
  <2>1. child_tiles[0] = [u \in Xyzs |-> {Meta(u)} \union
           IF 0 = 0 THEN {} ELSE UNION {child_tiles[0 - 1][c] : c \in Children(u)}]
    BY <1>9
  <2> QED BY <2>1
<1> QED BY <1>10, <1>11
LEMMA ParentTilesDef ==
  /\ \A t \in Xyzs : parent_tiles[0][t] = {Meta(t)}
  /\ \A n \in Nat, t \in Xyzs : parent_tiles[n + 1][t] = {Meta(t)} \union parent_tiles[n][Parent(t)]
<1> DEFINE V == [Xyzs -> SUBSET Xyzs]
           a == [t \in Xyzs |-> {Meta(t)}]
           g == [p \in Nat \X V |-> [t \in Xyzs |-> {Meta(t)} \union p[2][Parent(t)]]]
           D(f) == [levels \in Nat |-> [t \in Xyzs |-> {Meta(t)} \union
                      IF levels = 0 THEN {} ELSE f[levels - 1][Parent(t)]]]
           P(h) == h = D(h)
<1>1. a \in V BY RelativesTyped
<1>2. \A m \in Nat, v \in V : g[<<m, v>>] = [t \in Xyzs |-> {Meta(t)} \union v[Parent(t)]]
  OBVIOUS
<1>3. ASSUME NEW m \in Nat, NEW v \in V PROVE g[<<m, v>>] \in V
  <2>1. ASSUME NEW t \in Xyzs PROVE {Meta(t)} \union v[Parent(t)] \in SUBSET Xyzs
    BY RelativesTyped
  <2>2. [t \in Xyzs |-> {Meta(t)} \union v[Parent(t)]] \in V BY <2>1
  <2>3. g[<<m, v>>] = [t \in Xyzs |-> {Meta(t)} \union v[Parent(t)]] BY <1>2
  <2> HIDE DEF g, V
  <2> QED BY <2>2, <2>3
<1> HIDE DEF g
<1>4. PICK f \in [Nat -> V] : f[0] = a /\ \A n \in Nat : f[n + 1] = g[<<n + 1, f[n]>>]
  <2> HIDE DEF V, a
  <2>1. IsStep(V, g) BY <1>3 DEF IsStep
  <2>2. \E f : Recurses(V, a, g, f) BY <1>1, <2>1, RecursionExists
  <2> QED BY <2>2 DEF Recurses
<1>5. ASSUME NEW n \in Nat PROVE f[n] = D(f)[n]
  <2>1. CASE n = 0 BY <2>1, <1>4
  <2>2. CASE n # 0
    <3>1. n - 1 \in Nat /\ (n - 1) + 1 = n BY <2>2
    <3>2. f[n] = g[<<n, f[n - 1]>>] BY <1>4, <3>1
    <3>3. f[n - 1] \in V BY <1>4, <3>1
    <3>4. f[n] = [t \in Xyzs |-> {Meta(t)} \union f[n - 1][Parent(t)]]
      <4> HIDE DEF V
      <4> QED BY <1>2, <3>2, <3>3
    <3> QED BY <3>4, <2>2
  <2> QED BY <2>1, <2>2
<1>6. P(f) BY <1>4, <1>5
<1>7. parent_tiles = CHOOSE h : P(h) BY DEF parent_tiles
<1>8. P(parent_tiles)
  <2> HIDE DEF P
  <2> QED BY <1>6, <1>7, Zenon
<1>9. ASSUME NEW n \in Nat
      PROVE  parent_tiles[n] = [t \in Xyzs |-> {Meta(t)} \union
                IF n = 0 THEN {} ELSE parent_tiles[n - 1][Parent(t)]]
  BY <1>8
<1>10. ASSUME NEW n \in Nat, NEW t \in Xyzs
       PROVE  parent_tiles[n + 1][t] = {Meta(t)} \union parent_tiles[n][Parent(t)]
  <2>1. n + 1 \in Nat /\ n + 1 # 0 /\ (n + 1) - 1 = n OBVIOUS
  <2>2. parent_tiles[n + 1] = [u \in Xyzs |-> {Meta(u)} \union
           IF n + 1 = 0 THEN {} ELSE parent_tiles[(n + 1) - 1][Parent(u)]]
    BY <2>1, <1>9
  <2> QED BY <2>1, <2>2
<1>11. ASSUME NEW t \in Xyzs PROVE parent_tiles[0][t] = {Meta(t)}
  <2>1. parent_tiles[0] = [u \in Xyzs |-> {Meta(u)} \union
           IF 0 = 0 THEN {} ELSE parent_tiles[0 - 1][Parent(u)]]
    BY <1>9
  <2> QED BY <2>1
<1> QED BY <1>10, <1>11

\* A tile and one of the same metatile have the same ancestors but for the clipping.
SameMeta(t, u) ==
  /\ t.x \div METATILE = u.x \div METATILE
  /\ t.y \div METATILE = u.y \div METATILE
  /\ t.z = u.z

LEMMA SameMetaSteps ==
  ASSUME NEW t \in Xyzs, NEW u \in Xyzs, SameMeta(t, u)
  PROVE  Meta(t) = Meta(u) /\ SameMeta(Parent(t), Parent(u))
<1>1. t.x \in Nat /\ t.y \in Nat /\ t.z \in Int /\ u.x \in Nat /\ u.y \in Nat /\ u.z \in Int BY DEF Xyzs
<1>2. Clip(t.x) = Clip(u.x) /\ (t.x \div 2) \div METATILE = (u.x \div 2) \div METATILE
  BY <1>1, ClippedAlike DEF SameMeta
<1>3. Clip(t.y) = Clip(u.y) /\ (t.y \div 2) \div METATILE = (u.y \div 2) \div METATILE
  BY <1>1, ClippedAlike DEF SameMeta
<1>4. Meta(t) = Meta(u) BY <1>2, <1>3 DEF Meta, SameMeta
<1>5. Parent(t).x = t.x \div 2 /\ Parent(t).y = t.y \div 2 /\ Parent(t).z = t.z - 1
      /\ Parent(u).x = u.x \div 2 /\ Parent(u).y = u.y \div 2 /\ Parent(u).z = u.z - 1
  BY DEF Parent, Xyz
<1> QED BY <1>2, <1>3, <1>4, <1>5 DEF SameMeta

LEMMA MetaIsSame ==
  ASSUME NEW t \in Xyzs
  PROVE  SameMeta(t, Meta(t)) /\ Meta(t).z = t.z
<1>1. t.x \in Nat /\ t.y \in Nat /\ t.z \in Int BY DEF Xyzs
<1>2. Meta(t).x = Clip(t.x) /\ Meta(t).y = Clip(t.y) /\ Meta(t).z = t.z BY DEF Meta, Xyz
<1> QED BY <1>1, <1>2, ClipKeepsMeta DEF SameMeta

Ancestor(t, d) == Xyz(t.x \div TwoTo[d], t.y \div TwoTo[d], t.z - d)

LEMMA AncestorSteps ==
  ASSUME NEW t \in Xyzs, NEW d \in Nat
  PROVE  /\ Ancestor(t, 0) = t /\ Ancestor(t, d) \in Xyzs /\ Parent(t) \in Xyzs
         /\ Ancestor(t, d + 1) = Ancestor(Parent(t), d)
<1>1. t.x \in Nat /\ t.y \in Nat /\ t.z \in Int /\ t = Xyz(t.x, t.y, t.z) BY DEF Xyzs, Xyz
<1> DEFINE p == TwoTo[d]
<1>2. p \in Nat \ {0} /\ TwoTo[d + 1] = 2 * p /\ TwoTo[0] = 1 BY TwoToDef
<1>3. t.x \div 1 = t.x /\ t.y \div 1 = t.y /\ t.z - 0 = t.z BY <1>1
<1>4. Ancestor(t, 0) = t BY <1>1, <1>2, <1>3 DEF Ancestor
<1> HIDE DEF p
<1>5. t.x \div p \in Nat /\ t.y \div p \in Nat BY <1>1, <1>2, Quotient
<1>6. Ancestor(t, d) \in Xyzs
  <2>1. t.z - d \in Int BY <1>1
  <2> QED BY <1>5, <2>1, XyzFields DEF Ancestor, p
<1>7. Parent(t) \in Xyzs BY RelativesTyped
<1>8. 2 \in Nat \ {0} OBVIOUS
<1>9. (t.x \div 2) \div p = t.x \div (2 * p) /\ (t.y \div 2) \div p = t.y \div (2 * p)
  BY <1>1, <1>2, <1>8, DivisionTwice
<1>10. Parent(t).x = t.x \div 2 /\ Parent(t).y = t.y \div 2 /\ Parent(t).z = t.z - 1 BY DEF Parent, Xyz
<1>11. t.z - (d + 1) = (t.z - 1) - d BY <1>1
<1>12. Ancestor(t, d + 1) = Ancestor(Parent(t), d)
  BY <1>2, <1>9, <1>10, <1>11 DEF Ancestor, p
<1> QED BY <1>4, <1>6, <1>7, <1>12

\* parent_tiles, started from any tile of the same metatile, has the metatiles of
\* a tile's ancestors.
LEMMA ParentTilesHaveAncestors ==
  \A n \in Nat : \A t, u \in Xyzs, d \in 0 .. n :
    SameMeta(t, u) => Meta(Ancestor(t, d)) \in parent_tiles[n][u]
<1> DEFINE S == {n \in Nat : \A t, u \in Xyzs, d \in 0 .. n :
                   SameMeta(t, u) => Meta(Ancestor(t, d)) \in parent_tiles[n][u]}
<1>1. 0 \in S
  <2> SUFFICES ASSUME NEW t \in Xyzs, NEW u \in Xyzs, NEW d \in 0 .. 0, SameMeta(t, u)
               PROVE  Meta(Ancestor(t, d)) \in parent_tiles[0][u]
    OBVIOUS
  <2>1. d = 0 /\ Ancestor(t, 0) = t BY AncestorSteps
  <2> QED BY <2>1, SameMetaSteps, ParentTilesDef
<1>2. ASSUME NEW n \in Nat, n \in S PROVE n + 1 \in S
  <2> SUFFICES ASSUME NEW t \in Xyzs, NEW u \in Xyzs, NEW d \in 0 .. n + 1, SameMeta(t, u)
               PROVE  Meta(Ancestor(t, d)) \in parent_tiles[n + 1][u]
    OBVIOUS
  <2>1. parent_tiles[n + 1][u] = {Meta(u)} \union parent_tiles[n][Parent(u)] BY ParentTilesDef
  <2>2. CASE d = 0
    <3>1. Ancestor(t, 0) = t BY AncestorSteps
    <3> QED BY <2>1, <2>2, <3>1, SameMetaSteps
  <2>3. CASE d # 0
    <3>1. d - 1 \in Nat /\ d - 1 \in 0 .. n /\ (d - 1) + 1 = d BY <2>3
    <3>2. Ancestor(t, d) = Ancestor(Parent(t), d - 1) BY <3>1, AncestorSteps
    <3>3. Parent(t) \in Xyzs /\ Parent(u) \in Xyzs /\ SameMeta(Parent(t), Parent(u))
      BY RelativesTyped, SameMetaSteps
    <3>4. Meta(Ancestor(Parent(t), d - 1)) \in parent_tiles[n][Parent(u)] BY <1>2, <3>1, <3>3
    <3> QED BY <2>1, <3>2, <3>4
  <2> QED BY <2>2, <2>3
<1> HIDE DEF S
<1>3. \A n \in Nat : n \in S BY <1>1, <1>2, AllNaturals
<1> QED BY <1>3 DEF S
Descendant(t, d, i, j) == Xyz(t.x * TwoTo[d] + i, t.y * TwoTo[d] + j, t.z + d)

\* A place among 2p ones is one of p in the half that it is in.
LEMMA HalfOfPlaces ==
  ASSUME NEW x \in Nat, NEW p \in Nat \ {0}, NEW i \in 0 .. 2 * p - 1
  PROVE  \E h \in {0, 1}, k \in 0 .. p - 1 : x * (2 * p) + i = (2 * x + h) * p + k
<1>1. CASE i < p
  <2>1. x * (2 * p) + i = (2 * x + 0) * p + i /\ i \in 0 .. p - 1 BY <1>1
  <2> QED BY <2>1
<1>2. CASE ~(i < p)
  <2>1. (2 * x + 1) * p = x * (2 * p) + p OBVIOUS
  <2>2. i - p \in 0 .. p - 1 BY <1>2
  <2>3. x * (2 * p) \in Nat OBVIOUS
  <2>4. x * (2 * p) + i = (2 * x + 1) * p + (i - p) BY <2>1, <2>2, <2>3
  <2> QED BY <2>2, <2>4
<1> QED BY <1>1, <1>2

LEMMA DescendantSteps ==
  ASSUME NEW t \in Xyzs, NEW d \in Nat, NEW i \in 0 .. TwoTo[d + 1] - 1, NEW j \in 0 .. TwoTo[d + 1] - 1
  PROVE  \E c \in Children(t), k, l \in 0 .. TwoTo[d] - 1 :
           Descendant(t, d + 1, i, j) = Descendant(c, d, k, l)
<1>1. t.x \in Nat /\ t.y \in Nat /\ t.z \in Int BY DEF Xyzs
<1> DEFINE p == TwoTo[d]
<1>2. p \in Nat \ {0} /\ TwoTo[d + 1] = 2 * p BY TwoToDef
<1> HIDE DEF p
<1>3. i \in 0 .. 2 * p - 1 /\ j \in 0 .. 2 * p - 1 BY <1>2
<1>4. PICK h \in {0, 1}, k \in 0 .. p - 1 : t.x * (2 * p) + i = (2 * t.x + h) * p + k
  BY <1>1, <1>2, <1>3, HalfOfPlaces
<1>5. PICK g \in {0, 1}, l \in 0 .. p - 1 : t.y * (2 * p) + j = (2 * t.y + g) * p + l
  BY <1>1, <1>2, <1>3, HalfOfPlaces
<1> DEFINE c == Xyz(2 * t.x + h, 2 * t.y + g, t.z + 1)
<1>6. c \in Children(t) BY DEF Children
<1>7. c.x = 2 * t.x + h /\ c.y = 2 * t.y + g /\ c.z = t.z + 1 BY DEF Xyz
<1> HIDE DEF c
<1>8. t.z + (d + 1) = (t.z + 1) + d BY <1>1
<1>9. Descendant(t, d + 1, i, j) = Descendant(c, d, k, l)
  BY <1>2, <1>4, <1>5, <1>7, <1>8 DEF Descendant, p
<1> QED BY <1>6, <1>9 DEF p

\* child_tiles has the metatiles of all descendants of the tile it starts from.
LEMMA ChildTilesHaveDescendants ==
  \A n \in Nat : \A t \in Xyzs, d \in 0 .. n : \A i, j \in 0 .. TwoTo[d] - 1 :
    Meta(Descendant(t, d, i, j)) \in child_tiles[n][t]
<1> DEFINE S == {n \in Nat : \A t \in Xyzs, d \in 0 .. n : \A i, j \in 0 .. TwoTo[d] - 1 :
                   Meta(Descendant(t, d, i, j)) \in child_tiles[n][t]}
<1>1. ASSUME NEW t \in Xyzs, NEW i \in 0 .. TwoTo[0] - 1, NEW j \in 0 .. TwoTo[0] - 1
      PROVE  Descendant(t, 0, i, j) = t
  <2>1. TwoTo[0] = 1 /\ i = 0 /\ j = 0 BY TwoToDef
  <2>2. t.x \in Nat /\ t.y \in Nat /\ t.z \in Int /\ t = Xyz(t.x, t.y, t.z) BY DEF Xyzs, Xyz
  <2>3. t.x * 1 + 0 = t.x /\ t.y * 1 + 0 = t.y /\ t.z + 0 = t.z BY <2>2
  <2> QED BY <2>1, <2>2, <2>3 DEF Descendant
<1>2. 0 \in S
  <2> SUFFICES ASSUME NEW t \in Xyzs, NEW d \in 0 .. 0, NEW i \in 0 .. TwoTo[d] - 1, NEW j \in 0 .. TwoTo[d] - 1
               PROVE  Meta(Descendant(t, d, i, j)) \in child_tiles[0][t]
    OBVIOUS
  <2>1. d = 0 OBVIOUS
  <2> QED BY <1>1, <2>1, ChildTilesDef
<1>3. ASSUME NEW n \in Nat, n \in S PROVE n + 1 \in S
  <2> SUFFICES ASSUME NEW t \in Xyzs, NEW d \in 0 .. n + 1, NEW i \in 0 .. TwoTo[d] - 1, NEW j \in 0 .. TwoTo[d] - 1
               PROVE  Meta(Descendant(t, d, i, j)) \in child_tiles[n + 1][t]
    OBVIOUS
  <2>1. child_tiles[n + 1][t] = {Meta(t)} \union UNION {child_tiles[n][c] : c \in Children(t)}
    BY ChildTilesDef
  <2>2. CASE d = 0 BY <1>1, <2>1, <2>2
  <2>3. CASE d # 0
    <3>1. d - 1 \in Nat /\ d - 1 \in 0 .. n /\ (d - 1) + 1 = d BY <2>3
    <3>2. PICK c \in Children(t), k \in 0 .. TwoTo[d - 1] - 1, l \in 0 .. TwoTo[d - 1] - 1 :
            Descendant(t, d, i, j) = Descendant(c, d - 1, k, l)
      BY <3>1, DescendantSteps
    <3>3. c \in Xyzs BY RelativesTyped
    <3>4. Meta(Descendant(c, d - 1, k, l)) \in child_tiles[n][c] BY <1>3, <3>1, <3>3
    <3> QED BY <2>1, <3>2, <3>4
  <2> QED BY <2>2, <2>3
<1> HIDE DEF S
<1>4. \A n \in Nat : n \in S BY <1>2, <1>3, AllNaturals
<1> QED BY <1>4 DEF S
-----------------------------------------------------------------------------
(* The split of the metatiles among the threads *)

LEMMA InputTyped ==
  ASSUME NEW in \in ExpireInputs, NEW t \in InputTiles(in)
  PROVE  t \in Xyzs /\ t.z \in Nat
<1> DEFINE L == [kind : {"tile", "empty", "malformed", "overlong"}, tile : [x : Nat, y : Nat, z : Nat]]
           over == {i \in 1 .. Len(in) : in[i].kind = "overlong"}
           c == CHOOSE i \in over : \A j \in over : i <= j
<1>1. in \in Seq(L) BY ExpireAssumption
<1>2. LinesRead(in) \in Seq(L)
  <2>1. CASE over = {} BY <1>1, <2>1 DEF LinesRead
  <2>2. CASE over # {}
    <3>1. over \in SUBSET Nat BY <1>1
    <3>2. c \in over BY <2>2, <3>1, LeastNatural
    <3>3. LinesRead(in) = SubSeq(in, 1, c) BY <2>2 DEF LinesRead
    <3>4. c \in 1 .. Len(in) BY <3>2
    <3> HIDE DEF c, L
    <3>5. SubSeq(in, 1, c) \in Seq(L) BY <1>1, <3>4
    <3> QED BY <3>3, <3>5
  <2> QED BY <2>1, <2>2
<1>3. PICK l \in ToSet(LinesRead(in)) : t = l.tile BY DEF InputTiles
<1> HIDE DEF L
<1>4. l \in L BY <1>2, <1>3 DEF ToSet
<1>5. t \in [x : Nat, y : Nat, z : Nat] BY <1>3, <1>4 DEF L
<1> QED BY <1>5 DEF Xyzs

\* The i-th part of a sequence that is cut into parts of a given length.
IsPart(part, whole, i, per) ==
  /\ \A a \in DOMAIN part :
       /\ a \in 1 .. per /\ (i - 1) * per + a \in 1 .. Len(whole)
       /\ part[a] = whole[(i - 1) * per + a]
  /\ \A a \in 1 .. per : (i - 1) * per + a <= Len(whole) => a \in DOMAIN part

\* Whatever the order, the lists of the threads are parts of it; no place of it
\* is on two lists, and none is left over.
LEMMA ShareIsPart ==
  ASSUME NEW T, NEW order \in Seq(T), NEW n \in Nat \ {0}, NEW i \in 1 .. n
  PROVE  /\ TilesPerThread(Len(order), n) \in Nat
         /\ Share(order, n, i) \in Seq(T)
         /\ IsPart(Share(order, n, i), order, i, TilesPerThread(Len(order), n))
<1> DEFINE per == TilesPerThread(Len(order), n)
           from == (i - 1) * per
           to == Lesser(i * per, Len(order))
<1>1. Len(order) \in Nat OBVIOUS
<1>2. per \in Nat
  <2>1. Len(order) \div n \in Nat BY <1>1, Quotient
  <2> QED BY <2>1 DEF TilesPerThread
<1>3. i * per = from + per /\ from \in Nat
  <2> HIDE DEF per
  <2> QED BY <1>2
<1>4. Share(order, n, i) = SubSeq(order, from + 1, to) BY DEF Share
<1> HIDE DEF per, from
<1>5. to \in Nat /\ to <= Len(order) /\ to <= from + per
      /\ \A m \in Nat : m <= Len(order) /\ m <= from + per => m <= to
  BY <1>1, <1>2, <1>3 DEF Lesser
<1> HIDE DEF to
<1>6. SubSeq(order, from + 1, to) \in Seq(T) BY <1>1, <1>3, <1>5
<1>7. DOMAIN SubSeq(order, from + 1, to) = IF from + 1 <= to THEN 1 .. to - from ELSE {}
  BY <1>1, <1>3, <1>5
<1>8. ASSUME NEW a \in DOMAIN SubSeq(order, from + 1, to)
      PROVE  /\ a \in 1 .. per /\ from + a \in 1 .. Len(order)
             /\ SubSeq(order, from + 1, to)[a] = order[from + a]
  <2>1. from + 1 <= to /\ a \in 1 .. to - from BY <1>7
  <2>2. a \in 1 .. per /\ from + a \in 1 .. Len(order) BY <2>1, <1>1, <1>2, <1>3, <1>5
  <2> QED BY <2>1, <2>2, <1>1, <1>3, <1>5
<1>9. ASSUME NEW a \in 1 .. per, from + a <= Len(order)
      PROVE  a \in DOMAIN SubSeq(order, from + 1, to)
  BY <1>7, <1>9, <1>1, <1>2, <1>3, <1>5
<1>10. /\ per \in Nat
       /\ Share(order, n, i) \in Seq(T)
       /\ \A a \in DOMAIN Share(order, n, i) :
            /\ a \in 1 .. per /\ from + a \in 1 .. Len(order)
            /\ Share(order, n, i)[a] = order[from + a]
       /\ \A a \in 1 .. per : from + a <= Len(order) => a \in DOMAIN Share(order, n, i)
  BY <1>2, <1>4, <1>6, <1>8, <1>9
<1> QED BY <1>10 DEF per, from, IsPart
\* Every place of the order is some thread's, and only one's.
LEMMA ShareCovers ==
  ASSUME NEW T, NEW order \in Seq(T), NEW n \in Nat \ {0}, NEW m \in DOMAIN order
  PROVE  \E i \in 1 .. n : \E a \in DOMAIN Share(order, n, i) : Share(order, n, i)[a] = order[m]
<1> DEFINE len == Len(order)
           per == TilesPerThread(len, n)
           q == (m - 1) \div per
           r == (m - 1) % per
<1>1. len \in Nat /\ m \in 1 .. len OBVIOUS
<1>2. len \div n \in Nat /\ len % n \in 0 .. n - 1 /\ len = n * (len \div n) + (len % n)
  BY <1>1, Quotient
<1>3. per \in Nat \ {0} /\ len <= n * per
  <2> DEFINE d == len \div n
             e == len % n
  <2>1. d \in Nat /\ e \in 0 .. n - 1 /\ len = n * d + e BY <1>2
  <2>2. per = d + (IF e > 0 THEN 1 ELSE 0) BY DEF TilesPerThread
  <2> HIDE DEF d, e, len, per
  <2>3. CASE e = 0
    <3>1. per = d BY <2>1, <2>2, <2>3
    <3>2. d # 0 BY <1>1, <2>1, <2>3
    <3> QED BY <3>1, <3>2, <2>1, <2>3
  <2>4. CASE e # 0
    <3>1. per = d + 1 BY <2>1, <2>2, <2>4
    <3>2. n * (d + 1) = n * d + n BY <2>1
    <3> QED BY <3>1, <3>2, <2>1
  <2> QED BY <2>3, <2>4
<1> HIDE DEF len, per
<1>4. m - 1 \in Nat BY <1>1
<1>5. q \in Nat /\ r \in 0 .. per - 1 /\ m - 1 = per * q + r BY <1>3, <1>4, Quotient
<1> HIDE DEF q, r
<1>6. q < n
  <2>1. SUFFICES ASSUME q >= n PROVE FALSE BY <1>5
  <2>2. per * q >= per * n /\ per * n = n * per BY <2>1, <1>3, <1>5
  <2>3. per * q \in Nat /\ n * per \in Nat BY <1>3, <1>5
  <2> QED BY <2>2, <2>3, <1>1, <1>3, <1>5
<1> DEFINE i == q + 1
           a == r + 1
<1>7. i \in 1 .. n /\ a \in 1 .. per /\ i - 1 = q BY <1>3, <1>5, <1>6
<1>8. q * per = per * q /\ q * per \in Nat BY <1>3, <1>5
<1>9. (i - 1) * per + a = m BY <1>1, <1>3, <1>5, <1>7, <1>8
<1> HIDE DEF i, a
<1>10. a \in DOMAIN Share(order, n, i) /\ Share(order, n, i)[a] = order[m]
  <2>1. IsPart(Share(order, n, i), order, i, per) BY <1>7, ShareIsPart DEF len, per
  <2>2. (i - 1) * per + a <= Len(order) BY <1>1, <1>9 DEF len
  <2> QED BY <1>7, <1>9, <2>1, <2>2 DEF IsPart
<1> QED BY <1>7, <1>10

LEMMA SharesAreApart ==
  ASSUME NEW T, NEW order \in Seq(T), NEW n \in Nat \ {0}, NEW i \in 1 .. n, NEW j \in 1 .. n,
         \A l, m \in DOMAIN order : order[l] = order[m] => l = m,
         NEW a \in DOMAIN Share(order, n, i), NEW b \in DOMAIN Share(order, n, j),
         Share(order, n, i)[a] = Share(order, n, j)[b]
  PROVE  i = j /\ a = b
<1> DEFINE per == TilesPerThread(Len(order), n)
<1>1. per \in Nat /\ IsPart(Share(order, n, i), order, i, per) /\ IsPart(Share(order, n, j), order, j, per)
  BY ShareIsPart
<1> HIDE DEF per
<1>2. /\ a \in 1 .. per /\ (i - 1) * per + a \in 1 .. Len(order)
      /\ Share(order, n, i)[a] = order[(i - 1) * per + a]
      /\ b \in 1 .. per /\ (j - 1) * per + b \in 1 .. Len(order)
      /\ Share(order, n, j)[b] = order[(j - 1) * per + b]
  BY <1>1 DEF IsPart
<1>3. (i - 1) * per + a = (j - 1) * per + b
  <2>1. DOMAIN order = 1 .. Len(order) OBVIOUS
  <2> QED BY <1>2, <2>1
<1>4. per \in Nat \ {0} /\ i - 1 \in Nat /\ j - 1 \in Nat /\ a - 1 \in 0 .. per - 1 /\ b - 1 \in 0 .. per - 1
  BY <1>1, <1>2
<1> DEFINE m == (i - 1) * per + (a - 1)
<1>5. (i - 1) * per = per * (i - 1) /\ (j - 1) * per = per * (j - 1)
      /\ (i - 1) * per \in Nat /\ (j - 1) * per \in Nat
  BY <1>4
<1>6. m \in Nat /\ m = per * (i - 1) + (a - 1) /\ m = per * (j - 1) + (b - 1)
  BY <1>1, <1>2, <1>3, <1>4, <1>5
<1> HIDE DEF m
<1>7. m \div per = i - 1 /\ m % per = a - 1 BY <1>4, <1>6, QuotientIs
<1>8. m \div per = j - 1 /\ m % per = b - 1 BY <1>4, <1>6, QuotientIs
<1> QED BY <1>1, <1>2, <1>7, <1>8
-----------------------------------------------------------------------------
(* The invariant *)

\* What is collected for a job has the relatives of its input.
LEMMA CollectedRelatives ==
  ASSUME ExpireTypeOK
  PROVE  AncestorsExpired /\ FirstTileExpired
<1>1. /\ job.input \in ExpireInputs /\ job.min_z \in MinZooms /\ job.max_z \in MaxZooms
      /\ job.tiles = AllTiles(job.input, job.min_z, job.max_z)
  BY DEF ExpireTypeOK
<1>2. job.min_z \in Nat \union {-1} /\ job.max_z \in Nat \union {-1} BY <1>1, ExpireAssumption
<1>3. ASSUME NEW t \in InputTiles(job.input)
      PROVE  /\ \A a \in Ancestors(t, job.min_z) : Meta(a) \in job.tiles
             /\ \A d \in Descendants(Meta(t), job.max_z) : Meta(d) \in job.tiles
  <2> DEFINE zmin == IF job.min_z = NoZoom THEN t.z ELSE Lesser(t.z, job.min_z)
             zmax == IF job.max_z = NoZoom THEN t.z ELSE Greater(t.z, job.max_z)
             above == t.z - zmin
             below == zmax - t.z
  <2>1. t \in Xyzs /\ t.z \in Nat BY <1>1, InputTyped
  <2>2. above \in Nat /\ above = IF job.min_z = NoZoom THEN 0 ELSE Greater(t.z - job.min_z, 0)
    BY <1>2, <2>1 DEF Lesser, Greater, NoZoom
  <2>3. below \in Nat /\ below = Greater(job.max_z - t.z, 0)
    BY <1>2, <2>1 DEF Lesser, Greater, NoZoom
  <2>4. child_tiles[below][Meta(t)] \subseteq job.tiles /\ parent_tiles[above][Meta(t)] \subseteq job.tiles
    BY <1>1 DEF AllTiles, Relatives
  <2> HIDE DEF zmin, zmax, above, below
  <2>5. Meta(t) \in Xyzs /\ SameMeta(t, Meta(t)) /\ Meta(t).z = t.z BY <2>1, RelativesTyped, MetaIsSame
  <2>6. ASSUME NEW a \in Ancestors(t, job.min_z) PROVE Meta(a) \in job.tiles
    <3>1. PICK d \in 0 .. above : a = Ancestor(t, d) BY <2>2 DEF Ancestors, Ancestor
    <3>2. Meta(Ancestor(t, d)) \in parent_tiles[above][Meta(t)]
      BY <2>1, <2>2, <2>5, ParentTilesHaveAncestors
    <3> QED BY <2>4, <3>1, <3>2
  <2>7. ASSUME NEW e \in Descendants(Meta(t), job.max_z) PROVE Meta(e) \in job.tiles
    <3>1. PICK d \in 0 .. below : \E i, j \in 0 .. TwoTo[d] - 1 : e = Descendant(Meta(t), d, i, j)
      BY <2>3, <2>5 DEF Descendants, Descendant
    <3>2. PICK i \in 0 .. TwoTo[d] - 1, j \in 0 .. TwoTo[d] - 1 : e = Descendant(Meta(t), d, i, j)
      BY <3>1
    <3>3. Meta(Descendant(Meta(t), d, i, j)) \in child_tiles[below][Meta(t)]
      BY <2>3, <2>5, ChildTilesHaveDescendants
    <3> QED BY <2>4, <3>2, <3>3
  <2> QED BY <2>6, <2>7
<1> QED BY <1>3 DEF AncestorsExpired, FirstTileExpired

\* No list shares a metatile with another, and no request is made twice.
LEMMA NothingTwiceFollows ==
  ASSUME InOneList, sent \cap dropped = {}
  PROVE  NothingTwice
BY DEF InOneList, NothingTwice, ToSet

ExpireCore ==
  /\ ExpireTypeOK /\ InOneList /\ InOneQueue /\ ListedFirst /\ QueuedNext /\ OnlyCollected
  /\ Kept /\ StillListed /\ DoneIsEmpty /\ sent \cap dropped = {}

LEMMA ExpireCoreIsEnough == ExpireCore <=> ExpireInv
<1>1. ExpireCore => ExpireInv BY CollectedRelatives, NothingTwiceFollows DEF ExpireCore, ExpireInv
<1>2. ExpireInv => ExpireCore BY DEF ExpireCore, ExpireInv, NothingTwice
<1> QED BY <1>1, <1>2

LEMMA ExpireInitInv == ExpireInit => ExpireInv
<1> SUFFICES ASSUME ExpireInit PROVE ExpireCore BY ExpireCoreIsEnough
<1>1. PICK in \in ExpireInputs, min_z \in MinZooms, max_z \in MaxZooms, n \in ThreadCounts,
           storage \in {"lts", "generic"} :
        LET tiles == AllTiles(in, min_z, max_z)
            order == OrderOf(tiles)
        IN /\ job = [input |-> in, min_z |-> min_z, max_z |-> max_z, tiles |-> tiles,
                     storage |-> storage]
           /\ lists = [i \in 1 .. n |-> IF Aborts(in) THEN <<>> ELSE Share(order, n, i)]
           /\ lts_queue = [i \in 1 .. n |-> [k \in HostsOfTiles(tiles) \X BOOLEAN |-> <<>>]]
           /\ at = [i \in 1 .. n |-> IF Aborts(in) THEN "done" ELSE "next"]
           /\ clean \in IF storage = "lts" THEN {{}} ELSE {tiles, {t \in tiles : t.x # 0}}
           /\ sent = {} /\ dropped = {} /\ batch_errors = 0
  BY DEF ExpireInit
<1> DEFINE tiles == AllTiles(in, min_z, max_z)
           order == OrderOf(tiles)
<1>2. n \in Nat \ {0} /\ MaxBatchErrors \in Nat BY ExpireAssumption
<1>3. /\ order \in Seq(tiles) /\ ToSet(order) = tiles
      /\ \A i, j \in DOMAIN order : order[i] = order[j] => i = j
  BY OrderAssumption DEF Iterates
<1>4. job = [input |-> in, min_z |-> min_z, max_z |-> max_z, tiles |-> tiles, storage |-> storage]
  BY <1>1
<1>5. lists = [i \in 1 .. n |-> IF Aborts(in) THEN <<>> ELSE Share(order, n, i)] BY <1>1
<1>6. lts_queue = [i \in 1 .. n |-> [k \in HostsOfTiles(tiles) \X BOOLEAN |-> <<>>]] BY <1>1
<1>7. at = [i \in 1 .. n |-> IF Aborts(in) THEN "done" ELSE "next"] BY <1>1
<1>8. clean \subseteq tiles /\ sent = {} /\ dropped = {} /\ batch_errors = 0 BY <1>1
<1> DEFINE keys == HostsOfTiles(tiles) \X BOOLEAN
<1>9. job.tiles = tiles /\ job.input = in /\ job.storage = storage BY <1>4
<1>10. job \in [input : ExpireInputs, min_z : MinZooms, max_z : MaxZooms,
                tiles : {AllTiles(job.input, job.min_z, job.max_z)}, storage : {"lts", "generic"}]
  BY <1>4
<1> HIDE DEF tiles, order
<1>11. ExpireThreads = 1 .. n BY <1>5 DEF ExpireThreads
<1>12. QueueKeys = keys BY <1>2, <1>6 DEF QueueKeys
<1> HIDE DEF keys
<1>13. \A i \in 1 .. n : Share(order, n, i) \in Seq(tiles) BY <1>2, <1>3, ShareIsPart
<1>14. lists \in [1 .. n -> Seq(tiles)] BY <1>5, <1>13
<1>15. lts_queue \in [1 .. n -> [keys -> Seq(tiles)]] /\ \A i \in 1 .. n, k \in keys : lts_queue[i][k] = <<>>
  BY <1>6 DEF keys
<1>16. at \in [1 .. n -> {"next", "flush", "done"}] BY <1>7
<1>17. ExpireTypeOK
  <2>1. DOMAIN lists \in {1 .. m : m \in ThreadCounts} BY <1>5
  <2>2. batch_errors \in 0 .. MaxBatchErrors BY <1>2, <1>8
  <2> QED BY <1>8, <1>9, <1>10, <1>11, <1>14, <1>15, <1>16, <2>1, <2>2 DEF ExpireTypeOK, keys
<1>18. InOneList
  <2> SUFFICES ASSUME NEW i \in 1 .. n, NEW j \in 1 .. n, NEW a \in DOMAIN lists[i], NEW b \in DOMAIN lists[j],
                      lists[i][a] = lists[j][b]
               PROVE  i = j /\ a = b
    BY <1>11 DEF InOneList
  <2>1. ~Aborts(in) /\ lists[i] = Share(order, n, i) /\ lists[j] = Share(order, n, j) BY <1>5
  <2> QED BY <1>2, <1>3, <2>1, SharesAreApart
<1>19. InOneQueue /\ ListedFirst /\ QueuedNext
  BY <1>8, <1>11, <1>12, <1>15 DEF InOneQueue, ListedFirst, QueuedNext, Handled
<1>20. OnlyCollected /\ sent \cap dropped = {} BY <1>8 DEF OnlyCollected, Handled
<1>21. ASSUME ~Aborts(in), NEW t \in tiles
       PROVE  \E i \in ExpireThreads : \E a \in DOMAIN lists[i] : lists[i][a] = t
  <2>1. PICK m \in DOMAIN order : t = order[m] BY <1>3 DEF ToSet
  <2>2. PICK i \in 1 .. n : \E a \in DOMAIN Share(order, n, i) : Share(order, n, i)[a] = order[m]
    BY <1>2, <1>3, ShareCovers
  <2>3. lists[i] = Share(order, n, i) BY <1>5, <1>21
  <2> QED BY <1>11, <2>1, <2>2, <2>3
<1>22. Kept /\ StillListed BY <1>8, <1>9, <1>21 DEF Kept, StillListed
<1>23. DoneIsEmpty
  BY <1>5, <1>7, <1>11, <1>12, <1>15 DEF DoneIsEmpty
<1> QED BY <1>17, <1>18, <1>19, <1>20, <1>22, <1>23 DEF ExpireCore
LEMMA KeysAndThreads ==
  ASSUME ExpireTypeOK
  PROVE  /\ QueueKeys = HostsOfTiles(job.tiles) \X BOOLEAN
         /\ 1 \in ExpireThreads /\ ExpireThreads \subseteq Nat
<1>1. PICK n \in ThreadCounts : ExpireThreads = 1 .. n BY DEF ExpireTypeOK, ExpireThreads
<1>2. n \in Nat \ {0} BY ExpireAssumption
<1>3. 1 \in ExpireThreads /\ ExpireThreads \subseteq Nat BY <1>1, <1>2
<1> QED BY <1>3 DEF ExpireTypeOK, QueueKeys

\* A step that keeps the job, the threads and the shape of the queues keeps the
\* names of these.
LEMMA SameShape ==
  ASSUME ExpireTypeOK, job' = job, DOMAIN lists' = DOMAIN lists,
         lts_queue' \in [ExpireThreads -> [QueueKeys -> Seq(job.tiles)]]
  PROVE  ExpireThreads' = ExpireThreads /\ QueueKeys' = QueueKeys
BY KeysAndThreads DEF ExpireThreads, QueueKeys

\* The first metatile of a list is taken: the others stay, each in one place.
LEMMA ListPopped ==
  ASSUME ExpireTypeOK, InOneList, NEW i \in ExpireThreads, lists[i] # <<>>,
         lists' = [lists EXCEPT ![i] = Tail(@)], job' = job
  PROVE  /\ Head(lists[i]) \in job.tiles
         /\ DOMAIN lists' = DOMAIN lists /\ lists' \in [ExpireThreads -> Seq(job.tiles)]
         /\ InOneList'
         /\ \A j \in ExpireThreads : \A a \in DOMAIN lists'[j] :
              /\ lists'[j][a] # Head(lists[i])
              /\ \E b \in DOMAIN lists[j] : lists'[j][a] = lists[j][b]
         /\ \A j \in ExpireThreads : \A b \in DOMAIN lists[j] :
              \/ lists[j][b] = Head(lists[i])
              \/ \E a \in DOMAIN lists'[j] : lists'[j][a] = lists[j][b]
         /\ \A j \in ExpireThreads : j # i => lists'[j] = lists[j]
<1> DEFINE t == Head(lists[i])
           l == lists[i]
           Place(j, a) == IF j = i THEN a + 1 ELSE a
<1>1. lists \in [ExpireThreads -> Seq(job.tiles)] BY DEF ExpireTypeOK
<1>2. l \in Seq(job.tiles) /\ l # <<>> BY <1>1
<1>3. t = l[1] /\ t \in job.tiles /\ 1 \in DOMAIN l /\ DOMAIN l = 1 .. Len(l) /\ Len(l) \in Nat \ {0} BY <1>2
<1> HIDE DEF l
<1>4. Tail(l) \in Seq(job.tiles) /\ DOMAIN Tail(l) = 1 .. Len(l) - 1
      /\ \A a \in DOMAIN Tail(l) : Tail(l)[a] = l[a + 1]
  <2>1. Tail(l) \in Seq(job.tiles) /\ Len(Tail(l)) = Len(l) - 1 BY <1>2
  <2>2. DOMAIN Tail(l) = 1 .. Len(l) - 1 BY <2>1
  <2>3. ASSUME NEW a \in 1 .. Len(l) - 1 PROVE Tail(l)[a] = l[a + 1] BY <1>2
  <2> QED BY <2>1, <2>2, <2>3
<1>5. DOMAIN lists' = DOMAIN lists /\ lists' \in [ExpireThreads -> Seq(job.tiles)]
  BY <1>1, <1>4 DEF l
<1>6. \A j \in ExpireThreads : lists'[j] = IF j = i THEN Tail(l) ELSE lists[j] BY <1>1 DEF l
<1>7. ASSUME NEW j \in ExpireThreads, NEW a \in DOMAIN lists'[j]
      PROVE  Place(j, a) \in DOMAIN lists[j] /\ lists'[j][a] = lists[j][Place(j, a)] /\ a \in Nat
             /\ (j = i => Place(j, a) # 1)
  <2>1. lists[j] \in Seq(job.tiles) BY <1>1
  <2>2. CASE j = i
    <3>1. lists'[j] = Tail(l) /\ lists[j] = l /\ Place(j, a) = a + 1 BY <1>6, <2>2 DEF l
    <3>2. a \in 1 .. Len(l) - 1 /\ lists'[j][a] = l[a + 1] BY <1>4, <3>1
    <3> HIDE DEF Place
    <3> QED BY <1>3, <3>1, <3>2
  <2>3. CASE j # i BY <1>6, <2>1, <2>3
  <2> QED BY <2>2, <2>3
<1>8. InOneList'
  <2>1. ExpireThreads' = ExpireThreads BY <1>5 DEF ExpireThreads
  <2>2. ASSUME NEW j \in ExpireThreads, NEW k \in ExpireThreads, NEW a \in DOMAIN lists'[j], NEW b \in DOMAIN lists'[k],
               lists'[j][a] = lists'[k][b]
        PROVE  j = k /\ a = b
    <3>1. j = k /\ Place(j, a) = Place(k, b) BY <1>7, <2>2 DEF InOneList
    <3> QED BY <3>1, <1>7
  <2> QED BY <2>1, <2>2 DEF InOneList
<1>9. ASSUME NEW j \in ExpireThreads, NEW a \in DOMAIN lists'[j]
      PROVE  lists'[j][a] # t /\ \E b \in DOMAIN lists[j] : lists'[j][a] = lists[j][b]
  <2>1. lists'[j][a] # t
    <3>1. SUFFICES ASSUME lists[j][Place(j, a)] = lists[i][1] PROVE FALSE BY <1>3, <1>7 DEF l
    <3>2. Place(j, a) \in DOMAIN lists[j] BY <1>7
    <3> HIDE DEF Place
    <3>3. j = i /\ Place(j, a) = 1 BY <1>3, <3>1, <3>2 DEF InOneList, l
    <3> QED BY <3>3, <1>7
  <2> QED BY <1>7, <2>1
<1>10. ASSUME NEW j \in ExpireThreads, NEW b \in DOMAIN lists[j]
       PROVE  lists[j][b] = t \/ \E a \in DOMAIN lists'[j] : lists'[j][a] = lists[j][b]
  <2>1. CASE j # i BY <1>6, <2>1
  <2>2. CASE j = i /\ b = 1 BY <1>3, <2>2 DEF l
  <2>3. CASE j = i /\ b # 1
    <3>1. b \in 1 .. Len(l) BY <1>3, <2>3 DEF l
    <3>4. Len(l) \in Nat BY <1>3
    <3>5. b - 1 \in 1 .. Len(l) - 1 /\ (b - 1) + 1 = b BY <2>3, <3>1, <3>4
    <3>2. b - 1 \in DOMAIN Tail(l) /\ (b - 1) + 1 = b BY <1>4, <3>5
    <3>3. Tail(l)[b - 1] = l[b] BY <1>4, <3>2
    <3> QED BY <1>6, <2>3, <3>2, <3>3 DEF l
  <2> QED BY <2>1, <2>2, <2>3
<1>11. \A j \in ExpireThreads : j # i => lists'[j] = lists[j] BY <1>6
<1> QED BY <1>3, <1>5, <1>8, <1>9, <1>10, <1>11

LEMMA LongerSeq ==
  ASSUME NEW S, NEW s \in Seq(S), NEW e \in S
  PROVE  Append(s, e) \in Seq(S)
OBVIOUS

LEMMA RequestIsFor ==
  ASSUME NEW t, NEW r \in RequestsOf(t)
  PROVE  /\ r.tile = t /\ r.host \in HostsOfTile(t) /\ r.primary \in BOOLEAN
         /\ r = RequestFor(t, <<r.host, r.primary>>)
<1>1. PICK h \in HostsOfTile(t) : r = [tile |-> t, host |-> h, primary |-> IsPrimary(t, h)] BY DEF RequestsOf
<1>2. IsPrimary(t, h) \in BOOLEAN BY DEF IsPrimary
<1>3. r.tile = t /\ r.host = h /\ r.primary = IsPrimary(t, h) BY <1>1
<1>4. <<r.host, r.primary>>[1] = h /\ <<r.host, r.primary>>[2] = IsPrimary(t, h) BY <1>3
<1>5. r = RequestFor(t, <<r.host, r.primary>>) BY <1>1, <1>4 DEF RequestFor
<1> QED BY <1>2, <1>3, <1>5

LEMMA NextMetatileKeeps ==
  ASSUME ExpireCore, NEW i \in ExpireThreads, NextMetatile(i)
  PROVE  ExpireCore'
<1> DEFINE t == Head(lists[i])
           Goes(k) == RequestFor(t, k) \in RequestsOf(t)
<1>1. /\ job.storage = "lts" /\ at[i] = "next" /\ lists[i] # <<>>
      /\ lists' = [lists EXCEPT ![i] = Tail(@)]
      /\ at' = [at EXCEPT ![i] = "flush"]
      /\ job' = job /\ clean' = clean /\ sent' = sent /\ dropped' = dropped /\ batch_errors' = batch_errors
  BY DEF NextMetatile
<1>2. lts_queue' = [lts_queue EXCEPT ![i] = [k \in QueueKeys |->
        IF Goes(k) THEN Append(lts_queue[i][k], t) ELSE lts_queue[i][k]]]
  BY DEF NextMetatile
<1>3. ExpireTypeOK /\ InOneList BY DEF ExpireCore
<1>4. QueueKeys = HostsOfTiles(job.tiles) \X BOOLEAN BY <1>3, KeysAndThreads
<1>5. lts_queue \in [ExpireThreads -> [QueueKeys -> Seq(job.tiles)]] BY <1>3, <1>4 DEF ExpireTypeOK
<1>6. /\ t \in job.tiles
      /\ DOMAIN lists' = DOMAIN lists /\ lists' \in [ExpireThreads -> Seq(job.tiles)]
      /\ InOneList'
      /\ \A j \in ExpireThreads : \A a \in DOMAIN lists'[j] :
           /\ lists'[j][a] # t
           /\ \E b \in DOMAIN lists[j] : lists'[j][a] = lists[j][b]
      /\ \A j \in ExpireThreads : \A b \in DOMAIN lists[j] :
           \/ lists[j][b] = t
           \/ \E a \in DOMAIN lists'[j] : lists'[j][a] = lists[j][b]
      /\ \A j \in ExpireThreads : j # i => lists'[j] = lists[j]
  BY <1>1, <1>3, ListPopped
<1>7. 1 \in DOMAIN lists[i] /\ lists[i][1] = t
  <2>1. lists[i] \in Seq(job.tiles) BY <1>3 DEF ExpireTypeOK
  <2> QED BY <2>1, <1>1
<1> HIDE DEF t
<1>8. ASSUME NEW j \in ExpireThreads, NEW k \in QueueKeys
      PROVE  lts_queue'[j][k] = IF j = i /\ Goes(k) THEN Append(lts_queue[i][k], t) ELSE lts_queue[j][k]
  BY <1>2, <1>5
<1>9. lts_queue' \in [ExpireThreads -> [QueueKeys -> Seq(job.tiles)]]
  <2>1. ASSUME NEW k \in QueueKeys
        PROVE  (IF Goes(k) THEN Append(lts_queue[i][k], t) ELSE lts_queue[i][k]) \in Seq(job.tiles)
    <3>1. lts_queue[i][k] \in Seq(job.tiles) BY <1>5
    <3>2. t \in job.tiles BY <1>6
    <3>3. Append(lts_queue[i][k], t) \in Seq(job.tiles) BY <3>1, <3>2, LongerSeq
    <3> QED BY <3>1, <3>3
  <2>2. [k \in QueueKeys |-> IF Goes(k) THEN Append(lts_queue[i][k], t) ELSE lts_queue[i][k]]
          \in [QueueKeys -> Seq(job.tiles)]
    BY <2>1
  <2> QED BY <1>2, <1>5, <2>2
<1>10. ExpireThreads' = ExpireThreads /\ QueueKeys' = QueueKeys BY <1>1, <1>3, <1>6, <1>9, SameShape
<1>11. ExpireTypeOK'
  <2>1. at' \in [ExpireThreads -> {"next", "flush", "done"}] BY <1>1, <1>3 DEF ExpireTypeOK
  <2>2. /\ job \in [input : ExpireInputs, min_z : MinZooms, max_z : MaxZooms,
                    tiles : {AllTiles(job.input, job.min_z, job.max_z)}, storage : {"lts", "generic"}]
        /\ DOMAIN lists \in {1 .. n : n \in ThreadCounts}
        /\ clean \subseteq job.tiles /\ batch_errors \in 0 .. MaxBatchErrors
    BY <1>3 DEF ExpireTypeOK
  <2> QED BY <1>1, <1>4, <1>6, <1>9, <1>10, <2>1, <2>2 DEF ExpireTypeOK
\* A place of a queue: the last one when the metatile was just queued there.
<1>12. ASSUME NEW j \in ExpireThreads, NEW k \in QueueKeys, NEW b \in DOMAIN lts_queue'[j][k]
       PROVE  \/ b \in DOMAIN lts_queue[j][k] /\ lts_queue'[j][k][b] = lts_queue[j][k][b]
              \/ j = i /\ Goes(k) /\ b = Len(lts_queue[i][k]) + 1 /\ lts_queue'[j][k][b] = t
  <2>1. lts_queue[j][k] \in Seq(job.tiles) BY <1>5
  <2>2. CASE j = i /\ Goes(k)
    <3>1. lts_queue'[j][k] = Append(lts_queue[j][k], t) BY <1>8, <2>2
    <3> HIDE DEF Goes
    <3> QED BY <1>6, <2>1, <2>2, <3>1
  <2>3. CASE ~(j = i /\ Goes(k)) BY <1>8, <2>3
  <2> QED BY <2>2, <2>3
<1>13. ASSUME NEW j \in ExpireThreads, NEW k \in QueueKeys, NEW b \in DOMAIN lts_queue[j][k]
       PROVE  b \in DOMAIN lts_queue'[j][k] /\ lts_queue'[j][k][b] = lts_queue[j][k][b]
  <2>1. lts_queue[j][k] \in Seq(job.tiles) BY <1>5
  <2>2. CASE j = i /\ Goes(k)
    <3>1. lts_queue'[j][k] = Append(lts_queue[j][k], t) BY <1>8, <2>2
    <3> QED BY <1>6, <2>1, <3>1
  <2>3. CASE ~(j = i /\ Goes(k)) BY <1>8, <2>3
  <2> QED BY <2>2, <2>3
<1>14. ASSUME NEW j \in ExpireThreads, NEW k \in QueueKeys, NEW b \in DOMAIN lts_queue[j][k]
       PROVE  lts_queue[j][k][b] # t
  BY <1>7 DEF ExpireCore, ListedFirst
<1> HIDE DEF Goes
<1>15. InOneQueue'
  <2>1. ASSUME NEW j \in ExpireThreads, NEW l \in ExpireThreads, NEW k \in QueueKeys,
               NEW a \in DOMAIN lts_queue'[j][k], NEW b \in DOMAIN lts_queue'[l][k],
               lts_queue'[j][k][a] = lts_queue'[l][k][b]
        PROVE  j = l /\ a = b
    <3>1. InOneQueue BY DEF ExpireCore
    <3> QED BY <1>12, <1>14, <2>1, <3>1 DEF InOneQueue
  <2> QED BY <1>10, <2>1 DEF InOneQueue
<1>16. Handled' = Handled BY <1>1 DEF Handled
<1>17. ListedFirst'
  <2>1. ASSUME NEW j \in ExpireThreads, NEW a \in DOMAIN lists'[j]
        PROVE  /\ \A l \in ExpireThreads, k \in QueueKeys : \A b \in DOMAIN lts_queue'[l][k] :
                    lts_queue'[l][k][b] # lists'[j][a]
               /\ \A r \in Handled : r.tile # lists'[j][a]
    <3>1. PICK c \in DOMAIN lists[j] : lists'[j][a] = lists[j][c] BY <1>6
    <3>2. lists'[j][a] # t BY <1>6
    <3> QED BY <1>12, <3>1, <3>2 DEF ExpireCore, ListedFirst
  <2> QED BY <1>10, <1>16, <2>1 DEF ListedFirst
<1>18. QueuedNext'
  <2>1. ASSUME NEW j \in ExpireThreads, NEW k \in QueueKeys, NEW b \in DOMAIN lts_queue'[j][k]
        PROVE  /\ RequestFor(lts_queue'[j][k][b], k) \in RequestsOf(RequestFor(lts_queue'[j][k][b], k).tile)
               /\ RequestFor(lts_queue'[j][k][b], k) \notin Handled
    <3>1. CASE b \in DOMAIN lts_queue[j][k] /\ lts_queue'[j][k][b] = lts_queue[j][k][b]
      BY <3>1 DEF ExpireCore, QueuedNext
    <3>2. CASE Goes(k) /\ lts_queue'[j][k][b] = t
      <4>1. RequestFor(t, k).tile = t BY DEF RequestFor
      <4>2. \A r \in Handled : r.tile # t BY <1>7 DEF ExpireCore, ListedFirst
      <4> QED BY <3>2, <4>1, <4>2 DEF Goes
    <3> QED BY <1>12, <3>1, <3>2
  <2> QED BY <1>10, <1>16, <2>1 DEF QueuedNext
<1>19. OnlyCollected' BY <1>1, <1>16 DEF ExpireCore, OnlyCollected
<1>20. Kept'
  <2>1. ASSUME ~Aborts(job.input), NEW u \in job.tiles, NEW r \in RequestsOf(u)
        PROVE  \/ r \in Handled
               \/ \E j \in ExpireThreads : \E a \in DOMAIN lists'[j] : lists'[j][a] = u
               \/ \E j \in ExpireThreads :
                    \E a \in DOMAIN lts_queue'[j][<<r.host, r.primary>>] : lts_queue'[j][<<r.host, r.primary>>][a] = u
    <3> DEFINE k == <<r.host, r.primary>>
    <3>1. k \in QueueKeys BY <1>4, RequestIsFor DEF HostsOfTiles
    <3>2. r = RequestFor(u, k) BY RequestIsFor
    <3> HIDE DEF k
    <3>3. \/ r \in Handled
          \/ \E j \in ExpireThreads : \E a \in DOMAIN lists[j] : lists[j][a] = u
          \/ \E j \in ExpireThreads : \E a \in DOMAIN lts_queue[j][k] : lts_queue[j][k][a] = u
      BY <1>1, <2>1 DEF ExpireCore, Kept, k
    <3>4. CASE u = t
      <4>1. Goes(k) BY <3>2, <3>4 DEF Goes
      <4>2. lts_queue'[i][k] = Append(lts_queue[i][k], t) BY <1>8, <3>1, <4>1
      <4>3. lts_queue[i][k] \in Seq(job.tiles) BY <1>5, <3>1
      <4>4. Len(lts_queue[i][k]) + 1 \in DOMAIN lts_queue'[i][k]
            /\ lts_queue'[i][k][Len(lts_queue[i][k]) + 1] = t
        BY <1>6, <4>2, <4>3
      <4> QED BY <3>4, <4>4 DEF k
    <3>5. CASE u # t
      <4>1. CASE \E j \in ExpireThreads : \E a \in DOMAIN lists[j] : lists[j][a] = u
        BY <1>6, <3>5, <4>1
      <4>2. CASE \E j \in ExpireThreads : \E a \in DOMAIN lts_queue[j][k] : lts_queue[j][k][a] = u
        BY <1>13, <3>1, <4>2 DEF k
      <4> QED BY <3>3, <4>1, <4>2
    <3> QED BY <3>4, <3>5
  <2> QED BY <1>1, <1>10, <1>16, <2>1 DEF Kept
<1>21. StillListed' BY <1>1 DEF StillListed
<1>22. DoneIsEmpty'
  <2>1. ASSUME NEW j \in ExpireThreads, at'[j] = "done"
        PROVE  lists'[j] = <<>> /\ \A k \in QueueKeys : lts_queue'[j][k] = <<>>
    <3>1. j # i /\ at[j] = "done" BY <1>1, <1>3, <2>1 DEF ExpireTypeOK
    <3>2. lists[j] = <<>> /\ \A k \in QueueKeys : lts_queue[j][k] = <<>>
      BY <3>1 DEF ExpireCore, DoneIsEmpty
    <3> QED BY <1>6, <1>8, <3>1, <3>2
  <2> QED BY <1>10, <2>1 DEF DoneIsEmpty
<1>23. sent' \cap dropped' = {} BY <1>1 DEF ExpireCore
<1> QED BY <1>6, <1>11, <1>15, <1>17, <1>18, <1>19, <1>20, <1>21, <1>22, <1>23 DEF ExpireCore
\* A step that leaves the queues and the requests alone keeps what is said of them.
LEMMA GenericExpireKeeps ==
  ASSUME ExpireCore, NEW i \in ExpireThreads, GenericExpire(i)
  PROVE  ExpireCore'
<1> DEFINE t == Head(lists[i])
<1>1. /\ job.storage = "generic" /\ at[i] = "next" /\ lists[i] # <<>>
      /\ lists' = [lists EXCEPT ![i] = Tail(@)]
      /\ clean' = IF Within(t.z) THEN clean \ {t} ELSE clean
      /\ job' = job /\ lts_queue' = lts_queue /\ at' = at /\ sent' = sent /\ dropped' = dropped
      /\ batch_errors' = batch_errors
  BY DEF GenericExpire
<1>2. ExpireTypeOK /\ InOneList BY DEF ExpireCore
<1>3. QueueKeys = HostsOfTiles(job.tiles) \X BOOLEAN BY <1>2, KeysAndThreads
<1>4. /\ t \in job.tiles
      /\ DOMAIN lists' = DOMAIN lists /\ lists' \in [ExpireThreads -> Seq(job.tiles)]
      /\ InOneList'
      /\ \A j \in ExpireThreads : \A a \in DOMAIN lists'[j] :
           /\ lists'[j][a] # t
           /\ \E b \in DOMAIN lists[j] : lists'[j][a] = lists[j][b]
      /\ \A j \in ExpireThreads : \A b \in DOMAIN lists[j] :
           \/ lists[j][b] = t
           \/ \E a \in DOMAIN lists'[j] : lists'[j][a] = lists[j][b]
      /\ \A j \in ExpireThreads : j # i => lists'[j] = lists[j]
  BY <1>1, <1>2, ListPopped
<1> HIDE DEF t
<1>5. lts_queue' \in [ExpireThreads -> [QueueKeys -> Seq(job.tiles)]] BY <1>1, <1>2, <1>3 DEF ExpireTypeOK
<1>6. ExpireThreads' = ExpireThreads /\ QueueKeys' = QueueKeys BY <1>1, <1>2, <1>4, <1>5, SameShape
<1>7. ExpireTypeOK'
  <2>1. /\ job \in [input : ExpireInputs, min_z : MinZooms, max_z : MaxZooms,
                    tiles : {AllTiles(job.input, job.min_z, job.max_z)}, storage : {"lts", "generic"}]
        /\ DOMAIN lists \in {1 .. n : n \in ThreadCounts}
        /\ clean \subseteq job.tiles /\ batch_errors \in 0 .. MaxBatchErrors
        /\ at \in [ExpireThreads -> {"next", "flush", "done"}]
    BY <1>2 DEF ExpireTypeOK
  <2>2. clean' \subseteq job.tiles BY <1>1, <2>1
  <2> QED BY <1>1, <1>3, <1>4, <1>5, <1>6, <2>1, <2>2 DEF ExpireTypeOK
<1>8. Handled' = Handled BY <1>1 DEF Handled
<1>9. InOneQueue' BY <1>1, <1>6 DEF ExpireCore, InOneQueue
<1>10. ListedFirst'
  <2>1. ASSUME NEW j \in ExpireThreads, NEW a \in DOMAIN lists'[j]
        PROVE  /\ \A l \in ExpireThreads, k \in QueueKeys : \A b \in DOMAIN lts_queue[l][k] :
                    lts_queue[l][k][b] # lists'[j][a]
               /\ \A r \in Handled : r.tile # lists'[j][a]
    <3>1. PICK c \in DOMAIN lists[j] : lists'[j][a] = lists[j][c] BY <1>4
    <3> QED BY <3>1 DEF ExpireCore, ListedFirst
  <2> QED BY <1>1, <1>6, <1>8, <2>1 DEF ListedFirst
<1>11. QueuedNext' BY <1>1, <1>6, <1>8 DEF ExpireCore, QueuedNext
<1>12. OnlyCollected' BY <1>1, <1>8 DEF ExpireCore, OnlyCollected
<1>13. Kept' BY <1>1 DEF Kept
<1>14. StillListed'
  <2>1. ASSUME ~Aborts(job.input), NEW u \in clean', Within(u.z)
        PROVE  \E j \in ExpireThreads : \E a \in DOMAIN lists'[j] : lists'[j][a] = u
    <3>1. u \in clean /\ u # t BY <1>1, <2>1
    <3>2. PICK j \in ExpireThreads : \E a \in DOMAIN lists[j] : lists[j][a] = u
      BY <1>1, <2>1, <3>1 DEF ExpireCore, StillListed
    <3> QED BY <1>4, <3>1, <3>2
  <2>2. \A z : Within(z)' <=> Within(z) BY <1>1 DEF Within
  <2> QED BY <1>1, <1>6, <2>1, <2>2 DEF StillListed
<1>15. DoneIsEmpty'
  <2>1. ASSUME NEW j \in ExpireThreads, at[j] = "done" PROVE lists'[j] = <<>>
    <3>1. j # i /\ lists[j] = <<>> BY <1>1, <2>1 DEF ExpireCore, DoneIsEmpty
    <3> QED BY <1>4, <3>1
  <2>2. \A j \in ExpireThreads : at[j] = "done" => \A k \in QueueKeys : lts_queue[j][k] = <<>>
    BY DEF ExpireCore, DoneIsEmpty
  <2> QED BY <1>1, <1>6, <2>1, <2>2 DEF DoneIsEmpty
<1>16. sent' \cap dropped' = {} BY <1>1 DEF ExpireCore
<1> QED BY <1>4, <1>7, <1>9, <1>10, <1>11, <1>12, <1>13, <1>14, <1>15, <1>16 DEF ExpireCore

\* A batch is cut by an error into requests that were made and requests that are
\* dropped; its queue is empty after it.
LEMMA PerformUrlsKeeps ==
  ASSUME ExpireCore, NEW i \in ExpireThreads, at[i] # "done", NEW k \in QueueKeys, PerformUrls(i, k),
         job' = job, lists' = lists, at' = at, clean' = clean
  PROVE  ExpireCore'
<1> DEFINE batch == lts_queue[i][k]
<1>1. PICK n \in 0 .. Len(batch) :
        /\ n < Len(batch) => batch_errors < MaxBatchErrors
        /\ batch_errors' = IF n < Len(batch) THEN batch_errors + 1 ELSE batch_errors
        /\ sent' = sent \union {RequestFor(batch[j], k) : j \in 1 .. n}
        /\ dropped' = dropped \union {RequestFor(batch[j], k) : j \in n + 1 .. Len(batch)}
        /\ lts_queue' = [lts_queue EXCEPT ![i][k] = <<>>]
  BY DEF PerformUrls
<1>2. ExpireTypeOK BY DEF ExpireCore
<1>3. QueueKeys = HostsOfTiles(job.tiles) \X BOOLEAN BY <1>2, KeysAndThreads
<1>4. lts_queue \in [ExpireThreads -> [QueueKeys -> Seq(job.tiles)]] BY <1>2, <1>3 DEF ExpireTypeOK
<1>5. batch \in Seq(job.tiles) BY <1>4
<1>6. Len(batch) \in Nat /\ DOMAIN batch = 1 .. Len(batch) BY <1>5
<1> HIDE DEF batch
<1>7. \A j \in ExpireThreads, l \in QueueKeys :
        lts_queue'[j][l] = IF j = i /\ l = k THEN <<>> ELSE lts_queue[j][l]
  BY <1>1, <1>4
<1>8. lts_queue' \in [ExpireThreads -> [QueueKeys -> Seq(job.tiles)]]
  <2>1. <<>> \in Seq(job.tiles) OBVIOUS
  <2> QED BY <1>1, <1>4, <2>1
<1>9. ExpireThreads' = ExpireThreads /\ QueueKeys' = QueueKeys BY <1>2, <1>8, SameShape
<1>10. ExpireTypeOK'
  <2>1. /\ job \in [input : ExpireInputs, min_z : MinZooms, max_z : MaxZooms,
                    tiles : {AllTiles(job.input, job.min_z, job.max_z)}, storage : {"lts", "generic"}]
        /\ DOMAIN lists \in {1 .. m : m \in ThreadCounts}
        /\ clean \subseteq job.tiles /\ batch_errors \in 0 .. MaxBatchErrors
        /\ at \in [ExpireThreads -> {"next", "flush", "done"}]
        /\ lists \in [ExpireThreads -> Seq(job.tiles)]
    BY <1>2 DEF ExpireTypeOK
  <2>2. MaxBatchErrors \in Nat BY ExpireAssumption
  <2>3. batch_errors' \in 0 .. MaxBatchErrors BY <1>1, <1>6, <2>1, <2>2
  <2> QED BY <1>3, <1>8, <1>9, <2>1, <2>3 DEF ExpireTypeOK
\* The requests of the batch, and that they are new.
<1> DEFINE Of(b) == RequestFor(batch[b], k)
<1>11. \A b \in DOMAIN batch : Of(b) \in RequestsOf(Of(b).tile) /\ Of(b) \notin Handled /\ Of(b).tile = batch[b]
  <2>1. \A b \in DOMAIN batch : Of(b) \in RequestsOf(Of(b).tile) /\ Of(b) \notin Handled
    BY DEF ExpireCore, QueuedNext, batch
  <2> QED BY <2>1 DEF RequestFor
<1>12. \A b, c \in DOMAIN batch : batch[b] = batch[c] => b = c BY DEF ExpireCore, InOneQueue, batch
<1>13. Handled' = Handled \union {Of(b) : b \in DOMAIN batch}
  <2>1. DOMAIN batch = (1 .. n) \union (n + 1 .. Len(batch)) BY <1>6
  <2> QED BY <1>1, <2>1 DEF Handled
<1>14. sent' \cap dropped' = {}
  <2>1. SUFFICES ASSUME NEW r \in sent', r \in dropped' PROVE FALSE OBVIOUS
  <2>2. 1 .. n \subseteq DOMAIN batch /\ n + 1 .. Len(batch) \subseteq DOMAIN batch /\ (1 .. n) \cap (n + 1 .. Len(batch)) = {}
    BY <1>6
  <2>3. CASE r \in sent
    <3>1. r \in dropped' /\ r \notin dropped BY <2>1, <2>3 DEF ExpireCore
    <3>2. PICK b \in n + 1 .. Len(batch) : r = Of(b) BY <1>1, <3>1
    <3> QED BY <1>11, <2>2, <2>3, <3>2 DEF Handled
  <2>4. CASE r \notin sent
    <3>1. PICK b \in 1 .. n : r = Of(b) BY <1>1, <2>1, <2>4
    <3>2. r \notin dropped BY <1>11, <2>2, <3>1 DEF Handled
    <3>3. PICK c \in n + 1 .. Len(batch) : r = Of(c) BY <1>1, <2>1, <3>2
    <3>4. batch[b] = batch[c] BY <1>11, <2>2, <3>1, <3>3
    <3>5. b = c BY <1>12, <2>2, <3>4
    <3> QED BY <2>2, <3>5
  <2> QED BY <2>3, <2>4
<1> HIDE DEF Of
<1>15. ASSUME NEW j \in ExpireThreads, NEW l \in QueueKeys, NEW b \in DOMAIN lts_queue'[j][l]
       PROVE  b \in DOMAIN lts_queue[j][l] /\ lts_queue'[j][l] = lts_queue[j][l] /\ ~(j = i /\ l = k)
  BY <1>7
<1>16. InOneList' /\ InOneQueue' BY <1>9, <1>15 DEF ExpireCore, InOneList, InOneQueue
<1>17. ListedFirst'
  <2>1. ASSUME NEW j \in ExpireThreads, NEW a \in DOMAIN lists[j]
        PROVE  /\ \A m \in ExpireThreads, l \in QueueKeys : \A b \in DOMAIN lts_queue'[m][l] :
                    lts_queue'[m][l][b] # lists[j][a]
               /\ \A r \in Handled' : r.tile # lists[j][a]
    <3>1. \A m \in ExpireThreads, l \in QueueKeys : \A b \in DOMAIN lts_queue[m][l] :
            lts_queue[m][l][b] # lists[j][a]
      BY DEF ExpireCore, ListedFirst
    <3>2. \A r \in Handled : r.tile # lists[j][a] BY DEF ExpireCore, ListedFirst
    <3>3. \A b \in DOMAIN batch : batch[b] # lists[j][a] BY <3>1 DEF batch
    <3> QED BY <1>11, <1>13, <1>15, <3>1, <3>2, <3>3
  <2> QED BY <1>9, <2>1 DEF ListedFirst
<1>18. QueuedNext'
  <2>1. ASSUME NEW j \in ExpireThreads, NEW l \in QueueKeys, NEW b \in DOMAIN lts_queue'[j][l]
        PROVE  /\ RequestFor(lts_queue'[j][l][b], l) \in RequestsOf(RequestFor(lts_queue'[j][l][b], l).tile)
               /\ RequestFor(lts_queue'[j][l][b], l) \notin Handled'
    <3> DEFINE u == lts_queue[j][l][b]
    <3>1. b \in DOMAIN lts_queue[j][l] /\ lts_queue'[j][l][b] = u /\ ~(j = i /\ l = k) BY <1>15
    <3>2. RequestFor(u, l) \in RequestsOf(RequestFor(u, l).tile) /\ RequestFor(u, l) \notin Handled
      BY <3>1 DEF ExpireCore, QueuedNext
    <3>3. ASSUME NEW c \in DOMAIN batch, RequestFor(u, l) = Of(c) PROVE FALSE
      <4>1. u = batch[c] /\ l[1] = k[1] /\ l[2] = k[2] BY <3>3 DEF Of, RequestFor
      <4>2. l = k BY <1>3, <4>1
      <4>3. j = i BY <3>1, <4>1, <4>2 DEF ExpireCore, InOneQueue, batch
      <4> QED BY <3>1, <4>2, <4>3
    <3> HIDE DEF u
    <3> QED BY <1>13, <3>1, <3>2, <3>3
  <2> QED BY <1>9, <2>1 DEF QueuedNext
<1>19. OnlyCollected'
  <2>1. \A b \in DOMAIN batch : batch[b] \in job.tiles BY <1>5
  <2>2. \A r \in Handled' : r.tile \in job.tiles /\ r \in RequestsOf(r.tile)
    BY <1>11, <1>13, <2>1 DEF ExpireCore, OnlyCollected
  <2> QED BY <2>2 DEF OnlyCollected
<1>20. Kept'
  <2>1. ASSUME job.storage = "lts", ~Aborts(job.input), NEW u \in job.tiles, NEW r \in RequestsOf(u)
        PROVE  \/ r \in Handled'
               \/ \E j \in ExpireThreads : \E a \in DOMAIN lists[j] : lists[j][a] = u
               \/ \E j \in ExpireThreads :
                    \E a \in DOMAIN lts_queue'[j][<<r.host, r.primary>>] : lts_queue'[j][<<r.host, r.primary>>][a] = u
    <3> DEFINE l == <<r.host, r.primary>>
    <3>6. r.host \in HostsOfTiles(job.tiles) /\ r.primary \in BOOLEAN BY RequestIsFor DEF HostsOfTiles
    <3>4. l \in QueueKeys BY <1>3, <3>6
    <3>5. r = RequestFor(u, l) BY RequestIsFor
    <3>1. l \in QueueKeys /\ r = RequestFor(u, l) BY <3>4, <3>5
    <3> HIDE DEF l
    <3>2. \/ r \in Handled
          \/ \E j \in ExpireThreads : \E a \in DOMAIN lists[j] : lists[j][a] = u
          \/ \E j \in ExpireThreads : \E a \in DOMAIN lts_queue[j][l] : lts_queue[j][l][a] = u
      BY <2>1 DEF ExpireCore, Kept, l
    <3>3. ASSUME NEW j \in ExpireThreads, NEW a \in DOMAIN lts_queue[j][l], lts_queue[j][l][a] = u
          PROVE  r \in Handled' \/ (a \in DOMAIN lts_queue'[j][l] /\ lts_queue'[j][l][a] = u)
      <4>1. CASE j = i /\ l = k
        <5>1. a \in DOMAIN batch /\ r = Of(a) BY <3>1, <3>3, <4>1 DEF Of, batch
        <5> QED BY <1>13, <5>1
      <4>2. CASE ~(j = i /\ l = k) BY <1>7, <3>1, <3>3, <4>2
      <4> QED BY <4>1, <4>2
    <3> QED BY <1>13, <3>2, <3>3 DEF l
  <2> QED BY <1>9, <2>1 DEF Kept
<1>21. StillListed'
  <2>1. \A z : Within(z)' <=> Within(z) BY DEF Within
  <2> QED BY <1>9, <2>1 DEF ExpireCore, StillListed
<1>22. DoneIsEmpty'
  <2>1. ASSUME NEW j \in ExpireThreads, at[j] = "done"
        PROVE  lists[j] = <<>> /\ \A l \in QueueKeys : lts_queue'[j][l] = <<>>
    BY <1>7, <2>1 DEF ExpireCore, DoneIsEmpty
  <2> QED BY <1>9, <2>1 DEF DoneIsEmpty
<1> QED BY <1>10, <1>14, <1>16, <1>17, <1>18, <1>19, <1>20, <1>21, <1>22 DEF ExpireCore

\* A step that only moves a thread on, to its end only when it has nothing left.
LEMMA MovingOnKeeps ==
  ASSUME ExpireCore, NEW i \in ExpireThreads, NEW place \in {"next", "done"}, at' = [at EXCEPT ![i] = place],
         place = "done" => lists[i] = <<>> /\ Left(i) = {},
         UNCHANGED <<job, lists, lts_queue, clean, sent, dropped, batch_errors>>
  PROVE  ExpireCore'
<1>1. ExpireTypeOK BY DEF ExpireCore
<1>2. ExpireThreads' = ExpireThreads /\ QueueKeys' = QueueKeys /\ Handled' = Handled
  BY DEF ExpireThreads, QueueKeys, Handled
<1>3. ExpireTypeOK' BY <1>1, <1>2 DEF ExpireTypeOK
<1>4. InOneList' /\ InOneQueue' /\ ListedFirst' /\ QueuedNext' /\ OnlyCollected' /\ Kept'
  BY <1>2 DEF ExpireCore, InOneList, InOneQueue, ListedFirst, QueuedNext, OnlyCollected, Kept
<1>5. StillListed'
  <2>1. \A z : Within(z)' <=> Within(z) BY DEF Within
  <2> QED BY <1>2, <2>1 DEF ExpireCore, StillListed
<1>6. DoneIsEmpty'
  <2>1. ASSUME NEW j \in ExpireThreads, at'[j] = "done"
        PROVE  lists[j] = <<>> /\ \A k \in QueueKeys : lts_queue[j][k] = <<>>
    <3>1. CASE j = i
      <4>1. place = "done" BY <1>1, <2>1, <3>1 DEF ExpireTypeOK
      <4> QED BY <3>1, <4>1 DEF Left
    <3>2. CASE j # i
      <4>1. at[j] = "done" BY <1>1, <2>1, <3>2 DEF ExpireTypeOK
      <4> QED BY <4>1 DEF ExpireCore, DoneIsEmpty
    <3> QED BY <3>1, <3>2
  <2> QED BY <1>2, <2>1 DEF DoneIsEmpty
<1> QED BY <1>3, <1>4, <1>5, <1>6 DEF ExpireCore

LEMMA ExpireStepInv == ExpireInv /\ [ExpireNext]_expireVars => ExpireInv'
<1> SUFFICES ASSUME ExpireCore, [ExpireNext]_expireVars PROVE ExpireCore'
  BY ExpireCoreIsEnough, PTL
<1>1. CASE UNCHANGED expireVars
  <2>1. UNCHANGED <<job, lists, lts_queue, at, clean, sent, dropped, batch_errors>> BY <1>1 DEF expireVars
  <2>2. ExpireThreads' = ExpireThreads /\ QueueKeys' = QueueKeys /\ Handled' = Handled
    BY <2>1 DEF ExpireThreads, QueueKeys, Handled
  <2>3. ExpireTypeOK' BY <2>1, <2>2 DEF ExpireCore, ExpireTypeOK
  <2>4. InOneList' /\ InOneQueue' /\ ListedFirst' /\ QueuedNext' /\ OnlyCollected' /\ Kept' /\ DoneIsEmpty'
    BY <2>1, <2>2 DEF ExpireCore, InOneList, InOneQueue, ListedFirst, QueuedNext, OnlyCollected, Kept, DoneIsEmpty
  <2>5. StillListed'
    <3>1. \A z : Within(z)' <=> Within(z) BY <2>1 DEF Within
    <3> QED BY <2>1, <2>2, <3>1 DEF ExpireCore, StillListed
  <2> QED BY <2>1, <2>3, <2>4, <2>5 DEF ExpireCore
<1>2. ASSUME NEW i \in ExpireThreads, ExpireThread(i) PROVE ExpireCore'
  <2>1. CASE NextMetatile(i) BY <2>1, NextMetatileKeeps
  <2>2. CASE GenericExpire(i) BY <2>2, GenericExpireKeeps
  <2>3. CASE PerformLong(i) BY <2>3, PerformUrlsKeeps DEF PerformLong, TooLong
  <2>4. CASE EndOfFlush(i) BY <2>4, MovingOnKeeps DEF EndOfFlush
  <2>5. CASE Drain(i) BY <2>5, PerformUrlsKeeps DEF Drain, Left
  <2>6. CASE EndOfThread(i) BY <2>6, MovingOnKeeps DEF EndOfThread
  <2> QED BY <1>2, <2>1, <2>2, <2>3, <2>4, <2>5, <2>6 DEF ExpireThread
<1> QED BY <1>1, <1>2 DEF ExpireNext
\* What is left when all threads are done.
LEMMA ExpireInvImplies == ExpireInv => NothingForgotten
<1> SUFFICES ASSUME ExpireInv, ThreadsDone, ~Aborts(job.input)
             PROVE  IF job.storage = "lts" THEN UNION {RequestsOf(t) : t \in job.tiles} = sent \union dropped
                    ELSE \A t \in clean : ~Within(t.z)
  BY DEF NothingForgotten
<1>1. \A i \in ExpireThreads : lists[i] = <<>> /\ \A k \in QueueKeys : lts_queue[i][k] = <<>>
  BY DEF ExpireInv, DoneIsEmpty, ThreadsDone
<1>2. DOMAIN <<>> = {} OBVIOUS
<1>3. CASE job.storage = "lts"
  <2>1. ASSUME NEW t \in job.tiles, NEW r \in RequestsOf(t) PROVE r \in Handled
    <3> DEFINE k == <<r.host, r.primary>>
    <3>1. r.host \in HostsOfTiles(job.tiles) /\ r.primary \in BOOLEAN BY RequestIsFor DEF HostsOfTiles
    <3>2. QueueKeys = HostsOfTiles(job.tiles) \X BOOLEAN BY KeysAndThreads DEF ExpireInv
    <3>3. k \in QueueKeys BY <3>1, <3>2
    <3>4. \A i \in ExpireThreads : DOMAIN lists[i] = {} /\ DOMAIN lts_queue[i][k] = {} BY <1>1, <1>2, <3>3
    <3> HIDE DEF k
    <3>5. \/ r \in Handled
          \/ \E i \in ExpireThreads : \E a \in DOMAIN lists[i] : lists[i][a] = t
          \/ \E i \in ExpireThreads : \E a \in DOMAIN lts_queue[i][k] : lts_queue[i][k][a] = t
      BY <1>3 DEF ExpireInv, Kept, k
    <3> QED BY <3>4, <3>5
  <2>2. ASSUME NEW r \in Handled PROVE r \in UNION {RequestsOf(t) : t \in job.tiles}
    BY DEF ExpireInv, OnlyCollected
  <2> QED BY <1>3, <2>1, <2>2 DEF Handled
<1>4. CASE job.storage # "lts"
  <2>1. job.storage = "generic" BY <1>4 DEF ExpireInv, ExpireTypeOK
  <2> QED BY <1>1, <1>2, <1>4, <2>1 DEF ExpireInv, StillListed
<1> QED BY <1>3, <1>4

\* NothingForgotten: when the threads of expire_tiles have ended, every metatile
\* that was collected was expired on each of its hosts or was in a batch that
\* failed, for every number of threads, batch size and order of the set.
THEOREM NothingIsForgotten == ExpireSpec => [](NothingForgotten /\ NothingTwice)
<1>1. ExpireInv => NothingForgotten /\ NothingTwice BY ExpireInvImplies DEF ExpireInv
<1> QED BY <1>1, ExpireInitInv, ExpireStepInv, PTL DEF ExpireSpec

\* AncestorsExpired, FirstTileExpired: whatever tile of a metatile was in the
\* input, the metatiles of all its ancestors down to min_z are collected, and of
\* its descendants those below the metatile's first tile, for every METATILE.
THEOREM RelativesAreCollected == ExpireSpec => [](AncestorsExpired /\ FirstTileExpired)
<1>1. ExpireInv => AncestorsExpired /\ FirstTileExpired BY DEF ExpireInv
<1> QED BY <1>1, ExpireInitInv, ExpireStepInv, PTL DEF ExpireSpec

-----------------------------------------------------------------------------
(* All of the clients *)

\* What the chosen component's initial states and steps do to its invariant.
LEMMA ClientsStart == MCInit => ClientsInv
<1> SUFFICES ASSUME MCInit PROVE ClientsInv OBVIOUS
<1>1. component \in Components BY DEF MCInit
<1>2. CASE component = "http" BY <1>2, HttpInitInv DEF MCInit, ClientsInv
<1>3. CASE component = "expiry" BY <1>3, ExpiryStarts DEF MCInit, ClientsInv
<1>4. CASE component = "submit" BY <1>4, SubmitStarts DEF MCInit, ClientsInv
<1>5. CASE component = "get" BY <1>5, GetStarts DEF MCInit, ClientsInv
<1>6. CASE component = "expire" BY <1>6, ExpireInitInv DEF MCInit, ClientsInv
<1>7. CASE component = "monitor" BY <1>7, MonitorInvStarts DEF MCInit, ClientsInv
<1> QED BY <1>1, <1>2, <1>3, <1>4, <1>5, <1>6, <1>7 DEF Components

\* Components are kept apart: a step of one is a stutter of the others.
LEMMA ClientsStep ==
  ASSUME [MCNext]_allVars
  PROVE  /\ component' = component
         /\ component = "http" => [HttpNext]_httpVars
         /\ component = "expiry" => [ExpiryNext]_expiryVars
         /\ component = "submit" => [SubmitNext]_submitVars
         /\ component = "get" => [GetNext]_getVars
         /\ component = "expire" => [ExpireNext]_expireVars
         /\ component = "monitor" => [MonitorNext]_monitorVars
BY DEF MCNext, allVars

LEMMA ClientsKept == ClientsInv /\ component \in Components /\ [MCNext]_allVars =>
                       ClientsInv' /\ component' \in Components
<1> SUFFICES ASSUME ClientsInv, component \in Components, [MCNext]_allVars
             PROVE  ClientsInv' /\ component' \in Components
  OBVIOUS
<1>1. component' = component BY ClientsStep
<1>2. CASE component = "http"
  <2>1. HttpInv' BY <1>2, ClientsStep, HttpInvKept DEF ClientsInv
  <2> QED BY <1>1, <1>2, <2>1 DEF ClientsInv, Components
<1>3. CASE component = "expiry"
  <2>1. ExpiryInv' BY <1>3, ClientsStep, ExpiryInvKept DEF ClientsInv
  <2> QED BY <1>1, <1>3, <2>1 DEF ClientsInv, Components
<1>4. CASE component = "submit"
  <2>1. SubmitInv' BY <1>4, ClientsStep, SubmitInvKept DEF ClientsInv
  <2> QED BY <1>1, <1>4, <2>1 DEF ClientsInv, Components
<1>5. CASE component = "get"
  <2>1. GetInv' BY <1>5, ClientsStep, GetInvKept DEF ClientsInv
  <2> QED BY <1>1, <1>5, <2>1 DEF ClientsInv, Components
<1>6. CASE component = "expire"
  <2>1. ExpireInv' BY <1>6, ClientsStep, ExpireStepInv DEF ClientsInv
  <2> QED BY <1>1, <1>6, <2>1 DEF ClientsInv, Components
<1>7. CASE component = "monitor"
  <2>1. MonitorInv' BY <1>7, ClientsStep, MonitorInvKept DEF ClientsInv
  <2> QED BY <1>1, <1>7, <2>1 DEF ClientsInv, Components
<1> QED BY <1>2, <1>3, <1>4, <1>5, <1>6, <1>7 DEF Components

(***************************************************************************)
(* ClientsInv: what the run of the clients checks of each of them holds in *)
(* every state of their side-by-side composition, for all values of the    *)
(* constants of all six.                                                   *)
(***************************************************************************)
THEOREM ClientsAreCorrect == MCSpec => []ClientsInv
<1>1. MCInit => ClientsInv /\ component \in Components BY ClientsStart DEF MCInit
<1>2. (ClientsInv /\ component \in Components) /\ [MCNext]_allVars => (ClientsInv /\ component \in Components)'
  BY ClientsKept
<1> QED BY <1>1, <1>2, PTL DEF MCSpec
=============================================================================

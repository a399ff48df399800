------------------------------ MODULE HttpMulti ------------------------------
(***************************************************************************)
(* http/http.cpp: do_multi_requests, the loop under multiGet, multiPost    *)
(* and multiPostForm. Connections are taken from a pool, given to the curl *)
(* multi handle with the options of a request, and come back when curl     *)
(* reports the transfer done. The pool is a stack in the code; which of    *)
(* the free connections is used makes no difference here.                  *)
(***************************************************************************)
EXTENDS Integers, FiniteSets

CONSTANTS Connections,    \* curl handles
          MaxRequests,    \* bound on the size of a batch
          Concurrencies   \* values of the configured concurrency

ASSUME HttpAssumption ==
    /\ IsFiniteSet(Connections)
    /\ MaxRequests \in Nat
    /\ Concurrencies \subseteq Nat
    /\ 0 \notin Connections

VARIABLES size,             \* requests.size()
          concurrency,      \* after the min with the number of requests
          free_connections,
          in_progress,      \* operations: connection and index of the request
          opts,             \* connection -> request its options are set for
          transfers,        \* connection -> state in the curl multi handle
          responses,        \* as in HttpBatch: 0 none, -1 error, or an answer
          req_i,            \* requests started
          running_handles,
          new_running_handles,
          pc

httpVars == <<size, concurrency, free_connections, in_progress, opts, transfers,
              responses, req_i, running_handles, new_running_handles, pc>>

Error == -1
NoAnswer == 0

Operations == [conn : Connections, index : 1 .. size]

\* The types of the loop's variables.
HttpTypeOK ==
    /\ size \in 0 .. MaxRequests
    /\ concurrency \in 0 .. size
    /\ free_connections \subseteq Connections
    /\ in_progress \subseteq Operations
    /\ opts \in [Connections -> 0 .. size]
    /\ transfers \in [Connections -> {"out", "running", "ok", "failed"}]
    /\ responses \in [1 .. size -> -1 .. size]
    /\ req_i \in 0 .. size
    /\ running_handles \in 0 .. Cardinality(Connections)
    /\ new_running_handles \in 0 .. Cardinality(Connections)
    /\ pc \in {"fill", "read", "returned", "thrown", "logic_error"}

MinOf(a, b) == IF a <= b THEN a ELSE b

\* The connection passed in, if any, is pushed first; others are made up to
\* the concurrency. Handles are interchangeable, so any set of that size will do.
HttpInit ==
    /\ size \in 0 .. MaxRequests
    /\ \E c \in Concurrencies : concurrency = MinOf(c, size)
    /\ \E passed \in {0, 1} :
         /\ free_connections \in SUBSET Connections
         /\ Cardinality(free_connections) =
              IF concurrency > passed THEN concurrency ELSE passed
    /\ in_progress = {}
    /\ opts = [c \in Connections |-> 0]
    /\ transfers = [c \in Connections |-> "out"]
    /\ responses = [i \in 1 .. size |-> NoAnswer]
    /\ req_i = 0
    /\ running_handles = 0
    /\ new_running_handles = 0
    /\ pc = "fill"
-----------------------------------------------------------------------------
CanStart ==
    /\ running_handles < concurrency
    /\ req_i < size
    /\ free_connections # {}

\* The constructors of curl_get, curl_post_single and curl_post_form set the
\* options of the request on the connection they are given.
MakeRequest(conn, index) ==
    /\ opts' = [opts EXCEPT ![conn] = index]
    /\ in_progress' = in_progress \union {[conn |-> conn, index |-> index]}

\* Mutant of TakeConnection: top() without pop().
TopWithoutPop(conn) == UNCHANGED free_connections

TakeConnection(conn) == free_connections' = free_connections \ {conn}

\* One round of the inner loop. When curl refuses the handle the request has
\* its error, but operation and connection stay where they are.
StartRequest ==
    /\ pc = "fill"
    /\ CanStart
    /\ \E conn \in free_connections :
         /\ MakeRequest(conn, req_i + 1)
         /\ TakeConnection(conn)
         /\ \/ /\ transfers' = [transfers EXCEPT ![conn] = "running"]
               /\ UNCHANGED responses
            \/ /\ responses' = [responses EXCEPT ![req_i + 1] = Error]
               /\ UNCHANGED transfers
    /\ req_i' = req_i + 1
    /\ UNCHANGED <<size, concurrency, running_handles, new_running_handles, pc>>

Running == {c \in Connections : transfers[c] = "running"}
Done == {c \in Connections : transfers[c] \in {"ok", "failed"}}

\* curl_multi_perform, and the wait: any of the transfers finish, either way.
Perform ==
    /\ pc = "fill"
    /\ ~CanStart
    /\ \E good \in SUBSET Running : \E bad \in SUBSET (Running \ good) :
         /\ transfers' = [c \in Connections |->
                            IF c \in good THEN "ok"
                            ELSE IF c \in bad THEN "failed" ELSE transfers[c]]
         /\ new_running_handles' = Cardinality(Running \ (good \union bad))
    /\ pc' = "read"
    /\ UNCHANGED <<size, concurrency, free_connections, in_progress, opts,
                   responses, req_i, running_handles>>

\* curl_oper::finish: the answer is the one to the request whose options the
\* connection holds.
FinishOper(conn) == IF transfers[conn] = "ok" THEN opts[conn] ELSE Error

\* The first operation in the list with the connection of the message.
OperOf(conn) == CHOOSE o \in in_progress : o.conn = conn

\* Mutant of SlotOf: responses are stored in the order in which they come.
NextSlot(oper) == 1 + Cardinality({i \in 1 .. size : responses[i] # NoAnswer})

\* The place of the response in the output vector, m_index.
SlotOf(oper) == oper.index

\* Mutant of ReturnConnection: the connection is not put back.
KeepConnection(conn) == UNCHANGED free_connections

ReturnConnection(conn) == free_connections' = free_connections \union {conn}

\* A finished transfer: its operation is erased, the response stored at the
\* operation's index, and the connection returned. The operation goes out of
\* scope at the end of the block and resets the connection.
ReadMessage ==
    /\ pc = "read"
    /\ \E conn \in Done :
         IF \E o \in in_progress : o.conn = conn
           THEN LET oper == OperOf(conn) IN
             /\ in_progress' = in_progress \ {oper}
             /\ transfers' = [transfers EXCEPT ![oper.conn] = "out"]
             /\ responses' = [responses EXCEPT ![SlotOf(oper)] = FinishOper(oper.conn)]
             /\ ReturnConnection(oper.conn)
             /\ opts' = [opts EXCEPT ![oper.conn] = 0]
             /\ UNCHANGED pc
           ELSE /\ pc' = "logic_error"
                /\ UNCHANGED <<in_progress, transfers, responses,
                               free_connections, opts>>
    /\ UNCHANGED <<size, concurrency, req_i, running_handles, new_running_handles>>

\* Mutant of AllDone: the call ends as soon as the last request was started.
AllStarted == req_i = size

AllDone == new_running_handles = 0 /\ req_i = size

AnyError == \E i \in 1 .. size : responses[i] = Error

\* The end of a round: go on, or return the responses, or throw the first error.
EndRound ==
    /\ pc = "read"
    /\ Done = {}
    /\ running_handles' = new_running_handles
    /\ pc' = IF ~AllDone THEN "fill" ELSE IF AnyError THEN "thrown" ELSE "returned"
    /\ UNCHANGED <<size, concurrency, free_connections, in_progress, opts,
                   transfers, responses, req_i, new_running_handles>>

HttpLoop == StartRequest \/ Perform \/ ReadMessage \/ EndRound

HttpNext == HttpLoop

HttpSpec == HttpInit /\ [][HttpNext]_httpVars

\* The loop does not block, and every transfer ends. The code sets no limit to
\* the time of a transfer: that a host which took the connection answers or
\* closes it is assumed, as is that curl gives up connecting.
TransferEnds ==
    /\ Perform
    /\ Running # {} => new_running_handles' < Cardinality(Running)

FairHttpSpec == HttpSpec /\ WF_httpVars(HttpLoop) /\ SF_httpVars(TransferEnds)
-----------------------------------------------------------------------------
(* Properties *)

\* A connection is free, or with one operation, never both, and no two
\* operations share one: a handle set up for a second request while curl still
\* works on the first would mix the two.
ConnectionsApart ==
    /\ \A o \in in_progress : o.conn \notin free_connections
    /\ \A o, p \in in_progress : o.conn = p.conn \/ o.index = p.index => o = p
    /\ pc # "logic_error"

\* The responses are in the order of the requests, whatever the order in which
\* the transfers finished: what is at an index answers the request of that index.
AnswersInPlace == \A i \in 1 .. size : responses[i] \in {NoAnswer, Error, i}

\* A transfer belongs to an operation, whose request has no answer yet; an
\* operation without a transfer was refused, and its request has the error.
TransfersMatch ==
    /\ \A c \in Connections : transfers[c] # "out" => \E o \in in_progress : o.conn = c
    /\ \A o \in in_progress :
         /\ o.index <= req_i
         /\ opts[o.conn] = o.index
         /\ responses[o.index] = IF transfers[o.conn] = "out" THEN Error ELSE NoAnswer

\* A request that was started and has no answer is with a transfer, and one that
\* was not started has no answer.
UnansweredIsUnderWay ==
    /\ \A i \in 1 .. req_i : responses[i] = NoAnswer =>
         \E o \in in_progress : o.index = i /\ transfers[o.conn] # "out"
    /\ \A i \in req_i + 1 .. size : responses[i] = NoAnswer

\* The count that ends the loop is that of the transfers curl still works on.
CountIsExact == pc = "read" => new_running_handles = Cardinality(Running)

\* The inductive invariant of do_multi_requests.
HttpInv ==
    /\ HttpTypeOK /\ ConnectionsApart /\ AnswersInPlace
    /\ TransfersMatch /\ UnansweredIsUnderWay /\ CountIsExact

Outcome == IF pc \in {"returned", "thrown"} THEN pc ELSE "pending"

Batch == INSTANCE HttpBatch WITH answers <- responses, outcome <- Outcome

\* The loop implements the abstract batch: every request is answered exactly
\* once, and the call returns or throws only after all of them.
ImplementsBatch == Batch!BatchSpec

\* Connections that curl refused: they stay with their failed operations.
Refused == {o \in in_progress : transfers[o.conn] = "out"}

\* No request can be started any more: the configured concurrency is 0, or
\* curl has refused every connection.
Starved == req_i < size /\ Cardinality(Refused) >= concurrency

\* The call ends, unless it is starved of connections: then the loop spins for
\* ever, which is what a concurrency of 0 or refused handles lead to.
CallEnds == <>(pc \in {"returned", "thrown"} \/ Starved)
=============================================================================

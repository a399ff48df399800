----------------------------- MODULE RenderQueue -----------------------------
(***************************************************************************)
(* Brokers and workers together: TileBroker and TaskCommunicator joined    *)
(* over their channels.  ZeroMQ keeps the messages between one worker and  *)
(* one broker in order and loses them only with the process that owns the  *)
(* socket; announcements are dropped when a subscriber's queue is full.    *)
(***************************************************************************)
EXTENDS TileBroker, TaskCommunicator

CONSTANT
  MonitorCommands  \* which of "CLEAR", "RESUBMIT", "SHUTDOWN" the brokers are sent

VARIABLE
  recalled         \* history: <<b, m>> if b resubmitted or cleared its task for m

\* The variables of the workers that the brokers do not share.
ownVars == <<commVars, codeVars, to_broker, faultVars>>
vars == <<brokerVars, ownVars, recalled>>
-----------------------------------------------------------------------------
Init == BrokerInit /\ WorkerInit /\ recalled = {}

\* The head of to_broker[w][b] is read by the poll loop of broker b.
BrokerReads(b, w, type) ==
  /\ to_broker[w][b] # << >>
  /\ Head(to_broker[w][b]).type = type
  /\ to_broker' = [to_broker EXCEPT ![w][b] = Tail(@)]
  /\ UNCHANGED <<commVars, codeVars, faultVars, recalled>>

GetJob(b, w) == BrokerReads(b, w, "GET_JOB") /\ BackendGetJob(b, w)

ReceiveResult(b, w) ==
  /\ BrokerReads(b, w, "RESULT")
  /\ BackendResult(b, Head(to_broker[w][b]))

Request(b, r) == FrontendRequest(b, r) /\ UNCHANGED <<ownVars, recalled>>

Clear(b) ==
  /\ "CLEAR" \in MonitorCommands
  /\ MonitorClear(b)
  /\ recalled' = recalled \cup ({b} \X DOMAIN queue[b].tasks)
  /\ UNCHANGED ownVars

Resubmit(b) ==
  /\ "RESUBMIT" \in MonitorCommands
  /\ MonitorResubmit(b)
  /\ recalled' = recalled \cup ({b} \X (Available(queue'[b]) \ Available(queue[b])))
  /\ UNCHANGED ownVars

Heartbeat(b) == MonitorHeartbeat(b) /\ UNCHANGED <<ownVars, recalled>>

Shutdown(b) ==
  /\ "SHUTDOWN" \in MonitorCommands
  /\ MonitorShutdown(b)
  /\ UNCHANGED <<ownVars, recalled>>

ClockTick == Tick /\ UNCHANGED <<ownVars, recalled>>

\* The variables of the brokers that the workers do not share.
Work(w) ==
  WorkerStep(w) /\ UNCHANGED <<queue, running, accepted, replies, frontend_pub, recalled>>

Next ==
  \/ \E b \in Brokers :
       \/ \E r \in Requests : Request(b, r)
       \/ \E w \in Workers : GetJob(b, w) \/ ReceiveResult(b, w)
       \/ Clear(b) \/ Resubmit(b) \/ Heartbeat(b) \/ Shutdown(b)
  \/ \E w \in Workers : Work(w)
  \/ ClockTick

Spec == Init /\ [][Next]_vars
-----------------------------------------------------------------------------
(***************************************************************************)
(* Fairness.  The poll loop of a broker serves each of its sockets every   *)
(* time round; the monitor thread keeps sending HEARTBEAT and RESUBMIT;    *)
(* the communicator reads its sockets and the worker code finishes its     *)
(* jobs.  Nothing makes clients send, workers crash, timers fire or        *)
(* operators clear or shut down a broker.                                  *)
(***************************************************************************)
BrokerFairness ==
  \A b \in Brokers :
     /\ \A w \in Workers : WF_vars(GetJob(b, w)) /\ WF_vars(ReceiveResult(b, w))
     /\ WF_vars(Heartbeat(b))
     /\ WF_vars(Resubmit(b))

WorkerFairness ==
  \A w \in Workers :
     /\ \A b \in Brokers :
          WF_vars((AcceptJob(w, b) \/ DropUnexpectedJob(w, b) \/ ReceiveNoJobs(w, b)) /\ Work(w))
     /\ WF_vars(HearAnnouncement(w) /\ Work(w))
     /\ WF_vars((InprocResult(w) \/ InprocRequest(w)) /\ Work(w))
     /\ WF_vars(RunCode(w) /\ Work(w))

FairSpec == Spec /\ BrokerFairness /\ WorkerFairness /\ WF_vars(ClockTick)
-----------------------------------------------------------------------------
ResultMsg ==
  [type : {"RESULT"}, x : Metatiles, status : ResultCmd, data : SUBSET (Formats \cup StyleFormats)]

\* Type invariant of what the workers send and pass on.
MessagesOK ==
  /\ to_code \in [Workers -> Seq([job : JobMsg, from : Brokers])]
  /\ to_comm \in [Workers -> Seq(ResultMsg \cup {RequestJob})]
  /\ to_broker \in [Workers -> [Brokers -> Seq(ResultMsg \cup {GetJobMsg})]]

\* Where a job of broker b can be between its task queue and its result: on its
\* way to worker w, in the worker code, with the communicator, on its way back.
Stages == {"sent", "held", "done", "back"}

Path(w, b, stage) ==
  CASE stage = "sent" -> to_worker[w][b]
    [] stage = "held" -> IF current_broker[w] = b
                         THEN [i \in 1 .. Len(to_code[w]) |-> to_code[w][i].job] ELSE << >>
    [] stage = "done" -> IF current_broker[w] = b THEN to_comm[w] ELSE << >>
    [] stage = "back" -> to_broker[w][b]

Carries(msg, m) == msg.type \in {"JOB", "RESULT"} /\ msg.x = m

\* The copies of the job for metatile m, given out by broker b, that are out.
Copies(b, m) ==
  UNION {{<<w, stage, i>> : i \in {i \in 1 .. Len(Path(w, b, stage)) :
                                      Carries(Path(w, b, stage)[i], m)}} :
           w \in Workers, stage \in Stages}

Outstanding(b, m) == Cardinality(Copies(b, m))

(***************************************************************************)
(* A metatile that was not resubmitted or cleared is out to at most one    *)
(* worker, and only while its task is queued and marked processed: merging *)
(* requests into a running task, refusals, retries and crashes never make  *)
(* a broker give one metatile to two workers.                              *)
(***************************************************************************)
NoDuplicateRender ==
  \A b \in Brokers : \A m \in Metatiles : <<b, m>> \notin recalled =>
     /\ Outstanding(b, m) <= 1
     /\ Outstanding(b, m) = 1 => /\ m \in DOMAIN queue[b].tasks
                                 /\ queue[b].tasks[m].processed

(***************************************************************************)
(* Every interactive request that reaches a broker is answered, although   *)
(* announcements get lost, workers crash with jobs in their hands, and     *)
(* jobs are thrown away by workers that had stopped waiting for them.      *)
(***************************************************************************)
EveryRequestAnswered ==
  \A r \in Interactive : r \in accepted ~> replies[r] # << >>

(***************************************************************************)
(* Work does not sit in a queue beside an idle worker: a task that can be  *)
(* handed out is handed out, or settled by a late result.                  *)
(***************************************************************************)
AvailableWorkIsTaken ==
  \A b \in Brokers : \A m \in Metatiles :
     (m \in DOMAIN queue[b].tasks /\ ~queue[b].tasks[m].processed)
       ~> (m \notin DOMAIN queue[b].tasks \/ queue[b].tasks[m].processed)
=============================================================================

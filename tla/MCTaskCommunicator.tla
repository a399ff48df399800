-------------------------- MODULE MCTaskCommunicator --------------------------
(***************************************************************************)
(* The workers closed with brokers of which nothing is known but the       *)
(* protocol: they answer every GET_JOB once, in their own time, with a job *)
(* or a refusal, and announce anything.                                    *)
(***************************************************************************)
EXTENDS TaskCommunicator

Jobs == {[type |-> "JOB", x |-> 0, format |-> {"png"}]}
Statuses == {[priority |-> 0, qsize |-> 1], [priority |-> 100, qsize |-> 1]}

EnvAnswer(w, b) ==
  /\ to_broker[w][b] # << >>
  /\ to_broker' = [to_broker EXCEPT ![w][b] = Tail(@)]
  /\ \/ /\ Head(to_broker[w][b]).type = "GET_JOB"
        /\ \E m \in Jobs \cup {NoJobs} :
             to_worker' = [to_worker EXCEPT ![w][b] = Append(@, m)]
     \/ /\ Head(to_broker[w][b]).type = "RESULT"
        /\ UNCHANGED to_worker
  /\ UNCHANGED <<commVars, codeVars, announce, faultVars>>

EnvAnnounce(w, b) ==
  /\ announce[w] = << >>
  /\ \E s \in Statuses :
       announce' = [announce EXCEPT ![w] =
                      <<[broker |-> b, priority |-> s.priority, qsize |-> s.qsize]>>]
  /\ UNCHANGED <<commVars, codeVars, to_broker, to_worker, faultVars>>

CommunicatorInit ==
  /\ WorkerInit
  /\ to_worker = [w \in Workers |-> [b \in Brokers |-> << >>]]
  /\ announce = [w \in Workers |-> << >>]

CommunicatorNext ==
  \E w \in Workers :
     \/ WorkerStep(w)
     \/ \E b \in Brokers : EnvAnswer(w, b) \/ EnvAnnounce(w, b)

CommunicatorSpec == CommunicatorInit /\ [][CommunicatorNext]_workerVars
=============================================================================

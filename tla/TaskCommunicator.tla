--------------------------- MODULE TaskCommunicator ---------------------------
(***************************************************************************)
(* A render worker: the communication thread that finds it jobs            *)
(* (zmq_backend_worker::task_communicator, dqueue/zmq_backend.cpp) and the *)
(* worker code on the other end of the inproc socket (py/worker.py through *)
(* get_job and notify).  One action per socket of the poll loop and per    *)
(* outcome of its handler; the retry timer may fire whenever the worker is *)
(* trying to get a job, up to MaxTimeouts times per worker.                *)
(***************************************************************************)
EXTENDS Channels

CONSTANTS
  None,          \* boost::none
  Outcomes,      \* which ways a job can end in py/worker.py
  StyleFormats,  \* the formats configured for the style
  MaxTimeouts,   \* bound: retry timeouts per worker
  MaxCrashes     \* bound: crashes per worker

ASSUME NoneAssumption == None \notin Brokers
ASSUME TimeoutAssumption == MaxTimeouts \in Nat /\ MaxCrashes \in Nat
ASSUME OutcomeAssumption == Outcomes \subseteq {"ignored", "exists", "rendered", "failed"}

VARIABLES
  state,              \* communicator_state
  current_broker,
  brokers_with_jobs,  \* brokers_with_jobs[w]: function from brokers to statuses
  to_comm,            \* inproc messages from the worker code to the communicator
  to_code,            \* inproc jobs, each with the broker it is from: the worker
                      \* code works on the first, or blocks in get_job
  to_broker,          \* to_broker[w][b]: messages of w that b has not read
  timeouts,           \* retry timeouts so far
  crashes             \* crashes so far

commVars == <<state, current_broker, brokers_with_jobs>>
codeVars == <<to_comm, to_code>>
netVars == <<to_broker, to_worker, announce>>
faultVars == <<timeouts, crashes>>
workerVars == <<commVars, codeVars, netVars, faultVars>>

GetJobMsg == [type |-> "GET_JOB"]
RequestJob == [type |-> "request"]
-----------------------------------------------------------------------------
\* broker_status::operator>
Better(s, t) ==
  \/ s.priority > t.priority
  \/ s.priority = t.priority /\ s.qsize > t.qsize

Erase(known, b) == [c \in DOMAIN known \ {b} |-> known[c]]

\* highest_priority_broker: equally good brokers come in hash map order.
HighestPriorityBrokers(known) ==
  {b \in DOMAIN known : \A c \in DOMAIN known : ~Better(known[c], known[b])}

\* try_to_get_job, with known the value of brokers_with_jobs at the call.
TryToGetJob(w, known) ==
  \/ \E b \in HighestPriorityBrokers(known) :
       /\ current_broker' = [current_broker EXCEPT ![w] = b]
       /\ to_broker' = [to_broker EXCEPT ![w][b] = Append(@, GetJobMsg)]
       /\ state' = [state EXCEPT ![w] = "trying_to_get_job"]
  \/ /\ DOMAIN known = {}
     /\ current_broker' = [current_broker EXCEPT ![w] = None]
     /\ state' = [state EXCEPT ![w] = "waiting_for_job"]
     /\ UNCHANGED to_broker
-----------------------------------------------------------------------------
RetryTimeout(w) ==
  LET known == Erase(brokers_with_jobs[w], current_broker[w])
  IN  /\ state[w] = "trying_to_get_job"
      /\ timeouts[w] < MaxTimeouts
      /\ timeouts' = [timeouts EXCEPT ![w] = @ + 1]
      /\ brokers_with_jobs' = [brokers_with_jobs EXCEPT ![w] = known]
      /\ TryToGetJob(w, known)
      /\ UNCHANGED <<codeVars, to_worker, announce, crashes>>

ReadFrom(w, b, type) ==
  /\ to_worker[w][b] # << >>
  /\ Head(to_worker[w][b]).type = type
  /\ to_worker' = [to_worker EXCEPT ![w][b] = Tail(@)]

\* A job is taken only from the broker that was asked last, while asking.
Expected(w, b) == state[w] = "trying_to_get_job" /\ current_broker[w] = b

\* Mutant: a job is taken in any state and from any broker.
AcceptAnyJob(w, b) ==
  /\ ReadFrom(w, b, "JOB")
  /\ to_code' = [to_code EXCEPT ![w] = Append(@, [job |-> Head(to_worker[w][b]), from |-> b])]
  /\ current_broker' = [current_broker EXCEPT ![w] = b]
  /\ state' = [state EXCEPT ![w] = "job_processing"]
  /\ UNCHANGED <<brokers_with_jobs, to_comm, to_broker, announce, faultVars>>

AcceptJob(w, b) ==
  /\ ReadFrom(w, b, "JOB")
  /\ Expected(w, b)
  /\ to_code' = [to_code EXCEPT ![w] = Append(@, [job |-> Head(to_worker[w][b]), from |-> b])]
  /\ current_broker' = [current_broker EXCEPT ![w] = b]
  /\ state' = [state EXCEPT ![w] = "job_processing"]
  /\ UNCHANGED <<brokers_with_jobs, to_comm, to_broker, announce, faultVars>>

DropUnexpectedJob(w, b) ==
  /\ ReadFrom(w, b, "JOB")
  /\ ~Expected(w, b)
  /\ UNCHANGED <<commVars, codeVars, to_broker, announce, faultVars>>

ReceiveNoJobs(w, b) ==
  LET known == Erase(brokers_with_jobs[w], b)
  IN  /\ ReadFrom(w, b, NO_JOBS)
      /\ brokers_with_jobs' = [brokers_with_jobs EXCEPT ![w] = known]
      /\ IF state[w] = "trying_to_get_job"
         THEN TryToGetJob(w, known)
         ELSE UNCHANGED <<state, current_broker, to_broker>>
      /\ UNCHANGED <<codeVars, announce, faultVars>>

\* Mutants: asks again while a request is out; never asks.
HearAnnouncementEager(w) ==
  LET a     == Head(announce[w])
      known == [b \in DOMAIN brokers_with_jobs[w] \cup {a.broker} |->
                  IF b = a.broker THEN [priority |-> a.priority, qsize |-> a.qsize]
                  ELSE brokers_with_jobs[w][b]]
  IN  /\ announce[w] # << >>
      /\ announce' = [announce EXCEPT ![w] = Tail(@)]
      /\ brokers_with_jobs' = [brokers_with_jobs EXCEPT ![w] = known]
      /\ IF state[w] \in {"waiting_for_job", "trying_to_get_job"}
         THEN TryToGetJob(w, known)
         ELSE UNCHANGED <<state, current_broker, to_broker>>
      /\ UNCHANGED <<codeVars, to_worker, faultVars>>

HearAnnouncementIdly(w) ==
  LET a     == Head(announce[w])
      known == [b \in DOMAIN brokers_with_jobs[w] \cup {a.broker} |->
                  IF b = a.broker THEN [priority |-> a.priority, qsize |-> a.qsize]
                  ELSE brokers_with_jobs[w][b]]
  IN  /\ announce[w] # << >>
      /\ announce' = [announce EXCEPT ![w] = Tail(@)]
      /\ brokers_with_jobs' = [brokers_with_jobs EXCEPT ![w] = known]
      /\ UNCHANGED <<codeVars, to_worker, faultVars, state, current_broker, to_broker>>

HearAnnouncement(w) ==
  LET a     == Head(announce[w])
      known == [b \in DOMAIN brokers_with_jobs[w] \cup {a.broker} |->
                  IF b = a.broker THEN [priority |-> a.priority, qsize |-> a.qsize]
                  ELSE brokers_with_jobs[w][b]]
  IN  /\ announce[w] # << >>
      /\ announce' = [announce EXCEPT ![w] = Tail(@)]
      /\ brokers_with_jobs' = [brokers_with_jobs EXCEPT ![w] = known]
      /\ IF state[w] = "waiting_for_job"
         THEN TryToGetJob(w, known)
         ELSE UNCHANGED <<state, current_broker, to_broker>>
      /\ UNCHANGED <<codeVars, to_worker, faultVars>>

ReadInproc(w, type) ==
  /\ to_comm[w] # << >>
  /\ Head(to_comm[w]).type = type
  /\ to_comm' = [to_comm EXCEPT ![w] = Tail(@)]

InprocResult(w) ==
  /\ ReadInproc(w, "RESULT")
  /\ IF state[w] = "job_processing" /\ current_broker[w] # None
     THEN /\ to_broker' = [to_broker EXCEPT ![w][current_broker[w]] =
                             Append(@, Head(to_comm[w]))]
          /\ current_broker' = [current_broker EXCEPT ![w] = None]
          /\ state' = [state EXCEPT ![w] = "idle"]
     ELSE UNCHANGED <<to_broker, current_broker, state>>
  /\ UNCHANGED <<brokers_with_jobs, to_code, to_worker, announce, faultVars>>

InprocRequest(w) ==
  /\ ReadInproc(w, "request")
  /\ IF state[w] = "idle"
     THEN TryToGetJob(w, brokers_with_jobs[w])
     ELSE UNCHANGED <<state, current_broker, to_broker>>
  /\ UNCHANGED <<brokers_with_jobs, to_code, to_worker, announce, faultVars>>
-----------------------------------------------------------------------------
(***************************************************************************)
(* How py/worker.py fills in the job it returns: no renderer for the style *)
(* or a bad position; a metatile found in storage, read in the formats of  *)
(* the job; a metatile rendered in all the formats of the style; or an     *)
(* exception while rendering, after which the status is still the one the  *)
(* job came with.                                                          *)
(***************************************************************************)
ResultOf(job, outcome) ==
  [type   |-> "RESULT",
   x      |-> job.x,
   status |-> CASE outcome \in {"ignored", "exists"} -> "cmdIgnore"
                [] outcome = "rendered" -> "cmdDone"
                [] outcome = "failed"   -> "cmdRender",
   data   |-> CASE outcome = "exists"   -> job.format
                [] outcome = "rendered" -> StyleFormats
                [] OTHER                -> {}]

\* One round of the worker loop: notify with the job that came in, then ask for
\* the next one with get_job, which blocks until there is one.
WorkOnJob(w, outcome) ==
  /\ to_code[w] # << >>
  /\ to_comm' = [to_comm EXCEPT ![w] =
                   @ \o <<ResultOf(Head(to_code[w]).job, outcome), RequestJob>>]
  /\ to_code' = [to_code EXCEPT ![w] = Tail(@)]
  /\ UNCHANGED <<commVars, netVars, faultVars>>

(***************************************************************************)
(* The process dies (or leaves its loop over the memory limit, with its    *)
(* communicator still to forward the last result) and monit starts it      *)
(* again.  Responses on their way to it are lost, or kept for it when it   *)
(* comes back with the same configured identity.                           *)
(***************************************************************************)
Crash(w) ==
  /\ crashes[w] < MaxCrashes
  /\ crashes' = [crashes EXCEPT ![w] = @ + 1]
  /\ state' = [state EXCEPT ![w] = "idle"]
  /\ current_broker' = [current_broker EXCEPT ![w] = None]
  /\ brokers_with_jobs' = [brokers_with_jobs EXCEPT ![w] = << >>]
  /\ to_comm' = [to_comm EXCEPT ![w] = <<RequestJob>>]
  /\ to_code' = [to_code EXCEPT ![w] = << >>]
  /\ announce' = [announce EXCEPT ![w] = << >>]
  /\ \/ UNCHANGED to_worker
     \/ to_worker' = [to_worker EXCEPT ![w] = [b \in Brokers |-> << >>]]
  /\ UNCHANGED <<to_broker, timeouts>>
-----------------------------------------------------------------------------
WorkerInit ==
  /\ state = [w \in Workers |-> "idle"]
  /\ current_broker = [w \in Workers |-> None]
  /\ brokers_with_jobs = [w \in Workers |-> << >>]
  /\ to_comm = [w \in Workers |-> <<RequestJob>>]
  /\ to_code = [w \in Workers |-> << >>]
  /\ to_broker = [w \in Workers |-> [b \in Brokers |-> << >>]]
  /\ timeouts = [w \in Workers |-> 0]
  /\ crashes = [w \in Workers |-> 0]

Communicate(w) ==
  \/ \E b \in Brokers : AcceptJob(w, b) \/ DropUnexpectedJob(w, b) \/ ReceiveNoJobs(w, b)
  \/ HearAnnouncement(w)
  \/ InprocResult(w)
  \/ InprocRequest(w)

RunCode(w) == \E o \in Outcomes : WorkOnJob(w, o)

WorkerStep(w) == Communicate(w) \/ RunCode(w) \/ RetryTimeout(w) \/ Crash(w)
-----------------------------------------------------------------------------
\* Jobs that worker w has taken and whose result has not left it.
Held(w) ==
  Len(to_code[w])
  + Cardinality({i \in 1 .. Len(to_comm[w]) : to_comm[w][i].type = "RESULT"})

States == {"idle", "waiting_for_job", "trying_to_get_job", "job_processing"}

\* Type invariant of the workers and their channels.
WorkerTypeOK ==
  /\ state \in [Workers -> States]
  /\ current_broker \in [Workers -> Brokers \cup {None}]
  /\ DOMAIN brokers_with_jobs = Workers
  /\ \A w \in Workers :
       /\ DOMAIN brokers_with_jobs[w] \subseteq Brokers
       /\ \A b \in Brokers :
            /\ \A i \in 1 .. Len(to_worker[w][b]) : to_worker[w][b][i].type \in {"JOB", NO_JOBS}
            /\ \A i \in 1 .. Len(to_broker[w][b]) : to_broker[w][b][i].type \in {"GET_JOB", "RESULT"}
  /\ timeouts \in [Workers -> 0 .. MaxTimeouts]
  /\ crashes \in [Workers -> 0 .. MaxCrashes]

(***************************************************************************)
(* The cases of which the communicator's comments say that "the state      *)
(* machine implies this can never happen" do not happen, however late the  *)
(* brokers answer: a result reaches the communicator only while it is      *)
(* processing a job for a known broker, a request for a job only while it  *)
(* is idle, and the retry timer finds a current broker to give up on.      *)
(***************************************************************************)
NeverSurprised ==
  \A w \in Workers :
     /\ state[w] \in {"trying_to_get_job", "job_processing"} <=> current_broker[w] # None
     /\ (to_comm[w] # << >> /\ Head(to_comm[w]).type = "RESULT") => state[w] = "job_processing"
     /\ (to_comm[w] # << >> /\ Head(to_comm[w]).type = "request") => state[w] = "idle"

(***************************************************************************)
(* A worker holds one job exactly while its communicator is processing,    *)
(* and the job it holds came from the broker its result will go to, even   *)
(* when several brokers answer requests the worker had given up on.        *)
(***************************************************************************)
ResultGoesHome ==
  \A w \in Workers :
     /\ Held(w) = IF state[w] = "job_processing" THEN 1 ELSE 0
     /\ \A i \in 1 .. Len(to_code[w]) : to_code[w][i].from = current_broker[w]

(***************************************************************************)
(* A job that a broker hands out is thrown away as unexpected only by a    *)
(* worker whose retry timer has fired or that was restarted: announcements *)
(* and refusals alone never make it ask twice for one job.                 *)
(***************************************************************************)
JobsDroppedOnlyAfterTimeout ==
  \A w \in Workers : \A b \in Brokers :
     (/\ timeouts[w] = 0 /\ crashes[w] = 0
      /\ to_worker[w][b] # << >> /\ Head(to_worker[w][b]).type = "JOB")
     => Expected(w, b)

(***************************************************************************)
(* Communicator and worker code move in step: what is in the two inproc    *)
(* queues between them is given by the communicator's state.               *)
(***************************************************************************)
PairInStep(w) ==
  \/ /\ state[w] = "idle" /\ current_broker[w] = None
     /\ to_code[w] = << >> /\ to_comm[w] = <<RequestJob>>
  \/ /\ state[w] = "waiting_for_job" /\ current_broker[w] = None
     /\ to_code[w] = << >> /\ to_comm[w] = << >>
  \/ /\ state[w] = "trying_to_get_job" /\ current_broker[w] \in Brokers
     /\ to_code[w] = << >> /\ to_comm[w] = << >>
  \/ /\ state[w] = "job_processing" /\ current_broker[w] \in Brokers
     /\ Len(to_code[w]) = 1 /\ to_code[w][1].from = current_broker[w]
     /\ to_comm[w] = << >>
  \/ /\ state[w] = "job_processing" /\ current_broker[w] \in Brokers
     /\ to_code[w] = << >>
     /\ Len(to_comm[w]) = 2 /\ to_comm[w][1].type = "RESULT" /\ to_comm[w][2] = RequestJob

InStep == \A w \in Workers : PairInStep(w)

(***************************************************************************)
(* A worker that has neither timed out nor crashed has one request out at  *)
(* most: a GET_JOB is the last thing it sent, to the broker it waits for,  *)
(* which has not answered it, and an answer is the only one.               *)
(***************************************************************************)
OneRequestOut(w, b) ==
  timeouts[w] = 0 /\ crashes[w] = 0 =>
     /\ to_worker[w][b] # << >> => Expected(w, b) /\ Len(to_worker[w][b]) = 1
     /\ \A i \in 1 .. Len(to_broker[w][b]) :
          to_broker[w][b][i].type = "GET_JOB"
          => i = Len(to_broker[w][b]) /\ to_worker[w][b] = << >> /\ Expected(w, b)

AskedOnce == \A w \in Workers : \A b \in Brokers : OneRequestOut(w, b)

(***************************************************************************)
(* What the communicator and its worker keep to at every step: their types, *)
(* NeverSurprised and ResultGoesHome, and what these follow from.          *)
(***************************************************************************)
WorkerInv == WorkerTypeOK /\ NeverSurprised /\ ResultGoesHome /\ InStep /\ AskedOnce
=============================================================================

---------------------------- MODULE TileSubmitter ----------------------------
(***************************************************************************)
(* tile_submitter.cpp: reads tile paths and puts them in the queue as bulk *)
(* jobs as long as the queue is short, through the runner of               *)
(* dqueue/distributed_queue.cpp. How long the queue is, the runner says    *)
(* from the heartbeats of the brokers that were live when it last sent a   *)
(* job: while the submitter waits it sends nothing, so nothing of that     *)
(* changes but the sizes of brokers that go on publishing.                 *)
(***************************************************************************)
EXTENDS Integers, Sequences, FiniteSets, Functions

CONSTANTS SubmitBrokers,
          Inputs,               \* what the input may hold, line by line
          short_queue_length,
          MaxQueue,             \* bound on a broker's queue
          MaxBrokerDeaths       \* bound on the brokers that die

\* What a line may be: a tile path; one that does not parse; one that just fills the
\* buffer; one that is longer than the buffer and whose beginning is a tile path.
Lines == {"tile", "malformed", "full", "overlong"}

ASSUME SubmitAssumption ==
  /\ \A in \in Inputs : in \in Seq(Lines)
  /\ short_queue_length \in Nat \ {0} /\ MaxQueue \in Nat /\ MaxBrokerDeaths \in Nat

VARIABLES
  input,        \* lines not read yet
  m_settling,   \* the backend's settling time has not passed
  queue_short,
  reported,     \* broker -> queue_size, is_live, and whether it beats
  queued,       \* broker -> its queue
  running,      \* brokers that run
  failed,       \* jobs that the runner could not send
  step          \* where enqueue_tiles is

submitVars == <<input, m_settling, queue_short, reported, queued, running, failed, step>>

\* The types of the submitter's and the brokers' state.
SubmitTypeOK ==
  /\ input \in Seq(Lines)
  /\ {m_settling, queue_short} \subseteq BOOLEAN
  /\ reported \in [SubmitBrokers -> [queue_size : 0 .. MaxQueue, is_live : BOOLEAN, beats : BOOLEAN]]
  /\ queued \in [SubmitBrokers -> 0 .. MaxQueue]
  /\ running \subseteq SubmitBrokers
  /\ failed \in Nat
  /\ step \in {"settle", "next", "wait", "put", "pause", "polled", "end"}

SubmitInit ==
  /\ input \in Inputs
  /\ m_settling = TRUE
  /\ queue_short = FALSE
  /\ reported = [b \in SubmitBrokers |-> [queue_size |-> 0, is_live |-> FALSE, beats |-> FALSE]]
  /\ queued \in [SubmitBrokers -> 0 .. MaxQueue]
  /\ running = SubmitBrokers
  /\ failed = 0
  /\ step = "settle"
-----------------------------------------------------------------------------
(* The runner *)

LiveBrokers(rep) == {b \in SubmitBrokers : rep[b].is_live}

Average(sizes) ==
  IF DOMAIN sizes = {} THEN 0 ELSE SumFunction(sizes) \div Cardinality(DOMAIN sizes)

\* queue_length: the average over the live brokers, 0 without any; while the
\* backend settles it is the largest there is.
queue_length(rep) == Average([b \in LiveBrokers(rep) |-> rep[b].queue_size])

QueueShort == ~m_settling /\ queue_length(reported) < short_queue_length

\* put_job and send: who beats is live now; the job goes to one of those.
AfterUpdate == [b \in SubmitBrokers |-> [reported[b] EXCEPT !.is_live = reported[b].beats]]
-----------------------------------------------------------------------------
(* The submitter *)

\* settle: until the length is a real one. What arrives is handled meanwhile.
Settled ==
  /\ step = "settle" /\ ~m_settling
  /\ step' = "next"
  /\ UNCHANGED <<input, m_settling, queue_short, reported, queued, running, failed>>

\* read_from_iostream::next: a line that does not parse ends the input as its end
\* does. The test for a long line holds for one that fills the buffer, newline
\* included; a longer one is cut, parsed, and leaves the stream failed, so that
\* nothing is read after it.
NextTile ==
  /\ step = "next"
  /\ step' = IF input = <<>> \/ Head(input) \in {"malformed", "full"} THEN "end"
             ELSE IF queue_short THEN "put" ELSE "wait"
  /\ input' = IF input = <<>> \/ Head(input) = "overlong" THEN <<>> ELSE Tail(input)
  /\ UNCHANGED <<m_settling, queue_short, reported, queued, running, failed>>

\* The steps in which runner_poll is called.
Polling == {"settle", "wait", "pause", "polled"}

Heard(b) == [reported EXCEPT ![b] = [@ EXCEPT !.queue_size = queued[b], !.beats = TRUE]]

\* Mutant of Hear: the waiting loop does not look at the length again.
HearOnly(b) ==
  /\ b \in running /\ step \in Polling
  /\ reported' = Heard(b)
  /\ step' = IF step = "pause" THEN "polled" ELSE step
  /\ UNCHANGED <<input, m_settling, queue_short, queued, running, failed>>

\* A heartbeat is heard: the poll returns. It is the only thing that the submitter
\* hears while it waits, and it looks at the length again then.
Hear(b) ==
  /\ b \in running /\ step \in Polling
  /\ reported' = Heard(b)
  /\ queue_short' = IF step = "settle" THEN queue_short
                    ELSE ~m_settling /\ queue_length(Heard(b)) < short_queue_length
  /\ step' = CASE step = "wait" /\ queue_short' -> "put"
               [] step = "pause" -> "polled"
               [] OTHER -> step
  /\ UNCHANGED <<input, m_settling, queued, running, failed>>

\* The tile is put, clipped to its metatile, with no reply and as bulk. Without a
\* live broker the job is given up with an error; one that goes to a broker that
\* is dead but beat lately is lost.
PutJob ==
  /\ step = "put"
  /\ reported' = AfterUpdate
  /\ LET live == LiveBrokers(AfterUpdate) IN
     \/ /\ live = {} /\ failed' = failed + 1 /\ UNCHANGED queued
     \/ \E b \in live :
          /\ queued' = IF b \in running /\ queued[b] < MaxQueue
                         THEN [queued EXCEPT ![b] = @ + 1] ELSE queued
          /\ UNCHANGED failed
  /\ step' = "pause"
  /\ UNCHANGED <<input, m_settling, queue_short, running>>

\* Mutant of PollNothing: the length of before the put stands.
PauseWithoutLooking ==
  /\ step = "pause"
  /\ step' = "polled"
  /\ UNCHANGED <<input, m_settling, queue_short, reported, queued, running, failed>>

\* The pause: polls that hear nothing look at the length too.
PollNothing ==
  /\ step = "pause"
  /\ queue_short' = QueueShort
  /\ step' = "polled"
  /\ UNCHANGED <<input, m_settling, reported, queued, running, failed>>

\* The pause is over after a poll or more (pause_time is a millisecond or more).
PauseEnds ==
  /\ step = "polled"
  /\ step' = "next"
  /\ UNCHANGED <<input, m_settling, queue_short, reported, queued, running, failed>>
-----------------------------------------------------------------------------
(* Settling time, workers, and brokers that die *)

SettleTimePasses ==
  /\ m_settling /\ m_settling' = FALSE
  /\ UNCHANGED <<input, queue_short, reported, queued, running, failed, step>>

WorkerTakes(b) ==
  /\ b \in running /\ queued[b] > 0
  /\ queued' = [queued EXCEPT ![b] = @ - 1]
  /\ UNCHANGED <<input, m_settling, queue_short, reported, running, failed, step>>

BrokerDies ==
  /\ Cardinality(SubmitBrokers \ running) < MaxBrokerDeaths
  /\ \E b \in running : running' = running \ {b}
  /\ UNCHANGED <<input, m_settling, queue_short, reported, queued, failed, step>>

\* The liveness time passes without a heartbeat of a dead broker.
BeatLapses(b) ==
  /\ b \notin running /\ reported[b].beats
  /\ reported' = [reported EXCEPT ![b].beats = FALSE]
  /\ UNCHANGED <<input, m_settling, queue_short, queued, running, failed, step>>

SubmitStep == Settled \/ NextTile \/ PutJob \/ PollNothing \/ PauseEnds

SubmitNext ==
  \/ SubmitStep \/ SettleTimePasses \/ BrokerDies
  \/ \E b \in SubmitBrokers : Hear(b) \/ WorkerTakes(b) \/ BeatLapses(b)

\* The submitter and its clock go on, brokers publish, and workers take jobs.
SubmitFairness ==
  /\ WF_submitVars(SubmitStep) /\ WF_submitVars(SettleTimePasses)
  /\ \A b \in SubmitBrokers : WF_submitVars(Hear(b)) /\ WF_submitVars(WorkerTakes(b))

SubmitSpec == SubmitInit /\ [][SubmitNext]_submitVars /\ SubmitFairness
-----------------------------------------------------------------------------
(* Properties *)

\* "if the queue is settling, then send back the largest queue length", "loop while
\* the queue is long": a job is put only when the length that the runner has now
\* is short; a length that changed during the pause or with the brokers that
\* became live is not missed.
PutOnlyWhenShort == step = "put" => QueueShort

\* Why: what the submitter last saw of the length stands until it puts a job.
LengthStands ==
  /\ step = "settle" => ~queue_short
  /\ step \in {"next", "polled", "put"} /\ queue_short => QueueShort
  /\ step = "put" => queue_short

SubmitInv == SubmitTypeOK /\ LengthStands /\ PutOnlyWhenShort

\* Every run of the submitter ends, unless a broker dies: one that dies while the
\* submitter waits stays live in the runner with the size it had.
SubmissionEnds == [](running = SubmitBrokers) => <>(step = "end")
=============================================================================

----------------------------- MODULE TaskMonitor -----------------------------
(***************************************************************************)
(* The two threads of a broker process (tile_broker_impl.cpp): task_monitor *)
(* turns time into HEARTBEAT and RESUBMIT commands, which the main thread  *)
(* serves on its monitor socket together with the commands of an operator  *)
(* (broker_ctl.cpp).  Each peer of the REP socket has at most one command  *)
(* outstanding.  What the commands do to the queue is in TileBroker.       *)
(***************************************************************************)
EXTENDS Naturals

CONSTANTS
  heartbeat_interval,   \* zmq.heartbeat_time, in seconds
  resubmit_interval,    \* zmq.resubmit_interval
  OperatorCommands      \* commands that an operator sends

ASSUME IntervalAssumption ==
  heartbeat_interval \in Nat \ {0} /\ resubmit_interval \in Nat \ {0}

VARIABLES
  main,                 \* "polling", "joining" in t.join(), or "exited"
  monitor,              \* where the monitor thread is in its loop
  next_heartbeat,       \* seconds until the next command of each kind
  next_resubmit,
  shutdown_requested,
  command,              \* command[p]: the unread command of peer p, or "none"
  reply,                \* reply[p]: p's command was served, p has not read the reply
  since                 \* seconds slept since the last command of each kind

threadVars == <<monitor, next_heartbeat, next_resubmit>>
monitorVars == <<main, threadVars, shutdown_requested, command, reply, since>>

Peers == {"thread", "operator"}
RESUBMIT == "RESUBMIT ZOMBIE TASKS"
Timed == {"HEARTBEAT", RESUBMIT}
-----------------------------------------------------------------------------
MonitorInit ==
  /\ main = "polling"
  /\ monitor = "loop"
  /\ next_heartbeat = 0
  /\ next_resubmit = resubmit_interval
  /\ shutdown_requested = FALSE
  /\ command = [p \in Peers |-> "none"]
  /\ reply = [p \in Peers |-> FALSE]
  /\ since = [c \in Timed |-> 0]

\* cmd << c, after which the thread blocks in cmd >> reply.
Send(c, pc) ==
  /\ command' = [command EXCEPT !["thread"] = c]
  /\ since' = [since EXCEPT ![c] = 0]
  /\ monitor' = pc

ReadReply ==
  /\ reply["thread"]
  /\ reply' = [reply EXCEPT !["thread"] = FALSE]

\* while (!shutdown_requested), and the test of next_heartbeat.
LoopTest ==
  /\ monitor = "loop"
  /\ \/ /\ shutdown_requested
        /\ monitor' = "exited"
        /\ UNCHANGED <<command, since>>
     \/ /\ ~shutdown_requested
        /\ next_heartbeat = 0
        /\ Send("HEARTBEAT", "await_heartbeat")
     \/ /\ ~shutdown_requested
        /\ next_heartbeat # 0
        /\ monitor' = "resubmit"
        /\ UNCHANGED <<command, since>>
  /\ UNCHANGED <<main, next_heartbeat, next_resubmit, shutdown_requested, reply>>

\* Mutant: one reset for both timers.
HeartbeatDoneResetsBoth ==
  /\ monitor = "await_heartbeat"
  /\ ReadReply
  /\ next_heartbeat' = heartbeat_interval
  /\ next_resubmit' = resubmit_interval
  /\ monitor' = "resubmit"
  /\ UNCHANGED <<main, shutdown_requested, command, since>>

HeartbeatDone ==
  /\ monitor = "await_heartbeat"
  /\ ReadReply
  /\ next_heartbeat' = heartbeat_interval
  /\ monitor' = "resubmit"
  /\ UNCHANGED <<main, next_resubmit, shutdown_requested, command, since>>

ResubmitTest ==
  /\ monitor = "resubmit"
  /\ \/ /\ next_resubmit = 0
        /\ Send(RESUBMIT, "await_resubmit")
     \/ /\ next_resubmit # 0
        /\ monitor' = "sleep"
        /\ UNCHANGED <<command, since>>
  /\ UNCHANGED <<main, next_heartbeat, next_resubmit, shutdown_requested, reply>>

\* Mutant: the timer is not reset.
ResubmitDoneNoReset ==
  /\ monitor = "await_resubmit"
  /\ ReadReply
  /\ monitor' = "sleep"
  /\ UNCHANGED <<main, next_heartbeat, next_resubmit, shutdown_requested, command, since>>

ResubmitDone ==
  /\ monitor = "await_resubmit"
  /\ ReadReply
  /\ next_resubmit' = resubmit_interval
  /\ monitor' = "sleep"
  /\ UNCHANGED <<main, next_heartbeat, shutdown_requested, command, since>>

\* The subtractions are on unsigned integers; sleep is not interrupted.
Sleep ==
  LET sleep_interval == IF next_heartbeat < next_resubmit THEN next_heartbeat ELSE next_resubmit
  IN  /\ monitor = "sleep"
      /\ next_heartbeat' = next_heartbeat - sleep_interval
      /\ next_resubmit' = next_resubmit - sleep_interval
      /\ since' = [c \in Timed |-> since[c] + sleep_interval]
      /\ monitor' = "loop"
      /\ UNCHANGED <<main, shutdown_requested, command, reply>>
-----------------------------------------------------------------------------
\* Mutant: the monitor thread is not told to stop.
ServeNoFlag(p) ==
  /\ main = "polling"
  /\ command[p] # "none"
  /\ command' = [command EXCEPT ![p] = "none"]
  /\ reply' = [reply EXCEPT ![p] = TRUE]
  /\ main' = IF command[p] = "SHUTDOWN" THEN "joining" ELSE main
  /\ UNCHANGED <<threadVars, shutdown_requested, since>>

\* The monitor branch of the poll loop: SHUTDOWN is answered, then leaves the loop.
Serve(p) ==
  /\ main = "polling"
  /\ command[p] # "none"
  /\ command' = [command EXCEPT ![p] = "none"]
  /\ reply' = [reply EXCEPT ![p] = TRUE]
  /\ IF command[p] = "SHUTDOWN"
     THEN main' = "joining" /\ shutdown_requested' = TRUE
     ELSE UNCHANGED <<main, shutdown_requested>>
  /\ UNCHANGED <<threadVars, since>>

\* t.join() returns.
Join ==
  /\ main = "joining"
  /\ monitor = "exited"
  /\ main' = "exited"
  /\ UNCHANGED <<threadVars, shutdown_requested, command, reply, since>>

\* broker_ctl: one command, then wait for the reply.
OperatorSend(c) ==
  /\ main # "exited"
  /\ command["operator"] = "none"
  /\ ~reply["operator"]
  /\ command' = [command EXCEPT !["operator"] = c]
  /\ UNCHANGED <<main, threadVars, shutdown_requested, reply, since>>

OperatorRead ==
  /\ reply["operator"]
  /\ reply' = [reply EXCEPT !["operator"] = FALSE]
  /\ UNCHANGED <<main, threadVars, shutdown_requested, command, since>>

ThreadStep == LoopTest \/ HeartbeatDone \/ ResubmitTest \/ ResubmitDone \/ Sleep

MonitorNext ==
  \/ ThreadStep
  \/ \E p \in Peers : Serve(p)
  \/ Join
  \/ \E c \in OperatorCommands : OperatorSend(c)
  \/ OperatorRead

MonitorSpec == MonitorInit /\ [][MonitorNext]_monitorVars

\* Both threads run; ZeroMQ serves the two peers of the socket in turn.
FairMonitorSpec ==
  /\ MonitorSpec
  /\ WF_monitorVars(ThreadStep)
  /\ \A p \in Peers : WF_monitorVars(Serve(p))
  /\ WF_monitorVars(Join)
-----------------------------------------------------------------------------
\* Type invariant: in particular the unsigned timers never wrap below zero.
MonitorTypeOK ==
  /\ main \in {"polling", "joining", "exited"}
  /\ monitor \in {"loop", "await_heartbeat", "resubmit", "await_resubmit", "sleep", "exited"}
  /\ next_heartbeat \in 0 .. heartbeat_interval
  /\ next_resubmit \in 0 .. resubmit_interval
  /\ shutdown_requested \in BOOLEAN
  /\ command \in [Peers -> Timed \cup OperatorCommands \cup {"none"}]
  /\ reply \in [Peers -> BOOLEAN]
  /\ since \in [Timed -> Nat]

(***************************************************************************)
(* The two timers do not disturb each other: the monitor thread never      *)
(* sleeps past the time of either command, and a timer that has run down   *)
(* has run down because its interval has passed.                           *)
(***************************************************************************)
OnSchedule ==
  /\ since["HEARTBEAT"] <= heartbeat_interval
  /\ since[RESUBMIT] <= resubmit_interval
  /\ next_resubmit = 0 /\ monitor # "await_resubmit"
       => since[RESUBMIT] = resubmit_interval

\* Why: a timer and the time since its last command add up to the interval, but
\* for the time that the reply to the command is waited for.
TimersAddUp ==
  /\ since["HEARTBEAT"] + next_heartbeat <= heartbeat_interval
  /\ monitor = "await_heartbeat" => since["HEARTBEAT"] = 0
  /\ IF monitor = "await_resubmit"
       THEN since[RESUBMIT] = 0
       ELSE since[RESUBMIT] + next_resubmit = resubmit_interval

MonitorInv == MonitorTypeOK /\ TimersAddUp /\ OnSchedule

(***************************************************************************)
(* While the main thread polls, it goes on being sent, and serving,        *)
(* commands of both kinds, whatever an operator sends in between.  This is *)
(* what the fairness of Heartbeat and Resubmit in RenderQueue rests on.    *)
(***************************************************************************)
CommandsKeepComing ==
  \A c \in Timed : []<>(main # "polling" \/ command["thread"] = c)

(***************************************************************************)
(* A shutdown that finds the monitor thread asleep, or about to test its   *)
(* flag, ends the process: the thread sends nothing more once it wakes up. *)
(***************************************************************************)
SleepingThreadStops ==
  main = "joining" /\ monitor \in {"sleep", "loop"} ~> main = "exited"

(***************************************************************************)
(* What the comments promise of the shutdown: setting shutdown_requested   *)
(* shuts down the heartbeat thread cleanly, so that t.join() returns.      *)
(***************************************************************************)
ShutdownCompletes == main = "joining" ~> main = "exited"
=============================================================================

----------------------------- MODULE MCClients ------------------------------
(* The tools and the clients of remote services, checked side by side: the   *)
(* http loop, the expiry service, the tile submitter, reads from the LTS,    *)
(* expire_tiles, and the broker's monitor thread with its control tool. A    *)
(* behaviour is one of a single component, chosen in the initial state, with *)
(* the others at rest.                                                       *)
EXTENDS HttpMulti, ExpiryServer, TileSubmitter, LtsGet, ExpireTiles,
        TaskMonitor, TLC

CONSTANTS c1, b1, b2

VARIABLE component

Components == {"http", "expiry", "submit", "get", "expire", "monitor"}

\* Two tiles whose copies lie crosswise on two hosts.
MCHost == (1 :> 0) @@ (2 :> 1)

MCInputs == {<<"tile", "tile", "tile">>, <<"tile", "malformed", "tile">>, <<"tile", "overlong", "tile">>,
             <<"tile", "full", "tile">>}

TileLine(x, y, z) == Line("tile", Xyz(x, y, z))
OtherLine(kind) == Line(kind, Xyz(0, 0, 0))
MCExpireInputs ==
  {<<TileLine(1, 0, 1), OtherLine("empty"), TileLine(3, 2, 2)>>,
   <<TileLine(3, 1, 2), Line("overlong", Xyz(1, 2, 2)), TileLine(0, 0, 0)>>,
   <<TileLine(0, 1, 1), OtherLine("malformed")>>}
MCUrlHosts(t, p) ==
  IF p THEN <<(t.x \div 2 + t.z) % 2, t.y % 2>> ELSE <<(t.x \div 2 + t.z + 1) % 2, t.y % 2>>
MCOrderOf(tiles) == FoldSet(LAMBDA t, order : Append(order, t), <<>>, tiles)
MCMinZooms == {0, 1, NoZoom}
MCMaxZooms == {1, 3, NoZoom}

MCInit ==
  /\ component \in Components
  /\ IF component = "http" THEN HttpInit
     ELSE /\ size = 1 /\ concurrency = 0 /\ free_connections = {} /\ in_progress = {}
          /\ opts = [c \in Connections |-> 0] /\ transfers = [c \in Connections |-> "out"]
          /\ responses = <<NoAnswer>> /\ req_i = 0 /\ running_handles = 0
          /\ new_running_handles = 0 /\ pc = "fill"
  /\ ExpiryInit
  /\ IF component = "submit" THEN SubmitInit
     ELSE /\ input = <<>> /\ m_settling = FALSE /\ queue_short = FALSE
          /\ reported = [b \in SubmitBrokers |-> [queue_size |-> 0, is_live |-> FALSE, beats |-> FALSE]]
          /\ queued = [b \in SubmitBrokers |-> 0] /\ running = SubmitBrokers /\ failed = 0 /\ step = "end"
  /\ IF component = "get" THEN GetInit
     ELSE /\ files = [r \in Replicas |-> [t \in Tiles |-> NoFile]] /\ bits = [h \in Hosts |-> FALSE]
          /\ up = Hosts /\ m_hosts_down = [h \in Hosts |-> 0] /\ cut = 0
          /\ get = [tile |-> 1, replica |-> 0, calm |-> FALSE, result |-> "idle"]
  /\ IF component = "expire" THEN ExpireInit
     ELSE /\ job = [input |-> <<>>, min_z |-> NoZoom, max_z |-> NoZoom, tiles |-> {}, storage |-> "lts"]
          /\ lists = <<>> /\ lts_queue = <<>> /\ at = <<>> /\ clean = {} /\ sent = {}
          /\ dropped = {} /\ batch_errors = 0
  /\ IF component = "monitor" THEN MonitorInit
     ELSE /\ main = "exited" /\ monitor = "exited" /\ next_heartbeat = 0 /\ next_resubmit = 0
          /\ shutdown_requested = TRUE /\ command = [p \in Peers |-> "none"]
          /\ reply = [p \in Peers |-> FALSE] /\ since = [c \in Timed |-> 0]

MCNext ==
  \/ component = "http" /\ HttpNext
     /\ UNCHANGED <<component, expiryVars, submitVars, getVars, expireVars, monitorVars>>
  \/ component = "expiry" /\ ExpiryNext
     /\ UNCHANGED <<component, httpVars, submitVars, getVars, expireVars, monitorVars>>
  \/ component = "submit" /\ SubmitNext
     /\ UNCHANGED <<component, httpVars, expiryVars, getVars, expireVars, monitorVars>>
  \/ component = "get" /\ GetNext
     /\ UNCHANGED <<component, httpVars, expiryVars, submitVars, expireVars, monitorVars>>
  \/ component = "expire" /\ ExpireNext
     /\ UNCHANGED <<component, httpVars, expiryVars, submitVars, getVars, monitorVars>>
  \/ component = "monitor" /\ MonitorNext
     /\ UNCHANGED <<component, httpVars, expiryVars, submitVars, getVars, expireVars>>

allVars == <<component, httpVars, expiryVars, submitVars, getVars, expireVars, monitorVars>>

\* The fairness of each component's own specification, while it is the one chosen.
MCFairness ==
  /\ WF_httpVars(component = "http" /\ HttpLoop) /\ SF_httpVars(component = "http" /\ TransferEnds)
  /\ \A s \in Servers :
       /\ WF_expiryVars(component = "expiry" /\ HandlePeer(s))
       /\ WF_expiryVars(component = "expiry" /\ Publish(s))
       /\ WF_expiryVars(component = "expiry" /\ Start(s))
       /\ \A c \in ExpiryClients : WF_expiryVars(component = "expiry" /\ HandleRequest(s, c))
  /\ \A c \in ExpiryClients : WF_expiryVars(component = "expiry" /\ ClientStep(c))
  /\ WF_expiryVars(component = "expiry" /\ HeartbeatPasses)
  /\ WF_submitVars(component = "submit" /\ SubmitStep)
  /\ WF_submitVars(component = "submit" /\ SettleTimePasses)
  /\ \A b \in SubmitBrokers :
       /\ WF_submitVars(component = "submit" /\ Hear(b))
       /\ WF_submitVars(component = "submit" /\ WorkerTakes(b))
  /\ WF_getVars(component = "get" /\ StartGet) /\ WF_getVars(component = "get" /\ GetStep)
  /\ WF_getVars(component = "get" /\ ClockTick)
  /\ \A i \in 1 .. 2 : WF_expireVars(component = "expire" /\ i \in ExpireThreads /\ ExpireThread(i))
  /\ WF_monitorVars(component = "monitor" /\ ThreadStep)
  /\ \A p \in Peers : WF_monitorVars(component = "monitor" /\ Serve(p))
  /\ WF_monitorVars(component = "monitor" /\ Join)

MCSpec == MCInit /\ [][MCNext]_allVars /\ MCFairness

(* What every reachable state of a component satisfies: its types and the   *)
(* parts of its safety that the run does not name one by one. No connection *)
(* of do_multi_requests is used twice, the tile submitter puts a job only   *)
(* while it knows the queues to be short, lts_storage misses a tile only    *)
(* after a failure, expire_tiles takes the relatives of a tile and shares   *)
(* nothing between threads, and the monitor thread's timers are on time.    *)
ClientsInv ==
  CASE component = "http" -> HttpInv
    [] component = "expiry" -> ExpiryInv
    [] component = "submit" -> SubmitInv
    [] component = "get" -> GetInv
    [] component = "expire" -> ExpireInv
    [] component = "monitor" -> MonitorInv
=============================================================================

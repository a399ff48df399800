---------------------------- MODULE ExpiryServer ----------------------------
(***************************************************************************)
(* storage/expiry_server.cpp and expiry_service.cpp: the binary star. Two  *)
(* servers keep expiry marks; each publishes its state every HEARTBEAT and *)
(* takes over or steps back on what it hears of its peer and on requests   *)
(* of clients. A client whose request is not answered moves to the other   *)
(* server. Marks are not replicated. One metatile's mark is modelled, in   *)
(* units of time of one HEARTBEAT: a published state reaches a peer that   *)
(* runs within the unit. Servers crash and are started again; a request    *)
(* that was abandoned may still be handled.                                *)
(***************************************************************************)
EXTENDS Integers

CONSTANTS ExpiryClients,
          ExpiryCalls,        \* the calls they make
          MaxFaults           \* bound on crashes and on timeouts of requests that
                              \* would be answered, together

ASSUME ExpiryAssumption ==
  /\ MaxFaults \in Nat
  /\ ExpiryCalls \subseteq {"get", "set", "clear"}

VARIABLES
  state,     \* server -> m_fsm->m_state, or "down"
  silence,   \* server -> heartbeats since m_peer_expiry was set
  inbox,     \* server -> state of the peer waiting in m_socket_statesub, or "none"
  due,       \* servers that have not published in this heartbeat yet
  marked,    \* server -> the metatile is in m_expired
  frontend,  \* server -> requests on their way to it
  client,    \* client -> m_server_number, its request and how far it is
  faults     \* crashes and early timeouts so far

expiryVars == <<state, silence, inbox, due, marked, frontend, client, faults>>

Servers == {0, 1}
Peer(s) == 1 - s
States == {"primary", "backup", "active", "passive"}

PeerExpiry == 2       \* 2 * HEARTBEAT
RequestTimeout == 1   \* REQUEST_TIMEOUT

\* Mutant of SettleTimeout: clients resend at once.
NoSettling == 0

SettleTimeout == 2    \* SETTLE_TIMEOUT

Waits == 0 .. 2
ExpiryRequests == [client : ExpiryClients, call : ExpiryCalls, live : BOOLEAN]

\* The types of the servers' and the clients' state.
ExpiryTypeOK ==
  /\ state \in [Servers -> States \union {"down"}]
  /\ silence \in [Servers -> 0 .. PeerExpiry]
  /\ inbox \in [Servers -> States \union {"none"}]
  /\ due \subseteq Servers
  /\ marked \in [Servers -> BOOLEAN]
  /\ frontend \in [Servers -> SUBSET ExpiryRequests]
  /\ client \in [ExpiryClients -> [server : Servers, call : ExpiryCalls \union {"none"}, wait : Waits, moved : BOOLEAN,
                             pc : {"idle", "waiting", "settling"}]]
  /\ faults \in 0 .. MaxFaults

\* main: the option says which of the two it is.
InitialState(s) == IF s = 0 THEN "primary" ELSE "backup"

ServersUp == {s \in Servers : state[s] # "down"}

\* No server runs yet; clients connect to the primary.
ExpiryInit ==
  /\ state = [s \in Servers |-> "down"]
  /\ silence = [s \in Servers |-> 0]
  /\ inbox = [s \in Servers |-> "none"]
  /\ due = {}
  /\ marked = [s \in Servers |-> FALSE]
  /\ frontend = [s \in Servers |-> {}]
  /\ client = [c \in ExpiryClients |-> [server |-> 0, call |-> "none", wait |-> 0, moved |-> FALSE, pc |-> "idle"]]
  /\ faults = 0
-----------------------------------------------------------------------------
(* The servers *)

\* fsm::event for what the peer published; "bad" when it returns false.
PeerEvent(st, ev) ==
  CASE st = "primary" /\ ev = "backup"  -> "active"
    [] st = "primary" /\ ev = "active"  -> "passive"
    [] st = "backup"  /\ ev = "active"  -> "passive"
    [] st = "active"  /\ ev = "active"  -> "bad"
    [] st = "passive" /\ ev \in {"primary", "backup"} -> "active"
    [] st = "passive" /\ ev = "passive" -> "bad"
    [] OTHER -> st

\* Mutant of RequestEvent: a passive server takes over whenever it is asked.
FailoverAtOnce(st, quiet) ==
  IF st = "backup" THEN "bad" ELSE IF st = "passive" THEN "active" ELSE st

\* fsm::event for a client's request, with the time since the peer was heard.
RequestEvent(st, quiet) ==
  CASE st = "backup" -> "bad"
    [] st = "passive" -> IF quiet >= PeerExpiry THEN "active" ELSE "bad"
    [] OTHER -> st

\* The server leaves its loop or crashes: its marks and the requests it had
\* received are gone, requests still on their way may be there when it returns.
Gone(s, lost) ==
  /\ state' = [state EXCEPT ![s] = "down"]
  /\ inbox' = [inbox EXCEPT ![s] = "none"]
  /\ marked' = [marked EXCEPT ![s] = FALSE]
  /\ due' = due \ {s}
  /\ silence' = [silence EXCEPT ![s] = 0]
  /\ frontend' = [frontend EXCEPT ![s] = @ \ lost]

Idle(c) == [client EXCEPT ![c] = [@ EXCEPT !.call = "none", !.wait = 0, !.moved = FALSE, !.pc = "idle"]]

\* insert, erase or lookup, and the reply, for which only a socket that is still
\* open waits.
AnswerRequest(s, r) ==
  /\ marked' = [marked EXCEPT ![s] = r.call = "set" \/ (r.call = "get" /\ @)]
  /\ frontend' = [frontend EXCEPT ![s] = @ \ {r}]
  /\ client' = IF r.live THEN Idle(r.client) ELSE client

\* operator(), first item: a request is handled, or the loop left before it is
\* read. 0MQ takes requests of the clients in turn.
HandleRequest(s, c) ==
  /\ s \in ServersUp
  /\ \E r \in {q \in frontend[s] : q.client = c} :
       LET next == RequestEvent(state[s], silence[s]) IN
       IF next = "bad"
         THEN /\ \E lost \in SUBSET frontend[s] : r \in lost /\ Gone(s, lost)
              /\ UNCHANGED client
         ELSE /\ AnswerRequest(s, r)
              /\ state' = [state EXCEPT ![s] = next]
              /\ UNCHANGED <<inbox, due, silence>>
  /\ UNCHANGED faults

\* operator(), second item: the peer's state; the expiry of the peer is set anew.
HandlePeer(s) ==
  /\ s \in ServersUp /\ inbox[s] # "none"
  /\ LET next == PeerEvent(state[s], inbox[s]) IN
     IF next = "bad"
       THEN \E lost \in SUBSET frontend[s] : Gone(s, lost)
       ELSE /\ state' = [state EXCEPT ![s] = next]
            /\ inbox' = [inbox EXCEPT ![s] = "none"]
            /\ silence' = [silence EXCEPT ![s] = 0]
            /\ UNCHANGED <<due, marked, frontend>>
  /\ UNCHANGED <<client, faults>>

\* operator(), the heartbeat: a peer that does not run misses it.
Publish(s) ==
  /\ s \in due
  /\ due' = due \ {s}
  /\ inbox' = IF Peer(s) \in ServersUp THEN [inbox EXCEPT ![Peer(s)] = state[s]] ELSE inbox
  /\ UNCHANGED <<state, silence, marked, frontend, client, faults>>

Crash(s) ==
  /\ s \in ServersUp /\ faults < MaxFaults
  /\ faults' = faults + 1
  /\ \E lost \in SUBSET frontend[s] : Gone(s, lost)
  /\ UNCHANGED client

\* The server is started: its first heartbeat is one HEARTBEAT away. (Clients that
\* moved from it can no longer say that it is gone.)
Start(s) ==
  /\ s \notin ServersUp
  /\ state' = [state EXCEPT ![s] = InitialState(s)]
  /\ client' = [c \in ExpiryClients |-> [client[c] EXCEPT !.moved = @ /\ client[c].server = s]]
  /\ UNCHANGED <<silence, inbox, due, marked, frontend, faults>>
-----------------------------------------------------------------------------
(* The clients: expiry_service::request_with_failover *)

SendRequest(c, s, call) ==
  frontend' = [frontend EXCEPT ![s] =
    @ \union {[client |-> c, call |-> call, live |-> TRUE]}]

\* is_expired and set_expired.
MakeCall(c) ==
  /\ client[c].pc = "idle"
  /\ \E call \in ExpiryCalls :
       /\ client' = [client EXCEPT ![c] = [@ EXCEPT !.call = call, !.pc = "waiting"]]
       /\ SendRequest(c, client[c].server, call)
  /\ UNCHANGED <<state, silence, inbox, due, marked, faults>>

Mine(s, c) == {r \in frontend[s] : r.client = c /\ r.live}

\* The request would still be answered where it is.
InGoodHands(c) == LET s == client[c].server IN s \in ServersUp /\ Mine(s, c) # {}

\* Mutant of Switched: the client stays where it is.
NotSwitched(s) == s

\* The next server.
Switched(s) == (s + 1) % 2

\* The poll times out: the socket is closed, its request may stay under way.
TimesOut(c) ==
  /\ client[c].pc = "waiting" /\ client[c].wait >= RequestTimeout
  /\ InGoodHands(c) => faults < MaxFaults
  /\ faults' = IF InGoodHands(c) THEN faults + 1 ELSE faults
  /\ LET s == client[c].server IN
     /\ client' = [client EXCEPT ![c] = [@ EXCEPT !.server = Switched(s), !.wait = 0,
                                                  !.moved = s \notin ServersUp, !.pc = "settling"]]
     /\ frontend' = [frontend EXCEPT ![s] =
          (@ \ Mine(s, c)) \union {[r EXCEPT !.live = FALSE] : r \in Mine(s, c)}]
  /\ UNCHANGED <<state, silence, inbox, due, marked>>

\* Settled: connect to the new server and resend.
Resend(c) ==
  /\ client[c].pc = "settling" /\ client[c].wait >= SettleTimeout
  /\ client' = [client EXCEPT ![c] = [@ EXCEPT !.wait = 0, !.pc = "waiting"]]
  /\ SendRequest(c, client[c].server, client[c].call)
  /\ UNCHANGED <<state, silence, inbox, due, marked, faults>>
-----------------------------------------------------------------------------
Later(n, limit) == IF n < limit THEN n + 1 ELSE n

\* One HEARTBEAT passes; what was published in the last one has arrived.
HeartbeatPasses ==
  /\ due = {} /\ \A s \in Servers : inbox[s] = "none"
  /\ due' = ServersUp
  /\ silence' = [s \in Servers |-> IF s \in ServersUp THEN Later(silence[s], PeerExpiry) ELSE 0]
  /\ client' = [c \in ExpiryClients |-> [client[c] EXCEPT !.wait =
                  IF client[c].pc = "idle" THEN 0 ELSE Later(@, 2)]]
  /\ UNCHANGED <<state, inbox, marked, frontend, faults>>

ServerStep(s) == (\E c \in ExpiryClients : HandleRequest(s, c)) \/ HandlePeer(s) \/ Publish(s)
ClientStep(c) == TimesOut(c) \/ Resend(c)

ExpiryNext ==
  \/ \E s \in Servers : ServerStep(s) \/ Crash(s) \/ Start(s)
  \/ \E c \in ExpiryClients : MakeCall(c) \/ ClientStep(c)
  \/ HeartbeatPasses

ExpirySpec == ExpiryInit /\ [][ExpiryNext]_expiryVars
-----------------------------------------------------------------------------
(* Properties *)

\* fsm::event calls two masters a fatal error: no crash, restart or failover of
\* clients leads to two servers that are active, as long as heartbeats arrive.
OneMaster == \A s \in Servers : state[s] = "active" => state[Peer(s)] # "active"

(* Why that is so, for every number of clients, calls and faults. *)

\* A server starts as the option says and never returns to that state by itself.
Roles == state[0] # "backup" /\ state[1] # "primary"

DownIsSilent == \A s \in Servers : state[s] = "down" => silence[s] = 0 /\ inbox[s] = "none" /\ s \notin due

OnePassive == \A s \in Servers : state[s] = "passive" => state[Peer(s)] # "passive"

\* What waits to be handled was published in this heartbeat.
NewsIsOfThisBeat == \A s \in Servers : inbox[s] # "none" => Peer(s) \notin due

\* A passive server hears of the active one in every heartbeat, or is about to.
MasterIsHeard ==
  \A s \in Servers : state[s] = "passive" /\ state[Peer(s)] = "active" =>
    \/ silence[s] = 0
    \/ silence[s] = 1 /\ (Peer(s) \in due \/ inbox[s] = "active")

\* A server that published how it was started and is passive has stepped back in
\* this heartbeat, on what it heard of its peer.
SteppedBack ==
  \A s \in Servers : state[s] = "passive" /\ inbox[Peer(s)] \in {"primary", "backup"} =>
    silence[s] = 0 /\ inbox[s] = "none" /\ Peer(s) \notin due

\* What a server has not handled yet does not mislead it: nobody took over on the
\* state that a message tells of, unless the server that sent it is gone.
NewsIsStillTrue ==
  /\ \A s \in Servers :
       /\ inbox[s] = "active" =>
            /\ state[s] # "active" /\ inbox[Peer(s)] # "active"
            /\ state[s] = "passive" => silence[s] < PeerExpiry
            /\ state[s] \in {"primary", "backup"} => state[Peer(s)] # "passive"
       /\ inbox[s] \in {"primary", "backup"} /\ state[s] = "passive" => state[Peer(s)] # "active"
       /\ inbox[s] = "passive" => state[s] # "passive"
  /\ inbox[0] = "backup" => state[1] # "active"

StarInv ==
  /\ Roles /\ DownIsSilent /\ OneMaster /\ OnePassive
  /\ NewsIsOfThisBeat /\ MasterIsHeard /\ SteppedBack /\ NewsIsStillTrue

\* A request that is waited for is the one that its client made, where it is.
LiveIsWaitedFor ==
  \A s \in Servers : \A r \in frontend[s] : r.live =>
    client[r.client].server = s /\ client[r.client].call = r.call /\ client[r.client].pc = "waiting"

CallIsMade == \A c \in ExpiryClients : client[c].pc # "idle" => client[c].call # "none"

\* A client moved from a server that is gone has let as many heartbeats pass as the
\* server that it moved to has heard nothing for.
AfterMove(c) ==
  LET s == client[c].server IN
  /\ client[c].pc # "idle" /\ state[Peer(s)] = "down"
  /\ client[c].pc = "waiting" \/ client[c].wait > 0 =>
       /\ inbox[s] = "none"
       /\ state[s] = "passive" =>
            silence[s] >= (IF client[c].pc = "waiting" THEN PeerExpiry ELSE client[c].wait)

MovedAndSettled == \A c \in ExpiryClients : client[c].moved => AfterMove(c)

ExpiryInv == ExpiryTypeOK /\ StarInv /\ CallIsMade /\ LiveIsWaitedFor /\ MovedAndSettled

\* The request timeout and the settling together outlast the expiry of the peer:
\* a client that moved because its server was gone does not make the last
\* server that runs, a passive one, leave its loop.
FailoverIsLateEnough ==
  [][\A s \in Servers :
       state[s] = "passive" /\ state'[s] = "down" /\ faults' = faults /\ Peer(s) \notin ServersUp =>
         \E r \in frontend[s] \ frontend'[s] : ~(r.live /\ client[r.client].moved)]_expiryVars

\* request_with_failover ends: every request is answered in the end when servers
\* that stop are started again.
EveryCallReturns == \A c \in ExpiryClients : client[c].pc = "waiting" ~> client[c].pc = "idle"

\* Servers and clients that can go on do, time passes, and servers are restarted.
FairExpirySpec ==
  /\ ExpirySpec
  /\ \A s \in Servers : /\ WF_expiryVars(HandlePeer(s)) /\ WF_expiryVars(Publish(s))
                        /\ WF_expiryVars(Start(s))
  /\ \A c \in ExpiryClients : /\ \A s \in Servers : WF_expiryVars(HandleRequest(s, c))
                        /\ WF_expiryVars(ClientStep(c))
  /\ WF_expiryVars(HeartbeatPasses)
=============================================================================

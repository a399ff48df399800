-------------------------------- MODULE LtsGet --------------------------------
(***************************************************************************)
(* storage/lts_storage.cpp, get: one tile from the first copy or else from *)
(* the second. A host that cannot be reached is marked as down and skipped *)
(* until the mark has elapsed. Nothing is stored meanwhile; hosts fail and *)
(* return, and single requests fail, at any time.                          *)
(***************************************************************************)
EXTENDS StorageNode

CONSTANT m_down_recheck_time

ASSUME RecheckAssumption == m_down_recheck_time \in Nat /\ MaxVersion >= 1

VARIABLES
  m_hosts_down,  \* host -> time until its mark has elapsed, 0: no mark
  get,           \* the get: the tile, the copy tried, what came of it, and whether
                 \* all hosts were up and no mark was due when it began
  cut            \* time since a host or a request last failed, up to the recheck time

getVars == <<nodeVars, m_hosts_down, get, cut>>

Outcomes == {"none", "good", "dirty"}

\* The types of marks and gets.
GetTypeOK ==
  /\ NodeTypeOK
  /\ m_hosts_down \in [Hosts -> 0 .. m_down_recheck_time + 1]
  /\ get \in [tile : Tiles, replica : Replicas, calm : BOOLEAN,
            result : Outcomes \union {"idle", "asking"}]
  /\ cut \in 0 .. m_down_recheck_time + 1

GetInit ==
  /\ files \in [Replicas -> [Tiles -> {NoFile, [ver |-> 1, time |-> "now"]}]]
  /\ bits \in [Hosts -> BOOLEAN]
  /\ up = Hosts
  /\ m_hosts_down = [h \in Hosts |-> 0]
  /\ get = [tile |-> 1, replica |-> 0, calm |-> FALSE, result |-> "idle"]
  /\ cut = m_down_recheck_time + 1

StartGet ==
  /\ get.result # "asking"
  /\ \E t \in Tiles : get' = [tile |-> t, replica |-> 0, result |-> "asking",
                               calm |-> up = Hosts /\ cut > m_down_recheck_time]
  /\ UNCHANGED <<nodeVars, m_hosts_down, cut>>

is_host_down(h) == m_hosts_down[h] > 0

\* Mutant of host_is_down: the time of the mark is counted twice.
MarkedTwice(h) == m_hosts_down' = [m_hosts_down EXCEPT ![h] = 2 * m_down_recheck_time + 1]

\* The host is skipped until the clock is past the recheck time.
host_is_down(h) == m_hosts_down' = [m_hosts_down EXCEPT ![h] = m_down_recheck_time + 1]

\* Mutant of Attempt: a host that is skipped is marked again.
AttemptMarksAgain(t, r, answer) ==
  LET h == Host(t, r) IN
  \/ is_host_down(h) /\ answer = "none" /\ host_is_down(h)
  \/ ~is_host_down(h) /\ h \in up /\ UNCHANGED m_hosts_down
     /\ \E served \in ServeTile(t, r) : answer = IF served = "bad" THEN "none" ELSE served
  \/ ~is_host_down(h) /\ h \notin up /\ answer = "none" /\ host_is_down(h)

\* attempt_get_host: what an attempt returns; a status other than 200 counts as
\* no response, an exception marks the host.
Attempt(t, r, answer) ==
  LET h == Host(t, r) IN
  \/ is_host_down(h) /\ answer = "none" /\ UNCHANGED m_hosts_down
  \/ ~is_host_down(h) /\ h \in up /\ UNCHANGED m_hosts_down
     /\ \E served \in ServeTile(t, r) :
          answer = IF served = "bad" THEN "none" ELSE served
  \/ ~is_host_down(h) /\ h \notin up /\ answer = "none" /\ host_is_down(h)

GetStep ==
  /\ get.result = "asking"
  /\ \E answer \in Outcomes :
       /\ Attempt(get.tile, get.replica, answer)
       /\ get' = IF answer = "none" /\ get.replica = 0
                   THEN [get EXCEPT !.replica = 1]
                   ELSE [get EXCEPT !.result = answer]
  /\ UNCHANGED <<nodeVars, cut>>

\* A request that fails at a host that is up: another status than 404 counts as no
\* response too, an exception marks the host.
RequestFails ==
  /\ get.result = "asking"
  /\ LET h == Host(get.tile, get.replica) IN
     /\ ~is_host_down(h) /\ h \in up
     /\ host_is_down(h) \/ UNCHANGED m_hosts_down
  /\ get' = IF get.replica = 0 THEN [get EXCEPT !.replica = 1, !.calm = FALSE]
            ELSE [get EXCEPT !.result = "none", !.calm = FALSE]
  /\ cut' = 0
  /\ UNCHANGED nodeVars

HostUpOrDown ==
  /\ HostFails \/ HostReturns
  /\ cut' = 0
  /\ get' = [get EXCEPT !.calm = FALSE]
  /\ UNCHANGED m_hosts_down

\* Time passes; cut counts the time since all hosts are back and answer.
ClockTick ==
  /\ m_hosts_down' = [h \in Hosts |-> IF is_host_down(h) THEN m_hosts_down[h] - 1 ELSE 0]
  /\ cut' = IF up = Hosts /\ cut <= m_down_recheck_time THEN cut + 1 ELSE cut
  /\ UNCHANGED <<nodeVars, get>>

GetNext == StartGet \/ GetStep \/ RequestFails \/ HostUpOrDown \/ ClockTick

\* The handler goes on asking for tiles, a request ends, and time passes.
GetSpec ==
  /\ GetInit /\ [][GetNext]_getVars
  /\ WF_getVars(StartGet) /\ WF_getVars(GetStep) /\ WF_getVars(ClockTick)
-----------------------------------------------------------------------------
(* Properties *)

Stored(t) == \E r \in Replicas : files[r][t].ver # 0

\* A get that finds nothing of a tile that is stored can be put down to hosts
\* that were down, or requests that failed, at the time or within the recheck
\* time before: marks do not outlive it, and a tile in either copy is found.
MissedOnlyAfterFailure == get.calm /\ get.result = "none" => ~Stored(get.tile)

\* Why: a mark lasts no longer than the recheck time after its host was last seen
\* to fail, so a get that began in calm finds none, and asks the second copy only
\* for a tile that the first does not have.
MarksElapse ==
  /\ up # Hosts => cut = 0
  /\ \A h \in Hosts : m_hosts_down[h] + cut <= m_down_recheck_time + 1

CalmGet ==
  get.calm =>
    /\ up = Hosts /\ cut > m_down_recheck_time
    /\ get.replica = 1 => files[0][get.tile].ver = 0

GetInv == GetTypeOK /\ MarksElapse /\ CalmGet /\ MissedOnlyAfterFailure

\* Once the hosts stay up and no request fails any more, tiles that are stored are
\* found again, however often they are asked for while the marks last.
FoundAgain ==
  (<>[](cut > 0)) => <>[](get.result = "none" => ~Stored(get.tile))
=============================================================================

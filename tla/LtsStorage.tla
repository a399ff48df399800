------------------------------ MODULE LtsStorage ------------------------------
(***************************************************************************)
(* storage/lts_storage.cpp over storage/http_storage.cpp: a metatile whose *)
(* tiles are kept as single files on storage nodes, twice. Each HTTP       *)
(* request is a step, so the operations of several clients interleave; a   *)
(* batch of requests behaves as HttpBatch says. LtsGet has the reading of  *)
(* single tiles.                                                           *)
(***************************************************************************)
EXTENDS StorageNode

CONSTANTS
  Clients,
  OperationsOf,         \* client -> operations it makes
  FormatOf,             \* tile -> its format
  PutFormats,           \* sets of formats that a metatile may come in
  MaxOperations,        \* bound on the operations started
  MaxFailures           \* bound on failures of hosts and of requests

ASSUME LtsAssumption ==
  /\ DOMAIN FormatOf = Tiles
  /\ MaxOperations \in Nat /\ MaxFailures \in Nat

VARIABLES
  parallel,      \* the configured concurrency is at least 2
  op,            \* client -> its operation, in progress or done
  started,       \* operations started
  versions,      \* versions whose put has started, and those whose put has ended
  failures

ltsVars == <<nodeVars, parallel, op, started, versions, failures>>

Answers == {"none", "good", "dirty", "bad", "err"}
NoAnswers == [r \in Replicas |-> [t \in Tiles |-> "none"]]

\* kind: the operation; phase: running, expiring after a failed put, or done with
\* ret; ans: what the requests to each replica were answered; tiles: those the
\* batch asks for; before: versions that were in place when it started.
NoOp == [kind |-> "none", phase |-> "done", replica |-> 0, tiles |-> {}, ver |-> 0,
         ans |-> NoAnswers, ret |-> FALSE, whole |-> FALSE, before |-> {}]

Operations ==
  [kind : {"none", "put", "get_meta", "expire", "special"}, phase : {"run", "expire", "done"},
   replica : Replicas, tiles : SUBSET Tiles, ver : 0 .. MaxVersion,
   ans : [Replicas -> [Tiles -> Answers]], ret : BOOLEAN, whole : BOOLEAN,
   before : SUBSET (1 .. MaxVersion)]

\* The types of nodes, clients and bounds.
LtsTypeOK ==
  /\ NodeTypeOK
  /\ parallel \in BOOLEAN
  /\ op \in [Clients -> Operations]
  /\ \A c \in Clients : op[c].kind \in OperationsOf[c] \union {"none"}
  /\ started \in 0 .. MaxOperations
  /\ versions \in [last : 0 .. MaxVersion, ended : SUBSET (1 .. MaxVersion)]
  /\ failures \in 0 .. MaxFailures

LtsInit ==
  /\ NodeInit
  /\ parallel \in BOOLEAN
  /\ op = [c \in Clients |-> NoOp]
  /\ started = 0
  /\ versions = [last |-> 0, ended |-> {}]
  /\ failures = 0
-----------------------------------------------------------------------------
(* Starting an operation *)

Begin(c, kind, tiles, version) ==
  /\ op[c].phase = "done"
  /\ started < MaxOperations
  /\ started' = started + 1
  /\ op' = [op EXCEPT ![c] =
              [NoOp EXCEPT !.kind = kind, !.phase = "run", !.tiles = tiles,
                           !.ver = version, !.before = versions.ended]]
  /\ UNCHANGED <<nodeVars, parallel, failures>>

\* make_put_requests: one request for each tile that the metatile holds.
PutMeta(c) ==
  /\ "put" \in OperationsOf[c]
  /\ versions.last < MaxVersion
  /\ \E formats \in PutFormats :
       Begin(c, "put", {t \in Tiles : FormatOf[t] \in formats}, versions.last + 1)
  /\ versions' = [versions EXCEPT !.last = @ + 1]

GetMeta(c) ==
  /\ "get_meta" \in OperationsOf[c]
  /\ Begin(c, "get_meta", Tiles, 0)
  /\ UNCHANGED versions

Expire(c) ==
  /\ "expire" \in OperationsOf[c]
  /\ Begin(c, "expire", Tiles, 0)
  /\ UNCHANGED versions

\* Mutant of FirstPath: one host in all, not one path per host.
FirstHostOnly(h, format) ==
  {<<0, CHOOSE t \in Tiles : FormatOf[t] = format>>}

\* expire_tiles, lts_queue_urls: for each format one path per host, that of the
\* first tile in the order of the urls, primary copies before replicas.
FirstPath(h, format) ==
  LET at(r) == {t \in Tiles : FormatOf[t] = format /\ Host(t, r) = h}
      First(S) == CHOOSE t \in S : \A u \in S : t <= u
  IN  IF at(0) # {} THEN {<<0, First(at(0))>>}
      ELSE IF at(1) # {} THEN {<<1, First(at(1))>>} ELSE {}

SpecialPaths ==
  UNION {FirstPath(h, format) : h \in Hosts, format \in {FormatOf[t] : t \in Tiles}}

SpecialExpire(c) ==
  /\ "special" \in OperationsOf[c]
  /\ Begin(c, "special", Tiles, 0)
  /\ UNCHANGED versions
-----------------------------------------------------------------------------
(* The requests of an operation *)

Serial(c) == ~parallel /\ op[c].kind \in {"put", "get_meta"} /\ op[c].phase = "run"

Asked(c, r) == {t \in op[c].tiles : op[c].ans[r][t] # "none"}
AllGood(c, r) == \A t \in op[c].tiles : op[c].ans[r][t] = "good"
AnyErr(c, r) == \E t \in op[c].tiles : op[c].ans[r][t] = "err"

\* A batch is through when all was asked; the serial loops stop at the first
\* answer that is not good.
BatchOver(c, r) ==
  \/ Asked(c, r) = op[c].tiles
  \/ Serial(c) /\ \E t \in Asked(c, r) : op[c].ans[r][t] # "good"

\* The tiles that may be asked for next: any of a batch, or the next in order.
Next(c) ==
  LET left == op[c].tiles \ Asked(c, op[c].replica) IN
  IF Serial(c) THEN {t \in left : \A u \in left : t <= u} ELSE left

\* What the request does at the node, and the answer when it arrives.
Effect(c, t, r, answer, lost) ==
  CASE op[c].phase = "run" /\ op[c].kind = "put" ->
         answer = "good" /\ Store(t, r, op[c].ver, lost)
    [] op[c].phase = "run" /\ op[c].kind = "get_meta" ->
         answer \in ServeTile(t, r) /\ UNCHANGED <<files, bits>>
    [] OTHER -> answer = "good" /\ MarkExpired(t, r, lost)

\* Whether the node's message to its expiry server is lost.
Losses == IF failures < MaxFailures THEN BOOLEAN ELSE {FALSE}

\* The answer to the request for a copy of a tile.
Answered(c, r, t, answer) == op' = [op EXCEPT ![c].ans[r][t] = answer]

\* A request is served; or the node answers with an error; or it is not reached.
\* Expiry ignores the status of an answer. A host that is down never answers.
Request(c) ==
  /\ op[c].kind \in {"put", "get_meta", "expire"} /\ op[c].phase # "done"
  /\ ~BatchOver(c, op[c].replica)
  /\ \E t \in Next(c), answer \in Answers \ {"none"} :
       LET r == op[c].replica IN
       /\ Answered(c, r, t, answer)
       /\ \/ /\ Host(t, r) \in up
             /\ \E lost \in Losses :
                  /\ Effect(c, t, r, answer, lost)
                  /\ failures' = IF lost THEN failures + 1 ELSE failures
          \/ /\ Host(t, r) \notin up /\ answer = "err"
             /\ UNCHANGED <<files, bits, failures>>
          \/ /\ Host(t, r) \in up /\ failures < MaxFailures
             /\ answer \in {"bad", "err"}
             /\ failures' = failures + 1
             /\ UNCHANGED <<files, bits>>
  /\ UNCHANGED <<up, parallel, started, versions>>
-----------------------------------------------------------------------------
(* Between the batches, and the end of an operation *)

SecondReplica(c) == op' = [op EXCEPT ![c].replica = 1]

Done(c, ret, whole) ==
  op' = [op EXCEPT ![c].phase = "done", ![c].ret = ret, ![c].whole = whole]

PutEnds(c) ==
  versions' = [versions EXCEPT !.ended = @ \union {op[c].ver}]

\* Mutant of PutSucceeded: the copies are counted together.
PutSomewhere(c) ==
  \A t \in op[c].tiles : \E r \in Replicas : op[c].ans[r][t] = "good"

PutSucceeded(c) == AllGood(c, 0) \/ AllGood(c, 1)

\* put_meta: both copies are written whatever came of the first; when both
\* failed the metatile is expired.
PutStep(c) ==
  /\ op[c].kind = "put" /\ op[c].phase = "run"
  /\ BatchOver(c, op[c].replica)
  /\ \/ /\ op[c].replica = 0
        /\ SecondReplica(c) /\ UNCHANGED versions
     \/ /\ op[c].replica = 1 /\ PutSucceeded(c)
        /\ Done(c, TRUE, FALSE) /\ PutEnds(c)
     \/ /\ op[c].replica = 1 /\ ~PutSucceeded(c)
        /\ op' = [op EXCEPT ![c].phase = "expire", ![c].replica = 0,
                            ![c].tiles = Tiles, ![c].ans = NoAnswers]
        /\ UNCHANGED versions
  /\ UNCHANGED <<nodeVars, parallel, started, failures>>

Expiring(c) == op[c].kind = "expire" \/ (op[c].kind = "put" /\ op[c].phase = "expire")

\* expire: an exception of the first batch leaves the replica copies alone.
ExpireStep(c) ==
  /\ Expiring(c) /\ op[c].phase # "done"
  /\ BatchOver(c, op[c].replica)
  /\ \/ /\ op[c].replica = 0 /\ ~AnyErr(c, 0)
        /\ SecondReplica(c) /\ UNCHANGED versions
     \/ /\ op[c].replica = 1 \/ AnyErr(c, 0)
        /\ Done(c, op[c].kind = "expire" /\ ~AnyErr(c, op[c].replica), FALSE)
        /\ IF op[c].kind = "put" THEN PutEnds(c) ELSE UNCHANGED versions
  /\ UNCHANGED <<nodeVars, parallel, started, failures>>

\* How many responses a batch leaves: a parallel batch that threw leaves none, a
\* serial one those up to the first that is not good, that one included unless
\* it is an exception.
Responses(c, r) ==
  IF parallel /\ AnyErr(c, r) THEN 0
  ELSE Cardinality({t \in Asked(c, r) : op[c].ans[r][t] # "err"})

\* The combination goes over the responses of the first copy only. Behind the
\* end of the second copy's it reads what happens to be there.
GoodAt(c, i) ==
  IF op[c].ans[0][i] = "good" THEN {TRUE}
  ELSE IF i <= Responses(c, 1) THEN {op[c].ans[1][i] = "good"}
  ELSE BOOLEAN

\* Mutant of Combined: a tile that is bad in both copies is left out.
CombinedLeavingOut(c) ==
  {<<TRUE, \A i \in Tiles : \E r \in Replicas : op[c].ans[r][i] = "good">>}

\* Whether the combination succeeds, and whether it is a whole metatile.
Combined(c) ==
  LET n == Responses(c, 0)
      picks == {f \in [1 .. n -> BOOLEAN] : \A i \in 1 .. n : f[i] \in GoodAt(c, i)}
      Real(i) == op[c].ans[0][i] = "good"
                 \/ (i <= Responses(c, 1) /\ op[c].ans[1][i] = "good")
  IN  {<<\A i \in 1 .. n : f[i], n = TileCount /\ \A i \in 1 .. n : Real(i)>> : f \in picks}

\* get_meta: the first copy, or the second, or a combination of both.
GetMetaStep(c) ==
  /\ op[c].kind = "get_meta" /\ op[c].phase = "run"
  /\ BatchOver(c, op[c].replica)
  /\ \/ AllGood(c, op[c].replica) /\ Done(c, TRUE, TRUE)
     \/ ~AllGood(c, 0) /\ op[c].replica = 0 /\ SecondReplica(c)
     \/ /\ op[c].replica = 1 /\ ~AllGood(c, 1)
        /\ \E result \in Combined(c) : Done(c, result[1], result[2])
  /\ UNCHANGED <<nodeVars, parallel, started, versions, failures>>
-----------------------------------------------------------------------------
(* expire_tiles, lts_perform_urls: the status of an answer is ignored, so    *)
(* that an error, and a message that is lost behind a good one, go unseen:   *)
(* both count as "bad" here. An exception drops what is left for that host   *)
(* and replica; the drain goes on with the others and returns true.          *)
SpecialStep(c) ==
  /\ op[c].kind = "special" /\ op[c].phase = "run"
  /\ LET left == {p \in SpecialPaths : op[c].ans[p[1]][p[2]] = "none"}
         AtHostOf(p) == {q \in left : q[1] = p[1] /\ Host(q[2], q[1]) = Host(p[2], p[1])}
         Dropped(p) ==
           op' = [op EXCEPT ![c].ans = [r \in Replicas |-> [t \in Tiles |->
                    IF <<r, t>> \in AtHostOf(p) THEN "err" ELSE @[r][t]]]]
     IN
     \/ left = {} /\ Done(c, TRUE, FALSE) /\ UNCHANGED <<files, bits, failures>>
     \/ \E p \in left, lost \in Losses :
          /\ Host(p[2], p[1]) \in up
          /\ MarkExpired(p[2], p[1], lost)
          /\ Answered(c, p[1], p[2], IF lost THEN "bad" ELSE "good")
          /\ failures' = IF lost THEN failures + 1 ELSE failures
     \/ \E p \in left :
          /\ Host(p[2], p[1]) \in up /\ failures < MaxFailures
          /\ Answered(c, p[1], p[2], "bad") \/ Dropped(p)
          /\ failures' = failures + 1
          /\ UNCHANGED <<files, bits>>
     \/ \E p \in left :
          Host(p[2], p[1]) \notin up /\ Dropped(p) /\ UNCHANGED <<files, bits, failures>>
  /\ UNCHANGED <<up, parallel, started, versions>>
-----------------------------------------------------------------------------
HostFailure ==
  /\ failures < MaxFailures /\ failures' = failures + 1
  /\ HostFails
  /\ UNCHANGED <<parallel, op, started, versions>>

HostRecovery ==
  /\ HostReturns
  /\ UNCHANGED <<parallel, op, started, versions, failures>>

Start(c) == PutMeta(c) \/ GetMeta(c) \/ Expire(c) \/ SpecialExpire(c)

Step(c) == \/ Request(c) \/ PutStep(c) \/ ExpireStep(c) \/ GetMetaStep(c)
           \/ SpecialStep(c)

LtsNext == (\E c \in Clients : Start(c) \/ Step(c)) \/ HostFailure \/ HostRecovery

LtsSpec == LtsInit /\ [][LtsNext]_ltsVars
-----------------------------------------------------------------------------
(* Properties *)

Ended(c, kind) == op[c].kind = kind /\ op[c].phase = "done"

\* A put that was reported as successful is in the storage: in one of the copies
\* no tile of it is older than the put, whatever other clients did in between.
PutIsStored ==
  \A c \in Clients : Ended(c, "put") /\ op[c].ret =>
    \E r \in Replicas : \A t \in op[c].tiles :
      files[r][t].ver \notin op[c].before \union {0}

ExpiryAnswered(c) == \A r \in Replicas, t \in Tiles : op[c].ans[r][t] = "good"

\* After an expire whose requests were all carried out, and after a put that
\* failed and did so, no copy of what was stored before is served as fresh, even
\* when the expiry server is gone or its bit was cleared by a later put.
ExpiredIsNotFresh ==
  \A c \in Clients :
    (Ended(c, "expire") \/ (Ended(c, "put") /\ ~op[c].ret)) /\ ExpiryAnswered(c) =>
      \A r \in Replicas, t \in Tiles :
        files[r][t].ver \in op[c].before \union {op[c].ver} => files[r][t].time = "epoch"

\* A metatile reported as read is whole when the copies are read in parallel and
\* every request was answered. Otherwise the combination of two incomplete
\* copies may be short of tiles.
CombinedIsWhole ==
  \A c \in Clients :
    Ended(c, "get_meta") /\ op[c].ret /\ parallel /\ ~AnyErr(c, 0) /\ ~AnyErr(c, 1) =>
      op[c].whole

\* The tool's one path per host, when none fails and no node's message to its
\* expiry server is lost, does expire a metatile that is stored in full and is
\* not stored again: the bit of each host covers all its copies.
SpecialHoldsUntilPut ==
  \A c \in Clients :
    Ended(c, "special") /\ (\A p \in SpecialPaths : op[c].ans[p[1]][p[2]] = "good")
    /\ (\A r \in Replicas, t \in Tiles : files[r][t].ver \in op[c].before) =>
      \A r \in Replicas, t \in Tiles : ~Fresh(t, r)

-----------------------------------------------------------------------------
(* What makes them inductive *)

\* Versions are given in the order in which puts start. One is ended when its put
\* is, and what a client found in place was ended: no running put can store it.
VersionsInOrder ==
  /\ versions.ended \subseteq 1 .. versions.last
  /\ \A c \in Clients :
       /\ op[c].before \subseteq versions.ended
       /\ op[c].kind # "put" => op[c].ver = 0
       /\ op[c].kind = "put" => op[c].ver \in 1 .. versions.last
       /\ op[c].kind = "put" => (op[c].phase = "done" <=> op[c].ver \in versions.ended)
  /\ \A c, d \in Clients :
       op[c].kind = "put" /\ op[d].kind = "put" /\ op[c].ver = op[d].ver => c = d

\* A tile that was not stored has the time of an expired one.
NothingIsOld == \A r \in Replicas, t \in Tiles : files[r][t].ver = 0 => files[r][t].time = "epoch"

\* What a put had accepted is not older than the put, from then on; what it
\* reports is that a copy was accepted in full.
AcceptedIsNewer(c) ==
  op[c].kind = "put" /\ (op[c].phase = "run" \/ (op[c].phase = "done" /\ op[c].ret)) =>
    /\ \A r \in Replicas, t \in Tiles :
         op[c].ans[r][t] = "good" => files[r][t].ver \notin op[c].before \union {0}
    /\ op[c].phase = "done" => PutSucceeded(c)

\* What an expiry, or one of a failed put, had accepted is expired or newer.
AcceptedIsExpired(c) ==
  op[c].kind = "expire"
  \/ (op[c].kind = "put" /\ (op[c].phase = "expire" \/ (op[c].phase = "done" /\ ~op[c].ret))) =>
    \A r \in Replicas, t \in Tiles :
      op[c].ans[r][t] = "good" /\ files[r][t].ver \in op[c].before \union {op[c].ver} =>
        files[r][t].time = "epoch"

\* A get_meta asks for all tiles, and for the second copy after the first batch.
ReadInOrder(c) ==
  op[c].kind = "get_meta" =>
    /\ op[c].tiles = Tiles
    /\ parallel /\ op[c].replica = 1 => Asked(c, 0) = Tiles

\* A path that the tool had accepted has its host marked, unless a tile there was
\* missing or has been stored since.
PathIsMarked(c) ==
  op[c].kind = "special" =>
    /\ op[c].tiles = Tiles
    /\ \A r \in Replicas, t \in Tiles :
         op[c].ans[r][t] = "good" =>
           \/ bits[Host(t, r)]
           \/ \E s \in Replicas, u \in Tiles :
                Host(u, s) = Host(t, r) /\ files[s][u].ver \notin op[c].before

ClientInv(c) ==
  AcceptedIsNewer(c) /\ AcceptedIsExpired(c) /\ ReadInOrder(c) /\ PathIsMarked(c)
PromisesKept == \A c \in Clients : ClientInv(c)

LtsInv ==
  /\ LtsTypeOK /\ VersionsInOrder /\ NothingIsOld
  /\ PromisesKept
  /\ PutIsStored /\ ExpiredIsNotFresh /\ CombinedIsWhole /\ SpecialHoldsUntilPut
=============================================================================

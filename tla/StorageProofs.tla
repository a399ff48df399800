--------------------------- MODULE StorageProofs ---------------------------
(* What the storages promise their clients, proved for any number of       *)
(* clients, tiles, hosts, styles and calls: lts_storage over its nodes,    *)
(* disk_storage, expiry_overlay, the storages made of others, the factory  *)
(* that makes them and the connection they use; at the end all of them     *)
(* side by side, with the metatile format of FormatProofs.  Each           *)
(* component's invariant is the last definition of its own module, the     *)
(* factory's is ConfigInv here.                                            *)
EXTENDS MCStorages, FormatProofs, FiniteSetTheorems

-----------------------------------------------------------------------------
(* lts_storage *)

(* What a request may do to the nodes: a tile gets the version of a put    *)
(* under way, or it keeps its version and is not made fresh again; a bit   *)
(* is cleared only with a tile that is stored on the host.                 *)
StoringVersion(v) == \E d \in Clients : op[d].kind = "put" /\ op[d].phase = "run" /\ v = op[d].ver
NodeStep ==
  /\ \A r \in Replicas, t \in Tiles :
       \/ StoringVersion(files'[r][t].ver)
       \/ /\ files'[r][t].ver = files[r][t].ver
          /\ files[r][t].time = "epoch" => files'[r][t].time = "epoch"
  /\ \A h \in Hosts :
       bits[h] => \/ bits'[h]
                  \/ \E s \in Replicas, u \in Tiles :
                       Host(u, s) = h /\ StoringVersion(files'[s][u].ver)

(* A host of a copy is one of the list.                                    *)
LEMMA HostIsHost ==
  ASSUME NEW t \in Tiles, NEW r \in Replicas
  PROVE  Host(t, r) \in Hosts
<1>1. HashedHost[t] \in 0 .. HostCount - 1 /\ HostCount \in Nat \ {0} /\ r \in 0..1
  BY NodeAssumption DEF Tiles, Replicas
<1>2. HashedHost[t] + r \in Nat
  BY <1>1
<1>3. \A n \in Nat : n % HostCount \in 0 .. HostCount - 1
  BY <1>1
<1> QED BY <1>2, <1>3 DEF Host, Hosts

(* A POST.                                                                 *)
LEMMA StoreStep ==
  ASSUME LtsTypeOK, NEW c \in Clients, op[c].kind = "put", op[c].phase = "run",
         NEW t \in Tiles, NEW r \in Replicas, NEW lost \in BOOLEAN, Store(t, r, op[c].ver, lost)
  PROVE  /\ files' \in [Replicas -> [Tiles -> [ver : 0 .. MaxVersion, time : {"epoch", "now"}]]]
         /\ bits' \in [Hosts -> BOOLEAN]
         /\ files'[r][t].ver = op[c].ver
         /\ NodeStep
<1>1. /\ files \in [Replicas -> [Tiles -> [ver : 0 .. MaxVersion, time : {"epoch", "now"}]]]
      /\ bits \in [Hosts -> BOOLEAN] /\ op[c].ver \in 0 .. MaxVersion
  BY DEF LtsTypeOK, NodeTypeOK, Operations
<1> DEFINE new == [ver |-> op[c].ver, time |-> "now"]
<1>2. new \in [ver : 0 .. MaxVersion, time : {"epoch", "now"}] /\ new.ver = op[c].ver
  BY <1>1
<1>3. files' = [files EXCEPT ![r][t] = new]
  BY DEF Store
<1> HIDE DEF new
<1>4. /\ files' \in [Replicas -> [Tiles -> [ver : 0 .. MaxVersion, time : {"epoch", "now"}]]]
      /\ \A s \in Replicas, u \in Tiles :
           files'[s][u] = IF s = r /\ u = t THEN new ELSE files[s][u]
  BY <1>1, <1>2, <1>3
<1>5. /\ bits' \in [Hosts -> BOOLEAN]
      /\ \A h \in Hosts : h # Host(t, r) => bits'[h] = bits[h]
  BY <1>1, HostIsHost DEF Store, SetBit
<1>6. StoringVersion(files'[r][t].ver)
  BY <1>2, <1>4 DEF StoringVersion
<1>7. NodeStep
  BY <1>4, <1>5, <1>6, HostIsHost DEF NodeStep
<1> QED BY <1>2, <1>4, <1>5, <1>7

(* A GET with Last-Modified at the epoch.                                  *)
LEMMA MarkStep ==
  ASSUME LtsTypeOK, NothingIsOld, NEW t \in Tiles, NEW r \in Replicas, NEW lost \in BOOLEAN,
         MarkExpired(t, r, lost)
  PROVE  /\ files' \in [Replicas -> [Tiles -> [ver : 0 .. MaxVersion, time : {"epoch", "now"}]]]
         /\ bits' \in [Hosts -> BOOLEAN]
         /\ files'[r][t].time = "epoch"
         /\ \A s \in Replicas, u \in Tiles :
              /\ files'[s][u].ver = files[s][u].ver
              /\ files[s][u].time = "epoch" => files'[s][u].time = "epoch"
         /\ ~lost => bits'[Host(t, r)] \/ files'[r][t].ver = 0
         /\ NodeStep
<1>1. /\ files \in [Replicas -> [Tiles -> [ver : 0 .. MaxVersion, time : {"epoch", "now"}]]]
      /\ bits \in [Hosts -> BOOLEAN]
  BY DEF LtsTypeOK, NodeTypeOK
<1>2. CASE files[r][t].ver = 0
  <2>1. UNCHANGED <<files, bits>>
    BY <1>2 DEF MarkExpired
  <2> QED BY <1>1, <1>2, <2>1 DEF NothingIsOld, NodeStep
<1>3. CASE files[r][t].ver # 0
  <2> DEFINE new == [files[r][t] EXCEPT !.time = "epoch"]
  <2>1. new \in [ver : 0 .. MaxVersion, time : {"epoch", "now"}]
        /\ new.ver = files[r][t].ver /\ new.time = "epoch"
    BY <1>1
  <2>2. files' = [files EXCEPT ![r][t] = new] /\ SetBit(Host(t, r), TRUE, lost)
    BY <1>3 DEF MarkExpired
  <2> HIDE DEF new
  <2>3. /\ files' \in [Replicas -> [Tiles -> [ver : 0 .. MaxVersion, time : {"epoch", "now"}]]]
        /\ \A s \in Replicas, u \in Tiles :
             files'[s][u] = IF s = r /\ u = t THEN new ELSE files[s][u]
    BY <1>1, <2>1, <2>2
  <2>4. /\ bits' \in [Hosts -> BOOLEAN]
        /\ \A h \in Hosts : bits[h] => bits'[h]
        /\ ~lost => bits'[Host(t, r)]
    BY <1>1, <2>2, HostIsHost DEF SetBit
  <2>5. \A s \in Replicas, u \in Tiles :
              /\ files'[s][u].ver = files[s][u].ver
              /\ files[s][u].time = "epoch" => files'[s][u].time = "epoch"
    BY <2>1, <2>3
  <2>6. NodeStep
    BY <2>4, <2>5 DEF NodeStep
  <2> QED BY <2>1, <2>3, <2>4, <2>5, <2>6
<1> QED BY <1>2, <1>3

(* A version that is being stored was not in place before.                 *)
LEMMA StoredIsNew ==
  ASSUME LtsTypeOK, VersionsInOrder, NEW v, StoringVersion(v), NEW c \in Clients
  PROVE  /\ v \notin op[c].before /\ v # 0
         /\ op[c].kind = "put" => (op[c].phase # "run" => v # op[c].ver)
         /\ op[c].kind # "put" => v # op[c].ver
<1>1. PICK d \in Clients : op[d].kind = "put" /\ op[d].phase = "run" /\ v = op[d].ver
  BY DEF StoringVersion
<1>2. v \in 1 .. versions.last /\ v \notin versions.ended /\ op[c].before \subseteq versions.ended
  BY <1>1 DEF VersionsInOrder
<1>3. versions.last \in Nat
  BY NodeAssumption DEF LtsTypeOK
<1>4. v # 0 /\ v \notin op[c].before
  BY <1>2, <1>3
<1>5. op[c].kind = "put" /\ v = op[c].ver => c = d
  BY <1>1 DEF VersionsInOrder
<1>6. op[c].kind # "put" => op[c].ver = 0
  BY DEF VersionsInOrder
<1> QED BY <1>1, <1>4, <1>5, <1>6

(* So what is newer than an operation stays so, what it expired stays      *)
(* expired or is replaced, and a mark stays or a newer tile is stored.     *)
LEMMA NodesMoveOn ==
  ASSUME LtsTypeOK, VersionsInOrder, NodeStep, NEW c \in Clients, NEW r \in Replicas, NEW t \in Tiles
  PROVE  /\ files[r][t].ver \notin op[c].before \union {0} =>
              files'[r][t].ver \notin op[c].before \union {0}
         /\ (op[c].kind = "put" /\ op[c].phase = "run") \/
            ((files[r][t].ver \in op[c].before \union {op[c].ver} => files[r][t].time = "epoch") =>
             (files'[r][t].ver \in op[c].before \union {op[c].ver} => files'[r][t].time = "epoch"))
         /\ (\/ bits[Host(t, r)]
             \/ \E s \in Replicas, u \in Tiles :
                  Host(u, s) = Host(t, r) /\ files[s][u].ver \notin op[c].before) =>
            (\/ bits'[Host(t, r)]
             \/ \E s \in Replicas, u \in Tiles :
                  Host(u, s) = Host(t, r) /\ files'[s][u].ver \notin op[c].before)
<1>1. \A v : StoringVersion(v) =>
         /\ v \notin op[c].before /\ v # 0
         /\ op[c].kind = "put" => (op[c].phase # "run" => v # op[c].ver)
         /\ op[c].kind # "put" => v # op[c].ver
  BY StoredIsNew
<1>2. ASSUME NEW s \in Replicas, NEW u \in Tiles
      PROVE  \/ StoringVersion(files'[s][u].ver)
             \/ /\ files'[s][u].ver = files[s][u].ver
                /\ files[s][u].time = "epoch" => files'[s][u].time = "epoch"
  BY DEF NodeStep
<1>3. files[r][t].ver \notin op[c].before \union {0} => files'[r][t].ver \notin op[c].before \union {0}
  BY <1>1, <1>2
<1>4. (op[c].kind = "put" /\ op[c].phase = "run") \/
            ((files[r][t].ver \in op[c].before \union {op[c].ver} => files[r][t].time = "epoch") =>
             (files'[r][t].ver \in op[c].before \union {op[c].ver} => files'[r][t].time = "epoch"))
  BY <1>1, <1>2
<1>5. ASSUME bits[Host(t, r)]
      PROVE  \/ bits'[Host(t, r)]
             \/ \E s \in Replicas, u \in Tiles :
                  Host(u, s) = Host(t, r) /\ files'[s][u].ver \notin op[c].before
  BY <1>1, <1>5, HostIsHost DEF NodeStep
<1>6. ASSUME NEW s \in Replicas, NEW u \in Tiles, files[s][u].ver \notin op[c].before
      PROVE  files'[s][u].ver \notin op[c].before
  BY <1>1, <1>2, <1>6
<1> QED BY <1>3, <1>4, <1>5, <1>6

(* A client whose operation does not move keeps what it was promised.      *)
LEMMA OtherClientKept ==
  ASSUME LtsTypeOK, VersionsInOrder, NodeStep, parallel' = parallel,
         NEW c \in Clients, op'[c] = op[c], ClientInv(c)
  PROVE  ClientInv(c)'
<1>1. AcceptedIsNewer(c)'
  BY NodesMoveOn DEF ClientInv, AcceptedIsNewer, PutSucceeded, AllGood
<1>2. AcceptedIsExpired(c)'
  <2> SUFFICES ASSUME op[c].kind = "expire"
                        \/ (op[c].kind = "put" /\ (op[c].phase = "expire" \/ (op[c].phase = "done" /\ ~op[c].ret))),
                      NEW r \in Replicas, NEW t \in Tiles, op[c].ans[r][t] = "good"
               PROVE  files'[r][t].ver \in op[c].before \union {op[c].ver} => files'[r][t].time = "epoch"
    BY DEF AcceptedIsExpired
  <2>1. files[r][t].ver \in op[c].before \union {op[c].ver} => files[r][t].time = "epoch"
    BY DEF ClientInv, AcceptedIsExpired
  <2>2. ~(op[c].kind = "put" /\ op[c].phase = "run")
    OBVIOUS
  <2> QED BY <2>1, <2>2, NodesMoveOn
<1>3. ReadInOrder(c)'
  BY DEF ClientInv, ReadInOrder, Asked
<1>4. PathIsMarked(c)'
  <2> SUFFICES ASSUME op[c].kind = "special"
               PROVE  \A r \in Replicas, t \in Tiles :
                        op[c].ans[r][t] = "good" =>
                          \/ bits'[Host(t, r)]
                          \/ \E s \in Replicas, u \in Tiles :
                               Host(u, s) = Host(t, r) /\ files'[s][u].ver \notin op[c].before
    BY DEF ClientInv, PathIsMarked
  <2>1. \A r \in Replicas, t \in Tiles :
          op[c].ans[r][t] = "good" =>
            \/ bits[Host(t, r)]
            \/ \E s \in Replicas, u \in Tiles :
                 Host(u, s) = Host(t, r) /\ files[s][u].ver \notin op[c].before
    BY DEF ClientInv, PathIsMarked
  <2> QED BY <2>1, NodesMoveOn
<1> QED BY <1>1, <1>2, <1>3, <1>4 DEF ClientInv

(* Every host that holds a copy of a format has a path of it.              *)
LEMMA HostHasPath ==
  ASSUME NEW r \in Replicas, NEW t \in Tiles
  PROVE  \E p \in SpecialPaths :
           p[1] \in Replicas /\ p[2] \in Tiles /\ Host(p[2], p[1]) = Host(t, r)
<1> DEFINE h == Host(t, r)
           at(s) == {u \in Tiles : FormatOf[u] = FormatOf[t] /\ Host(u, s) = h}
           First(S) == CHOOSE u \in S : \A v \in S : u <= v
<1>1. h \in Hosts
  BY HostIsHost
<1>2. t \in at(r)
  OBVIOUS
<1>3. ASSUME NEW s \in Replicas, at(s) # {}
      PROVE  First(at(s)) \in Tiles /\ Host(First(at(s)), s) = h
  <2>1. at(s) \subseteq Nat
    BY NodeAssumption DEF Tiles
  <2>2. \E u \in at(s) : \A v \in at(s) : u <= v
    <3> HIDE DEF at
    <3> QED BY <1>3, <2>1, LeastNatural
  <2>3. First(at(s)) \in at(s)
    <3> HIDE DEF at
    <3> QED BY <2>2
  <2> QED BY <2>3
<1>4. FirstPath(h, FormatOf[t]) = IF at(0) # {} THEN {<<0, First(at(0))>>}
                                  ELSE IF at(1) # {} THEN {<<1, First(at(1))>>} ELSE {}
  BY DEF FirstPath
<1>5. FirstPath(h, FormatOf[t]) \subseteq SpecialPaths
  BY <1>1 DEF SpecialPaths
<1>6. 0 \in Replicas /\ 1 \in Replicas /\ r \in {0, 1}
  BY DEF Replicas
<1> HIDE DEF h, at, First
<1>7. CASE at(0) # {}
  <2>1. <<0, First(at(0))>> \in SpecialPaths
    BY <1>4, <1>5, <1>7
  <2> QED BY <2>1, <1>3, <1>6, <1>7 DEF h
<1>8. CASE at(0) = {}
  <2>1. at(1) # {}
    BY <1>2, <1>6, <1>8
  <2>2. <<1, First(at(1))>> \in SpecialPaths
    BY <1>4, <1>5, <1>8, <2>1
  <2> QED BY <2>1, <2>2, <1>3, <1>6 DEF h
<1> QED BY <1>7, <1>8

(* What the clients keep is what the properties ask for.                   *)
LEMMA LtsImplies ==
  ASSUME LtsTypeOK, VersionsInOrder, PromisesKept
  PROVE  PutIsStored /\ ExpiredIsNotFresh /\ SpecialHoldsUntilPut
<1>0. \A c \in Clients : ClientInv(c)
  BY DEF PromisesKept
<1>1. PutIsStored
  <2> SUFFICES ASSUME NEW c \in Clients, Ended(c, "put"), op[c].ret
               PROVE  \E r \in Replicas : \A t \in op[c].tiles :
                        files[r][t].ver \notin op[c].before \union {0}
    BY DEF PutIsStored
  <2>1. PutSucceeded(c) /\ \A r \in Replicas, t \in Tiles :
          op[c].ans[r][t] = "good" => files[r][t].ver \notin op[c].before \union {0}
    BY <1>0 DEF ClientInv, AcceptedIsNewer, Ended
  <2>2. op[c].tiles \subseteq Tiles
    BY DEF LtsTypeOK, Operations
  <2> QED BY <2>1, <2>2 DEF PutSucceeded, AllGood, Replicas
<1>2. ExpiredIsNotFresh
  BY <1>0 DEF ExpiredIsNotFresh, ClientInv, AcceptedIsExpired, Ended, ExpiryAnswered
<1>3. SpecialHoldsUntilPut
  <2> SUFFICES ASSUME NEW c \in Clients, Ended(c, "special"),
                      \A p \in SpecialPaths : op[c].ans[p[1]][p[2]] = "good",
                      \A r \in Replicas, t \in Tiles : files[r][t].ver \in op[c].before,
                      NEW r \in Replicas, NEW t \in Tiles
               PROVE  bits[Host(t, r)]
    BY DEF SpecialHoldsUntilPut, Fresh
  <2>1. PICK p \in SpecialPaths : p[1] \in Replicas /\ p[2] \in Tiles /\ Host(p[2], p[1]) = Host(t, r)
    BY HostHasPath
  <2>2. op[c].ans[p[1]][p[2]] = "good"
    BY <2>1
  <2> QED BY <1>0, <2>1, <2>2 DEF ClientInv, PathIsMarked, Ended
<1> QED BY <1>1, <1>2, <1>3

(* An empty storage, with no operation made.                               *)
LEMMA LtsInitInv == LtsInit => LtsInv
<1> SUFFICES ASSUME LtsInit PROVE LtsInv
  OBVIOUS
<1>1. NoAnswers \in [Replicas -> [Tiles -> Answers]]
  BY DEF NoAnswers, Answers
<1>2. NoOp \in Operations
  BY <1>1, NodeAssumption DEF NoOp, Operations, Replicas
<1>3. NoFile \in [ver : 0 .. MaxVersion, time : {"epoch", "now"}]
  BY NodeAssumption DEF NoFile
<1>4. NodeTypeOK
  BY <1>3 DEF LtsInit, NodeInit, NodeTypeOK
<1>5. versions \in [last : 0 .. MaxVersion, ended : SUBSET (1 .. MaxVersion)]
  BY NodeAssumption DEF LtsInit
<1>6. \A c \in Clients : op[c] = NoOp /\ op[c].kind = "none"
  BY DEF LtsInit, NoOp
<1>7. LtsTypeOK
  BY <1>2, <1>4, <1>5, <1>6, LtsAssumption DEF LtsTypeOK, LtsInit
<1>8. VersionsInOrder
  BY <1>6 DEF VersionsInOrder, LtsInit, NoOp
<1>9. NothingIsOld
  BY DEF NothingIsOld, LtsInit, NodeInit, NoFile
<1>10. PromisesKept
  BY <1>6 DEF PromisesKept, ClientInv, AcceptedIsNewer, AcceptedIsExpired, ReadInOrder, PathIsMarked
<1>11. CombinedIsWhole
  BY <1>6 DEF CombinedIsWhole, Ended
<1> QED BY <1>7, <1>8, <1>9, <1>10, <1>11, LtsImplies DEF LtsInv

(* The start of an operation.                                              *)
LEMMA BeginKept ==
  ASSUME LtsInv, NEW c \in Clients, NEW tiles \in SUBSET Tiles,
         NEW kind \in OperationsOf[c] \cap {"put", "get_meta", "expire", "special"},
         NEW version \in 0 .. MaxVersion, Begin(c, kind, tiles, version),
         kind = "put" => version = versions.last + 1 /\ versions' = [versions EXCEPT !.last = version],
         kind # "put" => version = 0 /\ versions' = versions /\ tiles = Tiles
  PROVE  LtsInv'
<1>1. LtsTypeOK /\ VersionsInOrder /\ NothingIsOld /\ CombinedIsWhole
      /\ \A d \in Clients : ClientInv(d)
  BY DEF LtsInv, PromisesKept
<1> DEFINE new == [NoOp EXCEPT !.kind = kind, !.phase = "run", !.tiles = tiles,
                               !.ver = version, !.before = versions.ended]
<1>2. /\ new.kind = kind /\ new.phase = "run" /\ new.tiles = tiles /\ new.ver = version
      /\ new.before = versions.ended /\ new.ans = NoAnswers /\ new.replica = 0
  BY DEF NoOp
<1>3. new \in Operations
  <2>1. NoAnswers \in [Replicas -> [Tiles -> Answers]]
    BY DEF NoAnswers, Answers
  <2> QED BY <1>1, <2>1, NodeAssumption DEF NoOp, Operations, Replicas, LtsTypeOK
<1>4. /\ op' = [op EXCEPT ![c] = new] /\ started < MaxOperations /\ started' = started + 1
      /\ UNCHANGED <<files, bits, up, parallel, failures>>
  BY DEF Begin, nodeVars
<1> HIDE DEF new
<1>5. /\ op' \in [Clients -> Operations] /\ op'[c] = new
      /\ \A d \in Clients : d # c => op'[d] = op[d]
  BY <1>1, <1>3, <1>4 DEF LtsTypeOK
<1>6. \/ kind = "put" /\ versions.last \in Nat /\ versions'.last = versions.last + 1
         /\ versions'.ended = versions.ended /\ version = versions.last + 1
         /\ versions' \in [last : 0 .. MaxVersion, ended : SUBSET (1 .. MaxVersion)]
      \/ kind # "put" /\ version = 0 /\ versions' = versions
  BY <1>1, NodeAssumption DEF LtsTypeOK
<1>7. LtsTypeOK'
  BY <1>1, <1>2, <1>4, <1>5, <1>6, LtsAssumption DEF LtsTypeOK, NodeTypeOK
<1>8. VersionsInOrder'
  <2>1. versions.last \in Nat /\ versions.ended \subseteq 1 .. versions.last
    BY <1>1, NodeAssumption DEF LtsTypeOK, VersionsInOrder
  <2> QED BY <1>1, <1>2, <1>5, <1>6, <2>1 DEF VersionsInOrder
<1>9. NothingIsOld'
  BY <1>1, <1>4 DEF NothingIsOld
<1>10. ClientInv(c)'
  <2>1. \A r \in Replicas, t \in Tiles : op'[c].ans[r][t] = "none"
    BY <1>2, <1>5 DEF NoAnswers
  <2> QED BY <1>2, <1>5, <2>1 DEF ClientInv, AcceptedIsNewer, AcceptedIsExpired, ReadInOrder, PathIsMarked
<1>11. ASSUME NEW d \in Clients, d # c
       PROVE  ClientInv(d)'
  <2>1. NodeStep
    BY <1>4 DEF NodeStep
  <2> QED BY <1>1, <1>4, <1>5, <1>11, <2>1, OtherClientKept
<1>a. PromisesKept'
  BY <1>10, <1>11 DEF PromisesKept
<1>12. CombinedIsWhole'
  BY <1>1, <1>2, <1>4, <1>5 DEF CombinedIsWhole, Ended, AnyErr
<1>13. (PutIsStored /\ ExpiredIsNotFresh /\ SpecialHoldsUntilPut)'
  BY <1>7, <1>8, <1>a, LtsImplies, PTL
<1> QED BY <1>7, <1>8, <1>9, <1>a, <1>12, <1>13 DEF LtsInv

(* The answer to a request.                                                *)
LEMMA AnswerKept ==
  ASSUME LtsTypeOK, NEW c \in Clients, NEW r \in Replicas, NEW t \in Tiles, NEW answer \in Answers,
         Answered(c, r, t, answer)
  PROVE  /\ op' \in [Clients -> Operations]
         /\ \A d \in Clients : d # c => op'[d] = op[d]
         /\ op'[c].kind = op[c].kind /\ op'[c].phase = op[c].phase
         /\ op'[c].replica = op[c].replica /\ op'[c].tiles = op[c].tiles
         /\ op'[c].ver = op[c].ver /\ op'[c].before = op[c].before
         /\ \A s \in Replicas, u \in Tiles :
              op'[c].ans[s][u] = IF s = r /\ u = t THEN answer ELSE op[c].ans[s][u]
<1>1. op \in [Clients -> Operations] /\ op[c] \in Operations
      /\ op[c].ans \in [Replicas -> [Tiles -> Answers]]
  BY DEF LtsTypeOK, Operations
<1> DEFINE ans == [op[c].ans EXCEPT ![r][t] = answer]
           new == [op[c] EXCEPT !.ans = ans]
<1>2. op' = [op EXCEPT ![c] = new]
  BY <1>1 DEF Answered
<1>3. /\ ans \in [Replicas -> [Tiles -> Answers]]
      /\ \A s \in Replicas, u \in Tiles :
           ans[s][u] = IF s = r /\ u = t THEN answer ELSE op[c].ans[s][u]
  BY <1>1
<1> HIDE DEF ans
<1>4. /\ new \in Operations /\ new.ans = ans
      /\ new.kind = op[c].kind /\ new.phase = op[c].phase
      /\ new.replica = op[c].replica /\ new.tiles = op[c].tiles
      /\ new.ver = op[c].ver /\ new.before = op[c].before
  BY <1>1, <1>3 DEF Operations
<1> HIDE DEF new
<1>5. op' \in [Clients -> Operations] /\ op'[c] = new /\ \A d \in Clients : d # c => op'[d] = op[d]
  BY <1>1, <1>2, <1>4
<1> QED BY <1>3, <1>4, <1>5

(* A request keeps the versions in order: it starts and ends no put.       *)
LEMMA RequestVersions ==
  ASSUME VersionsInOrder, versions' = versions, NEW c \in Clients,
         \A d \in Clients : d # c => op'[d] = op[d],
         op'[c].kind = op[c].kind, op'[c].phase = op[c].phase,
         op'[c].ver = op[c].ver, op'[c].before = op[c].before
  PROVE  VersionsInOrder'
<1>1. \A d \in Clients : /\ op'[d].kind = op[d].kind /\ op'[d].phase = op[d].phase
                         /\ op'[d].ver = op[d].ver /\ op'[d].before = op[d].before
  OBVIOUS
<1> QED BY <1>1 DEF VersionsInOrder

(* What the nodes store is never the old: a version stored is not 0.       *)
LEMMA NothingIsOldKept ==
  ASSUME LtsTypeOK, VersionsInOrder, NothingIsOld, NodeStep
  PROVE  NothingIsOld'
<1> SUFFICES ASSUME NEW r \in Replicas, NEW t \in Tiles, files'[r][t].ver = 0
             PROVE  files'[r][t].time = "epoch"
  BY DEF NothingIsOld
<1>1. ~StoringVersion(0)
  <2> SUFFICES ASSUME StoringVersion(0) PROVE FALSE
    OBVIOUS
  <2>1. PICK d \in Clients : TRUE
    BY DEF StoringVersion
  <2> QED BY <2>1, StoredIsNew
<1> QED BY <1>1 DEF NodeStep, NothingIsOld

(* The effect of a request on the nodes, and what a good answer tells.     *)
LEMMA RequestEffect ==
  ASSUME LtsTypeOK, VersionsInOrder, NothingIsOld, NEW c \in Clients,
         op[c].kind \in {"put", "get_meta", "expire"}, op[c].phase # "done",
         NEW t \in Tiles, NEW r \in Replicas, NEW answer \in Answers, NEW lost \in BOOLEAN,
         \/ Effect(c, t, r, answer, lost)
         \/ answer \in {"bad", "err"} /\ UNCHANGED <<files, bits>>
  PROVE  /\ NodeStep
         /\ files' \in [Replicas -> [Tiles -> [ver : 0 .. MaxVersion, time : {"epoch", "now"}]]]
         /\ bits' \in [Hosts -> BOOLEAN]
         /\ answer = "good" /\ op[c].kind = "put" /\ op[c].phase = "run" =>
              files'[r][t].ver \notin op[c].before \union {0}
         /\ answer = "good" /\ ~(op[c].phase = "run" /\ op[c].kind \in {"put", "get_meta"}) =>
              files'[r][t].time = "epoch"
<1>0. /\ files \in [Replicas -> [Tiles -> [ver : 0 .. MaxVersion, time : {"epoch", "now"}]]]
      /\ bits \in [Hosts -> BOOLEAN]
  BY DEF LtsTypeOK, NodeTypeOK
<1>1. CASE UNCHANGED <<files, bits>> /\ (answer = "good" => op[c].kind = "get_meta" /\ op[c].phase = "run")
  BY <1>0, <1>1 DEF NodeStep
<1>2. CASE op[c].phase = "run" /\ op[c].kind = "put" /\ Store(t, r, op[c].ver, lost)
  <2>1. files'[r][t].ver = op[c].ver
    BY <1>2, StoreStep
  <2>2. StoringVersion(op[c].ver)
    BY <1>2 DEF StoringVersion
  <2>3. op[c].ver \notin op[c].before \union {0}
    BY <2>2, StoredIsNew
  <2> QED BY <1>2, <2>1, <2>3, StoreStep
<1>3. CASE ~(op[c].phase = "run" /\ op[c].kind \in {"put", "get_meta"}) /\ MarkExpired(t, r, lost)
  BY <1>3, MarkStep
<1> QED BY <1>1, <1>2, <1>3 DEF Effect

(* A request.                                                              *)
LEMMA RequestKept ==
  ASSUME LtsInv, NEW c \in Clients, Request(c)
  PROVE  LtsInv'
<1>1. LtsTypeOK /\ VersionsInOrder /\ NothingIsOld /\ CombinedIsWhole
      /\ \A d \in Clients : ClientInv(d)
  BY DEF LtsInv, PromisesKept
<1> DEFINE r == op[c].replica
<1>2. PICK t \in Next(c), answer \in Answers \ {"none"} :
        /\ Answered(c, r, t, answer)
        /\ \/ /\ Host(t, r) \in up
              /\ \E lost \in Losses :
                   /\ Effect(c, t, r, answer, lost)
                   /\ failures' = IF lost THEN failures + 1 ELSE failures
           \/ /\ Host(t, r) \notin up /\ answer = "err"
              /\ UNCHANGED <<files, bits, failures>>
           \/ /\ Host(t, r) \in up /\ failures < MaxFailures
              /\ answer \in {"bad", "err"}
              /\ failures' = failures + 1
              /\ UNCHANGED <<files, bits>>
  BY DEF Request
<1>3. /\ op[c].kind \in {"put", "get_meta", "expire"} /\ op[c].phase # "done"
      /\ UNCHANGED <<up, parallel, started, versions>>
  BY DEF Request
<1>4. r \in Replicas /\ t \in Tiles /\ t \in op[c].tiles
  BY <1>1 DEF LtsTypeOK, Operations, Next
<1>5. failures' \in 0 .. MaxFailures
  <2>1. failures \in 0 .. MaxFailures /\ MaxFailures \in Nat
    BY <1>1, LtsAssumption DEF LtsTypeOK
  <2>2. failures' = failures \/ (failures' = failures + 1 /\ failures < MaxFailures)
    <3>1. \A lost \in Losses : lost => failures < MaxFailures
      BY DEF Losses
    <3> QED BY <1>2, <3>1
  <2> QED BY <2>1, <2>2
<1>6. /\ NodeStep
      /\ files' \in [Replicas -> [Tiles -> [ver : 0 .. MaxVersion, time : {"epoch", "now"}]]]
      /\ bits' \in [Hosts -> BOOLEAN]
      /\ answer = "good" /\ op[c].kind = "put" /\ op[c].phase = "run" =>
           files'[r][t].ver \notin op[c].before \union {0}
      /\ answer = "good" /\ ~(op[c].phase = "run" /\ op[c].kind \in {"put", "get_meta"}) =>
           files'[r][t].time = "epoch"
  <2> HIDE DEF r
  <2>1. PICK lost \in BOOLEAN : \/ Effect(c, t, r, answer, lost)
                                \/ answer \in {"bad", "err"} /\ UNCHANGED <<files, bits>>
    BY <1>2 DEF Losses
  <2>2. answer \in Answers
    BY <1>2
  <2> QED BY <1>1, <1>3, <1>4, <2>1, <2>2, RequestEffect
<1>7. /\ op' \in [Clients -> Operations]
      /\ \A d \in Clients : d # c => op'[d] = op[d]
      /\ op'[c].kind = op[c].kind /\ op'[c].phase = op[c].phase
      /\ op'[c].replica = op[c].replica /\ op'[c].tiles = op[c].tiles
      /\ op'[c].ver = op[c].ver /\ op'[c].before = op[c].before
      /\ \A s \in Replicas, u \in Tiles :
           op'[c].ans[s][u] = IF s = r /\ u = t THEN answer ELSE op[c].ans[s][u]
  <2>1. answer \in Answers /\ Answered(c, r, t, answer)
    BY <1>2
  <2> HIDE DEF r
  <2> QED BY <1>1, <1>4, <2>1, AnswerKept
<1> HIDE DEF r
<1>8. LtsTypeOK'
  BY <1>1, <1>3, <1>5, <1>6, <1>7 DEF LtsTypeOK, NodeTypeOK
<1>9. VersionsInOrder'
  BY <1>1, <1>3, <1>7, RequestVersions
<1>10. NothingIsOld'
  BY <1>1, <1>6, NothingIsOldKept
<1>11. ClientInv(c)'
  <2>0. ClientInv(c)
    BY <1>1
  <2>1. AcceptedIsNewer(c)'
    <3> SUFFICES ASSUME op[c].kind = "put", op[c].phase = "run", NEW s \in Replicas, NEW u \in Tiles,
                        op'[c].ans[s][u] = "good"
                 PROVE  files'[s][u].ver \notin op[c].before \union {0}
      BY <1>3, <1>7 DEF AcceptedIsNewer
    <3>1. CASE s = r /\ u = t
      BY <3>1, <1>6, <1>7
    <3>2. CASE ~(s = r /\ u = t)
      <4>1. files[s][u].ver \notin op[c].before \union {0}
        BY <3>2, <1>7, <2>0 DEF ClientInv, AcceptedIsNewer
      <4> QED BY <4>1, <1>1, <1>6, NodesMoveOn
    <3> QED BY <3>1, <3>2
  <2>2. AcceptedIsExpired(c)'
    <3> SUFFICES ASSUME op[c].kind = "expire" \/ (op[c].kind = "put" /\ op[c].phase = "expire"),
                        NEW s \in Replicas, NEW u \in Tiles, op'[c].ans[s][u] = "good"
                 PROVE  files'[s][u].ver \in op[c].before \union {op[c].ver} => files'[s][u].time = "epoch"
      BY <1>3, <1>7 DEF AcceptedIsExpired
    <3>1. CASE s = r /\ u = t
      BY <3>1, <1>6, <1>7
    <3>2. CASE ~(s = r /\ u = t)
      <4>1. files[s][u].ver \in op[c].before \union {op[c].ver} => files[s][u].time = "epoch"
        BY <3>2, <1>7, <2>0 DEF ClientInv, AcceptedIsExpired
      <4>2. ~(op[c].kind = "put" /\ op[c].phase = "run")
        OBVIOUS
      <4> QED BY <4>1, <4>2, <1>1, <1>6, NodesMoveOn
    <3> QED BY <3>1, <3>2
  <2>3. ReadInOrder(c)'
    <3>1. Asked(c, 0) \subseteq Asked(c, 0)'
      <4>1. 0 \in Replicas /\ op[c].tiles \subseteq Tiles /\ answer # "none"
        BY <1>1, <1>2 DEF Replicas, LtsTypeOK, Operations
      <4> QED BY <1>7, <4>1 DEF Asked
    <3>2. op[c].kind = "get_meta" => Asked(c, 0)' \subseteq Tiles
      BY <1>7, <2>0 DEF Asked, ClientInv, ReadInOrder
    <3> QED BY <1>3, <1>7, <2>0, <3>1, <3>2 DEF ReadInOrder, ClientInv
  <2>4. PathIsMarked(c)'
    BY <1>3, <1>7 DEF PathIsMarked
  <2> QED BY <2>1, <2>2, <2>3, <2>4 DEF ClientInv
<1>12. ASSUME NEW d \in Clients, d # c
       PROVE  ClientInv(d)'
  BY <1>1, <1>3, <1>6, <1>7, <1>12, OtherClientKept
<1>a. PromisesKept'
  BY <1>11, <1>12 DEF PromisesKept
<1>13. CombinedIsWhole'
  <2>1. op'[c].phase # "done"
    BY <1>3, <1>7
  <2> QED BY <1>1, <1>3, <1>7, <2>1 DEF CombinedIsWhole, Ended, AnyErr
<1>14. (PutIsStored /\ ExpiredIsNotFresh /\ SpecialHoldsUntilPut)'
  BY <1>8, <1>9, <1>a, LtsImplies, PTL
<1> QED BY <1>8, <1>9, <1>10, <1>a, <1>13, <1>14 DEF LtsInv

(* A step between two batches, or at the end of one: only the client's     *)
(* operation changes, and the versions when a put ends.                    *)
ReadIsWhole(c) ==
  Ended(c, "get_meta") /\ op[c].ret /\ parallel /\ ~AnyErr(c, 0) /\ ~AnyErr(c, 1) => op[c].whole
LEMMA OwnStepKept ==
  ASSUME LtsInv, NEW c \in Clients, UNCHANGED <<nodeVars, parallel, started>>,
         failures' = failures \/ failures' \in 0 .. MaxFailures,
         NEW new \in Operations, op' = [op EXCEPT ![c] = new],
         new.kind = op[c].kind, new.ver = op[c].ver, new.before = op[c].before,
         op[c].phase # "done",
         \/ versions' = versions /\ (op[c].kind = "put" => new.phase # "done")
         \/ op[c].kind = "put" /\ new.phase = "done" /\ PutEnds(c),
         ClientInv(c)', ReadIsWhole(c)'
  PROVE  LtsInv'
<1>1. LtsTypeOK /\ VersionsInOrder /\ NothingIsOld /\ CombinedIsWhole
      /\ \A d \in Clients : ClientInv(d)
  BY DEF LtsInv, PromisesKept
<1>2. /\ op' \in [Clients -> Operations] /\ op'[c] = new
      /\ \A d \in Clients : d # c => op'[d] = op[d]
  BY <1>1 DEF LtsTypeOK
<1>3. UNCHANGED <<files, bits, up>>
  BY DEF nodeVars
<1>4. op[c].kind = "put" => op[c].ver \in 1 .. versions.last
  BY <1>1 DEF VersionsInOrder
<1>5. /\ versions'.last = versions.last
      /\ versions' \in [last : 0 .. MaxVersion, ended : SUBSET (1 .. MaxVersion)]
      /\ \/ versions'.ended = versions.ended /\ (op[c].kind = "put" => new.phase # "done")
         \/ /\ op[c].kind = "put" /\ new.phase = "done"
            /\ versions'.ended = versions.ended \union {op[c].ver}
  <2>1. versions \in [last : 0 .. MaxVersion, ended : SUBSET (1 .. MaxVersion)]
    BY <1>1 DEF LtsTypeOK
  <2>2. CASE versions' = versions /\ (op[c].kind = "put" => new.phase # "done")
    BY <2>1, <2>2
  <2>3. CASE op[c].kind = "put" /\ new.phase = "done" /\ PutEnds(c)
    <3>1. op[c].ver \in 1 .. MaxVersion
      BY <1>4, <2>1, <2>3, NodeAssumption
    <3> QED BY <2>1, <2>3, <3>1 DEF PutEnds
  <2> QED BY <2>2, <2>3
<1>6. LtsTypeOK'
  BY <1>1, <1>2, <1>3, <1>5 DEF LtsTypeOK, NodeTypeOK
<1>7. VersionsInOrder'
  BY <1>1, <1>2, <1>4, <1>5 DEF VersionsInOrder
<1>8. NothingIsOld'
  BY <1>1, <1>3 DEF NothingIsOld
<1>9. ASSUME NEW d \in Clients, d # c
      PROVE  ClientInv(d)'
  <2>1. NodeStep
    BY <1>3 DEF NodeStep
  <2> QED BY <1>1, <1>2, <1>9, <2>1, OtherClientKept
<1>10. PromisesKept'
  BY <1>9 DEF PromisesKept
<1>11. CombinedIsWhole'
  BY <1>1, <1>2 DEF CombinedIsWhole, ReadIsWhole, Ended, AnyErr
<1>12. (PutIsStored /\ ExpiredIsNotFresh /\ SpecialHoldsUntilPut)'
  BY <1>6, <1>7, <1>10, LtsImplies, PTL
<1> QED BY <1>6, <1>7, <1>8, <1>10, <1>11, <1>12 DEF LtsInv

(* The step of a put: to the second copy, to its end, or to its expiry.    *)
LEMMA PutStepKept ==
  ASSUME LtsInv, NEW c \in Clients, PutStep(c)
  PROVE  LtsInv'
<1>1. op \in [Clients -> Operations] /\ op[c] \in Operations
  BY DEF LtsInv, LtsTypeOK
<1>2. /\ op[c].kind = "put" /\ op[c].phase = "run"
      /\ UNCHANGED <<nodeVars, parallel, started, failures>>
  BY DEF PutStep
<1>3. UNCHANGED <<files, bits, up>>
  BY <1>2 DEF nodeVars
<1>4. AcceptedIsNewer(c)
  BY DEF LtsInv, PromisesKept, ClientInv
<1>5. CASE op[c].replica = 0 /\ SecondReplica(c) /\ UNCHANGED versions
  <2> DEFINE new == [op[c] EXCEPT !.replica = 1]
  <2>1. op' = [op EXCEPT ![c] = new]
    BY <1>1, <1>5 DEF SecondReplica
  <2>2. /\ new \in Operations /\ new.kind = "put" /\ new.phase = "run" /\ new.ver = op[c].ver
        /\ new.before = op[c].before /\ new.ans = op[c].ans /\ new.tiles = op[c].tiles
    BY <1>1, <1>2 DEF Operations, Replicas
  <2> HIDE DEF new
  <2>3. op'[c] = new
    BY <1>1, <2>1
  <2>4. ClientInv(c)' /\ ReadIsWhole(c)'
    BY <1>2, <1>3, <1>4, <2>2, <2>3
       DEF ClientInv, AcceptedIsNewer, AcceptedIsExpired, ReadInOrder, PathIsMarked, ReadIsWhole, Ended
  <2> QED BY <1>2, <1>5, <2>1, <2>2, <2>4, OwnStepKept
<1>6. CASE PutSucceeded(c) /\ Done(c, TRUE, FALSE) /\ PutEnds(c)
  <2> DEFINE new == [op[c] EXCEPT !.phase = "done", !.ret = TRUE, !.whole = FALSE]
  <2>1. op' = [op EXCEPT ![c] = new]
    BY <1>1, <1>6 DEF Done
  <2>2. /\ new \in Operations /\ new.kind = "put" /\ new.phase = "done" /\ new.ver = op[c].ver
        /\ new.before = op[c].before /\ new.ans = op[c].ans /\ new.tiles = op[c].tiles /\ new.ret
    BY <1>1, <1>2 DEF Operations
  <2> HIDE DEF new
  <2>3. op'[c] = new
    BY <1>1, <2>1
  <2>4. PutSucceeded(c)'
    BY <1>6, <2>2, <2>3 DEF PutSucceeded, AllGood
  <2>5. ClientInv(c)' /\ ReadIsWhole(c)'
    BY <1>2, <1>3, <1>4, <2>2, <2>3, <2>4
       DEF ClientInv, AcceptedIsNewer, AcceptedIsExpired, ReadInOrder, PathIsMarked, ReadIsWhole, Ended
  <2> QED BY <1>2, <1>6, <2>1, <2>2, <2>5, OwnStepKept
<1>7. CASE /\ op' = [op EXCEPT ![c].phase = "expire", ![c].replica = 0,
                               ![c].tiles = Tiles, ![c].ans = NoAnswers]
           /\ UNCHANGED versions
  <2> DEFINE new == [op[c] EXCEPT !.phase = "expire", !.replica = 0, !.tiles = Tiles, !.ans = NoAnswers]
  <2>1. op' = [op EXCEPT ![c] = new]
    BY <1>1, <1>7
  <2>2. NoAnswers \in [Replicas -> [Tiles -> Answers]]
    BY DEF NoAnswers, Answers
  <2>3. /\ new \in Operations /\ new.kind = "put" /\ new.phase = "expire" /\ new.ver = op[c].ver
        /\ new.before = op[c].before /\ new.ans = NoAnswers
    BY <1>1, <1>2, <2>2 DEF Operations, Replicas
  <2> HIDE DEF new
  <2>4. op'[c] = new
    BY <1>1, <2>1
  <2>5. \A r \in Replicas, t \in Tiles : op'[c].ans[r][t] # "good"
    BY <2>3, <2>4 DEF NoAnswers
  <2>6. ClientInv(c)' /\ ReadIsWhole(c)'
    BY <1>3, <2>3, <2>4, <2>5
       DEF ClientInv, AcceptedIsNewer, AcceptedIsExpired, ReadInOrder, PathIsMarked, ReadIsWhole, Ended
  <2> QED BY <1>2, <1>7, <2>1, <2>3, <2>6, OwnStepKept
<1> QED BY <1>5, <1>6, <1>7 DEF PutStep

(* The step of an expiry, of its own or after a failed put.                *)
LEMMA ExpireStepKept ==
  ASSUME LtsInv, NEW c \in Clients, ExpireStep(c)
  PROVE  LtsInv'
<1>1. op \in [Clients -> Operations] /\ op[c] \in Operations
  BY DEF LtsInv, LtsTypeOK
<1>2. /\ op[c].kind = "expire" \/ (op[c].kind = "put" /\ op[c].phase = "expire")
      /\ op[c].phase # "done"
      /\ UNCHANGED <<nodeVars, parallel, started, failures>>
  BY DEF ExpireStep, Expiring
<1>3. UNCHANGED <<files, bits, up>>
  BY <1>2 DEF nodeVars
<1>4. AcceptedIsExpired(c)
  BY DEF LtsInv, PromisesKept, ClientInv
<1>5. CASE SecondReplica(c) /\ UNCHANGED versions
  <2> DEFINE new == [op[c] EXCEPT !.replica = 1]
  <2>1. op' = [op EXCEPT ![c] = new]
    BY <1>1, <1>5 DEF SecondReplica
  <2>2. /\ new \in Operations /\ new.kind = op[c].kind /\ new.phase = op[c].phase
        /\ new.ver = op[c].ver /\ new.before = op[c].before /\ new.ans = op[c].ans
    BY <1>1, <1>2 DEF Operations, Replicas
  <2> HIDE DEF new
  <2>3. op'[c] = new
    BY <1>1, <2>1
  <2>4. ClientInv(c)' /\ ReadIsWhole(c)'
    BY <1>2, <1>3, <1>4, <2>2, <2>3
       DEF ClientInv, AcceptedIsNewer, AcceptedIsExpired, ReadInOrder, PathIsMarked, ReadIsWhole, Ended
  <2> QED BY <1>2, <1>5, <2>1, <2>2, <2>4, OwnStepKept
<1>6. CASE /\ Done(c, op[c].kind = "expire" /\ ~AnyErr(c, op[c].replica), FALSE)
           /\ IF op[c].kind = "put" THEN PutEnds(c) ELSE UNCHANGED versions
  <2> DEFINE ret == op[c].kind = "expire" /\ ~AnyErr(c, op[c].replica)
  <2>0. ret \in BOOLEAN /\ (op[c].kind = "put" => ret = FALSE) /\ Done(c, ret, FALSE)
    BY <1>6
  <2> HIDE DEF ret
  <2> DEFINE new == [op[c] EXCEPT !.phase = "done", !.ret = ret, !.whole = FALSE]
  <2>1. op' = [op EXCEPT ![c] = new]
    BY <1>1, <2>0 DEF Done
  <2>2. /\ new \in Operations /\ new.kind = op[c].kind /\ new.phase = "done" /\ new.ver = op[c].ver
        /\ new.before = op[c].before /\ new.ans = op[c].ans /\ new.ret = ret
    BY <1>1, <1>2, <2>0 DEF Operations
  <2> HIDE DEF new
  <2>3. op'[c] = new
    BY <1>1, <2>1
  <2>4. ClientInv(c)' /\ ReadIsWhole(c)'
    BY <1>2, <1>3, <1>4, <2>0, <2>2, <2>3
       DEF ClientInv, AcceptedIsNewer, AcceptedIsExpired, ReadInOrder, PathIsMarked, ReadIsWhole, Ended
  <2> QED BY <1>2, <1>6, <2>1, <2>2, <2>4, OwnStepKept
<1> QED BY <1>5, <1>6 DEF ExpireStep

(* The combination of two copies that were answered in full is whole.      *)
LEMMA CombinationIsWhole ==
  ASSUME LtsTypeOK, NEW c \in Clients, parallel, op[c].tiles = Tiles, ~AnyErr(c, 0), ~AnyErr(c, 1),
         Asked(c, 0) = Tiles, Asked(c, 1) = Tiles, NEW result \in Combined(c), result[1]
  PROVE  result[2]
<1>1. Cardinality(Tiles) = TileCount
  BY NodeAssumption, FS_Interval DEF Tiles
<1>2. ASSUME NEW r \in {0, 1}
      PROVE  Responses(c, r) = TileCount
  <2>1. ~AnyErr(c, r) /\ Asked(c, r) = Tiles
    OBVIOUS
  <2>2. {t \in Asked(c, r) : op[c].ans[r][t] # "err"} = Tiles
    BY <2>1 DEF AnyErr
  <2> QED BY <1>1, <2>1, <2>2 DEF Responses
<1>3. PICK f \in [1 .. TileCount -> BOOLEAN] :
        /\ \A i \in 1 .. TileCount : f[i] \in GoodAt(c, i)
        /\ result = <<\A i \in 1 .. TileCount : f[i],
                      TileCount = TileCount
                      /\ \A i \in 1 .. TileCount :
                           op[c].ans[0][i] = "good" \/ (i <= TileCount /\ op[c].ans[1][i] = "good")>>
  BY <1>2 DEF Combined
<1>4. \A i \in 1 .. TileCount : f[i]
  BY <1>3
<1>5. ASSUME NEW i \in 1 .. TileCount
      PROVE  op[c].ans[0][i] = "good" \/ (i <= TileCount /\ op[c].ans[1][i] = "good")
  <2>1. i <= TileCount /\ Responses(c, 1) = TileCount
    BY <1>2, NodeAssumption
  <2> QED BY <1>3, <1>4, <2>1 DEF GoodAt
<1> QED BY <1>3, <1>5

(* The step of a get_meta.                                                 *)
LEMMA GetMetaStepKept ==
  ASSUME LtsInv, NEW c \in Clients, GetMetaStep(c)
  PROVE  LtsInv'
<1>1. op \in [Clients -> Operations] /\ op[c] \in Operations /\ LtsTypeOK /\ parallel \in BOOLEAN
  BY DEF LtsInv, LtsTypeOK
<1>2. /\ op[c].kind = "get_meta" /\ op[c].phase = "run" /\ BatchOver(c, op[c].replica)
      /\ UNCHANGED <<nodeVars, parallel, started, failures, versions>>
  BY DEF GetMetaStep
<1>3. ReadInOrder(c)
  BY DEF LtsInv, PromisesKept, ClientInv
<1>4. op[c].tiles = Tiles /\ (parallel => Asked(c, op[c].replica) = Tiles)
  BY <1>2, <1>3 DEF ReadInOrder, BatchOver, Serial
<1>5. CASE op[c].replica = 0 /\ SecondReplica(c)
  <2> DEFINE new == [op[c] EXCEPT !.replica = 1]
  <2>1. op' = [op EXCEPT ![c] = new]
    BY <1>1, <1>5 DEF SecondReplica
  <2>2. /\ new \in Operations /\ new.kind = op[c].kind /\ new.phase = op[c].phase
        /\ new.ver = op[c].ver /\ new.before = op[c].before /\ new.ans = op[c].ans
        /\ new.tiles = Tiles
    BY <1>1, <1>2, <1>4 DEF Operations, Replicas
  <2> HIDE DEF new
  <2>3. op'[c] = new
    BY <1>1, <2>1
  <2>4. parallel => Asked(c, 0)' = Tiles
    BY <1>4, <1>5, <2>2, <2>3 DEF Asked
  <2>5. ClientInv(c)' /\ ReadIsWhole(c)'
    BY <1>2, <2>2, <2>3, <2>4
       DEF ClientInv, AcceptedIsNewer, AcceptedIsExpired, ReadInOrder, PathIsMarked, ReadIsWhole, Ended
  <2> QED BY <1>2, <2>1, <2>2, <2>5, OwnStepKept
<1>6. ASSUME NEW ret \in BOOLEAN, NEW full \in BOOLEAN, Done(c, ret, full),
             parallel /\ ~AnyErr(c, 0) /\ ~AnyErr(c, 1) /\ ret => full
      PROVE  LtsInv'
  <2> DEFINE new == [op[c] EXCEPT !.phase = "done", !.ret = ret, !.whole = full]
  <2>1. op' = [op EXCEPT ![c] = new]
    BY <1>1, <1>6 DEF Done
  <2>2. /\ new \in Operations /\ new.kind = op[c].kind /\ new.phase = "done" /\ new.ver = op[c].ver
        /\ new.before = op[c].before /\ new.ans = op[c].ans /\ new.ret = ret /\ new.whole = full
        /\ new.tiles = Tiles /\ new.replica = op[c].replica
    BY <1>1, <1>2, <1>4 DEF Operations
  <2> HIDE DEF new
  <2>3. op'[c] = new
    BY <1>1, <2>1
  <2>4. Asked(c, 0)' = Asked(c, 0) /\ (\A r \in {0, 1} : AnyErr(c, r)' <=> AnyErr(c, r))
    BY <1>4, <2>2, <2>3 DEF Asked, AnyErr
  <2>5. ClientInv(c)'
    BY <1>2, <1>3, <2>2, <2>3, <2>4
       DEF ClientInv, AcceptedIsNewer, AcceptedIsExpired, ReadInOrder, PathIsMarked
  <2>6. ReadIsWhole(c)'
    BY <1>2, <1>6, <2>2, <2>3, <2>4 DEF ReadIsWhole
  <2> QED BY <1>2, <2>1, <2>2, <2>5, <2>6, OwnStepKept
<1>7. CASE AllGood(c, op[c].replica) /\ Done(c, TRUE, TRUE)
  BY <1>6, <1>7
<1>8. CASE op[c].replica = 1 /\ \E result \in Combined(c) : Done(c, result[1], result[2])
  <2>1. PICK result \in Combined(c) : Done(c, result[1], result[2])
    BY <1>8
  <2>2. result[1] \in BOOLEAN /\ result[2] \in BOOLEAN
    <3> DEFINE n == Responses(c, 0)
               picks == {f \in [1 .. n -> BOOLEAN] : \A i \in 1 .. n : f[i] \in GoodAt(c, i)}
               Real(i) == op[c].ans[0][i] = "good"
                          \/ (i <= Responses(c, 1) /\ op[c].ans[1][i] = "good")
               every(f) == \A i \in 1 .. n : f[i]
               all == n = TileCount /\ \A i \in 1 .. n : Real(i)
    <3>1. Combined(c) = {<<every(f), all>> : f \in picks}
      BY DEF Combined
    <3>2. all \in BOOLEAN /\ \A f \in picks : every(f) \in BOOLEAN
      BY Zenon
    <3> HIDE DEF all, every, picks
    <3> QED BY <3>1, <3>2
  <2>3. parallel => Asked(c, 0) = Tiles /\ Asked(c, 1) = Tiles
    BY <1>2, <1>3, <1>4, <1>8 DEF ReadInOrder
  <2>4. parallel /\ ~AnyErr(c, 0) /\ ~AnyErr(c, 1) /\ result[1] => result[2]
    BY <1>1, <1>4, <2>3, CombinationIsWhole
  <2> QED BY <1>6, <2>1, <2>2, <2>4
<1> QED BY <1>5, <1>7, <1>8 DEF GetMetaStep

(* A path of the tool.                                                     *)
LEMMA PathsAreCopies == \A p \in SpecialPaths : p[1] \in Replicas /\ p[2] \in Tiles
<1> SUFFICES ASSUME NEW h \in Hosts, NEW format \in {FormatOf[t] : t \in Tiles}, NEW p \in FirstPath(h, format)
             PROVE  p[1] \in Replicas /\ p[2] \in Tiles
  BY DEF SpecialPaths
<1> DEFINE at(r) == {t \in Tiles : FormatOf[t] = format /\ Host(t, r) = h}
           First(S) == CHOOSE t \in S : \A u \in S : t <= u
<1>1. ASSUME NEW r \in Replicas, at(r) # {}
      PROVE  First(at(r)) \in Tiles
  <2>1. at(r) \subseteq Nat /\ at(r) \subseteq Tiles
    BY NodeAssumption DEF Tiles
  <2> HIDE DEF at
  <2>2. \E t \in at(r) : \A u \in at(r) : t <= u
    BY <1>1, <2>1, LeastNatural
  <2> QED BY <2>1, <2>2
<1>2. \/ at(0) # {} /\ p = <<0, First(at(0))>>
      \/ at(1) # {} /\ p = <<1, First(at(1))>>
  BY DEF FirstPath
<1> HIDE DEF at, First
<1> QED BY <1>1, <1>2 DEF Replicas

(* The step of the tool: the drain is over, ...                            *)
LEMMA SpecialEndKept ==
  ASSUME LtsInv, NEW c \in Clients, op[c].kind = "special", op[c].phase = "run",
         Done(c, TRUE, FALSE), UNCHANGED <<nodeVars, parallel, started, versions, failures>>
  PROVE  LtsInv'
<1>1. op \in [Clients -> Operations] /\ op[c] \in Operations /\ PathIsMarked(c)
  BY DEF LtsInv, LtsTypeOK, PromisesKept, ClientInv
<1> DEFINE new == [op[c] EXCEPT !.phase = "done", !.ret = TRUE, !.whole = FALSE]
<1>2. op' = [op EXCEPT ![c] = new]
  BY <1>1 DEF Done
<1>3. /\ new \in Operations /\ new.kind = "special" /\ new.phase = "done" /\ new.ver = op[c].ver
      /\ new.before = op[c].before /\ new.ans = op[c].ans /\ new.tiles = op[c].tiles
  BY <1>1 DEF Operations
<1> HIDE DEF new
<1>4. op'[c] = new
  BY <1>1, <1>2
<1>5. PathIsMarked(c)'
  BY <1>1, <1>3, <1>4 DEF PathIsMarked, nodeVars
<1>6. ClientInv(c)' /\ ReadIsWhole(c)'
  BY <1>3, <1>4, <1>5
     DEF ClientInv, AcceptedIsNewer, AcceptedIsExpired, ReadInOrder, ReadIsWhole, Ended
<1> QED BY <1>2, <1>3, <1>6, OwnStepKept

(* ... what is left for a host is given up, ...                            *)
LEMMA SpecialDropKept ==
  ASSUME LtsInv, NEW c \in Clients, NEW new \in Operations,
         op[c].kind = "special", op[c].phase = "run", op' = [op EXCEPT ![c] = new],
         new.kind = "special", new.phase = "run", new.ver = op[c].ver,
         new.before = op[c].before, new.tiles = op[c].tiles,
         \A r \in Replicas, t \in Tiles : new.ans[r][t] = "err" \/ new.ans[r][t] = op[c].ans[r][t],
         UNCHANGED <<nodeVars, parallel, started, versions>>,
         failures' = failures \/ failures' \in 0 .. MaxFailures
  PROVE  LtsInv'
<1>1. op \in [Clients -> Operations] /\ op[c] \in Operations /\ PathIsMarked(c)
  BY DEF LtsInv, LtsTypeOK, PromisesKept, ClientInv
<1>2. op'[c] = new
  BY <1>1
<1>3. PathIsMarked(c)'
  BY <1>1, <1>2 DEF PathIsMarked, nodeVars
<1>4. ClientInv(c)' /\ ReadIsWhole(c)'
  BY <1>2, <1>3
     DEF ClientInv, AcceptedIsNewer, AcceptedIsExpired, ReadInOrder, ReadIsWhole, Ended
<1> QED BY <1>4, OwnStepKept

(* ... or a path is answered: as carried out, or as an error or with its   *)
(* message lost.                                                           *)
LEMMA SpecialAnswerKept ==
  ASSUME LtsInv, NEW c \in Clients, op[c].kind = "special", op[c].phase = "run",
         NEW r \in Replicas, NEW t \in Tiles, NEW lost \in BOOLEAN, NEW answer \in {"good", "bad"},
         Answered(c, r, t, answer),
         \/ MarkExpired(t, r, lost) /\ (answer = "good" => ~lost)
         \/ UNCHANGED <<files, bits>> /\ answer = "bad",
         UNCHANGED <<up, parallel, started, versions>>, failures' \in 0 .. MaxFailures
  PROVE  LtsInv'
<1>1. /\ LtsTypeOK /\ VersionsInOrder /\ NothingIsOld /\ CombinedIsWhole
      /\ op[c] \in Operations /\ PathIsMarked(c) /\ \A d \in Clients : ClientInv(d)
  BY DEF LtsInv, LtsTypeOK, PromisesKept, ClientInv
<1>2. answer \in Answers
  BY DEF Answers
<1>3. /\ op' \in [Clients -> Operations]
      /\ \A d \in Clients : d # c => op'[d] = op[d]
      /\ op'[c].kind = op[c].kind /\ op'[c].phase = op[c].phase
      /\ op'[c].replica = op[c].replica /\ op'[c].tiles = op[c].tiles
      /\ op'[c].ver = op[c].ver /\ op'[c].before = op[c].before
      /\ \A s \in Replicas, u \in Tiles :
           op'[c].ans[s][u] = IF s = r /\ u = t THEN answer ELSE op[c].ans[s][u]
  BY <1>1, <1>2, AnswerKept
<1>4. /\ files' \in [Replicas -> [Tiles -> [ver : 0 .. MaxVersion, time : {"epoch", "now"}]]]
      /\ bits' \in [Hosts -> BOOLEAN]
      /\ answer = "good" => bits'[Host(t, r)] \/ files'[r][t].ver = 0
      /\ \A s \in Replicas, u \in Tiles : files[s][u].time = "epoch" =>
           (files'[s][u].ver = 0 => files'[s][u].time = "epoch")
      /\ NodeStep
  <2>1. CASE MarkExpired(t, r, lost) /\ (answer = "good" => ~lost)
    BY <1>1, <2>1, MarkStep
  <2>2. CASE UNCHANGED <<files, bits>> /\ answer = "bad"
    BY <1>1, <2>2 DEF NodeStep, LtsTypeOK, NodeTypeOK
  <2> QED BY <2>1, <2>2
<1>5. LtsTypeOK'
  BY <1>1, <1>3, <1>4 DEF LtsTypeOK, NodeTypeOK
<1>6. VersionsInOrder'
  BY <1>1, <1>3, RequestVersions
<1>7. NothingIsOld'
  BY <1>1, <1>4, NothingIsOldKept
<1>8. 0 \notin op[c].before
  BY <1>1 DEF Operations
<1>9. ASSUME NEW s \in Replicas, NEW u \in Tiles, op'[c].ans[s][u] = "good"
      PROVE  \/ bits'[Host(u, s)]
             \/ \E q \in Replicas, v \in Tiles :
                  Host(v, q) = Host(u, s) /\ files'[q][v].ver \notin op[c].before
  <2>1. CASE s = r /\ u = t
    BY <1>3, <1>4, <1>8, <1>9, <2>1
  <2>2. CASE ~(s = r /\ u = t)
    <3>1. \/ bits[Host(u, s)]
          \/ \E q \in Replicas, v \in Tiles :
               Host(v, q) = Host(u, s) /\ files[q][v].ver \notin op[c].before
      BY <1>1, <1>3, <1>9, <2>2 DEF PathIsMarked
    <3> QED BY <1>1, <1>4, <3>1, NodesMoveOn
  <2> QED BY <2>1, <2>2
<1>10. PathIsMarked(c)'
  BY <1>1, <1>3, <1>9 DEF PathIsMarked
<1>11. ClientInv(c)'
  BY <1>3, <1>10 DEF ClientInv, AcceptedIsNewer, AcceptedIsExpired, ReadInOrder
<1>12. ASSUME NEW d \in Clients, d # c
       PROVE  ClientInv(d)'
  BY <1>1, <1>3, <1>4, <1>12, OtherClientKept
<1>13. PromisesKept'
  BY <1>11, <1>12 DEF PromisesKept
<1>14. CombinedIsWhole'
  BY <1>1, <1>3 DEF CombinedIsWhole, Ended, AnyErr
<1>15. (PutIsStored /\ ExpiredIsNotFresh /\ SpecialHoldsUntilPut)'
  BY <1>5, <1>6, <1>13, LtsImplies, PTL
<1> QED BY <1>5, <1>6, <1>7, <1>13, <1>14, <1>15 DEF LtsInv

LEMMA SpecialStepKept ==
  ASSUME LtsInv, NEW c \in Clients, SpecialStep(c)
  PROVE  LtsInv'
<1>1. /\ op[c].kind = "special" /\ op[c].phase = "run"
      /\ UNCHANGED <<up, parallel, started, versions>>
  BY DEF SpecialStep
<1>2. /\ failures \in 0 .. MaxFailures /\ MaxFailures \in Nat
      /\ \A lost \in Losses : lost \in BOOLEAN /\ (lost => failures < MaxFailures)
  BY LtsAssumption DEF LtsInv, LtsTypeOK, Losses
<1> DEFINE left == {p \in SpecialPaths : op[c].ans[p[1]][p[2]] = "none"}
           AtHostOf(p) == {q \in left : q[1] = p[1] /\ Host(q[2], q[1]) = Host(p[2], p[1])}
           Dropped(p) ==
             op' = [op EXCEPT ![c].ans = [r \in Replicas |-> [t \in Tiles |->
                      IF <<r, t>> \in AtHostOf(p) THEN "err" ELSE @[r][t]]]]
<1>3. CASE left = {} /\ Done(c, TRUE, FALSE) /\ UNCHANGED <<files, bits, failures>>
  BY <1>1, <1>3, SpecialEndKept DEF nodeVars
<1>4. ASSUME NEW p \in left, NEW lost \in Losses,
             MarkExpired(p[2], p[1], lost),
             Answered(c, p[1], p[2], IF lost THEN "bad" ELSE "good"),
             failures' = IF lost THEN failures + 1 ELSE failures
      PROVE  LtsInv'
  <2>1. p[1] \in Replicas /\ p[2] \in Tiles
    BY PathsAreCopies
  <2>2. failures' \in 0 .. MaxFailures
    BY <1>2, <1>4
  <2>3. PICK answer \in {"good", "bad"} :
          Answered(c, p[1], p[2], answer) /\ (answer = "good" => ~lost)
    BY <1>4
  <2> QED BY <1>1, <1>2, <1>4, <2>1, <2>2, <2>3, SpecialAnswerKept
<1>5. ASSUME NEW p \in left, Dropped(p), UNCHANGED <<files, bits>>,
             failures' = failures \/ failures' \in 0 .. MaxFailures
      PROVE  LtsInv'
  <2> DEFINE dropped == AtHostOf(p)
             ans == [r \in Replicas |-> [t \in Tiles |->
                       IF <<r, t>> \in dropped THEN "err" ELSE op[c].ans[r][t]]]
  <2>1. op \in [Clients -> Operations] /\ op[c].ans \in [Replicas -> [Tiles -> Answers]]
    BY DEF LtsInv, LtsTypeOK, Operations
  <2>2. op' = [op EXCEPT ![c].ans = ans]
    BY <1>5
  <2> HIDE DEF dropped
  <2>3. /\ ans \in [Replicas -> [Tiles -> Answers]]
        /\ \A r \in Replicas, t \in Tiles : ans[r][t] = "err" \/ ans[r][t] = op[c].ans[r][t]
    BY <2>1 DEF Answers
  <2> HIDE DEF ans
  <2> DEFINE new == [op[c] EXCEPT !.ans = ans]
  <2>4. op' = [op EXCEPT ![c] = new]
    BY <2>1, <2>2
  <2>5. op[c] \in Operations
    BY DEF LtsInv, LtsTypeOK
  <2>6. /\ new \in Operations /\ new.kind = "special" /\ new.phase = "run" /\ new.ver = op[c].ver
        /\ new.before = op[c].before /\ new.ans = ans /\ new.tiles = op[c].tiles
    BY <1>1, <2>3, <2>5 DEF Operations
  <2> HIDE DEF new
  <2>7. UNCHANGED <<nodeVars, parallel, started, versions>>
    BY <1>1, <1>5 DEF nodeVars
  <2>8. failures' = failures \/ failures' \in 0 .. MaxFailures
    BY <1>5
  <2>9. \A r \in Replicas, t \in Tiles :
          new.ans[r][t] = "err" \/ new.ans[r][t] = op[c].ans[r][t]
    BY <2>3, <2>6
  <2> HIDE DEF left, AtHostOf, Dropped
  <2> QED BY <1>1, <2>4, <2>6, <2>7, <2>8, <2>9, SpecialDropKept
<1>6. ASSUME NEW p \in left, Answered(c, p[1], p[2], "bad"), UNCHANGED <<files, bits>>,
             failures' \in 0 .. MaxFailures
      PROVE  LtsInv'
  <2>1. p[1] \in Replicas /\ p[2] \in Tiles
    BY PathsAreCopies
  <2>2. "bad" \in {"good", "bad"} /\ FALSE \in BOOLEAN
    OBVIOUS
  <2> QED BY <1>1, <1>6, <2>1, <2>2, SpecialAnswerKept
<1>7. ASSUME NEW p \in left, failures < MaxFailures,
             Answered(c, p[1], p[2], "bad") \/ Dropped(p),
             failures' = failures + 1, UNCHANGED <<files, bits>>
      PROVE  LtsInv'
  <2>1. failures' \in 0 .. MaxFailures
    BY <1>2, <1>7
  <2> HIDE DEF Dropped, left
  <2> QED BY <1>5, <1>6, <1>7, <2>1
<1>8. \/ left = {} /\ Done(c, TRUE, FALSE) /\ UNCHANGED <<files, bits, failures>>
      \/ \E p \in left, lost \in Losses :
           /\ MarkExpired(p[2], p[1], lost)
           /\ Answered(c, p[1], p[2], IF lost THEN "bad" ELSE "good")
           /\ failures' = IF lost THEN failures + 1 ELSE failures
      \/ \E p \in left :
           /\ failures < MaxFailures
           /\ Answered(c, p[1], p[2], "bad") \/ Dropped(p)
           /\ failures' = failures + 1
           /\ UNCHANGED <<files, bits>>
      \/ \E p \in left : Dropped(p) /\ UNCHANGED <<files, bits, failures>>
  BY DEF SpecialStep
<1> HIDE DEF left, Dropped
<1> QED BY <1>3, <1>4, <1>5, <1>7, <1>8

(* A host comes or goes, or nothing happens.                               *)
LEMMA HostsComeAndGo ==
  ASSUME LtsInv, up' \subseteq Hosts, failures' \in 0 .. MaxFailures,
         UNCHANGED <<files, bits, parallel, op, started, versions>>
  PROVE  LtsInv'
<1>1. LtsTypeOK /\ VersionsInOrder /\ NothingIsOld /\ CombinedIsWhole
      /\ \A d \in Clients : ClientInv(d)
  BY DEF LtsInv, PromisesKept
<1>2. LtsTypeOK'
  BY <1>1 DEF LtsTypeOK, NodeTypeOK
<1>3. VersionsInOrder' /\ NothingIsOld'
  BY <1>1 DEF VersionsInOrder, NothingIsOld
<1>4. PromisesKept'
  <2>1. NodeStep
    BY DEF NodeStep
  <2> QED BY <1>1, <2>1, OtherClientKept DEF PromisesKept
<1>5. CombinedIsWhole'
  BY <1>1 DEF CombinedIsWhole, Ended, AnyErr
<1>6. (PutIsStored /\ ExpiredIsNotFresh /\ SpecialHoldsUntilPut)'
  BY <1>2, <1>3, <1>4, LtsImplies, PTL
<1> QED BY <1>2, <1>3, <1>4, <1>5, <1>6 DEF LtsInv

(* Every step of a client and of a host keeps the invariant.               *)
LEMMA LtsInvKept == LtsInv /\ [LtsNext]_ltsVars => LtsInv'
<1> SUFFICES ASSUME LtsInv, [LtsNext]_ltsVars
             PROVE  LtsInv'
  OBVIOUS
<1>0. LtsTypeOK
  BY DEF LtsInv
<1>1. ASSUME NEW c \in Clients, Start(c)
      PROVE  LtsInv'
  <2>1. CASE PutMeta(c)
    <3>1. PICK formats \in PutFormats :
            Begin(c, "put", {t \in Tiles : FormatOf[t] \in formats}, versions.last + 1)
      BY <2>1 DEF PutMeta
    <3> DEFINE tiles == {t \in Tiles : FormatOf[t] \in formats}
               version == versions.last + 1
    <3>2. tiles \in SUBSET Tiles /\ "put" \in OperationsOf[c] \cap {"put", "get_meta", "expire", "special"}
      BY <2>1 DEF PutMeta
    <3>3. version \in 0 .. MaxVersion /\ versions' = [versions EXCEPT !.last = version]
      BY <1>0, <2>1, NodeAssumption DEF PutMeta, LtsTypeOK
    <3>4. Begin(c, "put", tiles, version) /\ version = versions.last + 1
      BY <3>1
    <3> HIDE DEF tiles, version
    <3> QED BY <3>2, <3>3, <3>4, BeginKept
  <2>2. ASSUME NEW kind \in OperationsOf[c] \cap {"get_meta", "expire", "special"},
               Begin(c, kind, Tiles, 0), UNCHANGED versions
        PROVE  LtsInv'
    <3>1. 0 \in 0 .. MaxVersion /\ Tiles \in SUBSET Tiles
          /\ kind \in OperationsOf[c] \cap {"put", "get_meta", "expire", "special"} /\ kind # "put"
      BY NodeAssumption
    <3> QED BY <2>2, <3>1, BeginKept
  <2>3. CASE GetMeta(c) \/ Expire(c) \/ SpecialExpire(c)
    BY <2>2, <2>3 DEF GetMeta, Expire, SpecialExpire
  <2> QED BY <1>1, <2>1, <2>3 DEF Start
<1>2. ASSUME NEW c \in Clients, Step(c)
      PROVE  LtsInv'
  BY <1>2, RequestKept, PutStepKept, ExpireStepKept, GetMetaStepKept, SpecialStepKept DEF Step
<1>3. CASE HostFailure
  <2>1. failures' \in 0 .. MaxFailures
    BY <1>0, <1>3, LtsAssumption DEF HostFailure, LtsTypeOK
  <2>2. up' \subseteq Hosts /\ UNCHANGED <<files, bits, parallel, op, started, versions>>
    BY <1>0, <1>3 DEF HostFailure, HostFails, LtsTypeOK, NodeTypeOK
  <2> QED BY <2>1, <2>2, HostsComeAndGo
<1>4. CASE HostRecovery
  <2>1. failures' \in 0 .. MaxFailures
    BY <1>0, <1>4 DEF HostRecovery, LtsTypeOK
  <2>2. up' \subseteq Hosts /\ UNCHANGED <<files, bits, parallel, op, started, versions>>
    BY <1>0, <1>4 DEF HostRecovery, HostReturns, LtsTypeOK, NodeTypeOK
  <2> QED BY <2>1, <2>2, HostsComeAndGo
<1>5. CASE UNCHANGED ltsVars
  <2>1. up' \subseteq Hosts /\ failures' \in 0 .. MaxFailures
        /\ UNCHANGED <<files, bits, parallel, op, started, versions>>
    BY <1>0, <1>5 DEF ltsVars, nodeVars, LtsTypeOK, NodeTypeOK
  <2> QED BY <2>1, HostsComeAndGo
<1> QED BY <1>1, <1>2, <1>3, <1>4, <1>5 DEF LtsNext

(* The inductive invariant holds throughout.                               *)
LEMMA LtsInvariance == LtsSpec => []LtsInv
BY LtsInitInv, LtsInvKept, PTL DEF LtsSpec

(* A put that lts_storage::put_meta reported as successful has, in one of  *)
(* the copies, no tile older than itself: whatever other clients store or  *)
(* expire meanwhile, and whichever hosts fail.                             *)
THEOREM PutsAreStored == LtsSpec => []PutIsStored
<1>1. LtsInv => PutIsStored
  BY DEF LtsInv
<1> QED BY LtsInvariance, <1>1, PTL

(* What was in place when an expiry began, and all of whose requests were  *)
(* carried out, is expired for good, also when a put has cleared the bit.  *)
THEOREM ExpiredStaysExpired == LtsSpec => []ExpiredIsNotFresh
<1>1. LtsInv => ExpiredIsNotFresh
  BY DEF LtsInv
<1> QED BY LtsInvariance, <1>1, PTL

(* A metatile that get_meta combines is whole when its copies are read in  *)
(* parallel and all is answered; the tool's one path per host, when none   *)
(* fails and no message to an expiry server is lost, expires all copies    *)
(* there are, until one is stored.                                         *)
THEOREM ReadsAndPathsCoverAll == LtsSpec => [](CombinedIsWhole /\ SpecialHoldsUntilPut)
<1>1. LtsInv => CombinedIsWhole /\ SpecialHoldsUntilPut
  BY DEF LtsInv
<1> QED BY LtsInvariance, <1>1, PTL

-----------------------------------------------------------------------------
(* disk_storage *)

(* A set with one element at most.                                         *)
LEMMA AtMostOne ==
  ASSUME NEW S, \A x, y \in S : x = y
  PROVE  Cardinality(S) <= 1
<1>1. CASE S = {}
  BY <1>1, FS_EmptySet
<1>2. CASE S # {}
  <2>1. PICK x : x \in S
    BY <1>2
  <2>2. S = {x}
    BY <2>1
  <2>3. Cardinality({x}) = 1
    BY FS_Singleton
  <2> QED BY <2>2, <2>3
<1> QED BY <1>1, <1>2

(* There is no file, no handle and no call under way at first.             *)
LEMMA DiskInitInv == DiskInit => DiskInv
<1> SUFFICES ASSUME DiskInit PROVE DiskInv
  OBVIOUS
<1> USE DiskAssumption DEF DiskInit, NoMetaFile, NoGet, NoMeta, Content
<1>1. DiskTypeOK
  <2>1. file \in Files /\ putting \in Files
    BY DEF Files
  <2>2. data_cache \in Contents
    BY DEF Contents
  <2>b. data_locked \in BOOLEAN /\ expiring \in BOOLEAN
    BY Zenon
  <2>3. Cardinality(handles) <= 1
    BY AtMostOne
  <2>4. getting \in [pc : {"idle", "stat"}, seen : Files, format : DiskFormats,
                     gone : SUBSET (0..MaxPuts)]
    BY DEF Files
  <2>5. metaRead \in [pc : {"idle", "stat", "sized", "done"}, size : 0..MaxSize, ok : BOOLEAN,
                      file : Files, replaced : BOOLEAN]
    BY DEF Files
  <2>6. /\ descriptors \in 0..MaxDescriptors
        /\ puts \in 0..MaxPuts /\ cuts \in 0..MaxCuts
    OBVIOUS
  <2> QED BY <2>1, <2>2, <2>b, <2>3, <2>4, <2>5, <2>6 DEF DiskTypeOK
<1>2. GoneWasInPlace /\ GetFindsFresh /\ OneHandle /\ WholeFiles
  BY DEF GoneWasInPlace, GetFindsFresh, OneHandle, WholeFiles, Exists
<1>3. FreshWasFresh /\ HandleKeepsItsData /\ MetaIsWhole
  BY DEF FreshWasFresh, HandleKeepsItsData, MetaIsWhole
<1> QED BY <1>1, <1>2, <1>3 DEF DiskInv

(* The parts of the types whose check needs only SMT.                      *)
LEMMA DiskTypesKept ==
  ASSUME DiskInv, [DiskNext]_diskVars
  PROVE  DiskTypeOK'
<1>t. DiskTypeOK /\ OneHandle /\ GetFindsFresh
  BY DEF DiskInv
<1> USE <1>t, DiskAssumption DEF reader, writer
<1>1. ASSUME NEW format \in DiskFormats, GetStat(format)
      PROVE  DiskTypeOK'
  BY <1>1 DEF GetStat, DiskTypeOK
<1>2. CASE GetRead
  <2> DEFINE found == descriptors > 0 /\ HeaderFound(file, getting.format)
             h == Handed(getting.seen, file)
             taken == [expired |-> h.expired, data |-> h.data, gone |-> getting.gone]
  <2>1. Content(file) \in Contents
    BY DEF DiskTypeOK, Files, Content, Contents
  <2>2. taken \in [expired : BOOLEAN, data : Contents, gone : SUBSET (0..MaxPuts)]
    BY <2>1 DEF DiskTypeOK, Handed, Files
  <2>3. descriptors' \in 0..MaxDescriptors
    BY <1>2 DEF GetRead, DiskTypeOK, Left
  <2>4. data_cache' \in Contents
    BY <1>2, <2>1 DEF GetRead, DiskTypeOK, Handed
  <2>b. data_locked' \in BOOLEAN
    BY <1>2, Zenon DEF GetRead, DiskTypeOK
  <2>5. handles = {}
    BY <1>2 DEF GetRead, OneHandle, GetFindsFresh
  <2>6. handles' = {} \/ handles' = {taken}
    BY <1>2, <2>5 DEF GetRead
  <2>7. Cardinality(handles') <= 1
    BY <2>6, AtMostOne
  <2>8. NoGet \in [pc : {"idle", "stat"}, seen : Files, format : DiskFormats,
                   gone : SUBSET (0..MaxPuts)]
    BY DEF NoGet, NoMetaFile, Files
  <2> HIDE DEF taken
  <2> QED BY <1>2, <2>2, <2>3, <2>4, <2>b, <2>6, <2>7, <2>8 DEF GetRead, DiskTypeOK
<1>3. ASSUME NEW h \in handles, Release(h)
      PROVE  DiskTypeOK'
  <2>1. handles' = {}
    BY <1>3 DEF Release, OneHandle
  <2>2. data_locked' \in BOOLEAN
    BY <1>3, Zenon DEF Release
  <2>3. Cardinality(handles') <= 1
    BY <2>1, AtMostOne
  <2> QED BY <1>3, <2>1, <2>2, <2>3 DEF Release, DiskTypeOK
<1>4. CASE MetaStat
  <2>1. NoMetaFile \in Files
    BY DEF NoMetaFile, Files
  <2>2. PICK pc \in {"idle", "stat"} :
          metaRead' = [pc |-> pc, size |-> 0, ok |-> FALSE, file |-> NoMetaFile, replaced |-> FALSE]
    BY <1>4 DEF MetaStat, NoMeta
  <2>3. metaRead' \in [pc : {"idle", "stat", "sized", "done"}, size : 0..MaxSize, ok : BOOLEAN,
                       file : Files, replaced : BOOLEAN]
    BY <2>1, <2>2
  <2> QED BY <1>4, <2>3 DEF MetaStat, DiskTypeOK
<1>5. CASE MetaSize
  BY <1>5 DEF MetaSize, DiskTypeOK, Files
<1>6. CASE MetaRead
  <2>1. MetaBytes \in Files
    BY DEF MetaBytes, DiskTypeOK, Files
  <2> DEFINE ok == file.length >= metaRead.size
  <2>2. ok \in BOOLEAN
    OBVIOUS
  <2>3. metaRead' = [metaRead EXCEPT !.pc = "done", !.ok = ok, !.file = MetaBytes]
    BY <1>6 DEF MetaRead
  <2> HIDE DEF ok
  <2> QED BY <1>6, <2>1, <2>2, <2>3 DEF MetaRead, DiskTypeOK
<1>7. ASSUME NEW size \in 1..MaxSize, NEW length \in 0..MaxSize, NEW formats \in SUBSET DiskFormats,
             PutWrite(size, length, formats)
      PROVE  DiskTypeOK'
  BY <1>7 DEF PutWrite, WriteTemporary, DiskTypeOK, Files
<1>8. CASE PutRename
  <2> DEFINE replaced == metaRead.replaced \/ metaRead.pc = "sized"
  <2>1. replaced \in BOOLEAN
    OBVIOUS
  <2>2. metaRead' = [metaRead EXCEPT !.replaced = replaced]
    BY <1>8 DEF PutRename
  <2> HIDE DEF replaced
  <2>3. NoMetaFile \in Files
    BY DEF NoMetaFile, Files
  <2>4. gone' \subseteq 0..MaxPuts
    BY <1>8 DEF PutRename, DiskTypeOK, Files
  <2> QED BY <1>8, <2>1, <2>2, <2>3, <2>4 DEF PutRename, DiskTypeOK
<1>9. CASE PutFails
  BY <1>9 DEF PutFails, DiskTypeOK, NoMetaFile, Files
<1>10. CASE ExpireExists
  BY <1>10 DEF ExpireExists, DiskTypeOK
<1>11. CASE ExpireSetTime
  BY <1>11 DEF ExpireSetTime, DiskTypeOK, Files
<1>12. CASE UNCHANGED diskVars
  BY <1>12 DEF diskVars, DiskTypeOK
<1> QED BY <1>1, <1>2, <1>3, <1>4, <1>5, <1>6, <1>7, <1>8, <1>9, <1>10, <1>11, <1>12 DEF DiskNext

(* Every call of the reader, a writer and an expirer keeps the invariant.  *)
LEMMA DiskInvKept == DiskInv /\ [DiskNext]_diskVars => DiskInv'
<1> SUFFICES ASSUME DiskInv, [DiskNext]_diskVars
             PROVE  DiskInv'
  OBVIOUS
<1>t. DiskTypeOK /\ DiskTypeOK'
  BY DiskTypesKept DEF DiskInv
<1> DEFINE Rest == /\ GoneWasInPlace /\ GetFindsFresh /\ OneHandle /\ WholeFiles
                   /\ FreshWasFresh /\ HandleKeepsItsData /\ MetaIsWhole
<1>r. Rest
  BY DEF DiskInv
<1> SUFFICES Rest'
  BY <1>t DEF DiskInv
<1> USE <1>t, <1>r, DiskAssumption
    DEF reader, writer, GoneWasInPlace, GetFindsFresh, OneHandle, WholeFiles, FreshWasFresh,
        HandleKeepsItsData, MetaIsWhole, Exists
<1>1. ASSUME NEW format \in DiskFormats, GetStat(format)
      PROVE  Rest'
  BY <1>1 DEF GetStat, MayGet, DiskTypeOK, Files
<1>2. CASE GetRead
  <2> DEFINE taken == [expired |-> getting.seen.expired, data |-> Content(file),
                        gone |-> getting.gone]
  <2>1. getting.pc = "stat" /\ handles = {} /\ getting' = NoGet
        /\ UNCHANGED <<file, metaRead, expiring, gone, putting, puts, cuts>>
    BY <1>2 DEF GetRead
  <2>2. \/ UNCHANGED <<data_cache, data_locked, handles>>
        \/ data_cache' = Content(file) /\ data_locked' = TRUE /\ handles' = {taken}
    <3> DEFINE found == descriptors > 0 /\ HeaderFound(file, getting.format)
    <3>1. CASE found
      BY <3>1, <1>2, <2>1 DEF GetRead, Handed
    <3>2. CASE ~found
      <4>1. data_cache' = data_cache /\ handles' = handles
        BY <3>2, <1>2 DEF GetRead
      <4>2. data_locked' = data_locked
        BY <3>2, <1>2, Zenon DEF GetRead, DiskTypeOK
      <4> QED BY <4>1, <4>2
    <3> QED BY <3>1, <3>2
  <2>3. GoneWasInPlace' /\ GetFindsFresh' /\ WholeFiles' /\ MetaIsWhole'
    BY <2>1 DEF NoGet
  <2>4. OneHandle' /\ FreshWasFresh' /\ HandleKeepsItsData'
    BY <2>1, <2>2 DEF Content
  <2> QED BY <2>3, <2>4
<1>3. ASSUME NEW h \in handles, Release(h)
      PROVE  Rest'
  BY <1>3 DEF Release
<1>4. CASE MetaStat
  BY <1>4 DEF MetaStat, NoMeta
<1>5. CASE MetaSize
  BY <1>5 DEF MetaSize, DiskTypeOK
<1>6. CASE MetaRead
  BY <1>6 DEF MetaRead, MetaBytes, DiskTypeOK, Files
<1>7. ASSUME NEW size \in 1..MaxSize, NEW length \in 0..MaxSize, NEW formats \in SUBSET DiskFormats,
             PutWrite(size, length, formats)
      PROVE  Rest'
  BY <1>7 DEF PutWrite, WriteTemporary, DiskTypeOK, Files, NoMetaFile
<1>8. CASE PutRename
  <2> DEFINE replaced == metaRead.replaced \/ metaRead.pc = "sized"
  <2>1. metaRead' = [metaRead EXCEPT !.replaced = replaced]
    BY <1>8 DEF PutRename
  <2>2. MetaIsWhole' /\ WholeFiles'
    BY <1>8, <2>1 DEF PutRename, DiskTypeOK, Files, NoMetaFile
  <2>3. GoneWasInPlace' /\ GetFindsFresh'
    BY <1>8 DEF PutRename, DiskTypeOK, Files, NoMetaFile
  <2>4. OneHandle' /\ FreshWasFresh' /\ HandleKeepsItsData'
    BY <1>8 DEF PutRename
  <2> QED BY <2>2, <2>3, <2>4
<1>9. CASE PutFails
  BY <1>9 DEF PutFails, NoMetaFile, DiskTypeOK
<1>10. CASE ExpireExists
  BY <1>10 DEF ExpireExists
<1>11. CASE ExpireSetTime
  BY <1>11 DEF ExpireSetTime, DiskTypeOK, Files, NoMetaFile
<1>12. CASE UNCHANGED diskVars
  BY <1>12 DEF diskVars
<1> QED BY <1>1, <1>2, <1>3, <1>4, <1>5, <1>6, <1>7, <1>8, <1>9, <1>10, <1>11, <1>12 DEF DiskNext

(* The inductive invariant holds throughout.                               *)
LEMMA DiskInvariance == DiskSpec => []DiskInv
BY DiskInitInv, DiskInvKept, PTL DEF DiskSpec

(* However put_meta and expire interleave with it, disk_storage::get never *)
(* calls a tile fresh that was expired or replaced before it began.        *)
THEOREM FreshTilesWereFresh == DiskSpec => []FreshWasFresh
<1>1. DiskInv => FreshWasFresh
  BY DEF DiskInv
<1> QED BY DiskInvariance, <1>1, PTL

(* A handle of disk_storage::get keeps the tile it was made with, and      *)
(* get_meta answers with a whole metatile unless it was replaced while the *)
(* file was read or written short.                                         *)
THEOREM DiskReadsAreWhole == DiskSpec => [](HandleKeepsItsData /\ MetaIsWhole)
<1>1. DiskInv => HandleKeepsItsData /\ MetaIsWhole
  BY DEF DiskInv
<1> QED BY DiskInvariance, <1>1, PTL

-----------------------------------------------------------------------------
(* expiry_overlay *)

(* The overlay starts with no tile, no mark and no call under way.         *)
LEMMA OverlayInitInv == OverlayInit => OverlayInv
<1> SUFFICES ASSUME OverlayInit PROVE OverlayInv
  OBVIOUS
<1> USE OverlayAssumption DEF OverlayInit, NoTile, IdlePut, IdleGet, NoAnswer
<1>1. OverlayTypeOK
  <2>0. marked \in BOOLEAN /\ current \in BOOLEAN
    BY Zenon
  <2>1. expiries \in 0..MaxExpiries /\ stores \in 0..MaxStores
    BY SMT
  <2>2. stored \in [there : BOOLEAN, begun : 0..expiries]
    OBVIOUS
  <2>3. storing \in [Putters -> [pc : {"idle", "cleared"}, begun : 0..expiries, last : BOOLEAN]]
    OBVIOUS
  <2>4. looking \in [pc : {"idle", "marked"}, expired : BOOLEAN, sure : BOOLEAN, since : 0..expiries]
    OBVIOUS
  <2>5. shown \in [exists : BOOLEAN, expired : BOOLEAN, sure : BOOLEAN,
                   tile : [there : BOOLEAN, begun : 0..expiries], since : 0..expiries]
    OBVIOUS
  <2> QED BY <2>0, <2>1, <2>2, <2>3, <2>4, <2>5 DEF OverlayTypeOK
<1>2. StaleIsMarked /\ MarkedSinceCleared /\ NothingOlderComes /\ FreshIsNotStale
  BY DEF StaleIsMarked, MarkedSinceCleared, NothingOlderComes, FreshIsNotStale
<1> QED BY <1>1, <1>2 DEF OverlayInv

(* Each call of expiry_overlay keeps the types.                            *)
LEMMA OverlayTypesKept ==
  ASSUME OverlayTypeOK, [OverlayNext]_overlayVars
  PROVE  OverlayTypeOK'
<1> USE OverlayAssumption DEF OverlayTypeOK
<1>1. CASE OverlayExpire
  BY <1>1 DEF OverlayExpire
<1>2. ASSUME NEW p \in Putters, PutClears(p)
      PROVE  OverlayTypeOK'
  <2>1. marked' \in BOOLEAN /\ current' \in BOOLEAN
    BY <1>2, Zenon DEF PutClears
  <2>2. ASSUME NEW q \in Putters
        PROVE  storing'[q] \in [pc : {"idle", "cleared"}, begun : 0..expiries, last : BOOLEAN]
    <3>1. CASE q = p
      BY <1>2, <3>1 DEF PutClears
    <3>2. CASE q # p
      <4>1. storing'[q] = [storing[q] EXCEPT !.last = FALSE]
        BY <1>2, <2>2, <3>2 DEF PutClears
      <4>2. expiries' = expiries
        BY <1>2 DEF PutClears
      <4> QED BY <2>2, <4>1, <4>2
    <3> QED BY <3>1, <3>2
  <2>3. storing' \in [Putters -> [pc : {"idle", "cleared"}, begun : 0..expiries, last : BOOLEAN]]
    <3>1. storing' = [q \in Putters |-> storing'[q]]
      BY <1>2 DEF PutClears
    <3> QED BY <2>2, <3>1
  <2>4. stores' \in 0..MaxStores /\ UNCHANGED <<stored, looking, shown, expiries>>
    BY <1>2 DEF PutClears
  <2> QED BY <2>1, <2>3, <2>4
<1>3. ASSUME NEW p \in Putters, NEW ok \in BOOLEAN, PutStores(p, ok)
      PROVE  OverlayTypeOK'
  BY <1>3 DEF PutStores, MarkAtEnd, Tile, IdlePut
<1>4. CASE GetMark
  <2> DEFINE sure == current /\ \A p \in Putters : storing[p].pc = "idle"
  <2>1. sure \in BOOLEAN
    BY Zenon
  <2>2. /\ looking' = [pc |-> "marked", expired |-> marked, since |-> expiries, sure |-> sure]
        /\ UNCHANGED <<marked, stored, storing, shown, expiries, stores, current>>
    BY <1>4 DEF GetMark
  <2> HIDE DEF sure
  <2> QED BY <2>1, <2>2
<1>5. CASE GetTile
  BY <1>5 DEF GetTile, IdleGet
<1>6. CASE UNCHANGED overlayVars
  BY <1>6 DEF overlayVars
<1> QED BY <1>1, <1>2, <1>3, <1>4, <1>5, <1>6 DEF OverlayNext

(* Each call of expiry_overlay keeps the marks and what is shown in step.  *)
LEMMA OverlayInvKept == OverlayInv /\ [OverlayNext]_overlayVars => OverlayInv'
<1> SUFFICES ASSUME OverlayInv, [OverlayNext]_overlayVars
             PROVE  OverlayInv'
  OBVIOUS
<1>t. OverlayTypeOK /\ OverlayTypeOK'
  BY OverlayTypesKept DEF OverlayInv
<1> DEFINE Rest == StaleIsMarked /\ MarkedSinceCleared /\ NothingOlderComes /\ FreshIsNotStale
<1>r. Rest
  BY DEF OverlayInv
<1> SUFFICES Rest'
  BY <1>t DEF OverlayInv
<1> USE <1>t, <1>r, OverlayAssumption
    DEF OverlayTypeOK, StaleIsMarked, MarkedSinceCleared, NothingOlderComes, FreshIsNotStale
<1>1. CASE OverlayExpire
  BY <1>1 DEF OverlayExpire
<1>2. ASSUME NEW p \in Putters, PutClears(p)
      PROVE  Rest'
  BY <1>2 DEF PutClears
<1>3. ASSUME NEW p \in Putters, NEW ok \in BOOLEAN, PutStores(p, ok)
      PROVE  Rest'
  BY <1>3 DEF PutStores, MarkAtEnd, Tile, IdlePut
<1>4. CASE GetMark
  <2> DEFINE sure == current /\ \A p \in Putters : storing[p].pc = "idle"
  <2>1. sure \in BOOLEAN
    BY Zenon
  <2>2. /\ looking' = [pc |-> "marked", expired |-> marked, since |-> expiries, sure |-> sure]
        /\ UNCHANGED <<marked, stored, storing, shown, expiries, stores, current>>
    BY <1>4 DEF GetMark
  <2>3. sure => current /\ \A p \in Putters : storing[p].pc = "idle"
    OBVIOUS
  <2> HIDE DEF sure
  <2> QED BY <2>1, <2>2, <2>3
<1>5. CASE GetTile
  BY <1>5 DEF GetTile, IdleGet
<1>6. CASE UNCHANGED overlayVars
  BY <1>6 DEF overlayVars
<1> QED BY <1>1, <1>2, <1>3, <1>4, <1>5, <1>6 DEF OverlayNext

(* The inductive invariant holds throughout.                               *)
LEMMA OverlayInvariance == OverlaySpec => []OverlayInv
BY OverlayInitInv, OverlayInvKept, PTL DEF OverlaySpec

(* Whatever the interleaving of expire, get and any number of put_meta, a  *)
(* handle of expiry_overlay::get that calls its tile fresh holds no tile   *)
(* that was expired when the get was called, provided that no put was      *)
(* between its calls then and that the tile stored was of the put that was *)
(* the last to clear the mark.                                             *)
THEOREM FreshIsNeverStale == OverlaySpec => []FreshIsNotStale
<1>1. OverlayInv => FreshIsNotStale
  BY DEF OverlayInv
<1> QED BY OverlayInvariance, <1>1, PTL

(* No expire is lost to the put_meta that is the last to clear the mark:   *)
(* once its tile is stored, and until an older put stores over it, the     *)
(* tile is marked when it was expired after that put began.                *)
THEOREM NoExpiryIsLost == OverlaySpec => []StaleIsMarked
<1>1. OverlayInv => StaleIsMarked
  BY DEF OverlayInv
<1> QED BY OverlayInvariance, <1>1, PTL

-----------------------------------------------------------------------------
(* union_storage, per_style_storage and compositing_storage *)

(* union_storage::get answers from a storage that has the tile, when one   *)
(* has.                                                                    *)
LEMMA UnionGetIsACopy ==
  ASSUME StoragesTypeOK, NEW style \in TileStyles, UnionGet(style).exists
  PROVE  \E leaf \in UnionLeaves :
           Has(leaf, style) /\ UnionGet(style) = LeafHandle(copies[leaf][style])
<1> DEFINE there == {i \in DOMAIN Union : Has(Union[i], style)}
<1>1. there \subseteq {1, 2} /\ Union[1] = "u1" /\ Union[2] = "u2"
  BY DEF Union
<1>2. there # {}
  BY DEF UnionGet, LeafHandle
<1>3. Min(there) \in there
  <2>1. \E x \in there : \A y \in there : x =< y
    <3>1. CASE 1 \in there
      BY <3>1, <1>1
    <3>2. CASE 1 \notin there
      BY <3>2, <1>1, <1>2
    <3> QED BY <3>1, <3>2
  <2> HIDE DEF there
  <2> QED BY <2>1 DEF Min
<1>4. UnionGet(style) = LeafHandle(copies[Union[Min(there)]][style])
  BY <1>2 DEF UnionGet
<1>5. Has(Union[Min(there)], style)
  BY <1>3
<1>6. Union[Min(there)] \in UnionLeaves
  BY <1>1, <1>3 DEF UnionLeaves
<1> QED BY <1>4, <1>5, <1>6

(* The larger of two times.                                                *)
LEMMA LaterOfTwo ==
  ASSUME NEW a \in Nat, NEW b \in Nat
  PROVE  Max({a, b}) \in {a, b} /\ Max({a, b}) >= a /\ Max({a, b}) >= b
<1>1. \E x \in {a, b} : \A y \in {a, b} : x >= y
  OBVIOUS
<1> QED BY <1>1 DEF Max

(* What expire leaves in the storages that are asked.                      *)
LEMMA ExpireInLeaves ==
  ASSUME StoragesTypeOK, NEW leaves \in SUBSET (UnionLeaves \cup StyleLeaves),
         NEW style \in TileStyles,
         copies' = ExpireIn(leaves, style)
  PROVE  /\ copies' \in [UnionLeaves \cup StyleLeaves -> [TileStyles -> Copies]]
         /\ \A leaf \in UnionLeaves \cup StyleLeaves, s \in TileStyles :
              copies'[leaf][s] =
                IF leaf \in leaves /\ s = style /\ Has(leaf, s)
                THEN [version |-> copies[leaf][s].version, time |-> Epoch]
                ELSE copies[leaf][s]
<1>1. ASSUME NEW c \in Copies, NEW time
      PROVE  [c EXCEPT !.time = time] = [version |-> c.version, time |-> time]
  BY DEF Copies
<1>2. \A c \in Copies : [version |-> c.version, time |-> Epoch] \in Copies
  BY StoragesAssumption DEF Copies, Epoch
<1>3. ASSUME NEW leaf \in UnionLeaves \cup StyleLeaves
      PROVE
        /\ copies[leaf] \in [TileStyles -> Copies]
        /\ [copies[leaf] EXCEPT ![style].time = Epoch]
             = [copies[leaf] EXCEPT ![style] = [version |-> copies[leaf][style].version, time |-> Epoch]]
  <2>1. copies[leaf] \in [TileStyles -> Copies] /\ copies[leaf][style] \in Copies
    BY DEF StoragesTypeOK
  <2>2. [copies[leaf][style] EXCEPT !.time = Epoch]
          = [version |-> copies[leaf][style].version, time |-> Epoch]
    BY <1>1, <2>1, Zenon
  <2> QED BY <2>1, <2>2, Zenon
<1> DEFINE E == [leaf \in UnionLeaves \cup StyleLeaves |->
                  IF leaf \in leaves /\ Has(leaf, style)
                  THEN [copies[leaf] EXCEPT ![style] = [version |-> copies[leaf][style].version, time |-> Epoch]]
                  ELSE copies[leaf]]
<1>4. copies' = E
  BY <1>3 DEF ExpireIn, StoragesTypeOK
<1>5. ASSUME NEW leaf \in UnionLeaves \cup StyleLeaves
      PROVE  /\ E[leaf] \in [TileStyles -> Copies]
             /\ \A s \in TileStyles :
                  E[leaf][s] = IF leaf \in leaves /\ s = style /\ Has(leaf, s)
                               THEN [version |-> copies[leaf][s].version, time |-> Epoch]
                               ELSE copies[leaf][s]
  BY <1>2, <1>3
<1>6. E \in [UnionLeaves \cup StyleLeaves -> [TileStyles -> Copies]]
  <2>1. E = [leaf \in UnionLeaves \cup StyleLeaves |-> E[leaf]]
    OBVIOUS
  <2> HIDE DEF E
  <2> QED BY <2>1, <1>5
<1> HIDE DEF E
<1> QED BY <1>4, <1>5, <1>6

(* The style of a layer: the configured one, or the tile's own.            *)
LEMMA LayerStyles ==
  ASSUME config \in Configs, NEW style \in TileStyles
  PROVE  UnderStyle(style) \in TileStyles /\ OverStyle(style) \in TileStyles
<1>1. ASSUME NEW configured \in OptionalStyle
      PROVE  StyleOr(configured, style) \in TileStyles
  BY DEF OptionalStyle, StyleOr
<1> QED BY <1>1 DEF UnderStyle, OverStyle, Configs

(* What the three properties say follows from what the storages keep.      *)
LEMMA ComposedImplies ==
  ASSUME StoragesTypeOK, NoneNewer, UnionAgrees, OwedIsExpired, SameOrNewer
  PROVE  UnionServesLast /\ CompositeExpiryHolds /\ LastModifiedTells
<1>1. UnionServesLast
  <2> SUFFICES ASSUME NEW style \in TileStyles, whole[style] # 0, UnionGet(style).exists
               PROVE  UnionGet(style).version = whole[style]
    BY DEF UnionServesLast
  <2>1. PICK leaf \in UnionLeaves :
          Has(leaf, style) /\ UnionGet(style) = LeafHandle(copies[leaf][style])
    BY UnionGetIsACopy
  <2> QED BY <2>1 DEF UnionAgrees, LeafHandle
<1>2. CompositeExpiryHolds
  <2> SUFFICES ASSUME config.under_style = {}, config.over_style = {},
                      NEW style \in TileStyles, owed[style] # {}, CompositeThere(style)
               PROVE  CompositeHandle(style).expired
    BY DEF CompositeExpiryHolds
  <2>1. UnderStyle(style) = style /\ OverStyle(style) = style
    BY DEF UnderStyle, OverStyle, StyleOr
  <2>2. UnionGet(style).exists /\ StyleGet(style).exists
    BY <2>1 DEF CompositeThere
  <2>3. PICK leaf \in UnionLeaves :
          Has(leaf, style) /\ UnionGet(style) = LeafHandle(copies[leaf][style])
    BY <2>2, UnionGetIsACopy
  <2>4. Has(StoreOf(style), style)
    BY <2>2 DEF StyleGet, LeafHandle, Has
  <2>5. "under" \in owed[style] \/ "over" \in owed[style]
    BY DEF StoragesTypeOK, Layers
  <2>6. UnionGet(style).expired \/ StyleGet(style).expired
    <3>1. CASE "under" \in owed[style]
      <4>1. copies[leaf][style].time = Epoch
        BY <2>3, <3>1 DEF OwedIsExpired
      <4>2. LeafHandle(copies[leaf][style]).expired
        BY <4>1 DEF LeafHandle
      <4> QED BY <2>3, <4>2
    <3>2. CASE "over" \in owed[style]
      <4>1. copies[StoreOf(style)][style].time = Epoch
        BY <2>4, <3>2 DEF OwedIsExpired
      <4> QED BY <4>1 DEF LeafHandle, StyleGet
    <3> QED BY <2>5, <3>1, <3>2
  <2> QED BY <2>1, <2>6 DEF CompositeHandle, Composite
<1>3. LastModifiedTells
  <2> DEFINE style == composed.style
             under == UnderStyle(style)
             over == OverStyle(style)
             now == CompositeHandle(style)
  <2> SUFFICES ASSUME composed.exists, CompositeThere(style), composed.settled, now.settled,
                      ~now.expired, composed.last_modified = now.last_modified
               PROVE  composed.under = now.under /\ composed.over = now.over
    BY DEF LastModifiedTells
  <2>1. style \in TileStyles /\ under \in TileStyles /\ over \in TileStyles
    BY LayerStyles DEF StoragesTypeOK
  <2>2. UnionGet(under).exists /\ StyleGet(over).exists /\ whole[under] # 0
    BY DEF CompositeThere, CompositeHandle, Composite
  <2>3. now.under = whole[under]
    BY <1>1, <2>1, <2>2 DEF UnionServesLast, CompositeHandle, Composite
  <2>4. Has(StoreOf(over), over) /\ now.over = copies[StoreOf(over)][over].version
    BY <2>2 DEF StyleGet, LeafHandle, Has, CompositeHandle, Composite
  <2>5. StoreOf(over) \in UnionLeaves \cup StyleLeaves
    BY DEF StoreOf, StyleLeaves
  <2>6. now.under \in Nat /\ now.over \in Nat
    BY <2>1, <2>3, <2>4, <2>5, StoragesAssumption DEF StoragesTypeOK, Copies
  <2>7. now.last_modified = Max({now.under, now.over})
    <3>1. PICK leaf \in UnionLeaves :
            Has(leaf, under) /\ UnionGet(under) = LeafHandle(copies[leaf][under])
      BY <2>1, <2>2, UnionGetIsACopy
    <3>2. ~UnionGet(under).expired /\ ~StyleGet(over).expired
      BY DEF CompositeHandle, Composite
    <3>3. UnionGet(under).last_modified = UnionGet(under).version
      <4>1. copies[leaf][under].time \in {Epoch, copies[leaf][under].version}
        BY <2>1 DEF NoneNewer
      <4> HIDE DEF under
      <4>2. ~LeafHandle(copies[leaf][under]).expired
        BY <3>1, <3>2
      <4>3. copies[leaf][under].time # Epoch
        BY <4>2 DEF LeafHandle
      <4>4. LeafHandle(copies[leaf][under]).last_modified = LeafHandle(copies[leaf][under]).version
        BY <4>1, <4>3 DEF LeafHandle
      <4> QED BY <3>1, <4>4
    <3>4. StyleGet(over).last_modified = StyleGet(over).version
      BY <2>1, <2>5, <3>2 DEF NoneNewer, StyleGet, LeafHandle
    <3>5. now = Composite(style, UnionGet(under), StyleGet(over))
      BY DEF CompositeHandle
    <3> HIDE DEF now, under, over
    <3> QED BY <3>3, <3>4, <3>5 DEF Composite
  <2>8. now.last_modified >= now.under /\ now.last_modified >= now.over
    <3> HIDE DEF now
    <3> QED BY <2>6, <2>7, LaterOfTwo
  <2>9. /\ whole[under] \in {0, composed.under} \/ whole[under] > composed.last_modified
        /\ \/ copies[StoreOf(over)][over].version = composed.over
           \/ copies[StoreOf(over)][over].version > composed.last_modified
    BY <2>4 DEF SameOrNewer
  <2>10. composed.last_modified \in Nat
    BY StoragesAssumption DEF StoragesTypeOK
  <2> HIDE DEF now, under, over
  <2> QED BY <2>2, <2>3, <2>4, <2>6, <2>8, <2>9, <2>10
<1> QED BY <1>1, <1>2, <1>3

(* The leaves are empty at first.                                          *)
LEMMA ComposedInitInv == StoragesInit => ComposedInv
<1> SUFFICES ASSUME StoragesInit PROVE ComposedInv
  OBVIOUS
<1>1. NoCopy \in Copies
  BY StoragesAssumption DEF NoCopy, Copies, Epoch
<1>2. /\ copies \in [UnionLeaves \cup StyleLeaves -> [TileStyles -> Copies]]
      /\ config \in Configs /\ putCount \in 0..MaxStoragePuts
      /\ whole \in [TileStyles -> 0..putCount] /\ owed \in [TileStyles -> SUBSET Layers]
  BY <1>1, StoragesAssumption DEF StoragesInit
<1>3. composed.exists \in BOOLEAN /\ composed.expired \in BOOLEAN /\ composed.settled \in BOOLEAN
  BY DEF StoragesInit, NoHandle
<1>4. composed.style \in TileStyles /\ {composed.last_modified, composed.under, composed.over} \subseteq 0..putCount
  BY StoragesAssumption DEF StoragesInit, NoHandle
<1>5. StoragesTypeOK
  BY <1>2, <1>3, <1>4 DEF StoragesTypeOK
<1>6. \A leaf \in UnionLeaves \cup StyleLeaves, style \in TileStyles : copies[leaf][style] = NoCopy
  BY DEF StoragesInit
<1>7. NoneNewer /\ UnionAgrees /\ OwedIsExpired
  BY <1>6 DEF NoneNewer, UnionAgrees, OwedIsExpired, NoCopy, Epoch, Has, StoragesInit
<1>8. SameOrNewer
  BY DEF SameOrNewer, StoragesInit, NoHandle
<1> QED BY <1>5, <1>7, <1>8, ComposedImplies DEF ComposedInv

(* A put of either storage writes a version newer than all, to some of its *)
(* own leaves.                                                             *)
LEMMA PutKeepsComposed ==
  ASSUME ComposedInv, putCount < MaxStoragePuts, putCount' = putCount + 1,
         NEW style \in TileStyles, NEW took,
         copies' = PutInto(took, style), UNCHANGED <<config, composed>>,
         \/ /\ took \subseteq UnionLeaves
            /\ whole' = [whole EXCEPT ![style] = IF UnionPutResult(took) THEN putCount + 1 ELSE 0]
            /\ owed' = [owed EXCEPT ![style] = @ \ {"under"}]
         \/ /\ took \subseteq {StoreOf(style)} /\ whole' = whole
            /\ owed' = [owed EXCEPT ![style] = @ \ {"over"}]
  PROVE  ComposedInv'
<1>1. StoragesTypeOK /\ NoneNewer /\ UnionAgrees /\ OwedIsExpired /\ SameOrNewer
  BY DEF ComposedInv
<1>2. /\ copies' \in [UnionLeaves \cup StyleLeaves -> [TileStyles -> Copies]]
      /\ \A leaf \in UnionLeaves \cup StyleLeaves, s \in TileStyles :
           copies'[leaf][s] =
             IF leaf \in took /\ s = style THEN [version |-> putCount + 1, time |-> putCount + 1]
             ELSE copies[leaf][s]
  <2>1. [version |-> putCount + 1, time |-> putCount + 1] \in Copies
    BY <1>1, StoragesAssumption DEF StoragesTypeOK, Copies
  <2> QED BY <1>1, <2>1 DEF PutInto, StoragesTypeOK
<1>3. putCount \in Nat /\ putCount' \in 0..MaxStoragePuts
  BY <1>1, StoragesAssumption DEF StoragesTypeOK
<1>4. \A leaf \in UnionLeaves \cup StyleLeaves, s \in TileStyles :
         copies[leaf][s] \in Copies /\ copies[leaf][s].version \in Nat
  BY <1>1, StoragesAssumption DEF StoragesTypeOK, Copies
<1>5. StoragesTypeOK'
  <2>1. whole' \in [TileStyles -> 0..putCount'] /\ owed' \in [TileStyles -> SUBSET Layers]
    BY <1>1, <1>3 DEF StoragesTypeOK
  <2>2. {composed.last_modified, composed.under, composed.over} \subseteq 0..putCount'
    BY <1>1, <1>3 DEF StoragesTypeOK
  <2> QED BY <1>1, <1>2, <1>3, <2>1, <2>2 DEF StoragesTypeOK
<1>6. NoneNewer'
  BY <1>1, <1>2, <1>3, <1>4 DEF NoneNewer
<1>7. UnionLeaves \cap StyleLeaves = {} /\ \A s \in TileStyles : StoreOf(s) \in StyleLeaves
  BY DEF UnionLeaves, StyleLeaves, StoreOf
<1>8. UnionAgrees'
  <2> SUFFICES ASSUME NEW s \in TileStyles, NEW leaf \in UnionLeaves, whole'[s] # 0, Has(leaf, s)'
               PROVE  copies'[leaf][s].version = whole'[s]
    BY DEF UnionAgrees
  <2>1. CASE s = style /\ whole' # whole
    BY <1>1, <1>2, <1>7, <2>1 DEF UnionPutResult, StoragesTypeOK
  <2>2. CASE s # style \/ whole' = whole
    <3>1. CASE leaf \notin took \/ s # style
      BY <3>1, <2>2, <1>1, <1>2 DEF UnionAgrees, Has, StoragesTypeOK
    <3>2. CASE leaf \in took /\ s = style
      BY <3>2, <2>2, <1>1, <1>2, <1>3, <1>7 DEF StoragesTypeOK, UnionPutResult
    <3> QED BY <3>1, <3>2
  <2> QED BY <2>1, <2>2
<1>9. OwedIsExpired'
  <2> SUFFICES ASSUME NEW s \in TileStyles
               PROVE  /\ "under" \in owed'[s] =>
                           \A leaf \in UnionLeaves : Has(leaf, s)' => copies'[leaf][s].time = Epoch
                      /\ "over" \in owed'[s] =>
                           (Has(StoreOf(s), s)' => copies'[StoreOf(s)][s].time = Epoch)
    BY DEF OwedIsExpired
  <2>1. owed'[s] \subseteq owed[s]
    BY <1>1 DEF StoragesTypeOK
  <2>2. ASSUME "under" \in owed'[s], NEW leaf \in UnionLeaves, Has(leaf, s)'
        PROVE  copies'[leaf][s].time = Epoch
    <3>1. ~(leaf \in took /\ s = style)
      BY <2>2, <1>1, <1>7 DEF StoragesTypeOK
    <3> QED BY <3>1, <2>1, <2>2, <1>1, <1>2 DEF OwedIsExpired, Has
  <2>3. ASSUME "over" \in owed'[s], Has(StoreOf(s), s)'
        PROVE  copies'[StoreOf(s)][s].time = Epoch
    <3>1. ~(StoreOf(s) \in took /\ s = style)
      BY <2>3, <1>1, <1>7 DEF StoragesTypeOK
    <3> QED BY <3>1, <2>1, <2>3, <1>1, <1>2, <1>7 DEF OwedIsExpired, Has
  <2> QED BY <2>2, <2>3
<1>10. SameOrNewer'
  <2> SUFFICES ASSUME composed.exists, composed.settled
               PROVE  LET under == UnderStyle(composed.style)  over == OverStyle(composed.style)
                      IN /\ whole'[under] \in {0, composed.under} \/ whole'[under] > composed.last_modified
                         /\ copies'[StoreOf(over)][over] # NoCopy =>
                              \/ copies'[StoreOf(over)][over].version = composed.over
                              \/ copies'[StoreOf(over)][over].version > composed.last_modified
    BY DEF SameOrNewer, UnderStyle, OverStyle, Has
  <2> DEFINE under == UnderStyle(composed.style)
             over == OverStyle(composed.style)
  <2>1. under \in TileStyles /\ over \in TileStyles
    BY <1>1, LayerStyles DEF StoragesTypeOK
  <2>2. composed.last_modified \in Nat /\ composed.last_modified <= putCount
    BY <1>1, <1>3 DEF StoragesTypeOK
  <2>3. /\ whole[under] \in {0, composed.under} \/ whole[under] > composed.last_modified
        /\ Has(StoreOf(over), over) =>
              \/ copies[StoreOf(over)][over].version = composed.over
              \/ copies[StoreOf(over)][over].version > composed.last_modified
    BY <1>1 DEF SameOrNewer
  <2> HIDE DEF under, over
  <2>4. whole'[under] = whole[under] \/ whole'[under] \in {0, putCount + 1}
    BY <1>1, <2>1 DEF StoragesTypeOK
  <2>5. whole'[under] \in {0, composed.under} \/ whole'[under] > composed.last_modified
    BY <2>2, <2>3, <2>4, <1>3
  <2>6. copies'[StoreOf(over)][over] # NoCopy =>
              \/ copies'[StoreOf(over)][over].version = composed.over
              \/ copies'[StoreOf(over)][over].version > composed.last_modified
    <3>1. CASE StoreOf(over) \in took /\ over = style
      BY <3>1, <2>1, <2>2, <1>2, <1>3, <1>7
    <3>2. CASE ~(StoreOf(over) \in took /\ over = style)
      BY <3>2, <2>1, <2>3, <1>2, <1>7 DEF Has
    <3> QED BY <3>1, <3>2
  <2> QED BY <2>5, <2>6 DEF under, over
<1>11. (UnionServesLast /\ CompositeExpiryHolds /\ LastModifiedTells)'
  BY <1>5, <1>6, <1>8, <1>9, <1>10, ComposedImplies, PTL
<1> QED BY <1>5, <1>6, <1>8, <1>9, <1>10, <1>11 DEF ComposedInv

(* The loss of a copy.                                                     *)
LEMMA LoseKeepsComposed ==
  ASSUME ComposedInv, NEW loser \in UnionLeaves \cup StyleLeaves, NEW style \in TileStyles,
         Lose(loser, style)
  PROVE  ComposedInv'
<1>1. StoragesTypeOK /\ NoneNewer /\ UnionAgrees /\ OwedIsExpired /\ SameOrNewer
  BY DEF ComposedInv
<1>2. /\ copies' \in [UnionLeaves \cup StyleLeaves -> [TileStyles -> Copies]]
      /\ \A leaf \in UnionLeaves \cup StyleLeaves, s \in TileStyles :
           copies'[leaf][s] = IF leaf = loser /\ s = style THEN NoCopy ELSE copies[leaf][s]
  <2>1. NoCopy \in Copies
    BY StoragesAssumption DEF NoCopy, Copies, Epoch
  <2> QED BY <1>1, <2>1 DEF Lose, StoragesTypeOK
<1>3. UNCHANGED <<config, composed, putCount, whole, owed>>
  BY DEF Lose
<1>4. \A s \in TileStyles : StoreOf(s) \in StyleLeaves
  BY DEF StyleLeaves, StoreOf
<1>5. StoragesTypeOK'
  BY <1>1, <1>2, <1>3 DEF StoragesTypeOK
<1>6. NoneNewer'
  BY <1>1, <1>2, <1>3, StoragesAssumption DEF NoneNewer, NoCopy, Epoch, StoragesTypeOK
<1>7. UnionAgrees' /\ OwedIsExpired'
  BY <1>1, <1>2, <1>3, <1>4 DEF UnionAgrees, OwedIsExpired, Has
<1>8. SameOrNewer'
  <2>1. composed.style \in TileStyles /\ OverStyle(composed.style) \in TileStyles
    BY <1>1, LayerStyles DEF StoragesTypeOK
  <2> QED BY <1>1, <1>2, <1>3, <1>4, <2>1 DEF SameOrNewer, Has, UnderStyle, OverStyle
<1>9. (UnionServesLast /\ CompositeExpiryHolds /\ LastModifiedTells)'
  BY <1>5, <1>6, <1>7, <1>8, ComposedImplies, PTL
<1> QED BY <1>5, <1>6, <1>7, <1>8, <1>9 DEF ComposedInv

(* compositing_storage::get.                                               *)
LEMMA GetKeepsComposed ==
  ASSUME ComposedInv, NEW style \in TileStyles, CompositeThere(style),
         composed' = CompositeHandle(style), UNCHANGED <<copies, config, putCount, whole, owed>>
  PROVE  ComposedInv'
<1>1. StoragesTypeOK /\ NoneNewer /\ UnionAgrees /\ OwedIsExpired /\ SameOrNewer /\ UnionServesLast
  BY DEF ComposedInv
<1> DEFINE under == UnderStyle(style)
           over == OverStyle(style)
<1>2. under \in TileStyles /\ over \in TileStyles
  BY <1>1, LayerStyles DEF StoragesTypeOK
<1>3. UnionGet(under).exists /\ StyleGet(over).exists
  BY DEF CompositeThere
<1>4. PICK leaf \in UnionLeaves : Has(leaf, under) /\ UnionGet(under) = LeafHandle(copies[leaf][under])
  BY <1>1, <1>2, <1>3, UnionGetIsACopy
<1>5. StoreOf(over) \in UnionLeaves \cup StyleLeaves
  BY DEF StyleLeaves, StoreOf
<1> HIDE DEF under, over
<1> DEFINE a == UnionGet(under).version
           b == StyleGet(over).version
           p == UnionGet(under).last_modified
           q == StyleGet(over).last_modified
<1>6. {a, b, p, q} \subseteq 0..putCount
  <2>1. ASSUME NEW l \in UnionLeaves \cup StyleLeaves, NEW s \in TileStyles
        PROVE  copies[l][s].version \in 0..putCount /\ copies[l][s].time \in 0..putCount
    BY <1>1, <2>1, StoragesAssumption DEF NoneNewer, StoragesTypeOK, Copies, Epoch
  <2>2. a \in 0..putCount /\ p \in 0..putCount
    BY <1>2, <1>4, <2>1 DEF LeafHandle
  <2>3. b \in 0..putCount /\ q \in 0..putCount
    BY <1>2, <1>5, <2>1 DEF StyleGet, LeafHandle
  <2> QED BY <2>2, <2>3
<1>7. UnionGet(under).expired \in BOOLEAN /\ StyleGet(over).expired \in BOOLEAN
  BY <1>1, <1>2, <1>4, <1>5 DEF StoragesTypeOK, Copies, StyleGet, LeafHandle
<1>8. composed' = Composite(style, UnionGet(under), StyleGet(over))
  BY DEF CompositeHandle, under, over
<1>9. /\ composed'.style = style /\ composed'.under = a /\ composed'.over = b
      /\ composed'.last_modified = Max({p, q})
  BY <1>8 DEF Composite
<1>10. composed'.exists \in BOOLEAN /\ composed'.expired \in BOOLEAN
       /\ composed'.settled = (whole[under] # 0)
  BY <1>7, <1>8 DEF Composite, under
<1>11. Max({p, q}) \in 0..putCount
  <2> HIDE DEF p, q
  <2>1. p \in Nat /\ q \in Nat
    BY <1>6
  <2>2. Max({p, q}) \in {p, q}
    BY <2>1, LaterOfTwo
  <2> QED BY <1>6, <2>2
<1>12. StoragesTypeOK'
  BY <1>1, <1>6, <1>9, <1>10, <1>11 DEF StoragesTypeOK
<1>13. (NoneNewer /\ UnionAgrees /\ OwedIsExpired)'
  BY <1>1 DEF NoneNewer, UnionAgrees, OwedIsExpired, Has
<1>14. SameOrNewer'
  <2> SUFFICES ASSUME composed'.settled
               PROVE  /\ whole[under] = composed'.under
                      /\ copies[StoreOf(over)][over].version = composed'.over
    BY <1>9 DEF SameOrNewer, Has, UnderStyle, OverStyle, under, over
  <2>1. whole[under] # 0
    BY <1>10
  <2> QED BY <1>1, <1>2, <1>3, <1>9, <2>1 DEF UnionServesLast, StyleGet, LeafHandle
<1>15. (UnionServesLast /\ CompositeExpiryHolds /\ LastModifiedTells)'
  BY <1>12, <1>13, <1>14, ComposedImplies, PTL
<1> QED BY <1>12, <1>13, <1>14, <1>15 DEF ComposedInv

(* compositing_storage::expire marks copies, and owes the layers only when *)
(* every storage that may serve them has been marked.                      *)
LEMMA ExpireKeepsComposed ==
  ASSUME ComposedInv, NEW style \in TileStyles, CompositeExpire(style)
  PROVE  ComposedInv'
<1>1. StoragesTypeOK /\ NoneNewer /\ UnionAgrees /\ OwedIsExpired /\ SameOrNewer
  BY DEF ComposedInv
<1> DEFINE
      under_ok == ~config.expire_under \/ \A leaf \in UnionLeaves : Has(leaf, style)
      over_ok == ~config.expire_over \/ (under_ok /\ Has(StoreOf(style), style))
      asked == (IF config.expire_under THEN UnionLeaves ELSE {})
               \cup (IF config.expire_over /\ under_ok THEN {StoreOf(style)} ELSE {})
      layers == {l \in Layers : IF l = "under" THEN config.expire_under ELSE config.expire_over}
<1>2. /\ copies' = ExpireIn(asked, style)
      /\ owed' = IF under_ok /\ over_ok THEN [owed EXCEPT ![style] = @ \cup layers] ELSE owed
      /\ UNCHANGED <<config, composed, putCount, whole>>
  BY DEF CompositeExpire, UnionExpired
<1>3. \A s \in TileStyles : StoreOf(s) \in StyleLeaves
  BY DEF StyleLeaves, StoreOf
<1>4. asked \in SUBSET (UnionLeaves \cup StyleLeaves)
  BY <1>3
<1>5. /\ under_ok /\ over_ok /\ "under" \in layers => UnionLeaves \subseteq asked
      /\ under_ok /\ over_ok /\ "over" \in layers => StoreOf(style) \in asked
      /\ layers \subseteq Layers
  BY DEF Layers
<1> HIDE DEF under_ok, over_ok, asked, layers
<1>6. /\ copies' \in [UnionLeaves \cup StyleLeaves -> [TileStyles -> Copies]]
      /\ \A leaf \in UnionLeaves \cup StyleLeaves, s \in TileStyles :
           copies'[leaf][s] =
             IF leaf \in asked /\ s = style /\ Has(leaf, s)
             THEN [version |-> copies[leaf][s].version, time |-> Epoch]
             ELSE copies[leaf][s]
  BY <1>1, <1>2, <1>4, ExpireInLeaves
<1>7. ASSUME NEW leaf \in UnionLeaves \cup StyleLeaves, NEW s \in TileStyles
      PROVE  /\ copies'[leaf][s].version = copies[leaf][s].version
             /\ Has(leaf, s)' => Has(leaf, s)
             /\ copies[leaf][s].time = Epoch => copies'[leaf][s].time = Epoch
             /\ leaf \in asked /\ s = style /\ Has(leaf, s) => copies'[leaf][s].time = Epoch
             /\ copies'[leaf][s].time \in {Epoch, copies[leaf][s].time}
  <2>1. CASE leaf \in asked /\ s = style /\ Has(leaf, s)
    <3>1. copies'[leaf][s] = [version |-> copies[leaf][s].version, time |-> Epoch]
      BY <1>6, <2>1
    <3> QED BY <3>1, <2>1
  <2>2. CASE ~(leaf \in asked /\ s = style /\ Has(leaf, s))
    <3>1. copies'[leaf][s] = copies[leaf][s]
      BY <1>6, <2>2
    <3> QED BY <3>1, <2>2 DEF Has
  <2> QED BY <2>1, <2>2
<1>8. StoragesTypeOK'
  <2>1. owed' \in [TileStyles -> SUBSET Layers]
    BY <1>1, <1>2, <1>5 DEF StoragesTypeOK
  <2> QED BY <1>1, <1>2, <1>6, <2>1 DEF StoragesTypeOK
<1>9. NoneNewer' /\ UnionAgrees'
  BY <1>1, <1>2, <1>7 DEF NoneNewer, UnionAgrees
<1>10. OwedIsExpired'
  <2> SUFFICES ASSUME NEW s \in TileStyles
               PROVE  /\ "under" \in owed'[s] =>
                           \A leaf \in UnionLeaves : Has(leaf, s)' => copies'[leaf][s].time = Epoch
                      /\ "over" \in owed'[s] =>
                           (Has(StoreOf(s), s)' => copies'[StoreOf(s)][s].time = Epoch)
    BY DEF OwedIsExpired
  <2>1. ASSUME NEW layer, layer \in owed'[s]
        PROVE  layer \in owed[s] \/ (s = style /\ under_ok /\ over_ok /\ layer \in layers)
    BY <1>1, <1>2, <2>1 DEF StoragesTypeOK
  <2>2. ASSUME "under" \in owed'[s], NEW leaf \in UnionLeaves, Has(leaf, s)'
        PROVE  copies'[leaf][s].time = Epoch
    BY <1>1, <1>5, <1>7, <2>1, <2>2 DEF OwedIsExpired
  <2>3. ASSUME "over" \in owed'[s], Has(StoreOf(s), s)'
        PROVE  copies'[StoreOf(s)][s].time = Epoch
    BY <1>1, <1>3, <1>5, <1>7, <2>1, <2>3 DEF OwedIsExpired
  <2> QED BY <2>2, <2>3
<1>11. SameOrNewer'
  <2>1. OverStyle(composed.style) \in TileStyles
    BY <1>1, LayerStyles DEF StoragesTypeOK
  <2>2. StoreOf(OverStyle(composed.style)) \in UnionLeaves \cup StyleLeaves
    BY <2>1, <1>3
  <2>3. UnderStyle(composed.style)' = UnderStyle(composed.style)
        /\ OverStyle(composed.style)' = OverStyle(composed.style)
    BY <1>2 DEF UnderStyle, OverStyle
  <2> QED BY <1>1, <1>2, <1>7, <2>1, <2>2, <2>3 DEF SameOrNewer
<1>12. (UnionServesLast /\ CompositeExpiryHolds /\ LastModifiedTells)'
  BY <1>8, <1>9, <1>10, <1>11, ComposedImplies, PTL
<1> QED BY <1>8, <1>9, <1>10, <1>11, <1>12 DEF ComposedInv

(* Every call keeps the storages in step.                                  *)
LEMMA ComposedInvKept == ComposedInv /\ [StoragesNext]_storageVars => ComposedInv'
<1> SUFFICES ASSUME ComposedInv, [StoragesNext]_storageVars
             PROVE  ComposedInv'
  OBVIOUS
<1>1. ASSUME NEW style \in TileStyles, NEW took \in SUBSET UnionLeaves, UnionPut(style, took)
      PROVE  ComposedInv'
  BY <1>1, PutKeepsComposed DEF UnionPut
<1>2. ASSUME NEW style \in TileStyles, NEW took \in SUBSET StyleLeaves, StylePut(style, took)
      PROVE  ComposedInv'
  <2> DEFINE taken == took \cap {StoreOf(style)}
  <2>1. taken \subseteq {StoreOf(style)}
    OBVIOUS
  <2>2. /\ putCount < MaxStoragePuts /\ putCount' = putCount + 1 /\ copies' = PutInto(taken, style)
        /\ owed' = [owed EXCEPT ![style] = @ \ {"over"}] /\ UNCHANGED <<config, composed, whole>>
    BY <1>2 DEF StylePut
  <2> HIDE DEF taken
  <2> QED BY <2>1, <2>2, PutKeepsComposed
<1>3. ASSUME NEW style \in TileStyles, NEW leaf \in UnionLeaves \cup StyleLeaves, Lose(leaf, style)
      PROVE  ComposedInv'
  BY <1>3, LoseKeepsComposed
<1>4. ASSUME NEW style \in TileStyles, NEW format \in TileFormats, NEW readable \in BOOLEAN,
             CompositeGet(style, format, readable)
      PROVE  ComposedInv'
  BY <1>4, GetKeepsComposed DEF CompositeGet
<1>5. ASSUME NEW style \in TileStyles, CompositeExpire(style)
      PROVE  ComposedInv'
  BY <1>5, ExpireKeepsComposed
<1>6. CASE UNCHANGED storageVars
  <2>1. (StoragesTypeOK /\ NoneNewer /\ UnionAgrees /\ OwedIsExpired /\ SameOrNewer)'
    BY <1>6 DEF storageVars, ComposedInv, StoragesTypeOK, NoneNewer, UnionAgrees, OwedIsExpired,
                SameOrNewer, Has, UnderStyle, OverStyle
  <2>2. (UnionServesLast /\ CompositeExpiryHolds /\ LastModifiedTells)'
    BY <2>1, ComposedImplies, PTL
  <2> QED BY <2>1, <2>2 DEF ComposedInv
<1> QED BY <1>1, <1>2, <1>3, <1>4, <1>5, <1>6 DEF StoragesNext

(* The inductive invariant holds throughout.                               *)
LEMMA ComposedInvariance == StoragesSpec => []ComposedInv
BY ComposedInitInv, ComposedInvKept, PTL DEF StoragesSpec

(* After a put_meta of union_storage that returned true the union serves   *)
(* that version or nothing, whatever its storages lose, until the next.    *)
THEOREM UnionAlwaysServesLast == StoragesSpec => []UnionServesLast
<1>1. ComposedInv => UnionServesLast
  BY DEF ComposedInv
<1> QED BY ComposedInvariance, <1>1, PTL

(* An expire of compositing_storage that returned true holds until every   *)
(* layer it expired is put again, and last_modified tells a composite that *)
(* is not expired from every earlier one that was made of other layers.    *)
THEOREM CompositesAreHonest == StoragesSpec => [](CompositeExpiryHolds /\ LastModifiedTells)
<1>1. ComposedInv => CompositeExpiryHolds /\ LastModifiedTells
  BY DEF ComposedInv
<1> QED BY ComposedInvariance, <1>1, PTL

-----------------------------------------------------------------------------
(* How storages are made from a configuration *)

\* Entries with dotted keys of one level, as an INI section has them, and the
\* same entries with a level for each name.
IsKey(p) == p # <<>> /\ \E U : p \in Seq(U)
IsDotted(e) == \E p, v : IsKey(p) /\ e = Entry(<<p>>, v)
Dotted(entries) == \A e \in entries : IsDotted(e)
LevelKey(p) == [i \in 1 .. Len(p) |-> <<p[i]>>]
AsLevels(entries) == {Entry(LevelKey(e.key[1]), e.value) : e \in entries}
IsForm(conf, entries) == conf = entries \/ conf = AsLevels(entries)
After(entries, name) ==
  {Entry(<<Tail(e.key[1])>>, e.value) : e \in {e \in entries : Len(e.key[1]) > 1 /\ e.key[1][1] = name}}

LEMMA LevelKeyIs ==
  ASSUME NEW p, IsKey(p)
  PROVE  /\ Len(p) \in Nat \ {0} /\ Len(LevelKey(p)) = Len(p) /\ IsKey(LevelKey(p))
         /\ \A i \in 1 .. Len(p) : LevelKey(p)[i] = <<p[i]>>
         /\ \A n : LevelKey(p)[1] = <<n>> <=> p[1] = n
         /\ \A n : LevelKey(p) = <<<<n>>>> <=> p = <<n>>
<1>u. PICK U : p \in Seq(U) BY DEF IsKey
<1> DEFINE l == Len(p)
           k == LevelKey(p)
           V == Seq(U)
<1>1. l \in Nat \ {0} BY <1>u DEF IsKey
<1>2. k = [i \in 1 .. l |-> <<p[i]>>] BY DEF LevelKey
<1>3. \A i \in 1 .. l : p[i] \in U /\ <<p[i]>> \in V BY <1>u
<1> HIDE DEF l, k, V
<1>4. k \in [1 .. l -> V] BY <1>2, <1>3
<1>5. k \in Seq(V) /\ Len(k) = l BY <1>1, <1>4
<1>6. \A i \in 1 .. l : k[i] = <<p[i]>> BY <1>2
<1>7. 1 \in 1 .. l BY <1>1
<1>8. ASSUME NEW n PROVE k[1] = <<n>> <=> p[1] = n
  <2>1. k[1] = <<p[1]>> BY <1>6, <1>7
  <2> QED BY <2>1
<1>9. ASSUME NEW n PROVE k = <<<<n>>>> <=> p = <<n>>
  <2>1. ASSUME k = <<<<n>>>> PROVE p = <<n>>
    <3>1. l = 1
      <4>1. Len(<<<<n>>>>) = 1 OBVIOUS
      <4> QED BY <1>5, <2>1, <4>1
    <3>2. k[1] = <<n>> BY <2>1
    <3>3. p[1] = n BY <1>8, <3>2
    <3>4. Len(p) = 1 BY <3>1 DEF l
    <3> QED BY <1>u, <3>3, <3>4
  <2>2. ASSUME p = <<n>> PROVE k = <<<<n>>>>
    <3>1. Len(p) = 1 /\ p[1] = n BY <2>2
    <3>2. l = 1 BY <3>1 DEF l
    <3>3. k[1] = <<n>> BY <1>8, <3>1
    <3>4. Len(k) = 1 BY <1>5, <3>2
    <3> QED BY <1>5, <3>3, <3>4
  <2> QED BY <2>1, <2>2
<1>10. IsKey(k) BY <1>1, <1>5 DEF IsKey
<1> QED BY <1>1, <1>5, <1>6, <1>8, <1>9, <1>10 DEF l, k

LEMMA EntryIs ==
  ASSUME NEW k, NEW v
  PROVE  Entry(k, v).key = k /\ Entry(k, v).value = v
BY DEF Entry

\* What a creator finds under a key of its own level.
LEMMA LookupIs ==
  ASSUME NEW E, Dotted(E), NEW conf, IsForm(conf, E), NEW key
  PROVE  Lookup(conf, key) = {e.value : e \in {e \in E : e.key[1] = <<key>>}}
<1> DEFINE R == {e.value : e \in {e \in E : e.key[1] = <<key>>}}
<1>1. ASSUME NEW e \in E
      PROVE  (e.key = <<<<key>>>> <=> e.key[1] = <<key>>)
             /\ (LevelKey(e.key[1]) = <<<<key>>>> <=> e.key[1] = <<key>>)
  <2>1. PICK p, v : IsKey(p) /\ e = Entry(<<p>>, v) BY DEF Dotted, IsDotted
  <2>2. e.key = <<p>> /\ e.key[1] = p BY <2>1, EntryIs
  <2>3. LevelKey(p) = <<<<key>>>> <=> p = <<key>> BY <2>1, LevelKeyIs
  <2>4. <<p>> = <<<<key>>>> <=> p = <<key>> OBVIOUS
  <2> QED BY <2>2, <2>3, <2>4
<1>2. CASE conf = E BY <1>1, <1>2 DEF Lookup
<1>3. CASE conf = AsLevels(E)
  <2> DEFINE g(e) == Entry(LevelKey(e.key[1]), e.value)
  <2>1. conf = {g(e) : e \in E} BY <1>3 DEF AsLevels
  <2>2. \A e \in E : g(e).key = LevelKey(e.key[1]) /\ g(e).value = e.value BY EntryIs
  <2> HIDE DEF g
  <2>3. \A e \in E : g(e).key = <<<<key>>>> <=> e.key[1] = <<key>> BY <1>1, <2>2
  <2>4. Lookup(conf, key) = {c.value : c \in {c \in conf : c.key = <<<<key>>>>}} BY DEF Lookup
  <2>5. ASSUME NEW x \in Lookup(conf, key) PROVE x \in R
    <3>1. PICK c \in conf : c.key = <<<<key>>>> /\ x = c.value BY <2>4
    <3>2. PICK e \in E : c = g(e) BY <2>1
    <3> QED BY <2>2, <2>3, <3>1, <3>2
  <2>6. ASSUME NEW e \in E, e.key[1] = <<key>> PROVE e.value \in Lookup(conf, key)
    <3>1. g(e) \in conf /\ g(e).key = <<<<key>>>> /\ g(e).value = e.value BY <2>1, <2>2, <2>3, <2>6
    <3> QED BY <2>4, <3>1
  <2>7. Lookup(conf, key) = R BY <2>5, <2>6
  <2> QED BY <2>7
<1> QED BY <1>2, <1>3 DEF IsForm

\* The keys after the first name, whichever form they have.
LEMMA TailOfKey ==
  ASSUME NEW p, IsKey(p), Len(p) > 1
  PROVE  /\ IsKey(Tail(p)) /\ Len(Tail(p)) = Len(p) - 1 /\ Len(Tail(p)) \in Nat
         /\ \A i \in 1 .. Len(p) - 1 : Tail(p)[i] = p[i + 1]
<1>1. PICK U : p \in Seq(U) /\ p # <<>> BY DEF IsKey
<1>2. Tail(p) \in Seq(U) /\ Len(Tail(p)) = Len(p) - 1 BY <1>1
<1>3. \A i \in 1 .. Len(p) - 1 : Tail(p)[i] = p[i + 1] BY <1>1
<1>4. Tail(p) # <<>>
  <2>1. Len(<<>>) = 0 OBVIOUS
  <2>2. Len(p) \in Nat BY <1>1
  <2>3. Len(Tail(p)) # 0 BY <1>2, <2>2
  <2> HIDE <1>1, <1>2
  <2> QED BY <2>1, <2>3
<1>5. Len(Tail(p)) \in Nat BY <1>2
<1> QED BY <1>2, <1>3, <1>4, <1>5 DEF IsKey

LEMMA TailOfLevels ==
  ASSUME NEW p, IsKey(p), Len(p) > 1
  PROVE  /\ [i \in 1 .. (Len(p) - 1) |-> <<p[i + 1]>>] = LevelKey(Tail(p))
         /\ Tail(LevelKey(p)) = LevelKey(Tail(p))
<1> DEFINE q == Tail(p)
           l == Len(p) - 1
           k == LevelKey(p)
<1>1. IsKey(q) /\ Len(q) = l /\ l \in Nat /\ \A i \in 1 .. l : q[i] = p[i + 1] BY TailOfKey
<1>3. Len(k) = Len(p) /\ IsKey(k) /\ \A i \in 1 .. Len(p) : k[i] = <<p[i]>> BY LevelKeyIs
<1>4. LevelKey(q) = [i \in 1 .. l |-> <<q[i]>>] BY <1>1 DEF LevelKey
<1>5. [i \in 1 .. l |-> <<p[i + 1]>>] = LevelKey(q)
  <2> HIDE DEF q, l
  <2> QED BY <1>1, <1>4
<1>6. IsKey(LevelKey(q)) /\ Len(LevelKey(q)) = l /\ \A i \in 1 .. l : LevelKey(q)[i] = <<q[i]>>
  <2> HIDE DEF q
  <2> QED BY <1>1, LevelKeyIs
<1>7. Tail(k) = LevelKey(q)
  <2>1. Len(k) > 1 BY <1>3
  <2> HIDE DEF k
  <2>2. IsKey(Tail(k)) /\ Len(Tail(k)) = Len(k) - 1 /\ \A i \in 1 .. Len(k) - 1 : Tail(k)[i] = k[i + 1]
    BY <1>3, <2>1, TailOfKey
  <2>3. Len(k) - 1 = l /\ \A i \in 1 .. l : i + 1 \in 1 .. Len(p) BY <1>1, <1>3
  <2>4. \A i \in 1 .. l : Tail(k)[i] = LevelKey(q)[i]
    <3> HIDE DEF l, q
    <3> QED BY <1>1, <1>3, <1>6, <2>2, <2>3
  <2> HIDE DEF l, q
  <2>5. PICK U : Tail(k) \in Seq(U) BY <2>2 DEF IsKey
  <2>6. PICK V : LevelKey(q) \in Seq(V) BY <1>6 DEF IsKey
  <2> QED BY <1>6, <2>2, <2>3, <2>4, <2>5, <2>6
<1> QED BY <1>5, <1>7

\* The part of a section that a storage inside it is made from.
LEMMA SubTreeIs ==
  ASSUME NEW E, Dotted(E), NEW conf, IsForm(conf, E), NEW name
  PROVE  SubTree(conf, name) = AsLevels(After(E, name)) /\ Dotted(After(E, name))
<1> DEFINE S == {e \in E : Len(e.key[1]) > 1 /\ e.key[1][1] = name}
           A == {Entry(LevelKey(Tail(e.key[1])), e.value) : e \in S}
           c1 == {c \in conf : Len(c.key) > 1 /\ c.key[1] = <<name>>}
           c2 == {c \in conf : Len(c.key) = 1 /\ Len(c.key[1]) > 1 /\ c.key[1][1] = name}
           P(c) == Entry(Tail(c.key), c.value)
           Q(c) == Entry([i \in 1 .. (Len(c.key[1]) - 1) |-> <<c.key[1][i + 1]>>], c.value)
           R(e) == Entry(LevelKey(Tail(e.key[1])), e.value)
<1>1. SubTree(conf, name) = {P(c) : c \in c1} \cup {Q(c) : c \in c2} BY DEF SubTree
<1>2. AsLevels(After(E, name)) = {R(e) : e \in S}
  <2> DEFINE h(e) == Entry(<<Tail(e.key[1])>>, e.value)
  <2>1. After(E, name) = {h(e) : e \in S} BY DEF After
  <2>2. \A e \in S : h(e).key[1] = Tail(e.key[1]) /\ h(e).value = e.value
    <3> TAKE e \in S
    <3>1. h(e).key = <<Tail(e.key[1])>> /\ h(e).value = e.value BY DEF Entry
    <3> HIDE DEF h
    <3> QED BY <3>1
  <2>3. AsLevels(After(E, name)) = {Entry(LevelKey(a.key[1]), a.value) : a \in After(E, name)} BY DEF AsLevels
  <2>4. \A e \in S : Entry(LevelKey(h(e).key[1]), h(e).value) = R(e) BY <2>2
  <2> HIDE DEF h, R, S
  <2> QED BY <2>1, <2>3, <2>4
<1>3. Dotted(After(E, name))
  <2>1. SUFFICES ASSUME NEW a \in After(E, name)
                 PROVE IsDotted(a)
    BY DEF Dotted
  <2>2. PICK e \in E : Len(e.key[1]) > 1 /\ a = Entry(<<Tail(e.key[1])>>, e.value) BY DEF After
  <2>3. PICK p, v : IsKey(p) /\ e = Entry(<<p>>, v) BY DEF Dotted, IsDotted
  <2>4. e.key[1] = p BY <2>3, EntryIs
  <2>5. IsKey(Tail(p)) BY <2>2, <2>3, <2>4, TailOfKey
  <2> QED BY <2>2, <2>4, <2>5 DEF IsDotted
<1>4. ASSUME NEW e \in E
      PROVE  \E p : IsKey(p) /\ e.key = <<p>> /\ e.key[1] = p
  <2>1. PICK p, v : IsKey(p) /\ e = Entry(<<p>>, v) BY DEF Dotted, IsDotted
  <2> QED BY <2>1, EntryIs
<1>5. CASE conf = E
  <2>1. c1 = {}
    <3>1. \A e \in E : ~(Len(e.key) > 1)
      <4> TAKE e \in E
      <4>1. PICK p : e.key = <<p>> BY <1>4
      <4>2. Len(<<p>>) = 1 OBVIOUS
      <4> QED BY <4>1, <4>2
    <3> QED BY <1>5, <3>1
  <2>2. c2 = S
    <3>1. \A e \in E : Len(e.key) = 1
      <4> TAKE e \in E
      <4>1. PICK p : e.key = <<p>> BY <1>4
      <4>2. Len(<<p>>) = 1 OBVIOUS
      <4> QED BY <4>1, <4>2
    <3> QED BY <1>5, <3>1
  <2>3. ASSUME NEW e \in S PROVE Q(e) = R(e)
    <3>1. PICK p : IsKey(p) /\ e.key[1] = p BY <1>4
    <3>2. [i \in 1 .. (Len(p) - 1) |-> <<p[i + 1]>>] = LevelKey(Tail(p)) BY <3>1, TailOfLevels
    <3> QED BY <3>1, <3>2
  <2> HIDE DEF P, Q, R, S, c1, c2
  <2>4. SubTree(conf, name) = {R(e) : e \in S} BY <1>1, <2>1, <2>2, <2>3
  <2> QED BY <1>2, <1>3, <2>4
<1>6. CASE conf = AsLevels(E)
  <2> DEFINE g(e) == Entry(LevelKey(e.key[1]), e.value)
  <2>1. conf = {g(e) : e \in E} BY <1>6 DEF AsLevels
  <2>2. \A e \in E : g(e).key = LevelKey(e.key[1]) /\ g(e).value = e.value BY EntryIs
  <2>3. ASSUME NEW e \in E
        PROVE  /\ (g(e) \in c1 <=> e \in S)
               /\ g(e) \notin c2
               /\ (e \in S => P(g(e)) = R(e))
    <3>1. PICK p : IsKey(p) /\ e.key[1] = p BY <1>4
    <3>2. /\ Len(p) \in Nat \ {0} /\ Len(LevelKey(p)) = Len(p)
          /\ \A i \in 1 .. Len(p) : LevelKey(p)[i] = <<p[i]>>
          /\ (LevelKey(p)[1] = <<name>> <=> p[1] = name)
      BY <3>1, LevelKeyIs
    <3>3. g(e).key = LevelKey(p) /\ g(e).value = e.value /\ g(e) \in conf BY <2>1, <2>2, <3>1
    <3> DEFINE c == g(e)
    <3> HIDE DEF g, c
    <3>4. c \in c1 <=> e \in S
      <4>1. c.key = LevelKey(p) /\ c \in conf BY <3>3 DEF c
      <4>2. c \in c1 <=> Len(p) > 1 /\ p[1] = name BY <3>2, <4>1
      <4> QED BY <3>1, <4>2
    <3>5. c \notin c2
      <4>1. c.key = LevelKey(p) BY <3>3 DEF c
      <4>2. 1 \in 1 .. Len(p) BY <3>2
      <4>3. c.key[1] = <<p[1]>> BY <3>2, <4>1, <4>2
      <4>4. Len(<<p[1]>>) = 1 OBVIOUS
      <4>5. ~(Len(c.key[1]) > 1) BY <4>3, <4>4
      <4> QED BY <4>5
    <3>6. ASSUME e \in S PROVE P(c) = R(e)
      <4>1. Len(p) > 1 BY <3>1, <3>6
      <4>2. Tail(LevelKey(p)) = LevelKey(Tail(p)) BY <3>1, <4>1, TailOfLevels
      <4>3. c.key = LevelKey(p) /\ c.value = e.value BY <3>3 DEF c
      <4> QED BY <3>1, <4>2, <4>3
    <3> QED BY <3>4, <3>5, <3>6 DEF c
  <2> HIDE DEF P, Q, R, g
  <2>4. c2 = {}
    <3>1. \A c \in c2 : c \in conf OBVIOUS
    <3> HIDE DEF c2, S, c1
    <3> QED BY <2>1, <2>3, <3>1
  <2>5. {P(c) : c \in c1} = {R(e) : e \in S}
    <3>1. (\A c \in c1 : c \in conf) /\ (\A e \in S : e \in E) OBVIOUS
    <3> HIDE DEF c2, S, c1
    <3> QED BY <2>1, <2>3, <3>1
  <2> HIDE DEF c1, c2, S
  <2>6. SubTree(conf, name) = {R(e) : e \in S} BY <1>1, <2>4, <2>5
  <2> QED BY <1>2, <1>3, <2>6
<1> QED BY <1>5, <1>6 DEF IsForm

\* A section: the keys of a storage itself, and those of the storages inside.
Part(tree, below) == Own(tree) \cup Under(tree, below)

LEMMA OwnIs ==
  ASSUME NEW tree
  PROVE  /\ Dotted(Own(tree)) /\ \A e \in Own(tree) : Len(e.key[1]) = 1
<1>1. ASSUME NEW e \in Own(tree) PROVE \E k, v : e = Entry(<<<<k>>>>, v) BY DEF Own
<1>2. ASSUME NEW k PROVE IsKey(<<k>>) /\ Len(<<k>>) = 1
  <2>1. <<k>> \in Seq({k}) /\ Len(<<k>>) = 1 OBVIOUS
  <2>2. <<k>> # <<>> OBVIOUS
  <2> QED BY <2>1, <2>2 DEF IsKey
<1>3. ASSUME NEW e \in Own(tree)
      PROVE  IsDotted(e) /\ Len(e.key[1]) = 1
  <2>1. PICK k, v : e = Entry(<<<<k>>>>, v) BY <1>1
  <2> DEFINE p == <<k>>
  <2>2. IsKey(p) /\ Len(p) = 1 BY <1>2
  <2>3. e = Entry(<<p>>, v) BY <2>1
  <2> HIDE DEF p
  <2>4. e.key = <<p>> BY <2>3, EntryIs
  <2>5. e.key[1] = p BY <2>4
  <2> QED BY <2>2, <2>3, <2>5 DEF IsDotted
<1> QED BY <1>3 DEF Dotted

\* A name before a key.
LEMMA NameAndKey ==
  ASSUME NEW n, NEW q, IsKey(q)
  PROVE  /\ IsKey(<<n>> \o q) /\ Len(<<n>> \o q) > 1 /\ (<<n>> \o q)[1] = n /\ Tail(<<n>> \o q) = q
<1>1. PICK U : q \in Seq(U) /\ q # <<>> BY DEF IsKey
<1> DEFINE V == U \cup {n}
           s == <<n>>
           w == s \o q
<1>2. s \in Seq(V) /\ Len(s) = 1 /\ s[1] = n OBVIOUS
<1>3. q \in Seq(V) /\ Len(q) \in Nat /\ Len(q) # 0 BY <1>1
<1> HIDE DEF V, s
<1>4. /\ w \in Seq(V) /\ Len(w) = 1 + Len(q) /\ w[1] = n /\ \A i \in 1 .. Len(q) : w[1 + i] = q[i]
  <2>1. /\ s \o q \in Seq(V) /\ Len(s \o q) = Len(s) + Len(q)
        /\ \A i \in 1 .. Len(s) : (s \o q)[i] = s[i]
        /\ \A i \in 1 .. Len(q) : (s \o q)[Len(s) + i] = q[i]
    BY <1>2, <1>3, ConcatAt
  <2>2. 1 \in 1 .. Len(s) BY <1>2
  <2> QED BY <1>2, <2>1, <2>2
<1> HIDE DEF w
<1>5. Len(w) > 1 /\ Len(w) \in Nat BY <1>3, <1>4
<1>6. w # <<>>
  <2>1. Len(<<>>) = 0 OBVIOUS
  <2> QED BY <1>5, <2>1
<1>7. IsKey(w) BY <1>4, <1>6 DEF IsKey
<1>8. Tail(w) = q
  <2>1. IsKey(Tail(w)) /\ Len(Tail(w)) = Len(w) - 1 /\ \A i \in 1 .. Len(w) - 1 : Tail(w)[i] = w[i + 1]
    BY <1>5, <1>7, TailOfKey
  <2>2. PICK W : Tail(w) \in Seq(W) BY <2>1 DEF IsKey
  <2>3. Len(w) - 1 = Len(q) BY <1>3, <1>4
  <2>4. \A i \in 1 .. Len(q) : Tail(w)[i] = q[i]
    <3> TAKE i \in 1 .. Len(q)
    <3>1. i + 1 = 1 + i /\ i \in 1 .. Len(w) - 1 BY <2>3
    <3> QED BY <1>4, <2>1, <3>1
  <2> QED BY <1>1, <2>1, <2>2, <2>3, <2>4
<1> QED BY <1>4, <1>5, <1>7, <1>8 DEF w, s

Prefixed(name, entries) == {Entry(<<<<name>> \o e.key[1]>>, e.value) : e \in entries}

LEMMA PrefixedIs ==
  ASSUME NEW name, NEW E, Dotted(E), NEW d \in Prefixed(name, E)
  PROVE  /\ IsDotted(d)
         /\ Len(d.key[1]) > 1 /\ d.key[1][1] = name /\ Entry(<<Tail(d.key[1])>>, d.value) \in E
<1>1. PICK e \in E : d = Entry(<<<<name>> \o e.key[1]>>, e.value) BY DEF Prefixed
<1>2. PICK p, v : IsKey(p) /\ e = Entry(<<p>>, v) BY DEF Dotted, IsDotted
<1>3. e.key[1] = p /\ e.value = v
  <2>1. e.key = <<p>> /\ e.value = v BY <1>2, EntryIs
  <2> QED BY <2>1
<1> DEFINE w == <<name>> \o p
<1>4. IsKey(w) /\ Len(w) > 1 /\ w[1] = name /\ Tail(w) = p BY <1>2, NameAndKey
<1>5. d = Entry(<<w>>, v) BY <1>1, <1>3
<1> HIDE DEF w
<1>6. d.key = <<w>> /\ d.value = v BY <1>5, EntryIs
<1>7. d.key[1] = w BY <1>6
<1>8. IsDotted(d) BY <1>4, <1>5 DEF IsDotted
<1> QED BY <1>2, <1>4, <1>6, <1>7, <1>8

LEMMA UnderIs ==
  ASSUME NEW tree, NEW below, \A i \in DOMAIN tree.names : Dotted(below[i])
  PROVE  /\ Under(tree, below) = UNION {Prefixed(tree.names[i], below[i]) : i \in DOMAIN tree.names}
         /\ Dotted(Under(tree, below)) /\ \A e \in Under(tree, below) : Len(e.key[1]) > 1
<1>1. Under(tree, below) = UNION {Prefixed(tree.names[i], below[i]) : i \in DOMAIN tree.names}
  BY DEF Under, Prefixed
<1>2. ASSUME NEW e \in Under(tree, below)
      PROVE  IsDotted(e) /\ Len(e.key[1]) > 1
  <2>1. PICK i \in DOMAIN tree.names : e \in Prefixed(tree.names[i], below[i]) BY <1>1
  <2> DEFINE B == below[i]
             n == tree.names[i]
  <2>2. Dotted(B) /\ e \in Prefixed(n, B) BY <2>1
  <2> HIDE DEF B, n
  <2>3. IsDotted(e) BY <2>2, PrefixedIs
  <2>4. Len(e.key[1]) > 1 BY <2>2, PrefixedIs
  <2> QED BY <2>3, <2>4
<1> QED BY <1>1, <1>2 DEF Dotted

LEMMA PartIs ==
  ASSUME NEW tree, NEW below, \A i \in DOMAIN tree.names : Dotted(below[i])
  PROVE  Dotted(Part(tree, below))
<1>1. Dotted(Own(tree)) /\ Dotted(Under(tree, below)) BY OwnIs, UnderIs
<1> QED BY <1>1 DEF Dotted, Part

\* What a storage inside was written as comes out of the section again: a name
\* given twice stands for the same storage.
LEMMA AfterPart ==
  ASSUME NEW tree, NEW below, \A i \in DOMAIN tree.names : Dotted(below[i]),
         NEW j \in DOMAIN tree.names,
         \A i \in DOMAIN tree.names : tree.names[i] = tree.names[j] => below[i] = below[j]
  PROVE  After(Part(tree, below), tree.names[j]) = below[j]
<1> DEFINE n == tree.names[j]
           E == Part(tree, below)
           A == After(E, n)
<1>1. A = {Entry(<<Tail(e.key[1])>>, e.value) : e \in {e \in E : Len(e.key[1]) > 1 /\ e.key[1][1] = n}}
  BY DEF After
<1>2. ASSUME NEW a \in A PROVE a \in below[j]
  <2>1. PICK e \in E : Len(e.key[1]) > 1 /\ e.key[1][1] = n /\ a = Entry(<<Tail(e.key[1])>>, e.value) BY <1>1
  <2>2. e \notin Own(tree)
    <3>1. \A o \in Own(tree) : Len(o.key[1]) = 1 BY OwnIs
    <3>2. ~(1 > 1) OBVIOUS
    <3> HIDE DEF E, n
    <3> QED BY <2>1, <3>1, <3>2
  <2>3. PICK i \in DOMAIN tree.names : e \in Prefixed(tree.names[i], below[i]) BY <2>2, UnderIs DEF Part
  <2>4. e.key[1][1] = tree.names[i] /\ Entry(<<Tail(e.key[1])>>, e.value) \in below[i] BY <2>3, PrefixedIs
  <2>5. below[i] = below[j] BY <2>1, <2>4
  <2> QED BY <2>1, <2>4, <2>5
<1>3. ASSUME NEW a \in below[j] PROVE a \in A
  <2>1. PICK p, v : IsKey(p) /\ a = Entry(<<p>>, v) BY DEF Dotted, IsDotted
  <2>2. a.key[1] = p /\ a.value = v
    <3>1. a.key = <<p>> /\ a.value = v BY <2>1, EntryIs
    <3> QED BY <3>1
  <2> DEFINE w == <<n>> \o p
             d == Entry(<<w>>, v)
  <2>3. d \in Prefixed(n, below[j]) BY <2>2 DEF Prefixed
  <2>4. d \in E BY <2>3, UnderIs DEF Part
  <2>5. Len(w) > 1 /\ w[1] = n /\ Tail(w) = p BY <2>1, NameAndKey
  <2>6. d.key[1] = w /\ d.value = v
    <3>1. d.key = <<w>> /\ d.value = v BY EntryIs
    <3> HIDE DEF d
    <3> QED BY <3>1
  <2> HIDE DEF d, w, E, n
  <2>7. Entry(<<Tail(d.key[1])>>, d.value) \in A BY <1>1, <2>4, <2>5, <2>6
  <2> QED BY <2>1, <2>5, <2>6, <2>7
<1> QED BY <1>2, <1>3

LEMMA LookupPart ==
  ASSUME NEW tree, NEW below, \A i \in DOMAIN tree.names : Dotted(below[i]),
         NEW conf, IsForm(conf, Part(tree, below)), NEW key
  PROVE  Lookup(conf, key) = {e.value : e \in {e \in Own(tree) : e.key[1] = <<key>>}}
<1> DEFINE E == Part(tree, below)
<1>1. Lookup(conf, key) = {e.value : e \in {e \in E : e.key[1] = <<key>>}} BY PartIs, LookupIs
<1>2. \A e \in Under(tree, below) : e.key[1] # <<key>>
  <2> TAKE e \in Under(tree, below)
  <2>1. Len(e.key[1]) > 1 BY UnderIs
  <2>2. Len(<<key>>) = 1 /\ ~(1 > 1) OBVIOUS
  <2> QED BY <2>1, <2>2
<1>3. {e \in E : e.key[1] = <<key>>} = {e \in Own(tree) : e.key[1] = <<key>>} BY <1>2 DEF Part
<1> QED BY <1>1, <1>3

-----------------------------------------------------------------------------
(* The factory *)

Names == ChildNames \cup {"default", "under", "over"}

LEMMA FixedNamesAre ==
  ASSUME NEW t
  PROVE  FixedNames(t) \in Seq(Names)
<1>1. CASE t = "per_style"
  <2>1. FixedNames(t) = <<"default">> BY <1>1 DEF FixedNames
  <2>2. "default" \in Names BY DEF Names
  <2> QED BY <2>1, <2>2
<1>2. CASE t = "compositing"
  <2>1. FixedNames(t) = <<"under", "over">> BY <1>2 DEF FixedNames
  <2>2. "under" \in Names /\ "over" \in Names BY DEF Names
  <2> QED BY <2>1, <2>2
<1>3. CASE t # "per_style" /\ t # "compositing"
  <2>1. FixedNames(t) = <<>> BY <1>3 DEF FixedNames
  <2> QED BY <2>1
<1> QED BY <1>1, <1>2, <1>3

LEMMA ChosenNamesAre ==
  ASSUME NEW t, NEW n \in ChosenNames(t)
  PROVE  n \in Seq(Names)
<1>1. CASE t = "union"
  <2>1. PICK a \in ChildNames, b \in ChildNames : n = <<a, b>> BY <1>1 DEF ChosenNames
  <2>2. a \in Names /\ b \in Names BY DEF Names
  <2> QED BY <2>1, <2>2
<1>2. CASE t = "per_style"
  <2>1. PICK a \in ChildNames : n = <<a>> BY <1>2 DEF ChosenNames
  <2>2. a \in Names BY DEF Names
  <2> QED BY <2>1, <2>2
<1>3. CASE t = "expiry_overlay"
  <2>1. PICK a \in ChildNames : n = <<a>> BY <1>3 DEF ChosenNames
  <2>2. a \in Names BY DEF Names
  <2> QED BY <2>1, <2>2
<1>4. CASE t # "union" /\ t # "per_style" /\ t # "expiry_overlay"
  <2>1. n = <<>> BY <1>4 DEF ChosenNames
  <2> QED BY <2>1
<1> QED BY <1>1, <1>2, <1>3, <1>4

\* The storages a section may describe: one without others inside, or one of the
\* four types with a storage for each of its names.
IsInner(tree) ==
  /\ tree.type \in InnerTypes /\ WellNamed(tree) /\ DOMAIN tree.inside = DOMAIN tree.names
  /\ tree = [type |-> tree.type, names |-> tree.names, inside |-> tree.inside]
  /\ tree.inside = [i \in DOMAIN tree.names |-> tree.inside[i]]
  /\ \A i, j \in DOMAIN tree.names : tree.names[i] = tree.names[j] => tree.inside[i] = tree.inside[j]
IsTree(tree) == tree \in Leaves \/ IsInner(tree)

LEMMA LeafIs ==
  ASSUME NEW tree \in Leaves
  PROVE  /\ tree = Leaf(tree.type) /\ tree.type \in LeafTypes \cup {"none"} /\ tree.type \notin InnerTypes
         /\ tree.names = <<>> /\ DOMAIN tree.names = {} /\ tree.inside = <<>> /\ DOMAIN tree.inside = {}
<1>1. PICK t \in LeafTypes \cup {"none"} : tree = Leaf(t) BY DEF Leaves
<1>2. tree.type = t /\ tree.names = <<>> /\ tree.inside = <<>> BY <1>1 DEF Leaf
<1>3. t \notin InnerTypes BY ConfigAssumption DEF InnerTypes
<1>4. DOMAIN <<>> = {} OBVIOUS
<1> QED BY <1>1, <1>2, <1>3, <1>4

LEMMA NamesAre ==
  ASSUME NEW tree, IsInner(tree)
  PROVE  /\ tree.names \in Seq(Names)
         /\ SubSeq(tree.names, 1, Len(tree.names) - Len(FixedNames(tree.type))) \o FixedNames(tree.type) = tree.names
         /\ SubSeq(tree.names, 1, Len(tree.names) - Len(FixedNames(tree.type))) \in ChosenNames(tree.type)
<1>1. PICK n \in ChosenNames(tree.type) : tree.names = n \o FixedNames(tree.type) BY DEF IsInner, WellNamed
<1> DEFINE f == FixedNames(tree.type)
<1>2. n \in Seq(Names) /\ f \in Seq(Names) BY ChosenNamesAre, FixedNamesAre
<1> HIDE DEF f
<1>3. n \o f \in Seq(Names) /\ SubSeq(n \o f, 1, Len(n \o f) - Len(f)) = n
  <2> DEFINE w == n \o f
             v == SubSeq(w, 1, Len(w) - Len(f))
             S == Names
  <2> HIDE DEF S
  <2>1. w \in Seq(S) /\ Len(w) = Len(n) + Len(f) /\ \A i \in 1 .. Len(n) : w[i] = n[i] BY <1>2, ConcatAt DEF S
  <2>2. Len(n) \in Nat /\ Len(f) \in Nat /\ Len(w) - Len(f) = Len(n) BY <1>2, <2>1
  <2> HIDE DEF w
  <2>3. v \in Seq(S) /\ Len(v) = Len(n) /\ \A i \in 1 .. Len(n) : v[i] = w[i] BY <2>1, <2>2
  <2> HIDE DEF v
  <2>4. v = n BY <1>2, <2>1, <2>3 DEF S
  <2> QED BY <2>1, <2>4 DEF v, w, S
<1> QED BY <1>1, <1>3 DEF f

\* The type and the names that the factory and the creators find in a section.
LEMMA TypeAndNames ==
  ASSUME NEW tree, IsTree(tree), NEW below, \A i \in DOMAIN tree.names : Dotted(below[i]),
         NEW conf, IsForm(conf, Part(tree, below))
  PROVE  TypeIn(conf) = tree.type /\ Created(conf) = tree.names
<1> DEFINE t == tree.type
           l == SubSeq(tree.names, 1, Len(tree.names) - Len(FixedNames(t)))
           O == Own(tree)
<1>1. ASSUME NEW key PROVE Lookup(conf, key) = {e.value : e \in {e \in O : e.key[1] = <<key>>}}
  BY LookupPart
<1> DEFINE k == ListKey(t)
           a == Entry(<<<<"type">>>>, <<t>>)
           b == Entry(<<<<k>>>>, l)
<1>2. O = (IF t = "none" THEN {} ELSE {a}) \cup (IF k = "no key" THEN {} ELSE {b}) BY DEF Own
<1>3. /\ a.value = <<t>> /\ b.value = l
      /\ \A key : (a.key[1] = <<key>> <=> key = "type") /\ (b.key[1] = <<key>> <=> key = k)
  <2>1. ASSUME NEW m, NEW v, NEW key
        PROVE  Entry(<<<<m>>>>, v).value = v /\ (Entry(<<<<m>>>>, v).key[1] = <<key>> <=> key = m)
    <3>1. Entry(<<<<m>>>>, v).key = <<<<m>>>> /\ Entry(<<<<m>>>>, v).value = v BY EntryIs
    <3>2. Entry(<<<<m>>>>, v).key[1] = <<m>> BY <3>1
    <3>3. <<m>> = <<key>> <=> m = key OBVIOUS
    <3> QED BY <3>1, <3>2, <3>3
  <2> HIDE DEF l, k
  <2> QED BY <2>1
<1>4. k \in {"storages", "styles", "storage", "no key"} BY DEF ListKey
<1> HIDE DEF O, l, a, b, k
<1>5. Lookup(conf, "type") = IF t = "none" THEN {} ELSE {<<t>>}
  <2>1. k # "type" BY <1>4
  <2>2. CASE t = "none"
    <3>1. \A e \in O : e.key[1] # <<"type">> BY <1>2, <1>3, <2>1, <2>2
    <3> QED BY <1>1, <2>2, <3>1
  <2>3. CASE t # "none"
    <3>1. a \in O /\ a.key[1] = <<"type">> /\ b.key[1] # <<"type">> BY <1>2, <1>3, <2>1, <2>3
    <3>2. \A e \in O : e.key[1] = <<"type">> => e = a BY <1>2, <3>1
    <3>3. {e \in O : e.key[1] = <<"type">>} = {a} BY <3>1, <3>2
    <3>4. Lookup(conf, "type") = {e.value : e \in {a}} BY <1>1, <3>3
    <3>5. {e.value : e \in {a}} = {a.value} OBVIOUS
    <3> QED BY <1>3, <2>3, <3>4, <3>5
  <2> QED BY <2>2, <2>3
<1>6. TypeIn(conf) = t
  <2>1. CASE t = "none" BY <1>5, <2>1 DEF TypeIn
  <2>2. CASE t # "none"
    <3>1. Lookup(conf, "type") = {<<t>>} BY <1>5, <2>2
    <3>2. (CHOOSE v \in {<<t>>} : TRUE) = <<t>> OBVIOUS
    <3>3. <<t>>[1] = t OBVIOUS
    <3> QED BY <3>1, <3>2, <3>3 DEF TypeIn
  <2> QED BY <2>1, <2>2
<1>7. ASSUME ListKey(t) # "no key" PROVE Listed(conf, ListKey(t)) = l
  <2>1. b \in O /\ b.key[1] = <<k>> /\ a.key[1] # <<k>> BY <1>2, <1>3, <1>4, <1>7 DEF k
  <2>2. \A e \in O : e.key[1] = <<k>> => e = b BY <1>2, <2>1
  <2>3. {e \in O : e.key[1] = <<k>>} = {b} BY <2>1, <2>2
  <2>4. Lookup(conf, k) = {l}
    <3>1. Lookup(conf, k) = {e.value : e \in {b}} BY <1>1, <2>3
    <3>2. {e.value : e \in {b}} = {b.value} OBVIOUS
    <3> QED BY <1>3, <3>1, <3>2
  <2>5. (CHOOSE v \in {l} : TRUE) = l OBVIOUS
  <2> QED BY <2>4, <2>5 DEF Listed, k
<1>8. CASE tree \in Leaves
  <2>1. tree.names = <<>> /\ t \notin InnerTypes BY <1>8, LeafIs
  <2> QED BY <1>6, <2>1 DEF Created, InnerTypes
<1>9. CASE IsInner(tree)
  <2>1. l \o FixedNames(t) = tree.names /\ l \in ChosenNames(t) /\ l \in Seq(Names)
    BY <1>9, NamesAre, ChosenNamesAre DEF l
  <2>2. CASE t = "union"
    <3>1. ListKey(t) = "storages" /\ FixedNames(t) = <<>> BY <2>2 DEF ListKey, FixedNames
    <3>2. Created(conf) = l BY <1>6, <1>7, <2>2, <3>1 DEF Created, create_union_storage
    <3>3. l \o <<>> = l BY <2>1
    <3> QED BY <1>6, <2>1, <3>1, <3>2, <3>3
  <2>3. CASE t = "per_style"
    <3>1. ListKey(t) = "styles" /\ FixedNames(t) = <<"default">> BY <2>3 DEF ListKey, FixedNames
    <3>2. Created(conf) = l \o <<"default">> BY <1>6, <1>7, <2>3, <3>1 DEF Created, create_per_style_storage
    <3> QED BY <1>6, <2>1, <3>1, <3>2
  <2>4. CASE t = "expiry_overlay"
    <3>1. ListKey(t) = "storage" /\ FixedNames(t) = <<>> BY <2>4 DEF ListKey, FixedNames
    <3>2. Created(conf) = l BY <1>6, <1>7, <2>4, <3>1 DEF Created, create_expiry_overlay
    <3>3. l \o <<>> = l BY <2>1
    <3> QED BY <1>6, <2>1, <3>1, <3>2, <3>3
  <2>5. CASE t = "compositing"
    <3>1. l = <<>> /\ FixedNames(t) = <<"under", "over">> BY <2>1, <2>5 DEF ChosenNames, FixedNames
    <3>2. Created(conf) = <<"under", "over">> BY <1>6, <2>5 DEF Created, create_compositing_storage
    <3>3. <<>> \o <<"under", "over">> = <<"under", "over">> OBVIOUS
    <3> QED BY <1>6, <2>1, <3>1, <3>2, <3>3
  <2> QED BY <1>9, <2>2, <2>3, <2>4, <2>5 DEF IsInner, InnerTypes
<1> QED BY <1>8, <1>9 DEF IsTree

\* What comes of a section: nothing without a type, an exception when a storage
\* inside could not be made.
Outcome(tree, complete) == IF tree = NoType THEN NoStorage ELSE IF complete THEN tree ELSE Throws

LEMMA TreeIsMade ==
  ASSUME NEW tree, IsTree(tree)
  PROVE  /\ tree # NoStorage /\ tree # Throws /\ tree # NotMade
         /\ (tree = NoType <=> tree.type = "none")
         /\ tree.type \in LeafTypes \cup InnerTypes \cup {"none"}
<1>1. /\ NoStorage.type = "NULL" /\ Throws.type = "throws" /\ NotMade.type = "not made" /\ NoType.type = "none"
  BY DEF NoStorage, Throws, NotMade, NoType, Leaf
<1>2. tree.type \in LeafTypes \cup InnerTypes \cup {"none"}
  BY LeafIs DEF IsTree, IsInner
<1>3. {"NULL", "throws", "not made"} \cap (LeafTypes \cup InnerTypes \cup {"none"}) = {}
  BY ConfigAssumption DEF InnerTypes
<1>4. ASSUME tree.type = "none" PROVE tree = NoType
  <2>1. tree \in Leaves BY <1>4 DEF IsTree, IsInner, InnerTypes
  <2> QED BY <1>4, <2>1, LeafIs DEF NoType
<1> QED BY <1>1, <1>2, <1>3, <1>4

LEMMA CreateLeaf ==
  ASSUME NEW tree \in Leaves, NEW below, NEW conf, IsForm(conf, Part(tree, below)), NEW children
  PROVE  create_from(conf, children) = Outcome(tree, tree.type # "none")
<1>1. IsTree(tree) /\ DOMAIN tree.names = {} BY LeafIs DEF IsTree
<1>2. TypeIn(conf) = tree.type BY <1>1, TypeAndNames
<1>3. tree = Leaf(tree.type) /\ tree.type \in LeafTypes \cup {"none"} /\ tree.type \notin InnerTypes
  BY LeafIs
<1>4. "none" \notin LeafTypes /\ "none" \notin InnerTypes BY ConfigAssumption DEF InnerTypes
<1>5. tree = NoType <=> tree.type = "none" BY <1>1, TreeIsMade
<1>6. CASE tree.type = "none" BY <1>2, <1>3, <1>4, <1>5, <1>6 DEF create_from, Outcome
<1>7. CASE tree.type \in LeafTypes BY <1>2, <1>3, <1>4, <1>5, <1>7 DEF create_from, Outcome
<1> QED BY <1>3, <1>6, <1>7

Outcomes(children, tree, c) == children = [i \in DOMAIN tree.names |-> Outcome(tree.inside[i], c[i])]

LEMMA CreateInner ==
  ASSUME NEW tree, IsInner(tree), \A i \in DOMAIN tree.names : IsTree(tree.inside[i]),
         NEW below, \A i \in DOMAIN tree.names : Dotted(below[i]),
         NEW conf, IsForm(conf, Part(tree, below)),
         NEW c \in [DOMAIN tree.names -> BOOLEAN],
         \A i \in DOMAIN tree.names : c[i] => tree.inside[i].type # "none",
         NEW children, Outcomes(children, tree, c)
  PROVE  create_from(conf, children) = Outcome(tree, \A i \in DOMAIN tree.names : c[i])
<1> DEFINE D == DOMAIN tree.names
           all == \A i \in D : c[i]
<1>1. TypeIn(conf) = tree.type /\ Created(conf) = tree.names BY TypeAndNames DEF IsTree
<1>2. tree.type \in InnerTypes BY DEF IsInner
<1>3. tree.type \notin LeafTypes /\ tree.type # "none" /\ tree # NoType
  <2>1. tree.type \notin LeafTypes /\ tree.type # "none" BY <1>2, ConfigAssumption DEF InnerTypes
  <2> QED BY <2>1 DEF NoType, Leaf
<1>4. ASSUME NEW i \in D
      PROVE  /\ c[i] => children[i] = tree.inside[i]
             /\ children[i] \notin {NoStorage, Throws} <=> c[i]
  <2>1. children[i] = Outcome(tree.inside[i], c[i]) BY DEF Outcomes
  <2>2. IsTree(tree.inside[i]) /\ (c[i] => tree.inside[i].type # "none") OBVIOUS
  <2> DEFINE s == tree.inside[i]
  <2>3. s # NoStorage /\ s # Throws /\ (s = NoType <=> s.type = "none") BY <2>2, TreeIsMade
  <2> QED BY <2>1, <2>2, <2>3 DEF Outcome
<1>5. DOMAIN children = D BY DEF Outcomes
<1>6. make_subtree(children) <=> all BY <1>4, <1>5 DEF make_subtree
<1>7. all => children = tree.inside
  <2>1. tree.inside = [i \in D |-> tree.inside[i]] BY DEF IsInner
  <2>2. children = [i \in D |-> children[i]] BY DEF Outcomes
  <2> HIDE DEF D
  <2> QED BY <1>4, <2>1, <2>2
<1>8. tree = [type |-> tree.type, names |-> tree.names, inside |-> tree.inside] BY DEF IsInner
<1>9. create_from(conf, children) =
        IF all THEN [type |-> tree.type, names |-> tree.names, inside |-> children] ELSE Throws
  BY <1>1, <1>2, <1>3, <1>6 DEF create_from
<1> HIDE DEF all
<1>10. create_from(conf, children) = IF all THEN tree ELSE Throws
  <2>1. CASE all BY <1>7, <1>8, <1>9, <2>1
  <2>2. CASE ~all BY <1>9, <2>2
  <2> QED BY <2>1, <2>2
<1> QED BY <1>3, <1>10 DEF Outcome, all

\* The section's part for a storage inside, as its creator is given it.
LEMMA PartForm ==
  ASSUME NEW tree, IsInner(tree), NEW below, \A i \in DOMAIN tree.names : Dotted(below[i]),
         \A i, j \in DOMAIN tree.names : tree.inside[i] = tree.inside[j] => below[i] = below[j],
         NEW conf, IsForm(conf, Part(tree, below)), NEW j \in DOMAIN tree.names
  PROVE  IsForm(SubTree(conf, tree.names[j]), below[j])
<1>1. \A i \in DOMAIN tree.names : tree.names[i] = tree.names[j] => below[i] = below[j] BY DEF IsInner
<1>2. After(Part(tree, below), tree.names[j]) = below[j] BY <1>1, AfterPart
<1>3. SubTree(conf, tree.names[j]) = AsLevels(After(Part(tree, below), tree.names[j])) BY PartIs, SubTreeIs
<1> QED BY <1>2, <1>3 DEF IsForm

LEMMA LeafPart ==
  ASSUME NEW tree \in Leaves, NEW below
  PROVE  Part(tree, below) = Own(tree)
<1>1. DOMAIN tree.names = {} BY LeafIs
<1>2. Under(tree, below) = {} BY <1>1 DEF Under
<1> QED BY <1>2 DEF Part

\* Storages without others inside, storages that hold such, and storages that
\* hold either.
IsFlat(tree) == IsInner(tree) /\ \A i \in DOMAIN tree.names : tree.inside[i] \in Leaves
IsNested(tree) ==
  IsInner(tree) /\ \A i \in DOMAIN tree.names : tree.inside[i] \in Leaves \/ IsFlat(tree.inside[i])

LEMMA CreateInmost ==
  ASSUME NEW tree \in Leaves, NEW conf, IsForm(conf, Own(tree))
  PROVE  create_inmost(conf) = Outcome(tree, tree.type # "none")
<1> DEFINE children == [i \in DOMAIN Created(conf) |-> NoStorage]
           below == <<>>
<1>1. IsForm(conf, Part(tree, below)) BY LeafPart
<1>2. create_inmost(conf) = create_from(conf, children) BY DEF create_inmost
<1> HIDE DEF children, below
<1>3. create_from(conf, children) = Outcome(tree, tree.type # "none") BY <1>1, CreateLeaf
<1> QED BY <1>2, <1>3

LEMMA WrittenFlatIs ==
  ASSUME NEW tree, tree \in Leaves \/ IsFlat(tree)
  PROVE  /\ WrittenFlat(tree) = Part(tree, [i \in DOMAIN tree.names |-> Own(tree.inside[i])])
         /\ Dotted(WrittenFlat(tree)) /\ IsTree(tree)
<1> DEFINE below == [i \in DOMAIN tree.names |-> Own(tree.inside[i])]
<1>1. WrittenFlat(tree) = Part(tree, below) BY DEF WrittenFlat, Part
<1>2. \A i \in DOMAIN tree.names : Dotted(below[i]) BY OwnIs
<1>3. Dotted(Part(tree, below))
  <2> HIDE DEF below
  <2> QED BY <1>2, PartIs
<1> QED BY <1>1, <1>3 DEF IsFlat, IsTree

LEMMA CreateFlat ==
  ASSUME NEW tree, tree \in Leaves \/ IsFlat(tree), NEW conf, IsForm(conf, WrittenFlat(tree))
  PROVE  create_inner(conf) = Outcome(tree, CompleteFlat(tree))
<1> DEFINE D == DOMAIN tree.names
           below == [i \in D |-> Own(tree.inside[i])]
           children == [i \in DOMAIN Created(conf) |-> create_inmost(SubTree(conf, Created(conf)[i]))]
<1>1. WrittenFlat(tree) = Part(tree, below) /\ IsForm(conf, Part(tree, below)) BY WrittenFlatIs
<1>2. CASE tree \in Leaves
  <2>1. create_inner(conf) = Outcome(tree, tree.type # "none") BY <1>1, <1>2, CreateLeaf DEF create_inner
  <2>2. CompleteFlat(tree) <=> tree.type # "none" BY <1>2, LeafIs DEF CompleteFlat
  <2> QED BY <2>1, <2>2 DEF Outcome
<1>3. CASE IsFlat(tree)
  <2> DEFINE c == [i \in D |-> tree.inside[i].type # "none"]
  <2>1. IsInner(tree) /\ \A i \in D : tree.inside[i] \in Leaves /\ IsTree(tree.inside[i])
    BY <1>3 DEF IsFlat, IsTree
  <2>2. \A i \in D : below[i] = Own(tree.inside[i]) /\ Dotted(below[i]) BY OwnIs
  <2>3. \A i, j \in D : tree.inside[i] = tree.inside[j] => below[i] = below[j] BY <2>2
  <2>4. c \in [D -> BOOLEAN] /\ \A i \in D : c[i] <=> tree.inside[i].type # "none" OBVIOUS
  <2>5. CompleteFlat(tree) <=> \A i \in D : c[i]
    <3>1. DOMAIN tree.inside = D /\ tree.type # "none" BY <2>1 DEF IsInner, InnerTypes
    <3> QED BY <2>4, <3>1 DEF CompleteFlat
  <2> HIDE DEF below, c
  <2>6. Created(conf) = tree.names BY <1>1, <2>1, <2>2, TypeAndNames DEF IsTree
  <2>7. ASSUME NEW i \in D PROVE create_inmost(SubTree(conf, tree.names[i])) = Outcome(tree.inside[i], c[i])
    <3>1. IsForm(SubTree(conf, tree.names[i]), below[i]) BY <1>1, <2>1, <2>2, <2>3, PartForm
    <3>2. create_inmost(SubTree(conf, tree.names[i])) = Outcome(tree.inside[i], tree.inside[i].type # "none")
      BY <2>1, <2>2, <3>1, CreateInmost
    <3> QED BY <2>4, <3>2 DEF Outcome
  <2>8. Outcomes(children, tree, c) BY <2>6, <2>7 DEF Outcomes
  <2> HIDE DEF children
  <2>9. create_from(conf, children) = Outcome(tree, \A i \in D : c[i])
    BY <1>1, <2>1, <2>2, <2>4, <2>8, CreateInner
  <2> QED BY <2>5, <2>9 DEF create_inner, children, Outcome
<1> QED BY <1>2, <1>3

LEMMA CreateNested ==
  ASSUME NEW tree, tree \in Leaves \/ IsNested(tree)
  PROVE  create(Written(tree)) = Outcome(tree, Complete(tree))
<1> DEFINE D == DOMAIN tree.names
           conf == Written(tree)
           below == [i \in D |-> WrittenFlat(tree.inside[i])]
           children == [i \in DOMAIN Created(conf) |-> create_inner(SubTree(conf, Created(conf)[i]))]
<1>1. conf = Part(tree, below) /\ IsForm(conf, Part(tree, below)) BY DEF Written, Part, IsForm
<1>2. CASE tree \in Leaves
  <2>1. create(conf) = Outcome(tree, tree.type # "none") BY <1>1, <1>2, CreateLeaf DEF create
  <2>2. Complete(tree) <=> tree.type # "none" BY <1>2, LeafIs DEF Complete
  <2> QED BY <2>1, <2>2 DEF Outcome
<1>3. CASE IsNested(tree)
  <2> DEFINE c == [i \in D |-> CompleteFlat(tree.inside[i])]
  <2>1. /\ IsInner(tree)
        /\ \A i \in D : (tree.inside[i] \in Leaves \/ IsFlat(tree.inside[i])) /\ IsTree(tree.inside[i])
    BY <1>3 DEF IsNested, IsFlat, IsTree
  <2>2. \A i \in D : below[i] = WrittenFlat(tree.inside[i]) /\ Dotted(below[i]) BY <2>1, WrittenFlatIs
  <2>3. \A i, j \in D : tree.inside[i] = tree.inside[j] => below[i] = below[j] BY <2>2
  <2>4. /\ c \in [D -> BOOLEAN]
        /\ \A i \in D : (c[i] <=> CompleteFlat(tree.inside[i])) /\ (c[i] => tree.inside[i].type # "none")
    BY DEF CompleteFlat
  <2>5. Complete(tree) <=> \A i \in D : c[i]
    <3>1. DOMAIN tree.inside = D /\ tree.type # "none" BY <2>1 DEF IsInner, InnerTypes
    <3> QED BY <2>4, <3>1 DEF Complete
  <2> HIDE DEF below, c, conf
  <2>6. Created(conf) = tree.names BY <1>1, <2>1, <2>2, TypeAndNames DEF IsTree
  <2>7. ASSUME NEW i \in D PROVE create_inner(SubTree(conf, tree.names[i])) = Outcome(tree.inside[i], c[i])
    <3>1. IsForm(SubTree(conf, tree.names[i]), below[i]) BY <1>1, <2>1, <2>2, <2>3, PartForm
    <3>2. create_inner(SubTree(conf, tree.names[i])) = Outcome(tree.inside[i], CompleteFlat(tree.inside[i]))
      BY <2>1, <2>2, <3>1, CreateFlat
    <3> QED BY <2>4, <3>2 DEF Outcome
  <2>8. Outcomes(children, tree, c) BY <2>6, <2>7 DEF Outcomes
  <2> HIDE DEF children
  <2>9. create_from(conf, children) = Outcome(tree, \A i \in D : c[i])
    BY <1>1, <2>1, <2>2, <2>4, <2>8, CreateInner
  <2> QED BY <2>5, <2>9 DEF create, children, Outcome, conf
<1> QED BY <1>2, <1>3

\* The sections the model describes.
LEMMA OverIs ==
  ASSUME NEW kinds, NEW tree \in Over(InnerTypes, kinds), WellNamed(tree)
  PROVE  IsInner(tree) /\ \A i \in DOMAIN tree.names : tree.inside[i] \in kinds
<1> DEFINE Tree(t, n, f) ==
             [type |-> t, names |-> n \o FixedNames(t),
              inside |-> [i \in DOMAIN (n \o FixedNames(t)) |-> f[(n \o FixedNames(t))[i]]]]
           N == UNION {ChosenNames(u) : u \in InnerTypes}
<1>0. Over(InnerTypes, kinds) = {Tree(t, n, f) : t \in InnerTypes, n \in N, f \in [Names -> kinds]}
  BY DEF Over, Names
<1>1. PICK t \in InnerTypes, n \in N, f \in [Names -> kinds] : tree = Tree(t, n, f)
  <2> HIDE DEF Tree, N
  <2> QED BY <1>0
<1> DEFINE w == tree.names
<1>2. tree.type = t /\ w = n \o FixedNames(t) /\ tree.inside = [i \in DOMAIN w |-> f[w[i]]]
  BY <1>1
<1>3. w \in Seq(Names)
  <2>1. PICK m \in ChosenNames(tree.type) : tree.names = m \o FixedNames(tree.type) BY DEF WellNamed
  <2> DEFINE g == FixedNames(tree.type)
             S == Names
  <2>2. m \in Seq(S) /\ g \in Seq(S) BY ChosenNamesAre, FixedNamesAre
  <2> HIDE DEF g, S
  <2>3. m \o g \in Seq(S) BY <2>2
  <2> QED BY <2>1, <2>3 DEF g, S
<1>4. \A i \in DOMAIN w : w[i] \in Names
  <2> DEFINE S == Names
             v == w
  <2>1. v \in Seq(S) BY <1>3
  <2> HIDE DEF S, v
  <2>2. \A i \in DOMAIN v : v[i] \in S BY <2>1
  <2> QED BY <2>2 DEF S, v
<1>5. \A i \in DOMAIN w : tree.inside[i] = f[w[i]] /\ tree.inside[i] \in kinds BY <1>2, <1>4
<1>6. DOMAIN tree.inside = DOMAIN w /\ tree.inside = [i \in DOMAIN w |-> tree.inside[i]] BY <1>2
<1>7. tree = [type |-> tree.type, names |-> tree.names, inside |-> tree.inside] BY <1>1
<1>8. tree.type \in InnerTypes BY <1>2
<1> HIDE DEF w
<1>9. \A i, j \in DOMAIN w : w[i] = w[j] => tree.inside[i] = tree.inside[j] BY <1>5
<1> QED BY <1>5, <1>6, <1>7, <1>8, <1>9 DEF IsInner, w

LEMMA SectionsAre ==
  ASSUME NEW tree \in Leaves \cup Flat \cup Nested
  PROVE  tree \in Leaves \/ IsNested(tree)
<1>1. ASSUME NEW flat \in Flat PROVE IsFlat(flat)
  BY OverIs DEF Flat, IsFlat
<1>2. CASE tree \in Flat BY <1>1, <1>2 DEF IsFlat, IsNested
<1>3. CASE tree \in Nested
  <2> DEFINE leaf == Leaf(CHOOSE t \in LeafTypes : TRUE)
  <2>1. leaf \in Leaves BY ConfigAssumption DEF Leaves
  <2>2. PICK inner \in Flat : tree \in Over(InnerTypes, {inner, leaf}) /\ WellNamed(tree) BY <1>3 DEF Nested
  <2> HIDE DEF leaf
  <2>3. IsInner(tree) /\ \A i \in DOMAIN tree.names : tree.inside[i] \in {inner, leaf} BY <2>2, OverIs
  <2> QED BY <1>1, <2>1, <2>2, <2>3 DEF IsNested
<1> QED BY <1>2, <1>3

ConfigInv ==
  /\ wanted \in Leaves \cup Flat \cup Nested
  /\ section = Written(wanted)
  /\ MadeAsDescribed

LEMMA ConfigStarts == ConfigInit => ConfigInv
BY DEF ConfigInit, ConfigInv, MadeAsDescribed

LEMMA ConfigInvKept == ConfigInv /\ [ConfigNext]_configVars => ConfigInv'
<1> SUFFICES ASSUME ConfigInv, [ConfigNext]_configVars PROVE ConfigInv' OBVIOUS
<1>1. CASE get_tile_storage
  <2>1. wanted' = wanted /\ section' = section /\ made' = create(Written(wanted))
    BY <1>1 DEF get_tile_storage, ConfigInv
  <2>2. create(Written(wanted)) = Outcome(wanted, Complete(wanted)) BY SectionsAre, CreateNested DEF ConfigInv
  <2>3. made' = IF wanted = NoType THEN NoStorage ELSE IF Complete(wanted) THEN wanted ELSE Throws
    BY <2>1, <2>2 DEF Outcome
  <2> QED BY <2>1, <2>3 DEF ConfigInv, MadeAsDescribed
<1>2. CASE UNCHANGED configVars BY <1>2 DEF ConfigInv, MadeAsDescribed, configVars
<1> QED BY <1>1, <1>2 DEF ConfigNext

(* MadeAsDescribed: tile_storage_factory::create makes the storage that a  *)
(* section describes, for all types and names and at two levels of         *)
(* storages inside storages, and makes none from a section with a part     *)
(* that names no type.  SubTreeIs carries the argument: a creator gets the *)
(* same part of the section whether the keys before it were dotted or had  *)
(* become levels.                                                          *)
THEOREM StoragesAreMade == ConfigSpec => []MadeAsDescribed
<1>1. ConfigInit => ConfigInv BY ConfigStarts
<1>2. ConfigInv /\ [ConfigNext]_configVars => ConfigInv' BY ConfigInvKept
<1>3. ConfigInv => MadeAsDescribed BY DEF ConfigInv
<1> QED BY <1>1, <1>2, <1>3, PTL DEF ConfigSpec

-----------------------------------------------------------------------------
(* Requests over one curl handle *)

LEMMA HandleIs ==
  /\ Default \in [verb : Verbs, custom : {"none", "DELETE"},
                  list : {"none", "headers", "freed"}, dumps : BOOLEAN]
  /\ Default.verb = "GET" /\ Default.custom = "none" /\ Default.list = "none" /\ Default.dumps = FALSE
BY DEF Default, Verbs

LEMMA ConnectionInitInv == ConnectionInit => ConnectionInv
<1> SUFFICES ASSUME ConnectionInit PROVE ConnectionInv OBVIOUS
<1>1. Idle /\ handle = Default /\ part = NewPart(0) /\ uploaded = 0 /\ leftover = FALSE
  BY DEF ConnectionInit, Idle
<1>2. /\ NewPart(0) \in [size : Sizes \union {0}, position : Nat, eof : BOOLEAN]
      /\ NewPart(0).size = 0 /\ NewPart(0).position = 0 /\ NewPart(0).eof = FALSE
  BY DEF NewPart
<1>3. ConnectionTypeOK BY <1>1, <1>2, HandleIs DEF ConnectionTypeOK, Idle
<1>4. SentAsAsked BY <1>1 DEF SentAsAsked
<1>5. UploadIsWhole BY <1>1, <1>2 DEF UploadIsWhole
<1> QED BY <1>1, <1>2, <1>3, <1>4, <1>5 DEF ConnectionInv

\* The options of a handle are set one by one: the verb by the constructor of an
\* operation, the list by each that sends headers.
LEMMA OptionsSet ==
  ASSUME NEW h \in [verb : Verbs, custom : {"none", "DELETE"},
                    list : {"none", "headers", "freed"}, dumps : BOOLEAN], NEW headers \in BOOLEAN
  PROVE  LET w == WithHeaders(h, headers)
         IN  /\ w \in [verb : Verbs, custom : {"none", "DELETE"},
                       list : {"none", "headers", "freed"}, dumps : BOOLEAN]
             /\ w.verb = h.verb /\ w.custom = h.custom /\ w.dumps = h.dumps
             /\ w.list = IF headers THEN "headers" ELSE h.list
<1>1. CASE headers BY <1>1 DEF WithHeaders
<1>2. CASE ~headers BY <1>2 DEF WithHeaders
<1> QED BY <1>1, <1>2

\* A call has nothing uploaded when it begins.
LEMMA CallBegins ==
  ASSUME ConnectionAssumption, NEW size \in Sizes \union {0}, part' = NewPart(size), uploaded' = 0
  PROVE  /\ part' \in [size : Sizes \union {0}, position : Nat, eof : BOOLEAN]
         /\ uploaded' \in Nat /\ UploadIsWhole' /\ uploaded' = part'.position
<1>1. size \in Nat BY ConnectionAssumption
<1>2. /\ part'.size = size /\ part'.position = 0 /\ part'.eof = FALSE
      /\ part' \in [size : Sizes \union {0}, position : Nat, eof : BOOLEAN]
  BY DEF NewPart
<1> QED BY <1>1, <1>2 DEF UploadIsWhole

LEMMA OperBegins ==
  ASSUME ConnectionInv, NEW verb \in {"GET", "POST"}, NEW headers \in BOOLEAN,
         NEW size \in Sizes \union {0}, BeginOper(verb, headers, size)
  PROVE  ConnectionInv'
<1>1. /\ Idle /\ leftover' = leftover /\ request' = [verb |-> verb, headers |-> headers]
      /\ handle' = [WithHeaders(handle, headers) EXCEPT !.verb = verb]
      /\ part' = NewPart(size) /\ uploaded' = 0
  BY DEF BeginOper
<1>2. verb \in Verbs BY DEF Verbs
<1>3. /\ handle \in [verb : Verbs, custom : {"none", "DELETE"},
                     list : {"none", "headers", "freed"}, dumps : BOOLEAN]
      /\ leftover \in BOOLEAN /\ (~leftover => handle = Default)
  BY <1>1 DEF ConnectionInv, ConnectionTypeOK
<1>4. /\ handle' \in [verb : Verbs, custom : {"none", "DELETE"},
                      list : {"none", "headers", "freed"}, dumps : BOOLEAN]
      /\ handle'.verb = verb /\ handle'.custom = handle.custom /\ handle'.dumps = handle.dumps
      /\ handle'.list = IF headers THEN "headers" ELSE handle.list
  <2> DEFINE w == WithHeaders(handle, headers)
  <2>1. /\ w \in [verb : Verbs, custom : {"none", "DELETE"},
                  list : {"none", "headers", "freed"}, dumps : BOOLEAN]
        /\ w.custom = handle.custom /\ w.dumps = handle.dumps
        /\ w.list = IF headers THEN "headers" ELSE handle.list
    BY <1>3, OptionsSet
  <2>2. handle' = [w EXCEPT !.verb = verb] BY <1>1
  <2> HIDE DEF w
  <2>3. /\ handle' \in [verb : Verbs, custom : {"none", "DELETE"},
                        list : {"none", "headers", "freed"}, dumps : BOOLEAN]
        /\ handle'.verb = verb /\ handle'.custom = w.custom /\ handle'.dumps = w.dumps
        /\ handle'.list = w.list
    BY <1>2, <2>1, <2>2
  <2> QED BY <2>1, <2>3
<1>5. request'.verb = verb /\ request'.headers = headers /\ ~Idle'
  BY <1>1 DEF Idle, NoRequest
<1>6. ConnectionTypeOK'
  BY <1>1, <1>2, <1>3, <1>4, CallBegins, ConnectionAssumption DEF ConnectionTypeOK
<1>7. SentAsAsked'
  <2>1. SUFFICES ASSUME ~leftover
                 PROVE  /\ SentVerb' = verb /\ handle'.list = (IF headers THEN "headers" ELSE "none")
                        /\ (handle'.dumps <=> verb = "HEAD")
    BY <1>1, <1>5 DEF SentAsAsked
  <2>2. handle = Default BY <1>3, <2>1
  <2> QED BY <1>4, <2>2, HandleIs DEF SentVerb
<1> QED BY <1>1, <1>5, <1>6, <1>7, CallBegins, ConnectionAssumption DEF ConnectionInv

LEMMA BareBegins ==
  ASSUME ConnectionInv, NEW headers \in BOOLEAN, Del(headers) \/ HeadRequest(headers)
  PROVE  ConnectionInv'
<1> DEFINE T == [verb : Verbs, custom : {"none", "DELETE"},
                 list : {"none", "headers", "freed"}, dumps : BOOLEAN]
<1>1. PICK verb \in {"DELETE", "HEAD"}, options \in T :
        /\ BeginBare(verb, options, headers) /\ options.list = "none"
        /\ (IF options.custom = "none" THEN options.verb ELSE options.custom) = verb
        /\ (options.dumps <=> verb = "HEAD")
  <2>1. CASE Del(headers)
    <3> DEFINE o == [Default EXCEPT !.custom = "DELETE"]
    <3>1. o \in T /\ o.list = "none" /\ o.custom = "DELETE" /\ o.dumps = FALSE BY HandleIs
    <3>2. BeginBare("DELETE", o, headers) BY <2>1 DEF Del
    <3> HIDE DEF o
    <3> QED BY <3>1, <3>2
  <2>2. CASE HeadRequest(headers)
    <3> DEFINE o == [Default EXCEPT !.verb = "HEAD", !.dumps = TRUE]
    <3>1. o \in T /\ o.list = "none" /\ o.custom = "none" /\ o.verb = "HEAD" /\ o.dumps = TRUE
      BY HandleIs DEF Verbs, Default
    <3>2. BeginBare("HEAD", o, headers) BY <2>2 DEF HeadRequest
    <3> HIDE DEF o
    <3> QED BY <3>1, <3>2
  <2> QED BY <2>1, <2>2
<1>2. /\ leftover' = leftover /\ request' = [verb |-> verb, headers |-> headers]
      /\ handle' = WithHeaders(options, headers) /\ part' = NewPart(0) /\ uploaded' = 0
  BY <1>1 DEF BeginBare
<1>3. /\ handle' \in T
      /\ handle'.verb = options.verb /\ handle'.custom = options.custom /\ handle'.dumps = options.dumps
      /\ handle'.list = IF headers THEN "headers" ELSE "none"
  BY <1>1, <1>2, OptionsSet
<1>4. request'.verb = verb /\ request'.headers = headers /\ ~Idle' /\ verb \in Verbs
  BY <1>1, <1>2 DEF Idle, NoRequest, Verbs
<1>5. ConnectionTypeOK'
  <2>1. leftover \in BOOLEAN BY DEF ConnectionInv, ConnectionTypeOK
  <2>2. request' \in [verb : Verbs, headers : BOOLEAN] BY <1>2, <1>4
  <2> QED BY <1>2, <1>3, <2>1, <2>2, CallBegins, ConnectionAssumption DEF ConnectionTypeOK
<1>6. SentAsAsked' BY <1>1, <1>3, <1>4 DEF SentAsAsked, SentVerb
<1> QED BY <1>2, <1>4, <1>5, <1>6, CallBegins, ConnectionAssumption DEF ConnectionInv

\* What read_callback copies is there to be copied, and it is nothing only at
\* the end of the part.
LEMMA CallbackKeeps ==
  ASSUME ConnectionInv, ReadCallback
  PROVE  ConnectionInv'
<1>1. PICK length \in Buffers :
        /\ part' = [part EXCEPT !.position = @ + ReadLength(part, length),
                                !.eof = ReadLength(part, length) = 0]
        /\ uploaded' = uploaded + ReadLength(part, length)
  BY DEF ReadCallback
<1>2. request' = request /\ handle' = handle /\ leftover' = leftover /\ request.verb = "POST" /\ ~part.eof
  BY DEF ReadCallback
<1> DEFINE n == ReadLength(part, length)
<1>3. /\ part \in [size : Sizes \union {0}, position : Nat, eof : BOOLEAN] /\ uploaded \in Nat
      /\ uploaded = part.position /\ uploaded <= part.size
  BY DEF ConnectionInv, ConnectionTypeOK, UploadIsWhole
<1>4. part.size \in Nat /\ part.position \in Nat /\ length \in Nat \ {0}
  <2>1. part.size \in Sizes \union {0} /\ part.position \in Nat BY <1>3
  <2>2. length \in Nat \ {0} BY <1>1, ConnectionAssumption
  <2>3. \A s \in Sizes \union {0} : s \in Nat BY ConnectionAssumption
  <2> QED BY <2>1, <2>2, <2>3
<1>5. n \in Nat /\ part.position + n <= part.size /\ (n = 0 => part.position = part.size)
  BY <1>3, <1>4 DEF ReadLength
<1> HIDE DEF n
<1>6. /\ part'.size = part.size /\ part'.position = part.position + n /\ part'.eof = (n = 0)
      /\ part' \in [size : Sizes \union {0}, position : Nat, eof : BOOLEAN]
  <2>1. part' = [part EXCEPT !.position = part.position + n, !.eof = (n = 0)] BY <1>1 DEF n
  <2> DEFINE S == Sizes \union {0}
             m == part.position + n
             b == (n = 0)
  <2>2. part \in [size : S, position : Nat, eof : BOOLEAN] /\ m \in Nat /\ b \in BOOLEAN
    BY <1>3, <1>4, <1>5
  <2>3. part' = [part EXCEPT !.position = m, !.eof = b] BY <2>1
  <2> HIDE DEF S, m, b
  <2>4. /\ part'.size = part.size /\ part'.position = m /\ part'.eof = b
        /\ part' \in [size : S, position : Nat, eof : BOOLEAN]
    BY <2>2, <2>3
  <2> QED BY <2>4 DEF S, m, b
<1>7. uploaded' = part'.position /\ uploaded' \in Nat BY <1>1, <1>3, <1>5, <1>6 DEF n
<1>8. ConnectionTypeOK' BY <1>2, <1>6, <1>7 DEF ConnectionInv, ConnectionTypeOK
<1>9. SentAsAsked' BY <1>2 DEF ConnectionInv, SentAsAsked, SentVerb, Idle
<1>10. UploadIsWhole' BY <1>3, <1>5, <1>6, <1>7 DEF UploadIsWhole
<1> QED BY <1>2, <1>7, <1>8, <1>9, <1>10 DEF ConnectionInv, Idle

\* A call ends: the handle is a fresh one, or it is remembered that it is not.
LEMMA CallEnds ==
  ASSUME ConnectionInv, EndOper \/ EndBare \/ Escape
  PROVE  ConnectionInv'
<1> DEFINE T == [verb : Verbs, custom : {"none", "DELETE"},
                 list : {"none", "headers", "freed"}, dumps : BOOLEAN]
<1>1. handle \in T /\ FreedNotReset \in T
  <2>1. handle \in T BY DEF ConnectionInv, ConnectionTypeOK
  <2> QED BY <2>1 DEF FreedNotReset
<1>2. /\ request' = NoRequest /\ part' = part /\ uploaded' = uploaded /\ leftover' \in BOOLEAN
      /\ handle' \in T /\ (~leftover' => handle' = Default)
  <2>1. CASE EndOper BY <2>1, HandleIs DEF EndOper, AfterOper
  <2>2. CASE EndBare BY <1>1, <2>2 DEF EndBare
  <2>3. CASE Escape BY <2>3, HandleIs DEF Escape, Idle
  <2> QED BY <2>1, <2>2, <2>3
<1>3. ConnectionTypeOK' BY <1>2 DEF ConnectionInv, ConnectionTypeOK
<1>4. SentAsAsked' BY <1>2 DEF SentAsAsked, Idle
<1>5. UploadIsWhole' BY <1>2 DEF ConnectionInv, UploadIsWhole
<1> QED BY <1>2, <1>3, <1>4, <1>5 DEF ConnectionInv

LEMMA ConnectionInvKept == ConnectionInv /\ [ConnectionNext]_connectionVars => ConnectionInv'
<1> SUFFICES ASSUME ConnectionInv, [ConnectionNext]_connectionVars PROVE ConnectionInv' OBVIOUS
<1>1. ASSUME NEW headers \in BOOLEAN, Get(headers) \/ Post(headers) PROVE ConnectionInv'
  BY <1>1, OperBegins DEF Get, Post
<1>2. ASSUME NEW headers \in BOOLEAN, Del(headers) \/ HeadRequest(headers) PROVE ConnectionInv'
  BY <1>2, BareBegins
<1>3. CASE ReadCallback BY <1>3, CallbackKeeps
<1>4. CASE EndOper \/ EndBare \/ Escape BY <1>4, CallEnds
<1>5. CASE UNCHANGED connectionVars
  BY <1>5 DEF connectionVars, ConnectionInv, ConnectionTypeOK, SentAsAsked, SentVerb, UploadIsWhole, Idle
<1> QED BY <1>1, <1>2, <1>3, <1>4, <1>5 DEF ConnectionNext

(* SentAsAsked and UploadIsWhole: over a persistent curl handle a request  *)
(* goes out with its own verb and headers, except right after a del or     *)
(* head, and read_callback hands curl each byte of a posted part once, for *)
(* all sizes of the part and of curl's buffers.                            *)
THEOREM RequestsAreAsAsked == ConnectionSpec => [](SentAsAsked /\ UploadIsWhole)
<1>1. ConnectionInv => SentAsAsked /\ UploadIsWhole BY DEF ConnectionInv
<1> QED BY <1>1, ConnectionInitInv, ConnectionInvKept, PTL DEF ConnectionSpec

-----------------------------------------------------------------------------
(* The storages side by side *)

LEMMA StoragesStart == MCInit => StoragesInv
<1> SUFFICES ASSUME MCInit PROVE StoragesInv OBVIOUS
<1>1. component \in Components BY DEF MCInit
<1>2. CASE component = "lts" BY <1>2, LtsInitInv DEF MCInit, StoragesInv
<1>3. CASE component = "disk" BY <1>3, DiskInitInv DEF MCInit, StoragesInv
<1>4. CASE component = "overlay" BY <1>4, OverlayInitInv DEF MCInit, StoragesInv
<1>5. CASE component = "composed" BY <1>5, ComposedInitInv DEF MCInit, StoragesInv
<1>6. CASE component = "metatile" BY <1>6, MetaStarts DEF MCInit, StoragesInv
<1>7. CASE component = "connection" BY <1>7, ConnectionInitInv DEF MCInit, StoragesInv
<1>8. CASE component \in {"config", "index"} BY <1>8 DEF StoragesInv
<1> QED BY <1>1, <1>2, <1>3, <1>4, <1>5, <1>6, <1>7, <1>8 DEF Components

\* A step is one of the component that was chosen, and the others rest.
LEMMA StoragesStep ==
  ASSUME [MCNext]_allVars
  PROVE  /\ component' = component
         /\ component = "lts" => [LtsNext]_ltsVars
         /\ component = "disk" => [DiskNext]_diskVars
         /\ component = "overlay" => [OverlayNext]_overlayVars
         /\ component = "composed" => [StoragesNext]_storageVars
         /\ component = "metatile" => [MetaNext]_metaVars
         /\ component = "connection" => [ConnectionNext]_connectionVars
BY DEF MCNext, allVars, Rest1

LEMMA StoragesKept == StoragesInv /\ component \in Components /\ [MCNext]_allVars =>
                        StoragesInv' /\ component' \in Components
<1> SUFFICES ASSUME StoragesInv, component \in Components, [MCNext]_allVars
             PROVE  StoragesInv' /\ component' \in Components
  OBVIOUS
<1>1. component' = component BY StoragesStep
<1>2. CASE component = "lts"
  <2>1. LtsInv' BY <1>2, StoragesStep, LtsInvKept DEF StoragesInv
  <2> QED BY <1>1, <1>2, <2>1 DEF StoragesInv, Components
<1>3. CASE component = "disk"
  <2>1. DiskInv' BY <1>3, StoragesStep, DiskInvKept DEF StoragesInv
  <2> QED BY <1>1, <1>3, <2>1 DEF StoragesInv, Components
<1>4. CASE component = "overlay"
  <2>1. OverlayInv' BY <1>4, StoragesStep, OverlayInvKept DEF StoragesInv
  <2> QED BY <1>1, <1>4, <2>1 DEF StoragesInv, Components
<1>5. CASE component = "composed"
  <2>1. ComposedInv' BY <1>5, StoragesStep, ComposedInvKept DEF StoragesInv
  <2> QED BY <1>1, <1>5, <2>1 DEF StoragesInv, Components
<1>6. CASE component = "metatile"
  <2>1. MetaInv' BY <1>6, StoragesStep, MetaInvKept DEF StoragesInv
  <2> QED BY <1>1, <1>6, <2>1 DEF StoragesInv, Components
<1>7. CASE component = "connection"
  <2>1. ConnectionInv' BY <1>7, StoragesStep, ConnectionInvKept DEF StoragesInv
  <2> QED BY <1>1, <1>7, <2>1 DEF StoragesInv, Components
<1>8. CASE component \in {"config", "index"} BY <1>1, <1>8 DEF StoragesInv, Components
<1> QED BY <1>2, <1>3, <1>4, <1>5, <1>6, <1>7, <1>8 DEF Components

(* StoragesInv: in every state of the storages side by side each has its    *)
(* types and what its clients rely on, each under the conditions its own    *)
(* property states: lts_storage combines copies to whole metatiles only,    *)
(* disk_storage's handles keep their data, expiry_overlay has stale tiles   *)
(* marked, composed storages expire all that they serve, a metatile is read *)
(* within its bounds and a posted body goes out whole.                      *)
THEOREM StoragesAreCorrect == MCSpec => []StoragesInv
<1>1. MCInit => StoragesInv /\ component \in Components BY StoragesStart DEF MCInit
<1>2. (StoragesInv /\ component \in Components) /\ [MCNext]_allVars => (StoragesInv /\ component \in Components)'
  BY StoragesKept
<1> QED BY <1>1, <1>2, PTL DEF MCSpec
=============================================================================

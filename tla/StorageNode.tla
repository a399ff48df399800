----------------------------- MODULE StorageNode -----------------------------
(***************************************************************************)
(* The storage node's web application (controllers/mercator_tiles.py,      *)
(* lib/mqCache.py, lib/mqExpiry.py) and its expiry information server      *)
(* (expiry_info/server.py), seen by one metatile of one style. A node      *)
(* keeps a file per tile, format and replica, and the expiry server next   *)
(* to it one bit per metatile: one for all the tiles, formats and replicas *)
(* of it that the node holds.                                              *)
(***************************************************************************)
EXTENDS Integers, FiniteSets

CONSTANTS
  TileCount,    \* tiles times formats of the metatile, in the order of the urls
  HostCount,    \* serverCount of the hashWrapper
  HashedHost,   \* tile -> host that its coordinates hash to
  MaxVersion    \* bound on the versions of the metatile that are stored

ASSUME NodeAssumption ==
  /\ TileCount \in Nat \ {0} /\ HostCount \in Nat \ {0} /\ MaxVersion \in Nat
  /\ HashedHost \in [1 .. TileCount -> 0 .. HostCount - 1]

VARIABLES
  files,   \* files[r][t]: version (0: no file) and modification time
  bits,    \* bits[h]: the metatile is marked as expired on host h
  up       \* hosts that can be reached

nodeVars == <<files, bits, up>>

Tiles == 1 .. TileCount
Hosts == 0 .. HostCount - 1
Replicas == {0, 1}

\* hashWrapper::getHost: replicas are on neighbours in the list of hosts.
Host(t, r) == (HashedHost[t] + r) % HostCount

NoFile == [ver |-> 0, time |-> "epoch"]

NodeTypeOK ==
  /\ files \in [Replicas -> [Tiles -> [ver : 0 .. MaxVersion, time : {"epoch", "now"}]]]
  /\ bits \in [Hosts -> BOOLEAN]
  /\ up \subseteq Hosts

NodeInit ==
  /\ files = [r \in Replicas |-> [t \in Tiles |-> NoFile]]
  /\ bits = [h \in Hosts |-> FALSE]
  /\ up = Hosts

\* mqExpiryInfo over UDP: the server sets the bit, or the request is lost, times
\* out and is given up.
SetBit(h, val, lost) == bits' = IF lost THEN bits ELSE [bits EXCEPT ![h] = val]

\* A POST stores the tile through a temporary file and a rename, sets its time
\* from the Last-Modified header, and the metatile's bit accordingly.
Store(t, r, version, lost) ==
  /\ files' = [files EXCEPT ![r][t] = [ver |-> version, time |-> "now"]]
  /\ SetBit(Host(t, r), FALSE, lost)

\* Mutant of MarkExpired: only the metatile's bit is set.
MarkBitOnly(t, r, lost) ==
  /\ UNCHANGED files
  /\ IF files[r][t].ver # 0 THEN SetBit(Host(t, r), TRUE, lost) ELSE UNCHANGED bits

\* A GET with Last-Modified at the epoch: a tile that is there gets that time,
\* and its metatile the bit. Without the tile nothing is set: 404.
MarkExpired(t, r, lost) ==
  IF files[r][t].ver # 0
    THEN /\ files' = [files EXCEPT ![r][t].time = "epoch"]
         /\ SetBit(Host(t, r), TRUE, lost)
    ELSE UNCHANGED <<files, bits>>

\* lastModifiedTime: the epoch when the bit is set; the time of the file when it
\* is not, or when the expiry server did not answer.
LastModified(t, r) ==
  {files[r][t].time} \union (IF bits[Host(t, r)] THEN {"epoch"} ELSE {})

\* A plain GET: not found, expired or found.
ServeTile(t, r) ==
  IF files[r][t].ver = 0 THEN {"bad"}
  ELSE {IF time = "now" THEN "good" ELSE "dirty" : time \in LastModified(t, r)}

\* A copy that the node may serve as fresh, when its expiry server answers.
Fresh(t, r) == files[r][t].ver # 0 /\ files[r][t].time = "now" /\ ~bits[Host(t, r)]

\* A host becomes unreachable or reachable; its disk keeps what it has.
HostFails == \E h \in up : up' = up \ {h} /\ UNCHANGED <<files, bits>>
HostReturns == \E h \in Hosts \ up : up' = up \union {h} /\ UNCHANGED <<files, bits>>
=============================================================================

--------------------------- MODULE ExpiryOverlay ---------------------------
(* storage/expiry_overlay.cpp: a tile storage whose expiry marks live in   *)
(* the expiry service (module ExpiryServer) and not with the tiles.  Every *)
(* operation but get_meta is two remote calls, one to the service and one  *)
(* to the storage underneath, and clients interleave between them.  One    *)
(* metatile; a stored tile is the number of expiries that had been called  *)
(* when its put_meta began, so that it is stale once more have been.       *)
(* Puts of one metatile may overlap: nothing locks it, and a task that was *)
(* resubmitted or cleared is out with two workers at once.  The service is *)
(* asked until it answers (module ExpiryServer, EveryCallReturns).         *)
EXTENDS Naturals

CONSTANTS
    Putters,     \* callers of put_meta
    MaxExpiries, \* bound: calls of expire
    MaxStores    \* bound: calls of put_meta

ASSUME OverlayAssumption == MaxExpiries \in Nat /\ MaxStores \in Nat

VARIABLES
    marked,   \* the service's mark for the metatile
    stored,   \* the tile the storage underneath holds
    storing,  \* putter -> its put_meta in progress; last: none has cleared the mark since
    looking,  \* get in progress
    shown,    \* the handle the last get returned
    expiries, \* expire calls so far
    stores,   \* put_meta calls so far
    current   \* history: the stored tile is that of the last put_meta to clear the mark

overlayVars == <<marked, stored, storing, looking, shown, expiries, stores, current>>

NoTile == [there |-> FALSE, begun |-> 0]
Tile(n) == [there |-> TRUE, begun |-> n]
IdlePut == [pc |-> "idle", begun |-> 0, last |-> FALSE]
IdleGet == [pc |-> "idle", expired |-> FALSE, sure |-> FALSE, since |-> 0]
NoAnswer == [exists |-> FALSE, expired |-> FALSE, tile |-> NoTile, sure |-> FALSE, since |-> 0]

OverlayInit ==
    /\ marked = FALSE /\ stored = NoTile /\ storing = [p \in Putters |-> IdlePut]
    /\ looking = IdleGet /\ shown = NoAnswer /\ expiries = 0 /\ stores = 0 /\ current = TRUE

(* expire: the mark is set; the storage underneath is not told.            *)
OverlayExpire ==
    /\ expiries < MaxExpiries
    /\ expiries' = expiries + 1
    /\ marked' = TRUE
    /\ UNCHANGED <<stored, storing, looking, shown, stores, current>>

(* put_meta: first the mark is cleared ...                                 *)
PutClears(p) ==
    /\ storing[p].pc = "idle" /\ stores < MaxStores
    /\ stores' = stores + 1
    /\ storing' = [q \in Putters |->
                      IF q = p THEN [pc |-> "cleared", begun |-> expiries, last |-> TRUE]
                      ELSE [storing[q] EXCEPT !.last = FALSE]]
    /\ marked' = FALSE
    /\ current' = FALSE
    /\ UNCHANGED <<stored, looking, shown, expiries>>

(* ... then the metatile is handed to the storage, which may refuse it.    *)
ClearedNow == FALSE                                        \* mutant
MarkAtEnd == marked
PutStores(p, ok) ==
    /\ storing[p].pc = "cleared"
    /\ stored' = IF ok THEN Tile(storing[p].begun) ELSE stored
    /\ current' = IF ok THEN storing[p].last ELSE current
    /\ marked' = MarkAtEnd
    /\ storing' = [storing EXCEPT ![p] = IdlePut]
    /\ UNCHANGED <<looking, shown, expiries, stores>>

(* get: the service is asked for the mark, then the storage for the tile;  *)
(* overlay_handle answers expired() with that mark and leaves the rest to  *)
(* the tile's own handle.  `sure`: no put was open at the first call and   *)
(* the last to clear the mark had stored its tile last.                    *)
GetMark ==
    /\ looking.pc = "idle"
    /\ looking' = [pc |-> "marked", expired |-> marked, since |-> expiries,
                   sure |-> current /\ \A p \in Putters : storing[p].pc = "idle"]
    /\ UNCHANGED <<marked, stored, storing, shown, expiries, stores, current>>

GetTile ==
    /\ looking.pc = "marked"
    /\ shown' = [exists |-> stored.there, expired |-> looking.expired, tile |-> stored,
                 sure |-> looking.sure, since |-> looking.since]
    /\ looking' = IdleGet
    /\ UNCHANGED <<marked, stored, storing, expiries, stores, current>>

OverlayNext ==
    \/ OverlayExpire
    \/ \E p \in Putters : PutClears(p) \/ \E ok \in BOOLEAN : PutStores(p, ok)
    \/ GetMark \/ GetTile

OverlaySpec == OverlayInit /\ [][OverlayNext]_overlayVars

-----------------------------------------------------------------------------
(* The type invariant.                                                     *)
OverlayTypeOK ==
    /\ marked \in BOOLEAN /\ current \in BOOLEAN
    /\ stored \in [there : BOOLEAN, begun : 0..expiries]
    /\ storing \in [Putters -> [pc : {"idle", "cleared"}, begun : 0..expiries, last : BOOLEAN]]
    /\ looking \in [pc : {"idle", "marked"}, expired : BOOLEAN, sure : BOOLEAN, since : 0..expiries]
    /\ shown \in [exists : BOOLEAN, expired : BOOLEAN, sure : BOOLEAN,
                  tile : [there : BOOLEAN, begun : 0..expiries], since : 0..expiries]
    /\ expiries \in 0..MaxExpiries /\ stores \in 0..MaxStores

(* No expiry is lost to a put_meta: one that comes between the two calls   *)
(* of expiry_overlay::put_meta, for data newer than what is being stored,  *)
(* leaves its mark on the tile once it is stored.  This is what clearing   *)
(* the mark before storing buys.  It holds for the tile of the put_meta    *)
(* that was the last to clear the mark, whatever other puts are open: one  *)
(* that has cleared it and stored nothing leaves the old tile unmarked,    *)
(* and so does one that stores before another that began earlier.          *)
StaleIsMarked == current /\ stored.there /\ stored.begun < expiries => marked

(* A handle that calls its tile fresh holds no tile that was expired when  *)
(* expiry_overlay::get was called, unless a put_meta was between its two   *)
(* calls then, or the stored tile was not that of the last to clear the    *)
(* mark.  Puts that begin after the get may overlap as they like.          *)
FreshIsNotStale ==
    shown.exists /\ ~shown.expired /\ shown.sure => shown.tile.begun >= shown.since

(* An expire after the last put_meta to do so has cleared the mark has set *)
(* it again.                                                               *)
MarkedSinceCleared ==
    \A p \in Putters :
        storing[p].pc = "cleared" /\ storing[p].last /\ storing[p].begun < expiries => marked

(* What a get that was told of no mark will find: neither the stored tile  *)
(* nor one being stored is older than the get.                             *)
NothingOlderComes ==
    looking.pc = "marked" /\ ~looking.expired /\ looking.sure =>
        /\ stored.there => stored.begun >= looking.since
        /\ \A p \in Putters : storing[p].pc = "cleared" => storing[p].begun >= looking.since

(* The inductive invariant of expiry_overlay.                              *)
OverlayInv ==
    /\ OverlayTypeOK /\ StaleIsMarked /\ MarkedSinceCleared
    /\ NothingOlderComes /\ FreshIsNotStale
====

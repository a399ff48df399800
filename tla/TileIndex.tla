----------------------------- MODULE TileIndex -----------------------------
(* The three places that keep something per metatile under a number packed *)
(* from a tile's coordinates: the expiry server's set of fragments         *)
(* (expiry_server.cpp, tile_to_frag), the storage nodes' expiry bitmap     *)
(* (mqExpiry.py, ZLevels) and the disk storage's files (meta_tile.cpp,     *)
(* xyz_to_meta).  The same tiles are marked and cleared in all three, and  *)
(* a plain set of metatiles beside them is the reference.                  *)
(*                                                                         *)
(* Coordinates have their real size, with METATILE = 8.  A set of bits is  *)
(* the set of their positions.                                             *)
EXTENDS Recursions, FiniteSets

CONSTANTS
    IndexTiles, \* tiles of zoom levels 3 to 18
    MaxMarks    \* bound: metatiles marked at a time

Level(z) == [x : 0..(TwoTo[z] - 1), y : 0..(TwoTo[z] - 1), z : {z}]

ASSUME IndexAssumption ==
    /\ \A t \in IndexTiles : t.z \in 3..18 /\ t \in Level(t.z)
    /\ MaxMarks \in Nat

VARIABLES
    frags,   \* expiry_data's set
    bitmap,  \* the bitmap's set bits
    paths,   \* the metatile files there are
    metas    \* the reference: the metatiles marked

indexVars == <<frags, bitmap, paths, metas>>

MetaOf(t) == [x |-> t.x \div 8, y |-> t.y \div 8, z |-> t.z]

(* tile_to_frag's 32 bits: the four highest beside the other 28, because   *)
(* the whole does not fit this module's integers.  A level's tag takes the *)
(* upper bits and the two coordinates the lower ones.                      *)
Word(high, low) == [high |-> high + low \div TwoTo[28], low |-> low % TwoTo[28]]
OneBitShort(t) == (t.x \div 8) * (TwoTo[t.z - 3] \div 2) + t.y \div 8   \* mutant
xy_frag(t) == (t.x \div 8) * TwoTo[t.z - 3] + t.y \div 8
tile_to_frag(t) ==
    IF t.z = 18 THEN Word(0, xy_frag(t))
    ELSE IF t.z > 13 THEN Word(4 + (17 - t.z), xy_frag(t))
    ELSE Word(8 + (13 - t.z) \div 4, ((13 - t.z) % 4) * TwoTo[26] + xy_frag(t))

(* ZLevels: the bits of a level start where those of the level above end,  *)
(* and within it a metatile's place is its Morton code: the bits of x and  *)
(* of y are spread out, the upper half of each group of 2 * d by d, until  *)
(* no two are next to each other.                                          *)
LevelSize(z) == IF z <= 3 THEN 1 ELSE TwoTo[2 * (z - 3)]
offsets[z \in Nat] == IF z = 0 THEN 0 ELSE offsets[z - 1] + LevelSize(z - 1)
Bits(n) == {k \in 0..30 : (n \div TwoTo[k]) % 2 = 1}
NumberOf(bits) == SumTo([k \in 1..64 |-> IF k - 1 \in bits THEN TwoTo[k - 1] ELSE 0])[64]
ShiftLeft(bits, d) == {k + d : k \in bits}
Mask(d) == {k \in 0..63 : (k \div d) % 2 = 0}        \* for 8: 0x00FF00FF00FF00FF
Spread(bits, d) == (bits \cup ShiftLeft(bits, d)) \cap Mask(d)
interleave(bits) == Spread(Spread(Spread(Spread(Spread(bits \cap 0..31, 16), 8), 4), 2), 1)
Morton(x, y) == NumberOf(ShiftLeft(interleave(Bits(x)), 1) \cup interleave(Bits(y)))
tile_to_meta_idx(t) == offsets[t.z] + Morton(t.x \div 8, t.y \div 8)

(* xyz_to_meta: five levels of directories of four bits of each coordinate *)
(* of the metatile's corner.                                               *)
Nibble(n, i) == (n \div TwoTo[4 * i]) % 16
xyz_to_meta(t) ==
    LET x == t.x - (t.x % 8)
        y == t.y - (t.y % 8)
    IN [z |-> t.z, hash |-> [i \in 0..4 |-> Nibble(x, i) * 16 + Nibble(y, i)]]

(* Every tile tried, with its metatile and its three codes.                *)
Coded == {[meta |-> MetaOf(t), frag |-> tile_to_frag(t), bit |-> tile_to_meta_idx(t),
           path |-> xyz_to_meta(t)] : t \in IndexTiles}

IndexInit == frags = {} /\ bitmap = {} /\ paths = {} /\ metas = {}

set_bit(idx, val) == IF val > 0 THEN bitmap \cup {idx} ELSE bitmap \ {idx}

Mark(c) ==
    /\ Cardinality(metas \cup {c.meta}) <= MaxMarks
    /\ frags' = frags \cup {c.frag}
    /\ bitmap' = set_bit(c.bit, 1)
    /\ paths' = paths \cup {c.path}
    /\ metas' = metas \cup {c.meta}

Clear(c) ==
    /\ frags' = frags \ {c.frag}
    /\ bitmap' = set_bit(c.bit, 0)
    /\ paths' = paths \ {c.path}
    /\ metas' = metas \ {c.meta}

IndexNext == \E c \in Coded : Mark(c) \/ Clear(c)
IndexSpec == IndexInit /\ [][IndexNext]_indexVars

(* Marking or clearing a tile touches the tiles of its own metatile and no *)
(* others, at every zoom level and up to the edges of it, in each of the   *)
(* three: no two metatiles share a fragment of tile_to_frag, a bit of      *)
(* tile_to_meta_idx or a path of xyz_to_meta, and no metatile has two.     *)
TileIndexesAgree ==
    metas # {} \/ frags # {} \/ bitmap # {} \/ paths # {} => \A c \in Coded :
        /\ (c.meta \in metas) = (c.frag \in frags)
        /\ (c.meta \in metas) = (c.bit \in bitmap)
        /\ (c.meta \in metas) = (c.path \in paths)
====

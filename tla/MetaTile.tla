----------------------------- MODULE MetaTile ------------------------------
(* The metatile format, as its writers and its readers have it:            *)
(* storage/meta_tile.cpp (write_headers,                                   *)
(* metatile_reader, read_from_meta), http_storage::make_metatile,          *)
(* simple_http_storage::get_meta and py/metatile.py (make_meta,            *)
(* metatile_reader).  A writer is given the tiles of one metatile in some  *)
(* formats; a reader is given what was written, or a part of it that a     *)
(* full disk or a broken connection has left.                              *)
(*                                                                         *)
(* A metatile is a sequence of units.  A header is one unit: its format    *)
(* and a table of an offset, counted from the start of the metatile, and a *)
(* size for each tile.  A byte of tile data is one unit that says whose    *)
(* it is.                                                                  *)
EXTENDS Recursions

CONSTANTS
    MetaSide,     \* METATILE
    MetaFormats,  \* the formats asked for, in the order of get_formats_vec
    SizeTables,   \* sizes the tiles may have: a function on formats and places
    Zooms         \* zoom levels, some of which have fewer tiles than a metatile

FormatSet == {MetaFormats[i] : i \in DOMAIN MetaFormats}
Places == (0..MetaSide - 1) \X (0..MetaSide - 1)

ASSUME MetaAssumption ==
    /\ MetaSide \in Nat \ {0} /\ Zooms \subseteq Nat
    /\ MetaFormats \in Seq(FormatSet)
    /\ SizeTables \subseteq [FormatSet -> [Places -> Nat]]

VARIABLES
    job,      \* what is written: writer, zoom, corner, size of each tile
    metatile, \* what was written
    got       \* how much of it the readers have

metaVars == <<job, metatile, got>>

Writers == {"make_meta", "make_metatile", "simple_http"}
MinOf(a, b) == IF a < b THEN a ELSE b
get_meta_dimensions(z) == MinOf(TwoTo[z], MetaSide)
Offset(x, y) == y * MetaSide + x

(* Byte k of the tile at (x, y) of the metatile.                           *)
ByteOf(f, x, y, k) == [kind |-> "byte", fmt |-> f, x |-> x, y |-> y, k |-> k, index |-> <<>>]
Header(f, index) == [kind |-> "header", fmt |-> f, x |-> 0, y |-> 0, k |-> 0, index |-> index]
TileBytes(f, x, y) == [k \in 1..job.size[f][<<x, y>>] |-> ByteOf(f, x, y, k)]

(* The tiles of one format as the writers walk them, rows then columns.    *)
RowsAndColumns(z) ==
    LET dim == get_meta_dimensions(z)
    IN [i \in 1..(dim * dim) |-> <<(i - 1) % dim, (i - 1) \div dim>>]
TilesOf(f, z) == [n \in DOMAIN RowsAndColumns(z) |->
                     TileBytes(f, RowsAndColumns(z)[n][1], RowsAndColumns(z)[n][2])]
Walk(f, z) == Joined(TilesOf(f, z))
AllBytes(z) == Joined([i \in DOMAIN MetaFormats |-> Walk(MetaFormats[i], z)])

(* write_headers: one size for each place of each format, the offsets      *)
(* running on from one place and one format to the next.                   *)
write_headers(sizes) ==
    [i \in DOMAIN MetaFormats |->
        Header(MetaFormats[i],
               [p \in 1..(MetaSide * MetaSide) |->
                   LET at == (i - 1) * MetaSide * MetaSide + p
                   IN [offset |-> Len(MetaFormats) + SumTo(sizes)[at - 1], size |-> sizes[at]]])]

(* make_metatile: a size for each place of each format, 0 outside the      *)
(* zoom level's tiles.                                                     *)
PackedSizes(z) ==                                          \* mutant
    LET there == RowsAndColumns(z)
        n == MetaSide * MetaSide
    IN [at \in 1..(Len(MetaFormats) * n) |->
           LET f == MetaFormats[((at - 1) \div n) + 1]
               p == ((at - 1) % n) + 1
           IN IF p <= Len(there) THEN job.size[f][there[p]] ELSE 0]
GridSizes(z) ==
    LET dim == get_meta_dimensions(z)
        n == MetaSide * MetaSide
    IN [at \in 1..(Len(MetaFormats) * n) |->
           LET f == MetaFormats[((at - 1) \div n) + 1]
               x == ((at - 1) % n) % MetaSide
               y == ((at - 1) % n) \div MetaSide
           IN IF x < dim /\ y < dim THEN job.size[f][<<x, y>>] ELSE 0]
make_metatile(z) == write_headers(GridSizes(z)) \o AllBytes(z)

(* simple_http_storage::get_meta fills the sizes in the order of its       *)
(* requests, without a gap, and asks for the rows of corner.x and the      *)
(* columns of corner.y: away from the diagonal those are another           *)
(* metatile's tiles, which no byte of this one is.                         *)
SimpleSizes(z) ==
    LET there == RowsAndColumns(z)
        count == Len(there)
    IN [at \in 1..(Len(MetaFormats) * MetaSide * MetaSide) |->
           IF at > Len(MetaFormats) * count THEN 0
           ELSE job.size[MetaFormats[((at - 1) \div count) + 1]][there[((at - 1) % count) + 1]]]
Foreign(bytes) == [i \in DOMAIN bytes |-> [bytes[i] EXCEPT !.fmt = "another metatile"]]
simple_get_meta(z, diagonal) ==
    write_headers(SimpleSizes(z)) \o (IF diagonal THEN AllBytes(z) ELSE Foreign(AllBytes(z)))

(* make_meta: write_offsets counts on from the end of the headers and      *)
(* leaves <0, 0> for a place with no tile; write_contents follows.         *)
OffsetsOf(i, z) ==
    LET walk == RowsAndColumns(z)
        sizes == [n \in DOMAIN walk |-> job.size[MetaFormats[i]][walk[n]]]
        first == Len(MetaFormats) + SumTo([j \in DOMAIN MetaFormats |-> Len(Walk(MetaFormats[j], z))])[i - 1]
    IN [p \in 1..(MetaSide * MetaSide) |->
           LET nth == {n \in DOMAIN walk : Offset(walk[n][1], walk[n][2]) = p - 1}
           IN IF nth = {} THEN [offset |-> 0, size |-> 0]
              ELSE LET n == CHOOSE n \in nth : TRUE
                   IN [offset |-> first + SumTo(sizes)[n - 1], size |-> sizes[n]]]
make_meta(z) == [i \in DOMAIN MetaFormats |-> Header(MetaFormats[i], OffsetsOf(i, z))] \o AllBytes(z)

MetaInit ==
    /\ job \in [writer : Writers, z : Zooms, diagonal : BOOLEAN,
                size : SizeTables]
    /\ metatile = <<>> /\ got = 0

MetaWritten ==
    CASE job.writer = "make_meta" -> make_meta(job.z)
      [] job.writer = "make_metatile" -> make_metatile(job.z)
      [] OTHER -> simple_get_meta(job.z, job.diagonal)

WriteMeta ==
    /\ metatile = <<>>
    /\ metatile' = MetaWritten
    /\ got' = Len(metatile')
    /\ UNCHANGED job

(* Less of it arrives.                                                     *)
CutShort ==
    /\ got > 0
    /\ got' = got - 1
    /\ UNCHANGED <<job, metatile>>

MetaNext == WriteMeta \/ CutShort
MetaSpec == MetaInit /\ [][MetaNext]_metaVars

-----------------------------------------------------------------------------
(* The readers, given the first `got` units.                               *)
data == SubSeq(metatile, 1, got)
IsHeader(i) == i <= got /\ data[i].kind = "header"
Cutout(offset, size) == SubSeq(data, offset + 1, MinOf(offset + size, got))

(* All three look at one header after another while they are headers.      *)
HeadersOf(f) == {i \in 1..got : (\A j \in 1..i : IsHeader(j)) /\ data[i].fmt = f}
Place(i, x, y) == data[i].index[Offset(x, y) + 1]

(* metatile_reader::get: a tile that does not end within the data is not   *)
(* given out.                                                              *)
NoBoundCheck(f, x, y) ==                                   \* mutant
    IF HeadersOf(f) = {} THEN <<>>
    ELSE LET e == Place(CHOOSE i \in HeadersOf(f) : TRUE, x, y) IN Cutout(e.offset, e.size)
reader_get(f, x, y) ==
    IF HeadersOf(f) = {} THEN <<>>
    ELSE LET e == Place(CHOOSE i \in HeadersOf(f) : TRUE, x, y)
         IN IF e.offset + e.size <= got THEN Cutout(e.offset, e.size) ELSE <<>>

(* read_from_meta gives out the bytes there are.                           *)
read_from_meta(f, x, y) ==
    IF HeadersOf(f) = {} THEN <<>>
    ELSE LET e == Place(CHOOSE i \in HeadersOf(f) : TRUE, x, y) IN Cutout(e.offset, e.size)

(* py metatile_reader: a header that nothing follows is not one; every     *)
(* table entry is a buffer on what there is.                               *)
py_reader(f, x, y) ==
    IF {i \in HeadersOf(f) : i < got} = {} THEN <<>>
    ELSE LET e == Place(CHOOSE i \in HeadersOf(f) : TRUE, x, y) IN Cutout(e.offset, e.size)

-----------------------------------------------------------------------------
InLevel(x, y) == x < get_meta_dimensions(job.z) /\ y < get_meta_dimensions(job.z)
ExpectedTile(f, x, y) == IF InLevel(x, y) THEN TileBytes(f, x, y) ELSE <<>>
(* simple_http_storage writes what the others do only on the diagonal and  *)
(* when the level fills the metatile.                                      *)
Trusted == job.writer = "simple_http" => job.diagonal /\ get_meta_dimensions(job.z) = MetaSide

(* Every tile of every format comes back as it went in, whichever of the   *)
(* writers made the metatile and whichever of the readers reads it: at low *)
(* zoom levels too, where the C++ writer keeps a running offset for places *)
(* without a tile and the Python writer a zero, and where the tiles of a   *)
(* row are fewer than the places of one.  Of simple_http_storage's it is   *)
(* said only where Trusted holds.                                          *)
ReadBack ==
    metatile # <<>> /\ got = Len(metatile) /\ Trusted =>
        \A f \in FormatSet, p \in Places :
            LET tile == ExpectedTile(f, p[1], p[2])
            IN /\ reader_get(f, p[1], p[2]) = tile
               /\ read_from_meta(f, p[1], p[2]) = tile
               /\ py_reader(f, p[1], p[2]) = tile

(* metatile_reader, which the broker cuts the clients' tiles out with,     *)
(* gives out a whole tile or nothing, wherever the metatile was cut off.   *)
TileOrNothing ==
    got > 0 /\ Trusted =>
        \A f \in FormatSet, p \in Places :
            reader_get(f, p[1], p[2]) \in {<<>>, ExpectedTile(f, p[1], p[2])}

(* Something was written by the job's writer, and the readers have some of *)
(* it.                                                                     *)
MetaInv ==
    /\ job \in [writer : Writers, z : Zooms, diagonal : BOOLEAN, size : SizeTables]
    /\ metatile \in {<<>>, MetaWritten}
    /\ got \in 0..Len(metatile)
    /\ TileOrNothing
====

---------------------------- MODULE DiskStorage ----------------------------
(* storage/disk_storage.cpp at the granularity of its file system calls.   *)
(* One metatile file is read through a disk_storage object by get and      *)
(* get_meta while other processes replace it (put_meta) and expire it: the *)
(* modification time 0 is the expiry mark.  A get is exists and            *)
(* last_write_time, then the open, header search and read of               *)
(* read_from_meta (storage/meta_tile.cpp); a get_meta is three calls, the  *)
(* time, the size and the read; a put_meta is the write of a temporary     *)
(* file and a rename.  The file is never removed, so exists and            *)
(* last_write_time are one step.                                           *)
(*                                                                         *)
(* A file is its version, the size it should have, the length it has (a    *)
(* full disk cuts the write short and `out << buf` is not checked), and    *)
(* the formats it has a header for.  Length 0 stands for a file that does  *)
(* not even hold its headers.                                              *)
EXTENDS Naturals, FiniteSets

CONSTANTS
    MaxPuts,        \* bound: metatiles written
    MaxCuts,        \* bound: writes cut short by a full disk
    MaxSize,        \* bound: sizes are 1..MaxSize
    MaxDescriptors, \* file descriptors the reading process may still open
    DiskFormats     \* formats a metatile may hold and a get may ask for

ASSUME DiskAssumption ==
    /\ MaxPuts \in Nat /\ MaxCuts \in Nat /\ MaxSize \in Nat /\ MaxDescriptors \in Nat
    /\ DiskFormats # {}

VARIABLES
    file,        \* the file at the metatile's path
    data_cache,  \* the reader's buffer
    data_locked, \* the reader's lock on it
    handles,     \* handles the reader's callers still hold
    getting,     \* get in progress
    metaRead,    \* get_meta in progress, or its answer
    putting,     \* put_meta in progress: the temporary file
    expiring,    \* expire in progress: past fs::exists
    descriptors, \* descriptors read_from_meta may still open
    puts, cuts,  \* metatiles and short writes so far
    gone         \* history: versions that were expired or replaced

diskVars == <<file, data_cache, data_locked, handles, getting, metaRead, putting,
              expiring, descriptors, puts, cuts, gone>>
reader == <<data_cache, data_locked, handles, getting, descriptors>>
writer == <<putting, puts, cuts>>

NoMetaFile == [version |-> 0, size |-> 0, length |-> 0, expired |-> FALSE, formats |-> {}]
Files == [version : 0..MaxPuts, size : 0..MaxSize, length : 0..MaxSize,
          expired : BOOLEAN, formats : SUBSET DiskFormats]
Exists == file # NoMetaFile
Content(f) == [version |-> f.version, length |-> f.length]
Contents == [version : 0..MaxPuts, length : 0..MaxSize]
NoGet == [pc |-> "idle", seen |-> NoMetaFile, format |-> CHOOSE f \in DiskFormats : TRUE, gone |-> {}]
NoMeta == [pc |-> "idle", size |-> 0, ok |-> FALSE, file |-> NoMetaFile, replaced |-> FALSE]

DiskInit ==
    /\ file = NoMetaFile /\ putting = NoMetaFile
    /\ data_cache = Content(NoMetaFile) /\ data_locked = FALSE /\ handles = {}
    /\ getting = NoGet /\ metaRead = NoMeta /\ expiring = FALSE
    /\ descriptors = MaxDescriptors /\ puts = 0 /\ cuts = 0 /\ gone = {}

(* get: a locked cache refuses (throws); otherwise the time is taken ...   *)
IgnoreLock == TRUE                                         \* mutant
MayGet == ~data_locked
GetStat(format) ==
    /\ getting.pc = "idle" /\ MayGet /\ Exists
    /\ getting' = [pc |-> "stat", seen |-> file, format |-> format, gone |-> gone]
    /\ UNCHANGED <<file, data_cache, data_locked, handles, metaRead, expiring, descriptors, gone>>
    /\ UNCHANGED writer

(* ... and read_from_meta reads what the path names by now.  It closes its *)
(* descriptor after reading a tile, but not when the headers are short or  *)
(* the format is not among them: the search then runs into tile data,      *)
(* fails the magic test and returns with the descriptor open.              *)
HeaderFound(f, format) == f.length > 0 /\ format \in f.formats
Left(f, format) == IF HeaderFound(f, format) THEN descriptors ELSE descriptors - 1
(* The handle has the time of the file first seen and the tile of the file *)
(* now there.                                                              *)
ReadThenStat(seen, now) == [expired |-> now.expired, data |-> Content(seen)]   \* mutant
Handed(seen, now) == [expired |-> seen.expired, data |-> Content(now)]
GetRead ==
    /\ getting.pc = "stat"
    /\ LET found == descriptors > 0 /\ HeaderFound(file, getting.format)
           h == Handed(getting.seen, file)
       IN /\ descriptors' = IF descriptors = 0 THEN 0 ELSE Left(file, getting.format)
          /\ data_cache' = IF found THEN h.data ELSE data_cache
          /\ data_locked' = (found \/ data_locked)
          /\ handles' = IF found
                        THEN handles \cup {[expired |-> h.expired, data |-> h.data, gone |-> getting.gone]}
                        ELSE handles
    /\ getting' = NoGet
    /\ UNCHANGED <<file, metaRead, expiring, gone>> /\ UNCHANGED writer

(* The handle's destructor.                                                *)
Release(h) ==
    /\ handles' = handles \ {h}
    /\ data_locked' = FALSE
    /\ UNCHANGED <<file, data_cache, getting, metaRead, expiring, descriptors, gone>>
    /\ UNCHANGED writer

(* get_meta: the time (an expired file is refused), the size, the read of  *)
(* that many bytes, which fails when the file is shorter by then.          *)
MetaStat ==
    /\ metaRead.pc \in {"idle", "done"} /\ Exists
    /\ metaRead' = [NoMeta EXCEPT !.pc = IF file.expired THEN "idle" ELSE "stat"]
    /\ UNCHANGED <<file, expiring, gone>> /\ UNCHANGED reader /\ UNCHANGED writer

MetaSize ==
    /\ metaRead.pc = "stat"
    /\ metaRead' = [metaRead EXCEPT !.pc = "sized", !.size = file.length]
    /\ UNCHANGED <<file, expiring, gone>> /\ UNCHANGED reader /\ UNCHANGED writer

MetaBytes == [file EXCEPT !.length = metaRead.size]
MetaRead ==
    /\ metaRead.pc = "sized"
    /\ metaRead' = [metaRead EXCEPT !.pc = "done", !.ok = (file.length >= metaRead.size),
                                    !.file = MetaBytes]
    /\ UNCHANGED <<file, expiring, gone>> /\ UNCHANGED reader /\ UNCHANGED writer

(* put_meta of a tile on the metatile's corner (any other is refused): the *)
(* temporary file, of which a full disk keeps a part ...                   *)
WriteInPlace(f) == putting' = f /\ file' = [f EXCEPT !.length = f.length \div 2]   \* mutant
WriteTemporary(f) == putting' = f /\ file' = file
PutWrite(size, length, formats) ==
    /\ putting = NoMetaFile /\ puts < MaxPuts
    /\ length <= size /\ (length < size => cuts < MaxCuts)
    /\ WriteTemporary([version |-> puts + 1, size |-> size, length |-> length,
                       expired |-> FALSE, formats |-> formats])
    /\ puts' = puts + 1
    /\ cuts' = IF length < size THEN cuts + 1 ELSE cuts
    /\ UNCHANGED <<metaRead, expiring, gone>> /\ UNCHANGED reader

(* ... renamed over the metatile, ...                                      *)
PutRename ==
    /\ putting # NoMetaFile
    /\ file' = putting /\ putting' = NoMetaFile
    /\ gone' = IF Exists THEN gone \cup {file.version} ELSE gone
    /\ metaRead' = [metaRead EXCEPT !.replaced = @ \/ metaRead.pc = "sized"]
    /\ UNCHANGED <<expiring, puts, cuts>> /\ UNCHANGED reader

(* ... or left behind by an error or by a writer that died.                *)
PutFails ==
    /\ putting # NoMetaFile
    /\ putting' = NoMetaFile
    /\ UNCHANGED <<file, metaRead, expiring, puts, cuts, gone>> /\ UNCHANGED reader

(* expire: fs::exists, then last_write_time(p, 0) on whatever the path     *)
(* names by then.                                                          *)
ExpireExists ==
    /\ ~expiring /\ Exists
    /\ expiring' = TRUE
    /\ UNCHANGED <<file, metaRead, gone>> /\ UNCHANGED reader /\ UNCHANGED writer
ExpireSetTime ==
    /\ expiring
    /\ expiring' = FALSE
    /\ file' = [file EXCEPT !.expired = TRUE]
    /\ gone' = gone \cup {file.version}
    /\ UNCHANGED metaRead /\ UNCHANGED reader /\ UNCHANGED writer

DiskNext ==
    \/ \E format \in DiskFormats : GetStat(format)
    \/ GetRead
    \/ \E h \in handles : Release(h)
    \/ MetaStat \/ MetaSize \/ MetaRead
    \/ \E size \in 1..MaxSize, length \in 0..MaxSize, formats \in SUBSET DiskFormats :
          PutWrite(size, length, formats)
    \/ PutRename \/ PutFails
    \/ ExpireExists \/ ExpireSetTime

DiskSpec == DiskInit /\ [][DiskNext]_diskVars

-----------------------------------------------------------------------------
(* The type invariant.  disk_storage::get's lock allows one handle at a    *)
(* time, and read_from_meta never loses more descriptors than there are.   *)
DiskTypeOK ==
    /\ file \in Files /\ putting \in Files
    /\ data_cache \in Contents /\ data_locked \in BOOLEAN
    /\ handles \subseteq [expired : BOOLEAN, data : Contents, gone : SUBSET (0..MaxPuts)]
    /\ Cardinality(handles) <= 1
    /\ getting \in [pc : {"idle", "stat"}, seen : Files, format : DiskFormats,
                    gone : SUBSET (0..MaxPuts)]
    /\ metaRead \in [pc : {"idle", "stat", "sized", "done"}, size : 0..MaxSize, ok : BOOLEAN,
                     file : Files, replaced : BOOLEAN]
    /\ expiring \in BOOLEAN /\ descriptors \in 0..MaxDescriptors
    /\ puts \in 0..MaxPuts /\ cuts \in 0..MaxCuts /\ gone \subseteq 0..MaxPuts

(* A handle that says its tile is fresh never holds a version that was     *)
(* already expired or replaced when get began: disk_storage::get takes the *)
(* time before it reads, so that a put_meta between the two can only make  *)
(* a fresh tile look expired, not an expired one look fresh.               *)
FreshWasFresh == \A h \in handles : ~h.expired => h.data.version \notin h.gone

(* What a handle hands out is what its own get read, however many other    *)
(* gets were tried while it was held: they share disk_storage::data_cache, *)
(* which data_locked keeps for the handle that is out.                     *)
HandleKeepsItsData == \A h \in handles : data_locked /\ data_cache = h.data

(* get_meta answers with a whole metatile, however its three calls fall    *)
(* among the steps of a concurrent put_meta, unless the put was renamed    *)
(* into place between file_size and the read (a larger file is then cut to *)
(* the old size) or the file was written short in the first place.         *)
MetaIsWhole ==
    metaRead.pc = "done" /\ metaRead.ok /\ ~metaRead.replaced /\ cuts = 0 =>
        metaRead.file.length = metaRead.file.size

(* What makes them inductive.  Versions are numbered in the order of the   *)
(* writes, and only a version that was in place can be gone ...            *)
GoneWasInPlace ==
    /\ file.version <= puts /\ putting.version <= puts
    /\ gone \subseteq 0..puts /\ getting.gone \subseteq gone
    /\ putting # NoMetaFile => putting.version \notin gone \cup {file.version}
    /\ expiring => Exists
    /\ Exists /\ ~file.expired => file.version \notin gone
(* ... so that what a get finds after a fresh time is a version that was   *)
(* not gone when it began; the get runs only while no handle is out.       *)
GetFindsFresh ==
    getting.pc = "stat" =>
        /\ ~data_locked
        /\ ~getting.seen.expired => file.version \notin getting.gone
OneHandle == (~data_locked => handles = {}) /\ \A g, h \in handles : g = h
(* Without a short write every file is whole, and the size that get_meta   *)
(* took is that of the file until a rename.                                *)
WholeFiles ==
    /\ cuts = 0 => file.length = file.size /\ putting.length = putting.size
    /\ metaRead.pc = "sized" /\ ~metaRead.replaced => metaRead.size = file.length
DiskInv ==
    /\ DiskTypeOK /\ GoneWasInPlace /\ GetFindsFresh /\ OneHandle /\ WholeFiles
    /\ FreshWasFresh /\ HandleKeepsItsData /\ MetaIsWhole
====

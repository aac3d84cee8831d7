------------------------------- MODULE FileSys --------------------------------
(***************************************************************************)
(* The file system on its disk: Create, Remove, RecursiveRemove and Format *)
(* of filesys/filesys.cc with directory.cc, filehdr.cc, openfile.cc and the*)
(* bitmap.  The state is the disk alone: every operation fetches what it   *)
(* needs and writes back what it changed.                                  *)
(*                                                                         *)
(* A header names its data sectors itself, or through one, two or three    *)
(* levels of index tables (levels 1 to 4 of filehdr.cc).  A directory is a *)
(* file with a table entry in each data sector.  Sectors keep what was     *)
(* last written to them when they are freed.  One thread uses the file     *)
(* system: the code has no lock (filesys/filesys.cc:33).                   *)
(*                                                                         *)
(* An operation is given as the stages it leaves the disk in, one after    *)
(* each structure that it writes back; the last one is its result.  NachOS *)
(* may stop at any other: then the disk is what a restart finds.           *)
(***************************************************************************)
EXTENDS Integers, FiniteSets, SequencesExt

CONSTANTS Names,
          DirNames,      \* bound: those that directories are given
          NumSectors,
          NumDirect,     \* data sectors a header names itself       (the code: 9)
          TableSize,     \* sectors an index table names            (32)
          NumTriple,     \* tables of level 4 in a header           (16)
          NumDirEntries, \* entries, and data sectors, of a directory (64 on 12)
          FileSizes      \* data sectors of the files that are created

ASSUME NamesAssumption == DirNames \subseteq Names
ASSUME SizesAssumption ==
    /\ {NumSectors, NumDirect, TableSize, NumTriple, NumDirEntries} \subseteq Nat \ {0}
    /\ NumDirect <= TableSize
    /\ FileSizes \subseteq 1 .. NumTriple * TableSize * TableSize * TableSize
    /\ NumDirEntries <= TableSize

VARIABLES disk,    \* contents of every sector
          freeMap, \* the bitmap file: the sectors in use
          lost,    \* history: what was in a directory when Remove removed it
          outcome  \* of the last operation

vars == << disk, freeMap, lost, outcome >>

Sectors == 0 .. NumSectors - 1
FreeMapSector == 0
DirectorySector == 1

(* "ok"       it returned, and left a disk that can be understood          *)
(* "aborted"  an ASSERT failed                                             *)
(* "stale"    it made a directory that is not empty                        *)
(* "overwrote" it wrote to a sector of another file                        *)
(* "garbled"  it took other data for a header or a table entry             *)
(* "stopped"  NachOS stopped between two of its writes                     *)
Outcomes == {"ok", "aborted", "stale", "overwrote", "garbled", "stopped"}

Blank == [kind |-> "blank"]
Data == [kind |-> "data"]
Unused == [kind |-> "unused"]
Entry(name, s, isDir) == [kind |-> "entry", name |-> name, sector |-> s, isDir |-> isDir]
Index(table) == [kind |-> "index", table |-> table]
Header(size, table) == [kind |-> "header", size |-> size, table |-> table]

-----------------------------------------------------------------------------
(* Headers and their sectors. *)

k2 == TableSize * TableSize

WhichLevel(size) == CASE size <= NumDirect                     -> 1
                      [] size > NumDirect /\ size <= TableSize -> 2
                      [] size > TableSize /\ size <= k2        -> 3
                      [] size > k2                             -> 4

(* The first n of the sectors that the index tables in the sectors of the  *)
(* sequence t name.                                                        *)
TableOf(i) == ((i - 1) \div TableSize) + 1
PlaceOf(i) == ((i - 1) % TableSize) + 1
Named(d, t, n) == [i \in 1 .. n |-> d[t[TableOf(i)]].table[PlaceOf(i)]]
AreTables(d, t, n) == /\ \A i \in DOMAIN t : d[t[i]].kind = "index"
                      /\ \A i \in 1 .. n : PlaceOf(i) \in DOMAIN d[t[TableOf(i)]].table

(* FileHeader::FetchFrom and GetIndexTable, of the file whose header is in *)
(* sector s of disk d: the tables that the header names, those that they   *)
(* name at level 4, the tables that name data, and the data sectors.       *)
Level(d, s) == WhichLevel(d[s].size)
Upper(d, s) == d[s].table
Middle(d, s) == Named(d, Upper(d, s), NumTriple * TableSize)
Leaves(d, s) == CASE Level(d, s) = 1 -> << >>
                  [] Level(d, s) = 2 -> Upper(d, s)
                  [] Level(d, s) = 3 -> Named(d, Upper(d, s), TableSize)
                  [] Level(d, s) = 4 -> Named(d, Middle(d, s), NumTriple * k2)
Blocks(d, s) == IF Level(d, s) = 1 THEN d[s].table ELSE Named(d, Leaves(d, s), d[s].size)

Readable(d, s) ==
    /\ d[s].kind = "header"
    /\ Level(d, s) = 3 => AreTables(d, Upper(d, s), TableSize)
    /\ Level(d, s) = 4 => /\ AreTables(d, Upper(d, s), NumTriple * TableSize)
                          /\ AreTables(d, Middle(d, s), NumTriple * k2)
    /\ Level(d, s) # 1 => AreTables(d, Leaves(d, s), d[s].size)

(* The sectors that FileHeader::DeallocateHDR and Deallocate free. *)
Meta(d, s) == {s} \cup Range(Leaves(d, s))
                  \cup (IF Level(d, s) >= 3 THEN Range(Upper(d, s)) ELSE {})
                  \cup (IF Level(d, s) = 4 THEN Range(Middle(d, s)) ELSE {})
Extent(d, s) == Meta(d, s) \cup Range(Blocks(d, s))

(* Bitmap::FindAndSet, k times over: the first k free sectors. *)
FindAndSet(map, k) ==
    LET free == Sectors \ map
    IN  [i \in 1 .. k |-> CHOOSE s \in free : Cardinality({r \in free : r < s}) = i - 1]

(* What AllocateHDR and Allocate take for a file of size data sectors: its *)
(* header, all tables of its level, the data.                              *)
HeaderSize(size) == CASE WhichLevel(size) = 1 -> 1
                      [] WhichLevel(size) = 2 -> 2
                      [] WhichLevel(size) = 3 -> 2 + TableSize
                      [] WhichLevel(size) = 4 -> 1 + NumTriple * (1 + TableSize * (1 + TableSize))
Fits(map, size) == Cardinality(Sectors \ map) >= HeaderSize(size) + size

(* The places of the tables among the sectors taken, the header being the  *)
(* first: at level 4 those of the tables that the header names, of those   *)
(* that they name, and of those that name data.                            *)
Triple(i) == 2 + (i - 1) * (1 + TableSize * (1 + TableSize))
Double(m) == Triple(TableOf(m)) + 1 + (PlaceOf(m) - 1) * (1 + TableSize)
Single(n) == Double(TableOf(n)) + PlaceOf(n)

UpperPlaces(size) == IF WhichLevel(size) = 4 THEN [i \in 1 .. NumTriple |-> Triple(i)] ELSE << 2 >>
LeafPlaces(size) == CASE WhichLevel(size) = 1 -> << >>
                      [] WhichLevel(size) = 2 -> << 2 >>
                      [] WhichLevel(size) = 3 -> [j \in 1 .. TableSize |-> 2 + j]
                      [] WhichLevel(size) = 4 -> [n \in 1 .. NumTriple * k2 |-> Single(n)]
At(taken, places) == [i \in DOMAIN places |-> taken[places[i]]]

(* Disk d with each of the contents written to its sector. *)
Write(d, sectors, contents) ==
    LET written == DOMAIN sectors \cap DOMAIN contents
    IN  [s \in DOMAIN d |->
            IF \E i \in written : sectors[i] = s
            THEN contents[CHOOSE i \in written : sectors[i] = s]
            ELSE d[s]]

(* AllocateHDR writes an upper table when it has all the sectors below it. *)
AllocateHDR(d, taken, size) ==
    LET doubles == {m \in 1 .. NumTriple * TableSize : Double(m) + TableSize <= Len(taken)}
        triples == {i \in 1 .. NumTriple : Triple(i + 1) - 1 <= Len(taken)}
        middle == Write(d, [m \in doubles |-> taken[Double(m)]],
                        [m \in doubles |-> Index([k \in 1 .. TableSize |-> taken[Double(m) + k]])])
    IN  CASE WhichLevel(size) = 3 /\ Len(taken) >= 2 + TableSize ->
               Write(d, << taken[2] >>, << Index([j \in 1 .. TableSize |-> taken[2 + j]]) >>)
          [] WhichLevel(size) = 4 ->
               Write(middle, [i \in triples |-> taken[Triple(i)]],
                     [i \in triples |->
                         Index([j \in 1 .. TableSize |-> taken[Double((i - 1) * TableSize + j)]])])
          [] OTHER -> d

(* FileHeader::WriteBack of a new file that has the sectors taken: the     *)
(* header, and after it the tables that name the data.                     *)
DataOf(taken, size) == [i \in 1 .. size |-> taken[HeaderSize(size) + i]]
HeaderOf(taken, size) ==
    Header(size, IF WhichLevel(size) = 1 THEN DataOf(taken, size) ELSE At(taken, UpperPlaces(size)))
WriteHeaderSector(d, taken, size) == Write(d, << taken[1] >>, << HeaderOf(taken, size) >>)

Part(data, n) == [i \in {j \in 1 .. TableSize : (n - 1) * TableSize + j <= Len(data)} |->
                     data[(n - 1) * TableSize + i]]
WriteHeader(d, taken, size) ==
    Write(WriteHeaderSector(d, taken, size), At(taken, LeafPlaces(size)),
          [n \in DOMAIN LeafPlaces(size) |-> Index(Part(DataOf(taken, size), n))])

-----------------------------------------------------------------------------
(* Directories. *)

(* Directory::FetchFrom and WriteBack of the directory with header sector s. *)
Table(d, s) == LET blocks == Blocks(d, s) IN [i \in 1 .. NumDirEntries |-> d[blocks[i]]]
(* OpenFile::WriteAt of it is cut off at the length of the file. *)
WriteTable(d, s, table) == Write(d, Blocks(d, s), table)

InUse(d, s) == LET table == Table(d, s) IN {i \in DOMAIN table : table[i].kind = "entry"}
Entries(d, s) == {e \in Range(Table(d, s)) : e.kind = "entry"}

(* Directory::FindIndex, of the first entry with the name; 0 if there is none. *)
FindIndex(d, s, name) ==
    SelectInSeq(Table(d, s), LAMBDA e : e.kind = "entry" /\ e.name = name)

NONE == -1
Find(d, s, name) == LET i == FindIndex(d, s, name)
                    IN  IF i = 0 THEN NONE ELSE Table(d, s)[i].sector

(* Directory::Add of an entry, in the first place that is not in use. *)
Full(table) == \A i \in DOMAIN table : table[i].kind = "entry"
Add(table, entry) ==
    LET i == SelectInSeq(table, LAMBDA e : e.kind # "entry") IN [table EXCEPT ![i] = entry]

RemoveEntry(d, s, name) ==
    WriteTable(d, s, [Table(d, s) EXCEPT ![FindIndex(d, s, name)] = Unused])

(* A path is <<name>>, in the root, or <<dir, name>>.  PathParse gives the *)
(* header sector of the directory it ends in.                              *)
Paths == {<< n >> : n \in Names} \cup (DirNames \X Names)
PathParse(path) == IF Len(path) = 1 THEN DirectorySector
                   ELSE Find(disk, DirectorySector, path[1])

(* Paths that lead through a file are left out.                            *)
Walkable == {p \in Paths : Len(p) = 2 =>
                \A e \in Entries(disk, DirectorySector) : e.name = p[1] => e.isDir}

-----------------------------------------------------------------------------
(* FileSystem::FileSystem(TRUE) on a disk that holds d: the headers of the *)
(* bitmap and the root in sectors 0 and 1, then the index of the root if it*)
(* has one, the bitmap, the table of the root.                             *)
MapBlock == 1 + HeaderSize(NumDirEntries)
RootBlocks == [i \in 1 .. NumDirEntries |-> MapBlock + i]
SystemSectors == 0 .. MapBlock + NumDirEntries

ASSUME DiskAssumption == SystemSectors \subseteq Sectors

EmptyTable == [i \in 1 .. NumDirEntries |-> Unused]

Formatted(d) ==
    LET maps == [d EXCEPT ![FreeMapSector] = Header(1, << MapBlock >>), ![MapBlock] = Data]
        taken == [i \in 1 .. HeaderSize(NumDirEntries) |-> i] \o RootBlocks
        root == WriteHeader(AllocateHDR(maps, taken, NumDirEntries), taken, NumDirEntries)
    IN  Write(root, RootBlocks, EmptyTable)

Init == /\ disk = Formatted([s \in Sectors |-> Blank])
        /\ freeMap = SystemSectors
        /\ lost = {}
        /\ outcome = "ok"

Format == /\ disk' = Formatted(disk)
          /\ freeMap' = SystemSectors
          /\ lost' = {}
          /\ UNCHANGED outcome

(* The operation has changed nothing and has returned FALSE, or it has     *)
(* opened "sector" -1: ASSERT(sectorNumber >= 0) of Disk::ReadRequest.     *)
Fails == UNCHANGED vars
Aborts == outcome' = "aborted" /\ UNCHANGED << disk, freeMap >>

Stage(d, map) == [disk |-> d, map |-> map]

(* The disk after an operation with these stages, or as far as it came.    *)
Completes(stages) == /\ disk' = Last(stages).disk
                     /\ freeMap' = Last(stages).map
StopsIn(stages) == /\ \E i \in 1 .. Len(stages) - 1 : /\ disk' = stages[i].disk
                                                      /\ freeMap' = stages[i].map
                   /\ outcome' = "stopped"
                   /\ UNCHANGED lost

(* Mutant: the data sectors are not marked in the bitmap that is written. *)
TakenHeader(size) == Range(FindAndSet(freeMap, HeaderSize(size)))

Taken(size) == Range(FindAndSet(freeMap, HeaderSize(size) + size))

(* Mutants: the bitmap is written first; the directory is.                 *)
CreateStagesMapFirst(d, path, size, isDir) ==
    LET parent == PathParse(path)
        taken == FindAndSet(freeMap, HeaderSize(size) + size)
        map == freeMap \cup Taken(size)
        added == Add(Table(disk, parent), Entry(Last(path), taken[1], isDir))
        made == WriteHeader(d, taken, size)
    IN  << Stage(d, map), Stage(WriteHeaderSector(d, taken, size), map), Stage(made, map),
           Stage(Write(made, Blocks(disk, parent), added), map) >>

CreateStagesEntryFirst(d, path, size, isDir) ==
    LET parent == PathParse(path)
        taken == FindAndSet(freeMap, HeaderSize(size) + size)
        added == Add(Table(disk, parent), Entry(Last(path), taken[1], isDir))
        named == Write(d, Blocks(disk, parent), added)
        made == WriteHeader(named, taken, size)
    IN  << Stage(d, freeMap), Stage(named, freeMap),
           Stage(WriteHeaderSector(named, taken, size), freeMap),
           Stage(made, freeMap), Stage(made, freeMap \cup Taken(size)) >>

(* The writes of Create, to a disk d where the table of a new directory    *)
(* has been written: header, parent directory, bitmap.                     *)
CreateStages(d, path, size, isDir) ==
    LET parent == PathParse(path)
        taken == FindAndSet(freeMap, HeaderSize(size) + size)
        added == Add(Table(disk, parent), Entry(Last(path), taken[1], isDir))
        made == WriteHeader(d, taken, size)
        named == Write(made, Blocks(disk, parent), added)
    IN  << Stage(d, freeMap), Stage(WriteHeaderSector(d, taken, size), freeMap),
           Stage(made, freeMap), Stage(named, freeMap),
           Stage(named, freeMap \cup Taken(size)) >>

(* Mutant: the name is not looked for. *)
CanCreateTwice(path, size) == Fits(freeMap, size) /\ ~Full(Table(disk, PathParse(path)))

CanCreate(path, size) == LET parent == PathParse(path)
                         IN  /\ Find(disk, parent, Last(path)) = NONE
                             /\ Fits(freeMap, size)
                             /\ ~Full(Table(disk, parent))

(* The disk once AllocateHDR has taken what it could of a header. *)
HeaderTaken(size) ==
    LET free == Cardinality(Sectors \ freeMap)
        n == IF HeaderSize(size) <= free THEN HeaderSize(size) ELSE free
    IN  AllocateHDR(disk, FindAndSet(freeMap, n), size)

(* Create returns FALSE: of a name that is there at once, otherwise when   *)
(* AllocateHDR has written the upper tables, to sectors that stay free.    *)
CreateFails(path, size) ==
    /\ PathParse(path) # NONE /\ ~CanCreate(path, size)
    /\ disk' = IF Find(disk, PathParse(path), Last(path)) = NONE THEN HeaderTaken(size) ELSE disk
    /\ UNCHANGED << freeMap, lost, outcome >>

(* FileSystem::Create of a file. *)
CreateFile(path, size) ==
    \/ PathParse(path) = NONE /\ Aborts /\ UNCHANGED lost
    \/ CreateFails(path, size)
    \/ /\ PathParse(path) # NONE /\ CanCreate(path, size)
       /\ LET stages == CreateStages(HeaderTaken(size), path, size, FALSE)
          IN  \/ Completes(stages) /\ UNCHANGED << lost, outcome >>
              \/ StopsIn(stages)

(* Create of a directory.  To write its empty table, it opens the new file *)
(* before its header is written: what is in that sector is taken for the   *)
(* header.  Whatever sector in use it writes to is not its own: the run    *)
(* ends there, although the parent's table is written again in the end.    *)
Initialized(d, s) ==
    IF d[s].kind = "header" THEN Write(d, Blocks(d, s), EmptyTable) ELSE d

CreateDirectory(path) ==
    LET s == FindAndSet(freeMap, 1)[1]
        d == HeaderTaken(NumDirEntries)
        found == IF d[s].kind = "blank" \/ Readable(d, s) THEN "ok" ELSE "garbled"
        stages == CreateStages(Initialized(d, s), path, NumDirEntries, TRUE)
        table == Table(Last(stages).disk, s)
        kinds == {table[i].kind : i \in DOMAIN table}
        result == IF found = "garbled" THEN "garbled"
                  ELSE IF \E o \in freeMap : stages[1].disk[o] # disk[o] THEN "overwrote"
                  ELSE IF kinds \subseteq {"blank", "unused"} THEN "ok"
                  ELSE IF kinds \subseteq {"blank", "unused", "entry"} THEN "stale"
                  ELSE "garbled"
    IN  \/ PathParse(path) = NONE /\ Aborts /\ UNCHANGED lost
        \/ CreateFails(path, NumDirEntries)
        \/ /\ PathParse(path) # NONE /\ CanCreate(path, NumDirEntries)
           /\ \/ result = "ok" /\ Completes(stages)
              \/ result # "ok" /\ UNCHANGED << disk, freeMap >>
           /\ outcome' = result
           /\ UNCHANGED lost
        \/ /\ PathParse(path) # NONE /\ CanCreate(path, NumDirEntries)
           /\ result = "ok" /\ StopsIn(stages)

(* All entries in and below the directory at s, and the sectors that they  *)
(* lead to: what Directory::RecursiveRemove frees.  A path has at most two *)
(* names, so no directory deeper than the second has an entry.             *)
Deeper(d, entries) == entries \cup UNION {Entries(d, e.sector) : e \in {f \in entries : f.isDir}}
EntriesBelow(d, s) == Deeper(d, Deeper(d, Entries(d, s)))
Below(d, s) == UNION {Extent(d, e.sector) : e \in EntriesBelow(d, s)}

Target(path) == IF PathParse(path) = NONE THEN NONE
                ELSE Find(disk, PathParse(path), Last(path))
IsDirectory(path) == \E e \in Entries(disk, PathParse(path)) : e.name = Last(path) /\ e.isDir

(* Mutant: DeallocateHDR is not called. *)
RemoveStagesData(sectors, path) ==
    LET map == freeMap \ (sectors \ {Target(path)})
    IN  << Stage(disk, map), Stage(RemoveEntry(disk, PathParse(path), Last(path)), map) >>

(* The writes of Remove and RecursiveRemove, which clear the bits of       *)
(* sectors and remove the entry of path: bitmap, directory.                *)
RemoveStages(sectors, path) ==
    LET map == freeMap \ sectors
    IN  << Stage(disk, map), Stage(RemoveEntry(disk, PathParse(path), Last(path)), map) >>

(* ASSERT(freeMap->Test(...)) before anything is written. *)
Frees(sectors, stages) == IF sectors \subseteq freeMap
                          THEN Completes(stages) /\ UNCHANGED outcome
                          ELSE Aborts

(* FileSystem::Remove: of a directory too, whatever is in it. *)
RemovePath(path) ==
    LET sectors == Extent(disk, Target(path))
    IN  \/ PathParse(path) = NONE /\ Aborts /\ UNCHANGED lost
        \/ PathParse(path) # NONE /\ Target(path) = NONE /\ Fails
        \/ /\ Target(path) # NONE
           /\ Frees(sectors, RemoveStages(sectors, path))
           /\ lost' = IF IsDirectory(path) THEN lost \cup Below(disk, Target(path)) ELSE lost
        \/ /\ Target(path) # NONE /\ sectors \subseteq freeMap
           /\ StopsIn(RemoveStages(sectors, path))

(* FileSystem::RecursiveRemove.  A name that is not there is taken for a   *)
(* directory, since IsDirectory returns -1.                                *)
RecursiveRemove(path) ==
    LET sectors == Extent(disk, Target(path)) \cup
                       (IF IsDirectory(path) THEN Below(disk, Target(path)) ELSE {})
    IN  \/ Target(path) = NONE /\ Aborts /\ UNCHANGED lost
        \/ /\ Target(path) # NONE
           /\ Frees(sectors, RemoveStages(sectors, path)) /\ UNCHANGED lost
        \/ /\ Target(path) # NONE /\ sectors \subseteq freeMap
           /\ StopsIn(RemoveStages(sectors, path))

(* RecursiveRemove of a path that ends in "root", the root itself or not:  *)
(* the directory that the path leads to is emptied, its table written back *)
(* sector by sector.                                                       *)
RootStages(s) ==
    LET map == freeMap \ Below(disk, s)
    IN  [i \in 1 .. NumDirEntries + 1 |->
            Stage(WriteTable(disk, s, [j \in 1 .. NumDirEntries |->
                                          IF j < i THEN Unused ELSE Table(disk, s)[j]]), map)]

RecursiveRemoveRoot ==
    \E s \in {DirectorySector} \cup
              {e.sector : e \in {f \in Entries(disk, DirectorySector) : f.isDir}} :
        \/ Frees(Below(disk, s), RootStages(s)) /\ UNCHANGED lost
        \/ Below(disk, s) \subseteq freeMap /\ StopsIn(RootStages(s))

(* A file is opened and all of it written. *)
WriteFile(path) ==
    /\ Target(path) # NONE /\ ~IsDirectory(path)
    /\ LET blocks == Blocks(disk, Target(path))
       IN  disk' = Write(disk, blocks, [i \in DOMAIN blocks |-> Data])
    /\ UNCHANGED << freeMap, lost, outcome >>

(* After a failed ASSERT, a stop, or on a disk that cannot be understood.  *)
Halted == outcome # "ok" /\ UNCHANGED vars

Next == \/ /\ outcome = "ok"
           /\ \/ Format
              \/ RecursiveRemoveRoot
              \/ \E p \in Walkable : \/ \E n \in FileSizes : CreateFile(p, n)
                                     \/ Last(p) \in DirNames /\ CreateDirectory(p)
                                     \/ RemovePath(p)
                                     \/ RecursiveRemove(p)
                                     \/ WriteFile(p)
        \/ Halted

Spec == Init /\ [][Next]_vars

-----------------------------------------------------------------------------

Reached == EntriesBelow(disk, DirectorySector)
Headers == {e.sector : e \in Reached}
Directories == {DirectorySector} \cup {e.sector : e \in {f \in Reached : f.isDir}}
Places == {p \in Directories \X (1 .. NumDirEntries) : p[2] \in InUse(disk, p[1])}

(* Every entry leads to a header, no two of them to the same, and the      *)
(* sectors of a file (its header, index and data) belong to no other file, *)
(* nor to the system.                                                      *)
NothingShared ==
    outcome = "ok" =>
        /\ \A h \in Headers : Readable(disk, h) /\ Extent(disk, h) \cap SystemSectors = {}
        /\ \A h, k \in Headers : h # k => Extent(disk, h) \cap Extent(disk, k) = {}
        /\ \A p, q \in Places :
              Table(disk, p[1])[p[2]].sector = Table(disk, q[1])[q[2]].sector => p = q

(* The bitmap is exact: what is in use is what can be reached, apart from  *)
(* what was in a directory that Remove removed, which is never freed.      *)
BitmapIsExact ==
    outcome = "ok" => freeMap = SystemSectors \cup Below(disk, DirectorySector) \cup lost

(* No two entries of a directory have the same name. *)
NamesAreUnique ==
    outcome = "ok" =>
        \A d \in Directories : \A i, j \in InUse(disk, d) :
            Table(disk, d)[i].name = Table(disk, d)[j].name => i = j

(* filesys/filesys.cc:684, "initialise it and write it back to the disk    *)
(* (all inUse = FALSE is what is right)": a new directory is empty.        *)
NewDirectoryIsEmpty == outcome # "stale"

(* Wherever NachOS stops, the disk that a restart finds has lost no space: *)
(* a sector that is marked as used can be reached.  (The reverse does not  *)
(* hold: what is reached may be marked as free.)                           *)
StopLosesNoSpace ==
    outcome = "stopped" => freeMap \subseteq SystemSectors \cup Below(disk, DirectorySector) \cup lost

(* ... and every entry leads to a header that was written as a whole, of a *)
(* file that has its sectors for itself.                                   *)
StopLeavesHeaders ==
    outcome = "stopped" =>
        /\ \A h \in Headers : Readable(disk, h) /\ Extent(disk, h) \cap SystemSectors = {}
        /\ \A h, k \in Headers : h # k => Extent(disk, h) \cap Extent(disk, k) = {}
===============================================================================

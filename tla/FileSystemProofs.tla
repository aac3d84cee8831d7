-------------------------- MODULE FileSystemProofs ----------------------------
(***************************************************************************)
(* The safety of the file system for every size of disk, header, index     *)
(* table and directory, and for every set of names: no two files share a   *)
(* sector, the bitmap is exact, and a stop of NachOS between two writes    *)
(* loses no space and breaks no file.  Then that of the table of open      *)
(* files, which knows nothing of the disk.                                 *)
(*                                                                         *)
(* The argument goes bottom up: the places of the tables among the sectors *)
(* that AllocateHDR takes are all different; so a header that WriteBack has*)
(* written names exactly the sectors taken for it; a disk is sound when all*)
(* entries lead to such files, apart from each other; every action keeps   *)
(* the disk sound, and changes the sectors held as it changes the bitmap.  *)
(***************************************************************************)
EXTENDS FileSys, OpenFileTable, FiniteSetTheorems, SequenceTheorems, WellFoundedInduction, TLAPS

-----------------------------------------------------------------------------
(* Numbers. *)

(* A set of numbers that is not empty has a least one.                     *)
LEMMA MinExists ==
    ASSUME NEW S \in SUBSET Nat, S # {}
    PROVE  \E x \in S : \A y \in S : x <= y
  <1>1. \E x \in S : \A y \in S : ~ (<<y, x>> \in OpToRel(<, Nat))
    BY NatLessThanWellFounded, WFMin
  <1>2. PICK x \in S : \A y \in S : ~ (<<y, x>> \in OpToRel(<, Nat))
    BY <1>1
  <1>3. \A y \in S : ~ (y < x)
    BY <1>2 DEF OpToRel
  <1> QED BY <1>3

(* Quotient and remainder.                                                 *)
LEMMA Division ==
    ASSUME NEW b \in Nat \ {0}, NEW x \in Nat
    PROVE  /\ x \div b \in Nat
           /\ x % b \in 0 .. b - 1
           /\ x = (x \div b) * b + (x % b)
           /\ \A c \in Nat : x < c * b => x \div b < c
  OBVIOUS

(* The quotient and remainder of a number given by them.                   *)
LEMMA DivisionOf ==
    ASSUME NEW b \in Nat \ {0}, NEW q \in Nat, NEW r \in 0 .. b - 1
    PROVE  (q * b + r) \div b = q /\ (q * b + r) % b = r
  OBVIOUS

(* A number determines its digits.                                         *)
LEMMA Radix ==
    ASSUME NEW b \in Nat \ {0}, NEW p \in Nat, NEW q \in Nat, NEW r \in 0 .. b - 1, NEW s \in 0 .. b - 1,
           p * b + r = q * b + s
    PROVE  p = q /\ r = s
  OBVIOUS

(* A number of c digits is below the bound of c digits.                    *)
LEMMA RadixBound ==
    ASSUME NEW b \in Nat, NEW c \in Nat, NEW q \in 0 .. c - 1, NEW r \in 0 .. b - 1
    PROVE  q * b + r \in 0 .. c * b - 1
  <1>1. (q + 1) * b <= c * b
    OBVIOUS
  <1>2. (q + 1) * b = q * b + b /\ q * b \in Nat /\ c * b \in Nat
    OBVIOUS
  <1> QED BY <1>1, <1>2

(* What the assumptions on the constants say of the sizes.                 *)
LEMMA Numbers ==
    /\ NumSectors \in Nat \ {0} /\ NumDirect \in Nat \ {0} /\ TableSize \in Nat \ {0}
    /\ NumTriple \in Nat \ {0} /\ NumDirEntries \in Nat \ {0}
    /\ NumDirect <= TableSize /\ NumDirEntries <= TableSize
    /\ k2 \in Nat \ {0} /\ TableSize <= k2
    /\ NumTriple * TableSize \in Nat \ {0} /\ NumTriple * k2 \in Nat \ {0}
    /\ NumTriple * k2 = (NumTriple * TableSize) * TableSize
  <1>1. /\ NumSectors \in Nat \ {0} /\ NumDirect \in Nat \ {0} /\ TableSize \in Nat \ {0}
        /\ NumTriple \in Nat \ {0} /\ NumDirEntries \in Nat \ {0}
        /\ NumDirect <= TableSize /\ NumDirEntries <= TableSize
    BY SizesAssumption
  <1>2. \A x, y \in Nat \ {0} : x * y \in Nat \ {0} /\ y <= x * y
    OBVIOUS
  <1>3. \A x, y \in Nat : x * (y * y) = (x * y) * y
    OBVIOUS
  <1> QED BY <1>1, <1>2, <1>3 DEF k2

(* An entry of a row of index tables has a place in one of them.           *)
LEMMA PlaceProperties ==
    ASSUME NEW i \in Nat \ {0}
    PROVE  /\ TableOf(i) \in Nat \ {0}
           /\ PlaceOf(i) \in 1 .. TableSize
           /\ i = (TableOf(i) - 1) * TableSize + PlaceOf(i)
           /\ \A c \in Nat : i <= c * TableSize => TableOf(i) \in 1 .. c
  <1> DEFINE x == i - 1
  <1>1. x \in Nat /\ TableSize \in Nat \ {0}
    BY Numbers
  <1> HIDE DEF x
  <1>2. /\ x \div TableSize \in Nat
        /\ x % TableSize \in 0 .. TableSize - 1
        /\ x = (x \div TableSize) * TableSize + (x % TableSize)
        /\ \A c \in Nat : x < c * TableSize => x \div TableSize < c
    BY <1>1, Division
  <1>3. TableOf(i) = (x \div TableSize) + 1 /\ PlaceOf(i) = (x % TableSize) + 1
    BY DEF TableOf, PlaceOf, x
  <1> DEFINE q == x \div TableSize
             r == x % TableSize
  <1>4. q \in Nat /\ r \in 0 .. TableSize - 1 /\ x = q * TableSize + r
    BY <1>2
  <1>5. TableOf(i) = q + 1 /\ PlaceOf(i) = r + 1
    BY <1>3
  <1>6. \A c \in Nat : x < c * TableSize => q < c
    BY <1>2
  <1> HIDE DEF q, r
  <1>7. (TableOf(i) - 1) = q
    BY <1>4, <1>5
  <1>8. i = (TableOf(i) - 1) * TableSize + PlaceOf(i)
    BY <1>1, <1>4, <1>5, <1>7 DEF x
  <1>9. ASSUME NEW c \in Nat, i <= c * TableSize PROVE TableOf(i) \in 1 .. c
    <2>1. x < c * TableSize
      BY <1>1, <1>9 DEF x
    <2> QED BY <2>1, <1>4, <1>5, <1>6
  <1> QED BY <1>1, <1>4, <1>5, <1>8, <1>9

(* Entry p of table t, counted over all tables.                            *)
LEMMA PlaceOfEntry ==
    ASSUME NEW t \in Nat \ {0}, NEW p \in 1 .. TableSize
    PROVE  /\ (t - 1) * TableSize + p \in Nat \ {0}
           /\ TableOf((t - 1) * TableSize + p) = t
           /\ PlaceOf((t - 1) * TableSize + p) = p
           /\ \A c \in Nat : t <= c => (t - 1) * TableSize + p <= c * TableSize
  <1> DEFINE q == t - 1
             r == p - 1
  <1>1. TableSize \in Nat \ {0} /\ q \in Nat /\ r \in 0 .. TableSize - 1
    BY Numbers
  <1>2. (q * TableSize + r) \div TableSize = q /\ (q * TableSize + r) % TableSize = r
    BY <1>1, DivisionOf
  <1>3. ((t - 1) * TableSize + p) - 1 = q * TableSize + r /\ q * TableSize \in Nat
    BY <1>1
  <1>4. ASSUME NEW c \in Nat, t <= c PROVE (t - 1) * TableSize + p <= c * TableSize
    <2>1. q \in 0 .. c - 1
      BY <1>1, <1>4
    <2> HIDE DEF q, r
    <2>2. q * TableSize + r \in 0 .. c * TableSize - 1
      BY <1>1, <2>1, RadixBound
    <2>3. c * TableSize \in Nat
      BY <1>1
    <2> QED BY <1>3, <2>2, <2>3, <1>1 DEF r, q
  <1> QED BY <1>1, <1>2, <1>3, <1>4 DEF TableOf, PlaceOf

-----------------------------------------------------------------------------
(* Writing to the disk. *)

(* Write changes the sectors it is given, no others.                       *)
LEMMA WriteProperties ==
    ASSUME NEW d, NEW sectors, NEW contents
    PROVE  /\ DOMAIN Write(d, sectors, contents) = DOMAIN d
           /\ \A s \in DOMAIN d : (\A i \in DOMAIN sectors : sectors[i] # s)
                                    => Write(d, sectors, contents)[s] = d[s]
  BY DEF Write

(* Sectors that are different get what was to be written to them.          *)
LEMMA WriteThere ==
    ASSUME NEW d, NEW sectors, NEW contents, DOMAIN contents = DOMAIN sectors,
           \A i, j \in DOMAIN sectors : sectors[i] = sectors[j] => i = j,
           \A i \in DOMAIN sectors : sectors[i] \in DOMAIN d
    PROVE  \A i \in DOMAIN sectors : Write(d, sectors, contents)[sectors[i]] = contents[i]
  BY DEF Write

-----------------------------------------------------------------------------
(* Headers. *)

(* A file has one of the four levels of filehdr.cc.                        *)
LEMMA Levels ==
    ASSUME NEW size \in Nat \ {0}
    PROVE  \/ WhichLevel(size) = 1 /\ size <= NumDirect
           \/ WhichLevel(size) = 2 /\ size <= TableSize
           \/ WhichLevel(size) = 3 /\ size <= k2
           \/ WhichLevel(size) = 4 /\ size > k2
  BY Numbers DEF WhichLevel

MaxSize == NumTriple * TableSize * TableSize * TableSize

(* The longest file of level 4.                                            *)
LEMMA MaxSizeProperties ==
    MaxSize \in Nat /\ MaxSize = (NumTriple * k2) * TableSize /\ TableSize <= MaxSize
  <1>1. \A x, y \in Nat : ((x * y) * y) * y = (x * (y * y)) * y
    OBVIOUS
  <1>2. \A x, y \in Nat \ {0} : y * x \in Nat \ {0} /\ x <= y * x
    OBVIOUS
  <1> DEFINE n == NumTriple * k2
  <1>3. n \in Nat \ {0} /\ TableSize \in Nat \ {0} /\ NumTriple \in Nat \ {0}
    BY Numbers
  <1>4. MaxSize = n * TableSize
    BY <1>1, <1>3 DEF MaxSize, k2
  <1> HIDE DEF n
  <1>5. MaxSize \in Nat /\ TableSize <= MaxSize
    BY <1>2, <1>3, <1>4
  <1> QED BY <1>4, <1>5 DEF n

Shape(d, s) ==
    /\ d[s].size \in 1 .. MaxSize
    /\ Level(d, s) = 1 => DOMAIN d[s].table = 1 .. d[s].size
    /\ Level(d, s) \in {2, 3} => DOMAIN d[s].table = 1 .. 1
    /\ Level(d, s) = 4 => DOMAIN d[s].table = 1 .. NumTriple

File(d, s) ==
    /\ s \in Sectors
    /\ Readable(d, s)
    /\ Shape(d, s)
    /\ Extent(d, s) \subseteq Sectors
    /\ Meta(d, s) \cap Range(Blocks(d, s)) = {}
    /\ \A i, j \in DOMAIN Blocks(d, s) : Blocks(d, s)[i] = Blocks(d, s)[j] => i = j

(* What tables name depends on the tables alone.                           *)
LEMMA NamedSame ==
    ASSUME NEW old, NEW new, NEW t, NEW n,
           \A i \in 1 .. n : TableOf(i) \in DOMAIN t,
           \A i \in DOMAIN t : new[t[i]] = old[t[i]]
    PROVE  /\ Named(new, t, n) = Named(old, t, n)
           /\ AreTables(old, t, n) => AreTables(new, t, n)
  <1>1. \A i \in 1 .. n : new[t[TableOf(i)]] = old[t[TableOf(i)]]
    OBVIOUS
  <1>2. Named(new, t, n) = Named(old, t, n)
    BY <1>1 DEF Named
  <1> QED BY <1>1, <1>2 DEF AreTables

(* The tables of a header are as many as their entries need. *)
LEMMA Tables ==
    ASSUME NEW d, NEW s, Shape(d, s)
    PROVE  /\ Level(d, s) = 2 => \A i \in 1 .. d[s].size : TableOf(i) \in DOMAIN Upper(d, s)
           /\ Level(d, s) = 3 => \A i \in 1 .. TableSize : TableOf(i) \in DOMAIN Upper(d, s)
           /\ Level(d, s) = 4 => /\ \A i \in 1 .. NumTriple * TableSize : TableOf(i) \in DOMAIN Upper(d, s)
                                 /\ \A i \in 1 .. NumTriple * k2 : TableOf(i) \in DOMAIN Middle(d, s)
           /\ Level(d, s) # 1 => \A i \in 1 .. d[s].size : TableOf(i) \in DOMAIN Leaves(d, s)
           /\ DOMAIN Blocks(d, s) = 1 .. d[s].size
           /\ Level(d, s) \in 1 .. 4
  <1>0. d[s].size \in Nat \ {0} /\ d[s].size <= MaxSize
    BY MaxSizeProperties DEF Shape
  <1>1. \A c \in Nat : \A i \in 1 .. c * TableSize : TableOf(i) \in 1 .. c
    <2> TAKE c \in Nat
    <2> TAKE i \in 1 .. c * TableSize
    <2>1. i \in Nat \ {0} /\ i <= c * TableSize
      BY Numbers
    <2> QED BY <2>1, PlaceProperties
  <1>2. \A i \in 1 .. TableSize : TableOf(i) \in 1 .. 1
    BY <1>1, Numbers
  <1>3. Level(d, s) \in 1 .. 4
    BY <1>0, Levels DEF Level
  <1>4. CASE Level(d, s) = 1
    BY <1>4, <1>3 DEF Blocks, Shape
  <1>5. CASE Level(d, s) = 2
    <2>1. d[s].size <= TableSize
      BY <1>0, <1>5, Levels DEF Level
    <2>2. \A i \in 1 .. d[s].size : TableOf(i) \in DOMAIN Upper(d, s)
      BY <1>0, <1>2, <1>5, <2>1, Numbers DEF Shape, Upper
    <2> QED BY <1>3, <1>5, <2>2 DEF Blocks, Leaves, Named
  <1>6. CASE Level(d, s) = 3
    <2>1. d[s].size <= k2
      BY <1>0, <1>6, Levels DEF Level
    <2>2. \A i \in 1 .. TableSize : TableOf(i) \in DOMAIN Upper(d, s)
      BY <1>2, <1>6 DEF Shape, Upper
    <2>3. DOMAIN Leaves(d, s) = 1 .. TableSize
      BY <1>6 DEF Leaves, Named
    <2>4. \A i \in 1 .. d[s].size : TableOf(i) \in DOMAIN Leaves(d, s)
      BY <1>0, <1>1, <2>1, <2>3, Numbers DEF k2
    <2> QED BY <1>3, <1>6, <2>2, <2>4 DEF Blocks, Named
  <1>7. CASE Level(d, s) = 4
    <2>1. \A i \in 1 .. NumTriple * TableSize : TableOf(i) \in DOMAIN Upper(d, s)
      BY <1>1, <1>7, Numbers DEF Shape, Upper
    <2>2. DOMAIN Middle(d, s) = 1 .. NumTriple * TableSize
      BY DEF Middle, Named
    <2>3. \A i \in 1 .. NumTriple * k2 : TableOf(i) \in DOMAIN Middle(d, s)
      BY <1>1, <2>2, Numbers
    <2>4. DOMAIN Leaves(d, s) = 1 .. NumTriple * k2
      BY <1>7 DEF Leaves, Named
    <2>5. \A i \in 1 .. d[s].size : TableOf(i) \in DOMAIN Leaves(d, s)
      <3>1. NumTriple * k2 \in Nat
        BY Numbers
      <3>2. \A i \in 1 .. d[s].size : i \in 1 .. (NumTriple * k2) * TableSize
        BY <1>0, MaxSizeProperties
      <3> QED BY <3>1, <3>2, <1>1, <2>4
    <2> QED BY <1>3, <1>7, <2>1, <2>3, <2>5 DEF Blocks, Named
  <1> QED BY <1>3, <1>4, <1>5, <1>6, <1>7

(* What a header stands for depends on its own sectors alone, and not on   *)
(* the data.                                                               *)
LEMMA SameFile ==
    ASSUME NEW old, NEW new, NEW s, File(old, s),
           \A x \in Meta(old, s) : new[x] = old[x]
    PROVE  /\ File(new, s)
           /\ Meta(new, s) = Meta(old, s)
           /\ Blocks(new, s) = Blocks(old, s)
           /\ Extent(new, s) = Extent(old, s)
           /\ new[s] = old[s]
  <1>0. Shape(old, s) /\ Readable(old, s)
    BY DEF File
  <1>1. new[s] = old[s]
    BY DEF Meta
  <1>2. Level(new, s) = Level(old, s) /\ Upper(new, s) = Upper(old, s) /\ Shape(new, s)
    BY <1>0, <1>1 DEF Level, Upper, Shape
  <1>3. Level(old, s) \in 1 .. 4
    BY <1>0, Tables
  <1>4. CASE Level(old, s) = 1
    <2>1. Leaves(new, s) = Leaves(old, s) /\ Blocks(new, s) = Blocks(old, s)
      BY <1>1, <1>2, <1>4 DEF Leaves, Blocks
    <2>2. Readable(new, s)
      BY <1>0, <1>1, <1>2, <1>4 DEF Readable
    <2>3. Meta(new, s) = Meta(old, s)
      BY <1>2, <1>4, <2>1 DEF Meta
    <2> QED BY <1>1, <1>2, <2>1, <2>2, <2>3 DEF File, Extent
  <1>5. ASSUME Level(old, s) # 1, Leaves(new, s) = Leaves(old, s),
               \A i \in DOMAIN Leaves(old, s) : Leaves(old, s)[i] \in Meta(old, s)
        PROVE  /\ Blocks(new, s) = Blocks(old, s)
               /\ AreTables(new, Leaves(new, s), new[s].size)
    <2>1. \A i \in 1 .. old[s].size : TableOf(i) \in DOMAIN Leaves(old, s)
      BY <1>0, <1>5, Tables
    <2>2. \A i \in DOMAIN Leaves(old, s) : new[Leaves(old, s)[i]] = old[Leaves(old, s)[i]]
      BY <1>5
    <2>3. AreTables(old, Leaves(old, s), old[s].size)
      BY <1>0, <1>5 DEF Readable
    <2>4. /\ Named(new, Leaves(old, s), old[s].size) = Named(old, Leaves(old, s), old[s].size)
          /\ AreTables(new, Leaves(old, s), old[s].size)
      BY <2>1, <2>2, <2>3, NamedSame
    <2> QED BY <1>1, <1>2, <1>5, <2>4 DEF Blocks
  <1>6. \A i \in DOMAIN Leaves(old, s) : Leaves(old, s)[i] \in Meta(old, s)
    BY DEF Meta, Range
  <1>7. CASE Level(old, s) = 2
    <2>1. Leaves(new, s) = Leaves(old, s)
      BY <1>2, <1>7 DEF Leaves
    <2>2. Blocks(new, s) = Blocks(old, s) /\ AreTables(new, Leaves(new, s), new[s].size)
      BY <1>5, <1>6, <1>7, <2>1
    <2>3. Readable(new, s)
      BY <1>0, <1>1, <1>2, <1>7, <2>2 DEF Readable
    <2>4. Meta(new, s) = Meta(old, s)
      BY <1>2, <1>7, <2>1 DEF Meta
    <2> QED BY <1>1, <1>2, <2>2, <2>3, <2>4 DEF File, Extent
  <1>8. CASE Level(old, s) = 3
    <2>0. \A i \in DOMAIN Upper(old, s) : new[Upper(old, s)[i]] = old[Upper(old, s)[i]]
      BY <1>8 DEF Meta, Range
    <2>1. /\ Named(new, Upper(old, s), TableSize) = Named(old, Upper(old, s), TableSize)
          /\ AreTables(new, Upper(old, s), TableSize)
      <3>1. \A i \in 1 .. TableSize : TableOf(i) \in DOMAIN Upper(old, s)
        BY <1>0, <1>8, Tables
      <3>2. AreTables(old, Upper(old, s), TableSize)
        BY <1>0, <1>8 DEF Readable
      <3> QED BY <2>0, <3>1, <3>2, NamedSame
    <2>2. Leaves(new, s) = Leaves(old, s)
      BY <1>2, <1>8, <2>1 DEF Leaves
    <2>3. Blocks(new, s) = Blocks(old, s) /\ AreTables(new, Leaves(new, s), new[s].size)
      BY <1>5, <1>6, <1>8, <2>2
    <2>4. Readable(new, s)
      BY <1>0, <1>1, <1>2, <1>8, <2>1, <2>3 DEF Readable
    <2>5. Meta(new, s) = Meta(old, s)
      BY <1>2, <1>8, <2>2 DEF Meta
    <2> QED BY <1>1, <1>2, <2>3, <2>4, <2>5 DEF File, Extent
  <1>9. CASE Level(old, s) = 4
    <2>0. \A i \in DOMAIN Upper(old, s) : new[Upper(old, s)[i]] = old[Upper(old, s)[i]]
      BY <1>9 DEF Meta, Range
    <2>1. /\ Middle(new, s) = Middle(old, s)
          /\ AreTables(new, Upper(new, s), NumTriple * TableSize)
      <3>1. \A i \in 1 .. NumTriple * TableSize : TableOf(i) \in DOMAIN Upper(old, s)
        BY <1>0, <1>9, Tables
      <3>2. AreTables(old, Upper(old, s), NumTriple * TableSize)
        BY <1>0, <1>9 DEF Readable
      <3>3. /\ Named(new, Upper(old, s), NumTriple * TableSize) = Named(old, Upper(old, s), NumTriple * TableSize)
            /\ AreTables(new, Upper(old, s), NumTriple * TableSize)
        BY <2>0, <3>1, <3>2, NamedSame
      <3> QED BY <1>2, <3>3 DEF Middle
    <2>2. \A i \in DOMAIN Middle(old, s) : new[Middle(old, s)[i]] = old[Middle(old, s)[i]]
      BY <1>9 DEF Meta, Range
    <2>3. /\ Leaves(new, s) = Leaves(old, s)
          /\ AreTables(new, Middle(new, s), NumTriple * k2)
      <3>1. \A i \in 1 .. NumTriple * k2 : TableOf(i) \in DOMAIN Middle(old, s)
        BY <1>0, <1>9, Tables
      <3>2. AreTables(old, Middle(old, s), NumTriple * k2)
        BY <1>0, <1>9 DEF Readable
      <3>3. /\ Named(new, Middle(old, s), NumTriple * k2) = Named(old, Middle(old, s), NumTriple * k2)
            /\ AreTables(new, Middle(old, s), NumTriple * k2)
        BY <2>2, <3>1, <3>2, NamedSame
      <3> QED BY <1>2, <1>9, <2>1, <3>3 DEF Leaves
    <2>4. Blocks(new, s) = Blocks(old, s) /\ AreTables(new, Leaves(new, s), new[s].size)
      BY <1>5, <1>6, <1>9, <2>3
    <2>5. Readable(new, s)
      BY <1>0, <1>1, <1>2, <1>9, <2>1, <2>3, <2>4 DEF Readable
    <2>6. Meta(new, s) = Meta(old, s)
      BY <1>2, <1>9, <2>1, <2>3 DEF Meta
    <2> QED BY <1>1, <1>2, <2>4, <2>5, <2>6 DEF File, Extent
  <1> QED BY <1>3, <1>4, <1>7, <1>8, <1>9

(* The first free sectors are that many, in ascending order of their rank. *)
LEMMA FindAndSetProperties ==
    ASSUME NEW map, NEW k \in Nat, k <= Cardinality(Sectors \ map)
    PROVE  /\ FindAndSet(map, k) \in [1 .. k -> Sectors \ map]
           /\ \A i, j \in 1 .. k : FindAndSet(map, k)[i] = FindAndSet(map, k)[j] => i = j
  <1> DEFINE free == Sectors \ map
             below(s) == {r \in free : r < s}
             c == Cardinality(free)
             rank == [s \in free |-> Cardinality(below(s))]
  <1>1. IsFiniteSet(free) /\ c \in Nat /\ free \subseteq Nat
    <2>1. IsFiniteSet(Sectors)
      BY Numbers, FS_Interval DEF Sectors
    <2> QED BY <2>1, FS_Subset, FS_CardinalityType, Numbers DEF Sectors
  <1>2. \A s \in free : IsFiniteSet(below(s)) /\ Cardinality(below(s)) \in 0 .. c - 1
    <2> TAKE s \in free
    <2>1. below(s) \in SUBSET free /\ below(s) # free
      BY <1>1
    <2>2. IsFiniteSet(below(s)) /\ Cardinality(below(s)) <= c /\ Cardinality(below(s)) # c
      BY <1>1, <2>1, FS_Subset
    <2>3. Cardinality(below(s)) \in Nat
      BY <2>2, FS_CardinalityType
    <2> QED BY <1>1, <2>2, <2>3
  <1>3. \A s, t \in free : s < t => Cardinality(below(s)) # Cardinality(below(t))
    <2> SUFFICES ASSUME NEW s \in free, NEW t \in free, s < t
                 PROVE  Cardinality(below(s)) # Cardinality(below(t))
      OBVIOUS
    <2>1. below(s) \in SUBSET below(t) /\ s \in below(t) /\ s \notin below(s)
      BY <1>1
    <2> QED BY <1>2, <2>1, FS_Subset
  <1>4. \A s, t \in free : Cardinality(below(s)) = Cardinality(below(t)) => s = t
    <2> SUFFICES ASSUME NEW s \in free, NEW t \in free, s # t,
                        Cardinality(below(s)) = Cardinality(below(t))
                 PROVE  FALSE
      OBVIOUS
    <2>1. s < t \/ t < s
      BY <1>1
    <2> QED BY <1>3, <2>1
  <1> HIDE DEF c, below
  <1>5. \A i \in 1 .. k : \E s \in free : Cardinality(below(s)) = i - 1
    <2> SUFFICES ASSUME NEW i \in 1 .. k, \A s \in free : Cardinality(below(s)) # i - 1
                 PROVE  FALSE
      OBVIOUS
    <2> DEFINE T == (0 .. c - 1) \ {i - 1}
    <2>1. i - 1 \in 0 .. c - 1
      BY <1>1 DEF c
    <2>2. IsFiniteSet(0 .. c - 1) /\ Cardinality(0 .. c - 1) = c
      <3>1. 0 \in Int /\ c - 1 \in Int /\ (c - 1) - 0 + 1 = c /\ (0 > c - 1 => c = 0)
        BY <1>1
      <3> QED BY <3>1, FS_Interval
    <2>3. IsFiniteSet(T) /\ Cardinality(T) = c - 1
      BY <2>1, <2>2, FS_RemoveElement
    <2>4. rank \in [free -> T]
      BY <1>2
    <2> HIDE DEF T, rank
    <2>5. PICK s, t \in free : s # t /\ rank[s] = rank[t]
      <3>1. Cardinality(T) < Cardinality(free)
        BY <1>1, <2>3 DEF c
      <3> HIDE DEF free
      <3> QED BY <1>1, <2>3, <2>4, <3>1, FS_PigeonHole
    <2>6. Cardinality(below(s)) = Cardinality(below(t))
      BY <2>5 DEF rank
    <2> QED BY <1>4, <2>5, <2>6
  <1> DEFINE first(i) == CHOOSE s \in free : Cardinality(below(s)) = i - 1
  <1>6. \A i \in 1 .. k : first(i) \in free /\ Cardinality(below(first(i))) = i - 1
    BY <1>5
  <1>7. FindAndSet(map, k) = [i \in 1 .. k |-> first(i)]
    BY DEF FindAndSet, below
  <1> HIDE DEF first, free
  <1>8. \A i, j \in 1 .. k : first(i) = first(j) => i = j
    BY <1>6
  <1>9. FindAndSet(map, k) \in [1 .. k -> free]
    BY <1>6, <1>7
  <1> QED BY <1>7, <1>8, <1>9 DEF free

(* FindAndSet gives the same sectors to who asks for more of them.         *)
LEMMA FindAndSetPrefix ==
    ASSUME NEW map, NEW k \in Nat, NEW n \in Nat, NEW i \in 1 .. k, i \in 1 .. n
    PROVE  FindAndSet(map, k)[i] = FindAndSet(map, n)[i]
  <1> DEFINE first(j) == CHOOSE s \in Sectors \ map : Cardinality({r \in Sectors \ map : r < s}) = j - 1
  <1>1. \A m \in Nat : FindAndSet(map, m) = [j \in 1 .. m |-> first(j)]
    BY DEF FindAndSet
  <1> HIDE DEF first
  <1> QED BY <1>1

-----------------------------------------------------------------------------
(* The places of the tables of level 4, in rows of one table that a header *)
(* names, and in these of one table below it.                              *)

Column == 1 + TableSize
Row == 1 + TableSize * Column
Spot(q, p, c) == 3 + q * Row + p * Column + c

(* The sectors of a table of tables and of those it names.                 *)
LEMMA RowProperties ==
    /\ Column \in Nat \ {0} /\ Row \in Nat \ {0} /\ TableSize * Column \in Nat
    /\ Row = 1 + TableSize * Column
  BY Numbers DEF Column, Row

(* The place of table c, of table p, of table q of level 4.                *)
LEMMA SpotProperties ==
    ASSUME NEW q \in Nat, NEW p \in 0 .. TableSize - 1, NEW c \in 0 .. TableSize
    PROVE  /\ Spot(q, p, c) = 2 + q * Row + (1 + (p * Column + c))
           /\ 1 + (p * Column + c) \in 0 .. Row - 1
           /\ p * Column + c \in Nat
           /\ q * Row \in Nat
  <1>0. /\ Column \in Nat \ {0} /\ Row \in Nat \ {0} /\ TableSize * Column \in Nat
        /\ Row = 1 + TableSize * Column /\ TableSize \in Nat /\ Column = 1 + TableSize
    BY RowProperties, Numbers DEF Column
  <1>1. c \in 0 .. Column - 1
    BY <1>0
  <1>2. p * Column + c \in 0 .. TableSize * Column - 1
    BY <1>0, <1>1, RadixBound
  <1>3. q * Row \in Nat /\ p * Column \in Nat
    BY <1>0
  <1> QED BY <1>0, <1>2, <1>3 DEF Spot

(* No two tables have the same place.                                      *)
LEMMA SpotInjective ==
    ASSUME NEW q \in Nat, NEW p \in 0 .. TableSize - 1, NEW c \in 0 .. TableSize,
           NEW y \in Nat, NEW x \in 0 .. TableSize - 1, NEW z \in 0 .. TableSize,
           Spot(q, p, c) = Spot(y, x, z)
    PROVE  q = y /\ p = x /\ c = z
  <1> DEFINE r == 1 + (p * Column + c)
             s == 1 + (x * Column + z)
  <1>1. q * Row + r = y * Row + s /\ r \in 0 .. Row - 1 /\ s \in 0 .. Row - 1
    <2>1. Spot(q, p, c) = 2 + q * Row + r /\ r \in 0 .. Row - 1 /\ q * Row \in Nat
      BY SpotProperties
    <2>2. Spot(y, x, z) = 2 + y * Row + s /\ s \in 0 .. Row - 1 /\ y * Row \in Nat
      BY SpotProperties
    <2> DEFINE u == q * Row
               v == y * Row
    <2>3. Spot(q, p, c) = 2 + u + r /\ Spot(y, x, z) = 2 + v + s /\ u \in Nat /\ v \in Nat
      BY <2>1, <2>2
    <2>4. r \in Nat /\ s \in Nat
      BY <2>1, <2>2, RowProperties
    <2> HIDE DEF r, s, u, v
    <2>5. 2 + u + r = 2 + v + s
      BY <2>3
    <2>6. u + r = v + s
      BY <2>3, <2>4, <2>5
    <2> QED BY <2>1, <2>2, <2>6 DEF u, v
  <1>2. p * Column + c \in Nat /\ x * Column + z \in Nat
    BY SpotProperties
  <1> HIDE DEF r, s
  <1>3. q = y /\ r = s
    BY <1>1, RowProperties, Radix
  <1>4. p * Column + c = x * Column + z
    BY <1>2, <1>3 DEF r, s
  <1>5. c \in 0 .. Column - 1 /\ z \in 0 .. Column - 1
    BY Numbers DEF Column
  <1>6. Column \in Nat \ {0} /\ p \in Nat /\ x \in Nat
    BY RowProperties, Numbers
  <1>7. p = x /\ c = z
    BY <1>4, <1>5, <1>6, Radix
  <1> QED BY <1>3, <1>7

(* The tables that the header names have places of their own.              *)
LEMMA TripleNotSpot ==
    ASSUME NEW q \in Nat, NEW p \in 0 .. TableSize - 1, NEW c \in 0 .. TableSize,
           NEW i \in Nat \ {0}
    PROVE  Triple(i) # Spot(q, p, c)
  <1> DEFINE r == 1 + (p * Column + c)
             y == i - 1
  <1>1. Spot(q, p, c) = 2 + q * Row + r /\ r \in 0 .. Row - 1 /\ r # 0 /\ q * Row \in Nat
    BY SpotProperties
  <1>2. Triple(i) = 2 + y * Row /\ y \in Nat
    BY DEF Triple, Row, Column
  <1> HIDE DEF r, y
  <1>3. y * Row \in Nat /\ y * Row + 0 = y * Row /\ 0 \in 0 .. Row - 1
    BY <1>2, RowProperties
  <1>4. ASSUME Triple(i) = Spot(q, p, c) PROVE FALSE
    <2>1. y * Row + 0 = q * Row + r
      BY <1>1, <1>2, <1>3, <1>4
    <2>2. 0 = r
      BY <2>1, <1>1, <1>2, <1>3, RowProperties, Radix
    <2> QED BY <1>1, <2>2
  <1> QED BY <1>4

(* No two of them have the same.                                           *)
LEMMA TripleInjective ==
    ASSUME NEW i \in Nat \ {0}, NEW j \in Nat \ {0}, Triple(i) = Triple(j)
    PROVE  i = j
  <1> DEFINE x == i - 1
             y == j - 1
  <1>1. x \in Nat /\ y \in Nat /\ Triple(i) = 2 + x * Row /\ Triple(j) = 2 + y * Row
    BY DEF Triple, Row, Column
  <1> HIDE DEF x, y
  <1>2. x * Row \in Nat /\ y * Row \in Nat /\ 0 \in 0 .. Row - 1
    BY <1>1, RowProperties
  <1>3. x * Row + 0 = y * Row + 0
    <2> DEFINE u == x * Row
               v == y * Row
    <2>1. 2 + u = 2 + v /\ u \in Nat /\ v \in Nat
      BY <1>1, <1>2
    <2> HIDE DEF u, v
    <2>2. u + 0 = v + 0
      BY <2>1
    <2> QED BY <2>2 DEF u, v
  <1>4. x = y /\ 0 = 0
    BY <1>1, <1>2, <1>3, RowProperties, Radix
  <1> QED BY <1>4 DEF x, y

LastPlace == 1 + NumTriple * Row

(* The header and tables of level 4 fill the places up to the last.        *)
LEMMA LastPlaceProperties ==
    /\ LastPlace \in Nat /\ NumTriple * Row \in Nat
    /\ \A size : WhichLevel(size) = 4 => HeaderSize(size) = LastPlace
  <1>1. NumTriple * Row \in Nat
    BY Numbers, RowProperties
  <1> QED BY <1>1 DEF LastPlace, HeaderSize, Row, Column

(* The places of the tables that the tables of the header name.            *)
LEMMA DoublePlace ==
    ASSUME NEW m \in 1 .. NumTriple * TableSize
    PROVE  /\ TableOf(m) \in 1 .. NumTriple
           /\ PlaceOf(m) \in 1 .. TableSize
           /\ m = (TableOf(m) - 1) * TableSize + PlaceOf(m)
           /\ Double(m) = Spot(TableOf(m) - 1, PlaceOf(m) - 1, 0)
  <1>1. m \in Nat \ {0} /\ m <= NumTriple * TableSize /\ NumTriple \in Nat
    BY Numbers
  <1>2. /\ TableOf(m) \in 1 .. NumTriple
        /\ PlaceOf(m) \in 1 .. TableSize
        /\ m = (TableOf(m) - 1) * TableSize + PlaceOf(m)
    BY <1>1, PlaceProperties
  <1>3. (TableOf(m) - 1) * Row \in Nat /\ (PlaceOf(m) - 1) * Column \in Nat
    BY <1>2, RowProperties, Numbers
  <1>4. Triple(TableOf(m)) = 2 + (TableOf(m) - 1) * Row
    BY DEF Triple, Row, Column
  <1>5. Double(m) = Triple(TableOf(m)) + 1 + (PlaceOf(m) - 1) * Column
    BY DEF Double, Column
  <1> QED BY <1>2, <1>3, <1>4, <1>5 DEF Spot

(* The places of the tables that name data.                                *)
LEMMA SinglePlace ==
    ASSUME NEW n \in 1 .. NumTriple * k2
    PROVE  /\ TableOf(n) \in 1 .. NumTriple * TableSize
           /\ PlaceOf(n) \in 1 .. TableSize
           /\ n = (TableOf(n) - 1) * TableSize + PlaceOf(n)
           /\ Single(n) = Spot(TableOf(TableOf(n)) - 1, PlaceOf(TableOf(n)) - 1, PlaceOf(n))
  <1>1. n \in Nat \ {0} /\ n <= (NumTriple * TableSize) * TableSize /\ NumTriple * TableSize \in Nat
    BY Numbers
  <1>2. /\ TableOf(n) \in 1 .. NumTriple * TableSize
        /\ PlaceOf(n) \in 1 .. TableSize
        /\ n = (TableOf(n) - 1) * TableSize + PlaceOf(n)
    BY <1>1, PlaceProperties
  <1> DEFINE m == TableOf(n)
  <1>3. /\ TableOf(m) \in 1 .. NumTriple
        /\ PlaceOf(m) \in 1 .. TableSize
        /\ Double(m) = Spot(TableOf(m) - 1, PlaceOf(m) - 1, 0)
    BY <1>2, DoublePlace
  <1>4. (TableOf(m) - 1) * Row \in Nat /\ (PlaceOf(m) - 1) * Column \in Nat
    BY <1>3, RowProperties, Numbers
  <1>5. Single(n) = Double(m) + PlaceOf(n)
    BY DEF Single
  <1> HIDE DEF m
  <1>6. Single(n) = Spot(TableOf(m) - 1, PlaceOf(m) - 1, PlaceOf(n))
    BY <1>2, <1>3, <1>4, <1>5 DEF Spot
  <1> QED BY <1>2, <1>6 DEF m

(* All places are among those taken for the header.                        *)
LEMMA TripleBounds ==
    ASSUME NEW i \in 1 .. NumTriple
    PROVE  /\ Triple(i) \in 2 .. LastPlace
           /\ Triple(i + 1) - 1 <= LastPlace
  <1> DEFINE q == i - 1
             u == q * Row
             v == i * Row
             w == NumTriple * Row
  <1>1. Row \in Nat \ {0} /\ NumTriple \in Nat /\ i \in Nat /\ q \in Nat /\ i <= NumTriple
    BY RowProperties, Numbers
  <1>2. Triple(i) = 2 + u /\ Triple(i + 1) = 2 + v
    BY DEF Triple, Row, Column
  <1>3. v = u + Row /\ u \in Nat /\ v \in Nat
    BY <1>1
  <1>4. v <= w /\ w \in Nat
    BY <1>1
  <1>5. LastPlace = 1 + w
    BY DEF LastPlace
  <1> HIDE DEF q, u, v, w
  <1>6. Row >= 1
    BY <1>1
  <1> QED BY <1>1, <1>2, <1>3, <1>4, <1>5, <1>6

(* ... at every depth.                                                     *)
LEMMA SpotBounds ==
    ASSUME NEW q \in 0 .. NumTriple - 1, NEW p \in 0 .. TableSize - 1, NEW c \in 0 .. TableSize
    PROVE  Spot(q, p, c) \in 2 .. LastPlace
  <1> DEFINE r == 1 + (p * Column + c)
             w == NumTriple * Row
             u == q * Row + r
  <1>1. q \in Nat /\ Row \in Nat \ {0} /\ NumTriple \in Nat
    BY RowProperties, Numbers
  <1>2. Spot(q, p, c) = 2 + q * Row + r /\ r \in 0 .. Row - 1 /\ q * Row \in Nat
    BY <1>1, SpotProperties
  <1> HIDE DEF r
  <1>3. u \in 0 .. w - 1
    BY <1>1, <1>2, RadixBound
  <1>4. Spot(q, p, c) = 2 + u
    <2>1. r \in Nat
      BY <1>1, <1>2
    <2> DEFINE v == q * Row
    <2>2. Spot(q, p, c) = 2 + v + r /\ v \in Nat
      BY <1>2
    <2> HIDE DEF v
    <2>3. 2 + v + r = 2 + (v + r)
      BY <2>1, <2>2
    <2> QED BY <2>2, <2>3 DEF v
  <1>5. LastPlace = 1 + w /\ w \in Nat
    BY <1>1 DEF LastPlace
  <1> HIDE DEF u, w
  <1> QED BY <1>3, <1>4, <1>5

(* The places of the tables of level 4: all of them are behind the header  *)
(* and within what AllocateHDR takes, no two tables have the same, and no  *)
(* place is left.                                                          *)
LEMMA TablePlaces ==
    /\ \A i \in 1 .. NumTriple : Triple(i) \in 2 .. LastPlace
    /\ \A m \in 1 .. NumTriple * TableSize : Double(m) \in 2 .. LastPlace /\ Double(m) + TableSize <= LastPlace
    /\ \A n \in 1 .. NumTriple * k2 : Single(n) \in 2 .. LastPlace
    /\ \A i \in 1 .. NumTriple : \A m \in 1 .. NumTriple * TableSize : Triple(i) # Double(m)
    /\ \A i \in 1 .. NumTriple : \A n \in 1 .. NumTriple * k2 : Triple(i) # Single(n)
    /\ \A m \in 1 .. NumTriple * TableSize : \A n \in 1 .. NumTriple * k2 : Double(m) # Single(n)
    /\ \A i, j \in 1 .. NumTriple : Triple(i) = Triple(j) => i = j
    /\ \A m, n \in 1 .. NumTriple * TableSize : Double(m) = Double(n) => m = n
    /\ \A m, n \in 1 .. NumTriple * k2 : Single(m) = Single(n) => m = n
  <1>0. NumTriple \in Nat /\ TableSize \in Nat \ {0}
    BY Numbers
  <1>1. \A i \in 1 .. NumTriple : Triple(i) \in 2 .. LastPlace
    BY TripleBounds
  <1>2. ASSUME NEW m \in 1 .. NumTriple * TableSize
        PROVE  /\ TableOf(m) - 1 \in 0 .. NumTriple - 1 /\ TableOf(m) - 1 \in Nat
               /\ PlaceOf(m) - 1 \in 0 .. TableSize - 1
               /\ Double(m) = Spot(TableOf(m) - 1, PlaceOf(m) - 1, 0)
               /\ m = (TableOf(m) - 1) * TableSize + PlaceOf(m)
    BY <1>0, DoublePlace
  <1>3. ASSUME NEW n \in 1 .. NumTriple * k2
        PROVE  /\ TableOf(n) \in 1 .. NumTriple * TableSize
               /\ PlaceOf(n) \in 0 .. TableSize /\ PlaceOf(n) # 0
               /\ Single(n) = Spot(TableOf(TableOf(n)) - 1, PlaceOf(TableOf(n)) - 1, PlaceOf(n))
               /\ n = (TableOf(n) - 1) * TableSize + PlaceOf(n)
    BY <1>0, SinglePlace
  <1>4. ASSUME NEW m \in 1 .. NumTriple * TableSize
        PROVE  Double(m) \in 2 .. LastPlace /\ Double(m) + TableSize <= LastPlace
    <2> DEFINE q == TableOf(m) - 1
               p == PlaceOf(m) - 1
    <2>1. /\ q \in 0 .. NumTriple - 1 /\ q \in Nat /\ p \in 0 .. TableSize - 1
          /\ Double(m) = Spot(q, p, 0) /\ 0 \in 0 .. TableSize /\ TableSize \in 0 .. TableSize
      BY <1>0, <1>2
    <2> HIDE DEF q, p
    <2>2. Spot(q, p, 0) \in 2 .. LastPlace /\ Spot(q, p, TableSize) \in 2 .. LastPlace
      BY <2>1, SpotBounds
    <2>3. Spot(q, p, TableSize) = Spot(q, p, 0) + TableSize
      <3> DEFINE u == q * Row
                 v == p * Column
      <3>1. u \in Nat /\ v \in Nat
        BY <2>1, <1>0, RowProperties
      <3>2. Spot(q, p, TableSize) = 3 + u + v + TableSize /\ Spot(q, p, 0) = 3 + u + v + 0
        BY DEF Spot
      <3> HIDE DEF u, v
      <3> QED BY <3>1, <3>2, <1>0
    <2> QED BY <2>1, <2>2, <2>3, LastPlaceProperties
  <1>5. ASSUME NEW n \in 1 .. NumTriple * k2 PROVE Single(n) \in 2 .. LastPlace
    <2> DEFINE m == TableOf(n)
    <2>1. m \in 1 .. NumTriple * TableSize /\ PlaceOf(n) \in 0 .. TableSize
          /\ Single(n) = Spot(TableOf(m) - 1, PlaceOf(m) - 1, PlaceOf(n))
      BY <1>3
    <2> HIDE DEF m
    <2>2. TableOf(m) - 1 \in 0 .. NumTriple - 1 /\ PlaceOf(m) - 1 \in 0 .. TableSize - 1
      BY <1>2, <2>1
    <2> QED BY <2>1, <2>2, SpotBounds
  <1>6. ASSUME NEW i \in 1 .. NumTriple, NEW m \in 1 .. NumTriple * TableSize
        PROVE  Triple(i) # Double(m)
    <2>1. i \in Nat \ {0} /\ 0 \in 0 .. TableSize
      BY <1>0
    <2> QED BY <2>1, <1>2, TripleNotSpot
  <1>7. ASSUME NEW i \in 1 .. NumTriple, NEW n \in 1 .. NumTriple * k2
        PROVE  Triple(i) # Single(n)
    <2> DEFINE m == TableOf(n)
    <2>1. m \in 1 .. NumTriple * TableSize /\ PlaceOf(n) \in 0 .. TableSize
          /\ Single(n) = Spot(TableOf(m) - 1, PlaceOf(m) - 1, PlaceOf(n))
      BY <1>3
    <2> HIDE DEF m
    <2>2. TableOf(m) - 1 \in Nat /\ PlaceOf(m) - 1 \in 0 .. TableSize - 1
      BY <1>2, <2>1
    <2>3. i \in Nat \ {0}
      BY <1>0
    <2> QED BY <2>1, <2>2, <2>3, TripleNotSpot
  <1>8. ASSUME NEW m \in 1 .. NumTriple * TableSize, NEW n \in 1 .. NumTriple * k2
        PROVE  Double(m) # Single(n)
    <2> DEFINE l == TableOf(n)
    <2>1. l \in 1 .. NumTriple * TableSize /\ PlaceOf(n) \in 0 .. TableSize /\ PlaceOf(n) # 0
          /\ Single(n) = Spot(TableOf(l) - 1, PlaceOf(l) - 1, PlaceOf(n))
      BY <1>3
    <2> HIDE DEF l
    <2>2. TableOf(l) - 1 \in Nat /\ PlaceOf(l) - 1 \in 0 .. TableSize - 1
      BY <1>2, <2>1
    <2>3. 0 \in 0 .. TableSize
      BY <1>0
    <2> QED BY <1>2, <2>1, <2>2, <2>3, SpotInjective
  <1>9. ASSUME NEW i \in 1 .. NumTriple, NEW j \in 1 .. NumTriple, Triple(i) = Triple(j)
        PROVE  i = j
    <2>1. i \in Nat \ {0} /\ j \in Nat \ {0}
      BY <1>0
    <2> QED BY <2>1, <1>9, TripleInjective
  <1>10. ASSUME NEW m \in 1 .. NumTriple * TableSize, NEW n \in 1 .. NumTriple * TableSize,
                  Double(m) = Double(n)
         PROVE  m = n
    <2>1. 0 \in 0 .. TableSize
      BY <1>0
    <2>2. TableOf(m) - 1 = TableOf(n) - 1 /\ PlaceOf(m) - 1 = PlaceOf(n) - 1
      BY <2>1, <1>2, <1>10, SpotInjective
    <2>3. PlaceOf(m) \in Nat /\ PlaceOf(n) \in Nat
      BY <1>0, DoublePlace
    <2>4. PlaceOf(m) = PlaceOf(n)
      BY <2>2, <2>3
    <2> QED BY <1>2, <2>2, <2>4
  <1>11. ASSUME NEW m \in 1 .. NumTriple * k2, NEW n \in 1 .. NumTriple * k2, Single(m) = Single(n)
         PROVE  m = n
    <2> DEFINE s == TableOf(m)
               t == TableOf(n)
    <2>1. /\ s \in 1 .. NumTriple * TableSize /\ PlaceOf(m) \in 0 .. TableSize
          /\ Single(m) = Spot(TableOf(s) - 1, PlaceOf(s) - 1, PlaceOf(m))
          /\ m = (s - 1) * TableSize + PlaceOf(m)
      BY <1>3
    <2>2. /\ t \in 1 .. NumTriple * TableSize /\ PlaceOf(n) \in 0 .. TableSize
          /\ Single(n) = Spot(TableOf(t) - 1, PlaceOf(t) - 1, PlaceOf(n))
          /\ n = (t - 1) * TableSize + PlaceOf(n)
      BY <1>3
    <2> HIDE DEF s, t
    <2>3. /\ TableOf(s) - 1 \in Nat /\ PlaceOf(s) - 1 \in 0 .. TableSize - 1
          /\ TableOf(t) - 1 \in Nat /\ PlaceOf(t) - 1 \in 0 .. TableSize - 1
      BY <1>2, <2>1, <2>2
    <2>4. TableOf(s) - 1 = TableOf(t) - 1 /\ PlaceOf(s) - 1 = PlaceOf(t) - 1 /\ PlaceOf(m) = PlaceOf(n)
      BY <2>1, <2>2, <2>3, <1>11, SpotInjective
    <2>5. PlaceOf(s) = PlaceOf(t)
      <3>1. PlaceOf(s) \in Nat /\ PlaceOf(t) \in Nat
        BY <1>0, <2>1, <2>2, DoublePlace
      <3> QED BY <2>4, <3>1
    <2>6. s = t
      BY <1>2, <2>1, <2>2, <2>4, <2>5
    <2> QED BY <2>1, <2>2, <2>4, <2>6
  <1> QED BY <1>1, <1>4, <1>5, <1>6, <1>7, <1>8, <1>9, <1>10, <1>11

(* Every sector that AllocateHDR takes at level 4 becomes a table.         *)
LEMMA AllPlacesTaken ==
    ASSUME NEW x \in 2 .. LastPlace
    PROVE  \/ \E i \in 1 .. NumTriple : x = Triple(i)
           \/ \E m \in 1 .. NumTriple * TableSize : x = Double(m)
           \/ \E n \in 1 .. NumTriple * k2 : x = Single(n)
  <1> DEFINE y == x - 2
             q == y \div Row
             r == y % Row
  <1>0. NumTriple \in Nat /\ TableSize \in Nat \ {0} /\ Row \in Nat \ {0} /\ NumTriple * Row \in Nat
    BY Numbers, RowProperties
  <1>1. y \in Nat /\ y < NumTriple * Row
    BY <1>0 DEF LastPlace
  <1> HIDE DEF y
  <1>2. q \in Nat /\ r \in 0 .. Row - 1 /\ y = q * Row + r /\ q < NumTriple
    BY <1>0, <1>1, Division
  <1> HIDE DEF q, r
  <1>3. q + 1 \in 1 .. NumTriple /\ q + 1 \in Nat \ {0} /\ (q + 1) - 1 = q
    BY <1>0, <1>2
  <1>4. x = 2 + (q * Row + r) /\ q * Row \in Nat /\ r \in Nat
    BY <1>0, <1>1, <1>2 DEF y
  <1>5. CASE r = 0
    <2>1. Triple(q + 1) = 2 + q * Row
      BY <1>3 DEF Triple, Row, Column
    <2>2. x = Triple(q + 1)
      BY <1>4, <1>5, <2>1
    <2> QED BY <1>3, <2>2
  <1>6. CASE r # 0
    <2> DEFINE z == r - 1
               p == z \div Column
               c == z % Column
    <2>1. z \in Nat /\ z < TableSize * Column /\ Column \in Nat \ {0}
      BY <1>2, <1>4, <1>6, RowProperties
    <2> HIDE DEF z
    <2>2. p \in Nat /\ c \in 0 .. Column - 1 /\ z = p * Column + c /\ p < TableSize
      BY <1>0, <2>1, Division
    <2> HIDE DEF p, c
    <2>3. c \in 0 .. TableSize /\ p \in 0 .. TableSize - 1 /\ p + 1 \in 1 .. TableSize /\ (p + 1) - 1 = p
      BY <1>0, <2>2 DEF Column
    <2>4. x = Spot(q, p, c)
      <3> DEFINE u == q * Row
                 v == p * Column
      <3>1. x = 2 + (u + r) /\ z = v + c /\ Spot(q, p, c) = 3 + u + v + c
        BY <1>4, <2>2 DEF Spot
      <3>2. u \in Nat /\ v \in Nat /\ c \in Nat /\ r \in Nat /\ r = z + 1 /\ z \in Nat
        BY <1>4, <2>1, <2>2, <2>3, <1>0 DEF z
      <3> HIDE DEF u, v
      <3> QED BY <3>1, <3>2
    <2> DEFINE m == ((q + 1) - 1) * TableSize + (p + 1)
    <2>5. /\ m \in Nat \ {0} /\ TableOf(m) = q + 1 /\ PlaceOf(m) = p + 1
          /\ m <= NumTriple * TableSize
      <3>1. q + 1 <= NumTriple
        BY <1>3
      <3> QED BY <1>0, <1>3, <2>3, <3>1, PlaceOfEntry
    <2> HIDE DEF m
    <2>6. m \in 1 .. NumTriple * TableSize
      BY <2>5, <1>0
    <2>7. CASE c = 0
      <3>1. Double(m) = Spot(q, p, 0)
        BY <2>5, <2>6, <1>3, <2>3, DoublePlace
      <3> QED BY <2>4, <2>6, <2>7, <3>1
    <2>8. CASE c # 0
      <3> DEFINE n == (m - 1) * TableSize + c
      <3>1. /\ n \in Nat \ {0} /\ TableOf(n) = m /\ PlaceOf(n) = c
            /\ n <= (NumTriple * TableSize) * TableSize
        <4>1. c \in 1 .. TableSize /\ m <= NumTriple * TableSize /\ NumTriple * TableSize \in Nat
          BY <2>3, <2>5, <2>8, <1>0
        <4> QED BY <4>1, <2>5, PlaceOfEntry
      <3> HIDE DEF n
      <3>2. n \in 1 .. NumTriple * k2
        BY <3>1, Numbers
      <3>3. Single(n) = Spot(q, p, c)
        BY <3>1, <3>2, <2>5, <1>3, <2>3, SinglePlace
      <3> QED BY <2>4, <3>2, <3>3
    <2> QED BY <2>7, <2>8
  <1> QED BY <1>5, <1>6

(* A function over the first n numbers is a sequence of that length.       *)
LEMMA LenOf ==
    ASSUME NEW n \in Nat, NEW S, NEW f \in [1 .. n -> S]
    PROVE  Len(f) = n /\ DOMAIN f = 1 .. n /\ \A i \in 1 .. n : f[i] \in S
  OBVIOUS

(* A distinct sector for each place of a file of that size. *)
Enough(taken, size) ==
    /\ taken \in [1 .. HeaderSize(size) + size -> Sectors]
    /\ \A i, j \in DOMAIN taken : taken[i] = taken[j] => i = j

(* The tables that name data have different places, and are enough.        *)
LEMMA LeafPlacesProperties ==
    ASSUME NEW size \in 1 .. MaxSize
    PROVE  /\ size \in Nat \ {0}
           /\ HeaderSize(size) \in Nat \ {0}
           /\ \A n \in DOMAIN LeafPlaces(size) : LeafPlaces(size)[n] \in 2 .. HeaderSize(size)
           /\ \A m, n \in DOMAIN LeafPlaces(size) : LeafPlaces(size)[m] = LeafPlaces(size)[n] => m = n
           /\ WhichLevel(size) # 1 => \A i \in 1 .. size : TableOf(i) \in DOMAIN LeafPlaces(size)
           /\ WhichLevel(size) = 2 => LeafPlaces(size) = << 2 >> /\ HeaderSize(size) = 2
           /\ WhichLevel(size) = 3 => /\ LeafPlaces(size) = [j \in 1 .. TableSize |-> 2 + j]
                                      /\ HeaderSize(size) = 2 + TableSize
           /\ WhichLevel(size) = 4 => /\ LeafPlaces(size) = [n \in 1 .. NumTriple * k2 |-> Single(n)]
                                      /\ HeaderSize(size) = LastPlace
  <1>0. size \in Nat \ {0} /\ size <= MaxSize
    BY MaxSizeProperties
  <1>1. \A c \in Nat : size <= c * TableSize => \A i \in 1 .. size : TableOf(i) \in 1 .. c
    <2> SUFFICES ASSUME NEW c \in Nat, size <= c * TableSize, NEW i \in 1 .. size
                 PROVE  TableOf(i) \in 1 .. c
      OBVIOUS
    <2>1. i \in Nat \ {0} /\ i <= c * TableSize
      BY <1>0, Numbers
    <2> QED BY <2>1, PlaceProperties
  <1>2. CASE WhichLevel(size) = 1
    BY <1>0, <1>2 DEF LeafPlaces, HeaderSize
  <1>3. CASE WhichLevel(size) = 2
    <2>1. LeafPlaces(size) = << 2 >> /\ HeaderSize(size) = 2
      BY <1>3 DEF LeafPlaces, HeaderSize
    <2>2. size <= 1 * TableSize
      BY <1>0, <1>3, Levels, Numbers
    <2>3. \A i \in 1 .. size : TableOf(i) \in 1 .. 1
      BY <1>1, <2>2
    <2> QED BY <1>0, <1>3, <2>1, <2>3
  <1>4. CASE WhichLevel(size) = 3
    <2>1. LeafPlaces(size) = [j \in 1 .. TableSize |-> 2 + j] /\ HeaderSize(size) = 2 + TableSize
      BY <1>4 DEF LeafPlaces, HeaderSize
    <2>2. size <= TableSize * TableSize
      BY <1>0, <1>4, Levels DEF k2
    <2>3. \A i \in 1 .. size : TableOf(i) \in 1 .. TableSize
      BY <1>1, <2>2, Numbers
    <2>4. /\ \A n \in 1 .. TableSize : 2 + n \in 2 .. HeaderSize(size)
          /\ \A m, n \in 1 .. TableSize : 2 + m = 2 + n => m = n
      BY <2>1, Numbers
    <2> QED BY <1>0, <1>4, <2>1, <2>3, <2>4, Numbers
  <1>5. CASE WhichLevel(size) = 4
    <2>1. LeafPlaces(size) = [n \in 1 .. NumTriple * k2 |-> Single(n)] /\ HeaderSize(size) = LastPlace
      BY <1>5, LastPlaceProperties DEF LeafPlaces
    <2>2. size <= (NumTriple * k2) * TableSize
      BY <1>0, MaxSizeProperties
    <2>3. \A i \in 1 .. size : TableOf(i) \in 1 .. NumTriple * k2
      BY <1>1, <2>2, Numbers
    <2>4. LastPlace \in Nat \ {0}
      BY LastPlaceProperties DEF LastPlace
    <2>5. /\ \A n \in 1 .. NumTriple * k2 : Single(n) \in 2 .. LastPlace
          /\ \A m, n \in 1 .. NumTriple * k2 : Single(m) = Single(n) => m = n
      BY TablePlaces
    <2> QED BY <1>0, <1>5, <2>1, <2>3, <2>4, <2>5
  <1> QED BY <1>0, <1>2, <1>3, <1>4, <1>5, Levels

(* FileHeader::WriteBack writes the header and the tables that name data. *)
LEMMA HeaderWritten ==
    ASSUME NEW size \in 1 .. MaxSize, NEW taken, Enough(taken, size), NEW d, DOMAIN d = Sectors
    PROVE  LET new == WriteHeader(d, taken, size)
               places == LeafPlaces(size)
           IN  /\ DOMAIN new = Sectors
               /\ new[taken[1]] = HeaderOf(taken, size)
               /\ \A n \in DOMAIN places : new[taken[places[n]]] = Index(Part(DataOf(taken, size), n))
               /\ \A s \in Sectors : /\ s # taken[1]
                                     /\ \A n \in DOMAIN places : s # taken[places[n]]
                                     => new[s] = d[s]
  <1> DEFINE places == LeafPlaces(size)
             first == WriteHeaderSector(d, taken, size)
             sectors == At(taken, places)
             contents == [n \in DOMAIN places |-> Index(Part(DataOf(taken, size), n))]
             new == Write(first, sectors, contents)
  <1>1. WriteHeader(d, taken, size) = new
    BY DEF WriteHeader
  <1>2. /\ size \in Nat \ {0} /\ HeaderSize(size) \in Nat \ {0}
        /\ \A n \in DOMAIN places : places[n] \in 2 .. HeaderSize(size)
        /\ \A m, n \in DOMAIN places : places[m] = places[n] => m = n
    BY LeafPlacesProperties
  <1> HIDE DEF places
  <1>3. /\ 1 \in DOMAIN taken /\ DOMAIN taken = 1 .. HeaderSize(size) + size
        /\ \A n \in DOMAIN places : places[n] \in DOMAIN taken /\ places[n] # 1
    BY <1>2 DEF Enough
  <1>4. /\ \A i \in DOMAIN taken : taken[i] \in Sectors
        /\ \A i, j \in DOMAIN taken : taken[i] = taken[j] => i = j
    BY DEF Enough
  <1>5. /\ DOMAIN first = Sectors
        /\ first[taken[1]] = HeaderOf(taken, size)
        /\ \A s \in Sectors : s # taken[1] => first[s] = d[s]
    <2> DEFINE one == << taken[1] >>
               hdr == << HeaderOf(taken, size) >>
    <2>1. DOMAIN one = {1} /\ DOMAIN hdr = {1} /\ one[1] = taken[1] /\ hdr[1] = HeaderOf(taken, size)
      OBVIOUS
    <2>2. first = Write(d, one, hdr)
      BY DEF WriteHeaderSector
    <2> HIDE DEF one, hdr, first
    <2>3. \A i \in DOMAIN one : Write(d, one, hdr)[one[i]] = hdr[i]
      BY <2>1, <1>3, <1>4, WriteThere
    <2>4. /\ DOMAIN Write(d, one, hdr) = DOMAIN d
          /\ \A s \in DOMAIN d : (\A i \in DOMAIN one : one[i] # s) => Write(d, one, hdr)[s] = d[s]
      BY WriteProperties
    <2> QED BY <2>1, <2>2, <2>3, <2>4
  <1>6. DOMAIN sectors = DOMAIN places /\ DOMAIN contents = DOMAIN places
        /\ \A n \in DOMAIN places : sectors[n] = taken[places[n]] /\ contents[n] = Index(Part(DataOf(taken, size), n))
    BY DEF At
  <1> HIDE DEF first, sectors, contents
  <1>7. \A i, j \in DOMAIN sectors : sectors[i] = sectors[j] => i = j
    BY <1>2, <1>3, <1>4, <1>6
  <1>8. \A i \in DOMAIN sectors : sectors[i] \in DOMAIN first
    BY <1>3, <1>4, <1>5, <1>6
  <1>9. \A i \in DOMAIN sectors : new[sectors[i]] = contents[i]
    BY <1>6, <1>7, <1>8, WriteThere
  <1>10. /\ DOMAIN new = Sectors
         /\ \A s \in Sectors : (\A i \in DOMAIN sectors : sectors[i] # s) => new[s] = first[s]
    BY <1>5, WriteProperties
  <1> HIDE DEF new
  <1>11. new[taken[1]] = HeaderOf(taken, size)
    BY <1>3, <1>4, <1>5, <1>6, <1>10
  <1>12. \A n \in DOMAIN places : new[taken[places[n]]] = Index(Part(DataOf(taken, size), n))
    BY <1>6, <1>9
  <1>13. \A s \in Sectors : /\ s # taken[1]
                            /\ \A n \in DOMAIN places : s # taken[places[n]]
                            => new[s] = d[s]
    BY <1>5, <1>6, <1>10
  <1> QED BY <1>1, <1>10, <1>11, <1>12, <1>13 DEF places

(* An index sector.                                                        *)
LEMMA IndexFields ==
    ASSUME NEW table
    PROVE  Index(table).kind = "index" /\ Index(table).table = table
  BY DEF Index

(* The data sectors that the lowest tables name. *)
LEMMA PartsJoin ==
    ASSUME NEW d, NEW t, NEW data, NEW size \in Nat \ {0}, data \in [1 .. size -> Sectors],
           \A i \in 1 .. size : TableOf(i) \in DOMAIN t,
           \A n \in DOMAIN t : d[t[n]] = Index(Part(data, n))
    PROVE  /\ Named(d, t, size) = data
           /\ AreTables(d, t, size)
  <1>1. Len(data) = size
    OBVIOUS
  <1>2. ASSUME NEW i \in 1 .. size
        PROVE  /\ PlaceOf(i) \in DOMAIN d[t[TableOf(i)]].table
               /\ d[t[TableOf(i)]].table[PlaceOf(i)] = data[i]
    <2> DEFINE n == TableOf(i)
               p == PlaceOf(i)
    <2>1. p \in 1 .. TableSize /\ i = (n - 1) * TableSize + p
      BY PlaceProperties
    <2>2. d[t[n]].table = Part(data, n)
      <3>1. d[t[n]] = Index(Part(data, n))
        OBVIOUS
      <3> QED BY <3>1, IndexFields
    <2> HIDE DEF n, p
    <2>3. p \in {j \in 1 .. TableSize : (n - 1) * TableSize + j <= Len(data)}
      BY <1>1, <2>1
    <2>4. p \in DOMAIN Part(data, n) /\ Part(data, n)[p] = data[(n - 1) * TableSize + p]
      BY <2>3 DEF Part
    <2> QED BY <2>1, <2>2, <2>4 DEF n, p
  <1>3. Named(d, t, size) = [i \in 1 .. size |-> data[i]]
    BY <1>2 DEF Named
  <1>4. \A i \in DOMAIN t : d[t[i]].kind = "index"
    BY IndexFields
  <1> QED BY <1>2, <1>3, <1>4 DEF AreTables

Doubles3(taken) == [j \in 1 .. TableSize |-> taken[2 + j]]
Upper3(d, taken) == d[taken[2]] = Index(Doubles3(taken))
Upper4(d, taken) ==
    /\ \A i \in 1 .. NumTriple :
          d[taken[Triple(i)]] = Index([j \in 1 .. TableSize |-> taken[Double((i - 1) * TableSize + j)]])
    /\ \A m \in 1 .. NumTriple * TableSize :
          d[taken[Double(m)]] = Index([k \in 1 .. TableSize |-> taken[Double(m) + k]])

(* A header sector.                                                        *)
LEMMA HeaderFields ==
    ASSUME NEW size, NEW table
    PROVE  Header(size, table).kind = "header" /\ Header(size, table).size = size /\ Header(size, table).table = table
  BY DEF Header

(* The data sectors are those taken after the header and its tables.       *)
LEMMA DataOfProperties ==
    ASSUME NEW size \in 1 .. MaxSize, NEW taken, Enough(taken, size)
    PROVE  /\ DataOf(taken, size) \in [1 .. size -> Sectors]
           /\ \A i \in 1 .. size : /\ DataOf(taken, size)[i] = taken[HeaderSize(size) + i]
                                  /\ HeaderSize(size) + i \in DOMAIN taken
                                  /\ HeaderSize(size) + i \notin 1 .. HeaderSize(size)
           /\ 1 .. HeaderSize(size) \subseteq DOMAIN taken
           /\ \A x \in DOMAIN taken : x \in 1 .. HeaderSize(size) \/ \E i \in 1 .. size : x = HeaderSize(size) + i
           /\ Range(DataOf(taken, size)) = {taken[x] : x \in DOMAIN taken \ (1 .. HeaderSize(size))}
  <1> DEFINE h == HeaderSize(size)
  <1>1. size \in Nat \ {0} /\ h \in Nat \ {0}
    BY LeafPlacesProperties
  <1>2. DataOf(taken, size) = [i \in 1 .. size |-> taken[h + i]]
    BY DEF DataOf
  <1>3. taken \in [1 .. h + size -> Sectors]
    BY DEF Enough
  <1> HIDE DEF h
  <1>4. \A i \in 1 .. size : h + i \in 1 .. h + size /\ h + i \notin 1 .. h
    BY <1>1
  <1>5. \A x \in 1 .. h + size : x \in 1 .. h \/ \E i \in 1 .. size : x = h + i
    <2> TAKE x \in 1 .. h + size
    <2>1. CASE x > h
      <3>1. x - h \in 1 .. size /\ x = h + (x - h)
        BY <1>1, <2>1
      <3> QED BY <3>1
    <2> QED BY <1>1, <2>1
  <1>6. 1 .. h \subseteq 1 .. h + size
    BY <1>1
  <1>7. DataOf(taken, size) \in [1 .. size -> Sectors]
    BY <1>2, <1>3, <1>4
  <1>8. Range(DataOf(taken, size)) = {taken[x] : x \in (1 .. h + size) \ (1 .. h)}
    <2>1. Range(DataOf(taken, size)) = {taken[h + i] : i \in 1 .. size}
      BY <1>2 DEF Range
    <2>2. \A i \in 1 .. size : h + i \in (1 .. h + size) \ (1 .. h)
      BY <1>4
    <2>3. \A x \in (1 .. h + size) \ (1 .. h) : \E i \in 1 .. size : x = h + i
      BY <1>5
    <2> QED BY <2>1, <2>2, <2>3
  <1> QED BY <1>2, <1>3, <1>4, <1>5, <1>6, <1>7, <1>8 DEF h

(* What is left to show of a new file when its tables are known. *)
LEMMA FileOfTables ==
    ASSUME NEW size \in 1 .. MaxSize, NEW taken, Enough(taken, size), NEW new,
           new[taken[1]] = HeaderOf(taken, size),
           Blocks(new, taken[1]) = DataOf(taken, size),
           Meta(new, taken[1]) = {taken[x] : x \in 1 .. HeaderSize(size)},
           Readable(new, taken[1])
    PROVE  /\ File(new, taken[1])
           /\ Extent(new, taken[1]) = Range(taken)
           /\ new[taken[1]].size = size
  <1> DEFINE s == taken[1]
             h == HeaderSize(size)
  <1>1. /\ size \in Nat \ {0} /\ h \in Nat \ {0}
    BY LeafPlacesProperties
  <1>2. /\ DataOf(taken, size) \in [1 .. size -> Sectors]
        /\ \A i \in 1 .. size : /\ DataOf(taken, size)[i] = taken[h + i]
                               /\ h + i \in DOMAIN taken
        /\ 1 .. h \subseteq DOMAIN taken
        /\ Range(DataOf(taken, size)) = {taken[x] : x \in DOMAIN taken \ (1 .. h)}
    BY DataOfProperties
  <1>3. /\ \A i \in DOMAIN taken : taken[i] \in Sectors
        /\ \A i, j \in DOMAIN taken : taken[i] = taken[j] => i = j
    BY DEF Enough
  <1>4. new[s].size = size /\ new[s].table = IF WhichLevel(size) = 1 THEN DataOf(taken, size) ELSE At(taken, UpperPlaces(size))
    BY HeaderFields DEF HeaderOf
  <1>5. Shape(new, s)
    <2>1. Level(new, s) = WhichLevel(size)
      BY <1>4 DEF Level
    <2>2. WhichLevel(size) = 1 => DOMAIN new[s].table = 1 .. size
      BY <1>2, <1>4
    <2>3. WhichLevel(size) \in {2, 3} => DOMAIN new[s].table = 1 .. 1
      <3>1. WhichLevel(size) \in {2, 3} => UpperPlaces(size) = << 2 >>
        BY DEF UpperPlaces
      <3> QED BY <1>4, <3>1 DEF At
    <2>4. WhichLevel(size) = 4 => DOMAIN new[s].table = 1 .. NumTriple
      <3>1. WhichLevel(size) = 4 => DOMAIN UpperPlaces(size) = 1 .. NumTriple
        BY DEF UpperPlaces
      <3> QED BY <1>4, <3>1 DEF At
    <2> QED BY <1>4, <2>1, <2>2, <2>3, <2>4 DEF Shape
  <1> HIDE DEF h
  <1>6. Extent(new, s) = Range(taken)
    <2>1. Range(taken) = {taken[x] : x \in DOMAIN taken}
      BY DEF Range
    <2>2. Extent(new, s) = {taken[x] : x \in 1 .. h} \cup {taken[x] : x \in DOMAIN taken \ (1 .. h)}
      BY <1>2 DEF Extent, h
    <2> QED BY <1>2, <2>1, <2>2
  <1>7. Range(taken) \subseteq Sectors
    BY <1>3 DEF Range
  <1>8. Meta(new, s) \cap Range(Blocks(new, s)) = {}
    BY <1>2, <1>3 DEF h
  <1>9. \A i, j \in DOMAIN Blocks(new, s) : Blocks(new, s)[i] = Blocks(new, s)[j] => i = j
    <2>1. DOMAIN Blocks(new, s) = 1 .. size
      BY <1>2
    <2>2. \A i, j \in 1 .. size : DataOf(taken, size)[i] = DataOf(taken, size)[j] => h + i = h + j
      BY <1>2, <1>3
    <2>3. \A i, j \in 1 .. size : h + i = h + j => i = j
      BY <1>1
    <2> QED BY <2>1, <2>2, <2>3
  <1>10. s \in Sectors
    <2>1. 1 \in DOMAIN taken
      BY <1>1, <1>2
    <2> QED BY <1>3, <2>1
  <1> QED BY <1>4, <1>5, <1>6, <1>7, <1>8, <1>9, <1>10 DEF File

(* A new file is one of exactly the sectors that were taken for it.        *)
LEMMA NewFile ==
    ASSUME NEW size \in 1 .. MaxSize, NEW taken, Enough(taken, size), NEW d, DOMAIN d = Sectors,
           WhichLevel(size) = 3 => Upper3(d, taken),
           WhichLevel(size) = 4 => Upper4(d, taken)
    PROVE  LET new == WriteHeader(d, taken, size)
           IN  /\ DOMAIN new = Sectors
               /\ \A s \in Sectors \ Range(taken) : new[s] = d[s]
               /\ File(new, taken[1])
               /\ Extent(new, taken[1]) = Range(taken)
               /\ new[taken[1]].size = size
               /\ Blocks(new, taken[1]) = DataOf(taken, size)
  <1> DEFINE new == WriteHeader(d, taken, size)
             s == taken[1]
             h == HeaderSize(size)
             places == LeafPlaces(size)
             data == DataOf(taken, size)
  <1>1. /\ size \in Nat \ {0} /\ h \in Nat \ {0}
        /\ \A n \in DOMAIN places : places[n] \in 2 .. h
        /\ \A m, n \in DOMAIN places : places[m] = places[n] => m = n
        /\ WhichLevel(size) # 1 => \A i \in 1 .. size : TableOf(i) \in DOMAIN places
    BY LeafPlacesProperties
  <1>2. data \in [1 .. size -> Sectors] /\ 1 .. h \subseteq DOMAIN taken
    BY DataOfProperties
  <1>3. /\ \A i \in DOMAIN taken : taken[i] \in Sectors
        /\ \A i, j \in DOMAIN taken : taken[i] = taken[j] => i = j
    BY DEF Enough
  <1>4. /\ DOMAIN new = Sectors
        /\ new[s] = HeaderOf(taken, size)
        /\ \A n \in DOMAIN places : new[taken[places[n]]] = Index(Part(data, n))
        /\ \A x \in Sectors : /\ x # s
                              /\ \A n \in DOMAIN places : x # taken[places[n]]
                              => new[x] = d[x]
    BY HeaderWritten
  <1>5. /\ new[s].size = size /\ new[s].kind = "header"
        /\ new[s].table = IF WhichLevel(size) = 1 THEN data ELSE At(taken, UpperPlaces(size))
    BY <1>4, HeaderFields DEF HeaderOf
  <1>6. Level(new, s) = WhichLevel(size) /\ Upper(new, s) = new[s].table
    BY <1>5 DEF Level, Upper
  <1> HIDE DEF new, places
  <1>7. \A x \in 1 .. h : (x # 1 /\ \A n \in DOMAIN places : x # places[n]) => new[taken[x]] = d[taken[x]]
    <2> SUFFICES ASSUME NEW x \in 1 .. h, x # 1, \A n \in DOMAIN places : x # places[n]
                 PROVE  new[taken[x]] = d[taken[x]]
      OBVIOUS
    <2>1. x \in DOMAIN taken /\ 1 \in DOMAIN taken /\ \A n \in DOMAIN places : places[n] \in DOMAIN taken
      BY <1>1, <1>2
    <2> QED BY <2>1, <1>3, <1>4
  <1>8. \A x \in Sectors \ Range(taken) : new[x] = d[x]
    <2> SUFFICES ASSUME NEW x \in Sectors, x \notin Range(taken)
                 PROVE  new[x] = d[x]
      OBVIOUS
    <2>1. 1 \in DOMAIN taken /\ \A n \in DOMAIN places : places[n] \in DOMAIN taken
      BY <1>1, <1>2
    <2>2. \A i \in DOMAIN taken : x # taken[i]
      BY DEF Range
    <2> QED BY <1>4, <2>1, <2>2
  <1>9. ASSUME WhichLevel(size) # 1, Leaves(new, s) = At(taken, places)
        PROVE  Blocks(new, s) = data /\ AreTables(new, Leaves(new, s), new[s].size)
    <2> DEFINE t == Leaves(new, s)
    <2>1. DOMAIN t = DOMAIN places /\ \A n \in DOMAIN t : t[n] = taken[places[n]]
      BY <1>9 DEF At
    <2>2. \A n \in DOMAIN t : new[t[n]] = Index(Part(data, n))
      BY <1>4, <2>1
    <2>3. \A i \in 1 .. size : TableOf(i) \in DOMAIN t
      BY <1>1, <1>9, <2>1
    <2> HIDE DEF t, data
    <2>4. Named(new, t, size) = data /\ AreTables(new, t, size)
      BY <1>1, <1>2, <2>2, <2>3, PartsJoin
    <2> QED BY <1>5, <1>6, <1>9, <2>4 DEF Blocks, t
  <1>10. Range(At(taken, places)) = {taken[places[n]] : n \in DOMAIN places}
    BY DEF Range, At
  <1> SUFFICES /\ Blocks(new, s) = data
               /\ Meta(new, s) = {taken[x] : x \in 1 .. h}
               /\ Readable(new, s)
    BY <1>4, <1>8, FileOfTables DEF new
  <1>11. CASE WhichLevel(size) = 1
    <2>1. h = 1
      BY <1>11 DEF HeaderSize
    <2>2. Leaves(new, s) = << >> /\ Blocks(new, s) = data
      BY <1>5, <1>6, <1>11 DEF Leaves, Blocks
    <2>3. Meta(new, s) = {s}
      BY <1>6, <1>11, <2>2 DEF Meta, Range
    <2>4. Meta(new, s) = {taken[x] : x \in 1 .. h}
      BY <2>1, <2>3
    <2>5. Readable(new, s)
      BY <1>5, <1>6, <1>11 DEF Readable
    <2> QED BY <2>2, <2>4, <2>5
  <1>12. CASE WhichLevel(size) = 2
    <2>1. h = 2 /\ places = << 2 >>
      BY <1>12, LeafPlacesProperties DEF places
    <2>2. Leaves(new, s) = At(taken, places)
      <3>1. UpperPlaces(size) = << 2 >>
        BY <1>12 DEF UpperPlaces
      <3> QED BY <1>5, <1>6, <1>12, <2>1, <3>1 DEF Leaves
    <2>3. Blocks(new, s) = data /\ AreTables(new, Leaves(new, s), new[s].size)
      BY <1>9, <1>12, <2>2
    <2>4. Range(At(taken, places)) = {taken[2]}
      BY <1>10, <2>1
    <2>5. Meta(new, s) = {taken[1], taken[2]}
      BY <1>6, <1>12, <2>2, <2>4 DEF Meta
    <2>6. Meta(new, s) = {taken[x] : x \in 1 .. h}
      BY <2>1, <2>5
    <2>7. Readable(new, s)
      BY <1>5, <1>6, <1>12, <2>3 DEF Readable
    <2> QED BY <2>3, <2>6, <2>7
  <1>13. CASE WhichLevel(size) = 3
    <2>0. TableSize \in Nat \ {0} /\ Upper3(d, taken)
      BY Numbers, <1>13
    <2>1. h = 2 + TableSize /\ places = [j \in 1 .. TableSize |-> 2 + j]
      BY <1>13, LeafPlacesProperties DEF places
    <2>2. Upper(new, s) = << taken[2] >>
      <3>1. UpperPlaces(size) = << 2 >>
        BY <1>13 DEF UpperPlaces
      <3>2. At(taken, << 2 >>) = << taken[2] >>
        BY DEF At
      <3> QED BY <1>5, <1>6, <1>13, <3>1, <3>2
    <2>3. new[taken[2]] = Index([j \in 1 .. TableSize |-> taken[2 + j]])
      <3>1. 2 \in 1 .. h /\ \A n \in DOMAIN places : 2 # places[n]
        BY <2>0, <2>1
      <3>2. new[taken[2]] = d[taken[2]]
        BY <3>1, <1>7
      <3> QED BY <2>0, <3>2 DEF Upper3, Doubles3
    <2>4. \A i \in 1 .. TableSize : TableOf(i) = 1 /\ PlaceOf(i) = i
      <3> TAKE i \in 1 .. TableSize
      <3>1. 1 \in Nat \ {0} /\ (1 - 1) * TableSize + i = i
        BY <2>0
      <3>2. TableOf((1 - 1) * TableSize + i) = 1 /\ PlaceOf((1 - 1) * TableSize + i) = i
        BY <3>1, PlaceOfEntry
      <3> QED BY <3>1, <3>2
    <2> DEFINE up == << taken[2] >>
               row == [j \in 1 .. TableSize |-> taken[2 + j]]
    <2>5. DOMAIN up = {1} /\ up[1] = taken[2]
      OBVIOUS
    <2>6. new[taken[2]].kind = "index" /\ new[taken[2]].table = row
      BY <2>3, IndexFields
    <2>7. Named(new, up, TableSize) = At(taken, places)
      <3>1. Named(new, up, TableSize) = [i \in 1 .. TableSize |-> new[up[TableOf(i)]].table[PlaceOf(i)]]
        BY DEF Named
      <3>2. \A i \in 1 .. TableSize : new[up[TableOf(i)]].table[PlaceOf(i)] = taken[2 + i]
        <4> TAKE i \in 1 .. TableSize
        <4>1. new[up[TableOf(i)]] = new[taken[2]] /\ PlaceOf(i) = i
          BY <2>4, <2>5
        <4>2. row[i] = taken[2 + i]
          OBVIOUS
        <4> HIDE DEF up, row
        <4> QED BY <2>6, <4>1, <4>2
      <3>3. At(taken, places) = [i \in 1 .. TableSize |-> taken[2 + i]]
        BY <2>1 DEF At
      <3> HIDE DEF up, row
      <3> QED BY <3>1, <3>2, <3>3
    <2>8. AreTables(new, up, TableSize)
      <3>1. \A i \in DOMAIN up : new[up[i]].kind = "index"
        BY <2>5, <2>6
      <3>2. \A i \in 1 .. TableSize : PlaceOf(i) \in DOMAIN new[up[TableOf(i)]].table
        <4> TAKE i \in 1 .. TableSize
        <4>1. new[up[TableOf(i)]] = new[taken[2]] /\ PlaceOf(i) = i
          BY <2>4, <2>5
        <4>2. i \in DOMAIN row
          OBVIOUS
        <4> HIDE DEF up, row
        <4> QED BY <2>6, <4>1, <4>2
      <3> QED BY <3>1, <3>2 DEF AreTables
    <2>9. Leaves(new, s) = At(taken, places)
      BY <1>6, <1>13, <2>2, <2>7 DEF Leaves
    <2>10. Blocks(new, s) = data /\ AreTables(new, Leaves(new, s), new[s].size)
      BY <1>9, <1>13, <2>9
    <2>11. Readable(new, s)
      BY <1>5, <1>6, <1>13, <2>2, <2>8, <2>10 DEF Readable
    <2>12. Range(up) = {taken[2]}
      BY <2>5 DEF Range
    <2>13. Meta(new, s) = {taken[1]} \cup {taken[places[n]] : n \in DOMAIN places} \cup {taken[2]}
      <3>1. Meta(new, s) = {s} \cup Range(Leaves(new, s)) \cup Range(Upper(new, s))
        BY <1>6, <1>13 DEF Meta
      <3> QED BY <3>1, <1>10, <2>2, <2>9, <2>12
    <2>14. Meta(new, s) = {taken[x] : x \in 1 .. h}
      <3>1. \A x \in 1 .. h : x = 1 \/ x = 2 \/ \E n \in DOMAIN places : x = places[n]
        <4> TAKE x \in 1 .. h
        <4>1. CASE x > 2
          <5>1. x - 2 \in DOMAIN places /\ places[x - 2] = x
            BY <2>0, <2>1, <4>1
          <5> QED BY <5>1
        <4> QED BY <4>1, <2>0, <2>1
      <3>2. 1 \in 1 .. h /\ 2 \in 1 .. h /\ \A n \in DOMAIN places : places[n] \in 1 .. h
        BY <2>0, <2>1, <1>1
      <3> QED BY <2>13, <3>1, <3>2
    <2> QED BY <2>10, <2>11, <2>14
  <1>14. CASE WhichLevel(size) = 4
    <2>0. TableSize \in Nat \ {0} /\ Upper4(d, taken) /\ NumTriple \in Nat \ {0}
      BY Numbers, <1>14
    <2>1. h = LastPlace /\ places = [n \in 1 .. NumTriple * k2 |-> Single(n)] /\ LastPlace \in Nat
      BY <1>14, LeafPlacesProperties, LastPlaceProperties DEF places
    <2> DEFINE up == [i \in 1 .. NumTriple |-> taken[Triple(i)]]
               middle == [m \in 1 .. NumTriple * TableSize |-> taken[Double(m)]]
    <2>2. Upper(new, s) = up
      <3>1. UpperPlaces(size) = [i \in 1 .. NumTriple |-> Triple(i)]
        BY <1>14 DEF UpperPlaces
      <3>2. At(taken, UpperPlaces(size)) = up
        BY <3>1 DEF At
      <3> QED BY <1>5, <1>6, <1>14, <3>2
    <2>3. /\ \A i \in 1 .. NumTriple : new[taken[Triple(i)]] = d[taken[Triple(i)]]
          /\ \A m \in 1 .. NumTriple * TableSize : new[taken[Double(m)]] = d[taken[Double(m)]]
      <3>1. \A i \in 1 .. NumTriple : /\ Triple(i) \in 1 .. h /\ Triple(i) # 1
                                      /\ \A n \in DOMAIN places : Triple(i) # places[n]
        BY <2>1, TablePlaces
      <3>2. \A m \in 1 .. NumTriple * TableSize : /\ Double(m) \in 1 .. h /\ Double(m) # 1
                                                  /\ \A n \in DOMAIN places : Double(m) # places[n]
        BY <2>1, TablePlaces
      <3> QED BY <1>7, <3>1, <3>2
    <2> DEFINE upRow(i) == [j \in 1 .. TableSize |-> taken[Double((i - 1) * TableSize + j)]]
               midRow(m) == [k \in 1 .. TableSize |-> taken[Double(m) + k]]
    <2>30. /\ \A i : DOMAIN upRow(i) = 1 .. TableSize
           /\ \A i : \A j \in 1 .. TableSize : upRow(i)[j] = taken[Double((i - 1) * TableSize + j)]
           /\ \A m : DOMAIN midRow(m) = 1 .. TableSize
           /\ \A m : \A k \in 1 .. TableSize : midRow(m)[k] = taken[Double(m) + k]
      OBVIOUS
    <2>31. /\ \A i \in 1 .. NumTriple : d[taken[Triple(i)]] = Index(upRow(i))
           /\ \A m \in 1 .. NumTriple * TableSize : d[taken[Double(m)]] = Index(midRow(m))
      BY <2>0 DEF Upper4
    <2>32. /\ \A i \in 1 .. NumTriple : up[i] = taken[Triple(i)]
           /\ \A m \in 1 .. NumTriple * TableSize : middle[m] = taken[Double(m)]
           /\ DOMAIN up = 1 .. NumTriple /\ DOMAIN middle = 1 .. NumTriple * TableSize
      OBVIOUS
    <2> HIDE DEF upRow, midRow
    <2>4. \A i \in 1 .. NumTriple :
              new[up[i]].kind = "index" /\ new[up[i]].table = upRow(i)
      <3> HIDE DEF up
      <3> QED BY <2>3, <2>31, <2>32, IndexFields
    <2>5. \A m \in 1 .. NumTriple * TableSize :
              new[middle[m]].kind = "index" /\ new[middle[m]].table = midRow(m)
      <3> HIDE DEF middle
      <3> QED BY <2>3, <2>31, <2>32, IndexFields
    <2>6. Named(new, up, NumTriple * TableSize) = middle /\ AreTables(new, up, NumTriple * TableSize)
      <3>1. ASSUME NEW m \in 1 .. NumTriple * TableSize
            PROVE  /\ PlaceOf(m) \in DOMAIN new[up[TableOf(m)]].table
                   /\ new[up[TableOf(m)]].table[PlaceOf(m)] = taken[Double(m)]
        <4>1. /\ TableOf(m) \in 1 .. NumTriple
              /\ PlaceOf(m) \in 1 .. TableSize
              /\ m = (TableOf(m) - 1) * TableSize + PlaceOf(m)
          BY DoublePlace
        <4> HIDE DEF up, middle
        <4>2. upRow(TableOf(m))[PlaceOf(m)] = taken[Double(m)]
          BY <2>30, <4>1
        <4> QED BY <2>4, <2>30, <4>1, <4>2
      <3>2. \A i \in DOMAIN up : new[up[i]].kind = "index"
        BY <2>4
      <3> HIDE DEF up
      <3>3. Named(new, up, NumTriple * TableSize) = [m \in 1 .. NumTriple * TableSize |-> taken[Double(m)]]
        BY <3>1 DEF Named
      <3> QED BY <3>1, <3>2, <3>3 DEF AreTables
    <2>7. Middle(new, s) = middle
      BY <2>2, <2>6 DEF Middle
    <2>8. Named(new, middle, NumTriple * k2) = At(taken, places) /\ AreTables(new, middle, NumTriple * k2)
      <3>1. ASSUME NEW n \in 1 .. NumTriple * k2
            PROVE  /\ PlaceOf(n) \in DOMAIN new[middle[TableOf(n)]].table
                   /\ new[middle[TableOf(n)]].table[PlaceOf(n)] = taken[Single(n)]
        <4>1. /\ TableOf(n) \in 1 .. NumTriple * TableSize
              /\ PlaceOf(n) \in 1 .. TableSize
          BY SinglePlace
        <4>2. Single(n) = Double(TableOf(n)) + PlaceOf(n)
          BY DEF Single
        <4> HIDE DEF up, middle
        <4> QED BY <2>5, <2>30, <4>1, <4>2
      <3>2. \A i \in DOMAIN middle : new[middle[i]].kind = "index"
        BY <2>5
      <3> HIDE DEF middle
      <3>3. Named(new, middle, NumTriple * k2) = [n \in 1 .. NumTriple * k2 |-> taken[Single(n)]]
        BY <3>1 DEF Named
      <3>4. At(taken, places) = [n \in 1 .. NumTriple * k2 |-> taken[Single(n)]]
        BY <2>1 DEF At
      <3> QED BY <3>1, <3>2, <3>3, <3>4 DEF AreTables
    <2>9. Leaves(new, s) = At(taken, places)
      BY <1>6, <1>14, <2>7, <2>8 DEF Leaves
    <2>10. Blocks(new, s) = data /\ AreTables(new, Leaves(new, s), new[s].size)
      BY <1>9, <1>14, <2>9
    <2>11. Readable(new, s)
      BY <1>5, <1>6, <1>14, <2>2, <2>6, <2>7, <2>8, <2>10 DEF Readable
    <2>12. Meta(new, s) = {taken[1]} \cup {taken[Single(n)] : n \in 1 .. NumTriple * k2}
                            \cup {taken[Triple(i)] : i \in 1 .. NumTriple}
                            \cup {taken[Double(m)] : m \in 1 .. NumTriple * TableSize}
      <3>1. Meta(new, s) = {s} \cup Range(Leaves(new, s)) \cup Range(Upper(new, s)) \cup Range(Middle(new, s))
        BY <1>6, <1>14 DEF Meta
      <3>2. Range(up) = {taken[Triple(i)] : i \in 1 .. NumTriple}
        BY DEF Range
      <3>3. Range(middle) = {taken[Double(m)] : m \in 1 .. NumTriple * TableSize}
        BY DEF Range
      <3>4. Range(Leaves(new, s)) = {taken[Single(n)] : n \in 1 .. NumTriple * k2}
        BY <1>10, <2>1, <2>9
      <3> HIDE DEF up, middle
      <3> QED BY <3>1, <3>2, <3>3, <3>4, <2>2, <2>7
    <2>13. Meta(new, s) = {taken[x] : x \in 1 .. h}
      <3>1. \A x \in 1 .. h : \/ x = 1
                              \/ \E i \in 1 .. NumTriple : x = Triple(i)
                              \/ \E m \in 1 .. NumTriple * TableSize : x = Double(m)
                              \/ \E n \in 1 .. NumTriple * k2 : x = Single(n)
        <4> TAKE x \in 1 .. h
        <4>1. x = 1 \/ x \in 2 .. LastPlace
          BY <2>1
        <4> QED BY <4>1, AllPlacesTaken
      <3>2. /\ 1 \in 1 .. h
            /\ \A i \in 1 .. NumTriple : Triple(i) \in 1 .. h
            /\ \A m \in 1 .. NumTriple * TableSize : Double(m) \in 1 .. h
            /\ \A n \in 1 .. NumTriple * k2 : Single(n) \in 1 .. h
        BY <1>1, <2>1, TablePlaces
      <3> HIDE DEF h
      <3> QED BY <2>12, <3>1, <3>2
    <2> QED BY <2>10, <2>11, <2>13
  <1> QED BY <1>1, <1>11, <1>12, <1>13, <1>14, Levels

TripleTables(d, taken, size) ==
    LET triples == {i \in 1 .. NumTriple : Triple(i + 1) - 1 <= Len(taken)}
    IN  Write(d, [i \in triples |-> taken[Triple(i)]],
              [i \in triples |->
                  Index([j \in 1 .. TableSize |-> taken[Double((i - 1) * TableSize + j)]])])
DoubleTables(d, taken, size) ==
    LET doubles == {m \in 1 .. NumTriple * TableSize : Double(m) + TableSize <= Len(taken)}
    IN  Write(d, [m \in doubles |-> taken[Double(m)]],
                 [m \in doubles |-> Index([k \in 1 .. TableSize |-> taken[Double(m) + k]])])

(* AllocateHDR, level by level.                                            *)
LEMMA AllocateHDRCases ==
    ASSUME NEW d, NEW taken, NEW size
    PROVE  /\ (WhichLevel(size) = 3 /\ Len(taken) >= 2 + TableSize) =>
                AllocateHDR(d, taken, size) =
                    Write(d, << taken[2] >>, << Index(Doubles3(taken)) >>)
           /\ WhichLevel(size) = 4 =>
                AllocateHDR(d, taken, size) = TripleTables(DoubleTables(d, taken, size), taken, size)
           /\ (WhichLevel(size) # 4 /\ ~(WhichLevel(size) = 3 /\ Len(taken) >= 2 + TableSize)) =>
                AllocateHDR(d, taken, size) = d
  <1>1. CASE WhichLevel(size) = 3 /\ Len(taken) >= 2 + TableSize
    BY <1>1 DEF AllocateHDR, Doubles3
  <1>2. CASE WhichLevel(size) = 4
    BY <1>2 DEF AllocateHDR, TripleTables, DoubleTables
  <1>3. CASE WhichLevel(size) # 4 /\ ~(WhichLevel(size) = 3 /\ Len(taken) >= 2 + TableSize)
    BY <1>3 DEF AllocateHDR
  <1> QED BY <1>1, <1>2, <1>3

(* AllocateHDR writes to sectors that it has taken only. *)
LEMMA AllocateFrame ==
    ASSUME NEW d, DOMAIN d = Sectors, NEW size \in 1 .. MaxSize,
           NEW n \in Nat, NEW taken \in [1 .. n -> Sectors]
    PROVE  /\ DOMAIN AllocateHDR(d, taken, size) = Sectors
           /\ \A s \in Sectors \ Range(taken) : AllocateHDR(d, taken, size)[s] = d[s]
  <1>0. Len(taken) = n /\ DOMAIN taken = 1 .. n /\ TableSize \in Nat \ {0}
    BY Numbers
  <1>1. \A s \in Sectors \ Range(taken) : \A i \in 1 .. n : s # taken[i]
    BY <1>0 DEF Range
  <1>2. CASE WhichLevel(size) = 3 /\ Len(taken) >= 2 + TableSize
    <2> DEFINE one == << taken[2] >>
               table == << Index(Doubles3(taken)) >>
    <2>1. DOMAIN one = {1} /\ one[1] = taken[2] /\ 2 \in 1 .. n
      BY <1>0, <1>2
    <2>2. AllocateHDR(d, taken, size) = Write(d, one, table)
      BY <1>2, AllocateHDRCases
    <2> HIDE DEF one, table
    <2> QED BY <1>1, <2>1, <2>2, WriteProperties
  <1>3. CASE WhichLevel(size) = 4
    <2> DEFINE doubles == {m \in 1 .. NumTriple * TableSize : Double(m) + TableSize <= Len(taken)}
               triples == {i \in 1 .. NumTriple : Triple(i + 1) - 1 <= Len(taken)}
               mid == DoubleTables(d, taken, size)
               sd == [m \in doubles |-> taken[Double(m)]]
               st == [i \in triples |-> taken[Triple(i)]]
    <2>1. \A m \in doubles : Double(m) \in 1 .. n
      <3> TAKE m \in doubles
      <3>1. Double(m) \in 2 .. LastPlace /\ Double(m) + TableSize <= n
        BY <1>0, TablePlaces
      <3> QED BY <3>1, <1>0, LastPlaceProperties
    <2>2. \A i \in triples : Triple(i) \in 1 .. n
      <3> TAKE i \in triples
      <3> DEFINE u == (i - 1) * Row
                 v == i * Row
      <3>1. Triple(i) = 2 + u /\ Triple(i + 1) = 2 + v
        BY DEF Triple, Row, Column
      <3>2. v = u + Row /\ u \in Nat /\ v \in Nat /\ Row \in Nat \ {0}
        BY RowProperties, Numbers
      <3>3. Triple(i + 1) - 1 <= n
        BY <1>0
      <3> HIDE DEF u, v
      <3> QED BY <3>1, <3>2, <3>3
    <2>3. /\ DOMAIN mid = Sectors
          /\ \A s \in Sectors \ Range(taken) : mid[s] = d[s]
      <3>1. mid = Write(d, sd, [m \in doubles |-> Index([k \in 1 .. TableSize |-> taken[Double(m) + k]])])
        BY DEF DoubleTables
      <3>2. DOMAIN sd = doubles /\ \A m \in doubles : sd[m] = taken[Double(m)]
        OBVIOUS
      <3> HIDE DEF mid, doubles, sd
      <3>3. \A s \in Sectors \ Range(taken) : \A m \in DOMAIN sd : sd[m] # s
        BY <1>1, <2>1, <3>2
      <3> QED BY <3>1, <3>3, WriteProperties
    <2>4. AllocateHDR(d, taken, size) =
              Write(mid, st, [i \in triples |->
                  Index([j \in 1 .. TableSize |-> taken[Double((i - 1) * TableSize + j)]])])
      <3>1. AllocateHDR(d, taken, size) = TripleTables(mid, taken, size)
        BY <1>3, AllocateHDRCases
      <3> HIDE DEF mid
      <3> QED BY <3>1 DEF TripleTables
    <2>5. DOMAIN st = triples /\ \A i \in triples : st[i] = taken[Triple(i)]
      OBVIOUS
    <2> HIDE DEF mid, triples, st
    <2>6. \A s \in Sectors \ Range(taken) : \A i \in DOMAIN st : st[i] # s
      BY <1>1, <2>2, <2>5
    <2> QED BY <2>3, <2>4, <2>6, WriteProperties
  <1>4. CASE WhichLevel(size) # 4 /\ ~(WhichLevel(size) = 3 /\ Len(taken) >= 2 + TableSize)
    BY <1>4, AllocateHDRCases
  <1> QED BY <1>2, <1>3, <1>4

(* ... and when it has all that it needs, the upper tables are right. *)
LEMMA AllocateWhole ==
    ASSUME NEW d, DOMAIN d = Sectors, NEW size \in 1 .. MaxSize, NEW taken, Enough(taken, size),
           NEW head \in [1 .. HeaderSize(size) -> Sectors],
           \A i \in 1 .. HeaderSize(size) : head[i] = taken[i]
    PROVE  /\ WhichLevel(size) = 3 => Upper3(AllocateHDR(d, head, size), taken)
           /\ WhichLevel(size) = 4 => Upper4(AllocateHDR(d, head, size), taken)
  <1> DEFINE h == HeaderSize(size)
  <1>0. /\ Len(head) = h /\ DOMAIN head = 1 .. h /\ TableSize \in Nat \ {0} /\ h \in Nat \ {0}
        /\ \A i \in 1 .. h : head[i] \in Sectors
    <2>1. h \in Nat \ {0}
      BY LeafPlacesProperties
    <2>2. head \in [1 .. h -> Sectors]
      OBVIOUS
    <2> HIDE DEF h
    <2>3. Len(head) = h /\ DOMAIN head = 1 .. h /\ \A i \in 1 .. h : head[i] \in Sectors
      BY <2>1, <2>2, LenOf
    <2> QED BY <2>1, <2>3, Numbers
  <1>1. \A i, j \in 1 .. h : head[i] = head[j] => i = j
    <2>1. 1 .. h \subseteq DOMAIN taken
      BY DataOfProperties
    <2> QED BY <2>1 DEF Enough
  <1>2. CASE WhichLevel(size) = 3
    <2>0. h = 2 + TableSize
      BY <1>2, LeafPlacesProperties
    <2> DEFINE one == << head[2] >>
               row == Doubles3(head)
               table == << Index(row) >>
               new == AllocateHDR(d, head, size)
    <2>1. DOMAIN one = {1} /\ one[1] = head[2] /\ 2 \in 1 .. h /\ DOMAIN table = {1} /\ table[1] = Index(row)
      BY <1>0, <2>0
    <2>2. new = Write(d, one, table)
      <3>1. Len(head) >= 2 + TableSize
        BY <1>0, <2>0
      <3>2. AllocateHDR(d, head, size) =
                Write(d, << head[2] >>, << Index(Doubles3(head)) >>)
        BY <1>2, <3>1, AllocateHDRCases
      <3> QED BY <3>2
    <2>3. row = Doubles3(taken)
      <3>1. \A j \in 1 .. TableSize : 2 + j \in 1 .. h
        BY <1>0, <2>0
      <3> QED BY <3>1 DEF Doubles3
    <2> HIDE DEF one, table, row, new
    <2>4. new[head[2]] = Index(row)
      <3>1. \A i \in DOMAIN one : Write(d, one, table)[one[i]] = table[i]
        BY <2>1, <1>0, WriteThere
      <3> QED BY <2>1, <2>2, <3>1
    <2>5. head[2] = taken[2]
      BY <2>1
    <2> QED BY <1>2, <2>3, <2>4, <2>5 DEF Upper3, new
  <1>3. CASE WhichLevel(size) = 4
    <2>0. h = LastPlace /\ LastPlace \in Nat
      BY <1>3, LeafPlacesProperties, LastPlaceProperties
    <2> DEFINE doubles == {m \in 1 .. NumTriple * TableSize : Double(m) + TableSize <= Len(head)}
               triples == {i \in 1 .. NumTriple : Triple(i + 1) - 1 <= Len(head)}
               mid == DoubleTables(d, head, size)
               midRow(m) == [k \in 1 .. TableSize |-> head[Double(m) + k]]
               upRow(i) == [j \in 1 .. TableSize |-> head[Double((i - 1) * TableSize + j)]]
               sd == [m \in doubles |-> head[Double(m)]]
               st == [i \in triples |-> head[Triple(i)]]
               cd == [m \in doubles |-> Index(midRow(m))]
               ct == [i \in triples |-> Index(upRow(i))]
               new == AllocateHDR(d, head, size)
    <2>1. doubles = 1 .. NumTriple * TableSize
      BY <1>0, <2>0, TablePlaces
    <2>2. triples = 1 .. NumTriple
      BY <1>0, <2>0, TripleBounds
    <2>3. /\ mid = Write(d, sd, cd)
          /\ DOMAIN sd = doubles /\ DOMAIN cd = doubles
          /\ \A m \in doubles : sd[m] = head[Double(m)] /\ cd[m] = Index(midRow(m))
      BY DEF DoubleTables
    <2>4. /\ new = Write(mid, st, ct)
          /\ DOMAIN st = triples /\ DOMAIN ct = triples
          /\ \A i \in triples : st[i] = head[Triple(i)] /\ ct[i] = Index(upRow(i))
      <3>1. new = TripleTables(mid, head, size)
        BY <1>3, AllocateHDRCases
      <3> HIDE DEF mid, new
      <3>2. TripleTables(mid, head, size) = Write(mid, st, ct)
        BY DEF TripleTables
      <3> QED BY <3>1, <3>2
    <2>5. \A m \in 1 .. NumTriple * TableSize : midRow(m) = [k \in 1 .. TableSize |-> taken[Double(m) + k]]
      <3> TAKE m \in 1 .. NumTriple * TableSize
      <3>1. \A k \in 1 .. TableSize : Double(m) + k \in 1 .. h
        <4>1. Double(m) \in 2 .. LastPlace /\ Double(m) + TableSize <= LastPlace
          BY TablePlaces
        <4> QED BY <1>0, <2>0, <4>1
      <3> HIDE DEF h
      <3> QED BY <3>1 DEF h
    <2>6. \A i \in 1 .. NumTriple : upRow(i) = [j \in 1 .. TableSize |-> taken[Double((i - 1) * TableSize + j)]]
      <3> TAKE i \in 1 .. NumTriple
      <3>1. \A j \in 1 .. TableSize : Double((i - 1) * TableSize + j) \in 1 .. h
        <4> TAKE j \in 1 .. TableSize
        <4> DEFINE m == (i - 1) * TableSize + j
        <4>1. m \in Nat \ {0} /\ m <= NumTriple * TableSize
          <5>1. i \in Nat \ {0} /\ i <= NumTriple /\ NumTriple \in Nat
            BY Numbers
          <5> QED BY <5>1, PlaceOfEntry
        <4> HIDE DEF m
        <4>2. m \in 1 .. NumTriple * TableSize
          BY <4>1, Numbers
        <4>3. Double(m) \in 2 .. LastPlace
          BY <4>2, TablePlaces
        <4> QED BY <4>3, <2>0, <1>0 DEF m
      <3> HIDE DEF h
      <3> QED BY <3>1 DEF h
    <2> HIDE DEF doubles, triples, mid, midRow, upRow, sd, st, cd, ct, new, h
    <2>7. /\ \A m \in doubles : Double(m) \in 1 .. h
          /\ \A i \in triples : Triple(i) \in 1 .. h
          /\ \A m \in doubles : \A i \in triples : Triple(i) # Double(m)
          /\ \A i, j \in triples : Triple(i) = Triple(j) => i = j
          /\ \A i, j \in doubles : Double(i) = Double(j) => i = j
      <3>1. 2 .. LastPlace \subseteq 1 .. h
        BY <2>0
      <3> QED BY <2>1, <2>2, <3>1, TablePlaces
    <2>8. /\ \A i \in DOMAIN sd : sd[i] \in Sectors
          /\ \A i, j \in DOMAIN sd : sd[i] = sd[j] => i = j
      BY <1>0, <1>1, <2>3, <2>7
    <2>9. /\ \A i \in DOMAIN st : st[i] \in Sectors
          /\ \A i, j \in DOMAIN st : st[i] = st[j] => i = j
      BY <1>0, <1>1, <2>4, <2>7
    <2>10. DOMAIN mid = Sectors /\ \A m \in doubles : mid[head[Double(m)]] = Index(midRow(m))
      <3>1. \A i \in DOMAIN sd : mid[sd[i]] = cd[i]
        BY <2>3, <2>8, WriteThere
      <3>2. DOMAIN mid = Sectors
        BY <2>3, WriteProperties
      <3> QED BY <3>1, <3>2, <2>3
    <2>11. \A i \in triples : new[head[Triple(i)]] = Index(upRow(i))
      <3>1. \A i \in DOMAIN st : new[st[i]] = ct[i]
        BY <2>4, <2>9, <2>10, WriteThere
      <3> QED BY <3>1, <2>4
    <2>12. \A m \in doubles : new[head[Double(m)]] = Index(midRow(m))
      <3> TAKE m \in doubles
      <3>1. \A i \in DOMAIN st : st[i] # head[Double(m)]
        BY <1>1, <2>4, <2>7
      <3>2. head[Double(m)] \in Sectors
        BY <1>0, <2>7
      <3>3. new[head[Double(m)]] = mid[head[Double(m)]]
        BY <2>4, <2>10, <3>1, <3>2, WriteProperties
      <3> QED BY <2>10, <3>3
    <2>13. /\ \A m \in doubles : head[Double(m)] = taken[Double(m)]
           /\ \A i \in triples : head[Triple(i)] = taken[Triple(i)]
      BY <2>7 DEF h
    <2>14. /\ \A i \in 1 .. NumTriple : new[taken[Triple(i)]] = Index(upRow(i))
           /\ \A m \in 1 .. NumTriple * TableSize : new[taken[Double(m)]] = Index(midRow(m))
      BY <2>1, <2>2, <2>11, <2>12, <2>13
    <2>15. Upper4(new, taken)
      BY <2>14, <2>5, <2>6 DEF Upper4
    <2> QED BY <1>3, <2>15 DEF new
  <1>4. CASE WhichLevel(size) \notin {3, 4}
    BY <1>4
  <1> QED BY <1>2, <1>3, <1>4

-----------------------------------------------------------------------------
(* The tree of directories.  A path has at most two names: the directories *)
(* that can hold something are the root and those in it.                   *)

Dir(d, s) == File(d, s) /\ d[s].size = NumDirEntries

Parents(d) == {DirectorySector} \cup {e.sector : e \in {f \in Entries(d, DirectorySector) : f.isDir}}
Item(d, p, i) == Table(d, p)[i]
SectorAt(d, p, i) == Item(d, p, i).sector
Held(d) == UNION {UNION {Extent(d, SectorAt(d, p, i)) : i \in InUse(d, p)} : p \in Parents(d)}

RootIsDirectory(d) == Dir(d, DirectorySector) /\ Extent(d, DirectorySector) \subseteq SystemSectors
ItemsAreFiles(d) ==
    \A p \in Parents(d) : \A i \in InUse(d, p) :
        /\ File(d, SectorAt(d, p, i))
        /\ Extent(d, SectorAt(d, p, i)) \cap SystemSectors = {}
        /\ Item(d, p, i).isDir => Dir(d, SectorAt(d, p, i))
LowestAreEmpty(d) ==
    \A p \in Parents(d) \ {DirectorySector} : \A i \in InUse(d, p) :
        Item(d, p, i).isDir => InUse(d, SectorAt(d, p, i)) = {}
ExtentsAreDisjoint(d) ==
    \A p, q \in Parents(d) : \A i \in InUse(d, p) : \A j \in InUse(d, q) :
        p # q \/ i # j => Extent(d, SectorAt(d, p, i)) \cap Extent(d, SectorAt(d, q, j)) = {}
ItemsHaveNames(d) ==
    \A p \in Parents(d) : \A i, j \in InUse(d, p) : Item(d, p, i).name = Item(d, p, j).name => i = j

Sound(d) == /\ DOMAIN d = Sectors
            /\ RootIsDirectory(d)
            /\ ItemsAreFiles(d)
            /\ LowestAreEmpty(d)
            /\ ExtentsAreDisjoint(d)
            /\ ItemsHaveNames(d)

(* The entries of a directory.                                             *)
LEMMA TableProperties ==
    ASSUME NEW d, NEW s
    PROVE  /\ DOMAIN Table(d, s) = 1 .. NumDirEntries
           /\ \A i \in 1 .. NumDirEntries : Item(d, s, i) = d[Blocks(d, s)[i]]
           /\ \A i : i \in InUse(d, s) <=> i \in 1 .. NumDirEntries /\ Item(d, s, i).kind = "entry"
           /\ \A e : e \in Entries(d, s) <=> \E i \in InUse(d, s) : e = Item(d, s, i)
  BY DEF Table, InUse, Entries, Item, Range

(* The sectors of a file.                                                  *)
LEMMA ExtentProperties ==
    ASSUME NEW d, NEW s
    PROVE  /\ s \in Extent(d, s) /\ s \in Meta(d, s)
           /\ Meta(d, s) \subseteq Extent(d, s)
           /\ Range(Blocks(d, s)) \subseteq Extent(d, s)
           /\ \A i \in DOMAIN Blocks(d, s) : Blocks(d, s)[i] \in Extent(d, s)
  BY DEF Extent, Meta, Range

(* A directory has a data sector for each of its entries.                  *)
LEMMA DirBlocks ==
    ASSUME NEW d, NEW s, Dir(d, s)
    PROVE  DOMAIN Blocks(d, s) = 1 .. NumDirEntries
  BY Tables DEF Dir, File

(* The root and the directories in it.                                     *)
LEMMA ParentsProperties ==
    ASSUME NEW d
    PROVE  /\ DirectorySector \in Parents(d)
           /\ \A p : p \in Parents(d) <=>
                  p = DirectorySector \/ \E i \in InUse(d, DirectorySector) : Item(d, DirectorySector, i).isDir /\ p = SectorAt(d, DirectorySector, i)
  BY TableProperties DEF Parents, SectorAt

(* The sectors that belong to files.                                       *)
LEMMA HeldProperties ==
    ASSUME NEW d, NEW x
    PROVE  x \in Held(d) <=> \E p \in Parents(d) : \E i \in InUse(d, p) : x \in Extent(d, SectorAt(d, p, i))
  BY DEF Held

(* The root is one of the system's sectors.                                *)
LEMMA RootInSystem == DirectorySector \in SystemSectors /\ SystemSectors \subseteq Sectors
  <1>1. HeaderSize(NumDirEntries) \in Nat \ {0}
    <2>1. NumDirEntries \in 1 .. MaxSize
      BY Numbers, MaxSizeProperties
    <2> QED BY <2>1, LeafPlacesProperties
  <1> QED BY <1>1, Numbers, DiskAssumption DEF DirectorySector, SystemSectors, MapBlock

(* The sectors of two directories that can hold something, or of one and   *)
(* of a file, are different.                                               *)
LEMMA ParentsDisjoint ==
    ASSUME NEW d, Sound(d), NEW p \in Parents(d)
    PROVE  /\ Dir(d, p)
           /\ \A q \in Parents(d) : q # p => Extent(d, q) \cap Extent(d, p) = {}
           /\ \A q \in Parents(d) : \A i \in InUse(d, q) :
                  SectorAt(d, q, i) # p => Extent(d, SectorAt(d, q, i)) \cap Extent(d, p) = {}
           /\ Extent(d, p) \subseteq SystemSectors \cup Held(d)
  <1>1. Dir(d, DirectorySector) /\ Extent(d, DirectorySector) \subseteq SystemSectors
    BY DEF Sound, RootIsDirectory
  <1>2. \A q \in Parents(d) : \A i \in InUse(d, q) :
            /\ Extent(d, SectorAt(d, q, i)) \cap SystemSectors = {}
            /\ Item(d, q, i).isDir => Dir(d, SectorAt(d, q, i))
    BY DEF Sound, ItemsAreFiles
  <1>3. DirectorySector \in Parents(d)
    BY ParentsProperties
  <1>4. CASE p = DirectorySector
    <2>1. \A q \in Parents(d) : \A i \in InUse(d, q) : Extent(d, SectorAt(d, q, i)) \cap Extent(d, p) = {}
      BY <1>1, <1>2, <1>4
    <2>2. ASSUME NEW q \in Parents(d), q # p PROVE Extent(d, q) \cap Extent(d, p) = {}
      <3>1. PICK i \in InUse(d, DirectorySector) : q = SectorAt(d, DirectorySector, i)
        BY <1>4, <2>2, ParentsProperties
      <3> QED BY <1>3, <2>1, <3>1
    <2> QED BY <1>1, <1>4, <2>1, <2>2
  <1>5. CASE p # DirectorySector
    <2>1. PICK k \in InUse(d, DirectorySector) : Item(d, DirectorySector, k).isDir /\
                 p = SectorAt(d, DirectorySector, k)
      BY <1>5, ParentsProperties
    <2>2. Dir(d, p) /\ Extent(d, p) \cap SystemSectors = {}
      BY <1>2, <1>3, <2>1
    <2>3. ASSUME NEW q \in Parents(d), NEW i \in InUse(d, q), SectorAt(d, q, i) # p
          PROVE  Extent(d, SectorAt(d, q, i)) \cap Extent(d, p) = {}
      <3>1. q # DirectorySector \/ i # k
        BY <2>1, <2>3
      <3> QED BY <1>3, <2>1, <3>1 DEF Sound, ExtentsAreDisjoint
    <2>4. ASSUME NEW q \in Parents(d), q # p PROVE Extent(d, q) \cap Extent(d, p) = {}
      <3>1. CASE q = DirectorySector
        BY <1>1, <2>2, <3>1
      <3>2. CASE q # DirectorySector
        <4>1. PICK i \in InUse(d, DirectorySector) : q = SectorAt(d, DirectorySector, i)
          BY <3>2, ParentsProperties
        <4> QED BY <1>3, <2>3, <2>4, <4>1
      <3> QED BY <3>1, <3>2
    <2>5. Extent(d, p) \subseteq Held(d)
      BY <1>3, <2>1, HeldProperties
    <2> QED BY <2>2, <2>3, <2>4, <2>5
  <1> QED BY <1>4, <1>5

(* A disk that agrees on the directories that can hold something and on    *)
(* the headers of all files has the same tree.                             *)
LEMMA SameTree ==
    ASSUME NEW old, NEW new, Sound(old), DOMAIN new = Sectors,
           \A p \in Parents(old) : \A x \in Extent(old, p) : new[x] = old[x],
           \A p \in Parents(old) : \A i \in InUse(old, p) :
               /\ \A x \in Meta(old, SectorAt(old, p, i)) : new[x] = old[x]
               /\ Item(old, p, i).isDir => \A x \in Extent(old, SectorAt(old, p, i)) : new[x] = old[x]
    PROVE  /\ Sound(new)
           /\ Parents(new) = Parents(old)
           /\ \A p \in Parents(old) : Table(new, p) = Table(old, p) /\ Blocks(new, p) = Blocks(old, p)
           /\ Held(new) = Held(old)
  <1>1. ASSUME NEW s, Dir(old, s), \A x \in Extent(old, s) : new[x] = old[x]
        PROVE  /\ Dir(new, s) /\ Table(new, s) = Table(old, s) /\ Extent(new, s) = Extent(old, s)
               /\ InUse(new, s) = InUse(old, s) /\ Blocks(new, s) = Blocks(old, s)
    <2>1. File(new, s) /\ Blocks(new, s) = Blocks(old, s) /\ Extent(new, s) = Extent(old, s) /\
            new[s] = old[s]
      BY <1>1, SameFile, ExtentProperties DEF Dir
    <2>2. \A i \in 1 .. NumDirEntries : new[Blocks(old, s)[i]] = old[Blocks(old, s)[i]]
      BY <1>1, DirBlocks, ExtentProperties
    <2>3. Table(new, s) = Table(old, s)
      BY <2>1, <2>2 DEF Table
    <2> QED BY <1>1, <2>1, <2>3 DEF Dir, InUse
  <1>2. \A p \in Parents(old) : /\ Dir(new, p) /\ Table(new, p) = Table(old, p) /\ Extent(new, p) = Extent(old, p)
                                /\ InUse(new, p) = InUse(old, p) /\ Blocks(new, p) = Blocks(old, p)
    BY <1>1, ParentsDisjoint
  <1>3. DirectorySector \in Parents(old)
    BY ParentsProperties
  <1>4. Parents(new) = Parents(old)
    BY <1>2, <1>3 DEF Parents, Entries
  <1>5. \A p \in Parents(old) : \A i \in InUse(old, p) : Item(new, p, i) = Item(old, p, i) /\
          SectorAt(new, p, i) = SectorAt(old, p, i)
    BY <1>2 DEF Item, SectorAt
  <1>6. \A p \in Parents(old) : \A i \in InUse(old, p) :
            /\ File(new, SectorAt(old, p, i))
            /\ Extent(new, SectorAt(old, p, i)) = Extent(old, SectorAt(old, p, i))
    BY SameFile DEF Sound, ItemsAreFiles
  <1>7. \A p \in Parents(old) : \A i \in InUse(old, p) :
            Item(old, p, i).isDir => /\ Dir(new, SectorAt(old, p, i))
                                     /\ InUse(new, SectorAt(old, p, i)) = InUse(old, SectorAt(old, p, i))
    BY <1>1 DEF Sound, ItemsAreFiles
  <1>8. RootIsDirectory(new)
    BY <1>2, <1>3 DEF Sound, RootIsDirectory
  <1>9. ItemsAreFiles(new)
    BY <1>2, <1>4, <1>5, <1>6, <1>7 DEF Sound, ItemsAreFiles
  <1>10. LowestAreEmpty(new)
    BY <1>2, <1>4, <1>5, <1>7 DEF Sound, LowestAreEmpty
  <1>11. ExtentsAreDisjoint(new)
    BY <1>2, <1>4, <1>5, <1>6 DEF Sound, ExtentsAreDisjoint
  <1>12. ItemsHaveNames(new)
    BY <1>2, <1>4, <1>5 DEF Sound, ItemsHaveNames
  <1>13. Held(new) = Held(old)
    <2>1. ASSUME NEW x PROVE x \in Held(new) <=> x \in Held(old)
      <3>1. x \in Held(new) <=> \E p \in Parents(new) : \E i \in InUse(new, p) :
              x \in Extent(new, SectorAt(new, p, i))
        BY HeldProperties
      <3>2. x \in Held(old) <=> \E p \in Parents(old) : \E i \in InUse(old, p) :
              x \in Extent(old, SectorAt(old, p, i))
        BY HeldProperties
      <3> QED BY <3>1, <3>2, <1>2, <1>4, <1>5, <1>6
    <2> QED BY <2>1
  <1> QED BY <1>2, <1>4, <1>8, <1>9, <1>10, <1>11, <1>12, <1>13 DEF Sound

(* What is written to sectors that no file has changes nothing.            *)
LEMMA SameOutside ==
    ASSUME NEW old, NEW new, Sound(old), DOMAIN new = Sectors,
           \A x \in SystemSectors \cup Held(old) : new[x] = old[x]
    PROVE  /\ Sound(new)
           /\ Parents(new) = Parents(old)
           /\ \A p \in Parents(old) : Table(new, p) = Table(old, p) /\ Blocks(new, p) = Blocks(old, p)
           /\ Held(new) = Held(old)
  <1>1. \A p \in Parents(old) : \A x \in Extent(old, p) : new[x] = old[x]
    BY ParentsDisjoint
  <1>2. \A p \in Parents(old) : \A i \in InUse(old, p) : \A x \in Extent(old, SectorAt(old, p, i)) :
          new[x] = old[x]
    BY HeldProperties
  <1> QED BY <1>1, <1>2, ExtentProperties, SameTree

IsTable(tab) == tab = [i \in 1 .. NumDirEntries |-> tab[i]]

(* Writing the table of a directory leaves every other file as it is.      *)
LEMMA Retabled ==
    ASSUME NEW old, Sound(old), NEW p \in Parents(old), NEW tab, IsTable(tab)
    PROVE  LET new == Write(old, Blocks(old, p), tab)
           IN  /\ DOMAIN new = Sectors
               /\ Table(new, p) = tab
               /\ Dir(new, p) /\ Extent(new, p) = Extent(old, p)
               /\ \A x \in Sectors \ Extent(old, p) : new[x] = old[x]
               /\ \A s : File(old, s) /\ Extent(old, s) \cap Extent(old, p) = {} =>
                      /\ File(new, s) /\ Extent(new, s) = Extent(old, s)
                      /\ Dir(old, s) => Dir(new, s) /\ Table(new, s) = Table(old, s) /\ InUse(new, s) = InUse(old, s)
  <1> DEFINE new == Write(old, Blocks(old, p), tab)
             b == Blocks(old, p)
  <1>1. /\ Dir(old, p) /\ DOMAIN b = 1 .. NumDirEntries /\ DOMAIN old = Sectors
        /\ DOMAIN tab = 1 .. NumDirEntries
    BY ParentsDisjoint, DirBlocks DEF Sound, IsTable
  <1>2. /\ \A i, j \in DOMAIN b : b[i] = b[j] => i = j
        /\ \A i \in DOMAIN b : b[i] \in Sectors /\ b[i] \in Extent(old, p) /\ b[i] \notin Meta(old, p)
    <2>1. \A i \in DOMAIN b : b[i] \in Range(b) /\ b[i] \in Extent(old, p)
      BY ExtentProperties DEF Range
    <2>2. /\ Extent(old, p) \subseteq Sectors /\ Meta(old, p) \cap Range(b) = {}
          /\ \A i, j \in DOMAIN b : b[i] = b[j] => i = j
      BY <1>1 DEF Dir, File
    <2> QED BY <2>1, <2>2
  <1> HIDE DEF b, new
  <1>3. /\ DOMAIN new = Sectors
        /\ \A i \in DOMAIN b : new[b[i]] = tab[i]
        /\ \A x \in Sectors : (\A i \in DOMAIN b : b[i] # x) => new[x] = old[x]
    <2>1. \A i \in DOMAIN b : Write(old, b, tab)[b[i]] = tab[i]
      <3>1. DOMAIN tab = DOMAIN b /\ \A i \in DOMAIN b : b[i] \in DOMAIN old
        BY <1>1, <1>2
      <3>2. \A i, j \in DOMAIN b : b[i] = b[j] => i = j
        BY <1>2
      <3> QED BY <3>1, <3>2 DEF Write
    <2>2. /\ DOMAIN Write(old, b, tab) = DOMAIN old
          /\ \A x \in DOMAIN old : (\A i \in DOMAIN b : b[i] # x) => Write(old, b, tab)[x] = old[x]
      BY WriteProperties
    <2> QED BY <1>1, <2>1, <2>2 DEF new, b
  <1>4. \A x \in Meta(old, p) : new[x] = old[x]
    <2>1. Meta(old, p) \subseteq Sectors
      BY <1>1, ExtentProperties DEF Dir, File
    <2> QED BY <1>2, <1>3, <2>1
  <1>5. File(new, p) /\ Blocks(new, p) = b /\ Extent(new, p) = Extent(old, p) /\ new[p] = old[p]
    BY <1>1, <1>4, SameFile DEF Dir, b
  <1>6. Table(new, p) = tab
    <2>1. Table(new, p) = [i \in 1 .. NumDirEntries |-> new[b[i]]]
      BY <1>5 DEF Table
    <2>2. \A i \in 1 .. NumDirEntries : new[b[i]] = tab[i]
      BY <1>1, <1>3
    <2>3. Table(new, p) = [i \in 1 .. NumDirEntries |-> tab[i]]
      BY <2>1, <2>2
    <2> QED BY <2>3 DEF IsTable
  <1>7. \A x \in Sectors \ Extent(old, p) : new[x] = old[x]
    BY <1>2, <1>3
  <1>8. ASSUME NEW s, File(old, s), Extent(old, s) \cap Extent(old, p) = {}
        PROVE  /\ File(new, s) /\ Extent(new, s) = Extent(old, s)
               /\ Dir(old, s) => Dir(new, s) /\ Table(new, s) = Table(old, s) /\ InUse(new, s) = InUse(old, s)
    <2>1. \A x \in Extent(old, s) : new[x] = old[x]
      BY <1>7, <1>8 DEF File
    <2>2. File(new, s) /\ Blocks(new, s) = Blocks(old, s) /\ Extent(new, s) = Extent(old, s) /\
            new[s] = old[s]
      BY <1>8, <2>1, ExtentProperties, SameFile
    <2>3. Dir(old, s) => Table(new, s) = Table(old, s)
      <3> SUFFICES ASSUME Dir(old, s) PROVE Table(new, s) = Table(old, s)
        OBVIOUS
      <3>1. \A i \in 1 .. NumDirEntries : new[Blocks(old, s)[i]] = old[Blocks(old, s)[i]]
        BY <2>1, DirBlocks, ExtentProperties
      <3> QED BY <2>2, <3>1 DEF Table
    <2> QED BY <2>2, <2>3 DEF Dir, InUse
  <1> QED BY <1>1, <1>3, <1>5, <1>6, <1>7, <1>8 DEF Dir, new, b

(* What stays when entries of a directory are cleared.                     *)
LEMMA ClearItems ==
    ASSUME NEW old, Sound(old), NEW p \in Parents(old), NEW tab, IsTable(tab),
           \A i \in 1 .. NumDirEntries : tab[i] = Item(old, p, i) \/ tab[i].kind # "entry"
    PROVE  LET new == Write(old, Blocks(old, p), tab)
           IN  /\ Sound(new)
               /\ Parents(new) \subseteq Parents(old)
               /\ InUse(new, p) = {i \in 1 .. NumDirEntries : tab[i].kind = "entry"}
               /\ InUse(new, p) \subseteq InUse(old, p)
               /\ \A q \in Parents(old) \ {p} : InUse(new, q) = InUse(old, q)
               /\ \A q \in Parents(old) : \A i \in InUse(new, q) :
                      /\ Item(new, q, i) = Item(old, q, i)
                      /\ SectorAt(new, q, i) = SectorAt(old, q, i)
                      /\ Extent(new, SectorAt(old, q, i)) = Extent(old, SectorAt(old, q, i))
               /\ p # DirectorySector => Parents(new) = Parents(old)
  <1> DEFINE new == Write(old, Blocks(old, p), tab)
  <1>1. /\ DOMAIN new = Sectors
        /\ Table(new, p) = tab
        /\ Dir(new, p) /\ Extent(new, p) = Extent(old, p)
        /\ \A s : File(old, s) /\ Extent(old, s) \cap Extent(old, p) = {} =>
               /\ File(new, s) /\ Extent(new, s) = Extent(old, s)
               /\ Dir(old, s) => Dir(new, s) /\ Table(new, s) = Table(old, s) /\ InUse(new, s) = InUse(old, s)
    BY Retabled
  <1> HIDE DEF new
  <1>2. DirectorySector \in Parents(old) /\ DirectorySector \in Parents(new)
    BY ParentsProperties
  <1>3. \A q \in Parents(old) \ {p} : /\ Dir(new, q) /\ Table(new, q) = Table(old, q)
                                      /\ InUse(new, q) = InUse(old, q) /\ Extent(new, q) = Extent(old, q)
    BY <1>1, ParentsDisjoint DEF Dir
  <1>4. InUse(new, p) = {i \in 1 .. NumDirEntries : tab[i].kind = "entry"}
    <2>1. \A i : Item(new, p, i) = tab[i]
      BY <1>1 DEF Item
    <2> QED BY <2>1, TableProperties
  <1>5. \A i \in InUse(new, p) : i \in InUse(old, p) /\ Item(new, p, i) = Item(old, p, i)
    BY <1>1, <1>4, TableProperties DEF Item
  <1>6. \A q \in Parents(old) : \A i \in InUse(new, q) : i \in InUse(old, q) /\
          Item(new, q, i) = Item(old, q, i)
    BY <1>3, <1>5 DEF Item
  <1>7. Parents(new) \subseteq Parents(old)
    <2>1. ASSUME NEW q \in Parents(new), q # DirectorySector PROVE q \in Parents(old)
      <3>1. PICK i \in InUse(new, DirectorySector) : Item(new, DirectorySector, i).isDir /\
                   q = SectorAt(new, DirectorySector, i)
        BY <2>1, ParentsProperties
      <3>2. i \in InUse(old, DirectorySector) /\ Item(new, DirectorySector, i) = Item(old, DirectorySector, i)
        BY <1>2, <1>6
      <3> QED BY <3>1, <3>2, ParentsProperties DEF SectorAt
    <2> QED BY <1>2, <2>1
  <1>8. p # DirectorySector => Parents(new) = Parents(old)
    BY <1>2, <1>3 DEF Parents, Entries
  <1>9. ASSUME NEW q \in Parents(old), NEW i \in InUse(new, q)
        PROVE  /\ File(new, SectorAt(old, q, i))
               /\ Extent(new, SectorAt(old, q, i)) = Extent(old, SectorAt(old, q, i))
               /\ Item(old, q, i).isDir => Dir(new, SectorAt(old, q, i))
               /\ q # DirectorySector /\ Item(old, q, i).isDir => InUse(new, SectorAt(old, q, i)) = {}
    <2> DEFINE s == SectorAt(old, q, i)
    <2>1. i \in InUse(old, q)
      BY <1>6
    <2>2. File(old, s) /\ (Item(old, q, i).isDir => Dir(old, s))
      BY <2>1 DEF Sound, ItemsAreFiles
    <2>3. CASE s # p
      <3>1. Extent(old, s) \cap Extent(old, p) = {}
        BY <2>1, <2>3, ParentsDisjoint
      <3> QED BY <1>1, <2>1, <2>2, <3>1 DEF Sound, LowestAreEmpty
    <2>4. CASE s = p
      <3>1. InUse(old, p) = {} => InUse(new, p) = {}
        BY <1>5
      <3>2. q # DirectorySector /\ Item(old, q, i).isDir => InUse(old, p) = {}
        BY <2>1, <2>4 DEF Sound, LowestAreEmpty
      <3> QED BY <1>1, <2>4, <3>1, <3>2 DEF Dir
    <2> QED BY <2>3, <2>4
  <1>10. \A q \in Parents(old) : \A i \in InUse(new, q) : SectorAt(new, q, i) = SectorAt(old, q, i)
    BY <1>6 DEF SectorAt
  <1>11. RootIsDirectory(new)
    <2>1. Dir(new, DirectorySector) /\ Extent(new, DirectorySector) = Extent(old, DirectorySector)
      BY <1>1, <1>2, <1>3
    <2> QED BY <2>1 DEF Sound, RootIsDirectory
  <1>12. ItemsAreFiles(new)
    BY <1>6, <1>7, <1>9, <1>10 DEF Sound, ItemsAreFiles
  <1>13. LowestAreEmpty(new)
    BY <1>6, <1>7, <1>9, <1>10 DEF LowestAreEmpty
  <1>14. ExtentsAreDisjoint(new)
    BY <1>6, <1>7, <1>9, <1>10 DEF Sound, ExtentsAreDisjoint
  <1>15. ItemsHaveNames(new)
    BY <1>6, <1>7 DEF Sound, ItemsHaveNames
  <1>16. Sound(new)
    BY <1>1, <1>11, <1>12, <1>13, <1>14, <1>15 DEF Sound
  <1> QED BY <1>3, <1>4, <1>5, <1>6, <1>7, <1>8, <1>9, <1>10, <1>16 DEF new

(* A directory with one more entry.                                        *)
LEMMA AddItem ==
    ASSUME NEW old, Sound(old), NEW p \in Parents(old), NEW tab, IsTable(tab),
           NEW k \in 1 .. NumDirEntries, k \notin InUse(old, p), NEW e, tab[k] = e, e.kind = "entry",
           \A i \in 1 .. NumDirEntries : i # k => tab[i] = Item(old, p, i),
           \A i \in InUse(old, p) : Item(old, p, i).name # e.name,
           File(old, e.sector),
           Extent(old, e.sector) \cap (SystemSectors \cup Held(old)) = {},
           e.isDir => Dir(old, e.sector) /\ InUse(Write(old, Blocks(old, p), tab), e.sector) = {}
    PROVE  LET new == Write(old, Blocks(old, p), tab)
           IN  /\ Sound(new)
               /\ Held(new) = Held(old) \cup Extent(old, e.sector)
  <1> DEFINE new == Write(old, Blocks(old, p), tab)
             h == e.sector
  <1>1. /\ DOMAIN new = Sectors
        /\ Table(new, p) = tab
        /\ Dir(new, p) /\ Extent(new, p) = Extent(old, p)
        /\ \A s : File(old, s) /\ Extent(old, s) \cap Extent(old, p) = {} =>
               /\ File(new, s) /\ Extent(new, s) = Extent(old, s)
               /\ Dir(old, s) => Dir(new, s) /\ Table(new, s) = Table(old, s) /\ InUse(new, s) = InUse(old, s)
    BY Retabled
  <1>0. e.isDir => Dir(old, h) /\ InUse(new, h) = {}
    OBVIOUS
  <1> HIDE DEF new
  <1>2. DirectorySector \in Parents(old) /\ DirectorySector \in Parents(new)
    BY ParentsProperties
  <1>3. \A q \in Parents(old) : q # p => /\ Dir(new, q) /\ Table(new, q) = Table(old, q)
                                         /\ InUse(new, q) = InUse(old, q) /\ Extent(new, q) = Extent(old, q)
    BY <1>1, ParentsDisjoint DEF Dir
  <1>4. InUse(new, p) = InUse(old, p) \cup {k}
    <2>0. \A i : Item(new, p, i) = tab[i]
      BY <1>1 DEF Item
    <2>1. \A i : i \in InUse(new, p) <=> i \in 1 .. NumDirEntries /\ tab[i].kind = "entry"
      BY <2>0, TableProperties
    <2>2. \A i : i \in InUse(old, p) <=> i \in 1 .. NumDirEntries /\ Item(old, p, i).kind = "entry"
      BY TableProperties
    <2> QED BY <2>1, <2>2
  <1>5. \A i \in InUse(old, p) : Item(new, p, i) = Item(old, p, i)
    BY <1>1, TableProperties DEF Item
  <1>6. Item(new, p, k) = e /\ SectorAt(new, p, k) = h
    BY <1>1 DEF Item, SectorAt
  <1>7. \A q \in Parents(old) : \A i \in InUse(old, q) :
            /\ i \in InUse(new, q) /\ Item(new, q, i) = Item(old, q, i)
            /\ SectorAt(new, q, i) = SectorAt(old, q, i)
    BY <1>3, <1>4, <1>5 DEF Item, SectorAt
  <1>8. \A q \in Parents(old) : \A i \in InUse(new, q) : i \in InUse(old, q) \/ (q = p /\ i = k)
    BY <1>3, <1>4
  <1>9. /\ h \in Extent(old, h) /\ h \notin Parents(old)
        /\ Extent(old, h) \cap Extent(old, p) = {}
    <2>1. \A q \in Parents(old) : Extent(old, q) \subseteq SystemSectors \cup Held(old) /\
            q \in Extent(old, q)
      BY ParentsDisjoint, ExtentProperties
    <2> QED BY <2>1, ExtentProperties
  <1>10. File(new, h) /\ Extent(new, h) = Extent(old, h) /\ (e.isDir => Dir(new, h) /\ InUse(new, h) = {})
    BY <1>0, <1>1, <1>9
  <1>11. \A q \in Parents(new) : q \in Parents(old) \/ (q = h /\ p = DirectorySector /\ e.isDir /\ InUse(new, q) = {})
    <2> SUFFICES ASSUME NEW q \in Parents(new), q # DirectorySector, q \notin Parents(old)
                 PROVE  q = h /\ p = DirectorySector /\ e.isDir
      BY <1>2, <1>10
    <2>1. PICK i \in InUse(new, DirectorySector) : Item(new, DirectorySector, i).isDir /\
                 q = SectorAt(new, DirectorySector, i)
      BY ParentsProperties
    <2>2. i \notin InUse(old, DirectorySector)
      <3>1. ASSUME i \in InUse(old, DirectorySector) PROVE FALSE
        <4>1. Item(old, DirectorySector, i).isDir /\ q = SectorAt(old, DirectorySector, i)
          BY <1>2, <1>7, <2>1, <3>1
        <4> QED BY <3>1, <4>1, ParentsProperties
      <3> QED BY <3>1
    <2>3. DirectorySector = p /\ i = k
      BY <1>2, <1>8, <2>2
    <2> QED BY <1>6, <2>1, <2>3
  <1>12. Parents(old) \subseteq Parents(new)
    <2> SUFFICES ASSUME NEW q \in Parents(old), q # DirectorySector
                 PROVE  q \in Parents(new)
      BY <1>2
    <2>1. PICK i \in InUse(old, DirectorySector) : Item(old, DirectorySector, i).isDir /\
                 q = SectorAt(old, DirectorySector, i)
      BY ParentsProperties
    <2>2. i \in InUse(new, DirectorySector) /\ Item(new, DirectorySector, i).isDir /\
            q = SectorAt(new, DirectorySector, i)
      BY <1>2, <1>7, <2>1
    <2> QED BY <2>2, ParentsProperties
  <1>13. ASSUME NEW q \in Parents(old), NEW i \in InUse(old, q)
         PROVE  /\ File(new, SectorAt(old, q, i))
                /\ Extent(new, SectorAt(old, q, i)) = Extent(old, SectorAt(old, q, i))
                /\ Item(old, q, i).isDir => Dir(new, SectorAt(old, q, i))
                /\ q # DirectorySector /\ Item(old, q, i).isDir => InUse(old, SectorAt(old, q, i)) = {}
                /\ SectorAt(old, q, i) # p /\ Item(old, q, i).isDir =>
                       InUse(new, SectorAt(old, q, i)) = InUse(old, SectorAt(old, q, i))
    <2> DEFINE s == SectorAt(old, q, i)
    <2>1. File(old, s) /\ (Item(old, q, i).isDir => Dir(old, s))
      BY DEF Sound, ItemsAreFiles
    <2>2. q # DirectorySector /\ Item(old, q, i).isDir => InUse(old, s) = {}
      BY DEF Sound, LowestAreEmpty
    <2>3. CASE s # p
      <3>1. Extent(old, s) \cap Extent(old, p) = {}
        BY <2>3, ParentsDisjoint
      <3> QED BY <1>1, <2>1, <2>2, <2>3, <3>1
    <2>4. CASE s = p
      BY <1>1, <2>2, <2>4 DEF Dir
    <2> QED BY <2>3, <2>4
  (* A directory that can hold something is not in one that is not the root. *)
  <1>14. \A q \in Parents(old) : \A i \in InUse(old, q) : SectorAt(old, q, i) = p => q = DirectorySector
    <2> SUFFICES ASSUME NEW q \in Parents(old), NEW i \in InUse(old, q), SectorAt(old, q, i) = p,
                          q # DirectorySector
                 PROVE  FALSE
      OBVIOUS
    <2>1. p # DirectorySector
      <3>1. p \in Extent(old, p) /\ Extent(old, p) \cap SystemSectors = {}
        BY ExtentProperties DEF Sound, ItemsAreFiles
      <3> QED BY <3>1, RootInSystem
    <2>2. PICK j \in InUse(old, DirectorySector) : p = SectorAt(old, DirectorySector, j)
      BY <2>1, ParentsProperties
    <2>3. Extent(old, p) \cap Extent(old, p) = {}
      BY <1>2, <2>2 DEF Sound, ExtentsAreDisjoint
    <2> QED BY <2>3, ExtentProperties
  <1>15. \A q \in Parents(old) : \A i \in InUse(old, q) :
           Extent(old, SectorAt(old, q, i)) \cap Extent(old, h) = {}
    BY HeldProperties
  <1>16. RootIsDirectory(new)
    <2>1. Dir(new, DirectorySector) /\ Extent(new, DirectorySector) = Extent(old, DirectorySector)
      BY <1>1, <1>2, <1>3
    <2> QED BY <2>1 DEF Sound, RootIsDirectory
  <1>17. ItemsAreFiles(new)
    <2> SUFFICES ASSUME NEW q \in Parents(new), NEW i \in InUse(new, q)
                 PROVE  /\ File(new, SectorAt(new, q, i))
                        /\ Extent(new, SectorAt(new, q, i)) \cap SystemSectors = {}
                        /\ Item(new, q, i).isDir => Dir(new, SectorAt(new, q, i))
      BY DEF ItemsAreFiles
    <2>1. q \in Parents(old)
      BY <1>11
    <2>2. CASE i \in InUse(old, q)
      BY <1>7, <1>13, <2>1, <2>2 DEF Sound, ItemsAreFiles
    <2>3. CASE q = p /\ i = k
      BY <1>6, <1>10, <2>3
    <2> QED BY <1>8, <2>1, <2>2, <2>3
  <1>18. LowestAreEmpty(new)
    <2> SUFFICES ASSUME NEW q \in Parents(new), q # DirectorySector, NEW i \in InUse(new, q),
                          Item(new, q, i).isDir
                 PROVE  InUse(new, SectorAt(new, q, i)) = {}
      BY DEF LowestAreEmpty
    <2>1. q \in Parents(old)
      BY <1>11
    <2>2. CASE i \in InUse(old, q)
      <3>1. SectorAt(old, q, i) # p
        BY <1>14, <2>1, <2>2
      <3> QED BY <1>7, <1>13, <2>1, <2>2, <3>1
    <2>3. CASE q = p /\ i = k
      BY <1>6, <1>10, <2>3
    <2> QED BY <1>8, <2>1, <2>2, <2>3
  <1>19. ExtentsAreDisjoint(new)
    <2> SUFFICES ASSUME NEW q \in Parents(new), NEW r \in Parents(new), NEW i \in InUse(new, q),
                          NEW j \in InUse(new, r),
                        q # r \/ i # j
                 PROVE  Extent(new, SectorAt(new, q, i)) \cap Extent(new, SectorAt(new, r, j)) = {}
      BY DEF ExtentsAreDisjoint
    <2>1. q \in Parents(old) /\ r \in Parents(old)
      BY <1>11
    <2>2. CASE i \in InUse(old, q) /\ j \in InUse(old, r)
      <3>1. Extent(old, SectorAt(old, q, i)) \cap Extent(old, SectorAt(old, r, j)) = {}
        BY <2>1, <2>2 DEF Sound, ExtentsAreDisjoint
      <3> QED BY <1>7, <1>13, <2>1, <2>2, <3>1
    <2>3. CASE i \in InUse(old, q) /\ (r = p /\ j = k)
      <3>1. Extent(old, SectorAt(old, q, i)) \cap Extent(old, h) = {}
        BY <1>15, <2>1, <2>3
      <3> QED BY <1>6, <1>7, <1>10, <1>13, <2>1, <2>3, <3>1
    <2>4. CASE (q = p /\ i = k) /\ j \in InUse(old, r)
      <3>1. Extent(old, SectorAt(old, r, j)) \cap Extent(old, h) = {}
        BY <1>15, <2>1, <2>4
      <3> QED BY <1>6, <1>7, <1>10, <1>13, <2>1, <2>4, <3>1
    <2> QED BY <1>8, <2>1, <2>2, <2>3, <2>4
  <1>20. ItemsHaveNames(new)
    <2> SUFFICES ASSUME NEW q \in Parents(new), NEW i \in InUse(new, q), NEW j \in InUse(new, q),
                        Item(new, q, i).name = Item(new, q, j).name
                 PROVE  i = j
      BY DEF ItemsHaveNames
    <2>1. q \in Parents(old)
      BY <1>11
    <2>2. CASE i \in InUse(old, q) /\ j \in InUse(old, q)
      BY <1>7, <2>1, <2>2 DEF Sound, ItemsHaveNames
    <2>3. CASE i \in InUse(old, q) /\ (q = p /\ j = k)
      <3>1. Item(new, q, i).name # e.name /\ Item(new, q, j) = e
        BY <1>6, <1>7, <2>1, <2>3
      <3> QED BY <3>1
    <2>4. CASE (q = p /\ i = k) /\ j \in InUse(old, q)
      <3>1. Item(new, q, j).name # e.name /\ Item(new, q, i) = e
        BY <1>6, <1>7, <2>1, <2>4
      <3> QED BY <3>1
    <2> QED BY <1>8, <2>1, <2>2, <2>3, <2>4
  <1>21. Sound(new)
    BY <1>1, <1>16, <1>17, <1>18, <1>19, <1>20 DEF Sound
  <1>22. Held(new) = Held(old) \cup Extent(old, h)
    <2>1. ASSUME NEW x \in Held(new) PROVE x \in Held(old) \/ x \in Extent(old, h)
      <3>1. PICK q, i : q \in Parents(new) /\ i \in InUse(new, q) /\ x \in Extent(new, SectorAt(new, q, i))
        BY HeldProperties
      <3>2. q \in Parents(old)
        BY <1>11, <3>1
      <3>3. CASE i \in InUse(old, q)
        <4>1. x \in Extent(old, SectorAt(old, q, i))
          BY <1>7, <1>13, <3>1, <3>2, <3>3
        <4> QED BY <3>2, <3>3, <4>1, HeldProperties
      <3>4. CASE q = p /\ i = k
        BY <1>6, <1>10, <3>1, <3>4
      <3> QED BY <1>8, <3>1, <3>2, <3>3, <3>4
    <2>2. ASSUME NEW x \in Held(old) PROVE x \in Held(new)
      <3>1. PICK q, i : q \in Parents(old) /\ i \in InUse(old, q) /\ x \in Extent(old, SectorAt(old, q, i))
        BY HeldProperties
      <3>2. q \in Parents(new) /\ i \in InUse(new, q) /\ x \in Extent(new, SectorAt(new, q, i))
        BY <1>7, <1>12, <1>13, <3>1
      <3> QED BY <3>2, HeldProperties
    <2>3. ASSUME NEW x \in Extent(old, h) PROVE x \in Held(new)
      <3>1. p \in Parents(new) /\ k \in InUse(new, p) /\ x \in Extent(new, SectorAt(new, p, k))
        BY <1>4, <1>6, <1>10, <1>12, <2>3
      <3> QED BY <3>1, HeldProperties
    <2> QED BY <2>1, <2>2, <2>3
  <1> QED BY <1>21, <1>22 DEF new

(* What RecursiveRemove finds below a directory.                           *)
LEMMA DeeperProperties ==
    ASSUME NEW d, NEW E, NEW x
    PROVE  x \in Deeper(d, E) <=> x \in E \/ \E e \in E : e.isDir /\ x \in Entries(d, e.sector)
  BY DEF Deeper

(* The sectors below a directory.                                          *)
LEMMA BelowDefinition ==
    ASSUME NEW d, NEW s, NEW x
    PROVE  x \in Below(d, s) <=> \E e \in EntriesBelow(d, s) : x \in Extent(d, e.sector)
  BY DEF Below

(* A directory is empty, said in two ways.                                 *)
LEMMA NoEntries ==
    ASSUME NEW d, NEW s
    PROVE  InUse(d, s) = {} <=> Entries(d, s) = {}
  BY TableProperties

(* Everything is below the root.                                           *)
LEMMA BelowRoot ==
    ASSUME NEW d, Sound(d)
    PROVE  /\ \A e : e \in EntriesBelow(d, DirectorySector) <=> \E p \in Parents(d) : \E i \in InUse(d, p) : e = Item(d, p, i)
           /\ Below(d, DirectorySector) = Held(d)
  <1> DEFINE top == Entries(d, DirectorySector)
             second == Deeper(d, top)
  <1>1. \A e \in top : e.isDir => e.sector \in Parents(d)
    BY DEF Parents
  <1>2. \A e : e \in second <=> \E p \in Parents(d) : e \in Entries(d, p)
    <2>1. \A e : e \in second <=> e \in top \/ \E f \in top : f.isDir /\ e \in Entries(d, f.sector)
      BY DeeperProperties
    <2>2. \A p : p \in Parents(d) <=> p = DirectorySector \/ \E f \in top : f.isDir /\ p = f.sector
      BY DEF Parents
    <2> QED BY <2>1, <2>2
  <1>3. \A e \in second : e.isDir /\ e \notin top => Entries(d, e.sector) = {}
    <2> SUFFICES ASSUME NEW e \in second, e.isDir, e \notin top PROVE Entries(d, e.sector) = {}
      OBVIOUS
    <2>1. PICK p \in Parents(d) : e \in Entries(d, p)
      BY <1>2
    <2>2. PICK i \in InUse(d, p) : e = Item(d, p, i)
      BY <2>1, TableProperties
    <2>3. InUse(d, SectorAt(d, p, i)) = {}
      BY <2>1, <2>2 DEF Sound, LowestAreEmpty
    <2> QED BY <2>2, <2>3, NoEntries DEF SectorAt
  <1>4. EntriesBelow(d, DirectorySector) = Deeper(d, second)
    BY DEF EntriesBelow
  <1> HIDE DEF second
  <1>5. \A e : e \in EntriesBelow(d, DirectorySector) <=> e \in second
    <2>1. \A e : e \in Deeper(d, second) <=> e \in second \/ \E f \in second : f.isDir /\
            e \in Entries(d, f.sector)
      BY DeeperProperties
    <2>2. ASSUME NEW e, NEW f \in second, f.isDir, e \in Entries(d, f.sector) PROVE e \in second
      <3>1. f \in top
        BY <1>3, <2>2
      <3> QED BY <1>1, <1>2, <2>2, <3>1
    <2> QED BY <1>4, <2>1, <2>2
  <1>6. \A e : e \in EntriesBelow(d, DirectorySector) <=>
          \E p \in Parents(d) : \E i \in InUse(d, p) : e = Item(d, p, i)
    BY <1>2, <1>5, TableProperties
  <1>7. ASSUME NEW x PROVE x \in Below(d, DirectorySector) <=> x \in Held(d)
    <2>1. x \in Below(d, DirectorySector) <=>
            \E e \in EntriesBelow(d, DirectorySector) : x \in Extent(d, e.sector)
      BY BelowDefinition
    <2>2. x \in Held(d) <=> \E p \in Parents(d) : \E i \in InUse(d, p) : x \in Extent(d, Item(d, p, i).sector)
      BY HeldProperties DEF SectorAt
    <2> QED BY <1>6, <2>1, <2>2
  <1> QED BY <1>6, <1>7

(* Below a directory that is not the root is what it holds, and below one  *)
(* of these nothing.                                                       *)
LEMMA BelowParent ==
    ASSUME NEW d, Sound(d), NEW p \in Parents(d), p # DirectorySector
    PROVE  /\ \A x : x \in Below(d, p) <=> \E i \in InUse(d, p) : x \in Extent(d, SectorAt(d, p, i))
           /\ \A i \in InUse(d, p) : Item(d, p, i).isDir => Below(d, SectorAt(d, p, i)) = {}
  <1>1. \A e \in Entries(d, p) : e.isDir => Entries(d, e.sector) = {}
    <2> SUFFICES ASSUME NEW e \in Entries(d, p), e.isDir PROVE Entries(d, e.sector) = {}
      OBVIOUS
    <2>1. PICK i \in InUse(d, p) : e = Item(d, p, i)
      BY TableProperties
    <2>2. InUse(d, SectorAt(d, p, i)) = {}
      BY <2>1 DEF Sound, LowestAreEmpty
    <2> QED BY <2>1, <2>2, NoEntries DEF SectorAt
  <1>2. Deeper(d, Entries(d, p)) = Entries(d, p)
    <2> DEFINE E == Entries(d, p)
    <2>1. \A x : x \in Deeper(d, E) <=> x \in E \/ \E e \in E : e.isDir /\ x \in Entries(d, e.sector)
      BY DeeperProperties
    <2>2. \A e \in E : e.isDir => Entries(d, e.sector) = {}
      BY <1>1
    <2> HIDE DEF E
    <2>3. \A x : x \in Deeper(d, E) <=> x \in E
      BY <2>1, <2>2
    <2>4. Deeper(d, E) = E
      BY <2>3
    <2> QED BY <2>4 DEF E
  <1>3. EntriesBelow(d, p) = Entries(d, p)
    BY <1>2 DEF EntriesBelow
  <1>4. \A x : x \in Below(d, p) <=> \E i \in InUse(d, p) : x \in Extent(d, SectorAt(d, p, i))
    BY <1>3, BelowDefinition, TableProperties DEF SectorAt
  <1>5. ASSUME NEW i \in InUse(d, p), Item(d, p, i).isDir PROVE Below(d, SectorAt(d, p, i)) = {}
    <2> DEFINE s == SectorAt(d, p, i)
    <2>1. Entries(d, s) = {}
      BY <1>5, NoEntries DEF Sound, LowestAreEmpty
    <2>2. Deeper(d, {}) = {}
      BY DEF Deeper
    <2>3. EntriesBelow(d, s) = {}
      BY <2>1, <2>2 DEF EntriesBelow
    <2> QED BY <2>3, BelowDefinition
  <1> QED BY <1>4, <1>5

(* What goes with entry j of the directory at p.                           *)
Gone(d, p, j) == Extent(d, SectorAt(d, p, j)) \cup
                     (IF Item(d, p, j).isDir THEN Below(d, SectorAt(d, p, j)) ELSE {})

(* No two entries lead to the same header.                                 *)
LEMMA ItemsApart ==
    ASSUME NEW d, Sound(d), NEW p \in Parents(d), NEW q \in Parents(d), NEW i \in InUse(d, p), NEW j \in InUse(d, q),
           SectorAt(d, p, i) = SectorAt(d, q, j)
    PROVE  p = q /\ i = j
  BY ExtentProperties DEF Sound, ExtentsAreDisjoint

(* No entry leads to the root.                                             *)
LEMMA ItemsNotRoot ==
    ASSUME NEW d, Sound(d), NEW p \in Parents(d), NEW i \in InUse(d, p)
    PROVE  SectorAt(d, p, i) # DirectorySector
  BY ExtentProperties, RootInSystem DEF Sound, ItemsAreFiles

(* What goes with an entry is its file and, if that can hold something,    *)
(* all in it.                                                              *)
LEMMA GoneProperties ==
    ASSUME NEW d, Sound(d), NEW p \in Parents(d), NEW j \in InUse(d, p), NEW x
    PROVE  x \in Gone(d, p, j) <=>
               \/ x \in Extent(d, SectorAt(d, p, j))
               \/ /\ SectorAt(d, p, j) \in Parents(d)
                  /\ \E k \in InUse(d, SectorAt(d, p, j)) : x \in Extent(d, SectorAt(d, SectorAt(d, p, j), k))
  <1> DEFINE s == SectorAt(d, p, j)
  <1>1. s # DirectorySector
    BY ItemsNotRoot
  <1>2. s \in Parents(d) => p = DirectorySector /\ Item(d, p, j).isDir
    <2> SUFFICES ASSUME s \in Parents(d) PROVE p = DirectorySector /\ Item(d, p, j).isDir
      OBVIOUS
    <2>1. PICK i \in InUse(d, DirectorySector) : Item(d, DirectorySector, i).isDir /\
                 s = SectorAt(d, DirectorySector, i)
      BY <1>1, ParentsProperties
    <2>2. DirectorySector \in Parents(d)
      BY ParentsProperties
    <2>3. p = DirectorySector /\ i = j
      BY <2>1, <2>2, ItemsApart
    <2> QED BY <2>1, <2>3
  <1>3. p = DirectorySector /\ Item(d, p, j).isDir => s \in Parents(d)
    BY ParentsProperties
  <1>4. s \in Parents(d) => (x \in Below(d, s) <=> \E k \in InUse(d, s) : x \in Extent(d, SectorAt(d, s, k)))
    BY <1>1, BelowParent
  <1>5. p # DirectorySector /\ Item(d, p, j).isDir => Below(d, s) = {}
    BY BelowParent
  <1> HIDE DEF s
  <1>6. x \in Gone(d, p, j) <=> x \in Extent(d, s) \/ (Item(d, p, j).isDir /\ x \in Below(d, s))
    BY DEF Gone, s
  <1> QED BY <1>2, <1>3, <1>4, <1>5, <1>6 DEF s

(* Below a directory that can hold something is what goes with its entries. *)
LEMMA BelowIsGone ==
    ASSUME NEW d, Sound(d), NEW p \in Parents(d)
    PROVE  /\ \A x : x \in Below(d, p) <=> \E j \in InUse(d, p) : x \in Gone(d, p, j)
           /\ Below(d, p) \subseteq Held(d)
  <1>1. CASE p = DirectorySector
    <2>1. ASSUME NEW x PROVE x \in Held(d) <=> \E j \in InUse(d, DirectorySector) : x \in Gone(d, DirectorySector, j)
      <3>0. DirectorySector \in Parents(d)
        BY ParentsProperties
      <3>1. ASSUME x \in Held(d) PROVE \E j \in InUse(d, DirectorySector) : x \in Gone(d, DirectorySector, j)
        <4>1. PICK q, i : q \in Parents(d) /\ i \in InUse(d, q) /\ x \in Extent(d, SectorAt(d, q, i))
          BY <3>1, HeldProperties
        <4>2. CASE q = DirectorySector
          BY <4>1, <4>2, <3>0, GoneProperties
        <4>3. CASE q # DirectorySector
          <5>1. PICK j \in InUse(d, DirectorySector) : q = SectorAt(d, DirectorySector, j)
            BY <4>1, <4>3, ParentsProperties
          <5>2. x \in Gone(d, DirectorySector, j)
            BY <3>0, <4>1, <5>1, GoneProperties
          <5> QED BY <5>2
        <4> QED BY <4>2, <4>3
      <3>2. ASSUME NEW j \in InUse(d, DirectorySector), x \in Gone(d, DirectorySector, j) PROVE x \in Held(d)
        BY <3>0, <3>2, GoneProperties, HeldProperties
      <3> QED BY <3>1, <3>2
    <2> QED BY <1>1, <2>1, BelowRoot
  <1>2. CASE p # DirectorySector
    <2>1. \A i \in InUse(d, p) : SectorAt(d, p, i) \notin Parents(d)
      <3> SUFFICES ASSUME NEW i \in InUse(d, p), SectorAt(d, p, i) \in Parents(d) PROVE FALSE
        OBVIOUS
      <3>1. PICK k \in InUse(d, DirectorySector) : SectorAt(d, p, i) = SectorAt(d, DirectorySector, k)
        BY ItemsNotRoot, ParentsProperties
      <3> QED BY <1>2, <3>1, ParentsProperties, ItemsApart
    <2>2. \A x : x \in Below(d, p) <=> \E i \in InUse(d, p) : x \in Extent(d, SectorAt(d, p, i))
      BY <1>2, BelowParent
    <2>3. \A x : \A i \in InUse(d, p) : x \in Gone(d, p, i) <=> x \in Extent(d, SectorAt(d, p, i))
      BY <2>1, GoneProperties
    <2>4. Below(d, p) \subseteq Held(d)
      BY <2>2, HeldProperties
    <2> QED BY <2>2, <2>3, <2>4
  <1> QED BY <1>1, <1>2

(* What is held once entries of a directory have been cleared.             *)
LEMMA HeldAfter ==
    ASSUME NEW old, Sound(old), NEW p \in Parents(old), NEW tab, IsTable(tab),
           \A i \in 1 .. NumDirEntries : tab[i] = Item(old, p, i) \/ tab[i].kind # "entry"
    PROVE  LET new == Write(old, Blocks(old, p), tab)
           IN  /\ Sound(new)
               /\ \A x : x \in Held(new) <=>
                      /\ x \in Held(old)
                      /\ \A j \in InUse(old, p) : tab[j].kind # "entry" => x \notin Gone(old, p, j)
  <1> DEFINE new == Write(old, Blocks(old, p), tab)
             Kept(q, i) == i \in InUse(old, q) /\ (q = p => tab[i].kind = "entry")
  <1>1. /\ Sound(new)
        /\ Parents(new) \subseteq Parents(old)
        /\ InUse(new, p) = {i \in 1 .. NumDirEntries : tab[i].kind = "entry"}
        /\ InUse(new, p) \subseteq InUse(old, p)
        /\ \A q \in Parents(old) \ {p} : InUse(new, q) = InUse(old, q)
        /\ \A q \in Parents(old) : \A i \in InUse(new, q) :
               /\ Item(new, q, i) = Item(old, q, i)
               /\ SectorAt(new, q, i) = SectorAt(old, q, i)
               /\ Extent(new, SectorAt(old, q, i)) = Extent(old, SectorAt(old, q, i))
    BY ClearItems
  <1> HIDE DEF new
  <1>2. DirectorySector \in Parents(old) /\ DirectorySector \in Parents(new)
    BY ParentsProperties
  <1>3. \A q \in Parents(old) : \A i : i \in InUse(new, q) <=> Kept(q, i)
    <2>1. \A i \in InUse(old, p) : i \in 1 .. NumDirEntries
      BY TableProperties
    <2> QED BY <1>1, <2>1
  <1> HIDE DEF Kept
  (* A directory that has gone was the one of a cleared entry. *)
  <1>4. ASSUME NEW q \in Parents(old)
        PROVE  q \in Parents(new) <=> ~ \E j \in InUse(old, p) : tab[j].kind # "entry" /\ SectorAt(old, p, j) = q
    <2>1. CASE q = DirectorySector
      BY <1>2, <2>1, ItemsNotRoot
    <2>2. CASE q # DirectorySector
      <3>1. PICK k \in InUse(old, DirectorySector) : Item(old, DirectorySector, k).isDir /\
                   q = SectorAt(old, DirectorySector, k)
        BY <2>2, ParentsProperties
      <3>2. q \in Parents(new) <=> k \in InUse(new, DirectorySector)
        <4>1. k \in InUse(new, DirectorySector) => q \in Parents(new)
          BY <1>1, <1>2, <3>1, ParentsProperties
        <4>2. ASSUME q \in Parents(new) PROVE k \in InUse(new, DirectorySector)
          <5>1. PICK i \in InUse(new, DirectorySector) : q = SectorAt(new, DirectorySector, i)
            BY <2>2, <4>2, ParentsProperties
          <5>2. i \in InUse(old, DirectorySector) /\ q = SectorAt(old, DirectorySector, i)
            BY <1>1, <1>2, <1>3, <5>1 DEF Kept
          <5>3. i = k
            BY <1>2, <3>1, <5>2, ItemsApart
          <5> QED BY <5>1, <5>3
        <4> QED BY <4>1, <4>2
      <3>3. k \in InUse(new, DirectorySector) <=> (DirectorySector = p => tab[k].kind = "entry")
        BY <1>2, <1>3, <3>1 DEF Kept
      <3>4. \A j \in InUse(old, p) : SectorAt(old, p, j) = q => p = DirectorySector /\ j = k
        BY <1>2, <3>1, ItemsApart
      <3> QED BY <3>1, <3>2, <3>3, <3>4
    <2> QED BY <2>1, <2>2
  <1>5. ASSUME NEW x, x \in Held(new)
        PROVE  x \in Held(old) /\ \A j \in InUse(old, p) : tab[j].kind # "entry" => x \notin Gone(old, p, j)
    <2>1. PICK q, i : q \in Parents(new) /\ i \in InUse(new, q) /\ x \in Extent(new, SectorAt(new, q, i))
      BY <1>5, HeldProperties
    <2>2. q \in Parents(old) /\ i \in InUse(old, q) /\ x \in Extent(old, SectorAt(old, q, i)) /\ Kept(q, i)
      BY <1>1, <1>3, <2>1 DEF Kept
    <2>3. x \in Held(old)
      BY <2>2, HeldProperties
    <2>4. ASSUME NEW j \in InUse(old, p), tab[j].kind # "entry", x \in Gone(old, p, j) PROVE FALSE
      <3>1. q # p \/ i # j
        BY <2>2, <2>4 DEF Kept
      <3>2. x \notin Extent(old, SectorAt(old, p, j))
        BY <2>2, <3>1 DEF Sound, ExtentsAreDisjoint
      <3>3. PICK k : /\ SectorAt(old, p, j) \in Parents(old) /\ k \in InUse(old, SectorAt(old, p, j))
                     /\ x \in Extent(old, SectorAt(old, SectorAt(old, p, j), k))
        BY <2>4, <3>2, GoneProperties
      <3>4. SectorAt(old, p, j) = q
        BY <2>2, <3>3 DEF Sound, ExtentsAreDisjoint
      <3> QED BY <1>4, <2>1, <2>2, <2>4, <3>4
    <2> QED BY <2>3, <2>4
  <1>6. ASSUME NEW x, x \in Held(old), \A j \in InUse(old, p) : tab[j].kind # "entry" =>
                 x \notin Gone(old, p, j)
        PROVE  x \in Held(new)
    <2>1. PICK q, i : q \in Parents(old) /\ i \in InUse(old, q) /\ x \in Extent(old, SectorAt(old, q, i))
      BY <1>6, HeldProperties
    <2>2. q = p => tab[i].kind = "entry"
      BY <1>6, <2>1, GoneProperties
    <2>3. i \in InUse(new, q)
      BY <1>3, <2>1, <2>2 DEF Kept
    <2>4. q \in Parents(new)
      <3> SUFFICES ASSUME NEW j \in InUse(old, p), tab[j].kind # "entry", SectorAt(old, p, j) = q PROVE FALSE
        BY <1>4, <2>1
      <3>1. x \in Gone(old, p, j)
        BY <2>1, GoneProperties
      <3> QED BY <1>6, <3>1
    <2>5. x \in Extent(new, SectorAt(new, q, i))
      BY <1>1, <2>1, <2>3
    <2> QED BY <2>3, <2>4, <2>5, HeldProperties
  <1> QED BY <1>1, <1>5, <1>6 DEF new

-----------------------------------------------------------------------------
(* Entries and paths. *)

(* FindIndex returns an entry with the name, or 0 if there is none.        *)
LEMMA FindIndexProperties ==
    ASSUME NEW d, NEW s, NEW name
    PROVE  \/ FindIndex(d, s, name) = 0 /\ \A j \in InUse(d, s) : Item(d, s, j).name # name
           \/ FindIndex(d, s, name) \in InUse(d, s) /\ Item(d, s, FindIndex(d, s, name)).name = name
  <1> DEFINE t == Table(d, s)
             I == {i \in 1 .. Len(t) : t[i].kind = "entry" /\ t[i].name = name}
  <1>1. Len(t) = NumDirEntries
    BY Numbers DEF Table
  <1>2. \A i : i \in I <=> i \in InUse(d, s) /\ Item(d, s, i).name = name
    BY <1>1, TableProperties DEF Item
  <1>3. FindIndex(d, s, name) = IF I # {} THEN CHOOSE x \in I : \A y \in I : x <= y ELSE 0
    BY DEF FindIndex, SelectInSeq, Min
  <1>4. I \subseteq Nat
    OBVIOUS
  <1> HIDE DEF I
  <1>5. I # {} => (CHOOSE x \in I : \A y \in I : x <= y) \in I
    BY <1>4, MinExists
  <1> QED BY <1>2, <1>3, <1>5

(* Add changes one entry, which was not in use.                            *)
LEMMA AddProperties ==
    ASSUME NEW table, IsTable(table), ~Full(table), NEW e
    PROVE  /\ IsTable(Add(table, e))
           /\ \E k \in 1 .. NumDirEntries : /\ table[k].kind # "entry"
                                            /\ Add(table, e)[k] = e
                                            /\ \A i \in 1 .. NumDirEntries : i # k => Add(table, e)[i] = table[i]
  <1> DEFINE I == {i \in 1 .. Len(table) : table[i].kind # "entry"}
             k == SelectInSeq(table, LAMBDA x : x.kind # "entry")
  <1>1. DOMAIN table = 1 .. NumDirEntries
    BY DEF IsTable
  <1>2. Len(table) = NumDirEntries
    BY Numbers DEF IsTable
  <1>3. k = IF I # {} THEN CHOOSE x \in I : \A y \in I : x <= y ELSE 0
    BY DEF SelectInSeq, Min
  <1>4. I \subseteq Nat /\ I # {}
    BY <1>1, <1>2 DEF Full
  <1>5. \A i \in I : i \in 1 .. NumDirEntries /\ table[i].kind # "entry"
    BY <1>2
  <1>6. Add(table, e) = [table EXCEPT ![k] = e]
    BY DEF Add
  <1> HIDE DEF I, k
  <1>7. k \in I
    BY <1>3, <1>4, MinExists
  <1>8. Add(table, e) = [i \in 1 .. NumDirEntries |-> IF i = k THEN e ELSE table[i]]
    BY <1>1, <1>6
  <1> QED BY <1>5, <1>7, <1>8 DEF IsTable

(* What Directory::FetchFrom reads is a table.                             *)
LEMMA TableIsTable ==
    ASSUME NEW d, NEW s
    PROVE  IsTable(Table(d, s))
  BY DEF IsTable, Table

(* Find returns the header sector of an entry with the name, or NONE.      *)
LEMMA FindProperties ==
    ASSUME NEW d, Sound(d), NEW p \in Parents(d), NEW name
    PROVE  \/ Find(d, p, name) = NONE /\ \A j \in InUse(d, p) : Item(d, p, j).name # name
           \/ /\ Find(d, p, name) # NONE
              /\ FindIndex(d, p, name) \in InUse(d, p)
              /\ Item(d, p, FindIndex(d, p, name)).name = name
              /\ Find(d, p, name) = SectorAt(d, p, FindIndex(d, p, name))
  <1> DEFINE i == FindIndex(d, p, name)
  <1>1. CASE i = 0 /\ \A j \in InUse(d, p) : Item(d, p, j).name # name
    BY <1>1 DEF Find
  <1>2. CASE i \in InUse(d, p) /\ Item(d, p, i).name = name
    <2>1. i # 0
      BY <1>2, TableProperties
    <2>2. Find(d, p, name) = SectorAt(d, p, i)
      BY <2>1 DEF Find, SectorAt, Item
    <2>3. SectorAt(d, p, i) \in Sectors
      BY <1>2 DEF Sound, ItemsAreFiles, File
    <2>4. SectorAt(d, p, i) # NONE
      BY <2>3, Numbers DEF Sectors, NONE
    <2> QED BY <1>2, <2>2, <2>4
  <1> QED BY <1>1, <1>2, FindIndexProperties

(* PathParse leads to a directory that can hold something, or to none.     *)
LEMMA PathParseProperties ==
    ASSUME Sound(disk), NEW path \in Walkable, PathParse(path) # NONE
    PROVE  PathParse(path) \in Parents(disk)
  <1>0. DirectorySector \in Parents(disk)
    BY ParentsProperties
  <1>1. CASE Len(path) = 1
    BY <1>0, <1>1 DEF PathParse
  <1>2. CASE Len(path) # 1
    <2>1. PathParse(path) = Find(disk, DirectorySector, path[1])
      BY <1>2 DEF PathParse
    <2> DEFINE i == FindIndex(disk, DirectorySector, path[1])
    <2>2. /\ i \in InUse(disk, DirectorySector) /\ Item(disk, DirectorySector, i).name = path[1]
          /\ PathParse(path) = SectorAt(disk, DirectorySector, i)
      BY <1>0, <2>1, FindProperties
    <2>3. Len(path) = 2
      <3>1. path \in Paths
        BY DEF Walkable
      <3>2. CASE path \in {<< n >> : n \in Names}
        BY <1>2, <3>2
      <3>3. CASE path \in DirNames \X Names
        BY <3>3
      <3> QED BY <3>1, <3>2, <3>3 DEF Paths
    <2> HIDE DEF i
    <2>4. Item(disk, DirectorySector, i) \in Entries(disk, DirectorySector)
      BY <2>2, TableProperties
    <2>5. Item(disk, DirectorySector, i).isDir
      BY <2>2, <2>3, <2>4 DEF Walkable
    <2> QED BY <2>2, <2>5, ParentsProperties
  <1> QED BY <1>1, <1>2

(* The target of a path is that of an entry, and IsDirectory is right of   *)
(* it.                                                                     *)
LEMMA TargetProperties ==
    ASSUME Sound(disk), NEW path \in Walkable, Target(path) # NONE
    PROVE  LET p == PathParse(path)
               i == FindIndex(disk, PathParse(path), Last(path))
           IN  /\ p \in Parents(disk)
               /\ i \in InUse(disk, p)
               /\ Target(path) = SectorAt(disk, p, i)
               /\ IsDirectory(path) <=> Item(disk, p, i).isDir
  <1> DEFINE p == PathParse(path)
             i == FindIndex(disk, p, Last(path))
  <1>1. p # NONE /\ Target(path) = Find(disk, p, Last(path))
    BY DEF Target
  <1>2. p \in Parents(disk)
    BY <1>1, PathParseProperties
  <1> HIDE DEF p
  <1>3. i \in InUse(disk, p) /\ Item(disk, p, i).name = Last(path) /\ Target(path) = SectorAt(disk, p, i)
    BY <1>1, <1>2, FindProperties
  <1> HIDE DEF i
  <1>4. IsDirectory(path) <=> \E e \in Entries(disk, p) : e.name = Last(path) /\ e.isDir
    BY DEF IsDirectory, p
  <1>5. \A j \in InUse(disk, p) : Item(disk, p, j).name = Last(path) => j = i
    BY <1>2, <1>3 DEF Sound, ItemsHaveNames
  <1>6. IsDirectory(path) <=> Item(disk, p, i).isDir
    <2>1. ASSUME IsDirectory(path) PROVE Item(disk, p, i).isDir
      <3>1. PICK e \in Entries(disk, p) : e.name = Last(path) /\ e.isDir
        BY <1>4, <2>1
      <3>2. PICK j \in InUse(disk, p) : e = Item(disk, p, j)
        BY TableProperties
      <3> QED BY <1>5, <3>1, <3>2
    <2>2. ASSUME Item(disk, p, i).isDir PROVE IsDirectory(path)
      BY <1>3, <1>4, <2>2, TableProperties
    <2> QED BY <2>1, <2>2
  <1> QED BY <1>2, <1>3, <1>6 DEF p, i

(* What goes with an entry belongs to files, none of it to the system.     *)
LEMMA GoneIsHeld ==
    ASSUME NEW d, Sound(d), NEW p \in Parents(d), NEW i \in InUse(d, p)
    PROVE  /\ Gone(d, p, i) \subseteq Held(d)
           /\ Held(d) \cap SystemSectors = {}
           /\ Item(d, p, i).isDir => Extent(d, SectorAt(d, p, i)) \cap Below(d, SectorAt(d, p, i)) = {}
  <1> DEFINE s == SectorAt(d, p, i)
  <1>1. Gone(d, p, i) \subseteq Held(d)
    BY GoneProperties, HeldProperties
  <1>2. Held(d) \cap SystemSectors = {}
    <2>1. \A q \in Parents(d) : \A j \in InUse(d, q) : Extent(d, SectorAt(d, q, j)) \cap SystemSectors = {}
      BY DEF Sound, ItemsAreFiles
    <2> QED BY <2>1, HeldProperties
  <1>3. ASSUME Item(d, p, i).isDir PROVE Extent(d, s) \cap Below(d, s) = {}
    <2>1. CASE p # DirectorySector
      BY <1>3, <2>1, BelowParent
    <2>2. CASE p = DirectorySector
      <3>1. s \in Parents(d) /\ s # DirectorySector
        BY <1>3, <2>2, ParentsProperties, ItemsNotRoot
      <3>2. \A x : x \in Below(d, s) <=> \E k \in InUse(d, s) : x \in Extent(d, SectorAt(d, s, k))
        BY <3>1, BelowParent
      <3>3. \A k \in InUse(d, s) : Extent(d, SectorAt(d, s, k)) \cap Extent(d, s) = {}
        BY <2>2, <3>1 DEF Sound, ExtentsAreDisjoint
      <3> QED BY <3>2, <3>3
    <2> QED BY <2>1, <2>2
  <1> QED BY <1>1, <1>2, <1>3

-----------------------------------------------------------------------------
(* The inductive invariant. *)

MapIsExact == /\ freeMap = SystemSectors \cup Held(disk) \cup lost
              /\ lost \cap (SystemSectors \cup Held(disk)) = {}

Inv == /\ outcome = "ok" => Sound(disk) /\ MapIsExact
       /\ outcome = "stopped" => Sound(disk) /\ freeMap \subseteq SystemSectors \cup Held(disk) \cup lost

(* The disk after entry i of the directory at p has been cleared.          *)
LEMMA EntryCleared ==
    ASSUME NEW d, Sound(d), NEW p \in Parents(d), NEW name, FindIndex(d, p, name) \in InUse(d, p)
    PROVE  /\ Sound(RemoveEntry(d, p, name))
           /\ Held(RemoveEntry(d, p, name)) = Held(d) \ Gone(d, p, FindIndex(d, p, name))
  <1> DEFINE i == FindIndex(d, p, name)
             tab == [Table(d, p) EXCEPT ![i] = Unused]
             new == Write(d, Blocks(d, p), tab)
  <1>1. RemoveEntry(d, p, name) = new
    BY DEF RemoveEntry, WriteTable
  <1>2. DOMAIN Table(d, p) = 1 .. NumDirEntries
    BY TableProperties
  <1>3. IsTable(tab)
    BY <1>2 DEF IsTable
  <1>4. i \in 1 .. NumDirEntries
    BY TableProperties
  <1>5. tab[i] = Unused /\ \A j \in 1 .. NumDirEntries : j # i => tab[j] = Item(d, p, j)
    BY <1>2, <1>4 DEF Item
  <1> HIDE DEF tab, i
  <1>6. Unused.kind # "entry"
    BY DEF Unused
  <1>7. \A j \in 1 .. NumDirEntries : tab[j] = Item(d, p, j) \/ tab[j].kind # "entry"
    BY <1>5, <1>6
  <1>8. /\ Sound(new)
        /\ \A x : x \in Held(new) <=>
               /\ x \in Held(d)
               /\ \A j \in InUse(d, p) : tab[j].kind # "entry" => x \notin Gone(d, p, j)
    BY <1>3, <1>7, HeldAfter
  <1> HIDE DEF new
  <1>9. \A j \in InUse(d, p) : tab[j].kind # "entry" <=> j = i
    BY <1>4, <1>5, <1>6, TableProperties
  <1>10. i \in InUse(d, p)
    BY DEF i
  <1>11. Held(new) = Held(d) \ Gone(d, p, i)
    BY <1>8, <1>9, <1>10
  <1> QED BY <1>1, <1>8, <1>11 DEF i

(* What Remove and RecursiveRemove leave, at the end and when they stop.   *)
LEMMA StagesOfRemove ==
    ASSUME NEW sectors, NEW path
    PROVE  LET stages == RemoveStages(sectors, path)
           IN  /\ Completes(stages) => /\ disk' = RemoveEntry(disk, PathParse(path), Last(path))
                                       /\ freeMap' = freeMap \ sectors
               /\ StopsIn(stages) => /\ disk' = disk /\ freeMap' = freeMap \ sectors
                                     /\ outcome' = "stopped" /\ lost' = lost
  <1> DEFINE map == freeMap \ sectors
             new == RemoveEntry(disk, PathParse(path), Last(path))
             stages == << Stage(disk, map), Stage(new, map) >>
  <1>1. RemoveStages(sectors, path) = stages
    BY DEF RemoveStages
  <1> HIDE DEF map, new
  <1>2. /\ Len(stages) = 2 /\ Last(stages) = Stage(new, map)
        /\ \A i \in 1 .. Len(stages) - 1 : stages[i] = Stage(disk, map)
    BY DEF Last
  <1> HIDE DEF stages
  <1>3. \A d, m : Stage(d, m).disk = d /\ Stage(d, m).map = m
    BY DEF Stage
  <1>4. Completes(stages) => disk' = new /\ freeMap' = map
    BY <1>2, <1>3 DEF Completes
  <1>5. StopsIn(stages) => disk' = disk /\ freeMap' = map /\ outcome' = "stopped" /\ lost' = lost
    BY <1>2, <1>3 DEF StopsIn
  <1> QED BY <1>1, <1>4, <1>5 DEF map, new

(* A stop after the bitmap, and before the directory.                      *)
LEMMA StoppedSmaller ==
    ASSUME Sound(disk), MapIsExact, disk' = disk, freeMap' \subseteq freeMap, lost' = lost, outcome' = "stopped"
    PROVE  Inv'
  BY DEF Inv, MapIsExact

(* Nothing is claimed after a failed ASSERT.                               *)
LEMMA AbortsInv ==
    ASSUME Aborts
    PROVE  Inv'
  BY DEF Aborts, Inv

(* FileSystem::Remove: what is below a directory is lost.                  *)
LEMMA RemovePathInv ==
    ASSUME Inv, outcome = "ok", NEW path \in Walkable, RemovePath(path)
    PROVE  Inv'
  <1> DEFINE p == PathParse(path)
             i == FindIndex(disk, p, Last(path))
             sectors == Extent(disk, Target(path))
             stages == RemoveStages(sectors, path)
  <1>1. Sound(disk) /\ MapIsExact
    BY DEF Inv
  <1>2. CASE PathParse(path) = NONE /\ Aborts
    BY <1>2, AbortsInv
  <1>3. CASE Fails
    BY <1>3 DEF Fails, vars, Inv, MapIsExact
  <1>4. CASE Target(path) # NONE /\ sectors \subseteq freeMap /\ StopsIn(stages)
    BY <1>1, <1>4, StagesOfRemove, StoppedSmaller
  <1>5. CASE /\ Target(path) # NONE
             /\ Frees(sectors, stages)
             /\ lost' = IF IsDirectory(path) THEN lost \cup Below(disk, Target(path)) ELSE lost
    <2>1. CASE ~(sectors \subseteq freeMap)
      BY <1>5, <2>1, AbortsInv DEF Frees
    <2>2. CASE sectors \subseteq freeMap
      <3>1. Completes(stages) /\ outcome' = outcome
        BY <1>5, <2>2 DEF Frees
      <3>2. /\ p \in Parents(disk) /\ i \in InUse(disk, p) /\ Target(path) = SectorAt(disk, p, i)
            /\ IsDirectory(path) <=> Item(disk, p, i).isDir
        BY <1>1, <1>5, TargetProperties
      <3>3. disk' = RemoveEntry(disk, p, Last(path)) /\ freeMap' = freeMap \ sectors
        BY <3>1, StagesOfRemove
      <3>4. Sound(disk') /\ Held(disk') = Held(disk) \ Gone(disk, p, i)
        BY <1>1, <3>2, <3>3, EntryCleared
      <3>5. /\ Gone(disk, p, i) \subseteq Held(disk) /\ Held(disk) \cap SystemSectors = {}
            /\ Item(disk, p, i).isDir => sectors \cap Below(disk, Target(path)) = {}
        BY <1>1, <3>2, GoneIsHeld
      <3>6. Gone(disk, p, i) = sectors \cup (IF IsDirectory(path) THEN Below(disk, Target(path)) ELSE {})
        BY <3>2 DEF Gone
      <3>7. freeMap' = SystemSectors \cup Held(disk)' \cup lost'
        <4>1. CASE IsDirectory(path)
          BY <1>1, <1>5, <3>2, <3>3, <3>4, <3>5, <3>6, <4>1 DEF MapIsExact
        <4>2. CASE ~IsDirectory(path)
          BY <1>1, <1>5, <3>2, <3>3, <3>4, <3>5, <3>6, <4>2 DEF MapIsExact
        <4> QED BY <4>1, <4>2
      <3>8. lost' \cap (SystemSectors \cup Held(disk)') = {}
        <4>1. CASE IsDirectory(path)
          BY <1>1, <1>5, <3>4, <3>5, <3>6, <4>1 DEF MapIsExact
        <4>2. CASE ~IsDirectory(path)
          BY <1>1, <1>5, <3>4, <4>2 DEF MapIsExact
        <4> QED BY <4>1, <4>2
      <3> QED BY <3>1, <3>4, <3>7, <3>8 DEF Inv, MapIsExact
    <2> QED BY <2>1, <2>2
  <1> QED BY <1>2, <1>3, <1>4, <1>5 DEF RemovePath

(* FileSystem::RecursiveRemove: nothing is lost.                           *)
LEMMA RecursiveRemoveInv ==
    ASSUME Inv, outcome = "ok", NEW path \in Walkable, RecursiveRemove(path)
    PROVE  Inv'
  <1> DEFINE p == PathParse(path)
             i == FindIndex(disk, p, Last(path))
             sectors == Extent(disk, Target(path)) \cup
                            (IF IsDirectory(path) THEN Below(disk, Target(path)) ELSE {})
             stages == RemoveStages(sectors, path)
  <1>1. Sound(disk) /\ MapIsExact
    BY DEF Inv
  <1>2. CASE Aborts
    BY <1>2, AbortsInv
  <1>3. CASE Target(path) # NONE /\ sectors \subseteq freeMap /\ StopsIn(stages)
    BY <1>1, <1>3, StagesOfRemove, StoppedSmaller
  <1>4. CASE Target(path) # NONE /\ Frees(sectors, stages) /\ lost' = lost
    <2>1. CASE ~(sectors \subseteq freeMap)
      BY <1>4, <2>1, AbortsInv DEF Frees
    <2>2. CASE sectors \subseteq freeMap
      <3>1. Completes(stages) /\ outcome' = outcome
        BY <1>4, <2>2 DEF Frees
      <3>2. /\ p \in Parents(disk) /\ i \in InUse(disk, p) /\ Target(path) = SectorAt(disk, p, i)
            /\ IsDirectory(path) <=> Item(disk, p, i).isDir
        BY <1>1, <1>4, TargetProperties
      <3>3. disk' = RemoveEntry(disk, p, Last(path)) /\ freeMap' = freeMap \ sectors
        BY <3>1, StagesOfRemove
      <3>4. Sound(disk') /\ Held(disk') = Held(disk) \ Gone(disk, p, i)
        BY <1>1, <3>2, <3>3, EntryCleared
      <3>5. Gone(disk, p, i) \subseteq Held(disk) /\ Held(disk) \cap SystemSectors = {}
        BY <1>1, <3>2, GoneIsHeld
      <3>6. Gone(disk, p, i) = sectors
        BY <3>2 DEF Gone
      <3> QED BY <1>1, <1>4, <3>1, <3>3, <3>4, <3>5, <3>6 DEF Inv, MapIsExact
    <2> QED BY <2>1, <2>2
  <1> QED BY <1>2, <1>3, <1>4 DEF RecursiveRemove

(* The table of a directory with the first entries cleared.                *)
RootTable(s, i) == [j \in 1 .. NumDirEntries |-> IF j < i THEN Unused ELSE Table(disk, s)[j]]

(* A directory with its first entries cleared.                             *)
LEMMA RootTableWritten ==
    ASSUME Sound(disk), NEW s \in Parents(disk), NEW i \in 1 .. NumDirEntries + 1
    PROVE  LET new == WriteTable(disk, s, RootTable(s, i))
           IN  /\ Sound(new)
               /\ Held(disk) \ Below(disk, s) \subseteq Held(new)
               /\ i = NumDirEntries + 1 => Held(new) = Held(disk) \ Below(disk, s)
  <1> DEFINE tab == RootTable(s, i)
             new == Write(disk, Blocks(disk, s), tab)
  <1>1. WriteTable(disk, s, RootTable(s, i)) = new
    BY DEF WriteTable
  <1>2. IsTable(tab)
    BY DEF IsTable, RootTable
  <1>3. \A j \in 1 .. NumDirEntries : tab[j] = IF j < i THEN Unused ELSE Item(disk, s, j)
    BY DEF RootTable, Item
  <1> HIDE DEF tab
  <1>4. Unused.kind # "entry"
    BY DEF Unused
  <1>5. \A j \in 1 .. NumDirEntries : tab[j] = Item(disk, s, j) \/ tab[j].kind # "entry"
    BY <1>3, <1>4
  <1>6. /\ Sound(new)
        /\ \A x : x \in Held(new) <=>
               /\ x \in Held(disk)
               /\ \A j \in InUse(disk, s) : tab[j].kind # "entry" => x \notin Gone(disk, s, j)
    BY <1>2, <1>5, HeldAfter
  <1> HIDE DEF new
  <1>7. \A x : x \in Below(disk, s) <=> \E j \in InUse(disk, s) : x \in Gone(disk, s, j)
    BY BelowIsGone
  <1>8. Held(disk) \ Below(disk, s) \subseteq Held(new)
    BY <1>6, <1>7
  <1>9. ASSUME i = NumDirEntries + 1 PROVE Held(new) = Held(disk) \ Below(disk, s)
    <2>1. \A j \in 1 .. NumDirEntries : j < i
      BY <1>9, Numbers
    <2>2. \A j \in InUse(disk, s) : tab[j].kind # "entry"
      BY <1>3, <1>4, <2>1, TableProperties
    <2> QED BY <1>6, <1>7, <2>2
  <1> QED BY <1>1, <1>6, <1>8, <1>9

(* What RecursiveRemove of a root leaves, at the end and when it stops.    *)
LEMMA StagesOfRoot ==
    ASSUME NEW s
    PROVE  LET stages == RootStages(s)
               map == freeMap \ Below(disk, s)
           IN  /\ Completes(stages) => /\ disk' = WriteTable(disk, s, RootTable(s, NumDirEntries + 1))
                                       /\ freeMap' = map
               /\ StopsIn(stages) => /\ \E i \in 1 .. NumDirEntries + 1 : disk' = WriteTable(disk, s, RootTable(s, i))
                                     /\ freeMap' = map
                                     /\ outcome' = "stopped" /\ lost' = lost
  <1> DEFINE map == freeMap \ Below(disk, s)
             stages == [i \in 1 .. NumDirEntries + 1 |-> Stage(WriteTable(disk, s, RootTable(s, i)), map)]
  <1>1. RootStages(s) = stages
    BY DEF RootStages, RootTable
  <1> HIDE DEF map
  <1>2. /\ Len(stages) = NumDirEntries + 1
        /\ Last(stages) = Stage(WriteTable(disk, s, RootTable(s, NumDirEntries + 1)), map)
        /\ \A i \in 1 .. NumDirEntries + 1 : stages[i] = Stage(WriteTable(disk, s, RootTable(s, i)), map)
    BY Numbers DEF Last
  <1> HIDE DEF stages
  <1>3. \A d, m : Stage(d, m).disk = d /\ Stage(d, m).map = m
    BY DEF Stage
  <1>4. Completes(stages) => disk' = WriteTable(disk, s, RootTable(s, NumDirEntries + 1)) /\ freeMap' = map
    BY <1>2, <1>3 DEF Completes
  <1>5. ASSUME StopsIn(stages)
        PROVE  /\ \E i \in 1 .. NumDirEntries + 1 : disk' = WriteTable(disk, s, RootTable(s, i))
               /\ freeMap' = map /\ outcome' = "stopped" /\ lost' = lost
    <2>1. PICK i \in 1 .. Len(stages) - 1 : disk' = stages[i].disk /\ freeMap' = stages[i].map
      BY <1>5 DEF StopsIn
    <2>2. i \in 1 .. NumDirEntries + 1
      BY <1>2, Numbers
    <2>3. disk' = WriteTable(disk, s, RootTable(s, i)) /\ freeMap' = map
      BY <1>2, <1>3, <2>1, <2>2
    <2> QED BY <1>5, <2>2, <2>3 DEF StopsIn
  <1> QED BY <1>1, <1>4, <1>5 DEF map

(* RecursiveRemove of a root: all entries go, and all below them.          *)
LEMMA RecursiveRemoveRootInv ==
    ASSUME Inv, outcome = "ok", RecursiveRemoveRoot
    PROVE  Inv'
  <1>1. Sound(disk) /\ MapIsExact
    BY DEF Inv
  <1>2. PICK s \in Parents(disk) :
            \/ Frees(Below(disk, s), RootStages(s)) /\ UNCHANGED lost
            \/ Below(disk, s) \subseteq freeMap /\ StopsIn(RootStages(s))
    BY DEF RecursiveRemoveRoot, Parents
  <1>3. Below(disk, s) \subseteq Held(disk) /\ Held(disk) \cap SystemSectors = {}
    <2>1. Held(disk) \cap SystemSectors = {}
      BY <1>1, HeldProperties DEF Sound, ItemsAreFiles
    <2> QED BY <1>1, <2>1, BelowIsGone
  <1>4. CASE Below(disk, s) \subseteq freeMap /\ StopsIn(RootStages(s))
    <2>1. PICK i \in 1 .. NumDirEntries + 1 : disk' = WriteTable(disk, s, RootTable(s, i))
      BY <1>4, StagesOfRoot
    <2>2. freeMap' = freeMap \ Below(disk, s) /\ outcome' = "stopped" /\ lost' = lost
      BY <1>4, StagesOfRoot
    <2>3. Sound(disk') /\ Held(disk) \ Below(disk, s) \subseteq Held(disk')
      BY <1>1, <2>1, RootTableWritten
    <2> QED BY <1>1, <2>2, <2>3 DEF Inv, MapIsExact
  <1>5. CASE Frees(Below(disk, s), RootStages(s)) /\ UNCHANGED lost
    <2>1. CASE ~(Below(disk, s) \subseteq freeMap)
      BY <1>5, <2>1, AbortsInv DEF Frees
    <2>2. CASE Below(disk, s) \subseteq freeMap
      <3>1. Completes(RootStages(s)) /\ outcome' = outcome /\ lost' = lost
        BY <1>5, <2>2 DEF Frees
      <3>2. /\ disk' = WriteTable(disk, s, RootTable(s, NumDirEntries + 1))
            /\ freeMap' = freeMap \ Below(disk, s)
        BY <3>1, StagesOfRoot
      <3>3. NumDirEntries + 1 \in 1 .. NumDirEntries + 1
        BY Numbers
      <3>4. Sound(disk') /\ Held(disk') = Held(disk) \ Below(disk, s)
        BY <1>1, <3>2, <3>3, RootTableWritten
      <3> QED BY <1>1, <1>3, <3>1, <3>2, <3>4 DEF Inv, MapIsExact
    <2> QED BY <2>1, <2>2
  <1> QED BY <1>2, <1>4, <1>5

(* The data of a file is no header, table or entry.                        *)
LEMMA WriteFileInv ==
    ASSUME Inv, outcome = "ok", NEW path \in Walkable, WriteFile(path)
    PROVE  Inv'
  <1> DEFINE p == PathParse(path)
             i == FindIndex(disk, p, Last(path))
             t == Target(path)
             b == Blocks(disk, t)
             new == Write(disk, b, [k \in DOMAIN b |-> Data])
  <1>1. Sound(disk) /\ MapIsExact /\ DOMAIN disk = Sectors
    BY DEF Inv, Sound
  <1>2. /\ p \in Parents(disk) /\ i \in InUse(disk, p) /\ t = SectorAt(disk, p, i)
        /\ ~Item(disk, p, i).isDir
    BY <1>1, TargetProperties DEF WriteFile
  <1>3. disk' = new /\ UNCHANGED << freeMap, lost, outcome >>
    BY DEF WriteFile
  <1>4. /\ DOMAIN new = Sectors
        /\ \A x \in Sectors : (\A k \in DOMAIN b : b[k] # x) => new[x] = disk[x]
    BY <1>1, WriteProperties
  <1>5. File(disk, t)
    BY <1>1, <1>2 DEF Sound, ItemsAreFiles
  <1>6. \A k \in DOMAIN b : b[k] \in Extent(disk, t) /\ b[k] \notin Meta(disk, t)
    <2>1. \A k \in DOMAIN b : b[k] \in Range(b) /\ b[k] \in Extent(disk, t)
      BY ExtentProperties DEF Range
    <2> QED BY <1>5, <2>1 DEF File
  <1> HIDE DEF new, b, t, p, i
  <1>7. \A q \in Parents(disk) : q # t
    <2> SUFFICES ASSUME NEW q \in Parents(disk), q = t PROVE FALSE
      OBVIOUS
    <2>1. q # DirectorySector
      BY <1>1, <1>2, ItemsNotRoot
    <2>2. PICK j \in InUse(disk, DirectorySector) : Item(disk, DirectorySector, j).isDir /\
                 q = SectorAt(disk, DirectorySector, j)
      BY <2>1, ParentsProperties
    <2>3. DirectorySector = p /\ j = i
      <3>1. DirectorySector \in Parents(disk) /\ SectorAt(disk, DirectorySector, j) = SectorAt(disk, p, i)
        BY <1>2, <2>2, ParentsProperties
      <3> QED BY <1>1, <1>2, <2>2, <3>1, ItemsApart
    <2> QED BY <1>2, <2>2, <2>3
  <1>8. \A q \in Parents(disk) : \A x \in Extent(disk, q) : new[x] = disk[x]
    <2> SUFFICES ASSUME NEW q \in Parents(disk), NEW x \in Extent(disk, q) PROVE new[x] = disk[x]
      OBVIOUS
    <2>1. Extent(disk, t) \cap Extent(disk, q) = {} /\ Dir(disk, q)
      BY <1>1, <1>2, <1>7, ParentsDisjoint
    <2>2. x \in Sectors
      BY <2>1 DEF Dir, File
    <2> QED BY <1>4, <1>6, <2>1, <2>2
  <1>9. \A q \in Parents(disk) : \A j \in InUse(disk, q) :
            /\ \A x \in Meta(disk, SectorAt(disk, q, j)) : new[x] = disk[x]
            /\ Item(disk, q, j).isDir => \A x \in Extent(disk, SectorAt(disk, q, j)) : new[x] = disk[x]
    <2> SUFFICES ASSUME NEW q \in Parents(disk), NEW j \in InUse(disk, q)
                 PROVE  /\ \A x \in Meta(disk, SectorAt(disk, q, j)) : new[x] = disk[x]
                        /\ Item(disk, q, j).isDir => \A x \in Extent(disk, SectorAt(disk, q, j)) : new[x] = disk[x]
      OBVIOUS
    <2> DEFINE s == SectorAt(disk, q, j)
    <2>1. Extent(disk, s) \subseteq Sectors /\ Meta(disk, s) \subseteq Extent(disk, s)
      BY <1>1, ExtentProperties DEF Sound, ItemsAreFiles, File
    <2>2. CASE q = p /\ j = i
      BY <1>2, <1>4, <1>6, <2>1, <2>2
    <2>3. CASE q # p \/ j # i
      <3>1. Extent(disk, s) \cap Extent(disk, t) = {}
        BY <1>1, <1>2, <2>3 DEF Sound, ExtentsAreDisjoint
      <3> QED BY <1>4, <1>6, <2>1, <3>1
    <2> QED BY <2>2, <2>3
  <1>10. Sound(new) /\ Held(new) = Held(disk)
    BY <1>1, <1>4, <1>8, <1>9, SameTree
  <1> QED BY <1>1, <1>3, <1>10 DEF Inv, MapIsExact

-----------------------------------------------------------------------------
(* A formatted disk. *)

(* A directory is a file of level 1 or 2.                                  *)
LEMMA DirectorySize ==
    /\ NumDirEntries \in 1 .. MaxSize
    /\ WhichLevel(NumDirEntries) \in {1, 2}
  <1>1. NumDirEntries \in 1 .. MaxSize
    BY Numbers, MaxSizeProperties
  <1>2. WhichLevel(NumDirEntries) \in {1, 2}
    BY Numbers DEF WhichLevel
  <1> QED BY <1>1, <1>2

RootTaken == [i \in 1 .. HeaderSize(NumDirEntries) |-> i] \o RootBlocks

(* The sectors of the root, among those of the system.                     *)
LEMMA RootTakenProperties ==
    /\ Enough(RootTaken, NumDirEntries)
    /\ RootTaken[1] = DirectorySector
    /\ Range(RootTaken) \subseteq SystemSectors
    /\ DataOf(RootTaken, NumDirEntries) = RootBlocks
  <1> DEFINE H == HeaderSize(NumDirEntries)
             head == [i \in 1 .. H |-> i]
  <1>1. H \in Nat \ {0} /\ NumDirEntries \in Nat \ {0} /\ MapBlock = 1 + H
    BY DirectorySize, LeafPlacesProperties, Numbers DEF MapBlock
  <1> HIDE DEF H
  <1>2. /\ Len(head) = H /\ Len(RootBlocks) = NumDirEntries
        /\ head \in Seq(Nat) /\ RootBlocks \in Seq(Nat)
    <2>1. head \in [1 .. H -> Nat] /\ RootBlocks \in [1 .. NumDirEntries -> Nat]
      BY <1>1 DEF RootBlocks
    <2>2. Len(head) = H /\ Len(RootBlocks) = NumDirEntries
      BY <1>1, <2>1, LenOf
    <2>3. head \in Seq(Nat) /\ RootBlocks \in Seq(Nat)
      BY <1>1, <2>1
    <2> QED BY <2>2, <2>3
  <1> DEFINE taken == head \o RootBlocks
  <1> HIDE DEF head
  <1>3. /\ DOMAIN taken = 1 .. H + NumDirEntries
        /\ \A i \in 1 .. H + NumDirEntries : taken[i] = IF i <= H THEN head[i] ELSE RootBlocks[i - H]
        /\ taken = [i \in 1 .. H + NumDirEntries |-> taken[i]]
    <2>1. /\ taken \in Seq(Nat) /\ Len(taken) = Len(head) + Len(RootBlocks)
          /\ \A i \in 1 .. Len(head) + Len(RootBlocks) :
                taken[i] = IF i <= Len(head) THEN head[i] ELSE RootBlocks[i - Len(head)]
      BY <1>2, ConcatProperties
    <2> HIDE DEF taken
    <2>2. DOMAIN taken = 1 .. Len(taken) /\ taken = [i \in 1 .. Len(taken) |-> taken[i]]
      BY <2>1
    <2> QED BY <1>2, <2>1, <2>2
  <1>4. /\ \A i \in 1 .. H : head[i] = i
        /\ \A i \in 1 .. NumDirEntries : RootBlocks[i] = 1 + H + i
    BY <1>1 DEF head, RootBlocks
  <1>5. RootTaken = taken
    BY DEF RootTaken, taken, head, H
  <1> HIDE DEF taken
  <1>6. \A i \in 1 .. H + NumDirEntries : taken[i] = IF i <= H THEN i ELSE 1 + i
    <2> SUFFICES ASSUME NEW i \in 1 .. H + NumDirEntries PROVE taken[i] = IF i <= H THEN i ELSE 1 + i
      OBVIOUS
    <2>1. CASE i <= H
      BY <1>1, <1>3, <1>4, <2>1
    <2>2. CASE ~(i <= H)
      <3>1. i - H \in 1 .. NumDirEntries /\ 1 + H + (i - H) = 1 + i
        BY <1>1, <2>2
      <3>2. taken[i] = RootBlocks[i - H]
        BY <1>3, <2>2
      <3> QED BY <1>4, <2>2, <3>1, <3>2
    <2> QED BY <2>1, <2>2
  <1>7. SystemSectors = 0 .. 1 + H + NumDirEntries /\ SystemSectors \subseteq Sectors
    BY <1>1, DiskAssumption DEF SystemSectors
  <1>8. \A i \in 1 .. H + NumDirEntries : taken[i] \in SystemSectors
    <2> SUFFICES ASSUME NEW i \in 1 .. H + NumDirEntries PROVE taken[i] \in 0 .. 1 + H + NumDirEntries
      BY <1>7
    <2> QED BY <1>1, <1>6
  <1>9. \A i, j \in 1 .. H + NumDirEntries : taken[i] = taken[j] => i = j
    <2> SUFFICES ASSUME NEW i \in 1 .. H + NumDirEntries, NEW j \in 1 .. H + NumDirEntries,
                          taken[i] = taken[j]
                 PROVE  i = j
      OBVIOUS
    <2>1. taken[i] = (IF i <= H THEN i ELSE 1 + i) /\ taken[j] = (IF j <= H THEN j ELSE 1 + j)
      BY <1>6
    <2>2. \A a, b, c \in Nat : (IF a <= c THEN a ELSE 1 + a) = (IF b <= c THEN b ELSE 1 + b) => a = b
      OBVIOUS
    <2>3. i \in Nat /\ j \in Nat
      BY <1>1
    <2> QED BY <1>1, <2>1, <2>2, <2>3
  <1>10. Enough(taken, NumDirEntries)
    <2>1. taken \in [1 .. H + NumDirEntries -> Sectors]
      BY <1>3, <1>7, <1>8
    <2> QED BY <1>3, <1>9, <2>1 DEF Enough, H
  <1>11. taken[1] = DirectorySector
    BY <1>1, <1>6 DEF DirectorySector
  <1>12. Range(taken) \subseteq SystemSectors
    BY <1>3, <1>8 DEF Range
  <1>13. DataOf(taken, NumDirEntries) = RootBlocks
    <2>1. \A i \in 1 .. NumDirEntries : taken[H + i] = RootBlocks[i]
      <3> SUFFICES ASSUME NEW i \in 1 .. NumDirEntries PROVE taken[H + i] = RootBlocks[i]
        OBVIOUS
      <3>1. H + i \in 1 .. H + NumDirEntries /\ ~(H + i <= H)
        BY <1>1
      <3> QED BY <1>1, <1>4, <1>6, <3>1
    <2>2. DataOf(taken, NumDirEntries) = [i \in 1 .. NumDirEntries |-> taken[H + i]]
      BY DEF DataOf, H
    <2>3. RootBlocks = [i \in 1 .. NumDirEntries |-> RootBlocks[i]]
      BY DEF RootBlocks
    <2> QED BY <2>1, <2>2, <2>3
  <1> QED BY <1>5, <1>10, <1>11, <1>12, <1>13

(* A formatted disk has a root and no file.                                *)
LEMMA FormattedSound ==
    ASSUME NEW d, DOMAIN d = Sectors
    PROVE  Sound(Formatted(d)) /\ Held(Formatted(d)) = {}
  <1> DEFINE maps == [d EXCEPT ![FreeMapSector] = Header(1, << MapBlock >>), ![MapBlock] = Data]
             first == WriteHeader(maps, RootTaken, NumDirEntries)
             new == Write(first, RootBlocks, EmptyTable)
  <1>1. DOMAIN maps = Sectors
    OBVIOUS
  <1>2. AllocateHDR(maps, RootTaken, NumDirEntries) = maps
    <2> HIDE DEF maps
    <2>1. WhichLevel(NumDirEntries) # 3 /\ WhichLevel(NumDirEntries) # 4
      BY DirectorySize
    <2> QED BY <2>1, AllocateHDRCases
  <1> HIDE DEF maps
  <1>3. Formatted(d) = new
    BY <1>2 DEF Formatted, RootTaken, maps
  <1>4. /\ DOMAIN first = Sectors
        /\ File(first, DirectorySector)
        /\ Extent(first, DirectorySector) = Range(RootTaken)
        /\ first[DirectorySector].size = NumDirEntries
        /\ Blocks(first, DirectorySector) = RootBlocks
    BY <1>1, DirectorySize, RootTakenProperties, NewFile
  <1> HIDE DEF first
  <1>5. /\ DOMAIN RootBlocks = 1 .. NumDirEntries /\ DOMAIN EmptyTable = 1 .. NumDirEntries
        /\ \A i \in 1 .. NumDirEntries : EmptyTable[i] = Unused
    BY DEF RootBlocks, EmptyTable
  <1>6. /\ \A i, j \in DOMAIN RootBlocks : RootBlocks[i] = RootBlocks[j] => i = j
        /\ \A i \in DOMAIN RootBlocks : RootBlocks[i] \in Sectors /\ RootBlocks[i] \notin Meta(first, DirectorySector)
    <2>1. \A i \in DOMAIN RootBlocks : RootBlocks[i] \in Range(RootBlocks) /\
            RootBlocks[i] \in Extent(first, DirectorySector)
      BY <1>4, ExtentProperties DEF Range
    <2> QED BY <1>4, <2>1 DEF File
  <1>7. \A i \in 1 .. NumDirEntries : new[RootBlocks[i]] = Unused
    <2>1. \A i \in DOMAIN RootBlocks : new[RootBlocks[i]] = EmptyTable[i]
      BY <1>4, <1>5, <1>6 DEF Write
    <2> QED BY <1>5, <2>1
  <1>8. DOMAIN new = Sectors /\ \A x \in Meta(first, DirectorySector) : new[x] = first[x]
    <2>1. Meta(first, DirectorySector) \subseteq Sectors
      BY <1>4, ExtentProperties DEF File
    <2> QED BY <1>4, <1>6, <2>1, WriteProperties
  <1> HIDE DEF new
  <1>9. File(new, DirectorySector) /\ Blocks(new, DirectorySector) = RootBlocks /\
          Extent(new, DirectorySector) = Range(RootTaken) /\ new[DirectorySector] = first[DirectorySector]
    BY <1>4, <1>8, SameFile
  <1>10. InUse(new, DirectorySector) = {}
    <2>1. \A i \in 1 .. NumDirEntries : Item(new, DirectorySector, i) = Unused
      BY <1>7, <1>9, TableProperties
    <2> QED BY <2>1, TableProperties DEF Unused
  <1>11. Parents(new) = {DirectorySector}
    BY <1>10, ParentsProperties
  <1>12. Held(new) = {}
    BY <1>10, <1>11, HeldProperties
  <1>13. RootIsDirectory(new)
    BY <1>4, <1>9, RootTakenProperties DEF RootIsDirectory, Dir
  <1>14. Sound(new)
    BY <1>8, <1>10, <1>11, <1>13 DEF Sound, ItemsAreFiles, LowestAreEmpty, ExtentsAreDisjoint, ItemsHaveNames
  <1> QED BY <1>3, <1>12, <1>14

(* NachOS starts on a formatted disk.                                      *)
LEMMA InitInv == Init => Inv
  <1> SUFFICES ASSUME Init PROVE Inv
    OBVIOUS
  <1> DEFINE d == [s \in Sectors |-> Blank]
  <1>1. DOMAIN d = Sectors /\ disk = Formatted(d)
    BY DEF Init
  <1> HIDE DEF d
  <1>2. Sound(disk) /\ Held(disk) = {}
    BY <1>1, FormattedSound
  <1> QED BY <1>2 DEF Init, Inv, MapIsExact

(* Format keeps the invariant.                                             *)
LEMMA FormatInv ==
    ASSUME Inv, outcome = "ok", Format
    PROVE  Inv'
  <1>1. DOMAIN disk = Sectors
    BY DEF Inv, Sound
  <1>2. Sound(disk') /\ Held(disk') = {}
    BY <1>1, FormattedSound DEF Format
  <1> QED BY <1>2 DEF Format, Inv, MapIsExact

-----------------------------------------------------------------------------
(* Create. *)

(* Free sectors can be counted.                                            *)
LEMMA FreeIsFinite ==
    ASSUME NEW map
    PROVE  IsFiniteSet(Sectors \ map) /\ Cardinality(Sectors \ map) \in Nat
  <1>1. IsFiniteSet(Sectors)
    BY Numbers, FS_Interval DEF Sectors
  <1>2. IsFiniteSet(Sectors \ map)
    BY <1>1, FS_Subset
  <1> QED BY <1>2, FS_CardinalityType

(* What AllocateHDR writes is in sectors that are free.                    *)
LEMMA HeaderTakenFrame ==
    ASSUME DOMAIN disk = Sectors, NEW size \in 1 .. MaxSize
    PROVE  /\ DOMAIN HeaderTaken(size) = Sectors
           /\ \A s \in Sectors \cap freeMap : HeaderTaken(size)[s] = disk[s]
  <1> DEFINE free == Cardinality(Sectors \ freeMap)
             n == IF HeaderSize(size) <= free THEN HeaderSize(size) ELSE free
             head == FindAndSet(freeMap, n)
  <1>1. n \in Nat /\ n <= free
    <2>1. free \in Nat /\ HeaderSize(size) \in Nat
      BY FreeIsFinite, LeafPlacesProperties
    <2> HIDE DEF free
    <2> QED BY <2>1
  <1> HIDE DEF n
  <1>2. head \in [1 .. n -> Sectors \ freeMap]
    BY <1>1, FindAndSetProperties
  <1>3. HeaderTaken(size) = AllocateHDR(disk, head, size)
    BY DEF HeaderTaken, n
  <1> HIDE DEF head
  <1>4. head \in [1 .. n -> Sectors] /\ Range(head) \cap freeMap = {}
    BY <1>2 DEF Range
  <1>5. /\ DOMAIN AllocateHDR(disk, head, size) = Sectors
        /\ \A s \in Sectors \ Range(head) : AllocateHDR(disk, head, size)[s] = disk[s]
    BY <1>1, <1>4, AllocateFrame
  <1> QED BY <1>3, <1>4, <1>5

(* The sectors of a new file.                                              *)
TakenFor(size) == FindAndSet(freeMap, HeaderSize(size) + size)

(* A file that fits gets sectors that were free, all different.            *)
LEMMA TakenProperties ==
    ASSUME DOMAIN disk = Sectors, NEW size \in 1 .. MaxSize, Fits(freeMap, size)
    PROVE  /\ Enough(TakenFor(size), size)
           /\ Range(TakenFor(size)) \cap freeMap = {}
           /\ TakenFor(size)[1] = FindAndSet(freeMap, 1)[1]
           /\ WhichLevel(size) = 3 => Upper3(HeaderTaken(size), TakenFor(size))
           /\ WhichLevel(size) = 4 => Upper4(HeaderTaken(size), TakenFor(size))
  <1> DEFINE free == Cardinality(Sectors \ freeMap)
             H == HeaderSize(size)
             taken == FindAndSet(freeMap, H + size)
             head == FindAndSet(freeMap, H)
  <1>1. H \in Nat \ {0} /\ size \in Nat \ {0} /\ free \in Nat /\ H + size <= free
    BY FreeIsFinite, LeafPlacesProperties DEF Fits
  <1> HIDE DEF H, free
  <1>2. /\ H + size \in Nat /\ H <= free /\ 1 \in 1 .. H + size /\ 1 \in 1 .. 1
        /\ \A i \in 1 .. H : i \in 1 .. H + size
    BY <1>1
  <1>3. /\ taken \in [1 .. H + size -> Sectors \ freeMap]
        /\ \A i, j \in 1 .. H + size : taken[i] = taken[j] => i = j
    BY <1>1, <1>2, FindAndSetProperties DEF free
  <1>4. head \in [1 .. H -> Sectors \ freeMap]
    BY <1>1, <1>2, FindAndSetProperties DEF free
  <1>5. \A i \in 1 .. H : head[i] = taken[i]
    BY <1>1, <1>2, FindAndSetPrefix
  <1>6. taken[1] = FindAndSet(freeMap, 1)[1]
    BY <1>2, FindAndSetPrefix
  <1>7. HeaderTaken(size) = AllocateHDR(disk, head, size)
    BY <1>2 DEF HeaderTaken, H, free
  <1>8. taken = TakenFor(size)
    BY DEF TakenFor, H
  <1> HIDE DEF taken, head
  <1>9. Enough(taken, size)
    BY <1>3 DEF Enough, H
  <1>10. Range(taken) \cap freeMap = {}
    BY <1>3 DEF Range
  <1>11. /\ WhichLevel(size) = 3 => Upper3(AllocateHDR(disk, head, size), taken)
         /\ WhichLevel(size) = 4 => Upper4(AllocateHDR(disk, head, size), taken)
    <2>1. head \in [1 .. HeaderSize(size) -> Sectors] /\ \A i \in 1 .. HeaderSize(size) : head[i] = taken[i]
      BY <1>4, <1>5 DEF H
    <2> QED BY <1>9, <2>1, AllocateWhole
  <1> QED BY <1>6, <1>7, <1>8, <1>9, <1>10, <1>11

(* A Create that fails has written to free sectors at most.                *)
LEMMA CreateFailsInv ==
    ASSUME Inv, outcome = "ok", NEW path \in Walkable, NEW size \in 1 .. MaxSize, CreateFails(path, size)
    PROVE  Inv'
  <1>1. Sound(disk) /\ MapIsExact /\ DOMAIN disk = Sectors
    BY DEF Inv, Sound
  <1>2. /\ disk' = disk \/ disk' = HeaderTaken(size)
        /\ freeMap' = freeMap /\ lost' = lost /\ outcome' = outcome
    BY DEF CreateFails
  <1>3. CASE disk' = disk
    BY <1>1, <1>2, <1>3 DEF Inv, MapIsExact
  <1>4. CASE disk' = HeaderTaken(size)
    <2> DEFINE new == HeaderTaken(size)
    <2>1. DOMAIN new = Sectors /\ \A s \in Sectors \cap freeMap : new[s] = disk[s]
      BY <1>1, HeaderTakenFrame
    <2>2. SystemSectors \cup Held(disk) \subseteq Sectors \cap freeMap
      <3>1. Held(disk) \subseteq Sectors
        BY <1>1, HeldProperties DEF Sound, ItemsAreFiles, File
      <3> QED BY <1>1, <3>1, RootInSystem DEF MapIsExact
    <2>3. Sound(new) /\ Held(new) = Held(disk)
      BY <1>1, <2>1, <2>2, SameOutside
    <2> QED BY <1>1, <1>2, <1>4, <2>3 DEF Inv, MapIsExact
  <1> QED BY <1>2, <1>3, <1>4

(* The disks that Create writes one after the other.                       *)
Made(d, size) == WriteHeader(d, TakenFor(size), size)
Added(path, size, isDir) ==
    Add(Table(disk, PathParse(path)), Entry(Last(path), TakenFor(size)[1], isDir))
WithEntry(d, path, size, isDir) == Write(Made(d, size), Blocks(disk, PathParse(path)), Added(path, size, isDir))

(* What Create leaves, at the end and when it stops.                       *)
LEMMA StagesOfCreate ==
    ASSUME NEW d, NEW path, NEW size, NEW isDir
    PROVE  LET stages == CreateStages(d, path, size, isDir)
               named == WithEntry(d, path, size, isDir)
           IN  /\ stages[1].disk = d
               /\ Last(stages).disk = named
               /\ Completes(stages) => disk' = named /\ freeMap' = freeMap \cup Range(TakenFor(size))
               /\ StopsIn(stages) => /\ disk' \in {d, WriteHeaderSector(d, TakenFor(size), size), Made(d, size), named}
                                     /\ freeMap' = freeMap /\ outcome' = "stopped" /\ lost' = lost
  <1> DEFINE taken == TakenFor(size)
             second == WriteHeaderSector(d, taken, size)
             made == Made(d, size)
             named == WithEntry(d, path, size, isDir)
             map == freeMap \cup Range(taken)
             stages == << Stage(d, freeMap), Stage(second, freeMap), Stage(made, freeMap),
                          Stage(named, freeMap), Stage(named, map) >>
  <1>1. CreateStages(d, path, size, isDir) = stages
    BY DEF CreateStages, Made, Added, WithEntry, TakenFor, Taken
  <1> HIDE DEF second, made, named, map, taken
  <1>2. /\ Len(stages) = 5 /\ stages[1] = Stage(d, freeMap) /\ stages[2] = Stage(second, freeMap)
        /\ stages[3] = Stage(made, freeMap) /\ stages[4] = Stage(named, freeMap) /\ stages[5] = Stage(named, map)
    OBVIOUS
  <1> HIDE DEF stages
  <1>3. \A x, m : Stage(x, m).disk = x /\ Stage(x, m).map = m
    BY DEF Stage
  <1>4. Last(stages) = Stage(named, map)
    BY <1>2 DEF Last
  <1>5. Completes(stages) => disk' = named /\ freeMap' = map
    BY <1>3, <1>4 DEF Completes
  <1>6. ASSUME StopsIn(stages)
        PROVE  /\ disk' \in {d, second, made, named}
               /\ freeMap' = freeMap /\ outcome' = "stopped" /\ lost' = lost
    <2>1. PICK i \in 1 .. Len(stages) - 1 : disk' = stages[i].disk /\ freeMap' = stages[i].map
      BY <1>6 DEF StopsIn
    <2>2. i = 1 \/ i = 2 \/ i = 3 \/ i = 4
      BY <1>2, <2>1
    <2>3. /\ stages[i].disk \in {d, second, made, named} /\ stages[i].map = freeMap
      BY <1>2, <1>3, <2>2
    <2> QED BY <1>6, <2>1, <2>3 DEF StopsIn
  <1> QED BY <1>1, <1>2, <1>3, <1>4, <1>5, <1>6 DEF second, made, named, map, taken

(* What Create leaves on the disk, wherever it stops.                      *)
LEMMA CreateWhole ==
    ASSUME Sound(disk), MapIsExact, outcome = "ok",
           NEW path \in Walkable, PathParse(path) # NONE,
           NEW size \in 1 .. MaxSize, CanCreate(path, size),
           NEW isDir \in BOOLEAN,
           NEW d, DOMAIN d = Sectors, \A s \in Sectors \cap freeMap : d[s] = disk[s],
           WhichLevel(size) = 3 => Upper3(d, TakenFor(size)),
           WhichLevel(size) = 4 => Upper4(d, TakenFor(size)),
           isDir => /\ size = NumDirEntries
                    /\ InUse(WithEntry(d, path, size, isDir), TakenFor(size)[1]) = {}
    PROVE  /\ Completes(CreateStages(d, path, size, isDir)) /\ lost' = lost /\ outcome' = "ok" => Inv'
           /\ StopsIn(CreateStages(d, path, size, isDir)) => Inv'
  <1> DEFINE p == PathParse(path)
             taken == TakenFor(size)
             h == taken[1]
             second == WriteHeaderSector(d, taken, size)
             made == Made(d, size)
             added == Added(path, size, isDir)
             e == Entry(Last(path), h, isDir)
             named == WithEntry(d, path, size, isDir)
             inUse == SystemSectors \cup Held(disk)
  <1>1. p \in Parents(disk)
    BY PathParseProperties
  <1>2. /\ Fits(freeMap, size) /\ ~Full(Table(disk, p))
        /\ Find(disk, p, Last(path)) = NONE
    BY DEF CanCreate
  <1>3. DOMAIN disk = Sectors
    BY DEF Sound
  <1>4. /\ Enough(taken, size)
        /\ Range(taken) \cap freeMap = {}
    BY <1>2, <1>3, TakenProperties
  <1>5. inUse \subseteq Sectors \cap freeMap /\ inUse \cap Range(taken) = {}
    <2>1. Held(disk) \subseteq Sectors
      BY HeldProperties DEF Sound, ItemsAreFiles, File
    <2> QED BY <1>4, <2>1, RootInSystem DEF MapIsExact
  <1>6. taken[1] \in Range(taken)
    <2>1. 1 \in DOMAIN taken
      BY <1>4, LeafPlacesProperties DEF Enough
    <2> QED BY <2>1 DEF Range
  <1>7. /\ DOMAIN made = Sectors
        /\ \A s \in Sectors \ Range(taken) : made[s] = d[s]
        /\ File(made, h)
        /\ Extent(made, h) = Range(taken)
        /\ made[h].size = size
    BY <1>4, NewFile DEF Made
  <1>8. DOMAIN second = Sectors /\ \A s \in Sectors \ Range(taken) : second[s] = d[s]
    <2>1. second = Write(d, << h >>, << HeaderOf(taken, size) >>)
      BY DEF WriteHeaderSector
    <2>2. /\ DOMAIN Write(d, << h >>, << HeaderOf(taken, size) >>) = DOMAIN d
          /\ \A s \in DOMAIN d : (\A i \in DOMAIN << h >> : << h >>[i] # s)
                                   => Write(d, << h >>, << HeaderOf(taken, size) >>)[s] = d[s]
      BY WriteProperties
    <2>3. \A s \in Sectors \ Range(taken) : \A i \in DOMAIN << h >> : << h >>[i] # s
      BY <1>6
    <2> QED BY <2>1, <2>2, <2>3
  <1> HIDE DEF taken, second, made, added, e, named, inUse, p
  (* The disks before the entry is written differ in free sectors alone. *)
  <1>9. \A x \in {d, second, made} : DOMAIN x = Sectors /\ \A s \in inUse : x[s] = disk[s]
    BY <1>5, <1>7, <1>8
  <1>10. \A x \in {d, second, made} :
             /\ Sound(x) /\ Parents(x) = Parents(disk) /\ Held(x) = Held(disk)
             /\ Table(x, p) = Table(disk, p) /\ Blocks(x, p) = Blocks(disk, p)
    BY <1>1, <1>9, SameOutside DEF inUse
  <1>11. /\ e.kind = "entry" /\ e.sector = h /\ e.name = Last(path) /\ e.isDir = isDir
    BY DEF Entry, e
  <1>12. /\ IsTable(added)
         /\ \E k \in 1 .. NumDirEntries : /\ Table(disk, p)[k].kind # "entry"
                                          /\ added[k] = e
                                          /\ \A i \in 1 .. NumDirEntries : i # k => added[i] = Table(disk, p)[i]
    <2>1. added = Add(Table(disk, p), e)
      BY DEF added, Added, e, taken, p
    <2>2. IsTable(Table(disk, p))
      BY TableIsTable
    <2> QED BY <1>2, <2>1, <2>2, AddProperties
  <1>13. PICK k \in 1 .. NumDirEntries : /\ Table(disk, p)[k].kind # "entry"
                                         /\ added[k] = e
                                         /\ \A i \in 1 .. NumDirEntries : i # k => added[i] = Table(disk, p)[i]
    BY <1>12
  <1>14. named = Write(made, Blocks(made, p), added)
    BY <1>10 DEF named, WithEntry, made, added, p
  <1>15. /\ k \notin InUse(made, p)
         /\ \A i \in 1 .. NumDirEntries : i # k => added[i] = Item(made, p, i)
         /\ \A i \in InUse(made, p) : Item(made, p, i).name # e.name
    <2>1. \A i : Item(made, p, i) = Table(disk, p)[i]
      BY <1>10 DEF Item
    <2>2. \A i : i \in InUse(made, p) <=> i \in InUse(disk, p)
      BY <1>10 DEF InUse
    <2>3. \A i \in InUse(disk, p) : Table(disk, p)[i].name # Last(path)
      BY <1>1, <1>2, FindProperties DEF Item
    <2>4. k \notin InUse(made, p)
      BY <1>13, <2>1, TableProperties
    <2> QED BY <1>11, <1>13, <2>1, <2>2, <2>3, <2>4
  <1>16. Extent(made, e.sector) \cap (SystemSectors \cup Held(made)) = {}
    BY <1>5, <1>7, <1>10, <1>11 DEF inUse
  <1>17. e.isDir => Dir(made, e.sector) /\ InUse(Write(made, Blocks(made, p), added), e.sector) = {}
    <2>1. isDir => InUse(named, h) = {}
      BY DEF named, taken
    <2> QED BY <1>7, <1>11, <1>14, <2>1 DEF Dir
  <1>18. Sound(named) /\ Held(named) = Held(disk) \cup Range(taken)
    <2>1. Sound(made) /\ p \in Parents(made) /\ File(made, e.sector)
      BY <1>1, <1>7, <1>10, <1>11
    <2>2. /\ Sound(Write(made, Blocks(made, p), added))
          /\ Held(Write(made, Blocks(made, p), added)) = Held(made) \cup Extent(made, e.sector)
      BY <1>11, <1>12, <1>13, <1>15, <1>16, <1>17, <2>1, AddItem
    <2> QED BY <1>7, <1>10, <1>11, <1>14, <2>2
  <1>19. ASSUME Completes(CreateStages(d, path, size, isDir)), lost' = lost, outcome' = "ok"
         PROVE  Inv'
    <2>1. disk' = named /\ freeMap' = freeMap \cup Range(taken)
      BY <1>19, StagesOfCreate DEF named, taken
    <2>2. lost \cap Range(taken) = {}
      BY <1>4 DEF MapIsExact
    <2> QED BY <1>18, <1>19, <2>1, <2>2 DEF Inv, MapIsExact
  <1>20. ASSUME StopsIn(CreateStages(d, path, size, isDir))
         PROVE  Inv'
    <2>1. /\ disk' \in {d, second, made, named}
          /\ freeMap' = freeMap /\ outcome' = "stopped" /\ lost' = lost
      BY <1>20, StagesOfCreate DEF named, taken, second, made
    <2>2. Sound(disk') /\ Held(disk) \subseteq Held(disk')
      BY <1>10, <1>18, <2>1
    <2> QED BY <2>1, <2>2 DEF Inv, MapIsExact
  <1> QED BY <1>19, <1>20

(* Create of a file keeps the invariant.                                   *)
LEMMA CreateFileInv ==
    ASSUME Inv, outcome = "ok", NEW path \in Walkable, NEW size \in FileSizes, CreateFile(path, size)
    PROVE  Inv'
  <1>1. Sound(disk) /\ MapIsExact /\ DOMAIN disk = Sectors
    BY DEF Inv, Sound
  <1>2. size \in 1 .. MaxSize
    BY SizesAssumption DEF MaxSize
  <1>3. CASE PathParse(path) = NONE /\ Aborts /\ UNCHANGED lost
    BY <1>3, AbortsInv
  <1>4. CASE CreateFails(path, size)
    BY <1>2, <1>4, CreateFailsInv
  <1>5. CASE /\ PathParse(path) # NONE /\ CanCreate(path, size)
             /\ LET stages == CreateStages(HeaderTaken(size), path, size, FALSE)
                IN  \/ Completes(stages) /\ UNCHANGED << lost, outcome >>
                    \/ StopsIn(stages)
    <2> DEFINE d == HeaderTaken(size)
    <2>1. Fits(freeMap, size)
      BY <1>5 DEF CanCreate
    <2>2. DOMAIN d = Sectors /\ \A s \in Sectors \cap freeMap : d[s] = disk[s]
      BY <1>1, <1>2, HeaderTakenFrame
    <2>3. /\ WhichLevel(size) = 3 => Upper3(d, TakenFor(size))
          /\ WhichLevel(size) = 4 => Upper4(d, TakenFor(size))
      BY <1>1, <1>2, <2>1, TakenProperties
    <2>4. \/ Completes(CreateStages(d, path, size, FALSE)) /\ lost' = lost /\ outcome' = "ok"
          \/ StopsIn(CreateStages(d, path, size, FALSE))
      BY <1>5
    <2> HIDE DEF d
    <2> QED BY <1>1, <1>2, <1>5, <2>2, <2>3, <2>4, CreateWhole
  <1> QED BY <1>3, <1>4, <1>5 DEF CreateFile

(* The empty table is written to sectors of the disk.                      *)
LEMMA InitializedFrame ==
    ASSUME NEW d, NEW s
    PROVE  DOMAIN Initialized(d, s) = DOMAIN d
  BY WriteProperties DEF Initialized

(* Create of a directory keeps the invariant, when its result is a disk    *)
(* that can be understood.                                                 *)
LEMMA CreateDirectoryInv ==
    ASSUME Inv, outcome = "ok", NEW path \in Walkable, CreateDirectory(path)
    PROVE  Inv'
  <1> DEFINE size == NumDirEntries
             s == FindAndSet(freeMap, 1)[1]
             base == HeaderTaken(size)
             d == Initialized(base, s)
             found == IF base[s].kind = "blank" \/ Readable(base, s) THEN "ok" ELSE "garbled"
             stages == CreateStages(d, path, size, TRUE)
             table == Table(Last(stages).disk, s)
             kinds == {table[i].kind : i \in DOMAIN table}
             result == IF found = "garbled" THEN "garbled"
                       ELSE IF \E o \in freeMap : stages[1].disk[o] # disk[o] THEN "overwrote"
                       ELSE IF kinds \subseteq {"blank", "unused"} THEN "ok"
                       ELSE IF kinds \subseteq {"blank", "unused", "entry"} THEN "stale"
                       ELSE "garbled"
  <1>1. Sound(disk) /\ MapIsExact /\ DOMAIN disk = Sectors
    BY DEF Inv, Sound
  <1>2. size \in 1 .. MaxSize /\ WhichLevel(size) # 3 /\ WhichLevel(size) # 4
    BY DirectorySize
  <1>3. CASE PathParse(path) = NONE /\ Aborts /\ UNCHANGED lost
    BY <1>3, AbortsInv
  <1>4. CASE CreateFails(path, size)
    BY <1>2, <1>4, CreateFailsInv
  <1>5. ASSUME result = "ok"
        PROVE  /\ \A o \in freeMap : stages[1].disk[o] = disk[o]
               /\ kinds \subseteq {"blank", "unused"}
    <2> HIDE DEF found, kinds, stages
    <2> QED BY <1>5
  <1>6. result # "stopped"
    <2> HIDE DEF found, kinds, stages
    <2> QED OBVIOUS
  <1>7. DOMAIN base = Sectors
    BY <1>1, <1>2, HeaderTakenFrame
  <1>8. DOMAIN d = Sectors
    BY <1>7, InitializedFrame
  <1>9. ASSUME PathParse(path) # NONE, CanCreate(path, size), result = "ok",
               (Completes(stages) /\ lost' = lost /\ outcome' = "ok") \/ StopsIn(stages)
        PROVE  Inv'
    <2>1. Fits(freeMap, size)
      BY <1>9 DEF CanCreate
    <2>2. s = TakenFor(size)[1]
      BY <1>1, <1>2, <2>1, TakenProperties
    <2> HIDE DEF d, s, base, result
    <2>3. stages[1].disk = d /\ Last(stages).disk = WithEntry(d, path, size, TRUE)
      <3>1. /\ CreateStages(d, path, size, TRUE)[1].disk = d
            /\ Last(CreateStages(d, path, size, TRUE)).disk = WithEntry(d, path, size, TRUE)
        <4>1. ASSUME NEW b
              PROVE  /\ CreateStages(d, path, size, b)[1].disk = d
                     /\ Last(CreateStages(d, path, size, b)).disk = WithEntry(d, path, size, b)
          BY StagesOfCreate
        <4> QED BY <4>1, Zenon
      <3> QED BY <3>1 DEF stages
    <2>4. \A o \in Sectors \cap freeMap : d[o] = disk[o]
      BY <1>5, <1>9, <2>3
    <2>5. InUse(WithEntry(d, path, size, TRUE), s) = {}
      <3>1. \A i \in DOMAIN table : table[i].kind \in {"blank", "unused"}
        BY <1>5, <1>9
      <3>2. \A i \in DOMAIN table : table[i].kind # "entry"
        BY <3>1
      <3>3. table = Table(WithEntry(d, path, size, TRUE), s)
        BY <2>3
      <3> QED BY <3>2, <3>3 DEF InUse
    <2> HIDE DEF size
    <2> QED BY <1>1, <1>2, <1>8, <1>9, <2>2, <2>4, <2>5, CreateWhole DEF size
  <1>10. CASE /\ PathParse(path) # NONE /\ CanCreate(path, size)
              /\ \/ result = "ok" /\ Completes(stages)
                 \/ result # "ok" /\ UNCHANGED << disk, freeMap >>
              /\ outcome' = result
              /\ UNCHANGED lost
    <2> HIDE DEF result, stages
    <2>1. CASE result = "ok"
      BY <1>9, <1>10, <2>1
    <2>2. CASE result # "ok"
      <3>1. outcome' # "ok" /\ outcome' # "stopped"
        BY <1>6, <1>10, <2>2
      <3> QED BY <3>1 DEF Inv
    <2> QED BY <2>1, <2>2
  <1>11. CASE /\ PathParse(path) # NONE /\ CanCreate(path, size)
              /\ result = "ok" /\ StopsIn(stages)
    <2> HIDE DEF result, stages
    <2> QED BY <1>9, <1>11
  <1> QED BY <1>3, <1>4, <1>10, <1>11 DEF CreateDirectory

-----------------------------------------------------------------------------

(* Every step keeps the invariant.                                         *)
LEMMA NextInv == Inv /\ [Next]_vars => Inv'
  <1> SUFFICES ASSUME Inv, [Next]_vars PROVE Inv'
    OBVIOUS
  <1>1. CASE UNCHANGED vars
    BY <1>1 DEF vars, Inv, MapIsExact
  <1>2. CASE Halted
    BY <1>1, <1>2 DEF Halted
  <1>3. ASSUME outcome = "ok", Format PROVE Inv'
    BY <1>3, FormatInv
  <1>4. ASSUME outcome = "ok", RecursiveRemoveRoot PROVE Inv'
    BY <1>4, RecursiveRemoveRootInv
  <1>5. ASSUME outcome = "ok", NEW p \in Walkable, NEW n \in FileSizes, CreateFile(p, n) PROVE Inv'
    BY <1>5, CreateFileInv
  <1>6. ASSUME outcome = "ok", NEW p \in Walkable, CreateDirectory(p) PROVE Inv'
    BY <1>6, CreateDirectoryInv
  <1>7. ASSUME outcome = "ok", NEW p \in Walkable, RemovePath(p) PROVE Inv'
    BY <1>7, RemovePathInv
  <1>8. ASSUME outcome = "ok", NEW p \in Walkable, RecursiveRemove(p) PROVE Inv'
    BY <1>8, RecursiveRemoveInv
  <1>9. ASSUME outcome = "ok", NEW p \in Walkable, WriteFile(p) PROVE Inv'
    BY <1>9, WriteFileInv
  <1> QED BY <1>1, <1>2, <1>3, <1>4, <1>5, <1>6, <1>7, <1>8, <1>9 DEF Next

(* Whatever is created, removed and written: the tree of directories is    *)
(* sound and the bitmap exact; where NachOS stops, the tree is sound and   *)
(* no sector is marked that nothing leads to.                              *)
THEOREM FileSysInvariant == Spec => []Inv
  <1> QED BY InitInv, NextInv, PTL DEF Spec

-----------------------------------------------------------------------------

(* What is reached from the root are the entries of the directories that   *)
(* can hold something.                                                     *)
LEMMA ReachedProperties ==
    ASSUME Sound(disk)
    PROVE  /\ \A h : h \in Headers <=> \E p \in Parents(disk) : \E i \in InUse(disk, p) : h = SectorAt(disk, p, i)
           /\ \A q \in Directories : \/ q \in Parents(disk)
                                     \/ InUse(disk, q) = {}
  <1>1. \A e : e \in Reached <=> \E p \in Parents(disk) : \E i \in InUse(disk, p) : e = Item(disk, p, i)
    BY BelowRoot DEF Reached
  <1>2. ASSUME NEW h
        PROVE  h \in Headers <=> \E p \in Parents(disk) : \E i \in InUse(disk, p) : h = SectorAt(disk, p, i)
    <2>1. h \in Headers <=> \E e \in Reached : h = e.sector
      BY DEF Headers
    <2> QED BY <1>1, <2>1 DEF SectorAt
  <1>3. ASSUME NEW q \in Directories
        PROVE  q \in Parents(disk) \/ InUse(disk, q) = {}
    <2>1. CASE q = DirectorySector
      BY <2>1, ParentsProperties
    <2>2. CASE q # DirectorySector
      <3>1. PICK e \in Reached : e.isDir /\ q = e.sector
        BY <2>2 DEF Directories
      <3>2. PICK p, i : p \in Parents(disk) /\ i \in InUse(disk, p) /\ e = Item(disk, p, i)
        BY <1>1, <3>1
      <3>3. CASE p = DirectorySector
        BY <3>1, <3>2, <3>3, ParentsProperties DEF SectorAt
      <3>4. CASE p # DirectorySector
        BY <3>1, <3>2, <3>4 DEF Sound, LowestAreEmpty, SectorAt
      <3> QED BY <3>3, <3>4
    <2> QED BY <2>1, <2>2
  <1> QED BY <1>2, <1>3

(* Files are whole and apart from each other.                              *)
LEMMA HeadersAreWhole ==
    ASSUME Sound(disk)
    PROVE  /\ \A h \in Headers : Readable(disk, h) /\ Extent(disk, h) \cap SystemSectors = {}
           /\ \A h, k \in Headers : h # k => Extent(disk, h) \cap Extent(disk, k) = {}
  <1>1. \A h \in Headers : Readable(disk, h) /\ Extent(disk, h) \cap SystemSectors = {}
    BY ReachedProperties DEF Sound, ItemsAreFiles, File
  <1>2. ASSUME NEW h \in Headers, NEW k \in Headers, h # k
        PROVE  Extent(disk, h) \cap Extent(disk, k) = {}
    <2>1. PICK p, i : p \in Parents(disk) /\ i \in InUse(disk, p) /\ h = SectorAt(disk, p, i)
      BY ReachedProperties
    <2>2. PICK q, j : q \in Parents(disk) /\ j \in InUse(disk, q) /\ k = SectorAt(disk, q, j)
      BY ReachedProperties
    <2>3. p # q \/ i # j
      BY <1>2, <2>1, <2>2
    <2> QED BY <2>1, <2>2, <2>3 DEF Sound, ExtentsAreDisjoint
  <1> QED BY <1>1, <1>2

(* No two files have a sector in common, none has one of the system's, and *)
(* no two entries lead to the same file.                                   *)
THEOREM FileSysNothingShared == Spec => []NothingShared
  <1>1. Inv => NothingShared
    <2> SUFFICES ASSUME Inv, outcome = "ok" PROVE
            /\ \A h \in Headers : Readable(disk, h) /\ Extent(disk, h) \cap SystemSectors = {}
            /\ \A h, k \in Headers : h # k => Extent(disk, h) \cap Extent(disk, k) = {}
            /\ \A p, q \in Places :
                  Table(disk, p[1])[p[2]].sector = Table(disk, q[1])[q[2]].sector => p = q
      BY DEF NothingShared
    <2>1. Sound(disk)
      BY DEF Inv
    <2>2. ASSUME NEW p \in Places, NEW q \in Places,
                 Table(disk, p[1])[p[2]].sector = Table(disk, q[1])[q[2]].sector
          PROVE  p = q
      <3>1. /\ p \in Directories \X (1 .. NumDirEntries) /\ p[2] \in InUse(disk, p[1])
            /\ q \in Directories \X (1 .. NumDirEntries) /\ q[2] \in InUse(disk, q[1])
        BY DEF Places
      <3>2. p[1] \in Parents(disk) /\ q[1] \in Parents(disk)
        BY <2>1, <3>1, ReachedProperties
      <3>3. SectorAt(disk, p[1], p[2]) = SectorAt(disk, q[1], q[2])
        BY <2>2 DEF SectorAt, Item
      <3>4. p[1] = q[1] /\ p[2] = q[2]
        BY <2>1, <3>1, <3>2, <3>3, ItemsApart
      <3> QED BY <3>1, <3>4
    <2> QED BY <2>1, <2>2, HeadersAreWhole
  <1> QED BY <1>1, FileSysInvariant, PTL

(* The bitmap marks the sectors that can be reached, and those that Remove *)
(* of a directory has lost: an operation that returns leaks no other, and  *)
(* marks none as free that is in use.                                      *)
THEOREM FileSysBitmapIsExact == Spec => []BitmapIsExact
  <1>1. Inv => BitmapIsExact
    BY BelowRoot DEF Inv, MapIsExact, BitmapIsExact
  <1> QED BY <1>1, FileSysInvariant, PTL

(* No two entries of a directory have the same name.                       *)
THEOREM FileSysNamesAreUnique == Spec => []NamesAreUnique
  <1>1. Inv => NamesAreUnique
    BY ReachedProperties DEF Inv, NamesAreUnique, Sound, ItemsHaveNames, Item
  <1> QED BY <1>1, FileSysInvariant, PTL

(* After a stop between any two writes, every sector that is marked as     *)
(* used can be reached or was lost before.                                 *)
THEOREM FileSysStopLosesNoSpace == Spec => []StopLosesNoSpace
  <1>1. Inv => StopLosesNoSpace
    BY BelowRoot DEF Inv, StopLosesNoSpace
  <1> QED BY <1>1, FileSysInvariant, PTL

(* After a stop between any two writes, every entry leads to a header that *)
(* is whole, of a file that has its sectors for itself.                    *)
THEOREM FileSysStopLeavesHeaders == Spec => []StopLeavesHeaders
  <1>1. Inv => StopLeavesHeaders
    BY HeadersAreWhole DEF Inv, StopLeavesHeaders
  <1> QED BY <1>1, FileSysInvariant, PTL

-----------------------------------------------------------------------------
(* The table of open files: what is right of it as long as nobody is given *)
(* the index -1, and of the other indexes even then.                       *)

USE EntriesAssumption, NULLAssumption

(* FindFreeEntry returns an entry that is free, or -1.                     *)
LEMMA FindFreeEntryProperties ==
    ASSUME NEW count, FindFreeEntry(count) # -1
    PROVE  FindFreeEntry(count) \in Indexes \ OpenEntries
<1> DEFINE IsFirst(i) == /\ openFileTable[i] = NULL
                         /\ \A j \in Indexes : openFileTable[j] = NULL => i <= j
           free == Indexes \ OpenEntries
<1>1. FindFreeEntry(count) = CHOOSE i \in Indexes : IsFirst(i)
  BY DEF FindFreeEntry
<1>2. free # {} /\ free \in SUBSET Nat
  BY DEF FindFreeEntry, OpenEntries, Indexes
<1>3. PICK i \in free : \A j \in free : i <= j
  BY <1>2, MinExists
<1>4. i \in Indexes /\ IsFirst(i)
  BY <1>3 DEF OpenEntries
<1> HIDE DEF IsFirst
<1>5. FindFreeEntry(count) \in Indexes /\ IsFirst(FindFreeEntry(count))
  BY <1>1, <1>4
<1>6. QED
  BY <1>5 DEF IsFirst, OpenEntries

LEMMA InitTypeOK == TableInit => TypeOK
<1>1. TableInit => crashed \in BOOLEAN
  BY DEF TableInit
<1>2. TableInit => fds \in [Threads -> SUBSET [fd : Indexes \cup {-1}, file : Files]]
  BY DEF TableInit
<1>3. TableInit => opening \in [Threads -> Files \cup {NULL}] /\ openFileCount \in Nat
  BY DEF TableInit
<1>4. TableInit => openFileTable \in [Indexes -> Files \cup {NULL}]
  BY DEF TableInit
<1>5. QED
  BY <1>1, <1>2, <1>3, <1>4 DEF TableInit, TypeOK

LEMMA NextTypeOK == TypeOK /\ [TableNext]_tableVars => TypeOK'
<1> SUFFICES ASSUME TypeOK, [TableNext]_tableVars PROVE TypeOK'
  OBVIOUS
<1>1. CASE UNCHANGED tableVars
  BY <1>1 DEF TypeOK, tableVars
<1>2. ASSUME NEW t \in Threads, NEW f \in Files, OpenFull(t, f)
      PROVE  TypeOK'
  BY <1>2 DEF TypeOK, OpenFull, Told
<1>3. ASSUME NEW t \in Threads, NEW f \in Files, OpenBegin(t, f)
      PROVE  TypeOK'
  <2>1. opening' \in [Threads -> Files \cup {NULL}]
    BY <1>3 DEF TypeOK, OpenBegin
  <2>2. crashed' \in BOOLEAN
    BY <1>3 DEF TypeOK, OpenBegin
  <2>3. QED
    BY <1>3, <2>1, <2>2 DEF TypeOK, OpenBegin
<1>4. ASSUME NEW t \in Threads, OpenNotFound(t)
      PROVE  TypeOK'
  BY <1>4 DEF TypeOK, OpenNotFound, Told
<1>5. ASSUME NEW t \in Threads, OpenFound(t)
      PROVE  TypeOK'
  <2> DEFINE index == FindFreeEntry(openFileCount + 1)
  <2>1. index \in Indexes \cup {-1}
    BY FindFreeEntryProperties
  <2>2. opening[t] \in Files
    BY <1>5 DEF TypeOK, OpenFound
  <2>3. fds' = [fds EXCEPT ![t] = @ \cup {[fd |-> index, file |-> opening[t]]}]
    BY <1>5 DEF OpenFound, Told
  <2> HIDE DEF index
  <2>4. fds' \in [Threads -> SUBSET [fd : Indexes \cup {-1}, file : Files]]
    BY <2>1, <2>2, <2>3 DEF TypeOK
  <2>5. openFileTable' \in [Indexes -> Files \cup {NULL}]
        /\ directoryFile' \in Files \cup {Root, NULL}
    BY <1>5, <2>2 DEF TypeOK, OpenFound
  <2>6. opening' \in [Threads -> Files \cup {NULL}] /\ openFileCount' \in Nat
    BY <1>5 DEF TypeOK, OpenFound
  <2>7. crashed' \in BOOLEAN
    BY <1>5 DEF TypeOK, OpenFound
  <2>8. QED
    BY <2>4, <2>5, <2>6, <2>7 DEF TypeOK
<1>6. ASSUME NEW t \in Threads, Close(t)
      PROVE  TypeOK'
  <2>1. PICK h \in fds[t] : /\ CloseEntry(h)
                            /\ fds' = [fds EXCEPT ![t] = @ \ {h}]
                            /\ opening' = opening /\ crashed' = crashed
    BY <1>6 DEF Close
  <2>2. fds' \in [Threads -> SUBSET [fd : Indexes \cup {-1}, file : Files]]
    BY <2>1 DEF TypeOK
  <2>3. openFileCount' \in Nat
    BY <2>1 DEF TypeOK, CloseEntry
  <2>4. openFileTable' \in [Indexes -> Files \cup {NULL}]
    BY <2>1 DEF TypeOK, CloseEntry, Clear
  <2>5. directoryFile' \in Files \cup {Root, NULL}
    BY <2>1 DEF TypeOK, CloseEntry, Clear
  <2>6. crashed' \in BOOLEAN
    BY <2>1 DEF TypeOK
  <2>7. QED
    BY <2>1, <2>2, <2>3, <2>4, <2>5, <2>6 DEF TypeOK
<1>7. QED
  BY <1>1, <1>2, <1>3, <1>4, <1>5, <1>6 DEF TableNext

(* Every variable keeps its type. *)
THEOREM OpenFileTableTyping == TableSpec => []TypeOK
  BY InitTypeOK, NextTypeOK, PTL DEF TableSpec

-----------------------------------------------------------------------------
(* The count.  It is wrong only once directoryFile is, and that is never   *)
(* the root directory again.                                               *)

LEMMA EntriesAreFinite == IsFiniteSet(Indexes) /\ IsFiniteSet(OpenEntries)
<1>1. IsFiniteSet(Indexes)
  BY FS_Interval DEF Indexes
<1>2. QED
  BY <1>1, FS_Subset DEF OpenEntries

LEMMA NextCount == TypeOK /\ CountIsExact /\ [TableNext]_tableVars => CountIsExact'
<1> SUFFICES ASSUME TypeOK, CountIsExact, [TableNext]_tableVars, directoryFile' = Root
             PROVE  openFileCount' = Cardinality(OpenEntries')
  BY DEF CountIsExact
<1>1. CASE UNCHANGED << openFileTable, openFileCount, directoryFile >>
  BY <1>1 DEF CountIsExact, OpenEntries
<1>2. ASSUME NEW t \in Threads, OpenFound(t)
      PROVE  openFileCount' = Cardinality(OpenEntries')
  <2> DEFINE index == FindFreeEntry(openFileCount + 1)
  <2>1. opening[t] \in Files /\ opening[t] # Root /\ opening[t] # NULL
    BY <1>2 DEF TypeOK, OpenFound
  <2>2. index # -1
    BY <1>2, <2>1 DEF OpenFound
  <2>3. /\ openFileTable' = [openFileTable EXCEPT ![index] = opening[t]]
        /\ directoryFile' = directoryFile /\ openFileCount' = openFileCount + 1
    BY <1>2, <2>2 DEF OpenFound
  <2>4. index \in Indexes \ OpenEntries
    BY <2>2, FindFreeEntryProperties
  <2> HIDE DEF index
  <2>5. OpenEntries' = OpenEntries \cup {index}
    BY <2>1, <2>3, <2>4 DEF TypeOK, OpenEntries
  <2>6. Cardinality(OpenEntries \cup {index}) = Cardinality(OpenEntries) + 1
    BY <2>4, EntriesAreFinite, FS_AddElement
  <2>7. QED
    BY <2>3, <2>5, <2>6 DEF CountIsExact
<1>3. ASSUME NEW t \in Threads, Close(t)
      PROVE  openFileCount' = Cardinality(OpenEntries')
  <2>1. PICK h \in fds[t] : CloseEntry(h)
    BY <1>3 DEF Close
  <2>2. h.fd \in Indexes \cup {-1}
    BY DEF TypeOK
  <2>3. CASE ~(openFileCount = 0 \/ FileAt(h) = NULL)
    <3>1. Clear(h) /\ openFileCount' = openFileCount - 1 /\ FileAt(h) # NULL
      BY <2>1, <2>3 DEF CloseEntry
    <3>2. h.fd # -1
      BY <3>1 DEF Clear
    <3>3. /\ openFileTable' = [openFileTable EXCEPT ![h.fd] = NULL]
          /\ directoryFile' = directoryFile
          /\ h.fd \in OpenEntries
      BY <2>2, <3>1, <3>2 DEF Clear, FileAt, OpenEntries
    <3>4. OpenEntries' = OpenEntries \ {h.fd}
      BY <2>2, <3>3 DEF TypeOK, OpenEntries
    <3>5. Cardinality(OpenEntries \ {h.fd}) = Cardinality(OpenEntries) - 1
      BY <3>3, EntriesAreFinite, FS_RemoveElement
    <3>6. QED
      BY <3>1, <3>3, <3>4, <3>5 DEF CountIsExact
  <2>4. CASE openFileCount = 0 \/ FileAt(h) = NULL
    BY <1>1, <2>1, <2>4 DEF CloseEntry
  <2>5. QED
    BY <2>3, <2>4
<1>4. QED
  BY <1>1, <1>2, <1>3 DEF TableNext, OpenFull, OpenBegin, OpenNotFound, tableVars

(* Until directoryFile is overwritten the count is that of the open files, *)
(* for every number of programs that open and close at the same time.      *)
THEOREM OpenFileTableCount == TableSpec => []CountIsExact
<1>1. TableInit => CountIsExact
  <2> SUFFICES ASSUME TableInit PROVE CountIsExact
    OBVIOUS
  <2>1. OpenEntries = {}
    BY DEF TableInit, OpenEntries
  <2>2. QED
    BY <2>1, FS_EmptySet DEF TableInit, CountIsExact
<1>2. QED
  BY <1>1, NextCount, OpenFileTableTyping, PTL DEF TableSpec

-----------------------------------------------------------------------------
(* The ids. *)

LEMMA NextIds == TypeOK /\ IdsAreKept /\ [TableNext]_tableVars => IdsAreKept'
<1> SUFFICES ASSUME TypeOK, IdsAreKept, [TableNext]_tableVars PROVE IdsAreKept'
  OBVIOUS
<1>1. CASE UNCHANGED << openFileTable, fds >>
  BY <1>1 DEF IdsAreKept
<1>2. ASSUME NEW t \in Threads, NEW f, Told(t, -1, f), openFileTable' = openFileTable
      PROVE  IdsAreKept'
  <2>1. \A u \in Threads : \A k \in fds'[u] : k \in fds[u] \/ k.fd = -1
    BY <1>2 DEF TypeOK, Told
  <2>2. QED
    BY <1>2, <2>1 DEF IdsAreKept
<1>3. ASSUME NEW t \in Threads, OpenFound(t)
      PROVE  IdsAreKept'
  <2> DEFINE index == FindFreeEntry(openFileCount + 1)
             h == [fd |-> index, file |-> opening[t]]
  <2>1. Told(t, index, opening[t]) /\ opening[t] \in Files
    BY <1>3 DEF TypeOK, OpenFound
  <2>2. CASE index = -1
    BY <1>2, <1>3, <2>1, <2>2 DEF OpenFound
  <2>3. CASE index # -1
    <3>1. openFileTable' = [openFileTable EXCEPT ![index] = opening[t]]
      BY <1>3, <2>3 DEF OpenFound
    <3>2. index \in Indexes \ OpenEntries
      BY <2>3, FindFreeEntryProperties
    <3>3. h.fd = index /\ h.file = opening[t]
      OBVIOUS
    <3>4. fds' = [fds EXCEPT ![t] = @ \cup {h}]
      BY <2>1 DEF Told
    <3> HIDE DEF index, h
    <3>5. \A u \in Threads : \A k \in fds[u] : k.fd # index
      <4>1. ASSUME NEW u \in Threads, NEW k \in fds[u], k.fd = index
            PROVE  FALSE
        <5>1. openFileTable[index] = k.file /\ k.file \in Files
          BY <2>3, <4>1 DEF TypeOK, IdsAreKept
        <5>2. QED
          BY <3>2, <5>1 DEF OpenEntries
      <4>2. QED
        BY <4>1
    <3>6. \A u \in Threads : \A k \in fds'[u] : k \in fds[u] \/ (u = t /\ k = h)
      BY <3>4 DEF TypeOK
    <3>7. openFileTable'[index] = opening[t]
          /\ \A i \in Indexes \ {index} : openFileTable'[i] = openFileTable[i]
      BY <3>1, <3>2 DEF TypeOK
    <3>8. ASSUME NEW u \in Threads, NEW k \in fds'[u], k.fd # -1
          PROVE  openFileTable'[k.fd] = k.file
      <4>1. CASE k = h
        BY <3>3, <3>7, <4>1
      <4>2. CASE k \in fds[u]
        BY <3>5, <3>7, <3>8, <4>2 DEF TypeOK, IdsAreKept
      <4>3. QED
        BY <3>6, <4>1, <4>2
    <3>9. ASSUME NEW u \in Threads, NEW w \in Threads, NEW k \in fds'[u], NEW l \in fds'[w],
                 k.fd = l.fd, k.fd # -1
          PROVE  u = w /\ k = l
      BY <3>3, <3>5, <3>6, <3>9 DEF IdsAreKept
    <3>10. QED
      BY <3>8, <3>9 DEF IdsAreKept
  <2>4. QED
    BY <2>2, <2>3
<1>4. ASSUME NEW t \in Threads, Close(t)
      PROVE  IdsAreKept'
  <2>1. PICK h \in fds[t] : CloseEntry(h) /\ fds' = [fds EXCEPT ![t] = @ \ {h}]
    BY <1>4 DEF Close
  <2>2. \A u \in Threads : \A k \in fds'[u] : k \in fds[u] /\ (u = t => k # h)
    <3>1. fds'[t] = fds[t] \ {h} /\ \A u \in Threads \ {t} : fds'[u] = fds[u]
      BY <2>1 DEF TypeOK
    <3>2. QED
      BY <3>1
  <2>3. \A i \in Indexes : openFileTable'[i] = openFileTable[i] \/ i = h.fd
    BY <2>1 DEF TypeOK, CloseEntry, Clear
  <2>4. \A u \in Threads : \A k \in fds'[u] : k.fd # -1 => k.fd # h.fd
    BY <2>2 DEF IdsAreKept
  <2>5. \A u \in Threads : \A k \in fds[u] : k.fd # -1 => k.fd \in Indexes
    BY DEF TypeOK
  <2>6. QED
    BY <2>2, <2>3, <2>4, <2>5 DEF IdsAreKept
<1>5. QED
  BY <1>1, <1>2, <1>3, <1>4 DEF TableNext, OpenFull, OpenBegin, OpenNotFound, tableVars

(* An id stays the id of the file it was returned for until it is closed,  *)
(* and no id is given twice, whoever opens and closes meanwhile.           *)
THEOREM OpenFileTableIds == TableSpec => []IdsAreKept
<1>1. TableInit => IdsAreKept
  BY DEF TableInit, IdsAreKept
<1>2. QED
  BY <1>1, NextIds, OpenFileTableTyping, PTL DEF TableSpec
===============================================================================

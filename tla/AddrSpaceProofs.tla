--------------------------- MODULE AddrSpaceProofs ----------------------------
(***************************************************************************)
(* The safety of AddrSpace for every number of programs and frames.        *)
(***************************************************************************)
EXTENDS AddrSpace, SequenceTheorems, TLAPS

USE ThreadsAssumption, UnsetAssumption, SizesAssumption

(* Lemmas on lists of frames: what a list of different frames becomes when *)
(* frames are taken from it or put on it.                                  *)
Members(s) == {s[i] : i \in DOMAIN s}
Different(s) == \A i, j \in DOMAIN s : s[i] = s[j] => i = j

(* A function on 1 .. n is a sequence. *)
LEMMA FunctionIsSeq ==
    ASSUME NEW S, NEW n \in Nat, NEW f \in [1 .. n -> S]
    PROVE  f \in Seq(S)
  BY SeqDef

(* Tail loses the head and nothing else. *)
LEMMA PopProperties ==
    ASSUME NEW F, NEW s \in Seq(F), s # << >>
    PROVE  /\ Head(s) \in F /\ Head(s) \in Members(s)
           /\ Tail(s) \in Seq(F)
           /\ Different(s) => /\ Different(Tail(s))
                              /\ Members(Tail(s)) = Members(s) \ {Head(s)}
<1> DEFINE r == Tail(s)
<1>1. /\ r \in Seq(F) /\ Len(r) = Len(s) - 1
      /\ \A i \in 1 .. Len(r) : r[i] = s[i + 1]
      /\ Head(s) = s[1] /\ Head(s) \in F
  BY HeadTailProperties
<1>2. /\ Len(s) \in Nat \ {0} /\ DOMAIN s = 1 .. Len(s)
      /\ DOMAIN r = 1 .. Len(s) - 1
  BY <1>1, EmptySeq, LenProperties
<1>3. Head(s) \in Members(s)
  BY <1>1, <1>2 DEF Members
<1>4. ASSUME Different(s)
      PROVE  Different(r) /\ Members(r) = Members(s) \ {Head(s)}
  <2>1. Different(r)
    BY <1>1, <1>2, <1>4 DEF Different
  <2>2. ASSUME NEW x \in Members(r)
        PROVE  x \in Members(s) /\ x # Head(s)
    <3>1. PICK i \in DOMAIN r : x = r[i]
      BY <2>2 DEF Members
    <3>2. i + 1 \in DOMAIN s /\ x = s[i + 1] /\ 1 \in DOMAIN s /\ i + 1 # 1
      BY <1>1, <1>2, <3>1
    <3>3. QED
      BY <1>1, <1>4, <3>2 DEF Different, Members
  <2>3. ASSUME NEW x \in Members(s), x # Head(s)
        PROVE  x \in Members(r)
    <3>1. PICK i \in DOMAIN s : x = s[i]
      BY <2>3 DEF Members
    <3>2. i - 1 \in DOMAIN r /\ r[i - 1] = x
      BY <1>1, <1>2, <2>3, <3>1
    <3>3. QED
      BY <3>2 DEF Members
  <2>4. QED
    BY <2>1, <2>2, <2>3
<1>5. QED
  BY <1>1, <1>3, <1>4

(* SubSeq(s, k, Len(s)) is what follows the first k - 1.                   *)
LEMMA SuffixProperties ==
    ASSUME NEW F, NEW s \in Seq(F), NEW n \in Nat, NEW m \in Nat, NEW k \in Nat,
           m = Len(s), n <= m, k = n + 1
    PROVE  /\ SubSeq(s, k, m) \in Seq(F)
           /\ DOMAIN SubSeq(s, k, m) = 1 .. m - n
           /\ \A i \in 1 .. m - n : n + i \in DOMAIN s /\ SubSeq(s, k, m)[i] = s[n + i]
<1>1. DOMAIN s = 1 .. m /\ \A i \in k .. m : s[i] \in F
  BY LenProperties, ElementOfSeq
<1> DEFINE r == SubSeq(s, k, m)
<1> HIDE DEF r
<1>2. /\ r \in Seq(F)
      /\ Len(r) = IF k <= m THEN m - k + 1 ELSE 0
      /\ \A i \in 1 .. m - k + 1 : r[i] = s[k + i - 1]
  BY <1>1, SubSeqProperties DEF r
<1>3. m - k + 1 = m - n /\ (~(k <= m) => m - n = 0)
  OBVIOUS
<1>4. Len(r) = m - n
  BY <1>2, <1>3
<1>5. DOMAIN r = 1 .. m - n
  BY <1>2, <1>4, LenProperties
<1>6. ASSUME NEW i \in 1 .. m - n
      PROVE  n + i \in DOMAIN s /\ r[i] = s[n + i]
  <2>1. k + i - 1 = n + i /\ n + i \in 1 .. m
    OBVIOUS
  <2>2. r[i] = s[k + i - 1]
    BY <1>2, <1>3
  <2>3. QED
    BY <1>1, <2>1, <2>2
<1>7. QED
  BY <1>2, <1>5, <1>6 DEF r

(* What is left after the first n are taken. *)
Taken(s, n) == {s[i] : i \in 1 .. n}

SuffixAt(n, m, s, r) == /\ n <= m /\ DOMAIN s = 1 .. m /\ DOMAIN r = 1 .. m - n
                        /\ \A i \in 1 .. m - n : r[i] = s[n + i]

LEMMA TakeProperties ==
    ASSUME NEW n \in Nat, NEW m \in Nat, NEW s, NEW r, SuffixAt(n, m, s, r), Different(s)
    PROVE  /\ Different(r)
           /\ Members(r) = Members(s) \ Taken(s, n)
           /\ Taken(s, n) \subseteq Members(s)
<1> USE DEF SuffixAt
<1>1. Different(r)
  <2>1. ASSUME NEW i \in DOMAIN r, NEW j \in DOMAIN r, r[i] = r[j]
        PROVE  i = j
    <3>1. n + i \in DOMAIN s /\ n + j \in DOMAIN s
      OBVIOUS
    <3>2. s[n + i] = s[n + j]
      BY <2>1
    <3>3. n + i = n + j
      BY <3>1, <3>2 DEF Different
    <3>4. QED
      BY <3>3
  <2>2. QED
    BY <2>1 DEF Different
<1>2. ASSUME NEW x \in Members(r)
      PROVE  x \in Members(s) /\ x \notin Taken(s, n)
  <2>1. PICK i \in 1 .. m - n : x = s[n + i]
    BY <1>2 DEF Members
  <2>2. n + i \in DOMAIN s /\ \A j \in 1 .. n : j \in DOMAIN s /\ j # n + i
    BY <2>1
  <2>3. \A j \in 1 .. n : s[j] # x
    BY <2>1, <2>2 DEF Different
  <2>4. QED
    BY <2>1, <2>2, <2>3 DEF Members, Taken
<1>3. ASSUME NEW x \in Members(s), x \notin Taken(s, n)
      PROVE  x \in Members(r)
  <2>1. PICK i \in 1 .. m : x = s[i]
    BY <1>3 DEF Members
  <2>2. i > n
    BY <1>3, <2>1 DEF Taken
  <2>3. i - n \in 1 .. m - n /\ n + (i - n) = i
    BY <2>1, <2>2
  <2>4. r[i - n] = x
    BY <2>1, <2>3
  <2>5. QED
    BY <2>3, <2>4 DEF Members
<1>4. Taken(s, n) \subseteq Members(s)
  BY DEF Taken, Members
<1>5. QED
  BY <1>1, <1>2, <1>3, <1>4

(* One list after another. *)
JoinedAt(m, k, a, b, c) ==
    /\ DOMAIN a = 1 .. m /\ DOMAIN b = 1 .. k /\ DOMAIN c = 1 .. m + k
    /\ \A i \in 1 .. m : c[i] = a[i]
    /\ \A i \in 1 .. k : c[m + i] = b[i]

LEMMA JoinProperties ==
    ASSUME NEW m \in Nat, NEW k \in Nat, NEW a, NEW b, NEW c, JoinedAt(m, k, a, b, c)
    PROVE  /\ Members(c) = Members(a) \cup Members(b)
           /\ Different(a) /\ Different(b) /\ Members(a) \cap Members(b) = {}
                 => Different(c)
<1> USE DEF JoinedAt
<1>1. \A i \in 1 .. m + k : i \in 1 .. m \/ (i - m \in 1 .. k /\ m + (i - m) = i)
  OBVIOUS
<1>2. \A i \in 1 .. m : i \in 1 .. m + k
  OBVIOUS
<1>3. \A i \in 1 .. k : m + i \in 1 .. m + k
  OBVIOUS
<1>4. \A i \in 1 .. m + k : \/ i \in 1 .. m /\ c[i] = a[i]
                            \/ i - m \in 1 .. k /\ c[i] = b[i - m]
  <2>1. ASSUME NEW i \in 1 .. m + k, i \notin 1 .. m
        PROVE  i - m \in 1 .. k /\ c[i] = b[i - m]
    <3>1. i - m \in 1 .. k /\ m + (i - m) = i
      BY <1>1, <2>1
    <3>2. c[m + (i - m)] = b[i - m]
      BY <3>1
    <3>3. QED
      BY <3>1, <3>2
  <2>2. QED
    BY <2>1
<1>5. Members(c) \subseteq Members(a) \cup Members(b)
  BY <1>4 DEF Members
<1>6. Members(a) \subseteq Members(c)
  BY <1>2 DEF Members
<1>7. Members(b) \subseteq Members(c)
  BY <1>3 DEF Members
<1>8. ASSUME Different(a), Different(b), Members(a) \cap Members(b) = {},
             NEW i \in 1 .. m + k, NEW j \in 1 .. m + k, c[i] = c[j]
      PROVE  i = j
  <2>1. CASE i \in 1 .. m /\ j \in 1 .. m
    BY <1>8, <2>1 DEF Different
  <2>2. CASE i \in 1 .. m /\ j \notin 1 .. m
    <3>1. c[i] \in Members(a)
      BY <2>2 DEF Members
    <3>2. j - m \in DOMAIN b /\ c[j] = b[j - m]
      BY <1>4, <2>2
    <3>3. c[j] \in Members(b)
      BY <3>2 DEF Members
    <3>4. QED
      BY <1>8, <3>1, <3>3
  <2>3. CASE i \notin 1 .. m /\ j \in 1 .. m
    <3>1. c[j] \in Members(a)
      BY <2>3 DEF Members
    <3>2. i - m \in DOMAIN b /\ c[i] = b[i - m]
      BY <1>4, <2>3
    <3>3. c[i] \in Members(b)
      BY <3>2 DEF Members
    <3>4. QED
      BY <1>8, <3>1, <3>3
  <2>4. CASE i \notin 1 .. m /\ j \notin 1 .. m
    <3>1. i - m \in DOMAIN b /\ j - m \in DOMAIN b /\ b[i - m] = b[j - m]
      BY <1>4, <1>8, <2>4
    <3>2. i - m = j - m
      BY <1>8, <3>1 DEF Different
    <3>3. QED
      BY <3>2
  <2>5. QED
    BY <2>1, <2>2, <2>3, <2>4
<1>9. QED
  BY <1>5, <1>6, <1>7, <1>8 DEF Different

(* A list the other way round. *)
ReversedOf(m, a, c) == /\ DOMAIN a = 1 .. m /\ DOMAIN c = 1 .. m
                       /\ \A i \in 1 .. m : c[i] = a[m + 1 - i]

LEMMA ReversedProperties ==
    ASSUME NEW m \in Nat, NEW a, NEW c, ReversedOf(m, a, c)
    PROVE  Members(c) = Members(a) /\ (Different(a) => Different(c))
<1> USE DEF ReversedOf
<1>1. \A i \in 1 .. m : m + 1 - i \in 1 .. m /\ m + 1 - (m + 1 - i) = i
  OBVIOUS
<1>2. Members(c) \subseteq Members(a)
  BY <1>1 DEF Members
<1>3. ASSUME NEW x \in Members(a)
      PROVE  x \in Members(c)
  <2>1. PICK i \in 1 .. m : x = a[i]
    BY <1>3 DEF Members
  <2>2. m + 1 - i \in 1 .. m /\ c[m + 1 - i] = a[m + 1 - (m + 1 - i)]
    BY <1>1
  <2>3. QED
    BY <1>1, <2>1, <2>2 DEF Members
<1>4. ASSUME Different(a), NEW i \in 1 .. m, NEW j \in 1 .. m, c[i] = c[j]
      PROVE  i = j
  <2>1. a[m + 1 - i] = a[m + 1 - j]
    BY <1>4
  <2>2. m + 1 - i = m + 1 - j
    BY <1>1, <1>4, <2>1 DEF Different
  <2>3. QED
    BY <2>2
<1>5. QED
  BY <1>2, <1>3, <1>4 DEF Different

-----------------------------------------------------------------------------
(* The frames of a page table, and what Load and ~AddrSpace do with them.  *)
FrameList(t) == [i \in DOMAIN t |-> t[i].physicalPage]

LEMMA FrameListOfTable ==
    ASSUME NEW p \in Programs
    PROVE  /\ TableFrames(p) = Members(FrameList(pageTable[p]))
           /\ Different(FrameList(pageTable[p])) <=>
                 \A i, j \in DOMAIN pageTable[p] :
                     pageTable[p][i].physicalPage = pageTable[p][j].physicalPage => i = j
  BY DEF TableFrames, Members, Different, FrameList

(* An entry, or the entries of frames taken for the stack, after a table.  *)
LEMMA ExtendedTable ==
    ASSUME NEW t \in Seq(Entries), NEW u \in Seq(Entries)
    PROVE  /\ t \o u \in Seq(Entries)
           /\ Len(t \o u) = Len(t) + Len(u)
           /\ Members(FrameList(t \o u)) = Members(FrameList(t)) \cup Members(FrameList(u))
           /\ (/\ Different(FrameList(t)) /\ Different(FrameList(u))
               /\ Members(FrameList(t)) \cap Members(FrameList(u)) = {})
                 => Different(FrameList(t \o u))
<1> DEFINE m == Len(t)
           k == Len(u)
           v == t \o u
           a == FrameList(t)
           b == FrameList(u)
           c == FrameList(v)
<1>1. /\ v \in Seq(Entries) /\ Len(v) = m + k
      /\ \A i \in 1 .. m + k : v[i] = IF i <= m THEN t[i] ELSE u[i - m]
  BY ConcatProperties
<1>2. m \in Nat /\ k \in Nat /\ DOMAIN t = 1 .. m /\ DOMAIN u = 1 .. k /\ DOMAIN v = 1 .. m + k
  BY <1>1, LenProperties
<1>3. DOMAIN a = 1 .. m /\ DOMAIN b = 1 .. k /\ DOMAIN c = 1 .. m + k
  BY <1>2 DEF FrameList
<1>4. \A i \in 1 .. m : c[i] = a[i]
  BY <1>1, <1>2 DEF FrameList
<1>5. ASSUME NEW i \in 1 .. k
      PROVE  c[m + i] = b[i]
  <2> HIDE DEF m, k, v
  <2>1. PICK j \in 1 .. m + k : j = m + i /\ ~(j <= m) /\ j - m = i
    BY <1>2
  <2>2. v[j] = u[i]
    BY <1>1, <2>1
  <2>3. c[j] = b[i]
    BY <1>2, <2>1, <2>2 DEF FrameList
  <2>4. QED
    BY <2>1, <2>3
<1> HIDE DEF m, k, v, a, b, c
<1>6. /\ Members(c) = Members(a) \cup Members(b)
      /\ Different(a) /\ Different(b) /\ Members(a) \cap Members(b) = {} => Different(c)
  <2>1. JoinedAt(m, k, a, b, c)
    BY <1>3, <1>4, <1>5 DEF JoinedAt
  <2>2. QED
    BY <1>2, <2>1, JoinProperties
<1>7. QED
  BY <1>1, <1>6 DEF m, k, v, a, b, c

(* The page that has been read gets its entry. *)
LEMMA FilledProperties ==
    ASSUME TypeOK, NEW p \in Programs, loading[p] \in Frames
    PROVE  /\ FilledTable(p) \in Seq(Entries)
           /\ Len(FilledTable(p)) = Len(pageTable[p]) + 1
           /\ Members(FrameList(FilledTable(p))) = TableFrames(p) \cup {loading[p]}
           /\ Different(FrameList(pageTable[p])) /\ loading[p] \notin TableFrames(p)
                 => Different(FrameList(FilledTable(p)))
<1> DEFINE e == Entry(loading[p], Len(pageTable[p]) < CodePages(p))
           t == pageTable[p]
<1>1. e \in Entries /\ e.physicalPage = loading[p] /\ t \in Seq(Entries)
  <2>1. (Len(pageTable[p]) < CodePages(p)) \in BOOLEAN
    OBVIOUS
  <2>2. \A b \in BOOLEAN : Entry(loading[p], b) \in Entries
                        /\ Entry(loading[p], b).physicalPage = loading[p]
    BY DEF Entry, Entries
  <2>3. t \in Seq(Entries)
    BY DEF TypeOK
  <2>4. QED
    BY <2>1, <2>2, <2>3
<1>2. << e >> \in Seq(Entries) /\ Len(<< e >>) = 1 /\ DOMAIN << e >> = {1} /\ << e >>[1] = e
  BY <1>1
<1>3. FilledTable(p) = t \o << e >>
  BY <1>1, AppendIsConcat DEF FilledTable
<1>4. Members(FrameList(<< e >>)) = {loading[p]} /\ Different(FrameList(<< e >>))
  BY <1>1, <1>2 DEF Members, Different, FrameList
<1> DEFINE w == << e >>
<1>5. /\ w \in Seq(Entries) /\ Len(w) = 1 /\ FilledTable(p) = t \o w
      /\ Members(FrameList(w)) = {loading[p]} /\ Different(FrameList(w))
  BY <1>2, <1>3, <1>4
<1>6. /\ TableFrames(p) = Members(FrameList(t))
  BY FrameListOfTable
<1> HIDE DEF w, t
<1>7. /\ t \o w \in Seq(Entries)
      /\ Len(t \o w) = Len(t) + Len(w)
      /\ Members(FrameList(t \o w)) = Members(FrameList(t)) \cup Members(FrameList(w))
      /\ (/\ Different(FrameList(t)) /\ Different(FrameList(w))
          /\ Members(FrameList(t)) \cap Members(FrameList(w)) = {})
            => Different(FrameList(t \o w))
  BY <1>1, <1>5, ExtendedTable
<1>8. QED
  BY <1>5, <1>6, <1>7 DEF t

(* The pages of the stack get the first frames that are free. *)
LEMMA StackProperties ==
    ASSUME TypeOK, NEW n \in Nat, n <= Len(avList)
    PROVE  LET u == [i \in 1 .. n |-> Entry(avList[i], FALSE)]
           IN  /\ u \in Seq(Entries) /\ Len(u) = n
               /\ Members(FrameList(u)) = Taken(avList, n)
               /\ Different(avList) => Different(FrameList(u))
<1> DEFINE u == [i \in 1 .. n |-> Entry(avList[i], FALSE)]
<1>1. /\ Len(avList) \in Nat /\ DOMAIN avList = 1 .. Len(avList)
      /\ \A i \in 1 .. Len(avList) : avList[i] \in Frames
  BY LenProperties, ElementOfSeq DEF TypeOK
<1>2. \A i \in 1 .. n : i \in DOMAIN avList /\ Entry(avList[i], FALSE) \in Entries
  BY <1>1 DEF Entry, Entries
<1>3. u \in Seq(Entries)
  BY <1>2, FunctionIsSeq
<1>4. DOMAIN u = 1 .. n /\ Len(u) = n
  BY <1>3, LenProperties
<1>5. \A i \in 1 .. n : FrameList(u)[i] = avList[i] /\ DOMAIN FrameList(u) = 1 .. n
  BY <1>4 DEF FrameList, Entry
<1>6. DOMAIN FrameList(u) = 1 .. n
  BY <1>4 DEF FrameList
<1>7. Members(FrameList(u)) = Taken(avList, n)
  BY <1>5, <1>6 DEF Members, Taken
<1>8. Different(avList) => Different(FrameList(u))
  BY <1>2, <1>5, <1>6 DEF Different
<1>9. QED
  BY <1>3, <1>4, <1>7, <1>8

(* ~AddrSpace puts all the frames of a table in front of the free ones.    *)
LEMMA FreedProperties ==
    ASSUME NEW t \in Seq(Entries), NEW free \in Seq(Frames)
    PROVE  /\ Freed(t, free) \in Seq(Frames)
           /\ Members(Freed(t, free)) = Members(FrameList(t)) \cup Members(free)
           /\ (/\ Different(FrameList(t)) /\ Different(free)
               /\ Members(FrameList(t)) \cap Members(free) = {})
                 => Different(Freed(t, free))
<1> DEFINE m == Len(t)
           k == Len(free)
           a == FrameList(t)
           r == [i \in 1 .. m |-> a[m + 1 - i]]
           c == Freed(t, free)
<1>1. /\ m \in Nat /\ k \in Nat /\ DOMAIN t = 1 .. m /\ DOMAIN free = 1 .. k
      /\ \A i \in 1 .. m : t[i] \in Entries
      /\ \A i \in 1 .. k : free[i] \in Frames
  BY LenProperties, ElementOfSeq
<1>2. DOMAIN a = 1 .. m /\ \A i \in 1 .. m : a[i] = t[i].physicalPage /\ a[i] \in Frames
  BY <1>1 DEF FrameList, Entries
<1>3. c = [i \in 1 .. m + k |-> IF i <= m THEN t[m + 1 - i].physicalPage ELSE free[i - m]]
  BY DEF Freed
<1> HIDE DEF m, k, a, c
<1>4. \A i \in 1 .. m : m + 1 - i \in 1 .. m /\ r[i] = a[m + 1 - i]
  BY <1>1
<1>5. \A i \in 1 .. m : i \in 1 .. m + k /\ i <= m /\ c[i] = r[i]
  BY <1>1, <1>2, <1>3, <1>4
<1>6. ASSUME NEW i \in 1 .. k
      PROVE  m + i \in 1 .. m + k /\ c[m + i] = free[i]
  <2>1. PICK j \in 1 .. m + k : j = m + i /\ ~(j <= m) /\ j - m = i
    BY <1>1
  <2>2. c[j] = free[i]
    BY <1>3, <2>1
  <2>3. QED
    BY <2>1, <2>2
<1>7. /\ Members(c) = Members(r) \cup Members(free)
      /\ Different(r) /\ Different(free) /\ Members(r) \cap Members(free) = {} => Different(c)
  <2>1. DOMAIN r = 1 .. m /\ DOMAIN c = 1 .. m + k
    BY <1>3
  <2> HIDE DEF r
  <2>2. JoinedAt(m, k, r, free, c)
    BY <1>1, <1>5, <1>6, <2>1 DEF JoinedAt
  <2>3. QED
    BY <1>1, <2>2, JoinProperties
<1>8. Members(r) = Members(a) /\ (Different(a) => Different(r))
  <2>1. DOMAIN r = 1 .. m
    OBVIOUS
  <2> HIDE DEF r
  <2>2. ReversedOf(m, a, r)
    BY <1>2, <1>4, <2>1 DEF ReversedOf
  <2>3. QED
    BY <1>1, <2>2, ReversedProperties
<1>9. c \in Seq(Frames)
  <2>1. ASSUME NEW i \in 1 .. m + k
        PROVE  c[i] \in Frames
    <3>1. CASE i <= m
      BY <1>1, <1>2, <1>4, <1>5, <3>1
    <3>2. CASE ~(i <= m)
      <4>1. i - m \in 1 .. k /\ c[i] = free[i - m]
        BY <1>1, <1>3, <3>2
      <4>2. QED
        BY <1>1, <4>1
    <3>3. QED
      BY <3>1, <3>2
  <2>2. m + k \in Nat /\ DOMAIN c = 1 .. m + k
    BY <1>1, <1>3
  <2>3. c \in [1 .. m + k -> Frames]
    BY <1>3, <2>1, <2>2
  <2>4. QED
    BY <2>2, <2>3, FunctionIsSeq
<1>10. QED
  BY <1>7, <1>8, <1>9 DEF a, c

(* The end of Load: the last page that was read and n pages of the stack.  *)
LEMMA LoadedProperties ==
    ASSUME TypeOK, NEW p \in Programs, loading[p] \in Frames, NEW n \in Nat, n <= Len(avList)
    PROVE  LET g == FilledTable(p) \o [i \in 1 .. n |-> Entry(avList[i], FALSE)]
               rest == SubSeq(avList, n + 1, Len(avList))
           IN  /\ g \in Seq(Entries) /\ Len(g) = Len(pageTable[p]) + 1 + n
               /\ rest \in Seq(Frames)
               /\ Members(FrameList(g)) = TableFrames(p) \cup {loading[p]} \cup Taken(avList, n)
               /\ (/\ Different(avList) /\ Different(FrameList(pageTable[p]))
                   /\ loading[p] \notin TableFrames(p) /\ Owned(p) \cap FreeFrames = {})
                     => /\ Different(FrameList(g)) /\ Different(rest)
                        /\ Members(rest) = FreeFrames \ Taken(avList, n)
                        /\ Taken(avList, n) \subseteq FreeFrames
<1> DEFINE a == FilledTable(p)
           u == [i \in 1 .. n |-> Entry(avList[i], FALSE)]
           m == Len(avList)
           k == n + 1
           rest == SubSeq(avList, k, m)
<1>1. /\ a \in Seq(Entries) /\ Len(a) = Len(pageTable[p]) + 1
      /\ Members(FrameList(a)) = TableFrames(p) \cup {loading[p]}
      /\ Different(FrameList(pageTable[p])) /\ loading[p] \notin TableFrames(p)
            => Different(FrameList(a))
  BY FilledProperties
<1>2. /\ u \in Seq(Entries) /\ Len(u) = n /\ Members(FrameList(u)) = Taken(avList, n)
      /\ Different(avList) => Different(FrameList(u))
  BY StackProperties
<1>3. m \in Nat /\ k \in Nat /\ n <= m /\ DOMAIN avList = 1 .. m /\ avList \in Seq(Frames)
  BY LenProperties DEF TypeOK
<1>4. /\ rest \in Seq(Frames) /\ DOMAIN rest = 1 .. m - n
      /\ \A i \in 1 .. m - n : n + i \in DOMAIN avList /\ rest[i] = avList[n + i]
  BY <1>3, SuffixProperties
<1>5. Unset \notin Frames /\ Members(avList) = FreeFrames
  BY DEF Frames, Members, FreeFrames
<1> HIDE DEF a, u, m, k, rest
<1>6. Different(avList) => /\ Different(rest)
                           /\ Members(rest) = FreeFrames \ Taken(avList, n)
                           /\ Taken(avList, n) \subseteq FreeFrames
  <2>1. SuffixAt(n, m, avList, rest)
    BY <1>3, <1>4 DEF SuffixAt
  <2>2. QED
    BY <1>3, <1>5, <2>1, TakeProperties
<1>7. /\ a \o u \in Seq(Entries)
      /\ Len(a \o u) = Len(a) + Len(u)
      /\ Members(FrameList(a \o u)) = Members(FrameList(a)) \cup Members(FrameList(u))
      /\ (/\ Different(FrameList(a)) /\ Different(FrameList(u))
          /\ Members(FrameList(a)) \cap Members(FrameList(u)) = {})
            => Different(FrameList(a \o u))
  BY <1>1, <1>2, ExtendedTable
<1>8. ASSUME Different(avList), Different(FrameList(pageTable[p])),
             loading[p] \notin TableFrames(p), Owned(p) \cap FreeFrames = {}
      PROVE  Different(FrameList(a \o u))
  <2>1. Members(FrameList(a)) = Owned(p)
    BY <1>1, <1>5 DEF Owned
  <2>2. Members(FrameList(a)) \cap Members(FrameList(u)) = {}
    BY <1>2, <1>6, <1>8, <2>1
  <2>3. QED
    BY <1>1, <1>2, <1>7, <1>8, <2>2
<1>9. Len(a \o u) = Len(pageTable[p]) + 1 + n
  BY <1>1, <1>2, <1>7
<1>10. QED
  BY <1>1, <1>2, <1>4, <1>6, <1>7, <1>8, <1>9 DEF a, u, m, k, rest

-----------------------------------------------------------------------------
(* Types. *)

LEMMA InitTypeOK == Init => TypeOK
<1> SUFFICES ASSUME Init PROVE TypeOK
  OBVIOUS
<1>1. avList \in Seq(Frames)
  <2>1. avList \in [1 .. NumPhysPages -> Frames]
    BY DEF Init, Frames
  <2>2. QED
    BY <2>1, FunctionIsSeq
<1>2. pageTable \in [Programs -> Seq(Entries)]
  BY DEF Init
<1>3. memory \in [Frames -> Contents] /\ regs \in Contents /\ saved \in [Programs -> Contents]
  BY DEF Init, Contents, Zero
<1>4. at \in [Threads -> Places] /\ current \in Threads
  BY DEF Init, Threads, Places
<1>5. QED
  BY <1>1, <1>2, <1>3, <1>4 DEF Init, TypeOK, Outcomes

LEMMA SizesAreNumbers ==
    ASSUME TypeOK, NEW p \in Programs, shape[p] # NotFound
    PROVE  /\ AllPages(p) \in Nat /\ FilePages(p) \in Nat \ {0} /\ CodePages(p) \in Nat
           /\ StackPages(p) \in Nat /\ FilePages(p) + StackPages(p) = AllPages(p)
<1>1. shape[p] \in Nat \X Nat \X Nat
  BY ShapesAssumption DEF TypeOK
<1>2. shape[p][1] + shape[p][2] <= shape[p][3] /\ shape[p][1] + shape[p][2] > 0
  BY ShapesAssumption DEF TypeOK
<1>3. QED
  BY <1>1, <1>2 DEF AllPages, FilePages, CodePages, StackPages

LEMMA PopTypeOK ==
    ASSUME TypeOK, NEW p \in Programs, PopFrame(p), outcome = "ok"
    PROVE  /\ at' \in [Threads -> Places] /\ avList' \in Seq(Frames)
           /\ loading' \in [Programs -> Frames \cup {Unset}] /\ outcome' \in Outcomes
<1>1. CASE avList = << >>
  BY <1>1 DEF TypeOK, PopFrame, Outcomes
<1>2. CASE avList # << >>
  <2>1. Head(avList) \in Frames /\ Tail(avList) \in Seq(Frames)
    BY <1>2, PopProperties DEF TypeOK
  <2>2. /\ avList' = Tail(avList) /\ outcome' = outcome
        /\ loading' = [loading EXCEPT ![p] = Head(avList)]
        /\ at' = [at EXCEPT ![p] = "reading"]
    BY <1>2 DEF PopFrame
  <2>3. at' \in [Threads -> Places] /\ loading' \in [Programs -> Frames \cup {Unset}]
    BY <2>1, <2>2 DEF TypeOK, Places, Threads
  <2>4. QED
    BY <2>1, <2>2, <2>3 DEF TypeOK
<1>3. QED
  BY <1>1, <1>2

(* What is known of a program by where it stands. *)
LoadInv ==
    \A p \in Programs :
        /\ at[p] # "reading" => loading[p] = Unset
        /\ at[p] = "reading" /\ outcome = "ok" => loading[p] \in Frames
        /\ at[p] \in {"reading", "user"} => shape[p] # NotFound /\ numPages[p] = AllPages(p)
        /\ at[p] \notin {"user", "done", "gone"} => steps[p] = 0

LEMMA InitLoadInv == Init => LoadInv
  BY DEF Init, LoadInv, Threads

LEMMA FinishTyped ==
    ASSUME TypeOK, LoadInv, NEW t \in Threads, Finish(t)
    PROVE  TypeOK' /\ LoadInv'
<1>1. at' \in [Threads -> Places]
  BY DEF TypeOK, Finish, Places
<1>2. TypeOK'
  BY <1>1 DEF TypeOK, Finish, machine
<1>3. LoadInv'
  BY DEF TypeOK, LoadInv, Finish, machine, AllPages, Threads
<1>4. QED
  BY <1>2, <1>3

LEMMA ExecTyped ==
    ASSUME TypeOK, LoadInv, NEW p \in Programs, Exec(p) \/ OpenFails(p)
    PROVE  TypeOK' /\ LoadInv'
<1>1. at' \in [Threads -> Places]
  BY DEF TypeOK, Exec, OpenFails, Places
<1>2. memory' \in [Frames -> Contents]
  BY DEF TypeOK, Exec, OpenFails, Contents, Zero
<1>3. TypeOK'
  BY <1>1, <1>2 DEF TypeOK, Exec, OpenFails, machine
<1>4. LoadInv'
  BY DEF TypeOK, LoadInv, Exec, OpenFails, machine, AllPages, Threads
<1>5. QED
  BY <1>3, <1>4

(* PopFrame leaves a frame in loading, or the kernel stops. *)
LEMMA PopLoadInv ==
    ASSUME TypeOK, NEW p \in Programs, PopFrame(p), outcome = "ok"
    PROVE  /\ \A q \in Programs \ {p} : at'[q] = at[q] /\ loading'[q] = loading[q]
           /\ \/ at'[p] = "reading" /\ loading'[p] \in Frames /\ outcome' = "ok"
              \/ at' = at /\ loading'[p] = Unset /\ outcome' = "aborted"
<1>1. CASE avList = << >>
  BY <1>1 DEF TypeOK, PopFrame
<1>2. CASE avList # << >>
  <2>1. Head(avList) \in Frames
    BY <1>2, PopProperties DEF TypeOK
  <2>2. QED
    BY <1>2, <2>1 DEF TypeOK, PopFrame, Threads
<1>3. QED
  BY <1>1, <1>2

LEMMA ReadHeaderTyped ==
    ASSUME TypeOK, LoadInv, outcome = "ok", NEW p \in Programs, ReadHeader(p)
    PROVE  TypeOK' /\ LoadInv'
<1>1. numPages' \in [Programs -> Nat \cup {Unset}]
  BY SizesAreNumbers DEF TypeOK, ReadHeader
<1>2. /\ at[p] = "opening" /\ shape[p] # NotFound
      /\ numPages' = [numPages EXCEPT ![p] = AllPages(p)]
      /\ UNCHANGED << shape, steps, current, pageTable, memory, table, tableSize, regs, saved >>
  BY DEF ReadHeader, machine
<1>3. CASE AllPages(p) > NumPhysPages
  <2>1. outcome' = "aborted" /\ UNCHANGED << at, avList, loading >>
    BY <1>3 DEF ReadHeader
  <2>2. TypeOK'
    BY <1>1, <1>2, <2>1 DEF TypeOK, Outcomes
  <2>3. LoadInv'
    BY <1>2, <2>1 DEF TypeOK, LoadInv, AllPages
  <2>4. QED
    BY <2>2, <2>3
<1>4. CASE ~(AllPages(p) > NumPhysPages)
  <2>1. PopFrame(p)
    BY <1>4 DEF ReadHeader
  <2>2. TypeOK'
    BY <1>1, <1>2, <2>1, PopTypeOK DEF TypeOK
  <2>3. LoadInv'
    <3>1. /\ \A q \in Programs \ {p} : at'[q] = at[q] /\ loading'[q] = loading[q]
          /\ \/ at'[p] = "reading" /\ loading'[p] \in Frames /\ outcome' = "ok"
             \/ at' = at /\ loading'[p] = Unset /\ outcome' = "aborted"
      BY <2>1, PopLoadInv
    <3>2. /\ numPages'[p] = AllPages(p)
          /\ \A q \in Programs \ {p} : numPages'[q] = numPages[q]
      BY <1>2 DEF TypeOK
    <3>3. QED
      BY <1>2, <3>1, <3>2 DEF LoadInv, AllPages
  <2>4. QED
    BY <2>2, <2>3
<1>5. QED
  BY <1>3, <1>4

LEMMA ReadPageTyped ==
    ASSUME TypeOK, LoadInv, outcome = "ok", NEW p \in Programs, ReadPage(p)
    PROVE  TypeOK' /\ LoadInv'
<1>1. /\ at[p] = "reading" /\ PopFrame(p)
      /\ memory' = [memory EXCEPT ![loading[p]] = Page(p, Len(pageTable[p]))]
      /\ pageTable' = [pageTable EXCEPT ![p] = FilledTable(p)]
      /\ UNCHANGED << shape, steps, current, numPages, table, tableSize, regs, saved >>
  BY DEF ReadPage, machine
<1>2. loading[p] \in Frames
  BY <1>1 DEF LoadInv
<1>3. memory' \in [Frames -> Contents]
  <2>1. Len(pageTable[p]) \in Nat
    BY LenProperties DEF TypeOK
  <2>2. Page(p, Len(pageTable[p])) \in Contents
    BY <2>1 DEF Page, Contents
  <2>3. QED
    BY <1>1, <2>2 DEF TypeOK
<1>4. pageTable' \in [Programs -> Seq(Entries)]
  BY <1>1, <1>2, FilledProperties DEF TypeOK
<1>5. TypeOK'
  BY <1>1, <1>3, <1>4, PopTypeOK DEF TypeOK
<1>6. LoadInv'
  <2>1. /\ \A q \in Programs \ {p} : at'[q] = at[q] /\ loading'[q] = loading[q]
        /\ \/ at'[p] = "reading" /\ loading'[p] \in Frames /\ outcome' = "ok"
           \/ at' = at /\ loading'[p] = Unset /\ outcome' = "aborted"
    BY <1>1, PopLoadInv
  <2>2. QED
    BY <1>1, <2>1 DEF LoadInv, AllPages
<1>7. QED
  BY <1>5, <1>6

LEMMA ExecuteTyped ==
    ASSUME TypeOK, LoadInv, outcome = "ok", NEW p \in Programs, Execute(p)
    PROVE  TypeOK' /\ LoadInv'
<1> DEFINE n == IF StackPages(p) <= Len(avList) THEN StackPages(p) ELSE Len(avList)
<1>1. /\ current = p /\ at[p] = "reading"
      /\ memory' = [memory EXCEPT ![loading[p]] = Page(p, Len(pageTable[p]))]
      /\ pageTable' = [pageTable EXCEPT ![p] =
               FilledTable(p) \o [i \in 1 .. n |-> Entry(avList[i], FALSE)]]
      /\ avList' = SubSeq(avList, n + 1, Len(avList))
      /\ loading' = [loading EXCEPT ![p] = Unset]
      /\ UNCHANGED << shape, steps, current, numPages, saved >>
  BY DEF Execute
<1>2. \/ outcome' = "aborted" /\ UNCHANGED << at, table, tableSize, regs >>
      \/ /\ at' = [at EXCEPT ![p] = "user"]
         /\ regs' = << p, 0 >> /\ table' = p /\ tableSize' = numPages[p]
         /\ outcome' = outcome
  BY DEF Execute, machine
<1>3. loading[p] \in Frames /\ shape[p] # NotFound
  BY <1>1 DEF LoadInv
<1>4. n \in Nat /\ n <= Len(avList)
  <2>1. Len(avList) \in Nat /\ StackPages(p) \in Nat
    BY <1>3, LenProperties, SizesAreNumbers DEF TypeOK
  <2>2. QED
    BY <2>1
<1> HIDE DEF n
<1>5. pageTable' \in [Programs -> Seq(Entries)] /\ avList' \in Seq(Frames)
  <2>1. /\ FilledTable(p) \o [i \in 1 .. n |-> Entry(avList[i], FALSE)] \in Seq(Entries)
        /\ SubSeq(avList, n + 1, Len(avList)) \in Seq(Frames)
    BY <1>3, <1>4, LoadedProperties
  <2>2. QED
    BY <1>1, <2>1 DEF TypeOK
<1>6. memory' \in [Frames -> Contents]
  <2>1. Len(pageTable[p]) \in Nat
    BY LenProperties DEF TypeOK
  <2>2. Page(p, Len(pageTable[p])) \in Contents
    BY <2>1 DEF Page, Contents
  <2>3. QED
    BY <1>1, <2>2 DEF TypeOK
<1>7. loading' \in [Programs -> Frames \cup {Unset}]
  BY <1>1 DEF TypeOK
<1>8. at' \in [Threads -> Places] /\ outcome' \in Outcomes
  BY <1>2 DEF TypeOK, Places, Outcomes
<1>9. table' \in Programs \cup {Unset} /\ tableSize' \in Nat \cup {Unset} /\ regs' \in Contents
  BY <1>2 DEF TypeOK, Contents
<1>10. TypeOK'
  BY <1>1, <1>5, <1>6, <1>7, <1>8, <1>9 DEF TypeOK
<1>11. LoadInv'
  <2>1. /\ \A q \in Programs \ {p} : at'[q] = at[q] /\ loading'[q] = loading[q]
        /\ loading'[p] = Unset
        /\ (at'[p] = "reading" /\ outcome' = "aborted") \/ at'[p] = "user"
        /\ outcome' # "ok" \/ outcome = "ok"
    BY <1>1, <1>2 DEF TypeOK, Threads
  <2>2. QED
    BY <1>1, <2>1 DEF LoadInv, AllPages
<1>12. QED
  BY <1>10, <1>11

LEMMA InstructionTyped ==
    ASSUME TypeOK, LoadInv, NEW p \in Programs, NEW v \in Addressed,
           (\E writing \in BOOLEAN : Access(p, v, writing)) \/ SysRead(p, v)
    PROVE  TypeOK' /\ LoadInv'
<1>1. /\ at[p] = "user"
      /\ UNCHANGED << at, shape, current, avList, numPages, pageTable, loading, table,
                      tableSize, saved >>
  BY DEF Access, SysRead
<1>2. Page(p, v) \in Contents
  BY DEF Page, Contents
<1>3. /\ \/ memory' = memory
         \/ memory' = [memory EXCEPT ![FrameOf(v)] = Page(p, v)]
         \/ memory' = [memory EXCEPT ![v] = Page(p, v)]
      /\ steps' = steps \/ steps' = [steps EXCEPT ![p] = @ + 1]
      /\ regs' = regs \/ regs' = << regs[1], regs[2] + 1 >>
      /\ outcome' = outcome \/ outcome' = "aborted"
  BY DEF Access, SysRead
<1>4. memory' \in [Frames -> Contents]
  BY <1>2, <1>3 DEF TypeOK
<1>5. steps' \in [Programs -> Nat] /\ \A q \in Programs \ {p} : steps'[q] = steps[q]
  <2>1. steps \in [Programs -> Nat] /\ steps[p] + 1 \in Nat
    BY DEF TypeOK
  <2>2. CASE steps' = steps
    BY <2>1, <2>2
  <2>3. CASE steps' = [steps EXCEPT ![p] = @ + 1]
    BY <2>1, <2>3
  <2>4. QED
    BY <1>3, <2>2, <2>3
<1>6. regs' \in Contents
  BY <1>3 DEF TypeOK, Contents
<1>7. outcome' \in Outcomes
  BY <1>3 DEF TypeOK, Outcomes
<1>8. TypeOK'
  BY <1>1, <1>4, <1>5, <1>6, <1>7 DEF TypeOK
<1>9. LoadInv'
  BY <1>1, <1>3, <1>5 DEF LoadInv, AllPages
<1>10. QED
  BY <1>8, <1>9

LEMMA DestroysTypeOK ==
    ASSUME TypeOK, NEW t \in Threads, Destroys(t), outcome = "ok"
    PROVE  /\ avList' \in Seq(Frames) /\ pageTable' \in [Programs -> Seq(Entries)]
           /\ outcome' \in Outcomes
<1>1. CASE t \in Programs /\ at[t] = "done"
  <2>1. pageTable[t] \in Seq(Entries) /\ avList \in Seq(Frames)
    BY <1>1 DEF TypeOK
  <2>2. Freed(pageTable[t], avList) \in Seq(Frames)
    BY <2>1, FreedProperties
  <2>3. << >> \in Seq(Entries)
    OBVIOUS
  <2>4. /\ avList' = Freed(pageTable[t], avList)
        /\ pageTable' = [pageTable EXCEPT ![t] = << >>]
        /\ outcome' \in {"ok", "undefined"}
    BY <1>1 DEF Destroys
  <2>5. QED
    BY <2>2, <2>3, <2>4 DEF TypeOK, Outcomes
<1>2. CASE ~(t \in Programs /\ at[t] = "done")
  BY <1>2 DEF TypeOK, Destroys
<1>3. QED
  BY <1>1, <1>2

(* Where the threads are after a switch. *)
LEMMA SwitchPlaces ==
    ASSUME TypeOK, NEW n \in Threads, Switch(n)
    PROVE  /\ n # current /\ current' = n
           /\ \A q \in Threads : \/ at'[q] = at[q]
                                 \/ q = current /\ at[q] = "done" /\ at'[q] = "gone"
                                 \/ q = n /\ at[q] = "forked" /\ at'[q] = "opening"
           /\ at[current] = "done" => at'[current] = "gone"
           /\ at' \in [Threads -> Places]
           /\ n \in Programs => at'[n] \in {"opening", "reading", "user"}
<1>1. /\ n # current /\ current' = n /\ at[n] \in {"forked", "opening", "reading", "user"}
      /\ at' = [at EXCEPT ![current] = Left(current),
                          ![n] = IF @ = "forked" THEN "opening" ELSE @]
  BY DEF Switch
<1>2. Left(current) = at[current] \/ (at[current] = "done" /\ Left(current) = "gone")
  BY DEF Left
<1>3. at[current] = "done" => Left(current) = "gone"
  BY DEF Left
<1>4. QED
  BY <1>1, <1>2, <1>3 DEF TypeOK, Places

LEMMA SwitchTyped ==
    ASSUME TypeOK, LoadInv, outcome = "ok", NEW n \in Threads, Switch(n)
    PROVE  TypeOK' /\ LoadInv'
<1>1. /\ current \in Threads
      /\ saved' = IF current \in Programs THEN [saved EXCEPT ![current] = regs] ELSE saved
      /\ Destroys(current)
      /\ IF n \in Programs /\ at[n] # "forked" THEN Restores(n) ELSE UNCHANGED machine
      /\ UNCHANGED << shape, steps, numPages, loading, memory >>
  BY DEF TypeOK, Switch
<1>2. saved' \in [Programs -> Contents]
  BY <1>1 DEF TypeOK
<1>3. table' \in Programs \cup {Unset} /\ tableSize' \in Nat \cup {Unset} /\ regs' \in Contents
  BY <1>1 DEF TypeOK, Restores, machine
<1>4. TypeOK'
  BY <1>1, <1>2, <1>3, DestroysTypeOK, SwitchPlaces DEF TypeOK
<1>5. LoadInv'
  BY <1>1, SwitchPlaces DEF LoadInv, AllPages, Threads
<1>6. QED
  BY <1>4, <1>5

LEMMA NextTyped == TypeOK /\ LoadInv /\ [Next]_vars => TypeOK' /\ LoadInv'
<1> SUFFICES ASSUME TypeOK, LoadInv, [Next]_vars PROVE TypeOK' /\ LoadInv'
  OBVIOUS
<1>1. CASE UNCHANGED vars
  BY <1>1 DEF TypeOK, LoadInv, vars, machine, AllPages
<1>2. ASSUME outcome = "ok", NEW p \in Programs, Exec(p) \/ ProgramStep(p)
      PROVE  TypeOK' /\ LoadInv'
  BY <1>2, ExecTyped, ReadHeaderTyped, ReadPageTyped, ExecuteTyped, InstructionTyped
     DEF ProgramStep
<1>3. ASSUME outcome = "ok", NEW t \in Threads, Finish(t) \/ Switch(t)
      PROVE  TypeOK' /\ LoadInv'
  BY <1>3, FinishTyped, SwitchTyped
<1>4. QED
  BY <1>1, <1>2, <1>3 DEF Next, Halted

(* Every variable keeps its type, and what is being loaded has a frame. *)
THEOREM AddrSpaceTyping == Spec => [](TypeOK /\ LoadInv)
  BY InitTypeOK, InitLoadInv, NextTyped, PTL DEF Spec

-----------------------------------------------------------------------------
(***************************************************************************)
(* The frames.  FrameHasOneOwner and NoFrameLost are inductive together:   *)
(* what an action takes from the free frames it gives to one program, and  *)
(* what ~AddrSpace gives back is all that program had.                     *)
(***************************************************************************)
FramesInv == FrameHasOneOwner /\ NoFrameLost

LEMMA InitFramesInv == Init => FramesInv
<1> SUFFICES ASSUME Init PROVE FramesInv
  OBVIOUS
<1>1. avList = [i \in 1 .. NumPhysPages |-> i - 1]
  BY DEF Init
<1>2. DOMAIN avList = 1 .. NumPhysPages /\ \A i \in 1 .. NumPhysPages : avList[i] = i - 1
  BY <1>1
<1>3. FreeFrames = Frames
  <2>1. \A f \in Frames : f + 1 \in 1 .. NumPhysPages /\ (f + 1) - 1 = f
    BY DEF Frames
  <2>2. \A f \in Frames : \E i \in 1 .. NumPhysPages : avList[i] = f
    BY <1>2, <2>1
  <2>3. \A i \in 1 .. NumPhysPages : i - 1 \in Frames
    BY DEF Frames
  <2>4. QED
    BY <1>2, <2>2, <2>3 DEF FreeFrames
<1>4. \A i, j \in DOMAIN avList : avList[i] = avList[j] => i = j
  BY <1>2
<1>5. \A p \in Programs : pageTable[p] = << >> /\ loading[p] = Unset /\ at[p] # "gone"
  BY DEF Init, Threads
<1>6. \A p \in Programs : TableFrames(p) = {} /\ Owned(p) = {} /\ DOMAIN pageTable[p] = {}
  BY <1>5 DEF TableFrames, Owned
<1>7. QED
  BY <1>3, <1>4, <1>5, <1>6 DEF FramesInv, FrameHasOneOwner, NoFrameLost

(* Actions that move no frame. *)
LEMMA SameFrames ==
    ASSUME FramesInv, UNCHANGED << avList, pageTable, loading >>,
           \A q \in Programs : at'[q] = "gone" => at[q] = "gone"
    PROVE  FramesInv'
<1>1. FreeFrames' = FreeFrames
  BY DEF FreeFrames
<1>2. \A q \in Programs : TableFrames(q)' = TableFrames(q) /\ Owned(q)' = Owned(q)
  BY DEF TableFrames, Owned
<1>3. FrameHasOneOwner'
  BY <1>1, <1>2 DEF FramesInv, FrameHasOneOwner
<1>4. NoFrameLost'
  <2>1. UNION {Owned(q)' : q \in Programs} = UNION {Owned(q) : q \in Programs}
    BY <1>2
  <2>2. QED
    BY <1>1, <1>2, <2>1 DEF FramesInv, NoFrameLost
<1>5. QED
  BY <1>3, <1>4 DEF FramesInv

(* Actions that move frames between the free ones and one program.         *)
LEMMA MovedFrames ==
    ASSUME FramesInv, NEW p \in Programs,
           \A q \in Programs \ {p} : /\ pageTable'[q] = pageTable[q]
                                     /\ loading'[q] = loading[q]
                                     /\ at'[q] = "gone" => at[q] = "gone",
           at'[p] = "gone" => Owned(p)' = {},
           Different(avList'), Different(FrameList(pageTable'[p])),
           loading'[p] \notin TableFrames(p)',
           Owned(p)' \cap FreeFrames' = {},
           Owned(p)' \cup FreeFrames' = Owned(p) \cup FreeFrames
    PROVE  FramesInv'
<1>1. \A q \in Programs \ {p} : TableFrames(q)' = TableFrames(q) /\ Owned(q)' = Owned(q)
  BY DEF TableFrames, Owned
<1>2. \A q \in Programs \ {p} : Owned(q) \cap Owned(p) = {} /\ Owned(q) \cap FreeFrames = {}
  BY DEF FramesInv, FrameHasOneOwner
<1>3. \A q \in Programs \ {p} : Owned(q)' \cap Owned(p)' = {} /\ Owned(q)' \cap FreeFrames' = {}
  BY <1>1, <1>2
<1>4. \A q \in Programs \ {p} :
         /\ \A i, j \in DOMAIN pageTable'[q] :
               pageTable'[q][i].physicalPage = pageTable'[q][j].physicalPage => i = j
         /\ loading'[q] \notin TableFrames(q)'
  BY <1>1 DEF FramesInv, FrameHasOneOwner
<1>5. \A i, j \in DOMAIN pageTable'[p] :
         pageTable'[p][i].physicalPage = pageTable'[p][j].physicalPage => i = j
  BY DEF Different, FrameList
<1>6. \A i, j \in DOMAIN avList' : avList'[i] = avList'[j] => i = j
  BY DEF Different
<1>7. \A q, r \in Programs : q # r => Owned(q)' \cap Owned(r)' = {}
  <2>1. ASSUME NEW q \in Programs, NEW r \in Programs, q # r, q # p, r # p
        PROVE  Owned(q)' \cap Owned(r)' = {}
    BY <1>1, <2>1 DEF FramesInv, FrameHasOneOwner
  <2>2. QED
    BY <1>3, <2>1
<1>8. FrameHasOneOwner'
  BY <1>3, <1>4, <1>5, <1>6, <1>7 DEF FrameHasOneOwner
<1>9. Frames = FreeFrames' \cup UNION {Owned(q)' : q \in Programs}
  <2>1. Frames = FreeFrames \cup UNION {Owned(q) : q \in Programs}
    BY DEF FramesInv, NoFrameLost
  <2>2. ASSUME NEW x \in Frames
        PROVE  x \in FreeFrames' \/ \E q \in Programs : x \in Owned(q)'
    <3>1. x \in FreeFrames \/ \E q \in Programs : x \in Owned(q)
      BY <2>1
    <3>2. QED
      BY <1>1, <3>1
  <2>3. ASSUME NEW x, x \in FreeFrames' \/ \E q \in Programs : x \in Owned(q)'
        PROVE  x \in Frames
    <3>1. x \in FreeFrames \/ \E q \in Programs : x \in Owned(q)
      BY <1>1, <2>3
    <3>2. QED
      BY <2>1, <3>1
  <2>4. QED
    BY <2>2, <2>3
<1>10. \A q \in Programs : at'[q] = "gone" => Owned(q)' = {}
  BY <1>1 DEF FramesInv, NoFrameLost
<1>11. NoFrameLost'
  BY <1>9, <1>10 DEF NoFrameLost
<1>12. QED
  BY <1>8, <1>11 DEF FramesInv

LEMMA PopFrames ==
    ASSUME TypeOK, FramesInv, NEW p \in Programs, PopFrame(p), outcome = "ok"
    PROVE  /\ Different(avList')
           /\ \/ loading'[p] = Unset /\ FreeFrames' = FreeFrames
              \/ loading'[p] \in FreeFrames /\ FreeFrames' = FreeFrames \ {loading'[p]}
<1>1. Different(avList) /\ FreeFrames = Members(avList) /\ FreeFrames' = Members(avList')
  BY DEF FramesInv, FrameHasOneOwner, Different, FreeFrames, Members
<1>2. CASE avList = << >>
  BY <1>1, <1>2 DEF TypeOK, PopFrame
<1>3. CASE avList # << >>
  <2>1. /\ Head(avList) \in Members(avList) /\ Different(Tail(avList))
        /\ Members(Tail(avList)) = Members(avList) \ {Head(avList)}
    BY <1>1, <1>3, PopProperties DEF TypeOK
  <2>2. avList' = Tail(avList) /\ loading'[p] = Head(avList)
    BY <1>3 DEF TypeOK, PopFrame
  <2>3. QED
    BY <1>1, <2>1, <2>2
<1>4. QED
  BY <1>2, <1>3

(* What FramesInv says of one program and the free frames. *)
LEMMA FramesOf ==
    ASSUME FramesInv, NEW p \in Programs
    PROVE  /\ Different(avList) /\ FreeFrames = Members(avList)
           /\ Different(FrameList(pageTable[p]))
           /\ TableFrames(p) = Members(FrameList(pageTable[p]))
           /\ loading[p] \notin TableFrames(p)
           /\ Owned(p) \cap FreeFrames = {}
           /\ Unset \notin FreeFrames /\ Unset \notin TableFrames(p)
<1>1. Frames = FreeFrames \cup UNION {Owned(q) : q \in Programs} /\ Unset \notin Frames
  BY DEF FramesInv, NoFrameLost, Frames
<1>2. TableFrames(p) \subseteq Owned(p)
  BY DEF Owned
<1>3. Unset \notin FreeFrames /\ Unset \notin TableFrames(p)
  BY <1>1, <1>2
<1>4. QED
  BY <1>3, FrameListOfTable
     DEF FramesInv, FrameHasOneOwner, Different, FreeFrames, Members

LEMMA ReadHeaderFrames ==
    ASSUME TypeOK, LoadInv, FramesInv, outcome = "ok", NEW p \in Programs, ReadHeader(p)
    PROVE  FramesInv'
<1>1. /\ at[p] = "opening" /\ loading[p] = Unset /\ pageTable' = pageTable
      /\ \/ UNCHANGED << at, avList, loading >>
         \/ PopFrame(p)
  BY DEF ReadHeader, LoadInv
<1>2. CASE UNCHANGED << at, avList, loading >>
  BY <1>1, <1>2, SameFrames
<1>3. CASE PopFrame(p)
  <2>1. /\ Different(avList')
        /\ \/ loading'[p] = Unset /\ FreeFrames' = FreeFrames
           \/ loading'[p] \in FreeFrames /\ FreeFrames' = FreeFrames \ {loading'[p]}
    BY <1>3, PopFrames
  <2>2. /\ \A q \in Programs \ {p} : at'[q] = at[q] /\ loading'[q] = loading[q]
        /\ at'[p] # "gone"
    BY <1>1, <1>3, PopLoadInv
  <2>3. TableFrames(p)' = TableFrames(p)
    BY <1>1 DEF TableFrames
  <2>4. /\ Owned(p) = TableFrames(p)
        /\ Owned(p)' = TableFrames(p) \cup ({loading'[p]} \ {Unset})
    BY <1>1, <2>3 DEF Owned
  <2>5. /\ loading'[p] \notin TableFrames(p)' /\ Owned(p)' \cap FreeFrames' = {}
        /\ Owned(p)' \cup FreeFrames' = Owned(p) \cup FreeFrames
        /\ Different(FrameList(pageTable'[p]))
    BY <1>1, <2>1, <2>3, <2>4, FramesOf
  <2>6. QED
    BY <1>1, <2>1, <2>2, <2>5, MovedFrames
<1>4. QED
  BY <1>1, <1>2, <1>3

LEMMA ReadPageFrames ==
    ASSUME TypeOK, LoadInv, FramesInv, outcome = "ok", NEW p \in Programs, ReadPage(p)
    PROVE  FramesInv'
<1>1. /\ at[p] = "reading" /\ PopFrame(p)
      /\ pageTable' = [pageTable EXCEPT ![p] = FilledTable(p)]
  BY DEF ReadPage
<1>2. loading[p] \in Frames /\ loading[p] # Unset
  BY <1>1 DEF LoadInv, Frames
<1>3. /\ Different(avList')
      /\ \/ loading'[p] = Unset /\ FreeFrames' = FreeFrames
         \/ loading'[p] \in FreeFrames /\ FreeFrames' = FreeFrames \ {loading'[p]}
  BY <1>1, PopFrames
<1>4. /\ \A q \in Programs \ {p} : at'[q] = at[q] /\ loading'[q] = loading[q]
      /\ at'[p] # "gone"
  BY <1>1, PopLoadInv
<1>5. /\ pageTable'[p] = FilledTable(p)
      /\ \A q \in Programs \ {p} : pageTable'[q] = pageTable[q]
  BY <1>1 DEF TypeOK
<1>6. /\ Members(FrameList(FilledTable(p))) = TableFrames(p) \cup {loading[p]}
      /\ Different(FrameList(FilledTable(p)))
  BY <1>2, FilledProperties, FramesOf
<1>7. TableFrames(p)' = TableFrames(p) \cup {loading[p]}
  <2>1. TableFrames(p)' = Members(FrameList(pageTable'[p]))
    BY DEF TableFrames, Members, FrameList
  <2>2. QED
    BY <1>5, <1>6, <2>1
<1>8. /\ Owned(p) = TableFrames(p) \cup {loading[p]}
      /\ Owned(p)' = TableFrames(p) \cup {loading[p]} \cup ({loading'[p]} \ {Unset})
  BY <1>2, <1>7 DEF Owned
<1>9. /\ loading'[p] \notin TableFrames(p)' /\ Owned(p)' \cap FreeFrames' = {}
      /\ Owned(p)' \cup FreeFrames' = Owned(p) \cup FreeFrames
  BY <1>2, <1>3, <1>7, <1>8, FramesOf
<1>10. QED
  BY <1>3, <1>4, <1>5, <1>6, <1>9, MovedFrames

LEMMA ExecuteFrames ==
    ASSUME TypeOK, LoadInv, FramesInv, outcome = "ok", NEW p \in Programs, Execute(p)
    PROVE  FramesInv'
<1> DEFINE n == IF StackPages(p) <= Len(avList) THEN StackPages(p) ELSE Len(avList)
           g == FilledTable(p) \o [i \in 1 .. n |-> Entry(avList[i], FALSE)]
           rest == SubSeq(avList, n + 1, Len(avList))
<1>1. /\ at[p] = "reading"
      /\ pageTable' = [pageTable EXCEPT ![p] = g]
      /\ avList' = rest
      /\ loading' = [loading EXCEPT ![p] = Unset]
      /\ at' = at \/ at' = [at EXCEPT ![p] = "user"]
  BY DEF Execute
<1>2. loading[p] \in Frames /\ loading[p] # Unset /\ shape[p] # NotFound
  BY <1>1 DEF LoadInv, Frames
<1>3. n \in Nat /\ n <= Len(avList)
  <2>1. Len(avList) \in Nat /\ StackPages(p) \in Nat
    BY <1>2, LenProperties, SizesAreNumbers DEF TypeOK
  <2>2. QED
    BY <2>1
<1> HIDE DEF n
<1>4. /\ Members(FrameList(g)) = TableFrames(p) \cup {loading[p]} \cup Taken(avList, n)
      /\ Different(FrameList(g)) /\ Different(rest)
      /\ Members(rest) = FreeFrames \ Taken(avList, n)
      /\ Taken(avList, n) \subseteq FreeFrames
  BY <1>2, <1>3, LoadedProperties, FramesOf
<1> HIDE DEF g, rest
<1>5. /\ pageTable'[p] = g /\ loading'[p] = Unset /\ at'[p] # "gone"
      /\ \A q \in Programs \ {p} : /\ pageTable'[q] = pageTable[q] /\ loading'[q] = loading[q]
                                   /\ at'[q] = at[q]
  BY <1>1 DEF TypeOK, Threads
<1>6. TableFrames(p)' = Members(FrameList(g)) /\ FreeFrames' = Members(rest)
  BY <1>1, <1>5 DEF TableFrames, FreeFrames, Members, FrameList
<1>7. Owned(p) = TableFrames(p) \cup {loading[p]} /\ Owned(p)' = TableFrames(p)'
  BY <1>2, <1>5, <1>6 DEF Owned
<1>8. Unset \notin TableFrames(p)'
  BY <1>2, <1>4, <1>6, FramesOf
<1>9. /\ loading'[p] \notin TableFrames(p)' /\ Owned(p)' \cap FreeFrames' = {}
      /\ Owned(p)' \cup FreeFrames' = Owned(p) \cup FreeFrames
  <2>1. Owned(p) \cap FreeFrames = {}
    BY FramesOf
  <2>2. QED
    BY <1>4, <1>5, <1>6, <1>7, <1>8, <2>1
<1>10. Different(avList') /\ Different(FrameList(pageTable'[p]))
  BY <1>1, <1>4, <1>5
<1>11. QED
  BY <1>5, <1>9, <1>10, MovedFrames

LEMMA SwitchFrames ==
    ASSUME TypeOK, LoadInv, FramesInv, outcome = "ok", NEW n \in Threads, Switch(n)
    PROVE  FramesInv'
<1>0. PICK t \in Threads : t = current
  BY DEF TypeOK
<1>1. Destroys(t) /\ loading' = loading
  BY <1>0 DEF Switch
<1>2. \A q \in Programs : at'[q] = "gone" => at[q] = "gone" \/ (q = t /\ at[q] = "done")
  BY <1>0, SwitchPlaces DEF Threads
<1>3. CASE t \in Programs /\ at[t] = "done"
  <2>1. /\ avList' = Freed(pageTable[t], avList)
        /\ pageTable' = [pageTable EXCEPT ![t] = << >>]
    BY <1>1, <1>3 DEF Destroys
  <2>2. /\ Members(avList') = TableFrames(t) \cup FreeFrames
        /\ Different(avList')
    <3>1. pageTable[t] \in Seq(Entries) /\ avList \in Seq(Frames)
      BY <1>3 DEF TypeOK
    <3>2. Members(FrameList(pageTable[t])) \cap Members(avList) = {}
      <4>1. TableFrames(t) \subseteq Owned(t)
        BY DEF Owned
      <4>2. QED
        BY <1>3, <4>1, FramesOf
    <3>3. /\ Members(Freed(pageTable[t], avList))
                = Members(FrameList(pageTable[t])) \cup Members(avList)
          /\ Different(Freed(pageTable[t], avList))
      BY <1>3, <3>1, <3>2, FreedProperties, FramesOf
    <3>4. QED
      BY <1>3, <2>1, <3>3, FramesOf
  <2>3. /\ loading[t] = Unset /\ loading'[t] = Unset /\ pageTable'[t] = << >>
        /\ \A q \in Programs \ {t} : pageTable'[q] = pageTable[q]
    BY <1>1, <1>3, <2>1 DEF TypeOK, LoadInv
  <2>4. TableFrames(t)' = {} /\ Owned(t)' = {} /\ Owned(t) = TableFrames(t)
    BY <2>3 DEF TableFrames, Owned
  <2>5. FreeFrames' = Members(avList')
    BY DEF FreeFrames, Members
  <2>6. Different(FrameList(pageTable'[t]))
    BY <2>3 DEF Different, FrameList
  <2>7. \A q \in Programs \ {t} : /\ pageTable'[q] = pageTable[q] /\ loading'[q] = loading[q]
                                  /\ at'[q] = "gone" => at[q] = "gone"
    BY <1>1, <1>2, <2>3
  <2>8. /\ loading'[t] \notin TableFrames(t)' /\ Owned(t)' \cap FreeFrames' = {}
        /\ Owned(t)' \cup FreeFrames' = Owned(t) \cup FreeFrames
    BY <2>2, <2>4, <2>5
  <2>9. QED
    BY <1>3, <2>2, <2>4, <2>6, <2>7, <2>8, MovedFrames
<1>4. CASE ~(t \in Programs /\ at[t] = "done")
  <2>1. UNCHANGED << avList, pageTable >>
    BY <1>1, <1>4 DEF Destroys
  <2>2. QED
    BY <1>1, <1>2, <1>4, <2>1, SameFrames
<1>5. QED
  BY <1>3, <1>4

LEMMA NextFramesInv ==
    TypeOK /\ LoadInv /\ FramesInv /\ [Next]_vars => FramesInv'
<1> SUFFICES ASSUME TypeOK, LoadInv, FramesInv, [Next]_vars PROVE FramesInv'
  OBVIOUS
<1>1. CASE UNCHANGED vars
  BY <1>1, SameFrames DEF vars
<1>2. ASSUME NEW p \in Programs, NEW v \in Addressed,
             (\E writing \in BOOLEAN : Access(p, v, writing)) \/ SysRead(p, v)
      PROVE  FramesInv'
  BY <1>2, SameFrames DEF Access, SysRead
<1>3. ASSUME NEW p \in Programs, Exec(p) \/ OpenFails(p)
      PROVE  FramesInv'
  <2>1. /\ UNCHANGED << avList, pageTable, loading >>
        /\ at' = [at EXCEPT ![p] = "forked"] \/ at' = [at EXCEPT ![p] = "done"]
    BY <1>3 DEF Exec, OpenFails
  <2>2. QED
    BY <2>1, SameFrames DEF TypeOK, Threads
<1>4. ASSUME NEW t \in Threads, Finish(t)
      PROVE  FramesInv'
  <2>1. /\ UNCHANGED << avList, pageTable, loading >>
        /\ at' = [at EXCEPT ![t] = "done"]
    BY <1>4 DEF Finish
  <2>2. QED
    BY <2>1, SameFrames DEF TypeOK, Threads
<1>5. ASSUME outcome = "ok", NEW p \in Programs, Exec(p) \/ ProgramStep(p)
      PROVE  FramesInv'
  BY <1>2, <1>3, <1>5, ReadHeaderFrames, ReadPageFrames, ExecuteFrames DEF ProgramStep
<1>6. ASSUME outcome = "ok", NEW t \in Threads, Finish(t) \/ Switch(t)
      PROVE  FramesInv'
  BY <1>4, <1>6, SwitchFrames
<1>7. QED
  BY <1>1, <1>5, <1>6 DEF Next, Halted

(* No frame has two owners, for every number of programs and frames.       *)
THEOREM AddrSpaceOwners == Spec => []FrameHasOneOwner
<1>1. Spec => []FramesInv
  BY InitFramesInv, NextFramesInv, AddrSpaceTyping, PTL DEF Spec
<1>2. FramesInv => FrameHasOneOwner
  BY DEF FramesInv
<1>3. QED
  BY <1>1, <1>2, PTL

(* No frame is lost, wherever Finish or a failed Load found the program.   *)
THEOREM AddrSpaceFrames == Spec => []NoFrameLost
<1>1. Spec => []FramesInv
  BY InitFramesInv, NextFramesInv, AddrSpaceTyping, PTL DEF Spec
<1>2. FramesInv => NoFrameLost
  BY DEF FramesInv
<1>3. QED
  BY <1>1, <1>2, PTL

-----------------------------------------------------------------------------
(***************************************************************************)
(* Who runs.  RunsAsItself speaks of the program that is running; to be    *)
(* inductive it needs what Switch saved of the others.                     *)
(***************************************************************************)
RunInv ==
    \A p \in Programs : at[p] = "user" =>
        /\ Len(pageTable[p]) = AllPages(p)
        /\ current = p => /\ table = p /\ tableSize = AllPages(p)
                          /\ regs = << p, steps[p] >>
        /\ current # p => saved[p] = << p, steps[p] >>

LEMMA ExecuteRunInv ==
    ASSUME TypeOK, LoadInv, RunInv, outcome = "ok", NEW p \in Programs, Execute(p)
    PROVE  RunInv'
<1> DEFINE n == IF StackPages(p) <= Len(avList) THEN StackPages(p) ELSE Len(avList)
           g == FilledTable(p) \o [i \in 1 .. n |-> Entry(avList[i], FALSE)]
<1>1. /\ current = p /\ at[p] = "reading" /\ Len(pageTable[p]) + 1 = FilePages(p)
      /\ pageTable' = [pageTable EXCEPT ![p] = g]
      /\ UNCHANGED << shape, steps, current, numPages, saved >>
      /\ \/ at' = at
         \/ /\ ~(n < StackPages(p)) /\ at' = [at EXCEPT ![p] = "user"]
            /\ regs' = << p, 0 >> /\ table' = p /\ tableSize' = numPages[p]
  BY DEF Execute
<1>2. /\ loading[p] \in Frames /\ shape[p] # NotFound /\ numPages[p] = AllPages(p)
      /\ steps[p] = 0
  BY <1>1 DEF LoadInv
<1>3. /\ StackPages(p) \in Nat /\ Len(avList) \in Nat /\ Len(pageTable[p]) \in Nat
      /\ FilePages(p) + StackPages(p) = AllPages(p)
  BY <1>2, LenProperties, SizesAreNumbers DEF TypeOK
<1>4. n \in Nat /\ n <= Len(avList)
  BY <1>3
<1>5. ~(n < StackPages(p)) => n = StackPages(p)
  BY <1>3
<1> HIDE DEF n
<1>6. Len(g) = Len(pageTable[p]) + 1 + n
  BY <1>2, <1>4, LoadedProperties
<1>7. ~(n < StackPages(p)) => Len(g) = AllPages(p)
  BY <1>1, <1>3, <1>5, <1>6
<1> HIDE DEF g
<1>8. /\ pageTable'[p] = g
      /\ \A q \in Programs \ {p} : pageTable'[q] = pageTable[q] /\ at'[q] = at[q]
      /\ \A q \in Programs : AllPages(q)' = AllPages(q)
      /\ p \in Threads
  BY <1>1 DEF TypeOK, Threads, AllPages
<1>9. CASE at' = at
  BY <1>1, <1>8, <1>9 DEF RunInv
<1>10. CASE at' # at
  <2>1. /\ at'[p] = "user" /\ regs' = << p, steps[p] >> /\ table' = p
        /\ tableSize' = AllPages(p) /\ Len(pageTable'[p]) = AllPages(p)
    BY <1>1, <1>2, <1>7, <1>8, <1>10 DEF TypeOK
  <2>2. QED
    BY <1>1, <1>8, <2>1 DEF RunInv
<1>11. QED
  BY <1>9, <1>10

LEMMA InstructionRunInv ==
    ASSUME TypeOK, RunInv, NEW p \in Programs, NEW v \in Addressed,
           (\E writing \in BOOLEAN : Access(p, v, writing)) \/ SysRead(p, v)
    PROVE  RunInv'
<1>1. /\ current = p /\ at[p] = "user"
      /\ UNCHANGED << at, shape, current, pageTable, table, tableSize, saved >>
      /\ \/ steps' = [steps EXCEPT ![p] = @ + 1] /\ regs' = << regs[1], regs[2] + 1 >>
         \/ UNCHANGED << steps, regs >>
  BY DEF Access, SysRead
<1>2. regs = << p, steps[p] >> /\ table = p
  BY <1>1 DEF RunInv
<1>3. /\ regs' = << p, steps'[p] >>
      /\ \A q \in Programs \ {p} : steps'[q] = steps[q]
  BY <1>1, <1>2 DEF TypeOK
<1>4. QED
  BY <1>1, <1>3 DEF RunInv, AllPages

LEMMA SwitchRunInv ==
    ASSUME TypeOK, LoadInv, RunInv, NEW n \in Threads, Switch(n)
    PROVE  RunInv'
<1>0. PICK t \in Threads : t = current
  BY DEF TypeOK
<1>1. /\ n # t /\ current' = n /\ Destroys(t)
      /\ saved' = IF t \in Programs THEN [saved EXCEPT ![t] = regs] ELSE saved
      /\ IF n \in Programs /\ at[n] # "forked" THEN Restores(n) ELSE UNCHANGED machine
      /\ UNCHANGED << shape, steps, numPages >>
  BY <1>0 DEF Switch
<1>2. ASSUME NEW q \in Programs, at'[q] = "user"
      PROVE  at[q] = "user" /\ (q = t => at[t] # "done")
  BY <1>0, <1>2, SwitchPlaces DEF Threads
<1>3. ASSUME NEW q \in Programs, at'[q] = "user"
      PROVE  pageTable'[q] = pageTable[q] /\ Len(pageTable'[q]) = AllPages(q)'
  BY <1>1, <1>2, <1>3 DEF Destroys, TypeOK, RunInv, AllPages
<1>4. ASSUME NEW q \in Programs, at'[q] = "user", q = n
      PROVE  table' = q /\ tableSize' = AllPages(q)' /\ regs' = << q, steps'[q] >>
  <2>1. at[q] = "user" /\ current # q
    BY <1>0, <1>1, <1>2, <1>4
  <2>2. saved[q] = << q, steps[q] >> /\ numPages[q] = AllPages(q)
    BY <2>1 DEF RunInv, LoadInv
  <2>3. QED
    BY <1>1, <1>4, <2>1, <2>2 DEF Restores, AllPages
<1>5. ASSUME NEW q \in Programs, at'[q] = "user", q # n
      PROVE  saved'[q] = << q, steps'[q] >>
  <2>1. at[q] = "user"
    BY <1>2, <1>5
  <2>2. CASE q = t
    BY <1>0, <1>1, <2>1, <2>2 DEF RunInv, TypeOK
  <2>3. CASE q # t
    BY <1>0, <1>1, <2>1, <2>3 DEF RunInv, TypeOK
  <2>4. QED
    BY <2>2, <2>3
<1>6. QED
  BY <1>1, <1>3, <1>4, <1>5 DEF RunInv

LEMMA NextRunInv == TypeOK /\ LoadInv /\ RunInv /\ [Next]_vars => RunInv'
<1> SUFFICES ASSUME TypeOK, LoadInv, RunInv, [Next]_vars PROVE RunInv'
  OBVIOUS
<1>1. CASE UNCHANGED vars
  BY <1>1 DEF vars, machine, RunInv, AllPages
<1>2. ASSUME NEW t \in Threads, NEW place \in Places \ {"user"},
             at' = at \/ at' = [at EXCEPT ![t] = place],
             \A q \in Programs : at[q] = "user" => pageTable'[q] = pageTable[q],
             UNCHANGED << shape, steps, current, machine, saved >>
      PROVE  RunInv'
  BY <1>2 DEF TypeOK, Threads, machine, RunInv, AllPages
<1>3. ASSUME NEW p \in Programs, PopFrame(p)
      PROVE  at' = at \/ at' = [at EXCEPT ![p] = "reading"]
  BY <1>3 DEF PopFrame
<1>4. ASSUME NEW p \in Programs, Exec(p) \/ OpenFails(p)
      PROVE  RunInv'
  <2>1. /\ at' = [at EXCEPT ![p] = "forked"] \/ at' = [at EXCEPT ![p] = "done"]
        /\ UNCHANGED << shape, steps, current, pageTable, machine, saved >>
    BY <1>4 DEF Exec, OpenFails
  <2>2. QED
    BY <1>2, <2>1 DEF Threads, Places
<1>5. ASSUME NEW p \in Programs, ReadHeader(p)
      PROVE  RunInv'
  <2>1. /\ at' = at \/ at' = [at EXCEPT ![p] = "reading"]
        /\ UNCHANGED << shape, steps, current, pageTable, machine, saved >>
    BY <1>3, <1>5 DEF ReadHeader
  <2>2. QED
    BY <1>2, <2>1 DEF Threads, Places
<1>6. ASSUME NEW p \in Programs, ReadPage(p)
      PROVE  RunInv'
  <2>1. /\ at[p] = "reading"
        /\ at' = at \/ at' = [at EXCEPT ![p] = "reading"]
        /\ pageTable' = [pageTable EXCEPT ![p] = FilledTable(p)]
        /\ UNCHANGED << shape, steps, current, machine, saved >>
    BY <1>3, <1>6 DEF ReadPage
  <2>2. \A q \in Programs : at[q] = "user" => pageTable'[q] = pageTable[q]
    BY <2>1 DEF TypeOK
  <2>3. QED
    BY <1>2, <2>1, <2>2 DEF Threads, Places
<1>7. ASSUME NEW t \in Threads, Finish(t)
      PROVE  RunInv'
  <2>1. /\ at' = [at EXCEPT ![t] = "done"]
        /\ UNCHANGED << shape, steps, current, pageTable, machine, saved >>
    BY <1>7 DEF Finish
  <2>2. QED
    BY <1>2, <2>1 DEF Places
<1>8. ASSUME outcome = "ok", NEW p \in Programs, Exec(p) \/ ProgramStep(p)
      PROVE  RunInv'
  BY <1>4, <1>5, <1>6, <1>8, ExecuteRunInv, InstructionRunInv DEF ProgramStep
<1>9. QED
  BY <1>1, <1>7, <1>8, SwitchRunInv DEF Next, Halted

LEMMA AddrSpaceRunning == Spec => []RunInv
<1>1. Init => RunInv
  BY DEF Init, RunInv, Threads
<1>2. QED
  BY <1>1, NextRunInv, AddrSpaceTyping, PTL DEF Spec

(* A program executes with its own page table and registers.               *)
THEOREM AddrSpaceRunsAsItself == Spec => []RunsAsItself
<1>1. RunInv => RunsAsItself
  BY DEF RunInv, RunsAsItself
<1>2. QED
  BY <1>1, AddrSpaceRunning, PTL

(* Memory is protected: whatever a program writes, in Load or by an        *)
(* instruction, goes to its own frames, but for the system call Read.      *)
THEOREM AddrSpaceWrites == Spec => WritesOwnMemory
<1> DEFINE Writes == \A f \in Frames : memory'[f] \notin {memory[f], Zero} =>
                         f \in Owned(current) \/ SysRead(current, f)
<1>1. ASSUME TypeOK, LoadInv, RunInv, Next
      PROVE  Writes
  <2>1. ASSUME NEW p \in Programs, ReadPage(p) \/ Execute(p), outcome = "ok"
        PROVE  Writes
    <3>1. /\ current = p /\ at[p] = "reading"
          /\ memory' = [memory EXCEPT ![loading[p]] = Page(p, Len(pageTable[p]))]
      BY <2>1 DEF ReadPage, Execute
    <3>2. loading[p] \in Owned(current)
      BY <1>1, <2>1, <3>1 DEF LoadInv, Owned, Frames
    <3>3. QED
      BY <1>1, <3>1, <3>2 DEF TypeOK
  <2>2. ASSUME NEW p \in Programs, NEW v \in Addressed, NEW writing \in BOOLEAN,
               Access(p, v, writing)
        PROVE  Writes
    <3>1. current = p /\ at[p] = "user"
      BY <2>2 DEF Access
    <3>2. table = p
      BY <1>1, <3>1 DEF RunInv
    <3>3. CASE memory' = memory
      BY <3>3
    <3>4. CASE memory' # memory
      <4>1. /\ Translates(v, writing)
            /\ memory' = [memory EXCEPT ![FrameOf(v)] = Page(p, v)]
        BY <2>2, <3>4 DEF Access
      <4>2. v + 1 \in DOMAIN pageTable[p]
        <5>1. v < Len(pageTable[p]) /\ v \in Nat
          BY <3>2, <4>1 DEF Translates
        <5>2. DOMAIN pageTable[p] = 1 .. Len(pageTable[p]) /\ Len(pageTable[p]) \in Nat
          BY <1>1, LenProperties DEF TypeOK
        <5>3. QED
          BY <5>1, <5>2
      <4>3. FrameOf(v) \in Owned(p)
        BY <3>2, <4>2 DEF FrameOf, Owned, TableFrames
      <4>4. QED
        BY <1>1, <3>1, <4>1, <4>3 DEF TypeOK
    <3>5. QED
      BY <3>3, <3>4
  <2>3. ASSUME NEW p \in Programs, NEW v \in Addressed, SysRead(p, v)
        PROVE  Writes
    <3>1. current = p /\ memory' = [memory EXCEPT ![v] = Page(p, v)]
      BY <2>3 DEF SysRead
    <3>2. QED
      BY <1>1, <2>3, <3>1 DEF TypeOK
  <2>4. ASSUME NEW p \in Programs, Exec(p)
        PROVE  Writes
    BY <1>1, <2>4 DEF Exec, TypeOK
  <2>5. ASSUME NEW p \in Programs, OpenFails(p) \/ ReadHeader(p)
        PROVE  Writes
    BY <2>5 DEF OpenFails, ReadHeader
  <2>6. ASSUME NEW t \in Threads, Finish(t) \/ Switch(t)
        PROVE  Writes
    BY <2>6 DEF Finish, Switch
  <2>7. CASE Halted
    BY <2>7 DEF Halted, vars
  <2>8. QED
    BY <1>1, <2>1, <2>2, <2>3, <2>4, <2>5, <2>6, <2>7 DEF Next, ProgramStep
<1>2. TypeOK /\ LoadInv /\ RunInv /\ [Next]_vars => [Writes]_vars
  BY <1>1
<1>3. QED
  BY <1>2, AddrSpaceTyping, AddrSpaceRunning, PTL DEF Spec, WritesOwnMemory
===============================================================================

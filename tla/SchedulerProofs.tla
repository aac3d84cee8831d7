--------------------------- MODULE SchedulerProofs ----------------------------
(***************************************************************************)
(* The safety of Scheduler for every set of threads, every division of the *)
(* priorities into levels that LevelsAssumption allows, and any bursts.    *)
(***************************************************************************)
EXTENDS Scheduler, SequenceTheorems, WellFoundedInduction, TLAPS

-----------------------------------------------------------------------------
(* Sequences: the list of list.cc. *)


(* The elements come in the order of what key gives them. *)
InOrder(q, key) == \A i, j \in DOMAIN q : i < j => key[q[i]] <= key[q[j]]

(* r is q with t at place i. *)
Inserted(r, q, i, t) ==
    /\ Len(r) = Len(q) + 1
    /\ \A j \in 1 .. Len(q) : j < i => r[j] = q[j]
    /\ r[i] = t
    /\ \A j \in 1 .. Len(q) : i <= j => r[j + 1] = q[j]

(* Where in q the elements of r come from, but for the one at place i: what *)
(* was at place j is at place k.                                            *)
MovedUp(j, k, i) == (k = j /\ j < i) \/ (k = j + 1 /\ i <= j)
MovedDown(j, k, i) == (k = j /\ j < i) \/ (j = k + 1 /\ i < j)

LEMMA MovedOrder ==
    ASSUME NEW i \in Int, NEW j \in Int, NEW n \in Int, NEW k \in Int, NEW m \in Int
    PROVE  /\ MovedUp(j, k, i) /\ MovedUp(n, m, i) /\ k < m => j < n
           /\ MovedDown(j, k, i) /\ MovedDown(n, m, i) /\ k < m => j < n
           /\ MovedDown(j, k, i) /\ MovedDown(n, m, i) /\ j = n => k = m
BY DEF MovedUp, MovedDown

FromInserted(r, q, i) ==
    \A k \in DOMAIN r : k # i => \E j \in DOMAIN q : r[k] = q[j] /\ MovedUp(j, k, i)

FromDeleted(r, q, i) ==
    \A k \in DOMAIN r : \E j \in DOMAIN q : r[k] = q[j] /\ MovedDown(j, k, i)

(* r is q without what was at place i. *)
Deleted(r, q, i) ==
    /\ Len(r) = Len(q) - 1
    /\ \A j \in 1 .. Len(q) - 1 : j < i => r[j] = q[j]
    /\ \A j \in 1 .. Len(q) - 1 : i <= j => r[j] = q[j + 1]

LEMMA MinProperties ==
    ASSUME NEW S \in SUBSET Nat, S # {}
    PROVE  Min(S) \in S /\ \A n \in S : Min(S) <= n
<1>1. PICK m \in S : \A n \in S : ~(<< n, m >> \in OpToRel(<, Nat))
  BY NatLessThanWellFounded, WFMin
<1>2. \A n \in S : ~(n < m)
  BY <1>1 DEF OpToRel
<1>3. \A n \in S : m <= n
  BY <1>2
<1>4. QED
  BY <1>3 DEF Min

(* r is q1 followed by q2, which begins after place n. *)
Joined(r, q1, n, q2) ==
    /\ Len(r) = n + Len(q2)
    /\ \A i \in 1 .. n : r[i] = q1[i]
    /\ \A i \in 1 .. Len(q2) : r[n + i] = q2[i]

LEMMA JoinProperties ==
    ASSUME NEW S, NEW q1 \in Seq(S), NEW q2 \in Seq(S), NEW n \in Nat, n = Len(q1)
    PROVE  q1 \o q2 \in Seq(S) /\ Joined(q1 \o q2, q1, n, q2)
<1> DEFINE r == q1 \o q2
<1> HIDE DEF r
<1>1. /\ r \in Seq(S) /\ Len(r) = n + Len(q2) /\ Len(q2) \in Nat
      /\ \A i \in 1 .. n + Len(q2) : r[i] = IF i <= n THEN q1[i] ELSE q2[i - n]
  BY ConcatProperties, LenProperties DEF r
<1>2. \A i \in 1 .. n : r[i] = q1[i]
  BY <1>1
<1>3. ASSUME NEW i \in 1 .. Len(q2)
      PROVE  r[n + i] = q2[i]
  <2>1. PICK j \in 1 .. n + Len(q2) : j = n + i /\ j - n = i /\ ~(j <= n)
    BY <1>1
  <2>2. r[j] = q2[j - n]
    BY <1>1, <2>1
  <2>3. QED
    BY <2>1, <2>2
<1>4. QED
  BY <1>1, <1>2, <1>3 DEF Joined, r

(* The first n elements of q, and the others. *)
LEMMA PrefixProperties ==
    ASSUME NEW S, NEW q \in Seq(S), NEW n \in Nat, n <= Len(q)
    PROVE  /\ SubSeq(q, 1, n) \in Seq(S) /\ Len(SubSeq(q, 1, n)) = n
           /\ \A i \in 1 .. n : SubSeq(q, 1, n)[i] = q[i]
<1> DEFINE r == SubSeq(q, 1, n)
<1> HIDE DEF r
<1>1. \A i \in 1 .. n : q[i] \in S
  BY LenProperties, ElementOfSeq
<1>2. /\ r \in Seq(S) /\ Len(r) = IF 1 <= n THEN n - 1 + 1 ELSE 0
      /\ \A i \in 1 .. n - 1 + 1 : r[i] = q[1 + i - 1]
  BY <1>1, SubSeqProperties DEF r
<1>3. Len(r) = n /\ \A i \in 1 .. n : r[i] = q[i]
  BY <1>2
<1>4. QED
  BY <1>2, <1>3 DEF r

Follows(r, q, n) == /\ Len(r) = Len(q) - n
                    /\ \A i \in 1 .. Len(q) - n : r[i] = q[n + i]

LEMMA SuffixProperties ==
    ASSUME NEW S, NEW q \in Seq(S), NEW n \in Nat, n <= Len(q), NEW k, k = n + 1
    PROVE  /\ SubSeq(q, k, Len(q)) \in Seq(S)
           /\ Follows(SubSeq(q, k, Len(q)), q, n)
<1> DEFINE r == SubSeq(q, k, Len(q))
           m == Len(q)
<1> HIDE DEF r
<1>1. m \in Nat /\ \A i \in k .. m : q[i] \in S
  BY LenProperties, ElementOfSeq
<1>2. /\ r \in Seq(S) /\ Len(r) = IF k <= m THEN m - k + 1 ELSE 0
      /\ \A i \in 1 .. m - k + 1 : r[i] = q[k + i - 1]
  BY <1>1, SubSeqProperties DEF r
<1>3. Len(r) = m - n /\ m - k + 1 = m - n
  BY <1>1, <1>2
<1>4. ASSUME NEW i \in 1 .. m - n
      PROVE  r[i] = q[n + i]
  <2>1. k + i - 1 = n + i
    BY <1>1
  <2>2. r[i] = q[k + i - 1]
    BY <1>2, <1>3
  <2>3. QED
    BY <2>1, <2>2
<1>5. QED
  BY <1>2, <1>3, <1>4 DEF Follows, r

LEMMA InsertAtProperties ==
    ASSUME NEW S, NEW q \in Seq(S), NEW t \in S, NEW i \in 1 .. Len(q)
    PROVE  InsertAt(q, i, t) \in Seq(S) /\ Inserted(InsertAt(q, i, t), q, i, t)
<1>1. PICK n \in Nat : i = n + 1 /\ i - 1 = n /\ n <= Len(q) /\ Len(q) \in Nat
  <2>1. Len(q) \in Nat
    BY LenProperties
  <2>2. i - 1 \in Nat /\ i = (i - 1) + 1 /\ i - 1 <= Len(q)
    BY <2>1
  <2>3. QED
    BY <2>1, <2>2
<1> DEFINE a == SubSeq(q, 1, n)
           b == SubSeq(q, i, Len(q))
           c == << t >>
           d == a \o c
           r == d \o b
<1> HIDE DEF a, b, c, d, r
<1>2. a \in Seq(S) /\ Len(a) = n /\ \A j \in 1 .. n : a[j] = q[j]
  BY <1>1, PrefixProperties DEF a
<1>3. b \in Seq(S) /\ Follows(b, q, n)
  BY <1>1, SuffixProperties DEF b
<1>4. c \in Seq(S) /\ Len(c) = 1 /\ c[1] = t
  BY DEF c
<1>5. d \in Seq(S) /\ Joined(d, a, n, c)
  BY <1>2, <1>4, JoinProperties DEF d
<1>6. Len(d) = i /\ d[i] = t /\ \A j \in 1 .. n : d[j] = q[j]
  BY <1>1, <1>2, <1>4, <1>5 DEF Joined
<1>7. r \in Seq(S) /\ Joined(r, d, i, b)
  BY <1>3, <1>5, <1>6, JoinProperties DEF r
<1>8. InsertAt(q, i, t) = r
  BY <1>1 DEF InsertAt, a, b, c, d, r
<1>9. Len(r) = Len(q) + 1 /\ r[i] = t
  BY <1>1, <1>3, <1>6, <1>7 DEF Joined, Follows
<1>10. ASSUME NEW j \in 1 .. Len(q), j < i
       PROVE  r[j] = q[j]
  BY <1>1, <1>6, <1>7, <1>10 DEF Joined
<1>11. ASSUME NEW j \in 1 .. Len(q), i <= j
       PROVE  r[j + 1] = q[j]
  <2>1. PICK k \in 1 .. Len(q) - n : j = n + k
    <3>1. j - n \in 1 .. Len(q) - n /\ j = n + (j - n)
      BY <1>1, <1>11
    <3>2. QED
      BY <3>1
  <2>2. b[k] = q[j]
    BY <1>3, <2>1 DEF Follows
  <2>3. k \in 1 .. Len(b) /\ j + 1 = i + k
    BY <1>1, <1>3, <2>1 DEF Follows
  <2>4. r[i + k] = b[k]
    BY <1>7, <2>3 DEF Joined
  <2>5. QED
    BY <2>2, <2>3, <2>4
<1>12. QED
  BY <1>7, <1>8, <1>9, <1>10, <1>11 DEF Inserted

LEMMA RemoveAtProperties ==
    ASSUME NEW S, NEW q \in Seq(S), NEW i \in 1 .. Len(q)
    PROVE  RemoveAt(q, i) \in Seq(S) /\ Deleted(RemoveAt(q, i), q, i)
<1>1. PICK n \in Nat : i = n + 1 /\ i - 1 = n /\ n < Len(q) /\ Len(q) \in Nat
  <2>1. Len(q) \in Nat
    BY LenProperties
  <2>2. i - 1 \in Nat /\ i = (i - 1) + 1 /\ i - 1 < Len(q)
    BY <2>1
  <2>3. QED
    BY <2>1, <2>2
<1> DEFINE a == SubSeq(q, 1, n)
           b == SubSeq(q, i + 1, Len(q))
           r == a \o b
<1> HIDE DEF a, b, r
<1>2. a \in Seq(S) /\ Len(a) = n /\ \A j \in 1 .. n : a[j] = q[j]
  BY <1>1, PrefixProperties DEF a
<1>3. b \in Seq(S) /\ Follows(b, q, i)
  <2>1. i \in Nat /\ i <= Len(q)
    BY <1>1
  <2>2. QED
    BY <2>1, SuffixProperties DEF b
<1>4. r \in Seq(S) /\ Joined(r, a, n, b)
  BY <1>2, <1>3, JoinProperties DEF r
<1>5. RemoveAt(q, i) = r
  BY <1>1 DEF RemoveAt, a, b, r
<1>6. Len(r) = Len(q) - 1
  BY <1>1, <1>3, <1>4 DEF Joined, Follows
<1>7. ASSUME NEW j \in 1 .. Len(q) - 1, j < i
      PROVE  r[j] = q[j]
  BY <1>1, <1>2, <1>4, <1>7 DEF Joined
<1>8. ASSUME NEW j \in 1 .. Len(q) - 1, i <= j
      PROVE  r[j] = q[j + 1]
  <2>1. PICK k \in 1 .. Len(q) - i : j = n + k
    <3>1. j - n \in 1 .. Len(q) - i /\ j = n + (j - n)
      BY <1>1, <1>8
    <3>2. QED
      BY <3>1
  <2>2. b[k] = q[i + k] /\ i + k = j + 1
    BY <1>1, <1>3, <2>1 DEF Follows
  <2>3. k \in 1 .. Len(b)
    BY <1>1, <1>3 DEF Follows
  <2>4. r[n + k] = b[k]
    BY <1>4, <2>3 DEF Joined
  <2>5. QED
    BY <2>1, <2>2, <2>4
<1>9. QED
  BY <1>4, <1>5, <1>6, <1>7, <1>8 DEF Deleted

(* Inserting an element that is not there, anywhere. *)
LEMMA InsertedElements ==
    ASSUME NEW S, NEW q \in Seq(S), NEW r \in Seq(S), NEW t \in S,
           NEW i \in 1 .. Len(q) + 1, Inserted(r, q, i, t), IsInjective(q), t \notin ToSet(q)
    PROVE  /\ ToSet(r) = ToSet(q) \cup {t}
           /\ IsInjective(r)
           /\ FromInserted(r, q, i)
<1>1. /\ Len(q) \in Nat /\ DOMAIN q = 1 .. Len(q) /\ DOMAIN r = 1 .. Len(q) + 1
      /\ i \in DOMAIN r /\ r[i] = t
  BY DEF Inserted
<1>2. \A j \in DOMAIN q : \E k \in DOMAIN r \ {i} : r[k] = q[j]
  <2> SUFFICES ASSUME NEW j \in DOMAIN q PROVE \E k \in DOMAIN r \ {i} : r[k] = q[j]
    OBVIOUS
  <2>1. CASE j < i
    BY <1>1, <2>1 DEF Inserted
  <2>2. CASE i <= j
    <3>1. j + 1 \in DOMAIN r \ {i}
      BY <1>1, <2>2
    <3>2. QED
      BY <1>1, <2>2, <3>1 DEF Inserted
  <2>3. QED
    BY <1>1, <2>1, <2>2
<1>3. \A k \in DOMAIN r \ {i} :
          \E j \in DOMAIN q : /\ r[k] = q[j]
                              /\ (k = j /\ j < i) \/ (k = j + 1 /\ i <= j)
  <2> SUFFICES ASSUME NEW k \in DOMAIN r \ {i}
               PROVE  \E j \in DOMAIN q : /\ r[k] = q[j]
                                          /\ (k = j /\ j < i) \/ (k = j + 1 /\ i <= j)
    OBVIOUS
  <2>1. CASE k < i
    BY <1>1, <2>1 DEF Inserted
  <2>2. CASE k > i
    <3>1. PICK j \in DOMAIN q : k = j + 1 /\ i <= j
      <4>1. k - 1 \in DOMAIN q /\ k = (k - 1) + 1 /\ i <= k - 1
        BY <1>1, <2>2
      <4>2. QED
        BY <4>1
    <3>2. QED
      BY <1>1, <3>1 DEF Inserted
  <2>3. QED
    BY <1>1, <2>1, <2>2
<1>4. ToSet(r) = ToSet(q) \cup {t}
  <2>1. ASSUME NEW x \in ToSet(q) PROVE x \in ToSet(r)
    BY <1>2 DEF ToSet
  <2>2. ASSUME NEW x \in ToSet(r), x # t PROVE x \in ToSet(q)
    <3>1. PICK k \in DOMAIN r : x = r[k]
      BY DEF ToSet
    <3>2. k # i
      BY <1>1, <2>2, <3>1
    <3>3. QED
      BY <1>3, <3>1, <3>2 DEF ToSet
  <2>3. t \in ToSet(r)
    BY <1>1 DEF ToSet
  <2>4. QED
    BY <2>1, <2>2, <2>3
<1>5. IsInjective(r)
  <2> SUFFICES ASSUME NEW k \in DOMAIN r, NEW m \in DOMAIN r, r[k] = r[m] PROVE k = m
    BY DEF IsInjective
  <2>1. \A n \in DOMAIN r \ {i} : r[n] # t
    BY <1>3 DEF ToSet
  <2>2. CASE k # i /\ m # i
    <3>1. PICK j \in DOMAIN q : r[k] = q[j] /\ ((k = j /\ j < i) \/ (k = j + 1 /\ i <= j))
      BY <1>3, <2>2
    <3>2. PICK n \in DOMAIN q : r[m] = q[n] /\ ((m = n /\ n < i) \/ (m = n + 1 /\ i <= n))
      BY <1>3, <2>2
    <3>3. j = n
      BY <3>1, <3>2 DEF IsInjective
    <3>4. QED
      BY <1>1, <3>1, <3>2, <3>3
  <2>3. QED
    BY <1>1, <2>1, <2>2
<1>6. QED
  BY <1>3, <1>4, <1>5 DEF FromInserted, MovedUp

LEMMA DeletedElements ==
    ASSUME NEW S, NEW q \in Seq(S), NEW r \in Seq(S), NEW i \in 1 .. Len(q),
           Deleted(r, q, i), IsInjective(q)
    PROVE  /\ ToSet(r) = ToSet(q) \ {q[i]}
           /\ FromDeleted(r, q, i)
<1>1. /\ Len(q) \in Nat /\ DOMAIN q = 1 .. Len(q) /\ DOMAIN r = 1 .. Len(q) - 1
  BY DEF Deleted
<1>2. \A k \in DOMAIN r : \E j \in DOMAIN q :
          r[k] = q[j] /\ ((k = j /\ j < i) \/ (j = k + 1 /\ i < j))
  <2> SUFFICES ASSUME NEW k \in DOMAIN r
               PROVE  \E j \in DOMAIN q :
                          r[k] = q[j] /\ ((k = j /\ j < i) \/ (j = k + 1 /\ i < j))
    OBVIOUS
  <2>1. CASE k < i
    BY <1>1, <2>1 DEF Deleted
  <2>2. CASE i <= k
    <3>1. PICK j \in DOMAIN q : j = k + 1 /\ i < j
      BY <1>1, <2>2
    <3>2. QED
      BY <1>1, <2>2, <3>1 DEF Deleted
  <2>3. QED
    BY <1>1, <2>1, <2>2
<1>3. ASSUME NEW j \in DOMAIN q, j # i
      PROVE  q[j] \in ToSet(r)
  <2>1. CASE j < i
    BY <1>1, <2>1 DEF Deleted, ToSet
  <2>2. CASE j > i
    <3>1. PICK k \in DOMAIN r : j = k + 1 /\ i <= k
      <4>1. j - 1 \in DOMAIN r /\ j = (j - 1) + 1 /\ i <= j - 1
        BY <1>1, <2>2
      <4>2. QED
        BY <4>1
    <3>2. r[k] = q[j]
      BY <1>1, <3>1 DEF Deleted
    <3>3. QED
      BY <3>2 DEF ToSet
  <2>3. QED
    BY <1>1, <1>3, <2>1, <2>2
<1>4. ToSet(q) \ {q[i]} \subseteq ToSet(r)
  BY <1>3 DEF ToSet
<1>5. ToSet(r) \subseteq ToSet(q) \ {q[i]}
  <2> SUFFICES ASSUME NEW k \in DOMAIN r
               PROVE  r[k] \in ToSet(q) /\ r[k] # q[i]
    BY DEF ToSet
  <2>1. PICK j \in DOMAIN q : r[k] = q[j] /\ j # i
    BY <1>1, <1>2
  <2>2. QED
    BY <1>1, <2>1 DEF ToSet, IsInjective
<1>6. QED
  BY <1>2, <1>4, <1>5 DEF FromDeleted, MovedDown

-----------------------------------------------------------------------------
(* A queue: the set E of threads, each once, in the order of key.           *)
IsQueue(q, E, key) == /\ q \in Seq(Threads)
                      /\ IsInjective(q)
                      /\ ToSet(q) = E
                      /\ InOrder(q, key)

LEMMA QueueInsert ==
    ASSUME NEW q, NEW E, NEW key \in [Threads -> Int], IsQueue(q, E, key),
           NEW r \in Seq(Threads), NEW t \in Threads, t \notin E,
           NEW i \in 1 .. Len(q) + 1, Inserted(r, q, i, t),
           \A j \in DOMAIN q : j < i => key[q[j]] <= key[t],
           \A j \in DOMAIN q : i <= j => key[t] <= key[q[j]]
    PROVE  IsQueue(r, E \cup {t}, key)
<1>1. /\ q \in Seq(Threads) /\ IsInjective(q) /\ ToSet(q) = E /\ InOrder(q, key)
      /\ r[i] = t
  BY DEF IsQueue, Inserted
<1>2. /\ Len(q) \in Nat /\ DOMAIN q = 1 .. Len(q) /\ DOMAIN r = 1 .. Len(q) + 1
      /\ i \in DOMAIN r
  BY <1>1 DEF Inserted
<1>3. ToSet(r) = ToSet(q) \cup {t} /\ IsInjective(r) /\ FromInserted(r, q, i)
  BY <1>1, InsertedElements
<1>4. \A j \in DOMAIN q : q[j] \in Threads /\ key[q[j]] \in Int
  BY <1>1, <1>2, ElementOfSeq
<1>5. ASSUME NEW k \in DOMAIN r, NEW m \in DOMAIN r, k < m
      PROVE  key[r[k]] <= key[r[m]]
  <2>1. CASE k = i
    <3>1. PICK n \in DOMAIN q : r[m] = q[n] /\ MovedUp(n, m, i)
      BY <1>2, <1>3, <1>5, <2>1 DEF FromInserted
    <3>2. i <= n
      BY <1>2, <1>5, <2>1, <3>1 DEF MovedUp
    <3>3. QED
      BY <1>1, <2>1, <3>1, <3>2
  <2>2. CASE m = i
    <3>1. PICK j \in DOMAIN q : r[k] = q[j] /\ MovedUp(j, k, i)
      BY <1>2, <1>3, <1>5, <2>2 DEF FromInserted
    <3>2. j < i
      BY <1>2, <1>5, <2>2, <3>1 DEF MovedUp
    <3>3. QED
      BY <1>1, <2>2, <3>1, <3>2
  <2>3. CASE k # i /\ m # i
    <3>1. PICK j \in DOMAIN q : r[k] = q[j] /\ MovedUp(j, k, i)
      BY <1>3, <2>3 DEF FromInserted
    <3>2. PICK n \in DOMAIN q : r[m] = q[n] /\ MovedUp(n, m, i)
      BY <1>3, <2>3 DEF FromInserted
    <3>3. j < n
      <4>1. i \in Int /\ j \in Int /\ n \in Int /\ k \in Int /\ m \in Int
        BY <1>2
      <4>2. QED
        BY <1>5, <3>1, <3>2, <4>1, MovedOrder
    <3>4. QED
      BY <1>1, <3>1, <3>2, <3>3 DEF InOrder
  <2>4. QED
    BY <2>1, <2>2, <2>3
<1>6. QED
  BY <1>1, <1>3, <1>5 DEF IsQueue, InOrder

LEMMA QueueDelete ==
    ASSUME NEW q, NEW E, NEW key, IsQueue(q, E, key),
           NEW r \in Seq(Threads), NEW i \in 1 .. Len(q), Deleted(r, q, i)
    PROVE  IsQueue(r, E \ {q[i]}, key)
<1>1. /\ q \in Seq(Threads) /\ IsInjective(q) /\ ToSet(q) = E /\ InOrder(q, key)
      /\ Len(q) \in Nat /\ DOMAIN q = 1 .. Len(q) /\ DOMAIN r = 1 .. Len(q) - 1
  BY DEF IsQueue, Deleted
<1>2. ToSet(r) = ToSet(q) \ {q[i]} /\ FromDeleted(r, q, i)
  BY <1>1, DeletedElements
<1>3. ASSUME NEW k \in DOMAIN r, NEW m \in DOMAIN r
      PROVE  (r[k] = r[m] => k = m) /\ (k < m => key[r[k]] <= key[r[m]])
  <2>1. PICK j \in DOMAIN q : r[k] = q[j] /\ MovedDown(j, k, i)
    BY <1>2 DEF FromDeleted
  <2>2. PICK n \in DOMAIN q : r[m] = q[n] /\ MovedDown(n, m, i)
    BY <1>2 DEF FromDeleted
  <2>3. (j = n => k = m) /\ (k < m => j < n)
    <3>1. i \in Int /\ j \in Int /\ n \in Int /\ k \in Int /\ m \in Int
      BY <1>1
    <3>2. QED
      BY <2>1, <2>2, <3>1, MovedOrder
  <2>4. r[k] = r[m] => j = n
    BY <1>1, <2>1, <2>2 DEF IsInjective
  <2>5. k < m => key[r[k]] <= key[r[m]]
    BY <1>1, <2>1, <2>2, <2>3 DEF InOrder
  <2>6. QED
    BY <2>3, <2>4, <2>5
<1>4. QED
  BY <1>1, <1>2, <1>3 DEF IsQueue, InOrder, IsInjective

(* What a queue of level l is ordered by, with priorities p and bursts n;   *)
(* that of level 3 is in no order.                                          *)
Key(l, p, n) == IF l = 1 THEN n
                ELSE IF l = 2 THEN [t \in Threads |-> 0 - p[t]]
                ELSE [t \in Threads |-> 0]

LEMMA KeyType ==
    ASSUME NEW l, NEW p \in [Threads -> Int], NEW n \in [Threads -> Int]
    PROVE  Key(l, p, n) \in [Threads -> Int]
<1>1. [t \in Threads |-> 0 - p[t]] \in [Threads -> Int]
  OBVIOUS
<1>2. QED
  BY <1>1 DEF Key

LEMMA QueueAppend ==
    ASSUME NEW q, NEW E, NEW key \in [Threads -> Int], IsQueue(q, E, key),
           NEW t \in Threads, t \notin E, \A j \in DOMAIN q : key[q[j]] <= key[t]
    PROVE  IsQueue(Append(q, t), E \cup {t}, key)
<1> DEFINE r == Append(q, t)
           i == Len(q) + 1
<1>1. q \in Seq(Threads) /\ Len(q) \in Nat /\ DOMAIN q = 1 .. Len(q)
  BY DEF IsQueue
<1>2. r \in Seq(Threads) /\ Inserted(r, q, i, t)
  BY <1>1, AppendProperties DEF Inserted
<1>3. i \in 1 .. Len(q) + 1 /\ \A j \in DOMAIN q : ~(i <= j)
  BY <1>1
<1> HIDE DEF r, i
<1>4. IsQueue(r, E \cup {t}, key)
  BY <1>2, <1>3, QueueInsert
<1>5. QED
  BY <1>4 DEF r

LEMMA QueueInsertSorted ==
    ASSUME NEW l \in {1, 2}, NEW p \in [Threads -> Int], next \in [Threads -> Int],
           NEW q, NEW E, IsQueue(q, E, Key(l, p, next)), NEW t \in Threads, t \notin E
    PROVE  IsQueue(InsertSorted(q, l, t, p), E \cup {t}, Key(l, p, next))
<1> DEFINE key == Key(l, p, next)
           I == {i \in 1 .. Len(q) : Precedes(l, t, q[i], p)}
<1>1. key \in [Threads -> Int]
  BY KeyType
<1>2. \A u \in Threads : Precedes(l, t, u, p) <=> key[t] < key[u]
  BY DEF Precedes, Key
<1>3. /\ q \in Seq(Threads) /\ Len(q) \in Nat /\ DOMAIN q = 1 .. Len(q)
      /\ \A j \in DOMAIN q : q[j] \in Threads /\ key[q[j]] \in Int
      /\ \A i, j \in DOMAIN q : i < j => key[q[i]] <= key[q[j]]
  <2>1. q \in Seq(Threads) /\ InOrder(q, key)
    BY DEF IsQueue
  <2> HIDE DEF key
  <2>2. Len(q) \in Nat /\ DOMAIN q = 1 .. Len(q)
    BY <2>1, LenProperties
  <2>3. \A j \in DOMAIN q : q[j] \in Threads
    BY <2>1, <2>2, ElementOfSeq
  <2>4. QED
    BY <1>1, <2>1, <2>2, <2>3 DEF InOrder
<1>4. CASE I = {}
  <2>1. InsertSorted(q, l, t, p) = Append(q, t)
    BY <1>4 DEF InsertSorted, SelectInSeq
  <2>2. \A j \in DOMAIN q : ~(key[t] < key[q[j]])
    BY <1>2, <1>3, <1>4
  <2>3. key[t] \in Int
    BY <1>1
  <2> HIDE DEF key, I
  <2>4. \A j \in DOMAIN q : key[q[j]] <= key[t]
    BY <1>3, <2>2, <2>3
  <2>5. IsQueue(q, E, key)
    BY DEF key
  <2>6. IsQueue(Append(q, t), E \cup {t}, key)
    BY <1>1, <2>4, <2>5, QueueAppend
  <2>7. QED
    BY <2>1, <2>6 DEF key
<1>5. CASE I # {}
  <2> DEFINE i == Min(I)
             r == InsertAt(q, i, t)
  <2>1. I \in SUBSET Nat
    BY <1>3
  <2>2. i \in I /\ \A n \in I : i <= n
    <3> HIDE DEF I
    <3>1. QED
      BY <1>5, <2>1, MinProperties
  <2>3. i \in 1 .. Len(q) /\ Precedes(l, t, q[i], p)
    BY <2>2
  <2>4. InsertSorted(q, l, t, p) = r
    <3>1. i # 0
      BY <2>3
    <3>2. SelectInSeq(q, LAMBDA u : Precedes(l, t, u, p)) = i
      BY <1>5 DEF SelectInSeq
    <3> HIDE DEF i
    <3>3. QED
      BY <3>1, <3>2 DEF InsertSorted
  <2>5. \A j \in DOMAIN q : j < i => ~(key[t] < key[q[j]])
    <3> SUFFICES ASSUME NEW j \in DOMAIN q, j < i PROVE ~Precedes(l, t, q[j], p)
      BY <1>2, <1>3
    <3>1. j \notin I
      <4> HIDE DEF I, i, key, r
      <4>1. j \in Nat /\ i \in Nat
        <5>1. Len(q) \in Nat /\ DOMAIN q = 1 .. Len(q)
          BY <1>3
        <5>2. i \in 1 .. Len(q)
          BY <2>3
        <5>3. QED
          BY <5>1, <5>2
      <4>2. QED
        BY <2>2, <4>1
    <3>2. QED
      BY <1>3, <3>1
  <2>6. key[t] \in Int /\ key[t] < key[q[i]]
    BY <1>1, <1>2, <1>3, <2>3
  <2>7. IsQueue(q, E, key)
    BY DEF key
  <2> HIDE DEF key, I, i
  <2>8. r \in Seq(Threads) /\ Inserted(r, q, i, t)
    BY <1>3, <2>3, InsertAtProperties
  <2>9. \A j \in DOMAIN q : j < i => key[q[j]] <= key[t]
    BY <1>3, <2>5, <2>6
  <2>10. ASSUME NEW j \in DOMAIN q, i <= j PROVE key[t] <= key[q[j]]
    <3>1. i \in DOMAIN q /\ (i = j \/ i < j)
      BY <1>3, <2>3, <2>10
    <3>2. key[q[i]] <= key[q[j]]
      BY <1>3, <3>1
    <3>3. key[q[i]] \in Int /\ key[q[j]] \in Int
      BY <1>3, <3>1
    <3>4. QED
      BY <2>6, <3>2, <3>3
  <2>11. i \in 1 .. Len(q) + 1
    BY <1>3, <2>3
  <2> HIDE DEF r
  <2>12. IsQueue(r, E \cup {t}, key)
    BY <1>1, <2>7, <2>8, <2>9, <2>10, <2>11, QueueInsert
  <2>13. QED
    BY <2>4, <2>12 DEF key
<1>6. QED
  BY <1>4, <1>5

LEMMA QueueTail ==
    ASSUME NEW q, NEW E, NEW key \in [Threads -> Int], IsQueue(q, E, key), q # << >>
    PROVE  /\ Head(q) \in E
           /\ \A t \in E : key[Head(q)] <= key[t]
           /\ IsQueue(Tail(q), E \ {Head(q)}, key)
<1>1. /\ q \in Seq(Threads) /\ Len(q) \in Nat /\ DOMAIN q = 1 .. Len(q)
      /\ 1 \in DOMAIN q /\ Head(q) = q[1] /\ ToSet(q) = E
  BY DEF IsQueue
<1>2. Head(q) \in E
  BY <1>1 DEF ToSet
<1>3. \A j \in DOMAIN q : q[j] \in Threads
  BY <1>1, ElementOfSeq
<1>4. ASSUME NEW t \in E PROVE key[Head(q)] <= key[t]
  <2>1. PICK j \in DOMAIN q : t = q[j]
    BY <1>1 DEF ToSet
  <2>2. j = 1 \/ 1 < j
    BY <1>1
  <2>3. 1 < j => key[q[1]] <= key[q[j]]
    BY <1>1 DEF IsQueue, InOrder
  <2>4. QED
    BY <1>1, <1>3, <2>1, <2>2, <2>3
<1>5. Tail(q) \in Seq(Threads) /\ Deleted(Tail(q), q, 1)
  BY <1>1, HeadTailProperties DEF Deleted
<1>6. IsQueue(Tail(q), E \ {q[1]}, key)
  BY <1>1, <1>5, QueueDelete
<1>7. QED
  BY <1>1, <1>2, <1>4, <1>6

LEMMA QueueRemoveFirst ==
    ASSUME NEW q, NEW E, NEW key, IsQueue(q, E, key), NEW t \in E
    PROVE  IsQueue(RemoveFirst(q, t), E \ {t}, key)
<1> DEFINE I == {i \in 1 .. Len(q) : q[i] = t}
           i == Min(I)
<1>1. q \in Seq(Threads) /\ Len(q) \in Nat /\ DOMAIN q = 1 .. Len(q) /\ ToSet(q) = E
  BY DEF IsQueue
<1>2. \E j \in 1 .. Len(q) : q[j] = t
  BY <1>1 DEF ToSet
<1>3. I \in SUBSET Nat /\ I # {}
  BY <1>1, <1>2
<1>4. i \in I
  <2> HIDE DEF I
  <2>1. QED
    BY <1>3, MinProperties
<1>5. SelectInSeq(q, LAMBDA v : v = t) = i
  BY <1>3 DEF SelectInSeq
<1>6. i \in 1 .. Len(q) /\ q[i] = t
  BY <1>4
<1> HIDE DEF I, i
<1>7. RemoveFirst(q, t) = RemoveAt(q, i)
  BY <1>2, <1>5 DEF RemoveFirst
<1>8. RemoveAt(q, i) \in Seq(Threads) /\ Deleted(RemoveAt(q, i), q, i)
  BY <1>1, <1>6, RemoveAtProperties
<1> DEFINE r == RemoveAt(q, i)
<1> HIDE DEF r
<1>9. IsQueue(r, E \ {q[i]}, key)
  BY <1>6, <1>8, QueueDelete DEF r
<1>10. QED
  BY <1>6, <1>7, <1>9 DEF r

(* Only the keys of the queued threads matter. *)
LEMMA QueueRekey ==
    ASSUME NEW q, NEW E, NEW key, NEW key2, IsQueue(q, E, key),
           \A t \in E : key2[t] = key[t]
    PROVE  IsQueue(q, E, key2)
<1>1. \A i \in DOMAIN q : key2[q[i]] = key[q[i]]
  BY DEF IsQueue, ToSet
<1>2. QED
  BY <1>1 DEF IsQueue, InOrder

-----------------------------------------------------------------------------
(* The three queues: the threads of W, each in the queue of its priority.   *)
InLevel(W, p, l) == {t \in W : LevelOf(p[t]) = l}

QueuesOK(queues, W, p, n) ==
    /\ queues \in [Levels -> Seq(Threads)]
    /\ \A l \in Levels : IsQueue(queues[l], InLevel(W, p, l), Key(l, p, n))

Priorities == 0 .. MaxPriority

LEMMA LevelType ==
    \A x \in Priorities : /\ LevelOf(x) \in Levels
                          /\ LevelOf(x) = 3 <=> x < L2Floor
                          /\ LevelOf(x) = 1 <=> x >= L1Floor
BY LevelsAssumption DEF LevelOf, Levels, Priorities

LEMMA EnqueuedQueues ==
    ASSUME NEW queues, NEW W \in SUBSET Threads, NEW p \in [Threads -> Priorities],
           next \in [Threads -> Bursts], QueuesOK(queues, W, p, next),
           NEW t \in Threads, t \notin W
    PROVE  QueuesOK(Enqueued(queues, t, p), W \cup {t}, p, next)
<1> DEFINE l == LevelOf(p[t])
           r == IF l = 3 THEN Append(queues[l], t) ELSE InsertSorted(queues[l], l, t, p)
           E == InLevel(W, p, l)
           key == Key(l, p, next)
<1>1. l \in Levels
  BY LevelType
<1>2. p \in [Threads -> Int] /\ next \in [Threads -> Int]
  BY LevelsAssumption DEF Priorities, Bursts
<1>3. IsQueue(queues[l], E, key) /\ t \notin E
  BY <1>1 DEF QueuesOK, InLevel
<1>4. key \in [Threads -> Int]
  BY <1>2, KeyType
<1>5. IsQueue(r, E \cup {t}, key)
  <2>1. CASE l = 3
    <3>1. \A u \in Threads : key[u] = 0
      BY <2>1 DEF Key
    <3>2. \A j \in DOMAIN queues[l] : queues[l][j] \in Threads
      BY <1>3, ElementOfSeq DEF IsQueue
    <3>3. \A j \in DOMAIN queues[l] : key[queues[l][j]] <= key[t]
      BY <3>1, <3>2
    <3> HIDE DEF l, E, key
    <3>4. IsQueue(Append(queues[l], t), E \cup {t}, key)
      BY <1>3, <1>4, <3>3, QueueAppend
    <3>5. QED
      BY <2>1, <3>4
  <2>2. CASE l # 3
    <3>1. l \in {1, 2}
      BY <1>1, <2>2 DEF Levels
    <3> HIDE DEF l, E
    <3>2. IsQueue(InsertSorted(queues[l], l, t, p), E \cup {t}, key)
      BY <1>2, <1>3, <3>1, QueueInsertSorted
    <3>3. QED
      BY <2>2, <3>2
  <2>3. QED
    BY <2>1, <2>2
<1>6. E \cup {t} = InLevel(W \cup {t}, p, l)
  BY DEF InLevel
<1>7. \A k \in Levels : k # l => InLevel(W \cup {t}, p, k) = InLevel(W, p, k)
  BY DEF InLevel
<1> HIDE DEF E
<1>8. Enqueued(queues, t, p) = [queues EXCEPT ![l] = r]
  BY DEF Enqueued, QueuesOK
<1>9. r \in Seq(Threads)
  BY <1>5 DEF IsQueue
<1> HIDE DEF l, r, key
<1>10. QED
  <2> DEFINE new == [queues EXCEPT ![l] = r]
  <2>1. new \in [Levels -> Seq(Threads)]
    BY <1>9 DEF QueuesOK
  <2>2. new[l] = r /\ \A k \in Levels : k # l => new[k] = queues[k]
    BY <1>1 DEF QueuesOK
  <2> HIDE DEF new
  <2>3. IsQueue(new[l], InLevel(W \cup {t}, p, l), Key(l, p, next))
    BY <1>5, <1>6, <2>2 DEF key
  <2>4. \A k \in Levels : k # l => IsQueue(new[k], InLevel(W \cup {t}, p, k), Key(k, p, next))
    BY <1>7, <2>2 DEF QueuesOK
  <2>5. QED
    BY <1>8, <2>1, <2>3, <2>4 DEF QueuesOK, new

(* A queue that loses a thread. *)
LEMMA ShortenedQueues ==
    ASSUME NEW queues, NEW W, NEW p, NEW n, QueuesOK(queues, W, p, n),
           NEW l \in Levels, NEW t \in W, LevelOf(p[t]) = l,
           NEW r, IsQueue(r, InLevel(W, p, l) \ {t}, Key(l, p, n))
    PROVE  QueuesOK([queues EXCEPT ![l] = r], W \ {t}, p, n)
<1> DEFINE new == [queues EXCEPT ![l] = r]
<1>1. r \in Seq(Threads)
  BY DEF IsQueue
<1>2. new \in [Levels -> Seq(Threads)]
  BY <1>1 DEF QueuesOK
<1>3. new[l] = r /\ \A k \in Levels : k # l => new[k] = queues[k]
  BY DEF QueuesOK
<1>4. \A k \in Levels : k # l => InLevel(W \ {t}, p, k) = InLevel(W, p, k)
  BY DEF InLevel
<1>5. InLevel(W, p, l) \ {t} = InLevel(W \ {t}, p, l)
  BY DEF InLevel
<1> HIDE DEF new
<1>6. IsQueue(new[l], InLevel(W \ {t}, p, l), Key(l, p, n))
  BY <1>3, <1>5
<1>7. \A k \in Levels : k # l => IsQueue(new[k], InLevel(W \ {t}, p, k), Key(k, p, n))
  BY <1>3, <1>4 DEF QueuesOK
<1>8. QED
  BY <1>2, <1>6, <1>7 DEF QueuesOK, new

LEMMA RemovedQueues ==
    ASSUME NEW queues, NEW W, NEW p, NEW n, QueuesOK(queues, W, p, n),
           NEW l \in Levels, NEW t \in W, LevelOf(p[t]) = l
    PROVE  QueuesOK([queues EXCEPT ![l] = RemoveFirst(@, t)], W \ {t}, p, n)
<1> DEFINE E == InLevel(W, p, l)
           key == Key(l, p, n)
<1>1. IsQueue(queues[l], E, key) /\ t \in E
  BY DEF QueuesOK, InLevel
<1> HIDE DEF E, key
<1>2. IsQueue(RemoveFirst(queues[l], t), E \ {t}, key)
  BY <1>1, QueueRemoveFirst
<1> DEFINE r == RemoveFirst(queues[l], t)
<1> HIDE DEF r
<1>3. QueuesOK([queues EXCEPT ![l] = r], W \ {t}, p, n)
  BY <1>2, ShortenedQueues DEF E, key, r
<1>4. QED
  BY <1>3 DEF r

LEMMA TopLevelProperties ==
    ASSUME NEW queues, TopLevel(queues) # 0
    PROVE  /\ TopLevel(queues) \in Levels
           /\ queues[TopLevel(queues)] # << >>
           /\ \A k \in Levels : k < TopLevel(queues) => queues[k] = << >>
<1> DEFINE Top(l) == queues[l] # << >> /\ \A k \in 1 .. l - 1 : queues[k] = << >>
<1>1. \E l \in Levels : queues[l] # << >>
  BY DEF TopLevel
<1>2. \E l \in Levels : Top(l)
  <2>1. CASE queues[1] # << >>
    <3>1. Top(1)
      BY <2>1
    <3>2. QED
      BY <3>1 DEF Levels
  <2>2. CASE queues[1] = << >> /\ queues[2] # << >>
    <3>1. Top(2)
      BY <2>2
    <3>2. QED
      BY <3>1 DEF Levels
  <2>3. CASE queues[1] = << >> /\ queues[2] = << >>
    <3>1. queues[3] # << >>
      BY <1>1, <2>3 DEF Levels
    <3>2. Top(3)
      BY <2>3, <3>1
    <3>3. QED
      BY <3>2 DEF Levels
  <2>4. QED
    BY <2>1, <2>2, <2>3
<1>3. TopLevel(queues) = CHOOSE l \in Levels : Top(l)
  BY <1>1 DEF TopLevel
<1>4. TopLevel(queues) \in Levels /\ Top(TopLevel(queues))
  <2> HIDE DEF Top
  <2>1. QED
    BY <1>2, <1>3
<1>5. QED
  BY <1>4 DEF Levels

(* What FindNextToRun takes, and what it leaves. *)
LEMMA BestProperties ==
    ASSUME NEW queues, NEW W \in SUBSET Threads, priority \in [Threads -> Priorities],
           next \in [Threads -> Bursts], QueuesOK(queues, W, priority, next),
           TopLevel(queues) # 0
    PROVE  /\ Best(queues) \in W
           /\ QueuesOK(Rest(queues), W \ {Best(queues)}, priority, next)
           /\ \A t \in W : ~Outranks(t, Best(queues))
<1> DEFINE l == TopLevel(queues)
           E == InLevel(W, priority, l)
           key == Key(l, priority, next)
           b == Best(queues)
<1>1. l \in Levels /\ queues[l] # << >> /\ \A k \in Levels : k < l => queues[k] = << >>
  BY TopLevelProperties
<1>2. priority \in [Threads -> Int] /\ next \in [Threads -> Int]
  BY LevelsAssumption DEF Priorities, Bursts
<1>3. key \in [Threads -> Int]
  BY <1>2, KeyType
<1>4. IsQueue(queues[l], E, key)
  BY <1>1 DEF QueuesOK
<1>5. b = Head(queues[l]) /\ Rest(queues) = [queues EXCEPT ![l] = Tail(queues[l])]
  BY <1>1 DEF Best, Rest, Dequeued, QueuesOK
<1>6. /\ b \in E
      /\ \A t \in E : key[b] <= key[t]
      /\ IsQueue(Tail(queues[l]), E \ {b}, key)
  <2> HIDE DEF E, key, l, b
  <2>1. QED
    BY <1>1, <1>3, <1>4, <1>5, QueueTail
<1>7. b \in W /\ LevelOf(priority[b]) = l
  BY <1>6 DEF InLevel
<1>8. QueuesOK(Rest(queues), W \ {b}, priority, next)
  <2> DEFINE r == Tail(queues[l])
  <2> HIDE DEF r, l, b
  <2>1. QueuesOK([queues EXCEPT ![l] = r], W \ {b}, priority, next)
    BY <1>1, <1>6, <1>7, ShortenedQueues DEF r
  <2>2. QED
    BY <1>5, <2>1 DEF r
<1>9. ASSUME NEW t \in W PROVE ~Outranks(t, b)
  <2> DEFINE k == LevelOf(priority[t])
  <2>1. t \in Threads /\ b \in Threads /\ k \in Levels
    BY <1>7, LevelType
  <2>2. ~(k < l)
    <3> SUFFICES ASSUME k < l PROVE FALSE
      OBVIOUS
    <3>1. IsQueue(queues[k], InLevel(W, priority, k), Key(k, priority, next))
      BY <2>1 DEF QueuesOK
    <3>2. t \in ToSet(queues[k])
      BY <3>1 DEF IsQueue, InLevel
    <3>3. queues[k] = << >>
      BY <1>1, <2>1
    <3>4. QED
      BY <3>2, <3>3 DEF ToSet
  <2>3. k = l => key[b] <= key[t]
    BY <1>6 DEF InLevel
  <2>4. l = 2 /\ k = 2 => ~(priority[t] > priority[b])
    BY <1>2, <2>1, <2>3 DEF Key
  <2>5. l = 1 /\ k = 1 => ~(next[t] < next[b])
    BY <1>2, <2>1, <2>3 DEF Key
  <2>6. QED
    BY <1>7, <2>2, <2>4, <2>5 DEF Outranks
<1>10. QED
  BY <1>7, <1>8, <1>9

(* Priorities and bursts of threads that are not queued do not matter. *)
LEMMA RekeyedQueues ==
    ASSUME NEW queues, NEW W \in SUBSET Threads, NEW p, NEW n, NEW p2, NEW n2,
           QueuesOK(queues, W, p, n),
           \A t \in W : p2[t] = p[t] /\ n2[t] = n[t]
    PROVE  QueuesOK(queues, W, p2, n2)
<1> SUFFICES ASSUME NEW l \in Levels
             PROVE  IsQueue(queues[l], InLevel(W, p2, l), Key(l, p2, n2))
  BY DEF QueuesOK
<1>1. IsQueue(queues[l], InLevel(W, p, l), Key(l, p, n))
  BY DEF QueuesOK
<1>2. InLevel(W, p2, l) = InLevel(W, p, l)
  BY DEF InLevel
<1>3. \A t \in InLevel(W, p, l) : Key(l, p2, n2)[t] = Key(l, p, n)[t]
  BY DEF InLevel, Key
<1>4. QED
  BY <1>1, <1>2, <1>3, QueueRekey

LEMMA PlacesProperties ==
    ASSUME NEW queues, NEW W \in SUBSET Threads, NEW p \in [Threads -> Priorities], NEW n,
           QueuesOK(queues, W, p, n), NEW t \in Threads
    PROVE  /\ t \notin W => Places(queues, t) = {}
           /\ t \in W => \E i \in DOMAIN queues[LevelOf(p[t])] :
                             Places(queues, t) = {<< LevelOf(p[t]), i >>}
<1> DEFINE k == LevelOf(p[t])
           At(l) == {i \in DOMAIN queues[l] : queues[l][i] = t}
<1>1. k \in Levels
  BY LevelType
<1>2. \A l \in Levels : t \in ToSet(queues[l]) <=> t \in W /\ k = l
  BY DEF QueuesOK, IsQueue, InLevel
<1>3. \A l \in Levels : ~(t \in W /\ k = l) => At(l) = {}
  BY <1>2 DEF ToSet
<1>4. Places(queues, t) = UNION {{l} \X At(l) : l \in Levels}
  BY DEF Places
<1>5. CASE t \notin W
  <2>1. \A l \in Levels : At(l) = {}
    BY <1>3, <1>5
  <2> HIDE DEF At
  <2>2. Places(queues, t) = {}
    BY <1>4, <2>1
  <2>3. QED
    BY <1>5, <2>2
<1>6. CASE t \in W
  <2>1. PICK i \in DOMAIN queues[k] : queues[k][i] = t
    BY <1>1, <1>2, <1>6 DEF ToSet
  <2>2. IsInjective(queues[k])
    BY <1>1 DEF QueuesOK, IsQueue
  <2>3. At(k) = {i}
    BY <2>1, <2>2 DEF IsInjective
  <2>4. \A l \in Levels : l # k => At(l) = {}
    BY <1>3
  <2> HIDE DEF At, k
  <2>5. Places(queues, t) = {k} \X {i}
    BY <1>1, <1>4, <2>3, <2>4
  <2>6. {k} \X {i} = {<< k, i >>}
    OBVIOUS
  <2>7. QED
    BY <1>6, <2>1, <2>5, <2>6 DEF k
<1>7. QED
  BY <1>5, <1>6

(* The iterator stays in the queues, and on a thread that did not move in   *)
(* the queue it is in.                                                      *)
LEMMA AfterProperties ==
    ASSUME NEW queues, NEW W \in SUBSET Threads, NEW p \in [Threads -> Priorities], NEW n,
           QueuesOK(queues, W, p, n), NEW t \in Threads
    PROVE  /\ After(queues, t) \in Threads \cup {NoThread}
           /\ t \in W =>
                  After(queues, t) \in InLevel(W, p, LevelOf(p[t])) \cup {NoThread}
<1> DEFINE k == LevelOf(p[t])
<1>1. CASE t \notin W
  <2>1. After(queues, t) = NoThread
    BY <1>1, PlacesProperties DEF After
  <2>2. QED
    BY <1>1, <2>1
<1>2. CASE t \in W
  <2>1. PICK i \in DOMAIN queues[k] : Places(queues, t) = {<< k, i >>}
    BY <1>2, PlacesProperties
  <2>2. k \in Levels
    BY LevelType
  <2>3. /\ queues[k] \in Seq(Threads) /\ Len(queues[k]) \in Nat
        /\ DOMAIN queues[k] = 1 .. Len(queues[k]) /\ ToSet(queues[k]) = InLevel(W, p, k)
    BY <2>2 DEF QueuesOK, IsQueue
  <2>4. (CHOOSE x \in Places(queues, t) : TRUE) = << k, i >>
    BY <2>1
  <2> HIDE DEF k
  <2>5. After(queues, t) = IF i = Len(queues[k]) THEN NoThread ELSE queues[k][i + 1]
    BY <2>1, <2>4 DEF After
  <2>6. i # Len(queues[k]) => queues[k][i + 1] \in InLevel(W, p, k)
    <3>1. i # Len(queues[k]) => i + 1 \in DOMAIN queues[k]
      BY <2>1, <2>3
    <3>2. QED
      BY <2>3, <3>1 DEF ToSet
  <2>7. InLevel(W, p, k) \subseteq Threads
    BY DEF InLevel
  <2>8. QED
    BY <2>5, <2>6, <2>7 DEF k
<1>3. QED
  BY <1>1, <1>2

-----------------------------------------------------------------------------
(* The inductive invariant. *)

Waiting == {t \in Threads : status[t] = "ready"}

QueuesInv == QueuesOK(ready, Waiting, priority, next)

(* While Aging runs nothing else does, and the iterator of L1, made at its  *)
(* start, stays on ready threads of L1 whatever the first two passes move.  *)
AgingInv ==
    /\ aging # NotAging => aging.pass \in 1 .. 3 /\ cpu \in {"tick", "idle", "aborted"}
    /\ aging.pass \in {2, 3} =>
           aging.heads[1] \in InLevel(Waiting, priority, 1) \cup {NoThread}
    /\ aging.pass = 1 => aging.at \in InLevel(Waiting, priority, 1) \cup {NoThread}

IInv == TypeOK /\ QueuesInv /\ OneRunning /\ DestroyedOffCpu /\ AgingInv

LEMMA QueuedOnce ==
    ASSUME IInv PROVE ReadyIsQueuedOnce
<1>1. QueuesOK(ready, Waiting, priority, next) /\ priority \in [Threads -> Priorities]
  BY DEF IInv, QueuesInv, TypeOK, Priorities
<1>2. Waiting \in SUBSET Threads
  BY DEF Waiting
<1> SUFFICES ASSUME NEW t \in Threads
             PROVE  IF status[t] = "ready"
                    THEN \E i \in DOMAIN ready[LevelOf(priority[t])] :
                             Places(ready, t) = {<< LevelOf(priority[t]), i >>}
                    ELSE Places(ready, t) = {}
  BY DEF ReadyIsQueuedOnce
<1>3. t \in Waiting <=> status[t] = "ready"
  BY DEF Waiting
<1>4. QED
  BY <1>1, <1>2, <1>3, PlacesProperties

LEMMA InitIInv == Init => IInv
<1> SUFFICES ASSUME Init PROVE IInv
  OBVIOUS
<1> USE ThreadsAssumption, LevelsAssumption
<1>1. TypeOK
  <2>1. priority \in [Threads -> 0 .. MaxPriority]
    <3>1. Forked \cup {MaxPriority} \subseteq 0 .. MaxPriority
      <4>1. MaxPriority \in 0 .. MaxPriority
        OBVIOUS
      <4>2. Forked \subseteq 0 .. MaxPriority
        BY Zenon
      <4>3. QED
        BY <4>1, <4>2, Zenon
    <3>2. priority \in [Threads -> Forked \cup {MaxPriority}]
      BY DEF Init
    <3>3. QED
      BY <3>1, <3>2
  <2>2. /\ status \in [Threads -> Statuses] /\ next \in [Threads -> Bursts]
        /\ waited \in [Threads -> 0 .. AgeLimit]
    BY DEF Init, Statuses, Bursts
  <2>3. ready \in [Levels -> Seq(Threads)]
    BY DEF Init
  <2>4. aging \in [pass : 0 .. 3, at : Threads \cup {NoThread},
                   heads : (Threads \cup {NoThread}) \X (Threads \cup {NoThread})]
    BY DEF Init, NotAging
  <2>5. QED
    BY <2>1, <2>2, <2>3, <2>4 DEF Init, TypeOK, CpuStates
<1>2. QueuesInv
  <2>1. Waiting = {}
    BY DEF Init, Waiting
  <2>2. \A l \in Levels : IsQueue(<< >>, InLevel({}, priority, l), Key(l, priority, next))
    BY DEF IsQueue, InLevel, IsInjective, InOrder, ToSet
  <2>3. ready \in [Levels -> Seq(Threads)] /\ \A l \in Levels : ready[l] = << >>
    BY DEF Init
  <2>4. QED
    BY <2>1, <2>2, <2>3 DEF QueuesInv, QueuesOK
<1>3. OneRunning /\ DestroyedOffCpu
  BY DEF Init, OneRunning, DestroyedOffCpu
<1>4. AgingInv
  BY DEF Init, AgingInv, NotAging
<1>5. QED
  BY <1>1, <1>2, <1>3, <1>4 DEF IInv

-----------------------------------------------------------------------------
(* Steps that several actions take. *)

LEMMA CheckPreemptType ==
    ASSUME NEW queues, NEW st, NEW flag \in BOOLEAN
    PROVE  /\ CheckPreempt(queues, st, flag).returns \in BOOLEAN
           /\ CheckPreempt(queues, st, flag).flag \in BOOLEAN
<1>1. CASE flag = TRUE
  BY <1>1, Zenon DEF CheckPreempt
<1>2. CASE flag = FALSE
  BY <1>2 DEF CheckPreempt
<1>3. QED
  BY <1>1, <1>2

LEMMA ReadyToRunStep ==
    ASSUME IInv, NEW t \in Threads, status[t] # "ready", ReadyToRun(t)
    PROVE  /\ status' = [status EXCEPT ![t] = "ready"] /\ status' \in [Threads -> Statuses]
           /\ ready' \in [Levels -> Seq(Threads)]
           /\ preempFlag' \in BOOLEAN
           /\ UNCHANGED << priority, next, waited >>
           /\ QueuesInv'
<1> DEFINE st == [status EXCEPT ![t] = "ready"]
<1>1. /\ status \in [Threads -> Statuses] /\ priority \in [Threads -> Priorities]
      /\ next \in [Threads -> Bursts] /\ preempFlag \in BOOLEAN
      /\ QueuesOK(ready, Waiting, priority, next)
  BY DEF IInv, TypeOK, Priorities, QueuesInv
<1>2. /\ ready' = Enqueued(ready, t, priority) /\ status' = st
      /\ preempFlag' = CheckPreempt(Enqueued(ready, t, priority), st, preempFlag).returns
      /\ UNCHANGED << priority, next, waited >>
  BY DEF ReadyToRun
<1>3. status' \in [Threads -> Statuses]
  BY <1>1, <1>2 DEF Statuses
<1>4. Waiting \in SUBSET Threads /\ t \notin Waiting /\ Waiting' = Waiting \cup {t}
  BY <1>1, <1>2 DEF Waiting
<1>5. QueuesOK(ready', Waiting \cup {t}, priority, next)
  BY <1>1, <1>2, <1>4, EnqueuedQueues
<1>6. QueuesInv'
  BY <1>2, <1>4, <1>5 DEF QueuesInv
<1>7. ready' \in [Levels -> Seq(Threads)]
  BY <1>5 DEF QueuesOK
<1>8. preempFlag' \in BOOLEAN
  BY <1>1, <1>2, CheckPreemptType
<1>9. QED
  BY <1>2, <1>3, <1>6, <1>7, <1>8

(* The CPU goes to t; st are the states before it is marked as running.     *)
LEMMA RunStep ==
    ASSUME NEW t \in Threads, NEW queues, NEW st \in [Threads -> Statuses],
           NEW finish \in BOOLEAN, Run(t, queues, st, finish),
           QueuesOK(queues, {u \in Threads : st[u] = "ready"} \ {t}, priority', next'),
           \A u \in Threads : st[u] # "running",
           current \in Threads, toBeDestroyed = NoThread,
           finish => st[current] = "blocked" /\ t # current,
           aging' = NotAging
    PROVE  /\ status' \in [Threads -> Statuses] /\ ready' \in [Levels -> Seq(Threads)]
           /\ current' \in Threads /\ finishing' \in BOOLEAN /\ cpu' \in CpuStates
           /\ toBeDestroyed' \in Threads \cup {NoThread}
           /\ QueuesInv' /\ OneRunning' /\ DestroyedOffCpu' /\ AgingInv'
<1> DEFINE W == {u \in Threads : st[u] = "ready"}
<1>1. /\ ready' = queues /\ current' = t /\ status' = [st EXCEPT ![t] = "running"]
      /\ toBeDestroyed' = (IF finish THEN current ELSE toBeDestroyed)
      /\ finishing' = FALSE /\ cpu' = "switched"
  BY DEF Run
<1>2. /\ status' \in [Threads -> Statuses] /\ status'[t] = "running"
      /\ \A u \in Threads : u # t => status'[u] = st[u]
  BY <1>1 DEF Statuses
<1>3. Waiting' = W \ {t}
  BY <1>2 DEF Waiting
<1>4. QueuesInv' /\ ready' \in [Levels -> Seq(Threads)]
  <2> HIDE DEF W
  <2>1. QueuesOK(ready', Waiting', priority', next')
    BY <1>1, <1>3 DEF W
  <2>2. QED
    BY <2>1 DEF QueuesInv, QueuesOK
<1>5. OneRunning'
  BY <1>1, <1>2 DEF OneRunning
<1>6. toBeDestroyed' # NoThread => /\ toBeDestroyed' = current /\ current # t
                                   /\ st[current] = "blocked"
  BY <1>1
<1>7. DestroyedOffCpu'
  BY <1>1, <1>2, <1>6 DEF DestroyedOffCpu
<1>8. AgingInv'
  BY DEF AgingInv, NotAging
<1>9. cpu' \in CpuStates /\ toBeDestroyed' \in Threads \cup {NoThread}
  BY <1>1 DEF CpuStates
<1>10. QED
  BY <1>1, <1>2, <1>4, <1>5, <1>7, <1>8, <1>9

LEMMA QueuesUnchanged ==
    ASSUME QueuesInv, UNCHANGED << status, priority, next, ready >>
    PROVE  /\ QueuesInv' /\ Waiting' = Waiting
           /\ InLevel(Waiting, priority, 1)' = InLevel(Waiting, priority, 1)
<1>1. Waiting' = Waiting
  BY DEF Waiting
<1>2. QED
  BY <1>1 DEF QueuesInv, InLevel

LEMMA NotAgingType ==
    NotAging \in [pass : 0 .. 3, at : Threads \cup {NoThread},
                  heads : (Threads \cup {NoThread}) \X (Threads \cup {NoThread})]
BY DEF NotAging

LEMMA WaitingType == Waiting \in SUBSET Threads
BY DEF Waiting

(* What the current thread does. *)

LEMMA ComputeStep == ASSUME IInv, Compute PROVE IInv'
<1> USE DEF IInv
<1>1. QueuesInv'
  BY QueuesUnchanged DEF Compute, threadVars
<1>2. aging = NotAging
  BY DEF Compute, AgingInv
<1>3. TypeOK'
  BY DEF Compute, TypeOK, threadVars, flagVars, CpuStates
<1>4. OneRunning' /\ DestroyedOffCpu' /\ AgingInv'
  BY <1>2 DEF Compute, OneRunning, DestroyedOffCpu, AgingInv, NotAging, threadVars
<1>5. QED
  BY <1>1, <1>3, <1>4

LEMMA MakeReadyStep ==
    ASSUME IInv, NEW t \in Threads, NEW from \in {"new", "blocked"}, MakeReady(t, from)
    PROVE  IInv'
<1>1. /\ cpu = "run" /\ status[t] = from /\ ReadyToRun(t) /\ cpu' = "tick"
      /\ UNCHANGED << current, inP, finishing, yieldOnReturn, toBeDestroyed, timedOut,
                      aging >>
  BY DEF MakeReady
<1>2. status[t] # "ready"
  BY <1>1
<1>3. /\ status' = [status EXCEPT ![t] = "ready"] /\ status' \in [Threads -> Statuses]
      /\ ready' \in [Levels -> Seq(Threads)]
      /\ preempFlag' \in BOOLEAN
      /\ UNCHANGED << priority, next, waited >>
      /\ QueuesInv'
  BY <1>1, <1>2, ReadyToRunStep
<1>4. aging = NotAging
  BY <1>1 DEF IInv, AgingInv
<1>5. TypeOK'
  BY <1>1, <1>3 DEF IInv, TypeOK, CpuStates
<1>6. status[current] = "running" /\ current # t /\ current \in Threads
  BY <1>1 DEF IInv, OneRunning, TypeOK
<1>7. OneRunning'
  BY <1>1, <1>3, <1>6 DEF IInv, OneRunning, TypeOK
<1>8. DestroyedOffCpu'
  BY <1>1 DEF IInv, DestroyedOffCpu
<1>9. AgingInv'
  BY <1>1, <1>4 DEF AgingInv, NotAging
<1>10. QED
  BY <1>3, <1>5, <1>7, <1>8, <1>9 DEF IInv

LEMMA DeviceCallBackStep ==
    ASSUME IInv, NEW t \in Threads, DeviceCallBack(t)
    PROVE  IInv'
<1>1. /\ cpu \in {"tick", "idle"} /\ aging = NotAging /\ status[t] = "blocked"
      /\ ~(finishing /\ t = current) /\ ReadyToRun(t)
      /\ UNCHANGED << current, inP, finishing, cpu, yieldOnReturn, toBeDestroyed, timedOut,
                      aging >>
  BY DEF DeviceCallBack, HandlersMayRun
<1>2. status[t] # "ready"
  BY <1>1
<1>3. /\ status' = [status EXCEPT ![t] = "ready"] /\ status' \in [Threads -> Statuses]
      /\ ready' \in [Levels -> Seq(Threads)]
      /\ preempFlag' \in BOOLEAN
      /\ UNCHANGED << priority, next, waited >>
      /\ QueuesInv'
  BY <1>1, <1>2, ReadyToRunStep
<1>4. TypeOK'
  BY <1>1, <1>3 DEF IInv, TypeOK
<1>5. OneRunning'
  BY <1>1, <1>3 DEF IInv, OneRunning, TypeOK
<1>6. DestroyedOffCpu'
  <2>1. toBeDestroyed' = NoThread
    BY <1>1 DEF IInv, DestroyedOffCpu
  <2>2. finishing => t # current /\ status[current] = "blocked" /\ cpu = "idle"
    BY <1>1 DEF IInv, DestroyedOffCpu
  <2>3. t # current => status'[current] = status[current]
    BY <1>3 DEF IInv, TypeOK
  <2>4. QED
    BY <1>1, <2>1, <2>2, <2>3 DEF DestroyedOffCpu
<1>7. AgingInv'
  BY <1>1 DEF AgingInv, NotAging
<1>8. QED
  BY <1>3, <1>4, <1>5, <1>6, <1>7 DEF IInv

(* The thread that gets the CPU when the current one cannot have it. *)
LEMMA BestOfReady ==
    ASSUME IInv, TopLevel(ready) # 0
    PROVE  /\ Best(ready) \in Waiting
           /\ QueuesOK(Rest(ready), Waiting \ {Best(ready)}, priority, next)
           /\ \A t \in Waiting : ~Outranks(t, Best(ready))
<1>1. /\ priority \in [Threads -> Priorities] /\ next \in [Threads -> Bursts]
      /\ QueuesOK(ready, Waiting, priority, next)
  BY DEF IInv, TypeOK, QueuesInv, Priorities
<1>2. QED
  BY <1>1, WaitingType, BestProperties

LEMMA SleepStep ==
    ASSUME IInv, NEW finish \in BOOLEAN, Sleep(finish)
    PROVE  IInv'
<1> DEFINE st == [status EXCEPT ![current] = "blocked"]
<1>1. /\ cpu \in {"run", "retry"}
      /\ UNCHANGED << priority, waited, flagVars, timedOut, aging >>
      /\ inP' = IF finish THEN inP ELSE inP \cup {current}
  BY DEF Sleep
<1>2. PICK b \in Bursts : next' = [next EXCEPT ![current] = b]
  BY DEF Sleep
<1>3. aging = NotAging /\ aging' = NotAging
  BY <1>1 DEF IInv, AgingInv
<1>4. /\ current \in Threads /\ status[current] = "running" /\ toBeDestroyed = NoThread
      /\ status \in [Threads -> Statuses]
  BY <1>1 DEF IInv, TypeOK, OneRunning, DestroyedOffCpu
<1>5. next' \in [Threads -> Bursts] /\ \A u \in Waiting : next'[u] = next[u]
  BY <1>2, <1>4 DEF IInv, TypeOK, Waiting
<1>6. /\ st \in [Threads -> Statuses] /\ st[current] = "blocked"
      /\ \A u \in Threads : u # current => st[u] = status[u]
  BY <1>4 DEF Statuses
<1>7. (\A u \in Threads : st[u] # "running") /\ {u \in Threads : st[u] = "ready"} = Waiting
  <2> HIDE DEF st
  <2>1. QED
    BY <1>4, <1>6 DEF IInv, OneRunning, Waiting
<1>8. inP' \subseteq Threads /\ aging' = aging
  BY <1>1, <1>4 DEF IInv, TypeOK
<1>9. CASE TopLevel(ready) # 0
  <2> DEFINE best == Best(ready)
  <2>1. /\ best \in Waiting /\ QueuesOK(Rest(ready), Waiting \ {best}, priority, next)
    BY <1>9, BestOfReady
  <2>2. Run(best, Rest(ready), st, finish)
    BY <1>9 DEF Sleep
  <2>3. best \in Threads /\ best # current
    BY <1>4, <2>1 DEF Waiting
  <2> HIDE DEF st, best
  <2>4. QueuesOK(Rest(ready), Waiting \ {best}, priority', next')
    BY <1>1, <1>5, <2>1, WaitingType, RekeyedQueues
  <2>5. /\ status' \in [Threads -> Statuses] /\ ready' \in [Levels -> Seq(Threads)]
        /\ current' \in Threads /\ finishing' \in BOOLEAN /\ cpu' \in CpuStates
        /\ toBeDestroyed' \in Threads \cup {NoThread}
        /\ QueuesInv' /\ OneRunning' /\ DestroyedOffCpu' /\ AgingInv'
    BY <1>3, <1>4, <1>6, <1>7, <2>2, <2>3, <2>4, RunStep
  <2>6. TypeOK'
    BY <1>1, <1>5, <1>8, <2>5 DEF IInv, TypeOK, flagVars
  <2>7. QED
    BY <2>5, <2>6 DEF IInv
<1>10. CASE TopLevel(ready) = 0
  <2>1. /\ status' = st /\ finishing' = finish /\ cpu' = "idle"
        /\ UNCHANGED << ready, current, toBeDestroyed >>
    BY <1>10 DEF Sleep
  <2> HIDE DEF st
  <2>2. Waiting' = Waiting
    BY <1>7, <2>1 DEF Waiting
  <2>3. QueuesInv'
    <3>1. QueuesOK(ready, Waiting, priority, next)
      BY DEF IInv, QueuesInv
    <3>2. QueuesOK(ready, Waiting, priority', next')
      BY <1>1, <1>5, <3>1, WaitingType, RekeyedQueues
    <3>3. QED
      BY <2>1, <2>2, <3>2 DEF QueuesInv
  <2>4. TypeOK'
    BY <1>1, <1>5, <1>6, <1>8, <2>1 DEF IInv, TypeOK, CpuStates, flagVars
  <2>5. OneRunning' /\ DestroyedOffCpu'
    BY <1>4, <1>6, <1>7, <2>1 DEF OneRunning, DestroyedOffCpu
  <2>6. AgingInv'
    BY <1>3 DEF AgingInv, NotAging
  <2>7. QED
    BY <2>3, <2>4, <2>5, <2>6 DEF IInv
<1>11. QED
  BY <1>9, <1>10

LEMMA ResumeStep == ASSUME IInv, Resume PROVE IInv'
<1>1. /\ cpu = "switched" /\ cpu' \in {"tick", "retry"} /\ inP' \in {inP, inP \ {current}}
      /\ status' = [t \in Threads |-> IF t = toBeDestroyed THEN "gone" ELSE status[t]]
      /\ toBeDestroyed' = NoThread
      /\ UNCHANGED << priority, next, waited, ready, current, finishing, flagVars,
                      timedOut, aging >>
  BY DEF Resume
<1>2. /\ status \in [Threads -> Statuses] /\ current \in Threads
      /\ status[current] = "running" /\ toBeDestroyed # current
      /\ toBeDestroyed # NoThread => status[toBeDestroyed] = "blocked"
      /\ ~finishing
  <2>1. status \in [Threads -> Statuses] /\ current \in Threads /\ finishing \in BOOLEAN
    BY DEF IInv, TypeOK
  <2>2. status[current] = "running"
    BY <1>1 DEF IInv, OneRunning
  <2>3. finishing # TRUE
    BY <1>1 DEF IInv, DestroyedOffCpu
  <2>4. toBeDestroyed # NoThread =>
            toBeDestroyed # current /\ status[toBeDestroyed] = "blocked"
    BY DEF IInv, DestroyedOffCpu
  <2>5. toBeDestroyed # current
    BY <2>1, <2>4, ThreadsAssumption
  <2>6. QED
    BY <2>1, <2>2, <2>3, <2>4, <2>5
<1>3. Waiting' = Waiting
  BY <1>1, <1>2, ThreadsAssumption DEF Waiting
<1>4. QueuesInv'
  BY <1>1, <1>3 DEF IInv, QueuesInv
<1>5. status' \in [Threads -> Statuses]
  BY <1>1, <1>2 DEF Statuses
<1>6. aging = NotAging
  BY <1>1 DEF IInv, AgingInv
<1>7. TypeOK'
  BY <1>1, <1>5 DEF IInv, TypeOK, CpuStates, flagVars
<1>8. OneRunning'
  BY <1>1, <1>2 DEF IInv, OneRunning
<1>9. DestroyedOffCpu' /\ AgingInv'
  BY <1>1, <1>2, <1>6 DEF DestroyedOffCpu, AgingInv, NotAging
<1>10. QED
  BY <1>4, <1>7, <1>8, <1>9 DEF IInv

-----------------------------------------------------------------------------
(* Interrupts. *)

LEMMA FirstProperties ==
    ASSUME QueuesInv, NEW l \in Levels
    PROVE  First(ready[l]) \in InLevel(Waiting, priority, l) \cup {NoThread}
<1>1. ready[l] \in Seq(Threads) /\ ToSet(ready[l]) = InLevel(Waiting, priority, l)
  BY DEF QueuesInv, QueuesOK, IsQueue
<1>2. ready[l] # << >> => Head(ready[l]) \in ToSet(ready[l])
  BY <1>1 DEF ToSet
<1>3. QED
  BY <1>1, <1>2 DEF First

LEMMA TimerStep == ASSUME IInv, TimerCallBack PROVE IInv'
<1>1. /\ cpu \in {"tick", "idle"} /\ timedOut' = TRUE
      /\ aging' = [pass |-> 3, at |-> First(ready[3]),
                   heads |-> << First(ready[1]), First(ready[2]) >>]
      /\ UNCHANGED << status, priority, next, ready, current, inP, finishing, cpu,
                      flagVars, toBeDestroyed >>
  BY DEF TimerCallBack, HandlersMayRun
<1>2. waited' \in [Threads -> 0 .. AgeLimit]
  <2>1. waited \in [Threads -> 0 .. AgeLimit] /\ AgeLimit \in Nat
    BY LevelsAssumption DEF IInv, TypeOK
  <2>2. \A t \in Threads :
            (IF waited[t] < AgeLimit THEN waited[t] + 1 ELSE AgeLimit) \in 0 .. AgeLimit
    BY <2>1
  <2>3. PICK kernelMode \in BOOLEAN :
          waited' = [t \in Threads |->
                        IF \/ status[t] \in {"ready", "blocked"}
                           \/ status[t] = "running" /\ kernelMode
                        THEN IF waited[t] < AgeLimit THEN waited[t] + 1 ELSE AgeLimit
                        ELSE waited[t]]
    BY DEF TimerCallBack
  <2>4. QED
    BY <2>1, <2>2, <2>3
<1>3. QueuesInv'
  BY <1>1, QueuesUnchanged DEF IInv
<1>4. \A l \in Levels : First(ready[l]) \in InLevel(Waiting, priority, l) \cup {NoThread}
  BY FirstProperties DEF IInv
<1>5. /\ First(ready[1]) \in InLevel(Waiting, priority, 1) \cup {NoThread}
      /\ First(ready[1]) \in Threads \cup {NoThread}
      /\ First(ready[2]) \in Threads \cup {NoThread}
      /\ First(ready[3]) \in Threads \cup {NoThread}
  BY <1>4 DEF Levels, InLevel, Waiting
<1>6. aging' \in [pass : 0 .. 3, at : Threads \cup {NoThread},
                  heads : (Threads \cup {NoThread}) \X (Threads \cup {NoThread})]
  BY <1>1, <1>5
<1>7. TypeOK'
  BY <1>1, <1>2, <1>6 DEF IInv, TypeOK, flagVars
<1>8. OneRunning' /\ DestroyedOffCpu'
  BY <1>1 DEF IInv, OneRunning, DestroyedOffCpu
<1>9. AgingInv'
  <2>1. InLevel(Waiting, priority, 1)' = InLevel(Waiting, priority, 1)
    BY <1>1, QueuesUnchanged DEF IInv
  <2>2. aging'.pass = 3 /\ aging'.heads[1] = First(ready[1])
    BY <1>1
  <2>3. QED
    BY <1>1, <1>5, <2>1, <2>2 DEF AgingInv
<1>10. QED
  BY <1>3, <1>7, <1>8, <1>9 DEF IInv

AgingType == [pass : 0 .. 3, at : Threads \cup {NoThread},
              heads : (Threads \cup {NoThread}) \X (Threads \cup {NoThread})]

(* What all the steps of Aging leave as it is. *)
LEMMA AgingFrame ==
    ASSUME IInv, Aging, UNCHANGED << status, next >>, cpu' \in {cpu, "aborted"},
           aging # NotAging,
           QueuesInv', AgingInv',
           ready' \in [Levels -> Seq(Threads)], priority' \in [Threads -> Priorities],
           waited' \in [Threads -> 0 .. AgeLimit], aging' \in AgingType
    PROVE  IInv'
<1>1. UNCHANGED << current, inP, finishing, flagVars, toBeDestroyed, timedOut >>
  BY DEF Aging
<1>2. TypeOK'
  BY <1>1 DEF IInv, TypeOK, AgingType, Priorities, flagVars, CpuStates
<1>3. cpu \in {"tick", "idle", "aborted"}
  BY DEF IInv, AgingInv
<1>4. OneRunning' /\ DestroyedOffCpu'
  BY <1>1, <1>3 DEF IInv, OneRunning, DestroyedOffCpu
<1>5. QED
  BY <1>2, <1>4 DEF IInv

LEMMA AgingTypes ==
    ASSUME IInv
    PROVE  /\ ready \in [Levels -> Seq(Threads)] /\ priority \in [Threads -> Priorities]
           /\ waited \in [Threads -> 0 .. AgeLimit] /\ aging \in AgingType
           /\ QueuesOK(ready, Waiting, priority, next) /\ next \in [Threads -> Bursts]
BY DEF IInv, TypeOK, AgingType, Priorities, QueuesInv

LEMMA NextPassStep == ASSUME IInv, Aging, NextPass PROVE IInv'
<1>1. /\ aging.pass \in {2, 3}
      /\ aging' = [aging EXCEPT !.pass = @ - 1, !.at = aging.heads[aging.pass - 1]]
      /\ UNCHANGED << threadVars, ready, cpu >>
  BY DEF NextPass
<1>2. QueuesInv' /\ InLevel(Waiting, priority, 1)' = InLevel(Waiting, priority, 1)
  BY <1>1, QueuesUnchanged DEF IInv, threadVars
<1>3. /\ aging'.pass = aging.pass - 1 /\ aging'.heads = aging.heads
      /\ aging'.at = aging.heads[aging.pass - 1] /\ aging' \in AgingType
  <2> DEFINE k == aging.pass - 1
             h == aging.heads[k]
  <2>1. aging \in AgingType
    BY AgingTypes
  <2>2. k \in {1, 2} /\ k \in 0 .. 3
    BY <1>1
  <2>3. h \in Threads \cup {NoThread}
    BY <2>1, <2>2 DEF AgingType
  <2>4. aging' = [aging EXCEPT !.pass = k, !.at = h]
    BY <1>1
  <2> HIDE DEF k, h
  <2>5. aging'.pass = k /\ aging'.at = h /\ aging'.heads = aging.heads
    BY <2>1, <2>4 DEF AgingType
  <2>6. aging' \in AgingType
    BY <2>1, <2>2, <2>3, <2>4 DEF AgingType
  <2>7. QED
    BY <2>5, <2>6 DEF h, k
<1>4. aging # NotAging
  BY <1>1 DEF NotAging
<1>5. cpu \in {"tick", "idle", "aborted"}
  BY <1>4 DEF IInv, AgingInv
<1>6. aging.heads[1] \in InLevel(Waiting, priority, 1) \cup {NoThread}
  BY <1>1 DEF IInv, AgingInv
<1>7. aging'.pass \in {1, 2} /\ (aging'.pass = 1 => aging'.at = aging.heads[1])
  BY <1>1, <1>3
<1>8. AgingInv'
  BY <1>1, <1>2, <1>3, <1>5, <1>6, <1>7 DEF AgingInv
<1>9. QED
  BY <1>1, <1>2, <1>3, <1>4, <1>8, AgingTypes, AgingFrame DEF threadVars

LEMMA PassOverStep == ASSUME IInv, Aging, PassOver PROVE IInv'
<1>1. /\ aging.at # NoThread /\ aging' = [aging EXCEPT !.at = After(ready, aging.at)]
      /\ UNCHANGED << threadVars, ready, cpu >>
  BY DEF PassOver
<1>2. QueuesInv' /\ InLevel(Waiting, priority, 1)' = InLevel(Waiting, priority, 1)
  BY <1>1, QueuesUnchanged DEF IInv, threadVars
<1>3. aging.at \in Threads
  BY <1>1, AgingTypes DEF AgingType
<1>4. /\ After(ready, aging.at) \in Threads \cup {NoThread}
      /\ aging.at \in Waiting =>
            After(ready, aging.at)
                \in InLevel(Waiting, priority, LevelOf(priority[aging.at])) \cup {NoThread}
  BY <1>3, AgingTypes, WaitingType, AfterProperties
<1>5. /\ aging'.pass = aging.pass /\ aging'.heads = aging.heads
      /\ aging'.at = After(ready, aging.at) /\ aging' \in AgingType
  BY <1>1, <1>4, AgingTypes DEF AgingType
<1>6. aging # NotAging
  BY <1>1 DEF NotAging
<1>7. aging.pass \in 1 .. 3 /\ cpu \in {"tick", "idle", "aborted"}
  BY <1>6 DEF IInv, AgingInv
<1>8. aging.pass = 1 =>
          After(ready, aging.at) \in InLevel(Waiting, priority, 1) \cup {NoThread}
  BY <1>1, <1>4 DEF IInv, AgingInv, InLevel
<1>9. AgingInv'
  BY <1>1, <1>2, <1>5, <1>7, <1>8 DEF IInv, AgingInv
<1>10. QED
  BY <1>1, <1>2, <1>5, <1>6, <1>9, AgingTypes, AgingFrame DEF threadVars

LEMMA PromoteStep == ASSUME IInv, Aging, Promote PROVE IInv'
<1> DEFINE t == aging.at
           l == aging.pass
           p == [priority EXCEPT ![t] = @ + AgeStep]
           less == [ready EXCEPT ![l] = RemoveFirst(@, t)]
           queues == Enqueued(less, t, p)
<1>1. /\ l \in {2, 3} /\ t # NoThread /\ Contains(ready[l], t)
      /\ priority' = p /\ waited' = [waited EXCEPT ![t] = 0] /\ ready' = queues
      /\ aging' = [aging EXCEPT !.at = After(queues, t)]
      /\ UNCHANGED << status, next, cpu >>
  BY DEF Promote
<1>2. /\ ready \in [Levels -> Seq(Threads)] /\ priority \in [Threads -> Priorities]
      /\ waited \in [Threads -> 0 .. AgeLimit] /\ aging \in AgingType
      /\ QueuesOK(ready, Waiting, priority, next) /\ next \in [Threads -> Bursts]
  BY AgingTypes
<1>3. l \in Levels /\ t \in Threads
  BY <1>1, <1>2 DEF Levels, AgingType
<1>4. t \in Waiting /\ LevelOf(priority[t]) = l
  <2>1. ToSet(ready[l]) = InLevel(Waiting, priority, l)
    BY <1>2, <1>3 DEF QueuesOK, IsQueue
  <2>2. t \in ToSet(ready[l])
    BY <1>1, <1>2, <1>3 DEF Contains, ToSet
  <2>3. QED
    BY <2>1, <2>2 DEF InLevel
<1> HIDE DEF t, l
<1>5. /\ p \in [Threads -> Priorities]
      /\ \A u \in Threads : u # t => p[u] = priority[u]
  <2>1. priority[t] + AgeStep \in Priorities
    <3>1. priority[t] < L1Floor
      BY <1>1, <1>2, <1>3, <1>4, LevelsAssumption DEF LevelOf, Priorities
    <3>2. QED
      BY <1>2, <1>3, <3>1, LevelsAssumption DEF Priorities
  <2>2. QED
    BY <1>2, <1>3, <2>1
<1> HIDE DEF p
<1>6. QueuesOK(less, Waiting \ {t}, priority, next)
  BY <1>2, <1>3, <1>4, RemovedQueues
<1> HIDE DEF less
<1>7. QueuesOK(less, Waiting \ {t}, p, next)
  <2>1. Waiting \ {t} \in SUBSET Threads
    BY WaitingType
  <2>2. \A u \in Waiting \ {t} : p[u] = priority[u] /\ next[u] = next[u]
    BY <1>5, WaitingType
  <2>3. QED
    BY <1>6, <2>1, <2>2, RekeyedQueues
<1>8. QueuesOK(queues, Waiting, p, next)
  <2> DEFINE W == Waiting \ {t}
  <2>1. W \in SUBSET Threads /\ t \notin W /\ W \cup {t} = Waiting
    BY <1>4, WaitingType
  <2> HIDE DEF W
  <2>2. QueuesOK(less, W, p, next)
    BY <1>7 DEF W
  <2>3. QueuesOK(queues, W \cup {t}, p, next)
    BY <1>2, <1>3, <1>5, <2>1, <2>2, EnqueuedQueues
  <2>4. QED
    BY <2>1, <2>3
<1> HIDE DEF queues
<1>9. Waiting' = Waiting
  BY <1>1 DEF Waiting
<1>10. QueuesInv' /\ ready' \in [Levels -> Seq(Threads)]
  BY <1>1, <1>8, <1>9 DEF QueuesInv, QueuesOK
<1>11. After(queues, t) \in Threads \cup {NoThread}
  BY <1>3, <1>5, <1>8, WaitingType, AfterProperties
<1>12. /\ aging'.pass = aging.pass /\ aging'.heads = aging.heads
       /\ aging'.at = After(queues, t) /\ aging' \in AgingType
  BY <1>1, <1>2, <1>11 DEF AgingType
<1>13. aging # NotAging
  BY <1>1 DEF NotAging, l
<1>14. waited' \in [Threads -> 0 .. AgeLimit]
  <2>1. 0 \in 0 .. AgeLimit
    BY LevelsAssumption
  <2>2. QED
    BY <1>1, <1>2, <2>1
<1>15. AgingInv'
  <2>1. InLevel(Waiting, priority, 1) \subseteq InLevel(Waiting', priority', 1)
    BY <1>1, <1>4, <1>5, <1>9, WaitingType DEF InLevel
  <2>2. aging.heads[1] \in InLevel(Waiting, priority, 1) \cup {NoThread}
    BY <1>1 DEF IInv, AgingInv, l
  <2>3. aging.pass \in {2, 3} /\ cpu \in {"tick", "idle", "aborted"}
    BY <1>1, <1>13 DEF IInv, AgingInv, l
  <2>4. QED
    BY <1>1, <1>12, <2>1, <2>2, <2>3 DEF AgingInv
<1>16. QED
  BY <1>1, <1>5, <1>10, <1>12, <1>13, <1>14, <1>15, AgingFrame

LEMMA RemoveFailsStep == ASSUME IInv, Aging, RemoveFails PROVE IInv'
<1>1. /\ aging.pass \in {2, 3} /\ cpu' = "aborted"
      /\ UNCHANGED << threadVars, ready, aging >>
  BY DEF RemoveFails
<1>2. QueuesInv' /\ InLevel(Waiting, priority, 1)' = InLevel(Waiting, priority, 1)
  BY <1>1, QueuesUnchanged DEF IInv, threadVars
<1>3. aging # NotAging
  BY <1>1 DEF NotAging
<1>4. AgingInv'
  BY <1>1, <1>2, <1>3 DEF IInv, AgingInv
<1>5. QED
  BY <1>1, <1>2, <1>3, <1>4, AgingTypes, AgingFrame DEF threadVars

LEMMA PromoteL1Step == ASSUME IInv, Aging, PromoteL1 PROVE IInv'
<1> DEFINE t == aging.at
           raised == IF priority[t] < MaxPriority + 1 - AgeStep
                     THEN priority[t] + AgeStep ELSE MaxPriority
           p == [priority EXCEPT ![t] = raised]
<1>1. /\ aging.pass = 1 /\ t # NoThread
      /\ priority' = p /\ waited' = [waited EXCEPT ![t] = 0]
      /\ aging' = [aging EXCEPT !.at = After(ready, t)]
      /\ UNCHANGED << status, next, ready, cpu >>
  BY DEF PromoteL1
<1>2. /\ ready \in [Levels -> Seq(Threads)] /\ priority \in [Threads -> Priorities]
      /\ waited \in [Threads -> 0 .. AgeLimit] /\ aging \in AgingType
      /\ QueuesOK(ready, Waiting, priority, next) /\ next \in [Threads -> Bursts]
  BY AgingTypes
<1>3. t \in Waiting /\ t \in Threads /\ LevelOf(priority[t]) = 1
  BY <1>1 DEF IInv, AgingInv, InLevel, Waiting
<1> HIDE DEF t
<1>4. raised \in Priorities /\ LevelOf(raised) = 1
  <2>1. priority[t] \in Priorities /\ priority[t] >= L1Floor
    BY <1>2, <1>3, LevelType
  <2>2. raised \in Priorities /\ raised >= L1Floor
    BY <2>1, LevelsAssumption DEF Priorities
  <2> HIDE DEF raised
  <2>3. QED
    BY <2>2, LevelType
<1> HIDE DEF raised
<1>5. /\ p \in [Threads -> Priorities] /\ p[t] = raised
      /\ \A u \in Threads : u # t => p[u] = priority[u]
  BY <1>2, <1>3, <1>4
<1> HIDE DEF p
<1>6. \A l : InLevel(Waiting, p, l) = InLevel(Waiting, priority, l)
  BY <1>3, <1>4, <1>5, WaitingType DEF InLevel
<1>7. Waiting' = Waiting
  BY <1>1 DEF Waiting
<1>8. QueuesInv'
  <2> SUFFICES ASSUME NEW l \in Levels
               PROVE  IsQueue(ready[l], InLevel(Waiting, p, l), Key(l, p, next))
    BY <1>1, <1>2, <1>7 DEF QueuesInv, QueuesOK
  <2>1. IsQueue(ready[l], InLevel(Waiting, priority, l), Key(l, priority, next))
    BY <1>2 DEF QueuesOK
  <2>2. \A u \in InLevel(Waiting, priority, l) :
            Key(l, p, next)[u] = Key(l, priority, next)[u]
    <3>1. CASE l = 1
      BY <3>1 DEF Key
    <3>2. CASE l # 1
      <4>1. \A u \in InLevel(Waiting, priority, l) : u \in Threads /\ p[u] = priority[u]
        BY <1>3, <1>5, <3>2, WaitingType DEF InLevel
      <4>2. QED
        BY <3>2, <4>1 DEF Key
    <3>3. QED
      BY <3>1, <3>2
  <2>3. QED
    BY <1>6, <2>1, <2>2, QueueRekey
<1>9. After(ready, t) \in InLevel(Waiting, priority, 1) \cup {NoThread}
  BY <1>2, <1>3, WaitingType, AfterProperties
<1>10. After(ready, t) \in Threads \cup {NoThread}
  BY <1>2, <1>3, WaitingType, AfterProperties
<1>11. /\ aging'.pass = aging.pass /\ aging'.heads = aging.heads
       /\ aging'.at = After(ready, t) /\ aging' \in AgingType
  BY <1>1, <1>2, <1>10 DEF AgingType
<1>12. aging # NotAging
  BY <1>1 DEF NotAging
<1>13. waited' \in [Threads -> 0 .. AgeLimit]
  <2>1. 0 \in 0 .. AgeLimit
    BY LevelsAssumption
  <2>2. QED
    BY <1>1, <1>2, <2>1
<1>14. AgingInv'
  <2>1. InLevel(Waiting', priority', 1) = InLevel(Waiting, priority, 1)
    BY <1>1, <1>6, <1>7
  <2>2. aging.pass = 1 /\ cpu \in {"tick", "idle", "aborted"}
    BY <1>1, <1>12 DEF IInv, AgingInv
  <2>3. QED
    BY <1>1, <1>9, <1>11, <2>1, <2>2 DEF AgingInv
<1>15. QED
  BY <1>1, <1>2, <1>5, <1>8, <1>11, <1>12, <1>13, <1>14, AgingFrame

LEMMA AgingStep == ASSUME IInv, Aging PROVE IInv'
<1>1. NextPass \/ PassOver \/ Promote \/ RemoveFails \/ PromoteL1
  BY DEF Aging
<1>2. QED
  BY <1>1, NextPassStep, PassOverStep, PromoteStep, RemoveFailsStep, PromoteL1Step

LEMMA AlarmEndStep == ASSUME IInv, AlarmEnd PROVE IInv'
<1> DEFINE check == CheckPreempt(ready, status, preempFlag)
           slice == cpu # "idle" /\ priority[current] < L2Floor
<1>1. /\ preempFlag' = (~check.returns /\ check.flag)
      /\ yieldOnReturn' = (yieldOnReturn \/ check.returns \/ slice)
      /\ aging' = NotAging /\ aging.pass = 1
      /\ UNCHANGED << threadVars, ready, current, inP, finishing, cpu, toBeDestroyed,
                      timedOut >>
  BY DEF AlarmEnd
<1>2. QueuesInv'
  BY <1>1, QueuesUnchanged DEF IInv, threadVars
<1>3. preempFlag' \in BOOLEAN /\ yieldOnReturn' \in BOOLEAN
  <2> HIDE DEF check, slice
  <2>1. QED
    BY <1>1, Zenon
<1>4. TypeOK'
  BY <1>1, <1>3, NotAgingType DEF IInv, TypeOK, threadVars
<1>5. OneRunning' /\ DestroyedOffCpu'
  BY <1>1 DEF IInv, OneRunning, DestroyedOffCpu, threadVars
<1>6. AgingInv'
  BY <1>1 DEF AgingInv, NotAging
<1>7. QED
  BY <1>2, <1>4, <1>5, <1>6 DEF IInv

LEMMA TickEndStep == ASSUME IInv, TickEnd PROVE IInv'
<1>1. /\ cpu = "tick" /\ aging = NotAging /\ cpu' = "run" /\ timedOut' = FALSE
      /\ UNCHANGED << threadVars, ready, current, inP, finishing, flagVars,
                      toBeDestroyed, aging >>
  BY DEF TickEnd
<1>2. QueuesInv'
  BY <1>1, QueuesUnchanged DEF IInv, threadVars
<1>3. TypeOK'
  BY <1>1 DEF IInv, TypeOK, threadVars, flagVars, CpuStates
<1>4. OneRunning' /\ DestroyedOffCpu' /\ AgingInv'
  BY <1>1 DEF IInv, OneRunning, DestroyedOffCpu, AgingInv, NotAging, threadVars
<1>5. QED
  BY <1>2, <1>3, <1>4 DEF IInv

LEMMA YieldStep == ASSUME IInv, Yield PROVE IInv'
<1> DEFINE st == [status EXCEPT ![current] = "ready"]
           best == Best(ready)
           queues == Enqueued(Rest(ready), current, priority)
<1>1. /\ cpu = "tick" /\ aging = NotAging /\ yieldOnReturn' = FALSE /\ timedOut' = FALSE
      /\ UNCHANGED << priority, next, waited, inP, preempFlag, aging >>
  BY DEF Yield
<1>2. /\ current \in Threads /\ status[current] = "running" /\ toBeDestroyed = NoThread
      /\ status \in [Threads -> Statuses] /\ priority \in [Threads -> Priorities]
      /\ next \in [Threads -> Bursts]
  BY <1>1 DEF IInv, TypeOK, OneRunning, DestroyedOffCpu, Priorities
<1>3. CASE TopLevel(ready) # 0
  <2>1. best \in Waiting /\ QueuesOK(Rest(ready), Waiting \ {best}, priority, next)
    BY <1>3, BestOfReady
  <2>2. Run(best, queues, st, FALSE)
    BY <1>3 DEF Yield
  <2>3. best \in Threads /\ best # current /\ current \notin Waiting
    BY <1>2, <2>1 DEF Waiting
  <2>4. /\ st \in [Threads -> Statuses] /\ st[current] = "ready"
        /\ \A u \in Threads : u # current => st[u] = status[u]
    BY <1>2 DEF Statuses
  <2> DEFINE W == Waiting \ {best}
             V == {u \in Threads : st[u] = "ready"}
  <2>5. W \in SUBSET Threads /\ current \notin W
    BY <2>3, WaitingType
  <2> HIDE DEF st, best
  <2>6. (\A u \in Threads : st[u] # "running") /\ V \ {best} = W \cup {current}
    BY <1>2, <2>3, <2>4 DEF IInv, OneRunning, Waiting
  <2> HIDE DEF W, V
  <2>7. QueuesOK(queues, W \cup {current}, priority, next)
    <3>1. QueuesOK(Rest(ready), W, priority, next)
      BY <2>1 DEF W
    <3>2. QED
      BY <1>2, <2>5, <3>1, EnqueuedQueues
  <2> HIDE DEF queues
  <2>8. QueuesOK(queues, {u \in Threads : st[u] = "ready"} \ {best}, priority', next')
    BY <1>1, <2>6, <2>7 DEF V
  <2>9. /\ status' \in [Threads -> Statuses] /\ ready' \in [Levels -> Seq(Threads)]
        /\ current' \in Threads /\ finishing' \in BOOLEAN /\ cpu' \in CpuStates
        /\ toBeDestroyed' \in Threads \cup {NoThread}
        /\ QueuesInv' /\ OneRunning' /\ DestroyedOffCpu' /\ AgingInv'
    BY <1>1, <1>2, <2>2, <2>3, <2>4, <2>6, <2>8, RunStep
  <2>10. TypeOK'
    BY <1>1, <2>9 DEF IInv, TypeOK
  <2>11. QED
    BY <2>9, <2>10 DEF IInv
<1>4. CASE TopLevel(ready) = 0
  <2>1. UNCHANGED << status, ready, current, finishing, cpu, toBeDestroyed >>
    BY <1>4 DEF Yield
  <2>2. QueuesInv'
    BY <1>1, <2>1, QueuesUnchanged DEF IInv
  <2>3. TypeOK'
    BY <1>1, <2>1 DEF IInv, TypeOK
  <2>4. OneRunning' /\ DestroyedOffCpu' /\ AgingInv'
    BY <1>1, <2>1 DEF IInv, OneRunning, DestroyedOffCpu, AgingInv, NotAging
  <2>5. QED
    BY <2>2, <2>3, <2>4 DEF IInv
<1>5. QED
  BY <1>3, <1>4

LEMMA LookStep == ASSUME IInv, Look PROVE IInv'
<1> DEFINE best == Best(ready)
<1>1. /\ cpu = "idle" /\ aging = NotAging /\ timedOut' = FALSE
      /\ UNCHANGED << priority, next, waited, inP, flagVars, aging >>
  BY DEF Look
<1>2. /\ current \in Threads /\ status[current] # "running" /\ toBeDestroyed = NoThread
      /\ status \in [Threads -> Statuses] /\ finishing \in BOOLEAN
      /\ finishing => status[current] = "blocked"
  BY <1>1 DEF IInv, TypeOK, OneRunning, DestroyedOffCpu
<1>3. CASE TopLevel(ready) # 0
  <2>1. best \in Waiting /\ QueuesOK(Rest(ready), Waiting \ {best}, priority, next)
    BY <1>3, BestOfReady
  <2>2. Run(best, Rest(ready), status, finishing)
    BY <1>3 DEF Look
  <2>3. best \in Threads /\ status[best] = "ready"
    BY <2>1 DEF Waiting
  <2>4. finishing => status[current] = "blocked" /\ best # current
    BY <1>2, <2>3
  <2>5. \A u \in Threads : status[u] # "running"
    BY <1>2 DEF IInv, OneRunning
  <2> HIDE DEF best
  <2>6. QueuesOK(Rest(ready), {u \in Threads : status[u] = "ready"} \ {best},
                 priority', next')
    BY <1>1, <2>1 DEF Waiting
  <2>7. /\ status' \in [Threads -> Statuses] /\ ready' \in [Levels -> Seq(Threads)]
        /\ current' \in Threads /\ finishing' \in BOOLEAN /\ cpu' \in CpuStates
        /\ toBeDestroyed' \in Threads \cup {NoThread}
        /\ QueuesInv' /\ OneRunning' /\ DestroyedOffCpu' /\ AgingInv'
    BY <1>1, <1>2, <2>2, <2>3, <2>4, <2>5, <2>6, RunStep
  <2>8. TypeOK'
    BY <1>1, <2>7 DEF IInv, TypeOK, flagVars
  <2>9. QED
    BY <2>7, <2>8 DEF IInv
<1>4. CASE TopLevel(ready) = 0
  <2>1. UNCHANGED << status, ready, current, finishing, cpu, toBeDestroyed >>
    BY <1>4 DEF Look
  <2>2. QueuesInv'
    BY <1>1, <2>1, QueuesUnchanged DEF IInv
  <2>3. TypeOK'
    BY <1>1, <2>1 DEF IInv, TypeOK, flagVars
  <2>4. OneRunning' /\ DestroyedOffCpu' /\ AgingInv'
    BY <1>1, <2>1 DEF IInv, OneRunning, DestroyedOffCpu, AgingInv, NotAging
  <2>5. QED
    BY <2>2, <2>3, <2>4 DEF IInv
<1>5. QED
  BY <1>3, <1>4

LEMMA StutterStep == ASSUME IInv, UNCHANGED vars PROVE IInv'
<1> USE DEF vars, threadVars, flagVars
<1>1. QueuesInv' /\ InLevel(Waiting, priority, 1)' = InLevel(Waiting, priority, 1)
  BY QueuesUnchanged DEF IInv
<1>2. TypeOK'
  BY DEF IInv, TypeOK
<1>3. OneRunning' /\ DestroyedOffCpu' /\ AgingInv'
  BY <1>1 DEF IInv, OneRunning, DestroyedOffCpu, AgingInv
<1>4. QED
  BY <1>1, <1>2, <1>3 DEF IInv

LEMMA NextIInv == IInv /\ [Next]_vars => IInv'
<1> SUFFICES ASSUME IInv, [Next]_vars PROVE IInv'
  OBVIOUS
<1>1. CASE Compute
  BY <1>1, ComputeStep
<1>2. CASE Block \/ Finish
  BY <1>2, SleepStep DEF Block, Finish
<1>3. CASE Resume
  BY <1>3, ResumeStep
<1>4. ASSUME NEW t \in Threads, Fork(t) \/ Wake(t)
      PROVE  IInv'
  BY <1>4, MakeReadyStep DEF Fork, Wake
<1>5. ASSUME NEW t \in Threads, DeviceCallBack(t)
      PROVE  IInv'
  BY <1>5, DeviceCallBackStep
<1>6. CASE TimerCallBack
  BY <1>6, TimerStep
<1>7. CASE Aging
  BY <1>7, AgingStep
<1>8. CASE AlarmEnd
  BY <1>8, AlarmEndStep
<1>9. CASE TickEnd
  BY <1>9, TickEndStep
<1>10. CASE Yield
  BY <1>10, YieldStep
<1>11. CASE Look
  BY <1>11, LookStep
<1>12. CASE Abort \/ UNCHANGED vars
  BY <1>12, StutterStep DEF Abort
<1>13. QED
  BY <1>1, <1>2, <1>3, <1>4, <1>5, <1>6, <1>7, <1>8, <1>9, <1>10, <1>11, <1>12 DEF Next

-----------------------------------------------------------------------------
(* The theorems. *)

(* Every behaviour of the scheduler keeps the inductive invariant. *)
THEOREM SchedulerInvariant == Spec => []IInv
<1>1. QED
  BY InitIInv, NextIInv, PTL DEF Spec

(* The variables keep their types; the priorities stay within 0..149, as    *)
(* Aging bounds what it adds.                                               *)
THEOREM SchedulerTyping == Spec => []TypeOK
<1>1. IInv => TypeOK
  BY DEF IInv
<1>2. QED
  BY <1>1, SchedulerInvariant, PTL

(* A thread is in one place of one queue, that of its priority, exactly as  *)
(* long as it is ready (ReadyToRun, FindNextToRun, Aging).                  *)
THEOREM SchedulerQueues == Spec => []ReadyIsQueuedOnce
<1>1. QED
  BY QueuedOnce, SchedulerInvariant, PTL

(* Nobody but the current thread runs (Run, Sleep, Yield).                  *)
THEOREM SchedulerRunning == Spec => []OneRunning
<1>1. IInv => OneRunning
  BY DEF IInv
<1>2. QED
  BY <1>1, SchedulerInvariant, PTL

(* A finished thread is deleted by the thread that runs after it, and by    *)
(* nobody else (toBeDestroyed).                                             *)
THEOREM SchedulerDestroyed == Spec => []DestroyedOffCpu
<1>1. IInv => DestroyedOffCpu
  BY DEF IInv
<1>2. QED
  BY <1>1, SchedulerInvariant, PTL

LEMMA DispatchStep ==
    ASSUME IInv, [Next]_vars, Dispatch, NEW t \in Threads, status[t] = "ready"
    PROVE  ~Outranks(t, current')
<1>1. t \in Waiting
  BY DEF Waiting
<1>2. ASSUME TopLevel(ready) # 0, current' = Best(ready)
      PROVE  ~Outranks(t, current')
  BY <1>1, <1>2, BestOfReady
<1>3. cpu # "switched" /\ cpu' = "switched"
  BY DEF Dispatch
<1>4. CASE Block \/ Finish
  BY <1>2, <1>3, <1>4 DEF Block, Finish, Sleep, Run
<1>5. CASE Yield
  BY <1>2, <1>3, <1>5 DEF Yield, Run
<1>6. CASE Look
  BY <1>2, <1>3, <1>6 DEF Look, Run
<1>7. CASE Compute \/ Resume \/ TickEnd
  BY <1>3, <1>7 DEF Compute, Resume, TickEnd
<1>8. CASE \E u \in Threads : Fork(u) \/ Wake(u) \/ DeviceCallBack(u)
  BY <1>3, <1>8 DEF Fork, Wake, MakeReady, DeviceCallBack
<1>9. CASE TimerCallBack \/ AlarmEnd
  BY <1>3, <1>9 DEF TimerCallBack, AlarmEnd
<1>10. CASE Aging
  BY <1>3, <1>10 DEF Aging, NextPass, PassOver, Promote, RemoveFails, PromoteL1
<1>11. CASE Abort \/ UNCHANGED vars
  BY <1>3, <1>11 DEF Abort, vars
<1>12. QED
  BY <1>4, <1>5, <1>6, <1>7, <1>8, <1>9, <1>10, <1>11 DEF Next

(* The thread that gets the CPU is one that no ready thread outranks: the   *)
(* ready lists stay sorted although Aging changes keys in them.             *)
THEOREM SchedulerDispatches == Spec => DispatchesBest
<1>1. IInv /\ [Next]_vars =>
          [Dispatch => \A t \in Threads : status[t] = "ready" => ~Outranks(t, current')]_vars
  BY DispatchStep
<1>2. QED
  BY <1>1, SchedulerInvariant, PTL DEF Spec, DispatchesBest
===============================================================================

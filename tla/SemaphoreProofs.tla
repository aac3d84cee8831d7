--------------------------- MODULE SemaphoreProofs ----------------------------
(* What the operators of Semaphores do, for every set of threads. *)
EXTENDS Semaphores, SequenceTheorems, TLAPS

(* A new semaphore is well formed and nobody sleeps in it. *)
LEMMA NewSemaphoreProperties ==
    ASSUME NEW T, NEW n \in Nat
    PROVE  /\ SemaphoreOK(NewSemaphore(n), T)
           /\ Sleepers(NewSemaphore(n)) = {}
<1>1. NewSemaphore(n) \in [value : Nat, queue : Seq(T)]
  BY EmptySeq DEF NewSemaphore
<1>2. DOMAIN NewSemaphore(n).queue = {}
  BY DEF NewSemaphore
<1>3. QED
  BY <1>1, <1>2 DEF SemaphoreOK, NoDuplicates, Sleepers, Range

(* The sleepers of a well-formed semaphore are threads. *)
LEMMA SleepersAreThreads ==
    ASSUME NEW T, NEW s, SemaphoreOK(s, T)
    PROVE  /\ Sleepers(s) \subseteq T
           /\ s.queue = << >> <=> Sleepers(s) = {}
<1>1. s.queue \in Seq(T)
  BY DEF SemaphoreOK
<1>2. DOMAIN s.queue = 1 .. Len(s.queue) /\ Len(s.queue) \in Nat
  BY <1>1
<1>3. \A i \in DOMAIN s.queue : s.queue[i] \in T
  BY <1>1
<1>4. s.queue = << >> => Sleepers(s) = {}
  BY DEF Sleepers, Range
<1>5. ASSUME s.queue # << >>
      PROVE  Sleepers(s) # {}
  <2>1. 1 \in DOMAIN s.queue
    BY <1>1, <1>2, <1>5, EmptySeq
  <2>2. QED
    BY <2>1 DEF Sleepers, Range
<1>6. QED
  BY <1>3, <1>4, <1>5 DEF Sleepers, Range

(* A turn of the loop of P keeps the semaphore well formed; it takes one   *)
(* from the value, or leaves it at 0 and puts the thread to sleep.         *)
LEMMA TurnProperties ==
    ASSUME NEW T, NEW s, SemaphoreOK(s, T), NEW t \in T, ~Asleep(s, t)
    PROVE  /\ SemaphoreOK(Turn(s, t), T)
           /\ Passes(s)  => /\ Turn(s, t).value = s.value - 1
                            /\ Turn(s, t).queue = s.queue
                            /\ Sleepers(Turn(s, t)) = Sleepers(s)
           /\ ~Passes(s) => /\ Turn(s, t).value = 0
                            /\ Turn(s, t).queue = Append(s.queue, t)
                            /\ Sleepers(Turn(s, t)) = Sleepers(s) \cup {t}
<1> DEFINE q == s.queue
           r == Append(q, t)
<1>1. /\ s \in [value : Nat, queue : Seq(T)]
      /\ s.value \in Nat
      /\ q \in Seq(T)
      /\ NoDuplicates(q)
  BY DEF SemaphoreOK
<1>2. CASE Passes(s)
  <2>1. Turn(s, t) = [s EXCEPT !.value = @ - 1]
    BY <1>2 DEF Turn
  <2>2. s.value - 1 \in Nat
    BY <1>1, <1>2 DEF Passes
  <2>3. /\ Turn(s, t) \in [value : Nat, queue : Seq(T)]
        /\ Turn(s, t).value = s.value - 1
        /\ Turn(s, t).queue = q
    BY <1>1, <2>1, <2>2
  <2>4. QED
    BY <1>1, <1>2, <2>3 DEF SemaphoreOK, Sleepers
<1>3. CASE ~Passes(s)
  <2>1. Turn(s, t) = [s EXCEPT !.queue = r]
    BY <1>3 DEF Turn
  <2>2. /\ r \in Seq(T)
        /\ Len(r) = Len(q) + 1
        /\ \A i \in 1 .. Len(q) : r[i] = q[i]
        /\ r[Len(q) + 1] = t
        /\ Len(q) \in Nat
        /\ DOMAIN q = 1 .. Len(q)
        /\ DOMAIN r = 1 .. Len(q) + 1
    BY <1>1
  <2>3. /\ Turn(s, t) \in [value : Nat, queue : Seq(T)]
        /\ Turn(s, t).value = 0
        /\ Turn(s, t).queue = r
    BY <1>1, <1>3, <2>1, <2>2 DEF Passes
  <2>4. \A i \in DOMAIN q : q[i] # t
    BY DEF Asleep, Sleepers, Range
  <2>5. NoDuplicates(r)
    BY <1>1, <2>2, <2>4 DEF NoDuplicates
  <2>6. Range(r) = Range(q) \cup {t}
    <3>1. ASSUME NEW x \in Range(r)
          PROVE  x \in Range(q) \cup {t}
      BY <2>2, <3>1 DEF Range
    <3>2. ASSUME NEW x \in Range(q)
          PROVE  x \in Range(r)
      <4>1. PICK i \in DOMAIN q : x = q[i]
        BY <3>2 DEF Range
      <4>2. i \in DOMAIN r /\ r[i] = x
        BY <2>2, <4>1
      <4>3. QED
        BY <4>2 DEF Range
    <3>3. t \in Range(r)
      <4>1. Len(q) + 1 \in DOMAIN r
        BY <2>2
      <4>2. QED
        BY <2>2, <4>1 DEF Range
    <3>4. QED
      BY <3>1, <3>2, <3>3
  <2>7. QED
    BY <1>3, <2>3, <2>5, <2>6 DEF SemaphoreOK, Sleepers
<1>4. QED
  BY <1>2, <1>3

(* V keeps the semaphore well formed, adds one to the value, and takes the *)
(* first sleeper, and only that one, out of the queue.                     *)
LEMMA VProperties ==
    ASSUME NEW T, NEW s, SemaphoreOK(s, T)
    PROVE  /\ SemaphoreOK(V(s), T)
           /\ V(s).value = s.value + 1
           /\ Sleepers(V(s)) = Sleepers(s) \ Woken(s)
           /\ Sleepers(s) # {} => Woken(s) # {}
           /\ Woken(s) \subseteq Sleepers(s)
<1> DEFINE q == s.queue
<1>1. /\ s \in [value : Nat, queue : Seq(T)]
      /\ s.value \in Nat
      /\ q \in Seq(T)
      /\ NoDuplicates(q)
  BY DEF SemaphoreOK
<1>2. CASE q = << >>
  <2>1. V(s) = [value |-> s.value + 1, queue |-> << >>]
    BY <1>2 DEF V
  <2>2. V(s).queue = q /\ V(s).value = s.value + 1
    BY <1>2, <2>1
  <2>3. V(s) \in [value : Nat, queue : Seq(T)]
    BY <1>1, <2>1, EmptySeq
  <2>4. Range(q) = {}
    BY <1>2 DEF Range
  <2>5. QED
    BY <1>1, <1>2, <2>2, <2>3, <2>4 DEF SemaphoreOK, Sleepers, Woken
<1>3. CASE q # << >>
  <2> DEFINE r == Tail(q)
  <2>1. V(s) = [value |-> s.value + 1, queue |-> r]
    BY <1>3 DEF V
  <2>2. /\ r \in Seq(T)
        /\ Len(r) = Len(q) - 1
        /\ \A i \in 1 .. Len(r) : r[i] = q[i + 1]
    BY <1>1, <1>3, HeadTailProperties
  <2>3. /\ Len(q) \in Nat \ {0}
        /\ DOMAIN q = 1 .. Len(q)
        /\ DOMAIN r = 1 .. Len(q) - 1
        /\ Head(q) = q[1]
    BY <1>1, <1>3, <2>2, EmptySeq, LenProperties
  <2>4. NoDuplicates(r)
    BY <1>1, <2>2, <2>3 DEF NoDuplicates
  <2>5. Range(r) = Range(q) \ {q[1]}
    <3>1. ASSUME NEW x \in Range(r)
          PROVE  x \in Range(q) /\ x # q[1]
      <4>1. PICK i \in DOMAIN r : x = r[i]
        BY <3>1 DEF Range
      <4>2. i + 1 \in DOMAIN q /\ x = q[i + 1] /\ 1 \in DOMAIN q /\ i + 1 # 1
        BY <2>2, <2>3, <4>1
      <4>3. QED
        BY <1>1, <4>2 DEF NoDuplicates, Range
    <3>2. ASSUME NEW x \in Range(q), x # q[1]
          PROVE  x \in Range(r)
      <4>1. PICK i \in DOMAIN q : x = q[i]
        BY <3>2 DEF Range
      <4>2. i - 1 \in DOMAIN r /\ r[i - 1] = x
        BY <2>2, <2>3, <3>2, <4>1
      <4>3. QED
        BY <4>2 DEF Range
    <3>3. QED
      BY <3>1, <3>2
  <2>6. q[1] \in Range(q)
    BY <2>3 DEF Range
  <2>7. /\ V(s) \in [value : Nat, queue : Seq(T)]
        /\ V(s).value = s.value + 1
        /\ V(s).queue = r
    BY <1>1, <2>1, <2>2
  <2>8. Woken(s) = {q[1]}
    BY <1>3, <2>3 DEF Woken
  <2>9. QED
    BY <2>4, <2>5, <2>6, <2>7, <2>8 DEF SemaphoreOK, Sleepers
<1>4. QED
  BY <1>2, <1>3
===============================================================================

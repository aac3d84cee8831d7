--------------------------- MODULE SynchListProofs ----------------------------
(***************************************************************************)
(* The safety of SynchList for every set of threads and items and every    *)
(* number of operations, and that it implements SharedQueue.               *)
(***************************************************************************)
EXTENDS SynchList, SemaphoreProofs, FiniteSetTheorems

USE NoThreadAssumption, MaxCallsAssumption

(* A thread that is not in a queue of threads can be put at its end.       *)
LEMMA QueueAppend ==
    ASSUME NEW T, NEW q \in Seq(T), NoDuplicates(q), NEW t \in T, t \notin Range(q)
    PROVE  /\ Append(q, t) \in Seq(T)
           /\ NoDuplicates(Append(q, t))
           /\ Range(Append(q, t)) = Range(q) \cup {t}
<1> DEFINE s == [value |-> 0, queue |-> q]
<1>1. SemaphoreOK(s, T) /\ ~Asleep(s, t) /\ ~Passes(s)
  BY DEF SemaphoreOK, Asleep, Sleepers, Passes
<1>2. SemaphoreOK(Turn(s, t), T) /\ Turn(s, t).queue = Append(q, t)
      /\ Sleepers(Turn(s, t)) = Sleepers(s) \cup {t}
  BY <1>1, TurnProperties
<1>3. QED
  BY <1>2 DEF SemaphoreOK, Sleepers

(* The head of a queue of threads is one of them, and its tail has the     *)
(* others.                                                                 *)
LEMMA QueueTail ==
    ASSUME NEW T, NEW q \in Seq(T), q # << >>
    PROVE  /\ Head(q) \in T
           /\ Head(q) \in Range(q)
           /\ Tail(q) \in Seq(T)
           /\ NoDuplicates(q) => /\ NoDuplicates(Tail(q))
                                 /\ Range(Tail(q)) = Range(q) \ {Head(q)}
<1> DEFINE s == [value |-> 0, queue |-> q]
<1>1. Head(q) \in T /\ Tail(q) \in Seq(T) /\ Head(q) = q[1] /\ 1 \in DOMAIN q
  BY HeadTailProperties, EmptySeq
<1>2. Head(q) \in Range(q)
  BY <1>1 DEF Range
<1>3. ASSUME NoDuplicates(q)
      PROVE  NoDuplicates(Tail(q)) /\ Range(Tail(q)) = Range(q) \ {Head(q)}
  <2>1. SemaphoreOK(s, T)
    BY <1>3 DEF SemaphoreOK
  <2>2. SemaphoreOK(V(s), T) /\ Sleepers(V(s)) = Sleepers(s) \ Woken(s)
    BY <2>1, VProperties
  <2>3. V(s).queue = Tail(q) /\ Woken(s) = {Head(q)}
    BY DEF V, Woken
  <2>4. QED
    BY <2>2, <2>3 DEF SemaphoreOK, Sleepers
<1>4. QED
  BY <1>1, <1>2, <1>3

-----------------------------------------------------------------------------

LEMMA InitTypeOK == Init => TypeOK
<1> SUFFICES ASSUME Init PROVE TypeOK
  OBVIOUS
<1>1. SemaphoreOK(lock, Threads) /\ SemaphoreOK(NewSemaphore(0), Threads)
  BY NewSemaphoreProperties DEF Init
<1>2. waiter \in [Threads -> [value : Nat, queue : Seq(Threads)]]
  BY <1>1 DEF Init, SemaphoreOK
<1>3. list \in Seq(Items) /\ waitQueue \in Seq(Threads)
  BY DEF Init
<1>4. QED
  BY <1>1, <1>2, <1>3 DEF Init, TypeOK, PCs, Calls

(* Return keeps the types of what it changes. *)
LEMMA ReturnTypeOK ==
    ASSUME TypeOK, NEW t \in Threads, Return(t)
    PROVE  /\ pc' \in [Threads -> PCs]
           /\ call' \in [Threads -> Calls \cup {"none"}]
           /\ \A u \in Threads : pc'[u] = "idle" <=> call'[u] = "none"
           /\ \A u \in Threads : call'[u] = "append" => call[u] = "append" /\ u # t
           /\ SemaphoreOK(lock', Threads)
           /\ lockHolder' \in Threads \cup {NoThread}
<1>1. SemaphoreOK(lock', Threads)
  BY VProperties DEF TypeOK, Return, Release
<1>2. QED
  BY <1>1 DEF TypeOK, Return, Release, PCs, Calls

(* So does a change of the waiters' semaphores. *)
LEMMA WaiterTypeOK ==
    ASSUME TypeOK, NEW t \in Threads, NEW s, SemaphoreOK(s, Threads),
           waiter' = [waiter EXCEPT ![t] = s]
    PROVE  /\ waiter' \in [Threads -> [value : Nat, queue : Seq(Threads)]]
           /\ \A u \in Threads : SemaphoreOK(waiter'[u], Threads)
<1>1. s \in [value : Nat, queue : Seq(Threads)]
  BY DEF SemaphoreOK
<1>2. waiter' \in [Threads -> [value : Nat, queue : Seq(Threads)]]
  BY <1>1 DEF TypeOK
<1>3. \A u \in Threads : waiter'[u] = IF u = t THEN s ELSE waiter[u]
  BY DEF TypeOK
<1>4. QED
  BY <1>2, <1>3 DEF TypeOK

LEMMA StepTypeOK ==
    ASSUME TypeOK, NEW t \in Threads, Step(t)
    PROVE  TypeOK'
<1>1. CASE Call(t)
  <2>1. pc' \in [Threads -> PCs] /\ call' \in [Threads -> Calls \cup {"none"}]
    BY <1>1 DEF TypeOK, Call, PCs, Calls
  <2>2. \A u \in Threads : pc'[u] = "idle" <=> call'[u] = "none"
    BY <1>1 DEF TypeOK, Call
  <2>3. /\ item' \in [Threads -> Items \cup {NoItem}]
        /\ \A u \in Threads : call'[u] = "append" => item'[u] \in Items
    <3>1. CASE \E i \in Items : /\ call' = [call EXCEPT ![t] = "append"]
                                /\ item' = [item EXCEPT ![t] = i]
      BY <3>1 DEF TypeOK
    <3>2. CASE \E c \in {"remove", "apply"} :
                  call' = [call EXCEPT ![t] = c] /\ item' = item
      BY <3>2 DEF TypeOK
    <3>3. QED
      BY <1>1, <3>1, <3>2 DEF Call
  <2>4. made' \in [Threads -> 0 .. MaxCalls]
    BY <1>1 DEF TypeOK, Call
  <2>5. QED
    BY <1>1, <2>1, <2>2, <2>3, <2>4 DEF TypeOK, Call
<1>2. CASE Acquire(t)
  <2>1. SemaphoreOK(lock', Threads)
    BY <1>2, TurnProperties DEF TypeOK, Acquire
  <2>2. /\ pc' \in [Threads -> PCs]
        /\ \A u \in Threads : pc'[u] = "idle" <=> call'[u] = "none"
    BY <1>2 DEF TypeOK, Acquire, PCs
  <2>3. QED
    BY <1>2, <2>1, <2>2 DEF TypeOK, Acquire
<1>3. CASE AppendItem(t)
  <2>1. /\ Inside(t, "append") /\ list' = Append(list, item[t])
        /\ item' = item /\ made' = made
    BY <1>3 DEF AppendItem
  <2>2. item[t] \in Items
    BY <2>1 DEF TypeOK, Inside
  <2>3. list' \in Seq(Items)
    BY <2>1, <2>2 DEF TypeOK
  <2>4. CASE waitQueue = << >>
    <3>1. Return(t) /\ waitQueue' = waitQueue /\ waiter' = waiter
      BY <1>3, <2>4 DEF AppendItem
    <3>2. QED
      BY <2>1, <2>3, <3>1, ReturnTypeOK DEF TypeOK
  <2>5. CASE waitQueue # << >>
    <3>1. /\ Signal /\ lockHolder' = t /\ pc' = [pc EXCEPT ![t] = "signalled"]
          /\ call' = call /\ lock' = lock
      BY <1>3, <2>5 DEF AppendItem
    <3>2. Head(waitQueue) \in Threads /\ waitQueue' \in Seq(Threads)
      BY <2>5, <3>1, QueueTail DEF TypeOK, Signal
    <3>3. SemaphoreOK(V(waiter[Head(waitQueue)]), Threads)
      BY <3>2, VProperties DEF TypeOK
    <3>4. /\ waiter' \in [Threads -> [value : Nat, queue : Seq(Threads)]]
          /\ \A u \in Threads : SemaphoreOK(waiter'[u], Threads)
      BY <3>1, <3>2, <3>3, WaiterTypeOK DEF Signal
    <3>5. /\ pc' \in [Threads -> PCs]
          /\ \A u \in Threads : pc'[u] = "idle" <=> call'[u] = "none"
      BY <2>1, <3>1 DEF TypeOK, Inside, PCs
    <3>6. QED
      BY <2>1, <2>3, <3>1, <3>2, <3>4, <3>5 DEF TypeOK
  <2>6. QED
    BY <2>4, <2>5
<1>4. CASE EndAppend(t) \/ Apply(t)
  <2>1. Return(t) /\ UNCHANGED << item, made, list, waitQueue, waiter >>
    BY <1>4 DEF EndAppend, Apply
  <2>2. QED
    BY <2>1, ReturnTypeOK DEF TypeOK
<1>5. CASE TakeItem(t)
  <2>1. /\ Return(t) /\ list # << >> /\ list' = Tail(list)
        /\ item' = [item EXCEPT ![t] = Head(list)]
        /\ UNCHANGED << made, waitQueue, waiter >>
    BY <1>5 DEF TakeItem
  <2>2. Head(list) \in Items /\ list' \in Seq(Items)
    BY <2>1, QueueTail DEF TypeOK
  <2>3. /\ item' \in [Threads -> Items \cup {NoItem}]
        /\ \A u \in Threads : u # t => item'[u] = item[u]
    BY <2>1, <2>2 DEF TypeOK
  <2>4. QED
    BY <2>1, <2>2, <2>3, ReturnTypeOK DEF TypeOK
<1>6. CASE WaitForItem(t)
  <2>1. SemaphoreOK(lock', Threads)
    BY <1>6, VProperties DEF TypeOK, WaitForItem, Release
  <2>2. SemaphoreOK(NewSemaphore(0), Threads)
    BY NewSemaphoreProperties
  <2>3. /\ waiter' \in [Threads -> [value : Nat, queue : Seq(Threads)]]
        /\ \A u \in Threads : SemaphoreOK(waiter'[u], Threads)
    BY <1>6, <2>2, WaiterTypeOK DEF WaitForItem
  <2>4. waitQueue' \in Seq(Threads)
    BY <1>6 DEF TypeOK, WaitForItem
  <2>5. /\ pc' \in [Threads -> PCs]
        /\ \A u \in Threads : pc'[u] = "idle" <=> call'[u] = "none"
    BY <1>6 DEF TypeOK, WaitForItem, Inside, PCs
  <2>6. lockHolder' = NoThread /\ UNCHANGED << call, item, made, list >>
    BY <1>6 DEF WaitForItem, Release
  <2>7. QED
    BY <2>1, <2>3, <2>4, <2>5, <2>6 DEF TypeOK
<1>7. CASE Wait(t)
  <2>1. SemaphoreOK(Turn(waiter[t], t), Threads)
    BY <1>7, TurnProperties DEF TypeOK, Wait
  <2>2. waiter' = [waiter EXCEPT ![t] = Turn(waiter[t], t)]
    BY <1>7 DEF Wait
  <2>3. /\ waiter' \in [Threads -> [value : Nat, queue : Seq(Threads)]]
        /\ \A u \in Threads : SemaphoreOK(waiter'[u], Threads)
    BY <2>1, <2>2, WaiterTypeOK
  <2>4. /\ pc' \in [Threads -> PCs]
        /\ \A u \in Threads : pc'[u] = "idle" <=> call'[u] = "none"
    BY <1>7 DEF TypeOK, Wait, PCs
  <2>5. QED
    BY <1>7, <2>3, <2>4 DEF TypeOK, Wait
<1>8. QED
  BY <1>1, <1>2, <1>3, <1>4, <1>5, <1>6, <1>7 DEF Step

LEMMA NextTypeOK == TypeOK /\ [Next]_vars => TypeOK'
<1>1. TypeOK /\ UNCHANGED vars => TypeOK'
  BY DEF TypeOK, vars
<1>2. QED
  BY <1>1, StepTypeOK DEF Next, Terminated

(* Every variable keeps its type: no thread is queued twice at one         *)
(* semaphore, and what the list holds was appended.                        *)
THEOREM SynchListTyping == Spec => []TypeOK
  BY InitTypeOK, NextTypeOK, PTL DEF Spec

-----------------------------------------------------------------------------
(***************************************************************************)
(* The inductive invariant.  SignalNotMissed alone is not inductive: Wait  *)
(* and Signal change the queue with interrupts on, so it rests on the      *)
(* mutual exclusion of the lock, and that rests on the lock's semaphore    *)
(* being open exactly when nobody is past it.                              *)
(***************************************************************************)
LockInv == /\ \A t \in Threads : HoldsLock(t) => lock.value = 0
           /\ (\A t \in Threads : ~HoldsLock(t)) => lock.value = 1
           /\ \A t \in Threads : Asleep(lock, t) => pc[t] = "acquire"

IInv == LockInv /\ MutualExclusion /\ ReleasedByHolder /\ SignalNotMissed

LEMMA InitInv == Init => IInv
<1> SUFFICES ASSUME Init PROVE IInv
  OBVIOUS
<1>1. \A t \in Threads : pc[t] = "idle"
  BY DEF Init
<1>2. lock.value = 1 /\ Sleepers(lock) = {}
  BY NewSemaphoreProperties DEF Init, NewSemaphore
<1>3. LockInv /\ MutualExclusion /\ ReleasedByHolder
  BY <1>1, <1>2 DEF LockInv, MutualExclusion, HoldsLock, ReleasedByHolder, Asleep
<1>4. Range(waitQueue) = {} /\ NoDuplicates(waitQueue)
  BY DEF Init, Range, NoDuplicates
<1>5. SignalNotMissed
  BY <1>1, <1>4 DEF Init, SignalNotMissed, NewSemaphore
<1>6. QED
  BY <1>3, <1>5 DEF IInv

(* The threads' places and the lock change as they do when t, which holds  *)
(* the lock, gives it up and goes to p.                                    *)
LEMMA ReleaseInv ==
    ASSUME TypeOK, IInv, NEW t \in Threads, HoldsLock(t), Release,
           NEW p \in {"idle", "wait"}, pc' = [pc EXCEPT ![t] = p]
    PROVE  LockInv' /\ MutualExclusion' /\ ReleasedByHolder'
<1>1. lock.value = 0 /\ SemaphoreOK(lock, Threads) /\ lock' = V(lock)
  BY DEF IInv, LockInv, TypeOK, Release
<1>2. V(lock).value = lock.value + 1 /\ Sleepers(V(lock)) = Sleepers(lock) \ Woken(lock)
  BY <1>1, VProperties
<1>3. lock'.value = 1
  BY <1>1, <1>2
<1>4. \A u \in Threads : ~HoldsLock(u)'
  BY DEF TypeOK, IInv, MutualExclusion, HoldsLock
<1>5. \A u \in Threads : Asleep(lock, u)' => pc'[u] = "acquire"
  <2>1. ~Asleep(lock, t)
    BY DEF IInv, LockInv, HoldsLock
  <2>2. QED
    BY <1>1, <1>2, <2>1 DEF IInv, LockInv, TypeOK, Asleep
<1>6. QED
  BY <1>3, <1>4, <1>5 DEF LockInv, MutualExclusion, HoldsLock, ReleasedByHolder

(* The return of an operation that leaves the wait queue alone.            *)
LEMMA ReturnInv ==
    ASSUME TypeOK, IInv, NEW t \in Threads, HoldsLock(t), Return(t),
           UNCHANGED << waitQueue, waiter >>
    PROVE  IInv'
<1>1. pc' = [pc EXCEPT ![t] = "idle"] /\ Release
  BY DEF Return
<1>2. LockInv' /\ MutualExclusion' /\ ReleasedByHolder'
  BY <1>1, ReleaseInv
<1>3. t \notin Range(waitQueue) /\ pc[t] # "wait"
  BY DEF IInv, SignalNotMissed, HoldsLock
<1>4. \A u \in Threads : pc'[u] = "wait" <=> pc[u] = "wait"
  BY <1>1, <1>3 DEF TypeOK
<1>5. Range(waitQueue) \subseteq Threads
  BY DEF TypeOK, Range
<1>6. SignalNotMissed'
  BY <1>4, <1>5 DEF IInv, SignalNotMissed
<1>7. QED
  BY <1>2, <1>6 DEF IInv

(* The V of Signal opens the semaphore of the first waiter and wakes it.   *)
LEMMA SignalInv ==
    ASSUME TypeOK, IInv, NEW t \in Threads, pc[t] = "locked",
           waitQueue # << >>, Signal,
           pc' = [pc EXCEPT ![t] = "signalled"]
    PROVE  SignalNotMissed'
<1> DEFINE h == Head(waitQueue)
<1>1. /\ h \in Threads /\ h \in Range(waitQueue)
      /\ NoDuplicates(waitQueue')
      /\ Range(waitQueue') = Range(waitQueue) \ {h}
  BY QueueTail DEF TypeOK, IInv, SignalNotMissed, Signal
<1>2. pc[h] = "wait" /\ \A u \in Threads : pc'[u] = "wait" <=> pc[u] = "wait"
  BY <1>1 DEF TypeOK, IInv, SignalNotMissed
<1>3. Range(waitQueue) \subseteq Threads
  BY DEF TypeOK, Range
<1>4. \A u \in Threads : waiter'[u] = IF u = h THEN V(waiter[h]) ELSE waiter[u]
  BY <1>1 DEF TypeOK, Signal
<1>5. V(waiter[h]) = NewSemaphore(1)
  <2>1. waiter[h] \in {[value |-> 0, queue |-> << >>], [value |-> 0, queue |-> << h >>]}
    BY <1>1 DEF IInv, SignalNotMissed
  <2>2. CASE waiter[h] = [value |-> 0, queue |-> << >>]
    BY <2>2 DEF V, NewSemaphore
  <2>3. CASE waiter[h] = [value |-> 0, queue |-> << h >>]
    <3>1. Tail(<< h >>) = << >>
      OBVIOUS
    <3>2. waiter[h].value = 0 /\ waiter[h].queue = << h >>
      BY <2>3
    <3>3. V(waiter[h]) = [value |-> 1, queue |-> << >>]
      BY <3>1, <3>2 DEF V
    <3>4. QED
      BY <3>3 DEF NewSemaphore
  <2>4. QED
    BY <2>1, <2>2, <2>3
<1>6. QED
  BY <1>1, <1>2, <1>3, <1>4, <1>5 DEF IInv, SignalNotMissed

LEMMA StepInv ==
    ASSUME TypeOK, IInv, NEW t \in Threads, Step(t)
    PROVE  IInv'
<1>0. Range(waitQueue) \subseteq Threads /\ \A u \in Range(waitQueue) : pc[u] = "wait"
  BY DEF TypeOK, Range, IInv, SignalNotMissed
<1>1. CASE Call(t)
  <2>1. /\ pc[t] = "idle" /\ pc' = [pc EXCEPT ![t] = "acquire"]
        /\ UNCHANGED << lock, lockHolder, waitQueue, waiter >>
    BY <1>1 DEF Call
  <2>2. LockInv' /\ MutualExclusion' /\ ReleasedByHolder'
    BY <2>1 DEF TypeOK, IInv, LockInv, MutualExclusion, ReleasedByHolder,
                HoldsLock, Asleep
  <2>3. SignalNotMissed'
    BY <1>0, <2>1 DEF TypeOK, IInv, SignalNotMissed
  <2>4. QED
    BY <2>2, <2>3 DEF IInv
<1>2. CASE Acquire(t)
  <2>1. /\ pc[t] = "acquire" /\ ~Asleep(lock, t) /\ lock' = Turn(lock, t)
        /\ pc' = [pc EXCEPT ![t] = IF Passes(lock) THEN "locked" ELSE @]
        /\ UNCHANGED << lockHolder, waitQueue, waiter >>
    BY <1>2 DEF Acquire
  <2>2. SignalNotMissed'
    BY <1>0, <2>1 DEF TypeOK, IInv, SignalNotMissed
  <2>3. CASE Passes(lock)
    <3>1. /\ lock.value # 0 /\ lock'.value = lock.value - 1
          /\ Sleepers(lock') = Sleepers(lock)
      BY <2>1, <2>3, TurnProperties DEF TypeOK, Passes
    <3>2. (\A u \in Threads : ~HoldsLock(u)) /\ lock'.value = 0
      BY <3>1 DEF IInv, LockInv
    <3>3. QED
      BY <2>1, <2>2, <2>3, <3>1, <3>2
         DEF TypeOK, IInv, LockInv, MutualExclusion, ReleasedByHolder, HoldsLock, Asleep
  <2>4. CASE ~Passes(lock)
    <3>1. /\ lock.value = 0 /\ lock'.value = 0
          /\ Sleepers(lock') = Sleepers(lock) \cup {t}
      BY <2>1, <2>4, TurnProperties DEF TypeOK, Passes
    <3>2. pc' = pc
      BY <2>1, <2>4 DEF TypeOK
    <3>3. QED
      BY <2>1, <2>2, <3>1, <3>2
         DEF TypeOK, IInv, LockInv, MutualExclusion, ReleasedByHolder, HoldsLock, Asleep
  <2>5. QED
    BY <2>3, <2>4
<1>3. CASE AppendItem(t)
  <2>1. pc[t] = "locked" /\ HoldsLock(t)
    BY <1>3 DEF AppendItem, Inside, HoldsLock
  <2>2. CASE waitQueue = << >>
    BY <1>3, <2>1, <2>2, ReturnInv DEF AppendItem
  <2>3. CASE waitQueue # << >>
    <3>1. /\ Signal /\ lockHolder' = t /\ lock' = lock
          /\ pc' = [pc EXCEPT ![t] = "signalled"]
      BY <1>3, <2>3 DEF AppendItem
    <3>2. SignalNotMissed'
      BY <2>1, <2>3, <3>1, SignalInv
    <3>3. \A u \in Threads : HoldsLock(u)' <=> HoldsLock(u)
      BY <2>1, <3>1 DEF TypeOK, HoldsLock
    <3>4. LockInv'
      BY <2>1, <3>1, <3>3 DEF TypeOK, IInv, LockInv, Asleep
    <3>5. MutualExclusion' /\ ReleasedByHolder'
      BY <2>1, <3>1, <3>3 DEF TypeOK, IInv, MutualExclusion, ReleasedByHolder, HoldsLock
    <3>6. QED
      BY <3>2, <3>4, <3>5 DEF IInv
  <2>4. QED
    BY <2>2, <2>3
<1>4. CASE EndAppend(t) \/ TakeItem(t) \/ Apply(t)
  BY <1>4, ReturnInv DEF EndAppend, TakeItem, Apply, Inside, HoldsLock
<1>5. CASE WaitForItem(t)
  <2>1. /\ pc[t] = "locked" /\ HoldsLock(t) /\ Release
        /\ pc' = [pc EXCEPT ![t] = "wait"]
        /\ waitQueue' = Append(waitQueue, t)
        /\ waiter' = [waiter EXCEPT ![t] = NewSemaphore(0)]
    BY <1>5 DEF WaitForItem, Inside, HoldsLock
  <2>2. LockInv' /\ MutualExclusion' /\ ReleasedByHolder'
    BY <2>1, ReleaseInv
  <2>3. NoDuplicates(waitQueue') /\ Range(waitQueue') = Range(waitQueue) \cup {t}
    BY <1>0, <2>1, QueueAppend DEF TypeOK, IInv, SignalNotMissed
  <2>4. \A u \in Threads : /\ waiter'[u] = IF u = t THEN NewSemaphore(0) ELSE waiter[u]
                           /\ pc'[u] = IF u = t THEN "wait" ELSE pc[u]
    BY <2>1 DEF TypeOK
  <2>5. SignalNotMissed'
    BY <1>0, <2>3, <2>4 DEF IInv, SignalNotMissed, NewSemaphore
  <2>6. QED
    BY <2>2, <2>5 DEF IInv
<1>6. CASE Wait(t)
  <2>1. /\ pc[t] = "wait" /\ ~Asleep(waiter[t], t)
        /\ waiter' = [waiter EXCEPT ![t] = Turn(waiter[t], t)]
        /\ pc' = [pc EXCEPT ![t] = IF Passes(waiter[t]) THEN "acquire" ELSE @]
        /\ UNCHANGED << lock, lockHolder, waitQueue >>
    BY <1>6 DEF Wait
  <2>2. LockInv' /\ MutualExclusion' /\ ReleasedByHolder'
    BY <2>1 DEF TypeOK, IInv, LockInv, MutualExclusion, ReleasedByHolder,
                HoldsLock, Asleep
  <2>3. \A u \in Threads : waiter'[u] = IF u = t THEN Turn(waiter[t], t) ELSE waiter[u]
    BY <2>1 DEF TypeOK
  <2>4. CASE t \in Range(waitQueue)
    <3>1. waiter[t] = [value |-> 0, queue |-> << >>]
      <4>1. t \in Range(<< t >>)
        BY DEF Range
      <4>2. waiter[t] # [value |-> 0, queue |-> << t >>]
        BY <2>1, <4>1 DEF Asleep, Sleepers
      <4>3. QED
        BY <2>4, <4>2 DEF IInv, SignalNotMissed
    <3>2. Turn(waiter[t], t) = [value |-> 0, queue |-> << t >>] /\ ~Passes(waiter[t])
      BY <3>1 DEF Turn, Passes
    <3>3. pc' = pc
      BY <2>1, <3>2 DEF TypeOK
    <3>4. QED
      BY <2>1, <2>2, <2>3, <2>4, <3>2, <3>3 DEF IInv, SignalNotMissed
  <2>5. CASE t \notin Range(waitQueue)
    <3>1. waiter[t] = NewSemaphore(1)
      BY <2>1, <2>5 DEF IInv, SignalNotMissed
    <3>2. Turn(waiter[t], t) = [value |-> 0, queue |-> << >>] /\ Passes(waiter[t])
      BY <3>1 DEF Turn, Passes, NewSemaphore
    <3>3. \A u \in Threads : pc'[u] = IF u = t THEN "acquire" ELSE pc[u]
      BY <2>1, <3>2 DEF TypeOK
    <3>4. SignalNotMissed'
      BY <1>0, <2>1, <2>3, <2>5, <3>2, <3>3 DEF IInv, SignalNotMissed
    <3>5. QED
      BY <2>2, <3>4 DEF IInv
  <2>6. QED
    BY <2>4, <2>5
<1>7. QED
  BY <1>1, <1>2, <1>3, <1>4, <1>5, <1>6 DEF Step

LEMMA NextInv == TypeOK /\ IInv /\ [Next]_vars => IInv'
<1>1. IInv /\ UNCHANGED vars => IInv'
  BY DEF vars, IInv, LockInv, MutualExclusion, HoldsLock, ReleasedByHolder,
         SignalNotMissed, Asleep
<1>2. QED
  BY <1>1, StepInv DEF Next, Terminated

(* The inductive invariant holds. *)
THEOREM SynchListInvariant == Spec => []IInv
  BY InitInv, NextInv, SynchListTyping, PTL DEF Spec

(* Condition::Wait misses no signal, and each Wait is signalled once.      *)
THEOREM SynchListSignals == Spec => []SignalNotMissed
<1>1. IInv => SignalNotMissed
  BY DEF IInv
<1>2. QED
  BY <1>1, SynchListInvariant, PTL

(* One thread at a time works on the list, and ASSERT(IsHeldByCurrentThread*)
(* ()) of the Release that ends Append cannot fail.                        *)
THEOREM SynchListLock == Spec => [](MutualExclusion /\ ReleasedByHolder)
<1>1. IInv => MutualExclusion /\ ReleasedByHolder
  BY DEF IInv
<1>2. QED
  BY <1>1, SynchListInvariant, PTL

-----------------------------------------------------------------------------
(***************************************************************************)
(* Takers.  What the queue says of the calls: only RemoveFront waits and   *)
(* only Append signals.  That the takers can be counted is no assumption on*)
(* Threads: as many threads are in an operation as have called one.        *)
(***************************************************************************)
Callers == {t \in Threads : call[t] # "none"}

CallInv == /\ \A t \in Threads : pc[t] = "wait" => call[t] = "remove"
           /\ \A t \in Threads : pc[t] = "signalled" => call[t] = "append"
           /\ IsFiniteSet(Callers)

LEMMA InitCalls == Init => CallInv /\ ItemsHaveTakers
<1> SUFFICES ASSUME Init PROVE CallInv /\ ItemsHaveTakers
  OBVIOUS
<1>1. Callers = {}
  BY DEF Init, Callers
<1>2. QED
  BY <1>1, FS_EmptySet DEF Init, CallInv, ItemsHaveTakers

(* A step of t changes no call but its own, and the places agree with it.  *)
LEMMA StepCalls ==
    ASSUME TypeOK, CallInv, NEW t \in Threads, Step(t)
    PROVE  CallInv' /\ \A u \in Threads : u # t => call'[u] = call[u]
<1>1. /\ \A u \in Threads : u # t => pc'[u] = pc[u] /\ call'[u] = call[u]
      /\ pc'[t] = "wait" => call'[t] = "remove"
      /\ pc'[t] = "signalled" => call'[t] = "append"
  <2>1. CASE Call(t)
    BY <2>1 DEF TypeOK, Call
  <2>2. CASE Acquire(t)
    BY <2>2 DEF TypeOK, Acquire
  <2>3. CASE AppendItem(t)
    BY <2>3 DEF TypeOK, AppendItem, Inside, Return
  <2>4. CASE EndAppend(t) \/ TakeItem(t) \/ Apply(t)
    BY <2>4 DEF TypeOK, EndAppend, TakeItem, Apply, Return
  <2>5. CASE WaitForItem(t)
    BY <2>5 DEF TypeOK, WaitForItem, Inside
  <2>6. CASE Wait(t)
    BY <2>6 DEF TypeOK, Wait, CallInv
  <2>7. QED
    BY <2>1, <2>2, <2>3, <2>4, <2>5, <2>6 DEF Step
<1>2. IsFiniteSet(Callers')
  <2>1. Callers' \subseteq Callers \cup {t}
    BY <1>1 DEF Callers
  <2>2. IsFiniteSet(Callers \cup {t})
    BY FS_AddElement DEF CallInv
  <2>3. QED
    BY <2>1, <2>2, FS_Subset
<1>3. QED
  BY <1>1, <1>2 DEF CallInv

LEMMA TakersFinite == CallInv => IsFiniteSet(Takers)
<1>1. Takers \subseteq Callers
  BY DEF Takers, Callers
<1>2. QED
  BY <1>1, FS_Subset DEF CallInv

LEMMA StepTakers ==
    ASSUME TypeOK, IInv, CallInv, ItemsHaveTakers, NEW t \in Threads, Step(t)
    PROVE  ItemsHaveTakers'
<1>0. /\ CallInv' /\ IsFiniteSet(Takers) /\ IsFiniteSet(Takers')
      /\ \A u \in Threads : u # t => call'[u] = call[u]
  <2>1. CallInv' /\ \A u \in Threads : u # t => call'[u] = call[u]
    BY StepCalls
  <2>2. IsFiniteSet(Takers')
    <3>1. Takers' \subseteq Callers'
      BY DEF Takers, Callers
    <3>2. QED
      BY <2>1, <3>1, FS_Subset DEF CallInv
  <2>3. QED
    BY <2>1, <2>2, TakersFinite
<1>1. /\ Range(waitQueue) \subseteq Threads
      /\ \A u \in Range(waitQueue) : pc[u] = "wait" /\ call[u] = "remove"
  <2>1. waitQueue \in Seq(Threads) /\ \A u \in Range(waitQueue) : pc[u] = "wait"
    BY DEF TypeOK, IInv, SignalNotMissed
  <2>2. Range(waitQueue) \subseteq Threads
    BY <2>1 DEF Range
  <2>3. QED
    BY <2>1, <2>2 DEF CallInv
<1>2. Len(list) \in Nat /\ Cardinality(Takers) \in Nat /\ Cardinality(Takers') \in Nat
  BY <1>0, FS_CardinalityType DEF TypeOK
<1>3. ASSUME list' = list, waitQueue' = waitQueue, Takers \subseteq Takers'
      PROVE  ItemsHaveTakers'
  <2>1. Cardinality(Takers) <= Cardinality(Takers')
    BY <1>0, <1>3, FS_Subset
  <2>2. QED
    BY <1>2, <1>3, <2>1 DEF ItemsHaveTakers
<1>4. CASE Call(t) \/ Acquire(t) \/ EndAppend(t) \/ Wait(t) \/ Apply(t)
  <2>1. list' = list /\ waitQueue' = waitQueue
    BY <1>4 DEF Call, Acquire, EndAppend, Wait, Apply
  <2>2. call[t] = "remove" => call'[t] = "remove"
    BY <1>4 DEF TypeOK, CallInv, Call, Acquire, EndAppend, Wait, Apply, Inside
  <2>3. Takers \subseteq Takers'
    BY <1>0, <2>1, <2>2 DEF Takers
  <2>4. QED
    BY <1>3, <2>1, <2>3
<1>5. CASE AppendItem(t)
  <2>1. CASE waitQueue = << >>
    BY <1>5, <2>1 DEF AppendItem, ItemsHaveTakers
  <2>2. CASE waitQueue # << >>
    <3> DEFINE h == Head(waitQueue)
    <3>1. /\ list' = Append(list, item[t]) /\ item[t] \in Items
          /\ waitQueue' = Tail(waitQueue) /\ call' = call
      BY <1>5, <2>2 DEF TypeOK, AppendItem, Inside, Signal
    <3>2. Len(list') = Len(list) + 1
      BY <3>1 DEF TypeOK
    <3>3. h \in Threads /\ h \in Range(waitQueue) /\ Range(waitQueue') = Range(waitQueue) \ {h}
      BY <2>2, <3>1, QueueTail DEF TypeOK, IInv, SignalNotMissed
    <3>4. Takers' = Takers \cup {h} /\ h \notin Takers
      BY <1>1, <3>1, <3>3 DEF Takers
    <3>5. Cardinality(Takers') = Cardinality(Takers) + 1
      BY <1>0, <3>4, FS_AddElement
    <3>6. QED
      BY <1>2, <2>2, <3>2, <3>5 DEF ItemsHaveTakers
  <2>3. QED
    BY <2>1, <2>2
<1>6. CASE TakeItem(t)
  <2>1. /\ pc[t] = "locked" /\ call[t] = "remove" /\ list # << >>
        /\ list' = Tail(list) /\ waitQueue' = waitQueue
        /\ call' = [call EXCEPT ![t] = "none"]
    BY <1>6 DEF TakeItem, Inside, Return
  <2>2. Len(list') = Len(list) - 1
    BY <2>1, HeadTailProperties DEF TypeOK
  <2>3. t \in Takers /\ Takers' = Takers \ {t}
    BY <1>0, <1>1, <2>1 DEF TypeOK, Takers
  <2>4. Cardinality(Takers') = Cardinality(Takers) - 1
    BY <1>0, <2>3, FS_RemoveElement
  <2>5. QED
    BY <1>2, <2>1, <2>2, <2>4 DEF ItemsHaveTakers
<1>7. CASE WaitForItem(t)
  <2>1. Len(list') = 0
    BY <1>7 DEF WaitForItem
  <2>2. QED
    BY <1>2, <2>1 DEF ItemsHaveTakers
<1>8. QED
  BY <1>4, <1>5, <1>6, <1>7 DEF Step

LEMMA NextTakers ==
    TypeOK /\ IInv /\ CallInv /\ ItemsHaveTakers /\ [Next]_vars => CallInv' /\ ItemsHaveTakers'
<1> SUFFICES ASSUME TypeOK, IInv, CallInv, ItemsHaveTakers, [Next]_vars
             PROVE  CallInv' /\ ItemsHaveTakers'
  OBVIOUS
<1>1. CASE UNCHANGED vars
  BY <1>1 DEF vars, CallInv, Callers, ItemsHaveTakers, Takers
<1>2. QED
  BY <1>1, StepCalls, StepTakers DEF Next, Terminated

(* While threads sleep in Wait, no item is left behind: Append signals one *)
(* of them for each, and RemoveFront takes one item and is one taker less. *)
THEOREM SynchListItemsHaveTakers == Spec => []ItemsHaveTakers
<1>1. Init => CallInv /\ ItemsHaveTakers
  BY InitCalls
<1>2. QED
  BY <1>1, NextTakers, SynchListTyping, SynchListInvariant, PTL DEF Spec

-----------------------------------------------------------------------------
(***************************************************************************)
(* The refinement.  An operation takes effect in the step that changes the *)
(* list; Acquire, the waits and Terminated leave every phase alone.        *)
(***************************************************************************)
LEMMA RefinesInit == Init => Abstract!Init
  BY DEF Init, Abstract!Init, Phase

LEMMA RefinesStep ==
    ASSUME TypeOK, IInv, NEW t \in Threads, Step(t)
    PROVE  [Abstract!Next]_(Abstract!vars)
<1> DEFINE phase == [u \in Threads |-> Phase(u)]
<1> USE DEF Phase
<1>1. CASE Call(t)
  <2>1. phase[t] = "none" /\ phase' = [phase EXCEPT ![t] = "called"]
    BY <1>1 DEF TypeOK, Call
  <2>2. Abstract!Call(t)
    BY <1>1, <2>1 DEF Call, Abstract!Call
  <2>3. QED
    BY <2>2 DEF Abstract!Next
<1>2. CASE Acquire(t) \/ WaitForItem(t) \/ Wait(t)
  <2>1. /\ pc[t] \notin {"idle", "signalled"}
        /\ \E p \in PCs \ {"idle", "signalled"} : pc' = [pc EXCEPT ![t] = p]
    BY <1>2 DEF TypeOK, Acquire, WaitForItem, Wait, Inside, PCs
  <2>2. phase' = phase
    BY <2>1 DEF TypeOK
  <2>3. QED
    BY <1>2, <2>2 DEF Acquire, WaitForItem, Wait, Abstract!vars
<1>3. CASE AppendItem(t)
  <2>1. phase[t] = "called" /\ call[t] = "append"
    BY <1>3 DEF AppendItem, Inside
  <2>2. \/ phase' = [phase EXCEPT ![t] = "none"] /\ call' = [call EXCEPT ![t] = "none"]
        \/ phase' = [phase EXCEPT ![t] = "done"] /\ call' = call
    BY <1>3 DEF TypeOK, AppendItem, Return
  <2>3. Abstract!AppendItem(t)
    BY <1>3, <2>1, <2>2 DEF AppendItem, Abstract!AppendItem, Abstract!Complete
  <2>4. QED
    BY <2>3 DEF Abstract!Next
<1>4. CASE EndAppend(t)
  <2>1. phase[t] = "done" /\ phase' = [phase EXCEPT ![t] = "none"]
    BY <1>4 DEF TypeOK, EndAppend, Return
  <2>2. Abstract!Return(t)
    BY <1>4, <2>1 DEF EndAppend, Return, Abstract!Return
  <2>3. QED
    BY <2>2 DEF Abstract!Next
<1>5. CASE TakeItem(t)
  <2>1. /\ phase[t] = "called" /\ call[t] = "remove"
        /\ phase' = [phase EXCEPT ![t] = "none"]
    BY <1>5 DEF TypeOK, TakeItem, Inside, Return
  <2>2. Abstract!RemoveFront(t)
    BY <1>5, <2>1 DEF TakeItem, Return, Abstract!RemoveFront, Abstract!Complete
  <2>3. QED
    BY <2>2 DEF Abstract!Next
<1>6. CASE Apply(t)
  <2>1. /\ phase[t] = "called" /\ call[t] = "apply"
        /\ phase' = [phase EXCEPT ![t] = "none"]
    BY <1>6 DEF TypeOK, Apply, Inside, Return
  <2>2. Abstract!Apply(t)
    BY <1>6, <2>1 DEF Apply, Return, Abstract!Apply, Abstract!Complete
  <2>3. QED
    BY <2>2 DEF Abstract!Next
<1>7. QED
  BY <1>1, <1>2, <1>3, <1>4, <1>5, <1>6 DEF Step

LEMMA RefinesNext == TypeOK /\ IInv /\ [Next]_vars => [Abstract!Next]_(Abstract!vars)
<1>1. UNCHANGED vars => UNCHANGED Abstract!vars
  BY DEF vars, Abstract!vars, Phase
<1>2. QED
  BY <1>1, RefinesStep DEF Next, Terminated

(* SynchList implements SharedQueue: its operations take effect one at a   *)
(* time, and items leave in the order in which they came.                  *)
THEOREM SynchListImplements == Spec => ImplementsSharedQueue
  BY RefinesInit, RefinesNext, SynchListTyping, SynchListInvariant, PTL
     DEF Spec, ImplementsSharedQueue, Abstract!Spec
===============================================================================

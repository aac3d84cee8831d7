--------------------------- MODULE SynchDiskProofs ----------------------------
(***************************************************************************)
(* The safety of SynchDisk for every set of threads, sectors and data and  *)
(* every number of requests.                                               *)
(***************************************************************************)
EXTENDS SynchDisk, SemaphoreProofs

USE NoThreadAssumption, NoRequestAssumption, MaxRequestsAssumption

LEMMA InitTypeOK == Init => TypeOK
<1> SUFFICES ASSUME Init PROVE TypeOK
  OBVIOUS
<1>1. SemaphoreOK(lock, Threads) /\ SemaphoreOK(semaphore, Threads)
  BY NewSemaphoreProperties DEF Init
<1>2. /\ active \in BOOLEAN
      /\ \A t \in Threads : pc[t] = "idle"
  BY DEF Init
<1>3. QED
  BY <1>1, <1>2 DEF Init, TypeOK, PCs

LEMMA StepTypeOK ==
    ASSUME TypeOK, NEW t \in Threads, Step(t)
    PROVE  TypeOK'
<1> USE DEF TypeOK, callerVars, deviceVars
<1>1. CASE Call(t)
  <2>1. /\ pc' \in [Threads -> PCs]
        /\ request' \in [Threads -> Requests \cup {NoRequest}]
        /\ \A u \in Threads : pc'[u] # "idle" => request'[u] \in Requests
    BY <1>1 DEF Call, Goto, PCs
  <2>2. issued' \in [Threads -> 0 .. MaxRequests]
    BY <1>1 DEF Call
  <2>3. QED
    BY <1>1, <2>1, <2>2 DEF Call
<1>2. CASE Acquire(t)
  <2>1. SemaphoreOK(lock', Threads)
    BY <1>2, TurnProperties DEF Acquire
  <2>2. /\ pc' \in [Threads -> PCs]
        /\ \A u \in Threads : pc'[u] # "idle" => request'[u] \in Requests
    BY <1>2 DEF Acquire, PCs
  <2>3. QED
    BY <1>2, <2>1, <2>2 DEF Acquire
<1>3. CASE SendRequest(t)
  <2>1. SemaphoreOK(semaphore', Threads)
    BY <1>3, TurnProperties DEF SendRequest, Wait
  <2>2. /\ pc' \in [Threads -> PCs]
        /\ \A u \in Threads : pc'[u] # "idle" => request'[u] \in Requests
    BY <1>3 DEF SendRequest, Wait, PCs
  <2>3. store' \in [Sectors -> Data] /\ buffer' \in [Threads -> Data \cup {NoData}]
    <3>1. request[t] \in Requests
      BY <1>3 DEF SendRequest, DiskRequest, Schedule
    <3>2. CASE request[t].kind = "read"
      BY <1>3, <3>1, <3>2 DEF SendRequest, DiskRequest, Requests
    <3>3. CASE request[t].kind = "write"
      BY <1>3, <3>1, <3>3 DEF SendRequest, DiskRequest, Requests
    <3>4. QED
      BY <3>1, <3>2, <3>3 DEF Requests
  <2>4. active' \in BOOLEAN /\ pending' \in Nat
    BY <1>3 DEF SendRequest, DiskRequest, Schedule
  <2>5. QED
    BY <1>3, <2>1, <2>2, <2>3, <2>4 DEF SendRequest
<1>4. CASE WaitAgain(t)
  <2>1. SemaphoreOK(semaphore', Threads)
    BY <1>4, TurnProperties DEF WaitAgain, Wait
  <2>2. /\ pc' \in [Threads -> PCs]
        /\ \A u \in Threads : pc'[u] # "idle" => request'[u] \in Requests
    BY <1>4 DEF WaitAgain, Wait, PCs
  <2>3. QED
    BY <1>4, <2>1, <2>2 DEF WaitAgain
<1>5. CASE Release(t)
  <2>1. SemaphoreOK(lock', Threads)
    BY <1>5, VProperties DEF Release
  <2>2. /\ pc' \in [Threads -> PCs]
        /\ request' \in [Threads -> Requests \cup {NoRequest}]
        /\ \A u \in Threads : pc'[u] # "idle" => request'[u] \in Requests
    BY <1>5 DEF Release, Goto, PCs
  <2>3. QED
    BY <1>5, <2>1, <2>2 DEF Release
<1>6. QED
  BY <1>1, <1>2, <1>3, <1>4, <1>5 DEF Step

LEMMA NextTypeOK == TypeOK /\ [Next]_vars => TypeOK'
<1> SUFFICES ASSUME TypeOK, [Next]_vars PROVE TypeOK'
  OBVIOUS
<1>1. ASSUME NEW t \in Threads, Step(t) PROVE TypeOK'
  BY <1>1, StepTypeOK
<1>2. CASE DiskCallBack
  <2>1. SemaphoreOK(semaphore', Threads)
    BY <1>2, VProperties DEF TypeOK, DiskCallBack
  <2>2. pending' \in Nat
    BY <1>2 DEF TypeOK, DiskCallBack
  <2>3. active' \in BOOLEAN
    BY <1>2 DEF DiskCallBack
  <2>4. QED
    BY <1>2, <2>1, <2>2, <2>3 DEF TypeOK, DiskCallBack, callerVars
<1>3. CASE UNCHANGED vars
  BY <1>3 DEF TypeOK, vars
<1>4. QED
  BY <1>1, <1>2, <1>3 DEF Next, Terminated

(* Every variable of SynchDisk keeps its type: in particular the values of *)
(* both semaphores never go below 0 and no thread is queued twice.         *)
THEOREM SynchDiskTyping == Spec => []TypeOK
  BY InitTypeOK, NextTypeOK, PTL DEF Spec

-----------------------------------------------------------------------------
(***************************************************************************)
(* The inductive invariant.  MutualExclusion alone is not inductive: it    *)
(* needs that the lock's semaphore is open exactly when nobody is past it, *)
(* and, for the wakeups, that only threads inside Acquire sleep there.     *)
(***************************************************************************)
LEMMA InitInv == Init => IInv
<1> SUFFICES ASSUME Init PROVE IInv
  OBVIOUS
<1>1. \A t \in Threads : pc[t] = "idle"
  BY DEF Init
<1>2. lock.value = 1 /\ Sleepers(lock) = {}
  BY NewSemaphoreProperties DEF Init, NewSemaphore
<1>3. LockInv /\ MutualExclusion /\ HolderInv /\ LockWakeupNotLost
  BY <1>1, <1>2 DEF LockInv, MutualExclusion, HoldsLock, HolderInv,
                    LockWakeupNotLost, Asleep
<1>4. InterruptAnswersRequest
  BY <1>1 DEF Init, InterruptAnswersRequest
<1>5. QED
  BY <1>3, <1>4 DEF IInv

LEMMA StepInv ==
    ASSUME TypeOK, IInv, NEW t \in Threads, Step(t)
    PROVE  IInv'
<1> USE DEF TypeOK, IInv, callerVars, deviceVars
<1> USE DEF LockInv, MutualExclusion, HoldsLock, HolderInv, LockWakeupNotLost
<1>1. CASE Call(t)
  <2>1. ~HoldsLock(t) /\ ~HoldsLock(t)'
    BY <1>1 DEF Call, Goto
  <2>2. InterruptAnswersRequest'
    BY <1>1 DEF Call, Goto, InterruptAnswersRequest
  <2>3. QED
    BY <1>1, <2>1, <2>2 DEF Call, Goto, Asleep
<1>2. CASE Acquire(t)
  <2>1. InterruptAnswersRequest'
    BY <1>2 DEF Acquire, InterruptAnswersRequest
  <2>2. CASE Passes(lock)
    <3>1. /\ lock.value = 1 /\ lock'.value = 0
          /\ Sleepers(lock') = Sleepers(lock)
          /\ pc' = [pc EXCEPT ![t] = "locked"]
      BY <1>2, <2>2, TurnProperties DEF Acquire, Passes
    <3>2. QED
      BY <1>2, <2>1, <3>1 DEF Acquire, Asleep
  <2>3. CASE ~Passes(lock)
    <3>1. /\ lock.value = 0 /\ lock'.value = 0
          /\ Sleepers(lock') = Sleepers(lock) \cup {t}
          /\ pc' = pc
      BY <1>2, <2>3, TurnProperties DEF Acquire, Passes
    <3>2. QED
      BY <1>2, <2>1, <3>1 DEF Acquire, Asleep
  <2>4. QED
    BY <2>2, <2>3
<1>3. CASE SendRequest(t)
  <2>1. pc[t] = "locked" /\ lock' = lock /\ lockHolder' = t
    BY <1>3 DEF SendRequest
  <2>2. semaphore = NewSemaphore(0) /\ ~active /\ pending = 0
    BY <2>1 DEF InterruptAnswersRequest
  <2>3. /\ semaphore' = [value |-> 0, queue |-> << t >>]
        /\ pc' = [pc EXCEPT ![t] = "wait"]
    BY <1>3, <2>2 DEF SendRequest, Wait, Turn, Passes, NewSemaphore
  <2>4. active' /\ pending' = 1
    BY <1>3, <2>2 DEF SendRequest, DiskRequest, Schedule
  <2>5. \A u \in Threads : u # t => pc'[u] = pc[u] /\ pc[u] # "wait"
    BY <2>1, <2>3
  <2>6. InterruptAnswersRequest'
    BY <2>3, <2>4, <2>5 DEF InterruptAnswersRequest
  <2>7. QED
    BY <2>1, <2>3, <2>5, <2>6 DEF Asleep
<1>4. CASE WaitAgain(t)
  <2>1. pc[t] = "wait" /\ ~Asleep(semaphore, t)
    BY <1>4 DEF WaitAgain, Wait
  <2>2. semaphore = NewSemaphore(1) /\ ~active /\ pending = 0
    <3>1. t \in Range(<< t >>)
      BY DEF Range
    <3>2. semaphore # [value |-> 0, queue |-> << t >>]
      BY <2>1, <3>1 DEF Asleep, Sleepers
    <3>3. QED
      BY <2>1, <3>2 DEF InterruptAnswersRequest
  <2>3. /\ semaphore' = NewSemaphore(0)
        /\ pc' = [pc EXCEPT ![t] = "finished"]
    BY <1>4, <2>2 DEF WaitAgain, Wait, Turn, Passes, NewSemaphore
  <2>4. \A u \in Threads : u # t => pc'[u] = pc[u] /\ pc[u] # "wait"
    BY <2>1, <2>3
  <2>5. InterruptAnswersRequest'
    BY <1>4, <2>2, <2>3, <2>4 DEF WaitAgain, InterruptAnswersRequest
  <2>6. QED
    BY <1>4, <2>1, <2>3, <2>4, <2>5 DEF WaitAgain, Asleep
<1>5. CASE Release(t)
  <2>1. /\ pc[t] = "finished"
        /\ pc' = [pc EXCEPT ![t] = "idle"]
        /\ lockHolder' = NoThread
    BY <1>5 DEF Release, Goto
  <2>2. /\ lock.value = 0 /\ lock'.value = 1
        /\ Sleepers(lock') = Sleepers(lock) \ Woken(lock)
        /\ Sleepers(lock) # {} => Woken(lock) # {}
        /\ Woken(lock) \subseteq Sleepers(lock)
    <3>1. SemaphoreOK(lock, Threads) /\ lock' = V(lock)
      BY <1>5 DEF Release
    <3>2. lock.value = 0
      BY <2>1
    <3>3. V(lock).value = lock.value + 1
      BY <3>1, VProperties
    <3>4. lock'.value = 1
      BY <3>1, <3>2, <3>3
    <3>5. QED
      BY <3>1, <3>2, <3>4, VProperties
  <2>3. Sleepers(lock) \subseteq Threads
    BY SleepersAreThreads
  <2>4. \A u \in Threads : ~HoldsLock(u)'
    BY <2>1
  <2>5. LockWakeupNotLost'
    <3> SUFFICES ASSUME Sleepers(lock') # {}
                 PROVE  \E u \in Threads : pc'[u] = "acquire" /\ ~Asleep(lock', u)
      OBVIOUS
    <3>1. PICK u \in Woken(lock) : TRUE
      BY <2>2
    <3>2. u \in Threads /\ pc[u] = "acquire" /\ u # t /\ u \notin Sleepers(lock')
      BY <2>1, <2>2, <2>3, <3>1 DEF Asleep
    <3>3. QED
      BY <2>1, <3>2 DEF Asleep
  <2>6. InterruptAnswersRequest'
    BY <1>5, <2>1 DEF Release, InterruptAnswersRequest
  <2>7. \A u \in Threads : Asleep(lock, u)' => pc'[u] = "acquire"
    BY <2>1, <2>2 DEF Asleep
  <2>8. LockInv' /\ MutualExclusion' /\ HolderInv'
    BY <2>1, <2>2, <2>4, <2>7
  <2>9. QED
    BY <2>5, <2>6, <2>8
<1>6. QED
  BY <1>1, <1>2, <1>3, <1>4, <1>5 DEF Step

LEMMA CallBackInv ==
    ASSUME TypeOK, IInv, DiskCallBack
    PROVE  IInv'
<1>1. pending > 0 /\ pc' = pc /\ lock' = lock /\ lockHolder' = lockHolder
  BY DEF DiskCallBack
<1>2. PICK t \in Threads : pc[t] = "wait"
  BY <1>1 DEF IInv, InterruptAnswersRequest
<1>3. pending = 1 /\ semaphore = [value |-> 0, queue |-> << t >>]
  BY <1>1, <1>2 DEF IInv, InterruptAnswersRequest
<1>4. Tail(<< t >>) = << >>
  OBVIOUS
<1>5. semaphore' = NewSemaphore(1) /\ pending' = 0 /\ ~active'
  BY <1>3, <1>4 DEF DiskCallBack, V, NewSemaphore
<1>6. InterruptAnswersRequest'
  BY <1>1, <1>2, <1>5 DEF InterruptAnswersRequest
<1>7. QED
  BY <1>1, <1>6 DEF IInv, LockInv, MutualExclusion, HoldsLock, HolderInv,
                    LockWakeupNotLost, Asleep

LEMMA NextInv == TypeOK /\ IInv /\ [Next]_vars => IInv'
<1> SUFFICES ASSUME TypeOK, IInv, [Next]_vars PROVE IInv'
  OBVIOUS
<1>1. CASE UNCHANGED vars
  BY <1>1 DEF vars, IInv, LockInv, MutualExclusion, HoldsLock, HolderInv,
              InterruptAnswersRequest, LockWakeupNotLost, Asleep
<1>2. QED
  BY <1>1, StepInv, CallBackInv DEF Next, Terminated

(* The inductive invariant holds, and with it each of its conjuncts. *)
THEOREM SynchDiskInvariant == Spec => []IInv
  BY InitInv, NextInv, SynchDiskTyping, PTL DEF Spec

(* At most one thread is between the P and the V of the disk's lock. *)
THEOREM SynchDiskMutualExclusion == Spec => []MutualExclusion
<1>1. IInv => MutualExclusion
  BY DEF IInv
<1>2. QED
  BY <1>1, SynchDiskInvariant, PTL

(* ASSERT(!active) in Disk::ReadRequest and WriteRequest cannot fail. *)
THEOREM SynchDiskDeviceIdle == Spec => []RequestFindsDeviceIdle
<1>1. IInv => RequestFindsDeviceIdle
  <2> SUFFICES ASSUME IInv, NEW t \in Threads, pc[t] = "locked"
               PROVE  ~active /\ pending = 0
    BY DEF RequestFindsDeviceIdle
  <2>1. \A u \in Threads : pc[u] # "wait"
    BY DEF IInv, MutualExclusion, HoldsLock
  <2>2. QED
    BY <2>1 DEF IInv, InterruptAnswersRequest
<1>2. QED
  BY <1>1, SynchDiskInvariant, PTL

(* ASSERT(IsHeldByCurrentThread()) in Lock::Release cannot fail. *)
THEOREM SynchDiskReleasedByHolder == Spec => []ReleasedByHolder
<1>1. IInv => ReleasedByHolder
  BY DEF IInv, HolderInv, ReleasedByHolder
<1>2. QED
  BY <1>1, SynchDiskInvariant, PTL

(* A thread waits at the device exactly while its own interrupt is         *)
(* outstanding or has opened the semaphore for it.                         *)
THEOREM SynchDiskInterrupts == Spec => []InterruptAnswersRequest
<1>1. IInv => InterruptAnswersRequest
  BY DEF IInv
<1>2. QED
  BY <1>1, SynchDiskInvariant, PTL

(* Sleepers in Acquire are never forgotten. *)
THEOREM SynchDiskWakeups == Spec => []LockWakeupNotLost
<1>1. IInv => LockWakeupNotLost
  BY DEF IInv
<1>2. QED
  BY <1>1, SynchDiskInvariant, PTL
-----------------------------------------------------------------------------
(***************************************************************************)
(* The refinement.  The abstract phase of a thread is a function of its pc *)
(* and of the device, so what has to be seen is that Acquire, the end of   *)
(* semaphore->P and Terminated leave every phase alone, and that the other *)
(* steps are the steps of SectorStore.                                     *)
(***************************************************************************)
LEMMA RefinesInit == Init => Abstract!Init
<1> SUFFICES ASSUME Init PROVE Abstract!Init
  OBVIOUS
<1>1. \A t \in Threads : Phase(t) = "none"
  BY DEF Init, Phase
<1>2. [t \in Threads |-> Phase(t)] = [t \in Threads |-> "none"]
  BY <1>1
<1>3. QED
  BY <1>2 DEF Init, Abstract!Init

LEMMA RefinesStep ==
    ASSUME TypeOK, IInv, NEW t \in Threads, Step(t)
    PROVE  [Abstract!Next]_(Abstract!vars)
<1> DEFINE phase == [u \in Threads |-> Phase(u)]
<1> USE DEF TypeOK, IInv, callerVars, deviceVars
<1>1. CASE Call(t)
  <2>1. pc[t] = "idle" /\ pc' = [pc EXCEPT ![t] = "acquire"] /\ active' = active
    BY <1>1 DEF Call, Goto
  <2>2. phase[t] = "none" /\ phase' = [phase EXCEPT ![t] = "called"]
    BY <2>1 DEF Phase
  <2>3. Abstract!Call(t)
    BY <1>1, <2>2 DEF Call, Abstract!Call, Requests, Abstract!Requests
  <2>4. QED
    BY <2>3 DEF Abstract!Next
<1>2. CASE Acquire(t)
  <2>1. /\ pc[t] = "acquire"
        /\ pc' = pc \/ pc' = [pc EXCEPT ![t] = "locked"]
        /\ active' = active
    BY <1>2 DEF Acquire
  <2>2. phase' = phase
    BY <2>1 DEF Phase
  <2>3. QED
    BY <1>2, <2>2 DEF Acquire, Abstract!vars
<1>3. CASE SendRequest(t)
  <2>1. pc[t] = "locked" /\ \A u \in Threads : pc[u] # "wait" /\ pc[u] # "finished"
    BY <1>3 DEF SendRequest, MutualExclusion, HoldsLock
  <2>2. semaphore = NewSemaphore(0) /\ ~active
    BY <2>1 DEF InterruptAnswersRequest
  <2>3. pc' = [pc EXCEPT ![t] = "wait"] /\ active'
    BY <1>3, <2>2 DEF SendRequest, DiskRequest, Wait, Passes, NewSemaphore
  <2>4. phase[t] = "called" /\ phase' = [phase EXCEPT ![t] = "served"]
    BY <2>1, <2>3 DEF Phase
  <2>5. \A u \in Threads : phase[u] \notin {"served", "finished"}
    BY <2>1 DEF Phase, PCs
  <2>6. Abstract!Transfer(t) /\ request' = request
    BY <1>3 DEF SendRequest, DiskRequest, Abstract!Transfer
  <2>7. Abstract!Serve(t)
    BY <2>4, <2>5, <2>6 DEF Abstract!Serve
  <2>8. QED
    BY <2>7 DEF Abstract!Next
<1>4. CASE WaitAgain(t)
  <2>1. pc[t] = "wait" /\ ~Asleep(semaphore, t)
    BY <1>4 DEF WaitAgain, Wait
  <2>2. ~active /\ (pc' = pc \/ pc' = [pc EXCEPT ![t] = "finished"])
    <3>1. t \in Range(<< t >>)
      BY DEF Range
    <3>2. semaphore # [value |-> 0, queue |-> << t >>]
      BY <2>1, <3>1 DEF Asleep, Sleepers
    <3>3. ~active
      BY <2>1, <3>2 DEF InterruptAnswersRequest
    <3>4. pc' = pc \/ pc' = [pc EXCEPT ![t] = "finished"]
      BY <1>4, <2>1 DEF WaitAgain, Wait
    <3>5. QED
      BY <3>3, <3>4
  <2>3. active' = active
    BY <1>4 DEF WaitAgain
  <2>4. phase' = phase
    BY <2>1, <2>2, <2>3 DEF Phase
  <2>5. QED
    BY <1>4, <2>4 DEF WaitAgain, Abstract!vars
<1>5. CASE Release(t)
  <2>1. pc[t] = "finished" /\ pc' = [pc EXCEPT ![t] = "idle"] /\ active' = active
    BY <1>5 DEF Release, Goto
  <2>2. phase[t] = "finished" /\ phase' = [phase EXCEPT ![t] = "none"]
    BY <2>1 DEF Phase
  <2>3. Abstract!Return(t)
    BY <1>5, <2>2 DEF Release, Abstract!Return
  <2>4. QED
    BY <2>3 DEF Abstract!Next
<1>6. QED
  BY <1>1, <1>2, <1>3, <1>4, <1>5 DEF Step

LEMMA RefinesCallBack ==
    ASSUME TypeOK, IInv, DiskCallBack
    PROVE  [Abstract!Next]_(Abstract!vars)
<1> DEFINE phase == [u \in Threads |-> Phase(u)]
<1>1. pending > 0 /\ pc' = pc /\ active' = FALSE
  BY DEF DiskCallBack
<1>2. PICK t \in Threads : pc[t] = "wait"
  BY <1>1 DEF IInv, InterruptAnswersRequest
<1>3. active
  BY <1>1, <1>2 DEF IInv, InterruptAnswersRequest
<1>4. \A u \in Threads : pc[u] = "wait" => u = t
  BY <1>2 DEF IInv, MutualExclusion, HoldsLock
<1>5. phase[t] = "served" /\ phase' = [phase EXCEPT ![t] = "finished"]
  BY <1>1, <1>2, <1>3, <1>4 DEF Phase
<1>6. Abstract!Finish(t)
  BY <1>5 DEF DiskCallBack, callerVars, Abstract!Finish
<1>7. QED
  BY <1>6 DEF Abstract!Next

LEMMA RefinesNext == TypeOK /\ IInv /\ [Next]_vars => [Abstract!Next]_(Abstract!vars)
<1> SUFFICES ASSUME TypeOK, IInv, [Next]_vars PROVE [Abstract!Next]_(Abstract!vars)
  OBVIOUS
<1>1. CASE UNCHANGED vars
  BY <1>1 DEF vars, Abstract!vars, Phase
<1>2. QED
  BY <1>1, RefinesStep, RefinesCallBack DEF Next, Terminated

(* SynchDisk implements SectorStore. *)
THEOREM SynchDiskImplements == Spec => ImplementsSectorStore
  BY RefinesInit, RefinesNext, SynchDiskTyping, SynchDiskInvariant, PTL
     DEF Spec, ImplementsSectorStore, Abstract!Spec
===============================================================================

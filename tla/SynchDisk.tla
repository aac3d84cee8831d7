------------------------------ MODULE SynchDisk -------------------------------
(***************************************************************************)
(* The synchronous disk: filesys/synchdisk.cc over the lock and semaphore  *)
(* of threads/synch.cc and the device of machine/disk.cc, which accepts    *)
(* one request and answers it with an interrupt.                           *)
(*                                                                         *)
(* A step of a thread is the code between two points where the CPU can be  *)
(* taken away.  In this kernel those are the calls of Sleep and the ends of*)
(* P and V, where SetLevel(IntOn) runs Interrupt::OneTick and that may run *)
(* device handlers and then Yield.  Which ready thread runs next is left   *)
(* open: any schedule, with preemption at every such point, is a behaviour.*)
(* A handler runs with interrupts off, so it is one step.                  *)
(***************************************************************************)
EXTENDS Semaphores

CONSTANTS Threads,     \* kernel threads that use the disk
          Sectors,     \* sector numbers
          Data,        \* contents of a sector
          NoThread,    \* the NULL of lockHolder
          NoRequest,   \* a thread that has asked for nothing
          NoData,      \* a buffer nothing was read into
          MaxRequests  \* bound: requests each thread makes

ASSUME NoThreadAssumption == NoThread \notin Threads
ASSUME MaxRequestsAssumption == MaxRequests \in Nat

VARIABLES pc,         \* where each thread stands
          request,    \* the arguments of its call
          buffer,     \* its memory: what its last read left there
          issued,     \* how many requests it made
          lock,       \* SynchDisk::lock->semaphore
          lockHolder, \* SynchDisk::lock->lockHolder
          semaphore,  \* SynchDisk::semaphore, V'd by the interrupt
          active,     \* Disk::active
          pending,    \* disk interrupts scheduled and not yet run
          store       \* the UNIX file that holds the sectors

vars == << pc, request, buffer, issued, lock, lockHolder, semaphore, active,
           pending, store >>
callerVars == << request, buffer, issued >>
deviceVars == << active, pending, store >>

Requests ==      [kind : {"read"},  sector : Sectors]
            \cup [kind : {"write"}, sector : Sectors, data : Data]

ASSUME NoRequestAssumption == NoRequest \notin Requests

(* "idle"     outside SynchDisk                                            *)
(* "acquire"  at the while loop of P in lock->Acquire                      *)
(* "locked"   that P is over, lockHolder not yet assigned                  *)
(* "wait"     at the while loop of semaphore->P, request sent              *)
(* "finished" that P is over, lock not yet released                        *)
PCs == {"idle", "acquire", "locked", "wait", "finished"}

Goto(t, from, to) == pc[t] = from /\ pc' = [pc EXCEPT ![t] = to]

Init == /\ pc = [t \in Threads |-> "idle"]
        /\ request = [t \in Threads |-> NoRequest]
        /\ buffer = [t \in Threads |-> NoData]
        /\ issued = [t \in Threads |-> 0]
        /\ lock = NewSemaphore(1)
        /\ lockHolder = NoThread
        /\ semaphore = NewSemaphore(0)
        /\ active = FALSE
        /\ pending = 0
        /\ store \in [Sectors -> Data]

(* A thread calls ReadSector or WriteSector. *)
Call(t) == /\ Goto(t, "idle", "acquire")
           /\ issued[t] < MaxRequests
           /\ issued' = [issued EXCEPT ![t] = @ + 1]
           /\ \E r \in Requests : request' = [request EXCEPT ![t] = r]
           /\ UNCHANGED << buffer, lock, lockHolder, semaphore, deviceVars >>

(* lock->Acquire: one turn of the loop of its P. *)
Acquire(t) == /\ pc[t] = "acquire"
              /\ ~Asleep(lock, t)
              /\ lock' = Turn(lock, t)
              /\ pc' = [pc EXCEPT ![t] = IF Passes(lock) THEN "locked" ELSE @]
              /\ UNCHANGED << callerVars, lockHolder, semaphore, deviceVars >>

(* Mutant: the device never interrupts. *)
ScheduleNothing == UNCHANGED pending

(* Interrupt::Schedule of a disk interrupt. *)
Schedule == pending' = pending + 1

(* Disk::ReadRequest, Disk::WriteRequest: the data moves at once, and an *)
(* interrupt is scheduled for the moment the real device would be done.  *)
DiskRequest(t) ==
    LET r == request[t] IN
    /\ \/ /\ r.kind = "read"
          /\ buffer' = [buffer EXCEPT ![t] = store[r.sector]]
          /\ UNCHANGED store
       \/ /\ r.kind = "write"
          /\ store' = [store EXCEPT ![r.sector] = r.data]
          /\ UNCHANGED buffer
    /\ active' = TRUE
    /\ Schedule

(* One turn of the loop of semaphore->P. *)
Wait(t) == /\ ~Asleep(semaphore, t)
           /\ semaphore' = Turn(semaphore, t)
           /\ pc' = [pc EXCEPT ![t] = IF Passes(semaphore) THEN "finished" ELSE "wait"]

(* Mutants: lockHolder is not assigned; the lock is given up before the wait. *)
SendRequestHolderless(t) == /\ pc[t] = "locked"
                            /\ DiskRequest(t)
                            /\ Wait(t)
                            /\ UNCHANGED << request, issued, lock, lockHolder >>

SendRequestUnlocked(t) == /\ pc[t] = "locked"
                          /\ lockHolder' = t
                          /\ lock' = V(lock)
                          /\ DiskRequest(t)
                          /\ Wait(t)
                          /\ UNCHANGED << request, issued >>

(* From the return of the lock's P to the first turn of semaphore->P:      *)
(* lockHolder is assigned, the request sent, and the thread goes to sleep  *)
(* unless the semaphore is open.  Nothing here can be preempted.           *)
SendRequest(t) == /\ pc[t] = "locked"
                  /\ lockHolder' = t
                  /\ DiskRequest(t)
                  /\ Wait(t)
                  /\ UNCHANGED << request, issued, lock >>

(* The thread runs again after Sleep: back to the test of the loop. *)
WaitAgain(t) == /\ pc[t] = "wait"
                /\ Wait(t)
                /\ UNCHANGED << callerVars, lock, lockHolder, deviceVars >>

(* Mutant: the lock is opened and no sleeper made ready. *)
ReleaseWakesNobody(t) == /\ Goto(t, "finished", "idle")
                         /\ lockHolder' = NoThread
                         /\ lock' = [lock EXCEPT !.value = @ + 1]
                         /\ request' = [request EXCEPT ![t] = NoRequest]
                         /\ UNCHANGED << buffer, issued, semaphore, deviceVars >>

(* lock->Release and the return to the caller. *)
Release(t) == /\ Goto(t, "finished", "idle")
              /\ lockHolder' = NoThread
              /\ lock' = V(lock)
              /\ request' = [request EXCEPT ![t] = NoRequest]
              /\ UNCHANGED << buffer, issued, semaphore, deviceVars >>

(* Mutant: the device stays busy. *)
DiskCallBackBusy == /\ pending > 0
                    /\ pending' = pending - 1
                    /\ semaphore' = V(semaphore)
                    /\ UNCHANGED << pc, callerVars, lock, lockHolder, active, store >>

(* Disk::CallBack and SynchDisk::CallBack, the interrupt handler. *)
DiskCallBack == /\ pending > 0
                /\ pending' = pending - 1
                /\ active' = FALSE
                /\ semaphore' = V(semaphore)
                /\ UNCHANGED << pc, callerVars, lock, lockHolder, store >>

(* Every thread has made its requests: the model, not the system, stops. *)
Terminated == /\ \A t \in Threads : pc[t] = "idle" /\ issued[t] = MaxRequests
              /\ UNCHANGED vars

Step(t) == Call(t) \/ Acquire(t) \/ SendRequest(t) \/ WaitAgain(t) \/ Release(t)

Next == (\E t \in Threads : Step(t)) \/ DiskCallBack \/ Terminated

Spec == Init /\ [][Next]_vars

(* The machine never stops while something can happen: either some ready   *)
(* thread has the CPU or, in Idle, the clock moves to the next interrupt.  *)
(* Nothing is assumed about which ready thread is chosen.                  *)
FairSpec == Spec /\ WF_vars(Next)

-----------------------------------------------------------------------------

(* Every variable keeps its type; in particular a semaphore's value is     *)
(* never negative (threads/synch.h:52) and no thread is queued twice.      *)
TypeOK == /\ pc \in [Threads -> PCs]
          /\ request \in [Threads -> Requests \cup {NoRequest}]
          /\ \A t \in Threads : pc[t] # "idle" => request[t] \in Requests
          /\ buffer \in [Threads -> Data \cup {NoData}]
          /\ issued \in [Threads -> 0 .. MaxRequests]
          /\ SemaphoreOK(lock, Threads)
          /\ lockHolder \in Threads \cup {NoThread}
          /\ SemaphoreOK(semaphore, Threads)
          /\ active \in BOOLEAN
          /\ pending \in Nat
          /\ store \in [Sectors -> Data]

(* The thread is between the P and the V of the lock. *)
HoldsLock(t) == pc[t] \in {"locked", "wait", "finished"}

(* Only one thread at a time is past the lock of SynchDisk, although P is  *)
(* left with interrupts on and the lock is handed to nobody by V.          *)
MutualExclusion == \A t, u \in Threads : HoldsLock(t) /\ HoldsLock(u) => t = u

(* ASSERT(!active) of Disk::ReadRequest and WriteRequest: a thread about to*)
(* send its request finds the device idle and no interrupt outstanding.    *)
RequestFindsDeviceIdle ==
    \A t \in Threads : pc[t] = "locked" => ~active /\ pending = 0

(* ASSERT(IsHeldByCurrentThread()) of Lock::Release: when a thread comes to*)
(* release the lock, lockHolder still names it.                            *)
ReleasedByHolder == \A t \in Threads : pc[t] = "finished" => lockHolder = t

(* No interrupt is lost and none is left over: a thread at semaphore->P is *)
(* asleep with its interrupt outstanding, or awake with the semaphore open,*)
(* and without such a thread the semaphore is closed, empty, and nothing is*)
(* outstanding.                                                            *)
InterruptAnswersRequest ==
    LET outstanding(t) == /\ active /\ pending = 1
                          /\ semaphore = [value |-> 0, queue |-> << t >>]
        answered == /\ ~active /\ pending = 0
                    /\ semaphore = NewSemaphore(1)
        quiet    == /\ ~active /\ pending = 0
                    /\ semaphore = NewSemaphore(0)
    IN  /\ \A t \in Threads : pc[t] = "wait" => outstanding(t) \/ answered
        /\ (\A t \in Threads : pc[t] # "wait") => quiet

(* No wakeup of the lock is lost: while threads sleep in Acquire, a thread *)
(* holds the lock and will V it, or one that is awake is about to take it. *)
LockWakeupNotLost ==
    Sleepers(lock) # {} =>
        \/ \E t \in Threads : HoldsLock(t)
        \/ \E t \in Threads : pc[t] = "acquire" /\ ~Asleep(lock, t)

(* The lock's semaphore is open exactly when nobody is past it, and only   *)
(* threads inside Acquire sleep in it.                                     *)
LockInv == /\ lock.value \in {0, 1}
           /\ lock.value = 1 <=> \A t \in Threads : ~HoldsLock(t)
           /\ \A t \in Threads : Asleep(lock, t) => pc[t] = "acquire"

(* lockHolder names the thread whose request is at the device. *)
HolderInv == \A t \in Threads : pc[t] \in {"wait", "finished"} => lockHolder = t

(* The inductive invariant of the proofs. *)
IInv == /\ LockInv
        /\ MutualExclusion
        /\ HolderInv
        /\ InterruptAnswersRequest
        /\ LockWakeupNotLost

(* Every call of ReadSector and WriteSector returns. *)
RequestsReturn == \A t \in Threads : (pc[t] = "acquire") ~> (pc[t] = "idle")

(* The abstract phase of a thread's request. *)
Phase(t) == CASE pc[t] = "idle"                  -> "none"
              [] pc[t] \in {"acquire", "locked"} -> "called"
              [] pc[t] = "wait" /\ active        -> "served"
              [] OTHER                           -> "finished"

Abstract == INSTANCE SectorStore WITH phase <- [t \in Threads |-> Phase(t)]

(* SynchDisk implements SectorStore: it serves requests one at a time, each*)
(* between its call and its return, and returns when the device is done.   *)
ImplementsSectorStore == Abstract!Spec
===============================================================================

------------------------------ MODULE SynchList -------------------------------
(***************************************************************************)
(* The synchronized list: threads/synchlist.cc over Lock and Condition of  *)
(* threads/synch.cc.  It is a monitor with Mesa semantics: Signal does not *)
(* hand the lock to the thread it wakes, which must Acquire it again and   *)
(* test the list again.  Condition::Wait makes a semaphore per waiting     *)
(* thread, so that a V between its Release and its P is not missed.        *)
(*                                                                         *)
(* Steps are cut as in SynchDisk: where P or V ends or P goes to sleep.    *)
(***************************************************************************)
EXTENDS Semaphores, FiniteSets

CONSTANTS Threads,  \* kernel threads that use the list
          Items,    \* what is queued
          NoItem,   \* nothing was ever taken
          NoThread, \* the NULL of lockHolder
          MaxCalls  \* bound: operations each thread calls

ASSUME NoThreadAssumption == NoThread \notin Threads
ASSUME MaxCallsAssumption == MaxCalls \in Nat

VARIABLES pc,         \* where each thread stands
          call,       \* the operation it is in
          item,       \* the argument of its Append, or what it took last
          made,       \* how many operations it called
          list,       \* SynchList::list
          lock,       \* SynchList::lock->semaphore
          lockHolder, \* SynchList::lock->lockHolder
          waitQueue,  \* Condition::waitQueue, of the threads whose semaphores are in it
          waiter      \* the semaphore Condition::Wait made for each thread

vars == << pc, call, item, made, list, lock, lockHolder, waitQueue, waiter >>

(* "idle"      outside SynchList                                           *)
(* "acquire"   at the while loop of P in lock->Acquire                     *)
(* "locked"    that P is over, lockHolder not yet assigned                 *)
(* "signalled" in Append, after the V of Signal, before Release            *)
(* "wait"      in Condition::Wait, at the while loop of waiter->P          *)
PCs == {"idle", "acquire", "locked", "signalled", "wait"}
Calls == {"append", "remove", "apply"}

Init == /\ pc = [t \in Threads |-> "idle"]
        /\ call = [t \in Threads |-> "none"]
        /\ item = [t \in Threads |-> NoItem]
        /\ made = [t \in Threads |-> 0]
        /\ list = << >>
        /\ lock = NewSemaphore(1)
        /\ lockHolder = NoThread
        /\ waitQueue = << >>
        /\ waiter = [t \in Threads |-> NewSemaphore(0)]

(* A thread calls Append, RemoveFront or Apply. *)
Call(t) == /\ pc[t] = "idle" /\ pc' = [pc EXCEPT ![t] = "acquire"]
           /\ made[t] < MaxCalls
           /\ made' = [made EXCEPT ![t] = @ + 1]
           /\ \/ \E i \in Items : /\ call' = [call EXCEPT ![t] = "append"]
                                  /\ item' = [item EXCEPT ![t] = i]
              \/ \E c \in {"remove", "apply"} : /\ call' = [call EXCEPT ![t] = c]
                                                /\ UNCHANGED item
           /\ UNCHANGED << list, lock, lockHolder, waitQueue, waiter >>

(* lock->Acquire, at the start of an operation or the end of Wait: one turn*)
(* of the loop of its P.                                                   *)
Acquire(t) == /\ pc[t] = "acquire"
              /\ ~Asleep(lock, t)
              /\ lock' = Turn(lock, t)
              /\ pc' = [pc EXCEPT ![t] = IF Passes(lock) THEN "locked" ELSE @]
              /\ UNCHANGED << call, item, made, list, lockHolder, waitQueue, waiter >>

(* The thread has the lock and is in operation c. *)
Inside(t, c) == pc[t] = "locked" /\ call[t] = c

(* Lock::Release, and the return of the operation. *)
Release == lockHolder' = NoThread /\ lock' = V(lock)
Return(t) == /\ Release
             /\ pc' = [pc EXCEPT ![t] = "idle"]
             /\ call' = [call EXCEPT ![t] = "none"]

(* Condition::Signal, when a thread waits. *)
Signal == /\ waitQueue' = Tail(waitQueue)
          /\ waiter' = [waiter EXCEPT ![Head(waitQueue)] = V(@)]

(* Mutants: Append signals only for the first item of an empty list; it    *)
(* puts the item in front; it signals and leaves the waiter in the queue.  *)
AppendSignalsOnEmpty(t) ==
    /\ Inside(t, "append")
    /\ list' = Append(list, item[t])
    /\ IF waitQueue = << >> \/ list # << >>
       THEN Return(t) /\ UNCHANGED << waitQueue, waiter >>
       ELSE /\ Signal
            /\ lockHolder' = t
            /\ pc' = [pc EXCEPT ![t] = "signalled"]
            /\ UNCHANGED << call, lock >>
    /\ UNCHANGED << item, made >>

AppendInFront(t) ==
    /\ Inside(t, "append")
    /\ list' = << item[t] >> \o list
    /\ IF waitQueue = << >>
       THEN Return(t) /\ UNCHANGED << waitQueue, waiter >>
       ELSE /\ Signal
            /\ lockHolder' = t
            /\ pc' = [pc EXCEPT ![t] = "signalled"]
            /\ UNCHANGED << call, lock >>
    /\ UNCHANGED << item, made >>

(* SynchList::Append once the lock is there, up to the end of the V of     *)
(* Signal, or to the end when nobody waits.                                *)
AppendItem(t) ==
    /\ Inside(t, "append")
    /\ list' = Append(list, item[t])
    /\ IF waitQueue = << >>
       THEN Return(t) /\ UNCHANGED << waitQueue, waiter >>
       ELSE /\ Signal
            /\ lockHolder' = t
            /\ pc' = [pc EXCEPT ![t] = "signalled"]
            /\ UNCHANGED << call, lock >>
    /\ UNCHANGED << item, made >>

(* The Release of Append, after Signal. *)
EndAppend(t) == /\ pc[t] = "signalled"
                /\ Return(t)
                /\ UNCHANGED << item, made, list, waitQueue, waiter >>

(* SynchList::RemoveFront, the list not empty. *)
TakeItem(t) == /\ Inside(t, "remove")
               /\ list # << >>
               /\ item' = [item EXCEPT ![t] = Head(list)]
               /\ list' = Tail(list)
               /\ Return(t)
               /\ UNCHANGED << made, waitQueue, waiter >>

(* Mutant: the lock is kept while waiting. *)
WaitForItemLocked(t) ==
    /\ Inside(t, "remove")
    /\ list = << >>
    /\ waitQueue' = Append(waitQueue, t)
    /\ waiter' = [waiter EXCEPT ![t] = NewSemaphore(0)]
    /\ lockHolder' = t
    /\ pc' = [pc EXCEPT ![t] = "wait"]
    /\ UNCHANGED << call, item, made, list, lock >>

(* Mutant: the waiter's semaphore is put in the queue after Release. *)
WaitForItemUnqueued(t) ==
    /\ Inside(t, "remove")
    /\ list = << >>
    /\ waiter' = [waiter EXCEPT ![t] = NewSemaphore(0)]
    /\ Release
    /\ pc' = [pc EXCEPT ![t] = "wait"]
    /\ UNCHANGED << call, item, made, list, waitQueue >>

(* The list empty: Condition::Wait, up to the end of the V of its Release. *)
WaitForItem(t) == /\ Inside(t, "remove")
                  /\ list = << >>
                  /\ waitQueue' = Append(waitQueue, t)
                  /\ waiter' = [waiter EXCEPT ![t] = NewSemaphore(0)]
                  /\ Release
                  /\ pc' = [pc EXCEPT ![t] = "wait"]
                  /\ UNCHANGED << call, item, made, list >>

(* Condition::Wait, one turn of the loop of waiter->P. *)
Wait(t) == /\ pc[t] = "wait"
           /\ ~Asleep(waiter[t], t)
           /\ waiter' = [waiter EXCEPT ![t] = Turn(@, t)]
           /\ pc' = [pc EXCEPT ![t] = IF Passes(waiter[t]) THEN "acquire" ELSE @]
           /\ UNCHANGED << call, item, made, list, lock, lockHolder, waitQueue >>

(* SynchList::Apply, of a function that does not touch the list. *)
Apply(t) == /\ Inside(t, "apply")
            /\ Return(t)
            /\ UNCHANGED << item, made, list, waitQueue, waiter >>

(* Nobody has a call left to make; those that still wait do so for an item *)
(* nobody is going to append.                                              *)
Terminated ==
    /\ list = << >> \/ waitQueue = << >>
    /\ \A t \in Threads : \/ pc[t] = "idle" /\ made[t] = MaxCalls
                          \/ pc[t] = "wait" /\ Asleep(waiter[t], t)
    /\ UNCHANGED vars

Step(t) == \/ Call(t) \/ Acquire(t)
           \/ AppendItem(t) \/ EndAppend(t)
           \/ TakeItem(t) \/ WaitForItem(t) \/ Wait(t)
           \/ Apply(t)

Next == (\E t \in Threads : Step(t)) \/ Terminated

Spec == Init /\ [][Next]_vars

(* As in SynchDisk: the machine goes on, and any ready thread may be next. *)
FairSpec == Spec /\ WF_vars(Next)

-----------------------------------------------------------------------------

(* Every variable keeps its type. *)
TypeOK == /\ pc \in [Threads -> PCs]
          /\ call \in [Threads -> Calls \cup {"none"}]
          /\ \A t \in Threads : pc[t] = "idle" <=> call[t] = "none"
          /\ item \in [Threads -> Items \cup {NoItem}]
          /\ \A t \in Threads : call[t] = "append" => item[t] \in Items
          /\ made \in [Threads -> 0 .. MaxCalls]
          /\ list \in Seq(Items)
          /\ SemaphoreOK(lock, Threads)
          /\ lockHolder \in Threads \cup {NoThread}
          /\ waitQueue \in Seq(Threads)
          /\ waiter \in [Threads -> [value : Nat, queue : Seq(Threads)]]
          /\ \A t \in Threads : SemaphoreOK(waiter[t], Threads)

HoldsLock(t) == pc[t] \in {"locked", "signalled"}

(* Only one thread at a time works on the list, the wait queue included,   *)
(* which Signal and Wait use with interrupts on.                           *)
MutualExclusion == \A t, u \in Threads : HoldsLock(t) /\ HoldsLock(u) => t = u

(* ASSERT(IsHeldByCurrentThread()) of the Release that ends Append: the    *)
(* thread that Signal woke has not become the holder meanwhile.            *)
ReleasedByHolder == \A t \in Threads : pc[t] = "signalled" => lockHolder = t

(* A waiting thread is queued once, with its semaphore closed, until it is *)
(* signalled, and then its semaphore is open and it is awake: a V between  *)
(* the Release and the P of Condition::Wait is not missed, and nobody is   *)
(* signalled twice for one Wait.                                           *)
SignalNotMissed ==
    /\ NoDuplicates(waitQueue)
    /\ \A t \in Range(waitQueue) : pc[t] = "wait"
    /\ \A t \in Threads :
          IF pc[t] = "wait" /\ t \notin Range(waitQueue)
          THEN waiter[t] = NewSemaphore(1)
          ELSE waiter[t] \in {[value |-> 0, queue |-> << >>],
                              [value |-> 0, queue |-> << t >>]}

(* Threads in RemoveFront that do not wait for a signal. *)
Takers == {t \in Threads : call[t] = "remove" /\ t \notin Range(waitQueue)}

(* While threads wait, every item in the list has a thread on its way to   *)
(* take it: a waiter that was signalled for it or one that came later and  *)
(* takes the item first.  Append signals one waiter per item, so no item   *)
(* is left behind with threads asleep.                                     *)
ItemsHaveTakers == waitQueue # << >> => Len(list) <= Cardinality(Takers)

(* Append and Apply return, and RemoveFront does unless the list runs out  *)
(* of items.                                                               *)
CallsReturn ==
    \A t \in Threads :
        /\ (call[t] \in {"append", "apply"}) ~> (call[t] = "none")
        /\ (call[t] = "remove" /\ list # << >>) ~> (call[t] = "none" \/ list = << >>)

(* The operation of t takes effect in the step that changes the list.      *)
Phase(t) == CASE pc[t] = "idle"      -> "none"
              [] pc[t] = "signalled" -> "done"
              [] OTHER               -> "called"
Abstract == INSTANCE SharedQueue WITH phase <- [t \in Threads |-> Phase(t)]

(* SynchList implements SharedQueue: the operations take effect one at a   *)
(* time and items leave in the order in which they came.                   *)
ImplementsSharedQueue == Abstract!Spec
===============================================================================

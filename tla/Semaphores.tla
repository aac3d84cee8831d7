------------------------------ MODULE Semaphores ------------------------------
(***************************************************************************)
(* The counting semaphore of threads/synch.cc, as operators on a record    *)
(* [value, queue].  Everything that blocks in the kernel blocks here: Lock,*)
(* Condition, SynchList, SynchDisk, SynchConsole and the post office are   *)
(* built from P and V.                                                     *)
(*                                                                         *)
(* A thread inside P is asleep exactly when it is in the queue.  V takes   *)
(* the first sleeper out and makes it ready, but hands it nothing: the     *)
(* thread finds itself again at the test of the while loop of P, and goes  *)
(* back to the tail of the queue if the value it was woken for is gone.    *)
(* So P is a sequence of turns of that loop.  A turn is one step, only of  *)
(* a thread that is not asleep; it ends P if Passes(s) held before it.     *)
(***************************************************************************)
EXTENDS Integers, Sequences, Functions

(* Mutant: the initial value is ignored and the semaphore created open. *)
NewSemaphoreOpen(initialValue) == [value |-> 1, queue |-> << >>]

NewSemaphore(initialValue) == [value |-> initialValue, queue |-> << >>]

Sleepers(s) == Range(s.queue)

Asleep(s, t) == t \in Sleepers(s)

(* One test of while (value == 0): the loop body, queue->Append and Sleep, *)
(* or the end of P, value--.                                               *)
Passes(s) == s.value # 0
Turn(s, t) == IF Passes(s) THEN [s EXCEPT !.value = @ - 1]
                           ELSE [s EXCEPT !.queue = Append(@, t)]

(* V: ReadyToRun(queue->RemoveFront()) when somebody sleeps, then value++. *)
Woken(s) == IF s.queue = << >> THEN {} ELSE {Head(s.queue)}
V(s) == [value |-> s.value + 1,
         queue |-> IF s.queue = << >> THEN << >> ELSE Tail(s.queue)]

NoDuplicates(q) == \A i, j \in DOMAIN q : q[i] = q[j] => i = j

(* What a semaphore over the threads T always is. *)
SemaphoreOK(s, T) == /\ s \in [value : Nat, queue : Seq(T)]
                     /\ NoDuplicates(s.queue)
===============================================================================

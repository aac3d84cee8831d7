---------------------------- MODULE ConsoleOutput -----------------------------
(***************************************************************************)
(* The console display: SynchConsoleOutput of userprog/synchconsole.cc over*)
(* the device ConsoleOutput of machine/console.cc, which takes a character *)
(* at a time and interrupts when it can take the next.  PutInt keeps the   *)
(* lock from the first digit to the newline; PutChar for one character.    *)
(*                                                                         *)
(* Steps are cut as in SynchDisk.  A character on the display is named by  *)
(* the call it belongs to and its place in the text of that call.          *)
(***************************************************************************)
EXTENDS Semaphores

CONSTANTS Threads,   \* kernel threads that print
          NoThread,  \* the NULL of lockHolder
          MaxDigits, \* the longest text of PutInt, newline included (the code: 12)
          MaxCalls   \* bound: calls each thread makes

ASSUME NoThreadAssumption == NoThread \notin Threads
ASSUME BoundsAssumption == MaxDigits \in Nat \ {0} /\ MaxCalls \in Nat

VARIABLES pc,         \* where each thread stands
          length,     \* how long the text it prints is
          idx,        \* how many characters of it the thread gave to the device
          made,       \* how many calls it made
          lock,       \* SynchConsoleOutput::lock->semaphore
          lockHolder, \* SynchConsoleOutput::lock->lockHolder
          waitFor,    \* SynchConsoleOutput::waitFor, V'd by the interrupt
          putBusy,    \* ConsoleOutput::putBusy
          pending,    \* console interrupts scheduled and not yet run
          display     \* what was written

vars == << pc, length, idx, made, lock, lockHolder, waitFor, putBusy, pending, display >>

(* "acquire"  at the while loop of P in lock->Acquire                      *)
(* "locked"   that P is over, lockHolder not yet assigned                  *)
(* "wait"     at the while loop of waitFor->P, a character given           *)
(* "shown"    that P is over                                               *)
PCs == {"idle", "acquire", "locked", "wait", "shown"}

Init == /\ pc = [t \in Threads |-> "idle"]
        /\ length = [t \in Threads |-> 0]
        /\ idx = [t \in Threads |-> 0]
        /\ made = [t \in Threads |-> 0]
        /\ lock = NewSemaphore(1)
        /\ lockHolder = NoThread
        /\ waitFor = NewSemaphore(0)
        /\ putBusy = FALSE
        /\ pending = 0
        /\ display = << >>

(* PutChar prints one character; PutInt a digit or more and a newline.     *)
PutChar(t) == length' = [length EXCEPT ![t] = 1]
PutInt(t) == \E n \in 2 .. MaxDigits : length' = [length EXCEPT ![t] = n]

Call(t) == /\ pc[t] = "idle" /\ pc' = [pc EXCEPT ![t] = "acquire"]
           /\ made[t] < MaxCalls
           /\ made' = [made EXCEPT ![t] = @ + 1]
           /\ idx' = [idx EXCEPT ![t] = 0]
           /\ PutChar(t) \/ PutInt(t)
           /\ UNCHANGED << lock, lockHolder, waitFor, putBusy, pending, display >>

(* lock->Acquire: one turn of the loop of its P. *)
Acquire(t) == /\ pc[t] = "acquire"
              /\ ~Asleep(lock, t)
              /\ lock' = Turn(lock, t)
              /\ pc' = [pc EXCEPT ![t] = IF Passes(lock) THEN "locked" ELSE @]
              /\ UNCHANGED << length, idx, made, lockHolder, waitFor, putBusy, pending,
                              display >>

(* One turn of the loop of waitFor->P. *)
Wait(t) == /\ ~Asleep(waitFor, t)
           /\ waitFor' = Turn(waitFor, t)
           /\ pc' = [pc EXCEPT ![t] = IF Passes(waitFor) THEN "shown" ELSE "wait"]

(* ConsoleOutput::PutChar of the next character, up to the first turn of   *)
(* the P that follows.                                                     *)
Show(t) == /\ idx' = [idx EXCEPT ![t] = @ + 1]
           /\ display' = Append(display, [by |-> t, call |-> made[t], at |-> idx[t] + 1,
                                          of |-> length[t]])
           /\ putBusy' = TRUE
           /\ pending' = pending + 1
           /\ Wait(t)

FirstCharacter(t) == /\ pc[t] = "locked"
                     /\ lockHolder' = t
                     /\ Show(t)
                     /\ UNCHANGED << length, made, lock >>

WaitAgain(t) == /\ pc[t] = "wait"
                /\ Wait(t)
                /\ UNCHANGED << length, idx, made, lock, lockHolder, putBusy, pending,
                                display >>

(* Mutant: PutInt gives the lock up between characters. *)
NextCharacterUnlocked(t) == /\ pc[t] = "shown" /\ idx[t] < length[t]
                            /\ pc' = [pc EXCEPT ![t] = "acquire"]
                            /\ lockHolder' = NoThread
                            /\ lock' = V(lock)
                            /\ UNCHANGED << length, idx, made, waitFor, putBusy, pending,
                                            display >>

(* while (str[idx] != '\0') *)
NextCharacter(t) == /\ pc[t] = "shown" /\ idx[t] < length[t]
                    /\ Show(t)
                    /\ UNCHANGED << length, made, lock, lockHolder >>

Release(t) == /\ pc[t] = "shown" /\ idx[t] = length[t]
              /\ pc' = [pc EXCEPT ![t] = "idle"]
              /\ lockHolder' = NoThread
              /\ lock' = V(lock)
              /\ UNCHANGED << length, idx, made, waitFor, putBusy, pending, display >>

(* Mutants: the device stays busy; the handler does not V. *)
CallBackBusy == /\ pending > 0
                /\ pending' = pending - 1
                /\ waitFor' = V(waitFor)
                /\ UNCHANGED << pc, length, idx, made, lock, lockHolder, putBusy, display >>

CallBackSilent == /\ pending > 0
                  /\ pending' = pending - 1
                  /\ putBusy' = FALSE
                  /\ UNCHANGED << pc, length, idx, made, lock, lockHolder, waitFor, display >>

(* ConsoleOutput::CallBack and SynchConsoleOutput::CallBack. *)
CallBack == /\ pending > 0
            /\ pending' = pending - 1
            /\ putBusy' = FALSE
            /\ waitFor' = V(waitFor)
            /\ UNCHANGED << pc, length, idx, made, lock, lockHolder, display >>

(* Every thread has made its calls: the model, not the system, stops. *)
Terminated == /\ \A t \in Threads : pc[t] = "idle" /\ made[t] = MaxCalls
              /\ UNCHANGED vars

Next == \/ \E t \in Threads : \/ Call(t) \/ Acquire(t) \/ FirstCharacter(t)
                              \/ WaitAgain(t) \/ NextCharacter(t) \/ Release(t)
        \/ CallBack
        \/ Terminated

Spec == Init /\ [][Next]_vars

(* As in SynchDisk: the machine goes on, and any ready thread may be next. *)
FairSpec == Spec /\ WF_vars(Next)

-----------------------------------------------------------------------------

(* Every variable keeps its type. *)
TypeOK == /\ pc \in [Threads -> PCs]
          /\ length \in [Threads -> 0 .. MaxDigits]
          /\ idx \in [Threads -> 0 .. MaxDigits]
          /\ made \in [Threads -> 0 .. MaxCalls]
          /\ SemaphoreOK(lock, Threads)
          /\ lockHolder \in Threads \cup {NoThread}
          /\ SemaphoreOK(waitFor, Threads)
          /\ putBusy \in BOOLEAN
          /\ pending \in Nat
          /\ display \in Seq([by : Threads, call : 1 .. MaxCalls, at : 1 .. MaxDigits,
                              of : 1 .. MaxDigits])

(* ASSERT(putBusy == FALSE) of ConsoleOutput::PutChar: a thread about to   *)
(* give the device a character finds it idle.                              *)
DeviceIsIdle ==
    \A t \in Threads :
        pc[t] = "locked" \/ (pc[t] = "shown" /\ idx[t] < length[t]) =>
            ~putBusy /\ pending = 0 /\ waitFor = NewSemaphore(0)

(* ASSERT(IsHeldByCurrentThread()) of Lock::Release: a thread about to     *)
(* release the lock is the one that lockHolder names.                      *)
ReleasedByHolder == \A t \in Threads : pc[t] = "shown" => lockHolder = t

(* The display shows the texts one after the other: each character is the  *)
(* next one of the text of the character before it, or the first one of a  *)
(* text, and then the text before it is complete.                          *)
TextsAreWhole ==
    \A i \in DOMAIN display :
        LET c == display[i] IN
        IF c.at = 1
        THEN i > 1 => display[i - 1].at = display[i - 1].of
        ELSE i > 1 /\ display[i - 1] = [by |-> c.by, call |-> c.call, at |-> c.at - 1,
                                        of |-> c.of]

(* Every call of PutChar and PutInt returns: each of its characters is     *)
(* answered by an interrupt, and the lock reaches everybody in the end.    *)
CallsReturn == \A t \in Threads : (pc[t] = "acquire") ~> (pc[t] = "idle")
===============================================================================

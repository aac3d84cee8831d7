----------------------------- MODULE ConsoleInput -----------------------------
(***************************************************************************)
(* The keyboard: SynchConsoleInput of userprog/synchconsole.cc over the    *)
(* device ConsoleInput of machine/console.cc.  The device polls the input, *)
(* buffers one character and polls again only after that character was     *)
(* fetched; at the end of the input it polls no more.                      *)
(*                                                                         *)
(* Steps are cut as in SynchDisk.                                          *)
(***************************************************************************)
EXTENDS Semaphores, SequencesExt

CONSTANTS Threads,  \* kernel threads that read
          NoThread, \* the NULL of lockHolder
          Chars,    \* what can be typed; the byte 0xFF is EOF in a char
          EOF,      \* the value of an empty buffer
          MaxTyped, \* bound: characters of input
          MaxCalls  \* bound: calls of GetChar by each thread

VARIABLES pc,         \* where each thread stands
          made,       \* how many calls it made
          got,        \* what the calls of GetChar returned, in order
          lock,       \* SynchConsoleInput::lock->semaphore
          lockHolder, \* SynchConsoleInput::lock->lockHolder
          waitFor,    \* SynchConsoleInput::waitFor, V'd by the interrupt
          incoming,   \* ConsoleInput::incoming
          pending,    \* console interrupts scheduled and not yet run
          typed,      \* the input
          nread       \* how much of it the device read, its end included

vars == << pc, made, got, lock, lockHolder, waitFor, incoming, pending, typed, nread >>

(* "acquire"  at the while loop of P in lock->Acquire                      *)
(* "locked"   that P is over, lockHolder not yet assigned                  *)
(* "wait"     at the while loop of waitFor->P                              *)
(* "ready"    that P is over, the character not yet fetched                *)
PCs == {"idle", "acquire", "locked", "wait", "ready"}

Init == /\ pc = [t \in Threads |-> "idle"]
        /\ made = [t \in Threads |-> 0]
        /\ got = << >>
        /\ lock = NewSemaphore(1)
        /\ lockHolder = NoThread
        /\ waitFor = NewSemaphore(0)
        /\ incoming = EOF
        /\ pending = 1
        /\ typed \in SeqOf(Chars, MaxTyped)
        /\ nread = 0

(* A thread calls GetChar. *)
Call(t) == /\ pc[t] = "idle" /\ pc' = [pc EXCEPT ![t] = "acquire"]
           /\ made[t] < MaxCalls
           /\ made' = [made EXCEPT ![t] = @ + 1]
           /\ UNCHANGED << got, lock, lockHolder, waitFor, incoming, pending, typed, nread >>

(* lock->Acquire: one turn of the loop of its P. *)
Acquire(t) == /\ pc[t] = "acquire"
              /\ ~Asleep(lock, t)
              /\ lock' = Turn(lock, t)
              /\ pc' = [pc EXCEPT ![t] = IF Passes(lock) THEN "locked" ELSE @]
              /\ UNCHANGED << made, got, lockHolder, waitFor, incoming, pending, typed,
                              nread >>

(* One turn of the loop of waitFor->P. *)
Turns(t) == /\ ~Asleep(waitFor, t)
            /\ waitFor' = Turn(waitFor, t)
            /\ pc' = [pc EXCEPT ![t] = IF Passes(waitFor) THEN "ready" ELSE "wait"]
            /\ UNCHANGED << made, got, lock, incoming, pending, typed, nread >>

Wait(t) == pc[t] = "locked" /\ lockHolder' = t /\ Turns(t)

WaitAgain(t) == pc[t] = "wait" /\ Turns(t) /\ UNCHANGED lockHolder

(* Mutants: the device is always asked for more, or never; the buffer is   *)
(* not emptied.                                                            *)
GetCharStops(t) == /\ pc[t] = "ready"
                   /\ got' = Append(got, incoming)
                   /\ incoming' = EOF
                   /\ lockHolder' = NoThread
                   /\ lock' = V(lock)
                   /\ pc' = [pc EXCEPT ![t] = "idle"]
                   /\ UNCHANGED << made, waitFor, pending, typed, nread >>

GetCharPolls(t) == /\ pc[t] = "ready"
                   /\ got' = Append(got, incoming)
                   /\ pending' = pending + 2
                   /\ incoming' = EOF
                   /\ lockHolder' = NoThread
                   /\ lock' = V(lock)
                   /\ pc' = [pc EXCEPT ![t] = "idle"]
                   /\ UNCHANGED << made, waitFor, typed, nread >>

GetCharKeeps(t) == /\ pc[t] = "ready"
                   /\ got' = Append(got, incoming)
                   /\ pending' = IF incoming # EOF THEN pending + 1 ELSE pending
                   /\ lockHolder' = NoThread
                   /\ lock' = V(lock)
                   /\ pc' = [pc EXCEPT ![t] = "idle"]
                   /\ UNCHANGED << made, waitFor, incoming, typed, nread >>

(* ConsoleInput::GetChar, the Release of the lock and the return. *)
GetChar(t) == /\ pc[t] = "ready"
              /\ got' = Append(got, incoming)
              /\ pending' = IF incoming # EOF THEN pending + 1 ELSE pending
              /\ incoming' = EOF
              /\ lockHolder' = NoThread
              /\ lock' = V(lock)
              /\ pc' = [pc EXCEPT ![t] = "idle"]
              /\ UNCHANGED << made, waitFor, typed, nread >>

(* ConsoleInput::CallBack when there is nothing to read yet: it is         *)
(* scheduled again.                                                        *)
PollAgain == pending > 0 /\ nread <= Len(typed) /\ UNCHANGED vars

(* When there is: a character, or the end of the input (of which only the  *)
(* V tells).  Then SynchConsoleInput::CallBack.                            *)
CallBack == /\ pending > 0 /\ nread <= Len(typed)
            /\ pending' = pending - 1
            /\ nread' = nread + 1
            /\ incoming' = IF nread < Len(typed) THEN typed[nread + 1] ELSE incoming
            /\ waitFor' = V(waitFor)
            /\ UNCHANGED << pc, made, got, lock, lockHolder, typed >>

(* Every thread has made its calls, or waits for input that cannot come.   *)
Terminated ==
    /\ \A t \in Threads : \/ pc[t] = "idle" /\ made[t] = MaxCalls
                          \/ Asleep(lock, t)
                          \/ Asleep(waitFor, t) /\ EOF \in Range(got)
    /\ UNCHANGED vars

Next == \/ \E t \in Threads : Call(t) \/ Acquire(t) \/ Wait(t) \/ WaitAgain(t) \/ GetChar(t)
        \/ CallBack \/ PollAgain
        \/ Terminated

Spec == Init /\ [][Next]_vars

(* The machine goes on, and who types does: at last the end of the input.  *)
FairSpec == Spec /\ WF_vars(Next)

-----------------------------------------------------------------------------

(* Every variable keeps its type. *)
TypeOK == /\ pc \in [Threads -> PCs]
          /\ made \in [Threads -> Nat]
          /\ got \in Seq(Chars \cup {EOF})
          /\ SemaphoreOK(lock, Threads)
          /\ lockHolder \in Threads \cup {NoThread}
          /\ SemaphoreOK(waitFor, Threads)
          /\ incoming \in Chars \cup {EOF}
          /\ pending \in Nat
          /\ typed \in Seq(Chars)
          /\ nread \in 0 .. Len(typed) + 1

(* A V of waitFor, or a thread whose P took it, stands for what is in the  *)
(* buffer.                                                                 *)
Announced == waitFor.value + (IF \E t \in Threads : pc[t] = "ready" THEN 1 ELSE 0)

(* Nothing typed is lost, doubled or reordered: what GetChar returned and, *)
(* if announced, what is in the buffer, is what the device has read.       *)
NothingLost ==
    /\ Announced \in {0, 1}
    /\ got \o (IF Announced = 1 THEN << incoming >> ELSE << >>)
         = SubSeq(Append(typed, EOF), 1, nread)

(* ASSERT(incoming == EOF) of ConsoleInput::CallBack: the device polls only*)
(* when its buffer is empty, with one interrupt outstanding.               *)
PollsWhenEmpty == pending > 0 => incoming = EOF /\ pending = 1 /\ Announced = 0

(* Until GetChar has returned an EOF, every call returns. *)
ReadsReturn ==
    \A t \in Threads : (pc[t] = "acquire") ~> (pc[t] = "idle" \/ EOF \in Range(got))
===============================================================================

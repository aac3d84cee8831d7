------------------------------- MODULE Console --------------------------------
(***************************************************************************)
(* The console as programs use it: display (ConsoleOutput) and keyboard    *)
(* (ConsoleInput) with threads that call one or the other.  Each half has  *)
(* a lock, a semaphore and an interrupt of its own; what they share is the *)
(* threads, each inside one call at a time.                                *)
(***************************************************************************)
EXTENDS ConsoleOutput

CONSTANTS Chars,    \* what can be typed
          EOF,      \* the value of an empty buffer
          MaxTyped, \* bound: characters of input
          MaxReads  \* bound: calls of GetChar by each thread

ASSUME InputAssumption == MaxTyped \in Nat /\ MaxReads \in Nat

VARIABLES reading,     \* of the keyboard: pc of ConsoleInput
          reads,       \* made
          got,
          readLock,    \* lock
          reader,      \* lockHolder
          avail,       \* waitFor
          incoming,
          polls,       \* pending
          typed,
          nread

Input == INSTANCE ConsoleInput
             WITH pc <- reading, made <- reads, lock <- readLock, lockHolder <- reader,
                  waitFor <- avail, pending <- polls, MaxCalls <- MaxReads

inputVars == << reading, reads, got, readLock, reader, avail, incoming, polls, typed, nread >>
allVars == << vars, inputVars >>

ConsoleInit == Init /\ Input!Init

(* ConsoleTest of threads/kernel.cc and the system calls: a thread is in   *)
(* one call at a time.  A step of one half, after which no thread is in both. *)
ConsoleNext == /\ \/ Next /\ UNCHANGED inputVars
                  \/ Input!Next /\ UNCHANGED vars
               /\ \A t \in Threads : pc'[t] = "idle" \/ reading'[t] = "idle"

ConsoleSpec == ConsoleInit /\ [][ConsoleNext]_allVars

(* As in SynchDisk: the machine goes on, and any ready thread may be next. *)
FairConsoleSpec == ConsoleSpec /\ WF_allVars(ConsoleNext)

-----------------------------------------------------------------------------

(* What the keyboard's module states, with printing threads around.        *)

(* Nothing typed is lost, doubled or reordered (ConsoleInput).             *)
NothingLost == Input!NothingLost

(* The keyboard polls only when its buffer is empty (ConsoleInput).        *)
PollsWhenEmpty == Input!PollsWhenEmpty

(* Until GetChar has returned an EOF, every read returns (ConsoleInput).   *)
ReadsReturn == Input!ReadsReturn
===============================================================================

----------------------------- MODULE ConsoleProofs -----------------------------
(***************************************************************************)
(* The safety of ConsoleOutput for every set of threads, length of texts   *)
(* and number of calls, then that of ConsoleInput and of Console, which is *)
(* both.                                                                   *)
(***************************************************************************)
EXTENDS Console, SemaphoreProofs

USE NoThreadAssumption, BoundsAssumption

(* The thread is past the lock. *)
Prints(t) == pc[t] \in {"locked", "wait", "shown"}

LockInv == /\ lock.value \in {0, 1}
           /\ lock.value = 1 <=> \A t \in Threads : ~Prints(t)
           /\ \A t, u \in Threads : Prints(t) /\ Prints(u) => t = u

HolderInv == \A t \in Threads : pc[t] \in {"wait", "shown"} => lockHolder = t

(* How far a thread is in its text. *)
TextInv == \A t \in Threads :
              /\ pc[t] # "idle" => length[t] \in 1 .. MaxDigits /\ made[t] \in 1 .. MaxCalls
              /\ pc[t] \in {"acquire", "locked"} => idx[t] = 0
              /\ pc[t] \in {"wait", "shown"} => idx[t] \in 1 .. length[t]

Idle == ~putBusy /\ pending = 0 /\ waitFor.value = 0 /\ Sleepers(waitFor) = {}

(* The device is idle unless a thread waits for it; then the character is  *)
(* still to be answered and the thread sleeps, or it has been answered.    *)
DeviceInv ==
    /\ (\A t \in Threads : pc[t] # "wait") => Idle
    /\ \A t \in Threads : pc[t] = "wait" =>
          \/ putBusy /\ pending = 1 /\ waitFor.value = 0 /\ Sleepers(waitFor) = {t}
          \/ ~putBusy /\ pending = 0 /\ waitFor.value = 1 /\ Sleepers(waitFor) = {}

(* What was shown last: the end of a text, or the last character of the    *)
(* thread that is printing.                                                *)
LastInv ==
    /\ (\A t \in Threads : pc[t] \notin {"wait", "shown"}) =>
          (display # << >> => display[Len(display)].at = display[Len(display)].of)
    /\ \A t \in Threads : pc[t] \in {"wait", "shown"} =>
          /\ display # << >>
          /\ display[Len(display)] = [by |-> t, call |-> made[t], at |-> idx[t], of |-> length[t]]

IInv == TypeOK /\ LockInv /\ HolderInv /\ TextInv /\ DeviceInv /\ LastInv /\ TextsAreWhole

-----------------------------------------------------------------------------

LEMMA InitInv == Init => IInv
<1> SUFFICES ASSUME Init PROVE IInv
  OBVIOUS
<1>1. /\ SemaphoreOK(lock, Threads) /\ SemaphoreOK(waitFor, Threads)
      /\ lock.value = 1 /\ waitFor.value = 0 /\ Sleepers(waitFor) = {}
  <2>1. lock = NewSemaphore(1) /\ waitFor = NewSemaphore(0)
    BY DEF Init
  <2>2. lock.value = 1 /\ waitFor.value = 0
    BY <2>1 DEF NewSemaphore
  <2>3. QED
    <3>1. \A n \in Nat : /\ SemaphoreOK(NewSemaphore(n), Threads)
                           /\ Sleepers(NewSemaphore(n)) = {}
      BY NewSemaphoreProperties
    <3>2. QED
      BY <2>1, <2>2, <3>1
<1>2. \A t \in Threads : pc[t] = "idle"
  BY DEF Init
<1>3. TypeOK
  <2>1. display \in Seq([by : Threads, call : 1 .. MaxCalls, at : 1 .. MaxDigits,
                          of : 1 .. MaxDigits])
    BY EmptySeq DEF Init
  <2>2. /\ pc \in [Threads -> PCs]
        /\ length \in [Threads -> 0 .. MaxDigits] /\ idx \in [Threads -> 0 .. MaxDigits]
        /\ made \in [Threads -> 0 .. MaxCalls]
        /\ lockHolder \in Threads \cup {NoThread} /\ pending \in Nat
    BY DEF Init, PCs
  <2>3. putBusy \in BOOLEAN
    BY DEF Init
  <2>4. QED
    BY <1>1, <2>1, <2>2, <2>3 DEF TypeOK
<1>4. LockInv /\ HolderInv /\ TextInv
  BY <1>1, <1>2 DEF LockInv, HolderInv, TextInv, Prints
<1>5. DeviceInv
  BY <1>1, <1>2 DEF Init, DeviceInv, Idle
<1>6. LastInv /\ TextsAreWhole
  BY <1>2 DEF Init, LastInv, TextsAreWhole
<1>7. QED
  BY <1>3, <1>4, <1>5, <1>6 DEF IInv

(* The character of the same text before c. *)
Before(c) == [by |-> c.by, call |-> c.call, at |-> c.at - 1, of |-> c.of]

(* A character that follows on the last one, or begins a text after the    *)
(* end of another, leaves the texts whole.                                 *)
LEMMA ExtendWhole ==
    ASSUME NEW n \in Nat, NEW c, TextsAreWhole,
           DOMAIN display = 1 .. n, DOMAIN display' = 1 .. n + 1,
           \A i \in 1 .. n : display'[i] = display[i],
           display'[n + 1] = c,
           IF c.at = 1
           THEN n > 0 => display[n].at = display[n].of
           ELSE n > 0 /\ display[n] = Before(c)
    PROVE  TextsAreWhole'
<1>1. ASSUME NEW i \in DOMAIN display'
      PROVE  IF display'[i].at = 1
             THEN i > 1 => display'[i - 1].at = display'[i - 1].of
             ELSE i > 1 /\ display'[i - 1] = Before(display'[i])
  <2>1. CASE i \in 1 .. n
    <3>1. /\ display'[i] = display[i]
          /\ i > 1 => display'[i - 1] = display[i - 1]
      BY <2>1
    <3>2. QED
      BY <2>1, <3>1 DEF TextsAreWhole, Before
  <2>2. CASE i = n + 1
    <3>1. /\ display'[i] = c /\ i - 1 = n
          /\ i > 1 <=> n > 0
      BY <2>2
    <3>2. n > 0 => display'[n] = display[n]
      OBVIOUS
    <3>3. QED
      BY <3>1, <3>2
  <2>3. QED
    BY <2>1, <2>2
<1>2. QED
  BY <1>1 DEF TextsAreWhole, Before

LEMMA AppendWhole ==
    ASSUME NEW C, display \in Seq(C), TextsAreWhole, NEW c \in C,
           display' = Append(display, c),
           IF c.at = 1
           THEN display # << >> => display[Len(display)].at = display[Len(display)].of
           ELSE display # << >> /\ display[Len(display)] = Before(c)
    PROVE  TextsAreWhole'
<1>1. /\ Len(display) \in Nat
      /\ DOMAIN display = 1 .. Len(display)
      /\ DOMAIN display' = 1 .. Len(display) + 1
      /\ \A i \in 1 .. Len(display) : display'[i] = display[i]
      /\ display'[Len(display) + 1] = c
  OBVIOUS
<1>2. display # << >> <=> Len(display) > 0
  BY <1>1, EmptySeq
<1>3. QED
  BY <1>1, <1>2, ExtendWhole, Zenon

(* A thread that gives the device a character, at the lock or after one of *)
(* its characters was shown.                                               *)
LEMMA ShowInv ==
    ASSUME IInv, NEW t \in Threads, pc[t] \in {"locked", "shown"}, idx[t] < length[t],
           Show(t), lockHolder' = t, UNCHANGED << length, made, lock >>
    PROVE  IInv'
<1> DEFINE c == [by |-> t, call |-> made[t], at |-> idx[t] + 1, of |-> length[t]]
<1> USE DEF IInv
<1>1. /\ Prints(t) /\ pc[t] # "idle"
      /\ length[t] \in 1 .. MaxDigits /\ made[t] \in 1 .. MaxCalls
      /\ idx[t] \in 0 .. MaxDigits /\ idx[t] + 1 \in 1 .. length[t]
  BY DEF TypeOK, TextInv, Prints
<1>2. \A u \in Threads : Prints(u) => u = t
  BY <1>1 DEF LockInv
<1>3. Idle
  BY <1>2 DEF DeviceInv, Prints
<1>4. /\ ~Passes(waitFor) /\ waitFor' = Turn(waitFor, t) /\ ~Asleep(waitFor, t)
      /\ pc' = [pc EXCEPT ![t] = "wait"]
  BY <1>3 DEF Show, Wait, Passes, Idle
<1>5. /\ SemaphoreOK(waitFor', Threads)
      /\ waitFor'.value = 0
      /\ Sleepers(waitFor') = {t}
  BY <1>3, <1>4, TurnProperties DEF TypeOK, Idle
<1>6. /\ putBusy' = TRUE /\ pending' = 1
      /\ idx' = [idx EXCEPT ![t] = @ + 1]
      /\ display' = Append(display, c)
  BY <1>3 DEF Show, Idle
<1>7. c \in [by : Threads, call : 1 .. MaxCalls, at : 1 .. MaxDigits, of : 1 .. MaxDigits]
  BY <1>1
<1>8. TypeOK'
  <2>1. pc' \in [Threads -> PCs]
    BY <1>4 DEF TypeOK, PCs
  <2>2. idx' \in [Threads -> 0 .. MaxDigits]
    BY <1>1, <1>6 DEF TypeOK
  <2>3. display' \in Seq([by : Threads, call : 1 .. MaxCalls, at : 1 .. MaxDigits,
                          of : 1 .. MaxDigits])
    BY <1>6, <1>7, AppendProperties DEF TypeOK
  <2>4. QED
    BY <1>5, <1>6, <2>1, <2>2, <2>3 DEF TypeOK
<1>9. LockInv' /\ HolderInv'
  BY <1>1, <1>2, <1>4 DEF LockInv, HolderInv, Prints, TypeOK
<1>10. TextInv'
  BY <1>1, <1>4, <1>6 DEF TextInv, TypeOK
<1>11. DeviceInv'
  BY <1>2, <1>4, <1>5, <1>6 DEF DeviceInv, Prints, TypeOK
<1>12. /\ display' # << >>
       /\ display'[Len(display')] = c
  <2> DEFINE C == [by : Threads, call : 1 .. MaxCalls, at : 1 .. MaxDigits, of : 1 .. MaxDigits]
  <2>1. display \in Seq(C) /\ c \in C /\ display' = Append(display, c)
    BY <1>6, <1>7 DEF TypeOK
  <2> HIDE DEF C, c
  <2>2. Len(display) \in Nat /\ Len(display') = Len(display) + 1
    BY <2>1
  <2>3. display'[Len(display) + 1] = c
    BY <2>1
  <2>4. display' # << >>
    BY <2>2
  <2>5. QED
    BY <2>2, <2>3, <2>4
<1>13. LastInv'
  <2>1. ASSUME NEW u \in Threads, pc'[u] \in {"wait", "shown"}
        PROVE  u = t
    BY <1>2, <1>4, <2>1 DEF TypeOK, Prints
  <2>2. pc'[t] = "wait" /\ c = [by |-> t, call |-> made'[t], at |-> idx'[t], of |-> length'[t]]
    BY <1>4, <1>6 DEF TypeOK
  <2>3. QED
    BY <1>12, <2>1, <2>2 DEF LastInv
<1>14. TextsAreWhole'
  <2>1. CASE pc[t] = "locked"
    <3>1. idx[t] = 0 /\ c.at = 1
      BY <2>1 DEF TextInv
    <3>2. display # << >> => display[Len(display)].at = display[Len(display)].of
      BY <1>2, <2>1 DEF LastInv, Prints
    <3>3. QED
      BY <1>6, <1>7, <3>1, <3>2, AppendWhole DEF TypeOK
  <2>2. CASE pc[t] = "shown"
    <3>1. idx[t] \in 1 .. length[t] /\ c.at # 1
      BY <1>1, <2>2 DEF TextInv
    <3>2. display # << >> /\ display[Len(display)] = Before(c)
      BY <1>1, <2>2 DEF LastInv, Before
    <3>3. QED
      BY <1>6, <1>7, <3>1, <3>2, AppendWhole DEF TypeOK
  <2>3. QED
    BY <2>1, <2>2
<1>15. QED
  BY <1>8, <1>9, <1>10, <1>11, <1>13, <1>14

-----------------------------------------------------------------------------

LEMMA CallInv == ASSUME IInv, NEW t \in Threads, Call(t) PROVE IInv'
<1> USE DEF IInv
<1>1. /\ pc[t] = "idle" /\ pc' = [pc EXCEPT ![t] = "acquire"]
      /\ \E n \in 1 .. MaxDigits : length' = [length EXCEPT ![t] = n]
      /\ made' = [made EXCEPT ![t] = @ + 1] /\ made[t] < MaxCalls
      /\ idx' = [idx EXCEPT ![t] = 0]
      /\ UNCHANGED << lock, lockHolder, waitFor, putBusy, pending, display >>
  BY DEF Call, PutChar, PutInt
<1>2. TypeOK'
  BY <1>1 DEF TypeOK, PCs
<1>3. LockInv' /\ HolderInv'
  BY <1>1 DEF LockInv, HolderInv, Prints, TypeOK
<1>4. TextInv'
  BY <1>1 DEF TextInv, TypeOK
<1>5. DeviceInv'
  BY <1>1 DEF DeviceInv, Idle, TypeOK
<1>6. LastInv'
  BY <1>1 DEF LastInv, TypeOK
<1>7. TextsAreWhole'
  BY <1>1 DEF TextsAreWhole
<1>8. QED
  BY <1>2, <1>3, <1>4, <1>5, <1>6, <1>7

LEMMA AcquireInv == ASSUME IInv, NEW t \in Threads, Acquire(t) PROVE IInv'
<1> USE DEF IInv
<1>1. /\ pc[t] = "acquire" /\ lock' = Turn(lock, t) /\ ~Asleep(lock, t)
      /\ pc' = [pc EXCEPT ![t] = IF Passes(lock) THEN "locked" ELSE @]
      /\ UNCHANGED << length, idx, made, lockHolder, waitFor, putBusy, pending, display >>
  BY DEF Acquire
<1>2. /\ SemaphoreOK(lock', Threads)
      /\ Passes(lock)  => lock'.value = lock.value - 1
      /\ ~Passes(lock) => lock'.value = 0
  BY <1>1, TurnProperties DEF TypeOK
<1>3. TypeOK'
  BY <1>1, <1>2 DEF TypeOK, PCs
<1>4. LockInv'
  BY <1>1, <1>2 DEF LockInv, Passes, Prints, TypeOK
<1>5. HolderInv' /\ TextInv'
  BY <1>1 DEF HolderInv, TextInv, TypeOK
<1>6. DeviceInv'
  BY <1>1 DEF DeviceInv, Idle, TypeOK
<1>7. LastInv'
  BY <1>1 DEF LastInv, TypeOK
<1>8. TextsAreWhole'
  BY <1>1 DEF TextsAreWhole
<1>9. QED
  BY <1>3, <1>4, <1>5, <1>6, <1>7, <1>8

LEMMA WaitAgainInv == ASSUME IInv, NEW t \in Threads, WaitAgain(t) PROVE IInv'
<1> USE DEF IInv
<1>1. /\ pc[t] = "wait" /\ waitFor' = Turn(waitFor, t) /\ ~Asleep(waitFor, t)
      /\ pc' = [pc EXCEPT ![t] = IF Passes(waitFor) THEN "shown" ELSE "wait"]
      /\ UNCHANGED << length, idx, made, lock, lockHolder, putBusy, pending, display >>
  BY DEF WaitAgain, Wait
<1>2. ~putBusy /\ pending = 0 /\ waitFor.value = 1 /\ Sleepers(waitFor) = {}
  BY <1>1 DEF DeviceInv, Asleep
<1>3. /\ SemaphoreOK(waitFor', Threads) /\ waitFor'.value = 0 /\ Sleepers(waitFor') = {}
      /\ pc' = [pc EXCEPT ![t] = "shown"]
  BY <1>1, <1>2, TurnProperties DEF TypeOK, Passes
<1>4. \A u \in Threads : Prints(u) => u = t
  BY <1>1 DEF LockInv, Prints
<1>5. TypeOK'
  BY <1>1, <1>3 DEF TypeOK, PCs
<1>6. LockInv' /\ HolderInv' /\ TextInv'
  BY <1>1, <1>3 DEF LockInv, HolderInv, TextInv, Prints, TypeOK
<1>7. DeviceInv'
  BY <1>1, <1>2, <1>3, <1>4 DEF DeviceInv, Idle, Prints, TypeOK
<1>8. LastInv'
  BY <1>1, <1>3, <1>4 DEF LastInv, Prints, TypeOK
<1>9. TextsAreWhole'
  BY <1>1 DEF TextsAreWhole
<1>10. QED
  BY <1>5, <1>6, <1>7, <1>8, <1>9

LEMMA ReleaseInv == ASSUME IInv, NEW t \in Threads, Release(t) PROVE IInv'
<1> USE DEF IInv
<1>1. /\ pc[t] = "shown" /\ idx[t] = length[t] /\ lock' = V(lock)
      /\ pc' = [pc EXCEPT ![t] = "idle"] /\ lockHolder' = NoThread
      /\ UNCHANGED << length, idx, made, waitFor, putBusy, pending, display >>
  BY DEF Release
<1>2. SemaphoreOK(lock', Threads) /\ lock'.value = lock.value + 1
  BY <1>1, VProperties DEF TypeOK
<1>3. \A u \in Threads : Prints(u) => u = t
  BY <1>1 DEF LockInv, Prints
<1>4. TypeOK'
  BY <1>1, <1>2 DEF TypeOK, PCs
<1>5. LockInv'
  BY <1>1, <1>2, <1>3 DEF LockInv, Prints, TypeOK
<1>6. HolderInv' /\ TextInv'
  BY <1>1, <1>3 DEF HolderInv, TextInv, Prints, TypeOK
<1>7. DeviceInv'
  BY <1>1, <1>3 DEF DeviceInv, Idle, Prints, TypeOK
<1>8. LastInv'
  <2>1. \A u \in Threads : pc'[u] \notin {"wait", "shown"}
    BY <1>1, <1>3 DEF Prints, TypeOK
  <2>2. display[Len(display)].at = display[Len(display)].of
    <3>1. display[Len(display)] = [by |-> t, call |-> made[t], at |-> idx[t], of |-> length[t]]
      BY <1>1 DEF LastInv
    <3>2. QED
      BY <1>1, <3>1
  <2>3. QED
    BY <1>1, <2>1, <2>2 DEF LastInv
<1>9. TextsAreWhole'
  BY <1>1 DEF TextsAreWhole
<1>10. QED
  BY <1>4, <1>5, <1>6, <1>7, <1>8, <1>9

LEMMA CallBackInv == ASSUME IInv, CallBack PROVE IInv'
<1> USE DEF IInv
<1>1. /\ pending > 0 /\ pending' = pending - 1 /\ putBusy' = FALSE /\ waitFor' = V(waitFor)
      /\ UNCHANGED << pc, length, idx, made, lock, lockHolder, display >>
  BY DEF CallBack
<1>2. PICK t \in Threads : pc[t] = "wait"
  BY <1>1 DEF DeviceInv, Idle
<1>3. putBusy /\ pending = 1 /\ waitFor.value = 0 /\ Sleepers(waitFor) = {t}
  BY <1>1, <1>2 DEF DeviceInv
<1>4. SemaphoreOK(waitFor', Threads) /\ waitFor'.value = 1 /\ Sleepers(waitFor') = {}
  <2>1. SemaphoreOK(waitFor, Threads)
    BY DEF TypeOK
  <2>2. /\ SemaphoreOK(V(waitFor), Threads)
        /\ V(waitFor).value = 0 + 1
        /\ Sleepers(V(waitFor)) = {t} \ Woken(waitFor)
        /\ Woken(waitFor) # {} /\ Woken(waitFor) \subseteq {t}
    <3>1. /\ SemaphoreOK(V(waitFor), Threads)
          /\ V(waitFor).value = waitFor.value + 1
          /\ Sleepers(V(waitFor)) = Sleepers(waitFor) \ Woken(waitFor)
          /\ Sleepers(waitFor) # {} => Woken(waitFor) # {}
          /\ Woken(waitFor) \subseteq Sleepers(waitFor)
      BY <2>1, VProperties
    <3>2. QED
      BY <1>3, <3>1
  <2>3. {t} \ Woken(waitFor) = {}
    BY <2>2
  <2>4. QED
    BY <1>1, <2>2, <2>3
<1>5. \A u \in Threads : pc[u] = "wait" => u = t
  BY <1>2 DEF LockInv, Prints
<1>6. TypeOK'
  <2>1. pending' \in Nat
    BY <1>1, <1>3
  <2>2. putBusy' \in BOOLEAN
    BY <1>1
  <2>3. QED
    BY <1>1, <1>4, <2>1, <2>2 DEF TypeOK
<1>7. LockInv' /\ HolderInv' /\ TextInv'
  BY <1>1 DEF LockInv, HolderInv, TextInv, Prints
<1>8. DeviceInv'
  BY <1>1, <1>2, <1>3, <1>4, <1>5 DEF DeviceInv
<1>9. LastInv' /\ TextsAreWhole'
  BY <1>1 DEF LastInv, TextsAreWhole
<1>10. QED
  BY <1>6, <1>7, <1>8, <1>9

LEMMA NextInv == IInv /\ [Next]_vars => IInv'
<1> SUFFICES ASSUME IInv, [Next]_vars PROVE IInv'
  OBVIOUS
<1>1. ASSUME NEW t \in Threads, FirstCharacter(t) PROVE IInv'
  <2>1. pc[t] = "locked" /\ idx[t] < length[t]
    BY <1>1 DEF FirstCharacter, IInv, TextInv
  <2>2. QED
    BY <1>1, <2>1, ShowInv DEF FirstCharacter
<1>2. ASSUME NEW t \in Threads, NextCharacter(t) PROVE IInv'
  <2>1. lockHolder' = t
    BY <1>2 DEF NextCharacter, IInv, HolderInv
  <2>2. QED
    BY <1>2, <2>1, ShowInv DEF NextCharacter
<1>3. CASE UNCHANGED vars
  BY <1>3 DEF vars, IInv, TypeOK, LockInv, HolderInv, TextInv, DeviceInv, LastInv, Idle, Prints,
              TextsAreWhole
<1>4. QED
  BY <1>1, <1>2, <1>3, CallInv, AcquireInv, WaitAgainInv, ReleaseInv, CallBackInv
  DEF Next, Terminated

-----------------------------------------------------------------------------

(* IInv is an inductive invariant of the console.                          *)
THEOREM ConsoleInvariant == Spec => []IInv
  BY InitInv, NextInv, PTL DEF Spec

(* The assertion of ConsoleOutput::PutChar never fails: a thread about to  *)
(* give the device a character finds it idle, and no interrupt left over.  *)
THEOREM ConsoleDeviceIdle == Spec => []DeviceIsIdle
<1>1. IInv => DeviceIsIdle
  <2> SUFFICES ASSUME IInv, NEW t \in Threads, pc[t] \in {"locked", "shown"}
               PROVE  ~putBusy /\ pending = 0 /\ waitFor = NewSemaphore(0)
    BY DEF DeviceIsIdle
  <2>1. \A u \in Threads : pc[u] # "wait"
    BY DEF IInv, LockInv, Prints
  <2>2. Idle
    BY <2>1 DEF IInv, DeviceInv
  <2>3. waitFor.queue = << >> /\ waitFor \in [value : Nat, queue : Seq(Threads)]
    BY <2>2, SleepersAreThreads DEF IInv, TypeOK, Idle, SemaphoreOK
  <2>4. waitFor = NewSemaphore(0)
    BY <2>2, <2>3 DEF Idle, NewSemaphore
  <2>5. QED
    BY <2>2, <2>4 DEF Idle
<1>2. QED
  BY <1>1, ConsoleInvariant, PTL

(* The characters of a call are on the display one after the other, with   *)
(* nothing of another call between them, whoever prints meanwhile.         *)
THEOREM ConsoleTextsAreWhole == Spec => []TextsAreWhole
<1>1. IInv => TextsAreWhole
  BY DEF IInv
<1>2. QED
  BY <1>1, ConsoleInvariant, PTL

(* The assertion of Lock::Release never fails in PutInt and PutChar.       *)
THEOREM ConsoleReleasedByHolder == Spec => []ReleasedByHolder
<1>1. IInv => ReleasedByHolder
  BY DEF IInv, HolderInv, ReleasedByHolder
<1>2. QED
  BY <1>1, ConsoleInvariant, PTL

-----------------------------------------------------------------------------
(***************************************************************************)
(* The keyboard, whether or not EOF is among what can be typed.  Input is  *)
(* an instance of ConsoleInput, whose semaphores are those of the display. *)
(***************************************************************************)

LEMMA SameSemaphores ==
    /\ \A n : Input!NewSemaphore(n) = NewSemaphore(n)
    /\ \A s, t : Input!Asleep(s, t) = Asleep(s, t) /\ Input!Turn(s, t) = Turn(s, t)
    /\ \A s : Input!Passes(s) = Passes(s) /\ Input!V(s) = V(s)
<1>1. \A n : Input!NewSemaphore(n) = NewSemaphore(n)
  BY DEF Input!NewSemaphore, NewSemaphore
<1>2. \A s : Input!Sleepers(s) = Sleepers(s)
  BY DEF Input!Sleepers, Sleepers, Input!Range, Range
<1>3. \A s, t : Input!Asleep(s, t) = Asleep(s, t)
  BY <1>2 DEF Input!Asleep, Asleep
<1>4. \A s : Input!Passes(s) = Passes(s)
  BY DEF Input!Passes, Passes
<1>5. \A s, t : Input!Turn(s, t) = Turn(s, t)
  BY <1>4 DEF Input!Turn, Turn
<1>6. \A s : Input!V(s) = V(s)
  BY DEF Input!V, V
<1>7. QED
  BY <1>1, <1>3, <1>4, <1>5, <1>6

(* The thread is past the lock. *)
Reads(t) == reading[t] \in {"locked", "wait", "ready"}

(* TypeOK of ConsoleInput, with the operators of SemaphoreProofs.           *)
InputTypeOK == /\ reading \in [Threads -> Input!PCs]
               /\ reads \in [Threads -> Nat]
               /\ got \in Seq(Chars \cup {EOF})
               /\ SemaphoreOK(readLock, Threads)
               /\ reader \in Threads \cup {NoThread}
               /\ SemaphoreOK(avail, Threads)
               /\ incoming \in Chars \cup {EOF}
               /\ polls \in Nat
               /\ typed \in Seq(Chars)
               /\ nread \in 0 .. Len(typed) + 1

InputLockInv == /\ readLock.value \in {0, 1}
                /\ readLock.value = 1 <=> \A t \in Threads : ~Reads(t)
                /\ \A t, u \in Threads : Reads(t) /\ Reads(u) => t = u

(* One of three holds at a time: the device polls; a character is announced*)
(* (by the value of waitFor, or a thread that took it); the input has ended.*)
InputBufferInv == /\ polls \in {0, 1}
                  /\ Input!Announced \in {0, 1}
                  /\ polls = 1 => Input!Announced = 0
                  /\ Input!Announced = 0 => incoming = EOF

InputInv == InputTypeOK /\ InputLockInv /\ InputBufferInv /\ NothingLost

Bytes == Chars \cup {EOF}

-----------------------------------------------------------------------------

LEMMA InputInitInv == Input!Init => InputInv
<1> SUFFICES ASSUME Input!Init PROVE InputInv
  OBVIOUS
<1>1. /\ SemaphoreOK(readLock, Threads) /\ SemaphoreOK(avail, Threads)
      /\ readLock.value = 1 /\ avail.value = 0
  <2>1. readLock = NewSemaphore(1) /\ avail = NewSemaphore(0)
    BY SameSemaphores DEF Input!Init
  <2>2. readLock.value = 1 /\ avail.value = 0
    BY <2>1 DEF NewSemaphore
  <2>3. \A n \in Nat : SemaphoreOK(NewSemaphore(n), Threads)
    BY NewSemaphoreProperties
  <2>4. QED
    BY <2>1, <2>2, <2>3
<1>2. \A t \in Threads : reading[t] = "idle"
  BY DEF Input!Init
<1>3. typed \in Seq(Chars)
  <2>1. PICK m \in 0 .. MaxTyped : typed \in [1 .. m -> Chars]
    BY DEF Input!Init, Input!SeqOf
  <2>2. m \in Nat
    OBVIOUS
  <2>3. QED
    BY <2>1, <2>2, SeqDef
<1>4. InputTypeOK
  <2>1. got \in Seq(Chars \cup {EOF})
    BY EmptySeq DEF Input!Init
  <2>2. nread \in 0 .. Len(typed) + 1
    BY <1>3 DEF Input!Init
  <2>3. /\ reading \in [Threads -> Input!PCs] /\ reads \in [Threads -> Nat]
        /\ reader \in Threads \cup {NoThread}
        /\ incoming \in Chars \cup {EOF} /\ polls \in Nat
    BY DEF Input!Init, Input!PCs
  <2>4. QED
    BY <1>1, <1>3, <2>1, <2>2, <2>3 DEF InputTypeOK
<1>5. InputLockInv
  BY <1>1, <1>2 DEF InputLockInv, Reads
<1>6. Input!Announced = 0
  BY <1>1, <1>2 DEF Input!Announced
<1>7. InputBufferInv
  BY <1>6 DEF Input!Init, InputBufferInv
<1>8. NothingLost
  <2>1. got = << >> /\ nread = 0
    BY DEF Input!Init
  <2>2. got \o << >> = << >>
    BY <2>1, EmptySeq, ConcatEmptySeq
  <2>3. SubSeq(Append(typed, EOF), 1, nread) = << >>
    BY <2>1, SubSeqEmpty
  <2>4. got \o (IF Input!Announced = 1 THEN << incoming >> ELSE << >>) = << >>
    BY <1>6, <2>1, <2>2
  <2>5. QED
    BY <1>6, <2>3, <2>4 DEF NothingLost, Input!NothingLost
<1>9. QED
  BY <1>4, <1>5, <1>7, <1>8 DEF InputInv

(* What leaves the announcement as it is, and the device alone. *)
LEMMA BufferUnchanged ==
    ASSUME InputInv, Input!Announced' = Input!Announced,
           UNCHANGED << got, incoming, polls, typed, nread >>
    PROVE  InputBufferInv' /\ NothingLost'
BY DEF InputInv, InputBufferInv, NothingLost, Input!NothingLost

(* A V of waitFor counts, and so does the thread that takes it.            *)
LEMMA AnnouncedByReady ==
    ASSUME NEW t \in Threads, reading[t] = "ready" PROVE Input!Announced = avail.value + 1
BY DEF Input!Announced

LEMMA AnnouncedByValue ==
    ASSUME \A t \in Threads : reading[t] # "ready", avail.value \in Nat
    PROVE  Input!Announced = avail.value
BY DEF Input!Announced

-----------------------------------------------------------------------------

LEMMA InputCallInv == ASSUME InputInv, NEW t \in Threads, Input!Call(t) PROVE InputInv'
<1> USE DEF InputInv
<1>1. /\ reading[t] = "idle" /\ reading' = [reading EXCEPT ![t] = "acquire"]
      /\ reads' = [reads EXCEPT ![t] = @ + 1]
      /\ UNCHANGED << got, readLock, reader, avail, incoming, polls, typed, nread >>
  BY DEF Input!Call
<1>2. InputTypeOK'
  BY <1>1 DEF InputTypeOK, Input!PCs
<1>3. InputLockInv'
  BY <1>1 DEF InputLockInv, Reads, InputTypeOK
<1>4. Input!Announced' = Input!Announced
  BY <1>1 DEF Input!Announced, InputTypeOK
<1>5. QED
  BY <1>1, <1>2, <1>3, <1>4, BufferUnchanged

LEMMA InputAcquireInv == ASSUME InputInv, NEW t \in Threads, Input!Acquire(t) PROVE InputInv'
<1> USE DEF InputInv
<1>1. /\ reading[t] = "acquire" /\ readLock' = Turn(readLock, t) /\ ~Asleep(readLock, t)
      /\ reading' = [reading EXCEPT ![t] = IF Passes(readLock) THEN "locked" ELSE @]
      /\ UNCHANGED << reads, got, reader, avail, incoming, polls, typed, nread >>
  BY SameSemaphores DEF Input!Acquire
<1>2. /\ SemaphoreOK(readLock', Threads)
      /\ Passes(readLock)  => readLock'.value = readLock.value - 1
      /\ ~Passes(readLock) => readLock'.value = 0
  BY <1>1, TurnProperties DEF InputTypeOK
<1>3. InputTypeOK'
  BY <1>1, <1>2 DEF InputTypeOK, Input!PCs
<1>4. InputLockInv'
  BY <1>1, <1>2 DEF InputLockInv, Passes, Reads, InputTypeOK
<1>5. Input!Announced' = Input!Announced
  BY <1>1 DEF Input!Announced, InputTypeOK
<1>6. QED
  BY <1>1, <1>3, <1>4, <1>5, BufferUnchanged

(* A turn of the loop of waitFor->P, the first or a later one. *)
LEMMA InputTurnsInv ==
    ASSUME InputInv, NEW t \in Threads, reading[t] \in {"locked", "wait"}, Input!Turns(t),
           reader' \in Threads \cup {NoThread}
    PROVE  InputInv'
<1> USE DEF InputInv
<1>1. /\ avail' = Turn(avail, t) /\ ~Asleep(avail, t)
      /\ reading' = [reading EXCEPT ![t] = IF Passes(avail) THEN "ready" ELSE "wait"]
      /\ UNCHANGED << reads, got, readLock, incoming, polls, typed, nread >>
  BY SameSemaphores DEF Input!Turns
<1>2. /\ SemaphoreOK(avail', Threads)
      /\ Passes(avail)  => avail'.value = avail.value - 1
      /\ ~Passes(avail) => avail'.value = 0
  BY <1>1, TurnProperties DEF InputTypeOK
<1>3. \A u \in Threads : Reads(u) => u = t
  BY DEF InputLockInv, Reads
<1>4. \A u \in Threads : reading[u] # "ready"
  BY <1>3 DEF Reads
<1>5. avail.value \in Nat /\ avail'.value \in Nat
  BY <1>2 DEF InputTypeOK, SemaphoreOK
<1>6. Input!Announced = avail.value
  BY <1>4, <1>5, AnnouncedByValue
<1>7. Input!Announced' = Input!Announced
  <2>1. CASE Passes(avail)
    <3>1. reading'[t] = "ready"
      BY <1>1, <2>1 DEF InputTypeOK
    <3>2. Input!Announced' = avail'.value + 1
      BY <3>1 DEF Input!Announced
    <3>3. QED
      BY <1>2, <1>5, <1>6, <2>1, <3>2
  <2>2. CASE ~Passes(avail)
    <3>1. \A u \in Threads : reading'[u] # "ready"
      BY <1>1, <1>4, <2>2 DEF InputTypeOK
    <3>2. Input!Announced' = avail'.value
      BY <1>5, <3>1 DEF Input!Announced
    <3>3. QED
      BY <1>2, <1>6, <2>2, <3>2 DEF Passes
  <2>3. QED
    BY <2>1, <2>2
<1>8. InputTypeOK'
  BY <1>1, <1>2 DEF InputTypeOK, Input!PCs
<1>9. InputLockInv'
  BY <1>1 DEF InputLockInv, Reads, InputTypeOK
<1>10. QED
  BY <1>1, <1>7, <1>8, <1>9, BufferUnchanged

LEMMA InputWaitInv ==
    ASSUME InputInv, NEW t \in Threads, Input!Wait(t) \/ Input!WaitAgain(t) PROVE InputInv'
<1>1. /\ reading[t] \in {"locked", "wait"} /\ Input!Turns(t)
      /\ reader' \in Threads \cup {NoThread}
  BY DEF Input!Wait, Input!WaitAgain, InputInv, InputTypeOK
<1>2. QED
  BY <1>1, InputTurnsInv

LEMMA GetCharInv == ASSUME InputInv, NEW t \in Threads, Input!GetChar(t) PROVE InputInv'
<1> USE DEF InputInv
<1>1. /\ reading[t] = "ready" /\ reading' = [reading EXCEPT ![t] = "idle"]
      /\ got' = Append(got, incoming)
      /\ polls' = IF incoming # EOF THEN polls + 1 ELSE polls
      /\ incoming' = EOF /\ reader' = NoThread /\ readLock' = V(readLock)
      /\ UNCHANGED << reads, avail, typed, nread >>
  BY SameSemaphores DEF Input!GetChar
<1>2. SemaphoreOK(readLock', Threads) /\ readLock'.value = readLock.value + 1
  BY <1>1, VProperties DEF InputTypeOK
<1>3. \A u \in Threads : Reads(u) => u = t
  BY <1>1 DEF InputLockInv, Reads
<1>4. avail.value \in Nat
  BY DEF InputTypeOK, SemaphoreOK
<1>5. Input!Announced = 1 /\ avail.value = 0 /\ polls = 0
  <2>1. Input!Announced = avail.value + 1
    BY <1>1, AnnouncedByReady
  <2>2. QED
    BY <1>4, <2>1 DEF InputBufferInv
<1>6. Input!Announced' = 0
  <2>1. \A u \in Threads : reading'[u] # "ready"
    BY <1>1, <1>3 DEF Reads, InputTypeOK
  <2>2. QED
    BY <1>1, <1>5, <2>1 DEF Input!Announced
<1>7. got' \in Seq(Bytes) /\ got' = got \o << incoming >>
  <2>1. got \in Seq(Bytes) /\ incoming \in Bytes
    BY DEF InputTypeOK, Bytes
  <2>2. QED
    BY <1>1, <2>1, AppendProperties, AppendIsConcat
<1>8. InputTypeOK'
  BY <1>1, <1>2, <1>7 DEF InputTypeOK, Input!PCs, Bytes
<1>9. InputLockInv'
  BY <1>1, <1>2, <1>3 DEF InputLockInv, Reads, InputTypeOK
<1>10. InputBufferInv'
  BY <1>1, <1>5, <1>6 DEF InputBufferInv
<1>11. NothingLost'
  <2>1. got' \o << >> = got'
    BY <1>7, ConcatEmptySeq
  <2>2. got \o << incoming >> = SubSeq(Append(typed, EOF), 1, nread)
    BY <1>5, Zenon DEF NothingLost, Input!NothingLost
  <2>3. got' \o (IF Input!Announced' = 1 THEN << incoming' >> ELSE << >>) = got'
    BY <1>6, <2>1
  <2>4. got' = SubSeq(Append(typed', EOF), 1, nread')
    BY <1>1, <1>7, <2>2
  <2>5. QED
    BY <1>6, <2>3, <2>4 DEF NothingLost, Input!NothingLost
<1>12. QED
  BY <1>8, <1>9, <1>10, <1>11

LEMMA LongerPrefix ==
    ASSUME NEW S, NEW s \in Seq(S), NEW n \in Nat, n + 1 \in 1 .. Len(s)
    PROVE  SubSeq(s, 1, n + 1) = SubSeq(s, 1, n) \o << s[n + 1] >>
<1> DEFINE m == n + 1
<1>1. /\ 1 \in 1 .. Len(s) /\ m \in 1 .. Len(s) /\ m - 1 = n
  OBVIOUS
<1> HIDE DEF m
<1>2. SubSeq(s, 1, m) = SubSeq(s, 1, m - 1) \o << s[m] >>
  BY <1>1, SubSeqRecursiveSecond
<1>3. QED
  BY <1>1, <1>2 DEF m

(* The device reads a character or finds the end of the input, which is as *)
(* if it had read the EOF that its buffer holds.                           *)
LEMMA InputCallBackInv == ASSUME InputInv, Input!CallBack PROVE InputInv'
<1> USE DEF InputInv
<1> DEFINE input == Append(typed, EOF)
<1>1. /\ polls > 0 /\ nread <= Len(typed)
      /\ polls' = polls - 1 /\ nread' = nread + 1
      /\ incoming' = IF nread < Len(typed) THEN typed[nread + 1] ELSE incoming
      /\ avail' = V(avail)
      /\ UNCHANGED << reading, reads, got, readLock, reader, typed >>
  BY SameSemaphores DEF Input!CallBack
<1>2. polls = 1 /\ Input!Announced = 0 /\ incoming = EOF
  BY <1>1 DEF InputBufferInv
<1>3. SemaphoreOK(avail', Threads) /\ avail'.value = avail.value + 1
  BY <1>1, VProperties DEF InputTypeOK
<1>4. avail.value \in Nat /\ nread \in Nat /\ Len(typed) \in Nat
  BY DEF InputTypeOK, SemaphoreOK
<1>5. Input!Announced' = 1
  BY <1>1, <1>2, <1>3, <1>4 DEF Input!Announced
<1>6. /\ input \in Seq(Bytes) /\ Len(input) = Len(typed) + 1
      /\ nread + 1 \in 1 .. Len(input)
      /\ incoming' = input[nread + 1] /\ incoming' \in Bytes
  <2>1. typed \in Seq(Chars) /\ typed \in Seq(Bytes) /\ EOF \in Bytes
    BY DEF InputTypeOK, Bytes
  <2>2. /\ input \in Seq(Bytes) /\ Len(input) = Len(typed) + 1
        /\ \A i \in 1 .. Len(typed) : input[i] = typed[i]
        /\ input[Len(typed) + 1] = EOF
    BY <2>1, AppendProperties
  <2>3. CASE nread < Len(typed)
    BY <1>1, <1>4, <2>1, <2>2, <2>3 DEF Bytes
  <2>4. CASE nread = Len(typed)
    BY <1>1, <1>2, <1>4, <2>1, <2>2, <2>4
  <2>5. QED
    BY <1>1, <1>4, <2>3, <2>4
<1>7. InputTypeOK'
  BY <1>1, <1>2, <1>3, <1>4, <1>6 DEF InputTypeOK, Bytes
<1>8. InputLockInv'
  BY <1>1 DEF InputLockInv, Reads
<1>9. InputBufferInv'
  BY <1>1, <1>2, <1>5 DEF InputBufferInv
<1>10. NothingLost'
  <2>1. got \o << >> = SubSeq(input, 1, nread)
    <3>1. (IF Input!Announced = 1 THEN << incoming >> ELSE << >>) = << >>
      BY <1>2
    <3>2. QED
      BY <3>1, Zenon DEF NothingLost, Input!NothingLost
  <2>2. got = SubSeq(input, 1, nread)
    BY <2>1, ConcatEmptySeq DEF InputTypeOK
  <2> HIDE DEF input
  <2>3. SubSeq(input, 1, nread + 1) = SubSeq(input, 1, nread) \o << input[nread + 1] >>
    BY <1>4, <1>6, LongerPrefix
  <2>4. got' \o << incoming' >> = SubSeq(input, 1, nread')
    BY <1>1, <1>6, <2>2, <2>3
  <2>5. Append(typed', EOF) = input
    BY <1>1 DEF input
  <2>6. QED
    BY <1>5, <2>4, <2>5 DEF NothingLost, Input!NothingLost
<1>11. QED
  BY <1>7, <1>8, <1>9, <1>10

-----------------------------------------------------------------------------

LEMMA InputNextInv == InputInv /\ [Input!Next]_(Input!vars) => InputInv'
<1> SUFFICES ASSUME InputInv, [Input!Next]_(Input!vars) PROVE InputInv'
  OBVIOUS
<1>1. ASSUME NEW t \in Threads,
             \/ Input!Call(t) \/ Input!Acquire(t) \/ Input!Wait(t)
             \/ Input!WaitAgain(t) \/ Input!GetChar(t)
      PROVE  InputInv'
  BY <1>1, InputCallInv, InputAcquireInv, InputWaitInv, GetCharInv
<1>2. CASE Input!CallBack
  BY <1>2, InputCallBackInv
<1>3. CASE UNCHANGED Input!vars
  <2>1. InputTypeOK' /\ InputLockInv'
    BY <1>3 DEF InputInv, InputTypeOK, InputLockInv, Reads, Input!vars
  <2>2. Input!Announced' = Input!Announced
    BY <1>3 DEF Input!Announced, Input!vars
  <2>3. QED
    BY <1>3, <2>1, <2>2, BufferUnchanged DEF InputInv, Input!vars
<1>4. QED
  BY <1>1, <1>2, <1>3 DEF Input!Next, Input!PollAgain, Input!Terminated

-----------------------------------------------------------------------------
(* The composition: its steps are steps or stutters of each half.           *)

LEMMA InputSpec == ConsoleSpec => Input!Spec
<1>1. ConsoleInit => Input!Init
  BY DEF ConsoleInit
<1>2. [ConsoleNext]_allVars => [Input!Next]_(Input!vars)
  BY DEF ConsoleNext, allVars, inputVars, Input!vars
<1>3. QED
  BY <1>1, <1>2, PTL DEF ConsoleSpec, Input!Spec

LEMMA DisplaySpec == ConsoleSpec => Spec
<1>1. ConsoleInit => Init
  BY DEF ConsoleInit
<1>2. [ConsoleNext]_allVars => [Next]_vars
  BY DEF ConsoleNext, allVars
<1>3. QED
  BY <1>1, <1>2, PTL DEF ConsoleSpec, Spec

(* The typing, one reader at a time, and what buffer, semaphore and device *)
(* have to do with each other, are kept by every step of the console.      *)
THEOREM ConsoleInputInvariant == ConsoleSpec => []InputInv
<1>1. Input!Spec => []InputInv
  BY InputInitInv, InputNextInv, PTL DEF Input!Spec
<1>2. QED
  BY <1>1, InputSpec, PTL

(* Nothing typed is lost, doubled or reordered: GetChar and the device's   *)
(* one character buffer, for any number of threads that read or print.     *)
THEOREM ConsoleNothingLost == ConsoleSpec => []NothingLost
<1>1. InputInv => NothingLost
  BY DEF InputInv
<1>2. QED
  BY <1>1, ConsoleInputInvariant, PTL

(* ASSERT(incoming == EOF) of ConsoleInput::CallBack never fails: the      *)
(* keyboard polls only for an empty buffer, and for one character at once. *)
THEOREM ConsolePollsWhenEmpty == ConsoleSpec => []PollsWhenEmpty
<1>1. InputInv => PollsWhenEmpty
  BY DEF InputInv, InputBufferInv, PollsWhenEmpty, Input!PollsWhenEmpty
<1>2. QED
  BY <1>1, ConsoleInputInvariant, PTL

(* The texts of threads come out whole, with threads that read.             *)
THEOREM ConsoleTextsTogether == ConsoleSpec => []TextsAreWhole
  BY DisplaySpec, ConsoleTextsAreWhole, PTL

(* The display is idle when it is given a character, with threads that      *)
(* read.                                                                    *)
THEOREM ConsoleDisplayIdle == ConsoleSpec => []DeviceIsIdle
  BY DisplaySpec, ConsoleDeviceIdle, PTL
===============================================================================

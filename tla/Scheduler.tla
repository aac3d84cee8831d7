------------------------------ MODULE Scheduler -------------------------------
(***************************************************************************)
(* The three-level scheduler: threads/scheduler.cc with the parts of       *)
(* thread.cc, alarm.cc and interrupt.cc that decide when a thread gives up *)
(* the CPU.  L1 is ordered by predicted burst, L2 by priority, L3 is round *)
(* robin; a timer interrupt ages the waiting threads and asks for          *)
(* preemption through two flags, preemptFlag and yieldOnReturn.            *)
(*                                                                         *)
(* The thread that has the CPU does one operation at a time: it forks,     *)
(* wakes, sleeps, finishes or computes.  All but the two that give up the  *)
(* CPU end in Interrupt::OneTick ("tick"), where the handlers of due       *)
(* interrupts run and then, if yieldOnReturn is set, Yield.  When nobody is*)
(* ready the CPU stays with the sleeping thread, which loops over          *)
(* Interrupt::Idle ("idle").                                               *)
(*                                                                         *)
(* Time is counted in timer periods.  A thread is due for aging when it has*)
(* waited AgeLimit of them (the code: more than 1500 ticks of 100).        *)
(***************************************************************************)
EXTENDS Integers, Sequences, FiniteSets, SequencesExt

CONSTANTS Threads,
          Main,          \* the thread that boots the kernel
          NoThread,      \* the NULL pointer
          L2Floor,       \* lowest priority of L2  (the code: 50)
          L1Floor,       \* lowest priority of L1  (100)
          MaxPriority,   \* highest priority       (149)
          AgeStep,       \* what aging adds        (10)
          AgeLimit,      \* periods a thread waits to be due
          Forked,        \* priorities the -ep option may give
          MaxBurst       \* bound on the predicted bursts

ASSUME ThreadsAssumption == Main \in Threads /\ NoThread \notin Threads
ASSUME LevelsAssumption ==
    /\ {L2Floor, L1Floor, MaxPriority, AgeStep, AgeLimit} \subseteq Nat \ {0}
    /\ MaxBurst \in Nat
    /\ L2Floor < L1Floor /\ L1Floor <= MaxPriority
    /\ L2Floor - 1 + AgeStep < L1Floor
    /\ L1Floor - 1 + AgeStep <= MaxPriority
    /\ Forked \subseteq 0 .. MaxPriority

VARIABLES status,        \* of each thread
          priority,      \* of each thread
          next,          \* Burst::next, the predicted burst of each thread
          waited,        \* timer periods each thread waited since it was aged
          ready,         \* ready[l] is readyList_L<l>
          current,       \* kernel->currentThread
          inP,           \* threads that are inside Semaphore::P, asleep or woken
          finishing,     \* argument of the Sleep that is looping in Idle
          cpu,           \* what the CPU is doing
          preempFlag,    \* Scheduler::preempFlag
          yieldOnReturn, \* Interrupt::yieldOnReturn
          toBeDestroyed, \* Scheduler::toBeDestroyed
          timedOut,      \* the timer has fired at this instant
          aging          \* where Scheduler::Aging stands, inside the handler

threadVars == << status, priority, next, waited >>
flagVars == << preempFlag, yieldOnReturn >>
vars == << threadVars, ready, current, inP, finishing, cpu, flagVars, toBeDestroyed,
           timedOut, aging >>

Levels == 1 .. 3
Bursts == 0 .. MaxBurst

(* "new" JUST_CREATED; "gone" after delete                                 *)
Statuses == {"new", "running", "ready", "blocked", "gone"}

(* "run"      the current thread computes in user or kernel mode           *)
(* "retry"    it is back at the while loop of P, interrupts still off      *)
(* "tick"     in OneTick, handlers may run                                 *)
(* "idle"     in the loop of Sleep, nobody was ready at the last look      *)
(* "switched" SWITCH has returned in the new current thread                *)
(* "aborted"  an ASSERT has failed                                         *)
CpuStates == {"run", "retry", "tick", "idle", "switched", "aborted"}

NotAging == [pass |-> 0, at |-> NoThread, heads |-> << NoThread, NoThread >>]

(* Scheduler::CheckThreadRQ *)
LevelOf(p) == IF p < L2Floor THEN 3 ELSE IF p < L1Floor THEN 2 ELSE 1

-----------------------------------------------------------------------------
(* The queues. *)

Precedes(l, t, u, p) == IF l = 1 THEN next[t] < next[u] ELSE p[t] > p[u]

(* Mutant: the ready lists of L1 and L2 are not sorted. *)
InsertLast(q, l, t, p) == Append(q, t)

(* SortedList::Insert: in front of the first element it precedes. *)
InsertSorted(q, l, t, p) ==
    LET i == SelectInSeq(q, LAMBDA u : Precedes(l, t, u, p))
    IN  IF i = 0 THEN Append(q, t) ELSE InsertAt(q, i, t)

(* The queues with t put where its priority says; p are the priorities. *)
Enqueued(queues, t, p) ==
    LET l == LevelOf(p[t])
    IN  [queues EXCEPT ![l] = IF l = 3 THEN Append(@, t) ELSE InsertSorted(@, l, t, p)]

Dequeued(queues, l) == [queues EXCEPT ![l] = Tail(@)]

(* Scheduler::FindNextToRun looks at L1, then L2, then L3; 0 when all are empty. *)
TopLevel(queues) == IF \E l \in Levels : queues[l] # << >>
                    THEN CHOOSE l \in Levels : /\ queues[l] # << >>
                                               /\ \A k \in 1 .. l - 1 : queues[k] = << >>
                    ELSE 0

(* Scheduler::CheckPreempt: what it returns, and what it leaves in preempFlag.  The *)
(* first two cases set the flag and fall through to return FALSE.                   *)
CheckPreempt(queues, st, flag) ==
    LET level == LevelOf(priority[current])
        running == st[current] = "running"
        higher == \/ level = 3 /\ (queues[1] # << >> \/ queues[2] # << >>)
                  \/ level = 2 /\ queues[1] # << >>
        shorter == /\ level = 1 /\ queues[1] # << >>
                   /\ next[Head(queues[1])] < next[current]
    IN  IF flag THEN [returns |-> TRUE, flag |-> TRUE]
        ELSE [returns |-> running /\ shorter, flag |-> running /\ higher]

(* Scheduler::ReadyToRun of a thread that was not running.  The result of  *)
(* CheckPreempt overwrites the flag CheckPreempt may just have set.        *)
ReadyToRun(t) ==
    LET queues == Enqueued(ready, t, priority)
        st == [status EXCEPT ![t] = "ready"]
    IN  /\ ready' = queues
        /\ status' = st
        /\ preempFlag' = CheckPreempt(queues, st, preempFlag).returns
        /\ UNCHANGED << priority, next, waited >>

(* Mutant: nextThread->setStatus(RUNNING) is missing. *)
RunUnmarked(t, queues, st, finish) ==
    /\ ready' = queues
    /\ current' = t
    /\ status' = st
    /\ toBeDestroyed' = IF finish THEN current ELSE toBeDestroyed
    /\ finishing' = FALSE
    /\ cpu' = "switched"

(* Scheduler::Run up to SWITCH: the CPU goes to t; queues are the ready    *)
(* queues and st the states of the threads at that moment.                 *)
Run(t, queues, st, finish) ==
    /\ ready' = queues
    /\ current' = t
    /\ status' = [st EXCEPT ![t] = "running"]
    /\ toBeDestroyed' = IF finish THEN current ELSE toBeDestroyed
    /\ finishing' = FALSE
    /\ cpu' = "switched"

Best(queues) == Head(queues[TopLevel(queues)])
Rest(queues) == Dequeued(queues, TopLevel(queues))

Init == /\ status = [t \in Threads |-> IF t = Main THEN "running" ELSE "new"]
        /\ priority \in {p \in [Threads -> Forked \cup {MaxPriority}] :
                            /\ p[Main] = MaxPriority
                            /\ \A t \in Threads \ {Main} : p[t] \in Forked}
        /\ next = [t \in Threads |-> 0]
        /\ waited = [t \in Threads |-> 0]
        /\ ready = [l \in Levels |-> << >>]
        /\ current = Main
        /\ inP = {}
        /\ finishing = FALSE
        /\ cpu = "run"
        /\ preempFlag = FALSE
        /\ yieldOnReturn = FALSE
        /\ toBeDestroyed = NoThread
        /\ timedOut = FALSE
        /\ aging = NotAging

-----------------------------------------------------------------------------
(* What the current thread does. *)

(* An instruction, or kernel code that enables interrupts: a tick follows. *)
Compute == /\ cpu = "run"
           /\ cpu' = "tick"
           /\ UNCHANGED << threadVars, ready, current, inP, finishing, flagVars,
                           toBeDestroyed, timedOut, aging >>

(* Thread::Fork of a new thread, or Semaphore::V for one that sleeps. *)
MakeReady(t, from) ==
    /\ cpu = "run" /\ status[t] = from
    /\ ReadyToRun(t)
    /\ cpu' = "tick"
    /\ UNCHANGED << current, inP, finishing, yieldOnReturn, toBeDestroyed, timedOut, aging >>

Fork(t) == MakeReady(t, "new")
Wake(t) == MakeReady(t, "blocked")

(* Thread::Sleep: Burst::UpdateNext, then the best ready thread gets the   *)
(* CPU; with nobody ready the sleeper idles.                               *)
Sleep(finish) ==
    LET st == [status EXCEPT ![current] = "blocked"] IN
    /\ cpu = "run" \/ (cpu = "retry" /\ ~finish)
    /\ \E b \in Bursts : next' = [next EXCEPT ![current] = b]
    /\ IF TopLevel(ready) # 0
       THEN Run(Best(ready), Rest(ready), st, finish)
       ELSE /\ status' = st
            /\ finishing' = finish
            /\ cpu' = "idle"
            /\ UNCHANGED << ready, current, toBeDestroyed >>
    /\ inP' = IF finish THEN inP ELSE inP \cup {current}
    /\ UNCHANGED << priority, waited, flagVars, timedOut, aging >>

Block == Sleep(FALSE)
Finish == Sleep(TRUE)

(* Mutant: toBeDestroyed = NULL is missing. *)
ResumeKeepsCarcass ==
    /\ cpu = "switched"
    /\ status' = [t \in Threads |-> IF t = toBeDestroyed THEN "gone" ELSE status[t]]
    /\ \/ cpu' = "tick" /\ inP' = inP \ {current}
       \/ cpu' = "retry" /\ current \in inP /\ UNCHANGED inP
    /\ UNCHANGED << priority, next, waited, ready, current, finishing, flagVars,
                    toBeDestroyed, timedOut, aging >>

(* After SWITCH, in Thread::Begin or Scheduler::Run: CheckToBeDestroyed.   *)
(* Then the thread enables interrupts, at once, or, when it was woken in P,*)
(* at the end of P if the semaphore's value is still there.                *)
Resume == /\ cpu = "switched"
          /\ status' = [t \in Threads |-> IF t = toBeDestroyed THEN "gone" ELSE status[t]]
          /\ toBeDestroyed' = NoThread
          /\ \/ cpu' = "tick" /\ inP' = inP \ {current}
             \/ cpu' = "retry" /\ current \in inP /\ UNCHANGED inP
          /\ UNCHANGED << priority, next, waited, ready, current, finishing, flagVars,
                          timedOut, aging >>

-----------------------------------------------------------------------------
(* Interrupts. *)

HandlersMayRun == cpu \in {"tick", "idle"} /\ aging = NotAging

(* A device handler wakes a sleeping thread. *)
DeviceCallBack(t) ==
    /\ HandlersMayRun
    /\ status[t] = "blocked"
    /\ ~(finishing /\ t = current)
    /\ ReadyToRun(t)
    /\ UNCHANGED << current, inP, finishing, cpu, yieldOnReturn, toBeDestroyed, timedOut,
                    aging >>

First(q) == IF q = << >> THEN NoThread ELSE Head(q)

(* The timer interrupt: a period more of waiting for every thread that was *)
(* forked and does not run (and for the one that runs, if it spent the     *)
(* period in kernel mode: only userTicks count as running).  Aging begins: *)
(* its three iterators take the heads of the queues.                       *)
TimerCallBack ==
    /\ HandlersMayRun
    /\ ~timedOut
    /\ timedOut' = TRUE
    /\ \E kernelMode \in BOOLEAN :
          waited' = [t \in Threads |->
                        IF \/ status[t] \in {"ready", "blocked"}
                           \/ status[t] = "running" /\ kernelMode
                        THEN IF waited[t] < AgeLimit THEN waited[t] + 1 ELSE AgeLimit
                        ELSE waited[t]]
    /\ aging' = [pass |-> 3, at |-> First(ready[3]),
                 heads |-> << First(ready[1]), First(ready[2]) >>]
    /\ UNCHANGED << status, priority, next, ready, current, inP, finishing, cpu,
                    flagVars, toBeDestroyed >>

Due(t) == waited[t] = AgeLimit

(* << l, i >> when t is the i-th thread of the queue of level l. *)
Places(queues, t) ==
    UNION {{l} \X {i \in DOMAIN queues[l] : queues[l][i] = t} : l \in Levels}

(* ListIterator::Next from the element that holds t.  Remove freed that    *)
(* element, and the Append or Insert after it was given the same memory: so*)
(* the iterator stands on t wherever t is queued now.                      *)
After(queues, t) ==
    LET place == CHOOSE x \in Places(queues, t) : TRUE
        q == queues[place[1]]
    IN  IF Places(queues, t) = {} \/ place[2] = Len(q) THEN NoThread ELSE q[place[2] + 1]

(* The loops of Aging: the next pass, a thread not due, a thread aged in   *)
(* L3 or L2 and queued again, one aged in L1 and left where it is.         *)
NextPass == /\ aging.pass \in {2, 3} /\ aging.at = NoThread
            /\ aging' = [aging EXCEPT !.pass = @ - 1, !.at = aging.heads[aging.pass - 1]]
            /\ UNCHANGED << threadVars, ready, cpu >>

PassOver == /\ aging.at # NoThread
            /\ ~Due(aging.at)
            /\ aging' = [aging EXCEPT !.at = After(ready, @)]
            /\ UNCHANGED << threadVars, ready, cpu >>

(* Mutants: the thread is queued again but not taken out first; it is moved *)
(* without being given a higher priority.                                   *)
PromoteUnremoved ==
    LET t == aging.at
        p == [priority EXCEPT ![t] = @ + AgeStep]
        queues == Enqueued(ready, t, p)
    IN  /\ aging.pass \in {2, 3} /\ t # NoThread
        /\ Due(t)
        /\ Contains(ready[aging.pass], t)
        /\ priority' = p
        /\ waited' = [waited EXCEPT ![t] = 0]
        /\ ready' = queues
        /\ aging' = [aging EXCEPT !.at = After(queues, t)]
        /\ UNCHANGED << status, next, cpu >>

PromoteUnraised ==
    LET t == aging.at
        l == aging.pass
        queues == Enqueued([ready EXCEPT ![l] = RemoveFirst(@, t)], t, priority)
    IN  /\ l \in {2, 3} /\ t # NoThread
        /\ Due(t)
        /\ Contains(ready[l], t)
        /\ waited' = [waited EXCEPT ![t] = 0]
        /\ ready' = queues
        /\ aging' = [aging EXCEPT !.at = After(queues, t)]
        /\ UNCHANGED << status, priority, next, cpu >>

Promote == LET t == aging.at
               p == [priority EXCEPT ![t] = @ + AgeStep]
               l == aging.pass
               queues == Enqueued([ready EXCEPT ![l] = RemoveFirst(@, t)], t, p)
           IN  /\ l \in {2, 3} /\ t # NoThread
               /\ Due(t)
               /\ Contains(ready[l], t)
               /\ priority' = p
               /\ waited' = [waited EXCEPT ![t] = 0]
               /\ ready' = queues
               /\ aging' = [aging EXCEPT !.at = After(queues, t)]
               /\ UNCHANGED << status, next, cpu >>

(* The iterator has followed a promoted thread into the next queue and met *)
(* another due thread there: Remove looks for it in the wrong list.        *)
RemoveFails == /\ aging.pass \in {2, 3} /\ aging.at # NoThread
               /\ Due(aging.at)
               /\ ~Contains(ready[aging.pass], aging.at)
               /\ cpu' = "aborted"
               /\ UNCHANGED << threadVars, ready, aging >>

(* Mutant: the priority of L1 is not bounded. *)
PromoteL1Unbounded ==
    LET t == aging.at
    IN  /\ aging.pass = 1 /\ t # NoThread
        /\ Due(t)
        /\ priority' = [priority EXCEPT ![t] = @ + AgeStep]
        /\ waited' = [waited EXCEPT ![t] = 0]
        /\ aging' = [aging EXCEPT !.at = After(ready, t)]
        /\ UNCHANGED << status, next, ready, cpu >>

PromoteL1 == LET t == aging.at
             IN  /\ aging.pass = 1 /\ t # NoThread
                 /\ Due(t)
                 /\ priority' = [priority EXCEPT
                                    ![t] = IF @ < MaxPriority + 1 - AgeStep
                                           THEN @ + AgeStep ELSE MaxPriority]
                 /\ waited' = [waited EXCEPT ![t] = 0]
                 /\ aging' = [aging EXCEPT !.at = After(ready, t)]
                 /\ UNCHANGED << status, next, ready, cpu >>

Aging == /\ cpu # "aborted"
         /\ NextPass \/ PassOver \/ Promote \/ RemoveFails \/ PromoteL1
         /\ UNCHANGED << current, inP, finishing, flagVars, toBeDestroyed, timedOut >>

(* Mutant: only the end of an L3 slice asks for Yield. *)
AlarmEndSliceOnly ==
    LET check == CheckPreempt(ready, status, preempFlag)
        slice == cpu # "idle" /\ priority[current] < L2Floor
    IN  /\ aging.pass = 1 /\ aging.at = NoThread
        /\ preempFlag' = (~check.returns /\ check.flag)
        /\ yieldOnReturn' = (yieldOnReturn \/ slice)
        /\ aging' = NotAging
        /\ UNCHANGED << threadVars, ready, current, inP, finishing, cpu, toBeDestroyed,
                        timedOut >>

(* The rest of Alarm::CallBack, after Aging. *)
AlarmEnd ==
    LET check == CheckPreempt(ready, status, preempFlag)
        slice == cpu # "idle" /\ priority[current] < L2Floor
    IN  /\ aging.pass = 1 /\ aging.at = NoThread
        /\ preempFlag' = (~check.returns /\ check.flag)
        /\ yieldOnReturn' = (yieldOnReturn \/ check.returns \/ slice)
        /\ aging' = NotAging
        /\ UNCHANGED << threadVars, ready, current, inP, finishing, cpu, toBeDestroyed,
                        timedOut >>

(* The end of OneTick without a request to yield. *)
TickEnd == /\ cpu = "tick" /\ aging = NotAging
           /\ ~yieldOnReturn
           /\ cpu' = "run"
           /\ timedOut' = FALSE
           /\ UNCHANGED << threadVars, ready, current, inP, finishing, flagVars,
                           toBeDestroyed, aging >>

(* The end of OneTick with one: Thread::Yield.  It takes the next thread   *)
(* out of the queues before it puts its own back, and enables interrupts   *)
(* when it is done.                                                        *)
Yield == /\ cpu = "tick" /\ aging = NotAging
         /\ yieldOnReturn
         /\ yieldOnReturn' = FALSE
         /\ timedOut' = FALSE
         /\ IF TopLevel(ready) # 0
            THEN Run(Best(ready), Enqueued(Rest(ready), current, priority),
                     [status EXCEPT ![current] = "ready"], FALSE)
            ELSE UNCHANGED << status, ready, current, finishing, cpu, toBeDestroyed >>
         /\ UNCHANGED << priority, next, waited, inP, preempFlag, aging >>

(* The loop of Sleep looks at the queues again after Idle. *)
Look == /\ cpu = "idle" /\ aging = NotAging
        /\ timedOut' = FALSE
        /\ IF TopLevel(ready) # 0
           THEN Run(Best(ready), Rest(ready), status, finishing)
           ELSE UNCHANGED << status, ready, current, finishing, cpu, toBeDestroyed >>
        /\ UNCHANGED << priority, next, waited, inP, flagVars, aging >>

(* A failed ASSERT ends the program. *)
Abort == cpu = "aborted" /\ UNCHANGED vars

Next == \/ Compute \/ Block \/ Finish \/ Resume
        \/ \E t \in Threads : Fork(t) \/ Wake(t) \/ DeviceCallBack(t)
        \/ TimerCallBack \/ Aging \/ AlarmEnd
        \/ TickEnd \/ Yield \/ Look
        \/ Abort

Spec == Init /\ [][Next]_vars

(* The machine goes on as long as it can, and the timer, which is always   *)
(* scheduled again, fires again and again because every tick and every Idle*)
(* moves the clock towards it.                                             *)
FairSpec == Spec /\ WF_vars(Next) /\ SF_vars(TimerCallBack)

-----------------------------------------------------------------------------
(* Properties. *)

TypeOK == /\ status \in [Threads -> Statuses]
          /\ priority \in [Threads -> 0 .. MaxPriority]
          /\ next \in [Threads -> Bursts]
          /\ waited \in [Threads -> 0 .. AgeLimit]
          /\ ready \in [Levels -> Seq(Threads)]
          /\ current \in Threads
          /\ inP \subseteq Threads
          /\ finishing \in BOOLEAN
          /\ cpu \in CpuStates
          /\ preempFlag \in BOOLEAN
          /\ yieldOnReturn \in BOOLEAN
          /\ toBeDestroyed \in Threads \cup {NoThread}
          /\ timedOut \in BOOLEAN
          /\ aging \in [pass : 0 .. 3, at : Threads \cup {NoThread},
                       heads : (Threads \cup {NoThread}) \X (Threads \cup {NoThread})]

(* No thread is lost or queued twice: a thread that is ready is in one     *)
(* place of one queue, that of its priority, and no other thread is queued.*)
(* This holds while Aging moves threads about, until an ASSERT fails.      *)
ReadyIsQueuedOnce ==
    cpu # "aborted" =>
        \A t \in Threads :
            IF status[t] = "ready"
            THEN \E i \in DOMAIN ready[LevelOf(priority[t])] :
                     Places(ready, t) = {<< LevelOf(priority[t]), i >>}
            ELSE Places(ready, t) = {}

(* The CPU has one running thread, the current one, or, in the loop of     *)
(* Sleep, none.                                                            *)
OneRunning ==
    /\ {t \in Threads : status[t] = "running"} \subseteq {current}
    /\ cpu = "idle" <=> status[current] # "running" /\ cpu # "aborted"

(* A finished thread is deleted once, off the CPU and out of the queues:   *)
(* toBeDestroyed is set only between the SWITCH away from a thread and the *)
(* first thing the next one does (ASSERT(this != currentThread) of ~Thread,*)
(* ASSERT(toBeDestroyed == NULL) of Run), and nothing wakes it meanwhile.  *)
DestroyedOffCpu ==
    /\ toBeDestroyed # NoThread =>
          /\ cpu = "switched"
          /\ toBeDestroyed # current
          /\ status[toBeDestroyed] = "blocked"
    /\ finishing => cpu \in {"idle", "aborted"} /\ status[current] = "blocked"

(* t has to go before u. *)
Outranks(t, u) ==
    LET l == LevelOf(priority[t])
        k == LevelOf(priority[u])
    IN  \/ l < k
        \/ l = 2 /\ k = 2 /\ priority[t] > priority[u]
        \/ l = 1 /\ k = 1 /\ next[t] < next[u]

(* Whenever a thread gets the CPU, no other ready thread outranks it: the  *)
(* sorted lists stay sorted although aging changes the keys of queued      *)
(* threads.                                                                *)
Dispatch == cpu # "switched" /\ cpu' = "switched"
DispatchesBest ==
    [][Dispatch => \A t \in Threads : status[t] = "ready" => ~Outranks(t, current')]_vars

(* When L1 has a ready thread, an L1 thread gets the CPU after a while,    *)
(* whatever runs now: a running L2 thread is preempted at the latest at the*)
(* second timer interrupt.                                                 *)
L1GetsCpu ==
    (ready[1] # << >>) ~>
        \/ cpu = "aborted"
        \/ status[current] = "running" /\ LevelOf(priority[current]) = 1

(* Aging keeps every waiting thread moving: one that is ready runs, or is  *)
(* raised to L1, although a pass over a queue may end before its end.      *)
WaitingIsPromoted ==
    \A t \in Threads : (status[t] = "ready") ~>
        (cpu = "aborted" \/ status[t] # "ready" \/ LevelOf(priority[t]) = 1)
===============================================================================

# A TLA+ model of this NachOS kernel

The repository holds two copies of the NachOS kernel in C++: `src/stub/code`
(assignments MP1 to MP3) and `src/FS/code` (the same kernel with the file system of
MP4). The second contains what matters of the first, so it is the one modelled;
paths below are relative to `src/FS/code` unless they begin with `src/`.

Contents: [1 The system](#1-the-system), [2 Modules and code](#2-modules-and-code),
[3 Runs](#3-runs), [4 Fairness](#4-fairness), [5 Proofs](#5-proofs),
[6 Where code and comments disagree](#6-where-code-and-comments-disagree),
[7 Abstractions](#7-abstractions), [8 Not modelled](#8-not-modelled),
[9 Plan](#9-plan).

To run: `tlc -config MCSynchDisk.cfg MCSynchDisk` (and so on, section 3), and `tlapm`
on the eight modules `SemaphoreProofs`, `SynchDiskProofs`, `SynchListProofs`,
`ConsoleProofs`, `PostOfficeProofs`, `AddrSpaceProofs`, `FileSystemProofs` and
`SchedulerProofs` (section 5).

## 1 The system

NachOS is a kernel with a simulated machine below it, in one UNIX process. One CPU
runs one thread at a time. Time advances by ticks. A context switch happens only

  * in `Thread::Sleep`, when a thread gives the CPU up,
  * at the end of a tick, `Interrupt::OneTick`, if a handler asked for one. A tick
    comes with every user instruction and every time interrupts are enabled again
    (`SetLevel(IntOn)`), which is at the end of `P`, `V`, `Fork` and `Yield`.

Interrupt handlers run inside a tick or in `Interrupt::Idle`, with interrupts off.
So a piece of kernel code without such a point is atomic however long it is, and
every call of `P` or `V` is a place where any other thread may run. All models
below cut the code exactly there.

| component | state | operations | interacts with | hard parts |
|---|---|---|---|---|
| Semaphore (`threads/synch.cc`) | value, queue of sleepers | P, V | scheduler; everything that blocks | V hands nothing over: a woken thread tests again and may sleep again |
| Lock, Condition (`threads/synch.cc`) | a semaphore, lockHolder; a queue of semaphores | Acquire, Release; Wait, Signal | the monitors below | the holder is assigned after P; Wait releases before it sleeps |
| Synchronous disk (`filesys/synchdisk.cc`, `machine/disk.cc`) | lock, semaphore, device busy, interrupt | ReadSector, WriteSector, CallBack | file system above, interrupts below | one request, one interrupt, one waiting thread |
| Synchronized list (`threads/synchlist.cc`) | list, lock, condition | Append, RemoveFront, Apply | post office | Mesa semantics: an item may be taken by a latecomer |
| Scheduler (`threads/scheduler.cc`, `thread.cc`, `alarm.cc`, `machine/interrupt.cc`, `timer.cc`) | three ready queues, states, priorities, bursts, two flags, toBeDestroyed | Fork, Sleep, Yield, Finish, ReadyToRun, Run, Aging, CheckPreempt, OneTick, Idle | all threads | flags set in one place and read in another; a list changed while an iterator stands in it; deleting a thread one is running on |
| Console output (`userprog/synchconsole.cc`, `machine/console.cc`) | lock, semaphore, putBusy | PutChar, PutInt, CallBack | system calls | a sleep after each character |
| Console input (same files) | lock, semaphore, one character, polling interrupt | GetChar, CallBack | system calls | who asks for the next poll; the end of the input |
| Table of open files (`filesys/filesys.cc`) | table, count, directoryFile | OpenReturnId, Close | system calls, file system | tested before the disk is read and changed after; index -1 |
| File system (`filesys/filesys.cc`, `directory.cc`, `filehdr.cc`, `openfile.cc`, `pbitmap.cc`) | the disk: bitmap, directories, headers, index sectors, data | format, Create, Open, Remove, RecursiveRemove, List | synchronous disk | several sectors change per operation; old contents stay in free sectors |
| Address spaces (`userprog/addrspace.cc`, `threads/kernel.cc`, `machine/translate.cc`) | free frames, page tables, the registers and page table of the machine | ExecAll, Load, Execute, SaveState, RestoreState, Translate, destructor | scheduler, file system, Exec | a load sleeps for every page; programs fail half way and are destroyed by others; the machine keeps what the last program left |
| Post office (`network/post.cc`, `machine/network.cc`) | mailboxes, a lock and a semaphore to send, a one-packet buffer, a postal worker, a socket | Send, Receive, PostalDelivery, the call-backs of both devices | synchronized list | lost packets; one buffer for what arrives |
| Instruction simulator (`machine/mipssim.cc`, `machine.cc`) | registers, HI and LO, two program counters, a delayed load, memory | one per instruction, RaiseException | system calls | a load takes effect an instruction later, a branch too; arithmetic by bits and masks |
| System calls (`userprog/exception.cc`) | none | one each | table of files, consoles, simulator | arguments are not checked |

What makes each correct:

  * Semaphores, locks: mutual exclusion; `lockHolder` right when `Release` asserts
    it; no wakeup lost.
  * Synchronous disk: the device is idle when it is asked; every interrupt answers
    the request of the thread that waits; every request returns. Summarised: a
    store that serves one request at a time.
  * Synchronized list: no signal missed, no item left behind with threads asleep.
    Summarised: a first-in first-out queue.
  * Scheduler: a ready thread is in exactly one place; the best ready thread gets
    the CPU; a dead thread is deleted off the CPU; L1 is never kept waiting; aging
    raises everybody.
  * Consoles: whole texts; nothing typed is lost; calls return.
  * File table: the count is exact; an id keeps naming its file.
  * File system: no sector in two files; the bitmap is exact; names are unique; a
    stop between two writes loses no space and leaves no half-written header.
  * Address spaces: a frame has one owner and none is lost; a program runs with its
    own page table and registers and writes to its own memory.
  * Post office: mail may be lost but not doubled or reordered; Send returns.
  * Simulator: what it does with bits, masks and delayed loads is what the
    instruction set says.

`PROJECT.json` lists every hazard of this kind at its line, with the properties that
watch it, or the reason why none does yet.

## 2 Modules and code

`Semaphores` holds the semaphore as operators on a record, and is used by every
module with a lock. A thread inside `P` is asleep exactly when it is in the queue.
`P` is a sequence of turns of `while (value == 0)`: one turn is a step of a thread
that is not asleep, and `V` puts the first sleeper back in front of that test.

| module | models | variables ↔ fields | actions ↔ code |
|---|---|---|---|
| `Semaphores` | `threads/synch.cc` | record `value`, `queue` | `Turn` one test of the loop of P, `V`, `Woken` |
| `SynchDisk` | `filesys/synchdisk.cc`, `machine/disk.cc`, Lock | `lock`, `lockHolder`, `semaphore`, `active`, `pending` (interrupts scheduled), `store` (the UNIX file) | `Call`, `Acquire`; `SendRequest` from the return of Acquire to the sleep in `semaphore->P`; `WaitAgain`; `Release`; `DiskCallBack` |
| `SectorStore` | what `SynchDisk` promises | `store`, `phase` of each request | `Call`, `Serve`, `Finish`, `Return` |
| `SynchList` | `threads/synchlist.cc`, Lock, Condition | `list`, `lock`, `lockHolder`, `waitQueue`, `waiter` (a semaphore per Wait) | `AppendItem` with Signal, `EndAppend`, `TakeItem`, `WaitForItem`, `Wait`, `Apply` |
| `SharedQueue` | what `SynchList` promises | `list`, `phase` | one atomic action per operation |
| `Scheduler` | `scheduler.cc`, `thread.cc`, `alarm.cc`, `interrupt.cc` | `ready[l]`, `status`, `priority`, `next`, `preempFlag`, `yieldOnReturn`, `toBeDestroyed`, `current`; `cpu` is where the CPU is | `Fork`, `Wake` (V), `Block` and `Finish` (Sleep), `Resume` (after SWITCH), `DeviceCallBack`, `TimerCallBack`, the loops of Aging (`NextPass`, `PassOver`, `Promote`, `RemoveFails`, `PromoteL1`), `AlarmEnd`, `TickEnd`, `Yield`, `Look` (after Idle) |
| `ConsoleOutput` | `SynchConsoleOutput` and its device | `lock`, `lockHolder`, `waitFor`, `putBusy`, `pending`; `idx`, `length` of PutInt; `display` | `FirstCharacter`, `NextCharacter`, `WaitAgain`, `Release`, `CallBack` |
| `ConsoleInput` | `SynchConsoleInput` and its device | `lock`, `waitFor`, `incoming`, `pending`; `typed`, `nread` | `Wait`, `GetChar`, `CallBack`, `PollAgain` |
| `Console` | both, with threads that use both (`ConsoleTest` of `threads/kernel.cc`) | those of `ConsoleOutput`, and of `ConsoleInput` as `Input` | a step of one half; a thread is in one call at a time |
| `OpenFileTable` | `OpenReturnId`, `Close`, `FindFreeEntry` | `openFileTable`, `openFileCount`, `directoryFile`; `opening` | `OpenBegin` up to the disk reads, `OpenFound` and `OpenNotFound` after them, `OpenFull`, `Close` |
| `FileSys` | Create, Remove, RecursiveRemove, format, headers of all four levels | `disk` (a value per sector), `freeMap` (the bitmap file), `lost` (history), `outcome` | `CreateFile`, `CreateDirectory`, `RemovePath`, `RecursiveRemove`, `RecursiveRemoveRoot`, `WriteFile`, `Format`; each is a sequence of stages, one per structure written back, and `StopsIn` stops at any but the last |
| `AddrSpace` | `Kernel::ExecAll`, `AddrSpace`, `Scheduler::Run`'s save and restore, `Machine::Translate` | `avList`, `numPages`, `pageTable`; `memory`, `table`, `tableSize`, `regs` of the machine, `saved` of the thread; `loading`, the frame popped | `Exec`; `OpenFails`, `ReadHeader`, `ReadPage` (Load, a step per page), `Execute`; `Access`, `SysRead`; `Switch` with the destructor of a finished program; `Finish` |
| `PostOffice` | `PostOfficeOutput`, `PostOfficeInput`, `NetworkOutput`, `NetworkInput` | `sendLock`, `lockHolder`, `messageSent`, `pending`; `wire` (the socket), `inbox`, `available`, `worker`, `hand`; `boxes` | `Call`, `Acquire`, `Transmit` (may lose the packet), `WaitAgain`, `Release`, `SendCallBack`; `ReceiveCallBack`, `AwaitPacket`, `Fetch`, `Put` (the worker); `Receive` |
| `LossyMail` | what `PostOffice` promises | `transit`, `boxes`, `phase`, `mail` | `Call`, `Dispatch`, `Return`, `Arrive`, `Receive` |
| `Mips` | `OneInstruction`, `DelayedLoad`, `RaiseException`, `Mult`, Halt, Exit, PrintInt, Add | `registers`, `hi`, `lo`, `pc`, `nextPC`, `loadReg`, `loadValue`, `memory` | one per class of instruction, with exceptions |
| `MipsISA` | the instruction set, which `Mips` implements but for the steps of `Departs` | the same without the delayed load | one per class of instruction, in integers, bytes and sets of bits |
| `Words` | the word of the machine, shared by both | constant `ByteBits` | `Word`, `Signed`, `Extend` |
| `*Proofs` | section 5 | | |

`MC*` modules add symmetry sets and the larger constants. Definitions marked
"Mutant" are plausible mistakes in the definition below them; no specification uses
them. Each property of a run is violated when one of them takes that definition's
place, so that each property is known to say something about the code.

How the modules are composed:

  * `SynchDisk`, `SynchList`, `ConsoleOutput`, `ConsoleInput` and `PostOffice` contain
    `Semaphores`.
  * `Console` composes `ConsoleOutput` and `ConsoleInput`, and is shown to implement
    each (section 5).
  * `SynchDisk` implements `SectorStore`, `SynchList` implements `SharedQueue`,
    `PostOffice` implements `LossyMail` and `Mips` implements `MipsISA` (but for the steps that `Departs`
    names), each through the
    refinement mapping `Abstract` at its end. A mailbox of `PostOffice` is a
    `SynchList` in the code; the model uses what `SharedQueue` says of it, that each
    operation takes effect in one step.
  * In `SynchDisk` the phase of a request is read off `pc` and `active`: the request
    has been served when the device has moved the data and is finished when the
    interrupt has come, even if the waiting thread has not run since. In
    `PostOffice` a mail is in transit while it is in the socket, the buffer or the
    worker's hand. In `Mips` the abstract registers are those of the machine with the
    delayed load already done.

## 3 Runs

| run | config | distinct states | question |
|---|---|---|---|
| `disk` | `MCSynchDisk.cfg` | 185 940 | three threads, two requests each: safety, return of requests, refinement of `SectorStore` |
| `list` | `MCSynchList.cfg` | 290 983 | three threads, two calls each, two items: signals, return of calls, refinement of `SharedQueue` |
| `sched_safety` | `MCScheduler_safety.cfg` | 1 389 946 | three threads on all levels with aging: queues, who runs, who is deleted, who is dispatched |
| `sched_liveness` | `MCScheduler_liveness.cfg` | 151 490 | forked on L3 and L2: does L1 get the CPU, does everybody rise |
| `console` | `MCConsole.cfg` | 383 190 | two threads that print twice (one or two characters) and read twice; up to two characters typed, the byte 0xFF among them: texts, characters, return of calls |
| `table_safety` | `MCOpenFileTable_safety.cfg` | 142 392 | three programs, two files, three entries: the count, the ids |
| `table_root` | `MCOpenFileTable_root.cfg` | (violated) | section 6 |
| `fs_safety` | `MCFileSys_safety.cfg` | 17 660 | every history of operations on a disk of 19 sectors, with a stop between any two writes |
| `fs_new_directory` | `MCFileSys_new_directory.cfg` | (violated) | section 6 |
| `memory` | `MCAddrSpace_safety.cfg` | 1 534 053 | three programs on five frames, of all shapes: owners of frames, registers, writes |
| `mail` | `MCPostOffice.cfg` | 252 674 | two clients, two calls each, on one machine, to it and to another: announcements, refinement of `LossyMail`, does it settle |
| `machine` | `MCMips.cfg` | 127 648 | every operation on all pairs of words of four bits, and short programs: refinement of `MipsISA`, but for the two departures that it names |

Why the bounds are enough for what they ask:

  * Three threads are what the monitors need: one that holds the lock, one asleep
    in Acquire, one that comes by and takes the lock the sleeper was woken for. With
    a second call the one that left comes back. A waiter, the thread that signals it
    and the one that takes its item are also three. The code of the monitors does
    not look at sectors or items, so one sector with two values shows an exchange of
    data, and two items show a change of order.
  * Scheduler, safety: three threads, priorities 0 to 5 with two to a level, and steps of one, so that a promoted thread moves inside L3 and L2 and from one to
    the next, as with 150 priorities and steps of ten. The assumption of the module,
    that one step never skips a level, holds for the numbers of the code. Two
    predicted bursts make shorter and equal ones. Every thread is due after one
    timer period, which gives Aging most to do.
  * Scheduler, liveness: one priority in L2 and L1 and two in L3, no bursts, since
    `L1GetsCpu` speaks of L1 as a whole.
  * Console: two threads, each of which may print while the other reads, or meet it
    at either lock. The proofs of section 5 cover any number.
  * Table: three entries give the code's off-by-one both of its effects, and three
    programs interleave while the count is at its edge.
  * File system: a header names one sector or two tables, a table two sectors, so
    that files of three sectors are of level 3 and of five of level 4, a
    directory of two is of level 2, and only the bitmap file is of level 1. The sizes do
    not divide each other, so a removed file's place is refilled with headers where
    tables or data were. Directories nest, fill, and fill the disk; three names for two entries, so that a
    new name also meets a full directory. The outcomes
    "aborted", "garbled" and "stopped" are all reached; "overwrote" needs a larger disk than
    this run has. The violated run uses the smallest headers its trace needs.
  * Memory: programs of two and three pages, one larger than the machine, one
    without a file. Three of them do not fit together in five frames, so a load runs out of
    frames half way, or gets those of a program that has left.
  * Mail: the two clients share the lock and the box of their machine; the mails
    to the other machine show that the two are told apart. Each packet may be lost.
  * Machine: a byte of one bit (`Words`). Shifts, signs, carries, half words and bytes
    inside a word, the smallest int and all ones exist at this width, and no
    operation of the simulator looks at the width but through these. Programs follow a load
    with every kind of instruction, and every partial load with another.

`CHECK_DEADLOCK FALSE` stands only where the system stops: `OpenFileTable` after the
kernel has followed a NULL pointer (`crashed`). Elsewhere the end of the bounded
work is an explicit stuttering step (`Terminated`, `Halted`, `Abort`), enabled only
in the states in which the system has nothing left to do, so that TLC reports every
other deadlock.

## 4 Fairness

`FairSpec` (`FairConsoleSpec` of `Console`) is the specification with `WF_vars(Next)`: the
machine does not stand still while something can happen. A ready thread has the
CPU, or `Idle` moves the clock to the next interrupt. Nothing is assumed of the choice
among ready threads. That is enough for the monitors, the console and the post
office because every thread of the model makes a bounded number of calls; it is
not a claim that an unbounded stream of rivals cannot starve a thread at a lock,
which in this code it can, since `V` hands nothing over. In `ConsoleInput` the polling
interrupt stutters while nothing is typed, so `WF` also says that whoever types goes
on until the input ends.

`Scheduler` adds `SF_vars(TimerCallBack)`: `Timer::CallBack` always schedules the
next timer interrupt, and every tick and every `Idle` moves the clock towards it. The
fairness is strong because the interrupt is not deliverable while a handler or a
switch is under way.

`AddrSpace`, `OpenFileTable`, `FileSys` and `Mips` state safety only and have no fairness.

## 5 Proofs

Checked with TLAPS for every value of the constants, from the assumptions the modules
name: that the NULL of a pointer is no thread and an empty buffer no mail, that every client has a
machine, that bounds are natural numbers, that shapes of programs are code and data that fit into the whole, that the levels of the
scheduler follow each other and one step of Aging does not skip one; of the file system, that
its sizes are positive, that a file fits into the largest level of a header, that an index table has room for a
directory and for what a header names itself, and that the bitmap, the root directory and their headers are on the disk.

| module | theorems | say |
|---|---|---|
| `SynchDiskProofs` | `SynchDiskTyping`, `SynchDiskInvariant`, `SynchDiskMutualExclusion`, `SynchDiskReleasedByHolder`, `SynchDiskDeviceIdle` | types; the lock excludes; `ASSERT(IsHeldByCurrentThread())` and `ASSERT(!active)` never fail |
| | `SynchDiskInterrupts`, `SynchDiskWakeups` | no interrupt and no wakeup of the lock is lost |
| | `SynchDiskImplements` | `SynchDisk` implements `SectorStore` |
| `SynchListProofs` | `SynchListTyping`, `SynchListInvariant`, `SynchListLock`, `SynchListSignals` | the lock excludes; no signal is missed or doubled |
| | `SynchListItemsHaveTakers` | no item is left behind with threads asleep |
| | `SynchListImplements` | `SynchList` implements `SharedQueue` |
| `ConsoleProofs` | `ConsoleInvariant`, `ConsoleDeviceIdle`, `ConsoleTextsAreWhole`, `ConsoleReleasedByHolder` | the display, by itself: `ASSERT(!putBusy)` and that of `Release` never fail; texts come out whole |
| | `ConsoleTextsTogether`, `ConsoleDisplayIdle` | the same for the composed console |
| | `ConsoleInputInvariant`, `ConsoleNothingLost`, `ConsolePollsWhenEmpty` | the keyboard of the composed console: nothing typed is lost, doubled or reordered; `ASSERT(incoming == EOF)` never fails |
| `PostOfficeProofs` | `PostOfficeTyping`, `PostOfficeInvariant`, `PostOfficeInboxAnnounced`, `PostOfficeOneAtATime`, `PostOfficeHolderReleases` | types; a packet in the one buffer is announced once and never written over; one message at a time; the assertion of `Release` never fails |
| | `PostOfficeImplements` | `PostOffice` implements `LossyMail` |
| `AddrSpaceProofs` | `AddrSpaceTyping`, `AddrSpaceOwners`, `AddrSpaceFrames` | a frame has one owner; none is lost |
| | `AddrSpaceRunsAsItself`, `AddrSpaceWrites` | a program runs with its own table and registers, and writes to its own frames |
| `FileSystemProofs` | `FileSysInvariant`, `FileSysNothingShared`, `FileSysBitmapIsExact`, `FileSysNamesAreUnique` | no two files share a sector, at any level of header; the bitmap marks what is in use and what is lost; names are unique |
| | `FileSysStopLosesNoSpace`, `FileSysStopLeavesHeaders` | a stop between two writes loses no space and breaks no file |
| | `OpenFileTableTyping`, `OpenFileTableCount`, `OpenFileTableIds` | the count is exact; an id keeps its file |
| `SchedulerProofs` | `SchedulerTyping`, `SchedulerInvariant`, `SchedulerQueues`, `SchedulerRunning`, `SchedulerDestroyed`, `SchedulerDispatches` | the queues hold the ready threads, once, sorted; one thread runs; the dead are deleted off the CPU; the best is dispatched |

The facts about `Turn` and `V` are lemmas of `SemaphoreProofs` and are used by the four
modules below it. Everywhere the inductive invariant is proved for the initial
states and then action by action, a lemma for each.

**Synchronous disk.** `IInv` is `LockInv /\ MutualExclusion /\ HolderInv /\
InterruptAnswersRequest /\ LockWakeupNotLost`. Mutual exclusion is not inductive by
itself: that `Acquire` finds the semaphore open must mean that nobody is past it,
which is `LockInv` (value 1 exactly when nobody holds the lock, else 0). `Release` needs
`HolderInv`, that `lockHolder` names the thread whose request is out: it is assigned
in the same step that sends the request, so a thread at "locked" is not yet covered,
and the step that assigns it is safe because of mutual exclusion.
`InterruptAnswersRequest` ties thread, semaphore, device and interrupt together: a
waiting thread is asleep with its interrupt outstanding or awake with the semaphore
open, and without a waiting thread all is quiet. `RequestFindsDeviceIdle` is its
second half with mutual exclusion. `LockWakeupNotLost` needs that sleepers of the
lock are inside `Acquire` (`LockInv`) and that `V` wakes the head of a nonempty queue.
In the refinement `SendRequest` maps to `Serve`, the interrupt to `Finish`, `Release` to
`Return`, `Acquire` and `WaitAgain` to stutters. `Serve` asks that no other request is
under way, which is mutual exclusion.

**Synchronized list.** `IInv` is `LockInv /\ MutualExclusion /\ ReleasedByHolder /\
SignalNotMissed`. A waiter is in `waitQueue` with its own semaphore closed, or out of it
with the semaphore open once; the induction needs that `waitQueue` repeats nobody
(`TypeOK`). An append maps to the step that changes the list, a removal to the
step that finds it nonempty.

`ItemsHaveTakers` compares the length of the list with the number of threads on their way
to take an item, and needs two things besides `IInv`. One is `CallInv`: a thread that is
queued for the condition is inside `RemoveFront`. The other is that the set of
takers is finite, which the constants do not say: `Threads` may be any set. It holds
because only the threads that have called (`Callers`) can be takers, and each step
adds at most one to them. The step to watch is `Append`: with threads waiting it adds
one item and signals one waiter, which then counts as a taker; and a taker leaves only
with an item, or to wait again when the list is empty.

**Console.** The display: who is past the lock (`LockInv`), that it is the holder, how
far it is in its text and what the device and the interrupt owe it. The
keyboard: `BufferInv` says that a poll is under way, or what is in the buffer is
announced (by the semaphore or by the thread that took its value), but never both,
so that `GetChar` asks for the next poll exactly once per character. `NothingLost` is inductive with it. The composition: each step
of the composed console is a step of one half or a stutter of it
(`DisplaySpec`, `InputSpec`), so what is proved of a half holds of the whole.

**Post office.** The invariant has two halves that share no variable but the mail on the wire.
`SendInv` is for every machine what `SynchDisk` has for its disk: `LockInv` (the lock is
open exactly when none of the machine's clients is past it), `OneSender`, `HolderInv`
(the client whose packet was sent is `lockHolder`), and `AnswerInv`: a client that
waits is asleep with one interrupt outstanding (`Unanswered`), or awake with
`messageSent` open (`Answered`); on a machine where nobody waits there is no
answer anywhere (`Quiescent`). `OneAtATime` alone is not inductive: it says how many answers
there are but not who sleeps for them, so that a waiting client's second turn might find
its semaphore closed. `MailInv` is `InboxAnnounced` with the types; it is inductive because the
receive interrupt reads a packet only into an empty buffer. In the refinement a mail is in
transit from the socket through the buffer to the hand of the postal worker, and keeps its
place among the others on that way (`PacketMoves`; it needs that the worker finds the packet and
its hand is empty, `ReadyFindsPacket`). `Transmit` maps to `Dispatch`, with the loss decided
there, `Put` to `Arrive`, `Release` to `Return`, `Call` and `Receive` to their like, the rest to
stutters.

**Address spaces.** Three invariants: `LoadInv`, what a load in progress has taken
(as many entries as pages read, and one frame more in its hand); `FramesInv`, that
free list, tables and hands repeat no frame and cover all; `RunInv`, that the
machine has the registers and table of the current program, and every
other program's registers are saved. The lemmas say what the free list is after a
frame, or as many as the stack needs, is taken from its head, and after the
frames of a table are put back in front of it.

**File system.** The theorems hold for disks, headers, index tables and directories of every
size. Most of the proof is about operators, bottom up:

  1. `WriteBack` takes the sectors that `AllocateHDR` was given by their places in the list: those of
     the index tables of each level, then the data. Places are numbers written with
     `TableSize` as the radix, so all are different (`Radix`), and together they are all there are. That is
     what breaks when one of the counts at one of the four levels is off by one.
  2. So a header that has been written names exactly the sectors taken for it, its tables
     and its data, and each once (`Made`), whatever the sectors held before.
  3. A disk is `Sound` when the root directory is a whole file, every entry leads to a
     whole file, directories below the second level are empty, the extents of all entries
     are apart from each other and from the sectors of the system, and names differ. A write outside of a
     file's extent leaves the file as it was, which carries every other file over.
  4. An action changes one directory. It adds an entry for a file made of sectors that the bitmap
     has free, or takes entries out, or writes data in the extent of a file. Each
     keeps `Sound`, and changes `Held`, the sectors reached from the root, by what it changes in the bitmap.

The inductive invariant `Inv` is: while NachOS runs, the disk is `Sound` and the bitmap is the sectors of
the system, those held and those lost, which are disjoint (`MapIsExact`); where it has stopped, the disk
is `Sound` and no other sector is marked. `NothingShared` is not inductive by itself: it says
nothing of the bitmap, from which the next file takes its sectors; and `BitmapIsExact`
does not say that two files, of which one is removed, have different sectors. The
order of the writes matters for a stop: `Create` writes header, directory, bitmap, so that what the
directory names is whole and what is marked is named; `Remove` writes the bitmap first. The
price, sectors that are reached but not marked, is why `MapIsExact` is an inclusion there.
Behaviours that end otherwise (`outcome` names how) are outside of these theorems, as they
are of the properties: a write through the stale header of a new directory can
damage another file. Looking for the invariant is what showed how far that goes: the stale header may name
sectors of the parent's own table, which is whole again at the end of `Create` but not in between, so
`CreateDirectory` now ends with "overwrote" there too (section 7).

**Open files.** Their proofs are in the same module and need nothing of the disk. `CountIsExact` and `IdsAreKept` are inductive together with `TypeOK`: what a
thread has read before the disk read (that the count was below the limit) may be
false after it, and neither property depends on it. The proof of the count is by
cardinalities of the set of entries in use.

**Scheduler.** `IInv` is `TypeOK /\ QueuesInv /\ OneRunning /\ DestroyedOffCpu /\ AgingInv`.
`QueuesInv` says that each queue is an injective sequence of exactly the ready threads
of its level, ordered by its key (the predicted burst in L1, priority in L2), and
implies `ReadyIsQueuedOnce` and `DispatchesBest`. It is not inductive alone: Aging changes the
priority, which is the key, of a thread that is queued, and then removes it from the
list it was found in and queues it again, through an iterator that stands in freed
memory. `AgingInv` says that nothing else runs meanwhile and that what the iterator of
L1 finds is a ready thread of L1. The proofs are in layers: what inserting
and removing does to a sequence, to an ordered queue (`IsQueue`), to the three of them
(`EnqueuedQueues`, `RemovedQueues`, `BestProperties`, `RekeyedQueues`), and then one
lemma per action.

Only model-checked: liveness and `ENABLED`, which are outside the prover; the damage of
section 6, which is there; and `Mips`, which uses `Bitwise`, out of the prover's reach too.

## 6 Where code and comments disagree

Each of these is a run that TLC finds violated, with a trace:

  * `table_root`: `filesys/filesys.cc:21-22` (and 160-161) assumes the directory file is kept open;
    an open that gets index -1 stores its file over `directoryFile`, the word before
    the table.
  * `fs_new_directory`: `filesys/filesys.cc:684` says a new directory is initialised
    with no entry in use; it is opened before its header is written, and the empty
    table goes where an old header points.

Seen while modelling, and part of the models unless it says otherwise:

  * `threads/scheduler.cc:452` lists three cases of preemption. `preempFlag` and
    `yieldOnReturn` outlive what set them, so that a thread is preempted in others too.
    What holds in spite of it is in `sched_safety` and `sched_liveness`.
  * `userprog/synchconsole.cc:46` waits "for EOF or a char to be available"; the end of
    the input is announced once, and a second read after it waits for ever.
    `ReadsReturn` excepts it.
  * `userprog/exception.cc:228-233`: Read takes the address of the program's buffer, a
    virtual address (`userprog/syscall.h:150`), for a physical one. `WritesOwnMemory`
    excepts it by name.
  * `userprog/addrspace.cc:92`: the constructor clears all of main memory, that of
    loaded programs too. It does no harm only because `ExecAll` makes all programs before any
    runs.
  * `userprog/addrspace.cc:245`: the data segment is loaded at the page after the code,
    whatever `virtualAddr` says. Left out: a page is known by its number.
  * `threads/kernel.cc:340`: Exec puts the eleventh thread behind the end of an array of ten.
    Left out: the models have fewer.
  * `machine/machine.h:86-87` promises that a program cannot tell the simulator from a processor, but for
    floating point and the system calls. It can: SRL and SRLV (`machine/mipssim.cc:550-560`) shift an
    int, and bring copies of the sign into a negative word; the smallest int divided by -1 stops the simulator
    (`machine/mipssim.cc:262`). So `Mips` does not implement `MipsISA`, which is the hardware's:
    TLC finds `ISA!Spec` violated by the program that is one SRL, with 9 in the register it shifts
    (words of four bits). `ImplementsISA` excepts these steps by name (`Departs` in `Mips`), and says of the
    shifts that they do what SRA and SRAV do.
  * There is more that a program could tell: a load overwrites what the
    next instruction put into the same register; a system call in the slot after a branch
    loses the branch; BGEZAL and JALR write the link before they read their
    operand. These are programs that a compiler does not write, and not among those of the run.
  * `threads/kernel.cc:147-148`: the post office is never constructed, since the lines are commented out;
    `NetworkTest` would call it through a pointer that was never set. `PostOffice` models the classes as they are, as
    they would run with these two lines.
  * `network/post.cc:310`: Send asserts that the box is not negative, and the postal worker of the other
    machine asserts (`network/post.cc:210`) that it is one of its own: a number that is too large
    stops the receiver, not the sender. Left out: mails go to boxes that exist.
  * `machine/network.cc:165`: `sendBusy`, on which the assertion of `Send` rests, is never
    set. What it was to guarantee holds all the same (`OneAtATime`).
  * `filesys/filesys.cc:847`: Remove of a directory that is not empty frees the directory alone. What was in
    it stays marked and cannot be reached. No comment says otherwise; `lost` keeps account of it,
    and `BitmapIsExact` says that nothing else leaks, not that this does not.
  * A packet that is lost is not sent again; whoever waits for it in `Receive`, as the
    network test does, waits for ever. `Settles` says what does end.

## 7 Abstractions

  * Any ready thread may run next in the modules of the monitors and in `AddrSpace`; the
    scheduler's choice is one of these behaviours.
  * The latency of the disk, the console, the network and the timer only chooses
    when an interrupt comes. The models let it come at any point where handlers can
    run.
  * Scheduler: time is counted in timer periods; the predicted burst is any bounded
    number at each `UpdateNext`. An interrupt handler may wake any sleeping thread.
    The freed list element of `Remove` is reused by the allocation that follows it
    in `Append` or `Insert`, as the C library's allocator does for blocks of equal
    size; the iterator of `Aging` that stands on it goes on from there.
    Priorities given with `-ep` are within 0..149. A failed ASSERT ends the run.
  * File system: one operation at a time (the code has no lock,
    `filesys/filesys.cc:33`); a directory's table takes one entry per sector; files
    are not empty and within the largest level, an assumption; paths have one or two
    names and do not lead through a file, so that no directory deeper than the second has
    an entry; a directory is a file of level 1 or 2 (of the code's levels: 64 entries on
    twelve sectors, level 2), an assumption; the entries of index tables behind the
    end of a file are left out; `DirNames` bounds which names directories take.
    Reading a header or a table from a sector that holds
    something else ends the run (`outcome`), and says in which way; so does writing to a
    sector in use through the stale header of a new directory. It may be a sector of
    the parent's own table, which is written again at the end of the operation: only a stop
    in between would show it (`StopLosesNoSpace` would fail there, on larger disks than the run's). Sectors keep what
    was last written to them when they are freed: that is the point of the model.
    NachOS may stop between two structures of an operation; a stop
    inside a format is left out.
  * Open file table: a file is named by a value; the disk reads of `Open` are a point
    where other programs run.
  * Address spaces: memory is a value per frame, whose page it is, rather than bytes. The file system
    and the disk under `Load` are a point where another program runs. The main thread makes
    all programs before any of them runs, for the reasons the module gives.
  * Post office: mailboxes are the queues that `SynchList` implements; every mail is
    addressed to a box that exists (section 6); receive interrupts
    that find nothing are left out; packets have no length.
  * Simulator: instructions are records, fetched from a memory of their own; fetching
    and decoding bits is left out. Programs are as compilers write them.
  * `MaxRequests`, `MaxCalls`, `MaxReads`, `MaxTyped`, `MaxDigits`, `MaxBurst`, `MaxSteps`,
    `Addressed` and `DirNames` cut the behaviours and are no part of the code.

## 8 Not modelled

  * Debugging, statistics and host system calls: counters and pure I/O.
  * Hash tables and the tests of the library: no part of the kernel uses them.
  * `src/stub/code`: the earlier copy of the kernel, of which `src/FS/code` is the superset.
  * User programs, cross compiler, converters, C++ examples, notes.

Partly modelled:

  * System calls: Halt, Exit, PrintInt and Add are in `Mips`, the buffer of Read in `AddrSpace`,
    Open and Close are the operations of `OpenFileTable`. The others fetch a string and call on.
  * Path parsing: which directory a path leads to, not the cutting of the string.
  * Kernel start: `ExecAll` and Exec, not the options.
  * `Condition::Broadcast` has no caller.
  * File system: List and Print change nothing.

The map covers a small share of the lines in the repository because most of them are vendored
headers of the tools (`usr/local/nachos/include`), which both copies have, and the earlier
copy of the kernel. Of the files of the kernel that change state, what is left out is listed above.

## 9 Plan

1. File system operations of two threads on two copies of the bitmap
   (`filesys/filesys.cc:657`), composed with `OpenFileTable`, so that a file is
   removed while it is open: what damage is possible.
2. A stop inside `Format`.
3. The disk's latency against its track arithmetic; the kernel's options.

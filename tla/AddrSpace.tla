------------------------------ MODULE AddrSpace -------------------------------
(***************************************************************************)
(* User programs in memory: Kernel::ExecAll and its free frames            *)
(* (threads/kernel.cc), AddrSpace (userprog/addrspace.cc), what            *)
(* Scheduler::Run saves and restores, and the page table of the machine    *)
(* (machine/translate.cc).                                                 *)
(*                                                                         *)
(* A program runs until it sleeps for the disk, inside Open and ReadAt, or *)
(* is preempted after an instruction.  Who runs next is left open.  The    *)
(* main thread makes all programs before any of them runs: it never sleeps *)
(* in ExecAll, it is of level L1, and CheckPreempt finds no thread there   *)
(* with a shorter burst, all bursts being 0.                               *)
(*                                                                         *)
(* Memory is a value per frame: whose page is in it.                       *)
(***************************************************************************)
EXTENDS Integers, Sequences, FiniteSets

CONSTANTS Programs,     \* threads that Exec makes, one for each program
          Main,         \* the thread that runs ExecAll
          NumPhysPages, \* frames of the machine (128)
          Shapes,       \* << code, data, all >> pages that a program may have
          NotFound,     \* the shape of a program that has no file
          Unset,        \* numPages before Load assigns it; no frame, no table
          Addressed,    \* bound: pages that instructions address
          MaxSteps      \* bound: instructions of a program

ASSUME ThreadsAssumption == Main \notin Programs
ASSUME UnsetAssumption == Unset \notin Int /\ Unset \notin Programs
ASSUME SizesAssumption == NumPhysPages \in Nat /\ Addressed \subseteq Nat /\ MaxSteps \in Nat

(* UserStackSize is 8 pages, more than rounding code and data up can take. *)
ASSUME ShapesAssumption ==
    \A s \in Shapes \ {NotFound} : /\ s \in Nat \X Nat \X Nat
                                   /\ s[1] + s[2] <= s[3] /\ s[1] + s[2] > 0

VARIABLES at,       \* where each thread stands
          shape,    \* the program files
          steps,    \* how many instructions each program has run
          current,  \* Kernel::currentThread
          avList,   \* Kernel::avList, the free frames
          numPages, \* AddrSpace::numPages
          pageTable,\* AddrSpace::pageTable, its valid entries
          loading,  \* the frame that Load has popped and is reading into
          memory,   \* Machine::mainMemory
          table,    \* Machine::pageTable: whose it is
          tableSize,\* Machine::pageTableSize
          regs,     \* Machine::registers: at which step of which program
          saved,    \* Thread::userRegisters
          outcome   \* of the kernel so far

machine == << table, tableSize, regs >>
vars == << at, shape, steps, current, avList, numPages, pageTable, loading, memory,
           table, tableSize, regs, saved, outcome >>

Threads == Programs \cup {Main}
Frames == 0 .. NumPhysPages - 1
Zero == << Unset, 0 >>
Page(p, v) == << p, v >>
CodePages(p) == shape[p][1]
FilePages(p) == shape[p][1] + shape[p][2]
AllPages(p) == shape[p][3]

(* "none"    not yet made by Exec                                          *)
(* "exec"    Main: in the loop of ExecAll                                  *)
(* "forked"  ready, has not run                                            *)
(* "opening" in Load: waits for the disk in Open or for the NOFF header    *)
(* "reading" in Load: waits for the disk to fill the frame it popped       *)
(* "user"    in Machine::Run                                               *)
(* "done"    in Finish                                                     *)
(* "gone"    destroyed                                                     *)
Places == {"none", "exec", "forked", "opening", "reading", "user", "done", "gone"}

(* "aborted" an ASSERT failed.  "undefined" ~AddrSpace ran over the end of *)
(* its table, numPages never having been set.                              *)
Outcomes == {"ok", "aborted", "undefined"}

Init == /\ at = [t \in Threads |-> IF t = Main THEN "exec" ELSE "none"]
        /\ shape \in [Programs -> Shapes]
        /\ steps = [p \in Programs |-> 0]
        /\ current = Main
        /\ avList = [i \in 1 .. NumPhysPages |-> i - 1]
        /\ numPages = [p \in Programs |-> Unset]
        /\ pageTable = [p \in Programs |-> << >>]
        /\ loading = [p \in Programs |-> Unset]
        /\ memory = [f \in Frames |-> Zero]
        /\ table = Unset
        /\ tableSize = Unset
        /\ regs = << Unset, 0 >>
        /\ saved = [p \in Programs |-> << Unset, 0 >>]
        /\ outcome = "ok"

-----------------------------------------------------------------------------
(* The main thread. *)

(* Kernel::Exec: the constructor of the new space clears all of memory. *)
Exec(p) == /\ current = Main /\ at[Main] = "exec" /\ at[p] = "none"
           /\ memory' = [f \in Frames |-> Zero]
           /\ at' = [at EXCEPT ![p] = "forked"]
           /\ UNCHANGED << shape, steps, current, avList, numPages, pageTable, loading,
                           machine, saved, outcome >>

(* Finish, of Main after its last Exec, or of a program. *)
Finish(t) == /\ current = t
             /\ IF t = Main THEN at[t] = "exec" /\ \A p \in Programs : at[p] # "none"
                            ELSE at[t] = "user"
             /\ at' = [at EXCEPT ![t] = "done"]
             /\ UNCHANGED << shape, steps, current, avList, numPages, pageTable, loading,
                             memory, machine, saved, outcome >>

-----------------------------------------------------------------------------
(* AddrSpace::Load. *)

Entry(f, readOnly) == [physicalPage |-> f, readOnly |-> readOnly]

(* Mutant: the frame is left on the list of free frames. *)
PeekFrame(p) == IF avList = << >>
                THEN /\ outcome' = "aborted"
                     /\ loading' = [loading EXCEPT ![p] = Unset]
                     /\ UNCHANGED << at, avList >>
                ELSE /\ loading' = [loading EXCEPT ![p] = Head(avList)]
                     /\ at' = [at EXCEPT ![p] = "reading"]
                     /\ UNCHANGED << avList, outcome >>

(* Pop the frame of the next page of a segment and begin to read into it: *)
(* ASSERT(f >= 0) if there is none.                                        *)
PopFrame(p) == IF avList = << >>
               THEN /\ outcome' = "aborted"
                    /\ loading' = [loading EXCEPT ![p] = Unset]
                    /\ UNCHANGED << at, avList >>
               ELSE /\ loading' = [loading EXCEPT ![p] = Head(avList)]
                    /\ avList' = Tail(avList)
                    /\ at' = [at EXCEPT ![p] = "reading"]
                    /\ UNCHANGED outcome

(* Open has not found the program: Load and ForkExecute return, and        *)
(* ThreadRoot calls Finish.                                                *)
OpenFails(p) == /\ current = p /\ at[p] = "opening" /\ shape[p] = NotFound
                /\ at' = [at EXCEPT ![p] = "done"]
                /\ UNCHANGED << shape, steps, current, avList, numPages, pageTable, loading,
                                memory, machine, saved, outcome >>

(* It has, and the header says how many pages the program has.             *)
(* ASSERT(numPages <= NumPhysPages).                                       *)
ReadHeader(p) == /\ current = p /\ at[p] = "opening" /\ shape[p] # NotFound
                 /\ numPages' = [numPages EXCEPT ![p] = AllPages(p)]
                 /\ IF AllPages(p) > NumPhysPages
                    THEN outcome' = "aborted" /\ UNCHANGED << at, avList, loading >>
                    ELSE PopFrame(p)
                 /\ UNCHANGED << shape, steps, current, pageTable, memory, machine, saved >>

(* ReadAt has filled the frame, and the page becomes valid. *)
FilledTable(p) == Append(pageTable[p], Entry(loading[p], Len(pageTable[p]) < CodePages(p)))

ReadPage(p) == /\ current = p /\ at[p] = "reading"
               /\ Len(pageTable[p]) + 1 < FilePages(p)
               /\ memory' = [memory EXCEPT ![loading[p]] = Page(p, Len(pageTable[p]))]
               /\ pageTable' = [pageTable EXCEPT ![p] = FilledTable(p)]
               /\ PopFrame(p)
               /\ UNCHANGED << shape, steps, current, numPages, machine, saved >>

(* The last page that is read; then the pages of the stack, which get a    *)
(* frame and nothing else, and Execute: InitRegisters and RestoreState.    *)
StackPages(p) == AllPages(p) - FilePages(p)

Execute(p) ==
    LET taken == IF StackPages(p) <= Len(avList) THEN StackPages(p) ELSE Len(avList)
    IN  /\ current = p /\ at[p] = "reading" /\ Len(pageTable[p]) + 1 = FilePages(p)
        /\ memory' = [memory EXCEPT ![loading[p]] = Page(p, Len(pageTable[p]))]
        /\ pageTable' = [pageTable EXCEPT ![p] =
                 FilledTable(p) \o [i \in 1 .. taken |-> Entry(avList[i], FALSE)]]
        /\ avList' = SubSeq(avList, taken + 1, Len(avList))
        /\ loading' = [loading EXCEPT ![p] = Unset]
        /\ IF taken < StackPages(p)
           THEN outcome' = "aborted" /\ UNCHANGED << at, machine >>
           ELSE /\ at' = [at EXCEPT ![p] = "user"]
                /\ regs' = << p, 0 >>
                /\ table' = p
                /\ tableSize' = numPages[p]
                /\ UNCHANGED outcome
        /\ UNCHANGED << shape, steps, current, numPages, saved >>

-----------------------------------------------------------------------------
(* Instructions. *)

(* Machine::Translate, for an access to page v. *)
Translates(v, writing) == /\ v < tableSize /\ v < Len(pageTable[table])
                          /\ ~(writing /\ pageTable[table][v + 1].readOnly)
FrameOf(v) == pageTable[table][v + 1].physicalPage

(* An instruction that reads or writes page v.  The exception handler      *)
(* answers every exception but a system call with ASSERTNOTREACHED.        *)
Access(p, v, writing) ==
    /\ current = p /\ at[p] = "user" /\ steps[p] < MaxSteps
    /\ IF Translates(v, writing)
       THEN /\ memory' = IF writing THEN [memory EXCEPT ![FrameOf(v)] = Page(p, v)] ELSE memory
            /\ steps' = [steps EXCEPT ![p] = @ + 1]
            /\ regs' = << regs[1], regs[2] + 1 >>
            /\ UNCHANGED outcome
       ELSE outcome' = "aborted" /\ UNCHANGED << memory, steps, regs >>
    /\ UNCHANGED << at, shape, current, avList, numPages, pageTable, loading, table,
                    tableSize, saved >>

(* The system call Read, into a buffer in page v: ExceptionHandler takes   *)
(* the address for a physical one.                                         *)
SysRead(p, v) ==
    /\ current = p /\ at[p] = "user" /\ steps[p] < MaxSteps
    /\ memory' = [memory EXCEPT ![v] = Page(p, v)]
    /\ steps' = [steps EXCEPT ![p] = @ + 1]
    /\ regs' = << regs[1], regs[2] + 1 >>
    /\ UNCHANGED << at, shape, current, avList, numPages, pageTable, loading, table,
                    tableSize, saved, outcome >>

-----------------------------------------------------------------------------
(* Scheduler::Run. *)

(* Mutant: the loop over the pages ends one page early. *)
FreedButOne(entries, free) ==
    [i \in 1 .. Len(entries) - 1 + Len(free) |->
        IF i < Len(entries) THEN entries[Len(entries) - i].physicalPage
                            ELSE free[i + 1 - Len(entries)]]

(* ~AddrSpace: each frame is put in front of the free ones. *)
Freed(entries, free) ==
    [i \in 1 .. Len(entries) + Len(free) |->
        IF i <= Len(entries) THEN entries[Len(entries) + 1 - i].physicalPage
                             ELSE free[i - Len(entries)]]

(* CheckToBeDestroyed after t, in the thread that runs next. *)
Destroys(t) ==
    IF t \in Programs /\ at[t] = "done"
    THEN /\ avList' = Freed(pageTable[t], avList)
         /\ pageTable' = [pageTable EXCEPT ![t] = << >>]
         /\ outcome' \in IF numPages[t] = Unset THEN {"ok", "undefined"} ELSE {"ok"}
    ELSE UNCHANGED << avList, pageTable, outcome >>

Left(t) == IF at[t] = "done" THEN "gone" ELSE at[t]

(* Mutant: RestoreState is not called. *)
RestoresRegisters(n) == /\ regs' = saved[n]
                        /\ UNCHANGED << table, tableSize >>

(* RestoreUserState and RestoreState of n. *)
Restores(n) == /\ regs' = saved[n]
               /\ table' = n
               /\ tableSize' = numPages[n]

Switch(n) ==
    LET t == current
    IN  /\ at[t] # "exec" /\ n # t /\ at[n] \in {"forked", "opening", "reading", "user"}
        /\ saved' = IF t \in Programs THEN [saved EXCEPT ![t] = regs] ELSE saved
        /\ current' = n
        /\ Destroys(t)
        /\ at' = [at EXCEPT ![t] = Left(t),
                            ![n] = IF @ = "forked" THEN "opening" ELSE @]
        /\ IF n \in Programs /\ at[n] # "forked" THEN Restores(n) ELSE UNCHANGED machine
        /\ UNCHANGED << shape, steps, numPages, loading, memory >>

(* The kernel has stopped, or everybody has finished. *)
Halted == /\ \/ outcome # "ok"
             \/ \A t \in Threads : at[t] \in {"done", "gone"}
          /\ UNCHANGED vars

ProgramStep(p) ==
    \/ OpenFails(p) \/ ReadHeader(p) \/ ReadPage(p) \/ Execute(p)
    \/ \E v \in Addressed, writing \in BOOLEAN : Access(p, v, writing)
    \/ \E v \in Addressed \cap Frames : SysRead(p, v)

Next == \/ /\ outcome = "ok"
           /\ \/ \E p \in Programs : Exec(p) \/ ProgramStep(p)
              \/ \E t \in Threads : Finish(t) \/ Switch(t)
        \/ Halted

Spec == Init /\ [][Next]_vars

-----------------------------------------------------------------------------

Contents == (Programs \cup {Unset}) \X Nat
Entries == [physicalPage : Frames, readOnly : BOOLEAN]

(* Every variable keeps its type. *)
TypeOK == /\ at \in [Threads -> Places]
          /\ shape \in [Programs -> Shapes]
          /\ steps \in [Programs -> Nat]
          /\ current \in Threads
          /\ avList \in Seq(Frames)
          /\ numPages \in [Programs -> Nat \cup {Unset}]
          /\ pageTable \in [Programs -> Seq(Entries)]
          /\ loading \in [Programs -> Frames \cup {Unset}]
          /\ memory \in [Frames -> Contents]
          /\ regs \in Contents
          /\ saved \in [Programs -> Contents]
          /\ table \in Programs \cup {Unset}
          /\ tableSize \in Nat \cup {Unset}
          /\ outcome \in Outcomes

FreeFrames == {avList[i] : i \in DOMAIN avList}
TableFrames(p) == {pageTable[p][i].physicalPage : i \in DOMAIN pageTable[p]}
Owned(p) == TableFrames(p) \cup ({loading[p]} \ {Unset})

(* No frame has two owners: not two programs, not two pages of one, not a  *)
(* program that is still reading into it, and none of them is free.        *)
FrameHasOneOwner ==
    /\ \A i, j \in DOMAIN avList : avList[i] = avList[j] => i = j
    /\ \A p \in Programs :
          /\ \A i, j \in DOMAIN pageTable[p] :
                pageTable[p][i].physicalPage = pageTable[p][j].physicalPage => i = j
          /\ loading[p] \notin TableFrames(p)
          /\ Owned(p) \cap FreeFrames = {}
    /\ \A p, q \in Programs : p # q => Owned(p) \cap Owned(q) = {}

(* No frame is lost: what a program had is free again once it is destroyed,*)
(* wherever Finish, or a failed Load, found it.                            *)
NoFrameLost == /\ Frames = FreeFrames \cup UNION {Owned(p) : p \in Programs}
               /\ \A p \in Programs : at[p] = "gone" => Owned(p) = {}

(* A program that executes instructions does so with its own page table,   *)
(* all pages of it valid, and with the registers as it left them, whoever  *)
(* was loaded, ran or was destroyed in between.                            *)
RunsAsItself ==
    \A p \in Programs :
        current = p /\ at[p] = "user" =>
            /\ table = p
            /\ Len(pageTable[p]) = AllPages(p) /\ tableSize = AllPages(p)
            /\ regs = << p, steps[p] >>

(* What a program writes, itself or in Load, goes to its own frames.  Only *)
(* the system call Read does not keep to them.                             *)
WritesOwnMemory ==
    [][\A f \in Frames : memory'[f] \notin {memory[f], Zero} =>
           f \in Owned(current) \/ SysRead(current, f)]_vars
===============================================================================

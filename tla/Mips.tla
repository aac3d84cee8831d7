--------------------------------- MODULE Mips ---------------------------------
(***************************************************************************)
(* The simulated processor: Machine::Run and OneInstruction                *)
(* (machine/mipssim.cc), RaiseException (machine/machine.cc), and the      *)
(* system calls that need nothing but registers (userprog/exception.cc).   *)
(*                                                                         *)
(* A load puts its value into LoadReg and LoadValueReg, from where the     *)
(* next instruction, or the next exception, moves it to the register.  A   *)
(* branch changes what comes after the instruction that follows it.        *)
(*                                                                         *)
(* Instructions are records: Decode has found the operation, and left the  *)
(* operands as they are.  They lie in a memory of their own, in which pc   *)
(* counts instructions.  The data memory has one page table entry for each *)
(* of its pages (AddrSpace has the others).                                *)
(***************************************************************************)
EXTENDS Words, Sequences, Bitwise

CONSTANTS Registers,    \* of 0 .. 31, those the programs use
          MemorySize,   \* bytes of data
          Machines,     \* << program, registers >> that the machine may start with
          SC_Halt, SC_Exit, SC_PrintInt, SC_Add     \* userprog/syscall.h

R31 == 31

VARIABLES program,
          registers,    \* the general purpose registers
          hi, lo,       \* HiReg, LoReg
          pc, nextPC,   \* PCReg, NextPCReg
          loadReg, loadValue,   \* LoadReg, LoadValueReg
          memory,
          outcome       \* of the program so far

pipeline == << loadReg, loadValue >>
vars == << program, registers, hi, lo, pc, nextPC, loadReg, loadValue, memory, outcome >>

(* "running" *)
(* "exited", "halted"  by a system call                                    *)
(* "aborted" by an exception that the handler does not know                *)
(* "crashed" the simulator itself: division that the host cannot do        *)

Init == /\ \E m \in Machines : program = m[1] /\ registers = m[2]
        /\ hi = 0 /\ lo = 0
        /\ pc = 1 /\ nextPC = 2
        /\ loadReg = 0 /\ loadValue = 0
        /\ memory = [a \in 0 .. MemorySize - 1 |-> (a + a \div 4 + 1) % ByteSize]
        /\ outcome = "running"

-----------------------------------------------------------------------------
(* The parts of OneInstruction. *)

Immediates == {"ADDI", "ADDIU", "SLTI", "SLTIU", "ANDI", "ORI", "XORI", "LUI"}
Branches == {"BEQ", "BNE", "BLEZ", "BGTZ", "BLTZ", "BGEZ", "BLTZAL", "BGEZAL"}
Loads == {"LB", "LBU", "LH", "LHU", "LW", "LWL", "LWR"}
Stores == {"SB", "SH", "SW", "SWL", "SWR"}

(* Decode: the immediate field is sign-extended, a shift or a target is not. *)
Extra(i) == IF i.op \in Immediates \cup Branches \cup Loads \cup Stores
            THEN Extend(i.extra, HalfSize) ELSE i.extra

SignBit(w) == w >= WordSize \div 2
Bool(b) == IF b THEN 1 ELSE 0

(* << the register an operation writes, what it writes >> *)
Computed(i) ==
    LET s == registers[i.rs]
        t == registers[i.rt]
        x == Extra(i)
    IN  CASE i.op \in {"ADD", "ADDU"} -> << i.rd, Word(s + t) >>
          [] i.op \in {"ADDI", "ADDIU"} -> << i.rt, Word(s + x) >>
          [] i.op \in {"SUB", "SUBU"} -> << i.rd, Word(s - t) >>
          [] i.op = "AND" -> << i.rd, s & t >>
          [] i.op = "OR"  -> << i.rd, s | t >>
          [] i.op = "XOR" -> << i.rd, s ^^ t >>
          [] i.op = "NOR" -> << i.rd, WordSize - 1 - (s | t) >>
          [] i.op = "ANDI" -> << i.rt, s & (x % HalfSize) >>
          [] i.op = "ORI"  -> << i.rt, s | (x % HalfSize) >>
          [] i.op = "XORI" -> << i.rt, s ^^ (x % HalfSize) >>
          [] i.op = "LUI"  -> << i.rt, Word(x * HalfSize) >>
          [] i.op = "SLT"   -> << i.rd, Bool(Signed(s) < Signed(t)) >>
          [] i.op = "SLTI"  -> << i.rt, Bool(Signed(s) < Signed(x)) >>
          [] i.op = "SLTU"  -> << i.rd, Bool(s < t) >>
          [] i.op = "SLTIU" -> << i.rt, Bool(s < x) >>
          [] i.op = "SLL"  -> << i.rd, Word(t * 2 ^ x) >>
          [] i.op = "SLLV" -> << i.rd, Word(t * 2 ^ (s % WordBits)) >>
          [] i.op \in {"SRA", "SRL"}   -> << i.rd, Word(Signed(t) \div 2 ^ x) >>
          [] i.op \in {"SRAV", "SRLV"} -> << i.rd, Word(Signed(t) \div 2 ^ (s % WordBits)) >>
          [] i.op = "MFHI" -> << i.rd, hi >>
          [] i.op = "MFLO" -> << i.rd, lo >>

Computing == Immediates \cup
    {"ADD", "ADDU", "SUB", "SUBU", "AND", "OR", "XOR", "NOR", "SLT", "SLTU", "SLL", "SLLV",
     "SRA", "SRL", "SRAV", "SRLV", "MFHI", "MFLO"}

(* The tests of ADD, ADDI and SUB on the sign bits. *)
Overflows(i) ==
    LET s == registers[i.rs]
        t == IF i.op = "ADDI" THEN Extra(i) ELSE registers[i.rt]
    IN  \/ /\ i.op \in {"ADD", "ADDI"}
           /\ SignBit(s) = SignBit(t) /\ SignBit(s) # SignBit(Word(s + t))
        \/ /\ i.op = "SUB"
           /\ SignBit(s) # SignBit(t) /\ SignBit(s) # SignBit(Word(s - t))

(* Mult: shift and add without signs, and the complement at the end if the *)
(* product is negative.  -a of the smallest int is that int again.         *)
MultLoop(a, b) ==
    LET loop[n \in 0 .. WordBits] ==
          IF n = 0 THEN [lo |-> 0, hi |-> 0, bLo |-> b, bHi |-> 0]
          ELSE LET r == loop[n - 1]
                   sum == Word(r.lo + r.bLo)
                   carry == Bool(sum < r.bLo)
                   adds == (a \div 2 ^ (n - 1)) % 2 = 1
               IN  [lo  |-> IF adds THEN sum ELSE r.lo,
                    hi  |-> IF adds THEN Word(r.hi + carry + r.bHi) ELSE r.hi,
                    bLo |-> Word(r.bLo * 2),
                    bHi |-> Word(r.bHi * 2 + Bool(SignBit(r.bLo)))]
    IN  loop[WordBits]

Mult(a, b, signedArith) ==
    LET negative == signedArith /\ SignBit(a) # SignBit(b) /\ a # 0 /\ b # 0
        Positive(w) == IF signedArith /\ SignBit(w) THEN Word(-w) ELSE w
        r == MultLoop(Positive(a), Positive(b))
        low == Word(-r.lo)
    IN  IF negative THEN << Word(WordSize - 1 - r.hi + Bool(low = 0)), low >>
                    ELSE << r.hi, r.lo >>

(* C divides towards zero. *)
Divide(a, b) ==
    LET Abs(n) == IF n < 0 THEN -n ELSE n
        q == Abs(a) \div Abs(b)
        quotient == IF (a < 0) = (b < 0) THEN q ELSE -q
    IN  << a - quotient * b, quotient >>

-----------------------------------------------------------------------------
(* How an instruction ends. *)

(* DelayedLoad, on registers that the instruction has written. *)
DelayedLoad(regs, nextReg, nextValue) ==
    /\ registers' = [[regs EXCEPT ![loadReg] = loadValue] EXCEPT ![0] = 0]
    /\ loadReg' = nextReg
    /\ loadValue' = nextValue

Advance(pcAfter) == pc' = nextPC /\ nextPC' = pcAfter

(* RaiseException for what ExceptionHandler answers with ASSERTNOTREACHED. *)
Raise == /\ outcome' = "aborted"
         /\ DelayedLoad(registers, 0, 0)
         /\ UNCHANGED << hi, lo, pc, nextPC, memory >>

-----------------------------------------------------------------------------
(* OneInstruction, by the kind of instruction. *)

Compute(i) == /\ i.op \in Computing
              /\ IF Overflows(i) THEN Raise
                 ELSE /\ DelayedLoad([registers EXCEPT ![Computed(i)[1]] = Computed(i)[2]], 0, 0)
                      /\ Advance(nextPC + 1)
                      /\ UNCHANGED << hi, lo, memory, outcome >>

(* MULT, MULTU, DIV, DIVU, MTHI and MTLO.  The host cannot divide the      *)
(* smallest int by -1.                                                     *)
HiLo(i) ==
    LET s == registers[i.rs]
        t == registers[i.rt]
    IN  CASE i.op = "MULT"  -> Mult(s, t, TRUE)
          [] i.op = "MULTU" -> Mult(s, t, FALSE)
          [] i.op = "DIV"   -> IF t = 0 THEN << 0, 0 >>
                               ELSE << Word(Divide(Signed(s), Signed(t))[1]),
                                       Word(Divide(Signed(s), Signed(t))[2]) >>
          [] i.op = "DIVU"  -> IF t = 0 THEN << 0, 0 >> ELSE << s % t, s \div t >>
          [] i.op = "MTHI"  -> << s, lo >>
          [] i.op = "MTLO"  -> << hi, s >>

HostCannotDivide(i) == /\ i.op = "DIV"
                       /\ Signed(registers[i.rs]) = SmallestInt
                       /\ Signed(registers[i.rt]) = -1

Multiply(i) == /\ i.op \in {"MULT", "MULTU", "DIV", "DIVU", "MTHI", "MTLO"}
               /\ IF HostCannotDivide(i)
                  THEN /\ outcome' = "crashed"
                       /\ UNCHANGED << registers, hi, lo, pc, nextPC, pipeline, memory >>
                  ELSE /\ hi' = HiLo(i)[1] /\ lo' = HiLo(i)[2]
                       /\ DelayedLoad(registers, 0, 0)
                       /\ Advance(nextPC + 1)
                       /\ UNCHANGED << memory, outcome >>

(* Branches.  The link is written before the condition is read. *)
Taken(i, regs) ==
    LET s == regs[i.rs]
    IN  CASE i.op = "BEQ" -> s = regs[i.rt]
          [] i.op = "BNE" -> s # regs[i.rt]
          [] i.op = "BGTZ" -> Signed(s) > 0
          [] i.op = "BLEZ" -> Signed(s) <= 0
          [] i.op \in {"BLTZ", "BLTZAL"} -> SignBit(s)
          [] i.op \in {"BGEZ", "BGEZAL"} -> ~SignBit(s)

Linked(r) == [registers EXCEPT ![r] = Word(nextPC + 1)]

Branch(i) ==
    LET regs == IF i.op \in {"BLTZAL", "BGEZAL"} THEN Linked(R31) ELSE registers
    IN  /\ i.op \in Branches
        /\ DelayedLoad(regs, 0, 0)
        /\ Advance(IF Taken(i, regs) THEN nextPC + Signed(Extra(i)) ELSE nextPC + 1)
        /\ UNCHANGED << hi, lo, memory, outcome >>

Jump(i) ==
    LET regs == CASE i.op = "JAL"  -> Linked(R31)
                  [] i.op = "JALR" -> Linked(i.rd)
                  [] OTHER         -> registers
    IN  /\ i.op \in {"J", "JAL", "JR", "JALR"}
        /\ DelayedLoad(regs, 0, 0)
        /\ Advance(IF i.op \in {"J", "JAL"} THEN Extra(i) ELSE regs[i.rs])
        /\ UNCHANGED << hi, lo, memory, outcome >>

-----------------------------------------------------------------------------
(* Memory. *)

(* Translate: the address is aligned and on a page of the program. *)
Translates(a, size) == a % size = 0 /\ a + size <= MemorySize

ReadMem(a, size) == CASE size = 1 -> memory[a]
                      [] size = 2 -> memory[a] + memory[a + 1] * Power(1)
                      [] size = 4 -> memory[a] + memory[a + 1] * Power(1)
                                       + memory[a + 2] * Power(2) + memory[a + 3] * Power(3)

WriteMem(a, size, w) ==
    memory' = [b \in DOMAIN memory |-> IF b \in a .. a + size - 1
                                       THEN (w \div Power(b - a)) % ByteSize ELSE memory[b]]

Address(i) == Word(registers[i.rs] + Extra(i))
Byte(i) == Address(i) % 4

(* LWL, LWR, SWL and SWR access the word that the address is in. *)
Accessed(i) == IF i.op \in {"LWL", "LWR", "SWL", "SWR"} THEN Address(i) - Byte(i) ELSE Address(i)
AccessSize(i) == CASE i.op \in {"LB", "LBU", "SB"} -> 1
                   [] i.op \in {"LH", "LHU", "SH"} -> 2
                   [] OTHER                        -> 4

(* Mutant: LWL and LWR look at the register alone. *)
MergedLate(i) == registers[i.rt]

(* What LWL and LWR merge with: the value of a load that is under way. *)
Merged(i) == IF loadReg = i.rt THEN loadValue ELSE registers[i.rt]

LoadedValue(i) ==
    LET value == ReadMem(Accessed(i), AccessSize(i))
        kept == 3 - Byte(i)
    IN  CASE i.op = "LB"  -> Extend(value, ByteSize)
          [] i.op = "LH"  -> Extend(value, HalfSize)
          [] i.op \in {"LBU", "LHU", "LW"} -> value
          [] i.op = "LWL" -> (Merged(i) & (Power(kept) - 1)) | Word(value * Power(kept))
          [] i.op = "LWR" -> (Merged(i) & (WordSize - Power(4 - Byte(i)))) | (value \div Power(Byte(i)))

Load(i) == /\ i.op \in Loads
           /\ IF ~Translates(Accessed(i), AccessSize(i)) THEN Raise
              ELSE /\ DelayedLoad(registers, i.rt, LoadedValue(i))
                   /\ Advance(nextPC + 1)
                   /\ UNCHANGED << hi, lo, memory, outcome >>

StoredValue(i) ==
    LET value == ReadMem(Accessed(i), 4)
        w == registers[i.rt]
        shifted == 3 - Byte(i)
    IN  CASE i.op = "SWL" -> (value & (WordSize - Power(4 - shifted))) | (w \div Power(shifted))
          [] i.op = "SWR" -> (value & (Power(Byte(i)) - 1)) | Word(w * Power(Byte(i)))
          [] OTHER        -> w

Store(i) == /\ i.op \in Stores
            /\ IF ~Translates(Accessed(i), AccessSize(i)) THEN Raise
               ELSE /\ WriteMem(Accessed(i), AccessSize(i), StoredValue(i))
                    /\ DelayedLoad(registers, 0, 0)
                    /\ Advance(nextPC + 1)
                    /\ UNCHANGED << hi, lo, outcome >>

-----------------------------------------------------------------------------
(* Exceptions. *)

(* SYSCALL: RaiseException finishes the load, and the handler goes on      *)
(* behind the instruction, whatever nextPC was.                            *)
Settled == [[registers EXCEPT ![loadReg] = loadValue] EXCEPT ![0] = 0]

Syscall(i) ==
    /\ i.op = "SYSCALL"
    /\ loadReg' = 0 /\ loadValue' = 0
    /\ LET type == Settled[2]
       IN  CASE type = SC_Add ->
                  /\ registers' = [Settled EXCEPT ![2] = Word(Settled[4] + Settled[5])]
                  /\ pc' = pc + 1 /\ nextPC' = pc + 2
                  /\ UNCHANGED outcome
             [] type = SC_PrintInt ->
                  /\ registers' = Settled
                  /\ pc' = pc + 1 /\ nextPC' = pc + 2
                  /\ UNCHANGED outcome
             [] OTHER ->
                  /\ registers' = Settled
                  /\ outcome' = CASE type = SC_Halt -> "halted"
                                  [] type = SC_Exit -> "exited"
                                  [] OTHER          -> "aborted"
                  /\ UNCHANGED << pc, nextPC >>
    /\ UNCHANGED << hi, lo, memory >>

(* OP_UNIMP and OP_RES, and a pc at which there is no instruction. *)
Illegal == \/ /\ pc \in DOMAIN program /\ program[pc].op = "RES"
              /\ Raise
           \/ /\ pc \notin DOMAIN program
              /\ Raise

OneInstruction(i) == Compute(i) \/ Multiply(i) \/ Branch(i) \/ Jump(i) \/ Load(i) \/ Store(i) \/ Syscall(i)

Stopped == outcome # "running" /\ UNCHANGED vars

Next == \/ /\ outcome = "running"
           /\ \/ pc \in DOMAIN program /\ OneInstruction(program[pc])
              \/ Illegal
           /\ UNCHANGED program
        \/ Stopped

Spec == Init /\ [][Next]_vars

-----------------------------------------------------------------------------

(* machine/machine.h:86: to a program the pipeline is not there.  What it  *)
(* sees is the registers with the load that is under way in its place.     *)
ISA == INSTANCE MipsISA WITH gpr <- Settled

(* SRL and SRLV of a negative word: what is shifted is an int, so that the *)
(* sign comes in, as it does in SRA and SRAV.                              *)
ShiftsSignIn(i) ==
    /\ i.op \in {"SRL", "SRLV"} /\ SignBit(Settled[i.rt])
    /\ ISA!Compute([i EXCEPT !.op = IF i.op = "SRL" THEN "SRA" ELSE "SRAV"])

(* The division that ends the simulator. *)
StopsHost(i) == /\ HostCannotDivide(i)
                /\ outcome' = "crashed"
                /\ UNCHANGED << Settled, hi, lo, pc, nextPC, memory >>

(* The steps that no hardware takes, and by which a program can tell.      *)
Departs == /\ outcome = "running" /\ pc \in DOMAIN program
           /\ ShiftsSignIn(program[pc]) \/ StopsHost(program[pc])
           /\ UNCHANGED program

(* Apart from those steps, each instruction does what the instruction set  *)
(* says, delayed loads, carries, masks and traps included.  This holds of  *)
(* programs as compilers write them: the instruction after a load leaves   *)
(* the register alone, unless the two are LWL and LWR; a link goes to a    *)
(* register that the jump does not read; no system call follows a branch.  *)
ImplementsISA == ISA!Init /\ [][ISA!Next \/ Departs]_ISA!isaVars
===============================================================================

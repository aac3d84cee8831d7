------------------------------- MODULE MipsISA --------------------------------
(***************************************************************************)
(* What the simulated processor promises to the programs that are compiled *)
(* for it ("User programs shouldn't be able to tell that they are running  *)
(* on our simulator or on the real hardware", machine/machine.h:86): the   *)
(* instruction set, with integers for what the simulator does with bits,   *)
(* bytes for what it does with masks, sets of bits for its logic, and      *)
(* loads that are there when the instruction has ended.  Only a branch is  *)
(* delayed, by the instruction that follows it.                            *)
(*                                                                         *)
(* It is that of the hardware also where the simulator does something else *)
(* (Departs in Mips).                                                      *)
(***************************************************************************)
EXTENDS Words, Sequences, FiniteSetsExt

CONSTANTS Registers, MemorySize, SC_Halt, SC_Exit, SC_PrintInt, SC_Add

VARIABLES program, gpr, hi, lo, pc, nextPC, memory, outcome

isaVars == << program, gpr, hi, lo, pc, nextPC, memory, outcome >>

Init == /\ gpr[0] = 0
        /\ hi = 0 /\ lo = 0 /\ pc = 1 /\ nextPC = 2
        /\ outcome = "running"

-----------------------------------------------------------------------------
S(i) == gpr[i.rs]
T(i) == gpr[i.rt]
ShortInt(i) == IF i.extra >= HalfSize \div 2 THEN i.extra - HalfSize ELSE i.extra

Bits(w) == {b \in 0 .. WordBits - 1 : (w \div 2 ^ b) % 2 = 1}
OfBits(B) == SumSet({2 ^ b : b \in B})
AllBits == 0 .. WordBits - 1
Truth(b) == IF b THEN 1 ELSE 0

(* The shift to the right that keeps the sign.                             *)
Shifted(w, n) == Word(Signed(w) \div 2 ^ n)

Write(r, w) == gpr' = IF r = 0 THEN gpr ELSE [gpr EXCEPT ![r] = w]
Step == pc' = nextPC /\ nextPC' = nextPC + 1
Trap == outcome' = "aborted" /\ UNCHANGED << gpr, hi, lo, pc, nextPC, memory >>

(* Sums and differences that trap when the integer does not fit.           *)
Exact(r, n) == IF n \in SmallestInt .. LargestInt
               THEN /\ Write(r, Word(n))
                    /\ Step
                    /\ UNCHANGED << hi, lo, memory, outcome >>
               ELSE Trap

Add(i) == \/ i.op = "ADD"  /\ Exact(i.rd, Signed(S(i)) + Signed(T(i)))
          \/ i.op = "ADDI" /\ Exact(i.rt, Signed(S(i)) + ShortInt(i))
          \/ i.op = "SUB"  /\ Exact(i.rd, Signed(S(i)) - Signed(T(i)))

Result(i) ==
    CASE i.op = "ADDU"  -> Word(Signed(S(i)) + Signed(T(i)))
      [] i.op = "ADDIU" -> Word(Signed(S(i)) + ShortInt(i))
      [] i.op = "SUBU"  -> Word(Signed(S(i)) - Signed(T(i)))
      [] i.op = "AND"  -> OfBits(Bits(S(i)) \cap Bits(T(i)))
      [] i.op = "OR"   -> OfBits(Bits(S(i)) \cup Bits(T(i)))
      [] i.op = "NOR"  -> OfBits(AllBits \ (Bits(S(i)) \cup Bits(T(i))))
      [] i.op = "XOR"  -> OfBits(SymDiff(Bits(S(i)), Bits(T(i))))
      [] i.op = "ANDI" -> OfBits(Bits(S(i)) \cap Bits(i.extra))
      [] i.op = "ORI"  -> OfBits(Bits(S(i)) \cup Bits(i.extra))
      [] i.op = "XORI" -> OfBits(SymDiff(Bits(S(i)), Bits(i.extra)))
      [] i.op = "LUI"  -> i.extra * HalfSize
      [] i.op = "SLT"   -> Truth(Signed(S(i)) < Signed(T(i)))
      [] i.op = "SLTI"  -> Truth(Signed(S(i)) < ShortInt(i))
      [] i.op = "SLTU"  -> Truth(S(i) < T(i))
      [] i.op = "SLTIU" -> Truth(S(i) < Word(ShortInt(i)))
      [] i.op = "SLL"  -> OfBits({b + i.extra : b \in Bits(T(i))} \cap AllBits)
      [] i.op = "SLLV" -> OfBits({b + (S(i) % WordBits) : b \in Bits(T(i))} \cap AllBits)
      [] i.op = "SRA"  -> Shifted(T(i), i.extra)
      [] i.op = "SRAV" -> Shifted(T(i), S(i) % WordBits)
      [] i.op = "SRL"  -> T(i) \div 2 ^ i.extra
      [] i.op = "SRLV" -> T(i) \div 2 ^ (S(i) % WordBits)
      [] i.op = "MFHI" -> hi
      [] i.op = "MFLO" -> lo

ToRt == {"ADDIU", "SLTI", "SLTIU", "ANDI", "ORI", "XORI", "LUI"}
ToRd == {"ADDU", "SUBU", "AND", "OR", "XOR", "NOR", "SLT", "SLTU", "SLL", "SLLV", "SRA", "SRL",
         "SRAV", "SRLV", "MFHI", "MFLO"}

Compute(i) == /\ i.op \in ToRt \cup ToRd
              /\ Write(IF i.op \in ToRt THEN i.rt ELSE i.rd, Result(i))
              /\ Step
              /\ UNCHANGED << hi, lo, memory, outcome >>

-----------------------------------------------------------------------------
(* hi and lo hold a product of double length, or remainder and quotient.   *)

Double(n) == /\ hi' = (n \div WordSize) % WordSize
             /\ lo' = n % WordSize

Multiply(i) == /\ \/ i.op = "MULT"  /\ Double(Signed(S(i)) * Signed(T(i)))
                  \/ i.op = "MULTU" /\ Double(S(i) * T(i))
                  \/ i.op = "MTHI" /\ hi' = S(i) /\ lo' = lo
                  \/ i.op = "MTLO" /\ lo' = S(i) /\ hi' = hi
               /\ Step
               /\ UNCHANGED << gpr, memory, outcome >>

(* The quotient is the integer part, the remainder has the sign of a; the  *)
(* one quotient that does not fit wraps around.  A division by 0 may leave *)
(* anything.                                                               *)
Quotes(a, b, q, r) == /\ a = q * b + r
                      /\ r \in (IF b < 0 THEN b + 1 ELSE 1 - b) .. (IF b < 0 THEN -b - 1 ELSE b - 1)
                      /\ r # 0 => (r < 0 <=> a < 0)

Divides(a, b) == IF b = 0 THEN hi' \in WordSet /\ lo' \in WordSet
                 ELSE \E q \in -WordSize .. WordSize :
                        /\ Quotes(a, b, q, a - q * b)
                        /\ lo' = Word(q) /\ hi' = Word(a - q * b)

Divide(i) == /\ \/ i.op = "DIV"  /\ Divides(Signed(S(i)), Signed(T(i)))
                \/ i.op = "DIVU" /\ Divides(S(i), T(i))
             /\ Step
             /\ UNCHANGED << gpr, memory, outcome >>

-----------------------------------------------------------------------------
(* Branches take effect after the next instruction. *)

Condition(i) == CASE i.op = "BEQ"  -> S(i) = T(i)
                  [] i.op = "BNE"  -> S(i) # T(i)
                  [] i.op = "BGTZ" -> Signed(S(i)) > 0
                  [] i.op = "BLEZ" -> Signed(S(i)) <= 0
                  [] i.op \in {"BLTZ", "BLTZAL"} -> Signed(S(i)) < 0
                  [] i.op \in {"BGEZ", "BGEZAL"} -> Signed(S(i)) >= 0

Link(i) == CASE i.op \in {"BLTZAL", "BGEZAL", "JAL"} -> Write(31, Word(nextPC + 1))
             [] i.op = "JALR" -> Write(i.rd, Word(nextPC + 1))
             [] OTHER -> gpr' = gpr

Target(i) == CASE i.op \in {"J", "JAL"} -> i.extra
               [] i.op \in {"JR", "JALR"} -> S(i)
               [] OTHER -> IF Condition(i) THEN nextPC + ShortInt(i) ELSE nextPC + 1

Jump(i) == /\ i.op \in {"BEQ", "BNE", "BLEZ", "BGTZ", "BLTZ", "BGEZ", "BLTZAL", "BGEZAL",
                        "J", "JAL", "JR", "JALR"}
           /\ Link(i)
           /\ pc' = nextPC /\ nextPC' = Target(i)
           /\ UNCHANGED << hi, lo, memory, outcome >>

-----------------------------------------------------------------------------
(* Loads and stores, byte by byte: the lowest byte has the lowest address. *)

ByteOf(w, k) == (w \div ByteSize ^ k) % ByteSize
OfBytes(f) == f[0] + f[1] * ByteSize + f[2] * ByteSize ^ 2 + f[3] * ByteSize ^ 3

At(i) == Word(S(i) + ShortInt(i))
Width(i) == CASE i.op \in {"LB", "LBU", "SB"} -> 1
              [] i.op \in {"LH", "LHU", "SH"} -> 2
              [] OTHER                        -> 4
Unaligned == {"LWL", "LWR", "SWL", "SWR"}
Accessible(i) == /\ At(i) - (At(i) % Width(i)) + Width(i) <= MemorySize
                 /\ i.op \notin Unaligned => At(i) % Width(i) = 0

(* The bytes of a register that an instruction moves, and where byte 0 of  *)
(* the register would be: LWL and SWL move the upper bytes, down to the    *)
(* beginning of the word in memory, LWR and SWR the lower ones, up to its  *)
(* end.                                                                    *)
Base(i) == IF i.op \in {"LWL", "SWL"} THEN At(i) - 3 ELSE At(i)
Moved(i) == CASE i.op \in {"LWL", "SWL"} -> 3 - (At(i) % 4) .. 3
              [] i.op \in {"LWR", "SWR"} -> 0 .. 3 - (At(i) % 4)
              [] OTHER -> 0 .. Width(i) - 1

(* The other bytes: those the register had, or the sign, or 0. *)
Other(i, k) == LET top == memory[At(i) + Width(i) - 1]
               IN  CASE i.op \in Unaligned -> ByteOf(T(i), k)
                     [] i.op \in {"LB", "LH"} /\ top >= ByteSize \div 2 -> ByteSize - 1
                     [] OTHER -> 0

Load(i) == /\ i.op \in {"LB", "LBU", "LH", "LHU", "LW", "LWL", "LWR"}
           /\ IF Accessible(i)
              THEN /\ Write(i.rt, OfBytes([k \in 0 .. 3 |-> IF k \in Moved(i) THEN memory[Base(i) + k]
                                                                            ELSE Other(i, k)]))
                   /\ Step
                   /\ UNCHANGED << hi, lo, memory, outcome >>
              ELSE Trap

Store(i) == /\ i.op \in {"SB", "SH", "SW", "SWL", "SWR"}
            /\ IF Accessible(i)
               THEN /\ memory' = [a \in DOMAIN memory |-> IF a - Base(i) \in Moved(i)
                                                          THEN ByteOf(T(i), a - Base(i)) ELSE memory[a]]
                    /\ Step
                    /\ UNCHANGED << gpr, hi, lo, outcome >>
               ELSE Trap

(* System calls find their arguments in the registers 4 and 5, and leave   *)
(* their result in 2.                                                      *)
Syscall(i) ==
    /\ i.op = "SYSCALL"
    /\ \/ gpr[2] = SC_Add /\ Write(2, Word(gpr[4] + gpr[5])) /\ Step /\ outcome' = outcome
       \/ gpr[2] = SC_PrintInt /\ Step /\ UNCHANGED << gpr, outcome >>
       \/ gpr[2] = SC_Exit /\ outcome' = "exited" /\ UNCHANGED << gpr, pc, nextPC >>
       \/ gpr[2] = SC_Halt /\ outcome' = "halted" /\ UNCHANGED << gpr, pc, nextPC >>
       \/ /\ gpr[2] \notin {SC_Add, SC_PrintInt, SC_Exit, SC_Halt}
          /\ outcome' = "aborted" /\ UNCHANGED << gpr, pc, nextPC >>
    /\ UNCHANGED << hi, lo, memory >>

Instruction(i) == \/ Add(i) \/ Compute(i) \/ Multiply(i) \/ Divide(i) \/ Jump(i)
                   \/ Load(i) \/ Store(i) \/ Syscall(i)

Next == /\ outcome = "running"
        /\ IF pc \in DOMAIN program /\ program[pc].op # "RES" THEN Instruction(program[pc]) ELSE Trap
        /\ UNCHANGED program

Spec == Init /\ [][Next]_isaVars
===============================================================================

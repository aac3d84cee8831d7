-------------------------------- MODULE MCMips --------------------------------
(* Mips for TLC: bytes of one bit, so that a word has 16 values, and short  *)
(* programs: each operation on all pairs of words, and loads, branches and  *)
(* system calls one after the other.                                        *)
EXTENDS Mips

I(op, rs, rt, rd, extra) == [op |-> op, rs |-> rs, rt |-> rt, rd |-> rd, extra |-> extra]
Registered == {"ADD", "ADDU", "SUB", "SUBU", "AND", "OR", "XOR", "NOR", "SLT", "SLTU", "SLLV",
               "SRAV", "SRLV", "MULT", "MULTU", "DIV", "DIVU", "MTHI", "MTLO", "BEQ", "BNE"}
MFLO == I("MFLO", 0, 0, 1, 0)
MFHI == I("MFHI", 0, 0, 2, 0)
Half == 0 .. HalfSize - 1

(* Every operation that computes, on registers 4 and 5. *)
Single ==
    {<< I(op, 4, 5, rd, IF op \in Branches THEN 1 ELSE 0), MFLO, MFHI >> : op \in Registered, rd \in {0, 2}}
    \cup {<< I(op, 4, 2, 2, x) >> : op \in Immediates, x \in Half}
    \cup {<< I(op, 0, 5, 2, x) >> : op \in {"SLL", "SRL", "SRA"}, x \in 0 .. WordBits - 1}
    \cup {<< I(op, 4, 0, 0, 2), MFLO, MFHI, MFLO, MFLO >> :
                op \in {"BLEZ", "BGTZ", "BLTZ", "BGEZ", "BLTZAL", "BGEZAL"}}
    \cup {<< I(op, 4, 5, 0, x) >> : op \in Stores, x \in Half}

(* Loads, what follows them, and what reads them. *)
LoadOp(op, rt, x) == I(op, 4, rt, 0, x)
Fill == I("ADDU", 5, 5, 1, 0)
Use == I("ADDU", 2, 2, 1, 0)
Loading ==
    {<< LoadOp(op, 2, x), Fill, Use >> : op \in Loads, x \in Half}
    \cup {<< LoadOp(op, 2, 0), LoadOp(rest, 2, x), Fill, Use >> :
                op \in {"LW", "LWL", "LWR"}, rest \in {"LWL", "LWR"}, x \in {1, HalfSize - 1}}
    \cup {<< LoadOp("LW", 0, 0), Fill, I("ADDU", 0, 5, 2, 0) >>}
    \cup {<< LoadOp("LB", 5, 0), I(op, 4, 0, 31, 1), I("SW", 4, 2, 0, 0), Use, Use >> :
                op \in {"BGTZ", "J", "JAL", "JR", "JALR", "SB", "RES"}}

(* System calls, after a load and alone. *)
Calling ==
    {<< LoadOp("LB", r, 0), I("SYSCALL", 0, 0, 0, 0), Use >> : r \in {0, 2, 5}}

Start == [r \in Registers |-> IF r = 2 THEN SC_Add ELSE 0]
Values(s, t) == [Start EXCEPT ![4] = s, ![5] = t]
Few == {0, 1, 7, 8, 15}

MCMachines == (Single \X {Values(s, t) : s, t \in WordSet})
              \cup (Loading \X {Values(s, t) : s \in WordSet, t \in Few})
              \cup (Calling \X {[Values(s, t) EXCEPT ![2] = c] : s \in WordSet, t \in Few, c \in WordSet})
===============================================================================

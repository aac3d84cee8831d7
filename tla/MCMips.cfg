SPECIFICATION Spec
CONSTANTS
    ByteBits = 1
    Registers = {0, 1, 2, 4, 5, 31}
    MemorySize = 8
    Machines <- MCMachines
    SC_Halt = 0
    SC_Exit = 1
    SC_PrintInt = 2
    SC_Add = 3
PROPERTIES
    ImplementsISA

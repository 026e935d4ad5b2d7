-------------------------- MODULE OpenCoreProgram ---------------------------
(***************************************************************************)
(* The instructions the open core is followed with, and what the           *)
(* instruction set says of their accesses to a byte-addressed memory.      *)
(* A byte has one bit: enough to tell bytes apart and to have a sign.      *)
(***************************************************************************)
EXTENDS Naturals

CONSTANTS
    Length,      \* words of instruction memory; the pc wraps, as address bits 15:2 do
    Words,       \* words of data memory, which wraps in the same way
    Regs,        \* registers, x0 among them
    Programs     \* the programs tried

Byte == {0, 1}
Lane == 0 .. 3
Word == [Lane -> Byte]
Address == 0 .. 4 * Words - 1
Pc == 0 .. Length - 1
Size == {1, 2, 4}

ZeroData == [n \in Lane |-> 0]

\* rs2 is the register stored or tested, target where a branch goes, imm what
\* "li" loads.  "none" is the all-zero word that reset leaves behind.
Instr == [op : {"none", "li", "store", "load", "bne"}, size : Size, signed : BOOLEAN,
          addr : Address, rd : Regs, rs2 : Regs, imm : Word, target : Pc]

ASSUME ProgramAssumption ==
    /\ Length \in Nat \ {0}
    /\ Words \in Nat \ {0}
    /\ 0 \in Regs
    /\ \A p \in Programs :
          /\ p \in [Pc -> Instr]
          /\ \A a \in Pc : p[a].op # "none" /\ p[a].addr % p[a].size = 0

ZeroInstr == [op |-> "none", size |-> 1, signed |-> FALSE, addr |-> 0, rd |-> 0,
              rs2 |-> 0, imm |-> ZeroData, target |-> 0]

Succ(a) == (a + 1) % Length

\* The value of a load: the bytes at addr, filled up with zeros or the sign.
Loaded(bytes, i) ==
    [n \in Lane |-> IF n < i.size THEN bytes[i.addr + n]
                    ELSE IF i.signed THEN bytes[i.addr + i.size - 1] ELSE 0]

\* Memory after a store.
Stored(bytes, i, data) ==
    [a \in Address |-> IF i.op = "store" /\ a \in i.addr .. i.addr + i.size - 1
                       THEN data[a - i.addr] ELSE bytes[a]]
=============================================================================

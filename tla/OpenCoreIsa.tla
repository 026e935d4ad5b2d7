---------------------------- MODULE OpenCoreIsa -----------------------------
(***************************************************************************)
(* What the open core and the memory at its ports promise together: one    *)
(* instruction after the other, each with its whole effect on registers    *)
(* and bytes of memory.                                                    *)
(***************************************************************************)
EXTENDS OpenCoreProgram

VARIABLES
    prog,    \* the program
    pc,      \* address of the next instruction
    regs,    \* the registers
    bytes    \* data memory

vars == <<prog, pc, regs, bytes>>

Init ==
    /\ prog \in Programs
    /\ pc = 0
    /\ regs = [r \in Regs |-> ZeroData]
    /\ bytes = [a \in Address |-> 0]

Step ==
    LET i == prog[pc]
    IN  /\ pc' = IF i.op = "bne" /\ regs[i.rs2] # ZeroData THEN i.target ELSE Succ(pc)
        /\ regs' = IF i.op = "li" /\ i.rd # 0 THEN [regs EXCEPT ![i.rd] = i.imm] ELSE regs
        /\ bytes' = Stored(bytes, i, regs[i.rs2])
        /\ UNCHANGED prog

Spec == Init /\ [][Step]_vars
=============================================================================

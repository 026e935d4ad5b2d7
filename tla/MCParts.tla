------------------------------ MODULE MCParts -------------------------------
(***************************************************************************)
(* Parts of both backends by themselves, one of them in a behaviour, so    *)
(* that the run adds their states up and does not multiply them.           *)
(*                                                                         *)
(* Datapath: four-bit registers, where every pair of values of rs1 and rs2 *)
(* is tried; the immediate and the pc follow them, so that each differs    *)
(* from the other operands.                                                *)
(*                                                                         *)
(* Divider: registers of three bits, where every pair of operands is       *)
(* divided, one pair after another.                                        *)
(*                                                                         *)
(* TLB: two levels, the deeper one the larger and both with fewer ways     *)
(* than there are keys.                                                    *)
(*                                                                         *)
(* Builder: the plugins of MCPipeBuilder.                                  *)
(***************************************************************************)
EXTENDS ChmemDatapath, DividerParity, MultiLevelTlb, MCPipeBuilder, Bitwise

CONSTANT Parts   \* of "datapath", "divider", "tlb" and "builder"

MCPow == [n \in 0 .. XLEN |-> 2^n]
MCPow2 == [n \in 0 .. Width |-> 2^n]
MCAnd(x, y) == x & y
MCOr(x, y) == x | y
MCXor(x, y) == x ^^ y

MCOperands == {[rs1 |-> a, rs2 |-> b, imm |-> (b + 5) % 16, pc |-> (a + 2 * b + 2) % 16] :
               a \in 0 .. 15, b \in 0 .. 15}

TwoLevels == <<1, 3>>

VARIABLE part   \* what is run

dividerVars == <<unit, rtl>>
datapathVars == <<vars, dpVars>>

\* A part that is not run is in one of its initial states.
MCInit ==
    /\ part \in Parts
    /\ DatapathInit
    /\ part # "datapath" => bits = {31} /\ word.opcode = "LUI"
    /\ ParityInit
    /\ Init
    /\ PipeInit

MCNext ==
    /\ UNCHANGED part
    /\ \/ part = "datapath" /\ DatapathNext /\ UNCHANGED <<dividerVars, tlbVars, pipeVars>>
       \/ part = "divider" /\ ParityNext /\ UNCHANGED <<datapathVars, tlbVars, pipeVars>>
       \/ part = "tlb" /\ Next /\ UNCHANGED <<datapathVars, dividerVars, pipeVars>>
       \/ part = "builder" /\ PipeNext /\ UNCHANGED <<datapathVars, dividerVars, tlbVars>>

MCSpec == MCInit /\ [][MCNext]_<<part, datapathVars, dividerVars, tlbVars, pipeVars>>
=============================================================================

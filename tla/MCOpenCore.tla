----------------------------- MODULE MCOpenCore -----------------------------
(***************************************************************************)
(* Values for TLC: programs of five words that load a register, store it,  *)
(* branch on it over a second store, and load, back in a loop.  Every size *)
(* and place of the accesses in one word, and a second word beside it.     *)
(***************************************************************************)
EXTENDS OpenCore

MCRegs == {0, 1}
A == [ZeroInstr EXCEPT !.rs2 = 1, !.rd = 1]
Access(op, s, a, sign) == [A EXCEPT !.op = op, !.size = s, !.addr = a, !.signed = sign]
Places == {<<1, 0>>, <<1, 1>>, <<1, 3>>, <<2, 0>>, <<2, 2>>, <<4, 0>>, <<2, 6>>}
Stores == {Access("store", p[1], p[2], FALSE) : p \in Places}
Loads == {Access("load", p[1], p[2], TRUE) : p \in Places} \cup {Access("load", 1, 3, FALSE)}
Values == {[n \in Lane |-> n % 2], [n \in Lane |-> (n + 1) % 2]}
Sets == {[A EXCEPT !.op = "li", !.imm = v] : v \in Values} \cup
        {[A EXCEPT !.op = "li", !.imm = ZeroData, !.rd = r] : r \in MCRegs}
Jumps == {[A EXCEPT !.op = "bne", !.target = t] : t \in {0, 2, 4}}
Shadows == {Access("store", 1, 1, FALSE)} \cup Jumps

MCPrograms == {[n \in 0 .. 4 |-> CASE n = 0 -> i [] n = 1 -> s1 [] n = 2 -> b
                                   [] n = 3 -> s2 [] n = 4 -> l] :
               i \in Sets, s1 \in Stores, b \in Jumps, s2 \in Shadows, l \in Loads}
=============================================================================

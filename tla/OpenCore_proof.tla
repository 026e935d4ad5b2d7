--------------------------- MODULE OpenCore_proof ---------------------------
(***************************************************************************)
(* Proofs about OpenCore, for every program, memory size, register file    *)
(* and counter width: the core with a request on its port refines the      *)
(* instruction set, and both cores' memories and loads agree.              *)
(***************************************************************************)
EXTENDS OpenCore, TLAPS

-----------------------------------------------------------------------------
\* The inductive invariant

\* Every instruction on its way is one of the program or the reset word, and
\* accesses memory at a multiple of its size.
Legal(i) ==
    /\ i \in Instr
    /\ i.addr % i.size = 0
    /\ i.op = "none" => i = ZeroInstr

\* The published instruction is the one at pcLag; unless a branch was just
\* taken, the pc is already one further.
PublishedInv ==
    /\ Legal(instr)
    /\ instr # ZeroInstr => /\ instr = prog[pcLag]
                            /\ ~flush => pc = Succ(pcLag)

\* The port carries the access of the last instruction.  A store may have been
\* suppressed; a load has nothing to write.
PortInv ==
    /\ Legal(last)
    /\ last.op = "load" \/ req.we => /\ req.addr = last.addr
                                     /\ req.off = last.addr % 4
                                     /\ req.size = last.size
    /\ req.we => last.op = "store"
    /\ last.op = "load" => req.signed = (last.signed /\ last.size # 4)

IInv ==
    /\ TypeOK
    /\ prog \in Programs
    /\ PublishedInv
    /\ PortInv
    /\ SameFinalMemory

-----------------------------------------------------------------------------
\* Words, lanes and bytes

\* An address is a word of memory and a lane in it.
LEMMA AddressParts ==
    \A a \in Address : /\ a \in Nat /\ a % 4 \in Lane
                       /\ a \div 4 \in 0 .. Words - 1
                       /\ a = 4 * (a \div 4) + (a % 4)
                       /\ WordAddr(a) = a \div 4
<1> SUFFICES ASSUME NEW a \in Address
             PROVE  /\ a \in Nat /\ a % 4 \in Lane
                    /\ a \div 4 \in 0 .. Words - 1
                    /\ a = 4 * (a \div 4) + (a % 4)
                    /\ WordAddr(a) = a \div 4
  OBVIOUS
<1>1. Words \in Nat \ {0} /\ a \in Nat /\ a < 4 * Words
  BY ProgramAssumption DEF Address
<1>2. a % 4 \in Lane /\ a = 4 * (a \div 4) + (a % 4) /\ a \div 4 \in Nat
  BY <1>1 DEF Lane
<1>3. a \div 4 < Words
  BY <1>1, <1>2 DEF Lane
<1>4. \A w \in 0 .. Words - 1 : w % Words = w
  BY <1>1
<1> QED BY <1>1, <1>2, <1>3, <1>4 DEF WordAddr

LEMMA ZeroLegal == Legal(ZeroInstr) /\ \A p \in Programs : \A a \in Pc : Legal(p[a]) /\ p[a] # ZeroInstr
<1>1. ZeroInstr \in Instr
  BY ProgramAssumption DEF ZeroInstr, Instr, Size, Address, Word, Byte, ZeroData, Pc
<1> QED BY <1>1, ProgramAssumption DEF Legal, ZeroInstr

\* The lane of an aligned access, as each core computes it, is where its
\* address lies in the word, and the access does not leave the word.
LEMMA LaneIs ==
    ASSUME NEW i \in Instr, i.addr % i.size = 0,
           NEW r, r.size = i.size, r.off = i.addr % 4
    PROVE  /\ i.size = 4 => i.addr % 4 = 0
           /\ (i.addr % 4) + i.size <= 4
           /\ PortLane(r) = i.addr % 4
           /\ PreLane(i) = i.addr % 4
<1>1. i.addr \in Nat /\ i.addr % 4 \in 0 .. 3 /\ i.addr = 4 * (i.addr \div 4) + (i.addr % 4)
      /\ i.addr \div 4 \in Nat
  BY AddressParts DEF Instr, Lane
<1> DEFINE a == i.addr
<1>2. CASE i.size = 1
  BY <1>1, <1>2 DEF PortLane, PreLane
<1>3. CASE i.size = 2
  <2>1. a % 2 = 0
    BY <1>3
  <2>2. a % 4 \in {0, 2}
    BY <1>1, <2>1
  <2>3. ((a % 4) \div 2) * 2 = a % 4
    BY <2>2
  <2> QED BY <1>3, <2>2, <2>3 DEF PortLane, PreLane
<1>4. CASE i.size = 4
  BY <1>4 DEF PortLane, PreLane
<1> QED BY <1>2, <1>3, <1>4 DEF Instr, Size

\* A number is in one way a multiple of four and a rest.
LEMMA OneWay ==
    \A w, l, a \in Nat : a = 4 * w + l /\ l < 4 => a \div 4 = w /\ a % 4 = l
OBVIOUS

\* A byte of the access is in the word of its address, as far from the lane as
\* from the address.
LEMMA AccessBytes ==
    ASSUME NEW i \in Instr, i.addr % i.size = 0
    PROVE  /\ \A n \in 0 .. i.size - 1 :
                  /\ i.addr + n \in Address
                  /\ (i.addr + n) \div 4 = i.addr \div 4
                  /\ (i.addr + n) % 4 = (i.addr % 4) + n
           /\ \A b \in Address :
                  b \in i.addr .. i.addr + i.size - 1
                    <=> /\ b \div 4 = i.addr \div 4
                        /\ b % 4 \in i.addr % 4 .. (i.addr % 4) + i.size - 1
<1> DEFINE a == i.addr
           s == i.size
           w == a \div 4
           l == a % 4
<1>1. a \in Address /\ s \in {1, 2, 4} /\ Words \in Nat \ {0}
  BY ProgramAssumption DEF Instr, Size
<1>2. a \in Nat /\ l \in 0 .. 3 /\ a = 4 * w + l /\ w \in 0 .. Words - 1
  BY <1>1, AddressParts DEF Lane
<1>3. l + s <= 4
  BY LaneIs, [size |-> i.size, off |-> i.addr % 4].size = i.size
<1> HIDE DEF a, s, w, l
<1>4. ASSUME NEW n \in 0 .. s - 1
      PROVE  a + n \in Address /\ (a + n) \div 4 = w /\ (a + n) % 4 = l + n
  <2>1. n \in Nat /\ l + n < 4 /\ a + n = 4 * w + (l + n) /\ l + n \in Nat /\ w \in Nat
        /\ a + n \in Nat
    BY <1>1, <1>2, <1>3
  <2>2. (a + n) \div 4 = w /\ (a + n) % 4 = l + n
    BY <2>1, OneWay
  <2>3. a + n \in Address
    BY <1>1, <1>2, <2>1 DEF Address
  <2> QED BY <2>2, <2>3
<1>5. ASSUME NEW b \in Address
      PROVE  b \in a .. a + s - 1 <=> b \div 4 = w /\ b % 4 \in l .. l + s - 1
  <2> DEFINE v == b \div 4
             k == b % 4
  <2>1. b \in Nat /\ k \in 0 .. 3 /\ b = 4 * v + k /\ v \in Nat
    BY AddressParts DEF Lane
  <2> HIDE DEF v, k
  <2>2. b \in a .. a + s - 1 <=> v = w /\ k \in l .. l + s - 1
    BY <1>1, <1>2, <1>3, <2>1
  <2> QED BY <2>2 DEF v, k
<1> QED BY <1>4, <1>5 DEF a, s, w, l

\* What the port's slave merges into a word is what program order stores byte
\* by byte.
LEMMA StoredBytes ==
    ASSUME NEW m \in Memory, NEW i \in Instr, i.addr % i.size = 0, i.op = "store",
           NEW d \in Word
    PROVE  LET w == WordAddr(i.addr)
           IN  Bytes([m EXCEPT ![w] = Strobed(m[w], i.addr % 4, i.size, d)])
                 = Stored(Bytes(m), i, d)
<1> DEFINE a == i.addr
           s == i.size
           w == WordAddr(a)
           l == a % 4
           q == Strobed(m[w], l, s, d)
<1>1. a \in Address /\ a \in Nat /\ s \in Nat /\ w = a \div 4 /\ w \in 0 .. Words - 1
      /\ l \in Lane /\ l \in Nat /\ a = 4 * w + l
  BY AddressParts DEF Instr, Size, Lane
<1>2. \A n \in Lane : q[n] = IF n \in l .. l + s - 1 THEN d[n - l] ELSE m[w][n]
  BY DEF Strobed
<1>3. \A b \in Address : b \in a .. a + s - 1 <=> b \div 4 = w /\ b % 4 \in l .. l + s - 1
  BY <1>1, AccessBytes
<1>4. \A b \in Address : b \in Nat /\ b % 4 \in Lane /\ b \div 4 \in 0 .. Words - 1
                         /\ b = 4 * (b \div 4) + (b % 4)
  BY AddressParts
<1> HIDE DEF a, s, w, l, q
<1>5. ASSUME NEW b \in Address
      PROVE  [m EXCEPT ![w] = q][b \div 4][b % 4]
               = IF b \in a .. a + s - 1 THEN d[b - a] ELSE m[b \div 4][b % 4]
  <2>1. CASE b \div 4 # w
    <3>1. [m EXCEPT ![w] = q][b \div 4] = m[b \div 4]
      BY <1>4, <2>1 DEF Memory
    <3> QED BY <1>3, <2>1, <3>1
  <2>2. CASE b \div 4 = w
    <3>1. [m EXCEPT ![w] = q][b \div 4] = q
      BY <1>1, <2>2 DEF Memory
    <3>2. q[b % 4] = IF b % 4 \in l .. l + s - 1 THEN d[(b % 4) - l] ELSE m[w][b % 4]
      BY <1>2, <1>4
    <3>3. (b % 4) - l = b - a
      <4> DEFINE k == b % 4
      <4>1. k \in Nat /\ b = 4 * w + k
        BY <1>4, <2>2 DEF Lane
      <4> HIDE DEF k
      <4>2. k - l = b - a
        BY <1>1, <1>4, <4>1
      <4> QED BY <4>2 DEF k
    <3> QED BY <1>3, <2>2, <3>1, <3>2, <3>3
  <2> QED BY <2>1, <2>2
<1>6. Bytes([m EXCEPT ![w] = q])
        = [b \in Address |-> IF b \in a .. a + s - 1 THEN d[b - a] ELSE m[b \div 4][b % 4]]
  BY <1>5 DEF Bytes
<1>7. Stored(Bytes(m), i, d)
        = [b \in Address |-> IF b \in a .. a + s - 1 THEN d[b - a] ELSE m[b \div 4][b % 4]]
  BY DEF Stored, Bytes, a, s
<1>8. Bytes([m EXCEPT ![w] = q]) = Stored(Bytes(m), i, d)
  BY <1>6, <1>7
<1> QED BY <1>8 DEF a, s, w, l, q

\* What is extracted from a word is what program order loads byte by byte.
LEMMA LoadedBytes ==
    ASSUME NEW m \in Memory, NEW i \in Instr, i.addr % i.size = 0
    PROVE  Extracted(m[WordAddr(i.addr)], i.addr % 4, i.size, i.signed)
             = Loaded(Bytes(m), i)
<1> DEFINE a == i.addr
           s == i.size
           w == WordAddr(a)
           l == a % 4
<1>1. a \in Address /\ a \in Nat /\ s \in Nat \ {0} /\ w = a \div 4
  BY AddressParts DEF Instr, Size
<1>2. \A n \in 0 .. s - 1 : Bytes(m)[a + n] = m[w][l + n]
  <2> TAKE n \in 0 .. s - 1
  <2>1. a + n \in Address /\ (a + n) \div 4 = w /\ (a + n) % 4 = l + n
    BY <1>1, AccessBytes
  <2>2. Bytes(m)[a + n] = m[(a + n) \div 4][(a + n) % 4]
    BY <2>1 DEF Bytes
  <2> QED BY <2>1, <2>2
<1> HIDE DEF a, s, w, l
<1>3. Bytes(m)[a + s - 1] = m[w][l + s - 1]
  <2>1. s - 1 \in 0 .. s - 1 /\ a + (s - 1) = a + s - 1
    BY <1>1
  <2>2. l \in Nat
    BY <1>1, AddressParts DEF l, Lane, a
  <2>3. l + (s - 1) = l + s - 1
    BY <1>1, <2>2
  <2> QED BY <1>2, <2>1, <2>3
<1>4. \A n \in Lane : n < s => Bytes(m)[a + n] = m[w][l + n]
  BY <1>1, <1>2 DEF Lane
<1>5. Extracted(m[w], l, s, i.signed)
        = [n \in Lane |-> IF n < s THEN Bytes(m)[a + n]
                          ELSE IF i.signed THEN Bytes(m)[a + s - 1] ELSE 0]
  BY <1>3, <1>4 DEF Extracted
<1>6. Loaded(Bytes(m), i)
        = [n \in Lane |-> IF n < s THEN Bytes(m)[a + n]
                          ELSE IF i.signed THEN Bytes(m)[a + s - 1] ELSE 0]
  BY DEF Loaded, a, s
<1>7. Extracted(m[w], l, s, i.signed) = Loaded(Bytes(m), i)
  BY <1>5, <1>6
<1> QED BY <1>7 DEF a, s, w, l

\* An access of a word is the word itself.
LEMMA WholeWord ==
    ASSUME NEW word \in Word, NEW signed
    PROVE  Extracted(word, 0, 4, signed) = word
BY DEF Extracted, Word, Lane

\* A merged word is a word.
LEMMA StrobedType ==
    ASSUME NEW old \in Word, NEW d \in Word, NEW l \in Nat, NEW s \in Nat, l + s <= 4
    PROVE  Strobed(old, l, s, d) \in Word
BY DEF Strobed, Word, Lane

-----------------------------------------------------------------------------
\* Types

LEMMA InitialTypes == Init => TypeOK
<1> SUFFICES ASSUME Init PROVE TypeOK
  OBVIOUS
<1>1. ZeroInstr \in Instr /\ prog \in [Pc -> Instr] /\ 0 \in Pc
  BY ZeroLegal, ProgramAssumption DEF Legal, Init, Pc
<1>2. ZeroData \in Word
  BY DEF ZeroData, Word, Byte
<1>3. NoRequest \in Request_
  <2>1. 0 \in Address /\ 0 \in Lane
    BY ProgramAssumption DEF Address, Lane
  <2> HIDE DEF ZeroData
  <2> QED BY <1>2, <2>1 DEF NoRequest, Request_
<1>4. NoSig \in Sig
  <2>1. 0 \in 0 .. CountBound - 1 /\ 0 \in 0 .. Words - 1
    BY ProgramAssumption, CountAssumption
  <2> HIDE DEF ZeroData
  <2> QED BY <1>2, <2>1 DEF NoSig, Sig
<1>5. [w \in 0 .. Words - 1 |-> ZeroData] \in Memory
  BY <1>2 DEF Memory
<1>6. [r \in Regs |-> ZeroData] \in [Regs -> Word]
  BY <1>2
<1> HIDE DEF ZeroData, ZeroInstr, NoRequest, NoSig
<1> QED BY <1>1, <1>3, <1>4, <1>5, <1>6 DEF Init, TypeOK

\* The request registers take an access of the published instruction.
LEMMA RequestType ==
    ASSUME TypeOK
    PROVE  Request \in Request_
<1>1. instr.addr \in Address /\ instr.rs2 \in Regs /\ instr.size \in Size
      /\ instr.signed \in BOOLEAN
  BY DEF TypeOK, Instr
<1>2. instr.addr % 4 \in Lane /\ regs[instr.rs2] \in Word
  BY <1>1, AddressParts DEF TypeOK
<1>3. AccessSize \in Size
  BY <1>1 DEF AccessSize, Size
<1> QED BY <1>1, <1>2, <1>3 DEF Request, Request_

\* Folding a word into a signature gives a signature.
LEMMA FoldedType ==
    ASSUME NEW s \in Sig, NEW w \in 0 .. Words - 1, NEW d \in Word
    PROVE  Folded(s, w, d) \in Sig
<1>1. s.updates \in Nat
  BY CountAssumption DEF Sig
<1>2. (s.updates + 1) % CountBound \in 0 .. CountBound - 1
  BY <1>1, CountAssumption
<1> QED BY <1>2 DEF Folded, Sig

\* The store on the port, in the words of the instruction that sent it: what
\* the slave writes and folds, and that it is a word.
LEMMA PortStore ==
    ASSUME TypeOK, PortInv, req.we
    PROVE  LET w == WordAddr(last.addr)
               q == Strobed(mem[w], last.addr % 4, last.size, req.data)
           IN  /\ MemoryAfterRequest = [mem EXCEPT ![w] = q]
               /\ SigAfterRequest = Folded(sig, w, q)
               /\ w \in 0 .. Words - 1
               /\ q \in Word
<1> DEFINE w == WordAddr(last.addr)
           q == Strobed(mem[w], last.addr % 4, last.size, req.data)
<1>1. last \in Instr /\ last.addr % last.size = 0 /\ req.addr = last.addr
      /\ req.size = last.size /\ req.off = last.addr % 4
  BY DEF PortInv, Legal
<1>2. PortLane(req) = last.addr % 4 /\ (last.addr % 4) + last.size <= 4
  BY <1>1, LaneIs
<1>3. Merged = q
  BY <1>1, <1>2 DEF Merged
<1>4. last.addr \in Address /\ last.size \in Nat
  BY <1>1 DEF Instr, Size
<1>5. w \in 0 .. Words - 1 /\ last.addr % 4 \in Nat
  BY <1>4, AddressParts DEF Lane
<1>6. q \in Word
  <2>1. mem[w] \in Word /\ req.data \in Word
    BY <1>5 DEF TypeOK, Memory, Request_
  <2> QED BY <1>2, <1>4, <1>5, <2>1, StrobedType
<1>7. MemoryAfterRequest = [mem EXCEPT ![w] = q] /\ SigAfterRequest = Folded(sig, w, q)
  BY <1>1, <1>3 DEF MemoryAfterRequest, SigAfterRequest
<1> QED BY <1>5, <1>6, <1>7

\* What the slave holds after the request on the port is well typed.
LEMMA SlaveTypes ==
    ASSUME TypeOK, PortInv
    PROVE  MemoryAfterRequest \in Memory /\ SigAfterRequest \in Sig
<1>1. CASE ~req.we
  BY <1>1 DEF MemoryAfterRequest, SigAfterRequest, TypeOK
<1>2. CASE req.we
  <2> DEFINE w == WordAddr(last.addr)
             q == Strobed(mem[w], last.addr % 4, last.size, req.data)
  <2>1. /\ MemoryAfterRequest = [mem EXCEPT ![w] = q]
        /\ SigAfterRequest = Folded(sig, w, q)
        /\ w \in 0 .. Words - 1 /\ q \in Word
    BY <1>2, PortStore
  <2> HIDE DEF w, q
  <2>2. mem \in Memory /\ sig \in Sig
    BY DEF TypeOK
  <2>3. [mem EXCEPT ![w] = q] \in Memory
    BY <2>1, <2>2 DEF Memory
  <2> QED BY <2>1, <2>2, <2>3, FoldedType
<1> QED BY <1>1, <1>2 DEF TypeOK, Request_

\* The closed core's store of the published instruction.
LEMMA PreloadedTypes ==
    ASSUME TypeOK, Legal(instr), PreloadedStore
    PROVE  preMem' \in Memory /\ preSig' \in Sig
<1> DEFINE w == WordAddr(instr.addr)
<1>1. instr.addr \in Address /\ instr.size \in Nat /\ instr.rs2 \in Regs /\ instr \in Instr
  BY DEF TypeOK, Instr, Size
<1>2. PreLane(instr) = instr.addr % 4 /\ (instr.addr % 4) + instr.size <= 4
  <2> DEFINE r == [size |-> instr.size, off |-> instr.addr % 4]
  <2>1. r.size = instr.size /\ r.off = instr.addr % 4
    OBVIOUS
  <2> QED BY <1>1, <2>1, LaneIs DEF Legal
<1>3. w \in 0 .. Words - 1 /\ instr.addr % 4 \in Nat
  BY <1>1, AddressParts DEF Lane
<1>4. PreMerged \in Word
  BY <1>1, <1>2, <1>3, StrobedType DEF PreMerged, PreWord, TypeOK, Memory
<1>5. [preMem EXCEPT ![w] = PreMerged] \in Memory /\ preMem \in Memory /\ preSig \in Sig
  BY <1>3, <1>4 DEF TypeOK, Memory
<1>6. Folded(preSig, w, PreMerged) \in Sig
  BY <1>3, <1>4, <1>5, FoldedType
<1> QED BY <1>5, <1>6 DEF PreloadedStore

LEMMA NextTypes == TypeOK /\ Legal(instr) /\ PortInv /\ [Next]_vars => TypeOK'
<1> SUFFICES ASSUME TypeOK, Legal(instr), PortInv, [Next]_vars PROVE TypeOK'
  OBVIOUS
<1>1. CASE Cycle
  <2>1. prog' \in [Pc -> Instr] /\ instr' \in Instr /\ pcLag' \in Pc /\ last' \in Instr
    BY <1>1 DEF Cycle, Fetch, TypeOK
  <2>2. flush' \in BOOLEAN
    BY <1>1 DEF Cycle, UpdatePc, Taken
  <2>3. pc' \in Pc
    <3>1. Succ(pc) \in Pc
      BY ProgramAssumption DEF TypeOK, Succ, Pc
    <3> QED BY <1>1, <3>1 DEF Cycle, UpdatePc, TypeOK, Instr
  <2>4. regs' \in [Regs -> Word]
    BY <1>1 DEF Cycle, WriteRegs, TypeOK, Instr
  <2>5. req' \in Request_
    BY <1>1, RequestType DEF Cycle
  <2>6. mem' \in Memory /\ sig' \in Sig
    BY <1>1, SlaveTypes DEF Cycle, SlaveWrite
  <2>7. preMem' \in Memory /\ preSig' \in Sig
    BY <1>1, PreloadedTypes DEF Cycle
  <2> QED BY <2>1, <2>2, <2>3, <2>4, <2>5, <2>6, <2>7 DEF TypeOK
<1>2. CASE UNCHANGED vars
  BY <1>2 DEF TypeOK, vars, coreVars
<1> QED BY <1>1, <1>2 DEF Next

-----------------------------------------------------------------------------
\* The invariant holds

LEMMA InitialInv == Init => IInv
<1> SUFFICES ASSUME Init PROVE IInv
  OBVIOUS
<1>1. TypeOK /\ Legal(ZeroInstr)
  BY InitialTypes, ZeroLegal
<1>2. PublishedInv /\ PortInv
  BY <1>1 DEF Init, PublishedInv, PortInv, NoRequest, ZeroInstr
<1>3. SameFinalMemory
  BY DEF Init, SameFinalMemory, MemoryAfterRequest, SigAfterRequest, NoRequest
<1> QED BY <1>1, <1>2, <1>3 DEF Init, IInv

\* The stored word, its address and its signature are the same whether the
\* closed core stores it now or the port sends it first.
LEMMA SameStores == IInv /\ Cycle => SameFinalMemory'
<1> SUFFICES ASSUME IInv, Cycle PROVE SameFinalMemory'
  OBVIOUS
<1>1. mem' = preMem /\ sig' = preSig /\ req' = Request
  BY DEF IInv, SameFinalMemory, Cycle, SlaveWrite
<1>2. req'.we = StoreActive
  BY <1>1 DEF Request, StoreActive
<1>3. CASE ~StoreActive
  BY <1>1, <1>2, <1>3
     DEF Cycle, PreloadedStore, SameFinalMemory, MemoryAfterRequest, SigAfterRequest
<1>4. CASE StoreActive
  <2>1. instr \in Instr /\ instr.addr % instr.size = 0 /\ instr.op = "store"
    BY <1>4 DEF IInv, PublishedInv, Legal, StoreActive
  <2>2. /\ req'.addr = instr.addr /\ req'.size = instr.size /\ req'.off = instr.addr % 4
        /\ req'.data = regs[instr.rs2]
    BY <1>1, <2>1 DEF Request, AccessSize
  <2>3. PortLane(req') = PreLane(instr)
    BY <2>1, <2>2, LaneIs
  <2>4. Merged' = PreMerged
    BY <1>1, <2>2, <2>3 DEF Merged, PreMerged, PreWord, WordAddr
  <2>5. WordAddr(req'.addr) = WordAddr(instr.addr)
    BY <2>2
  <2> QED BY <1>1, <1>2, <1>4, <2>4, <2>5
     DEF Cycle, PreloadedStore, SameFinalMemory, MemoryAfterRequest, SigAfterRequest, WordAddr
<1> QED BY <1>3, <1>4

LEMMA NextInv == IInv /\ [Next]_vars => IInv'
<1> SUFFICES ASSUME IInv, [Next]_vars PROVE IInv'
  OBVIOUS
<1>1. TypeOK' /\ prog' \in Programs
  BY NextTypes DEF IInv, PublishedInv, Next, Cycle, vars
<1>2. CASE Cycle
  <2>1. instr' = prog[pc] /\ pcLag' = pc /\ prog' = prog /\ Legal(instr') /\ instr' # ZeroInstr
    BY <1>2, ZeroLegal DEF IInv, TypeOK, Cycle, Fetch
  <2>2. PublishedInv'
    BY <1>2, <2>1 DEF PublishedInv, Legal, Cycle, UpdatePc
  <2>3. PortInv'
    <3>1. last' = instr /\ req' = Request /\ Legal(instr)
      BY <1>2 DEF Cycle, IInv, PublishedInv
    <3>2. instr.signed \in BOOLEAN
      BY DEF IInv, TypeOK, Instr
    <3> QED BY <3>1, <3>2 DEF PortInv, Legal, Request, AccessSize
  <2> QED BY <1>1, <1>2, <2>2, <2>3, SameStores DEF IInv
<1>3. CASE UNCHANGED vars
  BY <1>1, <1>3
     DEF vars, coreVars, IInv, PublishedInv, Legal, PortInv, SameFinalMemory,
         MemoryAfterRequest, SigAfterRequest, Merged
<1> QED BY <1>2, <1>3 DEF Next

\* What the core's registers, ports and memories hold in every state.
THEOREM Invariance == Spec => []IInv
<1> QED BY InitialInv, NextInv, PTL DEF Spec

-----------------------------------------------------------------------------
\* Memory and loads

\* Both cores end with the same words of memory and the same signature over the
\* same count of stores (ADR-091 H-3).
THEOREM MemoriesAgree == Spec => []SameFinalMemory
<1>1. IInv => SameFinalMemory
  BY DEF IInv
<1> QED BY <1>1, Invariance, PTL

\* A load on the port finds what program order has at its address, and the
\* closed core's load of the same instruction too.
LEMMA LoadStep == IInv => LoadsInOrder
<1> SUFFICES ASSUME IInv, last.op = "load"
             PROVE  PortLoad = Loaded(IsaBytes, last) /\ PreLoad(last) = PortLoad
  BY DEF LoadsInOrder
<1>1. /\ last \in Instr /\ last.addr % last.size = 0 /\ req.addr = last.addr
      /\ req.size = last.size /\ req.off = last.addr % 4
      /\ req.signed = (last.signed /\ last.size # 4)
      /\ req.we = FALSE
  BY DEF IInv, TypeOK, Request_, PortInv, Legal
<1> DEFINE w == WordAddr(last.addr)
           word == mem[w]
           l == last.addr % 4
<1>2. mem \in Memory /\ preMem = mem /\ IsaBytes = Bytes(mem)
  BY <1>1 DEF IInv, TypeOK, SameFinalMemory, MemoryAfterRequest, IsaBytes
<1>3. word \in Word
  <2>1. last.addr \in Address
    BY <1>1 DEF Instr
  <2>2. w \in 0 .. Words - 1
    BY <2>1, AddressParts
  <2> QED BY <1>2, <2>2 DEF Memory
<1>4. /\ PortLane(req) = l /\ PreLane(last) = l
      /\ last.size = 4 => l = 0
  BY <1>1, LaneIs
<1>5. Extracted(word, l, last.size, last.signed) = Loaded(IsaBytes, last)
  BY <1>1, <1>2, LoadedBytes
<1>6. PreLoad(last) = Extracted(word, l, last.size, last.signed)
  BY <1>2, <1>4 DEF PreLoad, PreWord
<1>7. PortLoad = Extracted(word, l, last.size, last.signed)
  <2>1. CASE last.size = 4
    <3>1. PortLoad = word
      BY <1>1, <2>1 DEF PortLoad
    <3>2. Extracted(word, l, last.size, last.signed) = word
      BY <1>3, <1>4, <2>1, WholeWord
    <3> QED BY <3>1, <3>2
  <2>2. CASE last.size # 4
    <3>1. req.signed = last.signed
      BY <1>1, <2>2 DEF Instr
    <3> QED BY <1>1, <1>4, <2>2, <3>1 DEF PortLoad
  <2> QED BY <2>1, <2>2
<1> QED BY <1>5, <1>6, <1>7

\* In every state a load's answer is that of program order, stores still on
\* the port included, in both cores (dmem_port_chmem.h:62-64).
THEOREM LoadOrder == Spec => []LoadsInOrder
<1> QED BY Invariance, LoadStep, PTL

-----------------------------------------------------------------------------
\* The refinement

\* The instruction set's operators are those of the core.
LEMMA SameOperators ==
    /\ Arch!ZeroData = ZeroData /\ Arch!Address = Address
    /\ \A a : Arch!Succ(a) = Succ(a)
    /\ \A b, i, d : Arch!Stored(b, i, d) = Stored(b, i, d)
BY DEF ZeroData, Arch!ZeroData, Lane, Arch!Lane, Address, Arch!Address, Succ, Arch!Succ,
       Stored, Arch!Stored

LEMMA InitialRefines == Init => Arch!Init
<1> SUFFICES ASSUME Init PROVE Arch!Init
  OBVIOUS
<1>1. IsaPc = 0
  BY DEF Init, IsaPc, Bubble
<1>2. IsaBytes = [a \in Address |-> 0]
  <2>1. MemoryAfterRequest = [w \in 0 .. Words - 1 |-> ZeroData]
    BY DEF Init, MemoryAfterRequest, NoRequest
  <2>2. \A a \in Address : MemoryAfterRequest[a \div 4][a % 4] = 0
    BY <2>1, AddressParts DEF ZeroData
  <2> QED BY <2>2 DEF IsaBytes, Bytes
<1> QED BY <1>1, <1>2, SameOperators DEF Init, Arch!Init

\* A clock edge that takes an instruction out of a bubble changes nothing the
\* instruction set shows.
LEMMA BubbleStutters ==
    ASSUME IInv, Cycle, Bubble
    PROVE  UNCHANGED <<prog, IsaPc, regs, IsaBytes>>
<1>1. prog' = prog /\ instr' = prog[pc] /\ pcLag' = pc /\ instr' # ZeroInstr
  BY ZeroLegal DEF IInv, TypeOK, Cycle, Fetch
<1>2. flush' = FALSE /\ ~WeMasked /\ ~Request.we
  <2>1. flush \/ instr.op = "none"
    BY DEF Bubble, ZeroInstr
  <2> QED BY <2>1 DEF Cycle, UpdatePc, Taken, WeMasked, RdWe, Request
<1>3. IsaPc' = IsaPc
  BY <1>1, <1>2 DEF IsaPc, Bubble
<1>4. regs' = regs
  BY <1>2 DEF IInv, TypeOK, Cycle, WriteRegs
<1>5. IsaBytes' = IsaBytes
  <2>1. mem' = MemoryAfterRequest /\ ~req'.we
    BY <1>2 DEF Cycle, SlaveWrite
  <2>2. MemoryAfterRequest' = MemoryAfterRequest
    BY <2>1 DEF MemoryAfterRequest
  <2> QED BY <2>2 DEF IsaBytes, Bytes
<1> QED BY <1>1, <1>3, <1>4, <1>5

\* Any other clock edge is the published instruction's whole effect.
LEMMA CycleExecutes ==
    ASSUME IInv, Cycle, ~Bubble
    PROVE  Arch!Step
<1>1. /\ prog' = prog /\ instr' = prog[pc] /\ pcLag' = pc /\ instr' # ZeroInstr
      /\ instr = prog[pcLag] /\ ~flush /\ pc = Succ(pcLag) /\ IsaPc = pcLag
      /\ instr \in Instr /\ instr.addr % instr.size = 0
  BY ZeroLegal DEF IInv, TypeOK, Cycle, Fetch, Bubble, PublishedInv, Legal, IsaPc
<1>2. IsaPc' = IF instr.op = "bne" /\ regs[instr.rs2] # ZeroData THEN instr.target
               ELSE Succ(pcLag)
  BY <1>1 DEF Cycle, UpdatePc, Taken, IsaPc, Bubble
<1>3. regs' = IF instr.op = "li" /\ instr.rd # 0 THEN [regs EXCEPT ![instr.rd] = instr.imm]
              ELSE regs
  BY <1>1 DEF IInv, TypeOK, Cycle, WriteRegs, WeMasked, RdWe
<1>4. IsaBytes' = Stored(IsaBytes, instr, regs[instr.rs2])
  <2>1. mem' = MemoryAfterRequest /\ mem' \in Memory
    BY SlaveTypes DEF Cycle, SlaveWrite, IInv
  <2>2. req' = Request /\ req'.we = (instr.op = "store")
    BY <1>1 DEF Cycle, Request
  <2>3. IsaBytes = Bytes(mem')
    BY <2>1 DEF IsaBytes
  <2>4. CASE instr.op # "store"
    <3>1. IsaBytes' = Bytes(mem')
      BY <2>2, <2>4 DEF IsaBytes, MemoryAfterRequest, Bytes
    <3>2. Stored(IsaBytes, instr, regs[instr.rs2]) = IsaBytes
      BY <2>4 DEF Stored, IsaBytes, Bytes
    <3> QED BY <2>3, <3>1, <3>2
  <2>5. CASE instr.op = "store"
    <3> DEFINE w == WordAddr(instr.addr)
               q == Strobed(mem'[w], instr.addr % 4, instr.size, regs[instr.rs2])
    <3>1. TypeOK' /\ PortInv' /\ last' = instr /\ req'.data = regs[instr.rs2]
      BY <2>2, NextInv DEF IInv, Next, Cycle, Request
    <3>2. MemoryAfterRequest' = [mem' EXCEPT ![w] = q]
      <4>1. /\ req'.addr = instr.addr /\ req'.size = instr.size
            /\ req'.off = instr.addr % 4
        BY <2>2, <2>5 DEF Request, AccessSize
      <4>2. PortLane(req') = instr.addr % 4
        BY <1>1, <4>1, LaneIs
      <4>3. Merged' = q
        BY <3>1, <4>1, <4>2 DEF Merged, WordAddr
      <4> QED BY <2>2, <2>5, <4>1, <4>3 DEF MemoryAfterRequest, WordAddr
    <3>3. regs[instr.rs2] \in Word
      BY <1>1 DEF IInv, TypeOK, Instr
    <3>4. Bytes([mem' EXCEPT ![w] = q]) = Stored(Bytes(mem'), instr, regs[instr.rs2])
      BY <1>1, <2>1, <2>5, <3>3, StoredBytes
    <3>5. IsaBytes' = Bytes([mem' EXCEPT ![w] = q])
      BY <3>2 DEF IsaBytes, Bytes
    <3> QED BY <2>3, <3>4, <3>5
  <2> QED BY <2>4, <2>5
<1> QED BY <1>1, <1>2, <1>3, <1>4, SameOperators DEF Arch!Step

LEMMA NextRefines == IInv /\ [Next]_vars => [Arch!Step]_(Arch!vars)
<1> SUFFICES ASSUME IInv, [Next]_vars PROVE Arch!Step \/ UNCHANGED <<prog, IsaPc, regs, IsaBytes>>
  BY DEF Arch!vars
<1>1. CASE Cycle
  BY <1>1, BubbleStutters, CycleExecutes
<1>2. CASE UNCHANGED vars
  BY <1>2 DEF vars, coreVars, IsaPc, Bubble, IsaBytes, Bytes, MemoryAfterRequest, Merged
<1> QED BY <1>1, <1>2 DEF Next

\* The open core with the memory at its ports implements the instruction set:
\* the request on the port counts as done, and the word fetched in the shadow
\* of a taken branch leaves no trace.
THEOREM Refinement == Spec => ExecutesProgram
<1> QED BY InitialRefines, NextRefines, Invariance, PTL DEF Spec, ExecutesProgram, Arch!Spec
=============================================================================

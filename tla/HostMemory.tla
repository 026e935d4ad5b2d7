----------------------------- MODULE HostMemory -----------------------------
(***************************************************************************)
(* How a program gets into memory and how a run of it ends:                *)
(* tools/cpu_sim reads an ELF file, places a window of host memory over    *)
(* the address space, copies the file's sections into it and runs the      *)
(* processor until a non-zero byte is stored at the address called tohost  *)
(* (ip/cpu/picolibc_host_memory.h).  The processor is its memory stage:    *)
(* at most one store a run.  The CH_MEM factory loads the segments of the  *)
(* same file into two memories of words instead.                           *)
(*                                                                         *)
(* A file is what its headers say: whether they can be read, the entry,    *)
(* the PROGBITS sections and the segments.  Addresses are below            *)
(* AddressSpace (2^32 in the code), and the window holds Window bytes      *)
(* (64 KiB), which divides it.                                             *)
(***************************************************************************)
EXTENDS Integers, Sequences, SequencesExt

CONSTANTS Window, AddressSpace,
          Files,        \* the files that may be given
          Options,      \* [base, tohost]: each an address given, or none
          Stores,       \* [addr, bytes]: what the program may store
          Cycles,       \* --cycles
          ChBase,       \* where the CH_MEM memories begin (0x80000000)
          ChWords       \* the words of a CH_MEM memory

ASSUME HostAssumption ==
    /\ {Window, AddressSpace, Cycles, ChWords} \subseteq Nat \ {0}
    /\ AddressSpace % Window = 0 /\ Window % 4 = 0
    /\ ChBase \in Nat /\ ChBase % 4 = 0
    /\ \A s \in Stores : s.addr \in 0 .. AddressSpace - 1 /\ Len(s.bytes) \in {1, 2, 4}
    /\ \A o \in Options : o.base \cup o.tohost \subseteq 0 .. AddressSpace - 1
    /\ \A f \in Files :
        /\ f.entry \in 0 .. AddressSpace - 1
        /\ f.sections \in Seq(ToSet(f.sections))
        /\ \A s \in ToSet(f.sections) :
            s.addr \in 0 .. AddressSpace - 1 /\ Len(s.bytes) \in Nat

VARIABLES phase,    \* "load", "run", "done" or "failed"
          file,     \* the file given, in a set that is empty without --elf
          option,   \* --base-addr and --tohost-addr
          base, tohostAddr, mem, tohost, exitCode,  \* PicolibcHostMemory
          cycle,    \* runs made so far
          image,    \* what the accepted file puts where, in any window
          flat,     \* image and every store since: memory without a window
          lost      \* the addresses of writes that reach over the window's edge

hostVars == <<phase, file, option, base, tohostAddr, mem, tohost, exitCode,
              cycle, image, flat, lost>>

Addresses == 0 .. AddressSpace - 1
-----------------------------------------------------------------------------
(* The memory and its window *)

InWindow(b, a) == a >= b /\ a - b < Window

\* The code tests the first and the last byte of an access.
Inside(b, a, n) == InWindow(b, a) /\ InWindow(b, a + n - 1)

\* The n bytes from a on: does address x hold one of them?
Covers(a, n, x) == x >= a /\ x < a + n

Put(b, m, a, bytes) ==
    IF Inside(b, a, Len(bytes))
    THEN [o \in 0 .. Window - 1 |->
            IF Covers(a, Len(bytes), b + o) THEN bytes[b + o - a + 1] ELSE m[o]]
    ELSE m

\* A word, half-word or byte, the lowest byte first; zero outside.
Get(b, m, a, n) ==
    [i \in 1 .. n |-> IF Inside(b, a, n) THEN m[a - b + i - 1] ELSE 0]

\* A defect: only the byte at the address of the store is compared.
ToHostFirstByte(b, a, bytes, t) ==
    IF Inside(b, a, Len(bytes)) /\ a = t THEN {bytes[1]} \ {0} ELSE {}

\* check_tohost, for every byte of a store: the non-zero byte for tohost.
ToHostBytes(b, a, bytes, t) ==
    IF Inside(b, a, Len(bytes)) /\ Covers(a, Len(bytes), t)
    THEN {bytes[t - a + 1]} \ {0} ELSE {}

ExitCode(val) == IF val = 1 THEN 0 ELSE 1
-----------------------------------------------------------------------------
(* Reading the file *)

\* The sections to load, by their place in the file.
Allocated(f) == {i \in DOMAIN f.sections : f.sections[i].alloc}

\* The end is computed in 32 bits: a section that ends with the address
\* space ends at 0.
End(s) == (s.addr + Len(s.bytes)) % AddressSpace

Overlap(s, r) == ~(End(s) <= r.addr \/ s.addr >= End(r))

Accepted(f) ==
    /\ f.readable
    /\ Allocated(f) # {}
    /\ \A i, j \in Allocated(f) : i < j => ~Overlap(f.sections[j], f.sections[i])

ToHostSections(f) == {i \in DOMAIN f.sections : f.sections[i].name = ".tohost"}

Offset(a) == a % Window

\* --base-addr, or the entry rounded down to the size of the window, or,
\* when that is zero, the entry itself.
WindowBase(f, o) ==
    LET rounded == f.entry - Offset(f.entry) IN
    IF o.base # {} THEN CHOOSE a \in o.base : TRUE
    ELSE IF rounded = 0 THEN f.entry ELSE rounded

\* The address of the last section called .tohost, allocated or not.
ToHostAddress(f, o) ==
    IF o.tohost # {} THEN CHOOSE a \in o.tohost : TRUE
    ELSE IF ToHostSections(f) # {} THEN f.sections[Max(ToHostSections(f))].addr ELSE 0

\* A section outside the window, or partly outside, is not copied.
Copied(f, b) ==
    {i \in Allocated(f) : Inside(b, f.sections[i].addr, Len(f.sections[i].bytes))}

\* Sections are copied in turn, each over the ones before it.
ByteAt(f, copied, x) ==
    LET over == {i \in copied : Covers(f.sections[i].addr, Len(f.sections[i].bytes), x)}
        s == f.sections[Max(over)]
    IN IF over = {} THEN 0 ELSE s.bytes[x - s.addr + 1]

\* A defect: a section is copied to its distance from the entry.
LoadedFromEntry(f, b) ==
    [o \in 0 .. Window - 1 |-> ByteAt(f, Copied(f, f.entry), f.entry + o)]

Loaded(f, b) == [o \in 0 .. Window - 1 |-> ByteAt(f, Copied(f, b), b + o)]

Image(f) == [x \in Addresses |-> ByteAt(f, Allocated(f), x)]

Over(m, a, bytes) ==
    [x \in Addresses |-> IF Covers(a, Len(bytes), x) THEN bytes[x - a + 1] ELSE m[x]]

Lost(b, a, bytes) ==
    IF Inside(b, a, Len(bytes)) THEN {}
    ELSE {x \in Addresses : InWindow(b, x) /\ Covers(a, Len(bytes), x)}
-----------------------------------------------------------------------------
(* The CH_MEM factory's loader *)

Words(seg) ==
    [k \in 0 .. (Len(seg.bytes) \div 4) - 1 |-> SubSeq(seg.bytes, 4 * k + 1, 4 * k + 4)]

\* A defect: the address is not turned into a distance.
FirstWordAbsolute(seg) == seg.vaddr \div 4

FirstWord(seg) == (seg.vaddr - ChBase) \div 4

\* Segments below the base are left out, and words beyond the memory are
\* dropped one by one.
Holds(seg, k) ==
    seg.load /\ seg.vaddr >= ChBase /\ k - FirstWord(seg) \in DOMAIN Words(seg)

Instructions(seg) == "X" \in seg.flags /\ "W" \notin seg.flags
Data(seg) == "W" \in seg.flags

\* The segments of one kind, each over the ones before it.
Preload(f, chosen) ==
    [k \in 0 .. ChWords - 1 |->
        LET over == {i \in chosen : Holds(f.segments[i], k)}
            seg == f.segments[Max(over)]
        IN IF over = {} THEN <<0, 0, 0, 0>> ELSE Words(seg)[k - FirstWord(seg)]]

Imem(f) == Preload(f, {i \in DOMAIN f.segments : Instructions(f.segments[i])})
Dmem(f) == Preload(f, {i \in DOMAIN f.segments : Data(f.segments[i])})
-----------------------------------------------------------------------------
(* cpu_sim *)

HostInit ==
    /\ phase = "load"
    /\ file \in {{}} \cup {{f} : f \in Files}
    /\ option \in Options
    /\ base = 0 /\ tohostAddr = 0
    /\ mem = [o \in 0 .. Window - 1 |-> 0]
    /\ tohost = 0 /\ exitCode = 0 /\ cycle = 0
    /\ image = [x \in Addresses |-> 0] /\ flat = image
    /\ lost = {}

\* Without --elf the processor has no memory and executes NOPs.
StartBare ==
    /\ phase = "load" /\ file = {}
    /\ phase' = "run"
    /\ UNCHANGED <<file, option, base, tohostAddr, mem, tohost, exitCode,
                   cycle, image, flat, lost>>

RefuseFile ==
    /\ phase = "load"
    /\ \E f \in file : ~Accepted(f)
    /\ phase' = "failed"
    /\ UNCHANGED <<file, option, base, tohostAddr, mem, tohost, exitCode,
                   cycle, image, flat, lost>>

LoadFile ==
    /\ phase = "load"
    /\ \E f \in file :
        /\ Accepted(f)
        /\ base' = WindowBase(f, option)
        /\ tohostAddr' = ToHostAddress(f, option)
        /\ mem' = Loaded(f, base')
        /\ image' = Image(f)
        /\ flat' = image'
        /\ lost' = UNION {Lost(base', f.sections[i].addr, f.sections[i].bytes) :
                             i \in Allocated(f)}
    /\ phase' = "run"
    /\ UNCHANGED <<file, option, tohost, exitCode, cycle>>

\* The loop ends with the cycles asked for, or after the run that exits.
AfterRun(exited) ==
    /\ cycle' = cycle + 1
    /\ phase' = IF exited \/ cycle' = Cycles THEN "done" ELSE "run"
    /\ UNCHANGED <<file, option, base, tohostAddr, image>>

RunWithoutStore ==
    /\ phase = "run"
    /\ AfterRun(FALSE)
    /\ UNCHANGED <<mem, tohost, exitCode, flat, lost>>

RunStore ==
    /\ phase = "run" /\ file # {}
    /\ \E s \in Stores :
        LET hits == ToHostBytes(base, s.addr, s.bytes, tohostAddr) IN
        /\ mem' = Put(base, mem, s.addr, s.bytes)
        /\ tohost' = IF hits = {} THEN tohost ELSE CHOOSE v \in hits : TRUE
        /\ exitCode' = IF hits = {} THEN exitCode ELSE ExitCode(tohost')
        /\ flat' = Over(flat, s.addr, s.bytes)
        /\ lost' = (lost \ {x \in Addresses : Inside(base, s.addr, Len(s.bytes))
                                                /\ Covers(s.addr, Len(s.bytes), x)})
                      \cup Lost(base, s.addr, s.bytes)
        /\ AfterRun(tohost' # 0)

HostNext == StartBare \/ RefuseFile \/ LoadFile \/ RunWithoutStore \/ RunStore

HostSpec == HostInit /\ [][HostNext]_hostVars
-----------------------------------------------------------------------------
(* Properties *)

\* Wherever the window was put and whatever was stored in whichever widths,
\* a load finds what the file and the latest stores say; only bytes of an
\* access that reached over the edge of the window are missing, all of them.
MemoryIsFlat ==
    (phase \in {"run", "done"} /\ file # {}) =>
        \A x \in Addresses : \A n \in {1, 2, 4} :
            LET touched == x .. x + n - 1 IN
            (Inside(base, x, n) /\ touched \subseteq Addresses \ lost) =>
                Get(base, mem, x, n) = [i \in 1 .. n |-> flat[x + i - 1]]

\* The byte at tohost tells how the run stands: it is the reported value
\* once the program has exited, with success for 1 alone; until then it is
\* what the file put there, or zero.  A store of any width and alignment
\* counts, and what the loader puts there does not.
ExitMatchesMemory ==
    (phase \in {"run", "done"} /\ file # {}) =>
        LET byte == Get(base, mem, tohostAddr, 1)[1] IN
        IF tohost # 0
        THEN phase = "done" /\ byte = tohost /\ (exitCode = 0 <=> tohost = 1)
        ELSE /\ InWindow(base, tohostAddr) /\ tohostAddr \notin lost =>
                    byte \in {0, image[tohostAddr]}
             /\ exitCode = 0

\* Both simulators start a program from the same memory: the words of every
\* aligned segment are those of the host memory, in the instruction memory
\* when it is only executed and in the data memory when it is written.  A
\* segment that is only read is in neither.
SameImage ==
    (phase = "run" /\ cycle = 0 /\ base = ChBase /\ lost = {}) =>
        \A f \in file : \A seg \in ToSet(f.segments) :
            (seg.load /\ seg.vaddr >= ChBase /\ seg.vaddr % 4 = 0) =>
                \A k \in DOMAIN Words(seg) :
                    LET w == (seg.vaddr - ChBase) \div 4 + k IN
                    (w < ChWords /\ 4 * w < Window) =>
                        LET word == Get(base, mem, seg.vaddr + 4 * k, 4) IN
                        /\ Instructions(seg) => Imem(f)[w] = word
                        /\ Data(seg) => Dmem(f)[w] = word
=============================================================================

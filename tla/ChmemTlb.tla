------------------------------ MODULE ChmemTlb ------------------------------
(***************************************************************************)
(* The translation of the CH_MEM backend                                   *)
(* (ip/mmu/plugins/MMUPlugin_chmem.h): a fully associative TLB in          *)
(* registers that the host loads before it makes the simulator, satp in a  *)
(* register, and two ports that look up in it every clock, for the fetch   *)
(* (ip/cpu/plugins/ibus_chmem.h) and for loads and stores                  *)
(* (ip/cpu/plugins/dmem_chmem.h).  There is no walk: a miss leaves the     *)
(* address as it is.                                                       *)
(***************************************************************************)
EXTENDS Integers

CONSTANTS
    TlbPages,     \* pages of virtual addresses, 0 among them
    TlbFrames,    \* pages of physical addresses
    Lanes         \* kEntries: the lanes are 1 .. Lanes

ASSUME ChmemTlbAssumption ==
    /\ Lanes \in Nat \ {0}
    /\ 0 \in TlbPages
    /\ TlbPages \subseteq TlbFrames

Ports == {"ifetch", "loadstore"}
Modes == {"Bare", "Sv32", "Sv39"}
LaneEntries == [valid : BOOLEAN, vaddr : TlbPages, paddr : TlbFrames]

VARIABLES
    preload,   \* what the host loads, the mode it constructs the plugin with,
               \* the MODE bit of a satp it gives or {} if it gives none, and
               \* the ports it binds
    entry,     \* the registers entry_valid_, entry_vaddr_, entry_paddr_
    satpMode,  \* the MODE bit of the register satp_
    portPage   \* the page of each port's signal

laneVars == <<preload, entry, satpMode, portPage>>

\* encode_satp: a given satp wins; no mode but Sv32 has an encoding.
EncodeSatp(mode, given) == IF given = {} THEN mode = "Sv32" ELSE TRUE \in given

ZeroEntry == [valid |-> FALSE, vaddr |-> 0, paddr |-> 0]

\* Tags that differ: the host loads a page once.
Loads == {f \in [1 .. Lanes -> LaneEntries] :
            \A i, j \in 1 .. Lanes : f[i].valid /\ f[j].valid /\ f[i].vaddr = f[j].vaddr => i = j}

TlbInit ==
    /\ preload \in [lanes : Loads, mode : Modes, given : {{}, {TRUE}, {FALSE}}, bound : SUBSET Ports]
    /\ entry = [i \in 1 .. Lanes |-> ZeroEntry]
    /\ satpMode = FALSE
    /\ portPage = [p \in Ports |-> 0]

\* A clock: every register takes its next value, which never changes again;
\* a port that is not bound asks for page 0.
Clock(a) ==
    /\ entry' = preload.lanes
    /\ satpMode' = EncodeSatp(preload.mode, preload.given)
    /\ portPage' = [p \in Ports |-> IF p \in preload.bound THEN a[p] ELSE 0]
    /\ UNCHANGED preload

TlbNext == \E a \in [Ports -> TlbPages] : Clock(a)

TlbSpec == TlbInit /\ [][TlbNext]_laneVars

-----------------------------------------------------------------------------
\* emit_lookup

\* A defect: the valid bit left out.
HitLaneTagOnly(p, i) == entry[i].vaddr = portPage[p]
HitLane(p, i) == entry[i].valid /\ entry[i].vaddr = portPage[p]

PaddrValid(p) == satpMode /\ \E i \in 1 .. Lanes : HitLane(p, i)

\* The select chain: the last lane that hits, 0 if none does.
PaddrPage(p) ==
    LET hits == {i \in 1 .. Lanes : HitLane(p, i)}
    IN  IF hits = {} THEN 0 ELSE entry[CHOOSE i \in hits : \A j \in hits : j <= i].paddr

\* What the fetch and the memory stage put on their memories.
AccessPage(p) == IF PaddrValid(p) THEN PaddrPage(p) ELSE portPage[p]

-----------------------------------------------------------------------------
\* Translation is on as the host asked for it.
TurnedOn == TRUE \in preload.given \/ (preload.given = {} /\ preload.mode = "Sv32")

\* A port accesses the frame the host loaded for its page if translation is on,
\* and its own address otherwise.
Translates(p) ==
    LET loaded == {i \in 1 .. Lanes : preload.lanes[i].valid
                                      /\ preload.lanes[i].vaddr = portPage[p]}
    IN  IF TurnedOn /\ loaded # {}
          THEN \E i \in loaded : AccessPage(p) = preload.lanes[i].paddr
          ELSE AccessPage(p) = portPage[p]

BoundTranslate == \A p \in preload.bound : Translates(p)

\* After every clock the access of every port that is bound is translated by
\* what the host loaded, and no lane it left invalid is used
\* (MMUPlugin_chmem.h:216-226).  Nothing is said of the time before the first
\* clock nor of a port that is not bound: there the code does not do what its
\* comments say (:123, :181, :209).
AccessTranslated == [][BoundTranslate']_laneVars
=============================================================================

----------------------------- MODULE PtWalkFsm ------------------------------
(***************************************************************************)
(* The Sv32 page-table walker of the CH_MEM backend                        *)
(* (ip/cpu/plugins/mmu_ptw_chmem.h), a state machine of five states that   *)
(* a host drives one clock at a time, beside PTW (ip/mmu/lib/ptw.cpp), the *)
(* walker of the TLM backend, on the same entries.  The host keeps start   *)
(* high until the machine has taken it, and owes one entry for each level  *)
(* the machine waits for; it reads the outputs after a clock, with the     *)
(* inputs of that clock still in place.                                    *)
(***************************************************************************)
EXTENDS Naturals

CONSTANT Ppns   \* page numbers, the upper bits of an entry

ASSUME PpnsAssumption == Ppns # {}

\* What the walkers look at in an entry.
Ptes == [v : BOOLEAN, r : BOOLEAN, w : BOOLEAN, x : BOOLEAN, ppn : Ppns]

VARIABLES
    walkState,  \* the state of the machine
    start,      \* the input start_
    pte,        \* the inputs pte_v_ to pte_ppn_, as last driven
    owed,       \* whether the host owes an entry
    ptw,        \* PTW: the walk in flight, or its outcome
    alike       \* whether both walkers read all entries of this walk alike

walkVars == <<walkState, start, pte, owed, ptw, alike>>

Waiting == walkState \in {"L0_WAIT", "L1_WAIT"}

\* The classes of create_fsm.
IsReserved(e) == e.r /\ e.w
IsLeaf(e) == (e.r \/ e.x) /\ ~IsReserved(e)
IsPtr(e) == ~e.r /\ ~e.w /\ ~e.x

\* PTW::start_walk and advance of a walk of two levels.
PtwStart == [busy |-> TRUE, level |-> 0]
PtwFault(c) == [busy |-> FALSE, fault |-> c]
PtwFound(f) == [busy |-> FALSE, fault |-> 0, ppn |-> f]

PtwAdvance(e) ==
    IF ~ptw.busy THEN ptw
    ELSE IF ~e.v THEN PtwFault(12)
    ELSE IF e.w /\ ~e.r THEN PtwFault(15)
    ELSE IF ptw.level + 1 >= 2 THEN PtwFound(e.ppn)
    ELSE [busy |-> TRUE, level |-> ptw.level + 1]

\* The entries of a level that the two read alike.  PTW has no superpages and
\* takes a pointer in the last level for a leaf; the machine faults on every
\* entry that may be read and written.
AlikeIn(s, e) == e.v => IF s = "L0_WAIT" THEN IsPtr(e) ELSE IsLeaf(e) /\ ~e.w

NoPte == [v |-> FALSE, r |-> FALSE, w |-> FALSE, x |-> FALSE, ppn |-> CHOOSE f \in Ppns : TRUE]

WalkInit ==
    /\ walkState = "IDLE"
    /\ start = FALSE
    /\ pte = NoPte
    /\ owed = FALSE
    /\ ptw = PtwFault(0)
    /\ alike = TRUE

-----------------------------------------------------------------------------
\* The host asks for a walk, at any time.
Raise ==
    /\ ~start
    /\ start' = TRUE
    /\ UNCHANGED <<walkState, pte, owed, ptw, alike>>

\* A clock with start in IDLE; PTW starts with it.
Begin ==
    /\ walkState = "IDLE"
    /\ start
    /\ walkState' = "L0_WAIT"
    /\ start' = FALSE
    /\ owed' = TRUE
    /\ ptw' = PtwStart
    /\ alike' = TRUE
    /\ UNCHANGED pte

\* A clock with pte_valid: what both walkers make of entry e.
Answered(e) ==
    /\ Waiting
    /\ owed
    /\ pte' = e
    /\ ptw' = PtwAdvance(e)
    /\ alike' = (alike /\ AlikeIn(walkState, e))
    /\ UNCHANGED start

FindsFault(e) ==
    /\ Answered(e)
    /\ ~e.v \/ IsReserved(e) \/ (walkState = "L1_WAIT" /\ IsPtr(e))
    /\ walkState' = "FAULT"
    /\ owed' = FALSE

FindsLeaf(e) ==
    /\ Answered(e)
    /\ e.v
    /\ IsLeaf(e)
    /\ walkState' = "DONE"
    /\ owed' = FALSE

\* A defect: the second level skipped.
PointerDone(e) ==
    /\ Answered(e)
    /\ walkState = "L0_WAIT"
    /\ e.v
    /\ IsPtr(e)
    /\ walkState' = "DONE"
    /\ owed' = FALSE

FindsPointer(e) ==
    /\ Answered(e)
    /\ walkState = "L0_WAIT"
    /\ e.v
    /\ IsPtr(e)
    /\ walkState' = "L1_WAIT"
    /\ owed' = TRUE

\* An entry that may be written and neither read nor executed: no transition
\* of the machine is for it, and the host has answered.
FindsWriteOnly(e) ==
    /\ Answered(e)
    /\ e.v
    /\ e.w
    /\ ~e.r
    /\ ~e.x
    /\ owed' = FALSE
    /\ UNCHANGED walkState

\* A defect: a request in the last state taken for the walk that ended.
ReturnTakingStart ==
    /\ walkState \in {"DONE", "FAULT"}
    /\ walkState' = "IDLE"
    /\ start' = FALSE
    /\ UNCHANGED <<pte, owed, ptw, alike>>

\* The state after DONE and FAULT is IDLE, whatever start is.
Return ==
    /\ walkState \in {"DONE", "FAULT"}
    /\ walkState' = "IDLE"
    /\ UNCHANGED <<start, pte, owed, ptw, alike>>

Answer ==
    \E e \in Ptes :
        \/ FindsFault(e)
        \/ FindsLeaf(e)
        \/ FindsPointer(e)
        \/ FindsWriteOnly(e)

WalkNext == Raise \/ Begin \/ Answer \/ Return

\* The clock runs, and the memory behind the host answers.
WalkFairness == WF_walkVars(Begin) /\ WF_walkVars(Answer) /\ WF_walkVars(Return)

WalkSpec == WalkInit /\ [][WalkNext]_walkVars /\ WalkFairness

-----------------------------------------------------------------------------
\* The outputs
Done == walkState = "DONE"
Fault == walkState = "FAULT"
FaultCode == IF ~Fault THEN 0 ELSE IF ~pte.v THEN 1 ELSE 2
ResultPpn == IF Done THEN pte.ppn ELSE 0

PtwStates == [busy : {TRUE}, level : {0, 1}]
             \cup [busy : {FALSE}, fault : {0, 12, 15}]
             \cup [busy : {FALSE}, fault : {0}, ppn : Ppns]

\* The types of the machine, of its inputs and of PTW.
WalkTypeOK ==
    /\ walkState \in {"IDLE", "L0_WAIT", "L1_WAIT", "DONE", "FAULT"}
    /\ start \in BOOLEAN
    /\ pte \in Ptes
    /\ owed \in BOOLEAN
    /\ ptw \in PtwStates
    /\ alike \in BOOLEAN

\* On entries both read alike, the machine is where PTW is, level by level;
\* it is DONE when PTW succeeds, with its page, and faults when PTW faults
\* (the header of the machine: a walk of two levels, as PTW's).
SameWalk ==
    alike =>
        /\ walkState = "L0_WAIT" => ptw = PtwStart
        /\ walkState = "L1_WAIT" => ptw = [busy |-> TRUE, level |-> 1]
        /\ Done => ptw = PtwFound(ResultPpn)
        /\ Fault => ptw = PtwFault(12) /\ FaultCode = 1

\* A request is taken whenever it is raised, DONE and FAULT included, and a
\* walk ends however long the memory takes; the exception is an entry that
\* may only be written, on which the machine waits for ever.
Stuck == Waiting /\ ~owed

WalkEnds ==
    /\ (start /\ walkState # "L0_WAIT") ~> (walkState = "L0_WAIT" \/ Stuck)
    /\ Waiting ~> (Done \/ Fault \/ Stuck)
=============================================================================

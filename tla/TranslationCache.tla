-------------------------- MODULE TranslationCache --------------------------
(***************************************************************************)
(* What a translation look-aside buffer promises: a lossy memory.  It      *)
(* answers a lookup with the translation last refilled for the key, or     *)
(* not at all; it may forget, it never invents and never revives what was  *)
(* forgotten.  MultiLevelTlb is shown to implement this.  That a flush     *)
(* leaves nothing behind is TlbMatchesSatp of MmuPlugin: here it looks     *)
(* like no step at all.                                                    *)
(***************************************************************************)
CONSTANTS
    Keys,       \* what a translation is asked for under
    Frames,     \* translations
    NoFrame     \* the answer of a miss

VARIABLES
    known,      \* the translation known of each key, or NoFrame
    answer      \* the answer of the latest lookup

vars == <<known, answer>>

\* Outside the keys of S nothing is learned; anything may be forgotten.
ForgetsOutside(S) == \A k \in Keys \ S : known'[k] \in {known[k], NoFrame}

Init ==
    /\ known = [k \in Keys |-> NoFrame]
    /\ answer = NoFrame

Lookup(k) ==
    /\ answer' = known[k]
    /\ known' \in [Keys -> Frames \cup {NoFrame}]
    /\ known'[k] = known[k]
    /\ ForgetsOutside({k})

Refill(k, f) ==
    /\ known' \in [Keys -> Frames \cup {NoFrame}]
    /\ known'[k] = f
    /\ ForgetsOutside({k})
    /\ UNCHANGED answer

Invalidate(S) ==
    /\ known' = [k \in Keys |-> IF k \in S THEN NoFrame ELSE known[k]]
    /\ UNCHANGED answer

Next ==
    \/ \E k \in Keys : Lookup(k)
    \/ \E k \in Keys, f \in Frames : Refill(k, f)
    \/ \E S \in SUBSET Keys : Invalidate(S)

Spec == Init /\ [][Next]_vars
=============================================================================

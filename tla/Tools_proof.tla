---------------------------- MODULE Tools_proof ----------------------------
(***************************************************************************)
(* Theorems about the tools around the processor: from arguments to the    *)
(* circuit that is built (ChmemConfig), the gate that compares the two     *)
(* backends (ParityGate), and the memory a program is loaded into and runs *)
(* in (HostMemory).                                                        *)
(***************************************************************************)
EXTENDS HostMemory, ChmemConfig, ParityGate, WellFoundedInduction, TLAPS
-----------------------------------------------------------------------------
(* Induction *)

\* A set of numbers that is not empty has a least one.
LEMMA LeastOf ==
    ASSUME NEW T, T \subseteq Nat, T # {}
    PROVE  \E n \in T : \A m \in T : ~ (m < n)
<1>1. \E n \in T : \A m \in T : <<m, n>> \notin OpToRel(<, Nat)
  BY NatLessThanWellFounded, WFMin
<1> QED BY <1>1 DEF OpToRel

\* A set of positions that is not empty has a last one.
LEMMA LastOf ==
    ASSUME NEW n \in Nat, NEW S, S \subseteq 1 .. n, S # {}
    PROVE  Max(S) \in S
<1> DEFINE T == {n - i : i \in S}
<1>1. T \subseteq Nat /\ T # {}
  <2>1. \A i \in S : n - i \in Nat /\ n - i \in T
    OBVIOUS
  <2> QED BY <2>1
<1>2. PICK t \in T : \A u \in T : ~ (u < t)
  <2> HIDE DEF T
  <2> QED BY <1>1, LeastOf
<1>3. PICK i \in S : t = n - i
  BY <1>2
<1>4. ASSUME NEW j \in S PROVE i >= j
  <2>1. ~ (n - j < n - i)
    BY <1>2, <1>3
  <2> QED BY <2>1
<1> QED BY <1>4 DEF Max
-----------------------------------------------------------------------------
(* Configuration *)

\* The configuration the flags, or the document, ask for.
FlagConfig(flags) ==
    With(Defaults, [k \in DOMAIN flags |->
            IF k = "btb_entries" THEN [int |-> flags[k].int] ELSE flags[k]])

DocumentConfig(d) == With(Defaults, Settings(d))

FromFlags(g, c) == g.config = {} /\ c = FlagConfig(g.flags)

FromDocument(g, c) ==
    /\ DOMAIN g.flags = {}
    /\ \E d \in g.config :
        g.config = {d} /\ d.opens /\ d.parses /\ Complaints(d) = {} /\ c = DocumentConfig(d)

Asked(g, c) == FromFlags(g, c) \/ FromDocument(g, c)

\* A runner has no configuration or the one asked for, and a circuit only of
\* that, when it is valid and has no cache.
ConfigInv ==
    /\ given \in Arguments
    /\ step = [r \in Runners |-> step[r]]
    /\ cfg = [r \in Runners |-> cfg[r]]
    /\ circuit = [r \in Runners |-> circuit[r]]
    /\ \A r \in Runners :
        /\ cfg[r] = Unset \/ Asked(given, cfg[r])
        /\ cfg[r] # Unset => r = "simulator" \/ ~HasTail
        /\ step[r] = "configured" => Asked(given, cfg[r])
        /\ circuit[r] = Unset \/
             \E c : Asked(given, c) /\ Valid(c) /\ ~c.enable_cache.bool /\ circuit[r] = Circuit(c)

\* What a configuration asked for holds: each setting given, its name apart,
\* each flag, and the default of everything else.
LEMMA AskedHolds ==
    ASSUME given \in Arguments, NEW c, Asked(given, c)
    PROVE  /\ \A d \in given.config : \A k \in DOMAIN Settings(d) \ {"name"} :
                k \in Fields /\ c[k] = Settings(d)[k]
           /\ \A k \in DOMAIN given.flags : k \in Fields /\
                IF k = "btb_entries" THEN c[k].int = given.flags[k].int
                ELSE c[k] = given.flags[k]
           /\ \A k \in Fields :
                (k \notin DOMAIN given.flags /\ \A d \in given.config : k \notin DOMAIN Settings(d))
                    => c[k] = Defaults[k]
           /\ DOMAIN c = Fields
<1>1. CASE FromFlags(given, c)
  <2>1. given.config = {} /\ c = FlagConfig(given.flags)
    BY <1>1 DEF FromFlags
  <2>2. DOMAIN given.flags \subseteq Fields
    BY ParserAssumption
  <2>3. DOMAIN c = Fields
    BY <2>1 DEF FlagConfig, With
  <2>4. ASSUME NEW k \in DOMAIN given.flags
        PROVE  k \in Fields /\ IF k = "btb_entries" THEN c[k].int = given.flags[k].int
                               ELSE c[k] = given.flags[k]
    <3>1. c[k] = IF k = "btb_entries" THEN [int |-> given.flags[k].int] ELSE given.flags[k]
      BY <2>1, <2>2 DEF FlagConfig, With
    <3> QED BY <3>1, <2>2
  <2>5. ASSUME NEW k \in Fields, k \notin DOMAIN given.flags
        PROVE  c[k] = Defaults[k]
    BY <2>1, <2>5 DEF FlagConfig, With
  <2> QED BY <2>1, <2>2, <2>3, <2>4, <2>5
<1>2. CASE FromDocument(given, c)
  <2>1. PICK d \in given.config :
            given.config = {d} /\ Complaints(d) = {} /\ c = DocumentConfig(d)
    BY <1>2 DEF FromDocument
  <2>2. DOMAIN given.flags = {}
    BY <1>2 DEF FromDocument
  <2>3. \A k \in DOMAIN Settings(d) \ {"name"} : k \in Fields
    BY <2>1 DEF Complaints, Unsupported, Known
  <2>4. c = [k \in Fields |-> IF k \in DOMAIN Settings(d) THEN Settings(d)[k] ELSE Defaults[k]]
    BY <2>1 DEF DocumentConfig, With
  <2> QED BY <2>1, <2>2, <2>3, <2>4
<1> QED BY <1>1, <1>2 DEF Asked

LEMMA ConfigInitially == ConfigInit => ConfigInv
BY DEF ConfigInit, ConfigInv

LEMMA SameTail == UNCHANGED given => (HasTail' <=> HasTail)
BY DEF HasTail

LEMMA ConfigStep == ConfigInv /\ [ConfigNext]_configVars => ConfigInv'
<1> SUFFICES ASSUME ConfigInv, [ConfigNext]_configVars PROVE ConfigInv'
  OBVIOUS
<1> USE SameTail DEF ConfigInv
<1>1. ASSUME NEW r \in Runners, RefuseArguments(r) \/ RefuseValues(r) PROVE ConfigInv'
  <2>1. UNCHANGED <<given, cfg, circuit>> /\ step' = [step EXCEPT ![r] = "refused"]
    BY <1>1 DEF RefuseArguments, RefuseValues, Refuse, GoTo
  <2> QED BY <2>1
<1>2. ASSUME NEW r \in Runners, RefuseDocument(r) PROVE ConfigInv'
  <2>1. UNCHANGED <<given, cfg, circuit>> /\ step' = [step EXCEPT ![r] = "refused"]
    BY <1>2 DEF RefuseDocument, Refuse, GoTo
  <2> QED BY <2>1
<1>3. ASSUME NEW r \in Runners, NEW c, Asked(given, c), UNCHANGED <<given, circuit>>,
             ~BadArguments(r),
             cfg' = [cfg EXCEPT ![r] = c], step' = [step EXCEPT ![r] = "configured"]
      PROVE  ConfigInv'
  <2>1. r = "simulator" \/ ~HasTail
    BY <1>3 DEF BadArguments, Runners
  <2> QED BY <1>3, <2>1
<1>4. ASSUME NEW r \in Runners, TakeFlags(r) PROVE ConfigInv'
  <2>1. Asked(given, FlagConfig(given.flags))
    BY <1>4 DEF TakeFlags, Asked, FromFlags
  <2>2. /\ UNCHANGED <<given, circuit>>
        /\ cfg' = [cfg EXCEPT ![r] = FlagConfig(given.flags)]
        /\ step' = [step EXCEPT ![r] = "configured"]
    BY <1>4 DEF TakeFlags, GoTo, FlagConfig
  <2> QED BY <1>3, <1>4, <2>1, <2>2 DEF TakeFlags
<1>5. ASSUME NEW r \in Runners, LoadDocument(r) PROVE ConfigInv'
  <2>1. PICK d \in given.config :
            /\ d.opens /\ d.parses /\ Complaints(d) = {}
            /\ cfg' = [cfg EXCEPT ![r] = DocumentConfig(d)]
    BY <1>5 DEF LoadDocument, DocumentConfig
  <2>2. given.config = {d}
    BY ConfigAssumption
  <2>3. DOMAIN given.flags = {}
    BY <1>5, <2>1 DEF LoadDocument, BadArguments
  <2>4. Asked(given, DocumentConfig(d))
    BY <2>1, <2>2, <2>3 DEF Asked, FromDocument
  <2>5. UNCHANGED <<given, circuit>> /\ step' = [step EXCEPT ![r] = "configured"]
    BY <1>5 DEF LoadDocument, GoTo
  <2> QED BY <1>3, <1>5, <2>1, <2>4, <2>5 DEF LoadDocument
<1>6. ASSUME NEW r \in Runners, Build(r) PROVE ConfigInv'
  <2>1. UNCHANGED <<given, cfg>> /\ Asked(given, cfg[r]) /\ Valid(cfg[r])
    BY <1>6 DEF Build
  <2>2. CASE cfg[r].enable_cache.bool
    BY <1>6, <2>1, <2>2 DEF Build, GoTo
  <2>3. CASE ~cfg[r].enable_cache.bool
    <3>1. /\ step' = [step EXCEPT ![r] = "built"]
          /\ circuit' = [circuit EXCEPT ![r] = Circuit(cfg[r])]
      BY <1>6, <2>3 DEF Build, GoTo
    <3>2. \A q \in Runners : \/ circuit'[q] = circuit[q]
                             \/ circuit'[q] = Circuit(cfg[r])
      BY <3>1
    <3> QED BY <2>1, <2>3, <3>1, <3>2
  <2> QED BY <2>2, <2>3
<1>7. CASE CompileHarness
  BY <1>7 DEF CompileHarness, GoTo
<1>8. CASE UNCHANGED configVars
  BY <1>8 DEF configVars
<1> QED BY <1>1, <1>2, <1>4, <1>5, <1>6, <1>7, <1>8 DEF ConfigNext

LEMMA ConfigInvariance == ConfigSpec => []ConfigInv
BY ConfigInitially, ConfigStep, PTL DEF ConfigSpec

\* Whatever the documents and flags, no setting is lost on its way into the
\* configuration, and no field gets anything but its setting or its default,
\* except that parity_sim_runner drops what follows the number of --btb-entries.
THEOREM Obeyed == ConfigSpec => []NothingIsIgnored
<1>1. ConfigInv => NothingIsIgnored
  BY AskedHolds DEF ConfigInv, NothingIsIgnored, HasTail
<1> QED BY <1>1, ConfigInvariance, PTL

\* The settings asked for, wherever they come from.
AskedSettings(g) ==
    IF g.config = {} THEN g.flags ELSE Settings(CHOOSE d \in g.config : TRUE)

\* Field by field: c has what is asked for, and its type.
LEMMA AskedFields ==
    ASSUME NEW g \in Arguments, NEW c, Asked(g, c)
    PROVE  LET asked == AskedSettings(g)
               Says(k, v) == IF k \in DOMAIN asked THEN asked[k] = v ELSE Defaults[k] = v
           IN /\ \A k \in BoolFields : c[k].bool \in BOOLEAN /\ Says(k, [bool |-> c[k].bool])
              /\ Says("initial_pc", [int |-> c["initial_pc"].int])
              /\ IF "btb_entries" \in DOMAIN asked
                 THEN asked["btb_entries"].int = c["btb_entries"].int
                 ELSE c["btb_entries"].int = 256
<1> DEFINE asked == AskedSettings(g)
           Says(k, v) == IF k \in DOMAIN asked THEN asked[k] = v ELSE Defaults[k] = v
<1>0. /\ \A k \in BoolFields :
            Defaults[k].bool \in BOOLEAN /\ Defaults[k] = [bool |-> Defaults[k].bool]
      /\ Defaults["initial_pc"] = [int |-> Defaults["initial_pc"].int]
      /\ Defaults["btb_entries"].int = 256
  <2>1. /\ Defaults["enable_bp"] = [bool |-> TRUE] /\ Defaults["bp_uncond"] = [bool |-> TRUE]
        /\ Defaults["enable_mmu"] = [bool |-> FALSE] /\ Defaults["enable_cache"] = [bool |-> FALSE]
        /\ Defaults["initial_pc"] = [int |-> ElfBase] /\ Defaults["btb_entries"] = [int |-> 256]
    BY DEF Defaults
  <2>2. \A k \in BoolFields : Defaults[k] \in {[bool |-> TRUE], [bool |-> FALSE]}
    BY <2>1 DEF BoolFields
  <2>3. ASSUME NEW v, v \in {[bool |-> TRUE], [bool |-> FALSE]}
        PROVE  v.bool \in BOOLEAN /\ v = [bool |-> v.bool]
    <3>1. PICK b \in BOOLEAN : v = [bool |-> b]
      BY <2>3
    <3>2. v.bool = b
      BY <3>1
    <3> QED BY <3>1, <3>2
  <2>4. ASSUME NEW v, NEW n, v = [int |-> n] PROVE v = [int |-> v.int] /\ v.int = n
    BY <2>4
  <2> QED BY <2>1, <2>2, <2>3, <2>4
<1>1. CASE FromFlags(g, c)
  <2>1. g.config = {} /\ c = FlagConfig(g.flags) /\ asked = g.flags
    BY <1>1 DEF FromFlags, AskedSettings
  <2>2. DOMAIN g.flags \subseteq Fields
    BY ParserAssumption
  <2>3. \A k \in Fields : c[k] = IF k \in DOMAIN asked
                                THEN IF k = "btb_entries" THEN [int |-> asked[k].int]
                                     ELSE asked[k]
                                ELSE Defaults[k]
    BY <2>1 DEF FlagConfig, With
  <2>4. \A k \in DOMAIN asked :
            /\ k \in BoolFields => asked[k].bool \in BOOLEAN /\ asked[k] = [bool |-> asked[k].bool]
            /\ k = "initial_pc" => asked[k] = [int |-> asked[k].int]
    BY <2>1, ParserAssumption
  <2> HIDE DEF asked
  <2>5. ASSUME NEW k \in BoolFields PROVE c[k].bool \in BOOLEAN /\ Says(k, [bool |-> c[k].bool])
    <3>1. k \in Fields /\ k # "btb_entries"
      BY DEF Fields, BoolFields
    <3>2. CASE k \in DOMAIN asked
      <4>1. c[k] = asked[k]
        BY <3>1, <3>2, <2>3
      <4> QED BY <4>1, <3>2, <2>4
    <3>3. k \notin DOMAIN asked => c[k] = Defaults[k]
      BY <3>1, <2>3
    <3> QED BY <3>2, <3>3, <1>0
  <2>6. Says("initial_pc", [int |-> c["initial_pc"].int])
    <3>1. "initial_pc" \in Fields
      BY DEF Fields, NumberFields
    <3>2. CASE "initial_pc" \in DOMAIN asked
      <4>1. c["initial_pc"] = asked["initial_pc"]
        BY <3>1, <3>2, <2>3
      <4> QED BY <4>1, <3>2, <2>4
    <3>3. "initial_pc" \notin DOMAIN asked => c["initial_pc"] = Defaults["initial_pc"]
      BY <3>1, <2>3
    <3> QED BY <3>2, <3>3, <1>0
  <2>7. IF "btb_entries" \in DOMAIN asked THEN asked["btb_entries"].int = c["btb_entries"].int
        ELSE c["btb_entries"].int = 256
    <3>1. "btb_entries" \in Fields
      BY DEF Fields, NumberFields
    <3>2. CASE "btb_entries" \in DOMAIN asked
      <4>1. c["btb_entries"] = [int |-> asked["btb_entries"].int]
        BY <3>1, <3>2, <2>3
      <4> QED BY <4>1, <3>2
    <3>3. "btb_entries" \notin DOMAIN asked => c["btb_entries"] = Defaults["btb_entries"]
      BY <3>1, <2>3
    <3> QED BY <3>2, <3>3, <1>0
  <2> QED BY <2>5, <2>6, <2>7 DEF asked
<1>2. CASE FromDocument(g, c)
  <2>1. PICK d \in g.config : /\ g.config = {d} /\ d.opens /\ d.parses
                              /\ Complaints(d) = {} /\ c = DocumentConfig(d)
    BY <1>2 DEF FromDocument
  <2>2. asked = Settings(d)
    BY <2>1 DEF AskedSettings
  <2>3. \A k \in Fields : c[k] = IF k \in DOMAIN asked THEN asked[k] ELSE Defaults[k]
    BY <2>1, <2>2 DEF DocumentConfig, With
  <2>4. \A k \in DOMAIN asked :
            /\ "bool" \in DOMAIN asked[k] =>
                    asked[k].bool \in BOOLEAN /\ asked[k] = [bool |-> asked[k].bool]
            /\ "int" \in DOMAIN asked[k] => asked[k] = [int |-> asked[k].int]
    BY <2>1, <2>2, ParserAssumption
  <2>5. \A k \in Fields \cap DOMAIN asked : OfItsType(k, asked[k])
    BY <2>1, <2>2 DEF Complaints, Unreadable
  <2> HIDE DEF asked
  <2>6. ASSUME NEW k \in BoolFields PROVE c[k].bool \in BOOLEAN /\ Says(k, [bool |-> c[k].bool])
    <3>1. k \in Fields
      BY DEF Fields
    <3>2. CASE k \in DOMAIN asked
      <4>1. c[k] = asked[k]
        BY <3>1, <3>2, <2>3
      <4>2. "bool" \in DOMAIN asked[k]
        BY <3>1, <3>2, <2>5 DEF OfItsType, BoolFields, TextFields, NumberFields
      <4> QED BY <4>1, <4>2, <3>2, <2>4
    <3>3. k \notin DOMAIN asked => c[k] = Defaults[k]
      BY <3>1, <2>3
    <3> QED BY <3>2, <3>3, <1>0
  <2>7. Says("initial_pc", [int |-> c["initial_pc"].int])
    <3>1. "initial_pc" \in Fields
      BY DEF Fields, NumberFields
    <3>2. CASE "initial_pc" \in DOMAIN asked
      <4>1. c["initial_pc"] = asked["initial_pc"]
        BY <3>1, <3>2, <2>3
      <4>2. "int" \in DOMAIN asked["initial_pc"]
        BY <3>1, <3>2, <2>5 DEF OfItsType, BoolFields, TextFields
      <4> QED BY <4>1, <4>2, <3>2, <2>4
    <3>3. "initial_pc" \notin DOMAIN asked => c["initial_pc"] = Defaults["initial_pc"]
      BY <3>1, <2>3
    <3> QED BY <3>2, <3>3, <1>0
  <2>8. IF "btb_entries" \in DOMAIN asked THEN asked["btb_entries"].int = c["btb_entries"].int
        ELSE c["btb_entries"].int = 256
    <3>1. "btb_entries" \in Fields
      BY DEF Fields, NumberFields
    <3> QED BY <3>1, <2>3, <1>0
  <2> QED BY <2>6, <2>7, <2>8 DEF asked
<1> QED BY <1>1, <1>2 DEF Asked

\* The circuit is built of what was asked for and of nothing else, and never
\* with a cache left out in silence.
THEOREM Built == ConfigSpec => []BuiltAsAsked
<1>1. ASSUME ConfigInv, NEW r \in Runners, circuit[r] # Unset
      PROVE  LET asked == AskedSettings(given)
                 Says(k, v) == IF k \in DOMAIN asked THEN asked[k] = v ELSE Defaults[k] = v
             IN /\ Says("initial_pc", [int |-> circuit[r].pc])
                /\ Says("enable_bp", [bool |-> circuit[r].predictor # {}])
                /\ \A p \in circuit[r].predictor :
                    /\ Says("bp_uncond", [bool |-> p.uncond])
                    /\ IF "btb_entries" \in DOMAIN asked
                       THEN asked["btb_entries"].int = p.entries ELSE p.entries = 256
                    /\ p.entries \in {16, 32, 64, 128, 256}
                /\ Says("enable_cache", [bool |-> FALSE])
  <2>1. PICK c : Asked(given, c) /\ Valid(c) /\ ~c.enable_cache.bool /\ circuit[r] = Circuit(c)
    BY <1>1 DEF ConfigInv
  <2> DEFINE asked == AskedSettings(given)
             Says(k, v) == IF k \in DOMAIN asked THEN asked[k] = v ELSE Defaults[k] = v
  <2>2. /\ \A k \in BoolFields : c[k].bool \in BOOLEAN /\ Says(k, [bool |-> c[k].bool])
        /\ Says("initial_pc", [int |-> c["initial_pc"].int])
        /\ IF "btb_entries" \in DOMAIN asked
           THEN asked["btb_entries"].int = c["btb_entries"].int
           ELSE c["btb_entries"].int = 256
    BY <2>1, <1>1, AskedFields DEF ConfigInv
  <2> HIDE DEF asked
  <2>3. {"enable_bp", "bp_uncond", "enable_cache"} \subseteq BoolFields
    BY DEF BoolFields
  <2>4. Says("initial_pc", [int |-> circuit[r].pc])
    BY <2>1, <2>2 DEF Circuit
  <2>5. Says("enable_bp", [bool |-> circuit[r].predictor # {}])
    <3>1. (circuit[r].predictor # {}) = c["enable_bp"].bool
      <4>1. circuit[r].predictor =
                IF c["enable_bp"].bool
                THEN {[entries |-> c.btb_entries.int, uncond |-> c.bp_uncond.bool]} ELSE {}
        BY <2>1 DEF Circuit
      <4>2. c["enable_bp"].bool \in BOOLEAN
        BY <2>2, <2>3
      <4>3. CASE c["enable_bp"].bool = TRUE
        BY <4>1, <4>3
      <4>4. CASE c["enable_bp"].bool = FALSE
        BY <4>1, <4>4
      <4> QED BY <4>2, <4>3, <4>4
    <3>2. Says("enable_bp", [bool |-> c["enable_bp"].bool])
      BY <2>2, <2>3
    <3> HIDE DEF Says
    <3> QED BY <3>1, <3>2
  <2>6. \A p \in circuit[r].predictor :
            p.entries = c["btb_entries"].int /\ p.uncond = c["bp_uncond"].bool
    BY <2>1 DEF Circuit
  <2>7. c["btb_entries"].int \in {16, 32, 64, 128, 256}
    BY <2>1 DEF Valid
  <2>8. Says("enable_cache", [bool |-> FALSE])
    <3>1. c["enable_cache"].bool = FALSE
      BY <2>1, <2>2, <2>3
    <3>2. Says("enable_cache", [bool |-> c["enable_cache"].bool])
      BY <2>2, <2>3
    <3> HIDE DEF Says
    <3> QED BY <3>1, <3>2
  <2>9. Says("bp_uncond", [bool |-> c["bp_uncond"].bool])
    BY <2>2, <2>3
  <2> QED BY <2>2, <2>4, <2>5, <2>6, <2>7, <2>8, <2>9 DEF asked
<1>2. ConfigInv => BuiltAsAsked
  BY <1>1 DEF BuiltAsAsked, AskedSettings
<1> QED BY <1>2, ConfigInvariance, PTL
-----------------------------------------------------------------------------
(* The parity gate: where a trace ends *)

\* A runner's loop ends in one cycle and no other, whatever the trace.
IsEnd(t, cap, n) ==
    /\ \A m \in 1 .. n - 1 : ~Done(t[m])
    /\ n = cap \/ Done(t[n])

LEMMA OneEnd ==
    ASSUME NEW t, NEW cap \in Nat \ {0}
    PROVE  /\ EndOf(t, cap) \in 1 .. cap /\ IsEnd(t, cap, EndOf(t, cap))
           /\ \A n \in 1 .. cap : IsEnd(t, cap, n) => n = EndOf(t, cap)
<1> DEFINE T == {n \in 1 .. cap : n = cap \/ Done(t[n])}
<1>1. PICK n \in T : \A m \in T : ~ (m < n)
  <2>1. T \subseteq Nat /\ T # {}
    BY DEF T
  <2> HIDE DEF T
  <2> QED BY <2>1, LeastOf
<1>2. n \in 1 .. cap /\ IsEnd(t, cap, n)
  <2>1. ASSUME NEW m \in 1 .. n - 1 PROVE ~Done(t[m])
    <3>1. m \in 1 .. cap /\ m < n
      BY <1>1
    <3> QED BY <3>1, <1>1
  <2> QED BY <2>1, <1>1 DEF IsEnd
<1>3. EndOf(t, cap) = CHOOSE k \in 1 .. cap : IsEnd(t, cap, k)
  BY DEF EndOf, IsEnd
<1>4. EndOf(t, cap) \in 1 .. cap /\ IsEnd(t, cap, EndOf(t, cap))
  BY <1>2, <1>3
<1>5. ASSUME NEW i \in 1 .. cap, NEW j \in 1 .. cap, IsEnd(t, cap, i), IsEnd(t, cap, j), i < j
      PROVE  FALSE
  <2>1. i \in 1 .. j - 1 /\ i # cap
    BY <1>5
  <2> QED BY <2>1, <1>5 DEF IsEnd
<1>6. \A i, j \in 1 .. cap : IsEnd(t, cap, i) /\ IsEnd(t, cap, j) => i = j
  BY <1>5
<1> QED BY <1>4, <1>6

\* The two traces side by side, as LockStep has it of a case.
InLockStep(s, v, cap) ==
    \A n \in 1 .. cap :
        (\A m \in 1 .. n - 1 : ~Done(s[m])) =>
            /\ s[n].pc = v[n].pc
            /\ Done(s[n]) <=> Done(v[n])
            /\ (n = cap \/ Done(s[n])) =>
                /\ s[n].tohost = v[n].tohost
                /\ s[n].regs = v[n].regs
                /\ s[n].memsig = v[n].memsig

\* Two reports say the same exactly if the backends run in lock step.
LEMMA ReportsTell ==
    ASSUME NEW b, NEW d, NEW s, NEW v, NEW cap \in Nat \ {0}
    PROVE  LET r == Report(b, s, cap)
               q == Report(d, v, cap)
           IN (r.done = q.done /\ r.seen = q.seen) <=> InLockStep(s, v, cap)
<1> DEFINE r == Report(b, s, cap)
           q == Report(d, v, cap)
           i == EndOf(s, cap)
           j == EndOf(v, cap)
<1>1. /\ i \in 1 .. cap /\ IsEnd(s, cap, i) /\ j \in 1 .. cap /\ IsEnd(v, cap, j)
      /\ \A n \in 1 .. cap : IsEnd(v, cap, n) => n = j
      /\ \A n \in 1 .. cap : IsEnd(s, cap, n) => n = i
  BY OneEnd
<1>2. /\ r.done = Done(s[i]) /\ q.done = Done(v[j])
      /\ r.seen = [tohost |-> s[i].tohost, regs |-> s[i].regs, memsig |-> s[i].memsig,
                   cycles |-> i, pchash |-> [k \in 1 .. i |-> s[k].pc]]
      /\ q.seen = [tohost |-> v[j].tohost, regs |-> v[j].regs, memsig |-> v[j].memsig,
                   cycles |-> j, pchash |-> [k \in 1 .. j |-> v[k].pc]]
  BY DEF Report
<1> HIDE DEF i, j, r, q
<1>3. ASSUME r.done = q.done, r.seen = q.seen PROVE InLockStep(s, v, cap)
  <2>1. i = j /\ s[i].tohost = v[i].tohost /\ s[i].regs = v[i].regs /\ s[i].memsig = v[i].memsig
    BY <1>2, <1>3
  <2>2. \A k \in 1 .. i : s[k].pc = v[k].pc
    <3>1. [k \in 1 .. i |-> s[k].pc] = [k \in 1 .. i |-> v[k].pc]
      BY <1>2, <1>3, <2>1
    <3>2. ASSUME NEW k \in 1 .. i PROVE s[k].pc = v[k].pc
      <4>1. [x \in 1 .. i |-> s[x].pc][k] = [x \in 1 .. i |-> v[x].pc][k]
        BY <3>1
      <4> QED BY <4>1
    <3> QED BY <3>2
  <2>3. Done(s[i]) <=> Done(v[i])
    BY <1>2, <1>3, <2>1 DEF Done
  <2>4. ASSUME NEW n \in 1 .. cap, \A m \in 1 .. n - 1 : ~Done(s[m])
        PROVE  n \in 1 .. i /\ (n # i => ~Done(s[n]) /\ ~Done(v[n]) /\ n # cap)
    <3>1. n \in 1 .. i
      <4>1. CASE i < n
        <5>1. i \in 1 .. n - 1 /\ i # cap
          BY <4>1, <1>1
        <5> QED BY <5>1, <2>4, <1>1 DEF IsEnd
      <4> QED BY <4>1, <1>1
    <3>2. CASE n # i
      <4>1. n \in 1 .. i - 1 /\ n # cap
        BY <3>1, <3>2, <1>1
      <4> QED BY <4>1, <1>1, <2>1 DEF IsEnd
    <3> QED BY <3>1, <3>2
  <2>5. ASSUME NEW n \in 1 .. cap, \A m \in 1 .. n - 1 : ~Done(s[m])
        PROVE  /\ s[n].pc = v[n].pc
               /\ Done(s[n]) <=> Done(v[n])
               /\ (n = cap \/ Done(s[n])) =>
                   s[n].tohost = v[n].tohost /\ s[n].regs = v[n].regs /\ s[n].memsig = v[n].memsig
    BY <2>1, <2>2, <2>3, <2>4, <2>5
  <2> QED BY <2>5 DEF InLockStep
<1>4. ASSUME InLockStep(s, v, cap) PROVE r.done = q.done /\ r.seen = q.seen
  <2>1. \A n \in 1 .. i : \A m \in 1 .. n - 1 : ~Done(s[m])
    BY <1>1 DEF IsEnd
  <2>2. \A n \in 1 .. i : s[n].pc = v[n].pc /\ (Done(s[n]) <=> Done(v[n]))
    BY <2>1, <1>1, <1>4 DEF InLockStep
  <2>3. IsEnd(v, cap, i)
    BY <2>2, <1>1 DEF IsEnd
  <2>4. i = j
    BY <2>3, <1>1
  <2>5. s[i].tohost = v[i].tohost /\ s[i].regs = v[i].regs /\ s[i].memsig = v[i].memsig
    BY <2>1, <1>1, <1>4 DEF InLockStep, IsEnd
  <2>6. [k \in 1 .. i |-> s[k].pc] = [k \in 1 .. i |-> v[k].pc]
    BY <2>2
  <2>7. r.done = q.done
    BY <1>2, <2>4, <2>2, <1>1 DEF Done
  <2> QED BY <1>2, <2>4, <2>5, <2>6, <2>7
<1> QED BY <1>3, <1>4 DEF r, q
-----------------------------------------------------------------------------
(* The parity gate: the cases an invocation owes *)

\* A function defined by recursion on the positions of the corpus is what its
\* equation says.
Picks(l, n, F) ==
    F = [i \in 0 .. n |->
            IF i = 0 THEN <<>>
            ELSE IF Owed(Corpus[i], l) THEN Append(F[i - 1], Corpus[i].name)
            ELSE F[i - 1]]

LEMMA SelectedIs ==
    ASSUME NEW l
    PROVE  \E F : Picks(l, Len(Corpus), F) /\ Selected(l) = F[Len(Corpus)]
<1>0. Len(Corpus) \in Nat
  BY GateAssumption
<1> DEFINE N == Len(Corpus)
           T == {n \in 0 .. N : ~ \E F : Picks(l, n, F)}
<1>1. \E F : Picks(l, N, F)
  <2>1. SUFFICES ASSUME T # {} PROVE FALSE
    BY <1>0
  <2>2. PICK n \in T : \A m \in T : ~ (m < n)
    <3>1. T \subseteq Nat
      BY <1>0
    <3> HIDE DEF T
    <3> QED BY <3>1, <2>1, LeastOf
  <2>3. CASE n = 0
    <3>1. Picks(l, 0, [i \in 0 .. 0 |-> <<>>])
      BY DEF Picks
    <3> QED BY <3>1, <2>3, <2>2
  <2>4. CASE n # 0
    <3>1. n - 1 \in 0 .. N /\ n - 1 < n /\ n \in Nat
      BY <2>2, <2>4, <1>0
    <3>2. PICK F : Picks(l, n - 1, F)
      BY <3>1, <2>2
    <3>3. \A i \in 0 .. n - 1 :
            F[i] = IF i = 0 THEN <<>>
                   ELSE IF Owed(Corpus[i], l) THEN Append(F[i - 1], Corpus[i].name)
                   ELSE F[i - 1]
      BY <3>2 DEF Picks
    <3> DEFINE G == [i \in 0 .. n |->
                        IF i < n THEN F[i]
                        ELSE IF Owed(Corpus[n], l) THEN Append(F[n - 1], Corpus[n].name)
                        ELSE F[n - 1]]
    <3>4. ASSUME NEW i \in 0 .. n
          PROVE  G[i] = IF i = 0 THEN <<>>
                        ELSE IF Owed(Corpus[i], l) THEN Append(G[i - 1], Corpus[i].name)
                        ELSE G[i - 1]
      <4>1. CASE i = 0
        BY <4>1, <3>3, <3>1
      <4>2. CASE i # 0 /\ i < n
        <5>1. G[i] = F[i] /\ G[i - 1] = F[i - 1] /\ i \in 0 .. n - 1
          BY <4>2, <3>1
        <5> HIDE DEF G
        <5> QED BY <5>1, <4>2, <3>3
      <4>3. CASE i = n
        <5>1. G[i - 1] = F[i - 1]
          BY <4>3, <3>1
        <5>2. G[i] = IF Owed(Corpus[n], l) THEN Append(F[n - 1], Corpus[n].name) ELSE F[n - 1]
          BY <4>3, <3>1
        <5> HIDE DEF G
        <5> QED BY <5>1, <5>2, <4>3, <2>4
      <4> QED BY <4>1, <4>2, <4>3, <3>1
    <3>5. G = [i \in 0 .. n |-> G[i]]
      OBVIOUS
    <3> HIDE DEF G
    <3>6. Picks(l, n, G)
      BY <3>4, <3>5 DEF Picks
    <3> QED BY <3>6, <2>2
  <2> QED BY <2>3, <2>4
<1>2. Selected(l) = (CHOOSE F : Picks(l, N, F))[N]
  BY DEF Selected, Picks
<1> QED BY <1>1, <1>2

\* The queue an invocation begins with: cases of the corpus, each at most
\* once, and all that are owed.
LEMMA SelectedCases ==
    ASSUME NEW l
    PROVE  /\ Selected(l) \in Seq(Cases)
           /\ \A i, j \in DOMAIN Selected(l) : Selected(l)[i] = Selected(l)[j] => i = j
           /\ \A j \in DOMAIN Corpus : Owed(Corpus[j], l) =>
                \E k \in DOMAIN Selected(l) : Selected(l)[k] = Corpus[j].name
<1>0. /\ Len(Corpus) \in Nat /\ DOMAIN Corpus = 1 .. Len(Corpus)
      /\ \A i, j \in DOMAIN Corpus : Corpus[i].name = Corpus[j].name => i = j
  <2>1. Len(Corpus) \in Nat /\ DOMAIN Corpus = 1 .. Len(Corpus)
    BY GateAssumption
  <2> DEFINE names == [i \in DOMAIN Corpus |-> Corpus[i].name]
  <2>2. \A i, j \in DOMAIN names : names[i] = names[j] => i = j
    BY GateAssumption DEF IsInjective
  <2> QED BY <2>1, <2>2
<1> DEFINE N == Len(Corpus)
<1>1. PICK F : Picks(l, N, F) /\ Selected(l) = F[N]
  BY SelectedIs
<1>2. \A i \in 0 .. N :
        F[i] = IF i = 0 THEN <<>>
               ELSE IF Owed(Corpus[i], l) THEN Append(F[i - 1], Corpus[i].name)
               ELSE F[i - 1]
  BY <1>1 DEF Picks
<1> DEFINE Good(i) ==
        /\ F[i] \in Seq(Cases)
        /\ \A k \in DOMAIN F[i] : \E j \in 1 .. i : F[i][k] = Corpus[j].name
        /\ \A k, m \in DOMAIN F[i] : F[i][k] = F[i][m] => k = m
        /\ \A j \in 1 .. i : Owed(Corpus[j], l) =>
                \E k \in DOMAIN F[i] : F[i][k] = Corpus[j].name
<1>3. Good(0)
  <2>1. F[0] = <<>>
    BY <1>0, <1>2
  <2> QED BY <2>1
<1>4. ASSUME NEW i \in 1 .. N, Good(i - 1) PROVE Good(i)
  <2>1. i - 1 \in 0 .. N /\ i \in DOMAIN Corpus /\ Corpus[i].name \in Cases
    BY <1>0 DEF Cases
  <2>2. CASE ~Owed(Corpus[i], l)
    <3>1. F[i] = F[i - 1]
      BY <1>0, <1>2, <2>2
    <3>2. 1 .. i = 1 .. i - 1 \cup {i}
      BY <1>0
    <3> HIDE DEF N
    <3> QED BY <3>1, <3>2, <1>4, <2>2
  <2>3. CASE Owed(Corpus[i], l)
    <3>1. F[i] = Append(F[i - 1], Corpus[i].name)
      BY <1>0, <1>2, <2>3, i \in 0 .. N, i # 0
    <3> DEFINE n == Len(F[i - 1])
    <3>2. /\ F[i] \in Seq(Cases) /\ n \in Nat
          /\ DOMAIN F[i] = 1 .. n + 1 /\ DOMAIN F[i - 1] = 1 .. n
          /\ F[i][n + 1] = Corpus[i].name
          /\ \A k \in 1 .. n : F[i][k] = F[i - 1][k]
      BY <3>1, <2>1, <1>4
    <3> HIDE DEF n
    <3>3. \A k \in 1 .. n : F[i][k] # Corpus[i].name
      <4>1. ASSUME NEW k \in 1 .. n, F[i][k] = Corpus[i].name PROVE FALSE
        <5>1. PICK j \in 1 .. i - 1 : F[i - 1][k] = Corpus[j].name
          BY <3>2, <1>4
        <5>2. j \in DOMAIN Corpus /\ j # i
          BY <1>0
        <5> QED BY <5>1, <5>2, <4>1, <3>2, <2>1, <1>0
      <4> QED BY <4>1
    <3>4. \A k \in DOMAIN F[i] : \E j \in 1 .. i : F[i][k] = Corpus[j].name
      <4>1. ASSUME NEW k \in 1 .. n PROVE \E j \in 1 .. i : F[i][k] = Corpus[j].name
        <5>1. PICK j \in 1 .. i - 1 : F[i - 1][k] = Corpus[j].name
          BY <3>2, <1>4
        <5>2. j \in 1 .. i
          BY <1>0
        <5> QED BY <5>1, <5>2, <3>2
      <4>2. i \in 1 .. i
        BY <1>0
      <4> QED BY <4>1, <4>2, <3>2
    <3>5. \A k, m \in DOMAIN F[i] : F[i][k] = F[i][m] => k = m
      <4>1. \A k, m \in 1 .. n : F[i][k] = F[i][m] => k = m
        BY <3>2, <1>4
      <4>2. \A k \in DOMAIN F[i] : k \in 1 .. n \/ k = n + 1
        BY <3>2
      <4> QED BY <4>1, <4>2, <3>2, <3>3
    <3>6. ASSUME NEW j \in 1 .. i, Owed(Corpus[j], l)
          PROVE  \E k \in DOMAIN F[i] : F[i][k] = Corpus[j].name
      <4>1. CASE j = i
        <5>1. n + 1 \in DOMAIN F[i]
          BY <3>2
        <5> QED BY <5>1, <4>1, <3>2
      <4>2. CASE j # i
        <5>1. j \in 1 .. i - 1
          BY <4>2, <1>0
        <5>2. PICK k \in 1 .. n : F[i - 1][k] = Corpus[j].name
          BY <5>1, <3>6, <3>2, <1>4
        <5>3. k \in DOMAIN F[i]
          BY <3>2
        <5> QED BY <5>2, <5>3, <3>2
      <4> QED BY <4>1, <4>2
    <3> QED BY <3>2, <3>4, <3>5, <3>6
  <2> QED BY <2>2, <2>3
<1>5. Good(N)
  <2> DEFINE T == {i \in 0 .. N : ~Good(i)}
  <2> SUFFICES ASSUME T # {} PROVE FALSE
    BY <1>0
  <2>1. PICK n \in T : \A m \in T : ~ (m < n)
    <3>1. T \subseteq Nat
      BY <1>0
    <3> HIDE DEF T
    <3> QED BY <3>1, LeastOf
  <2> HIDE DEF Good
  <2>2. n \in 1 .. N /\ n - 1 \in 0 .. N /\ n - 1 < n
    BY <2>1, <1>0, <1>3
  <2> QED BY <2>1, <2>2, <1>4
<1> QED BY <1>0, <1>1, <1>5
-----------------------------------------------------------------------------
(* The parity gate: which thread has which case *)

Places == {"free", "simulate", "generate", "compile", "run", "judge"}
Verdicts == {"PASS", "FAIL", "ERROR"}

Working(w) == thread[w].at # "free"

GateTypes ==
    /\ gate \in {"idle", "running", "leaving"} /\ layer \in {"pr", "night"}
    /\ queue \in Seq(Cases)
    /\ thread \in [Threads -> [case : Cases \cup {Nothing}, at : Places]]
    /\ verdict \in [Cases -> Verdicts \cup {Nothing}]
    /\ \A w \in Threads : Working(w) => thread[w].case \in Cases

\* No case is waiting twice, worked on by two threads or waiting while one
\* works on it, and nothing is when the gate is idle.
OneThreadPerCase ==
    /\ \A i, j \in DOMAIN queue : queue[i] = queue[j] => i = j
    /\ \A w \in Threads : Working(w) => \A i \in DOMAIN queue : queue[i] # thread[w].case
    /\ \A w, x \in Threads :
        Working(w) /\ Working(x) /\ thread[w].case = thread[x].case => w = x
    /\ gate = "idle" => queue = <<>> /\ \A w \in Threads : ~Working(w)

\* Every case owed is judged, waiting or worked on, unless a runner of it could
\* not be started; only then does the gate leave.
NoCaseForgotten ==
    /\ gate = "leaving" => unstarted # {} /\ queue = <<>>
    /\ gate = "running" =>
        \A i \in DOMAIN Corpus : Owed(Corpus[i], layer) =>
            \/ verdict[Corpus[i].name] # Nothing
            \/ Corpus[i].name \in unstarted
            \/ \E w \in Threads : Working(w) /\ thread[w].case = Corpus[i].name
            \/ \E k \in DOMAIN queue : queue[k] = Corpus[i].name

PoolInv == GateTypes /\ OneThreadPerCase /\ NoCaseForgotten /\ ExitTellsAll

\* What a step does that only moves a thread on with its case.
Moves(w, at) ==
    /\ Working(w)
    /\ thread' = [thread EXCEPT ![w].at = at]
    /\ UNCHANGED <<gate, layer, build, queue, verdict, unstarted, result>>

LEMMA Moving ==
    ASSUME NEW w \in Threads,
           \/ SimulatorReports(w) \/ SimulatorGivesUp(w) \/ SimulatorDies(w)
           \/ Generate(w) \/ Compile(w)
           \/ VerilatorReports(w) \/ VerilatorGivesUp(w) \/ VerilatorDies(w)
    PROVE  \E at \in Places \ {"free", "simulate"} : Moves(w, at)
<1>1. CASE SimulatorReports(w) \/ SimulatorGivesUp(w) \/ SimulatorDies(w)
  <2>1. Moves(w, "generate")
    BY <1>1 DEF SimulatorReports, SimulatorGivesUp, SimulatorDies, Moves, MoveOn, Working
  <2> QED BY <2>1 DEF Places
<1>2. CASE Generate(w)
  <2>1. Moves(w, "compile")
    BY <1>2 DEF Generate, Moves, MoveOn, Working
  <2> QED BY <2>1 DEF Places
<1>3. CASE Compile(w)
  <2>1. Moves(w, "run")
    BY <1>3 DEF Compile, Moves, MoveOn, Working
  <2> QED BY <2>1 DEF Places
<1>4. CASE VerilatorReports(w) \/ VerilatorGivesUp(w) \/ VerilatorDies(w)
  <2>1. Moves(w, "judge")
    BY <1>4 DEF VerilatorReports, VerilatorGivesUp, VerilatorDies, AtVerilator, Moves, MoveOn,
                Working
  <2> QED BY <2>1 DEF Places
<1> QED BY <1>1, <1>2, <1>3, <1>4

LEMMA JudgementIsVerdict == \A c, s, v : Judgement(c, s, v) \in Verdicts
BY DEF Judgement, Verdicts

LEMMA PoolInitially == GateInit => PoolInv
<1> SUFFICES ASSUME GateInit PROVE PoolInv
  OBVIOUS
<1>1. GateTypes
  BY DEF GateInit, GateTypes, NoCase, Places, Working
<1>2. OneThreadPerCase /\ NoCaseForgotten
  BY DEF GateInit, OneThreadPerCase, NoCaseForgotten, NoCase, Working
<1>3. ExitTellsAll
  BY DEF GateInit, ExitTellsAll
<1> QED BY <1>1, <1>2, <1>3 DEF PoolInv

LEMMA PoolStarts == PoolInv /\ Start => PoolInv'
<1> SUFFICES ASSUME PoolInv, Start PROVE PoolInv'
  OBVIOUS
<1>0. /\ gate = "idle" /\ thread' = thread /\ layer' \in {"pr", "night"}
      /\ queue' = Selected(layer')
      /\ verdict' = [c \in Cases |-> Nothing]
      /\ gate' = IF queue' = <<>> THEN "idle" ELSE "running"
  BY DEF Start
<1>1. \A w \in Threads : ~Working(w) /\ ~Working(w)'
  BY <1>0 DEF PoolInv, OneThreadPerCase, Working
<1>2. PICK l : l = layer'
  OBVIOUS
<1>3. /\ queue' \in Seq(Cases)
      /\ \A i, j \in DOMAIN queue' : queue'[i] = queue'[j] => i = j
      /\ \A j \in DOMAIN Corpus : Owed(Corpus[j], l) =>
            \E k \in DOMAIN queue' : queue'[k] = Corpus[j].name
  BY <1>0, <1>2, SelectedCases
<1>4. GateTypes'
  BY <1>0, <1>1, <1>3 DEF PoolInv, GateTypes
<1>5. OneThreadPerCase'
  BY <1>0, <1>1, <1>3 DEF OneThreadPerCase
<1>6. NoCaseForgotten'
  BY <1>0, <1>2, <1>3 DEF NoCaseForgotten
<1>7. ExitTellsAll'
  BY <1>0 DEF ExitTellsAll
<1> QED BY <1>4, <1>5, <1>6, <1>7 DEF PoolInv

LEMMA PoolFinishes == PoolInv /\ Finish => PoolInv'
<1> SUFFICES ASSUME PoolInv, Finish PROVE PoolInv'
  OBVIOUS
<1>0. /\ gate = "running" /\ queue = <<>> /\ gate' = "idle"
      /\ \A w \in Threads : ~Working(w)
      /\ result' = ExitOf({verdict[c] : c \in Cases})
      /\ unstarted = {}
      /\ UNCHANGED <<layer, queue, thread, verdict, unstarted>>
  BY DEF Finish, Working
<1>1. GateTypes'
  BY <1>0 DEF PoolInv, GateTypes, Working
<1>2. OneThreadPerCase'
  BY <1>0 DEF PoolInv, OneThreadPerCase, Working
<1>3. NoCaseForgotten'
  BY <1>0 DEF NoCaseForgotten
<1>4. ExitTellsAll'
  <2>1. \A i \in DOMAIN Corpus : Owed(Corpus[i], layer) => verdict[Corpus[i].name] # Nothing
    BY <1>0 DEF PoolInv, NoCaseForgotten
  <2>2. \A i \in DOMAIN Corpus : Corpus[i].name \in Cases
    BY DEF Cases
  <2>3. \A c \in Cases : verdict[c] \in Verdicts \cup {Nothing}
    BY DEF PoolInv, GateTypes
  <2>4. result' = 0 => \A c \in Cases : verdict[c] \notin {"FAIL", "ERROR"}
    BY <1>0 DEF ExitOf
  <2>5. result' = 1 <=> \E c \in Cases : verdict[c] = "FAIL"
    BY <1>0 DEF ExitOf
  <2>6. result' = 0 => \A i \in DOMAIN Corpus :
                            Owed(Corpus[i], layer) => verdict[Corpus[i].name] = "PASS"
    BY <2>1, <2>2, <2>3, <2>4 DEF Verdicts
  <2> QED BY <2>5, <2>6, <1>0 DEF ExitTellsAll, Owed
<1> QED BY <1>1, <1>2, <1>3, <1>4 DEF PoolInv

LEMMA PoolTakes == \A w \in Threads : PoolInv /\ Take(w) => PoolInv'
<1> SUFFICES ASSUME NEW w \in Threads, PoolInv, Take(w) PROVE PoolInv'
  OBVIOUS
<1>1. PICK h : h = Head(queue)
  OBVIOUS
<1>2. /\ gate = "running" /\ ~Working(w) /\ queue # <<>>
      /\ thread' = [thread EXCEPT ![w] = [case |-> h, at |-> "simulate"]]
      /\ queue' = Tail(queue)
      /\ UNCHANGED <<gate, layer, verdict, unstarted, result>>
  BY <1>1 DEF Take, Working
<1> DEFINE n == Len(queue)
<1>3. /\ n \in Nat /\ 1 \in 1 .. n /\ DOMAIN queue = 1 .. n
      /\ h = queue[1] /\ h \in Cases
      /\ queue' \in Seq(Cases) /\ DOMAIN queue' = 1 .. n - 1
      /\ \A i \in 1 .. n - 1 : queue'[i] = queue[i + 1]
  BY <1>1, <1>2 DEF PoolInv, GateTypes
<1>4. /\ Working(w)' /\ thread'[w].case = h
      /\ \A x \in Threads \ {w} : thread'[x] = thread[x]
  BY <1>2 DEF PoolInv, GateTypes, Working
<1> HIDE DEF n
<1>5. GateTypes'
  <2>1. [case |-> h, at |-> "simulate"] \in [case : Cases \cup {Nothing}, at : Places]
    BY <1>3 DEF Places
  <2>2. thread' \in [Threads -> [case : Cases \cup {Nothing}, at : Places]]
    BY <2>1, <1>2 DEF PoolInv, GateTypes
  <2> QED BY <2>2, <1>2, <1>3, <1>4 DEF PoolInv, GateTypes, Working
<1>6. OneThreadPerCase'
  <2>1. \A i \in 1 .. n - 1 : i + 1 \in 1 .. n /\ i + 1 # 1 /\ queue'[i] = queue[i + 1]
    BY <1>3
  <2>2. \A i, j \in 1 .. n : queue[i] = queue[j] => i = j
    BY <1>3 DEF PoolInv, OneThreadPerCase
  <2>3. \A x \in Threads \ {w} : Working(x)' =>
            /\ Working(x) /\ thread[x].case = thread'[x].case
            /\ \A i \in 1 .. n : queue[i] # thread[x].case
    BY <1>3, <1>4 DEF PoolInv, OneThreadPerCase, Working
  <2>4. \A i, j \in DOMAIN queue' : queue'[i] = queue'[j] => i = j
    <3>1. ASSUME NEW i \in 1 .. n - 1, NEW j \in 1 .. n - 1, queue'[i] = queue'[j] PROVE i = j
      <4>1. i + 1 = j + 1
        BY <3>1, <2>1, <2>2
      <4> QED BY <4>1, <1>3
    <3> QED BY <3>1, <1>3
  <2>5. \A x \in Threads : Working(x)' => \A i \in DOMAIN queue' : queue'[i] # thread'[x].case
    <3>1. \A i \in 1 .. n - 1 : queue'[i] # h
      BY <2>1, <2>2, <1>3
    <3> QED BY <3>1, <2>1, <2>3, <1>3, <1>4
  <2>6. \A x \in Threads \ {w} : Working(x)' => thread'[x].case # h
    BY <2>3, <1>3
  <2>7. \A x, y \in Threads :
            Working(x)' /\ Working(y)' /\ thread'[x].case = thread'[y].case => x = y
    <3>1. \A x, y \in Threads \ {w} :
            Working(x)' /\ Working(y)' /\ thread'[x].case = thread'[y].case => x = y
      BY <2>3 DEF PoolInv, OneThreadPerCase
    <3> QED BY <3>1, <2>6, <1>4
  <2> QED BY <2>4, <2>5, <2>7, <1>2 DEF OneThreadPerCase
<1>7. NoCaseForgotten'
  <2>1. ASSUME NEW i \in DOMAIN Corpus, Owed(Corpus[i], layer)
        PROVE  \/ verdict'[Corpus[i].name] # Nothing
               \/ Corpus[i].name \in unstarted'
               \/ \E x \in Threads : Working(x)' /\ thread'[x].case = Corpus[i].name
               \/ \E k \in DOMAIN queue' : queue'[k] = Corpus[i].name
    <3>1. CASE verdict[Corpus[i].name] # Nothing
      BY <3>1, <1>2
    <3>2. ASSUME NEW x \in Threads, Working(x), thread[x].case = Corpus[i].name
          PROVE  Working(x)' /\ thread'[x].case = Corpus[i].name
      BY <3>2, <1>2, <1>4 DEF Working
    <3>3. ASSUME NEW k \in 1 .. n, queue[k] = Corpus[i].name
          PROVE  \/ Working(w)' /\ thread'[w].case = Corpus[i].name
                 \/ \E j \in 1 .. n - 1 : queue'[j] = Corpus[i].name
      <4>1. CASE k = 1
        BY <4>1, <3>3, <1>3, <1>4
      <4>2. CASE k # 1
        <5>1. k - 1 \in 1 .. n - 1 /\ (k - 1) + 1 = k
          BY <4>2, <1>3
        <5> QED BY <5>1, <3>3, <1>3
      <4> QED BY <4>1, <4>2
    <3> QED BY <3>1, <3>2, <3>3, <2>1, <1>2, <1>3 DEF PoolInv, NoCaseForgotten
  <2> QED BY <2>1, <1>2 DEF NoCaseForgotten, Owed
<1>8. ExitTellsAll'
  BY <1>2 DEF ExitTellsAll
<1> QED BY <1>5, <1>6, <1>7, <1>8 DEF PoolInv

LEMMA PoolMoves ==
    \A w \in Threads : \A at \in Places \ {"free"} : PoolInv /\ Moves(w, at) => PoolInv'
<1> SUFFICES ASSUME NEW w \in Threads, NEW at \in Places \ {"free"}, PoolInv, Moves(w, at)
             PROVE  PoolInv'
  OBVIOUS
<1>1. thread' \in [Threads -> [case : Cases \cup {Nothing}, at : Places]]
  BY DEF PoolInv, GateTypes, Moves
<1>2. \A x \in Threads : thread'[x].case = thread[x].case /\ (Working(x)' <=> Working(x))
  BY DEF PoolInv, GateTypes, Moves, Working
<1>3. UNCHANGED <<gate, layer, queue, verdict, unstarted, result>> /\ gate # "idle"
  BY DEF Moves, PoolInv, GateTypes, OneThreadPerCase
<1>4. GateTypes'
  BY <1>1, <1>2, <1>3 DEF PoolInv, GateTypes
<1>5. OneThreadPerCase'
  BY <1>2, <1>3 DEF PoolInv, OneThreadPerCase
<1>6. NoCaseForgotten'
  BY <1>2, <1>3 DEF PoolInv, NoCaseForgotten, Owed
<1>7. ExitTellsAll'
  BY <1>3 DEF ExitTellsAll
<1> QED BY <1>4, <1>5, <1>6, <1>7 DEF PoolInv

LEMMA PoolJudges == \A w \in Threads : PoolInv /\ Judge(w) => PoolInv'
<1> SUFFICES ASSUME NEW w \in Threads, PoolInv, Judge(w) PROVE PoolInv'
  OBVIOUS
<1>1. PICK c : c = thread[w].case
  OBVIOUS
<1>2. PICK j : j = Judgement(c, simReport[c], vlReport[c])
  OBVIOUS
<1>3. /\ Working(w) /\ c \in Cases /\ gate # "idle"
      /\ verdict' = [verdict EXCEPT ![c] = j] /\ j \in Verdicts
      /\ thread' = [thread EXCEPT ![w] = NoCase]
      /\ UNCHANGED <<gate, layer, queue, unstarted, result>>
  BY <1>1, <1>2, JudgementIsVerdict
     DEF Judge, PoolInv, GateTypes, OneThreadPerCase, Working
<1>4. /\ ~Working(w)'
      /\ \A x \in Threads \ {w} : thread'[x] = thread[x]
  BY <1>3 DEF PoolInv, GateTypes, Working, NoCase
<1>5. GateTypes'
  <2>1. NoCase \in [case : Cases \cup {Nothing}, at : Places]
    BY DEF NoCase, Places
  <2>2. thread' \in [Threads -> [case : Cases \cup {Nothing}, at : Places]]
    BY <2>1, <1>3 DEF PoolInv, GateTypes
  <2>3. verdict' \in [Cases -> Verdicts \cup {Nothing}]
    BY <1>3 DEF PoolInv, GateTypes
  <2> QED BY <2>2, <2>3, <1>3, <1>4 DEF PoolInv, GateTypes, Working
<1>6. OneThreadPerCase'
  BY <1>3, <1>4 DEF PoolInv, OneThreadPerCase, Working
<1>7. NoCaseForgotten'
  <2>1. ASSUME NEW i \in DOMAIN Corpus, Owed(Corpus[i], layer), gate = "running"
        PROVE  \/ verdict'[Corpus[i].name] # Nothing
               \/ Corpus[i].name \in unstarted'
               \/ \E x \in Threads : Working(x)' /\ thread'[x].case = Corpus[i].name
               \/ \E k \in DOMAIN queue' : queue'[k] = Corpus[i].name
    <3>0. Corpus[i].name \in Cases /\ j # Nothing
      BY <1>3, GateAssumption DEF Cases, Verdicts
    <3>1. CASE verdict[Corpus[i].name] # Nothing
      BY <3>0, <3>1, <1>3 DEF PoolInv, GateTypes
    <3>2. ASSUME NEW x \in Threads, Working(x), thread[x].case = Corpus[i].name
          PROVE  \/ verdict'[Corpus[i].name] # Nothing
                 \/ Working(x)' /\ thread'[x].case = Corpus[i].name
      <4>1. CASE x = w
        BY <4>1, <3>0, <3>2, <1>1, <1>3 DEF PoolInv, GateTypes
      <4>2. CASE x # w
        BY <4>2, <3>2, <1>4 DEF Working
      <4> QED BY <4>1, <4>2
    <3> QED BY <3>1, <3>2, <2>1, <1>3 DEF PoolInv, NoCaseForgotten
  <2> QED BY <2>1, <1>3 DEF PoolInv, NoCaseForgotten, Owed
<1>8. ExitTellsAll'
  BY <1>3 DEF ExitTellsAll
<1> QED BY <1>5, <1>6, <1>7, <1>8 DEF PoolInv

LEMMA PoolMissesRunner == \A w \in Threads : PoolInv /\ RunnerMissing(w) => PoolInv'
<1> SUFFICES ASSUME NEW w \in Threads, PoolInv, RunnerMissing(w) PROVE PoolInv'
  OBVIOUS
<1>1. PICK c : c = thread[w].case
  OBVIOUS
<1>2. /\ Working(w) /\ c \in Cases /\ gate # "idle"
      /\ unstarted' = unstarted \cup {c}
      /\ thread' = [thread EXCEPT ![w] = NoCase]
      /\ UNCHANGED <<gate, layer, queue, verdict, result>>
  BY <1>1 DEF RunnerMissing, PoolInv, GateTypes, OneThreadPerCase, Working
<1>3. /\ ~Working(w)'
      /\ \A x \in Threads \ {w} : thread'[x] = thread[x]
  BY <1>2 DEF PoolInv, GateTypes, Working, NoCase
<1>4. GateTypes'
  <2>1. NoCase \in [case : Cases \cup {Nothing}, at : Places]
    BY DEF NoCase, Places
  <2>2. thread' \in [Threads -> [case : Cases \cup {Nothing}, at : Places]]
    BY <2>1, <1>2 DEF PoolInv, GateTypes
  <2> QED BY <2>2, <1>2, <1>3 DEF PoolInv, GateTypes, Working
<1>5. OneThreadPerCase'
  BY <1>2, <1>3 DEF PoolInv, OneThreadPerCase, Working
<1>6. NoCaseForgotten'
  <2>1. ASSUME NEW x \in Threads, NEW d, Working(x), thread[x].case = d
        PROVE  d \in unstarted' \/ (Working(x)' /\ thread'[x].case = d)
    <3>1. CASE x = w
      BY <3>1, <2>1, <1>1, <1>2
    <3>2. CASE x # w
      BY <3>2, <2>1, <1>3 DEF Working
    <3> QED BY <3>1, <3>2
  <2> QED BY <2>1, <1>2 DEF PoolInv, NoCaseForgotten, Owed
<1>7. ExitTellsAll'
  BY <1>2 DEF ExitTellsAll
<1> QED BY <1>4, <1>5, <1>6, <1>7 DEF PoolInv

LEMMA PoolAborts == PoolInv /\ Abort => PoolInv'
<1> SUFFICES ASSUME PoolInv, Abort PROVE PoolInv'
  OBVIOUS
<1>1. /\ gate' = "leaving" /\ queue' = <<>> /\ unstarted # {} /\ DOMAIN queue' = {}
      /\ UNCHANGED <<layer, thread, verdict, unstarted, result>>
  BY DEF Abort
<1>2. GateTypes'
  BY <1>1 DEF PoolInv, GateTypes, Working
<1>3. OneThreadPerCase'
  BY <1>1 DEF PoolInv, OneThreadPerCase, Working
<1> QED BY <1>1, <1>2, <1>3 DEF PoolInv, NoCaseForgotten, ExitTellsAll

LEMMA PoolLeaves == PoolInv /\ Leave => PoolInv'
<1> SUFFICES ASSUME PoolInv, Leave PROVE PoolInv'
  OBVIOUS
<1>1. /\ gate' = "idle" /\ queue = <<>> /\ unstarted # {}
      /\ \A w \in Threads : ~Working(w)
      /\ UNCHANGED <<layer, queue, thread, verdict, unstarted>>
  BY DEF Leave, PoolInv, NoCaseForgotten, Working
<1>2. GateTypes'
  BY <1>1 DEF PoolInv, GateTypes, Working
<1>3. OneThreadPerCase'
  BY <1>1 DEF PoolInv, OneThreadPerCase, Working
<1> QED BY <1>1, <1>2, <1>3 DEF PoolInv, NoCaseForgotten, ExitTellsAll

LEMMA PoolStep == PoolInv /\ [GateNext]_gateVars => PoolInv'
<1> SUFFICES ASSUME PoolInv, [GateNext]_gateVars PROVE PoolInv'
  OBVIOUS
<1>1. ASSUME NEW w \in Threads, RunCase(w) PROVE PoolInv'
  <2>1. CASE Take(w)
    BY <2>1, PoolTakes
  <2>2. CASE Judge(w)
    BY <2>2, PoolJudges
  <2>3. CASE \/ SimulatorReports(w) \/ SimulatorGivesUp(w) \/ SimulatorDies(w)
             \/ Generate(w) \/ Compile(w)
             \/ VerilatorReports(w) \/ VerilatorGivesUp(w) \/ VerilatorDies(w)
    BY <2>3, Moving, PoolMoves
  <2>4. CASE RunnerMissing(w)
    BY <2>4, PoolMissesRunner
  <2> QED BY <1>1, <2>1, <2>2, <2>3, <2>4 DEF RunCase
<1>2. CASE UNCHANGED gateVars
  BY <1>2 DEF gateVars, PoolInv, GateTypes, OneThreadPerCase, NoCaseForgotten, ExitTellsAll,
              Working, Owed
<1> QED BY <1>1, <1>2, PoolStarts, PoolFinishes, PoolAborts, PoolLeaves DEF GateNext

\* If every runner could be started, the exit code tells the truth about the
\* whole corpus, whatever the runners do, the threads' order and the work
\* directory.
THEOREM Exit == GateSpec => []ExitTellsAll
<1>1. PoolInv => ExitTellsAll
  BY DEF PoolInv
<1> QED BY <1>1, PoolInitially, PoolStep, PTL DEF GateSpec
-----------------------------------------------------------------------------
(* The parity gate: what the reports are of *)

ReportOfModel(c) == Report(build[c].vl, build[c].vl.trace, Cap(c))

\* With a fresh work directory every report on a case is of this build, the
\* simulator's with a signature that has passed its check, ...
OfThisBuild(c) ==
    /\ {simFile[c], simReport[c]} \subseteq {Nothing, ReportOfSimulator(c)}
    /\ {vlFile[c], vlReport[c]} \subseteq {Nothing, ReportOfModel(c)}
    /\ ~SignatureIsReal(ReportOfSimulator(c)) => simFile[c] = Nothing /\ simReport[c] = Nothing

Untouched(c) ==
    /\ simFile[c] = Nothing /\ vlFile[c] = Nothing
    /\ simReport[c] = Nothing /\ vlReport[c] = Nothing
    /\ c \notin failed

\* ... a failed runner leaves its report missing until the case is judged, ...
AtPlace(c, at) ==
    /\ verdict[c] = Nothing
    /\ at = "simulate" => Untouched(c)
    /\ at \in AtVerilator =>
        /\ vlFile[c] = Nothing /\ vlReport[c] = Nothing
        /\ c \in failed => simReport[c] = Nothing
    /\ at = "compile" => netlist[c] = c
    /\ at = "run" => model[c] = c
    /\ at = "judge" => (c \in failed => Nothing \in {simReport[c], vlReport[c]})

\* ... and a verdict is the judgement on the reports.
Judged(c) ==
    verdict[c] # Nothing =>
        /\ verdict[c] = Judgement(c, simReport[c], vlReport[c])
        /\ c \in failed => Nothing \in {simReport[c], vlReport[c]}

ByCase(f) == f = [c \in Cases |-> f[c]]

ReportTypes ==
    /\ ByCase(simFile) /\ ByCase(vlFile) /\ ByCase(netlist) /\ ByCase(model)
    /\ ByCase(simReport) /\ ByCase(vlReport)

ReportInv ==
    /\ ReportTypes
    /\ \A c \in Cases : OfThisBuild(c) /\ Judged(c)
    /\ \A i \in DOMAIN queue : Untouched(queue[i]) /\ verdict[queue[i]] = Nothing
    /\ \A w \in Threads : Working(w) => AtPlace(thread[w].case, thread[w].at)

\* Nothing of the case changes.
Same(c) ==
    /\ simFile'[c] = simFile[c] /\ vlFile'[c] = vlFile[c]
    /\ netlist'[c] = netlist[c] /\ model'[c] = model[c]
    /\ simReport'[c] = simReport[c] /\ vlReport'[c] = vlReport[c]
    /\ verdict'[c] = verdict[c] /\ (c \in failed' <=> c \in failed)

LEMMA SameKeeps ==
    ASSUME NEW c, Same(c), build' = build
    PROVE  /\ OfThisBuild(c)' <=> OfThisBuild(c)
           /\ Judged(c)' <=> Judged(c)
           /\ Untouched(c)' <=> Untouched(c)
           /\ \A at : AtPlace(c, at)' <=> AtPlace(c, at)
BY DEF Same, OfThisBuild, ReportOfSimulator, ReportOfModel, Judged, Untouched, AtPlace

\* A step on one case of one thread has to answer for that case only.
LEMMA OneCaseAtATime ==
    ASSUME PoolInv, ReportInv, ReportTypes',
           NEW w \in Threads, Working(w), NEW c, c = thread[w].case,
           build' = build, queue' = queue,
           \A d \in Cases \ {c} : Same(d),
           \A x \in Threads \ {w} : thread'[x] = thread[x],
           thread'[w].case = c \/ ~Working(w)',
           OfThisBuild(c)', Judged(c)',
           NEW at, Working(w)' => thread'[w].at = at /\ AtPlace(c, at)'
    PROVE  ReportInv'
<1>1. c \in Cases
  BY DEF PoolInv, GateTypes
<1>2. \A d \in Cases : OfThisBuild(d)' /\ Judged(d)'
  <2>1. \A d \in Cases \ {c} : OfThisBuild(d)' /\ Judged(d)'
    BY SameKeeps DEF ReportInv
  <2> QED BY <2>1
<1>3. (\A i \in DOMAIN queue : Untouched(queue[i]) /\ verdict[queue[i]] = Nothing)'
  <2>1. ASSUME NEW i \in DOMAIN queue, NEW d, d = queue[i]
        PROVE  Untouched(d)' /\ verdict'[d] = Nothing
    <3>1. d \in Cases \ {c}
      BY <2>1 DEF PoolInv, GateTypes, OneThreadPerCase
    <3>2. Untouched(d) /\ verdict[d] = Nothing /\ Same(d)
      BY <2>1, <3>1 DEF ReportInv
    <3>3. Untouched(d)'
      BY <3>2, SameKeeps
    <3> QED BY <3>2, <3>3 DEF Same
  <2>2. \A d : \A i \in DOMAIN queue : d = queue[i] => Untouched(d)' /\ verdict'[d] = Nothing
    BY <2>1
  <2> QED BY <2>2 DEF Untouched
<1>4. (\A x \in Threads : Working(x) => AtPlace(thread[x].case, thread[x].at))'
  <2>1. ASSUME NEW x \in Threads \ {w}, NEW d, d = thread[x].case, NEW p, p = thread[x].at,
               Working(x)
        PROVE  AtPlace(d, p)'
    <3>1. d \in Cases \ {c}
      BY <2>1 DEF PoolInv, GateTypes, OneThreadPerCase
    <3>2. AtPlace(d, p)
      BY <2>1 DEF ReportInv
    <3> QED BY <3>1, <3>2, SameKeeps
  <2>2. \A x \in Threads : \A d, p :
            Working(x)' /\ d = thread'[x].case /\ p = thread'[x].at => AtPlace(d, p)'
    <3>1. ASSUME NEW x \in Threads, NEW d, NEW p, Working(x)', d = thread'[x].case,
                 p = thread'[x].at
          PROVE  AtPlace(d, p)'
      <4>1. CASE x = w
        BY <4>1, <3>1
      <4>2. CASE x # w
        BY <4>2, <3>1, <2>1 DEF Working
      <4> QED BY <4>1, <4>2
    <3> QED BY <3>1
  <2> QED BY <2>2 DEF AtPlace, Untouched
<1> QED BY <1>2, <1>3, <1>4 DEF ReportInv

\* What the steps of a runner have in common.
OneCase(w, c, at) ==
    /\ c = thread[w].case /\ c \in Cases
    /\ Working(w) /\ thread'[w].case = c /\ thread'[w].at = at
    /\ \A x \in Threads \ {w} : thread'[x] = thread[x]
    /\ build' = build /\ queue' = queue /\ verdict' = verdict /\ verdict[c] = Nothing
    /\ OfThisBuild(c) /\ AtPlace(c, thread[w].at)

LEMMA MovingOn ==
    ASSUME PoolInv, ReportInv, NEW w \in Threads, Working(w), NEW at, MoveOn(w, at)
    PROVE  \E c : OneCase(w, c, at)
<1>1. PICK c : c = thread[w].case
  OBVIOUS
<1>2. PICK p : p = thread[w].at
  OBVIOUS
<1>3. c \in Cases /\ AtPlace(c, p) /\ OfThisBuild(c)
  BY <1>1, <1>2 DEF PoolInv, GateTypes, ReportInv
<1>4. /\ thread'[w].case = c /\ thread'[w].at = at
      /\ \A x \in Threads \ {w} : thread'[x] = thread[x]
  BY <1>1 DEF PoolInv, GateTypes, MoveOn
<1> QED BY <1>1, <1>2, <1>3, <1>4 DEF OneCase, MoveOn, AtPlace

LEMMA SimulatorStep ==
    ASSUME PoolInv, ReportInv, NEW w \in Threads,
           SimulatorReports(w) \/ SimulatorGivesUp(w) \/ SimulatorDies(w)
    PROVE  ReportInv'
<1>0. Working(w) /\ MoveOn(w, "generate") /\ thread[w].at = "simulate"
  BY DEF SimulatorReports, SimulatorGivesUp, SimulatorDies, Working
<1>1. PICK c : OneCase(w, c, "generate")
  BY <1>0, MovingOn
<1>2. /\ c \in Cases /\ c = thread[w].case /\ Untouched(c) /\ OfThisBuild(c)
      /\ verdict'[c] = Nothing
  BY <1>0, <1>1 DEF OneCase, AtPlace
<1>3. PICK r : r = ReportOfSimulator(c)
  OBVIOUS
<1>4. r = ReportOfSimulator(c)'
  BY <1>1, <1>3 DEF OneCase, ReportOfSimulator
<1>5. ReportTypes
  BY DEF ReportInv
\* What becomes of the file, of what is read and of the case, together.
<1> DEFINE Outcome ==
        /\ UNCHANGED <<vlFile, netlist, model, vlReport>>
        /\ ReportTypes'
        /\ \A d \in Cases \ {c} : simFile'[d] = simFile[d] /\ simReport'[d] = simReport[d]
        /\ \A d \in Cases \ {c} : d \in failed' <=> d \in failed
        /\ {simFile'[c], simReport'[c]} \subseteq {Nothing, r}
        /\ ~SignatureIsReal(r) => simFile'[c] = Nothing /\ simReport'[c] = Nothing
        /\ c \in failed' => simReport'[c] = Nothing
<1>6. ASSUME SimulatorReports(w) PROVE Outcome
  <2>1. /\ SignatureIsReal(r)
        /\ simFile' = [simFile EXCEPT ![c] = r] /\ simReport' = [simReport EXCEPT ![c] = r]
        /\ UNCHANGED <<vlFile, netlist, model, vlReport, failed>>
    BY <1>2, <1>3, <1>6 DEF SimulatorReports
  <2> QED BY <2>1, <1>2, <1>5 DEF ReportTypes, ByCase, Untouched
<1>7. ASSUME SimulatorGivesUp(w) PROVE Outcome
  <2>1. /\ simReport' = [simReport EXCEPT ![c] = simFile[c]] /\ failed' = failed \cup {c}
        /\ UNCHANGED <<simFile, vlFile, netlist, model, vlReport>>
    BY <1>2, <1>7 DEF SimulatorGivesUp, files
  <2> QED BY <2>1, <1>2, <1>5 DEF ReportTypes, ByCase, Untouched
<1>8. ASSUME SimulatorDies(w) PROVE Outcome
  <2>1. /\ \/ simFile' = simFile
           \/ SignatureIsReal(r) /\ simFile' = [simFile EXCEPT ![c] = r]
        /\ failed' = failed \cup {c}
        /\ UNCHANGED <<vlFile, netlist, model, simReport, vlReport>>
    BY <1>2, <1>3, <1>8 DEF SimulatorDies
  <2> QED BY <2>1, <1>2, <1>5 DEF ReportTypes, ByCase, Untouched
<1>9. Outcome
  BY <1>6, <1>7, <1>8
<1> HIDE DEF Outcome
<1>10. ReportTypes' /\ \A d \in Cases \ {c} : Same(d)
  BY <1>1, <1>9 DEF Outcome, OneCase, Same
<1>11. AtPlace(c, "generate")' /\ Judged(c)'
  BY <1>2, <1>9 DEF Outcome, AtPlace, Untouched, Judged
<1>12. OfThisBuild(c)'
  <2>1. ReportOfModel(c)' = ReportOfModel(c)
    BY <1>1 DEF OneCase, ReportOfModel
  <2>2. SignatureIsReal(r)' <=> SignatureIsReal(r)
    BY DEF SignatureIsReal
  <2> QED BY <1>2, <1>4, <1>9, <2>1, <2>2 DEF Outcome, OfThisBuild
<1> QED BY <1>1, <1>10, <1>11, <1>12, OneCaseAtATime DEF OneCase

LEMMA ModelStep ==
    ASSUME PoolInv, ReportInv, NEW w \in Threads, Generate(w) \/ Compile(w)
    PROVE  ReportInv'
<1> DEFINE at == IF thread[w].at = "generate" THEN "compile" ELSE "run"
<1>0. Working(w) /\ MoveOn(w, at) /\ thread[w].at \in {"generate", "compile"}
  BY DEF Generate, Compile, Working
<1>1. PICK p : p = at
  OBVIOUS
<1>2. PICK c : OneCase(w, c, p)
  BY <1>0, <1>1, MovingOn
<1>3. ReportTypes
  BY DEF ReportInv
<1>4. /\ UNCHANGED <<simFile, vlFile, simReport, vlReport, failed>> /\ c \in Cases
      /\ c = thread[w].case
  BY <1>2 DEF Generate, Compile, OneCase
<1>5. /\ \A d \in Cases \ {c} : netlist'[d] = netlist[d] /\ model'[d] = model[d]
      /\ ReportTypes'
      /\ p = "compile" => netlist'[c] = c
      /\ p = "run" => model'[c] = c
      /\ p \in {"compile", "run"}
  <2>1. CASE Generate(w)
    <3>1. netlist' = [netlist EXCEPT ![c] = c] /\ model' = model /\ p = "compile"
      BY <2>1, <1>1, <1>4 DEF Generate, Directory
    <3> QED BY <3>1, <1>3, <1>4 DEF ReportTypes, ByCase
  <2>2. CASE Compile(w)
    <3>1. netlist[c] = c /\ p = "run"
      BY <2>2, <1>1, <1>2 DEF Compile, OneCase, AtPlace
    <3>2. model' = [model EXCEPT ![c] = c] /\ netlist' = netlist
      BY <2>2, <3>1, <1>4 DEF Compile, Directory
    <3> QED BY <3>1, <3>2, <1>3, <1>4 DEF ReportTypes, ByCase
  <2> QED BY <2>1, <2>2
<1>6. AtPlace(c, p)' /\ Judged(c)'
  <2>1. AtPlace(c, "generate") \/ AtPlace(c, "compile")
    BY <1>0, <1>2 DEF OneCase
  <2>2. /\ vlFile[c] = Nothing /\ vlReport[c] = Nothing
        /\ c \in failed => simReport[c] = Nothing
    BY <2>1 DEF AtPlace, AtVerilator
  <2> QED BY <2>2, <1>2, <1>4, <1>5 DEF OneCase, AtPlace, Judged
<1>7. OfThisBuild(c)'
  BY <1>2, <1>4 DEF OneCase, OfThisBuild, ReportOfSimulator, ReportOfModel
<1>8. \A d \in Cases \ {c} : Same(d)
  BY <1>2, <1>4, <1>5 DEF OneCase, Same
<1> QED BY <1>2, <1>5, <1>6, <1>7, <1>8, OneCaseAtATime DEF OneCase

LEMMA VerilatorStep ==
    ASSUME PoolInv, ReportInv, NEW w \in Threads,
           VerilatorReports(w) \/ VerilatorGivesUp(w) \/ VerilatorDies(w)
    PROVE  ReportInv'
<1>0. Working(w) /\ MoveOn(w, "judge") /\ thread[w].at \in AtVerilator
  BY DEF VerilatorReports, VerilatorGivesUp, VerilatorDies, AtVerilator, Working
<1>1. PICK c : OneCase(w, c, "judge")
  BY <1>0, MovingOn
<1>2. /\ c \in Cases /\ c = thread[w].case /\ OfThisBuild(c)
      /\ vlFile[c] = Nothing /\ vlReport[c] = Nothing
      /\ c \in failed => simReport[c] = Nothing
      /\ verdict'[c] = Nothing
  BY <1>0, <1>1 DEF OneCase, AtPlace
<1>3. PICK r : r = ReportOfModel(c)
  OBVIOUS
<1>4. r = ReportOfModel(c)' /\ (thread[w].at = "run" => r = ReportOfVerilator(c))
  BY <1>1, <1>3 DEF OneCase, AtPlace, ReportOfModel, ReportOfVerilator, Directory
<1>5. ReportTypes
  BY DEF ReportInv
<1> DEFINE Outcome ==
        /\ UNCHANGED <<simFile, netlist, model, simReport>>
        /\ ReportTypes'
        /\ \A d \in Cases \ {c} : vlFile'[d] = vlFile[d] /\ vlReport'[d] = vlReport[d]
        /\ \A d \in Cases \ {c} : d \in failed' <=> d \in failed
        /\ {vlFile'[c], vlReport'[c]} \subseteq {Nothing, r}
        /\ c \in failed' => Nothing \in {simReport'[c], vlReport'[c]}
<1>6. ASSUME VerilatorReports(w) PROVE Outcome
  <2>1. /\ vlFile' = [vlFile EXCEPT ![c] = r] /\ vlReport' = [vlReport EXCEPT ![c] = r]
        /\ UNCHANGED <<simFile, netlist, model, simReport, failed>>
    BY <1>2, <1>4, <1>6 DEF VerilatorReports
  <2> QED BY <2>1, <1>2, <1>5 DEF ReportTypes, ByCase
<1>7. ASSUME VerilatorGivesUp(w) PROVE Outcome
  <2>1. /\ vlReport' = [vlReport EXCEPT ![c] = vlFile[c]] /\ failed' = failed \cup {c}
        /\ UNCHANGED <<simFile, vlFile, netlist, model, simReport>>
    BY <1>2, <1>7 DEF VerilatorGivesUp, files
  <2> QED BY <2>1, <1>2, <1>5 DEF ReportTypes, ByCase
<1>8. ASSUME VerilatorDies(w) PROVE Outcome
  <2>1. /\ vlFile' = vlFile \/ vlFile' = [vlFile EXCEPT ![c] = r]
        /\ failed' = failed \cup {c}
        /\ UNCHANGED <<simFile, netlist, model, simReport, vlReport>>
    BY <1>2, <1>4, <1>8 DEF VerilatorDies
  <2> QED BY <2>1, <1>2, <1>5 DEF ReportTypes, ByCase
<1>9. Outcome
  BY <1>6, <1>7, <1>8
<1> HIDE DEF Outcome
<1>10. ReportTypes' /\ \A d \in Cases \ {c} : Same(d)
  BY <1>1, <1>9 DEF Outcome, OneCase, Same
<1>11. AtPlace(c, "judge")' /\ Judged(c)'
  BY <1>2, <1>9 DEF Outcome, AtPlace, AtVerilator, Judged
<1>12. OfThisBuild(c)'
  <2>1. ReportOfSimulator(c)' = ReportOfSimulator(c)
    BY <1>1 DEF OneCase, ReportOfSimulator
  <2>2. PICK q : q = ReportOfSimulator(c)
    OBVIOUS
  <2> QED BY <1>2, <1>4, <1>9, <2>1, <2>2 DEF Outcome, OfThisBuild
<1> QED BY <1>1, <1>10, <1>11, <1>12, OneCaseAtATime DEF OneCase

LEMMA JudgeStep ==
    ASSUME PoolInv, ReportInv, NEW w \in Threads, Judge(w)
    PROVE  ReportInv'
<1>1. PICK c : c = thread[w].case
  OBVIOUS
<1>2. PICK j : j = Judgement(c, simReport[c], vlReport[c])
  OBVIOUS
<1>3. /\ Working(w) /\ c \in Cases /\ thread[w].at = "judge"
      /\ verdict' = [verdict EXCEPT ![c] = j]
      /\ thread' = [thread EXCEPT ![w] = NoCase]
      /\ UNCHANGED <<build, queue, simFile, vlFile, netlist, model, simReport, vlReport, failed>>
  BY <1>1, <1>2 DEF Judge, PoolInv, GateTypes, Working, files
<1>4. AtPlace(c, "judge") /\ OfThisBuild(c)
  BY <1>1, <1>3 DEF ReportInv
<1>5. ~Working(w)' /\ \A x \in Threads \ {w} : thread'[x] = thread[x]
  BY <1>3 DEF PoolInv, GateTypes, Working, NoCase
<1>6. verdict'[c] = j /\ \A d \in Cases \ {c} : verdict'[d] = verdict[d]
  BY <1>3 DEF PoolInv, GateTypes
<1>7. \A d \in Cases \ {c} : Same(d)
  BY <1>3, <1>6 DEF Same
<1>8. OfThisBuild(c)' /\ ReportTypes'
  BY <1>3, <1>4 DEF OfThisBuild, ReportOfSimulator, ReportOfModel, ReportTypes, ByCase, ReportInv
<1>9. Judged(c)'
  <2>1. c \in failed => Nothing \in {simReport[c], vlReport[c]}
    BY <1>4 DEF AtPlace
  <2>2. Judgement(c, simReport[c], vlReport[c])' = j
    BY <1>2, <1>3
  <2> QED BY <1>3, <1>6, <2>1, <2>2 DEF Judged
<1> QED BY <1>1, <1>3, <1>5, <1>7, <1>8, <1>9, OneCaseAtATime

LEMMA MissingStep ==
    ASSUME PoolInv, ReportInv, NEW w \in Threads, RunnerMissing(w)
    PROVE  ReportInv'
<1>1. PICK c : c = thread[w].case
  OBVIOUS
<1>2. /\ Working(w) /\ c \in Cases
      /\ thread' = [thread EXCEPT ![w] = NoCase]
      /\ UNCHANGED <<build, queue, simFile, vlFile, netlist, model, simReport, vlReport, verdict,
                     failed>>
  BY <1>1 DEF RunnerMissing, PoolInv, GateTypes, Working, files
<1>3. ~Working(w)' /\ \A x \in Threads \ {w} : thread'[x] = thread[x]
  BY <1>2 DEF PoolInv, GateTypes, Working, NoCase
<1>4. \A d \in Cases : Same(d)
  BY <1>2 DEF Same
<1>5. OfThisBuild(c)' /\ Judged(c)'
  BY <1>2, <1>4, SameKeeps DEF ReportInv
<1>6. ReportTypes'
  BY <1>2 DEF ReportInv, ReportTypes, ByCase
<1> QED BY <1>1, <1>2, <1>3, <1>4, <1>5, <1>6, OneCaseAtATime

\* Nothing is known of any case: how every invocation begins.
Blank ==
    /\ ReportTypes
    /\ \A w \in Threads : ~Working(w)
    /\ \A c \in Cases : Untouched(c) /\ verdict[c] = Nothing
    /\ queue \in Seq(Cases)

LEMMA BlankIsFine == Blank => ReportInv
<1> SUFFICES ASSUME Blank PROVE ReportInv
  OBVIOUS
<1>1. \A c \in Cases : OfThisBuild(c) /\ Judged(c)
  BY DEF Blank, Untouched, OfThisBuild, Judged
<1>2. \A i \in DOMAIN queue : queue[i] \in Cases
  BY DEF Blank
<1> QED BY <1>1, <1>2 DEF Blank, ReportInv

LEMMA ReportInitially == GateInit => Blank
BY DEF GateInit, Blank, ReportTypes, ByCase, Untouched, Working, NoCase

LEMMA StartIsBlank == ASSUME Fresh, PoolInv, Start PROVE Blank'
<1>1. /\ simFile' = [c \in Cases |-> Nothing] /\ vlFile' = [c \in Cases |-> Nothing]
      /\ netlist' = [c \in Cases |-> Nothing] /\ model' = [c \in Cases |-> Nothing]
      /\ simReport' = [c \in Cases |-> Nothing] /\ vlReport' = [c \in Cases |-> Nothing]
      /\ verdict' = [c \in Cases |-> Nothing] /\ failed' = {}
      /\ thread' = thread /\ gate = "idle" /\ queue' = Selected(layer')
  BY DEF Start, Emptied
<1>2. ReportTypes' /\ \A c \in Cases : Untouched(c)' /\ verdict'[c] = Nothing
  BY <1>1 DEF ReportTypes, ByCase, Untouched
<1>3. \A w \in Threads : ~Working(w)'
  BY <1>1 DEF PoolInv, OneThreadPerCase, Working
<1>4. queue' \in Seq(Cases)
  BY <1>1, SelectedCases
<1> QED BY <1>2, <1>3, <1>4 DEF Blank

LEMMA TakeStep ==
    ASSUME PoolInv, PoolInv', ReportInv, NEW w \in Threads, Take(w)
    PROVE  ReportInv'
<1>1. PICK c : c = Head(queue)
  OBVIOUS
<1>2. /\ thread' = [thread EXCEPT ![w] = [case |-> c, at |-> "simulate"]]
      /\ queue # <<>> /\ queue' = Tail(queue)
      /\ UNCHANGED <<build, simFile, vlFile, netlist, model, simReport, vlReport, verdict, failed>>
  BY <1>1 DEF Take, files
<1>3. /\ Len(queue) \in Nat /\ 1 \in DOMAIN queue /\ c = queue[1]
      /\ \A i \in DOMAIN queue' : i + 1 \in DOMAIN queue /\ queue'[i] = queue[i + 1]
  BY <1>1, <1>2 DEF PoolInv, GateTypes
<1>4. \A d : OfThisBuild(d)' = OfThisBuild(d) /\ Judged(d)' = Judged(d)
  BY <1>2 DEF OfThisBuild, ReportOfSimulator, ReportOfModel, Judged
<1>5. \A d : (Untouched(d)' <=> Untouched(d)) /\ \A p : AtPlace(d, p)' <=> AtPlace(d, p)
  BY <1>2 DEF Untouched, AtPlace
<1>6. (\A i \in DOMAIN queue : Untouched(queue[i]) /\ verdict[queue[i]] = Nothing)'
  <2>1. \A d : \A i \in DOMAIN queue' : d = queue'[i] => Untouched(d)' /\ verdict'[d] = Nothing
    BY <1>2, <1>3, <1>5 DEF ReportInv
  <2> QED BY <2>1 DEF Untouched
<1>7. AtPlace(c, "simulate")'
  <2>1. Untouched(c) /\ verdict[c] = Nothing
    BY <1>3 DEF ReportInv
  <2>2. AtPlace(c, "simulate")
    BY <2>1 DEF AtPlace, AtVerilator
  <2> QED BY <2>2, <1>5
<1>8. (\A x \in Threads : Working(x) => AtPlace(thread[x].case, thread[x].at))'
  <2>1. /\ thread'[w].case = c /\ thread'[w].at = "simulate"
        /\ \A x \in Threads \ {w} : thread'[x] = thread[x]
    BY <1>2 DEF PoolInv, GateTypes
  <2>2. \A x \in Threads : \A d, p :
            Working(x)' /\ d = thread'[x].case /\ p = thread'[x].at => AtPlace(d, p)'
    <3>1. ASSUME NEW x \in Threads, x # w, NEW d, NEW p, Working(x)',
                 d = thread'[x].case, p = thread'[x].at
          PROVE  AtPlace(d, p)'
      <4>1. AtPlace(d, p)
        BY <3>1, <2>1 DEF ReportInv, Working
      <4> QED BY <4>1, <1>5
    <3> QED BY <3>1, <2>1, <1>7
  <2> QED BY <2>2 DEF AtPlace, Untouched
<1>9. ReportTypes'
  BY <1>2 DEF ReportInv, ReportTypes, ByCase
<1> QED BY <1>4, <1>6, <1>8, <1>9 DEF ReportInv

LEMMA ReportStep ==
    ASSUME Fresh PROVE PoolInv /\ ReportInv /\ [GateNext]_gateVars => ReportInv'
<1> SUFFICES ASSUME PoolInv, ReportInv, [GateNext]_gateVars PROVE ReportInv'
  OBVIOUS
<1>0. PoolInv'
  BY PoolStep
<1>1. CASE Start
  <2>1. Blank'
    BY <1>1, StartIsBlank
  <2> QED BY <2>1, BlankIsFine, PTL
<1>2. ASSUME NEW w \in Threads, RunCase(w) PROVE ReportInv'
  BY <1>0, <1>2, TakeStep, SimulatorStep, ModelStep, VerilatorStep, JudgeStep, MissingStep
     DEF RunCase
<1>3. CASE Finish \/ Leave \/ UNCHANGED gateVars
  <2>1. UNCHANGED <<build, queue, thread, simFile, vlFile, netlist, model, simReport, vlReport,
                    verdict, failed>>
    BY <1>3 DEF Finish, Leave, gateVars, files
  <2> QED BY <2>1 DEF ReportInv, ReportTypes, ByCase, OfThisBuild, ReportOfSimulator,
                      ReportOfModel, Judged, Untouched, AtPlace, Working
<1>4. CASE Abort
  <2>1. /\ UNCHANGED <<build, thread, simFile, vlFile, netlist, model, simReport, vlReport,
                       verdict, failed>>
        /\ DOMAIN queue' = {}
    BY <1>4 DEF Abort, files
  <2> QED BY <2>1 DEF ReportInv, ReportTypes, ByCase, OfThisBuild, ReportOfSimulator,
                      ReportOfModel, Judged, Untouched, AtPlace, Working
<1> QED BY <1>1, <1>2, <1>3, <1>4 DEF GateNext

LEMMA GateInvariance == ASSUME Fresh PROVE GateSpec => [](PoolInv /\ ReportInv)
<1>1. GateInit => PoolInv /\ ReportInv
  BY PoolInitially, ReportInitially, BlankIsFine
<1>2. PoolInv /\ ReportInv /\ [GateNext]_gateVars => (PoolInv /\ ReportInv)'
  BY PoolStep, ReportStep
<1> QED BY <1>1, <1>2, PTL DEF GateSpec

\* In a fresh work directory a verdict is about what the backends of this
\* build do and about nothing else, whatever the runners and threads do.
THEOREM Verdict == ASSUME Fresh PROVE GateSpec => []VerdictIsTrue
<1>1. ASSUME PoolInv, ReportInv, NEW c \in Cases PROVE
        /\ (verdict[c] = "PASS" /\ ~ \E e \in Exceptions : {c, "*"} \cap e.scope # {} /\ ~e.expired)
              => SameElaboration(c) /\ LockStep(c)
        /\ verdict[c] = "FAIL" => SameElaboration(c) /\ ~LockStep(c)
  <2> DEFINE s == ReportOfSimulator(c)
             v == ReportOfModel(c)
  <2>1. SUFFICES ASSUME verdict[c] \in {"PASS", "FAIL"}
                 PROVE  /\ s.dag = v.dag
                        /\ (s.done = v.done /\ s.seen = v.seen) => verdict[c] = "PASS"
                        /\ (verdict[c] = "PASS" /\ ~ \E e \in Exceptions :
                                {c, "*"} \cap e.scope # {} /\ ~e.expired)
                            => s.done = v.done /\ s.seen = v.seen
    <3>1. Cap(c) \in Nat \ {0}
      <4>1. \E i \in DOMAIN Corpus : Corpus[i].name = c
        BY DEF Cases
      <4> DEFINE i == CHOOSE i \in DOMAIN Corpus : Corpus[i].name = c
      <4>2. i \in DOMAIN Corpus
        BY <4>1
      <4>3. Corpus[i].cap \in Nat \ {0}
        BY <4>2, GateAssumption
      <4> QED BY <4>3 DEF Cap
    <3>2. s.dag = v.dag <=> SameElaboration(c)
      BY DEF ReportOfSimulator, ReportOfModel, Report, SameElaboration
    <3>3. (s.done = v.done /\ s.seen = v.seen) <=>
            InLockStep(build[c].sim.trace, build[c].vl.trace, Cap(c))
      <4>1. \A b, d, x, y : LET r == Report(b, x, Cap(c))
                               q == Report(d, y, Cap(c))
                           IN (r.done = q.done /\ r.seen = q.seen) <=> InLockStep(x, y, Cap(c))
        BY <3>1, ReportsTell
      <4> QED BY <4>1 DEF ReportOfSimulator, ReportOfModel
    <3>4. LockStep(c) <=> InLockStep(build[c].sim.trace, build[c].vl.trace, Cap(c))
      BY DEF LockStep, InLockStep
    <3> HIDE DEF s, v
    <3> QED BY <2>1, <3>2, <3>3, <3>4
  <2>2. verdict[c] = Judgement(c, simReport[c], vlReport[c])
    BY <1>1, <2>1, GateAssumption DEF ReportInv, Judged
  <2>3. Nothing \notin {simReport[c], vlReport[c]}
    BY <2>1, <2>2 DEF Judgement
  <2>4. simReport[c] = s /\ vlReport[c] = v
    BY <1>1, <2>3 DEF ReportInv, OfThisBuild
  <2>5. DOMAIN s.seen = {"tohost", "regs", "memsig", "cycles", "pchash"}
        /\ DOMAIN v.seen = DOMAIN s.seen
        /\ s.seen = [o \in DOMAIN s.seen |-> s.seen[o]]
        /\ v.seen = [o \in DOMAIN s.seen |-> v.seen[o]]
    BY DEF ReportOfSimulator, ReportOfModel, Report
  <2> HIDE DEF s, v
  <2>6. /\ s.dag = v.dag
        /\ verdict[c] = "FAIL" <=> \/ s.done # v.done
                                   \/ \E o \in DOMAIN s.seen : s.seen[o] # v.seen[o] /\ ~Excused(c, o)
    BY <2>1, <2>2, <2>4 DEF Judgement
  <2>7. (~ \E e \in Exceptions : {c, "*"} \cap e.scope # {} /\ ~e.expired)
            => \A o \in DOMAIN s.seen : ~Excused(c, o)
    BY DEF Excused
  <2>8. (\A o \in DOMAIN s.seen : s.seen[o] = v.seen[o]) <=> s.seen = v.seen
    BY <2>5
  <2> QED BY <2>1, <2>6, <2>7, <2>8
<1>2. PoolInv /\ ReportInv => VerdictIsTrue
  BY <1>1 DEF VerdictIsTrue
<1> QED BY <1>2, GateInvariance, PTL

\* In a fresh work directory no failure of a runner, and no hollow signature,
\* is ever taken for an agreement or a divergence.
THEOREM Fault == ASSUME Fresh PROVE GateSpec => []FaultIsError
<1>1. ASSUME PoolInv, ReportInv, NEW c \in Cases, verdict[c] # Nothing,
             Nothing \in {simReport[c], vlReport[c]}
      PROVE  verdict[c] = "ERROR"
  BY <1>1 DEF ReportInv, Judged, Judgement
<1>2. ASSUME PoolInv, ReportInv, NEW c \in Cases, verdict[c] # Nothing, c \in failed
      PROVE  Nothing \in {simReport[c], vlReport[c]}
  BY <1>2 DEF ReportInv, Judged
<1>3. ASSUME PoolInv, ReportInv, NEW c \in Cases,
             LET s == build[c].sim.trace
                 n == EndOf(s, Cap(c))
             IN s[n].tohost # 0 /\ s[n].updates = 0
      PROVE  simReport[c] = Nothing
  <2>1. ~SignatureIsReal(ReportOfSimulator(c))
    BY <1>3 DEF SignatureIsReal, ReportOfSimulator, Report
  <2> QED BY <2>1, <1>3 DEF ReportInv, OfThisBuild
<1>4. PoolInv /\ ReportInv => FaultIsError
  BY <1>1, <1>2, <1>3 DEF FaultIsError
<1> QED BY <1>4, GateInvariance, PTL
-----------------------------------------------------------------------------
(* Host memory *)

InUse == phase \in {"run", "done"} /\ file # {}

HostTypes ==
    /\ phase \in {"load", "run", "done", "failed"}
    /\ file \in {{}} \cup {{f} : f \in Files} /\ option \in Options
    /\ base \in Addresses /\ tohostAddr \in Addresses /\ cycle \in Nat
    /\ mem = [o \in 0 .. Window - 1 |-> mem[o]]
    /\ flat = [x \in Addresses |-> flat[x]]

\* The window shows the flat memory, but for what has been lost.
WindowIsFlat ==
    InUse => \A x \in Addresses :
        InWindow(base, x) /\ x \notin lost => mem[x - base] = flat[x]

\* The reported value is in memory, and before there is one nothing but zero
\* has been stored at tohost.
ExitIsStored ==
    IF tohost # 0
    THEN /\ phase = "done" /\ InWindow(base, tohostAddr)
         /\ mem[tohostAddr - base] = tohost
         /\ exitCode = 0 <=> tohost = 1
    ELSE /\ exitCode = 0
         /\ InUse /\ InWindow(base, tohostAddr) /\ tohostAddr \notin lost =>
                mem[tohostAddr - base] \in {0, image[tohostAddr]}

\* Before the first run nothing has been stored.
ImageAtFirst ==
    /\ phase = "load" => tohost = 0
    /\ InUse /\ cycle = 0 => \A f \in file : Accepted(f) /\ flat = Image(f)

HostInv == HostTypes /\ WindowIsFlat /\ ExitIsStored /\ ImageAtFirst

LEMMA WindowAndAddresses ==
    /\ Window \in Nat \ {0} /\ AddressSpace \in Nat \ {0}
    /\ Addresses = 0 .. AddressSpace - 1 /\ 0 \in Addresses
    /\ \A s \in Stores : s.addr \in Addresses /\ Len(s.bytes) \in {1, 2, 4}
BY HostAssumption DEF Addresses

\* The base of the window and tohost are addresses.
LEMMA WhereToLoad ==
    ASSUME NEW f \in Files, NEW o \in Options
    PROVE  WindowBase(f, o) \in Addresses /\ ToHostAddress(f, o) \in Addresses
<1>1. /\ f.entry \in Addresses /\ o.base \cup o.tohost \subseteq Addresses
      /\ f.sections \in Seq(ToSet(f.sections))
      /\ \A s \in ToSet(f.sections) : s.addr \in Addresses
  BY HostAssumption DEF Addresses
<1>2. f.entry - Offset(f.entry) \in Addresses
  <2>1. Offset(f.entry) \in 0 .. f.entry
    <3>1. f.entry \in Nat /\ Window \in Nat \ {0}
      BY <1>1, WindowAndAddresses
    <3>2. f.entry % Window \in 0 .. Window - 1
      BY <3>1
    <3>3. f.entry < Window => f.entry % Window = f.entry
      BY <3>1
    <3> QED BY <3>1, <3>2, <3>3 DEF Offset
  <2> QED BY <2>1, <1>1, WindowAndAddresses
<1>3. WindowBase(f, o) \in Addresses
  <2>1. CASE o.base # {}
    BY <2>1, <1>1 DEF WindowBase
  <2>2. CASE o.base = {}
    BY <2>2, <1>1, <1>2 DEF WindowBase
  <2> QED BY <2>1, <2>2
<1>4. ToHostAddress(f, o) \in Addresses
  <2>1. CASE o.tohost # {}
    BY <2>1, <1>1 DEF ToHostAddress
  <2>2. CASE o.tohost = {} /\ ToHostSections(f) # {}
    <3>1. Max(ToHostSections(f)) \in ToHostSections(f)
      <4>1. Len(f.sections) \in Nat /\ ToHostSections(f) \subseteq 1 .. Len(f.sections)
        BY <1>1 DEF ToHostSections
      <4> QED BY <4>1, <2>2, LastOf
    <3>2. f.sections[Max(ToHostSections(f))] \in ToSet(f.sections)
      BY <3>1 DEF ToHostSections, ToSet
    <3> QED BY <2>2, <3>2, <1>1 DEF ToHostAddress
  <2>3. CASE o.tohost = {} /\ ToHostSections(f) = {}
    BY <2>3, WindowAndAddresses DEF ToHostAddress
  <2> QED BY <2>1, <2>2, <2>3
<1> QED BY <1>3, <1>4

\* What is loaded into the window is the file's image, but for what is lost.
LEMMA LoadedIsImage ==
    ASSUME NEW f \in Files, NEW b \in Addresses, NEW x \in Addresses, InWindow(b, x),
           \A i \in Allocated(f) : x \notin Lost(b, f.sections[i].addr, f.sections[i].bytes)
    PROVE  Loaded(f, b)[x - b] = Image(f)[x]
<1>1. {i \in Copied(f, b) : Covers(f.sections[i].addr, Len(f.sections[i].bytes), x)}
      = {i \in Allocated(f) : Covers(f.sections[i].addr, Len(f.sections[i].bytes), x)}
  BY DEF Copied, Lost
<1>2. ByteAt(f, Copied(f, b), x) = ByteAt(f, Allocated(f), x)
  BY <1>1 DEF ByteAt
<1>3. x - b \in 0 .. Window - 1 /\ b + (x - b) = x
  BY WindowAndAddresses DEF InWindow
<1> QED BY <1>2, <1>3 DEF Loaded, Image

LEMMA HostInitially == HostInit => HostInv
<1> SUFFICES ASSUME HostInit PROVE HostInv
  OBVIOUS
<1>1. HostTypes
  BY WindowAndAddresses DEF HostInit, HostTypes
<1> QED BY <1>1 DEF HostInit, HostInv, WindowIsFlat, ExitIsStored, ImageAtFirst, InUse

LEMMA HostLoads == HostInv /\ LoadFile => HostInv'
<1> SUFFICES ASSUME HostInv, LoadFile PROVE HostInv'
  OBVIOUS
<1>1. PICK f \in file :
        /\ base' = WindowBase(f, option) /\ tohostAddr' = ToHostAddress(f, option)
        /\ mem' = Loaded(f, base') /\ image' = Image(f) /\ flat' = image'
        /\ lost' = UNION {Lost(base', f.sections[i].addr, f.sections[i].bytes) :
                             i \in Allocated(f)}
        /\ Accepted(f)
  BY DEF LoadFile
<1>2. /\ phase = "load" /\ phase' = "run"
      /\ UNCHANGED <<file, option, tohost, exitCode, cycle>>
  BY DEF LoadFile
<1>3. f \in Files /\ file = {f} /\ option \in Options
  BY DEF HostInv, HostTypes
<1>4. base' \in Addresses /\ tohostAddr' \in Addresses
  BY <1>1, <1>3, WhereToLoad
<1>5. HostTypes'
  BY <1>1, <1>2, <1>4 DEF HostInv, HostTypes, Loaded, Image
<1>6. \A x \in Addresses : InWindow(base', x) /\ x \notin lost' => mem'[x - base'] = image'[x]
  <2>1. PICK b : b = base'
    OBVIOUS
  <2>2. ASSUME NEW x \in Addresses, InWindow(b, x), x \notin lost'
        PROVE  mem'[x - b] = image'[x]
    <3>1. \A i \in Allocated(f) : x \notin Lost(b, f.sections[i].addr, f.sections[i].bytes)
      BY <2>1, <2>2, <1>1
    <3>2. Loaded(f, b)[x - b] = Image(f)[x]
      BY <2>1, <2>2, <3>1, <1>3, <1>4, LoadedIsImage
    <3> QED BY <3>2, <2>1, <1>1
  <2> QED BY <2>1, <2>2
<1>7. WindowIsFlat'
  BY <1>1, <1>6 DEF WindowIsFlat, InWindow
<1>8. ExitIsStored'
  <2>1. tohost' = 0 /\ exitCode' = 0
    BY <1>2 DEF HostInv, ImageAtFirst, ExitIsStored
  <2> QED BY <2>1, <1>4, <1>6 DEF ExitIsStored, InWindow
<1>9. ImageAtFirst'
  BY <1>1, <1>2, <1>3 DEF ImageAtFirst
<1> QED BY <1>5, <1>7, <1>8, <1>9 DEF HostInv

LEMMA HostStores == HostInv /\ RunStore => HostInv'
<1> SUFFICES ASSUME HostInv, RunStore PROVE HostInv'
  OBVIOUS
<1>1. PICK s \in Stores :
        LET hits == ToHostBytes(base, s.addr, s.bytes, tohostAddr) IN
        /\ mem' = Put(base, mem, s.addr, s.bytes)
        /\ tohost' = IF hits = {} THEN tohost ELSE CHOOSE v \in hits : TRUE
        /\ exitCode' = IF hits = {} THEN exitCode ELSE ExitCode(tohost')
        /\ flat' = Over(flat, s.addr, s.bytes)
        /\ lost' = (lost \ {x \in Addresses : Inside(base, s.addr, Len(s.bytes))
                                                /\ Covers(s.addr, Len(s.bytes), x)})
                      \cup Lost(base, s.addr, s.bytes)
        /\ AfterRun(tohost' # 0)
  BY DEF RunStore
<1> DEFINE n == Len(s.bytes)
           hits == ToHostBytes(base, s.addr, s.bytes, tohostAddr)
<1>2. /\ phase = "run" /\ InUse /\ tohost = 0 /\ exitCode = 0
      /\ tohostAddr \in Addresses /\ base \in Addresses
  BY DEF RunStore, InUse, HostInv, ExitIsStored, HostTypes
<1>3. /\ s.addr \in Addresses /\ n \in {1, 2, 4}
      /\ Window \in Nat \ {0} /\ Addresses = 0 .. AddressSpace - 1 /\ AddressSpace \in Nat
  BY WindowAndAddresses
<1>4. /\ cycle' = cycle + 1 /\ phase' \in {"run", "done"} /\ (tohost' # 0 => phase' = "done")
      /\ UNCHANGED <<file, option, base, tohostAddr, image>>
  BY <1>1 DEF AfterRun
<1>5. HostTypes'
  <2>1. mem' = [o \in 0 .. Window - 1 |-> mem'[o]]
    <3>1. CASE Inside(base, s.addr, n)
      BY <3>1, <1>1 DEF Put
    <3>2. CASE ~Inside(base, s.addr, n)
      BY <3>2, <1>1 DEF Put, HostInv, HostTypes
    <3> QED BY <3>1, <3>2
  <2>2. flat' = [x \in Addresses |-> flat'[x]]
    BY <1>1 DEF Over
  <2> QED BY <2>1, <2>2, <1>4 DEF HostInv, HostTypes
\* One byte of the window after the store.
<1>6. ASSUME NEW x \in Addresses, InWindow(base, x)
      PROVE  /\ Inside(base, s.addr, n) /\ Covers(s.addr, n, x) =>
                    mem'[x - base] = s.bytes[x - s.addr + 1] /\ flat'[x] = s.bytes[x - s.addr + 1]
             /\ ~Covers(s.addr, n, x) => mem'[x - base] = mem[x - base] /\ flat'[x] = flat[x]
             /\ ~Inside(base, s.addr, n) => mem' = mem /\ (Covers(s.addr, n, x) => x \in lost')
             /\ x \notin lost' => x \notin lost \/ (Inside(base, s.addr, n) /\ Covers(s.addr, n, x))
  <2>1. x - base \in 0 .. Window - 1 /\ base + (x - base) = x
    BY <1>2, <1>3, <1>6 DEF InWindow
  <2>2. flat'[x] = IF Covers(s.addr, n, x) THEN s.bytes[x - s.addr + 1] ELSE flat[x]
    BY <1>1 DEF Over
  <2>3. Inside(base, s.addr, n) =>
            mem'[x - base] = IF Covers(s.addr, n, x) THEN s.bytes[x - s.addr + 1]
                             ELSE mem[x - base]
    <3>1. PICK o \in 0 .. Window - 1 : o = x - base /\ base + o = x
      BY <2>1
    <3>2. Inside(base, s.addr, n) =>
            mem'[o] = IF Covers(s.addr, n, base + o) THEN s.bytes[base + o - s.addr + 1]
                      ELSE mem[o]
      BY <1>1 DEF Put
    <3>3. base + o = x /\ o = x - base /\ base + o - s.addr + 1 = x - s.addr + 1
      BY <3>1, <1>2, <1>3
    <3> QED BY <3>2, <3>3
  <2>4. ~Inside(base, s.addr, n) => mem' = mem /\ (Covers(s.addr, n, x) => x \in lost')
    BY <1>1, <1>6 DEF Put, Lost
  <2>5. x \notin lost' => x \notin lost \/ (Inside(base, s.addr, n) /\ Covers(s.addr, n, x))
    BY <1>1
  <2> HIDE DEF n
  <2> QED BY <2>2, <2>3, <2>4, <2>5
<1>7. WindowIsFlat'
  <2>1. ASSUME NEW x \in Addresses, InWindow(base, x), x \notin lost'
        PROVE  mem'[x - base] = flat'[x]
    <3>1. x \notin lost => mem[x - base] = flat[x]
      BY <2>1, <1>2 DEF HostInv, WindowIsFlat
    <3> HIDE DEF n
    <3> QED BY <2>1, <3>1, <1>6
  <2> QED BY <2>1, <1>4 DEF WindowIsFlat, InWindow
<1>8. ExitIsStored'
  <2>1. CASE hits = {}
    <3>1. tohost' = 0 /\ exitCode' = 0
      BY <2>1, <1>1, <1>2
    <3>2. ASSUME InWindow(base, tohostAddr), tohostAddr \notin lost'
          PROVE  mem'[tohostAddr - base] \in {0, image[tohostAddr]}
      <4>1. tohostAddr \notin lost => mem[tohostAddr - base] \in {0, image[tohostAddr]}
        BY <1>2, <3>2 DEF HostInv, ExitIsStored
      <4>2. CASE Inside(base, s.addr, n) /\ Covers(s.addr, n, tohostAddr)
        <5>1. s.bytes[tohostAddr - s.addr + 1] = 0
          BY <2>1, <4>2 DEF ToHostBytes
        <5> HIDE DEF n
        <5> QED BY <5>1, <4>2, <1>2, <1>6, <3>2
      <4>3. CASE ~(Inside(base, s.addr, n) /\ Covers(s.addr, n, tohostAddr))
        <5> HIDE DEF n
        <5> QED BY <4>1, <4>3, <1>2, <1>6, <3>2
      <4> QED BY <4>2, <4>3
    <3> QED BY <3>1, <3>2, <1>4 DEF ExitIsStored, InWindow
  <2>2. CASE hits # {}
    <3>1. /\ Inside(base, s.addr, n) /\ Covers(s.addr, n, tohostAddr)
          /\ hits = {s.bytes[tohostAddr - s.addr + 1]} /\ 0 \notin hits
      BY <2>2 DEF ToHostBytes
    <3>2. tohost' = s.bytes[tohostAddr - s.addr + 1] /\ tohost' # 0
      BY <3>1, <2>2, <1>1
    <3>3. exitCode' = 0 <=> tohost' = 1
      BY <2>2, <1>1 DEF ExitCode
    <3>4. InWindow(base, tohostAddr)
      BY <3>1, <1>2, <1>3 DEF Inside, InWindow, Covers
    <3>5. mem'[tohostAddr - base] = tohost'
      <4> HIDE DEF n
      <4> QED BY <3>1, <3>2, <3>4, <1>2, <1>6
    <3> QED BY <3>2, <3>3, <3>4, <3>5, <1>4 DEF ExitIsStored, InWindow
  <2> QED BY <2>1, <2>2
<1>9. ImageAtFirst'
  BY <1>4 DEF ImageAtFirst, HostInv, HostTypes
<1> QED BY <1>5, <1>7, <1>8, <1>9 DEF HostInv

LEMMA HostStep == HostInv /\ [HostNext]_hostVars => HostInv'
<1> SUFFICES ASSUME HostInv, [HostNext]_hostVars PROVE HostInv'
  OBVIOUS
<1>1. CASE StartBare \/ RefuseFile
  <2>1. /\ phase = "load" /\ phase' \in {"run", "failed"} /\ (phase' = "run" => file = {})
        /\ UNCHANGED <<file, option, base, tohostAddr, mem, tohost, exitCode, cycle, image,
                       flat, lost>>
    BY <1>1 DEF StartBare, RefuseFile
  <2> QED BY <2>1 DEF HostInv, HostTypes, WindowIsFlat, ExitIsStored, ImageAtFirst, InUse
<1>2. CASE RunWithoutStore
  <2>1. /\ phase = "run" /\ phase' \in {"run", "done"} /\ cycle' = cycle + 1
        /\ UNCHANGED <<file, option, base, tohostAddr, mem, tohost, exitCode, image, flat, lost>>
    BY <1>2 DEF RunWithoutStore, AfterRun
  <2>2. cycle' \in Nat /\ cycle' # 0
    BY <2>1 DEF HostInv, HostTypes
  <2>3. HostTypes'
    BY <2>1, <2>2 DEF HostInv, HostTypes
  <2> QED BY <2>1, <2>2, <2>3 DEF HostInv, WindowIsFlat, ExitIsStored, ImageAtFirst, InUse
<1>3. CASE UNCHANGED hostVars
  BY <1>3 DEF hostVars, HostInv, HostTypes, WindowIsFlat, ExitIsStored, ImageAtFirst, InUse
<1> QED BY <1>1, <1>2, <1>3, HostLoads, HostStores DEF HostNext

LEMMA HostInvariance == HostSpec => []HostInv
BY HostInitially, HostStep, PTL DEF HostSpec

\* Wherever the window lies and whatever is stored, a load from inside it
\* finds what a memory without a window would hold.
THEOREM Flat == HostSpec => []MemoryIsFlat
<1>1. ASSUME HostInv, InUse, NEW x \in Addresses, NEW n \in {1, 2, 4}, Inside(base, x, n),
             x .. x + n - 1 \subseteq Addresses \ lost
      PROVE  Get(base, mem, x, n) = [i \in 1 .. n |-> flat[x + i - 1]]
  <2>1. ASSUME NEW i \in 1 .. n PROVE mem[x - base + i - 1] = flat[x + i - 1]
    <3> DEFINE y == x + i - 1
    <3>0. base \in Int /\ x \in Int /\ n \in Int /\ i \in 1 .. n /\ Window \in Int
      BY <1>1, WindowAndAddresses DEF HostInv, HostTypes
    <3>1. /\ y \in x .. x + n - 1 /\ InWindow(base, y)
          /\ x - base + i - 1 = y - base
      BY <3>0, <1>1 DEF Inside, InWindow
    <3> HIDE DEF y
    <3>2. mem[y - base] = flat[y]
      BY <3>1, <1>1 DEF HostInv, WindowIsFlat
    <3> QED BY <3>1, <3>2 DEF y
  <2> QED BY <2>1, <1>1 DEF Get
<1>2. HostInv => MemoryIsFlat
  BY <1>1 DEF MemoryIsFlat, InUse
<1> QED BY <1>2, HostInvariance, PTL

\* The exit a run reports is the byte at tohost, for stores of any width and
\* alignment and wherever the window lies.
THEOREM ExitByte == HostSpec => []ExitMatchesMemory
<1>1. ASSUME HostInv
      PROVE  Get(base, mem, tohostAddr, 1)[1] =
                IF InWindow(base, tohostAddr) THEN mem[tohostAddr - base] ELSE 0
  <2>1. tohostAddr \in Int /\ base \in Int
    BY <1>1, WindowAndAddresses DEF HostInv, HostTypes
  <2>2. tohostAddr + 1 - 1 = tohostAddr /\ tohostAddr - base + 1 - 1 = tohostAddr - base
    BY <2>1
  <2> QED BY <2>2 DEF Get, Inside
<1>2. HostInv => ExitMatchesMemory
  BY <1>1 DEF HostInv, ExitIsStored, ExitMatchesMemory, InUse
<1> QED BY <1>2, HostInvariance, PTL

\* What a linker makes: the segments lie apart and hold what the sections put
\* in their place.
SegmentsHoldSections(f) ==
    /\ f.segments \in Seq(ToSet(f.segments))
    /\ \A seg \in ToSet(f.segments) :
        /\ seg.vaddr \in Addresses /\ seg.bytes \in Seq(ToSet(seg.bytes))
        /\ seg.load => \A k \in DOMAIN seg.bytes :
                seg.vaddr + k - 1 \in Addresses /\ Image(f)[seg.vaddr + k - 1] = seg.bytes[k]
    /\ \A i, j \in DOMAIN f.segments :
        LET p == f.segments[i]
            q == f.segments[j]
        IN i # j /\ p.load /\ q.load =>
            p.vaddr + Len(p.bytes) <= q.vaddr \/ q.vaddr + Len(q.bytes) <= p.vaddr

WellLinked == \A f \in Files : Accepted(f) => SegmentsHoldSections(f)

\* Arithmetic of words and bytes.
LEMMA Aligned ==
    ASSUME NEW x \in Nat, NEW y \in Nat, x >= y, x % 4 = 0, y % 4 = 0
    PROVE  (x - y) \div 4 \in Nat /\ x - y = 4 * ((x - y) \div 4) /\ x = y + 4 * ((x - y) \div 4)
OBVIOUS

LEMMA WholeWord ==
    ASSUME NEW n \in Nat, NEW k \in 0 .. (n \div 4) - 1
    PROVE  k \in Nat /\ 4 * k + 4 <= n
OBVIOUS

\* The bytes of one word in a sequence of bytes.
LEMMA FourBytes ==
    ASSUME NEW S, NEW s \in Seq(S), NEW k \in Nat, 4 * k + 4 <= Len(s)
    PROVE  SubSeq(s, 4 * k + 1, 4 * k + 4) = [j \in 1 .. 4 |-> s[4 * k + j]]
<1> DEFINE m == 4 * k + 1
           n == 4 * k + 4
<1>1. m \in Int /\ n \in Int /\ m <= n /\ n - m + 1 = 4
  OBVIOUS
<1>2. \A j \in 1 .. 4 : m + j - 1 = 4 * k + j
  OBVIOUS
<1>3. m > 0 /\ n <= Len(s)
  OBVIOUS
<1> HIDE DEF m, n
<1>4. SubSeq(s, m, n) = [j \in 1 .. n - m + 1 |-> s[m + j - 1]]
  BY <1>1, <1>3
<1>5. SubSeq(s, m, n) = [j \in 1 .. 4 |-> s[4 * k + j]]
  BY <1>1, <1>2, <1>4
<1> QED BY <1>5 DEF m, n

LEMMA WordPlace ==
    ASSUME NEW c \in Nat, NEW f \in Nat, NEW k \in Nat, NEW v, v = c + 4 * f
    PROVE  v + 4 * k \in Nat /\ (v + 4 * k) - c = 4 * (f + k) /\ f + k \in Nat
OBVIOUS

LEMMA Apart ==
    ASSUME NEW c \in Nat, NEW v \in Nat, NEW u \in Nat, NEW m \in Nat, NEW n \in Nat,
           v >= c, v % 4 = 0, c % 4 = 0, u >= c, v + m <= u \/ u + n <= v,
           NEW w \in Nat, w - ((v - c) \div 4) \in 0 .. (m \div 4) - 1,
           w - ((u - c) \div 4) \in 0 .. (n \div 4) - 1
    PROVE  FALSE
<1> DEFINE a == v - c
           b == u - c
<1>1. a \in Nat /\ b \in Nat /\ a = 4 * (a \div 4) /\ (a + m <= b \/ b + n <= a)
  BY Aligned
<1>2. w - (a \div 4) \in 0 .. (m \div 4) - 1 /\ w - (b \div 4) \in 0 .. (n \div 4) - 1
  OBVIOUS
<1> HIDE DEF a, b
<1> QED BY <1>1, <1>2

\* Of segments that lie apart only one holds a word an aligned one holds.
LEMMA OneHolder ==
    ASSUME NEW p, NEW q, ChBase \in Nat, p.vaddr \in Nat, q.vaddr \in Nat,
           Len(p.bytes) \in Nat, Len(q.bytes) \in Nat,
           p.vaddr >= ChBase, p.vaddr % 4 = 0, ChBase % 4 = 0,
           p.vaddr + Len(p.bytes) <= q.vaddr \/ q.vaddr + Len(q.bytes) <= p.vaddr,
           NEW w \in Nat, Holds(p, w), Holds(q, w)
    PROVE  FALSE
<1>1. q.vaddr >= ChBase
  BY DEF Holds
<1>2. /\ w - ((p.vaddr - ChBase) \div 4) \in 0 .. (Len(p.bytes) \div 4) - 1
      /\ w - ((q.vaddr - ChBase) \div 4) \in 0 .. (Len(q.bytes) \div 4) - 1
  BY DEF Holds, Words, FirstWord
<1> QED BY <1>1, <1>2, Apart

\* The word an aligned segment puts into the memory it is loaded into.
LEMMA WordOf ==
    ASSUME NEW f, SegmentsHoldSections(f),
           NEW chosen \in SUBSET DOMAIN f.segments, NEW i \in chosen,
           f.segments[i].load, f.segments[i].vaddr >= ChBase, f.segments[i].vaddr % 4 = 0,
           NEW k \in DOMAIN Words(f.segments[i]),
           FirstWord(f.segments[i]) + k < ChWords
    PROVE  Preload(f, chosen)[FirstWord(f.segments[i]) + k] = Words(f.segments[i])[k]
<1> DEFINE seg == f.segments[i]
           w == FirstWord(seg) + k
           over == {j \in chosen : Holds(f.segments[j], w)}
<1>0. ChBase \in Nat /\ ChBase % 4 = 0
  BY HostAssumption
<1>1. /\ seg.vaddr \in Nat /\ Len(seg.bytes) \in Nat /\ ChWords \in Nat
      /\ \A j \in chosen : f.segments[j].vaddr \in Nat /\ Len(f.segments[j].bytes) \in Nat
  <2>1. \A j \in DOMAIN f.segments : f.segments[j] \in ToSet(f.segments)
    BY DEF ToSet
  <2>2. \A j \in DOMAIN f.segments :
            f.segments[j].vaddr \in Nat /\ Len(f.segments[j].bytes) \in Nat
    <3>1. \A x \in Addresses : x \in Nat
      BY WindowAndAddresses
    <3> QED BY <2>1, <3>1 DEF SegmentsHoldSections
  <2>3. ChWords \in Nat
    BY HostAssumption
  <2> QED BY <2>2, <2>3
<1>2. FirstWord(seg) \in Nat /\ k \in Nat
  <2>1. k \in 0 .. (Len(seg.bytes) \div 4) - 1
    BY DEF Words
  <2>2. seg.vaddr - ChBase \in Nat
    BY <1>0, <1>1
  <2> QED BY <1>1, <2>1, <2>2 DEF FirstWord
<1>3. w \in 0 .. ChWords - 1 /\ w - FirstWord(seg) = k
  BY <1>1, <1>2
<1> HIDE DEF w
<1>4. Holds(seg, w)
  BY <1>3 DEF Holds
<1>5. ASSUME NEW j \in chosen, Holds(f.segments[j], w) PROVE j = i
  <2>1. SUFFICES ASSUME j # i PROVE FALSE
    OBVIOUS
  <2>2. f.segments[j].load
    BY <1>5 DEF Holds
  <2>3. \/ seg.vaddr + Len(seg.bytes) <= f.segments[j].vaddr
        \/ f.segments[j].vaddr + Len(f.segments[j].bytes) <= seg.vaddr
    BY <2>1, <2>2 DEF SegmentsHoldSections
  <2>4. w \in Nat
    BY <1>1, <1>3
  <2> QED BY <2>3, <2>4, <1>0, <1>1, <1>4, <1>5, OneHolder
<1>6. over = {i}
  BY <1>4, <1>5
<1>7. i \in Nat
  BY DEF SegmentsHoldSections
<1>8. Max(over) = i
  BY <1>6, <1>7 DEF Max
<1>9. Preload(f, chosen)[w] = Words(seg)[w - FirstWord(seg)]
  BY <1>3, <1>6, <1>8 DEF Preload
<1> QED BY <1>3, <1>9 DEF w

\* A program starts from the same words under both simulators, whatever the
\* linker has put where.
THEOREM SameStart == ASSUME WellLinked PROVE HostSpec => []SameImage
<1>1. ASSUME HostInv, phase = "run", cycle = 0, base = ChBase, lost = {},
             NEW f \in file, NEW seg \in ToSet(f.segments),
             seg.load, seg.vaddr >= ChBase, seg.vaddr % 4 = 0,
             NEW k \in DOMAIN Words(seg),
             FirstWord(seg) + k < ChWords, 4 * (FirstWord(seg) + k) < Window
      PROVE  LET word == Get(base, mem, seg.vaddr + 4 * k, 4) IN
             /\ Instructions(seg) => Imem(f)[FirstWord(seg) + k] = word
             /\ Data(seg) => Dmem(f)[FirstWord(seg) + k] = word
  <2>1. /\ f \in Files /\ InUse /\ flat = Image(f) /\ SegmentsHoldSections(f)
    BY <1>1 DEF HostInv, HostTypes, ImageAtFirst, InUse, WellLinked
  <2>2. /\ ChBase \in Nat /\ Window \in Nat /\ ChBase % 4 = 0 /\ Window % 4 = 0
        /\ ChWords \in Nat
    BY HostAssumption
  <2>3. PICK i \in DOMAIN f.segments : seg = f.segments[i]
    BY DEF ToSet
  <2>4. /\ seg.vaddr \in Nat /\ seg.bytes \in Seq(ToSet(seg.bytes)) /\ Len(seg.bytes) \in Nat
        /\ \A j \in DOMAIN seg.bytes :
                seg.vaddr + j - 1 \in Addresses /\ flat[seg.vaddr + j - 1] = seg.bytes[j]
    BY <1>1, <2>1, WindowAndAddresses DEF SegmentsHoldSections
  <2>5. k \in Nat /\ 4 * k + 4 <= Len(seg.bytes) /\ k \in 0 .. (Len(seg.bytes) \div 4) - 1
    <3>1. k \in 0 .. (Len(seg.bytes) \div 4) - 1
      BY DEF Words
    <3> QED BY <3>1, <2>4, WholeWord
  <2>6. FirstWord(seg) \in Nat /\ seg.vaddr = ChBase + 4 * FirstWord(seg)
    BY <1>1, <2>2, <2>4, Aligned DEF FirstWord
  <2> DEFINE a == seg.vaddr + 4 * k
  <2>7. /\ a \in Nat /\ a - ChBase = 4 * (FirstWord(seg) + k)
        /\ (FirstWord(seg) + k) \in Nat
    <3>1. ChBase \in Nat /\ k \in Nat /\ FirstWord(seg) \in Nat
      BY <2>2, <2>5, <2>6
    <3> QED BY <3>1, <2>6, WordPlace
  <2>8. Inside(base, a, 4)
    <3>1. \A x \in Nat : 4 * x < Window => 4 * x + 3 < Window
      BY <2>2
    <3>2. 4 * (FirstWord(seg) + k) + 3 < Window
      BY <3>1, <2>7, <1>1
    <3> HIDE DEF a
    <3> QED BY <3>2, <2>2, <2>7, <1>1 DEF Inside, InWindow
  <2>9. ASSUME NEW j \in 1 .. 4 PROVE mem[a - base + j - 1] = seg.bytes[4 * k + j]
    <3> DEFINE x == a + j - 1
    <3>0. k \in Nat /\ Len(seg.bytes) \in Nat /\ 4 * k + 4 <= Len(seg.bytes) /\ seg.vaddr \in Nat
      BY <2>4, <2>5
    <3>1. 4 * k + j \in DOMAIN seg.bytes
      <4>1. DOMAIN seg.bytes = 1 .. Len(seg.bytes)
        BY <2>4
      <4> QED BY <3>0, <4>1
    <3>2. x = seg.vaddr + (4 * k + j) - 1 /\ x \in Int
      BY <3>0
    <3>3. x \in Addresses /\ flat[x] = seg.bytes[4 * k + j]
      BY <3>1, <3>2, <2>4
    <3>4. InWindow(base, x) /\ a - base + j - 1 = x - base
      <4> HIDE DEF a
      <4> QED BY <2>8, <2>7, <2>2, <1>1 DEF Inside, InWindow
    <3> HIDE DEF x, a
    <3>5. mem[x - base] = flat[x]
      BY <3>3, <3>4, <2>1, <1>1 DEF HostInv, WindowIsFlat
    <3> QED BY <3>3, <3>4, <3>5
  <2>10. Words(seg)[k] = Get(base, mem, a, 4)
    <3>1. Words(seg)[k] = SubSeq(seg.bytes, 4 * k + 1, 4 * k + 4)
      BY <2>5 DEF Words
    <3>2. SubSeq(seg.bytes, 4 * k + 1, 4 * k + 4) = [j \in 1 .. 4 |-> seg.bytes[4 * k + j]]
      BY <2>4, <2>5, FourBytes
    <3>3. Get(base, mem, a, 4) = [j \in 1 .. 4 |-> seg.bytes[4 * k + j]]
      <4> HIDE DEF a
      <4> QED BY <2>8, <2>9 DEF Get
    <3> QED BY <3>1, <3>2, <3>3
  <2>11. ASSUME NEW chosen \in SUBSET DOMAIN f.segments, i \in chosen
         PROVE  Preload(f, chosen)[FirstWord(seg) + k] = Words(seg)[k]
    <3>1. /\ f.segments[i].load /\ f.segments[i].vaddr >= ChBase
          /\ f.segments[i].vaddr % 4 = 0 /\ k \in DOMAIN Words(f.segments[i])
          /\ FirstWord(f.segments[i]) + k < ChWords
      BY <1>1, <2>3
    <3>2. SegmentsHoldSections(f) /\ i \in chosen
      BY <2>1, <2>11
    <3>4. Preload(f, chosen)[FirstWord(f.segments[i]) + k] = Words(f.segments[i])[k]
      BY <3>1, <3>2, WordOf
    <3> QED BY <3>4, <2>3
  <2>12. Instructions(seg) => Imem(f)[FirstWord(seg) + k] = Words(seg)[k]
    <3>1. Instructions(seg) => i \in {j \in DOMAIN f.segments : Instructions(f.segments[j])}
      BY <2>3
    <3> QED BY <3>1, <2>11 DEF Imem
  <2>13. Data(seg) => Dmem(f)[FirstWord(seg) + k] = Words(seg)[k]
    <3>1. Data(seg) => i \in {j \in DOMAIN f.segments : Data(f.segments[j])}
      BY <2>3
    <3> QED BY <3>1, <2>11 DEF Dmem
  <2> QED BY <2>10, <2>12, <2>13
<1>2. HostInv => SameImage
  BY <1>1 DEF SameImage, FirstWord
<1> QED BY <1>2, HostInvariance, PTL
=============================================================================

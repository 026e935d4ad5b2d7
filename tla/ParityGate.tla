----------------------------- MODULE ParityGate -----------------------------
(***************************************************************************)
(* The gate that compares the two backends of the CH_MEM processor,        *)
(* tools/parity/parity_gate.py, with the runners it starts:                *)
(* parity_sim_runner (the CppHDL simulator) and cpu_verilator_sim, which   *)
(* writes the netlist, compiles it with sim_main.cpp and runs the model.   *)
(* A pool of threads takes the cases of the corpus in turn; a runner       *)
(* leaves its observations in a file of the work directory, which its      *)
(* thread reads and judges.                                                *)
(*                                                                         *)
(* What a backend does with a case is the fingerprint of its elaboration   *)
(* and a trace: pc, the word at tohost, the registers, the signature of    *)
(* memory and the number of stores, cycle by cycle.  Hashes are taken to   *)
(* tell everything apart.  Every invocation has a build of its own.        *)
(***************************************************************************)
EXTENDS Integers, Sequences, SequencesExt

CONSTANTS
    Corpus,      \* the cases in order, [name, layer, cap]
    Builds,      \* what the backends may do: [case -> [sim, vl]]
    Exceptions,  \* exceptions.json: [observation, scope, expired]
    Jobs,        \* --jobs
    Fresh,       \* is the work directory emptied between invocations?
    Nothing      \* no report, netlist, model or verdict

Cases == {Corpus[i].name : i \in DOMAIN Corpus}
Threads == 1 .. Jobs

ASSUME GateAssumption ==
    /\ Jobs \in Nat \ {0} /\ Fresh \in BOOLEAN
    /\ Corpus \in Seq(ToSet(Corpus))
    /\ Nothing \notin {"PASS", "FAIL", "ERROR"}
    /\ \A i \in DOMAIN Corpus : Corpus[i].cap \in Nat \ {0} /\ Corpus[i].layer \in {"pr", "night"}
    /\ IsInjective([i \in DOMAIN Corpus |-> Corpus[i].name])

VARIABLES gate,       \* "idle", "running" or "leaving", after an exception
          layer,      \* --layer
          build,      \* what the backends of this build do with each case
          queue,      \* the cases no thread has taken yet
          thread,     \* [case, at]: what each thread is doing
          simFile, vlFile,    \* the reports in the work directory
          netlist, model,     \* top.v and libVtop.so of each directory, by case
          simReport, vlReport,    \* what the threads have read
          verdict,    \* of each case
          failed,     \* the cases of which a runner has ended without reporting
          unstarted,  \* the cases of which a runner could not be started
          result

files == <<simFile, vlFile, netlist, model>>
gateVars == <<gate, layer, build, queue, thread, files, simReport, vlReport,
              verdict, failed, unstarted, result>>

Cap(c) == LET i == CHOOSE i \in DOMAIN Corpus : Corpus[i].name = c IN Corpus[i].cap

NoCase == [case |-> Nothing, at |-> "free"]
-----------------------------------------------------------------------------
(* The runners *)

\* The lowest bit of the word at tohost ends a program.
Done(sample) == sample.tohost % 2 = 1

\* The loop ends in this cycle, at the latest with the cap.
EndOf(t, cap) ==
    CHOOSE n \in 1 .. cap :
        /\ \A m \in 1 .. n - 1 : ~Done(t[m])
        /\ n = cap \/ Done(t[n])

\* The fragment a runner writes; the fingerprint is that of its own
\* elaboration, the trace that of the model it has run.
Report(b, t, cap) ==
    LET n == EndOf(t, cap)
    IN [dag |-> b.dag, done |-> Done(t[n]), updates |-> t[n].updates,
        seen |-> [tohost |-> t[n].tohost, regs |-> t[n].regs, memsig |-> t[n].memsig,
                  cycles |-> n, pchash |-> [k \in 1 .. n |-> t[k].pc]]]

\* A defect: the signature is not checked.
AnySignature(r) == TRUE

\* The simulator's self-check: a program that has written tohost has stored.
SignatureIsReal(r) == ~(r.seen.tohost # 0 /\ r.updates = 0)

\* A defect: the default work directory of cpu_verilator_sim, one for all.
SharedDirectory(c) == Corpus[1].name

\* <work-dir>/vl/<case>
Directory(c) == c
-----------------------------------------------------------------------------
(* The gate *)

\* The pull request's layer is a part, the night's is everything.
Owed(e, l) == l = "night" \/ e.layer = "pr"

\* The names of the cases owed, in the order of the corpus.
Selected(l) ==
    LET among[i \in 0 .. Len(Corpus)] ==
            IF i = 0 THEN <<>>
            ELSE IF Owed(Corpus[i], l) THEN Append(among[i - 1], Corpus[i].name)
            ELSE among[i - 1]
    IN among[Len(Corpus)]

\* A defect: an exception goes on past its sunset.
ExcusedForEver(c, o) == \E e \in Exceptions : e.observation = o /\ {c, "*"} \cap e.scope # {}

Excused(c, o) ==
    \E e \in Exceptions : ~e.expired /\ e.observation = o /\ {c, "*"} \cap e.scope # {}

\* judge
Judgement(c, s, v) ==
    IF Nothing \in {s, v} \/ s.dag # v.dag THEN "ERROR"
    ELSE IF \/ s.done # v.done
            \/ \E o \in DOMAIN s.seen : s.seen[o] # v.seen[o] /\ ~Excused(c, o)
         THEN "FAIL"
         ELSE "PASS"

\* A defect: an error hides a divergence.
ErrorsFirst(verdicts) ==
    IF "ERROR" \in verdicts THEN 2 ELSE IF "FAIL" \in verdicts THEN 1 ELSE 0

\* A divergence outweighs an error.
ExitOf(verdicts) ==
    IF "FAIL" \in verdicts THEN 1 ELSE IF "ERROR" \in verdicts THEN 2 ELSE 0

GateInit ==
    /\ gate = "idle" /\ layer = "pr"
    /\ build \in Builds
    /\ queue = <<>>
    /\ thread = [w \in Threads |-> NoCase]
    /\ simFile = [c \in Cases |-> Nothing] /\ vlFile = simFile
    /\ netlist = simFile /\ model = simFile
    /\ simReport = simFile /\ vlReport = simFile
    /\ verdict = simFile
    /\ failed = {} /\ unstarted = {}
    /\ result = 0

Emptied(f) == IF Fresh THEN [c \in Cases |-> Nothing] ELSE f

\* The next invocation, maybe of another build.  No case selected is an error.
Start ==
    /\ gate = "idle"
    /\ layer' \in {"pr", "night"}
    /\ build' \in Builds
    /\ simFile' = Emptied(simFile) /\ vlFile' = Emptied(vlFile)
    /\ netlist' = Emptied(netlist) /\ model' = Emptied(model)
    /\ simReport' = [c \in Cases |-> Nothing] /\ vlReport' = simReport'
    /\ verdict' = simReport'
    /\ failed' = {} /\ unstarted' = {}
    /\ queue' = Selected(layer')
    /\ result' = IF queue' = <<>> THEN 2 ELSE 0
    /\ gate' = IF queue' = <<>> THEN "idle" ELSE "running"
    /\ UNCHANGED thread

Take(w) ==
    /\ gate = "running" /\ thread[w].at = "free" /\ queue # <<>>
    /\ thread' = [thread EXCEPT ![w] = [case |-> Head(queue), at |-> "simulate"]]
    /\ queue' = Tail(queue)
    /\ UNCHANGED <<gate, layer, build, files, simReport, vlReport, verdict, failed, unstarted,
                   result>>

MoveOn(w, at) ==
    /\ thread' = [thread EXCEPT ![w].at = at]
    /\ UNCHANGED <<gate, layer, build, queue, verdict, unstarted, result>>

ReportOfSimulator(c) == Report(build[c].sim, build[c].sim.trace, Cap(c))

\* Exit code 0, 1 or 2: all are accepted, since a program that reports a
\* failure or reaches the cap is compared too.
SimulatorReports(w) ==
    LET c == thread[w].case IN
    /\ thread[w].at = "simulate"
    /\ SignatureIsReal(ReportOfSimulator(c))
    /\ simFile' = [simFile EXCEPT ![c] = ReportOfSimulator(c)]
    /\ simReport' = [simReport EXCEPT ![c] = ReportOfSimulator(c)]
    /\ MoveOn(w, "generate")
    /\ UNCHANGED <<vlFile, netlist, model, vlReport, failed>>

\* Exit code 2 without a report: what the work directory holds is read.
SimulatorGivesUp(w) ==
    LET c == thread[w].case IN
    /\ thread[w].at = "simulate"
    /\ simReport' = [simReport EXCEPT ![c] = simFile[c]]
    /\ failed' = failed \cup {c}
    /\ MoveOn(w, "generate")
    /\ UNCHANGED <<files, vlReport>>

\* The time limit, or any other exit status, before or after the report is
\* written; the other backend is run all the same.
SimulatorDies(w) ==
    LET c == thread[w].case IN
    /\ thread[w].at = "simulate"
    /\ \/ UNCHANGED simFile
       \/ /\ SignatureIsReal(ReportOfSimulator(c))
          /\ simFile' = [simFile EXCEPT ![c] = ReportOfSimulator(c)]
    /\ failed' = failed \cup {c}
    /\ MoveOn(w, "generate")
    /\ UNCHANGED <<vlFile, netlist, model, simReport, vlReport>>

\* generate_verilog
Generate(w) ==
    /\ thread[w].at = "generate"
    /\ netlist' = [netlist EXCEPT ![Directory(thread[w].case)] = thread[w].case]
    /\ MoveOn(w, "compile")
    /\ UNCHANGED <<simFile, vlFile, model, simReport, vlReport, failed>>

\* build_libvtop
Compile(w) ==
    LET d == Directory(thread[w].case) IN
    /\ thread[w].at = "compile"
    /\ model' = [model EXCEPT ![d] = netlist[d]]
    /\ MoveOn(w, "run")
    /\ UNCHANGED <<simFile, vlFile, netlist, simReport, vlReport, failed>>

ReportOfVerilator(c) ==
    Report(build[c].vl, build[model[Directory(c)]].vl.trace, Cap(c))

\* Exit code 0, 1 or 2; the self-check is made, and the report written.
VerilatorReports(w) ==
    LET c == thread[w].case IN
    /\ thread[w].at = "run"
    /\ vlFile' = [vlFile EXCEPT ![c] = ReportOfVerilator(c)]
    /\ vlReport' = [vlReport EXCEPT ![c] = ReportOfVerilator(c)]
    /\ MoveOn(w, "judge")
    /\ UNCHANGED <<simFile, netlist, model, simReport, failed>>

AtVerilator == {"generate", "compile", "run"}

\* build_cpu, verilator, g++, dlopen or the file: exit code 1 or 2.
VerilatorGivesUp(w) ==
    LET c == thread[w].case IN
    /\ thread[w].at \in AtVerilator
    /\ vlReport' = [vlReport EXCEPT ![c] = vlFile[c]]
    /\ failed' = failed \cup {c}
    /\ MoveOn(w, "judge")
    /\ UNCHANGED <<files, simReport>>

\* A defect: the time limit is given to the simulation only.
VerilatorDiesRunning(w) ==
    LET c == thread[w].case IN
    /\ thread[w].at = "run"
    /\ failed' = failed \cup {c}
    /\ MoveOn(w, "judge")
    /\ UNCHANGED <<files, simReport, vlReport>>

VerilatorDies(w) ==
    LET c == thread[w].case IN
    /\ thread[w].at \in AtVerilator
    /\ \/ UNCHANGED vlFile
       \/ /\ thread[w].at = "run"
          /\ vlFile' = [vlFile EXCEPT ![c] = ReportOfVerilator(c)]
    /\ failed' = failed \cup {c}
    /\ MoveOn(w, "judge")
    /\ UNCHANGED <<simFile, netlist, model, simReport, vlReport>>

Judge(w) ==
    LET c == thread[w].case IN
    /\ thread[w].at = "judge"
    /\ verdict' = [verdict EXCEPT ![c] = Judgement(c, simReport[c], vlReport[c])]
    /\ thread' = [thread EXCEPT ![w] = NoCase]
    /\ UNCHANGED <<gate, layer, build, queue, files, simReport, vlReport, failed, unstarted, result>>

\* subprocess.run raises when it cannot start a runner, and nothing catches it
\* in the thread: the future of the case keeps the exception.
RunnerMissing(w) ==
    /\ thread[w].at \in {"simulate", "generate"}
    /\ unstarted' = unstarted \cup {thread[w].case}
    /\ thread' = [thread EXCEPT ![w] = NoCase]
    /\ UNCHANGED <<gate, layer, build, queue, files, simReport, vlReport, verdict, failed, result>>

\* list(pool.map(...)) takes the results in the order of the cases; at the first
\* exception it cancels the cases no thread has taken.
Abort ==
    /\ gate = "running"
    /\ \E i \in DOMAIN Corpus :
        /\ Corpus[i].name \in unstarted
        /\ \A j \in 1 .. i - 1 : Owed(Corpus[j], layer) => verdict[Corpus[j].name] # Nothing
    /\ queue' = <<>>
    /\ gate' = "leaving"
    /\ UNCHANGED <<layer, build, thread, files, simReport, vlReport, verdict, failed, unstarted,
                   result>>

\* The pool is joined, then the exception ends the interpreter with exit code
\* 1; no report is written.
Leave ==
    /\ gate = "leaving"
    /\ \A w \in Threads : thread[w].at = "free"
    /\ result' = 1
    /\ gate' = "idle"
    /\ UNCHANGED <<layer, build, queue, thread, files, simReport, vlReport, verdict, failed,
                   unstarted>>

\* The pool is joined and the report written.
Finish ==
    /\ gate = "running" /\ queue = <<>> /\ unstarted = {}
    /\ \A w \in Threads : thread[w].at = "free"
    /\ result' = ExitOf({verdict[c] : c \in Cases})
    /\ gate' = "idle"
    /\ UNCHANGED <<layer, build, queue, thread, files, simReport, vlReport, verdict, failed,
                   unstarted>>

RunCase(w) ==
    \/ Take(w)
    \/ SimulatorReports(w) \/ SimulatorGivesUp(w) \/ SimulatorDies(w)
    \/ Generate(w) \/ Compile(w)
    \/ VerilatorReports(w) \/ VerilatorGivesUp(w) \/ VerilatorDies(w)
    \/ Judge(w)
    \/ RunnerMissing(w)

GateNext == Start \/ Finish \/ Abort \/ Leave \/ \E w \in Threads : RunCase(w)

\* subprocess.run ends every runner after its time limit (case_timeout): a
\* runner need not ever end by itself.  The main thread waits for the pool.
GateFairness ==
    /\ WF_gateVars(Finish) /\ WF_gateVars(Abort) /\ WF_gateVars(Leave)
    /\ \A w \in Threads :
        /\ WF_gateVars(Take(w)) /\ WF_gateVars(Judge(w))
        /\ WF_gateVars(SimulatorDies(w)) /\ WF_gateVars(VerilatorDies(w))

GateSpec == GateInit /\ [][GateNext]_gateVars /\ GateFairness
-----------------------------------------------------------------------------
(* Properties *)

\* Cycle by cycle, up to the end of the program or the cap, the backends
\* fetch at the same addresses and end together with the same registers,
\* memory and word at tohost.
LockStep(c) ==
    LET s == build[c].sim.trace
        v == build[c].vl.trace
    IN \A n \in 1 .. Cap(c) :
        (\A m \in 1 .. n - 1 : ~Done(s[m])) =>
            /\ s[n].pc = v[n].pc
            /\ Done(s[n]) <=> Done(v[n])
            /\ (n = Cap(c) \/ Done(s[n])) =>
                /\ s[n].tohost = v[n].tohost
                /\ s[n].regs = v[n].regs
                /\ s[n].memsig = v[n].memsig

SameElaboration(c) == build[c].sim.dag = build[c].vl.dag

\* Contract S-9, S-10: a case passes only if the backends, of this build, run
\* it in lock step, unless an exception for the case is in force; it fails
\* only if they diverge, and not because something has gone wrong with the
\* gate: a directory shared, a report of something else.
VerdictIsTrue ==
    \A c \in Cases :
        /\ (verdict[c] = "PASS" /\ ~ \E e \in Exceptions : {c, "*"} \cap e.scope # {} /\ ~e.expired)
              => SameElaboration(c) /\ LockStep(c)
        /\ verdict[c] = "FAIL" => SameElaboration(c) /\ ~LockStep(c)

\* Contract S-10: a runner that has not come to its end makes its case an
\* error, and so does a simulation whose signature of memory is hollow.
FaultIsError ==
    \A c \in Cases :
        ( /\ verdict[c] # Nothing
          /\ \/ c \in failed
             \/ LET s == build[c].sim.trace
                    n == EndOf(s, Cap(c))
                IN s[n].tohost # 0 /\ s[n].updates = 0) => verdict[c] = "ERROR"

\* Contract S-10, S-15, of a gate that could start its runners: it is green when
\* every case it owes has passed, in the night the whole corpus; it says 1 if
\* and only if the backends diverge on some case.
ExitTellsAll ==
    gate = "idle" /\ unstarted = {} /\ verdict # [c \in Cases |-> Nothing] =>
        /\ result = 0 =>
            \A i \in DOMAIN Corpus :
                Owed(Corpus[i], layer) => verdict[Corpus[i].name] = "PASS"
        /\ result = 1 <=> \E c \in Cases : verdict[c] = "FAIL"

\* Contract S-10: 1 is a divergence of the backends, 2 a fault of the gate or of
\* what surrounds it.  It fails for a runner that cannot be started.
OneIsDivergence == gate = "idle" /\ result = 1 => \E c \in Cases : verdict[c] = "FAIL"

\* Every invocation comes to an end, whatever the runners do.
GateReturns == gate = "running" ~> gate = "idle"
=============================================================================

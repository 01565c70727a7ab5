-------------------------------- MODULE Gate --------------------------------
(***************************************************************************)
(* The `mx gate` command of src/mx/commands.py (gate, 526-591): a fixed    *)
(* sequence of timed Tasks run inside one outer Task 'Gate', fail-fast.   *)
(* Each inner Task block (Task(title); check; t.stop()) is one action.     *)
(* The checks are the calls the gate makes into this file: build (270-324)*)
(* vm (326-333), _jdk (189-234) and unittest (496-524); what they do to   *)
(* the JDK directory and to the global _vmbuild is part of the step.       *)
(* The external tools (checkstyle, javac, make, the VM, DaCapo) are an    *)
(* environment that passes, fails, calls mx.abort or raises.               *)
(***************************************************************************)
EXTENDS Naturals, Sequences, FiniteSets

CONSTANTS
    Platform,            \* platform.system(), tested by build at 303
    VmSourcesAvailable,  \* _vmSourcesAvailable (36): make/ and src/ exist
    AbortRaises          \* the exception class mx.abort raises (mx, not in src/)

ASSUME PlatformAssumption == Platform \in {"Windows", "Linux"}
ASSUME SourcesAssumption == VmSourcesAvailable \in BOOLEAN
ASSUME AbortAssumption == AbortRaises \in {"SystemExit", "Exception"}

None == "none"

\* The build types _jdk accepts (220-222) and the ones the gate loops over (567).
AllBuilds == {"product", "debug", "fastdebug", "optimized"}
GateBuilds == <<"product", "fastdebug">>

\* Task titles: a name and, for the steps of the loop at 567, its build.
Title(n, v) == [name |-> n, variant |-> v]
GateTitle == Title("Gate", None)
PreSteps == <<"Checkstyle", "Canonicalization Check", "BuildJava">>
BuildSteps == <<"BuildHotSpot", "BootstrapWithSystemAssertions",
                "UnitTests", "DaCapoBenchmarks">>
NSteps == Len(PreSteps) + Len(GateBuilds) * Len(BuildSteps)

\* The i-th Task the try block of 546-587 starts, in declaration order.
Step(i) ==
    IF i <= Len(PreSteps) THEN Title(PreSteps[i], None)
    ELSE LET k == i - Len(PreSteps) - 1
         IN  Title(BuildSteps[(k % Len(BuildSteps)) + 1],
                   GateBuilds[(k \div Len(BuildSteps)) + 1])

Steps == {Step(i) : i \in 1..NSteps}
Titles == Steps \cup {GateTitle}

\* Steps whose check result the gate tests itself and answers with t.abort.
ReturnCodeSteps == {"Checkstyle", "Canonicalization Check", "DaCapoBenchmarks"}
\* Steps that run the VM through vm() exactly once.
VmSteps == {"BootstrapWithSystemAssertions", "UnitTests"}

(***************************************************************************)
(* What the external check of a step does: "pass"; "fail" (its return    *)
(* code, exit status or success marker says the check failed); "abort"     *)
(* (something it calls invokes mx.abort for another reason, e.g. a missing *)
(* host JDK directory in _jdk); "error" (an ordinary Python exception such *)
(* as OSError from shutil.copytree or an AssertionError).                  *)
(***************************************************************************)
Outcomes == {"pass", "fail", "abort", "error"}
Exceptions == {"none", "SystemExit", "Exception"}
Events == {"BEGIN", "END", "ABORT"}

VARIABLES
    status,     \* where gate() is: "init", "try", "handler" (588-589), "exited"
    pc,         \* index of the Task the try block is at
    exc,        \* the exception propagating out of the current Task block
    log,        \* the BEGIN/END/ABORT lines Task writes through mx.log
    vmbuild,    \* the module global _vmbuild (37), set by the loop at 569
    vms,        \* the build types whose directory exists under the Graal JDK
    failed,     \* (history) the Tasks whose check did not pass
    vmRuns,     \* (history) each vm() call: its Task, the build it chose, found
    exitCode    \* the exit status of the mx process, once exited

vars == <<status, pc, exc, log, vmbuild, vms, failed, vmRuns, exitCode>>

LogLine == [ev : Events, title : Titles]
VmRun == [title : Steps, build : AllBuilds, found : BOOLEAN]

TypeOK ==
    /\ status \in {"init", "try", "handler", "exited"}
    /\ pc \in 1..(NSteps + 1)
    /\ exc \in Exceptions
    /\ log \in Seq(LogLine)
    /\ vmbuild \in AllBuilds
    /\ vms \in SUBSET AllBuilds
    /\ failed \in SUBSET Steps
    /\ vmRuns \in SUBSET VmRun
    /\ exitCode \in {0, 1}

\* A build directory jdk/<build> only exists inside an existing jdk (197, 228).
JdkStates == {S \in SUBSET AllBuilds : S # {} => "product" \in S}

\* _vmbuild is 'product' when the module loads (37); with the VM sources a
\* --<build> option on the command line replaces it (649-652) before gate
\* runs. The host JDK may already hold a Graal JDK from earlier runs.
Init ==
    /\ status = "init"
    /\ pc = 1
    /\ exc = "none"
    /\ log = <<>>
    /\ vmbuild \in IF VmSourcesAvailable THEN AllBuilds ELSE {"product"}
    /\ vms \in JdkStates
    /\ failed = {}
    /\ vmRuns = {}
    /\ exitCode = 0

-----------------------------------------------------------------------------
(* Helpers for the effect of one Task block.                               *)

Line(e, t) == [ev |-> e, title |-> t]

\* The exception a callee raises for a non-passing outcome.
Raised(o) ==
    CASE o = "pass"  -> "none"
      [] o = "error" -> "Exception"
      [] OTHER       -> AbortRaises

\* mutant: a Task block left by an exception still moves pc on.
EndTaskAdvanceAlways(passed, raised, last) ==
    /\ log' = IF last = None THEN Append(log, Line("BEGIN", Step(pc)))
              ELSE log \o <<Line("BEGIN", Step(pc)), Line(last, Step(pc))>>
    /\ exc' = raised
    /\ pc' = pc + 1
    /\ failed' = IF passed THEN failed ELSE failed \cup {Step(pc)}

\* Task(title) logs BEGIN (533-536); the block then logs END through
\* t.stop() (537-539), ABORT through t.abort() (540-543), or nothing more
\* when an exception leaves it. A block left normally advances pc.
EndTask(passed, raised, last) ==
    /\ log' = IF last = None THEN Append(log, Line("BEGIN", Step(pc)))
              ELSE log \o <<Line("BEGIN", Step(pc)), Line(last, Step(pc))>>
    /\ exc' = raised
    /\ pc' = IF raised = "none" THEN pc + 1 ELSE pc
    /\ failed' = IF passed THEN failed ELSE failed \cup {Step(pc)}

\* A block whose callee signals failure only by raising: t.stop() is reached
\* exactly when the callee returns.
Unchecked(o) == EndTask(o = "pass", Raised(o), IF o = "pass" THEN "END" ELSE None)

InTask(names) ==
    /\ status = "try"
    /\ exc = "none"
    /\ pc <= NSteps
    /\ Step(pc).name \in names

-----------------------------------------------------------------------------
(* Actions.                                                                *)

\* total = Task('Gate') (545) and entry into the try block.
StartGate ==
    /\ status = "init"
    /\ status' = "try"
    /\ log' = <<Line("BEGIN", GateTitle)>>
    /\ UNCHANGED <<pc, exc, vmbuild, vms, failed, vmRuns, exitCode>>

\* mutant: the result of the check is logged but the block carries on.
ReturnCodeTaskNoRaise(o) ==
    /\ InTask(ReturnCodeSteps)
    /\ IF o = "fail" THEN EndTask(FALSE, "none", "ABORT") ELSE Unchecked(o)
    /\ UNCHANGED <<status, vmbuild, vms, vmRuns, exitCode>>

\* Checkstyle (552-555), Canonicalization Check (557-561) and
\* DaCapoBenchmarks (583-587): a failing result is answered by t.abort,
\* which logs ABORT and calls mx.abort.
ReturnCodeTask(o) ==
    /\ InTask(ReturnCodeSteps)
    /\ IF o = "fail" THEN EndTask(FALSE, AbortRaises, "ABORT") ELSE Unchecked(o)
    /\ UNCHANGED <<status, vmbuild, vms, vmRuns, exitCode>>

\* BuildJava (563-565): build(['--no-native']) runs mx.build, which aborts on
\* a compile error, and returns at 281 because opts.native is false.
BuildJavaTask(o) ==
    /\ InTask({"BuildJava"})
    /\ Unchecked(o)
    /\ UNCHANGED <<status, vmbuild, vms, vmRuns, exitCode>>

\* mutant: the assignment at 569 without the `global` of 568 binds a local.
SetVmbuildLocal(v) == UNCHANGED vmbuild

\* mutant: the Task title is stored instead of the build.
SetVmbuildTitle(v) == vmbuild' = "BuildHotSpot:" \o v

\* The loop at 567 sets the module global _vmbuild (568-569).
SetVmbuild(v) == vmbuild' = v

\* mutant: build asks _jdk(build) without create = True.
JdkForBuildNoCreate(v, o) == vms' = vms \cup {"product"}

\* _jdk(v, True) at 290 creates the jdk (194-204) and jdk/<v> (222-231)
\* when missing; an abort or an exception inside it stops build earlier.
JdkForBuild(v, o) ==
    vms' = IF VmSourcesAvailable /\ o \in {"pass", "fail"}
           THEN vms \cup {"product", v} ELSE vms

\* mutant: the native build failure is ignored, like 311/316, everywhere.
NativeBuildSilentEverywhere(o) ==
    IF VmSourcesAvailable /\ o = "fail"
    THEN EndTask(FALSE, "none", "END") ELSE Unchecked(o)

\* The native build after _jdk: on Windows a failure of the create or the
\* msbuild step is logged and build returns normally (303-316); elsewhere
\* mx.run aborts on a non-zero exit of make (317-324). Without VM sources
\* build returned at 281 and only mx.build could fail.
NativeBuild(o) ==
    IF VmSourcesAvailable /\ Platform = "Windows" /\ o = "fail"
    THEN EndTask(FALSE, "none", "END") ELSE Unchecked(o)

\* One iteration of the loop at 567 and its BuildHotSpot Task (571-573):
\* build(['--no-java', v]) (270-324).
BuildHotSpotTask(o) ==
    LET v == Step(pc).variant
    IN  /\ InTask({"BuildHotSpot"})
        /\ SetVmbuild(v)
        /\ JdkForBuild(v, o)
        /\ NativeBuild(o)
        /\ UNCHANGED <<status, vmRuns, exitCode>>

\* The build vm() runs (329): _vmbuild when the VM sources exist, else product.
VmBuild == IF VmSourcesAvailable THEN vmbuild ELSE "product"

\* BootstrapWithSystemAssertions (575-577) calls vm(['-esa', '-version']);
\* UnitTests (579-581) calls unittest([]), which collects the test classes
\* and calls vm() once for the one project of _unittests (516-524). vm()
\* asks _jdk(build) (332) with create = False: the jdk is created if missing,
\* and a missing jdk/<build> aborts (225-226); mx.run aborts on a non-zero
\* exit of the VM (333).
VmTask(o) ==
    LET b == VmBuild
        found == b = "product" \/ b \in vms
    IN  /\ InTask(VmSteps)
        /\ vms' = vms \cup {"product"}
        /\ vmRuns' = vmRuns \cup {[title |-> Step(pc), build |-> b, found |-> found]}
        /\ IF found THEN Unchecked(o) ELSE EndTask(FALSE, AbortRaises, None)
        /\ UNCHANGED <<status, vmbuild, exitCode>>

\* except Exception as e: total.abort(str(e)) (588-589): logs ABORT for the
\* Gate task and calls mx.abort inside the handler.
Catch ==
    /\ status = "try"
    /\ exc = "Exception"
    /\ status' = "handler"
    /\ log' = Append(log, Line("ABORT", GateTitle))
    /\ exc' = AbortRaises
    /\ UNCHANGED <<pc, vmbuild, vms, failed, vmRuns, exitCode>>

\* The try block completed: total.stop() (591) and gate returns None, which
\* mx turns into exit status 0.
Finish ==
    /\ status = "try"
    /\ exc = "none"
    /\ pc = NSteps + 1
    /\ status' = "exited"
    /\ log' = Append(log, Line("END", GateTitle))
    /\ UNCHANGED <<pc, exc, vmbuild, vms, failed, vmRuns, exitCode>>

\* An exception leaves gate(): one `except Exception` does not catch (a
\* SystemExit from the try block) or one raised in the handler. The mx
\* process exits with a non-zero status.
Exit ==
    /\ \/ status = "try" /\ exc = "SystemExit"
       \/ status = "handler"
    /\ status' = "exited"
    /\ exitCode' = 1
    /\ UNCHANGED <<pc, exc, log, vmbuild, vms, failed, vmRuns>>

Next ==
    \/ StartGate
    \/ \E o \in Outcomes : ReturnCodeTask(o)
    \/ \E o \in Outcomes : BuildJavaTask(o)
    \/ \E o \in Outcomes : BuildHotSpotTask(o)
    \/ \E o \in Outcomes : VmTask(o)
    \/ Catch
    \/ Finish
    \/ Exit

Spec == Init /\ [][Next]_vars

-----------------------------------------------------------------------------
(* Properties.                                                             *)

Begun(t) == \E k \in DOMAIN log : log[k] = Line("BEGIN", t)
Ended(t) == \E k \in DOMAIN log : log[k] = Line("END", t)
Aborted(t) == \E k \in DOMAIN log : log[k] = Line("ABORT", t)

\* The docstring of gate (529-530): the command exits with status 0 exactly
\* when every Task ran and every check passed. A failure anywhere, in any
\* of the callees, must reach the exit status.
ExitStatusCorrect ==
    status = "exited" =>
        ((exitCode = 0) <=> (failed = {} /\ pc = NSteps + 1))

\* Fail-fast: once the check of a Task failed, no later Task begins.
ShortCircuit ==
    \A i \in 1..NSteps :
        Step(i) \in failed => \A j \in (i + 1)..NSteps : ~Begun(Step(j))

\* The Tasks of the loop at 567 labelled with a build run that build's VM:
\* vm() reads the global _vmbuild (329) that the loop set at 569.
VariantConsistency ==
    \A r \in vmRuns : r.build = r.title.variant

\* No vm() call of the gate aborts because its VM was never created (226):
\* BuildHotSpot creates jdk/<build> before the steps that run it.
VmFound ==
    \A r \in vmRuns : r.found

\* The data model of the design (section 3): every Task that was started
\* (its BEGIN logged) reaches a terminal outcome (END or ABORT logged)
\* before the process exits.
EveryTaskTerminated ==
    status = "exited" =>
        \A t \in Titles : Begun(t) => (Ended(t) \/ Aborted(t))

-----------------------------------------------------------------------------
(* Refinement of the fail-fast sequencer of TaskSequencer.                 *)

\* The sequencer's view of the gate: the Tasks completed are those before
\* pc; the sequence has failed as soon as a check failed, and its outcome
\* once the process exited is its exit status.
SeqState ==
    IF status = "exited" THEN (IF exitCode = 0 THEN "passed" ELSE "failed")
    ELSE IF failed # {} THEN "failed" ELSE "running"
SeqCode ==
    IF status = "exited" THEN exitCode ELSE IF failed # {} THEN 1 ELSE 0

Sequencer == INSTANCE TaskSequencer
    WITH N <- NSteps, done <- pc - 1, state <- SeqState, code <- SeqCode

\* gate implements the promise of a fail-fast sequencer (its docstring,
\* 529-530): Tasks complete strictly in order, nothing runs after the first
\* failed check, and the exit status is 0 exactly when all completed.
ImplementsSequencer == Sequencer!Spec

=============================================================================

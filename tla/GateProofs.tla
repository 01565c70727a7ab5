----------------------------- MODULE GateProofs -----------------------------
(***************************************************************************)
(* Proofs about the gate of src/mx/commands.py (module Gate), for every    *)
(* value of the constants that satisfies their assumptions.                *)
(***************************************************************************)
EXTENDS Gate, TLAPS

USE PlatformAssumption, SourcesAssumption, AbortAssumption

LEMMA LenFacts ==
  /\ Len(PreSteps) = 3 /\ Len(BuildSteps) = 4 /\ Len(GateBuilds) = 2
  /\ NSteps = 11
  BY DEF NSteps, PreSteps, GateBuilds, BuildSteps

\* Every index the try block can be at names a Task of the gate; the Tasks
\* of the loop at 567 carry a build _jdk accepts.
LEMMA StepFacts ==
  ASSUME NEW i \in 1..NSteps
  PROVE  /\ Step(i) \in Steps
         /\ Step(i) \in Titles
         /\ Step(i).name = "BuildHotSpot" => Step(i).variant \in AllBuilds
  <1>1. Step(i) \in Steps
    BY DEF Steps
  <1>2. Step(i) \in Titles
    BY <1>1 DEF Titles
  <1>3. Step(i).name = "BuildHotSpot" => Step(i).variant \in AllBuilds
    <2>1. i \in 1..11
      BY LenFacts
    <2>2. CASE i \in 1..3
      <3>1. Step(i).name = PreSteps[i]
        BY <2>2, LenFacts DEF Step, Title
      <3>2. PreSteps[i] \in {"Checkstyle", "Canonicalization Check", "BuildJava"}
        <4>1. i = 1 \/ i = 2 \/ i = 3
          BY <2>2
        <4>2. PreSteps[1] = "Checkstyle" /\ PreSteps[2] = "Canonicalization Check"
              /\ PreSteps[3] = "BuildJava"
          BY DEF PreSteps
        <4>3. QED
          BY <4>1, <4>2, Zenon
      <3>3. QED
        BY <3>1, <3>2
    <2>3. CASE i \in 4..7
      <3>1. Step(i).variant = GateBuilds[1]
        BY <2>3, LenFacts DEF Step, Title
      <3>2. QED
        BY <3>1 DEF GateBuilds, AllBuilds
    <2>4. CASE i \in 8..11
      <3>1. Step(i).variant = GateBuilds[2]
        BY <2>4, LenFacts DEF Step, Title
      <3>2. QED
        BY <3>1 DEF GateBuilds, AllBuilds
    <2>5. QED
      BY <2>1, <2>2, <2>3, <2>4
  <1>4. QED
    BY <1>1, <1>2, <1>3

LEMMA LineType ==
  ASSUME NEW e \in Events, NEW t \in Titles
  PROVE  Line(e, t) \in LogLine
  BY DEF Line, LogLine

\* The part of the state one Task block writes.
BlockTypeOK ==
  /\ log \in Seq(LogLine)
  /\ pc \in 1..(NSteps + 1)
  /\ exc \in Exceptions
  /\ failed \in SUBSET Steps

\* A Task block of the try block leaves that part of the state well typed.
LEMMA EndTaskType ==
  ASSUME TypeOK, status = "try", pc <= NSteps,
         NEW passed \in BOOLEAN, NEW raised \in Exceptions,
         NEW last \in {None, "END", "ABORT"},
         EndTask(passed, raised, last)
  PROVE  BlockTypeOK'
  <1>1. pc \in 1..NSteps
    BY DEF TypeOK
  <1>2. Step(pc) \in Titles /\ Step(pc) \in Steps
    BY <1>1, StepFacts
  <1>3. Line("BEGIN", Step(pc)) \in LogLine
    BY <1>2, LineType DEF Events
  <1>4. last # None => Line(last, Step(pc)) \in LogLine
    BY <1>2, LineType DEF Events, None
  <1>5. log' \in Seq(LogLine)
    BY <1>3, <1>4 DEF EndTask, TypeOK
  <1>6. pc' \in 1..(NSteps + 1)
    BY <1>1, LenFacts DEF EndTask
  <1>7. exc' \in Exceptions
    BY DEF EndTask
  <1>8. failed' \in SUBSET Steps
    BY <1>2 DEF EndTask, TypeOK
  <1>9. QED
    BY <1>5, <1>6, <1>7, <1>8 DEF BlockTypeOK

LEMMA RaisedType ==
  ASSUME NEW o \in Outcomes
  PROVE  /\ Raised(o) \in Exceptions
         /\ (Raised(o) = "none") <=> (o = "pass")
  BY DEF Raised, Exceptions, Outcomes

\* The same for a block whose callee signals failure only by raising.
LEMMA UncheckedType ==
  ASSUME TypeOK, status = "try", pc <= NSteps,
         NEW o \in Outcomes, Unchecked(o)
  PROVE  BlockTypeOK'
  <1>1. CASE o = "pass"
    <2>1. EndTask(TRUE, Raised(o), "END")
      BY <1>1 DEF Unchecked
    <2>2. QED
      BY <2>1, RaisedType, EndTaskType
  <1>2. CASE o # "pass"
    <2>1. EndTask(FALSE, Raised(o), None)
      BY <1>2 DEF Unchecked
    <2>2. QED
      BY <2>1, RaisedType, EndTaskType
  <1>3. QED
    BY <1>1, <1>2

-----------------------------------------------------------------------------
(* Type correctness.                                                       *)

LEMMA InitTypeOK == Init => TypeOK
  <1> SUFFICES ASSUME Init PROVE TypeOK
    OBVIOUS
  <1>1. pc \in 1..(NSteps + 1)
    BY LenFacts DEF Init
  <1>2. log \in Seq(LogLine)
    BY DEF Init
  <1>3. vms \in SUBSET AllBuilds
    BY DEF Init, JdkStates
  <1>4. exc \in Exceptions /\ vmbuild \in AllBuilds
    BY DEF Init, Exceptions, AllBuilds
  <1>5. QED
    BY <1>1, <1>2, <1>3, <1>4 DEF Init, TypeOK

LEMMA NextTypeOK == TypeOK /\ [Next]_vars => TypeOK'
  <1> SUFFICES ASSUME TypeOK, [Next]_vars PROVE TypeOK'
    OBVIOUS
  <1>1. CASE StartGate
    BY <1>1, LineType DEF StartGate, TypeOK, Titles, Events
  <1>2. ASSUME NEW o \in Outcomes, ReturnCodeTask(o)
        PROVE  TypeOK'
    <2>1. status = "try" /\ pc <= NSteps
      BY <1>2 DEF ReturnCodeTask, InTask
    <2>2. o = "fail" => BlockTypeOK'
      <3>1. o = "fail" => EndTask(FALSE, AbortRaises, "ABORT")
        BY <1>2 DEF ReturnCodeTask
      <3>2. QED
        BY <2>1, <3>1, EndTaskType DEF Exceptions
    <2>3. o # "fail" => BlockTypeOK'
      <3>1. o # "fail" => Unchecked(o)
        BY <1>2 DEF ReturnCodeTask
      <3>2. QED
        BY <2>1, <3>1, UncheckedType
    <2>4. QED
      BY <1>2, <2>2, <2>3 DEF ReturnCodeTask, TypeOK, BlockTypeOK
  <1>3. ASSUME NEW o \in Outcomes, BuildJavaTask(o)
        PROVE  TypeOK'
    <2>1. BlockTypeOK'
      BY <1>3, UncheckedType DEF BuildJavaTask, InTask
    <2>2. QED
      BY <1>3, <2>1 DEF BuildJavaTask, TypeOK, BlockTypeOK
  <1>4. ASSUME NEW o \in Outcomes, BuildHotSpotTask(o)
        PROVE  TypeOK'
    <2>1. pc \in 1..NSteps /\ Step(pc).name = "BuildHotSpot" /\ status = "try"
      BY <1>4 DEF BuildHotSpotTask, InTask, TypeOK
    <2>2. Step(pc).variant \in AllBuilds
      BY <2>1, StepFacts
    <2>3. vmbuild' = Step(pc).variant
      BY <1>4 DEF BuildHotSpotTask, SetVmbuild
    <2>4. vms' \subseteq vms \cup {"product", Step(pc).variant}
      BY <1>4 DEF BuildHotSpotTask, JdkForBuild
    <2>5. vmbuild' \in AllBuilds /\ vms' \in SUBSET AllBuilds
      BY <2>2, <2>3, <2>4 DEF TypeOK, AllBuilds
    <2>6. EndTask(FALSE, "none", "END") \/ Unchecked(o)
      BY <1>4 DEF BuildHotSpotTask, NativeBuild
    <2>7. BlockTypeOK'
      <3>1. pc <= NSteps
        BY <2>1, LenFacts
      <3>2. CASE EndTask(FALSE, "none", "END")
        BY <2>1, <3>1, <3>2, EndTaskType DEF Exceptions
      <3>3. CASE Unchecked(o)
        BY <2>1, <3>1, <3>3, UncheckedType
      <3>4. QED
        BY <2>6, <3>2, <3>3
    <2>8. QED
      BY <1>4, <2>5, <2>7 DEF BuildHotSpotTask, TypeOK, BlockTypeOK
  <1>5. ASSUME NEW o \in Outcomes, VmTask(o)
        PROVE  TypeOK'
    <2>1. pc \in 1..NSteps /\ status = "try"
      BY <1>5 DEF VmTask, InTask, TypeOK
    <2>2. VmBuild \in AllBuilds
      BY DEF VmBuild, TypeOK, AllBuilds
    <2>3. [title |-> Step(pc), build |-> VmBuild,
           found |-> VmBuild = "product" \/ VmBuild \in vms] \in VmRun
      BY <2>1, <2>2, StepFacts DEF VmRun
    <2>4. vms' \in SUBSET AllBuilds /\ vmRuns' \in SUBSET VmRun
      BY <1>5, <2>3 DEF VmTask, TypeOK, AllBuilds
    <2>5. EndTask(FALSE, AbortRaises, None) \/ Unchecked(o)
      BY <1>5 DEF VmTask
    <2>6. BlockTypeOK'
      <3>1. pc <= NSteps
        BY <2>1, LenFacts
      <3>2. CASE EndTask(FALSE, AbortRaises, None)
        BY <2>1, <3>1, <3>2, EndTaskType DEF Exceptions
      <3>3. CASE Unchecked(o)
        BY <2>1, <3>1, <3>3, UncheckedType
      <3>4. QED
        BY <2>5, <3>2, <3>3
    <2>7. QED
      BY <1>5, <2>4, <2>6 DEF VmTask, TypeOK, BlockTypeOK
  <1>6. CASE Catch
    BY <1>6, LineType DEF Catch, TypeOK, Titles, Events, Exceptions
  <1>7. CASE Finish
    BY <1>7, LineType DEF Finish, TypeOK, Titles, Events
  <1>8. CASE Exit
    BY <1>8 DEF Exit, TypeOK
  <1>9. CASE UNCHANGED vars
    BY <1>9 DEF vars, TypeOK
  <1>10. QED
    BY <1>1, <1>2, <1>3, <1>4, <1>5, <1>6, <1>7, <1>8, <1>9 DEF Next

\* TypeOK holds in every state of every behaviour of the gate.
THEOREM TypeCorrect == Spec => []TypeOK
  BY InitTypeOK, NextTypeOK, PTL DEF Spec

-----------------------------------------------------------------------------
(* The exit status away from Windows.                                      *)

(***************************************************************************)
(* ExitStatusCorrect is not inductive: a Finish step needs that no check   *)
(* failed while no exception is pending, and an Exit step the converse.   *)
(* ExitInv adds what the code keeps true off Windows, where every failing  *)
(* callee raises (mx.run and mx.abort at 317-324, t.abort at 555, 561,    *)
(* 587): an exception is pending exactly when some check failed, the      *)
(* handler of 588 always holds one, and the status stays 0 until exit.    *)
(***************************************************************************)
ExitInv ==
  /\ TypeOK
  /\ (exc = "none") <=> (failed = {})
  /\ status = "handler" => exc # "none"
  /\ status # "exited" => exitCode = 0
  /\ ExitStatusCorrect

\* A Task block that raises exactly when its check did not pass keeps an
\* exception pending exactly when some check failed.
LEMMA EndTaskFailed ==
  ASSUME failed = {}, NEW passed \in BOOLEAN, NEW raised, NEW last,
         (raised = "none") <=> passed,
         EndTask(passed, raised, last)
  PROVE  (exc' = "none") <=> (failed' = {})
  BY DEF EndTask

LEMMA UncheckedFailed ==
  ASSUME failed = {}, NEW o \in Outcomes, Unchecked(o)
  PROVE  (exc' = "none") <=> (failed' = {})
  <1>1. EndTask(o = "pass", Raised(o), IF o = "pass" THEN "END" ELSE None)
    BY DEF Unchecked
  <1>2. QED
    BY <1>1, RaisedType, EndTaskFailed

LEMMA InitExitInv == Init => ExitInv
  BY InitTypeOK DEF Init, ExitInv, ExitStatusCorrect

\* The steps of the try block leave status and exitCode alone and, off
\* Windows, raise exactly when their check fails.
LEMMA TaskExitInv ==
  ASSUME Platform # "Windows", ExitInv, TypeOK',
         status = "try", exc = "none",
         status' = status, exitCode' = exitCode,
         (exc' = "none") <=> (failed' = {})
  PROVE  ExitInv'
  BY DEF ExitInv, ExitStatusCorrect

LEMMA NextExitInv ==
  ASSUME Platform # "Windows"
  PROVE  ExitInv /\ [Next]_vars => ExitInv'
  <1> SUFFICES ASSUME ExitInv, [Next]_vars PROVE ExitInv'
    OBVIOUS
  <1>0. TypeOK /\ TypeOK'
    BY NextTypeOK DEF ExitInv
  <1>1. CASE StartGate
    BY <1>0, <1>1 DEF StartGate, ExitInv, ExitStatusCorrect
  <1>2. ASSUME NEW o \in Outcomes, ReturnCodeTask(o)
        PROVE  ExitInv'
    <2>1. status = "try" /\ exc = "none" /\ failed = {}
      BY <1>2 DEF ReturnCodeTask, InTask, ExitInv
    <2>2. (exc' = "none") <=> (failed' = {})
      <3>1. CASE o = "fail"
        BY <1>2, <2>1, <3>1, EndTaskFailed DEF ReturnCodeTask
      <3>2. CASE o # "fail"
        BY <1>2, <2>1, <3>2, UncheckedFailed DEF ReturnCodeTask
      <3>3. QED
        BY <3>1, <3>2
    <2>3. QED
      BY <1>0, <1>2, <2>1, <2>2, TaskExitInv DEF ReturnCodeTask
  <1>3. ASSUME NEW o \in Outcomes, BuildJavaTask(o)
        PROVE  ExitInv'
    <2>1. status = "try" /\ exc = "none" /\ failed = {}
      BY <1>3 DEF BuildJavaTask, InTask, ExitInv
    <2>2. (exc' = "none") <=> (failed' = {})
      BY <1>3, <2>1, UncheckedFailed DEF BuildJavaTask
    <2>3. QED
      BY <1>0, <1>3, <2>1, <2>2, TaskExitInv DEF BuildJavaTask
  <1>4. ASSUME NEW o \in Outcomes, BuildHotSpotTask(o)
        PROVE  ExitInv'
    <2>1. status = "try" /\ exc = "none" /\ failed = {}
      BY <1>4 DEF BuildHotSpotTask, InTask, ExitInv
    <2>2. Unchecked(o)
      BY <1>4 DEF BuildHotSpotTask, NativeBuild
    <2>3. (exc' = "none") <=> (failed' = {})
      BY <2>1, <2>2, UncheckedFailed
    <2>4. QED
      BY <1>0, <1>4, <2>1, <2>3, TaskExitInv DEF BuildHotSpotTask
  <1>5. ASSUME NEW o \in Outcomes, VmTask(o)
        PROVE  ExitInv'
    <2>1. status = "try" /\ exc = "none" /\ failed = {}
      BY <1>5 DEF VmTask, InTask, ExitInv
    <2>2. (exc' = "none") <=> (failed' = {})
      <3>1. CASE VmBuild = "product" \/ VmBuild \in vms
        BY <1>5, <2>1, <3>1, UncheckedFailed DEF VmTask
      <3>2. CASE ~(VmBuild = "product" \/ VmBuild \in vms)
        BY <1>5, <2>1, <3>2, EndTaskFailed DEF VmTask
      <3>3. QED
        BY <3>1, <3>2
    <2>3. QED
      BY <1>0, <1>5, <2>1, <2>2, TaskExitInv DEF VmTask
  <1>6. CASE Catch
    BY <1>0, <1>6 DEF Catch, ExitInv, ExitStatusCorrect
  <1>7. CASE Finish
    BY <1>0, <1>7 DEF Finish, ExitInv, ExitStatusCorrect
  <1>8. CASE Exit
    BY <1>0, <1>8 DEF Exit, ExitInv, ExitStatusCorrect
  <1>9. CASE UNCHANGED vars
    BY <1>0, <1>9 DEF vars, ExitInv, ExitStatusCorrect
  <1>10. QED
    BY <1>1, <1>2, <1>3, <1>4, <1>5, <1>6, <1>7, <1>8, <1>9 DEF Next

\* Off Windows the gate exits with status 0 exactly when every Task ran and
\* every check passed (the docstring of gate, 529-530): a failure in any
\* callee reaches the exit status, whatever mx.abort raises.
THEOREM ExitStatusOffWindows ==
  ASSUME Platform # "Windows"
  PROVE  Spec => []ExitStatusCorrect
  <1>1. Init => ExitInv
    BY InitExitInv
  <1>2. ExitInv /\ [Next]_vars => ExitInv'
    BY NextExitInv
  <1>3. ExitInv => ExitStatusCorrect
    BY DEF ExitInv
  <1>4. QED
    BY <1>1, <1>2, <1>3, PTL DEF Spec

-----------------------------------------------------------------------------
(* Refinement: off Windows the gate implements TaskSequencer.              *)

\* A Task block moves pc on exactly when no exception leaves it.
LEMMA EndTaskPc ==
  ASSUME NEW passed, NEW raised, NEW last, EndTask(passed, raised, last)
  PROVE  pc' = IF exc' = "none" THEN pc + 1 ELSE pc
  BY DEF EndTask

LEMMA UncheckedPc ==
  ASSUME NEW o, Unchecked(o)
  PROVE  pc' = IF exc' = "none" THEN pc + 1 ELSE pc
  BY EndTaskPc DEF Unchecked

\* A Task block of the try block is a step of the sequencer: the next step
\* completes when no exception leaves it, and the sequence fails otherwise.
LEMMA TaskRefines ==
  ASSUME ExitInv, ExitInv', status = "try", exc = "none", pc <= NSteps,
         status' = status, exitCode' = exitCode,
         pc' = IF exc' = "none" THEN pc + 1 ELSE pc
  PROVE  Sequencer!Next
  <1>1. failed = {} /\ exitCode = 0 /\ pc \in 1..(NSteps + 1)
    BY DEF ExitInv, TypeOK
  <1>2. CASE exc' = "none"
    <2>1. failed' = {} /\ pc' = pc + 1
      BY <1>2 DEF ExitInv
    <2>2. Sequencer!Complete
      BY <1>1, <2>1, LenFacts DEF Sequencer!Complete, SeqState, SeqCode
    <2>3. QED
      BY <2>2 DEF Sequencer!Next
  <1>3. CASE exc' # "none"
    <2>1. failed' # {} /\ pc' = pc
      BY <1>3 DEF ExitInv
    <2>2. Sequencer!Fail
      BY <1>1, <2>1, LenFacts DEF Sequencer!Fail, SeqState, SeqCode
    <2>3. QED
      BY <2>2 DEF Sequencer!Next
  <1>4. QED
    BY <1>2, <1>3

LEMMA NextRefines ==
  ASSUME Platform # "Windows"
  PROVE  ExitInv /\ [Next]_vars => [Sequencer!Next]_Sequencer!vars
  <1> SUFFICES ASSUME ExitInv, [Next]_vars
               PROVE  [Sequencer!Next]_Sequencer!vars
    OBVIOUS
  <1>0. ExitInv'
    BY NextExitInv
  <1>1. CASE StartGate
    BY <1>1 DEF StartGate, SeqState, SeqCode, Sequencer!vars
  <1>2. ASSUME NEW o \in Outcomes, ReturnCodeTask(o)
        PROVE  Sequencer!Next
    <2>1. pc' = IF exc' = "none" THEN pc + 1 ELSE pc
      BY <1>2, EndTaskPc, UncheckedPc DEF ReturnCodeTask
    <2>2. QED
      BY <1>0, <1>2, <2>1, TaskRefines DEF ReturnCodeTask, InTask
  <1>3. ASSUME NEW o \in Outcomes, BuildJavaTask(o)
        PROVE  Sequencer!Next
    <2>1. pc' = IF exc' = "none" THEN pc + 1 ELSE pc
      BY <1>3, UncheckedPc DEF BuildJavaTask
    <2>2. QED
      BY <1>0, <1>3, <2>1, TaskRefines DEF BuildJavaTask, InTask
  <1>4. ASSUME NEW o \in Outcomes, BuildHotSpotTask(o)
        PROVE  Sequencer!Next
    <2>1. pc' = IF exc' = "none" THEN pc + 1 ELSE pc
      BY <1>4, EndTaskPc, UncheckedPc DEF BuildHotSpotTask, NativeBuild
    <2>2. QED
      BY <1>0, <1>4, <2>1, TaskRefines DEF BuildHotSpotTask, InTask
  <1>5. ASSUME NEW o \in Outcomes, VmTask(o)
        PROVE  Sequencer!Next
    <2>1. pc' = IF exc' = "none" THEN pc + 1 ELSE pc
      BY <1>5, EndTaskPc, UncheckedPc DEF VmTask
    <2>2. QED
      BY <1>0, <1>5, <2>1, TaskRefines DEF VmTask, InTask
  <1>6. CASE Catch
    BY <1>6 DEF Catch, SeqState, SeqCode, Sequencer!vars
  <1>7. CASE Finish
    <2>1. failed = {} /\ exitCode = 0
      BY <1>7 DEF Finish, ExitInv
    <2>2. pc - 1 = NSteps /\ pc' = pc
      BY <1>7, LenFacts DEF Finish
    <2>3. SeqState = "running" /\ SeqState' = "passed"
      BY <1>7, <2>1 DEF Finish, SeqState, ExitInv
    <2>4. SeqCode' = SeqCode
      BY <1>7, <2>1 DEF Finish, SeqCode
    <2>5. Sequencer!Pass
      BY <2>2, <2>3, <2>4 DEF Sequencer!Pass
    <2>6. QED
      BY <2>5 DEF Sequencer!Next
  <1>8. CASE Exit
    <2>1. failed # {} /\ status # "exited"
      BY <1>8 DEF Exit, ExitInv
    <2>2. QED
      BY <1>8, <2>1 DEF Exit, SeqState, SeqCode, Sequencer!vars
  <1>9. CASE UNCHANGED vars
    BY <1>9 DEF vars, SeqState, SeqCode, Sequencer!vars
  <1>10. QED
    BY <1>1, <1>2, <1>3, <1>4, <1>5, <1>6, <1>7, <1>8, <1>9 DEF Next

\* Off Windows the gate implements the fail-fast sequencer its docstring
\* promises (529-530): its Tasks complete in order, it stops at the first
\* failed check, and it exits 0 exactly when every Task completed.
THEOREM GateImplementsSequencer ==
  ASSUME Platform # "Windows"
  PROVE  Spec => ImplementsSequencer
  <1>1. Init => Sequencer!Init
    BY DEF Init, Sequencer!Init, SeqState, SeqCode
  <1>2. ExitInv /\ [Next]_vars => [Sequencer!Next]_Sequencer!vars
    BY NextRefines
  <1>3. QED
    BY <1>1, <1>2, InitExitInv, NextExitInv, PTL
       DEF Spec, ImplementsSequencer, Sequencer!Spec

-----------------------------------------------------------------------------
(* The build each vm() call runs.                                          *)

(***************************************************************************)
(* The Tasks of the try block, in order: the three checks, then for each   *)
(* build of the loop at 567 its BuildHotSpot, the two Tasks that run the   *)
(* VM and DaCapoBenchmarks.                                                *)
(***************************************************************************)
LEMMA StepTable ==
  /\ Step(4) = Title("BuildHotSpot", "product")
  /\ Step(5) = Title("BootstrapWithSystemAssertions", "product")
  /\ Step(6) = Title("UnitTests", "product")
  /\ Step(7) = Title("DaCapoBenchmarks", "product")
  /\ Step(8) = Title("BuildHotSpot", "fastdebug")
  /\ Step(9) = Title("BootstrapWithSystemAssertions", "fastdebug")
  /\ Step(10) = Title("UnitTests", "fastdebug")
  /\ Step(11) = Title("DaCapoBenchmarks", "fastdebug")
  BY LenFacts DEF Step, BuildSteps, GateBuilds

\* The three checks before the loop neither build nor run the VM.
LEMMA PreStepNames ==
  ASSUME NEW i \in 1..3
  PROVE  Step(i).name \notin {"BuildHotSpot"} \cup VmSteps
  <1>1. Step(i).name = PreSteps[i]
    BY LenFacts DEF Step, Title
  <1>2. PreSteps[i] \in {"Checkstyle", "Canonicalization Check", "BuildJava"}
    <2>1. i = 1 \/ i = 2 \/ i = 3
      OBVIOUS
    <2>2. PreSteps[1] = "Checkstyle" /\ PreSteps[2] = "Canonicalization Check"
          /\ PreSteps[3] = "BuildJava"
      BY DEF PreSteps
    <2>3. QED
      BY <2>1, <2>2, Zenon
  <1>3. QED
    BY <1>1, <1>2, Zenon DEF VmSteps

(***************************************************************************)
(* The inductive invariant. With the VM sources, whenever the try block is *)
(* at a Task that runs the VM, _vmbuild holds that Task's build and its    *)
(* directory exists: the BuildHotSpot Task just before it set the global   *)
(* (569) and made jdk/<build> (290) unless it raised, and a Task that      *)
(* raised is never left. Without them vm() runs the product build, which   *)
(* is always found.                                                        *)
(***************************************************************************)
VmInv ==
  /\ TypeOK
  /\ VmSourcesAvailable /\ pc \in 1..NSteps /\ Step(pc).name \in VmSteps
        => vmbuild = Step(pc).variant /\ vmbuild \in vms
  /\ VmFound
  /\ VmSourcesAvailable => VariantConsistency

\* A Task that runs the VM comes right after BuildHotSpot or another such
\* Task of the same build.
LEMMA VmStepPred ==
  ASSUME NEW i \in 1..NSteps, Step(i).name \in VmSteps
  PROVE  /\ i - 1 \in 1..NSteps
         /\ Step(i - 1).name \in {"BuildHotSpot"} \cup VmSteps
         /\ Step(i - 1).variant = Step(i).variant
  <1>1. i \in 1..11
    BY LenFacts
  <1>2. i \notin {1, 2, 3, 4, 7, 8, 11}
    <2>1. \A k \in {4, 7, 8, 11} : Step(k).name \notin VmSteps
      BY StepTable DEF Title, VmSteps
    <2>2. \A k \in 1..3 : Step(k).name \notin VmSteps
      BY PreStepNames
    <2>3. QED
      BY <2>1, <2>2
  <1>3. i \in {5, 6, 9, 10}
    BY <1>1, <1>2
  <1>4. QED
    BY <1>3, StepTable, LenFacts DEF Title, VmSteps

\* The Tasks that neither set _vmbuild nor run the VM leave VmInv alone.
LEMMA OtherTaskVmInv ==
  ASSUME VmInv, TypeOK', InTask(ReturnCodeSteps \cup {"BuildJava"}),
         pc' = IF exc' = "none" THEN pc + 1 ELSE pc,
         UNCHANGED <<vmbuild, vms, vmRuns>>
  PROVE  VmInv'
  <1>1. pc \in 1..NSteps /\ Step(pc).name \notin {"BuildHotSpot"} \cup VmSteps
    <2>1. pc \in 1..NSteps
      BY DEF InTask, VmInv, TypeOK
    <2>2. Step(pc).name \in ReturnCodeSteps \cup {"BuildJava"}
      BY DEF InTask
    <2>3. QED
      BY <2>1, <2>2, Zenon DEF ReturnCodeSteps, VmSteps
  <1>2. pc' \in 1..NSteps /\ Step(pc').name \in VmSteps => pc' = pc
    BY <1>1, VmStepPred
  <1>3. QED
    BY <1>1, <1>2 DEF VmInv, VmFound, VariantConsistency

LEMMA InitVmInv == Init => VmInv
  <1>1. Step(1).name \notin VmSteps
    BY PreStepNames
  <1>2. QED
    BY <1>1, InitTypeOK DEF Init, VmInv, VmFound, VariantConsistency

LEMMA NextVmInv == VmInv /\ [Next]_vars => VmInv'
  <1> SUFFICES ASSUME VmInv, [Next]_vars PROVE VmInv'
    OBVIOUS
  <1>0. TypeOK /\ TypeOK'
    BY NextTypeOK DEF VmInv
  <1>1. CASE StartGate \/ Catch \/ Finish \/ Exit \/ UNCHANGED vars
    BY <1>0, <1>1 DEF StartGate, Catch, Finish, Exit, vars, VmInv, VmFound,
       VariantConsistency
  <1>2. ASSUME NEW o \in Outcomes, ReturnCodeTask(o) PROVE VmInv'
    <2>1. pc' = IF exc' = "none" THEN pc + 1 ELSE pc
      BY <1>2, EndTaskPc, UncheckedPc DEF ReturnCodeTask
    <2>2. QED
      BY <1>0, <1>2, <2>1, OtherTaskVmInv DEF ReturnCodeTask, InTask
  <1>3. ASSUME NEW o \in Outcomes, BuildJavaTask(o) PROVE VmInv'
    <2>1. pc' = IF exc' = "none" THEN pc + 1 ELSE pc
      BY <1>3, UncheckedPc DEF BuildJavaTask
    <2>2. QED
      BY <1>0, <1>3, <2>1, OtherTaskVmInv DEF BuildJavaTask, InTask
  <1>4. ASSUME NEW o \in Outcomes, BuildHotSpotTask(o) PROVE VmInv'
    <2>1. pc \in 1..NSteps /\ Step(pc).name = "BuildHotSpot"
      BY <1>4, <1>0 DEF BuildHotSpotTask, InTask, TypeOK
    <2>2. /\ vmbuild' = Step(pc).variant /\ UNCHANGED vmRuns
          /\ vms' = IF VmSourcesAvailable /\ o \in {"pass", "fail"}
                    THEN vms \cup {"product", Step(pc).variant} ELSE vms
      BY <1>4 DEF BuildHotSpotTask, SetVmbuild, JdkForBuild
    \* The block is left normally only when the native build passed, or
    \* failed on Windows and was only logged.
    <2>3. pc' = IF exc' = "none" THEN pc + 1 ELSE pc
      BY <1>4, EndTaskPc, UncheckedPc DEF BuildHotSpotTask, NativeBuild
    <2>4. exc' = "none" => o \in {"pass", "fail"}
      <3>1. CASE VmSourcesAvailable /\ Platform = "Windows" /\ o = "fail"
        BY <3>1
      <3>2. CASE ~(VmSourcesAvailable /\ Platform = "Windows" /\ o = "fail")
        <4>1. Unchecked(o)
          BY <1>4, <3>2 DEF BuildHotSpotTask, NativeBuild
        <4>2. exc' = Raised(o)
          BY <4>1 DEF Unchecked, EndTask
        <4>3. QED
          BY <4>2, RaisedType
      <3>3. QED
        BY <3>1, <3>2
    <2>5. pc' \in 1..NSteps /\ Step(pc').name \in VmSteps
            => pc' = pc + 1 /\ Step(pc').variant = Step(pc).variant
      BY <2>1, <2>3, VmStepPred DEF VmSteps
    <2>6. QED
      BY <1>0, <2>2, <2>4, <2>5, <2>3 DEF VmInv, VmFound, VariantConsistency
  <1>5. ASSUME NEW o \in Outcomes, VmTask(o) PROVE VmInv'
    <2>1. pc \in 1..NSteps /\ Step(pc).name \in VmSteps
      BY <1>5, <1>0 DEF VmTask, InTask, TypeOK
    <2>2. /\ UNCHANGED vmbuild /\ vms' = vms \cup {"product"}
          /\ vmRuns' = vmRuns \cup {[title |-> Step(pc), build |-> VmBuild,
                                     found |-> VmBuild = "product" \/ VmBuild \in vms]}
      BY <1>5 DEF VmTask
    <2>3. pc' = IF exc' = "none" THEN pc + 1 ELSE pc
      BY <1>5, EndTaskPc, UncheckedPc DEF VmTask
    <2>4. VmBuild = "product" \/ VmBuild \in vms
      BY <2>1 DEF VmBuild, VmInv
    <2>5. VmSourcesAvailable => VmBuild = Step(pc).variant
      BY <2>1 DEF VmBuild, VmInv
    <2>6. pc' \in 1..NSteps /\ Step(pc').name \in VmSteps
            => Step(pc').variant = Step(pc).variant
      BY <2>1, <2>3, VmStepPred
    <2>7. VmFound'
      <3> DEFINE run == [title |-> Step(pc), build |-> VmBuild,
                         found |-> VmBuild = "product" \/ VmBuild \in vms]
      <3>1. \A r \in vmRuns : r.found
        BY DEF VmInv, VmFound
      <3>2. run.found
        BY <2>4
      <3>3. vmRuns' = vmRuns \cup {run}
        BY <2>2
      <3>4. QED
        BY <3>1, <3>2, <3>3 DEF VmFound
    <2>8. VmSourcesAvailable => VariantConsistency'
      BY <2>2, <2>5 DEF VmInv, VariantConsistency
    <2>9. VmSourcesAvailable /\ pc' \in 1..NSteps /\ Step(pc').name \in VmSteps
            => vmbuild' = Step(pc').variant /\ vmbuild' \in vms'
      BY <2>1, <2>2, <2>3, <2>6 DEF VmInv
    <2>10. QED
      BY <1>0, <2>7, <2>8, <2>9 DEF VmInv
  <1>6. QED
    BY <1>1, <1>2, <1>3, <1>4, <1>5 DEF Next

\* No vm() call of the gate aborts at 226 for a missing jdk/<build>, on
\* any platform, with or without the VM sources: the BuildHotSpot Task of
\* the loop at 567 creates the directory of the build the next Tasks run.
THEOREM VmAlwaysFound == Spec => []VmFound
  <1>1. VmInv => VmFound
    BY DEF VmInv
  <1>2. QED
    BY <1>1, InitVmInv, NextVmInv, PTL DEF Spec

\* With the VM sources, every Task of the loop at 567 runs the VM of the
\* build it is labelled with: vm() reads the global _vmbuild (329) that
\* the loop set (569). Without them vm() always runs product (329), and a
\* fastdebug Task runs the product VM.
THEOREM VariantConsistentWithSources ==
  ASSUME VmSourcesAvailable
  PROVE  Spec => []VariantConsistency
  <1>1. VmInv => VariantConsistency
    BY DEF VmInv
  <1>2. QED
    BY <1>1, InitVmInv, NextVmInv, PTL DEF Spec

-----------------------------------------------------------------------------
(* Fail-fast, away from Windows.                                           *)

(***************************************************************************)
(* The inductive invariant: ExitInv, and the try block never gets past a   *)
(* Task whose check failed: that Task is the one pc is at, since a check   *)
(* that fails raises (off Windows) and a block left by an exception does   *)
(* not move pc on. Every Task the log names is at or before pc.           *)
(***************************************************************************)
FailFastInv ==
  /\ ExitInv
  /\ failed # {} => pc \in 1..NSteps /\ failed = {Step(pc)}
  /\ \A k \in DOMAIN log :
        log[k].title \in Steps => \E i \in 1..NSteps : i <= pc /\ log[k].title = Step(i)

\* Each index names a different Task.
LEMMA StepInjective ==
  ASSUME NEW i \in 1..NSteps, NEW j \in 1..NSteps, Step(i) = Step(j)
  PROVE  i = j
  <1>1. i \in 1..11 /\ j \in 1..11
    BY LenFacts
  <1>2. \A k \in 1..3 : Step(k) = Title(PreSteps[k], None)
    BY LenFacts DEF Step
  <1>3. \A k \in 4..11 : Step(k).variant \in {"product", "fastdebug"}
    BY StepTable DEF Title
  <1>4. CASE i \in 1..3 /\ j \in 1..3
    <2>1. PreSteps[i] = PreSteps[j]
      BY <1>2, <1>4 DEF Title
    <2>2. PreSteps[1] # PreSteps[2] /\ PreSteps[1] # PreSteps[3]
          /\ PreSteps[2] # PreSteps[3]
      BY Zenon DEF PreSteps
    <2>3. QED
      BY <1>4, <2>1, <2>2
  <1>5. CASE i \in 1..3 /\ j \in 4..11
    BY <1>2, <1>3, <1>5 DEF Title, None
  <1>6. CASE i \in 4..11 /\ j \in 1..3
    BY <1>2, <1>3, <1>6 DEF Title, None
  <1>7. CASE i \in 4..11 /\ j \in 4..11
    BY <1>7, StepTable DEF Title
  <1>8. QED
    BY <1>1, <1>4, <1>5, <1>6, <1>7

\* The outer Task 'Gate' is none of the Tasks of the try block.
LEMMA GateNotStep == GateTitle \notin Steps
  <1> SUFFICES ASSUME NEW k \in 1..NSteps, Step(k) = GateTitle PROVE FALSE
    BY DEF Steps
  <1>1. k \in 1..11
    BY LenFacts
  <1>2. CASE k \in 1..3
    <2>1. Step(k).name = PreSteps[k]
      BY <1>2, LenFacts DEF Step, Title
    <2>2. PreSteps[k] # "Gate"
      <3>1. k = 1 \/ k = 2 \/ k = 3
        BY <1>2
      <3>2. PreSteps[1] = "Checkstyle" /\ PreSteps[2] = "Canonicalization Check"
            /\ PreSteps[3] = "BuildJava"
        BY DEF PreSteps
      <3>3. QED
        BY <3>1, <3>2, Zenon
    <2>3. QED
      BY <2>1, <2>2 DEF GateTitle, Title
  <1>3. CASE k \in 4..11
    BY <1>3, StepTable DEF GateTitle, Title, None
  <1>4. QED
    BY <1>1, <1>2, <1>3

\* A Task block logs only the Task pc is at.
LEMMA EndTaskLog ==
  ASSUME TypeOK, pc \in 1..NSteps, NEW passed, NEW raised,
         NEW last \in {None, "END", "ABORT"}, EndTask(passed, raised, last),
         \A k \in DOMAIN log :
            log[k].title \in Steps => \E i \in 1..NSteps : i <= pc /\ log[k].title = Step(i)
  PROVE  \A k \in DOMAIN log' :
            log'[k].title \in Steps => \E i \in 1..NSteps : i <= pc /\ log'[k].title = Step(i)
  <1>1. CASE last = None
    <2>1. log' = Append(log, Line("BEGIN", Step(pc)))
      BY <1>1 DEF EndTask
    <2>2. QED
      BY <2>1 DEF TypeOK, Line
  <1>2. CASE last # None
    <2>1. log' = log \o <<Line("BEGIN", Step(pc)), Line(last, Step(pc))>>
      BY <1>2 DEF EndTask
    <2>2. QED
      BY <2>1 DEF TypeOK, Line
  <1>3. QED
    BY <1>1, <1>2

\* A Task block off Windows keeps FailFastInv: it starts with no failure
\* and stays at its Task when its check fails.
LEMMA TaskFailFast ==
  ASSUME FailFastInv, ExitInv', status = "try", exc = "none", pc <= NSteps,
         NEW passed, NEW raised, NEW last \in {None, "END", "ABORT"},
         EndTask(passed, raised, last)
  PROVE  FailFastInv'
  <1>1. TypeOK /\ pc \in 1..NSteps /\ failed = {}
    BY DEF FailFastInv, ExitInv, TypeOK
  <1>2. failed' # {} => failed' = {Step(pc)} /\ pc' = pc
    BY <1>1 DEF EndTask, ExitInv
  <1>3. pc' \in {pc, pc + 1}
    BY DEF EndTask
  <1>4. \A k \in DOMAIN log' :
          log'[k].title \in Steps => \E i \in 1..NSteps : i <= pc /\ log'[k].title = Step(i)
    BY <1>1, EndTaskLog DEF FailFastInv
  <1>5. QED
    BY <1>1, <1>2, <1>3, <1>4 DEF FailFastInv

LEMMA InitFailFastInv == Init => FailFastInv
  BY InitExitInv DEF Init, FailFastInv

LEMMA NextFailFastInv ==
  ASSUME Platform # "Windows"
  PROVE  FailFastInv /\ [Next]_vars => FailFastInv'
  <1> SUFFICES ASSUME FailFastInv, [Next]_vars PROVE FailFastInv'
    OBVIOUS
  <1>0. ExitInv' /\ TypeOK
    BY NextExitInv DEF FailFastInv, ExitInv
  <1>1. CASE StartGate
    <2>1. log' = <<Line("BEGIN", GateTitle)>> /\ UNCHANGED <<pc, failed>>
      BY <1>1 DEF StartGate
    <2>2. QED
      BY <1>0, <2>1, GateNotStep DEF FailFastInv, Line
  <1>2. ASSUME NEW o \in Outcomes, ReturnCodeTask(o) PROVE FailFastInv'
    <2>1. EndTask(FALSE, AbortRaises, "ABORT") \/ Unchecked(o)
      BY <1>2 DEF ReturnCodeTask
    <2>2. QED
      BY <1>0, <1>2, <2>1, TaskFailFast DEF ReturnCodeTask, InTask, Unchecked, None
  <1>3. ASSUME NEW o \in Outcomes, BuildJavaTask(o) PROVE FailFastInv'
    BY <1>0, <1>3, TaskFailFast DEF BuildJavaTask, InTask, Unchecked, None
  <1>4. ASSUME NEW o \in Outcomes, BuildHotSpotTask(o) PROVE FailFastInv'
    <2>1. Unchecked(o)
      BY <1>4 DEF BuildHotSpotTask, NativeBuild
    <2>2. QED
      BY <1>0, <1>4, <2>1, TaskFailFast DEF BuildHotSpotTask, InTask, Unchecked, None
  <1>5. ASSUME NEW o \in Outcomes, VmTask(o) PROVE FailFastInv'
    <2>1. EndTask(FALSE, AbortRaises, None) \/ Unchecked(o)
      BY <1>5 DEF VmTask
    <2>2. QED
      BY <1>0, <1>5, <2>1, TaskFailFast DEF VmTask, InTask, Unchecked, None
  <1>6. CASE Catch \/ Finish
    <2>1. \E e \in Events : log' = Append(log, Line(e, GateTitle))
      BY <1>6 DEF Catch, Finish, Events
    <2>2. UNCHANGED <<pc, failed>>
      BY <1>6 DEF Catch, Finish
    <2>3. QED
      BY <1>0, <2>1, <2>2, GateNotStep DEF FailFastInv, TypeOK, Line
  <1>7. CASE Exit \/ UNCHANGED vars
    BY <1>0, <1>7 DEF Exit, vars, FailFastInv
  <1>8. QED
    BY <1>1, <1>2, <1>3, <1>4, <1>5, <1>6, <1>7 DEF Next

\* Fail-fast off Windows: once the check of a Task failed, no later Task of
\* the gate begins, since every failing callee raises (mx.run and mx.abort
\* at 317-324, t.abort at 555, 561, 587) and the exception leaves the try
\* block (546-587). On Windows a failed native build is only logged
\* (309-316) and the gate carries on.
THEOREM ShortCircuitOffWindows ==
  ASSUME Platform # "Windows"
  PROVE  Spec => []ShortCircuit
  <1>1. FailFastInv => ShortCircuit
    <2> SUFFICES ASSUME FailFastInv, NEW i \in 1..NSteps, Step(i) \in failed,
                        NEW j \in (i + 1)..NSteps, Begun(Step(j))
                 PROVE  FALSE
      BY DEF ShortCircuit
    <2>1. pc \in 1..NSteps /\ Step(i) = Step(pc)
      BY DEF FailFastInv
    <2>2. i = pc
      BY <2>1, StepInjective
    <2>3. PICK k \in DOMAIN log : log[k] = Line("BEGIN", Step(j))
      BY DEF Begun
    <2>4. j \in 1..NSteps /\ Step(j) \in Steps
      BY DEF Steps
    <2>5. PICK m \in 1..NSteps : m <= pc /\ Step(j) = Step(m)
      BY <2>3, <2>4 DEF FailFastInv, Line
    <2>6. m = j
      BY <2>4, <2>5, StepInjective
    <2>7. QED
      BY <2>2, <2>5, <2>6
  <1>2. QED
    BY <1>1, InitFailFastInv, NextFailFastInv, PTL DEF Spec

=============================================================================

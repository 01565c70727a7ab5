---------------------------- MODULE DaCapoCommand ----------------------------
(***************************************************************************)
(* What `mx dacapo` promises (its docstring, src/mx/commands.py 140-144),  *)
(* with the parse as one atomic step: a command line is accepted or        *)
(* refused as a whole; an accepted one fixes the benchmarks with their     *)
(* counts, the harness options and the VM options, and each of those      *)
(* benchmarks then runs once; the command fails when one of them failed.  *)
(* How the command line is read is a parameter: Accepted, Tests, Harness  *)
(* and Vm.                                                                 *)
(***************************************************************************)
EXTENDS Naturals

CONSTANTS
    CmdLines,      \* the command lines
    Accepted(_),   \* the command lines whose benchmark part is accepted
    Tests(_),      \* the benchmarks and counts a command line asks for
    Harness(_),    \* the options it passes to the harness
    Vm(_),         \* the options it passes to the VM
    Refusals       \* the ways a refusal ends the command

VARIABLES
    cmd,       \* the command line
    tests,     \* benchmark -> count, once accepted
    harness,   \* the harness options, once accepted
    vm,        \* the VM options, once accepted
    ran,       \* the benchmarks whose run is over
    failed,    \* the benchmarks whose run failed
    stage,     \* "parse", "run" or "done"
    outcome    \* how the command ended

vars == <<cmd, tests, harness, vm, ran, failed, stage, outcome>>

Init ==
    /\ cmd \in CmdLines
    /\ tests = <<>>
    /\ harness = <<>>
    /\ vm = <<>>
    /\ ran = {}
    /\ failed = {}
    /\ stage = "parse"
    /\ outcome = "none"

\* An acceptable command line fixes the runs.
Accept ==
    /\ stage = "parse"
    /\ Accepted(cmd)
    /\ tests' = Tests(cmd)
    /\ harness' = Harness(cmd)
    /\ vm' = Vm(cmd)
    /\ stage' = "run"
    /\ UNCHANGED <<cmd, ran, failed, outcome>>

\* Any other one is refused, and nothing runs.
Refuse ==
    /\ stage = "parse"
    /\ ~Accepted(cmd)
    /\ stage' = "done"
    /\ outcome' \in Refusals
    /\ UNCHANGED <<cmd, tests, harness, vm, ran, failed>>

\* A benchmark that has not run yet runs, and passes or fails.
Run(t, ok) ==
    /\ stage = "run"
    /\ t \in DOMAIN tests \ ran
    /\ ran' = ran \cup {t}
    /\ failed' = IF ok THEN failed ELSE failed \cup {t}
    /\ UNCHANGED <<cmd, tests, harness, vm, stage, outcome>>

\* After the last run the command ends, failing when a run failed.
Finish ==
    /\ stage = "run"
    /\ ran = DOMAIN tests
    /\ stage' = "done"
    /\ outcome' = IF failed # {} THEN "failures" ELSE "ok"
    /\ UNCHANGED <<cmd, tests, harness, vm, ran, failed>>

Next ==
    \/ Accept
    \/ Refuse
    \/ \E t \in DOMAIN tests, ok \in BOOLEAN : Run(t, ok)
    \/ Finish

Spec == Init /\ [][Next]_vars

=============================================================================

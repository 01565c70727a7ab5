---------------------------- MODULE TaskSequencer ----------------------------
(***************************************************************************)
(* What a fail-fast task sequencer promises (the gate of                   *)
(* src/mx/commands.py, 526-591, and the design of its Task Runner): N      *)
(* named steps run strictly in order; the sequence stops at the first step *)
(* that does not complete; the process exits with status 0 exactly when   *)
(* every step completed. Nothing is said about how a step fails.           *)
(***************************************************************************)
EXTENDS Naturals

CONSTANT N     \* the number of steps

VARIABLES
    done,      \* how many steps completed, in order
    state,     \* "running", "passed" or "failed"
    code       \* the exit status: 0 until the process exits

vars == <<done, state, code>>

TypeOK ==
    /\ done \in 0..N
    /\ state \in {"running", "passed", "failed"}
    /\ code \in {0, 1}

Init ==
    /\ done = 0
    /\ state = "running"
    /\ code = 0

\* The next step completes.
Complete ==
    /\ state = "running"
    /\ done < N
    /\ done' = done + 1
    /\ UNCHANGED <<state, code>>

\* The next step does not complete: the sequence ends with a non-zero status.
Fail ==
    /\ state = "running"
    /\ done < N
    /\ state' = "failed"
    /\ code' = 1
    /\ UNCHANGED done

\* Every step completed: the sequence ends with status 0.
Pass ==
    /\ state = "running"
    /\ done = N
    /\ state' = "passed"
    /\ UNCHANGED <<done, code>>

Next == Complete \/ Fail \/ Pass

Spec == Init /\ [][Next]_vars

=============================================================================

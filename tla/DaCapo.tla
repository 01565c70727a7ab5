-------------------------------- MODULE DaCapo --------------------------------
(***************************************************************************)
(* `mx dacapo` (dacapo, src/mx/commands.py 139-187): the parse of its      *)
(* command line into the benchmarks to run with their iteration counts,    *)
(* the DaCapo harness options and the VM options, then one run per        *)
(* benchmark. An argument is the sequence of its characters, because the  *)
(* parse tests its first character (156, 160), isdigit (158) and int       *)
(* (159); the alphabet is the one of MCDaCapo.                             *)
(***************************************************************************)
EXTENDS Naturals, Sequences, FiniteSets, TLC

CONSTANTS
    Benchmarks,  \* the keys of sanitycheck.dacapoSanityWarmup, as arguments
    Levels,      \* the names of sanitycheck.SanityCheckLevel, as arguments
    Warmup,      \* Warmup[b][l]: dacapoSanityWarmup[b][level]
    Tokens,      \* the arguments a command line is made of
    MaxArgs      \* bound on the length of a command line

Digits == {"0", "1", "2", "3", "4", "5", "6", "7", "8", "9"}
OptChars == {"-", "@"}

\* str.isdigit: non-empty and only digits.
IsDigit(a) == a # <<>> /\ \A i \in DOMAIN a : a[i] \in Digits

DigitValue == "0" :> 0 @@ "1" :> 1 @@ "2" :> 2 @@ "3" :> 3 @@ "4" :> 4
           @@ "5" :> 5 @@ "6" :> 6 @@ "7" :> 7 @@ "8" :> 8 @@ "9" :> 9

\* int() of a digit string.
ToInt(a) ==
    LET val[i \in 0..Len(a)] ==
            IF i = 0 THEN 0 ELSE 10 * val[i - 1] + DigitValue[a[i]]
    IN  val[Len(a)]

\* An argument starting with '-' or '@' (156).
IsOpt(a) == a # <<>> /\ a[1] \in OptChars

\* The condition of the loop of 156.
LoopCond(s) == s # <<>> /\ ~IsOpt(s[1])

\* arg.startswith('@').
IsAt(a) == a # <<>> /\ a[1] = "@"

\* not arg.startswith('@') (179).
IsVmOpt(a) == ~IsAt(a)

\* arg[1:].
Rest(a) == [i \in 1..(Len(a) - 1) |-> a[i + 1]]

ArgLists == UNION {[1..n -> Tokens] : n \in 0..MaxArgs}

VARIABLES
    cmdLine,    \* (history) the arguments dacapo was called with
    args,       \* the list args, which the parse deletes from
    numTests,   \* the dict numTests: benchmark -> iterations
    dacapoArgs, \* 176
    vmOpts,     \* 179
    ran,        \* the benchmarks whose run (182-184) is over
    failed,     \* the list failed, as a set
    pc,         \* "level", "parse", "default", "run" or "done"
    outcome     \* how dacapo ended

vars == <<cmdLine, args, numTests, dacapoArgs, vmOpts, ran, failed, pc, outcome>>

Outcomes == {"none", "ok", "IndexError", "AssertionError", "unknownBenchmark",
             "failures"}

TypeOK ==
    /\ cmdLine \in ArgLists
    /\ args \in ArgLists
    /\ DOMAIN numTests \subseteq Benchmarks
    /\ \A b \in DOMAIN numTests : numTests[b] \in Nat
    /\ dacapoArgs \in Seq(Seq(STRING))
    /\ vmOpts \in ArgLists
    /\ ran \subseteq DOMAIN numTests
    /\ failed \subseteq ran
    /\ pc \in {"level", "parse", "default", "run", "done"}
    /\ outcome \in Outcomes

Init ==
    /\ cmdLine \in ArgLists
    /\ args = cmdLine
    /\ numTests = <<>>
    /\ dacapoArgs = <<>>
    /\ vmOpts = <<>>
    /\ ran = {}
    /\ failed = {}
    /\ pc = "level"
    /\ outcome = "none"

\* An exception or mx.abort ends the command.
Raise(e) ==
    /\ pc' = "done"
    /\ outcome' = e
    /\ UNCHANGED <<args, numTests>>

-----------------------------------------------------------------------------
(* The parse, 148-169.                                                     *)

\* 148-154: a first argument naming a sanity level selects every benchmark
\* with a positive warm-up count at that level; otherwise the loop parses.
CheckLevel ==
    /\ pc = "level"
    /\ IF args # <<>> /\ args[1] \in Levels
       THEN /\ args' = Tail(args)
            /\ numTests' = [b \in {c \in Benchmarks : Warmup[c][args[1]] > 0}
                               |-> Warmup[b][args[1]]]
            /\ pc' = "default"
       ELSE /\ pc' = IF args = <<>> THEN "default" ELSE "parse"
            /\ UNCHANGED <<args, numTests>>
    /\ UNCHANGED <<outcome, cmdLine, dacapoArgs, vmOpts, ran, failed>>

\* The loop of 156 ends at the end of args or at an option.
LoopExit ==
    /\ pc = "parse"
    /\ ~LoopCond(args)
    /\ pc' = "default"
    /\ UNCHANGED <<args, numTests, outcome, cmdLine, dacapoArgs, vmOpts, ran, failed>>

\* args[0][0] of an empty argument (156).
EmptyArg ==
    /\ pc = "parse"
    /\ args # <<>> /\ args[1] = <<>>
    /\ Raise("IndexError")
    /\ UNCHANGED <<cmdLine, dacapoArgs, vmOpts, ran, failed>>

\* The dict assignment d[k] = v.
DictSet(d, k, v) == [x \in DOMAIN d \cup {k} |-> IF x = k THEN v ELSE d[x]]

\* mutant: the test of 167 is left out: an unknown name is passed over.
RecordAnyName(bm, n, rest) ==
    /\ numTests' = IF bm \in Benchmarks THEN DictSet(numTests, bm, n) ELSE numTests
    /\ args' = rest
    /\ UNCHANGED <<pc, outcome>>

\* 166-169: numTests[bm] = n, after mx.abort on an unknown benchmark.
Record(bm, n, rest) ==
    IF bm \notin Benchmarks
    THEN Raise("unknownBenchmark")
    ELSE /\ numTests' = DictSet(numTests, bm, n)
         /\ args' = rest
         /\ UNCHANGED <<pc, outcome>>

\* mutant: the count is deleted but its benchmark is left in args.
CountArgKeepName ==
    LET a == args[1]
    IN  /\ pc = "parse"
        /\ args # <<>> /\ a # <<>> /\ a[1] \notin OptChars /\ IsDigit(a)
        /\ IF Len(args) > 1 /\ args[2] = <<>>
           THEN Raise("IndexError")
           ELSE IF ~(Len(args) > 1 /\ args[2][1] \notin OptChars /\ ~IsDigit(args[2]))
           THEN Raise("AssertionError")
           ELSE Record(args[2], ToInt(a), Tail(args))
        /\ UNCHANGED <<cmdLine, dacapoArgs, vmOpts, ran, failed>>

\* 157-162 and 165: a count, which must be followed by a benchmark name
\* (the assert of 160, whose args[1][0] raises on an empty argument first).
CountArg ==
    LET a == args[1]
    IN  /\ pc = "parse"
        /\ args # <<>> /\ a # <<>> /\ a[1] \notin OptChars /\ IsDigit(a)
        /\ IF Len(args) > 1 /\ args[2] = <<>>
           THEN Raise("IndexError")
           ELSE IF ~(Len(args) > 1 /\ args[2][1] \notin OptChars /\ ~IsDigit(args[2]))
           THEN Raise("AssertionError")
           ELSE Record(args[2], ToInt(a), Tail(Tail(args)))
        /\ UNCHANGED <<cmdLine, dacapoArgs, vmOpts, ran, failed>>

\* 163-165: a benchmark name run once.
NameArg ==
    LET a == args[1]
    IN  /\ pc = "parse"
        /\ args # <<>> /\ a # <<>> /\ a[1] \notin OptChars /\ ~IsDigit(a)
        /\ Record(a, 1, Tail(args))
        /\ UNCHANGED <<cmdLine, dacapoArgs, vmOpts, ran, failed>>

-----------------------------------------------------------------------------
(* The runs, 171-187.                                                      *)

\* mutant: the list comprehension of 176, copied to 179, strips the VM
\* options too.
DefaultStripVm ==
    /\ pc = "default"
    /\ numTests' = IF DOMAIN numTests = {} THEN [b \in Benchmarks |-> 1]
                   ELSE numTests
    /\ dacapoArgs' = [i \in 1..Len(SelectSeq(args, IsAt)) |->
                        Rest(SelectSeq(args, IsAt)[i])]
    /\ vmOpts' = LET v == SelectSeq(args, IsVmOpt)
                 IN  [i \in 1..Len(v) |-> Rest(v[i])]
    /\ pc' = "run"
    /\ UNCHANGED <<args, cmdLine, ran, failed, outcome>>

\* 171-179: no benchmark selected means all, once each; then the '@'
\* arguments lose their '@' and go to the harness, the rest to the VM.
Default ==
    /\ pc = "default"
    /\ numTests' = IF DOMAIN numTests = {} THEN [b \in Benchmarks |-> 1]
                   ELSE numTests
    /\ dacapoArgs' = [i \in 1..Len(SelectSeq(args, IsAt)) |->
                        Rest(SelectSeq(args, IsAt)[i])]
    /\ vmOpts' = SelectSeq(args, IsVmOpt)
    /\ pc' = "run"
    /\ UNCHANGED <<args, cmdLine, ran, failed, outcome>>

\* 182-184: one benchmark runs with its count under -graal.
RunBench(t, ok) ==
    /\ pc = "run"
    /\ t \in DOMAIN numTests \ ran
    /\ ran' = ran \cup {t}
    /\ failed' = IF ok THEN failed ELSE failed \cup {t}
    /\ UNCHANGED <<cmdLine, args, numTests, dacapoArgs, vmOpts, pc, outcome>>

\* mutant: the test of 186 is indented into the loop of 182: dacapo aborts
\* after the first failed run, before the others ran.
FinishInLoop ==
    /\ pc = "run"
    /\ ran = DOMAIN numTests \/ failed # {}
    /\ pc' = "done"
    /\ outcome' = IF failed # {} THEN "failures" ELSE "ok"
    /\ UNCHANGED <<cmdLine, args, numTests, dacapoArgs, vmOpts, ran, failed>>

\* 186-187: mx.abort when a benchmark failed.
Finish ==
    /\ pc = "run"
    /\ ran = DOMAIN numTests
    /\ pc' = "done"
    /\ outcome' = IF failed # {} THEN "failures" ELSE "ok"
    /\ UNCHANGED <<cmdLine, args, numTests, dacapoArgs, vmOpts, ran, failed>>

Next ==
    \/ CheckLevel \/ LoopExit \/ EmptyArg \/ CountArg \/ NameArg
    \/ Default
    \/ \E t \in Benchmarks, ok \in BOOLEAN : RunBench(t, ok)
    \/ Finish

Spec == Init /\ [][Next]_vars

-----------------------------------------------------------------------------
(* Properties.                                                             *)

StartsWithLevel(s) == s # <<>> /\ s[1] \in Levels

\* Where the loop of 156 stops: the first option, or the end.
Stop(s) == CHOOSE i \in 1..(Len(s) + 1) :
               /\ i > Len(s) \/ IsOpt(s[i])
               /\ \A j \in 1..(i - 1) : ~IsOpt(s[j])

\* The benchmark part of a command line, and what follows it.
Selection(s) == IF StartsWithLevel(s) THEN <<>> ELSE SubSeq(s, 1, Stop(s) - 1)
Options(s) == IF StartsWithLevel(s) THEN Tail(s) ELSE SubSeq(s, Stop(s), Len(s))

\* The iterations a selection asks for: a benchmark runs as often as the
\* count right before its last mention says, once without a count.
Named(p) == {p[i] : i \in {j \in DOMAIN p : ~IsDigit(p[j])}}
LastMention(p, b) == CHOOSE i \in DOMAIN p : p[i] = b /\ \A j \in DOMAIN p : p[j] = b => j <= i
CountFor(p, i) == IF i > 1 /\ IsDigit(p[i - 1]) THEN ToInt(p[i - 1]) ELSE 1
Requested(s) ==
    LET p == Selection(s)
        l == [b \in {c \in Benchmarks : Warmup[c][s[1]] > 0} |-> Warmup[b][s[1]]]
        r == IF StartsWithLevel(s) THEN l
             ELSE [b \in Named(p) |-> CountFor(p, LastMention(p, b))]
    IN  IF DOMAIN r = {} THEN [b \in Benchmarks |-> 1] ELSE r

\* The docstring of dacapo (140-144): when the parse of 148-179 lets the
\* runs start, they run the benchmarks the command line names (all when it
\* names none) with the counts it gives, the harness receives exactly the
\* '@' arguments without their '@', and the VM every other option.
ParseMatchesReference ==
    pc = "run" =>
        /\ numTests = Requested(cmdLine)
        /\ dacapoArgs = [i \in 1..Len(SelectSeq(Options(cmdLine), IsAt)) |->
                           Rest(SelectSeq(Options(cmdLine), IsAt)[i])]
        /\ vmOpts = SelectSeq(Options(cmdLine), IsVmOpt)

\* The benchmark part of a command line is well formed: no empty argument,
\* every count followed by a benchmark name, every name a known benchmark.
WellFormed(p) ==
    \A i \in DOMAIN p :
        /\ p[i] # <<>>
        /\ IsDigit(p[i]) => i < Len(p) /\ ~IsDigit(p[i + 1])
        /\ ~IsDigit(p[i]) => p[i] \in Benchmarks

\* The checks of 156-168 (the loop test, the assert of 160 and the
\* mx.abort of 168) let dacapo reach its runs exactly for a well-formed
\* benchmark part: a malformed one is refused, by a message or by an
\* exception, and a well-formed one never is.
AcceptsExactlyWellFormed ==
    /\ pc = "run" => WellFormed(Selection(cmdLine))
    /\ outcome \in {"IndexError", "AssertionError", "unknownBenchmark"}
         => ~WellFormed(Selection(cmdLine))


-----------------------------------------------------------------------------
(* The parse as the one step of DaCapoCommand.                             *)

Refusals == {"IndexError", "AssertionError", "unknownBenchmark"}

AcceptedCmd(s) == WellFormed(Selection(s))
HarnessArgs(s) == [i \in 1..Len(SelectSeq(Options(s), IsAt)) |->
                     Rest(SelectSeq(Options(s), IsAt)[i])]
VmArgs(s) == SelectSeq(Options(s), IsVmOpt)

\* The parse of 148-179 has not ended yet.
Parsing == pc \in {"level", "parse", "default"}

Command == INSTANCE DaCapoCommand
    WITH CmdLines <- ArgLists, Accepted <- AcceptedCmd, Tests <- Requested,
         Harness <- HarnessArgs, Vm <- VmArgs, cmd <- cmdLine,
         tests <- IF Parsing \/ outcome \in Refusals THEN <<>> ELSE numTests,
         harness <- dacapoArgs, vm <- vmOpts,
         stage <- IF Parsing THEN "parse" ELSE pc

\* dacapo keeps the promise of its docstring (140-144) step by step: its
\* parse accepts a command line or refuses it as a whole, an accepted one
\* fixes the benchmarks, counts and options the reference reads off it, and
\* then exactly those benchmarks run, once each.
ImplementsCommand == Command!Spec

====

# TLA+ models of the GraalVM mx commands

This directory holds TLA+ models, TLC configurations and TLAPS proofs for the
build commands in `src/mx/commands.py`, the GraalVM suite of the `mx` tool.
`src/mx.truffle/mx_truffle.py` is inventoried but not modelled. Each module
says in its comments which lines of the source each definition translates.
`PROJECT.json` holds the machine-readable map, the runs, the mutants, the
findings and the hazards.

## The system

`mx` is a command-line front end that is not part of this repository. It
imports `commands.py` and calls two hooks:
- `mx_init` (611-638) registers the commands;
- `mx_post_parse_cmd_line` (640-652) runs after argument parsing.

It then dispatches to the handler of the named command. Everything is
single-threaded and synchronous: each handler runs external processes (javac,
make, msbuild, the VM, DaCapo, hg, mvn) and blocks on them.

The state that outlives a single call:

- **Module globals.**
  - `_vmSourcesAvailable` (36) is fixed at import.
  - `_vmbuild` (37) is the selected build. `mx_post_parse_cmd_line` sets it
    from `--product/--debug/--fastdebug/--optimized` (649-652). The gate loop
    sets it again (569). `vm()` reads it (329).
- **The Graal JDK on disk.** `_jdk` (189-234) creates `jdk<version>` from the
  host JDK on first use, appends `-graal KNOWN` to its `jvm.cfg`, and creates
  `jdk<version>/<build>` for non-product builds. These directories persist
  across mx invocations. `build` (290), `vm` (332) and `export` (74) all go
  through `_jdk`.
- **The gate's Tasks.** `gate` (526-591) runs a fixed sequence of Tasks inside
  an outer Task `Gate`:
  1. Checkstyle;
  2. Canonicalization Check;
  3. BuildJava;
  4. then, for each of product and fastdebug, BuildHotSpot,
     BootstrapWithSystemAssertions, UnitTests and DaCapoBenchmarks.

  Each Task logs BEGIN, then END through `stop()` or ABORT through `abort()`,
  which calls `mx.abort`. The outer `except Exception` (588) turns ordinary
  exceptions into an abort of the `Gate` Task.

How the parts interact. The gate calls `build`, `vm` and `unittest`. Those
call `_jdk`. `vm` runs whichever build `_vmbuild` names. So the outcome of the
gate depends on:
- the global that the loop and the command line set;
- the JDK directories that earlier Tasks or earlier invocations left on disk;
- the exception class through which each failure travels.

## Modules

| Module | Models | State | Actions |
|---|---|---|---|
| `Gate` | `gate` with its calls into `build`, `vm`, `_jdk`, `unittest` | `status`, `pc` (the Task the try block is at), `exc` (the exception in flight), `log` (BEGIN/END/ABORT lines), `vmbuild` (`_vmbuild`), `vms` (build directories present), and the history variables `failed`, `vmRuns` and `exitCode` | `StartGate`, `ReturnCodeTask`, `BuildJavaTask`, `BuildHotSpotTask`, `VmTask`, `Catch`, `Finish`, `Exit` |
| `TaskSequencer` | the abstract fail-fast sequencer of the design (section 4.1): N steps in order, stop at the first failure, exit 0 exactly when all passed | `done`, `state`, `code` | `Complete`, `Fail`, `Pass` |
| `JDK` | `_jdk` step by step, over several invocations | `pc`, `req`, `k` (loop index), `present`, `copied` (subdirectories of each directory), `cfgLines` (`-graal KNOWN` lines), and the history variables `returns` and `calls` | `Call`, `StartCall`, `CopyJdkDir`, `CheckCfg`, `CopyVariantDir`, `Crash` |
| `Options` | one invocation: `mx_init`, parsing, `mx_post_parse_cmd_line`, and a `vm`/`unittest` run | `sources`, `phase`, `options`, `table`, `cmd`, `opt`, `version`, `vmbuild`, `outcome`, `vmRun` | `MxInit`, `Parse`, `PostParse`, `RunCommand` |
| `Export` | `export` (54-96) over several invocations | `pc`, `run`, `opts`, `tmps` (temporary directories on disk), `tmpHas`, `stale` (the JDK's VM predates the sources), `copiedStale`, `zip`, `outcome` | `EditSources` (environment), `Start`, `BuildVm`, `Archive`, `CopyJdk`, `WriteZip`, `DistInit`, `Cleanup` |
| `DebugShell` | `_runInDebugShell` (236-268) and the cmd.exe process it talks to | `out` and `inp` (the two pipes), `shell`, `reader`, `ret`, `printed`, `marked` | shell: `SetEnv`, `TakeCmd`, `Emit`, `Ask`, `Answered`, `CmdDone`, `TakeExit`, `Die`; loop: `ReadLine`, `WriteRaises`, `ReadEOF` |
| `DaCapo` | the argument parse and the runs of `dacapo` (139-187) | `cmdLine` (history), `args`, `numTests`, `dacapoArgs`, `vmOpts`, `ran`, `failed`, `pc`, `outcome` | `CheckLevel`, `LoopExit`, `EmptyArg`, `CountArg`, `NameArg`, `Default`, `RunBench`, `Finish` |
| `DaCapoCommand` | what the docstring of `dacapo` promises, with the parse as one step | `cmd`, `tests`, `harness`, `vm`, `ran`, `failed`, `stage`, `outcome` | `Accept`, `Refuse`, `Run`, `Finish` |
| `IdeInit` | the per-project loop of `ideinit` (342-461) | `native`, `csConfig`, `hasExclude`, `exclude` (inputs), `p`, `step`, `j`, `filters`, `written`, `csFilters`, `builder`, `outcome` | `SkipNative`, `StartProject`, `ExcludeLine`, `EndExclude`, `WriteProject` |
| `GateProofs`, `OptionsProofs`, `JDKProofs`, `ExportProofs`, `DebugShellProofs`, `IdeInitProofs`, `DaCapoProofs` | TLAPS proofs about `Gate`, `Options`, `JDK`, `Export`, `DebugShell`, `IdeInit` and `DaCapo` | | |
| `MCGate`, `MCJDK`, `MCOptions`, `MCExport`, `MCDebugShell`, `MCDaCapo`, `MCIdeInit` | the modules the runs check: model values and small constant sets | | |

**Gate.** Each Task block (`t = Task(...)`, the check, `t.stop()`) is one
action, because nothing can interleave inside it. The action takes the
outcome of the external check as a nondeterministic input:
- `pass`;
- `fail`: a return code, an exit status or a missing success marker;
- `abort`: a callee calls `mx.abort` for another reason;
- `error`: an ordinary Python exception.

The action then does what the code does with that outcome. `ReturnCodeTask`
(Checkstyle, Canonicalization, DaCapo) calls `t.abort`. The other Tasks let the
callee's exception leave the block, so only BEGIN is logged. A block left
normally advances `pc`.

`BuildHotSpotTask` includes the whole call to `build`:
- it sets the global at 569;
- `_jdk(build, True)` creates the directory;
- the native build aborts off Windows but is only logged on Windows (309-316).

`VmTask` models BootstrapWithSystemAssertions and UnitTests. Each makes one
`vm()` call, which picks its build at 329 and aborts when that build's
directory is missing (226).

The constant `AbortRaises` is the class of the exception `mx.abort` raises.
In mx it is `SystemExit`, but `mx.abort` is not in this repository, so it is
a constant of the model and every proof holds for both values.

**JDK.** One action per step of `_jdk` between which an invocation can stop:
- the `exists`/`mkdir` test (196-198);
- each iteration of the two copy loops (199-203, 229-230); in the second,
  `copytree` of a directory the jdk lacks (left by an abort at 201 or a
  crash) raises and ends the process;
- the `jvm.cfg` check and append with the build dispatch (205-228).

A step may end the call by an `mx.abort` of the code. The `Crash` action
models `shutil.copytree` raising (disk full, permissions, Ctrl-C) before it
copies a directory. The directories keep what was copied; a later `Call`
starts a new invocation. File contents are abstracted to which top-level
subdirectories exist and how many `-graal KNOWN` lines `jvm.cfg` has.

**Options.** `sources` is chosen in Init, because the existence of `make/` and
`src/` is decided at import. Argument parsing belongs to mx, so `Parse` is
modelled from its contract: an option or a command that was never registered
is a usage error. A Java version is modelled as the list of its
dot-separated parts.

**Export.** One action per step of `export`, each with a failure disjunct:
`mx.abort` or an exception ends the process, and the disk keeps the
temporary directory and whatever the zip holds. `BuildVm` is the whole of
`build(['product'])` as `export` sees it: a Java compile error aborts, and a
failed native build aborts off Windows but is only logged on Windows
(309-316). `EditSources` is the environment: the VM sources change between
invocations, so the VM in the Graal JDK may be stale. A directory or a zip
is modelled by which parts it holds (sources, jdk, classes, ide).

**DebugShell.** Two actors joined by two pipes. The loop of 247-265 is
`ReadLine`, one iteration per line: it writes the command after STARTTOKEN,
an answer after a line a `respondTo` pattern matches, sets `ret` on a
`findInOutput` match, and at a line equal to ENDTOKEN writes `exit` and
returns. `Writes(l)` is what an iteration writes after line `l`. When the
shell has exited, that write fails: Popen's stdin is unbuffered in Python 2,
so `input.write` raises IOError, and `WriteRaises` ends the call with it.
`readline()` returns a line only once its newline is in the pipe
(`Readable`). Text without a newline is returned only at EOF. `ReadEOF` is
`readline()` at the end of the pipe: it returns `''`, which no test of the
loop matches, so the loop spins there forever. The cmd.exe side echoes
each command it reads from the pipe. The echo contains the text of ENDTOKEN
but is not equal to it. The command prints lines, may ask a question and
wait for an answer, and ends with `echo ENDTOKEN`. The constant
`PromptEndsLine` says whether its question ends with a newline. `Die` (for
a shell with `dies` set) ends it at any point before that.

**DaCapo.** An argument is the sequence of its characters, because the parse
tests `args[0][0]`, `isdigit` and `int`. One action per iteration of the loop
of 156, one per exit of it, and one for the defaulting and splitting of
171-179. Each benchmark run is an action with a nondeterministic result.
`sanitycheck` is not in this repository: its benchmarks, levels and warm-up
table are constants.

**IdeInit.** The inputs (which projects are native, have a checkstyle
configuration or an exclude file, and the lines of that file) are chosen in
Init. A `.checkstyle.exclude` line is a comment, an existing directory or a
missing one. One action per project for `.classpath` and the start of
`.checkstyle`, one per exclude line, and one for `.project` with the
`.settings` files.

## Runs

| Run | Expect | Checks | What it shows |
|---|---|---|---|
| `gate_linux` | pass | TypeOK, ExitStatusCorrect, ShortCircuit, VariantConsistency, VmFound, ImplementsSequencer | Off Windows, every combination of check outcomes gives the right exit status, stops at the first failure, runs each labelled build's own VM, and is a behaviour of `TaskSequencer`. |
| `gate_windows_exit` | violation | ExitStatusCorrect | A failed create.bat or msbuild step on Windows yields exit status 0 (finding). |
| `gate_task_outcome` | violation | EveryTaskTerminated | The `mx.abort` path leaves the `Gate` Task without END or ABORT (finding). |
| `jdk_crash` | pass | TypeOK, ReturnedKnowsGraal | Over 4 calls with crashes anywhere in the copy loops, every returned directory with a jre has a `jvm.cfg` that knows `-graal`. |
| `jdk_host_missing` | violation | ReturnedComplete | With a host JDK missing `man/`, the second call returns the half-copied JDK (finding). |
| `options` | pass | TypeOK, SelectionHonoured | The build selected on the command line is the one `vm`/`unittest` runs. |
| `export_linux` | pass | TypeOK, ShippedVmUpToDate | Over three exports with any step failing and source edits between them, a zip built with the VM step by an export that returned holds a current VM. |
| `export_dist_init` | violation | DistributionHasClasses | The zip is written before the class files and IDE configurations exist (finding). |
| `debugshell` | pass | TypeOK, ResultIsMarker, ReturnsWhileShellLives | With a shell that may die anywhere and every newline-ended prompt answered, a loop that returns reports True exactly when a matching line was printed, and the call returns whenever the shell lives. |
| `debugshell_dies` | violation | ShellReturns | With `respondTo = {}`, a question (TLC's trace: one without a newline) or a cmd.exe that exits before ENDTOKEN leaves the loop waiting forever (finding). |
| `dacapo` | pass | TypeOK, ParseMatchesReference, AcceptsExactlyWellFormed, ImplementsCommand | Every parse that reaches the runs agrees with a declarative reference: the named benchmarks with their last counts (all once when none are named, the warm-up table for a level), the `@` options stripped for the harness, the rest for the VM. A command line is refused exactly when its benchmark part is malformed. The whole command implements `DaCapoCommand` (see Refinement). |
| `ideinit` | pass | TypeOK, EclipseConfigComplete | An ideinit that returns leaves every non-native project with all its files, and the checkstyle builder in `.project` exactly where a `.checkstyle` exists. |

**Bounds.**
- The gate needs no bound: its eleven Tasks are the code's own list. Every
  Task draws each of the four outcomes. The initial directory set ranges over
  every state `_jdk` can leave, and `_vmbuild` over every build a command-line
  option can select.
- `JDK` uses `MaxCalls = 4` with one variant (`fastdebug`). That covers a
  crash or abort in the jdk loop followed by a product call, a variant
  creation and a variant reuse, so every path of 205-231 runs after every
  kind of earlier ending.
- `Options` uses Java 6, 7 and 8 as `1.x.0` plus the `9` form. That covers
  both asserts, the bound of 646, and each of the five build selections with
  and without the VM sources.
- `Export` uses three invocations (`MaxRuns = 3`). That is enough for a
  failed export followed by a successful one and a third after a source edit,
  with every option combination.
- `DebugShell` bounds the command to `MaxLines = 3` printed lines, enough for
  a prompt, its answer and a matching line in either order. A shell that dies
  before and after STARTTOKEN reaches both `ReadEOF` and `WriteRaises`.
- `DaCapo` explores every command line of up to four arguments over two
  known names, an unknown one, a level, a one- and a two-digit count, a VM
  option, a harness option and the empty argument (7381 command lines). So
  counts before names, repeated names, a name after an option and a level
  followed by options all occur.
- `IdeInit` uses two projects with exclude files of up to two lines, over
  every combination of inputs (10816 initial states).

**Fairness.** `debugshell` checks `ReturnsWhileShellLives` under weak fairness of
each of the two processes, cmd.exe and the Python loop. Each is an OS
process that is never starved. Dying is not a fair action: a shell is never
obliged to die. Whether the shell may die is an input (`dies`) chosen at the
start. `debugshell_dies` checks the unconditional `ShellReturns` and shows
that the loop hangs on a question no `respondTo` answers, or when the shell
dies with no write left to raise. The other runs check safety only.

**Deadlock.** Every cfg says `CHECK_DEADLOCK FALSE`, because each model ends
when the mx process exits (or, for `JDK` and `Export`, when the last
invocation has ended).

Every property of every passing run has a mutant in `PROJECT.json`: a
plausible bug in the mapped definition that TLC shows breaks it.

## Refinement

`Gate` defines `Sequencer`, an `INSTANCE TaskSequencer`, with the mapping:
- `N <- NSteps`;
- `done <- pc - 1`;
- `state` is `"passed"` or `"failed"` once the process exited with code 0
  or 1, `"failed"` while an exception is in flight, and `"running"`
  otherwise;
- `code` is the exit code once exited, 1 while an exception is in flight,
  and 0 otherwise.

`ImplementsSequencer == Sequencer!Spec` is checked by `gate_linux` and
proved by `GateImplementsSequencer` in `GateProofs` off Windows. A Task that
completes is `Complete`; a failed check or an exception is `Fail`. The
`Catch` and `Exit` steps after a failure are stutters, and `Finish` is
`Pass`. On Windows the mapping fails, which is finding 1.

`DaCapoCommand` is what the docstring of `dacapo` (140-144) promises, with
the parse as one step. `Accept` fixes the benchmarks with their counts, the
harness options and the VM options of an acceptable command line. `Refuse`
ends any other command line. Each fixed benchmark then runs once (`Run`),
and `Finish` fails the command when a run failed. How a command line is read
is a parameter. `DaCapo` instantiates it as `Command` with the reference
definitions `WellFormed(Selection(s))`, `Requested`, `HarnessArgs` and
`VmArgs`. The mapping:
- `stage` is `"parse"` while `pc` is `level`, `parse` or `default`, and
  `pc` after that;
- `tests` is `numTests` once the parse accepted, and empty before that or
  after a refusal;
- the other variables map to themselves.

`ImplementsCommand == Command!Spec` is checked by `dacapo` and proved by
`DaCapoImplementsCommand` in `DaCapoProofs`. Every step of the loop that
goes on is a stutter, a raise is `Refuse`, and `Default` is `Accept`. The
mutant `FinishInLoop` (the test of 186 moved into the loop of 182, so the
command aborts after the first failed run) breaks it.

## Findings

Each finding has a violation run.

1. **Windows swallows native build failures** (`build`, 309-316). The gate can
   exit 0 after a failed HotSpot build.
2. **`except Exception` does not catch `SystemExit`** (588). `t.abort` and
   `mx.run` fail through `mx.abort`, so the outer `Gate` Task is never aborted
   or stopped. A Task whose callee fails logs BEGIN only. The design says
   every started Task reaches END or ABORT.
3. **`_jdk` trusts `exists()`** (196, 224). An abort on a missing host
   directory (201) or an exception in `copytree` (203, 230) leaves a partial
   directory that every later call returns as the JDK.
4. **`export` zips before `distInit`** (77-90). The class files and IDE
   configurations are built in the temporary directory after the zip is
   written, and then deleted with it. No distribution ever holds them.
5. **`_runInDebugShell` can wait forever** (248, 255). `build` passes no
   `respondTo` (314), so a command that asks a question waits on stdin while
   the loop waits on stdout; a question without a newline is never even
   returned by `readline()`. A cmd.exe that exits in SetEnv.cmd or during the
   command leaves `readline()` returning `''` forever. (One that exits after
   STARTTOKEN, before the command is written, makes the write of 254 raise
   IOError instead.)

The models also show defects that have no run of their own. Each is listed
as a hazard in `PROJECT.json`:
- Without the VM sources, `vm()` ignores `_vmbuild` (329), so the
  `:fastdebug` Tasks repeat the product runs.
- On Windows, `export` zips a stale VM after the failed native build of
  finding 1 (67, 316).
- `mx dacapo ''` dies with an IndexError at 156 instead of a message.
- A Java `9` version string fails the assert of 644 with an AssertionError
  instead of the abort of 647.
- A failed `export` leaves its temporary directory under the Graal home.
- `ideinit` writes the comment lines of `.checkstyle.exclude` as filters: the
  `println` of 413 is outside the test of 409.

## Proofs

`tlapm M.tla`, for each of the seven modules `GateProofs`, `OptionsProofs`,
`JDKProofs`, `ExportProofs`, `DebugShellProofs`, `IdeInitProofs` and
`DaCapoProofs`, checks every theorem below to the last leaf. Every inductive invariant named here
was first checked by TLC as an invariant of the run of its module, and each
proof module ends with a type-correctness corollary `Spec => []TypeOK` of its
invariant (`ExportTypeCorrect`, `DebugShellTypeCorrect`, `IdeInitTypeCorrect`,
`JdkTypeCorrect`, `OptionsTypeCorrect`). So every safety invariant a
passing run checks is proved, except `DaCapo`'s `TypeOK` (see below).

### GateProofs

The theorems about the gate hold for every value
of `Platform`, `VmSourcesAvailable` and `AbortRaises` that satisfies the
module's ASSUMEs.

- **`TypeCorrect`**: `Spec => []TypeOK`. TypeOK is inductive as it stands.
  - The proof has one step per action of `Next`.
  - It rests on lemmas: `StepFacts` (every index names a Task of the gate,
    and the loop's Tasks carry a valid build), `EndTaskType` and
    `UncheckedType` (a Task block leaves log, pc, exception and failures well
    typed), `RaisedType` and `LineType`.
- **`ExitStatusOffWindows`**: `Platform # "Windows" => (Spec =>
  []ExitStatusCorrect)`. ExitStatusCorrect alone is not inductive: a `Finish`
  step needs that no check failed, and an `Exit` step needs that one did. The
  strengthening `ExitInv` adds three conjuncts:
  - an exception is pending exactly when some check failed;
  - the handler of 588 always holds an exception;
  - the exit code is 0 until the process exits.

  TLC checked `ExitInv` first on all four Linux instances (both source
  layouts, both exception classes). The proof shows Init ⇒ ExitInv, that
  every action preserves it (lemmas `EndTaskFailed`, `UncheckedFailed`,
  `TaskExitInv`), and ExitInv ⇒ ExitStatusCorrect. The Windows hypothesis is
  needed: finding 1 is the counterexample without it.

- **`GateImplementsSequencer`**: `Platform # "Windows" => (Spec =>
  ImplementsSequencer)`. It rests on the same `ExitInv`. `Init` maps to
  `Sequencer!Init`. Lemma `NextRefines` shows every step maps to a
  sequencer step or a stutter, with one case per action. `TaskRefines`
  covers every Task block: it completes, or it fails with `exc` set, so the
  mapping moves from `running` to `failed`. `Finish` is only enabled at
  `pc = NSteps + 1` with no failure, so it maps to `Pass`. `Catch` and
  `Exit` after a failure leave the mapped state unchanged.

- **`VmAlwaysFound`**: `Spec => []VmFound`, with no hypothesis. It rests on
  `VmInv`: when the sources are there, a `vm` Task of the loop at 567 runs
  with `_vmbuild` equal to the variant in its title, and that build is in
  `vms`. Without this conjunct, `VmTask` could not show that the directory
  it needs exists. Lemma `StepTable` lists the titles of Tasks 4 to 11.
  Lemma `PreStepNames` shows that Tasks 1 to 3 are neither a HotSpot build
  nor a VM Task.
- **`VariantConsistentWithSources`**: `ASSUME VmSourcesAvailable PROVE Spec
  => []VariantConsistency`. It rests on the same `VmInv`. The hypothesis is
  needed: without the sources, `vm()` always runs product (329). That is
  the hazard with the dropped `gate_variant_no_sources` run.
- **`ShortCircuitOffWindows`**: `ASSUME Platform # "Windows" PROVE Spec =>
  []ShortCircuit`. It rests on `FailFastInv`. This adds to `ExitInv` that
  a failure is the Task at `pc` alone, and that every Task in the log has
  an index no greater than `pc`. Lemma `StepInjective` says the Task
  titles differ, so a logged title fixes its index. `GateNotStep` says
  the final `Gate` line is not a Task title.

One TLAPS limit shaped these proofs. The SMT backend fails on string
literals with spaces, such as the titles of Tasks 1 to 3 ("Canonicalization
Check"). Facts about those Tasks are proved with Zenon from the explicit
`PreSteps` values.

### OptionsProofs

- **`SelectionHonouredAlways`**: `Spec => []SelectionHonoured`.

It holds for every set of Java versions (`VersionsAssumption`) and rests on
the inductive invariant `OptInv`. It adds to the property the facts the
steps need:
- before `mx_init` nothing is registered;
- options are registered only with the VM sources;
- a selection is a registered option;
- no version is read and no outcome exists before the parse;
- a `ready` invocation has a supported version, and `_vmbuild` already holds
  the selection;
- no VM ran before the command.

`SelectionHonoured` alone is not inductive. `RunCommand` needs `_vmbuild`
to equal the selection in the `ready` phase, which only the `PostParse`
step establishes. TLC checked `OptInv` as an invariant of `options` before
the proof was written.

### ExportProofs

- **`ExportTypeCorrect`** rests on `ExportInv`, which holds for every number
  of invocations (`MaxRunsAssumption`) and every option set:
  - only invocations that started own a temporary directory;
  - the zip was written by an invocation that already started;
  - an invocation that has not started has no outcome;
  - a running invocation owns its directory and is `running`;
  - no earlier invocation is still `running`.
- **`ShippedVmCurrentOffWindows`**: `Platform # "Windows" => (Spec =>
  []ShippedVmUpToDate)`. It rests on `FreshInv`, which follows the
  freshness of the VM through the steps:
  - after `BuildVm` the JDK's VM is current;
  - after `CopyJdk` the copy in tmp is current;
  - the zip that run wrote records that copy.

  Without the hypothesis, `build` on Windows returns after a failed native
  build (309-316), and the stale VM is shipped. That is the hazard of the
  dropped `export_windows_stale` run.

### DebugShellProofs

- **`ResultAlwaysMarker`**: `Spec => []ResultIsMarker`. This holds for
  every command output, prompt, answer pattern and shell death. It rests on
  `ShellInv`, which adds:
  - `ret` is set only when a matching line was printed;
  - a matching line still in the pipe was printed;
  - while the loop reads and a matching line was printed, `ret` is set or
    that line is still in the pipe;
  - ENDTOKEN, when in the pipe, is its last line, and the shell has
    finished the command;
  - after the loop the pipe is empty.

  The ENDTOKEN conjunct is the heart of the argument. When the loop reads
  ENDTOKEN and stops, no matching line can still be waiting behind it.
  Lemma `WriteLine` covers every shell step that writes a line other than
  ENDTOKEN. `QuietStep` covers the steps that write nothing. `WriteRaises`
  ends the loop in `raised`, which the result property does not speak of,
  and takes a line from the pipe as `ReadLine` does.

### IdeInitProofs

- **`EclipseConfigAlwaysComplete`**: `Spec => []EclipseConfigComplete`.
  This holds for every number of projects and every `.checkstyle.exclude`
  content up to `MaxLines` (`IdeInitAssumption`). It rests on `IdeInv`,
  which adds:
  - every project before `p` that is not native has its files, and a
    checkstyle builder exactly when it has a `.checkstyle`;
  - no project after `p` has been written;
  - inside the exclude loop, the typing of the filter buffer;
  - at the `.project` step, the files written so far.

  Writing this proof exposed a fault in an earlier version of the model.
  `StartProject` used a CASE whose guards overlap: `p \notin csConfig` and
  `p \notin hasExclude`. In TLA+ such a CASE chooses an arm arbitrarily,
  whereas the code (385-407) tests the first condition before the second.
  It is now an IF/ELSE IF, and the `ideinit` run reaches the same states.

### JDKProofs

- **`ReturnedJdkKnowsGraal`**: `Spec => []ReturnedKnowsGraal`.

It holds for every host JDK, set of variants, crash setting and number of
calls. It rests on `JdkInv`, which adds:
- a call starts its copy loop at the first directory;
- a copy loop's index stays inside `JdkDirs`;
- a variant directory is being copied only after the jdk's `jvm.cfg` was
  checked, so it holds the line;
- a variant that has a jre has a `jvm.cfg` that knows `-graal`.

The last conjunct is what `ReturnedKnowsGraal` needs when a later call
returns an existing variant directory. The third is what makes it
preserved by the copy of the jre. TLC checked `JdkInv` under `jdk_crash`.

### DaCapoProofs

- **`ParseAlwaysMatchesReference`**: `Spec => []ParseMatchesReference`.
- **`AcceptsWellFormedOnly`**: `Spec => []AcceptsExactlyWellFormed`.
- **`DaCapoImplementsCommand`**: `Spec => ImplementsCommand`.

All three hold for every set of benchmarks and levels, every warm-up table and
every command line. They rest on `ParseInv` (theorem `ParseInvariant`). Its
heart is `LoopInv`, which describes the loop of 156 by the prefix `Pre(K)`
of the command line it has deleted so far (`K` arguments):
- `args` is the rest of the command line after that prefix;
- the prefix holds no option, so the loop has not stopped yet;
- the prefix is well formed;
- `numTests` is `Tally(Pre(K))`: what the reference reads off it, each
  named benchmark with the count before its last mention.

At `default`, the loop stopped at `K + 1` (lemma `StopAt`), so the prefix
is the whole benchmark part, `Selection(cmdLine)`, and `args` is
`Options(cmdLine)` (`SuffixIsArgs`). `Default` then establishes `RunInv`,
which is the two properties at `run`. The refinement rests on the same
invariant: `RunInv` after `Default` is exactly the guard and the effect of
`Accept`, and the last conjunct of `ParseInv` is the guard of `Refuse`
(lemmas `LoopStepRefines` and `NextRefines`). An exception of the parse needs the
other half: the part is then not well formed. `RefusedPart` and
`RefusedLastCount` show this from the argument where the loop raised: an
empty argument, an unknown name, two counts in a row, or a count with no
name after it.

The tally lemmas carry the reference along the loop without induction.
`TallyName` and `TallyCount` show that appending a name, or a count and a
name, to a well-formed prefix changes `Tally` exactly as the dict update of
169 (`DictSet`) changes `numTests`. `MinIndex` and `MaxIndex` take least
and greatest indices from the well-foundedness of `<` on `Nat`
(`WellFoundedInduction`), which needs no induction scheme with an operator
parameter; `StopSpec` and `LastMentionExists` rest on them. The value of `int()` never has to be computed: both sides hold
the same `ToInt(a)`.

Two changes to `DaCapo` came with the proof. Neither changes its states:
the `dacapo` run reaches the same 54009.
- The dict update is `DictSet` rather than TLC's `:>` and `@@`, which
  TLAPS cannot expand.
- The filter of 179 is the named operator `IsVmOpt` rather than a LAMBDA.

**Left to TLC.** These are beyond TLAPS:
- liveness, here `ReturnsWhileShellLives` of `debugshell`, and anything
  with ENABLED;
- `DaCapo`'s `TypeOK`. It says every count in `numTests` is a natural
  number, and `ToInt` is a recursive function (`int()` over the digits).
  Proving it in `Nat` needs the existence of that function, which only the
  library's recursion theorems give. Those take an operator parameter,
  which the installed provers cannot instantiate. The typing of
  `dacapoArgs` needs the same for `SelectSeq`.

The properties of the violation runs are not theorems, because they are
false of the code: `ExitStatusCorrect` on Windows, `EveryTaskTerminated`,
`ReturnedComplete`, `DistributionHasClasses` and `ShellReturns`.

## Not modelled

- `unittest`'s filters (503-521) and the test-class scan of
  `_add_test_classes`. These are string matching over files; only the
  single `vm()` call per project appears in `Gate`.
- The text of the Eclipse files `ideinit` writes: its `.classpath` entries
  per dependency (361-379) and the `.project` and preferences text.
- `clean`, `copyrightcheck`, `example`, `bench`, `specjvm2008`, and the
  truffle suite's commands: thin wrappers around one external tool.
- Composing `JDK` with `Gate`. `Gate` abstracts each `_jdk` call to its
  effect on the set of build directories.

## Plan for later work

- Compose `JDK` with `Gate` and `Export`, so that the gate and export run
  against a JDK that earlier, crashed invocations left behind.
- A refinement of `DebugShell` to the boolean outcome `Gate` uses for
  `_runInDebugShell`.

------------------------------- MODULE Options -------------------------------
(***************************************************************************)
(* One mx invocation of a command that runs the VM (`mx [--<build>] vm`),  *)
(* from the suite's hooks in src/mx/commands.py: mx_init (611-638)         *)
(* registers the commands and the VM-selection options, the mx front end   *)
(* parses the command line, mx_post_parse_cmd_line (640-652) checks the    *)
(* Java version and stores the selected build, and vm (326-333) runs the   *)
(* build it reads from _vmbuild.                                           *)
(***************************************************************************)
EXTENDS Naturals, Sequences

CONSTANTS
    Versions    \* the Java versions mx.java().version may report

None == "none"
AllBuilds == {"product", "debug", "fastdebug", "optimized"}
\* What the user may put on the command line: no option or one --<build>.
Selections == {None} \cup AllBuilds

\* A version string "1.7.0" as the list of its '.'-separated parts (641-642).
ASSUME VersionsAssumption == Versions \subseteq Seq(Nat)

\* The commands mx_init registers without the VM sources (613-627).
BaseCommands == {"build", "clean", "copyrightcheck", "dacapo", "specjvm2008",
                 "example", "gate", "bench", "unittest", "vm", "ideinit"}
\* What the user may name: a command of either table, or one of neither.
Commands == {"vm", "unittest", "export", "nosuch"}
\* The commands that start the VM through vm(): vm itself and unittest
\* (524).
VmCommands == {"vm", "unittest"}

VARIABLES
    sources,   \* _vmSourcesAvailable: make/ and src/ existed at import (36)
    phase,     \* "start", "init", "parsed", "ready" or "done"
    options,   \* the builds whose --<build> option mx_init registered
    table,     \* the command names mx_init registered
    cmd,       \* the command the front end dispatches to
    opt,       \* opts.vmbuild as the front end parsed it
    version,   \* the version mx_post_parse_cmd_line read
    vmbuild,   \* the module global _vmbuild (37)
    outcome,   \* how the invocation ended: None while running
    vmRun      \* the build vm() ran, None if it did not run

vars == <<sources, phase, options, table, cmd, opt, version, vmbuild, outcome, vmRun>>

Outcomes == {None, "usage", "assertion", "abort", "ran"}
CmdValues == Commands \cup {None}

TypeOK ==
    /\ sources \in BOOLEAN
    /\ phase \in {"start", "init", "parsed", "ready", "done"}
    /\ options \in SUBSET AllBuilds
    /\ table \in SUBSET (BaseCommands \cup {"export"})
    /\ cmd \in CmdValues
    /\ opt \in Selections
    /\ version \in Versions \cup {<<>>}
    /\ vmbuild \in AllBuilds
    /\ outcome \in Outcomes
    /\ vmRun \in AllBuilds \cup {None}

\* The module has just been loaded: _vmbuild = 'product' (37).
Init ==
    /\ sources \in BOOLEAN
    /\ phase = "start"
    /\ options = {}
    /\ table = {}
    /\ cmd = None
    /\ opt = None
    /\ version = <<>>
    /\ vmbuild = "product"
    /\ outcome = None
    /\ vmRun = None

\* Java 1.7 or later in the form "1.<major>...": the asserts of 643-644 and
\* the test of 646.
Supported(v) == Len(v) >= 2 /\ v[1] = 1 /\ v[2] >= 7

-----------------------------------------------------------------------------
(* Actions.                                                                *)

\* mutant: the option strings, not their dest constants, are registered.
MxInitOptionNames ==
    /\ phase = "start"
    /\ phase' = "init"
    /\ table' = BaseCommands \cup (IF sources THEN {"export"} ELSE {})
    /\ options' = IF sources
                  THEN {"--product", "--debug", "--fastdebug", "--optimized"}
                  ELSE {}
    /\ UNCHANGED <<sources, cmd, opt, version, vmbuild, outcome, vmRun>>

\* mx_init (611-638): the commands, and with the VM sources the --product,
\* --debug, --fastdebug and --optimized options (dest 'vmbuild', 628-631)
\* and the export command (633-636). `_vmbuild = 'product'` at 612 binds a
\* local and leaves the global alone.
MxInit ==
    /\ phase = "start"
    /\ phase' = "init"
    /\ table' = BaseCommands \cup (IF sources THEN {"export"} ELSE {})
    /\ options' = IF sources THEN AllBuilds ELSE {}
    /\ UNCHANGED <<sources, cmd, opt, version, vmbuild, outcome, vmRun>>

\* The mx front end parses the command line: an option or a command that
\* mx_init did not register is a usage error; a registered option sets
\* opts.vmbuild.
Parse(sel, c) ==
    /\ phase = "init"
    /\ IF (sel = None \/ sel \in options) /\ c \in table
       THEN phase' = "parsed" /\ opt' = sel /\ cmd' = c /\ UNCHANGED outcome
       ELSE phase' = "done" /\ outcome' = "usage" /\ UNCHANGED <<opt, cmd>>
    /\ UNCHANGED <<sources, options, table, version, vmbuild, vmRun>>

\* With the VM sources a build selected on the command line becomes the
\* global _vmbuild (649-652).
SelectBuild == IF sources /\ opt # None THEN opt ELSE vmbuild

\* mutant: the assignment of 652 without the `global` of 651 binds a local,
\* as the one of mx_init does at 612.
PostParseLocal(v) ==
    /\ phase = "parsed"
    /\ version' = v
    /\ IF Len(v) < 2 \/ v[1] # 1
       THEN phase' = "done" /\ outcome' = "assertion"
       ELSE IF ~(v[2] >= 7)
       THEN phase' = "done" /\ outcome' = "abort"
       ELSE phase' = "ready" /\ UNCHANGED outcome
    /\ UNCHANGED <<sources, options, table, cmd, opt, vmbuild, vmRun>>

\* mx_post_parse_cmd_line (640-652): the asserts of 643-644 raise an
\* AssertionError on a version not of the form 1.x; a major below 7 aborts
\* (645-647); then a build selected on the command line is stored in the
\* global _vmbuild (649-652).
PostParse(v) ==
    /\ phase = "parsed"
    /\ version' = v
    /\ IF Len(v) < 2 \/ v[1] # 1
       THEN phase' = "done" /\ outcome' = "assertion" /\ UNCHANGED vmbuild
       ELSE IF ~(v[2] >= 7)
       THEN phase' = "done" /\ outcome' = "abort" /\ UNCHANGED vmbuild
       ELSE phase' = "ready" /\ vmbuild' = SelectBuild /\ UNCHANGED outcome
    /\ UNCHANGED <<sources, options, table, cmd, opt, vmRun>>

\* The command runs. vm(args) with vmbuild = None (329) runs _vmbuild when
\* the VM sources exist, else 'product'; what export does to the JDK is
\* modelled by module JDK.
RunCommand ==
    /\ phase = "ready"
    /\ phase' = "done"
    /\ outcome' = "ran"
    /\ vmRun' = IF cmd \notin VmCommands THEN None
                ELSE IF sources THEN vmbuild ELSE "product"
    /\ UNCHANGED <<sources, options, table, cmd, opt, version, vmbuild>>

Next ==
    \/ MxInit
    \/ \E s \in Selections, c \in Commands : Parse(s, c)
    \/ \E v \in Versions : PostParse(v)
    \/ RunCommand

Spec == Init /\ [][Next]_vars

-----------------------------------------------------------------------------
(* Properties.                                                             *)

\* The help of the options registered at 628-631 ("select the fast debug
\* VM"): the VM that vm or unittest starts is the build the command line
\* selected, through mx_init, the front end, mx_post_parse_cmd_line and the
\* read of _vmbuild at 329.
SelectionHonoured ==
    vmRun # None /\ opt # None => vmRun = opt

=============================================================================

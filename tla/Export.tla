-------------------------------- MODULE Export --------------------------------
(***************************************************************************)
(* `mx export` (export, src/mx/commands.py 54-96) over several mx          *)
(* invocations. One invocation makes a temporary directory under           *)
(* _graal_home (64), rebuilds the product VM (65-67), archives the sources *)
(* into it (70), copies the Graal JDK into it (74-76), zips it into        *)
(* graalvm-<os>.zip (77-83), builds class files and IDE configurations in  *)
(* it (86-90) and removes it (94). Any step may fail; mx.abort or an       *)
(* exception ends the process and the disk keeps what was done. A          *)
(* directory or a zip is modelled by which of the parts it holds.          *)
(***************************************************************************)
EXTENDS Naturals, FiniteSets

CONSTANTS
    Platform,   \* platform.system(), tested by build at 303
    MaxRuns     \* bound on the number of export invocations explored

ASSUME ExportPlatformAssumption == Platform \in {"Windows", "Linux"}
ASSUME MaxRunsAssumption == MaxRuns \in Nat

Runs == 1..MaxRuns
\* What a copy of the tree can hold: the hg archive of the sources, the
\* Graal JDK, compiled class files and Eclipse configurations.
Parts == {"sources", "jdk", "classes", "ide"}
\* The two options of 58-59; both store_false, so both are True by default.
Options == [vmbuild : BOOLEAN, distInit : BOOLEAN]
NoZip == [run |-> 0, has |-> {}, stale |-> FALSE, complete |-> FALSE,
          vmbuild |-> FALSE, distInit |-> FALSE]

VARIABLES
    pc,          \* the step of the current invocation, "idle" between them
    run,         \* the number of the current (or last) invocation
    opts,        \* its parsed options (62)
    tmps,        \* the temporary directories that exist under _graal_home
    tmpHas,      \* tmpHas[t]: what temporary directory t holds
    stale,       \* the product VM in the Graal JDK predates the VM sources
    copiedStale, \* the JDK copied into the current tmp held a stale VM
    zip,         \* graalvm-<os>.zip: the run that wrote it and its contents
    outcome      \* outcome[t]: "none", "running", "ok" or "failed"

vars == <<pc, run, opts, tmps, tmpHas, stale, copiedStale, zip, outcome>>

Zips == [run : 0..MaxRuns, has : SUBSET Parts, stale : BOOLEAN,
         complete : BOOLEAN, vmbuild : BOOLEAN, distInit : BOOLEAN]

TypeOK ==
    /\ pc \in {"idle", "build", "archive", "jdk", "zip", "distInit", "rmtree"}
    /\ run \in 0..MaxRuns
    /\ opts \in Options
    /\ tmps \subseteq Runs
    /\ tmpHas \in [Runs -> SUBSET Parts]
    /\ stale \in BOOLEAN
    /\ copiedStale \in BOOLEAN
    /\ zip \in Zips
    /\ outcome \in [Runs -> {"none", "running", "ok", "failed"}]

\* No distribution yet; the Graal JDK holds a VM that may or may not have
\* been built from the current sources.
Init ==
    /\ pc = "idle"
    /\ run = 0
    /\ opts = [vmbuild |-> TRUE, distInit |-> TRUE]
    /\ tmps = {}
    /\ tmpHas = [t \in Runs |-> {}]
    /\ stale \in BOOLEAN
    /\ copiedStale = FALSE
    /\ zip = NoZip
    /\ outcome = [t \in Runs |-> "none"]

-----------------------------------------------------------------------------
(* Helpers.                                                                *)

\* mx.abort, or an exception out of a callee, ends the process; the
\* temporary directory stays where it is.
Fail ==
    /\ pc' = "idle"
    /\ outcome' = [outcome EXCEPT ![run] = "failed"]

\* The current temporary directory receives more parts.
Add(ps) == tmpHas' = [tmpHas EXCEPT ![run] = @ \cup ps]

-----------------------------------------------------------------------------
(* Actions: one per step of export.                                        *)

\* The VM sources change between invocations (a pull, an edit).
EditSources ==
    /\ pc = "idle"
    /\ ~stale
    /\ stale' = TRUE
    /\ UNCHANGED <<pc, run, opts, tmps, tmpHas, copiedStale, zip, outcome>>

\* parse_args (57-62) and tempfile.mkdtemp under _graal_home (64).
Start(o) ==
    /\ pc = "idle"
    /\ run < MaxRuns
    /\ run' = run + 1
    /\ opts' = o
    /\ tmps' = tmps \cup {run + 1}
    /\ outcome' = [outcome EXCEPT ![run + 1] = "running"]
    /\ pc' = IF o.vmbuild THEN "build" ELSE "archive"
    /\ UNCHANGED <<tmpHas, stale, copiedStale, zip>>

\* mutant: a failed native build is only logged on every platform.
BuildVmSilentEverywhere(r) ==
    /\ pc = "build"
    /\ CASE r = "pass"       -> pc' = "archive" /\ stale' = FALSE /\ UNCHANGED outcome
         [] r = "nativeFail" -> pc' = "archive" /\ UNCHANGED <<stale, outcome>>
         [] OTHER            -> Fail /\ UNCHANGED stale
    /\ UNCHANGED <<run, opts, tmps, tmpHas, copiedStale, zip>>

\* build(['product']) (67): mx.build aborts on a Java compile error
\* (279); the native build makes the product VM current, and its failure
\* aborts through mx.run (324) except on Windows, where build logs it and
\* returns (309-316).
BuildVm(r) ==
    /\ pc = "build"
    /\ CASE r = "pass" -> pc' = "archive" /\ stale' = FALSE /\ UNCHANGED outcome
         [] r = "nativeFail" /\ Platform = "Windows" ->
                pc' = "archive" /\ UNCHANGED <<stale, outcome>>
         [] OTHER -> Fail /\ UNCHANGED stale
    /\ UNCHANGED <<run, opts, tmps, tmpHas, copiedStale, zip>>

\* hg archive of graal, mx, mxtool and mx.sh into tmp (69-70); mx.run
\* aborts when hg fails.
Archive(ok) ==
    /\ pc = "archive"
    /\ IF ok THEN Add({"sources"}) /\ pc' = "jdk" /\ UNCHANGED outcome
       ELSE Fail /\ UNCHANGED tmpHas
    /\ UNCHANGED <<run, opts, tmps, stale, copiedStale, zip>>

\* _jdk() and shutil.copytree of it into tmp (72-76): _jdk may abort on a
\* missing host directory, copytree may raise.
CopyJdk(ok) ==
    /\ pc = "jdk"
    /\ IF ok THEN Add({"jdk"}) /\ copiedStale' = stale /\ pc' = "zip"
                  /\ UNCHANGED outcome
       ELSE Fail /\ UNCHANGED <<tmpHas, copiedStale>>
    /\ UNCHANGED <<run, opts, tmps, stale, zip>>

\* mutant: the zip receives the temporary directory itself, as one entry,
\* instead of the files os.walk finds under it.
WriteZipDirEntry(ok) ==
    /\ pc = "zip"
    /\ zip' = [run |-> run, has |-> {"tmp"}, stale |-> copiedStale,
               complete |-> ok, vmbuild |-> opts.vmbuild,
               distInit |-> opts.distInit]
    /\ IF ok THEN pc' = (IF opts.distInit THEN "distInit" ELSE "rmtree")
                  /\ UNCHANGED outcome
       ELSE Fail
    /\ UNCHANGED <<run, opts, tmps, tmpHas, stale, copiedStale>>

\* zipfile.ZipFile(zfName, 'w') truncates the previous distribution, and
\* every file under tmp is written into it (77-83); a write may raise
\* (disk full), leaving a zip without its central directory.
WriteZip(ok) ==
    /\ pc = "zip"
    /\ zip' = [run |-> run, has |-> tmpHas[run], stale |-> copiedStale,
               complete |-> ok, vmbuild |-> opts.vmbuild,
               distInit |-> opts.distInit]
    /\ IF ok THEN pc' = (IF opts.distInit THEN "distInit" ELSE "rmtree")
                  /\ UNCHANGED outcome
       ELSE Fail
    /\ UNCHANGED <<run, opts, tmps, tmpHas, stale, copiedStale>>

\* `mx build` then `mx ideinit` with cwd = tmp (86-90), each through mx.run,
\* which aborts on a non-zero exit.
DistInit(r) ==
    /\ pc = "distInit"
    /\ CASE r = "pass"      -> Add({"classes", "ide"}) /\ pc' = "rmtree"
                                /\ UNCHANGED outcome
         [] r = "buildFail" -> Fail /\ UNCHANGED tmpHas
         [] r = "ideFail"   -> Add({"classes"}) /\ Fail
    /\ UNCHANGED <<run, opts, tmps, stale, copiedStale, zip>>

\* shutil.rmtree(tmp) (94), and export returns; rmtree raises on a file it
\* cannot delete (a read-only file on Windows) and leaves the rest.
Cleanup(ok) ==
    /\ pc = "rmtree"
    /\ pc' = "idle"
    /\ IF ok THEN tmps' = tmps \ {run} /\ outcome' = [outcome EXCEPT ![run] = "ok"]
       ELSE Fail /\ UNCHANGED tmps
    /\ UNCHANGED <<run, opts, tmpHas, stale, copiedStale, zip>>

Next ==
    \/ EditSources
    \/ \E o \in Options : Start(o)
    \/ \E r \in {"pass", "javaFail", "nativeFail"} : BuildVm(r)
    \/ \E ok \in BOOLEAN : Archive(ok) \/ CopyJdk(ok) \/ WriteZip(ok) \/ Cleanup(ok)
    \/ \E r \in {"pass", "buildFail", "ideFail"} : DistInit(r)

Spec == Init /\ [][Next]_vars

-----------------------------------------------------------------------------
(* Properties.                                                             *)

\* The comment of 66: with the VM build step, the distribution an export
\* that returned normally leaves holds a product VM built from the current
\* sources.
ShippedVmUpToDate ==
    (zip.run # 0 /\ outcome[zip.run] = "ok" /\ zip.vmbuild) => ~zip.stale

\* The help of --omit-dist-init (59) and the comment of 85: unless the
\* option is given, the distribution holds the class files and the IDE
\* configurations.
DistributionHasClasses ==
    (zip.run # 0 /\ outcome[zip.run] = "ok" /\ zip.distInit)
        => {"classes", "ide"} \subseteq zip.has

=============================================================================

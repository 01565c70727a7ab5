----------------------------- MODULE ExportProofs -----------------------------
(***************************************************************************)
(* Proofs about `mx export` (module Export), for any number of             *)
(* invocations, whatever option each is given and wherever each fails.    *)
(***************************************************************************)
EXTENDS Export, TLAPS

USE ExportPlatformAssumption, MaxRunsAssumption

(***************************************************************************)
(* The inductive invariant. An invocation under way is the last one        *)
(* started, is "running" and owns its temporary directory; the ones not   *)
(* started yet have no outcome and no directory.                          *)
(***************************************************************************)
ExportInv ==
  /\ TypeOK
  /\ tmps \subseteq 1..run
  /\ zip.run <= run
  /\ \A t \in Runs : t > run => outcome[t] = "none"
  /\ pc # "idle" => run \in Runs /\ run \in tmps /\ outcome[run] = "running"
  /\ \A t \in Runs : t < run \/ pc = "idle" => outcome[t] # "running"

(***************************************************************************)
(* With a native build that aborts when it fails (every platform but       *)
(* Windows, 309-324), the VM of an invocation with the build step is       *)
(* current from the build on, in the Graal JDK, in the copy of it in tmp   *)
(* and in the zip written from that copy.                                  *)
(***************************************************************************)
FreshInv ==
  /\ opts.vmbuild /\ pc \in {"archive", "jdk"} => ~stale
  /\ opts.vmbuild /\ pc \in {"zip", "distInit", "rmtree"} => ~copiedStale
  /\ zip.run = run /\ pc \in {"distInit", "rmtree"}
        => zip.vmbuild = opts.vmbuild /\ zip.stale = copiedStale
  /\ ShippedVmUpToDate

-----------------------------------------------------------------------------

LEMMA InitExportInv == Init => ExportInv
  <1> SUFFICES ASSUME Init PROVE ExportInv
    OBVIOUS
  <1>1. zip \in Zips /\ zip.run = 0
    BY DEF Init, NoZip, Zips
  <1>2. opts \in Options
    BY DEF Init, Options
  <1>3. TypeOK
    <2>1. tmpHas \in [Runs -> SUBSET Parts] /\ run \in 0..MaxRuns
      BY DEF Init
    <2>2. outcome \in [Runs -> {"none", "running", "ok", "failed"}]
      BY DEF Init
    <2>3. QED
      BY <1>1, <1>2, <2>1, <2>2 DEF Init, TypeOK
  <1>4. QED
    BY <1>3, <1>1 DEF Init, ExportInv, Runs

\* Fail closes the current invocation as failed and keeps its directory.
LEMMA FailExportInv ==
  ASSUME ExportInv, pc # "idle", Fail,
         UNCHANGED <<run, opts, tmps, zip>>, tmpHas' \in [Runs -> SUBSET Parts],
         stale' \in BOOLEAN, copiedStale' \in BOOLEAN
  PROVE  ExportInv'
  BY DEF Fail, ExportInv, TypeOK, Runs

LEMMA NextExportInv == ExportInv /\ [Next]_vars => ExportInv'
  <1> SUFFICES ASSUME ExportInv, [Next]_vars PROVE ExportInv'
    OBVIOUS
  <1>1. CASE EditSources
    BY <1>1 DEF EditSources, ExportInv, TypeOK
  <1>2. ASSUME NEW o \in Options, Start(o) PROVE ExportInv'
    <2>1. run + 1 \in Runs /\ pc = "idle" /\ run' = run + 1
          /\ outcome' = [outcome EXCEPT ![run + 1] = "running"]
      BY <1>2 DEF Start, ExportInv, TypeOK, Runs
    <2>2. TypeOK'
      BY <1>2, <2>1 DEF Start, ExportInv, TypeOK, Runs, Options
    <2>4. pc' # "idle" /\ tmps' = tmps \cup {run + 1} /\ zip' = zip
      BY <1>2 DEF Start
    <2>5. QED
      BY <2>1, <2>2, <2>4 DEF ExportInv, TypeOK, Runs, Zips
  <1>3. ASSUME NEW r \in {"pass", "javaFail", "nativeFail"}, BuildVm(r)
        PROVE  ExportInv'
    <2>1. CASE r = "pass" \/ (r = "nativeFail" /\ Platform = "Windows")
      BY <1>3, <2>1 DEF BuildVm, ExportInv, TypeOK
    <2>2. CASE ~(r = "pass" \/ (r = "nativeFail" /\ Platform = "Windows"))
      BY <1>3, <2>2, FailExportInv DEF BuildVm, ExportInv, TypeOK
    <2>3. QED
      BY <2>1, <2>2
  <1>4. ASSUME NEW ok \in BOOLEAN, Archive(ok) PROVE ExportInv'
    <2>1. CASE ok
      BY <1>4, <2>1 DEF Archive, Add, ExportInv, TypeOK, Parts
    <2>2. CASE ~ok
      BY <1>4, <2>2, FailExportInv DEF Archive, ExportInv, TypeOK
    <2>3. QED
      BY <2>1, <2>2
  <1>5. ASSUME NEW ok \in BOOLEAN, CopyJdk(ok) PROVE ExportInv'
    <2>1. CASE ok
      BY <1>5, <2>1 DEF CopyJdk, Add, ExportInv, TypeOK, Parts
    <2>2. CASE ~ok
      BY <1>5, <2>2, FailExportInv DEF CopyJdk, ExportInv, TypeOK
    <2>3. QED
      BY <2>1, <2>2
  <1>6. ASSUME NEW ok \in BOOLEAN, WriteZip(ok) PROVE ExportInv'
    <2>1. zip' \in Zips /\ zip'.run <= run
      BY <1>6 DEF WriteZip, ExportInv, TypeOK, Zips, Runs, Options
    <2>2. CASE ok
      BY <1>6, <2>1, <2>2 DEF WriteZip, ExportInv, TypeOK
    <2>3. CASE ~ok
      <3>1. UNCHANGED <<run, opts, tmps, tmpHas, stale, copiedStale>> /\ Fail
            /\ pc # "idle"
        BY <1>6, <2>3 DEF WriteZip
      <3>2. QED
        BY <3>1, <2>1 DEF Fail, ExportInv, TypeOK, Runs
    <2>4. QED
      BY <2>2, <2>3
  <1>7. ASSUME NEW r \in {"pass", "buildFail", "ideFail"}, DistInit(r)
        PROVE  ExportInv'
    <2>1. CASE r = "pass"
      BY <1>7, <2>1 DEF DistInit, Add, ExportInv, TypeOK, Parts
    <2>2. CASE r = "buildFail"
      BY <1>7, <2>2, FailExportInv DEF DistInit, ExportInv, TypeOK
    <2>3. CASE r = "ideFail"
      BY <1>7, <2>3, FailExportInv DEF DistInit, Add, ExportInv, TypeOK, Parts
    <2>4. QED
      BY <2>1, <2>2, <2>3
  <1>8. ASSUME NEW ok \in BOOLEAN, Cleanup(ok) PROVE ExportInv'
    <2>1. CASE ok
      <3>1. /\ pc # "idle" /\ pc' = "idle" /\ tmps' = tmps \ {run}
            /\ outcome' = [outcome EXCEPT ![run] = "ok"]
            /\ UNCHANGED <<run, opts, tmpHas, stale, copiedStale, zip>>
        BY <1>8, <2>1 DEF Cleanup
      <3>2. QED
        BY <3>1 DEF ExportInv, TypeOK, Runs
    <2>2. CASE ~ok
      BY <1>8, <2>2, FailExportInv DEF Cleanup, ExportInv, TypeOK
    <2>3. QED
      BY <2>1, <2>2
  <1>9. CASE UNCHANGED vars
    BY <1>9 DEF vars, ExportInv, TypeOK
  <1>10. QED
    BY <1>1, <1>2, <1>3, <1>4, <1>5, <1>6, <1>7, <1>8, <1>9 DEF Next

-----------------------------------------------------------------------------

LEMMA InitFreshInv == Init => FreshInv
  BY DEF Init, FreshInv, NoZip, ShippedVmUpToDate

\* Fail makes the current invocation "failed": no distribution becomes one
\* of an export that returned normally.
LEMMA FailFreshInv ==
  ASSUME ExportInv, FreshInv, pc # "idle", Fail,
         UNCHANGED <<run, opts, zip>>
  PROVE  FreshInv'
  BY DEF Fail, ExportInv, TypeOK, Runs, Zips, FreshInv, ShippedVmUpToDate

LEMMA NextFreshInv ==
  ASSUME Platform # "Windows", ExportInv, FreshInv, [Next]_vars
  PROVE  FreshInv'
  <1>1. CASE EditSources
    BY <1>1 DEF EditSources, FreshInv, ShippedVmUpToDate
  <1>2. ASSUME NEW o \in Options, Start(o) PROVE FreshInv'
    <2>1. zip.run # run + 1 /\ zip.run # 0 => outcome'[zip.run] = outcome[zip.run]
      BY <1>2 DEF Start, ExportInv, TypeOK, Zips, Runs
    <2>2. QED
      BY <1>2, <2>1 DEF Start, ExportInv, TypeOK, Zips, FreshInv, ShippedVmUpToDate
  <1>3. ASSUME NEW r \in {"pass", "javaFail", "nativeFail"}, BuildVm(r)
        PROVE  FreshInv'
    <2>1. CASE r = "pass"
      BY <1>3, <2>1 DEF BuildVm, FreshInv, ShippedVmUpToDate
    <2>2. CASE r # "pass"
      BY <1>3, <2>2, FailFreshInv DEF BuildVm
    <2>3. QED
      BY <2>1, <2>2
  <1>4. ASSUME NEW ok \in BOOLEAN, Archive(ok) PROVE FreshInv'
    <2>1. CASE ok
      BY <1>4, <2>1 DEF Archive, FreshInv, ShippedVmUpToDate
    <2>2. CASE ~ok
      BY <1>4, <2>2, FailFreshInv DEF Archive
    <2>3. QED
      BY <2>1, <2>2
  <1>5. ASSUME NEW ok \in BOOLEAN, CopyJdk(ok) PROVE FreshInv'
    <2>1. CASE ok
      BY <1>5, <2>1 DEF CopyJdk, FreshInv, ShippedVmUpToDate
    <2>2. CASE ~ok
      BY <1>5, <2>2, FailFreshInv DEF CopyJdk
    <2>3. QED
      BY <2>1, <2>2
  <1>6. ASSUME NEW ok \in BOOLEAN, WriteZip(ok) PROVE FreshInv'
    \* The zip now belongs to the current invocation, which is "running".
    <2>1. /\ zip'.run = run /\ zip'.vmbuild = opts.vmbuild
          /\ zip'.stale = copiedStale /\ pc = "zip"
          /\ UNCHANGED <<run, opts, copiedStale>>
      BY <1>6 DEF WriteZip
    <2>2. outcome[run] = "running"
      BY <2>1 DEF ExportInv
    <2>3. CASE ok
      BY <1>6, <2>1, <2>2, <2>3 DEF WriteZip, FreshInv, ShippedVmUpToDate
    <2>4. CASE ~ok
      BY <1>6, <2>1, <2>4 DEF WriteZip, Fail, FreshInv, ShippedVmUpToDate
    <2>5. QED
      BY <2>3, <2>4
  <1>7. ASSUME NEW r \in {"pass", "buildFail", "ideFail"}, DistInit(r)
        PROVE  FreshInv'
    <2>1. CASE r = "pass"
      BY <1>7, <2>1 DEF DistInit, FreshInv, ShippedVmUpToDate
    <2>2. CASE r # "pass"
      BY <1>7, <2>2, FailFreshInv DEF DistInit
    <2>3. QED
      BY <2>1, <2>2
  <1>8. ASSUME NEW ok \in BOOLEAN, Cleanup(ok) PROVE FreshInv'
    <2>1. CASE ok
      <3>1. /\ pc = "rmtree" /\ pc' = "idle"
            /\ outcome' = [outcome EXCEPT ![run] = "ok"]
            /\ UNCHANGED <<run, opts, zip>>
        BY <1>8, <2>1 DEF Cleanup
      <3>2. QED
        BY <3>1 DEF ExportInv, TypeOK, Runs, Zips, FreshInv, ShippedVmUpToDate
    <2>2. CASE ~ok
      BY <1>8, <2>2, FailFreshInv DEF Cleanup
    <2>3. QED
      BY <2>1, <2>2
  <1>9. CASE UNCHANGED vars
    BY <1>9 DEF vars, FreshInv, ShippedVmUpToDate
  <1>10. QED
    BY <1>1, <1>2, <1>3, <1>4, <1>5, <1>6, <1>7, <1>8, <1>9 DEF Next

\* The comment of 66, wherever the native build aborts on failure (all
\* platforms but Windows): an export with the VM build step that returned
\* normally leaves a distribution whose product VM is built from the
\* current sources. On Windows build only logs the failure (309-316), and
\* the property is false there.
THEOREM ShippedVmCurrentOffWindows ==
  Platform # "Windows" => (Spec => []ShippedVmUpToDate)
  <1> SUFFICES ASSUME Platform # "Windows" PROVE Spec => []ShippedVmUpToDate
    OBVIOUS
  <1>1. ExportInv /\ FreshInv /\ [Next]_vars => ExportInv' /\ FreshInv'
    BY NextExportInv, NextFreshInv
  <1>2. FreshInv => ShippedVmUpToDate
    BY DEF FreshInv
  <1>3. QED
    BY <1>1, <1>2, InitExportInv, InitFreshInv, PTL DEF Spec

\* Every state the export command reaches is well typed: its phase, run
\* counter, options, temporary directories, archive and outcomes, for every
\* value of the constants.
THEOREM ExportTypeCorrect == Spec => []TypeOK
  <1>1. ExportInv => TypeOK
    BY DEF ExportInv
  <1>2. QED
    BY <1>1, InitExportInv, NextExportInv, PTL DEF Spec

==============================================================================

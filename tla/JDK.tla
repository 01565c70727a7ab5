--------------------------------- MODULE JDK ---------------------------------
(***************************************************************************)
(* The Graal JDK directory that _jdk (src/mx/commands.py, 189-234) creates *)
(* on first use and hands to build (290), vm (332) and export (72), over   *)
(* several mx invocations. The directory persists between invocations;   *)
(* one invocation may end in the middle of _jdk: mx.abort on a missing     *)
(* host directory (201), on a missing jvm.cfg (207) or on a missing build  *)
(* VM (226), or an exception out of shutil.copytree (OSError, a Ctrl-C).   *)
(* A directory is modelled by the set of its top-level subdirectories     *)
(* copied so far and by the '-graal KNOWN' lines of its jre/lib/amd64/     *)
(* jvm.cfg; file contents are abstracted away.                            *)
(***************************************************************************)
EXTENDS Naturals, Sequences, FiniteSets

CONSTANTS
    HostDirs,    \* the subdirectories the host JDK (mx.java().jdk) really has
    Variants,    \* the non-product builds callers ask for (220)
    Crashes,     \* whether an invocation may die inside a copytree
    MaxCalls     \* bound on the number of _jdk calls explored

\* The subdirectories _jdk copies, in the order of the loops at 199 and 229.
JdkDirs == <<"bin", "db", "include", "jre", "lib", "man">>
DirNames == {JdkDirs[i] : i \in 1..Len(JdkDirs)}

ASSUME HostAssumption == HostDirs \subseteq DirNames
ASSUME VariantsAssumption == Variants \subseteq {"debug", "fastdebug", "optimized"}
ASSUME CrashesAssumption == Crashes \in BOOLEAN
ASSUME MaxCallsAssumption == MaxCalls \in Nat

\* The directory of a build: the jdk itself for "product" (214), jdk/<build>
\* otherwise (221).
Builds == {"product"} \cup Variants

VARIABLES
    pc,        \* where the current _jdk call is: "idle" between calls
    req,       \* the arguments of the current call: [build, create]
    k,         \* index into JdkDirs of the next copytree of a copy loop
    present,   \* the builds whose directory exists on disk
    copied,    \* copied[b]: the subdirectories directory b holds
    cfgLines,  \* cfgLines[b]: '-graal KNOWN' lines in b's jvm.cfg
    returns,   \* (history) what each completed call returned
    calls      \* number of _jdk calls started

vars == <<pc, req, k, present, copied, cfgLines, returns, calls>>

Request == [build : Builds, create : BOOLEAN]
Returned == [build : Builds, subdirs : SUBSET DirNames, graal : Nat]

TypeOK ==
    /\ pc \in {"idle", "start", "jdkCopy", "cfg", "variantCopy"}
    /\ req \in Request
    /\ k \in 1..(Len(JdkDirs) + 1)
    /\ present \in SUBSET Builds
    /\ copied \in [Builds -> SUBSET DirNames]
    /\ cfgLines \in [Builds -> Nat]
    /\ returns \in SUBSET Returned
    /\ calls \in 0..MaxCalls

\* Before the first call no Graal JDK exists: `mx clean` removed it or it
\* was never built.
Init ==
    /\ pc = "idle"
    /\ req = [build |-> "product", create |-> FALSE]
    /\ k = 1
    /\ present = {}
    /\ copied = [b \in Builds |-> {}]
    /\ cfgLines = [b \in Builds |-> 0]
    /\ returns = {}
    /\ calls = 0

-----------------------------------------------------------------------------
(* The call ends: by a return, an abort or an exception.                   *)

End == pc' = "idle" /\ k' = 1

\* mutant: without the product branch of 214 the jdk is returned as the
\* directory jdk/product, which no build owns.
ReturnProductSubdir(b, subdirs, graal) ==
    /\ End
    /\ returns' = returns \cup
         {[build |-> IF b = "product" THEN "jdk/product" ELSE b,
           subdirs |-> subdirs, graal |-> graal]}

\* return jdk (215) or return res (231): the directory of build b, holding
\* the subdirectories subdirs and a jvm.cfg with graal '-graal KNOWN' lines.
Return(b, subdirs, graal) ==
    /\ End
    /\ returns' = returns \cup {[build |-> b, subdirs |-> subdirs, graal |-> graal]}

-----------------------------------------------------------------------------
(* Actions: one per step of _jdk between which an invocation can end.      *)

\* A caller asks for a build: build(...) with create = True (290), vm()
\* (332) or export (72) without it.
Call(b, create) ==
    /\ pc = "idle"
    /\ calls < MaxCalls
    /\ pc' = "start"
    /\ req' = [build |-> b, create |-> create]
    /\ calls' = calls + 1
    /\ UNCHANGED <<k, present, copied, cfgLines, returns>>

\* if not exists(jdk): os.mkdir(jdk) (196-198).
StartCall ==
    /\ pc = "start"
    /\ IF "product" \in present
       THEN pc' = "cfg" /\ UNCHANGED present
       ELSE pc' = "jdkCopy" /\ present' = present \cup {"product"}
    /\ UNCHANGED <<req, k, copied, cfgLines, returns, calls>>

\* One iteration of the loop at 199-203: abort when the host lacks the
\* directory, else copy it; the copied jre brings the host's jvm.cfg.
CopyJdkDir ==
    LET d == JdkDirs[k]
    IN  /\ pc = "jdkCopy"
        /\ IF d \notin HostDirs
           THEN End /\ UNCHANGED copied
           ELSE /\ copied' = [copied EXCEPT !["product"] = @ \cup {d}]
                /\ k' = k + 1
                /\ pc' = IF k = Len(JdkDirs) THEN "cfg" ELSE "jdkCopy"
        /\ UNCHANGED <<req, present, cfgLines, returns, calls>>

(***************************************************************************)
(* 205-228: abort when jvm.cfg is missing; append '-graal KNOWN' unless a   *)
(* line already has it; return the jdk for product; for another build      *)
(* return jdk/<build> when it exists, abort when it does not and create is *)
(* false, else os.mkdir(res) and start its copy loop.                       *)
(***************************************************************************)
CheckCfg ==
    LET b == req.build
        n == IF cfgLines["product"] = 0 THEN 1 ELSE cfgLines["product"]
    IN  /\ pc = "cfg"
        /\ IF "jre" \notin copied["product"]
           THEN End /\ UNCHANGED <<present, cfgLines, returns>>
           ELSE
             /\ cfgLines' = [cfgLines EXCEPT !["product"] = n]
             /\ IF b = "product" \/ b \in present
                THEN /\ Return(b, copied[b], IF b = "product" THEN n ELSE cfgLines[b])
                     /\ UNCHANGED present
                ELSE IF ~req.create
                THEN End /\ UNCHANGED <<present, returns>>
                ELSE /\ present' = present \cup {b}
                     /\ pc' = "variantCopy" /\ k' = 1
                     /\ UNCHANGED returns
        /\ UNCHANGED <<req, copied, calls>>

\* mutant: the build directory is copied from the host JDK (srcJdk), whose
\* jvm.cfg does not know -graal.
CopyVariantDirFromHost ==
    LET b == req.build
        d == JdkDirs[k]
        g == IF d = "jre" THEN 0 ELSE cfgLines[b]
    IN  /\ pc = "variantCopy"
        /\ IF d \notin HostDirs
           THEN End /\ UNCHANGED <<copied, cfgLines, returns>>
           ELSE /\ copied' = [copied EXCEPT ![b] = @ \cup {d}]
                /\ cfgLines' = [cfgLines EXCEPT ![b] = g]
                /\ IF k = Len(JdkDirs)
                   THEN Return(b, copied[b] \cup {d}, g)
                   ELSE k' = k + 1 /\ pc' = "variantCopy" /\ UNCHANGED returns
        /\ UNCHANGED <<req, present, calls>>

\* One iteration of the loop at 229-230: shutil.copytree(join(jdk, d),
\* join(res, d)) raises, ending the process, when the jdk lacks d (a copy
\* loop of 199 that aborted or died); else the jre brings the jdk's jvm.cfg
\* as it is now. After the last one, return res (231).
CopyVariantDir ==
    LET b == req.build
        d == JdkDirs[k]
        g == IF d = "jre" THEN cfgLines["product"] ELSE cfgLines[b]
    IN  /\ pc = "variantCopy"
        /\ IF d \notin copied["product"]
           THEN End /\ UNCHANGED <<copied, cfgLines, returns>>
           ELSE /\ copied' = [copied EXCEPT ![b] = @ \cup {d}]
                /\ cfgLines' = [cfgLines EXCEPT ![b] = g]
                /\ IF k = Len(JdkDirs)
                   THEN Return(b, copied[b] \cup {d}, g)
                   ELSE k' = k + 1 /\ pc' = "variantCopy" /\ UNCHANGED returns
        /\ UNCHANGED <<req, present, calls>>

\* shutil.copytree raises (disk full, permission denied, Ctrl-C) before it
\* copies the current directory; the mx process dies, the disk keeps what
\* was copied.
Crash ==
    /\ Crashes
    /\ pc \in {"jdkCopy", "variantCopy"}
    /\ End
    /\ UNCHANGED <<req, present, copied, cfgLines, returns, calls>>

Next ==
    \/ \E b \in Builds, c \in BOOLEAN : Call(b, c)
    \/ StartCall
    \/ CopyJdkDir
    \/ CheckCfg
    \/ CopyVariantDir
    \/ Crash

Spec == Init /\ [][Next]_vars

-----------------------------------------------------------------------------
(* Properties.                                                             *)

\* Whatever _jdk returns to build, vm or export, and however earlier calls
\* ended, the jvm.cfg of the returned directory knows the -graal VM when
\* that directory has a jre: a build directory's jre is a copy of the jdk's
\* taken after the append.
ReturnedKnowsGraal ==
    \A r \in returns : "jre" \in r.subdirs => r.graal > 0

\* The docstring of _jdk (190-192): the directory it returns is a complete
\* JDK, created first if necessary.
ReturnedComplete ==
    \A r \in returns : r.subdirs = DirNames

=============================================================================

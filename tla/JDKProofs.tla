------------------------------ MODULE JDKProofs ------------------------------
(***************************************************************************)
(* Proofs about the Graal JDK directory of _jdk (module JDK), for every    *)
(* host JDK, every set of build variants and any number of calls, however *)
(* the earlier ones ended.                                                 *)
(***************************************************************************)
EXTENDS JDK, TLAPS

USE HostAssumption, VariantsAssumption, CrashesAssumption, MaxCallsAssumption

LEMMA DirFacts ==
  /\ Len(JdkDirs) = 6
  /\ \A i \in 1..6 : JdkDirs[i] \in DirNames
  /\ "jre" \in DirNames
  /\ "product" \notin Variants
  BY DEF JdkDirs, DirNames

(***************************************************************************)
(* The inductive invariant: a copy loop is inside JdkDirs; a build        *)
(* directory is copied only after the jdk's jvm.cfg was checked; and the   *)
(* jre of a build directory is a copy of the jdk's taken after the append; *)
(* a call starts its copy loop at the first directory.                    *)
(***************************************************************************)
JdkInv ==
  /\ TypeOK
  /\ pc \in {"idle", "start"} => k = 1
  /\ pc \in {"jdkCopy", "variantCopy"} => k \in 1..Len(JdkDirs)
  /\ pc = "variantCopy" => req.build \in Variants /\ cfgLines["product"] > 0
  /\ \A b \in Variants : "jre" \in copied[b] => cfgLines[b] > 0
  /\ ReturnedKnowsGraal

LEMMA InitJdkInv == Init => JdkInv
  BY DEF Init, JdkInv, TypeOK, Request, Builds,
         ReturnedKnowsGraal, JdkDirs

\* Ending a call leaves the disk alone.
LEMMA EndJdkInv ==
  ASSUME JdkInv, End,
         UNCHANGED <<req, present, copied, cfgLines, returns, calls>>
  PROVE  JdkInv'
  BY DirFacts DEF End, JdkInv, TypeOK, ReturnedKnowsGraal

\* What a call returns is well typed and knows -graal when it has a jre.
LEMMA ReturnJdkInv ==
  ASSUME JdkInv, NEW b \in Builds, NEW s \in SUBSET DirNames, NEW g \in Nat,
         "jre" \in s => g > 0, Return(b, s, g)
  PROVE  returns' \in SUBSET Returned /\ ReturnedKnowsGraal'
  BY DEF Return, JdkInv, TypeOK, Returned, ReturnedKnowsGraal

LEMMA NextJdkInv == JdkInv /\ [Next]_vars => JdkInv'
  <1> SUFFICES ASSUME JdkInv, [Next]_vars PROVE JdkInv'
    OBVIOUS
  <1>1. ASSUME NEW b \in Builds, NEW c \in BOOLEAN, Call(b, c)
        PROVE  JdkInv'
    BY <1>1 DEF Call, JdkInv, TypeOK, Request, ReturnedKnowsGraal
  <1>2. CASE StartCall
    <2>1. pc = "start" /\ k = 1
      BY <1>2 DEF StartCall, JdkInv
    <2>2. pc' \in {"cfg", "jdkCopy"} /\ present' \subseteq Builds
          /\ UNCHANGED <<req, k, copied, cfgLines, returns, calls>>
      BY <1>2 DEF StartCall, JdkInv, TypeOK, Builds
    <2>3. k \in 1..Len(JdkDirs)
      BY <2>1, DirFacts
    <2>4. QED
      BY <2>1, <2>2, <2>3 DEF JdkInv, TypeOK,
         ReturnedKnowsGraal
  <1>3. CASE CopyJdkDir
    <2>1. pc = "jdkCopy" /\ k \in 1..6
      BY <1>3, DirFacts DEF CopyJdkDir, JdkInv
    <2>2. JdkDirs[k] \in DirNames
      BY <2>1, DirFacts
    <2>3. CASE JdkDirs[k] \notin HostDirs
      BY <1>3, <2>3, EndJdkInv DEF CopyJdkDir
    <2>4. CASE JdkDirs[k] \in HostDirs
      <3>1. /\ copied' = [copied EXCEPT !["product"] = @ \cup {JdkDirs[k]}]
            /\ k' = k + 1
            /\ pc' = IF k = 6 THEN "cfg" ELSE "jdkCopy"
            /\ UNCHANGED <<req, present, cfgLines, returns, calls>>
        BY <1>3, <2>4, DirFacts DEF CopyJdkDir
      <3>2. copied' \in [Builds -> SUBSET DirNames]
        BY <2>2, <3>1 DEF JdkInv, TypeOK, Builds
      <3>3. \A b \in Variants : copied'[b] = copied[b]
        BY <3>1, DirFacts DEF JdkInv, TypeOK, Builds
      <3>4. QED
        BY <2>1, <3>1, <3>2, <3>3, DirFacts DEF JdkInv, TypeOK,
           ReturnedKnowsGraal
    <2>5. QED
      BY <2>3, <2>4
  <1>4. CASE CheckCfg
    <2> DEFINE b == req.build
               n == IF cfgLines["product"] = 0 THEN 1 ELSE cfgLines["product"]
    <2>1. pc = "cfg" /\ b \in Builds /\ "product" \in Builds
      BY <1>4 DEF CheckCfg, JdkInv, TypeOK, Request, Builds
    <2>2. n \in Nat /\ n > 0
      BY <2>1 DEF JdkInv, TypeOK
    <2>3. CASE "jre" \notin copied["product"]
      BY <1>4, <2>3, EndJdkInv DEF CheckCfg
    <2>4. CASE "jre" \in copied["product"]
      <3>1. /\ cfgLines' = [cfgLines EXCEPT !["product"] = n]
            /\ UNCHANGED <<req, copied, calls>>
        BY <1>4, <2>4 DEF CheckCfg
      <3>2. cfgLines' \in [Builds -> Nat]
            /\ cfgLines'["product"] > 0
            /\ \A v \in Variants : cfgLines'[v] = cfgLines[v]
        BY <2>1, <2>2, <3>1, DirFacts DEF JdkInv, TypeOK
      <3>3. \A v \in Variants : "jre" \in copied'[v] => cfgLines'[v] > 0
        BY <3>1, <3>2 DEF JdkInv
      <3>4. CASE b = "product" \/ b \in present
        <4>1. Return(b, copied[b], IF b = "product" THEN n ELSE cfgLines[b])
              /\ UNCHANGED present
          BY <1>4, <2>4, <3>4 DEF CheckCfg
        <4>2. (IF b = "product" THEN n ELSE cfgLines[b]) \in Nat
              /\ ("jre" \in copied[b] => (IF b = "product" THEN n ELSE cfgLines[b]) > 0)
          BY <2>1, <2>2 DEF JdkInv, TypeOK, Builds
        <4>3. returns' \in SUBSET Returned /\ ReturnedKnowsGraal'
          BY <2>1, <4>1, <4>2, ReturnJdkInv DEF JdkInv, TypeOK
        <4>4. pc' = "idle" /\ k' = 1
          BY <4>1 DEF Return, End
        <4>5. QED
          BY <3>1, <3>2, <3>3, <4>1, <4>3, <4>4 DEF JdkInv, TypeOK
      <3>5. CASE ~(b = "product" \/ b \in present) /\ ~req.create
        <4>1. pc' = "idle" /\ k' = 1 /\ UNCHANGED <<present, returns>>
          BY <1>4, <2>4, <3>5 DEF CheckCfg, End
        <4>2. QED
          BY <3>1, <3>2, <3>3, <4>1 DEF JdkInv, TypeOK, ReturnedKnowsGraal
      <3>6. CASE ~(b = "product" \/ b \in present) /\ req.create
        <4>1. /\ present' = present \cup {b}
              /\ pc' = "variantCopy" /\ k' = 1
              /\ UNCHANGED returns
          BY <1>4, <2>4, <3>6 DEF CheckCfg
        <4>2. b \in Variants
          BY <2>1, <3>6 DEF Builds
        <4>3. QED
          BY <2>1, <3>1, <3>2, <3>3, <4>1, <4>2, DirFacts
             DEF JdkInv, TypeOK, ReturnedKnowsGraal
      <3>7. QED
        BY <3>4, <3>5, <3>6
    <2>5. QED
      BY <2>3, <2>4
  <1>5. CASE CopyVariantDir
    <2> DEFINE b == req.build
               d == JdkDirs[k]
               g == IF d = "jre" THEN cfgLines["product"] ELSE cfgLines[b]
    <2>1. pc = "variantCopy" /\ k \in 1..6 /\ b \in Variants
          /\ cfgLines["product"] > 0
      BY <1>5, DirFacts DEF CopyVariantDir, JdkInv
    <2>2. b \in Builds /\ b # "product" /\ d \in DirNames
      BY <2>1, DirFacts DEF Builds
    \* copytree of a directory the jdk lacks raises.
    <2>0. CASE d \notin copied["product"]
      BY <1>5, <2>0, EndJdkInv DEF CopyVariantDir
    <2>9. CASE d \in copied["product"]
      <3>3. g \in Nat /\ ("jre" \in copied[b] \cup {d} => g > 0)
        BY <2>1, <2>2 DEF JdkInv, TypeOK, Builds
      <3>4. /\ copied' = [copied EXCEPT ![b] = @ \cup {d}]
            /\ cfgLines' = [cfgLines EXCEPT ![b] = g]
            /\ UNCHANGED <<req, present, calls>>
        BY <1>5, <2>9 DEF CopyVariantDir
      <3>5. /\ copied' \in [Builds -> SUBSET DirNames]
            /\ cfgLines' \in [Builds -> Nat]
            /\ cfgLines'["product"] = cfgLines["product"]
            /\ \A v \in Variants : "jre" \in copied'[v] => cfgLines'[v] > 0
        BY <2>1, <2>2, <3>3, <3>4 DEF JdkInv, TypeOK
      <3>6. CASE k = Len(JdkDirs)
        <4>1. Return(b, copied[b] \cup {d}, g)
          BY <1>5, <2>9, <3>6 DEF CopyVariantDir
        <4>2. copied[b] \cup {d} \in SUBSET DirNames
          BY <2>2 DEF JdkInv, TypeOK
        <4>3. returns' \in SUBSET Returned /\ ReturnedKnowsGraal'
          BY <2>2, <3>3, <4>1, <4>2, ReturnJdkInv
        <4>4. pc' = "idle" /\ k' = 1
          BY <4>1 DEF Return, End
        <4>5. QED
          BY <3>4, <3>5, <4>3, <4>4 DEF JdkInv, TypeOK
      <3>7. CASE k # Len(JdkDirs)
        <4>1. k' = k + 1 /\ pc' = "variantCopy" /\ UNCHANGED returns
          BY <1>5, <2>9, <3>7 DEF CopyVariantDir
        <4>2. k' \in 1..6
          BY <2>1, <3>7, <4>1, DirFacts
        <4>3. QED
          BY <2>1, <3>4, <3>5, <4>1, <4>2, DirFacts
             DEF JdkInv, TypeOK, ReturnedKnowsGraal
      <3>8. QED
        BY <3>6, <3>7
    <2>10. QED
      BY <2>0, <2>9
  <1>6. CASE Crash
    BY <1>6, EndJdkInv DEF Crash
  <1>7. CASE UNCHANGED vars
    BY <1>7 DEF vars, JdkInv, TypeOK, ReturnedKnowsGraal
  <1>8. QED
    BY <1>1, <1>2, <1>3, <1>4, <1>5, <1>6, <1>7 DEF Next

\* Every directory _jdk returns to build, vm or export that has a jre has a
\* jvm.cfg that knows -graal, for every host JDK and every build variant.
THEOREM ReturnedJdkKnowsGraal == Spec => []ReturnedKnowsGraal
  <1>1. JdkInv => ReturnedKnowsGraal
    BY DEF JdkInv
  <1>2. QED
    BY <1>1, InitJdkInv, NextJdkInv, PTL DEF Spec

\* Every state _jdk reaches is well typed: its directory index, copies,
\* jvm.cfg line counts, returned builds and call counter, for every value of
\* the constants.
THEOREM JdkTypeCorrect == Spec => []TypeOK
  <1>1. JdkInv => TypeOK
    BY DEF JdkInv
  <1>2. QED
    BY <1>1, InitJdkInv, NextJdkInv, PTL DEF Spec

=============================================================================

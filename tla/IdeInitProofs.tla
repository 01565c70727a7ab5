----------------------------- MODULE IdeInitProofs -----------------------------
(***************************************************************************)
(* Proofs about `mx ideinit` (module IdeInit), for any number of projects *)
(* and any .checkstyle.exclude files.                                      *)
(***************************************************************************)
EXTENDS IdeInit, SequenceTheorems, TLAPS

USE IdeInitAssumption

\* A project the loop of 342 has passed and that is not native.
Done(q) == q \in Projects \ native /\ q < p

(***************************************************************************)
(* The inductive invariant. The loop goes through the projects in order:   *)
(* every project behind it has its files and a .project that agrees with  *)
(* its .checkstyle; the ones ahead of it have nothing written yet; and the *)
(* current one has .classpath once started, and .checkstyle only after its *)
(* filter loop and only with a checkstyle configuration. A normal return  *)
(* is the end of the loop, past the last project.                          *)
(***************************************************************************)
IdeInv ==
  /\ TypeOK
  /\ step # "done" => p \in Projects /\ outcome = "running"
  /\ step = "done" => outcome # "running"
  /\ outcome = "ok" => p = NProjects + 1
  /\ \A q \in Projects :
        /\ Done(q) => /\ {"classpath", "project", "settings"} \subseteq written[q]
                      /\ builder[q] <=> "checkstyle" \in written[q]
        /\ q > p \/ (q = p /\ step = "start") => written[q] = {} /\ ~builder[q]
  /\ step = "exclude" => /\ written[p] = {"classpath"} /\ ~builder[p]
                         /\ p \in csConfig
                         /\ j \in 1..(Len(exclude[p]) + 1)
                         /\ filters \in Seq(LineKinds) /\ Len(filters) = j - 1
  /\ step = "project" => /\ "classpath" \in written[p] /\ ~builder[p]
                         /\ "checkstyle" \in written[p] <=> p \in csConfig
                         /\ "project" \notin written[p]

-----------------------------------------------------------------------------

\* A .checkstyle.exclude is a sequence of at most MaxLines lines, and every
\* such sequence is one.
LEMMA LinesFacts ==
  /\ \A s \in Lines : s \in Seq(LineKinds) /\ Len(s) \in 0..MaxLines
  /\ \A n \in 0..MaxLines : \A s \in [1..n -> LineKinds] : s \in Lines
  /\ \A s \in Seq(LineKinds) : Len(s) <= MaxLines => s \in Lines
  <1>1. \A s \in Lines : s \in Seq(LineKinds) /\ Len(s) \in 0..MaxLines
    BY DEF Lines
  <1>2. \A n \in 0..MaxLines : \A s \in [1..n -> LineKinds] : s \in Lines
    BY DEF Lines
  <1>3. ASSUME NEW s \in Seq(LineKinds), Len(s) <= MaxLines PROVE s \in Lines
    <2>1. s \in [1..Len(s) -> LineKinds] /\ Len(s) \in 0..MaxLines
      BY <1>3, LenProperties
    <2>2. QED
      BY <2>1, <1>2
  <1>4. QED
    BY <1>1, <1>2, <1>3

LEMMA InitIdeInv == Init => IdeInv
  <1> SUFFICES ASSUME Init PROVE IdeInv
    OBVIOUS
  <1>1. <<>> \in Lines /\ [q \in Projects |-> <<>>] \in [Projects -> Lines]
    <2>1. <<>> \in [1..0 -> LineKinds] /\ 0 \in 0..MaxLines
      OBVIOUS
    <2>2. <<>> \in Lines
      BY <2>1, LinesFacts
    <2>3. QED
      BY <2>2
  <1>2. TypeOK
    BY <1>1 DEF Init, TypeOK, Projects
  <1>3. QED
    BY <1>2 DEF Init, IdeInv, Done, Projects

\* The loop reaches the next project (or its end) with nothing written for
\* the projects ahead, and the one it leaves finished or native.
LEMMA NextProjectIdeInv ==
  ASSUME IdeInv, step \in {"start", "project"}, NextProject,
         UNCHANGED <<native, csConfig, hasExclude, exclude>>,
         j' \in 1..(MaxLines + 1), filters' \in Lines,
         written' \in [Projects -> SUBSET Files], csFilters' \in [Projects -> Lines],
         builder' \in [Projects -> BOOLEAN],
         \A q \in Projects \ {p} : written'[q] = written[q] /\ builder'[q] = builder[q],
         p \in native \/ /\ {"classpath", "project", "settings"} \subseteq written'[p]
                         /\ builder'[p] <=> "checkstyle" \in written'[p]
  PROVE  IdeInv'
  <1>1. p \in Projects /\ outcome = "running"
    BY DEF IdeInv
  <1>2. TypeOK'
    BY <1>1 DEF NextProject, IdeInv, TypeOK, Projects
  <1>3. ASSUME NEW q \in Projects PROVE
          /\ Done(q)' => /\ {"classpath", "project", "settings"} \subseteq written'[q]
                         /\ builder'[q] <=> "checkstyle" \in written'[q]
          /\ q > p' \/ (q = p' /\ step' = "start") => written'[q] = {} /\ ~builder'[q]
    BY <1>1 DEF NextProject, IdeInv, Done, Projects
  <1>4. QED
    BY <1>1, <1>2, <1>3 DEF NextProject, IdeInv, Projects

LEMMA NextIdeInv == IdeInv /\ [Next]_vars => IdeInv'
  <1> SUFFICES ASSUME IdeInv, [Next]_vars PROVE IdeInv'
    OBVIOUS
  <1>0. TypeOK
    BY DEF IdeInv
  <1>1. CASE SkipNative
    BY <1>0, <1>1, NextProjectIdeInv DEF SkipNative, TypeOK
  <1>2. CASE StartProject
    <2>1. step = "start" /\ p \in Projects /\ written[p] = {} /\ ~builder[p]
          /\ outcome = "running"
      BY <1>2 DEF StartProject, IdeInv
    <2>2. CASE p \notin csConfig
      <3>1. /\ written' = [written EXCEPT ![p] = @ \cup {"classpath"}]
            /\ step' = "project"
            /\ UNCHANGED <<native, csConfig, hasExclude, exclude, p, builder, outcome,
                           filters, csFilters>>
            /\ j' = 1
        BY <1>2, <2>2 DEF StartProject, Write
      <3>2. QED
        BY <3>1, <2>1, <2>2, <1>0 DEF IdeInv, TypeOK, Done, Files
    <2>3. CASE p \in csConfig /\ p \notin hasExclude
      <3>1. <<>> \in Lines
        <4>1. <<>> \in [1..0 -> LineKinds] /\ 0 \in 0..MaxLines
          OBVIOUS
        <4>2. QED
          BY <4>1, LinesFacts
      <3>2. /\ written' = [written EXCEPT ![p] = @ \cup {"classpath", "checkstyle"}]
            /\ csFilters' = [csFilters EXCEPT ![p] = <<>>]
            /\ step' = "project"
            /\ UNCHANGED <<native, csConfig, hasExclude, exclude, p, builder, outcome,
                           filters>>
            /\ j' = 1
        BY <1>2, <2>3 DEF StartProject
      <3>3. QED
        BY <3>1, <3>2, <2>1, <2>3, <1>0 DEF IdeInv, TypeOK, Done, Files
    <2>4. CASE p \in csConfig /\ p \in hasExclude
      <3>1. <<>> \in Lines /\ <<>> \in [1..0 -> LineKinds]
        <4>1. <<>> \in [1..0 -> LineKinds] /\ 0 \in 0..MaxLines
          OBVIOUS
        <4>2. QED
          BY <4>1, LinesFacts
      <3>2. Len(exclude[p]) \in 0..MaxLines
        BY <1>0, <2>1, LinesFacts DEF TypeOK
      <3>3. /\ written' = [written EXCEPT ![p] = @ \cup {"classpath"}]
            /\ step' = "exclude" /\ filters' = <<>>
            /\ UNCHANGED <<native, csConfig, hasExclude, exclude, p, builder, outcome,
                           csFilters>>
            /\ j' = 1
        BY <1>2, <2>4 DEF StartProject, Write
      <3>4. <<>> \in Seq(LineKinds) /\ Len(<<>>) = 0
        BY EmptySeq
      <3>5. QED
        BY <3>1, <3>2, <3>3, <3>4, <2>1, <2>4, <1>0 DEF IdeInv, TypeOK, Done, Files
    <2>5. QED
      BY <2>2, <2>3, <2>4
  <1>3. CASE ExcludeLine
    <2>1. /\ step = "exclude" /\ p \in Projects /\ outcome = "running"
          /\ j \in 1..Len(exclude[p])
          /\ filters \in Seq(LineKinds) /\ Len(filters) = j - 1
          /\ exclude[p] \in Seq(LineKinds) /\ Len(exclude[p]) \in 0..MaxLines
      BY <1>3, <1>0, LinesFacts DEF ExcludeLine, IdeInv, TypeOK
    <2>2. exclude[p][j] \in LineKinds
      BY <2>1
    <2>3. CASE exclude[p][j] = "missing"
      BY <1>3, <2>1, <2>3, <1>0 DEF ExcludeLine, IdeInv, TypeOK, Done
    <2>4. CASE exclude[p][j] # "missing"
      <3>1. Append(filters, exclude[p][j]) \in Seq(LineKinds)
            /\ Len(Append(filters, exclude[p][j])) = j
        BY <2>1, <2>2, AppendProperties
      <3>2. Append(filters, exclude[p][j]) \in Lines
        <4>1. j <= MaxLines
          BY <2>1
        <4>2. QED
          BY <3>1, <4>1, LinesFacts
      <3>3. /\ j' = j + 1 /\ filters' = Append(filters, exclude[p][j])
            /\ UNCHANGED <<step, outcome, native, csConfig, hasExclude, exclude, p,
                           written, csFilters, builder>>
        BY <1>3, <2>4 DEF ExcludeLine
      <3>4. QED
        BY <2>1, <3>1, <3>2, <3>3, <1>0 DEF IdeInv, TypeOK, Done
    <2>5. QED
      BY <2>3, <2>4
  <1>4. CASE EndExclude
    <2>1. /\ step = "exclude" /\ p \in Projects /\ written[p] = {"classpath"}
          /\ filters \in Lines /\ p \in csConfig
      BY <1>4 DEF EndExclude, IdeInv, TypeOK
    <2>2. QED
      BY <1>4, <2>1, <1>0 DEF EndExclude, WriteCheckstyle, Write, IdeInv, TypeOK,
         Done, Files
  <1>5. CASE WriteProject
    <2>1. step = "project" /\ p \in Projects
      BY <1>5 DEF WriteProject, IdeInv
    <2>2. /\ written' = [written EXCEPT ![p] = @ \cup {"project", "settings"}]
          /\ builder' = [builder EXCEPT ![p] = p \in csConfig]
          /\ NextProject
          /\ UNCHANGED <<native, csConfig, hasExclude, exclude, j, filters, csFilters>>
      BY <1>5 DEF WriteProject, Write
    <2>3. "classpath" \in written[p] /\ ("checkstyle" \in written[p] <=> p \in csConfig)
      BY <2>1 DEF IdeInv
    <2>4. /\ written' \in [Projects -> SUBSET Files]
          /\ builder' \in [Projects -> BOOLEAN]
          /\ \A q \in Projects \ {p} : written'[q] = written[q] /\ builder'[q] = builder[q]
          /\ {"classpath", "project", "settings"} \subseteq written'[p]
          /\ builder'[p] <=> "checkstyle" \in written'[p]
      <3>1. /\ written' \in [Projects -> SUBSET Files]
            /\ \A q \in Projects \ {p} : written'[q] = written[q]
            /\ written'[p] = written[p] \cup {"project", "settings"}
        BY <2>1, <2>2, <1>0 DEF TypeOK, Files
      <3>2. /\ builder' \in [Projects -> BOOLEAN]
            /\ \A q \in Projects \ {p} : builder'[q] = builder[q]
            /\ builder'[p] = (p \in csConfig)
        BY <2>1, <2>2, <1>0 DEF TypeOK
      <3>3. "checkstyle" \in written'[p] <=> "checkstyle" \in written[p]
        BY <3>1
      <3>4. {"classpath", "project", "settings"} \subseteq written'[p]
        BY <3>1, <2>3
      <3>5. builder'[p] <=> p \in csConfig
        BY <3>2, Zenon
      <3>6. QED
        BY <3>1, <3>2, <3>3, <3>4, <3>5, <2>3, Zenon
    <2>5. QED
      BY <2>1, <2>2, <2>4, <1>0, NextProjectIdeInv DEF TypeOK
  <1>6. CASE UNCHANGED vars
    BY <1>6 DEF vars, IdeInv, TypeOK, Done
  <1>7. QED
    BY <1>1, <1>2, <1>3, <1>4, <1>5, <1>6 DEF Next

\* The loop of 342 visits the projects in order and an assert that fails
\* (412) ends it: when ideinit returns normally, every non-native project
\* has .classpath, .project and .settings, and its .project names the
\* checkstyle builder exactly when a .checkstyle was written for it.
THEOREM EclipseConfigAlwaysComplete == Spec => []EclipseConfigComplete
  <1>1. IdeInv => EclipseConfigComplete
    BY DEF IdeInv, EclipseConfigComplete, Done, Projects
  <1>2. QED
    BY <1>1, InitIdeInv, NextIdeInv, PTL DEF Spec

\* Every state ideinit reaches is well typed: its counters, written files,
\* exclude lists, .checkstyle filters and builders, for every value of the
\* constants.
THEOREM IdeInitTypeCorrect == Spec => []TypeOK
  <1>1. IdeInv => TypeOK
    BY DEF IdeInv
  <1>2. QED
    BY <1>1, InitIdeInv, NextIdeInv, PTL DEF Spec

==============================================================================

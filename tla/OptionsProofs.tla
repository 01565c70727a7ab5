---------------------------- MODULE OptionsProofs ----------------------------
(***************************************************************************)
(* Proofs about one mx invocation (module Options): mx_init, the front     *)
(* end's parse, mx_post_parse_cmd_line and the VM command, for every set   *)
(* of Java versions.                                                       *)
(***************************************************************************)
EXTENDS Options, TLAPS

USE VersionsAssumption

(***************************************************************************)
(* The inductive invariant. A selected build can only be one mx_init       *)
(* registered, which it does only with the VM sources; until the command  *)
(* runs, no VM ran; a version is read only once the command line parsed,  *)
(* and the invocation is ready only for a supported one, with the         *)
(* selection already in _vmbuild.                                          *)
(***************************************************************************)
OptInv ==
  /\ TypeOK
  /\ phase = "start" => options = {} /\ opt = None
  /\ options # {} => sources
  /\ opt # None => opt \in options
  /\ phase \in {"start", "init", "parsed"} => outcome = None /\ version = <<>>
  /\ phase = "ready" => /\ Supported(version) /\ outcome = None
                        /\ (sources /\ opt # None => vmbuild = opt)
  /\ phase # "done" => vmRun = None
  /\ SelectionHonoured

LEMMA InitOptInv == Init => OptInv
  BY DEF Init, OptInv, TypeOK, Selections, Outcomes, AllBuilds, CmdValues, None, SelectionHonoured

LEMMA NextOptInv == OptInv /\ [Next]_vars => OptInv'
  <1> SUFFICES ASSUME OptInv, [Next]_vars PROVE OptInv'
    OBVIOUS
  <1>1. CASE MxInit
    BY <1>1 DEF MxInit, OptInv, TypeOK, BaseCommands, AllBuilds,
              SelectionHonoured
  <1>2. ASSUME NEW s \in Selections, NEW c \in Commands, Parse(s, c)
        PROVE  OptInv'
    <2>1. phase = "init" /\ vmRun = None /\ version = <<>> /\ outcome = None
      BY <1>2 DEF Parse, OptInv
    <2>2. CASE (s = None \/ s \in options) /\ c \in table
      <3>1. phase' = "parsed" /\ opt' = s /\ cmd' = c /\ outcome' = outcome
        BY <1>2, <2>2 DEF Parse
      <3>2. QED
        BY <1>2, <2>1, <3>1 DEF Parse, OptInv, TypeOK, Selections, Commands,
           CmdValues, SelectionHonoured
    <2>3. CASE ~((s = None \/ s \in options) /\ c \in table)
      <3>1. phase' = "done" /\ outcome' = "usage" /\ opt' = opt /\ cmd' = cmd
        BY <1>2, <2>3 DEF Parse
      <3>2. QED
        BY <1>2, <2>1, <3>1 DEF Parse, OptInv, TypeOK, Outcomes,
           SelectionHonoured
    <2>4. QED
      BY <2>2, <2>3
  <1>3. ASSUME NEW v \in Versions, PostParse(v)
        PROVE  OptInv'
    <2>1. phase = "parsed" /\ vmRun = None /\ outcome = None /\ version' = v
      BY <1>3 DEF PostParse, OptInv
    <2>2. v \in Seq(Nat)
      BY VersionsAssumption
    <2>3. CASE Len(v) < 2 \/ v[1] # 1
      <3>1. phase' = "done" /\ outcome' = "assertion" /\ vmbuild' = vmbuild
        BY <1>3, <2>3 DEF PostParse
      <3>2. ~Supported(v)
        BY <2>3 DEF Supported
      <3>3. QED
        BY <1>3, <2>1, <3>1, <3>2 DEF PostParse, OptInv, TypeOK, Outcomes,
           SelectionHonoured
    <2>4. CASE ~(Len(v) < 2 \/ v[1] # 1) /\ ~(v[2] >= 7)
      <3>1. phase' = "done" /\ outcome' = "abort" /\ vmbuild' = vmbuild
        BY <1>3, <2>4 DEF PostParse
      <3>2. ~Supported(v)
        BY <2>4 DEF Supported
      <3>3. QED
        BY <1>3, <2>1, <3>1, <3>2 DEF PostParse, OptInv, TypeOK, Outcomes,
           SelectionHonoured
    <2>5. CASE ~(Len(v) < 2 \/ v[1] # 1) /\ v[2] >= 7
      <3>1. phase' = "ready" /\ outcome' = outcome /\ vmbuild' = SelectBuild
        BY <1>3, <2>5 DEF PostParse
      <3>2. Supported(v)
        BY <2>2, <2>5 DEF Supported
      <3>3. opt # None => opt \in AllBuilds
        BY DEF OptInv, TypeOK, Selections
      <3>4. vmbuild' \in AllBuilds /\ (sources /\ opt # None => vmbuild' = opt)
        BY <3>1, <3>3 DEF SelectBuild, OptInv, TypeOK
      <3>5. TypeOK'
        BY <1>3, <3>1, <3>4 DEF PostParse, OptInv, TypeOK
      <3>6. SelectionHonoured'
        BY <1>3, <2>1, <3>1, <3>2 DEF PostParse, None,
           SelectionHonoured
      <3>7. QED
        BY <1>3, <2>1, <3>1, <3>2, <3>4, <3>5, <3>6 DEF PostParse, OptInv
    <2>6. QED
      BY <2>3, <2>4, <2>5
  <1>4. CASE RunCommand
    <2>1. phase = "ready" /\ Supported(version) /\ vmRun = None
      BY <1>4 DEF RunCommand, OptInv
    <2>2. opt # None => sources /\ vmbuild = opt
      BY <2>1 DEF OptInv
    <2>3. QED
      BY <1>4, <2>1, <2>2 DEF RunCommand, OptInv, TypeOK, Outcomes,
         AllBuilds, SelectionHonoured
  <1>5. CASE UNCHANGED vars
    BY <1>5 DEF vars, OptInv, TypeOK, Supported,
       SelectionHonoured
  <1>6. QED
    BY <1>1, <1>2, <1>3, <1>4, <1>5 DEF Next

\* The VM that `mx --<build> vm` or `mx --<build> unittest` starts is the
\* build selected on the command line, for every set of Java versions:
\* mx_init registers the options only with the VM sources, and
\* mx_post_parse_cmd_line stores the selection into the global _vmbuild
\* that vm() reads (329).
THEOREM SelectionHonouredAlways == Spec => []SelectionHonoured
  <1>1. OptInv => SelectionHonoured
    BY DEF OptInv
  <1>2. QED
    BY <1>1, InitOptInv, NextOptInv, PTL DEF Spec

\* Every state the option parsing reaches is well typed: its phase, options,
\* command table, VM build, version and outcome, for every value of the
\* constants.
THEOREM OptionsTypeCorrect == Spec => []TypeOK
  <1>1. OptInv => TypeOK
    BY DEF OptInv
  <1>2. QED
    BY <1>1, InitOptInv, NextOptInv, PTL DEF Spec

=============================================================================

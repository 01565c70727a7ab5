--------------------------- MODULE DebugShellProofs ---------------------------
(***************************************************************************)
(* Proofs about _runInDebugShell (module DebugShell), for any output of   *)
(* the command, whether or not it asks questions, is answered, or dies.   *)
(***************************************************************************)
EXTENDS DebugShell, SequenceTheorems, TLAPS

LEMMA ConstFacts ==
  /\ Find \in BOOLEAN /\ Respond \in BOOLEAN /\ Prompts \in BOOLEAN
  /\ PromptEndsLine \in BOOLEAN /\ ShellDies \in BOOLEAN /\ MaxLines \in Nat
  BY ShellAssumption

USE ConstFacts

\* What the loop writes after any line is a sequence of stdin lines.
LEMMA WritesType == \A l \in OutLines : Writes(l) \in Seq(InLines)
  <1> TAKE l \in OutLines
  <1>1. /\ <<"cmd">> \in Seq(InLines) /\ <<"answer">> \in Seq(InLines)
        /\ <<"exit">> \in Seq(InLines) /\ <<>> \in Seq(InLines)
    BY EmptySeq DEF InLines
  <1>2. QED
    BY <1>1, ConcatProperties DEF Writes

\* The line l is in the stdout pipe, not read yet.
Pending(l) == \E i \in 1..Len(out) : out[i] = l

(***************************************************************************)
(* The inductive invariant. ret is only set by a matching line the command *)
(* printed; a matching line printed and not yet counted is still in the   *)
(* pipe; ENDTOKEN is the last line cmd.exe writes (the `& echo ENDTOKEN`   *)
(* of 254 runs after the command), so when the loop reads it the pipe held *)
(* nothing after it, and the command printed nothing more.                *)
(***************************************************************************)
ShellInv ==
  /\ TypeOK
  /\ ret => Find /\ marked
  /\ Pending("marker") => marked
  /\ reader = "reading" /\ Find /\ marked => ret \/ Pending("marker")
  /\ \A i \in 1..Len(out) :
        out[i] = "END" => i = Len(out) /\ shell \in {"waitExit", "exited"}
  /\ reader = "done" => out = <<>> /\ shell \in {"waitExit", "exited"}
  /\ ResultIsMarker

-----------------------------------------------------------------------------

LEMMA InitShellInv == Init => ShellInv
  <1> SUFFICES ASSUME Init PROVE ShellInv
    OBVIOUS
  <1>1. dies \in BOOLEAN
    BY DEF Init
  <1>2. out \in Seq(OutLines) /\ inp \in Seq(InLines)
    BY EmptySeq DEF Init
  <1>3. printed \in 0..MaxLines
    BY DEF Init
  <1>4. TypeOK
    BY <1>1, <1>2, <1>3 DEF Init, TypeOK
  <1>5. QED
    BY <1>4 DEF Init, ShellInv, Pending, ResultIsMarker

\* cmd.exe writes a line other than ENDTOKEN while it has not echoed
\* ENDTOKEN: the pipe keeps ENDTOKEN out, and a matching line printed is
\* pending.
LEMMA WriteLine ==
  ASSUME ShellInv, NEW l \in OutLines \ {"END"},
         shell \in {"setenv", "waitCmd", "running"},
         out' = Append(out, l), marked' = (marked \/ l = "marker"),
         UNCHANGED <<reader, ret, dies>>, TypeOK'
  PROVE  ShellInv'
  <1>1. out \in Seq(OutLines) /\ reader # "done"
    BY DEF ShellInv, TypeOK
  <1>2. \A i \in 1..Len(out) : out[i] # "END"
    BY DEF ShellInv
  <1>3. /\ Len(out') = Len(out) + 1
        /\ \A i \in 1..Len(out) : out'[i] = out[i]
        /\ out'[Len(out) + 1] = l
    BY <1>1, AppendProperties
  <1>4. \A i \in 1..Len(out') : out'[i] # "END"
    BY <1>2, <1>3
  <1>5. Pending("marker") => Pending("marker")'
    BY <1>3 DEF Pending
  <1>6. l = "marker" => Pending("marker")'
    BY <1>3 DEF Pending
  <1>7. Pending("marker")' => Pending("marker") \/ l = "marker"
    BY <1>3 DEF Pending
  <1>8. QED
    BY <1>1, <1>4, <1>5, <1>6, <1>7 DEF ShellInv, ResultIsMarker

\* A step of cmd.exe that writes nothing and does not start the command
\* again: nothing it can print afterwards can follow ENDTOKEN.
LEMMA QuietStep ==
  ASSUME ShellInv, TypeOK', UNCHANGED <<out, reader, ret, marked, dies>>,
         shell' \in {"waitExit", "exited"} \/ shell \notin {"waitExit", "exited"}
  PROVE  ShellInv'
  BY DEF ShellInv, Pending, ResultIsMarker

LEMMA NextShellInv == ShellInv /\ [Next]_vars => ShellInv'
  <1> SUFFICES ASSUME ShellInv, [Next]_vars PROVE ShellInv'
    OBVIOUS
  <1>0. TypeOK
    BY DEF ShellInv
  <1>1. CASE SetEnv
    <2>1. TypeOK'
      BY <1>0, <1>1 DEF SetEnv, TypeOK, OutLines
    <2>2. /\ shell \in {"setenv", "waitCmd", "running"} /\ out' = Append(out, "START")
          /\ marked' = (marked \/ "START" = "marker") /\ UNCHANGED <<reader, ret, dies>>
      BY <1>0, <1>1 DEF SetEnv, TypeOK
    <2>3. "START" \in OutLines \ {"END"}
      BY DEF OutLines
    <2>4. QED
      BY <2>1, <2>2, <2>3, WriteLine
  <1>2. CASE TakeCmd
    <2>1. TypeOK'
      BY <1>0, <1>2, HeadTailProperties DEF TakeCmd, TypeOK, OutLines
    <2>2. /\ shell \in {"setenv", "waitCmd", "running"} /\ out' = Append(out, "echo")
          /\ marked' = (marked \/ "echo" = "marker") /\ UNCHANGED <<reader, ret, dies>>
      BY <1>0, <1>2 DEF TakeCmd, TypeOK
    <2>3. "echo" \in OutLines \ {"END"}
      BY DEF OutLines
    <2>4. QED
      BY <2>1, <2>2, <2>3, WriteLine
  <1>3. ASSUME NEW l \in {"marker", "text"}, Emit(l) PROVE ShellInv'
    <2>1. TypeOK'
      BY <1>0, <1>3 DEF Emit, TypeOK, OutLines
    <2>2. /\ shell \in {"setenv", "waitCmd", "running"} /\ out' = Append(out, l)
          /\ marked' = (marked \/ l = "marker") /\ UNCHANGED <<reader, ret, dies>>
      BY <1>3 DEF Emit
    <2>3. l \in OutLines \ {"END"}
      BY DEF OutLines
    <2>4. QED
      BY <2>1, <2>2, <2>3, WriteLine
  <1>4. CASE Ask
    <2>1. TypeOK'
      BY <1>0, <1>4 DEF Ask, TypeOK, OutLines
    <2> DEFINE q == IF PromptEndsLine THEN "prompt" ELSE "partial"
    <2>2. /\ shell \in {"setenv", "waitCmd", "running"} /\ out' = Append(out, q)
          /\ marked' = (marked \/ q = "marker") /\ UNCHANGED <<reader, ret, dies>>
      BY <1>0, <1>4 DEF Ask, TypeOK
    <2>3. q \in OutLines \ {"END"}
      BY DEF OutLines
    <2>4. QED
      BY <2>1, <2>2, <2>3, WriteLine
  <1>5. CASE Answered
    <2>1. TypeOK'
      BY <1>0, <1>5, HeadTailProperties DEF Answered, TypeOK
    <2>2. QED
      BY <1>5, <2>1, QuietStep DEF Answered
  <1>6. CASE CmdDone
    <2>1. TypeOK'
      BY <1>0, <1>6 DEF CmdDone, TypeOK, OutLines
    <2>2. \A i \in 1..Len(out) : out[i] # "END"
      BY <1>6 DEF CmdDone, ShellInv
    <2>3. /\ Len(out') = Len(out) + 1
          /\ \A i \in 1..Len(out) : out'[i] = out[i]
          /\ out'[Len(out) + 1] = "END"
      BY <1>0, <1>6, AppendProperties DEF CmdDone, TypeOK, OutLines
    <2>4. Pending("marker") <=> Pending("marker")'
      BY <2>3 DEF Pending
    <2>5. reader # "done"
      BY <1>6 DEF CmdDone, ShellInv
    <2>6. QED
      BY <1>6, <2>1, <2>2, <2>3, <2>4, <2>5 DEF CmdDone, ShellInv, ResultIsMarker
  <1>7. CASE TakeExit
    <2>1. TypeOK'
      BY <1>0, <1>7, HeadTailProperties DEF TakeExit, TypeOK
    <2>2. QED
      BY <1>7, <2>1, QuietStep DEF TakeExit
  <1>8. CASE Die
    BY <1>0, <1>8, QuietStep DEF Die, TypeOK
  <1>9. CASE ReadLine
    <2> DEFINE line == Head(out)
    <2>1. out # <<>> /\ reader = "reading" /\ out \in Seq(OutLines)
      BY <1>0, <1>9 DEF ReadLine, TypeOK
    <2>2. /\ out' = Tail(out) /\ Len(out') = Len(out) - 1
          /\ Len(out) \in Nat \ {0}
          /\ \A i \in 1..Len(out') : out'[i] = out[i + 1]
          /\ line = out[1] /\ line \in OutLines /\ out' \in Seq(OutLines)
      BY <1>9, <2>1, HeadTailProperties, EmptySeq DEF ReadLine
    <2>3. /\ ret' = (ret \/ (Find /\ line = "marker"))
          /\ reader' = IF line = "END" THEN "done" ELSE "reading"
          /\ UNCHANGED <<shell, printed, marked, dies>>
      BY <1>9 DEF ReadLine
    <2>4. TypeOK'
      <3>1. inp' = inp \o Writes(line)
        BY <1>9 DEF ReadLine
      <3>2. inp \o Writes(line) \in Seq(InLines)
        BY <1>0, <2>2, WritesType, ConcatProperties DEF TypeOK
      <3>3. QED
        BY <1>0, <2>2, <2>3, <3>1, <3>2 DEF TypeOK
    \* ENDTOKEN is the last line: read, it leaves the pipe empty.
    <2>5. line = "END" => Len(out) = 1 /\ out' = <<>> /\ shell \in {"waitExit", "exited"}
      <3>0. \A i \in 1..Len(out) :
              out[i] = "END" => i = Len(out) /\ shell \in {"waitExit", "exited"}
        BY Zenon DEF ShellInv
      <3>a. 1 \in 1..Len(out)
        BY <2>2
      <3>1. out[1] = "END" => 1 = Len(out) /\ shell \in {"waitExit", "exited"}
        BY <3>a, <3>0, Zenon
      <3>2. Len(out) = 1 => out' = <<>>
        BY <2>2, EmptySeq
      <3>3. QED
        BY <2>2, <3>1, <3>2
    <2>6. Pending("marker")' => Pending("marker")
      <3> SUFFICES ASSUME NEW i \in 1..Len(out'), out'[i] = "marker"
                   PROVE  Pending("marker")
        BY DEF Pending
      <3>1. i + 1 \in 1..Len(out) /\ out[i + 1] = "marker"
        BY <2>2
      <3>2. QED
        BY <3>1 DEF Pending
    <2>7. line = "marker" => marked
      <3>1. Pending("marker") => marked
        BY Zenon DEF ShellInv
      <3>2. line = "marker" => Pending("marker")
        BY <2>2 DEF Pending
      <3>3. QED
        BY <3>1, <3>2
    <2>8. Find /\ marked /\ line # "END" => ret' \/ Pending("marker")'
      <3> SUFFICES ASSUME Find, marked, line # "END", ~ret' PROVE Pending("marker")'
        OBVIOUS
      <3>1. ~ret /\ line # "marker"
        BY <2>3
      <3>2. PICK i \in 1..Len(out) : out[i] = "marker"
        BY <2>1, <3>1 DEF ShellInv, Pending
      <3>3. i # 1
        BY <2>2, <3>1, <3>2
      <3>4. i - 1 \in 1..Len(out') /\ out'[i - 1] = "marker"
        BY <2>2, <3>2, <3>3
      <3>5. QED
        BY <3>4 DEF Pending
    <2>9. line = "END" /\ Find /\ marked => ret
      <3> SUFFICES ASSUME line = "END", Find, marked, ~ret PROVE FALSE
        OBVIOUS
      <3>1. PICK i \in 1..Len(out) : out[i] = "marker"
        BY <2>1 DEF ShellInv, Pending
      <3>2. QED
        BY <2>2, <2>5, <3>1
    <2>10. ASSUME NEW i \in 1..Len(out'), out'[i] = "END"
           PROVE  i = Len(out') /\ shell' \in {"waitExit", "exited"}
      <3>1. i + 1 \in 1..Len(out) /\ out[i + 1] = "END"
        BY <2>2, <2>10
      <3>2. i + 1 = Len(out) /\ shell \in {"waitExit", "exited"}
        BY <3>1 DEF ShellInv
      <3>3. i = Len(out')
        <4>1. Len(out') = Len(out) - 1 /\ Len(out) \in Nat
          BY <2>2
        <4>2. i + 1 = Len(out) /\ i \in Int
          BY <3>2
        <4>3. QED
          BY <4>1, <4>2
      <3>4. QED
        BY <2>3, <3>2, <3>3
    <2>11. ret' => Find /\ marked'
      BY <2>3, <2>7 DEF ShellInv
    <2>12. reader' = "done" => out' = <<>> /\ shell' \in {"waitExit", "exited"}
      BY <2>3, <2>5
    <2>13. reader' = "reading" /\ Find /\ marked' => ret' \/ Pending("marker")'
      BY <2>3, <2>8
    <2>14. reader' = "done" => (ret' <=> (Find /\ marked'))
      BY <2>3, <2>9, <2>11
    <2>15. Pending("marker")' => marked'
      BY <2>3, <2>6 DEF ShellInv
    <2>16. \A i \in 1..Len(out') :
             out'[i] = "END" => i = Len(out') /\ shell' \in {"waitExit", "exited"}
      BY <2>10
    <2>17. ResultIsMarker'
      BY <2>14, Zenon DEF ResultIsMarker
    <2>18. QED
      BY <2>4, <2>16, <2>11, <2>12, <2>13, <2>15, <2>17, Zenon DEF ShellInv
  <1>13. CASE WriteRaises
    <2>1. /\ out # <<>> /\ out \in Seq(OutLines)
          /\ out' = Tail(out) /\ Len(out') = Len(out) - 1
          /\ Len(out) \in Nat \ {0}
          /\ \A i \in 1..Len(out') : out'[i] = out[i + 1]
          /\ out' \in Seq(OutLines)
      BY <1>0, <1>13, HeadTailProperties, EmptySeq DEF WriteRaises, TypeOK
    <2>2. TypeOK'
      BY <1>0, <1>13, <2>1 DEF WriteRaises, TypeOK
    <2>3. Pending("marker")' => marked'
      <3> SUFFICES ASSUME NEW i \in 1..Len(out'), out'[i] = "marker"
                   PROVE  marked'
        BY DEF Pending
      <3>1. i + 1 \in 1..Len(out) /\ out[i + 1] = "marker"
        BY <2>1
      <3>2. Pending("marker")
        BY <3>1 DEF Pending
      <3>3. QED
        BY <1>13, <3>2 DEF WriteRaises, ShellInv
    <2>4. ASSUME NEW i \in 1..Len(out'), out'[i] = "END"
          PROVE  i = Len(out') /\ shell' \in {"waitExit", "exited"}
      <3>1. i + 1 \in 1..Len(out) /\ out[i + 1] = "END"
        BY <2>1, <2>4
      <3>2. i + 1 = Len(out) /\ shell \in {"waitExit", "exited"}
        BY <3>1 DEF ShellInv
      <3>3. i = Len(out')
        <4>1. Len(out') = Len(out) - 1 /\ Len(out) \in Nat
          BY <2>1
        <4>2. i + 1 = Len(out) /\ i \in Int
          BY <3>2
        <4>3. QED
          BY <4>1, <4>2
      <3>4. shell' = shell
        BY <1>13 DEF WriteRaises
      <3>5. QED
        BY <3>2, <3>3, <3>4
    <2>5. QED
      BY <1>13, <2>2, <2>3, <2>4 DEF WriteRaises, ShellInv, ResultIsMarker
  <1>10. CASE ReadEOF
    BY <1>10 DEF ReadEOF, ShellInv, TypeOK, Pending, ResultIsMarker
  <1>11. CASE UNCHANGED vars
    BY <1>11 DEF vars, ShellInv, TypeOK, Pending, ResultIsMarker
  <1>12. QED
    BY <1>1, <1>2, <1>3, <1>4, <1>5, <1>6, <1>7, <1>8, <1>9, <1>10, <1>11, <1>13
       DEF Next, ShellStep, ReaderStep

\* ret, which build tests at 309 and 314, says once the loop has returned
\* whether the command printed a line matching findInOutput: every such
\* line comes before ENDTOKEN in the pipe, so the loop has seen it.
THEOREM ResultAlwaysMarker == Spec => []ResultIsMarker
  <1>1. ShellInv => ResultIsMarker
    BY DEF ShellInv
  <1>2. QED
    BY <1>1, InitShellInv, NextShellInv, PTL DEF Spec

\* Every state _runInDebugShell reaches is well typed: its pipes, shell and
\* reader states and its count of output lines, for every value of the
\* constants.
THEOREM DebugShellTypeCorrect == Spec => []TypeOK
  <1>1. ShellInv => TypeOK
    BY DEF ShellInv
  <1>2. QED
    BY <1>1, InitShellInv, NextShellInv, PTL DEF Spec

==============================================================================

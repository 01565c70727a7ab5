------------------------------ MODULE DebugShell ------------------------------
(***************************************************************************)
(* _runInDebugShell (src/mx/commands.py 236-268): build runs each Windows  *)
(* build step in a cmd.exe started with /K "SetEnv.cmd" & echo STARTTOKEN  *)
(* (240-241). Two processes talk through two pipes: the loop of 247-264    *)
(* reads the shell's output line by line, sends the command once it reads  *)
(* STARTTOKEN, answers prompts that match respondTo, records a match of    *)
(* findInOutput, and stops at ENDTOKEN; then it writes 'exit' (265).       *)
(* cmd.exe echoes every command it reads from a pipe, runs it, and may die *)
(* on the way (a batch file's `exit`, a kill); its output then ends, and a *)
(* later write to its stdin raises IOError.                               *)
(* A line is modelled by what the loop tells apart.                        *)
(***************************************************************************)
EXTENDS Naturals, Sequences

CONSTANTS
    Find,        \* findInOutput was given (309, 314; not at 305)
    Respond,     \* respondTo has a pattern matching the command's prompt
    Prompts,     \* the command stops to ask a question on stdin
    PromptEndsLine, \* the command's question ends with a newline
    ShellDies,   \* cmd.exe may exit before it echoes ENDTOKEN
    MaxLines     \* bound on the lines of output the command prints

ASSUME ShellAssumption ==
    /\ {Find, Respond, Prompts, PromptEndsLine, ShellDies} \subseteq BOOLEAN
    /\ MaxLines \in Nat

\* Output lines: the two tokens; the shell's echo of the command it read,
\* which contains the text of ENDTOKEN (254); a line matching findInOutput;
\* a question, ended by a newline or not; any other text.
OutLines == {"START", "END", "echo", "marker", "prompt", "partial", "text"}
IsQuestion(l) == l \in {"prompt", "partial"}
InLines == {"cmd", "answer", "exit"}

VARIABLES
    out,      \* the stdout pipe of cmd.exe, oldest line first
    inp,      \* its stdin pipe
    shell,    \* where cmd.exe is
    reader,   \* where the loop of _runInDebugShell is
    ret,      \* the local ret (246)
    printed,  \* lines (questions included) the command printed so far
    marked,   \* (history) the command printed a line matching findInOutput
    dies      \* (environment) this cmd.exe exits before it echoes ENDTOKEN

vars == <<out, inp, shell, reader, ret, printed, marked, dies>>

TypeOK ==
    /\ out \in Seq(OutLines)
    /\ inp \in Seq(InLines)
    /\ shell \in {"setenv", "waitCmd", "running", "asking", "waitExit", "exited"}
    /\ reader \in {"reading", "eof", "done", "raised"}
    /\ ret \in BOOLEAN
    /\ printed \in 0..MaxLines
    /\ marked \in BOOLEAN
    /\ dies \in BOOLEAN

\* subprocess.Popen (240-241): both pipes empty, ret = False (246); the
\* shell started may be one that dies.
Init ==
    /\ out = <<>>
    /\ inp = <<>>
    /\ shell = "setenv"
    /\ reader = "reading"
    /\ ret = FALSE
    /\ printed = 0
    /\ marked = FALSE
    /\ dies \in IF ShellDies THEN BOOLEAN ELSE {FALSE}

-----------------------------------------------------------------------------
(* cmd.exe.                                                                *)

\* SetEnv.cmd, then `& echo STARTTOKEN` (240).
SetEnv ==
    /\ shell = "setenv"
    /\ out' = Append(out, "START")
    /\ shell' = "waitCmd"
    /\ UNCHANGED <<inp, reader, ret, printed, marked, dies>>

\* The shell reads `cd /D dir & cmd & echo ENDTOKEN` (254) and echoes it.
TakeCmd ==
    /\ shell = "waitCmd"
    /\ inp # <<>> /\ Head(inp) = "cmd"
    /\ inp' = Tail(inp)
    /\ out' = Append(out, "echo")
    /\ shell' = "running"
    /\ UNCHANGED <<reader, ret, printed, marked, dies>>

\* The command prints a line.
Emit(l) ==
    /\ shell = "running"
    /\ printed < MaxLines
    /\ out' = Append(out, l)
    /\ printed' = printed + 1
    /\ marked' = (marked \/ l = "marker")
    /\ UNCHANGED <<inp, shell, reader, ret, dies>>

\* The command asks a question and waits for a line on stdin; a question
\* without a newline stays unread in the pipe (Readable).
Ask ==
    /\ shell = "running"
    /\ Prompts
    /\ printed < MaxLines
    /\ out' = Append(out, IF PromptEndsLine THEN "prompt" ELSE "partial")
    /\ printed' = printed + 1
    /\ shell' = "asking"
    /\ UNCHANGED <<inp, reader, ret, marked, dies>>

Answered ==
    /\ shell = "asking"
    /\ inp # <<>> /\ Head(inp) = "answer"
    /\ inp' = Tail(inp)
    /\ shell' = "running"
    /\ UNCHANGED <<out, reader, ret, printed, marked, dies>>

\* The command ends, successfully or not: `&` runs `echo ENDTOKEN` anyway.
CmdDone ==
    /\ shell = "running"
    /\ out' = Append(out, "END")
    /\ shell' = "waitExit"
    /\ UNCHANGED <<inp, reader, ret, printed, marked, dies>>

TakeExit ==
    /\ shell = "waitExit"
    /\ inp # <<>> /\ Head(inp) = "exit"
    /\ inp' = Tail(inp)
    /\ shell' = "exited"
    /\ UNCHANGED <<out, reader, ret, printed, marked, dies>>

\* cmd.exe ends early; what it wrote stays in the pipe, then EOF.
Die ==
    /\ dies
    /\ shell \notin {"waitExit", "exited"}
    /\ shell' = "exited"
    /\ UNCHANGED <<out, inp, reader, ret, printed, marked, dies>>

-----------------------------------------------------------------------------
(* The loop of _runInDebugShell.                                           *)

\* What one iteration of 247-264 writes to stdin after the line l: the
\* command after STARTTOKEN (253-254), an answer after a line respondTo
\* matches (255-258), 'exit' after ENDTOKEN (263-265).
Writes(l) ==
    (IF l = "START" THEN <<"cmd">> ELSE <<>>)
    \o (IF IsQuestion(l) /\ Respond THEN <<"answer">> ELSE <<>>)
    \o (IF l = "END" THEN <<"exit">> ELSE <<>>)

\* readline() (248) returns a line once its newline is in the pipe, and the
\* text without one only at EOF.
Readable(l) == l # "partial" \/ shell = "exited"

\* mutant: the loop stops at any line containing the text of ENDTOKEN.
ReadLineContains ==
    LET line == Head(out)
    IN  /\ reader = "reading"
        /\ out # <<>> /\ Readable(line)
        /\ shell # "exited" \/ Writes(line) = <<>>
        /\ out' = Tail(out)
        /\ inp' = inp \o Writes(line)
                      \o (IF line = "echo" THEN <<"exit">> ELSE <<>>)
        /\ ret' = (ret \/ (Find /\ line = "marker"))
        /\ reader' = IF line \in {"END", "echo"} THEN "done" ELSE "reading"
        /\ UNCHANGED <<shell, printed, marked, dies>>

\* mutant: the respondTo patterns are never tried (255-258 left out).
ReadLineNoAnswer ==
    LET line == Head(out)
        w    == (IF line = "START" THEN <<"cmd">> ELSE <<>>)
                \o (IF line = "END" THEN <<"exit">> ELSE <<>>)
    IN  /\ reader = "reading"
        /\ out # <<>> /\ Readable(line)
        /\ shell # "exited" \/ w = <<>>
        /\ out' = Tail(out)
        /\ inp' = inp \o w
        /\ ret' = (ret \/ (Find /\ line = "marker"))
        /\ reader' = IF line = "END" THEN "done" ELSE "reading"
        /\ UNCHANGED <<shell, printed, marked, dies>>

\* mutant: `cd /D dir` and the command are written as two lines.
ReadLineSplitCmd ==
    LET line == Head(out)
    IN  /\ reader = "reading"
        /\ out # <<>> /\ Readable(line)
        /\ shell # "exited" \/ Writes(line) = <<>>
        /\ out' = Tail(out)
        /\ inp' = inp \o (IF line = "START" THEN <<"cd">> ELSE <<>>) \o Writes(line)
        /\ ret' = (ret \/ (Find /\ line = "marker"))
        /\ reader' = IF line = "END" THEN "done" ELSE "reading"
        /\ UNCHANGED <<shell, printed, marked, dies>>

\* One iteration of 247-264 on a line, with what it writes going to a live
\* cmd.exe: ret is set when findInOutput matches (259-262); at ENDTOKEN the
\* loop breaks (263) after 'exit' is written (265).
ReadLine ==
    LET line == Head(out)
    IN  /\ reader = "reading"
        /\ out # <<>> /\ Readable(line)
        /\ shell # "exited" \/ Writes(line) = <<>>
        /\ out' = Tail(out)
        /\ inp' = inp \o Writes(line)
        /\ ret' = (ret \/ (Find /\ line = "marker"))
        /\ reader' = IF line = "END" THEN "done" ELSE "reading"
        /\ UNCHANGED <<shell, printed, marked, dies>>

\* The line asks for a write (254, 258) to the stdin of a cmd.exe that has
\* exited: the unbuffered pipe write raises IOError, which ends the call.
WriteRaises ==
    LET line == Head(out)
    IN  /\ reader = "reading"
        /\ out # <<>> /\ Readable(line)
        /\ shell = "exited" /\ Writes(line) # <<>>
        /\ out' = Tail(out)
        /\ reader' = "raised"
        /\ UNCHANGED <<inp, shell, ret, printed, marked, dies>>

\* readline() at EOF returns '' (248): no test of the loop matches it, and
\* every later call returns '' again, so the loop never leaves.
ReadEOF ==
    /\ reader = "reading"
    /\ out = <<>>
    /\ shell = "exited"
    /\ reader' = "eof"
    /\ UNCHANGED <<out, inp, shell, ret, printed, marked, dies>>

ShellStep ==
    \/ SetEnv \/ TakeCmd \/ \E l \in {"marker", "text"} : Emit(l)
    \/ Ask \/ Answered \/ CmdDone \/ TakeExit
ReaderStep == ReadLine \/ WriteRaises \/ ReadEOF

Next == ShellStep \/ Die \/ ReaderStep

\* Both are processes the OS schedules; neither is ever starved. The shell
\* is not obliged to die.
Fairness == WF_vars(ShellStep) /\ WF_vars(ReaderStep)

Spec == Init /\ [][Next]_vars /\ Fairness

-----------------------------------------------------------------------------
(* Properties.                                                             *)

\* The result build tests at 309 and 314: once the loop has returned, ret
\* says whether the command printed a line matching findInOutput.
ResultIsMarker ==
    reader = "done" => (ret <=> (Find /\ marked))

\* The call has returned, normally or with the IOError of a write.
Returned == reader \in {"done", "raised"}

\* The caller is blocked in _runInDebugShell only while the shell runs:
\* the call always returns or raises.
ShellReturns ==
    <>Returned

\* With a cmd.exe that lives until it is told to exit, and respondTo
\* answering every prompt, the call returns.
ReturnsWhileShellLives ==
    ~dies => <>Returned

=============================================================================

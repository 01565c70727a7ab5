----------------------------- MODULE DaCapoProofs -----------------------------
(***************************************************************************)
(* Proofs about the argument parse of dacapo (module DaCapo), for every    *)
(* set of benchmarks, levels and warm-up counts and every command line.    *)
(***************************************************************************)
EXTENDS DaCapo, SequenceTheorems, WellFoundedInduction, TLAPS

\* The arguments the loop of 156 has deleted so far, and their number.
K == Len(cmdLine) - Len(args)
Pre(n) == SubSeq(cmdLine, 1, n)

\* No argument before position n is an option.
NoOptBefore(n) == \A i \in 1..n : ~IsOpt(cmdLine[i])

\* numTests as the reference reads it off a benchmark part p.
Tally(p) == [b \in Named(p) |-> CountFor(p, LastMention(p, b))]

\* The benchmarks and counts of a sanity level (150-153).
LevelTests(s) == [b \in {c \in Benchmarks : Warmup[c][s[1]] > 0} |-> Warmup[b][s[1]]]

\* numTests after the parse of s and before the default of 171.
Raw(s) == IF StartsWithLevel(s) THEN LevelTests(s) ELSE Tally(Selection(s))

(***************************************************************************)
(* The inductive invariant. While the loop of 156 runs, args is what is    *)
(* left of the command line, the deleted prefix holds no option, is well   *)
(* formed, and numTests is what the reference reads off it; when the loop  *)
(* ends there, that prefix is the whole benchmark part. An exception of    *)
(* the parse leaves a benchmark part that is not well formed.             *)
(***************************************************************************)
LoopInv ==
  /\ ~StartsWithLevel(cmdLine)
  /\ Len(args) <= Len(cmdLine)
  /\ \A i \in 1..Len(args) : args[i] = cmdLine[K + i]
  /\ NoOptBefore(K)
  /\ WellFormed(Pre(K))
  /\ numTests = Tally(Pre(K))

\* What the runs of 181-184 start from.
RunInv ==
  /\ WellFormed(Selection(cmdLine))
  /\ numTests = Requested(cmdLine)
  /\ dacapoArgs = [i \in 1..Len(SelectSeq(Options(cmdLine), IsAt)) |->
                     Rest(SelectSeq(Options(cmdLine), IsAt)[i])]
  /\ vmOpts = SelectSeq(Options(cmdLine), IsVmOpt)

ParseInv ==
  /\ cmdLine \in Seq(Tokens)
  /\ args \in Seq(Tokens)
  /\ pc \in {"level", "parse", "default", "run", "done"}
  /\ pc # "done" => outcome = "none"
  /\ outcome \in Refusals => ~WellFormed(Selection(cmdLine))
  /\ pc = "level" => args = cmdLine /\ numTests = <<>>
  /\ pc = "parse" => LoopInv
  /\ pc = "default" /\ ~StartsWithLevel(cmdLine) => LoopInv /\ ~LoopCond(args)
  /\ pc = "default" /\ StartsWithLevel(cmdLine) =>
        args = Tail(cmdLine) /\ numTests = LevelTests(cmdLine)
  /\ pc = "run" => RunInv

-----------------------------------------------------------------------------
(* Least and greatest elements, from the well-foundedness of < on Nat.    *)

LEMMA MinIndex ==
  \A T \in SUBSET Nat : T # {} => \E m \in T : \A t \in T : m <= t
  <1> SUFFICES ASSUME NEW T \in SUBSET Nat, T # {}
               PROVE  \E m \in T : \A t \in T : m <= t
    OBVIOUS
  <1>1. \E x \in T : \A y \in T : ~(<<y, x>> \in OpToRel(<, Nat))
    BY NatLessThanWellFounded, WFMin
  <1>2. PICK x \in T : \A y \in T : ~(<<y, x>> \in OpToRel(<, Nat))
    BY <1>1
  <1>3. \A y \in T : ~(y < x)
    BY <1>2 DEF OpToRel
  <1>4. QED
    BY <1>3

LEMMA MaxIndex ==
  ASSUME NEW n \in Nat, NEW T \in SUBSET (0..n), T # {}
  PROVE  \E m \in T : \A t \in T : t <= m
  <1> DEFINE S == {v \in 0..n : n - v \in T}
  <1>0. PICK t0 \in T : TRUE
    OBVIOUS
  <1>1. S \in SUBSET Nat /\ S # {}
    <2>1. n - t0 \in S
      OBVIOUS
    <2>2. S \subseteq Nat
      OBVIOUS
    <2>3. QED
      BY <2>1, <2>2, Zenon
  <1>2. \E u \in S : \A v \in S : u <= v
    BY <1>1, MinIndex, Zenon
  <1>3. PICK u \in S : \A v \in S : u <= v
    BY <1>2
  <1>4. \A t \in T : n - t \in S
    OBVIOUS
  <1>5. QED
    BY <1>3, <1>4

-----------------------------------------------------------------------------
(* Where the loop of 156 stops: Stop is the first option.                 *)

\* The predicate Stop chooses by.
IsStop(s, i) ==
  /\ i > Len(s) \/ IsOpt(s[i])
  /\ \A j \in 1..(i - 1) : ~IsOpt(s[j])

LEMMA StopSpec ==
  ASSUME NEW s \in Seq(Tokens)
  PROVE  Stop(s) \in 1..(Len(s) + 1) /\ IsStop(s, Stop(s))
  <1> DEFINE T == {i \in 1..(Len(s) + 1) : i > Len(s) \/ IsOpt(s[i])}
  <1>1. Len(s) \in Nat
    BY LenProperties
  <1>2. Len(s) + 1 \in T
    BY <1>1
  <1>3. T \subseteq Nat
    BY <1>1
  <1>4. PICK c \in T : \A t \in T : c <= t
    BY <1>2, <1>3, MinIndex, Zenon
  <1>5. \A j \in 1..(c - 1) : ~IsOpt(s[j])
    BY <1>1, <1>4
  <1>6. \E i \in 1..(Len(s) + 1) : IsStop(s, i)
    BY <1>4, <1>5 DEF IsStop
  <1>7. QED
    BY <1>6 DEF Stop, IsStop

\* The loop stops at the first option: past k arguments that are not
\* options, at the end of s or at an option.
LEMMA StopAt ==
  ASSUME NEW s \in Seq(Tokens), NEW k \in 0..Len(s),
         \A i \in 1..k : ~IsOpt(s[i]),
         k = Len(s) \/ IsOpt(s[k + 1])
  PROVE  Stop(s) = k + 1
  BY StopSpec, LenProperties DEF IsStop

\* The loop runs past m arguments that are not options.
LEMMA StopBeyond ==
  ASSUME NEW s \in Seq(Tokens), NEW m \in 0..Len(s),
         \A i \in 1..m : ~IsOpt(s[i])
  PROVE  Stop(s) > m
  BY StopSpec, LenProperties DEF IsStop

-----------------------------------------------------------------------------
(* The last mention of a benchmark in a benchmark part.                    *)

IsLast(p, b, m) == p[m] = b /\ \A j \in DOMAIN p : p[j] = b => j <= m

LEMMA LastMentionIs ==
  ASSUME NEW p \in Seq(Tokens), NEW b, NEW m \in DOMAIN p, IsLast(p, b, m)
  PROVE  LastMention(p, b) = m
  <1>2. LastMention(p, b) \in DOMAIN p /\ IsLast(p, b, LastMention(p, b))
    BY DEF LastMention, IsLast
  <1>3. QED
    BY <1>2, LenProperties DEF IsLast

LEMMA LastMentionExists ==
  ASSUME NEW p \in Seq(Tokens), NEW b, \E j \in DOMAIN p : p[j] = b
  PROVE  \E m \in DOMAIN p : IsLast(p, b, m)
  <1> DEFINE T == {j \in DOMAIN p : p[j] = b}
  <1>1. Len(p) \in Nat /\ DOMAIN p = 1..Len(p)
    BY LenProperties
  <1>2. T \in SUBSET (0..Len(p)) /\ T # {}
    BY <1>1
  <1>3. PICK m \in T : \A t \in T : t <= m
    BY <1>1, <1>2, MaxIndex, Zenon
  <1>4. QED
    BY <1>3 DEF IsLast

-----------------------------------------------------------------------------
(* What the reference reads off a benchmark part q that extends p.        *)

\* q extends p.
Ext(p, q) == Len(p) <= Len(q) /\ \A i \in 1..Len(p) : q[i] = p[i]

LEMMA NamedIff ==
  ASSUME NEW p, NEW b
  PROVE  b \in Named(p) <=> \E j \in DOMAIN p : p[j] = b /\ ~IsDigit(b)
  BY Zenon DEF Named

\* A benchmark q does not mention again keeps its last mention and count.
LEMMA KeepMention ==
  ASSUME NEW p \in Seq(Tokens), NEW q \in Seq(Tokens), Ext(p, q),
         NEW b, \E j \in DOMAIN p : p[j] = b,
         \A i \in (Len(p) + 1)..Len(q) : q[i] # b
  PROVE  /\ LastMention(q, b) = LastMention(p, b)
         /\ CountFor(q, LastMention(q, b)) = CountFor(p, LastMention(p, b))
  <1>1. PICK m \in DOMAIN p : IsLast(p, b, m)
    BY LastMentionExists
  <1>2. Len(p) \in Nat /\ Len(q) \in Nat /\ DOMAIN p = 1..Len(p) /\ DOMAIN q = 1..Len(q)
    BY LenProperties
  <1>3. m \in DOMAIN q /\ IsLast(q, b, m)
    BY <1>1, <1>2 DEF Ext, IsLast
  <1>4. LastMention(p, b) = m /\ LastMention(q, b) = m
    BY <1>1, <1>3, LastMentionIs
  <1>5. CountFor(q, m) = CountFor(p, m)
    BY <1>1, <1>2 DEF Ext, CountFor
  <1>6. QED
    BY <1>4, <1>5

\* The benchmark q ends with is last mentioned there.
LEMMA NewMention ==
  ASSUME NEW q \in Seq(Tokens), Len(q) >= 1, NEW b, q[Len(q)] = b
  PROVE  LastMention(q, b) = Len(q)
  <1>1. Len(q) \in DOMAIN q /\ IsLast(q, b, Len(q))
    BY LenProperties DEF IsLast
  <1>2. QED
    BY <1>1, LastMentionIs

\* A well-formed benchmark part does not end with a count.
LEMMA WFLast ==
  ASSUME NEW p \in Seq(Tokens), WellFormed(p), Len(p) >= 1
  PROVE  ~IsDigit(p[Len(p)])
  BY LenProperties DEF WellFormed

\* 163-165 and 169: a benchmark name a appended to the part counts once.
LEMMA TallyName ==
  ASSUME NEW p \in Seq(Tokens), NEW q \in Seq(Tokens), NEW a,
         Len(q) = Len(p) + 1, Ext(p, q), q[Len(q)] = a, ~IsDigit(a),
         WellFormed(p)
  PROVE  Tally(q) = DictSet(Tally(p), a, 1)
  <1>1. Len(p) \in Nat /\ DOMAIN p = 1..Len(p) /\ DOMAIN q = 1..Len(q)
    BY LenProperties
  <1>2. Named(q) = Named(p) \cup {a}
    <2> SUFFICES ASSUME NEW b
                 PROVE  b \in Named(q) <=> b \in Named(p) \cup {a}
      OBVIOUS
    <2>1. (\E j \in DOMAIN q : q[j] = b /\ ~IsDigit(b))
            <=> (\E j \in DOMAIN p : p[j] = b /\ ~IsDigit(b)) \/ b = a
      BY <1>1 DEF Ext
    <2>2. QED
      BY <2>1, NamedIff
  <1>3. CountFor(q, Len(q)) = 1
    <2>1. Len(p) >= 1 => ~IsDigit(p[Len(p)])
      BY WFLast
    <2>2. QED
      BY <1>1, <2>1 DEF Ext, CountFor
  <1>4. LastMention(q, a) = Len(q)
    BY <1>1, NewMention
  <1>5. ASSUME NEW b \in Named(p), b # a
        PROVE  CountFor(q, LastMention(q, b)) = Tally(p)[b]
    <2>1. \E j \in DOMAIN p : p[j] = b
      BY NamedIff
    <2>2. \A i \in (Len(p) + 1)..Len(q) : q[i] # b
      BY <1>1, <1>5
    <2>3. QED
      BY <2>1, <2>2, KeepMention DEF Tally
  <1>6. QED
    BY <1>2, <1>3, <1>4, <1>5 DEF Tally, DictSet

\* 157-162 and 169: a count c and the benchmark bm after it, appended to
\* the part, run bm int(c) times.
LEMMA TallyCount ==
  ASSUME NEW p \in Seq(Tokens), NEW q \in Seq(Tokens), NEW c, NEW bm,
         Len(q) = Len(p) + 2, Ext(p, q), q[Len(p) + 1] = c, q[Len(q)] = bm,
         IsDigit(c), ~IsDigit(bm)
  PROVE  Tally(q) = DictSet(Tally(p), bm, ToInt(c))
  <1>1. Len(p) \in Nat /\ DOMAIN p = 1..Len(p) /\ DOMAIN q = 1..Len(q)
    BY LenProperties
  <1>2. Named(q) = Named(p) \cup {bm}
    <2> SUFFICES ASSUME NEW b
                 PROVE  b \in Named(q) <=> b \in Named(p) \cup {bm}
      OBVIOUS
    <2>1. b = c => IsDigit(b)
      OBVIOUS
    <2>2. (\E j \in DOMAIN q : q[j] = b /\ ~IsDigit(b))
            <=> (\E j \in DOMAIN p : p[j] = b /\ ~IsDigit(b)) \/ b = bm
      BY <1>1, <2>1 DEF Ext
    <2>3. QED
      BY <2>2, NamedIff
  <1>3. CountFor(q, Len(q)) = ToInt(c)
    BY <1>1 DEF CountFor
  <1>4. LastMention(q, bm) = Len(q)
    BY <1>1, NewMention
  <1>5. ASSUME NEW b \in Named(p), b # bm
        PROVE  CountFor(q, LastMention(q, b)) = Tally(p)[b]
    <2>1. \E j \in DOMAIN p : p[j] = b /\ ~IsDigit(b)
      BY NamedIff
    <2>2. \A i \in (Len(p) + 1)..Len(q) : q[i] # b
      BY <1>1, <1>5, <2>1
    <2>3. QED
      BY <2>1, <2>2, KeepMention DEF Tally
  <1>6. QED
    BY <1>2, <1>3, <1>4, <1>5 DEF Tally, DictSet

\* Appending a known benchmark name keeps the part well formed.
LEMMA WFName ==
  ASSUME NEW p \in Seq(Tokens), NEW q \in Seq(Tokens), NEW a,
         Len(q) = Len(p) + 1, Ext(p, q), q[Len(q)] = a,
         a # <<>>, ~IsDigit(a), a \in Benchmarks, WellFormed(p)
  PROVE  WellFormed(q)
  BY LenProperties DEF Ext, WellFormed

\* Appending a count and a known benchmark name after it keeps the part
\* well formed.
LEMMA WFCount ==
  ASSUME NEW p \in Seq(Tokens), NEW q \in Seq(Tokens), NEW c, NEW bm,
         Len(q) = Len(p) + 2, Ext(p, q), q[Len(p) + 1] = c, q[Len(q)] = bm,
         IsDigit(c), bm # <<>>, ~IsDigit(bm), bm \in Benchmarks, WellFormed(p)
  PROVE  WellFormed(q)
  <1>1. Len(p) \in Nat /\ DOMAIN p = 1..Len(p) /\ DOMAIN q = 1..Len(q)
    BY LenProperties
  <1>2. c # <<>>
    BY DEF IsDigit
  <1>3. QED
    BY <1>1, <1>2 DEF Ext, WellFormed

-----------------------------------------------------------------------------
(* The benchmark part of a command line.                                   *)

LEMMA SelectionFacts ==
  ASSUME NEW s \in Seq(Tokens), ~StartsWithLevel(s)
  PROVE  /\ Selection(s) \in Seq(Tokens)
         /\ Len(Selection(s)) = Stop(s) - 1
         /\ \A i \in 1..(Stop(s) - 1) : Selection(s)[i] = s[i]
  <1>1. Stop(s) \in 1..(Len(s) + 1) /\ Len(s) \in Nat
    BY StopSpec, LenProperties
  <1>2. \A i \in 1..(Stop(s) - 1) : s[i] \in Tokens
    BY <1>1, ElementOfSeq
  <1>3. Selection(s) = SubSeq(s, 1, Stop(s) - 1)
    BY DEF Selection
  <1>4. QED
    BY <1>1, <1>2, <1>3, SubSeqProperties

\* The parse refuses a command line whose benchmark part has, at m, an
\* empty argument, an unknown name, or a second count in a row.
LEMMA RefusedPart ==
  ASSUME NEW s \in Seq(Tokens), ~StartsWithLevel(s), NEW m \in 1..Len(s),
         \A i \in 1..m : ~IsOpt(s[i]),
         \/ s[m] = <<>>
         \/ ~IsDigit(s[m]) /\ s[m] \notin Benchmarks
         \/ m >= 2 /\ IsDigit(s[m - 1]) /\ IsDigit(s[m])
  PROVE  ~WellFormed(Selection(s))
  <1>1. Stop(s) > m /\ Stop(s) \in 1..(Len(s) + 1)
    BY StopBeyond, StopSpec
  <1>2. /\ Len(Selection(s)) = Stop(s) - 1
        /\ \A i \in 1..(Stop(s) - 1) : Selection(s)[i] = s[i]
        /\ DOMAIN Selection(s) = 1..Len(Selection(s))
    BY SelectionFacts, LenProperties
  <1> DEFINE P == Selection(s)
  <1>3. SUFFICES ASSUME WellFormed(P) PROVE FALSE
    OBVIOUS
  <1>4. m \in DOMAIN P /\ P[m] = s[m]
    BY <1>1, <1>2
  <1>5. m >= 2 => m - 1 \in DOMAIN P /\ P[m - 1] = s[m - 1] /\ P[m - 1 + 1] = s[m]
    BY <1>1, <1>2
  <1>6. /\ P[m] # <<>>
        /\ IsDigit(P[m]) => m < Len(P) /\ ~IsDigit(P[m + 1])
        /\ ~IsDigit(P[m]) => P[m] \in Benchmarks
    BY <1>3, <1>4 DEF WellFormed
  <1>7. m >= 2 /\ IsDigit(P[m - 1]) => ~IsDigit(P[m - 1 + 1])
    BY <1>3, <1>5 DEF WellFormed
  <1>8. QED
    BY <1>4, <1>5, <1>6, <1>7

\* The parse refuses a command line whose benchmark part ends with a count.
LEMMA RefusedLastCount ==
  ASSUME NEW s \in Seq(Tokens), ~StartsWithLevel(s), NEW m \in 1..Len(s),
         \A i \in 1..m : ~IsOpt(s[i]), IsDigit(s[m]),
         m = Len(s) \/ IsOpt(s[m + 1])
  PROVE  ~WellFormed(Selection(s))
  <1>1. Stop(s) = m + 1
    BY StopAt
  <1>2. /\ Len(Selection(s)) = m
        /\ Selection(s)[m] = s[m]
        /\ DOMAIN Selection(s) = 1..Len(Selection(s))
    BY <1>1, SelectionFacts, LenProperties
  <1>3. QED
    BY <1>2 DEF WellFormed

-----------------------------------------------------------------------------
(* The deleted prefix.                                                     *)

LEMMA PreFacts ==
  ASSUME cmdLine \in Seq(Tokens), NEW n \in 0..Len(cmdLine)
  PROVE  /\ Pre(n) \in Seq(Tokens)
         /\ Len(Pre(n)) = n
         /\ \A i \in 1..n : Pre(n)[i] = cmdLine[i]
  <1>1. \A i \in 1..n : cmdLine[i] \in Tokens
    BY ElementOfSeq
  <1>2. QED
    BY <1>1, SubSeqProperties DEF Pre

\* Two more arguments deleted extend the deleted prefix.
LEMMA PreExt ==
  ASSUME cmdLine \in Seq(Tokens), NEW n \in 0..Len(cmdLine), NEW d \in 0..(Len(cmdLine) - n)
  PROVE  Ext(Pre(n), Pre(n + d))
  BY PreFacts DEF Ext

LEMMA ArgListsSeq == ArgLists \subseteq Seq(Tokens)
  BY SeqDef DEF ArgLists

LEMMA InitParseInv == Init => ParseInv
  <1> SUFFICES ASSUME Init PROVE ParseInv
    OBVIOUS
  <1>1. cmdLine \in Seq(Tokens) /\ args \in Seq(Tokens)
    BY ArgListsSeq DEF Init
  <1>2. QED
    BY <1>1 DEF Init, ParseInv, Refusals

-----------------------------------------------------------------------------
(* Each step of dacapo keeps ParseInv.                                     *)

\* Before the loop of 156 nothing is deleted or counted.
LEMMA LoopStart ==
  ASSUME cmdLine \in Seq(Tokens), args = cmdLine, numTests = <<>>,
         ~StartsWithLevel(cmdLine)
  PROVE  LoopInv
  <1>1. K = 0 /\ Len(cmdLine) \in Nat
    BY LenProperties DEF K
  <1>2. Len(Pre(0)) = 0 /\ Pre(0) \in Seq(Tokens)
    BY PreFacts
  <1>3. DOMAIN Pre(0) = {}
    BY <1>2, LenProperties
  <1>4. WellFormed(Pre(0))
    BY <1>3 DEF WellFormed
  <1>5. Named(Pre(0)) = {}
    BY <1>3 DEF Named
  <1>6. Tally(Pre(0)) = <<>>
    BY <1>5 DEF Tally
  <1>7. QED
    BY <1>1, <1>4, <1>6 DEF LoopInv, NoOptBefore

\* LoopInv and RunInv read only the command line, args and the results.
LEMMA LoopInvUnchanged ==
  ASSUME LoopInv, UNCHANGED <<cmdLine, args, numTests>>
  PROVE  LoopInv'
  BY DEF LoopInv, K, Pre, NoOptBefore

LEMMA RunInvUnchanged ==
  ASSUME RunInv, UNCHANGED <<cmdLine, numTests, dacapoArgs, vmOpts>>
  PROVE  RunInv'
  BY DEF RunInv

LEMMA CheckLevelInv ==
  ASSUME ParseInv, CheckLevel
  PROVE  ParseInv'
  <1>1. pc = "level" /\ args = cmdLine /\ numTests = <<>> /\ outcome = "none"
        /\ cmdLine \in Seq(Tokens)
    BY DEF CheckLevel, ParseInv
  <1>2. UNCHANGED <<outcome, cmdLine, dacapoArgs, vmOpts, ran, failed>>
    BY DEF CheckLevel
  <1>3. CASE args # <<>> /\ args[1] \in Levels
    <2>1. StartsWithLevel(cmdLine)
      BY <1>1, <1>3 DEF StartsWithLevel
    <2>2. args' = Tail(cmdLine) /\ numTests' = LevelTests(cmdLine) /\ pc' = "default"
      BY <1>1, <1>3 DEF CheckLevel, LevelTests
    <2>3. args' \in Seq(Tokens)
      BY <1>1, <1>3, <2>2, HeadTailProperties
    <2>4. QED
      BY <1>1, <1>2, <2>1, <2>2, <2>3 DEF ParseInv, Refusals
  <1>4. CASE ~(args # <<>> /\ args[1] \in Levels)
    <2>1. ~StartsWithLevel(cmdLine)
      BY <1>1, <1>4 DEF StartsWithLevel
    <2>2. UNCHANGED <<args, numTests>> /\ pc' = IF args = <<>> THEN "default" ELSE "parse"
      BY <1>4 DEF CheckLevel
    <2>3. LoopInv'
      BY <1>1, <1>2, <2>1, <2>2, LoopStart, LoopInvUnchanged
    <2>4. args = <<>> => ~LoopCond(args)
      BY DEF LoopCond
    <2>5. QED
      BY <1>1, <1>2, <2>1, <2>2, <2>3, <2>4 DEF ParseInv, Refusals
  <1>5. QED
    BY <1>3, <1>4

\* Inside the loop of 156.
LEMMA ParseFacts ==
  ASSUME ParseInv, pc = "parse"
  PROVE  /\ LoopInv /\ outcome = "none"
         /\ cmdLine \in Seq(Tokens) /\ args \in Seq(Tokens)
         /\ K \in Nat /\ Len(args) \in Nat /\ K + Len(args) = Len(cmdLine)
         /\ args # <<>> => K + 1 \in 1..Len(cmdLine) /\ args[1] = cmdLine[K + 1]
         /\ Len(args) > 1 => K + 2 \in 1..Len(cmdLine) /\ args[2] = cmdLine[K + 2]
  <1>1. LoopInv /\ outcome = "none" /\ cmdLine \in Seq(Tokens) /\ args \in Seq(Tokens)
    BY DEF ParseInv
  <1>2. Len(args) \in Nat /\ Len(cmdLine) \in Nat /\ Len(args) <= Len(cmdLine)
    BY <1>1, LenProperties DEF LoopInv
  <1>3. args # <<>> => Len(args) >= 1
    BY <1>1, EmptySeq
  <1>4. QED
    BY <1>1, <1>2, <1>3 DEF LoopInv, K

\* An exception raised by the parse.
LEMMA RaiseInv ==
  ASSUME ParseInv, pc = "parse", NEW e \in Refusals, Raise(e),
         UNCHANGED <<cmdLine, dacapoArgs, vmOpts, ran, failed>>,
         ~WellFormed(Selection(cmdLine))
  PROVE  ParseInv'
  BY ParseFacts DEF Raise, ParseInv, Refusals

\* A sequence with an element is not empty (SMT misses this of a Tail).
LEMMA NonEmpty == \A s \in Seq(Tokens) : Len(s) >= 1 => s # <<>>
  OBVIOUS

\* Tail(args) and Tail(Tail(args)) drop the first d arguments.
LEMMA DropArgs ==
  ASSUME NEW s \in Seq(Tokens), NEW d \in {1, 2}, d <= Len(s)
  PROVE  LET t == IF d = 1 THEN Tail(s) ELSE Tail(Tail(s))
         IN  /\ t \in Seq(Tokens)
             /\ Len(t) = Len(s) - d
             /\ \A i \in 1..Len(t) : t[i] = s[i + d]
  <1>0. Len(s) >= 1
    OBVIOUS
  <1>1. s # <<>>
    BY <1>0, NonEmpty, Zenon
  <1>2. /\ Tail(s) \in Seq(Tokens) /\ Len(Tail(s)) = Len(s) - 1
        /\ \A i \in 1..Len(Tail(s)) : Tail(s)[i] = s[i + 1]
    BY <1>1, HeadTailProperties
  <1>3. CASE d = 1
    BY <1>2, <1>3
  <1>4. CASE d = 2
    <2>1. Len(Tail(s)) >= 1
      BY <1>2, <1>4
    <2>2. Tail(s) # <<>>
      BY <1>2, <2>1, NonEmpty, Zenon
    <2>3. /\ Tail(Tail(s)) \in Seq(Tokens)
          /\ Len(Tail(Tail(s))) = Len(Tail(s)) - 1
          /\ \A i \in 1..Len(Tail(Tail(s))) : Tail(Tail(s))[i] = Tail(s)[i + 1]
      BY <1>2, <2>2, HeadTailProperties
    <2>4. QED
      BY <1>2, <1>4, <2>3
  <1>5. QED
    BY <1>3, <1>4

\* The loop deletes d arguments, none of them an option, and counts them.
LEMMA AdvanceInv ==
  ASSUME ParseInv, pc = "parse", NEW d \in {1, 2}, d <= Len(args),
         args' \in Seq(Tokens), Len(args') = Len(args) - d,
         \A i \in 1..Len(args') : args'[i] = args[i + d],
         UNCHANGED <<cmdLine, pc, outcome, dacapoArgs, vmOpts, ran, failed>>,
         \A i \in 1..d : ~IsOpt(args[i]),
         WellFormed(Pre(K + d)), numTests' = Tally(Pre(K + d))
  PROVE  ParseInv'
  <1>1. /\ LoopInv /\ outcome = "none"
        /\ cmdLine \in Seq(Tokens) /\ args \in Seq(Tokens)
        /\ K \in Nat /\ Len(args) \in Nat /\ K + Len(args) = Len(cmdLine)
        /\ Len(cmdLine) \in Nat
    BY ParseFacts, LenProperties
  <1>3. K' = K + d
    BY <1>1 DEF K
  <1>4. \A i \in 1..Len(args') : args'[i] = cmdLine'[K' + i]
    <2>1. \A i \in 1..Len(args) : args[i] = cmdLine[K + i]
      BY <1>1 DEF LoopInv
    <2>2. \A i \in 1..Len(args') : args'[i] = cmdLine[K + d + i]
      <3> SUFFICES ASSUME NEW i \in 1..Len(args') PROVE args'[i] = cmdLine[K + d + i]
        OBVIOUS
      <3>0. Len(args') \in Int /\ Len(args) \in Int /\ K \in Int
        BY <1>1, LenProperties
      <3>1. i + d \in 1..Len(args) /\ K + d + i = K + (i + d)
        BY <3>0, SMT
      <3>2. args'[i] = args[i + d]
        OBVIOUS
      <3>3. QED
        BY <2>1, <3>1, <3>2
    <2>3. QED
      BY <1>1, <1>3, <2>2
  <1>5. NoOptBefore(K + d)
    <2>1. \A i \in 1..d : args[i] = cmdLine[K + i]
      BY <1>1 DEF LoopInv
    <2>2. QED
      BY <1>1, <2>1 DEF LoopInv, NoOptBefore
  <1>6. LoopInv'
    BY <1>1, <1>3, <1>4, <1>5 DEF LoopInv, NoOptBefore, Pre
  <1>7. QED
    BY <1>1, <1>6 DEF ParseInv, Refusals

\* Arguments that the loop passes over extend the prefix without options.
LEMMA NoOptAdvance ==
  ASSUME ParseInv, pc = "parse", NEW d \in {1, 2}, d <= Len(args),
         \A i \in 1..d : ~IsOpt(args[i])
  PROVE  NoOptBefore(K + d)
  <1>1. /\ LoopInv /\ K \in Nat /\ Len(args) \in Nat
        /\ K + Len(args) = Len(cmdLine)
    BY ParseFacts
  <1>2. \A i \in 1..d : args[i] = cmdLine[K + i]
    BY <1>1 DEF LoopInv
  <1>3. QED
    BY <1>1, <1>2 DEF LoopInv, NoOptBefore

\* The loop stops at the end of args or at an option (156).
LEMMA LoopExitInv ==
  ASSUME ParseInv, LoopExit
  PROVE  ParseInv'
  <1>1. LoopInv /\ outcome = "none" /\ ~LoopCond(args)
    BY ParseFacts DEF LoopExit
  <1>2. LoopInv'
    BY <1>1, LoopInvUnchanged DEF LoopExit
  <1>3. QED
    BY <1>1, <1>2 DEF LoopExit, ParseInv, LoopInv, Refusals

\* An empty argument raises IndexError at args[0][0] (156).
LEMMA EmptyArgInv ==
  ASSUME ParseInv, EmptyArg
  PROVE  ParseInv'
  <1>1. /\ pc = "parse" /\ args # <<>> /\ args[1] = <<>>
        /\ Raise("IndexError")
        /\ UNCHANGED <<cmdLine, dacapoArgs, vmOpts, ran, failed>>
    BY DEF EmptyArg
  <1>2. /\ LoopInv /\ cmdLine \in Seq(Tokens) /\ K \in Nat
        /\ K + 1 \in 1..Len(cmdLine) /\ args[1] = cmdLine[K + 1]
    BY <1>1, ParseFacts
  <1>3. \A i \in 1..(K + 1) : ~IsOpt(cmdLine[i])
    BY <1>1, <1>2 DEF LoopInv, NoOptBefore, IsOpt
  <1>4. ~WellFormed(Selection(cmdLine))
    BY <1>1, <1>2, <1>3, RefusedPart DEF LoopInv
  <1>5. QED
    BY <1>1, <1>4, RaiseInv DEF Refusals

\* A benchmark name is run once (163-165), an unknown one aborts (167).
LEMMA NameArgInv ==
  ASSUME ParseInv, NameArg
  PROVE  ParseInv'
  <1> DEFINE a == args[1]
  <1>1. /\ pc = "parse" /\ args # <<>> /\ a # <<>> /\ a[1] \notin OptChars
        /\ ~IsDigit(a) /\ Record(a, 1, Tail(args))
        /\ UNCHANGED <<cmdLine, dacapoArgs, vmOpts, ran, failed>>
    BY DEF NameArg
  <1>2. /\ LoopInv /\ cmdLine \in Seq(Tokens) /\ args \in Seq(Tokens)
        /\ K \in Nat /\ K + Len(args) = Len(cmdLine)
        /\ K + 1 \in 1..Len(cmdLine) /\ a = cmdLine[K + 1]
    BY <1>1, ParseFacts
  <1>3. ~IsOpt(a)
    BY <1>1 DEF IsOpt
  <1>4. 1 <= Len(args)
    BY <1>2
  <1>5. CASE a \notin Benchmarks
    <2>1. \A i \in 1..(K + 1) : ~IsOpt(cmdLine[i])
      BY <1>2, <1>3 DEF LoopInv, NoOptBefore
    <2>2. ~WellFormed(Selection(cmdLine))
      BY <1>1, <1>2, <1>5, <2>1, RefusedPart DEF LoopInv
    <2>3. Raise("unknownBenchmark")
      BY <1>1, <1>5 DEF Record
    <2>4. QED
      BY <1>1, <2>2, <2>3, RaiseInv DEF Refusals
  <1>6. CASE a \in Benchmarks
    <2>1. /\ numTests' = DictSet(numTests, a, 1) /\ args' = Tail(args)
          /\ UNCHANGED <<pc, outcome>>
      BY <1>1, <1>6 DEF Record
    <2>2. /\ args' \in Seq(Tokens) /\ Len(args') = Len(args) - 1
          /\ \A i \in 1..Len(args') : args'[i] = args[i + 1]
      BY <1>2, <1>4, <2>1, DropArgs
    <2>3. /\ Pre(K) \in Seq(Tokens) /\ Len(Pre(K)) = K
          /\ Pre(K + 1) \in Seq(Tokens) /\ Len(Pre(K + 1)) = K + 1
          /\ Pre(K + 1)[K + 1] = a
          /\ Ext(Pre(K), Pre(K + 1))
      BY <1>2, PreFacts, PreExt
    <2>4. Tally(Pre(K + 1)) = DictSet(Tally(Pre(K)), a, 1)
      BY <1>1, <1>2, <2>3, TallyName DEF LoopInv
    <2>5. WellFormed(Pre(K + 1))
      BY <1>1, <1>2, <1>6, <2>3, WFName DEF LoopInv
    <2>6. \A i \in 1..1 : ~IsOpt(args[i])
      BY <1>3
    <2>7. QED
      BY <1>1, <1>2, <1>4, <2>1, <2>2, <2>4, <2>5, <2>6, AdvanceInv DEF LoopInv
  <1>7. QED
    BY <1>5, <1>6

\* A count and the name after it (157-165); a missing or bad name raises.
LEMMA CountArgInv ==
  ASSUME ParseInv, CountArg
  PROVE  ParseInv'
  <1> DEFINE a == args[1]
             b == args[2]
             IsIndexError == Len(args) > 1 /\ b = <<>>
             IsNameNext == Len(args) > 1 /\ b[1] \notin OptChars /\ ~IsDigit(b)
  <1>1. /\ pc = "parse" /\ args # <<>> /\ a # <<>> /\ a[1] \notin OptChars
        /\ IsDigit(a)
        /\ IF IsIndexError THEN Raise("IndexError")
           ELSE IF ~IsNameNext THEN Raise("AssertionError")
           ELSE Record(b, ToInt(a), Tail(Tail(args)))
        /\ UNCHANGED <<cmdLine, dacapoArgs, vmOpts, ran, failed>>
    BY DEF CountArg, IsIndexError, IsNameNext
  <1>2. /\ LoopInv /\ cmdLine \in Seq(Tokens) /\ args \in Seq(Tokens)
        /\ K \in Nat /\ Len(args) \in Nat /\ K + Len(args) = Len(cmdLine)
        /\ K + 1 \in 1..Len(cmdLine) /\ a = cmdLine[K + 1]
        /\ Len(args) > 1 => K + 2 \in 1..Len(cmdLine) /\ b = cmdLine[K + 2]
    BY <1>1, ParseFacts
  <1>3. ~IsOpt(a) /\ ~IsOpt(<<>>)
    BY <1>1 DEF IsOpt
  <1>4. \A i \in 1..(K + 1) : ~IsOpt(cmdLine[i])
    BY <1>2, <1>3 DEF LoopInv, NoOptBefore
  <1>5. ASSUME Len(args) > 1, ~IsOpt(b)
        PROVE  \A i \in 1..(K + 2) : ~IsOpt(cmdLine[i])
    BY <1>2, <1>4, <1>5
  <1>6. CASE IsIndexError
    <2>1. ~WellFormed(Selection(cmdLine))
      BY <1>2, <1>3, <1>5, <1>6, RefusedPart DEF LoopInv, IsIndexError
    <2>2. QED
      BY <1>1, <1>6, <2>1, RaiseInv DEF Refusals
  <1>7. CASE ~IsIndexError /\ ~IsNameNext
    <2> SUFFICES ~WellFormed(Selection(cmdLine))
      BY <1>1, <1>7, RaiseInv DEF Refusals
    <2>1. CASE Len(args) = 1
      BY <1>1, <1>2, <1>4, <2>1, RefusedLastCount DEF LoopInv
    <2>2. CASE Len(args) > 1 /\ b[1] \in OptChars
      <3>1. IsOpt(cmdLine[K + 1 + 1])
        BY <1>2, <1>7, <2>2 DEF IsOpt, IsIndexError
      <3>2. QED
        BY <1>1, <1>2, <1>4, <3>1, RefusedLastCount DEF LoopInv
    <2>3. CASE Len(args) > 1 /\ b[1] \notin OptChars /\ IsDigit(b)
      <3>1. ~IsOpt(b)
        BY <1>7, <2>3 DEF IsOpt, IsIndexError
      <3>2. K + 2 >= 2 /\ K + 2 - 1 = K + 1
        BY <1>2
      <3>3. QED
        BY <1>1, <1>2, <1>5, <2>3, <3>1, <3>2, RefusedPart DEF LoopInv
    <2>4. Len(args) = 1 \/ Len(args) > 1
      <3>1. Len(args) \in Nat
        BY <1>2
      <3>2. Len(args) # 0
        BY <1>1, <1>2, EmptySeq, Zenon
      <3>3. \A n \in Nat : n # 0 => n = 1 \/ n > 1
        OBVIOUS
      <3>4. QED
        BY <3>1, <3>2, <3>3, Zenon
    <2>5. QED
      BY <1>7, <2>1, <2>2, <2>3, <2>4 DEF IsNameNext, IsIndexError
  <1>8. CASE ~IsIndexError /\ IsNameNext
    <2>1. Record(b, ToInt(a), Tail(Tail(args)))
      BY <1>1, <1>8
    <2>2. ~IsOpt(b) /\ b # <<>> /\ Len(args) > 1 /\ ~IsDigit(b)
      BY <1>8 DEF IsOpt, IsIndexError, IsNameNext
    <2>3. \A i \in 1..(K + 2) : ~IsOpt(cmdLine[i])
      BY <1>5, <2>2
    <2>4. CASE b \notin Benchmarks
      <3>1. ~WellFormed(Selection(cmdLine))
        BY <1>2, <2>2, <2>3, <2>4, RefusedPart DEF LoopInv
      <3>2. QED
        BY <1>1, <2>1, <2>4, <3>1, RaiseInv DEF Refusals, Record
    <2>5. CASE b \in Benchmarks
      <3>1. /\ numTests' = DictSet(numTests, b, ToInt(a))
            /\ args' = Tail(Tail(args))
            /\ UNCHANGED <<pc, outcome>>
        BY <2>1, <2>5 DEF Record
      <3>2. /\ args' \in Seq(Tokens) /\ Len(args') = Len(args) - 2
            /\ \A i \in 1..Len(args') : args'[i] = args[i + 2]
        BY <1>2, <2>2, <3>1, DropArgs
      <3>3. /\ Pre(K) \in Seq(Tokens) /\ Len(Pre(K)) = K
            /\ Pre(K + 2) \in Seq(Tokens) /\ Len(Pre(K + 2)) = K + 2
            /\ Pre(K + 2)[K + 1] = a /\ Pre(K + 2)[K + 2] = b
            /\ Ext(Pre(K), Pre(K + 2))
        <4>1. K \in 0..Len(cmdLine) /\ K + 2 \in 0..Len(cmdLine)
                /\ 2 \in 0..(Len(cmdLine) - K)
          BY <1>2, <2>2
        <4>2. Pre(K) \in Seq(Tokens) /\ Len(Pre(K)) = K
          BY <1>2, <4>1, PreFacts
        <4>3. /\ Pre(K + 2) \in Seq(Tokens) /\ Len(Pre(K + 2)) = K + 2
              /\ \A i \in 1..(K + 2) : Pre(K + 2)[i] = cmdLine[i]
          BY <1>2, <4>1, PreFacts
        <4>4. Ext(Pre(K), Pre(K + 2))
          BY <1>2, <4>1, PreExt
        <4>5. K + 1 \in 1..(K + 2) /\ K + 2 \in 1..(K + 2)
          BY <1>2
        <4>6. a = cmdLine[K + 1] /\ b = cmdLine[K + 2]
          BY <1>2, <2>2
        <4>7. QED
          BY <4>2, <4>3, <4>4, <4>5, <4>6
      <3>4. Tally(Pre(K + 2)) = DictSet(Tally(Pre(K)), b, ToInt(a))
        BY <1>1, <2>2, <3>3, TallyCount
      <3>5. WellFormed(Pre(K + 2))
        <4>1. WellFormed(Pre(K))
          BY <1>2 DEF LoopInv
        <4>2. /\ Len(Pre(K + 2)) = Len(Pre(K)) + 2
              /\ Pre(K + 2)[Len(Pre(K)) + 1] = a
              /\ Pre(K + 2)[Len(Pre(K + 2))] = b
          BY <3>3
        <4>3. QED
          BY <1>1, <2>2, <2>5, <3>3, <4>1, <4>2, WFCount
      <3>6. \A i \in 1..2 : ~IsOpt(args[i])
        BY <1>3, <2>2
      <3>7. QED
        BY <1>1, <1>2, <2>2, <3>1, <3>2, <3>4, <3>6, <3>5, AdvanceInv DEF LoopInv
    <2>6. QED
      BY <2>4, <2>5
  <1>9. QED
    BY <1>6, <1>7, <1>8

\* What the loop leaves of a command line is the rest of it after k.
LEMMA SuffixIsArgs ==
  ASSUME NEW s \in Seq(Tokens), NEW t \in Seq(Tokens), NEW k \in 0..Len(s),
         Len(t) = Len(s) - k, \A i \in 1..Len(t) : t[i] = s[k + i]
  PROVE  t = SubSeq(s, k + 1, Len(s))
  <1>1. \A i \in (k + 1)..Len(s) : s[i] \in Tokens
    BY LenProperties
  <1>2. /\ SubSeq(s, k + 1, Len(s)) \in Seq(Tokens)
        /\ Len(SubSeq(s, k + 1, Len(s))) = Len(s) - k
        /\ \A i \in 1..(Len(s) - k) : SubSeq(s, k + 1, Len(s))[i] = s[k + i]
    <2>1. k + 1 \in Int /\ Len(s) \in Int
      BY LenProperties
    <2>2. /\ SubSeq(s, k + 1, Len(s)) \in Seq(Tokens)
          /\ Len(SubSeq(s, k + 1, Len(s)))
               = IF k + 1 <= Len(s) THEN Len(s) - (k + 1) + 1 ELSE 0
          /\ \A i \in 1..(Len(s) - (k + 1) + 1) :
               SubSeq(s, k + 1, Len(s))[i] = s[(k + 1) + i - 1]
      BY <1>1, <2>1, SubSeqProperties
    <2>3. QED
      BY <2>2, LenProperties
  <1>3. QED
    BY <1>2, SeqEqual

\* The step of 171-179 that starts the runs.
LEMMA DefaultInv ==
  ASSUME ParseInv, Default
  PROVE  ParseInv'
  <1>1. /\ pc = "default"
        /\ numTests' = IF DOMAIN numTests = {} THEN [b \in Benchmarks |-> 1]
                       ELSE numTests
        /\ dacapoArgs' = [i \in 1..Len(SelectSeq(args, IsAt)) |->
                            Rest(SelectSeq(args, IsAt)[i])]
        /\ vmOpts' = SelectSeq(args, IsVmOpt)
        /\ pc' = "run"
        /\ UNCHANGED <<args, cmdLine, ran, failed, outcome>>
    BY DEF Default
  <1>2. cmdLine \in Seq(Tokens) /\ args \in Seq(Tokens) /\ outcome = "none"
    BY <1>1 DEF ParseInv
  <1>3. /\ args = Options(cmdLine)
        /\ numTests = Raw(cmdLine)
        /\ WellFormed(Selection(cmdLine))
    <2>1. CASE StartsWithLevel(cmdLine)
      <3>1. args = Tail(cmdLine) /\ numTests = LevelTests(cmdLine)
        BY <1>1, <2>1 DEF ParseInv
      <3>2. Selection(cmdLine) = <<>>
        BY <2>1 DEF Selection
      <3>3. WellFormed(<<>>)
        BY DEF WellFormed
      <3>4. QED
        BY <2>1, <3>1, <3>2, <3>3 DEF Options, Raw
    <2>2. CASE ~StartsWithLevel(cmdLine)
      <3>1. LoopInv /\ ~LoopCond(args)
        BY <1>1, <2>2 DEF ParseInv
      <3>2. /\ Len(args) \in Nat /\ Len(cmdLine) \in Nat
            /\ K \in 0..Len(cmdLine) /\ Len(args) = Len(cmdLine) - K
            /\ \A i \in 1..Len(args) : args[i] = cmdLine[K + i]
        BY <1>2, <3>1, LenProperties DEF LoopInv, K
      <3>3. K = Len(cmdLine) \/ IsOpt(cmdLine[K + 1])
        <4>1. CASE args = <<>>
          BY <3>2, <4>1
        <4>2. CASE args # <<>>
          <5>1. Len(args) >= 1
            BY <1>2, <4>2, EmptySeq, LenProperties
          <5>2. IsOpt(args[1])
            BY <3>1, <4>2 DEF LoopCond
          <5>3. QED
            BY <3>2, <5>1, <5>2
        <4>3. QED
          BY <4>1, <4>2
      <3>4. Stop(cmdLine) = K + 1
        BY <1>2, <3>1, <3>2, <3>3, StopAt DEF LoopInv, NoOptBefore
      <3>5. Selection(cmdLine) = Pre(K)
        <4>1. Stop(cmdLine) - 1 = K
          BY <3>2, <3>4
        <4>2. QED
          BY <2>2, <4>1, Zenon DEF Selection, Pre
      <3>6. Options(cmdLine) = args
        <4>1. args = SubSeq(cmdLine, K + 1, Len(cmdLine))
          BY <1>2, <3>2, SuffixIsArgs
        <4>2. QED
          BY <2>2, <3>4, <4>1 DEF Options
      <3>7. QED
        BY <2>2, <3>1, <3>5, <3>6 DEF LoopInv, Raw
    <2>3. QED
      BY <2>1, <2>2
  <1>4. Requested(cmdLine) = IF DOMAIN Raw(cmdLine) = {}
                             THEN [b \in Benchmarks |-> 1] ELSE Raw(cmdLine)
    BY DEF Requested, Raw, Tally, LevelTests
  <1>5. RunInv'
    BY <1>1, <1>3, <1>4 DEF RunInv
  <1>6. QED
    BY <1>1, <1>2, <1>5 DEF ParseInv, Refusals

\* A benchmark run (182-184) changes none of what the parse computed.
LEMMA RunBenchInv ==
  ASSUME ParseInv, NEW t \in Benchmarks, NEW ok \in BOOLEAN, RunBench(t, ok)
  PROVE  ParseInv'
  <1>1. /\ pc = "run"
        /\ UNCHANGED <<cmdLine, args, numTests, dacapoArgs, vmOpts, pc, outcome>>
    BY DEF RunBench
  <1>2. RunInv'
    BY <1>1, RunInvUnchanged DEF ParseInv
  <1>3. QED
    BY <1>1, <1>2 DEF ParseInv

\* The end of dacapo (186-187) is no exception of the parse.
LEMMA FinishInv ==
  ASSUME ParseInv, Finish
  PROVE  ParseInv'
  BY DEF Finish, ParseInv, Refusals

\* A step that changes no variable.
LEMMA StutterInv ==
  ASSUME ParseInv, UNCHANGED vars
  PROVE  ParseInv'
  <1>1. pc' = pc /\ cmdLine' = cmdLine /\ args' = args /\ numTests' = numTests
        /\ outcome' = outcome /\ dacapoArgs' = dacapoArgs /\ vmOpts' = vmOpts
    BY DEF vars
  <1>2. LoopInv => LoopInv'
    BY <1>1, LoopInvUnchanged
  <1>3. RunInv => RunInv'
    BY <1>1, RunInvUnchanged
  <1>4. QED
    BY <1>1, <1>2, <1>3 DEF ParseInv

\* ParseInv is inductive.
LEMMA NextParseInv == ParseInv /\ [Next]_vars => ParseInv'
  <1> SUFFICES ASSUME ParseInv, [Next]_vars PROVE ParseInv'
    OBVIOUS
  <1>1. CASE CheckLevel
    BY <1>1, CheckLevelInv
  <1>2. CASE LoopExit
    BY <1>2, LoopExitInv
  <1>3. CASE EmptyArg
    BY <1>3, EmptyArgInv
  <1>4. CASE CountArg
    BY <1>4, CountArgInv
  <1>5. CASE NameArg
    BY <1>5, NameArgInv
  <1>6. CASE Default
    BY <1>6, DefaultInv
  <1>7. CASE \E t \in Benchmarks, ok \in BOOLEAN : RunBench(t, ok)
    BY <1>7, RunBenchInv
  <1>8. CASE Finish
    BY <1>8, FinishInv
  <1>9. CASE UNCHANGED vars
    BY <1>9, StutterInv
  <1>10. QED
    BY <1>1, <1>2, <1>3, <1>4, <1>5, <1>6, <1>7, <1>8, <1>9 DEF Next

\* The inductive invariant holds in every state of dacapo.
THEOREM ParseInvariant == Spec => []ParseInv
  BY InitParseInv, NextParseInv, PTL DEF Spec

\* Whenever the runs of dacapo (181-184) start, the parse of 148-179 has
\* produced what its docstring promises: the benchmarks and counts the
\* command line names (all once when it names none), the '@' options
\* without their '@' for the harness and every other option for the VM.
THEOREM ParseAlwaysMatchesReference == Spec => []ParseMatchesReference
  <1>1. ParseInv => ParseMatchesReference
    BY DEF ParseInv, RunInv, ParseMatchesReference
  <1>2. QED
    BY ParseInvariant, <1>1, PTL

\* The checks of 156-168 let dacapo reach its runs only with a well-formed
\* benchmark part, and an IndexError, AssertionError or mx.abort of the
\* parse only ever refuses a malformed one.
THEOREM AcceptsWellFormedOnly == Spec => []AcceptsExactlyWellFormed
  <1>1. ParseInv => AcceptsExactlyWellFormed
    BY DEF ParseInv, RunInv, AcceptsExactlyWellFormed, Refusals
  <1>2. QED
    BY ParseInvariant, <1>1, PTL

(***************************************************************************)
(* Refinement: dacapo implements DaCapoCommand. Every step of the parse   *)
(* but the last is a stutter of the abstract command; an exception is its *)
(* Refuse, the default of 171-179 its Accept.                             *)
(***************************************************************************)
\* The mapped abstract state.
MappedTests == IF Parsing \/ outcome \in Refusals THEN <<>> ELSE numTests
MappedStage == IF Parsing THEN "parse" ELSE pc

LEMMA InitRefines == Init => Command!Init
  BY DEF Init, Command!Init, Parsing

\* A step of the parse loop either goes on, which the abstract command does
\* not see, or raises, which is its Refuse.
LEMMA LoopStepRefines ==
  ASSUME ParseInv, ParseInv', pc = "parse",
         UNCHANGED <<cmdLine, dacapoArgs, vmOpts, ran, failed>>,
         \/ pc' = "done" /\ outcome' \in Refusals
         \/ pc' = pc /\ outcome' = outcome
  PROVE  [Command!Next]_Command!vars
  <1>1. outcome = "none" /\ Parsing /\ MappedTests = <<>>
    BY DEF ParseInv, Parsing, MappedTests
  <1>2. CASE pc' = "done" /\ outcome' \in Refusals
    <2>1. ~AcceptedCmd(cmdLine)
      BY <1>2 DEF ParseInv, AcceptedCmd
    <2>2. ~Parsing' /\ MappedTests' = <<>>
      BY <1>2 DEF Parsing, MappedTests
    <2>3. Command!Refuse
      BY <1>1, <1>2, <2>1, <2>2 DEF Command!Refuse, MappedTests, Parsing
    <2>4. QED
      BY <2>3 DEF Command!Next
  <1>3. CASE pc' = pc /\ outcome' = outcome
    <2>1. Parsing' /\ MappedTests' = <<>>
      BY <1>1, <1>3 DEF Parsing, MappedTests
    <2>2. QED
      BY <1>1, <1>3, <2>1 DEF Command!vars, MappedTests, Parsing
  <1>4. QED
    BY <1>2, <1>3

\* The raise of the parse, by the branches of CountArg and NameArg.
LEMMA RaiseOrGoOn ==
  ASSUME NEW e, NEW bm, NEW n, NEW rest,
         \/ Raise(e) /\ e \in Refusals
         \/ Record(bm, n, rest)
  PROVE  \/ pc' = "done" /\ outcome' \in Refusals
         \/ pc' = pc /\ outcome' = outcome
  BY DEF Raise, Record, Refusals

\* Every step of dacapo is a step of DaCapoCommand or leaves its state alone.
LEMMA NextRefines ==
  ASSUME ParseInv, [Next]_vars
  PROVE  [Command!Next]_Command!vars
  <1>1. ParseInv'
    BY NextParseInv
  <1>2. CASE CheckLevel
    BY <1>2 DEF CheckLevel, Command!vars, Parsing
  <1>3. CASE LoopExit
    BY <1>3 DEF LoopExit, Command!vars, Parsing
  <1>4. CASE EmptyArg
    BY <1>1, <1>4, LoopStepRefines DEF EmptyArg, Raise, Refusals
  <1>5. CASE CountArg
    <2>1. /\ pc = "parse"
          /\ UNCHANGED <<cmdLine, dacapoArgs, vmOpts, ran, failed>>
          /\ \/ pc' = "done" /\ outcome' \in Refusals
             \/ pc' = pc /\ outcome' = outcome
      <3>1. pc = "parse" /\ UNCHANGED <<cmdLine, dacapoArgs, vmOpts, ran, failed>>
        BY <1>5 DEF CountArg
      <3>2. \/ Raise("IndexError") \/ Raise("AssertionError")
            \/ Record(args[2], ToInt(args[1]), Tail(Tail(args)))
        BY <1>5 DEF CountArg
      <3>3. QED
        BY <3>1, <3>2, RaiseOrGoOn DEF Refusals
    <2>2. QED
      BY <1>1, <2>1, LoopStepRefines
  <1>6. CASE NameArg
    <2>1. /\ pc = "parse"
          /\ UNCHANGED <<cmdLine, dacapoArgs, vmOpts, ran, failed>>
          /\ Record(args[1], 1, Tail(args))
      BY <1>6 DEF NameArg
    <2>2. QED
      BY <1>1, <2>1, RaiseOrGoOn, LoopStepRefines
  <1>7. CASE Default
    <2>1. RunInv' /\ pc' = "run" /\ outcome' = "none" /\ pc = "default"
      BY <1>1, <1>7 DEF ParseInv, Default
    <2>2. /\ AcceptedCmd(cmdLine)
          /\ numTests' = Requested(cmdLine)
          /\ dacapoArgs' = HarnessArgs(cmdLine)
          /\ vmOpts' = VmArgs(cmdLine)
      BY <1>7, <2>1 DEF RunInv, Default, AcceptedCmd, HarnessArgs, VmArgs
    <2>3. Parsing /\ ~Parsing' /\ MappedTests' = numTests'
      BY <2>1 DEF Parsing, MappedTests, Refusals
    <2>4. Command!Accept
      BY <1>7, <2>1, <2>2, <2>3 DEF Command!Accept, Default, MappedTests
    <2>5. QED
      BY <2>4 DEF Command!Next
  <1>8. CASE \E t \in Benchmarks, ok \in BOOLEAN : RunBench(t, ok)
    <2>1. PICK t \in Benchmarks, ok \in BOOLEAN : RunBench(t, ok)
      BY <1>8
    <2>2. ~Parsing /\ outcome = "none" /\ MappedTests = numTests
          /\ ~Parsing' /\ MappedTests' = numTests'
      BY <2>1 DEF RunBench, ParseInv, Parsing, MappedTests, Refusals
    <2>3. t \in DOMAIN MappedTests /\ Command!Run(t, ok)
      BY <2>1, <2>2 DEF RunBench, Command!Run, MappedTests, Parsing
    <2>4. \E u \in DOMAIN MappedTests, b \in BOOLEAN : Command!Run(u, b)
      BY <2>1, <2>3
    <2>5. QED
      BY <2>4, Zenon DEF Command!Next, MappedTests, Parsing
  <1>9. CASE Finish
    <2>1. ~Parsing /\ MappedTests = numTests /\ ~Parsing' /\ MappedTests' = numTests'
      BY <1>9 DEF Finish, ParseInv, Parsing, MappedTests, Refusals
    <2>2. Command!Finish
      BY <1>9, <2>1 DEF Finish, Command!Finish, MappedTests, Parsing
    <2>3. QED
      BY <2>2 DEF Command!Next
  <1>10. CASE UNCHANGED vars
    BY <1>10 DEF vars, Command!vars, Parsing
  <1>11. QED
    BY <1>2, <1>3, <1>4, <1>5, <1>6, <1>7, <1>8, <1>9, <1>10 DEF Next

\* dacapo implements what its docstring promises: the parse accepts or
\* refuses a command line as a whole, an accepted one fixes the reference's
\* benchmarks, counts and options, and exactly those benchmarks then run.
THEOREM DaCapoImplementsCommand == Spec => ImplementsCommand
  <1>1. Init => Command!Init
    BY InitRefines
  <1>2. ParseInv /\ [Next]_vars => [Command!Next]_Command!vars
    BY NextRefines
  <1>3. QED
    BY <1>1, <1>2, ParseInvariant, PTL DEF Spec, ImplementsCommand, Command!Spec

==============================================================================

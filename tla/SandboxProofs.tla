---------------------------- MODULE SandboxProofs ----------------------------
(***************************************************************************)
(* The invariants of Sandbox, for any number of cases, any outputs and any  *)
(* limit on what is read of them.  JudgingInv says where the processes are  *)
(* in a case, that every line printed is true of the processes of its case, *)
(* and what the host has made of the lines.  It is kept by every action,    *)
(* one lemma each.                                                         *)
(* Before that, what the comparison of outputs tells apart, for all texts.  *)
(***************************************************************************)
EXTENDS Sandbox, WellFoundedInduction, SequenceTheorems, TLAPS

Jobs == [box    : {"docker", "local"},
         type   : {"STANDARD", "INTERACTIVE", "COMMUNICATION"},
         mode   : {"EXACT", "SPJ"},
         prints : [Cases -> Outputs \cup {<<>>}]]

Lines == [index : Nat \ {0}, verdict : Verdicts]

All  == Players \cup Judges
Hows == Ends \cup {"none", "run"}

TypeInv ==
    /\ TypeOK /\ job \in Jobs /\ text \in Seq(Lines) /\ cases \in Seq(Lines)
    /\ job.type = "STANDARD" => \A k \in Cases : job.prints[k] \in Outputs

(* Where the processes are in a case. *)
ProcessesInv ==
    /\ \A p \in All : p \notin Procs => proc[p] # "run"
    /\ \A p \in reaped : proc[p] # "run"
    /\ at \in {"poll", "check"} => \A p \in Procs : proc[p] # "none"
    /\ at = "check" => job.type = "STANDARD" /\ (late \/ proc["sol"] # "run")
    /\ at \in {"start", "exit"} => \A p \in All : proc[p] # "run"

(* What the runner's verdict says of how the processes of a case were, and of its
   limit. *)
Says(v, ends, l) ==
    /\ v = "OK"  => \A p \in Procs : ends[p] = "zero"
    /\ v = "WA"  => /\ \A p \in Procs \cap Players : ends[p] = "zero"
                    /\ \E p \in Procs \cap Judges : ends[p] = "nonzero"
    /\ v = "RE"  => /\ \A p \in Procs \cap Players : ends[p] # "sigkill"
                    /\ \/ \E p \in Procs \cap Players : ends[p] \in {"nonzero", "signal"}
                       \/ \E p \in Procs \cap Judges : ends[p] \in {"signal", "sigkill"}
    /\ v = "MLE" => \E p \in Procs \cap Players : ends[p] = "sigkill"
    /\ v = "TLE" => l
    /\ v = "SE"  => ends = Nobody \/ (job.type = "STANDARD" /\ ends["sol"] \in Ends)

(* What was printed: lines numbered without gaps, OK but for the last one, each
   true of the processes of its case. *)
PrintedInv ==
    /\ \A i \in 1..Len(text) : text[i].index = i /\ Says(text[i].verdict, seen[i].ends, seen[i].late)
    /\ at = "exit" =>
         \/ Len(text) = NumCases
         \/ Len(text) \in 1..NumCases /\ text[Len(text)].verdict # "OK"
    /\ at # "exit" => caseNo = Len(text) + 1 /\ caseNo <= NumCases

(* What the host has made of it. *)
Sound(v, i) ==
    /\ v = "OK" => EndedWell(i)
    /\ v = "SE" => NotRun(i)
    /\ v \notin {"OK", "SE"} => Deserves(i, v)

NothingLeft == ~stray /\ \A p \in All : proc[p] # "run"

CollectedInv ==
    /\ stage \in {"collect", "spj", "verdict"} =>
         at \in {"exit", "dead"} /\ (job.box = "docker" => NothingLeft)
    /\ stage = "spj" => UsesChecker
    /\ stage \in {"spj", "verdict"} =>
         /\ Len(cases) <= NumCases
         /\ \A i \in 1..Len(cases) : Sound(cases[i].verdict, i)
         /\ at = "exit" => \/ Len(cases) = NumCases
                           \/ \E i \in 1..Len(cases) : cases[i].verdict # "OK"
    /\ stage = "verdict" /\ UsesChecker =>
         \A i \in 1..Len(cases) : cases[i].verdict = "OK" => ReadsRight(i)
    /\ stage \notin {"verdict", "end"} => \A k \in Cases : checked[k] = "no"
    /\ stage # "end" => result = NoResult

(* What the row says in the end. *)
ResultInv == AcceptedOnlyIfAllPass /\ FailureIsTheFirst /\ SilentOnlyIfBroken

JudgingInv == TypeInv /\ ProcessesInv /\ PrintedInv /\ CollectedInv /\ ResultInv

-----------------------------------------------------------------------------
(* Induction over numbers and over texts. *)

(* A set of naturals that is not empty has a least element. *)
LEMMA LeastOfNaturals ==
    ASSUME NEW S \in SUBSET Nat, S # {}
    PROVE  \E m \in S : \A k \in S : m <= k
  <1>1. IsWellFoundedOn(OpToRel(<,Nat), Nat)
    BY NatLessThanWellFounded
  <1>2. PICK m \in S : \A k \in S : ~ (<<k, m>> \in OpToRel(<,Nat))
    BY <1>1, WFMin
  <1>3. \A k \in S : <<k, m>> \in Nat \X Nat
    OBVIOUS
  <1>4. \A k \in S : ~(k < m)
    BY <1>2, <1>3 DEF OpToRel
  <1> QED BY <1>4

(* A set of the numbers to n with 0, and with each number the next, has them all. *)
LEMMA EveryNumber ==
    ASSUME NEW n \in Nat, NEW T \in SUBSET (0..n), 0 \in T,
           \A i \in 1..n : i - 1 \in T => i \in T
    PROVE  T = 0..n
  <1> SUFFICES ASSUME (0..n) \ T # {} PROVE FALSE
    OBVIOUS
  <1>1. PICK i \in (0..n) \ T : \A k \in (0..n) \ T : i <= k
    <2>1. (0..n) \ T \in SUBSET Nat
      OBVIOUS
    <2> QED BY <2>1, LeastOfNaturals
  <1>2. i # 0
    OBVIOUS
  <1>3. i \in 1..n /\ i - 1 \in 0..n /\ i - 1 < i
    BY <1>2
  <1> QED BY <1>1, <1>3

(* A set of texts with the empty one, and with each text also those that are one
   character longer, has them all: the least length of one it lacks is none. *)
LEMMA EveryText ==
    ASSUME NEW Char, NEW T \in SUBSET Seq(Char), <<>> \in T,
           \A s \in T : \A c \in Char : Append(s, c) \in T
    PROVE  T = Seq(Char)
  <1> SUFFICES ASSUME NEW s \in Seq(Char), s \notin T PROVE FALSE
    OBVIOUS
  <1> DEFINE lacking == {n \in Nat : \E t \in Seq(Char) : Len(t) = n /\ t \notin T}
  <1>1. lacking \in SUBSET Nat /\ lacking # {}
    <2>1. Len(s) \in lacking
      BY LenProperties
    <2> QED BY <2>1
  <1>2. PICK n \in lacking : \A k \in lacking : n <= k
    <2> HIDE DEF lacking
    <2> QED BY <1>1, LeastOfNaturals
  <1>3. PICK t \in Seq(Char) : Len(t) = n /\ t \notin T
    OBVIOUS
  <1>4. t # <<>>
    BY <1>3
  <1>5. PICK r \in Seq(Char), c \in Char : t = Append(r, c)
    BY <1>4, SequenceEmptyOrAppend
  <1>6. Len(r) \in Nat /\ Len(r) < n
    <2>1. Len(r) \in Nat /\ Len(Append(r, c)) = Len(r) + 1
      BY LenProperties, AppendProperties
    <2> QED BY <1>3, <1>5, <2>1
  <1>7. r \in T
    BY <1>2, <1>6
  <1> QED BY <1>3, <1>5, <1>7

(* after says what is made of every prefix of s by a function of what was made
   of the shorter one and the next character. *)
Follows(after, s, base, turn) ==
    /\ after[0] = base
    /\ \A i \in 1..Len(s) : after[i] = turn[<<after[i - 1], s[i]>>]

(* Every loop over a text has its results, *)
LEMMA LoopHasResults ==
    ASSUME NEW Char, NEW s \in Seq(Char), NEW A, NEW base \in A, NEW turn \in [A \X Char -> A]
    PROVE  \E after \in [0..Len(s) -> A] : Follows(after, s, base, turn)
  <1> DEFINE T == {t \in Seq(Char) :
                     \E after \in [0..Len(t) -> A] : Follows(after, t, base, turn)}
  <1>1. <<>> \in T
    <2> DEFINE none == [i \in 0..Len(<<>>) |-> base]
    <2>1. none \in [0..Len(<<>>) -> A] /\ none[0] = base
      OBVIOUS
    <2>2. Follows(none, <<>>, base, turn)
      <3>1. 1..Len(<<>>) = {}
        OBVIOUS
      <3>2. \A i \in 1..Len(<<>>) : none[i] = turn[<<none[i - 1], <<>>[i]>>]
        BY ONLY <3>1
      <3> QED BY ONLY <2>1, <3>2 DEF Follows
    <2> QED BY <2>1, <2>2
  <1>2. ASSUME NEW t \in T, NEW c \in Char PROVE Append(t, c) \in T
    <2>0. PICK n \in Nat : n = Len(t)
      BY LenProperties
    <2>1. PICK after \in [0..n -> A] : Follows(after, t, base, turn)
      BY <2>0
    <2> DEFINE longer == [i \in 0..(n + 1) |-> IF i <= n THEN after[i] ELSE turn[<<after[n], c>>]]
    <2>2. /\ Append(t, c) \in Seq(Char) /\ Len(Append(t, c)) = n + 1
          /\ \A i \in 1..n : Append(t, c)[i] = t[i]
          /\ Append(t, c)[n + 1] = c
      BY <2>0, AppendProperties
    <2>3. longer \in [0..(n + 1) -> A]
      OBVIOUS
    <2>4. longer[0] = base /\ longer[n + 1] = turn[<<longer[n], c>>]
      <3>1. longer[0] = after[0] /\ longer[n] = after[n]
        OBVIOUS
      <3>2. n + 1 \in 0..(n + 1) /\ ~(n + 1 <= n)
        OBVIOUS
      <3>3. longer[n + 1] = turn[<<after[n], c>>]
        BY <3>2
      <3> QED BY <2>1, <3>1, <3>3 DEF Follows
    <2>5. \A i \in 1..n : longer[i] = turn[<<longer[i - 1], t[i]>>]
      BY <2>0, <2>1 DEF Follows
    <2> HIDE DEF longer
    <2>6. \A i \in 1..(n + 1) : i \in 1..n \/ i = n + 1
      OBVIOUS
    <2>7. (n + 1) - 1 = n
      OBVIOUS
    <2>8. Follows(longer, Append(t, c), base, turn)
      BY <2>2, <2>4, <2>5, <2>6, <2>7 DEF Follows
    <2> QED BY <2>2, <2>3, <2>8
  <1>3. T \in SUBSET Seq(Char)
    OBVIOUS
  <1>4. T = Seq(Char)
    <2> HIDE DEF T
    <2> QED BY <1>1, <1>2, <1>3, EveryText
  <1> QED BY <1>4

(* and the loop over a text that is one character longer does the same first. *)
LEMMA OneMoreTurn ==
    ASSUME NEW Char, NEW s \in Seq(Char), NEW c \in Char, NEW base, NEW turn,
           NEW short, Follows(short, s, base, turn),
           NEW long, Follows(long, Append(s, c), base, turn)
    PROVE  long[Len(Append(s, c))] = turn[<<short[Len(s)], c>>]
  <1>0. PICK n \in Nat : n = Len(s)
    BY LenProperties
  <1>1. /\ Len(Append(s, c)) = n + 1
        /\ \A i \in 1..n : Append(s, c)[i] = s[i]
        /\ Append(s, c)[n + 1] = c
    BY <1>0, AppendProperties
  <1> DEFINE differ == {i \in 0..n : short[i] # long[i]}
  <1>2. differ = {}
    <2> SUFFICES ASSUME differ # {} PROVE FALSE
      OBVIOUS
    <2>1. differ \in SUBSET Nat
      OBVIOUS
    <2>2. PICK i \in differ : \A k \in differ : i <= k
      <3> HIDE DEF differ
      <3> QED BY <2>1, LeastOfNaturals
    <2>3. i # 0
      BY DEF Follows
    <2>4. i \in 1..n /\ i \in 1..(n + 1) /\ i - 1 \in 0..n /\ i - 1 < i
      BY <2>3
    <2>5. short[i - 1] = long[i - 1]
      BY <2>2, <2>4
    <2>6. short[i] = turn[<<short[i - 1], s[i]>>] /\ long[i] = turn[<<long[i - 1], s[i]>>]
      BY <1>0, <1>1, <2>4 DEF Follows
    <2> QED BY <2>5, <2>6
  <1>3. short[n] = long[n] /\ n + 1 \in 1..(n + 1) /\ (n + 1) - 1 = n
    BY <1>2
  <1>4. long[n + 1] = turn[<<long[(n + 1) - 1], Append(s, c)[n + 1]>>]
    BY <1>1, <1>3 DEF Follows
  <1> QED BY <1>0, <1>1, <1>3, <1>4

(* The same for what is only known to take a turn where the last one was of its kind; *)
TakesTurns(g, s, A, base, turn) ==
    /\ g[0] = base
    /\ \A i \in 1..Len(s) : g[i - 1] \in A => g[i] = turn[<<g[i - 1], s[i]>>]

(* it always was. *)
LEMMA TurnByTurn ==
    ASSUME NEW Char, NEW s \in Seq(Char), NEW A, NEW base \in A, NEW turn \in [A \X Char -> A],
           NEW g, TakesTurns(g, s, A, base, turn)
    PROVE  Follows(g, s, base, turn) /\ \A i \in 0..Len(s) : g[i] \in A
  <1>0. PICK n \in Nat : n = Len(s)
    BY LenProperties
  <1> DEFINE T == {i \in 0..n : g[i] \in A}
  <1>1. T \in SUBSET (0..n) /\ 0 \in T
    BY DEF TakesTurns
  <1>2. ASSUME NEW i \in 1..n, i - 1 \in T PROVE i \in T
    <2>1. g[i - 1] \in A /\ s[i] \in Char /\ i \in 0..n
      BY <1>0, <1>2, ElementOfSeq
    <2>2. g[i] = turn[<<g[i - 1], s[i]>>]
      BY <1>0, <2>1 DEF TakesTurns
    <2> QED BY <2>1, <2>2
  <1>3. T = 0..n
    <2> HIDE DEF T
    <2> QED BY <1>1, <1>2, EveryNumber
  <1>4. \A i \in 1..n : i - 1 \in 0..n
    OBVIOUS
  <1> QED BY <1>0, <1>3, <1>4 DEF Follows, TakesTurns

(* What a loop makes of each text, *)
Makes(F, Char, base, turn) ==
    \A s \in Seq(Char) : \E after : Follows(after, s, base, turn) /\ F[s] = after[Len(s)]

(* it makes of one character more by one more turn. *)
LEMMA LoopNext ==
    ASSUME NEW Char, NEW base, NEW turn, NEW F, Makes(F, Char, base, turn)
    PROVE  /\ F[<<>>] = base
           /\ \A s \in Seq(Char) : \A c \in Char : F[Append(s, c)] = turn[<<F[s], c>>]
  <1>1. F[<<>>] = base
    <2>1. PICK e \in Seq(Char) : e = <<>> /\ Len(e) = 0
      BY EmptySeq
    <2>2. PICK after : Follows(after, e, base, turn) /\ F[e] = after[Len(e)]
      BY <2>1 DEF Makes
    <2> QED BY <2>1, <2>2 DEF Follows
  <1>2. ASSUME NEW s \in Seq(Char), NEW c \in Char
        PROVE  F[Append(s, c)] = turn[<<F[s], c>>]
    <2>1. Append(s, c) \in Seq(Char)
      OBVIOUS
    <2>2. PICK short : Follows(short, s, base, turn) /\ F[s] = short[Len(s)]
      BY DEF Makes
    <2>3. PICK long : /\ Follows(long, Append(s, c), base, turn)
                      /\ F[Append(s, c)] = long[Len(Append(s, c))]
      BY <2>1 DEF Makes
    <2>4. long[Len(Append(s, c))] = turn[<<short[Len(s)], c>>]
      BY <2>2, <2>3, OneMoreTurn
    <2> QED BY <2>2, <2>3, <2>4
  <1> QED BY <1>1, <1>2

-----------------------------------------------------------------------------
(* The three loops of the comparison and its picture. *)

(* What the second loop holds, and where a pen is and what it has drawn. *)
Readings(Char) == [out : Seq(Char), line : Seq(Char)]
Pens(Char)     == [line : Nat, column : Nat, marks : SUBSET (Nat \X Nat \X Char)]

NothingRead == [out |-> <<>>, line |-> <<>>]
NewPen      == [line |-> 0, column |-> 0, marks |-> {}]

(* What one character does to the pen. *)
LEMMA DrawFacts ==
    ASSUME NEW Char, NEW pen \in Pens(Char), NEW c \in Char
    PROVE  /\ c = "LF" => Draw(pen, c) = [line |-> pen.line + 1, column |-> 0, marks |-> pen.marks]
           /\ c = "CR" => Draw(pen, c) = pen
           /\ c = "SP" => Draw(pen, c) = [line |-> pen.line, column |-> pen.column + 1, marks |-> pen.marks]
           /\ c \notin {"LF", "CR", "SP"} =>
                Draw(pen, c) = [line |-> pen.line, column |-> pen.column + 1,
                                marks |-> pen.marks \cup {<<pen.line, pen.column, c>>}]
  <1>1. PICK l \in Nat, k \in Nat, m \in SUBSET (Nat \X Nat \X Char) :
          pen = [line |-> l, column |-> k, marks |-> m]
    BY DEF Pens
  <1>2. CASE c = "LF"
    BY <1>1, <1>2 DEF Draw
  <1>3. CASE c = "CR"
    BY <1>3 DEF Draw
  <1>4. CASE c = "SP"
    BY <1>1, <1>4 DEF Draw
  <1>5. CASE c \notin {"LF", "CR", "SP"}
    BY <1>1, <1>5 DEF Draw
  <1> QED BY <1>2, <1>3, <1>4, <1>5

(* The pen stays a pen, and what is kept a text. *)
LEMMA DrawType ==
    ASSUME NEW Char, NEW pen \in Pens(Char), NEW c \in Char
    PROVE  Draw(pen, c) \in Pens(Char)
  <1>1. /\ pen.line \in Nat /\ pen.column \in Nat /\ pen.marks \subseteq Nat \X Nat \X Char
        /\ pen.marks \cup {<<pen.line, pen.column, c>>} \subseteq Nat \X Nat \X Char
    BY DEF Pens
  <1>2. ASSUME NEW l \in Nat, NEW k \in Nat, NEW m \in SUBSET (Nat \X Nat \X Char)
        PROVE  [line |-> l, column |-> k, marks |-> m] \in Pens(Char)
    BY DEF Pens
  <1>3. CASE c = "LF"
    BY <1>1, <1>2, <1>3, DrawFacts
  <1>4. CASE c = "CR"
    BY <1>4, DrawFacts
  <1>5. CASE c = "SP"
    BY <1>1, <1>2, <1>5, DrawFacts
  <1>6. CASE c \notin {"LF", "CR", "SP"}
    <2>1. pen.column + 1 \in Nat
      BY <1>1
    <2> QED BY <1>1, <1>2, <1>6, <2>1, DrawFacts
  <1> QED BY <1>3, <1>4, <1>5, <1>6

LEMMA KeepType ==
    ASSUME NEW Char, NEW kept \in Seq(Char), NEW c \in Char
    PROVE  Keep(kept, c) \in Seq(Char)
  BY DEF Keep

(* WithoutCR is a loop; what it makes of no text and of one more character. *)
LEMMA WithoutCRLoop ==
    ASSUME NEW Char, NEW s \in Seq(Char)
    PROVE  \E after : /\ Follows(after, s, <<>>, [x \in Seq(Char) \X Char |-> Keep(x[1], x[2])])
                      /\ WithoutCR(s) = after[Len(s)]
                      /\ \A i \in 0..Len(s) : after[i] \in Seq(Char)
  <1> DEFINE A == Seq(Char)
             turn == [x \in A \X Char |-> Keep(x[1], x[2])]
             Eq(f) == [i \in 0..Len(s) |-> IF i = 0 THEN <<>> ELSE Keep(f[i - 1], s[i])]
             g == CHOOSE f : f = Eq(f)
  <1>0. PICK n \in Nat : n = Len(s)
    BY LenProperties
  <1>1. /\ turn \in [A \X Char -> A] /\ <<>> \in A
        /\ \A a \in A : \A c \in Char : turn[<<a, c>>] = Keep(a, c)
    <2>1. \A a \in A : \A c \in Char : Keep(a, c) \in A
      BY KeepType
    <2>2. <<>> \in A
      OBVIOUS
    <2> HIDE DEF A
    <2> QED BY <2>1, <2>2
  <1>2. \A i \in 1..n : s[i] \in Char /\ i - 1 \in 0..n /\ i \in 0..n /\ i # 0
    BY <1>0, ElementOfSeq
  <1>3. PICK after \in [0..n -> A] : Follows(after, s, <<>>, turn)
    <2> HIDE DEF A, turn
    <2> QED BY <1>0, <1>1, LoopHasResults
  <1>4. after = Eq(after)
    <2> HIDE DEF A, turn
    <2>1. \A i \in 0..n : i = 0 \/ i \in 1..n
      OBVIOUS
    <2>2. \A i \in 0..n : after[i] = IF i = 0 THEN <<>> ELSE Keep(after[i - 1], s[i])
      BY <1>0, <1>1, <1>2, <1>3, <2>1 DEF Follows
    <2> QED BY <1>0, <2>2
  <1>5. g = Eq(g)
    <2> HIDE DEF Eq
    <2> QED BY <1>4
  <1>6. g[0] = <<>> /\ \A i \in 1..n : g[i] = Keep(g[i - 1], s[i])
    <2> HIDE DEF g
    <2>1. \A i \in 0..n : g[i] = IF i = 0 THEN <<>> ELSE Keep(g[i - 1], s[i])
      BY <1>0, <1>5
    <2> QED BY <1>2, <2>1
  <1>7. WithoutCR(s) = g[Len(s)]
    BY DEF WithoutCR
  <1>8. Follows(g, s, <<>>, turn) /\ \A i \in 0..Len(s) : g[i] \in A
    <2> HIDE DEF A, g, turn
    <2>1. TakesTurns(g, s, A, <<>>, turn)
      BY <1>0, <1>1, <1>2, <1>6 DEF TakesTurns
    <2> QED BY <1>1, <2>1, TurnByTurn
  <1> HIDE DEF g
  <1> QED BY <1>7, <1>8

LEMMA WithoutCRNext ==
    ASSUME NEW Char
    PROVE  /\ WithoutCR(<<>>) = <<>>
           /\ \A s \in Seq(Char) : WithoutCR(s) \in Seq(Char)
           /\ \A s \in Seq(Char) : \A c \in Char : WithoutCR(Append(s, c)) = Keep(WithoutCR(s), c)
  <1> DEFINE turn == [x \in Seq(Char) \X Char |-> Keep(x[1], x[2])]
             F == [s \in Seq(Char) |-> WithoutCR(s)]
  <1>1. \A s \in Seq(Char) : \E after : /\ Follows(after, s, <<>>, turn)
                                        /\ WithoutCR(s) = after[Len(s)]
                                        /\ \A i \in 0..Len(s) : after[i] \in Seq(Char)
    BY WithoutCRLoop
  <1>2. \A s \in Seq(Char) : F[s] = WithoutCR(s) /\ WithoutCR(s) \in Seq(Char)
    <2> HIDE DEF turn
    <2>1. \A s \in Seq(Char) : Len(s) \in 0..Len(s)
      OBVIOUS
    <2> QED BY <1>1, <2>1
  <1>3. \A s \in Seq(Char) : \A c \in Char :
          turn[<<WithoutCR(s), c>>] = Keep(WithoutCR(s), c) /\ Append(s, c) \in Seq(Char)
    BY <1>2
  <1> HIDE DEF turn, F
  <1>4. /\ F[<<>>] = <<>>
        /\ \A s \in Seq(Char) : \A c \in Char : F[Append(s, c)] = turn[<<F[s], c>>]
    <2>1. Makes(F, Char, <<>>, turn)
      BY <1>1, <1>2 DEF Makes
    <2> QED BY <2>1, LoopNext
  <1>5. WithoutCR(<<>>) = <<>>
    <2>1. <<>> \in Seq(Char)
      OBVIOUS
    <2> QED BY <1>2, <1>4, <2>1
  <1>6. \A s \in Seq(Char) : \A c \in Char : WithoutCR(Append(s, c)) = Keep(WithoutCR(s), c)
    <2> SUFFICES ASSUME NEW s \in Seq(Char), NEW c \in Char
                 PROVE  WithoutCR(Append(s, c)) = Keep(WithoutCR(s), c)
      OBVIOUS
    <2>1. F[Append(s, c)] = WithoutCR(Append(s, c)) /\ F[s] = WithoutCR(s)
      BY <1>2, <1>3
    <2>2. F[Append(s, c)] = turn[<<F[s], c>>]
      BY <1>4
    <2>3. turn[<<WithoutCR(s), c>>] = Keep(WithoutCR(s), c)
      BY <1>3
    <2> QED BY <2>1, <2>2, <2>3
  <1> QED BY <1>2, <1>5, <1>6

(* Drawing is a loop; what it makes of no text and of one more character. *)
LEMMA DrawingLoop ==
    ASSUME NEW Char, NEW s \in Seq(Char)
    PROVE  \E after : /\ Follows(after, s, NewPen, [x \in Pens(Char) \X Char |-> Draw(x[1], x[2])])
                      /\ Drawing(s) = after[Len(s)]
                      /\ \A i \in 0..Len(s) : after[i] \in Pens(Char)
  <1> DEFINE A == Pens(Char)
             turn == [x \in A \X Char |-> Draw(x[1], x[2])]
             Eq(f) == [i \in 0..Len(s) |-> IF i = 0 THEN NewPen ELSE Draw(f[i - 1], s[i])]
             g == CHOOSE f : f = Eq(f)
  <1>0. PICK n \in Nat : n = Len(s)
    BY LenProperties
  <1>1. /\ turn \in [A \X Char -> A] /\ NewPen \in A
        /\ \A a \in A : \A c \in Char : turn[<<a, c>>] = Draw(a, c)
    <2>1. \A a \in A : \A c \in Char : Draw(a, c) \in A
      BY DrawType
    <2>2. NewPen \in A
      BY DEF Pens, NewPen
    <2> HIDE DEF A
    <2> QED BY <2>1, <2>2
  <1>2. \A i \in 1..n : s[i] \in Char /\ i - 1 \in 0..n /\ i \in 0..n /\ i # 0
    BY <1>0, ElementOfSeq
  <1>3. PICK after \in [0..n -> A] : Follows(after, s, NewPen, turn)
    <2> HIDE DEF A, turn
    <2> QED BY <1>0, <1>1, LoopHasResults
  <1>4. after = Eq(after)
    <2> HIDE DEF A, turn
    <2>1. \A i \in 0..n : i = 0 \/ i \in 1..n
      OBVIOUS
    <2>2. \A i \in 0..n : after[i] = IF i = 0 THEN NewPen ELSE Draw(after[i - 1], s[i])
      BY <1>0, <1>1, <1>2, <1>3, <2>1 DEF Follows
    <2> QED BY <1>0, <2>2
  <1>5. g = Eq(g)
    <2> HIDE DEF Eq
    <2> QED BY <1>4
  <1>6. g[0] = NewPen /\ \A i \in 1..n : g[i] = Draw(g[i - 1], s[i])
    <2> HIDE DEF g
    <2>1. \A i \in 0..n : g[i] = IF i = 0 THEN NewPen ELSE Draw(g[i - 1], s[i])
      BY <1>0, <1>5
    <2> QED BY <1>2, <2>1
  <1>7. Drawing(s) = g[Len(s)]
    BY DEF Drawing, NewPen
  <1>8. Follows(g, s, NewPen, turn) /\ \A i \in 0..Len(s) : g[i] \in A
    <2> HIDE DEF A, g, turn
    <2>1. TakesTurns(g, s, A, NewPen, turn)
      BY <1>0, <1>1, <1>2, <1>6 DEF TakesTurns
    <2> QED BY <1>1, <2>1, TurnByTurn
  <1> HIDE DEF g
  <1> QED BY <1>7, <1>8

LEMMA DrawingNext ==
    ASSUME NEW Char
    PROVE  /\ Drawing(<<>>) = NewPen
           /\ \A s \in Seq(Char) : Drawing(s) \in Pens(Char)
           /\ \A s \in Seq(Char) : \A c \in Char : Drawing(Append(s, c)) = Draw(Drawing(s), c)
  <1> DEFINE turn == [x \in Pens(Char) \X Char |-> Draw(x[1], x[2])]
             F == [s \in Seq(Char) |-> Drawing(s)]
  <1>1. \A s \in Seq(Char) : \E after : /\ Follows(after, s, NewPen, turn)
                                        /\ Drawing(s) = after[Len(s)]
                                        /\ \A i \in 0..Len(s) : after[i] \in Pens(Char)
    BY DrawingLoop
  <1>2. \A s \in Seq(Char) : F[s] = Drawing(s) /\ Drawing(s) \in Pens(Char)
    <2> HIDE DEF turn
    <2>1. \A s \in Seq(Char) : Len(s) \in 0..Len(s)
      OBVIOUS
    <2> QED BY <1>1, <2>1
  <1>3. \A s \in Seq(Char) : \A c \in Char :
          turn[<<Drawing(s), c>>] = Draw(Drawing(s), c) /\ Append(s, c) \in Seq(Char)
    BY <1>2
  <1> HIDE DEF turn, F
  <1>4. /\ F[<<>>] = NewPen
        /\ \A s \in Seq(Char) : \A c \in Char : F[Append(s, c)] = turn[<<F[s], c>>]
    <2>1. Makes(F, Char, NewPen, turn)
      BY <1>1, <1>2 DEF Makes
    <2> QED BY <2>1, LoopNext
  <1>5. Drawing(<<>>) = NewPen
    <2>1. <<>> \in Seq(Char)
      OBVIOUS
    <2> QED BY <1>2, <1>4, <2>1
  <1>6. \A s \in Seq(Char) : \A c \in Char : Drawing(Append(s, c)) = Draw(Drawing(s), c)
    <2> SUFFICES ASSUME NEW s \in Seq(Char), NEW c \in Char
                 PROVE  Drawing(Append(s, c)) = Draw(Drawing(s), c)
      OBVIOUS
    <2>1. F[Append(s, c)] = Drawing(Append(s, c)) /\ F[s] = Drawing(s)
      BY <1>2, <1>3
    <2>2. F[Append(s, c)] = turn[<<F[s], c>>]
      BY <1>4
    <2>3. turn[<<Drawing(s), c>>] = Draw(Drawing(s), c)
      BY <1>3
    <2> QED BY <2>1, <2>2, <2>3
  <1> QED BY <1>2, <1>5, <1>6

-----------------------------------------------------------------------------
(* Trimming. *)

(* What is left ends with a character that is not trimmed; only such are gone. *)
LEMMA TrimRightFacts ==
    ASSUME NEW Char, NEW s \in Seq(Char), NEW C
    PROVE  \E m \in 0..Len(s) : /\ TrimRight(s, C) = SubSeq(s, 1, m)
                                /\ TrimRight(s, C) \in Seq(Char)
                                /\ Len(TrimRight(s, C)) = m
                                /\ \A i \in 1..m : TrimRight(s, C)[i] = s[i]
                                /\ \A i \in (m + 1)..Len(s) : s[i] \in C
                                /\ m # 0 => s[m] \notin C
  <1> DEFINE kept == {0} \cup {i \in DOMAIN s : s[i] \notin C}
             below == {Len(s) - i : i \in kept}
  <1>0. Len(s) \in Nat /\ DOMAIN s = 1..Len(s) /\ s \in [1..Len(s) -> Char]
    OBVIOUS
  <1>1. 0 \in kept /\ \A i \in kept : i \in 0..Len(s)
    BY <1>0
  <1>2. PICK m \in kept : \A i \in kept : m >= i
    <2> HIDE DEF kept
    <2>1. below \in SUBSET Nat /\ below # {}
      BY <1>0, <1>1
    <2>2. PICK d \in below : \A k \in below : d <= k
      <3> HIDE DEF below
      <3> QED BY <2>1, LeastOfNaturals
    <2>3. PICK m \in kept : d = Len(s) - m
      BY <2>2
    <2>4. \A i \in kept : Len(s) - m <= Len(s) - i
      BY <2>2, <2>3
    <2> QED BY <1>0, <1>1, <2>4
  <1>3. Max(kept) = m
    <2> HIDE DEF kept
    <2>1. Max(kept) \in kept /\ \A i \in kept : Max(kept) >= i
      BY <1>2 DEF Max
    <2>2. Max(kept) \in 0..Len(s) /\ m \in 0..Len(s) /\ Max(kept) >= m /\ m >= Max(kept)
      BY <1>1, <1>2, <2>1
    <2> QED BY <1>0, <2>2
  <1>4. m \in 0..Len(s) /\ m \in Nat
    BY <1>0, <1>1
  <1>5. TrimRight(s, C) = SubSeq(s, 1, m)
    BY <1>3 DEF TrimRight
  <1>6. \A i \in 1..m : s[i] \in Char
    BY <1>0, <1>4
  <1>7. /\ SubSeq(s, 1, m) \in Seq(Char) /\ Len(SubSeq(s, 1, m)) = m
        /\ \A i \in 1..m : SubSeq(s, 1, m)[i] = s[i]
    BY <1>4, <1>6, SubSeqProperties
  <1>8. \A i \in (m + 1)..Len(s) : s[i] \in C
    <2> SUFFICES ASSUME NEW i \in (m + 1)..Len(s), s[i] \notin C PROVE FALSE
      OBVIOUS
    <2>1. i \in DOMAIN s /\ i > m
      BY <1>0, <1>4
    <2>2. i \in kept
      BY <2>1
    <2>3. m >= i
      BY <1>2, <2>2
    <2> QED BY <1>4, <2>1, <2>3
  <1>9. m # 0 => s[m] \notin C
    OBVIOUS
  <1> HIDE DEF kept
  <1> QED BY <1>4, <1>5, <1>7, <1>8, <1>9

(* Of nothing nothing is left. *)
LEMMA TrimRightEmpty ==
    ASSUME NEW C
    PROVE  TrimRight(<<>>, C) = <<>>
  <1>1. \A s \in Seq({}) : \E m \in 0..Len(s) : TrimRight(s, C) = SubSeq(s, 1, m)
    BY TrimRightFacts
  <1>2. PICK e \in Seq({}) : e = <<>> /\ Len(e) = 0
    BY EmptySeq
  <1>3. PICK m \in 0..Len(e) : TrimRight(e, C) = SubSeq(e, 1, m)
    BY <1>1
  <1>4. m = 0
    BY <1>2, <1>3
  <1>5. SubSeq(e, 1, 0) = <<>>
    BY SubSeqEmpty
  <1> QED BY <1>2, <1>3, <1>4, <1>5

LEMMA TrimRightType ==
    ASSUME NEW Char, NEW s \in Seq(Char), NEW C
    PROVE  TrimRight(s, C) \in Seq(Char)
  BY TrimRightFacts

(* One character more is trimmed, or is the end. *)
LEMMA TrimRightNext ==
    ASSUME NEW Char, NEW s \in Seq(Char), NEW c \in Char, NEW C
    PROVE  /\ c \in C => TrimRight(Append(s, c), C) = TrimRight(s, C)
           /\ c \notin C => TrimRight(Append(s, c), C) = Append(s, c)
  <1> DEFINE t == Append(s, c)
  <1>0. PICK n \in Nat : n = Len(s)
    BY LenProperties
  <1>1. /\ t \in Seq(Char) /\ Len(t) = n + 1
        /\ \A i \in 1..n : t[i] = s[i]
        /\ t[n + 1] = c
    BY <1>0, AppendProperties
  <1> HIDE DEF t
  <1>2. PICK k \in 0..n : /\ TrimRight(s, C) = SubSeq(s, 1, k)
                          /\ TrimRight(s, C) \in Seq(Char)
                          /\ Len(TrimRight(s, C)) = k
                          /\ \A i \in 1..k : TrimRight(s, C)[i] = s[i]
                          /\ \A i \in (k + 1)..n : s[i] \in C
                          /\ k # 0 => s[k] \notin C
    BY <1>0, TrimRightFacts
  <1>3. PICK m \in 0..(n + 1) : /\ TrimRight(t, C) = SubSeq(t, 1, m)
                                /\ TrimRight(t, C) \in Seq(Char)
                                /\ Len(TrimRight(t, C)) = m
                                /\ \A i \in 1..m : TrimRight(t, C)[i] = t[i]
                                /\ \A i \in (m + 1)..(n + 1) : t[i] \in C
                                /\ m # 0 => t[m] \notin C
    BY <1>1, TrimRightFacts
  <1>4. CASE c \in C
    <2>1. m # n + 1 /\ m \in 0..n
      BY <1>1, <1>3, <1>4
    <2>2. ~(m < k)
      <3> SUFFICES ASSUME m < k PROVE FALSE
        OBVIOUS
      <3>1. k \in (m + 1)..(n + 1) /\ k \in 1..n /\ k # 0
        BY <1>2, <2>1
      <3>2. t[k] \in C /\ t[k] = s[k] /\ s[k] \notin C
        BY <1>1, <1>2, <1>3, <3>1
      <3> QED BY <3>2
    <2>3. ~(k < m)
      <3> SUFFICES ASSUME k < m PROVE FALSE
        OBVIOUS
      <3>1. m \in (k + 1)..n /\ m \in 1..n /\ m # 0
        BY <1>2, <2>1
      <3>2. s[m] \in C /\ t[m] = s[m] /\ t[m] \notin C
        BY <1>1, <1>2, <1>3, <3>1
      <3> QED BY <3>2
    <2>4. m = k
      BY <2>1, <2>2, <2>3
    <2>5. \A i \in 1..k : TrimRight(t, C)[i] = TrimRight(s, C)[i]
      <3> SUFFICES ASSUME NEW i \in 1..k PROVE TrimRight(t, C)[i] = TrimRight(s, C)[i]
        OBVIOUS
      <3>1. i \in 1..n /\ i \in 1..m
        BY <2>4
      <3> QED BY <1>1, <1>2, <1>3, <3>1
    <2>6. TrimRight(t, C) = TrimRight(s, C)
      BY <1>2, <1>3, <2>4, <2>5, SeqEqual
    <2> QED BY <1>4, <2>6 DEF t
  <1>5. CASE c \notin C
    <2>1. ~(m < n + 1)
      <3> SUFFICES ASSUME m < n + 1 PROVE FALSE
        OBVIOUS
      <3>1. n + 1 \in (m + 1)..(n + 1)
        OBVIOUS
      <3> QED BY <1>1, <1>3, <1>5, <3>1
    <2>2. m = n + 1
      BY <2>1
    <2>3. TrimRight(t, C) = t
      BY <1>1, <1>3, <2>2, SeqEqual
    <2> QED BY <1>5, <2>3 DEF t
  <1> QED BY <1>4, <1>5

(* Lines are texts. *)
LEMMA PutLineType ==
    ASSUME NEW Char, "LF" \in Char, NEW out \in Seq(Char), NEW line \in Seq(Char)
    PROVE  PutLine(out, line) \in Seq(Char)
  <1>1. TrimRight(line, Blanks) \in Seq(Char)
    BY TrimRightType
  <1> QED BY <1>1 DEF PutLine

LEMMA ReadType ==
    ASSUME NEW Char, "LF" \in Char, NEW r \in Readings(Char), NEW c \in Char
    PROVE  Read(r, c) \in Readings(Char)
  <1>1. r.out \in Seq(Char) /\ r.line \in Seq(Char)
    BY DEF Readings
  <1>2. PutLine(r.out, r.line) \in Seq(Char) /\ Append(r.line, c) \in Seq(Char) /\ <<>> \in Seq(Char)
    BY <1>1, PutLineType
  <1> QED BY <1>1, <1>2 DEF Read, Readings

(* LinesOf is a loop; what it makes of no text and of one more character. *)
LEMMA LinesOfLoop ==
    ASSUME NEW Char, "LF" \in Char, NEW s \in Seq(Char)
    PROVE  \E after : /\ Follows(after, s, NothingRead, [x \in Readings(Char) \X Char |-> Read(x[1], x[2])])
                      /\ LinesOf(s) = after[Len(s)]
                      /\ \A i \in 0..Len(s) : after[i] \in Readings(Char)
  <1> DEFINE A == Readings(Char)
             turn == [x \in A \X Char |-> Read(x[1], x[2])]
             Eq(f) == [i \in 0..Len(s) |-> IF i = 0 THEN NothingRead ELSE Read(f[i - 1], s[i])]
             g == CHOOSE f : f = Eq(f)
  <1>0. PICK n \in Nat : n = Len(s)
    BY LenProperties
  <1>1. /\ turn \in [A \X Char -> A] /\ NothingRead \in A
        /\ \A a \in A : \A c \in Char : turn[<<a, c>>] = Read(a, c)
    <2>1. \A a \in A : \A c \in Char : Read(a, c) \in A
      BY ReadType
    <2>2. NothingRead \in A
      BY DEF Readings, NothingRead
    <2> HIDE DEF A
    <2> QED BY <2>1, <2>2
  <1>2. \A i \in 1..n : s[i] \in Char /\ i - 1 \in 0..n /\ i \in 0..n /\ i # 0
    BY <1>0, ElementOfSeq
  <1>3. PICK after \in [0..n -> A] : Follows(after, s, NothingRead, turn)
    <2> HIDE DEF A, turn
    <2> QED BY <1>0, <1>1, LoopHasResults
  <1>4. after = Eq(after)
    <2> HIDE DEF A, turn
    <2>1. \A i \in 0..n : i = 0 \/ i \in 1..n
      OBVIOUS
    <2>2. \A i \in 0..n : after[i] = IF i = 0 THEN NothingRead ELSE Read(after[i - 1], s[i])
      BY <1>0, <1>1, <1>2, <1>3, <2>1 DEF Follows
    <2> QED BY <1>0, <2>2
  <1>5. g = Eq(g)
    <2> HIDE DEF Eq
    <2> QED BY <1>4
  <1>6. g[0] = NothingRead /\ \A i \in 1..n : g[i] = Read(g[i - 1], s[i])
    <2> HIDE DEF g
    <2>1. \A i \in 0..n : g[i] = IF i = 0 THEN NothingRead ELSE Read(g[i - 1], s[i])
      BY <1>0, <1>5
    <2> QED BY <1>2, <2>1
  <1>7. LinesOf(s) = g[Len(s)]
    BY DEF LinesOf, NothingRead
  <1>8. Follows(g, s, NothingRead, turn) /\ \A i \in 0..Len(s) : g[i] \in A
    <2> HIDE DEF A, g, turn
    <2>1. TakesTurns(g, s, A, NothingRead, turn)
      BY <1>0, <1>1, <1>2, <1>6 DEF TakesTurns
    <2> QED BY <1>1, <2>1, TurnByTurn
  <1> HIDE DEF g
  <1> QED BY <1>7, <1>8

LEMMA LinesOfNext ==
    ASSUME NEW Char, "LF" \in Char
    PROVE  /\ LinesOf(<<>>) = NothingRead
           /\ \A s \in Seq(Char) : LinesOf(s) \in Readings(Char)
           /\ \A s \in Seq(Char) : \A c \in Char : LinesOf(Append(s, c)) = Read(LinesOf(s), c)
  <1> DEFINE turn == [x \in Readings(Char) \X Char |-> Read(x[1], x[2])]
             F == [s \in Seq(Char) |-> LinesOf(s)]
  <1>1. \A s \in Seq(Char) : \E after : /\ Follows(after, s, NothingRead, turn)
                                        /\ LinesOf(s) = after[Len(s)]
                                        /\ \A i \in 0..Len(s) : after[i] \in Readings(Char)
    BY LinesOfLoop
  <1>2. \A s \in Seq(Char) : F[s] = LinesOf(s) /\ LinesOf(s) \in Readings(Char)
    <2> HIDE DEF turn
    <2>1. \A s \in Seq(Char) : Len(s) \in 0..Len(s)
      OBVIOUS
    <2> QED BY <1>1, <2>1
  <1>3. \A s \in Seq(Char) : \A c \in Char :
          turn[<<LinesOf(s), c>>] = Read(LinesOf(s), c) /\ Append(s, c) \in Seq(Char)
    BY <1>2
  <1> HIDE DEF turn, F
  <1>4. /\ F[<<>>] = NothingRead
        /\ \A s \in Seq(Char) : \A c \in Char : F[Append(s, c)] = turn[<<F[s], c>>]
    <2>1. Makes(F, Char, NothingRead, turn)
      BY <1>1, <1>2 DEF Makes
    <2> QED BY <2>1, LoopNext
  <1>5. LinesOf(<<>>) = NothingRead
    <2>1. <<>> \in Seq(Char)
      OBVIOUS
    <2> QED BY <1>2, <1>4, <2>1
  <1>6. \A s \in Seq(Char) : \A c \in Char : LinesOf(Append(s, c)) = Read(LinesOf(s), c)
    <2> SUFFICES ASSUME NEW s \in Seq(Char), NEW c \in Char
                 PROVE  LinesOf(Append(s, c)) = Read(LinesOf(s), c)
      OBVIOUS
    <2>1. F[Append(s, c)] = LinesOf(Append(s, c)) /\ F[s] = LinesOf(s)
      BY <1>2, <1>3
    <2>2. F[Append(s, c)] = turn[<<F[s], c>>]
      BY <1>4
    <2>3. turn[<<LinesOf(s), c>>] = Read(LinesOf(s), c)
      BY <1>3
    <2> QED BY <2>1, <2>2, <2>3
  <1> QED BY <1>2, <1>5, <1>6

-----------------------------------------------------------------------------
(* Each loop leaves the picture as it is. *)

Unseen == {"SP", "CR", "LF"}

(* What cannot be seen leaves no mark, and what is trimmed moves no line. *)
LEMMA MarksNext ==
    ASSUME NEW Char, NEW s \in Seq(Char), NEW c \in Char
    PROVE  /\ Drawing(s) \in Pens(Char)
           /\ c \in Unseen => Drawing(Append(s, c)).marks = Drawing(s).marks
           /\ c \in Blanks => Drawing(Append(s, c)).line = Drawing(s).line
  <1>1. Drawing(s) \in Pens(Char) /\ Drawing(Append(s, c)) = Draw(Drawing(s), c)
    BY DrawingNext
  <1> DEFINE pen == Drawing(s)
  <1> HIDE DEF pen
  <1>2. pen \in Pens(Char) /\ Drawing(Append(s, c)) = Draw(pen, c)
    BY <1>1 DEF pen
  <1>3. CASE c = "LF"
    <2>1. Draw(pen, c) = [line |-> pen.line + 1, column |-> 0, marks |-> pen.marks]
      BY <1>2, <1>3, DrawFacts
    <2> QED BY <1>1, <1>2, <1>3, <2>1 DEF Unseen, Blanks, pen
  <1>4. CASE c = "CR"
    <2>1. Draw(pen, c) = pen
      BY <1>2, <1>4, DrawFacts
    <2> QED BY <1>1, <1>2, <1>4, <2>1 DEF Unseen, Blanks, pen
  <1>5. CASE c = "SP"
    <2>1. Draw(pen, c) = [line |-> pen.line, column |-> pen.column + 1, marks |-> pen.marks]
      BY <1>2, <1>5, DrawFacts
    <2> QED BY <1>1, <1>2, <1>5, <2>1 DEF Unseen, Blanks, pen
  <1>6. CASE c \notin Unseen
    BY <1>1, <1>6 DEF Unseen, Blanks
  <1> QED BY <1>3, <1>4, <1>5, <1>6 DEF Unseen

(* A character after the second text is one after both. *)
LEMMA ConcatAppend ==
    ASSUME NEW Char, NEW s \in Seq(Char), NEW t \in Seq(Char), NEW c \in Char
    PROVE  s \o Append(t, c) = Append(s \o t, c)
  <1>1. Append(t, c) = t \o <<c>> /\ Append(s \o t, c) = (s \o t) \o <<c>>
    BY AppendIsConcat, ConcatProperties
  <1>2. <<c>> \in Seq(Char)
    OBVIOUS
  <1>3. (s \o t) \o <<c>> = s \o (t \o <<c>>)
    BY <1>2, ConcatAssociative
  <1> QED BY <1>1, <1>3

(* CR takes no room, and none is left. *)
LEMMA WithoutCRLooksTheSame ==
    ASSUME NEW Char, NEW s \in Seq(Char)
    PROVE  /\ Drawing(WithoutCR(s)) = Drawing(s)
           /\ \A i \in 1..Len(WithoutCR(s)) : WithoutCR(s)[i] # "CR"
  <1> DEFINE Good(t) == /\ Drawing(WithoutCR(t)) = Drawing(t)
                        /\ \A i \in 1..Len(WithoutCR(t)) : WithoutCR(t)[i] # "CR"
             T == {t \in Seq(Char) : Good(t)}
  <1>1. <<>> \in T
    <2>1. WithoutCR(<<>>) = <<>> /\ <<>> \in Seq(Char) /\ Len(<<>>) = 0
      BY WithoutCRNext, EmptySeq
    <2> QED BY <2>1
  <1>2. ASSUME NEW t \in T, NEW c \in Char PROVE Append(t, c) \in T
    <2>1. /\ t \in Seq(Char) /\ Append(t, c) \in Seq(Char) /\ WithoutCR(t) \in Seq(Char)
          /\ WithoutCR(Append(t, c)) = Keep(WithoutCR(t), c)
      BY WithoutCRNext
    <2>2. Drawing(Append(t, c)) = Draw(Drawing(t), c) /\ Drawing(t) \in Pens(Char)
      BY <2>1, DrawingNext
    <2>3. CASE c = "CR"
      <3>1. Draw(Drawing(t), c) = Drawing(t)
        BY <2>2, <2>3, DrawFacts
      <3>2. WithoutCR(Append(t, c)) = WithoutCR(t)
        BY <2>1, <2>3 DEF Keep
      <3> QED BY <2>1, <2>2, <3>1, <3>2
    <2>4. CASE c # "CR"
      <3>1. WithoutCR(Append(t, c)) = Append(WithoutCR(t), c)
        BY <2>1, <2>4 DEF Keep
      <3>2. Drawing(Append(WithoutCR(t), c)) = Draw(Drawing(WithoutCR(t)), c)
        BY <2>1, DrawingNext
      <3>3. Drawing(WithoutCR(Append(t, c))) = Drawing(Append(t, c))
        BY <2>2, <3>1, <3>2
      <3>4. \A i \in 1..Len(WithoutCR(Append(t, c))) : WithoutCR(Append(t, c))[i] # "CR"
        <4> DEFINE w == WithoutCR(t)
        <4>1. w \in Seq(Char) /\ \A i \in 1..Len(w) : w[i] # "CR"
          BY <2>1
        <4> HIDE DEF w
        <4>2. \A i \in 1..Len(Append(w, c)) : Append(w, c)[i] # "CR"
          BY <2>4, <4>1
        <4> QED BY <3>1, <4>2 DEF w
      <3> QED BY <2>1, <3>3, <3>4
    <2> QED BY <2>3, <2>4
  <1>3. T \in SUBSET Seq(Char)
    OBVIOUS
  <1>4. T = Seq(Char)
    <2> HIDE DEF T
    <2> QED BY <1>1, <1>2, <1>3, EveryText
  <1> QED BY <1>4

(* What cannot be seen may go from the end. *)
LEMMA TrimmedLooksTheSame ==
    ASSUME NEW Char, NEW s \in Seq(Char), NEW Cut, Cut \subseteq Unseen
    PROVE  Picture(TrimRight(s, Cut)) = Picture(s)
  <1>0. /\ \A t \in Seq(Char) : \A c \in Char : c \in Cut => TrimRight(Append(t, c), Cut) = TrimRight(t, Cut)
        /\ \A t \in Seq(Char) : \A c \in Char : c \notin Cut => TrimRight(Append(t, c), Cut) = Append(t, c)
    BY TrimRightNext
  <1> DEFINE T == {t \in Seq(Char) : Picture(TrimRight(t, Cut)) = Picture(t)}
  <1>1. <<>> \in T
    BY TrimRightEmpty, EmptySeq
  <1>2. ASSUME NEW t \in T, NEW c \in Char PROVE Append(t, c) \in T
    <2>1. /\ t \in Seq(Char) /\ Append(t, c) \in Seq(Char)
          /\ c \in Cut => TrimRight(Append(t, c), Cut) = TrimRight(t, Cut)
          /\ c \notin Cut => TrimRight(Append(t, c), Cut) = Append(t, c)
      <3>1. t \in Seq(Char) /\ Append(t, c) \in Seq(Char)
        OBVIOUS
      <3>2. c \in Cut => TrimRight(Append(t, c), Cut) = TrimRight(t, Cut)
        BY ONLY <1>0, <3>1
      <3>3. c \notin Cut => TrimRight(Append(t, c), Cut) = Append(t, c)
        BY ONLY <1>0, <3>1
      <3> QED BY <3>1, <3>2, <3>3
    <2>2. CASE c \in Cut
      <3>1. Picture(Append(t, c)) = Picture(t)
        BY <2>1, <2>2, MarksNext DEF Picture
      <3> QED BY <2>1, <2>2, <3>1
    <2>3. CASE c \notin Cut
      BY <2>1, <2>3
    <2> QED BY <2>2, <2>3
  <1>3. T \in SUBSET Seq(Char)
    OBVIOUS
  <1>4. T = Seq(Char)
    <2> HIDE DEF T
    <2> QED BY <1>1, <1>2, <1>3, EveryText
  <1> QED BY <1>4

(* The blanks at the end of a line that is put out change neither. *)
LEMMA PutLineLooksTheSame ==
    ASSUME NEW Char, "LF" \in Char, NEW out \in Seq(Char), NEW line \in Seq(Char)
    PROVE  Drawing(PutLine(out, line)) = Drawing(Append(out \o line, "LF"))
  <1>0. /\ \A t \in Seq(Char) : \A c \in Char : c \in Blanks => TrimRight(Append(t, c), Blanks) = TrimRight(t, Blanks)
        /\ \A t \in Seq(Char) : \A c \in Char : c \notin Blanks => TrimRight(Append(t, c), Blanks) = Append(t, c)
    BY TrimRightNext
  <1> DEFINE Alike(s, t) == s.line = t.line /\ s.marks = t.marks
             Good(l) == Alike(Drawing(out \o TrimRight(l, Blanks)), Drawing(out \o l))
             T == {l \in Seq(Char) : Good(l)}
  <1>1. <<>> \in T
    <2>1. TrimRight(<<>>, Blanks) = <<>> /\ <<>> \in Seq(Char)
      BY TrimRightEmpty, EmptySeq
    <2> QED BY <2>1
  <1>2. ASSUME NEW l \in T, NEW c \in Char PROVE Append(l, c) \in T
    <2>1. /\ l \in Seq(Char) /\ Append(l, c) \in Seq(Char) /\ out \o l \in Seq(Char)
          /\ c \in Blanks => TrimRight(Append(l, c), Blanks) = TrimRight(l, Blanks)
          /\ c \notin Blanks => TrimRight(Append(l, c), Blanks) = Append(l, c)
      <3>1. l \in Seq(Char) /\ Append(l, c) \in Seq(Char) /\ out \o l \in Seq(Char)
        OBVIOUS
      <3>2. c \in Blanks => TrimRight(Append(l, c), Blanks) = TrimRight(l, Blanks)
        BY ONLY <1>0, <3>1
      <3>3. c \notin Blanks => TrimRight(Append(l, c), Blanks) = Append(l, c)
        BY ONLY <1>0, <3>1
      <3> QED BY <3>1, <3>2, <3>3
    <2>2. out \o Append(l, c) = Append(out \o l, c)
      BY <2>1, ConcatAppend
    <2>3. CASE c \in Blanks
      <3>1. Alike(Drawing(Append(out \o l, c)), Drawing(out \o l))
        BY <2>1, <2>3, MarksNext DEF Blanks, Unseen
      <3> QED BY <2>1, <2>2, <2>3, <3>1
    <2>4. CASE c \notin Blanks
      BY <2>1, <2>4
    <2> QED BY <2>3, <2>4
  <1>3. T \in SUBSET Seq(Char)
    OBVIOUS
  <1>4. T = Seq(Char)
    <2> HIDE DEF T
    <2> QED BY <1>1, <1>2, <1>3, EveryText
  <1> DEFINE a == out \o TrimRight(line, Blanks)
             b == out \o line
  <1>5. a \in Seq(Char) /\ b \in Seq(Char)
    <2>1. TrimRight(line, Blanks) \in Seq(Char)
      BY TrimRightType
    <2> QED BY <2>1, ConcatProperties
  <1>6. Alike(Drawing(a), Drawing(b))
    BY <1>4
  <1> HIDE DEF a, b
  <1>7. /\ Drawing(Append(a, "LF")) = [line |-> Drawing(a).line + 1, column |-> 0, marks |-> Drawing(a).marks]
        /\ Drawing(Append(b, "LF")) = [line |-> Drawing(b).line + 1, column |-> 0, marks |-> Drawing(b).marks]
    BY <1>5, DrawingNext, DrawFacts
  <1>8. Drawing(Append(a, "LF")) = Drawing(Append(b, "LF"))
    BY <1>6, <1>7
  <1> QED BY <1>8 DEF PutLine, a, b

(* What was put out and the line being read look like what was read. *)
LEMMA LinesLookTheSame ==
    ASSUME NEW Char, "LF" \in Char, NEW s \in Seq(Char)
    PROVE  Drawing(LinesOf(s).out \o LinesOf(s).line) = Drawing(s)
  <1> DEFINE T == {t \in Seq(Char) : Drawing(LinesOf(t).out \o LinesOf(t).line) = Drawing(t)}
  <1>1. <<>> \in T
    <2>1. LinesOf(<<>>).out = <<>> /\ LinesOf(<<>>).line = <<>> /\ <<>> \in Seq(Char)
      BY LinesOfNext, EmptySeq DEF NothingRead
    <2>2. <<>> \o <<>> = <<>>
      OBVIOUS
    <2> QED BY <2>1, <2>2
  <1>2. ASSUME NEW t \in T, NEW c \in Char PROVE Append(t, c) \in T
    <2> DEFINE r == LinesOf(t)
    <2>1. /\ t \in Seq(Char) /\ Append(t, c) \in Seq(Char) /\ r \in Readings(Char)
          /\ LinesOf(Append(t, c)) = Read(r, c)
          /\ Drawing(Append(t, c)) = Draw(Drawing(t), c)
      BY LinesOfNext, DrawingNext
    <2>2. r.out \in Seq(Char) /\ r.line \in Seq(Char) /\ r.out \o r.line \in Seq(Char)
      BY <2>1 DEF Readings
    <2>3. Drawing(r.out \o r.line) = Drawing(t)
      OBVIOUS
    <2> HIDE DEF r
    <2>4. Drawing(Append(r.out \o r.line, c)) = Draw(Drawing(t), c)
      BY <2>2, <2>3, DrawingNext
    <2>5. CASE c = "LF"
      <3>1. Read(r, c).out = PutLine(r.out, r.line) /\ Read(r, c).line = <<>>
        BY <2>5 DEF Read
      <3>2. PutLine(r.out, r.line) \in Seq(Char)
        BY <2>2, PutLineType
      <3>3. PutLine(r.out, r.line) \o <<>> = PutLine(r.out, r.line)
        BY <3>2, ConcatEmptySeq
      <3>4. Drawing(PutLine(r.out, r.line)) = Drawing(Append(r.out \o r.line, "LF"))
        BY <2>2, PutLineLooksTheSame
      <3> QED BY <2>1, <2>4, <2>5, <3>1, <3>3, <3>4
    <2>6. CASE c # "LF"
      <3>1. Read(r, c).out = r.out /\ Read(r, c).line = Append(r.line, c)
        BY <2>6 DEF Read
      <3>2. r.out \o Append(r.line, c) = Append(r.out \o r.line, c)
        <4>1. \A t1, t2 \in Seq(Char) : t1 \o Append(t2, c) = Append(t1 \o t2, c)
          BY ConcatAppend
        <4> QED BY <2>2, <4>1
      <3> QED BY <2>1, <2>4, <3>1, <3>2
    <2> QED BY <2>5, <2>6
  <1>3. T \in SUBSET Seq(Char)
    OBVIOUS
  <1>4. T = Seq(Char)
    <2> HIDE DEF T
    <2> QED BY <1>1, <1>2, <1>3, EveryText
  <1> QED BY <1>4

(* A text and its normal form have one picture. *)
LEMMA NormalLooksTheSame ==
    ASSUME NEW Char, "LF" \in Char, NEW s \in Seq(Char)
    PROVE  /\ Normalize(s) \in Seq(Char)
           /\ Picture(Normalize(s)) = Picture(s)
  <1> DEFINE w == WithoutCR(s)
             r == LinesOf(w)
  <1>1. w \in Seq(Char) /\ Drawing(w) = Drawing(s)
    BY WithoutCRNext, WithoutCRLooksTheSame
  <1> HIDE DEF w
  <1>2. r \in Readings(Char) /\ Drawing(r.out \o r.line) = Drawing(w)
    BY <1>1, LinesOfNext, LinesLookTheSame
  <1>3. TrimmedLines(w) = IF r.line = <<>> THEN r.out ELSE PutLine(r.out, r.line)
    BY DEF TrimmedLines
  <1> HIDE DEF r
  <1>4. r.out \in Seq(Char) /\ r.line \in Seq(Char) /\ r.out \o r.line \in Seq(Char)
    BY <1>2 DEF Readings
  <1>5. TrimmedLines(w) \in Seq(Char) /\ Picture(TrimmedLines(w)) = Picture(w)
    <2>1. CASE r.line = <<>>
      BY <1>2, <1>3, <1>4, <2>1, ConcatEmptySeq DEF Picture
    <2>2. CASE r.line # <<>>
      <3>1. PutLine(r.out, r.line) \in Seq(Char)
        BY <1>4, PutLineType
      <3>2. Drawing(PutLine(r.out, r.line)) = Drawing(Append(r.out \o r.line, "LF"))
        BY <1>4, PutLineLooksTheSame
      <3>3. Drawing(Append(r.out \o r.line, "LF")).marks = Drawing(r.out \o r.line).marks
        BY <1>4, MarksNext DEF Unseen
      <3> QED BY <1>2, <1>3, <2>2, <3>1, <3>2, <3>3 DEF Picture
    <2> QED BY <2>1, <2>2
  <1>6. /\ TrimRight(TrimmedLines(w), {"LF"}) \in Seq(Char)
        /\ Picture(TrimRight(TrimmedLines(w), {"LF"})) = Picture(TrimmedLines(w))
    BY <1>5, TrimRightType, TrimmedLooksTheSame DEF Unseen
  <1> QED BY <1>1, <1>5, <1>6 DEF Normalize, Picture, w

-----------------------------------------------------------------------------
(* What a normal form is like: every blank has something before the line's end. *)

Tidy(s) ==
    \A i \in 1..Len(s) : /\ s[i] # "CR"
                         /\ s[i] = "SP" => i + 1 \in 1..Len(s) /\ s[i + 1] # "LF"

Normal(s) == Tidy(s) /\ (s # <<>> => s[Len(s)] # "LF")

(* A line that is put out is tidy. *)
LEMMA PutLineTidy ==
    ASSUME NEW Char, "LF" \in Char, NEW out \in Seq(Char), NEW line \in Seq(Char), Tidy(out),
           \A i \in 1..Len(line) : line[i] \notin {"CR", "LF"}
    PROVE  Tidy(PutLine(out, line))
  <1>0. Len(out) \in Nat
    OBVIOUS
  <1>1. PICK m \in 0..Len(line) : /\ TrimRight(line, Blanks) \in Seq(Char)
                                  /\ Len(TrimRight(line, Blanks)) = m
                                  /\ \A i \in 1..m : TrimRight(line, Blanks)[i] = line[i]
                                  /\ m # 0 => line[m] \notin Blanks
    BY TrimRightFacts
  <1> DEFINE t == TrimRight(line, Blanks)
             n == Len(out)
  <1>2. /\ t \in Seq(Char) /\ Len(t) = m /\ m \in Nat
        /\ \A i \in 1..m : t[i] \notin {"CR", "LF"}
        /\ m # 0 => t[m] # "SP"
    <2>1. m \in Nat /\ \A i \in 1..m : i \in 1..Len(line)
      OBVIOUS
    <2>2. m # 0 => m \in 1..m
      BY <2>1
    <2> QED BY <1>1, <2>1, <2>2 DEF Blanks
  <1> HIDE DEF t, n
  <1>3. n \in Nat /\ Len(out) = n
    BY <1>0 DEF n
  <1> DEFINE p == Append(out \o t, "LF")
  <1>4. /\ p \in Seq(Char) /\ Len(p) = n + m + 1
        /\ \A i \in 1..n : p[i] = out[i]
        /\ \A i \in 1..m : p[n + i] = t[i]
        /\ p[n + m + 1] = "LF"
    <2> DEFINE q == out \o t
    <2>0. /\ q \in Seq(Char) /\ Len(q) = Len(out) + Len(t)
          /\ \A i \in 1..(Len(out) + Len(t)) : q[i] = IF i <= Len(out) THEN out[i] ELSE t[i - Len(out)]
      <3>1. t \in Seq(Char)
        BY <1>2
      <3> QED BY ONLY <3>1, out \in Seq(Char), ConcatProperties, Zenon
    <2>1. /\ q \in Seq(Char) /\ Len(q) = n + m
          /\ \A i \in 1..(n + m) : q[i] = IF i <= n THEN out[i] ELSE t[i - n]
      BY <1>2, <1>3, <2>0
    <2> HIDE DEF q
    <2>2. \A i \in 1..n : q[i] = out[i]
      BY <1>2, <1>3, <2>1
    <2>3. \A i \in 1..m : q[n + i] = t[i]
      <3>1. \A i \in 1..m : n + i \in 1..(n + m) /\ ~(n + i <= n) /\ (n + i) - n = i
        BY <1>2, <1>3
      <3> QED BY <2>1, <3>1
    <2>4. /\ Append(q, "LF") \in Seq(Char) /\ Len(Append(q, "LF")) = n + m + 1
          /\ Append(q, "LF")[n + m + 1] = "LF"
          /\ \A i \in 1..(n + m) : Append(q, "LF")[i] = q[i]
      BY <2>1, AppendProperties
    <2>5. (\A i \in 1..n : i \in 1..(n + m)) /\ (\A i \in 1..m : n + i \in 1..(n + m))
      BY <1>2, <1>3
    <2> QED BY <2>2, <2>3, <2>4, <2>5 DEF q
  <1> HIDE DEF p
  <1>5. ASSUME NEW i \in 1..Len(p)
        PROVE  p[i] # "CR" /\ (p[i] = "SP" => i + 1 \in 1..Len(p) /\ p[i + 1] # "LF")
    <2>1. CASE i <= n
      <3>1. i \in 1..n /\ p[i] = out[i]
        BY <1>3, <1>4, <2>1
      <3>2. out[i] # "CR" /\ (out[i] = "SP" => i + 1 \in 1..n /\ out[i + 1] # "LF")
        BY <1>3, <3>1 DEF Tidy
      <3>3. i + 1 \in 1..n => i + 1 \in 1..Len(p)
        BY <1>2, <1>3, <1>4
      <3> QED BY <1>4, <3>1, <3>2, <3>3
    <2>2. CASE i > n /\ i < n + m + 1
      <3>1. PICK k \in 1..m : i = n + k
        <4>1. i - n \in 1..m /\ i = n + (i - n)
          BY <1>2, <1>3, <1>4, <2>2
        <4> QED BY <4>1
      <3>2. p[i] = t[k] /\ t[k] \notin {"CR", "LF"}
        BY <1>2, <1>4, <3>1
      <3>3. ASSUME t[k] = "SP" PROVE i + 1 \in 1..Len(p) /\ p[i + 1] # "LF"
        <4>1. k # m
          BY <1>2, <3>1, <3>3
        <4>2. k + 1 \in 1..m /\ i + 1 = n + (k + 1) /\ i + 1 \in 1..(n + m + 1)
          BY <1>2, <1>3, <3>1, <4>1
        <4>3. p[i + 1] = t[k + 1] /\ t[k + 1] # "LF"
          BY <1>2, <1>4, <4>2
        <4> QED BY <1>4, <4>2, <4>3
      <3> QED BY <3>2, <3>3
    <2>3. CASE i = n + m + 1
      BY <1>4, <2>3
    <2> QED BY <1>2, <1>3, <1>4, <2>1, <2>2, <2>3
  <1> QED BY <1>5 DEF Tidy, PutLine, p, t

(* All that the second loop puts out of a text without CR is tidy. *)
LEMMA LinesAreTidy ==
    ASSUME NEW Char, "LF" \in Char, NEW s \in Seq(Char), \A i \in 1..Len(s) : s[i] # "CR"
    PROVE  /\ Tidy(LinesOf(s).out)
           /\ \A i \in 1..Len(LinesOf(s).line) : LinesOf(s).line[i] \notin {"CR", "LF"}
  <1> DEFINE NoCR(t) == \A i \in 1..Len(t) : t[i] # "CR"
             Good(r) == /\ Tidy(r.out)
                        /\ \A i \in 1..Len(r.line) : r.line[i] \notin {"CR", "LF"}
             T == {t \in Seq(Char) : NoCR(t) => Good(LinesOf(t))}
  <1>0. Len(<<>>) = 0 /\ 1..Len(<<>>) = {}
    OBVIOUS
  <1>1. <<>> \in T
    <2>1. LinesOf(<<>>).out = <<>> /\ LinesOf(<<>>).line = <<>>
      BY LinesOfNext DEF NothingRead
    <2>2. Tidy(<<>>)
      BY <1>0 DEF Tidy
    <2> QED BY <1>0, <2>1, <2>2, EmptySeq
  <1>2. ASSUME NEW t \in T, NEW c \in Char PROVE Append(t, c) \in T
    <2> DEFINE r == LinesOf(t)
    <2>0. t \in Seq(Char) /\ Append(t, c) \in Seq(Char)
      OBVIOUS
    <2>1. r \in Readings(Char) /\ LinesOf(Append(t, c)) = Read(r, c)
      BY <2>0, LinesOfNext
    <2>2. r.out \in Seq(Char) /\ r.line \in Seq(Char)
      BY <2>1 DEF Readings
    <2>3. NoCR(t) => Good(r)
      OBVIOUS
    <2> HIDE DEF r
    <2>4. NoCR(Append(t, c)) => NoCR(t) /\ c # "CR"
      BY <2>0, AppendProperties
    <2>5. ASSUME Good(r), c # "CR" PROVE Good(Read(r, c))
      <3>1. CASE c = "LF"
        <4>1. Read(r, c).out = PutLine(r.out, r.line) /\ Read(r, c).line = <<>>
          BY <3>1 DEF Read
        <4>2. Tidy(PutLine(r.out, r.line))
          BY <2>2, <2>5, PutLineTidy
        <4> QED BY <1>0, <4>1, <4>2
      <3>2. CASE c # "LF"
        <4>1. Read(r, c).out = r.out /\ Read(r, c).line = Append(r.line, c)
          BY <3>2 DEF Read
        <4> DEFINE l == r.line
        <4>2. l \in Seq(Char) /\ \A i \in 1..Len(l) : l[i] \notin {"CR", "LF"}
          BY <2>2, <2>5
        <4> HIDE DEF l
        <4>3. \A i \in 1..Len(Append(l, c)) : Append(l, c)[i] \notin {"CR", "LF"}
          BY <2>5, <3>2, <4>2
        <4> QED BY <2>5, <4>1, <4>3 DEF l
      <3> QED BY <3>1, <3>2
    <2> HIDE DEF NoCR, Good
    <2>6. NoCR(Append(t, c)) => Good(LinesOf(Append(t, c)))
      BY <2>1, <2>3, <2>4, <2>5
    <2> QED BY <2>0, <2>6
  <1>3. T \in SUBSET Seq(Char)
    OBVIOUS
  <1>4. T = Seq(Char)
    <2> HIDE DEF T
    <2> QED BY <1>1, <1>2, <1>3, EveryText
  <1> QED BY <1>4

(* A normal form is normal. *)
LEMMA NormalizeIsNormal ==
    ASSUME NEW Char, "LF" \in Char, NEW s \in Seq(Char)
    PROVE  Normal(Normalize(s))
  <1> DEFINE w == WithoutCR(s)
             r == LinesOf(w)
             x == TrimmedLines(w)
  <1>1. w \in Seq(Char) /\ \A i \in 1..Len(w) : w[i] # "CR"
    BY WithoutCRNext, WithoutCRLooksTheSame
  <1> HIDE DEF w
  <1>2. x = IF r.line = <<>> THEN r.out ELSE PutLine(r.out, r.line)
    BY DEF TrimmedLines
  <1>3. /\ r \in Readings(Char) /\ Tidy(r.out)
        /\ \A i \in 1..Len(r.line) : r.line[i] \notin {"CR", "LF"}
    BY <1>1, LinesOfNext, LinesAreTidy
  <1> HIDE DEF r, x
  <1>4. r.out \in Seq(Char) /\ r.line \in Seq(Char)
    BY <1>3 DEF Readings
  <1>5. x \in Seq(Char) /\ Tidy(x)
    <2>1. PutLine(r.out, r.line) \in Seq(Char) /\ Tidy(PutLine(r.out, r.line))
      BY <1>3, <1>4, PutLineType, PutLineTidy
    <2> QED BY <1>2, <1>3, <1>4, <2>1
  <1>6. PICK m \in 0..Len(x) : /\ TrimRight(x, {"LF"}) \in Seq(Char)
                               /\ Len(TrimRight(x, {"LF"})) = m
                               /\ \A i \in 1..m : TrimRight(x, {"LF"})[i] = x[i]
                               /\ \A i \in (m + 1)..Len(x) : x[i] \in {"LF"}
                               /\ m # 0 => x[m] \notin {"LF"}
    BY <1>5, TrimRightFacts
  <1> DEFINE y == TrimRight(x, {"LF"})
  <1>7. PICK n \in Nat : n = Len(x) /\ m \in 0..n
    BY <1>5, LenProperties
  <1>8. /\ y \in Seq(Char) /\ Len(y) = m /\ \A i \in 1..m : y[i] = x[i]
        /\ \A i \in (m + 1)..n : x[i] = "LF"
        /\ m # 0 => x[m] # "LF"
    BY <1>6, <1>7
  <1> HIDE DEF y
  <1>9. ASSUME NEW i \in 1..m
        PROVE  y[i] # "CR" /\ (y[i] = "SP" => i + 1 \in 1..m /\ y[i + 1] # "LF")
    <2>1. i \in 1..n
      BY <1>7
    <2>2. x[i] # "CR" /\ (x[i] = "SP" => i + 1 \in 1..n /\ x[i + 1] # "LF")
      BY <1>5, <1>7, <2>1 DEF Tidy
    <2>3. x[i] = "SP" => i + 1 \in 1..m
      <3>1. i + 1 \in 1..n /\ i + 1 \notin 1..m => i + 1 \in (m + 1)..n
        BY <1>7
      <3> QED BY <1>8, <2>2, <3>1
    <2> QED BY <1>8, <2>2, <2>3
  <1>10. y # <<>> => y[Len(y)] # "LF"
    <2>1. y # <<>> => m # 0 /\ m \in 1..m
      BY <1>7, <1>8, EmptySeq
    <2> QED BY <1>8, <2>1
  <1> QED BY <1>8, <1>9, <1>10 DEF Normal, Tidy, Normalize, x, y, w

-----------------------------------------------------------------------------
(* Normal texts with one picture are equal: at the first character where they
   differ, one of them draws what the other does not. *)

(* The line and the column before each character, and after the last. *)
Track(s, l, k) ==
    /\ l \in [0..Len(s) -> Nat] /\ k \in [0..Len(s) -> Nat]
    /\ l[0] = 0 /\ k[0] = 0
    /\ \A i \in 1..Len(s) : s[i] = "LF" => l[i] = l[i - 1] + 1 /\ k[i] = 0
    /\ \A i \in 1..Len(s) : s[i] # "LF" => l[i] = l[i - 1] /\ k[i] = k[i - 1] + 1

Marks(s, l, k, n) == {<<l[i - 1], k[i - 1], s[i]>> : i \in {j \in 1..n : s[j] \notin Unseen}}

LEMMA EveryTextHasATrack ==
    ASSUME NEW Char, NEW s \in Seq(Char), \A i \in 1..Len(s) : s[i] # "CR"
    PROVE  \E l, k : Track(s, l, k) /\ Picture(s) = Marks(s, l, k, Len(s))
  <1> DEFINE turn == [x \in Pens(Char) \X Char |-> Draw(x[1], x[2])]
  <1>0. PICK n \in Nat : n = Len(s)
    BY LenProperties
  <1>1. \A i \in 1..n : s[i] \in Char /\ i - 1 \in 0..n /\ i \in 0..n
    BY <1>0, ElementOfSeq
  <1>2. PICK pen : /\ Follows(pen, s, NewPen, turn)
                   /\ Drawing(s) = pen[Len(s)]
                   /\ \A i \in 0..Len(s) : pen[i] \in Pens(Char)
    BY DrawingLoop
  <1>3. \A p \in Pens(Char) : \A c \in Char : turn[<<p, c>>] = Draw(p, c)
    OBVIOUS
  <1> HIDE DEF turn
  <1>5. \A i \in 0..n : pen[i] \in Pens(Char)
    BY <1>0, <1>2
  <1>6. \A i \in 1..n : pen[i] = Draw(pen[i - 1], s[i]) /\ pen[i - 1] \in Pens(Char)
    BY <1>0, <1>1, <1>2, <1>3, <1>5 DEF Follows
  <1>7. \A i \in 1..n :
          /\ s[i] = "LF" => pen[i].line = pen[i - 1].line + 1 /\ pen[i].column = 0
          /\ s[i] # "LF" => pen[i].line = pen[i - 1].line /\ pen[i].column = pen[i - 1].column + 1
          /\ s[i] \in Unseen => pen[i].marks = pen[i - 1].marks
          /\ s[i] \notin Unseen =>
               pen[i].marks = pen[i - 1].marks \cup {<<pen[i - 1].line, pen[i - 1].column, s[i]>>}
    <2> SUFFICES ASSUME NEW i \in 1..n
                 PROVE  /\ s[i] = "LF" => pen[i].line = pen[i - 1].line + 1 /\ pen[i].column = 0
                        /\ s[i] # "LF" => pen[i].line = pen[i - 1].line /\ pen[i].column = pen[i - 1].column + 1
                        /\ s[i] \in Unseen => pen[i].marks = pen[i - 1].marks
                        /\ s[i] \notin Unseen =>
                             pen[i].marks = pen[i - 1].marks \cup {<<pen[i - 1].line, pen[i - 1].column, s[i]>>}
      OBVIOUS
    <2> DEFINE p == pen[i - 1]
               q == pen[i]
               c == s[i]
    <2>1. p \in Pens(Char) /\ c \in Char /\ c # "CR" /\ q = Draw(p, c)
      BY <1>0, <1>1, <1>6
    <2> HIDE DEF p, q, c
    <2>2. CASE c = "LF"
      <3>1. q = [line |-> p.line + 1, column |-> 0, marks |-> p.marks]
        BY <2>1, <2>2, DrawFacts
      <3> QED BY <2>2, <3>1 DEF p, q, c, Unseen
    <2>3. CASE c = "SP"
      <3>1. q = [line |-> p.line, column |-> p.column + 1, marks |-> p.marks]
        BY <2>1, <2>3, DrawFacts
      <3> QED BY <2>3, <3>1 DEF p, q, c, Unseen
    <2>4. CASE c \notin Unseen
      <3>1. q = [line |-> p.line, column |-> p.column + 1,
                 marks |-> p.marks \cup {<<p.line, p.column, c>>}]
        BY <2>1, <2>4, DrawFacts DEF Unseen
      <3> QED BY <2>4, <3>1 DEF p, q, c, Unseen
    <2> QED BY <2>1, <2>2, <2>3, <2>4 DEF Unseen
  <1> DEFINE l == [i \in 0..n |-> pen[i].line]
             k == [i \in 0..n |-> pen[i].column]
  <1>8. Track(s, l, k)
    <2>1. l \in [0..n -> Nat] /\ k \in [0..n -> Nat]
      BY <1>5 DEF Pens
    <2>2. l[0] = 0 /\ k[0] = 0
      <3>1. pen[0] = NewPen /\ 0 \in 0..n
        BY <1>2 DEF Follows
      <3> QED BY <3>1 DEF NewPen
    <2>3. \A i \in 1..n : /\ l[i] = pen[i].line /\ l[i - 1] = pen[i - 1].line
                          /\ k[i] = pen[i].column /\ k[i - 1] = pen[i - 1].column
      BY <1>1
    <2> HIDE DEF l, k
    <2>4. \A i \in 1..n : s[i] = "LF" => l[i] = l[i - 1] + 1 /\ k[i] = 0
      BY <1>7, <2>3
    <2>5. \A i \in 1..n : s[i] # "LF" => l[i] = l[i - 1] /\ k[i] = k[i - 1] + 1
      BY <1>7, <2>3
    <2> QED BY ONLY <1>0, <2>1, <2>2, <2>4, <2>5 DEF Track
  <1>9. \A i \in 0..n : pen[i].marks = Marks(s, l, k, i)
    <2> DEFINE T == {i \in 0..n : pen[i].marks = Marks(s, l, k, i)}
    <2>1. \A i \in 1..n : l[i - 1] = pen[i - 1].line /\ k[i - 1] = pen[i - 1].column
      BY <1>1
    <2> HIDE DEF l, k
    <2>2. T \in SUBSET (0..n) /\ 0 \in T
      <3>1. pen[0].marks = {} /\ Marks(s, l, k, 0) = {}
        BY <1>2 DEF Follows, NewPen, Marks
      <3>2. 0 \in 0..n
        OBVIOUS
      <3>3. 0 \in T
        BY <3>1, <3>2
      <3>4. T \in SUBSET (0..n)
        OBVIOUS
      <3> QED BY <3>3, <3>4
    <2>3. ASSUME NEW i \in 1..n, i - 1 \in T PROVE i \in T
      <3>1. pen[i - 1].marks = Marks(s, l, k, i - 1)
        BY <2>3
      <3>2. \A j : j \in 1..i <=> j \in 1..(i - 1) \/ j = i
        OBVIOUS
      <3>3. s[i] \in Unseen => Marks(s, l, k, i) = Marks(s, l, k, i - 1)
        BY <3>2 DEF Marks
      <3>4. s[i] \notin Unseen =>
              Marks(s, l, k, i) = Marks(s, l, k, i - 1) \cup {<<l[i - 1], k[i - 1], s[i]>>}
        BY <3>2 DEF Marks
      <3>5. pen[i].marks = Marks(s, l, k, i)
        BY <1>7, <2>1, <3>1, <3>3, <3>4
      <3> QED BY <1>1, <3>5
    <2>4. T = 0..n
      <3> HIDE DEF T
      <3> QED BY <2>2, <2>3, EveryNumber
    <2> QED BY <2>4
  <1>10. Picture(s) = Marks(s, l, k, Len(s))
    <2>1. n \in 0..n
      OBVIOUS
    <2> HIDE DEF l, k
    <2> QED BY <1>0, <1>2, <1>9, <2>1 DEF Picture
  <1> QED BY <1>8, <1>10

(* Reading on leads to a later line or to a later column. *)
LEMMA TrackGoesOn ==
    ASSUME NEW Char, NEW s \in Seq(Char), NEW l, NEW k, Track(s, l, k)
    PROVE  \A i, j \in 0..Len(s) : i < j => l[i] <= l[j] /\ (l[i] = l[j] => k[i] < k[j])
  <1>0. PICK n \in Nat : n = Len(s)
    BY LenProperties
  <1> DEFINE T == {j \in 0..n : \A i \in 0..n : i < j => l[i] <= l[j] /\ (l[i] = l[j] => k[i] < k[j])}
  <1>1. T \in SUBSET (0..n) /\ 0 \in T
    BY <1>0
  <1>2. ASSUME NEW j \in 1..n, j - 1 \in T PROVE j \in T
    <2> SUFFICES ASSUME NEW i \in 0..n, i < j
                 PROVE  l[i] <= l[j] /\ (l[i] = l[j] => k[i] < k[j])
      OBVIOUS
    <2>1. j - 1 \in 0..n /\ j \in 0..n /\ (i < j - 1 \/ i = j - 1)
      BY <1>0
    <2>2. i < j - 1 => l[i] <= l[j - 1] /\ (l[i] = l[j - 1] => k[i] < k[j - 1])
      BY <1>2
    <2>3. \A x \in 0..n : l[x] \in Nat /\ k[x] \in Nat
      BY <1>0 DEF Track
    <2>4. /\ s[j] = "LF" => l[j] = l[j - 1] + 1
          /\ s[j] # "LF" => l[j] = l[j - 1] /\ k[j] = k[j - 1] + 1
      BY <1>0 DEF Track
    <2>5. /\ l[i] \in Nat /\ l[j] \in Nat /\ l[j - 1] \in Nat
          /\ k[i] \in Nat /\ k[j] \in Nat /\ k[j - 1] \in Nat
      BY <2>1, <2>3
    <2>6. l[i] <= l[j - 1] /\ (l[i] = l[j - 1] => k[i] <= k[j - 1])
      BY <2>1, <2>2, <2>5
    <2>7. CASE s[j] = "LF"
      <3>1. l[j] = l[j - 1] + 1
        BY <2>4, <2>7
      <3> QED BY ONLY <2>5, <2>6, <3>1
    <2>8. CASE s[j] # "LF"
      <3>1. l[j] = l[j - 1] /\ k[j] = k[j - 1] + 1
        BY <2>4, <2>8
      <3> QED BY ONLY <2>5, <2>6, <3>1
    <2> QED BY <2>7, <2>8
  <1>3. T = 0..n
    <2> HIDE DEF T
    <2> QED BY <1>0, <1>1, <1>2, EveryNumber
  <1> QED BY <1>0, <1>3

(* At the first difference u has a character, and it comes first: it is seen, or
   it is a blank where v's line ends, or v ends there.  u's picture has a mark
   that v's lacks. *)
LEMMA FirstDifferenceIsSeen ==
    ASSUME NEW Char, NEW u \in Seq(Char), NEW v \in Seq(Char), Normal(u), Normal(v),
           NEW d \in 1..Len(u), d <= Len(v) + 1,
           \A i \in 1..(d - 1) : u[i] = v[i],
           \/ u[d] \notin Unseen /\ (d <= Len(v) => v[d] # u[d])
           \/ u[d] = "SP" /\ (d <= Len(v) => v[d] = "LF")
           \/ d = Len(v) + 1
    PROVE  Picture(u) # Picture(v)
  <1>0. PICK n \in Nat, m \in Nat : n = Len(u) /\ m = Len(v)
    BY LenProperties
  <1>1. d \in 1..n /\ d - 1 \in 0..n /\ d - 1 \in 0..m /\ d - 1 \in Nat /\ d \in Nat /\ d <= m + 1
    BY <1>0
  <1>2. PICK l, k : Track(u, l, k) /\ Picture(u) = Marks(u, l, k, Len(u))
    BY EveryTextHasATrack DEF Normal, Tidy
  <1>3. PICK x, y : Track(v, x, y) /\ Picture(v) = Marks(v, x, y, Len(v))
    BY EveryTextHasATrack DEF Normal, Tidy
  (* So far the tracks are one. *)
  <1>4. \A i \in 0..(d - 1) : l[i] = x[i] /\ k[i] = y[i]
    <2> DEFINE T == {i \in 0..(d - 1) : l[i] = x[i] /\ k[i] = y[i]}
    <2>1. T \in SUBSET (0..(d - 1)) /\ 0 \in T
      BY <1>1, <1>2, <1>3 DEF Track
    <2>2. ASSUME NEW i \in 1..(d - 1), i - 1 \in T PROVE i \in T
      <3>1. i \in 1..n /\ i \in 1..m /\ i \in 0..(d - 1) /\ i \in 1..(d - 1)
        BY <1>1
      <3>2. u[i] = v[i] /\ l[i - 1] = x[i - 1] /\ k[i - 1] = y[i - 1]
        BY <2>2, <3>1
      <3>3. /\ u[i] = "LF" => l[i] = l[i - 1] + 1 /\ k[i] = 0
            /\ u[i] # "LF" => l[i] = l[i - 1] /\ k[i] = k[i - 1] + 1
        BY <1>0, <1>2, <3>1 DEF Track
      <3>4. /\ v[i] = "LF" => x[i] = x[i - 1] + 1 /\ y[i] = 0
            /\ v[i] # "LF" => x[i] = x[i - 1] /\ y[i] = y[i - 1] + 1
        BY <1>0, <1>3, <3>1 DEF Track
      <3>5. l[i] = x[i] /\ k[i] = y[i]
        BY <3>2, <3>3, <3>4
      <3> QED BY <3>1, <3>5
    <2>3. T = 0..(d - 1)
      <3> HIDE DEF T
      <3> QED BY <1>1, <2>1, <2>2, EveryNumber
    <2> QED BY <2>3
  <1>5. /\ \A i, j \in 0..n : i < j => l[i] <= l[j] /\ (l[i] = l[j] => k[i] < k[j])
        /\ \A i, j \in 0..m : i < j => x[i] <= x[j] /\ (x[i] = x[j] => y[i] < y[j])
    BY <1>0, <1>2, <1>3, TrackGoesOn
  <1>6. /\ \A i \in 0..n : l[i] \in Nat /\ k[i] \in Nat
        /\ \A i \in 0..m : x[i] \in Nat /\ y[i] \in Nat
    BY <1>0, <1>2, <1>3 DEF Track
  <1>7. \E j \in d..n : /\ u[j] \notin Unseen
                        /\ \A i \in d..m : x[i - 1] = l[j - 1] /\ y[i - 1] = k[j - 1] /\ v[i] \notin Unseen
                                            => v[i] # u[j]
    <2>1. CASE u[d] \notin Unseen /\ (d <= m => v[d] # u[d])
      <3>1. ASSUME NEW i \in d..m, x[i - 1] = l[d - 1], y[i - 1] = k[d - 1]
            PROVE  v[i] # u[d]
        <4>1. d <= m /\ i - 1 \in 0..m /\ (i = d \/ d - 1 < i - 1)
          BY <1>1
        <4>2. x[d - 1] = l[d - 1] /\ y[d - 1] = k[d - 1]
          BY <1>1, <1>4
        <4>3. ~(d - 1 < i - 1)
          BY <1>1, <1>5, <1>6, <3>1, <4>1, <4>2
        <4> QED BY <2>1, <4>1, <4>3
      <3>2. d \in d..n
        BY <1>1
      <3> QED BY <2>1, <3>1, <3>2
    <2>2. CASE u[d] = "SP" /\ (d <= m => v[d] = "LF")
      <3> DEFINE ends == {j \in d..n : u[j] # "SP"}
      <3>1. ends # {}
        <4>1. u[n] # "SP" /\ n \in d..n
          <5>1. n \in 1..n /\ n + 1 \notin 1..n /\ n \in d..n
            BY <1>1
          <5> QED BY <1>0, <5>1 DEF Normal, Tidy
        <4> QED BY <4>1
      <3>2. PICK j \in ends : \A i \in ends : j <= i
        <4>1. ends \in SUBSET Nat
          BY <1>1
        <4> HIDE DEF ends
        <4> QED BY <3>1, <4>1, LeastOfNaturals
      <3>3. j \in 1..n /\ j # d /\ j - 1 \in d..n /\ j - 1 \in 1..n /\ j \in d..n
        BY <1>1, <2>2
      <3>4. \A i \in d..(j - 1) : u[i] = "SP"
        <4> SUFFICES ASSUME NEW i \in d..(j - 1), u[i] # "SP" PROVE FALSE
          OBVIOUS
        <4>1. i \in d..n /\ i < j
          BY <1>1, <3>3
        <4> QED BY <1>1, <3>2, <3>3, <4>1
      <3>5. u[j] \notin Unseen
        <4>1. u[j - 1] = "SP" /\ (j - 1) + 1 = j
          BY <1>1, <3>3, <3>4
        <4>2. u[j] # "LF" /\ u[j] # "CR"
          BY <1>0, <3>3, <4>1 DEF Normal, Tidy
        <4> QED BY <4>2 DEF Unseen
      <3>6. l[j - 1] = l[d - 1]
        <4> DEFINE T == {i \in 0..(j - d) : l[d + i - 1] = l[d - 1]}
                   w == j - d
        <4>1. w \in Nat /\ d + w - 1 = j - 1
          BY <1>1, <3>3
        <4>2. T \in SUBSET (0..w) /\ 0 \in T
          <5>1. d + 0 - 1 = d - 1 /\ 0 \in 0..(j - d)
            BY <1>1, <3>3
          <5> QED BY <5>1
        <4>3. ASSUME NEW i \in 1..w, i - 1 \in T PROVE i \in T
          <5>1. /\ d + i - 1 \in d..(j - 1) /\ d + i - 1 \in 1..n /\ i \in 0..(j - d)
                /\ d + (i - 1) - 1 = (d + i - 1) - 1
            BY <1>1, <3>3
          <5>2. u[d + i - 1] = "SP"
            BY <3>4, <5>1
          <5>3. l[d + i - 1] = l[(d + i - 1) - 1]
            BY <1>0, <1>2, <5>1, <5>2 DEF Track
          <5>4. l[d + (i - 1) - 1] = l[d - 1]
            BY <4>3
          <5> QED BY <5>1, <5>3, <5>4
        <4>4. T = 0..w
          <5> HIDE DEF T, w
          <5> QED BY <4>1, <4>2, <4>3, EveryNumber
        <4>5. w \in 0..w
          BY <4>1
        <4>6. l[d + w - 1] = l[d - 1]
          BY <4>4, <4>5
        <4> QED BY <4>1, <4>6
      <3>7. ASSUME NEW i \in d..m, x[i - 1] = l[j - 1], v[i] \notin Unseen
            PROVE  FALSE
        <4>1. d \in 1..m /\ d \in 0..m /\ i - 1 \in 0..m /\ (i = d \/ d <= i - 1)
          BY <1>1
        <4>2. v[d] = "LF" /\ x[d] = x[d - 1] + 1 /\ x[d - 1] = l[d - 1]
          BY <1>0, <1>1, <1>3, <1>4, <2>2, <4>1 DEF Track
        <4>3. i # d
          BY <3>7, <4>2 DEF Unseen
        <4>4. x[d] <= x[i - 1]
          <5>1. d = i - 1 \/ d < i - 1
            BY <1>1, <4>1, <4>3
          <5> QED BY <1>5, <1>6, <4>1, <5>1
        <4>5. x[d - 1] \in Nat /\ x[d] \in Nat /\ x[i - 1] \in Nat
          BY <1>1, <1>6, <4>1
        <4> QED BY <3>6, <3>7, <4>2, <4>4, <4>5
      <3> QED BY <3>3, <3>5, <3>7
    <2>3. CASE d = m + 1
      <3>1. n \in 1..n /\ n + 1 \notin 1..n /\ n \in d..n /\ u # <<>>
        BY <1>0, <1>1
      <3>2. u[n] \notin Unseen
        BY <1>0, <3>1 DEF Normal, Tidy, Unseen
      <3>3. d..m = {}
        BY <2>3
      <3> QED BY <3>1, <3>2, <3>3
    <2> QED BY <1>0, <2>1, <2>2, <2>3
  <1>8. PICK j \in d..n :
          /\ u[j] \notin Unseen
          /\ \A i \in d..m : x[i - 1] = l[j - 1] /\ y[i - 1] = k[j - 1] /\ v[i] \notin Unseen
                              => v[i] # u[j]
    BY <1>7
  <1> DEFINE mark == <<l[j - 1], k[j - 1], u[j]>>
  <1>9. j \in 1..n /\ j - 1 \in 0..n
    BY <1>1
  <1>10. mark \in Marks(u, l, k, n)
    BY <1>8, <1>9 DEF Marks
  <1>11. mark \notin Marks(v, x, y, m)
    <2> SUFFICES ASSUME mark \in Marks(v, x, y, m) PROVE FALSE
      OBVIOUS
    <2>1. PICK i \in 1..m : v[i] \notin Unseen /\ mark = <<x[i - 1], y[i - 1], v[i]>>
      BY DEF Marks
    <2>2. x[i - 1] = l[j - 1] /\ y[i - 1] = k[j - 1] /\ v[i] = u[j]
      BY <2>1
    <2>3. CASE i < d
      <3>1. i - 1 \in 0..(d - 1) /\ i - 1 \in 0..n /\ i - 1 < j - 1
        BY <1>1, <2>3
      <3>2. l[i - 1] = l[j - 1] /\ k[i - 1] = k[j - 1]
        BY <1>4, <2>2, <3>1
      <3>3. k[i - 1] < k[j - 1] /\ k[i - 1] \in Nat /\ k[j - 1] \in Nat
        BY <1>5, <1>6, <1>9, <3>1, <3>2
      <3> QED BY <3>2, <3>3
    <2>4. CASE i >= d
      <3>1. i \in d..m
        BY <1>1, <2>4
      <3> QED BY <1>8, <2>1, <2>2, <3>1
    <2> QED BY <1>1, <2>3, <2>4
  <1> QED BY <1>0, <1>2, <1>3, <1>10, <1>11

(* So a normal text is known by its picture: by the first character at which two
   of them differ. *)
LEMMA NormalIsItsPicture ==
    ASSUME NEW Char, NEW u \in Seq(Char), NEW v \in Seq(Char), Normal(u), Normal(v),
           Picture(u) = Picture(v)
    PROVE  u = v
  <1>0. PICK n \in Nat, m \in Nat : n = Len(u) /\ m = Len(v)
    BY LenProperties
  <1> DEFINE differ == {i \in 1..(n + m + 1) : ~(i \in 1..n /\ i \in 1..m /\ u[i] = v[i])}
  <1>1. differ \in SUBSET Nat /\ n + m + 1 \in differ
    BY <1>0
  <1>2. PICK d \in differ : \A i \in differ : d <= i
    <2> HIDE DEF differ
    <2>1. differ # {}
      BY <1>1
    <2> QED BY <1>1, <2>1, LeastOfNaturals
  <1>3. d \in Nat /\ d >= 1 /\ d <= n + m + 1
    BY <1>0
  <1>4. \A i \in 1..(d - 1) : i \in 1..n /\ i \in 1..m /\ u[i] = v[i]
    <2> SUFFICES ASSUME NEW i \in 1..(d - 1), i \notin differ
                 PROVE  i \in 1..n /\ i \in 1..m /\ u[i] = v[i]
      <3>1. \A i \in 1..(d - 1) : ~(d <= i)
        BY <1>3
      <3> QED BY <1>2, <3>1
    <2>1. i \in 1..(n + m + 1)
      BY <1>0, <1>3
    <2> QED BY <2>1
  <1>5. d <= n + 1 /\ d <= m + 1
    <2>1. d - 1 = 0 \/ d - 1 \in 1..(d - 1)
      BY <1>3
    <2> QED BY <1>0, <1>3, <1>4, <2>1
  <1>6. ~(d \in 1..n /\ d \in 1..m /\ u[d] = v[d])
    BY <1>2
  <1> HIDE DEF differ
  <1>7. \A s \in Seq(Char) : Normal(s) => \A i \in 1..Len(s) : s[i] # "CR"
    BY DEF Normal, Tidy
  (* Whichever comes first at the difference, it is seen. *)
  <1>8. /\ d \in 1..n => ~(u[d] \notin Unseen /\ (d <= m => v[d] # u[d]))
        /\ d \in 1..n => ~(u[d] = "SP" /\ (d <= m => v[d] = "LF"))
        /\ d \in 1..n => d # m + 1
    BY <1>0, <1>4, <1>5, FirstDifferenceIsSeen
  <1>9. /\ d \in 1..m => ~(v[d] \notin Unseen /\ (d <= n => u[d] # v[d]))
        /\ d \in 1..m => ~(v[d] = "SP" /\ (d <= n => u[d] = "LF"))
        /\ d \in 1..m => d # n + 1
    BY <1>0, <1>4, <1>5, FirstDifferenceIsSeen
  <1>10. d \notin 1..n /\ d \notin 1..m
    <2>1. d \in 1..n <=> d \in 1..m
      BY <1>0, <1>3, <1>5, <1>8, <1>9
    <2> SUFFICES ASSUME d \in 1..n, d \in 1..m PROVE FALSE
      BY <2>1
    <2>2. u[d] # v[d] /\ u[d] # "CR" /\ v[d] # "CR"
      BY <1>0, <1>6, <1>7
    <2>3. u[d] \in Unseen /\ v[d] \in Unseen
      BY <1>8, <1>9, <2>2
    <2>4. d <= n /\ d <= m
      OBVIOUS
    <2> QED BY <1>8, <1>9, <2>2, <2>3, <2>4 DEF Unseen
  <1>11. n = m /\ d = n + 1
    BY <1>0, <1>3, <1>5, <1>10
  <1>12. \A i \in 1..n : u[i] = v[i]
    BY <1>0, <1>4, <1>11
  <1> QED BY <1>0, <1>11, <1>12, SeqEqual

(* judge_outputs_match takes two outputs for the same just if they look the same:
   every character that can be seen is on the same line and in the same column,
   whatever blanks end the lines, whatever empty lines end the text and wherever
   there is a CR. *)
THEOREM MatchesIfAlike ==
    ASSUME NEW Char, "LF" \in Char, NEW s \in Seq(Char), NEW t \in Seq(Char)
    PROVE  OutputsMatch(s, t) <=> Picture(s) = Picture(t)
  <1>1. /\ Normalize(s) \in Seq(Char) /\ Normal(Normalize(s)) /\ Picture(Normalize(s)) = Picture(s)
        /\ Normalize(t) \in Seq(Char) /\ Normal(Normalize(t)) /\ Picture(Normalize(t)) = Picture(t)
    BY NormalLooksTheSame, NormalizeIsNormal
  <1>2. Picture(s) = Picture(t) => Normalize(s) = Normalize(t)
    BY <1>1, NormalIsItsPicture
  <1> QED BY <1>1, <1>2 DEF OutputsMatch

(* The texts of the model are such texts. *)
LEMMA NormalIsPictureHolds == NormalIsPicture
  <1> DEFINE Char == {"x", "SP", "CR", "LF"}
  <1>1. Texts \subseteq Seq(Char)
    <2> SUFFICES ASSUME NEW t \in Texts PROVE t \in Seq(Char)
      OBVIOUS
    <2>1. PICK n \in 0..5 : t \in [1..n -> Char]
      BY DEF Texts, BoundedSeq, SeqOf
    <2>2. n \in Nat
      OBVIOUS
    <2> HIDE DEF Char
    <2> QED BY <2>1, <2>2
  <1>2. \A s, t \in Texts : Normalize(s) = Normalize(t) <=> Picture(s) = Picture(t)
    BY <1>1, MatchesIfAlike DEF OutputsMatch
  <1> QED BY <1>2 DEF NormalIsPicture

(* An output that is not longer than what is read of it is as right when read. *)
LEMMA KeptReads ==
    ASSUME NEW s \in Outputs, ~(Len(s) > OutputCap)
    PROVE  RightKept[s] <=> Right[s]
  BY DEF Right, RightKept, Kept

-----------------------------------------------------------------------------
(* The lines the host takes are all the runner printed. *)

(* collect_runner_results leaves out nothing of what the runner prints, whose
   lines are numbered from 1 and no more than there are cases: by the least
   prefix on which it would differ. *)
LEMMA CollectedIsText ==
    ASSUME text \in Seq(Lines), Len(text) <= NumCases,
           \A i \in 1..Len(text) : text[i].index = i
    PROVE  Collected = text
  <1> DEFINE n == Len(text)
             After(f) == [i \in 0..n |->
                IF i = 0 THEN <<>>
                ELSE IF /\ text[i].index = Len(f[i - 1]) + 1
                        /\ text[i].index <= NumCases
                     THEN Append(f[i - 1], text[i])
                     ELSE f[i - 1]]
             prefix == [i \in 0..n |-> SubSeq(text, 1, i)]
             taken == CHOOSE f : f = After(f)
  <1>0. n \in Nat
    OBVIOUS
  <1>1. \A i \in 1..n : prefix[i] = Append(prefix[i - 1], text[i]) /\ Len(prefix[i - 1]) = i - 1
    BY SubSeqProperties
  <1>2. prefix[0] = <<>>
    OBVIOUS
  <1>3. prefix = After(prefix)
    <2>1. \A i \in 0..n : prefix[i] = After(prefix)[i]
      <3>1. prefix[0] = After(prefix)[0]
        <4>1. 0 \in 0..n
          BY <1>0
        <4> HIDE DEF prefix
        <4>2. After(prefix)[0] = <<>>
          BY ONLY <4>1
        <4> QED BY ONLY <1>2, <4>2
      <3>2. ASSUME NEW i \in 1..n PROVE prefix[i] = After(prefix)[i]
        <4>1. /\ prefix[i] = Append(prefix[i - 1], text[i]) /\ Len(prefix[i - 1]) = i - 1
              /\ text[i].index = i /\ i <= NumCases /\ i # 0 /\ i \in 0..n /\ (i - 1) + 1 = i
          BY <1>1, NumCasesAssumption
        <4> HIDE DEF prefix
        <4>2. text[i].index = Len(prefix[i - 1]) + 1 /\ text[i].index <= NumCases
          BY ONLY <4>1
        <4>3. After(prefix)[i] = Append(prefix[i - 1], text[i])
          BY <4>1, <4>2
        <4> QED BY ONLY <4>1, <4>3
      <3>3. \A i \in 0..n : i = 0 \/ i \in 1..n
        BY <1>0
      <3> HIDE DEF prefix, After
      <3> QED BY ONLY <3>1, <3>2, <3>3
    <2> QED BY <2>1
  <1>4. taken = After(taken)
    BY <1>3
  <1>5. Collected = taken[n]
    BY DEF Collected
  <1>6. /\ taken[0] = <<>>
        /\ \A i \in 1..n : taken[i] = IF /\ text[i].index = Len(taken[i - 1]) + 1
                                        /\ text[i].index <= NumCases
                                     THEN Append(taken[i - 1], text[i])
                                     ELSE taken[i - 1]
    <2> HIDE DEF taken
    <2>1. \A i \in 0..n : taken[i] = After(taken)[i]
      BY <1>4
    <2> QED BY <1>0, <2>1
  <1>8. prefix[n] = text
    BY <1>0, SubSeqFull
  <1> HIDE DEF taken, n, prefix
  <1>7. ASSUME NEW k \in 0..n, taken[k] # prefix[k] PROVE FALSE
    <2> DEFINE Wrong == {i \in 0..n : taken[i] # prefix[i]}
    <2>1. PICK m \in Wrong : \A i \in Wrong : m <= i
      <3>1. Wrong \subseteq Nat
        BY <1>0
      <3>2. k \in Wrong
        BY <1>7
      <3> HIDE DEF Wrong
      <3> QED BY <3>1, <3>2, LeastOfNaturals
    <2>2. m \in 1..n
      BY <1>0, <1>2, <1>6, <2>1
    <2>3. taken[m - 1] = prefix[m - 1]
      BY <1>0, <2>1, <2>2
    <2>4. taken[m] = prefix[m]
      <3>1. text[m].index = m /\ m <= NumCases
        BY <1>0, <2>2, NumCasesAssumption DEF n
      <3>2. prefix[m] = Append(prefix[m - 1], text[m]) /\ Len(prefix[m - 1]) + 1 = m
        BY <1>0, <1>1, <2>2
      <3>3. taken[m] = IF /\ text[m].index = Len(taken[m - 1]) + 1
                         /\ text[m].index <= NumCases
                      THEN Append(taken[m - 1], text[m])
                      ELSE taken[m - 1]
        BY <1>6, <2>2
      <3> QED BY <2>3, <3>1, <3>2, <3>3
    <2> QED BY <2>1, <2>4
  <1> QED BY <1>0, <1>5, <1>7, <1>8

-----------------------------------------------------------------------------
(* The runner. *)

LEMMA ProcsAre ==
    ASSUME job \in Jobs
    PROVE  /\ Procs \subseteq All
           /\ job.type = "STANDARD" => Procs = {"sol"}
  BY DEF Jobs, Procs, All, Players, Judges

(* How the processes of the case are, for the line that is printed now. *)
CaseEnds == IF at = "start" THEN Nobody ELSE proc
CaseLate == at # "start" /\ late

(* The line printed for a case keeps what is known of the lines, if it is true of
   the case's processes. *)
LEMMA EmitKeeps ==
    ASSUME TypeInv, PrintedInv, at \in {"start", "poll", "check"}, NEW v \in Verdicts, Emit(v),
           Says(v, CaseEnds, CaseLate)
    PROVE  /\ PrintedInv'
           /\ text' \in Seq(Lines)
           /\ \A i \in DOMAIN text' : text'[i].index = i /\ text'[i].verdict \in Verdicts
           /\ caseNo' \in 1..(NumCases + 1)
           /\ at' \in {"start", "exit"}
           /\ seen' \in [Cases -> [ends : [All -> Hows], late : BOOLEAN]]
  <1> USE NumCasesAssumption
  <1>1. caseNo = Len(text) + 1 /\ caseNo \in Cases /\ caseNo \in Nat
    BY DEF PrintedInv, TypeInv, TypeOK, Cases
  <1>2. text \in Seq(Lines) /\ [index |-> caseNo, verdict |-> v] \in Lines
    BY <1>1 DEF TypeInv, Lines
  <1>3. /\ text' = Append(text, [index |-> caseNo, verdict |-> v])
        /\ seen' = [seen EXCEPT ![caseNo] =
                      IF at = "start" THEN [ends |-> Nobody, late |-> FALSE] ELSE [ends |-> proc, late |-> late]]
        /\ caseNo' = IF v = "OK" THEN caseNo + 1 ELSE caseNo
        /\ at' = IF v = "OK" /\ caseNo < NumCases THEN "start" ELSE "exit"
        /\ job' = job /\ Procs' = Procs
    BY DEF Emit, Procs
  <1>4. /\ Len(text') = caseNo
        /\ \A i \in 1..Len(text) : text'[i] = text[i]
        /\ text'[caseNo] = [index |-> caseNo, verdict |-> v]
        /\ text' \in Seq(Lines) /\ DOMAIN text' = 1..caseNo
    BY <1>1, <1>2, <1>3
  <1>5. /\ CaseEnds \in [All -> Hows] /\ CaseLate \in BOOLEAN
        /\ seen \in [Cases -> [ends : [All -> Hows], late : BOOLEAN]]
    BY DEF TypeInv, TypeOK, CaseEnds, CaseLate, Nobody, All, Hows
  <1>6. /\ seen' \in [Cases -> [ends : [All -> Hows], late : BOOLEAN]]
        /\ \A i \in Cases : i # caseNo => seen'[i] = seen[i]
        /\ seen'[caseNo].ends = CaseEnds /\ seen'[caseNo].late = CaseLate
    <2>1. CASE at = "start"
      <3>1. CaseEnds = Nobody /\ CaseLate = FALSE
        BY <2>1 DEF CaseEnds, CaseLate
      <3>2. seen' = [seen EXCEPT ![caseNo] = [ends |-> CaseEnds, late |-> CaseLate]]
        BY <1>3, <2>1, <3>1
      <3> HIDE DEF CaseEnds, CaseLate
      <3> QED BY <1>1, <1>5, <3>2
    <2>2. CASE at # "start"
      <3>1. CaseEnds = proc /\ CaseLate = late
        BY <2>2 DEF CaseEnds, CaseLate, TypeInv, TypeOK
      <3>2. seen' = [seen EXCEPT ![caseNo] = [ends |-> CaseEnds, late |-> CaseLate]]
        BY <1>3, <2>2, <3>1
      <3> HIDE DEF CaseEnds, CaseLate
      <3> QED BY <1>1, <1>5, <3>2
    <2> QED BY <2>1, <2>2
  <1>7. \A i \in 1..Len(text) : i \in Cases /\ i # caseNo
    BY <1>1, <1>2 DEF Cases
  <1>8. \A w, e, l : Says(w, e, l)' <=> Says(w, e, l)
    BY <1>3 DEF Says
  <1>9. \A i \in 1..Len(text') : text'[i].index = i /\ Says(text'[i].verdict, seen'[i].ends, seen'[i].late)
    <2> TAKE i \in 1..Len(text')
    <2>1. CASE i = caseNo
      BY <1>4, <1>6, <2>1
    <2>2. CASE i # caseNo
      <3>1. i \in 1..Len(text) /\ i \in Cases /\ i # caseNo
        BY <1>1, <1>4, <1>7, <2>2
      <3>2. text'[i] = text[i] /\ seen'[i] = seen[i]
        BY <1>4, <1>6, <3>1
      <3>3. text[i].index = i /\ Says(text[i].verdict, seen[i].ends, seen[i].late)
        BY <3>1 DEF PrintedInv
      <3> QED BY <3>2, <3>3
    <2> QED BY <2>1, <2>2
  <1>10. at' = "exit" => \/ caseNo = NumCases
                         \/ caseNo \in 1..NumCases /\ text'[caseNo].verdict # "OK"
    BY <1>1, <1>3, <1>4 DEF Cases
  <1>11. at' # "exit" => caseNo' = caseNo + 1 /\ caseNo' <= NumCases
    BY <1>1, <1>3 DEF Cases
  <1>12. PrintedInv'
    <2>1. \A i \in 1..Len(text') : text'[i].index = i /\ Says(text[i].verdict, seen[i].ends, seen[i].late)'
      BY <1>3, <1>9 DEF Says
    <2> QED BY <1>4, <1>10, <1>11, <2>1 DEF PrintedInv
  <1>13. \A i \in DOMAIN text' : text'[i].verdict \in Verdicts
    <2>1. \A i \in DOMAIN text' : text'[i] \in Lines
      BY <1>4
    <2> QED BY <2>1 DEF Lines
  <1>14. caseNo' \in 1..(NumCases + 1) /\ at' \in {"start", "exit"}
    BY <1>1, <1>3 DEF Cases
  <1>15. \A i \in DOMAIN text' : text'[i].index = i
    BY <1>4, <1>9
  <1> QED BY <1>4, <1>6, <1>12, <1>13, <1>14, <1>15

(* What the host does not touch stays known. *)
LEMMA HostKeeps ==
    ASSUME ProcessesInv, PrintedInv, UNCHANGED <<runner, job>>
    PROVE  ProcessesInv' /\ PrintedInv' /\ Procs' = Procs
  <1>1. Procs' = Procs /\ UNCHANGED <<job, caseNo, at, proc, reaped, late, text, seen>>
    BY DEF runner, children, Procs
  <1>2. ProcessesInv'
    BY <1>1 DEF ProcessesInv
  <1>3. PrintedInv'
    BY <1>1 DEF PrintedInv, Says
  <1> QED BY <1>1, <1>2, <1>3

(* While the runner runs, the host has nothing yet and the row no result. *)
LEMMA RunKeeps ==
    ASSUME CollectedInv, stage = "run", stage' \in {"run", "collect"},
           stage' = "collect" => at' \in {"exit", "dead"} /\ (job.box = "docker" => NothingLeft'),
           UNCHANGED <<job, host>>
    PROVE  CollectedInv' /\ ResultInv'
  <1>1. result' = result /\ result = NoResult /\ job' = job /\ checked' = checked
    BY DEF CollectedInv, host
  <1>2. CollectedInv'
    BY <1>1 DEF CollectedInv
  <1>3. ResultInv'
    BY <1>1 DEF ResultInv, AcceptedOnlyIfAllPass, FailureIsTheFirst, SilentOnlyIfBroken, NoResult
  <1> QED BY <1>2, <1>3

(* Steps in the middle of a case: nothing is printed. *)
LEMMA CaseKeeps ==
    ASSUME JudgingInv, stage = "run", at # "exit", at' # "exit", stage' \in {"run", "collect"},
           stage' = "collect" => at' = "dead" /\ (job.box = "docker" => NothingLeft'),
           at' \in {"start", "poll", "check", "dead"},
           UNCHANGED <<job, caseNo, text, seen, host>>,
           proc' \in [All -> Hows], reaped' \subseteq Procs, late' \in BOOLEAN, stray' \in BOOLEAN,
           ProcessesInv'
    PROVE  JudgingInv'
  <1>1. Procs' = Procs /\ UNCHANGED <<cases, result, checked, gaveUp>>
    BY DEF Procs, host
  <1>2. TypeInv'
    BY <1>1 DEF JudgingInv, TypeInv, TypeOK, All, Hows
  <1>3. PrintedInv'
    BY <1>1 DEF JudgingInv, PrintedInv, Says
  <1>4. CollectedInv' /\ ResultInv'
    BY RunKeeps DEF JudgingInv
  <1> QED BY <1>2, <1>3, <1>4 DEF JudgingInv

(* What the next lemmas share: a line is printed and the processes of the case
   are gone. *)
LEMMA EmitEnds ==
    ASSUME JudgingInv, stage = "run", at \in {"start", "poll", "check"}, NEW v \in Verdicts, Emit(v),
           Says(v, CaseEnds, CaseLate),
           proc' \in [All -> Hows], \A p \in All : proc'[p] # "run",
           reaped' \subseteq Procs
    PROVE  JudgingInv'
  <1>1. /\ UNCHANGED <<job, stage, late, stray, host>>
        /\ UNCHANGED <<cases, result, checked, gaveUp>>
        /\ Procs' = Procs /\ UsesChecker' = UsesChecker
    BY DEF Emit, Procs, UsesChecker, host
  <1>2. /\ PrintedInv'
        /\ text' \in Seq(Lines)
        /\ \A i \in DOMAIN text' : text'[i].index = i /\ text'[i].verdict \in Verdicts
        /\ caseNo' \in 1..(NumCases + 1)
        /\ at' \in {"start", "exit"}
        /\ seen' \in [Cases -> [ends : [All -> Hows], late : BOOLEAN]]
    BY EmitKeeps DEF JudgingInv
  <1>3. TypeInv'
    BY <1>1, <1>2 DEF TypeInv, TypeOK, JudgingInv, All, Hows
  <1>4. ProcessesInv'
    BY <1>1, <1>2, ProcsAre DEF ProcessesInv, JudgingInv, TypeInv
  <1>5. CollectedInv' /\ ResultInv'
    BY <1>1, RunKeeps DEF JudgingInv
  <1> QED BY <1>2, <1>3, <1>4, <1>5 DEF JudgingInv

LEMMA StartFailsKeeps ==
    ASSUME JudgingInv, StartFails
    PROVE  JudgingInv'
  <1>1. proc' \in [All -> Hows] /\ \A p \in All : proc'[p] # "run"
    BY DEF StartFails, Nobody, All, Hows
  <1>2. "SE" \in Verdicts /\ stage = "run" /\ at = "start" /\ Emit("SE") /\ reaped' = {}
    BY DEF StartFails, Verdicts
  <1>3. Says("SE", CaseEnds, CaseLate)
    BY <1>2 DEF Says, CaseEnds
  <1> QED BY <1>1, <1>2, <1>3, EmitEnds

LEMMA KillEnds ==
    ASSUME JudgingInv, NEW S, Kill(S), \A p \in Procs \ S : proc[p] # "run"
    PROVE  /\ proc' \in [All -> Hows]
           /\ \A p \in All : proc'[p] # "run" /\ (proc'[p] = "none" <=> proc[p] = "none")
  <1>1. proc \in [All -> Hows]
    BY DEF JudgingInv, TypeInv, TypeOK, All, Hows
  <1>2. \A p \in All : p \notin S => proc[p] # "run"
    BY DEF JudgingInv, ProcessesInv
  <1> QED BY <1>1, <1>2 DEF Kill, Hows, Ends

LEMMA CheckStdKeeps ==
    ASSUME JudgingInv, CheckStd
    PROVE  JudgingInv'
  <1>1. /\ stage = "run" /\ at = "check" /\ reaped' = reaped /\ reaped \subseteq Procs
        /\ job.type = "STANDARD" /\ Procs = {"sol"} /\ Procs \subseteq All
        /\ proc["sol"] # "none" /\ (late \/ proc["sol"] # "run")
        /\ proc \in [All -> Hows] /\ CaseEnds = proc /\ (late => CaseLate)
    BY ProcsAre DEF CheckStd, JudgingInv, TypeInv, TypeOK, ProcessesInv, All, Hows, CaseEnds, CaseLate
  <1>2. CASE late
    <2>1. Kill(Procs) /\ Emit("TLE") /\ "TLE" \in Verdicts
      BY <1>2 DEF CheckStd, Verdicts
    <2>2. proc' \in [All -> Hows] /\ \A p \in All : proc'[p] # "run"
      BY <2>1, KillEnds
    <2>3. Says("TLE", CaseEnds, CaseLate)
      BY <1>1, <1>2 DEF Says
    <2> QED BY <1>1, <2>1, <2>2, <2>3, EmitEnds
  <1>3. CASE ~late
    <2>1. proc' = proc /\ Emit(SolVerdict) /\ SolVerdict \in Verdicts
      BY <1>3 DEF CheckStd, Verdicts, SolVerdict
    <2>2. \A p \in All : proc'[p] # "run"
      BY <1>1, <1>3, <2>1 DEF JudgingInv, ProcessesInv
    <2>3. Says(SolVerdict, CaseEnds, CaseLate)
      <3>1. proc["sol"] \in Ends /\ "sol" \in Procs \cap Players
        BY <1>1, <1>3 DEF Players, Hows, All
      <3>2. \A p \in Procs : p = "sol"
        BY <1>1
      <3> QED BY <1>1, <3>1, <3>2 DEF Says, SolVerdict, Ends
    <2>4. PICK v \in Verdicts : v = SolVerdict
      BY <2>1
    <2> QED BY <1>1, <2>1, <2>2, <2>3, <2>4, EmitEnds
  <1> QED BY <1>2, <1>3

(* The verdict on a group whose processes have all ended is true of them. *)
LEMMA GroupVerdictFits ==
    ASSUME JudgingInv, stage = "run", at = "poll", AllReaped
    PROVE  GroupVerdict \in Verdicts /\ Says(GroupVerdict, CaseEnds, CaseLate)
  <1>1. \A p \in Procs : proc[p] \in Ends /\ (p \in Players \/ p \in Judges)
    BY ProcsAre DEF JudgingInv, TypeInv, TypeOK, ProcessesInv, AllReaped, All
  <1>2. CaseEnds = proc
    BY DEF CaseEnds
  <1>3. GroupVerdict \in Verdicts
    BY DEF GroupVerdict, Verdicts
  <1>4. Says(GroupVerdict, proc, CaseLate)
    <2> DEFINE players == Procs \cap Players
               judges  == Procs \cap Judges
    <2>1. CASE \E p \in players : proc[p] = "sigkill"
      BY <2>1 DEF GroupVerdict, Says
    <2>2. CASE (\A p \in players : proc[p] # "sigkill") /\ \E p \in players : proc[p] # "zero"
      <3>1. GroupVerdict = "RE"
        BY <2>2 DEF GroupVerdict
      <3>2. \E p \in players : proc[p] \in {"nonzero", "signal"}
        BY <1>1, <2>2 DEF Ends
      <3> QED BY <2>2, <3>1, <3>2 DEF Says
    <2>3. CASE (\A p \in players : proc[p] = "zero") /\ \E p \in judges : proc[p] \in {"signal", "sigkill"}
      <3>1. GroupVerdict = "RE"
        BY <2>3 DEF GroupVerdict
      <3> QED BY <2>3, <3>1 DEF Says
    <2>4. CASE /\ \A p \in players : proc[p] = "zero"
               /\ \A p \in judges : proc[p] \notin {"signal", "sigkill"}
               /\ \E p \in judges : proc[p] = "nonzero"
      <3>1. GroupVerdict = "WA"
        BY <2>4 DEF GroupVerdict
      <3> QED BY <2>4, <3>1 DEF Says
    <2>5. CASE \A p \in players \cup judges : proc[p] = "zero"
      <3>1. GroupVerdict = "OK"
        BY <2>5 DEF GroupVerdict
      <3> QED BY <1>1, <2>5, <3>1 DEF Says
    <2>6. \A p \in judges : proc[p] \in {"zero", "nonzero", "signal", "sigkill"}
      BY <1>1 DEF Ends
    <2> HIDE DEF players, judges
    <2> QED BY <2>1, <2>2, <2>3, <2>4, <2>5, <2>6
  <1> QED BY <1>2, <1>3, <1>4

LEMMA PollGroupKeeps ==
    ASSUME JudgingInv, PollGroup
    PROVE  JudgingInv'
  <1>1. /\ stage = "run" /\ at = "poll" /\ reaped \subseteq Procs /\ Procs \subseteq All
        /\ proc \in [All -> Hows]
    BY ProcsAre DEF PollGroup, JudgingInv, TypeInv, TypeOK, All, Hows
  <1>2. CASE AllReaped /\ Emit(GroupVerdict) /\ UNCHANGED <<proc, reaped>>
    <2>1. \A p \in All : proc'[p] # "run"
      BY <1>2 DEF JudgingInv, ProcessesInv, AllReaped
    <2>2. PICK v \in Verdicts : v = GroupVerdict
      BY <1>1, <1>2, GroupVerdictFits
    <2> QED BY <1>1, <1>2, <2>1, <2>2, GroupVerdictFits, EmitEnds
  <1>3. CASE ~AllReaped /\ late /\ Kill(Procs \ reaped) /\ Emit("TLE") /\ UNCHANGED reaped
    <2>1. \A p \in Procs \ (Procs \ reaped) : proc[p] # "run"
      BY DEF JudgingInv, ProcessesInv
    <2>2. proc' \in [All -> Hows] /\ \A p \in All : proc'[p] # "run"
      BY <1>3, <2>1, KillEnds
    <2>3. "TLE" \in Verdicts /\ Says("TLE", CaseEnds, CaseLate)
      BY <1>1, <1>3 DEF Verdicts, Says, CaseLate
    <2> QED BY <1>1, <1>3, <2>2, <2>3, EmitEnds
  <1>4. CASE /\ ~AllReaped /\ ~late
             /\ reaped' = {p \in Procs : proc[p] # "run"}
             /\ UNCHANGED <<job, stage, caseNo, at, proc, late, stray, text, seen, host>>
    <2>1. Procs' = Procs
      BY <1>4 DEF Procs
    <2>2. ProcessesInv'
      BY <1>4, <2>1 DEF JudgingInv, ProcessesInv
    <2>3. late' \in BOOLEAN /\ stray' \in BOOLEAN /\ reaped' \subseteq Procs
      BY <1>4 DEF JudgingInv, TypeInv, TypeOK
    <2> QED BY <1>1, <1>4, <2>2, <2>3, CaseKeeps
  <1> QED BY <1>2, <1>3, <1>4 DEF PollGroup

LEMMA StartKeeps ==
    ASSUME JudgingInv, Start
    PROVE  JudgingInv'
  <1>1. Procs' = Procs /\ Procs \subseteq All
    BY ProcsAre DEF Start, Procs, JudgingInv, TypeInv
  <1>2. /\ proc' \in [All -> Hows]
        /\ \A p \in All : proc'[p] = IF p \in Procs THEN "run" ELSE "none"
    BY DEF Start, JudgingInv, TypeInv, TypeOK, All, Hows
  <1>3. reaped' = {} /\ late' = FALSE /\ at' = "poll" /\ at = "start" /\ stage = "run" /\ stage' = "run"
    BY DEF Start
  <1>4. ProcessesInv'
    BY <1>1, <1>2, <1>3 DEF ProcessesInv
  <1>5. stray' \in BOOLEAN
    BY DEF Start, JudgingInv, TypeInv, TypeOK
  <1> QED BY <1>2, <1>3, <1>4, <1>5, CaseKeeps DEF Start

LEMMA PollStdKeeps ==
    ASSUME JudgingInv, PollStd
    PROVE  JudgingInv'
  <1>1. /\ Procs = {"sol"} /\ "sol" \in All /\ at = "poll" /\ stage = "run" /\ job.type = "STANDARD"
        /\ proc' = proc /\ proc \in [All -> Hows] /\ reaped \subseteq Procs /\ late \in BOOLEAN /\ stray \in BOOLEAN
    BY ProcsAre DEF PollStd, JudgingInv, TypeInv, TypeOK, All, Hows, Players
  <1>2. CASE /\ \/ late /\ UNCHANGED reaped
                \/ ~late /\ proc["sol"] # "run" /\ reaped' = {"sol"}
             /\ at' = "check"
             /\ UNCHANGED <<job, stage, caseNo, late, stray, text, seen, host>>
    <2>1. Procs' = Procs
      BY <1>2 DEF Procs
    <2>2. ProcessesInv'
      BY <1>1, <1>2, <2>1 DEF ProcessesInv, JudgingInv
    <2>3. reaped' \subseteq Procs
      BY <1>1, <1>2
    <2> QED BY <1>1, <1>2, <2>2, <2>3, CaseKeeps
  <1>3. CASE ~late /\ proc["sol"] # "run" /\ Emit("SE") /\ UNCHANGED reaped
    <2>1. proc["sol"] \in Ends /\ CaseEnds = proc
      BY <1>1, <1>3 DEF JudgingInv, ProcessesInv, Hows, CaseEnds
    <2>2. "SE" \in Verdicts /\ Says("SE", CaseEnds, CaseLate)
      BY <1>1, <2>1 DEF Verdicts, Says
    <2>3. \A p \in All : proc'[p] # "run"
      BY <1>1, <1>3 DEF JudgingInv, ProcessesInv
    <2> QED BY <1>1, <1>3, <2>2, <2>3, EmitEnds
  <1> QED BY <1>2, <1>3 DEF PollStd

LEMMA EndingKeeps ==
    ASSUME JudgingInv, NEW p \in Procs, NEW how \in Ends, Ending(p, how)
    PROVE  JudgingInv'
  <1>1. Procs' = Procs /\ p \in All
    BY ProcsAre DEF Ending, Procs, JudgingInv, TypeInv
  <1>2. proc \in [All -> Hows] /\ how \in Hows /\ how # "run" /\ how # "none"
    BY DEF JudgingInv, TypeInv, TypeOK, All, Ends, Hows
  <1>3. /\ proc' \in [All -> Hows]
        /\ \A q \in All : proc'[q] = IF q = p THEN how ELSE proc[q]
    BY <1>1, <1>2 DEF Ending
  <1>4. /\ at \in {"poll", "check"} /\ at' = at /\ stage = "run" /\ stage' = "run"
        /\ UNCHANGED <<job, reaped, late, stray>>
    BY DEF Ending, InACase
  <1>5. /\ reaped \subseteq All /\ Procs \subseteq All /\ reaped' \subseteq Procs
        /\ late' \in BOOLEAN /\ stray' \in BOOLEAN
    BY <1>4, ProcsAre DEF JudgingInv, TypeInv, TypeOK
  <1>6. "sol" \in All
    BY DEF All, Players
  <1>7. ProcessesInv'
    BY <1>1, <1>2, <1>3, <1>4, <1>5, <1>6 DEF ProcessesInv, JudgingInv
  <1> QED BY <1>3, <1>4, <1>5, <1>7, CaseKeeps DEF Ending

(* Time passes, or a process is forked in a case. *)
LEMMA TimeAndForksKeep ==
    ASSUME JudgingInv, Tick \/ Forking
    PROVE  JudgingInv'
  <1>1. /\ at \in {"poll", "check"} /\ at' = at /\ stage = "run" /\ stage' = "run"
        /\ UNCHANGED <<job, caseNo, proc, reaped, text, seen, host>> /\ Procs' = Procs
        /\ late' \in BOOLEAN /\ stray' \in BOOLEAN /\ (late => late')
    BY DEF Tick, Forking, InACase, Procs, JudgingInv, TypeInv, TypeOK
  <1>2. ProcessesInv'
    BY <1>1 DEF ProcessesInv, JudgingInv
  <1>3. proc' \in [All -> Hows] /\ reaped' \subseteq Procs
    BY <1>1 DEF JudgingInv, TypeInv, TypeOK, All, Hows
  <1> QED BY <1>1, <1>2, <1>3, CaseKeeps

LEMMA StrayEndsKeeps ==
    ASSUME JudgingInv, StrayEnds
    PROVE  JudgingInv'
  <1>1. /\ stage = "run" /\ stage' = "run" /\ stray' = FALSE /\ Procs' = Procs
        /\ UNCHANGED <<job, caseNo, at, proc, reaped, late, text, seen, host, cases, result, checked, gaveUp>>
    BY DEF StrayEnds, Procs, host
  <1>2. ProcessesInv'
    BY <1>1 DEF ProcessesInv, JudgingInv
  <1>3. PrintedInv'
    BY <1>1 DEF PrintedInv, Says, JudgingInv
  <1>4. TypeInv'
    BY <1>1 DEF JudgingInv, TypeInv, TypeOK
  <1>5. CollectedInv' /\ ResultInv'
    BY <1>1, RunKeeps DEF JudgingInv
  <1> QED BY <1>2, <1>3, <1>4, <1>5 DEF JudgingInv

(* With the runner of a container all in it is gone. *)
LEMMA RunnerGoneLeaves ==
    ASSUME JudgingInv, RunnerGone
    PROVE  /\ proc' \in [All -> Hows] /\ stray' \in BOOLEAN
           /\ \A p \in All : proc[p] # "run" => proc'[p] # "run"
           /\ job.box = "docker" => NothingLeft'
  <1>1. CASE job.box = "docker"
    <2>1. Kill(Procs) /\ stray' = FALSE
      BY <1>1 DEF RunnerGone
    <2>2. proc' \in [All -> Hows] /\ \A p \in All : proc'[p] # "run"
      BY <2>1, KillEnds
    <2> QED BY <2>1, <2>2 DEF NothingLeft
  <1>2. CASE job.box # "docker"
    BY <1>2 DEF RunnerGone, JudgingInv, TypeInv, TypeOK, All, Hows
  <1> QED BY <1>1, <1>2

LEMMA RunnerDiesKeeps ==
    ASSUME JudgingInv, RunnerDies
    PROVE  JudgingInv'
  <1>1. /\ at # "exit" /\ at' = "dead" /\ stage = "run" /\ stage' = "collect"
        /\ UNCHANGED <<job, caseNo, reaped, late, text, seen, host>> /\ Procs' = Procs /\ RunnerGone
    BY DEF RunnerDies, RunnerGone, Procs
  <1>2. /\ proc' \in [All -> Hows] /\ stray' \in BOOLEAN
        /\ \A p \in All : proc[p] # "run" => proc'[p] # "run"
        /\ job.box = "docker" => NothingLeft'
    BY <1>1, RunnerGoneLeaves
  <1>3. reaped' \subseteq Procs /\ reaped \subseteq All /\ late' \in BOOLEAN
    BY <1>1, ProcsAre DEF JudgingInv, TypeInv, TypeOK
  <1>4. ProcessesInv'
    BY <1>1, <1>2, <1>3 DEF ProcessesInv, JudgingInv
  <1> QED BY <1>1, <1>2, <1>3, <1>4, CaseKeeps

LEMMA RunnerExitsKeeps ==
    ASSUME JudgingInv, RunnerExits
    PROVE  JudgingInv'
  <1>1. /\ at = "exit" /\ at' = at /\ stage = "run" /\ stage' = "collect" /\ RunnerGone
        /\ UNCHANGED <<job, caseNo, reaped, late, text, seen, host, cases, result, checked, gaveUp>>
        /\ Procs' = Procs
    BY DEF RunnerExits, RunnerGone, Procs, host
  <1>2. /\ proc' \in [All -> Hows] /\ stray' \in BOOLEAN
        /\ \A p \in All : proc[p] # "run" => proc'[p] # "run"
        /\ job.box = "docker" => NothingLeft'
    BY <1>1, RunnerGoneLeaves
  <1>3. reaped \subseteq All
    BY ProcsAre DEF JudgingInv, TypeInv, TypeOK
  <1>4. ProcessesInv'
    BY <1>1, <1>2, <1>3 DEF ProcessesInv, JudgingInv
  <1>5. PrintedInv'
    BY <1>1 DEF PrintedInv, Says, JudgingInv
  <1>6. TypeInv'
    BY <1>1, <1>2 DEF JudgingInv, TypeInv, TypeOK, All, Hows
  <1>7. CollectedInv' /\ ResultInv'
    BY <1>1, <1>2, RunKeeps DEF JudgingInv
  <1> QED BY <1>4, <1>5, <1>6, <1>7 DEF JudgingInv

-----------------------------------------------------------------------------
(* The host. *)

(* A case that run_judge_task lets pass has passed, and one that it fails has
   deserved it: the comparison of outputs, or the checker, has found every case
   whose output reads wrong. *)
LEMMA FailsMeansFailed ==
    ASSUME JudgingInv, stage = "verdict", NEW i \in 1..Len(cases)
    PROVE  /\ ~Fails(i) => Passed(i)
           /\ Fails(i) => Deserves(i, StatusOf(i))
  <1>1. i \in Cases /\ Sound(cases[i].verdict, i) /\ cases[i].verdict \in Verdicts
    BY NumCasesAssumption DEF JudgingInv, TypeInv, TypeOK, CollectedInv, Cases
  <1>2. job.mode \in {"EXACT", "SPJ"} /\ (job.type = "STANDARD" => job.prints[i] \in Outputs)
    BY <1>1 DEF JudgingInv, TypeInv, Jobs
  <1>3. ASSUME job.type = "STANDARD", ~TooLong(i)
        PROVE  RightKept[job.prints[i]] <=> Right[job.prints[i]]
    BY <1>2, <1>3, KeptReads DEF TooLong
  <1>4. ASSUME ~Fails(i) PROVE Passed(i)
    <2>1. cases[i].verdict = "OK" /\ EndedWell(i) /\ ~Mismatch(i)
      BY <1>1, <1>4 DEF Fails, Sound
    <2>2. ASSUME job.type = "STANDARD" PROVE ReadsRight(i)
      <3>1. CASE UsesChecker
        BY <2>1, <3>1 DEF JudgingInv, CollectedInv
      <3>2. CASE ~UsesChecker
        <4>1. RightKept[job.prints[i]]
          BY <1>2, <2>1, <2>2, <3>2 DEF Mismatch, UsesChecker
        <4> QED BY <1>3, <2>2, <4>1 DEF ReadsRight
      <3> QED BY <3>1, <3>2
    <2> QED BY <2>1, <2>2 DEF Passed
  <1>5. ASSUME Fails(i) PROVE Deserves(i, StatusOf(i))
    <2>1. CASE cases[i].verdict = "OK"
      <3>1. EndedWell(i) /\ job.type = "STANDARD" /\ ~RightKept[job.prints[i]] /\ StatusOf(i) = "WA"
        BY <1>1, <1>5, <2>1 DEF Fails, Mismatch, Sound, StatusOf
      <3>2. SaidNo(i)
        BY <1>3, <3>1 DEF SaidNo
      <3> QED BY <3>1, <3>2 DEF Deserves
    <2>2. CASE cases[i].verdict = "SE"
      BY <1>1, <2>2 DEF Sound, StatusOf, Deserves
    <2>3. CASE cases[i].verdict \notin {"OK", "SE"}
      BY <1>1, <2>3 DEF Sound, StatusOf
    <2> QED BY <2>1, <2>2, <2>3
  <1> QED BY <1>4, <1>5

(* The row's result leaves what it is made of alone. *)
LEMMA JudgedStays ==
    ASSUME UNCHANGED <<runner, job, checked>>
    PROVE  /\ \A k : Passed(k)' <=> Passed(k)
           /\ \A k, s : Deserves(k, s)' <=> Deserves(k, s)
           /\ \A k, v : Sound(v, k)' <=> Sound(v, k)
  <1>1. /\ Procs' = Procs
        /\ UNCHANGED <<job, at, text, seen, checked>>
    BY DEF runner, Procs
  <1>2. \A k : EndedWell(k)' <=> EndedWell(k)
    BY <1>1 DEF EndedWell
  <1>3. \A k : TooLong(k)' <=> TooLong(k)
    BY <1>1 DEF TooLong
  <1>4. \A k : Passed(k)' <=> Passed(k)
    BY <1>1, <1>2, <1>3 DEF Passed, ReadsRight
  <1>5. \A k : SaidNo(k)' <=> SaidNo(k)
    BY <1>1, <1>2, <1>3 DEF SaidNo
  <1>6. \A k : Crashed(k)' <=> Crashed(k)
    BY <1>1 DEF Crashed
  <1>7. \A k : OutOfMemory(k)' <=> OutOfMemory(k)
    BY <1>1 DEF OutOfMemory
  <1>8. \A k : NotRun(k)' <=> NotRun(k)
    BY <1>1 DEF NotRun
  <1>9. \A k : seen'[k].late <=> seen[k].late
    BY <1>1
  <1>10. \A k, s : Deserves(k, s)' <=> Deserves(k, s)
    BY <1>5, <1>6, <1>7, <1>8, <1>9 DEF Deserves
  <1>11. \A k, v : Sound(v, k)' <=> Sound(v, k)
    BY <1>2, <1>8, <1>10 DEF Sound
  <1> QED BY <1>4, <1>10, <1>11

(* Writing the row, a result that says AC or names a case, keeps everything that
   the result does not belie. *)
LEMMA ConcludeKeeps ==
    ASSUME JudgingInv, stage # "end", NEW status, NEW k, Conclude(status, k),
           UNCHANGED <<runner, job, checked>>, cases' = cases \/ cases' = <<>>,
           status \in (Verdicts \ {"OK", "SE"}) \cup {"AC", "CE", "SYSTEM_ERROR"},
           status = "AC" => \A j \in Cases : Passed(j),
           k # 0 => Deserves(k, status) /\ \A j \in 1..(k - 1) : Passed(j)
    PROVE  JudgingInv'
  <1>1. /\ ProcessesInv' /\ PrintedInv' /\ Procs' = Procs
        /\ UNCHANGED <<job, caseNo, at, proc, reaped, late, stray, text, seen, checked>>
    BY HostKeeps DEF JudgingInv, runner, children
  <1>2. cases' \in Seq(Lines) /\ \A i \in DOMAIN cases' : cases'[i].index = i /\ cases'[i].verdict \in Verdicts
    <2>1. cases \in Seq(Lines) /\ \A i \in DOMAIN cases : cases[i].index = i /\ cases[i].verdict \in Verdicts
      BY DEF JudgingInv, TypeInv, TypeOK
    <2>2. CASE cases' = cases
      BY <2>1, <2>2
    <2>3. CASE cases' = <<>>
      BY <2>3
    <2> QED BY <2>2, <2>3
  <1>3. /\ stage' = "end" /\ result = NoResult
        /\ \/ result' = [status |-> status, case |-> k] /\ gaveUp' = gaveUp
           \/ result' = NoResult /\ gaveUp' = TRUE
    BY DEF Conclude, JudgingInv, CollectedInv
  <1>4. result'.status \in (Verdicts \ {"OK", "SE"}) \cup {"AC", "CE", "SYSTEM_ERROR", "none"}
    BY <1>3 DEF NoResult
  <1>5. TypeInv'
    BY <1>1, <1>2, <1>3, <1>4 DEF JudgingInv, TypeInv, TypeOK
  <1>6. CollectedInv'
    BY <1>3 DEF CollectedInv
  <1>7. ResultInv'
    <2>1. CASE result' = [status |-> status, case |-> k]
      <3>1. result'.status = status /\ result'.case = k
        BY <2>1
      <3>2. status = "AC" => \A j \in Cases : Passed(j)'
        BY JudgedStays
      <3>3. k # 0 => Deserves(k, status)' /\ \A j \in 1..(k - 1) : Passed(j)'
        BY JudgedStays
      <3>4. AcceptedOnlyIfAllPass'
        BY <3>1, <3>2 DEF AcceptedOnlyIfAllPass
      <3>5. FailureIsTheFirst'
        <4>1. k # 0 => Deserves(result.case, result.status)'
          BY <2>1, <3>1, <3>3 DEF Deserves, SaidNo, Crashed, OutOfMemory, NotRun, EndedWell, TooLong
        <4> QED BY <3>1, <3>3, <4>1 DEF FailureIsTheFirst
      <3>6. SilentOnlyIfBroken'
        BY <3>1 DEF SilentOnlyIfBroken, NoResult, Verdicts
      <3> QED BY <3>4, <3>5, <3>6 DEF ResultInv
    <2>2. CASE result' = NoResult /\ gaveUp' = TRUE
      BY <2>2 DEF ResultInv, AcceptedOnlyIfAllPass, FailureIsTheFirst, SilentOnlyIfBroken, NoResult
    <2> QED BY <1>3, <2>1, <2>2
  <1> QED BY <1>1, <1>5, <1>6, <1>7 DEF JudgingInv

(* A result that leaves the row SYSTEM_ERROR or CE. *)
LEMMA ErrorKeeps ==
    ASSUME JudgingInv, stage # "end", NEW status \in {"CE", "SYSTEM_ERROR"}, Conclude(status, 0),
           UNCHANGED <<runner, job, checked>>, cases' = cases \/ cases' = <<>>
    PROVE  JudgingInv'
  BY ConcludeKeeps

(* The steps before there is anything to judge. *)
LEMMA LoadKeeps ==
    ASSUME JudgingInv, Load
    PROVE  JudgingInv'
  <1>1. /\ stage = "load" /\ stage' \in {"compile", "end"} /\ (stage' = "end" => gaveUp')
        /\ gaveUp' \in BOOLEAN /\ UNCHANGED <<runner, job, cases, result, checked>>
        /\ result = NoResult
    BY DEF Load, JudgingInv, CollectedInv, TypeInv, TypeOK
  <1>2. /\ ProcessesInv' /\ PrintedInv' /\ Procs' = Procs
        /\ UNCHANGED <<caseNo, at, proc, reaped, late, stray, text, seen>>
    BY <1>1, HostKeeps DEF JudgingInv, runner, children
  <1>3. TypeInv'
    BY <1>1, <1>2 DEF JudgingInv, TypeInv, TypeOK
  <1>4. CollectedInv' /\ ResultInv'
    BY <1>1 DEF JudgingInv, CollectedInv, ResultInv, AcceptedOnlyIfAllPass, FailureIsTheFirst,
                SilentOnlyIfBroken, NoResult
  <1> QED BY <1>2, <1>3, <1>4 DEF JudgingInv

LEMMA CompileKeeps ==
    ASSUME JudgingInv, Compile
    PROVE  JudgingInv'
  <1>1. CASE \E status \in {"CE", "SYSTEM_ERROR"} : Conclude(status, 0)
    BY <1>1, ErrorKeeps DEF Compile
  <1>2. CASE stage' = "run" /\ UNCHANGED <<result, gaveUp>>
    <2>1. /\ ProcessesInv' /\ PrintedInv' /\ Procs' = Procs /\ stage = "compile" /\ result = NoResult
          /\ UNCHANGED <<job, caseNo, at, proc, reaped, late, stray, text, seen, cases, checked>>
      BY HostKeeps DEF JudgingInv, Compile, CollectedInv, runner, children
    <2>2. TypeInv'
      BY <1>2, <2>1 DEF JudgingInv, TypeInv, TypeOK
    <2>3. CollectedInv' /\ ResultInv'
      BY <1>2, <2>1 DEF JudgingInv, CollectedInv, ResultInv, AcceptedOnlyIfAllPass, FailureIsTheFirst,
                        SilentOnlyIfBroken, NoResult
    <2> QED BY <2>1, <2>2, <2>3 DEF JudgingInv
  <1> QED BY <1>1, <1>2 DEF Compile

LEMMA HostTimeoutKeeps ==
    ASSUME JudgingInv, HostTimeout
    PROVE  JudgingInv'
  BY ErrorKeeps DEF HostTimeout

(* A line of the runner is true of its case. *)
LEMMA LineIsSound ==
    ASSUME JudgingInv, NEW i \in 1..Len(text)
    PROVE  Sound(text[i].verdict, i)
  <1>1. text[i].verdict \in Verdicts /\ Says(text[i].verdict, seen[i].ends, seen[i].late)
    BY DEF JudgingInv, TypeInv, TypeOK, PrintedInv
  <1> QED BY <1>1 DEF Says, Sound, Deserves, Verdicts, EndedWell, SaidNo, Crashed, OutOfMemory, NotRun

LEMMA CollectKeeps ==
    ASSUME JudgingInv, Collect
    PROVE  JudgingInv'
  <1> USE NumCasesAssumption
  <1>1. /\ stage = "collect" /\ at \in {"exit", "dead"} /\ UNCHANGED <<runner, job, checked>>
        /\ job.box = "docker" => NothingLeft
        /\ text \in Seq(Lines) /\ Len(text) \in Nat
        /\ \A i \in DOMAIN text : text[i].index = i /\ text[i].verdict \in Verdicts
    BY DEF Collect, JudgingInv, CollectedInv, TypeInv, TypeOK
  <1>2. /\ Len(text) <= NumCases
        /\ at = "exit" => Len(text) # 0 /\ (Len(text) = NumCases \/ text[Len(text)].verdict # "OK")
    <2>1. CASE at = "exit"
      <3>1. Len(text) = NumCases \/ (Len(text) \in 1..NumCases /\ text[Len(text)].verdict # "OK")
        BY <2>1 DEF JudgingInv, PrintedInv
      <3> QED BY <1>1, <3>1
    <2>2. CASE at # "exit"
      <3>1. caseNo = Len(text) + 1 /\ caseNo <= NumCases
        BY <2>2 DEF JudgingInv, PrintedInv
      <3> QED BY <1>1, <2>2, <3>1
    <2> QED BY <2>1, <2>2
  <1>3. Collected = text
    BY <1>1, <1>2, CollectedIsText
  <1>4. /\ ProcessesInv' /\ PrintedInv' /\ Procs' = Procs /\ UsesChecker' = UsesChecker
        /\ UNCHANGED <<job, caseNo, at, proc, reaped, late, stray, text, seen, checked>>
    BY <1>1, HostKeeps DEF JudgingInv, UsesChecker, runner, children
  <1>5. CASE Conclude("SYSTEM_ERROR", 0) /\ UNCHANGED cases
    BY <1>1, <1>5, ErrorKeeps
  <1>6. CASE /\ \/ text # <<>> /\ cases' = text
                \/ /\ text = <<>> /\ job.box = "docker" /\ at = "dead"
                   /\ cases' = <<[index |-> 1, verdict |-> "MLE"]>>
             /\ stage' = IF UsesChecker THEN "spj" ELSE "verdict"
             /\ UNCHANGED <<result, gaveUp>>
    <2>1. /\ cases' \in Seq(Lines) /\ Len(cases') <= NumCases
          /\ \A i \in DOMAIN cases' : cases'[i].index = i /\ cases'[i].verdict \in Verdicts
          /\ \A i \in 1..Len(cases') : Sound(cases'[i].verdict, i)
          /\ at = "exit" => \/ Len(cases') = NumCases
                            \/ \E i \in 1..Len(cases') : cases'[i].verdict # "OK"
      <3>1. CASE text = <<>>
        <4>1. /\ cases' = <<[index |-> 1, verdict |-> "MLE"]>> /\ at # "exit"
              /\ job.box = "docker" /\ at = "dead"
          BY <1>2, <1>6, <3>1
        <4>2. [index |-> 1, verdict |-> "MLE"] \in Lines
          BY DEF Lines, Verdicts
        <4>3. Sound("MLE", 1)
          BY <3>1, <4>1 DEF Sound, Deserves, OutOfMemory
        <4>4. cases' \in Seq(Lines) /\ Len(cases') = 1 /\ cases'[1] = [index |-> 1, verdict |-> "MLE"]
          BY <4>1, <4>2
        <4> QED BY <4>1, <4>3, <4>4 DEF Verdicts
      <3>2. CASE text # <<>>
        <4>1. cases' = text
          BY <1>6, <3>2
        <4>2. \A i \in 1..Len(text) : Sound(text[i].verdict, i)
          BY LineIsSound
        <4>3. at = "exit" => \/ Len(text) = NumCases
                            \/ \E i \in 1..Len(text) : text[i].verdict # "OK"
          BY <1>1, <1>2
        <4> QED BY <1>1, <1>2, <4>1, <4>2, <4>3
      <3> QED BY <3>1, <3>2
    <2>2. /\ at' = at /\ stage' \in {"spj", "verdict"} /\ (stage' = "spj" <=> UsesChecker)
          /\ result' = result /\ result = NoResult /\ gaveUp' = gaveUp
      BY <1>1, <1>4, <1>6 DEF JudgingInv, CollectedInv
    <2>3. TypeInv'
      BY <1>1, <1>4, <2>1, <2>2 DEF JudgingInv, TypeInv, TypeOK
    <2>4. CollectedInv'
      <3>1. \A i \in 1..Len(cases') : Sound(cases[i].verdict, i)'
        <4>1. \A i, v : Sound(v, i)' <=> Sound(v, i)
          BY <1>1, JudgedStays
        <4> QED BY <2>1, <4>1 DEF Sound, Deserves, EndedWell, SaidNo, Crashed, OutOfMemory, NotRun, TooLong
      <3>2. NothingLeft' <=> NothingLeft
        BY <1>4 DEF NothingLeft
      <3>3. \A k \in Cases : checked[k] = "no"
        BY <1>1 DEF JudgingInv, CollectedInv
      <3> QED BY <1>1, <1>4, <2>1, <2>2, <3>1, <3>2, <3>3 DEF CollectedInv
    <2>5. ResultInv'
      BY <2>2 DEF ResultInv, AcceptedOnlyIfAllPass, FailureIsTheFirst, SilentOnlyIfBroken, NoResult
    <2> QED BY <1>4, <2>3, <2>4, <2>5 DEF JudgingInv
  <1> QED BY <1>3, <1>5, <1>6 DEF Collect

(* What a checker's answer says of the output it was given. *)
LEMMA AnswerFits ==
    ASSUME JudgingInv, UsesChecker, NEW i \in Cases, NEW by \in {"kept", "whole", "torn", "broke"}
    PROVE  /\ Accepts(i, by) => \/ Right[job.prints[i]]
                                \/ TooLong(i) /\ RightKept[job.prints[i]]
                                \/ by = "torn"
           /\ ~Accepts(i, by) => ~Right[job.prints[i]] \/ TooLong(i) \/ by = "broke"
  <1>1. job.prints[i] \in Outputs
    BY DEF JudgingInv, TypeInv, UsesChecker
  <1>2. ~TooLong(i) => (RightKept[job.prints[i]] <=> Right[job.prints[i]])
    BY <1>1, KeptReads DEF TooLong
  <1> QED BY <1>2 DEF Accepts

LEMMA RunCheckerKeeps ==
    ASSUME JudgingInv, RunChecker
    PROVE  JudgingInv'
  <1> USE NumCasesAssumption
  <1> DEFINE ok == {i \in DOMAIN cases : cases[i].verdict = "OK"}
             How == {"kept", "whole", "torn", "broke"}
  <1>1. /\ stage = "spj" /\ UNCHANGED <<runner, job>> /\ UsesChecker /\ job.type = "STANDARD"
        /\ cases \in Seq(Lines) /\ Len(cases) \in Nat /\ Len(cases) <= NumCases
        /\ DOMAIN cases = 1..Len(cases)
        /\ \A i \in DOMAIN cases : cases[i].index = i /\ cases[i].verdict \in Verdicts
        /\ \A i \in 1..Len(cases) : Sound(cases[i].verdict, i)
        /\ \A i \in DOMAIN cases : cases[i] \in Lines /\ i \in Cases
    BY DEF RunChecker, JudgingInv, CollectedInv, TypeInv, TypeOK, UsesChecker, Cases
  <1>2. /\ ProcessesInv' /\ PrintedInv' /\ Procs' = Procs /\ UsesChecker' = UsesChecker
        /\ UNCHANGED <<job, caseNo, at, proc, reaped, late, stray, text, seen>>
    BY <1>1, HostKeeps DEF JudgingInv, UsesChecker, runner, children
  <1>3. CASE Conclude("SYSTEM_ERROR", 0) /\ cases' = <<>> /\ UNCHANGED checked
    BY <1>1, <1>3, ErrorKeeps
  <1>4. ASSUME NEW by \in [ok -> How],
               checked' = [i \in Cases |-> IF i \in ok THEN by[i] ELSE "no"],
               cases' = [i \in DOMAIN cases |->
                           IF i \in ok /\ ~Accepts(i, by[i])
                           THEN [cases[i] EXCEPT !.verdict = "WA"] ELSE cases[i]],
               stage' = "verdict", UNCHANGED <<result, gaveUp>>
        PROVE  JudgingInv'
    <2>1. \A i \in DOMAIN cases :
             /\ cases'[i] \in Lines /\ cases'[i].index = i /\ cases'[i].verdict \in Verdicts
             /\ cases'[i].verdict = IF i \in ok /\ ~Accepts(i, by[i]) THEN "WA" ELSE cases[i].verdict
      <3> TAKE i \in DOMAIN cases
      <3>1. cases[i] \in Lines /\ cases[i].index = i /\ cases[i].verdict \in Verdicts
        BY <1>1
      <3>2. cases'[i] = IF i \in ok /\ ~Accepts(i, by[i]) THEN [cases[i] EXCEPT !.verdict = "WA"] ELSE cases[i]
        BY <1>4
      <3> HIDE DEF ok
      <3>3. CASE i \in ok /\ ~Accepts(i, by[i])
        <4>1. cases'[i] = [cases[i] EXCEPT !.verdict = "WA"]
          BY <3>2, <3>3
        <4> QED BY <3>1, <3>3, <4>1 DEF Lines, Verdicts
      <3>4. CASE ~(i \in ok /\ ~Accepts(i, by[i]))
        BY <3>1, <3>2, <3>4
      <3> QED BY <3>3, <3>4
    <2>2. cases' \in Seq(Lines) /\ Len(cases') = Len(cases) /\ DOMAIN cases' = DOMAIN cases
      BY <1>1, <1>4, <2>1
    <2>3. /\ checked' \in [Cases -> {"no", "kept", "whole", "torn", "broke"}]
          /\ \A i \in ok : checked'[i] = by[i] /\ by[i] \in How /\ i \in DOMAIN cases /\ cases[i].verdict = "OK"
      <3>1. \A i \in ok : i \in DOMAIN cases /\ cases[i].verdict = "OK" /\ i \in Cases
        BY <1>1
      <3> HIDE DEF ok
      <3> QED BY <1>4, <3>1
    <2>4. ASSUME NEW i \in 1..Len(cases) PROVE Sound(cases[i].verdict, i)'
      <3>1. i \in DOMAIN cases /\ Sound(cases[i].verdict, i) /\ (i \in ok <=> cases[i].verdict = "OK")
        BY <1>1
      <3> HIDE DEF ok
      <3>2. CASE i \in ok /\ ~Accepts(i, by[i])
        <4>1. cases'[i].verdict = "WA" /\ checked'[i] = by[i] /\ by[i] \in How /\ i \in Cases
          BY <1>1, <2>1, <2>3, <3>1, <3>2
        <4>2. ~Right[job.prints[i]] \/ TooLong(i) \/ checked'[i] = "broke"
          BY <1>1, <3>2, <4>1, AnswerFits
        <4>3. EndedWell(i)
          BY <3>1, <3>2 DEF Sound
        <4>4. SaidNo(i)'
          BY <1>1, <1>2, <4>2, <4>3 DEF SaidNo, EndedWell, TooLong
        <4> QED BY <4>1, <4>4 DEF Sound, Deserves
      <3>3. CASE i \in ok /\ Accepts(i, by[i])
        <4>1. cases'[i].verdict = "OK" /\ EndedWell(i)
          BY <2>1, <3>1, <3>3 DEF Sound
        <4>2. EndedWell(i)'
          BY <1>2, <4>1 DEF EndedWell
        <4> QED BY <4>1, <4>2 DEF Sound
      <3>4. CASE i \notin ok
        <4>1. cases'[i].verdict = cases[i].verdict /\ cases[i].verdict # "OK" /\ cases[i].verdict \in Verdicts
          BY <1>1, <2>1, <3>1, <3>4
        <4>2. checked'[i] = "no"
          BY <1>1, <1>4, <3>1, <3>4
        <4>3. cases[i].verdict = "SE" => NotRun(i)
          BY <3>1 DEF Sound
        <4>4. NotRun(i)' <=> NotRun(i)
          BY <1>2 DEF NotRun
        <4>5. cases[i].verdict # "SE" => Deserves(i, cases[i].verdict)
          BY <3>1, <4>1 DEF Sound
        <4>6. Deserves(i, cases[i].verdict) => Deserves(i, cases[i].verdict)'
          <5>1. (Crashed(i)' <=> Crashed(i)) /\ (OutOfMemory(i)' <=> OutOfMemory(i)) /\ seen'[i] = seen[i]
            BY <1>2 DEF Crashed, OutOfMemory
          <5>2. (EndedWell(i)' <=> EndedWell(i)) /\ (TooLong(i)' <=> TooLong(i))
            BY <1>2 DEF EndedWell, TooLong
          <5>3. SaidNo(i) => SaidNo(i)'
            <6>1. checked[i] = "no"
              BY <1>1, <3>1 DEF JudgingInv, CollectedInv
            <6> QED BY <1>2, <5>2, <6>1 DEF SaidNo
          <5> QED BY <4>1, <4>4, <5>1, <5>3 DEF Deserves
        <4> QED BY <4>1, <4>3, <4>4, <4>5, <4>6 DEF Sound
      <3> QED BY <3>2, <3>3, <3>4
    <2>5. ASSUME NEW i \in 1..Len(cases), cases'[i].verdict = "OK" PROVE ReadsRight(i)'
      <3>1. i \in DOMAIN cases /\ (i \in ok <=> cases[i].verdict = "OK") /\ i \in Cases
        BY <1>1
      <3> HIDE DEF ok
      <3>2. i \in ok /\ Accepts(i, by[i]) /\ checked'[i] = by[i] /\ by[i] \in How
        BY <2>1, <2>3, <2>5, <3>1
      <3>3. \/ Right[job.prints[i]]
            \/ TooLong(i) /\ RightKept[job.prints[i]]
            \/ checked'[i] = "torn"
        BY <1>1, <3>1, <3>2, AnswerFits
      <3> QED BY <1>2, <3>3 DEF ReadsRight, TooLong
    <2>6. at = "exit" => \/ Len(cases) = NumCases
                        \/ \E i \in 1..Len(cases) : cases'[i].verdict # "OK"
      <3>1. \A i \in 1..Len(cases) : cases[i].verdict # "OK" => cases'[i].verdict # "OK"
        BY <1>1, <2>1
      <3> QED BY <1>1, <3>1 DEF JudgingInv, CollectedInv
    <2>7. /\ at' = at /\ at \in {"exit", "dead"} /\ result' = result /\ result = NoResult /\ job' = job
          /\ gaveUp' = gaveUp /\ (job.box = "docker" => NothingLeft')
      BY <1>1, <1>2, <1>4 DEF JudgingInv, CollectedInv, NothingLeft
    <2>8. TypeInv'
      <3>1. \A i \in DOMAIN cases' : cases'[i].index = i /\ cases'[i].verdict \in Verdicts
        BY <2>1, <2>2
      <3>2. /\ TypeOK /\ job \in Jobs /\ text \in Seq(Lines)
            /\ job.type = "STANDARD" => \A k \in Cases : job.prints[k] \in Outputs
        BY DEF JudgingInv, TypeInv
      <3>3. TypeOK'
        BY <1>2, <1>4, <2>3, <2>7, <3>1, <3>2 DEF TypeOK
      <3> QED BY <1>2, <2>2, <3>2, <3>3 DEF TypeInv
    <2>9. CollectedInv'
      <3>1. \A i \in 1..Len(cases') : Sound(cases[i].verdict, i)'
        BY <2>2, <2>4 DEF Sound, Deserves, SaidNo, Crashed, OutOfMemory, NotRun, EndedWell, TooLong
      <3>2. \A i \in 1..Len(cases') : cases'[i].verdict = "OK" => ReadsRight(i)'
        BY <2>2, <2>5
      <3> QED BY <1>1, <1>2, <1>4, <2>2, <2>6, <2>7, <3>1, <3>2 DEF CollectedInv
    <2>10. ResultInv'
      BY <1>4, <2>7 DEF ResultInv, AcceptedOnlyIfAllPass, FailureIsTheFirst, SilentOnlyIfBroken, NoResult
    <2> QED BY <1>2, <2>8, <2>9, <2>10 DEF JudgingInv
  <1> QED BY <1>3, <1>4 DEF RunChecker

LEMMA VerdictKeeps ==
    ASSUME JudgingInv, Verdict
    PROVE  JudgingInv'
  <1> USE NumCasesAssumption
  <1>1. /\ stage = "verdict" /\ UNCHANGED <<runner, job, cases, checked>>
        /\ DOMAIN cases = 1..Len(cases) /\ Len(cases) \in Nat /\ Len(cases) <= NumCases
        /\ \A i \in DOMAIN cases : cases[i].verdict \in Verdicts
    BY DEF Verdict, JudgingInv, CollectedInv, TypeInv, TypeOK
  <1>2. \A i \in 1..Len(cases) : (~Fails(i) => Passed(i)) /\ (Fails(i) => Deserves(i, StatusOf(i)))
    BY <1>1, FailsMeansFailed
  <1>3. CASE \E i \in DOMAIN cases : Fails(i)
    <2>1. PICK i \in DOMAIN cases : /\ Fails(i)
                                    /\ \A j \in 1..(i - 1) : ~Fails(j)
                                    /\ Conclude(StatusOf(i), i)
      BY <1>3 DEF Verdict
    <2>2. StatusOf(i) \in (Verdicts \ {"OK", "SE"}) \cup {"SYSTEM_ERROR"}
      BY <1>1, <2>1 DEF StatusOf, Verdicts
    <2>3. Deserves(i, StatusOf(i)) /\ \A j \in 1..(i - 1) : Passed(j)
      BY <1>1, <1>2, <2>1
    <2>4. StatusOf(i) # "AC"
      BY <2>2 DEF Verdicts
    <2> QED BY <1>1, <2>1, <2>2, <2>3, <2>4, ConcludeKeeps
  <1>4. CASE ~(\E i \in DOMAIN cases : Fails(i)) /\ Len(cases) = NumCases
    <2>1. Conclude("AC", 0)
      BY <1>4 DEF Verdict
    <2>2. \A j \in Cases : Passed(j)
      BY <1>1, <1>2, <1>4 DEF Cases
    <2> QED BY <1>1, <2>1, <2>2, ConcludeKeeps
  <1>5. CASE ~(\E i \in DOMAIN cases : Fails(i)) /\ Len(cases) # NumCases
    <2>1. stage' = "end" /\ UNCHANGED <<result, gaveUp>> /\ result = NoResult
      BY <1>1, <1>5 DEF Verdict, JudgingInv, CollectedInv
    <2>2. at = "dead"
      <3>1. \A i \in 1..Len(cases) : cases[i].verdict = "OK"
        BY <1>1, <1>5 DEF Fails
      <3> QED BY <1>1, <1>5, <3>1 DEF JudgingInv, CollectedInv
    <2>3. /\ ProcessesInv' /\ PrintedInv' /\ Procs' = Procs
          /\ UNCHANGED <<job, caseNo, at, proc, reaped, late, stray, text, seen, cases, checked>>
      BY <1>1, HostKeeps DEF JudgingInv, runner, children
    <2>4. TypeInv'
      BY <2>1, <2>3 DEF JudgingInv, TypeInv, TypeOK
    <2>5. CollectedInv'
      BY <2>1 DEF CollectedInv
    <2>6. ResultInv'
      BY <2>1, <2>2, <2>3 DEF ResultInv, AcceptedOnlyIfAllPass, FailureIsTheFirst, SilentOnlyIfBroken, NoResult
    <2> QED BY <2>3, <2>4, <2>5, <2>6 DEF JudgingInv
  <1> QED BY <1>3, <1>4, <1>5

-----------------------------------------------------------------------------
LEMMA InitJudgingInv == Init => JudgingInv
  <1> SUFFICES ASSUME Init PROVE JudgingInv
    OBVIOUS
  <1> USE NumCasesAssumption DEF Init
  <1>1. Nobody \in [All -> {"none"}]
    BY DEF Nobody, All
  <1>2. <<>> \in Seq(Lines) /\ Len(<<>>) = 0
    OBVIOUS
  <1>3. TypeInv
    <2>1. job \in Jobs /\ text = <<>> /\ cases = <<>> /\ DOMAIN <<>> = {}
      BY DEF Jobs
    <2>2. caseNo \in 1..(NumCases + 1)
      OBVIOUS
    <2>3. proc \in [Players \cup Judges -> Ends \cup {"none", "run"}]
      BY <1>1 DEF All
    <2>4. seen \in [Cases -> [ends : [Players \cup Judges -> Ends \cup {"none", "run"}], late : BOOLEAN]]
      <3>1. Nobody \in [Players \cup Judges -> Ends \cup {"none", "run"}]
        BY <1>1 DEF All
      <3> QED BY <3>1
    <2>5. job.type = "STANDARD" => \A k \in Cases : job.prints[k] \in Outputs
      BY <2>1 DEF Jobs
    <2> QED BY <1>2, <2>1, <2>2, <2>3, <2>4, <2>5 DEF TypeInv, TypeOK, NoResult
  <1>4. ProcessesInv
    BY <1>1 DEF ProcessesInv
  <1>5. PrintedInv
    BY <1>2 DEF PrintedInv
  <1>6. CollectedInv /\ ResultInv
    BY DEF CollectedInv, ResultInv, AcceptedOnlyIfAllPass, FailureIsTheFirst, SilentOnlyIfBroken, NoResult
  <1> QED BY <1>3, <1>4, <1>5, <1>6 DEF JudgingInv

LEMMA NextKeepsJudgingInv == JudgingInv /\ [Next]_vars => JudgingInv'
  <1> SUFFICES ASSUME JudgingInv, [Next]_vars PROVE JudgingInv'
    OBVIOUS
  <1>1. CASE Host
    BY <1>1, LoadKeeps, CompileKeeps, CollectKeeps, RunCheckerKeeps, VerdictKeeps DEF Host
  <1>2. CASE Runner
    BY <1>2, StartKeeps, StartFailsKeeps, PollStdKeeps, CheckStdKeeps, PollGroupKeeps, RunnerExitsKeeps
       DEF Runner
  <1>3. CASE Tick \/ Forking \/ StrayEnds \/ RunnerDies \/ HostTimeout
    BY <1>3, TimeAndForksKeep, StrayEndsKeeps, RunnerDiesKeeps, HostTimeoutKeeps
  <1>4. CASE \E p \in Procs, how \in Ends : Ending(p, how)
    BY <1>4, EndingKeeps
  <1>5. CASE UNCHANGED vars
    <2>1. /\ UNCHANGED <<runner, job, checked>>
          /\ UNCHANGED <<stage, caseNo, at, proc, reaped, late, stray, text, cases, result, seen, gaveUp>>
      BY <1>5 DEF vars, runner, children
    <2>2. ProcessesInv' /\ PrintedInv' /\ Procs' = Procs /\ UsesChecker' = UsesChecker
      BY <2>1, HostKeeps DEF JudgingInv, UsesChecker
    <2>3. TypeInv'
      BY <2>1, <2>2 DEF JudgingInv, TypeInv, TypeOK
    <2>4. CollectedInv'
      BY <2>1, <2>2 DEF JudgingInv, CollectedInv, Sound, Deserves, SaidNo, Crashed, OutOfMemory, NotRun,
                        EndedWell, TooLong, ReadsRight, NothingLeft
    <2>5. ResultInv'
      BY <2>1, <2>2 DEF JudgingInv, ResultInv, AcceptedOnlyIfAllPass, FailureIsTheFirst, SilentOnlyIfBroken,
                        Passed, Deserves, SaidNo, Crashed, OutOfMemory, NotRun, EndedWell, TooLong, ReadsRight
    <2> QED BY <2>2, <2>3, <2>4, <2>5 DEF JudgingInv
  <1> QED BY <1>1, <1>2, <1>3, <1>4, <1>5 DEF Next, Done

(* Every judging, whatever its processes do and whenever they do it, keeps the
   invariant. *)
THEOREM JudgingInvHolds == Spec => []JudgingInv
  BY InitJudgingInv, NextKeepsJudgingInv, PTL DEF Spec


(* The state of a judging is what its declaration says; the host's cases are the
   runner's, in their order. *)
THEOREM TypeCorrect == Spec => []TypeOK
  <1>1. JudgingInv => TypeOK
    BY DEF JudgingInv, TypeInv
  <1> QED BY <1>1, JudgingInvHolds, PTL

(* A submission is accepted only if every case passed as far as its output is
   read, however many cases there are and whatever they print. *)
THEOREM AcceptedHolds == Spec => []AcceptedOnlyIfAllPass
  <1>1. JudgingInv => AcceptedOnlyIfAllPass
    BY DEF JudgingInv, ResultInv
  <1> QED BY <1>1, JudgingInvHolds, PTL

(* The case a verdict names is the first that did not pass, and the verdict says
   what happened in it. *)
THEOREM FirstFailureHolds == Spec => []FailureIsTheFirst
  <1>1. JudgingInv => FailureIsTheFirst
    BY DEF JudgingInv, ResultInv
  <1> QED BY <1>1, JudgingInvHolds, PTL

(* Between two cases no child of the runner is left, and nothing at all of a
   container whose outputs are read. *)
THEOREM NoChildOutlivesHolds == Spec => []NoChildOutlivesItsCase
  <1>1. JudgingInv => NoChildOutlivesItsCase
    <2>1. JudgingInv => DOMAIN proc = All
      BY DEF JudgingInv, TypeInv, TypeOK, All
    <2> QED BY <2>1 DEF JudgingInv, ProcessesInv, CollectedInv, NothingLeft, NoChildOutlivesItsCase
  <1> QED BY <1>1, JudgingInvHolds, PTL

(* A judging that leaves the row without a verdict has lost its runner, or could
   not load or write what it needs. *)
THEOREM SilentHolds == Spec => []SilentOnlyIfBroken
  <1>1. JudgingInv => SilentOnlyIfBroken
    BY DEF JudgingInv, ResultInv
  <1> QED BY <1>1, JudgingInvHolds, PTL

(* Two outputs match just if they look the same, whatever the judging. *)
THEOREM MatchHolds == Spec => []MatchIsLookingTheSame
  <1>1. MatchIsLookingTheSame
    BY NormalIsPictureHolds DEF MatchIsLookingTheSame
  <1> QED BY <1>1, PTL
=============================================================================

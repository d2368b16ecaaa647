----------------------------- MODULE OutputMatch -----------------------------
(***************************************************************************)
(* judge_outputs_match of nl-judge/src/sandbox.cpp: when a program's output *)
(* counts as the expected one.  Text is a sequence of characters: "SP"      *)
(* stands for a blank or a tab, "CR" and "LF" for themselves, all others    *)
(* can be seen.  Its loops are recursive functions of the number of         *)
(* characters read, one operator for each turn.                             *)
(***************************************************************************)
EXTENDS Integers, Sequences, SequencesExt

Blanks == {"SP", "CR"}              \* what rtrim_copy removes

(* s without the characters of set C at its end. *)
TrimRight(s, C) ==
    SubSeq(s, 1, Max({0} \cup {i \in DOMAIN s : s[i] \notin C}))

(* The first loop. *)
Keep(kept, c) == IF c = "CR" THEN kept ELSE Append(kept, c)

WithoutCR(s) ==
    LET after[i \in 0..Len(s)] ==
            IF i = 0 THEN <<>> ELSE Keep(after[i - 1], s[i])
    IN  after[Len(s)]

(* The second loop, by std::getline: the lines already put out, and the one that
   is being read. *)
PutLine(out, line) == Append(out \o TrimRight(line, Blanks), "LF")

Read(r, c) ==
    IF c = "LF" THEN [out |-> PutLine(r.out, r.line), line |-> <<>>]
                ELSE [out |-> r.out, line |-> Append(r.line, c)]

LinesOf(s) ==
    LET after[i \in 0..Len(s)] ==
            IF i = 0 THEN [out |-> <<>>, line |-> <<>>] ELSE Read(after[i - 1], s[i])
    IN  after[Len(s)]

(* Nothing is a line that follows the last LF. *)
TrimmedLines(s) ==
    LET end == LinesOf(s)
    IN  IF end.line = <<>> THEN end.out ELSE PutLine(end.out, end.line)

BugTrimTheEndOnly(s) ==         \* a bug: blanks are trimmed after the last line only
    TrimRight(WithoutCR(s), {"SP", "LF"})

Normalize(s) == TrimRight(TrimmedLines(WithoutCR(s)), {"LF"})

OutputsMatch(expected, actual) == Normalize(expected) = Normalize(actual)

-----------------------------------------------------------------------------
(* What a reader sees of a text: the line and the column of every character that
   can be seen.  CR takes no column. *)
Draw(pen, c) ==
    CASE c = "LF" -> [pen EXCEPT !.line = @ + 1, !.column = 0]
      [] c = "CR" -> pen
      [] c = "SP" -> [pen EXCEPT !.column = @ + 1]
      [] OTHER    -> [pen EXCEPT !.column = @ + 1,
                                 !.marks = @ \cup {<<pen.line, pen.column, c>>}]

Drawing(s) ==
    LET after[i \in 0..Len(s)] ==
            IF i = 0 THEN [line |-> 0, column |-> 0, marks |-> {}] ELSE Draw(after[i - 1], s[i])
    IN  after[Len(s)]

Picture(s) == Drawing(s).marks

(* All texts of at most five characters. *)
Texts == BoundedSeq({"x", "SP", "CR", "LF"}, 5)

(* Texts have one normal form just if they have one picture. *)
NormalIsPicture ==
    LET views == {[normal |-> Normalize(s), picture |-> Picture(s)] : s \in Texts}
    IN  \A u, v \in views : u.normal = v.normal <=> u.picture = v.picture
=============================================================================

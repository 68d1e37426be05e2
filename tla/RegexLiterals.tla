--------------------------- MODULE RegexLiterals ---------------------------
(***************************************************************************)
(* The literals that a regular expression requires.  A search by regular   *)
(* expression reads only the texts that hold them all, so that a literal   *)
(* that some match lacks would lose the match.  A pattern is a sequence of *)
(* characters.                                                             *)
(***************************************************************************)
EXTENDS SequencesExt, Integers

Meta == {".", "*", "+", "?", "|", "^", "$", "(", ")", "{", "}", "[", "\\"}

\* What stands for a character when a backslash is before it, and the character.
Escaped ==
    [c \in (Meta \cup {"]", "/", "#", "=", "!", ":", "-"}) |-> c]
    @@ [n |-> "newline", t |-> "tab", r |-> "return", f |-> "form feed", v |-> "vertical tab"] @@ ("0" :> "null")

\* The run of characters read so far, when it is long enough to be worth a look-up.
Flush(run) == IF Len(run) >= 3 THEN {run} ELSE {}

\* Mutant of WithoutLast: the character that may be absent is kept.
WithLast(run) == run
WithoutLast(run) == IF run = <<>> THEN run ELSE Front(run)

Close(p, i) == SelectInSubSeq(p, i, Len(p), LAMBDA c : c = "}")
IsZeroQuantAt(p, i) ==
    /\ i <= Len(p)
    /\ \/ p[i] \in {"?", "*"}
       \/ p[i] = "{" /\ Close(p, i) > 0 /\ p[i + 1] = "0" /\ p[i + 2] \in {",", "}"}
PastQuantifier(p, i) ==
    IF ~IsZeroQuantAt(p, i) THEN i ELSE IF p[i] = "{" THEN Close(p, i) + 1 ELSE i + 1

\* The place after the class whose inside begins at i; after the group whose depth there is d.
RECURSIVE PastClass(_, _), PastGroup(_, _, _)
PastClass(p, i) ==
    IF i > Len(p) \/ p[i] = "]" THEN i + 1 ELSE PastClass(p, IF p[i] = "\\" THEN i + 2 ELSE i + 1)
PastGroup(p, i, d) ==
    CASE i > Len(p) \/ d = 0 -> i
      [] i <= Len(p) /\ d > 0 /\ p[i] = "\\" -> PastGroup(p, i + 2, d)
      [] OTHER -> PastGroup(p, i + 1, CASE p[i] = "(" -> d + 1 [] p[i] = ")" -> d - 1 [] OTHER -> d)

\* From place i on, `run' being read and `runs' collected; Char when the last of run was just read.
RECURSIVE Walk(_, _, _, _), Char(_, _, _, _)
Walk(p, i, run, runs) ==
    LET flushed == runs \cup Flush(run) IN
    CASE i > Len(p) \/ (i = Len(p) /\ p[i] = "\\") -> flushed
      [] OTHER ->
    CASE p[i] = "\\" /\ p[i + 1] \in DOMAIN Escaped -> Char(p, i + 2, Append(run, Escaped[p[i + 1]]), runs)
      [] p[i] = "\\" /\ p[i + 1] \notin DOMAIN Escaped -> Walk(p, i + 2, <<>>, flushed)
      [] p[i] = "[" -> Walk(p, PastQuantifier(p, PastClass(p, i + 1)), <<>>, flushed)
      [] p[i] = "(" -> Walk(p, PastQuantifier(p, PastGroup(p, i + 1, 1)), <<>>, flushed)
      [] p[i] = "|" -> {}
      [] p[i] = "{" -> Walk(p, (IF Close(p, i) = 0 THEN Len(p) ELSE Close(p, i)) + 1, <<>>, runs \cup Flush(WithoutLast(run)))
      [] p[i] \in {"?", "*"} -> Walk(p, i + 1, <<>>, runs \cup Flush(WithoutLast(run)))
      [] p[i] \in {"^", "$", ".", "+", ")", "}"} -> Walk(p, i + 1, <<>>, flushed)
      [] p[i] \notin Meta -> Char(p, i + 1, Append(run, p[i]), runs)
Char(p, i, run, runs) ==
    IF IsZeroQuantAt(p, i) THEN Walk(p, PastQuantifier(p, i), <<>>, runs \cup Flush(WithoutLast(run)))
    ELSE Walk(p, i, run, runs)

ExtractRequiredLiterals(p) == Walk(p, 1, <<>>, {})
=============================================================================

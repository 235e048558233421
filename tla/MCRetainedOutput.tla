-------------------------- MODULE MCRetainedOutput --------------------------
(***************************************************************************)
(* Characters, limits and requests for checking RetainedOutput: a letter   *)
(* in both cases, a letter of two bytes, the end of a line, and the Turkish*)
(* capital I with a dot, whose lower case is two characters.               *)
(***************************************************************************)
EXTENDS RetainedOutput, TLC

CONSTANTS a, A, e, n, I, i, dot

LatinChars == {a, A, e, n}
TurkishChars == LatinChars \cup {I, i, dot}
LatinWidth == [c \in LatinChars |-> IF c = e THEN 2 ELSE 1]
TurkishWidth == [c \in TurkishChars |-> IF c \in {e, I, dot} THEN 2 ELSE 1]
LatinLower == [c \in LatinChars |-> IF c = A THEN <<a>> ELSE <<c>>]
TurkishLower == [c \in TurkishChars |-> CASE c = A -> <<a>> [] c = I -> <<i, dot>> [] OTHER -> <<c>>]
Newline == {n}

Search1(query, caseSensitive, context, limit) ==
  [query |-> query, case_sensitive |-> caseSensitive, context_lines |-> context, limit_matches |-> limit]

LatinOutputs == {<<e, a, n>>, <<a, n, a>>, <<A, A, a, n>>}
LatinQueries == {Search1(<<a>>, FALSE, 0, 2), Search1(<<a, a>>, FALSE, 0, 1), Search1(<<n, A>>, FALSE, 1, 1),
                 Search1(<<a, n>>, TRUE, 0, 1)}
TurkishOutputs == {<<I, a>>, <<a, e>>}
TurkishQueries == {Search1(<<a>>, FALSE, 0, 2)}
TwoTails == {1, 2}
SomeRanges == {<<0, 2>>, <<1, 4>>, <<2, 5>>, <<3, 20>>}
NoTails == {}
TwoLimits == {2, 3}
=============================================================================

----------------------------- MODULE QueryText -----------------------------
(***************************************************************************)
(* The query matchers of query.go.  A text is a sequence of letters; what  *)
(* a letter is does not matter, except that some are white space.          *)
(*                                                                         *)
(* Package regexp is external: a text without operators is a pattern that  *)
(* matches wherever it occurs, and one with a letter of Unbalanced, such   *)
(* as a single parenthesis, does not compile.                              *)
(***************************************************************************)
EXTENDS Positions, Sequences

CONSTANTS
  Letters,       \* what texts are written with
  Blank,         \* the letter that white space is replaced by
  Spaces,        \* the letters \s stands for in a pattern
  UnicodeSpaces, \* the letters strings.TrimSpace removes, some more
  Unbalanced

ASSUME TextAssumption ==
  /\ Blank \in Spaces /\ Spaces \subseteq UnicodeSpaces /\ UnicodeSpaces \subseteq Letters
  /\ Unbalanced \subseteq Letters \ UnicodeSpaces

\* The positions of q but those inside a run of white space.
Kept(q) == {i \in 1..Len(q) : q[i] \in Spaces /\ i > 1 => q[i - 1] \notin Spaces}

\* re.ReplaceAllString(q, " "): every run of white space becomes one blank.
ReplaceRuns(q) ==
  LET kept == At(q, Kept(q))
  IN  [k \in DOMAIN kept |-> IF kept[k] \in Spaces THEN Blank ELSE kept[k]]

\* The positions of q between its margins.
Inside(q) ==
  {i \in 1..Len(q) : \E a \in 1..i, b \in i..Len(q) :
     q[a] \notin UnicodeSpaces /\ q[b] \notin UnicodeSpaces}

\* strings.TrimSpace (external)
TrimSpace(q) == At(q, Inside(q))

\* Mutant of stripQuery: only the ends are trimmed.
stripQueryEnds(q) == TrimSpace(q)

stripQuery(q) == TrimSpace(ReplaceRuns(q))

QueryMatcherEqual(expectedSQL, actualSQL) ==
  stripQuery(actualSQL) = stripQuery(expectedSQL)

QueryMatcherRegexp(expectedSQL, actualSQL) ==
  LET expect == stripQuery(expectedSQL)
      actual == stripQuery(actualSQL)
  IN  /\ ~(actual # <<>> /\ expect = <<>>)
      /\ \A i \in 1..Len(expect) : expect[i] \notin Unbalanced
      /\ \E o \in 0..(Len(actual) - Len(expect)) :
           SubSeq(actual, o + 1, o + Len(expect)) = expect

-----------------------------------------------------------------------------
(***************************************************************************)
(* Reference: what a reader sees of a text, without any editing of it.  It *)
(* is the letters between the margins, and between which neighbours there  *)
(* is white space.                                                         *)
(***************************************************************************)
Ink(q) ==
  LET seen == {i \in Inside(q) : q[i] \notin Spaces}
      at   == Ascending(seen)
  IN  [ letters |-> At(q, seen),
        gaps    |-> {k \in 1..(Cardinality(seen) - 1) : at[k + 1] > at[k] + 1} ]

\* What is seen of e is what is seen of a from letter o + 1 on.
SeenAt(e, a, o) ==
  LET n == Len(e.letters) IN
  /\ o + n <= Len(a.letters)
  /\ \A k \in 1..n : e.letters[k] = a.letters[o + k]
  /\ \A k \in 1..(n - 1) : k \in e.gaps <=> o + k \in a.gaps

LooksLike(expectedSQL, actualSQL) == Ink(expectedSQL) = Ink(actualSQL)

OccursIn(expectedSQL, actualSQL) ==
  LET e == Ink(expectedSQL)
      a == Ink(actualSQL)
  IN  IF e.letters = <<>> THEN a.letters = <<>>
      ELSE \E o \in 0..Len(a.letters) : SeenAt(e, a, o)
=============================================================================

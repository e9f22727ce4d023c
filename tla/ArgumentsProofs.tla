-------------------------- MODULE ArgumentsProofs --------------------------
(***************************************************************************)
(* Lemmas about the comparison of argument lists, the current one and the  *)
(* one that is built before Go 1.8.                                        *)
(***************************************************************************)
EXTENDS ValueChecking, PositionsProofs

\* argsMatches succeeds on a list iff every argument matches.
LEMMA AllMatch ==
  ASSUME NEW e, NEW args, Len(args) \in Nat, e.withArgs, Len(args) = Len(e.args)
  PROVE  ArgsMatches(e, args) = "nil"
           <=> \A k \in 1..Len(args) : ArgMatches(e.args[k], args[k], k) = "nil"
<1> DEFINE bad == {k \in 1..Len(args) : ArgMatches(e.args[k], args[k], k) # "nil"}
           least == CHOOSE i \in bad : \A j \in bad : i <= j
<1>1. ArgsMatches(e, args)
        = IF bad = {} THEN "nil" ELSE ArgMatches(e.args[least], args[least], least)
  BY DEF ArgsMatches
<1>2. bad # {} => least \in bad
  <2>1. bad \in SUBSET (1..Len(args))
    OBVIOUS
  <2> HIDE DEF bad
  <2>2. bad # {} => \E i \in bad : \A j \in bad : i <= j
    BY <2>1, LeastExists
  <2> QED
    BY <2>2
<1> QED
  BY <1>1, <1>2

\* An argument matches before Go 1.8 iff it matches now, if it is not named
\* and the converter yields a driver value for it.
LEMMA SameOne ==
  ASSUME NEW x, NEW v, NEW k, v.ordinal = k, x.t # "named",
         x.t = "plain" => ConvertValue[x.value] \in Failures \cup DriverValues,
         x.t \in {"matcher", "plain"}
  PROVE  ArgMatches(x, v, k) = ArgMatchesBefore18(x, v)
<1> QED
  BY DEF ArgMatches, Compare, ArgMatchesBefore18

\* Argument lists that match one by one alike match alike.
LEMMA SameAll ==
  ASSUME NEW e, NEW args, Len(args) \in Nat,
         Len(args) = Len(e.args) =>
           \A k \in 1..Len(args) :
             ArgMatches(e.args[k], args[k], k) = ArgMatchesBefore18(e.args[k], args[k])
  PROVE  ArgsMatches(e, args) = ArgsMatchesBefore18(e, args)
<1> DEFINE bad == {k \in 1..Len(args) : ArgMatches(e.args[k], args[k], k) # "nil"}
           old == {k \in 1..Len(args) : ArgMatchesBefore18(e.args[k], args[k]) # "nil"}
           least == CHOOSE i \in bad : \A j \in bad : i <= j
<1>1. CASE ~e.withArgs \/ Len(args) # Len(e.args)
  BY <1>1 DEF ArgsMatches, ArgsMatchesBefore18
<1>2. CASE e.withArgs /\ Len(args) = Len(e.args)
  <2>1. bad = old
    BY <1>2
  <2>2. ArgsMatches(e, args)
          = IF bad = {} THEN "nil" ELSE ArgMatches(e.args[least], args[least], least)
    BY <1>2 DEF ArgsMatches
  <2>3. ArgsMatchesBefore18(e, args)
          = IF old = {} THEN "nil"
            ELSE LET k == CHOOSE i \in old : \A j \in old : i <= j
                 IN  ArgMatchesBefore18(e.args[k], args[k])
    BY <1>2 DEF ArgsMatchesBefore18
  <2>4. bad # {} => least \in 1..Len(args)
    <3>1. bad \in SUBSET (1..Len(args))
      OBVIOUS
    <3> HIDE DEF bad
    <3>2. bad # {} => \E i \in bad : \A j \in bad : i <= j
      BY <3>1, LeastExists
    <3> QED
      BY <3>1, <3>2
  <2> HIDE DEF bad, old
  <2> QED
    BY <1>2, <2>1, <2>2, <2>3, <2>4
<1> QED
  BY <1>1, <1>2
=============================================================================

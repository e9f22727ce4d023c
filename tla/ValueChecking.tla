--------------------------- MODULE ValueChecking ---------------------------
(***************************************************************************)
(* How the arguments a program passes reach an expectation, and how they   *)
(* are compared by the builds of the package for older versions of Go.     *)
(*                                                                         *)
(* A program's argument is a record [name, value]; database/sql (external) *)
(* takes a sql.NamedArg apart, numbers the arguments and lets the mock     *)
(* check each value.                                                       *)
(***************************************************************************)
EXTENDS Arguments

CONSTANTS Outs,          \* the values of type sql.Out
          DriverValues   \* the values for which driver.IsValue holds

\* CheckNamedValue: output parameters are let through as they are.
CheckNamedValue(w) == IF w \in Outs THEN w ELSE ConvertValue[w]

\* CheckNamedValue as it is built for Go 1.8.
CheckNamedValueGo18(w) == ConvertValue[w]

\* convertValueToNamedValue, for values without names.
convertValueToNamedValue(values) ==
  [k \in 1..Len(values) |-> [name |-> "", ordinal |-> k, value |-> values[k]]]

\* External: database/sql calls the mock only when every value was accepted.
Reaches(L) == \A k \in 1..Len(L) : CheckNamedValue(L[k].value) \notin Failures

\* External: what the mock is called with.
DriverArgs(L) ==
  [k \in 1..Len(L) |-> [name |-> L[k].name, ordinal |-> k,
                        value |-> CheckNamedValue(L[k].value)]]

-----------------------------------------------------------------------------
(***************************************************************************)
(* argsMatches before Go 1.8: arguments have no names, and a converter     *)
(* must yield a driver value.                                              *)
(***************************************************************************)
ArgMatchesBefore18(x, v) ==
  IF x.t = "matcher" THEN x.verdict[v.value]
  ELSE LET darg == ConvertValue[x.value]
       IN  IF darg \in Failures THEN darg
           ELSE IF darg = v.value /\ darg \in DriverValues THEN "nil" ELSE "err"

\* Mutant of ArgsMatchesBefore18: WithoutArgs is not looked at.
ArgsMatchesBefore18Any(e, args) ==
  IF ~e.withArgs THEN "nil"
  ELSE IF Len(args) # Len(e.args) THEN "err"
  ELSE IF \A k \in 1..Len(args) : ArgMatchesBefore18(e.args[k], args[k]) = "nil"
       THEN "nil" ELSE "err"

ArgsMatchesBefore18(e, args) ==
  LET bad == {k \in 1..Len(args) : ArgMatchesBefore18(e.args[k], args[k]) # "nil"}
  IN  IF ~e.withArgs THEN IF e.noArgs /\ Len(args) > 0 THEN "err" ELSE "nil"
      ELSE IF Len(args) # Len(e.args) THEN "err"
      ELSE IF bad = {} THEN "nil"
      ELSE LET k == CHOOSE i \in bad : \A j \in bad : i <= j
           IN  ArgMatchesBefore18(e.args[k], args[k])
=============================================================================

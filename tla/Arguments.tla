----------------------------- MODULE Arguments -----------------------------
(***************************************************************************)
(* How an expectation compares the arguments of a call with the ones the   *)
(* test asked for: queryBasedExpectation.argsMatches and its recovering    *)
(* wrapper attemptArgMatch (expectations_go18.go).                         *)
(*                                                                         *)
(* An expected argument x is a record of one of three shapes:              *)
(*   [t |-> "matcher", verdict |-> f]    a user supplied Argument; f maps  *)
(*       a driver value to what its Match method does with that value      *)
(*   [t |-> "named", name |-> n, value |-> w]               sql.Named(n,w) *)
(*   [t |-> "plain", value |-> w]                           anything else  *)
(* An actual argument v is a driver.NamedValue                             *)
(*   [name |-> n, ordinal |-> k, value |-> d].                             *)
(* Only the outcome of a comparison is kept, not the text of its error.    *)
(***************************************************************************)
EXTENDS Naturals, Sequences

CONSTANT ConvertValue   \* what driver.ValueConverter makes of a raw value:
                        \* a driver value or one of Failures

(***************************************************************************)
(* The ways a comparison can end without a match: an error is returned, or *)
(* user code (a matcher or a converter) panics with a value that is an     *)
(* error, a string or of any other type.                                   *)
(***************************************************************************)
Panics   == {"panicError", "panicString", "panicOther"}
Failures == {"err"} \cup Panics
Outcomes == {"nil"} \cup Failures

\* AnyArg(): an Argument that accepts every value of the set Values.
AnyArg(Values) == [t |-> "matcher", verdict |-> [d \in Values |-> "nil"]]

\* The end of an iteration: darg is what the converter has made of x.value.
Compare(darg, d) ==
  IF darg \in Failures THEN darg ELSE IF darg = d THEN "nil" ELSE "err"

\* One iteration of the loop of argsMatches, for the k-th argument.
ArgMatches(x, v, k) ==
  IF x.t = "matcher" THEN x.verdict[v.value]
  ELSE IF \/ x.t = "named" /\ v.name # x.name
          \/ x.t = "plain" /\ v.ordinal # k
       THEN "err"
       ELSE Compare(ConvertValue[x.value], v.value)

(***************************************************************************)
(* argsMatches: e.withArgs is FALSE when e.args is a nil slice, that is    *)
(* when WithArgs was not called (or was called with no argument at all).   *)
(* The loop stops at the first argument that does not match.               *)
(***************************************************************************)
ArgsMatches(e, args) ==
  LET bad == {k \in 1..Len(args) : ArgMatches(e.args[k], args[k], k) # "nil"}
  IN  IF ~e.withArgs THEN IF e.noArgs /\ Len(args) > 0 THEN "err" ELSE "nil"
      ELSE IF Len(args) # Len(e.args) THEN "err"
      ELSE IF bad = {} THEN "nil"
      ELSE LET k == CHOOSE i \in bad : \A j \in bad : i <= j
           IN  ArgMatches(e.args[k], args[k], k)

\* Mutant of AttemptArgMatch: nothing is recovered.
AttemptArgMatchBare(e, args) == ArgsMatches(e, args)

(***************************************************************************)
(* attemptArgMatch: the deferred function recovers every panic but gives   *)
(* err a value only when the panic value is not an error, and asserts that *)
(* it then is a string.  A panic with an error therefore ends as a nil     *)
(* error, and one with a value that is neither panics again.               *)
(***************************************************************************)
AttemptArgMatch(e, args) ==
  LET outcome == ArgsMatches(e, args)
  IN  IF outcome = "panicError" THEN "nil"
      ELSE IF outcome = "panicString" THEN "err" ELSE outcome
=============================================================================

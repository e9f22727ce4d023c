-------------------------- MODULE ExpectationQueue --------------------------
(***************************************************************************)
(* What a mock promises about the matching of calls with expectations, as  *)
(* if every call were matched in one indivisible step.                     *)
(*                                                                         *)
(* In ordered mode the only candidate is the earliest expectation that is  *)
(* still pending; in unordered mode it is the earliest pending expectation *)
(* that selects the call, or over which a matcher panics.  A call takes    *)
(* its candidate if the remaining checks accept it, else it is refused.    *)
(* Module Matching shows that the handlers, which look at one expectation  *)
(* at a time and lock each one separately, behave like this for any number *)
(* of concurrent callers.                                                  *)
(***************************************************************************)
EXTENDS Matchers

CONSTANTS Callers, Expectations, Requests, NoRequest

VARIABLES expected,    \* the expectations in the order in which they were set
          triggered,   \* indices of the fulfilled ones
          ordered,     \* the matching mode
          phase,       \* where each caller's call is
          req          \* the request of each caller's call

vars == <<expected, triggered, ordered, phase, req>>

Phases == {"idle", "called", "taken", "refused"}

Pending == (1..Len(expected)) \ triggered

Earliest(S) == {i \in S : \A j \in S : i <= j}

Candidates(r) ==
  IF ordered THEN {i \in Earliest(Pending) : expected[i].kind = r.kind}
             ELSE Earliest({i \in Pending : \/ Selects(expected[i], r)
                                          \/ ScanPanics(expected[i], r)})

Accepted(r) == {i \in Candidates(r) : Verdict(expected[i], r) = "nil"}

Init ==
  /\ expected = <<>>
  /\ triggered = {}
  /\ ordered = TRUE
  /\ phase = [g \in Callers |-> "idle"]
  /\ req = [g \in Callers |-> NoRequest]

NoCallPending == \A g \in Callers : phase[g] \notin {"called", "refused"}

Expect(e) ==
  /\ NoCallPending
  /\ expected' = Append(expected, e)
  /\ UNCHANGED <<triggered, ordered, phase, req>>

SetOrder(b) ==
  /\ NoCallPending
  /\ ordered' = b
  /\ UNCHANGED <<expected, triggered, phase, req>>

Call(g, r) ==
  /\ phase[g] = "idle"
  /\ phase' = [phase EXCEPT ![g] = "called"]
  /\ req' = [req EXCEPT ![g] = r]
  /\ UNCHANGED <<expected, triggered, ordered>>

\* The request is forgotten when the call is over.
Move(g, p) ==
  /\ phase' = [phase EXCEPT ![g] = p]
  /\ req' = [req EXCEPT ![g] = IF p = "idle" THEN NoRequest ELSE @]

Take(g) ==
  /\ phase[g] = "called"
  /\ \E i \in Accepted(req[g]) : triggered' = triggered \cup {i}
  /\ \E p \in {"taken", "idle"} : Move(g, p)
  /\ UNCHANGED <<expected, ordered>>

Refuse(g) ==
  /\ phase[g] = "called"
  /\ Accepted(req[g]) = {}
  /\ \E p \in {"refused", "idle"} : Move(g, p)
  /\ UNCHANGED <<expected, triggered, ordered>>

Answer(g) ==
  /\ phase[g] \in {"taken", "refused"}
  /\ Move(g, "idle")
  /\ UNCHANGED <<expected, triggered, ordered>>

Next ==
  \/ \E e \in Expectations : Expect(e)
  \/ \E b \in BOOLEAN : SetOrder(b)
  \/ \E g \in Callers, r \in Requests : Call(g, r)
  \/ \E g \in Callers : Take(g) \/ Refuse(g) \/ Answer(g)

Spec == Init /\ [][Next]_vars
=============================================================================

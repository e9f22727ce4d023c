------------------------- MODULE MatchingRefinement -------------------------
(***************************************************************************)
(* The proof that module Matching implements module ExpectationQueue: the  *)
(* interleaved loops of the handlers match calls with expectations as if   *)
(* each call were matched in one step.                                     *)
(***************************************************************************)
EXTENDS MatchingProofs

(***************************************************************************)
(* What a scan knows of the expectations it has left behind and of the one *)
(* it has stopped at.  In ordered mode that is ScanInv.                    *)
(***************************************************************************)

\* The unordered scan stops at an expectation, to claim it or with a panic.
Fits(e, r) == Selects(e, r) \/ ScanPanics(e, r)

\* An unordered scan has passed only expectations that cannot serve its call.
PassedInv ==
  \A g \in Callers : ~ordered /\ Scanning(g) =>
    \A i \in 1..(idx[g] - 1) : i \in triggered \/ ~Fits(expected[i], req[g])

\* Why a scan has stopped, or is about to test the mode.
StopInv ==
  \A g \in Callers :
    /\ pc[g] = "claim" => /\ expected[idx[g]].kind = req[g].kind
                          /\ ordered \/ Selects(expected[idx[g]], req[g])
    /\ pc[g] = "order" => expected[idx[g]].kind # req[g].kind

KnownInv == ScanInv /\ PassedInv /\ StopInv

-----------------------------------------------------------------------------
(***************************************************************************)
(* The conditions on one expectation.                                      *)
(***************************************************************************)

\* Only expectations of the type of the call stop a scan.
LEMMA FitsKind == ASSUME NEW e, NEW r, Fits(e, r) PROVE e.kind = r.kind
  BY DEF Fits, Selects, ScanPanics

\* Close, Begin, Commit, Rollback and Ping go by the type alone.
LEMMA KindSelects ==
  ASSUME NEW e, NEW r, r.kind \in ByType, e.kind = r.kind PROVE Selects(e, r)
  BY DEF Selects, ByType, BySql, HasArgs

\* A panic of the scan would have been one behind the scan as well.
LEMMA PanicsAgain ==
  ASSUME NEW e, NEW r, ScanPanics(e, r) PROVE Verdict(e, r) # "nil"
<1>1. CASE SqlPanics(e, r)
  BY <1>1 DEF ScanPanics, Verdict
<1>2. CASE ~SqlPanics(e, r)
  <2>1. /\ r.kind \in {"Query", "Exec"} /\ SqlMatches(e, r)
        /\ AttemptArgMatch(e, r.args) \in Panics
    BY <1>2 DEF ScanPanics, HasArgs
  <2>2. ArgsMatches(e, r.args) # "nil"
    BY <2>1 DEF AttemptArgMatch, Panics
  <2>3. Verdict(e, r) = ArgsMatches(e, r.args)
    BY <1>2, <2>1 DEF Verdict, BySql, HasArgs
  <2> QED
    BY <2>2, <2>3
<1> QED
  BY <1>1, <1>2

\* Both modules compare expectations and calls alike.
LEMMA SameVerdict == \A e, r : Queue!Verdict(e, r) = Verdict(e, r)
  BY DEF Verdict, Queue!Verdict, TxOptsDiffer, Queue!TxOptsDiffer, SqlMatches,
         Queue!SqlMatches, SqlPanics, Queue!SqlPanics, ArgsMatches, Queue!ArgsMatches, ArgMatches, Queue!ArgMatches,
         Compare, Queue!Compare, Failures, Queue!Failures, Panics, Queue!Panics,
         BySql, Queue!BySql, HasArgs, Queue!HasArgs

LEMMA SameFits ==
  \A e, r : Queue!Selects(e, r) \/ Queue!ScanPanics(e, r) <=> Fits(e, r)
<1>1. \A e, args : Queue!ArgsMatches(e, args) = ArgsMatches(e, args)
  BY DEF ArgsMatches, Queue!ArgsMatches, ArgMatches, Queue!ArgMatches, Compare,
         Queue!Compare, Failures, Queue!Failures, Panics, Queue!Panics
<1>2. \A e, args : Queue!AttemptArgMatch(e, args) = AttemptArgMatch(e, args)
  BY <1>1 DEF AttemptArgMatch, Queue!AttemptArgMatch
<1> QED
  BY <1>2 DEF Fits, Selects, Queue!Selects, ScanPanics, Queue!ScanPanics, SqlMatches, SqlPanics,
              Queue!SqlMatches, Queue!SqlPanics, Panics, Queue!Panics, BySql, Queue!BySql, HasArgs, Queue!HasArgs

-----------------------------------------------------------------------------
(***************************************************************************)
(* KnownInv is inductive.                                                  *)
(***************************************************************************)

\* The steps of a scan, with the reason for each.
Scans(g) ==
  LET e == expected[idx[g]] IN
  \/ pc[g] # "idle" /\ \E o : Return(g, o)
  \/ pc[g] = "lock" /\ Goto(g, "look")
  \/ /\ pc[g] = "look" /\ e.kind = req[g].kind
     /\ ordered \/ Selects(e, req[g])
     /\ Goto(g, "claim")
  \/ pc[g] = "look" /\ e.kind # req[g].kind /\ Goto(g, "order")
  \/ /\ pc[g] = "look"
     /\ idx[g] \in triggered \/ (~ordered /\ ~Fits(e, req[g]))
     /\ \E n : Advance(g, n)
  \/ pc[g] = "order" /\ ~ordered /\ Advance(g, 0)

LEMMA ScanSteps ==
  ASSUME NEW g \in Callers,
         Lock(g) \/ Look(g) \/ CheckOrder(g) \/ Exhausted(g) \/ Reject(g) \/ Cancelled(g)
  PROVE  LoopFrame /\ Scans(g)
<1>1. CASE Lock(g)
  BY <1>1 DEF Lock, Scans
<1>2. CASE Look(g)
  <2>1. pc[g] = "look" /\ LoopFrame
    BY <1>2 DEF Look
  <2>2. CASE SkipFulfilled(g)
    <3>1. idx[g] \in triggered /\ \E n : Advance(g, n)
      BY <2>2 DEF SkipFulfilled
    <3> QED
      BY <2>1, <3>1 DEF Scans
  <2>3. CASE LookByType(g)
    <3>1. expected[idx[g]].kind = req[g].kind => Selects(expected[idx[g]], req[g])
      BY <2>3, KindSelects DEF LookByType
    <3> QED
      BY <2>1, <2>3, <3>1 DEF LookByType, Scans
  <2>4. CASE LookOrdered(g)
    BY <2>1, <2>4 DEF LookOrdered, Scans
  <2>5. CASE LookUnordered(g)
    <3>1. CASE Selects(expected[idx[g]], req[g]) /\ Goto(g, "claim")
      BY <2>1, <3>1 DEF Scans, Selects
    <3>2. CASE Return(g, "panic")
      BY <2>1, <3>2 DEF Scans
    <3>3. CASE /\ ~ordered /\ ~Fits(expected[idx[g]], req[g])
               /\ Advance(g, 0)
      BY <2>1, <3>3 DEF Scans
    <3> QED
      BY <2>1, <2>5, <3>1, <3>2, <3>3 DEF LookUnordered, Fits
  <2> QED
    BY <1>2, <2>2, <2>3, <2>4, <2>5 DEF Look
<1>3. CASE CheckOrder(g)
  BY <1>3 DEF CheckOrder, Scans
<1>4. CASE Exhausted(g)
  BY <1>4 DEF Exhausted, Scans
<1>5. CASE Reject(g)
  BY <1>5 DEF Reject, Scans
<1>6. CASE Cancelled(g)
  BY <1>6 DEF Cancelled, Scans
<1> QED
  BY <1>1, <1>2, <1>3, <1>4, <1>5, <1>6

LEMMA ScanKnown ==
  ASSUME Typed, PassedInv, StopInv, NEW g \in Callers, LoopFrame, Scans(g)
  PROVE  PassedInv' /\ StopInv'
<1>1. /\ pc \in [Callers -> {"idle", "lock", "look", "order", "claim", "wait"}]
      /\ idx \in [Callers -> Nat] /\ req \in [Callers -> Requests \cup {NoRequest}]
  BY DEF Typed, TypeOK
<1>2. UNCHANGED <<expected, triggered, ordered>>
  BY DEF LoopFrame
<1>3. /\ \A h \in Callers \ {g} : pc'[h] = pc[h] /\ idx'[h] = idx[h] /\ req'[h] = req[h]
      /\ \/ pc'[g] = "idle"
         \/ pc'[g] = "look" /\ pc[g] = "lock" /\ idx'[g] = idx[g] /\ req'[g] = req[g]
         \/ /\ pc'[g] = "claim" /\ pc[g] = "look" /\ idx'[g] = idx[g] /\ req'[g] = req[g]
            /\ expected[idx[g]].kind = req[g].kind
            /\ ordered \/ Selects(expected[idx[g]], req[g])
         \/ /\ pc'[g] = "order" /\ pc[g] = "look" /\ idx'[g] = idx[g] /\ req'[g] = req[g]
            /\ expected[idx[g]].kind # req[g].kind
         \/ /\ pc'[g] = "lock" /\ pc[g] = "look" /\ idx'[g] = idx[g] + 1 /\ req'[g] = req[g]
            /\ idx[g] \in triggered \/ (~ordered /\ ~Fits(expected[idx[g]], req[g]))
         \/ /\ pc'[g] = "lock" /\ pc[g] = "order" /\ idx'[g] = idx[g] + 1 /\ req'[g] = req[g]
  BY <1>1 DEF Scans, Return, Goto, Advance
<1>4. StopInv'
  BY <1>2, <1>3 DEF StopInv
<1>5. \A h \in Callers \ {g} : ~ordered /\ Scanning(h)' =>
        \A i \in 1..(idx'[h] - 1) : i \in triggered \/ ~Fits(expected[i], req'[h])
  BY <1>3 DEF PassedInv, Scanning
<1>6. ~ordered /\ Scanning(g)' =>
        \A i \in 1..(idx'[g] - 1) : i \in triggered \/ ~Fits(expected[i], req'[g])
  <2> SUFFICES ASSUME ~ordered, Scanning(g)',
                      NEW i \in 1..(idx'[g] - 1), i \notin triggered
               PROVE  ~Fits(expected[i], req'[g])
    OBVIOUS
  <2>1. idx[g] \in Nat
    BY <1>1
  <2>2. Scanning(g) /\ req'[g] = req[g]
    BY <1>3 DEF Scanning
  <2>3. i \in 1..(idx[g] - 1) => ~Fits(expected[i], req[g])
    BY <2>2 DEF PassedInv
  <2>4. CASE idx'[g] = idx[g]
    BY <2>2, <2>3, <2>4
  <2>5. CASE idx'[g] = idx[g] + 1
    <3>1. i \in 1..(idx[g] - 1) \/ i = idx[g]
      BY <2>1, <2>5
    <3>2. pc[g] \in {"look", "order"}
      BY <1>3, <2>1, <2>5 DEF Scanning
    <3>3. i = idx[g] => ~Fits(expected[i], req[g])
      BY <1>3, <3>2, <2>1, <2>5, FitsKind DEF StopInv, Scanning
    <3> QED
      BY <2>2, <2>3, <3>1, <3>3
  <2> QED
    BY <1>3, <2>4, <2>5 DEF Scanning
<1>7. PassedInv'
  <2> SUFFICES ASSUME NEW h \in Callers, ~ordered', Scanning(h)'
               PROVE  \A i \in 1..(idx'[h] - 1) :
                        i \in triggered' \/ ~Fits(expected'[i], req'[h])
    BY DEF PassedInv, Fits, Selects, ScanPanics, SqlMatches, SqlPanics
  <2> QED
    BY <1>2, <1>5, <1>6
<1> QED
  BY <1>4, <1>7

LEMMA NextKnown ==
  ASSUME ~ToggleInFlight, Typed, KnownInv, [Next]_vars PROVE KnownInv'
<1> USE DEF KnownInv
<1>1. ScanInv'
  BY NextScan
<1>2. /\ pc \in [Callers -> {"idle", "lock", "look", "order", "claim", "wait"}]
      /\ idx \in [Callers -> Nat] /\ req \in [Callers -> Requests \cup {NoRequest}]
  BY DEF Typed, TypeOK
<1>3. CASE UNCHANGED <<expected, triggered, ordered, pc, req, idx>>
  BY <1>1, <1>3 DEF PassedInv, StopInv, Scanning, Fits, Selects, ScanPanics, SqlMatches, SqlPanics
<1>4. CASE \A h \in Callers : ~Scanning(h)'
  BY <1>1, <1>4 DEF PassedInv, StopInv, Scanning
<1>5. CASE Test
  <2>1. ASSUME NEW e \in Expectations, Expect(e) PROVE \A h \in Callers : ~Scanning(h)'
    BY <2>1 DEF Expect, Quiet, Scanning, callVars
  <2>2. ASSUME NEW b \in BOOLEAN, MatchExpectationsInOrder(b)
        PROVE  \A h \in Callers : ~Scanning(h)'
    BY <2>2 DEF MatchExpectationsInOrder, Quiet, Scanning, callVars
  <2>3. CASE ExpectationsWereMet \/ VerifyFulfilled \/ VerifyClosed \/ VerifyDone
    BY <1>3, <2>3 DEF ExpectationsWereMet, VerifyFulfilled, VerifyClosed, VerifyDone,
                      queueVars, callVars
  <2> QED
    BY <1>4, <1>5, <2>1, <2>2, <2>3 DEF Test
<1>6. CASE Elsewhere \/ (\E i \in handles : CloseHandle(i)) \/ UNCHANGED vars
  BY <1>3, <1>6 DEF Elsewhere, CloseHandle, vars, queueVars, callVars
<1>7. ASSUME NEW g \in Callers, NEW r \in Requests, pc[g] = "idle", StartLoop(g, r)
      PROVE  PassedInv' /\ StopInv'
  <2>1. /\ UNCHANGED <<expected, triggered, ordered>>
        /\ pc'[g] = "lock" /\ idx'[g] = 1
        /\ \A h \in Callers \ {g} : pc'[h] = pc[h] /\ idx'[h] = idx[h] /\ req'[h] = req[h]
    BY <1>2, <1>7 DEF StartLoop, queueVars
  <2> QED
    BY <2>1 DEF PassedInv, StopInv, Scanning, Fits, Selects, ScanPanics, SqlMatches, SqlPanics
<1>8. ASSUME NEW g \in Callers, Fulfil(g) \/ Deliver(g) PROVE PassedInv' /\ StopInv'
  <2>1. UNCHANGED <<expected, ordered>> /\ triggered \subseteq triggered'
    BY <1>8 DEF Fulfil, Deliver, queueVars
  <2>2. (\E o : Return(g, o)) \/ Goto(g, "wait")
    BY <1>8 DEF Fulfil, Deliver
  <2>3. /\ pc'[g] \in {"idle", "wait"}
        /\ \A h \in Callers \ {g} : pc'[h] = pc[h] /\ idx'[h] = idx[h] /\ req'[h] = req[h]
    BY <1>2, <2>2 DEF Return, Goto
  <2> QED
    BY <2>1, <2>3 DEF PassedInv, StopInv, Scanning, Fits, Selects, ScanPanics, SqlMatches, SqlPanics
<1>9. ASSUME NEW g \in Callers, EnterCall(g) PROVE PassedInv' /\ StopInv'
  BY <1>6, <1>7, <1>9, EnterSteps
<1>10. ASSUME NEW g \in Callers, Lock(g) \/ Proceed(g) \/ Cancelled(g)
       PROVE  PassedInv' /\ StopInv'
  BY <1>8, <1>10, ScanSteps, ScanKnown DEF Proceed
<1> QED
  BY <1>1, <1>5, <1>6, <1>9, <1>10 DEF Next

LEMMA KnownAlways ==
  ASSUME ~ToggleInFlight PROVE Spec => [](Typed /\ MatchInv /\ KnownInv)
<1>1. Init => KnownInv
  BY DEF Init, KnownInv, ScanInv, PassedInv, StopInv, Scanning
<1>2. Typed /\ KnownInv /\ [Next]_vars => KnownInv'
  BY NextKnown
<1> QED
  BY <1>1, <1>2, MatchAlways, PTL DEF Spec

-----------------------------------------------------------------------------
(***************************************************************************)
(* The candidates of the abstract queue, seen from a scan.                 *)
(***************************************************************************)

LEMMA EarliestIs ==
  ASSUME NEW n \in Nat, NEW S \in SUBSET (1..n), NEW i \in S, \A j \in S : i <= j
  PROVE  Queue!Earliest(S) = {i}
<1>1. \A k \in S : k <= i => k = i
  BY i \in 1..n
<1>2. i \in Queue!Earliest(S)
  BY DEF Queue!Earliest
<1>3. \A k \in Queue!Earliest(S) : k = i
  BY <1>1 DEF Queue!Earliest
<1> QED
  BY <1>2, <1>3

\* Where the scan stops is the earliest expectation that counts.
LEMMA StopIsCandidate ==
  ASSUME Typed, KnownInv, NEW g \in Callers, pc[g] \in {"look", "claim"},
         idx[g] \notin triggered
  PROVE  /\ ordered => Queue!Candidates(req[g]) =
                         IF expected[idx[g]].kind = req[g].kind THEN {idx[g]} ELSE {}
         /\ ~ordered /\ Fits(expected[idx[g]], req[g])
              => Queue!Candidates(req[g]) = {idx[g]}
<1>1. idx[g] \in 1..Len(expected) /\ Len(expected) \in Nat
  BY DEF Typed, TypeOK, IndexInv
<1>2. idx[g] \in Queue!Pending /\ Queue!Pending \subseteq 1..Len(expected)
  BY <1>1 DEF Queue!Pending
<1>3. \A i \in 1..Len(expected) : i \notin 1..(idx[g] - 1) => idx[g] <= i
  BY <1>1
<1>4. CASE ordered
  <2>1. \A i \in Queue!Pending : idx[g] <= i
    BY <1>2, <1>3, <1>4 DEF Queue!Pending, KnownInv, ScanInv
  <2>2. Queue!Earliest(Queue!Pending) = {idx[g]}
    BY <1>1, <1>2, <2>1, EarliestIs
  <2> QED
    BY <1>4, <2>2 DEF Queue!Candidates
<1>5. CASE ~ordered /\ Fits(expected[idx[g]], req[g])
  <2> DEFINE able == {i \in Queue!Pending : Fits(expected[i], req[g])}
  <2>1. idx[g] \in able /\ able \subseteq 1..Len(expected)
    BY <1>2, <1>5
  <2>2. \A i \in able : idx[g] <= i
    BY <1>2, <1>3, <1>5 DEF Queue!Pending, KnownInv, PassedInv, Scanning
  <2>3. Queue!Candidates(req[g]) = Queue!Earliest(able)
    BY <1>5, SameFits DEF Queue!Candidates
  <2> HIDE DEF able
  <2>4. Queue!Earliest(able) = {idx[g]}
    BY <1>1, <2>1, <2>2, EarliestIs
  <2> QED
    BY <1>5, <2>3, <2>4
<1> QED
  BY <1>4, <1>5

\* A scan that has reached the end has left no candidate behind.
LEMMA EndHasNoCandidate ==
  ASSUME Typed, KnownInv, NEW g \in Callers, pc[g] = "lock", idx[g] > Len(expected)
  PROVE  Queue!Candidates(req[g]) = {}
<1>1. idx[g] \in Nat /\ Len(expected) \in Nat
  BY DEF Typed, TypeOK
<1>2. 1..Len(expected) \subseteq 1..(idx[g] - 1)
  BY <1>1
<1>3. CASE ordered
  BY <1>2, <1>3 DEF Queue!Candidates, Queue!Earliest, Queue!Pending, KnownInv, ScanInv
<1>4. CASE ~ordered
  <2>1. \A i \in Queue!Pending : ~Fits(expected[i], req[g])
    BY <1>2, <1>4 DEF Queue!Pending, KnownInv, PassedInv, Scanning
  <2> QED
    BY <1>4, <2>1, SameFits DEF Queue!Candidates, Queue!Earliest
<1> QED
  BY <1>3, <1>4

\* The expectation a call claims is its only candidate.
LEMMA ClaimIsCandidate ==
  ASSUME Typed, MatchInv, KnownInv, NEW g \in Callers, pc[g] = "claim"
  PROVE  Queue!Candidates(req[g]) = {idx[g]}
<1>1. idx[g] \notin triggered
  BY DEF MatchInv, ClaimInv
<1>2. /\ expected[idx[g]].kind = req[g].kind
      /\ ordered \/ Fits(expected[idx[g]], req[g])
  BY DEF KnownInv, StopInv, Fits
<1> QED
  BY <1>1, <1>2, StopIsCandidate

-----------------------------------------------------------------------------
(***************************************************************************)
(* The phases of the abstract calls.                                       *)
(***************************************************************************)
PhaseMap == [g \in Callers |-> Phase(g)]

\* A step that moves one call moves its phase and no other.
LEMMA PhaseStep ==
  ASSUME Typed, NEW g \in Callers, NEW l, pc' = [pc EXCEPT ![g] = l], UNCHANGED ordered
  PROVE  PhaseMap' = [PhaseMap EXCEPT ![g] = Phase(g)'] /\ pc'[g] = l
<1>1. pc'[g] = l /\ \A h \in Callers \ {g} : pc'[h] = pc[h]
  BY DEF Typed, TypeOK
<1>2. \A h \in Callers \ {g} : Phase(h)' = Phase(h)
  BY <1>1 DEF Phase
<1> QED
  BY <1>1, <1>2 DEF PhaseMap

\* Steps within a scan do not show.
LEMMA SamePhase ==
  ASSUME Typed, NEW g \in Callers, NEW l, pc' = [pc EXCEPT ![g] = l], UNCHANGED ordered,
         Phase(g)' = Phase(g)
  PROVE  PhaseMap' = PhaseMap
  BY PhaseStep DEF PhaseMap

LEMMA ReturnMove ==
  ASSUME Typed, NEW g \in Callers, NEW o, Return(g, o), UNCHANGED ordered
  PROVE  Queue!Move(g, "idle")
<1>1. pc' = [pc EXCEPT ![g] = "idle"] /\ req' = [req EXCEPT ![g] = NoRequest]
  BY DEF Return
<1>2. Phase(g)' = "idle"
  BY <1>1 DEF Phase, Typed, TypeOK
<1>3. PhaseMap' = [PhaseMap EXCEPT ![g] = "idle"]
  BY <1>1, <1>2, PhaseStep
<1> QED
  BY <1>1, <1>3 DEF Queue!Move, PhaseMap

LEMMA GotoMove ==
  ASSUME Typed, NEW g \in Callers, NEW l, Goto(g, l), UNCHANGED ordered,
         NEW p, Phase(g)' = p, p # "idle"
  PROVE  Queue!Move(g, p)
<1>1. pc' = [pc EXCEPT ![g] = l] /\ req' = req
  BY DEF Goto
<1>2. PhaseMap' = [PhaseMap EXCEPT ![g] = p]
  BY <1>1, PhaseStep
<1>3. req' = [req EXCEPT ![g] = IF p = "idle" THEN NoRequest ELSE @]
  BY <1>1 DEF Typed, TypeOK
<1> QED
  BY <1>2, <1>3 DEF Queue!Move, PhaseMap

-----------------------------------------------------------------------------
(***************************************************************************)
(* Every step of the handlers is a step of the abstract queue or hidden.   *)
(***************************************************************************)

\* The test sets an expectation or the mode, or verifies.
LEMMA TestMaps ==
  ASSUME ~ToggleInFlight, Typed, Test PROVE Queue!Next \/ UNCHANGED Queue!vars
<1>1. Quiet => Queue!NoCallPending
  BY DEF Quiet, Scanning, Queue!NoCallPending, Phase
<1>2. UNCHANGED <<pc, ordered>> => UNCHANGED PhaseMap
  BY DEF PhaseMap, Phase
<1>3. ASSUME NEW e \in Expectations, Expect(e) PROVE Queue!Expect(e)
  BY <1>1, <1>2, <1>3 DEF Expect, Queue!Expect, PhaseMap, callVars
<1>4. ASSUME NEW b \in BOOLEAN, MatchExpectationsInOrder(b) PROVE Queue!SetOrder(b)
  <2>1. Quiet /\ ordered' = b /\ UNCHANGED <<expected, triggered, pc, req>>
    BY <1>4 DEF MatchExpectationsInOrder, callVars
  <2>2. UNCHANGED PhaseMap
    BY <2>1 DEF PhaseMap, Phase, Quiet, Scanning
  <2> QED
    BY <1>1, <2>1, <2>2 DEF Queue!SetOrder, PhaseMap
<1>5. CASE ExpectationsWereMet \/ VerifyFulfilled \/ VerifyClosed \/ VerifyDone
  <2>1. UNCHANGED <<expected, triggered, ordered, pc, req>>
    BY <1>5 DEF ExpectationsWereMet, VerifyFulfilled, VerifyClosed, VerifyDone,
                queueVars, callVars
  <2> QED
    BY <1>2, <2>1 DEF Queue!vars, PhaseMap
<1> QED
  BY <1>3, <1>4, <1>5 DEF Test, Queue!Next

\* A handler is entered: a call.  Connections and other pings do not show.
LEMMA EnterMaps ==
  ASSUME Typed, NEW g \in Callers, EnterCall(g)
  PROVE  Queue!Next \/ UNCHANGED Queue!vars
<1>1. CASE Elsewhere
  <2>1. UNCHANGED <<expected, triggered, ordered, pc, req>>
    BY <1>1 DEF Elsewhere, queueVars
  <2> QED
    BY <2>1 DEF Queue!vars, Phase
<1>2. ASSUME NEW r \in Requests, pc[g] = "idle", StartLoop(g, r) PROVE Queue!Call(g, r)
  <2>1. /\ pc' = [pc EXCEPT ![g] = "lock"] /\ req' = [req EXCEPT ![g] = r]
        /\ UNCHANGED <<expected, triggered, ordered>>
    BY <1>2 DEF StartLoop, queueVars
  <2>2. PhaseMap' = [PhaseMap EXCEPT ![g] = Phase(g)'] /\ pc'[g] = "lock"
    BY <2>1, PhaseStep
  <2>3. Phase(g)' = "called"
    BY <2>2 DEF Phase
  <2>4. PhaseMap[g] = "idle"
    BY <1>2 DEF PhaseMap, Phase
  <2> QED
    BY <2>1, <2>2, <2>3, <2>4 DEF Queue!Call, PhaseMap
<1> QED
  BY <1>1, <1>2, EnterSteps DEF Queue!Next

\* A call that has no candidate it could take is refused.
LEMMA RefuseMaps ==
  ASSUME Typed, NEW g \in Callers, LoopFrame, Phase(g) = "called",
         \A i \in Queue!Candidates(req[g]) : Verdict(expected[i], req[g]) # "nil",
         Queue!Move(g, "refused") \/ Queue!Move(g, "idle")
  PROVE  Queue!Refuse(g)
<1>1. Queue!Accepted(req[g]) = {}
  BY SameVerdict DEF Queue!Accepted
<1>2. PhaseMap[g] = "called"
  BY DEF PhaseMap
<1> QED
  BY <1>1, <1>2 DEF Queue!Refuse, LoopFrame, PhaseMap

\* A call that was taken or refused before returns.
LEMMA AnswerMaps ==
  ASSUME Typed, NEW g \in Callers, Phase(g) \in {"taken", "refused"},
         UNCHANGED <<expected, triggered, ordered>>, NEW o, Return(g, o)
  PROVE  Queue!Answer(g)
  BY ReturnMove DEF Queue!Answer

LEMMA HiddenMaps ==
  ASSUME Typed, NEW g \in Callers, LoopFrame, UNCHANGED req,
         NEW l, pc' = [pc EXCEPT ![g] = l], Phase(g)' = Phase(g)
  PROVE  UNCHANGED Queue!vars
<1>1. PhaseMap' = PhaseMap
  BY SamePhase DEF LoopFrame
<1> QED
  BY <1>1 DEF Queue!vars, PhaseMap, LoopFrame

LEMMA LookMaps ==
  ASSUME Typed, KnownInv, NEW g \in Callers, Look(g)
  PROVE  Queue!Refuse(g) \/ UNCHANGED Queue!vars
<1> DEFINE e == expected[idx[g]]
<1>1. /\ pc[g] = "look" /\ LoopFrame /\ Phase(g) = "called"
      /\ UNCHANGED <<expected, triggered, ordered>>
  BY DEF Look, LoopFrame, Phase
<1>2. ASSUME NEW n, Advance(g, n) PROVE UNCHANGED Queue!vars
  <2>1. pc' = [pc EXCEPT ![g] = "lock"] /\ UNCHANGED req
    BY <1>2 DEF Advance
  <2>2. Phase(g)' = "called"
    BY <2>1, <1>1, PhaseStep DEF Phase
  <2> QED
    BY <1>1, <2>1, <2>2, HiddenMaps
<1>3. CASE Goto(g, "claim")
  <2>1. pc' = [pc EXCEPT ![g] = "claim"] /\ UNCHANGED req
    BY <1>3 DEF Goto
  <2>2. Phase(g)' = "called"
    BY <2>1, <1>1, PhaseStep DEF Phase
  <2> QED
    BY <1>1, <2>1, <2>2, HiddenMaps
<1>4. CASE /\ idx[g] \notin triggered /\ e.kind # req[g].kind
           /\ Goto(g, "order")
  <2>1. pc' = [pc EXCEPT ![g] = "order"] /\ pc'[g] = "order" /\ UNCHANGED req
    BY <1>1, <1>4, PhaseStep DEF Goto
  <2>2. CASE ordered
    <3>1. Phase(g)' = "refused"
      BY <1>1, <2>1, <2>2 DEF Phase
    <3>2. Queue!Move(g, "refused")
      BY <1>1, <1>4, <3>1, GotoMove
    <3>3. Queue!Candidates(req[g]) = {}
      BY <1>1, <1>4, <2>2, StopIsCandidate
    <3> QED
      BY <1>1, <3>2, <3>3, RefuseMaps
  <2>3. CASE ~ordered
    <3>1. Phase(g)' = "called"
      BY <1>1, <2>1, <2>3 DEF Phase
    <3> QED
      BY <1>1, <2>1, <3>1, HiddenMaps
  <2> QED
    BY <2>2, <2>3
<1>5. CASE /\ idx[g] \notin triggered /\ ordered /\ e.kind # req[g].kind
           /\ Return(g, "unexpected")
  <2>1. Queue!Candidates(req[g]) = {}
    BY <1>1, <1>5, StopIsCandidate
  <2> QED
    BY <1>1, <1>5, <2>1, ReturnMove, RefuseMaps
<1>6. CASE /\ idx[g] \notin triggered /\ ~ordered /\ ScanPanics(e, req[g])
           /\ Return(g, "panic")
  <2>1. Queue!Candidates(req[g]) = {idx[g]}
    BY <1>1, <1>6, StopIsCandidate DEF Fits
  <2>2. Verdict(e, req[g]) # "nil"
    BY <1>6, PanicsAgain
  <2> QED
    BY <1>1, <1>6, <2>1, <2>2, ReturnMove, RefuseMaps
<1>7. CASE SkipFulfilled(g)
  BY <1>2, <1>7 DEF SkipFulfilled
<1>8. CASE LookByType(g)
  BY <1>3, <1>4, <1>8 DEF LookByType
<1>9. CASE LookOrdered(g)
  BY <1>3, <1>5, <1>9 DEF LookOrdered
<1>10. CASE LookUnordered(g)
  BY <1>2, <1>3, <1>6, <1>10 DEF LookUnordered
<1> QED
  BY <1>7, <1>8, <1>9, <1>10 DEF Look

\* Fulfilling the claimed expectation is what the abstract call does at once.
LEMMA FulfilMaps ==
  ASSUME Typed, MatchInv, KnownInv, NEW g \in Callers, Fulfil(g)
  PROVE  Queue!Take(g)
<1>1. /\ pc[g] = "claim" /\ Verdict(expected[idx[g]], req[g]) = "nil"
      /\ triggered' = triggered \cup {idx[g]} /\ UNCHANGED <<expected, ordered>>
      /\ (\E o : Return(g, o)) \/ Goto(g, "wait")
  BY DEF Fulfil
<1>2. idx[g] \in Queue!Accepted(req[g])
  BY <1>1, ClaimIsCandidate, SameVerdict DEF Queue!Accepted
<1>3. PhaseMap[g] = "called"
  BY <1>1 DEF PhaseMap, Phase
<1>4. Queue!Move(g, "idle") \/ Queue!Move(g, "taken")
  <2>1. ASSUME NEW o, Return(g, o) PROVE Queue!Move(g, "idle")
    BY <1>1, <2>1, ReturnMove
  <2>2. ASSUME Goto(g, "wait") PROVE Queue!Move(g, "taken")
    <3>1. pc'[g] = "wait"
      BY <2>2 DEF Goto, Typed, TypeOK
    <3>2. Phase(g)' = "taken"
      BY <3>1 DEF Phase
    <3> QED
      BY <1>1, <2>2, <3>2, GotoMove
  <2> QED
    BY <1>1, <2>1, <2>2
<1> QED
  BY <1>1, <1>2, <1>3, <1>4 DEF Queue!Take, PhaseMap

LEMMA CallMaps ==
  ASSUME Typed, MatchInv, KnownInv, NEW g \in Callers,
         Lock(g) \/ Proceed(g) \/ Cancelled(g)
  PROVE  \/ Queue!Take(g) \/ Queue!Refuse(g) \/ Queue!Answer(g)
         \/ UNCHANGED Queue!vars
<1>1. CASE Lock(g)
  <2>1. pc[g] = "lock" /\ LoopFrame /\ pc' = [pc EXCEPT ![g] = "look"] /\ UNCHANGED req
    BY <1>1 DEF Lock, Goto
  <2>2. Phase(g)' = Phase(g)
    BY <2>1 DEF Phase, Typed, TypeOK
  <2> QED
    BY <2>1, <2>2, HiddenMaps
<1>2. CASE Look(g)
  BY <1>2, LookMaps
<1>3. CASE CheckOrder(g)
  <2>1. pc[g] = "order" /\ LoopFrame /\ UNCHANGED <<expected, triggered, ordered>>
    BY <1>3 DEF CheckOrder, LoopFrame
  <2>2. CASE ordered /\ Return(g, "unexpected")
    <3>1. Phase(g) = "refused"
      BY <2>1, <2>2 DEF Phase
    <3> QED
      BY <2>1, <2>2, <3>1, AnswerMaps
  <2>3. CASE ~ordered /\ Advance(g, 0)
    <3>1. pc' = [pc EXCEPT ![g] = "lock"] /\ UNCHANGED req
      BY <2>3 DEF Advance
    <3>2. Phase(g)' = Phase(g)
      BY <2>1, <2>3, <3>1 DEF Phase, Typed, TypeOK
    <3> QED
      BY <2>1, <3>1, <3>2, HiddenMaps
  <2> QED
    BY <1>3, <2>2, <2>3 DEF CheckOrder
<1>4. CASE Exhausted(g)
  <2>1. /\ pc[g] = "lock" /\ idx[g] > Len(expected) /\ LoopFrame
        /\ UNCHANGED ordered /\ \E o : Return(g, o)
    BY <1>4 DEF Exhausted, LoopFrame
  <2>2. Phase(g) = "called" /\ Queue!Move(g, "idle")
    BY <2>1, ReturnMove DEF Phase
  <2> QED
    BY <2>1, <2>2, EndHasNoCandidate, RefuseMaps
<1>5. CASE Reject(g)
  <2>1. /\ pc[g] = "claim" /\ Verdict(expected[idx[g]], req[g]) # "nil" /\ LoopFrame
        /\ UNCHANGED ordered /\ \E o : Return(g, o)
    BY <1>5 DEF Reject, LoopFrame
  <2>2. Phase(g) = "called" /\ Queue!Move(g, "idle")
    BY <2>1, ReturnMove DEF Phase
  <2> QED
    BY <2>1, <2>2, ClaimIsCandidate, RefuseMaps
<1>6. CASE Fulfil(g)
  BY <1>6, FulfilMaps
<1>7. CASE Deliver(g) \/ Cancelled(g)
  <2>1. /\ pc[g] = "wait" /\ UNCHANGED <<expected, triggered, ordered>>
        /\ \E o : Return(g, o)
    BY <1>7 DEF Deliver, Cancelled, LoopFrame, queueVars
  <2>2. Phase(g) = "taken"
    BY <2>1 DEF Phase
  <2> QED
    BY <2>1, <2>2, AnswerMaps
<1> QED
  BY <1>1, <1>2, <1>3, <1>4, <1>5, <1>6, <1>7 DEF Proceed

LEMMA NextMaps ==
  ASSUME ~ToggleInFlight, Typed, MatchInv, KnownInv, [Next]_vars
  PROVE  [Queue!Next]_(Queue!vars)
<1>1. ASSUME NEW g \in Callers, EnterCall(g) \/ Lock(g) \/ Proceed(g) \/ Cancelled(g)
      PROVE  Queue!Next \/ UNCHANGED Queue!vars
  BY <1>1, EnterMaps, CallMaps DEF Queue!Next
<1>2. CASE (\E i \in handles : CloseHandle(i)) \/ UNCHANGED vars
  <2>1. UNCHANGED <<expected, triggered, ordered, pc, req>>
    BY <1>2 DEF CloseHandle, vars, queueVars, callVars
  <2> QED
    BY <2>1 DEF Queue!vars, Phase
<1> QED
  BY <1>1, <1>2, TestMaps DEF Next

(***************************************************************************)
(* The handlers match as if each call were matched in one step: for any    *)
(* number of callers, any expectations and any queue, Matching implements  *)
(* ExpectationQueue, if the mode is not switched while calls are matched.  *)
(***************************************************************************)
THEOREM MatchesAtomicallyAlways ==
  ASSUME ~ToggleInFlight PROVE Spec => MatchesAtomically
<1>1. Init => Queue!Init
  BY DEF Init, Queue!Init, Phase
<1>2. Typed /\ MatchInv /\ KnownInv /\ [Next]_vars => [Queue!Next]_(Queue!vars)
  BY NextMaps
<1> QED
  BY <1>1, <1>2, KnownAlways, PTL DEF Spec, Queue!Spec, MatchesAtomically

-----------------------------------------------------------------------------
(***************************************************************************)
(* How far the comments of the code that the runs refute do hold.          *)
(***************************************************************************)

\* Which steps of unordered mode end a call with a refusal or a panic.
LEMMA BadEnds ==
  ASSUME Typed, Next, ~ordered, NEW g \in Callers, Ended(g),
         out' \in Refusals \cup {"panic"}
  PROVE  \/ Reject(g) /\ out' \in {"mismatch", "panic"}
         \/ Exhausted(g) /\ out' \in {"allFulfilled", "unexpected"}
         \/ /\ pc[g] = "look" /\ out' = "panic"
            /\ ScanPanics(expected[idx[g]], req[g])
<1>1. pc \in [Callers -> {"idle", "lock", "look", "order", "claim", "wait"}]
  BY DEF Typed, TypeOK
<1>2. ~Test /\ ~(\E i \in handles : CloseHandle(i))
  BY TestLeavesLoops DEF Ended, CloseHandle, callVars
<1>3. ASSUME NEW h \in Callers, EnterCall(h) PROVE FALSE
  <2>1. ASSUME NEW r \in Requests, pc[h] = "idle", StartLoop(h, r) PROVE FALSE
    BY <1>1, <2>1 DEF StartLoop, Ended
  <2> QED
    BY <1>3, <2>1, EnterSteps DEF Elsewhere, Ended
<1>4. PICK h \in Callers : Lock(h) \/ Proceed(h) \/ Cancelled(h)
  BY <1>2, <1>3 DEF Next
<1>5. /\ \A l : Goto(h, l) => pc' = [pc EXCEPT ![h] = l]
      /\ \A n : Advance(h, n) => pc' = [pc EXCEPT ![h] = "lock"]
      /\ \A o : Return(h, o) => pc' = [pc EXCEPT ![h] = "idle"] /\ out' = o
  BY DEF Goto, Advance, Return
<1>6. h = g
  BY <1>1, <1>4, <1>5
  DEF Ended, Lock, Proceed, Cancelled, Look, SkipFulfilled, LookByType, LookOrdered,
      LookUnordered, CheckOrder, Exhausted, Reject, Fulfil, Deliver
<1>7. /\ \A l : Goto(g, l) => l = "idle"
      /\ \A n : ~Advance(g, n)
      /\ \A o : Return(g, o) => o \in Refusals \cup {"panic"} /\ out' = o
  BY <1>1, <1>5, <1>6 DEF Ended
<1>8. ~Lock(g) /\ ~Cancelled(g) /\ ~CheckOrder(g)
  BY <1>7 DEF Lock, Cancelled, CheckOrder, Refusals
<1>9. ~Fulfil(g) /\ ~Deliver(g)
  BY <1>7 DEF Fulfil, Deliver, Refusals
<1>10. ASSUME Look(g)
       PROVE  /\ pc[g] = "look" /\ out' = "panic"
              /\ ScanPanics(expected[idx[g]], req[g])
  BY <1>7, <1>10 DEF Look, SkipFulfilled, LookByType, LookOrdered, LookUnordered
<1>11. Reject(g) => out' \in {"mismatch", "panic"}
  BY <1>7 DEF Reject
<1>12. Exhausted(g) => out' \in {"allFulfilled", "unexpected"}
  BY <1>7 DEF Exhausted
<1> QED
  BY <1>4, <1>6, <1>8, <1>9, <1>10, <1>11, <1>12 DEF Proceed

\* In unordered mode the checks behind the scan can fail in two ways only.
LEMMA UnorderedVerdict ==
  ASSUME NEW e, NEW r, Selects(e, r)
  PROVE  \/ Verdict(e, r) = "nil"
         \/ r.kind = "Begin" /\ e.kind = "Begin" /\ TxOptsDiffer(e, r)
         \/ /\ r.kind \in HasArgs /\ e.kind = r.kind
            /\ Verdict(e, r) = "panicError" /\ ArgsMatches(e, r.args) = "panicError"
<1>1. r.kind \in BySql => SqlMatches(e, r)
  BY DEF Selects
<1>2. r.kind \in HasArgs => ArgsMatches(e, r.args) \in {"nil", "panicError"}
  BY DEF Selects, AttemptArgMatch
<1>3. r.kind \in BySql => ~SqlPanics(e, r)
  BY <1>1 DEF SqlMatches, SqlPanics
<1> QED
  BY <1>1, <1>2, <1>3 DEF Verdict, Selects, HasArgs, BySql

(***************************************************************************)
(* Finding 2 is about transaction options and nothing else: if the options *)
(* of no expectation clash with those of a call, a call that is refused in *)
(* unordered mode leaves no pending expectation that would have accepted   *)
(* it, whatever the queries, arguments and matchers are.  The checks       *)
(* behind the loop then refuse nothing; it is the end of the loop that     *)
(* must not be reached with an expectation left, although the loop has     *)
(* looked at each of them earlier, while other calls were going on.        *)
(***************************************************************************)
THEOREM AnyOrderWithoutOptions ==
  ASSUME ~ToggleInFlight,
         \A e \in Expectations, r \in Requests :
           e.kind = "Begin" /\ r.kind = "Begin" => ~TxOptsDiffer(e, r)
  PROVE  Spec => AnyOrder
<1>1. ASSUME Typed, KnownInv, Next, NEW g \in Callers,
             Ended(g), out' \in Refusals, ~ordered,
             NEW i \in Pending, Selects(expected[i], req[g])
      PROVE  FALSE
  <2>1. out' # "panic"
    BY <1>1 DEF Refusals
  <2>2. CASE Reject(g) /\ out' = "mismatch"
    <3>1. /\ pc[g] = "claim" /\ Verdict(expected[idx[g]], req[g]) # "nil"
          /\ Verdict(expected[idx[g]], req[g]) \notin Panics
      BY <2>2 DEF Reject, Return
    <3>2. expected[idx[g]] \in Expectations /\ req[g] \in Requests
      BY <1>1, <3>1 DEF Typed, TypeOK, IndexInv
    <3>3. Selects(expected[idx[g]], req[g])
      BY <1>1, <3>1 DEF KnownInv, StopInv
    <3> QED
      BY <3>1, <3>2, <3>3, UnorderedVerdict DEF Panics
  <2>3. CASE Exhausted(g)
    <3>1. /\ pc[g] = "lock" /\ idx[g] > Len(expected)
          /\ idx[g] \in Nat /\ Len(expected) \in Nat
      BY <1>1, <2>3 DEF Exhausted, Typed, TypeOK
    <3>2. i \in 1..(idx[g] - 1) /\ i \notin triggered
      BY <1>1, <3>1 DEF Pending
    <3>3. ~Fits(expected[i], req[g])
      BY <1>1, <3>1, <3>2 DEF KnownInv, PassedInv, Scanning
    <3> QED
      BY <1>1, <3>3 DEF Fits
  <2> QED
    BY <1>1, <2>1, <2>2, <2>3, BadEnds
<1>2. Typed /\ KnownInv /\ [Next]_vars =>
        [\A g \in Callers :
           Ended(g) /\ out' \in Refusals /\ ~ordered =>
             \A i \in Pending : ~(/\ Selects(expected[i], req[g])
                                  /\ Verdict(expected[i], req[g]) = "nil")]_vars
  BY <1>1
<1> QED
  BY <1>2, KnownAlways, PTL DEF Spec, AnyOrder

(***************************************************************************)
(* Finding 3 is about panics whose value is no string: in unordered mode   *)
(* those with a string are caught by attemptArgMatch and not repeated by   *)
(* the checks behind the loop, so no panic reaches the caller as long as   *)
(* arguments panic with strings only and the QueryMatcher does not panic.  *)
(* In ordered mode every panic reaches the caller.                         *)
(***************************************************************************)
THEOREM PanicsAreCaughtIfStrings ==
  ASSUME ~ToggleInFlight,
         \A e \in Expectations, r \in Requests :
           e.kind = r.kind /\ r.kind \in BySql => ~SqlPanics(e, r),
         \A e \in Expectations, r \in Requests :
           e.kind = r.kind /\ r.kind \in HasArgs =>
             ArgsMatches(e, r.args) \notin {"panicError", "panicOther"}
  PROVE  Spec => PanicsAreCaught
<1>1. ASSUME Typed, KnownInv, Next, NEW g \in Callers, Ended(g), out' = "panic", ~ordered
      PROVE  FALSE
  <2>1. \/ Reject(g)
        \/ pc[g] = "look" /\ ScanPanics(expected[idx[g]], req[g])
    BY <1>1, BadEnds
  <2>2. pc[g] \in {"look", "claim"}
    BY <2>1 DEF Reject
  <2>3. expected[idx[g]] \in Expectations /\ req[g] \in Requests
    BY <1>1, <2>2 DEF Typed, TypeOK, IndexInv
  <2>4. ~ScanPanics(expected[idx[g]], req[g])
    BY <2>3 DEF ScanPanics, AttemptArgMatch, Panics
  <2>5. pc[g] = "claim" /\ Verdict(expected[idx[g]], req[g]) \in Panics
    BY <1>1, <2>1, <2>4 DEF Reject, Return
  <2>6. Selects(expected[idx[g]], req[g])
    BY <1>1, <2>5 DEF KnownInv, StopInv
  <2>7. ~(expected[idx[g]].kind = "Begin" /\ req[g].kind = "Begin"
            /\ Verdict(expected[idx[g]], req[g]) \in Panics)
    BY DEF Verdict, BySql, HasArgs, Panics
  <2> QED
    BY <2>3, <2>5, <2>6, <2>7, UnorderedVerdict DEF Panics
<1>2. Typed /\ KnownInv /\ [Next]_vars =>
        [\A g \in Callers : Ended(g) /\ ~ordered => out' # "panic"]_vars
  BY <1>1
<1> QED
  BY <1>2, KnownAlways, PTL DEF Spec, PanicsAreCaught
=============================================================================

--------------------------- MODULE MatchingProofs ---------------------------
(***************************************************************************)
(* Proofs about module Matching for any callers, expectations, requests    *)
(* and length of the queue.                                                *)
(***************************************************************************)
EXTENDS Matching, FiniteSetTheorems, TLAPS

(***************************************************************************)
(* The inductive invariant.                                                *)
(***************************************************************************)

\* Where the loop index of a call can be.
IndexInv ==
  /\ Len(expected) <= MaxExpected
  /\ \A g \in Callers :
       /\ pc[g] = "lock" => idx[g] \in 1..(Len(expected) + 1)
       /\ pc[g] \in {"look", "order", "claim", "wait"} => idx[g] \in 1..Len(expected)
       /\ pc[g] # "idle" => req[g] \in Requests
  /\ vpc = "fulfilled" => vidx \in 1..(Len(expected) + 1)
  /\ vpc = "closed" => vidx \in 1..Len(expected)

\* A call that looks at an expectation holds its mutex, alone.
LockInv ==
  \A g \in Callers : Holding(g) =>
    /\ idx[g] \in locked
    /\ \A h \in Callers : Holding(h) /\ idx[h] = idx[g] => h = g

\* The expectation a call is about to claim has not served any.
ClaimInv == \A g \in Callers : pc[g] = "claim" => idx[g] \notin triggered

\* In ordered mode a scan has only fulfilled expectations behind it.
ScanInv ==
  \A g \in Callers :
    ordered /\ pc[g] \in {"lock", "look", "claim"} => 1..(idx[g] - 1) \subseteq triggered

\* The count of a scan tells whether all expectations behind it are fulfilled.
CountInv ==
  \A g \in Callers : Scanning(g) =>
    /\ fulfilled[g] < idx[g]
    /\ fulfilled[g] = idx[g] - 1 => 1..(idx[g] - 1) \subseteq triggered

\* What ExpectationsWereMet has seen to be fulfilled and closed is so.
VerifyInv ==
  /\ vpc # "idle" => \A i \in 1..(vidx - 1) :
                       i \in triggered /\ (expected[i].must => i \in closed)
  /\ vpc = "closed" => vidx \in triggered

-----------------------------------------------------------------------------
(***************************************************************************)
(* Type correctness.                                                       *)
(***************************************************************************)
Typed == TypeOK /\ IndexInv

LEMMA InitTyped == Init => Typed
  BY MatchingAssumption DEF Init, Typed, TypeOK, IndexInv, Results

LEMMA TestTyped == Typed /\ Test => Typed'
<1> SUFFICES ASSUME Typed, Test PROVE Typed'
  OBVIOUS
<1> USE MatchingAssumption DEF Typed, queueVars, connVars, handleVars, callVars, verifyVars
<1>1. ASSUME NEW e \in Expectations, Expect(e) PROVE Typed'
  <2>1. /\ expected' \in Seq(Expectations)
        /\ Len(expected') = Len(expected) + 1
        /\ Len(expected) < MaxExpected
    BY <1>1 DEF Expect, TypeOK
  <2>2. TypeOK'
    BY <1>1, <2>1 DEF Expect, TypeOK
  <2>3. IndexInv'
    BY <1>1, <2>1 DEF Expect, TypeOK, IndexInv
  <2> QED
    BY <2>2, <2>3
<1>2. ASSUME NEW b \in BOOLEAN, MatchExpectationsInOrder(b) PROVE Typed'
  BY <1>2 DEF MatchExpectationsInOrder, TypeOK, IndexInv
<1>3. CASE ExpectationsWereMet
  BY <1>3 DEF ExpectationsWereMet, TypeOK, IndexInv
<1>4. CASE VerifyFulfilled
  <2>1. TypeOK'
    BY <1>4 DEF VerifyFulfilled, TypeOK
  <2>2. IndexInv'
    BY <1>4 DEF VerifyFulfilled, TypeOK, IndexInv
  <2> QED
    BY <2>1, <2>2
<1>5. CASE VerifyClosed
  <2>1. vpc' \in {"idle", "fulfilled"} /\ vidx' \in Nat /\ verdict' \in {verdict, "unmet"}
    BY <1>5 DEF VerifyClosed, TypeOK
  <2>2. UNCHANGED <<queueVars, connVars, handleVars, callVars>>
    BY <1>5 DEF VerifyClosed
  <2>3. TypeOK'
    BY <2>1, <2>2 DEF TypeOK
  <2>4. IndexInv'
    BY <1>5 DEF VerifyClosed, TypeOK, IndexInv
  <2> QED
    BY <2>3, <2>4
<1>6. CASE VerifyDone
  BY <1>6 DEF VerifyDone, TypeOK, IndexInv
<1> QED
  BY <1>1, <1>2, <1>3, <1>4, <1>5, <1>6 DEF Test

LEMMA EnterTyped ==
  ASSUME Typed, OpenedCountsConns, NEW g \in Callers, EnterCall(g) PROVE Typed'
<1> USE MatchingAssumption DEF Typed, queueVars, connVars, handleVars, callVars, verifyVars
<1>1. CASE Open(g)
  <2> USE DEF Open
  <2>1. opened' \in Nat /\ conn' \in [Callers -> {"none", "free", "tx"}]
    <3>1. conn \in [Callers -> {"none", "free", "tx"}] /\ opened \in Nat
      BY DEF TypeOK
    <3>2. CASE conn' = [conn EXCEPT ![g] = "free"] /\ opened' = opened + 1
      BY <3>1, <3>2
    <3>3. CASE UNCHANGED <<opened, conn>>
      BY <3>1, <3>3
    <3> QED
      BY <1>1, <3>2, <3>3
  <2>5. out' \in Results
    BY <1>1 DEF Results
  <2>2. UNCHANGED <<queueVars, registered, drv, handleVars, pc, req, idx,
                    fulfilled, uses, verifyVars>>
    BY <1>1 DEF Open
  <2>3. TypeOK'
    BY <2>1, <2>2, <2>5 DEF TypeOK
  <2>4. IndexInv'
    BY <2>2 DEF IndexInv
  <2> QED
    BY <2>3, <2>4
<1>2. ASSUME NEW r \in Requests, PingUnmonitored(g, r) PROVE Typed'
  BY <1>2 DEF PingUnmonitored, TypeOK, IndexInv, Results
<1>3. ASSUME NEW r \in Requests, StartLoop(g, r), Len(expected) \in Nat,
             conn' \in [Callers -> {"none", "free", "tx"}],
             opened' \in Nat, registered' \in BOOLEAN, drv' \in Callers \cup {NoCaller}
      PROVE  Typed'
  BY <1>3 DEF StartLoop, TypeOK, IndexInv, Results
<1>4. Len(expected) \in Nat
  BY DEF TypeOK
<1>5. ASSUME NEW r \in Requests, Close(g, r) PROVE Typed'
  <2>1. opened' \in Nat
    <3>1. g \in {h \in Callers : conn[h] # "none"}
      BY <1>5 DEF Close
    <3>2. opened # 0
      BY <3>1, FS_Subset, FS_EmptySet DEF OpenedCountsConns
    <3> QED
      BY <1>5, <3>2 DEF Close, TypeOK
  <2> QED
    BY <1>3, <1>4, <1>5, <2>1 DEF Close, TypeOK
<1>6. ASSUME NEW r \in Requests, NEW kind, Enter(g, r, kind) PROVE Typed'
  BY <1>3, <1>4, <1>6 DEF Enter, TypeOK
<1>7. ASSUME NEW r \in Requests, NEW kind, EndTx(g, r, kind) PROVE Typed'
  BY <1>3, <1>4, <1>7 DEF EndTx, TypeOK
<1> QED
  BY <1>1, <1>2, <1>5, <1>6, <1>7
  DEF EnterCall, Begin, Prepare, Query, Exec, Commit, Rollback, Ping

LEMMA ReturnTyped ==
  ASSUME Typed, NEW g \in Callers, NEW o \in Results, Return(g, o), LoopFrame,
         locked' \subseteq locked
  PROVE  Typed'
  BY DEF Typed, TypeOK, IndexInv, Return, LoopFrame, handleVars, verifyVars

LEMMA AdvanceTyped ==
  ASSUME Typed, NEW g \in Callers, NEW n \in Nat, Advance(g, n), LoopFrame,
         locked' \subseteq locked, pc[g] \in {"look", "order"}
  PROVE  Typed'
<1>1. TypeOK'
  BY DEF Typed, TypeOK, Advance, LoopFrame, handleVars, verifyVars
<1>2. IndexInv'
  BY DEF Typed, TypeOK, IndexInv, Advance, LoopFrame, handleVars, verifyVars
<1> QED
  BY <1>1, <1>2 DEF Typed

LEMMA GotoTyped ==
  ASSUME Typed, NEW g \in Callers, NEW l \in {"look", "order", "claim"}, Goto(g, l),
         LoopFrame, locked' \subseteq locked \cup {idx[g]},
         idx[g] \in 1..Len(expected), pc[g] \in {"lock", "look"}
  PROVE  Typed'
<1>1. TypeOK'
  BY DEF Typed, TypeOK, Goto, LoopFrame, handleVars, verifyVars
<1>2. IndexInv'
  BY DEF Typed, TypeOK, IndexInv, Goto, LoopFrame, handleVars, verifyVars
<1> QED
  BY <1>1, <1>2 DEF Typed

-----------------------------------------------------------------------------
(***************************************************************************)
(* The steps of a loop by what they do to the mutexes and the loop index,  *)
(* whichever handler runs it.                                              *)
(***************************************************************************)
Unlocks(g) == Holding(g) /\ locked' = locked \ {idx[g]}

TakesLock(g) ==
  /\ pc[g] = "lock" /\ idx[g] <= Len(expected) /\ idx[g] \notin locked
  /\ locked' = locked \cup {idx[g]}
  /\ Goto(g, "look")

Skips(g) ==
  \/ pc[g] = "look" /\ idx[g] \in triggered /\ Unlocks(g) /\ Advance(g, 1)
  \/ pc[g] = "look" /\ ~ordered /\ Unlocks(g) /\ Advance(g, 0)
  \/ pc[g] = "order" /\ ~ordered /\ UNCHANGED locked /\ Advance(g, 0)

Stops(g) ==
  /\ pc[g] = "look" /\ idx[g] \notin triggered
  /\ \/ Goto(g, "claim") /\ UNCHANGED locked
     \/ Goto(g, "order") /\ Unlocks(g)

GivesUp(g) ==
  /\ pc[g] # "idle"
  /\ \/ Unlocks(g)
     \/ UNCHANGED locked /\ ~Holding(g)
     \/ UNCHANGED locked /\ ScanPanics(expected[idx[g]], req[g])
  /\ \E o \in Results :
       /\ Return(g, o)
       /\ o = "allFulfilled" =>
            pc[g] = "lock" /\ idx[g] > Len(expected) /\ fulfilled[g] = Len(expected)

LoopStep(g) ==
  LoopFrame /\ (TakesLock(g) \/ Skips(g) \/ Stops(g) \/ GivesUp(g))

LEMMA LoopSteps ==
  ASSUME NEW g \in Callers,
         Lock(g) \/ Look(g) \/ CheckOrder(g) \/ Exhausted(g) \/ Reject(g) \/ Cancelled(g)
  PROVE  LoopStep(g)
<1>1. CASE Lock(g)
  BY <1>1 DEF Lock, LoopStep, TakesLock
<1>2. CASE Look(g)
  <2> USE DEF LoopStep, Unlocks, Holding
  <2>1. CASE SkipFulfilled(g)
    BY <1>2, <2>1 DEF Look, SkipFulfilled, Skips
  <2>2. CASE LookByType(g)
    BY <1>2, <2>2 DEF Look, LookByType, Stops
  <2>3. CASE LookOrdered(g)
    BY <1>2, <2>3 DEF Look, LookOrdered, Stops, GivesUp, Results
  <2>4. CASE LookUnordered(g)
    BY <1>2, <2>4 DEF Look, LookUnordered, Skips, Stops, GivesUp, Results
  <2> QED
    BY <1>2, <2>1, <2>2, <2>3, <2>4 DEF Look
<1>3. CASE CheckOrder(g)
  BY <1>3 DEF CheckOrder, LoopStep, Skips, GivesUp, Holding, Results
<1>4. CASE Exhausted(g)
  BY <1>4 DEF Exhausted, LoopStep, GivesUp, Holding, Results
<1>5. CASE Reject(g)
  BY <1>5 DEF Reject, LoopStep, GivesUp, Unlocks, Holding, Results
<1>6. CASE Cancelled(g)
  <2>1. LoopFrame /\ UNCHANGED locked /\ pc[g] = "wait" /\ Return(g, "cancelled")
    BY <1>6 DEF Cancelled, LoopFrame, queueVars
  <2> QED
    BY <2>1 DEF LoopStep, GivesUp, Holding, Results
<1> QED
  BY <1>1, <1>2, <1>3, <1>4, <1>5, <1>6

\* A step outside every loop: a connection is opened or a ping not monitored.
Elsewhere ==
  UNCHANGED <<queueVars, handleVars, pc, req, idx, fulfilled, uses, verifyVars>>

LEMMA EnterSteps ==
  ASSUME NEW g \in Callers, EnterCall(g)
  PROVE  Elsewhere \/ \E r \in Requests : pc[g] = "idle" /\ StartLoop(g, r)
<1>1. CASE Open(g)
  BY <1>1 DEF Open, Elsewhere
<1>2. ASSUME NEW r \in Requests, PingUnmonitored(g, r) PROVE Elsewhere
  BY <1>2 DEF PingUnmonitored, Elsewhere
<1>3. ASSUME NEW r \in Requests,
             Close(g, r) \/ Begin(g, r) \/ Prepare(g, r) \/ Query(g, r)
               \/ Exec(g, r) \/ Commit(g, r) \/ Rollback(g, r) \/ Ping(g, r)
      PROVE  pc[g] = "idle" /\ StartLoop(g, r)
  BY <1>3 DEF Close, Begin, Prepare, Query, Exec, Commit, Rollback, Ping, Enter, EndTx
<1> QED
  BY <1>1, <1>2, <1>3 DEF EnterCall

LEMMA Steps ==
  ASSUME Next
  PROVE  \/ Test
         \/ Elsewhere
         \/ \E g \in Callers, r \in Requests : pc[g] = "idle" /\ StartLoop(g, r)
         \/ \E g \in Callers : LoopStep(g) \/ Fulfil(g) \/ Deliver(g)
         \/ \E i \in handles : CloseHandle(i)
  BY LoopSteps, EnterSteps DEF Next, Proceed

LEMMA LoopTyped == ASSUME Typed, NEW g \in Callers, LoopStep(g) PROVE Typed'
<1>1. idx[g] \in Nat /\ Len(expected) \in Nat
  BY DEF Typed, TypeOK
<1>2. CASE TakesLock(g)
  <2>1. idx[g] \in 1..Len(expected)
    BY <1>1, <1>2 DEF TakesLock, Typed, IndexInv
  <2> QED
    BY <1>2, <2>1, GotoTyped DEF LoopStep, TakesLock
<1>3. CASE Skips(g)
  BY <1>3, AdvanceTyped DEF LoopStep, Skips, Unlocks
<1>4. CASE Stops(g)
  <2>1. idx[g] \in 1..Len(expected)
    BY <1>4 DEF Stops, Typed, IndexInv
  <2> QED
    BY <1>4, <2>1, GotoTyped DEF LoopStep, Stops, Unlocks
<1>5. CASE GivesUp(g)
  BY <1>5, ReturnTyped DEF LoopStep, GivesUp, Unlocks
<1> QED
  BY <1>2, <1>3, <1>4, <1>5 DEF LoopStep

LEMMA FulfilTyped == ASSUME Typed, NEW g \in Callers, Fulfil(g) PROVE Typed'
<1>1. idx[g] \in 1..Len(expected) /\ idx[g] \in 1..MaxExpected
  <2>1. idx[g] \in 1..Len(expected) /\ Len(expected) <= MaxExpected
    BY DEF Fulfil, Typed, IndexInv
  <2>2. Len(expected) \in Nat /\ MaxExpected \in Nat
    BY MatchingAssumption DEF Typed, TypeOK
  <2> QED
    BY <2>1, <2>2
<1>2. /\ triggered' = triggered \cup {idx[g]} /\ locked' = locked \ {idx[g]}
      /\ uses' = [uses EXCEPT ![idx[g]] = @ + 1]
      /\ UNCHANGED <<expected, ordered, conn, opened, registered, handleVars, verifyVars>>
  BY DEF Fulfil
<1>3. (\E o \in Results : Return(g, o)) \/ Goto(g, "wait")
  BY DEF Fulfil, Results
<1>4. pc[g] = "claim"
  BY DEF Fulfil
<1>5. TypeOK'
  <2>1. uses' \in [1..MaxExpected -> Nat]
    BY <1>1, <1>2 DEF Typed, TypeOK
  <2>2. ASSUME NEW o \in Results, Return(g, o) PROVE TypeOK'
    BY <1>1, <1>2, <2>1, <2>2 DEF Typed, TypeOK, Return, handleVars, verifyVars
  <2>3. CASE Goto(g, "wait")
    BY <1>1, <1>2, <2>1, <2>3 DEF Typed, TypeOK, Goto, handleVars, verifyVars
  <2> QED
    BY <1>3, <2>2, <2>3
<1>6. IndexInv'
  BY <1>1, <1>2, <1>3, <1>4 DEF Typed, TypeOK, IndexInv, Return, Goto, verifyVars
<1> QED
  BY <1>5, <1>6 DEF Typed

LEMMA DeliverTyped == ASSUME Typed, NEW g \in Callers, Deliver(g) PROVE Typed'
<1>1. idx[g] \in 1..Len(expected)
  BY DEF Deliver, Typed, IndexInv
<1>2. /\ \E o \in Results : Return(g, o)
      /\ UNCHANGED <<queueVars, opened, registered, closed, uses, verifyVars>>
  BY DEF Deliver, Results
<1>3. handles' \subseteq 1..Len(expected)
  BY <1>1 DEF Deliver, Typed, TypeOK
<1>4. conn' \in [Callers -> {"none", "free", "tx"}]
  BY DEF Deliver, Typed, TypeOK
<1>5. TypeOK'
  <2>1. PICK o \in Results : Return(g, o)
    BY <1>2
  <2> QED
    BY <1>2, <1>3, <1>4, <2>1 DEF Typed, TypeOK, Return, queueVars, verifyVars
<1>6. IndexInv'
  BY <1>2 DEF Typed, TypeOK, IndexInv, Return, queueVars, verifyVars
<1> QED
  BY <1>5, <1>6 DEF Typed

LEMMA NextTyped == ASSUME Typed, OpenedCountsConns, [Next]_vars PROVE Typed'
<1>1. CASE Test
  BY <1>1, TestTyped
<1>2. ASSUME NEW g \in Callers, EnterCall(g) PROVE Typed'
  BY <1>2, EnterTyped
<1>3. ASSUME NEW g \in Callers, Lock(g) \/ Proceed(g) \/ Cancelled(g) PROVE Typed'
  BY <1>3, LoopSteps, LoopTyped, FulfilTyped, DeliverTyped DEF Proceed
<1>4. ASSUME NEW i \in handles, CloseHandle(i) PROVE Typed'
  BY <1>4 DEF CloseHandle, Typed, TypeOK, IndexInv, queueVars, connVars, callVars, verifyVars
<1>5. CASE UNCHANGED vars
  BY <1>5 DEF vars, Typed, TypeOK, IndexInv, queueVars, connVars, handleVars,
              callVars, verifyVars
<1> QED
  BY <1>1, <1>2, <1>3, <1>4, <1>5 DEF Next

-----------------------------------------------------------------------------
(***************************************************************************)
(* Connections: what Open and Close keep in step.                          *)
(***************************************************************************)

\* A caller has a connection while it is in a call other than Close.
ConnInv ==
  \A g \in Callers : pc[g] # "idle" /\ req[g].kind # "Close" => conn[g] # "none"

Conns == {g \in Callers : conn[g] # "none"}

LEMMA SameConns ==
  ASSUME OpenedCountsConns, Conns' = Conns, UNCHANGED <<opened, registered>>
  PROVE  OpenedCountsConns'
  BY DEF OpenedCountsConns, Conns

LEMMA OpenConns ==
  ASSUME Typed, OpenedCountsConns, NEW g \in Callers, Open(g)
  PROVE  OpenedCountsConns'
<1>1. CASE UNCHANGED <<opened, conn>>
  BY <1>1, SameConns DEF Open, Conns
<1>2. CASE registered /\ opened' = opened + 1 /\ conn' = [conn EXCEPT ![g] = "free"]
  <2>1. Conns' = Conns \cup {g} /\ g \notin Conns
    BY <1>2 DEF Open, Conns, Typed, TypeOK
  <2>2. IsFiniteSet(Conns)
    BY FS_Subset, MatchingAssumption DEF Conns
  <2>3. Cardinality(Conns') = Cardinality(Conns) + 1
    BY <2>1, <2>2, FS_AddElement
  <2>4. opened \in Nat /\ registered' = registered
    BY DEF Open, Typed, TypeOK
  <2> QED
    BY <1>2, <2>3, <2>4 DEF OpenedCountsConns, Conns
<1> QED
  BY <1>1, <1>2 DEF Open

LEMMA CloseConns ==
  ASSUME Typed, OpenedCountsConns, NEW g \in Callers, NEW r \in Requests, Close(g, r)
  PROVE  OpenedCountsConns'
<1>1. Conns' = Conns \ {g} /\ g \in Conns
  BY DEF Close, Conns, Typed, TypeOK
<1>2. IsFiniteSet(Conns)
  BY FS_Subset, MatchingAssumption DEF Conns
<1>3. Cardinality(Conns') = Cardinality(Conns) - 1
  BY <1>1, <1>2, FS_RemoveElement
<1>4. opened = Cardinality(Conns) /\ (registered <=> opened > 0)
  BY DEF Conns, OpenedCountsConns
<1>5. opened \in Nat /\ opened # 0
  BY <1>1, <1>2, <1>4, FS_EmptySet DEF Typed, TypeOK
<1>6. opened' = opened - 1 /\ (registered' <=> opened' # 0)
  <2>1. registered
    BY <1>4, <1>5
  <2>2. opened' = opened - 1 /\ registered' = (registered /\ opened' # 0)
    BY DEF Close
  <2> QED
    BY <2>1, <2>2, Zenon
<1>7. opened' = Cardinality(Conns')
  BY <1>3, <1>4, <1>6
<1>8. registered' <=> opened' > 0
  BY <1>5, <1>6
<1> QED
  BY <1>7, <1>8 DEF OpenedCountsConns, Conns

LEMMA NextConns ==
  ASSUME Typed, OpenedCountsConns, ConnInv, [Next]_vars
  PROVE  OpenedCountsConns' /\ ConnInv'
<1> USE DEF Typed
<1>1. CASE UNCHANGED <<conn, opened, registered, pc, req>>
  BY <1>1, SameConns DEF Conns, ConnInv
<1>2. CASE Test \/ (\E i \in handles : CloseHandle(i)) \/ UNCHANGED vars
  <2>1. UNCHANGED <<conn, opened, registered, pc, req>>
    BY <1>2 DEF Test, Expect, MatchExpectationsInOrder, ExpectationsWereMet,
                VerifyFulfilled, VerifyClosed, VerifyDone, CloseHandle, vars,
                connVars, callVars
  <2> QED
    BY <1>1, <2>1
<1>3. ASSUME NEW g \in Callers, LoopStep(g) \/ Fulfil(g) PROVE OpenedCountsConns' /\ ConnInv'
  <2>1. UNCHANGED <<conn, opened, registered>>
    BY <1>3 DEF LoopStep, LoopFrame, Fulfil
  <2>2. \/ pc' = [pc EXCEPT ![g] = "idle"] /\ req' = [req EXCEPT ![g] = NoRequest]
        \/ pc[g] # "idle" /\ (\E l : pc' = [pc EXCEPT ![g] = l]) /\ UNCHANGED req
    BY <1>3 DEF LoopStep, TakesLock, Skips, Stops, GivesUp, Unlocks, Fulfil,
                Goto, Advance, Return
  <2>3. ConnInv'
    BY <2>1, <2>2 DEF ConnInv, TypeOK
  <2> QED
    BY <2>1, <2>3, SameConns DEF Conns
<1>4. ASSUME NEW g \in Callers, Open(g) PROVE ConnInv'
  BY <1>4 DEF Open, ConnInv, TypeOK
<1>5. ASSUME NEW g \in Callers, NEW r \in Requests, Close(g, r) PROVE ConnInv'
  BY <1>5 DEF Close, StartLoop, ConnInv, TypeOK
<1>6. ASSUME NEW g \in Callers, NEW r \in Requests, NEW k, Enter(g, r, k)
      PROVE  OpenedCountsConns' /\ ConnInv'
  <2>1. ConnInv'
    BY <1>6 DEF Enter, StartLoop, connVars, ConnInv, TypeOK
  <2> QED
    BY <1>6, <2>1, SameConns DEF Enter, connVars, Conns
<1>7. ASSUME NEW g \in Callers, NEW r \in Requests, NEW k, EndTx(g, r, k)
      PROVE  OpenedCountsConns' /\ ConnInv'
  <2>1. Conns' = Conns
    BY <1>7 DEF EndTx, Conns, TypeOK
  <2>2. ConnInv'
    BY <1>7 DEF EndTx, StartLoop, ConnInv, TypeOK
  <2> QED
    BY <1>7, <2>1, <2>2, SameConns DEF EndTx
<1>8. ASSUME NEW g \in Callers, NEW r \in Requests, PingUnmonitored(g, r)
      PROVE  OpenedCountsConns' /\ ConnInv'
  BY <1>1, <1>8 DEF PingUnmonitored, connVars
<1>9. ASSUME NEW g \in Callers, Deliver(g) PROVE OpenedCountsConns' /\ ConnInv'
  <2>1. pc[g] # "idle" /\ UNCHANGED <<opened, registered>>
    BY <1>9 DEF Deliver
  <2>2. \/ UNCHANGED conn
        \/ req[g].kind = "Begin" /\ conn' = [conn EXCEPT ![g] = "tx"]
    BY <1>9 DEF Deliver
  <2>3. Conns' = Conns
    BY <2>1, <2>2 DEF ConnInv, Conns, TypeOK
  <2>4. pc' = [pc EXCEPT ![g] = "idle"] /\ req' = [req EXCEPT ![g] = NoRequest]
    BY <1>9 DEF Deliver, Return
  <2>5. ConnInv'
    BY <2>2, <2>4 DEF ConnInv, TypeOK
  <2> QED
    BY <2>1, <2>3, <2>5, SameConns
<1>10. ASSUME NEW g \in Callers, EnterCall(g) PROVE OpenedCountsConns' /\ ConnInv'
  BY <1>4, <1>5, <1>6, <1>7, <1>8, <1>10, OpenConns, CloseConns
  DEF EnterCall, Begin, Prepare, Query, Exec, Commit, Rollback, Ping
<1> QED
  BY <1>2, <1>3, <1>9, <1>10, LoopSteps DEF Next, Proceed

(***************************************************************************)
(* TypeOK and OpenedCountsConns are proved together: that c.opened stays a *)
(* natural number depends on its being the number of connections.          *)
(***************************************************************************)
LEMMA TypedAlways == Spec => [](Typed /\ OpenedCountsConns /\ ConnInv)
<1>1. Init => Typed /\ OpenedCountsConns /\ ConnInv
  <2>1. ASSUME Init PROVE OpenedCountsConns
    <3>1. PICK g0 \in Callers : conn = [g \in Callers |-> IF g = g0 THEN "free" ELSE "none"]
      BY <2>1 DEF Init
    <3>2. {g \in Callers : conn[g] # "none"} = {g0}
      BY <3>1
    <3>3. Cardinality({g \in Callers : conn[g] # "none"}) = 1
      BY <3>2, FS_Singleton
    <3>4. opened = 1 /\ registered
      BY <2>1 DEF Init
    <3> QED
      BY <3>3, <3>4 DEF OpenedCountsConns
  <2>2. Init => ConnInv
    BY DEF Init, ConnInv
  <2> QED
    BY <2>1, <2>2, InitTyped
<1>2. Typed /\ OpenedCountsConns /\ ConnInv /\ [Next]_vars
      => (Typed /\ OpenedCountsConns /\ ConnInv)'
  BY NextTyped, NextConns
<1> QED
  BY <1>1, <1>2, PTL DEF Spec

\* Every variable keeps its type, and c.opened never goes below zero.
THEOREM TypeCorrect == Spec => []TypeOK
  BY TypedAlways, PTL DEF Typed

\* c.opened is the number of live connections and decides about the DSN.
THEOREM OpenedCountsConnsAlways == Spec => []OpenedCountsConns
  BY TypedAlways, PTL

(***************************************************************************)
(* Matching implements the part of DriverRegistry that concerns a mock     *)
(* whose creation is complete.                                             *)
(***************************************************************************)

\* Only Open and Close change what the driver knows of the mock.
LEMMA ConnSteps ==
  ASSUME Typed, ConnInv, [Next]_vars
  PROVE  \/ Conns' = Conns /\ UNCHANGED <<opened, registered>>
         \/ \E g \in Callers : Open(g)
         \/ \E g \in Callers, r \in Requests : Close(g, r)
<1> DEFINE Same == Conns' = Conns /\ UNCHANGED <<opened, registered>>
<1> USE DEF Typed
<1>1. CASE Test \/ (\E i \in handles : CloseHandle(i)) \/ UNCHANGED vars
  BY <1>1 DEF Test, Expect, MatchExpectationsInOrder, ExpectationsWereMet,
              VerifyFulfilled, VerifyClosed, VerifyDone, CloseHandle, vars, connVars, Conns
<1>2. ASSUME NEW g \in Callers, LoopStep(g) \/ Fulfil(g) PROVE Same
  BY <1>2 DEF LoopStep, LoopFrame, Fulfil, Conns
<1>3. ASSUME NEW g \in Callers, NEW r \in Requests, NEW k, Enter(g, r, k) PROVE Same
  BY <1>3 DEF Enter, connVars, Conns
<1>4. ASSUME NEW g \in Callers, NEW r \in Requests, NEW k, EndTx(g, r, k) PROVE Same
  BY <1>4 DEF EndTx, Conns, TypeOK
<1>5. ASSUME NEW g \in Callers, NEW r \in Requests, PingUnmonitored(g, r) PROVE Same
  BY <1>5 DEF PingUnmonitored, connVars, Conns
<1>6. ASSUME NEW g \in Callers, Deliver(g) PROVE Same
  BY <1>6 DEF Deliver, ConnInv, Conns, TypeOK
<1>7. ASSUME NEW g \in Callers, EnterCall(g)
      PROVE  Same \/ Open(g) \/ \E r \in Requests : Close(g, r)
  BY <1>3, <1>4, <1>5, <1>7
  DEF EnterCall, Begin, Prepare, Query, Exec, Commit, Rollback, Ping
<1> QED
  BY <1>1, <1>2, <1>6, <1>7, LoopSteps DEF Next, Proceed

LEMMA ConnectStep ==
  ASSUME Typed, NEW g \in Callers, Open(g)
  PROVE  Registry!Connect("mock") \/ UNCHANGED Registry!vars
<1>1. CASE UNCHANGED <<opened, conn>>
  BY <1>1 DEF Open, Registry!vars, Connected
<1>2. CASE registered /\ opened' = opened + 1 /\ conn' = [conn EXCEPT ![g] = "free"]
  <2>1. conn[g] = "none" /\ registered' = registered
    BY DEF Open
  <2>2. /\ <<"mock", "mock", g>> \notin Connected
        /\ Connected' = Connected \cup {<<"mock", "mock", g>>}
    BY <1>2, <2>1 DEF Connected, Typed, TypeOK
  <2> QED
    BY <1>2, <2>1, <2>2 DEF Registry!Connect, Registry!Open
<1> QED
  BY <1>1, <1>2 DEF Open

LEMMA DisconnectStep ==
  ASSUME Typed, OpenedCountsConns, NEW g \in Callers, NEW r \in Requests, Close(g, r)
  PROVE  Registry!Close("mock", "mock", g)
<1>1. conn[g] # "none" /\ conn' = [conn EXCEPT ![g] = "none"] /\ opened' = opened - 1
  BY DEF Close
<1>2. /\ <<"mock", "mock", g>> \in Connected
      /\ Connected' = Connected \ {<<"mock", "mock", g>>}
  BY <1>1 DEF Connected, Typed, TypeOK
<1>3. registered /\ (registered' <=> opened' # 0)
  <2>1. Conns # {} /\ IsFiniteSet(Conns) /\ opened = Cardinality(Conns)
    BY <1>1, FS_Subset, MatchingAssumption DEF Conns, OpenedCountsConns
  <2>2. opened > 0
    BY <2>1, FS_EmptySet DEF Typed, TypeOK
  <2>3. registered
    BY <2>2 DEF OpenedCountsConns
  <2> QED
    BY <2>3, Zenon DEF Close
<1> QED
  BY <1>1, <1>2, <1>3 DEF Registry!Close

(***************************************************************************)
(* For any number of callers, what matching does to connections, count and *)
(* table are steps of DriverRegistry or none.                              *)
(***************************************************************************)
THEOREM KeepsRegistryAlways == Spec => KeepsRegistry
<1>1. Typed /\ OpenedCountsConns /\ ConnInv /\ [Next]_vars
      => [Registry!Next]_(Registry!vars)
  <2> SUFFICES ASSUME Typed, OpenedCountsConns, ConnInv, [Next]_vars
               PROVE  Registry!Next \/ UNCHANGED Registry!vars
    OBVIOUS
  <2>1. CASE Conns' = Conns /\ UNCHANGED <<opened, registered>>
    BY <2>1 DEF Registry!vars, Connected, Conns
  <2>2. ASSUME NEW g \in Callers, Open(g) PROVE Registry!Next \/ UNCHANGED Registry!vars
    BY <2>2, ConnectStep DEF Registry!Next
  <2>3. ASSUME NEW g \in Callers, NEW r \in Requests, Close(g, r) PROVE Registry!Next
    BY <2>3, DisconnectStep DEF Registry!Next
  <2> QED
    BY <2>1, <2>2, <2>3, ConnSteps
<1> QED
  BY <1>1, TypedAlways, PTL DEF Spec, KeepsRegistry

-----------------------------------------------------------------------------
(***************************************************************************)
(* Matching: mutexes exclude, so that a claimed expectation is still       *)
(* pending when it is fulfilled, however long ago the loop looked at it.   *)
(***************************************************************************)

\* What a step of one loop leaves alone, and how it moves.
LEMMA LoopMoves ==
  ASSUME Typed, NEW g \in Callers, LoopStep(g)
  PROVE  /\ UNCHANGED <<expected, triggered, ordered, uses, handles, closed, vpc, vidx, verdict>>
         /\ \A h \in Callers \ {g} : /\ pc'[h] = pc[h] /\ idx'[h] = idx[h]
                                     /\ fulfilled'[h] = fulfilled[h]
         /\ \/ pc'[g] = "idle"
            \/ pc'[g] = "look" /\ pc[g] = "lock" /\ idx'[g] = idx[g] /\ fulfilled'[g] = fulfilled[g]
            \/ /\ pc'[g] \in {"claim", "order"} /\ pc[g] = "look"
               /\ idx[g] \notin triggered
               /\ idx'[g] = idx[g] /\ fulfilled'[g] = fulfilled[g]
            \/ /\ pc'[g] = "lock" /\ pc[g] = "look" /\ idx[g] \in triggered
               /\ idx'[g] = idx[g] + 1 /\ fulfilled'[g] = fulfilled[g] + 1
            \/ /\ pc'[g] = "lock" /\ pc[g] \in {"look", "order"} /\ ~ordered
               /\ idx'[g] = idx[g] + 1 /\ fulfilled'[g] = fulfilled[g]
<1>1. UNCHANGED <<expected, triggered, ordered, uses, handles, closed, vpc, vidx, verdict>>
  BY DEF LoopStep, LoopFrame, handleVars, verifyVars
<1>2. /\ pc \in [Callers -> {"idle", "lock", "look", "order", "claim", "wait"}]
      /\ idx \in [Callers -> Nat] /\ fulfilled \in [Callers -> Nat]
  BY DEF Typed, TypeOK
<1>3. CASE TakesLock(g)
  BY <1>1, <1>2, <1>3 DEF TakesLock, Goto
<1>4. CASE Skips(g)
  BY <1>1, <1>2, <1>4 DEF Skips, Advance
<1>5. CASE Stops(g)
  BY <1>1, <1>2, <1>5 DEF Stops, Goto
<1>6. CASE GivesUp(g)
  BY <1>1, <1>2, <1>6 DEF GivesUp, Return
<1> QED
  BY <1>3, <1>4, <1>5, <1>6 DEF LoopStep

LEMMA LoopLocks ==
  ASSUME Typed, LockInv, NEW g \in Callers, LoopStep(g)
  PROVE  LockInv'
<1>1. /\ pc \in [Callers -> {"idle", "lock", "look", "order", "claim", "wait"}]
      /\ idx \in [Callers -> Nat]
  BY DEF Typed, TypeOK
<1>2. CASE TakesLock(g)
  BY <1>1, <1>2 DEF TakesLock, Goto, LockInv, Holding
<1>3. CASE Skips(g)
  BY <1>1, <1>3 DEF Skips, Unlocks, Advance, LockInv, Holding
<1>4. CASE Stops(g)
  BY <1>1, <1>4 DEF Stops, Unlocks, Goto, LockInv, Holding
<1>5. CASE GivesUp(g)
  BY <1>1, <1>5 DEF GivesUp, Unlocks, Return, LockInv, Holding
<1> QED
  BY <1>2, <1>3, <1>4, <1>5 DEF LoopStep

\* Fulfilling an expectation: the caller holds its mutex and gives it back.
LEMMA FulfilMoves ==
  ASSUME Typed, NEW g \in Callers, Fulfil(g)
  PROVE  /\ pc[g] = "claim" /\ pc'[g] \in {"idle", "wait"}
         /\ triggered' = triggered \cup {idx[g]} /\ locked' = locked \ {idx[g]}
         /\ idx[g] \in 1..MaxExpected
         /\ uses' = [uses EXCEPT ![idx[g]] = @ + 1]
         /\ UNCHANGED <<expected, ordered, handles, closed, vpc, vidx, verdict>>
         /\ \A h \in Callers \ {g} : /\ pc'[h] = pc[h] /\ idx'[h] = idx[h]
                                     /\ fulfilled'[h] = fulfilled[h]
<1>1. /\ pc \in [Callers -> {"idle", "lock", "look", "order", "claim", "wait"}]
      /\ idx \in [Callers -> Nat] /\ fulfilled \in [Callers -> Nat]
  BY DEF Typed, TypeOK
<1>2. (\E o \in Results : Return(g, o)) \/ Goto(g, "wait")
  BY DEF Fulfil, Results
<1>3. /\ pc'[g] \in {"idle", "wait"}
      /\ \A h \in Callers \ {g} : /\ pc'[h] = pc[h] /\ idx'[h] = idx[h]
                                  /\ fulfilled'[h] = fulfilled[h]
  BY <1>1, <1>2 DEF Return, Goto
<1>4. idx[g] \in 1..MaxExpected
  <2>1. idx[g] \in 1..Len(expected) /\ Len(expected) <= MaxExpected
    BY DEF Fulfil, Typed, IndexInv
  <2>2. Len(expected) \in Nat /\ MaxExpected \in Nat
    BY MatchingAssumption DEF Typed, TypeOK
  <2> QED
    BY <2>1, <2>2
<1> QED
  BY <1>3, <1>4 DEF Fulfil, handleVars, verifyVars

MatchInv == LockInv /\ ClaimInv /\ ServedOnce /\ CountInv

LEMMA FulfilMatch ==
  ASSUME Typed, MatchInv, NEW g \in Callers, Fulfil(g)
  PROVE  MatchInv'
<1> USE DEF MatchInv
<1>1. /\ pc[g] = "claim" /\ pc'[g] \in {"idle", "wait"}
      /\ triggered' = triggered \cup {idx[g]} /\ locked' = locked \ {idx[g]}
      /\ idx[g] \in 1..MaxExpected
      /\ uses' = [uses EXCEPT ![idx[g]] = @ + 1]
      /\ \A h \in Callers \ {g} : /\ pc'[h] = pc[h] /\ idx'[h] = idx[h]
                                  /\ fulfilled'[h] = fulfilled[h]
  BY FulfilMoves
<1>2. \A h \in Callers \ {g} : Holding(h) => idx[h] # idx[g]
  BY <1>1 DEF LockInv, Holding
<1>3. idx[g] \notin triggered
  BY <1>1 DEF ClaimInv
<1>4. LockInv'
  BY <1>1, <1>2 DEF LockInv, Holding
<1>5. ClaimInv'
  BY <1>1, <1>2 DEF ClaimInv, Holding
<1>6. ServedOnce'
  BY <1>1, <1>3 DEF ServedOnce, Typed, TypeOK
<1>7. CountInv'
  BY <1>1 DEF CountInv, Scanning
<1> QED
  BY <1>4, <1>5, <1>6, <1>7

LEMMA LoopMatch ==
  ASSUME Typed, MatchInv, NEW g \in Callers, LoopStep(g)
  PROVE  MatchInv'
<1> USE DEF MatchInv
<1>1. LockInv'
  BY LoopLocks
<1>2. ClaimInv'
  BY LoopMoves DEF ClaimInv
<1>3. ServedOnce'
  BY LoopMoves DEF ServedOnce
<1>4. CountInv'
  <2>1. idx[g] \in Nat /\ fulfilled[g] \in Nat
    BY DEF Typed, TypeOK
  <2>2. \A h \in Callers \ {g} : Scanning(h)' <=> Scanning(h)
    BY LoopMoves DEF Scanning
  <2>3. Scanning(g)' => /\ fulfilled'[g] < idx'[g]
                        /\ fulfilled'[g] = idx'[g] - 1 => 1..(idx'[g] - 1) \subseteq triggered
    BY <2>1, LoopMoves DEF CountInv, Scanning
  <2> QED
    BY <2>2, <2>3, LoopMoves DEF CountInv
<1> QED
  BY <1>1, <1>2, <1>3, <1>4

\* Steps that do not touch the loops, and the start of one.
LEMMA OtherMatch ==
  ASSUME Typed, MatchInv,
         \/ UNCHANGED <<triggered, locked, pc, idx, fulfilled, uses>>
         \/ \E g \in Callers, r \in Requests : pc[g] = "idle" /\ StartLoop(g, r)
         \/ \E g \in Callers : Deliver(g)
  PROVE  MatchInv'
<1> USE DEF MatchInv
<1>1. /\ pc \in [Callers -> {"idle", "lock", "look", "order", "claim", "wait"}]
      /\ idx \in [Callers -> Nat] /\ fulfilled \in [Callers -> Nat]
  BY DEF Typed, TypeOK
<1>2. CASE UNCHANGED <<triggered, locked, pc, idx, fulfilled, uses>>
  BY <1>2 DEF LockInv, ClaimInv, ServedOnce, CountInv, Holding, Scanning
<1>3. ASSUME NEW g \in Callers, NEW r \in Requests, pc[g] = "idle", StartLoop(g, r)
      PROVE  MatchInv'
  <2>1. /\ pc' = [pc EXCEPT ![g] = "lock"] /\ idx' = [idx EXCEPT ![g] = 1]
        /\ fulfilled' = [fulfilled EXCEPT ![g] = 0]
        /\ UNCHANGED <<triggered, locked, uses>>
    BY <1>3 DEF StartLoop, queueVars
  <2>2. LockInv' /\ ClaimInv' /\ ServedOnce'
    BY <1>1, <2>1 DEF LockInv, ClaimInv, ServedOnce, Holding
  <2>3. CountInv'
    BY <1>1, <2>1 DEF CountInv, Scanning
  <2> QED
    BY <2>2, <2>3
<1>4. ASSUME NEW g \in Callers, Deliver(g) PROVE MatchInv'
  <2>1. /\ pc' = [pc EXCEPT ![g] = "idle"] /\ idx' = [idx EXCEPT ![g] = 0]
        /\ fulfilled' = [fulfilled EXCEPT ![g] = 0]
        /\ UNCHANGED <<triggered, locked, uses>>
    BY <1>4 DEF Deliver, Return, queueVars
  <2>2. LockInv' /\ ClaimInv' /\ ServedOnce'
    BY <1>1, <2>1 DEF LockInv, ClaimInv, ServedOnce, Holding
  <2>3. CountInv'
    BY <1>1, <2>1 DEF CountInv, Scanning
  <2> QED
    BY <2>2, <2>3
<1> QED
  BY <1>2, <1>3, <1>4

LEMMA TestLeavesLoops ==
  ASSUME Test
  PROVE  UNCHANGED <<triggered, locked, pc, idx, fulfilled, uses, out>>
  BY DEF Test, Expect, MatchExpectationsInOrder, ExpectationsWereMet, VerifyFulfilled,
         VerifyClosed, VerifyDone, queueVars, callVars

LEMMA NextMatch == ASSUME Typed, MatchInv, [Next]_vars PROVE MatchInv'
<1>1. CASE Test
  BY <1>1, TestLeavesLoops, OtherMatch
<1>2. CASE Elsewhere
  BY <1>2, OtherMatch DEF Elsewhere, queueVars
<1>3. ASSUME NEW i \in handles, CloseHandle(i) PROVE MatchInv'
  BY <1>3, OtherMatch DEF CloseHandle, queueVars, callVars
<1>4. CASE UNCHANGED vars
  BY <1>4, OtherMatch DEF vars, queueVars, callVars
<1> QED
  BY <1>1, <1>2, <1>3, <1>4, Steps, OtherMatch, LoopMatch, FulfilMatch

LEMMA MatchAlways == Spec => [](Typed /\ MatchInv)
<1>1. Init => MatchInv
  BY DEF Init, MatchInv, LockInv, ClaimInv, ServedOnce, CountInv, Holding, Scanning
<1>2. Typed /\ MatchInv /\ [Next]_vars => MatchInv'
  BY NextMatch
<1> QED
  BY <1>1, <1>2, TypedAlways, PTL DEF Spec

(***************************************************************************)
(* No two calls are served by one expectation, for any number of callers.  *)
(***************************************************************************)
THEOREM ServedOnceAlways == Spec => []ServedOnce
  BY MatchAlways, PTL DEF MatchInv

\* Which steps end a call with the verdict "all expectations fulfilled".
LEMMA AllFulfilledStep ==
  ASSUME Typed, MatchInv, Next, NEW g \in Callers, Ended(g), out' = "allFulfilled"
  PROVE  Pending = {}
<1>1. pc \in [Callers -> {"idle", "lock", "look", "order", "claim", "wait"}]
  BY DEF Typed, TypeOK
<1>2. ~Test /\ ~Elsewhere /\ ~(\E i \in handles : CloseHandle(i))
  BY TestLeavesLoops DEF Ended, Elsewhere, CloseHandle, callVars
<1>3. ~(\E h \in Callers, r \in Requests : pc[h] = "idle" /\ StartLoop(h, r))
  BY <1>1 DEF Ended, StartLoop
<1>4. ASSUME NEW h \in Callers, Fulfil(h) \/ Deliver(h) PROVE FALSE
  <2>1. \A o : Return(h, o) => out' = o /\ pc' = [pc EXCEPT ![h] = "idle"]
    BY DEF Return
  <2>2. \/ Goto(h, "wait")
        \/ \E o \in {"mockErr", "ok", "noResponse"} : Return(h, o)
    BY <1>4 DEF Fulfil, Deliver
  <2>3. ~Goto(h, "wait")
    BY <1>1 DEF Goto, Ended
  <2> QED
    BY <2>1, <2>2, <2>3
<1>5. PICK h \in Callers : LoopStep(h)
  BY <1>2, <1>3, <1>4, Steps
<1>6. h = g
  BY <1>5, LoopMoves DEF Ended
<1>7. GivesUp(g)
  BY <1>1, <1>5, <1>6 DEF Ended, LoopStep, TakesLock, Skips, Stops, Goto, Advance
<1>8. pc[g] = "lock" /\ idx[g] > Len(expected) /\ fulfilled[g] = Len(expected)
  BY <1>7 DEF GivesUp, Return
<1>9. /\ idx[g] \in 1..(Len(expected) + 1) /\ fulfilled[g] < idx[g]
      /\ fulfilled[g] = idx[g] - 1 => 1..(idx[g] - 1) \subseteq triggered
  BY <1>8 DEF Typed, IndexInv, MatchInv, CountInv, Scanning
<1>10. Len(expected) \in Nat /\ triggered \subseteq 1..Len(expected)
  BY DEF Typed, TypeOK
<1> QED
  BY <1>8, <1>9, <1>10 DEF Pending

(***************************************************************************)
(* The handlers say "all expectations were already fulfilled" only when    *)
(* that is so, for any number of concurrent calls.                         *)
(***************************************************************************)
THEOREM AllFulfilledIsTrueAlways == Spec => AllFulfilledIsTrue
<1>1. Typed /\ MatchInv /\ [Next]_vars =>
        [\A g \in Callers : Ended(g) /\ out' = "allFulfilled" => Pending = {}]_vars
  BY AllFulfilledStep
<1> QED
  BY <1>1, MatchAlways, PTL DEF Spec, AllFulfilledIsTrue

-----------------------------------------------------------------------------
(***************************************************************************)
(* Ordered mode: a scan never passes a pending expectation, provided the   *)
(* mode is not switched under it.                                          *)
(***************************************************************************)
LEMMA NextScan ==
  ASSUME ~ToggleInFlight, Typed, ScanInv, [Next]_vars PROVE ScanInv'
<1>1. /\ pc \in [Callers -> {"idle", "lock", "look", "order", "claim", "wait"}]
      /\ idx \in [Callers -> Nat]
  BY DEF Typed, TypeOK
<1>2. CASE UNCHANGED <<triggered, ordered, pc, idx>>
  BY <1>2 DEF ScanInv
<1>3. ASSUME NEW b \in BOOLEAN, MatchExpectationsInOrder(b) PROVE ScanInv'
  BY <1>3 DEF MatchExpectationsInOrder, Quiet, Scanning, ScanInv, callVars
<1>4. ASSUME Test, \A b \in BOOLEAN : ~MatchExpectationsInOrder(b)
      PROVE  UNCHANGED <<triggered, ordered, pc, idx>>
  BY <1>4 DEF Test, Expect, ExpectationsWereMet, VerifyFulfilled, VerifyClosed,
              VerifyDone, queueVars, callVars
<1>5. CASE Elsewhere \/ (\E i \in handles : CloseHandle(i)) \/ UNCHANGED vars
  BY <1>2, <1>5 DEF Elsewhere, CloseHandle, vars, queueVars, callVars
<1>6. ASSUME NEW g \in Callers, NEW r \in Requests, pc[g] = "idle", StartLoop(g, r)
      PROVE  ScanInv'
  <2>1. /\ pc' = [pc EXCEPT ![g] = "lock"] /\ idx' = [idx EXCEPT ![g] = 1]
        /\ UNCHANGED <<triggered, ordered>>
    BY <1>6 DEF StartLoop, queueVars
  <2> QED
    BY <1>1, <2>1 DEF ScanInv
<1>7. ASSUME NEW g \in Callers, LoopStep(g) PROVE ScanInv'
  <2>1. idx[g] \in Nat
    BY <1>1
  <2>2. ordered /\ pc'[g] \in {"lock", "look", "claim"}
        => 1..(idx'[g] - 1) \subseteq triggered
    <3>1. idx[g] \in triggered /\ 1..(idx[g] - 1) \subseteq triggered
          => 1..(idx[g] + 1 - 1) \subseteq triggered
      BY <2>1
    <3>2. ordered /\ pc[g] \in {"lock", "look", "claim"} => 1..(idx[g] - 1) \subseteq triggered
      BY DEF ScanInv
    <3>3. \/ pc'[g] = "idle" \/ pc'[g] = "order"
          \/ pc[g] \in {"lock", "look"} /\ idx'[g] = idx[g]
          \/ pc[g] = "look" /\ idx[g] \in triggered /\ idx'[g] = idx[g] + 1
          \/ ~ordered
      BY <1>7, LoopMoves
    <3> SUFFICES ASSUME ordered, pc'[g] \in {"lock", "look", "claim"}
                 PROVE  1..(idx'[g] - 1) \subseteq triggered
      OBVIOUS
    <3>4. CASE pc[g] \in {"lock", "look"} /\ idx'[g] = idx[g]
      BY <3>2, <3>4
    <3>5. CASE pc[g] = "look" /\ idx[g] \in triggered /\ idx'[g] = idx[g] + 1
      <4>1. 1..(idx[g] - 1) \subseteq triggered
        BY <3>2, <3>5
      <4> QED
        BY <2>1, <3>1, <3>5, <4>1
    <3> QED
      BY <3>3, <3>4, <3>5
  <2> QED
    BY <1>7, <2>2, LoopMoves DEF ScanInv
<1>8. ASSUME NEW g \in Callers, Fulfil(g) PROVE ScanInv'
  BY <1>8, FulfilMoves DEF ScanInv
<1>9. ASSUME NEW g \in Callers, Deliver(g) PROVE ScanInv'
  <2>1. /\ pc' = [pc EXCEPT ![g] = "idle"] /\ idx' = [idx EXCEPT ![g] = 0]
        /\ UNCHANGED <<triggered, ordered>>
    BY <1>9 DEF Deliver, Return, queueVars
  <2> QED
    BY <1>1, <2>1 DEF ScanInv
<1> QED
  BY <1>2, <1>3, <1>4, <1>5, <1>6, <1>7, <1>8, <1>9, Steps

\* Only Fulfil sets triggered.
LEMMA TriggerStep ==
  ASSUME Typed, ScanInv, [Next]_vars, NEW i, i \in triggered', i \notin triggered, ordered
  PROVE  1..(i - 1) \subseteq triggered
<1>1. ~Test /\ ~Elsewhere /\ ~(\E j \in handles : CloseHandle(j)) /\ ~UNCHANGED vars
  BY TestLeavesLoops DEF Elsewhere, CloseHandle, queueVars, vars
<1>2. ~(\E g \in Callers, r \in Requests : pc[g] = "idle" /\ StartLoop(g, r))
  BY DEF StartLoop, queueVars
<1>3. ~(\E g \in Callers : LoopStep(g) \/ Deliver(g))
  BY LoopMoves DEF Deliver, queueVars
<1>4. PICK g \in Callers : Fulfil(g)
  BY <1>1, <1>2, <1>3, Steps
<1>5. i = idx[g] /\ pc[g] = "claim"
  BY <1>4, FulfilMoves
<1>6. ordered /\ pc[g] \in {"lock", "look", "claim"} => 1..(idx[g] - 1) \subseteq triggered
  BY DEF ScanInv
<1> QED
  BY <1>5, <1>6

(***************************************************************************)
(* Ordered matching is ordered, for any number of concurrent calls, if the *)
(* mode is not switched while calls are being matched.                     *)
(***************************************************************************)
THEOREM OrderedTriggersAlways ==
  ASSUME ~ToggleInFlight PROVE Spec => OrderedTriggers
<1>1. Init => ScanInv
  BY DEF Init, ScanInv
<1>2. Typed /\ ScanInv /\ [Next]_vars => ScanInv'
  BY NextScan
<1>3. Typed /\ ScanInv /\ [Next]_vars =>
        [\A i \in triggered' \ triggered : ordered => 1..(i - 1) \subseteq triggered]_vars
  BY TriggerStep
<1> QED
  BY <1>1, <1>2, <1>3, TypedAlways, PTL DEF Spec, OrderedTriggers

-----------------------------------------------------------------------------
(***************************************************************************)
(* ExpectationsWereMet: what its loop has seen stays true behind it.       *)
(***************************************************************************)
LEMMA NextVerify ==
  ASSUME Typed, VerifyInv, MetSound, [Next]_vars PROVE VerifyInv' /\ MetSound'
<1>1. Len(expected) \in Nat /\ vidx \in Nat
  BY DEF Typed, TypeOK
<1>2. CASE /\ triggered \subseteq triggered' /\ closed \subseteq closed'
           /\ UNCHANGED <<expected, vpc, vidx, verdict>>
  BY <1>2 DEF VerifyInv, MetSound
<1>3. ASSUME NEW e \in Expectations, Expect(e) PROVE VerifyInv' /\ MetSound'
  BY <1>3 DEF Expect, VerifyInv, MetSound
<1>4. ASSUME NEW b \in BOOLEAN, MatchExpectationsInOrder(b)
      PROVE  UNCHANGED <<triggered, closed, expected, vpc, vidx, verdict>>
  BY <1>4 DEF MatchExpectationsInOrder, handleVars, verifyVars
<1>5. CASE ExpectationsWereMet
  BY <1>5 DEF ExpectationsWereMet, VerifyInv, MetSound
<1>6. CASE VerifyFulfilled
  BY <1>1, <1>6 DEF VerifyFulfilled, VerifyInv, MetSound, queueVars, handleVars
<1>7. CASE VerifyClosed
  <2>1. UNCHANGED <<expected, triggered, closed>>
    BY <1>7 DEF VerifyClosed, queueVars, handleVars
  <2>2. CASE /\ expected[vidx].must => vidx \in closed
             /\ vpc' = "fulfilled" /\ vidx' = vidx + 1 /\ UNCHANGED verdict
    <3>1. \A i \in 1..(vidx' - 1) : i \in 1..(vidx - 1) \/ i = vidx
      BY <1>1, <2>2
    <3>2. /\ \A i \in 1..(vidx - 1) : i \in triggered /\ (expected[i].must => i \in closed)
          /\ vidx \in triggered
      BY <1>7 DEF VerifyClosed, VerifyInv
    <3>3. \A i \in 1..(vidx' - 1) : i \in triggered /\ (expected[i].must => i \in closed)
      BY <2>2, <3>1, <3>2
    <3>4. VerifyInv'
      BY <2>1, <2>2, <3>3 DEF VerifyInv
    <3>5. MetSound'
      BY <2>1, <2>2 DEF MetSound
    <3> QED
      BY <3>4, <3>5
  <2>3. CASE vpc' = "idle" /\ verdict' = "unmet"
    BY <2>3 DEF VerifyInv, MetSound
  <2> QED
    BY <1>7, <2>2, <2>3 DEF VerifyClosed
<1>8. CASE VerifyDone
  <2>1. 1..Len(expected) \subseteq 1..(vidx - 1)
    BY <1>1, <1>8 DEF VerifyDone
  <2> QED
    BY <1>8, <2>1 DEF VerifyDone, VerifyInv, MetSound, queueVars, handleVars
<1>9. CASE Elsewhere \/ (\E i \in handles : CloseHandle(i)) \/ UNCHANGED vars
  BY <1>2, <1>9 DEF Elsewhere, CloseHandle, vars, queueVars, handleVars, verifyVars
<1>10. ASSUME NEW g \in Callers, NEW r \in Requests, pc[g] = "idle", StartLoop(g, r)
       PROVE  VerifyInv' /\ MetSound'
  BY <1>2, <1>10 DEF StartLoop, queueVars, handleVars, verifyVars
<1>11. ASSUME NEW g \in Callers, LoopStep(g) \/ Fulfil(g) PROVE VerifyInv' /\ MetSound'
  BY <1>2, <1>11, LoopMoves, FulfilMoves
<1>12. ASSUME NEW g \in Callers, Deliver(g) PROVE VerifyInv' /\ MetSound'
  BY <1>2, <1>12 DEF Deliver, queueVars, verifyVars
<1>13. CASE Test
  BY <1>2, <1>3, <1>4, <1>5, <1>6, <1>7, <1>8, <1>13 DEF Test
<1> QED
  BY <1>9, <1>10, <1>11, <1>12, <1>13, Steps

(***************************************************************************)
(* A nil of ExpectationsWereMet can be relied on: everything was fulfilled *)
(* and closed, and stays so until another expectation is set.              *)
(***************************************************************************)
THEOREM MetSoundAlways == Spec => []MetSound
<1>1. Init => VerifyInv /\ MetSound
  BY DEF Init, VerifyInv, MetSound
<1>2. Typed /\ VerifyInv /\ MetSound /\ [Next]_vars => (VerifyInv /\ MetSound)'
  BY NextVerify
<1> QED
  BY <1>1, <1>2, TypedAlways, PTL DEF Spec

-----------------------------------------------------------------------------
(***************************************************************************)
(* Mutexes: every path through the handlers gives back what it has taken.  *)
(***************************************************************************)
LEMMA LoopKeepsMutexes ==
  ASSUME Typed, LockInv, NoMutexLost, NEW g \in Callers, LoopStep(g) \/ Fulfil(g)
  PROVE  NoMutexLost'
<1>1. /\ pc \in [Callers -> {"idle", "lock", "look", "order", "claim", "wait"}]
      /\ idx \in [Callers -> Nat] /\ req \in [Callers -> Requests \cup {NoRequest}]
  BY DEF Typed, TypeOK
<1>2. UNCHANGED expected
  BY DEF LoopStep, LoopFrame, Fulfil
<1>3. \/ \E o : Return(g, o)
      \/ \E l : Goto(g, l) /\ l # "idle"
      \/ \E n : Advance(g, n)
  BY DEF LoopStep, TakesLock, Skips, Stops, GivesUp, Fulfil
<1>4. /\ \A h \in Callers \ {g} : pc'[h] = pc[h] /\ idx'[h] = idx[h] /\ req'[h] = req[h]
      /\ \/ pc'[g] = "idle" /\ drv' = IF drv = g THEN NoCaller ELSE drv
         \/ pc'[g] # "idle" /\ drv' = drv /\ req'[g] = req[g]
  BY <1>1, <1>3 DEF Return, Goto, Advance
<1>5. drv' # NoCaller => pc'[drv'] # "idle" /\ req'[drv'].kind = "Close"
  BY <1>4 DEF NoMutexLost, Typed, TypeOK
<1>6. \A i \in locked' :
        \/ Holding(g)' /\ idx'[g] = i
        \/ /\ i \in locked
           /\ i # idx[g] \/ ~Holding(g) \/ ScanPanics(expected[i], req[g])
  <2>1. CASE TakesLock(g)
    BY <1>1, <2>1 DEF TakesLock, Goto, Holding
  <2>2. CASE Skips(g)
    BY <2>2 DEF Skips, Unlocks, Holding
  <2>3. CASE Stops(g)
    BY <1>1, <2>3 DEF Stops, Goto, Unlocks, Holding
  <2>4. CASE GivesUp(g)
    BY <2>4 DEF GivesUp, Unlocks
  <2>5. CASE Fulfil(g)
    BY <2>5 DEF Fulfil
  <2> QED
    BY <2>1, <2>2, <2>3, <2>4, <2>5 DEF LoopStep
<1>7. ASSUME NEW i \in locked'
      PROVE  \/ \E h \in Callers : Holding(h)' /\ idx'[h] = i
             \/ \E r \in Requests : ScanPanics(expected[i], r)
  <2>1. CASE Holding(g)' /\ idx'[g] = i
    BY <2>1
  <2>2. CASE \E r \in Requests : ScanPanics(expected[i], r)
    BY <2>2
  <2>3. CASE /\ i \in locked
             /\ i # idx[g] \/ ~Holding(g) \/ ScanPanics(expected[i], req[g])
    <3>1. PICK h \in Callers : \/ Holding(h) /\ idx[h] = i
                              \/ \E r \in Requests : ScanPanics(expected[i], r)
      BY <2>3 DEF NoMutexLost
    <3>2. CASE h # g /\ Holding(h) /\ idx[h] = i
      BY <1>4, <3>2 DEF Holding
    <3>3. CASE h = g /\ Holding(g) /\ idx[g] = i
      <4>1. pc[g] # "idle" /\ req[g] \in Requests
        BY <3>3 DEF Holding, Typed, IndexInv
      <4>2. Holding(g)' => idx'[g] = idx[g]
        BY <1>1, <1>3, <3>3 DEF Return, Goto, Advance, Holding
      <4> QED
        BY <2>3, <3>3, <4>1, <4>2
    <3> QED
      BY <3>1, <3>2, <3>3, <2>2
  <2> QED
    BY <1>6, <2>1, <2>3
<1> QED
  BY <1>2, <1>5, <1>7 DEF NoMutexLost, ScanPanics, SqlMatches, SqlPanics

LEMMA NextMutexes ==
  ASSUME Typed, LockInv, NoMutexLost, [Next]_vars PROVE NoMutexLost'
<1> USE DEF NoMutexLost
<1>1. /\ pc \in [Callers -> {"idle", "lock", "look", "order", "claim", "wait"}]
      /\ idx \in [Callers -> Nat] /\ req \in [Callers -> Requests \cup {NoRequest}]
      /\ drv \in Callers \cup {NoCaller} /\ locked \subseteq 1..Len(expected)
  BY DEF Typed, TypeOK
<1>2. CASE UNCHANGED <<expected, locked, pc, req, idx, drv>>
  BY <1>2 DEF Holding, ScanPanics, SqlMatches, SqlPanics
<1>3. ASSUME NEW e \in Expectations, Expect(e) PROVE NoMutexLost'
  <2>1. UNCHANGED <<locked, pc, req, idx, drv>> /\ expected' = Append(expected, e)
    BY <1>3 DEF Expect, callVars, connVars
  <2>2. \A i \in locked : expected'[i] = expected[i]
    BY <1>1, <2>1 DEF Typed, TypeOK
  <2> QED
    BY <2>1, <2>2 DEF Holding, ScanPanics, SqlMatches, SqlPanics
<1>4. CASE Test
  <2>1. ASSUME \A e \in Expectations : ~Expect(e)
        PROVE  UNCHANGED <<expected, locked, pc, req, idx, drv>>
    BY <1>4, <2>1 DEF Test, MatchExpectationsInOrder, ExpectationsWereMet,
      VerifyFulfilled, VerifyClosed, VerifyDone, queueVars, connVars, callVars
  <2> QED
    BY <1>2, <1>3, <2>1
<1>5. CASE (\E i \in handles : CloseHandle(i)) \/ UNCHANGED vars
  BY <1>2, <1>5 DEF CloseHandle, vars, queueVars, connVars, callVars
<1>6. ASSUME NEW g \in Callers, NEW r \in Requests, pc[g] = "idle", StartLoop(g, r),
             drv' = drv \/ (drv' = g /\ r.kind = "Close")
      PROVE  NoMutexLost'
  <2>1. /\ UNCHANGED <<expected, locked>> /\ pc'[g] = "lock" /\ req'[g] = r
        /\ \A h \in Callers \ {g} : pc'[h] = pc[h] /\ idx'[h] = idx[h] /\ req'[h] = req[h]
    BY <1>1, <1>6 DEF StartLoop, queueVars
  <2>2. \A h \in Callers : Holding(h) => Holding(h)' /\ idx'[h] = idx[h]
    BY <1>6, <2>1 DEF Holding
  <2>3. drv' # NoCaller => pc'[drv'] # "idle" /\ req'[drv'].kind = "Close"
    BY <1>1, <1>6, <2>1
  <2>4. \A i : \A q \in Requests : ScanPanics(expected[i], q) => ScanPanics(expected[i], q)'
    BY <2>1 DEF ScanPanics, SqlMatches, SqlPanics
  <2>5. \A i \in locked' : \/ \E h \in Callers : Holding(h)' /\ idx'[h] = i
                           \/ \E q \in Requests : ScanPanics(expected[i], q)'
    BY <2>1, <2>2, <2>4
  <2> QED
    BY <2>3, <2>5
<1>7. ASSUME NEW g \in Callers, EnterCall(g) PROVE NoMutexLost'
  <2>1. CASE Open(g)
    BY <1>2, <2>1 DEF Open, queueVars
  <2>2. ASSUME NEW r \in Requests, Close(g, r) PROVE NoMutexLost'
    BY <1>6, <2>2 DEF Close
  <2>3. ASSUME NEW r \in Requests, NEW k, Enter(g, r, k) PROVE NoMutexLost'
    BY <1>6, <2>3 DEF Enter, connVars
  <2>4. ASSUME NEW r \in Requests, NEW k, EndTx(g, r, k) PROVE NoMutexLost'
    BY <1>6, <2>4 DEF EndTx
  <2>5. ASSUME NEW r \in Requests, PingUnmonitored(g, r) PROVE NoMutexLost'
    BY <1>2, <2>5 DEF PingUnmonitored, queueVars, connVars
  <2> QED
    BY <1>7, <2>1, <2>2, <2>3, <2>4, <2>5
    DEF EnterCall, Begin, Prepare, Query, Exec, Commit, Rollback, Ping
<1>8. ASSUME NEW g \in Callers, Deliver(g) PROVE NoMutexLost'
  <2>1. /\ pc[g] = "wait" /\ UNCHANGED <<expected, locked>>
        /\ drv' = IF drv = g THEN NoCaller ELSE drv
        /\ \A h \in Callers \ {g} : pc'[h] = pc[h] /\ idx'[h] = idx[h] /\ req'[h] = req[h]
    BY <1>1, <1>8 DEF Deliver, Return, queueVars
  <2>2. \A h \in Callers : Holding(h) => Holding(h)' /\ idx'[h] = idx[h]
    BY <2>1 DEF Holding
  <2>3. drv' # NoCaller => pc'[drv'] # "idle" /\ req'[drv'].kind = "Close"
    BY <1>1, <2>1
  <2> QED
    BY <2>1, <2>2, <2>3 DEF ScanPanics, SqlMatches, SqlPanics
<1>9. ASSUME NEW g \in Callers, Lock(g) \/ Proceed(g) \/ Cancelled(g) PROVE NoMutexLost'
  BY <1>8, <1>9, LoopSteps, LoopKeepsMutexes DEF Proceed
<1> QED
  BY <1>4, <1>5, <1>7, <1>9 DEF Next

(***************************************************************************)
(* No mutex is lost, for any number of callers: what is locked will be     *)
(* unlocked by a call that does not wait for a mutex, or has been left     *)
(* locked by a panic of the scan.                                          *)
(***************************************************************************)
THEOREM NoMutexLostAlways == Spec => []NoMutexLost
<1>1. Init => NoMutexLost
  BY DEF Init, NoMutexLost
<1>2. Typed /\ MatchInv /\ NoMutexLost /\ [Next]_vars => NoMutexLost'
  BY NextMutexes DEF MatchInv
<1> QED
  BY <1>1, <1>2, MatchAlways, PTL DEF Spec
=============================================================================

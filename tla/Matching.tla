------------------------------ MODULE Matching ------------------------------
(***************************************************************************)
(* One mock (type sqlmock) used by concurrent goroutines.                  *)
(*                                                                         *)
(* Every handler of the driver interface is the same loop over c.expected: *)
(* lock the next expectation, skip it if it is fulfilled, stop at it if it *)
(* fits, otherwise unlock it and give up (ordered) or go on (unordered).   *)
(* Each expectation has its own mutex and there is no lock around the loop *)
(* so the loops of concurrent calls interleave.  A call is modelled by its *)
(* entry action (Close, Begin, Prepare, Query, Exec, Commit, Rollback,     *)
(* Ping), which picks the request, followed by the steps                   *)
(*                                                                         *)
(*   pc = "lock"    at next.Lock() for expectation idx, or at the loop end *)
(*   pc = "look"    holding that mutex                                     *)
(*   pc = "order"   mutex released, about to read c.ordered                *)
(*   pc = "claim"   out of the loop with expected = idx, mutex held        *)
(*   pc = "wait"    in the select on time.After(delay) and ctx.Done()      *)
(*                                                                         *)
(* The test goroutine adds expectations, switches the mode and runs        *)
(* ExpectationsWereMet, whose loop interleaves with the calls.             *)
(*                                                                         *)
(* database/sql is external: a caller owns at most one driver connection,  *)
(* calls the driver only on a connection it owns, commits or rolls back    *)
(* only inside a transaction and closes a connection only outside one.     *)
(***************************************************************************)
EXTENDS Matchers, FiniteSets

CONSTANTS
  Callers,         \* goroutines that use the mocked database
  Expectations,    \* expectations a test may queue
  Requests,        \* driver calls a program may make
  NoRequest,
  NoCaller,
  MaxExpected,     \* bound on the length of c.expected
  MonitorPings,    \* c.monitorPings, what MonitorPingsOption sets
  ToggleInFlight   \* the mode may be switched while calls are being matched

ASSUME MatchingAssumption ==
  /\ IsFiniteSet(Callers)
  /\ NoCaller \notin Callers
  /\ NoRequest \notin Requests
  /\ MaxExpected \in Nat
  /\ MonitorPings \in BOOLEAN
  /\ ToggleInFlight \in BOOLEAN
  /\ \A e \in Expectations : e.kind \in Kinds
  /\ \A r \in Requests : r.kind \in Kinds

VARIABLES
  expected,       \* c.expected
  triggered,      \* indices of the expectations with triggered = true
  locked,         \* indices of the expectations whose mutex is locked
  ordered,        \* c.ordered
  conn,           \* external: each caller's connection, "none", "free" or "tx"
  opened,         \* c.opened
  registered,     \* c.dsn is a key of c.drv.conns
  drv,            \* who holds the mutex of c.drv
  handles,        \* indices with a statement or rows handed out, not closed
  closed,         \* indices with wasClosed or rowsWereClosed
  pc, req, idx,   \* each call's control state, request and loop index
  fulfilled,      \* each call's count of fulfilled expectations
  uses,           \* history: how many calls each expectation has served
  out,            \* history: how the call that ended last did
  vpc, vidx,      \* control state and loop index of ExpectationsWereMet
  verdict         \* its last result

queueVars  == <<expected, triggered, locked, ordered>>
connVars   == <<conn, opened, registered, drv>>
handleVars == <<handles, closed>>
callVars   == <<pc, req, idx, fulfilled, uses, out>>
verifyVars == <<vpc, vidx, verdict>>
vars == <<queueVars, connVars, handleVars, callVars, verifyVars>>

Results == {"none", "ok", "mockErr", "cancelled", "unexpected",
            "allFulfilled", "mismatch", "noResponse", "panic", "noConn"}

Scanning(g) == pc[g] \in {"lock", "look", "order", "claim"}
Holding(g)  == pc[g] \in {"look", "claim"}
Quiet       == \A g \in Callers : ~Scanning(g)

TypeOK ==
  /\ expected \in Seq(Expectations)
  /\ triggered \subseteq 1..Len(expected)
  /\ locked \subseteq 1..Len(expected)
  /\ ordered \in BOOLEAN
  /\ conn \in [Callers -> {"none", "free", "tx"}]
  /\ opened \in Nat
  /\ registered \in BOOLEAN
  /\ drv \in Callers \cup {NoCaller}
  /\ handles \subseteq 1..Len(expected)
  /\ closed \subseteq 1..Len(expected)
  /\ pc \in [Callers -> {"idle", "lock", "look", "order", "claim", "wait"}]
  /\ req \in [Callers -> Requests \cup {NoRequest}]
  /\ idx \in [Callers -> Nat]
  /\ fulfilled \in [Callers -> Nat]
  /\ uses \in [1..MaxExpected -> Nat]
  /\ out \in Results
  /\ vpc \in {"idle", "fulfilled", "closed"}
  /\ vidx \in Nat
  /\ verdict \in {"none", "met", "unmet"}

(***************************************************************************)
(* The state New leaves behind: db.Ping has opened the first connection.   *)
(***************************************************************************)
Init ==
  /\ expected = <<>>
  /\ triggered = {} /\ locked = {}
  /\ ordered = TRUE
  /\ \E g0 \in Callers :
       conn = [g \in Callers |-> IF g = g0 THEN "free" ELSE "none"]
  /\ opened = 1 /\ registered = TRUE
  /\ drv = NoCaller
  /\ handles = {} /\ closed = {}
  /\ pc = [g \in Callers |-> "idle"]
  /\ req = [g \in Callers |-> NoRequest]
  /\ idx = [g \in Callers |-> 0]
  /\ fulfilled = [g \in Callers |-> 0]
  /\ uses = [i \in 1..MaxExpected |-> 0]
  /\ out = "none"
  /\ vpc = "idle" /\ vidx = 0 /\ verdict = "none"

-----------------------------------------------------------------------------
(***************************************************************************)
(* The test goroutine.                                                     *)
(***************************************************************************)

(***************************************************************************)
(* ExpectClose, ExpectBegin, ExpectExec, ExpectPrepare, ExpectQuery,       *)
(* ExpectCommit, ExpectRollback, ExpectPing: append to c.expected, which   *)
(* is not protected against a loop that is reading it, so a race-free test *)
(* does this only while no call is being matched.  ExpectPing does nothing *)
(* unless pings are monitored.                                             *)
(***************************************************************************)
Expect(e) ==
  /\ Quiet /\ vpc = "idle"
  /\ Len(expected) < MaxExpected
  /\ e.kind = "Ping" => MonitorPings
  /\ expected' = Append(expected, e)
  /\ verdict' = "none"
  /\ UNCHANGED <<triggered, locked, ordered, connVars, handleVars,
                 callVars, vpc, vidx>>

MatchExpectationsInOrder(b) ==
  /\ ToggleInFlight \/ Quiet
  /\ vpc = "idle"
  /\ ordered' = b
  /\ UNCHANGED <<expected, triggered, locked, connVars, handleVars,
                 callVars, verifyVars>>

\* ExpectationsWereMet is called: the loop starts.
ExpectationsWereMet ==
  /\ vpc = "idle"
  /\ vpc' = "fulfilled" /\ vidx' = 1 /\ verdict' = "none"
  /\ UNCHANGED <<queueVars, connVars, handleVars, callVars>>

\* Lock, read fulfilled(), Unlock; an unfulfilled expectation ends the loop.
VerifyFulfilled ==
  /\ vpc = "fulfilled" /\ vidx <= Len(expected)
  /\ vidx \notin locked
  /\ \/ /\ vidx \in triggered
        /\ vpc' = "closed"
        /\ UNCHANGED <<vidx, verdict>>
     \/ /\ vidx \notin triggered
        /\ vpc' = "idle" /\ vidx' = 0 /\ verdict' = "unmet"
  /\ UNCHANGED <<queueVars, connVars, handleVars, callVars>>

\* Mutant of VerifyClosed: handles that must be closed are not looked at.
VerifyClosedNever ==
  /\ vpc = "closed"
  /\ vpc' = "fulfilled" /\ vidx' = vidx + 1
  /\ UNCHANGED <<queueVars, connVars, handleVars, callVars, verdict>>

\* The checks on wasClosed and rowsWereClosed, which take no lock.
VerifyClosed ==
  /\ vpc = "closed"
  /\ \/ /\ expected[vidx].must => vidx \in closed
        /\ vpc' = "fulfilled" /\ vidx' = vidx + 1
        /\ UNCHANGED verdict
     \/ /\ expected[vidx].must /\ vidx \notin closed
        /\ vpc' = "idle" /\ vidx' = 0 /\ verdict' = "unmet"
  /\ UNCHANGED <<queueVars, connVars, handleVars, callVars>>

VerifyDone ==
  /\ vpc = "fulfilled" /\ vidx > Len(expected)
  /\ vpc' = "idle" /\ vidx' = 0 /\ verdict' = "met"
  /\ UNCHANGED <<queueVars, connVars, handleVars, callVars>>

-----------------------------------------------------------------------------
(***************************************************************************)
(* Entering a call.                                                        *)
(***************************************************************************)

\* mockDriver.Open: another connection of the same mock, while it is known.
Open(g) ==
  /\ pc[g] = "idle" /\ conn[g] = "none"
  /\ drv = NoCaller
  /\ \/ /\ registered
        /\ opened' = opened + 1
        /\ conn' = [conn EXCEPT ![g] = "free"]
        /\ out' = "none"
     \/ /\ ~registered
        /\ out' = "noConn"
        /\ UNCHANGED <<opened, conn>>
  /\ UNCHANGED <<queueVars, registered, drv, handleVars, pc, req, idx,
                 fulfilled, uses, verifyVars>>

\* A handler starts its loop with the request r.
StartLoop(g, r) ==
  /\ pc' = [pc EXCEPT ![g] = "lock"]
  /\ req' = [req EXCEPT ![g] = r]
  /\ idx' = [idx EXCEPT ![g] = 1]
  /\ fulfilled' = [fulfilled EXCEPT ![g] = 0]
  /\ out' = "none"
  /\ UNCHANGED <<queueVars, handleVars, uses, verifyVars>>

\* Entry of the handlers that leave the connection as it is.
Enter(g, r, kind) ==
  /\ r.kind = kind
  /\ pc[g] = "idle" /\ conn[g] # "none"
  /\ StartLoop(g, r)
  /\ UNCHANGED connVars

\* Mutant of Close: the count is tested before it is decremented.
CloseTestsFirst(g, r) ==
  /\ r.kind = "Close"
  /\ pc[g] = "idle" /\ conn[g] = "free"
  /\ drv = NoCaller /\ drv' = g
  /\ opened' = opened - 1
  /\ registered' = (registered /\ opened # 0)
  /\ conn' = [conn EXCEPT ![g] = "none"]
  /\ StartLoop(g, r)

\* The part of Close before its loop; the mutex of the driver stays locked.
Close(g, r) ==
  /\ r.kind = "Close"
  /\ pc[g] = "idle" /\ conn[g] = "free"
  /\ drv = NoCaller /\ drv' = g
  /\ opened' = opened - 1
  /\ registered' = (registered /\ opened' # 0)
  /\ conn' = [conn EXCEPT ![g] = "none"]
  /\ StartLoop(g, r)

Begin(g, r)    == conn[g] = "free" /\ Enter(g, r, "Begin")
Prepare(g, r)  == Enter(g, r, "Prepare")
Query(g, r)    == Enter(g, r, "Query")
Exec(g, r)     == Enter(g, r, "Exec")

\* database/sql marks a transaction as done before it calls the driver.
EndTx(g, r, kind) ==
  /\ r.kind = kind
  /\ pc[g] = "idle" /\ conn[g] = "tx"
  /\ conn' = [conn EXCEPT ![g] = "free"]
  /\ StartLoop(g, r)
  /\ UNCHANGED <<opened, registered, drv>>

Commit(g, r)   == EndTx(g, r, "Commit")
Rollback(g, r) == EndTx(g, r, "Rollback")

Ping(g, r) == MonitorPings /\ Enter(g, r, "Ping")

\* Pings that are not monitored succeed without looking at c.expected.
PingUnmonitored(g, r) ==
  /\ r.kind = "Ping" /\ ~MonitorPings
  /\ pc[g] = "idle" /\ conn[g] # "none"
  /\ out' = "ok"
  /\ UNCHANGED <<queueVars, connVars, handleVars, pc, req, idx, fulfilled,
                 uses, verifyVars>>

-----------------------------------------------------------------------------
(***************************************************************************)
(* The loop.                                                               *)
(***************************************************************************)

\* Mutant of Return: the mutex of the driver is kept.
ReturnKeepingDriver(g, o) ==
  /\ pc' = [pc EXCEPT ![g] = "idle"]
  /\ out' = o
  /\ req' = [req EXCEPT ![g] = NoRequest]
  /\ idx' = [idx EXCEPT ![g] = 0]
  /\ fulfilled' = [fulfilled EXCEPT ![g] = 0]
  /\ drv' = drv

\* The call ends with result o; Close releases the mutex of the driver.
Return(g, o) ==
  /\ pc' = [pc EXCEPT ![g] = "idle"]
  /\ out' = o
  /\ req' = [req EXCEPT ![g] = NoRequest]
  /\ idx' = [idx EXCEPT ![g] = 0]
  /\ fulfilled' = [fulfilled EXCEPT ![g] = 0]
  /\ drv' = IF drv = g THEN NoCaller ELSE drv

\* Mutant of Advance: expectations that do not fit are counted as fulfilled.
AdvanceCounting(g, count) ==
  /\ pc' = [pc EXCEPT ![g] = "lock"]
  /\ idx' = [idx EXCEPT ![g] = @ + 1]
  /\ fulfilled' = [fulfilled EXCEPT ![g] = @ + 1]
  /\ UNCHANGED <<req, out, drv>>

\* next.Unlock() and on to the next expectation.
Advance(g, count) ==
  /\ pc' = [pc EXCEPT ![g] = "lock"]
  /\ idx' = [idx EXCEPT ![g] = @ + 1]
  /\ fulfilled' = [fulfilled EXCEPT ![g] = @ + count]
  /\ UNCHANGED <<req, out, drv>>

Goto(g, label) ==
  /\ pc' = [pc EXCEPT ![g] = label]
  /\ UNCHANGED <<req, idx, fulfilled, out, drv>>

\* What no step of the loop changes.
LoopFrame == UNCHANGED <<expected, triggered, ordered, conn, opened, registered,
                         handleVars, uses, verifyVars>>

\* Mutant of Lock: the mutex does not exclude.
LockUnguarded(g) ==
  /\ pc[g] = "lock" /\ idx[g] <= Len(expected)
  /\ locked' = locked \cup {idx[g]}
  /\ Goto(g, "look")
  /\ LoopFrame

\* Mutant of Lock: the loop runs one past the end.
LockPastEnd(g) ==
  /\ pc[g] = "lock" /\ idx[g] <= Len(expected) + 1
  /\ idx[g] \notin locked
  /\ locked' = locked \cup {idx[g]}
  /\ Goto(g, "look")
  /\ LoopFrame

\* next.Lock()
Lock(g) ==
  /\ pc[g] = "lock" /\ idx[g] <= Len(expected)
  /\ idx[g] \notin locked
  /\ locked' = locked \cup {idx[g]}
  /\ Goto(g, "look")
  /\ LoopFrame

\* Mutant of SkipFulfilled: the mutex is kept.
SkipFulfilledKeepingLock(g) ==
  /\ idx[g] \in triggered
  /\ UNCHANGED locked
  /\ Advance(g, 1)

\* The body of the loop for a fulfilled expectation.
SkipFulfilled(g) ==
  /\ idx[g] \in triggered
  /\ locked' = locked \ {idx[g]}
  /\ Advance(g, 1)

\* Mutant of LookByType: the mutex of an expectation of another type is kept.
LookByTypeKeepingLock(g) ==
  /\ idx[g] \notin triggered
  /\ req[g].kind \in ByType
  /\ Goto(g, IF expected[idx[g]].kind = req[g].kind THEN "claim" ELSE "order")
  /\ UNCHANGED locked

\* Loop body of Close, begin, Commit, Rollback and ping: the type decides.
LookByType(g) ==
  LET e == expected[idx[g]] IN
  /\ idx[g] \notin triggered
  /\ req[g].kind \in ByType
  /\ \/ e.kind = req[g].kind /\ Goto(g, "claim") /\ UNCHANGED locked
     \/ e.kind # req[g].kind /\ Goto(g, "order") /\ locked' = locked \ {idx[g]}

\* Mutant of LookOrdered: another type of expectation is skipped.
LookOrderedSkipping(g) ==
  LET e == expected[idx[g]] IN
  /\ idx[g] \notin triggered
  /\ req[g].kind \in BySql /\ ordered
  /\ \/ e.kind = req[g].kind /\ Goto(g, "claim") /\ UNCHANGED locked
     \/ e.kind # req[g].kind /\ Advance(g, 0) /\ locked' = locked \ {idx[g]}

\* Loop body of prepare, query and exec in ordered mode.
LookOrdered(g) ==
  LET e == expected[idx[g]] IN
  /\ idx[g] \notin triggered
  /\ req[g].kind \in BySql /\ ordered
  /\ \/ e.kind = req[g].kind /\ Goto(g, "claim") /\ UNCHANGED locked
     \/ e.kind # req[g].kind /\ Return(g, "unexpected") /\ locked' = locked \ {idx[g]}

\* Mutant of LookUnordered: the loop stops at the first expectation of the type.
LookUnorderedByKind(g) ==
  LET e == expected[idx[g]] IN
  /\ idx[g] \notin triggered
  /\ req[g].kind \in BySql /\ ~ordered
  /\ \/ e.kind = req[g].kind /\ Goto(g, "claim") /\ UNCHANGED locked
     \/ e.kind # req[g].kind /\ Advance(g, 0) /\ locked' = locked \ {idx[g]}

\* Mutant of LookUnordered: the first expectation that does not fit ends the loop.
LookUnorderedGivingUp(g) ==
  LET e == expected[idx[g]] IN
  /\ idx[g] \notin triggered
  /\ req[g].kind \in BySql /\ ~ordered
  /\ \/ Selects(e, req[g]) /\ Goto(g, "claim") /\ UNCHANGED locked
     \/ ScanPanics(e, req[g]) /\ Return(g, "panic") /\ UNCHANGED locked
     \/ /\ ~Selects(e, req[g]) /\ ~ScanPanics(e, req[g])
        /\ locked' = locked \ {idx[g]}
        /\ Return(g, "unexpected")

(***************************************************************************)
(* Loop body of prepare, query and exec in unordered mode.  A panic of the *)
(* QueryMatcher, or one that attemptArgMatch lets through, leaves the      *)
(* mutex locked for good, because its Unlock is not deferred.              *)
(***************************************************************************)
LookUnordered(g) ==
  LET e == expected[idx[g]] IN
  /\ idx[g] \notin triggered
  /\ req[g].kind \in BySql /\ ~ordered
  /\ \/ Selects(e, req[g]) /\ Goto(g, "claim") /\ UNCHANGED locked
     \/ ScanPanics(e, req[g]) /\ Return(g, "panic") /\ UNCHANGED locked
     \/ /\ ~Selects(e, req[g]) /\ ~ScanPanics(e, req[g])
        /\ locked' = locked \ {idx[g]}
        /\ Advance(g, 0)

Look(g) ==
  /\ pc[g] = "look"
  /\ SkipFulfilled(g) \/ LookByType(g) \/ LookOrdered(g) \/ LookUnordered(g)
  /\ LoopFrame

\* Mutant of CheckOrder: the mode is not looked at.
CheckOrderNever(g) ==
  /\ pc[g] = "order"
  /\ Advance(g, 0)
  /\ LoopFrame /\ UNCHANGED locked

\* if c.ordered { return error }, after the mutex was released.
CheckOrder(g) ==
  /\ pc[g] = "order"
  /\ \/ ordered /\ Return(g, "unexpected")
     \/ ~ordered /\ Advance(g, 0)
  /\ LoopFrame /\ UNCHANGED locked

\* The loop ran to its end: expected == nil.
Exhausted(g) ==
  /\ pc[g] = "lock" /\ idx[g] > Len(expected)
  /\ Return(g, IF fulfilled[g] = Len(expected) THEN "allFulfilled" ELSE "unexpected")
  /\ LoopFrame /\ UNCHANGED locked

-----------------------------------------------------------------------------
(***************************************************************************)
(* After the loop.                                                         *)
(***************************************************************************)

\* Mutant of Reject: returns with the mutex locked.
RejectKeepingLock(g) ==
  /\ pc[g] = "claim"
  /\ Verdict(expected[idx[g]], req[g]) # "nil"
  /\ Return(g, "mismatch")
  /\ LoopFrame /\ UNCHANGED locked

\* The last checks fail, with an error or a panic; Unlock is deferred here.
Reject(g) ==
  LET v == Verdict(expected[idx[g]], req[g]) IN
  /\ pc[g] = "claim"
  /\ v # "nil"
  /\ locked' = locked \ {idx[g]}
  /\ Return(g, IF v \in Panics THEN "panic" ELSE "mismatch")
  /\ LoopFrame

(***************************************************************************)
(* triggered = true.  Close, Commit and Rollback return at once; Query and *)
(* Exec do so when neither an error nor a response was set; the others go  *)
(* on to wait for the delay of the expectation.                            *)
(***************************************************************************)
Fulfil(g) ==
  LET e == expected[idx[g]]
      k == req[g].kind
  IN
  /\ pc[g] = "claim"
  /\ Verdict(e, req[g]) = "nil"
  /\ triggered' = triggered \cup {idx[g]}
  /\ locked' = locked \ {idx[g]}
  /\ uses' = [uses EXCEPT ![idx[g]] = @ + 1]
  /\ \/ /\ k \in {"Close", "Commit", "Rollback"}
        /\ Return(g, IF e.err THEN "mockErr" ELSE "ok")
     \/ /\ k \in HasArgs /\ ~e.err /\ ~e.resp
        /\ Return(g, "noResponse")
     \/ /\ k \notin {"Close", "Commit", "Rollback"}
        /\ ~(k \in HasArgs /\ ~e.err /\ ~e.resp)
        /\ Goto(g, "wait")
  /\ UNCHANGED <<expected, ordered, conn, opened, registered,
                 handleVars, verifyVars>>

\* The delay has passed: the mocked error, or the mocked response.
Deliver(g) ==
  LET e == expected[idx[g]]
      k == req[g].kind
  IN
  /\ pc[g] = "wait"
  /\ Return(g, IF e.err THEN "mockErr" ELSE "ok")
  /\ handles' = IF ~e.err /\ k \in {"Prepare", "Query"}
                THEN handles \cup {idx[g]} ELSE handles
  /\ conn' = IF ~e.err /\ k = "Begin" THEN [conn EXCEPT ![g] = "tx"] ELSE conn
  /\ UNCHANGED <<queueVars, opened, registered, closed, uses, verifyVars>>

\* ctx.Done() wins the select; the context of a call may end at any time.
Cancelled(g) ==
  /\ pc[g] = "wait"
  /\ Return(g, "cancelled")
  /\ LoopFrame /\ UNCHANGED locked

\* statement.Close and rowSets.Close, which take no lock.
CloseHandle(i) ==
  /\ i \in handles
  /\ handles' = handles \ {i}
  /\ closed' = closed \cup {i}
  /\ UNCHANGED <<queueVars, connVars, callVars, verifyVars>>

-----------------------------------------------------------------------------
Test ==
  \/ \E e \in Expectations : Expect(e)
  \/ \E b \in BOOLEAN : MatchExpectationsInOrder(b)
  \/ ExpectationsWereMet \/ VerifyFulfilled \/ VerifyClosed \/ VerifyDone

EnterCall(g) ==
  \/ Open(g)
  \/ \E r \in Requests :
       \/ Close(g, r) \/ Begin(g, r) \/ Prepare(g, r) \/ Query(g, r)
       \/ Exec(g, r) \/ Commit(g, r) \/ Rollback(g, r) \/ Ping(g, r)
       \/ PingUnmonitored(g, r)

Proceed(g) ==
  Look(g) \/ CheckOrder(g) \/ Exhausted(g) \/ Reject(g) \/ Fulfil(g) \/ Deliver(g)

Next ==
  \/ Test
  \/ \E g \in Callers : EnterCall(g) \/ Lock(g) \/ Proceed(g) \/ Cancelled(g)
  \/ \E i \in handles : CloseHandle(i)

Spec == Init /\ [][Next]_vars

(***************************************************************************)
(* A running goroutine is eventually scheduled (WF); a sync.Mutex is       *)
(* handed to a waiter that keeps being overtaken (starvation mode), so a   *)
(* lock that is free again and again is eventually acquired (SF).  Nothing *)
(* is assumed about when calls start or handles are closed.                *)
(***************************************************************************)
Fairness ==
  /\ \A g \in Callers : SF_vars(Lock(g)) /\ WF_vars(Proceed(g))
  /\ SF_vars(VerifyFulfilled)
  /\ WF_vars(VerifyClosed \/ VerifyDone)

FairSpec == Spec /\ Fairness

-----------------------------------------------------------------------------
(***************************************************************************)
(* Properties.                                                             *)
(***************************************************************************)

Ended(g) == pc[g] # "idle" /\ pc'[g] = "idle"
Pending  == (1..Len(expected)) \ triggered

(***************************************************************************)
(* However the loops of concurrent handlers interleave, no two calls are   *)
(* served by the same expectation, although a handler sets triggered some  *)
(* steps after it saw it unset; and fulfilled() tells which ones served.   *)
(***************************************************************************)
ServedOnce ==
  \A i \in 1..MaxExpected : uses[i] = IF i \in triggered THEN 1 ELSE 0

(***************************************************************************)
(* The promise of MatchExpectationsInOrder(true): an expectation is        *)
(* fulfilled in ordered mode only when all earlier ones are, although the  *)
(* handlers lock one expectation at a time and other calls run in between. *)
(***************************************************************************)
OrderedTriggers ==
  [][\A i \in triggered' \ triggered : ordered => 1..(i - 1) \subseteq triggered]_vars

(***************************************************************************)
(* The message "all expectations were already fulfilled" of the handlers   *)
(* is true when it is given, although the count behind it was gathered     *)
(* while other calls were fulfilling expectations.                         *)
(***************************************************************************)
AllFulfilledIsTrue ==
  [][\A g \in Callers : Ended(g) /\ out' = "allFulfilled" => Pending = {}]_vars

(***************************************************************************)
(* ExpectationsWereMet returns nil only if every expectation is fulfilled  *)
(* and every statement and rows that had to be closed is closed, and this  *)
(* stays so until the test sets another expectation; its loop releases     *)
(* each expectation before it looks at the next.                           *)
(***************************************************************************)
MetSound ==
  verdict = "met" =>
    \A i \in 1..Len(expected) :
       i \in triggered /\ (expected[i].must => i \in closed)

(***************************************************************************)
(* c.opened counts the live connections of the mock, and the driver knows  *)
(* its DSN as long as there is one: mockDriver.Open and Close keep three   *)
(* things in step under the mutex of the driver.                           *)
(***************************************************************************)
OpenedCountsConns ==
  /\ opened = Cardinality({g \in Callers : conn[g] # "none"})
  /\ registered <=> opened > 0

(***************************************************************************)
(* A locked mutex has a holder who is not waiting for another: a call that *)
(* looks at the expectation, or for the driver's a Close in progress.  So  *)
(* calls never wait for each other in a circle, however the paths through  *)
(* the handlers unlock.  The one exception is an expectation over which a  *)
(* scan may have panicked, where the Unlock is not deferred.               *)
(***************************************************************************)
NoMutexLost ==
  /\ \A i \in locked : \/ \E g \in Callers : Holding(g) /\ idx[g] = i
                       \/ \E r \in Requests : ScanPanics(expected[i], r)
  /\ drv # NoCaller => pc[drv] # "idle" /\ req[drv].kind = "Close"

(***************************************************************************)
(* The handlers match as if each call were matched in one step: the        *)
(* interleaved loops implement module ExpectationQueue.  A call counts as  *)
(* refused already when its loop has met an expectation of another type in *)
(* ordered mode and is about to return the error.                          *)
(***************************************************************************)
Phase(g) ==
  IF pc[g] \in {"lock", "look", "claim"} THEN "called"
  ELSE IF pc[g] = "order" THEN IF ordered THEN "refused" ELSE "called"
  ELSE IF pc[g] = "wait"  THEN "taken" ELSE "idle"

Queue == INSTANCE ExpectationQueue WITH phase <- [g \in Callers |-> Phase(g)]

MatchesAtomically == Queue!Spec

(***************************************************************************)
(* To the driver this mock looks like a mock of module DriverRegistry      *)
(* whose creation is complete: the connections that goroutines open and    *)
(* close while expectations are matched are steps of that module, with the *)
(* count and the table changed in one piece under the driver's mutex.      *)
(***************************************************************************)
Connected == {<<"mock", "mock", g>> : g \in {h \in Callers : conn[h] # "none"}}

Registry == INSTANCE DriverRegistry WITH
  Mocks <- {"mock"}, NoMock <- "no mock", DSNs <- {"dsn"}, NoDSN <- "no dsn",
  GeneratedDSN <- [k \in {0} |-> "dsn"], ChosenDSNs <- {}, MaxCounter <- 0,
  Links <- Callers, counter <- 0,
  conns  <- [d \in {"dsn"} |-> IF registered THEN "mock" ELSE "no mock"],
  dsn    <- [m \in {"mock"} |-> "dsn"],
  opened <- [m \in {"mock"} |-> opened],
  stage  <- [m \in {"mock"} |-> "ready"],
  links  <- Connected

KeepsRegistry == [][Registry!Next]_(Registry!vars)

(***************************************************************************)
(* Every call returns: handlers take the mutexes of the expectations one   *)
(* after the other, and Close does so while it holds the driver's, but     *)
(* nobody waits for ever.                                                  *)
(***************************************************************************)
CallReturns == \A g \in Callers : pc[g] # "idle" ~> pc[g] = "idle"

\* ExpectationsWereMet returns, whatever calls are being matched meanwhile.
VerifyReturns == vpc # "idle" ~> vpc = "idle"

(***************************************************************************)
(* What the doc comment of MatchExpectationsInOrder says of unordered mode *)
(* ("expectations will be matched in any order"): a call is not refused,   *)
(* neither at the end of its loop nor by the checks behind it, when a      *)
(* pending expectation accepts it, although the loop has looked at each    *)
(* one at another moment.                                                  *)
(***************************************************************************)
Refusals == {"unexpected", "allFulfilled", "mismatch"}

AnyOrder ==
  [][\A g \in Callers :
       Ended(g) /\ out' \in Refusals /\ ~ordered =>
         \A i \in Pending : ~(/\ Selects(expected[i], req[g])
                              /\ Verdict(expected[i], req[g]) = "nil")]_vars

(***************************************************************************)
(* What the comment "catch panic" of attemptArgMatch says: in unordered    *)
(* mode, where it is used, a panic of a matcher or a converter does not    *)
(* reach the caller.  In ordered mode nothing catches it.                  *)
(***************************************************************************)
PanicsAreCaught ==
  [][\A g \in Callers : Ended(g) /\ ~ordered => out' # "panic"]_vars
=============================================================================

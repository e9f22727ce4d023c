# A TLA+ verification of go-sqlmock

go-sqlmock is a mock of a `database/sql` driver.  A test queues *expectations*
(a query, an exec, a transaction, a close, ...), the program under test uses an
ordinary `*sql.DB`, and the mock checks every driver call against the queue and
answers as the expectation says.  The package is used by tests that start
goroutines, so the mock itself is a concurrent program: this directory models
it, model-checks it with TLC and proves its main properties with TLAPS.

Files are named `<Module>.tla`; `MC<Module>.tla` gives the constants their
values, one `.cfg` per run; `<Module>Proofs.tla` and `MatchingRefinement.tla`
hold theorems.

## 1. The system

| part | code | state | operations |
|---|---|---|---|
| matching engine | `sqlmock.go`, `sqlmock_go18.go` | `c.expected`, `c.ordered`, `c.monitorPings`; per expectation a mutex, `triggered` and what the builders set | `Close`, `Begin`, `Prepare`, `Query`, `Exec`, `Commit`, `Rollback`, `Ping` (with and without context), `Expect...`, `MatchExpectationsInOrder`, `ExpectationsWereMet` |
| driver registry | `driver.go`, `open` and `Close` of `sqlmock.go` | `pool.counter`, `pool.conns`, `c.opened`, the driver's mutex | `New`, `NewWithDSN`, `open`, `mockDriver.Open`, `Close` |
| argument matching and value checking | `expectations_go18.go`, `argument.go`, `sqlmock_go19.go`, `sqlmock_go18_19.go` | none | `argsMatches`, `attemptArgMatch`, `AnyArg`, `CheckNamedValue` |
| expectations and builders | `expectations.go` | `args`, `noArgs`, `err`, `delay`, `rows`, `result`, `mustBeClosed`, ... | `WithArgs`, `WithoutArgs`, `Will...`, `RowsWillBeClosed` |
| prepared statements | `statement.go`, `statement_go18.go` | `wasClosed` of the expectation | `Close`, `Exec`, `Query` |
| rows, result sets, CSV | `rows.go`, `rows_go18.go` | cursor of each `Rows`, current set, raw buffers, `rowsWereClosed` | `Next`, `NextResultSet`, `Close`, `AddRow`, `FromCSVString` |
| query matchers | `query.go` | none | `stripQuery`, the regexp and the equality matcher |
| options, results, columns | `options.go`, `result.go`, `column.go` | immutable after creation | constructors |
| Go < 1.8 variants | `*_before_go18.go` | as the matching engine | the same loops, without contexts; these builds do not compile at this commit, where common files use `driver.TxOptions` of Go 1.8 |

### How the parts interact

* `database/sql` (external) calls the driver interface.  All connections that
  `mockDriver.Open` hands out for one DSN are *the same* `*sqlmock`; `c.opened`
  counts them.  Any number of goroutines can be inside a handler at a time.
* A handler is a loop over `c.expected`.  There is **no lock around the loop**;
  each expectation has a mutex, taken and released as the loop passes.  When
  the loop stops at an expectation it keeps the mutex, checks the rest
  (SQL, arguments, transaction options), sets `triggered` and unlocks.  Then,
  without any lock, it waits for the expectation's delay or for the end of the
  call's context.
* `Close` does all this while it holds the mutex of the driver, for which
  `Open`, `New`, `NewWithDSN` and every other `Close` wait.
* `ExpectationsWereMet` locks one expectation after the other and reads
  `wasClosed`/`rowsWereClosed` without a lock.
* User code runs inside a loop body: `Argument.Match`, value converters and
  query matchers, which may panic.

### What is hard about it

Interleaved loops over expectations that are locked one at a time; counts and
verdicts gathered step by step while other calls run; a mode that may change
under a running scan; a context that ends after the expectation was consumed;
user code that panics with a mutex held; a global table that is keyed by name
and changed in two steps.  `PROJECT.json` lists these hazards at their lines.

### What makes each part correct

* *Matching*: one expectation serves one call; ordered mode fulfils in order;
  a call behaves as if it had been matched in one atomic step; diagnostics are
  true; every call returns.
* *Verification*: nil means that everything is fulfilled and closed.
* *Registry*: counts equal connections, a mock in use can be found, one not in
  use is forgotten, two mocks do not get mixed up.
* *Rows*: each row goes to one reader, raw bytes die when the reader moves on
  and not before, the mocked data itself is never touched.
* *Builders*: whatever a test calls in whatever order, an expectation accepts
  exactly the texts and arguments the test asked for, options that exclude each
  other do so in either order, and every row that went into a `Rows` can be read.

## 2. The modules

```
Arguments          how one argument list is compared        (pure operators)
  Matchers         when one call and one expectation fit    (pure operators)
    ExpectationQueue   abstract: every call matched in one step
    Matching           the handlers, step by step; implements ExpectationQueue
      MCMatching         instances for TLC
      MatchingProofs     theorems: the invariants of the handlers
        MatchingRefinement   theorems: Matching implements ExpectationQueue
  ValueChecking    how arguments reach the mock; older builds (pure operators)
    ArgumentsProofs    lemmas about both builds of argsMatches
    Builders           what a test sets up (with QueryText)
      MCBuilders         instance for TLC
      BuildersProofs     theorems
Positions          sets of positions in ascending order     (pure operators)
  PositionsProofs    lemmas: least positions, lists in ascending order
  QueryText          the query matchers of query.go         (pure operators)
    QueryTextProofs    theorems: what the matchers accept, for all texts
DriverRegistry     pool, New, NewWithDSN, Open, Close
  MCDriverRegistry     instances for TLC
  DriverRegistryProofs theorems
RowSets            Rows and rowSets as read through database/sql
  MCRowSets            an instance for TLC
  RowSetsProofs        theorems
```

### Arguments

`ArgsMatches` is `argsMatches`: nothing to compare when `WithArgs` was not
called (unless `WithoutArgs` was), lengths, then one argument after the other
until one does not fit.  An outcome is `nil`, an error or one of three kinds of
panic, because `attemptArgMatch` treats a panic differently if its value is an
error, a string or anything else: `AttemptArgMatch` says how.  What a value
converter makes of a value is the constant `ConvertValue`.

### Matchers

`Selects` is the condition under which the unordered loop stops, `ScanPanics`
the one under which it lets a panic through, `Verdict` the checks behind the
loop.  A query matcher is given by two constant relations: `SqlMatch`, the texts it
accepts, and `SqlPanic`, those over which a matcher of the test's own panics, with
nothing to recover the panic.

### Matching

One mock, a set `Callers` of goroutines and the test goroutine.

| TLA+ | code |
|---|---|
| `expected`, `ordered`, `opened` | the fields of `sqlmock` |
| `registered` | `c.dsn` is a key of `pool.conns` |
| `triggered`, `locked`, `closed`, `handles` | sets of indices of `c.expected`: `triggered` set, mutex held, `wasClosed`/`rowsWereClosed` set, statement or rows handed out and open |
| `drv` | holder of the mutex of the driver across `Close` |
| `pc`, `req`, `idx`, `fulfilled` | where each call is, its arguments, the loop index, the counter of the loop |
| `vpc`, `vidx`, `verdict` | the same for `ExpectationsWereMet`, and its last result |
| `conn` | external: what `database/sql` knows of the caller's connection |
| `uses`, `out` | history: how often each expectation has served, how the last call ended |

A call starts with an action named after its handler and goes on with the
steps all handlers share:

| action | code (for `begin`, resp. `query`) |
|---|---|
| `Lock` | `next.Lock()` |
| `Look` = `SkipFulfilled`, `LookByType`, `LookOrdered`, `LookUnordered` | the loop body under the mutex, up to `Unlock`, `break` or `return` |
| `CheckOrder` | `if c.ordered { return ... }`, which runs *after* the `Unlock` in the handlers that go by type |
| `Exhausted` | `expected == nil` behind the loop, and which of its two messages |
| `Reject` | the checks behind the loop fail, or panic; `Unlock` is deferred here |
| `Fulfil` | `triggered = true`, `Unlock`, and which kind of answer follows |
| `Deliver`, `Cancelled` | the two branches of the `select` on delay and context |

The entry action of a handler is mapped to its lines up to the loop; the steps are
written once in the model and several times in the code, and each is mapped to one
of the handlers that has it.

A step contains at most one access to state that other goroutines write,
except under a mutex, so the interleavings of the model are those of the code.
The registry is represented by what concerns this mock (`opened`,
`registered`, the mutex); the table with several mocks is in `DriverRegistry`.

Assumptions about the environment, all visible as guards:

* `Expect` is called only while no call is in its loop: appending to
  `c.expected` at another time is a data race of the test.
* The mode is not switched while a call is in its loop unless
  `ToggleInFlight`; it is not switched while `ExpectationsWereMet` runs, which
  is called by the same goroutine.
* A caller uses one connection at a time, ends only a transaction it has begun
  and closes only outside one, as `database/sql` does.  `database/sql` would
  keep a connection busy while rows are open; the model does not, which allows
  more behaviours, not fewer.
* A context may end at any moment of the wait.  `driver.ErrBadConn`, which
  would make `database/sql` repeat a call, is not among the mocked errors.

### ExpectationQueue

The promise: a call is matched in one step.  In ordered mode its only candidate
is the earliest pending expectation, in unordered mode the earliest pending one
that selects the call, or over which one of the test's matchers panics; it takes
the candidate if the remaining checks accept it and is refused otherwise.  `Matching!MatchesAtomically` states that the
interleaved loops implement this, with the phase of a call computed from `pc`.
The one subtle point of the mapping: a call that has released an expectation
of another type and is about to test `c.ordered` is refused *already*, because
its error is fixed even if that expectation gets fulfilled before the test.

### ValueChecking

An argument of the program is a record `[name, value]`.  `database/sql`
(external) numbers the arguments and lets `CheckNamedValue` convert each value;
the call reaches the mock only if none is refused (`Reaches`, `DriverArgs`).
Output parameters (`Outs`) are let through unconverted.
`ArgsMatchesBefore18` is `argsMatches` as built before Go 1.8, which knows no
names and rejects what is not a driver value; `convertValueToNamedValue` makes
the current kind of list from values without names.

### QueryText

A text is a sequence of letters, some of which are white space.  There are two
kinds of it, because the code uses two: `\s` of a pattern (`Spaces`) and what
`strings.TrimSpace` removes (`UnicodeSpaces`, with the no-break space for
example).  `stripQuery`, `QueryMatcherEqual` and `QueryMatcherRegexp` follow the
code; a pattern is a text without operators or one that does not compile.
The reference does no editing: `Ink` is the letters between the margins and
the set of neighbours with a gap between them, `LooksLike` compares two of them and
`OccursIn` looks for one inside the other.  `Kept` and `Inside` are the positions
of a text that survive the replacement of runs and the trimming.  They are put in
order by `Ascending` (module `Positions`) and not by the sort of the community
modules, which has no definition outside TLC.

### Builders

The test alone, before the program runs: each action is one call of a builder.

| TLA+ | code |
|---|---|
| `expected` | `c.expected` with all fields a setting writes; `withArgs` is `args != nil`, `err`, `resp` and `closeErr` say whether a value other than nil was given |
| `rows` | the field `rows` of each `Rows`; `Cols` is its number of columns, `Defined` says whether `def` is set |
| `panicked` | the call has panicked; the test recovers and goes on |
| `asked` | history: the text, whether `WithoutArgs` has returned, and the list of the last `WithArgs` that has |

`ExpectPing` returns nil unless pings are monitored, and a setting chained to
it panics.  `ExpectOnPrepared` takes its text from the prepared statement.
`Settings` are the methods that cannot fail, `QueryWithArgs`, `ExecWithArgs` and
`WithoutArgs` those that can, each with its own test: that of `ExpectedExec`
is finding 5.  `Fill` adds rows until one of them panics (`Made`), which is how
`AddRows` and `FromCSVString` fail; `RowFits` is the condition of `AddRow`.  A
CSV text is a sequence of records (package `encoding/csv` is external).  Delays
are left out: `Matching` has every call wait.

The bound `MaxRows` counts the rows of a call before it is made, so that no call
is cut short by it.

### DriverRegistry

Several mocks, several `sql.DB`s, and the table `conns`.  `New` and
`NewWithDSN` enter a mock (`Register`); `OptionFails` and `PingAtStart` are the
two ends of `open`, which runs later and without the mutex; `Open` is
`mockDriver.Open`, which yields whatever mock the table has for the DSN *now*;
`Close` is the part of `sqlmock.Close` that keeps count and table.  `links`
records which `sql.DB` has a connection with which mock.  External: when a pool
connects (`Connect`) and `db.Close` (`CloseDB`).  A `sql.DB` returned together
with an error is not used.

`Matching` has the same mechanism for its one mock.  Its property
`KeepsRegistry` instantiates `DriverRegistry` with a single mock and a single
`sql.DB` and states that every step of a handler is a step of the registry or leaves
it alone: the count, the table and the connections of the composed system change
only as the registry's module says.  The mapping starts behind `New`, with the
mock registered and its connection of `sqlmock.open` counted.

### RowSets

A *reader* is the `rowSets` of one expectation with the `sql.Rows` on top.
`SetsOf` gives the `Rows` of each reader, and the same `Rows` may occur several
times: its cursor `pos` is shared, as in the code.  Memory is modelled by
addresses, `<<Mock, r, k>>` for the bytes the test supplied and `<<rd, r, k>>`
for the copy `rawBytes` makes for reader `rd`; `overwritten` is the set of
addresses `invalidateRaw` has replaced.  `NextOf` is `sql.Rows.Next`, which calls
`rowSets.Next` (`NextRow`, `NextFails`, `NextEnds`) and closes after an error and at
the end of the last set; `NextResultSet` and `Close` likewise.  `ScanRaw` is a
`Scan` into `sql.RawBytes`: the program keeps the address (`held`).  A row has one
interesting column, since the columns of a row are copied and invalidated
together.  Readers that share a `Rows` are not used at the same instant: the
cursor has no lock.

## 3. What is checked

| run | properties | question |
|---|---|---|
| `matching_sql` | `TypeOK`, `ServedOnce`, `MetSound`, `NoMutexLost`, `MatchesAtomically`, `AnyOrder` | queries, execs, statements, rows, arguments, panics |
| `matching_tx` | `OpenedCountsConns`, `NoMutexLost`, `MatchesAtomically`, `KeepsRegistry` | connections, transactions with options, pings |
| `matching_live` | `CallReturns`, `VerifyReturns`, `PanicsAreCaught`, `OrderedTriggers`, `AllFulfilledIsTrue` | does every call return, and with the right outcome, with a matcher that panics with a string |
| `registry` | `TypeOK`, `InUseIsRegistered`, `IdleIsForgotten`, `NewIsIsolated` | many mocks at once |
| `rows` | `TypeOK`, `MockedDataIntact`, `CurrentRowIsValid`, `NoRowIsLost`, `RawBytesExpire` | several readers, shared rows, result sets, errors |
| `builders` | `TypeOK`, `ArgsAsAsked`, `TextsAsAsked`, `ReadsInBounds`, `SameBeforeGo18` | builders in any order, panics recovered |
| `without_args_exec` | `WithoutArgsHolds` is **violated** | finding 5 |
| `toggle_in_flight` | `OrderedTriggers` is **violated** | finding 1 |
| `transaction_options_order` | `AnyOrder` is **violated** | finding 2 |
| `panics_recovered` | `PanicsAreCaught` is **violated** | finding 3 |
| `panic_keeps_mutex` | `VerifyReturns` is **violated** | finding 6 |
| `registry_names` | `Isolated` is **violated** | finding 4 |

Each property of a passing run has a mutant, an operator placed before the
definition it would replace, that makes TLC find the property violated
(`LockUnguarded`, `CloseTestsFirst`, ...): the bug the property is there for.

### Bounds

* *Two callers.*  The handlers have no state that tells a third caller from a
  second; two suffice to interleave two scans, a scan with a close, and both
  with verification.  The safety theorems hold for any number.
* *Queues of two* (`MaxExpected`): one expectation to be passed and one to be
  taken, by this call or by another behind the scan.  The templates are chosen to
  overlap: two accept the query `"sel"`, one of them wants the argument `"1"`, has
  a matcher that panics on the other and a mocked error, one has no response, and
  the prepared statement makes the QueryMatcher panic on `"sel"`.  In
  `matching_live` the matcher panics with a string, which is recovered in
  unordered mode and meets a deferred Unlock in ordered mode, so that no mutex is
  lost.
* *Registry*: three mocks, two generated names, one or two chosen ones, two
  connections per pair, so that a name can be used, forgotten, used again and
  met by a late connection of its first owner.
* *Rows*: three readers and two `Rows` of three and two rows; one `Rows` is shared
  by two readers, the other by two and used twice by one of them; one row without
  bytes, one with an error.  `MaxPastEnd` bounds how often `Next` is called on a
  `Rows` that has ended, after which nothing but the cursor changes.
* *Builders*: two expectations (one prepares, one uses the statement; settings of
  one do not touch the other), two rows per `Rows` and five calls (`MaxCalls`),
  enough for two expectations, two settings of which the second is refused or
  overwrites the first, and a filling between.  Values: one the converter changes,
  one it cannot convert, one that is not a driver value, and an output
  parameter; lists with and without names, and the empty one.  Texts with runs of
  spaces, at the margins and inside, blank ones, one that is no pattern.
* `SYMMETRY` is used for callers and for mocks in runs without liveness.

`CHECK_DEADLOCK FALSE` in `matching_sql` and `panic_keeps_mutex`: a panic of the
QueryMatcher, or of an argument matcher with a value that is neither an error nor a
string, leaves an expectation locked for good, and once both callers wait for it
while the test waits as well the system has really stopped.  In the registry runs everything may be created and closed, in the run
of the rows every reader may be closed, and a test makes `MaxCalls` calls of
builders at most.

### Fairness

`FairSpec` assumes weak fairness of the steps of a running call and of
verification: a runnable goroutine is scheduled.  It assumes strong fairness
for taking a mutex, because `sync.Mutex` hands over to a waiter after one
millisecond (starvation mode).  `Deliver` is among the fair steps, since a delay
always ends; `Cancelled` is not, nor is the start of any call, nor that rows
are closed, nor that `Open` and `Close` succeed in entering.

### Findings

1. **Switching to ordered mode in flight** (`sqlmock.go:137`).  The comment of
   `MatchExpectationsInOrder` says the mode may be turned on anytime.  A call
   that already skipped an expectation in unordered mode fulfils a later one
   after the switch.
2. **Transaction options in unordered mode** (`sqlmock.go:256`).  `begin` stops
   at the first pending `ExpectBegin` whatever its options and fails if they
   differ, although another pending one fits; queries, execs and prepares do
   look on.
3. **Panics of matchers** (`expectations_go18.go:80`).  `attemptArgMatch`
   recovers a panic whose value is an error but leaves `err` nil, so the
   expectation is selected, and the same matcher panics again in `argsMatches`,
   outside the recover.
4. **Names** (`driver.go:49`).  `New` overwrites the entry of a mock that
   `NewWithDSN` created under a name such as `sqlmock_db_1`.  And `NewWithDSN`
   accepts the name of a mock whose `sql.DB` is open but has no connection at
   the moment.  Either way two databases end up with one mock.
5. **WithArgs after WithoutArgs** (`expectations.go:230`).  `ExpectedQuery.WithArgs`
   panics after `WithoutArgs`; `ExpectedExec.WithArgs` looks at its own earlier
   arguments instead of `noArgs`.  `ExpectExec(..).WithoutArgs().WithArgs(1)` is
   accepted and calls with that argument pass, although the comment of
   `WithoutArgs` promises that none is passed.
6. **A panic in the unordered loop** (`sqlmock_go18.go:219`).  The QueryMatcher is
   called with the mutex of the expectation held, and the `Unlock` of the loop is
   not deferred (the one behind the loop is).  After a panic that the program
   recovers from, `ExpectationsWereMet` waits for that mutex for ever, instead of
   returning an error for the expectation that was not met; so does every later
   call that reaches it.  A panic that `attemptArgMatch` lets through has the same
   effect.

## 4. What is proved

For every set of callers, expectations and requests and every bound, checked by
`tlapm` to the last leaf.  Every safety property of a passing run is among them:

| theorem | says |
|---|---|
| `TypeCorrect` | `Spec => []TypeOK` |
| `ServedOnceAlways` | `Spec => []ServedOnce` |
| `OrderedTriggersAlways` | `Spec => OrderedTriggers`, if `~ToggleInFlight` |
| `AllFulfilledIsTrueAlways` | `Spec => AllFulfilledIsTrue` |
| `MetSoundAlways` | `Spec => []MetSound` |
| `OpenedCountsConnsAlways` | `Spec => []OpenedCountsConns` |
| `NoMutexLostAlways` | `Spec => []NoMutexLost` |
| `KeepsRegistryAlways` | `Spec => KeepsRegistry` |
| `MatchesAtomicallyAlways` | `Spec => MatchesAtomically`: the handlers implement `ExpectationQueue`, if `~ToggleInFlight` |
| `AnyOrderWithoutOptions` | `Spec => AnyOrder`, if `~ToggleInFlight` and no transaction options clash: in unordered mode a call is refused, at the end of its loop or behind it, only if no pending expectation accepts it; the extent of finding 2 |
| `PanicsAreCaughtIfStrings` | `Spec => PanicsAreCaught`, if `~ToggleInFlight`, arguments panic with strings only and the QueryMatcher does not panic: in unordered mode no panic reaches the caller (in ordered mode every one does); the extent of finding 3 |
| `TypeCorrect` of `DriverRegistryProofs`, `RowSetsProofs` and `BuildersProofs` | the type invariants of those modules |
| `ArgsAsAskedAlways`, `TextsAsAskedAlways`, `ReadsInBoundsAlways`, `SameBeforeGo18Always` | the properties of `Builders`, for any values, converter, texts, lists, `Rows` and number of calls |
| `QueryWithoutArgsAlways` | `WithoutArgsHolds` restricted to queries: the extent of finding 5 |
| `EqualForgivesSpacing`, `RegexpForgivesSpacing` | `QueryMatcherEqual` is `LooksLike`, and `QueryMatcherRegexp` is `OccursIn` for patterns that compile, for every two texts |
| `InUseIsRegisteredAlways`, `IdleIsForgottenAlways`, `NewIsIsolatedAlways` | the registry's invariants, if tests choose names that `New` does not generate |
| `MockedDataIntactAlways`, `CurrentRowIsValidAlways`, `RawBytesExpireAlways`, `NoRowIsLostAlways` | the properties of `RowSets`, for any readers, any `Rows` and any sharing |

Assumptions: `MatchingAssumption`, `RegistryAssumption`,
`RowSetsAssumption`, `BuildersAssumption` and `TextAssumption` (finite sets, special
values outside them, kinds of expectations and requests, lists over values the
converter knows, texts over letters, white space that is no operator of a
pattern), which TLC evaluates in every run of their modules.  The hypotheses of
single theorems (no switch in flight, chosen names that are not generated, no
clash of transaction options, panics with strings only, no panic of the
QueryMatcher) are the ones findings 1 to 4 and 6 show to be needed: without them
the properties fail.

**MatchingProofs.**  None of the invariants is inductive by itself.
*Types* need to know that no index leaves the queue (`IndexInv`: an index is at
most one past the end at `"lock"` and within the queue wherever an expectation
is looked at), and that `opened` stays natural needs `OpenedCountsConns`, which
in turn is about a cardinality: the lemmas `OpenConns` and `CloseConns` say that
one connection more or less changes it by one.  `ConnInv` adds that the set of
connections stays finite.
*ServedOnce*: a call that is about to set `triggered` saw it unset some steps
ago.  `LockInv` (a call that looks at an expectation holds its mutex and no
other call looks at it) makes `ClaimInv` (that expectation is still unfulfilled)
inductive, and `ClaimInv` gives `ServedOnce`.
*AllFulfilledIsTrue*: `CountInv` bounds the count of a scan by its index and says
that equality means that all expectations behind it are fulfilled; this is
stable because `triggered` only grows.
*OrderedTriggers*: `ScanInv`, that in ordered mode a scan has only fulfilled
expectations behind it.  It is here that a switch in flight would break the proof.
*MetSound*: `VerifyInv`, the same for the loop of verification; stable because
`triggered` and `closed` only grow while the test does not add expectations.

*NoMutexLost*: every mutex that is locked has a holder that can go on, so no circle
of waiting calls can arise.  It is `LockInv` the other way round.  The proof has one
case per way out of a handler: each unlocks what the call holds, except the panic of
a scan (lemma `LoopSteps`: a call gives up with its mutex released, or without
one, or because of `ScanPanics`).  This is the part of `CallReturns` that is a
safety property; that a waiting call does get its turn is liveness.

Lemmas `LoopSteps`, `EnterSteps` and `Steps` reduce the many actions to a few
shapes (a step of a loop that touches one call and one mutex, the fulfilment, an
entry, a step of the test), so each part of the invariant is proved per shape.

**MatchingRefinement.**  What has to be shown is that every step of the interleaved
loops is a step of `ExpectationQueue` or changes none of its variables: the entry of
a handler is the abstract call, `Fulfil` the abstract matching, and a refusal is
abstract either when it is returned or, for a loop that goes by type, when the loop leaves
the expectation it is going to return the error for.  All other steps are hidden.
The abstract step looks at the whole queue at one moment, the loop has looked at
one expectation after the other, so the proof needs to know what a loop still knows
of those it has passed.  `KnownInv` says it, in three parts:

* `ScanInv` (ordered mode): everything behind the loop is fulfilled.
* `PassedInv` (unordered mode): everything behind the loop is fulfilled or does
  not fit the call, by a test that gives the same answer at any time.  It is
  stable because `triggered` only grows and no expectation is set up in flight.
* `StopInv`: an expectation about to be claimed has the type of the call and, in
  unordered mode, matches it; one at which a handler that goes by type is about to
  test the mode has another type.

From it follows that the expectation a loop has stopped at is the abstract
candidate *at the moment of* `Fulfil` or `Reject` (`ClaimIsCandidate`,
`StopIsCandidate`; it is still pending by `ClaimInv`), and that a loop that has
reached the end has no candidate (`EndHasNoCandidate`).  `PanicsAgain` relates the
panics of the scan to those of the checks behind it.  `EarliestIs` and
`LeastExists` identify the first pending expectation.  A call's abstract phase
depends on its own program counter and on the mode: `PhaseStep` says that a step of
one call moves no other call's phase, `SamePhase` that a step inside a scan moves
none.  One lemma per
kind of step (`EnterMaps`, `TestMaps`, `LookMaps`, `RefuseMaps`, `FulfilMaps`,
`AnswerMaps`, `HiddenMaps`) gives `NextMaps`.

`KnownInv` also shows how far findings 2 and 3 go.  By `StopInv`, a call whose loop
has stopped in unordered mode can be refused, or panic, for two reasons only (lemma
`UnorderedVerdict`): transaction options and a panic whose value is an error.  By
`PassedInv`, a call whose loop has reached its end has no pending expectation left
that accepts it.  `BadEnds` says that these, and a panic of the scan, are all the
ways in which such a call ends badly.

**DriverRegistryProofs.**  `Inv` says what is known of a mock at each stage of
its creation (`FreshInv`), that a table entry is filed under the mock's own DSN
(`EntryInv`), that counts equal links and mocks with links are registered
(`LinkInv`), that generated names beyond the counter are unused (`NameInv`) and
that a generated name belongs to one mock (`NamedInv`).

**RowSetsProofs.**  `CopyInv` says that an address that was handed out or
overwritten is a copy of a row the cursor has passed, so the copy made for the
next row is fresh; `CurrentInv` that the current row's bytes are among those
handed out since the last move, which belong to that reader alone; `HeldInv` that
what the program holds is overwritten or will be by the next move; `TakenInv` that
the rows given away are those the cursor has passed, each once.  Lemma
`NextMoves` reduces the three outcomes of `Next` to one shape.

**QueryTextProofs.**  `Ascending` lists a set of positions in order because
counting the members up to each is one-to-one and hence onto (`AscendingLists`),
two lists of the same set are equal (`OneList`), and the part of a list that lies
in a subset lists that subset (`PartListed`).  With these, `Stripped` says which
position of a text each letter of its stripped form comes from, and
`StrippedSpells` that the stripped form *spells* what is seen of the text: letter
after letter, one blank in each gap and nothing at the margins.  A text is
determined by what it spells (`SameInk`), and one is a part of another exactly if
what is seen of the one is seen somewhere in the other (`PartIsSeen`,
`SeenIsPart`): two lists that begin alike and take the same steps stay together
(`SameSteps`).  The smallest counterexample takes the place of induction.

**BuildersProofs.**  `StoredInv` relates what an expectation keeps to what was
asked: its text is the one given for it or for the statement, `noArgs` is set exactly if `WithoutArgs` has returned, `args` is the
wanted list, and a query with `noArgs` has no arguments, which is what the panic of
its `WithArgs` is for (an exec has no such clause: finding 5).  From it,
`AllMatch` (the loop of `argsMatches` succeeds iff every argument matches; in
`ArgumentsProofs`) and `OneMatches` (an iteration agrees with the reference `Fits`)
give `ArgsAsAsked`.  `DefsInv` and `RowsInv` are `ReadsInBounds` without the
detour through the queue.  The first argument that does not match and the number of
rows added before a panic are least elements of sets of positions; lemma
`LeastExists` gets them from the well-foundedness of strict inclusion, since an
induction is out of the prover's reach.  `SameAll` lifts the agreement of the two
builds from one argument to lists.

### Only model-checked

* Liveness (`CallReturns`, `VerifyReturns`): fairness and `ENABLED` are out of the
  prover's reach.  `NoMutexLost` is the safety part of it.  In
  `matching_live` no panic leaves the unordered loop (its matcher panics with a
  string, which is recovered there): with one that does `VerifyReturns` fails,
  which is finding 6.
* The findings are counterexamples; the theorems above say how far they go.

## 5. Not modelled, and the plan

Not modelled: texts of messages and `String` methods; patterns with operators
(package `regexp`); the handlers built before Go 1.8, which are the loops of the
current ones without contexts; `result.go` and `column.go`, immutable values with
getters; the error of `CloseError`, a constant that `Close` hands on; the examples.
Two goroutines that move the cursor of one `Rows` at the same instant and a test
that appends to `c.expected` during a call are data races, which the contract of
the package excludes.  `WillReturnRows()` without any `Rows` makes `Columns` index an
empty slice at once; `RowSetsAssumption` excludes it.

Planned, in this order:

1. `ConnPool`: the pool of `database/sql` over `Matching`, where `db.Close`
   closes several idle connections and each wants an `ExpectClose`.
2. `CloseError` against the end of a result set.
3. Statements used through their handles, with `wasClosed` set before the last use.

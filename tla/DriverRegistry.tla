--------------------------- MODULE DriverRegistry ---------------------------
(***************************************************************************)
(* The mock driver (type mockDriver, variable pool): the table from DSNs   *)
(* to mocks through which database/sql reaches a mock, and the creation of *)
(* mocks with New and NewWithDSN.                                          *)
(*                                                                         *)
(* A mock m is created in two parts: it is entered in the table under the  *)
(* mutex of the driver, and then open applies the options and pings the    *)
(* database, without the mutex.  Between the two other goroutines create   *)
(* mocks, connect and close.                                               *)
(*                                                                         *)
(* database/sql is external: the sql.DB that belongs to mock m connects    *)
(* with the DSN of m whenever its pool needs a connection, and closes      *)
(* connections one at a time, until db.Close forbids new ones.             *)
(***************************************************************************)
EXTENDS Naturals, FiniteSets

CONSTANTS
  Mocks,         \* one per call of New or NewWithDSN
  NoMock,
  DSNs,          \* data source names
  NoDSN,
  GeneratedDSN,  \* "sqlmock_db_%d" applied to 0, 1, 2, ...
  ChosenDSNs,    \* the names tests pass to NewWithDSN
  MaxCounter,    \* bound on calls of New
  Links          \* the connections one sql.DB can have with one mock

ASSUME RegistryAssumption ==
  /\ NoMock \notin Mocks /\ NoDSN \notin DSNs
  /\ MaxCounter \in Nat
  /\ GeneratedDSN \in [0..MaxCounter -> DSNs]
  /\ \A j, k \in 0..MaxCounter : GeneratedDSN[j] = GeneratedDSN[k] => j = k
  /\ ChosenDSNs \subseteq DSNs

VARIABLES
  counter,   \* pool.counter
  conns,     \* pool.conns; NoMock where there is no entry
  dsn,       \* the DSN of each mock
  opened,    \* c.opened of each mock
  stage,     \* how far the creation and the sql.DB of each mock have come
  links      \* <<m, c, k>>: connection k of the sql.DB of m is with mock c

vars == <<counter, conns, dsn, opened, stage, links>>

Stages == {"unused", "refused", "registered", "failed", "ready", "closed"}

TypeOK ==
  /\ counter \in 0..MaxCounter
  /\ conns \in [DSNs -> Mocks \cup {NoMock}]
  /\ dsn \in [Mocks -> DSNs \cup {NoDSN}]
  /\ opened \in [Mocks -> Nat]
  /\ stage \in [Mocks -> Stages]
  /\ links \subseteq Mocks \X Mocks \X Links

Init ==
  /\ counter = 0
  /\ conns = [d \in DSNs |-> NoMock]
  /\ dsn = [m \in Mocks |-> NoDSN]
  /\ opened = [m \in Mocks |-> 0]
  /\ stage = [m \in Mocks |-> "unused"]
  /\ links = {}

-----------------------------------------------------------------------------
Register(m, d) ==
  /\ dsn' = [dsn EXCEPT ![m] = d]
  /\ conns' = [conns EXCEPT ![d] = m]
  /\ stage' = [stage EXCEPT ![m] = "registered"]
  /\ UNCHANGED <<opened, links>>

\* Mutant of New: the counter is not advanced.
NewSameName(m) ==
  /\ stage[m] = "unused" /\ counter < MaxCounter
  /\ Register(m, GeneratedDSN[counter])
  /\ UNCHANGED counter

\* New, up to the call of open: a numbered DSN, entered without a look at
\* what the table holds for it.
New(m) ==
  /\ stage[m] = "unused" /\ counter < MaxCounter
  /\ Register(m, GeneratedDSN[counter])
  /\ counter' = counter + 1

\* Mutant of NewWithDSN: the table is not looked up.
NewWithDSNUnchecked(m, d) ==
  /\ stage[m] = "unused"
  /\ Register(m, d)
  /\ UNCHANGED counter

\* NewWithDSN, up to the call of open or the error for a name in the table.
NewWithDSN(m, d) ==
  /\ stage[m] = "unused"
  /\ \/ conns[d] = NoMock /\ Register(m, d)
     \/ /\ conns[d] # NoMock
        /\ stage' = [stage EXCEPT ![m] = "refused"]
        /\ UNCHANGED <<conns, dsn, opened, links>>
  /\ UNCHANGED counter

\* open: an option returns an error.  The mock stays in the table.
OptionFails(m) ==
  /\ stage[m] = "registered"
  /\ stage' = [stage EXCEPT ![m] = "failed"]
  /\ UNCHANGED <<counter, conns, dsn, opened, links>>

\* Mutant of Open: the connection is not counted.
OpenUncounted(m) ==
  LET c == conns[dsn[m]] IN
  /\ c # NoMock
  /\ \E k \in Links : <<m, c, k>> \notin links /\ links' = links \cup {<<m, c, k>>}
  /\ UNCHANGED <<counter, conns, dsn, opened>>

(***************************************************************************)
(* mockDriver.Open for the sql.DB of m: it yields the mock c that is       *)
(* entered under the DSN of m at this moment.                              *)
(***************************************************************************)
Open(m) ==
  LET c == conns[dsn[m]] IN
  /\ c # NoMock
  /\ opened' = [opened EXCEPT ![c] = @ + 1]
  /\ \E k \in Links : <<m, c, k>> \notin links /\ links' = links \cup {<<m, c, k>>}
  /\ UNCHANGED <<counter, conns, dsn>>

\* open: the Ping at its end, which makes database/sql connect.
PingAtStart(m) ==
  /\ stage[m] = "registered"
  /\ \/ Open(m) /\ stage' = [stage EXCEPT ![m] = "ready"]
     \/ /\ conns[dsn[m]] = NoMock
        /\ stage' = [stage EXCEPT ![m] = "failed"]
        /\ UNCHANGED <<counter, conns, dsn, opened, links>>

\* The pool of the sql.DB needs another connection, and there is one to get.
Connect(m) ==
  /\ stage[m] = "ready"
  /\ Open(m)
  /\ UNCHANGED stage

\* Mutant of Close: the entry is never deleted.
CloseDeletesNever(m, c, k) ==
  /\ <<m, c, k>> \in links
  /\ links' = links \ {<<m, c, k>>}
  /\ opened' = [opened EXCEPT ![c] = @ - 1]
  /\ UNCHANGED <<counter, conns, dsn, stage>>

(***************************************************************************)
(* sqlmock.Close on a connection that the sql.DB of m has with mock c: the *)
(* part under the mutex of the driver that keeps the count and the table.  *)
(***************************************************************************)
Close(m, c, k) ==
  /\ <<m, c, k>> \in links
  /\ links' = links \ {<<m, c, k>>}
  /\ opened' = [opened EXCEPT ![c] = @ - 1]
  /\ conns' = IF opened'[c] = 0 THEN [conns EXCEPT ![dsn[c]] = NoMock] ELSE conns
  /\ UNCHANGED <<counter, dsn, stage>>

\* External: db.Close, after which the pool opens no connection.
CloseDB(m) ==
  /\ stage[m] = "ready"
  /\ stage' = [stage EXCEPT ![m] = "closed"]
  /\ UNCHANGED <<counter, conns, dsn, opened, links>>

Next ==
  \E m \in Mocks :
    \/ New(m)
    \/ \E d \in ChosenDSNs : NewWithDSN(m, d)
    \/ OptionFails(m) \/ PingAtStart(m) \/ Connect(m) \/ CloseDB(m)
    \/ \E c \in Mocks, k \in Links : Close(m, c, k)

Spec == Init /\ [][Next]_vars

-----------------------------------------------------------------------------
(***************************************************************************)
(* Properties.                                                             *)
(***************************************************************************)

\* Tests choose names that New does not generate.
DistinctNames == \A k \in 0..MaxCounter : GeneratedDSN[k] \notin ChosenDSNs

(***************************************************************************)
(* c.opened is the number of live connections of a mock, whichever sql.DB  *)
(* they belong to, and a mock with live connections is the one the driver  *)
(* hands out for its DSN: the delete in Close, which goes by DSN and does  *)
(* not look at the mock, never takes the entry of a mock that is in use.   *)
(***************************************************************************)
LinksTo(c) == {l \in links : l[2] = c}

InUseIsRegistered ==
  \A c \in Mocks :
    /\ opened[c] = Cardinality(LinksTo(c))
    /\ LinksTo(c) # {} => conns[dsn[c]] = c

(***************************************************************************)
(* When the last connection of a mock is closed the driver forgets it, so  *)
(* a DSN can be used again: an entry without connections belongs to a mock *)
(* whose creation has not reached its Ping or has failed.                  *)
(***************************************************************************)
IdleIsForgotten ==
  \A d \in DSNs : conns[d] # NoMock =>
    \/ LinksTo(conns[d]) # {}
    \/ stage[conns[d]] \in {"registered", "failed"}

(***************************************************************************)
(* Mocks made with New are isolated: the sql.DB of such a mock only ever   *)
(* talks to that mock, and no other sql.DB does, whatever is created,      *)
(* connected and closed between its registration and its first Ping.       *)
(***************************************************************************)
NewIsIsolated ==
  \A l \in links : l[1] # l[2] =>
    \A k \in 0..MaxCounter : GeneratedDSN[k] \notin {dsn[l[1]], dsn[l[2]]}

(***************************************************************************)
(* What the package comment ("Supports concurrency and multiple database   *)
(* mocking") and the doc comment of NewWithDSN ("it will error if          *)
(* attempted to create with an already used dsn") lead a test to rely on:  *)
(* every sql.DB talks to its own mock.                                     *)
(***************************************************************************)
Isolated == \A l \in links : l[1] = l[2]
=============================================================================

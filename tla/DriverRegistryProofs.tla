------------------------ MODULE DriverRegistryProofs ------------------------
(***************************************************************************)
(* Proofs about module DriverRegistry for any number of mocks, names and   *)
(* connections, assuming that tests choose names New does not generate.    *)
(***************************************************************************)
EXTENDS DriverRegistry, FiniteSetTheorems, TLAPS

(***************************************************************************)
(* The inductive invariant.                                                *)
(***************************************************************************)

\* A mock that is not created yet is unknown to every sql.DB.
FreshInv ==
  \A m \in Mocks : stage[m] = "unused" =>
    dsn[m] = NoDSN /\ \A l \in links : l[1] # m /\ l[2] # m

\* The table files every mock under its own DSN.
EntryInv ==
  \A d \in DSNs : conns[d] # NoMock => dsn[conns[d]] = d

\* A connection joins a sql.DB and a mock of the same DSN.
LinkInv ==
  /\ IsFiniteSet(links)
  /\ \A l \in links : dsn[l[1]] = dsn[l[2]] /\ dsn[l[1]] \in DSNs

\* A generated DSN is given to one mock only, and the counter is past it.
NameInv ==
  \A m \in Mocks, k \in 0..MaxCounter : dsn[m] = GeneratedDSN[k] =>
    k < counter /\ \A c \in Mocks : dsn[c] = dsn[m] => c = m

\* A mock past its registration has a DSN.
NamedInv ==
  \A m \in Mocks : stage[m] \notin {"unused", "refused"} => dsn[m] \in DSNs

Inv ==
  /\ TypeOK /\ FreshInv /\ EntryInv /\ LinkInv /\ NameInv /\ NamedInv
  /\ InUseIsRegistered /\ IdleIsForgotten

-----------------------------------------------------------------------------
\* Adding a connection to c adds one to those of c and leaves the others.
LEMMA AddLink ==
  ASSUME NEW m \in Mocks, NEW c \in Mocks, NEW k \in Links, IsFiniteSet(links),
         <<m, c, k>> \notin links, links' = links \cup {<<m, c, k>>}
  PROVE  /\ IsFiniteSet(links')
         /\ LinksTo(c)' # {}
         /\ Cardinality(LinksTo(c)') = Cardinality(LinksTo(c)) + 1
         /\ \A b \in Mocks \ {c} : LinksTo(b)' = LinksTo(b)
<1>1. IsFiniteSet(LinksTo(c))
  BY FS_Subset DEF LinksTo
<1>2. LinksTo(c)' = LinksTo(c) \cup {<<m, c, k>>} /\ <<m, c, k>> \notin LinksTo(c)
  BY DEF LinksTo
<1>3. \A b \in Mocks \ {c} : LinksTo(b)' = LinksTo(b)
  BY DEF LinksTo
<1>4. IsFiniteSet(links')
  BY FS_AddElement
<1> QED
  BY <1>1, <1>2, <1>3, <1>4, FS_AddElement

\* Removing a connection to c takes one from those of c.
LEMMA RemoveLink ==
  ASSUME NEW m \in Mocks, NEW c \in Mocks, NEW k \in Links, IsFiniteSet(links),
         <<m, c, k>> \in links, links' = links \ {<<m, c, k>>}
  PROVE  /\ IsFiniteSet(links')
         /\ LinksTo(c) # {}
         /\ Cardinality(LinksTo(c)) \in Nat \ {0}
         /\ Cardinality(LinksTo(c)') = Cardinality(LinksTo(c)) - 1
         /\ Cardinality(LinksTo(c)') = 0 <=> LinksTo(c)' = {}
         /\ \A b \in Mocks \ {c} : LinksTo(b)' = LinksTo(b)
<1>1. IsFiniteSet(LinksTo(c))
  BY FS_Subset DEF LinksTo
<1>2. LinksTo(c)' = LinksTo(c) \ {<<m, c, k>>} /\ <<m, c, k>> \in LinksTo(c)
  BY DEF LinksTo
<1>3. \A b \in Mocks \ {c} : LinksTo(b)' = LinksTo(b)
  BY DEF LinksTo
<1>4. IsFiniteSet(links') /\ IsFiniteSet(LinksTo(c)')
  BY <1>1, <1>2, FS_RemoveElement
<1>5. Cardinality(LinksTo(c)) \in Nat \ {0}
  BY <1>1, <1>2, FS_CardinalityType, FS_EmptySet
<1>6. Cardinality(LinksTo(c)') = Cardinality(LinksTo(c)) - 1
  BY <1>1, <1>2, FS_RemoveElement
<1>7. Cardinality(LinksTo(c)') = 0 <=> LinksTo(c)' = {}
  BY <1>4, FS_EmptySet
<1> QED
  BY <1>2, <1>3, <1>4, <1>5, <1>6, <1>7

-----------------------------------------------------------------------------
LEMMA InitInv == ASSUME DistinctNames PROVE Init => Inv
<1> SUFFICES ASSUME Init PROVE Inv
  OBVIOUS
<1> USE RegistryAssumption DEF Init
<1>1. TypeOK
  BY DEF TypeOK, Stages
<1>2. FreshInv /\ EntryInv /\ NamedInv
  BY DEF FreshInv, EntryInv, NamedInv
<1>3. LinkInv
  BY FS_EmptySet DEF LinkInv
<1>4. NameInv
  BY DEF NameInv
<1>5. \A c \in Mocks : LinksTo(c) = {}
  BY DEF LinksTo
<1>6. InUseIsRegistered /\ IdleIsForgotten
  BY <1>5, FS_EmptySet DEF InUseIsRegistered, IdleIsForgotten
<1> QED
  BY <1>1, <1>2, <1>3, <1>4, <1>6 DEF Inv

-----------------------------------------------------------------------------
(***************************************************************************)
(* Entering an uncreated mock under a DSN whose entry, if there is one, is *)
(* not that of a mock with connections.                                    *)
(***************************************************************************)
LEMMA RegisterInv ==
  ASSUME Inv, NEW m \in Mocks, stage[m] = "unused", NEW d \in DSNs, Register(m, d),
         \A c \in Mocks : LinksTo(c) # {} => dsn[c] # d,
         counter' \in 0..MaxCounter, NameInv'
  PROVE  Inv'
<1> USE RegistryAssumption DEF Inv, Register
<1>1. TypeOK'
  BY DEF TypeOK, Stages
<1>2. FreshInv' /\ NamedInv'
  BY DEF FreshInv, NamedInv, TypeOK
<1>3. EntryInv'
  BY DEF EntryInv, TypeOK, FreshInv
<1>4. LinkInv'
  BY DEF LinkInv, FreshInv, TypeOK
<1>5. \A c \in Mocks : LinksTo(c)' = LinksTo(c)
  BY DEF LinksTo
<1>6. LinksTo(m) = {}
  BY DEF LinksTo, FreshInv
<1>7. InUseIsRegistered'
  BY <1>5, <1>6 DEF InUseIsRegistered, TypeOK, LinkInv
<1>8. IdleIsForgotten'
  BY <1>5 DEF IdleIsForgotten, TypeOK
<1> QED
  BY <1>1, <1>2, <1>3, <1>4, <1>7, <1>8

\* mockDriver.Open gives the sql.DB of m one more connection to the mock
\* filed under the DSN of m.
LEMMA OpenLink ==
  ASSUME Inv, NEW m \in Mocks, stage[m] \notin {"unused", "refused"}, Open(m)
  PROVE  \E c \in Mocks :
           /\ c = conns[dsn[m]] /\ dsn[c] = dsn[m] /\ dsn[m] \in DSNs
           /\ \E k \in Links : links' = links \cup {<<m, c, k>>}
           /\ IsFiniteSet(links')
           /\ LinksTo(c)' # {}
           /\ Cardinality(LinksTo(c)') = Cardinality(LinksTo(c)) + 1
           /\ \A b \in Mocks \ {c} : LinksTo(b)' = LinksTo(b)
<1>1. PICK c \in Mocks : c = conns[dsn[m]] /\ dsn[c] = dsn[m] /\ dsn[m] \in DSNs
  BY DEF Inv, NamedInv, EntryInv, TypeOK, Open
<1>2. PICK k \in Links : <<m, c, k>> \notin links /\ links' = links \cup {<<m, c, k>>}
  BY <1>1 DEF Open
<1>3. IsFiniteSet(links)
  BY DEF Inv, LinkInv
<1>4. /\ IsFiniteSet(links')
      /\ LinksTo(c)' # {}
      /\ Cardinality(LinksTo(c)') = Cardinality(LinksTo(c)) + 1
      /\ \A b \in Mocks \ {c} : LinksTo(b)' = LinksTo(b)
  BY <1>1, <1>2, <1>3, AddLink
<1> QED
  BY <1>1, <1>2, <1>4

\* Connecting keeps the invariant, be it the first Ping or a later need.
LEMMA OpenInv ==
  ASSUME Inv, NEW m \in Mocks, stage[m] \notin {"unused", "refused"}, Open(m),
         stage' = stage \/ stage' = [stage EXCEPT ![m] = "ready"]
  PROVE  Inv'
<1>1. PICK c \in Mocks :
      /\ c = conns[dsn[m]] /\ dsn[c] = dsn[m] /\ dsn[m] \in DSNs
      /\ \E k \in Links : links' = links \cup {<<m, c, k>>}
      /\ IsFiniteSet(links')
      /\ LinksTo(c)' # {}
      /\ Cardinality(LinksTo(c)') = Cardinality(LinksTo(c)) + 1
      /\ \A b \in Mocks \ {c} : LinksTo(b)' = LinksTo(b)
  BY OpenLink
<1>2. /\ opened' = [opened EXCEPT ![c] = @ + 1]
      /\ UNCHANGED <<counter, conns, dsn>>
  BY <1>1 DEF Open
<1> USE DEF Inv
<1>4. TypeOK'
  BY <1>1, <1>2 DEF TypeOK, Stages
<1>5. NameInv' /\ NamedInv' /\ EntryInv'
  BY <1>2 DEF NameInv, NamedInv, EntryInv, TypeOK
<1>6. FreshInv'
  BY <1>1, <1>2, RegistryAssumption DEF FreshInv, TypeOK
<1>7. LinkInv'
  BY <1>1, <1>2 DEF LinkInv, TypeOK
<1>8. InUseIsRegistered'
  BY <1>1, <1>2 DEF InUseIsRegistered, TypeOK
<1>9. IdleIsForgotten'
  <2> SUFFICES ASSUME NEW d \in DSNs, NEW b \in Mocks, b = conns[d]
               PROVE  LinksTo(b)' # {} \/ stage'[b] \in {"registered", "failed"}
    BY <1>2 DEF IdleIsForgotten, TypeOK, LinksTo
  <2>1. dsn[b] = d
    BY RegistryAssumption DEF EntryInv
  <2>2. CASE b = c
    BY <2>2, <1>1
  <2>3. CASE b # c
    <3>1. b # m
      BY <2>1, <2>3, <1>1
    <3>2. LinksTo(b) # {} \/ stage[b] \in {"registered", "failed"}
      BY RegistryAssumption DEF IdleIsForgotten, LinksTo
    <3> QED
      BY <2>3, <3>1, <3>2, <1>1 DEF TypeOK
  <2> QED
    BY <2>2, <2>3
<1> QED
  BY <1>4, <1>5, <1>6, <1>7, <1>8, <1>9

\* Closing a connection keeps the invariant.
LEMMA CloseInv ==
  ASSUME Inv, NEW m \in Mocks, NEW c \in Mocks, NEW k \in Links, Close(m, c, k)
  PROVE  Inv'
<1> USE DEF Inv
<1>1. <<m, c, k>> \in links /\ links' = links \ {<<m, c, k>>} /\ IsFiniteSet(links)
  BY DEF Close, LinkInv
<1>2. /\ IsFiniteSet(links')
      /\ LinksTo(c) # {}
      /\ Cardinality(LinksTo(c)) \in Nat \ {0}
      /\ Cardinality(LinksTo(c)') = Cardinality(LinksTo(c)) - 1
      /\ Cardinality(LinksTo(c)') = 0 <=> LinksTo(c)' = {}
      /\ \A b \in Mocks \ {c} : LinksTo(b)' = LinksTo(b)
  BY <1>1, RemoveLink
<1>3. opened[c] = Cardinality(LinksTo(c)) /\ conns[dsn[c]] = c
  BY <1>2 DEF InUseIsRegistered
<1>4. dsn[c] \in DSNs
  BY <1>1 DEF LinkInv
<1>5. /\ opened' = [opened EXCEPT ![c] = opened[c] - 1]
      /\ UNCHANGED <<counter, dsn, stage>>
      /\ \A d \in DSNs : conns'[d] =
           IF d = dsn[c] /\ LinksTo(c)' = {} THEN NoMock ELSE conns[d]
  <2>1. opened'[c] = 0 <=> LinksTo(c)' = {}
    BY <1>2, <1>3 DEF Close, TypeOK
  <2> QED
    BY <2>1 DEF Close, TypeOK
<1>6. TypeOK'
  BY <1>1, <1>2, <1>3, <1>4 DEF TypeOK, Close
<1>7. FreshInv' /\ NamedInv' /\ NameInv' /\ LinkInv'
  BY <1>1, <1>2, <1>5 DEF FreshInv, NamedInv, NameInv, LinkInv
<1>8. EntryInv'
  BY <1>5 DEF EntryInv
<1>9. InUseIsRegistered'
  <2> SUFFICES ASSUME NEW b \in Mocks
               PROVE  /\ opened'[b] = Cardinality(LinksTo(b)')
                      /\ LinksTo(b)' # {} => conns'[dsn[b]] = b
    BY <1>5 DEF InUseIsRegistered
  <2>1. CASE b = c
    BY <2>1, <1>2, <1>3, <1>4, <1>5 DEF TypeOK
  <2>2. CASE b # c
    <3>1. LinksTo(b)' = LinksTo(b) /\ opened'[b] = opened[b]
      BY <2>2, <1>2, <1>5 DEF TypeOK
    <3>2. ASSUME LinksTo(b) # {} PROVE conns'[dsn[b]] = b
      <4>1. conns[dsn[b]] = b
        BY <3>2 DEF InUseIsRegistered
      <4>2. dsn[b] \in DSNs
        BY <3>2 DEF LinksTo, LinkInv
      <4> QED
        BY <4>1, <4>2, <2>2, <1>3, <1>5
    <3> QED
      BY <3>1, <3>2 DEF InUseIsRegistered
  <2> QED
    BY <2>1, <2>2
<1>10. IdleIsForgotten'
  <2> SUFFICES ASSUME NEW d \in DSNs, NEW b \in Mocks, b = conns'[d]
               PROVE  LinksTo(b)' # {} \/ stage[b] \in {"registered", "failed"}
    BY <1>5, <1>6 DEF IdleIsForgotten, TypeOK, LinksTo
  <2>1. b = conns[d] /\ ~(d = dsn[c] /\ LinksTo(c)' = {})
    BY <1>5, RegistryAssumption
  <2>2. dsn[b] = d
    BY <2>1, RegistryAssumption DEF EntryInv
  <2>3. LinksTo(b) # {} \/ stage[b] \in {"registered", "failed"}
    BY <2>1, RegistryAssumption DEF IdleIsForgotten, LinksTo
  <2>4. CASE b = c
    BY <2>1, <2>2, <2>4
  <2>5. CASE b # c
    BY <2>3, <2>5, <1>2
  <2> QED
    BY <2>4, <2>5
<1> QED
  BY <1>6, <1>7, <1>8, <1>9, <1>10

-----------------------------------------------------------------------------
LEMMA NextInv == ASSUME DistinctNames PROVE Inv /\ [Next]_vars => Inv'
<1> SUFFICES ASSUME Inv, [Next]_vars PROVE Inv'
  OBVIOUS
<1> USE RegistryAssumption
<1>1. ASSUME NEW m \in Mocks, New(m) PROVE Inv'
  <2> DEFINE d == GeneratedDSN[counter]
  <2>1. /\ stage[m] = "unused" /\ counter < MaxCounter /\ counter \in 0..MaxCounter
        /\ Register(m, d) /\ counter' = counter + 1 /\ d \in DSNs
    BY <1>1 DEF New, Inv, TypeOK
  <2>2. \A c \in Mocks : dsn[c] # d
    BY <2>1 DEF Inv, NameInv
  <2>3. NameInv'
    BY <2>1, <2>2 DEF Inv, NameInv, TypeOK, Register
  <2> QED
    BY <2>1, <2>2, <2>3, RegisterInv
<1>2. ASSUME NEW m \in Mocks, NEW d \in ChosenDSNs, NewWithDSN(m, d) PROVE Inv'
  <2>1. stage[m] = "unused" /\ UNCHANGED counter
    BY <1>2 DEF NewWithDSN
  <2>2. CASE conns[d] = NoMock /\ Register(m, d)
    <3>1. \A c \in Mocks : LinksTo(c) # {} => dsn[c] # d
      BY <2>2 DEF Inv, InUseIsRegistered
    <3>2. NameInv'
      BY <2>1, <2>2 DEF Inv, NameInv, TypeOK, Register, DistinctNames
    <3> QED
      BY <2>1, <2>2, <3>1, <3>2, RegisterInv DEF Inv, TypeOK
  <2>3. CASE stage' = [stage EXCEPT ![m] = "refused"] /\ UNCHANGED <<conns, dsn, opened, links>>
    <3>1. TypeOK' /\ FreshInv' /\ NamedInv' /\ EntryInv' /\ LinkInv' /\ NameInv'
      BY <2>1, <2>3
      DEF Inv, TypeOK, Stages, FreshInv, NamedInv, EntryInv, LinkInv, NameInv
    <3>2. InUseIsRegistered'
      BY <2>3 DEF Inv, InUseIsRegistered, LinksTo
    <3>3. IdleIsForgotten'
      BY <2>1, <2>3 DEF Inv, IdleIsForgotten, LinksTo, TypeOK
    <3> QED
      BY <3>1, <3>2, <3>3 DEF Inv
  <2> QED
    BY <1>2, <2>2, <2>3 DEF NewWithDSN
<1>3. ASSUME NEW m \in Mocks, stage[m] = "registered",
             stage' = [stage EXCEPT ![m] = "failed"],
             UNCHANGED <<counter, conns, dsn, opened, links>>
      PROVE  Inv'
  <2>1. TypeOK' /\ FreshInv' /\ NamedInv' /\ EntryInv' /\ LinkInv' /\ NameInv'
    BY <1>3 DEF Inv, TypeOK, Stages, FreshInv, NamedInv, EntryInv, LinkInv, NameInv
  <2>2. \A c \in Mocks : LinksTo(c)' = LinksTo(c)
    BY <1>3 DEF LinksTo
  <2>3. InUseIsRegistered'
    BY <1>3, <2>2 DEF Inv, InUseIsRegistered
  <2>4. IdleIsForgotten'
    BY <1>3, <2>2 DEF Inv, IdleIsForgotten, TypeOK
  <2> QED
    BY <2>1, <2>3, <2>4 DEF Inv
<1>4. ASSUME NEW m \in Mocks, CloseDB(m) PROVE Inv'
  <2>1. /\ stage[m] = "ready" /\ stage' = [stage EXCEPT ![m] = "closed"]
        /\ UNCHANGED <<counter, conns, dsn, opened, links>>
    BY <1>4 DEF CloseDB
  <2>2. TypeOK' /\ FreshInv' /\ NamedInv' /\ EntryInv' /\ LinkInv' /\ NameInv'
    BY <2>1 DEF Inv, TypeOK, Stages, FreshInv, NamedInv, EntryInv, LinkInv, NameInv
  <2>3. \A c \in Mocks : LinksTo(c)' = LinksTo(c)
    BY <2>1 DEF LinksTo
  <2>4. InUseIsRegistered'
    BY <2>1, <2>3 DEF Inv, InUseIsRegistered
  <2>5. IdleIsForgotten'
    BY <2>1, <2>3 DEF Inv, IdleIsForgotten, TypeOK
  <2> QED
    BY <2>2, <2>4, <2>5 DEF Inv
<1>5. ASSUME NEW m \in Mocks, PingAtStart(m) PROVE Inv'
  BY <1>3, <1>5, OpenInv DEF PingAtStart
<1>6. ASSUME NEW m \in Mocks, Connect(m) PROVE Inv'
  BY <1>6, OpenInv DEF Connect
<1>7. CASE UNCHANGED vars
  <2>1. TypeOK' /\ FreshInv' /\ NamedInv' /\ EntryInv' /\ LinkInv' /\ NameInv'
    BY <1>7 DEF Inv, TypeOK, FreshInv, NamedInv, EntryInv, LinkInv, NameInv, vars
  <2>2. InUseIsRegistered' /\ IdleIsForgotten'
    BY <1>7 DEF Inv, InUseIsRegistered, IdleIsForgotten, LinksTo, vars
  <2> QED
    BY <2>1, <2>2 DEF Inv
<1> QED
  BY <1>1, <1>2, <1>3, <1>4, <1>5, <1>6, <1>7, CloseInv DEF Next, OptionFails

(***************************************************************************)
(* The invariant of the specification; its parts InUseIsRegistered,        *)
(* IdleIsForgotten and NewIsIsolated are what a user relies on.            *)
(***************************************************************************)
LEMMA AlwaysInv == ASSUME DistinctNames PROVE Spec => []Inv
<1>1. Init => Inv
  BY InitInv
<1>2. Inv /\ [Next]_vars => Inv'
  BY NextInv
<1> QED
  BY <1>1, <1>2, PTL DEF Spec

(***************************************************************************)
(* Every variable keeps its type: no sequence of opens and closes drives   *)
(* the count of a mock below zero, whoever shares the mock.                *)
(***************************************************************************)
THEOREM TypeCorrect == ASSUME DistinctNames PROVE Spec => []TypeOK
<1>1. Inv => TypeOK
  BY DEF Inv
<1> QED
  BY <1>1, AlwaysInv, PTL

(***************************************************************************)
(* c.opened counts the live connections of a mock and the entry of a mock  *)
(* in use is never deleted or overwritten, if tests do not choose names    *)
(* that New generates.                                                     *)
(***************************************************************************)
THEOREM InUseIsRegisteredAlways ==
  ASSUME DistinctNames PROVE Spec => []InUseIsRegistered
<1>1. Inv => InUseIsRegistered
  BY DEF Inv
<1> QED
  BY <1>1, AlwaysInv, PTL

\* Closing the last connection makes the driver forget a mock that is ready.
THEOREM IdleIsForgottenAlways ==
  ASSUME DistinctNames PROVE Spec => []IdleIsForgotten
<1>1. Inv => IdleIsForgotten
  BY DEF Inv
<1> QED
  BY <1>1, AlwaysInv, PTL

(***************************************************************************)
(* A sql.DB from New talks to its own mock and nobody else does, for any   *)
(* number of mocks created, connected and closed at the same time.         *)
(***************************************************************************)
THEOREM NewIsIsolatedAlways ==
  ASSUME DistinctNames PROVE Spec => []NewIsIsolated
<1>1. Inv => NewIsIsolated
  <2> SUFFICES ASSUME Inv, NEW l \in links, l[1] # l[2], NEW k \in 0..MaxCounter
               PROVE  GeneratedDSN[k] \notin {dsn[l[1]], dsn[l[2]]}
    BY DEF NewIsIsolated
  <2>1. l[1] \in Mocks /\ l[2] \in Mocks
    BY DEF Inv, TypeOK
  <2>2. dsn[l[1]] = dsn[l[2]]
    BY DEF Inv, LinkInv
  <2> QED
    BY <2>1, <2>2 DEF Inv, NameInv
<1> QED
  BY <1>1, AlwaysInv, PTL
=============================================================================

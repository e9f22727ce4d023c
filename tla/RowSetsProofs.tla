--------------------------- MODULE RowSetsProofs ---------------------------
(***************************************************************************)
(* Proofs about module RowSets for any readers, any Rows and any way to    *)
(* share the Rows among the readers.                                       *)
(***************************************************************************)
EXTENDS RowSets, TLAPS

(***************************************************************************)
(* The inductive invariant.                                                *)
(***************************************************************************)

\* An address that was handed out or overwritten is a copy of a row that
\* the cursor has passed; a copy that was handed out belongs to its reader.
CopyInv ==
  /\ \A a \in overwritten : a[1] # Mock /\ a[3] <= pos[a[2]]
  /\ \A rd \in Readers : \A a \in raw[rd] :
       a[1] = rd /\ a[3] <= pos[a[2]] /\ a \notin overwritten

\* The bytes of the current row are among those handed out since the last move.
CurrentInv ==
  \A rd \in Readers : current[rd] # NoRow =>
    /\ ~rowsWereClosed[rd]
    /\ \/ current[rd] \in raw[rd]
       \/ /\ current[rd][1] = Mock
          /\ <<current[rd][2], current[rd][3]>> \notin RawRows

\* Bytes the program holds are overwritten or will be by the next move.
HeldInv ==
  \A rd \in Readers :
    /\ held[rd] \subseteq overwritten \cup raw[rd]
    /\ rowsWereClosed[rd] => raw[rd] = {}

\* The rows that were given away are those the cursor has passed.
TakenInv ==
  /\ \A t \in taken : t[3] <= pos[t[2]]
  /\ \A t, u \in taken : t[2] = u[2] /\ t[3] = u[3] => t = u
  /\ \A r \in RowsIds : \A k \in 1..NumRows[r] : k <= pos[r] =>
       \E rd \in Readers : <<rd, r, k>> \in taken
  /\ \A e \in eof : pos[e[2]] > NumRows[e[2]]

Inv == TypeOK /\ CopyInv /\ CurrentInv /\ HeldInv /\ TakenInv

-----------------------------------------------------------------------------
LEMMA InitInv == Init => Inv
  BY RowSetsAssumption
  DEF Init, Inv, TypeOK, CopyInv, CurrentInv, HeldInv, TakenInv

\* What a call of sql.Rows.Next that reads row k of r may do to the bytes,
\* whichever way it ends.
Moved(rd, r, k) ==
  /\ overwritten \cup raw[rd] \subseteq overwritten'
  /\ overwritten' \subseteq overwritten \cup raw[rd] \cup {<<rd, r, k>>}
  /\ raw' \in [Readers -> SUBSET Addresses]
  /\ rowsWereClosed' \in [Readers -> BOOLEAN]
  /\ current' \in [Readers -> Addresses \cup {NoRow}]
  /\ \A q \in Readers \ {rd} : /\ raw'[q] = raw[q]
                               /\ rowsWereClosed'[q] = rowsWereClosed[q]
                               /\ current'[q] = current[q]
  /\ raw'[rd] \subseteq {<<rd, r, k>>} \ overwritten'
  /\ current'[rd] # NoRow =>
       /\ ~rowsWereClosed'[rd]
       /\ \/ current'[rd] \in raw'[rd]
          \/ current'[rd] = <<Mock, r, k>> /\ <<r, k>> \notin RawRows
  /\ rowsWereClosed'[rd] => raw'[rd] = {}

LEMMA NextMoves ==
  ASSUME Inv, NEW rd \in Readers, NextOf(rd),
         NEW r, r = Set(rd), NEW k, k = pos[r] + 1
  PROVE  /\ r \in RowsIds /\ k \in Nat /\ NumRows[r] \in Nat
         /\ pos' = [pos EXCEPT ![r] = k]
         /\ cur' = cur /\ held' = held
         /\ Moved(rd, r, k)
         /\ \/ k <= NumRows[r] /\ taken' = taken \cup {<<rd, r, k>>} /\ eof' = eof
            \/ k > NumRows[r] /\ taken' = taken /\ eof' = eof \cup {<<rd, r>>}
<1>1. r \in RowsIds /\ k \in Nat /\ pos[r] \in Nat /\ NumRows[r] \in Nat
  BY RowSetsAssumption DEF Inv, TypeOK, Set
<1>2. Advance(rd, r, k) /\ cur' = cur /\ held' = held /\ ~rowsWereClosed[rd]
  BY DEF NextOf
<1>3. \A a \in overwritten \cup raw[rd] : a # <<rd, r, k>>
  <2> SUFFICES ASSUME <<rd, r, k>> \in overwritten \cup raw[rd] PROVE FALSE
    OBVIOUS
  <2>1. k <= pos[r]
    BY DEF Inv, CopyInv
  <2> QED
    BY <2>1, <1>1
<1>4. /\ raw \in [Readers -> SUBSET Addresses]
      /\ rowsWereClosed \in [Readers -> BOOLEAN]
      /\ current \in [Readers -> Addresses \cup {NoRow}]
  BY DEF Inv, TypeOK
<1>5. <<rd, r, k>> \in Addresses /\ <<Mock, r, k>> \in Addresses
  BY <1>1 DEF Addresses
<1>6. ASSUME overwritten \cup raw[rd] \subseteq overwritten',
             overwritten' \subseteq overwritten \cup raw[rd] \cup {<<rd, r, k>>},
             raw' = [raw EXCEPT ![rd] = {}],
             current' = [current EXCEPT ![rd] = NoRow],
             NEW b \in BOOLEAN,
             rowsWereClosed' = [rowsWereClosed EXCEPT ![rd] = b]
      PROVE  Moved(rd, r, k)
  BY <1>4, <1>6 DEF Moved
<1>7. ASSUME NextRow(rd, r, k) PROVE Moved(rd, r, k)
  <2>1. CASE <<r, k>> \in RawRows
    <3>1. /\ overwritten' = overwritten \cup raw[rd]
          /\ raw' = [raw EXCEPT ![rd] = {<<rd, r, k>>}]
          /\ current' = [current EXCEPT ![rd] = <<rd, r, k>>]
          /\ rowsWereClosed' = rowsWereClosed
      BY <1>7, <2>1 DEF NextRow, invalidateRaw, Filled, Dest, rawBytes
    <3>2. /\ raw' \in [Readers -> SUBSET Addresses] /\ raw'[rd] = {<<rd, r, k>>}
          /\ \A q \in Readers \ {rd} : raw'[q] = raw[q]
      BY <1>4, <1>5, <3>1
    <3>3. /\ current' \in [Readers -> Addresses \cup {NoRow}]
          /\ current'[rd] = <<rd, r, k>>
          /\ \A q \in Readers \ {rd} : current'[q] = current[q]
      BY <1>4, <1>5, <3>1
    <3> QED
      BY <1>2, <1>3, <1>4, <3>1, <3>2, <3>3 DEF Moved
  <2>2. CASE <<r, k>> \notin RawRows
    <3>1. /\ overwritten' = overwritten \cup raw[rd]
          /\ raw' = [raw EXCEPT ![rd] = {}]
          /\ current' = [current EXCEPT ![rd] = <<Mock, r, k>>]
          /\ rowsWereClosed' = rowsWereClosed
      BY <1>7, <2>2 DEF NextRow, invalidateRaw, Filled, Dest
    <3>2. /\ raw' \in [Readers -> SUBSET Addresses] /\ raw'[rd] = {}
          /\ \A q \in Readers \ {rd} : raw'[q] = raw[q]
      BY <1>4, <3>1
    <3>3. /\ current' \in [Readers -> Addresses \cup {NoRow}]
          /\ current'[rd] = <<Mock, r, k>>
          /\ \A q \in Readers \ {rd} : current'[q] = current[q]
      BY <1>4, <1>5, <3>1
    <3> QED
      BY <1>2, <1>4, <2>2, <3>1, <3>2, <3>3 DEF Moved
  <2> QED
    BY <2>1, <2>2
<1>8. ASSUME NextFails(rd, r, k) PROVE Moved(rd, r, k)
  <2>1. Filled(rd, r, k) \subseteq {<<rd, r, k>>}
    BY DEF Filled, rawBytes
  <2> QED
    BY <1>6, <1>8, <2>1 DEF NextFails
<1>9. ASSUME NextEnds(rd, r, k) PROVE Moved(rd, r, k)
  BY <1>6, <1>9 DEF NextEnds, invalidateRaw, HasNextResultSet
<1> QED
  BY <1>1, <1>2, <1>7, <1>8, <1>9 DEF Advance, NextRow, NextFails, NextEnds

-----------------------------------------------------------------------------
(***************************************************************************)
(* Every action preserves the invariant.                                   *)
(***************************************************************************)
LEMMA NextOfInv == ASSUME Inv, NEW rd \in Readers, NextOf(rd) PROVE Inv'
<1> DEFINE r == Set(rd)
           k == pos[r] + 1
<1>1. /\ r \in RowsIds /\ k \in Nat /\ NumRows[r] \in Nat
      /\ pos' = [pos EXCEPT ![r] = k]
      /\ cur' = cur /\ held' = held
      /\ Moved(rd, r, k)
      /\ \/ k <= NumRows[r] /\ taken' = taken \cup {<<rd, r, k>>} /\ eof' = eof
         \/ k > NumRows[r] /\ taken' = taken /\ eof' = eof \cup {<<rd, r>>}
  BY NextMoves
<1>2. k = pos[r] + 1 /\ pos \in [RowsIds -> Nat]
  BY DEF Inv, TypeOK
<1> HIDE DEF r, k
<1>3. /\ pos' \in [RowsIds -> Nat]
      /\ \A s \in RowsIds : pos[s] <= pos'[s]
      /\ pos'[r] = k /\ \A s \in RowsIds \ {r} : pos'[s] = pos[s]
  BY <1>1, <1>2
<1>4. TypeOK'
  <2>1. <<rd, r, k>> \in Addresses
    BY <1>1 DEF Addresses
  <2>2. overwritten' \subseteq Addresses
    BY <1>1, <2>1 DEF Moved, Inv, TypeOK
  <2>3. taken' \subseteq Readers \X RowsIds \X Nat /\ eof' \subseteq Readers \X RowsIds
    BY <1>1 DEF Inv, TypeOK
  <2> QED
    BY <1>1, <1>3, <2>2, <2>3 DEF Moved, Inv, TypeOK
<1>5. CopyInv'
  <2>1. ASSUME NEW a \in overwritten' PROVE a[1] # Mock /\ a[3] <= pos'[a[2]]
    <3>1. CASE a = <<rd, r, k>>
      BY <1>3, <1>1, <3>1, RowSetsAssumption
    <3>2. CASE a \in overwritten \cup raw[rd]
      <4>1. a \in Addresses /\ a[1] # Mock /\ a[3] <= pos[a[2]]
        BY <3>2, RowSetsAssumption DEF Inv, TypeOK, CopyInv
      <4> QED
        BY <1>2, <1>3, <4>1 DEF Addresses
    <3> QED
      BY <1>1, <3>1, <3>2 DEF Moved
  <2>2. ASSUME NEW q \in Readers, NEW a \in raw'[q]
        PROVE  a[1] = q /\ a[3] <= pos'[a[2]] /\ a \notin overwritten'
    <3>1. CASE q = rd
      BY <1>1, <1>3, <2>2, <3>1 DEF Moved
    <3>2. CASE q # rd
      <4>1. a \in raw[q] /\ a \in Addresses /\ a[1] = q /\ a[3] <= pos[a[2]] /\ a \notin overwritten
        BY <1>1, <2>2, <3>2 DEF Moved, Inv, TypeOK, CopyInv
      <4>2. a \notin raw[rd] /\ a # <<rd, r, k>>
        BY <3>2, <4>1 DEF Inv, CopyInv
      <4>3. a[3] <= pos'[a[2]]
        BY <1>2, <1>3, <4>1 DEF Addresses
      <4> QED
        BY <1>1, <4>1, <4>2, <4>3 DEF Moved
    <3> QED
      BY <3>1, <3>2
  <2> QED
    BY <2>1, <2>2 DEF CopyInv
<1>6. CurrentInv'
  <2> SUFFICES ASSUME NEW q \in Readers, current'[q] # NoRow
               PROVE  /\ ~rowsWereClosed'[q]
                      /\ \/ current'[q] \in raw'[q]
                         \/ /\ current'[q][1] = Mock
                            /\ <<current'[q][2], current'[q][3]>> \notin RawRows
    BY DEF CurrentInv
  <2>1. CASE q = rd
    BY <1>1, <2>1 DEF Moved
  <2>2. CASE q # rd
    BY <1>1, <2>2 DEF Moved, Inv, CurrentInv
  <2> QED
    BY <2>1, <2>2
<1>7. HeldInv'
  <2> SUFFICES ASSUME NEW q \in Readers
               PROVE  /\ held'[q] \subseteq overwritten' \cup raw'[q]
                      /\ rowsWereClosed'[q] => raw'[q] = {}
    BY DEF HeldInv
  <2>1. CASE q = rd
    BY <1>1, <2>1 DEF Moved, Inv, HeldInv
  <2>2. CASE q # rd
    BY <1>1, <2>2 DEF Moved, Inv, HeldInv
  <2> QED
    BY <2>1, <2>2
<1>8. TakenInv'
  <2>1. \A t \in taken : t[2] \in RowsIds /\ t[3] \in Nat /\ t[3] <= pos[t[2]]
    BY DEF Inv, TypeOK, TakenInv
  <2>2. ASSUME NEW t \in taken' PROVE t[3] <= pos'[t[2]]
    <3>1. CASE t \in taken
      BY <1>2, <1>3, <2>1, <3>1
    <3>2. CASE t = <<rd, r, k>>
      BY <1>1, <1>3, <3>2
    <3> QED
      BY <1>1, <3>1, <3>2
  <2>3. ASSUME NEW t \in taken', NEW u \in taken', t[2] = u[2], t[3] = u[3] PROVE t = u
    <3>1. ASSUME NEW v \in taken PROVE ~(v[2] = r /\ v[3] = k)
      BY <1>1, <1>2, <2>1, <3>1
    <3> QED
      BY <1>1, <2>3, <3>1 DEF Inv, TakenInv
  <2>4. ASSUME NEW s \in RowsIds, NEW i \in 1..NumRows[s], i <= pos'[s]
        PROVE  \E q \in Readers : <<q, s, i>> \in taken'
    <3>1. CASE i <= pos[s]
      BY <1>1, <2>4, <3>1 DEF Inv, TakenInv
    <3>2. CASE ~(i <= pos[s])
      <4>1. s = r /\ i = k
        BY <1>1, <1>2, <1>3, <2>4, <3>2, RowSetsAssumption
      <4> QED
        BY <1>1, <4>1
    <3> QED
      BY <3>1, <3>2
  <2>5. ASSUME NEW e \in eof' PROVE pos'[e[2]] > NumRows[e[2]]
    <3>1. CASE e \in eof
      <4>1. e[2] \in RowsIds /\ pos[e[2]] > NumRows[e[2]]
        BY <3>1 DEF Inv, TypeOK, TakenInv
      <4>2. NumRows[e[2]] \in Nat /\ pos[e[2]] \in Nat /\ pos'[e[2]] \in Nat
        BY <4>1, <1>2, <1>3, RowSetsAssumption
      <4> QED
        BY <1>3, <4>1, <4>2
    <3>2. CASE e \notin eof
      BY <1>1, <1>3, <2>5, <3>2
    <3> QED
      BY <3>1, <3>2
  <2> QED
    BY <2>2, <2>3, <2>4, <2>5 DEF TakenInv
<1> QED
  BY <1>4, <1>5, <1>6, <1>7, <1>8 DEF Inv

\* A reader is closed or goes on to its next set; no row is read.
LEMMA OtherInv ==
  ASSUME Inv, NEW rd \in Readers, NextResultSet(rd) \/ Close(rd)
  PROVE  Inv'
<1>1. /\ UNCHANGED <<pos, held, taken, eof>>
      /\ current' = [current EXCEPT ![rd] = NoRow]
  BY DEF NextResultSet, Close
<1>2. TypeOK'
  <2>1. CASE HasNextResultSet(rd) /\ cur' = [cur EXCEPT ![rd] = @ + 1]
             /\ UNCHANGED <<raw, overwritten, rowsWereClosed>>
    <3>1. cur \in [Readers -> Nat] /\ \A q \in Readers : cur[q] \in 1..Len(SetsOf[q])
      BY DEF Inv, TypeOK
    <3>2. \A q \in Readers : Len(SetsOf[q]) \in Nat
      BY RowSetsAssumption
    <3>3. cur' \in [Readers -> Nat] /\ \A q \in Readers : cur'[q] \in 1..Len(SetsOf[q])
      BY <2>1, <3>1, <3>2 DEF HasNextResultSet
    <3> QED
      BY <1>1, <2>1, <3>3 DEF Inv, TypeOK
  <2>2. CASE invalidateRaw(rd, {}) /\ cur' = cur
             /\ rowsWereClosed' = [rowsWereClosed EXCEPT ![rd] = TRUE]
    BY <1>1, <2>2 DEF invalidateRaw, Inv, TypeOK
  <2> QED
    BY <2>1, <2>2 DEF NextResultSet, Close
<1>3. \/ UNCHANGED <<raw, overwritten, rowsWereClosed>>
      \/ /\ overwritten' = overwritten \cup raw[rd]
         /\ raw' = [raw EXCEPT ![rd] = {}]
         /\ rowsWereClosed' = [rowsWereClosed EXCEPT ![rd] = TRUE]
  BY DEF NextResultSet, Close, invalidateRaw
<1>4. /\ raw \in [Readers -> SUBSET Addresses]
      /\ rowsWereClosed \in [Readers -> BOOLEAN]
      /\ current \in [Readers -> Addresses \cup {NoRow}]
  BY DEF Inv, TypeOK
<1>5. CopyInv'
  <2>1. CASE UNCHANGED <<raw, overwritten, rowsWereClosed>>
    BY <1>1, <2>1 DEF Inv, CopyInv
  <2>2. CASE /\ overwritten' = overwritten \cup raw[rd]
             /\ raw' = [raw EXCEPT ![rd] = {}]
    <3>1. \A a \in overwritten' : a[1] # Mock /\ a[3] <= pos'[a[2]]
      BY <1>1, <2>2, RowSetsAssumption DEF Inv, CopyInv
    <3>2. ASSUME NEW q \in Readers, NEW a \in raw'[q]
          PROVE  a[1] = q /\ a[3] <= pos'[a[2]] /\ a \notin overwritten'
      <4>1. q # rd /\ a \in raw[q]
        BY <1>4, <2>2, <3>2
      <4>2. a[1] = q /\ a[3] <= pos[a[2]] /\ a \notin overwritten /\ a \notin raw[rd]
        BY <4>1 DEF Inv, CopyInv
      <4> QED
        BY <1>1, <2>2, <4>2
    <3> QED
      BY <3>1, <3>2 DEF CopyInv
  <2> QED
    BY <1>3, <2>1, <2>2
<1>6. CurrentInv'
  BY <1>1, <1>3, <1>4 DEF Inv, CurrentInv
<1>7. HeldInv'
  BY <1>1, <1>3, <1>4 DEF Inv, HeldInv
<1>8. TakenInv'
  BY <1>1 DEF Inv, TakenInv
<1> QED
  BY <1>2, <1>5, <1>6, <1>7, <1>8 DEF Inv

LEMMA ScanInv == ASSUME Inv, NEW rd \in Readers, ScanRaw(rd) PROVE Inv'
<1>1. /\ UNCHANGED <<pos, cur, raw, overwritten, rowsWereClosed, current, taken, eof>>
      /\ held' = [held EXCEPT ![rd] = @ \cup {current[rd]}]
      /\ held \in [Readers -> SUBSET Addresses]
  BY DEF ScanRaw, Inv, TypeOK
<1>2. current[rd] \in raw[rd]
  BY DEF ScanRaw, Inv, CurrentInv
<1>3. TypeOK'
  <2>1. current[rd] \in Addresses
    BY <1>2 DEF Inv, TypeOK
  <2> QED
    BY <1>1, <2>1 DEF Inv, TypeOK
<1>4. CopyInv' /\ CurrentInv' /\ TakenInv'
  BY <1>1 DEF Inv, CopyInv, CurrentInv, TakenInv
<1>5. HeldInv'
  BY <1>1, <1>2 DEF Inv, HeldInv
<1> QED
  BY <1>3, <1>4, <1>5 DEF Inv

LEMMA AlwaysInv == Spec => []Inv
<1>1. Init => Inv
  BY InitInv
<1>2. Inv /\ [Next]_vars => Inv'
  <2> SUFFICES ASSUME Inv, [Next]_vars PROVE Inv'
    OBVIOUS
  <2>1. CASE UNCHANGED vars
    BY <2>1 DEF vars, Inv, TypeOK, CopyInv, CurrentInv, HeldInv, TakenInv
  <2>2. CASE Next
    BY <2>2, NextOfInv, OtherInv, ScanInv DEF Next
  <2> QED
    BY <2>1, <2>2
<1> QED
  BY <1>1, <1>2, PTL DEF Spec

-----------------------------------------------------------------------------
(***************************************************************************)
(* Every variable keeps its type: no reader leaves its result sets.        *)
(***************************************************************************)
THEOREM TypeCorrect == Spec => []TypeOK
<1>1. Inv => TypeOK
  BY DEF Inv
<1> QED
  BY <1>1, AlwaysInv, PTL

(***************************************************************************)
(* The data a test has put into Rows is never overwritten.                 *)
(***************************************************************************)
THEOREM MockedDataIntactAlways == Spec => []MockedDataIntact
<1>1. Inv => MockedDataIntact
  BY DEF Inv, CopyInv, MockedDataIntact
<1> QED
  BY <1>1, AlwaysInv, PTL

(***************************************************************************)
(* The row a reader is on stays valid until that reader moves, however     *)
(* many readers there are and however they share their Rows.               *)
(***************************************************************************)
THEOREM CurrentRowIsValidAlways == Spec => []CurrentRowIsValid
<1>1. Inv => CurrentRowIsValid
  <2> SUFFICES ASSUME Inv, NEW rd \in Readers, current[rd] # NoRow
               PROVE  ~rowsWereClosed[rd] /\ current[rd] \notin overwritten
    BY DEF CurrentRowIsValid
  <2>1. \A a \in raw[rd] : a \notin overwritten
    BY DEF Inv, CopyInv
  <2>2. \A a \in overwritten : a[1] # Mock
    BY DEF Inv, CopyInv
  <2> QED
    BY <2>1, <2>2 DEF Inv, CurrentInv
<1> QED
  BY <1>1, AlwaysInv, PTL

(***************************************************************************)
(* Every Next and every way to close the rows overwrites all bytes the     *)
(* program still holds of earlier rows.                                    *)
(***************************************************************************)
THEOREM RawBytesExpireAlways == Spec => RawBytesExpire
<1>1. Inv /\ Inv' /\ [Next]_vars =>
        [\A rd \in Readers :
           NextOf(rd) \/ rowsWereClosed'[rd] => held[rd] \subseteq overwritten']_vars
  <2> SUFFICES ASSUME Inv, Inv', Next, NEW rd \in Readers,
                      NextOf(rd) \/ rowsWereClosed'[rd]
               PROVE  held[rd] \subseteq overwritten'
    OBVIOUS
  <2>1. held[rd] \subseteq overwritten \cup raw[rd]
    BY DEF Inv, HeldInv
  <2>2. CASE NextOf(rd)
    <3>1. Moved(rd, Set(rd), pos[Set(rd)] + 1)
      BY <2>2, NextMoves
    <3> QED
      BY <2>1, <3>1 DEF Moved
  <2>3. CASE rowsWereClosed'[rd]
    <3>1. held'[rd] \subseteq overwritten'
      BY <2>3 DEF Inv, HeldInv
    <3>2. held[rd] \subseteq held'[rd]
      <4>1. ASSUME NEW q \in Readers, ScanRaw(q) PROVE held[rd] \subseteq held'[rd]
        BY <4>1 DEF ScanRaw, Inv, TypeOK
      <4>2. ASSUME NEW q \in Readers, NextOf(q) \/ NextResultSet(q) \/ Close(q)
            PROVE  held' = held
        BY <4>2 DEF NextOf, NextResultSet, Close
      <4> QED
        BY <4>1, <4>2 DEF Next
    <3> QED
      BY <3>1, <3>2
  <2> QED
    BY <2>2, <2>3
<1> QED
  BY <1>1, AlwaysInv, PTL DEF Spec, RawBytesExpire

(***************************************************************************)
(* No row is given away twice, and Rows end only when every row was given  *)
(* to some reader.                                                         *)
(***************************************************************************)
THEOREM NoRowIsLostAlways == Spec => []NoRowIsLost
<1>1. Inv => NoRowIsLost
  <2> SUFFICES ASSUME Inv, NEW e \in eof, NEW k \in 1..NumRows[e[2]]
               PROVE  \E rd \in Readers : <<rd, e[2], k>> \in taken
    BY DEF NoRowIsLost, Inv, TakenInv
  <2>1. e[2] \in RowsIds /\ pos[e[2]] > NumRows[e[2]]
    BY DEF Inv, TypeOK, TakenInv
  <2>2. pos[e[2]] \in Nat /\ NumRows[e[2]] \in Nat
    BY <2>1, RowSetsAssumption DEF Inv, TypeOK
  <2>3. k <= pos[e[2]]
    BY <2>1, <2>2
  <2> QED
    BY <2>1, <2>3 DEF Inv, TakenInv
<1> QED
  BY <1>1, AlwaysInv, PTL
=============================================================================

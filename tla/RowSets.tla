------------------------------ MODULE RowSets ------------------------------
(***************************************************************************)
(* The rows of query expectations as they are read through database/sql.   *)
(*                                                                         *)
(* A reader is the rowSets value of one ExpectedQuery together with the    *)
(* sql.Rows on top of it.  It goes through one or more Rows, and the test  *)
(* may give the same Rows to several expectations or twice to one; the     *)
(* cursor is a field of Rows and hence shared.  Columns of type []byte are *)
(* handed out as copies, which the mock overwrites when the reader moves   *)
(* on, so that a misuse of sql.RawBytes shows.                             *)
(*                                                                         *)
(* Memory: the bytes of row k of r are at address <<Mock, r, k>> in the    *)
(* test's own data and at <<rd, r, k>> in the copy made for reader rd.     *)
(*                                                                         *)
(* database/sql is external: sql.Rows closes the driver's rows by itself   *)
(* after an error and at the end of the last result set, never uses them   *)
(* afterwards, and serializes the calls of one reader.  Readers that share *)
(* a Rows are not used at the same time: the cursor has no lock.           *)
(***************************************************************************)
EXTENDS Naturals, Sequences

CONSTANTS
  Readers,
  Mock,         \* owner of the data the test has set
  NoRow,
  RowsIds,      \* the Rows of the test
  NumRows,      \* rows added to each Rows
  SetsOf,       \* sequence of Rows given to WillReturnRows for each reader
  RawRows,      \* <<r, k>> where row k of r has a non-empty []byte column
  RowErrors,    \* <<r, k>> where RowError was set for row k of r
  MaxPastEnd    \* bound on calls of Next on a Rows after its end

ASSUME RowSetsAssumption ==
  /\ Mock \notin Readers
  /\ NumRows \in [RowsIds -> Nat]
  /\ SetsOf \in [Readers -> Seq(RowsIds)]
  /\ \A rd \in Readers : Len(SetsOf[rd]) > 0
  /\ MaxPastEnd \in Nat
  /\ NoRow \notin (Readers \cup {Mock}) \X RowsIds \X Nat

VARIABLES
  pos,            \* the cursor of each Rows
  cur,            \* rowSets.pos, counted from one
  raw,            \* rowSets.raw: addresses handed out since the last move
  overwritten,    \* addresses whose content invalidateRaw has replaced
  rowsWereClosed, \* of the expectation; sql.Rows.closed coincides with it
  current,        \* external: address of the row the reader is on
  held,           \* external: addresses the program keeps in sql.RawBytes
  taken,          \* history: <<rd, r, k>>, reader rd got row k of r
  eof             \* history: <<rd, r>>, reader rd was told that r has ended

vars == <<pos, cur, raw, overwritten, rowsWereClosed, current, held, taken, eof>>

Addresses == (Readers \cup {Mock}) \X RowsIds \X Nat

TypeOK ==
  /\ pos \in [RowsIds -> Nat]
  /\ cur \in [Readers -> Nat]
  /\ \A rd \in Readers : cur[rd] \in 1..Len(SetsOf[rd])
  /\ raw \in [Readers -> SUBSET Addresses]
  /\ overwritten \subseteq Addresses
  /\ rowsWereClosed \in [Readers -> BOOLEAN]
  /\ current \in [Readers -> Addresses \cup {NoRow}]
  /\ held \in [Readers -> SUBSET Addresses]
  /\ taken \subseteq Readers \X RowsIds \X Nat
  /\ eof \subseteq Readers \X RowsIds

Init ==
  /\ pos = [r \in RowsIds |-> 0]
  /\ cur = [rd \in Readers |-> 1]
  /\ raw = [rd \in Readers |-> {}]
  /\ overwritten = {}
  /\ rowsWereClosed = [rd \in Readers |-> FALSE]
  /\ current = [rd \in Readers |-> NoRow]
  /\ held = [rd \in Readers |-> {}]
  /\ taken = {} /\ eof = {}

-----------------------------------------------------------------------------
Set(rd) == SetsOf[rd][cur[rd]]

\* Mutant of HasNextResultSet: one too many.
HasOneTooMany(rd) == cur[rd] <= Len(SetsOf[rd])

HasNextResultSet(rd) == cur[rd] + 1 <= Len(SetsOf[rd])

\* Mutant of rawBytes: the mocked bytes themselves are handed out.
rawBytesAliased(rd, r, k) == <<Mock, r, k>>

\* rawBytes: a copy of the mocked bytes.
rawBytes(rd, r, k) == <<rd, r, k>>

\* What the loop of rowSets.Next puts in dest and appends to rs.raw.
Dest(rd, r, k)   == IF <<r, k>> \in RawRows THEN rawBytes(rd, r, k) ELSE <<Mock, r, k>>
Filled(rd, r, k) == IF <<r, k>> \in RawRows THEN {rawBytes(rd, r, k)} ELSE {}

\* Mutant of invalidateRaw: the slices are forgotten, not overwritten.
invalidateRawNever(rd, new) ==
  /\ overwritten' = overwritten
  /\ raw' = [raw EXCEPT ![rd] = new]

\* invalidateRaw, and the slices that are handed out after it.
invalidateRaw(rd, new) ==
  /\ overwritten' = overwritten \cup raw[rd]
  /\ raw' = [raw EXCEPT ![rd] = new]

\* Mutant of NextRow: invalidateRaw comes after the row was filled in.
NextRowLateInvalidate(rd, r, k) ==
  /\ k <= NumRows[r] /\ <<r, k>> \notin RowErrors
  /\ overwritten' = overwritten \cup raw[rd] \cup Filled(rd, r, k)
  /\ raw' = [raw EXCEPT ![rd] = {}]
  /\ current' = [current EXCEPT ![rd] = Dest(rd, r, k)]
  /\ taken' = taken \cup {<<rd, r, k>>}
  /\ UNCHANGED <<rowsWereClosed, eof>>

\* rowSets.Next finds a row.
NextRow(rd, r, k) ==
  /\ k <= NumRows[r] /\ <<r, k>> \notin RowErrors
  /\ invalidateRaw(rd, Filled(rd, r, k))
  /\ current' = [current EXCEPT ![rd] = Dest(rd, r, k)]
  /\ taken' = taken \cup {<<rd, r, k>>}
  /\ UNCHANGED <<rowsWereClosed, eof>>

(***************************************************************************)
(* rowSets.Next fills in the row and returns its error, whereupon sql.Rows *)
(* calls rowSets.Close: what was filled in is overwritten as well.         *)
(***************************************************************************)
NextFails(rd, r, k) ==
  /\ k <= NumRows[r] /\ <<r, k>> \in RowErrors
  /\ overwritten' = overwritten \cup raw[rd] \cup Filled(rd, r, k)
  /\ raw' = [raw EXCEPT ![rd] = {}]
  /\ current' = [current EXCEPT ![rd] = NoRow]
  /\ rowsWereClosed' = [rowsWereClosed EXCEPT ![rd] = TRUE]
  /\ taken' = taken \cup {<<rd, r, k>>}
  /\ UNCHANGED eof

\* Mutant of NextEnds: the last row is missed.
NextEndsEarly(rd, r, k) ==
  /\ k >= NumRows[r]
  /\ invalidateRaw(rd, {})
  /\ current' = [current EXCEPT ![rd] = NoRow]
  /\ rowsWereClosed' = [rowsWereClosed EXCEPT ![rd] = ~HasNextResultSet(rd)]
  /\ eof' = eof \cup {<<rd, r>>}
  /\ UNCHANGED taken

\* rowSets.Next returns io.EOF; sql.Rows closes unless another set follows.
NextEnds(rd, r, k) ==
  /\ k > NumRows[r]
  /\ invalidateRaw(rd, {})
  /\ current' = [current EXCEPT ![rd] = NoRow]
  /\ rowsWereClosed' = [rowsWereClosed EXCEPT ![rd] = ~HasNextResultSet(rd)]
  /\ eof' = eof \cup {<<rd, r>>}
  /\ UNCHANGED taken

\* r.pos is advanced in any case.
Advance(rd, r, k) ==
  /\ pos' = [pos EXCEPT ![r] = k]
  /\ NextRow(rd, r, k) \/ NextFails(rd, r, k) \/ NextEnds(rd, r, k)

\* sql.Rows.Next
NextOf(rd) ==
  LET r == Set(rd) IN
  /\ ~rowsWereClosed[rd]
  /\ pos[r] < NumRows[r] + MaxPastEnd
  /\ Advance(rd, r, pos[r] + 1)
  /\ UNCHANGED <<cur, held>>

\* sql.Rows.NextResultSet; without a further set it closes.
NextResultSet(rd) ==
  /\ ~rowsWereClosed[rd]
  /\ current' = [current EXCEPT ![rd] = NoRow]
  /\ \/ /\ HasNextResultSet(rd)
        /\ cur' = [cur EXCEPT ![rd] = @ + 1]
        /\ UNCHANGED <<raw, overwritten, rowsWereClosed>>
     \/ /\ ~HasNextResultSet(rd)
        /\ invalidateRaw(rd, {})
        /\ rowsWereClosed' = [rowsWereClosed EXCEPT ![rd] = TRUE]
        /\ UNCHANGED cur
  /\ UNCHANGED <<pos, held, taken, eof>>

\* rowSets.Close, called by sql.Rows.Close.
Close(rd) ==
  /\ ~rowsWereClosed[rd]
  /\ invalidateRaw(rd, {})
  /\ rowsWereClosed' = [rowsWereClosed EXCEPT ![rd] = TRUE]
  /\ current' = [current EXCEPT ![rd] = NoRow]
  /\ UNCHANGED <<pos, cur, held, taken, eof>>

\* External: Scan into sql.RawBytes refers to the driver's bytes.
ScanRaw(rd) ==
  /\ current[rd] # NoRow
  /\ <<current[rd][2], current[rd][3]>> \in RawRows
  /\ held' = [held EXCEPT ![rd] = @ \cup {current[rd]}]
  /\ UNCHANGED <<pos, cur, raw, overwritten, rowsWereClosed, current, taken, eof>>

Next == \E rd \in Readers : NextOf(rd) \/ NextResultSet(rd) \/ Close(rd) \/ ScanRaw(rd)

Spec == Init /\ [][Next]_vars

-----------------------------------------------------------------------------
(***************************************************************************)
(* Properties.                                                             *)
(***************************************************************************)

(***************************************************************************)
(* What invalidateRaw overwrites are copies: the data a test has put into  *)
(* Rows with AddRow stays intact, whoever reads it.                        *)
(***************************************************************************)
MockedDataIntact == \A a \in overwritten : a[1] # Mock

(***************************************************************************)
(* The row a reader is on is valid until that reader moves, whatever other *)
(* readers do, also those that go through the same Rows.                   *)
(***************************************************************************)
CurrentRowIsValid ==
  \A rd \in Readers : current[rd] # NoRow =>
    /\ ~rowsWereClosed[rd]
    /\ current[rd] \notin overwritten

(***************************************************************************)
(* "Bytes that could have been scanned as sql.RawBytes are only valid      *)
(* until the next call to Next, Scan or Close" (Scan does not reach the    *)
(* driver): after a Next, and when the rows are closed by whatever call,   *)
(* everything the program still holds of earlier rows is overwritten.      *)
(***************************************************************************)
RawBytesExpire ==
  [][\A rd \in Readers :
       NextOf(rd) \/ rowsWereClosed'[rd] => held[rd] \subseteq overwritten']_vars

(***************************************************************************)
(* No row is given to two readers of the same Rows, and a reader is told   *)
(* that a Rows has ended only when each of its rows was given to somebody. *)
(***************************************************************************)
NoRowIsLost ==
  /\ \A t, u \in taken : t[2] = u[2] /\ t[3] = u[3] => t = u
  /\ \A e \in eof : \A k \in 1..NumRows[e[2]] :
       \E rd \in Readers : <<rd, e[2], k>> \in taken
=============================================================================

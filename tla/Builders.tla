------------------------------ MODULE Builders ------------------------------
(***************************************************************************)
(* What a test sets up before the program runs: the queue of expectations, *)
(* their settings, and the Rows that queries will return.                  *)
(*                                                                         *)
(* A test may call the builders in any order, keep the pointer of every    *)
(* expectation and of every Rows, and go on after a builder has panicked   *)
(* (tests recover such panics), so the state after a panic counts.         *)
(*                                                                         *)
(* Delays are left out: module Matching has every call wait.  The values a *)
(* test gives are taken from small sets; what a value converter makes of   *)
(* them is ConvertValue.  Package encoding/csv is external: a CSV text is  *)
(* the sequence of its records, each a sequence of fields.                 *)
(***************************************************************************)
EXTENDS ValueChecking, QueryText

CONSTANTS
  Texts,         \* SQL texts of expectations
  CallTexts,     \* SQL texts of a program's calls
  ArgLists,      \* lists a test gives to WithArgs
  CallLists,     \* lists of arguments a program passes
  TxOptions,     \* what a test gives to WithTxOptions
  NoOpts,
  RowsIds,       \* the Rows of the test,
  NilRows,       \*   and a nil *Rows
  Cols,          \* the number of columns of each Rows
  Defined,       \* the Rows made by NewRowsWithColumnDefinition
  ValueLists,    \* lists a test gives to AddRow
  CsvTexts,      \* texts a test gives to FromCSVString
  FieldValue,    \* what CSVColumnParser makes of a trimmed field
  Null,          \* the value nil
  SetLists,      \* lists of Rows a test gives to WillReturnRows
  MaxExpected,   \* bound on the length of c.expected
  MaxRows,       \* bound on the rows of a Rows
  MaxCalls       \* bound on the number of calls of builders

ASSUME BuildersAssumption ==
  /\ Defined \subseteq RowsIds /\ NilRows \notin RowsIds
  /\ Cols \in [RowsIds -> Nat]
  /\ \A list \in ArgLists : \A k \in 1..Len(list) : list[k].t \in {"matcher", "named", "plain"}
  /\ CallLists \subseteq Seq([name : STRING, value : Outs \cup DOMAIN ConvertValue])
  /\ SetLists \subseteq Seq(RowsIds \cup {NilRows})
  /\ ValueLists \subseteq Seq(DOMAIN ConvertValue)
  /\ CsvTexts \subseteq Seq(Seq(DOMAIN FieldValue))
  /\ Texts \cup CallTexts \subseteq Seq(Letters)
  /\ MaxExpected \in Nat /\ MaxRows \in Nat /\ MaxCalls \in Nat

VARIABLES
  expected,  \* c.expected
  monitorPings, \* c.monitorPings, what MonitorPingsOption has set
  rows,      \* the rows of each Rows
  panicked,  \* the last call of a builder has panicked
  calls,     \* how many builders were called
  asked      \* history: for each expectation the text the test gave for it,
             \* whether WithoutArgs has returned, and the last list WithArgs
             \* has returned for (a set: empty if none, or if it was nil)

vars == <<expected, monitorPings, rows, panicked, calls, asked>>

Kinds     == {"Close", "Begin", "Commit", "Rollback", "Ping", "Prepare", "Query", "Exec"}
HasSql    == {"Prepare", "Query", "Exec"}
HasArgs   == {"Query", "Exec"}
NoText    == <<>>
RowValues ==
  ({ConvertValue[w] : w \in DOMAIN ConvertValue} \ Failures)
    \cup {FieldValue[f] : f \in DOMAIN FieldValue} \cup {Null}

Expectation ==
  [ kind : Kinds, sql : Texts \cup {NoText}, err : BOOLEAN, must : BOOLEAN,
    withArgs : BOOLEAN, args : ArgLists \cup {<<>>}, noArgs : BOOLEAN,
    opts : TxOptions \cup {NoOpts}, closeErr : BOOLEAN,
    resp : BOOLEAN, sets : SetLists \cup {<<>>}, defs : BOOLEAN ]

Asked == [text : Texts \cup {NoText}, strict : BOOLEAN, wanted : SUBSET ArgLists]

TypeOK ==
  /\ expected \in Seq(Expectation)
  /\ asked \in Seq(Asked)
  /\ Len(asked) = Len(expected)
  /\ rows \in [RowsIds -> Seq(Seq(RowValues))]
  /\ monitorPings \in BOOLEAN
  /\ panicked \in BOOLEAN
  /\ calls \in Nat

Init ==
  /\ expected = <<>> /\ asked = <<>>
  /\ monitorPings \in BOOLEAN
  /\ rows = [r \in RowsIds |-> <<>>]
  /\ panicked = FALSE /\ calls = 0

\* A builder is called, and panics if p.
Call(p) ==
  /\ calls < MaxCalls
  /\ calls' = calls + 1
  /\ panicked' = p
  /\ UNCHANGED monitorPings

-----------------------------------------------------------------------------
(***************************************************************************)
(* Adding expectations to the end of the queue.                            *)
(***************************************************************************)

New(kind, sql) ==
  [ kind |-> kind, sql |-> sql, err |-> FALSE, must |-> FALSE,
    withArgs |-> FALSE, args |-> <<>>, noArgs |-> FALSE, opts |-> NoOpts,
    closeErr |-> FALSE, resp |-> FALSE, sets |-> <<>>, defs |-> FALSE ]

\* A new expectation; text is what the test has asked for.
Push(kind, sql, text) ==
  /\ Len(expected) < MaxExpected
  /\ expected' = Append(expected, New(kind, sql))
  /\ asked' = Append(asked, [text |-> text, strict |-> FALSE, wanted |-> {}])
  /\ Call(FALSE)
  /\ UNCHANGED rows

ExpectClose        == Push("Close", NoText, NoText)
ExpectBegin        == Push("Begin", NoText, NoText)
ExpectCommit       == Push("Commit", NoText, NoText)
ExpectRollback     == Push("Rollback", NoText, NoText)
ExpectPrepare(sql) == Push("Prepare", sql, sql)
ExpectQuery(sql)   == Push("Query", sql, sql)
ExpectExec(sql)    == Push("Exec", sql, sql)

(***************************************************************************)
(* Unless pings are monitored, ExpectPing returns a nil pointer, which the *)
(* setting chained to it dereferences.                                     *)
(***************************************************************************)
ExpectPing(chained) ==
  \/ monitorPings /\ Push("Ping", NoText, NoText)
  \/ /\ ~monitorPings
     /\ Call(chained)
     /\ UNCHANGED <<expected, asked, rows>>

\* ExpectQuery and ExpectExec of ExpectedPrepare.
ExpectOnPrepared(p, kind) ==
  /\ expected[p].kind = "Prepare"
  /\ Push(kind, expected[p].sql, asked[p].text)

-----------------------------------------------------------------------------
(***************************************************************************)
(* Settings that cannot fail: what a method of an expectation e may make   *)
(* of it, for each type of expectation.                                    *)
(***************************************************************************)
WillReturnError(e) == {[e EXCEPT !.err = b] : b \in BOOLEAN}
WillBeClosed(e)    == {[e EXCEPT !.must = TRUE]}

ExpectedClose(e)    == WillReturnError(e)
ExpectedBegin(e)    == WillReturnError(e) \cup {[e EXCEPT !.opts = o] : o \in TxOptions}
ExpectedCommit(e)   == WillReturnError(e)
ExpectedRollback(e) == WillReturnError(e)
ExpectedPing(e)     == WillReturnError(e)
ExpectedQuery(e)    == WillReturnError(e) \cup WillBeClosed(e)
ExpectedExec(e)     == WillReturnError(e) \cup {[e EXCEPT !.resp = b] : b \in BOOLEAN}
ExpectedPrepare(e)  == WillReturnError(e) \cup WillBeClosed(e)
                         \cup {[e EXCEPT !.closeErr = b] : b \in BOOLEAN}

Settings(e) ==
  CASE e.kind = "Close"    -> ExpectedClose(e)
    [] e.kind = "Begin"    -> ExpectedBegin(e)
    [] e.kind = "Commit"   -> ExpectedCommit(e)
    [] e.kind = "Rollback" -> ExpectedRollback(e)
    [] e.kind = "Ping"     -> ExpectedPing(e)
    [] e.kind = "Query"    -> ExpectedQuery(e)
    [] e.kind = "Exec"     -> ExpectedExec(e)
    [] e.kind = "Prepare"  -> ExpectedPrepare(e)

Replace(i, e) == expected' = [expected EXCEPT ![i] = e] /\ Call(FALSE)

Setting(i) ==
  /\ \E e \in Settings(expected[i]) : Replace(i, e)
  /\ UNCHANGED <<asked, rows>>

(***************************************************************************)
(* WillReturnRows: column definitions are offered if there are Rows and    *)
(* none of them is nil or lacks a definition.                              *)
(***************************************************************************)
WillReturnRows(i, list) ==
  /\ expected[i].kind = "Query"
  /\ Replace(i, [expected[i] EXCEPT !.resp = TRUE, !.sets = list,
       !.defs = Len(list) > 0 /\ \A s \in 1..Len(list) : list[s] \in Defined])
  /\ UNCHANGED <<asked, rows>>

-----------------------------------------------------------------------------
(***************************************************************************)
(* WithArgs and WithoutArgs, of which the second one called panics.  The   *)
(* list of WithArgs is a nil slice when it is called without arguments.    *)
(***************************************************************************)

Refused == Call(TRUE) /\ UNCHANGED <<expected, rows, asked>>

Given == {[nil |-> TRUE, list |-> <<>>]} \cup [nil : {FALSE}, list : ArgLists]

Want(i, a) ==
  /\ Replace(i, [expected[i] EXCEPT !.withArgs = ~a.nil, !.args = a.list])
  /\ asked' = [asked EXCEPT ![i].wanted = IF a.nil THEN {} ELSE {a.list}]
  /\ UNCHANGED rows

\* ExpectedQuery.WithArgs
QueryWithArgs(i, a) ==
  /\ expected[i].kind = "Query"
  /\ \/ ~expected[i].noArgs /\ Want(i, a)
     \/ expected[i].noArgs /\ Refused

\* ExpectedExec.WithArgs looks at its own arguments instead.
ExecWithArgs(i, a) ==
  /\ expected[i].kind = "Exec"
  /\ \/ Len(expected[i].args) = 0 /\ Want(i, a)
     \/ Len(expected[i].args) > 0 /\ Refused

\* Mutant of WithoutArgs: earlier arguments are not looked at.
WithoutArgsUnchecked(i) ==
  /\ expected[i].kind \in HasArgs
  /\ Replace(i, [expected[i] EXCEPT !.noArgs = TRUE])
  /\ asked' = [asked EXCEPT ![i].strict = TRUE]
  /\ UNCHANGED rows

\* WithoutArgs of both types.
WithoutArgs(i) ==
  /\ expected[i].kind \in HasArgs
  /\ \/ /\ Len(expected[i].args) = 0
        /\ Replace(i, [expected[i] EXCEPT !.noArgs = TRUE])
        /\ asked' = [asked EXCEPT ![i].strict = TRUE]
        /\ UNCHANGED rows
     \/ Len(expected[i].args) > 0 /\ Refused

-----------------------------------------------------------------------------
(***************************************************************************)
(* Filling Rows.                                                           *)
(***************************************************************************)

\* How many of n steps are made if those not in good panic.
Made(n, good) ==
  CHOOSE m \in 0..n : 1..m \subseteq good /\ (m < n => m + 1 \notin good)

\* rows is extended by new[1] .. new[n], up to the first one not in good.
Fill(r, n, good, new) ==
  LET m == Made(n, good) IN
  /\ Len(rows[r]) + n <= MaxRows
  /\ rows' = [rows EXCEPT ![r] = @ \o [k \in 1..m |-> new[k]]]
  /\ Call(m < n)
  /\ UNCHANGED <<expected, asked>>

Converted(values) == [c \in 1..Len(values) |-> ConvertValue[values[c]]]

\* Mutant of RowFits: the number of values is not compared.
RowFitsUncounted(r, values) ==
  \A c \in 1..Len(values) : ConvertValue[values[c]] \notin Failures

\* Mutant of RowFits: the error of the converter is not looked at.
RowFitsUnconverted(r, values) == Len(values) = Cols[r]

\* AddRow does not panic.
RowFits(r, values) ==
  /\ Len(values) = Cols[r]
  /\ \A c \in 1..Len(values) : ConvertValue[values[c]] \notin Failures

\* AddRows, and AddRow as AddRows of one list.
AddRows(r, lists) ==
  Fill(r, Len(lists), {k \in 1..Len(lists) : RowFits(r, lists[k])},
       [k \in 1..Len(lists) |-> Converted(lists[k])])

(***************************************************************************)
(* FromCSVString: the reader refuses records that have not as many fields  *)
(* as the first one, a field beyond the last column is an index out of     *)
(* range, and a record with too few fields is filled up with nil.          *)
(***************************************************************************)
CsvRow(r, record) ==
  [c \in 1..Cols[r] |-> IF c <= Len(record) THEN FieldValue[record[c]] ELSE Null]

FromCSVString(r, csv) ==
  Fill(r, Len(csv),
       {k \in 1..Len(csv) : Len(csv[k]) = Len(csv[1]) /\ Len(csv[k]) <= Cols[r]},
       [k \in 1..Len(csv) |-> CsvRow(r, csv[k])])

-----------------------------------------------------------------------------
Expect ==
  \/ ExpectClose \/ ExpectBegin \/ ExpectCommit \/ ExpectRollback
  \/ \E chained \in BOOLEAN : ExpectPing(chained)
  \/ \E sql \in Texts : ExpectPrepare(sql) \/ ExpectQuery(sql) \/ ExpectExec(sql)
  \/ \E p \in 1..Len(expected), kind \in HasArgs : ExpectOnPrepared(p, kind)

Configure(i) ==
  \/ Setting(i)
  \/ \E list \in SetLists : WillReturnRows(i, list)
  \/ \E a \in Given : QueryWithArgs(i, a) \/ ExecWithArgs(i, a)
  \/ WithoutArgs(i)

FillRows(r) ==
  \/ \E v \in ValueLists : AddRows(r, <<v>>)
  \/ \E v, w \in ValueLists : AddRows(r, <<v, w>>)
  \/ \E csv \in CsvTexts : FromCSVString(r, csv)

Next ==
  \/ Expect
  \/ \E i \in 1..Len(expected) : Configure(i)
  \/ \E r \in RowsIds : FillRows(r)

Spec == Init /\ [][Next]_vars

-----------------------------------------------------------------------------
(***************************************************************************)
(* Properties.                                                             *)
(***************************************************************************)

\* Reference: x is the expected argument for the argument a of a program.
Fits(x, a) ==
  LET d == CheckNamedValue(a.value) IN
  IF x.t = "matcher" THEN x.verdict[d] = "nil"
  ELSE /\ x.t = "named" => a.name = x.name
       /\ ConvertValue[x.value] \notin Failures
       /\ ConvertValue[x.value] = d

FitsList(list, L) ==
  Len(list) = Len(L) /\ \A k \in 1..Len(L) : Fits(list[k], L[k])

(***************************************************************************)
(* Whatever builders were called in whatever order, an expectation accepts *)
(* the arguments a program passes exactly if the test has asked for them:  *)
(* the last list given to WithArgs, as the program's own arguments look to *)
(* it after database/sql and CheckNamedValue; without a list, none at all  *)
(* after WithoutArgs and any otherwise.  A query that was restricted by    *)
(* WithoutArgs accepts none even if a (then empty) list was given.         *)
(***************************************************************************)
Accepts(e, L) == ArgsMatches(e, DriverArgs(L)) = "nil"

AskedFor(kind, a, L) ==
  /\ \A list \in a.wanted : FitsList(list, L)
  /\ a.strict /\ (kind = "Query" \/ a.wanted = {}) => L = <<>>

ArgsAsAsked ==
  \A i \in 1..Len(expected) : \A L \in CallLists :
    expected[i].kind \in HasArgs /\ Reaches(L) =>
      (Accepts(expected[i], L) <=> AskedFor(expected[i].kind, asked[i], L))

(***************************************************************************)
(* What the comments of WithoutArgs say ("will ensure that no args are     *)
(* passed for this expected database exec action", "Must not be used       *)
(* together with WithArgs()"): once it has returned no call with arguments *)
(* is accepted.                                                            *)
(***************************************************************************)
WithoutArgsHolds ==
  \A i \in 1..Len(expected) : \A L \in CallLists :
    asked[i].strict /\ Reaches(L) /\ L # <<>> => ~Accepts(expected[i], L)

(***************************************************************************)
(* Spacing is all the query matchers forgive: an expectation accepts a     *)
(* text if the test's text for it, or for the statement it was prepared    *)
(* with, looks the same (QueryMatcherEqual) or occurs in it                *)
(* (QueryMatcherRegexp, where a blank text only stands for a blank one).   *)
(***************************************************************************)
AcceptedTexts(sql) ==
  [ equal  |-> {q \in CallTexts : QueryMatcherEqual(sql, q)},
    regexp |-> {q \in CallTexts : QueryMatcherRegexp(sql, q)} ]

SimilarTexts(sql) ==
  [ equal  |-> {q \in CallTexts : LooksLike(sql, q)},
    regexp |-> {q \in CallTexts : /\ OccursIn(sql, q)
                                  /\ \A k \in 1..Len(sql) : sql[k] \notin Unbalanced} ]

AcceptedBy == [sql \in Texts \cup {NoText} |-> AcceptedTexts(sql)]
SimilarTo  == [sql \in Texts \cup {NoText} |-> SimilarTexts(sql)]

TextsAsAsked ==
  \A i \in 1..Len(expected) : expected[i].kind \in HasSql =>
    AcceptedBy[expected[i].sql] = SimilarTo[asked[i].text]

(***************************************************************************)
(* rowSets.Next writes a row into a slice of as many values as there are   *)
(* columns, and getDefinition takes the definition of any column of the    *)
(* current set: neither can go wrong in a set, however Rows were filled,   *)
(* before or after they were given to an expectation, half-failed calls of *)
(* AddRows and FromCSVString included.                                     *)
(***************************************************************************)
ReadsInBounds ==
  \A i \in 1..Len(expected) : \A s \in 1..Len(expected[i].sets) :
    LET r == expected[i].sets[s] IN
    /\ expected[i].defs => r \in Defined
    /\ r \in RowsIds =>
         \A k \in 1..Len(rows[r]) : rows[r][k] \in [1..Cols[r] -> RowValues]

(***************************************************************************)
(* The argument matching that is built before Go 1.8 and the current one   *)
(* agree on lists without names, if the converter yields driver values.    *)
(***************************************************************************)
SameBeforeGo18 ==
  \A i \in 1..Len(expected) : \A L \in CallLists :
    LET e    == expected[i]
        args == convertValueToNamedValue([k \in 1..Len(L) |-> CheckNamedValueGo18(L[k].value)])
    IN  /\ \A k \in 1..Len(e.args) :
             /\ e.args[k].t # "named"
             /\ e.args[k].t = "plain" => ConvertValue[e.args[k].value] \in Failures \cup DriverValues
        /\ \A k \in 1..Len(L) : args[k].value \notin Failures
        => ArgsMatches(e, args) = ArgsMatchesBefore18(e, args)
=============================================================================

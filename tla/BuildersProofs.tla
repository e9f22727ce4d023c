--------------------------- MODULE BuildersProofs ---------------------------
(***************************************************************************)
(* Proofs about module Builders for any values, texts, lists and Rows and  *)
(* any sequence of calls.                                                  *)
(***************************************************************************)
EXTENDS Builders, ArgumentsProofs, QueryTextProofs

(***************************************************************************)
(* The inductive invariant.                                                *)
(***************************************************************************)

\* What an expectation keeps of its text and arguments is what was asked for.
StoredInv ==
  \A i \in 1..Len(expected) :
    /\ expected[i].sql = asked[i].text
    /\ expected[i].noArgs = asked[i].strict
    /\ expected[i].withArgs => asked[i].wanted = {expected[i].args}
    /\ ~expected[i].withArgs => asked[i].wanted = {} /\ expected[i].args = <<>>
    /\ expected[i].kind = "Query" /\ expected[i].noArgs => Len(expected[i].args) = 0

\* Column definitions are offered for sets that all have some.
DefsInv ==
  \A i \in 1..Len(expected) : expected[i].defs =>
    \A s \in 1..Len(expected[i].sets) : expected[i].sets[s] \in Defined

\* Every row is as wide as its Rows.
RowsInv ==
  \A r \in RowsIds : \A k \in 1..Len(rows[r]) : rows[r][k] \in [1..Cols[r] -> RowValues]

QueueInv == TypeOK /\ StoredInv /\ DefsInv
Inv == QueueInv /\ RowsInv

-----------------------------------------------------------------------------
(***************************************************************************)
(* Lemmas about the steps of a call and about one argument.                *)
(***************************************************************************)

\* The steps that are made are all good ones.
LEMMA MadeGood ==
  ASSUME NEW n \in Nat, NEW good
  PROVE  Made(n, good) \in 0..n /\ 1..Made(n, good) \subseteq good
<1>1. \E m \in 0..n : 1..m \subseteq good /\ (m < n => m + 1 \notin good)
  <2>1. CASE 1..n \subseteq good
    BY <2>1
  <2>2. CASE ~(1..n \subseteq good)
    <3> DEFINE Bad == {j \in 1..n : j \notin good}
    <3>0. Bad \in SUBSET (1..n) /\ Bad # {}
      BY <2>2
    <3>1. PICK j \in Bad : \A i \in Bad : j <= i
      <4> HIDE DEF Bad
      <4> QED BY <3>0, LeastExists
    <3>2. 1..(j - 1) \subseteq good /\ (j - 1) + 1 \notin good /\ j - 1 \in 0..n
      BY <3>1
    <3> QED
      BY <3>2
  <2> QED
    BY <2>1, <2>2
<1> QED
  BY <1>1 DEF Made

\* One argument of a program, as the mock gets it.
LEMMA OneMatches ==
  ASSUME NEW x, NEW L, NEW k \in 1..Len(L)
  PROVE  ArgMatches(x, DriverArgs(L)[k], k) = "nil" <=> Fits(x, L[k])
<1>1. DriverArgs(L)[k] = [name |-> L[k].name, ordinal |-> k,
                          value |-> CheckNamedValue(L[k].value)]
  BY DEF DriverArgs
<1>2. "nil" \notin Failures
  BY DEF Failures, Panics
<1> QED
  BY <1>1, <1>2 DEF ArgMatches, Compare, Fits

-----------------------------------------------------------------------------
(***************************************************************************)
(* The queue of expectations.                                              *)
(***************************************************************************)

LEMMA PushInv ==
  ASSUME QueueInv, NEW kind \in Kinds, NEW sql \in Texts \cup {NoText},
         NEW text \in Texts \cup {NoText}, Push(kind, sql, text), sql = text
  PROVE  QueueInv'
<1> DEFINE e == New(kind, sql)
           a == [text |-> text, strict |-> FALSE, wanted |-> {}]
           n == Len(expected)
<1>1. e \in Expectation /\ a \in Asked
  BY DEF New, Expectation, Asked
<1>2. /\ expected \in Seq(Expectation) /\ asked \in Seq(Asked)
      /\ Len(asked) = n /\ n \in Nat
  BY DEF QueueInv, TypeOK
<1>3. /\ expected' \in Seq(Expectation) /\ asked' \in Seq(Asked)
      /\ Len(expected') = n + 1 /\ Len(asked') = n + 1
      /\ \A i \in 1..n : expected'[i] = expected[i] /\ asked'[i] = asked[i]
      /\ expected'[n + 1] = e /\ asked'[n + 1] = a
  BY <1>1, <1>2 DEF Push
<1>4. TypeOK'
  <2>1. /\ calls' = calls + 1 /\ panicked' = FALSE
        /\ monitorPings' = monitorPings /\ rows' = rows
    BY DEF Push, Call
  <2>2. calls' \in Nat /\ rows' \in [RowsIds -> Seq(Seq(RowValues))]
    BY <2>1 DEF QueueInv, TypeOK
  <2> QED
    BY <1>3, <2>1, <2>2, Zenon DEF QueueInv, TypeOK
<1>5. \A i \in 1..Len(expected') : i \in 1..n \/ i = n + 1
  BY <1>2, <1>3
<1>6. StoredInv'
  <2> SUFFICES ASSUME NEW j \in 1..Len(expected') PROVE StoredInv!(j)'
    BY DEF StoredInv
  <2>1. CASE j \in 1..n
    BY <1>3, <2>1 DEF StoredInv, QueueInv
  <2>2. CASE j = n + 1
    <3>1. /\ e.sql = a.text
          /\ e.noArgs = FALSE /\ e.withArgs = FALSE /\ e.args = <<>>
          /\ a.strict = FALSE /\ a.wanted = {}
      BY DEF New
    <3> HIDE DEF e, a
    <3> QED
      BY <1>3, <2>2, <3>1
  <2> QED
    BY <1>5, <2>1, <2>2
<1>7. DefsInv'
  BY <1>3, <1>5 DEF DefsInv, New, QueueInv
<1> QED
  BY <1>4, <1>6, <1>7 DEF QueueInv

\* One expectation is replaced, and what was asked of it.
LEMMA ReplaceInv ==
  ASSUME QueueInv, NEW i \in 1..Len(expected), NEW e \in Expectation, NEW a \in Asked,
         Replace(i, e), asked' = [asked EXCEPT ![i] = a], UNCHANGED rows,
         e.sql = a.text,
         e.noArgs = a.strict,
         e.withArgs => a.wanted = {e.args},
         ~e.withArgs => a.wanted = {} /\ e.args = <<>>,
         e.kind = "Query" /\ e.noArgs => Len(e.args) = 0,
         e.defs => \A s \in 1..Len(e.sets) : e.sets[s] \in Defined
  PROVE  QueueInv'
<1> DEFINE n == Len(expected)
<1>1. /\ expected \in Seq(Expectation) /\ asked \in Seq(Asked)
      /\ Len(asked) = n /\ n \in Nat
  BY DEF QueueInv, TypeOK
<1>2. /\ expected' \in Seq(Expectation) /\ Len(expected') = n
      /\ \A j \in 1..n : expected'[j] = IF j = i THEN e ELSE expected[j]
  BY <1>1, ExceptSeq DEF Replace
<1>3. /\ asked' \in Seq(Asked) /\ Len(asked') = n
      /\ \A j \in 1..n : asked'[j] = IF j = i THEN a ELSE asked[j]
  BY <1>1, ExceptSeq
<1>4. TypeOK'
  <2>1. /\ calls' = calls + 1 /\ panicked' = FALSE
        /\ monitorPings' = monitorPings /\ rows' = rows
    BY DEF Replace, Call
  <2>2. calls' \in Nat /\ rows' \in [RowsIds -> Seq(Seq(RowValues))]
    BY <2>1 DEF QueueInv, TypeOK
  <2> QED
    BY <1>2, <1>3, <2>1, <2>2, Zenon DEF QueueInv, TypeOK
<1>5. StoredInv'
  BY <1>2, <1>3 DEF StoredInv, QueueInv
<1>6. DefsInv'
  BY <1>2 DEF DefsInv, QueueInv
<1> QED
  BY <1>4, <1>5, <1>6 DEF QueueInv

\* The queue is as before.
LEMMA IdleInv ==
  ASSUME QueueInv, NEW p \in BOOLEAN, Call(p), UNCHANGED <<expected, asked, rows>>
  PROVE  QueueInv'
<1>1. calls' \in Nat /\ panicked' \in BOOLEAN /\ monitorPings' = monitorPings
  BY DEF QueueInv, TypeOK, Call
<1>2. TypeOK'
  BY <1>1, Zenon DEF QueueInv, TypeOK
<1> QED
  BY <1>2, Zenon DEF QueueInv, StoredInv, DefsInv

\* The other settings leave the arguments, the sets and the definitions alone.
LEMMA SettingsKeep ==
  ASSUME NEW x \in Expectation, NEW e \in Settings(x)
  PROVE  /\ e \in Expectation
         /\ e.sql = x.sql /\ e.kind = x.kind /\ e.noArgs = x.noArgs /\ e.withArgs = x.withArgs
         /\ e.args = x.args /\ e.defs = x.defs /\ e.sets = x.sets
<1> DEFINE Alike(f) == /\ f \in Expectation
                       /\ f.sql = x.sql /\ f.kind = x.kind /\ f.noArgs = x.noArgs
                       /\ f.withArgs = x.withArgs /\ f.args = x.args
                       /\ f.defs = x.defs /\ f.sets = x.sets
<1>1. \/ \E b \in BOOLEAN : e = [x EXCEPT !.err = b]
      \/ e = [x EXCEPT !.must = TRUE]
      \/ \E o \in TxOptions : e = [x EXCEPT !.opts = o]
      \/ \E b \in BOOLEAN : e = [x EXCEPT !.resp = b]
      \/ \E b \in BOOLEAN : e = [x EXCEPT !.closeErr = b]
  <2> USE DEF ExpectedClose, ExpectedBegin, ExpectedCommit, ExpectedRollback,
              ExpectedPing, ExpectedQuery, ExpectedExec, ExpectedPrepare,
              WillReturnError, WillBeClosed
  <2> x.kind \in Kinds
    BY DEF Expectation
  <2> QED
    BY DEF Settings, Kinds
<1>2. ASSUME NEW b \in BOOLEAN
      PROVE  /\ Alike([x EXCEPT !.err = b]) /\ Alike([x EXCEPT !.resp = b])
             /\ Alike([x EXCEPT !.closeErr = b]) /\ Alike([x EXCEPT !.must = TRUE])
  BY DEF Expectation
<1>3. ASSUME NEW o \in TxOptions PROVE Alike([x EXCEPT !.opts = o])
  BY DEF Expectation
<1>4. Alike(e)
  <2> HIDE DEF Alike
  <2> QED
    BY <1>1, <1>2, <1>3, Zenon
<1> QED
  BY <1>4

-----------------------------------------------------------------------------
(***************************************************************************)
(* The builders.                                                           *)
(***************************************************************************)

LEMMA ExpectSteps ==
  ASSUME QueueInv, Expect
  PROVE  QueueInv'
<1>1. CASE ExpectClose \/ ExpectBegin \/ ExpectCommit \/ ExpectRollback
  BY <1>1, PushInv DEF ExpectClose, ExpectBegin, ExpectCommit, ExpectRollback, Kinds
<1>2. ASSUME NEW chained \in BOOLEAN, ExpectPing(chained) PROVE QueueInv'
  <2>1. CASE Push("Ping", NoText, NoText)
    BY <2>1, PushInv DEF Kinds
  <2>2. CASE Call(chained) /\ UNCHANGED <<expected, asked, rows>>
    BY <2>2, IdleInv
  <2> QED
    BY <1>2, <2>1, <2>2 DEF ExpectPing
<1>3. ASSUME NEW sql \in Texts, ExpectPrepare(sql) \/ ExpectQuery(sql) \/ ExpectExec(sql)
      PROVE  QueueInv'
  BY <1>3, PushInv DEF ExpectPrepare, ExpectQuery, ExpectExec, Kinds
<1>4. ASSUME NEW p \in 1..Len(expected), NEW kind \in HasArgs, ExpectOnPrepared(p, kind)
      PROVE  QueueInv'
  <2>1. expected[p] \in Expectation /\ asked[p] \in Asked
    BY DEF QueueInv, TypeOK
  <2>2. expected[p].sql \in Texts \cup {NoText} /\ asked[p].text \in Texts \cup {NoText}
    BY <2>1 DEF Expectation, Asked
  <2>3. expected[p].sql = asked[p].text
    BY DEF QueueInv, StoredInv
  <2>4. kind \in Kinds /\ Push(kind, expected[p].sql, asked[p].text)
    BY <1>4 DEF ExpectOnPrepared, HasArgs, Kinds
  <2> QED
    BY <2>2, <2>3, <2>4, PushInv
<1> QED
  BY <1>1, <1>2, <1>3, <1>4 DEF Expect

LEMMA ConfigureSteps ==
  ASSUME QueueInv, NEW i \in 1..Len(expected), Configure(i)
  PROVE  QueueInv'
<1> DEFINE x == expected[i]
           q == asked[i]
<1>1. x \in Expectation /\ q \in Asked
  BY DEF QueueInv, TypeOK
<1>2. /\ x.sql = q.text
      /\ x.noArgs = q.strict
      /\ x.withArgs => q.wanted = {x.args}
      /\ ~x.withArgs => q.wanted = {} /\ x.args = <<>>
      /\ x.kind = "Query" /\ x.noArgs => Len(x.args) = 0
      /\ x.defs => \A s \in 1..Len(x.sets) : x.sets[s] \in Defined
  BY DEF QueueInv, StoredInv, DefsInv
<1>3. asked = [asked EXCEPT ![i] = q]
  BY DEF QueueInv, TypeOK
<1>4. CASE Setting(i)
  <2>1. PICK e \in Settings(x) : Replace(i, e) /\ UNCHANGED <<asked, rows>>
    BY <1>4 DEF Setting
  <2>2. /\ e \in Expectation
        /\ e.sql = x.sql /\ e.kind = x.kind /\ e.noArgs = x.noArgs /\ e.withArgs = x.withArgs
        /\ e.args = x.args /\ e.defs = x.defs /\ e.sets = x.sets
    BY <1>1, <2>1, SettingsKeep
  <2> QED
    BY <1>1, <1>2, <1>3, <2>1, <2>2, ReplaceInv
<1>5. ASSUME NEW list \in SetLists, WillReturnRows(i, list) PROVE QueueInv'
  <2> DEFINE e == [x EXCEPT !.resp = TRUE, !.sets = list,
                     !.defs = Len(list) > 0 /\ \A s \in 1..Len(list) : list[s] \in Defined]
  <2>1. Replace(i, e) /\ UNCHANGED <<asked, rows>>
    BY <1>5 DEF WillReturnRows
  <2>2. e \in Expectation
    BY <1>1 DEF Expectation
  <2>3. /\ e.sql = x.sql /\ e.kind = x.kind /\ e.noArgs = x.noArgs /\ e.withArgs = x.withArgs
        /\ e.args = x.args /\ e.sets = list
        /\ e.defs => \A s \in 1..Len(list) : list[s] \in Defined
    BY <1>1 DEF Expectation
  <2> HIDE DEF e
  <2> QED
    BY <1>1, <1>2, <1>3, <2>1, <2>2, <2>3, ReplaceInv
<1>6. ASSUME NEW a \in Given, Want(i, a), x.kind = "Query" => ~x.noArgs
      PROVE  QueueInv'
  <2> DEFINE e == [x EXCEPT !.withArgs = ~a.nil, !.args = a.list]
             b == [q EXCEPT !.wanted = IF a.nil THEN {} ELSE {a.list}]
  <2>1. Replace(i, e) /\ asked' = [asked EXCEPT ![i] = b] /\ UNCHANGED rows
    BY <1>6 DEF Want
  <2>2. \/ a.nil = TRUE /\ a.list = <<>>
        \/ a.nil = FALSE /\ a.list \in ArgLists
    <3>1. CASE a = [nil |-> TRUE, list |-> <<>>]
      BY <3>1
    <3>2. CASE a \in [nil : {FALSE}, list : ArgLists]
      BY <3>2
    <3> QED
      BY <3>1, <3>2 DEF Given
  <2>3. e \in Expectation
    <3>1. [x EXCEPT !.args = a.list] \in Expectation
      BY <1>1, <2>2 DEF Expectation
    <3>2. \A y \in Expectation, v \in BOOLEAN : [y EXCEPT !.withArgs = v] \in Expectation
      BY DEF Expectation
    <3>3. e = [[x EXCEPT !.args = a.list] EXCEPT !.withArgs = ~a.nil]
      BY <1>1 DEF Expectation
    <3>4. (~a.nil) \in BOOLEAN
      OBVIOUS
    <3> QED
      BY <3>1, <3>2, <3>3, <3>4, Zenon
  <2>4. b \in Asked
    <3>1. (IF a.nil THEN {} ELSE {a.list}) \in SUBSET ArgLists
      BY <2>2
    <3> QED
      BY <1>1, <3>1 DEF Asked
  <2>5. /\ e.sql = x.sql /\ e.kind = x.kind /\ e.noArgs = x.noArgs /\ e.withArgs = ~a.nil
        /\ e.args = a.list /\ e.sets = x.sets /\ e.defs = x.defs
        /\ b.text = q.text /\ b.strict = q.strict /\ b.wanted = IF a.nil THEN {} ELSE {a.list}
    BY <1>1 DEF Expectation, Asked
  <2> HIDE DEF e, b
  <2> QED
    BY <1>1, <1>2, <1>6, <2>1, <2>2, <2>3, <2>4, <2>5, ReplaceInv
<1>7. CASE Refused
  BY <1>7, IdleInv DEF Refused
<1>8. CASE WithoutArgs(i) /\ ~Refused
  <2> DEFINE e == [x EXCEPT !.noArgs = TRUE]
             b == [q EXCEPT !.strict = TRUE]
  <2>1. /\ Len(x.args) = 0
        /\ Replace(i, e) /\ asked' = [asked EXCEPT ![i] = b] /\ UNCHANGED rows
    BY <1>8 DEF WithoutArgs
  <2>2. e \in Expectation /\ b \in Asked
    BY <1>1 DEF Expectation, Asked
  <2>3. /\ e.sql = x.sql /\ e.kind = x.kind /\ e.noArgs = TRUE /\ e.withArgs = x.withArgs
        /\ e.args = x.args /\ e.sets = x.sets /\ e.defs = x.defs
        /\ b.text = q.text /\ b.strict = TRUE /\ b.wanted = q.wanted
    BY <1>1 DEF Expectation, Asked
  <2> HIDE DEF e, b
  <2> QED
    BY <1>1, <1>2, <2>1, <2>2, <2>3, ReplaceInv
<1>9. ASSUME NEW a \in Given, QueryWithArgs(i, a) PROVE QueueInv'
  BY <1>6, <1>7, <1>9 DEF QueryWithArgs
<1>10. ASSUME NEW a \in Given, ExecWithArgs(i, a) PROVE QueueInv'
  BY <1>6, <1>7, <1>10 DEF ExecWithArgs
<1> QED
  BY <1>4, <1>5, <1>7, <1>8, <1>9, <1>10 DEF Configure

-----------------------------------------------------------------------------
(***************************************************************************)
(* The Rows.                                                               *)
(***************************************************************************)

\* The queue does not touch the Rows.
LEMMA QueueKeepsRows ==
  ASSUME Expect \/ \E i \in 1..Len(expected) : Configure(i)
  PROVE  rows' = rows
<1>1. CASE Expect
  BY <1>1 DEF Expect, ExpectClose, ExpectBegin, ExpectCommit, ExpectRollback, ExpectPing,
              ExpectPrepare, ExpectQuery, ExpectExec, ExpectOnPrepared, Push
<1>2. ASSUME NEW i \in 1..Len(expected), Configure(i) PROVE rows' = rows
  BY <1>2 DEF Configure, Setting, WillReturnRows, QueryWithArgs, ExecWithArgs, WithoutArgs,
              Want, Refused
<1> QED
  BY <1>1, <1>2

\* Rows that are extended by rows as wide as their columns.
LEMMA FillInv ==
  ASSUME Inv, NEW r \in RowsIds, NEW n \in Nat, NEW good, NEW new, Fill(r, n, good, new),
         \A k \in 1..n : k \in good => new[k] \in [1..Cols[r] -> RowValues]
  PROVE  Inv'
<1> DEFINE m == Made(n, good)
           more == [k \in 1..m |-> new[k]]
           Wide == [1..Cols[r] -> RowValues]
<1>1. /\ m \in 0..n /\ 1..m \subseteq good
      /\ rows' = [rows EXCEPT ![r] = rows[r] \o more]
      /\ Call(m < n) /\ UNCHANGED <<expected, asked>>
  BY MadeGood DEF Fill
<1>2. Cols[r] \in Nat /\ Wide \subseteq Seq(RowValues)
  BY BuildersAssumption
<1>3. more \in Seq(Wide) /\ Len(more) = m /\ \A k \in 1..m : more[k] \in Wide
  <2> HIDE DEF m
  <2>1. m \in Nat /\ \A k \in 1..m : new[k] \in Wide
    BY <1>1
  <2> HIDE DEF Wide
  <2> QED
    BY <2>1
<1> HIDE DEF m, more, Wide
<1>4. rows \in [RowsIds -> Seq(Seq(RowValues))] /\ rows[r] \in Seq(Seq(RowValues))
  BY DEF Inv, QueueInv, TypeOK
<1>5. more \in Seq(Seq(RowValues))
  BY <1>2, <1>3
<1>6. /\ rows[r] \o more \in Seq(Seq(RowValues))
      /\ Len(rows[r] \o more) = Len(rows[r]) + Len(more)
      /\ \A k \in 1..Len(rows[r]) + Len(more) : (rows[r] \o more)[k]
            = IF k <= Len(rows[r]) THEN rows[r][k] ELSE more[k - Len(rows[r])]
  BY <1>4, <1>5, ConcatProperties
<1>7. \A k \in 1..Len(rows[r] \o more) : (rows[r] \o more)[k] \in Wide
  <2> SUFFICES ASSUME NEW k \in 1..Len(rows[r] \o more) PROVE (rows[r] \o more)[k] \in Wide
    OBVIOUS
  <2>0. Len(rows[r]) \in Nat /\ Len(more) \in Nat
    BY <1>4, <1>5, LenProperties
  <2>1. CASE k <= Len(rows[r])
    <3>1. (rows[r] \o more)[k] = rows[r][k]
      BY <1>6, <2>0, <2>1
    <3>2. k \in 1..Len(rows[r])
      BY <1>6, <2>0, <2>1
    <3> QED
      BY <3>1, <3>2 DEF Inv, RowsInv, Wide
  <2>2. CASE k > Len(rows[r])
    BY <1>3, <1>6, <2>0, <2>2
  <2> QED
    BY <1>6, <2>0, <2>1, <2>2
<1>8. rows' \in [RowsIds -> Seq(Seq(RowValues))]
  BY <1>1, <1>4, <1>6
<1>9. RowsInv'
  <2> SUFFICES ASSUME NEW o \in RowsIds, NEW k \in 1..Len(rows'[o])
               PROVE  rows'[o][k] \in [1..Cols[o] -> RowValues]
    BY DEF RowsInv
  <2>1. CASE o = r
    BY <1>1, <1>4, <1>7, <2>1 DEF Wide
  <2>2. CASE o # r
    BY <1>1, <1>4, <2>2 DEF Inv, RowsInv
  <2> QED
    BY <2>1, <2>2
<1>10. calls' \in Nat /\ panicked' \in BOOLEAN /\ monitorPings' = monitorPings
  BY <1>1 DEF Inv, QueueInv, TypeOK, Call
<1>11. QueueInv'
  BY <1>1, <1>8, <1>10, Zenon DEF Inv, QueueInv, TypeOK, StoredInv, DefsInv
<1> QED
  BY <1>9, <1>11 DEF Inv

LEMMA FillRowsSteps ==
  ASSUME Inv, NEW r \in RowsIds, FillRows(r)
  PROVE  Inv'
<1>0. Cols[r] \in Nat
  BY BuildersAssumption
<1>1. ASSUME NEW v \in ValueLists, RowFits(r, v)
      PROVE  Converted(v) \in [1..Cols[r] -> RowValues]
  <2>1. v \in Seq(DOMAIN ConvertValue) /\ Len(v) = Cols[r]
    BY <1>1, BuildersAssumption DEF RowFits
  <2>2. \A c \in 1..Len(v) : v[c] \in DOMAIN ConvertValue
                               /\ ConvertValue[v[c]] \notin Failures
    BY <1>1, <2>1, ElementOfSeq DEF RowFits
  <2>3. \A c \in 1..Len(v) : ConvertValue[v[c]] \in RowValues
    BY <2>2 DEF RowValues
  <2> QED
    BY <2>1, <2>3 DEF Converted
<1>2. ASSUME NEW lists, Len(lists) \in Nat, \A k \in 1..Len(lists) : lists[k] \in ValueLists,
             AddRows(r, lists)
      PROVE  Inv'
  <2> DEFINE good == {k \in 1..Len(lists) : RowFits(r, lists[k])}
             new == [k \in 1..Len(lists) |-> Converted(lists[k])]
  <2>1. Fill(r, Len(lists), good, new)
    BY <1>2 DEF AddRows
  <2>2. \A k \in 1..Len(lists) : k \in good => new[k] \in [1..Cols[r] -> RowValues]
    BY <1>1, <1>2
  <2> HIDE DEF good, new
  <2> QED
    BY <1>2, <2>1, <2>2, FillInv
<1>3. ASSUME NEW v \in ValueLists, AddRows(r, <<v>>) PROVE Inv'
  <2>1. Len(<<v>>) = 1 /\ \A k \in 1..Len(<<v>>) : <<v>>[k] \in ValueLists
    OBVIOUS
  <2> QED
    BY <1>2, <1>3, <2>1
<1>4. ASSUME NEW v \in ValueLists, NEW w \in ValueLists, AddRows(r, <<v, w>>) PROVE Inv'
  <2>1. Len(<<v, w>>) = 2 /\ \A k \in 1..Len(<<v, w>>) : <<v, w>>[k] \in ValueLists
    OBVIOUS
  <2> QED
    BY <1>2, <1>4, <2>1
<1>5. ASSUME NEW csv \in CsvTexts, FromCSVString(r, csv) PROVE Inv'
  <2> DEFINE good == {k \in 1..Len(csv) : Len(csv[k]) = Len(csv[1]) /\ Len(csv[k]) <= Cols[r]}
             new == [k \in 1..Len(csv) |-> CsvRow(r, csv[k])]
  <2>1. csv \in Seq(Seq(DOMAIN FieldValue)) /\ Len(csv) \in Nat
    BY BuildersAssumption, LenProperties
  <2>2. Fill(r, Len(csv), good, new)
    BY <1>5 DEF FromCSVString
  <2>3. ASSUME NEW k \in 1..Len(csv) PROVE new[k] \in [1..Cols[r] -> RowValues]
    <3>1. csv[k] \in Seq(DOMAIN FieldValue)
      BY <2>1, ElementOfSeq
    <3>2. \A c \in 1..Len(csv[k]) : FieldValue[csv[k][c]] \in RowValues
      BY <3>1, ElementOfSeq DEF RowValues
    <3>3. Null \in RowValues /\ Len(csv[k]) \in Nat
      BY <3>1, LenProperties DEF RowValues
    <3>4. CsvRow(r, csv[k]) \in [1..Cols[r] -> RowValues]
      BY <1>0, <3>2, <3>3 DEF CsvRow
    <3> QED
      BY <3>4
  <2> HIDE DEF good, new
  <2> QED
    BY <2>1, <2>2, <2>3, FillInv
<1> QED
  BY <1>3, <1>4, <1>5 DEF FillRows

-----------------------------------------------------------------------------
\* The invariant is one.
THEOREM AlwaysInv == Spec => []Inv
<1>1. Init => Inv
  <2> SUFFICES ASSUME Init PROVE Inv
    OBVIOUS
  <2>1. TypeOK
    <3>1. expected \in Seq(Expectation) /\ asked \in Seq(Asked) /\ Len(asked) = Len(expected)
      BY DEF Init
    <3>2. rows \in [RowsIds -> Seq(Seq(RowValues))]
      BY DEF Init
    <3>3. monitorPings \in BOOLEAN /\ panicked = FALSE /\ calls \in Nat
      BY DEF Init
    <3> QED
      BY <3>1, <3>2, <3>3 DEF TypeOK
  <2> QED
    BY <2>1 DEF Init, Inv, QueueInv, StoredInv, DefsInv, RowsInv
<1>2. Inv /\ [Next]_vars => Inv'
  <2> SUFFICES ASSUME Inv, [Next]_vars PROVE Inv'
    OBVIOUS
  <2>1. CASE Expect \/ \E i \in 1..Len(expected) : Configure(i)
    <3>1. QueueInv'
      BY <2>1, ExpectSteps, ConfigureSteps DEF Inv
    <3>2. RowsInv'
      BY <2>1, QueueKeepsRows DEF Inv, RowsInv
    <3> QED
      BY <3>1, <3>2 DEF Inv
  <2>2. CASE \E r \in RowsIds : FillRows(r)
    BY <2>2, FillRowsSteps
  <2>3. CASE UNCHANGED vars
    BY <2>3, Zenon DEF vars, Inv, QueueInv, TypeOK, StoredInv, DefsInv, RowsInv
  <2> QED
    BY <2>1, <2>2, <2>3 DEF Next
<1> QED
  BY <1>1, <1>2, PTL DEF Spec

-----------------------------------------------------------------------------
(***************************************************************************)
(* What follows from the invariant.                                        *)
(***************************************************************************)

\* A list a program passes, as the mock gets it.
LEMMA DriverList ==
  ASSUME NEW L \in CallLists
  PROVE  /\ Len(L) \in Nat /\ Len(DriverArgs(L)) = Len(L)
         /\ L = <<>> <=> Len(L) = 0
<1>1. L \in Seq([name : STRING, value : Outs \cup DOMAIN ConvertValue])
  BY BuildersAssumption
<1> QED
  BY <1>1, EmptySeq, LenProperties DEF DriverArgs

\* Expectations accept what was asked for, if they keep it.
LEMMA AcceptsAsked ==
  ASSUME Inv, NEW i \in 1..Len(expected), NEW L \in CallLists
  PROVE  Accepts(expected[i], L) <=> AskedFor(expected[i].kind, asked[i], L)
<1> DEFINE e == expected[i]
           a == asked[i]
<1>1. /\ e.noArgs = a.strict
      /\ e.withArgs => a.wanted = {e.args}
      /\ ~e.withArgs => a.wanted = {} /\ e.args = <<>>
      /\ e.kind = "Query" /\ e.noArgs => Len(e.args) = 0
  BY DEF Inv, QueueInv, StoredInv
<1>2. /\ Len(L) \in Nat /\ Len(DriverArgs(L)) = Len(L)
      /\ L = <<>> <=> Len(L) = 0
  BY DriverList
<1>3. CASE ~e.withArgs
  <2>1. Accepts(e, L) <=> ~(e.noArgs /\ Len(L) > 0)
    BY <1>2, <1>3 DEF Accepts, ArgsMatches
  <2>2. AskedFor(e.kind, a, L) <=> (a.strict => L = <<>>)
    BY <1>1, <1>3 DEF AskedFor
  <2> QED
    BY <1>1, <1>2, <2>1, <2>2
<1>4. CASE e.withArgs /\ Len(L) = Len(e.args)
  <2>1. ArgsMatches(e, DriverArgs(L)) = "nil"
          <=> \A k \in 1..Len(L) : ArgMatches(e.args[k], DriverArgs(L)[k], k) = "nil"
    BY <1>2, <1>4, AllMatch
  <2>2. Accepts(e, L) <=> FitsList(e.args, L)
    BY <1>4, <2>1, OneMatches DEF Accepts, FitsList
  <2>3. AskedFor(e.kind, a, L) <=> FitsList(e.args, L)
    BY <1>1, <1>2, <1>4 DEF AskedFor
  <2> QED
    BY <2>2, <2>3
<1>5. CASE e.withArgs /\ Len(L) # Len(e.args)
  <2>1. ~Accepts(e, L)
    BY <1>2, <1>5 DEF Accepts, ArgsMatches
  <2>2. ~AskedFor(e.kind, a, L)
    BY <1>1, <1>5 DEF AskedFor, FitsList
  <2> QED
    BY <2>1, <2>2
<1> QED
  BY <1>3, <1>4, <1>5

\* The two builds of argsMatches agree where the property says so.
LEMMA BuildsAgree ==
  ASSUME Inv, NEW i \in 1..Len(expected), NEW L \in CallLists,
         \A k \in 1..Len(expected[i].args) :
           /\ expected[i].args[k].t # "named"
           /\ expected[i].args[k].t = "plain" =>
                ConvertValue[expected[i].args[k].value] \in Failures \cup DriverValues,
         NEW args,
         args = convertValueToNamedValue([k \in 1..Len(L) |-> CheckNamedValueGo18(L[k].value)])
  PROVE  ArgsMatches(expected[i], args) = ArgsMatchesBefore18(expected[i], args)
<1>1. expected[i] \in Expectation
  BY DEF Inv, QueueInv, TypeOK
<1>2. \A k \in 1..Len(expected[i].args) :
        expected[i].args[k].t \in {"matcher", "named", "plain"}
  <2>1. expected[i].args \in ArgLists \/ expected[i].args = <<>>
    BY <1>1 DEF Expectation
  <2>2. Len(<<>>) = 0
    OBVIOUS
  <2> QED
    BY <2>1, <2>2, BuildersAssumption
<1>3. Len(args) = Len(L) /\ \A k \in 1..Len(L) : args[k].ordinal = k
  <2> DEFINE values == [k \in 1..Len(L) |-> CheckNamedValueGo18(L[k].value)]
  <2>1. Len(L) \in Nat
    BY DriverList
  <2>2. Len(values) = Len(L)
    BY <2>1
  <2> HIDE DEF values
  <2> DEFINE named == [k \in 1..Len(L) |-> [name |-> "", ordinal |-> k, value |-> values[k]]]
  <2>3. args = named
    <3>1. args = convertValueToNamedValue(values)
      BY DEF values
    <3> QED
      BY <2>2, <3>1, Zenon DEF convertValueToNamedValue
  <2>4. \A k \in 1..Len(L) : named[k].ordinal = k
    OBVIOUS
  <2>5. named \in [1..Len(L) -> {named[k] : k \in 1..Len(L)}]
    BY Zenon
  <2> HIDE DEF named
  <2>6. Len(named) = Len(L)
    BY <2>1, <2>5
  <2> QED
    BY <2>3, <2>4, <2>6
<1>4. Len(args) \in Nat
  BY <1>3, DriverList
<1>5. Len(args) = Len(expected[i].args) =>
        \A k \in 1..Len(args) :
          ArgMatches(expected[i].args[k], args[k], k)
            = ArgMatchesBefore18(expected[i].args[k], args[k])
  BY <1>2, <1>3, SameOne
<1> QED
  BY <1>4, <1>5, SameAll

(***************************************************************************)
(* Expectations, the history of what was asked of them and Rows keep their *)
(* types.                                                                  *)
(***************************************************************************)
THEOREM TypeCorrect == Spec => []TypeOK
<1>1. Inv => TypeOK
  BY DEF Inv, QueueInv
<1> QED
  BY <1>1, AlwaysInv, PTL

(***************************************************************************)
(* However WithArgs and WithoutArgs were called, an expectation accepts    *)
(* exactly the arguments that were asked for.                              *)
(***************************************************************************)
THEOREM ArgsAsAskedAlways == Spec => []ArgsAsAsked
<1>1. Inv => ArgsAsAsked
  BY AcceptsAsked DEF ArgsAsAsked
<1> QED
  BY <1>1, AlwaysInv, PTL

(***************************************************************************)
(* Whatever texts were given, an expectation accepts the calls whose text  *)
(* is that of the test but for its spacing, or has it in it, and no other. *)
(***************************************************************************)
THEOREM TextsAsAskedAlways == Spec => []TextsAsAsked
<1>1. Inv => TextsAsAsked
  <2> SUFFICES ASSUME Inv, NEW i \in 1..Len(expected)
               PROVE  AcceptedBy[expected[i].sql] = SimilarTo[asked[i].text]
    BY DEF TextsAsAsked
  <2> DEFINE sql == expected[i].sql
  <2>1. asked[i].text = sql /\ sql \in Texts \cup {NoText}
    <3>1. expected[i] \in Expectation /\ expected[i].sql = asked[i].text
      BY DEF Inv, QueueInv, StoredInv, TypeOK
    <3> QED
      BY <3>1 DEF Expectation
  <2>2. Texts \cup {NoText} \subseteq Seq(Letters) /\ CallTexts \subseteq Seq(Letters)
    <3>1. NoText \in Seq(Letters)
      BY DEF NoText
    <3>2. Texts \cup CallTexts \subseteq Seq(Letters)
      BY BuildersAssumption
    <3> HIDE DEF NoText
    <3> QED
      BY <3>1, <3>2, Zenon
  <2> HIDE DEF sql
  <2>3. ASSUME NEW q \in CallTexts
        PROVE  /\ QueryMatcherEqual(sql, q) <=> LooksLike(sql, q)
               /\ QueryMatcherRegexp(sql, q)
                    <=> /\ OccursIn(sql, q)
                        /\ \A k \in 1..Len(sql) : sql[k] \notin Unbalanced
    BY <2>1, <2>2, EqualForgivesSpacing, RegexpForgivesSpacing
  <2>4. AcceptedTexts(sql) = SimilarTexts(sql)
    <3>1. {q \in CallTexts : QueryMatcherEqual(sql, q)} = {q \in CallTexts : LooksLike(sql, q)}
      BY <2>3
    <3>2. {q \in CallTexts : QueryMatcherRegexp(sql, q)}
            = {q \in CallTexts : /\ OccursIn(sql, q)
                                 /\ \A k \in 1..Len(sql) : sql[k] \notin Unbalanced}
      BY <2>3
    <3> QED
      BY <3>1, <3>2, Zenon DEF AcceptedTexts, SimilarTexts
  <2> QED
    BY <2>1, <2>4 DEF AcceptedBy, SimilarTo, sql
<1> QED
  BY <1>1, AlwaysInv, PTL

(***************************************************************************)
(* What the comments say of WithoutArgs holds of queries: once it has      *)
(* returned no call with arguments is accepted.  It fails for execs only,  *)
(* whose WithArgs may follow (WithoutArgsHolds).                           *)
(***************************************************************************)
QueryWithoutArgs ==
  \A i \in 1..Len(expected) : \A L \in CallLists :
    expected[i].kind = "Query" /\ asked[i].strict /\ Reaches(L) /\ L # <<>> =>
      ~Accepts(expected[i], L)

THEOREM QueryWithoutArgsAlways == Spec => []QueryWithoutArgs
<1>1. ArgsAsAsked => QueryWithoutArgs
  BY DEF ArgsAsAsked, QueryWithoutArgs, AskedFor, HasArgs
<1> QED
  BY <1>1, ArgsAsAskedAlways, PTL

(***************************************************************************)
(* However Rows were filled and given to expectations, reading a row or a  *)
(* column definition stays in bounds.                                      *)
(***************************************************************************)
THEOREM ReadsInBoundsAlways == Spec => []ReadsInBounds
<1>1. Inv => ReadsInBounds
  BY DEF Inv, QueueInv, DefsInv, RowsInv, ReadsInBounds
<1> QED
  BY <1>1, AlwaysInv, PTL

(***************************************************************************)
(* The builds of argsMatches before and since Go 1.8 agree on lists        *)
(* without names whose values are converted to driver values.              *)
(***************************************************************************)
THEOREM SameBeforeGo18Always == Spec => []SameBeforeGo18
<1>1. Inv => SameBeforeGo18
  BY BuildsAgree DEF SameBeforeGo18
<1> QED
  BY <1>1, AlwaysInv, PTL
=============================================================================

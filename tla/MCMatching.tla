----------------------------- MODULE MCMatching -----------------------------
(***************************************************************************)
(* Small instances of module Matching: the queries, arguments, expectation *)
(* templates and driver calls the runs choose from.                        *)
(***************************************************************************)
EXTENDS Matching, TLC

MCConvertValue == [w \in {"1", "2"} |-> w]
MCSqlMatch ==
  {<<"sel", "sel">>, <<"upd", "upd">>, <<"any", "sel">>, <<"any", "upd">>}

\* A QueryMatcher of the test's own that panics when it meets a select where
\* an update is expected.
MCSqlPanic == {<<"upd", "sel">>}
CallerSymmetry == Permutations(Callers)

-----------------------------------------------------------------------------
\* An expectation as its Expect method creates it.
New(k) ==
  [kind |-> k, sql |-> "", withArgs |-> FALSE, args |-> <<>>, noArgs |-> FALSE,
   opts |-> NoOpts, err |-> FALSE, resp |-> FALSE, must |-> FALSE]

(***************************************************************************)
(* An Argument whose Match method accepts "1" and panics on "2": with an   *)
(* error, such as a failed type assertion, or with any other value.        *)
(***************************************************************************)
PanickyArg(how) == [t |-> "matcher", verdict |-> ("1" :> "nil" @@ "2" :> how)]

ReadCommitted == [iso |-> "readCommitted", ro |-> FALSE]
Serializable  == [iso |-> "serializable", ro |-> TRUE]

\* A driver call; the arguments are ordinal ones.
CallOf(k, q, values) ==
  [kind |-> k, sql |-> q, opts |-> ReadCommitted,
   args |-> [i \in 1..Len(values) |->
               [name |-> "", ordinal |-> i, value |-> values[i]]]]

-----------------------------------------------------------------------------
(***************************************************************************)
(* Queries, statements and rows.                                           *)
(***************************************************************************)
SqlExpectations ==
  { [New("Query") EXCEPT !.sql = "any", !.resp = TRUE, !.must = TRUE],
    [New("Query") EXCEPT !.sql = "sel", !.withArgs = TRUE, !.err = TRUE,
                         !.args = <<PanickyArg("panicOther")>>],
    [New("Exec") EXCEPT !.sql = "upd", !.noArgs = TRUE],
    [New("Prepare") EXCEPT !.sql = "upd", !.must = TRUE] }

SqlRequests ==
  { CallOf("Query", "sel", <<"1">>), CallOf("Query", "sel", <<"2">>),
    CallOf("Query", "upd", <<"1">>), CallOf("Exec", "upd", <<>>),
    CallOf("Prepare", "upd", <<>>), CallOf("Prepare", "sel", <<>>) }

(***************************************************************************)
(* Transactions, pings and connections.                                    *)
(***************************************************************************)
TxExpectations ==
  { [New("Begin") EXCEPT !.opts = Serializable], New("Begin"),
    New("Commit"), [New("Rollback") EXCEPT !.err = TRUE], New("Close"),
    New("Ping") }

TxRequests ==
  { CallOf("Begin", "", <<>>), [CallOf("Begin", "", <<>>) EXCEPT !.opts = Serializable],
    CallOf("Commit", "", <<>>), CallOf("Rollback", "", <<>>),
    CallOf("Close", "", <<>>), CallOf("Ping", "", <<>>) }

(***************************************************************************)
(* Few kinds, for mode switches at any time: queries that overlap, one of  *)
(* them with a matcher that panics with a string, and closing.             *)
(***************************************************************************)
MixExpectations ==
  { [New("Query") EXCEPT !.sql = "any", !.resp = TRUE],
    [New("Query") EXCEPT !.sql = "sel", !.withArgs = TRUE,
                         !.args = <<PanickyArg("panicString")>>],
    New("Close") }

LiveRequests ==
  { CallOf("Query", "sel", <<"1">>), CallOf("Query", "sel", <<"2">>),
    CallOf("Close", "", <<>>) }

\* Queries whose matcher panics with a string, and closing, for liveness.
LiveExpectations ==
  { [New("Query") EXCEPT !.sql = "sel", !.withArgs = TRUE, !.err = TRUE,
                         !.args = <<PanickyArg("panicString")>>],
    New("Close") }

PingRequests == LiveRequests \cup {CallOf("Ping", "", <<>>)}

PanickyExpectations ==
  { [New("Query") EXCEPT !.sql = "sel", !.withArgs = TRUE, !.args = <<PanickyArg("panicError")>>,
                         !.resp = TRUE] }

(***************************************************************************)
(* The QueryMatcher panics over the first expectation the scan looks at.   *)
(***************************************************************************)
LostExpectations == { [New("Query") EXCEPT !.sql = "upd", !.resp = TRUE] }

LostRequests == { CallOf("Query", "sel", <<>>), CallOf("Query", "upd", <<>>) }
=============================================================================

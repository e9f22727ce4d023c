------------------------------ MODULE Matchers ------------------------------
(***************************************************************************)
(* When a driver call and an expectation fit together.  These are the      *)
(* conditions the handlers of sqlmock.go and sqlmock_go18.go evaluate on   *)
(* one expectation; how the handlers walk over the list of expectations is *)
(* in module Matching.                                                     *)
(*                                                                         *)
(* An expectation e has the fields kind, sql, withArgs, args, noArgs, opts *)
(* (NoOpts or [iso, ro]), err (a mocked error is set), resp (rows or a     *)
(* result is set) and must (mustBeClosed, rowsMustBeClosed).  A request r  *)
(* has kind, sql, args and opts.                                           *)
(***************************************************************************)
EXTENDS Arguments

CONSTANTS SqlMatch,   \* pairs (expectSQL, query) that the QueryMatcher accepts
          SqlPanic,   \* pairs over which it panics; a test may supply its own
          NoOpts      \* a Begin expectation without WithTxOptions

ByType  == {"Close", "Begin", "Commit", "Rollback", "Ping"}
BySql   == {"Prepare", "Query", "Exec"}
Kinds   == ByType \cup BySql
HasArgs == {"Query", "Exec"}

\* c.queryMatcher.Match(e.expectSQL, query) == nil
SqlMatches(e, r) == <<e.sql, r.sql>> \in SqlMatch \ SqlPanic

\* The same call panics; nothing recovers this panic.
SqlPanics(e, r) == <<e.sql, r.sql>> \in SqlPanic

(***************************************************************************)
(* The test of begin on transaction options.  It fails only when both the  *)
(* isolation level and the read-only flag differ.                          *)
(***************************************************************************)
TxOptsDiffer(e, r) ==
  /\ e.opts # NoOpts
  /\ e.opts.iso # r.opts.iso
  /\ e.opts.ro # r.opts.ro

(***************************************************************************)
(* What makes the unordered scan stop at an unfulfilled expectation: its   *)
(* type alone, or its type, its SQL and (for Query and Exec) its arguments *)
(* as attemptArgMatch sees them.                                           *)
(***************************************************************************)
Selects(e, r) ==
  /\ e.kind = r.kind
  /\ r.kind \in BySql   => SqlMatches(e, r)
  /\ r.kind \in HasArgs => AttemptArgMatch(e, r.args) = "nil"

\* The unordered scan panics while it looks at the expectation.
ScanPanics(e, r) ==
  /\ e.kind = r.kind
  /\ r.kind \in BySql
  /\ \/ SqlPanics(e, r)
     \/ /\ r.kind \in HasArgs /\ SqlMatches(e, r)
        /\ AttemptArgMatch(e, r.args) \in Panics

(***************************************************************************)
(* The checks a handler makes on the expectation it stopped at, before it  *)
(* sets triggered.                                                         *)
(***************************************************************************)
Verdict(e, r) ==
  IF r.kind \in BySql /\ SqlPanics(e, r) THEN "panicOther"
  ELSE IF \/ r.kind = "Begin" /\ TxOptsDiffer(e, r)
          \/ r.kind \in BySql /\ ~SqlMatches(e, r)
       THEN "err"
  ELSE IF r.kind \in HasArgs THEN ArgsMatches(e, r.args) ELSE "nil"
=============================================================================

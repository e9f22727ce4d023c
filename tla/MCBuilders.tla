----------------------------- MODULE MCBuilders -----------------------------
(***************************************************************************)
(* A small instance of module Builders.                                    *)
(***************************************************************************)
EXTENDS Builders, TLC

(***************************************************************************)
(* Values: "one" is an int, converted to the int64 "1"; "odd" is converted *)
(* to something that is not a driver value; "bad" cannot be converted, nor *)
(* can the output parameter "out".                                         *)
(***************************************************************************)
MCConvertValue ==
  "1" :> "1" @@ "one" :> "1" @@ "odd" :> "odd" @@ "bad" :> "err" @@ "out" :> "err"
MCDriverValues == {"1", "x", "null"}

MCFieldValue == "NULL" :> "null" @@ "x" :> "x"

Plain(w)    == [t |-> "plain", value |-> w]
Named(n, w) == [t |-> "named", name |-> n, value |-> w]
Arg(n, w)   == [name |-> n, value |-> w]

MCArgLists ==
  { <<>>, <<Plain("one")>>, <<Named("n", "1"), AnyArg({"1", "odd", "out"})>>,
    <<Plain("out")>> }

MCCallLists ==
  { <<>>, <<Arg("", "1")>>, <<Arg("n", "one")>>, <<Arg("", "out")>>,
    <<Arg("n", "one"), Arg("", "out")>>, <<Arg("", "1"), Arg("", "odd")>> }

MCTxOptions == {[iso |-> "serializable", ro |-> TRUE]}

-----------------------------------------------------------------------------
(***************************************************************************)
(* Letters: "~" is a no-break space, which TrimSpace removes but \s is not.*)
(***************************************************************************)
MCLetters       == {"a", "b", "c", "(", " ", "|", "~"}
MCSpaces        == {" ", "|"}
MCUnicodeSpaces == {" ", "|", "~"}

MCTexts == { <<" ">>, <<"b", "(">>, <<"a", "|", " ", "b", "~">> }

MCCallTexts ==
  MCTexts \cup { <<>>, <<"b">>, <<"a", "b">>, <<"a", " ", "b">>, <<"a", "~", " ", "b">>,
    <<"c", "a", "|", "b", "|">>, <<"~", "a", " ", "b", " ", "(">> }

-----------------------------------------------------------------------------
(***************************************************************************)
(* Rows: one column without definition, two with.                          *)
(***************************************************************************)
MCCols     == [r \in {"plain", "defined"} |-> IF r = "plain" THEN 1 ELSE 2]
MCDefined  == {"defined"}
MCSetLists == {<<>>, <<"plain">>, <<"defined", "defined">>, <<"defined", "nil">>}

MCValueLists == {<<"one">>, <<"one", "odd">>, <<"bad">>}
MCCsvTexts   == {<< <<"x">>, <<"NULL">> >>, << <<"NULL", "x">>, <<"x">> >>}
=============================================================================

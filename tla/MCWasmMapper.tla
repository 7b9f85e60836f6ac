--------------------------- MODULE MCWasmMapper ---------------------------
EXTENDS WasmMapper

CONSTANTS c1, c2

MCCallers == {c1, c2}

(* The only json text that changes: its keys are put in order.             *)
MCnormalizeJson(s) == IF s = <<"{", "b", "a", "}">> THEN <<"{", "a", "b", "}">> ELSE s

(* Texts as PostgreSQL writes them.  A column with no type of its own is   *)
(* one of the relation only.                                               *)
MCCells(type) ==
  CASE type = "decimal" -> {<<"1", "0">>, <<"1", "0", ".", "5", "0">>, <<"0", ".", "0">>}
    [] type = "double precision" ->
         {<<"-", "Infinity">>, <<"1", "e", "+", "20">>, <<"1", "e", "+", "21">>}
    [] type = "timestamp without time zone" -> {<<WholeSecond>>, <<WholeSecond, ".", "5">>}
    [] type = "timestamp with time zone" -> {<<WholeSecond, "+00">>}
    [] type = "jsonb" -> {<<"{", "b", "a", "}">>}
    [] type = "boolean" -> {<<"t">>, <<"f">>}
    [] type = "character" -> {<<"1", " ">>}
    [] type = "text" -> {Nil, <<>>, <<"1">>}
    [] type = "integer" -> {<<"1">>}
    [] OTHER -> {Nil}

Both(name, type) == [name |-> name, source |-> TRUE, target |-> TRUE, type |-> type]

(* The relation has the columns in another order, and the key, which the   *)
(* definition need not list.                                               *)
Decimals == [columns |-> <<Both("a", "decimal"), Both("b", "integer")>>, relation |-> <<"id", "b", "a">>]
Numbers ==
  [columns |-> <<Both("a", "double precision"), Both("b", "timestamp without time zone")>>,
   relation |-> <<"b", "a">>]
Others ==
  [columns |-> <<Both("a", "timestamp with time zone"), Both("b", "jsonb")>>,
   relation |-> <<"b", "a">>]
OneSided ==
  [columns |-> <<Both("a", "text"),
                 [name |-> "b", source |-> FALSE, target |-> TRUE, type |-> "integer"],
                 [name |-> "c", source |-> TRUE, target |-> FALSE, type |-> "integer"]>>,
   relation |-> <<"c", "a">>]
TooWide ==
  [columns |-> [i \in 1 .. 4 |-> Both(<<"a", "b", "c", "d">>[i], "integer")],
   relation |-> <<"a", "b", "c", "d">>]
TargetTooWide ==
  [columns |-> [i \in 1 .. 4 |-> [name |-> <<"a", "b", "c", "d">>[i], source |-> i < 3,
                                  target |-> TRUE, type |-> "integer"]],
   relation |-> <<"a", "b">>]

MCTables == {Decimals, Numbers, Others, OneSided, TooWide, TargetTooWide}

(* The tables of one column whose texts do not agree.                      *)
Single(type) == [columns |-> <<Both("a", type)>>, relation |-> <<"a">>]
MCRecast == {Single("boolean"), Single("character")}
=============================================================================

------------------------------ MODULE RowText ------------------------------
(***************************************************************************)
(* The texts a row is hashed by.  A source row has two, one of the row     *)
(* itself and the common text, which is what the row should look like on   *)
(* the target.  Each is built in two places: a scan makes a database       *)
(* concatenate the columns, while a change out of the replication stream   *)
(* goes through the Go and WASM code.  Only if both build the same text is *)
(* a signature that differs a row that differs.                            *)
(*                                                                         *)
(* A text is a sequence of tokens.  A token is a character, or a word of   *)
(* which the code only asks whether it is there: the date and time up to   *)
(* the second, an exponent, "Infinity", the ghost that stands for NULL.    *)
(***************************************************************************)
EXTENDS Naturals, Sequences, SequencesExt, FiniteSetsExt

CONSTANTS
  Nil,        \* a NULL, whose type is any
  MaxCols,    \* the columns a guest has room for
  OutputSize, \* the tokens its output has room for
  normalizeJson(_) \* a json text with its keys sorted and no blanks

Ghost == "ghost"
WholeSecond == "2024-01-15 12:34:56"

\* The source's tokens, and those that are added or put in their place.
Token == STRING \cup {Ghost, "true", "false", "0", "-", "inf", "nan", ".", "000000"}

\* The types of a source column, by family.
Types ==
  [integer |-> {"smallint", "integer", "bigint"}, decimal |-> {"decimal"},
   float |-> {"real", "double precision"}, string |-> {"character varying", "character", "text"},
   binary |-> {"bytea"}, date |-> {"date"},
   datetime |-> {"timestamp without time zone", "timestamp with time zone"},
   boolean |-> {"boolean"}, uuid |-> {"uuid"}, json |-> {"json", "jsonb"}]

Family(type) == CHOOSE f \in DOMAIN Types : type \in Types[f]

-----------------------------------------------------------------------------
(* A table is a sequence of columns [name, source, target, type], where    *)
(* source and target say whether the column has a type on that side, and   *)
(* type is the source's.  A row gives each name Nil or the text that       *)
(* PostgreSQL's output function of the type writes.                        *)

SourceColumns(columns) == SelectSeq(columns, LAMBDA c : c.source)
TargetColumns(columns) == SelectSeq(columns, LAMBDA c : c.target)

\* Aligned: both sides have the same columns.
Aligned(columns) == SourceColumns(columns) = TargetColumns(columns)

-----------------------------------------------------------------------------
(* PostgreSQL: the stream has a value as its type writes it, and a scan    *)
(* casts it to text, which for most types is the same.                     *)

WithoutTrailing(s, c) ==
  SubSeq(s, 1, Max({0} \cup {i \in DOMAIN s : s[i] # c}))

\* The types with a cast of their own: "t" becomes "true", and a character(n)
\* loses the blanks that fill it up.
RecastTypes == {"boolean", "character"}

CastText(type, value) ==
  IF value = Nil \/ type \notin RecastTypes THEN value
  ELSE IF type = "character" THEN WithoutTrailing(value, " ")
  ELSE IF value = <<"t">> THEN <<"true">> ELSE <<"false">>

\* COALESCE(%s::text, ghost) || ..., evaluated by the source's database.
Coalesced(value) == IF value = Nil THEN <<Ghost>> ELSE value

ScannedText(columns, row) ==
  FlattenSeq([i \in DOMAIN columns |->
                Coalesced(CastText(columns[i].type, row[columns[i].name]))])

\* What a relation message names: the columns of the table in their own
\* order, and columns the configuration leaves out.
TypeOf(columns, name) ==
  IF \E i \in DOMAIN columns : columns[i].name = name
  THEN (CHOOSE c \in ToSet(columns) : c.name = name).type
  ELSE "unlisted"

Tuple(relation, row, toast) ==
  [i \in DOMAIN relation |->
     LET name == relation[i] IN
     IF row[name] = Nil THEN [kind |-> "n"]
     ELSE IF name \in toast THEN [kind |-> "u"]
     ELSE [kind |-> "t", data |-> row[name]]]

-----------------------------------------------------------------------------
(* The consumer                                                            *)

\* A column of the stream that was not sent, as it is large and did not
\* change, is NULL.
parseRow(relation, tuple) ==
  [name \in ToSet(relation) |->
     LET i == CHOOSE i \in DOMAIN relation : relation[i] = name
     IN IF tuple[i].kind = "t" THEN tuple[i].data ELSE Nil]

\* Mutant: the columns as the stream has them.
ValuesByPosition(columns, relation, tuple) ==
  [i \in DOMAIN SourceColumns(columns) |-> parseRow(relation, tuple)[relation[i]]]

ValuesArray(columns, relation, tuple) ==
  LET values == parseRow(relation, tuple)
      source == SourceColumns(columns)
  IN [i \in DOMAIN source |->
        IF source[i].name \in DOMAIN values THEN values[source[i].name] ELSE Nil]

\* Mutant: a NULL leaves no trace.
WithoutNulls(values) ==
  FlattenSeq([i \in DOMAIN values |-> IF values[i] = Nil THEN <<>> ELSE values[i]])

FormatSource(values) ==
  FlattenSeq([i \in DOMAIN values |-> IF values[i] = Nil THEN <<Ghost>> ELSE values[i]])

-----------------------------------------------------------------------------
(* The mapper of PeerDB's pipeline                                         *)

transformFloatString(s) ==
  CASE s = <<"Infinity">> -> <<"inf">>
    [] s = <<"-", "Infinity">> -> <<"-", "inf">>
    [] s = <<"NaN">> -> <<"nan">>
    [] OTHER -> LET exponent(i) == s[i] = "+" /\ i > 1 /\ s[i - 1] = "e"
                IN FlattenSeq([i \in DOMAIN s |-> IF exponent(i) THEN <<>> ELSE <<s[i]>>])

\* Mutant: zeros are dropped wherever a number ends with them.
TrimAlways(s) == WithoutTrailing(WithoutTrailing(s, "0"), ".")

transformDecimalString(s) ==
  IF "." \notin ToSet(s) THEN s
  ELSE WithoutTrailing(WithoutTrailing(s, "0"), ".")

\* Only a time without a fraction has the length that is asked for.
transformDatetimeString(s) ==
  IF s = <<WholeSecond>> THEN s \o <<".", "000000">> ELSE s

transformSourceCell(cell, family) ==
  IF cell = Nil THEN <<"0">>
  ELSE CASE family = "float" -> transformFloatString(cell)
         [] family = "decimal" -> transformDecimalString(cell)
         [] family = "datetime" -> transformDatetimeString(cell)
         [] family = "json" -> normalizeJson(cell)
         [] OTHER -> cell

\* The generic mapper, which knows no families.
canonicalize(values) == FormatSource(values)

-----------------------------------------------------------------------------
(* The pipelines and the target.  Sling copies values into a PostgreSQL    *)
(* table of the same types.  PeerDB's target is ClickHouse, which stores   *)
(* numbers and times, and casts them in a form of its own.                 *)

\* The shortest text of the number: no digit after it but zeros.
ShortestDecimal(s) ==
  LET point == CHOOSE i \in DOMAIN s : s[i] = "."
      ends == {n \in point - 1 .. Len(s) :
                 n # point /\ \A i \in n + 1 .. Len(s) : s[i] \in {"0", "."}}
  IN IF "." \in ToSet(s) THEN SubSeq(s, 1, Min(ends)) ELSE s

\* The exponents PostgreSQL writes and ClickHouse does not: from 1e-6 up to 1e21
\* it writes no exponent, and below it writes 1e-9 for 1e-09.
SourceExponents ==
  {"+"} \X {"06", "07", "08", "09", "10", "11", "12", "13", "14", "15", "16", "17", "18", "19", "20"}
    \cup {"-"} \X {"05", "06", "07", "08", "09"}

HasSourceExponent(s) ==
  \E i \in DOMAIN s : i + 2 \in DOMAIN s /\ s[i] = "e" /\ <<s[i + 1], s[i + 2]>> \in SourceExponents

\* "1e+21" is 1e21; the words of IEEE 754 are in lower case.  A number with one
\* of the exponents above has a text that is not spelled out here.
TargetFloat(s) ==
  LET lower == [Infinity |-> "inf", NaN |-> "nan"]
      token(t) == IF t = "+" THEN <<>> ELSE IF t \in DOMAIN lower THEN <<lower[t]>> ELSE <<t>>
  IN IF HasSourceExponent(s) THEN <<"respelled">> \o s
     ELSE FlattenSeq([i \in DOMAIN s |-> token(s[i])])

\* DateTime64(6) has no zone and six digits, of which the source drops the zeros
\* at the end.
TargetDatetime(s) ==
  IF "." \in ToSet(s) THEN SubSeq(s, 1, 3) \o <<"00000">> ELSE <<s[1]>> \o <<".", "000000">>

\* What the target's text of a value is.  For json, bytes and booleans it is what
\* the pipeline stores, which nothing here says.
TargetText(mapper, type, value) ==
  IF value = Nil THEN value
  ELSE IF mapper = "generic" THEN CastText(type, value)
  ELSE CASE Family(type) = "float" -> TargetFloat(value)
         [] Family(type) = "decimal" -> ShortestDecimal(value)
         [] Family(type) = "datetime" -> TargetDatetime(value)
         [] OTHER -> value

\* The values whose text on PeerDB's target is known and that its mapper is right
\* about: whole seconds without a zone, no NULL, no exponent of PostgreSQL's own.
Canonical(type, value) ==
  /\ value # Nil
  /\ type \notin RecastTypes /\ Family(type) \notin {"binary", "json"}
  /\ Family(type) = "datetime" => Len(value) = 1
  /\ Family(type) = "float" => ~HasSourceExponent(value)

\* ifNull(CAST(%s AS String), ghost), or COALESCE, evaluated by the target.
ScannedTargetText(mapper, columns, row) ==
  FlattenSeq([i \in DOMAIN TargetColumns(columns) |->
     LET c == TargetColumns(columns)[i]
     IN Coalesced(TargetText(mapper, c.type, row[c.name]))])
=============================================================================

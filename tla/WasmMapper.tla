----------------------------- MODULE WasmMapper -----------------------------
(***************************************************************************)
(* WasmMapper, which runs a mapper in a WASM guest, and the guest.  The    *)
(* guest has one output and one error message for all calls and keeps the  *)
(* regions its host asks for until the host gives them back, so the host   *)
(* has to copy the output before anyone calls again and to free the region *)
(* on every way out.  Any call of the guest may trap, that of dealloc too. *)
(*                                                                         *)
(* The callers of Transform* are concurrent, as the type allows.           *)
(***************************************************************************)
EXTENDS RowText, FiniteSets

CONSTANTS
  Tables,       \* the tables: [columns, relation]
  Cells(_),     \* a type's texts and NULL
  ToastTypes,   \* the types of columns that may be too large for a message
  Callers, Constructor, Nobody,
  Regions       \* the numbers of the regions a guest can give at one time

ASSUME CallersAssumption == Constructor \notin Callers /\ Nobody \notin Callers \cup {Constructor}

\* NULL is no text.
ASSUME NilAssumption == Nil \notin Seq(Token)

ASSUME SizesAssumption == MaxCols \in Nat /\ OutputSize \in Nat /\ Regions \subseteq Nat

\* No two columns of a table have one name, and the source's relation has all
\* source columns, which are a sequence of the table's.
ASSUME TablesAssumption ==
  \A t \in Tables :
    /\ \A c \in ToSet(t.columns) : c.type \in UNION {Types[f] : f \in DOMAIN Types}
    /\ \A c, d \in ToSet(t.columns) : c.name = d.name => c = d
    /\ SourceColumns(t.columns) \in Seq({c \in ToSet(t.columns) : c.name \in ToSet(t.relation)})

\* What PostgreSQL writes: never the ghost for something that is not NULL, one
\* point in a decimal, a plus sign only in front of an exponent, and words for
\* what is no number.
WrittenAs(type, text) ==
  /\ text \in Seq(Token) /\ text # <<Ghost>>
  /\ type = "boolean" => text \in {<<"t">>, <<"f">>}
  /\ Family(type) = "decimal" =>
       \A i, j \in DOMAIN text : text[i] = "." /\ text[j] = "." => i = j
  /\ Family(type) = "float" =>
       \/ text \in {<<"Infinity">>, <<"-", "Infinity">>, <<"NaN">>}
       \/ \A i \in DOMAIN text :
            /\ text[i] \notin {"Infinity", "NaN"}
            /\ text[i] = "+" => i > 1 /\ text[i - 1] = "e"
  /\ Family(type) = "datetime" /\ Len(text) = 1 => text = <<WholeSecond>>
  /\ Family(type) = "json" => normalizeJson(text) \in Seq(Token)

ASSUME CellsAssumption ==
  \A t \in Tables : \A n \in ToSet(t.relation) :
    \A text \in Cells(TypeOf(t.columns, n)) \ {Nil} : WrittenAs(TypeOf(t.columns, n), text)

VARIABLES
  table,        \* the table the mapper is for
  runtime,      \* "none", "open", "instantiated", "ready" or "closed"
  pc,           \* where each caller is
  call,         \* its call: the row, what of it was sent, the values
  ptr,          \* its region, or Nobody
  result,       \* what its call returned or will return
  mu,           \* who holds the mutex
  regions,      \* the guest's regions: whom each was given to, and its content
  leaked,       \* those that the host has given up and the guest still has
  families,     \* the guest's schema: the families of the source columns
  output, err   \* its output and its message, Nil if there is none yet

guest == <<regions, leaked, families, output, err>>
vars == <<table, runtime, pc, call, ptr, result, mu, regions, leaked, families, output, err>>

Parties == Callers \cup {Constructor}
Failed(why) == [ok |-> FALSE, text |-> why]
Text(t) == [ok |-> TRUE, text |-> t]

\* The rows of a table: every name of the relation has a cell of its type.
Rows(t) ==
  {r \in [ToSet(t.relation) -> UNION {Cells(TypeOf(t.columns, n)) : n \in ToSet(t.relation)}] :
     \A n \in DOMAIN r : r[n] \in Cells(TypeOf(t.columns, n))}

Toastable(t, row) ==
  {n \in ToSet(t.relation) : row[n] \notin {Nil, <<>>} /\ TypeOf(t.columns, n) \in ToastTypes}

\* Of a target column only its being there matters: what is transformed is rows
\* of the source.
SourceFamilies(t) ==
  [i \in DOMAIN SourceColumns(t.columns) |-> Family(SourceColumns(t.columns)[i].type)]
TargetFamilies(t) == [i \in DOMAIN TargetColumns(t.columns) |-> "any"]

-----------------------------------------------------------------------------
(* The guest                                                               *)

\* Mutant: columns are not counted.
set_schemaUnbounded(schema) == [rc |-> 0, families |-> schema.source, err |-> err]

\* The source's families are loaded, then the target's.  Their names are short
\* enough for the store that both are kept in: it is the columns that are counted.
set_schema(schema) ==
  IF Len(schema.source) > MaxCols THEN [rc |-> 1, families |-> <<>>, err |-> "schema-too-large"]
  ELSE IF Len(schema.target) > MaxCols
       THEN [rc |-> 1, families |-> schema.source, err |-> "schema-too-large"]
       ELSE [rc |-> 0, families |-> schema.source, err |-> err]

\* The output so far stays when a row does not fit.
transformRow(values) ==
  LET text == FlattenSeq([i \in DOMAIN values |-> transformSourceCell(values[i], families[i])])
  IN IF Len(values) # Len(families)
     THEN [rc |-> 0, output |-> output, err |-> "row-length-mismatch"]
     ELSE IF Len(text) > OutputSize
     THEN [rc |-> 0, output |-> SubSeq(text, 1, OutputSize), err |-> "write-failed"]
     ELSE [rc |-> 1, output |-> text, err |-> err]

-----------------------------------------------------------------------------
(* A call of the guest                                                     *)

Goto(c, label) == pc' = [pc EXCEPT ![c] = label]
Leave(c, r, label) == result' = [result EXCEPT ![c] = r] /\ Goto(c, label)

\* A row of the stream, or of a scan, is there to be mapped.
Transform(c) ==
  /\ runtime = "ready"
  /\ pc[c] = "idle"
  /\ \E row \in Rows(table) : \E toast \in SUBSET Toastable(table, row) :
       call' = [call EXCEPT ![c] =
         [row |-> row, toast |-> toast,
          values |-> ValuesArray(table.columns, table.relation,
                                 Tuple(table.relation, row, toast))]]
  /\ Goto(c, "lock")
  /\ UNCHANGED <<table, runtime, ptr, result, mu, guest>>

\* Mutant: calls are not serialized.
LockNothing(c) ==
  /\ pc[c] = "lock"
  /\ Goto(c, "alloc")
  /\ UNCHANGED <<table, runtime, call, ptr, result, mu, guest>>

Lock(c) ==
  /\ pc[c] = "lock"
  /\ mu = Nobody
  /\ mu' = c
  /\ Goto(c, "alloc")
  /\ UNCHANGED <<table, runtime, call, ptr, result, guest>>

AllocTo(c) ==
  /\ pc[c] = "alloc"
  /\ Regions # DOMAIN regions
  /\ LET p == Min(Regions \ DOMAIN regions) IN
       /\ regions' = [q \in DOMAIN regions \cup {p} |-> IF q = p THEN [of |-> c, content |-> Nil] ELSE regions[q]]
       /\ ptr' = [ptr EXCEPT ![c] = p]
  /\ Goto(c, "write")
  /\ UNCHANGED <<table, runtime, call, result, mu, leaked, families, output, err>>

\* Mutant: the mutex is unlocked by hand, but not here.
AllocFailsLocked(c) ==
  /\ pc[c] = "alloc"
  /\ Goto(c, "idle")
  /\ UNCHANGED <<table, runtime, call, ptr, result, mu, guest>>

\* The call traps, or the guest has no memory.
AllocFails(c) ==
  /\ pc[c] = "alloc"
  /\ Leave(c, Failed("host"), "unlock")
  /\ UNCHANGED <<table, runtime, call, ptr, mu, guest>>

Payload(c) ==
  IF c = Constructor
  THEN [source |-> SourceFamilies(table), target |-> TargetFamilies(table)]
  ELSE call[c].values

Write(c) ==
  /\ pc[c] = "write"
  /\ regions' = [regions EXCEPT ![ptr[c]].content = Payload(c)]
  /\ Goto(c, "call")
  /\ UNCHANGED <<table, runtime, call, ptr, result, mu, leaked, families, output, err>>

\* Mutant: the deferred call of free comes later.
WriteFailsKeeping(c) ==
  /\ pc[c] = "write"
  /\ Leave(c, Failed("host"), "unlock")
  /\ UNCHANGED <<table, runtime, call, ptr, mu, guest>>

\* The region is not in the guest's memory.
WriteFails(c) ==
  /\ pc[c] = "write"
  /\ Leave(c, Failed("host"), "free")
  /\ UNCHANGED <<table, runtime, call, ptr, mu, guest>>

CallSetSchema ==
  LET c == Constructor
      answer == set_schema(regions[ptr[c]].content)
  IN /\ pc[c] = "call"
     /\ families' = answer.families
     /\ err' = answer.err
     /\ IF answer.rc = 0 THEN Leave(c, Text(<<>>), "free")
        ELSE Goto(c, "error") /\ UNCHANGED result
     /\ UNCHANGED <<table, runtime, call, ptr, mu, regions, leaked, output>>

CallTransform(c) ==
  LET answer == transformRow(regions[ptr[c]].content)
  IN /\ c \in Callers
     /\ pc[c] = "call"
     /\ output' = answer.output
     /\ err' = answer.err
     /\ Goto(c, IF answer.rc = 0 THEN "error" ELSE "read")
     /\ UNCHANGED <<table, runtime, call, ptr, result, mu, regions, leaked, families>>

CallTraps(c) ==
  /\ pc[c] = "call"
  /\ Leave(c, Failed("host"), "free")
  /\ UNCHANGED <<table, runtime, call, ptr, mu, guest>>

\* "string() copies; out aliases module memory".
Read(c) ==
  /\ pc[c] = "read"
  /\ Leave(c, Text(output), "free")
  /\ UNCHANGED <<table, runtime, call, ptr, mu, guest>>

\* readError: the guest's message, or none if its call traps.
ReadError(c) ==
  /\ pc[c] = "error"
  /\ \E why \in {err, "unknown-error"} : Leave(c, Failed(why), "free")
  /\ UNCHANGED <<table, runtime, call, ptr, mu, guest>>

Free(c) ==
  /\ pc[c] = "free"
  /\ regions' = [p \in DOMAIN regions \ {ptr[c]} |-> regions[p]]
  /\ ptr' = [ptr EXCEPT ![c] = Nobody]
  /\ Goto(c, "unlock")
  /\ UNCHANGED <<table, runtime, call, result, mu, leaked, families, output, err>>

\* dealloc traps; its answer is not asked for, and the region stays.
FreeFails(c) ==
  /\ pc[c] = "free"
  /\ leaked' = leaked \cup {ptr[c]}
  /\ ptr' = [ptr EXCEPT ![c] = Nobody]
  /\ Goto(c, "unlock")
  /\ UNCHANGED <<table, runtime, call, result, mu, regions, families, output, err>>

\* A caller takes its result and goes on to other rows.
Unlock(c) ==
  /\ pc[c] = "unlock"
  /\ mu' = Nobody
  /\ IF c = Constructor
     THEN Goto(c, "returned") /\ UNCHANGED <<call, result>>
     ELSE /\ Goto(c, "idle")
          /\ call' = [call EXCEPT ![c] = Nil]
          /\ result' = [result EXCEPT ![c] = Nil]
  /\ UNCHANGED <<table, runtime, ptr, guest>>

-----------------------------------------------------------------------------
(* NewWasmMapperFromBinary                                                 *)

\* The runtime is closed on the spot, or by Close.
Abandon ==
  /\ runtime' = "closed"
  /\ UNCHANGED <<table, pc, call, ptr, result, mu, guest>>

Instantiate ==
  /\ runtime = "none"
  /\ runtime' = "open"
  /\ UNCHANGED <<table, pc, call, ptr, result, mu, guest>>

\* A binary that does not compile or instantiate, lacks an export or has
\* another version.
InstantiateFails == runtime = "open" /\ Abandon

\* The exports are there and the version is the host's.
CheckExports ==
  /\ runtime = "open"
  /\ runtime' = "instantiated"
  /\ Goto(Constructor, "lock")
  /\ UNCHANGED <<table, call, ptr, result, mu, guest>>

SchemaUploaded ==
  /\ runtime = "instantiated"
  /\ pc[Constructor] = "returned"
  /\ result[Constructor].ok
  /\ runtime' = "ready"
  /\ UNCHANGED <<table, pc, call, ptr, result, mu, guest>>

SchemaRejected ==
  /\ runtime = "instantiated"
  /\ pc[Constructor] = "returned"
  /\ ~result[Constructor].ok
  /\ Abandon

-----------------------------------------------------------------------------
Init ==
  /\ table \in Tables
  /\ runtime = "none"
  /\ pc = [c \in Parties |-> "idle"]
  /\ call = [c \in Parties |-> Nil]
  /\ ptr = [c \in Parties |-> Nobody]
  /\ result = [c \in Parties |-> Nil]
  /\ mu = Nobody
  /\ regions = <<>>
  /\ leaked = {}
  /\ families = <<>>
  /\ output = Nil
  /\ err = Nil

GuestCall(c) ==
  \/ Lock(c)
  \/ AllocTo(c) \/ AllocFails(c)
  \/ Write(c) \/ WriteFails(c)
  \/ CallTransform(c) \/ CallTraps(c)
  \/ Read(c) \/ ReadError(c)
  \/ Free(c) \/ FreeFails(c) \/ Unlock(c)

Construct ==
  Instantiate \/ InstantiateFails \/ CheckExports \/ SchemaUploaded \/ SchemaRejected

Next ==
  \/ Construct
  \/ CallSetSchema
  \/ \E c \in Callers : Transform(c)
  \/ \E c \in Parties : GuestCall(c)

Spec == Init /\ [][Next]_vars

\* A goroutine that can go on does, and the mutex starves nobody.
Fairness ==
  /\ WF_vars(CallSetSchema)
  /\ \A c \in Parties : WF_vars(GuestCall(c))
  /\ \A c \in Callers : SF_vars(Lock(c))
FairSpec == Spec /\ Fairness

-----------------------------------------------------------------------------
(* Properties                                                              *)

TypeOK ==
  /\ table \in Tables
  /\ runtime \in {"none", "open", "instantiated", "ready", "closed"}
  /\ pc \in [Parties -> {"idle", "lock", "alloc", "write", "call", "read", "error",
                         "free", "unlock", "returned"}]
  /\ ptr \in [Parties -> Regions \cup {Nobody}]
  /\ mu \in Parties \cup {Nobody}
  /\ DOMAIN regions \subseteq Regions /\ leaked \subseteq Regions
  /\ families \in Seq(DOMAIN Types) /\ Len(families) <= MaxCols
  /\ output # Nil => Len(output) <= OutputSize

Mapped(c) ==
  FlattenSeq([i \in DOMAIN call[c].values |->
    transformSourceCell(call[c].values[i], SourceFamilies(table)[i])])

\* "Calls are serialized with a mutex because they share the module's linear
\* memory": what a call returns is the whole common text of its own row, or
\* an error.  Host and guest agree on the number of columns.
OwnText ==
  \A c \in Callers :
    pc[c] = "unlock" =>
      /\ result[c].ok => result[c].text = Mapped(c)
      /\ ~result[c].ok => result[c].text # "row-length-mismatch"

\* "Caller must free it": between calls the guest holds nothing for its host but
\* what its own dealloc trapped on, on whichever way out the last call was.
LeavesNothing ==
  mu = Nobody => DOMAIN regions = leaked /\ \A c \in Parties : ptr[c] = Nobody

\* A row is about to be written to the guest, and no column is left out.
SentWhole(c) == pc[c] = "write" /\ call[c].toast = {}

\* No type of the table has a cast of its own.
SentAsScanned == \A c \in ToSet(SourceColumns(table.columns)) : c.type \notin RecastTypes

\* A change that was sent whole has the text, so the signature, that a scan of
\* the source has for the row, in a table without booleans and character(n):
\* columns are found by name in the order of the table's definition.
ChangeTextIsScanText ==
  \A c \in Callers :
    SentWhole(c) /\ SentAsScanned =>
      FormatSource(call[c].values) = ScannedText(SourceColumns(table.columns), call[c].row)

\* The consumer "reproduces both the source and destination hashes for every
\* changed row": here, the source's.
EveryChangeReproduced ==
  \A c \in Callers :
    pc[c] = "write" =>
      FormatSource(call[c].values) = ScannedText(SourceColumns(table.columns), call[c].row)

\* A row that the pipeline brought over has the common text as its text in
\* the target: for the generic mapper if no type has a cast of its own, for
\* PeerDB's if every value is Canonical.
CommonTextIsTargetText ==
  \A c \in Callers :
    SentWhole(c) /\ Aligned(table.columns) =>
      /\ SentAsScanned =>
           canonicalize(call[c].values) = ScannedTargetText("generic", table.columns, call[c].row)
      /\ (\A i \in DOMAIN call[c].values :
            Canonical(SourceColumns(table.columns)[i].type, call[c].values[i])) =>
           Mapped(c) = ScannedTargetText("peer_db", table.columns, call[c].row)

\* Rows that differ in one source column never have one text, although
\* nothing separates the columns, if no type has a cast of its own.
EveryChangeShows ==
  \A c \in Callers :
    SentWhole(c) /\ SentAsScanned =>
      \A other \in Rows(table) :
        Cardinality({i \in DOMAIN SourceColumns(table.columns) :
                       LET n == SourceColumns(table.columns)[i].name
                       IN other[n] # call[c].row[n]}) = 1 =>
          FormatSource(call[c].values) # ScannedText(SourceColumns(table.columns), other)

\* Every call returns, however often the guest traps.
CallReturns == \A c \in Callers : pc[c] = "lock" ~> pc[c] = "idle"
=============================================================================

-------------------------- MODULE WasmMapperProofs --------------------------
(***************************************************************************)
(* For any number of callers, tables, regions and traps: what a caller is  *)
(* given is the text of its own row, and a guest nobody is calling holds   *)
(* for its host just what it would not take back.                          *)
(*                                                                         *)
(* For tables of any width: where no type has a cast of its own, the text  *)
(* of a change is the text a scan has for the row, and rows that differ in *)
(* one column differ in text; the common text is that of the target where  *)
(* every value is one the mapper is right about.                           *)
(***************************************************************************)
EXTENDS WasmMapper, FiniteSetTheorems, SequenceTheorems, WellFoundedInduction, TLAPS

(***************************************************************************)
(* The inductive invariant.                                                *)
(***************************************************************************)
Label ==
  {"idle", "lock", "alloc", "write", "call", "read", "error", "free", "unlock", "returned"}

\* Between Lock and Unlock, and while there is a region to free.
Holding   == {"alloc", "write", "call", "read", "error", "free", "unlock"}
HasRegion == {"write", "call", "read", "error", "free"}

Shape ==
  /\ table \in Tables
  /\ runtime \in {"none", "open", "instantiated", "ready", "closed"}
  /\ pc \in [Parties -> Label]
  /\ mu \in Parties \cup {Nobody}
  /\ DOMAIN call = Parties /\ DOMAIN ptr = Parties /\ DOMAIN result = Parties
  /\ leaked \subseteq Regions

\* One party at a time is inside the guest.
MutexInv == \A c \in Parties : pc[c] \in Holding <=> mu = c

\* But for leaked ones the guest has one region while the party inside has one,
\* and none otherwise.  By the time of the call it holds what the party wrote.
RegionOf(c) ==
  /\ pc[c] \in HasRegion => DOMAIN regions = leaked \cup {ptr[c]} /\ ptr[c] \in Regions \ leaked
  /\ pc[c] \notin HasRegion => ptr[c] = Nobody
  /\ pc[c] = "write" => regions[ptr[c]] = [of |-> c, content |-> Nil]
  /\ pc[c] = "call" => regions[ptr[c]].content = Payload(c)

NoRegion == (\A c \in Parties : pc[c] \notin HasRegion) => DOMAIN regions = leaked

\* Rows are mapped once the guest has the families, and these stay.
SchemaInv ==
  /\ runtime \in {"none", "open"} => pc[Constructor] = "idle"
  /\ pc[Constructor] # "read"
  /\ pc[Constructor] \in {"free", "unlock", "returned"} /\ result[Constructor].ok =>
       families = SourceFamilies(table)
  /\ runtime = "ready" => pc[Constructor] = "returned" /\ families = SourceFamilies(table)

\* What may still become, or is, the answer to a call.
Message == {"schema-too-large", "write-failed"}

CallOf(c) ==
  /\ pc[c] # "idle" => runtime = "ready" /\ Len(call[c].values) = Len(SourceFamilies(table))
  /\ pc[c] = "read" => output = Mapped(c)
  /\ pc[c] = "error" => err \in Message
  /\ pc[c] \in {"free", "unlock"} =>
       /\ result[c].ok => result[c].text = Mapped(c)
       /\ ~result[c].ok => result[c].text # "row-length-mismatch"

WasmInv ==
  /\ Shape /\ MutexInv /\ NoRegion /\ SchemaInv
  /\ \A c \in Parties : RegionOf(c)
  /\ \A c \in Callers : CallOf(c)

-----------------------------------------------------------------------------
(***************************************************************************)
(* Texts.                                                                  *)
(***************************************************************************)
\* Induction as a fact about sets: it has no operator for a parameter.
LEMMA SetInduction ==
  ASSUME NEW S, 0 \in S, \A n \in Nat : n \in S => n + 1 \in S
  PROVE  Nat \subseteq S
<1> SUFFICES ASSUME Nat \ S # {} PROVE FALSE
  OBVIOUS
<1>1. PICK x \in Nat \ S : \A y \in Nat \ S : <<y, x>> \notin OpToRel(<, Nat)
  BY WFMin, NatLessThanWellFounded
<1>2. \A y \in Nat \ S : ~(y < x)
  BY <1>1 DEF OpToRel
<1> QED BY <1>2

\* The beginnings of a sequence of texts, each put together.
Joined(texts, f) ==
  f = [i \in 1..Len(texts) |-> IF i = 1 THEN texts[i] ELSE f[i - 1] \o texts[i]]

\* There is a function that defines itself so.
LEMMA JoinedExists ==
  ASSUME NEW texts, Len(texts) \in Nat
  PROVE  \E f : Joined(texts, f)
<1> DEFINE Upto(n, f) == f = [i \in 1..n |-> IF i = 1 THEN texts[i] ELSE f[i - 1] \o texts[i]]
           S == {n \in Nat : \E f : Upto(n, f)}
<1>1. 0 \in S
  <2>1. Upto(0, [i \in 1..0 |-> texts[i]])
    OBVIOUS
  <2> QED BY <2>1
<1>2. ASSUME NEW n \in Nat, n \in S
      PROVE  n + 1 \in S
  <2>1. PICK f : Upto(n, f)
    BY <1>2
  <2> DEFINE g == [i \in 1..n + 1 |->
                     IF i <= n THEN f[i]
                     ELSE IF i = 1 THEN texts[i] ELSE f[i - 1] \o texts[i]]
  <2>2. ASSUME NEW i \in 1..n + 1
        PROVE  g[i] = IF i = 1 THEN texts[i] ELSE g[i - 1] \o texts[i]
    <3>1. CASE i <= n
      <4>1. i \in 1..n /\ (i # 1 => i - 1 \in 1..n + 1 /\ i - 1 <= n)
        BY <3>1
      <4>2. f[i] = IF i = 1 THEN texts[i] ELSE f[i - 1] \o texts[i]
        BY <2>1, <4>1
      <4> QED BY <3>1, <4>1, <4>2
    <3>2. CASE i = n + 1
      <4>1. ~(i <= n) /\ (i # 1 => i - 1 \in 1..n + 1 /\ i - 1 <= n)
        BY <3>2
      <4> QED BY <4>1
    <3> QED BY <3>1, <3>2
  <2>3. Upto(n + 1, g)
    BY <2>2
  <2> HIDE DEF g
  <2>4. \E f1 : Upto(n + 1, f1)
    BY <2>3
  <2> QED BY <2>4, n + 1 \in Nat
<1> HIDE DEF S
<1>3. Len(texts) \in S
  BY <1>1, <1>2, SetInduction
<1> QED BY <1>3 DEF S, Joined

\* FlattenSeq chooses the only function there is.
LEMMA FlattenIsPrefix ==
  ASSUME NEW texts, Len(texts) \in Nat \ {0}
  PROVE  \E f : Joined(texts, f) /\ FlattenSeq(texts) = f[Len(texts)]
<1>1. PICK g : Joined(texts, g)
  BY JoinedExists
<1> DEFINE flatten == CHOOSE f : f =
             [i \in 1..Len(texts) |-> IF i = 1 THEN texts[i] ELSE f[i - 1] \o texts[i]]
<1>2. flatten = [i \in 1..Len(texts) |-> IF i = 1 THEN texts[i] ELSE flatten[i - 1] \o texts[i]]
  BY <1>1, Zenon DEF Joined
<1>3. FlattenSeq(texts) = flatten[Len(texts)]
  BY Zenon DEF FlattenSeq
<1> HIDE DEF flatten
<1> QED BY <1>2, <1>3 DEF Joined

\* The beginning up to one part is the one before it and that part.
LEMMA PrefixAt ==
  ASSUME NEW texts, NEW f, Joined(texts, f), NEW i \in 1..Len(texts)
  PROVE  f[i] = IF i = 1 THEN texts[i] ELSE f[i - 1] \o texts[i]
<1> DEFINE prefix(n) == IF n = 1 THEN texts[n] ELSE f[n - 1] \o texts[n]
<1>1. f = [n \in 1..Len(texts) |-> prefix(n)]
  BY DEF Joined
<1> HIDE DEF prefix
<1>2. f[i] = prefix(i)
  BY <1>1
<1> QED BY <1>2 DEF prefix

LEMMA PrefixIsText ==
  ASSUME NEW S, NEW texts \in Seq(Seq(S)), NEW f, Joined(texts, f)
  PROVE  \A i \in 1..Len(texts) : f[i] \in Seq(S)
<1> DEFINE T == {n \in Nat : n \in 1..Len(texts) => f[n] \in Seq(S)}
<1>1. Len(texts) \in Nat /\ \A i \in 1..Len(texts) : texts[i] \in Seq(S)
  OBVIOUS
<1>2. 0 \in T
  BY <1>1
<1>3. ASSUME NEW n \in Nat, n \in T
      PROVE  n + 1 \in T
  <2> SUFFICES ASSUME n + 1 \in 1..Len(texts)
               PROVE  f[n + 1] \in Seq(S)
    <3>1. n + 1 \in Nat
      OBVIOUS
    <3> QED BY <3>1, Zenon
  <2>1. f[n + 1] = IF n + 1 = 1 THEN texts[n + 1] ELSE f[n + 1 - 1] \o texts[n + 1]
    BY PrefixAt
  <2>2. CASE n = 0
    BY <1>1, <2>1, <2>2
  <2>3. CASE n # 0
    <3>1. n \in 1..Len(texts) /\ n + 1 # 1 /\ n + 1 - 1 = n
      BY <1>1, <2>3
    <3>2. f[n] \in Seq(S) /\ texts[n + 1] \in Seq(S)
      BY <1>1, <1>3, <3>1
    <3> QED BY <2>1, <3>1, <3>2
  <2> QED BY <2>2, <2>3
<1> HIDE DEF T
<1>4. Nat \subseteq T
  BY <1>2, <1>3, SetInduction
<1> QED BY <1>4 DEF T

\* Texts put together are a text.
LEMMA FlattenIsText ==
  ASSUME NEW S, NEW texts \in Seq(Seq(S))
  PROVE  FlattenSeq(texts) \in Seq(S)
<1>1. CASE Len(texts) = 0
  <2>1. FlattenSeq(texts) = texts
    BY <1>1, Zenon DEF FlattenSeq
  <2>2. texts = <<>>
    BY <1>1
  <2> QED BY <2>1, <2>2
<1>2. CASE Len(texts) # 0
  <2>1. PICK f : Joined(texts, f) /\ FlattenSeq(texts) = f[Len(texts)]
    BY <1>2, FlattenIsPrefix
  <2> QED BY <1>2, <2>1, PrefixIsText
<1> QED BY <1>1, <1>2

\* What is cancelled at the end, and at the start, of two equal texts.
LEMMA SameEnd ==
  ASSUME NEW S, NEW s \in Seq(S), NEW t \in Seq(S), NEW u \in Seq(S), s \o u = t \o u
  PROVE  s = t
<1>1. Len(s) = Len(t)
  <2>1. Len(s \o u) = Len(s) + Len(u) /\ Len(t \o u) = Len(t) + Len(u)
    OBVIOUS
  <2> QED BY <2>1
<1>2. \A i \in 1..Len(s) : s[i] = t[i]
  <2> TAKE i \in 1..Len(s)
  <2>1. (s \o u)[i] = s[i] /\ (t \o u)[i] = t[i]
    BY <1>1
  <2> QED BY <2>1
<1> QED BY <1>1, <1>2, SeqEqual

LEMMA SameStart ==
  ASSUME NEW S, NEW s \in Seq(S), NEW t \in Seq(S), NEW u \in Seq(S), u \o s = u \o t
  PROVE  s = t
<1>1. Len(s) = Len(t)
  <2>1. Len(u \o s) = Len(u) + Len(s) /\ Len(u \o t) = Len(u) + Len(t)
    OBVIOUS
  <2> QED BY <2>1
<1>2. \A i \in 1..Len(s) : s[i] = t[i]
  <2> TAKE i \in 1..Len(s)
  <2>1. (u \o s)[Len(u) + i] = s[i] /\ (u \o t)[Len(u) + i] = t[i]
    BY <1>1
  <2> QED BY <2>1
<1> QED BY <1>1, <1>2, SeqEqual

\* Nothing separates the parts of a text, and yet it shows if one part differs.
LEMMA OneDifferenceShows ==
  ASSUME NEW S, NEW a \in Seq(Seq(S)), NEW b \in Seq(Seq(S)), Len(a) = Len(b),
         NEW k \in 1..Len(a), a[k] # b[k],
         \A i \in 1..Len(a) : i # k => a[i] = b[i]
  PROVE  FlattenSeq(a) # FlattenSeq(b)
<1>1. Len(a) \in Nat \ {0}
  OBVIOUS
<1>2. PICK f : Joined(a, f) /\ FlattenSeq(a) = f[Len(a)]
  BY <1>1, FlattenIsPrefix
<1>3. PICK g : Joined(b, g) /\ FlattenSeq(b) = g[Len(a)]
  BY <1>1, FlattenIsPrefix
<1>4. \A i \in 1..Len(a) : /\ f[i] \in Seq(S) /\ g[i] \in Seq(S)
                           /\ a[i] \in Seq(S) /\ b[i] \in Seq(S)
  BY <1>2, <1>3, PrefixIsText
<1> DEFINE T == {n \in Nat : n \in 1..Len(a) => (n < k => f[n] = g[n]) /\ (n >= k => f[n] # g[n])}
<1>5. 0 \in T
  OBVIOUS
<1>6. ASSUME NEW n \in Nat, n \in T
      PROVE  n + 1 \in T
  <2> SUFFICES ASSUME n + 1 \in 1..Len(a)
               PROVE  (n + 1 < k => f[n + 1] = g[n + 1]) /\ (n + 1 >= k => f[n + 1] # g[n + 1])
    <3>1. n + 1 \in Nat
      OBVIOUS
    <3> QED BY <3>1, Zenon
  <2>1. f[n + 1] = IF n + 1 = 1 THEN a[n + 1] ELSE f[n + 1 - 1] \o a[n + 1]
    BY <1>2, PrefixAt
  <2>2. g[n + 1] = IF n + 1 = 1 THEN b[n + 1] ELSE g[n + 1 - 1] \o b[n + 1]
    BY <1>1, <1>3, PrefixAt
  <2>4. CASE n = 0
    <3>1. f[1] = a[1] /\ g[1] = b[1] /\ k \in Nat \ {0} /\ 1 \in 1..Len(a)
      BY <1>1, <2>1, <2>2, <2>4
    <3>2. (1 < k => f[1] = g[1]) /\ (1 >= k => f[1] # g[1])
      <4>1. CASE k = 1
        BY <3>1, <4>1
      <4>2. CASE k # 1
        <5>1. a[1] = b[1]
          BY <3>1, <4>2
        <5> QED BY <3>1, <4>2, <5>1
      <4> QED BY <4>1, <4>2
    <3> QED BY <2>4, <3>2
  <2>3. CASE n # 0
    <3>1. n \in 1..Len(a) /\ n + 1 # 1 /\ n + 1 - 1 = n
      BY <1>1, <2>3
    <3>2. f[n + 1] = f[n] \o a[n + 1] /\ g[n + 1] = g[n] \o b[n + 1]
      BY <2>1, <2>2, <3>1
    <3>3. (n < k => f[n] = g[n]) /\ (n >= k => f[n] # g[n])
      BY <1>6, <3>1
    <3>4. CASE n + 1 < k
      <4>1. f[n] = g[n] /\ a[n + 1] = b[n + 1]
        BY <3>3, <3>4
      <4> QED BY <3>2, <3>4, <4>1
    <3>5. CASE n + 1 = k
      <4>1. f[n] = g[n] /\ a[n + 1] # b[n + 1]
        BY <3>3, <3>5
      <4>2. f[n] \in Seq(S) /\ a[n + 1] \in Seq(S) /\ b[n + 1] \in Seq(S)
        BY <1>4, <3>1
      <4>3. f[n + 1] # g[n + 1]
        BY <3>2, <4>1, <4>2, SameStart
      <4> QED BY <3>5, <4>3
    <3>6. CASE n + 1 > k
      <4>1. f[n] # g[n] /\ a[n + 1] = b[n + 1]
        BY <3>3, <3>6
      <4>2. f[n] \in Seq(S) /\ g[n] \in Seq(S) /\ a[n + 1] \in Seq(S)
        BY <1>4, <3>1
      <4>3. f[n] \o a[n + 1] # g[n] \o a[n + 1]
        BY <4>1, <4>2, SameEnd
      <4>4. f[n + 1] # g[n + 1]
        BY <3>2, <4>1, <4>3
      <4> QED BY <3>6, <4>4
    <3> QED BY <3>4, <3>5, <3>6
  <2> QED BY <2>3, <2>4
<1> HIDE DEF T
<1>7. Len(a) \in T
  BY <1>1, <1>5, <1>6, SetInduction
<1> QED BY <1>1, <1>2, <1>3, <1>7 DEF T

\* What the code's Min and Max choose is there.
LEMMA MinExists ==
  ASSUME NEW T, T \subseteq Nat, T # {}
  PROVE  Min(T) \in T /\ \A x \in T : Min(T) <= x
<1>1. PICK m \in T : \A x \in T : <<x, m>> \notin OpToRel(<, Nat)
  BY WFMin, NatLessThanWellFounded
<1>2. \A x \in T : ~(x < m)
  BY <1>1 DEF OpToRel
<1>3. \A x \in T : m <= x
  BY <1>2
<1> QED BY <1>3 DEF Min

LEMMA MaxExists ==
  ASSUME NEW n \in Nat, NEW T, T \subseteq 0..n, T # {}
  PROVE  Max(T) \in T /\ \A x \in T : x <= Max(T)
<1> DEFINE U == {n - x : x \in T}
<1>1. U \subseteq Nat /\ U # {}
  <2>1. ASSUME NEW x \in T
        PROVE  n - x \in Nat
    OBVIOUS
  <2>2. PICK x : x \in T
    OBVIOUS
  <2>3. n - x \in U
    BY <2>2
  <2>4. U \subseteq Nat
    BY <2>1
  <2> QED BY <2>3, <2>4
<1>2. PICK m \in T : n - m = Min(U)
  BY <1>1, MinExists
<1>3. \A x \in T : n - m <= n - x
  BY <1>1, <1>2, MinExists
<1>4. \A x \in T : m >= x
  BY <1>3
<1>5. Max(T) \in T /\ \A x \in T : Max(T) >= x
  BY <1>4 DEF Max
<1> QED BY <1>5

LEMMA OneToken ==
  ASSUME NEW S, NEW token \in S
  PROVE  <<token>> \in Seq(S) /\ Len(<<token>>) = 1
  OBVIOUS

LEMMA TwoTokens ==
  ASSUME NEW S, NEW a \in S, NEW b \in S
  PROVE  <<a>> \o <<b>> = <<a, b>>
<1> DEFINE p == <<a>>
           q == <<b>>
           r == <<a, b>>
           u == p \o q
<1>1. /\ p \in Seq(S) /\ Len(p) = 1 /\ p[1] = a
      /\ q \in Seq(S) /\ Len(q) = 1 /\ q[1] = b
      /\ r \in Seq(S) /\ Len(r) = 2 /\ r[1] = a /\ r[2] = b
  OBVIOUS
<1> HIDE DEF p, q, r
<1>2. /\ u \in Seq(S) /\ Len(u) = 2
      /\ \A i \in 1..2 : u[i] = IF i <= 1 THEN p[i] ELSE q[i - 1]
  BY <1>1, ConcatProperties
<1> HIDE DEF u
<1>3. u[1] = a
  BY <1>1, <1>2
<1>4. u[2] = b
  BY <1>1, <1>2
<1>5. \A i \in 1..2 : i = 1 \/ i = 2
  OBVIOUS
<1>6. u = r
  BY <1>1, <1>2, <1>3, <1>4, <1>5, SeqEqual
<1> QED BY <1>6 DEF u, p, q, r

\* A text of some tokens is one of more.
LEMMA MoreTokens ==
  ASSUME NEW S, NEW T, S \subseteq T, NEW s \in Seq(S)
  PROVE  s \in Seq(T)
  OBVIOUS

\* A table whose texts scan and stream agree on.
Uncast(t) == \A c \in ToSet(SourceColumns(t.columns)) : c.type \notin RecastTypes

ValuesSent(t, row, toast) == ValuesArray(t.columns, t.relation, Tuple(t.relation, row, toast))

\* The columns of a table.
LEMMA SourceColumn ==
  ASSUME NEW t \in Tables, NEW k \in DOMAIN SourceColumns(t.columns)
  PROVE  /\ SourceColumns(t.columns)[k] \in ToSet(t.columns)
         /\ SourceColumns(t.columns)[k].name \in ToSet(t.relation)
<1> DEFINE Named == {c \in ToSet(t.columns) : c.name \in ToSet(t.relation)}
           source == SourceColumns(t.columns)
<1>1. source \in Seq(Named)
  BY TablesAssumption
<1> HIDE DEF Named, source
<1>2. source[k] \in Named
  BY <1>1 DEF source
<1> QED BY <1>2 DEF Named, source

LEMMA TypeOfColumn ==
  ASSUME NEW t \in Tables, NEW c \in ToSet(t.columns)
  PROVE  TypeOf(t.columns, c.name) = c.type
<1>1. \E i \in DOMAIN t.columns : t.columns[i].name = c.name
  BY DEF ToSet
<1>2. (CHOOSE d \in ToSet(t.columns) : d.name = c.name) = c
  BY TablesAssumption
<1> QED BY <1>1, <1>2 DEF TypeOf

\* A column's texts are those of its type.
LEMMA CellOfColumn ==
  ASSUME NEW t \in Tables, NEW c \in ToSet(t.columns), c.name \in ToSet(t.relation),
         NEW text \in Cells(c.type), text # Nil
  PROVE  WrittenAs(c.type, text)
<1>1. TypeOf(t.columns, c.name) = c.type
  BY TypeOfColumn
<1>2. \A s \in Cells(TypeOf(t.columns, c.name)) \ {Nil} : WrittenAs(TypeOf(t.columns, c.name), s)
  BY CellsAssumption
<1> QED BY <1>1, <1>2

\* A value is found by its column's name, wherever the relation has it.
LEMMA ValueOfColumn ==
  ASSUME NEW t \in Tables, NEW row \in Rows(t), NEW toast,
         NEW k \in DOMAIN SourceColumns(t.columns)
  PROVE  LET c == SourceColumns(t.columns)[k] IN
         /\ ValuesSent(t, row, toast)[k] = IF c.name \in toast THEN Nil ELSE row[c.name]
         /\ row[c.name] \in Cells(c.type)
<1> DEFINE c == SourceColumns(t.columns)[k]
           tuple == Tuple(t.relation, row, toast)
           i == CHOOSE i \in DOMAIN t.relation : t.relation[i] = c.name
<1>1. c \in ToSet(t.columns) /\ c.name \in ToSet(t.relation)
  BY SourceColumn
<1>2. TypeOf(t.columns, c.name) = c.type
  BY <1>1, TypeOfColumn
<1>3. i \in DOMAIN t.relation /\ t.relation[i] = c.name
  BY <1>1 DEF ToSet
<1>4. ValuesSent(t, row, toast)[k] = parseRow(t.relation, tuple)[c.name]
  BY <1>1, Zenon DEF ValuesSent, ValuesArray, parseRow
<1>5. parseRow(t.relation, tuple)[c.name] = IF tuple[i].kind = "t" THEN tuple[i].data ELSE Nil
  BY <1>1, Zenon DEF parseRow
<1>6. tuple[i] = IF row[c.name] = Nil THEN [kind |-> "n"]
                 ELSE IF c.name \in toast THEN [kind |-> "u"]
                 ELSE [kind |-> "t", data |-> row[c.name]]
  BY <1>3, Zenon DEF Tuple
<1>7. row[c.name] \in Cells(c.type)
  BY <1>1, <1>2 DEF Rows
<1> HIDE DEF tuple, i, c
<1>8. (IF tuple[i].kind = "t" THEN tuple[i].data ELSE Nil)
        = IF c.name \in toast THEN Nil ELSE row[c.name]
  BY <1>6
<1> QED BY <1>4, <1>5, <1>7, <1>8 DEF c

LEMMA ValuesLength ==
  ASSUME NEW t \in Tables, NEW row, NEW toast
  PROVE  /\ Len(SourceColumns(t.columns)) \in Nat
         /\ DOMAIN SourceColumns(t.columns) = 1..Len(SourceColumns(t.columns))
         /\ DOMAIN ValuesSent(t, row, toast) = DOMAIN SourceColumns(t.columns)
         /\ DOMAIN SourceFamilies(t) = DOMAIN SourceColumns(t.columns)
         /\ \A k \in DOMAIN SourceColumns(t.columns) :
              SourceFamilies(t)[k] = Family(SourceColumns(t.columns)[k].type)
<1>1. SourceColumns(t.columns) \in Seq({c \in ToSet(t.columns) : c.name \in ToSet(t.relation)})
  BY TablesAssumption
<1> QED BY <1>1, Zenon, LenProperties DEF ValuesSent, ValuesArray, SourceFamilies

\* Nothing is left out of a change that is sent whole.
LEMMA WholeValue ==
  ASSUME NEW t \in Tables, NEW row \in Rows(t), NEW k \in DOMAIN SourceColumns(t.columns)
  PROVE  ValuesSent(t, row, {})[k] = row[SourceColumns(t.columns)[k].name]
<1>1. ValuesSent(t, row, {})[k] =
        IF SourceColumns(t.columns)[k].name \in {} THEN Nil
        ELSE row[SourceColumns(t.columns)[k].name]
  BY ValueOfColumn
<1> QED BY <1>1

\* Where no type has a cast of its own, a scan has the value as it is written.
LEMMA CastIsValue ==
  ASSUME NEW t, Uncast(t), NEW k \in DOMAIN SourceColumns(t.columns), NEW value
  PROVE  CastText(SourceColumns(t.columns)[k].type, value) = value
<1>1. SourceColumns(t.columns)[k] \in ToSet(SourceColumns(t.columns))
  BY DEF ToSet
<1> QED BY <1>1 DEF Uncast, CastText

\* So the text of a change is that of a scan.
LEMMA WholeChangeHasItsText ==
  ASSUME NEW t \in Tables, Uncast(t), NEW row \in Rows(t)
  PROVE  FormatSource(ValuesSent(t, row, {})) = ScannedText(SourceColumns(t.columns), row)
<1> DEFINE source == SourceColumns(t.columns)
           values == ValuesSent(t, row, {})
<1>1. DOMAIN values = DOMAIN source
  BY ValuesLength
<1>2. \A k \in DOMAIN source : values[k] = row[source[k].name]
  BY WholeValue
<1>3. \A k \in DOMAIN source :
        CastText(source[k].type, row[source[k].name]) = row[source[k].name]
  BY CastIsValue
<1> HIDE DEF values, source
<1>4. [k \in DOMAIN values |-> IF values[k] = Nil THEN <<Ghost>> ELSE values[k]]
        = [k \in DOMAIN source |-> Coalesced(CastText(source[k].type, row[source[k].name]))]
  BY <1>1, <1>2, <1>3 DEF Coalesced
<1> QED BY <1>4, Zenon DEF FormatSource, ScannedText, values, source

\* The texts of a row's columns in a scan.
Scanned(t, row) ==
  [k \in DOMAIN SourceColumns(t.columns) |-> Coalesced(row[SourceColumns(t.columns)[k].name])]

LEMMA ScannedIsText ==
  ASSUME NEW t \in Tables, NEW row \in Rows(t)
  PROVE  /\ Scanned(t, row) \in Seq(Seq(Token))
         /\ Len(Scanned(t, row)) = Len(SourceColumns(t.columns))
<1> DEFINE source == SourceColumns(t.columns)
           n == Len(source)
<1>1. n \in Nat /\ DOMAIN source = 1..n
  BY ValuesLength
<1>2. ASSUME NEW k \in 1..n
      PROVE  Coalesced(row[source[k].name]) \in Seq(Token)
  <2> DEFINE c == source[k]
  <2>1. c \in ToSet(t.columns) /\ c.name \in ToSet(t.relation) /\ row[c.name] \in Cells(c.type)
    BY <1>1, <1>2, SourceColumn, ValueOfColumn
  <2>2. row[c.name] = Nil \/ row[c.name] \in Seq(Token)
    BY <2>1, CellOfColumn, MoreTokens DEF Token, WrittenAs
  <2>3. <<Ghost>> \in Seq(Token)
    BY OneToken DEF Token
  <2> QED BY <2>2, <2>3 DEF Coalesced
<1> HIDE DEF source, n
<1>3. [k \in 1..n |-> Coalesced(row[source[k].name])] \in [1..n -> Seq(Token)]
  BY <1>2
<1>4. Scanned(t, row) = [k \in 1..n |-> Coalesced(row[source[k].name])]
  BY <1>1 DEF Scanned, source
<1>5. Scanned(t, row) \in [1..n -> Seq(Token)]
  BY <1>3, <1>4
<1> HIDE DEF source, n
<1> QED BY <1>1, <1>5 DEF n, source

\* A row that differs in one column is scanned as another text.
LEMMA OtherRowHasOtherText ==
  ASSUME NEW t \in Tables, Uncast(t), NEW row \in Rows(t), NEW other \in Rows(t),
         NEW k \in DOMAIN SourceColumns(t.columns),
         \A i \in DOMAIN SourceColumns(t.columns) :
           other[SourceColumns(t.columns)[i].name] # row[SourceColumns(t.columns)[i].name] <=> i = k
  PROVE  ScannedText(SourceColumns(t.columns), row) # ScannedText(SourceColumns(t.columns), other)
<1> DEFINE source == SourceColumns(t.columns)
           c == source[k]
<1>1. c \in ToSet(t.columns) /\ c.name \in ToSet(t.relation)
  BY SourceColumn
<1>2. \A text \in Cells(c.type) : text # <<Ghost>> \/ text = Nil
  BY <1>1, CellOfColumn DEF WrittenAs
<1>3. row[c.name] \in Cells(c.type) /\ other[c.name] \in Cells(c.type)
  BY ValueOfColumn
<1>4. Coalesced(row[c.name]) # Coalesced(other[c.name])
  BY <1>2, <1>3 DEF Coalesced
<1>5. /\ Scanned(t, row) \in Seq(Seq(Token)) /\ Scanned(t, other) \in Seq(Seq(Token))
      /\ Len(Scanned(t, row)) = Len(source) /\ Len(Scanned(t, other)) = Len(source)
      /\ DOMAIN source = 1..Len(source)
  BY ScannedIsText, ValuesLength
<1>6. Scanned(t, row)[k] # Scanned(t, other)[k]
  BY <1>4 DEF Scanned
<1>7. \A i \in DOMAIN source : i # k => Scanned(t, row)[i] = Scanned(t, other)[i]
  BY DEF Scanned
<1>8. FlattenSeq(Scanned(t, row)) # FlattenSeq(Scanned(t, other))
  <2> DEFINE a == Scanned(t, row)
             b == Scanned(t, other)
  <2> HIDE DEF a, b, source
  <2>1. /\ a \in Seq(Seq(Token)) /\ b \in Seq(Seq(Token)) /\ Len(a) = Len(b)
        /\ k \in 1..Len(a) /\ a[k] # b[k]
        /\ \A i \in 1..Len(a) : i # k => a[i] = b[i]
    BY <1>5, <1>6, <1>7 DEF a, b, source
  <2>2. FlattenSeq(a) # FlattenSeq(b)
    BY <2>1, OneDifferenceShows
  <2> QED BY <2>2 DEF a, b
<1>9. ASSUME NEW r
      PROVE  ScannedText(source, r) = FlattenSeq(Scanned(t, r))
  <2>1. \A i \in DOMAIN source : CastText(source[i].type, r[source[i].name]) = r[source[i].name]
    BY CastIsValue
  <2>2. ScannedText(source, r)
        = FlattenSeq([i \in DOMAIN source |-> Coalesced(CastText(source[i].type, r[source[i].name]))])
    BY Zenon DEF ScannedText
  <2>3. Scanned(t, r) = [i \in DOMAIN source |-> Coalesced(r[source[i].name])]
    BY Zenon DEF Scanned
  <2> HIDE DEF source
  <2> QED BY <2>1, <2>2, <2>3
<1> QED BY <1>8, <1>9

\* What is cut off at the end of a text is all of one token, as much as there is.
LEMMA TrailingIsCut ==
  ASSUME NEW S, NEW s \in Seq(S), NEW c
  PROVE  \E k \in 0..Len(s) :
           /\ WithoutTrailing(s, c) = SubSeq(s, 1, k)
           /\ k > 0 => s[k] # c
           /\ \A i \in 1..Len(s) : i > k => s[i] = c
<1> DEFINE ends == {0} \cup {i \in DOMAIN s : s[i] # c}
           k == Max(ends)
<1>1. Len(s) \in Nat /\ DOMAIN s = 1..Len(s)
  OBVIOUS
<1>2. ends \subseteq 0..Len(s) /\ ends # {}
  BY <1>1
<1>3. k \in ends /\ \A i \in ends : i <= k
  BY <1>1, <1>2, MaxExists
<1>4. WithoutTrailing(s, c) = SubSeq(s, 1, k)
  BY Zenon DEF WithoutTrailing
<1>5. ASSUME NEW i \in 1..Len(s), i > k
      PROVE  s[i] = c
  <2> SUFFICES ASSUME s[i] # c PROVE FALSE
    OBVIOUS
  <2>1. i \in ends
    BY <1>1
  <2>2. i <= k /\ k \in 0..Len(s)
    BY <1>2, <1>3, <2>1
  <2> QED BY <1>5, <2>2
<1>6. k > 0 => s[k] # c
  BY <1>3
<1> HIDE DEF k, ends
<1> QED BY <1>2, <1>3, <1>4, <1>5, <1>6

LEMMA PrefixOfPrefix ==
  ASSUME NEW S, NEW s \in Seq(S), NEW m \in 0..Len(s), NEW k \in 0..m
  PROVE  /\ SubSeq(s, 1, m) \in Seq(S) /\ Len(SubSeq(s, 1, m)) = m
         /\ \A i \in 1..m : SubSeq(s, 1, m)[i] = s[i]
         /\ SubSeq(SubSeq(s, 1, m), 1, k) = SubSeq(s, 1, k)
<1>1. \A n \in 0..Len(s) :
        /\ SubSeq(s, 1, n) \in Seq(S) /\ Len(SubSeq(s, 1, n)) = n
        /\ \A i \in 1..n : SubSeq(s, 1, n)[i] = s[i]
  OBVIOUS
<1> DEFINE p == SubSeq(s, 1, m)
           q == SubSeq(p, 1, k)
           r == SubSeq(s, 1, k)
<1>2. p \in Seq(S) /\ Len(p) = m /\ \A i \in 1..m : p[i] = s[i]
  BY <1>1
<1>3. r \in Seq(S) /\ Len(r) = k /\ \A i \in 1..k : r[i] = s[i]
  BY <1>1
<1> HIDE DEF p, r
<1>4. q \in Seq(S) /\ Len(q) = k /\ \A i \in 1..k : q[i] = p[i]
  BY <1>2
<1>5. q = r
  BY <1>2, <1>3, <1>4, SeqEqual
<1> QED BY <1>2, <1>5 DEF p, r

\* PeerDB's target stores a number, so it writes no zeros and no point that the
\* number does not need: those the mapper trims.
LEMMA DecimalAgrees ==
  ASSUME NEW s, NEW type, Family(type) = "decimal", WrittenAs(type, s)
  PROVE  transformDecimalString(s) = ShortestDecimal(s)
<1>1. s \in Seq(Token) /\ \A i, j \in DOMAIN s : s[i] = "." /\ s[j] = "." => i = j
  BY DEF WrittenAs
<1>2. CASE "." \notin ToSet(s)
  BY <1>2 DEF transformDecimalString, ShortestDecimal
<1>3. CASE "." \in ToSet(s)
  <2> DEFINE p == CHOOSE i \in DOMAIN s : s[i] = "."
             ends == {n \in p - 1 .. Len(s) : n # p /\ \A i \in n + 1 .. Len(s) : s[i] \in {"0", "."}}
  <2>1. p \in DOMAIN s /\ s[p] = "." /\ DOMAIN s = 1..Len(s) /\ Len(s) \in Nat
    BY <1>1, <1>3 DEF ToSet
  <2>2. \A i \in 1..Len(s) : s[i] = "." => i = p
    BY <1>1, <2>1
  <2>3. PICK m \in 0..Len(s) :
         /\ WithoutTrailing(s, "0") = SubSeq(s, 1, m)
         /\ m > 0 => s[m] # "0"
         /\ \A i \in 1..Len(s) : i > m => s[i] = "0"
    BY <1>1, TrailingIsCut
  <2> DEFINE t == SubSeq(s, 1, m)
  <2>4. t \in Seq(Token) /\ Len(t) = m /\ \A i \in 1..m : t[i] = s[i]
    BY <1>1, <2>3, PrefixOfPrefix
  <2>5. PICK k \in 0..m :
         /\ WithoutTrailing(t, ".") = SubSeq(t, 1, k)
         /\ k > 0 => t[k] # "."
         /\ \A i \in 1..m : i > k => t[i] = "."
    <3> HIDE DEF t
    <3>1. \E k \in 0..Len(t) :
            /\ WithoutTrailing(t, ".") = SubSeq(t, 1, k)
            /\ k > 0 => t[k] # "."
            /\ \A i \in 1..Len(t) : i > k => t[i] = "."
      BY <2>4, TrailingIsCut
    <3> QED BY <2>4, <3>1
  <2>6. transformDecimalString(s) = SubSeq(s, 1, k)
    <3>1. transformDecimalString(s) = WithoutTrailing(WithoutTrailing(s, "0"), ".")
      BY <1>3, Zenon DEF transformDecimalString
    <3>2. SubSeq(t, 1, k) = SubSeq(s, 1, k)
      BY <1>1, <2>3, <2>5, PrefixOfPrefix
    <3>3. WithoutTrailing(WithoutTrailing(s, "0"), ".") = WithoutTrailing(t, ".")
      BY <2>3, Zenon
    <3> HIDE DEF t
    <3> QED BY <2>5, <3>1, <3>2, <3>3, Zenon
  <2>7. ShortestDecimal(s) = SubSeq(s, 1, Min(ends))
    BY <1>3, Zenon DEF ShortestDecimal
  <2> HIDE DEF p, t
  <2>8. m >= p
    BY <2>1, <2>3
  <2>9. k # p /\ (m > p => k = m) /\ (m = p => k = p - 1)
    <3>1. CASE m > p
      <4>1. m \in 1..m /\ m \in 1..Len(s) /\ m # p
        BY <2>1, <3>1
      <4>2. t[m] # "."
        BY <2>2, <2>4, <4>1
      <4>3. ~(m > k)
        BY <2>5, <4>1, <4>2
      <4> QED BY <3>1, <4>3
    <3>2. CASE m = p
      <4>1. p \in 1..m /\ t[p] = "." /\ p > 0
        BY <2>1, <2>4, <3>2
      <4>2. k # p
        BY <2>5, <4>1
      <4>3. ASSUME p - 1 > k
            PROVE  FALSE
        <5>1. p - 1 \in 1..m /\ p - 1 \in 1..Len(s) /\ p - 1 # p
          BY <2>1, <3>2, <4>3
        <5>2. t[p - 1] = "."
          BY <2>5, <4>3, <5>1
        <5> QED BY <2>2, <2>4, <5>1, <5>2
      <4> QED BY <2>1, <3>2, <4>2, <4>3
    <3> QED BY <2>1, <2>8, <3>1, <3>2
  <2>10. k \in ends
    BY <2>1, <2>3, <2>4, <2>5, <2>8, <2>9
  <2>11. \A n \in ends : k <= n
    BY <2>1, <2>2, <2>3, <2>8, <2>9
  <2>12. ends \subseteq Nat /\ ends # {}
    BY <2>1, <2>10
  <2>13. Min(ends) \in ends /\ Min(ends) <= k
    BY <2>10, <2>12, MinExists
  <2>14. Min(ends) = k
    BY <2>10, <2>11, <2>12, <2>13
  <2> QED BY <2>6, <2>7, <2>14
<1> QED BY <1>2, <1>3

LEMMA FlattenOne ==
  ASSUME NEW a
  PROVE  FlattenSeq(<<a>>) = a
<1> DEFINE texts == <<a>>
<1>1. Len(texts) = 1 /\ texts[1] = a
  OBVIOUS
<1> HIDE DEF texts
<1>2. PICK f : Joined(texts, f) /\ FlattenSeq(texts) = f[1]
  <2>1. Len(texts) \in Nat \ {0}
    BY <1>1
  <2>2. \E f : Joined(texts, f) /\ FlattenSeq(texts) = f[Len(texts)]
    BY <2>1, FlattenIsPrefix
  <2> QED BY <1>1, <2>2
<1>3. f[1] = texts[1]
  BY <1>1, <1>2, PrefixAt
<1> QED BY <1>1, <1>2, <1>3 DEF texts

LEMMA FlattenTwo ==
  ASSUME NEW a, NEW b
  PROVE  FlattenSeq(<<a, b>>) = a \o b
<1> DEFINE texts == <<a, b>>
<1>1. Len(texts) = 2 /\ texts[1] = a /\ texts[2] = b
  OBVIOUS
<1> HIDE DEF texts
<1>2. PICK f : Joined(texts, f) /\ FlattenSeq(texts) = f[2]
  <2>1. Len(texts) \in Nat \ {0}
    BY <1>1
  <2>2. \E f : Joined(texts, f) /\ FlattenSeq(texts) = f[Len(texts)]
    BY <2>1, FlattenIsPrefix
  <2> QED BY <1>1, <2>2
<1>3. f[1] = texts[1]
  BY <1>1, <1>2, PrefixAt
<1>4. f[2] = f[2 - 1] \o texts[2]
  <2>1. 2 \in 1..Len(texts) /\ 2 # 1
    BY <1>1
  <2> QED BY <1>2, <2>1, PrefixAt
<1>5. 2 - 1 = 1
  OBVIOUS
<1>6. FlattenSeq(texts) = a \o b
  BY <1>1, <1>2, <1>3, <1>4, <1>5
<1> QED BY <1>6 DEF texts

\* What TargetFloat puts in place of a token.
Lowered(token) ==
  IF token = "+" THEN <<>> ELSE IF token = "Infinity" THEN <<"inf">>
  ELSE IF token = "NaN" THEN <<"nan">> ELSE <<token>>

LEMMA TargetFloatIs ==
  ASSUME NEW s, ~HasSourceExponent(s)
  PROVE  TargetFloat(s) = FlattenSeq([i \in DOMAIN s |-> Lowered(s[i])])
<1> DEFINE lower == [Infinity |-> "inf", NaN |-> "nan"]
           token(t) == IF t = "+" THEN <<>> ELSE IF t \in DOMAIN lower THEN <<lower[t]>> ELSE <<t>>
<1>1. \A t : token(t) = Lowered(t)
  BY DEF Lowered
<1>2. TargetFloat(s) = FlattenSeq([i \in DOMAIN s |-> token(s[i])])
  BY Zenon DEF TargetFloat
<1> HIDE DEF token
<1>3. [i \in DOMAIN s |-> token(s[i])] = [i \in DOMAIN s |-> Lowered(s[i])]
  BY <1>1
<1> QED BY <1>2, <1>3

\* The target writes floats as the mapper does.
LEMMA FloatAgrees ==
  ASSUME NEW s, NEW type, Family(type) = "float", WrittenAs(type, s), ~HasSourceExponent(s)
  PROVE  transformFloatString(s) = TargetFloat(s)
<1>1. CASE s = <<"Infinity">>
  <2>1. [i \in DOMAIN s |-> Lowered(s[i])] = <<<<"inf">>>>
    BY <1>1 DEF Lowered
  <2>2. transformFloatString(s) = <<"inf">>
    BY <1>1 DEF transformFloatString
  <2> QED BY <2>1, <2>2, FlattenOne, TargetFloatIs
<1>2. CASE s = <<"NaN">>
  <2>1. [i \in DOMAIN s |-> Lowered(s[i])] = <<<<"nan">>>>
    BY <1>2 DEF Lowered
  <2>2. transformFloatString(s) = <<"nan">>
    BY <1>2 DEF transformFloatString
  <2> QED BY <2>1, <2>2, FlattenOne, TargetFloatIs
<1>3. CASE s = <<"-", "Infinity">>
  <2>1. [i \in DOMAIN s |-> Lowered(s[i])] = <<<<"-">>, <<"inf">>>>
    BY <1>3 DEF Lowered
  <2>2. transformFloatString(s) = <<"-", "inf">>
    BY <1>3 DEF transformFloatString
  <2>3. <<"-">> \o <<"inf">> = <<"-", "inf">>
    <3>1. "-" \in Token /\ "inf" \in Token
      BY DEF Token
    <3> QED BY <3>1, TwoTokens
  <2> QED BY <2>1, <2>2, <2>3, FlattenTwo, TargetFloatIs
<1>4. CASE s \notin {<<"Infinity">>, <<"-", "Infinity">>, <<"NaN">>}
  <2> DEFINE exponent(i) == s[i] = "+" /\ i > 1 /\ s[i - 1] = "e"
  <2>1. \A i \in DOMAIN s : /\ s[i] \notin {"Infinity", "NaN"}
                            /\ s[i] = "+" <=> exponent(i)
    BY <1>4 DEF WrittenAs
  <2>2. transformFloatString(s) = FlattenSeq([i \in DOMAIN s |-> IF exponent(i) THEN <<>> ELSE <<s[i]>>])
    BY <1>4, Zenon DEF transformFloatString
  <2> HIDE DEF exponent
  <2>3. [i \in DOMAIN s |-> IF exponent(i) THEN <<>> ELSE <<s[i]>>] = [i \in DOMAIN s |-> Lowered(s[i])]
    BY <2>1 DEF Lowered
  <2> QED BY <2>2, <2>3, TargetFloatIs
<1> QED BY <1>1, <1>2, <1>3, <1>4

\* What the mapper makes of a cell is a text.
LEMMA MappedCellIsText ==
  ASSUME NEW cell \in Seq(Token) \cup {Nil}, NEW family,
         family = "json" /\ cell # Nil => normalizeJson(cell) \in Seq(Token)
  PROVE  transformSourceCell(cell, family) \in Seq(Token)
<1>1. CASE cell = Nil
  BY <1>1, OneToken DEF transformSourceCell, Token
<1>2. CASE cell # Nil
  <2>1. cell \in Seq(Token)
    BY <1>2
  <2>2. transformFloatString(cell) \in Seq(Token)
    <3>1. <<"inf">> \in Seq(Token) /\ <<"-", "inf">> \in Seq(Token) /\ <<"nan">> \in Seq(Token)
      BY DEF Token
    <3> DEFINE exponent(i) == cell[i] = "+" /\ i > 1 /\ cell[i - 1] = "e"
               texts == [i \in DOMAIN cell |-> IF exponent(i) THEN <<>> ELSE <<cell[i]>>]
    <3>2. texts \in Seq(Seq(Token))
      <4> HIDE DEF exponent
      <4>1. \A i \in 1..Len(cell) : (IF exponent(i) THEN <<>> ELSE <<cell[i]>>) \in Seq(Token)
        BY <2>1
      <4>2. texts \in [1..Len(cell) -> Seq(Token)] /\ Len(cell) \in Nat
        BY <2>1, <4>1
      <4> HIDE DEF texts
      <4> QED BY <4>2
    <3>3. FlattenSeq(texts) \in Seq(Token)
      <4> HIDE DEF texts
      <4> QED BY <3>2, FlattenIsText
    <3>4. transformFloatString(cell) \in {<<"inf">>, <<"-", "inf">>, <<"nan">>, FlattenSeq(texts)}
      BY Zenon DEF transformFloatString
    <3> HIDE DEF texts
    <3> QED BY <3>1, <3>3, <3>4
  <2>3. \A s \in Seq(Token) : \A c : WithoutTrailing(s, c) \in Seq(Token)
    BY TrailingIsCut, PrefixOfPrefix
  <2>4. transformDecimalString(cell) \in Seq(Token)
    BY <2>1, <2>3 DEF transformDecimalString
  <2>5. transformDatetimeString(cell) \in Seq(Token)
    <3>1. <<".", "000000">> \in Seq(Token)
      BY DEF Token
    <3> QED BY <2>1, <3>1 DEF transformDatetimeString
  <2>6. family = "json" => normalizeJson(cell) \in Seq(Token)
    BY <1>2
  <2> QED BY <1>2, <2>1, <2>2, <2>4, <2>5, <2>6, Zenon DEF transformSourceCell
<1> QED BY <1>1, <1>2

\* A canonical value has the same text on both sides of PeerDB's pipeline.
LEMMA CellAgrees ==
  ASSUME NEW type, NEW s, Canonical(type, s), WrittenAs(type, s)
  PROVE  /\ transformSourceCell(s, Family(type)) = TargetText("peer_db", type, s)
         /\ TargetText("peer_db", type, s) # Nil
<1> DEFINE family == Family(type)
<1>1. /\ s # Nil /\ family # "json"
      /\ family = "datetime" => Len(s) = 1
      /\ family = "float" => ~HasSourceExponent(s)
  BY DEF Canonical
<1>2. ASSUME family = "float"
      PROVE  transformSourceCell(s, family) = TargetText("peer_db", type, s)
  <2>1. transformSourceCell(s, family) = transformFloatString(s)
    BY <1>1, <1>2 DEF transformSourceCell
  <2>2. TargetText("peer_db", type, s) = TargetFloat(s)
    BY <1>1, <1>2 DEF TargetText
  <2> QED BY <1>1, <1>2, <2>1, <2>2, FloatAgrees
<1>3. ASSUME family = "decimal"
      PROVE  transformSourceCell(s, family) = TargetText("peer_db", type, s)
  <2>1. transformSourceCell(s, family) = transformDecimalString(s)
    BY <1>1, <1>3 DEF transformSourceCell
  <2>2. TargetText("peer_db", type, s) = ShortestDecimal(s)
    BY <1>1, <1>3 DEF TargetText
  <2> QED BY <1>3, <2>1, <2>2, DecimalAgrees
<1>4. ASSUME family = "datetime"
      PROVE  transformSourceCell(s, family) = TargetText("peer_db", type, s)
  <2>1. transformSourceCell(s, family) = transformDatetimeString(s)
    BY <1>1, <1>4 DEF transformSourceCell
  <2>2. TargetText("peer_db", type, s) = TargetDatetime(s)
    BY <1>1, <1>4 DEF TargetText
  <2>3. s = <<WholeSecond>>
    BY <1>1, <1>4 DEF WrittenAs
  <2>4. transformDatetimeString(s) = s \o <<".", "000000">>
    BY <2>3 DEF transformDatetimeString
  <2>5. ToSet(s) = {WholeSecond} /\ <<s[1]>> = s
    <3>1. DOMAIN s = {1} /\ s[1] = WholeSecond
      BY <2>3
    <3>2. ToSet(s) = {WholeSecond}
      BY <3>1 DEF ToSet
    <3> QED BY <2>3, <3>1, <3>2
  <2>6. "." # WholeSecond
    BY DEF WholeSecond
  <2>7. TargetDatetime(s) = s \o <<".", "000000">>
    BY <2>5, <2>6, Zenon DEF TargetDatetime
  <2> QED BY <2>1, <2>2, <2>4, <2>7
<1>5. ASSUME family \notin {"float", "decimal", "datetime"}
      PROVE  transformSourceCell(s, family) = TargetText("peer_db", type, s)
  <2>1. transformSourceCell(s, family) = s
    BY <1>1, <1>5 DEF transformSourceCell
  <2>2. TargetText("peer_db", type, s) = s
    BY <1>1, <1>5 DEF TargetText
  <2> QED BY <2>1, <2>2
<1>6. transformSourceCell(s, family) = TargetText("peer_db", type, s)
  BY <1>2, <1>3, <1>4, <1>5
<1>7. transformSourceCell(s, family) \in Seq(Token)
  BY <1>1, MappedCellIsText DEF WrittenAs
<1> QED BY <1>6, <1>7, NilAssumption

\* What PeerDB's target scans is what the mapper says.
LEMMA MappedRowIsTargetText ==
  ASSUME NEW t \in Tables, NEW row \in Rows(t), Aligned(t.columns),
         \A k \in DOMAIN SourceColumns(t.columns) :
           Canonical(SourceColumns(t.columns)[k].type, ValuesSent(t, row, {})[k])
  PROVE  FlattenSeq([k \in DOMAIN ValuesSent(t, row, {}) |->
           transformSourceCell(ValuesSent(t, row, {})[k], SourceFamilies(t)[k])])
         = ScannedTargetText("peer_db", t.columns, row)
<1> DEFINE source == SourceColumns(t.columns)
           values == ValuesSent(t, row, {})
           given == SourceFamilies(t)
<1>1. ASSUME NEW k \in DOMAIN source
      PROVE  transformSourceCell(values[k], given[k])
             = Coalesced(TargetText("peer_db", source[k].type, row[source[k].name]))
  <2> DEFINE c == source[k]
  <2>1. c \in ToSet(t.columns) /\ c.name \in ToSet(t.relation)
    BY SourceColumn
  <2>2. values[k] = row[c.name] /\ row[c.name] \in Cells(c.type) /\ given[k] = Family(c.type)
    BY WholeValue, ValueOfColumn, ValuesLength
  <2>3. Canonical(c.type, row[c.name]) /\ row[c.name] # Nil
    BY <2>2 DEF Canonical
  <2>4. WrittenAs(c.type, row[c.name])
    BY <2>1, <2>2, <2>3, CellOfColumn
  <2>5. /\ transformSourceCell(row[c.name], Family(c.type)) = TargetText("peer_db", c.type, row[c.name])
        /\ TargetText("peer_db", c.type, row[c.name]) # Nil
    BY <2>3, <2>4, CellAgrees
  <2> QED BY <2>2, <2>5 DEF Coalesced
<1>2. DOMAIN values = DOMAIN source
  BY ValuesLength
<1>3. ScannedTargetText("peer_db", t.columns, row)
      = FlattenSeq([k \in DOMAIN source |->
          Coalesced(TargetText("peer_db", source[k].type, row[source[k].name]))])
  BY Zenon DEF ScannedTargetText, Aligned
<1> HIDE DEF source, values, given
<1>4. [k \in DOMAIN values |-> transformSourceCell(values[k], given[k])]
      = [k \in DOMAIN source |-> Coalesced(TargetText("peer_db", source[k].type, row[source[k].name]))]
  BY <1>1, <1>2
<1> QED BY <1>3, <1>4 DEF values, given

\* What Sling's target scans is what the generic mapper says, where that is the
\* source's text.
LEMMA CanonicalRowIsTargetText ==
  ASSUME NEW t \in Tables, Uncast(t), NEW row \in Rows(t), Aligned(t.columns)
  PROVE  canonicalize(ValuesSent(t, row, {})) = ScannedTargetText("generic", t.columns, row)
<1> DEFINE source == SourceColumns(t.columns)
<1>1. ScannedTargetText("generic", t.columns, row)
      = FlattenSeq([k \in DOMAIN source |->
          Coalesced(TargetText("generic", source[k].type, row[source[k].name]))])
  BY Zenon DEF ScannedTargetText, Aligned
<1>2. ScannedText(source, row)
      = FlattenSeq([k \in DOMAIN source |->
          Coalesced(CastText(source[k].type, row[source[k].name]))])
  BY Zenon DEF ScannedText
<1>3. \A k : TargetText("generic", source[k].type, row[source[k].name])
             = CastText(source[k].type, row[source[k].name])
  BY DEF TargetText, CastText
<1> HIDE DEF source
<1>4. ScannedTargetText("generic", t.columns, row) = ScannedText(source, row)
  BY <1>1, <1>2, <1>3
<1> QED BY <1>4, WholeChangeHasItsText DEF canonicalize, source

-----------------------------------------------------------------------------
(***************************************************************************)
(* A step inside the guest.                                                *)
(***************************************************************************)
\* The other parties wait, and nothing that is true of them changes.
LEMMA OthersWait ==
  ASSUME WasmInv, NEW c \in Parties, pc[c] \in Holding \/ mu = Nobody, CallersAssumption,
         UNCHANGED <<table, runtime>>,
         \A d \in Parties \ {c} :
           pc'[d] = pc[d] /\ ptr'[d] = ptr[d] /\ call'[d] = call[d] /\ result'[d] = result[d]
  PROVE  \A d \in Parties \ {c} :
           pc'[d] \notin Holding /\ RegionOf(d)' /\ (d \in Callers => CallOf(d)')
<1> SUFFICES ASSUME NEW d \in Parties \ {c}
             PROVE  pc'[d] \notin Holding /\ RegionOf(d)' /\ (d \in Callers => CallOf(d)')
  OBVIOUS
<1>1. pc'[d] \notin Holding
  <2>1. d # Nobody
    BY DEF CallersAssumption, Parties
  <2> QED BY <2>1 DEF WasmInv, MutexInv
<1>2. \A l \in HasRegion \cup {"unlock"} : pc'[d] # l
  BY <1>1 DEF Holding, HasRegion
<1>3. RegionOf(d)'
  BY <1>2 DEF WasmInv, RegionOf, HasRegion
<1>4. ASSUME d \in Callers
      PROVE  CallOf(d)'
  <2>1. CallOf(d)
    BY <1>4 DEF WasmInv
  <2>2. pc'[d] \notin {"read", "error", "free", "unlock"}
    BY <1>1 DEF Holding
  <2>3. SourceFamilies(table)' = SourceFamilies(table)
    BY DEF SourceFamilies
  <2> QED BY <2>1, <2>2, <2>3 DEF CallOf
<1> QED BY <1>1, <1>3, <1>4

\* Where the constructor and the callers can be inside the guest.
LEMMA WhenInside ==
  ASSUME WasmInv, CallersAssumption, NEW c \in Parties, pc[c] \in Holding \/ pc[c] = "lock"
  PROVE  /\ c = Constructor => runtime \notin {"none", "open", "ready"}
         /\ c # Constructor => /\ c \in Callers /\ runtime = "ready"
                              /\ families = SourceFamilies(table)
                              /\ pc[Constructor] = "returned"
         /\ pc[c] # "idle" /\ pc[c] # "returned"
<1>1. pc[c] # "idle" /\ pc[c] # "returned"
  BY DEF Holding
<1> QED BY <1>1 DEF WasmInv, SchemaInv, CallOf, Parties

\* A step of the party inside that leaves it inside.
LEMMA InsideStep ==
  ASSUME WasmInv, CallersAssumption, NEW c \in Parties, NEW l \in Holding,
         pc[c] \in Holding, pc' = [pc EXCEPT ![c] = l],
         UNCHANGED <<table, runtime, mu, call>>,
         DOMAIN ptr' = Parties, DOMAIN result' = Parties,
         \A d \in Parties \ {c} : ptr'[d] = ptr[d] /\ result'[d] = result[d],
         RegionOf(c)', c \in Callers => CallOf(c)',
         leaked' \subseteq Regions, l \notin HasRegion => DOMAIN regions' = leaked',
         c # Constructor => families' = families,
         c = Constructor =>
           /\ l # "read"
           /\ l \in {"free", "unlock"} /\ result'[c].ok => families' = SourceFamilies(table)
  PROVE  WasmInv'
<1>1. /\ pc \in [Parties -> Label] /\ pc'[c] = l
      /\ \A d \in Parties \ {c} : pc'[d] = pc[d]
  BY DEF WasmInv, Shape
<1>2. \A d \in Parties \ {c} :
        pc'[d] \notin Holding /\ RegionOf(d)' /\ (d \in Callers => CallOf(d)')
  BY <1>1, OthersWait
<1>3. Shape'
  BY DEF WasmInv, Shape, Holding, Label
<1>4. MutexInv'
  <2>1. mu = c
    BY DEF WasmInv, MutexInv
  <2> QED BY <1>1, <1>2, <2>1 DEF MutexInv
<1>5. NoRegion'
  BY <1>1 DEF NoRegion
<1>6. SchemaInv'
  <2>1. SourceFamilies(table)' = SourceFamilies(table)
    BY DEF SourceFamilies
  <2>2. Constructor \in Parties
    BY DEF Parties
  <2>3. CASE c = Constructor
    BY <1>1, <2>1, <2>3, WhenInside DEF SchemaInv, Holding
  <2>4. CASE c # Constructor
    <3>1. pc'[Constructor] = "returned" /\ families = SourceFamilies(table)
      BY <1>1, <2>2, <2>4, WhenInside
    <3> QED BY <2>1, <2>4, <3>1, WhenInside DEF SchemaInv
  <2> QED BY <2>3, <2>4
<1>7. (\A d \in Parties : RegionOf(d)') /\ (\A d \in Callers : CallOf(d)')
  BY <1>2 DEF Parties
<1> QED BY <1>3, <1>4, <1>5, <1>6, <1>7 DEF WasmInv

-----------------------------------------------------------------------------
(***************************************************************************)
(* The calls.                                                              *)
(***************************************************************************)
\* A row has as many values as the guest has families.
LEMMA ValuesFit ==
  ASSUME NEW t \in Tables, NEW relation, NEW tuple
  PROVE  Len(ValuesArray(t.columns, relation, tuple)) = Len(SourceFamilies(t))
<1> DEFINE source == SourceColumns(t.columns)
           n == Len(source)
<1>1. n \in Nat /\ DOMAIN source = 1..n
  BY ValuesLength
<1>2. \A f : DOMAIN f = 1..n /\ f = [i \in 1..n |-> f[i]] => Len(f) = n
  BY <1>1
<1> DEFINE values == ValuesArray(t.columns, relation, tuple)
<1>3. DOMAIN values = 1..n /\ values = [i \in 1..n |-> values[i]]
  BY <1>1, Zenon DEF ValuesArray
<1>4. DOMAIN SourceFamilies(t) = 1..n /\ SourceFamilies(t) = [i \in 1..n |-> SourceFamilies(t)[i]]
  BY <1>1, Zenon DEF SourceFamilies
<1> HIDE DEF values
<1>5. Len(values) = n
  BY <1>2, <1>3
<1>6. Len(SourceFamilies(t)) = n
  BY <1>2, <1>4
<1> QED BY <1>5, <1>6 DEF values

LEMMA TransformKeeps ==
  ASSUME WasmInv, CallersAssumption, NEW c \in Callers, Transform(c)
  PROVE  WasmInv'
<1>1. c \in Parties /\ c # Constructor /\ Constructor \in Parties /\ c # Nobody
  BY DEF Parties, CallersAssumption
<1>2. /\ runtime = "ready" /\ pc[c] = "idle" /\ pc' = [pc EXCEPT ![c] = "lock"]
      /\ UNCHANGED <<table, runtime, ptr, result, mu, guest>>
      /\ UNCHANGED <<regions, leaked, families, output, err>>
  BY DEF Transform, Goto, guest
<1>3. PICK relation, tuple, v :
        /\ v.values = ValuesArray(table.columns, relation, tuple)
        /\ call' = [call EXCEPT ![c] = v]
  BY DEF Transform
<1>4. table \in Tables /\ DOMAIN call = Parties /\ pc \in [Parties -> Label]
  BY DEF WasmInv, Shape
<1>5. Len(call'[c].values) = Len(SourceFamilies(table))
  BY <1>1, <1>3, <1>4, ValuesFit
<1>6. /\ pc'[c] = "lock"
      /\ \A d \in Parties \ {c} : pc'[d] = pc[d] /\ call'[d] = call[d]
  BY <1>1, <1>2, <1>3, <1>4
<1>7. SourceFamilies(table)' = SourceFamilies(table)
  BY <1>2 DEF SourceFamilies
<1>8. Shape'
  BY <1>2, <1>3, <1>4 DEF WasmInv, Shape, Label
<1>9. MutexInv'
  BY <1>1, <1>2, <1>6 DEF WasmInv, MutexInv, Holding
<1>10. NoRegion'
  BY <1>1, <1>2, <1>6 DEF WasmInv, NoRegion, HasRegion
<1>11. SchemaInv'
  BY <1>1, <1>2, <1>6, <1>7 DEF WasmInv, SchemaInv
<1>12. ASSUME NEW d \in Parties
       PROVE  RegionOf(d)'
  <2>1. CASE d = c
    BY <1>1, <1>2, <1>6, <2>1 DEF WasmInv, RegionOf, HasRegion
  <2>2. CASE d # c
    <3>1. Payload(d)' = Payload(d)
      BY <1>2, <1>6, <1>7, <2>2 DEF Payload
    <3> QED BY <1>2, <1>6, <2>2, <3>1 DEF WasmInv, RegionOf, HasRegion
  <2> QED BY <2>1, <2>2
<1>13. ASSUME NEW d \in Callers
       PROVE  CallOf(d)'
  <2>1. CASE d = c
    BY <1>2, <1>5, <1>6, <1>7, <2>1 DEF CallOf
  <2>2. CASE d # c
    <3>1. d \in Parties /\ pc'[d] = pc[d] /\ call'[d] = call[d]
      BY <1>6, <2>2 DEF Parties
    <3>2. Mapped(d)' = Mapped(d)
      BY <1>7, <3>1, Zenon DEF Mapped
    <3> QED BY <1>2, <1>7, <3>1, <3>2 DEF WasmInv, CallOf
  <2> QED BY <2>1, <2>2
<1> QED BY <1>8, <1>9, <1>10, <1>11, <1>12, <1>13 DEF WasmInv

\* What stays of a party's own part when it moves on with the same call.
LEMMA SameCall ==
  ASSUME UNCHANGED <<table, call>>, NEW c
  PROVE  /\ SourceFamilies(table)' = SourceFamilies(table)
         /\ Payload(c)' = Payload(c) /\ Mapped(c)' = Mapped(c)
<1>1. SourceFamilies(table)' = SourceFamilies(table)
  BY DEF SourceFamilies
<1>2. Payload(c)' = Payload(c)
  BY <1>1, Zenon DEF Payload
<1>3. Mapped(c)' = Mapped(c)
  BY <1>1, Zenon DEF Mapped
<1> QED BY <1>1, <1>2, <1>3

LEMMA LockKeeps ==
  ASSUME WasmInv, CallersAssumption, NEW c \in Parties, Lock(c)
  PROVE  WasmInv'
<1>1. /\ pc[c] = "lock" /\ mu = Nobody /\ mu' = c /\ pc' = [pc EXCEPT ![c] = "alloc"]
      /\ UNCHANGED <<table, runtime, call, ptr, result, regions, leaked, families, output, err>>
  BY DEF Lock, Goto, guest
<1>2. pc \in [Parties -> Label] /\ pc'[c] = "alloc" /\ \A d \in Parties \ {c} : pc'[d] = pc[d]
  BY <1>1 DEF WasmInv, Shape
<1>3. \A d \in Parties \ {c} :
        pc'[d] \notin Holding /\ RegionOf(d)' /\ (d \in Callers => CallOf(d)')
  BY <1>1, <1>2, OthersWait
<1>4. Shape'
  BY <1>1 DEF WasmInv, Shape, Label
<1>5. MutexInv'
  BY <1>1, <1>2, <1>3 DEF MutexInv, Holding
<1>6. NoRegion'
  BY <1>1, <1>2 DEF WasmInv, NoRegion, HasRegion
<1>7. RegionOf(c)'
  BY <1>1, <1>2 DEF WasmInv, RegionOf, HasRegion
<1>8. c \in Callers => CallOf(c)'
  BY <1>1, <1>2, SameCall DEF WasmInv, CallOf
<1>9. SchemaInv'
  <2>1. CASE c = Constructor
    BY <1>1, <1>2, <2>1, WhenInside DEF SchemaInv
  <2>2. CASE c # Constructor
    BY <1>1, <1>2, <2>2, WhenInside, SameCall DEF SchemaInv, Parties
  <2> QED BY <2>1, <2>2
<1>10. (\A d \in Parties : RegionOf(d)') /\ (\A d \in Callers : CallOf(d)')
  BY <1>3, <1>7, <1>8 DEF Parties
<1> QED BY <1>4, <1>5, <1>6, <1>9, <1>10 DEF WasmInv

\* Inside, before there is a region of one's own, there are the leaked ones.
LEMMA NoneYet ==
  ASSUME WasmInv, CallersAssumption, NEW c \in Parties, pc[c] \in Holding \ HasRegion
  PROVE  DOMAIN regions = leaked /\ ptr[c] = Nobody
<1>1. \A d \in Parties \ {c} : pc[d] \notin Holding
  BY DEF WasmInv, MutexInv
<1>2. \A d \in Parties : pc[d] \notin HasRegion
  BY <1>1 DEF Holding, HasRegion
<1>3. DOMAIN regions = leaked
  BY <1>2 DEF WasmInv, NoRegion
<1>4. ptr[c] = Nobody
  BY DEF WasmInv, RegionOf
<1> QED BY <1>3, <1>4

LEMMA AllocKeeps ==
  ASSUME WasmInv, CallersAssumption, NEW c \in Parties, AllocTo(c) \/ AllocFails(c)
  PROVE  WasmInv'
<1>1. pc[c] = "alloc" /\ UNCHANGED <<table, runtime, call, mu, leaked, families, output, err>>
  BY DEF AllocTo, AllocFails, guest
<1>2. Shape /\ (c \in Callers => CallOf(c))
  BY DEF WasmInv
<1>3. DOMAIN regions = leaked /\ ptr[c] = Nobody
  BY <1>1, NoneYet DEF Holding, HasRegion
<1>4. CASE AllocTo(c)
  <2> DEFINE number == Min(Regions \ DOMAIN regions)
  <2>0. number \in Regions \ leaked
    <3>1. Regions \ DOMAIN regions # {} /\ Regions \ DOMAIN regions \subseteq Nat
      BY <1>2, <1>3, <1>4, SizesAssumption DEF AllocTo, Shape
    <3> QED BY <1>3, <3>1, MinExists
  <2>1. PICK p \in Regions \ leaked :
          /\ regions' = [q \in DOMAIN regions \cup {p} |->
                          IF q = p THEN [of |-> c, content |-> Nil] ELSE regions[q]]
          /\ ptr' = [ptr EXCEPT ![c] = p]
    <3>1. /\ regions' = [q \in DOMAIN regions \cup {number} |->
                          IF q = number THEN [of |-> c, content |-> Nil] ELSE regions[q]]
          /\ ptr' = [ptr EXCEPT ![c] = number]
      BY <1>4 DEF AllocTo
    <3> HIDE DEF number
    <3> QED BY <2>0, <3>1
  <2>2. pc' = [pc EXCEPT ![c] = "write"] /\ result' = result
    BY <1>4 DEF AllocTo, Goto
  <2>3. pc'[c] = "write" /\ ptr'[c] = p /\ \A d \in Parties \ {c} : ptr'[d] = ptr[d]
    BY <1>2, <2>1, <2>2 DEF Shape
  <2>4. DOMAIN regions' = leaked \cup {p} /\ regions'[p] = [of |-> c, content |-> Nil]
    BY <1>3, <2>1
  <2>5. RegionOf(c)'
    BY <1>1, <2>3, <2>4 DEF RegionOf, HasRegion
  <2>6. c \in Callers => CallOf(c)'
    BY <1>1, <1>2, <2>3, SameCall DEF CallOf
  <2>7. "write" \in Holding /\ "write" \in HasRegion /\ pc[c] \in Holding
        /\ "write" \notin {"read", "free", "unlock"}
    BY <1>1 DEF Holding, HasRegion
  <2> QED BY <1>1, <1>2, <2>1, <2>2, <2>3, <2>5, <2>6, <2>7, InsideStep DEF Shape
<1>5. CASE AllocFails(c)
  <2>1. /\ pc' = [pc EXCEPT ![c] = "unlock"] /\ result' = [result EXCEPT ![c] = Failed("host")]
        /\ UNCHANGED <<ptr, regions>>
    BY <1>5 DEF AllocFails, Leave, Goto, guest
  <2>2. /\ pc'[c] = "unlock" /\ ~result'[c].ok /\ result'[c].text = "host"
        /\ \A d \in Parties \ {c} : result'[d] = result[d]
    BY <1>2, <2>1 DEF Shape, Failed
  <2>3. RegionOf(c)'
    BY <1>3, <2>1, <2>2 DEF RegionOf, HasRegion
  <2>4. c \in Callers => CallOf(c)'
    BY <1>1, <1>2, <2>2, SameCall DEF CallOf
  <2>5. "unlock" \in Holding /\ pc[c] \in Holding
    BY <1>1 DEF Holding
  <2> QED BY <1>1, <1>2, <1>3, <2>1, <2>2, <2>3, <2>4, <2>5, InsideStep DEF Shape
<1> QED BY <1>4, <1>5

\* A failure inside, of which the region is still to be freed.
LEMMA FailKeeps ==
  ASSUME WasmInv, CallersAssumption, NEW c \in Parties, pc[c] \in HasRegion, NEW why,
         c \in Callers => why # "row-length-mismatch", Leave(c, Failed(why), "free"),
         UNCHANGED <<table, runtime, call, ptr, mu, guest>>
  PROVE  WasmInv'
<1>1. /\ UNCHANGED <<table, runtime, call, ptr, mu, regions, leaked, families, output, err>>
      /\ pc' = [pc EXCEPT ![c] = "free"] /\ result' = [result EXCEPT ![c] = Failed(why)]
  BY DEF Leave, Goto, guest
<1>2. Shape /\ (c \in Callers => CallOf(c)) /\ RegionOf(c)
  BY DEF WasmInv
<1>3. /\ pc'[c] = "free" /\ ~result'[c].ok /\ result'[c].text = why
      /\ \A d \in Parties \ {c} : result'[d] = result[d]
  BY <1>1, <1>2 DEF Shape, Failed
<1>4. RegionOf(c)'
  BY <1>1, <1>2, <1>3 DEF RegionOf, HasRegion
<1>5. pc[c] \in Holding /\ pc[c] # "idle" /\ "free" \in Holding /\ "free" \in HasRegion
  BY DEF Holding, HasRegion
<1>6. c \in Callers => CallOf(c)'
  BY <1>1, <1>2, <1>3, <1>5, SameCall DEF CallOf
<1> QED BY <1>1, <1>2, <1>3, <1>4, <1>5, <1>6, InsideStep DEF Shape

LEMMA WriteKeeps ==
  ASSUME WasmInv, CallersAssumption, NEW c \in Parties, Write(c)
  PROVE  WasmInv'
<1>1. /\ pc[c] = "write" /\ pc' = [pc EXCEPT ![c] = "call"]
      /\ regions' = [regions EXCEPT ![ptr[c]].content = Payload(c)]
      /\ UNCHANGED <<table, runtime, call, ptr, result, mu, leaked, families, output, err>>
  BY DEF Write, Goto
<1>2. Shape /\ (c \in Callers => CallOf(c)) /\ RegionOf(c)
  BY DEF WasmInv
<1>3. /\ DOMAIN regions = leaked \cup {ptr[c]} /\ ptr[c] \in Regions \ leaked
      /\ regions[ptr[c]] = [of |-> c, content |-> Nil]
  BY <1>1, <1>2 DEF RegionOf, HasRegion
<1>4. DOMAIN regions' = leaked \cup {ptr[c]} /\ regions'[ptr[c]].content = Payload(c)
  BY <1>1, <1>3
<1>5. pc'[c] = "call"
  BY <1>1, <1>2 DEF Shape
<1>6. RegionOf(c)'
  BY <1>1, <1>3, <1>4, <1>5, SameCall DEF RegionOf, HasRegion
<1>7. c \in Callers => CallOf(c)'
  BY <1>1, <1>2, <1>5, SameCall DEF CallOf
<1>8. pc[c] \in Holding /\ "call" \in Holding /\ "call" \in HasRegion
      /\ "call" \notin {"read", "free", "unlock"}
  BY <1>1 DEF Holding, HasRegion
<1> QED BY <1>1, <1>2, <1>6, <1>7, <1>8, InsideStep DEF Shape

LEMMA CallSetSchemaKeeps ==
  ASSUME WasmInv, CallersAssumption, CallSetSchema
  PROVE  WasmInv'
<1> DEFINE c == Constructor
           answer == set_schema(regions[ptr[c]].content)
<1>1. /\ pc[c] = "call" /\ families' = answer.families /\ err' = answer.err
      /\ UNCHANGED <<table, runtime, call, ptr, mu, regions, leaked, output>>
      /\ \/ /\ answer.rc = 0
            /\ pc' = [pc EXCEPT ![c] = "free"] /\ result' = [result EXCEPT ![c] = Text(<<>>)]
         \/ /\ answer.rc # 0
            /\ pc' = [pc EXCEPT ![c] = "error"] /\ result' = result
  BY DEF CallSetSchema, Leave, Goto
<1>2. Shape /\ RegionOf(c) /\ c \in Parties /\ c \notin Callers
  BY DEF WasmInv, Parties, CallersAssumption
<1>3. regions[ptr[c]].content.source = SourceFamilies(table)
  BY <1>1, <1>2 DEF RegionOf, Payload
<1>4. answer.rc = 0 => families' = SourceFamilies(table)
  BY <1>1, <1>3 DEF set_schema
<1> HIDE DEF answer
<1>5. PICK l \in {"free", "error"} : pc' = [pc EXCEPT ![c] = l] /\ pc'[c] = l
        /\ (l = "free" => families' = SourceFamilies(table))
  BY <1>1, <1>2, <1>4 DEF Shape
<1>6. DOMAIN result' = Parties /\ \A d \in Parties \ {c} : result'[d] = result[d]
  BY <1>1, <1>2 DEF Shape
<1>7. RegionOf(c)'
  BY <1>1, <1>2, <1>5 DEF RegionOf, HasRegion
<1>8. pc[c] \in Holding /\ l \in Holding /\ l \in HasRegion /\ l # "read" /\ l # "unlock"
  BY <1>1 DEF Holding, HasRegion
<1> QED BY <1>1, <1>2, <1>5, <1>6, <1>7, <1>8, InsideStep DEF Shape

LEMMA CallTransformKeeps ==
  ASSUME WasmInv, CallersAssumption, NEW c \in Callers, CallTransform(c)
  PROVE  WasmInv'
<1> DEFINE values == call[c].values
           text == FlattenSeq([i \in DOMAIN values |-> transformSourceCell(values[i], families[i])])
<1>1. c \in Parties /\ c # Constructor
  BY DEF Parties, CallersAssumption
<1>2. /\ pc[c] = "call"
      /\ output' = transformRow(regions[ptr[c]].content).output
      /\ err' = transformRow(regions[ptr[c]].content).err
      /\ pc' = [pc EXCEPT ![c] =
                 IF transformRow(regions[ptr[c]].content).rc = 0 THEN "error" ELSE "read"]
      /\ UNCHANGED <<table, runtime, call, ptr, result, mu, regions, leaked, families>>
  BY DEF CallTransform, Goto
<1>3. Shape /\ RegionOf(c) /\ CallOf(c)
  BY <1>1 DEF WasmInv
<1>4. regions[ptr[c]].content = values
  BY <1>1, <1>2, <1>3 DEF RegionOf, Payload
<1>5. families = SourceFamilies(table) /\ Len(values) = Len(families)
  BY <1>1, <1>2, <1>3, WhenInside DEF Holding, CallOf
<1>6. Mapped(c) = text
  BY <1>5 DEF Mapped
<1> DEFINE answer == transformRow(values)
<1>7. \/ answer.rc = 0 /\ answer.err = "write-failed"
      \/ answer.rc = 1 /\ answer.output = text
  <2>1. \/ answer = [rc |-> 0, output |-> SubSeq(text, 1, OutputSize), err |-> "write-failed"]
        \/ answer = [rc |-> 1, output |-> text, err |-> err]
    BY <1>5, Zenon DEF transformRow
  <2> HIDE DEF answer, text, values
  <2> QED BY <2>1
<1> HIDE DEF text, values, answer
<1>8. \/ pc' = [pc EXCEPT ![c] = "error"] /\ err' = "write-failed"
      \/ pc' = [pc EXCEPT ![c] = "read"] /\ output' = Mapped(c)
  <2>1. /\ output' = answer.output /\ err' = answer.err
        /\ pc' = [pc EXCEPT ![c] = IF answer.rc = 0 THEN "error" ELSE "read"]
    BY <1>2, <1>4, Zenon DEF answer
  <2>2. CASE answer.rc = 0
    <3>1. answer.err = "write-failed"
      BY <1>7, <2>2
    <3> QED BY <2>1, <2>2, <3>1, Zenon
  <2>3. CASE answer.rc # 0
    <3>1. answer.output = text
      BY <1>7, <2>3
    <3> QED BY <1>6, <2>1, <2>3, <3>1, Zenon
  <2> QED BY <2>2, <2>3
<1>9. PICK l \in {"error", "read"} : pc' = [pc EXCEPT ![c] = l] /\ pc'[c] = l
        /\ (l = "error" => err' \in Message) /\ (l = "read" => output' = Mapped(c))
  BY <1>1, <1>3, <1>8 DEF Shape, Message
<1>10. RegionOf(c)'
  BY <1>2, <1>3, <1>9 DEF RegionOf, HasRegion
<1>11. CallOf(c)'
  BY <1>2, <1>3, <1>9, SameCall DEF CallOf
<1>12. pc[c] \in Holding /\ l \in Holding /\ l \in HasRegion
  BY <1>2 DEF Holding, HasRegion
<1> QED BY <1>1, <1>2, <1>3, <1>9, <1>10, <1>11, <1>12, InsideStep DEF Shape

LEMMA ReadKeeps ==
  ASSUME WasmInv, CallersAssumption, NEW c \in Parties, Read(c)
  PROVE  WasmInv'
<1>1. /\ pc[c] = "read" /\ pc' = [pc EXCEPT ![c] = "free"]
      /\ result' = [result EXCEPT ![c] = Text(output)]
      /\ UNCHANGED <<table, runtime, call, ptr, mu, regions, families, output, err, leaked>>
  BY DEF Read, Leave, Goto, guest
<1>2. c \in Callers /\ c # Constructor
  BY <1>1 DEF WasmInv, SchemaInv, Parties
<1>3. Shape /\ RegionOf(c) /\ CallOf(c)
  BY <1>2 DEF WasmInv
<1>4. /\ pc'[c] = "free" /\ result'[c] = [ok |-> TRUE, text |-> output]
      /\ \A d \in Parties \ {c} : result'[d] = result[d]
  BY <1>1, <1>3 DEF Shape, Text
<1>5. output = Mapped(c)
  BY <1>1, <1>3 DEF CallOf
<1>6. RegionOf(c)'
  BY <1>1, <1>3, <1>4 DEF RegionOf, HasRegion
<1>7. CallOf(c)'
  BY <1>1, <1>3, <1>4, <1>5, SameCall DEF CallOf
<1>8. pc[c] \in Holding /\ "free" \in Holding /\ "free" \in HasRegion
  BY <1>1 DEF Holding, HasRegion
<1> QED BY <1>1, <1>2, <1>3, <1>4, <1>6, <1>7, <1>8, InsideStep DEF Shape

\* Whether dealloc takes the region back or traps on it, the host is done with it.
LEMMA FreeKeeps ==
  ASSUME WasmInv, CallersAssumption, NEW c \in Parties, Free(c) \/ FreeFails(c)
  PROVE  WasmInv'
<1>1. /\ pc[c] = "free" /\ pc' = [pc EXCEPT ![c] = "unlock"]
      /\ ptr' = [ptr EXCEPT ![c] = Nobody]
      /\ UNCHANGED <<table, runtime, call, result, mu, families, output, err>>
  BY DEF Free, FreeFails, Goto
<1>2. Shape /\ RegionOf(c) /\ (c \in Callers => CallOf(c))
  BY DEF WasmInv
<1>3. DOMAIN regions' = leaked' /\ leaked' \subseteq Regions
  <2>1. DOMAIN regions = leaked \cup {ptr[c]} /\ ptr[c] \in Regions \ leaked
    BY <1>1, <1>2 DEF RegionOf, HasRegion
  <2>2. CASE Free(c)
    <3>1. regions' = [p \in DOMAIN regions \ {ptr[c]} |-> regions[p]] /\ leaked' = leaked
      BY <2>2 DEF Free
    <3> QED BY <1>2, <2>1, <3>1 DEF Shape
  <2>3. CASE FreeFails(c)
    <3>1. regions' = regions /\ leaked' = leaked \cup {ptr[c]}
      BY <2>3 DEF FreeFails
    <3> QED BY <1>2, <2>1, <3>1 DEF Shape
  <2> QED BY <2>2, <2>3
<1>4. pc'[c] = "unlock" /\ ptr'[c] = Nobody /\ \A d \in Parties \ {c} : ptr'[d] = ptr[d]
  BY <1>1, <1>2 DEF Shape
<1>5. RegionOf(c)'
  BY <1>4 DEF RegionOf, HasRegion
<1>6. c \in Callers => CallOf(c)'
  BY <1>1, <1>2, <1>4, SameCall DEF CallOf
<1>7. /\ pc[c] \in Holding /\ "unlock" \in Holding
      /\ c = Constructor /\ result'[c].ok => families' = SourceFamilies(table)
  BY <1>1 DEF Holding, WasmInv, SchemaInv
<1> QED BY <1>1, <1>2, <1>3, <1>4, <1>5, <1>6, <1>7, InsideStep DEF Shape

LEMMA UnlockKeeps ==
  ASSUME WasmInv, CallersAssumption, NEW c \in Parties, Unlock(c)
  PROVE  WasmInv'
<1>1. /\ pc[c] = "unlock" /\ mu' = Nobody
      /\ UNCHANGED <<table, runtime, ptr, regions, leaked, families, output, err>>
  BY DEF Unlock, guest
<1>2. Shape /\ RegionOf(c) /\ Nobody \notin Parties /\ Constructor \in Parties
  BY DEF WasmInv, CallersAssumption, Parties
<1>3. /\ c = Constructor => pc' = [pc EXCEPT ![c] = "returned"] /\ call' = call /\ result' = result
      /\ c # Constructor => /\ pc' = [pc EXCEPT ![c] = "idle"]
                           /\ call' = [call EXCEPT ![c] = Nil] /\ result' = [result EXCEPT ![c] = Nil]
  BY DEF Unlock, Goto
<1>4. PICK l \in {"idle", "returned"} : pc' = [pc EXCEPT ![c] = l] /\ pc'[c] = l
        /\ (l = "idle" <=> c # Constructor)
  BY <1>2, <1>3 DEF Shape
<1>5. /\ DOMAIN call' = Parties /\ DOMAIN result' = Parties
      /\ \A d \in Parties \ {c} :
           pc'[d] = pc[d] /\ ptr'[d] = ptr[d] /\ call'[d] = call[d] /\ result'[d] = result[d]
  BY <1>1, <1>2, <1>3 DEF Shape
<1>6. pc[c] \in Holding /\ pc[c] \notin HasRegion
      /\ l \notin Holding /\ l \notin HasRegion
  BY <1>1 DEF Holding, HasRegion
<1>7. DOMAIN regions = leaked
  BY <1>6, NoneYet
<1>8. \A d \in Parties \ {c} :
        pc'[d] \notin Holding /\ RegionOf(d)' /\ (d \in Callers => CallOf(d)')
  BY <1>1, <1>5, <1>6, OthersWait
<1>9. Shape'
  BY <1>1, <1>2, <1>4, <1>5 DEF Shape, Label
<1>10. MutexInv'
  BY <1>1, <1>2, <1>4, <1>6, <1>8 DEF MutexInv
<1>11. NoRegion'
  BY <1>1, <1>7 DEF NoRegion
<1>12. RegionOf(c)'
  BY <1>1, <1>2, <1>4, <1>6 DEF RegionOf, HasRegion
<1>13. c \in Callers => CallOf(c)'
  BY <1>4, CallersAssumption DEF CallOf
<1>14. SchemaInv'
  <2>1. SourceFamilies(table)' = SourceFamilies(table)
    BY <1>1 DEF SourceFamilies
  <2>2. CASE c = Constructor
    <3>1. result[c].ok => families = SourceFamilies(table)
      BY <1>1, <2>2 DEF WasmInv, SchemaInv
    <3> QED BY <1>1, <1>3, <1>4, <1>6, <2>1, <2>2, <3>1, WhenInside DEF SchemaInv
  <2>3. CASE c # Constructor
    BY <1>1, <1>2, <1>5, <1>6, <2>1, <2>3, WhenInside DEF SchemaInv
  <2> QED BY <2>2, <2>3
<1>15. (\A d \in Parties : RegionOf(d)') /\ (\A d \in Callers : CallOf(d)')
  BY <1>8, <1>12, <1>13 DEF Parties
<1> QED BY <1>9, <1>10, <1>11, <1>14, <1>15 DEF WasmInv

LEMMA GuestCallKeeps ==
  ASSUME WasmInv, CallersAssumption, NEW c \in Parties, GuestCall(c)
  PROVE  WasmInv'
<1>1. CASE WriteFails(c) \/ CallTraps(c)
  <2>1. pc[c] \in HasRegion /\ "host" # "row-length-mismatch"
    BY <1>1 DEF WriteFails, CallTraps, HasRegion
  <2> QED BY <1>1, <2>1, FailKeeps DEF WriteFails, CallTraps
<1>2. CASE ReadError(c)
  <2>1. PICK why \in {err, "unknown-error"} : Leave(c, Failed(why), "free")
    BY <1>2 DEF ReadError
  <2>2. c \in Callers => err \in Message
    BY <1>2 DEF WasmInv, CallOf, ReadError
  <2>3. c \in Callers => why # "row-length-mismatch"
    BY <2>1, <2>2 DEF Message
  <2>4. pc[c] \in HasRegion
    BY <1>2 DEF ReadError, HasRegion
  <2> QED BY <1>2, <2>1, <2>3, <2>4, FailKeeps DEF ReadError
<1>3. CASE CallTransform(c)
  BY <1>3, CallTransformKeeps DEF CallTransform
<1> QED BY <1>1, <1>2, <1>3, LockKeeps, AllocKeeps, WriteKeeps, ReadKeeps, FreeKeeps, UnlockKeeps
        DEF GuestCall

LEMMA ConstructKeeps ==
  ASSUME WasmInv, CallersAssumption, Construct
  PROVE  WasmInv'
<1>1. /\ UNCHANGED <<table, call, ptr, result, mu, regions, leaked, families, output, err>>
      /\ Constructor \in Parties /\ Constructor \notin Callers /\ Constructor # Nobody
  BY DEF Construct, Instantiate, InstantiateFails, CheckExports, SchemaUploaded, SchemaRejected,
         Abandon, guest, Parties, CallersAssumption
<1>2. Shape /\ \A d \in Parties : RegionOf(d)
  BY DEF WasmInv
\* No row is being mapped before the mapper is ready, and ready it stays.
<1>3. runtime # "ready" /\ \A d \in Callers : pc[d] = "idle"
  BY DEF Construct, Instantiate, InstantiateFails, CheckExports, SchemaUploaded, SchemaRejected,
         WasmInv, CallOf
<1>4. \/ /\ pc' = pc
         /\ \/ runtime = "none" /\ runtime' = "open"
            \/ runtime' = "closed"
            \/ runtime' = "ready" /\ pc[Constructor] = "returned" /\ result[Constructor].ok
      \/ runtime = "open" /\ runtime' = "instantiated" /\ pc' = [pc EXCEPT ![Constructor] = "lock"]
  BY DEF Construct, Instantiate, InstantiateFails, CheckExports, SchemaUploaded, SchemaRejected,
         Abandon, Goto
<1>5. CASE /\ pc' = pc
           /\ \/ runtime = "none" /\ runtime' = "open"
              \/ runtime' = "closed"
              \/ runtime' = "ready" /\ pc[Constructor] = "returned" /\ result[Constructor].ok
  <2>1. /\ runtime' \in {"open", "closed", "ready"}
        /\ runtime' = "open" => runtime = "none"
        /\ runtime' = "ready" => pc[Constructor] = "returned" /\ result[Constructor].ok
    BY <1>5
  <2>2. Shape' /\ MutexInv' /\ NoRegion'
    BY <1>1, <1>5, <2>1 DEF WasmInv, Shape, MutexInv, NoRegion
  <2>3. SchemaInv'
    BY <1>1, <1>5, <2>1, SameCall DEF WasmInv, SchemaInv
  <2>4. \A d \in Parties : RegionOf(d)'
    BY <1>1, <1>2, <1>5, SameCall DEF RegionOf
  <2>5. \A d \in Callers : CallOf(d)'
    BY <1>3, <1>5 DEF CallOf
  <2> QED BY <2>2, <2>3, <2>4, <2>5 DEF WasmInv
<1>6. CASE /\ runtime = "open" /\ runtime' = "instantiated"
           /\ pc' = [pc EXCEPT ![Constructor] = "lock"]
  <2>1. /\ pc'[Constructor] = "lock" /\ pc[Constructor] = "idle"
        /\ \A d \in Parties \ {Constructor} : pc'[d] = pc[d]
    BY <1>1, <1>2, <1>6 DEF Shape, WasmInv, SchemaInv
  <2>2. Shape'
    BY <1>1, <1>2, <1>6 DEF Shape, Label
  <2>3. MutexInv'
    BY <1>1, <2>1 DEF WasmInv, MutexInv, Holding
  <2>4. NoRegion'
    BY <1>1, <2>1 DEF WasmInv, NoRegion, HasRegion
  <2>5. SchemaInv'
    BY <1>6, <2>1 DEF SchemaInv
  <2>6. \A d \in Parties : RegionOf(d)'
    BY <1>1, <1>2, <2>1, SameCall DEF RegionOf, HasRegion
  <2>7. \A d \in Callers : CallOf(d)'
    BY <1>1, <1>3, <2>1 DEF CallOf, Parties
  <2> QED BY <2>2, <2>3, <2>4, <2>5, <2>6, <2>7 DEF WasmInv
<1> QED BY <1>4, <1>5, <1>6

-----------------------------------------------------------------------------
(***************************************************************************)
(* The rows callers map, and the types of what the guest has.              *)
(***************************************************************************)
\* A call is of a row of the table, as much of it as was sent.
CallsSent ==
  \A c \in Callers :
    pc[c] # "idle" =>
      \E row \in Rows(table) : \E toast \in SUBSET Toastable(table, row) :
        call[c] = [row |-> row, toast |-> toast, values |-> ValuesSent(table, row, toast)]

\* A call that goes on is of the same row.
LEMMA CallsSentOn ==
  ASSUME CallsSent, table' = table,
         \A c \in Callers : pc'[c] # "idle" => pc[c] # "idle" /\ call'[c] = call[c]
  PROVE  CallsSent'
  BY DEF CallsSent

LEMMA NextKeepsCallsSent ==
  ASSUME WasmInv, CallsSent, [Next]_vars
  PROVE  CallsSent'
<1>1. pc \in [Parties -> Label] /\ DOMAIN call = Parties /\ Callers \subseteq Parties
      /\ Constructor \notin Callers
  BY CallersAssumption DEF WasmInv, Shape, Parties
<1>2. CASE \E c \in Callers : Transform(c)
  <2>1. PICK c \in Callers : Transform(c)
    BY <1>2
  <2>2. PICK row, toast :
          /\ row \in Rows(table) /\ toast \in SUBSET Toastable(table, row)
          /\ call' = [call EXCEPT ![c] = [row |-> row, toast |-> toast,
                                          values |-> ValuesSent(table, row, toast)]]
    BY <2>1 DEF Transform, ValuesSent
  <2>3. pc' = [pc EXCEPT ![c] = "lock"] /\ table' = table
    BY <2>1 DEF Transform, Goto
  <2>4. ASSUME NEW d \in Callers, pc'[d] # "idle"
        PROVE  \E r \in Rows(table) : \E s \in SUBSET Toastable(table, r) :
                 call'[d] = [row |-> r, toast |-> s, values |-> ValuesSent(table, r, s)]
    <3>1. CASE d = c
      BY <1>1, <2>2, <3>1
    <3>2. CASE d # c
      <4>1. call'[d] = call[d] /\ pc[d] # "idle"
        BY <1>1, <2>2, <2>3, <2>4, <3>2
      <4> QED BY <4>1 DEF CallsSent
    <3> QED BY <3>1, <3>2
  <2> QED BY <2>3, <2>4 DEF CallsSent
<1>3. CASE UNCHANGED vars
  BY <1>3, CallsSentOn DEF vars
<1>4. CASE Construct
  <2>1. table' = table /\ call' = call /\ (pc' = pc \/ pc' = [pc EXCEPT ![Constructor] = "lock"])
    BY <1>4 DEF Construct, Instantiate, InstantiateFails, Abandon, CheckExports, SchemaUploaded,
                SchemaRejected, Goto
  <2> QED BY <1>1, <2>1, CallsSentOn
<1>5. CASE CallSetSchema
  <2>1. table' = table /\ call' = call /\ \E l : pc' = [pc EXCEPT ![Constructor] = l]
    BY <1>5 DEF CallSetSchema, Leave, Goto
  <2> QED BY <1>1, <2>1, CallsSentOn
<1>6. ASSUME NEW c \in Parties, GuestCall(c)
      PROVE  CallsSent'
  <2>1. CASE Unlock(c)
    <3>1. table' = table
      BY <2>1 DEF Unlock
    <3>2. \/ call' = call /\ pc' = [pc EXCEPT ![c] = "returned"] /\ c = Constructor
          \/ call' = [call EXCEPT ![c] = Nil] /\ pc' = [pc EXCEPT ![c] = "idle"]
      BY <2>1 DEF Unlock, Goto
    <3> QED BY <1>1, <3>1, <3>2, CallsSentOn
  <2>2. CASE ~Unlock(c)
    <3>1. table' = table /\ call' = call /\ pc[c] # "idle" /\ \E l : pc' = [pc EXCEPT ![c] = l]
      BY <1>6, <2>2 DEF GuestCall, Lock, AllocTo, AllocFails, Write, WriteFails, CallTransform,
                        CallTraps, Read, ReadError, Free, FreeFails, Leave, Goto
    <3> QED BY <1>1, <3>1, CallsSentOn
  <2> QED BY <2>1, <2>2
<1> QED BY <1>2, <1>3, <1>4, <1>5, <1>6 DEF Next

\* All that is mapped are texts, whatever was left out.
LEMMA ValuesAreTexts ==
  ASSUME NEW t \in Tables, NEW row \in Rows(t), NEW toast,
         NEW k \in DOMAIN SourceColumns(t.columns)
  PROVE  /\ ValuesSent(t, row, toast)[k] \in Seq(Token) \cup {Nil}
         /\ SourceFamilies(t)[k] = "json" /\ ValuesSent(t, row, toast)[k] # Nil =>
              normalizeJson(ValuesSent(t, row, toast)[k]) \in Seq(Token)
<1> DEFINE c == SourceColumns(t.columns)[k]
           value == ValuesSent(t, row, toast)[k]
<1>1. c \in ToSet(t.columns) /\ c.name \in ToSet(t.relation)
  BY SourceColumn
<1>2. value \in {Nil, row[c.name]} /\ row[c.name] \in Cells(c.type)
  BY ValueOfColumn
<1>3. row[c.name] # Nil => WrittenAs(c.type, row[c.name])
  BY <1>1, <1>2, CellOfColumn
<1>4. SourceFamilies(t)[k] = Family(c.type)
  BY ValuesLength
<1> HIDE DEF c, value
<1>5. /\ value \in Seq(Token) \cup {Nil}
      /\ SourceFamilies(t)[k] = "json" /\ value # Nil => normalizeJson(value) \in Seq(Token)
  BY <1>2, <1>3, <1>4 DEF WrittenAs
<1> QED BY <1>5 DEF value

\* And so is what a row is mapped to.
LEMMA MappedIsText ==
  ASSUME NEW t \in Tables, NEW row \in Rows(t), NEW toast
  PROVE  FlattenSeq([k \in DOMAIN ValuesSent(t, row, toast) |->
           transformSourceCell(ValuesSent(t, row, toast)[k], SourceFamilies(t)[k])]) \in Seq(Token)
<1> DEFINE values == ValuesSent(t, row, toast)
           f == SourceFamilies(t)
           n == Len(SourceColumns(t.columns))
           texts == [k \in DOMAIN values |-> transformSourceCell(values[k], f[k])]
<1>1. n \in Nat /\ DOMAIN values = 1..n /\ DOMAIN SourceColumns(t.columns) = 1..n
  BY ValuesLength
<1>2. \A k \in 1..n : /\ values[k] \in Seq(Token) \cup {Nil}
                      /\ f[k] = "json" /\ values[k] # Nil => normalizeJson(values[k]) \in Seq(Token)
  BY <1>1, ValuesAreTexts
<1> HIDE DEF values, n, f
<1>3. \A k \in 1..n : transformSourceCell(values[k], f[k]) \in Seq(Token)
  BY <1>2, MappedCellIsText
<1>4. texts \in [1..n -> Seq(Token)]
  BY <1>1, <1>3
<1> HIDE DEF texts
<1>5. FlattenSeq(texts) \in Seq(Token)
  BY <1>1, <1>4, FlattenIsText
<1> QED BY <1>5 DEF texts, values, f

\* The limits of the guest.
GuestTypes ==
  /\ ptr \in [Parties -> Regions \cup {Nobody}]
  /\ DOMAIN regions \subseteq Regions
  /\ families \in Seq(DOMAIN Types) /\ Len(families) <= MaxCols
  /\ output # Nil => Len(output) <= OutputSize

\* Every type of a column has a family.
LEMMA FamilyIsName ==
  ASSUME NEW type \in UNION {Types[f] : f \in DOMAIN Types}
  PROVE  Family(type) \in DOMAIN Types
<1>1. \E f \in DOMAIN Types : type \in Types[f]
  OBVIOUS
<1> QED BY <1>1 DEF Family

\* What the guest is told are families.
LEMMA SchemaHasTypes ==
  ASSUME NEW t \in Tables
  PROVE  SourceFamilies(t) \in Seq(DOMAIN Types)
<1> DEFINE source == SourceColumns(t.columns)
           n == Len(source)
<1>1. n \in Nat /\ DOMAIN source = 1..n
  BY ValuesLength
<1>2. \A k \in 1..n : Family(source[k].type) \in DOMAIN Types
  BY <1>1, SourceColumn, FamilyIsName, TablesAssumption
<1>3. SourceFamilies(t) = [k \in 1..n |-> Family(source[k].type)]
  BY <1>1, Zenon DEF SourceFamilies
<1> HIDE DEF source, n
<1>4. SourceFamilies(t) \in [1..n -> DOMAIN Types]
  BY <1>2, <1>3
<1> QED BY <1>1, <1>4

LEMMA NextKeepsGuestTypes ==
  ASSUME WasmInv, CallsSent, GuestTypes, [Next]_vars
  PROVE  GuestTypes'
<1>1. DOMAIN ptr = Parties /\ Constructor \in Parties /\ Callers \subseteq Parties /\ table \in Tables
  BY DEF WasmInv, Shape, Parties
<1>2. CASE UNCHANGED <<ptr, regions, families, output>>
  BY <1>2 DEF GuestTypes
<1>3. CASE CallSetSchema
  <2>1. /\ pc[Constructor] = "call"
        /\ regions[ptr[Constructor]].content
             = [source |-> SourceFamilies(table), target |-> TargetFamilies(table)]
    BY <1>1, <1>3 DEF CallSetSchema, WasmInv, RegionOf, Payload
  <2>2. families' = set_schema([source |-> SourceFamilies(table),
                                target |-> TargetFamilies(table)]).families
    BY <1>3, <2>1 DEF CallSetSchema
  <2>3. UNCHANGED <<ptr, regions, output>>
    BY <1>3 DEF CallSetSchema
  <2>4. SourceFamilies(table) \in Seq(DOMAIN Types)
    BY <1>1, SchemaHasTypes
  <2>5. families' = IF Len(SourceFamilies(table)) > MaxCols THEN <<>> ELSE SourceFamilies(table)
    BY <2>2 DEF set_schema
  <2>6. families' \in Seq(DOMAIN Types) /\ Len(families') <= MaxCols
    <3> DEFINE schema == SourceFamilies(table)
    <3>1. schema \in Seq(DOMAIN Types) /\ families' = IF Len(schema) > MaxCols THEN <<>> ELSE schema
      BY <2>4, <2>5
    <3> HIDE DEF schema
    <3>2. CASE Len(schema) > MaxCols
      <4>1. families' = <<>>
        BY <3>1, <3>2
      <4> QED BY <4>1, SizesAssumption
    <3>3. CASE ~(Len(schema) > MaxCols)
      <4>1. families' = schema /\ Len(schema) \in Nat
        BY <3>1, <3>3
      <4> QED BY <3>1, <3>3, <4>1, SizesAssumption
    <3> QED BY <3>2, <3>3
  <2> QED BY <2>3, <2>6 DEF GuestTypes
<1>4. ASSUME NEW c \in Parties, AllocTo(c)
      PROVE  GuestTypes'
  <2> DEFINE p == Min(Regions \ DOMAIN regions)
  <2>1. Regions \ DOMAIN regions # {} /\ Regions \ DOMAIN regions \subseteq Nat
    BY <1>4, SizesAssumption DEF AllocTo, GuestTypes
  <2>2. p \in Regions
    BY <2>1, MinExists
  <2>3. /\ DOMAIN regions' = DOMAIN regions \cup {p} /\ ptr' = [ptr EXCEPT ![c] = p]
        /\ UNCHANGED <<families, output>>
    BY <1>4 DEF AllocTo
  <2> HIDE DEF p
  <2> QED BY <2>2, <2>3 DEF GuestTypes
<1>5. ASSUME NEW c \in Parties, Write(c)
      PROVE  GuestTypes'
  <2>1. DOMAIN regions' = DOMAIN regions /\ UNCHANGED <<ptr, families, output>>
    BY <1>5 DEF Write
  <2> QED BY <2>1 DEF GuestTypes
<1>6. ASSUME NEW c \in Parties, Free(c) \/ FreeFails(c)
      PROVE  GuestTypes'
  <2>1. /\ DOMAIN regions' \subseteq DOMAIN regions /\ ptr' = [ptr EXCEPT ![c] = Nobody]
        /\ UNCHANGED <<families, output>>
    BY <1>6 DEF Free, FreeFails
  <2> QED BY <2>1 DEF GuestTypes
<1>7. ASSUME NEW c \in Callers, CallTransform(c)
      PROVE  GuestTypes'
  <2>1. pc[c] = "call" /\ pc[c] # "idle" /\ c # Constructor /\ families = SourceFamilies(table)
    <3>1. pc[c] = "call" /\ pc[c] # "idle" /\ c # Constructor
      BY <1>7, CallersAssumption DEF CallTransform
    <3> QED BY <1>1, <3>1, WhenInside, CallersAssumption DEF Holding
  <2>2. PICK row, toast : row \in Rows(table) /\ call[c].values = ValuesSent(table, row, toast)
    <3>1. PICK row, toast :
            /\ row \in Rows(table)
            /\ call[c] = [row |-> row, toast |-> toast, values |-> ValuesSent(table, row, toast)]
      BY <2>1 DEF CallsSent
    <3>2. call[c].values = ValuesSent(table, row, toast)
      BY <3>1
    <3> QED BY <3>1, <3>2
  <2> DEFINE values == call[c].values
             text == FlattenSeq([i \in DOMAIN values |-> transformSourceCell(values[i], families[i])])
  <2>3. regions[ptr[c]].content = values
    BY <1>1, <2>1 DEF WasmInv, RegionOf, Payload
  <2>4. text \in Seq(Token)
    BY <1>1, <2>1, <2>2, MappedIsText
  <2>5. output' = transformRow(values).output /\ UNCHANGED <<ptr, regions, families>>
    BY <1>7, <2>3 DEF CallTransform
  <2>6. \/ transformRow(values).output = output
        \/ Len(text) > OutputSize /\ transformRow(values).output = SubSeq(text, 1, OutputSize)
        \/ ~(Len(text) > OutputSize) /\ transformRow(values).output = text
    BY DEF transformRow
  <2> HIDE DEF text, values
  <2>7. CASE transformRow(values).output = output
    BY <2>5, <2>7 DEF GuestTypes
  <2>8. CASE Len(text) > OutputSize /\ transformRow(values).output = SubSeq(text, 1, OutputSize)
    <3>1. OutputSize \in 0..Len(text)
      BY <2>4, <2>8, SizesAssumption
    <3>2. Len(SubSeq(text, 1, OutputSize)) = OutputSize
      <4>1. 0 \in 0..OutputSize
        BY SizesAssumption
      <4> QED BY <2>4, <3>1, <4>1, PrefixOfPrefix
    <3>3. Len(output') <= OutputSize
      BY <2>5, <2>8, <3>2, SizesAssumption
    <3> QED BY <2>5, <3>3 DEF GuestTypes
  <2>9. CASE ~(Len(text) > OutputSize) /\ transformRow(values).output = text
    <3>1. Len(output') <= OutputSize
      BY <2>4, <2>5, <2>9, SizesAssumption
    <3> QED BY <2>5, <3>1 DEF GuestTypes
  <2> QED BY <2>6, <2>7, <2>8, <2>9
<1>8. Construct \/ (\E c \in Callers : Transform(c)) \/ UNCHANGED vars
        => UNCHANGED <<ptr, regions, families, output>>
  BY DEF Construct, Instantiate, InstantiateFails, Abandon, CheckExports, SchemaUploaded,
         SchemaRejected, Transform, guest, vars
<1>9. ASSUME NEW c \in Parties, GuestCall(c)
      PROVE  GuestTypes'
  <2>1. CASE Lock(c) \/ AllocFails(c) \/ WriteFails(c) \/ CallTraps(c) \/ Read(c) \/ ReadError(c)
             \/ Unlock(c)
    BY <1>2, <2>1 DEF Lock, AllocFails, WriteFails, CallTraps, Read, ReadError, Unlock, guest
  <2>2. CASE CallTransform(c)
    BY <1>7, <2>2 DEF CallTransform
  <2> QED BY <1>4, <1>5, <1>6, <1>9, <2>1, <2>2 DEF GuestCall
<1> QED BY <1>2, <1>3, <1>8, <1>9 DEF Next

-----------------------------------------------------------------------------
(***************************************************************************)
(* Theorems.                                                               *)
(***************************************************************************)
\* The inductive invariant holds whenever the mapper is observed.
THEOREM WasmInvariant == Spec => []WasmInv
<1>1. Init => WasmInv
  <2> SUFFICES ASSUME Init PROVE WasmInv
    OBVIOUS
  <2>1. /\ \A c \in Parties : pc[c] = "idle" /\ ptr[c] = Nobody
        /\ Constructor \in Parties /\ Callers \subseteq Parties /\ Nobody \notin Parties
    BY CallersAssumption DEF Init, Parties
  <2>2. Shape
    BY DEF Init, Shape, Label
  <2>3. MutexInv /\ NoRegion /\ SchemaInv
    BY <2>1 DEF Init, MutexInv, NoRegion, SchemaInv, Holding
  <2>4. (\A c \in Parties : RegionOf(c)) /\ (\A c \in Callers : CallOf(c))
    BY <2>1 DEF RegionOf, CallOf, HasRegion
  <2> QED BY <2>2, <2>3, <2>4 DEF WasmInv
<1>2. WasmInv /\ [Next]_vars => WasmInv'
  <2> SUFFICES ASSUME WasmInv, [Next]_vars PROVE WasmInv'
    OBVIOUS
  <2>1. CASE Construct
    BY <2>1, ConstructKeeps, CallersAssumption
  <2>2. CASE CallSetSchema
    BY <2>2, CallSetSchemaKeeps, CallersAssumption
  <2>3. CASE \E c \in Callers : Transform(c)
    BY <2>3, TransformKeeps, CallersAssumption
  <2>4. CASE \E c \in Parties : GuestCall(c)
    BY <2>4, GuestCallKeeps, CallersAssumption
  <2>5. CASE UNCHANGED vars
    <3>1. UNCHANGED <<table, runtime, pc, call, ptr, result, mu, regions, leaked, families, output, err>>
      BY <2>5 DEF vars
    <3>2. Shape' /\ MutexInv' /\ NoRegion'
      BY <3>1 DEF WasmInv, Shape, MutexInv, NoRegion
    <3>3. SchemaInv' /\ \A c \in Parties : RegionOf(c)'
      BY <3>1, SameCall DEF WasmInv, SchemaInv, RegionOf
    <3>4. \A c \in Callers : CallOf(c)'
      BY <3>1, SameCall DEF WasmInv, CallOf
    <3> QED BY <3>2, <3>3, <3>4 DEF WasmInv
  <2> QED BY <2>1, <2>2, <2>3, <2>4, <2>5 DEF Next
<1> QED BY <1>1, <1>2, PTL DEF Spec

\* Of any number of concurrent calls each returns the text of its own row, or
\* an error that is not a disagreement on the columns: the guest's one output
\* is copied before the mutex is given up.
THEOREM OwnTextAlways == Spec => []OwnText
<1>1. WasmInv => OwnText
  BY DEF WasmInv, CallOf, OwnText
<1> QED BY <1>1, WasmInvariant, PTL

\* A guest that nobody is calling has, of all the regions its host asked for, just
\* those it trapped on when they were given back: whichever way out a call takes,
\* the host gives its region back.
THEOREM GuestIsLeftEmpty == Spec => []LeavesNothing
<1>1. WasmInv => LeavesNothing
  <2> SUFFICES ASSUME WasmInv, mu = Nobody
               PROVE  DOMAIN regions = leaked /\ \A c \in Parties : ptr[c] = Nobody
    BY DEF LeavesNothing
  <2>1. \A c \in Parties : pc[c] \notin HasRegion
    BY CallersAssumption DEF WasmInv, MutexInv, Parties, Holding, HasRegion
  <2> QED BY <2>1 DEF WasmInv, NoRegion, RegionOf
<1> QED BY <1>1, WasmInvariant, PTL

LEMMA MapsRowsOfTables == Spec => [](WasmInv /\ CallsSent /\ GuestTypes)
<1>1. Init => CallsSent /\ GuestTypes
  <2> SUFFICES ASSUME Init PROVE CallsSent /\ GuestTypes
    OBVIOUS
  <2>1. CallsSent
    BY DEF Init, CallsSent, Parties
  <2>2. GuestTypes
    BY SizesAssumption DEF Init, GuestTypes
  <2> QED BY <2>1, <2>2
<1>2. WasmInv /\ CallsSent /\ GuestTypes /\ [Next]_vars => CallsSent' /\ GuestTypes'
  BY NextKeepsCallsSent, NextKeepsGuestTypes
<1> QED BY <1>1, <1>2, WasmInvariant, PTL DEF Spec

\* The types, with the limits of the guest: its regions, its columns, its output.
THEOREM WasmTypeCorrect == Spec => []TypeOK
<1>1. WasmInv /\ GuestTypes => TypeOK
  BY DEF WasmInv, Shape, Label, GuestTypes, TypeOK
<1> QED BY <1>1, MapsRowsOfTables, PTL

\* A whole change is all of a row.
LEMMA SentIsWhole ==
  ASSUME WasmInv, CallsSent, NEW c \in Callers, SentWhole(c)
  PROVE  /\ table \in Tables /\ call[c].row \in Rows(table)
         /\ call[c].values = ValuesSent(table, call[c].row, {})
<1>1. PICK row, toast :
        /\ row \in Rows(table)
        /\ call[c] = [row |-> row, toast |-> toast, values |-> ValuesSent(table, row, toast)]
  BY DEF SentWhole, CallsSent
<1>2. call[c].row = row /\ toast = {} /\ call[c].values = ValuesSent(table, row, toast)
  BY <1>1 DEF SentWhole
<1>3. ValuesSent(table, row, toast) = ValuesSent(table, call[c].row, {})
  BY <1>2
<1>4. table \in Tables
  BY DEF WasmInv, Shape
<1> QED BY <1>1, <1>2, <1>3, <1>4

\* In a table none of whose source types has a cast of its own, whatever the order
\* of the relation: a change that was sent whole has, value by value, the text a
\* scan of the source has, so the signature the consumer computes is the one the
\* scan reads.
THEOREM ChangeAgreesWithScan == Spec => []ChangeTextIsScanText
<1>1. WasmInv /\ CallsSent => ChangeTextIsScanText
  BY SentIsWhole, WholeChangeHasItsText DEF ChangeTextIsScanText, SentAsScanned, Uncast
<1> QED BY <1>1, MapsRowsOfTables, PTL

\* The common text of such a change is what a scan of the target hashes once Sling
\* has brought the row over; and that of a change whose values are all canonical is
\* what it hashes once PeerDB has.
THEOREM CommonTextAgreesWithTarget == Spec => []CommonTextIsTargetText
<1>1. WasmInv /\ CallsSent => CommonTextIsTargetText
  <2> SUFFICES ASSUME WasmInv, CallsSent, NEW c \in Callers, SentWhole(c), Aligned(table.columns)
               PROVE  /\ SentAsScanned =>
                          canonicalize(call[c].values)
                          = ScannedTargetText("generic", table.columns, call[c].row)
                      /\ (\A i \in DOMAIN call[c].values :
                            Canonical(SourceColumns(table.columns)[i].type, call[c].values[i])) =>
                           Mapped(c) = ScannedTargetText("peer_db", table.columns, call[c].row)
    BY DEF CommonTextIsTargetText
  <2>1. /\ table \in Tables /\ call[c].row \in Rows(table)
        /\ call[c].values = ValuesSent(table, call[c].row, {})
    BY SentIsWhole
  <2>2. ASSUME SentAsScanned
        PROVE  canonicalize(call[c].values) = ScannedTargetText("generic", table.columns, call[c].row)
    <3>1. Uncast(table)
      BY <2>2 DEF SentAsScanned, Uncast
    <3> QED BY <2>1, <3>1, CanonicalRowIsTargetText
  <2>3. ASSUME \A i \in DOMAIN call[c].values :
                 Canonical(SourceColumns(table.columns)[i].type, call[c].values[i])
        PROVE  Mapped(c) = ScannedTargetText("peer_db", table.columns, call[c].row)
    <3>1. DOMAIN call[c].values = DOMAIN SourceColumns(table.columns)
      BY <2>1, ValuesLength
    <3>2. Mapped(c) = FlattenSeq([k \in DOMAIN ValuesSent(table, call[c].row, {}) |->
                        transformSourceCell(ValuesSent(table, call[c].row, {})[k], SourceFamilies(table)[k])])
      BY <2>1, Zenon DEF Mapped
    <3> QED BY <2>1, <2>3, <3>1, <3>2, MappedRowIsTargetText
  <2> QED BY <2>2, <2>3
<1> QED BY <1>1, MapsRowsOfTables, PTL

\* No change of one column is hidden: though nothing separates the columns of a
\* text, it is never that of a row which differs from it in one column.
THEOREM ChangesShow == Spec => []EveryChangeShows
<1>1. WasmInv /\ CallsSent => EveryChangeShows
  <2> DEFINE Name(i) == SourceColumns(table.columns)[i].name
             Differing(c, other) == {i \in DOMAIN SourceColumns(table.columns) :
                                       other[Name(i)] # call[c].row[Name(i)]}
  <2> SUFFICES ASSUME WasmInv, CallsSent, NEW c \in Callers, SentWhole(c), SentAsScanned, NEW other \in Rows(table),
                      Cardinality(Differing(c, other)) = 1
               PROVE  FormatSource(call[c].values) # ScannedText(SourceColumns(table.columns), other)
    BY Zenon DEF EveryChangeShows
  <2>1. /\ table \in Tables /\ call[c].row \in Rows(table)
        /\ call[c].values = ValuesSent(table, call[c].row, {})
    BY SentIsWhole
  <2>6. Uncast(table)
    BY DEF SentAsScanned, Uncast
  <2>2. IsFiniteSet(Differing(c, other))
    <3>1. DOMAIN SourceColumns(table.columns) = 1..Len(SourceColumns(table.columns))
          /\ Len(SourceColumns(table.columns)) \in Nat
      BY <2>1, ValuesLength
    <3>2. IsFiniteSet(1..Len(SourceColumns(table.columns)))
      BY <3>1, FS_Interval
    <3> QED BY <3>1, <3>2, FS_Subset
  <2>3. PICK k : Differing(c, other) = {k}
    BY <2>2, FS_Singleton
  <2>4. k \in DOMAIN SourceColumns(table.columns)
        /\ \A i \in DOMAIN SourceColumns(table.columns) : other[Name(i)] # call[c].row[Name(i)] <=> i = k
    BY <2>3
  <2>5. ScannedText(SourceColumns(table.columns), call[c].row)
        # ScannedText(SourceColumns(table.columns), other)
    BY <2>1, <2>4, <2>6, OtherRowHasOtherText
  <2> QED BY <2>1, <2>5, <2>6, WholeChangeHasItsText
<1> QED BY <1>1, MapsRowsOfTables, PTL
=============================================================================

----------------------------- MODULE CborFields -----------------------------
(***************************************************************************)
(* The fields of a CBOR form: what they hold, what that means, and how a   *)
(* payload is spread over them (utils/cbor/value.ts).  The operators are   *)
(* those of the code, over payloads whose texts and bytes are told apart   *)
(* by their length only; fractions, bignums and patterns are left out.     *)
(***************************************************************************)
EXTENDS Integers, Sequences, FiniteSets

\* A data item: its type, its number or length, and what it contains: the items of an
\* array, the pairs of a map, the content of a tag.
Js(t, n, s) == [t |-> t, n |-> n, s |-> s]
Num(n) == Js("num", n, <<>>)
Text(n) == Js("text", n, <<>>)
Bytes(n) == Js("bytes", n, <<>>)
Bool(n) == Js("bool", n, <<>>)
Nil == Js("nil", 0, <<>>)
Arr(s) == Js("arr", 0, s)
Pair(k, v) == Js("pair", 0, <<k, v>>)
Map(s) == Js("map", 0, s)
Tagged(n, v) == Js("tag", n, <<v>>)
\* What a field holds before anything is typed, and text that means nothing.
Blank == Js("blank", 0, <<>>)
Junk == Js("junk", 0, <<>>)
NoMax == 99
NoMin == -99

\* A field; an entry of a map or an array; a row, which fills an entry.
Field(k) == [k |-> k, lo |-> NoMin, hi |-> NoMax, val |-> Blank, tags |-> <<>>, opts |-> <<>>, entries |-> <<>>]
Entry(key, kv, kf, f, lo, hi) == [key |-> key, kv |-> kv, kf |-> kf, f |-> f, lo |-> lo, hi |-> hi]
RowAt(i, key, v) == [entry |-> i, key |-> key, v |-> v]
Held(k, n, typed, rows) == [k |-> k, n |-> n, typed |-> typed, rows |-> rows]
NoValue == Held("none", 0, Blank, <<>>)
Scalar(typed) == Held("scalar", 0, typed, <<>>)

\* Pairs of a map have no order.
RECURSIVE Same(_, _)
Same(a, b) ==
  /\ a.t = b.t /\ a.n = b.n /\ Len(a.s) = Len(b.s)
  /\ IF a.t = "map"
     THEN \E p \in [DOMAIN a.s -> DOMAIN b.s] :
            /\ \A i, j \in DOMAIN a.s : p[i] = p[j] => i = j
            /\ \A i \in DOMAIN a.s : Same(a.s[i], b.s[p[i]])
     ELSE \A i \in DOMAIN a.s : Same(a.s[i], b.s[i])

\* The first index a test holds at, else 1: what findIndex is used for.
FirstOf(S) == IF S = {} THEN 0 ELSE CHOOSE i \in S : \A j \in S : i <= j
FirstIndex(s, Test(_)) == FirstOf(IF \E i \in DOMAIN s : Test(s[i]) THEN {i \in DOMAIN s : Test(s[i])} ELSE {1})
Count(rows, i) == Cardinality({r \in DOMAIN rows : rows[r].entry = i})

-----------------------------------------------------------------------------
(* The value a field starts from. *)

RECURSIVE EmptyValue(_)
RowOf(e, i) == RowAt(i, IF e.key = "open" THEN EmptyValue(e.kf) ELSE NoValue, EmptyValue(e.f))

\* The rows of every entry, as often as it is required.
RequiredRows(entries) ==
  LET rows[i \in 0..Len(entries)] ==
        IF i = 0 THEN <<>> ELSE rows[i - 1] \o [n \in 1..entries[i].lo |-> RowOf(entries[i], i)]
  IN  rows[Len(entries)]

EmptyValue(f) ==
  CASE f.k = "bool" -> Held("bool", IF f.val = Bool(1) THEN 1 ELSE 0, Blank, <<>>)
    [] f.k = "const" -> Held("const", 0, Blank, <<>>)
    [] f.k = "enum" -> Held("enum", FirstIndex(f.opts, LAMBDA o : o.val = f.val), Blank, <<>>)
    [] f.k \in {"map", "array"} -> Held("rows", 0, Blank, RequiredRows(f.entries))
    [] f.k = "choice" -> Held("choice", 1, Blank, <<RowAt(1, NoValue, EmptyValue(f.opts[1]))>>)
    [] OTHER -> Scalar(f.val)

-----------------------------------------------------------------------------
(* What the fields mean: [v, errs], errs among "missing" and "invalid". *)

Fine(v) == [v |-> v, errs |-> {}]
Fail == [v |-> Blank, errs |-> {"invalid"}]
Unfilled == [v |-> Blank, errs |-> {"missing"}]
Typed(v) == IF v.k = "scalar" THEN v.typed ELSE Blank

\* What was typed into another field reads as a text as well.
ReadText(f, v) ==
  LET x == IF Typed(v) = Blank THEN Text(0) ELSE IF Typed(v).t = "text" THEN Typed(v) ELSE Text(1)
  IN  IF x.n > f.hi THEN Fail
      ELSE IF x.n < f.lo THEN (IF x.n = 0 THEN Unfilled ELSE Fail) ELSE Fine(x)
ReadNumber(f, v) ==
  LET x == Typed(v)
  IN  IF x = Blank THEN Unfilled
      ELSE IF x.t # "num" \/ x.n < f.lo \/ x.n > f.hi THEN Fail ELSE Fine(x)
ReadBytes(f, v) ==
  LET x == IF Typed(v) = Blank THEN Bytes(0) ELSE Typed(v)
  IN  IF x.t # "bytes" \/ x.n > f.hi THEN Fail
      ELSE IF x.n < f.lo THEN (IF x.n = 0 THEN Unfilled ELSE Fail) ELSE Fine(x)
ReadAny(f, v) == IF Typed(v) = Blank THEN Unfilled ELSE IF Typed(v) = Junk THEN Fail ELSE Fine(Typed(v))

CheckOccurrences(entries, rows) ==
  {"missing" : i \in {i \in DOMAIN entries : Count(rows, i) < entries[i].lo}}
    \cup {"invalid" : i \in {i \in DOMAIN entries : Count(rows, i) > entries[i].hi}}

RECURSIVE ReadValue(_, _)
ReadOf(k, x) == [k |-> k.v, v |-> x.v, errs |-> k.errs \cup x.errs]
ReadRow(e, row) ==
  ReadOf(IF e.key # "open" THEN Fine(e.kv) ELSE ReadValue(e.kf, IF row.key = NoValue THEN EmptyValue(e.kf) ELSE row.key),
         ReadValue(e.f, row.v))
ReadAll(f, rows) == [i \in DOMAIN rows |-> ReadRow(f.entries[rows[i].entry], rows[i])]
\* Rows of an entry the field does not have are passed over.
ReadRows(f, v) == ReadAll(f, SelectSeq(v.rows, LAMBDA r : r.entry \in DOMAIN f.entries))

WithTags(f, v) == LET wrap[i \in 1..(Len(f.tags) + 1)] ==
                        IF i > Len(f.tags) THEN v ELSE Tagged(f.tags[i], wrap[i + 1])
                  IN  wrap[1]

Container(f, v, read) ==
  [v |-> IF f.k = "map" THEN Map([i \in DOMAIN read |-> Pair(read[i].k, read[i].v)])
         ELSE Arr([i \in DOMAIN read |-> read[i].v]),
   errs |-> UNION {read[i].errs : i \in DOMAIN read} \cup CheckOccurrences(f.entries, v.rows)]
ReadPlain(f, v) ==
  CASE f.k = "const" -> Fine(f.val)
    [] f.k = "bool" -> Fine(Bool(IF v.k = "bool" THEN v.n ELSE 0))
    [] f.k = "enum" -> IF v.k = "enum" /\ v.n \in DOMAIN f.opts THEN Fine(f.opts[v.n].val) ELSE Unfilled
    [] f.k = "choice" -> IF v.k = "choice" /\ v.n \in DOMAIN f.opts
                         THEN ReadValue(f.opts[v.n], v.rows[1].v) ELSE Unfilled
    [] f.k \in {"map", "array"} /\ v.k # "rows" -> Fail
    [] f.k \in {"map", "array"} /\ v.k = "rows" -> Container(f, v, ReadRows(f, v))
    [] f.k = "text" -> ReadText(f, v)
    [] f.k = "number" -> ReadNumber(f, v)
    [] f.k = "bytes" -> ReadBytes(f, v)
    [] OTHER -> ReadAny(f, v)
Wrapped(f, read) == [read EXCEPT !.v = WithTags(f, @)]
ReadValue(f, v) == Wrapped(f, ReadPlain(f, v))

\* toJsValue: nothing is read while a field is in error.
Complete(read) == IF read.errs = {} THEN read ELSE [read EXCEPT !.v = Blank]
ToJs(f, v) == Complete(ReadValue(f, v))

-----------------------------------------------------------------------------
(* A payload spread over the fields. *)

\* As many tags are taken off as the schema has, whatever their numbers are.
Untag(f, j) == LET off[i \in 0..Len(f.tags)] ==
                     IF i = 0 THEN j ELSE IF off[i - 1].t = "tag" THEN off[i - 1].s[1] ELSE off[i - 1]
               IN  off[Len(f.tags)]

RECURSIVE Fits(_, _)
FitsPlain(f, j, p) ==
  CASE f.k = "text" -> p.t = "text"
    [] f.k = "number" -> p.t = "num"
    [] f.k = "bool" -> p.t = "bool"
    [] f.k = "bytes" -> p.t = "bytes"
    [] f.k = "const" -> p = f.val
    [] f.k = "enum" -> \E i \in DOMAIN f.opts : f.opts[i].val = p
    [] f.k = "array" -> p.t = "arr"
    [] f.k = "map" -> p.t = "map"
    [] f.k = "choice" -> \E i \in DOMAIN f.opts : Fits(f.opts[i], j)
    [] OTHER -> TRUE
Fits(f, j) == FitsPlain(f, j, Untag(f, j))

Minimum(entries, from) ==
  LET sum[i \in from..(Len(entries) + 1)] == IF i > Len(entries) THEN 0 ELSE entries[i].lo + sum[i + 1]
  IN  sum[from]

\* Whether the i-th entry, which has n items, takes the next of those left.
Takes(entries, i, n, item, left) ==
  /\ n < entries[i].lo \/ left > Minimum(entries, i + 1)
  /\ n < entries[i].hi /\ (n < entries[i].lo \/ Fits(entries[i].f, item))

RECURSIVE FromJs(_, _)
RECURSIVE ArrayRows(_, _, _, _)
ArrayRows(entries, i, n, items) ==
  IF items = <<>> \/ i > Len(entries) THEN <<>>
  ELSE IF Takes(entries, i, n, items[1], Len(items))
       THEN <<RowAt(i, NoValue, FromJs(entries[i].f, items[1]))>> \o ArrayRows(entries, i, n + 1, Tail(items))
       ELSE ArrayRows(entries, i + 1, 0, items)

\* The pairs of the keys the schema names, entry by entry; what it does not name belongs to
\* the first entry it leaves open, and has no place if there is none.
Place(entries, p) ==
  LET named == {i \in DOMAIN entries : entries[i].key = "fixed" /\ entries[i].kv = p.s[1]}
  IN  FirstOf(IF named # {} THEN named ELSE {i \in DOMAIN entries : entries[i].key = "open"})
RowsOf(e, i, pairs) ==
  [n \in DOMAIN pairs |-> RowAt(i, IF e.key = "open" THEN FromJs(e.kf, pairs[n].s[1]) ELSE NoValue, FromJs(e.f, pairs[n].s[2]))]
MapRows(entries, pairs) ==
  LET rows[i \in 0..Len(entries)] ==
        IF i = 0 THEN <<>>
        ELSE rows[i - 1] \o RowsOf(entries[i], i, SelectSeq(pairs, LAMBDA p : Place(entries, p) = i))
  IN  rows[Len(entries)]

FromChoice(f, j, i) == Held("choice", i, Blank, <<RowAt(i, NoValue, FromJs(f.opts[i], j))>>)
FromPlain(f, j, p) ==
  CASE f.k = "bool" -> Held("bool", IF p = Bool(1) THEN 1 ELSE 0, Blank, <<>>)
    [] f.k = "const" -> Held("const", 0, Blank, <<>>)
    [] f.k = "enum" -> Held("enum", FirstIndex(f.opts, LAMBDA o : o.val = p), Blank, <<>>)
    [] f.k = "choice" -> FromChoice(f, j, FirstIndex(f.opts, LAMBDA o : Fits(o, j)))
    [] f.k = "map" -> Held("rows", 0, Blank, MapRows(f.entries, IF p.t = "map" THEN p.s ELSE <<>>))
    [] f.k = "array" -> Held("rows", 0, Blank, ArrayRows(f.entries, 1, 0, IF p.t = "arr" THEN p.s ELSE <<>>))
    [] f.k \in {"bytes", "text", "number"} ->
         Scalar(IF p.t = (CASE f.k = "bytes" -> "bytes" [] f.k = "text" -> "text" [] OTHER -> "num") THEN p ELSE Blank)
    [] OTHER -> Scalar(j)
FromJs(f, j) == FromPlain(f, j, Untag(f, j))

\* fromNotation: text that does not parse is an error, and the fields are empty.
FromNotation(f, text) ==
  IF text = Blank \/ text = Junk THEN [v |-> EmptyValue(f), error |-> text = Junk]
  ELSE [v |-> FromJs(f, text), error |-> FALSE]

-----------------------------------------------------------------------------
(* FieldView: what one act of the user makes of a value. *)

\* Rows keep the order of the schema.
Inserted(rows, row) == SelectSeq(rows, LAMBDA r : r.entry <= row.entry) \o <<row>>
                         \o SelectSeq(rows, LAMBDA r : r.entry > row.entry)
Removed(rows, i) == [n \in 1..(Len(rows) - 1) |-> rows[IF n < i THEN n ELSE n + 1]]

RECURSIVE Edits(_, _, _)
EditRow(e, row, inputs) ==
  {[row EXCEPT !.v = x] : x \in Edits(e.f, row.v, inputs)}
    \cup (IF e.key # "open" THEN {} ELSE {[row EXCEPT !.key = x] : x \in Edits(e.kf, row.key, inputs)})
EditRows(f, rows, inputs) ==
  {Inserted(rows, RowOf(f.entries[i], i)) : i \in {i \in DOMAIN f.entries : Count(rows, i) < f.entries[i].hi}}
    \cup UNION {(IF Count(rows, rows[r].entry) > f.entries[rows[r].entry].lo THEN {Removed(rows, r)} ELSE {})
                  \cup {[rows EXCEPT ![r] = x] : x \in EditRow(f.entries[rows[r].entry], rows[r], inputs)}
                : r \in {r \in DOMAIN rows : rows[r].entry \in DOMAIN f.entries}}
TypedInto(k, inputs) ==
  {x \in inputs : CASE x.t = "blank" -> TRUE
                    [] x.t = "junk" -> k # "text"
                    [] OTHER -> k = "any" \/ x.t = (CASE k = "text" -> "text" [] k = "number" -> "num" [] OTHER -> "bytes")}
Edits(f, v, inputs) ==
  CASE f.k = "bool" -> {Held("bool", n, Blank, <<>>) : n \in 0..1}
    [] f.k = "const" -> {}
    [] f.k = "enum" -> {Held("enum", i, Blank, <<>>) : i \in DOMAIN f.opts}
    [] f.k = "choice" ->
         {Held("choice", i, Blank, <<RowAt(i, NoValue, EmptyValue(f.opts[i]))>>) : i \in DOMAIN f.opts}
           \cup (IF v.k # "choice" \/ v.n \notin DOMAIN f.opts THEN {}
                 ELSE {[v EXCEPT !.rows[1].v = x] : x \in Edits(f.opts[v.n], v.rows[1].v, inputs)})
    [] f.k \in {"map", "array"} ->
         {Held("rows", 0, Blank, rows) : rows \in EditRows(f, IF v.k = "rows" THEN v.rows ELSE <<>>, inputs)}
    [] OTHER -> {Scalar(x) : x \in TypedInto(f.k, inputs)}
=============================================================================

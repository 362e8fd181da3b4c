------------------------------ MODULE CborShape ------------------------------
(***************************************************************************)
(* The fields a form has for a rule of a CDDL schema (utils/cbor/shape.ts),*)
(* and what the rule itself accepts, read from the schema the way RFC 8610 *)
(* has it.  A schema is its parse: the parser is a library.  Labels,       *)
(* comments, patterns and fractions are left out, and of the simple values *)
(* all but false, true and nil.                                            *)
(***************************************************************************)
EXTENDS CborFields, SequencesExt

\* A type: an alternative with the range or the control applied to it.
Type(k) == [k |-> k, val |-> Blank, name |-> "", tag |-> 0, ai |-> 0, args |-> <<>>, alts |-> <<>>,
            choices |-> <<>>, op |-> "", ctl |-> <<>>]
Value(v) == [Type("value") EXCEPT !.val = v]
Ref(name) == [Type("ref") EXCEPT !.name = name]
Major(n, ai) == [Type("major") EXCEPT !.tag = n, !.ai = ai]
Holding(k, choices) == [Type(k) EXCEPT !.choices = choices]
Control(t, op, ctl) == [t EXCEPT !.op = op, !.ctl = <<ctl>>]

\* A member of a group: key is "none", "fixed" or "type"; or a group in its place.
Member(key, kv, kt, alts) ==
  [k |-> "entry", key |-> key, kv |-> kv, kt |-> kt, alts |-> alts, choices |-> <<>>, lo |-> 1, hi |-> 1]
Item(t) == Member("none", Blank, Type("any"), <<t>>)
Named(kv, t) == Member("fixed", kv, Type("any"), <<t>>)
Inline(choices) == [Item(Type("any")) EXCEPT !.k = "group", !.choices = choices]
Times(e, lo, hi) == [e EXCEPT !.lo = lo, !.hi = hi]

\* A rule is its definitions, of which `/=' adds more.
Def(alts) == [group |-> FALSE, params |-> <<>>, alts |-> alts, choices |-> <<>>]
GroupDef(choices) == [group |-> TRUE, params |-> <<>>, alts |-> <<>>, choices |-> choices]

\* The names every schema has.
Prelude == [any |-> Def(<<Type("any")>>),
            uint |-> Def(<<Major(0, -1)>>), nint |-> Def(<<Major(1, -1)>>),
            bstr |-> Def(<<Major(2, -1)>>), tstr |-> Def(<<Major(3, -1)>>), text |-> Def(<<Ref("tstr")>>),
            false |-> Def(<<Major(7, 20)>>), true |-> Def(<<Major(7, 21)>>), nil |-> Def(<<Major(7, 22)>>),
            bool |-> Def(<<Ref("false"), Ref("true")>>), int |-> Def(<<Ref("uint"), Ref("nint")>>)]
\* Those the form has one input for, where the schema does not define them again.
Shorthand == [bool |-> Field("bool"), int |-> Field("number")]

MaxDepth == 12
Unbound == [name \in {} |-> 0]
AnyField == Field("any")
ConstField(v) == [Field("const") EXCEPT !.val = v]
SimpleOf(t) == CASE t.tag # 7 -> Blank
                 [] t.ai \in {20, 21} -> Bool(t.ai - 20)
                 [] t.ai = 22 -> Nil
                 [] OTHER -> Blank

DefinitionsOf(R, name) ==
  IF name \in DOMAIN R THEN R[name] ELSE IF name \in DOMAIN Prelude THEN <<Prelude[name]>> ELSE <<>>

Pinned(t) == IF t.k = "value" THEN t.val ELSE IF t.k = "major" THEN SimpleOf(t) ELSE Blank
FirstPinned(defs) == IF defs = <<>> \/ defs[1].group THEN Blank ELSE Pinned(defs[1].alts[1])
LiteralOf(R, t) == IF t.k = "ref" THEN FirstPinned(DefinitionsOf(R, t.name)) ELSE Pinned(t)

\* The members of the group a name stands for, or of the map or the array it is.
GroupOf(d) == IF d.group THEN d.choices
              ELSE IF d.alts[1].k \in {"map", "array"} THEN d.alts[1].choices ELSE <<>>

AsChoice(options) ==
  IF Len(options) = 0 THEN AnyField
  ELSE IF Len(options) = 1 THEN options[1]
  ELSE IF \A i \in DOMAIN options : options[i].k = "const"
       THEN [Field("enum") EXCEPT !.opts = [i \in DOMAIN options |-> ConstField(options[i].val)]]
       ELSE [Field("choice") EXCEPT !.opts = options]

\* A range is of numbers, or does nothing.
WithRange(f, op, from, to) ==
  IF from.t # "num" \/ to.t # "num" THEN f
  ELSE [Field("number") EXCEPT !.tags = f.tags, !.lo = from.n, !.hi = IF op = "range" THEN to.n ELSE to.n - 1]

\* The lengths of `.size n' or `.size (a..b)'.
Between(op, from, to) == <<from.n, IF op = "range" THEN to.n ELSE to.n - 1>>
LengthsOf(R, c, v) ==
  IF v.t = "num" THEN <<v.n, v.n>>
  ELSE IF c.k # "paren" \/ c.alts[1].op \notin {"range", "xrange"} THEN <<>>
  ELSE Between(c.alts[1].op, LiteralOf(R, c.alts[1]), LiteralOf(R, c.alts[1].ctl[1]))
WithSize(f, length) ==
  CASE length # <<>> /\ f.k \in {"text", "bytes"} -> [f EXCEPT !.lo = length[1], !.hi = length[2]]
    [] length # <<>> /\ f.k = "number" -> [f EXCEPT !.lo = IF @ = NoMin THEN 0 ELSE @, !.hi = 256^length[2] - 1]
    [] OTHER -> f

\* Mutant: a bound that is left out is let in.
WithBound_Closed(f, op, n) ==
  CASE op \in {"lt", "le"} -> [f EXCEPT !.hi = n]
    [] op \in {"gt", "ge"} -> [f EXCEPT !.lo = n]

WithBound(f, op, n) ==
  CASE op = "lt" -> [f EXCEPT !.hi = n - 1]
    [] op = "le" -> [f EXCEPT !.hi = n]
    [] op = "gt" -> [f EXCEPT !.lo = n + 1]
    [] op = "ge" -> [f EXCEPT !.lo = n]

\* The lengths, the bounds, the value or the default a control asks for.
WithControl(R, f, op, c, v) ==
  CASE op = "size" -> WithSize(f, LengthsOf(R, c, v))
    [] op \in {"lt", "le", "gt", "ge"} -> IF f.k = "number" /\ v.t = "num" THEN WithBound(f, op, v.n) ELSE f
    [] op = "eq" -> [ConstField(v) EXCEPT !.tags = f.tags]
    [] op = "default" -> [f EXCEPT !.val = v]
    [] OTHER -> f

FromMajor(t) ==
  CASE t.tag = 0 -> [Field("number") EXCEPT !.lo = 0]
    [] t.tag = 1 -> [Field("number") EXCEPT !.hi = -1]
    [] t.tag = 2 -> Field("bytes")
    [] t.tag = 3 -> Field("text")
    [] t.tag = 4 -> [Field("array") EXCEPT !.entries = <<Entry("none", Blank, AnyField, AnyField, 0, NoMax)>>]
    [] t.tag = 5 -> [Field("map") EXCEPT !.entries = <<Entry("open", Blank, AnyField, AnyField, 0, NoMax)>>]
    [] t.tag = 7 /\ SimpleOf(t) # Blank -> ConstField(SimpleOf(t))
    [] OTHER -> AnyField

-----------------------------------------------------------------------------
(* The walk.  st holds the rules being resolved, sc what the parameters of a generic *)
(* rule are bound to, d the depth.                                                   *)

\* Parameters are read where the rule was called.
Bind(defn, args, sc) ==
  IF defn.params = <<>> \/ args = <<>> THEN Unbound
  ELSE LET given == {i \in DOMAIN defn.params : i <= Len(args)}
       IN  [p \in {defn.params[i] : i \in given} |->
              LET i == CHOOSE i \in given : defn.params[i] = p IN [node |-> args[i], scope |-> sc]]

RECURSIVE FromType1(_, _, _, _, _)
RECURSIVE EntriesOf(_, _, _, _, _, _)
FromType(R, st, sc, d, alts) == AsChoice([i \in DOMAIN alts |-> FromType1(R, st, sc, d, alts[i])])

FromDefinitions(R, st, sc, d, defs) ==
  AsChoice(FlattenSeq([i \in DOMAIN defs |->
    IF defs[i].group THEN <<AnyField>>
    ELSE [j \in DOMAIN defs[i].alts |-> FromType1(R, st, sc, d, defs[i].alts[j])]]))

FromRule(R, st, sc, d, t, defs) ==
  IF defs = <<>> \/ t.name \in st THEN AnyField
  ELSE FromDefinitions(R, st \cup {t.name}, Bind(defs[1], t.args, sc), d + 1, defs)
FromRef(R, st, sc, d, t) ==
  CASE t.name \in DOMAIN sc -> FromType1(R, st, sc[t.name].scope, d, sc[t.name].node)
    [] t.name \notin DOMAIN sc /\ t.name \in DOMAIN Shorthand \ DOMAIN R -> Shorthand[t.name]
    [] OTHER -> FromRule(R, st, sc, d, t, DefinitionsOf(R, t.name))

FromContainer(R, st, sc, d, t) ==
  LET of(choice) == [Field(t.k) EXCEPT !.entries = EntriesOf(R, st, sc, d, choice, t.k)]
  IN  IF Len(t.choices) <= 1 THEN of(IF t.choices = <<>> THEN <<>> ELSE t.choices[1])
      ELSE [Field("choice") EXCEPT !.opts = [i \in DOMAIN t.choices |-> of(t.choices[i])]]

\* The values of a group as a set, when all it holds is values.
GroupNamed(R, name) == IF DefinitionsOf(R, name) = <<>> THEN <<>> ELSE GroupOf(DefinitionsOf(R, name)[1])
EnumOf(members) ==
  IF members = <<>> \/ \E i \in DOMAIN members : members[i].k # "entry" \/ members[i].alts[1].k # "value"
  THEN AnyField
  ELSE [Field("enum") EXCEPT !.opts = [i \in DOMAIN members |-> ConstField(members[i].alts[1].val)]]
EnumMembers(R, t) == FlattenSeq(IF t.name = "" THEN t.choices ELSE GroupNamed(R, t.name))

Unwrapped(f) == IF f.k \in {"map", "array"} THEN f ELSE AnyField
WithTag(f, tag) == [f EXCEPT !.tags = <<tag>> \o @]
FromType2(R, st, sc, d, t) ==
  IF d > MaxDepth THEN AnyField
  ELSE CASE t.k = "value" -> ConstField(t.val)
         [] t.k = "ref" -> FromRef(R, st, sc, d, t)
         [] t.k = "paren" -> FromType(R, st, sc, d, t.alts)
         [] t.k \in {"map", "array"} -> FromContainer(R, st, sc, d, t)
         [] t.k = "unwrap" -> Unwrapped(FromRef(R, st, sc, d, t))
         [] t.k = "enum" -> EnumOf(EnumMembers(R, t))
         [] t.k = "tagged" -> WithTag(FromType(R, st, sc, d + 1, t.alts), t.tag)
         [] t.k = "major" -> FromMajor(t)
         [] OTHER -> AnyField

Narrowed(R, f, t) ==
  CASE t.op = "" -> f
    [] t.op \in {"range", "xrange"} -> WithRange(f, t.op, LiteralOf(R, t), LiteralOf(R, t.ctl[1]))
    [] OTHER -> WithControl(R, f, t.op, t.ctl[1], LiteralOf(R, t.ctl[1]))
FromType1(R, st, sc, d, t) == Narrowed(R, FromType2(R, st, sc, d, t), t)

\* The rule a member that only names a group, or unwraps a map or an array, stands for.
IsGroupRef(t, defs) ==
  /\ t.op = "" /\ t.k \in {"ref", "unwrap"} /\ defs # <<>>
  /\ IF t.k = "ref" THEN defs[1].group ELSE GroupOf(defs[1]) # <<>>
GroupRef(R, e) ==
  IF e.k = "entry" /\ e.key = "none" /\ Len(e.alts) = 1 /\ IsGroupRef(e.alts[1], DefinitionsOf(R, e.alts[1].name))
  THEN e.alts[1].name ELSE ""

EntryWith(e, container, f, kf) ==
  CASE container = "array" -> Entry("none", Blank, AnyField, f, e.lo, e.hi)
    [] container = "map" /\ e.key = "fixed" -> Entry("fixed", e.kv, AnyField, f, e.lo, e.hi)
    [] OTHER -> Entry("open", Blank, kf, f, e.lo, e.hi)
EntryOf(R, st, sc, d, e, container) ==
  EntryWith(e, container, FromType(R, st, sc, d + 1, e.alts),
            IF e.key = "type" THEN FromType1(R, st, sc, d + 1, e.kt) ELSE AnyField)

\* An optional or repeated group hands its occurrence to each of its members.
HandDown(members, e) ==
  IF e.lo = 1 /\ e.hi = 1 THEN members ELSE [i \in DOMAIN members |-> [members[i] EXCEPT !.lo = e.lo, !.hi = e.hi]]

\* The members of a group are those of the container it is in; a choice of groups is one
\* member, without a key, which holds a container of its own.
Group(R, st, sc, d, choices, container) ==
  IF Len(choices) > 1
  THEN <<Entry("none", Blank, AnyField,
               [Field("choice") EXCEPT !.opts =
                  [i \in DOMAIN choices |-> [Field(container) EXCEPT !.entries =
                                               EntriesOf(R, st, sc, d + 1, choices[i], container)]]], 1, 1)>>
  ELSE EntriesOf(R, st, sc, d + 1, IF choices = <<>> THEN <<>> ELSE choices[1], container)
EntriesOfMember(R, st, sc, d, e, name, container) ==
  CASE e.k = "group" -> HandDown(Group(R, st, sc, d, e.choices, container), e)
    [] e.k = "entry" /\ name \notin {""} \cup st ->
         HandDown(Group(R, st \cup {name}, sc, d, GroupNamed(R, name), container), e)
    [] OTHER -> <<EntryOf(R, st, sc, d, e, container)>>
EntriesOf(R, st, sc, d, choice, container) ==
  FlattenSeq([i \in DOMAIN choice |-> EntriesOfMember(R, st, sc, d, choice[i], GroupRef(R, choice[i]), container)])

\* deriveShape: there is no field for a name that is not a rule, or takes parameters.
NoShape == Field("none")
ShapeOf(R, rule, defs) ==
  IF defs = <<>> \/ \E i \in DOMAIN defs : defs[i].params # <<>> THEN NoShape
  ELSE FromDefinitions(R, {rule}, Unbound, 0, defs)
Shape(R, rule) == ShapeOf(R, rule, DefinitionsOf(R, rule))

-----------------------------------------------------------------------------
(* What a rule accepts: the reference.  Fuel bounds the rules followed on the way, n *)
(* the members of a map or an array.                                                 *)

RECURSIVE Accepts(_, _, _, _, _)
RECURSIVE Members(_, _, _, _, _)

Joined(S, T, n) == {w \in {s \o t : s \in S, t \in T} : Len(w) <= n}
Repeated(once, e, n) ==
  LET power[i \in 0..n] == IF i = 0 THEN {<<>>} ELSE Joined(power[i - 1], once, n)
  IN  UNION {power[i] : i \in {i \in 0..n : e.lo <= i /\ i <= e.hi}}
\* The members an entry stands for, as often as it may occur.
Occurring(R, sc, fuel, e, name, n) ==
  Repeated(IF e.k = "entry" /\ name = "" THEN {<<[e |-> e, sc |-> sc]>>}
           ELSE IF fuel = 0 THEN {}
           ELSE Members(R, sc, fuel - 1, IF e.k = "group" THEN e.choices ELSE GroupNamed(R, name), n), e, n)
Members(R, sc, fuel, choices, n) ==
  LET all[c \in DOMAIN choices, i \in 0..99] ==
        IF i = 0 THEN {<<>>}
        ELSE Joined(all[c, i - 1], Occurring(R, sc, fuel, choices[c][i], GroupRef(R, choices[c][i]), n), n)
  IN  UNION {all[c, Len(choices[c])] : c \in DOMAIN choices}

IsMember(R, fuel, m, k, v) ==
  /\ Accepts(R, m.sc, fuel, m.e.alts, v)
  /\ m.e.key = "fixed" => k = m.e.kv
  /\ m.e.key = "type" => Accepts(R, m.sc, fuel, <<m.e.kt>>, k)
AsArray(R, fuel, w, items) ==
  Len(w) = Len(items) /\ \A i \in DOMAIN items : IsMember(R, fuel, w[i], w[i].e.kv, items[i])
AsMap(R, fuel, w, pairs) ==
  /\ Len(w) = Len(pairs)
  /\ \E p \in [DOMAIN w -> DOMAIN pairs] :
       /\ \A x, y \in DOMAIN w : p[x] = p[y] => x = y
       /\ \A i \in DOMAIN w : IsMember(R, fuel, w[i], pairs[p[i]].s[1], pairs[p[i]].s[2])
HoldsMembers(R, sc, fuel, t, j) ==
  /\ j.t = IF t.k = "array" THEN "arr" ELSE "map"
  /\ t.k = "map" => \A x, y \in DOMAIN j.s : j.s[x].s[1] = j.s[y].s[1] => x = y
  /\ \E w \in Members(R, sc, fuel, t.choices, Len(j.s)) :
       IF t.k = "array" THEN AsArray(R, fuel, w, j.s) ELSE AsMap(R, fuel, w, j.s)

OfMajor(t, j) ==
  CASE t.tag = 0 -> j.t = "num" /\ j.n >= 0
    [] t.tag = 1 -> j.t = "num" /\ j.n < 0
    [] t.tag \in 2..5 -> j.t = <<"bytes", "text", "arr", "map">>[t.tag - 1]
    [] OTHER -> j = SimpleOf(t)
AcceptsTarget(R, sc, fuel, t, j) ==
  CASE t.k = "value" -> j = t.val
    [] t.k = "ref" ->
         IF t.name \in DOMAIN sc THEN Accepts(R, sc[t.name].scope, fuel, <<sc[t.name].node>>, j)
         ELSE fuel > 0 /\ \E i \in DOMAIN DefinitionsOf(R, t.name) :
                LET d == DefinitionsOf(R, t.name)[i]
                IN  ~d.group /\ Accepts(R, Bind(d, t.args, sc), fuel - 1, d.alts, j)
    [] t.k = "paren" -> Accepts(R, sc, fuel, t.alts, j)
    [] t.k \in {"map", "array"} -> HoldsMembers(R, sc, fuel, t, j)
    [] t.k = "enum" -> \E i \in DOMAIN EnumMembers(R, t) : j = EnumMembers(R, t)[i].alts[1].val
    [] t.k = "tagged" -> j.t = "tag" /\ j.n = t.tag /\ Accepts(R, sc, fuel, t.alts, j.s[1])
    [] t.k = "major" -> OfMajor(t, j)
    [] OTHER -> TRUE

Within(op, from, to, n) == from.n <= n /\ (n < to.n \/ (n = to.n /\ op = "range"))
IsWithin(R, t, n) == Within(t.op, LiteralOf(R, t), LiteralOf(R, t.ctl[1]), n)
Controlled(R, op, c, v, j) ==
  CASE op = "size" -> CASE v.t = "num" /\ j.t = "num" -> 0 <= j.n /\ j.n < 256^v.n
                        [] v.t = "num" /\ j.t # "num" -> j.n = v.n
                        [] OTHER -> IsWithin(R, c.alts[1], j.n)
    [] op = "lt" -> j.n < v.n
    [] op = "le" -> j.n <= v.n
    [] op = "gt" -> j.n > v.n
    [] op = "ge" -> j.n >= v.n
    [] op = "eq" -> j = v
    [] OTHER -> TRUE
AcceptsOne(R, sc, fuel, t, j) ==
  IF t.op \in {"range", "xrange"} THEN j.t = "num" /\ IsWithin(R, t, j.n)
  ELSE /\ AcceptsTarget(R, sc, fuel, t, j)
       /\ t.op # "" => Controlled(R, t.op, t.ctl[1], LiteralOf(R, t.ctl[1]), j)
Accepts(R, sc, fuel, alts, j) == \E i \in DOMAIN alts : AcceptsOne(R, sc, fuel, alts[i], j)
=============================================================================

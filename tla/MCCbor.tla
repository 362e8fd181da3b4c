-------------------------------- MODULE MCCbor --------------------------------
(* A schema of small rules, one or two of each thing CDDL can say, and payloads that some *)
(* of them accept.  Texts and keys are told apart by their length.                        *)
EXTENDS CborEditor

OpenKey(kt, t) == Member("type", Blank, kt, <<t>>)
Optional(e) == Times(e, 0, 1)
Many(e) == Times(e, 0, NoMax)
Paren(t) == [Type("paren") EXCEPT !.alts = <<t>>]
Interval(lo, hi) == Control(Value(Num(lo)), "range", Value(Num(hi)))
KeyA == Text(1)
KeyB == Text(2)
KeyC == Text(3)

MCSchema ==
  [level |-> <<Def(<<Interval(0, 3), Value(Text(3))>>)>>,
   color |-> <<Def(<<Value(Text(1)), Value(Text(2))>>), Def(<<Value(Num(2))>>)>>,
   row   |-> <<Def(<<Holding("array", <<<<Item(Ref("int")), Optional(Item(Ref("bool"))), Many(Item(Ref("tstr")))>>>>)>>)>>,
   msg   |-> <<Def(<<Holding("map", <<<<Named(KeyA, Control(Ref("uint"), "lt", Value(Num(3)))),
                                       Optional(Named(KeyB, Control(Ref("tstr"), "size", Paren(Interval(1, 2))))),
                                       Many(OpenKey(Ref("int"), Ref("bool")))>>>>)>>)>>,
   wrap  |-> <<Def(<<[Type("tagged") EXCEPT !.tag = 1, !.alts =
                        <<[Type("tagged") EXCEPT !.tag = 2, !.alts = <<Ref("int")>>]>>]>>)>>,
   tree  |-> <<Def(<<Holding("map", <<<<Named(KeyA, Ref("int")), Optional(Named(KeyB, Ref("tree")))>>>>)>>)>>,
   base  |-> <<Def(<<Holding("map", <<<<Named(KeyA, Ref("int"))>>>>)>>)>>,
   both  |-> <<Def(<<Holding("map", <<<<Item([Ref("base") EXCEPT !.k = "unwrap"]),
                                       Optional(Inline(<<<<Named(KeyB, Ref("tstr"))>>>>)),
                                       Optional(Item(Ref("more")))>>>>)>>)>>,
   more  |-> <<GroupDef(<<<<Named(KeyC, Ref("bool"))>>>>)>>,
   pair  |-> <<[Def(<<Holding("array", <<<<Item(Ref("T")), Item(Ref("T"))>>>>)>>) EXCEPT !.params = <<"T">>]>>,
   ints  |-> <<Def(<<[Ref("pair") EXCEPT !.args = <<Ref("int")>>], Ref("bool")>>)>>,
   flag  |-> <<Def(<<Holding("enum", <<<<Item(Value(Num(1))), Named(KeyB, Value(Num(2)))>>>>)>>)>>,
   steps |-> <<Def(<<Interval(0, 1), Interval(3, 3)>>)>>,
   either |-> <<Def(<<Holding("map", <<<<Named(KeyA, Ref("int"))>>, <<Named(KeyB, Ref("tstr"))>>>>)>>)>>,
   inner |-> <<Def(<<Holding("map", <<<<Named(KeyC, Ref("bool")),
                                        Inline(<<<<Named(KeyA, Ref("int"))>>, <<Named(KeyB, Ref("tstr"))>>>>)>>>>)>>)>>,
   extra |-> <<Def(<<Holding("map", <<<<Named(KeyA, Ref("int")),
                                        Optional(Inline(<<<<Named(KeyB, Ref("tstr")), Named(KeyC, Ref("bool"))>>>>))>>>>)>>)>>,
   list  |-> <<Def(<<Holding("array", <<<<Many(Inline(<<<<Item(Ref("int")), Item(Ref("bool"))>>>>))>>>>)>>)>>]
MCRules == {"level", "color", "row", "msg", "wrap", "tree", "both", "ints", "flag",
            "steps", "either", "inner", "extra", "list"}
\* Two ranges, two maps, a group choice in a map, which has no key, and a group that repeats.
MCWhole == MCRules \ {"steps", "either", "inner", "list"}
\* A rule that refers to itself, the group choice, and groups that may be left out.
MCClosed == MCRules \ {"tree", "inner", "extra", "list"}

Pairs(s) == Map([i \in DOMAIN s |-> Pair(s[i][1], s[i][2])])
MCTexts ==
  {Num(2), Text(3), Bool(1),
   Arr(<<Num(1)>>), Arr(<<Num(1), Bool(1), Text(1)>>), Arr(<<Num(1), Text(1), Text(2)>>), Arr(<<Num(1), Num(2)>>),
   Pairs(<<<<KeyA, Num(2)>>, <<KeyB, Text(2)>>>>),
   Pairs(<<<<Num(1), Bool(1)>>, <<KeyA, Num(0)>>>>), Pairs(<<<<KeyC, Bool(0)>>, <<KeyA, Num(3)>>>>),
   Pairs(<<<<KeyA, Num(1)>>, <<KeyB, Pairs(<<<<KeyA, Num(2)>>>>)>>>>),
   Pairs(<<<<KeyB, Text(1)>>>>), Pairs(<<<<KeyB, Text(1)>>, <<KeyC, Bool(1)>>>>),
   Pairs(<<<<KeyA, Num(1)>>, <<KeyB, Text(1)>>, <<KeyC, Bool(1)>>>>),
   Arr(<<Num(1), Bool(1), Num(1), Bool(0)>>), Tagged(1, Tagged(2, Num(1)))}
\* One payload and one rule, where it is who wrote the text that matters.
MCOneText == {Num(2)}
MCInputs == {Blank, Junk, Num(1), Num(3), Text(2)}
=============================================================================

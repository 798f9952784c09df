---------------------------- MODULE MCInvocation -----------------------------
(* Contracts for TLC: the functions, texts and values of each run.            *)
EXTENDS Invocation, SpecExamples

T(name) == [t |-> name]
Of(name, t) == [t |-> name, of |-> t]
MapOf(k, v) == [t |-> "map", key |-> k, val |-> v]
PairOf(ts) == [t |-> "tuple", types |-> ts]
BytesN(n) == [t |-> "bytesn", n |-> n]
Udt(name) == [t |-> "udt", name |-> name]
Echo(t) == [inputs |-> <<t>>, output |-> t]
F(name, t) == [name |-> name, type |-> t]

MCSpec ==
  ("Pt" :> [kind |-> "struct", fields |-> <<F("A", T("u32")), F("B", T("symbol"))>>])
    @@ ("Tup" :> [kind |-> "struct", fields |-> <<F("0", T("u32")), F("1", T("bool"))>>])
    @@ ("Card" :> [kind |-> "enum", values |-> {1, 2}])
    @@ ("Un" :> [kind |-> "union",
                 cases |-> <<[name |-> "A", tuple |-> FALSE, types |-> <<>>],
                             [name |-> "B", tuple |-> TRUE, types |-> <<T("u32")>>],
                             [name |-> "CA", tuple |-> TRUE, types |-> <<T("u32"), Udt("Pt")>>]>>])

(* The order of map keys: by their variants, numbers by value, words as Rust  *)
(* orders the bytes.                                                          *)
Variants == <<"void", "u32", "u128", "string", "symbol">>
WordOrder == <<"-1", "0", "0007", "07", "1", "1.3e1", "12", "13", "7", "A", "B", "CA", "GA", "GB", "MA", "SB",
               "ab", "abc", "alice", "bob", "carol", "dave", "eve", "false", "null", "phrase", "true", "u32", "void">>
RankOf(k) ==
  <<CHOOSE i \in DOMAIN Variants : Variants[i] = k.sc,
    CASE k.sc = "void" -> 0
      [] k.sc \in {"u32", "u128"} -> k.n
      [] OTHER -> CHOOSE i \in DOMAIN WordOrder : WordOrder[i] = k.s.w>>
McKeyLess(k, l) ==
  LET a == RankOf(k)
      b == RankOf(l)
  IN  a[1] < b[1] \/ (a[1] = b[1] /\ a[2] < b[2])

Val(sc, n) == [sc |-> sc, n |-> n]
Word(sc, w) == [sc |-> sc, s |-> Bare(w)]
Vecs(S) == {VecVal(s) : s \in {<<>>} \cup {<<x>> : x \in S} \cup {<<x, y>> : x, y \in S}}

RECURSIVE MCValues(_)
MCValues(t) ==
  CASE t.t \in Ints -> {Val(t.t, n) : n \in Width(t.t) \cap {-1, 0, 1, 12, 13}}
    [] t.t \in Words -> {Word(t.t, w) : w \in {"A", "null", "12"}}
    [] t.t = "bool" -> {[sc |-> "bool", b |-> b] : b \in BOOLEAN}
    [] t.t = "address" -> {Word("address", "GA"), Word("address", "CA")}
    [] t.t = "bytes" -> {[sc |-> "bytes", h |-> h] : h \in {<<1, 2>>, <<1, 3>>, <<10, 11>>}}
    [] t.t = "bytesn" -> {[sc |-> "bytes", h |-> [i \in 1 .. 2 * t.n |-> IF i = 2 * t.n THEN 7 ELSE 0]]}
    [] t.t = "option" -> {Void} \cup MCValues(t.of)
    [] t.t = "vec" -> Vecs(MCValues(t.of))
    [] t.t = "tuple" -> {VecVal(s) : s \in {<<x, y>> : x \in MCValues(t.types[1]), y \in MCValues(t.types[2])}}
    [] t.t = "map" ->
         UNION {{[sc |-> "map", m |-> SortSeq(SetToSeq({[key |-> k, val |-> f[k]] : k \in D}),
                    LAMBDA a, b : KeyLess(a.key, b.key))] : f \in [D -> MCValues(t.val)]} :
                  D \in {D \in SUBSET MCValues(t.key) : Cardinality(D) <= 2}}
    [] t = Udt("Pt") ->
         {[sc |-> "map", m |-> <<[key |-> Field("A"), val |-> x], [key |-> Field("B"), val |-> y]>>] :
            x \in MCValues(T("u32")), y \in MCValues(T("symbol"))}
    [] t = Udt("Tup") -> {VecVal(<<x, y>>) : x \in MCValues(T("u32")), y \in MCValues(T("bool"))}
    [] t = Udt("Card") -> {Val("u32", 1), Val("u32", 2)}
    [] t = Udt("Un") ->
         {VecVal(<<Field("A")>>)} \cup {VecVal(<<Field("B"), x>>) : x \in MCValues(T("u32"))}
           \cup {VecVal(<<Field("CA"), x, y>>) : x \in MCValues(T("u32")), y \in MCValues(Udt("Pt"))}
    [] t.t = "result" -> MCValues(t.ok)
    [] t.t = "void" -> {Void}
    [] t.t = "val" -> {Void, Val("u32", 1), Word("symbol", "A")}
    [] t.t \in {"timepoint", "duration"} -> {Val(t.t, 1)}
    [] OTHER -> {}

(* Types whose printed values a file brings back, and others.                 *)
PlainTypes ==
  <<T("u32"), T("i64"), T("u64"), T("string"), T("symbol"), T("address"), T("bytes"), BytesN(1),
    Udt("Pt"), Udt("Tup"), Udt("Card"), Udt("Un"),
    Of("vec", T("u128")), Of("vec", Of("option", T("i32"))), Of("vec", T("bytes")),
    MapOf(T("u32"), T("bool")), MapOf(T("symbol"), T("u32")), MapOf(T("string"), Udt("Card")),
    PairOf(<<T("symbol"), T("u32")>>), PairOf(<<Of("option", T("u32")), Udt("Un")>>)>>

ArgFns ==
  [i \in DOMAIN PlainTypes |-> Echo(PlainTypes[i])]
    \o <<Echo(T("i128")), Echo(Of("option", T("u32"))), Echo(MapOf(T("u128"), T("u32"))),
         Echo(Of("vec", Of("option", Of("option", T("u32"))))),
         Echo(BytesN(2)),
         [inputs |-> <<T("address"), Of("option", T("u64"))>>, output |-> T("void")],
         [inputs |-> <<T("address"), T("address")>>, output |-> T("void")],
         [inputs |-> <<T("bool")>>, output |-> [t |-> "result", ok |-> T("timepoint")]],
         [inputs |-> <<T("bool")>>, output |-> T("val")]>>

J(v) == [json |-> v]
Quoted(w) == [q |-> 1, w |-> w]
ArgInputs ==
  {Bare("A"), Bare("12"), Bare("13"), Bare("ab"), Bare("null"), Bare("-1"), Bare("GA"), Bare("CA"),
   Bare("alice"), Quoted("bob"), Bare("carol"), Bare("dave"), Bare("eve"), Bare("SB"), Bare("phrase"),
   Bare("MA"), Bare("void"), Bare("1"), Bare("true"), Bare("7"),
   J(Arr(<<Num(1), Num(7)>>)), J(Arr(<<Num(7)>>)), J(Arr(<<Str(Bare("A")), Num(1)>>)), J(Arr(<<>>)), J(Arr(<<Num(13), Null>>)),
   J(Obj(Bare("A") :> Num(1) @@ Bare("B") :> Str(Bare("A")))), J(Obj(Bare("A") :> Num(1))),
   J(Obj(Bare("0") :> Num(1) @@ Bare("1") :> Bool(TRUE))), J(Obj(Bare("1") :> Bool(TRUE))),
   J(Obj(Bare("CA") :> Arr(<<Num(1)>>))), J(Obj(Bare("u32") :> Num(1))), J(Arr(<<Str(Bare("void"))>>))}

(* The words that are keys, and the names that are stored: carol is an alias  *)
(* and CA an address too, bob has no secret, and those of dave and eve are in *)
(* the secure store, or should be.                                            *)
Key(kind, a) == [kind |-> kind, account |-> a]
McKeys == ("GA" :> Key("public", "GA")) @@ ("GB" :> Key("public", "GB")) @@ ("MA" :> Key("muxed", "GA"))
            @@ ("SB" :> Key("secret", "GB")) @@ ("phrase" :> Key("seed", "GA"))
McIdentities == ("alice" :> Key("seed", "GA")) @@ ("bob" :> Key("public", "GA")) @@ ("carol" :> Key("secret", "GB"))
            @@ ("dave" :> Key("store", "GB")) @@ ("eve" :> [kind |-> "lost"]) @@ ("CA" :> Key("seed", "GB"))
McContracts == ("carol" :> "CA")

(* The bytes of a text: here one for a word, and one for each mark around it. *)
McFileBytes(x) ==
  LET marks == IF "q" \in DOMAIN x THEN [k \in 1 .. 2 * x.q |-> 2] ELSE <<5, 11>>
      word == IF "w" \in DOMAIN x THEN <<6, Len(x.w) % 16>> ELSE <<5, 13>>
  IN  marks \o word \o marks

(* What the help gives as examples.                                           *)
ExampleInputs == UNION {Doc(PlainTypes[i]) : i \in DOMAIN PlainTypes}
TypedInputs == ArgInputs \cup ExampleInputs

-----------------------------------------------------------------------------
(* The types and the JSON that occur, with their ranks.                       *)

RECURSIVE Within(_)
Within(t) ==
  {t} \cup
  CASE t.t \in {"option", "vec"} -> Within(t.of)
    [] t.t = "map" -> Within(t.key) \cup Within(t.val)
    [] t.t = "tuple" -> UNION {Within(t.types[i]) : i \in DOMAIN t.types}
    [] OTHER -> {}

RECURSIVE Nesting(_)
Nesting(t) == IF t.t = "option" THEN 1 + Nesting(t.of) ELSE 0

UdtTypes ==
  UNION {LET e == MCSpec[n]
         IN  CASE e.kind = "struct" -> {e.fields[i].type : i \in DOMAIN e.fields}
               [] e.kind = "union" ->
                    UNION {{e.cases[c].types[i] : i \in DOMAIN e.cases[c].types} : c \in DOMAIN e.cases}
               [] OTHER -> {} : n \in DOMAIN MCSpec}
ArgTypes == UNION {{ArgFns[f].inputs[i] : i \in DOMAIN ArgFns[f].inputs} : f \in DOMAIN ArgFns}
McDepth == [t \in UNION {Within(t) : t \in ArgTypes \cup UdtTypes} |-> Nesting(t)]

RECURSIVE Inside(_)
Inside(v) ==
  LET read(x) == IF Reads(x) = NotJson THEN {} ELSE Inside(Reads(x))
  IN  {v} \cup
      CASE v.j = "str" -> read(v.s)
        [] v.j = "arr" -> UNION {Inside(v.a[i]) : i \in DOMAIN v.a}
        [] v.j = "obj" ->
             UNION {{Str(k)} \cup read(k) \cup Inside(v.o[k]) : k \in DOMAIN v.o}
               \cup (IF Items(v.o).is = "ok" THEN {Arr(Items(v.o).v)} ELSE {})
        [] OTHER -> {}

RECURSIVE Nested(_)
Nested(v) ==
  LET over(S) == 1 + CHOOSE n \in S \cup {0} : \A m \in S : m <= n
      of(x) == IF Reads(x) = NotJson THEN 0 ELSE Nested(Reads(x))
  IN  CASE v.j = "arr" -> over({Nested(v.a[i]) : i \in DOMAIN v.a})
        [] v.j = "obj" -> over(UNION {{of(k), Nested(v.o[k])} : k \in DOMAIN v.o})
        [] OTHER -> 0

Printed ==
  UNION {{Writes(r.v) : r \in {XdrToJson(v, ArgFns[f].output) : v \in MCValues(ArgFns[f].output)} \ {Err, Panic}} :
           f \in DOMAIN ArgFns}
McHeight ==
  [v \in UNION {Inside(Str(x)) : x \in TypedInputs \cup Printed \cup {Bare(w) : w \in DOMAIN Strkeys \cup {"false"}}}
     |-> Nested(v)]

McBackTypes == UNION {Within(PlainTypes[i]) : i \in DOMAIN PlainTypes} \cup UdtTypes

RECURSIVE Sized(_)
Sized(v) ==
  CASE v.sc = "vec" -> 1 + Max({0} \cup {Sized(v.v[i]) : i \in DOMAIN v.v})
    [] v.sc = "map" -> 1 + Max({0} \cup UNION {{Sized(v.m[i].key), Sized(v.m[i].val)} : i \in DOMAIN v.m})
    [] OTHER -> 0
McSize == [v \in UNION {MCValues(t) : t \in McBackTypes} |-> Sized(v)]

RawJson == (Str(Bare("void")) :> Void) @@ (Obj(Bare("u32") :> Num(1)) :> Val("u32", 1))

-----------------------------------------------------------------------------
(* The recursive calls: each is a call of the operator itself.  (Under a LET, *)
(* because TLC's -coverage unfolds a substituted operator without end.)       *)
McFromJson(v, t) == LET r == FromJson(v, t) IN r
McFromString(v, t) == LET r == FromString(v, t) IN r
McToJson(v) == LET r == ToJson(v) IN r
McXdrToJson(v, t) == LET r == XdrToJson(v, t) IN r
McFits(v, t) == LET r == Fits(v, t) IN r
McProper(v, t) == LET r == Proper(v, t) IN r
=============================================================================

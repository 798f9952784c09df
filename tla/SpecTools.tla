------------------------------ MODULE SpecTools ------------------------------
(* The conversions of soroban-spec-tools: text and JSON to contract values   *)
(* (from_string, from_json) and contract values to JSON (xdr_to_json), driven *)
(* by the types of a contract's spec.                                         *)
(*                                                                            *)
(* Integer types keep the order of their ranges at a small width.             *)
(*                                                                            *)
(* The conversions recurse over the structure of types and values.  Here a    *)
(* recursive call is a constant, FromJsonCall in the definition of FromJson,  *)
(* which a configuration gives the definition itself as its value; so the     *)
(* definitions are equations that can be reasoned about.                      *)
EXTENDS ArgTexts, FiniteSets, SequencesExt

CONSTANTS
  Spec,        \* the user defined types of the contract: name -> entry
  Depth,       \* its types, each with a rank above the type that it is an option of
  Height,      \* the JSON that may be read, each with a rank above that of its parts
  RawScVals,   \* the JSON that serde reads as an ScVal, and that value
  KeyLess(_, _),  \* the order of ScVals
  FromJsonCall(_, _), FromStringCall(_, _), ToJsonCall(_), XdrToJsonCall(_, _)

SpecTypes == DOMAIN Depth
Jsons == DOMAIN Height
Texts == {v.s : v \in {u \in Jsons : u.j = "str"}}

-----------------------------------------------------------------------------
(* Outcomes, and the integer types.                                           *)

Then(r, F(_)) == IF r.is = "ok" THEN Ok(F(r.v)) ELSE r

(* collect::<Result<Vec<_>, _>>: the first that is not Ok decides.            *)
Collect(rs) ==
  LET bad == {i \in DOMAIN rs : rs[i].is # "ok"}
  IN  IF bad = {} THEN Ok([i \in DOMAIN rs |-> rs[i].v])
                  ELSE rs[CHOOSE i \in bad : \A k \in bad : i <= k]

MinLen(s, u) == IF Len(s) <= Len(u) THEN Len(s) ELSE Len(u)

Width(t) ==
  CASE t = "u32" -> 0 .. 2
    [] t = "i32" -> -1 .. 1
    [] t = "u64" -> 0 .. U64Max
    [] t = "i64" -> Low .. 6
    [] t \in {"u128", "u256"} -> 0 .. High
    [] t \in {"i128", "i256"} -> Low .. High

(* serde_json::from_value::<ScVal>, the catch-all of both matches.            *)
FromValue(v) == IF v \in DOMAIN RawScVals THEN Ok(RawScVals[v]) ELSE Err

-----------------------------------------------------------------------------
(* Contract values.                                                           *)

VecVal(s) == [sc |-> "vec", v |-> s]
Field(name) == [sc |-> "symbol", s |-> Bare(name)]

Wide == {"u128", "i128", "u256", "i256"}
Ints == {"u32", "i32", "u64", "i64"} \cup Wide
Words == {"string", "symbol"}
Primitives == Ints \cup Words \cup {"bool", "address", "bytes", "bytesn"}

(* Entries in the order of their keys: the i-th has i - 1 before it.          *)
InOrder(entries) ==
  LET before(e) == {k \in DOMAIN entries : KeyLess(entries[k].key, e.key)}
  IN  [i \in DOMAIN entries |->
         entries[CHOOSE k \in DOMAIN entries : Cardinality(before(entries[k])) = i - 1]]

(* ScMap::sorted_from: entries sorted by key, equal keys refused.             *)
SortedFrom(entries) ==
  LET keys == {entries[i].key : i \in DOMAIN entries}
  IN  IF Cardinality(keys) < Len(entries) THEN Err
      ELSE Ok([sc |-> "map", m |-> InOrder(entries)])

-----------------------------------------------------------------------------
(* Primitives.                                                                *)

AddressFromJson(text) ==
  IF IsBare(text) /\ text.w \in DOMAIN Strkeys
  THEN Ok([sc |-> "address", s |-> text])
  ELSE Err

PaddedHex(text, n) ==
  IF \E h \in Hex(text) : Len(h) <= n * 2
  THEN LET h == CHOOSE h \in Hex(text) : TRUE
       IN  Ok([sc |-> "bytes", h |-> [i \in 1 .. (n * 2 - Len(h)) |-> 0] \o h])
  ELSE Err

HexText(h) == Bare(CHOOSE w \in DOMAIN HexDigits : HexDigits[w] = h)

AddressBytes == 2  \* 32 in the code

InRange(ns, t) ==
  IF \E n \in ns : n \in Width(t)
  THEN Ok([sc |-> t, n |-> CHOOSE n \in ns : n \in Width(t)])
  ELSE Err

(* The text of a string or of a number.                                       *)
AsText(v) == IF v.j = "num" THEN Writes(v) ELSE v.s

(* Bytes from their pairs of digits.                                          *)
OfPairs(bs) == [k \in 1 .. 2 * Len(bs) |-> bs[(k + 1) \div 2][2 - (k % 2)]]

FromJsonPrimitives(v, t) ==
  CASE t.t = "bool" /\ v.j = "bool" -> Ok([sc |-> "bool", b |-> v.b])
    [] t.t \in Wide /\ v.j = "str" -> InRange(IntOf(v.s), t.t)
    [] t.t \in Ints \ Wide /\ v.j = "num" ->
         InRange(IF IsFloat(v.n) THEN {} ELSE {v.n}, t.t)
    [] t.t \in Words /\ v.j = "str" -> Ok([sc |-> t.t, s |-> v.s])
    [] t.t = "address" /\ v.j = "str" -> AddressFromJson(v.s)
    [] t.t \in {"bytes", "bytesn"} /\ v.j \in {"num", "str"} ->
         IF t.t = "bytes" THEN HexDecode(AsText(v))
         ELSE IF t.n = AddressBytes /\ AddressFromJson(AsText(v)).is = "ok"
              THEN AddressFromJson(AsText(v))
              ELSE PaddedHex(AsText(v), t.n)
    [] t.t \in {"bytes", "bytesn"} /\ v.j = "arr" ->
         LET byte(x) == IF x.j = "num" /\ ~ IsFloat(x.n) /\ x.n \in 0 .. 255
                        THEN Ok(<<x.n \div 16, x.n % 16>>) ELSE Err
         IN  Then(Collect([i \in DOMAIN v.a |-> byte(v.a[i])]),
                  LAMBDA bs : [sc |-> "bytes", h |-> OfPairs(bs)])
    [] OTHER -> FromValue(v)

(* u32 constants of an enum.                                                  *)
ParseConstEnum(v, enum) ==
  IF ~ IsFloat(v.n) /\ v.n \in Width("u32") /\ v.n \in enum.values
  THEN Ok([sc |-> "u32", n |-> v.n])
  ELSE Err

-----------------------------------------------------------------------------
(* From text and JSON to values.                                              *)

IsTuple(strukt) == \E i \in DOMAIN strukt.fields : strukt.fields[i].name = "0"

(* The members "0", "1", ... of an object, as the items of an array; a        *)
(* missing one panics.                                                        *)
Items(o) ==
  LET n == Cardinality(DOMAIN o)
      key(i) == Bare(ToString(i - 1))
  IN  IF \A i \in 1 .. n : key(i) \in DOMAIN o THEN Ok([i \in 1 .. n |-> o[key(i)]]) ELSE Panic

ParseTupleStrukt(strukt, a) ==
  Then(Collect([i \in 1 .. MinLen(strukt.fields, a) |-> FromJsonCall(a[i], strukt.fields[i].type)]),
       VecVal)

ParseStrukt(strukt, o) ==
  LET member(f) ==
        IF Bare(f.name) \notin DOMAIN o THEN Err
        ELSE Then(FromJsonCall(o[Bare(f.name)], f.type), LAMBDA x : [key |-> Field(f.name), val |-> x])
      items == Collect([i \in DOMAIN strukt.fields |-> member(strukt.fields[i])])
  IN  IF items.is = "ok" THEN SortedFrom(items.v) ELSE items

(* The value of the union's only member: an object with a member "0" stands   *)
(* for the array of its members.                                              *)
UnionRest(v) == IF v.j = "obj" /\ Bare("0") \in DOMAIN v.o THEN Then(Items(v.o), Arr) ELSE Ok(v)

ParseUnion(union, v) ==
  LET named(text) == {i \in DOMAIN union.cases : Bare(union.cases[i].name) = text}
      tagged(case, vals) == VecVal(<<Field(case.name)>> \o vals)
      parsed(case, rest) ==
        IF ~ case.tuple THEN Ok(tagged(case, <<>>))
        ELSE IF Len(case.types) = 1
             THEN Then(FromJsonCall(rest, case.types[1]), LAMBDA x : tagged(case, <<x>>))
        ELSE IF rest.j = "arr"
             THEN Then(Collect([i \in 1 .. MinLen(rest.a, case.types) |->
                                  FromJsonCall(rest.a[i], case.types[i])]),
                       LAMBDA xs : tagged(case, xs))
        ELSE Ok(tagged(case, <<>>))
  IN  CASE v.j = "str" ->
             IF named(v.s) = {} THEN Err
             ELSE Ok(tagged(union.cases[CHOOSE i \in named(v.s) : TRUE], <<>>))
        [] v.j = "obj" /\ Cardinality(DOMAIN v.o) = 1 ->
             LET text == CHOOSE k \in DOMAIN v.o : TRUE
                 rest == UnionRest(v.o[text])
             IN  IF rest.is # "ok" THEN rest
                 ELSE IF named(text) = {} THEN Err
                 ELSE parsed(union.cases[CHOOSE i \in named(text) : TRUE], rest.v)
        [] OTHER -> Panic

ParseUdt(name, v) ==
  IF name \notin DOMAIN Spec THEN Err
  ELSE LET e == Spec[name]
       IN  CASE e.kind = "struct" /\ v.j = "obj" ->
                  IF IsTuple(e)
                  THEN LET items == Items(v.o)
                       IN  IF items.is = "ok" THEN ParseTupleStrukt(e, items.v) ELSE items
                  ELSE ParseStrukt(e, v.o)
             [] e.kind = "struct" /\ v.j = "arr" -> ParseTupleStrukt(e, v.a)
             [] e.kind = "union" /\ v.j \in {"arr", "str", "obj"} -> ParseUnion(e, v)
             [] e.kind = "enum" /\ v.j = "num" -> ParseConstEnum(v, e)
             [] OTHER -> Panic

(* A tuple whose number of items is not compared with its type.               *)
ParseTupleLoose(t, a) ==
  Then(Collect([i \in 1 .. MinLen(a, t.types) |-> FromJsonCall(a[i], t.types[i])]), VecVal)

ParseTuple(t, a) ==
  IF Len(a) # Len(t.types) THEN Err
  ELSE Then(Collect([i \in DOMAIN a |-> FromJsonCall(a[i], t.types[i])]), VecVal)

ParseMap(t, o) ==
  LET keys == SetToSeq(DOMAIN o)
      entry(k) == LET key == FromStringCall(k, t.key)
                      val == FromJsonCall(o[k], t.val)
                  IN  IF key.is = "ok" THEN Then(val, LAMBDA x : [key |-> key.v, val |-> x]) ELSE key
      entries == Collect([i \in DOMAIN keys |-> entry(keys[i])])
  IN  IF entries.is = "ok" THEN SortedFrom(entries.v) ELSE entries

FromJson(v, t) ==
  CASE t.t \in Primitives -> FromJsonPrimitives(v, t)
    [] t.t = "vec" /\ v.j = "arr" ->
         Then(Collect([i \in DOMAIN v.a |-> FromJsonCall(v.a[i], t.of)]), VecVal)
    [] t.t = "map" /\ v.j = "obj" -> ParseMap(t, v.o)
    [] t.t = "option" -> IF v = Null THEN Ok(Void) ELSE FromJsonCall(v, t.of)
    [] t.t = "tuple" /\ v.j = "arr" -> ParseTuple(t, v.a)
    [] t.t = "udt" -> ParseUdt(t.name, v)
    [] OTHER -> FromValue(v)

FromString(text, t) ==
  IF t.t = "option"
  THEN IF text = Bare("null") THEN Ok(Void) ELSE FromStringCall(text, t.of)
  ELSE LET v == Reads(text)
       IN  IF v # NotJson THEN FromJson(IF t.t \in Wide THEN Str(text) ELSE v, t)
           ELSE CASE t.t \in Words \cup Wide \cup {"bytes", "bytesn", "address"} ->
                       FromJson(Str(text), t)
                  [] t.t = "udt" /\ t.name \in DOMAIN Spec /\ Spec[t.name].kind \in {"union", "struct"} ->
                       FromJson(Str(text), t)
                  [] OTHER -> Err

-----------------------------------------------------------------------------
(* From values to JSON.                                                       *)

(* A map without its type: a symbol is a key as it stands, any other key is   *)
(* the JSON text of its value.                                                *)
ToText(v) == IF v.sc = "symbol" THEN v.s ELSE Writes(ToJsonCall(v))

ToJson(v) ==
  CASE v.sc = "bool" -> Bool(v.b)
    [] v.sc = "void" -> Null
    [] v.sc \in Wide -> Str(Bare(IntWords[v.n]))
    [] v.sc \in {"u64", "i64", "u32", "i32", "timepoint", "duration"} -> Num(v.n)
    [] v.sc \in Words \cup {"address"} -> Str(v.s)
    [] v.sc = "bytes" -> Str(HexText(v.h))
    [] v.sc = "vec" -> Arr([i \in DOMAIN v.v |-> ToJsonCall(v.v[i])])
    [] v.sc = "map" ->
         Obj([k \in {ToText(v.m[i].key) : i \in DOMAIN v.m} |->
                ToJsonCall((CHOOSE e \in {v.m[i] : i \in DOMAIN v.m} : ToText(e.key) = k).val)])

Pairs(keys, vals) ==
  Obj([k \in {keys[i] : i \in DOMAIN keys} |-> vals[CHOOSE i \in DOMAIN keys : keys[i] = k]])

VecMToJson(s, t) == Then(Collect([i \in DOMAIN s |-> XdrToJsonCall(s[i], t)]), Arr)

ZipToJson(s, types) ==
  Then(Collect([i \in 1 .. MinLen(s, types) |-> XdrToJsonCall(s[i], types[i])]), Arr)

(* Map keys that a copy of to_string makes: the words of symbols unquoted.    *)
ScMapToJsonBare(m, t) ==
  LET vals == Collect([i \in DOMAIN m |-> XdrToJsonCall(m[i].val, t.val)])
  IN  Then(vals, LAMBDA xs : Pairs([i \in DOMAIN m |-> ToText(m[i].key)], xs))

ScMapToJson(m, t) ==
  LET keys == Collect([i \in DOMAIN m |-> XdrToJsonCall(m[i].key, t.key)])
      vals == Collect([i \in DOMAIN m |-> XdrToJsonCall(m[i].val, t.val)])
  IN  IF keys.is # "ok" THEN keys
      ELSE Then(vals, LAMBDA xs : Pairs([i \in DOMAIN m |-> Writes(keys.v[i])], xs))

(* The fields of a struct are paired with the entries of the map by position. *)
StructToJson(strukt, m) ==
  LET n == MinLen(strukt.fields, m)
  IN  Then(Collect([i \in 1 .. n |-> XdrToJsonCall(m[i].val, strukt.fields[i].type)]),
           LAMBDA xs : Pairs([i \in 1 .. n |-> Bare(strukt.fields[i].name)], xs))

UnionToJson(union, s) ==
  LET cases == {i \in DOMAIN union.cases : Field(union.cases[i].name) = s[1]}
      case == union.cases[CHOOSE i \in cases : TRUE]
      member(x) == Pairs(<<s[1].s>>, <<x>>)
  IN  IF s = <<>> \/ s[1].sc # "symbol" \/ cases = {} THEN Err
      ELSE IF ~ case.tuple THEN Ok(Str(s[1].s))
      ELSE IF Len(s) = 1 THEN Err
      ELSE IF Len(case.types) = 1 THEN Then(XdrToJsonCall(s[2], case.types[1]), member)
      ELSE Then(ZipToJson(Tail(s), case.types), member)

UdtToJson(v, name) ==
  IF name \notin DOMAIN Spec THEN Err
  ELSE LET e == Spec[name]
       IN  CASE v.sc = "map" /\ e.kind = "struct" -> StructToJson(e, v.m)
             [] v.sc = "vec" /\ e.kind = "struct" ->
                  ZipToJson(v.v, [i \in DOMAIN e.fields |-> e.fields[i].type])
             [] v.sc = "vec" /\ e.kind = "union" -> UnionToJson(e, v.v)
             [] v.sc = "u32" /\ e.kind = "enum" -> Ok(Num(v.n))
             [] OTHER -> Panic

ScObjectToJson(v, t) ==
  CASE v.sc = "vec" /\ t.t = "vec" -> VecMToJson(v.v, t.of)
    [] v.sc = "vec" /\ t.t = "tuple" -> ZipToJson(v.v, t.types)
    [] t.t = "udt" -> UdtToJson(v, t.name)
    [] v.sc = "map" /\ t.t = "map" -> ScMapToJson(v.m, t)
    [] OTHER -> Err

Prints == Primitives \cup {"timepoint", "duration", "void"}

XdrToJson(v, t) ==
  IF v = Void /\ t.t \in {"val", "option", "tuple"} THEN Ok(Null)
  ELSE IF t.t \in Prints /\ (v.sc = t.t \/ (v.sc = "bytes" /\ t.t = "bytesn")) THEN Ok(ToJson(v))
  ELSE IF t.t = "result" THEN XdrToJsonCall(v, t.ok)
  ELSE IF t.t = "option" THEN XdrToJsonCall(v, t.of)
  ELSE IF v.sc \in {"map", "vec", "u32"} THEN ScObjectToJson(v, t)
  ELSE Panic

-----------------------------------------------------------------------------
(* The types and the JSON, closed under what the conversions take them apart  *)
(* into.                                                                      *)

ASSUME TypesAssumption ==
  /\ Depth \in [SpecTypes -> Nat]
  /\ \A t \in SpecTypes :
       /\ t.t = "option" => t.of \in SpecTypes /\ Depth[t.of] < Depth[t]
       /\ t.t = "vec" => t.of \in SpecTypes
       /\ t.t = "tuple" => t.types \in Seq(SpecTypes)
       /\ t.t = "map" => t.key \in SpecTypes /\ t.val \in SpecTypes
       /\ t.t = "bytesn" => t.n \in Nat
  /\ \A name \in DOMAIN Spec :
       LET e == Spec[name]
       IN  /\ e.kind = "struct" => e.fields \in Seq([name : STRING, type : SpecTypes])
           /\ e.kind = "union" =>
                e.cases \in Seq([name : STRING, tuple : BOOLEAN, types : Seq(SpecTypes)])

Below(u, v) == u \in Jsons /\ Height[u] < Height[v]

ASSUME JsonsAssumption ==
  /\ Height \in [Jsons -> Nat]
  /\ \A v \in Jsons : v.j = "arr" => v.a \in Seq(Jsons) /\ \A i \in DOMAIN v.a : Below(v.a[i], v)
  /\ \A v \in Jsons : v.j = "obj" =>
       /\ IsFiniteSet(DOMAIN v.o) /\ DOMAIN v.o \subseteq Texts
       /\ \A k \in DOMAIN v.o : Below(v.o[k], v) /\ (Reads(k) = NotJson \/ Below(Reads(k), v))
       /\ Items(v.o).is = "ok" =>
            Arr(Items(v.o).v) \in Jsons /\ Height[Arr(Items(v.o).v)] <= Height[v]
  /\ \A x \in Texts : Reads(x) \in Jsons \cup {NotJson} /\ Str(x) \in Jsons

(* serde writes an ScVal as its name, or as an object with that one member.   *)
ASSUME RawAssumption == \A v \in DOMAIN RawScVals : v.j \in {"str", "obj"}

ASSUME CallsAssumption ==
  /\ \A v \in Jsons, t \in SpecTypes : FromJsonCall(v, t) = FromJson(v, t)
  /\ \A x \in Texts, t \in SpecTypes : FromStringCall(x, t) = FromString(x, t)

(* The keys that maps and structs may have.                                   *)
KeyTypes == {t.key : t \in {t \in SpecTypes : t.t = "map"}}
Readings == UNION {{FromString(x, t) : x \in Texts} : t \in KeyTypes}
ReadKeys == {r.v : r \in {r \in Readings : r.is = "ok"}}
FieldKeys ==
  UNION {{Field(Spec[n].fields[i].name) : i \in DOMAIN Spec[n].fields} :
           n \in {n \in DOMAIN Spec : Spec[n].kind = "struct"}}

ASSUME KeysAssumption ==
  LET Keys == ReadKeys \cup FieldKeys
  IN  /\ \A k \in Keys : ~ KeyLess(k, k)
      /\ \A k, l \in Keys : KeyLess(k, l) \/ KeyLess(l, k) \/ k = l
      /\ \A k, l, m \in Keys : KeyLess(k, l) /\ KeyLess(l, m) => KeyLess(k, m)

=============================================================================

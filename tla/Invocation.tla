----------------------------- MODULE Invocation ------------------------------
(* What the arguments of an invocation are to the contract.                   *)
EXTENDS InvokeArgs

CONSTANTS FitsCall(_, _), ProperCall(_, _)

(* The keys of a map ascend strictly.                                         *)
Ascending(m) == \A i \in 2 .. Len(m) : KeyLess(m[i - 1].key, m[i].key)

FieldTypes(e) == [i \in DOMAIN e.fields |-> e.fields[i].type]
CaseTypes(case) == IF case.tuple THEN case.types ELSE <<>>

(* A vector of one value for each type.                                       *)
FitsEach(vals, types) == Len(vals) = Len(types) /\ \A i \in DOMAIN types : FitsCall(vals[i], types[i])

(* A struct is the map of all of its fields, or, without names, their vector. *)
FitsStruct(v, e) ==
  IF IsTuple(e) THEN v.sc = "vec" /\ FitsEach(v.v, FieldTypes(e))
  ELSE /\ v.sc = "map" /\ Len(v.m) = Len(e.fields) /\ Ascending(v.m)
       /\ \A i \in DOMAIN v.m : \E f \in DOMAIN e.fields :
            v.m[i].key = Field(e.fields[f].name) /\ FitsCall(v.m[i].val, e.fields[f].type)

(* A union is the name of a case before a value of each of its types.         *)
FitsUnion(v, cases) ==
  /\ v.sc = "vec" /\ v.v # <<>>
  /\ \E c \in DOMAIN cases :
       v.v[1] = Field(cases[c].name) /\ FitsEach(Tail(v.v), CaseTypes(cases[c]))

FitsUdt(v, e) ==
  /\ e.kind = "struct" => FitsStruct(v, e)
  /\ e.kind = "union" => FitsUnion(v, e.cases)
  /\ e.kind = "enum" => v.sc = "u32" /\ v.n \in Width("u32") \cap e.values

Composite == {"bytesn", "option", "vec", "tuple", "map", "udt"}

(* Whether a value is one of a type.                                          *)
Fits(v, t) ==
  /\ t.t \notin Composite => v.sc = t.t
  /\ t.t \in Ints => v.n \in Width(t.t)
  /\ t.t = "bytesn" => v.sc = "bytes" /\ Len(v.h) = 2 * t.n
  /\ t.t = "option" => v = Void \/ FitsCall(v, t.of)
  /\ t.t = "vec" => v.sc = "vec" /\ \A i \in DOMAIN v.v : FitsCall(v.v[i], t.of)
  /\ t.t = "tuple" => v.sc = "vec" /\ FitsEach(v.v, t.types)
  /\ t.t = "map" => /\ v.sc = "map" /\ Ascending(v.m)
                    /\ \A i \in DOMAIN v.m : FitsCall(v.m[i].key, t.key) /\ FitsCall(v.m[i].val, t.val)
  /\ t.t = "udt" => t.name \in DOMAIN Spec /\ FitsUdt(v, Spec[t.name])

-----------------------------------------------------------------------------
(* The reader takes four kinds of JSON for values of another type: items that *)
(* are too few (it pairs them with the fields of a struct, or the types of a  *)
(* union's case, as far as both go), an array for a struct with named fields, *)
(* bytes in another number or an address for BytesN, and the JSON of an ScVal *)
(* where the type has no other use for it.  JSON is proper when it has none.  *)

ProperEach(a, types) == Len(a) >= Len(types) /\ \A i \in DOMAIN types : ProperCall(a[i], types[i])

ProperStruct(v, e) ==
  /\ v.j = "arr" => IsTuple(e) /\ ProperEach(v.a, FieldTypes(e))
  /\ v.j = "obj" /\ IsTuple(e) /\ Items(v.o).is = "ok" => ProperEach(Items(v.o).v, FieldTypes(e))
  /\ v.j = "obj" /\ ~ IsTuple(e) =>
       \A i \in DOMAIN e.fields :
         Bare(e.fields[i].name) \in DOMAIN v.o => ProperCall(v.o[Bare(e.fields[i].name)], e.fields[i].type)

ProperCase(u, types) ==
  IF Len(types) = 1 THEN ProperCall(u, types[1]) ELSE u.j = "arr" /\ ProperEach(u.a, types)

ProperUnion(v, cases) ==
  \A c \in DOMAIN cases : cases[c].tuple =>
    LET name == Bare(cases[c].name)
    IN  /\ v.j = "str" => v.s # name
        /\ v.j = "obj" /\ name \in DOMAIN v.o /\ UnionRest(v.o[name]).is = "ok" =>
             ProperCase(UnionRest(v.o[name]).v, cases[c].types)

(* The types that have a use for a string or an object.                       *)
FromStr == Words \cup Wide \cup {"bytes", "bytesn", "address"}
Taken(v, t) ==
  t.t \in {"option", "udt"} \/ (v.j = "str" /\ t.t \in FromStr) \/ (v.j = "obj" /\ t.t = "map")

(* What a text is read as: a text that is not JSON stands for itself.         *)
ReadAs(x) == IF Reads(x) = NotJson THEN Str(x) ELSE Reads(x)

Proper(v, t) ==
  /\ v \in DOMAIN RawScVals => Taken(v, t)
  /\ t.t = "bytesn" /\ v.j = "arr" => Len(v.a) = t.n
  /\ t.t = "bytesn" /\ v.j \in {"num", "str"} => AddressFromJson(AsText(v)) = Err
  /\ t.t = "option" => ProperCall(v, t.of)
  /\ t.t = "vec" /\ v.j = "arr" => \A i \in DOMAIN v.a : ProperCall(v.a[i], t.of)
  /\ t.t = "tuple" /\ v.j = "arr" =>
       \A i \in DOMAIN v.a \cap DOMAIN t.types : ProperCall(v.a[i], t.types[i])
  /\ t.t = "map" /\ v.j = "obj" =>
       \A k \in DOMAIN v.o : ProperCall(ReadAs(k), t.key) /\ ProperCall(v.o[k], t.val)
  /\ t.t = "udt" /\ t.name \in DOMAIN Spec =>
       /\ Spec[t.name].kind = "struct" => ProperStruct(v, Spec[t.name])
       /\ Spec[t.name].kind = "union" => ProperUnion(v, Spec[t.name].cases)

ASSUME FitsAssumption ==
  /\ \A v \in Jsons, t \in SpecTypes : ProperCall(v, t) = Proper(v, t)
  /\ \A v \in Jsons, t \in SpecTypes :
       LET r == FromJson(v, t) IN r.is = "ok" => FitsCall(r.v, t) = Fits(r.v, t)
  /\ \A x \in Texts, t \in SpecTypes :
       LET r == FromString(x, t) IN r.is = "ok" => FitsCall(r.v, t) = Fits(r.v, t)

(* What is given for an input has none of these; bytes in a file have the     *)
(* number of their type.                                                      *)
ProperArg(i) ==
  LET t == Types(fn)[i]
      text == line[i].text
  IN  /\ line[i].as = "typed" => Proper(ReadAs(Trim(text)), t)
      /\ line[i].as = "file" /\ t.t \notin {"bytes", "bytesn"} => Proper(ReadAs(text), t)
      /\ line[i].as = "file" /\ t.t = "bytesn" => Len(FileBytes(text)) = 2 * t.n

(* An argument that the command line reader accepts is a value of the type    *)
(* the contract's spec declares for that input, nested values included: what  *)
(* the host decodes never has another shape, width, field or order of keys,   *)
(* whatever the user gives that is proper.                                    *)
ArgsTyped == \A i \in DOMAIN args : ProperArg(i) => Fits(args[i], Types(fn)[i])

-----------------------------------------------------------------------------
(* The types whose printed values are read back, and their values.            *)

CONSTANTS
  BackTypes,  \* those types: nested, and in files without the ones FileTypes leaves out
  Size        \* their values, each with a rank above that of its parts

Unwrapped(t) == IF t.t = "option" THEN t.of ELSE t

(* An option in an option prints its absence like that of the other; a map in *)
(* a union of one value may be taken for an array (UnionRest), and a wide     *)
(* integer as a key is printed in quotation marks that it is read with.       *)
BackUdt(e) ==
  /\ e.kind \in {"struct", "union", "enum"}
  /\ e.kind = "struct" => \A i \in DOMAIN e.fields : e.fields[i].type \in BackTypes
  /\ e.kind = "union" =>
       /\ \A c, d \in DOMAIN e.cases : e.cases[c].name = e.cases[d].name => c = d
       /\ \A c \in DOMAIN e.cases :
            /\ e.cases[c].name # "0"
            /\ e.cases[c].tuple <=> e.cases[c].types # <<>>
            /\ \A i \in DOMAIN e.cases[c].types : e.cases[c].types[i] \in BackTypes
            /\ Len(e.cases[c].types) = 1 => Unwrapped(e.cases[c].types[1]).t # "map"

BackType(t) ==
  /\ t \in SpecTypes /\ t.t \in Primitives \cup {"option", "vec", "tuple", "map", "udt"}
  /\ t.t = "option" => t.of \in BackTypes /\ t.of.t # "option"
  /\ t.t = "vec" => t.of \in BackTypes
  /\ t.t = "tuple" => \A i \in DOMAIN t.types : t.types[i] \in BackTypes
  /\ t.t = "map" => t.key \in BackTypes /\ t.val \in BackTypes /\ t.key.t \notin Wide \cup {"option"}
  /\ t.t = "udt" => t.name \in DOMAIN Spec /\ BackUdt(Spec[t.name])

(* The parts of values are values of their types, and smaller.                *)
PartOf(x, t, v) == x \in ValuesOf(t) /\ x \in DOMAIN Size /\ Size[x] < Size[v]

Parts(s, types, v) ==
  s \in Seq(DOMAIN Size) /\ Len(s) = Len(types) /\ \A i \in DOMAIN s : PartOf(s[i], types[i], v)

Entries(v) ==
  v = [sc |-> "map", m |-> v.m] /\ Ascending(v.m)
    /\ v.m \in Seq({[key |-> v.m[i].key, val |-> v.m[i].val] : i \in DOMAIN v.m})

UdtValue(v, e) ==
  /\ e.kind = "struct" /\ IsTuple(e) => v = VecVal(v.v) /\ Parts(v.v, FieldTypes(e), v)
  /\ e.kind = "struct" /\ ~ IsTuple(e) =>
       /\ Entries(v) /\ Len(v.m) = Len(e.fields)
       /\ \A i \in DOMAIN v.m :
            v.m[i].key = Field(e.fields[i].name) /\ PartOf(v.m[i].val, e.fields[i].type, v)
  /\ e.kind = "union" =>
       \E c \in DOMAIN e.cases :
         /\ v = VecVal(<<Field(e.cases[c].name)>> \o Tail(v.v))
         /\ Parts(Tail(v.v), e.cases[c].types, v)
  /\ e.kind = "enum" => v = [sc |-> "u32", n |-> v.n] /\ v.n \in Width("u32") \cap e.values

ValueOf(v, t) ==
  /\ t.t \in Ints => v = [sc |-> t.t, n |-> v.n] /\ v.n \in Width(t.t)
  /\ t.t = "bool" => v \in {[sc |-> "bool", b |-> b] : b \in BOOLEAN}
  /\ t.t \in Words => v = [sc |-> t.t, s |-> v.s]
  /\ t.t = "address" => v \in {[sc |-> "address", s |-> Bare(w)] : w \in DOMAIN Strkeys}
  /\ t.t \in {"bytes", "bytesn"} =>
       /\ v \in {[sc |-> "bytes", h |-> HexDigits[w]] : w \in DOMAIN HexDigits}
       /\ IF t.t = "bytes" THEN Len(v.h) % 2 = 0 ELSE Len(v.h) = 2 * t.n
  /\ t.t = "option" => v = Void \/ v \in ValuesOf(t.of)
  /\ t.t = "vec" => /\ v = VecVal(v.v) /\ v.v \in Seq(DOMAIN Size)
                    /\ \A i \in DOMAIN v.v : PartOf(v.v[i], t.of, v)
  /\ t.t = "tuple" => v = VecVal(v.v) /\ Parts(v.v, t.types, v)
  /\ t.t = "map" => Entries(v) /\ \A i \in DOMAIN v.m : PartOf(v.m[i].key, t.key, v) /\ PartOf(v.m[i].val, t.val, v)
  /\ t.t = "udt" => UdtValue(v, Spec[t.name])

ASSUME BackAssumption ==
  /\ Size \in [DOMAIN Size -> Nat]
  /\ \A t \in BackTypes :
       /\ BackType(t)
       /\ \A v \in ValuesOf(t) :
            /\ v \in DOMAIN Size /\ ValueOf(v, t)
            /\ XdrToJsonCall(v, t) = XdrToJson(v, t)
            /\ LET r == XdrToJson(v, t) IN r.is = "ok" => r.v \in Jsons /\ Writes(r.v) \in Texts

(* In a file, the text of a wide integer is read with its quotation marks;    *)
(* bytes are those of the file; an option and a bool are not read from files. *)
FileTypes == {t \in BackTypes : t.t \notin Wide \cup {"bytes", "bytesn", "bool", "option"}}

(* What the tool printed for a value, given back in a file, is read as that   *)
(* value: it is neither refused nor changed, whatever becomes of the call.    *)
BackFromFile ==
  \A i \in DOMAIN line :
    line[i].as = "file" /\ replay[i] # None /\ Types(fn)[i] \in FileTypes =>
      /\ pc # "parse" => i \in DOMAIN args
      /\ i \in DOMAIN args => args[i] = replay[i]

=============================================================================

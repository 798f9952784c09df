--------------------------- MODULE InvocationProofs ---------------------------
(* What the arguments of an invocation are and who signs it, for every        *)
(* contract and every command line.                                           *)
(*                                                                            *)
(* The conversions of SpecTools call each other over the parts of a value and *)
(* of a type.  That what they accept fits the type is shown by induction over *)
(* the height of the JSON, and for one value over the options of the type:    *)
(* Least gives a value of least height that does not fit, JsonStep refutes it.*)
EXTENDS Invocation, FiniteSetTheorems, TLAPS


LEMMA SetToSeqDomain ==
  ASSUME NEW S, IsFiniteSet(S)
  PROVE  /\ Cardinality(S) \in Nat
         /\ DOMAIN SetToSeq(S) = 1 .. Cardinality(S)
         /\ \A i \in DOMAIN SetToSeq(S) : SetToSeq(S)[i] \in S
<1>1. Cardinality(S) \in Nat /\ ExistsBijection(1 .. Cardinality(S), S)
  BY FS_CardinalityType
<1>2. PICK f \in Bijection(1 .. Cardinality(S), S) : TRUE
  BY <1>1 DEF ExistsBijection
<1>3. f \in [1 .. Cardinality(S) -> S] /\ IsInjective(f)
  BY <1>2 DEF Bijection, Injection, IsInjective
<1>4. SetToSeq(S) \in [1 .. Cardinality(S) -> S]
  BY <1>3 DEF SetToSeq
<1> QED
  BY <1>1, <1>4

(* A set of naturals that is not empty has a least one.                       *)
LEMMA Least ==
  ASSUME NEW S, S \subseteq Nat, S # {}
  PROVE  \E m \in S : \A y \in S : m <= y
<1>1. PICK m \in S : \A y \in S : ~ (<<y, m>> \in OpToRel(<, Nat))
  BY NatLessThanWellFounded, WFMin
<1>2. \A y \in S : ~ (y < m)
  BY <1>1 DEF OpToRel
<1> QED
  BY <1>2

(* collect: when it is Ok, so is everything, and it has all the values.       *)
LEMMA Collected ==
  ASSUME NEW rs, DOMAIN rs \subseteq Nat, Collect(rs).is = "ok"
  PROVE  /\ \A i \in DOMAIN rs : rs[i].is = "ok"
         /\ Collect(rs).v = [i \in DOMAIN rs |-> rs[i].v]
<1> DEFINE bad == {i \in DOMAIN rs : rs[i].is # "ok"}
<1>1. CASE bad = {}
  BY <1>1 DEF Collect, Ok
<1>2. CASE bad # {}
  <2>1. \E i \in bad : \A k \in bad : i <= k
    BY <1>2, Least
  <2> DEFINE i == CHOOSE i \in bad : \A k \in bad : i <= k
  <2>2. i \in bad
    BY <2>1
  <2>3. Collect(rs) = rs[i]
    BY <1>2 DEF Collect
  <2> HIDE DEF i
  <2> QED
    BY <2>2, <2>3
<1> QED
  BY <1>1, <1>2

(* The keys of entries, and that they are ordered.                            *)
Ordered(Keys) ==
  /\ \A k \in Keys : ~ KeyLess(k, k)
  /\ \A k, l \in Keys : KeyLess(k, l) \/ KeyLess(l, k) \/ k = l
  /\ \A k, l, m \in Keys : KeyLess(k, l) /\ KeyLess(l, m) => KeyLess(k, m)

(* InOrder is a rearrangement of entries with different keys, ascending.      *)
LEMMA InOrderAscends ==
  ASSUME NEW n \in Nat, NEW entries, DOMAIN entries = 1 .. n,
         NEW Keys, Ordered(Keys),
         \A i \in 1 .. n : entries[i].key \in Keys,
         \A i, k \in 1 .. n : entries[i].key = entries[k].key => i = k
  PROVE  /\ DOMAIN InOrder(entries) = 1 .. n
         /\ \A i \in 1 .. n : \E k \in 1 .. n : InOrder(entries)[i] = entries[k]
         /\ \A i \in 2 .. n : KeyLess(InOrder(entries)[i - 1].key, InOrder(entries)[i].key)
<1> DEFINE before(k) == {l \in 1 .. n : KeyLess(entries[l].key, entries[k].key)}
           place(k) == Cardinality(before(k)) + 1
           at(i) == CHOOSE k \in DOMAIN entries :
                      Cardinality({l \in DOMAIN entries : KeyLess(entries[l].key, entries[k].key)}) = i - 1
<1>f. IsFiniteSet(1 .. n) /\ Cardinality(1 .. n) = n
  BY FS_Interval
<1>1. \A k \in 1 .. n : /\ IsFiniteSet(before(k)) /\ Cardinality(before(k)) \in Nat
                        /\ Cardinality(before(k)) < n
  <2> SUFFICES ASSUME NEW k \in 1 .. n
               PROVE  /\ IsFiniteSet(before(k)) /\ Cardinality(before(k)) \in Nat
                      /\ Cardinality(before(k)) < n
    OBVIOUS
  <2>1. before(k) \in SUBSET (1 .. n)
    OBVIOUS
  <2>2. k \notin before(k)
    BY DEF Ordered
  <2>3. before(k) # 1 .. n
    BY <2>2
  <2> HIDE DEF before
  <2>4. /\ IsFiniteSet(before(k)) /\ Cardinality(before(k)) <= Cardinality(1 .. n)
        /\ Cardinality(1 .. n) = Cardinality(before(k)) => 1 .. n = before(k)
    BY <1>f, <2>1, FS_Subset
  <2>5. Cardinality(before(k)) \in Nat
    BY <2>4, FS_CardinalityType
  <2> QED
    BY <1>f, <2>3, <2>4, <2>5
<1>2. \A k, l \in 1 .. n : KeyLess(entries[k].key, entries[l].key) =>
        Cardinality(before(k)) < Cardinality(before(l))
  <2> SUFFICES ASSUME NEW k \in 1 .. n, NEW l \in 1 .. n, KeyLess(entries[k].key, entries[l].key)
               PROVE  Cardinality(before(k)) < Cardinality(before(l))
    OBVIOUS
  <2>1. before(k) \in SUBSET before(l)
    BY DEF Ordered
  <2>2. k \in before(l) /\ k \notin before(k)
    BY DEF Ordered
  <2>3. before(k) # before(l)
    BY <2>2
  <2>4. /\ IsFiniteSet(before(l)) /\ Cardinality(before(k)) \in Nat /\ Cardinality(before(l)) \in Nat
    BY <1>1
  <2> HIDE DEF before
  <2>5. /\ Cardinality(before(k)) <= Cardinality(before(l))
        /\ Cardinality(before(l)) = Cardinality(before(k)) => before(l) = before(k)
    BY <2>1, <2>4, FS_Subset
  <2> QED
    BY <2>3, <2>4, <2>5
<1>3. \A k, l \in 1 .. n : Cardinality(before(k)) = Cardinality(before(l)) => k = l
  <2> SUFFICES ASSUME NEW k \in 1 .. n, NEW l \in 1 .. n,
                      Cardinality(before(k)) = Cardinality(before(l)), k # l
               PROVE  FALSE
    OBVIOUS
  <2>1. entries[k].key # entries[l].key
    OBVIOUS
  <2>2. KeyLess(entries[k].key, entries[l].key) \/ KeyLess(entries[l].key, entries[k].key)
    BY <2>1 DEF Ordered
  <2>3. Cardinality(before(k)) < Cardinality(before(l)) \/ Cardinality(before(l)) < Cardinality(before(k))
    BY <1>2, <2>2
  <2>4. Cardinality(before(k)) \in Nat /\ Cardinality(before(l)) \in Nat
    BY <1>1
  <2> HIDE DEF before
  <2> QED
    BY <2>3, <2>4
<1> DEFINE p == [k \in 1 .. n |-> place(k)]
<1>4. p \in Surjection(1 .. n, 1 .. n)
  <2>1. \A k \in 1 .. n : p[k] \in 1 .. n
    <3> SUFFICES ASSUME NEW k \in 1 .. n PROVE Cardinality(before(k)) + 1 \in 1 .. n
      OBVIOUS
    <3>1. Cardinality(before(k)) \in Nat /\ Cardinality(before(k)) < n
      BY <1>1
    <3> HIDE DEF before
    <3> QED
      BY <3>1
  <2>2. \A k, l \in 1 .. n : p[k] = p[l] => k = l
    <3> SUFFICES ASSUME NEW k \in 1 .. n, NEW l \in 1 .. n, p[k] = p[l] PROVE k = l
      OBVIOUS
    <3>1. Cardinality(before(k)) \in Nat /\ Cardinality(before(l)) \in Nat
      BY <1>1
    <3>2. Cardinality(before(k)) + 1 = Cardinality(before(l)) + 1
      OBVIOUS
    <3>3. Cardinality(before(k)) = Cardinality(before(l))
      <4> HIDE DEF before
      <4> QED
        BY <3>1, <3>2
    <3> QED
      BY <1>3, <3>3
  <2>3. p \in [1 .. n -> 1 .. n]
    BY <2>1
  <2> HIDE DEF p
  <2>4. p \in Injection(1 .. n, 1 .. n)
    BY <2>2, <2>3 DEF Injection, IsInjective
  <2> QED
    BY <1>f, <2>4, FS_Injection
<1>5. \A i \in 1 .. n : at(i) \in 1 .. n /\ Cardinality(before(at(i))) = i - 1
  <2> SUFFICES ASSUME NEW i \in 1 .. n
               PROVE  at(i) \in 1 .. n /\ Cardinality(before(at(i))) = i - 1
    OBVIOUS
  <2>1. \E k \in 1 .. n : p[k] = i
    <3> HIDE DEF p
    <3> QED
      BY <1>4 DEF Surjection
  <2>2. PICK k \in 1 .. n : Cardinality(before(k)) + 1 = i
    BY <2>1
  <2>3. Cardinality(before(k)) \in Nat
    BY <1>1
  <2>4. Cardinality(before(k)) = i - 1
    <3> HIDE DEF before
    <3> QED
      BY <2>2, <2>3
  <2>5. \E x \in DOMAIN entries :
          Cardinality({l \in DOMAIN entries : KeyLess(entries[l].key, entries[x].key)}) = i - 1
    BY <2>4
  <2> QED
    BY <2>5
<1>6. InOrder(entries) = [i \in 1 .. n |-> entries[at(i)]]
  BY DEF InOrder
<1> HIDE DEF at
<1>7. \A i \in 2 .. n : KeyLess(entries[at(i - 1)].key, entries[at(i)].key)
  <2> SUFFICES ASSUME NEW i \in 2 .. n PROVE KeyLess(entries[at(i - 1)].key, entries[at(i)].key)
    OBVIOUS
  <2> DEFINE a == at(i - 1)
             b == at(i)
  <2>1. /\ a \in 1 .. n /\ Cardinality(before(a)) = i - 2
        /\ b \in 1 .. n /\ Cardinality(before(b)) = i - 1
    <3>1. i - 1 \in 1 .. n /\ i \in 1 .. n /\ (i - 1) - 1 = i - 2
      OBVIOUS
    <3> HIDE DEF before
    <3> QED
      BY <1>5, <3>1
  <2> HIDE DEF a, b
  <2>2. SUFFICES ASSUME ~ KeyLess(entries[a].key, entries[b].key) PROVE FALSE
    BY DEF a, b
  <2>3. KeyLess(entries[b].key, entries[a].key) \/ entries[a].key = entries[b].key
    BY <2>1, <2>2 DEF Ordered
  <2>4. Cardinality(before(b)) < Cardinality(before(a)) \/ a = b
    BY <1>2, <2>1, <2>3
  <2> HIDE DEF before
  <2> QED
    BY <2>1, <2>4
<1>8. \A i \in 1 .. n : at(i) \in 1 .. n
  BY <1>5
<1> HIDE DEF before
<1>9. \A i \in 2 .. n : i - 1 \in 1 .. n /\ i \in 1 .. n
  OBVIOUS
<1> QED
  BY <1>6, <1>7, <1>8, <1>9

(* ScMap::sorted_from: a map of all the entries, its keys ascending.          *)
LEMMA Sorted ==
  ASSUME NEW n \in Nat, NEW S, NEW entries \in [1 .. n -> S],
         NEW Keys, Ordered(Keys), \A i \in 1 .. n : entries[i].key \in Keys,
         SortedFrom(entries).is = "ok"
  PROVE  LET r == SortedFrom(entries).v
         IN  /\ r.sc = "map" /\ DOMAIN r.m = 1 .. n /\ Len(r.m) = n /\ Ascending(r.m)
             /\ \A i \in 1 .. n : \E k \in 1 .. n : r.m[i] = entries[k]
<1> DEFINE keys == {entries[i].key : i \in 1 .. n}
           f == [i \in 1 .. n |-> entries[i].key]
<1>1. DOMAIN entries = 1 .. n /\ Len(entries) = n
  <2>1. entries \in Seq(S)
    OBVIOUS
  <2> QED
    BY <2>1
<1>2. /\ ~ (Cardinality(keys) < n)
      /\ SortedFrom(entries) = Ok([sc |-> "map", m |-> InOrder(entries)])
  BY <1>1 DEF SortedFrom, Err
<1>3. f \in Surjection(1 .. n, keys)
  <2>1. f \in [1 .. n -> keys] /\ \A k \in keys : \E i \in 1 .. n : f[i] = k
    OBVIOUS
  <2> HIDE DEF f, keys
  <2> QED
    BY <2>1 DEF Surjection
<1>4. IsFiniteSet(1 .. n) /\ Cardinality(1 .. n) = n
  BY FS_Interval
<1>5. f \in Injection(1 .. n, keys)
  <2> HIDE DEF f, keys
  <2>1. /\ IsFiniteSet(keys) /\ Cardinality(keys) <= n
        /\ Cardinality(keys) = n <=> f \in Injection(1 .. n, keys)
    BY <1>3, <1>4, FS_Surjection
  <2>2. Cardinality(keys) \in Nat
    BY <2>1, FS_CardinalityType
  <2> QED
    BY <1>2, <2>1, <2>2
<1>6. \A i, k \in 1 .. n : entries[i].key = entries[k].key => i = k
  <2>1. \A i, k \in 1 .. n : f[i] = f[k] => i = k
    <3> HIDE DEF f, keys
    <3>1. f \in [1 .. n -> keys] /\ IsInjective(f)
      BY <1>5 DEF Injection
    <3> QED
      BY <3>1 DEF IsInjective
  <2> QED
    BY <2>1
<1> DEFINE m == InOrder(entries)
<1>7. /\ DOMAIN m = 1 .. n
      /\ \A i \in 1 .. n : \E k \in 1 .. n : m[i] = entries[k]
      /\ \A i \in 2 .. n : KeyLess(m[i - 1].key, m[i].key)
  BY <1>1, <1>6, InOrderAscends
<1>8. m \in [1 .. n -> S]
  <2>1. m = [i \in DOMAIN m |-> m[i]]
    BY <1>1 DEF InOrder
  <2> HIDE DEF m
  <2> QED
    BY <1>7, <2>1
<1>9. Len(m) = n
  <2> HIDE DEF m
  <2>1. m \in Seq(S)
    BY <1>8
  <2> QED
    BY <1>8, <2>1
<1>10. SortedFrom(entries).v = [sc |-> "map", m |-> m]
  BY <1>2 DEF Ok
<1> HIDE DEF m
<1>11. Ascending(m)
  BY <1>7, <1>9 DEF Ascending
<1> QED
  BY <1>7, <1>9, <1>10, <1>11

(* The bytes of padded hex digits, and of pairs of digits.                    *)
LEMMA PaddedLength ==
  ASSUME NEW text, NEW n \in Nat, PaddedHex(text, n).is = "ok"
  PROVE  PaddedHex(text, n).v.sc = "bytes" /\ Len(PaddedHex(text, n).v.h) = 2 * n
<1> DEFINE h == CHOOSE h \in Hex(text) : TRUE
           zeros == [i \in 1 .. (n * 2 - Len(h)) |-> 0]
<1>1. PICK g \in Hex(text) : Len(g) <= n * 2
  BY DEF PaddedHex, Err
<1>2. PaddedHex(text, n).v = [sc |-> "bytes", h |-> zeros \o h]
  BY <1>1 DEF PaddedHex, Ok
<1>3. PICK w \in DOMAIN HexDigits : Hex(text) = {HexDigits[w]}
  BY <1>1 DEF Hex
<1>4. h = g
  BY <1>1, <1>3
<1>5. h \in Seq(0 .. 15)
  BY <1>1, <1>3, <1>4, WordsAssumption
<1> HIDE DEF h
<1>6. Len(h) \in Nat /\ n * 2 - Len(h) \in Nat
  BY <1>1, <1>4, <1>5
<1> DEFINE m == n * 2 - Len(h)
<1>7. zeros \in Seq(0 .. 15) /\ Len(zeros) = m
  <2> HIDE DEF m
  <2>1. m \in Nat /\ zeros = [i \in 1 .. m |-> 0]
    BY <1>6 DEF m
  <2> HIDE DEF zeros
  <2>2. zeros \in [1 .. m -> 0 .. 15]
    BY <2>1
  <2> QED
    BY <2>1, <2>2
<1> HIDE DEF zeros
<1>8. Len(zeros \o h) = m + Len(h)
  BY <1>5, <1>7
<1> QED
  BY <1>2, <1>6, <1>8

LEMMA PairsLength ==
  ASSUME NEW bs, Len(bs) \in Nat
  PROVE  Len(OfPairs(bs)) = 2 * Len(bs)
<1> DEFINE n == 2 * Len(bs)
           at(k) == bs[(k + 1) \div 2][2 - (k % 2)]
           S == {at(k) : k \in 1 .. n}
<1>1. OfPairs(bs) = [k \in 1 .. n |-> at(k)] /\ n \in Nat
  BY DEF OfPairs
<1> HIDE DEF at, n
<1>2. OfPairs(bs) \in [1 .. n -> S]
  BY <1>1
<1> HIDE DEF S
<1>3. OfPairs(bs) \in Seq(S)
  BY <1>1, <1>2
<1> QED
  BY <1>1, <1>2, <1>3 DEF n

(* What bytes are read from: a text, or the numbers of the bytes.             *)
ByteOf(x) ==
  IF x.j = "num" /\ ~ IsFloat(x.n) /\ x.n \in 0 .. 255 THEN Ok(<<x.n \div 16, x.n % 16>>) ELSE Err

LEMMA ReadHex ==
  ASSUME NEW v, NEW t, t.t \in {"bytes", "bytesn"}, v.j \in {"num", "str"}
  PROVE  FromJsonPrimitives(v, t) =
           IF t.t = "bytes" THEN HexDecode(AsText(v))
           ELSE IF t.n = AddressBytes /\ AddressFromJson(AsText(v)).is = "ok"
                THEN AddressFromJson(AsText(v)) ELSE PaddedHex(AsText(v), t.n)
<1>1. /\ t.t # "bool" /\ t.t # "address" /\ t.t \notin Wide /\ t.t \notin Words
      /\ t.t \notin Ints \ Wide
  BY DEF Ints, Wide, Words
<1> QED
  BY <1>1 DEF FromJsonPrimitives

LEMMA ReadNumbers ==
  ASSUME NEW v, NEW t, t.t \in {"bytes", "bytesn"}, v.j = "arr",
         FromJsonPrimitives(v, t).is = "ok"
  PROVE  LET q == Collect([i \in DOMAIN v.a |-> ByteOf(v.a[i])])
         IN  q.is = "ok" /\ FromJsonPrimitives(v, t).v = [sc |-> "bytes", h |-> OfPairs(q.v)]
<1> DEFINE q == Collect([i \in DOMAIN v.a |-> ByteOf(v.a[i])])
<1>1. /\ t.t # "bool" /\ t.t # "address" /\ t.t \notin Wide /\ t.t \notin Words
      /\ t.t \notin Ints \ Wide /\ v.j \notin {"num", "str"}
  BY DEF Ints, Wide, Words
<1>2. FromJsonPrimitives(v, t) = Then(q, LAMBDA bs : [sc |-> "bytes", h |-> OfPairs(bs)])
  BY <1>1 DEF FromJsonPrimitives, ByteOf
<1> QED
  BY <1>2 DEF Then, Ok

(* What is read as a primitive.                                               *)
LEMMA PrimitivesFit ==
  ASSUME NEW v \in Jsons, NEW t \in SpecTypes, t.t \in Primitives, Proper(v, t),
         FromJsonPrimitives(v, t).is = "ok"
  PROVE  Fits(FromJsonPrimitives(v, t).v, t)
<1> DEFINE r == FromJsonPrimitives(v, t)
<1> USE DEF Primitives, Ints, Words, Wide, Composite
<1>0. v \notin DOMAIN RawScVals \/ (v.j = "str" /\ t.t \in FromStr)
  BY DEF Proper, Taken
<1>1. CASE t.t = "bool"
  <2>1. v.j = "bool" /\ r = Ok([sc |-> "bool", b |-> v.b])
    BY <1>0, <1>1 DEF FromJsonPrimitives, FromValue, Err, FromStr
  <2> QED
    BY <1>1, <2>1 DEF Fits, Ok
<1>2. CASE t.t \in Ints
  <2>1. PICK ns : r = InRange(ns, t.t)
    BY <1>0, <1>2 DEF FromJsonPrimitives, FromValue, Err, FromStr
  <2>2. PICK n \in ns : n \in Width(t.t)
    BY <2>1 DEF InRange, Err
  <2> DEFINE c == CHOOSE m \in ns : m \in Width(t.t)
  <2>3. c \in Width(t.t)
    BY <2>2
  <2>4. r = Ok([sc |-> t.t, n |-> c])
    BY <2>1, <2>2 DEF InRange
  <2> HIDE DEF c
  <2>5. r.v.sc = t.t /\ r.v.n \in Width(t.t)
    BY <2>3, <2>4 DEF Ok
  <2> HIDE DEF r
  <2>6. t.t \notin Composite
    BY <1>2
  <2>7. Fits(r.v, t)
    BY <2>5, <2>6 DEF Fits
  <2> QED
    BY <2>7 DEF r
<1>3. CASE t.t \in Words
  <2>1. r = Ok([sc |-> t.t, s |-> v.s])
    BY <1>0, <1>3 DEF FromJsonPrimitives, FromValue, Err, FromStr
  <2> QED
    BY <1>3, <2>1 DEF Fits, Ok
<1>4. CASE t.t = "address"
  <2>1. r = AddressFromJson(v.s)
    BY <1>0, <1>4 DEF FromJsonPrimitives, FromValue, Err, FromStr
  <2>2. r.v.sc = "address"
    BY <2>1 DEF AddressFromJson, Ok, Err
  <2> QED
    BY <1>4, <2>2 DEF Fits
<1>5. CASE t.t \in {"bytes", "bytesn"} /\ v.j \in {"num", "str"}
  <2> DEFINE text == AsText(v)
  <2>1. CASE t.t = "bytes"
    <3>1. r = HexDecode(text)
      BY <1>5, <2>1, ReadHex
    <3>2. r.v.sc = "bytes"
      BY <3>1 DEF HexDecode, Ok, Err
    <3> QED
      BY <2>1, <3>2 DEF Fits
  <2>2. CASE t.t = "bytesn"
    <3>1. AddressFromJson(text) = Err
      BY <1>5, <2>2 DEF Proper
    <3>0. r = IF t.t = "bytes" THEN HexDecode(text)
              ELSE IF t.n = AddressBytes /\ AddressFromJson(text).is = "ok"
                   THEN AddressFromJson(text) ELSE PaddedHex(text, t.n)
      BY <1>5, ReadHex
    <3>2. r = PaddedHex(text, t.n)
      BY <2>2, <3>0, <3>1 DEF Err
    <3>n. t.n \in Nat
      BY <2>2, TypesAssumption
    <3>3. r.v.sc = "bytes" /\ Len(r.v.h) = 2 * t.n
      BY <3>2, <3>n, PaddedLength
    <3> HIDE DEF r
    <3>4. Fits(r.v, t)
      BY <2>2, <3>3 DEF Fits
    <3> QED
      BY <3>4 DEF r
  <2> QED
    BY <1>5, <2>1, <2>2
<1>6. CASE t.t \in {"bytes", "bytesn"} /\ v.j = "arr"
  <2> DEFINE rs == [i \in DOMAIN v.a |-> ByteOf(v.a[i])]
             q == Collect(rs)
  <2>2. q.is = "ok" /\ r.v = [sc |-> "bytes", h |-> OfPairs(q.v)]
    BY <1>6, ReadNumbers
  <2>3. v.a \in Seq(Jsons)
    BY <1>6, JsonsAssumption
  <2>4. DOMAIN rs = 1 .. Len(v.a) /\ Len(v.a) \in Nat
    BY <2>3
  <2>5. DOMAIN rs \subseteq Nat
    BY <2>4
  <2> HIDE DEF rs
  <2>6. q.v = [i \in 1 .. Len(v.a) |-> rs[i].v]
    BY <2>2, <2>4, <2>5, Collected
  <2> DEFINE bs == q.v
             n == Len(v.a)
             S == {rs[i].v : i \in 1 .. n}
  <2>7. bs \in [1 .. n -> S]
    BY <2>6
  <2> HIDE DEF bs, S, n
  <2>n. n \in Nat
    BY <2>4 DEF n
  <2>8. bs \in Seq(S) /\ Len(bs) = n
    BY <2>7, <2>n
  <2>9. Len(OfPairs(bs)) = 2 * n
    BY <2>8, <2>n, PairsLength
  <2>10. r.v.sc = "bytes" /\ Len(r.v.h) = 2 * n
    BY <2>2, <2>9 DEF bs
  <2>11. t.t = "bytesn" => n = t.n
    BY <1>6 DEF Proper, n
  <2> HIDE DEF r
  <2>12. Fits(r.v, t)
    BY <1>6, <2>10, <2>11 DEF Fits
  <2> QED
    BY <2>12 DEF r
<1>7. CASE t.t \in {"bytes", "bytesn"} /\ v.j \notin {"num", "str", "arr"}
  BY <1>0, <1>7 DEF FromJsonPrimitives, FromValue, Err, FromStr
<1> QED
  BY <1>1, <1>2, <1>3, <1>4, <1>5, <1>6, <1>7

(* What is read of a proper JSON value fits its type.                         *)
CallFits(u, s) ==
  ProperCall(u, s) /\ FromJsonCall(u, s).is = "ok" => FitsCall(FromJsonCall(u, s).v, s)

FitsBelow(v) == \A u \in Jsons, s \in SpecTypes : Height[u] < Height[v] => CallFits(u, s)

(* A collection of readings has the values, each of its type.                 *)
LEMMA CollectedFit ==
  ASSUME NEW n \in Nat, NEW us, NEW ts, NEW r,
         \A i \in 1 .. n : ProperCall(us[i], ts[i]) /\ CallFits(us[i], ts[i]),
         r = Collect([i \in 1 .. n |-> FromJsonCall(us[i], ts[i])]), r.is = "ok"
  PROVE  /\ \E S : r.v \in Seq(S)
         /\ DOMAIN r.v = 1 .. n /\ Len(r.v) = n
         /\ \A i \in 1 .. n : FitsCall(r.v[i], ts[i])
<1> DEFINE rs == [i \in 1 .. n |-> FromJsonCall(us[i], ts[i])]
           S == {rs[i].v : i \in 1 .. n}
<1>1. DOMAIN rs = 1 .. n /\ DOMAIN rs \subseteq Nat /\ Collect(rs).is = "ok"
  OBVIOUS
<1>2. /\ \A i \in 1 .. n : rs[i].is = "ok"
      /\ r.v = [i \in 1 .. n |-> rs[i].v]
  <2>1. /\ \A i \in DOMAIN rs : rs[i].is = "ok"
        /\ Collect(rs).v = [i \in DOMAIN rs |-> rs[i].v]
    <3> HIDE DEF rs
    <3> QED
      BY <1>1, Collected
  <2> QED
    BY <1>1, <2>1
<1>3. \A i \in 1 .. n : FitsCall(rs[i].v, ts[i])
  BY <1>2 DEF CallFits
<1> HIDE DEF rs
<1>4. r.v \in [1 .. n -> S]
  BY <1>2
<1> HIDE DEF S
<1>5. r.v \in Seq(S)
  BY <1>4
<1>6. Len(r.v) = n /\ DOMAIN r.v = 1 .. n
  BY <1>4, <1>5
<1> QED
  BY <1>2, <1>3, <1>5, <1>6

(* The parts of a value are lower.                                            *)
LEMMA PartsOfArray ==
  ASSUME NEW v \in Jsons, v.j = "arr", FitsBelow(v)
  PROVE  /\ v.a \in Seq(Jsons) /\ Len(v.a) \in Nat /\ DOMAIN v.a = 1 .. Len(v.a)
         /\ \A i \in DOMAIN v.a, s \in SpecTypes : CallFits(v.a[i], s)
<1>1. v.a \in Seq(Jsons) /\ \A i \in DOMAIN v.a : v.a[i] \in Jsons /\ Height[v.a[i]] < Height[v]
  BY JsonsAssumption DEF Below
<1> QED
  BY <1>1 DEF FitsBelow

LEMMA PartsOfObject ==
  ASSUME NEW v \in Jsons, v.j = "obj", FitsBelow(v)
  PROVE  \A k \in DOMAIN v.o : /\ v.o[k] \in Jsons /\ Height[v.o[k]] < Height[v]
                               /\ \A s \in SpecTypes : CallFits(v.o[k], s)
<1>1. \A k \in DOMAIN v.o : v.o[k] \in Jsons /\ Height[v.o[k]] < Height[v]
  BY JsonsAssumption DEF Below
<1> QED
  BY <1>1 DEF FitsBelow

LEMMA NoRaw ==
  ASSUME NEW v \in Jsons, NEW t \in SpecTypes, Proper(v, t), ~ Taken(v, t)
  PROVE  FromValue(v) = Err
<1>1. v \notin DOMAIN RawScVals
  BY DEF Proper
<1> QED
  BY <1>1 DEF FromValue

LEMMA VecFits ==
  ASSUME NEW v \in Jsons, NEW t \in SpecTypes, Proper(v, t), FitsBelow(v), t.t = "vec",
         FromJson(v, t).is = "ok"
  PROVE  Fits(FromJson(v, t).v, t)
<1> DEFINE r == Collect([i \in DOMAIN v.a |-> FromJsonCall(v.a[i], t.of)])
<1>1. v.j = "arr" /\ FromJson(v, t) = Then(r, VecVal)
  <2>1. t.t \notin Primitives
    BY DEF Primitives, Ints, Words, Wide
  <2>2. v.j # "arr" => FromValue(v) = Err
    BY NoRaw DEF Taken, FromStr, Words, Wide
  <2> QED
    BY <2>1, <2>2 DEF FromJson, Err
<1>2. r.is = "ok" /\ FromJson(v, t).v = [sc |-> "vec", v |-> r.v]
  BY <1>1 DEF Then, Ok, VecVal
<1> DEFINE n == Len(v.a)
           ts == [i \in 1 .. n |-> t.of]
<1>3. /\ n \in Nat /\ DOMAIN v.a = 1 .. n
      /\ \A i \in 1 .. n : ProperCall(v.a[i], t.of) /\ CallFits(v.a[i], t.of)
  <2>1. \A i \in DOMAIN v.a : ProperCall(v.a[i], t.of)
    BY <1>1 DEF Proper
  <2> QED
    BY <1>1, <2>1, PartsOfArray, TypesAssumption
<1>4. r = Collect([i \in 1 .. n |-> FromJsonCall(v.a[i], ts[i])])
  BY <1>3
<1>5. \A i \in 1 .. n : ProperCall(v.a[i], ts[i]) /\ CallFits(v.a[i], ts[i])
  BY <1>3
<1> HIDE DEF r, ts
<1>6. DOMAIN r.v = 1 .. n /\ \A i \in 1 .. n : FitsCall(r.v[i], ts[i])
  BY <1>2, <1>3, <1>4, <1>5, CollectedFit
<1>7. \A i \in DOMAIN r.v : FitsCall(r.v[i], t.of)
  BY <1>6 DEF ts
<1> QED
  BY <1>2, <1>7 DEF Fits, Composite, Ints, Wide

LEMMA TupleFits ==
  ASSUME NEW v \in Jsons, NEW t \in SpecTypes, Proper(v, t), FitsBelow(v), t.t = "tuple",
         FromJson(v, t).is = "ok"
  PROVE  Fits(FromJson(v, t).v, t)
<1> DEFINE r == Collect([i \in DOMAIN v.a |-> FromJsonCall(v.a[i], t.types[i])])
<1>1. v.j = "arr" /\ FromJson(v, t) = ParseTuple(t, v.a)
  <2>1. t.t \notin Primitives
    BY DEF Primitives, Ints, Words, Wide
  <2>2. v.j # "arr" => FromValue(v) = Err
    BY NoRaw DEF Taken, FromStr, Words, Wide
  <2> QED
    BY <2>1, <2>2 DEF FromJson, Err
<1>2. Len(v.a) = Len(t.types) /\ FromJson(v, t) = Then(r, VecVal)
  BY <1>1 DEF ParseTuple, Err
<1>3. r.is = "ok" /\ FromJson(v, t).v = [sc |-> "vec", v |-> r.v]
  BY <1>2 DEF Then, Ok, VecVal
<1> DEFINE n == Len(v.a)
<1>4. /\ n \in Nat /\ DOMAIN v.a = 1 .. n
      /\ \A i \in 1 .. n : ProperCall(v.a[i], t.types[i]) /\ CallFits(v.a[i], t.types[i])
  <2>1. t.types \in Seq(SpecTypes)
    BY TypesAssumption
  <2>2. n \in Nat /\ DOMAIN v.a = 1 .. n
    BY <1>1, PartsOfArray
  <2>3. \A i \in 1 .. n : i \in DOMAIN t.types /\ t.types[i] \in SpecTypes
    BY <1>2, <2>1
  <2>4. \A i \in DOMAIN v.a, s \in SpecTypes : CallFits(v.a[i], s)
    BY <1>1, PartsOfArray
  <2>5. \A i \in DOMAIN v.a \cap DOMAIN t.types : ProperCall(v.a[i], t.types[i])
    BY <1>1 DEF Proper
  <2> QED
    BY <2>2, <2>3, <2>4, <2>5
<1>5. r = Collect([i \in 1 .. n |-> FromJsonCall(v.a[i], t.types[i])])
  BY <1>4
<1> HIDE DEF r
<1>6. DOMAIN r.v = 1 .. n /\ Len(r.v) = n /\ \A i \in 1 .. n : FitsCall(r.v[i], t.types[i])
  <2> DEFINE us == v.a
             ts == t.types
  <2>1. /\ n \in Nat /\ \A i \in 1 .. n : ProperCall(us[i], ts[i]) /\ CallFits(us[i], ts[i])
        /\ r = Collect([i \in 1 .. n |-> FromJsonCall(us[i], ts[i])]) /\ r.is = "ok"
    BY <1>3, <1>4, <1>5
  <2> HIDE DEF us, ts, n
  <2>2. DOMAIN r.v = 1 .. n /\ Len(r.v) = n /\ \A i \in 1 .. n : FitsCall(r.v[i], ts[i])
    BY <2>1, CollectedFit
  <2> QED
    BY <2>2 DEF ts
<1>7. DOMAIN t.types = 1 .. n
  BY <1>2, <1>4, TypesAssumption
<1>8. FitsEach(r.v, t.types)
  BY <1>2, <1>6, <1>7 DEF FitsEach
<1> QED
  BY <1>3, <1>8 DEF Fits, Composite, Ints, Wide

-----------------------------------------------------------------------------
(* User defined types.                                                        *)

LEMMA TaggedFits ==
  ASSUME NEW cases, NEW c \in DOMAIN cases, NEW S, NEW vals \in Seq(S),
         FitsEach(vals, CaseTypes(cases[c]))
  PROVE  FitsUnion(VecVal(<<Field(cases[c].name)>> \o vals), cases)
<1> DEFINE name == Field(cases[c].name)
           u == <<name>> \o vals
<1>1. u # <<>> /\ u[1] = name /\ Tail(u) = vals
  <2> HIDE DEF name
  <2>1. u \in Seq(S \cup {name}) /\ Len(u) = Len(vals) + 1 /\ u[1] = name
        /\ \A i \in 1 .. Len(vals) : u[i + 1] = vals[i]
    OBVIOUS
  <2> HIDE DEF u
  <2>2. Tail(u) \in Seq(S \cup {name}) /\ Len(Tail(u)) = Len(vals)
        /\ \A i \in 1 .. Len(vals) : Tail(u)[i] = vals[i]
    BY <2>1
  <2> QED
    BY <2>1, <2>2
<1>2. VecVal(u).sc = "vec" /\ VecVal(u).v = u
  BY DEF VecVal
<1> DEFINE w == VecVal(u)
<1> HIDE DEF w, u
<1>3. w.sc = "vec" /\ w.v = u
  BY <1>2 DEF w
<1>4. FitsUnion(w, cases)
  BY <1>1, <1>3 DEF FitsUnion
<1> QED
  BY <1>4 DEF w, u

(* The value of a member, as ParseUnion takes it, is no higher.               *)
LEMMA RestOfUnion ==
  ASSUME NEW u \in Jsons, UnionRest(u).is = "ok"
  PROVE  LET rest == UnionRest(u).v
         IN  rest \in Jsons /\ Height[rest] <= Height[u]
<1>1. CASE ~ (u.j = "obj" /\ Bare("0") \in DOMAIN u.o)
  <2>1. UnionRest(u).v = u
    BY <1>1 DEF UnionRest, Ok
  <2>2. Height[u] \in Nat
    BY JsonsAssumption
  <2> QED
    BY <2>1, <2>2
<1>2. CASE u.j = "obj" /\ Bare("0") \in DOMAIN u.o
  <2> DEFINE r == Items(u.o)
  <2>1. r.is = "ok" /\ UnionRest(u).v = Arr(r.v)
    BY <1>2 DEF UnionRest, Then, Ok
  <2>2. Arr(r.v) \in Jsons /\ Height[Arr(r.v)] <= Height[u]
    BY <1>2, <2>1, JsonsAssumption
  <2> QED
    BY <2>1, <2>2
<1> QED
  BY <1>1, <1>2

LEMMA LowerFits ==
  ASSUME NEW v \in Jsons, NEW u \in Jsons, Height[u] < Height[v], FitsBelow(v)
  PROVE  FitsBelow(u)
<1>1. \A w \in Jsons : Height[w] \in Nat
  BY JsonsAssumption
<1> QED
  BY <1>1 DEF FitsBelow

LEMMA TypesOfCase ==
  ASSUME NEW name \in DOMAIN Spec, Spec[name].kind = "union", NEW c \in DOMAIN Spec[name].cases
  PROVE  Spec[name].cases[c].types \in Seq(SpecTypes)
<1> DEFINE R == [name : STRING, tuple : BOOLEAN, types : Seq(SpecTypes)]
           cases == Spec[name].cases
<1>1. cases \in Seq(R) /\ c \in DOMAIN cases
  BY TypesAssumption
<1>2. cases[c] \in R
  <2> HIDE DEF R, cases
  <2> QED
    BY <1>1
<1> QED
  BY <1>2

(* A name alone is a case without values.                                     *)
LEMMA NameFits ==
  ASSUME NEW cases, NEW c \in DOMAIN cases, CaseTypes(cases[c]) = <<>>
  PROVE  FitsUnion(VecVal(<<Field(cases[c].name)>> \o <<>>), cases)
<1> DEFINE vals == <<>>
<1>1. vals \in Seq({}) /\ FitsEach(vals, CaseTypes(cases[c]))
  BY DEF FitsEach
<1> HIDE DEF vals
<1>2. FitsUnion(VecVal(<<Field(cases[c].name)>> \o vals), cases)
  BY <1>1, TaggedFits
<1> QED
  BY <1>2 DEF vals

LEMMA UnionTextFits ==
  ASSUME NEW v, v.j = "str", NEW name \in DOMAIN Spec, Spec[name].kind = "union",
         ProperUnion(v, Spec[name].cases), ParseUnion(Spec[name], v).is = "ok"
  PROVE  FitsUnion(ParseUnion(Spec[name], v).v, Spec[name].cases)
<1> DEFINE cases == Spec[name].cases
           named == {i \in DOMAIN cases : Bare(cases[i].name) = v.s}
           c == CHOOSE i \in named : TRUE
<1>1. named # {} /\ ParseUnion(Spec[name], v) = Ok(VecVal(<<Field(cases[c].name)>> \o <<>>))
  BY DEF ParseUnion, Err
<1>2. c \in DOMAIN cases /\ Bare(cases[c].name) = v.s
  <2>1. c \in named
    BY <1>1
  <2> QED
    BY <2>1
<1> HIDE DEF c
<1>3. ParseUnion(Spec[name], v).v = VecVal(<<Field(cases[c].name)>> \o <<>>)
  BY <1>1 DEF Ok
<1>4. ~ cases[c].tuple
  BY <1>2 DEF ProperUnion
<1>5. CaseTypes(cases[c]) = <<>>
  BY <1>4 DEF CaseTypes
<1> QED
  BY <1>2, <1>3, <1>5, NameFits

LEMMA UnionFits ==
  ASSUME NEW v \in Jsons, FitsBelow(v),
         NEW name \in DOMAIN Spec, Spec[name].kind = "union",
         ProperUnion(v, Spec[name].cases), ParseUnion(Spec[name], v).is = "ok"
  PROVE  FitsUnion(ParseUnion(Spec[name], v).v, Spec[name].cases)
<1> DEFINE cases == Spec[name].cases
           r == ParseUnion(Spec[name], v)
<1>1. CASE v.j = "str"
  BY <1>1, UnionTextFits
<1>2. CASE v.j = "obj" /\ Cardinality(DOMAIN v.o) = 1
  <2> DEFINE text == CHOOSE k \in DOMAIN v.o : TRUE
             rest == UnionRest(v.o[text])
             named == {i \in DOMAIN cases : Bare(cases[i].name) = text}
             c == CHOOSE i \in named : TRUE
             case == cases[c]
             tagged(vals) == VecVal(<<Field(case.name)>> \o vals)
             parsed(u) ==
               IF ~ case.tuple THEN Ok(tagged(<<>>))
               ELSE IF Len(case.types) = 1
                    THEN Then(FromJsonCall(u, case.types[1]), LAMBDA x : tagged(<<x>>))
               ELSE IF u.j = "arr"
                    THEN Then(Collect([i \in 1 .. MinLen(u.a, case.types) |->
                                         FromJsonCall(u.a[i], case.types[i])]),
                              LAMBDA xs : tagged(xs))
               ELSE Ok(tagged(<<>>))
  <2>1. text \in DOMAIN v.o
    <3>1. DOMAIN v.o # {}
      BY <1>2, FS_EmptySet
    <3> QED
      BY <3>1
  <2>2. rest.is = "ok" /\ named # {} /\ r = parsed(rest.v)
    BY <1>2 DEF ParseUnion, Err
  <2>3. c \in DOMAIN cases /\ Bare(cases[c].name) = text
    <3>1. c \in named
      BY <2>2
    <3> HIDE DEF text
    <3> QED
      BY <3>1
  <2> DEFINE u == rest.v
  <2>4. u \in Jsons /\ Height[u] < Height[v]
    <3>1. /\ v.o[text] \in Jsons /\ Height[v.o[text]] < Height[v]
      <4> HIDE DEF text
      <4> QED
        BY <1>2, <2>1, PartsOfObject
    <3> HIDE DEF text
    <3>2. u \in Jsons /\ Height[u] <= Height[v.o[text]]
      BY <2>2, <3>1, RestOfUnion
    <3>3. Height[u] \in Nat /\ Height[v.o[text]] \in Nat /\ Height[v] \in Nat
      BY <3>1, <3>2, JsonsAssumption
    <3> HIDE DEF u
    <3> QED
      BY <3>1, <3>2, <3>3
  <2>5. FitsBelow(u)
    BY <2>4, LowerFits
  <2>6. r = parsed(u)
    BY <2>2
  <2>t. case.types \in Seq(SpecTypes)
    <3> HIDE DEF c
    <3> QED
      BY <2>3, TypesOfCase
  <2>p. case.tuple => ProperCase(u, case.types)
    <3> HIDE DEF c, text
    <3> QED
      BY <1>2, <2>1, <2>2, <2>3 DEF ProperUnion
  <2> HIDE DEF u, c
  <2> SUFFICES FitsUnion(r.v, cases)
    OBVIOUS
  <2>i. r.is = "ok"
    OBVIOUS
  <2> HIDE DEF r
  <2>7. CASE ~ case.tuple
    <3>1. r.v = tagged(<<>>)
      BY <2>6, <2>7 DEF Ok
    <3>2. CaseTypes(cases[c]) = <<>>
      BY <2>7 DEF CaseTypes
    <3> QED
      BY <2>3, <3>1, <3>2, NameFits
  <2>8. CASE case.tuple /\ Len(case.types) = 1
    <3> DEFINE q == FromJsonCall(u, case.types[1])
    <3>1. q.is = "ok" /\ r.v = tagged(<<q.v>>)
      BY <2>6, <2>8, <2>i DEF Then, Ok
    <3>2. case.types[1] \in SpecTypes /\ DOMAIN case.types = {1} /\ CaseTypes(case) = case.types
      BY <2>8, <2>t DEF CaseTypes
    <3>3. FitsCall(q.v, case.types[1])
      BY <2>4, <2>8, <2>p, <3>1, <3>2 DEF FitsBelow, CallFits, ProperCase
    <3> DEFINE vals == <<q.v>>
    <3> HIDE DEF q
    <3>4. vals \in Seq({q.v}) /\ Len(vals) = 1 /\ vals[1] = q.v
      OBVIOUS
    <3> HIDE DEF vals
    <3>5. FitsEach(vals, CaseTypes(cases[c]))
      BY <2>8, <3>2, <3>3, <3>4 DEF FitsEach
    <3>6. FitsUnion(tagged(vals), cases)
      BY <2>3, <3>4, <3>5, TaggedFits
    <3> QED
      BY <3>1, <3>6 DEF vals
  <2>9. CASE case.tuple /\ Len(case.types) # 1
    <3> DEFINE n == MinLen(u.a, case.types)
               us == u.a
               ts == case.types
               q == Collect([i \in 1 .. n |-> FromJsonCall(us[i], ts[i])])
    <3>0. u.j = "arr" /\ ProperEach(us, ts)
      BY <2>9, <2>p DEF ProperCase
    <3>1. q.is = "ok" /\ r.v = tagged(q.v)
      BY <2>6, <2>9, <2>i, <3>0 DEF Then, Ok
    <3>2. /\ us \in Seq(Jsons) /\ Len(us) \in Nat /\ DOMAIN us = 1 .. Len(us)
          /\ \A i \in DOMAIN us, s \in SpecTypes : CallFits(us[i], s)
      BY <2>4, <2>5, <3>0, PartsOfArray
    <3>3. n \in Nat /\ n <= Len(us) /\ n = Len(ts)
      BY <2>t, <3>0, <3>2 DEF MinLen, ProperEach
    <3> HIDE DEF n, us, ts
    <3>4. ts \in Seq(SpecTypes) /\ DOMAIN ts = 1 .. n
      BY <2>t, <3>3 DEF ts
    <3>5. \A i \in 1 .. n : ProperCall(us[i], ts[i]) /\ CallFits(us[i], ts[i])
      <4>1. \A i \in 1 .. n : i \in DOMAIN us /\ ts[i] \in SpecTypes
        BY <3>2, <3>3, <3>4
      <4>2. \A i \in 1 .. n : ProperCall(us[i], ts[i])
        BY <3>0, <3>4 DEF ProperEach
      <4> QED
        BY <3>2, <4>1, <4>2
    <3>6. q = Collect([i \in 1 .. n |-> FromJsonCall(us[i], ts[i])])
      OBVIOUS
    <3> HIDE DEF q
    <3>m. n \in Nat /\ q.is = "ok"
      BY <3>1, <3>3
    <3>7. /\ \E S : q.v \in Seq(S)
          /\ DOMAIN q.v = 1 .. n /\ Len(q.v) = n
          /\ \A i \in 1 .. n : FitsCall(q.v[i], ts[i])
      BY <3>m, <3>5, <3>6, CollectedFit
    <3>8. PICK S : q.v \in Seq(S)
      BY <3>7
    <3> DEFINE vals == q.v
    <3> HIDE DEF vals
    <3>9. vals \in Seq(S) /\ FitsEach(vals, ts)
      BY <3>3, <3>4, <3>7, <3>8 DEF vals, FitsEach
    <3>10. CaseTypes(cases[c]) = ts
      BY <2>9 DEF CaseTypes, ts
    <3>11. FitsUnion(tagged(vals), cases)
      BY <2>3, <3>9, <3>10, TaggedFits
    <3> QED
      BY <3>1, <3>11 DEF vals
  <2> QED
    BY <2>7, <2>8, <2>9
<1>3. CASE v.j # "str" /\ ~ (v.j = "obj" /\ Cardinality(DOMAIN v.o) = 1)
  BY <1>3 DEF ParseUnion, Panic
<1> QED
  BY <1>1, <1>2, <1>3

LEMMA TypesOfFields ==
  ASSUME NEW name \in DOMAIN Spec, Spec[name].kind = "struct"
  PROVE  LET fields == Spec[name].fields
         IN  /\ \E S : fields \in Seq(S)
             /\ Len(fields) \in Nat /\ DOMAIN fields = 1 .. Len(fields)
             /\ \A i \in DOMAIN fields : fields[i].type \in SpecTypes
<1> DEFINE R == [name : STRING, type : SpecTypes]
           fields == Spec[name].fields
<1>1. fields \in Seq(R)
  BY TypesAssumption
<1>2. Len(fields) \in Nat /\ DOMAIN fields = 1 .. Len(fields) /\ \A i \in DOMAIN fields : fields[i] \in R
  <2> HIDE DEF R, fields
  <2> QED
    BY <1>1
<1> QED
  BY <1>1, <1>2

(* A struct that is read from an array.                                       *)
LEMMA TupleStruktFits ==
  ASSUME NEW name \in DOMAIN Spec, Spec[name].kind = "struct", IsTuple(Spec[name]),
         NEW a, NEW J, a \in Seq(J), ProperEach(a, FieldTypes(Spec[name])),
         \A i \in DOMAIN a, s \in SpecTypes : CallFits(a[i], s),
         ParseTupleStrukt(Spec[name], a).is = "ok"
  PROVE  FitsStruct(ParseTupleStrukt(Spec[name], a).v, Spec[name])
<1> DEFINE e == Spec[name]
           fields == e.fields
           n == MinLen(fields, a)
           r == ParseTupleStrukt(e, a)
           q == Collect([i \in 1 .. n |-> FromJsonCall(a[i], fields[i].type)])
           ts == FieldTypes(e)
<1>1. /\ Len(fields) \in Nat /\ DOMAIN fields = 1 .. Len(fields)
      /\ \A i \in DOMAIN fields : fields[i].type \in SpecTypes
  BY TypesOfFields
<1>2. /\ DOMAIN ts = DOMAIN fields /\ \A i \in DOMAIN fields : ts[i] = fields[i].type
      /\ ts \in [1 .. Len(fields) -> SpecTypes]
  BY <1>1 DEF FieldTypes
<1>3. q.is = "ok" /\ r.v = [sc |-> "vec", v |-> q.v]
  BY DEF ParseTupleStrukt, Then, Ok, VecVal
<1> HIDE DEF ts, fields
<1>4. Len(ts) = Len(fields)
  BY <1>1, <1>2
<1>5. n \in Nat /\ n <= Len(a) /\ n = Len(ts) /\ DOMAIN a = 1 .. Len(a) /\ Len(a) \in Nat
  BY <1>1, <1>4 DEF MinLen, ProperEach, ts
<1> HIDE DEF n
<1>6. \A i \in 1 .. n : i \in DOMAIN a /\ i \in DOMAIN fields /\ i \in DOMAIN ts
  BY <1>1, <1>2, <1>4, <1>5
<1>7. \A i \in 1 .. n : ProperCall(a[i], ts[i]) /\ CallFits(a[i], ts[i])
  BY <1>1, <1>2, <1>6 DEF ProperEach, ts
<1>8. q = Collect([i \in 1 .. n |-> FromJsonCall(a[i], ts[i])])
  BY <1>2, <1>6
<1> HIDE DEF q
<1>m. n \in Nat /\ q.is = "ok"
  BY <1>3, <1>5
<1>9. /\ DOMAIN q.v = 1 .. n /\ Len(q.v) = n /\ \A i \in 1 .. n : FitsCall(q.v[i], ts[i])
  BY <1>m, <1>7, <1>8, CollectedFit
<1>10. DOMAIN ts = 1 .. n
  BY <1>1, <1>2, <1>4, <1>5
<1>11. FitsEach(q.v, ts)
  BY <1>5, <1>9, <1>10 DEF FitsEach
<1> HIDE DEF r, e
<1>12. FitsStruct(r.v, e)
  BY <1>3, <1>11 DEF FitsStruct, ts, e
<1> QED
  BY <1>12 DEF r, e

AllKeys == ReadKeys \cup FieldKeys

LEMMA KeysOrdered == Ordered(AllKeys)
BY KeysAssumption DEF Ordered, AllKeys

(* A struct that is read from an object.                                      *)
LEMMA StruktFits ==
  ASSUME NEW name \in DOMAIN Spec, Spec[name].kind = "struct",
         NEW v \in Jsons, v.j = "obj", ProperStruct(v, Spec[name]), ~ IsTuple(Spec[name]), FitsBelow(v),
         ParseStrukt(Spec[name], v.o).is = "ok"
  PROVE  FitsStruct(ParseStrukt(Spec[name], v.o).v, Spec[name])
<1> DEFINE fields == Spec[name].fields
           n == Len(fields)
           r == ParseStrukt(Spec[name], v.o)
           val(i) == FromJsonCall(v.o[Bare(fields[i].name)], fields[i].type)
           member(i) == IF Bare(fields[i].name) \notin DOMAIN v.o THEN Err
                        ELSE Then(val(i), LAMBDA x : [key |-> Field(fields[i].name), val |-> x])
           ms == [i \in DOMAIN fields |-> member(i)]
           q == Collect(ms)
<1>1. /\ n \in Nat /\ DOMAIN fields = 1 .. n /\ \A i \in 1 .. n : fields[i].type \in SpecTypes
  BY TypesOfFields
<1>2. q.is = "ok" /\ r = SortedFrom(q.v)
  BY DEF ParseStrukt
<1>3. /\ \A i \in 1 .. n : ms[i].is = "ok"
      /\ q.v = [i \in 1 .. n |-> ms[i].v]
  <2>1. DOMAIN ms = 1 .. n /\ DOMAIN ms \subseteq Nat
    <3>1. DOMAIN ms = DOMAIN fields
      OBVIOUS
    <3> HIDE DEF ms, n, fields
    <3> QED
      BY <1>1, <3>1
  <2> HIDE DEF ms
  <2> QED
    BY <1>2, <2>1, Collected
<1>4. \A i \in 1 .. n : /\ ms[i].v = [key |-> Field(fields[i].name), val |-> val(i).v]
                        /\ FitsCall(val(i).v, fields[i].type)
  <2> SUFFICES ASSUME NEW i \in 1 .. n
               PROVE  /\ ms[i].v = [key |-> Field(fields[i].name), val |-> val(i).v]
                      /\ FitsCall(val(i).v, fields[i].type)
    OBVIOUS
  <2>1. ms[i] = member(i) /\ member(i).is = "ok"
    BY <1>1, <1>3
  <2>2. /\ Bare(fields[i].name) \in DOMAIN v.o /\ val(i).is = "ok"
        /\ member(i) = Ok([key |-> Field(fields[i].name), val |-> val(i).v])
    BY <2>1 DEF Then, Err
  <2>3. /\ ProperCall(v.o[Bare(fields[i].name)], fields[i].type)
        /\ CallFits(v.o[Bare(fields[i].name)], fields[i].type)
    BY <1>1, <2>2, PartsOfObject DEF ProperStruct
  <2>4. FitsCall(val(i).v, fields[i].type)
    BY <2>2, <2>3 DEF CallFits
  <2> HIDE DEF ms, member, val
  <2>5. ms[i].v = [key |-> Field(fields[i].name), val |-> val(i).v]
    BY <2>1, <2>2 DEF Ok
  <2> QED
    BY <2>4, <2>5
<1> DEFINE entries == q.v
           S == {ms[i].v : i \in 1 .. n}
<1>5. /\ entries \in [1 .. n -> S]
      /\ \A i \in 1 .. n : /\ entries[i].key = Field(fields[i].name)
                            /\ FitsCall(entries[i].val, fields[i].type)
  <2> HIDE DEF ms, val, q, n, fields
  <2>1. entries \in [1 .. n -> S] /\ \A i \in 1 .. n : entries[i] = ms[i].v
    BY <1>3
  <2>2. \A i \in 1 .. n : ms[i].v.key = Field(fields[i].name) /\ ms[i].v.val = val(i).v
    <3> SUFFICES ASSUME NEW i \in 1 .. n
                 PROVE  ms[i].v.key = Field(fields[i].name) /\ ms[i].v.val = val(i).v
      OBVIOUS
    <3>1. ms[i].v = [key |-> Field(fields[i].name), val |-> val(i).v]
      BY <1>4
    <3> QED
      BY <3>1
  <2> QED
    BY <1>4, <2>1, <2>2
<1>6. \A i \in 1 .. n : entries[i].key \in AllKeys
  <2>1. \A i \in 1 .. n : Field(fields[i].name) \in FieldKeys
    BY <1>1 DEF FieldKeys
  <2> HIDE DEF entries
  <2> QED
    BY <1>5, <2>1 DEF AllKeys
<1> HIDE DEF entries, S, fields
<1>7. SortedFrom(entries).is = "ok"
  BY <1>2 DEF entries
<1> DEFINE m == SortedFrom(entries).v.m
<1>8. /\ SortedFrom(entries).v.sc = "map" /\ Len(m) = n /\ DOMAIN m = 1 .. n /\ Ascending(m)
      /\ \A i \in 1 .. n : \E k \in 1 .. n : m[i] = entries[k]
  BY <1>1, <1>5, <1>6, <1>7, KeysOrdered, Sorted
<1> HIDE DEF m, n
<1>9. \A i \in DOMAIN m : \E f \in DOMAIN fields :
        m[i].key = Field(fields[f].name) /\ FitsCall(m[i].val, fields[f].type)
  <2> SUFFICES ASSUME NEW i \in 1 .. n
               PROVE  \E f \in 1 .. n :
                        m[i].key = Field(fields[f].name) /\ FitsCall(m[i].val, fields[f].type)
    BY <1>1, <1>8
  <2>1. PICK k \in 1 .. n : m[i] = entries[k]
    BY <1>8
  <2> QED
    BY <1>5, <2>1
<1> DEFINE w == SortedFrom(entries).v
<1>10. w.sc = "map" /\ w.m = m /\ Len(m) = Len(fields) /\ Ascending(m)
  BY <1>8 DEF m, n
<1> HIDE DEF w
<1>11. FitsStruct(w, Spec[name])
  BY <1>9, <1>10 DEF FitsStruct, fields
<1>12. r.v = w
  BY <1>2 DEF w, entries
<1> HIDE DEF r
<1>13. FitsStruct(r.v, Spec[name])
  BY <1>11, <1>12
<1> QED
  BY <1>13 DEF r

(* The members "0", "1", ... of an object are parts of it.                    *)
LEMMA ItemsFit ==
  ASSUME NEW v \in Jsons, v.j = "obj", FitsBelow(v), Items(v.o).is = "ok"
  PROVE  /\ \E J : Items(v.o).v \in Seq(J)
         /\ \A i \in DOMAIN Items(v.o).v, s \in SpecTypes : CallFits(Items(v.o).v[i], s)
<1> DEFINE n == Cardinality(DOMAIN v.o)
           key(i) == Bare(ToString(i - 1))
           a == Items(v.o).v
           J == {v.o[k] : k \in DOMAIN v.o}
<1>1. \A i \in 1 .. n : key(i) \in DOMAIN v.o
  BY DEF Items, Panic
<1>2. a = [i \in 1 .. n |-> v.o[key(i)]]
  BY <1>1 DEF Items, Ok
<1>3. n \in Nat
  BY JsonsAssumption, FS_CardinalityType
<1> HIDE DEF a, n, key
<1>4. a \in [1 .. n -> J]
  BY <1>1, <1>2
<1>5. a \in Seq(J)
  <2> HIDE DEF J
  <2> QED
    BY <1>3, <1>4
<1>6. \A k \in DOMAIN v.o, s \in SpecTypes : CallFits(v.o[k], s)
  BY PartsOfObject
<1>7. \A i \in DOMAIN a, s \in SpecTypes : CallFits(a[i], s)
  BY <1>1, <1>2, <1>6
<1> HIDE DEF J
<1> QED
  BY <1>5, <1>7 DEF a

LEMMA UdtFits ==
  ASSUME NEW v \in Jsons, NEW t \in SpecTypes, Proper(v, t), FitsBelow(v), t.t = "udt",
         FromJson(v, t).is = "ok"
  PROVE  Fits(FromJson(v, t).v, t)
<1> DEFINE e == Spec[t.name]
           r == FromJson(v, t)
<1>1. r = ParseUdt(t.name, v)
  <2>1. t.t \notin Primitives
    BY DEF Primitives, Ints, Words, Wide
  <2> QED
    BY <2>1 DEF FromJson
<1>2. t.name \in DOMAIN Spec
  BY <1>1 DEF ParseUdt, Err
<1>p. /\ e.kind = "struct" => ProperStruct(v, e)
      /\ e.kind = "union" => ProperUnion(v, e.cases)
  BY <1>2 DEF Proper
<1>3. CASE e.kind = "struct" /\ v.j = "obj" /\ ~ IsTuple(e)
  <2>1. r = ParseStrukt(e, v.o)
    BY <1>1, <1>2, <1>3 DEF ParseUdt
  <2>2. FitsStruct(r.v, e)
    BY <1>2, <1>p, <1>3, <2>1, StruktFits
  <2> QED
    BY <1>2, <1>3, <2>2 DEF Fits, FitsUdt, Composite, Ints, Wide
<1>4. CASE e.kind = "struct" /\ v.j = "obj" /\ IsTuple(e)
  <2> DEFINE items == Items(v.o)
  <2>1. items.is = "ok" /\ r = ParseTupleStrukt(e, items.v)
    BY <1>1, <1>2, <1>4 DEF ParseUdt
  <2>2. /\ \E J : items.v \in Seq(J)
        /\ \A i \in DOMAIN items.v, s \in SpecTypes : CallFits(items.v[i], s)
    BY <1>4, <2>1, ItemsFit
  <2>p. ProperEach(items.v, FieldTypes(e))
    BY <1>p, <1>4, <2>1 DEF ProperStruct
  <2> HIDE DEF items
  <2>3. PICK J : items.v \in Seq(J)
    BY <2>2
  <2>4. FitsStruct(r.v, e)
    BY <1>2, <1>4, <2>1, <2>2, <2>p, <2>3, TupleStruktFits
  <2> QED
    BY <1>2, <1>4, <2>4 DEF Fits, FitsUdt, Composite, Ints, Wide
<1>5. CASE e.kind = "struct" /\ v.j = "arr"
  <2>1. r = ParseTupleStrukt(e, v.a)
    BY <1>1, <1>2, <1>5 DEF ParseUdt
  <2>2. /\ v.a \in Seq(Jsons)
        /\ \A i \in DOMAIN v.a, s \in SpecTypes : CallFits(v.a[i], s)
    BY <1>5, PartsOfArray
  <2>p. IsTuple(e) /\ ProperEach(v.a, FieldTypes(e))
    BY <1>p, <1>5 DEF ProperStruct
  <2>3. FitsStruct(r.v, e)
    BY <1>2, <1>5, <2>1, <2>2, <2>p, TupleStruktFits
  <2> QED
    BY <1>2, <1>5, <2>3 DEF Fits, FitsUdt, Composite, Ints, Wide
<1>6. CASE e.kind = "union"
  <2>1. r = ParseUnion(e, v)
    BY <1>1, <1>2, <1>6 DEF ParseUdt, Panic
  <2>2. FitsUnion(r.v, e.cases)
    BY <1>2, <1>p, <1>6, <2>1, UnionFits
  <2> QED
    BY <1>2, <1>6, <2>2 DEF Fits, FitsUdt, Composite, Ints, Wide
<1>7. CASE e.kind = "enum"
  <2>1. r = ParseConstEnum(v, e)
    BY <1>1, <1>2, <1>7 DEF ParseUdt, Panic
  <2>2. r.v.sc = "u32" /\ r.v.n \in Width("u32") /\ r.v.n \in e.values
    BY <2>1 DEF ParseConstEnum, Ok, Err
  <2> HIDE DEF r
  <2>3. Fits(r.v, t)
    BY <1>2, <1>7, <2>2 DEF Fits, FitsUdt, Composite, Ints, Wide
  <2> QED
    BY <2>3 DEF r
<1>8. CASE e.kind = "struct" /\ v.j \notin {"obj", "arr"}
  BY <1>1, <1>2, <1>8 DEF ParseUdt, Panic
<1>9. CASE e.kind \notin {"struct", "union", "enum"}
  BY <1>1, <1>2, <1>9 DEF ParseUdt, Panic
<1> QED
  BY <1>3, <1>4, <1>5, <1>6, <1>7, <1>8, <1>9

-----------------------------------------------------------------------------
(* Texts.                                                                     *)

(* What a reader accepts fits.                                                *)
JsonOk(v, t) ==
  Proper(v, t) /\ FromJson(v, t).is = "ok" => Fits(FromJson(v, t).v, t)

TextOk(x, t) ==
  Proper(ReadAs(x), t) /\ FromString(x, t).is = "ok" => Fits(FromString(x, t).v, t)

(* A text that is not JSON, or that is taken as it stands.                    *)
LEMMA StringFits ==
  ASSUME NEW x \in Texts, NEW t \in SpecTypes, FromJson(Str(x), t).is = "ok", Proper(Str(x), t),
         \/ t.t \in FromStr
         \/ t.t = "udt" /\ t.name \in DOMAIN Spec /\ Spec[t.name].kind \in {"union", "struct"}
  PROVE  Fits(FromJson(Str(x), t).v, t)
<1> DEFINE v == Str(x)
           r == FromJson(v, t)
<1>1. v.j = "str" /\ v.s = x /\ v \in Jsons /\ Proper(v, t)
  BY JsonsAssumption DEF Str
<1> HIDE DEF v
<1>2. CASE t.t \in FromStr
  <2>1. t.t \in Primitives
    BY <1>2 DEF FromStr, Primitives, Ints
  <2>2. r = FromJsonPrimitives(v, t)
    BY <2>1 DEF FromJson, Primitives, Ints, Words, Wide
  <2>3. r.is = "ok"
    BY DEF v
  <2>4. Fits(FromJsonPrimitives(v, t).v, t)
    BY <1>1, <1>2, <2>1, <2>2, <2>3, PrimitivesFit
  <2> QED
    BY <2>2, <2>4 DEF v
<1>3. CASE t.t = "udt" /\ t.name \in DOMAIN Spec /\ Spec[t.name].kind \in {"union", "struct"}
  <2>1. t.t \notin Primitives
    BY <1>3 DEF Primitives, Ints, Words, Wide
  <2>2. r = ParseUdt(t.name, v) /\ r.is = "ok"
    BY <1>3, <2>1 DEF FromJson, v
  <2>3. Spec[t.name].kind = "union" /\ r = ParseUnion(Spec[t.name], v)
    BY <1>1, <1>3, <2>2 DEF ParseUdt, Panic
  <2>4. FitsUnion(r.v, Spec[t.name].cases)
    <3>1. ProperUnion(v, Spec[t.name].cases)
      BY <1>1, <1>3, <2>3 DEF Proper
    <3> QED
      BY <1>1, <1>3, <2>2, <2>3, <3>1, UnionTextFits
  <2>5. Fits(r.v, t)
    BY <1>3, <2>3, <2>4 DEF Fits, FitsUdt, Composite, Ints, Wide
  <2> QED
    BY <2>5 DEF v
<1> QED
  BY <1>2, <1>3

LEMMA TextStep ==
  ASSUME NEW x \in Texts, NEW t \in SpecTypes,
         \A s \in SpecTypes : Depth[s] < Depth[t] => TextOk(x, s),
         Reads(x) # NotJson => \A s \in SpecTypes : JsonOk(Reads(x), s)
  PROVE  TextOk(x, t)
<1> SUFFICES ASSUME Proper(ReadAs(x), t), FromString(x, t).is = "ok"
             PROVE  Fits(FromString(x, t).v, t)
  BY DEF TextOk
<1> DEFINE r == FromString(x, t)
<1>0. ReadAs(x) \in Jsons
  BY JsonsAssumption DEF ReadAs
<1>1. CASE t.t = "option"
  <2>1. t.of \in SpecTypes /\ Depth[t.of] < Depth[t]
    BY <1>1, TypesAssumption
  <2>2. CASE x = Bare("null")
    <3>1. r.v = Void
      BY <1>1, <2>2 DEF FromString, Ok
    <3> QED
      BY <1>1, <3>1 DEF Fits, Composite, Ints, Wide
  <2>3. CASE x # Bare("null")
    <3>1. r = FromString(x, t.of)
      BY <1>1, <2>1, <2>3, CallsAssumption DEF FromString
    <3>p. Proper(ReadAs(x), t.of)
      BY <1>0, <1>1, <2>1, FitsAssumption DEF Proper
    <3>2. Fits(r.v, t.of)
      BY <2>1, <3>p, <3>1 DEF TextOk
    <3>3. FitsCall(r.v, t.of)
      BY <2>1, <3>1, <3>2, FitsAssumption
    <3> QED
      BY <1>1, <3>3 DEF Fits, Composite, Ints, Wide
  <2> QED
    BY <2>2, <2>3
<1>2. CASE t.t # "option" /\ Reads(x) # NotJson
  <2>1. CASE t.t \in Wide
    <3>1. r = FromJson(Str(x), t)
      BY <1>2, <2>1 DEF FromString
    <3>2. Proper(Str(x), t)
      <4>1. Str(x).j = "str" /\ Taken(Str(x), t)
        BY <2>1 DEF Str, Taken, FromStr
      <4> QED
        BY <2>1, <4>1 DEF Proper, Wide
    <3> QED
      BY <2>1, <3>1, <3>2, StringFits DEF FromStr
  <2>2. CASE t.t \notin Wide
    <3>1. r = FromJson(Reads(x), t)
      BY <1>2, <2>2 DEF FromString
    <3> QED
      BY <1>2, <3>1 DEF JsonOk, ReadAs
  <2> QED
    BY <2>1, <2>2
<1>3. CASE t.t # "option" /\ Reads(x) = NotJson
  <2> DEFINE words == t.t \in FromStr
             udt == t.t = "udt" /\ t.name \in DOMAIN Spec /\ Spec[t.name].kind \in {"union", "struct"}
  <2>1. words \/ udt
    <3> SUFFICES ASSUME ~ words, ~ udt PROVE FALSE
      OBVIOUS
    <3> QED
      BY <1>3 DEF FromString, Err, FromStr
  <2>2. r = FromJson(Str(x), t)
    <3>1. CASE words
      BY <1>3, <3>1 DEF FromString, FromStr, Words, Wide
    <3>2. CASE udt
      BY <1>3, <3>2 DEF FromString, FromStr, Words, Wide
    <3> QED
      BY <2>1, <3>1, <3>2
  <2>3. Proper(Str(x), t)
    BY <1>3 DEF ReadAs
  <2> QED
    BY <2>1, <2>2, <2>3, StringFits
<1> QED
  BY <1>1, <1>2, <1>3

(* By induction over the options of a type.                                   *)
LEMMA TextsFit ==
  ASSUME NEW x \in Texts,
         Reads(x) # NotJson => \A s \in SpecTypes : JsonOk(Reads(x), s)
  PROVE  \A t \in SpecTypes : TextOk(x, t)
<1> DEFINE Bad == {t \in SpecTypes : ~ TextOk(x, t)}
           Ranks == {Depth[t] : t \in Bad}
<1> SUFFICES ASSUME Bad # {} PROVE FALSE
  OBVIOUS
<1>1. Ranks # {} /\ Ranks \subseteq Nat
  BY TypesAssumption
<1>2. PICK d \in Ranks : \A y \in Ranks : d <= y
  <2> HIDE DEF Ranks
  <2> QED
    BY <1>1, Least
<1>3. PICK t \in Bad : Depth[t] = d
  OBVIOUS
<1>4. \A s \in SpecTypes : Depth[s] < Depth[t] => TextOk(x, s)
  <2> SUFFICES ASSUME NEW s \in SpecTypes, Depth[s] < Depth[t], ~ TextOk(x, s) PROVE FALSE
    OBVIOUS
  <2>1. Depth[s] \in Ranks
    OBVIOUS
  <2>2. d <= Depth[s] /\ d \in Nat /\ Depth[s] \in Nat
    <3> HIDE DEF Ranks
    <3> QED
      BY <1>1, <1>2, <2>1
  <2> QED
    BY <1>3, <2>2
<1>5. TextOk(x, t)
  BY <1>4, TextStep
<1> QED
  BY <1>5

LEMMA MapFits ==
  ASSUME NEW v \in Jsons, NEW t \in SpecTypes, Proper(v, t), t.t = "map",
         \A u \in Jsons, s \in SpecTypes : Height[u] < Height[v] => JsonOk(u, s),
         FitsBelow(v), FromJson(v, t).is = "ok"
  PROVE  Fits(FromJson(v, t).v, t)
<1> DEFINE o == v.o
           keys == SetToSeq(DOMAIN o)
           n == Cardinality(DOMAIN o)
           key(k) == FromStringCall(k, t.key)
           val(k) == FromJsonCall(o[k], t.val)
           entry(k) == IF key(k).is = "ok"
                       THEN Then(val(k), LAMBDA y : [key |-> key(k).v, val |-> y]) ELSE key(k)
           es == [i \in DOMAIN keys |-> entry(keys[i])]
           q == Collect(es)
           r == FromJson(v, t)
<1>1. v.j = "obj" /\ r = ParseMap(t, o)
  <2>1. t.t \notin Primitives
    BY DEF Primitives, Ints, Words, Wide
  <2>2. v.j # "obj" => FromValue(v) = Err
    BY NoRaw DEF Taken, FromStr, Words, Wide
  <2> QED
    BY <2>1, <2>2 DEF FromJson, Err
<1>2. q.is = "ok" /\ r = SortedFrom(q.v)
  BY <1>1 DEF ParseMap
<1>3. /\ IsFiniteSet(DOMAIN o) /\ DOMAIN o \subseteq Texts
      /\ \A k \in DOMAIN o : Reads(k) = NotJson \/ (Reads(k) \in Jsons /\ Height[Reads(k)] < Height[v])
  BY <1>1, JsonsAssumption DEF Below
<1>4. n \in Nat /\ DOMAIN keys = 1 .. n /\ \A i \in 1 .. n : keys[i] \in DOMAIN o
  <2> HIDE DEF o
  <2> QED
    BY <1>3, SetToSeqDomain
<1>5. /\ \A i \in 1 .. n : es[i].is = "ok"
      /\ q.v = [i \in 1 .. n |-> es[i].v]
  <2>1. DOMAIN es = 1 .. n /\ DOMAIN es \subseteq Nat
    <3>1. DOMAIN es = DOMAIN keys
      OBVIOUS
    <3> HIDE DEF es, keys, n
    <3> QED
      BY <1>4, <3>1
  <2> HIDE DEF es, n
  <2> QED
    BY <1>2, <2>1, Collected
<1>t. t.key \in SpecTypes /\ t.val \in SpecTypes
  BY TypesAssumption
<1>6. \A k \in DOMAIN o : entry(k).is = "ok" =>
        /\ entry(k).v.key \in ReadKeys
        /\ FitsCall(entry(k).v.key, t.key) /\ FitsCall(entry(k).v.val, t.val)
  <2> SUFFICES ASSUME NEW k \in DOMAIN o, entry(k).is = "ok"
               PROVE  /\ entry(k).v.key \in ReadKeys
                      /\ FitsCall(entry(k).v.key, t.key) /\ FitsCall(entry(k).v.val, t.val)
    OBVIOUS
  <2>1. /\ key(k).is = "ok" /\ val(k).is = "ok"
        /\ entry(k) = Ok([key |-> key(k).v, val |-> val(k).v])
    BY DEF Then
  <2>p. ProperCall(ReadAs(k), t.key) /\ ProperCall(o[k], t.val)
    BY <1>1 DEF Proper
  <2>2. FitsCall(val(k).v, t.val)
    BY <1>1, <1>t, <2>1, <2>p, PartsOfObject DEF CallFits
  <2>3. k \in Texts /\ key(k) = FromString(k, t.key)
    BY <1>3, <1>t, CallsAssumption
  <2>4. TextOk(k, t.key)
    <3>1. Reads(k) # NotJson => \A s \in SpecTypes : JsonOk(Reads(k), s)
      BY <1>3
    <3> QED
      BY <1>t, <2>3, <3>1, TextsFit
  <2>5. Proper(ReadAs(k), t.key)
    <3>1. ReadAs(k) \in Jsons
      BY <2>3, JsonsAssumption DEF ReadAs
    <3> QED
      BY <1>t, <2>p, <3>1, FitsAssumption
  <2>6. FitsCall(key(k).v, t.key)
    BY <1>t, <2>1, <2>3, <2>4, <2>5, FitsAssumption DEF TextOk
  <2>7. key(k).v \in ReadKeys
    <3>1. t.key \in KeyTypes
      BY DEF KeyTypes
    <3>2. key(k) \in Readings
      <4>1. key(k) \in {FromString(x, t.key) : x \in Texts}
        BY <2>3
      <4> HIDE DEF key
      <4> QED
        BY <3>1, <4>1 DEF Readings
    <3> HIDE DEF key
    <3> QED
      BY <2>1, <3>2 DEF ReadKeys
  <2> HIDE DEF entry, key, val
  <2>8. entry(k).v.key = key(k).v /\ entry(k).v.val = val(k).v
    BY <2>1 DEF Ok
  <2> QED
    BY <2>2, <2>6, <2>7, <2>8
<1> DEFINE entries == q.v
           S == {es[i].v : i \in 1 .. n}
<1>7. /\ entries \in [1 .. n -> S]
      /\ \A i \in 1 .. n : /\ entries[i].key \in AllKeys
                            /\ FitsCall(entries[i].key, t.key) /\ FitsCall(entries[i].val, t.val)
  <2>1. \A i \in 1 .. n : es[i] = entry(keys[i]) /\ keys[i] \in DOMAIN o
    BY <1>4
  <2> HIDE DEF es, q, n, keys, entry
  <2>2. entries \in [1 .. n -> S] /\ \A i \in 1 .. n : entries[i] = es[i].v
    BY <1>5
  <2> QED
    BY <1>5, <1>6, <2>1, <2>2 DEF AllKeys
<1> HIDE DEF entries, S, n
<1>8. SortedFrom(entries).is = "ok"
  BY <1>2 DEF entries
<1> DEFINE w == SortedFrom(entries).v
           m == w.m
<1>9. /\ w.sc = "map" /\ DOMAIN m = 1 .. n /\ Ascending(m)
      /\ \A i \in 1 .. n : \E k \in 1 .. n : m[i] = entries[k]
  BY <1>4, <1>7, <1>8, KeysOrdered, Sorted
<1> HIDE DEF w
<1>10. \A i \in DOMAIN m : FitsCall(m[i].key, t.key) /\ FitsCall(m[i].val, t.val)
  <2> SUFFICES ASSUME NEW i \in 1 .. n PROVE FitsCall(m[i].key, t.key) /\ FitsCall(m[i].val, t.val)
    BY <1>9
  <2>1. PICK k \in 1 .. n : m[i] = entries[k]
    BY <1>9
  <2> QED
    BY <1>7, <2>1
<1>11. Fits(w, t)
  BY <1>9, <1>10 DEF Fits, Composite, Ints, Wide
<1> QED
  BY <1>2, <1>11 DEF w, entries

(* One step of the induction: a value whose parts fit fits.                   *)
LEMMA JsonStep ==
  ASSUME NEW v \in Jsons, NEW t \in SpecTypes,
         \A u \in Jsons, s \in SpecTypes : Height[u] < Height[v] => JsonOk(u, s),
         \A s \in SpecTypes : Depth[s] < Depth[t] => JsonOk(v, s)
  PROVE  JsonOk(v, t)
<1> SUFFICES ASSUME Proper(v, t), FromJson(v, t).is = "ok"
             PROVE  Fits(FromJson(v, t).v, t)
  BY DEF JsonOk
<1> USE DEF Primitives, Ints, Words, Wide, Composite
<1>b. FitsBelow(v)
  BY CallsAssumption, FitsAssumption DEF FitsBelow, CallFits, JsonOk
<1>1. CASE t.t \in Primitives
  <2>1. FromJson(v, t) = FromJsonPrimitives(v, t)
    BY <1>1 DEF FromJson
  <2> QED
    BY <1>1, <2>1, PrimitivesFit
<1>2. CASE t.t = "vec"
  BY <1>b, <1>2, VecFits
<1>3. CASE t.t = "map"
  BY <1>b, <1>3, MapFits
<1>4. CASE t.t = "option"
  <2>1. t.of \in SpecTypes /\ Depth[t.of] < Depth[t]
    BY <1>4, TypesAssumption
  <2>2. CASE v = Null
    <3>1. FromJson(v, t).v = Void
      BY <1>4, <2>2 DEF FromJson, Ok
    <3> QED
      BY <1>4, <3>1 DEF Fits
  <2>3. CASE v # Null
    <3>1. FromJson(v, t) = FromJson(v, t.of)
      BY <1>4, <2>1, <2>3, CallsAssumption DEF FromJson
    <3>p. Proper(v, t.of)
      BY <1>4, <2>1, FitsAssumption DEF Proper
    <3>2. FitsCall(FromJson(v, t.of).v, t.of)
      BY <2>1, <3>p, <3>1, FitsAssumption DEF JsonOk
    <3> QED
      BY <1>4, <3>1, <3>2 DEF Fits
  <2> QED
    BY <2>2, <2>3
<1>5. CASE t.t = "tuple"
  BY <1>b, <1>5, TupleFits
<1>6. CASE t.t = "udt"
  BY <1>b, <1>6, UdtFits
<1>7. CASE t.t \notin Primitives \cup {"vec", "map", "option", "tuple", "udt"}
  <2>1. FromJson(v, t) = Err
    <3>1. ~ Taken(v, t)
      BY <1>7 DEF Taken, FromStr
    <3> QED
      BY <1>7, <3>1, NoRaw DEF FromJson
  <2> QED
    BY <2>1 DEF Err
<1> QED
  BY <1>1, <1>2, <1>3, <1>4, <1>5, <1>6, <1>7

(* By induction over the height of a value and the options of a type.         *)
LEMMA JsonFits == \A v \in Jsons, t \in SpecTypes : JsonOk(v, t)
<1> DEFINE Bad == {v \in Jsons : \E t \in SpecTypes : ~ JsonOk(v, t)}
           Heights == {Height[v] : v \in Bad}
<1> SUFFICES ASSUME Bad # {} PROVE FALSE
  OBVIOUS
<1>1. Heights # {} /\ Heights \subseteq Nat
  BY JsonsAssumption
<1>2. PICK h \in Heights : \A y \in Heights : h <= y
  <2> HIDE DEF Heights
  <2> QED
    BY <1>1, Least
<1>3. PICK v \in Bad : Height[v] = h
  OBVIOUS
<1>4. \A u \in Jsons, s \in SpecTypes : Height[u] < Height[v] => JsonOk(u, s)
  <2> SUFFICES ASSUME NEW u \in Jsons, NEW s \in SpecTypes, Height[u] < Height[v], ~ JsonOk(u, s)
               PROVE  FALSE
    OBVIOUS
  <2>1. Height[u] \in Heights
    OBVIOUS
  <2>2. h <= Height[u] /\ h \in Nat /\ Height[u] \in Nat
    <3> HIDE DEF Heights
    <3> QED
      BY <1>1, <1>2, <2>1
  <2> QED
    BY <1>3, <2>2
<1> DEFINE Types0 == {t \in SpecTypes : ~ JsonOk(v, t)}
           Ranks == {Depth[t] : t \in Types0}
<1>5. Ranks # {} /\ Ranks \subseteq Nat
  BY TypesAssumption
<1>6. PICK d \in Ranks : \A y \in Ranks : d <= y
  <2> HIDE DEF Ranks
  <2> QED
    BY <1>5, Least
<1>7. PICK t \in Types0 : Depth[t] = d
  OBVIOUS
<1>8. \A s \in SpecTypes : Depth[s] < Depth[t] => JsonOk(v, s)
  <2> SUFFICES ASSUME NEW s \in SpecTypes, Depth[s] < Depth[t], ~ JsonOk(v, s) PROVE FALSE
    OBVIOUS
  <2>1. Depth[s] \in Ranks
    OBVIOUS
  <2>2. d <= Depth[s] /\ d \in Nat /\ Depth[s] \in Nat
    <3> HIDE DEF Ranks
    <3> QED
      BY <1>5, <1>6, <2>1
  <2> QED
    BY <1>7, <2>2
<1>9. v \in Jsons /\ t \in SpecTypes
  OBVIOUS
<1>10. JsonOk(v, t)
  BY <1>4, <1>8, <1>9, JsonStep
<1> QED
  BY <1>10

(* ReadFits: a text that from_string accepts is turned into a value of the    *)
(* type it was read for: integers in their range, bytes in their number, a    *)
(* map in the order of its keys, all the fields of a struct and no other, a   *)
(* case of a union with each of its values (soroban-spec-tools, from_string   *)
(* and from_json).  The text is any but those that Proper leaves out, which   *)
(* the reader takes for values of another type.                               *)
THEOREM ReadFits ==
  ASSUME NEW x \in Texts, NEW t \in SpecTypes, Proper(ReadAs(x), t), FromString(x, t).is = "ok"
  PROVE  Fits(FromString(x, t).v, t)
<1>1. Reads(x) # NotJson => \A s \in SpecTypes : JsonOk(Reads(x), s)
  BY JsonFits, JsonsAssumption
<1> QED
  BY <1>1, TextsFit DEF TextOk

-----------------------------------------------------------------------------
(* What is printed is read back.                                              *)

(* The text of a JSON value that is printed is read as that value.            *)
LEMMA NullBack == Reads(Writes(Null)) = Null
<1> DEFINE x == Bare("null")
<1>1. Writes(Null) = x
  BY DEF Writes, Null
<1>2. "json" \notin DOMAIN x /\ ~ (x.q > 0) /\ x.w = "null" /\ IsBare(x)
  BY DEF Bare, IsBare
<1> HIDE DEF x
<1>3. IntOf(x) = {}
  BY <1>2, WordsAssumption DEF IntOf, IntWords
<1> QED
  BY <1>1, <1>2, <1>3 DEF Reads

LEMMA BoolBack == ASSUME NEW b \in BOOLEAN PROVE Reads(Writes(Bool(b))) = Bool(b)
<1> DEFINE x == Bare(IF b THEN "true" ELSE "false")
<1>1. Writes(Bool(b)) = x
  BY DEF Writes, Bool
<1>2. /\ "json" \notin DOMAIN x /\ ~ (x.q > 0) /\ IsBare(x)
      /\ (b /\ x.w = "true") \/ (~ b /\ x.w = "false")
  BY DEF Bare, IsBare
<1> HIDE DEF x
<1>3. IntOf(x) = {}
  BY <1>2, WordsAssumption DEF IntOf, IntWords
<1>4. CASE b
  <2>1. Reads(x) = Bool(TRUE)
    BY <1>2, <1>3, <1>4 DEF Reads
  <2> QED
    BY <1>1, <1>4, <2>1
<1>5. CASE ~ b
  <2>1. Reads(x) = Bool(FALSE)
    BY <1>2, <1>3, <1>5 DEF Reads
  <2> QED
    BY <1>1, <1>5, <2>1
<1> QED
  BY <1>4, <1>5

(* The integer of the word of an integer.                                     *)
LEMMA IntBack ==
  ASSUME NEW n \in Low .. High PROVE IntOf(Bare(IntWords[n])) = {n}
<1> DEFINE x == Bare(IntWords[n])
<1>1. IsBare(x) /\ x.w = IntWords[n]
  BY DEF Bare, IsBare
<1> HIDE DEF x
<1>2. DOMAIN IntWords = Low .. High
  BY DEF IntWords
<1>3. IntOf(x) = {m \in Low .. High : IntWords[m] = IntWords[n]}
  BY <1>1, <1>2 DEF IntOf
<1>4. IntOf(x) = {n}
  BY <1>3, WordsAssumption
<1> QED
  BY <1>4 DEF x

LEMMA NumBack ==
  ASSUME NEW n \in Low .. U64Max PROVE Reads(Writes(Num(n))) = Num(n)
<1> DEFINE x == Bare(IntWords[n])
<1>1. ~ IsFloat(n) /\ n \in Low .. High
  BY DEF IsFloat, Low, High, U64Max
<1>2. Num(n).j = "num" /\ Num(n).n = n
  BY DEF Num
<1>3. Writes(Num(n)) = x
  BY <1>1, <1>2 DEF Writes
<1>4. "json" \notin DOMAIN x /\ ~ (x.q > 0)
  BY DEF Bare
<1>5. IntOf(x) = {n}
  BY <1>1, IntBack
<1> HIDE DEF x
<1>6. (CHOOSE m \in IntOf(x) : TRUE) = n
  BY <1>5
<1>7. Reads(x) = Num(n)
  BY <1>4, <1>5, <1>6 DEF Reads
<1> QED
  BY <1>3, <1>7

LEMMA StrBack ==
  ASSUME NEW x, IsText(x) PROVE Reads(Writes(Str(x))) = Str(x)
<1>0. Str(x).j = "str" /\ Str(x).s = x
  BY DEF Str
<1>1. CASE "q" \in DOMAIN x
  <2> DEFINE y == [x EXCEPT !.q = @ + 1]
  <2>1. x = [q |-> x.q, w |-> x.w] /\ x.q \in Nat
    BY <1>1 DEF IsText
  <2>2. y = [q |-> x.q + 1, w |-> x.w]
    BY <2>1
  <2>3. Writes(Str(x)) = y
    BY <1>0, <1>1 DEF Writes
  <2>4. "json" \notin DOMAIN y /\ y.q > 0 /\ y.q - 1 = x.q
    BY <2>1, <2>2
  <2>5. [y EXCEPT !.q = @ - 1] = x
    BY <2>1, <2>2, <2>4
  <2> HIDE DEF y
  <2>6. Reads(y) = Str(x)
    BY <2>4, <2>5 DEF Reads
  <2> QED
    BY <2>3, <2>6
<1>2. CASE "q" \notin DOMAIN x
  <2>1. Writes(Str(x)) = [json |-> Str(x)]
    BY <1>0, <1>2 DEF Writes
  <2> QED
    BY <2>1 DEF Reads
<1> QED
  BY <1>1, <1>2

LEMMA StructureBack ==
  ASSUME NEW j, j.j \in {"arr", "obj"} PROVE Reads(Writes(j)) = j
<1>1. Writes(j) = [json |-> j]
  BY DEF Writes
<1> QED
  BY <1>1 DEF Reads

(* Back(v, t): v is printed as t, and its JSON is read as v again, from a     *)
(* text as well; only an option prints null, and only a map an object that    *)
(* UnionRest would take for an array.                                         *)
IsBack(j, v, t) ==
  /\ Reads(Writes(j)) = j /\ j # NotJson
  /\ j = Null => t.t = "option"
  /\ j.j = "obj" /\ Bare("0") \in DOMAIN j.o => Unwrapped(t).t = "map"

Back(v, t) ==
  LET r == XdrToJson(v, t)
  IN  r.is = "ok" /\ IsBack(r.v, v, t) /\ FromJson(r.v, t) = Ok(v)

(* The same of the calls.                                                     *)
BackCall(v, t) ==
  LET r == XdrToJsonCall(v, t)
  IN  /\ r.is = "ok" /\ r.v \in Jsons /\ Writes(r.v) \in Texts
      /\ IsBack(r.v, v, t) /\ FromJsonCall(r.v, t) = Ok(v)

LEMMA BackOfCalls ==
  ASSUME NEW t \in BackTypes, NEW v \in ValuesOf(t), Back(v, t)
  PROVE  BackCall(v, t)
<1>1. t \in SpecTypes
  BY BackAssumption DEF BackType
<1> DEFINE r == XdrToJson(v, t)
<1>2. /\ XdrToJsonCall(v, t) = r /\ r.is = "ok" /\ IsBack(r.v, v, t) /\ FromJson(r.v, t) = Ok(v)
      /\ r.v \in Jsons /\ Writes(r.v) \in Texts
  BY BackAssumption DEF Back
<1> HIDE DEF r
<1> QED
  BY <1>1, <1>2, CallsAssumption DEF BackCall

(* The parts of v come back, and v as a type with fewer options around it.    *)
BackBelow(v) ==
  \A t \in BackTypes : \A x \in ValuesOf(t) : Size[x] < Size[v] => BackCall(x, t)

LEMMA OkHas == \A x : Ok(x).is = "ok" /\ Ok(x).v = x
BY DEF Ok

LEMMA CollectAll ==
  ASSUME NEW rs, \A i \in DOMAIN rs : rs[i].is = "ok"
  PROVE  Collect(rs) = Ok([i \in DOMAIN rs |-> rs[i].v])
BY DEF Collect

(* Values that are printed one by one, each as its type.                      *)
Printings(us, ts, n) == [i \in 1 .. n |-> XdrToJsonCall(us[i], ts[i])]
PrintedAll(us, ts, n) == [i \in 1 .. n |-> XdrToJsonCall(us[i], ts[i]).v]

(* And read again.                                                            *)
Rereadings(js, ts, n) == [i \in 1 .. n |-> FromJsonCall(js[i], ts[i])]

LEMMA AllBack ==
  ASSUME NEW n \in Nat, NEW us, NEW ts, \A i \in 1 .. n : BackCall(us[i], ts[i])
  PROVE  LET js == PrintedAll(us, ts, n)
         IN  /\ Collect(Printings(us, ts, n)) = Ok(js)
             /\ us = [i \in 1 .. n |-> us[i]] => Collect(Rereadings(js, ts, n)) = Ok(us)
             /\ js \in Seq(Jsons) /\ Len(js) = n /\ DOMAIN js = 1 .. n
             /\ \A i \in 1 .. n : js[i] = XdrToJsonCall(us[i], ts[i]).v
<1> DEFINE js == PrintedAll(us, ts, n)
           rs == [i \in 1 .. n |-> XdrToJsonCall(us[i], ts[i])]
           bs == [i \in 1 .. n |-> FromJsonCall(js[i], ts[i])]
<1>1. DOMAIN js = 1 .. n /\ \A i \in 1 .. n : js[i] = XdrToJsonCall(us[i], ts[i]).v
  BY DEF PrintedAll
<1>2. \A i \in 1 .. n : rs[i].is = "ok" /\ rs[i].v = js[i]
  BY <1>1 DEF BackCall
<1>3. \A i \in 1 .. n : bs[i] = Ok(us[i])
  <2>1. \A i \in 1 .. n : FromJsonCall(js[i], ts[i]) = Ok(us[i])
    BY <1>1 DEF BackCall
  <2> QED
    BY <2>1
<1>5. js = [i \in 1 .. n |-> js[i]]
  BY DEF PrintedAll
<1>4. js \in [1 .. n -> Jsons]
  <2>1. \A i \in 1 .. n : js[i] \in Jsons
    BY <1>1 DEF BackCall
  <2> HIDE DEF js
  <2> QED
    BY <1>5, <2>1
<1> HIDE DEF js
<1>6. js \in Seq(Jsons) /\ Len(js) = n
  <2>1. js \in Seq(Jsons)
    BY <1>4
  <2> QED
    BY <1>4, <2>1
<1>7. Collect(rs) = Ok(js)
  <2>1. DOMAIN rs = 1 .. n
    OBVIOUS
  <2> HIDE DEF rs
  <2>2. Collect(rs) = Ok([i \in 1 .. n |-> rs[i].v])
    BY <1>2, <2>1, CollectAll
  <2>3. [i \in 1 .. n |-> rs[i].v] = js
    BY <1>2, <1>5
  <2> QED
    BY <2>2, <2>3
<1>8. Collect(bs) = Ok([i \in 1 .. n |-> us[i]])
  <2>1. DOMAIN bs = 1 .. n
    OBVIOUS
  <2> HIDE DEF bs
  <2>2. \A i \in 1 .. n : bs[i].is = "ok" /\ bs[i].v = us[i]
    BY <1>3, OkHas
  <2>3. Collect(bs) = Ok([i \in 1 .. n |-> bs[i].v])
    BY <2>1, <2>2, CollectAll
  <2>4. [i \in 1 .. n |-> bs[i].v] = [i \in 1 .. n |-> us[i]]
    BY <2>2
  <2> QED
    BY <2>3, <2>4
<1>9. rs = Printings(us, ts, n) /\ bs = Rereadings(js, ts, n)
  BY DEF Printings, Rereadings
<1> HIDE DEF rs, bs
<1> QED
  BY <1>1, <1>6, <1>7, <1>8, <1>9 DEF js

LEMMA SeqAsFunction ==
  ASSUME NEW S, NEW s \in Seq(S)
  PROVE  Len(s) \in Nat /\ DOMAIN s = 1 .. Len(s) /\ s = [i \in 1 .. Len(s) |-> s[i]]
OBVIOUS

LEMMA NoPrimitives ==
  ASSUME NEW t, t.t \in {"option", "vec", "tuple", "map", "udt"}
  PROVE  t.t \notin Primitives /\ t.t \notin Prints /\ t.t # "result"
BY DEF Primitives, Prints, Ints, Words, Wide

LEMMA ArrayBack ==
  ASSUME NEW a, NEW v, NEW t PROVE IsBack(Arr(a), v, t) /\ Arr(a).j = "arr" /\ Arr(a).a = a
<1>1. Arr(a).j = "arr" /\ Arr(a).a = a
  BY DEF Arr
<1>2. Reads(Writes(Arr(a))) = Arr(a)
  BY <1>1, StructureBack
<1>3. Arr(a) # NotJson /\ Arr(a) # Null
  BY DEF Arr, NotJson, Null
<1> QED
  BY <1>1, <1>2, <1>3 DEF IsBack

(* The parts of a sequence of values.                                         *)
LEMMA PartsBack ==
  ASSUME NEW v, BackBelow(v), NEW s, NEW types, Parts(s, types, v),
         \A i \in DOMAIN types : types[i] \in BackTypes, NEW T, types \in Seq(T)
  PROVE  LET n == Len(types)
             js == PrintedAll(s, types, n)
         IN  /\ n \in Nat /\ Len(s) = n /\ DOMAIN s = 1 .. n /\ DOMAIN types = 1 .. n
             /\ s = [i \in 1 .. n |-> s[i]]
             /\ \A i \in 1 .. n : BackCall(s[i], types[i])
             /\ ZipToJson(s, types) = Ok(Arr(js))
             /\ Collect(Rereadings(js, types, n)) = Ok(s)
             /\ js \in Seq(Jsons) /\ Len(js) = n /\ DOMAIN js = 1 .. n
             /\ \A i \in 1 .. n : js[i] = XdrToJsonCall(s[i], types[i]).v
<1> DEFINE n == Len(types)
           js == PrintedAll(s, types, n)
<1>1. n \in Nat /\ Len(s) = n /\ DOMAIN s = 1 .. n /\ DOMAIN types = 1 .. n
      /\ s = [i \in 1 .. n |-> s[i]]
  <2>1. s \in Seq(DOMAIN Size) /\ Len(s) = n
    BY DEF Parts
  <2>2. n \in Nat /\ DOMAIN types = 1 .. n
    OBVIOUS
  <2>3. DOMAIN s = 1 .. Len(s) /\ s = [i \in 1 .. Len(s) |-> s[i]]
    BY <2>1, SeqAsFunction
  <2> QED
    BY <2>1, <2>2, <2>3
<1>2. \A i \in 1 .. n : BackCall(s[i], types[i])
  BY <1>1 DEF Parts, PartOf, BackBelow
<1> HIDE DEF n
<1>3. /\ Collect(Printings(s, types, n)) = Ok(js) /\ Collect(Rereadings(js, types, n)) = Ok(s)
      /\ js \in Seq(Jsons) /\ Len(js) = n /\ DOMAIN js = 1 .. n
      /\ \A i \in 1 .. n : js[i] = XdrToJsonCall(s[i], types[i]).v
  BY <1>1, <1>2, AllBack
<1>4. MinLen(s, types) = n
  BY <1>1 DEF MinLen, n
<1> HIDE DEF js
<1>5. ZipToJson(s, types) = Ok(Arr(js))
  <2>1. [i \in 1 .. n |-> XdrToJsonCall(s[i], types[i])] = Printings(s, types, n)
    BY DEF Printings
  <2> QED
    BY <1>3, <1>4, <2>1, OkHas DEF ZipToJson, Then
<1> QED
  BY <1>1, <1>2, <1>3, <1>5 DEF n, js

LEMMA VecBack ==
  ASSUME NEW t \in BackTypes, NEW v \in ValuesOf(t), t.t = "vec", BackBelow(v)
  PROVE  Back(v, t)
<1>1. t.of \in BackTypes /\ v = VecVal(v.v) /\ v.v \in Seq(DOMAIN Size)
      /\ \A i \in DOMAIN v.v : PartOf(v.v[i], t.of, v)
  BY BackAssumption DEF BackType, ValueOf
<1> DEFINE s == v.v
           n == Len(s)
           ts == [i \in 1 .. n |-> t.of]
           js == PrintedAll(s, ts, n)
<1>2. n \in Nat /\ DOMAIN s = 1 .. n /\ s = [i \in 1 .. n |-> s[i]]
  BY <1>1, SeqAsFunction
<1>3. \A i \in 1 .. n : ts[i] = t.of /\ BackCall(s[i], ts[i])
  BY <1>1, <1>2 DEF PartOf, BackBelow
<1>4. /\ [i \in DOMAIN s |-> XdrToJsonCall(s[i], t.of)] = Printings(s, ts, n)
  BY <1>2, <1>3 DEF Printings
<1>4a. \A a : DOMAIN a = 1 .. n =>
         [i \in DOMAIN a |-> FromJsonCall(a[i], t.of)] = Rereadings(a, ts, n)
  BY <1>3 DEF Rereadings
<1> HIDE DEF ts, n
<1>5. /\ Collect(Printings(s, ts, n)) = Ok(js)
      /\ Collect(Rereadings(js, ts, n)) = Ok(s)
      /\ DOMAIN js = 1 .. n
  BY <1>2, <1>3, AllBack
<1> HIDE DEF js
<1>6. v.sc = "vec" /\ v # Void
  <2>1. VecVal(v.v).sc = "vec" /\ VecVal(v.v) # Void
    BY DEF VecVal, Void
  <2> QED
    BY <1>1, <2>1
<1>7. XdrToJson(v, t) = VecMToJson(s, t.of)
  BY <1>6, NoPrimitives DEF XdrToJson, ScObjectToJson
<1>8. VecMToJson(s, t.of) = Ok(Arr(js))
  BY <1>4, <1>5, OkHas DEF VecMToJson, Then
<1>9. FromJson(Arr(js), t) = Then(Collect([i \in DOMAIN js |-> FromJsonCall(js[i], t.of)]), VecVal)
  <2> DEFINE j == Arr(js)
  <2>1. j.j = "arr" /\ j.a = js
    BY ArrayBack
  <2> HIDE DEF j
  <2>2. FromJson(j, t) = Then(Collect([i \in DOMAIN j.a |-> FromJsonCall(j.a[i], t.of)]), VecVal)
    BY <2>1, NoPrimitives DEF FromJson
  <2> QED
    BY <2>1, <2>2 DEF j
<1>10. Collect([i \in DOMAIN js |-> FromJsonCall(js[i], t.of)]) = Ok(s)
  BY <1>2, <1>4a, <1>5
<1>11. FromJson(Arr(js), t) = Ok(v)
  BY <1>1, <1>9, <1>10, OkHas DEF Then
<1>12. IsBack(Arr(js), v, t)
  BY ArrayBack
<1> QED
  BY <1>7, <1>8, <1>11, <1>12, OkHas DEF Back

LEMMA TupleBack ==
  ASSUME NEW t \in BackTypes, NEW v \in ValuesOf(t), t.t = "tuple", BackBelow(v)
  PROVE  Back(v, t)
<1>1. /\ t \in SpecTypes /\ \A i \in DOMAIN t.types : t.types[i] \in BackTypes
      /\ v = VecVal(v.v) /\ Parts(v.v, t.types, v)
  BY BackAssumption DEF BackType, ValueOf
<1>2. t.types \in Seq(SpecTypes)
  BY <1>1, TypesAssumption
<1> DEFINE s == v.v
           n == Len(t.types)
           js == PrintedAll(s, t.types, n)
<1>3. /\ ZipToJson(s, t.types) = Ok(Arr(js))
      /\ Collect(Rereadings(js, t.types, n)) = Ok(s)
      /\ Len(js) = n /\ DOMAIN js = 1 .. n
  BY <1>1, <1>2, PartsBack
<1> HIDE DEF js
<1>6. v.sc = "vec" /\ v # Void
  <2>1. VecVal(v.v).sc = "vec" /\ VecVal(v.v) # Void
    BY DEF VecVal, Void
  <2> QED
    BY <1>1, <2>1
<1>7. XdrToJson(v, t) = ZipToJson(s, t.types)
  BY <1>6, NoPrimitives DEF XdrToJson, ScObjectToJson
<1>8. FromJson(Arr(js), t) = ParseTuple(t, js)
  <2> DEFINE j == Arr(js)
  <2>1. j.j = "arr" /\ j.a = js
    BY ArrayBack
  <2> HIDE DEF j
  <2>2. FromJson(j, t) = ParseTuple(t, j.a)
    BY <2>1, NoPrimitives DEF FromJson
  <2> QED
    BY <2>1, <2>2 DEF j
<1>9. ParseTuple(t, js) = Then(Ok(s), VecVal)
  <2>1. [i \in DOMAIN js |-> FromJsonCall(js[i], t.types[i])] = Rereadings(js, t.types, n)
    BY <1>3 DEF Rereadings
  <2> QED
    BY <1>3, <2>1 DEF ParseTuple
<1>10. FromJson(Arr(js), t) = Ok(v)
  BY <1>1, <1>8, <1>9, OkHas DEF Then
<1>11. IsBack(Arr(js), v, t)
  BY ArrayBack
<1> QED
  BY <1>3, <1>7, <1>10, <1>11, OkHas DEF Back

(* The integers of a type are within those that have words.                   *)
LEMMA WidthBound ==
  ASSUME NEW t \in Ints
  PROVE  Width(t) \subseteq Low .. High /\ (t \notin Wide => Width(t) \subseteq Low .. U64Max)
<1> USE DEF Ints, Wide
<1>1. CASE t = "u32"
  <2>1. Width(t) = 0 .. 2
    BY <1>1 DEF Width
  <2> QED
    BY <2>1 DEF Low, High, U64Max
<1>2. CASE t = "i32"
  <2>1. Width(t) = -1 .. 1
    BY <1>2 DEF Width
  <2> QED
    BY <2>1 DEF Low, High, U64Max
<1>3. CASE t = "u64"
  <2>1. Width(t) = 0 .. U64Max
    BY <1>3 DEF Width
  <2> QED
    BY <2>1 DEF Low, High, U64Max
<1>4. CASE t = "i64"
  <2>1. Width(t) = Low .. 6
    BY <1>4 DEF Width
  <2> QED
    BY <2>1 DEF Low, High, U64Max
<1>5. CASE t \in {"u128", "u256"}
  <2>1. Width(t) = 0 .. High
    BY <1>5 DEF Width
  <2> QED
    BY <1>5, <2>1 DEF Low, High
<1>6. CASE t \in {"i128", "i256"}
  <2>1. Width(t) = Low .. High
    BY <1>6 DEF Width
  <2> QED
    BY <1>6, <2>1
<1> QED
  BY <1>1, <1>2, <1>3, <1>4, <1>5, <1>6

LEMMA InRangeOne ==
  ASSUME NEW n, NEW t, n \in Width(t) PROVE InRange({n}, t) = Ok([sc |-> t, n |-> n])
<1>1. (CHOOSE m \in {n} : m \in Width(t)) = n
  OBVIOUS
<1> QED
  BY <1>1 DEF InRange

(* A value of a primitive type is printed without looking at its parts.       *)
LEMMA PrintsPrimitive ==
  ASSUME NEW t, NEW v, t.t \in Primitives, v # Void, v.sc = t.t \/ (v.sc = "bytes" /\ t.t = "bytesn"),
         NEW j, ToJson(v) = j, FromJsonPrimitives(j, t) = Ok(v), IsBack(j, v, t)
  PROVE  Back(v, t)
<1>1. t.t \in Prints /\ t.t \notin {"val", "option", "tuple"}
  BY DEF Prints, Primitives, Ints, Words, Wide
<1>2. XdrToJson(v, t) = Ok(j)
  BY <1>1 DEF XdrToJson
<1>3. FromJson(j, t) = Ok(v)
  BY DEF FromJson, Primitives, Ints, Words, Wide
<1> QED
  BY <1>2, <1>3, OkHas DEF Back

LEMMA StringBack ==
  ASSUME NEW x, IsText(x), NEW v, NEW t
  PROVE  IsBack(Str(x), v, t) /\ Str(x).j = "str" /\ Str(x).s = x
<1>1. Str(x).j = "str" /\ Str(x).s = x
  BY DEF Str
<1>2. Str(x) # NotJson /\ Str(x) # Null
  BY DEF Str, NotJson, Null
<1> QED
  BY <1>1, <1>2, StrBack DEF IsBack

LEMMA NumberBack ==
  ASSUME NEW n \in Low .. U64Max, NEW v, NEW t
  PROVE  IsBack(Num(n), v, t) /\ Num(n).j = "num" /\ Num(n).n = n
<1>1. Num(n).j = "num" /\ Num(n).n = n
  BY DEF Num
<1>2. Num(n) # NotJson /\ Num(n) # Null
  BY DEF Num, NotJson, Null
<1> QED
  BY <1>1, <1>2, NumBack DEF IsBack

LEMMA BareText == ASSUME NEW w PROVE IsText(Bare(w)) /\ IsBare(Bare(w)) /\ Bare(w).w = w
BY DEF Bare, IsText, IsBare

LEMMA WideBack ==
  ASSUME NEW t \in BackTypes, NEW v \in ValuesOf(t), t.t \in Wide PROVE Back(v, t)
<1>p. t.t \in Ints /\ t.t \in Primitives
  BY DEF Ints, Primitives
<1>1. v = [sc |-> t.t, n |-> v.n] /\ v.n \in Width(t.t)
  BY <1>p, BackAssumption DEF ValueOf
<1>2. v.n \in Low .. High
  BY <1>p, <1>1, WidthBound
<1>3. v.sc = t.t /\ v # Void
  <2>1. [sc |-> t.t, n |-> v.n].sc = t.t
    OBVIOUS
  <2>2. v.sc = t.t
    BY <1>1, <2>1
  <2> QED
    BY <2>2 DEF Void, Wide
<1> DEFINE x == Bare(IntWords[v.n])
<1>4. ToJson(v) = Str(x)
  BY <1>3 DEF ToJson, Wide, Words
<1>5. IntOf(x) = {v.n} /\ IsText(x)
  BY <1>2, IntBack, BareText
<1> HIDE DEF x
<1>6. IsBack(Str(x), v, t) /\ Str(x).j = "str" /\ Str(x).s = x
  BY <1>5, StringBack
<1>7. FromJsonPrimitives(Str(x), t) = InRange(IntOf(x), t.t)
  <2> DEFINE j == Str(x)
  <2> HIDE DEF j
  <2>1. j.j = "str" /\ j.s = x
    BY <1>6 DEF j
  <2>2. FromJsonPrimitives(j, t) = InRange(IntOf(j.s), t.t)
    BY <2>1 DEF FromJsonPrimitives, Wide, Ints, Words
  <2> QED
    BY <2>1, <2>2 DEF j
<1>8. FromJsonPrimitives(Str(x), t) = Ok(v)
  BY <1>1, <1>5, <1>7, InRangeOne
<1> QED
  BY <1>p, <1>3, <1>4, <1>6, <1>8, PrintsPrimitive

LEMMA NarrowBack ==
  ASSUME NEW t \in BackTypes, NEW v \in ValuesOf(t), t.t \in Ints \ Wide PROVE Back(v, t)
<1>p. t.t \in Primitives
  BY DEF Primitives
<1>1. v = [sc |-> t.t, n |-> v.n] /\ v.n \in Width(t.t)
  BY BackAssumption DEF ValueOf
<1>2. v.n \in Low .. U64Max
  BY <1>1, WidthBound
<1>3. v.sc = t.t /\ v # Void
  <2>1. [sc |-> t.t, n |-> v.n].sc = t.t
    OBVIOUS
  <2>2. v.sc = t.t
    BY <1>1, <2>1
  <2> QED
    BY <2>2 DEF Void, Wide, Ints
<1> DEFINE j == Num(v.n)
<1>4. ToJson(v) = j
  BY <1>3 DEF ToJson, Wide, Ints, Words
<1>5. IsBack(j, v, t) /\ j.j = "num" /\ j.n = v.n
  BY <1>2, NumberBack
<1> HIDE DEF j
<1>6. ~ IsFloat(j.n)
  BY <1>2, <1>5 DEF IsFloat, Low, U64Max
<1>7. FromJsonPrimitives(j, t) = InRange(IF IsFloat(j.n) THEN {} ELSE {j.n}, t.t)
  BY <1>5 DEF FromJsonPrimitives, Wide, Ints, Words
<1>8. FromJsonPrimitives(j, t) = Ok(v)
  BY <1>1, <1>5, <1>6, <1>7, InRangeOne
<1> QED
  BY <1>p, <1>3, <1>4, <1>5, <1>8, PrintsPrimitive

LEMMA TruthBack ==
  ASSUME NEW t \in BackTypes, NEW v \in ValuesOf(t), t.t = "bool" PROVE Back(v, t)
<1>1. PICK b \in BOOLEAN : v = [sc |-> "bool", b |-> b]
  BY BackAssumption DEF ValueOf
<1>2. v.sc = "bool" /\ v.b = b /\ v # Void /\ t.t \in Primitives
  BY <1>1 DEF Void, Primitives
<1> DEFINE j == Bool(b)
<1>3. ToJson(v) = j
  BY <1>2 DEF ToJson, Wide, Words
<1>4. j.j = "bool" /\ j.b = b /\ j # NotJson /\ j # Null
  BY DEF Bool, NotJson, Null
<1>5. Reads(Writes(j)) = j
  BY BoolBack
<1> HIDE DEF j
<1>6. FromJsonPrimitives(j, t) = Ok([sc |-> "bool", b |-> j.b])
  BY <1>4 DEF FromJsonPrimitives
<1>7. IsBack(j, v, t)
  BY <1>4, <1>5 DEF IsBack
<1>8. FromJsonPrimitives(j, t) = Ok(v)
  BY <1>1, <1>4, <1>6
<1> QED
  BY <1>2, <1>3, <1>7, <1>8, PrintsPrimitive

(* What is printed as a string has a text.                                    *)
LEMMA PrintedText ==
  ASSUME NEW t \in BackTypes, NEW v \in ValuesOf(t), NEW x, XdrToJson(v, t) = Ok(Str(x))
  PROVE  IsText(x)
<1>1. XdrToJson(v, t).is = "ok" /\ XdrToJson(v, t).v = Str(x)
  BY OkHas
<1>2. Str(x) \in Jsons
  BY <1>1, BackAssumption
<1>3. Str(x).j = "str" /\ Str(x).s = x
  BY DEF Str
<1>4. x \in Texts
  BY <1>2, <1>3 DEF Texts
<1> QED
  BY <1>4, InputsAssumption

LEMMA WordBack ==
  ASSUME NEW t \in BackTypes, NEW v \in ValuesOf(t), t.t \in Words PROVE Back(v, t)
<1>1. v = [sc |-> t.t, s |-> v.s]
  BY BackAssumption DEF ValueOf
<1>2. v.sc = t.t /\ v # Void /\ t.t \in Primitives /\ t.t \in Prints
  <2>1. [sc |-> t.t, s |-> v.s].sc = t.t
    OBVIOUS
  <2>2. v.sc = t.t
    BY <1>1, <2>1
  <2> QED
    BY <2>2 DEF Void, Words, Primitives, Prints
<1> DEFINE j == Str(v.s)
<1>3. ToJson(v) = j
  BY <1>2 DEF ToJson, Words, Wide
<1>4. XdrToJson(v, t) = Ok(j)
  BY <1>2, <1>3 DEF XdrToJson
<1>5. IsText(v.s)
  BY <1>4, PrintedText
<1>6. IsBack(j, v, t) /\ j.j = "str" /\ j.s = v.s
  BY <1>5, StringBack
<1> HIDE DEF j
<1>7. FromJsonPrimitives(j, t) = Ok([sc |-> t.t, s |-> j.s])
  BY <1>6 DEF FromJsonPrimitives, Words, Ints, Wide
<1>8. FromJsonPrimitives(j, t) = Ok(v)
  BY <1>1, <1>6, <1>7
<1> QED
  BY <1>2, <1>3, <1>6, <1>8, PrintsPrimitive

LEMMA AddressBack ==
  ASSUME NEW t \in BackTypes, NEW v \in ValuesOf(t), t.t = "address" PROVE Back(v, t)
<1>1. PICK w \in DOMAIN Strkeys : v = [sc |-> "address", s |-> Bare(w)]
  BY BackAssumption DEF ValueOf
<1> DEFINE x == Bare(w)
           j == Str(x)
<1>2. v.sc = "address" /\ v.s = x /\ v # Void /\ t.t \in Primitives
  BY <1>1 DEF Void, Primitives
<1>3. ToJson(v) = j
  BY <1>2 DEF ToJson, Words, Wide
<1>4. IsText(x) /\ IsBare(x) /\ x.w = w
  BY BareText
<1> HIDE DEF x
<1>5. IsBack(j, v, t) /\ j.j = "str" /\ j.s = x
  BY <1>4, StringBack
<1> HIDE DEF j
<1>6. FromJsonPrimitives(j, t) = AddressFromJson(j.s)
  BY <1>5 DEF FromJsonPrimitives, Words, Ints, Wide
<1>7. AddressFromJson(x) = Ok([sc |-> "address", s |-> x])
  BY <1>1, <1>4 DEF AddressFromJson
<1>8. FromJsonPrimitives(j, t) = Ok(v)
  BY <1>1, <1>5, <1>6, <1>7 DEF x
<1> QED
  BY <1>2, <1>3, <1>5, <1>8, PrintsPrimitive

(* The word of digits stands for them, and for no address.                    *)
LEMMA HexBack ==
  ASSUME NEW u \in DOMAIN HexDigits, NEW h, h = HexDigits[u]
  PROVE  /\ IsText(HexText(h)) /\ IsBare(HexText(h))
         /\ HexText(h) = Bare(HexText(h).w)
         /\ Hex(HexText(h)) = {h} /\ (CHOOSE g \in Hex(HexText(h)) : TRUE) = h
         /\ h \in Seq(0 .. 15)
         /\ AddressFromJson(HexText(h)) = Err
<1> DEFINE w == CHOOSE w \in DOMAIN HexDigits : HexDigits[w] = h
           x == HexText(h)
<1>1. w \in DOMAIN HexDigits /\ HexDigits[w] = h
  OBVIOUS
<1>2. x = Bare(w)
  BY DEF HexText
<1> HIDE DEF w
<1>3. IsText(x) /\ IsBare(x) /\ x.w = w
  BY <1>2, BareText
<1> HIDE DEF x
<1>4. Hex(x) = {h}
  BY <1>1, <1>3 DEF Hex
<1>5. (CHOOSE g \in Hex(x) : TRUE) = h
  BY <1>4
<1>6. h \in Seq(0 .. 15) /\ w \notin DOMAIN Strkeys
  BY <1>1, WordsAssumption
<1>7. AddressFromJson(x) = Err
  BY <1>3, <1>6 DEF AddressFromJson
<1> QED
  BY <1>2, <1>3, <1>4, <1>5, <1>6, <1>7 DEF x

LEMMA BytesBack ==
  ASSUME NEW t \in BackTypes, NEW v \in ValuesOf(t), t.t \in {"bytes", "bytesn"} PROVE Back(v, t)
<1>1. PICK u \in DOMAIN HexDigits : v = [sc |-> "bytes", h |-> HexDigits[u]]
  BY BackAssumption DEF ValueOf
<1> DEFINE h == HexDigits[u]
           x == HexText(h)
           j == Str(x)
<1>2. v.sc = "bytes" /\ v.h = h /\ v # Void /\ t.t \in Primitives
  BY <1>1 DEF Void, Primitives
<1>3. ToJson(v) = j
  BY <1>2 DEF ToJson, Words, Wide
<1>4. IF t.t = "bytes" THEN Len(h) % 2 = 0 ELSE Len(h) = 2 * t.n
  BY <1>2, BackAssumption DEF ValueOf
<1>4a. v = [sc |-> "bytes", h |-> h]
  BY <1>1
<1> HIDE DEF h
<1>5. /\ IsText(x) /\ IsBare(x) /\ Hex(x) = {h} /\ (CHOOSE g \in Hex(x) : TRUE) = h
      /\ h \in Seq(0 .. 15) /\ AddressFromJson(x) = Err
  BY HexBack DEF h
<1> HIDE DEF x
<1>6. IsBack(j, v, t) /\ j.j = "str" /\ j.s = x
  BY <1>5, StringBack
<1> HIDE DEF j
<1>7. FromJsonPrimitives(j, t) =
        IF t.t = "bytes" THEN HexDecode(j.s)
        ELSE IF t.n = AddressBytes /\ AddressFromJson(j.s).is = "ok"
             THEN AddressFromJson(j.s) ELSE PaddedHex(j.s, t.n)
  <2>1. AsText(j) = j.s
    BY <1>6 DEF AsText
  <2> QED
    BY <1>6, <2>1, ReadHex
<1>8. CASE t.t = "bytes"
  <2>1. HexDecode(x) = Ok(v)
    BY <1>4, <1>4a, <1>5, <1>8 DEF HexDecode
  <2>2. FromJsonPrimitives(j, t) = Ok(v)
    BY <1>6, <1>7, <1>8, <2>1
  <2> QED
    BY <1>2, <1>3, <1>6, <2>2, PrintsPrimitive DEF j
<1>9. CASE t.t = "bytesn"
  <2>1. t.n \in Nat /\ Len(h) = 2 * t.n
    BY <1>4, <1>9, BackAssumption, TypesAssumption DEF BackType
  <2>2. AddressFromJson(x).is # "ok"
    BY <1>5 DEF Err
  <2>3. Len(h) <= t.n * 2 /\ t.n * 2 - Len(h) = 0
    BY <2>1
  <2>4. [i \in 1 .. (t.n * 2 - Len(h)) |-> 0] \o h = h
    <3>1. [i \in 1 .. (t.n * 2 - Len(h)) |-> 0] = <<>>
      BY <2>3
    <3>2. <<>> \o h = h
      BY <1>5
    <3> QED
      BY <3>1, <3>2
  <2>5. PaddedHex(x, t.n) = Ok([sc |-> "bytes", h |-> h])
    <3>1. \E g \in Hex(x) : Len(g) <= t.n * 2
      BY <1>5, <2>3
    <3> QED
      BY <1>5, <2>4, <3>1 DEF PaddedHex
  <2>6. FromJsonPrimitives(j, t) = Ok(v)
    BY <1>4a, <1>6, <1>7, <1>9, <2>2, <2>5
  <2> QED
    BY <1>2, <1>3, <1>6, <2>6, PrintsPrimitive DEF j
<1> QED
  BY <1>8, <1>9

LEMMA OptionBack ==
  ASSUME NEW t \in BackTypes, NEW v \in ValuesOf(t), t.t = "option",
         v \in ValuesOf(t.of) => BackCall(v, t.of)
  PROVE  Back(v, t)
<1>1. t.of \in BackTypes /\ t.of.t # "option" /\ (v = Void \/ v \in ValuesOf(t.of))
  BY BackAssumption DEF BackType, ValueOf
<1>2. CASE v = Void
  <2>1. XdrToJson(v, t) = Ok(Null)
    BY <1>2 DEF XdrToJson
  <2>2. FromJson(Null, t) = Ok(v)
    BY <1>2, NoPrimitives DEF FromJson
  <2>3. Null.j = "null" /\ Null # NotJson
    BY DEF Null, NotJson
  <2>4. IsBack(Null, v, t)
    BY <2>3, NullBack DEF IsBack
  <2> QED
    BY <2>1, <2>2, <2>4, OkHas DEF Back
<1>3. CASE v # Void
  <2>1. BackCall(v, t.of)
    BY <1>1, <1>3
  <2> DEFINE r == XdrToJsonCall(v, t.of)
  <2>2. XdrToJson(v, t) = r
    BY <1>3, NoPrimitives DEF XdrToJson
  <2>3. r.is = "ok" /\ IsBack(r.v, v, t.of) /\ FromJsonCall(r.v, t.of) = Ok(v)
    BY <2>1 DEF BackCall
  <2> HIDE DEF r
  <2>4. r.v # Null
    BY <1>1, <2>3 DEF IsBack
  <2>5. FromJson(r.v, t) = Ok(v)
    BY <2>3, <2>4, NoPrimitives DEF FromJson
  <2>6. IsBack(r.v, v, t)
    <3>1. Unwrapped(t) = t.of /\ Unwrapped(t.of) = t.of
      BY <1>1 DEF Unwrapped
    <3> QED
      BY <2>3, <2>4, <3>1 DEF IsBack
  <2> QED
    BY <2>2, <2>3, <2>5, <2>6 DEF Back
<1> QED
  BY <1>2, <1>3

-----------------------------------------------------------------------------
(* A map is sorted again as it was.                                           *)

LEMMA SetToSeqOnto ==
  ASSUME NEW S, IsFiniteSet(S)
  PROVE  SetToSeq(S) \in Bijection(1 .. Cardinality(S), S)
<1>1. ExistsBijection(1 .. Cardinality(S), S) /\ Cardinality(S) \in Nat
  BY FS_CardinalityType
<1>2. PICK f \in Bijection(1 .. Cardinality(S), S) : TRUE
  BY <1>1 DEF ExistsBijection
<1>3. f \in [1 .. Cardinality(S) -> S] /\ IsInjective(f)
  BY <1>2 DEF Bijection, Injection, IsInjective
<1> DEFINE g == SetToSeq(S)
           n == Cardinality(S)
<1>4. g \in [1 .. n -> S] /\ IsInjective(g)
  BY <1>3 DEF SetToSeq
<1> HIDE DEF g
<1>5. g \in Injection(1 .. n, S)
  BY <1>4 DEF Injection, IsInjective
<1>6. IsFiniteSet(1 .. n) /\ Cardinality(1 .. n) = n
  BY <1>1, FS_Interval
<1>7. g \in Surjection(1 .. n, S)
  BY <1>5, <1>6, FS_Injection
<1> QED
  BY <1>5, <1>7 DEF Bijection, g

(* The keys of a map ascend, not only from one to the next.                   *)
LEMMA AscendsFar ==
  ASSUME NEW n \in Nat, NEW m, NEW Keys, Ordered(Keys),
         \A i \in 1 .. n : m[i].key \in Keys,
         \A i \in 2 .. n : KeyLess(m[i - 1].key, m[i].key)
  PROVE  \A i, k \in 1 .. n : i < k => KeyLess(m[i].key, m[k].key)
<1> SUFFICES ASSUME NEW i \in 1 .. n PROVE \A k \in 1 .. n : i < k => KeyLess(m[i].key, m[k].key)
  OBVIOUS
<1> DEFINE Bad == {k \in 1 .. n : i < k /\ ~ KeyLess(m[i].key, m[k].key)}
<1> SUFFICES ASSUME Bad # {} PROVE FALSE
  OBVIOUS
<1>1. Bad \subseteq Nat
  OBVIOUS
<1>2. PICK k \in Bad : \A y \in Bad : k <= y
  <2> HIDE DEF Bad
  <2> QED
    BY <1>1, Least
<1>3. k \in 2 .. n /\ k - 1 \in 1 .. n /\ k \in 1 .. n /\ ~ (k <= k - 1)
  OBVIOUS
<1>4. KeyLess(m[k - 1].key, m[k].key)
  BY <1>3
<1>5. CASE i = k - 1
  BY <1>4, <1>5
<1>6. CASE i < k - 1
  <2>1. k - 1 \notin Bad
    BY <1>2, <1>3
  <2>2. KeyLess(m[i].key, m[k - 1].key)
    BY <1>3, <1>6, <2>1
  <2>3. m[i].key \in Keys /\ m[k - 1].key \in Keys /\ m[k].key \in Keys
    BY <1>3
  <2>4. KeyLess(m[i].key, m[k].key)
    BY <1>4, <2>2, <2>3 DEF Ordered
  <2> QED
    BY <2>4
<1> QED
  BY <1>2, <1>5, <1>6

(* Entries of a map in any order are sorted into the map.                     *)
LEMMA SortedAgain ==
  ASSUME NEW n \in Nat, NEW S, NEW m \in [1 .. n -> S], NEW Keys, Ordered(Keys),
         \A i \in 1 .. n : m[i].key \in Keys,
         \A i \in 2 .. n : KeyLess(m[i - 1].key, m[i].key),
         NEW p \in Bijection(1 .. n, 1 .. n), NEW entries, entries = [i \in 1 .. n |-> m[p[i]]]
  PROVE  SortedFrom(entries) = Ok([sc |-> "map", m |-> m])
<1>p. /\ p \in [1 .. n -> 1 .. n] /\ \A i, k \in 1 .. n : p[i] = p[k] => i = k
      /\ \A i \in 1 .. n : \E k \in 1 .. n : p[k] = i
  BY DEF Bijection, Injection, IsInjective, Surjection
<1>1. \A i, k \in 1 .. n : KeyLess(m[i].key, m[k].key) <=> i < k
  <2>1. \A i, k \in 1 .. n : i < k => KeyLess(m[i].key, m[k].key)
    BY AscendsFar
  <2>2. \A i, k \in 1 .. n : KeyLess(m[i].key, m[k].key) => ~ KeyLess(m[k].key, m[i].key)
    BY DEF Ordered
  <2>3. \A i \in 1 .. n : ~ KeyLess(m[i].key, m[i].key)
    BY DEF Ordered
  <2>4. \A i, k \in 1 .. n : i < k \/ i = k \/ k < i
    OBVIOUS
  <2> QED
    BY <2>1, <2>2, <2>3, <2>4
<1>2. DOMAIN entries = 1 .. n /\ \A i \in 1 .. n : entries[i] = m[p[i]] /\ p[i] \in 1 .. n
  BY <1>p
<1>f. IsFiniteSet(1 .. n) /\ Cardinality(1 .. n) = n
  BY FS_Interval
<1> DEFINE before(k) == {l \in DOMAIN entries : KeyLess(entries[l].key, entries[k].key)}
<1>3. \A k \in 1 .. n : Cardinality(before(k)) = p[k] - 1
  <2> SUFFICES ASSUME NEW k \in 1 .. n PROVE Cardinality(before(k)) = p[k] - 1
    OBVIOUS
  <2>1. before(k) = {l \in 1 .. n : p[l] < p[k]}
    BY <1>1, <1>2
  <2> DEFINE B == {l \in 1 .. n : p[l] < p[k]}
             c == p[k] - 1
             g == [l \in B |-> p[l]]
  <2>2. c \in Nat /\ p[k] \in 1 .. n
    BY <1>p
  <2>3. g \in [B -> 1 .. c] /\ \A l, y \in B : g[l] = g[y] => l = y
    <3>1. \A l \in B : p[l] \in 1 .. c
      BY <1>p, <2>2
    <3>2. \A l, y \in B : p[l] = p[y] => l = y
      BY <1>p
    <3> HIDE DEF B, c
    <3> QED
      BY <3>1, <3>2
  <2>4. \A i \in 1 .. c : \E l \in B : g[l] = i
    <3> SUFFICES ASSUME NEW i \in 1 .. c PROVE \E l \in B : g[l] = i
      OBVIOUS
    <3>1. i \in 1 .. n /\ i < p[k]
      BY <2>2
    <3>2. PICK l \in 1 .. n : p[l] = i
      BY <1>p, <3>1
    <3> QED
      BY <3>1, <3>2
  <2>5. IsFiniteSet(1 .. c) /\ Cardinality(1 .. c) = c
    <3> HIDE DEF c
    <3> QED
      BY <2>2, FS_Interval
  <2>6. IsFiniteSet(B)
    BY <1>f, FS_Subset
  <2> HIDE DEF g, B, c
  <2>7. g \in Bijection(B, 1 .. c)
    BY <2>3, <2>4 DEF Bijection, Injection, IsInjective, Surjection
  <2>8. Cardinality(B) = Cardinality(1 .. c)
    BY <2>6, <2>7, FS_Bijection DEF ExistsBijection
  <2> QED
    BY <2>1, <2>5, <2>8 DEF B, c
<1> DEFINE at(i) == CHOOSE k \in DOMAIN entries : Cardinality(before(k)) = i - 1
<1>4. \A i \in 1 .. n : at(i) \in 1 .. n /\ p[at(i)] = i
  <2> SUFFICES ASSUME NEW i \in 1 .. n PROVE at(i) \in 1 .. n /\ p[at(i)] = i
    OBVIOUS
  <2>1. PICK k \in 1 .. n : p[k] = i
    BY <1>p
  <2>2. Cardinality(before(k)) = i - 1
    BY <1>3, <2>1
  <2> HIDE DEF before
  <2>3. at(i) \in 1 .. n /\ Cardinality(before(at(i))) = i - 1
    BY <1>2, <2>2
  <2> HIDE DEF at
  <2>4. p[at(i)] \in 1 .. n /\ p[at(i)] - 1 = i - 1
    BY <1>p, <1>3, <2>3
  <2> QED
    BY <2>3, <2>4
<1>5. InOrder(entries) = [i \in DOMAIN entries |-> entries[at(i)]]
  BY DEF InOrder
<1> HIDE DEF at, before
<1>6. InOrder(entries) = m
  <2>1. \A i \in 1 .. n : entries[at(i)] = m[i]
    BY <1>2, <1>4
  <2>2. m = [i \in 1 .. n |-> m[i]]
    OBVIOUS
  <2> QED
    BY <1>2, <1>5, <2>1, <2>2
<1> DEFINE keys == {entries[i].key : i \in DOMAIN entries}
           f == [i \in 1 .. n |-> entries[i].key]
<1>7. Cardinality(keys) = n /\ Len(entries) = n
  <2>1. f \in [1 .. n -> keys] /\ \A k \in keys : \E i \in 1 .. n : f[i] = k
    <3>1. DOMAIN entries = 1 .. n
      BY <1>2
    <3> QED
      BY ONLY <3>1
  <2>2. \A i, k \in 1 .. n : f[i] = f[k] => i = k
    <3> SUFFICES ASSUME NEW i \in 1 .. n, NEW k \in 1 .. n, f[i] = f[k] PROVE i = k
      OBVIOUS
    <3>0. entries[i].key = entries[k].key
      OBVIOUS
    <3>1. m[p[i]].key = m[p[k]].key
      <4> HIDE DEF f
      <4> QED
        BY <1>2, <3>0
    <3>2. ~ KeyLess(m[p[i]].key, m[p[k]].key) /\ ~ KeyLess(m[p[k]].key, m[p[i]].key)
      BY <1>2, <3>1 DEF Ordered
    <3>3. ~ (p[i] < p[k]) /\ ~ (p[k] < p[i]) /\ p[i] \in 1 .. n /\ p[k] \in 1 .. n
      BY <1>1, <1>2, <3>2
    <3>4. p[i] = p[k]
      BY <3>3
    <3> QED
      BY <1>p, <3>4
  <2> HIDE DEF f, keys
  <2>3. f \in Surjection(1 .. n, keys) /\ f \in Injection(1 .. n, keys)
    BY <2>1, <2>2 DEF Surjection, Injection, IsInjective
  <2>4. Cardinality(keys) = n
    BY <1>f, <2>3, FS_Surjection
  <2>5. entries \in Seq(S)
    BY <1>2
  <2> QED
    BY <1>2, <2>4, <2>5
<1> HIDE DEF keys
<1> QED
  BY <1>6, <1>7 DEF SortedFrom, keys

(* The members of an object, made of keys that are different.                 *)
LEMMA PairsHas ==
  ASSUME NEW n \in Nat, NEW keys, DOMAIN keys = 1 .. n, NEW vals,
         \A i, k \in 1 .. n : keys[i] = keys[k] => i = k
  PROVE  LET o == Pairs(keys, vals).o
         IN  /\ Pairs(keys, vals).j = "obj"
             /\ Pairs(keys, vals) # NotJson /\ Pairs(keys, vals) # Null
             /\ DOMAIN o = {keys[i] : i \in 1 .. n}
             /\ \A i \in 1 .. n : o[keys[i]] = vals[i]
             /\ IsFiniteSet(DOMAIN o) /\ Cardinality(DOMAIN o) = n
<1> DEFINE D == {keys[i] : i \in 1 .. n}
           at(x) == CHOOSE i \in DOMAIN keys : keys[i] = x
           f == [x \in {keys[i] : i \in DOMAIN keys} |-> vals[at(x)]]
           g == [i \in 1 .. n |-> keys[i]]
           o == Pairs(keys, vals).o
<1>1. Pairs(keys, vals) = Obj(f)
  BY DEF Pairs
<1>2. \A i \in 1 .. n : at(keys[i]) = i
  OBVIOUS
<1>3. DOMAIN f = D /\ \A i \in 1 .. n : f[keys[i]] = vals[i]
  <2>1. DOMAIN f = D
    OBVIOUS
  <2>2. \A i \in 1 .. n : f[keys[i]] = vals[at(keys[i])]
    OBVIOUS
  <2> HIDE DEF at, f, D
  <2> QED
    BY <1>2, <2>1, <2>2
<1>4. g \in Surjection(1 .. n, D) /\ g \in Injection(1 .. n, D)
  <2>1. /\ g \in [1 .. n -> D] /\ \A x \in D : \E i \in 1 .. n : g[i] = x
        /\ \A i, k \in 1 .. n : g[i] = g[k] => i = k
    OBVIOUS
  <2> HIDE DEF g, D
  <2> QED
    BY <2>1 DEF Surjection, Injection, IsInjective
<1>5. IsFiniteSet(1 .. n) /\ Cardinality(1 .. n) = n
  BY FS_Interval
<1> HIDE DEF g, D, f
<1>6. IsFiniteSet(D) /\ Cardinality(D) = n
  BY <1>4, <1>5, FS_Surjection
<1>7. /\ Obj(f).j = "obj" /\ Obj(f).o = f /\ Obj(f) # NotJson /\ Obj(f) # Null
  BY DEF Obj, NotJson, Null
<1>8. o = f
  BY <1>1, <1>7
<1> QED
  BY <1>1, <1>3, <1>6, <1>7, <1>8 DEF D

(* Two lists of the same different things are one another's rearrangement.    *)
LEMMA Rearranged ==
  ASSUME NEW n \in Nat, NEW xs, \A i, k \in 1 .. n : xs[i] = xs[k] => i = k,
         NEW D, \A i \in 1 .. n : xs[i] \in D, \A d \in D : \E i \in 1 .. n : xs[i] = d,
         NEW q \in Bijection(1 .. n, D)
  PROVE  \E p \in Bijection(1 .. n, 1 .. n) : \A l \in 1 .. n : xs[p[l]] = q[l]
<1> DEFINE p == [l \in 1 .. n |-> CHOOSE i \in 1 .. n : xs[i] = q[l]]
<1>1. /\ q \in [1 .. n -> D] /\ \A i, k \in 1 .. n : q[i] = q[k] => i = k
      /\ \A d \in D : \E l \in 1 .. n : q[l] = d
  BY DEF Bijection, Injection, IsInjective, Surjection
<1>2. \A l \in 1 .. n : \E i \in 1 .. n : xs[i] = q[l]
  <2>1. \A d \in D : \E i \in 1 .. n : xs[i] = d
    OBVIOUS
  <2>2. \A l \in 1 .. n : q[l] \in D
    BY <1>1
  <2> QED
    BY <2>1, <2>2
<1>3. \A l \in 1 .. n : p[l] \in 1 .. n /\ xs[p[l]] = q[l]
  BY <1>2
<1>4. p \in [1 .. n -> 1 .. n]
  BY <1>2
<1> HIDE DEF p
<1>5. \A i, k \in 1 .. n : p[i] = p[k] => i = k
  <2> SUFFICES ASSUME NEW i \in 1 .. n, NEW k \in 1 .. n, p[i] = p[k] PROVE i = k
    OBVIOUS
  <2>1. q[i] = q[k]
    BY <1>3
  <2> QED
    BY <1>1, <2>1
<1>6. \A i \in 1 .. n : \E l \in 1 .. n : p[l] = i
  <2> SUFFICES ASSUME NEW i \in 1 .. n PROVE \E l \in 1 .. n : p[l] = i
    OBVIOUS
  <2>1. PICK l \in 1 .. n : q[l] = xs[i]
    BY <1>1
  <2> QED
    BY <1>3, <2>1
<1>7. p \in Bijection(1 .. n, 1 .. n)
  BY <1>4, <1>5, <1>6 DEF Bijection, Injection, IsInjective, Surjection
<1> QED
  BY <1>3, <1>7

(* The text of a printed value is read as the value.                          *)
LEMMA TextBack ==
  ASSUME NEW t \in SpecTypes, NEW v, t.t \notin Wide \cup {"option"}, BackCall(v, t),
         NEW x, x = Writes(XdrToJsonCall(v, t).v)
  PROVE  x \in Texts /\ FromString(x, t) = Ok(v) /\ FromStringCall(x, t) = Ok(v)
<1> DEFINE j == XdrToJsonCall(v, t).v
<1>1. /\ j \in Jsons /\ x \in Texts /\ Reads(x) = j /\ j # NotJson
      /\ FromJsonCall(j, t) = Ok(v)
  BY DEF BackCall, IsBack
<1> HIDE DEF j
<1>2. FromJson(j, t) = Ok(v)
  BY <1>1, CallsAssumption
<1>3. FromString(x, t) = Ok(v)
  BY <1>1, <1>2 DEF FromString
<1> QED
  BY <1>1, <1>3, CallsAssumption

LEMMA MapEntries ==
  ASSUME NEW v, Entries(v)
  PROVE  LET n == Len(v.m)
         IN  /\ v = [sc |-> "map", m |-> v.m] /\ v.sc = "map" /\ v # Void
             /\ n \in Nat /\ DOMAIN v.m = 1 .. n
             /\ \E S : v.m \in [1 .. n -> S]
             /\ \A i \in 1 .. n : v.m[i] = [key |-> v.m[i].key, val |-> v.m[i].val]
             /\ \A i \in 2 .. n : KeyLess(v.m[i - 1].key, v.m[i].key)
<1> DEFINE m == v.m
           n == Len(m)
           S == {[key |-> m[i].key, val |-> m[i].val] : i \in DOMAIN m}
<1>1. v = [sc |-> "map", m |-> m] /\ m \in Seq(S) /\ \A i \in 2 .. n : KeyLess(m[i - 1].key, m[i].key)
  BY DEF Entries, Ascending
<1>2. v.sc = "map" /\ v # Void
  <2>1. [sc |-> "map", m |-> m].sc = "map"
    OBVIOUS
  <2>2. v.sc = "map"
    BY <1>1, <2>1
  <2> QED
    BY <2>2 DEF Void
<1>3. \A e \in S : e = [key |-> e.key, val |-> e.val]
  OBVIOUS
<1> HIDE DEF S
<1>4. n \in Nat /\ DOMAIN m = 1 .. n /\ m \in [1 .. n -> S] /\ \A i \in 1 .. n : m[i] \in S
  BY <1>1
<1>5. \A i \in 1 .. n : m[i] = [key |-> m[i].key, val |-> m[i].val]
  BY <1>3, <1>4
<1> QED
  BY <1>1, <1>2, <1>4, <1>5

(* Keys that ascend are different.                                            *)
LEMMA KeysDiffer ==
  ASSUME NEW n \in Nat, NEW m, \A i \in 1 .. n : m[i].key \in AllKeys,
         \A i \in 2 .. n : KeyLess(m[i - 1].key, m[i].key)
  PROVE  \A i, k \in 1 .. n : m[i].key = m[k].key => i = k
<1>1. \A i, k \in 1 .. n : i < k => KeyLess(m[i].key, m[k].key)
  BY KeysOrdered, AscendsFar
<1>2. \A i \in 1 .. n : ~ KeyLess(m[i].key, m[i].key)
  BY KeysOrdered DEF Ordered
<1> SUFFICES ASSUME NEW i \in 1 .. n, NEW k \in 1 .. n, m[i].key = m[k].key, i # k PROVE FALSE
  OBVIOUS
<1>3. i < k \/ k < i
  OBVIOUS
<1>4. KeyLess(m[i].key, m[k].key) \/ KeyLess(m[k].key, m[i].key)
  BY <1>1, <1>3
<1>5. KeyLess(m[i].key, m[i].key)
  BY <1>4
<1> QED
  BY <1>2, <1>5

LEMMA MapBack ==
  ASSUME NEW t \in BackTypes, NEW v \in ValuesOf(t), t.t = "map", BackBelow(v)
  PROVE  Back(v, t)
<1>1. /\ t \in SpecTypes /\ t.key \in BackTypes /\ t.val \in BackTypes
      /\ t.key.t \notin Wide \cup {"option"}
      /\ Entries(v) /\ \A i \in DOMAIN v.m : PartOf(v.m[i].key, t.key, v) /\ PartOf(v.m[i].val, t.val, v)
  BY BackAssumption DEF BackType, ValueOf
<1>k. t.key \in SpecTypes
  BY <1>1, BackAssumption DEF BackType
<1> DEFINE m == v.m
           n == Len(m)
           ks == [i \in 1 .. n |-> m[i].key]
           vs == [i \in 1 .. n |-> m[i].val]
           kts == [i \in 1 .. n |-> t.key]
           vts == [i \in 1 .. n |-> t.val]
           jk == PrintedAll(ks, kts, n)
           jv == PrintedAll(vs, vts, n)
           texts == [i \in 1 .. n |-> Writes(jk[i])]
           j == Pairs(texts, jv)
<1>2. /\ v = [sc |-> "map", m |-> m] /\ v.sc = "map" /\ v # Void
      /\ n \in Nat /\ DOMAIN m = 1 .. n
      /\ \E S : m \in [1 .. n -> S]
      /\ \A i \in 1 .. n : m[i] = [key |-> m[i].key, val |-> m[i].val]
      /\ \A i \in 2 .. n : KeyLess(m[i - 1].key, m[i].key)
  BY <1>1, MapEntries
<1>3. \A i \in 1 .. n : BackCall(m[i].key, t.key) /\ BackCall(m[i].val, t.val)
  BY <1>1, <1>2 DEF PartOf, BackBelow
<1> HIDE DEF n
<1>4. \A i \in 1 .. n : ks[i] = m[i].key /\ vs[i] = m[i].val /\ kts[i] = t.key /\ vts[i] = t.val
  OBVIOUS
<1>5. /\ [i \in DOMAIN m |-> XdrToJsonCall(m[i].key, t.key)] = Printings(ks, kts, n)
      /\ [i \in DOMAIN m |-> XdrToJsonCall(m[i].val, t.val)] = Printings(vs, vts, n)
  BY <1>2, <1>4 DEF Printings
<1> HIDE DEF ks, vs, kts, vts
<1>6. /\ Collect(Printings(ks, kts, n)) = Ok(jk)
      /\ \A i \in 1 .. n : jk[i] = XdrToJsonCall(ks[i], kts[i]).v
  <2>1. n \in Nat /\ \A i \in 1 .. n : BackCall(ks[i], kts[i])
    BY <1>2, <1>3, <1>4
  <2> QED
    BY <2>1, AllBack
<1>7. /\ Collect(Printings(vs, vts, n)) = Ok(jv)
      /\ \A i \in 1 .. n : jv[i] = XdrToJsonCall(vs[i], vts[i]).v
  <2>1. n \in Nat /\ \A i \in 1 .. n : BackCall(vs[i], vts[i])
    BY <1>2, <1>3, <1>4
  <2> QED
    BY <2>1, AllBack
<1> HIDE DEF jk, jv
<1>8. ScMapToJson(m, t) = Ok(j)
  <2>1. /\ Collect([i \in DOMAIN m |-> XdrToJsonCall(m[i].key, t.key)]) = Ok(jk)
        /\ Collect([i \in DOMAIN m |-> XdrToJsonCall(m[i].val, t.val)]) = Ok(jv)
    BY <1>5, <1>6, <1>7
  <2>2. texts = [i \in DOMAIN m |-> Writes(jk[i])]
    BY <1>2
  <2>3. ScMapToJson(m, t) = Ok(Pairs([i \in DOMAIN m |-> Writes(jk[i])], jv))
    <3> DEFINE keys == Collect([i \in DOMAIN m |-> XdrToJsonCall(m[i].key, t.key)])
               vals == Collect([i \in DOMAIN m |-> XdrToJsonCall(m[i].val, t.val)])
    <3>1. keys.is = "ok" /\ keys.v = jk /\ vals.is = "ok" /\ vals.v = jv
      BY <2>1, OkHas
    <3>2. ScMapToJson(m, t) =
            IF keys.is # "ok" THEN keys
            ELSE Then(vals, LAMBDA xs : Pairs([i \in DOMAIN m |-> Writes(keys.v[i])], xs))
      BY DEF ScMapToJson
    <3> HIDE DEF keys, vals
    <3> QED
      BY <3>1, <3>2 DEF Then
  <2> HIDE DEF texts
  <2> QED
    BY <2>2, <2>3
<1>9. XdrToJson(v, t) = Ok(j)
  <2>1. XdrToJson(v, t) = ScMapToJson(m, t)
    BY <1>2, NoPrimitives DEF XdrToJson, ScObjectToJson
  <2> QED
    BY <1>8, <2>1
<1>10. \A i \in 1 .. n : /\ FromStringCall(texts[i], t.key) = Ok(m[i].key)
                         /\ FromString(texts[i], t.key) = Ok(m[i].key) /\ texts[i] \in Texts
                         /\ FromJsonCall(jv[i], t.val) = Ok(m[i].val)
  <2> SUFFICES ASSUME NEW i \in 1 .. n
               PROVE  /\ FromStringCall(texts[i], t.key) = Ok(m[i].key)
                      /\ FromString(texts[i], t.key) = Ok(m[i].key) /\ texts[i] \in Texts
                      /\ FromJsonCall(jv[i], t.val) = Ok(m[i].val)
    OBVIOUS
  <2>1. texts[i] = Writes(XdrToJsonCall(m[i].key, t.key).v)
    BY <1>4, <1>6
  <2>2. FromJsonCall(jv[i], t.val) = Ok(m[i].val)
    BY <1>3, <1>4, <1>7 DEF BackCall
  <2> HIDE DEF texts
  <2> QED
    BY <1>k, <1>1, <1>3, <2>1, <2>2, TextBack
<1>11. \A i \in 1 .. n : m[i].key \in AllKeys
  <2> SUFFICES ASSUME NEW i \in 1 .. n PROVE m[i].key \in ReadKeys
    BY DEF AllKeys
  <2> DEFINE r == FromString(texts[i], t.key)
  <2>1. t.key \in KeyTypes
    BY <1>1 DEF KeyTypes
  <2>2. r \in {FromString(x, t.key) : x \in Texts}
    BY <1>10
  <2>3. r.is = "ok" /\ r.v = m[i].key
    BY <1>10, OkHas
  <2> HIDE DEF r
  <2>4. r \in Readings
    BY <2>1, <2>2 DEF Readings
  <2> QED
    BY <2>3, <2>4 DEF ReadKeys
<1>12. \A i, k \in 1 .. n : m[i].key = m[k].key => i = k
  BY <1>2, <1>11, KeysDiffer
<1>13. DOMAIN texts = 1 .. n /\ \A i, k \in 1 .. n : texts[i] = texts[k] => i = k
  <2>1. DOMAIN texts = 1 .. n
    OBVIOUS
  <2> HIDE DEF texts
  <2> SUFFICES ASSUME NEW i \in 1 .. n, NEW k \in 1 .. n, texts[i] = texts[k] PROVE i = k
    BY <2>1
  <2>2. Ok(m[i].key) = Ok(m[k].key)
    BY <1>10
  <2>3. m[i].key = m[k].key
    BY <2>2, OkHas
  <2> QED
    BY <1>12, <2>3
<1> HIDE DEF texts
<1> DEFINE o == j.o
<1>14. /\ j.j = "obj" /\ j # NotJson /\ j # Null
       /\ DOMAIN o = {texts[i] : i \in 1 .. n} /\ \A i \in 1 .. n : o[texts[i]] = jv[i]
       /\ IsFiniteSet(DOMAIN o) /\ Cardinality(DOMAIN o) = n
  BY <1>2, <1>13, PairsHas
<1>15. IsBack(j, v, t)
  <2>1. Unwrapped(t).t = "map"
    BY DEF Unwrapped
  <2> HIDE DEF j
  <2>2. Reads(Writes(j)) = j
    BY <1>14, StructureBack
  <2> QED
    BY <1>14, <2>1, <2>2 DEF IsBack
<1> HIDE DEF j, o
<1>16. FromJson(j, t) = ParseMap(t, o)
  BY <1>14, NoPrimitives DEF FromJson, o
<1> DEFINE q == SetToSeq(DOMAIN o)
           key(k) == FromStringCall(k, t.key)
           val(k) == FromJsonCall(o[k], t.val)
           entry(k) == IF key(k).is = "ok"
                       THEN Then(val(k), LAMBDA y : [key |-> key(k).v, val |-> y]) ELSE key(k)
           es == [i \in DOMAIN q |-> entry(q[i])]
<1>17. ParseMap(t, o) = IF Collect(es).is = "ok" THEN SortedFrom(Collect(es).v) ELSE Collect(es)
  BY DEF ParseMap
<1>18. \A i \in 1 .. n : entry(texts[i]) = Ok(m[i])
  <2> SUFFICES ASSUME NEW i \in 1 .. n PROVE entry(texts[i]) = Ok(m[i])
    OBVIOUS
  <2>1. key(texts[i]) = Ok(m[i].key) /\ val(texts[i]) = Ok(m[i].val)
    BY <1>10, <1>14
  <2> HIDE DEF key, val
  <2>2. entry(texts[i]) = Ok([key |-> m[i].key, val |-> m[i].val])
    BY <2>1, OkHas DEF Then
  <2> HIDE DEF entry
  <2> QED
    BY <1>2, <2>2
<1>19. q \in Bijection(1 .. n, DOMAIN o) /\ DOMAIN q = 1 .. n
  <2>1. q \in Bijection(1 .. Cardinality(DOMAIN o), DOMAIN o)
    BY <1>14, SetToSeqOnto
  <2>2. q \in Bijection(1 .. n, DOMAIN o)
    BY <1>14, <2>1
  <2> HIDE DEF q
  <2>3. DOMAIN q = 1 .. n
    BY <2>2 DEF Bijection, Injection
  <2> QED
    BY <2>2, <2>3
<1>20. PICK p \in Bijection(1 .. n, 1 .. n) : \A l \in 1 .. n : texts[p[l]] = q[l]
  <2> DEFINE D == DOMAIN o
  <2>1. /\ n \in Nat /\ \A i, k \in 1 .. n : texts[i] = texts[k] => i = k
        /\ \A i \in 1 .. n : texts[i] \in D
        /\ \A d \in D : \E i \in 1 .. n : texts[i] = d
        /\ q \in Bijection(1 .. n, D)
    BY <1>2, <1>13, <1>14, <1>19
  <2> HIDE DEF q, D
  <2> QED
    BY <2>1, Rearranged
<1>21. \A l \in 1 .. n : p[l] \in 1 .. n
  BY DEF Bijection, Injection
<1>22. DOMAIN es = 1 .. n /\ \A l \in 1 .. n : es[l] = Ok(m[p[l]])
  <2>1. DOMAIN es = 1 .. n /\ \A l \in 1 .. n : es[l] = entry(texts[p[l]])
    <3> HIDE DEF entry, q
    <3> QED
      BY <1>19, <1>20
  <2> HIDE DEF es, entry, q
  <2> QED
    BY <1>18, <1>21, <2>1
<1> DEFINE entries == [l \in 1 .. n |-> m[p[l]]]
<1>23. Collect(es) = Ok(entries)
  <2> HIDE DEF es
  <2>1. \A l \in 1 .. n : es[l].is = "ok" /\ es[l].v = m[p[l]]
    BY <1>22, OkHas
  <2>2. Collect(es) = Ok([l \in 1 .. n |-> es[l].v])
    BY <1>22, <2>1, CollectAll
  <2>3. [l \in 1 .. n |-> es[l].v] = entries
    BY <2>1
  <2> QED
    BY <2>2, <2>3
<1>24. SortedFrom(entries) = Ok(v)
  <2>1. PICK S : m \in [1 .. n -> S]
    BY <1>2
  <2>2. SortedFrom(entries) = Ok([sc |-> "map", m |-> m])
    BY <1>2, <1>11, <2>1, KeysOrdered, SortedAgain
  <2> QED
    BY <1>2, <2>2
<1> HIDE DEF es, entries
<1>25. FromJson(j, t) = Ok(v)
  BY <1>16, <1>17, <1>23, <1>24, OkHas
<1> QED
  BY <1>9, <1>15, <1>25, OkHas DEF Back

-----------------------------------------------------------------------------
(* User defined types, printed and read again.                                *)

(* The parts of a user defined type are reached through its entry.            *)
LEMMA UdtPrinted ==
  ASSUME NEW t, NEW v, t.t = "udt", t.name \in DOMAIN Spec, v # Void, v.sc \in {"map", "vec", "u32"}
  PROVE  XdrToJson(v, t) = UdtToJson(v, t.name)
<1>1. XdrToJson(v, t) = ScObjectToJson(v, t)
  BY NoPrimitives DEF XdrToJson
<1>2. ScObjectToJson(v, t) = UdtToJson(v, t.name)
  BY DEF ScObjectToJson
<1> QED
  BY <1>1, <1>2

LEMMA UdtRead ==
  ASSUME NEW t, NEW j, t.t = "udt" PROVE FromJson(j, t) = ParseUdt(t.name, j)
BY NoPrimitives DEF FromJson

LEMMA FieldsOf ==
  ASSUME NEW name \in DOMAIN Spec, Spec[name].kind = "struct", BackUdt(Spec[name])
  PROVE  LET fields == Spec[name].fields
         IN  /\ fields \in Seq([name : STRING, type : SpecTypes])
             /\ Len(fields) \in Nat /\ DOMAIN fields = 1 .. Len(fields)
             /\ \A i \in DOMAIN fields : fields[i].type \in BackTypes /\ fields[i].type \in SpecTypes
<1>1. Spec[name].fields \in Seq([name : STRING, type : SpecTypes])
  BY TypesAssumption
<1>2. \A i \in DOMAIN Spec[name].fields : Spec[name].fields[i].type \in BackTypes
  BY DEF BackUdt
<1> DEFINE fields == Spec[name].fields
           F == [name : STRING, type : SpecTypes]
<1>3. \A f \in F : f.type \in SpecTypes
  OBVIOUS
<1> HIDE DEF F
<1>4. fields \in Seq(F)
  BY <1>1 DEF F
<1>5. Len(fields) \in Nat /\ DOMAIN fields = 1 .. Len(fields) /\ \A i \in DOMAIN fields : fields[i] \in F
  <2> HIDE DEF fields
  <2> QED
    BY <1>4
<1> QED
  BY <1>2, <1>3, <1>4, <1>5 DEF F

LEMMA TupleStruktBack ==
  ASSUME NEW t \in BackTypes, NEW v \in ValuesOf(t), t.t = "udt", BackBelow(v),
         t.name \in DOMAIN Spec, Spec[t.name].kind = "struct", IsTuple(Spec[t.name])
  PROVE  Back(v, t)
<1> DEFINE e == Spec[t.name]
           fields == e.fields
           types == [i \in DOMAIN e.fields |-> e.fields[i].type]
           n == Len(types)
           s == v.v
           js == PrintedAll(s, types, n)
<1>1. BackUdt(e) /\ UdtValue(v, e)
  BY BackAssumption DEF BackType, ValueOf
<1>2. v = VecVal(v.v) /\ Parts(s, types, v)
  BY <1>1 DEF UdtValue, FieldTypes
<1>3. /\ DOMAIN fields = 1 .. Len(fields) /\ Len(fields) \in Nat
      /\ \A i \in DOMAIN fields : fields[i].type \in BackTypes /\ fields[i].type \in SpecTypes
  BY <1>1, FieldsOf
<1>4. /\ types \in Seq(SpecTypes) /\ n = Len(fields) /\ DOMAIN types = DOMAIN fields
      /\ \A i \in DOMAIN types : types[i] \in BackTypes /\ types[i] = fields[i].type
  <2>1. types \in [1 .. Len(fields) -> SpecTypes]
    BY <1>3
  <2>2. \A i \in DOMAIN types : types[i] \in BackTypes /\ types[i] = fields[i].type
    BY <1>3
  <2>3. DOMAIN types = DOMAIN fields
    OBVIOUS
  <2> HIDE DEF types, fields
  <2>4. types \in Seq(SpecTypes)
    BY <1>3, <2>1
  <2>5. Len(types) = Len(fields)
    BY <1>3, <2>1, <2>4
  <2> QED
    BY <2>2, <2>3, <2>4, <2>5
<1> HIDE DEF types
<1>5. /\ n \in Nat /\ DOMAIN types = 1 .. n /\ ZipToJson(s, types) = Ok(Arr(js))
      /\ Collect(Rereadings(js, types, n)) = Ok(s)
      /\ Len(js) = n /\ DOMAIN js = 1 .. n
  BY <1>2, <1>4, PartsBack
<1> HIDE DEF js
<1>6. v.sc = "vec" /\ v # Void
  <2>1. VecVal(v.v).sc = "vec" /\ VecVal(v.v) # Void
    BY DEF VecVal, Void
  <2> QED
    BY <1>2, <2>1
<1>7. XdrToJson(v, t) = Ok(Arr(js))
  <2>1. UdtToJson(v, t.name) = ZipToJson(v.v, types)
    BY <1>6 DEF UdtToJson, types
  <2> QED
    BY <1>5, <1>6, <2>1, UdtPrinted
<1> DEFINE j == Arr(js)
<1>8. j.j = "arr" /\ j.a = js /\ IsBack(j, v, t)
  BY ArrayBack
<1> HIDE DEF j
<1>9. ParseUdt(t.name, j) = ParseTupleStrukt(e, js)
  BY <1>8 DEF ParseUdt
<1>10. ParseTupleStrukt(e, js) = Then(Ok(s), VecVal)
  <2>1. MinLen(e.fields, js) = n
    BY <1>4, <1>5 DEF MinLen
  <2>2. [i \in 1 .. n |-> FromJsonCall(js[i], e.fields[i].type)] = Rereadings(js, types, n)
    BY <1>4, <1>5 DEF Rereadings
  <2> HIDE DEF n
  <2> QED
    BY <1>5, <2>1, <2>2 DEF ParseTupleStrukt
<1>11. FromJson(j, t) = Ok(v)
  BY <1>2, <1>9, <1>10, OkHas, UdtRead DEF Then
<1> QED
  BY <1>7, <1>8, <1>11, OkHas DEF Back, j

LEMMA StruktBack ==
  ASSUME NEW t \in BackTypes, NEW v \in ValuesOf(t), t.t = "udt", BackBelow(v),
         t.name \in DOMAIN Spec, Spec[t.name].kind = "struct", ~ IsTuple(Spec[t.name])
  PROVE  Back(v, t)
<1> DEFINE e == Spec[t.name]
           fields == e.fields
           m == v.m
           n == Len(m)
           vs == [i \in 1 .. n |-> m[i].val]
           ts == [i \in 1 .. n |-> fields[i].type]
           jv == PrintedAll(vs, ts, n)
           names == [i \in 1 .. n |-> Bare(fields[i].name)]
           j == Pairs(names, jv)
<1>1. BackUdt(e) /\ UdtValue(v, e)
  BY BackAssumption DEF BackType, ValueOf
<1>2. /\ Entries(v) /\ Len(m) = Len(fields)
      /\ \A i \in DOMAIN m : m[i].key = Field(fields[i].name) /\ PartOf(m[i].val, fields[i].type, v)
  BY <1>1 DEF UdtValue
<1>3. /\ v = [sc |-> "map", m |-> m] /\ v.sc = "map" /\ v # Void
      /\ n \in Nat /\ DOMAIN m = 1 .. n
      /\ \E S : m \in [1 .. n -> S]
      /\ \A i \in 1 .. n : m[i] = [key |-> m[i].key, val |-> m[i].val]
      /\ \A i \in 2 .. n : KeyLess(m[i - 1].key, m[i].key)
  BY <1>2, MapEntries
<1>4. /\ DOMAIN fields = 1 .. n
      /\ \A i \in 1 .. n : fields[i].type \in BackTypes
  BY <1>1, <1>2, FieldsOf
<1>5. \A i \in 1 .. n : BackCall(m[i].val, fields[i].type)
  BY <1>2, <1>3, <1>4 DEF PartOf, BackBelow
<1> HIDE DEF n
<1>6. \A i \in 1 .. n : vs[i] = m[i].val /\ ts[i] = fields[i].type
  OBVIOUS
<1>7. [i \in 1 .. n |-> XdrToJsonCall(m[i].val, fields[i].type)] = Printings(vs, ts, n)
  BY <1>6 DEF Printings
<1> HIDE DEF vs, ts
<1>8. /\ Collect(Printings(vs, ts, n)) = Ok(jv)
      /\ \A i \in 1 .. n : jv[i] = XdrToJsonCall(vs[i], ts[i]).v
  <2>1. n \in Nat /\ \A i \in 1 .. n : BackCall(vs[i], ts[i])
    BY <1>3, <1>5, <1>6
  <2> QED
    BY <2>1, AllBack
<1> HIDE DEF jv
<1>9. XdrToJson(v, t) = Ok(j)
  <2>1. MinLen(fields, m) = n
    BY <1>2, <1>3 DEF MinLen, n
  <2>2. UdtToJson(v, t.name) = StructToJson(e, m)
    BY <1>3 DEF UdtToJson
  <2>3. StructToJson(e, m) =
          Then(Collect([i \in 1 .. n |-> XdrToJsonCall(m[i].val, fields[i].type)]), LAMBDA xs : Pairs(names, xs))
    BY <2>1 DEF StructToJson
  <2> DEFINE c == Collect([i \in 1 .. n |-> XdrToJsonCall(m[i].val, fields[i].type)])
  <2>c. c.is = "ok" /\ c.v = jv
    BY <1>7, <1>8, OkHas
  <2> HIDE DEF c, names
  <2>3a. StructToJson(e, m) = Then(c, LAMBDA xs : Pairs(names, xs))
    BY <2>3 DEF c
  <2>4. StructToJson(e, m) = Ok(j)
    BY <2>c, <2>3a DEF Then
  <2> QED
    BY <1>3, <2>2, <2>4, UdtPrinted
<1>10. \A i \in 1 .. n : m[i].key \in AllKeys
  <2>1. \A i \in 1 .. n : Field(fields[i].name) \in FieldKeys
    <3> DEFINE K == {Field(Spec[t.name].fields[i].name) : i \in DOMAIN Spec[t.name].fields}
    <3>1. \A i \in 1 .. n : Field(fields[i].name) \in K
      BY <1>4
    <3>2. K \subseteq FieldKeys
      BY DEF FieldKeys
    <3> HIDE DEF K
    <3> QED
      BY <3>1, <3>2
  <2> QED
    BY <1>2, <1>3, <2>1 DEF AllKeys
<1>11. \A i, k \in 1 .. n : m[i].key = m[k].key => i = k
  BY <1>3, <1>10, KeysDiffer
<1>12. DOMAIN names = 1 .. n /\ \A i \in 1 .. n : names[i] = Bare(fields[i].name)
  OBVIOUS
<1>13. \A i, k \in 1 .. n : names[i] = names[k] => i = k
  <2> SUFFICES ASSUME NEW i \in 1 .. n, NEW k \in 1 .. n, names[i] = names[k] PROVE i = k
    OBVIOUS
  <2>1. Bare(fields[i].name) = Bare(fields[k].name)
    BY <1>12
  <2>2. m[i].key = m[k].key
    <3>1. m[i].key = Field(fields[i].name) /\ m[k].key = Field(fields[k].name)
      BY <1>2, <1>3
    <3>2. Field(fields[i].name) = Field(fields[k].name)
      BY <2>1 DEF Field
    <3> QED
      BY <3>1, <3>2
  <2> QED
    BY <1>11, <2>2
<1> HIDE DEF names
<1> DEFINE o == j.o
<1>14. /\ j.j = "obj" /\ j # NotJson /\ j # Null
       /\ DOMAIN o = {names[i] : i \in 1 .. n} /\ \A i \in 1 .. n : o[names[i]] = jv[i]
  BY <1>3, <1>12, <1>13, PairsHas
<1>15. Bare("0") \notin DOMAIN o
  <2> SUFFICES ASSUME NEW i \in 1 .. n, Bare("0") = names[i] PROVE FALSE
    BY <1>14
  <2>1. fields[i].name = "0"
    BY <1>12, BareText
  <2> QED
    BY <1>4, <2>1 DEF IsTuple
<1> HIDE DEF j
<1>16. IsBack(j, v, t)
  <2>1. Reads(Writes(j)) = j
    BY <1>14, StructureBack
  <2> QED
    BY <1>14, <1>15, <2>1 DEF IsBack
<1>17. FromJson(j, t) = ParseStrukt(e, o)
  <2>1. ParseUdt(t.name, j) = ParseStrukt(e, j.o)
    BY <1>14 DEF ParseUdt
  <2> QED
    BY <2>1, UdtRead
<1> HIDE DEF o
<1> DEFINE member(f) ==
             IF Bare(f.name) \notin DOMAIN o THEN Err
             ELSE Then(FromJsonCall(o[Bare(f.name)], f.type), LAMBDA x : [key |-> Field(f.name), val |-> x])
           es == [i \in DOMAIN fields |-> member(fields[i])]
<1>18. ParseStrukt(e, o) = IF Collect(es).is = "ok" THEN SortedFrom(Collect(es).v) ELSE Collect(es)
  BY DEF ParseStrukt
<1>19. \A i \in 1 .. n : member(fields[i]) = Ok(m[i])
  <2> SUFFICES ASSUME NEW i \in 1 .. n PROVE member(fields[i]) = Ok(m[i])
    OBVIOUS
  <2> DEFINE f == fields[i]
  <2>1. Bare(f.name) \in DOMAIN o /\ o[Bare(f.name)] = jv[i]
    BY <1>12, <1>14
  <2>2. FromJsonCall(jv[i], f.type) = Ok(m[i].val)
    BY <1>5, <1>6, <1>8 DEF BackCall
  <2>3. m[i] = [key |-> Field(f.name), val |-> m[i].val]
    BY <1>2, <1>3
  <2> HIDE DEF f
  <2>4. member(f) = Ok([key |-> Field(f.name), val |-> m[i].val])
    BY <2>1, <2>2, OkHas DEF Then
  <2> HIDE DEF member
  <2> QED
    BY <2>3, <2>4 DEF f
<1>20. DOMAIN es = 1 .. n /\ \A i \in 1 .. n : es[i] = Ok(m[i])
  <2> HIDE DEF member
  <2> QED
    BY <1>4, <1>19
<1> HIDE DEF es
<1>21. Collect(es) = Ok([i \in 1 .. n |-> m[i]])
  <2>1. \A i \in 1 .. n : es[i].is = "ok" /\ es[i].v = m[i]
    BY <1>20, OkHas
  <2>2. Collect(es) = Ok([i \in 1 .. n |-> es[i].v])
    BY <1>20, <2>1, CollectAll
  <2>3. [i \in 1 .. n |-> es[i].v] = [i \in 1 .. n |-> m[i]]
    BY <2>1
  <2> QED
    BY <2>2, <2>3
<1> DEFINE p == [i \in 1 .. n |-> i]
           entries == [i \in 1 .. n |-> m[i]]
<1>22. p \in Bijection(1 .. n, 1 .. n) /\ entries = [i \in 1 .. n |-> m[p[i]]]
  <2>1. /\ p \in [1 .. n -> 1 .. n] /\ \A i, k \in 1 .. n : p[i] = p[k] => i = k
        /\ \A i \in 1 .. n : p[i] = i
    OBVIOUS
  <2> HIDE DEF p
  <2>2. p \in Bijection(1 .. n, 1 .. n)
    BY <2>1 DEF Bijection, Injection, IsInjective, Surjection
  <2> QED
    BY <2>1, <2>2
<1> HIDE DEF p, entries
<1>23. SortedFrom(entries) = Ok(v)
  <2>1. PICK S : m \in [1 .. n -> S]
    BY <1>3
  <2>2. SortedFrom(entries) = Ok([sc |-> "map", m |-> m])
    BY <1>3, <1>10, <1>22, <2>1, KeysOrdered, SortedAgain
  <2> QED
    BY <1>3, <2>2
<1>24. FromJson(j, t) = Ok(v)
  BY <1>17, <1>18, <1>21, <1>23, OkHas DEF entries
<1> QED
  BY <1>9, <1>16, <1>24, OkHas DEF Back

LEMMA EnumBack ==
  ASSUME NEW t \in BackTypes, NEW v \in ValuesOf(t), t.t = "udt",
         t.name \in DOMAIN Spec, Spec[t.name].kind = "enum"
  PROVE  Back(v, t)
<1> DEFINE e == Spec[t.name]
           j == Num(v.n)
<1>1. v = [sc |-> "u32", n |-> v.n] /\ v.n \in Width("u32") /\ v.n \in e.values
  <2>1. UdtValue(v, e)
    BY BackAssumption DEF ValueOf
  <2> QED
    BY <2>1 DEF UdtValue
<1>2. v.sc = "u32" /\ v # Void
  <2>1. [sc |-> "u32", n |-> v.n].sc = "u32"
    OBVIOUS
  <2>2. v.sc = "u32"
    BY <1>1, <2>1
  <2> QED
    BY <2>2 DEF Void
<1>3. v.n \in Low .. U64Max
  <2>1. "u32" \in Ints /\ "u32" \notin Wide
    BY DEF Ints, Wide
  <2> QED
    BY <1>1, <2>1, WidthBound
<1>4. XdrToJson(v, t) = Ok(j)
  <2>1. UdtToJson(v, t.name) = Ok(j)
    BY <1>2 DEF UdtToJson
  <2> QED
    BY <1>2, <2>1, UdtPrinted
<1>5. IsBack(j, v, t) /\ j.j = "num" /\ j.n = v.n
  BY <1>3, NumberBack
<1> HIDE DEF j
<1>6. ~ IsFloat(j.n)
  BY <1>3, <1>5 DEF IsFloat, Low, U64Max
<1>7. ParseUdt(t.name, j) = ParseConstEnum(j, e)
  BY <1>5 DEF ParseUdt
<1>8. ParseConstEnum(j, e) = Ok([sc |-> "u32", n |-> j.n])
  BY <1>1, <1>5, <1>6 DEF ParseConstEnum
<1>9. FromJson(j, t) = Ok(v)
  BY <1>1, <1>5, <1>7, <1>8, UdtRead
<1> QED
  BY <1>4, <1>5, <1>9, OkHas DEF Back

(* The name of a case is that of no other.                                    *)
LEMMA OneCase ==
  ASSUME NEW cases, NEW c \in DOMAIN cases,
         \A a, b \in DOMAIN cases : cases[a].name = cases[b].name => a = b
  PROVE  /\ {i \in DOMAIN cases : Bare(cases[i].name) = Bare(cases[c].name)} = {c}
         /\ {i \in DOMAIN cases : Field(cases[i].name) = Field(cases[c].name)} = {c}
<1>1. \A i \in DOMAIN cases : Bare(cases[i].name) = Bare(cases[c].name) => i = c
  BY BareText
<1>2. \A w : Field(w).s = Bare(w)
  BY DEF Field
<1>3. \A i \in DOMAIN cases : Field(cases[i].name) = Field(cases[c].name) => i = c
  BY <1>1, <1>2
<1> QED
  BY <1>1, <1>3

(* What is printed for a value of a case.                                     *)
LEMMA CasePrinted ==
  ASSUME NEW e, NEW c \in DOMAIN e.cases,
         \A a, b \in DOMAIN e.cases : e.cases[a].name = e.cases[b].name => a = b,
         NEW S, NEW s \in Seq(S), NEW u, u = <<Field(e.cases[c].name)>> \o s
  PROVE  LET case == e.cases[c]
             name == Bare(case.name)
         IN  /\ ~ case.tuple => UnionToJson(e, u) = Ok(Str(name))
             /\ LET r == XdrToJsonCall(s[1], case.types[1])
                IN  case.tuple /\ Len(s) # 0 /\ Len(case.types) = 1 /\ r.is = "ok" =>
                      UnionToJson(e, u) = Ok(Pairs(<<name>>, <<r.v>>))
             /\ LET r == ZipToJson(s, case.types)
                IN  case.tuple /\ Len(s) # 0 /\ Len(case.types) # 1 /\ r.is = "ok" =>
                      UnionToJson(e, u) = Ok(Pairs(<<name>>, <<r.v>>))
<1> DEFINE F == Field(e.cases[c].name)
           cases == {i \in DOMAIN e.cases : Field(e.cases[i].name) = u[1]}
           d == CHOOSE i \in cases : TRUE
           case == e.cases[d]
           member(x) == Pairs(<<u[1].s>>, <<x>>)
<1>1. F.sc = "symbol" /\ F.s = Bare(e.cases[c].name)
  BY DEF Field
<1>2. /\ u[1] = F /\ Len(u) = Len(s) + 1 /\ Len(s) \in Nat /\ u # <<>>
      /\ Len(s) # 0 => u[2] = s[1] /\ Len(u) # 1
      /\ Tail(u) = s
  <2>0. u = <<F>> \o s
    OBVIOUS
  <2> HIDE DEF F
  <2>1. /\ u[1] = F /\ Len(u) = Len(s) + 1 /\ Len(s) \in Nat
    BY <2>0
  <2>2. u # <<>>
    BY <2>1
  <2>3. Len(s) # 0 => u[2] = s[1] /\ Len(u) # 1
    BY <2>0, <2>1
  <2>4. Tail(u) = s
    BY <2>0
  <2> QED
    BY <2>1, <2>2, <2>3, <2>4
<1>3. cases = {c} /\ d = c
  <2>1. {i \in DOMAIN e.cases : Field(e.cases[i].name) = F} = {c}
    BY OneCase
  <2>2. cases = {c}
    BY <1>2, <2>1
  <2> HIDE DEF cases
  <2> QED
    BY <2>2
<1>4. UnionToJson(e, u) =
        IF u = <<>> \/ u[1].sc # "symbol" \/ cases = {} THEN Err
        ELSE IF ~ case.tuple THEN Ok(Str(u[1].s))
        ELSE IF Len(u) = 1 THEN Err
        ELSE IF Len(case.types) = 1 THEN Then(XdrToJsonCall(u[2], case.types[1]), member)
        ELSE Then(ZipToJson(Tail(u), case.types), member)
  BY DEF UnionToJson
<1> HIDE DEF cases, d, F
<1>5. u # <<>> /\ u[1].sc = "symbol" /\ cases # {} /\ u[1].s = Bare(e.cases[c].name)
  BY <1>1, <1>2, <1>3
<1>6. CASE ~ e.cases[c].tuple
  BY <1>3, <1>4, <1>5, <1>6
<1>7. CASE e.cases[c].tuple /\ Len(s) # 0 /\ Len(e.cases[c].types) = 1
  <2>1. UnionToJson(e, u) = Then(XdrToJsonCall(u[2], case.types[1]), member)
    BY <1>2, <1>3, <1>4, <1>5, <1>7
  <2> QED
    BY <1>2, <1>3, <1>5, <1>7, <2>1 DEF Then
<1>8. CASE e.cases[c].tuple /\ Len(s) # 0 /\ Len(e.cases[c].types) # 1
  <2>1. UnionToJson(e, u) = Then(ZipToJson(Tail(u), case.types), member)
    BY <1>2, <1>3, <1>4, <1>5, <1>8
  <2> QED
    BY <1>2, <1>3, <1>5, <1>8, <2>1 DEF Then
<1> QED
  BY <1>6, <1>7, <1>8

(* How the object of a case is read.                                          *)
IsReadAs(j, e, case, u) ==
  /\ j.j = "obj" /\ j # NotJson /\ j # Null /\ DOMAIN j.o = {Bare(case.name)}
  /\ LET r == FromJsonCall(u, case.types[1])
     IN  Len(case.types) = 1 /\ r.is = "ok" =>
           ParseUnion(e, j) = Ok(VecVal(<<Field(case.name)>> \o <<r.v>>))
  /\ LET r == Collect(Rereadings(u.a, case.types, MinLen(u.a, case.types)))
     IN  Len(case.types) # 1 /\ u.j = "arr" /\ r.is = "ok" =>
           ParseUnion(e, j) = Ok(VecVal(<<Field(case.name)>> \o r.v))

LEMMA CaseRead ==
  ASSUME NEW e, NEW c \in DOMAIN e.cases,
         \A a, b \in DOMAIN e.cases : e.cases[a].name = e.cases[b].name => a = b,
         e.cases[c].tuple, NEW u, ~ (u.j = "obj" /\ Bare("0") \in DOMAIN u.o),
         NEW j, j = Pairs(<<Bare(e.cases[c].name)>>, <<u>>)
  PROVE  IsReadAs(j, e, e.cases[c], u)
<1> DEFINE x0 == Bare(e.cases[c].name)
           keys == <<x0>>
           vals == <<u>>
<1>1. DOMAIN keys = 1 .. 1 /\ keys[1] = x0 /\ vals[1] = u /\ \A i, k \in 1 .. 1 : keys[i] = keys[k] => i = k
  OBVIOUS
<1>2. /\ j.j = "obj" /\ j # NotJson /\ j # Null /\ DOMAIN j.o = {x0} /\ j.o[x0] = u
      /\ Cardinality(DOMAIN j.o) = 1
  <2>0. j = Pairs(keys, vals)
    OBVIOUS
  <2> DEFINE n == 1
             o == Pairs(keys, vals).o
  <2>n. n \in Nat /\ DOMAIN keys = 1 .. n /\ \A i, k \in 1 .. n : keys[i] = keys[k] => i = k
    BY <1>1
  <2> HIDE DEF keys, vals, x0, n
  <2>1. /\ Pairs(keys, vals).j = "obj" /\ Pairs(keys, vals) # NotJson /\ Pairs(keys, vals) # Null
        /\ DOMAIN o = {keys[i] : i \in 1 .. n} /\ \A i \in 1 .. n : o[keys[i]] = vals[i]
        /\ Cardinality(DOMAIN o) = n
    BY <2>n, PairsHas
  <2>2. 1 .. n = {1}
    BY DEF n
  <2>3. DOMAIN o = {x0} /\ o[x0] = u /\ Cardinality(DOMAIN o) = 1
    BY <1>1, <2>1, <2>2 DEF n
  <2> QED
    BY <2>0, <2>1, <2>3
<1> HIDE DEF keys, vals
<1> DEFINE text == CHOOSE k \in DOMAIN j.o : TRUE
           rest == UnionRest(j.o[text])
           named == {i \in DOMAIN e.cases : Bare(e.cases[i].name) = text}
           d == CHOOSE i \in named : TRUE
           case == e.cases[d]
           tagged(ys) == VecVal(<<Field(case.name)>> \o ys)
           parsed(w) ==
             IF ~ case.tuple THEN Ok(tagged(<<>>))
             ELSE IF Len(case.types) = 1
                  THEN Then(FromJsonCall(w, case.types[1]), LAMBDA x : tagged(<<x>>))
             ELSE IF w.j = "arr"
                  THEN Then(Collect([i \in 1 .. MinLen(w.a, case.types) |->
                                       FromJsonCall(w.a[i], case.types[i])]),
                            LAMBDA xs : tagged(xs))
             ELSE Ok(tagged(<<>>))
<1>3. text = x0
  BY <1>2
<1>4. rest = Ok(u)
  <2>1. UnionRest(u) = Ok(u)
    BY DEF UnionRest
  <2> HIDE DEF text
  <2> QED
    BY <1>2, <1>3, <2>1
<1>5. named = {c} /\ d = c
  <2>1. {i \in DOMAIN e.cases : Bare(e.cases[i].name) = x0} = {c}
    BY OneCase
  <2> HIDE DEF text, x0
  <2>2. named = {c}
    BY <1>3, <2>1
  <2> HIDE DEF named
  <2> QED
    BY <2>2
<1>6. ParseUnion(e, j) = IF rest.is # "ok" THEN rest ELSE IF named = {} THEN Err ELSE parsed(rest.v)
  BY <1>2 DEF ParseUnion
<1> HIDE DEF rest, named, d, text
<1>7. ParseUnion(e, j) = parsed(u)
  <2>1. rest.is = "ok" /\ rest.v = u /\ named # {}
    BY <1>4, <1>5, OkHas
  <2> HIDE DEF parsed
  <2> QED
    BY <1>6, <2>1
<1>c. case = e.cases[c] /\ case.tuple
  BY <1>5
<1>8. ASSUME Len(e.cases[c].types) = 1, FromJsonCall(u, e.cases[c].types[1]).is = "ok"
      PROVE  ParseUnion(e, j) =
               Ok(VecVal(<<Field(e.cases[c].name)>> \o <<FromJsonCall(u, e.cases[c].types[1]).v>>))
  BY <1>c, <1>7, <1>8 DEF Then
<1>9. ASSUME Len(e.cases[c].types) # 1, u.j = "arr",
             Collect(Rereadings(u.a, e.cases[c].types, MinLen(u.a, e.cases[c].types))).is = "ok"
      PROVE  ParseUnion(e, j) =
               Ok(VecVal(<<Field(e.cases[c].name)>> \o
                 Collect(Rereadings(u.a, e.cases[c].types, MinLen(u.a, e.cases[c].types))).v))
  <2> DEFINE q == Collect([i \in 1 .. MinLen(u.a, case.types) |-> FromJsonCall(u.a[i], case.types[i])])
  <2>1. q = Collect(Rereadings(u.a, e.cases[c].types, MinLen(u.a, e.cases[c].types)))
    BY <1>c DEF Rereadings
  <2>2. ParseUnion(e, j) = Then(q, LAMBDA xs : tagged(xs))
    <3> HIDE DEF tagged, case
    <3> QED
      BY <1>7, <1>9, <1>c
  <2>3. q.is = "ok"
    BY <1>9, <2>1
  <2> HIDE DEF q
  <2>4. ParseUnion(e, j) = Ok(tagged(q.v))
    BY <2>2, <2>3 DEF Then
  <2> QED
    BY <1>c, <2>1, <2>4
<1> QED
  BY <1>2, <1>8, <1>9 DEF IsReadAs

(* A sequence without a length is empty.                                      *)
LEMMA NoLength == ASSUME NEW S, NEW s \in Seq(S) PROVE Len(s) = 0 <=> s = <<>>
OBVIOUS

LEMMA UnionBack ==
  ASSUME NEW t \in BackTypes, NEW v \in ValuesOf(t), t.t = "udt", BackBelow(v),
         t.name \in DOMAIN Spec, Spec[t.name].kind = "union"
  PROVE  Back(v, t)
<1> DEFINE e == Spec[t.name]
<1>1. BackUdt(e) /\ UdtValue(v, e)
  BY BackAssumption DEF BackType, ValueOf
<1>2. PICK c \in DOMAIN e.cases :
        /\ v = VecVal(<<Field(e.cases[c].name)>> \o Tail(v.v))
        /\ Parts(Tail(v.v), e.cases[c].types, v)
  BY <1>1 DEF UdtValue
<1> DEFINE case == e.cases[c]
           types == case.types
           s == Tail(v.v)
           u == <<Field(case.name)>> \o s
           n == Len(types)
           js == PrintedAll(s, types, n)
           name == Bare(case.name)
<1>3. /\ \A a, b \in DOMAIN e.cases : e.cases[a].name = e.cases[b].name => a = b
      /\ case.name # "0" /\ (case.tuple <=> types # <<>>)
      /\ \A i \in DOMAIN types : types[i] \in BackTypes
      /\ Len(types) = 1 => Unwrapped(types[1]).t # "map"
  BY <1>1 DEF BackUdt
<1>4. types \in Seq(SpecTypes) /\ n \in Nat
  <2>1. types \in Seq(SpecTypes)
    BY TypesOfCase
  <2> HIDE DEF types
  <2> QED
    BY <2>1
<1>p. s \in Seq(DOMAIN Size) /\ Len(s) = n
  BY <1>2 DEF Parts
<1>5. v = VecVal(u) /\ v.sc = "vec" /\ v # Void /\ v.v = u
  <2>1. v = VecVal(u)
    BY <1>2
  <2>2. VecVal(u).sc = "vec" /\ VecVal(u).v = u /\ VecVal(u) # Void
    BY DEF VecVal, Void
  <2> HIDE DEF u
  <2> QED
    BY <2>1, <2>2
<1>6. XdrToJson(v, t) = UnionToJson(e, u)
  <2>1. UdtToJson(v, t.name) = UnionToJson(e, v.v)
    BY <1>5 DEF UdtToJson
  <2> HIDE DEF u
  <2> QED
    BY <1>5, <2>1, UdtPrinted
<1>7. \A j : j.j \in {"str", "obj"} => FromJson(j, t) = ParseUnion(e, j)
  <2> SUFFICES ASSUME NEW j, j.j \in {"str", "obj"} PROVE FromJson(j, t) = ParseUnion(e, j)
    OBVIOUS
  <2>1. ParseUdt(t.name, j) = ParseUnion(e, j)
    BY DEF ParseUdt
  <2> QED
    BY <2>1, UdtRead
<1> HIDE DEF e
<1>8. /\ ~ case.tuple => UnionToJson(e, u) = Ok(Str(name))
      /\ LET r == XdrToJsonCall(s[1], types[1])
         IN  case.tuple /\ Len(s) # 0 /\ Len(types) = 1 /\ r.is = "ok" =>
               UnionToJson(e, u) = Ok(Pairs(<<name>>, <<r.v>>))
      /\ LET r == ZipToJson(s, types)
         IN  case.tuple /\ Len(s) # 0 /\ Len(types) # 1 /\ r.is = "ok" =>
               UnionToJson(e, u) = Ok(Pairs(<<name>>, <<r.v>>))
  <2>1. c \in DOMAIN e.cases /\ s \in Seq(DOMAIN Size)
    BY <1>p
  <2> HIDE DEF s
  <2> QED
    BY <1>3, <2>1, CasePrinted
<1>9. CASE ~ case.tuple
  <2> DEFINE j == Str(name)
  <2>1. IsText(name)
    BY BareText
  <2> HIDE DEF name
  <2>2. IsBack(j, v, t) /\ j.j = "str" /\ j.s = name
    BY <2>1, StringBack
  <2>3. XdrToJson(v, t) = Ok(j)
    BY <1>6, <1>8, <1>9
  <2> HIDE DEF j
  <2> DEFINE named == {i \in DOMAIN e.cases : Bare(e.cases[i].name) = j.s}
             d == CHOOSE i \in named : TRUE
  <2>4. named = {c}
    <3>1. {i \in DOMAIN e.cases : Bare(e.cases[i].name) = Bare(e.cases[c].name)} = {c}
      BY <1>3, OneCase
    <3> QED
      BY <2>2, <3>1 DEF name
  <2>5. ParseUnion(e, j) = IF named = {} THEN Err ELSE Ok(VecVal(<<Field(e.cases[d].name)>> \o <<>>))
    BY <2>2 DEF ParseUnion
  <2> HIDE DEF named
  <2>6. d = c /\ named # {}
    BY <2>4
  <2> HIDE DEF d
  <2>7. ParseUnion(e, j) = Ok(VecVal(<<Field(case.name)>> \o <<>>))
    BY <2>5, <2>6
  <2>8. s = <<>>
    <3>1. types = <<>>
      BY <1>3, <1>9
    <3>2. Len(s) = 0
      BY <1>4, <1>p, <3>1, NoLength
    <3> HIDE DEF s
    <3> QED
      BY <1>p, <3>2, NoLength
  <2>9. FromJson(j, t) = Ok(v)
    <3>1. FromJson(j, t) = ParseUnion(e, j)
      BY <1>7, <2>2
    <3>2. v = VecVal(<<Field(case.name)>> \o s)
      BY <1>5
    <3> HIDE DEF s, case, e
    <3>3. VecVal(<<Field(case.name)>> \o s) = VecVal(<<Field(case.name)>> \o <<>>)
      BY <2>8
    <3> QED
      BY <2>7, <3>1, <3>2, <3>3
  <2> QED
    BY <2>2, <2>3, <2>9, OkHas DEF Back
<1>10. CASE case.tuple
  <2>0. n # 0 /\ Len(s) # 0
    <3>1. types # <<>>
      BY <1>3, <1>10
    <3>2. types \in Seq(SpecTypes) /\ Len(types) = n /\ Len(s) = n
      BY <1>4, <1>p
    <3> HIDE DEF types, n, s
    <3>3. Len(types) # 0
      BY <3>1, <3>2, NoLength
    <3> QED
      BY <3>2, <3>3
  <2>1. /\ \A i \in 1 .. n : BackCall(s[i], types[i])
        /\ ZipToJson(s, types) = Ok(Arr(js)) /\ Collect(Rereadings(js, types, n)) = Ok(s)
        /\ Len(js) = n /\ DOMAIN js = 1 .. n /\ DOMAIN types = 1 .. n
    <3>1. Parts(s, types, v) /\ \A i \in DOMAIN types : types[i] \in BackTypes
      BY <1>2, <1>3
    <3> HIDE DEF s, types
    <3> QED
      BY <1>4, <3>1, PartsBack
  <2> HIDE DEF js
  (* The only member of an object of a case, and how it is read.              *)
  <2> DEFINE Member(x) == Pairs(<<name>>, <<x>>)
  <2>m. ASSUME NEW x, ~ (x.j = "obj" /\ Bare("0") \in DOMAIN x.o)
        PROVE  /\ Member(x).j = "obj" /\ Member(x) # NotJson /\ Member(x) # Null
               /\ DOMAIN Member(x).o = {name}
               /\ LET r == FromJsonCall(x, types[1])
                  IN  n = 1 /\ r.is = "ok" =>
                        ParseUnion(e, Member(x)) = Ok(VecVal(<<Field(case.name)>> \o <<r.v>>))
               /\ LET r == Collect(Rereadings(x.a, types, MinLen(x.a, types)))
                  IN  n # 1 /\ x.j = "arr" /\ r.is = "ok" =>
                        ParseUnion(e, Member(x)) = Ok(VecVal(<<Field(case.name)>> \o r.v))
    <3> DEFINE j == Member(x)
    <3>1. /\ c \in DOMAIN e.cases /\ e.cases[c].tuple
          /\ \A a, b \in DOMAIN e.cases : e.cases[a].name = e.cases[b].name => a = b
      BY <1>3, <1>10
    <3>2. j = Pairs(<<Bare(e.cases[c].name)>>, <<x>>)
      OBVIOUS
    <3> HIDE DEF j
    <3>3. IsReadAs(j, e, e.cases[c], x)
      BY <2>m, <3>1, <3>2, CaseRead
    <3>4. j = Member(x)
      BY DEF j
    <3> QED
      BY <3>3, <3>4 DEF IsReadAs
  <2>2. ASSUME NEW x, XdrToJson(v, t) = Ok(Member(x)), ParseUnion(e, Member(x)) = Ok(v),
               ~ (x.j = "obj" /\ Bare("0") \in DOMAIN x.o)
        PROVE  Back(v, t)
    <3> DEFINE j == Member(x)
    <3>1. j.j = "obj" /\ j # NotJson /\ j # Null /\ DOMAIN j.o = {name}
      BY <2>2, <2>m
    <3>2. Bare("0") # name
      BY <1>3, BareText
    <3> HIDE DEF j
    <3>3. Reads(Writes(j)) = j
      BY <3>1, StructureBack
    <3>4. IsBack(j, v, t)
      BY <3>1, <3>2, <3>3 DEF IsBack
    <3>5. FromJson(j, t) = Ok(v)
      BY <1>7, <2>2, <3>1 DEF j
    <3> QED
      BY <2>2, <3>4, <3>5, OkHas DEF Back, j
  <2>3. CASE n = 1
    <3> DEFINE r == XdrToJsonCall(s[1], types[1])
               x == r.v
    <3>1. BackCall(s[1], types[1])
      <4>1. 1 \in 1 .. n
        BY <2>3
      <4> HIDE DEF n
      <4> QED
        BY <2>1, <4>1
    <3>2. r.is = "ok" /\ IsBack(x, s[1], types[1]) /\ FromJsonCall(x, types[1]) = Ok(s[1])
      BY <3>1 DEF BackCall
    <3>3. ~ (x.j = "obj" /\ Bare("0") \in DOMAIN x.o)
      BY <1>3, <2>3, <3>2 DEF IsBack
    <3>4. XdrToJson(v, t) = Ok(Member(x))
      BY <1>6, <1>8, <1>10, <2>0, <2>3, <3>2
    <3> HIDE DEF r, x
    <3>5. ParseUnion(e, Member(x)) = Ok(VecVal(<<Field(case.name)>> \o <<s[1]>>))
      <4> DEFINE q == FromJsonCall(x, types[1])
      <4>1. q.is = "ok" /\ q.v = s[1]
        BY <3>2, OkHas
      <4>2. ParseUnion(e, Member(x)) = Ok(VecVal(<<Field(case.name)>> \o <<q.v>>))
        BY <2>3, <2>m, <3>3, <4>1
      <4> HIDE DEF q, s
      <4> QED
        BY <4>1, <4>2
    <3>6. s = <<s[1]>>
      <4> HIDE DEF s
      <4> QED
        BY <1>p, <2>3
    <3>8. ParseUnion(e, Member(x)) = Ok(v)
      BY <1>5, <3>5, <3>6
    <3> QED
      BY <2>2, <3>3, <3>4, <3>8
  <2>4. CASE n # 1
    <3> DEFINE x == Arr(js)
    <3>1. x.j = "arr" /\ x.a = js
      BY ArrayBack
    <3>2. XdrToJson(v, t) = Ok(Member(x))
      <4>1. ZipToJson(s, types).is = "ok" /\ ZipToJson(s, types).v = x
        BY <2>1, OkHas
      <4> QED
        BY <1>6, <1>8, <1>10, <2>0, <2>4, <4>1
    <3> HIDE DEF x
    <3>3. MinLen(x.a, types) = n
      BY <1>4, <2>1, <3>1 DEF MinLen
    <3>4. ParseUnion(e, Member(x)) = Ok(v)
      <4> DEFINE q == Collect(Rereadings(x.a, types, MinLen(x.a, types)))
      <4>1. q.is = "ok" /\ q.v = s
        BY <2>1, <3>1, <3>3, OkHas
      <4>2. ParseUnion(e, Member(x)) = Ok(VecVal(<<Field(case.name)>> \o q.v))
        BY <2>4, <2>m, <3>1, <4>1
      <4> HIDE DEF q
      <4> QED
        BY <1>5, <4>1, <4>2
    <3> QED
      BY <2>2, <3>1, <3>2, <3>4
  <2> QED
    BY <2>3, <2>4
<1> QED
  BY <1>9, <1>10

(* One step of the induction: a value whose parts come back comes back.       *)
LEMMA BackStep ==
  ASSUME NEW t \in BackTypes, NEW v \in ValuesOf(t), BackBelow(v),
         \A s \in BackTypes : Depth[s] < Depth[t] /\ v \in ValuesOf(s) => BackCall(v, s)
  PROVE  Back(v, t)
<1>1. BackType(t) /\ t \in SpecTypes
  BY BackAssumption DEF BackType
<1>2. CASE t.t \in Wide
  BY <1>2, WideBack
<1>3. CASE t.t \in Ints \ Wide
  BY <1>3, NarrowBack
<1>4. CASE t.t = "bool"
  BY <1>4, TruthBack
<1>5. CASE t.t \in Words
  BY <1>5, WordBack
<1>6. CASE t.t = "address"
  BY <1>6, AddressBack
<1>7. CASE t.t \in {"bytes", "bytesn"}
  BY <1>7, BytesBack
<1>8. CASE t.t = "option"
  <2>1. t.of \in BackTypes /\ Depth[t.of] < Depth[t]
    BY <1>1, <1>8, TypesAssumption DEF BackType
  <2> QED
    BY <1>8, <2>1, OptionBack
<1>9. CASE t.t = "vec"
  BY <1>9, VecBack
<1>10. CASE t.t = "tuple"
  BY <1>10, TupleBack
<1>11. CASE t.t = "map"
  BY <1>11, MapBack
<1>12. CASE t.t = "udt"
  <2>1. t.name \in DOMAIN Spec /\ Spec[t.name].kind \in {"struct", "union", "enum"}
    BY <1>1, <1>12 DEF BackType, BackUdt
  <2> QED
    BY <1>12, <2>1, TupleStruktBack, StruktBack, UnionBack, EnumBack
<1> QED
  BY <1>1, <1>2, <1>3, <1>4, <1>5, <1>6, <1>7, <1>8, <1>9, <1>10, <1>11, <1>12
  DEF BackType, Primitives

(* By induction over the size of a value and the options of its type.         *)
LEMMA ComesBack == \A t \in BackTypes : \A v \in ValuesOf(t) : BackCall(v, t)
<1> DEFINE Lost(v) == {t \in BackTypes : v \in ValuesOf(t) /\ ~ BackCall(v, t)}
           Bad == {v \in DOMAIN Size : Lost(v) # {}}
           Sizes == {Size[v] : v \in Bad}
<1>0. \A t \in BackTypes : \A v \in ValuesOf(t) : v \in DOMAIN Size /\ Size[v] \in Nat
  BY BackAssumption
<1> SUFFICES ASSUME Bad # {} PROVE FALSE
  BY <1>0
<1>1. Sizes # {} /\ Sizes \subseteq Nat
  BY BackAssumption
<1>2. PICK h \in Sizes : \A y \in Sizes : h <= y
  <2> HIDE DEF Sizes
  <2> QED
    BY <1>1, Least
<1>3. PICK v \in Bad : Size[v] = h
  OBVIOUS
<1>4. BackBelow(v)
  <2> SUFFICES ASSUME NEW t \in BackTypes, NEW x \in ValuesOf(t), Size[x] < Size[v], ~ BackCall(x, t)
               PROVE  FALSE
    BY DEF BackBelow
  <2>1. x \in Bad
    BY <1>0
  <2>2. Size[x] \in Sizes
    BY <2>1
  <2>3. h <= Size[x] /\ h \in Nat /\ Size[x] \in Nat
    <3> HIDE DEF Sizes
    <3> QED
      BY <1>1, <1>2, <2>2
  <2> QED
    BY <1>3, <2>3
<1> DEFINE Ranks == {Depth[t] : t \in Lost(v)}
<1>5. Ranks # {} /\ Ranks \subseteq Nat
  <2>1. \A t \in BackTypes : Depth[t] \in Nat
    BY BackAssumption, TypesAssumption DEF BackType
  <2> QED
    BY <2>1
<1>6. PICK d \in Ranks : \A y \in Ranks : d <= y
  <2> HIDE DEF Ranks
  <2> QED
    BY <1>5, Least
<1>7. PICK t \in Lost(v) : Depth[t] = d
  OBVIOUS
<1>8. \A s \in BackTypes : Depth[s] < Depth[t] /\ v \in ValuesOf(s) => BackCall(v, s)
  <2> SUFFICES ASSUME NEW s \in BackTypes, Depth[s] < Depth[t], v \in ValuesOf(s), ~ BackCall(v, s) PROVE FALSE
    OBVIOUS
  <2>1. Depth[s] \in Ranks
    OBVIOUS
  <2>2. d <= Depth[s] /\ d \in Nat /\ Depth[s] \in Nat
    <3> HIDE DEF Ranks
    <3> QED
      BY <1>5, <1>6, <2>1
  <2> QED
    BY <1>7, <2>2
<1>9. t \in BackTypes /\ v \in ValuesOf(t) /\ ~ BackCall(v, t)
  OBVIOUS
<1> HIDE DEF Lost, Bad, Ranks, Sizes
<1>10. BackCall(v, t)
  BY <1>4, <1>8, <1>9, BackStep, BackOfCalls
<1> QED
  BY <1>9, <1>10

(* PrintedIsRead: what xdr_to_json prints for a value of a type, options,     *)
(* vectors, maps, structs, unions and enums nested in any way, from_string    *)
(* reads as that value again (soroban-spec-tools).                            *)
THEOREM PrintedIsRead ==
  ASSUME NEW t \in BackTypes, NEW v \in ValuesOf(t), t.t \notin Wide \cup {"option"}
  PROVE  LET r == XdrToJson(v, t)
         IN  r.is = "ok" /\ FromString(Writes(r.v), t) = Ok(v)
<1>1. BackCall(v, t) /\ XdrToJsonCall(v, t) = XdrToJson(v, t) /\ t \in SpecTypes
  BY ComesBack, BackAssumption DEF BackType
<1> DEFINE r == XdrToJson(v, t)
<1> HIDE DEF r
<1>2. r.is = "ok" /\ XdrToJsonCall(v, t).v = r.v
  BY <1>1 DEF BackCall, r
<1>3. FromString(Writes(r.v), t) = Ok(v)
  BY <1>1, <1>2, TextBack
<1> QED
  BY <1>2, <1>3 DEF r

-----------------------------------------------------------------------------
(* The command line.                                                          *)

Forms == {"absent", "typed", "file"}

(* What is given for an input, as Absent, Typed and InFile make it.           *)
IsForm(x) ==
  /\ x.as \in Forms
  /\ x.as = "typed" => x = Typed(x.text)
  /\ x.as # "absent" => x.text \in Texts

IsSeq(s) == \E S : s \in Seq(S)

(* Who signs for an argument, and the value of what it resolves to.           *)
Signs(i) == IF Passed(i) THEN ResolveSigner(Trim(line[i].text)) ELSE {}
ResolvesTo(i, v) ==
  LET text == Trim(line[i].text)
  IN  IsBare(text) /\ \E a \in ResolveAddress(text) : v = AddressVal(a)

(* ArgsInv: at every step the signers are those of the arguments that are     *)
(* parsed, these are of their types, and an address is one that its text      *)
(* resolves to; there are no more arguments than inputs; what is printed and  *)
(* may be typed again is a text.                                              *)
ArgsInv ==
  /\ IsSeq(args) /\ IsSeq(line) /\ Len(args) <= Len(line)
  /\ \A i \in DOMAIN line : IsForm(line[i]) /\ i \in DOMAIN Fns[fn].inputs
  /\ ArgsTyped
  /\ signers = UNION {Signs(i) : i \in DOMAIN args}
  /\ \A i \in DOMAIN args : Passed(i) => ResolvesTo(i, args[i])
  /\ fn \in DOMAIN Fns \/ pc = "idle"
  /\ pc = "returned" => result \in ValuesOf(Fns[fn].output)
  /\ pc = "printed" => out \in Texts

LEMMA NoItems == IsSeq(<<>>) /\ DOMAIN <<>> = {} /\ Len(<<>>) = 0
<1>1. <<>> \in Seq({})
  OBVIOUS
<1>2. IsSeq(<<>>)
  BY <1>1 DEF IsSeq
<1> QED
  BY <1>2

(* Before the first argument nobody signs.                                    *)
LEMMA FreshLine ==
  ASSUME args' = <<>>, signers' = {}, IsSeq(line'),
         \A i \in DOMAIN line' : IsForm(line'[i]) /\ i \in DOMAIN Fns[fn'].inputs,
         fn' \in DOMAIN Fns \/ pc' = "idle", pc' \notin {"returned", "printed"}
  PROVE  ArgsInv'
<1>1. IsSeq(args') /\ Len(args') = 0 /\ DOMAIN args' = {}
  BY NoItems
<1>2. Len(line') \in Nat
  BY DEF IsSeq
<1>3. ArgsTyped'
  BY <1>1 DEF ArgsTyped
<1> QED
  BY <1>1, <1>2, <1>3 DEF ArgsInv

LEMMA InvokeKeeps == ASSUME Invoke PROVE ArgsInv'
<1> DEFINE Formed == {Absent} \cup {Typed(x) : x \in Inputs} \cup {InFile(x) : x \in Inputs}
<1>a. PICK f \in DOMAIN Fns :
        \E l \in [DOMAIN Fns[f].inputs -> Formed] : Enter(f, l, [i \in DOMAIN l |-> None])
  BY DEF Invoke
<1>1. PICK l \in [DOMAIN Fns[f].inputs -> Formed] : Enter(f, l, [i \in DOMAIN l |-> None])
  BY <1>a
<1>2. IsSeq(l)
  <2>1. Fns[f].inputs \in Seq(SpecTypes)
    BY FnsAssumption
  <2>2. PICK n \in Nat : DOMAIN Fns[f].inputs = 1 .. n
    BY <2>1
  <2>3. l \in Seq(Formed)
    BY <2>2
  <2> QED
    BY <2>3 DEF IsSeq
<1>3. \A i \in DOMAIN l : IsForm(l[i])
  <2> SUFFICES ASSUME NEW i \in DOMAIN l PROVE IsForm(l[i])
    OBVIOUS
  <2>1. \/ l[i] = Absent \/ \E x \in Inputs : l[i] = Typed(x) \/ l[i] = InFile(x)
    OBVIOUS
  <2> QED
    BY <2>1, InputsAssumption DEF IsForm, Forms, Absent, Typed, InFile
<1> QED
  BY <1>1, <1>2, <1>3, FreshLine DEF Enter

LEMMA InvokeAgainKeeps == ASSUME ArgsInv, InvokeAgain PROVE ArgsInv'
<1>1. PICK f \in DOMAIN Fns, as \in {"typed", "file"} :
        /\ Fns[f].inputs = <<Fns[fn].output>>
        /\ Enter(f, <<[as |-> as, text |-> out]>>, <<result>>)
  BY DEF InvokeAgain
<1>2. out \in Texts
  BY DEF ArgsInv, InvokeAgain
<1>3. IsForm([as |-> as, text |-> out])
  BY <1>2 DEF IsForm, Forms, Typed
<1>4. line' = <<[as |-> as, text |-> out]>>
  BY <1>1 DEF Enter
<1>5. IsSeq(line') /\ \A i \in DOMAIN line' : IsForm(line'[i]) /\ i \in DOMAIN Fns[fn'].inputs
  <2> DEFINE x == [as |-> as, text |-> out]
  <2>1. line' = <<x>> /\ IsForm(x)
    BY <1>3, <1>4
  <2> HIDE DEF x
  <2>2. line' \in Seq({x}) /\ DOMAIN line' = {1} /\ line'[1] = x
    BY <2>1
  <2>3. fn' = f /\ 1 \in DOMAIN Fns[f].inputs
    <3> DEFINE o == Fns[fn].output
    <3>1. fn' = f /\ Fns[f].inputs = <<o>>
      BY <1>1 DEF Enter
    <3> HIDE DEF o
    <3>2. DOMAIN <<o>> = {1}
      OBVIOUS
    <3> QED
      BY <3>1, <3>2
  <2> QED
    BY <2>1, <2>2, <2>3 DEF IsSeq
<1> QED
  BY <1>1, <1>5, FreshLine DEF Enter

(* A bare word is proper where an address or the default of a bool is read.   *)
LEMMA BareProper ==
  ASSUME NEW w, Bare(w) \in Texts, NEW t, t.t = "address" \/ (t.t = "bool" /\ w = "false")
  PROVE  Proper(ReadAs(Bare(w)), t)
<1> DEFINE x == Bare(w)
           v == ReadAs(x)
<1>1. "json" \notin DOMAIN x /\ x.q = 0 /\ ~ (x.q > 0) /\ x.w = w
  BY DEF Bare
<1>2. Reads(x) = NotJson \/ Reads(x).j \in {"num", "null", "bool"}
  BY <1>1 DEF Reads, Num, Null, Bool
<1>3. w = "false" => Reads(x).j \in {"num", "bool"}
  BY <1>1 DEF Reads, Num, Bool
<1>4. NotJson.j = "none" /\ Str(x).j = "str"
  BY DEF NotJson, Str
<1>5. v.j \in {"num", "null", "bool"} \/ (v.j = "str" /\ t.t = "address")
  BY <1>2, <1>3, <1>4 DEF ReadAs
<1> HIDE DEF v
<1>6. v \in DOMAIN RawScVals => Taken(v, t)
  BY <1>5, RawAssumption DEF Taken, FromStr
<1>7. Proper(v, t)
  BY <1>6 DEF Proper
<1> QED
  BY <1>7 DEF v

(* What an address is read as.                                                *)
LEMMA AddressIsRead ==
  ASSUME NEW a, NEW t, t.t = "address", FromString(Bare(a), t).is = "ok"
  PROVE  FromString(Bare(a), t).v = AddressVal(a)
<1> DEFINE x == Bare(a)
           r == FromString(x, t)
<1>1. "json" \notin DOMAIN x /\ x.q = 0 /\ ~ (x.q > 0)
  BY DEF Bare
<1>2. Reads(x) = NotJson \/ Reads(x).j \in {"num", "null", "bool"}
  BY <1>1 DEF Reads, Num, Null, Bool
<1>3. t.t \in Primitives /\ t.t \notin Wide \cup Words \cup Ints \cup {"option"}
  BY DEF Primitives, Ints, Words, Wide
<1>4. CASE Reads(x) = NotJson
  <2> DEFINE v == Str(x)
  <2>1. v.j = "str" /\ v.s = x
    BY DEF Str
  <2> HIDE DEF v
  <2>2. r = FromJson(v, t)
    BY <1>3, <1>4 DEF FromString, v
  <2>3. r = AddressFromJson(x)
    BY <1>3, <2>1, <2>2 DEF FromJson, FromJsonPrimitives
  <2> QED
    BY <2>3 DEF AddressFromJson, AddressVal, Ok, Err
<1>5. CASE Reads(x) # NotJson
  <2> DEFINE v == Reads(x)
  <2>1. v.j \in {"num", "null", "bool"}
    BY <1>2, <1>5
  <2>2. r = FromJson(v, t)
    BY <1>3, <1>5 DEF FromString
  <2> HIDE DEF v
  <2>3. r = FromValue(v)
    BY <1>3, <2>1, <2>2 DEF FromJson, FromJsonPrimitives
  <2>4. v \notin DOMAIN RawScVals
    BY <2>1, RawAssumption
  <2> QED
    BY <2>3, <2>4 DEF FromValue, Err
<1> QED
  BY <1>4, <1>5

(* What is collected and passed for an argument.                              *)
LEMMA Collects ==
  ASSUME NEW i \in DOMAIN line, ParsedArg(i).is = "ok"
  PROVE  CollectedSigners(i) = Signs(i) /\ (Passed(i) => ResolvesTo(i, ParsedArg(i).v))
<1>1. CASE Types(fn)[i].t # "address"
  BY <1>1 DEF CollectedSigners, Signs, Passed
<1>2. CASE Types(fn)[i].t = "address" /\ line[i].as # "typed"
  <2>1. Raw(i) = {}
    BY <1>2 DEF Raw
  <2> QED
    BY <1>2, <2>1 DEF CollectedSigners, Signs, Passed
<1>3. CASE Types(fn)[i].t = "address" /\ line[i].as = "typed"
  <2> DEFINE t == Types(fn)[i]
             text == Trim(line[i].text)
             a == CHOOSE a \in ResolveAddress(text) : TRUE
  <2>1. Raw(i) = {text}
    BY <1>3 DEF Raw
  <2>2. (CHOOSE x \in Raw(i) : TRUE) = text /\ Raw(i) # {}
    <3>1. \E x \in Raw(i) : TRUE
      BY <2>1
    <3>2. (CHOOSE x \in Raw(i) : TRUE) \in Raw(i)
      BY <3>1
    <3> QED
      BY <2>1, <3>2
  <2>p. Passed(i)
    BY <1>3 DEF Passed
  <2>3. CollectedSigners(i) = Signs(i)
    <3> DEFINE c == CHOOSE x \in Raw(i) : TRUE
    <3>1. CollectedSigners(i) = ResolveSigner(c)
      BY <1>3, <2>2 DEF CollectedSigners
    <3>2. c = text
      BY <2>2
    <3>3. Signs(i) = ResolveSigner(text)
      BY <2>p DEF Signs
    <3> HIDE DEF c, text
    <3> QED
      BY <3>1, <3>2, <3>3
  <2>4. ResolveAddress(text) # {}
    <3>1. SUFFICES ASSUME ResolveAddress(text) = {} PROVE FALSE
      OBVIOUS
    <3>2. ParsedArg(i) = Err
      BY <1>3, <2>2, <3>1 DEF ParsedArg
    <3> QED
      BY <3>2 DEF Err
  <2>5. ParsedArg(i) = FromString(Bare(a), t)
    BY <1>3, <2>2, <2>4 DEF ParsedArg
  <2>6. a \in ResolveAddress(text)
    BY <2>4
  <2> HIDE DEF a
  <2>7. ParsedArg(i).v = AddressVal(a)
    <3> HIDE DEF t
    <3>1. t.t = "address"
      BY <1>3 DEF t
    <3> QED
      BY <2>5, <3>1, AddressIsRead
  <2>8. IsBare(text)
    BY <2>4 DEF ResolveAddress
  <2> QED
    BY <2>p, <2>3, <2>6, <2>7, <2>8 DEF ResolvesTo
<1> QED
  BY <1>1, <1>2, <1>3

(* An address that is resolved to is one.                                     *)
LEMMA KeyAccount ==
  ASSUME NEW key \in KeyRecords, NEW a \in MuxedAccount(key)
  PROVE  a = key.account /\ a \in Accounts
BY DEF KeyRecords, MuxedAccount

LEMMA ReadsAKey ==
  ASSUME NEW w, NEW key \in ReadKey(w)
  PROVE  key \in KeyRecords /\ w \in DOMAIN InlineKeys \cup DOMAIN Identities
BY KeysAreKeys DEF ReadKey

LEMMA ResolvedIsAddress ==
  ASSUME NEW text, NEW a \in ResolveAddress(text)
  PROVE  a \in DOMAIN Strkeys
<1>1. CASE text.w \in DOMAIN Strkeys \/ text.w \in DOMAIN Contracts
  BY <1>1, KeysAreKeys DEF ResolveAddress
<1>2. CASE text.w \notin DOMAIN Strkeys /\ text.w \notin DOMAIN Contracts
  <2>1. PICK key \in ReadKey(text.w) : a \in MuxedAccount(key)
    BY <1>2 DEF ResolveAddress
  <2>2. key \in KeyRecords
    BY <2>1, ReadsAKey
  <2>3. a \in Accounts
    BY <2>1, <2>2, KeyAccount
  <2> QED
    BY <2>3 DEF Accounts
<1> QED
  BY <1>1, <1>2

(* A signer's secret is of the address, unless that is a contract's.          *)
LEMMA SignerIsResolved ==
  ASSUME NEW text, IsBare(text), NEW s \in ResolveSigner(text), NEW a \in ResolveAddress(text)
  PROVE  text.w \in SecretsOf(s) /\ (s = a \/ text.w \in ContractNames)
<1>1. PICK key \in ReadKey(text.w) : s \in PrivateKey(key)
  BY DEF ResolveSigner
<1>2. key \in KeyRecords /\ text.w \in DOMAIN InlineKeys \cup DOMAIN Identities
  BY <1>1, ReadsAKey
<1>3. text.w \in SecretsOf(s)
  BY <1>1, <1>2 DEF SecretsOf
<1>4. key.kind \in {"secret", "seed"} /\ s = key.account
  BY <1>1 DEF PrivateKey
<1>5. \A k \in ReadKey(text.w) : k = key
  BY <1>1 DEF ReadKey
<1>6. CASE text.w \in Accounts
  <2>1. key = [kind |-> "public", account |-> text.w]
    BY <1>1, <1>6, KeysAreKeys DEF ReadKey
  <2> QED
    BY <1>4, <2>1
<1>7. CASE text.w \in ContractNames
  BY <1>3, <1>7
<1>8. CASE text.w \notin Accounts /\ text.w \notin ContractNames
  <2>1. text.w \notin DOMAIN Strkeys /\ text.w \notin DOMAIN Contracts
    BY <1>8 DEF ContractNames
  <2>2. PICK k \in ReadKey(text.w) : a \in MuxedAccount(k)
    BY <2>1 DEF ResolveAddress
  <2>3. a = key.account
    BY <1>2, <1>5, <2>2, KeyAccount
  <2> QED
    BY <1>3, <1>4, <2>3
<1> QED
  BY <1>6, <1>7, <1>8

LEMMA SignersPass == ArgsInv => SignersArePassed
<1> SUFFICES ASSUME ArgsInv PROVE SignersArePassed
  OBVIOUS
<1>1. ASSUME NEW i \in DOMAIN args, NEW a \in Accounts, Passed(i), WordOf(i) \in SecretsOf(a)
      PROVE  a \in signers
  <2> DEFINE text == Trim(line[i].text)
  <2>1. IsBare(text)
    BY <1>1 DEF ArgsInv, ResolvesTo
  <2>2. a \in ResolveSigner(text)
    BY <1>1, <2>1 DEF ResolveSigner, SecretsOf, WordOf
  <2>3. a \in Signs(i)
    BY <1>1, <2>2 DEF Signs
  <2> QED
    BY <1>1, <2>3 DEF ArgsInv
<1>2. ASSUME NEW a \in signers
      PROVE  \E i \in DOMAIN args :
               /\ Passed(i) /\ WordOf(i) \in SecretsOf(a)
               /\ args[i] = AddressVal(a) \/ WordOf(i) \in ContractNames
  <2>1. PICK i \in DOMAIN args : a \in Signs(i)
    BY <1>2 DEF ArgsInv
  <2> DEFINE text == Trim(line[i].text)
  <2>2. Passed(i) /\ a \in ResolveSigner(text)
    BY <2>1 DEF Signs
  <2>3. IsBare(text) /\ \E b \in ResolveAddress(text) : args[i] = AddressVal(b)
    BY <2>1, <2>2 DEF ArgsInv, ResolvesTo
  <2>4. PICK b \in ResolveAddress(text) : args[i] = AddressVal(b)
    BY <2>3
  <2> HIDE DEF text
  <2>5. text.w \in SecretsOf(a) /\ (a = b \/ text.w \in ContractNames)
    BY <2>2, <2>3, <2>4, SignerIsResolved
  <2> QED
    BY <2>1, <2>2, <2>4, <2>5 DEF WordOf, text
<1> QED
  BY <1>1, <1>2 DEF SignersArePassed

LEMMA TrimmedText ==
  ASSUME NEW x \in Texts
  PROVE  Trim(x) \in Texts
<1>1. CASE ~ ("q" \in DOMAIN x /\ x.q = 1)
  BY <1>1 DEF Trim
<1>2. CASE "q" \in DOMAIN x /\ x.q = 1
  <2>1. x = [q |-> x.q, w |-> x.w]
    BY <1>2, InputsAssumption DEF IsText
  <2>2. "json" \notin DOMAIN x
    BY <2>1
  <2>3. [x EXCEPT !.q = @ - 1] = Bare(x.w)
    BY <1>2, <2>1 DEF Bare
  <2>4. Reads(x) = Str(Bare(x.w))
    BY <1>2, <2>2, <2>3 DEF Reads
  <2>5. Reads(x) # NotJson
    BY <2>4 DEF Str, NotJson
  <2>6. Str(Bare(x.w)) \in Jsons
    BY <2>4, <2>5, JsonsAssumption
  <2>7. Str(Bare(x.w)).j = "str" /\ Str(Bare(x.w)).s = Bare(x.w)
    BY DEF Str
  <2>8. Bare(x.w) \in Texts
    BY <2>6, <2>7 DEF Texts
  <2> QED
    BY <1>2, <2>8 DEF Trim
<1> QED
  BY <1>1, <1>2

(* What is parsed for an input is of its type.                                *)
LEMMA ParsedFits ==
  ASSUME ArgsInv, pc = "parse", NEW i \in DOMAIN line, ParsedArg(i).is = "ok", ProperArg(i)
  PROVE  Fits(ParsedArg(i).v, Types(fn)[i])
<1> DEFINE t == Types(fn)[i]
           r == ParsedArg(i)
<1>t. t \in SpecTypes
  <2>1. fn \in DOMAIN Fns /\ i \in DOMAIN Fns[fn].inputs
    BY DEF ArgsInv
  <2>2. Fns[fn].inputs \in Seq(SpecTypes)
    BY <2>1, FnsAssumption
  <2>3. t = Fns[fn].inputs[i]
    BY <2>1 DEF Types
  <2> QED
    BY <2>1, <2>2, <2>3
<1>f. line[i].as # "absent" => line[i].text \in Texts
  BY DEF ArgsInv, IsForm
<1>p. /\ line[i].as = "typed" => Proper(ReadAs(Trim(line[i].text)), t)
      /\ line[i].as = "file" /\ t.t \notin {"bytes", "bytesn"} => Proper(ReadAs(line[i].text), t)
      /\ line[i].as = "file" /\ t.t = "bytesn" => Len(FileBytes(line[i].text)) = 2 * t.n
  BY DEF ProperArg
<1> HIDE DEF t
<1>1. CASE Raw(i) # {}
  <2> DEFINE x == CHOOSE x \in Raw(i) : TRUE
  <2>1. x \in Raw(i)
    BY <1>1
  <2>2. x \in Texts /\ Proper(ReadAs(x), t)
    <3>1. CASE line[i].as = "typed"
      <4>1. x = Trim(line[i].text)
        BY <2>1, <3>1 DEF Raw
      <4> QED
        BY <1>p, <1>f, <3>1, <4>1, TrimmedText
    <3>2. CASE line[i].as # "typed"
      <4>1. x = Bare("false") /\ t.t = "bool"
        BY <2>1, <3>2 DEF Raw, t
      <4>2. Bare("false") \in Texts
        BY InputsAssumption
      <4> QED
        BY <4>1, <4>2, BareProper
    <3> QED
      BY <3>1, <3>2
  <2>3. CASE t.t # "address"
    <3>1. r = FromString(x, t)
      BY <1>1, <2>3 DEF ParsedArg, t
    <3> HIDE DEF x
    <3> QED
      BY <1>t, <2>2, <3>1, ReadFits DEF t
  <2>4. CASE t.t = "address"
    <3> DEFINE a == CHOOSE a \in ResolveAddress(x) : TRUE
    <3>1. ResolveAddress(x) # {} /\ r = FromString(Bare(a), t)
      BY <1>1, <2>4 DEF ParsedArg, Err, t
    <3>2. a \in DOMAIN Strkeys
      <4>1. a \in ResolveAddress(x)
        BY <3>1
      <4> HIDE DEF x, a
      <4> QED
        BY <4>1, ResolvedIsAddress
    <3> HIDE DEF a
    <3>3. Bare(a) \in Texts
      BY <3>2, InputsAssumption
    <3>4. Proper(ReadAs(Bare(a)), t)
      BY <2>4, <3>3, BareProper
    <3> QED
      BY <1>t, <3>1, <3>3, <3>4, ReadFits DEF t
  <2> QED
    BY <2>3, <2>4
<1>2. CASE Raw(i) = {} /\ t.t = "option"
  <2>1. r.v = Void
    BY <1>2 DEF ParsedArg, Ok, t
  <2>2. Fits(r.v, t)
    BY <1>2, <2>1 DEF Fits, Composite, Ints, Wide
  <2> QED
    BY <2>2 DEF t
<1>3. CASE Raw(i) = {} /\ t.t # "option" /\ line[i].as = "file"
  <2>1. CASE t.t \in {"bytes", "bytesn"}
    <3>1. r.v = [sc |-> "bytes", h |-> FileBytes(line[i].text)]
      BY <1>3, <2>1 DEF ParsedArg, Ok, t
    <3>2. Fits(r.v, t)
      BY <1>3, <1>p, <2>1, <3>1 DEF Fits, Composite, Ints, Wide
    <3> QED
      BY <3>2 DEF t
  <2>2. CASE t.t \notin {"bytes", "bytesn"}
    <3>1. r = FromString(line[i].text, t)
      BY <1>3, <2>2 DEF ParsedArg, t
    <3>2. line[i].text \in Texts /\ Proper(ReadAs(line[i].text), t)
      BY <1>3, <1>p, <1>f, <2>2
    <3> QED
      BY <1>t, <3>1, <3>2, ReadFits DEF t
  <2> QED
    BY <2>1, <2>2
<1>4. CASE Raw(i) = {} /\ t.t # "option" /\ line[i].as # "file"
  BY <1>4 DEF ParsedArg, Err, t
<1> QED
  BY <1>1, <1>2, <1>3, <1>4

LEMMA ParameterKeeps ==
  ASSUME ArgsInv, BuildHostFunctionParameters PROVE ArgsInv'
<1>u. UNCHANGED <<fn, line, replay, result, out>> /\ pc = "parse"
  BY DEF BuildHostFunctionParameters
<1>1. CASE UNCHANGED <<args, signers>>
  <2>1. pc' \notin {"returned", "printed"}
    BY <1>u DEF BuildHostFunctionParameters
  <2>2. ArgsTyped'
    BY <1>u, <1>1 DEF ArgsInv, ArgsTyped, ProperArg, Types
  <2> QED
    BY <1>u, <1>1, <2>1, <2>2 DEF ArgsInv, Signs, ResolvesTo, Passed, Types
<1>2. CASE ~UNCHANGED <<args, signers>>
  <2> DEFINE n == Len(args) + 1
             v == ParsedArg(n).v
  <2>1. /\ Len(args) # Len(line) /\ ParsedArg(n).is = "ok" /\ args' = Append(args, v)
        /\ signers' = signers \cup CollectedSigners(n) /\ pc' = pc
    BY <1>2 DEF BuildHostFunctionParameters
  <2>2. PICK S : args \in Seq(S)
    BY DEF ArgsInv, IsSeq
  <2>3. PICK R : line \in Seq(R)
    BY DEF ArgsInv, IsSeq
  <2>4. Len(args) \in Nat /\ Len(line) \in Nat /\ Len(args) <= Len(line)
    BY <2>2, <2>3 DEF ArgsInv
  <2>5. n \in DOMAIN line /\ n <= Len(line)
    BY <2>1, <2>3, <2>4
  <2> HIDE DEF v
  <2>6. args \in Seq(S \cup {v})
    BY <2>2
  <2>7. /\ args' \in Seq(S \cup {v}) /\ Len(args') = n
        /\ DOMAIN args' = DOMAIN args \cup {n}
    BY <2>1, <2>4, <2>6
  <2>8. CollectedSigners(n) = Signs(n) /\ (Passed(n) => ResolvesTo(n, v))
    BY <2>1, <2>5, Collects DEF v
  <2>a. (\A i \in DOMAIN args : args'[i] = args[i]) /\ args'[n] = v
    BY <2>1, <2>4, <2>6
  <2>9. \A i : Signs(i)' = Signs(i) /\ (Passed(i)' <=> Passed(i))
    BY <1>u DEF Signs, Passed, Types
  <2>b. \A i, x : (ResolvesTo(i, x))' <=> ResolvesTo(i, x)
    BY <1>u DEF ResolvesTo
  <2>10. /\ signers' = UNION {Signs(i)' : i \in DOMAIN args'}
         /\ \A i \in DOMAIN args' : Passed(i)' => ResolvesTo(i, args[i])'
    <3>1. signers' = UNION {Signs(i)' : i \in DOMAIN args'}
      BY <2>1, <2>7, <2>8, <2>9 DEF ArgsInv
    <3>2. ASSUME NEW i \in DOMAIN args', Passed(i)' PROVE ResolvesTo(i, args[i])'
      <4>1. ResolvesTo(i, args'[i])
        BY <2>7, <2>8, <2>a, <2>9, <3>2 DEF ArgsInv
      <4> QED
        BY <1>u, <4>1 DEF ResolvesTo
    <3> QED
      BY <3>1, <3>2
  <2>11. ArgsTyped'
    <3>1. \A i : (ProperArg(i)' <=> ProperArg(i)) /\ Types(fn)'[i] = Types(fn)[i]
      BY <1>u DEF ProperArg, Types
    <3>2. \A i \in DOMAIN args : args'[i] = args[i]
      BY <2>1, <2>4, <2>6
    <3>3. args'[n] = v
      BY <2>1, <2>4, <2>6
    <3>4. ProperArg(n) => Fits(v, Types(fn)[n])
      BY <1>u, <2>1, <2>5, ParsedFits DEF v
    <3> QED
      BY <2>7, <3>1, <3>2, <3>3, <3>4 DEF ArgsInv, ArgsTyped
  <2> QED
    BY <1>u, <2>1, <2>5, <2>7, <2>10, <2>11 DEF ArgsInv, IsSeq
<1> QED
  BY <1>1, <1>2

(* The inductive invariant is kept by every step.                             *)
LEMMA ArgsStep == ASSUME ArgsInv, [Next]_vars PROVE ArgsInv'
<1>1. CASE Invoke
  BY <1>1, InvokeKeeps
<1>2. CASE InvokeAgain
  BY <1>2, InvokeAgainKeeps
<1>3. CASE BuildHostFunctionParameters
  BY <1>3, ParameterKeeps
<1>4. CASE Call
  <2>1. result' \in ValuesOf(Fns[fn].output) /\ pc' = "returned" /\ fn \in DOMAIN Fns
    BY <1>4 DEF Call, ArgsInv
  <2>2. ArgsTyped'
    BY <1>4 DEF Call, ArgsInv, ArgsTyped, ProperArg, Types
  <2> QED
    BY <1>4, <2>1, <2>2 DEF Call, ArgsInv, Signs, ResolvesTo, Passed, Types
<1>5. CASE OutputToString
  <2>1. UNCHANGED <<fn, line, replay, args, signers, result>> /\ fn \in DOMAIN Fns
    BY <1>5 DEF OutputToString, ArgsInv
  <2> DEFINE r == XdrToJson(result, Fns[fn].output)
  <2>2. r.is \in {"err", "panic"} \/ (r.is = "ok" /\ Writes(r.v) \in Texts)
    BY <1>5, <2>1, ShowsAssumption DEF ArgsInv, OutputToString
  <2>3. pc' # "returned" /\ (pc' = "printed" => out' \in Texts)
    BY <1>5, <2>2 DEF OutputToString
  <2>4. ArgsTyped'
    BY <2>1 DEF ArgsInv, ArgsTyped, ProperArg, Types
  <2> QED
    BY <2>1, <2>3, <2>4 DEF ArgsInv, Signs, ResolvesTo, Passed, Types
<1>6. CASE Done
  <2>1. line' = <<>> /\ IsSeq(<<>>) /\ DOMAIN <<>> = {}
    BY <1>6, NoItems DEF Done
  <2> QED
    BY <1>6, <2>1, FreshLine DEF Done
<1>7. CASE UNCHANGED vars
  <2>1. ArgsTyped'
    BY <1>7 DEF vars, ArgsInv, ArgsTyped, ProperArg, Types
  <2> QED
    BY <1>7, <2>1 DEF vars, ArgsInv, Signs, ResolvesTo, Passed, Types
<1> QED
  BY <1>1, <1>2, <1>3, <1>4, <1>5, <1>6, <1>7 DEF Next

LEMMA ArgsStart == Init => ArgsInv
<1> SUFFICES ASSUME Init PROVE ArgsInv
  OBVIOUS
<1>1. args = <<>> /\ line = <<>> /\ signers = {} /\ pc = "idle"
  BY DEF Init
<1>2. /\ IsSeq(args) /\ DOMAIN args = {} /\ Len(args) = 0
      /\ IsSeq(line) /\ DOMAIN line = {} /\ Len(line) = 0
  BY <1>1, NoItems
<1>3. ArgsTyped
  BY <1>2 DEF ArgsTyped
<1> QED
  BY <1>1, <1>2, <1>3 DEF ArgsInv

(* ArgumentsAreTyped: for every contract spec and every command line, what    *)
(* the host is given for an input is a value of the type the spec declares,   *)
(* nested values included, unless the user's JSON is one of those that Proper *)
(* leaves out (build_host_function_parameters in arg_parsing.rs, with the     *)
(* readers of soroban-spec-tools).                                            *)
THEOREM ArgumentsAreTyped == InvocationSpec => []ArgsTyped
<1>1. ArgsInv => ArgsTyped
  BY DEF ArgsInv
<1> QED
  BY <1>1, ArgsStart, ArgsStep, PTL DEF InvocationSpec

(* SecretsSign: when an invocation is ready, the accounts that were passed by *)
(* their secrets sign, and nobody else does: every signer is the address that *)
(* the contract gets in the argument that gave its secret, or that argument   *)
(* is taken for a contract (build_host_function_parameters, resolve_address   *)
(* and resolve_signer in arg_parsing.rs, for every set of stored identities,  *)
(* aliases and keys).                                                         *)
THEOREM SecretsSign == InvocationSpec => []SignersArePassed
BY SignersPass, ArgsStart, ArgsStep, PTL DEF InvocationSpec

-----------------------------------------------------------------------------
(* What was printed, given back in a file.                                    *)

(* The input i is a value's printed text, alone on the line.                  *)
Came(i) ==
  LET t == Types(fn)[i]
      r == XdrToJson(replay[i], t)
  IN  /\ Len(line) = 1 /\ i = 1
      /\ replay[i] \in ValuesOf(t) /\ r.is = "ok" /\ line[i].text = Writes(r.v)

LEMMA FileIsRead ==
  ASSUME NEW i \in DOMAIN line, line[i].as = "file", Came(i), Types(fn)[i] \in FileTypes
  PROVE  ParsedArg(i) = Ok(replay[i])
<1> DEFINE t == Types(fn)[i]
           v == replay[i]
           x == Writes(XdrToJson(v, t).v)
<1>1. t \in BackTypes /\ t.t \notin {"bytes", "bytesn", "bool", "option"} /\ v \in ValuesOf(t) /\ line[i].text = x
  BY DEF FileTypes, Came
<1>0. t.t \notin Wide \cup {"option"}
  BY DEF FileTypes
<1>2. Raw(i) = {}
  BY <1>1 DEF Raw
<1>3. ParsedArg(i) = FromString(line[i].text, t)
  <2> HIDE DEF t
  <2>1. Raw(i) = {} /\ t.t # "option" /\ line[i].as = "file"
    BY <1>1, <1>2
  <2>2. t.t \notin {"bytes", "bytesn"}
    BY <1>1
  <2> QED
    BY <2>1, <2>2 DEF ParsedArg, t
<1> HIDE DEF t, v
<1>4. FromString(x, t) = Ok(v)
  <2>1. t \in BackTypes /\ t.t \notin Wide \cup {"option"} /\ v \in ValuesOf(t)
    BY <1>0, <1>1
  <2> QED
    BY <2>1, PrintedIsRead
<1> HIDE DEF x
<1> QED
  BY <1>1, <1>3, <1>4 DEF v

(* BackInv: a line that has a value to give back is that value's printed text *)
(* alone, and what is printed is the text of what the contract returned.      *)
BackInv ==
  /\ DOMAIN replay = DOMAIN line
  /\ \A i \in DOMAIN line : replay[i] # None => Came(i)
  /\ pc \in {"returned", "printed"} => result \in ValuesOf(Fns[fn].output)
  /\ LET r == XdrToJson(result, Fns[fn].output)
     IN  pc = "printed" => r.is = "ok" /\ out = Writes(r.v)
  /\ BackFromFile

LEMMA InvokeBack == ASSUME Invoke PROVE BackInv'
<1> DEFINE Formed == {Absent} \cup {Typed(x) : x \in Inputs} \cup {InFile(x) : x \in Inputs}
<1>a. PICK f \in DOMAIN Fns :
        \E l \in [DOMAIN Fns[f].inputs -> Formed] : Enter(f, l, [i \in DOMAIN l |-> None])
  BY DEF Invoke
<1>1. PICK l \in [DOMAIN Fns[f].inputs -> Formed] : Enter(f, l, [i \in DOMAIN l |-> None])
  BY <1>a
<1>2. line' = l /\ replay' = [i \in DOMAIN l |-> None] /\ pc' = "parse"
  BY <1>1 DEF Enter
<1>3. DOMAIN replay' = DOMAIN line' /\ \A i \in DOMAIN line' : replay'[i] = None
  BY <1>2
<1> QED
  BY <1>2, <1>3 DEF BackInv, BackFromFile

LEMMA AgainBack == ASSUME BackInv, InvokeAgain PROVE BackInv'
<1>1. PICK f \in DOMAIN Fns, as \in {"typed", "file"} :
        /\ Fns[f].inputs = <<Fns[fn].output>>
        /\ Enter(f, <<[as |-> as, text |-> out]>>, <<result>>)
  BY DEF InvokeAgain
<1> DEFINE o == Fns[fn].output
           r == XdrToJson(result, o)
           x == [as |-> as, text |-> out]
<1>2. /\ Fns[f].inputs = <<o>> /\ fn' = f /\ line' = <<x>> /\ replay' = <<result>>
      /\ args' = <<>> /\ pc' = "parse"
  BY <1>1 DEF Enter
<1>3. result \in ValuesOf(o) /\ r.is = "ok" /\ out = Writes(r.v)
  BY DEF BackInv, InvokeAgain
<1>4. x.text = out
  OBVIOUS
<1> HIDE DEF o, x
<1>5. /\ DOMAIN line' = {1} /\ Len(line') = 1 /\ line'[1] = x
      /\ DOMAIN replay' = {1} /\ replay'[1] = result
      /\ DOMAIN args' = {}
  BY <1>2
<1>6. Types(fn)'[1] = o
  BY <1>2 DEF Types
<1>7. Came(1)'
  <2> HIDE DEF r
  <2>1. XdrToJson(replay'[1], Types(fn)'[1]) = r
    BY <1>5, <1>6 DEF r
  <2> QED
    BY <1>3, <1>4, <1>5, <1>6, <2>1 DEF Came
<1>8. BackFromFile'
  BY <1>2, <1>5 DEF BackFromFile
<1> QED
  BY <1>2, <1>5, <1>7, <1>8 DEF BackInv

LEMMA ParameterBack ==
  ASSUME ArgsInv, BackInv, BuildHostFunctionParameters PROVE BackInv'
<1>u. UNCHANGED <<fn, line, replay, result, out>> /\ pc = "parse" /\ pc' \notin {"returned", "printed"}
  BY DEF BuildHostFunctionParameters
<1>0. \A i : Came(i)' <=> Came(i)
  BY <1>u DEF Came, Types
<1> SUFFICES BackFromFile'
  BY <1>u, <1>0 DEF BackInv
<1> SUFFICES ASSUME NEW i \in DOMAIN line, line[i].as = "file", replay[i] # None,
                    Types(fn)[i] \in FileTypes
             PROVE  /\ pc' # "parse" => i \in DOMAIN args'
                    /\ i \in DOMAIN args' => args'[i] = replay[i]
  BY <1>u DEF BackFromFile, Types
<1>1. Came(i) /\ Len(line) = 1 /\ i = 1
  BY DEF BackInv, Came
<1>2. ParsedArg(1) = Ok(replay[1])
  BY <1>1, FileIsRead
<1>3. PICK S : args \in Seq(S)
  BY DEF ArgsInv, IsSeq
<1>4. Len(args) \in Nat /\ Len(args) <= 1 /\ DOMAIN args = 1 .. Len(args)
  BY <1>1, <1>3 DEF ArgsInv
<1>5. 1 \in DOMAIN args => args[1] = replay[1]
  BY <1>1 DEF BackInv, BackFromFile
<1>6. CASE Len(args) = Len(line)
  <2>1. args' = args
    BY <1>6 DEF BuildHostFunctionParameters
  <2> QED
    BY <1>1, <1>4, <1>5, <1>6, <2>1
<1>7. CASE Len(args) # Len(line)
  <2>1. Len(args) + 1 = 1
    BY <1>1, <1>4, <1>7
  <2>2. ParsedArg(Len(args) + 1).is = "ok" /\ ParsedArg(Len(args) + 1).v = replay[1]
    BY <1>2, <2>1, OkHas
  <2>3. args' = Append(args, replay[1]) /\ pc' = pc
    BY <1>7, <2>2 DEF BuildHostFunctionParameters
  <2> DEFINE v == replay[1]
  <2> HIDE DEF v
  <2>4. args \in Seq(S \cup {v})
    BY <1>3
  <2>5. Append(args, v)[1] = v
    BY <1>4, <2>1, <2>4
  <2> QED
    BY <1>u, <1>1, <2>3, <2>5 DEF v
<1> QED
  BY <1>6, <1>7

(* The inductive invariant is kept by every step.                             *)
LEMMA BackSteps == ASSUME ArgsInv, BackInv, [Next]_vars PROVE BackInv'
<1>1. CASE Invoke
  BY <1>1, InvokeBack
<1>2. CASE InvokeAgain
  BY <1>2, AgainBack
<1>3. CASE BuildHostFunctionParameters
  BY <1>3, ParameterBack
<1>c. ASSUME UNCHANGED <<fn, line, replay, args>>, pc # "parse", pc' # "parse"
      PROVE  /\ DOMAIN replay' = DOMAIN line'
             /\ \A i \in DOMAIN line' : replay'[i] # None => Came(i)'
             /\ BackFromFile'
  BY <1>c DEF BackInv, BackFromFile, Came, Types
<1>4. CASE Call
  <2>1. /\ UNCHANGED <<fn, line, replay, args>> /\ pc = "ready" /\ pc' = "returned"
        /\ result' \in ValuesOf(Fns[fn].output)
    BY <1>4 DEF Call
  <2> QED
    BY <1>c, <2>1 DEF BackInv
<1>5. CASE OutputToString
  <2> DEFINE r == XdrToJson(result, Fns[fn].output)
  <2>1. UNCHANGED <<fn, line, replay, args, result>> /\ pc = "returned" /\ fn \in DOMAIN Fns
    BY <1>5 DEF OutputToString, ArgsInv
  <2>2. r.is \in {"err", "panic"} \/ r.is = "ok"
    BY <1>5, <2>1, ShowsAssumption DEF ArgsInv
  <2>3. pc' \in {"failed", "panicked"} \/ (pc' = "printed" /\ r.is = "ok" /\ out' = Writes(r.v))
    BY <1>5, <2>2 DEF OutputToString
  <2>4. result \in ValuesOf(Fns[fn].output)
    BY <2>1 DEF BackInv
  <2>5. pc' # "parse" /\ pc' # "returned"
    BY <2>3
  <2> QED
    BY <1>c, <2>1, <2>3, <2>4, <2>5 DEF BackInv
<1>6. CASE Done
  <2>1. line' = <<>> /\ replay' = <<>> /\ DOMAIN <<>> = {} /\ pc' = "idle"
    BY <1>6, NoItems DEF Done
  <2> QED
    BY <2>1 DEF BackInv, BackFromFile
<1>7. CASE UNCHANGED vars
  BY <1>7 DEF vars, BackInv, BackFromFile, Came, Types
<1> QED
  BY <1>1, <1>2, <1>3, <1>4, <1>5, <1>6, <1>7 DEF Next

(* PrintedComesBack: for every contract, what the tool printed for a value is *)
(* read from a file as that value again: bytes, a wide integer, a bool or an  *)
(* option apart (FileTypes), it is neither refused nor changed                *)
(* (output_to_string and build_host_function_parameters in arg_parsing.rs,    *)
(* with soroban-spec-tools).                                                  *)
THEOREM PrintedComesBack == InvocationSpec => []BackFromFile
<1>1. Init => BackInv
  <2> SUFFICES ASSUME Init PROVE BackInv
    OBVIOUS
  <2>1. line = <<>> /\ replay = <<>> /\ DOMAIN <<>> = {} /\ pc = "idle"
    BY NoItems DEF Init
  <2> QED
    BY <2>1 DEF BackInv, BackFromFile
<1>2. BackInv => BackFromFile
  BY DEF BackInv
<1> QED
  BY <1>1, <1>2, ArgsStart, ArgsStep, BackSteps, PTL DEF InvocationSpec
=============================================================================

------------------------------ MODULE ArgTexts ------------------------------
(* The texts that commands read and print, the JSON values they stand for,    *)
(* and the outcomes of reading them.                                          *)
(*                                                                            *)
(* A text is a word with the number of quotations around it: Bare("A") is the *)
(* text A, and what JSON writes for the string A is the same word quoted      *)
(* once.  The text of an array or an object is the JSON value itself.         *)
EXTENDS Integers, Sequences, TLC

-----------------------------------------------------------------------------
(* Outcomes: a result, an error, or a panic (todo!, unwrap).                  *)

Ok(x) == [is |-> "ok", v |-> x]
Err == [is |-> "err"]
Panic == [is |-> "panic"]

-----------------------------------------------------------------------------
(* Texts and JSON values.                                                     *)

Bare(w) == [q |-> 0, w |-> w]
Null == [j |-> "null"]
Bool(b) == [j |-> "bool", b |-> b]
Num(n) == [j |-> "num", n |-> n]
Str(text) == [j |-> "str", s |-> text]
Arr(a) == [j |-> "arr", a |-> a]
Obj(o) == [j |-> "obj", o |-> o]    \* o: a function from texts to values
NotJson == [j |-> "none"]

Low == -2
High == 13
U64Max == 12

(* Integers beyond 64 bits are read as floating point numbers.                *)
IsFloat(n) == n > U64Max

IntWords == [n \in Low .. High |-> ToString(n)]
HexDigits ==
  ("" :> <<>>) @@ ("7" :> <<7>>) @@ ("07" :> <<0, 7>>) @@ ("12" :> <<1, 2>>) @@ ("13" :> <<1, 3>>)
    @@ ("ab" :> <<10, 11>>) @@ ("abc" :> <<10, 11, 12>>)
    @@ ("0007" :> <<0, 0, 0, 7>>) @@ ("0012" :> <<0, 0, 1, 2>>) @@ ("00ab" :> <<0, 0, 10, 11>>)
    @@ ("0107" :> <<0, 1, 0, 7>>)
Strkeys == [GA |-> "account", GB |-> "account", CA |-> "contract"]

IsBare(text) == "q" \in DOMAIN text /\ text.q = 0
IntOf(text) ==
  IF IsBare(text) THEN {n \in DOMAIN IntWords : IntWords[n] = text.w} ELSE {}

(* serde_json::from_str.                                                      *)
Reads(text) ==
  IF "json" \in DOMAIN text THEN text.json
  ELSE IF text.q > 0 THEN Str([text EXCEPT !.q = @ - 1])
  ELSE IF IntOf(text) # {} THEN Num(CHOOSE n \in IntOf(text) : TRUE)
  ELSE CASE text.w = "null" -> Null
         [] text.w = "true" -> Bool(TRUE)
         [] text.w = "false" -> Bool(FALSE)
         [] OTHER -> NotJson

(* The words of integers are different, from other JSON too, and digits are   *)
(* no address.                                                                *)
ASSUME WordsAssumption ==
  /\ \A n, m \in Low .. High : IntWords[n] = IntWords[m] => n = m
  /\ \A n \in Low .. High : IntWords[n] \notin {"null", "true", "false"}
  /\ \A w \in DOMAIN HexDigits : HexDigits[w] \in Seq(0 .. 15) /\ w \notin DOMAIN Strkeys

(* Value::to_string.                                                          *)
Writes(v) ==
  CASE v.j = "null" -> Bare("null")
    [] v.j = "bool" -> Bare(IF v.b THEN "true" ELSE "false")
    [] v.j = "num" -> Bare(IF IsFloat(v.n) THEN "1.3e1" ELSE IntWords[v.n])
    [] v.j = "str" /\ "q" \in DOMAIN v.s -> [v.s EXCEPT !.q = @ + 1]
    [] OTHER -> [json |-> v]

-----------------------------------------------------------------------------
(* Contract values that need no type.                                         *)

Void == [sc |-> "void"]
Sign == {"i32", "i64", "i128", "i256"}

Hex(text) == IF IsBare(text) /\ text.w \in DOMAIN HexDigits THEN {HexDigits[text.w]} ELSE {}

HexDecode(text) ==
  IF \E h \in Hex(text) : Len(h) % 2 = 0
  THEN Ok([sc |-> "bytes", h |-> CHOOSE h \in Hex(text) : TRUE]) ELSE Err

=============================================================================

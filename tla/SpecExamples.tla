---------------------------- MODULE SpecExamples -----------------------------
(* The examples of arguments in the help of `contract invoke`.                *)
EXTENDS SpecTools

(* The example of a type, as JSON (of the bytes, a word with an odd number of *)
(* digits as in the code); NotJson when there is none.  Those of maps,        *)
(* results and user defined types are left out.                               *)
RECURSIVE Example(_)
Example(t) ==
  CASE t.t \in Ints \ Wide -> Num(IF t.t \in Sign THEN -1 ELSE 1)
    [] t.t \in Wide -> Str(Bare(IntWords[IF t.t \in Sign THEN -1 ELSE 1]))
    [] t.t = "bool" -> Bool(TRUE)
    [] t.t \in Words -> Str(Bare("A"))
    [] t.t = "bytes" -> Str(Bare("abc"))
    [] t.t = "bytesn" -> Str(Bare("7"))
    [] t.t = "address" -> Str(Bare("GA"))
    [] t.t = "void" -> Null
    [] t.t \in {"timepoint", "duration"} -> Num(1)
    [] t.t = "option" -> Example(t.of)
    [] t.t = "vec" -> LET x == Example(t.of) IN IF x = NotJson THEN x ELSE Arr(<<x>>)
    [] t.t = "tuple" ->
         LET xs == [i \in DOMAIN t.types |-> Example(t.types[i])]
         IN  IF \E i \in DOMAIN xs : xs[i] = NotJson THEN NotJson ELSE Arr(xs)
    [] OTHER -> NotJson

(* Spec::doc: an example without blanks is shown without its quotation marks. *)
Doc(t) == LET x == Example(t)
          IN  IF x = NotJson THEN {} ELSE {IF x.j = "str" THEN x.s ELSE Writes(x)}

=============================================================================

----------------------------- MODULE InvokeArgs ------------------------------
(* The arguments of `contract invoke -- fn --arg value`: the command line is  *)
(* read into contract values by the types of the function's spec, identities  *)
(* among the address arguments become signers, the contract is called, and    *)
(* its result is printed as JSON.  The user may pass what was printed on, by  *)
(* hand or in a file.                                                         *)
EXTENDS SpecTools

CONSTANTS
  Fns,         \* the contract's functions: a sequence of [inputs, output]
  Inputs,      \* texts the user types
  InlineKeys,  \* the words that are keys themselves: secrets, phrases, addresses, ...
  Identities,  \* the keys in the identity files, by their names
  Contracts,   \* the addresses of the contract aliases of the network
  FileBytes(_),  \* the bytes of a file that holds a text, as hex digits
  ValuesOf(_)  \* the values a contract may return of a type

(* A secret key or a seed phrase; a public key or an M address; the name of   *)
(* an entry of the secure store, which has its account or is lost.            *)
Accounts == {w \in DOMAIN Strkeys : Strkeys[w] = "account"}
KeyRecords == [kind : {"secret", "seed", "public", "muxed", "store"}, account : Accounts] \cup [kind : {"lost"}]

(* A text that is a word has a number of quotation marks and nothing else.    *)
IsText(x) == "q" \in DOMAIN x => x = [q |-> x.q, w |-> x.w] /\ x.q \in Nat

ASSUME FnsAssumption == \A f \in DOMAIN Fns : Fns[f].inputs \in Seq(SpecTypes)
ASSUME InputsAssumption ==
  /\ Inputs \cup {Bare(w) : w \in DOMAIN Strkeys \cup {"false"}} \subseteq Texts
  /\ \A x \in Texts : IsText(x)
ASSUME KeysAreKeys ==
  /\ \A w \in DOMAIN InlineKeys : InlineKeys[w] \in KeyRecords
  /\ \A a \in Accounts : a \in DOMAIN InlineKeys /\ InlineKeys[a] = [kind |-> "public", account |-> a]
  /\ \A w \in DOMAIN Identities : Identities[w] \in KeyRecords
  /\ \A w \in DOMAIN Contracts : Contracts[w] \in DOMAIN Strkeys \ Accounts
ASSUME ShowsAssumption ==
  \A f \in DOMAIN Fns : \A v \in ValuesOf(Fns[f].output) :
    LET r == XdrToJson(v, Fns[f].output)
    IN  r.is \in {"err", "panic"} \/ (r.is = "ok" /\ Writes(r.v) \in Texts)

VARIABLES
  pc,
  fn,       \* the function called
  line,     \* what is given for each input: its form and text
  replay,   \* the values that the texts of the line were printed for
  args,     \* the arguments parsed so far
  signers,  \* the keys collected
  result,   \* what the contract returned
  out       \* what was printed

vars == <<pc, fn, line, replay, args, signers, result, out>>

Absent == [as |-> "absent"]
Typed(text) == [as |-> "typed", text |-> text]
InFile(text) == [as |-> "file", text |-> text]
None == [sc |-> "none"]

Init ==
  /\ pc = "idle"
  /\ fn = 1
  /\ line = <<>> /\ replay = <<>> /\ args = <<>> /\ signers = {}
  /\ result = None /\ out = Bare("")

Types(f) == [i \in DOMAIN Fns[f].inputs |-> Fns[f].inputs[i]]

(* clap takes a value with a leading hyphen only for the signed integers.     *)
BuildCustomCmd(f, l) ==
  \A i \in DOMAIN l :
    l[i].as = "typed" /\ IntOf(l[i].text) \cap {-2, -1} # {} => Types(f)[i].t \in Sign

Enter(f, l, r) ==
  /\ BuildCustomCmd(f, l)
  /\ fn' = f /\ line' = l /\ replay' = r
  /\ args' = <<>> /\ signers' = {} /\ result' = None /\ out' = Bare("")
  /\ pc' = "parse"

(* The user types the arguments, names files, or leaves some out (a file that *)
(* does not exist is no different).                                           *)
Invoke ==
  /\ pc = "idle"
  /\ \E f \in DOMAIN Fns :
       \E l \in [DOMAIN Fns[f].inputs -> {Absent} \cup {Typed(x) : x \in Inputs} \cup {InFile(x) : x \in Inputs}] :
         Enter(f, l, [i \in DOMAIN l |-> None])

(* The user passes what was printed to a function of that one type.           *)
InvokeAgain ==
  /\ pc = "printed"
  /\ \E f \in DOMAIN Fns, as \in {"typed", "file"} :
       /\ Fns[f].inputs = <<Fns[fn].output>>
       /\ Enter(f, <<[as |-> as, text |-> out]>>, <<result>>)

-----------------------------------------------------------------------------
(* trim_matches: a quoted text of the command line loses its quotation marks. *)
Trim(text) == IF "q" \in DOMAIN text /\ text.q = 1 THEN Bare(text.w) ELSE text

(* read_key: the word itself is a key, or else it names an identity.          *)
ReadKey(w) ==
  IF w \in DOMAIN InlineKeys THEN {InlineKeys[w]} ELSE {Identities[n] : n \in {w} \cap DOMAIN Identities}

MuxedAccount(key) == IF key.kind = "lost" THEN {} ELSE {key.account}
PrivateKey(key) == IF key.kind \in {"secret", "seed"} THEN {key.account} ELSE {}

(* An address as it stands, or that of a contract alias, or else of a key.    *)
ResolveAddress(text) ==
  IF ~ IsBare(text) THEN {}
  ELSE IF text.w \in DOMAIN Strkeys THEN {text.w}
  ELSE IF text.w \in DOMAIN Contracts THEN {Contracts[text.w]}
  ELSE UNION {MuxedAccount(key) : key \in ReadKey(text.w)}

(* The signer of the address that the text was resolved to.                   *)
ResolveSignerLate(text) ==
  UNION {UNION {PrivateKey(key) : key \in ReadKey(w)} : w \in ResolveAddress(text)}

(* The secret of the key that the text is or names, if it can be had.         *)
ResolveSigner(text) ==
  IF IsBare(text) THEN UNION {PrivateKey(key) : key \in ReadKey(text.w)} ELSE {}

(* The raw value clap has for an input: bool arguments have a default.        *)
Raw(i) ==
  IF line[i].as = "typed" THEN {Trim(line[i].text)}
  ELSE IF Types(fn)[i].t = "bool" THEN {Bare("false")} ELSE {}

(* The raw value, the empty option, the file: in this order.  A file of bytes *)
(* is taken as it is.                                                         *)
ParsedArg(i) ==
  LET t == Types(fn)[i]
  IN  CASE Raw(i) # {} ->
             LET text == CHOOSE x \in Raw(i) : TRUE
             IN  IF t.t # "address" THEN FromString(text, t)
                 ELSE IF ResolveAddress(text) = {} THEN Err
                 ELSE FromString(Bare(CHOOSE a \in ResolveAddress(text) : TRUE), t)
        [] Raw(i) = {} /\ t.t = "option" -> Ok(Void)
        [] Raw(i) = {} /\ t.t # "option" /\ line[i].as = "file" ->
             IF t.t \in {"bytes", "bytesn"} THEN Ok([sc |-> "bytes", h |-> FileBytes(line[i].text)])
             ELSE FromString(line[i].text, t)
        [] OTHER -> Err

(* The signer of an address argument.                                         *)
CollectedSigners(i) ==
  IF Types(fn)[i].t = "address" /\ Raw(i) # {}
  THEN ResolveSigner(CHOOSE x \in Raw(i) : TRUE) ELSE {}

BuildHostFunctionParameters ==
  /\ pc = "parse"
  /\ IF Len(args) = Len(line)
     THEN pc' = "ready" /\ UNCHANGED <<args, signers>>
     ELSE LET i == Len(args) + 1
              r == ParsedArg(i)
          IN  IF r.is = "ok"
              THEN /\ args' = Append(args, r.v)
                   /\ signers' = signers \cup CollectedSigners(i)
                   /\ UNCHANGED pc
              ELSE /\ pc' = (IF r.is = "err" THEN "failed" ELSE "panicked")
                   /\ UNCHANGED <<args, signers>>
  /\ UNCHANGED <<fn, line, replay, result, out>>

(* The contract returns a value of its type, its argument among them.         *)
Call ==
  /\ pc = "ready"
  /\ result' \in ValuesOf(Fns[fn].output)
  /\ pc' = "returned"
  /\ UNCHANGED <<fn, line, replay, args, signers, out>>

OutputToString ==
  /\ pc = "returned"
  /\ LET r == XdrToJson(result, Fns[fn].output)
     IN  CASE r.is = "ok" -> out' = Writes(r.v) /\ pc' = "printed"
           [] r.is = "err" -> UNCHANGED out /\ pc' = "failed"
           [] r.is = "panic" -> UNCHANGED out /\ pc' = "panicked"
  /\ UNCHANGED <<fn, line, replay, args, signers, result>>

(* The next command.                                                          *)
Done ==
  /\ pc \in {"printed", "failed", "panicked"}
  /\ pc' = "idle" /\ line' = <<>> /\ replay' = <<>> /\ args' = <<>> /\ signers' = {}
  /\ result' = None /\ out' = Bare("")
  /\ UNCHANGED fn

Next == Invoke \/ InvokeAgain \/ BuildHostFunctionParameters \/ Call \/ OutputToString \/ Done

InvocationSpec == Init /\ [][Next]_vars

-----------------------------------------------------------------------------
(* What the user shows the secret of an account by, and what is taken for a   *)
(* contract first.                                                            *)
SecretsOf(a) == {w \in DOMAIN InlineKeys \cup DOMAIN Identities : a \in UNION {PrivateKey(key) : key \in ReadKey(w)}}
ContractNames == DOMAIN Contracts \cup (DOMAIN Strkeys \ Accounts)

Passed(i) == Types(fn)[i].t = "address" /\ line[i].as = "typed"
WordOf(i) == Trim(line[i].text).w
AddressVal(a) == [sc |-> "address", s |-> Bare(a)]

(* Whose authorization the call may need is what the contract is passed, and  *)
(* whose it gets is what the signers are: an account that the user passes by  *)
(* its secret key, phrase or stored secret signs, and every signer is passed  *)
(* in the argument that brought its secret.  The exception is an identity     *)
(* whose name is a contract alias or address too: the contract is passed, and *)
(* the identity signs all the same.                                           *)
SignersArePassed ==
  pc = "ready" =>
    /\ \A i \in DOMAIN args : \A a \in Accounts :
         Passed(i) /\ args[i] = AddressVal(a) /\ WordOf(i) \in SecretsOf(a) => a \in signers
    /\ \A a \in signers : \E i \in DOMAIN args :
         /\ Passed(i) /\ WordOf(i) \in SecretsOf(a)
         /\ args[i] = AddressVal(a) \/ WordOf(i) \in ContractNames

=============================================================================

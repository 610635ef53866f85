---------------------------- MODULE DBusVariant ----------------------------
(***************************************************************************)
(* D-Bus values as JSON and back (bridge/cockpitdbusjson.c, parse_json and *)
(* build_json).                                                            *)
(*                                                                         *)
(* A type is a record with its kind and what it is made of, a D-Bus value  *)
(* a record with its type and its content.  A string is a record that says *)
(* what could be read in it: a number, a number in hexadecimal, a boolean, *)
(* an object path, a signature, base64, base64 that is cut off or has      *)
(* something else in it, or nothing.  The integer types are scaled down: a *)
(* byte goes to MaxByte, a signed 64-bit integer to Max64.                 *)
(***************************************************************************)
EXTENDS Integers, Sequences, FiniteSets

CONSTANTS MaxByte, Max64,
          Samples,   \* the values sent to clients
          Nodes,     \* the JSON that clients send
          Wanted     \* the types it is read as

(* What an instance has to satisfy.                                       *)
WidthAssumption == MaxByte \in Nat /\ Max64 \in Nat /\ MaxByte <= Max64

VARIABLES phase,  \* "value", "sent" and "back", or "node" and "read"
          type, value, node, result

vars == <<phase, type, value, node, result>>

Error == [error |-> TRUE]
None == [none |-> TRUE]
Failed(x) == "error" \in DOMAIN x

Str(form, n) == [form |-> form, n |-> n]
JInt(n) == [j |-> "int", n |-> n]
JDouble(n) == [j |-> "double", n |-> n]
JBool(x) == [j |-> "bool", b |-> x]
JString(s) == [j |-> "string", s |-> s]
JArray(e) == [j |-> "array", e |-> e]
JObject(m) == [j |-> "object", m |-> m]  \* a function from member names
JType(t) == [j |-> "type", t |-> t]      \* a string that is the signature of a type
Base64(bytes) == [form |-> "base64", bytes |-> bytes]
\* Base64 whose last group is not whole, and a string with n characters of base64 before the
\* first other one; both with the bytes that g_base64_decode finds in them.
CutOff(bytes) == [form |-> "cut", bytes |-> bytes]
Junk(n, bytes) == [form |-> "junk", n |-> n, bytes |-> bytes]

Value(t, x) == [t |-> t, v |-> x]
Type(k) == [k |-> k]
TName == Str("t", 0)  \* the members of a variant
VName == Str("v", 0)
StringKinds == {"s", "o", "g"}

\* The least and the greatest value that parse_json accepts for an integer type.
ParseRange(k) ==
    CASE k = "y" -> 0..MaxByte
      [] k = "x" -> (-Max64 - 1)..Max64
      [] k = "t" -> 0..Max64

\* The values the type has: an unsigned 64-bit integer has one bit more.
RangeOf(k) == IF k = "t" THEN 0..(2 * Max64 + 1) ELSE ParseRange(k)

\* json_node_set_int takes a signed 64-bit integer.
Wrap64(n) == IF n > Max64 THEN n - (2 * Max64 + 2) ELSE n

\* cockpit_json_parse, of the name of a member.
ParseText(s) ==
    CASE s.form = "number" /\ s.n \in ParseRange("x") -> JInt(s.n)
      [] s.form = "number" /\ s.n \notin ParseRange("x") -> JDouble(s.n)
      [] s.form = "decimal" -> JDouble(s.n)
      [] s.form = "bool" -> JBool(s.n = 1)
      [] OTHER -> Error

\* g_variant_print without type annotations, of a key that is not a string.
PrintKey(v) ==
    CASE v.t.k = "y" -> Str("hex", v.v)
      [] v.t.k = "d" -> Str("decimal", v.v)
      [] v.t.k = "b" -> Str("bool", IF v.v THEN 1 ELSE 0)
      [] OTHER -> Str("number", v.v)

(***************************************************************************)
(* From JSON.                                                              *)
(***************************************************************************)
CheckType(n, j) == n.j = j

CheckIntType(n, k) == CheckType(n, "int") /\ n.n \in ParseRange(k)

\* parse_json_byte_array: what does not belong to base64 is refused only after a number of
\* characters that is no multiple of three, and nothing is decoded when it comes first.
ParseByteArray(n, t) ==
    IF ~CheckType(n, "string") THEN Error
    ELSE CASE n.s.form \in {"base64", "cut"} -> Value(t, n.s.bytes)
           [] n.s.form = "junk" /\ n.s.n = 0 -> Value(t, <<>>)
           [] n.s.form = "junk" /\ n.s.n > 0 /\ n.s.n % 3 = 0 -> Value(t, n.s.bytes)
           [] OTHER -> Error

\* parse_json for a basic type.
ParseBasic(n, t) ==
    CASE t.k = "b" -> IF CheckType(n, "bool") THEN Value(t, n.b) ELSE Error
      [] t.k \in {"y", "x", "t"} -> IF CheckIntType(n, t.k) THEN Value(t, n.n) ELSE Error
      [] t.k = "d" -> IF n.j \in {"int", "double"} THEN Value(t, n.n) ELSE Error
      [] t.k = "s" -> IF CheckType(n, "string") THEN Value(t, n.s) ELSE Error
      [] t.k = "o" -> IF CheckType(n, "string") /\ n.s.form = "path" THEN Value(t, n.s) ELSE Error
      [] t.k = "g" -> IF CheckType(n, "string") /\ n.s.form = "sig" THEN Value(t, n.s) ELSE Error
      [] OTHER -> Error  \* parse_not_supported: a file descriptor cannot be sent

RECURSIVE ParseJson(_, _)

\* parse_json_array
ParseArray(n, t) ==
    IF ~CheckType(n, "array") THEN Error
    ELSE LET e == [i \in DOMAIN n.e |-> ParseJson(n.e[i], t.e)]
         IN  IF \E i \in DOMAIN e : Failed(e[i]) THEN Error ELSE Value(t, e)

\* parse_json_tuple: too many and too few values are errors.
ParseTuple(n, t) ==
    IF ~CheckType(n, "array") \/ Len(n.e) # Len(t.e) THEN Error
    ELSE LET e == [i \in DOMAIN n.e |-> ParseJson(n.e[i], t.e[i])]
         IN  IF \E i \in DOMAIN e : Failed(e[i]) THEN Error ELSE Value(t, e)

\* parse_json_dictionary: a key that is not a string is JSON in the name of the member.
ParseKey(s, t) ==
    IF t.k \in StringKinds THEN ParseJson(JString(s), t)
    ELSE LET n == ParseText(s) IN IF Failed(n) THEN Error ELSE ParseJson(n, t)

ParseDictionary(n, t) ==
    IF ~CheckType(n, "object") THEN Error
    ELSE LET entries == {<<ParseKey(s, t.key), ParseJson(n.m[s], t.e)>> : s \in DOMAIN n.m}
         IN  IF \E e \in entries : Failed(e[1]) \/ Failed(e[2]) THEN Error ELSE Value(t, entries)

\* parse_json_variant: a type in "t" and a value in "v"; other members are not looked at.
ParseVariant(n, t) ==
    IF ~CheckType(n, "object") \/ ~({TName, VName} \subseteq DOMAIN n.m) THEN Error
    ELSE LET x == IF n.m[TName].j = "type" THEN ParseJson(n.m[VName], n.m[TName].t) ELSE Error
         IN  IF Failed(x) THEN Error ELSE Value(t, x)

ParseJson(n, t) ==
    CASE t.k = "v" -> ParseVariant(n, t)
      [] t.k = "ay" -> ParseByteArray(n, t)
      [] t.k = "a" -> ParseArray(n, t)
      [] t.k = "dict" -> ParseDictionary(n, t)
      [] t.k = "tuple" -> ParseTuple(n, t)
      [] OTHER -> ParseBasic(n, t)

(***************************************************************************)
(* To JSON.                                                                *)
(***************************************************************************)
RECURSIVE BuildJson(_)

BuildArrayOrTuple(v) == JArray([i \in DOMAIN v.v |-> BuildJson(v.v[i])])

KeyName(k) == IF k.t.k \in StringKinds THEN k.v ELSE PrintKey(k)

\* build_json_dictionary
BuildDictionary(v) ==
    JObject([s \in {KeyName(e[1]) : e \in v.v} |->
                BuildJson((CHOOSE e \in v.v : KeyName(e[1]) = s)[2])])

\* build_json_variant
BuildVariant(v) ==
    JObject([m \in {TName, VName} |-> IF m = TName THEN JType(v.v.t) ELSE BuildJson(v.v)])

\* build_json_byte_array
BuildByteArray(v) == JString(Base64(v.v))

BuildJson(v) ==
    CASE v.t.k = "b" -> JBool(v.v)
      [] v.t.k \in {"y", "x", "t"} -> JInt(Wrap64(v.v))
      [] v.t.k = "d" -> JDouble(v.v)
      [] v.t.k \in StringKinds -> JString(v.v)
      [] v.t.k = "v" -> BuildVariant(v)
      [] v.t.k = "ay" -> BuildByteArray(v)
      [] v.t.k \in {"a", "tuple"} -> BuildArrayOrTuple(v)
      [] v.t.k = "dict" -> BuildDictionary(v)

\* build_signature: the type a client gets with a reply.
BuildSignature(v) == v.t

(***************************************************************************)
(* A value goes to the client and comes back, and a client sends JSON.     *)
(***************************************************************************)
Init ==
    /\ type = None /\ node = None /\ result = None
    /\ \/ phase = "value" /\ value \in Samples
       \/ phase = "node" /\ value = None

\* build_json_body, of a reply, a signal or a property.
Send ==
    /\ phase = "value"
    /\ phase' = "sent" /\ node' = BuildJson(value) /\ type' = BuildSignature(value)
    /\ UNCHANGED <<value, result>>

\* The client sends back what it got.
Return ==
    /\ phase = "sent"
    /\ phase' = "back" /\ result' = ParseJson(node, type)
    /\ UNCHANGED <<value, node, type>>

\* The arguments of a call, a signal or a reply of the client.
Receive(n, t) ==
    /\ phase = "node"
    /\ phase' = "read" /\ node' = n /\ type' = t /\ result' = ParseJson(n, t)
    /\ UNCHANGED value

Next == Send \/ Return \/ \E n \in Nodes, t \in Wanted : Receive(n, t)

Spec == Init /\ [][Next]_vars

(***************************************************************************)
(* Properties.                                                             *)
(***************************************************************************)
RECURSIVE Fits(_, _)

\* The value is one of the type.
Fits(v, t) ==
    /\ v.t = t
    /\ CASE t.k \in {"y", "x", "t"} -> v.v \in RangeOf(t.k)
         [] t.k = "o" -> v.v.form = "path"
         [] t.k = "g" -> v.v.form = "sig"
         [] t.k = "a" -> \A i \in DOMAIN v.v : Fits(v.v[i], t.e)
         [] t.k = "tuple" -> Len(v.v) = Len(t.e) /\ \A i \in DOMAIN v.v : Fits(v.v[i], t.e[i])
         [] t.k = "dict" -> \A e \in v.v : Fits(e[1], t.key) /\ Fits(e[2], t.e)
         [] t.k = "v" -> Fits(v.v, v.v.t)
         [] OTHER -> TRUE

\* What is read of a client's JSON is an error or a value of the type asked for: nothing that
\* GVariant would refuse or cut off reaches the bus.
OnlyFitting == phase \in {"read", "back"} /\ ~Failed(result) => Fits(result, type)

RECURSIVE SameNumber(_, _)

\* The same JSON, but for an integer that stands for a double, members of a variant besides
\* its two, and strings read as bytes though they are not the base64 of any.
SameNumber(n, m) ==
    \/ n = m
    \/ n.j = "int" /\ m.j = "double" /\ n.n = m.n
    \/ n.j = "array" /\ m.j = "array" /\ DOMAIN n.e = DOMAIN m.e /\
         \A i \in DOMAIN n.e : SameNumber(n.e[i], m.e[i])
    \/ /\ n.j = "object" /\ m.j = "object"
       /\ DOMAIN m.m = IF TName \in DOMAIN m.m THEN {TName, VName} \cap DOMAIN n.m ELSE DOMAIN n.m
       /\ \A s \in DOMAIN m.m : SameNumber(n.m[s], m.m[s])
    \/ n.j = "string" /\ m.j = "string" /\ n.s.form \in {"junk", "cut"} /\ m.s.form = "base64"

\* What the bridge reads of a client's JSON, written as JSON again, is what the client sent,
\* as far as SameNumber goes (and but for bytes as keys, which are not written as JSON).
ReadFaithfully ==
    (phase = "read" /\ ~Failed(result) /\ (type.k = "dict" => type.key.k # "y")) =>
        SameNumber(node, BuildJson(result))

\* A value that went to a client comes back as it was.
RoundTrip == phase = "back" => result = value

=============================================================================

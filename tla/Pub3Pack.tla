------------------------------ MODULE Pub3Pack ------------------------------
(***************************************************************************)
(* Values of the pub3 language on the wire: as XDR JSON                    *)
(* (libpub/pub3json2xdr.C) and as msgpack (libpub/pub3msgpack.C).          *)
(*                                                                         *)
(* Msgpack is scaled down: a byte has R values instead of 256, so that     *)
(* 1, 2, 4 and 8 bytes hold what W = 8 * log2 (R) bits allow.  The first   *)
(* byte of an object is a unit [c, n]: the kind of its code and the number *)
(* that the "fix" codes carry; a byte of a number, a text or a double is a *)
(* unit of kind "byte", "char" or "frac".                                  *)
(***************************************************************************)
EXTENDS Pub3Scalar

CONSTANTS
  R,          \* values of a byte
  JsMode      \* g_js_mode: large integers are sent as strings

NilV == [t |-> "nil"]           \* a NULL pointer
DictV(m) == [t |-> "dict", m |-> m]
LambdaV == [t |-> "lambda"]     \* any value without a wire form

Joined(ss) == FlattenSeq(ss)
Text(cs) == FoldLeft(LAMBDA a, b : a \o b, "", cs)

\* The keys of a dictionary in the order ord of its hash table
KeysOf(m, ord) == SelectSeq(ord, LAMBDA k : k \in DOMAIN m)

(***************************************************************************)
(* Texts.  Parts of lists and dictionaries are in JSON.  Besides values, a *)
(* string of a template may hold an expression (VarX) that has the value v *)
(* when the page is made, and other strings (ShellX).                      *)
(***************************************************************************)

VarX(v) == [t |-> "var", v |-> v]
ShellX(es) == [t |-> "shell", e |-> es]

Quote(s, q) == IF q THEN "\"" \o s \o "\"" ELSE s
Separated(ss) == Text([i \in DOMAIN ss |-> IF i = 1 THEN ss[i] ELSE "," \o ss[i]])

\* The keys in their order on output: sort_fields ()
FieldOrder(m, ord, sort) == KeysOf(m, IF sort THEN TextOrder ELSE ord)

RECURSIVE ValueText(_, _, _, _)
\* to_str, with str_opt_t's quoted and sort_fields; an expression has none
ValueText(x, q, sort, ord) ==
  CASE x.t \in {"null", "nil"} -> "null"
    [] x.t = "bool" -> IF x.v THEN "true" ELSE "false"
    [] x.t = "str" -> Quote(x.v, q)
    [] x.t \in {"int", "uint"} -> Quote(ToString(x.v), q /\ JsonQuoted(x))
    [] x.t = "double" -> DoubleText(x.v)
    [] x.t = "list" ->
         "[" \o Separated([i \in DOMAIN x.e |-> ValueText(x.e[i], TRUE, sort, ord)]) \o "]"
    [] x.t = "dict" ->
         Then(FieldOrder(x.m, ord, sort), LAMBDA ks :
           "{" \o Separated([i \in DOMAIN ks |->
                   Quote(ks[i], TRUE) \o ":" \o ValueText(x.m[ks[i]], TRUE, sort, ord)]) \o "}")
    [] x.t = "shell" -> Text([i \in DOMAIN x.e |-> ValueText(x.e[i], FALSE, sort, ord)])
    [] OTHER -> ""

RECURSIVE EvalShell(_, _)
\* expr_shell_str_t::eval_to_val: the texts of its elements' values
EvalShell(x, ord) ==
  CASE x.t = "var" -> x.v
    [] x.t = "list" -> ListV([i \in DOMAIN x.e |-> EvalShell(x.e[i], ord)])
    [] x.t = "shell" -> StrV(Text([i \in DOMAIN x.e |->
                               ValueText(EvalShell(x.e[i], ord), FALSE, FALSE, ord)]))
    [] OTHER -> x

\* make_str: the texts collected so far become one element
MakeStr(acc) == IF acc.b = "" THEN acc.out ELSE Append(acc.out, StrV(acc.b))

\* expr_shell_str_t::compact: a string is parsed into elements, and those
\* with a text are joined
HasText(x) == x.t # "var"
Compact(x, ord) ==
  IF Len(x.e) = 1 /\ HasText(x.e[1]) THEN x.e[1]
  ELSE Then(FoldLeft(LAMBDA acc, e :
                       IF HasText(e) THEN [acc EXCEPT !.b = @ \o ValueText(e, FALSE, FALSE, ord)]
                       ELSE [out |-> Append(MakeStr(acc), e), b |-> ""],
                     [out |-> <<>>, b |-> ""], x.e),
            LAMBDA acc : ShellX(MakeStr(acc)))

(***************************************************************************)
(* XDR JSON.                                                               *)
(***************************************************************************)

Half == 2^(W \div 2)            \* 2^32
J(typ, v) == [typ |-> typ, v |-> v]

\* Mutant: the limit of a signed 32-bit number is one too high
IntToJson_Off(i) ==
  CASE i >= -(Half \div 2) /\ i <= Half \div 2 ->
         J("int32", ((i + Half \div 2) % Half) - (Half \div 2))
    [] i > Half \div 2 /\ i < Half -> J("uint32", i)
    [] OTHER -> J("int64", i)

IntToJson(i) ==
  CASE i >= -(Half \div 2) /\ i < Half \div 2 -> J("int32", i)
    [] i >= Half \div 2 /\ i < Half -> J("uint32", i)
    [] OTHER -> J("int64", i)

UintToJson(u) == IF u < Half THEN J("uint32", u) ELSE J("uint64", u)

RECURSIVE ToJson(_, _), FromJson(_)

\* Pairs are sorted by key, whatever the order of the table
PairsToJson(m, ord) ==
  LET ks == SelectSeq(TextOrder, LAMBDA k : k \in ToSet(KeysOf(m, ord)))
  IN [i \in DOMAIN ks |->
       <<ks[i], IF m[ks[i]] = NilV THEN J("absent", 0) ELSE ToJson(m[ks[i]], ord)>>]

ToJson(x, ord) ==
  CASE x.t = "int" -> IntToJson(x.v)
    [] x.t = "uint" -> UintToJson(x.v)
    [] x.t \in {"bool", "str"} -> J(x.t, x.v)
    [] x.t = "double" -> J("double", DoubleToXdr(x.v))
    [] x.t = "null" -> J("null", 0)
    [] x.t = "list" -> J("list", [i \in DOMAIN x.e |->
         IF x.e[i] = NilV THEN J("null", 0) ELSE ToJson(x.e[i], ord)])
    [] x.t = "dict" -> J("dict", PairsToJson(x.m, ord))
    [] OTHER -> J("error", 0)

FromJson(j) ==
  CASE j.typ \in {"int32", "uint32", "int64"} -> NumV(IntS(j.v))
    [] j.typ = "uint64" -> NumV(UintS(j.v))
    [] j.typ \in {"bool", "str"} -> [t |-> j.typ, v |-> j.v]
    [] j.typ = "double" -> [t |-> "double", v |-> DoubleFromXdr(j.v)]
    [] j.typ = "null" -> NullV
    [] j.typ = "list" -> ListV([i \in DOMAIN j.v |-> FromJson(j.v[i])])
    [] j.typ = "dict" -> DictV([k \in {j.v[i][1] : i \in DOMAIN j.v} |->
         FromJson(j.v[CHOOSE i \in DOMAIN j.v : j.v[i][1] = k][2])])
    [] OTHER -> NilV            \* absent or error: no object

(***************************************************************************)
(* Writing msgpack.                                                        *)
(***************************************************************************)

Code(c, n) == [c |-> c, n |-> n]

\* put_int: n bytes of i, the most significant first
PutInt(i, n) == [k \in 1..n |-> Code("byte", (i \div R^(n - k)) % R)]

FixMax == R \div 2 - 1          \* 0x7f
NegFix == -(R \div 4)           \* -32
RawMax == R \div 2 - 1          \* 0x1f
LenMax == R \div 4              \* 0x0f

EncodeRawLen(len) ==
  CASE len <= RawMax -> <<Code("fix_raw", len)>>
    [] len > RawMax /\ len < R^2 -> <<Code("raw16", 0)>> \o PutInt(len, 2)
    [] OTHER -> <<Code("raw32", 0)>> \o PutInt(len, 4)

EncodeLen(len, kind) ==
  CASE len <= LenMax -> <<Code("fix_" \o kind, len)>>
    [] len > LenMax /\ len < R^2 -> <<Code(kind \o "16", 0)>> \o PutInt(len, 2)
    [] OTHER -> <<Code(kind \o "32", 0)>> \o PutInt(len, 4)

EncodeStr(s) ==
  EncodeRawLen(Len(s)) \o [i \in 1..Len(s) |-> Code("char", SubSeq(s, i, i))]

\* In js mode the code of an int64 is written before the string as well
EncodeNegativeInt(i) ==
  CASE i >= NegFix -> <<Code("neg_fix", i)>>
    [] i < NegFix /\ i >= -(R \div 2) -> <<Code("int8", 0)>> \o PutInt(i, 1)
    [] i < -(R \div 2) /\ i >= -(R^2 \div 2) -> <<Code("int16", 0)>> \o PutInt(i, 2)
    [] i < -(R^2 \div 2) /\ i >= -(R^4 \div 2) -> <<Code("int32", 0)>> \o PutInt(i, 4)
    [] OTHER -> <<Code("int64", 0)>>
                \o (IF JsMode THEN EncodeStr(ToString(i)) ELSE PutInt(i, 8))

\* Mutant: the largest two-byte number is sent in one byte
EncodePositiveInt_Short(i) ==
  CASE i <= FixMax -> <<Code("pos_fix", i)>>
    [] i > FixMax /\ i <= R -> <<Code("uint8", 0)>> \o PutInt(i, 1)
    [] i > R /\ i < R^2 -> <<Code("uint16", 0)>> \o PutInt(i, 2)
    [] i >= R^2 /\ i < R^4 -> <<Code("uint32", 0)>> \o PutInt(i, 4)
    [] OTHER -> IF JsMode THEN EncodeStr(ToString(i))
                ELSE <<Code("uint64", 0)>> \o PutInt(i, 8)

EncodePositiveInt(i) ==
  CASE i <= FixMax -> <<Code("pos_fix", i)>>
    [] i > FixMax /\ i < R -> <<Code("uint8", 0)>> \o PutInt(i, 1)
    [] i >= R /\ i < R^2 -> <<Code("uint16", 0)>> \o PutInt(i, 2)
    [] i >= R^2 /\ i < R^4 -> <<Code("uint32", 0)>> \o PutInt(i, 4)
    [] OTHER -> IF JsMode THEN EncodeStr(ToString(i))
                ELSE <<Code("uint64", 0)>> \o PutInt(i, 8)

\* The process ends here: an assertion fails, or NULL is dereferenced
Abort == <<Code("abort", 0)>>
Aborts(m) == \E i \in DOMAIN m : m[i].c = "abort"

\* A key that reads as a number is sent as one; one that is not unsigned is
\* taken for negative: assert (ki < 0)
EncodeKey(k) ==
  Then(Numbers(StrS(k), FALSE), LAMBDA x :
    CASE x.u # Bad -> EncodePositiveInt(x.u)
      [] x.u = Bad /\ x.i # Bad -> IF x.i < 0 THEN EncodeNegativeInt(x.i) ELSE Abort
      [] OTHER -> EncodeStr(k))

RECURSIVE ToMsgpack(_, _)

\* A value without a wire form writes nothing, also inside a list; an element
\* is asked for its form without a test for NULL
ToMsgpack(x, ord) ==
  CASE x.t = "null" -> <<Code("nil", 0)>>
    [] x.t = "bool" -> <<Code(IF x.v THEN "true" ELSE "false", 0)>>
    [] x.t = "str" -> EncodeStr(x.v)
    [] x.t = "int" -> IF x.v < 0 THEN EncodeNegativeInt(x.v) ELSE EncodePositiveInt(x.v)
    [] x.t = "uint" -> EncodePositiveInt(x.v)
    [] x.t = "double" -> <<Code("double", 0)>> \o [i \in 1..8 |-> Code("frac", x.v)]
    [] x.t = "list" -> EncodeLen(Len(x.e), "array")
                       \o Joined([i \in DOMAIN x.e |-> ToMsgpack(x.e[i], ord)])
    [] x.t = "dict" ->
         LET ks == KeysOf(x.m, ord)
         IN EncodeLen(Len(ks), "map")
            \o Joined([i \in DOMAIN ks |-> EncodeKey(ks[i]) \o ToMsgpack(x.m[ks[i]], ord)])
    [] x.t = "nil" -> Abort
    [] OTHER -> <<>>

(***************************************************************************)
(* Reading msgpack: a cursor runs over the message; errno is 0 at the end  *)
(* of the message, EAGAIN inside an object and EINVAL at an unknown code.  *)
(***************************************************************************)

Got(x, p) == [x |-> x, p |-> p, err |-> "0"]
NotGot(p, err) == [x |-> NilV, p |-> p, err |-> err]

\* get_bytes: n bytes from position p, or nothing
GetBytes(m, p, n) == IF p + n <= Len(m) THEN SubSeq(m, p + 1, p + n) ELSE <<>>

\* big_endian, unsigned or in two's complement
BigEndian(bs) == FoldLeft(LAMBDA a, b : a * R + b.n, 0, bs)
Signed(n, bytes) == IF n >= R^bytes \div 2 THEN n - R^bytes ELSE n
AreOf(c, bs) == \A i \in DOMAIN bs : bs[i].c = c

\* n bytes from position p and what becomes of the number they spell
Counted(m, p, n, F(_, _)) ==
  Then(GetBytes(m, p, n), LAMBDA bs :
    IF bs = <<>> THEN NotGot(p, "EAGAIN")
    ELSE IF ~AreOf("byte", bs) THEN Got(LambdaV, p + n)
    ELSE F(p + n, BigEndian(bs)))

\* The code, how many bytes follow, and what they are made into
IntCodes == [ uint8 |-> 1, uint16 |-> 2, uint32 |-> 4, uint64 |-> 8,
              int8 |-> 1, int16 |-> 2, int32 |-> 4, int64 |-> 8 ]
UnpackInt(c, m, p) ==
  LET n == IntCodes[c]
      made(v) == CASE c = "uint64" -> UintS(v)
                   [] c \in {"uint8", "uint16", "uint32"} -> IntS(v)
                   [] OTHER -> IntS(Signed(v, n))
  IN Counted(m, p, n, LAMBDA q, v : Got(NumV(made(v)), q))

\* unpack_positive_fixnum, unpack_negative_fixnum: the code is the number
UnpackFixnum(u, q) == Got(NumV(IntS(u.n)), q)

\* unpack_true, unpack_false, unpack_nil: the code is the value
UnpackConstant(c, q) == Got(IF c = "nil" THEN NullV ELSE BoolV(c = "true"), q)

UnpackRaw(m, p, n) ==
  Then(GetBytes(m, p, n), LAMBDA bs :
    IF n = 0 THEN Got(StrV(""), p)
    ELSE IF bs = <<>> THEN NotGot(p, "EAGAIN")
    ELSE IF ~AreOf("char", bs) THEN Got(LambdaV, p + n)
    ELSE Got(StrV(Text([i \in DOMAIN bs |-> bs[i].n])), p + n))

\* unpack_double and unpack_float, which has half the bytes
UnpackDouble(m, p, n) ==
  Then(GetBytes(m, p, n), LAMBDA bs :
    IF bs = <<>> THEN NotGot(p, "EAGAIN")
    ELSE IF ~AreOf("frac", bs) THEN Got(LambdaV, p + n)
    ELSE Got([t |-> "double", v |-> bs[1].n], p + n))

RECURSIVE Unpack(_, _), UnpackArray(_, _, _, _), UnpackMap(_, _, _, _)

UnpackArray(m, p, n, got) ==
  IF n = 0 THEN Got(ListV(got), p)
  ELSE Then(Unpack(m, p), LAMBDA r :
         IF r.x = NilV THEN r ELSE UnpackArray(m, r.p, n - 1, Append(got, r.x)))

UnpackMap(m, p, n, got) ==
  IF n = 0 THEN Got(DictV(got), p)
  ELSE Then(Unpack(m, p), LAMBDA k :
         IF k.x = NilV THEN k
         ELSE Then(Unpack(m, k.p), LAMBDA v :
                IF v.x = NilV THEN v
                ELSE UnpackMap(m, v.p, n - 1, (TextOf(ScalarOf(k.x)) :> v.x) @@ got)))

\* unpack: the table of codes
Unpack(m, p) ==
  LET c == m[p + 1].c n == m[p + 1].n q == p + 1 IN
  IF p >= Len(m) THEN NotGot(p, "0")
  ELSE CASE c \in {"pos_fix", "neg_fix"} -> UnpackFixnum(m[q], q)
         [] c \in {"nil", "true", "false"} -> UnpackConstant(c, q)
         [] c = "double" -> UnpackDouble(m, q, 8)
         [] c = "float" -> UnpackDouble(m, q, 4)
         [] c \in DOMAIN IntCodes -> UnpackInt(c, m, q)
         [] c = "fix_raw" -> UnpackRaw(m, q, n)
         [] c = "raw16" -> Counted(m, q, 2, LAMBDA a, l : UnpackRaw(m, a, l))
         [] c = "raw32" -> Counted(m, q, 4, LAMBDA a, l : UnpackRaw(m, a, l))
         [] c = "fix_array" -> UnpackArray(m, q, n, <<>>)
         [] c = "array16" -> Counted(m, q, 2, LAMBDA a, l : UnpackArray(m, a, l, <<>>))
         [] c = "array32" -> Counted(m, q, 4, LAMBDA a, l : UnpackArray(m, a, l, <<>>))
         [] c = "fix_map" -> UnpackMap(m, q, n, <<>>)
         [] c = "map16" -> Counted(m, q, 2, LAMBDA a, l : UnpackMap(m, a, l, <<>>))
         [] c = "map32" -> Counted(m, q, 4, LAMBDA a, l : UnpackMap(m, a, l, <<>>))
         [] OTHER -> NotGot(p, "EINVAL")

\* decode: the object, errno and the length read
Decode(m) == Unpack(m, 0)

=============================================================================

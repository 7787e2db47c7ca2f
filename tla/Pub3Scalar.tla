----------------------------- MODULE Pub3Scalar -----------------------------
(***************************************************************************)
(* Scalars of the pub3 language (libpub/scalar.C, pscalar.h) and the       *)
(* operators of the language on values (libpub/pub3expr.C): comparison,    *)
(* arithmetic, truth and the conversions between strings and numbers.      *)
(*                                                                         *)
(* Integers have W bits; what the machine computes modulo 2^W is computed  *)
(* so here.  A double is a fraction [n, d] that fits in Mant bits; other   *)
(* numbers are rounded to the nearest one, or to the digits that printf    *)
(* writes.  A string is a TLA+ string; TextOrder lists the strings in the  *)
(* order of str::cmp.                                                      *)
(***************************************************************************)
EXTENDS Integers, Sequences, FiniteSets, FiniteSetsExt, SequencesExt, TLC

CONSTANTS
  W,          \* bits of an integer (64)
  Mant,       \* bits of the mantissa of a double (53)
  Digits,     \* digits of ok_double_fmt_int_default (16)
  ExtDigits,  \* digits of ok_double_fmt_ext_default (10)
  BitMax,     \* ok_pub3_json_int_bitmax (52)
  MaxRepeat,  \* 0x100, the limit of string and list repetition
  TextOrder   \* every text that is compared, in increasing order

IMax == 2^(W - 1) - 1
IMin == -(2^(W - 1))
UMax == 2^W - 1
Bad == 2^W                      \* CNV_BAD: no integer of W bits

\* F of a value computed once
Then(v, F(_)) == F(v)

ToU(n) == n % 2^W
ToI(n) == LET u == ToU(n) IN IF u > IMax THEN u - 2^W ELSE u

(***************************************************************************)
(* Scalar objects: a natural type, and a value of it.                      *)
(***************************************************************************)

Abs(n) == IF n < 0 THEN -n ELSE n
IsWhole(q) == q.n % q.d = 0
Trunc(a, b) == LET q == Abs(a) \div Abs(b) IN IF (a < 0) = (b < 0) THEN q ELSE -q
Rem(a, b) == a - b * Trunc(a, b)

\* The integer nearest to n / d, of two the even one
RoundEven(n, d) ==
  LET q == n \div d r == 2 * (n % d)
  IN IF r < d \/ (r = d /\ q % 2 = 0) THEN q ELSE q + 1

\* How many digits in base b a number has before the point; the same number
\* with e digits behind it, in lowest terms (e may be negative)
SizeIn(q, b, most) == Min({k \in 0..most : Abs(q.n) < q.d * b^k})
RoundTo(q, b, e) ==
  IF e < 0 THEN [n |-> RoundEven(q.n, q.d * b^(-e)) * b^(-e), d |-> 1]
  ELSE Then(RoundEven(q.n * b^e, q.d), LAMBDA n :
         Then(Max({j \in 0..e : n % b^j = 0}), LAMBDA j : [n |-> n \div b^j, d |-> b^(e - j)]))

\* The double nearest to a number, and what "%.<k>g" prints of one; numbers
\* below 1/2 and 1/10, which have fewer digits here, do not occur
Nearest(q) == RoundTo(q, 2, Mant - SizeIn(q, 2, W + 1))
Printed(q, k) == RoundTo(q, 10, k - SizeIn(q, 10, 5))

NoneS == [ty |-> "none"]
InfS == [ty |-> "inf"]
StrS(s) == [ty |-> "str", v |-> s]
IntS(i) == [ty |-> "int", v |-> ToI(i)]
UintS(u) == [ty |-> "uint", v |-> ToU(u)]
DoubleS(n, d) == [ty |-> "double", v |-> Nearest(IF d < 0 THEN [n |-> -n, d |-> -d]
                                                 ELSE [n |-> n, d |-> d])]
FaultS == [ty |-> "fault"]      \* the process got SIGFPE

\* "%.10g" prints a whole double like an integer, if it has the digits for it
DoubleText(q) ==
  Then(Printed(q, ExtDigits), LAMBDA r :
    IF IsWhole(r) /\ Abs(r.n \div r.d) < 10^ExtDigits THEN ToString(r.n \div r.d)
    ELSE ToString(r))

\* The text of a scalar
TextOf(o) ==
  CASE o.ty = "str" -> o.v
    [] o.ty \in {"int", "uint"} -> ToString(o.v)
    [] o.ty = "double" -> DoubleText(o.v)
    [] OTHER -> ""

\* The number a text spells; in base 0 a leading 0 makes it octal
Unsigned(s, base0) ==
  LET base == IF base0 # 0 THEN base0
              ELSE IF Len(s) > 1 /\ SubSeq(s, 1, 1) = "0" THEN 8 ELSE 10
      digit == [d \in 0..(base - 1) |-> ToString(d)]
      val(c) == CHOOSE d \in DOMAIN digit : digit[d] = c
  IN IF s # "" /\ \A i \in 1..Len(s) : SubSeq(s, i, i) \in Range(digit)
     THEN FoldLeft(LAMBDA a, i : a * base + val(SubSeq(s, i, i)), 0, [i \in 1..Len(s) |-> i])
     ELSE Bad

\* strtoll and strtoull, which must use the whole string and stay in range
ReadInt(s, base, lo, hi) ==
  LET neg == s # "" /\ SubSeq(s, 1, 1) = "-"
  IN Then(Unsigned(IF neg THEN SubSeq(s, 2, Len(s)) ELSE s, base), LAMBDA u :
       Then(IF neg THEN -u ELSE u, LAMBDA v :
         IF u # Bad /\ v \in lo..hi THEN v ELSE Bad))

\* my_convertint; and convertuint, which refuses a sign
ConvertInt(s) == ReadInt(s, 0, IMin, IMax)
ConvertUint(s) == IF s # "" /\ SubSeq(s, 1, 1) = "-" THEN Bad ELSE ReadInt(s, 0, 0, UMax)

\* to_int64 (&i): the first conversion is cached
ToInt64(o) ==
  CASE o.ty = "int" -> o.v
    [] o.ty = "uint" -> IF o.v <= IMax THEN o.v ELSE Bad
    [] o.ty = "str" -> ConvertInt(o.v)
    [] OTHER -> Bad

\* to_uint64 (&u): read from the cached signed value when there is one, as
\* after a successful to_int64 (warm); a double is read back from its text
ToUint64(o, warm) ==
  CASE o.ty = "int" -> IF o.v >= 0 THEN o.v ELSE Bad
    [] o.ty = "uint" -> o.v
    [] o.ty = "str" -> Then(ConvertInt(o.v), LAMBDA i :
                         IF warm /\ i # Bad THEN IF i >= 0 THEN i ELSE Bad
                         ELSE ConvertUint(o.v))
    [] o.ty = "double" -> ConvertUint(TextOf(o))
    [] OTHER -> Bad

\* to_double (): an integer was rounded when it was set; strtod reads decimal
\* digits, also after a leading 0, and gives zero when there is no conversion
ToDouble(o) ==
  CASE o.ty \in {"int", "uint"} -> Nearest([n |-> o.v, d |-> 1])
    [] o.ty = "double" -> o.v
    [] o.ty = "str" -> Then(ReadInt(o.v, 10, IMin, UMax), LAMBDA i :
                         Nearest([n |-> IF i = Bad THEN 0 ELSE i, d |-> 1]))
    [] OTHER -> [n |-> 0, d |-> 1]

\* expr_double_t as XDR and back: printed for internal use, read by strtod
DoubleToXdr(q) == Printed(q, Digits)
DoubleFromXdr(q) == Nearest(q)

\* to_bool (): a number is tested, any other text is true unless empty
ToBool(o) ==
  Then(ToInt64(o), LAMBDA i : IF i # Bad THEN i # 0 ELSE TextOf(o) # "")

Sign(n) == IF n > 0 THEN 1 ELSE IF n < 0 THEN -1 ELSE 0
TextCmp(s, t) ==
  LET at(x) == CHOOSE i \in DOMAIN TextOrder : TextOrder[i] = x
  IN Sign(at(s) - at(t))

\* Mutant: unsigned values are compared as signed ones
Cmp_Signed(a, b, wa, wb) ==
  Then(ToInt64(a), LAMBDA i : Then(ToInt64(b), LAMBDA j :
    IF i # Bad /\ j # Bad THEN Sign(i - j)
    ELSE IF i # Bad THEN 1 ELSE IF j # Bad THEN -1 ELSE TextCmp(TextOf(a), TextOf(b))))

\* The numbers of a scalar: unsigned, signed and double
Numbers(o, warm) == [u |-> ToUint64(o, warm), i |-> ToInt64(o), d |-> ToDouble(o)]

\* scalar_obj_t::cmp; wa and wb say which operand was read as an int before
Cmp(a, b, wa, wb) ==
  Then(Numbers(a, wa), LAMBDA x : Then(Numbers(b, wb), LAMBDA y :
    CASE a.ty = "double" \/ b.ty = "double" -> Sign(x.d.n * y.d.d - y.d.n * x.d.d)
      [] x.u # Bad /\ y.u # Bad -> Sign(x.u - y.u)
      [] x.i # Bad /\ y.i # Bad -> Sign(x.i - y.i)
      [] x.u # Bad /\ y.i # Bad -> 1
      [] x.i # Bad /\ y.u # Bad -> -1
      [] OTHER -> TextCmp(TextOf(a), TextOf(b))))

(***************************************************************************)
(* Arithmetic.  Pairs are tried in the code's order: both signed, both     *)
(* unsigned, then mixed, where C converts the signed operand to unsigned.  *)
(***************************************************************************)

HasStr(a, b) == "str" \in {a.ty, b.ty}
HasDouble(a, b) == "double" \in {a.ty, b.ty}

\* Signed result F on two signed operands, G on any other pair of integers
OnIntegers(a, b, F(_, _), G(_, _), Mixed(_, _)) ==
  Then(Numbers(a, TRUE), LAMBDA x : Then(Numbers(b, TRUE), LAMBDA y :
    CASE x.i # Bad /\ y.i # Bad -> F(x.i, y.i)
      [] x.u # Bad /\ y.u # Bad -> G(x.u, y.u)
      [] x.i # Bad /\ y.u # Bad -> Mixed(x.i, y.u)
      [] x.u # Bad /\ y.i # Bad -> Mixed(x.u, y.i)
      [] OTHER -> NoneS))

\* F of the fractions of two operands, one of them a double
OnDoubles(a, b, F(_, _)) ==
  Then(ToDouble(a), LAMBDA p : Then(ToDouble(b), LAMBDA q : F(p, q)))

PlusS(a, b) ==
  CASE HasStr(a, b) -> StrS(TextOf(a) \o TextOf(b))
    [] ~HasStr(a, b) /\ HasDouble(a, b) ->
         OnDoubles(a, b, LAMBDA p, q : DoubleS(p.n * q.d + q.n * p.d, p.d * q.d))
    [] OTHER -> OnIntegers(a, b, LAMBDA x, y : IntS(x + y),
                           LAMBDA x, y : UintS(x + y), LAMBDA x, y : IntS(x + y))

\* The difference of two unsigned values is signed
MinusS(a, b) ==
  CASE HasStr(a, b) -> NoneS
    [] ~HasStr(a, b) /\ HasDouble(a, b) ->
         OnDoubles(a, b, LAMBDA p, q : DoubleS(p.n * q.d - q.n * p.d, p.d * q.d))
    [] OTHER -> OnIntegers(a, b, LAMBDA x, y : IntS(x - y),
                           LAMBDA x, y : IntS(x - y), LAMBDA x, y : IntS(x - y))

\* A string times a small integer repeats it
TimesS(a, b) ==
  LET rep[n \in Nat] == IF n = 0 THEN "" ELSE rep[n - 1] \o a.v
  IN CASE HasStr(a, b) ->
            Then(ToInt64(b), LAMBDA j :
              IF a.ty = "str" /\ j # Bad /\ j < MaxRepeat
              THEN StrS(rep[IF j < 0 THEN 0 ELSE j]) ELSE NoneS)
       [] ~HasStr(a, b) /\ HasDouble(a, b) ->
            OnDoubles(a, b, LAMBDA p, q : DoubleS(p.n * q.n, p.d * q.d))
       [] OTHER -> OnIntegers(a, b, LAMBDA x, y : IntS(x * y),
                              LAMBDA x, y : UintS(x * y), LAMBDA x, y : IntS(x * y))

\* The quotient and remainder of two signed numbers: the smallest number
\* divided by -1 does not fit, and the machine raises SIGFPE
IntDiv(x, y, div) ==
  IF x = IMin /\ y = -1 THEN FaultS ELSE IntS(IF div THEN Trunc(x, y) ELSE Rem(x, y))

\* div_or_mod: a zero denominator gives TYPE_INF; an operand that is no number
\* leaves TYPE_NONE
DivOrMod(a, b, div) ==
  LET u(x, y) == IF div THEN ToU(x) \div ToU(y) ELSE ToU(x) % ToU(y)
      f(x, y) == IF y = 0 THEN InfS ELSE IntDiv(x, y, div)
      g(x, y) == IF y = 0 THEN InfS ELSE UintS(u(x, y))
      m(x, y) == IF y = 0 THEN InfS ELSE IntS(u(x, y))
      d(p, q) == CASE q.n = 0 -> InfS
                   [] q.n # 0 /\ div -> DoubleS(p.n * q.d, p.d * q.n)
                   [] OTHER -> DoubleS(p.n * q.d - Trunc(p.n * q.d, p.d * q.n) * q.n * p.d,
                                       p.d * q.d)
  IN CASE HasStr(a, b) -> NoneS
       [] ~HasStr(a, b) /\ HasDouble(a, b) -> OnDoubles(a, b, d)
       [] OTHER -> OnIntegers(a, b, f, g, m)

(***************************************************************************)
(* Values of the language that are not containers, and lists.              *)
(***************************************************************************)

NullV == [t |-> "null"]
BoolV(b) == [t |-> "bool", v |-> b]
NumV(o) == [t |-> o.ty, v |-> o.v]
StrV(s) == [t |-> "str", v |-> s]
ListV(e) == [t |-> "list", e |-> e]

\* to_scalar ()
ScalarOf(x) ==
  CASE x.t = "bool" -> IntS(IF x.v THEN 1 ELSE 0)
    [] x.t = "null" -> NoneS
    [] OTHER -> [ty |-> x.t, v |-> x.v]

\* to_int (&i): a double is cut off; every other conversion is exact
ValueToInt(x) ==
  CASE x.t = "int" -> x.v
    [] x.t = "uint" -> IF x.v <= IMax THEN x.v ELSE Bad
    [] x.t = "double" -> Trunc(x.v.n, x.v.d)
    [] x.t \in {"bool", "str"} -> ToInt64(ScalarOf(x))
    [] OTHER -> Bad

\* to_uint (&u), which doubles do not have
ValueToUint(x) ==
  CASE x.t = "int" -> IF x.v >= 0 THEN x.v ELSE Bad
    [] x.t = "uint" -> x.v
    [] x.t = "bool" -> IF x.v THEN 1 ELSE 0
    [] x.t = "str" -> ToUint64(ScalarOf(x), FALSE)
    [] OTHER -> Bad

\* expr_t::alloc (scalar_obj_t): the first conversion that works, so a whole
\* double that is not negative becomes an unsigned integer
AllocExpr(o) ==
  Then(Numbers(o, FALSE), LAMBDA x :
    IF x.i # Bad THEN NumV(IntS(x.i))
    ELSE IF x.u # Bad THEN NumV(UintS(x.u))
    ELSE IF o.ty = "double" THEN NumV(o)
    ELSE StrV(TextOf(o)))

\* expr_add_t, expr_mult_t and expr_div_or_mod_t on values that are no
\* containers; an error is reported and gives null
EvalArith(op, x, y) ==
  LET a == ScalarOf(x) b == ScalarOf(y) IN
  Then(CASE op = "+" -> PlusS(a, b)
         [] op = "-" -> MinusS(a, b)
         [] op = "*" -> TimesS(a, b)
         [] op = "/" -> DivOrMod(a, b, TRUE)
         [] op = "%" -> DivOrMod(a, b, FALSE), LAMBDA o :
    IF NullV \in {x, y} THEN NullV
    ELSE IF o = FaultS THEN FaultS
    ELSE IF o \in {NoneS, InfS} /\ op \in {"*", "/", "%"} THEN NullV
    ELSE AllocExpr(o))

\* list_mania: a scalar compared with a list counts as a list of one
AsList(x) == IF x.t = "list" THEN x.e ELSE <<x>>
SomeList(x, y) == "list" \in {x.t, y.t}

RECURSIVE EvalEQ(_, _), EvalRelation(_, _, _)

EvalEQ(x, y) ==
  IF NullV \in {x, y} THEN x = y
  ELSE IF SomeList(x, y)
  THEN /\ Len(AsList(x)) = Len(AsList(y))
       /\ \A i \in DOMAIN AsList(x) : EvalEQ(AsList(x)[i], AsList(y)[i])
  ELSE Cmp(ScalarOf(x), ScalarOf(y), FALSE, FALSE) = 0

Holds(op, c) ==
  CASE op = "<" -> c < 0 [] op = "<=" -> c <= 0 [] op = ">" -> c > 0 [] op = ">=" -> c >= 0

\* Lists of different lengths are ordered by length, others by their first
\* difference; a comparison with null is false
EvalRelation(op, x, y) ==
  LET l == AsList(x) r == AsList(y)
  IN IF SomeList(x, y)
     THEN IF Len(l) # Len(r) THEN Holds(op, Len(l) - Len(r))
          ELSE Then({i \in DOMAIN l : ~EvalEQ(l[i], r[i])}, LAMBDA diff :
                 IF diff = {} THEN op \in {"<=", ">="}
                 ELSE EvalRelation(op, l[Min(diff)], r[Min(diff)]))
     ELSE NullV \notin {x, y} /\ Holds(op, Cmp(ScalarOf(x), ScalarOf(y), FALSE, FALSE))

\* to_bool of the values, and the logical operators on it
ValueBool(x) ==
  CASE x.t = "null" -> FALSE
    [] x.t = "bool" -> x.v
    [] x.t = "str" -> x.v # ""
    [] x.t \in {"int", "uint"} -> x.v # 0
    [] x.t = "double" -> x.v.n # 0
    [] x.t = "list" -> x.e # <<>>
EvalOR(x, y) == ValueBool(x) \/ ValueBool(y)
EvalAND(x, y) == ValueBool(x) /\ ValueBool(y)
EvalNOT(x) == ~ValueBool(x)

\* to_str of an integer in JSON: numbers a JavaScript double cannot hold
\* are put in quotes, unless the limit is turned off
JsonQuoted(x) == BitMax > 0 /\ (x.v >= 2^BitMax \/ x.v <= -(2^BitMax))

=============================================================================

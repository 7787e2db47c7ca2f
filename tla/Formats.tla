------------------------------ MODULE Formats ------------------------------
(***************************************************************************)
(* The pure parts of the system against reference definitions: scalars and *)
(* their comparison, values as texts, JSON and msgpack, syntax trees as    *)
(* XDR, XDR types as XML-RPC and JSON.  A behaviour picks an input; every  *)
(* invariant speaks about the input picked.                                *)
(***************************************************************************)
EXTENDS JsonRpc, Pub3Xdr

CONSTANTS
  Scalars,      \* a sequence of scalar objects
  Spelling,     \* the numbers that texts among them spell in decimal
  Values,       \* a sequence of values of the language
  Fields,       \* for every kind of field of a syntax tree, its values
  Typed,        \* a sequence of XDR types, each with a value of it
  Coded,        \* the same, with values that XML has no text for
  Orders        \* orders in which a hash table may be traversed

VARIABLE sample

None == [kind |-> "none"]
Init == sample = None

PickScalars ==
  \E a, b \in DOMAIN Scalars :
    sample' = [kind |-> "scalars", a |-> Scalars[a], b |-> Scalars[b]]
PickValues ==
  \E x, y \in DOMAIN Values :
    sample' = [kind |-> "values", x |-> Values[x], y |-> Values[y]]
\* A node of any class, each of its fields any value of its kind
PickTree ==
  \E k \in DOMAIN Slots, o \in DOMAIN Orders :
    \E c \in [DOMAIN Slots[k] -> 1..3] :
      /\ \A s \in DOMAIN c : c[s] <= Len(Fields[Slots[k][s]])
      /\ sample' = [kind |-> "tree", ord |-> Orders[o],
                    n |-> Node(k, 1, [s \in DOMAIN c |-> Fields[Slots[k][s]][c[s]]])]

PickTyped ==
  \E i \in DOMAIN Typed :
    sample' = [kind |-> "typed", typ |-> Typed[i][1], v |-> Typed[i][2]]

PickCoded ==
  \E i \in DOMAIN Coded :
    sample' = [kind |-> "coded", typ |-> Coded[i][1], v |-> Coded[i][2]]

Next == sample = None /\ (PickScalars \/ PickValues \/ PickTree \/ PickTyped \/ PickCoded)
Spec == Init /\ [][Next]_sample

Is(k) == sample.kind = k

(***************************************************************************)
(* Reference: the exact value of a number, equality of values that does    *)
(* not distinguish the types of numbers or NULL from null, and what of a   *)
(* value the formats are known to carry.                                   *)
(***************************************************************************)

Spelled(o) == o.ty = "str" /\ o.v \in DOMAIN Spelling
IsNumber(o) == o.ty \in {"int", "uint", "double"} \/ Spelled(o)
Exact(o) == IF o.ty \in {"int", "uint"} THEN [n |-> o.v, d |-> 1]
            ELSE IF o.ty = "double" THEN o.v
            ELSE [n |-> Spelling[o.v], d |-> 1]

\* A double that was printed with Digits digits: a number of fewer digits is
\* itself, any other is off by less than the last of them
AsPrinted(p, q) ==
  /\ Nearest(Printed(p, Digits - 1)) = p => q = p
  /\ Abs(p.n * q.d - q.n * p.d) * 10^(Digits - 1) <= Abs(p.n) * q.d

RECURSIVE Same(_, _)
Same(x, y) ==
  CASE x.t = "list" -> /\ y.t = "list" /\ Len(x.e) = Len(y.e)
                       /\ \A i \in DOMAIN x.e : Same(x.e[i], y.e[i])
    [] x.t = "dict" -> /\ y.t = "dict" /\ DOMAIN x.m = DOMAIN y.m
                       /\ \A k \in DOMAIN x.m : Same(x.m[k], y.m[k])
    [] x.t \in {"int", "uint"} -> y.t \in {"int", "uint"} /\ x.v = y.v
    [] x.t = "double" -> y.t = "double" /\ AsPrinted(x.v, y.v)
    [] x.t \in {"nil", "null"} -> y.t \in {"nil", "null"}
    [] OTHER -> x = y

\* What a text shows: a number, unless it is so large that it is quoted, is told
\* from a string; a double only by its first digits
RECURSIVE Shown(_)
Shown(x) ==
  CASE x.t \in {"int", "uint"} ->
         IF JsonQuoted(x) THEN [str |-> ToString(x.v)] ELSE [num |-> ToString(x.v)]
    [] x.t = "double" -> [num |-> DoubleText(x.v)]
    [] x.t \in {"str", "bool"} -> [s \in {x.t} |-> x.v]
    [] x.t = "list" -> [list |-> [i \in DOMAIN x.e |-> Shown(x.e[i])]]
    [] x.t = "dict" -> [dict |-> [k \in DOMAIN x.m |-> Shown(x.m[k])]]
    [] OTHER -> [null |-> 0]

\* A key as msgpack carries it: one that reads as a number arrives in decimal
Renamed(k) == IF ConvertInt(k) # Bad THEN ToString(ConvertInt(k))
              ELSE IF ConvertUint(k) # Bad THEN ToString(ConvertUint(k)) ELSE k
SignedZero(k) == ConvertInt(k) = 0 /\ SubSeq(k, 1, 1) = "-"

\* y is what msgpack delivers of x: every key once, with the value that it or
\* another key of the same number had
RECURSIVE Unpacked(_, _), HasSignedZero(_)
Unpacked(x, y) ==
  CASE x.t = "list" -> /\ y.t = "list" /\ Len(x.e) = Len(y.e)
                       /\ \A i \in DOMAIN x.e : Unpacked(x.e[i], y.e[i])
    [] x.t = "dict" -> /\ y.t = "dict" /\ DOMAIN y.m = {Renamed(k) : k \in DOMAIN x.m}
                       /\ \A q \in DOMAIN y.m : \E k \in DOMAIN x.m :
                            Renamed(k) = q /\ Unpacked(x.m[k], y.m[q])
    [] x.t \in {"int", "uint"} -> y.t \in {"int", "uint"} /\ x.v = y.v
    [] OTHER -> x = y
HasSignedZero(x) ==
  \/ x.t = "list" /\ \E i \in DOMAIN x.e : HasSignedZero(x.e[i])
  \/ x.t = "dict" /\ \E k \in DOMAIN x.m : SignedZero(k) \/ HasSignedZero(x.m[k])

RECURSIVE HasPart(_, _)
HasPart(x, t) ==
  \/ x.t = t
  \/ x.t = "list" /\ \E i \in DOMAIN x.e : HasPart(x.e[i], t)
  \/ x.t = "dict" /\ \E k \in DOMAIN x.m : HasPart(x.m[k], t)

(***************************************************************************)
(* Properties.                                                             *)
(***************************************************************************)

\* scalar_obj_t::cmp is the order of the numbers, whatever their types and
\* signs and whatever was converted before; but beside a double, an integer
\* with more bits than a mantissa may come out equal to it (never in the wrong
\* order).  Swapping the operands reverses it, also for texts.
CompareSound ==
  Is("scalars") =>
    LET a == sample.a b == sample.b
        beyond(o) == o.ty # "double" /\ Abs(Exact(o).n) > 2^Mant
    IN
    \E c \in {Cmp(a, b, FALSE, FALSE)} :
      /\ IsNumber(a) /\ IsNumber(b) =>
           \/ c = Sign(Exact(a).n * Exact(b).d - Exact(b).n * Exact(a).d)
           \/ c = 0 /\ HasDouble(a, b) /\ (beyond(a) \/ beyond(b))
      /\ \A wa, wb \in BOOLEAN : Cmp(a, b, wa, wb) = c /\ Cmp(b, a, wb, wa) = -c

\* Addition, subtraction and multiplication give the exact result when it
\* fits and the same bits when it does not; quotient and remainder belong
\* together, except for the division that the machine refuses and for a
\* negative number beside one that only fits unsigned.
ArithmeticExact ==
  Is("scalars") =>
    LET a == sample.a b == sample.b
        whole == {a.ty, b.ty} \subseteq {"int", "uint"}
        mixed == (a.ty = "int" /\ a.v < 0 /\ b.ty = "uint" /\ b.v > IMax)
                 \/ (b.ty = "int" /\ b.v < 0 /\ a.ty = "uint" /\ a.v > IMax)
        bits(o, n) == ToU(o.v) = ToU(n)
    IN whole => \E q \in {DivOrMod(a, b, TRUE)}, r \in {DivOrMod(a, b, FALSE)} :
         /\ bits(PlusS(a, b), a.v + b.v)
         /\ bits(MinusS(a, b), a.v - b.v)
         /\ Min({a.v, b.v}) < UMax => bits(TimesS(a, b), a.v * b.v)  \* fits TLC's integers
         /\ \/ a.v + b.v \in IMin..IMax
            \/ a.v >= 0 /\ b.v >= 0 /\ IMax < Max({a.v, b.v}) /\ a.v + b.v <= UMax
            => PlusS(a, b).v = a.v + b.v
         /\ a.v - b.v \in IMin..IMax => MinusS(a, b).v = a.v - b.v
         /\ (b.v = 0) = (q = InfS)
         /\ b.v # 0 /\ ~mixed =>
              \/ q = FaultS /\ a.v = IMin /\ b.v = -1
              \/ q.v * b.v + r.v = a.v

\* The comparison operators of the language fit together on scalars and on
\* lists without nulls: exactly one of <, == and > holds, <= and >= are their
\* unions, and x < y is y > x.
RelationsAgree ==
  Is("values") =>
    LET x == sample.x y == sample.y
        odd(v) == \E t \in {"null", "nil", "dict", "lambda"} : HasPart(v, t)
    IN ~odd(x) /\ ~odd(y) =>
       \E lt \in {EvalRelation("<", x, y)}, gt \in {EvalRelation(">", x, y)},
          eq \in {EvalEQ(x, y)} :
         /\ Cardinality({op \in {"<", "=", ">"} :
                          (op = "<" /\ lt) \/ (op = "=" /\ eq) \/ (op = ">" /\ gt)}) = 1
         /\ EvalRelation("<=", x, y) = (lt \/ eq)
         /\ EvalRelation(">=", x, y) = (gt \/ eq)
         /\ EvalRelation(">", y, x) = lt

\* A list literal or a string that depends on a variable
RECURSIVE Varies(_)
Varies(x) == x.t = "var" \/ (x.t \in {"list", "shell"} /\ \E i \in DOMAIN x.e : Varies(x.e[i]))

\* A string of a template has the same text after compact () as before; but a
\* list literal or a string inside it that depends on variables is joined as
\* it stands, its variables lost.
CompactSame(x, ord) ==
  LET lost == Len(x.e) > 1 /\ \E i \in DOMAIN x.e : x.e[i].t # "var" /\ Varies(x.e[i])
      text(e) == ValueText(EvalShell(e, ord), FALSE, FALSE, ord)
  IN ~lost => text(Compact(x, ord)) = text(x)

\* The texts of values: a dictionary's does not depend on its hash table when
\* fields are sorted, as they are for comparisons, and two dictionaries have
\* the same text exactly when they show the same: a quoted large integer is not
\* told from the string of its digits, nor doubles that print alike.
TextsSound ==
  Is("values") =>
    LET x == sample.x y == sample.y
        text(v, o) == ValueText(v, FALSE, TRUE, o)
    IN /\ \A o, p \in ToSet(Orders) : text(x, o) = text(x, p)
       /\ x.t = "dict" /\ y.t = "dict" =>
            ((text(x, Orders[1]) = text(y, Orders[1])) <=> Shown(x) = Shown(y))
       /\ \E strings \in {<< <<StrV("a"), x, StrV("b"), VarX(y), StrV("a")>>, <<x>>, <<VarX(x)>>,
                            <<x, y>>, <<>>, <<VarX(x), ShellX(<<y, StrV("a")>>), VarX(x)>>,
                            <<ListV(<<VarX(y)>>)>>, <<StrV("a"), ListV(<<VarX(y)>>)>> >>} :
            \A i \in DOMAIN strings, o \in ToSet(Orders) : CompactSame(ShellX(strings[i]), o)

\* What of a value arrives over JSON-RPC: bigints are decoded as 1, and NULs and
\* characters beyond 16 bits are dropped from strings by the scanner.
RECURSIVE Delivered(_, _)
Delivered(typ, v) ==
  CASE typ.t = "bigint" -> 1
    [] typ.t = "string" -> SelectSeq(v, LAMBDA u : u \notin {Wide("nul"), Wide("astral")})
    [] typ.t = "struct" -> [i \in DOMAIN v |-> Delivered(typ.f[i][2], v[i])]
    [] typ.t \in {"vec", "array", "ptr"} -> [i \in DOMAIN v |-> Delivered(typ.f, v[i])]
    [] OTHER -> v

\* The encoder never trips over its stack and is back at the root in the end,
\* and what it built, written as a text and parsed, decodes to the value.
CallArrives(typ, v) ==
  \E e \in {XdrToJson(typ, v)} :
    /\ ~e.failed /\ Len(e.st) = 1
    /\ \A o \in ToSet(Orders) : JsonToXdr(typ, MParse(Tokens(e.root, o))) = ReadOk(Delivered(typ, v))

\* A number is decoded as itself by a type that holds it and refused by others.
NumberFits(x) ==
  \A t \in {"int32", "uint32", "int64", "uint64"} :
    JsonToXdr([t |-> t], x)
    = ReadIf(x.v \in (CASE t \in {"int32", "uint32"} -> Range32(t)
                        [] t = "int64" -> IMin..IMax
                        [] OTHER -> 0..UMax), x.v)

\* A value sent as XDR JSON arrives as the same value, with doubles as close as
\* their printed digits make them and no further off when it is sent on, and its
\* bytes do not depend on the order of the hash tables; a call over JSON-RPC arrives
\* with the arguments it was made with, and a number that its type does not hold
\* is refused.
JsonRoundTrip ==
  /\ Is("values") /\ ~HasPart(sample.x, "lambda") =>
       \A o \in ToSet(Orders) :
         \E j \in {ToJson(sample.x, o)} : \E y \in {FromJson(j)} :
            /\ Same(sample.x, y)
            /\ FromJson(ToJson(y, o)) = y
            /\ \A p \in ToSet(Orders) : ToJson(sample.x, p) = j
  /\ Is("values") /\ sample.x.t \in {"int", "uint"} => NumberFits(sample.x)
  /\ Is("typed") \/ Is("coded") => CallArrives(sample.typ, sample.v)

\* Msgpack delimits itself: an object followed by another is read back with
\* exactly its own bytes, and no proper beginning of it is taken for an
\* object.  Writing one ends the process exactly when it holds a NULL pointer
\* or a key like "-0" (assert (ki < 0)).
MsgpackFraming ==
  Is("values") /\ ~HasPart(sample.x, "lambda") =>
    \A o \in ToSet(Orders) :
      \E m \in {ToMsgpack(sample.x, o)} : \E d \in {Decode(m \o ToMsgpack(sample.y, o))} :
         IF HasPart(sample.x, "nil") \/ HasSignedZero(sample.x) THEN Aborts(m)
         ELSE /\ ~Aborts(m) /\ Unpacked(sample.x, d.x) /\ d.p = Len(m)
              /\ \A i \in 0..(Len(m) - 1) : Decode(SubSeq(m, 1, i)).x = NilV

\* What a service gets of a tree that pubd has parsed: the same tree, but a
\* NULL list element is null, an absent list is empty, an absent name is an
\* empty one, a string buffer is a string, and a double has lost digits.
RECURSIVE Arrived(_)
Arrived(n) ==
  LET sub(v) == IF v = NULL THEN NULL ELSE Arrived(v)
      elem(v) == IF v = NULL THEN Node("null", 0, <<>>) ELSE Arrived(v)
      fld(mode, v) ==
        CASE mode \in {"ptr", "val", "body", "must"} -> sub(v)
          [] mode = "nodes" -> [i \in DOMAIN v |-> Arrived(v[i])]
          [] mode = "args" /\ v = NULL -> <<>>
          [] mode \in {"args", "list"} /\ v # NULL -> [i \in DOMAIN v |-> elem(v[i])]
          [] mode = "binds" -> [i \in DOMAIN v |-> <<v[i][1], sub(v[i][2])>>]
          [] mode = "tab" -> [k \in DOMAIN v |-> sub(v[k])]
          [] mode = "name" -> IF v = NULL THEN "" ELSE v
          [] mode = "double" -> DoubleFromXdr(DoubleToXdr(v))
          [] OTHER -> v
  IN Node(IF n.k = "strbuf" THEN "str" ELSE n.k, IF n.k \in Constants THEN 0 ELSE n.ln,
          [s \in DOMAIN n.f |-> fld(Slots[n.k][s], n.f[s])])

\* The functions below a node that only nodes outside stop lead to
RECURSIVE Lambdas(_, _)
Lambdas(n, stop) ==
  LET val(v) == IF v = NULL THEN {} ELSE Lambdas(v, stop)
      sub(mode, v) ==
        CASE mode \in {"ptr", "val", "body", "must"} -> val(v)
          [] mode \in {"args", "list", "nodes"} -> UNION {val(v[i]) : i \in DOMAIN v}
          [] mode = "binds" -> UNION {val(v[i][2]) : i \in DOMAIN v}
          [] mode = "tab" -> UNION {val(v[k]) : k \in DOMAIN v}
          [] OTHER -> {}
  IN (IF n.k = "lambda" THEN {n} ELSE {})
     \cup (IF n.k \in stop THEN {}
           ELSE UNION {sub(Slots[n.k][s], n.f[s]) : s \in DOMAIN n.f})

\* The classes below which a function does not learn the name of its file
Unnamed == DOMAIN OperatorSlots \cup {"dictref", "vecref", "relation", "EQ", "NOT", "heredoc",
                                       "lambda"}

File(n, t) == [jfn |-> "f", hash |-> 1, ctime |-> t, root |-> n, opts |-> 0]

\* A file that has not changed has one XDR form, whenever it was parsed and
\* however its dictionaries are hashed (the hash over it protects a transfer
\* in chunks); reading it gives the tree back, and reading what was read and
\* written again changes nothing more.  In the file a service has read, the
\* functions know its name, except those below an operator, a reference, a
\* heredoc or another function.
XdrCanonical ==
  Is("tree") =>
    LET n == sample.n IN \E x \in {ToXdr(n, sample.ord)} :
    /\ FromXdr(x) = Arrived(n)
    /\ ToXdr(FromXdr(x), sample.ord) = x
    /\ \A o \in ToSet(Orders), t \in 0..1 :
         FileToXdr(File(n, t), o) = FileToXdr(File(n, 0), sample.ord)
    /\ \E f \in {FileFromXdr(FileToXdr(File(n, 1), sample.ord), 2)} :
         \A l \in Lambdas(f.root, Unnamed) : l.f.filename = f.jfn

Outreq == MethodCallE(MethodNameE(Name("m")), NoEl)
Resp == MethodResponseE(NoEl, NoEl)

\* A text of the value has a bracket or an ampersand
RECURSIVE HasMarkup(_, _)
HasMarkup(typ, v) ==
  CASE typ.t = "string" -> ToSet(v) \cap Special # {}
    [] typ.t = "struct" -> \E i \in DOMAIN v : HasMarkup(typ.f[i][2], v[i])
    [] typ.t \in {"vec", "array", "ptr"} -> \E i \in DOMAIN v : HasMarkup(typ.f, v[i])
    [] OTHER -> FALSE

\* An argument of any XDR type that XML_creator_t puts into a request is read
\* back by the other side's parser and XML_reader_t, whether its strings are
\* escaped or in CDATA sections.
RequestArrives(typ, v) ==
  LET p == <<Slot(0), Field("arg")>> IN
  \E evs \in {Dump(Create(Outreq, typ, v, p))} : \E got \in {Parse(Expat(evs))} :
    /\ got.err = "OK" /\ Parse(Expat(InCdata(evs))) = got
    /\ Read(typ, At(Message(got).params, p)) = ReadOk(v)
    \* A handler that assigns the argument to its response sends it back, but
    \* its texts are not escaped again and base64 is encoded a second time.
    /\ \E arg \in {At(Message(got).params, p)} :
       \E back \in {Received(Put(Resp, <<Slot(0), Field("x")>>, Clone(arg)))} :
         IF HasMarkup(typ, v) THEN back.err = "EXPAT"
         ELSE Read(typ, At(Message(back), <<Slot(0), Field("x")>>))
              = IF typ.t = "opaque" THEN ReadOk(Armor(v)) ELSE ReadOk(v)

\* A fault is recognised by the caller, with its code and its text.
FaultArrives(s) ==
  \E got \in {Received(SetFault(Resp, FaultAlloc(7, s)))} :
    /\ got.err = "OK" /\ IsFault(Message(got))
    /\ FaultCode(Message(got)) = 7 /\ FaultString(Message(got)) = s

\* A configuration value handed to XML-RPC by from_pub3: an integer of 32 bits
\* and a text arrive, a list or a dictionary with something in it is refused
\* by the parser, since its parts are not wrapped in <value>.
TemplateValueArrives(x) ==
  \E got \in {Received(Put(Resp, <<Slot(0)>>, FromPub3(x, Orders[1])))} :
    IF (x.t = "list" /\ x.e # <<>>) \/ (x.t = "dict" /\ DOMAIN x.m # {})
    THEN got.err = "BAD_NESTING"
    ELSE \E y \in {ToPub3(At(Message(got), <<Slot(0)>>).v)} :
           /\ got.err = "OK"
           /\ x.t \in {"int", "uint"} /\ x.v \in -(Half \div 2)..(Half \div 2 - 1) => y = NumV(IntS(x.v))
           /\ x.t = "str" /\ ConvertInt(x.v) = Bad => y = StrV(Chars(x.v))

\* The XML-RPC and JSON gateways (libokxml) carry every value of every XDR type
\* across unchanged, with the exceptions named in the parts.
XmlArrives ==
  /\ Is("typed") =>
       /\ RequestArrives(sample.typ, sample.v)
       /\ sample.typ.t = "string" => FaultArrives(sample.v)
       /\ \A o \in ToSet(Orders) :
            JsonRead(sample.typ, FromJson(ToJson(JsonCreate(sample.typ, sample.v), o)))
            = ReadOk(sample.v)
  /\ Is("values") => TemplateValueArrives(sample.x)

\* pscalar_t together: it orders and adds numbers as numbers, and the interpreter's
\* relations and texts agree with each other.
ScalarsSound == CompareSound /\ ArithmeticExact /\ RelationsAgree /\ TextsSound
=============================================================================

------------------------------ MODULE JsonRpc ------------------------------
(***************************************************************************)
(* JSON-RPC: XDR types as JSON objects (json_encoder_t, json_decoder_t),   *)
(* and the text of JSON between the two.                                   *)
(*                                                                         *)
(* The stubs that rpcc generates walk over a value and call the encoder    *)
(* (enter_field, rpc_traverse, exit_field, ...), which keeps a stack of    *)
(* references into the object it is building.  Types and values are those  *)
(* of OkXml, with "bigint" and "void".  A text is a sequence of            *)
(* characters; Wide ones are outside of 0x20..0x7f.                        *)
(***************************************************************************)
EXTENDS OkXml

-----------------------------------------------------------------------------
(* The calls that a value makes, in order.                                 *)

Enter(s) == [op |-> "enter", ref |-> s]             \* enter_field, enter_slot
Exit == [op |-> "exit"]
EnterList(nonnil) == [op |-> "list", nonnil |-> nonnil]   \* enter_array, enter_pointer
Traverse(typ, v) == [op |-> "traverse", t |-> typ.t, v |-> v]

RECURSIVE Calls(_, _)
Calls(typ, v) ==
  CASE typ.t = "struct" ->
         Joined([i \in DOMAIN v |-> <<Enter(Field(typ.f[i][1]))>> \o Calls(typ.f[i][2], v[i]) \o <<Exit>>])
    [] typ.t = "ptr" ->
         IF v = <<>> THEN <<EnterList(FALSE)>>
         ELSE <<EnterList(TRUE)>> \o Calls(typ.f, v[1]) \o <<Exit>>
    [] typ.t \in {"vec", "array"} ->
         <<EnterList(FALSE)>>
         \o Joined([i \in DOMAIN v |-> <<Enter(Slot(i - 1))>> \o Calls(typ.f, v[i]) \o <<Exit>>])
    [] OTHER -> <<Traverse(typ, v)>>

-----------------------------------------------------------------------------
(* The encoder.                                                            *)

\* m_ref_stack and m_obj_stack: a reference is its path from the root
Frame(ref) == [ref |-> ref, obj |-> NilV]
NewEncoder == [root |-> NilV, st |-> <<Frame(<<>>)>>, failed |-> FALSE]

\* list->set (i, v): a list grows as far as needed
SetIndex(es, i, v) ==
  [j \in 1..Max({Len(es), i + 1}) |-> IF j = i + 1 THEN v ELSE IF j <= Len(es) THEN es[j] ELSE NilV]

\* obj_ref_t::set through a reference
RECURSIVE SetRef(_, _, _)
SetRef(x, ref, v) ==
  IF ref = <<>> THEN v
  ELSE IF IsSlot(ref[1])
  THEN ListV(Then(ref[1].slot, LAMBDA i :
         SetIndex(x.e, i, SetRef(IF i < Len(x.e) THEN x.e[i + 1] ELSE NilV, Tail(ref), v))))
  ELSE DictV(Then(ref[1].field, LAMBDA k :
         (k :> SetRef(IF k \in DOMAIN x.m THEN x.m[k] ELSE NilV, Tail(ref), v)) @@ x.m))

SetTop(s, x) ==
  [s EXCEPT !.root = SetRef(@, Last(s.st).ref, x), !.st[Len(s.st)].obj = x]

PushRef(s, step) == [s EXCEPT !.st = Append(@, Frame(Append(Last(@).ref, step)))]
PopRef(s) == [s EXCEPT !.st = Front(@)]

\* top_list, top_dict: the object that slots or fields are put into; a list is
\* there before its slots are, a dictionary is made by its first field
TopList(s) == [s EXCEPT !.failed = @ \/ Last(s.st).obj.t # "list"]
TopDict(s) ==
  IF Last(s.st).obj = NilV THEN SetTop(s, DictV(<<>>))
  ELSE [s EXCEPT !.failed = @ \/ Last(s.st).obj.t # "dict"]

EnterSlot(s, i) == PushRef(TopList(s), i)
EnterField(s, f) == PushRef(TopDict(s), f)
EnterArray(s, nonnil) ==
  Then(SetTop(s, ListV(<<>>)), LAMBDA l : IF nonnil THEN EnterSlot(l, Slot(0)) ELSE l)

\* rpc_traverse, rpc_encode: the object for a value; a bigint is sent in decimal
Encoded(t, v) ==
  CASE t \in {"int32", "uint32", "int64"} -> NumV(IntS(v))
    [] t = "bool" -> NumV(IntS(IF v THEN 1 ELSE 0))
    [] t = "uint64" -> NumV(UintS(v))
    [] t = "bigint" -> StrV(<<Digits10(v)>>)
    [] t = "opaque" -> StrV(Armor(v))
    [] t = "void" -> NullV
    [] OTHER -> StrV(v)

EncoderStep(s, c) ==
  CASE c.op = "traverse" -> SetTop(s, Encoded(c.t, c.v))
    [] c.op = "list" -> EnterArray(s, c.nonnil)
    [] c.op = "enter" -> IF IsSlot(c.ref) THEN EnterSlot(s, c.ref) ELSE EnterField(s, c.ref)
    [] OTHER -> PopRef(s)

XdrToJson(typ, v) == FoldLeft(EncoderStep, NewEncoder, Calls(typ, v))

-----------------------------------------------------------------------------
(* The decoder: x is the top of its stack.                                 *)

IsNull(x) == x.t \in {"nil", "null"}            \* is_empty

Range32(t) == IF t = "int32" THEN -(Half \div 2)..(Half \div 2 - 1) ELSE 0..(Half - 1)

\* to_int (&i), to_uint (&u): a text of decimal digits is read as a number;
\* the other texts of this module spell none
IsSpelled(x) == x.t = "str" /\ Len(x.v) = 1 /\ DOMAIN x.v[1] = {"num"}
NumberOf(x, F(_), lo, hi) ==
  CASE IsSpelled(x) -> IF x.v[1].num \in lo..hi THEN x.v[1].num ELSE Bad
    [] ~IsSpelled(x) /\ x.t = "str" -> Bad
    [] OTHER -> F(x)

DecodeInt32(t, x) ==
  Then(NumberOf(x, ValueToInt, IMin, IMax), LAMBDA i : ReadIf(i # Bad /\ i \in Range32(t), i))
DecodeInt64(x) == Then(NumberOf(x, ValueToInt, IMin, IMax), LAMBDA i : ReadIf(i # Bad, i))
DecodeUint64(x) == Then(NumberOf(x, ValueToUint, 0, UMax), LAMBDA u : ReadIf(u # Bad, u))
DecodeStr(typ, x) == Bounded(typ, JsonText(x))
DecodeOpaque(typ, x) ==
  Then(JsonText(x), LAMBDA s : IF CanDecode(s) THEN Bounded(typ, DecodeB64(s)) ELSE Read0)
\* b = bool (tmp): whatever was sent, the number is 1
DecodeBigint(x) == ReadIf(x.t = "str", 1)

\* enter_field, enter_slot: NULL when there is no such field or slot
FieldOf(x, f) == IF x.t = "dict" /\ f \in DOMAIN x.m THEN x.m[f] ELSE NilV

RECURSIVE JsonToXdr(_, _)
\* enter_array, whose size is that of the list; enter_pointer looks at the
\* first element only
DecodeArray(typ, x) ==
  IF x.t # "list" THEN Read0
  ELSE IF typ.t = "ptr" THEN AllRead([i \in 1..Min({1, Len(x.e)}) |-> JsonToXdr(typ.f, x.e[i])])
  ELSE IF ~FitsArray(typ, Len(x.e)) THEN Read0
  ELSE AllRead([i \in DOMAIN x.e |-> JsonToXdr(typ.f, x.e[i])])

JsonToXdr(typ, x) ==
  CASE typ.t = "void" -> ReadOk(<<>>)
    [] typ.t = "struct" -> AllRead([i \in DOMAIN typ.f |-> JsonToXdr(typ.f[i][2], FieldOf(x, typ.f[i][1]))])
    [] typ.t \notin {"void", "struct"} /\ IsNull(x) -> Read0
    [] typ.t \in {"int32", "uint32"} /\ ~IsNull(x) -> DecodeInt32(typ.t, x)
    [] typ.t = "bool" /\ ~IsNull(x) ->
         Then(DecodeInt32("uint32", x), LAMBDA r : IF r.ok THEN ReadOk(r.v # 0) ELSE Read0)
    [] typ.t = "int64" /\ ~IsNull(x) -> DecodeInt64(x)
    [] typ.t = "uint64" /\ ~IsNull(x) -> DecodeUint64(x)
    [] typ.t = "bigint" /\ ~IsNull(x) -> DecodeBigint(x)
    [] typ.t = "string" /\ ~IsNull(x) -> DecodeStr(typ, x)
    [] typ.t = "opaque" /\ ~IsNull(x) -> DecodeOpaque(typ, x)
    [] OTHER -> DecodeArray(typ, x)

-----------------------------------------------------------------------------
(* The text: tokens, each string with its characters escaped.              *)

Wide(c) == [wide |-> c]       \* "bmp", "astral" (beyond 16 bits), "nul"
Hex(h) == [hex |-> h]         \* \uXXXX
Tok(k) == [tok |-> k]
StrTok(s) == [tok |-> "str", s |-> s]
NumTok(n) == [tok |-> "num", n |-> n]

Backslash == Char("\\")
DQuote == Char("\"")
Letter == <<"\n", "\t", "\r">>                \* escaped with the letters n, t, r
LetterOf == <<"n", "t", "r">>
IsLetter(u) == \E i \in DOMAIN Letter : u = Char(Letter[i])

\* json_escape_heavy on one character: astral ones are sent as a pair
EscapeWide(u) == IF u = Wide("astral") THEN <<Hex("high"), Hex("low")>> ELSE <<Hex(u.wide)>>
\* json_escape_std on one character
EscapeChar(u) ==
  CASE IsLetter(u) -> <<Backslash, Char(LetterOf[CHOOSE i \in DOMAIN Letter : u = Char(Letter[i])])>>
    [] u \in {Backslash, DQuote} -> <<Backslash, u>>
    [] DOMAIN u = {"wide"} -> EscapeWide(u)
    [] OTHER -> <<u>>
JsonEscape(s) == Joined([i \in DOMAIN s |-> EscapeChar(s[i])])

\* JSON_STR of scan.ll: unicode_to_utf8 has nothing for a NUL or for one half
\* of a pair; a quote ends the string
UnicodeToUtf8(h) == IF h \in {"nul", "high", "low"} THEN <<>> ELSE <<Wide(h)>>
ScanChar(a, u) ==
  CASE a.esc -> [a EXCEPT !.esc = FALSE, !.s = Append(@,
                   IF \E i \in DOMAIN LetterOf : u = Char(LetterOf[i])
                   THEN Char(Letter[CHOOSE i \in DOMAIN LetterOf : u = Char(LetterOf[i])]) ELSE u)]
    [] ~a.esc /\ u = Backslash -> [a EXCEPT !.esc = TRUE]
    [] ~a.esc /\ u = DQuote -> [a EXCEPT !.ok = FALSE]
    [] ~a.esc /\ DOMAIN u = {"hex"} -> [a EXCEPT !.s = @ \o UnicodeToUtf8(u.hex)]
    [] OTHER -> [a EXCEPT !.s = Append(@, u)]
ScanString(s) == FoldLeft(ScanChar, [esc |-> FALSE, s |-> <<>>, ok |-> TRUE], s)

\* to_str (true): a number that JavaScript does not hold becomes a string; a
\* dictionary is in the order ord of its hash table
Listed(ss) == Joined([i \in DOMAIN ss |-> IF i = 1 THEN ss[i] ELSE <<Tok(",")>> \o ss[i]])
RECURSIVE Tokens(_, _)
Tokens(x, ord) ==
  CASE x.t \in {"int", "uint"} ->
         IF JsonQuoted(x) THEN <<StrTok(<<Digits10(x.v)>>)>> ELSE <<NumTok(x.v)>>
    [] x.t = "str" -> <<StrTok(JsonEscape(x.v))>>
    [] x.t = "list" -> <<Tok("[")>> \o Listed([i \in DOMAIN x.e |-> Tokens(x.e[i], ord)]) \o <<Tok("]")>>
    [] x.t = "dict" ->
         Then(KeysOf(x.m, ord), LAMBDA ks :
           <<Tok("{")>>
           \o Listed([i \in DOMAIN ks |-> <<StrTok(Name(ks[i])), Tok(":")>> \o Tokens(x.m[ks[i]], ord)])
           \o <<Tok("}")>>)
    [] OTHER -> <<Tok("null")>>

\* p3_integer_constant: an int if it is not above INT64_MAX
IntegerConstant(n) == NumV(IF n <= IMax THEN IntS(n) ELSE UintS(n))

RECURSIVE JsonObj(_, _), JsonElems(_, _, _), JsonPairs(_, _, _)
\* json_obj of parse.yy at token p
JsonObj(ts, p) ==
  Then(IF p <= Len(ts) THEN ts[p] ELSE Tok("eof"), LAMBDA t :
    CASE t.tok = "num" -> Got(IntegerConstant(t.n), p + 1)
      [] t.tok = "str" -> Then(ScanString(t.s), LAMBDA a :
                            IF a.ok /\ ~a.esc THEN Got(StrV(a.s), p + 1) ELSE NotGot(p, "PARSE"))
      [] t.tok = "null" -> Got(NullV, p + 1)
      [] t.tok = "[" -> IF ts[p + 1] = Tok("]") THEN Got(ListV(<<>>), p + 2) ELSE JsonElems(ts, p + 1, <<>>)
      [] t.tok = "{" -> IF ts[p + 1] = Tok("}") THEN Got(DictV(<<>>), p + 2) ELSE JsonPairs(ts, p + 1, <<>>)
      [] OTHER -> NotGot(p, "PARSE"))

\* json_list_elems, with the elements read so far
JsonElems(ts, p, got) ==
  Then(JsonObj(ts, p), LAMBDA r :
    IF r.err # "0" THEN r
    ELSE IF ts[r.p] = Tok(",") THEN JsonElems(ts, r.p + 1, Append(got, r.x))
    ELSE Got(ListV(Append(got, r.x)), r.p + 1))

\* json_dict_pairs
JsonPairs(ts, p, got) ==
  Then(JsonObj(ts, p + 2), LAMBDA r :
    IF r.err # "0" THEN r
    ELSE Then((ts[p].s[1].ch :> r.x) @@ got, LAMBDA m :
           IF ts[r.p] = Tok(",") THEN JsonPairs(ts, r.p + 1, m) ELSE Got(DictV(m), r.p + 1)))

\* json_parser_t::mparse: all of the text is one object
MParse(ts) == Then(JsonObj(ts, 1), LAMBDA r : IF r.err = "0" /\ r.p = Len(ts) + 1 THEN r.x ELSE NilV)

=============================================================================

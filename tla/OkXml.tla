-------------------------------- MODULE OkXml --------------------------------
(***************************************************************************)
(* XML-RPC data (libokxml): elements and their wrappers (xmldata.C,        *)
(* xmlobj.C), what they are written as, the stack parser that expat drives *)
(* (xmlparse.C), the translation of XDR types to and from XML (xmlxlate.C) *)
(* and JSON (xdr_as_json.C), and the conversion to and from values of the  *)
(* template language.                                                      *)
(*                                                                         *)
(* A text is a sequence of units: a character, an entity of the wire, a    *)
(* decimal number, the prefix of a spelled integer, or the base-64 form of *)
(* another text.  A pointer to an element is the element; NoEl is NULL.    *)
(***************************************************************************)
EXTENDS Pub3Pack

Char(c) == [ch |-> c]
Entity(c) == [ent |-> c]        \* &lt; or &amp;
Digits10(n) == [num |-> n]
Prefix(p) == [prefix |-> p]     \* "ui4:" and the like
Chars(s) == [i \in 1..Len(s) |-> Char(SubSeq(s, i, i))]
Space == Char(" ")
Special == {Char("<"), Char("&")}

\* armor64 and dearmor64
Armor(s) == IF s = <<>> THEN <<>> ELSE <<[b64 |-> s]>>
IsArmored(u) == DOMAIN u = {"b64"}

(***************************************************************************)
(* Elements.                                                               *)
(***************************************************************************)

NoEl == [k |-> "none"]
NullE == [k |-> "null"]
NameE(s) == [k |-> "name", v |-> s]
Name(n) == <<Char(n)>>          \* the text of a name
MethodNameE(s) == [k |-> "methodName", v |-> s]
MethodCallE(n, ps) == [k |-> "methodCall", name |-> n, params |-> ps]
MethodResponseE(ps, b) == [k |-> "methodResponse", params |-> ps, body |-> b]
ParamE(v) == [k |-> "param", v |-> v]
FaultE(v) == [k |-> "fault", v |-> v]
ParamsE(es) == [k |-> "params", e |-> es]
ValueE(e) == [k |-> "value", v |-> e]
IntE(i) == [k |-> "int", v |-> i]
BoolE(b) == [k |-> "boolean", v |-> b]
DoubleE(d) == [k |-> "double", v |-> d]
StrE(s) == [k |-> "string", v |-> s]
Base64E(s) == [k |-> "base64", v |-> s]       \* s is in base 64
ArrayE(d) == [k |-> "array", data |-> d]
DataE(es) == [k |-> "data", e |-> es]
StructE(ms) == [k |-> "struct", e |-> ms]
MemberE(n, v) == [k |-> "member", name |-> n, v |-> v]
TopLevelE(es) == [k |-> "topLevel", e |-> es]

Scalar == {"int", "boolean", "double", "string", "base64"}
Wrapper == {"param", "fault"}
Container == {"params", "data", "struct", "topLevel"}
IsValue(e) == e.k \in Scalar \cup {"struct", "array"}
GetsData(e) == e.k \in Scalar \cup {"name", "methodName"}

\* Mutant: only the opening bracket is escaped
Escape_LtOnly(s) == [i \in DOMAIN s |-> IF s[i] = Char("<") THEN Entity("<") ELSE s[i]]

\* xml_str_t::escape
Escape(s) == [i \in DOMAIN s |-> IF s[i] \in Special THEN Entity(s[i].ch) ELSE s[i]]

\* xml_base64_t::decode; nothing when the text is not in base 64
CanDecode(s) == s = <<>> \/ (Len(s) = 1 /\ IsArmored(s[1]))
DecodeB64(s) == IF s # <<>> /\ CanDecode(s) THEN s[1].b64 ELSE <<>>

\* The index of the member called n; of several, the one inserted last
MembersOf(e, n) == {i \in DOMAIN e.e : e.e[i].name # NoEl /\ e.e[i].name.v = Name(n)}
HasMember(e, n) == MembersOf(e, n) # {}
MemberAt(e, n) == Max(MembersOf(e, n))

(***************************************************************************)
(* References: what an assignment through a path of [] and () makes of an  *)
(* element.  Whatever stands in the way is replaced.                       *)
(***************************************************************************)

Slot(i) == [slot |-> i]         \* operator[] (i), counted from 0
Field(n) == [field |-> n]       \* operator() (n)
IsSlot(s) == DOMAIN s = {"slot"}
EmptyArray == [k |-> "emptyArray"]

\* set_pointer_to_me (ptr<xml_value_t> *)
IsPointable(x) == IsValue(x) \/ x.k \in {"value"} \cup Wrapper
PointedValue(x) == IF IsValue(x) THEN ValueE(x) ELSE IF x.k = "value" THEN x ELSE x.v

\* xml_obj_ref_t::set_value, with assign_to
SetValue(e, x) ==
  CASE e.k \in Wrapper /\ IsPointable(x) -> [e EXCEPT !.v = PointedValue(x)]
    [] e.k = "value" /\ IsPointable(x) -> ValueE(PointedValue(x).v)
    [] e.k = "array" /\ x.k \in {"data", "array"} ->
         ArrayE(IF x.k = "data" THEN x ELSE x.data)
    [] OTHER -> x

\* mkvalue and its like: what a NULL pointer becomes
Made(e, fresh) == IF e = NoEl THEN fresh ELSE e

RECURSIVE Coerce(_)
\* coerce_to_container, to_xml_container
Coerce(e) ==
  CASE e.k = "value" -> ValueE(Coerce(e.v))
    [] e.k \in Wrapper -> [e EXCEPT !.v = Coerce(Made(e.v, ValueE(NoEl)))]
    [] e.k = "array" -> ArrayE(Made(e.data, DataE(<<>>)))
    [] e.k = "methodCall" -> [e EXCEPT !.params = Made(@, ParamsE(<<>>))]
    [] e.k = "methodResponse" /\ e.params = NoEl ->
         MethodResponseE(ParamsE(<<>>), ParamsE(<<>>))
    [] e.k \in Container \cup {"methodResponse"} -> e
    [] OTHER -> ArrayE(DataE(<<>>))

\* setsize (i + 1), with NULLs; get_r fills the slot that is asked for
Grown(e, i) == [j \in 1..Max({Len(e.e), i + 1}) |-> IF j <= Len(e.e) THEN e.e[j] ELSE NoEl]
FreshIn(e) == IF e.k = "params" THEN ParamE(NoEl) ELSE ValueE(NoEl)

RECURSIVE Put(_, _, _), PutSlot(_, _, _), PutField(_, _, _)

PutSlot(e, p, x) ==             \* e has been coerced
  CASE e.k \in Wrapper \cup {"value"} -> [e EXCEPT !.v = PutSlot(e.v, p, x)]
    [] e.k = "array" -> ArrayE(PutSlot(e.data, p, x))
    [] e.k = "methodCall" -> [e EXCEPT !.params = PutSlot(@, p, x)]
    [] e.k = "methodResponse" ->
         Then(PutSlot(e.params, p, x), LAMBDA ps : MethodResponseE(ps, ps))
    [] OTHER -> [e EXCEPT !.e = [Grown(e, p[1].slot) EXCEPT ![p[1].slot + 1] =
                                   Put(Made(@, FreshIn(e)), Tail(p), x)]]

PutField(e, p, x) ==
  CASE e.k = "value" -> ValueE(PutField(e.v, p, x))
    [] e.k \in Wrapper -> [e EXCEPT !.v = PutField(Made(@, ValueE(NoEl)), p, x)]
    [] e.k = "struct" /\ HasMember(e, p[1].field) ->
         [e EXCEPT !.e[MemberAt(e, p[1].field)].v = Put(@, Tail(p), x)]
    [] e.k = "struct" /\ ~HasMember(e, p[1].field) ->
         StructE(Append(e.e, MemberE(NameE(Name(p[1].field)), Put(ValueE(NoEl), Tail(p), x))))
    [] OTHER -> PutField(StructE(<<>>), p, x)

Put(e, p, x) ==
  IF p # <<>> THEN IF IsSlot(p[1]) THEN PutSlot(Coerce(e), p, x) ELSE PutField(e, p, x)
  ELSE IF x = EmptyArray THEN Coerce(e) ELSE SetValue(e, x)

\* xml_obj_ref_t::set_fault: only a response takes a fault
SetFault(e, f) == IF e.k = "methodResponse" THEN MethodResponseE(NoEl, f) ELSE e
FaultAlloc(rc, s) ==
  Put(Put(FaultE(NoEl), <<Field("faultCode")>>, IntE(rc)),
      <<Field("faultString")>>, StrE(Escape(s)))

(***************************************************************************)
(* Reading elements that do not change.  A value without an element is     *)
(* followed without a test: the process crashes.                           *)
(***************************************************************************)

Crash == [k |-> "crash"]

RECURSIVE ConstContainer(_), ConstStruct(_), At(_, _)
ConstContainer(e) ==
  CASE e.k = "value" -> IF e.v = NoEl THEN Crash ELSE ConstContainer(e.v)
    [] e.k \in Wrapper -> IF e.v = NoEl THEN NoEl ELSE ConstContainer(e.v)
    [] e.k = "array" -> e.data
    [] e.k = "methodResponse" -> e.params
    [] e.k \in Container -> e
    [] OTHER -> NoEl
ConstStruct(e) ==
  CASE e.k = "value" -> IF e.v = NoEl THEN Crash ELSE ConstStruct(e.v)
    [] e.k \in Wrapper -> IF e.v = NoEl THEN NoEl ELSE ConstStruct(e.v)
    [] e.k = "struct" -> e
    [] OTHER -> NoEl

\* xml_obj_base_t::operator[], operator()
Step(e, s) ==
  Then(IF IsSlot(s) THEN ConstContainer(e) ELSE ConstStruct(e), LAMBDA c :
    CASE c = Crash -> Crash
      [] c = NoEl -> NullE
      [] c \notin {Crash, NoEl} /\ IsSlot(s) ->
           IF s.slot < Len(c.e) THEN c.e[s.slot + 1] ELSE NullE
      [] OTHER -> IF HasMember(c, s.field)
                  THEN Made(c.e[MemberAt(c, s.field)].v, NullE) ELSE NullE)
At(e, p) == IF p = <<>> THEN e ELSE At(Step(e, p[1]), Tail(p))

SizeOf(e) == Then(ConstContainer(e), LAMBDA c : IF c = NoEl THEN 0 ELSE Len(c.e))

\* The element that conversions look at
RECURSIVE Inner(_)
Inner(e) == IF e.k \in Wrapper \cup {"value"} THEN Inner(e.v) ELSE e
ToInt(e) == Then(Inner(e), LAMBDA x : IF x.k = "int" THEN x.v ELSE 0)
ToStr(e) ==
  Then(Inner(e), LAMBDA x :
    CASE x.k = "string" -> x.v
      [] x.k = "int" -> <<Digits10(x.v)>>
      [] x.k = "base64" -> DecodeB64(x.v)
      [] OTHER -> <<>>)
ToBoolE(e) ==
  Then(Inner(e), LAMBDA x : (x.k = "int" /\ x.v # 0) \/ (x.k = "boolean" /\ x.v))

\* is_type: a value and a member pass the question on, a param does not
RECURSIVE IsType(_, _)
IsType(e, t) ==
  CASE e.k \in {"value", "member"} -> IsType(e.v, t)
    [] e.k = "double" -> FALSE
    [] OTHER -> e.k = t /\ IsValue(e)

\* xml_inresp_t::is_fault
IsFault(e) == e.k = "methodResponse" /\ e.body # NoEl /\ e.body.k = "fault"
FaultCode(e) == ToInt(At(e.body, <<Field("faultCode")>>))
FaultString(e) == ToStr(At(e.body, <<Field("faultString")>>))

\* clone: containers share their elements, and base64 takes its own base-64
\* form for the text to encode
RECURSIVE Clone(_)
Clone(e) ==
  CASE e.k = "base64" -> Base64E(Armor(e.v))
    [] e.k \in Wrapper \cup {"value", "member"} -> [e EXCEPT !.v = Clone(@)]
    [] e.k = "methodResponse" /\ e.params = NoEl -> [e EXCEPT !.body = Clone(@)]
    [] OTHER -> e

(***************************************************************************)
(* Writing.                                                                *)
(***************************************************************************)

Open(t) == [ev |-> "open", tag |-> t]
Close(t) == [ev |-> "close", tag |-> t]
TextEv(s) == [ev |-> "text", s |-> s]

\* dump_data of the elements with data
DataText(e) ==
  CASE e.k = "int" -> <<Digits10(e.v)>>
    [] e.k = "boolean" -> <<Digits10(IF e.v THEN 1 ELSE 0)>>
    [] e.k = "double" -> <<Digits10(e.v)>>
    [] OTHER -> e.v

RECURSIVE Dump(_)
\* xml_element_t::dump and dump_data; lines are broken and indented around
\* elements without data
Dump(e) ==
  LET list(es) == Joined([i \in DOMAIN es |-> Dump(Made(es[i], ValueE(NoEl)))])
      opt(x) == IF x = NoEl THEN <<>> ELSE Dump(x)
      body == CASE e.k \in Container -> list(e.e)
                [] e.k \in Wrapper \cup {"value"} -> opt(e.v)
                [] e.k = "array" -> opt(e.data)
                [] e.k = "member" -> opt(e.name) \o opt(e.v)
                [] e.k = "methodCall" -> opt(e.name) \o opt(e.params)
                [] e.k = "methodResponse" -> opt(e.body)
                [] OTHER -> <<>>
  IN <<Open(e.k)>> \o (IF GetsData(e) THEN <<TextEv(DataText(e))>>
                       ELSE <<TextEv(<<Space>>)>> \o body \o <<TextEv(<<Space>>)>>)
     \o <<Close(e.k)>>

\* The same document with the texts of its strings in CDATA sections
CdataEv(s) == [ev |-> "cdata", s |-> s]
Unescaped(s) == [i \in DOMAIN s |-> IF DOMAIN s[i] = {"ent"} THEN Char(s[i].ent) ELSE s[i]]
InCdata(evs) ==
  [i \in DOMAIN evs |-> IF i > 1 /\ evs[i - 1] = Open("string")
                        THEN CdataEv(Unescaped(evs[i].s)) ELSE evs[i]]

(***************************************************************************)
(* Parsing.  Expat finds the tags, replaces entities and refuses a bracket *)
(* or an ampersand in a text; its handlers keep a stack of open elements.  *)
(***************************************************************************)

Expat(evs) ==
  [i \in DOMAIN evs |->
     CASE evs[i].ev = "text" /\ ToSet(evs[i].s) \cap Special # {} -> [ev |-> "bad"]
       [] evs[i].ev = "text" /\ ToSet(evs[i].s) \cap Special = {} -> TextEv(Unescaped(evs[i].s))
       [] OTHER -> evs[i]]

\* xml_tagtab_t: a new element for a tag
TagTab ==
  [ struct |-> StructE(<<>>), array |-> ArrayE(NoEl), double |-> DoubleE(<<>>),
    string |-> StrE(<<>>), base64 |-> Base64E(<<>>), params |-> ParamsE(<<>>),
    param |-> ParamE(NoEl), value |-> ValueE(NoEl), methodCall |-> MethodCallE(NoEl, NoEl),
    name |-> NameE(<<>>), member |-> MemberE(NoEl, NoEl), data |-> DataE(<<>>),
    methodName |-> MethodNameE(<<>>), methodResponse |-> MethodResponseE(NoEl, NoEl),
    fault |-> FaultE(NoEl), boolean |-> BoolE(<<>>), int |-> IntE(<<>>), i4 |-> IntE(<<>>) ]

\* add (ptr<xml_element_t>): may c be put under e
CanAdd(e, c) ==
  CASE e.k = "topLevel" -> c.k \in {"methodCall", "methodResponse"}
    [] e.k = "methodCall" -> \/ c.k = "params" /\ e.params = NoEl
                             \/ c.k = "methodName" /\ e.name = NoEl
    [] e.k = "methodResponse" -> c.k \in {"params", "fault"}
    [] e.k = "params" -> c.k = "param"
    [] e.k \in Wrapper -> c.k = "value" /\ e.v = NoEl
    [] e.k = "value" -> IsValue(c) /\ e.v = NoEl
    [] e.k = "struct" -> c.k = "member"
    [] e.k = "member" -> \/ c.k = "value" /\ e.v = NoEl
                         \/ c.k = "name" /\ e.name = NoEl
    [] e.k = "array" -> c.k = "data" /\ e.data = NoEl
    [] e.k = "data" -> c.k = "value"
    [] OTHER -> FALSE

\* The element with c, complete, under it
Attach(e, c) ==
  CASE e.k \in Container -> [e EXCEPT !.e = Append(@, c)]
    [] c.k \in {"methodName", "name"} -> [e EXCEPT !.name = c]
    [] e.k = "methodResponse" /\ c.k = "fault" -> [e EXCEPT !.body = c]
    [] e.k = "methodResponse" /\ c.k = "params" -> MethodResponseE(c, c)
    [] e.k = "methodCall" /\ c.k = "params" -> [e EXCEPT !.params = c]
    [] e.k = "array" -> ArrayE(c)
    [] OTHER -> [e EXCEPT !.v = c]

\* close_tag: the value of an element from the text v it has collected
IsDecimal(s) == Len(s) = 1 /\ DOMAIN s[1] = {"num"}
NoSpaces(s) == SelectSeq(s, LAMBDA u : u # Space)
IsName(s) == s # <<>> /\ \A i \in DOMAIN s : s[i] \notin Special \cup {Space}
CanClose(e) ==
  CASE e.k \in {"int", "double"} -> IsDecimal(e.v)
    [] e.k = "boolean" -> IsDecimal(e.v) \/ e.v \in {<<Char("true")>>, <<Char("false")>>}
    [] e.k = "base64" -> CanDecode(NoSpaces(e.v))
    [] e.k \in {"name", "methodName"} -> IsName(e.v)
    [] OTHER -> TRUE
CloseTag(e) ==
  CASE e.k \in {"int", "double"} -> [e EXCEPT !.v = @[1].num]
    [] e.k = "boolean" ->
         BoolE(IF IsDecimal(e.v) THEN e.v[1].num # 0 ELSE e.v = <<Char("true")>>)
    [] e.k = "base64" -> Base64E(NoSpaces(e.v))
    [] OTHER -> e

Parsing(st, err) == [st |-> st, err |-> err]

StartElement(s, tag) ==
  IF tag \notin DOMAIN TagTab THEN Parsing(s.st, "UNKNOWN_ELEMENT")
  ELSE IF ~CanAdd(Last(s.st), TagTab[tag]) THEN Parsing(s.st, "BAD_NESTING")
  ELSE Parsing(Append(s.st, TagTab[tag]), "OK")

EndElement(s) ==
  LET n == Len(s.st) IN
  IF ~CanClose(s.st[n]) THEN Parsing(s.st, "CLOSE_ERROR")
  ELSE Parsing([SubSeq(s.st, 1, n - 1) EXCEPT ![n - 1] = Attach(@, CloseTag(s.st[n]))], "OK")

FoundData(s, txt) ==
  IF GetsData(Last(s.st)) THEN Parsing([s.st EXCEPT ![Len(s.st)].v = @ \o txt], "OK")
  ELSE IF NoSpaces(txt) # <<>> THEN Parsing(s.st, "UNEXPECTED_CHARDATA") ELSE s

StartCdata(s, txt) ==
  IF Last(s.st).k \in {"string", "base64"} THEN FoundData(s, txt)
  ELSE Parsing(s.st, "UNEXPECTED_CDATA")

\* parse_guts: the first error stops expat
ParseEvent(s, e) ==
  CASE s.err # "OK" -> s
    [] s.err = "OK" /\ e.ev = "open" -> StartElement(s, e.tag)
    [] s.err = "OK" /\ e.ev = "close" -> EndElement(s)
    [] s.err = "OK" /\ e.ev = "text" -> FoundData(s, e.s)
    [] s.err = "OK" /\ e.ev = "cdata" -> StartCdata(s, e.s)
    [] OTHER -> Parsing(s.st, "EXPAT")
Parse(evs) == FoldLeft(ParseEvent, Parsing(<<TopLevelE(<<>>)>>, "OK"), evs)

\* What the other side has of a message: top_level () [0]
Received(e) == Parse(Expat(Dump(e)))
Message(s) == s.st[1].e[1]

(***************************************************************************)
(* Typed data.  A type is [t, n, f]: its kind, its bound, the types of its *)
(* parts; a value of a struct is the sequence of its fields, a pointer a   *)
(* sequence of at most one.                                                *)
(***************************************************************************)

Write(p, x) == [p |-> p, x |-> x]
TagOf == [uint32 |-> "ui4", int64 |-> "i8", uint64 |-> "ui8"]
IntRepr(t, i) == <<Prefix(TagOf[t]), Digits10(i)>>

RECURSIVE Writes(_, _, _)
\* rpc_traverse with an XML_creator_t: the assignments it makes from path p
Writes(typ, v, p) ==
  CASE typ.t = "int32" -> <<Write(p, IntE(v))>>
    [] typ.t = "bool" -> <<Write(p, BoolE(v))>>
    [] typ.t \in DOMAIN TagOf -> <<Write(p, StrE(Escape(IntRepr(typ.t, v))))>>
    [] typ.t = "string" -> <<Write(p, StrE(Escape(v)))>>
    [] typ.t = "opaque" -> <<Write(p, Base64E(Armor(v)))>>
    [] typ.t = "struct" ->
         Joined([i \in DOMAIN v |-> Writes(typ.f[i][2], v[i], Append(p, Field(typ.f[i][1])))])
    [] OTHER -> IF v = <<>> THEN <<Write(p, EmptyArray)>>
                ELSE Joined([i \in DOMAIN v |-> Writes(typ.f, v[i], Append(p, Slot(i - 1)))])
Create(root, typ, v, p) == FoldLeft(LAMBDA e, w : Put(e, w.p, w.x), root, Writes(typ, v, p))

Read0 == [ok |-> FALSE]
ReadOk(v) == [ok |-> TRUE, v |-> v]
ReadIf(c, v) == IF c THEN ReadOk(v) ELSE Read0

\* A number as an unsigned or a signed integer of w bits
AsUnsigned(n, w) == n % 2^w
AsSigned(n, w) == ((n + 2^(w - 1)) % 2^w) - 2^(w - 1)
Assigned(t, n) ==
  CASE t = "int32" -> AsSigned(n, W \div 2)
    [] t = "uint32" -> AsUnsigned(n, W \div 2)
    [] t = "int64" -> AsSigned(n, W)
    [] t = "uint64" -> AsUnsigned(n, W)

\* push_array and push_ptr of a reader: does a list of sz elements fit
FitsArray(typ, sz) == IF typ.t = "array" THEN sz = typ.n ELSE sz <= typ.n
FitsPtr(sz) == sz <= 1
Fits(typ, sz) == IF typ.t = "ptr" THEN FitsPtr(sz) ELSE FitsArray(typ, sz)

\* rpc_str, rpc_opaque and rpc_bytes: a text must not exceed its bound
Bounded(typ, s) == ReadIf(Len(s) <= typ.n, s)

\* traverse_string, traverse_opaque of an XML_reader_t
ReadText(typ, e) ==
  IF IsType(e, IF typ.t = "opaque" THEN "base64" ELSE "string")
  THEN Bounded(typ, ToStr(e)) ELSE Read0

\* The parts of a struct or a list, read in order; one failure fails it
AllRead(rs) == IF \A i \in DOMAIN rs : rs[i].ok THEN ReadOk([i \in DOMAIN rs |-> rs[i].v])
               ELSE Read0

RECURSIVE Read(_, _)
\* rpc_traverse with an XML_reader_t
Read(typ, e) ==
  CASE typ.t = "int32" -> ReadIf(IsType(e, "int"), ToInt(e))
    [] typ.t = "bool" -> ReadIf(IsType(e, "boolean") \/ IsType(e, "int"), ToBoolE(e))
    [] typ.t \in DOMAIN TagOf ->
         Then(ToStr(e), LAMBDA s :
           IF IsType(e, "string") /\ Len(s) = 2 /\ s[1] = Prefix(TagOf[typ.t]) /\ IsDecimal(Tail(s))
           THEN ReadOk(Assigned(typ.t, s[2].num)) ELSE Read0)
    [] typ.t \in {"string", "opaque"} -> ReadText(typ, e)
    [] typ.t = "struct" ->
         IF ~IsType(e, "struct") THEN Read0
         ELSE AllRead([i \in DOMAIN typ.f |-> Read(typ.f[i][2], At(e, <<Field(typ.f[i][1])>>))])
    [] OTHER ->
         IF ~IsType(e, "array") \/ ~Fits(typ, SizeOf(e)) THEN Read0
         ELSE AllRead([i \in 1..SizeOf(e) |-> Read(typ.f, At(e, <<Slot(i - 1)>>))])

RECURSIVE JsonCreate(_, _), JsonRead(_, _)
\* push_array, push_array_slot, push_ptr: a list is there also when it is empty
JsonList(typ, v) == ListV([i \in DOMAIN v |-> JsonCreate(typ.f, v[i])])

\* JSON_creator_t; a field's name is its key
JsonCreate(typ, v) ==
  CASE typ.t \in {"int32", "uint32", "int64"} -> NumV(IntS(v))
    [] typ.t = "uint64" -> NumV(UintS(v))
    [] typ.t = "bool" -> BoolV(v)
    [] typ.t \in {"string", "opaque"} -> StrV(v)
    [] typ.t = "struct" ->
         DictV([k \in {typ.f[i][1] : i \in DOMAIN v} |->
                 LET i == CHOOSE j \in DOMAIN v : typ.f[j][1] = k IN JsonCreate(typ.f[i][2], v[i])])
    [] OTHER -> JsonList(typ, v)

\* is_empty: the slot or the field that was entered is not there
IsEmpty(x) == x = NilV

JsonReadList(typ, x) ==
  IF x.t # "list" \/ ~Fits(typ, Len(x.e)) THEN Read0
  ELSE AllRead([i \in DOMAIN x.e |-> JsonRead(typ.f, x.e[i])])

\* traverse_string, traverse_opaque: the text of a string or of a number; the
\* texts of other values do not occur here
JsonText(x) == IF x.t = "str" THEN x.v ELSE <<Digits10(x.v)>>

\* JSON_reader_t on values with numbers that are not spelled as texts
JsonRead(typ, x) ==
  CASE IsEmpty(x) -> Read0
    [] ~IsEmpty(x) /\ typ.t \in {"int32", "uint32", "int64"} ->
         IF x.t \in {"int", "uint"} /\ ValueToInt(x) # Bad
         THEN ReadOk(Assigned(typ.t, x.v)) ELSE Read0
    [] ~IsEmpty(x) /\ typ.t = "uint64" ->
         IF x.t \in {"int", "uint"} /\ ValueToUint(x) # Bad
         THEN ReadOk(x.v) ELSE Read0
    [] ~IsEmpty(x) /\ typ.t = "bool" -> ReadOk(ValueBool(x))
    [] ~IsEmpty(x) /\ typ.t \in {"string", "opaque"} -> Bounded(typ, JsonText(x))
    [] ~IsEmpty(x) /\ typ.t = "struct" ->
         IF x.t # "dict" THEN Read0
         ELSE AllRead([i \in DOMAIN typ.f |->
                JsonRead(typ.f[i][2], IF typ.f[i][1] \in DOMAIN x.m THEN x.m[typ.f[i][1]] ELSE NilV)])
    [] OTHER -> JsonReadList(typ, x)

(***************************************************************************)
(* Values of the template language.                                        *)
(***************************************************************************)

RECURSIVE ToPub3(_), FromPub3(_, _)
\* to_pub3: booleans and base64 are not converted, an empty list is null
ToPub3(e) ==
  CASE e.k = "int" -> NumV(IntS(e.v))
    [] e.k = "string" -> StrV(e.v)
    [] e.k = "double" -> NumV(DoubleS(e.v, 1))
    [] e.k = "value" -> IF e.v = NoEl THEN NullV ELSE ToPub3(e.v)
    [] e.k = "array" /\ e.data # NoEl /\ e.data.e # <<>> ->
         ListV([i \in DOMAIN e.data.e |->
                 IF e.data.e[i] = NoEl THEN NullV ELSE ToPub3(e.data.e[i])])
    [] e.k = "struct" /\ e.e # <<>> ->
         DictV([n \in {e.e[i].name.v[1].ch : i \in DOMAIN e.e} |-> ToPub3(e.e[MemberAt(e, n)].v)])
    [] OTHER -> NullV

\* xml_obj_t::from_pub3: whatever has an integer value becomes an int of 32
\* bits; null and every other value an empty struct.  Members and elements
\* are put in without a <value>.
FromPub3(x, ord) ==
  CASE x.t = "dict" ->
         LET ks == KeysOf(x.m, ord)
         IN StructE([i \in DOMAIN ks |-> MemberE(NameE(Name(ks[i])), FromPub3(x.m[ks[i]], ord))])
    [] x.t = "list" -> ArrayE(IF x.e = <<>> THEN NoEl
                              ELSE DataE([i \in DOMAIN x.e |-> FromPub3(x.e[i], ord)]))
    [] x.t \in {"int", "uint", "double", "bool", "str"} ->
         Then(ValueToInt(x), LAMBDA i :
           IF i = Bad THEN StrE(Chars(TextOf(ScalarOf(x)))) ELSE IntE(AsSigned(i, W \div 2)))
    [] OTHER -> StructE(<<>>)

=============================================================================

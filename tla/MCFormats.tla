--------------------------- MODULE MCFormats ---------------------------
EXTENDS Formats

MCTextOrder == << "", "-0", "-1", "-129", "-3", "-32768", "0", "007", "010", "1", "10", "1000", "127", "128", "255", "256", "32767", "32768", "5", "65535", "7", "a", "abcdefghijklmnopq", "b", "k", "k1", "k2" >>
Map(F(_), s) == [i \in DOMAIN s |-> F(s[i])]
Ints == <<-32768, -129, -3, -1, 0, 1, 7, 127, 128, 255, 256, 32767>>
Uints == <<5, 32768, 65535>>
MCScalars ==
  Map(IntS, Ints) \o Map(UintS, Uints)
  \o <<DoubleS(1, 2), DoubleS(-3, 2), DoubleS(2, 1), DoubleS(32764, 1), DoubleS(32768, 1),
       DoubleS(65536, 1)>>
  \o Map(StrS, <<"", "a", "b", "-0", "007", "010", "7", "-3", "65535", "abcdefghijklmnopq">>)

MCSpelling == ("7" :> 7) @@ ("-3" :> -3) @@ ("65535" :> 65535)

Few == <<NumV(IntS(-3)), StrV("a"), NumV(UintS(32768)), NullV>>
MCValues ==
  Map(LAMBDA i : NumV(IntS(i)), Ints) \o Map(LAMBDA u : NumV(UintS(u)), Uints)
  \o Map(StrV, <<"", "a", "10", "abcdefghijklmnopq">>)
  \o <<NumV(DoubleS(1, 2)), NumV(DoubleS(8191, 8)), NumV(DoubleS(32764, 1)), BoolV(TRUE), NullV, LambdaV, ListV(<<>>), ListV(<<NilV>>)>>
  \o Map(LAMBDA x : ListV(<<x>>), Few)
  \o [n \in 1..16 |-> ListV(<<Few[(n % 4) + 1], Few[((n \div 4) % 4) + 1]>>)]
  \o <<ListV([i \in 1..17 |-> NumV(IntS(i))]), ListV(<<ListV(<<StrV("a")>>), NullV>>)>>
  \o Map(LAMBDA x : DictV([k \in {"k1", "k2"} |-> x]), Append(Few, NilV))
  \* large integers beside their digits, doubles that print alike
  \o Map(LAMBDA x : DictV([k \in {"k1"} |-> x]),
         <<NumV(IntS(32767)), StrV("32767"), NumV(UintS(32767)), NumV(IntS(127)), StrV("127"),
           NumV(DoubleS(127, 1)), NumV(DoubleS(8191, 8)), NumV(DoubleS(4095, 4))>>)
  \* keys that read as numbers, two of them as the same one
  \o <<DictV([k \in {"007", "-3", "k2"} |-> NumV(IntS(1))]), DictV(<<>>),
       DictV([k \in {"007", "7", "010"} |-> StrV(k)]), DictV([k \in {"-0", "k1"} |-> NullV])>>

\* Every class with every choice of its fields
Leaf == Node("int", 0, [val |-> 1])
Fn(f) == Node("lambda", 2, [name |-> NULL, filename |-> f, params |-> <<"p">>,
                            opt_params |-> <<>>, body |-> Node("html", 2, [zones |-> <<>>])])
MCFields ==
  [ atom |-> <<"x">>, ptr |-> <<NULL, Leaf, Fn(NULL)>>,
    val |-> <<NULL, Leaf, Node("strbuf", 0, [val |-> "s"])>>,
    body |-> <<NULL, Node("pub", 3, [statements |-> <<>>])>>,
    must |-> <<Fn("g"), Node("html", 4, [zones |-> <<Node("raw", 5, [data |-> "z"])>>])>>,
    args |-> <<NULL, <<>>, <<NULL, Leaf>> >>, list |-> << <<>>, <<Leaf>>, <<NULL, Fn(NULL)>> >>,
    nodes |-> << <<>>, <<Node("break", 1, <<>>), Node("print", 2, [args |-> NULL])>> >>,
    binds |-> << <<>>, << <<"k2", Leaf>>, <<"k1", NULL>> >> >>,
    tab |-> << <<>>, [k \in {"k1", "k2"} |-> Leaf], [k \in {"k1"} |-> NULL]>>,
    name |-> <<NULL, "n">>, file |-> <<NULL, "g">>, double |-> <<DoubleS(1, 2).v, DoubleS(8191, 8).v, DoubleS(32764, 1).v>> ]

T(t, n, f) == [t |-> t, n |-> n, f |-> f]
Prim(t) == T(t, 0, NULL)
StringT == T("string", 3, NULL)
OpaqueT == T("opaque", 3, NULL)
Vec(f) == T("vec", 2, f)
Ptr(f) == T("ptr", 1, f)
PairT(a, b) == T("struct", 2, << <<"k1", a>>, <<"k2", b>> >>)
TextsOf == << <<>>, <<Char("a")>>, <<Char("<")>>, <<Char("a"), Char("&"), Char("b")>>, <<Space>> >>
Pairs(typ, vs) == [i \in DOMAIN vs |-> <<typ, vs[i]>>]
MCTyped ==
  Pairs(Prim("int32"), <<-128, 0, 127>>) \o Pairs(Prim("uint32"), <<0, 127, 128, 255>>)
  \o Pairs(Prim("int64"), <<IMin, -1, IMax>>) \o Pairs(Prim("uint64"), <<0, IMax + 1, UMax>>)
  \o Pairs(Prim("bool"), <<TRUE, FALSE>>)
  \o Pairs(StringT, TextsOf) \o Pairs(OpaqueT, TextsOf)
  \o Pairs(Vec(Prim("int32")), << <<>>, <<5>>, <<5, -6>> >>)
  \o Pairs(T("array", 2, Prim("bool")), << <<TRUE, FALSE>> >>)
  \o Pairs(Ptr(StringT), << <<>>, << <<Char("<")>> >> >>)
  \o Pairs(Vec(Vec(StringT)), << << <<>>, << <<Char("a")>> >> >>, << << <<>>, <<Char("&")>> >> >> >>)
  \o Pairs(PairT(StringT, Vec(OpaqueT)),
           << << <<Char("a")>>, <<>> >>, << <<>>, << <<Char("<")>>, <<>> >> >> >>)
  \o Pairs(PairT(Prim("uint64"), Ptr(PairT(Prim("bool"), Prim("int32")))),
           << <<UMax, <<>> >>, <<0, << <<TRUE, -128>> >> >> >>)
  \o Pairs(Vec(PairT(Prim("uint32"), StringT)),
           << << <<255, <<Char("a")>> >>, <<0, <<>> >> >> >>)
\* Characters that JSON escapes, big integers and void
Escaped == << <<Char("\""), Char("n")>>, <<Char("\\"), Char("\n")>>, <<Char("\t"), Wide("bmp")>>,
              <<Wide("astral"), Char("a"), Wide("nul")>>, <<Char("\r"), Char("\\"), Char("\"")>> >>
MCCoded ==
  Pairs(StringT, Escaped) \o Pairs(Prim("bigint"), <<1, 300>>) \o Pairs(Prim("void"), << <<>> >>)
  \o Pairs(Vec(Ptr(Prim("bigint"))), << << <<>>, <<7>> >> >>)
  \o Pairs(PairT(Vec(StringT), PairT(Prim("void"), Ptr(Vec(Prim("bool"))))),
           << << SubSeq(Escaped, 1, 2), << <<>>, << <<TRUE>> >> >> >>, << <<>>, << <<>>, << <<>> >> >> >> >>)
MCOrders == << <<"007", "7", "010", "-0", "-3", "k1", "k2">>,
               <<"k2", "k1", "-3", "-0", "010", "7", "007">> >>
=========================================================================

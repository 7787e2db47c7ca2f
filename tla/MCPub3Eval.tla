---------------------------- MODULE MCPub3Eval ----------------------------
EXTENDS Pub3Eval

\* The parsed template: 1 null, 2 and 3 integers, 4 [1], 5 {a : [1]} (its list
\* is 4), 6 the library {l : [1]} (with its own list 7), 8 locals {v : [1]}
MCTemplate ==
  1 :> NullObj @@ 2 :> IntObj(1) @@ 3 :> IntObj(2) @@ 4 :> ListObj(<<2>>)
  @@ 5 :> DictObj("a" :> 4) @@ 6 :> DictObj("l" :> 7) @@ 7 :> ListObj(<<2>>)
  @@ 8 :> DictObj("v" :> 4)

Var(n) == [x |-> "var", n |-> n]
Scoped(s, n) == [x |-> "scoped", s |-> s, n |-> n]
Lit(p) == [x |-> "lit", p |-> p]
Const(p) == [x |-> "const", p |-> p]
Dot(o, k) == [x |-> "dot", o |-> o, k |-> k]
Vec(o, i) == [x |-> "vec", o |-> o, i |-> i]
Add(l, r, s) == [x |-> "add", l |-> l, r |-> r, plus |-> s]
Set(l, r) == [lhs |-> l, rhs |-> r]

MCObjs == 0..22
MCAssigns ==
  { Set(Var("g"), Lit(5)),                          \* g = {a : [1]}
    Set(Vec(Dot(Scoped("globals", "g"), "a"), -1), Const(3)),     \* globals::g.a[-1] = 2
    Set(Var("w"), Add(Lit(5), Var("g"), TRUE)),     \* w = {a : [1]} + g
    Set(Vec(Var("l"), 2), Var("g")) }               \* l[2] = g, past a library list's end
MCLocalDecls == { << [n |-> "v", x |-> [x |-> "list", e |-> <<Var("g"), Const(2)>>]],
                     [n |-> "f", x |-> [x |-> "lambda"]] >> }
MCStaticDecls == {8}
MCUniDecls == { << [n |-> "u", x |-> [x |-> "dict", m |-> "a" :> Lit(4)]] >> }
MCCalls == { [f |-> Var("f"), arg |-> Var("v"), lhs |-> Var("w")] }
MCReturns == { Var("v") }
MCParams == {5, NIL}
MCBinds == { [n |-> "v", x |-> Var("u"), scope |-> "locals"] }
MCImports == { Scoped("universals", "u") }
===========================================================================

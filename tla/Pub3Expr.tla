------------------------------ MODULE Pub3Expr ------------------------------
(***************************************************************************)
(* The values of the pub3 template language and the evaluation of its      *)
(* expressions (libpub/pub3expr.C, pub3ref.C, pub3env.C).                  *)
(*                                                                         *)
(* A heap maps addresses to objects; address 0 is the NULL pointer.  An    *)
(* object is a constant, a list, a dictionary (which is also what a        *)
(* bindtab_t is), a copy-on-write proxy (expr_cow_t, and cow_bindtab_t for *)
(* a scope), or a closed lambda.  Every operator takes a heap and returns  *)
(* a record whose field h is the heap after it: reading a template         *)
(* variable as an lvalue already copies what is shared.  Strings, doubles  *)
(* and regular expressions are constants like the integers here; their     *)
(* conversions are in Pub3Scalar.                                          *)
(***************************************************************************)
EXTENDS Integers, Sequences, FiniteSets, FiniteSetsExt, SequencesExt, Functions

\* The NULL pointer, and the address of the expr_null_t singleton
NIL == 0
NULLX == 1

(***************************************************************************)
(* Objects.                                                                *)
(***************************************************************************)

Free == [t |-> "free"]
NullObj == [t |-> "null"]
IntObj(n) == [t |-> "int", v |-> n]
ListObj(s) == [t |-> "list", e |-> s]
DictObj(f) == [t |-> "dict", m |-> f]
CowObj(o, c) == [t |-> "cow", orig |-> o, copy |-> c]
CowTab(o) == [t |-> "cowtab", orig |-> o, copy |-> NIL]
LambdaObj(s) == [t |-> "lambda", st |-> s]

\* F applied to an intermediate result
Then(v, F(_)) == F(v)

IsConst(h, p) == h[p].t \in {"null", "int"}

\* A NULL pointer has been dereferenced: the process is gone
Fault == [t |-> "fault"]
Faulted(h) == h[NIL] = Fault

\* A new object at the first free address (the recyclers hand back an
\* address whose object has been re-initialised)
Alloc(h, o) ==
  LET p == Min({q \in DOMAIN h \ {NIL} : h[q] = Free}) IN
  [h |-> [h EXCEPT ![p] = o], p |-> p]

SafeExpr(p) == IF p = NIL THEN NULLX ELSE p

(***************************************************************************)
(* Copying.  copy() of a list or dictionary is a proxy that still reads    *)
(* the original; a proxy that has already made its own copy hands that     *)
(* copy to the new proxy as the original to read.                          *)
(***************************************************************************)

\* Mutant: the new proxy points to the same private copy (the code before
\* its fix)
CopyCow_Same(h, p) == Alloc(h, h[p])

CopyCow(h, p) ==
  Alloc(h, CowObj(IF h[p].orig # NIL THEN h[p].orig ELSE h[p].copy, NIL))

Copy(h, p) ==
  IF IsConst(h, p) THEN [h |-> h, p |-> p]
  ELSE IF h[p].t = "cow" THEN CopyCow(h, p)
  ELSE Alloc(h, CowObj(p, NIL))

\* Copies of a sequence of pointers, NULL staying NULL
CopyAll(h, s) ==
  FoldLeft(LAMBDA acc, p :
             IF p = NIL THEN [h |-> acc.h, s |-> Append(acc.s, NIL)]
             ELSE Then(Copy(acc.h, p), LAMBDA c :
                       [h |-> c.h, s |-> Append(acc.s, c.p)]),
           [h |-> h, s |-> <<>>], s)

\* A list is copied element by element, and a NULL element is dereferenced
ListDeepCopy(h, p) ==
  Then(CopyAll(h, h[p].e), LAMBDA c :
       Alloc(IF NIL \in Range(h[p].e) THEN [c.h EXCEPT ![NIL] = Fault] ELSE c.h,
             ListObj(c.s)))

\* The dictionary whose values are copies of those of f
CopyTab(h, f) ==
  LET ks == SetToSeq(DOMAIN f) IN
  Then(CopyAll(h, [i \in DOMAIN ks |-> f[ks[i]]]), LAMBDA c :
       [h |-> c.h,
        m |-> [k \in DOMAIN f |-> c.s[CHOOSE i \in DOMAIN ks : ks[i] = k]]])

\* Mutant: the values of the copy are those of the original
CopyDict_Shallow(h, p) == Alloc(h, DictObj(h[p].m))

CopyDict(h, p) ==
  Then(CopyTab(h, h[p].m), LAMBDA c : Alloc(c.h, DictObj(c.m)))

CowCopy(h, p) ==
  CASE IsConst(h, p) \/ h[p].t = "lambda" -> [h |-> h, p |-> p]
    [] h[p].t = "list"   -> ListDeepCopy(h, p)
    [] h[p].t = "dict"   -> CopyDict(h, p)
    [] h[p].t = "cow"    -> CopyCow(h, p)

(***************************************************************************)
(* The two faces of a proxy: reading never copies, writing copies once.    *)
(***************************************************************************)

ConstPtr(h, p) ==
  IF p # NIL /\ h[p].t = "cow"
  THEN IF h[p].copy # NIL THEN h[p].copy ELSE h[p].orig
  ELSE p

MutablePtr(h, p) ==
  IF h[p].t # "cow" THEN [h |-> h, p |-> p]
  ELSE IF h[p].orig = NIL THEN [h |-> h, p |-> h[p].copy]
  ELSE Then(CowCopy(h, h[p].orig), LAMBDA c :
            [h |-> [c.h EXCEPT ![p] = CowObj(NIL, c.p)], p |-> c.p])

IsA(h, p, kind) == p # NIL /\ h[ConstPtr(h, p)].t = kind
IsNull(h, p) == p = NIL \/ IsA(h, p, "null")

(***************************************************************************)
(* Lists and dictionaries.                                                 *)
(***************************************************************************)

\* The position (from 0) an index denotes; lax when it is written through
FixupIndex(i, sz, lax) ==
  LET j == IF i < 0 THEN i + sz ELSE i IN
  IF j < 0 THEN [ok |-> lax, i |-> IF lax THEN 0 ELSE j]
  ELSE [ok |-> j < sz \/ lax, i |-> j]

ListLookup(h, p, i) ==
  LET x == FixupIndex(i, Len(h[p].e), FALSE)
  IN IF x.ok THEN h[p].e[x.i + 1] ELSE NIL

\* Writing past the end pads with NULL pointers
ListSet(h, p, i, v) ==
  LET s == h[p].e
      j == FixupIndex(i, Len(s), TRUE).i
      n == IF j < Len(s) THEN Len(s) ELSE j + 1
  IN [h EXCEPT ![p] = ListObj([q \in 1..n |->
        IF q = j + 1 THEN SafeExpr(v) ELSE IF q <= Len(s) THEN s[q] ELSE NIL])]

DictLookup(h, p, k) == IF k \in DOMAIN h[p].m THEN h[p].m[k] ELSE NIL
DictInsert(h, p, k, v) ==
  [h EXCEPT ![p] = DictObj([q \in DOMAIN h[p].m \cup {k} |->
                              IF q = k THEN v ELSE h[p].m[q]])]

\* f += g: g's values are copied in
OverwriteWith(h, p, f) ==
  Then(CopyTab(h, f), LAMBDA c : [c.h EXCEPT ![p] = DictObj(c.m @@ h[p].m)])
DictMinus(f, g) == Restrict(f, DOMAIN f \ DOMAIN g)

(***************************************************************************)
(* References: a slot of a dictionary or scope, an element of a list, or a *)
(* value nothing can be assigned to.                                       *)
(***************************************************************************)

NoRef == [r |-> "none"]
ConstRef(p) == [r |-> "const", p |-> p]
DictRef(d, k) == [r |-> "dict", p |-> d, k |-> k]
ListRef(l, i) == [r |-> "list", p |-> l, k |-> i]

GetValue(h, r) ==
  CASE r.r = "none"  -> NIL
    [] r.r = "const" -> r.p
    [] r.r = "dict"  -> DictLookup(h, r.p, r.k)
    [] r.r = "list"  -> ListLookup(h, r.p, r.k)

\* The heap after set_value (safe_expr (v)); an invalid LHS only reports
SetValue(h, r, v) ==
  CASE r.r \in {"none", "const"} -> h
    [] r.r = "dict"  -> DictInsert(h, r.p, r.k, SafeExpr(v))
    [] r.r = "list"  -> ListSet(h, r.p, r.k, v)

(***************************************************************************)
(* The environment: a stack of layers, each with its bindings (NIL for a   *)
(* bare barrier).  env is [stack, univ, glob, gf] with gf the height of    *)
(* the global layer.                                                       *)
(***************************************************************************)

Layer(b, t) == [b |-> b, t |-> t]
IsBarrier(l) == l.t = "barrier"
IsLocal(l) == l.t \in {"locals", "barrier", "weak"}

\* The table a layer reads, and the heap and table after mutate()
TabOf(h, b) ==
  IF h[b].t = "cowtab"
  THEN IF h[b].copy # NIL THEN h[b].copy ELSE h[b].orig
  ELSE b
HasName(h, l, n) == l.b # NIL /\ n \in DOMAIN h[TabOf(h, l.b)].m

MutateTab(h, b) ==
  IF h[b].t # "cowtab" THEN [h |-> h, p |-> b]
  ELSE IF h[b].copy # NIL THEN [h |-> h, p |-> h[b].copy]
  ELSE Then(CopyDict(h, h[b].orig), LAMBDA c :
            [h |-> [c.h EXCEPT ![b].copy = c.p], p |-> c.p])

\* Where the search goes next: a barrier sends it to the base layers
DecStackPointer(env, i) ==
  IF IsBarrier(env.stack[i]) THEN env.gf ELSE i - 1

\* The heights a search visits, top first
RECURSIVE Visits(_, _)
Visits(env, i) ==
  IF i <= 0 THEN <<>> ELSE <<i>> \o Visits(env, DecStackPointer(env, i))
SearchPath(env) == Visits(env, Len(env.stack))

\* The first layer on the search path that binds n, 0 if none does
FindLayer(h, env, n) ==
  LET path == SearchPath(env)
      hits == {j \in DOMAIN path : HasName(h, env.stack[path[j]], n)}
  IN IF hits = {} THEN 0 ELSE path[Min(hits)]

LookupRef(h, env, n) ==
  Then(FindLayer(h, env, n), LAMBDA i :
    IF i = 0 THEN [h |-> h, r |-> DictRef(env.glob, n)]
    ELSE IF env.stack[i].t = "unirefs" THEN [h |-> h, r |-> DictRef(env.univ, n)]
    ELSE Then(MutateTab(h, env.stack[i].b), LAMBDA m :
              [h |-> m.h, r |-> DictRef(m.p, n)]))

LookupVal(h, env, n) ==
  Then(FindLayer(h, env, n), LAMBDA i :
    IF i = 0 THEN NIL
    ELSE SafeExpr(IF env.stack[i].t = "unirefs"
                  THEN DictLookup(h, env.univ, n)
                  ELSE DictLookup(h, TabOf(h, env.stack[i].b), n)))

\* The layers a lambda captures: down to a barrier, or to the base layers
DescendToBarrier(env) ==
  LET stops == {i \in DOMAIN env.stack : env.stack[i].t \notin {"locals", "unirefs"}}
      i == Max(stops)
  IN IF IsLocal(env.stack[i]) THEN i ELSE i + 1
CaptureClosure(env) == SubSeq(env.stack, DescendToBarrier(env), Len(env.stack))

\* The scope bind() and unbind() write to
LookupLayer(h, env, n, scope) ==
  IF scope = "globals" THEN [h |-> h, p |-> env.glob]
  ELSE IF scope = "universals" THEN [h |-> h, p |-> env.univ]
  ELSE LET top   == Len(env.stack)
           below == {i \in DOMAIN env.stack :
                       \/ ~IsLocal(env.stack[i])
                       \/ IsBarrier(env.stack[i]) /\ ~HasName(h, env.stack[i], n)}
           floor == Max(below \cup {0})
           seen  == {i \in floor..top : i > 0 /\ IsLocal(env.stack[i])}
           hits  == {i \in seen : HasName(h, env.stack[i], n)}
           tops  == {i \in seen : env.stack[i].b # NIL}
           i     == IF hits # {} THEN Max(hits)
                    ELSE IF tops # {} THEN Max(tops) ELSE 0
       IN IF i = 0 THEN [h |-> h, p |-> NIL] ELSE MutateTab(h, env.stack[i].b)

(***************************************************************************)
(* Expressions.  x is the node: "const" and "lit" (a static literal, which *)
(* is an object of the parsed template), "list" and "dict" literals that   *)
(* depend on variables, "var", "scoped" (globals::n), "dot", "vec", "add"  *)
(* and "lambda".                                                           *)
(***************************************************************************)

ListConcat(h, p, q) == Alloc(h, ListObj(h[p].e \o h[q].e))

\* expr_add_t on two values; sums of integers are in Pub3Scalar
EvalAdd(h, a, b, plus) ==
  LET ca == ConstPtr(h, a) cb == ConstPtr(h, b) IN
  IF IsNull(h, a) \/ IsNull(h, b) THEN [h |-> h, p |-> NIL]
  ELSE IF h[ca].t = "list" /\ h[cb].t = "list"
  THEN IF plus THEN ListConcat(h, ca, cb) ELSE [h |-> h, p |-> NIL]
  ELSE IF h[ca].t = "list" \/ h[cb].t = "list" THEN [h |-> h, p |-> NIL]
  ELSE IF h[ca].t = "dict" /\ h[cb].t = "dict"
  THEN Then(CopyDict(h, ca), LAMBDA d :
       [h |-> IF plus THEN OverwriteWith(d.h, d.p, h[cb].m)
              ELSE [d.h EXCEPT ![d.p] = DictObj(DictMinus(@.m, h[cb].m))],
        p |-> d.p])
  ELSE [h |-> h, p |-> NIL]

\* Reading c.k, and c[i] of a list or, with the index as a key, a dictionary
DotVal(h, c, k) ==
  IF IsA(h, c, "dict") THEN DictLookup(h, ConstPtr(h, c), k) ELSE NIL
VecVal(h, c, i) ==
  IF IsA(h, c, "dict") THEN DictLookup(h, ConstPtr(h, c), ToString(i))
  ELSE IF IsA(h, c, "list") THEN ListLookup(h, ConstPtr(h, c), i)
  ELSE NIL

\* The same as references: what is shared is copied first
DotRef(h, c, k) ==
  IF c = NIL THEN [h |-> h, r |-> NoRef]
  ELSE Then(MutablePtr(h, c), LAMBDA m :
       [h |-> m.h,
        r |-> IF m.h[m.p].t = "dict" THEN DictRef(m.p, k) ELSE NoRef])
VecRef(h, c, i) ==
  IF c = NIL THEN [h |-> h, r |-> NoRef]
  ELSE Then(MutablePtr(h, c), LAMBDA m :
       [h |-> m.h,
        r |-> CASE m.h[m.p].t = "dict" -> DictRef(m.p, ToString(i))
                [] m.h[m.p].t = "list" -> ListRef(m.p, i)
                [] OTHER -> NoRef])

\* globals::n and universals::n: one table, whatever the layers above bind
ScopeTab(env, s) == IF s = "globals" THEN env.glob ELSE env.univ
ScopedVal(h, env, x) == SafeExpr(DictLookup(h, ScopeTab(env, x.s), x.n))
ScopedRef(h, env, x) ==
  Then(MutateTab(h, ScopeTab(env, x.s)), LAMBDA m : [h |-> m.h, r |-> DictRef(m.p, x.n)])

RECURSIVE EvalToVal(_, _, _), EvalToMval(_, _, _), EvalToRef(_, _, _)

\* The elements of a literal, each evaluated to a value of its own
EvalAll(h, env, s) ==
  FoldLeft(LAMBDA acc, x : Then(EvalToMval(acc.h, env, x), LAMBDA v :
                                [h |-> v.h, s |-> Append(acc.s, v.p)]),
           [h |-> h, s |-> <<>>], s)

EvalList(h, env, x) ==
  Then(EvalAll(h, env, x.e), LAMBDA v :
       Alloc(v.h, ListObj([i \in DOMAIN v.s |-> SafeExpr(v.s[i])])))

\* A binding that evaluates to nothing is left out
EvalDict(h, env, x) ==
  LET ks == SetToSeq(DOMAIN x.m) IN
  Then(EvalAll(h, env, [i \in DOMAIN ks |-> x.m[ks[i]]]), LAMBDA v :
       LET at(k) == v.s[CHOOSE i \in DOMAIN ks : ks[i] = k]
       IN Alloc(v.h, DictObj([k \in {q \in DOMAIN x.m : at(q) # NIL} |-> at(k)])))

EvalToVal(h, env, x) ==
  CASE x.x = "const"  -> [h |-> h, p |-> x.p]
    [] x.x = "lit"    -> Alloc(h, CowObj(x.p, NIL))
    [] x.x = "list"   -> EvalList(h, env, x)
    [] x.x = "dict"   -> EvalDict(h, env, x)
    [] x.x = "var"    -> [h |-> h, p |-> LookupVal(h, env, x.n)]
    [] x.x = "scoped" -> [h |-> h, p |-> ScopedVal(h, env, x)]
    [] x.x = "lambda" -> Alloc(h, LambdaObj(CaptureClosure(env)))
    [] x.x = "dot"    -> Then(EvalToVal(h, env, x.o), LAMBDA c :
                              [h |-> c.h, p |-> DotVal(c.h, c.p, x.k)])
    [] x.x = "vec"    -> Then(EvalToVal(h, env, x.o), LAMBDA c :
                              [h |-> c.h, p |-> VecVal(c.h, c.p, x.i)])
    [] x.x = "add"    -> Then(EvalToVal(h, env, x.l), LAMBDA a :
                         Then(EvalToVal(a.h, env, x.r), LAMBDA b :
                              EvalAdd(b.h, a.p, b.p, x.plus)))

EvalToRef(h, env, x) ==
  CASE x.x = "var"  -> LookupRef(h, env, x.n)
    [] x.x = "scoped" -> ScopedRef(h, env, x)
    [] x.x = "dot"  -> Then(EvalToRef(h, env, x.o), LAMBDA c :
                            DotRef(c.h, GetValue(c.h, c.r), x.k))
    [] x.x = "vec"  -> Then(EvalToRef(h, env, x.o), LAMBDA c :
                            VecRef(c.h, GetValue(c.h, c.r), x.i))
    [] OTHER        -> Then(EvalToVal(h, env, x), LAMBDA v :
                       Then(IF v.p = NIL \/ x.x = "lambda" THEN v ELSE Copy(v.h, v.p),
                            LAMBDA c : [h |-> c.h, r |-> ConstRef(c.p)]))

EvalToMval(h, env, x) ==
  CASE x.x \in {"var", "scoped", "dot", "vec"} ->
         Then(EvalToRef(h, env, x), LAMBDA r : [h |-> r.h, p |-> GetValue(r.h, r.r)])
    [] OTHER ->
         Then(EvalToVal(h, env, x), LAMBDA v :
              IF v.p = NIL \/ x.x \in {"lit", "list", "dict"} THEN v
              ELSE Copy(v.h, v.p))

\* lhs = rhs: the right-hand side first, then the reference, then the store
EvalAssign(h, env, lhs, rhs) ==
  Then(EvalToMval(h, env, rhs), LAMBDA v :
  Then(EvalToRef(v.h, env, lhs), LAMBDA r :
       SetValue(r.h, r.r, v.p)))

(***************************************************************************)
(* What keeps an object alive.                                             *)
(***************************************************************************)

\* The objects an object points to (a ptr<> member each)
Children(o) ==
  (CASE o.t = "list" -> Range(o.e)
     [] o.t = "dict" -> Range(o.m)
     [] o.t \in {"cow", "cowtab"} -> {o.orig, o.copy}
     [] o.t = "lambda" -> {o.st[i].b : i \in DOMAIN o.st}
     [] OTHER -> {}) \ {NIL}

RECURSIVE Reach(_, _)
Reach(h, S) ==
  LET T == S \cup UNION {Children(h[p]) : p \in S}
  IN IF T = S THEN S ELSE Reach(h, T)

\* Objects nothing refers to are finalized and recycled
Collect(h, roots) ==
  LET live == Reach(h, roots)
  IN [p \in DOMAIN h |-> IF p \in live \cup {NIL} THEN h[p] ELSE Free]

=============================================================================

------------------------------ MODULE Pub3Eval ------------------------------
(***************************************************************************)
(* A pub3 interpreter publishing pages (libpub/pub3eval.T, pub3env.C,      *)
(* pub3func.T, the declaration and include statements of pub3ast.T, and    *)
(* bind, unbind and import of librfn).  A page is any sequence of          *)
(* statements; calls and includes push layers on the scope stack and       *)
(* return or end pops them.  The parsed template outlives the page, and so *)
(* do the universals, the library tables and the lambdas stored in them.   *)
(***************************************************************************)
EXTENDS Pub3Expr

CONSTANTS
  Objs,         \* addresses of objects, 0..n
  Template,     \* the objects of the parsed template, [address -> object]
  Library,      \* the address of an imported library's table
  Assigns,      \* assignments of the template, [lhs, rhs]
  LocalDecls,   \* locals blocks, sequences of [n, x]
  StaticDecls,  \* locals blocks that are static, addresses of their tables
  UniDecls,     \* universals blocks, sequences of [n, x]
  Calls,        \* calls lhs = f (arg), [f, arg, lhs]
  Returns,      \* expressions returned
  Params,       \* include's dictionaries, addresses of static literals, NIL
  Binds,        \* bind (n, x, scope)
  Imports,      \* expressions given to import ()
  Strict,       \* P_STRICT_INCLUDE_SCOPING
  Spare,        \* addresses a statement may need (bound)
  MaxStack,     \* ok_pub_max_stack
  MaxPages,     \* pages published (bound)
  MaxLayers     \* layers on the stack (bound)

VARIABLES
  heap,    \* every object
  env,     \* the environment of the page
  frames,  \* calls and includes in progress: kind, height to pop to, target
  page     \* pages published so far

vars == <<heap, env, frames, page>>

\* The addresses that stay alive: the template, the library, the stack
Roots(e) ==
  (DOMAIN Template \cup {e.univ, e.glob} \cup {e.stack[i].b : i \in DOMAIN e.stack})
    \ {NIL}

\* env_t::env_t: the library's layer, the universals, the globals
NewEnv(lib, u, g) ==
  [stack |-> <<Layer(lib, "library"), Layer(u, "universals"), Layer(g, "globals")>>,
   univ |-> u, glob |-> g, gf |-> 3]

NoMap == [k \in {} |-> NIL]

\* A fresh page: empty globals, the universals kept
StartPage(h, u) ==
  Then(Alloc(h, CowTab(Library)), LAMBDA l :
  Then(Alloc(l.h, DictObj(NoMap)), LAMBDA g :
       [h |-> g.h, e |-> NewEnv(l.p, u, g.p)]))

Init ==
  \E u \in {Alloc([p \in Objs |-> IF p \in DOMAIN Template THEN Template[p] ELSE Free],
                  DictObj(NoMap))} :
  \E s \in {StartPage(u.h, u.p)} :
    heap = s.h /\ env = s.e /\ frames = <<>> /\ page = 1

(***************************************************************************)
(* Bounds: room for what a statement allocates, and no cyclic values: the  *)
(* interpreter does not protect itself from x.k = x, whose printing does   *)
(* not end, and templates that do it are not modelled.                     *)
(***************************************************************************)

Room == Cardinality({p \in Objs \ {NIL} : heap[p] = Free}) >= Spare

Acyclic(h) ==
  LET data == {p \in Objs : h[p].t \in {"list", "dict", "cow"}}
      RECURSIVE Shrink(_)
      Shrink(S) == LET T == S \cap UNION {Children(h[p]) : p \in S}
                   IN IF T = S THEN S ELSE Shrink(T)
  IN Shrink(data) = {}

Running == ~Faulted(heap) /\ Room

Fits(e) == Len(e.stack) <= MaxLayers

\* What every statement ends with: garbage is recycled at once
Step(h, e, f) ==
  /\ Acyclic(h) /\ Fits(e)
  /\ heap' = Collect(h, Roots(e))
  /\ env' = e
  /\ frames' = f
  /\ UNCHANGED page

PushLayer(e, b, t) == [e EXCEPT !.stack = Append(@, Layer(b, t))]
PopTo(e, n) == [e EXCEPT !.stack = SubSeq(@, 1, n)]

(***************************************************************************)
(* Statements.                                                             *)
(***************************************************************************)

Assign(a) ==
  /\ Running
  /\ Step(EvalAssign(heap, env, a.lhs, a.rhs), env, frames)

\* The bindings of a block, each evaluated in the scope built so far
BindAll(h, e, tab, decls) ==
  FoldLeft(LAMBDA g, d : Then(EvalToMval(g, e, d.x), LAMBDA v :
                              DictInsert(v.h, tab, d.n, SafeExpr(v.p))),
           h, decls)

\* locals { ... } that depends on variables: a new table, filled as it is
\* evaluated
LocalsBlock(decls) ==
  /\ Running
  /\ \E t \in {Alloc(heap, DictObj(NoMap))} :
     \E e \in {PushLayer(env, t.p, "locals")} :
       Step(BindAll(t.h, e, t.p, decls), e, frames)

\* locals { ... } that is static: a copy-on-write view of the parsed table
StaticLocals(tab) ==
  /\ Running
  /\ \E t \in {Alloc(heap, CowTab(tab))} :
       Step(t.h, PushLayer(env, t.p, "locals"), frames)

\* universals { ... }: set at the base, and a layer of references on top
UniversalsBlock(decls) ==
  /\ Running
  /\ \E t \in {Alloc(BindAll(heap, env, env.univ, decls),
                     DictObj([n \in {decls[i].n : i \in DOMAIN decls} |-> NIL]))} :
       Step(t.h, PushLayer(env, t.p, "unirefs"), frames)

\* bind (n, x, scope): the default scope is the globals
Bind(b) ==
  /\ Running
  /\ \E v \in {EvalToMval(heap, env, b.x)} :
     \E l \in {LookupLayer(v.h, env, b.n, b.scope)} :
       Step(IF l.p = NIL THEN l.h ELSE DictInsert(l.h, l.p, b.n, SafeExpr(v.p)),
            env, frames)

Unbind(b) ==
  /\ Running
  /\ \E l \in {LookupLayer(heap, env, b.n, b.scope)} :
       Step(IF l.p = NIL THEN l.h
            ELSE [l.h EXCEPT ![l.p] = DictObj(Restrict(@.m, DOMAIN @.m \ {b.n}))],
            env, frames)

\* import (d): a layer that is a mutable copy of the dictionary
Import(x) ==
  /\ Running
  /\ \E v \in {EvalToVal(heap, env, x)} :
       IF IsA(v.h, v.p, "dict") /\ DOMAIN v.h[ConstPtr(v.h, v.p)].m # {}
       THEN \E c \in {CopyDict(v.h, ConstPtr(v.h, v.p))} :
              Step(c.h, PushLayer(env, c.p, "locals"), frames)
       ELSE Step(v.h, env, frames)

(***************************************************************************)
(* Calls and includes.                                                     *)
(***************************************************************************)

\* The stack of run locations: the page's file, and one per call or include
RunStack == Len(frames) + 1

\* Mutant: a closure with layers of its own is taken to bring a barrier
PushLambda_Bare(e, tab, cls) ==
  LET bar == IF cls = <<>> THEN <<Layer(NIL, "barrier")>> ELSE <<>>
  IN [e EXCEPT !.stack = @ \o bar \o cls \o <<Layer(tab, "locals")>>]

\* A closure's layers go on top, above a barrier unless they bring their own
PushLambda(e, tab, cls) ==
  LET bar == IF cls = <<>> \/ ~IsBarrier(cls[1])
             THEN <<Layer(NIL, "barrier")>> ELSE <<>>
  IN [e EXCEPT !.stack = @ \o bar \o cls \o <<Layer(tab, "locals")>>]

\* lhs = f (arg): arguments are bound by reference; beyond the maximal
\* stack the body is not run and the result is null
Call(c) ==
  /\ Running
  /\ \E f \in {EvalToVal(heap, env, c.f)} :
     \E a \in {EvalToRef(f.h, env, c.arg)} :
     \E t \in {Alloc(a.h, DictObj([n \in {"p"} |-> SafeExpr(GetValue(a.h, a.r))]))} :
       /\ IsA(f.h, f.p, "lambda")
       /\ IF RunStack + 1 > MaxStack
          THEN \E r \in {EvalToRef(t.h, env, c.lhs)} :
                 Step(SetValue(r.h, r.r, NULLX), env, frames)
          ELSE Step(t.h, PushLambda(env, t.p, f.h[ConstPtr(f.h, f.p)].st),
                    Append(frames, [kind |-> "call", sz |-> Len(env.stack),
                                    lhs |-> c.lhs]))

\* return x: the scopes are popped, and the caller stores a copy of the value
Return(x) ==
  /\ Running
  /\ frames # <<>> /\ Last(frames).kind = "call"
  /\ \E v \in {EvalToVal(heap, env, x)} :
     \E c \in {Copy(v.h, SafeExpr(v.p))} :
     \E e \in {PopTo(env, Last(frames).sz)} :
     \E r \in {EvalToRef(c.h, e, Last(frames).lhs)} :
       Step(SetValue(r.h, r.r, c.p), e, Front(frames))

\* include (file, dict): a scope for the parameters, if there are any, and
\* one for the file
PushInclude(e, h, d) ==
  Then(IF d = NIL THEN [h |-> h, e |-> e]
       ELSE Then(Alloc(h, CowTab(d)), LAMBDA b :
            [h |-> b.h, e |-> PushLayer(e, b.p, IF Strict THEN "barrier" ELSE "weak")]),
       LAMBDA p :
  Then(Alloc(p.h, DictObj(NoMap)), LAMBDA m :
       [h |-> m.h, e |-> PushLayer(p.e, m.p, "locals")]))

Include(d) ==
  /\ Running
  /\ RunStack <= MaxStack
  /\ \E i \in {PushInclude(env, heap, d)} :
       Step(i.h, i.e, Append(frames, [kind |-> "include", sz |-> Len(env.stack),
                                      lhs |-> NoRef]))

EndInclude ==
  /\ Running
  /\ frames # <<>> /\ Last(frames).kind = "include"
  /\ Step(heap, PopTo(env, Last(frames).sz), Front(frames))

\* The end of the page: ~eval_t clears every closure made on it, and the
\* next page starts with the universals left behind
EndPage ==
  LET cleared == [p \in Objs |-> IF heap[p].t = "lambda" THEN LambdaObj(<<>>)
                                 ELSE heap[p]]
  IN /\ Running
     /\ frames = <<>> /\ page < MaxPages
     /\ \E s \in {StartPage(Collect(cleared, DOMAIN Template \cup {env.univ}), env.univ)} :
          heap' = s.h /\ env' = s.e
     /\ page' = page + 1
     /\ UNCHANGED frames

Next ==
  \/ \E a \in Assigns : Assign(a)
  \/ \E d \in LocalDecls : LocalsBlock(d)
  \/ \E t \in StaticDecls : StaticLocals(t)
  \/ \E d \in UniDecls : UniversalsBlock(d)
  \/ \E b \in Binds : Bind(b)
  \/ \E b \in Binds : Unbind(b)
  \/ \E x \in Imports : Import(x)
  \/ \E c \in Calls : Call(c)
  \/ \E x \in Returns : Return(x)
  \/ \E d \in Params : Include(d)
  \/ EndInclude
  \/ EndPage

Spec == Init /\ [][Next]_vars

(***************************************************************************)
(* Properties.                                                             *)
(***************************************************************************)

Ptrs == Objs \ {NIL}

\* Every pointer leads to an object; a proxy has an original or a copy,
\* never both and never another proxy (the assertions of const_ptr)
TypeOK ==
  /\ \A p \in Ptrs : \A q \in Children(heap[p]) : heap[q] # Free
  /\ \A p \in Ptrs : heap[p].t = "cow" =>
       /\ (heap[p].orig = NIL) # (heap[p].copy = NIL)
       /\ heap[ConstPtr(heap, p)].t # "cow"
  /\ \A p \in Roots(env) : heap[p].t \in {"dict", "cowtab", "list", "null", "int"}
  /\ page \in 1..MaxPages

\* No sequence of statements changes the parsed template or the library:
\* what a literal evaluates to is the same on every page
TemplateIntact == \A p \in DOMAIN Template : heap[p] = Template[p]

\* The copy a proxy or a scope writes to is written through nothing else,
\* so writing to a copy never reaches what it was copied from
WritersPrivate ==
  LET writers == {p \in Ptrs : heap[p].t \in {"cow", "cowtab"} /\ heap[p].copy # NIL} IN
  \A p \in writers :
    /\ heap[p].copy \notin DOMAIN Template
    /\ \A q \in writers \ {p} : heap[q].copy # heap[p].copy
    /\ \A q \in Ptrs : heap[q].t \in {"list", "dict"} => heap[p].copy \notin Children(heap[q])

\* The heap is sound: no dangling pointer, no half-made copy, and no two writers of
\* one copy.
HeapSafe == TypeOK /\ WritersPrivate

\* The heights of the stack that name resolution looks at
Visible == Range(SearchPath(env))

\* Inside a call no name resolves to a local of the caller: only to the
\* callee's scopes, the layers its closure captured, and the base layers
CallBarrier ==
  \A i \in DOMAIN frames :
    frames[i].kind = "call" => Visible \cap (env.gf + 1 .. frames[i].sz) = {}

=============================================================================

------------------------------ MODULE Pub3Xdr ------------------------------
(***************************************************************************)
(* The XDR form of a parsed pub3 file (libpub/pub3xdr.C): pubd parses a    *)
(* template and ships its syntax tree to the services.                     *)
(*                                                                         *)
(* A node is [k, ln, f]: its class, its line and its fields.  The tables   *)
(* give, for each class, the fields that to_xdr writes and the constructor *)
(* from XDR reads, and how:                                                *)
(*   "atom"   copied                                                       *)
(*   "ptr"    an rpc_ptr: a NULL pointer stays one                         *)
(*   "val"    by value: NULL is the type XPUB3_EXPR_NULL, read as NULL     *)
(*   "body"   a zone by value: NULL leaves the type at XPUB3_ZONE_NONE     *)
(*   "must"   written without a test: NULL is dereferenced                 *)
(*   "args"   a list by value: NULL leaves it empty                        *)
(*   "list"   list elements: NULL is written as null                       *)
(*   "nodes"  statements, zones, clauses or cases, none of them NULL       *)
(*   "binds"  bindings in order                                            *)
(*   "tab"    a hash table of bindings, written in the order of its keys   *)
(*   "name"   a str: NULL arrives as the empty string                      *)
(*   "file"   a str that is set only when it is not empty                  *)
(*   "double" a double, printed with a limited number of digits            *)
(***************************************************************************)
EXTENDS Pub3Scalar

CONSTANT NULL \* the NULL pointer

Node(k, ln, f) == [k |-> k, ln |-> ln, f |-> f]

(***************************************************************************)
(* The classes.                                                            *)
(***************************************************************************)

LoopSlots ==
  [ for      |-> [iter |-> "atom", arr |-> "val", body |-> "body", empty |-> "ptr"],
    while    |-> [cond |-> "val", body |-> "body"],
    include  |-> [file |-> "val", dict |-> "val"],
    load     |-> [file |-> "val", dict |-> "val"] ]

\* Operators are all of type XPUB3_EXPR_MATHOP; see Opcode
OperatorSlots ==
  [ OR  |-> [o1 |-> "ptr", o2 |-> "ptr"],  AND  |-> [o1 |-> "ptr", o2 |-> "ptr"],
    add |-> [o1 |-> "ptr", o2 |-> "ptr"],  sub  |-> [o1 |-> "ptr", o2 |-> "ptr"],
    mod |-> [o1 |-> "ptr", o2 |-> "ptr"],  mult |-> [o1 |-> "ptr", o2 |-> "ptr"],
    div |-> [o1 |-> "ptr", o2 |-> "ptr"] ]

RefSlots ==
  [ dictref  |-> [dict |-> "ptr", key |-> "atom"],
    vecref   |-> [vec |-> "ptr", index |-> "ptr"],
    ref      |-> [key |-> "atom"],
    scoped   |-> [key |-> "atom", scope |-> "atom"],
    relation |-> [left |-> "ptr", right |-> "ptr", relop |-> "atom"],
    EQ       |-> [o1 |-> "ptr", o2 |-> "ptr", pos |-> "atom"],
    NOT      |-> [e |-> "ptr"] ]

ConstSlots ==
  [ str  |-> [val |-> "atom"], int |-> [val |-> "atom"], uint |-> [val |-> "atom"],
    bool |-> [val |-> "atom"], double |-> [val |-> "double"],
    strbuf |-> [val |-> "atom"], null |-> <<>> ]

CollectionSlots ==
  [ list      |-> [list |-> "list"],
    shell_str |-> [elements |-> "args"],
    dict      |-> [entries |-> "tab"],
    inline    |-> [expr |-> "val"],
    regex     |-> [body |-> "atom", opts |-> "atom"] ]

ClauseSlots ==
  [ clause |-> [expr |-> "val", body |-> "body"],
    if     |-> [clauses |-> "nodes"] ]

StatementSlots ==
  [ print  |-> [args |-> "args"],
    assign |-> [lhs |-> "ptr", rhs |-> "ptr"],
    expr   |-> [expr |-> "ptr"] ]

SwitchSlots ==
  [ case   |-> [key |-> "ptr", body |-> "body"],
    switch |-> [key |-> "val", cases |-> "nodes"] ]

FunctionSlots ==
  [ return |-> [retval |-> "val"], break |-> <<>>, exit |-> <<>>, continue |-> <<>>,
    call   |-> [fn |-> "ptr", args |-> "args", blocking |-> "atom"],
    fndef  |-> [name |-> "atom", lambda |-> "must"],
    lambda |-> [name |-> "name", filename |-> "file", params |-> "atom",
                opt_params |-> "atom", body |-> "must"] ]

ZoneSlots ==
  [ text     |-> [original |-> "atom", wss |-> "atom"],
    pub      |-> [statements |-> "nodes"],
    html     |-> [zones |-> "nodes"],
    boundary |-> [on |-> "atom", tag |-> "atom"],
    zone     |-> [zone |-> "must"] ]

DeclSlots ==
  [ locals |-> [decls |-> "binds"], globals |-> [decls |-> "binds"],
    universals |-> [decls |-> "binds"], raw |-> [data |-> "atom"],
    heredoc |-> [body |-> "ptr"] ]

Slots == LoopSlots @@ OperatorSlots @@ RefSlots @@ ConstSlots @@ CollectionSlots
         @@ ClauseSlots @@ StatementSlots @@ SwitchSlots @@ FunctionSlots
         @@ ZoneSlots @@ DeclSlots

Constants == {"str", "int", "uint", "bool", "double", "strbuf", "null"}

(***************************************************************************)
(* Writing.                                                                *)
(***************************************************************************)

\* qsort of the entries by strcmp of their keys
SortEntries(keys) == SelectSeq(TextOrder, LAMBDA k : k \in ToSet(keys))

Opcode(k) == IF k \in DOMAIN OperatorSlots THEN <<"mathop", k>> ELSE <<k>>

RECURSIVE ToXdr(_, _), SlotToXdr(_, _, _)

\* One field; ord is the order in which a hash table is traversed
SlotToXdr(mode, v, ord) ==
  LET each(s) == [i \in DOMAIN s |-> ToXdr(s[i], ord)] IN
  CASE mode = "atom" -> v
    [] mode \in {"ptr", "val", "body", "must"} -> IF v = NULL THEN NULL ELSE ToXdr(v, ord)
    [] mode = "args" -> IF v = NULL THEN <<>> ELSE SlotToXdr("list", v, ord)
    [] mode = "list" -> [i \in DOMAIN v |->
         IF v[i] = NULL THEN [typ |-> <<"null">>, ln |-> 0, f |-> <<>>] ELSE ToXdr(v[i], ord)]
    [] mode = "nodes" -> each(v)
    [] mode = "binds" -> [i \in DOMAIN v |-> <<v[i][1], SlotToXdr("ptr", v[i][2], ord)>>]
    [] mode = "tab" ->
         LET keys == SortEntries(SelectSeq(ord, LAMBDA k : k \in DOMAIN v))
         IN [i \in DOMAIN keys |-> <<keys[i], SlotToXdr("ptr", v[keys[i]], ord)>>]
    [] mode \in {"name", "file"} -> IF v = NULL THEN "" ELSE v
    [] mode = "double" -> DoubleToXdr(v)

ToXdr(n, ord) ==
  [typ |-> IF n.k = "strbuf" THEN <<"str">> ELSE Opcode(n.k),
   ln |-> IF n.k \in Constants THEN 0 ELSE n.ln,
   f |-> [s \in DOMAIN n.f |-> SlotToXdr(Slots[n.k][s], n.f[s], ord)]]

(***************************************************************************)
(* Reading.                                                                *)
(***************************************************************************)

RECURSIVE FromXdr(_), SlotFromXdr(_, _)

SlotFromXdr(mode, v) ==
  LET each(s) == [i \in DOMAIN s |-> FromXdr(s[i])] IN
  CASE mode \in {"atom", "name"} -> v
    [] mode = "double" -> DoubleFromXdr(v)
    [] mode \in {"ptr", "val", "body", "must"} -> IF v = NULL THEN NULL ELSE FromXdr(v)
    [] mode \in {"args", "list", "nodes"} -> each(v)
    [] mode = "binds" -> [i \in DOMAIN v |-> <<v[i][1], SlotFromXdr("ptr", v[i][2])>>]
    [] mode = "tab" -> [k \in {v[i][1] : i \in DOMAIN v} |->
         SlotFromXdr("ptr", v[CHOOSE i \in DOMAIN v : v[i][1] = k][2])]
    [] mode = "file" -> IF v = "" THEN NULL ELSE v

\* The switches of statement_t::alloc, zone_t::alloc, expr_t::alloc and
\* expr_mathop_t::alloc: the last word of the type names the class
FromXdr(x) ==
  LET k == Last(x.typ) IN
  Node(k, x.ln, [s \in DOMAIN x.f |-> SlotFromXdr(Slots[k][s], x.f[s])])

(***************************************************************************)
(* Files.  The time of the parse is left out of the metadata; the name of  *)
(* the file is written into the nodes below the root after reading.        *)
(***************************************************************************)

\* Mutant: the time of the parse is part of the XDR
FileToXdr_Ctime(file, ord) ==
  [jfn |-> file.jfn, hash |-> file.hash, ctime |-> file.ctime,
   root |-> SlotToXdr("ptr", file.root, ord), opts |-> file.opts]

FileToXdr(file, ord) ==
  [jfn |-> file.jfn, hash |-> file.hash, ctime |-> 0,
   root |-> SlotToXdr("ptr", file.root, ord), opts |-> file.opts]

\* The classes that define propogate_metadata and so pass it on
Visited == {"html", "inline", "pub", "zone", "expr", "while", "for", "clause", "if",
            "locals", "globals", "universals", "case", "switch", "include", "load",
            "print", "return", "fndef", "call", "list", "shell_str", "dict", "assign"}

RECURSIVE Propagate(_, _)

\* propogate_metadata: a lambda takes the name and does not pass it on
Propagate(n, jfn) ==
  LET val(v) == IF v = NULL THEN NULL ELSE Propagate(v, jfn)
      sub(mode, v) ==
        CASE mode \in {"ptr", "val", "body", "must"} -> val(v)
          [] mode \in {"args", "list", "nodes"} -> [i \in DOMAIN v |-> val(v[i])]
          [] mode = "binds" -> [i \in DOMAIN v |-> <<v[i][1], val(v[i][2])>>]
          [] mode = "tab" -> [k \in DOMAIN v |-> val(v[k])]
          [] OTHER -> v
  IN IF n.k = "lambda" THEN [n EXCEPT !.f.filename = jfn]
     ELSE IF n.k \in Visited
     THEN [n EXCEPT !.f = [s \in DOMAIN n.f |-> sub(Slots[n.k][s], n.f[s])]]
     ELSE n

\* file_t::file_t (xpub3_file_t, opts): the options are the reader's
FileFromXdr(x, opts) ==
  [jfn |-> x.jfn, hash |-> x.hash, ctime |-> x.ctime, opts |-> opts,
   root |-> IF x.root = NULL THEN NULL ELSE Propagate(FromXdr(x.root), x.jfn)]

=============================================================================

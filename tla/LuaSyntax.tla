------------------------------ MODULE LuaSyntax ------------------------------
(***************************************************************************)
(* The syntax trees of Lua that the compiler takes, without types, attributes  *)
(* other than <close>, and positions in the text.                            *)
(***************************************************************************)
EXTENDS Integers, Sequences

(* What literals and globals denote.  A closable value has a __close           *)
(* metamethod; a host value is a function of the embedding.                    *)
Nil == [k |-> "nil"]
Num(n) == [k |-> "num", n |-> n]
Bool(b) == [k |-> "bool", b |-> b]
Str(n) == [k |-> "str", n |-> n]
Closable(n) == [k |-> "closable", n |-> n]
Host(n) == [k |-> "host", n |-> n]
Truthy(v) == v.k # "nil" /\ ~(v.k = "bool" /\ ~v.b)

(* Expressions.                                                              *)
Lit(v) == [t |-> "lit", v |-> v]
Name(n) == [t |-> "name", n |-> n]
VarArg == [t |-> "vararg"]
Func(ps, va, body) == [t |-> "func", ps |-> ps, va |-> va, body |-> body]
CallOf(f, args) == [t |-> "call", f |-> f, args |-> args]
Method(obj, n, args) == [t |-> "method", f |-> obj, n |-> n, args |-> args]
Field(e, n) == [t |-> "field", e |-> e, n |-> n]
TableOf(es) == [t |-> "table", es |-> es]
Logic(op, l, r) == [t |-> "logic", op |-> op, l |-> l, r |-> r]
Not(e) == [t |-> "not", e |-> e]

(* Statements.  no: the number that the analysis of gotos gives.               *)
Local(ns, close, es) == [t |-> "local", ns |-> ns, close |-> close, es |-> es]
GlobalDecl(ns, all) == [t |-> "global", ns |-> ns, all |-> all]
Assign(ls, es) == [t |-> "assign", ls |-> ls, es |-> es]
CallStat(e) == [t |-> "callstat", e |-> e]
Do(b) == [t |-> "do", body |-> b]
While(e, b) == [t |-> "while", e |-> e, body |-> b]
Repeat(b, e) == [t |-> "repeat", body |-> b, e |-> e]
If(e, b, other) == [t |-> "if", e |-> e, body |-> b, other |-> other]
NumFor(n, from, to, b) == [t |-> "numfor", n |-> n, es |-> <<from, to>>, body |-> b]
GenFor(ns, es, b) == [t |-> "genfor", ns |-> ns, es |-> es, body |-> b]
Function(local, n, f) == [t |-> "function", local |-> local, n |-> n, f |-> f]
Return(es) == [t |-> "return", es |-> es]
Break == [t |-> "break"]
Goto(l) == [t |-> "goto", l |-> l, no |-> 0]
Label(l) == [t |-> "label", l |-> l, no |-> 0]

IsCall(e) == e.t \in {"call", "method"}
IsMulti(e) == IsCall(e) \/ e.t = "vararg"

=============================================================================

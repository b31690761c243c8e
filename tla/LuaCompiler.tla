----------------------------- MODULE LuaCompiler -----------------------------
(***************************************************************************)
(* The compiler from syntax trees to register bytecode.  Its state is the      *)
(* stack of _FunctionCompilers, the innermost last: a closure that uses a name  *)
(* of an enclosing function changes that function's state, too.  Types, debug   *)
(* names, and the marks for generated code are left out.                       *)
(*                                                                          *)
(* An instruction is its operation with its operands; the target of a jump is   *)
(* the first.  Registers count from 0 as in the code, instructions from 1.       *)
(***************************************************************************)
EXTENDS LuaSyntax, FiniteSets, TLC
LOCAL INSTANCE SequencesExt

-----------------------------------------------------------------------------
(* The analysis that precedes the compilation of a function (semantics.py):     *)
(* which label each goto means, whether it may jump there, and down to which    *)
(* depth it closes to-be-closed values.  It numbers gotos and labels in the     *)
(* tree.                                                                       *)

NewWalk == [parents |-> <<>>, locals |-> 0, labels |-> <<>>, gotos |-> <<>>, bad |-> FALSE]

RECURSIVE Ancestors(_, _)
Ancestors(parents, b) == IF b = 0 THEN <<>> ELSE <<b>> \o Ancestors(parents, parents[b])
IsAncestor(w, a, b) == a \in Range(Ancestors(w.parents, b))

RECURSIVE TrailingFrom(_)
TrailingFrom(body) ==
  IF body # <<>> /\ Last(body).t = "label" THEN TrailingFrom(Front(body)) ELSE Len(body) + 1

Declares(st) ==
  CASE st.t \in {"local", "global"} -> IF st.t = "global" /\ st.all THEN 1 ELSE Len(st.ns)
    [] st.t = "function" -> IF st.local THEN 1 ELSE 0
    [] OTHER -> 0
Synthetic(st) == CASE st.t = "numfor" -> 1 [] st.t = "genfor" -> Len(st.ns) [] OTHER -> 0

WalkLabel(w, st, block, active, depth) ==
  [w EXCEPT !.labels = Append(@, [l |-> st.l, block |-> block, active |-> active, depth |-> depth]),
            !.bad = @ \/ \E i \in 1 .. Len(w.labels) :
                           w.labels[i].l = st.l /\ IsAncestor(w, w.labels[i].block, block)]

(* What is threaded through a block: w, the statements rewritten so far, the    *)
(* active locals and the close depth.                                       *)
RECURSIVE WalkBlock(_, _, _, _, _, _)
WalkChild(w, body, parent, active, depth, names, outside) ==
  LET v == [w EXCEPT !.parents = Append(@, parent), !.locals = @ + names] IN
  WalkBlock(v, body, Len(v.parents), active \cup (w.locals + 1 .. w.locals + names), depth, outside)

WalkStat(acc, st, block) ==
  LET w == acc.w
      child == WalkChild(w, st.body, block, acc.active, acc.depth, Synthetic(st), st.t # "repeat")
      other == WalkChild(child.w, st.other, block, acc.active, acc.depth, 0, TRUE)
      new == w.locals + 1 .. w.locals + Declares(st)
      add(v, s) == [acc EXCEPT !.w = v, !.body = Append(@, s)] IN
  CASE st.t = "goto" ->
         add([w EXCEPT !.gotos = Append(@, [l |-> st.l, block |-> block, active |-> acc.active])],
             [st EXCEPT !.no = Len(w.gotos) + 1])
    [] st.t \in {"local", "global", "function"} ->
         [add([w EXCEPT !.locals = @ + Declares(st)], st) EXCEPT
            !.active = @ \cup new,
            !.depth = IF st.t = "local" /\ st.close THEN @ + 1 ELSE @]
    [] st.t \in {"do", "while", "repeat", "numfor", "genfor"} ->
         add(child.w, [st EXCEPT !.body = child.body])
    [] st.t = "if" ->
         IF st.other = <<>> THEN add(child.w, [st EXCEPT !.body = child.body])
         ELSE add(other.w, [st EXCEPT !.body = child.body, !.other = other.body])
    [] OTHER -> add(w, st)

WalkBlock(w, body, block, active, depth, outside) ==
  LET trailing == IF outside THEN TrailingFrom(body) ELSE Len(body) + 1
      walk[i \in 0 .. Len(body)] ==
        IF i = 0 THEN [w |-> w, body |-> <<>>, active |-> active, depth |-> depth]
        ELSE LET acc == walk[i - 1]
                 st == body[i] IN
             IF st.t # "label" THEN WalkStat(acc, st, block)
             ELSE [acc EXCEPT
                     !.w = IF i >= trailing THEN WalkLabel(acc.w, st, block, active, depth)
                           ELSE WalkLabel(acc.w, st, block, acc.active, acc.depth),
                     !.body = Append(@, [st EXCEPT !.no = Len(acc.w.labels) + 1])]
  IN  walk[Len(body)]

Candidates(w, g) ==
  {i \in 1 .. Len(w.labels) : w.labels[i].l = g.l /\ IsAncestor(w, w.labels[i].block, g.block)}
Distance(w, a, b) == CHOOSE i \in 1 .. Len(w.parents) : Ancestors(w.parents, b)[i] = a
Target(w, g) ==
  CHOOSE i \in Candidates(w, g) : \A j \in Candidates(w, g) :
    Distance(w, w.labels[i].block, g.block) <= Distance(w, w.labels[j].block, g.block)

(* Mutant: a jump may enter the scope of a local.                              *)
ResolvesAnywhere(w, g) == Candidates(w, g) # {}

Resolves(w, g) == Candidates(w, g) # {} /\ w.labels[Target(w, g)].active \subseteq g.active

Analyze(body) ==
  LET done == WalkChild(NewWalk, body, 0, {}, 0, 0, TRUE)
      w == done.w IN
  [ok |-> ~w.bad /\ \A i \in 1 .. Len(w.gotos) : Resolves(w, w.gotos[i]),
   body |-> done.body, w |-> w]
Targets(w) ==
  [i \in 1 .. Len(w.gotos) |->
     LET l == Target(w, w.gotos[i]) IN [label |-> l, depth |-> w.labels[l].depth]]

-----------------------------------------------------------------------------
(* The compiler.                                                              *)
Scope(implicit, base) ==
  [bind |-> <<>>, wild |-> FALSE, before |-> implicit, base |-> base]
NewFunction(implicit, walk) ==
  [code |-> <<>>, children |-> <<>>, up |-> <<>>, scopes |-> <<Scope(implicit, 0)>>,
   implicit |-> implicit, next |-> 0, captured |-> {}, depth |-> 0, loops |-> <<>>,
   labels |-> <<>>, gotos |-> {}, targets |-> Targets(walk), params |-> 0, va |-> FALSE,
   ok |-> TRUE]

Top(s) == s[Len(s)]
Reg(s) == Top(s).next
Here(s) == Len(Top(s).code) + 1
Take(s, n) == [s EXCEPT ![Len(s)].next = @ + n]
Emit(s, ins) == [s EXCEPT ![Len(s)].code = Append(@, ins)]
PatchA(s, at, target) == [s EXCEPT ![Len(s)].code[at][2] = target]
PatchAll(s, jumps, target) ==
  [s EXCEPT ![Len(s)].code =
     [i \in DOMAIN @ |-> IF i \in jumps THEN [@[i] EXCEPT ![2] = target] ELSE @[i]]]

PushScope(s) ==
  [s EXCEPT ![Len(s)].scopes = Append(@, Scope(Top(s).implicit, Top(s).depth))]
PopScope(s) ==
  LET scope == Last(Top(s).scopes) IN
  [s EXCEPT ![Len(s)].scopes = Front(@), ![Len(s)].implicit = scope.before,
            ![Len(s)].depth = scope.base]

Bind(s, name, symbol) ==
  LET n == Len(Top(s).scopes) IN
  [s EXCEPT ![Len(s)].scopes[n].bind = (name :> symbol) @@ @]
Local_(reg, readonly) == [kind |-> "local", index |-> reg, readonly |-> readonly]
DefineLocal(s, name, reg) == Bind(s, name, Local_(reg, FALSE))
DefineReadOnly(s, name, reg) == Bind(s, name, Local_(reg, TRUE))

DeclareGlobal(s, name) ==
  [Bind(s, name, [kind |-> "global", index |-> -1, readonly |-> FALSE]) EXCEPT ![Len(s)].implicit = FALSE]
DeclareWildcard(s) ==
  LET n == Len(Top(s).scopes) IN
  [s EXCEPT ![Len(s)].scopes[n].wild = TRUE, ![Len(s)].implicit = FALSE]

-----------------------------------------------------------------------------
(* Names.  A reference is [kind, index, readonly], of an upvalue what its        *)
(* source is; kind "none": the name is not declared.                          *)

Bindings(f, name) == {i \in 1 .. Len(f.scopes) : name \in DOMAIN f.scopes[i].bind}
FindBinding(f, name) ==
  f.scopes[CHOOSE i \in Bindings(f, name) : \A j \in Bindings(f, name) : j <= i].bind[name]

FallbackGlobal(f, allow) ==
  [kind |-> IF (\E i \in 1 .. Len(f.scopes) : f.scopes[i].wild) \/ (allow /\ f.implicit)
            THEN "global" ELSE "none",
   index |-> -1, readonly |-> FALSE]

Upvalues(f, name) == {i \in 1 .. Len(f.up) : f.up[i].name = name}
UpvalueRef(f, name) ==
  LET i == CHOOSE j \in Upvalues(f, name) : TRUE IN
  [kind |-> "upvalue", index |-> i, readonly |-> f.up[i].readonly]

MakeUpvalue(s, level, name, source) ==
  [s |-> [s EXCEPT ![level].up = Append(@, ("name" :> name) @@ source)],
   ref |-> [kind |-> "upvalue", index |-> Len(s[level].up) + 1, readonly |-> source.readonly]]

(* What a child asks of the function at this level.                           *)
RECURSIVE CaptureForChild(_, _, _, _)

FromParent(s, level, name, allow, fallback) ==
  LET source == CaptureForChild(s, level - 1, name, allow) IN
  IF level = 1 \/ source.ref.kind = "none" THEN [s |-> s, ref |-> FallbackGlobal(s[level], fallback)]
  ELSE IF source.ref.kind = "global" THEN source
  ELSE MakeUpvalue(source.s, level, name, source.ref)

Captured(s, level, reg) == [s EXCEPT ![level].captured = @ \cup {reg}]

CaptureForChild(s, level, name, allow) ==
  LET f == s[level] IN
  IF Bindings(f, name) # {}
  THEN LET ref == FindBinding(f, name) IN
       [s |-> IF ref.kind = "local" THEN Captured(s, level, ref.index) ELSE s, ref |-> ref]
  ELSE IF Upvalues(f, name) # {} THEN [s |-> s, ref |-> UpvalueRef(f, name)]
  ELSE FromParent(s, level, name, allow /\ f.implicit, allow)

Resolve(s, name) ==
  LET f == Top(s) IN
  IF Bindings(f, name) # {} THEN [s |-> s, ref |-> FindBinding(f, name)]
  ELSE IF Upvalues(f, name) # {} THEN [s |-> s, ref |-> UpvalueRef(f, name)]
  ELSE FromParent(s, Len(s), name, f.implicit, TRUE)

Declared(s, ref) == IF ref.kind = "none" THEN [s EXCEPT ![Len(s)].ok = FALSE] ELSE s

(* Loads and stores.  An expression gives [s, r]: where its value is.          *)
LoadK(s, v) == [s |-> Emit(Take(s, 1), <<"LOADK", Reg(s), v>>), r |-> Reg(s)]
NilReg(s) == LoadK(s, Nil)

LoadLocal(s, ref) ==
  IF ref.kind = "upvalue"
  THEN [s |-> Emit(Take(s, 1), <<"GETUPVAL", Reg(s), ref.index>>), r |-> Reg(s)]
  ELSE IF ref.index \in Top(s).captured
  THEN [s |-> Emit(Take(s, 1), <<"GETCELL", Reg(s), ref.index>>), r |-> Reg(s)]
  ELSE [s |-> s, r |-> ref.index]

EnvReg(s) == LET found == Resolve(s, "_ENV") IN LoadLocal(found.s, found.ref)

EmitGlobalGet(s, name) ==
  LET env == EnvReg(Take(s, 1))
      key == LoadK(env.s, Str(name)) IN
  [s |-> Emit(key.s, <<"GETTABLE", Reg(s), env.r, key.r>>), r |-> Reg(s)]
EmitGlobalSet(s, name, value) ==
  LET env == EnvReg(s)
      key == LoadK(env.s, Str(name)) IN
  Emit(key.s, <<"SETTABLE", env.r, key.r, value>>)

LoadRef(s, ref, name) ==
  IF ref.kind \in {"global", "none"} THEN EmitGlobalGet(Declared(s, ref), name)
  ELSE LoadLocal(s, ref)
StoreRef(s, ref, name, value) ==
  CASE ref.readonly -> [s EXCEPT ![Len(s)].ok = FALSE]
    [] ref.kind = "upvalue" /\ ~ref.readonly -> Emit(s, <<"SETUPVAL", ref.index, value>>)
    [] ref.kind = "local" /\ ~ref.readonly ->
         Emit(s, <<IF ref.index \in Top(s).captured THEN "SETCELL" ELSE "MOVE", ref.index, value>>)
    [] OTHER -> EmitGlobalSet(Declared(s, ref), name, value)

EmitCloseTo(s, target) == IF Top(s).depth > target THEN Emit(s, <<"CLOSE", target>>) ELSE s
CloseAndForget(s, target) == [EmitCloseTo(s, target) EXCEPT ![Len(s)].depth = target]

-----------------------------------------------------------------------------
(* The handlers, chosen by what a node is; want is the number of values that a  *)
(* call is to give.                                                         *)
RECURSIVE Handle(_, _, _, _)
Expr(s, e) == Handle("expr", s, e, 1)
CallExpr(s, e, want) == Handle("call", s, e, want)
NewChild(s, e) == Handle("child", s, e, 1)
CompileBlock(s, body) == Handle("block", s, body, 0)
Stat(s, st) == Handle("stmt", s, st, 0)

Moves(s, base, rs) ==
  LET moved[i \in 0 .. Len(rs)] ==
        IF i = 0 THEN s ELSE Emit(moved[i - 1], <<"MOVE", base + i - 1, rs[i]>>)
  IN  moved[Len(rs)]

Exprs(s, es) ==
  LET done[i \in 0 .. Len(es)] ==
        IF i = 0 THEN [s |-> s, rs |-> <<>>]
        ELSE LET before == done[i - 1]
                 e == Expr(before.s, es[i]) IN
             [s |-> e.s, rs |-> Append(before.rs, e.r)]
  IN  done[Len(es)]

(* want = -1: all values, as one MultiValue.                                   *)
MultiExpr(s, e, want) ==
  IF IsCall(e) THEN CallExpr(s, e, want)
  ELSE IF want = -1 THEN [s |-> Emit(Take(s, 1), <<"VARARG", Reg(s), -1>>), r |-> Reg(s)]
  ELSE [s |-> Emit(Take(s, want), <<"VARARG", Reg(s), want>>), r |-> Reg(s)]

AtLeast1(n) == IF n < 1 THEN 1 ELSE n

(* All expressions but a last one of several values, and that one.             *)
Split(s, es) ==
  IF es # <<>> /\ IsMulti(Last(es))
  THEN LET fixed == Exprs(s, Front(es))
           last == MultiExpr(fixed.s, Last(es), -1) IN
       [s |-> last.s, rs |-> fixed.rs, mv |-> last.r]
  ELSE LET fixed == Exprs(s, es) IN [s |-> fixed.s, rs |-> fixed.rs, mv |-> -1]

(* The values of a list, and a room of registers of what is open at its end.    *)
GivenOf(split, wanted) ==
  LET room == AtLeast1(wanted - Len(split.rs))
      last == MultiExpr(split.s, split.open[1], room) IN
  IF split.open = <<>> THEN split
  ELSE [s |-> last.s, rs |-> split.rs \o [i \in 1 .. room |-> last.r + i - 1]]
Padded(given, wanted) ==
  LET missing == IF wanted > Len(given.rs) THEN wanted - Len(given.rs) ELSE 0
      nils == Exprs(given.s, [i \in 1 .. missing |-> Lit(Nil)]) IN
  [s |-> nils.s, rs |-> SubSeq(given.rs \o nils.rs, 1, wanted)]

AdjustValues(s, es, wanted) ==
  LET multi == es # <<>> /\ IsMulti(Last(es))
      fixed == Exprs(s, IF multi THEN Front(es) ELSE es)
      split == [s |-> fixed.s, rs |-> fixed.rs, open |-> IF multi THEN <<Last(es)>> ELSE <<>>] IN
  Padded(GivenOf(split, wanted), wanted)

(* The function and its arguments, in consecutive registers.                   *)
Callee(head, key, e) ==
  IF e.t = "call" THEN [s |-> head.s, fn |-> head.r, self |-> <<>>]
  ELSE [s |-> Emit(Take(key.s, 1), <<"GETTABLE", Reg(key.s), head.r, key.r>>),
        fn |-> Reg(key.s), self |-> <<head.r>>]
Method_(head, e) == Callee(head, LoadK(head.s, Str(e.n)), e)
Arguments(callee, given) ==
  LET args == callee.self \o given.rs
      base == IF args = <<>> THEN 0 ELSE Reg(given.s) IN
  [s |-> Moves(Take(given.s, Len(args)), base, args),
   fn |-> callee.fn, base |-> base, count |-> Len(args), mv |-> given.mv]
Passed(callee, e) == Arguments(callee, Split(callee.s, e.args))
CallParts(s, e) == Passed(Method_(Expr(s, e.f), e), e)

CallWith(p, want) ==
  LET out == Reg(p.s)
      room == Take(p.s, AtLeast1(want))
      called == Emit(room, <<"CALLV", out, p.fn, p.base, p.count, p.mv>>)
      material == Reg(called) IN
  IF p.mv = -1 THEN [s |-> Emit(room, <<"CALL", out, p.fn, p.base, p.count, want>>), r |-> out]
  ELSE IF want = -1 THEN [s |-> called, r |-> out]
  ELSE [s |-> Emit(Take(called, AtLeast1(want)), <<"UNPACK", material, out, want>>), r |-> material]

TailCallWith(p) ==
  LET c == EmitCloseTo(p.s, 0) IN
  IF p.mv = -1 THEN Emit(c, <<"TAILCALL", 0, p.fn, p.base, p.count>>)
  ELSE Emit(c, <<"TAILCALLV", 0, p.fn, p.base, p.count, p.mv>>)
TailCallExpr(s, e) == TailCallWith(CallParts(s, e))

ReturnWith(given) ==
  LET base == IF given.rs = <<>> THEN 0 ELSE Reg(given.s)
      moved == EmitCloseTo(Moves(Take(given.s, Len(given.rs)), base, given.rs), 0) IN
  Emit(moved, IF given.mv = -1 THEN <<"RETURN", base, Len(given.rs)>>
              ELSE <<"RETURNV", base, Len(given.rs), given.mv>>)
CompileReturn(s, es) ==
  IF es = <<>> THEN Emit(EmitCloseTo(s, 0), <<"RETURN", 0, 0>>)
  ELSE IF Len(es) = 1 /\ IsCall(es[1]) /\ Top(s).depth = 0 THEN TailCallExpr(s, es[1])
  ELSE ReturnWith(Split(s, es))

ExprLogic(s, e) ==
  LET left == Expr(s, e.l)
      out == Reg(left.s)
      jump == Emit(Emit(Take(left.s, 1), <<"MOVE", out, left.r>>),
                   <<IF e.op = "and" THEN "JMPIFNOT" ELSE "JMPIF", 0, left.r>>)
      right == Expr(jump, e.r)
      moved == Emit(right.s, <<"MOVE", out, right.r>>) IN
  [s |-> PatchA(moved, Len(Top(jump).code), Here(moved)), r |-> out]

ExprField(s, e) ==
  LET table == Expr(s, e.e)
      key == LoadK(table.s, Str(e.n)) IN
  [s |-> Emit(Take(key.s, 1), <<"GETTABLE", Reg(key.s), table.r, key.r>>), r |-> Reg(key.s)]

(* Positional fields, the last of which may give several values.               *)
ExprTable(s, e) ==
  LET out == Reg(s)
      new == Emit(Take(s, 1), <<"NEWTABLE", out>>)
      n == Len(e.es)
      multi == n > 0 /\ IsMulti(e.es[n])
      filled[i \in 0 .. n] ==
        LET before == filled[i - 1]
            value == Expr(before, e.es[i])
            key == LoadK(value.s, Num(i))
            all == MultiExpr(before, e.es[i], -1) IN
        IF i = 0 THEN new
        ELSE IF i = n /\ multi THEN Emit(all.s, <<"SETLISTV", out, i, all.r>>)
        ELSE Emit(key.s, <<"SETTABLE", out, key.r, value.r>>) IN
  [s |-> filled[n], r |-> out]

HandleExpr(s, e) ==
  CASE e.t = "lit" -> LoadK(s, e.v)
    [] e.t = "name" -> LET found == Resolve(s, e.n) IN LoadRef(found.s, found.ref, e.n)
    [] e.t = "vararg" -> MultiExpr(s, e, 1)
    [] e.t = "func" -> NewChild(s, e)
    [] IsCall(e) -> CallExpr(s, e, 1)
    [] e.t = "field" -> ExprField(s, e)
    [] e.t = "table" -> ExprTable(s, e)
    [] e.t = "logic" -> ExprLogic(s, e)
    [] e.t = "not" -> LET x == Expr(s, e.e) IN
                      [s |-> Emit(Take(x.s, 1), <<"NOT", Reg(x.s), x.r>>), r |-> Reg(x.s)]

-----------------------------------------------------------------------------
(* Functions.                                                               *)

PatchGotos(f) ==
  [f EXCEPT !.code =
     [i \in DOMAIN @ |-> IF \E g \in f.gotos : g.at = i
                         THEN [@[i] EXCEPT ![2] = f.labels[(CHOOSE g \in f.gotos : g.at = i).label]]
                         ELSE @[i]]]

Proto(f) ==
  [code |-> f.code, up |-> f.up, children |-> f.children, regs |-> AtLeast1(f.next),
   params |-> f.params, va |-> f.va]

Params(s, ps) ==
  LET defined[i \in 0 .. Len(ps)] ==
        IF i = 0 THEN s
        ELSE LET before == defined[i - 1] IN DefineLocal(Take(before, 1), ps[i], Reg(before))
  IN  defined[Len(ps)]

(* Back to the parent, which gets the finished child, or nothing after mistakes. *)
Finished(s, done, ok) ==
  LET parent == [Front(done) EXCEPT
                   ![Len(s)].children = Append(@, Proto(PatchGotos(Top(done)))),
                   ![Len(s)].ok = @ /\ Top(done).ok]
      out == Reg(parent) IN
  IF ok THEN [s |-> Emit(Take(parent, 1), <<"CLOSURE", out, Len(Top(parent).children)>>), r |-> out]
  ELSE [s |-> [s EXCEPT ![Len(s)].ok = FALSE], r |-> 0]
ChildOf(s, e, analysis) ==
  LET child == [NewFunction(Top(s).implicit, analysis.w) EXCEPT !.params = Len(e.ps), !.va = e.va]
      body == CompileBlock(Params(Append(s, child), e.ps), analysis.body) IN
  Finished(s, Emit(EmitCloseTo(body, 0), <<"RETURN", 0, 0>>), analysis.ok)

-----------------------------------------------------------------------------
(* Statements.  The first mistake ends the compilation.                         *)

Statements(s, body) ==
  LET done[i \in 0 .. Len(body)] ==
        IF i = 0 THEN s
        ELSE LET before == done[i - 1] IN IF Top(before).ok THEN Stat(before, body[i]) ELSE before
  IN  done[Len(body)]
LeaveScope(inner) == PopScope(CloseAndForget(inner, Last(Top(inner).scopes).base))
CompileScoped(s, body) == LeaveScope(CompileBlock(PushScope(s), body))

Declare(values, st) ==
  LET place(t, i) == Bind(Emit(Take(t, 1), <<"LOCAL", Reg(t), values.rs[i]>>), st.ns[i],
                          Local_(Reg(t), st.close))
      defined[i \in 0 .. Len(st.ns)] ==
        LET t == defined[i - 1] IN
        IF i = 0 THEN values.s
        ELSE IF st.close THEN [Emit(place(t, i), <<"TBC", Reg(t)>>) EXCEPT ![Len(t)].depth = @ + 1]
        ELSE place(t, i) IN
  defined[Len(st.ns)]
StatLocal(s, st) == Declare(AdjustValues(s, st.es, Len(st.ns)), st)

StatGlobal(s, st) ==
  LET declared[i \in 0 .. Len(st.ns)] ==
        IF i = 0 THEN s ELSE DeclareGlobal(declared[i - 1], st.ns[i]) IN
  IF st.all THEN DeclareWildcard(s) ELSE declared[Len(st.ns)]

PrepareTarget(s, e) ==
  LET found == Resolve(s, e.n)
      table == Expr(s, e.e)
      moved == Emit(Take(table.s, 1), <<"MOVE", Reg(table.s), table.r>>)
      key == LoadK(moved, Str(e.n)) IN
  IF e.t = "name" THEN [s |-> found.s, to |-> [ref |-> found.ref, n |-> e.n, table |-> -1, key |-> -1]]
  ELSE [s |-> key.s, to |-> [ref |-> [kind |-> "field", index |-> -1, readonly |-> FALSE], n |-> e.n,
                             table |-> Reg(table.s), key |-> key.r]]
PrepareTargets(s, ls) ==
  LET done[i \in 0 .. Len(ls)] ==
        IF i = 0 THEN [s |-> s, to |-> <<>>]
        ELSE LET before == done[i - 1]
                 p == PrepareTarget(before.s, ls[i]) IN
             [s |-> p.s, to |-> Append(before.to, p.to)]
  IN  done[Len(ls)]

AssignPrepared(s, to, value) ==
  IF to.ref.kind = "field" THEN Emit(s, <<"SETTABLE", to.table, to.key, value>>)
  ELSE StoreRef(s, to.ref, to.n, value)

(* Values in registers that the statement assigns are copied first.             *)
Snapshots(s, rs, targets) ==
  LET copied[i \in 0 .. Len(rs)] ==
        LET before == copied[i - 1] IN
        IF i = 0 THEN [s |-> s, rs |-> <<>>]
        ELSE IF rs[i] \notin targets THEN [before EXCEPT !.rs = Append(@, rs[i])]
        ELSE [s |-> Emit(Take(before.s, 1), <<"MOVE", Reg(before.s), rs[i]>>),
              rs |-> Append(before.rs, Reg(before.s))] IN
  copied[Len(rs)]

AssignAll(targets, safe) ==
  LET assigned[i \in 0 .. Len(targets)] ==
        IF i = 0 THEN safe.s ELSE AssignPrepared(assigned[i - 1], targets[i], safe.rs[i]) IN
  assigned[Len(targets)]
AssignTo(targets, values) ==
  LET locals == {to.ref.index : to \in {t \in Range(targets) :
                   t.ref.kind = "local" /\ t.ref.index \notin Top(values.s).captured}} IN
  AssignAll(targets, Snapshots(values.s, values.rs, locals))
AssignFrom(prepared, st) == AssignTo(prepared.to, AdjustValues(prepared.s, st.es, Len(st.ls)))
StatAssign(s, st) == AssignFrom(PrepareTargets(s, st.ls), st)

StatLabel(s, st) == [s EXCEPT ![Len(s)].labels = (st.no :> Here(s)) @@ @]
StatGoto(s, st) ==
  LET target == Top(s).targets[st.no]
      jump == Emit(EmitCloseTo(s, target.depth), <<"JMP", 0>>) IN
  [jump EXCEPT ![Len(s)].gotos = @ \cup {[at |-> Len(Top(jump).code), label |-> target.label]}]

EnterLoop(s, depth) == [s EXCEPT ![Len(s)].loops = Append(@, [depth |-> depth, jumps |-> {}])]
FinishLoop(s, end) ==
  [PatchAll(s, Last(Top(s).loops).jumps, end) EXCEPT ![Len(s)].loops = Front(@)]

StatBreak(s) ==
  LET n == Len(Top(s).loops)
      jump == Emit(EmitCloseTo(s, Last(Top(s).loops).depth), <<"JMP", 0>>) IN
  IF n = 0 THEN [s EXCEPT ![Len(s)].ok = FALSE]
  ELSE [jump EXCEPT ![Len(s)].loops[n].jumps = @ \cup {Len(Top(jump).code)}]

StatWhile(s, st) ==
  LET cond == Expr(s, st.e)
      exit == Emit(cond.s, <<"JMPIFNOT", 0, cond.r>>)
      body == CompileScoped(EnterLoop(exit, Top(s).depth), st.body)
      back == Emit(body, <<"JMP", Here(s)>>) IN
  FinishLoop(PatchA(back, Len(Top(exit).code), Here(back)), Here(back))

StatRepeat(s, st) ==
  LET base == Top(s).depth
      body == CompileBlock(EnterLoop(PushScope(s), base), st.body)
      cond == Expr(body, st.e)
      back == Emit(CloseAndForget(cond.s, base), <<"JMPIFNOT", Here(s), cond.r>>) IN
  PopScope(FinishLoop(back, Here(back)))

StatIf(s, st) ==
  LET cond == Expr(s, st.e)
      exit == Emit(cond.s, <<"JMPIFNOT", 0, cond.r>>)
      then == Emit(CompileScoped(exit, st.body), <<"JMP", 0>>)
      other == PatchA(then, Len(Top(exit).code), Here(then))
      done == IF st.other = <<>> THEN other ELSE CompileScoped(other, st.other) IN
  PatchA(done, Len(Top(then).code), Here(done))

NumericBody(prep, st, idx, base) ==
  LET visible == Reg(prep)
      inner == EnterLoop(DefineReadOnly(PushScope(Take(prep, 1)), st.n, visible), base)
      body == CloseAndForget(CompileBlock(Emit(inner, <<"LOCAL", visible, idx>>), st.body), base)
      back == Emit(body, <<"FORLOOP", Here(inner), idx, idx + 1, idx + 2>>) IN
  PopScope(FinishLoop(PatchA(back, Len(Top(prep).code), Here(back)), Here(back)))
NumericPrep(values, step, st) ==
  LET idx == Reg(step.s) IN
  NumericBody(Emit(Moves(Take(step.s, 3), idx, Append(values.rs, step.r)),
                   <<"FORPREP", 0, idx, idx + 1, idx + 2>>), st, idx, Top(values.s).depth)
NumericFrom(values, st) == NumericPrep(values, LoadK(values.s, Num(1)), st)
NumericFor(s, st) == NumericFrom(Exprs(s, st.es), st)

(* The body of a loop over an iterator, from the test of its first value on.    *)
GenericBody(exit, st, hidden, out, base, start) ==
  LET vars == out - 2 - Len(st.ns)
      set[i \in 0 .. Len(st.ns)] ==
        IF i = 0 THEN Emit(exit, <<"MOVE", hidden + 2, out>>)
        ELSE Emit(set[i - 1], <<"LOCAL", vars + i - 1, out + i - 1>>)
      body == CloseAndForget(CompileBlock(set[Len(st.ns)], st.body), base + 1)
      back == Emit(body, <<"JMP", start>>) IN
  PopScope(CloseAndForget(FinishLoop(PatchA(back, Len(Top(exit).code), Here(back)), Here(back)), base))
GenericCall(named, st, hidden, base) ==
  LET args == Reg(named)
      out == args + 2
      called == Emit(Moves(Take(named, 2 + Len(st.ns)), args, <<hidden + 1, hidden + 2>>),
                     <<"CALL", out, hidden, args, 2, Len(st.ns)>>) IN
  GenericBody(Emit(called, <<"JMPIFNIL", 0, out>>), st, hidden, out, base, Here(named))
LoopNames(s, ns) == Params(DefineReadOnly(Take(s, 1), Head(ns), Reg(s)), Tail(ns))
GenericOpen(values, st, base) ==
  LET hidden == Reg(values.s)
      opened == [Emit(PushScope(Moves(Take(values.s, 4), hidden, values.rs)), <<"TBC", hidden + 3>>)
                   EXCEPT ![Len(values.s)].depth = @ + 1] IN
  GenericCall(LoopNames(EnterLoop(opened, base), st.ns), st, hidden, base)
GenericFor(s, st) == GenericOpen(AdjustValues(s, st.es, 4), st, Top(s).depth)

FunctionDef(s, st) ==
  LET reg == Reg(s)
      nil == NilReg(Take(s, 1))
      named == DefineLocal(Emit(nil.s, <<"LOCAL", reg, nil.r>>), st.n, reg)
      target == IF st.local THEN [s |-> named, ref |-> Local_(reg, FALSE)]
                ELSE Resolve(s, st.n)
      fn == NewChild(target.s, st.f) IN
  StoreRef(fn.s, target.ref, st.n, fn.r)

HandleStat(s, st) ==
  CASE st.t = "local" -> StatLocal(s, st)
    [] st.t = "global" -> StatGlobal(s, st)
    [] st.t = "assign" -> StatAssign(s, st)
    [] st.t = "callstat" -> CallExpr(s, st.e, 0).s
    [] st.t = "do" -> CompileScoped(s, st.body)
    [] st.t = "while" -> StatWhile(s, st)
    [] st.t = "repeat" -> StatRepeat(s, st)
    [] st.t = "if" -> StatIf(s, st)
    [] st.t = "numfor" -> NumericFor(s, st)
    [] st.t = "genfor" -> GenericFor(s, st)
    [] st.t = "function" -> FunctionDef(s, st)
    [] st.t = "return" -> CompileReturn(s, st.es)
    [] st.t = "break" -> StatBreak(s)
    [] st.t = "goto" -> StatGoto(s, st)
    [] st.t = "label" -> StatLabel(s, st)

Handle(part, s, e, want) ==
  CASE part = "expr" -> HandleExpr(s, e)
    [] part = "call" -> CallWith(CallParts(s, e), want)
    [] part = "child" -> ChildOf(s, e, Analyze(e.body))
    [] part = "block" -> Statements(s, e)
    [] part = "stmt" -> HandleStat(s, e)

(* The chunk: a function of any arguments with _ENV in its first register.     *)
Halted(analysis) ==
  LET main == DefineLocal(Take(<<[NewFunction(TRUE, analysis.w) EXCEPT !.va = TRUE]>>, 1), "_ENV", 0) IN
  Emit(EmitCloseTo(CompileBlock(main, analysis.body), 0), <<"HALT">>)
Compiled(analysis, done) ==
  IF analysis.ok /\ Top(done).ok THEN [ok |-> TRUE, proto |-> Proto(PatchGotos(Top(done)))] ELSE [ok |-> FALSE]
CompileAs(analysis) == Compiled(analysis, Halted(analysis))
Compile(chunk) == CompileAs(Analyze(chunk))

=============================================================================

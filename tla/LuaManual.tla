------------------------------- MODULE LuaManual -------------------------------
(***************************************************************************)
(* What the reference manual of Lua promises, stated over syntax trees without *)
(* registers, cells or jumps: variables are locations that a block creates     *)
(* anew each time, a goto goes on behind its label, and leaving a block closes *)
(* what was opened in it, the last first.  Meaning gives the trace and the end  *)
(* of a program for given answers of the world; Legal says which programs are  *)
(* programs at all.                                                         *)
(*                                                                          *)
(* w is the world: locations, tables, closures, answers left, trace, and       *)
(* whether an error is on its way; then nothing has an effect but closing.      *)
(***************************************************************************)
EXTENDS LuaSyntax, FiniteSets, TLC
LOCAL INSTANCE SequencesExt

HostNames == {"note", "ask", "fresh", "step", "co"}

World(answers) ==
  [loc |-> <<[k |-> "tab", n |-> 1]>>, tabs |-> <<[key \in {Str(h) : h \in HostNames} |-> Host(key.n)]>>,
   fns |-> <<>>, answers |-> answers, used |-> 0, trace |-> <<>>, err |-> FALSE]

(* An environment maps names to locations, 0 to the table of globals.          *)
Global == 0
At(env, name) == IF name \in DOMAIN env THEN env[name] ELSE Global
New(w, v) == [w EXCEPT !.loc = Append(@, v)]
BindAll(w, env, names, vs) ==
  LET v(i) == IF i <= Len(vs) THEN vs[i] ELSE Nil
      place(x) == Len(w.loc) + CHOOSE i \in DOMAIN names : names[i] = x
                                    /\ \A j \in DOMAIN names : names[j] = x => j <= i IN
  [w |-> [w EXCEPT !.loc = @ \o [i \in DOMAIN names |-> v(i)]],
   env |-> [x \in Range(names) |-> place(x)] @@ env]

EnvTable(w, env) == w.loc[env["_ENV"]]
ReadAt(w, t, key) == IF t.k = "tab" /\ key \in DOMAIN w.tabs[t.n] THEN w.tabs[t.n][key] ELSE Nil
Fail(w) == [w EXCEPT !.err = TRUE]
Index(w, t, key) == [w |-> IF t.k = "tab" THEN w ELSE Fail(w), v |-> ReadAt(w, t, key)]
Assigned(w, t, key, v) ==
  IF w.err \/ t.k # "tab" THEN Fail(w) ELSE [w EXCEPT !.tabs[t.n] = (key :> v) @@ @]

Logged(w, event) == IF w.err THEN w ELSE [w EXCEPT !.trace = Append(@, event)]
Visible(v) == IF v.k \in {"fn", "tab"} THEN [v EXCEPT !.n = 0] ELSE v
CloseValues(w, values) ==
  LET open == SelectSeq(values, Truthy) IN
  [w EXCEPT !.trace = @ \o [i \in 1 .. Len(open) |-> <<"close", open[Len(open) + 1 - i].n>>]]

(* The world answers while it has answers.                                    *)
Answer(w) == w.used < Len(w.answers) /\ w.answers[w.used + 1]
Asked(w) == IF w.err THEN w ELSE [w EXCEPT !.used = @ + 1]

RECURSIVE Values(_, _, _), Eval(_, _, _), Apply(_, _, _), Block(_, _, _, _), Do1(_, _, _)

Val(w, env, e) ==
  LET r == Eval(w, env, e) IN [w |-> r.w, v |-> IF r.vs = <<>> THEN Nil ELSE r.vs[1]]

(* A list of expressions: the last gives all its values, the others one.       *)
Values(w, env, es) ==
  LET one(v, e) == LET r == Val(v, env, e) IN [w |-> r.w, vs |-> <<r.v>>]
      upto[i \in 0 .. Len(es)] ==
        IF i = 0 THEN [w |-> w, vs |-> <<>>]
        ELSE LET before == upto[i - 1]
                 r == IF i = Len(es) THEN Eval(before.w, env, es[i]) ELSE one(before.w, es[i]) IN
             [w |-> r.w, vs |-> before.vs \o r.vs] IN
  upto[Len(es)]

NameValue(w, env, n) ==
  IF At(env, n) = Global THEN Index(w, EnvTable(w, env), Str(n)) ELSE [w |-> w, v |-> w.loc[At(env, n)]]

Eval(w, env, e) ==
  LET single(r) == [w |-> r.w, vs |-> <<r.v>>] IN
  CASE e.t = "lit" -> [w |-> w, vs |-> <<e.v>>]
    [] e.t = "name" -> single(NameValue(w, env, e.n))
    [] e.t = "vararg" -> [w |-> w, vs |-> w.loc[env["..."]].vs]
    [] e.t = "func" -> [w |-> [w EXCEPT !.fns = Append(@, [e |-> e, env |-> env])],
                        vs |-> <<[k |-> "fn", n |-> Len(w.fns) + 1]>>]
    [] e.t = "field" -> LET t == Val(w, env, e.e) IN single(Index(t.w, t.v, Str(e.n)))
    [] e.t = "not" -> LET x == Val(w, env, e.e) IN [w |-> x.w, vs |-> <<Bool(~Truthy(x.v))>>]
    [] e.t = "logic" ->
         LET l == Val(w, env, e.l) IN
         IF Truthy(l.v) = (e.op = "and") THEN single(Val(l.w, env, e.r)) ELSE single(l)
    [] e.t = "table" ->
         LET r == Values(w, env, e.es) IN
         [w |-> [r.w EXCEPT !.tabs =
                   Append(@, [key \in {Num(i) : i \in DOMAIN r.vs} |-> r.vs[key.n]])],
          vs |-> <<[k |-> "tab", n |-> Len(r.w.tabs) + 1]>>]
    [] e.t = "call" ->
         LET f == Val(w, env, e.f)
             args == Values(f.w, env, e.args) IN
         Apply(args.w, f.v, args.vs)
    [] e.t = "method" ->
         LET obj == Val(w, env, e.f)
             f == Index(obj.w, obj.v, Str(e.n))
             args == Values(f.w, env, e.args) IN
         Apply(args.w, f.v, <<obj.v>> \o args.vs)

Apply(w, f, args) ==
  LET c == w.fns[f.n]
      all == BindAll(w, c.env, c.e.ps, args)
      rest == SubSeq(args, Len(c.e.ps) + 1, Len(args))
      inside == IF c.e.va THEN [w |-> New(all.w, [k |-> "mv", vs |-> rest]),
                                env |-> ("..." :> Len(all.w.loc) + 1) @@ all.env]
                ELSE all
      done == Block(inside.w, c.e.body, <<>>, <<[env |-> inside.env, close |-> <<>>]>>) IN
  CASE w.err -> [w |-> w, vs |-> <<>>]
    [] ~w.err /\ f.k = "fn" -> [w |-> done.w, vs |-> done.vs]
    [] ~w.err /\ f.k = "host" ->
         (CASE f.n = "note" -> [w |-> Logged(w, <<"note", [i \in DOMAIN args |-> Visible(args[i])]>>), vs |-> <<>>]
            [] f.n = "ask" -> [w |-> Asked(w), vs |-> <<Bool(Answer(w))>>]
            [] f.n = "fresh" -> [w |-> Logged(w, <<"fresh">>), vs |-> <<Num(100 + Len(w.trace))>>]
            [] f.n = "step" -> [w |-> Asked(w), vs |-> IF Answer(w) THEN <<Num(w.used), Num(7)>> ELSE <<Nil>>]
            [] f.n = "co" -> Apply(w, args[1], Tail(args)))
    [] OTHER -> [w |-> Fail(w), vs |-> <<>>]

-----------------------------------------------------------------------------
(* Statements.  out says how a statement ends: "next", "break", "goto" (to l),  *)
(* or "return" (with vs); an error shows in w.  A statement may also change the *)
(* names in scope and open values that its block must close.                   *)

Went(w, out, l, vs) == [w |-> w, out |-> out, l |-> l, vs |-> vs]
On(w) == Went(w, "next", "", <<>>)
Leaves(r) == r.w.err \/ r.out # "next"

LabelsIn(body, l) == {i \in DOMAIN body : body[i].t = "label" /\ body[i].l = l}
AtEnd(body, i) == \A j \in i .. Len(body) : body[j].t = "label"

(* A block from its statement Len(ats) on; ats[j]: the names in scope and the  *)
(* values open before statement j.  until: the condition that a repeat          *)
(* evaluates in the scope of its body, or none.                               *)
Block(w, body, until, ats) ==
  LET i == Len(ats)
      at == ats[i]
      ran == Do1(w, at.env, body[i])
      r == ran.r
      inside == r.out = "goto" /\ ~r.w.err /\ LabelsIn(body, r.l) # {}
      to == CHOOSE j \in LabelsIn(body, r.l) : TRUE
      there == IF to <= i THEN ats[to] ELSE IF until = <<>> /\ AtEnd(body, to) THEN ats[1] ELSE at
      end == Values(w, at.env, until) IN
  IF i > Len(body) THEN Went(CloseValues(end.w, at.close), "next", "", end.vs)
  ELSE IF inside
  THEN Block(CloseValues(r.w, SubSeq(at.close, Len(there.close) + 1, Len(at.close))), body, until,
             [j \in 1 .. to |-> IF j <= i /\ j < to THEN ats[j] ELSE there])
  ELSE IF Leaves(r) THEN [r EXCEPT !.w = CloseValues(@, at.close)]
  ELSE Block(r.w, body, until, Append(ats, [env |-> ran.env, close |-> at.close \o ran.open]))

Start(env) == <<[env |-> env, close |-> <<>>]>>

(* One round of a loop after another: body gives how a round ends.              *)
RECURSIVE WhileLoop(_, _, _), RepeatLoop(_, _, _), NumLoop(_, _, _, _, _), GenLoop(_, _, _, _)
Broken(r) == IF ~r.w.err /\ r.out = "break" THEN On(r.w) ELSE r

WhileLoop(w, env, st) ==
  LET c == Val(w, env, st.e)
      r == Block(c.w, st.body, <<>>, Start(env)) IN
  IF c.w.err \/ ~Truthy(c.v) THEN On(c.w)
  ELSE IF Leaves(r) THEN Broken(r) ELSE WhileLoop(r.w, env, st)
RepeatLoop(w, env, st) ==
  LET r == Block(w, st.body, <<st.e>>, Start(env)) IN
  IF Leaves(r) THEN Broken(r)
  ELSE IF Truthy(r.vs[1]) THEN On(r.w) ELSE RepeatLoop(r.w, env, st)
NumLoop(w, env, st, i, last) ==
  LET named == BindAll(w, env, <<st.n>>, <<Num(i)>>)
      r == Block(named.w, st.body, <<>>, Start(named.env)) IN
  IF i > last THEN On(w)
  ELSE IF Leaves(r) THEN Broken(r) ELSE NumLoop(r.w, env, st, i + 1, last)
GenLoop(w, env, st, vs) ==
  LET got == Apply(w, vs[1], <<vs[2], vs[3]>>)
      named == BindAll(got.w, env, st.ns, got.vs)
      r == Block(named.w, st.body, <<>>, Start(named.env)) IN
  IF got.w.err \/ got.vs = <<>> \/ got.vs[1] = Nil THEN On(got.w)
  ELSE IF Leaves(r) THEN Broken(r) ELSE GenLoop(r.w, env, st, [vs EXCEPT ![3] = got.vs[1]])

MayClose(v) == ~Truthy(v) \/ v.k = "closable"

Assignment(w, env, ls, vs) ==
  LET target(v, l) == IF l.t = "field" THEN Val(v, env, l.e) ELSE [w |-> v, v |-> EnvTable(w, env)]
      v(i) == IF i <= Len(vs) THEN vs[i] ELSE Nil
      done[i \in 0 .. Len(ls)] ==
        LET before == done[i - 1]
            t == target(before, ls[i]) IN
        IF i = 0 THEN w
        ELSE IF ls[i].t = "name" /\ At(env, ls[i].n) # Global THEN [before EXCEPT !.loc[At(env, ls[i].n)] = v(i)]
        ELSE Assigned(t.w, t.v, Str(ls[i].n), v(i)) IN
  done[Len(ls)]

LocalStat(w, env, st) ==
  LET r == Values(w, env, st.es)
      named == BindAll(r.w, env, st.ns, r.vs)
      v == IF r.vs = <<>> THEN Nil ELSE r.vs[1] IN
  IF ~st.close THEN [r |-> On(named.w), env |-> named.env, open |-> <<>>]
  ELSE IF MayClose(v) THEN [r |-> On(named.w), env |-> named.env, open |-> <<v>>]
  ELSE [r |-> On(Fail(r.w)), env |-> env, open |-> <<>>]

ForIn(w, env, st) ==
  LET r == Values(w, env, st.es)
      vs == [i \in 1 .. 4 |-> IF i <= Len(r.vs) THEN r.vs[i] ELSE Nil]
      done == GenLoop(r.w, env, st, vs) IN
  IF ~MayClose(vs[4]) THEN On(Fail(r.w)) ELSE [done EXCEPT !.w = CloseValues(@, <<vs[4]>>)]

FunctionStat(w, env, st) ==
  LET named == IF st.local THEN BindAll(w, env, <<st.n>>, <<>>) ELSE [w |-> w, env |-> env]
      f == Val(named.w, named.env, st.f) IN
  [r |-> On(Assignment(f.w, named.env, <<Name(st.n)>>, <<f.v>>)), env |-> named.env, open |-> <<>>]

Do1(w, env, st) ==
  LET same(r) == [r |-> r, env |-> env, open |-> <<>>] IN
  CASE w.err -> same(On(w))
    [] ~w.err /\ st.t = "local" -> LocalStat(w, env, st)
    [] ~w.err /\ st.t = "function" -> FunctionStat(w, env, st)
    [] ~w.err /\ st.t = "global" -> [same(On(w)) EXCEPT !.env = [n \in Range(st.ns) |-> Global] @@ env]
    [] ~w.err /\ st.t = "label" -> same(On(w))
    [] ~w.err /\ st.t = "assign" ->
         LET r == Values(w, env, st.es) IN same(On(Assignment(r.w, env, st.ls, r.vs)))
    [] ~w.err /\ st.t = "callstat" -> same(On(Eval(w, env, st.e).w))
    [] ~w.err /\ st.t = "do" -> same(Block(w, st.body, <<>>, Start(env)))
    [] ~w.err /\ st.t = "if" ->
         LET c == Val(w, env, st.e) IN
         same(IF c.w.err THEN On(c.w)
              ELSE Block(c.w, IF Truthy(c.v) THEN st.body ELSE st.other, <<>>, Start(env)))
    [] ~w.err /\ st.t = "while" -> same(WhileLoop(w, env, st))
    [] ~w.err /\ st.t = "repeat" -> same(RepeatLoop(w, env, st))
    [] ~w.err /\ st.t = "numfor" ->
         LET r == Values(w, env, st.es) IN same(NumLoop(r.w, env, st, r.vs[1].n, r.vs[2].n))
    [] ~w.err /\ st.t = "genfor" -> same(ForIn(w, env, st))
    [] ~w.err /\ st.t = "return" ->
         LET r == Values(w, env, st.es) IN same(Went(r.w, "return", "", r.vs))
    [] ~w.err /\ st.t = "break" -> same(Went(w, "break", "", <<>>))
    [] ~w.err /\ st.t = "goto" -> same(Went(w, "goto", st.l, <<>>))

Meaning(chunk, answers) ==
  LET r == Block(World(answers), chunk, <<>>, Start("_ENV" :> 1)) IN
  [trace |-> r.w.trace, end |-> IF r.w.err THEN "error" ELSE "done", used |-> r.w.used]

-----------------------------------------------------------------------------
(* Which programs are legal.                                                 *)

Declaration(st) == st.t \in {"local", "global"} \/ (st.t = "function" /\ st.local)
Loops == {"while", "repeat", "numfor", "genfor"}

(* The labels that gotos of a block leave it for; "!" stands for a jump that is  *)
(* not allowed.  A jump may not enter the scope of a declaration, which ends     *)
(* before labels at the end of a block, unless an until follows.                *)
RECURSIVE Escapes(_, _), Breaks(_)
StatEscapes(st) ==
  CASE st.t = "goto" -> {st.l}
    [] st.t \in Loops \cup {"do"} -> Escapes(st.body, st.t = "repeat")
    [] st.t = "if" -> Escapes(st.body, FALSE) \cup Escapes(st.other, FALSE)
    [] OTHER -> {}
MayJump(body, i, j, repeat) ==
  (~repeat /\ AtEnd(body, j)) \/ ~\E d \in i + 1 .. j - 1 : Declaration(body[d])
Escapes(body, repeat) ==
  UNION {{IF LabelsIn(body, l) = {} THEN l ELSE "!" : l \in
            {x \in StatEscapes(body[i]) : LabelsIn(body, x) = {}
               \/ ~MayJump(body, i, CHOOSE j \in LabelsIn(body, x) : TRUE, repeat)}} : i \in DOMAIN body}

Breaks(body) ==
  \E i \in DOMAIN body : CASE body[i].t = "break" -> TRUE
                           [] body[i].t = "do" -> Breaks(body[i].body)
                           [] body[i].t = "if" -> Breaks(body[i].body) \/ Breaks(body[i].other)
                           [] OTHER -> FALSE

(* Labels that a block sees twice.                                            *)
RECURSIVE Repeats(_, _)
Repeats(body, seen) ==
  \E i \in DOMAIN body :
    LET before == seen \cup {body[j].l : j \in {k \in 1 .. i - 1 : body[k].t = "label"}} IN
    CASE body[i].t = "label" -> body[i].l \in before
      [] body[i].t \in Loops \cup {"do"} -> Repeats(body[i].body, before)
      [] body[i].t = "if" -> Repeats(body[i].body, before) \/ Repeats(body[i].other, before)
      [] OTHER -> FALSE

(* Names: once a declaration of globals is in scope, every name needs one; the   *)
(* variable that controls a loop and a variable to be closed are not assigned.   *)
RECURSIVE NamesOk(_, _), StatOk(_, _), ExprOk(_, _), FunctionOk(_, _)
Knows(c, names) == [c EXCEPT !.names = @ \cup Range(names), !.fixed = @ \ Range(names)]
Fixes(c, names) == [Knows(c, names) EXCEPT !.fixed = @ \cup Range(names)]
Assignable(e, c) == e.t = "name" => e.n \notin c.fixed
ExprOk(e, c) ==
  CASE e.t = "name" -> c.open \/ e.n \in c.names
    [] e.t = "func" -> FunctionOk(e, c)
    [] e.t \in {"call", "method"} -> ExprOk(e.f, c) /\ \A i \in DOMAIN e.args : ExprOk(e.args[i], c)
    [] e.t \in {"field", "not"} -> ExprOk(e.e, c)
    [] e.t = "logic" -> ExprOk(e.l, c) /\ ExprOk(e.r, c)
    [] e.t = "table" -> \A i \in DOMAIN e.es : ExprOk(e.es[i], c)
    [] OTHER -> TRUE
AllOk(es, c) == \A i \in DOMAIN es : ExprOk(es[i], c)

After(st, c) ==
  CASE st.t = "local" -> IF st.close THEN Fixes(c, st.ns) ELSE Knows(c, st.ns)
    [] st.t = "global" -> IF st.all THEN [c EXCEPT !.open = TRUE] ELSE [Knows(c, st.ns) EXCEPT !.open = FALSE]
    [] st.t = "function" /\ st.local -> Knows(c, <<st.n>>)
    [] OTHER -> c
StatOk(st, c) ==
  CASE st.t \in {"local", "return"} -> AllOk(st.es, c)
    [] st.t = "assign" -> AllOk(st.ls \o st.es, c) /\ \A i \in DOMAIN st.ls : Assignable(st.ls[i], c)
    [] st.t = "callstat" -> ExprOk(st.e, c)
    [] st.t = "do" -> NamesOk(st.body, c)
    [] st.t = "while" -> ExprOk(st.e, c) /\ NamesOk(st.body, c)
    [] st.t = "if" -> ExprOk(st.e, c) /\ NamesOk(st.body, c) /\ NamesOk(st.other, c)
    [] st.t = "repeat" -> NamesOk(Append(st.body, CallStat(CallOf(st.e, <<>>))), c)
    [] st.t = "numfor" -> AllOk(st.es, c) /\ NamesOk(st.body, Fixes(c, <<st.n>>))
    [] st.t = "genfor" ->
         AllOk(st.es, c) /\ NamesOk(st.body, Knows(Fixes(c, <<Head(st.ns)>>), Tail(st.ns)))
    [] st.t = "function" -> StatOk(Assign(<<Name(st.n)>>, <<st.f>>), After(st, c))
    [] OTHER -> TRUE
NamesOk(body, c) ==
  body = <<>> \/ (StatOk(Head(body), c) /\ NamesOk(Tail(body), After(Head(body), c)))

FlowOk(body) == Escapes(body, FALSE) = {} /\ ~Breaks(body) /\ ~Repeats(body, {})
FunctionOk(e, c) == FlowOk(e.body) /\ NamesOk(e.body, Knows(c, e.ps))
Legal(chunk) == FlowOk(chunk) /\ NamesOk(chunk, [names |-> {"_ENV"}, open |-> TRUE, fixed |-> {}])

=============================================================================

----------------------------- MODULE LuaPucManual -----------------------------
(***************************************************************************)
(* What PUC-Lua's own machine does with a binary chunk: registers of a frame   *)
(* are locations, closures share them until they are closed, open results lie   *)
(* on the stack up to top, and values to close are known by their register.    *)
(* Behaves gives the trace and the end of a chunk for given answers.           *)
(***************************************************************************)
EXTENDS LuaSyntax, FiniteSets, TLC
LOCAL INSTANCE SequencesExt

MaxStack == 20
HostNames == {"note", "ask", "fresh", "step", "co"}

NewStack(w) == [r \in 0 .. MaxStack |-> Len(w.loc) + r + 1]
Activation(w, f, args, dest, want) ==
  LET p == w.fns[f].proto
      v(r) == IF r < p.params /\ r < Len(args) THEN args[r + 1] ELSE Nil IN
  [w EXCEPT !.loc = @ \o [i \in 1 .. MaxStack + 1 |-> v(i - 1)],
            !.frames = Append(@, [fn |-> f, pc |-> 0, slot |-> NewStack(w), tbc |-> <<>>, top |-> 0,
                                  dest |-> dest, want |-> want,
                                  va |-> SubSeq(args, p.params + 1, Len(args))])]

Frame(w) == w.frames[Len(w.frames)]
Rd(w, r) == w.loc[Frame(w).slot[r]]
Wr(w, r, v) == [w EXCEPT !.loc[Frame(w).slot[r]] = v]
WrAll(w, r, vs) ==
  LET done[i \in 0 .. Len(vs)] == IF i = 0 THEN w ELSE LET before == done[i - 1] IN Wr(before, r + i - 1, vs[i]) IN
  done[Len(vs)]
Stack(w, from, n) == [i \in 1 .. n |-> Rd(w, from + i - 1)]
Jump_(w, n) == [w EXCEPT !.frames[Len(w.frames)].pc = @ + n]

Give(w, dest, want, vs) ==
  IF want = -1 THEN [WrAll(w, dest, vs) EXCEPT !.frames[Len(w.frames)].top = dest + Len(vs)]
  ELSE WrAll(w, dest, [i \in 1 .. want |-> IF i <= Len(vs) THEN vs[i] ELSE Nil])

Noted(vs) == [i \in DOMAIN vs |-> IF vs[i].k \in {"fn", "tab"} THEN [vs[i] EXCEPT !.n = 0] ELSE vs[i]]
EventsOf(tbc) == [i \in DOMAIN tbc |-> <<"close", tbc[Len(tbc) + 1 - i].v.n>>]

(* Close what is at reg and above: the registers part from the closures.        *)
CloseFrom(w, reg) ==
  LET f == Frame(w)
      dying == SelectSeq(f.tbc, LAMBDA x : x.reg >= reg)
      kept == SelectSeq(f.tbc, LAMBDA x : x.reg < reg)
      fresh == NewStack(w) IN
  [w EXCEPT !.trace = @ \o EventsOf(dying),
            !.loc = @ \o [i \in 1 .. MaxStack + 1 |-> Rd(w, i - 1)],
            !.frames[Len(w.frames)].tbc = kept,
            !.frames[Len(w.frames)].slot = [r \in DOMAIN @ |-> IF r >= reg THEN fresh[r] ELSE @[r]]]

Fails(w) ==
  LET closed[i \in 0 .. Len(w.frames)] == IF i = 0 THEN <<>> ELSE EventsOf(w.frames[i].tbc) \o closed[i - 1] IN
  [w EXCEPT !.trace = @ \o closed[Len(w.frames)], !.frames = <<>>, !.end = "error"]

Returns(w, vs) ==
  LET f == Frame(w)
      below == [w EXCEPT !.frames = Front(@)] IN
  IF below.frames = <<>> THEN [below EXCEPT !.end = "done"] ELSE Give(below, f.dest, f.want, vs)

Open(w, v, reg) ==
  IF ~Truthy(v) THEN w
  ELSE IF v.k = "closable" THEN [w EXCEPT !.frames[Len(w.frames)].tbc = Append(@, [reg |-> reg, v |-> v])]
  ELSE Fails(w)

Hosted(w, name, args, dest, want, tail) ==
  LET yes == w.used < Len(w.answers) /\ w.answers[w.used + 1]
      out(u, vs) == IF tail THEN Returns(u, vs) ELSE Give(u, dest, want, vs) IN
  CASE name = "note" -> out([w EXCEPT !.trace = Append(@, <<"note", Noted(args)>>)], <<>>)
    [] name = "ask" -> out([w EXCEPT !.used = @ + 1], <<Bool(yes)>>)
    [] name = "fresh" -> out([w EXCEPT !.trace = Append(@, <<"fresh">>)], <<Num(100 + Len(w.trace))>>)
    [] name = "step" -> out([w EXCEPT !.used = @ + 1], IF yes THEN <<Num(w.used), Num(7)>> ELSE <<Nil>>)

Calls(w, f, args, dest, want, tail) ==
  CASE f.k = "fn" -> IF tail THEN Activation([w EXCEPT !.frames = Front(@)], f.n, args, Frame(w).dest, Frame(w).want)
                     ELSE Activation(w, f.n, args, dest, want)
    [] f.k = "host" -> Hosted(w, f.n, args, dest, want, tail)
    [] OTHER -> Fails(w)

-----------------------------------------------------------------------------

TableAt(w, t, key) == IF key \in DOMAIN w.tabs[t.n] THEN w.tabs[t.n][key] ELSE Nil
Fetched(w, a, t, key) == IF t.k = "tab" THEN Wr(w, a, TableAt(w, t, key)) ELSE Fails(w)
Stored(w, t, key, v) == IF t.k = "tab" THEN [w EXCEPT !.tabs[t.n] = (key :> v) @@ @] ELSE Fails(w)

Sum(w, a, x, y) == IF x.k = "num" /\ y.k = "num" THEN Wr(w, a, Num(x.n + y.n)) ELSE Fails(w)
Less(w, i, op, x, y) ==       \* the jump that follows is taken if the outcome is that of k
  LET holds == CASE op = "eq" -> x = y [] op = "lt" -> x.n < y.n [] op = "le" -> x.n <= y.n IN
  IF op # "eq" /\ (x.k # "num" \/ y.k # "num") THEN Fails(w)
  ELSE Jump_(w, IF holds = (i.k = 1) THEN 0 ELSE 1)

RECURSIVE Concatenated(_)
Concatenated(vs) ==
  IF Len(vs) = 1 THEN vs[1] ELSE [k |-> "cat", l |-> vs[1], r |-> Concatenated(Tail(vs))]

Upvalue(w, n) == w.fns[Frame(w).fn].up[n + 1]

Closed_(w, proto) ==
  LET up(u) == IF u.kind = "local" THEN Frame(w).slot[u.index] ELSE w.fns[Frame(w).fn].up[u.index] IN
  [w EXCEPT !.fns = Append(@, [proto |-> proto, up |-> [i \in DOMAIN proto.up |-> up(proto.up[i])]])]

(* The effect of instruction i at w, which is already behind it.                *)
Effect(w, i, src) ==
  LET K(n) == src.consts[n + 1]
      a == Rd(w, i.a)
      rkc == IF i.k = 1 THEN K(i.c) ELSE Rd(w, i.c)
      upto == IF i.b = 0 THEN Frame(w).top - i.a - 1 ELSE i.b - 1
      up(n) == w.loc[Upvalue(w, n)]
      made == [w EXCEPT !.tabs = Append(@, <<>>)] IN
  CASE i.op = "MOVE" -> Wr(w, i.a, Rd(w, i.b))
    [] i.op = "LOADI" -> Wr(w, i.a, Num(i.b))
    [] i.op = "LOADK" -> Wr(w, i.a, K(i.b))
    [] i.op = "LOADKX" -> Wr(Jump_(w, 1), i.a, K(src.code[Frame(w).pc + 1].b))
    [] i.op = "LOADFALSE" -> Wr(w, i.a, Bool(FALSE))
    [] i.op = "LFALSESKIP" -> Wr(Jump_(w, 1), i.a, Bool(FALSE))
    [] i.op = "LOADTRUE" -> Wr(w, i.a, Bool(TRUE))
    [] i.op = "LOADNIL" -> WrAll(w, i.a, [j \in 1 .. i.b + 1 |-> Nil])
    [] i.op = "GETUPVAL" -> Wr(w, i.a, up(i.b))
    [] i.op = "SETUPVAL" -> [w EXCEPT !.loc[Upvalue(w, i.b)] = a]
    [] i.op = "GETTABUP" -> Fetched(w, i.a, up(i.b), K(i.c))
    [] i.op = "GETTABLE" -> Fetched(w, i.a, Rd(w, i.b), Rd(w, i.c))
    [] i.op = "GETI" -> Fetched(w, i.a, Rd(w, i.b), Num(i.c))
    [] i.op = "GETFIELD" -> Fetched(w, i.a, Rd(w, i.b), K(i.c))
    [] i.op = "SETTABUP" -> Stored(w, up(i.a), K(i.b), rkc)
    [] i.op = "SETTABLE" -> Stored(w, a, Rd(w, i.b), rkc)
    [] i.op = "SETI" -> Stored(w, a, Num(i.b), rkc)
    [] i.op = "SETFIELD" -> Stored(w, a, K(i.b), rkc)
    [] i.op = "NEWTABLE" -> Wr(Jump_(made, 1), i.a, [k |-> "tab", n |-> Len(made.tabs)])
    [] i.op = "SELF" -> Fetched(Wr(w, i.a + 1, Rd(w, i.b)), i.a, Rd(w, i.b), K(i.c))
    [] i.op = "ADDI" -> Jump_(Sum(w, i.a, Rd(w, i.b), Num(i.c)), 1)
    [] i.op = "ADDK" -> Jump_(Sum(w, i.a, Rd(w, i.b), K(i.c)), 1)
    [] i.op = "ADD" -> Jump_(Sum(w, i.a, Rd(w, i.b), Rd(w, i.c)), 1)
    [] i.op = "UNM" -> IF Rd(w, i.b).k = "num" THEN Wr(w, i.a, Num(-Rd(w, i.b).n)) ELSE Fails(w)
    [] i.op = "NOT" -> Wr(w, i.a, Bool(~Truthy(Rd(w, i.b))))
    [] i.op = "LEN" -> IF Rd(w, i.b).k # "tab" THEN Fails(w)
                       ELSE Wr(w, i.a, Num(Cardinality({x \in DOMAIN w.tabs[Rd(w, i.b).n] : x.k = "num"})))
    [] i.op = "CONCAT" -> IF \A v \in Range(Stack(w, i.a, i.b)) : v.k \in {"num", "cat"}
                          THEN Wr(w, i.a, Concatenated(Stack(w, i.a, i.b))) ELSE Fails(w)
    [] i.op = "CLOSE" -> CloseFrom(w, i.a)
    [] i.op = "TBC" -> Open(w, a, i.a)
    [] i.op = "JMP" -> Jump_(w, i.b)
    [] i.op = "EQ" -> Less(w, i, "eq", a, Rd(w, i.b))
    [] i.op = "LT" -> Less(w, i, "lt", a, Rd(w, i.b))
    [] i.op = "LE" -> Less(w, i, "le", a, Rd(w, i.b))
    [] i.op = "EQK" -> Less(w, i, "eq", a, K(i.b))
    [] i.op = "EQI" -> Less(w, i, "eq", a, Num(i.b))
    [] i.op = "LTI" -> Less(w, i, "lt", a, Num(i.b))
    [] i.op = "LEI" -> Less(w, i, "le", a, Num(i.b))
    [] i.op = "GTI" -> Less(w, i, "lt", Num(i.b), a)
    [] i.op = "GEI" -> Less(w, i, "le", Num(i.b), a)
    [] i.op = "TEST" -> Jump_(w, IF Truthy(a) = (i.k = 1) THEN 0 ELSE 1)
    [] i.op = "TESTSET" -> IF Truthy(Rd(w, i.b)) = (i.k = 1) THEN Wr(w, i.a, Rd(w, i.b)) ELSE Jump_(w, 1)
    [] i.op = "CALL" -> Calls(w, a, Stack(w, i.a + 1, upto), i.a, i.c - 1, FALSE)
    [] i.op = "TAILCALL" -> LET u == IF i.k = 1 THEN CloseFrom(w, 0) ELSE w IN
                            Calls(u, a, Stack(w, i.a + 1, upto), 0, -1, TRUE)
    [] i.op = "RETURN" -> LET vs == Stack(w, i.a, IF i.b = 0 THEN upto + 1 ELSE i.b - 1) IN
                          Returns(IF i.k = 1 THEN CloseFrom(w, 0) ELSE w, vs)
    [] i.op = "RETURN0" -> Returns(w, <<>>)
    [] i.op = "RETURN1" -> Returns(w, <<a>>)
    [] i.op = "FORPREP" ->
         LET from == a.n
             to == Rd(w, i.a + 1).n IN
         IF a.k # "num" \/ Rd(w, i.a + 1).k # "num" THEN Fails(w)
         ELSE IF from > to THEN Jump_(w, i.b + 1)
         ELSE WrAll(w, i.a, <<Num(to - from), Num(1), Num(from)>>)
    [] i.op = "FORLOOP" ->
         IF a.n = 0 THEN w
         ELSE Jump_(WrAll(w, i.a, <<Num(a.n - 1), Num(1), Num(Rd(w, i.a + 2).n + 1)>>), -i.b)
    [] i.op = "TFORPREP" ->
         Open(Jump_(WrAll(w, i.a + 2, <<Rd(w, i.a + 3), Rd(w, i.a + 2)>>), i.b), Rd(w, i.a + 3), i.a + 2)
    [] i.op = "TFORCALL" -> Calls(w, a, <<Rd(w, i.a + 1), Rd(w, i.a + 3)>>, i.a + 3, i.c, FALSE)
    [] i.op = "TFORLOOP" -> IF Rd(w, i.a + 3) = Nil THEN w ELSE Jump_(w, -i.b)
    [] i.op = "SETLIST" ->
         LET n == IF i.b = 0 THEN Frame(w).top - i.a - 1 ELSE i.b IN
         [w EXCEPT !.tabs[a.n] = [key \in {Num(i.c + j) : j \in 1 .. n} |-> Rd(w, i.a + key.n - i.c)] @@ @]
    [] i.op = "CLOSURE" -> Wr(Closed_(w, src.children[i.b + 1]), i.a, [k |-> "fn", n |-> Len(w.fns) + 1])
    [] i.op = "VARARG" -> Give(w, i.a, i.c - 1, Frame(w).va)
    [] i.op = "GETVARG" ->
         LET key == Rd(w, i.c) IN
         Wr(w, i.a, CASE key = Str("n") -> Num(Len(Frame(w).va))
                      [] key.k = "num" /\ key.n \in DOMAIN Frame(w).va -> Frame(w).va[key.n]
                      [] OTHER -> Nil)
    [] i.op = "ERRNNIL" -> IF a = Nil THEN w ELSE Fails(w)
    [] i.op = "VARARGPREP" -> w

RECURSIVE Finish(_)
Finish(w) ==
  LET src == w.fns[Frame(w).fn].proto IN
  IF w.end # "run" THEN w ELSE Finish(Effect(Jump_(w, 1), src.code[Frame(w).pc + 1], src))

Behaves(function, answers) ==
  LET start == [loc |-> <<[k |-> "tab", n |-> 1]>>, tabs |-> <<[key \in {Str(h) : h \in HostNames} |-> Host(key.n)]>>,
                fns |-> <<[proto |-> function, up |-> <<1>>]>>, frames |-> <<>>,
                answers |-> answers, used |-> 0, trace |-> <<>>, end |-> "run"]
      w == Finish(Activation(start, 1, <<Num(1), Num(2)>>, 0, -1)) IN
  [trace |-> w.trace, end |-> w.end, used |-> w.used]

=============================================================================

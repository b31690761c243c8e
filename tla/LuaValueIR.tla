----------------------------- MODULE LuaValueIR -----------------------------
(***************************************************************************)
(* The graph of values a typed function is compiled to: value numbering with   *)
(* folding and reuse of expressions, the analysis of integer ranges it asks,   *)
(* and the compilation of straight-line functions, which inlines calls of       *)
(* known leaf functions.  A graph remembers in "at" the value looked up last.   *)
(* A register that holds a function known while compiling holds minus its        *)
(* number instead of a value.                                                  *)
(***************************************************************************)
EXTENDS LuaScalars, TLC
LOCAL INSTANCE SequencesExt

Argument(k, type) == [kind |-> "argument", type |-> type, op |-> "", args |-> <<>>, value |-> Integer(k),
                      from |-> <<>>, pc |-> 0, exact |-> FALSE]
Constant(k, x) == [Argument(k, x.t) EXCEPT !.kind = "constant"]
Literal(x) == [Argument(0, x.t) EXCEPT !.kind = "literal", !.value = x]
Expression(op, args, type, pc, exact) ==
  [kind |-> "expression", type |-> type, op |-> op, args |-> args, value |-> Nil,
   from |-> <<>>, pc |-> pc, exact |-> exact]

Key(n) == <<n.kind, n.type, n.op, n.args, n.value>>
EmptyGraph == [nodes |-> <<>>, interned |-> {}, folded |-> {}, reused |-> {}, at |-> 0]

Known(g, n) == {k \in g.interned : Key(g.nodes[k]) = Key(n)}
NewNode(g, n) == [g EXCEPT !.nodes = Append(@, n), !.at = Len(g.nodes) + 1]
AddNode(g, n) == [NewNode(g, n) EXCEPT !.interned = @ \union {Len(g.nodes) + 1}]
Intern(g, n) == IF Known(g, n) = {} THEN AddNode(g, n) ELSE [g EXCEPT !.at = CHOOSE k \in Known(g, n) : TRUE]

(* What is known of a value while compiling: a set of at most one value.       *)
KnownValue(g, p, k) ==
  CASE g.nodes[k].kind = "literal" -> {g.nodes[k].value}
    [] g.nodes[k].kind = "constant" -> {p.constants[g.nodes[k].value.v]}
    [] OTHER -> {}

FoldBinary(op, x, y) ==
  CASE op \in IntBinops -> IF x.t = "integer" /\ y.t = "integer" THEN {Integer(Wrap(Arith(op, x.v, y.v)))} ELSE {}
    [] op \in FloatBinops -> IF IsNumber(x) /\ IsNumber(y) THEN {Float(Arith(op, x.v, y.v))} ELSE {}
    [] op = "EQ" -> {Bool(LuaEqual(x, y))}
    [] op \in {"LT", "LE"} -> IF IsNumber(x) /\ IsNumber(y) THEN {Bool(Less(op, x, y))} ELSE {}

Foldings(op, xs, ys) == UNION {FoldBinary(op, x, y) : x \in xs, y \in ys}
FoldedUnary(op, xs) == {Bool(Truthy(x) = (op = "TOBOOL")) : x \in xs}

Folded(g, pc, values) == [Intern(g, Literal(CHOOSE x \in values : TRUE)) EXCEPT !.folded = @ \union {pc}]
Shared(g, pc, n) ==
  IF Known(g, n) = {} THEN AddNode(g, n) ELSE [Intern(g, n) EXCEPT !.reused = @ \union {pc}]
FoldOrShare(g, pc, values, n) == IF values # {} THEN Folded(g, pc, values) ELSE Shared(g, pc, n)

BinaryNode(g, p, pc, op, l, r, type, exact) ==
  FoldOrShare(g, pc, Foldings(op, KnownValue(g, p, l), KnownValue(g, p, r)),
              Expression(op, <<l, r>>, type, pc, exact))
UnaryNode(g, p, pc, op, k) ==
  FoldOrShare(g, pc, FoldedUnary(op, KnownValue(g, p, k)), Expression(op, <<k>>, "boolean", pc, FALSE))

-----------------------------------------------------------------------------
(* The integer ranges: literals and parameters, carried along one block only.  *)

Everything == [lo |-> MinInt, hi |-> MaxInt]
Unknown == [lo |-> 1, hi |-> 0]
IsRange(r) == r.lo <= r.hi
Least(S) == CHOOSE n \in S : \A m \in S : n <= m
Most(S) == CHOOSE n \in S : \A m \in S : n >= m
RangeResult(op, x, y) ==
  LET ends == {Arith(op, m, n) : m \in {x.lo, x.hi}, n \in {y.lo, y.hi}} IN [lo |-> Least(ends), hi |-> Most(ends)]
FitsWidth(r) == r.lo >= MinInt /\ r.hi <= MaxInt

MergePoints(p) ==
  UNION {IF p.code[pc].op \in Control THEN {p.code[pc].a, pc + 1}
         ELSE IF p.code[pc].op \in Terminal THEN {pc + 1} ELSE {} : pc \in 1 .. Len(p.code)}

NoRanges(p) == [r \in 1 .. p.registers |-> Unknown]
ParamRanges(p) ==
  [r \in 1 .. p.registers |-> IF r <= Len(p.params) /\ p.params[r] = "integer" THEN Everything ELSE Unknown]

RangeAfter(p, ranges, i) ==
  LET known == IsRange(ranges[i.b]) /\ IsRange(ranges[i.c])
      result == RangeResult(i.op, ranges[i.b], ranges[i.c]) IN
  CASE i.op = "LOADK" -> [ranges EXCEPT ![i.a] = IF p.constants[i.b].t = "integer"
                                                THEN [lo |-> p.constants[i.b].v, hi |-> p.constants[i.b].v] ELSE Unknown]
    [] i.op \in Copies -> [ranges EXCEPT ![i.a] = ranges[i.b]]
    [] i.op \in IntBinops -> [ranges EXCEPT ![i.a] = IF ~known THEN Unknown ELSE IF FitsWidth(result) THEN result ELSE Everything]
    [] OTHER -> [r \in DOMAIN ranges |-> IF r \in Writes(i) THEN Unknown ELSE ranges[r]]

(* The instructions whose result cannot leave the width: promised or proved.   *)
OverflowFree(p) ==
  LET merges == MergePoints(p)
      entering(pc, ranges) == IF pc \in merges THEN NoRanges(p) ELSE ranges
      ranges[pc \in 1 .. Len(p.code)] ==
        entering(pc, IF pc = 1 THEN ParamRanges(p) ELSE RangeAfter(p, ranges[pc - 1], p.code[pc - 1]))
      proved(i, at) == /\ i.op \in IntBinops /\ IsRange(at[i.b]) /\ IsRange(at[i.c])
                       /\ FitsWidth(RangeResult(i.op, at[i.b], at[i.c])) IN
  p.fast \union {pc \in 1 .. Len(p.code) : proved(p.code[pc], ranges[pc])}

-----------------------------------------------------------------------------
(* One instruction of a state [ok, graph, regs]: shared by both compilers.     *)

Failed(s) == [s EXCEPT !.ok = FALSE]
Types(s, i) == <<s.graph.nodes[s.regs[i.b]].type, s.graph.nodes[s.regs[i.c]].type>>
Numeric == {"integer", "float", "number"}
Scalars == {"nil", "boolean", "integer", "float", "number"}

Operands(i) == IF i.op \in BoolUnary THEN {i.b} ELSE {i.b, i.c}
Admitted(op, types) ==
  CASE op \in IntBinops -> types = <<"integer", "integer">>
    [] op \in FloatBinops \union {"LT", "LE"} -> types[1] \in Numeric /\ types[2] \in Numeric
    [] op = "EQ" -> types[1] \in Scalars /\ types[2] \in Scalars
ResultType(op) == CASE op \in IntBinops -> "integer" [] op \in FloatBinops -> "float" [] OTHER -> "boolean"

Put(s, r, graph) == [s EXCEPT !.graph = graph, !.regs[r] = graph.at]

PureInstruction(s, p, free, pc, i) ==
  CASE i.op = "LOADK" -> Put(s, i.a, Intern(s.graph, Constant(i.b, p.constants[i.b])))
    [] i.op \in Copies -> [s EXCEPT !.regs[i.a] = s.regs[i.b]]
    [] i.op \in BoolUnary \union Binary /\ (\E r \in Operands(i) : s.regs[r] < 0) -> Failed(s)
    [] i.op \in BoolUnary -> Put(s, i.a, UnaryNode(s.graph, p, pc, i.op, s.regs[i.b]))
    [] i.op \in Binary /\ ~Admitted(i.op, Types(s, i)) -> Failed(s)
    [] i.op \in Binary -> Put(s, i.a, BinaryNode(s.graph, p, pc, i.op, s.regs[i.b], s.regs[i.c], ResultType(i.op), pc \in free))
    [] OTHER -> Failed(s)

InitialState(p) ==
  LET enter(s, k) == Put(s, k, Intern(s.graph, Argument(k, p.params[k])))
      start == Intern(EmptyGraph, Literal(Nil)) IN
  FoldLeft(enter, [ok |-> "Any" \notin {p.params[k] : k \in 1 .. Len(p.params)}, graph |-> start,
                   regs |-> [r \in 1 .. p.registers |-> start.at]], [k \in 1 .. Len(p.params) |-> k])

-----------------------------------------------------------------------------
(* Straight-line functions.                                                   *)

NoPlan == [form |-> "none"]

(* The code up to the first return: what follows it is never reached.          *)
Terminals(p) == {pc \in 1 .. Len(p.code) : p.code[pc].op \in Terminal}
ReachablePrefix(p) == [p EXCEPT !.code = SubSeq(@, 1, Least(Terminals(p)))]

MarkLive(nodes, roots) ==
  LET more(live) == live \union UNION {{nodes[k].args[a] : a \in 1 .. Len(nodes[k].args)} : k \in live}
      live[n \in 0 .. Len(nodes)] == IF n = 0 THEN roots ELSE more(live[n - 1]) IN live[Len(nodes)]

(* The child's graph is built again, over the values of the arguments.         *)
CloneChild(g, p, pc, child, plan, args) ==
  LET clone(s, k) ==
        LET n == plan.nodes[k]
            graph == CASE n.kind = "argument" -> [s.graph EXCEPT !.at = args[n.value.v]]
                       [] n.kind = "constant" -> Intern(s.graph, Literal(child.constants[n.value.v]))
                       [] n.kind = "literal" -> Intern(s.graph, n)
                       [] Len(n.args) = 1 -> UnaryNode(s.graph, p, pc, n.op, s.map[n.args[1]])
                       [] OTHER -> BinaryNode(s.graph, p, pc, n.op, s.map[n.args[1]], s.map[n.args[2]], n.type, FALSE)
        IN [graph |-> graph, map |-> Append(s.map, graph.at)]
      done == FoldLeft(clone, [graph |-> g, map |-> <<>>], [k \in 1 .. Len(plan.nodes) |-> k]) IN
  [graph |-> done.graph, returns |-> [k \in 1 .. Len(plan.returns) |-> done.map[plan.returns[k]]]]

Accepts(expected, actual) == expected = actual \/ (expected = "number" /\ actual \in Numeric)

(* The results of an inlined call go to its registers, nil to those left.      *)
Inlined(s, i, child, cloned) ==
  LET graph == Intern(cloned.graph, Literal(Nil))
      result(k) == IF k < Len(cloned.returns) THEN cloned.returns[k + 1] ELSE graph.at IN
  [s EXCEPT !.graph = graph, !.calls = @ + 1, !.extra = @ + child.cost,
            !.regs = [r \in DOMAIN @ |-> IF r \in Writes(i) THEN result(r - i.a) ELSE @[r]]]

InlineInto(s, p, pc, i, child, plan) ==
  LET args == [k \in 1 .. i.d |-> s.regs[i.c + k - 1]] IN
  IF \/ plan.form = "none"
     \/ plan.calls > 0
     \/ i.d # Len(child.params)
     \/ \E k \in 1 .. i.d : args[k] < 0
     \/ \E k \in 1 .. i.d : ~Accepts(child.params[k], s.graph.nodes[args[k]].type)
  THEN Failed(s)
  ELSE Inlined(s, i, plan, CloneChild(s.graph, p, pc, child, plan, args))

IsLeaf(child) == child.traits = {"typed"} /\ child.children = <<>>

RECURSIVE CompileStraight(_)
CompileStraight(whole) ==
  LET p == ReachablePrefix(whole)
      free == OverflowFree(p)
      closure(s, i) == IF p.children[i.b].traits \intersect {"vararg", "captures"} # {} THEN Failed(s)
                       ELSE [s EXCEPT !.regs[i.a] = -i.b]
      child(s, i) == p.children[-s.regs[i.b]]
      call(s, pc, i) == IF s.regs[i.b] >= 0 \/ ~IsLeaf(child(s, i)) THEN Failed(s)
                        ELSE InlineInto(s, p, pc, i, ReachablePrefix(child(s, i)), CompileStraight(child(s, i)))
      one(s, pc) == CASE ~s.ok -> s
                      [] p.code[pc].op = "CLOSURE" -> closure(s, p.code[pc])
                      [] p.code[pc].op = "CALL" -> call(s, pc, p.code[pc])
                      [] OTHER -> PureInstruction(s, p, free, pc, p.code[pc])
      last == p.code[Len(p.code)]
      end == FoldLeft(one, InitialState(p) @@ [calls |-> 0, extra |-> 0], [pc \in 1 .. Len(p.code) - 1 |-> pc])
      returns == [k \in 1 .. (IF last.op = "HALT" THEN 0 ELSE last.b) |-> end.regs[last.a + k - 1]] IN
  IF Terminals(whole) = {} \/ ~end.ok \/ (\E k \in 1 .. Len(returns) : returns[k] < 0) THEN NoPlan
  ELSE [form |-> "straight", nodes |-> end.graph.nodes, returns |-> returns, calls |-> end.calls,
        cost |-> Len(p.code) + end.extra, folded |-> end.graph.folded, reused |-> end.graph.reused,
        live |-> MarkLive(end.graph.nodes, {returns[k] : k \in 1 .. Len(returns)})]
=============================================================================

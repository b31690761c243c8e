----------------------------- MODULE LuaScalars -----------------------------
(***************************************************************************)
(* The scalar part of the bytecode, and the interpreter of it: what a fully    *)
(* typed function may consist of when its compiler is to turn it into a graph  *)
(* of values.  Registers, constants and instructions are numbered from one; a  *)
(* float is an integral one.  Fast instructions are those whose operands were  *)
(* declared integer: the program promises that they stay within the width.     *)
(***************************************************************************)
EXTENDS Integers, Sequences, FiniteSets

CONSTANT Width      \* the bits of an integer (64)
ASSUME WidthAssumption == Width \in Nat \ {0}

MinInt == -(2 ^ (Width - 1))
MaxInt == 2 ^ (Width - 1) - 1
Wrap(n) == ((n - MinInt) % (2 ^ Width)) + MinInt

Nil == [t |-> "nil", v |-> 0]
Bool(b) == [t |-> "boolean", v |-> IF b THEN 1 ELSE 0]
Integer(n) == [t |-> "integer", v |-> n]
Float(n) == [t |-> "float", v |-> n]
Function(k) == [t |-> "function", v |-> k]

Truthy(x) == x \notin {Nil, Bool(FALSE)}
IsNumber(x) == x.t \in {"integer", "float"}
LuaEqual(x, y) == IF IsNumber(x) /\ IsNumber(y) THEN x.v = y.v ELSE x = y

IntBinops == {"ADD_I", "SUB_I", "MUL_I"}
FloatBinops == {"ADD_F", "SUB_F", "MUL_F"}
BoolUnary == {"NOT", "TOBOOL"}
CompareOps == {"EQ", "LT", "LE"}
Binary == IntBinops \union FloatBinops \union CompareOps
Copies == {"MOVE", "LOCAL"}
Branches == {"JMPIF", "JMPIFNOT", "JMPIFNIL"}
Control == Branches \union {"JMP"}
Terminal == {"RETURN", "HALT"}

Reads(i) ==
  CASE i.op \in Copies \union BoolUnary \union Branches -> {i.b}
    [] i.op \in Binary -> {i.b, i.c}
    [] i.op = "RETURN" -> i.a .. i.a + i.b - 1
    [] i.op = "CALL" -> {i.b} \union i.c .. i.c + i.d - 1
    [] OTHER -> {}

Writes(i) ==
  CASE i.op \in Copies \union BoolUnary \union Binary \union {"LOADK", "CLOSURE"} -> {i.a}
    [] i.op = "CALL" -> i.a .. i.a + i.e - 1
    [] OTHER -> {}

Arith(op, m, n) ==
  CASE op \in {"ADD_I", "ADD_F"} -> m + n
    [] op \in {"SUB_I", "SUB_F"} -> m - n
    [] op \in {"MUL_I", "MUL_F"} -> m * n

Less(op, x, y) == IF op = "LT" THEN x.v < y.v ELSE x.v <= y.v

IntResult(op, exact, x, y) ==
  Integer(IF exact THEN Arith(op, x.v, y.v) ELSE Wrap(Arith(op, x.v, y.v)))

Computed(i, exact, x, y) ==
  CASE i.op \in IntBinops -> IntResult(i.op, exact, x, y)
    [] i.op \in FloatBinops -> Float(Arith(i.op, x.v, y.v))
    [] i.op = "EQ" -> Bool(LuaEqual(x, y))
    [] i.op \in {"LT", "LE"} -> Bool(Less(i.op, x, y))

Jumps(i, x) ==
  CASE i.op = "JMP" -> TRUE
    [] i.op = "JMPIF" -> Truthy(x)
    [] i.op = "JMPIFNOT" -> ~Truthy(x)
    [] i.op = "JMPIFNIL" -> x = Nil

-----------------------------------------------------------------------------
(* A thread at work: its frames, what it has spent, and how it ended.  kept    *)
(* says that the promises of the fast instructions have been kept so far.      *)

(* A parameter takes an argument of its type, a missing one is nil.            *)
Given(args, k) == IF k <= Len(args) THEN args[k] ELSE Nil
Matches(type, x) == type \in {"Any", x.t} \/ (type = "number" /\ IsNumber(x))
Takes(p, args) == \A k \in 1 .. Len(p.params) : Matches(p.params[k], Given(args, k))

NewFrame(p, args, dest, want) ==
  [proto |-> p, pc |-> 1, dest |-> dest, want |-> want,
   regs |-> [r \in 1 .. p.registers |-> IF r <= Len(p.params) THEN Given(args, r) ELSE Nil]]

Fresh(p, args) ==
  [frames |-> <<NewFrame(p, args, 0, 0)>>, meter |-> 0, status |-> "running", values |-> <<>>, kept |-> TRUE]

Top(m) == m.frames[Len(m.frames)]
Ins(f) == f.proto.code[f.pc]
Write(f, r, value) == [f EXCEPT !.regs[r] = value, !.pc = @ + 1]

WriteResults(f, values, dest, want) ==
  [f EXCEPT !.pc = @ + 1,
            !.regs = [r \in DOMAIN @ |-> IF r \notin dest .. dest + want - 1 THEN @[r]
                                         ELSE IF r - dest < Len(values) THEN values[r - dest + 1] ELSE Nil]]

After(f, i) ==
  CASE i.op = "LOADK" -> Write(f, i.a, f.proto.constants[i.b])
    [] i.op = "CLOSURE" -> Write(f, i.a, Function(i.b))
    [] i.op \in Copies -> Write(f, i.a, f.regs[i.b])
    [] i.op = "NOT" -> Write(f, i.a, Bool(~Truthy(f.regs[i.b])))
    [] i.op = "TOBOOL" -> Write(f, i.a, Bool(Truthy(f.regs[i.b])))
    [] i.op \in Binary -> Write(f, i.a, Computed(i, f.pc \in f.proto.fast, f.regs[i.b], f.regs[i.c]))
    [] i.op \in Control -> [f EXCEPT !.pc = IF Jumps(i, IF i.op = "JMP" THEN Nil ELSE f.regs[i.b]) THEN i.a ELSE @ + 1]

Breaks(f, i) ==
  /\ i.op \in IntBinops /\ f.pc \in f.proto.fast
  /\ Arith(i.op, f.regs[i.b].v, f.regs[i.c].v) \notin MinInt .. MaxInt

Call(m, f, i, room) ==
  LET callee == f.proto.children[f.regs[i.b].v]
      args == [k \in 1 .. i.d |-> f.regs[i.c + k - 1]] IN
  IF Len(m.frames) >= room THEN [m EXCEPT !.status = "overflow"]
  ELSE IF ~Takes(callee, args) THEN [m EXCEPT !.status = "error"]
  ELSE [m EXCEPT !.frames = Append(@, NewFrame(callee, args, i.a, i.e))]

Return(m, f, values) ==
  IF Len(m.frames) = 1 THEN [m EXCEPT !.frames = <<>>, !.status = "returned", !.values = values]
  ELSE [m EXCEPT !.frames = <<WriteResults(m.frames[1], values, f.dest, f.want)>>]

Execute(m, f, i, room) ==
  CASE i.op = "CALL" -> Call(m, f, i, room)
    [] i.op = "RETURN" -> Return(m, f, [k \in 1 .. i.b |-> f.regs[i.a + k - 1]])
    [] i.op = "HALT" -> Return(m, f, <<>>)
    [] OTHER -> [m EXCEPT !.frames[Len(m.frames)] = After(f, i), !.kept = @ /\ ~Breaks(f, i)]

Step(m, room) == Execute([m EXCEPT !.meter = @ + 1], Top(m), Ins(Top(m)), room)

(* Goes on until the function ends or the budget is spent.                     *)
RECURSIVE Run(_, _, _)
Run(m, budget, room) ==
  IF m.status # "running" THEN m
  ELSE IF m.meter >= budget THEN [m EXCEPT !.status = "out of fuel"]
  ELSE Run(Step(m, room), budget, room)
=============================================================================

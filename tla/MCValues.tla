------------------------------ MODULE MCValues ------------------------------
(***************************************************************************)
(* Small typed functions, made as the compiler makes them: each shape of       *)
(* control flow, with every choice of a few statements in its places.  Jumps    *)
(* are relative while the parts are put together.                             *)
(***************************************************************************)
EXTENDS LuaValueJIT

(* Registers: a parameter, two locals, and temporaries above them.              *)
N == 1
X == 2
Y == 3
T == 4
U == 5
C == 6

Ins3(op, a, b, c) == [op |-> op, a |-> a, b |-> b, c |-> c, d |-> 0, e |-> 0]
CallOf(a, b, c, d, e) == [op |-> "CALL", a |-> a, b |-> b, c |-> c, d |-> d, e |-> e]
Jump(op, far, r) == <<Ins3(op, far, r, 0)>>
LoadK(r, k) == <<Ins3("LOADK", r, k, 0)>>
Move(r, q) == <<Ins3("MOVE", r, q, 0)>>

(* The statements.                                                            *)
Assign(op, r, a, b) == <<Ins3(op, U, a, b)>> \o Move(r, U)
Inc(r) == LoadK(T, 2) \o Assign("ADD_I", r, r, T)
Dec(r) == LoadK(T, 2) \o Assign("SUB_I", r, r, T)
Copy(r, q) == Move(r, q)
Product(r, a, b) == Assign("MUL_I", r, a, b)
Swap == Move(T, Y) \o Move(U, X) \o Move(X, T) \o Move(Y, U)
Reset(r) == LoadK(T, 1) \o Move(r, T)

(* Conditions: the value is left in C.                                         *)
Test(op, a, b) == <<Ins3(op, C, a, b), Ins3("TOBOOL", C, C, 0)>>
Unless(op, a, b) == <<Ins3(op, C, a, b), Ins3("NOT", C, C, 0)>>

(* Shapes.                                                                    *)
If(c, A, B) == c \o Jump("JMPIFNOT", Len(A) + 2, C) \o A \o Jump("JMP", Len(B) + 1, 0) \o B
While(c, A) == c \o Jump("JMPIFNOT", Len(A) + 2, C) \o A \o Jump("JMP", -(Len(A) + Len(c) + 1), 0)
Continued(c, A, B) == While(c, A \o Jump("JMP", 1, 0) \o B)
Again(A, c, B) == A \o c \o Jump("JMPIFNOT", Len(B) + 3, C) \o B \o
                Jump("JMP", -(Len(A) + Len(c) + Len(B) + 1), 0) \o Jump("JMP", 1, 0)
Either(c, d, A) == c \o Jump("JMPIF", Len(d) + 1, C) \o d \o Jump("JMPIFNOT", Len(A) + 2, C) \o A \o Jump("JMP", 1, 0)
Until(A, c) == A \o c \o Jump("JMPIFNOT", -(Len(A) + Len(c)), C)
TwoLatches(c, A, d) == A \o c \o Jump("JMPIF", -(Len(A) + Len(c)), C) \o d \o
                       Jump("JMPIF", -(Len(A) + Len(c) + Len(d) + 1), C)
Inside(c, A, d) == c \o Jump("JMPIF", Len(A) + 1, C) \o A \o While(d, A)
UnlessNil(r, A) == Jump("JMPIFNIL", Len(A) + 1, r) \o A

Locals == LoadK(T, 1) \o <<Ins3("LOCAL", X, T, 0)>> \o LoadK(T, 1) \o <<Ins3("LOCAL", Y, T, 0)>>
Ended(A) == A \o Move(T, X) \o Move(U, Y) \o <<Ins3("RETURN", T, 2, 0), Ins3("RETURN", 1, 0, 0)>>
Whole(A) == Ended(Locals \o A)

Less2(a, b) == Test("LT", a, b)
CONSTANT Deep       \* whether every shape gets every statement

Few == {Copy(Y, X), Assign("ADD_I", Y, X, N), Product(Y, N, N), Swap}
More == Few \union {Inc(Y), Dec(X), Copy(X, Y), Assign("ADD_I", Y, Y, Y), Reset(Y)}
Statements == IF Deep THEN More ELSE Few

Shapes ==
  UNION {{A \o B, If(Less2(X, N), A, B), A \o If(Test("LE", N, X), A, <<>>) \o B} : A \in Statements, B \in Few}
  \union
  UNION {{While(Less2(X, N), A \o Inc(X)), While(Less2(X, N), Inc(X) \o A),
          Continued(Less2(X, N), Inc(X), A),
          Again(Inc(X), Less2(Y, N), A \o Inc(Y)), Until(A \o Inc(X), Less2(N, X)),
          While(Less2(X, N), If(Test("EQ", X, Y), A, <<>>) \o Inc(X)),
          Either(Less2(X, N), Less2(N, Y), A) \o Inc(X)} : A \in Statements}
  \union
  {While(Less2(X, N), Reset(Y) \o While(Less2(Y, N), Inc(Y)) \o Inc(X)),
   While(Unless("LT", N, X), Inc(X)),
   TwoLatches(Less2(X, N), Inc(X), Less2(N, X)),
   Inside(Less2(X, N), Inc(X), Less2(X, N)),
   UnlessNil(N, Inc(X)), Inc(X) \o UnlessNil(X, Inc(Y))}

Linked(code) == [pc \in 1 .. Len(code) |-> IF code[pc].op \in Control THEN [code[pc] EXCEPT !.a = @ + pc] ELSE code[pc]]
Fast(code, on) == IF on THEN {pc \in 1 .. Len(code) : code[pc].op \in IntBinops} ELSE {}
Proto(params, constants, code, promised, children, traits) ==
  [params |-> params, constants |-> constants, code |-> Linked(code), registers |-> 7,
   fast |-> Fast(code, promised), children |-> children, traits |-> {"typed"} \union traits]
Function1(code, promised) == Proto(<<"integer">>, <<Integer(0), Integer(1)>>, Whole(code), promised, <<>>, {})

(* The same functions of floats.                                              *)
InFloats(i) == CASE i.op = "ADD_I" -> [i EXCEPT !.op = "ADD_F"] [] i.op = "SUB_I" -> [i EXCEPT !.op = "SUB_F"]
                 [] i.op = "MUL_I" -> [i EXCEPT !.op = "MUL_F"] [] OTHER -> i
OfFloats(p) == [p EXCEPT !.params = <<"float">>, !.constants = <<Float(0), Float(1)>>,
                         !.code = [pc \in DOMAIN @ |-> InFloats(@[pc])], !.fast = {}]

(* Functions that call others: of one parameter, of none, of two.              *)
Child(params, code, children, traits) == Proto(params, <<Integer(1), Float(1)>>, code, FALSE, children, traits)
Succ == LoadK(2, 1) \o <<Ins3("ADD_I", 3, 1, 2)>> \o Move(4, 3) \o <<Ins3("RETURN", 4, 1, 0)>>
Both == <<Ins3("ADD_I", 3, 1, 2), Ins3("LT", 4, 1, 2), Ins3("RETURN", 3, 2, 0)>>
Children ==
  {Child(<<"integer">>, Succ, <<>>, {}), Child(<<"integer">>, Succ, <<>>, {"vararg"}),
   Child(<<"integer">>, Succ, <<>>, {"captures"}), Child(<<"number">>, Move(2, 1) \o <<Ins3("RETURN", 2, 1, 0)>>, <<>>, {}),
   Child(<<"float">>, <<Ins3("HALT", 0, 0, 0)>>, <<>>, {}), Child(<<"integer">>, <<Ins3("HALT", 0, 0, 0)>>, <<>>, {}),
   Child(<<"integer", "integer">>, Both, <<>>, {}),
   Child(<<"integer">>, Succ, <<Child(<<"integer">>, Succ, <<>>, {})>>, {}),
   Child(<<"Any">>, Move(2, 1) \o <<Ins3("RETURN", 2, 1, 0)>>, <<>>, {}),
   Child(<<"integer">>, If(Test("LT", 1, 1), Succ, Succ), <<>>, {})}
Calling(A, want) ==
  <<Ins3("CLOSURE", T, 1, 0)>> \o Move(7, T) \o A \o Move(U, N) \o Move(C, X) \o <<CallOf(X, 7, U, 1, want)>>
Calling2 == <<Ins3("CLOSURE", T, 1, 0)>> \o Move(7, T) \o Move(U, N) \o Move(C, X) \o <<CallOf(X, 7, U, 2, 2)>> \o
            Move(U, Y) \o Move(C, Y) \o Move(U, X) \o <<CallOf(Y, 7, U, 1, 1)>>
Callers ==
  {Proto(<<"integer">>, <<Integer(0), Integer(1)>>, Whole(A), FALSE, <<c>>, {}) :
     c \in Children, A \in {Calling(<<>>, 1), Calling(Inc(X), 2), Calling2}}

Plainer == {Function1(A, FALSE) : A \in Shapes}
MCProtos ==
  Plainer \union {Function1(A, TRUE) : A \in Shapes} \union {OfFloats(p) : p \in Plainer} \union Callers
  \union {Proto(<<"boolean", "integer">>, <<Integer(1), Bool(TRUE)>>,
               If(Test(op, 1, 2), LoadK(3, 1), LoadK(3, 2)) \o <<Ins3("RETURN", 3, 1, 0)>>, FALSE, <<>>, {})
            : op \in {"EQ"}}
  \union {Proto(<<"Any">>, <<Integer(1)>>, Move(2, 1) \o <<Ins3("RETURN", 2, 1, 0)>>, FALSE, <<>>, {})}
MCSamples == {Integer(n) : n \in {-8, 0, 1, 3, 7}} \union {Float(0), Float(2), Bool(TRUE)}
=============================================================================

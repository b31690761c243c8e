------------------------------- MODULE MCChunks -------------------------------
(***************************************************************************)
(* Binary chunks as PUC-Lua's compiler writes them: all pairs of groups of      *)
(* instructions that stand for a statement each, alone and in every kind of     *)
(* block.  Register 0 is a local x, register 1 a local function f that may       *)
(* capture x, and a group uses registers from t on.                           *)
(***************************************************************************)
EXTENDS LuaSyntax

Consts == <<Str("note"), Str("fresh"), Str("ask"), Str("step"), Str("m"), Str("n"), Num(3), Closable(1), Closable(2)>>
K(v) == CHOOSE i \in 0 .. Len(Consts) - 1 : Consts[i + 1].k = v.k /\ Consts[i + 1] = v
I(op, a, b, c) == [op |-> op, a |-> a, b |-> b, c |-> c, k |-> 0]
Ik(op, a, b, c) == [op |-> op, a |-> a, b |-> b, c |-> c, k |-> 1]
Name_(t, n) == I("GETTABUP", t, 0, K(Str(n)))
Mm == I("MMBIN", 0, 0, 0)
Extra(n) == I("EXTRAARG", 0, n, 0)
Jmp(n) == I("JMP", 0, n, 0)

(* The functions that f may be.                                              *)
OfX == [kind |-> "local", index |-> 0]
Globals == [kind |-> "upvalue", index |-> 1]
Through == [kind |-> "upvalue", index |-> 2]
Function_(code, children, up, params, va) ==
  [code |-> code, consts |-> Consts, children |-> children, up |-> up, params |-> params, va |-> va, size |-> 8]
Getter == Function_(<<I("GETUPVAL", 0, 1, 0), I("RETURN1", 0, 2, 0)>>, <<>>, <<Globals, OfX>>, 0, FALSE)
Setter ==
  Function_(<<Name_(1, "fresh"), I("CALL", 1, 1, 2), I("SETUPVAL", 1, 1, 0), I("RETURN", 0, 3, 0)>>,
            <<>>, <<Globals, OfX>>, 1, FALSE)
Echo == Function_(<<I("VARARGPREP", 1, 0, 0), I("VARARG", 1, 0, 0), I("RETURN", 0, 0, 0)>>, <<>>, <<Globals>>, 1, TRUE)
Nested ==
  Function_(<<I("CLOSURE", 0, 0, 0), Ik("TAILCALL", 0, 1, 0), I("RETURN", 0, 0, 0)>>,
            <<Function_(<<I("GETUPVAL", 0, 1, 0), I("ADDI", 0, 0, 1), Mm, I("SETUPVAL", 0, 1, 0),
                          I("RETURN0", 0, 1, 0)>>, <<>>, <<Globals, Through>>, 0, FALSE)>>,
            <<Globals, OfX>>, 0, FALSE)

-----------------------------------------------------------------------------
(* Statements.                                                              *)

NoteX(t) == <<Name_(t, "note"), I("MOVE", t + 1, 0, 0), I("CALL", t, 2, 1)>>
Fresh_(t) == <<Name_(t, "fresh"), I("CALL", t, 1, 2), I("MOVE", 0, t, 0)>>
CallF(t) == <<I("MOVE", t, 1, 0), I("CALL", t, 1, 2), I("MOVE", 0, t, 0)>>
Ask(t) == <<Name_(t, "ask"), I("CALL", t, 1, 2)>>
Few(t) == {NoteX(t), Fresh_(t), CallF(t), Ask(t) \o <<Ik("TESTSET", 0, t, 0), Jmp(1), I("LOADI", 0, 5, 0)>>,
           Ask(t) \o <<I("TEST", t, 0, 0), Jmp(2), I("MOVE", t, 0, 0), Ik("RETURN", t, 2, 0)>>,
           <<I("ADDI", 0, 0, 1), Mm>>, <<I("GETFIELD", 0, 0, K(Str("m")))>>}
More(t) ==
  {<<Name_(t, "note"), I("VARARG", t + 1, 0, 0), I("CALL", t, 0, 2)>>,
   <<Name_(t, "note"), I("MOVE", t + 1, 0, 0), I("MOVE", t + 2, 1, 0), I("MOVE", t + 3, 0, 0),
     I("CALL", t + 2, 2, 0), I("CALL", t, 0, 2)>>,
   <<I("MOVE", t, 1, 0), I("VARARG", t + 1, 0, 0), I("CALL", t, 0, 3), I("MOVE", 0, t, 0),
     Name_(t, "note"), I("CALL", t, 2, 1)>>,
   <<I("VARARG", t, 0, 3), I("MOVE", 0, t + 1, 0)>>,
   <<I("ADD", 0, 0, 0), Mm, I("ADDK", 0, 0, K(Num(3))), Mm, I("UNM", 0, 0, 0)>>,
   <<I("MOVE", t, 0, 0), I("LOADI", t + 1, 7, 0), I("MOVE", t + 2, 0, 0), I("CONCAT", t, 3, 0), I("MOVE", 0, t, 0)>>,
   Ask(t) \o <<I("TESTSET", 0, t, 0), Jmp(2), I("LOADKX", 0, 0, 0), Extra(K(Num(3)))>>,
   <<Ik("LTI", 0, 3, 0), Jmp(1), I("LFALSESKIP", 0, 0, 0), I("LOADTRUE", 0, 0, 0)>>,
   <<I("LOADI", t, 3, 0), Ik("LE", t, 0, 0), Jmp(1), I("LFALSESKIP", 0, 0, 0), I("LOADTRUE", 0, 0, 0)>>,
   <<I("GTI", 0, 3, 0), Jmp(1), I("LOADFALSE", 0, 0, 0), Ik("GEI", 0, 3, 0), Jmp(1), I("NOT", 0, 0, 0)>>,
   <<I("EQK", 0, K(Num(3)), 0), Jmp(1), I("LOADNIL", 0, 0, 0), Ik("EQI", 0, 3, 0), Jmp(1), I("LOADI", 0, 3, 0)>>,
   <<I("LOADNIL", t, 1, 0), I("EQ", t, 0, 0), Jmp(2), I("LT", t + 1, 0, 0), Jmp(0), I("LEI", 0, 3, 0), Jmp(0)>>,
   <<I("NEWTABLE", t, 0, 0), Extra(0), I("MOVE", t + 1, 0, 0), I("VARARG", t + 2, 0, 0), I("SETLIST", t, 0, 0),
     Name_(t + 1, "note"), I("LEN", t + 2, t, 0), I("GETI", t + 3, t, 2), I("CALL", t + 1, 3, 1)>>,
   <<I("NEWTABLE", t, 0, 0), Extra(0), I("MOVE", t + 1, 0, 0), I("LOADI", t + 2, 6, 0), I("SETLIST", t, 2, 1),
     Ik("SETI", t, 1, K(Num(3))), I("GETTABLE", 0, t, 0), I("SETTABLE", t, 0, 0)>>,
   <<I("NEWTABLE", t, 0, 0), Extra(0), I("SETFIELD", t, K(Str("m")), 1), I("SELF", t, t, K(Str("m"))),
     I("CALL", t, 2, 2), I("MOVE", 0, t, 0)>>,
   <<I("SETTABUP", 0, K(Str("n")), 0), Ik("SETTABUP", 0, K(Str("m")), K(Num(3))), Name_(0, "n")>>,
   <<I("LOADI", t, 2, 0), I("GETVARG", 0, 0, t), I("LOADK", t, K(Str("n")), 0), I("GETVARG", t, 0, t),
     Name_(t + 1, "note"), I("MOVE", t + 2, t, 0), I("CALL", t + 1, 2, 1)>>,
   <<Name_(t, "n"), I("ERRNNIL", t, 0, 0), I("SETTABUP", 0, K(Str("n")), 0)>>,
   <<I("MOVE", t, 1, 0), I("MOVE", t + 1, 0, 0), Ik("TAILCALL", t, 2, 0), I("RETURN", t, 0, 0)>>,
   <<I("MOVE", t, 0, 0), I("MOVE", t + 1, 1, 0), I("CALL", t + 1, 1, 0), I("RETURN", t, 0, 0)>>}

(* Blocks, whose bodies use registers from Above(kind, t).                      *)
Above(kind, t) == CASE kind = "for" -> t + 3 [] kind = "in" -> t + 5 [] kind = "close" -> t + 1 [] OTHER -> t
Block(kind, t, body) ==
  LET n == Len(body) IN
  CASE kind = "if" -> Ask(t) \o <<I("TEST", t, 0, 0), Jmp(n)>> \o body
    [] kind = "while" -> Ask(t) \o <<I("TEST", t, 0, 0), Jmp(n + 1)>> \o body \o <<Jmp(-n - 5)>>
    [] kind = "for" -> <<I("LOADI", t, 1, 0), I("LOADI", t + 1, 2, 0), I("LOADI", t + 2, 1, 0), I("FORPREP", t, n, 0)>>
                       \o body \o <<I("FORLOOP", t, n + 1, 0)>>
    [] kind = "in" -> <<Name_(t, "step"), I("LOADNIL", t + 1, 1, 0), I("LOADK", t + 3, K(Closable(2)), 0),
                        I("TFORPREP", t, n, 0)>> \o body
                      \o <<I("TFORCALL", t, 0, 2), I("TFORLOOP", t, n + 2, 0), I("CLOSE", t, 0, 0)>>
    [] kind = "close" -> <<I("LOADK", t, K(Closable(1)), 0), I("TBC", t, 0, 0)>> \o body \o <<I("CLOSE", t, 0, 0)>>
Kinds == {"if", "while", "for", "in", "close"}

Main(f, body) ==
  Function_(<<I("VARARGPREP", 0, 0, 0)>> \o Fresh_(0) \o <<I("CLOSURE", 1, 0, 0)>> \o body
            \o NoteX(2) \o <<Ik("RETURN", 2, 1, 0)>>,
            <<f>>, <<>>, 0, TRUE)
Functions_ == {Getter, Setter, Echo, Nested}
-----------------------------------------------------------------------------
Bodies ==
  {x \o y : x, y \in Few(2) \cup More(2)} \cup
  UNION {{Block(kind, 2, x \o y) : x, y \in Few(Above(kind, 2))} : kind \in Kinds} \cup
  UNION {{Block(kind, 2, x) : x \in More(Above(kind, 2))} : kind \in Kinds} \cup
  UNION {{Block(kind, 2, Block(inner, Above(kind, 2), x)) : x \in Few(Above(inner, Above(kind, 2)))}
           : kind, inner \in Kinds}

(* What no compiler writes: a missing companion, an open list without a         *)
(* producer or with one above it, a jump out of the function.                  *)
Malformed ==
  {Main(Echo, body) : body \in
     {<<I("ADDI", 0, 0, 1)>>, <<I("NEWTABLE", 2, 0, 0)>>, <<I("TEST", 0, 0, 0)>>, <<I("EQ", 0, 0, 0)>>, <<Mm>>, <<Extra(0)>>,
      <<I("LOADKX", 2, 0, 0)>>, <<I("CALL", 1, 0, 1)>>, <<I("RETURN", 1, 0, 0)>>, <<I("SETLIST", 0, 0, 0)>>,
      <<I("VARARG", 2, 0, 0), I("CALL", 2, 0, 1)>>, <<I("VARARG", 3, 0, 2), I("CALL", 2, 0, 1)>>,
      <<I("CALL", 1, 1, 0), I("CALL", 1, 1, 1), I("CALL", 0, 0, 1)>>, <<Jmp(30)>>, <<Jmp(-30)>>}}

Loaded == {Main(f, body) : f \in Functions_, body \in Bodies} \cup Malformed
=============================================================================

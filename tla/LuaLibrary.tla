----------------------------- MODULE LuaLibrary -----------------------------
(* The string, utf8 and table libraries, the lexer and string.dump with load,  *)
(* each called on its own: a behaviour is one call.  The functions on strings   *)
(* take one step; those on tables, the lexer, and dumping and loading run as    *)
(* LuaTableLib, LuaLexer and LuaBinary say.                                    *)
EXTENDS LuaTableLib
CONSTANTS Base, Native, Words, Keywords,
          IntMax, MaxGroups, MaxDepth, MaxProtos, MaxItems, Functions_, PucFunctions, Fragile
ASSUME LibraryAssumption ==
  /\ Base \in Nat \ {0, 1} /\ Native \in {"little", "big"}
  /\ Words \in Nat /\ Words > 2
VARIABLES
  call,     \* the function, its arguments and what its text was made from
  result,   \* its answer; Pending before
  src, lex, out,               \* a run of the lexer
  function, chunk, origin, damaged, parts, loaded   \* a function dumped and loaded
tables == <<tabs, job, answer, before>>
lexer == <<src, lex, out>>
binary == <<function, chunk, origin, damaged, parts, loaded>>
vars == <<call, result, tables, lexer, binary>>

P == INSTANCE LuaPattern
K == INSTANCE LuaPack
U == INSTANCE LuaUtf8
L == INSTANCE LuaLexer
B == INSTANCE LuaBinary

Pending == <<>>
Calls(f) == call.f = f /\ result = Pending
Return(value) == result' = <<value>> /\ UNCHANGED <<call, tables, lexer, binary>>

FindCall   == Calls("find")   /\ Return(P!Find(call.s, call.p, call.init, call.plain))
MatchCall  == Calls("match")  /\ Return(P!MatchFn(call.s, call.p, call.init))
GmatchCall == Calls("gmatch") /\ Return(P!Gmatch(call.s, call.p, call.init))
GsubCall   == Calls("gsub")   /\ Return(P!Gsub(call.s, call.p, call.repl, call.limit))

(* pack's result is unpacked again, and packsize is asked of the same format.    *)
PackCall ==
  /\ Calls("pack")
  /\ LET packed == K!Pack(call.format, call.values)
     IN Return([packed |-> packed, size |-> K!PackSize(call.format),
                back |-> IF packed.raises THEN packed ELSE K!Unpack(call.format, packed.value, 1)])
UnpackCall == Calls("unpack") /\ Return(K!Unpack(call.format, call.data, call.pos))

CharCall      == Calls("char")      /\ Return(U!Char(call.codes))
CodepointCall == Calls("codepoint") /\ Return(U!Codepoint(call.s, call.i, call.j, call.lax))
LenCall       == Calls("len")       /\ Return(U!LengthFn(call.s, call.i, call.j, call.lax))
OffsetCall    == Calls("offset")    /\ Return(U!Offset(call.s, call.n, call.i))
CodesCall     == Calls("codes")     /\ Return(U!Codes(call.s, call.lax))

ToNumber == Calls("tonumber") /\ Return(L!ParseNumber(call.s))
TableStep == call.f = "table" /\ TableLibNext /\ UNCHANGED <<call, result, lexer, binary>>
LexerStep ==
  /\ call.f = "load" \/ (call.f = "tonumber" /\ result # Pending)
  /\ L!LexNext /\ UNCHANGED <<call, result, tables, binary>>
DumpStep == call.f = "dump" /\ B!Next /\ UNCHANGED <<call, result, tables, lexer>>

Next ==
  \/ FindCall \/ MatchCall \/ GmatchCall \/ GsubCall
  \/ PackCall \/ UnpackCall
  \/ CharCall \/ CodepointCall \/ LenCall \/ OffsetCall \/ CodesCall
  \/ ToNumber \/ TableStep \/ LexerStep \/ DumpStep

=============================================================================

------------------------------ MODULE MCPrograms ------------------------------
(***************************************************************************)
(* Compiled programs do what the manual says of their text, and translated      *)
(* binary chunks what PUC-Lua's machine does with them.  The programs are all    *)
(* loops and blocks over short bodies of statements that interact: gotos and    *)
(* labels, closures over locals, values to close, assignments, returns and      *)
(* errors in the middle; all short lists of expressions wherever a list may     *)
(* stand; and some programs of nested functions and declared globals.  The      *)
(* chunks are those of MCChunks.                                              *)
(***************************************************************************)
EXTENDS LuaPucMachine

Manual == INSTANCE LuaManual
PucManual == INSTANCE LuaPucManual
Puc == INSTANCE MCChunks

CONSTANT MaxBody      \* statements of a generated body

DoCall(f, args) == CallStat(CallOf(Name(f), args))
Note(es) == DoCall("note", es)
X == Name("x")
Ask == CallOf(Name("ask"), <<>>)
Fresh_ == CallOf(Name("fresh"), <<>>)
IfAsk(st) == If(Ask, <<st>>, <<>>)
Locally(ns, es) == Local(ns, FALSE, es)
ToClose(k) == Local(<<"c">>, TRUE, <<Lit(Closable(k))>>)
SetX == Assign(<<X>>, <<Fresh_>>)
LocalX == Locally(<<"x">>, <<Fresh_>>)
SetI == Assign(<<Name("i")>>, <<Fresh_>>)
Thunk(body) == Func(<<>>, FALSE, body)
Getter == Thunk(<<Return(<<X>>)>>)
Setter == Thunk(<<SetX, Return(<<X>>)>>)

-----------------------------------------------------------------------------
(* Loops and blocks.  f is a closure over x, of this round or an earlier one.   *)

Capture == {Assign(<<Name("f")>>, <<Getter>>), Assign(<<Name("f")>>, <<Setter>>)}
Notes == {Note(<<X>>), Note(<<CallOf(Name("f"), <<>>)>>)}
Atoms == Capture \cup Notes \cup {LocalX, SetX, ToClose(1), IfAsk(Break), IfAsk(Return(<<>>))}
PlainJumps == {Label("l"), IfAsk(Goto("l")), Locally(<<"y">>, <<>>)}
Jumps == PlainJumps \cup {Do(<<ToClose(2), IfAsk(Goto("l"))>>)}

(* Bodies that repeat no statement and do not begin with a note of the round before. *)
Bodies(atoms) ==
  {b \in UNION {[1 .. m -> atoms] : m \in 1 .. MaxBody} :
     b[1] \notin Notes /\ \A i, j \in DOMAIN b : b[i] = b[j] => i = j}

(* A local that is assigned before the function that uses it: the compiler     *)
(* takes it for one that no function uses, and the first closure separates     *)
(* the two (the run programs_captured).                                      *)
AssignedBeforeCapture(b) ==
  \E i, j, k \in DOMAIN b :
    /\ i < j /\ j < k /\ b[i] = LocalX /\ b[j] = SetX /\ b[k] \in Capture
    /\ \A h \in i + 1 .. k - 1 : b[h] # LocalX /\ b[h] \notin Capture

Wraps(b) ==
  {<<While(Ask, b)>>, <<Repeat(b, Not(Ask))>>, <<Do(b)>>} \cup
  {<<NumFor("i", Lit(Num(1)), Lit(Num(2)), x)>> : x \in {y \in {b} : Len(y) < MaxBody}}
(* x is the variable that controls the loop, which no statement may assign, or   *)
(* the other one.  The analysis of gotos does not count the value that the loop  *)
(* closes, so that a goto in its body closes one value too many                *)
(* (semantics.py:156): nothing is to be closed in loops with gotos.            *)
GenFors(b, vs) ==
  {<<GenFor(ns, <<Name("step"), Lit(Nil), Lit(Nil), Lit(v)>>, b)>> :
     ns \in {<<"x", "z">>, <<"z", "x">>}, v \in vs}
Assigned_(b) == AssignedBeforeCapture(<<LocalX>> \o b)
Prelude == <<LocalX, Locally(<<"f">>, <<Getter>>)>>
Around(ws) == {Prelude \o w \o <<Note(<<X>>)>> : w \in ws}

Blocks ==
  Around(UNION {Wraps(b) : b \in {x \in Bodies(Atoms \cup Jumps) : ~AssignedBeforeCapture(x)}})
    \cup Around(UNION {GenFors(b, {Closable(9), Nil, Num(3)}) :
                        b \in {x \in Bodies(Atoms) : Len(x) <= 2 /\ ~Assigned_(x)}})
    \cup Around(UNION {GenFors(b, {Nil}) :
                        b \in {x \in Bodies((Atoms \ {ToClose(1)}) \cup PlainJumps) :
                                 /\ Len(x) <= 2 \/ \A i \in DOMAIN x : x[i] \in PlainJumps \cup Notes
                                 /\ ~Assigned_(x)}})

-----------------------------------------------------------------------------
(* Lists of expressions, in every place where a list may stand.                 *)

Items == {X, Lit(Nil), VarArg, CallOf(Name("two"), <<X>>), CallOf(Name("none"), <<>>),
          Logic("and", X, CallOf(Name("two"), <<>>)), Logic("or", CallOf(Name("none"), <<>>), X)}
Lists == UNION {[1 .. n -> Items] : n \in 0 .. 2}

Places(es) ==
  {<<Note(es)>>,
   <<Locally(<<"a", "x">>, es), Note(<<Name("a"), X>>)>>,
   <<Assign(<<X, Name("g")>>, es), Note(<<X, Name("g")>>)>>,
   <<Assign(<<Name("g"), X>>, <<X>> \o es), Note(<<Name("g"), X>>)>>,
   <<Return(es)>>,
   <<Return(<<CallOf(Name("two"), es)>>)>>,
   <<ToClose(1), Return(<<CallOf(Name("two"), es)>>)>>,
   <<Locally(<<"t">>, <<TableOf(es)>>), CallStat(Method(Name("m"), "two", es)), Return(<<Name("t")>>)>>}

Expressions ==
  {<<Function(TRUE, "two", Func(<<"p">>, TRUE, <<Note(<<Name("p"), VarArg>>), Return(<<Name("p"), Fresh_>>)>>)),
     Function(TRUE, "none", Thunk(<<>>)),
     Locally(<<"m">>, <<TableOf(<<>>)>>),
     Assign(<<Field(Name("m"), "two")>>, <<Name("two")>>),
     Function(FALSE, "main", Func(<<"x">>, TRUE, body)),
     Note(<<CallOf(Name("main"), <<Lit(Num(1)), Lit(Num(2)), Lit(Num(3))>>)>>)>> :
   body \in UNION {Places(es) : es \in Lists}}

-----------------------------------------------------------------------------
(* Nested functions, coroutines, globals, and errors.                           *)

Others ==
  {<<LocalX, Function(TRUE, "g", Thunk(<<Return(<<Thunk(<<SetX, Return(<<X>>)>>)>>)>>)),
     Note(<<CallOf(CallOf(Name("g"), <<>>), <<>>)>>), Note(<<X>>)>>,
   <<LocalX, Note(<<CallOf(Name("co"), <<Getter>>)>>),
     Note(<<CallOf(Name("co"), <<Thunk(<<LocalX, Return(<<CallOf(Setter, <<>>)>>)>>)>>)>>)>>,
   <<Function(TRUE, "r", Thunk(<<IfAsk(Return(<<CallOf(Name("r"), <<>>)>>)), Return(<<Fresh_>>)>>)),
     Note(<<CallOf(Name("r"), <<>>)>>)>>,
   <<LocalX, Locally(<<"y">>, <<Fresh_>>), Assign(<<X, Name("y")>>, <<Name("y"), X>>), Note(<<X, Name("y")>>)>>,
   <<ToClose(1), Function(TRUE, "g", Thunk(<<ToClose(2), DoCall("missing", <<>>)>>)), DoCall("g", <<>>)>>,
   <<ToClose(1), Local(<<"d">>, TRUE, <<Lit(Bool(FALSE))>>), Local(<<"e">>, TRUE, <<Fresh_>>)>>,
   <<Note(<<Field(Name("missing"), "n")>>)>>,
   <<ToClose(1), Assign(<<Field(Name("missing"), "n")>>, <<Lit(Nil)>>)>>,
   <<Break>>, <<Goto("l"), Do(<<Label("l")>>)>>, <<Label("l"), CallStat(CallOf(Thunk(<<Goto("l")>>), <<>>))>>,
   <<Label("l"), Do(<<Label("l")>>)>>, <<Label("l"), Label("l")>>} \cup
  {<<ToClose(1), Assign(<<Name("c")>>, <<Lit(Nil)>>)>>} \cup
  {<<NumFor("i", Lit(Num(1)), Lit(Num(2)), b)>> :
     b \in {<<SetI>>, <<Function(FALSE, "i", Thunk(<<>>))>>, <<CallStat(CallOf(Thunk(<<SetI>>), <<>>))>>,
            <<CallStat(CallOf(Thunk(<<Assign(<<Name("f")>>, <<Thunk(<<SetI>>)>>)>>), <<>>))>>,
            <<Locally(<<"i">>, <<Name("i")>>), SetI, Note(<<Name("i")>>)>>,
            <<Do(<<GlobalDecl(<<"i", "fresh", "note">>, FALSE), SetI, Note(<<Name("i")>>)>>)>>}} \cup
  {<<GlobalDecl(<<"note", "a">>, FALSE)>> \o body :
     body \in {<<Note(<<Name("a")>>)>>, <<Assign(<<Name("b")>>, <<Lit(Nil)>>)>>,
               <<Locally(<<"g">>, <<Thunk(<<Return(<<Name("b")>>)>>)>>)>>,
               <<GlobalDecl(<<>>, TRUE), Note(<<Name("b")>>)>>,
               <<Do(<<GlobalDecl(<<"b">>, FALSE), Note(<<Name("b")>>)>>), Note(<<Name("b")>>)>>,
               <<Locally(<<"a">>, <<Lit(Num(1))>>), Do(<<GlobalDecl(<<"a">>, FALSE), Note(<<Name("a")>>),
                 Assign(<<Name("a")>>, <<Lit(Num(2))>>)>>), Note(<<Name("a")>>)>>}}

(* A loop that declares a local, assigns it, and then makes a closure over it.  *)
AssignedFirst ==
  Around({<<NumFor("i", Lit(Num(1)), Lit(Num(2)),
                   <<LocalX, SetX, Assign(<<Name("f")>>, <<Getter>>), Note(<<CallOf(Name("f"), <<>>)>>)>>)>>})

ProgramSet == Blocks \cup Expressions \cup Others
ChunkSet == Puc!Loaded

-----------------------------------------------------------------------------

(* A program that ends has done what the manual says of its text, for the       *)
(* answers it got: it noted the same values and closed the same ones in the     *)
(* same order, and it ended in an error where the manual has one.  This is      *)
(* about all of compiler.py that programs see: scopes, registers, captures,     *)
(* the depths that jumps close, and adjusted lists.                            *)
Agrees(meaning, noted, end, used) ==
  meaning.trace = noted /\ meaning.end = end /\ meaning.used = used
FollowsManual ==
  [][status' \in {"done", "error"} /\ chunk.form = "text" =>
       Agrees(Manual!Meaning(chunk.of, asked'), trace', status', Len(asked'))]_vars

(* A binary chunk that ends has done what PUC-Lua's machine does with it.  This *)
(* is about the whole translator: open lists that are staged in new registers,   *)
(* captured registers that live in cells, jumps over two-instruction groups,     *)
(* and values to close by register (binary_chunks.py).                          *)
FollowsPuc ==
  [][status' \in {"done", "error"} /\ chunk.form = "binary" =>
       Agrees(PucManual!Behaves(chunk.of, asked'), trace', status', Len(asked'))]_vars

(* The compiler takes what the manual allows and nothing else: jumps into the   *)
(* scope of a local, labels seen twice, undeclared names (semantics.py); and     *)
(* the translator all that a compiler writes (binary_chunks.py).                *)
AcceptsLegal ==
  status # "run" =>
    (status = "rejected") = IF chunk.form = "text" THEN ~Manual!Legal(chunk.of) ELSE chunk.of \in Puc!Malformed

(* A register that is also a cell shows the value of the variable, so code that *)
(* was compiled before the variable was known to be captured may read it.       *)
RegistersAreCoherent ==
  chunk.form = "text" =>
    \A i \in 1 .. Len(frames) : \A r \in DOMAIN frames[i].cells :
      frames[i].regs[r] = cells[frames[i].cells[r]]

=============================================================================

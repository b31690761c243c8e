-------------------------------- MODULE LuaPuc --------------------------------
(***************************************************************************)
(* The translator of PUC-Lua 5.5 functions to the bytecode of LuaMachine.  A   *)
(* PUC instruction is [op, a, b, c, k]; b is also Bx and sJ, numbers stand for  *)
(* themselves and constants are given by their place in consts.  PUC counts    *)
(* instructions from 0.  A function has code, consts, children, up (what each   *)
(* upvalue is taken from), params, va, and size, its registers.               *)
(***************************************************************************)
EXTENDS LuaSyntax, FiniteSets, TLC
LOCAL INSTANCE SequencesExt

Captured_(children) ==
  UNION {{u.index : u \in {x \in Range(c.up) : x.kind = "local"}} : c \in Range(children)}

NewTranslator(src, children) ==
  [code |-> <<>>, children |-> children, captured |-> Captured_(children), next |-> src.size,
   pcmap |-> <<>>, patches |-> <<>>, open |-> [at |-> -1, mv |-> -1], ok |-> TRUE]

Put_(t, ins) == [t EXCEPT !.code = Append(@, ins)]
Room(t, n) == [t EXCEPT !.next = @ + n]
Bad(t) == [t EXCEPT !.ok = FALSE]
Closed(t) == [t EXCEPT !.open = [at |-> -1, mv |-> -1]]
PatchTo(t, target) == [t EXCEPT !.patches = Append(@, [at |-> Len(t.code), to |-> target])]

ReadReg(t, reg) ==
  IF reg \notin t.captured THEN [t |-> t, r |-> reg]
  ELSE [t |-> Put_(Room(t, 1), <<"GETCELL", t.next, reg>>), r |-> t.next]

(* Mutant: a captured register is written like any other.                       *)
WriteFromRaw(t, reg, source) == IF reg # source THEN Put_(t, <<"MOVE", reg, source>>) ELSE t

WriteFrom(t, reg, source) ==
  IF reg \in t.captured THEN Put_(t, <<"SETCELL", reg, source>>)
  ELSE IF reg # source THEN Put_(t, <<"MOVE", reg, source>>) ELSE t

(* An instruction whose result goes to reg, through a new register if captured. *)
To(t, reg) == IF reg \in t.captured THEN t.next ELSE reg
ToRoom(t, reg) == IF reg \in t.captured THEN Room(t, 1) ELSE t
Commit(t, reg, out) == IF reg \in t.captured THEN Put_(t, <<"SETCELL", reg, out>>) ELSE t
Into(t, reg, op, rest) == Commit(Put_(ToRoom(t, reg), <<op, To(t, reg)>> \o rest), reg, To(t, reg))

LoadValue(t, reg, v) == Into(t, reg, "LOADK", <<v>>)
ConstantReg(t, v) == [t |-> Put_(Room(t, 1), <<"LOADK", t.next, v>>), r |-> t.next]

(* Copies of registers, in consecutive new ones from base.                      *)
RECURSIVE Copies(_, _, _)
Copies(t, regs, base) ==
  IF regs = <<>> THEN t
  ELSE LET read == ReadReg(t, Head(regs)) IN
       Copies(Put_(read.t, <<"MOVE", base, read.r>>), Tail(regs), base + 1)
RECURSIVE WriteAll(_, _, _, _)
WriteAll(t, reg, source, n) ==
  IF n = 0 THEN t ELSE WriteAll(WriteFrom(t, reg, source), reg + 1, source + 1, n - 1)
Regs(from, to) == [i \in 1 .. to - from |-> from + i - 1]

OpenFrom(t, first) == t.open.at >= first

-----------------------------------------------------------------------------
(* Calls and returns.  b = 0: up to the open results of the last producer.      *)

(* The function and its arguments move to new registers, stage and above.       *)
Staged(fn, regs) ==
  [t |-> Copies(Put_(Room(fn.t, 1 + Len(regs)), <<"MOVE", fn.t.next, fn.r>>), regs, fn.t.next + 1),
   at |-> fn.t.next, n |-> Len(regs)]
Calling(t, call, mv, dest, want) ==
  Put_(t, IF mv >= 0 THEN <<"CALLV", dest, call.at, call.at + 1, call.n, mv>>
          ELSE <<"CALL", dest, call.at, call.at + 1, call.n, want>>)
Results(call, mv, a, want) ==
  LET out == call.t.next IN
  IF want = -1 THEN [Calling(Room(call.t, 1), call, mv, out, -1) EXCEPT !.open = [at |-> a, mv |-> out]]
  ELSE IF want = 0 THEN Closed(Calling(call.t, call, mv, 0, 0))
  ELSE IF mv < 0 THEN Closed(WriteAll(Calling(Room(call.t, want), call, mv, out, want), a, out, want))
  ELSE Closed(WriteAll(Put_(Calling(Room(call.t, want + 1), call, mv, out + want, -1),
                            <<"UNPACK", out + want, out, want>>), a, out, want))
TailCalled(call, mv) ==
  Closed(Put_(call.t, IF mv >= 0 THEN <<"TAILCALLV", 0, call.at, call.at + 1, call.n, mv>>
                      ELSE <<"TAILCALL", 0, call.at, call.at + 1, call.n>>))

StagedCall(t, a, b, c, tail) ==
  LET regs == Regs(a + 1, IF b = 0 THEN t.open.at ELSE a + b)
      mv == IF b = 0 THEN t.open.mv ELSE -1 IN
  IF b = 0 /\ ~OpenFrom(t, a + 1) THEN Bad(t)
  ELSE IF tail THEN TailCalled(Staged(ReadReg(t, a), regs), mv)
  ELSE Results(Staged(ReadReg(t, a), regs), mv, a, c - 1)

ReturnValues(t, a, b, close) ==
  LET u == IF close THEN Put_(t, <<"PCLOSE", 0>>) ELSE t
      regs == Regs(a, IF b = 0 THEN t.open.at ELSE a + b - 1)
      moved == Copies(Room(u, Len(regs)), regs, u.next) IN
  IF b = 0 /\ ~OpenFrom(t, a) THEN Bad(t)
  ELSE Closed(Put_(moved, IF b = 0 THEN <<"RETURNV", u.next, Len(regs), t.open.mv>>
                          ELSE <<"RETURN", u.next, Len(regs)>>))

SetList(t, w) ==
  LET table == ReadReg(t, w.a)
      n == IF w.b = 0 THEN t.open.at - (w.a + 1) ELSE w.b
      set[i \in 0 .. n] ==
        IF i = 0 THEN table.t
        ELSE LET key == ConstantReg(set[i - 1], Num(w.c + i))
                 value == ReadReg(key.t, w.a + i) IN
             Put_(value.t, <<"SETTABLE", table.r, key.r, value.r>>) IN
  IF w.b = 0 /\ ~OpenFrom(t, w.a + 1) THEN Bad(t)
  ELSE IF w.b = 0 THEN Closed(Put_(set[n], <<"SETLISTV", table.r, w.c + n + 1, t.open.mv>>))
  ELSE set[n]

-----------------------------------------------------------------------------
(* One instruction.  Where it reads operands, left to right.                    *)

Two(t, x, y) == LET l == ReadReg(t, x)
                    r == ReadReg(l.t, y) IN [t |-> r.t, l |-> l.r, r |-> r.r]
Value(t, src, w) == IF w.k = 1 THEN ConstantReg(t, src.consts[w.c + 1]) ELSE ReadReg(t, w.c)

Store(t, src, w) ==
  LET value == Value(t, src, w)
      table == ReadReg(value.t, w.a)
      key == CASE w.op = "SETTABLE" -> ReadReg(table.t, w.b)
               [] w.op = "SETI" -> ConstantReg(table.t, Num(w.b))
               [] w.op = "SETFIELD" -> ConstantReg(table.t, src.consts[w.b + 1]) IN
  Put_(key.t, <<"SETTABLE", table.r, key.r, value.r>>)
StoreUp(t, src, w) ==
  LET key == ConstantReg(Put_(Room(t, 1), <<"GETUPVAL", t.next, w.a + 1>>), src.consts[w.b + 1])
      value == Value(key.t, src, w) IN
  Put_(value.t, <<"SETTABLE", t.next, key.r, value.r>>)

(* The target of a result is chosen before the operands are read.               *)
Fetch(t, src, w) ==
  LET keyed == CASE w.op = "GETI" -> ConstantReg(t, Num(w.c))
                 [] w.op \in {"GETFIELD", "SELF"} -> ConstantReg(t, src.consts[w.c + 1])
                 [] OTHER -> [t |-> t, r |-> 0]
      table == ReadReg(ToRoom(keyed.t, w.a), w.b)
      key == IF w.op = "GETTABLE" THEN ReadReg(table.t, w.c) ELSE [t |-> table.t, r |-> keyed.r]
      out == To(keyed.t, w.a) IN
  Commit(Put_(key.t, <<"GETTABLE", out, table.r, key.r>>), w.a, out)
FetchUp(t, src, w) ==
  LET key == ConstantReg(Put_(Room(t, 1), <<"GETUPVAL", t.next, w.b + 1>>), src.consts[w.c + 1]) IN
  Into(key.t, w.a, "GETTABLE", <<t.next, key.r>>)
SelfCall(t, src, w) ==
  LET obj == ReadReg(t, w.b)
      key == ConstantReg(WriteFrom(obj.t, w.a + 1, obj.r), src.consts[w.c + 1]) IN
  Into(key.t, w.a, "GETTABLE", <<obj.r, key.r>>)

Arith(t, src, w) ==
  LET left == ReadReg(t, w.b)
      right == CASE w.op = "ADDI" -> ConstantReg(left.t, Num(w.c))
                 [] w.op = "ADDK" -> ConstantReg(left.t, src.consts[w.c + 1])
                 [] w.op = "ADD" -> ReadReg(left.t, w.c) IN
  Into(right.t, w.a, "ADD", <<left.r, right.r>>)

Unary(t, w) ==
  LET x == ReadReg(ToRoom(t, w.a), w.b)
      out == To(t, w.a) IN
  Commit(Put_(x.t, <<IF w.op = "UNM" THEN "NEG" ELSE w.op, out, x.r>>), w.a, out)
Concat(t, w) ==
  LET last == ReadReg(t, w.a + w.b - 1)
      joined[i \in 1 .. w.b] ==
        IF i = 1 THEN last
        ELSE LET right == joined[i - 1]
                 left == ReadReg(Room(right.t, 1), w.a + w.b - i) IN
             [t |-> Put_(left.t, <<"CONCAT", right.t.next, left.r, right.r>>), r |-> right.t.next] IN
  WriteFrom(joined[w.b].t, w.a, joined[w.b].r)

CondJump(t, ins, k, target) ==
  PatchTo(Put_(t, <<IF k = 1 THEN "JMPIF" ELSE "JMPIFNOT", 0, ins>>), target)
Compared(x, w, l, r, target) ==
  CondJump(Put_(Room(x, 1), <<CASE w.op \in {"EQ", "EQK", "EQI"} -> "EQ"
                                [] w.op \in {"LT", "LTI", "GTI"} -> "LT"
                                [] OTHER -> "LE", x.next, l, r>>), x.next, w.k, target)
Compare(t, src, w, target) ==
  LET left == ReadReg(t, w.a)
      number == ConstantReg(t, Num(w.b))
      other == CASE w.op \in {"EQ", "LT", "LE"} -> ReadReg(left.t, w.b)
                 [] w.op = "EQK" -> ConstantReg(left.t, src.consts[w.b + 1])
                 [] OTHER -> ReadReg(number.t, w.a) IN
  CASE w.op \in {"EQ", "LT", "LE", "EQK"} -> Compared(other.t, w, left.r, other.r, target)
    [] w.op \in {"GTI", "GEI"} -> Compared(other.t, w, number.r, other.r, target)
    [] OTHER -> Compared(other.t, w, other.r, number.r, target)
Test(t, w, target) == LET x == ReadReg(t, w.a) IN CondJump(x.t, x.r, w.k, target)
TestSet(t, w, pc, target) ==
  LET x == ReadReg(t, w.b)
      skip == CondJump(x.t, x.r, 1 - w.k, pc + 2) IN
  PatchTo(Put_(WriteFrom(skip, w.a, x.r), <<"JMP", 0>>), target)

TForCall(t, w) ==
  LET fn == ReadReg(t, w.a)
      stage == fn.t.next
      args == Copies(Room(Put_(Room(fn.t, 1), <<"MOVE", stage, fn.r>>), 2), <<w.a + 1, w.a + 3>>, stage + 1)
      out == args.next IN
  WriteAll(Put_(Room(args, w.c), <<"CALL", out, stage, stage + 1, 2, w.c>>), w.a + 3, out, w.c)

Varargs(t, w) ==
  IF w.c = 0 THEN [Put_(Room(t, 1), <<"PVARARG", t.next, -1>>) EXCEPT !.open = [at |-> w.a, mv |-> t.next]]
  ELSE Closed(WriteAll(Put_(Room(t, w.c - 1), <<"PVARARG", t.next, w.c - 1>>), w.a, t.next, w.c - 1))

-----------------------------------------------------------------------------
(* Instructions with a companion: they take two places.                         *)

Companion(src, pc) == IF pc + 1 < Len(src.code) THEN src.code[pc + 2].op ELSE "none"
NeedsMm == {"ADDI", "ADDK", "ADD"}
NeedsJmp == {"EQ", "LT", "LE", "EQK", "EQI", "LTI", "LEI", "GTI", "GEI", "TEST", "TESTSET"}
NeedsExtra(w) == w.op \in {"LOADKX", "NEWTABLE"} \/ (w.op = "SETLIST" /\ w.k = 1)
Wide(w) == w.op \in NeedsMm \cup NeedsJmp \/ NeedsExtra(w)
Missing(src, pc, w) ==
  \/ w.op \in NeedsMm /\ Companion(src, pc) # "MMBIN"
  \/ w.op \in NeedsJmp /\ Companion(src, pc) # "JMP"
  \/ NeedsExtra(w) /\ Companion(src, pc) # "EXTRAARG"

(* One instruction, w at pc.                                                 *)
Loads == {"MOVE", "LOADI", "LOADK", "LOADKX", "LOADFALSE", "LFALSESKIP", "LOADTRUE", "LOADNIL"}
Load(t, src, w, pc) ==
  CASE w.op = "MOVE" -> LET x == ReadReg(t, w.b) IN WriteFrom(x.t, w.a, x.r)
    [] w.op = "LOADI" -> LoadValue(t, w.a, Num(w.b))
    [] w.op = "LOADK" -> LoadValue(t, w.a, src.consts[w.b + 1])
    [] w.op = "LOADKX" -> LoadValue(t, w.a, src.consts[src.code[pc + 2].b + 1])
    [] w.op = "LOADFALSE" -> LoadValue(t, w.a, Bool(FALSE))
    [] w.op = "LFALSESKIP" -> PatchTo(Put_(LoadValue(t, w.a, Bool(FALSE)), <<"JMP", 0>>), pc + 2)
    [] w.op = "LOADTRUE" -> LoadValue(t, w.a, Bool(TRUE))
    [] w.op = "LOADNIL" -> LET set[i \in 0 .. w.b + 1] ==
                                 IF i = 0 THEN t ELSE LoadValue(set[i - 1], w.a + i - 1, Nil)
                           IN  set[w.b + 1]

Accesses == {"GETUPVAL", "SETUPVAL", "GETTABUP", "GETTABLE", "GETI", "GETFIELD", "SETTABUP", "SETTABLE",
             "SETI", "SETFIELD", "NEWTABLE", "SELF"}
Access(t, src, w) ==
  CASE w.op = "GETUPVAL" -> Into(t, w.a, "GETUPVAL", <<w.b + 1>>)
    [] w.op = "SETUPVAL" -> LET x == ReadReg(t, w.a) IN Put_(x.t, <<"SETUPVAL", w.b + 1, x.r>>)
    [] w.op = "GETTABUP" -> FetchUp(t, src, w)
    [] w.op \in {"GETTABLE", "GETI", "GETFIELD"} -> Fetch(t, src, w)
    [] w.op = "SETTABUP" -> StoreUp(t, src, w)
    [] w.op \in {"SETTABLE", "SETI", "SETFIELD"} -> Store(t, src, w)
    [] w.op = "NEWTABLE" -> Into(t, w.a, "NEWTABLE", <<>>)
    [] w.op = "SELF" -> SelfCall(t, src, w)

Operations == NeedsMm \cup {"NOT", "LEN", "UNM", "CONCAT"}
Operation(t, src, w) ==
  CASE w.op \in NeedsMm -> Arith(t, src, w)
    [] w.op \in {"NOT", "LEN", "UNM"} -> Unary(t, w)
    [] w.op = "CONCAT" -> Concat(t, w)

Jumps_ == NeedsJmp \cup {"CLOSE", "TBC", "JMP"}
Jump_(t, src, w, pc) ==
  LET target == pc + 2 + src.code[pc + 2].b IN
  CASE w.op = "CLOSE" -> Put_(t, <<"PCLOSE", w.a>>)
    [] w.op = "TBC" -> Put_(t, <<"PTBC", w.a>>)
    [] w.op = "JMP" -> PatchTo(Put_(t, <<"JMP", 0>>), pc + 1 + w.b)
    [] w.op = "TEST" -> Test(t, w, target)
    [] w.op = "TESTSET" -> TestSet(t, w, pc, target)
    [] w.op \in NeedsJmp \ {"TEST", "TESTSET"} -> Compare(t, src, w, target)

Calls_ == {"CALL", "TAILCALL", "RETURN", "RETURN0", "RETURN1"}
Call_(t, w) ==
  CASE w.op \in {"CALL", "TAILCALL"} ->
         StagedCall(IF w.op = "TAILCALL" /\ w.k = 1 THEN Put_(t, <<"PCLOSE", 0>>) ELSE t,
                    w.a, w.b, w.c, w.op = "TAILCALL")
    [] w.op \in {"RETURN", "RETURN1"} ->
         ReturnValues(t, w.a, IF w.op = "RETURN1" THEN 2 ELSE w.b, w.op = "RETURN" /\ w.k = 1)
    [] w.op = "RETURN0" -> Closed(Put_(t, <<"RETURN", 0, 0>>))

Loops == {"FORPREP", "FORLOOP", "TFORPREP", "TFORCALL", "TFORLOOP"}
Loop(t, w, pc) ==
  CASE w.op = "FORPREP" -> PatchTo(Put_(t, <<"PFORPREP", 0, w.a>>), pc + w.b + 2)
    [] w.op = "FORLOOP" -> PatchTo(Put_(t, <<"PFORLOOP", 0, w.a>>), pc + 1 - w.b)
    [] w.op = "TFORPREP" -> PatchTo(Put_(t, <<"PTFORPREP", 0, w.a>>), pc + 1 + w.b)
    [] w.op = "TFORCALL" -> TForCall(t, w)
    [] w.op = "TFORLOOP" -> PatchTo(Put_(t, <<"PTFORLOOP", 0, w.a>>), pc + 1 - w.b)

Other(t, w) ==
  CASE w.op = "SETLIST" -> SetList(t, w)
    [] w.op = "CLOSURE" -> Into(t, w.a, "CLOSURE", <<w.b + 1>>)
    [] w.op = "VARARG" -> Varargs(t, w)
    [] w.op = "GETVARG" -> LET x == ReadReg(ToRoom(t, w.a), w.c) IN
                           Commit(Put_(x.t, <<"PGETVARG", To(t, w.a), x.r>>), w.a, To(t, w.a))
    [] w.op = "ERRNNIL" -> LET x == ReadReg(t, w.a) IN Put_(x.t, <<"CHECKNIL", x.r>>)
    [] w.op = "VARARGPREP" -> t
    [] OTHER -> Bad(t)

One(t, src, pc) ==
  LET w == src.code[pc + 1] IN
  IF Missing(src, pc, w) THEN Bad(t)
  ELSE CASE w.op \in Loads -> Load(t, src, w, pc)
         [] w.op \in Accesses -> Access(t, src, w)
         [] w.op \in Operations -> Operation(t, src, w)
         [] w.op \in Jumps_ -> Jump_(t, src, w, pc)
         [] w.op \in Calls_ -> Call_(t, w)
         [] w.op \in Loops -> Loop(t, w, pc)
         [] OTHER -> Other(t, w)

(* A tail call ends the function: the return that must follow it is dead, and is *)
(* made one of no values, for it would ask for open results that are not there.  *)
Normalised(code) ==
  [i \in DOMAIN code |->
     IF i > 1 /\ code[i].op = "RETURN" /\ code[i].b = 0 /\ code[i - 1].op = "TAILCALL"
     THEN [code[i] EXCEPT !.b = 1] ELSE code[i]]

MappedTo(t, pc) == [t EXCEPT !.pcmap = (pc :> Len(t.code) + 1) @@ @]
RECURSIVE TranslateFrom(_, _, _), Behind(_, _, _)
Behind(done, src, pc) ==
  IF Wide(src.code[pc + 1]) THEN TranslateFrom(MappedTo(done, pc + 1), src, pc + 2)
  ELSE TranslateFrom(done, src, pc + 1)
TranslateFrom(t, src, pc) ==
  IF ~t.ok THEN t
  ELSE IF pc >= Len(src.code) THEN MappedTo(t, pc)
  ELSE Behind(One(MappedTo(t, pc), src, pc), src, pc)

Patched(t) ==
  [i \in DOMAIN t.code |->
     IF \E p \in Range(t.patches) : p.at = i
     THEN [t.code[i] EXCEPT ![2] = t.pcmap[(CHOOSE p \in Range(t.patches) : p.at = i).to]]
     ELSE t.code[i]]

Assembled(src, children, t) ==
  LET ok == /\ t.ok
            /\ \A c \in Range(children) : c.ok
            /\ \A p \in Range(t.patches) : p.to \in DOMAIN t.pcmap IN
  [ok |-> ok,
   proto |-> [code |-> IF ok THEN Patched(t) ELSE <<>>, up |-> src.up, children |-> t.children,
              regs |-> IF t.next < 1 THEN 1 ELSE t.next, params |-> src.params, va |-> src.va]]
Translated(src, children) ==
  Assembled(src, children,
            TranslateFrom(NewTranslator(src, [i \in DOMAIN children |-> children[i].proto]), src, 0))
RECURSIVE Translate(_)
Translate(function) ==
  Translated([function EXCEPT !.code = Normalised(@)],
             [i \in DOMAIN function.children |-> Translate(function.children[i])])

=============================================================================

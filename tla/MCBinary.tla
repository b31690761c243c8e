------------------------------- MODULE MCBinary -------------------------------
(***************************************************************************)
(* Functions with every kind of constant at the ends of its range, nested ones *)
(* up to and beyond the limit, and PUC functions with near and far lines.       *)
(***************************************************************************)
EXTENDS LuaBinary

Bytes_(v) == [k |-> "bytes", v |-> v]
Int_(v) == [k |-> "int", n |-> v]
X == <<120>>
Consts ==
  {<<>>, <<NilConst, TrueConst, FalseConst>>, <<Int_(IntMax), Int_(-IntMax - 1)>>,
   <<Int_(0), Int_(-1), Int_(64), Int_(-64), Int_(-65)>>, <<[k |-> "float", v |-> <<1, 2, 3, 4, 5, 6, 7, 8>>]>>,
   <<Bytes_(X), Bytes_(<<>>), Bytes_(X)>>, <<Bytes_([i \in 1 .. 130 |-> 7])>>}
Codes == {<<>>, <<<<1, 0, -1, 63, 64, -64>>>>, <<<<69, 200, -200, 0, 0, 0>>, <<2, 1, 2, 3, 4, 5>>>>}

Basic ==
  [name |-> X, regs |-> 3, params |-> 0, va |-> FALSE, vareg |-> -1, env |-> -1, ptypes |-> <<>>, rtypes |-> <<X>>,
   vatype |-> X, consts |-> <<>>, up |-> <<>>, children |-> <<>>, code |-> <<>>,
   source |-> <<64, 97>>, first |-> 1, last |-> 9, lines |-> <<>>, locals |-> <<>>, strip |-> FALSE]
Small ==
  {[Basic EXCEPT !.consts = c, !.code = k, !.lines = [i \in DOMAIN k |-> 3 * i],
                 !.locals = IF k = <<>> THEN <<>> ELSE <<[name |-> "a", reg |-> 2, start |-> 0, end |-> Len(k)]>>] :
     c \in Consts, k \in Codes}
Signatures ==
  {[Basic EXCEPT !.params = n, !.ptypes = [i \in 1 .. n |-> X], !.va = v, !.vareg = IF v THEN n ELSE -1, !.env = e,
                 !.up = u] :
     n \in {0, 2}, v \in BOOLEAN, e \in {-1, 2},
     u \in {<<>>, <<[kind |-> "local", index |-> 0, name |-> X], [kind |-> "upvalue", index |-> 200, name |-> <<>>]>>}}
Nest[d \in Nat] == IF d = 0 THEN Basic ELSE [Basic EXCEPT !.children = <<Nest[d - 1]>>, !.consts = <<Bytes_(X)>>]
Others ==
  {Nest[d] : d \in 1 .. MaxDepth + 1} \cup
  {[Basic EXCEPT !.children = <<[Basic EXCEPT !.source = s], [Basic EXCEPT !.consts = <<Bytes_(X), Int_(1)>>]>>,
                 !.consts = <<Bytes_(X)>>] : s \in {<<64, 97>>, <<61, 98>>}}
FunctionSet == Small \cup Signatures \cup Others

PucBasic ==
  [first |-> 1, last |-> 300, params |-> 1, flags |-> 1, size |-> 4, code |-> <<<<0, 1, 2, 3>>, <<200, 0, 0, 70>>, <<0, 0, 0, 72>>>>,
   consts |-> <<>>, children |-> <<>>, source |-> <<64, 97>>, lines |-> <<>>, locals |-> <<>>, up |-> <<>>]
PucUp == [instack |-> 1, index |-> 0, name |-> X]
PucSet ==
  {[PucBasic EXCEPT !.lines = l, !.source = s] :
     l \in {<<>>, <<1, 2, 1>>, <<1, 128, 1>>, <<1, 129, 130>>, <<300, 1, 300>>}, s \in {None, <<64, 97>>}} \cup
  {[PucBasic EXCEPT !.consts = c] : c \in Consts} \cup
  {[PucBasic EXCEPT !.up = u, !.consts = <<Bytes_(X)>>, !.locals = <<<<X, 0, 3>>, <<<<121>>, 1, 2>>>>,
                    !.children = <<[PucBasic EXCEPT !.consts = <<Bytes_(<<121>>), Bytes_(X)>>, !.up = u, !.flags = 3]>>] :
     u \in {<<>>, <<PucUp>>, <<[PucUp EXCEPT !.name = None]>>}}

FragileSet ==
  {[Basic EXCEPT !.consts = <<Bytes_(X), Int_(-65)>>, !.code = <<<<69, 200, -200, 0, 0, 0>>>>, !.lines = <<3>>],
   Nest[1]} \cup {p \in PucSet : p.children # <<>> \/ p.lines = <<300, 1, 300>>}
Dumped == FunctionSet \cup (FragileSet \ PucSet)

-----------------------------------------------------------------------------

(* What dumping without debug information takes away.                          *)
RECURSIVE Anonymous(_)
Anonymous(p) ==
  [p EXCEPT !.source = None, !.lines = <<>>, !.strip = TRUE,
            !.locals = [i \in DOMAIN @ |-> [@[i] EXCEPT !.name = "(temporary)"]],
            !.up = [i \in DOMAIN @ |-> [@[i] EXCEPT !.name = <<0>>]],
            !.children = [i \in DOMAIN @ |-> Anonymous(@[i])]]
RECURSIVE Kept(_)
Kept(p) == [p EXCEPT !.strip = FALSE, !.children = [i \in DOMAIN @ |-> Kept(@[i])]]
RECURSIVE Bare(_)
Bare(p) ==
  [p EXCEPT !.source = None, !.first = 0, !.last = 0, !.lines = <<>>, !.locals = <<>>,
            !.children = [i \in DOMAIN @ |-> Bare(@[i])]]
RECURSIVE Same(_, _)
Same(read, p) ==
  /\ \A f \in {"first", "last", "params", "size", "code", "consts", "source", "locals", "up"} : read[f] = p[f]
  /\ Lines(read) = p.lines
  /\ Len(read.children) = Len(p.children)
  /\ \A i \in DOMAIN p.children : Same(read.children[i], p.children[i])

(* What is read of an undamaged chunk: the function, its source and the line of  *)
(* each instruction, or what stripping leaves of it, also the second time        *)
(* around; and of one that lost bytes, has some too many or begins wrongly,       *)
(* never a function.                                                          *)
Faithful(read) ==
  IF damaged THEN read.is # "function"
  ELSE /\ read.is = "function"
       /\ CASE origin.format = "native" -> read.v = Bare(origin.function)
            [] origin.format = "debug" ->
                 read.v = IF origin.strip THEN Anonymous(origin.function) ELSE Kept(origin.function)
            [] origin.format = "puc" -> Same(read.v, origin.function)

=============================================================================

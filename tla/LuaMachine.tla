------------------------------ MODULE LuaMachine ------------------------------
(***************************************************************************)
(* The interpreter of the register bytecode: one action per group of opcodes    *)
(* that work alike, one step per instruction.  Programs see the world through   *)
(* host functions: note records its arguments, ask answers yes at most MaxAsk  *)
(* times, fresh gives a new number, step is an iterator that goes on while the  *)
(* world says so, and co runs a function to its end in a new coroutine.        *)
(* Handlers of close (LuaFrames has them in Lua) only record the closed value.  *)
(***************************************************************************)
EXTENDS LuaCompiler
LOCAL INSTANCE SequencesExt

CONSTANTS Programs,   \* the programs to compile and run
          MaxAsk      \* how often ask may answer yes

VARIABLES chunk,      \* the program: its form, "text" or "binary", and what it is
          fns,        \* closures: [proto, up], up the cells of the upvalues
          cells,      \* cells by number
          tabs,       \* tables by number, the first that of the globals
          frames,     \* the frames of all threads, the innermost last
          asked,      \* the answers of ask, in order
          trace,      \* what was noted and closed, in order
          status      \* "run", "done", "error", or "rejected" by the compiler

vars == <<chunk, fns, cells, tabs, frames, asked, trace, status>>

Fn(n) == [k |-> "fn", n |-> n]
Tab(n) == [k |-> "tab", n |-> n]
Multi(vs) == [k |-> "mv", vs |-> vs]
Hosts == {"note", "ask", "fresh", "step", "co"}

F == frames[Len(frames)]
Ins == fns[F.fn].proto.code[F.pc]
Op == Ins[1]
R(r) == F.regs[r]
Rs(base, n) == [i \in 1 .. n |-> R(base + i - 1)]
Expand(v) == IF v.k = "mv" THEN v.vs ELSE <<v>>

NewFrame(closures, n, args, dest, want, thread) ==
  LET p == closures[n].proto
      arg(i) == IF i <= Len(args) THEN args[i] ELSE Nil IN
  [fn |-> n, pc |-> 1, cells |-> <<>>, close |-> <<>>, dest |-> dest, want |-> want, thread |-> thread,
   regs |-> [r \in 0 .. p.regs - 1 |-> IF r < p.params THEN arg(r + 1) ELSE Nil],
   varargs |-> IF p.va THEN SubSeq(args, p.params + 1, Len(args)) ELSE <<>>]

WriteResults(frame, dest, want, vs) ==
  LET value(i) == IF i <= Len(vs) THEN vs[i] ELSE Nil IN
  IF want = -1 THEN [frame EXCEPT !.regs[dest] = Multi(vs)]
  ELSE [frame EXCEPT !.regs = [r \in DOMAIN @ |-> IF r \in dest .. dest + want - 1
                                                   THEN value(r - dest + 1) ELSE @[r]]]

(* The frame on top goes on behind its instruction, changed as given.          *)
Next1(frame) == [frame EXCEPT !.pc = @ + 1]
Step(frame) == frames' = [frames EXCEPT ![Len(frames)] = Next1(frame)]
Write(r, v) == Step([F EXCEPT !.regs[r] = v])
Running(op) == status = "run" /\ Op = op
Quiet == UNCHANGED <<chunk, asked, trace, status>>
Heap == <<fns, cells, tabs>>

Closing(values) ==
  LET open == SelectSeq(values, Truthy) IN [i \in 1 .. Len(open) |-> <<"close", open[Len(open) + 1 - i].n>>]

(* Nothing in these programs protects: an error closes every frame.             *)
Raise ==
  LET closed[i \in 0 .. Len(frames)] ==
        IF i = 0 THEN <<>> ELSE Closing(frames[i].close) \o closed[i - 1] IN
  /\ trace' = trace \o closed[Len(frames)]
  /\ frames' = <<>>
  /\ status' = "error"
  /\ UNCHANGED <<chunk, asked, Heap>>

-----------------------------------------------------------------------------
Init ==
  /\ \E program \in Programs : chunk = [form |-> "text", of |-> program]
  /\ LET compiled == Compile(chunk.of) IN
     IF compiled.ok
     THEN /\ fns = <<[proto |-> compiled.proto, up |-> <<>>]>>
          /\ frames = <<[NewFrame(fns, 1, <<>>, 0, -1, 0) EXCEPT !.regs[0] = Tab(1)]>>
          /\ status = "run"
     ELSE fns = <<>> /\ frames = <<>> /\ status = "rejected"
  /\ cells = <<>>
  /\ tabs = <<[key \in {Str(h) : h \in Hosts} |-> Host(key.n)]>>
  /\ asked = <<>>
  /\ trace = <<>>

LoadK_ == Running("LOADK") /\ Write(Ins[2], Ins[3]) /\ Quiet /\ UNCHANGED Heap
Move == Running("MOVE") /\ Write(Ins[2], R(Ins[3])) /\ Quiet /\ UNCHANGED Heap
Not_ == Running("NOT") /\ Write(Ins[2], Bool(~Truthy(R(Ins[3])))) /\ Quiet /\ UNCHANGED Heap

(* A local comes into scope, a new one each time: it leaves its former cell to  *)
(* the closures that have it.                                              *)
LocalOp ==
  LET a == Ins[2]
      set == [F EXCEPT !.regs[a] = R(Ins[3])] IN
  /\ Running("LOCAL")
  /\ IF a \in DOMAIN F.cells
     THEN /\ Step([set EXCEPT !.cells[a] = Len(cells) + 1])
          /\ cells' = Append(cells, R(Ins[3]))
     ELSE Step(set) /\ UNCHANGED cells
  /\ Quiet /\ UNCHANGED <<fns, tabs>>

GetCell ==
  /\ Running("GETCELL")
  /\ Write(Ins[2], IF Ins[3] \in DOMAIN F.cells THEN cells[F.cells[Ins[3]]] ELSE R(Ins[3]))
  /\ Quiet /\ UNCHANGED Heap
SetCell ==
  LET a == Ins[2]
      v == R(Ins[3])
      set == [F EXCEPT !.regs[a] = v] IN
  /\ Running("SETCELL")
  /\ IF a \in DOMAIN F.cells
     THEN Step(set) /\ cells' = [cells EXCEPT ![F.cells[a]] = v]
     ELSE Step([set EXCEPT !.cells = (a :> Len(cells) + 1) @@ @]) /\ cells' = Append(cells, v)
  /\ Quiet /\ UNCHANGED <<fns, tabs>>

GetUpval ==
  Running("GETUPVAL") /\ Write(Ins[2], cells[fns[F.fn].up[Ins[3]]]) /\ Quiet /\ UNCHANGED Heap

Holds(frame, cell) == {r \in DOMAIN frame.cells : frame.cells[r] = cell}

(* Mutant: the registers that a cell was made from keep the old value.          *)
SetUpvalIncoherent ==
  /\ Running("SETUPVAL")
  /\ cells' = [cells EXCEPT ![fns[F.fn].up[Ins[2]]] = R(Ins[3])]
  /\ Step(F) /\ Quiet /\ UNCHANGED <<fns, tabs>>

(* The register of every frame of this thread that holds the variable follows.  *)
SetUpval ==
  LET cell == fns[F.fn].up[Ins[2]]
      v == R(Ins[3])
      follow(frame) ==
        IF frame.thread # F.thread THEN frame
        ELSE [frame EXCEPT !.regs = [r \in DOMAIN @ |-> IF r \in Holds(frame, cell) THEN v ELSE @[r]]] IN
  /\ Running("SETUPVAL")
  /\ cells' = [cells EXCEPT ![cell] = v]
  /\ frames' = [i \in DOMAIN frames |->
                  IF i = Len(frames) THEN Next1(follow(frames[i])) ELSE follow(frames[i])]
  /\ Quiet /\ UNCHANGED <<fns, tabs>>

(* A closure takes the cells of the locals it uses; a local that has none gets  *)
(* one with the value of its register.                                      *)
Closure ==
  LET child == fns[F.fn].proto.children[Ins[3]]
      locals == {child.up[i].index : i \in {j \in DOMAIN child.up : child.up[j].kind = "local"}}
      fresh == SetToSeq(locals \ DOMAIN F.cells)
      given == [r \in Range(fresh) |-> Len(cells) + CHOOSE i \in DOMAIN fresh : fresh[i] = r] @@ F.cells
      cell(u) == IF u.kind = "local" THEN given[u.index] ELSE fns[F.fn].up[u.index] IN
  /\ Running("CLOSURE")
  /\ cells' = cells \o [i \in 1 .. Len(fresh) |-> R(fresh[i])]
  /\ fns' = Append(fns, [proto |-> child, up |-> [i \in DOMAIN child.up |-> cell(child.up[i])]])
  /\ Step([F EXCEPT !.regs[Ins[2]] = Fn(Len(fns) + 1), !.cells = given])
  /\ Quiet /\ UNCHANGED tabs

-----------------------------------------------------------------------------
(* Tables, without metatables.                                              *)

NewTable ==
  /\ Running("NEWTABLE")
  /\ tabs' = Append(tabs, <<>>)
  /\ Write(Ins[2], Tab(Len(tabs) + 1))
  /\ Quiet /\ UNCHANGED <<fns, cells>>
Get(heap, t, key) == IF key \in DOMAIN heap[t.n] THEN heap[t.n][key] ELSE Nil
Put(heap, t, key, v) == [heap EXCEPT ![t.n] = (key :> v) @@ @]
GetTable ==
  /\ Running("GETTABLE")
  /\ IF R(Ins[3]).k = "tab"
     THEN Write(Ins[2], Get(tabs, R(Ins[3]), R(Ins[4]))) /\ Quiet /\ UNCHANGED Heap
     ELSE Raise
SetTable ==
  /\ Running("SETTABLE")
  /\ IF R(Ins[2]).k = "tab"
     THEN tabs' = Put(tabs, R(Ins[2]), R(Ins[3]), R(Ins[4])) /\ Step(F) /\ Quiet /\ UNCHANGED <<fns, cells>>
     ELSE Raise
SetListV ==
  LET vs == R(Ins[4]).vs IN
  /\ Running("SETLISTV")
  /\ tabs' = [tabs EXCEPT ![R(Ins[2]).n] =
                [key \in {Num(Ins[3] + i - 1) : i \in DOMAIN vs} |-> vs[key.n - Ins[3] + 1]] @@ @]
  /\ Step(F) /\ Quiet /\ UNCHANGED <<fns, cells>>

VarArgs ==
  Running("VARARG") /\ Step(WriteResults(F, Ins[2], Ins[3], F.varargs)) /\ Quiet /\ UNCHANGED Heap
Unpack ==
  Running("UNPACK") /\ Step(WriteResults(F, Ins[3], Ins[4], Expand(R(Ins[2])))) /\ Quiet /\ UNCHANGED Heap

-----------------------------------------------------------------------------
(* Jumps and loops.                                                          *)

Taken ==
  CASE Op = "JMP" -> TRUE
    [] Op = "JMPIF" -> Truthy(R(Ins[3]))
    [] Op = "JMPIFNOT" -> ~Truthy(R(Ins[3]))
    [] Op = "JMPIFNIL" -> R(Ins[3]) = Nil
Jump ==
  /\ status = "run" /\ Op \in {"JMP", "JMPIF", "JMPIFNOT", "JMPIFNIL"}
  /\ frames' = [frames EXCEPT ![Len(frames)].pc = IF Taken THEN Ins[2] ELSE @ + 1]
  /\ Quiet /\ UNCHANGED Heap

(* Counting up by one over small numbers: LuaForLoop has all others.            *)
For ==
  LET next == IF Op = "FORPREP" THEN R(Ins[3]).n ELSE R(Ins[3]).n + R(Ins[5]).n
      again == next <= R(Ins[4]).n IN
  /\ status = "run" /\ Op \in {"FORPREP", "FORLOOP"}
  /\ Step([F EXCEPT !.regs[Ins[3]] = Num(next),
                    !.pc = IF again = (Op = "FORPREP") THEN @ ELSE Ins[2] - 1])
  /\ Quiet /\ UNCHANGED Heap

(* A nil or false keeps its place, so that depths count the variables.          *)
Tbc ==
  /\ Running("TBC")
  /\ IF ~Truthy(R(Ins[2])) \/ R(Ins[2]).k = "closable"
     THEN Step([F EXCEPT !.close = Append(@, R(Ins[2]))]) /\ Quiet /\ UNCHANGED Heap
     ELSE Raise

(* Mutant: what was closed stays on the list.                                  *)
CloseAgain ==
  /\ Running("CLOSE")
  /\ IF Ins[2] <= Len(F.close)
     THEN /\ trace' = trace \o Closing(SubSeq(F.close, Ins[2] + 1, Len(F.close)))
          /\ Step(F)
          /\ UNCHANGED <<chunk, asked, status, Heap>>
     ELSE Raise
Close ==
  /\ Running("CLOSE")
  /\ IF Ins[2] <= Len(F.close)
     THEN /\ trace' = trace \o Closing(SubSeq(F.close, Ins[2] + 1, Len(F.close)))
          /\ Step([F EXCEPT !.close = SubSeq(@, 1, Ins[2])])
          /\ UNCHANGED <<chunk, asked, status, Heap>>
     ELSE Raise

-----------------------------------------------------------------------------
(* Calls.                                                                   *)

Shown(v) == IF v.k \in {"fn", "tab"} THEN [v EXCEPT !.n = 0] ELSE v
ShownAll(vs) == [i \in DOMAIN vs |-> Shown(vs[i])]
Answers == {yes \in BOOLEAN : yes => Cardinality({i \in DOMAIN asked : asked[i]}) < MaxAsk}
Fresh(log) == Num(100 + Len(log))

(* Return values from the frame on top, whose caller is below.                  *)
ReturnTo(below, frame, vs) ==
  IF below = <<>> THEN frames' = <<>> /\ status' = "done"
  ELSE /\ frames' = [below EXCEPT ![Len(below)] = WriteResults(@, frame.dest, frame.want, vs)]
       /\ status' = status

Deliver(vs, dest, want, tail) ==
  IF tail THEN ReturnTo(Front(frames), F, vs)
  ELSE Step(WriteResults(F, dest, want, vs)) /\ status' = status

CallHost(name, args, dest, want, tail) ==
  \/ /\ name = "note"
     /\ trace' = Append(trace, <<"note", ShownAll(args)>>)
     /\ Deliver(<<>>, dest, want, tail)
     /\ UNCHANGED asked
  \/ /\ name = "ask"
     /\ \E yes \in Answers : asked' = Append(asked, yes) /\ Deliver(<<Bool(yes)>>, dest, want, tail)
     /\ UNCHANGED trace
  \/ /\ name = "fresh"
     /\ trace' = Append(trace, <<"fresh">>)
     /\ Deliver(<<Fresh(trace)>>, dest, want, tail)
     /\ UNCHANGED asked
  \/ /\ name = "step"
     /\ \E yes \in Answers :
          /\ asked' = Append(asked, yes)
          /\ Deliver(IF yes THEN <<Num(Len(asked)), Num(7)>> ELSE <<Nil>>, dest, want, tail)
     /\ UNCHANGED trace

Enter(n, args, dest, want, tail) ==
  LET called == NewFrame(fns, n, args, dest, want, F.thread)
      replaced == NewFrame(fns, n, args, F.dest, F.want, F.thread) IN
  frames' = IF tail THEN Append(Front(frames), replaced)
            ELSE Append([frames EXCEPT ![Len(frames)] = Next1(F)], called)

Invoke(f, args, dest, want, tail) ==
  CASE f.k = "fn" -> Enter(f.n, args, dest, want, tail) /\ Quiet
    [] f.k = "host" /\ f.n # "co" -> CallHost(f.n, args, dest, want, tail) /\ UNCHANGED chunk
    [] f.k = "host" /\ f.n = "co" ->
         /\ frames' = Append([frames EXCEPT ![Len(frames)] = Next1(F)],
                             NewFrame(fns, args[1].n, Tail(args), dest, want, Len(frames)))
         /\ Quiet

Call ==
  LET more == IF Op \in {"CALLV", "TAILCALLV"} THEN Expand(R(Ins[6])) ELSE <<>>
      args == Rs(Ins[4], Ins[5]) \o more
      tail == Op \in {"TAILCALL", "TAILCALLV"}
      want == IF Op = "CALL" THEN Ins[6] ELSE -1 IN
  /\ status = "run" /\ Op \in {"CALL", "CALLV", "TAILCALL", "TAILCALLV"}
  /\ IF R(Ins[3]).k \in {"fn", "host"}
     THEN Invoke(R(Ins[3]), args, Ins[2], want, tail) /\ UNCHANGED Heap
     ELSE Raise

Return_ ==
  LET vs == CASE Op = "HALT" -> <<>>
              [] Op = "RETURN" -> Rs(Ins[2], Ins[3])
              [] Op = "RETURNV" -> Rs(Ins[2], Ins[3]) \o Expand(R(Ins[4])) IN
  /\ status = "run" /\ Op \in {"RETURN", "RETURNV", "HALT"}
  /\ ReturnTo(Front(frames), F, vs)
  /\ UNCHANGED <<chunk, asked, trace, Heap>>

Next ==
  \/ LoadK_ \/ Move \/ Not_ \/ LocalOp \/ GetCell \/ SetCell \/ GetUpval \/ SetUpval \/ Closure
  \/ NewTable \/ GetTable \/ SetTable \/ SetListV \/ VarArgs \/ Unpack
  \/ Jump \/ For \/ Tbc \/ Close \/ Call \/ Return_

Spec == Init /\ [][Next]_vars

=============================================================================

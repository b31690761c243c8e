----------------------------- MODULE LuaPucMachine -----------------------------
(***************************************************************************)
(* A binary chunk of PUC-Lua, translated and run: the actions of LuaMachine,   *)
(* and those of the opcodes that only the translator emits.  To-be-closed        *)
(* variables of PUC are kept by register, reg, not by depth.                   *)
(***************************************************************************)
EXTENDS LuaMachine, LuaPuc
LOCAL INSTANCE SequencesExt

CONSTANT Chunks      \* the binary chunks to load and run

(* A loaded function has fresh upvalues, the first of them the globals.         *)
Loaded_(proto) == <<[proto |-> proto, up |-> <<1>>]>>
Starts(translated) ==
  IF translated.ok
  THEN /\ fns = Loaded_(translated.proto)
       /\ frames = <<NewFrame(fns, 1, <<Num(1), Num(2)>>, 0, -1, 0)>>
       /\ status = "run"
  ELSE fns = <<>> /\ frames = <<>> /\ status = "rejected"
InitLoaded ==
  /\ \E loaded \in Chunks : chunk = [form |-> "binary", of |-> loaded]
  /\ Starts(Translate(chunk.of))
  /\ cells = <<Tab(1)>>
  /\ tabs = <<[key \in {Str(h) : h \in Hosts} |-> Host(key.n)]>>
  /\ asked = <<>>
  /\ trace = <<>>

Joined(l, r) == [k |-> "cat", l |-> l, r |-> r]
Size(t) == Cardinality({key \in DOMAIN tabs[t.n] : key.k = "num"})

(* Numbers are small, and all that can be joined; other operands are errors.    *)
Gives(v) == Write(Ins[2], v) /\ Quiet /\ UNCHANGED Heap
Left == R(Ins[3])
Right == R(Ins[4])
Numbers == Left.k = "num" /\ Right.k = "num"

Eq == Running("EQ") /\ Gives(Bool(Left = Right))
Lt == Running("LT") /\ IF Numbers THEN Gives(Bool(Left.n < Right.n)) ELSE Raise
Le == Running("LE") /\ IF Numbers THEN Gives(Bool(Left.n <= Right.n)) ELSE Raise
Add == Running("ADD") /\ IF Numbers THEN Gives(Num(Left.n + Right.n)) ELSE Raise
Concat_ ==
  /\ Running("CONCAT")
  /\ IF {Left.k, Right.k} \subseteq {"num", "cat"} THEN Gives(Joined(Left, Right)) ELSE Raise
Neg == Running("NEG") /\ IF Left.k = "num" THEN Gives(Num(-Left.n)) ELSE Raise
Len_ == Running("LEN") /\ IF Left.k = "tab" THEN Gives(Num(Size(Left))) ELSE Raise

CheckNil ==
  /\ Running("CHECKNIL")
  /\ IF R(Ins[2]) = Nil THEN Step(F) /\ Quiet /\ UNCHANGED Heap ELSE Raise

(* What is to be closed.  Nothing is kept for nil and false.                    *)
Pending(frame, reg, v) ==
  IF Truthy(v) THEN [frame EXCEPT !.close = Append(@, [k |-> v.k, n |-> v.n, reg |-> reg])] ELSE frame
Closes(v) == ~Truthy(v) \/ v.k = "closable"
PucTbc ==
  LET v == R(Ins[2]) IN
  /\ Running("PTBC")
  /\ IF Closes(v) THEN Step(Pending(F, Ins[2], v)) /\ Quiet /\ UNCHANGED Heap ELSE Raise

(* Close the variables in the register and above it, the last one first.        *)
PucClose ==
  LET kept == SelectSeq(F.close, LAMBDA v : v.reg < Ins[2]) IN
  /\ Running("PCLOSE")
  /\ trace' = trace \o Closing(SubSeq(F.close, Len(kept) + 1, Len(F.close)))
  /\ Step([F EXCEPT !.close = kept])
  /\ UNCHANGED <<chunk, asked, status, Heap>>

(* Loops: the registers are first, limit, step, then count, step, index.        *)
PucForPrep ==
  LET a == Ins[3]
      from == R(a)
      to == R(a + 1)
      step == R(a + 2)
      skipped == IF step.n > 0 THEN from.n > to.n ELSE from.n < to.n
      count == IF step.n > 0 THEN (to.n - from.n) \div step.n ELSE (from.n - to.n) \div (-step.n) IN
  /\ Running("PFORPREP")
  /\ IF \E x \in {from, to, step} : x.k # "num" THEN Raise
     ELSE IF step.n = 0 THEN Raise
     ELSE /\ Step(IF skipped THEN [F EXCEPT !.pc = Ins[2] - 1]
                  ELSE [F EXCEPT !.regs[a] = Num(count), !.regs[a + 1] = step, !.regs[a + 2] = from])
          /\ Quiet /\ UNCHANGED Heap
PucForLoop ==
  LET a == Ins[3] IN
  /\ Running("PFORLOOP")
  /\ Step(IF R(a).n = 0 THEN F
          ELSE [F EXCEPT !.regs[a] = Num(@.n - 1), !.regs[a + 2] = Num(@.n + R(a + 1).n), !.pc = Ins[2] - 1])
  /\ Quiet /\ UNCHANGED Heap

(* The variable to close and the one of control change places.                  *)
PucTForPrep ==
  LET a == Ins[3]
      v == R(a + 3)
      swapped == [F EXCEPT !.regs[a + 2] = v, !.regs[a + 3] = R(a + 2), !.pc = Ins[2] - 1] IN
  /\ Running("PTFORPREP")
  /\ IF Closes(v) THEN Step(Pending(swapped, a + 2, v)) /\ Quiet /\ UNCHANGED Heap ELSE Raise
PucTForLoop ==
  /\ Running("PTFORLOOP")
  /\ Step(IF R(Ins[3] + 3) = Nil THEN F ELSE [F EXCEPT !.pc = Ins[2] - 1])
  /\ Quiet /\ UNCHANGED Heap

PucVarArg ==
  Running("PVARARG") /\ Step(WriteResults(F, Ins[2], Ins[3], F.varargs)) /\ Quiet /\ UNCHANGED Heap
PucGetVarArg ==
  LET key == R(Ins[3])
      value == CASE key = Str("n") -> Num(Len(F.varargs))
                 [] key.k = "num" /\ key.n \in DOMAIN F.varargs -> F.varargs[key.n]
                 [] OTHER -> Nil IN
  Running("PGETVARG") /\ Write(Ins[2], value) /\ Quiet /\ UNCHANGED Heap

NextLoaded ==
  \/ Eq \/ Lt \/ Le \/ Add \/ Concat_ \/ Neg \/ Len_ \/ CheckNil \/ PucTbc \/ PucClose
  \/ PucForPrep \/ PucForLoop \/ PucTForPrep \/ PucTForLoop \/ PucVarArg \/ PucGetVarArg

(* load takes either: the text of a program, or a binary chunk.                *)
SpecEither == (Init \/ InitLoaded) /\ [][Next \/ NextLoaded]_vars

=============================================================================

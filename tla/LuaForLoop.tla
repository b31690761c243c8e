------------------------------ MODULE LuaForLoop ------------------------------
(***************************************************************************)
(* The numeric for loop as the interpreter runs it: FORPREP, the instructions *)
(* of the body, FORLOOP, one unit of fuel for each.  The statement is reached *)
(* any number of times, with any of the inputs.                              *)
(*                                                                          *)
(* A number is counted in halves, so that 2.5 is a number too.  Inf stands    *)
(* for the infinity of floats; floats are exact below it.                     *)
(***************************************************************************)
EXTENDS Integers, Sequences

CONSTANTS
  Width,   \* bits of an integer, 64 in the code
  Inf,     \* bound: the float infinity, in halves
  Inputs,  \* initial value, limit and step, numerals already converted
  Bodies,  \* the loop bodies, see BodyAssumption
  Addend,  \* what the body adds to the index
  Fuel     \* bound: the instructions of a run

VARIABLES
  body,    \* the loop that is run
  input,   \* what it is given
  pc,      \* 0: FORPREP.  1, ...: the body.  Then FORLOOP, then the exit.
  regs,    \* the three registers of the loop
  x,       \* the register of the body's sum
  status,
  fuel

vars == <<body, input, pc, regs, x, status, fuel>>

MinInt == -(2 ^ (Width - 1))
MaxInt == 2 ^ (Width - 1) - 1
Wrap(n) == ((n - MinInt) % (2 ^ Width)) + MinInt

(* "other": what is no number.                                               *)
Numbers == [kind: {"int", "float", "nan", "other"}, half: Int]
Triples == [index: Numbers, limit: Numbers, step: Numbers]

(* next: the successors of each instruction, which branch forward only.       *)
(* guards: those that look at a type, fail in the interpreter, and leave the  *)
(* generated code.  exits: those of them that the generator knows as such     *)
(* before it writes the loop.  add: the one that sums, or 0.                  *)
Back(b) == Len(b.next) + 1
Exit(b) == Back(b) + 1

Infinite(v) == v.half \in {Inf, -Inf}
Opposite(v, w) == Infinite(v) /\ w.half = -v.half

ASSUME WidthAssumption ==
  Width \in Nat \ {0} /\ 2 ^ (Width - 1) \in Nat \ {0} /\ 2 ^ Width = 2 * 2 ^ (Width - 1)
(* No step is NaN, and no infinite initial value has the opposite infinity for *)
(* its step: with these the loop of the code goes on with an index that is NaN. *)
ASSUME LoopAssumption ==
  /\ Inf \in Nat /\ Inf > 2 * MaxInt + 2 /\ Addend \in Int /\ Fuel \in Nat
  /\ \A t \in Inputs :
       t \in Triples /\ t.step.kind # "nan" /\ ~Opposite(t.index, t.step)
  /\ \A t \in Inputs : \A f \in {"index", "limit", "step"} :
       IF t[f].kind = "int" THEN /\ t[f].half % 2 = 0
                                 /\ t[f].half \in 2 * MinInt .. 2 * MaxInt
       ELSE t[f].half \in -Inf .. Inf
ASSUME BodyAssumption ==
  \A b \in Bodies :
    /\ b.next \in Seq(SUBSET Nat) /\ b.next # <<>>
    /\ \A p \in 1 .. Len(b.next) : b.next[p] # {} /\ b.next[p] \subseteq p + 1 .. Back(b)
    /\ b.guards \subseteq 1 .. Len(b.next) /\ b.exits \subseteq b.guards
    /\ b.add \in 0 .. Len(b.next)

IsInt(v) == v.kind = "int"
AsFloat(v) == IF IsInt(v) THEN [v EXCEPT !.kind = "float"] ELSE v
AtMost(v, w) == v.kind # "nan" /\ w.kind # "nan" /\ v.half <= w.half

IntLoop(t) == IsInt(t.index) /\ IsInt(t.step)
Up(t) == t.step.half > 0
Within(v, t) == IF Up(t) THEN AtMost(v, t.limit) ELSE AtMost(t.limit, v)

Unusable(t) ==
  t.index.kind = "other" \/ t.limit.kind = "other" \/ t.step.kind = "other" \/ t.step.half = 0

(* A float limit that no integer reaches; the others are cut to an integer.   *)
Beyond(t) ==
  /\ IntLoop(t)
  /\ \/ t.limit.kind = "nan"
     \/ t.limit.kind = "float" /\ Up(t) /\ t.limit.half < 2 * MinInt
     \/ t.limit.kind = "float" /\ ~Up(t) /\ t.limit.half > 2 * MaxInt

Floor(h) == 2 * (h \div 2)
Lesser(m, n) == IF m <= n THEN m ELSE n
Greater(m, n) == IF m <= n THEN n ELSE m

(* Mutant: a limit between two integers is cut upwards.                       *)
ClippedUpwards(t) ==
  IF ~IsInt(t.limit) /\ ~Beyond(t)
  THEN [kind |-> "int",
        half |-> IF Up(t) THEN Lesser(2 * MaxInt, -Floor(-t.limit.half))
                 ELSE Greater(2 * MinInt, -Floor(-t.limit.half))]
  ELSE t.limit

Clipped(t) ==
  IF ~IsInt(t.limit) /\ ~Beyond(t)
  THEN [kind |-> "int",
        half |-> IF Up(t) THEN Lesser(2 * MaxInt, Floor(t.limit.half))
                 ELSE Greater(2 * MinInt, -Floor(-t.limit.half))]
  ELSE t.limit

Prepared(t) ==
  IF IntLoop(t) THEN [t EXCEPT !.limit = Clipped(t)]
  ELSE [index |-> AsFloat(t.index), limit |-> AsFloat(t.limit), step |-> AsFloat(t.step)]

Enters(t) == ~Beyond(t) /\ Within(Prepared(t).index, Prepared(t))

(* The sum of floats: infinities of both signs add up to no number.           *)
FloatSum(v, w) ==
  IF v.kind = "nan" \/ w.kind = "nan" \/ Opposite(v, w) THEN [kind |-> "nan", half |-> 0]
  ELSE [kind |-> "float",
        half |-> IF Infinite(v) THEN v.half ELSE IF Infinite(w) THEN w.half
                 ELSE Greater(-Inf, Lesser(Inf, v.half + w.half))]

AllInt(t) == IntLoop(t) /\ IsInt(t.limit)
Ahead(t) ==
  IF AllInt(t) THEN [kind |-> "int", half |-> t.index.half + t.step.half]
  ELSE FloatSum(t.index, t.step)
Past(v, w) == v.kind # "nan" /\ w.kind # "nan" /\ v.half > w.half
Fits(v) == v.half >= 2 * MinInt /\ v.half <= 2 * MaxInt
Continues(t) ==
  /\ AllInt(t) => Fits(Ahead(t))
  /\ ~(t.step.half > 0 /\ Past(Ahead(t), t.limit))
  /\ ~(t.step.half < 0 /\ Past(t.limit, Ahead(t)))

Sum(b, p, t, old) ==
  IF b.add = p /\ IsInt(t.index) THEN Wrap(t.index.half \div 2 + Addend) ELSE old

Init ==
  /\ body \in Bodies /\ input \in Inputs
  /\ pc = 0 /\ regs = input /\ x = 0 /\ status = "running" /\ fuel = Fuel

Pay == status = "running" /\ fuel > 0 /\ fuel' = fuel - 1

Forprep ==
  /\ Pay /\ pc = 0 /\ ~Unusable(input)
  /\ regs' = Prepared(input)
  /\ pc' = IF Enters(input) THEN 1 ELSE Exit(body)
  /\ UNCHANGED <<body, input, x, status>>

Instruction ==
  /\ Pay /\ pc \in 1 .. Len(body.next)
  /\ pc' \in body.next[pc] /\ x' = Sum(body, pc, regs, x)
  /\ UNCHANGED <<body, input, regs, status>>

Forloop ==
  /\ Pay /\ pc = Back(body)
  /\ IF Continues(regs)
     THEN pc' = 1 /\ regs' = [regs EXCEPT !.index = Ahead(regs)]
     ELSE pc' = Exit(body) /\ UNCHANGED regs
  /\ UNCHANGED <<body, input, x, status>>

Fail ==
  /\ Pay
  /\ (pc = 0 /\ Unusable(input)) \/ pc \in body.guards
  /\ status' = "error"
  /\ UNCHANGED <<body, input, pc, regs, x>>

OutOfFuel ==
  /\ status = "running" /\ pc # Exit(body) /\ fuel = 0
  /\ status' = "quota"
  /\ UNCHANGED <<body, input, pc, regs, x, fuel>>

Again ==
  /\ status = "running" /\ pc = Exit(body)
  /\ input' \in Inputs /\ regs' = input' /\ pc' = 0
  /\ UNCHANGED <<body, x, status, fuel>>

Finish ==
  /\ status = "running" /\ pc = Exit(body)
  /\ status' = "done"
  /\ UNCHANGED <<body, input, pc, regs, x, fuel>>

Next == Forprep \/ Instruction \/ Forloop \/ Fail \/ OutOfFuel \/ Again \/ Finish

Spec == Init /\ [][Next]_vars

(* The manual's loop, 3.3.5 of the reference manual: the initial value, then  *)
(* the step added again and again; as integers when both are, and then the    *)
(* loop ends where the sum would wrap; as long as the limit, uncut, is not     *)
(* passed.                                                                  *)
First == IF IntLoop(input) THEN input.index ELSE AsFloat(input.index)
Follower(v) ==
  IF IntLoop(input) THEN [v EXCEPT !.half = @ + input.step.half]
  ELSE FloatSum(v, AsFloat(input.step))
Allowed(v) == Within(v, input) /\ (IntLoop(input) => Fits(v))

(* The iterations are those of the manual: every index is the one before plus  *)
(* the step, is allowed by the limit as written and by the range of integers,  *)
(* and the loop is left only when the next one is not (_forprep, _forloop).    *)
Wanted == IF pc = 0 THEN First ELSE Follower(regs.index)
Progresses ==
  /\ pc # 1 /\ pc' = 1 => regs'.index = Wanted /\ Allowed(Wanted)
  /\ pc # Exit(body) /\ pc' = Exit(body) => ~Allowed(Wanted)
VisitsProgression == [][Progresses]_vars

=============================================================================

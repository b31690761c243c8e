----------------------------- MODULE LuaLoopProofs -----------------------------
(***************************************************************************)
(* The interpreter's for loop runs the iterations of the manual, and generated *)
(* code that runs a for loop implements the interpreter that would have run it, *)
(* for every width, input, body, amount of fuel and threshold.                *)
(***************************************************************************)
EXTENDS LuaLoopTiers, TLAPS

(* The interpreter.                                                          *)

LEMMA Range == /\ MinInt \in Int /\ MaxInt \in Int
               /\ MinInt < 0 /\ MaxInt >= 0 /\ MaxInt = -MinInt - 1
  BY WidthAssumption DEF MinInt, MaxInt

LEMMA InputType ==
  ASSUME NEW t \in Inputs
  PROVE  /\ t \in Triples /\ t.step.kind # "nan" /\ ~Opposite(t.index, t.step)
         /\ t = [index |-> t.index, limit |-> t.limit, step |-> t.step]
         /\ IsInt(t.index) => t.index.half % 2 = 0 /\ Fits(t.index)
         /\ IsInt(t.limit) => t.limit.half % 2 = 0 /\ Fits(t.limit)
         /\ IsInt(t.step) => t.step.half % 2 = 0
<1>1. t \in Triples /\ t.step.kind # "nan" /\ ~Opposite(t.index, t.step)
  BY LoopAssumption
<1>2. ASSUME NEW f \in {"index", "limit", "step"}, t[f].kind = "int"
      PROVE  t[f].half % 2 = 0 /\ t[f].half \in 2 * MinInt .. 2 * MaxInt
  BY <1>2, LoopAssumption
<1> QED
  BY <1>1, <1>2, Range DEF Triples, Numbers, IsInt, Fits

(* Cutting the limit to an integer does not move it past a whole number.      *)
LEMMA ClipSound ==
  ASSUME NEW t \in Inputs, IntLoop(t), ~Unusable(t), ~Beyond(t),
         NEW h \in Int, h % 2 = 0, h >= 2 * MinInt, h <= 2 * MaxInt
  PROVE  /\ t.limit.kind # "nan"
         /\ Clipped(t) \in Numbers /\ IsInt(Clipped(t))
         /\ Up(t) => (h <= Clipped(t).half <=> h <= t.limit.half)
         /\ ~Up(t) => (Clipped(t).half <= h <=> t.limit.half <= h)
<1>1. /\ t.limit.kind \in {"int", "float"} /\ t.limit.half \in Int
      /\ t.limit \in Numbers
  BY InputType DEF Triples, Numbers, Unusable, Beyond
<1>2. CASE t.limit.kind = "int"
  BY <1>1, <1>2 DEF Clipped, IsInt
<1>3. CASE t.limit.kind = "float"
  <2> DEFINE l == t.limit.half
  <2>1. Floor(l) \in Int /\ (h <= Floor(l) <=> h <= l)
    BY <1>1 DEF Floor
  <2>2. Floor(-l) \in Int /\ (-Floor(-l) <= h <=> l <= h)
    BY <1>1 DEF Floor
  <2>3. Clipped(t) = [kind |-> "int",
                      half |-> IF Up(t) THEN Lesser(2 * MaxInt, Floor(l))
                               ELSE Greater(2 * MinInt, -Floor(-l))]
    BY <1>3 DEF Clipped, IsInt
  <2>4. CASE Up(t)
    <3> HIDE DEF l
    <3> QED BY <1>3, <2>1, <2>3, <2>4, Range DEF Lesser, IsInt, Numbers, l
  <2>5. CASE ~Up(t)
    BY <1>3, <2>2, <2>3, <2>5, Range DEF Greater, IsInt, Numbers
  <2> QED
    BY <2>4, <2>5
<1> QED
  BY <1>1, <1>2, <1>3

(* The registers of a loop that runs: the limit and the step as FORPREP left   *)
(* them, and an index the manual allows, not before the initial value.        *)
Ready(r) ==
  /\ ~Unusable(input) /\ ~Beyond(input) /\ input.limit.kind # "nan"
  /\ r \in Triples
  /\ r.limit = Prepared(input).limit /\ r.step = Prepared(input).step
  /\ r.index.kind = First.kind /\ r.index.kind # "nan" /\ Allowed(r.index)
  /\ ~IntLoop(input) => ~Opposite(r.index, r.step)
  /\ IntLoop(input) =>
       /\ r.index.half % 2 = 0
       /\ IF Up(input) THEN input.index.half <= r.index.half ELSE r.index.half <= input.index.half

Inv ==
  /\ body \in Bodies /\ input \in Inputs
  /\ pc \in 0 .. Exit(body) /\ regs \in Triples
  /\ pc = 0 => regs = input
  /\ pc \in 1 .. Back(body) => Ready(regs)

LEMMA BodyType ==
  ASSUME NEW b \in Bodies
  PROVE  /\ Len(b.next) \in Nat \ {0} /\ Back(b) = Len(b.next) + 1 /\ Exit(b) = Len(b.next) + 2
         /\ \A p \in 1 .. Len(b.next) : b.next[p] # {} /\ b.next[p] \subseteq p + 1 .. Back(b)
         /\ b.guards \subseteq 1 .. Len(b.next) /\ b.exits \subseteq b.guards
         /\ b.add \in 0 .. Len(b.next)
<1>1. b.next \in Seq(SUBSET Nat) /\ b.next # <<>>
  BY BodyAssumption
<1>2. Len(b.next) \in Nat \ {0}
  BY <1>1
<1> QED
  BY <1>2, BodyAssumption DEF Back, Exit

(* FORPREP enters the loop when the manual does.                              *)
LEMMA PrepareSound ==
  ASSUME input \in Inputs, ~Unusable(input)
  PROVE  /\ Prepared(input) \in Triples
         /\ Prepared(input).index = First
         /\ Enters(input) <=> Allowed(First)
         /\ Enters(input) => Ready(Prepared(input))
<1>1. /\ input \in Triples /\ input.step.kind # "nan"
      /\ IsInt(input.index) => input.index.half % 2 = 0 /\ Fits(input.index)
  BY InputType
<1> DEFINE p == Prepared(input)
<1>2. CASE IntLoop(input)
  <2>1. First = input.index /\ Fits(First) /\ First.half % 2 = 0 /\ First.half \in Int
        /\ First.kind = "int" /\ First \in Numbers
    BY <1>1, <1>2 DEF First, IntLoop, IsInt, Triples, Numbers
  <2>2. CASE Beyond(input)
    <3>1. Clipped(input) = input.limit
      BY <2>2 DEF Clipped
    <3>2. p = input
      BY <1>2, <3>1, InputType DEF Prepared, Triples
    <3>3. ~Allowed(First)
      BY <1>1, <1>2, <2>1, <2>2, Range DEF Beyond, Allowed, Within, AtMost, Fits, Up, Triples, Numbers
    <3> QED
      BY <1>1, <2>1, <2>2, <3>2, <3>3 DEF Enters
  <2>3. CASE ~Beyond(input)
    <3>1. /\ input.limit.kind # "nan" /\ Clipped(input) \in Numbers /\ IsInt(Clipped(input))
          /\ Up(input) => (First.half <= Clipped(input).half <=> First.half <= input.limit.half)
          /\ ~Up(input) => (Clipped(input).half <= First.half <=> input.limit.half <= First.half)
      BY <1>2, <2>1, <2>3, ClipSound, Range DEF Fits
    <3>2. /\ p \in Triples /\ p.index = First /\ p.limit = Clipped(input) /\ p.step = input.step
      BY <1>1, <1>2, <2>1, <3>1 DEF Prepared, Triples
    <3>3. Enters(input) <=> Allowed(First)
      <4>1. Enters(input) <=> Within(First, p)
        BY <2>3, <3>2 DEF Enters
      <4>2. Up(p) = Up(input)
        BY <3>2 DEF Up
      <4> QED
        BY <2>1, <3>1, <3>2, <4>1, <4>2 DEF Allowed, Within, AtMost, IsInt
    <3> QED
      BY <1>2, <2>1, <2>3, <3>1, <3>2, <3>3 DEF Ready
  <2> QED
    BY <2>2, <2>3
<1>3. CASE ~IntLoop(input)
  <2>1. /\ p.index = First /\ p.limit = AsFloat(input.limit) /\ p.step = AsFloat(input.step)
        /\ First = AsFloat(input.index)
        /\ p = [index |-> First, limit |-> AsFloat(input.limit), step |-> AsFloat(input.step)]
    BY <1>3 DEF Prepared, First
  <2>2. \A v \in Numbers : /\ AsFloat(v) \in Numbers /\ AsFloat(v).half = v.half
                           /\ AsFloat(v).kind = "nan" <=> v.kind = "nan"
    BY DEF AsFloat, Numbers, IsInt
  <2>3. ~Beyond(input) /\ p \in Triples /\ First \in Numbers
    BY <1>1, <1>3, <2>1, <2>2 DEF Beyond, Triples
  <2>4. Enters(input) <=> Allowed(First)
    <3>1. Up(p) = Up(input)
      BY <1>1, <2>1, <2>2 DEF Up, Triples
    <3> QED
      BY <1>1, <1>3, <2>1, <2>2, <2>3, <3>1 DEF Enters, Allowed, Within, AtMost, Triples
  <2>5. Enters(input) => First.kind # "nan" /\ input.limit.kind # "nan"
    BY <1>3, <2>4 DEF Allowed, Within, AtMost
  <2>6. ~Opposite(p.index, p.step)
    <3>1. ~Opposite(input.index, input.step) /\ p.index.half = input.index.half
          /\ p.step.half = input.step.half
      BY <1>1, <2>1, <2>2, InputType DEF Triples
    <3> QED
      BY <3>1 DEF Opposite, Infinite
  <2> QED
    BY <1>3, <2>1, <2>3, <2>4, <2>5, <2>6 DEF Ready
<1> QED
  BY <1>2, <1>3

(* FORLOOP goes on when the manual does.                                     *)
LEMMA AdvanceSound ==
  ASSUME input \in Inputs, NEW r, Ready(r)
  PROVE  /\ Continues(r) <=> Allowed(Follower(r.index))
         /\ Continues(r) => Ahead(r) = Follower(r.index)
         /\ Continues(r) => Ready([r EXCEPT !.index = Ahead(r)])
         /\ AllInt(r) <=> IntLoop(input)
<1> USE DEF Ready
<1>1. /\ input \in Triples /\ input.step.kind # "nan" /\ input.step.half # 0
      /\ IsInt(input.step) => input.step.half % 2 = 0
  BY InputType DEF Unusable
<1> DEFINE v == r.index
           s == input.step.half
           a == [r EXCEPT !.index = Ahead(r)]
<1>2. CASE IntLoop(input)
  <2>1. /\ r.step = input.step /\ r.limit = Clipped(input) /\ v.kind = "int"
        /\ v \in Numbers /\ v.half % 2 = 0 /\ Fits(v) /\ s \in Int /\ s % 2 = 0
    BY <1>1, <1>2 DEF Prepared, First, IntLoop, IsInt, Allowed, Triples, Numbers
  <2> DEFINE n == v.half + s
  <2>2. n \in Int /\ n % 2 = 0
    BY <2>1 DEF Numbers
  <2>3. Follower(v) = [v EXCEPT !.half = n] /\ Follower(v).half = n /\ Follower(v).kind = "int"
    BY <1>2, <2>1 DEF Follower, Numbers
  <2>4. IsInt(Clipped(input)) /\ Clipped(input) \in Numbers
    <3>1. input.index.half \in Int /\ input.index.half % 2 = 0 /\ Fits(input.index)
      BY <1>1, <1>2, InputType DEF IntLoop, Triples, Numbers
    <3> QED
      BY <1>2, <3>1, ClipSound DEF Fits
  <2>5. AllInt(r)
    BY <1>2, <2>1, <2>4 DEF AllInt, IntLoop, IsInt
  <2>6. Ahead(r) = [kind |-> "int", half |-> n] /\ Ahead(r) = Follower(v)
    BY <2>1, <2>3, <2>5 DEF Ahead, Numbers
  <2>7. Continues(r) <=> Allowed(Follower(v))
    <3>1. CASE ~(n >= 2 * MinInt /\ n <= 2 * MaxInt)
      BY <1>2, <2>3, <2>5, <2>6, <3>1 DEF Continues, Fits, Allowed
    <3>2. CASE n >= 2 * MinInt /\ n <= 2 * MaxInt
      <4>1. /\ Up(input) => (n <= Clipped(input).half <=> n <= input.limit.half)
            /\ ~Up(input) => (Clipped(input).half <= n <=> input.limit.half <= n)
        BY <1>2, <2>2, <3>2, ClipSound
      <4>2. Continues(r) <=> /\ ~(s > 0 /\ n > Clipped(input).half)
                             /\ ~(s < 0 /\ n < Clipped(input).half)
        BY <2>1, <2>4, <2>5, <2>6, <3>2 DEF Continues, Fits, Past, IsInt
      <4>3. Allowed(Follower(v)) <=> IF Up(input) THEN n <= input.limit.half ELSE input.limit.half <= n
        BY <1>2, <2>3, <3>2 DEF Allowed, Within, AtMost, Fits
      <4>4. Clipped(input).half \in Int /\ (Up(input) <=> s > 0) /\ s # 0
        BY <1>1, <2>4 DEF Up, Numbers
      <4> HIDE DEF n, s
      <4> QED
        BY <2>1, <2>2, <4>1, <4>2, <4>3, <4>4
    <3> QED
      BY <3>1, <3>2
  <2>8. Continues(r) => Ready(a)
    <3>1. /\ a \in Triples /\ a.limit = r.limit /\ a.step = r.step /\ a.index = Ahead(r)
      BY <2>2, <2>6 DEF Triples, Numbers
    <3>2. IF Up(input) THEN input.index.half <= n ELSE n <= input.index.half
      <4>1. input.index.half \in Int /\ v.half \in Int /\ (Up(input) => s > 0) /\ (~Up(input) => s < 0)
        BY <1>1, <2>1 DEF Up, Triples, Numbers
      <4> QED
        BY <1>2, <2>1, <4>1
    <3> QED
      BY <1>2, <2>1, <2>2, <2>3, <2>6, <2>7, <3>1, <3>2
  <2> QED
    BY <1>2, <2>5, <2>6, <2>7, <2>8
<1>3. CASE ~IntLoop(input)
  <2>1. /\ r.step = AsFloat(input.step) /\ r.limit = AsFloat(input.limit)
        /\ v.kind = AsFloat(input.index).kind /\ v.kind # "nan" /\ v \in Numbers
    BY <1>3 DEF Prepared, First, Triples
  <2>2. /\ r.step.half = s /\ r.limit.half = input.limit.half /\ s \in Int /\ input.limit.half \in Int
        /\ input.index.kind # "other"
    BY <1>1, <2>1 DEF AsFloat, Triples, Numbers, Unusable
  <2>3. v.kind = "float" /\ ~IsInt(v)
    BY <1>1, <2>1, <2>2 DEF AsFloat, IsInt, Triples, Numbers
  <2>4. ~AllInt(r)
    BY <2>3 DEF AllInt, IntLoop
  <2> DEFINE n == Follower(v).half
  <2>5. Follower(v) = FloatSum(v, r.step) /\ Follower(v) = Ahead(r) /\ r.step.kind # "nan"
    BY <1>1, <1>3, <2>1, <2>2, <2>4 DEF Ahead, Follower, AsFloat, Triples
  <2>6. /\ n \in Int /\ Follower(v) = [kind |-> "float", half |-> n]
        /\ n = IF Infinite(v) THEN v.half ELSE IF Infinite(r.step) THEN s
               ELSE Greater(-Inf, Lesser(Inf, v.half + s))
    <3>1. Inf \in Int /\ v.half \in Int /\ ~Opposite(v, r.step)
      BY <1>3, <2>1, LoopAssumption DEF Numbers
    <3>2. Follower(v) = [kind |-> "float",
                         half |-> IF Infinite(v) THEN v.half ELSE IF Infinite(r.step) THEN s
                                  ELSE Greater(-Inf, Lesser(Inf, v.half + s))]
      BY <2>1, <2>2, <2>5, <3>1 DEF FloatSum
    <3> QED
      BY <2>2, <3>1, <3>2 DEF Greater, Lesser
  <2>7. Continues(r) <=> Allowed(Follower(v))
    <3>1. Continues(r) <=> ~(s > 0 /\ n > input.limit.half) /\ ~(s < 0 /\ n < input.limit.half)
      <4>1. Ahead(r).kind # "nan" /\ Ahead(r).half = n /\ r.limit.kind # "nan"
        BY <2>1, <2>5, <2>6 DEF AsFloat
      <4> QED
        BY <2>2, <2>4, <2>6, <4>1 DEF Continues, Past
    <3>2. Allowed(Follower(v)) <=> IF Up(input) THEN n <= input.limit.half ELSE input.limit.half <= n
      BY <1>3, <2>6 DEF Allowed, Within, AtMost
    <3>3. (Up(input) <=> s > 0) /\ s # 0
      BY <1>1 DEF Up
    <3> HIDE DEF n, s
    <3> QED
      BY <2>2, <2>6, <3>1, <3>2, <3>3
  <2>8. Continues(r) => Ready(a)
    <3>1. /\ a \in Triples /\ a.limit = r.limit /\ a.step = r.step /\ a.index = Ahead(r)
      BY <2>5, <2>6 DEF Triples, Numbers
    <3>2. ~Opposite(a.index, a.step)
      <4>1. ~Opposite(v, r.step) /\ a.index.half = n /\ a.step.half = s /\ Inf \in Nat /\ Inf > 0
        BY <1>3, <2>2, <2>5, <2>6, <3>1, Range, LoopAssumption
      <4> HIDE DEF n, s, a
      <4> QED
        BY <2>2, <2>6, <4>1 DEF Opposite, Infinite
    <3>3. a.index.kind = First.kind /\ a.index.kind # "nan"
      BY <2>1, <2>3, <2>5, <2>6, <3>1
    <3> QED
      BY <1>3, <2>1, <2>5, <2>7, <3>1, <3>2, <3>3
  <2> QED
    BY <1>3, <2>4, <2>5, <2>7, <2>8
<1> QED
  BY <1>2, <1>3
LEMMA Start == Init => Inv
  BY BodyType, InputType DEF Init, Inv

(* A step keeps Inv and makes the progress that the manual wants.              *)
LEMMA Step ==
  ASSUME Inv, Next PROVE Inv' /\ Progresses
<1> USE DEF Inv
<1>1. /\ Len(body.next) \in Nat \ {0} /\ Back(body) = Len(body.next) + 1
      /\ Exit(body) = Len(body.next) + 2
  BY BodyType
<1>2. CASE Forprep
  <2>1. /\ Prepared(input) \in Triples /\ Prepared(input).index = First
        /\ Enters(input) <=> Allowed(First)
        /\ Enters(input) => Ready(Prepared(input))
    BY <1>2, PrepareSound DEF Forprep
  <2>2. /\ pc = 0 /\ regs' = Prepared(input) /\ pc' = IF Enters(input) THEN 1 ELSE Exit(body)
        /\ UNCHANGED <<body, input>> /\ ~Unusable(input)
    BY <1>2 DEF Forprep
  <2>3. pc' = 1 => Ready(regs)'
    BY <1>1, <2>1, <2>2 DEF Ready, Prepared, First, Allowed, Within, Clipped, Beyond
  <2>4. Progresses
    BY <1>1, <2>1, <2>2 DEF Progresses, Wanted
  <2> QED
    BY <1>1, <2>1, <2>2, <2>3, <2>4
<1>3. CASE Instruction
  <2>1. /\ pc \in 1 .. Len(body.next) /\ pc' \in body.next[pc]
        /\ UNCHANGED <<body, input, regs>>
    BY <1>3 DEF Instruction
  <2>2. pc' \in pc + 1 .. Back(body) /\ pc' # 1
    BY <1>1, <2>1, BodyType
  <2>3. Ready(regs)'
    BY <1>1, <2>1 DEF Ready, Prepared, First, Allowed, Within, Clipped, Beyond
  <2> QED
    BY <1>1, <2>1, <2>2, <2>3 DEF Progresses
<1>4. CASE Forloop
  <2>1. /\ pc = Back(body) /\ UNCHANGED <<body, input>>
        /\ IF Continues(regs) THEN pc' = 1 /\ regs' = [regs EXCEPT !.index = Ahead(regs)]
           ELSE pc' = Exit(body) /\ UNCHANGED regs
    BY <1>4 DEF Forloop
  <2>2. Ready(regs)
    BY <1>1, <2>1
  <2>3. /\ Continues(regs) <=> Allowed(Follower(regs.index))
        /\ Continues(regs) => Ahead(regs) = Follower(regs.index)
        /\ Continues(regs) => Ready([regs EXCEPT !.index = Ahead(regs)])
    BY <2>2, AdvanceSound
  <2>4. pc # 0 /\ Wanted = Follower(regs.index)
    BY <1>1, <2>1 DEF Wanted
  <2>5. CASE Continues(regs)
    <3>1. Ready(regs')
      BY <2>1, <2>3, <2>5
    <3>2. Ready(regs)'
      BY <2>1, <3>1 DEF Ready, Prepared, First, Allowed, Within, Clipped, Beyond
    <3>3. regs'.index = Ahead(regs)
      BY <2>1, <2>2, <2>5 DEF Ready, Triples
    <3> QED
      BY <1>1, <2>1, <2>3, <2>4, <2>5, <3>2, <3>3 DEF Progresses, Ready
  <2>6. CASE ~Continues(regs)
    BY <1>1, <2>1, <2>3, <2>4, <2>6 DEF Progresses
  <2> QED
    BY <2>5, <2>6
<1>5. CASE Fail \/ OutOfFuel \/ Finish
  <2>1. UNCHANGED <<body, input, pc, regs>>
    BY <1>5 DEF Fail, OutOfFuel, Finish
  <2> QED
    BY <1>1, <2>1 DEF Progresses, Ready, Prepared, First, Allowed, Within, Clipped, Beyond
<1>6. CASE Again
  <2>1. /\ pc = Exit(body) /\ input' \in Inputs /\ regs' = input' /\ pc' = 0 /\ body' = body
    BY <1>6 DEF Again
  <2> QED
    BY <1>1, <2>1, InputType DEF Progresses
<1> QED
  BY <1>2, <1>3, <1>4, <1>5, <1>6 DEF Next

LEMMA Stutter ==
  ASSUME Inv, UNCHANGED vars PROVE Inv'
  BY DEF vars, Inv, Ready, Prepared, First, Allowed, Within, Clipped, Beyond, Exit, Back

(* The iterations of the interpreter's loop are those of the manual, for every *)
(* width of integers: no index is skipped, repeated or wrapped, and the limit,  *)
(* cut to an integer or not, ends the loop where it should.  The inputs are     *)
(* those of LoopAssumption: all but a step that is NaN, and an infinite initial *)
(* value with the opposite infinity for its step, where _forloop goes on.       *)
THEOREM InterpreterVisitsManual == Spec => VisitsProgression
<1>1. Inv /\ [Next]_vars => Inv' /\ [Progresses]_vars
  BY Step, Stutter
<1> QED
  BY Start, <1>1, PTL DEF Spec, VisitsProgression

-----------------------------------------------------------------------------
(* The generated code.                                                       *)

LEMMA MulMono ==
  ASSUME NEW a \in Int, NEW b \in Int, NEW s \in Nat, a <= b
  PROVE  a * s <= b * s
  BY SMT

LEMMA MulNext ==
  ASSUME NEW a \in Int, NEW s \in Int
  PROVE  a * s \in Int /\ (a + 1) * s = a * s + s /\ a * (-s) = -(a * s) /\ 0 * s = 0
  BY SMT

LEMMA DivMod ==
  ASSUME NEW n \in Int, NEW s \in Nat \ {0}
  PROVE  n \div s \in Int /\ (n \div s) * s <= n /\ n < (n \div s) * s + s
  BY SMT

LEMMA DivBound ==
  ASSUME NEW n \in Int, NEW s \in Nat \ {0}, NEW d \in Int
  PROVE  n \div s \in Int /\ d * s \in Int /\ (d <= n \div s <=> d * s <= n)
<1> DEFINE q == n \div s
<1>1. q \in Int /\ q * s <= n /\ n < q * s + s
  BY DivMod
<1>2. (q + 1) * s = q * s + s /\ q * s \in Int /\ d * s \in Int /\ (q + 1) * s \in Int
  BY <1>1, MulNext
<1> HIDE DEF q
<1>3. ASSUME d <= q PROVE d * s <= n
  <2>1. d * s <= q * s
    BY <1>1, <1>3, MulMono
  <2> QED
    BY <1>1, <1>2, <2>1
<1>4. ASSUME ~(d <= q) PROVE ~(d * s <= n)
  <2>1. (q + 1) * s <= d * s
    BY <1>1, <1>4, MulMono
  <2> QED
    BY <1>1, <1>2, <2>1
<1>5. d <= q <=> d * s <= n
  BY <1>3, <1>4
<1> QED
  BY <1>1, <1>2, <1>5 DEF q

(* How many steps there are from one number to another.                       *)
LEMMA StepsBound ==
  ASSUME NEW t, t.step.half \in Int, t.step.half # 0,
         NEW from \in Int, NEW to \in Int, NEW d \in Int
  PROVE  /\ Steps(from, to, t) \in Int
         /\ d <= Steps(from, to, t) <=>
              IF Up(t) THEN from + d * t.step.half <= to ELSE to <= from + d * t.step.half
<1> DEFINE s == t.step.half
<1>1. CASE s > 0
  <2>1. Steps(from, to, t) = (to - from) \div s /\ Up(t)
    BY <1>1 DEF Steps, Up
  <2> to - from \in Int /\ s \in Nat \ {0}
    BY <1>1
  <2>2. (to - from) \div s \in Int /\ d * s \in Int /\ (d <= (to - from) \div s <=> d * s <= to - from)
    BY DivBound, Zenon
  <2> HIDE DEF s
  <2>3. d * s <= to - from <=> from + d * s <= to
    BY <2>2
  <2> QED
    BY <2>1, <2>2, <2>3 DEF s
<1>2. CASE s < 0
  <2>1. Steps(from, to, t) = (from - to) \div (-s) /\ ~Up(t) /\ -s \in Nat \ {0}
    BY <1>2 DEF Steps, Up
  <2> from - to \in Int
    OBVIOUS
  <2>2. (from - to) \div (-s) \in Int /\ (d <= (from - to) \div (-s) <=> d * (-s) <= from - to)
    BY <2>1, DivBound, Zenon
  <2>3. d * (-s) = -(d * s) /\ d * s \in Int
    BY MulNext
  <2> HIDE DEF s
  <2>4. d * (-s) <= from - to <=> to <= from + d * s
    BY <2>3
  <2> QED
    BY <2>1, <2>2, <2>4 DEF s
<1> QED
  BY <1>1, <1>2

LEMMA StepsExact ==
  ASSUME NEW t, t.step.half \in Int, t.step.half # 0, NEW from \in Int, NEW d \in Int
  PROVE  Steps(from, from + d * t.step.half, t) = d
<1> DEFINE s == t.step.half
           n == Steps(from, from + d * s, t)
<1>1. d * s \in Int /\ (d + 1) * s = d * s + s /\ from + d * s \in Int
  BY MulNext
<1>2. n \in Int
  BY <1>1, StepsBound
<1>3. d <= n <=> IF Up(t) THEN from + d * s <= from + d * s ELSE from + d * s <= from + d * s
  BY <1>1, StepsBound
<1>4. d + 1 <= n <=>
        IF Up(t) THEN from + (d + 1) * s <= from + d * s ELSE from + d * s <= from + (d + 1) * s
  BY <1>1, StepsBound
<1>5. Up(t) <=> s > 0
  BY DEF Up
<1>6. s \in Int /\ s # 0
  OBVIOUS
<1> HIDE DEF n, s
<1>7. d <= n
  BY <1>1, <1>3
<1>8. ~(d + 1 <= n)
  BY <1>1, <1>4, <1>5, <1>6
<1>9. n = d
  BY <1>2, <1>7, <1>8
<1> QED
  BY <1>9 DEF n, s

(* What the analysis found is what the loop is given, unless a jump rejoins.   *)
SeenInv ==
  /\ generator \in Generators /\ Takes(generator, body, seen.known)
  /\ \/ seen = Unknown
     \/ /\ AllInt(input)
        /\ \E t \in Inputs : seen = Found(t) /\ Literal(t) /\ (~Rejoined => t = input)

TierState ==
  /\ hooks \in BOOLEAN /\ hot \in 0 .. Threshold /\ tier \in Tiers
  /\ tier = "cold" => hot < Threshold
  /\ deopts \in [1 .. Exit(body) -> 0 .. RetireAfter]
  /\ tier # "retired" => \A p \in 1 .. Exit(body) : deopts[p] < RetireAfter
  /\ fuel \in 0 .. Fuel
  /\ native = Idle \/ native \in Natives

(* Generated code before its first iteration, in a while loop, in a for loop.   *)
AtEntry ==
  /\ native.mode = "while" /\ native.used = 0 /\ native.off = 0 /\ native.done = 0
  /\ native.index = regs.index

InWhile == native.used + native.off + Rest(body, native.at) <= native.budget

InFor ==
  /\ generator \in {"batch", "dense", "diamond"} /\ AllInt(regs)
  /\ native.total = Total(regs)
  /\ native.done < native.take /\ native.take <= native.total
  /\ native.take * Cost(body) <= native.budget
  /\ generator = "diamond" => native.take = native.total
  /\ generator # "diamond" => Uniform(body)
  /\ native.index.half = native.from + native.done * regs.step.half
  /\ IF Uniform(body) THEN native.off + Rest(body, native.at) = Cost(body)
     ELSE native.used + native.off + Rest(body, native.at) <= (native.done + 1) * Cost(body)

NativeInv ==
  native.on =>
    /\ pc = 1 /\ status \in {"running", "crashed"}
    /\ tier = "compiled" /\ ~hooks /\ native.budget = fuel
    /\ Ready(Spilled) /\ native.from = regs.index.half
    /\ native.at = 0 => AtEntry
    /\ native.at # 0 => IF native.mode = "while" THEN InWhile ELSE InFor

TierInv == Inv /\ SeenInv /\ TierState /\ NativeInv

LEMMA RestType ==
  ASSUME NEW b \in Bodies
  PROVE  /\ \A p \in 1 .. Back(b) : Rest(b, p) \in Nat \ {0}
         /\ Rest(b, Back(b)) = 1 /\ Cost(b) \in Nat \ {0} /\ (Straight(b) => Uniform(b))
         /\ \A p \in 1 .. Len(b.next) : \A q \in b.next[p] :
              /\ q \in 2 .. Back(b) /\ Rest(b, q) + 1 <= Rest(b, p)
              /\ (Uniform(b) => Rest(b, q) + 1 = Rest(b, p))
<1>1. /\ Len(b.next) \in Nat \ {0} /\ Back(b) = Len(b.next) + 1
      /\ \A p \in 1 .. Len(b.next) : b.next[p] # {} /\ b.next[p] \subseteq p + 1 .. Back(b)
  BY BodyType
<1>2. /\ Rest(b, Back(b)) = 1 /\ (Straight(b) => Uniform(b))
      /\ \A p \in 1 .. Len(b.next) :
           /\ Rest(b, p) \in Nat
           /\ \A q \in b.next[p] : Rest(b, q) + 1 <= Rest(b, p)
           /\ Uniform(b) => \A q \in b.next[p] : Rest(b, q) + 1 = Rest(b, p)
  BY PathAssumption
<1>3. \A p \in 1 .. Back(b) : Rest(b, p) \in Nat
  BY <1>1, <1>2
<1>4. ASSUME NEW p \in 1 .. Len(b.next) PROVE Rest(b, p) # 0
  <2>1. PICK q \in b.next[p] : TRUE
    BY <1>1
  <2>2. q \in 1 .. Back(b)
    BY <1>1
  <2>3. Rest(b, q) \in Nat /\ Rest(b, p) \in Nat /\ Rest(b, q) + 1 <= Rest(b, p)
    BY <1>2, <1>3, <2>1, <2>2
  <2> QED
    BY <2>3
<1>5. \A p \in 1 .. Back(b) : Rest(b, p) \in Nat \ {0}
  BY <1>1, <1>2, <1>3, <1>4
<1>6. \A p \in 1 .. Len(b.next) : \A q \in b.next[p] : q \in 2 .. Back(b)
  BY <1>1
<1>7. Cost(b) \in Nat \ {0}
  BY <1>1, <1>5 DEF Cost
<1> QED
  BY <1>2, <1>5, <1>6, <1>7, Zenon

LEMMA ReadyStep ==
  ASSUME input \in Inputs, NEW r, Ready(r)
  PROVE  /\ r \in Triples /\ r.step.half \in Int /\ r.step.half # 0 /\ r.index.half \in Int
         /\ r.limit.half \in Int /\ r.limit.kind # "nan"
         /\ r.step.half = input.step.half /\ (Up(r) <=> Up(input))
         /\ r = [index |-> r.index, limit |-> r.limit, step |-> r.step]
<1>1. r \in Triples /\ r.step = Prepared(input).step /\ ~Unusable(input) /\ r.limit = Prepared(input).limit
  BY DEF Ready
<1>2. input \in Triples /\ input.step.half # 0 /\ input.limit.kind # "nan" /\ ~Beyond(input)
  BY <1>1, InputType DEF Unusable, Ready
<1>3. r.step.half = input.step.half
  BY <1>1, <1>2 DEF Prepared, AsFloat, IsInt, Triples, Numbers
<1>4. r.limit.kind # "nan"
  BY <1>1, <1>2 DEF Prepared, Clipped, AsFloat, IsInt, Triples, Numbers
<1> QED
  BY <1>1, <1>2, <1>3, <1>4 DEF Triples, Numbers, Up

LEMMA LimitFits ==
  ASSUME input \in Inputs, IntLoop(input), NEW r, Ready(r)
  PROVE  /\ r.limit \in Numbers /\ IsInt(r.limit)
         /\ Up(input) => r.limit.half <= 2 * MaxInt
         /\ ~Up(input) => r.limit.half >= 2 * MinInt
<1>1. /\ r.limit = Clipped(input) /\ ~Unusable(input) /\ ~Beyond(input)
      /\ input.limit.kind # "nan" /\ input \in Triples /\ r.limit \in Numbers
  BY InputType DEF Ready, Prepared, Triples
<1>2. IsInt(input.limit) => Fits(input.limit)
  BY InputType
<1>3. CASE IsInt(input.limit)
  BY <1>1, <1>2, <1>3 DEF Clipped, Fits
<1>4. CASE ~IsInt(input.limit)
  <2> DEFINE h == Floor(input.limit.half)
             g == -Floor(-input.limit.half)
  <2>1. h \in Int /\ g \in Int
    BY <1>1 DEF Floor, Triples, Numbers
  <2>2. Lesser(2 * MaxInt, h) <= 2 * MaxInt /\ Greater(2 * MinInt, g) >= 2 * MinInt
    <3> HIDE DEF h, g
    <3> QED BY <2>1, Range DEF Lesser, Greater
  <2> QED
    BY <1>1, <1>4, <2>2 DEF Clipped, IsInt
<1> QED
  BY <1>3, <1>4

(* An integer loop counted in advance ends where FORLOOP ends it.              *)
LEMMA LastIteration ==
  ASSUME input \in Inputs, NEW r, Ready(r), AllInt(r), NEW done \in Nat, NEW from \in Int,
         r.index.half = from + done * r.step.half
  PROVE  /\ Continues(r) <=> done + 1 < Steps(from, r.limit.half, r) + 1
         /\ Continues(r) => Ahead(r) = [r.index EXCEPT !.half = @ + r.step.half]
         /\ Steps(from, r.limit.half, r) \in Int
<1> DEFINE s == r.step.half
           i == r.index.half
           l == r.limit.half
           n == Steps(from, l, r)
<1>1. /\ s \in Int /\ s # 0 /\ i \in Int /\ l \in Int /\ (Up(r) <=> Up(input))
      /\ (Up(r) <=> s > 0) /\ r \in Triples
  BY ReadyStep DEF Up
<1>2. IntLoop(input)
  BY AdvanceSound
<1>3. Fits(r.index) /\ r.index.kind = "int"
  <2>1. Allowed(r.index)
    BY DEF Ready
  <2>2. Fits(r.index)
    BY <1>2, <2>1 DEF Allowed
  <2> QED
    BY <2>2 DEF AllInt, IntLoop, IsInt
<1>4. (Up(r) => l <= 2 * MaxInt) /\ (~Up(r) => l >= 2 * MinInt)
  BY <1>1, <1>2, LimitFits
<1>5. Ahead(r) = [kind |-> "int", half |-> i + s]
  BY <1>1, <1>3 DEF Ahead
<1>6. /\ n \in Int
      /\ done + 1 <= n <=> IF Up(r) THEN from + (done + 1) * s <= l ELSE l <= from + (done + 1) * s
  BY <1>1, StepsBound
<1>7. from + (done + 1) * s = i + s
  <2>1. done \in Int /\ s \in Int
    BY <1>1
  <2>2. done * s \in Int /\ (done + 1) * s = done * s + s
    BY <2>1, MulNext, Zenon
  <2>3. i = from + done * s
    OBVIOUS
  <2> HIDE DEF i, s
  <2> QED
    BY <1>1, <2>2, <2>3
<1>8. Continues(r) <=> /\ i + s >= 2 * MinInt /\ i + s <= 2 * MaxInt
                       /\ ~(s > 0 /\ i + s > l) /\ ~(s < 0 /\ i + s < l)
  <2>1. r.limit.kind # "nan" /\ Ahead(r).kind # "nan" /\ Ahead(r).half = i + s
    BY <1>5 DEF AllInt, IsInt
  <2> QED
    BY <1>1, <2>1 DEF Continues, Fits, Past
<1>9. [r.index EXCEPT !.half = @ + s] = [kind |-> "int", half |-> i + s]
  BY <1>1, <1>3 DEF Triples, Numbers
<1>10. i >= 2 * MinInt /\ i <= 2 * MaxInt
  BY <1>3 DEF Fits
<1> HIDE DEF n, i, s, l
<1>11. Continues(r) <=> done + 1 <= n
  BY <1>1, <1>4, <1>6, <1>7, <1>8, <1>10, Range
<1> QED
  BY <1>5, <1>6, <1>9, <1>11 DEF n, i, s, l

(* What generated code owes when it stops, and the rest of its iteration, are   *)
(* covered by the fuel.                                                      *)
LEMMA ChargeBound ==
  ASSUME TierInv, native.on, native.at # 0
  PROVE  /\ native \in Natives /\ native.at \in 1 .. Back(body) /\ body \in Bodies
         /\ native.mode = "for" => Completed(native, regs) = native.done
         /\ Charge(native, regs) \in Nat
         /\ Charge(native, regs) + Rest(body, native.at) <= fuel
<1> USE DEF TierInv
<1>1. native \in Natives /\ native.budget = fuel /\ body \in Bodies /\ input \in Inputs
  BY DEF TierState, Idle, NativeInv, Inv
<1>2. /\ native.at \in 1 .. Back(body) /\ native.used \in Nat /\ native.off \in Nat
      /\ native.done \in Nat /\ native.take \in Int /\ native.budget \in Nat /\ Back(body) \in Nat
  BY <1>1, BodyType DEF Natives
<1> DEFINE c == Cost(body)
           r == Rest(body, native.at)
<1>3. c \in Nat \ {0} /\ r \in Nat \ {0}
  BY <1>1, <1>2, RestType
<1>4. Ready(regs) /\ regs.step.half \in Int /\ regs.step.half # 0 /\ regs.index.half \in Int
  <2>1. pc = 1 /\ 1 \in 1 .. Back(body)
    BY <1>1, BodyType DEF NativeInv
  <2> QED
    BY <1>1, <2>1, ReadyStep DEF Inv
<1>5. CASE native.mode = "while"
  <2>1. native.used + native.off + r <= native.budget
    BY <1>5 DEF NativeInv, InWhile
  <2> QED
    BY <1>1, <1>2, <1>3, <1>5, <2>1 DEF Charge
<1>6. CASE native.mode = "for"
  <2>1. InFor /\ native.from = regs.index.half
    BY <1>6 DEF NativeInv
  <2>2. Completed(native, regs) = native.done
    <3>1. native.index.half = regs.index.half + native.done * regs.step.half
      BY <2>1 DEF InFor
    <3>2. native.done \in Int
      BY <1>2
    <3>3. Steps(regs.index.half, regs.index.half + native.done * regs.step.half, regs) = native.done
      BY <1>4, <3>2, StepsExact, Zenon
    <3> QED
      BY <2>1, <3>1, <3>3, Zenon DEF Completed
  <2>3. (native.done + 1) * c <= native.take * c /\ native.take * c <= native.budget
    BY <1>2, <1>3, <2>1, MulMono DEF InFor
  <2>4. /\ (native.done + 1) * c = native.done * c + c /\ native.done * c \in Int
        /\ native.take * c \in Int /\ 0 * c <= native.done * c /\ 0 * c = 0
    BY <1>2, <1>3, MulNext, MulMono
  <2>5. CASE Uniform(body)
    <3>1. Charge(native, regs) = native.done * c + native.off /\ native.off + r = c
      BY <1>6, <2>1, <2>2, <2>5 DEF Charge, InFor
    <3> HIDE DEF c, r
    <3> QED
      BY <1>1, <1>2, <1>3, <2>2, <2>3, <2>4, <3>1 DEF c, r
  <2>6. CASE ~Uniform(body)
    <3>1. /\ Charge(native, regs) = native.used + native.off
          /\ native.used + native.off + r <= (native.done + 1) * c
      BY <1>6, <2>1, <2>6 DEF Charge, InFor
    <3> HIDE DEF c, r
    <3> QED
      BY <1>1, <1>2, <1>3, <2>2, <2>3, <2>4, <3>1 DEF c, r
  <2> QED
    BY <2>5, <2>6
<1>7. native.mode \in {"while", "for"}
  BY <1>1 DEF Natives
<1> QED
  BY <1>5, <1>6, <1>7

LEMMA TierStart == TierInit => TierInv
<1> SUFFICES ASSUME TierInit PROVE TierInv
  OBVIOUS
<1>1. Inv /\ body \in Bodies /\ input \in Inputs
  BY Start DEF TierInit, Inv
<1>2. SeenInv
  <2>1. seen = Unknown \/ (seen = Found(input) /\ Literal(input))
    BY DEF TierInit
  <2> QED
    BY <1>1, <2>1 DEF TierInit, SeenInv, Literal
<1>3. TierState
  BY TierAssumption, LoopAssumption, <1>1, BodyType DEF TierInit, Init, TierState, Tiers
<1>4. NativeInv
  BY DEF TierInit, NativeInv, Idle
<1> QED
  BY <1>1, <1>2, <1>3, <1>4 DEF TierInv

LEMMA Entering ==
  ASSUME Inv', pc' = 1, status' = "running", tier' = "compiled", ~hooks', fuel' \in Nat,
         NEW edge \in {"prep", "loop"}, native' = Enter(edge, fuel', regs')
  PROVE  NativeInv' /\ native' \in Natives' /\ Spilled' = regs'
<1>1. body' \in Bodies /\ 1 \in 1 .. Back(body)' /\ regs' \in Triples
  BY BodyType DEF Inv, Back
<1>2. Ready(regs)'
  BY <1>1 DEF Inv
<1>3. Spilled' = regs'
  BY <1>1 DEF Spilled, Enter, Triples
<1>4. Ready(Spilled)'
  BY <1>2, <1>3 DEF Ready, Prepared, First, Allowed, Within, Clipped, Beyond
<1>5. native' \in Natives'
  BY <1>1 DEF Enter, Natives, Triples, Numbers, Back
<1> QED
  BY <1>3, <1>4, <1>5 DEF NativeInv, Enter, AtEntry

(* The actions of the interpreter, which may hand the loop over.               *)
LEMMA InterpreterStep ==
  ASSUME TierInv, JForprep \/ JForloop \/ Interpret \/ JAgain
  PROVE  TierInv'
<1> USE DEF TierInv
<1>1. /\ ~native.on /\ native = Idle
  BY DEF TierState, Natives, Interpreting, JForprep, JForloop, Interpret, JAgain
<1>2. Inv' /\ body' = body /\ body \in Bodies
  <2>1. Next
    BY DEF Next, JForprep, JForloop, Interpret, JAgain
  <2>2. body' = body
    BY <2>1 DEF Next, Forprep, Instruction, Forloop, Fail, OutOfFuel, Again, Finish
  <2> QED
    BY <2>1, <2>2, Step DEF Inv
<1>3. CASE JForprep
  <2>1. /\ SeenInv' /\ fuel' \in 0 .. Fuel /\ status' = "running"
        /\ UNCHANGED <<hooks, tier, hot, deopts>>
    BY <1>3, LoopAssumption DEF JForprep, Forprep, Pay, SeenInv, TierState
  <2>2. CASE native' = Idle
    BY <1>2, <2>1, <2>2 DEF TierState, NativeInv, Idle, Exit, Back
  <2>3. CASE pc' = 1 /\ ~hooks /\ tier = "compiled" /\ native' = Enter("prep", fuel', regs')
    <3>1. NativeInv' /\ native' \in Natives'
      BY <1>2, <2>1, <2>3, Entering
    <3> QED
      BY <1>2, <2>1, <3>1 DEF TierState, Exit, Back
  <2> QED
    BY <1>3, <2>2, <2>3 DEF JForprep
<1>4. CASE JForloop
  <2>1. /\ SeenInv' /\ fuel' \in 0 .. Fuel /\ status' = "running"
        /\ UNCHANGED <<hooks, deopts>>
    BY <1>4, LoopAssumption DEF JForloop, Forloop, Pay, SeenInv, TierState
  <2>2. /\ hot' \in 0 .. Threshold /\ tier' \in Tiers /\ (tier' = "cold" => hot' < Threshold)
        /\ (tier' # "retired" => tier # "retired")
    BY <1>4, TierAssumption DEF JForloop, TierState, Tiers
  <2>3. CASE native' = Idle
    BY <1>2, <2>1, <2>2, <2>3 DEF TierState, NativeInv, Idle, Exit, Back
  <2>4. CASE pc' = 1 /\ ~hooks /\ tier' = "compiled" /\ native' = Enter("loop", fuel', regs')
    <3>1. NativeInv' /\ native' \in Natives'
      BY <1>2, <2>1, <2>4, Entering
    <3> QED
      BY <1>2, <2>1, <2>2, <3>1 DEF TierState, Exit, Back
  <2> QED
    BY <1>4, <2>3, <2>4 DEF JForloop
<1>5. CASE Interpret
  <2>1. UNCHANGED tiers /\ UNCHANGED input /\ fuel' \in 0 .. Fuel
    BY <1>5, LoopAssumption DEF Interpret, Instruction, Fail, OutOfFuel, Finish, Pay, TierState
  <2> QED
    BY <1>1, <1>2, <2>1 DEF tiers, SeenInv, TierState, NativeInv, Idle, Exit, Back
<1>6. CASE JAgain
  <2>1. /\ UNCHANGED <<generator, seen, tier, hot, deopts, native, fuel>> /\ hooks' \in BOOLEAN
        /\ seen.known => AllInt(input') /\ (~Rejoined => input' = input)
    BY <1>6 DEF JAgain, Again
  <2>2. SeenInv'
    <3>1. CASE seen = Unknown
      BY <1>2, <2>1, <3>1 DEF SeenInv
    <3>2. CASE seen # Unknown
      <4>1. PICK t \in Inputs : seen = Found(t) /\ Literal(t) /\ (~Rejoined => t = input)
        BY <3>2 DEF SeenInv
      <4>2. seen.known
        BY <4>1 DEF Found
      <4> QED
        BY <1>2, <2>1, <4>1, <4>2 DEF SeenInv
    <3> QED
      BY <3>1, <3>2
  <2> QED
    BY <1>1, <1>2, <2>1, <2>2 DEF TierState, NativeInv, Idle, Exit, Back
<1> QED
  BY <1>3, <1>4, <1>5, <1>6

LEMMA Leaving ==
  ASSUME TierInv, Generated, NEW q \in 1 .. Exit(body), NEW charge \in 0 .. fuel, NEW t \in Triples,
         q \in 1 .. Back(body) => Ready(t),
         Leave(q, charge, t), UNCHANGED Constant
  PROVE  /\ TierInv'
         /\ UNCHANGED <<body, input, status>> /\ pc' = q /\ regs' = t /\ native' = Idle
         /\ fuel' = fuel - charge
<1> USE DEF TierInv
<1>1. /\ pc' = q /\ regs' = t /\ native' = Idle /\ fuel' = fuel - charge
      /\ UNCHANGED <<body, input, hooks, generator, seen, hot>>
  BY DEF Leave, Constant
<1>2. fuel' \in 0 .. Fuel
  BY <1>1, LoopAssumption DEF TierState
<1>3. status' = status
  BY <1>2 DEF Leave
<1>4. body \in Bodies /\ input \in Inputs /\ Back(body) \in Nat /\ Exit(body) = Back(body) + 1
  BY BodyType DEF Inv
<1>5. q \in 1 .. Back(body) => Ready(regs)'
  BY <1>1 DEF Ready, Prepared, First, Allowed, Within, Clipped, Beyond
<1>6. Inv'
  BY <1>1, <1>4, <1>5 DEF Inv, Exit, Back
<1>7. SeenInv' /\ NativeInv'
  BY <1>1 DEF SeenInv, NativeInv, Idle
<1>8. TierState'
  <2>1. tier = "compiled" /\ \A p \in 1 .. Exit(body) : deopts[p] < RetireAfter
    BY DEF Generated, NativeInv, TierState
  <2>2. CASE deopts' = deopts /\ tier' = tier
    BY <1>1, <1>2, <2>1, <2>2 DEF TierState, Exit, Back
  <2>3. CASE deopts' = [deopts EXCEPT ![q] = @ + 1]
             /\ tier' = IF deopts[q] + 1 >= RetireAfter THEN "retired" ELSE tier
    <3>1. deopts[q] + 1 \in 0 .. RetireAfter
      BY <2>1, TierAssumption DEF TierState
    <3>2. deopts' \in [1 .. Exit(body) -> 0 .. RetireAfter]
      BY <2>3, <3>1 DEF TierState
    <3>3. tier' # "retired" => \A p \in 1 .. Exit(body) : deopts'[p] < RetireAfter
      BY <2>1, <2>3, <3>1, TierAssumption DEF TierState
    <3>4. tier' \in {"compiled", "retired"}
      BY <2>1, <2>3
    <3> QED
      BY <1>1, <1>2, <3>2, <3>3, <3>4 DEF TierState, Tiers, Exit, Back
  <2> QED
    BY <2>2, <2>3 DEF Leave
<1> QED
  BY <1>1, <1>3, <1>6, <1>7, <1>8

(* The state in generated code, and what the rest of it leaves alone.          *)
LEMMA Running ==
  ASSUME TierInv, Generated
  PROVE  /\ body \in Bodies /\ input \in Inputs /\ native \in Natives /\ fuel \in 0 .. Fuel
         /\ Ready(Spilled) /\ Spilled \in Triples /\ Spilled.index = native.index
         /\ Spilled.limit = regs.limit /\ Spilled.step = regs.step
         /\ Ready(regs) /\ regs \in Triples /\ pc = 1
         /\ regs.step.half \in Int /\ regs.step.half # 0 /\ regs.index.half \in Int
         /\ AllInt(regs) <=> IntLoop(input)
         /\ AllInt(Spilled) <=> IntLoop(input)
<1>1. /\ body \in Bodies /\ input \in Inputs /\ native \in Natives /\ fuel \in 0 .. Fuel
      /\ Ready(Spilled) /\ pc = 1 /\ regs \in Triples
  BY DEF TierInv, Inv, TierState, NativeInv, Generated, Idle
<1>2. Ready(regs)
  BY <1>1, BodyType DEF TierInv, Inv
<1>3. Spilled \in Triples /\ Spilled.index = native.index
      /\ Spilled.limit = regs.limit /\ Spilled.step = regs.step
  BY <1>1 DEF Spilled, Triples, Natives
<1> QED
  BY <1>1, <1>2, <1>3, ReadyStep, AdvanceSound

LEMMA Staying ==
  ASSUME TierInv, Generated,
         UNCHANGED Constant, UNCHANGED <<pc, regs, fuel, tier, deopts>>,
         status' \in {"running", "crashed"}, native' \in Natives, native'.on,
         native'.budget = native.budget, native'.from = native.from, native'.at # 0,
         Ready([regs EXCEPT !.index = native'.index]),
         (IF native.mode = "while" THEN InWhile ELSE InFor)'
  PROVE  TierInv'
<1> USE DEF TierInv
<1>1. UNCHANGED <<body, input, hooks, generator, seen, hot, pc, regs, fuel, tier, deopts>>
  BY DEF Constant
<1>2. Inv'
  BY <1>1 DEF Inv, Ready, Prepared, First, Allowed, Within, Clipped, Beyond, Exit, Back
<1>3. SeenInv' /\ TierState'
  BY <1>1 DEF SeenInv, TierState, Natives, Exit, Back
<1>4. Ready(Spilled)'
  BY <1>1 DEF Spilled, Ready, Prepared, First, Allowed, Within, Clipped, Beyond
<1>5. NativeInv'
  BY <1>1, <1>4 DEF NativeInv, Generated
<1> QED
  BY <1>2, <1>3, <1>5

(* The interpreter's state that the two tiers together stand for.              *)
PcBar == IF native.on THEN (IF native.at = 0 THEN 1 ELSE native.at) ELSE pc
RegsBar == IF native.on THEN Spilled ELSE regs
FuelBar == IF native.on THEN fuel - Charge(native, regs) ELSE fuel

Owed ==
  IF native.mode = "for" /\ Uniform(body) THEN native.done * Cost(body) + native.off
  ELSE native.used + native.off

LEMMA ChargeIsOwed == TierInv /\ native.on => Charge(native, regs) = Owed
<1> SUFFICES ASSUME TierInv, native.on PROVE Charge(native, regs) = Owed
  OBVIOUS
<1>1. CASE native.at = 0
  BY <1>1 DEF TierInv, NativeInv, AtEntry, Charge, Owed
<1>2. CASE native.at # 0
  BY <1>2, ChargeBound DEF Charge, Owed
<1> QED
  BY <1>1, <1>2

LEMMA ChargeIsOwedNext == (TierInv /\ native.on => Charge(native, regs) = Owed)'
  BY ChargeIsOwed, PTL

(* What the mapped state is after a step that stays in, or that leaves.         *)
LEMMA BarStays ==
  ASSUME TierInv', native'.on, native'.at # 0, UNCHANGED <<body, regs, fuel>>
  PROVE  /\ PcBar' = native'.at /\ RegsBar' = [regs EXCEPT !.index = native'.index]
         /\ FuelBar' = fuel - (IF native'.mode = "for" /\ Uniform(body)
                               THEN native'.done * Cost(body) + native'.off
                               ELSE native'.used + native'.off)
  BY ChargeIsOwedNext DEF PcBar, RegsBar, FuelBar, Spilled, Owed

LEMMA BarLeaves ==
  ASSUME native' = Idle PROVE PcBar' = pc' /\ RegsBar' = regs' /\ FuelBar' = fuel'
  BY DEF PcBar, RegsBar, FuelBar, Idle

LEMMA BarAtEntry ==
  ASSUME TierInv, Generated, native.at = 0
  PROVE  PcBar = 1 /\ RegsBar = regs /\ FuelBar = fuel
<1>1. AtEntry /\ native.on
  BY DEF TierInv, NativeInv, Generated
<1>2. Charge(native, regs) = 0
  BY <1>1, ChargeIsOwed DEF AtEntry, Owed
<1>3. Spilled = regs
  BY <1>1, Running DEF AtEntry, Spilled, Triples
<1> QED
  BY <1>1, <1>2, <1>3, Running DEF PcBar, RegsBar, FuelBar

LEMMA BarInside ==
  ASSUME TierInv, Generated, native.at # 0
  PROVE  /\ PcBar = native.at /\ RegsBar = Spilled /\ FuelBar = fuel - Charge(native, regs)
         /\ FuelBar \in Nat \ {0} /\ Charge(native, regs) \in 0 .. fuel
<1>1. native.on /\ fuel \in Nat
  BY Running, LoopAssumption DEF Generated
<1>2. /\ Charge(native, regs) \in Nat /\ Charge(native, regs) + Rest(body, native.at) <= fuel
      /\ Rest(body, native.at) \in Nat \ {0}
  BY <1>1, ChargeBound, RestType
<1> QED
  BY <1>1, <1>2 DEF PcBar, RegsBar, FuelBar

LEMMA EntryMissStep ==
  ASSUME TierInv, EntryMiss
  PROVE  TierInv' /\ UNCHANGED <<body, input, PcBar, RegsBar, x, status, FuelBar>>
<1>1. Generated /\ native.at = 0 /\ Leave(1, 0, regs) /\ UNCHANGED Constant /\ x' = x
  BY DEF EntryMiss
<1>2. 1 \in 1 .. Exit(body) /\ 0 \in 0 .. fuel
  BY <1>1, Running, BodyType, LoopAssumption
<1>3. /\ TierInv'
      /\ UNCHANGED <<body, input, status>> /\ pc' = 1 /\ regs' = regs /\ native' = Idle
      /\ fuel' = fuel - 0
  BY <1>1, <1>2, Running, Leaving
<1> QED
  BY <1>1, <1>3, Running, BarAtEntry, BarLeaves

LEMMA TotalType ==
  ASSUME TierInv, Generated PROVE Total(regs) \in Int
<1>1. regs.limit.half \in Int
  BY Running, ReadyStep
<1>2. Steps(regs.index.half, regs.limit.half, regs) \in Int
  BY <1>1, Running, StepsBound
<1> QED
  BY <1>2 DEF Total

(* Generated code starts only what the fuel covers.                           *)
LEMMA EntryStep ==
  ASSUME TierInv, Entry
  PROVE  TierInv' /\ UNCHANGED <<body, input, PcBar, RegsBar, x, status, FuelBar>>
<1> DEFINE c == Cost(body)
           total == Total(regs)
           take == Lesser(total, native.budget \div c)
           batched == generator \in {"batch", "dense"}
           matched == generator = "diamond" /\ total > 0 /\ native.budget >= total * c
           n == CASE batched -> [native EXCEPT !.mode = "for", !.total = total, !.at = 1, !.take = take]
                  [] matched -> [native EXCEPT !.mode = "for", !.total = total, !.at = 1, !.take = total]
                  [] OTHER -> [native EXCEPT !.at = 1]
<1>1. /\ Generated /\ native.at = 0 /\ UNCHANGED Constant /\ x' = x
      /\ generator = "dense" => AllInt(regs)
      /\ IF Starts(n) THEN native' = n /\ UNCHANGED <<pc, regs, status, fuel, tier, deopts>>
         ELSE Leave(1, 0, regs)
  BY DEF Entry
<1>2. /\ body \in Bodies /\ native \in Natives /\ native.on /\ fuel \in Nat /\ native.budget = fuel
      /\ AtEntry /\ native.from = regs.index.half /\ native.index = regs.index /\ total \in Int
      /\ regs \in Triples /\ Ready(regs)
  BY <1>1, Running, TotalType, LoopAssumption DEF TierInv, NativeInv, AtEntry, Generated
<1>3. /\ c \in Nat \ {0} /\ c = Rest(body, 1) /\ 1 \in 0 .. Back(body) /\ 1 \in 1 .. Exit(body)
      /\ (Straight(body) => Uniform(body))
  BY <1>2, RestType, BodyType DEF Cost
<1>4. CASE ~Starts(n)
  <2>1. 0 \in 0 .. fuel /\ Leave(1, 0, regs)
    BY <1>1, <1>2, <1>4
  <2>2. /\ TierInv'
        /\ UNCHANGED <<body, input, status>> /\ pc' = 1 /\ regs' = regs /\ native' = Idle
        /\ fuel' = fuel - 0
    BY <1>1, <1>2, <1>3, <2>1, Leaving
  <2> QED
    BY <1>1, <1>2, <2>2, BarAtEntry, BarLeaves
<1>5. ASSUME Starts(n), native' = n, UNCHANGED <<pc, regs, status, fuel, tier, deopts>>,
             n \in Natives, n.on, n.at = 1, n.budget = fuel, n.from = native.from, n.index = regs.index,
             n.used = 0, n.off = 0, n.done = 0,
             (IF native.mode = "while" THEN InWhile ELSE InFor)'
      PROVE  TierInv' /\ UNCHANGED <<body, input, PcBar, RegsBar, x, status, FuelBar>>
  <2>1. [regs EXCEPT !.index = n.index] = regs
    BY <1>2, <1>5 DEF Triples
  <2>2. TierInv'
    BY <1>1, <1>2, <1>5, <2>1, Staying DEF Generated
  <2>3. body' = body /\ input' = input
    BY <1>1 DEF Constant
  <2>4. 0 * c = 0
    BY <1>3, MulNext
  <2>5. PcBar' = 1 /\ RegsBar' = regs /\ FuelBar' = fuel
    BY <1>2, <1>5, <2>1, <2>2, <2>3, <2>4, BarStays
  <2> QED
    BY <1>1, <1>5, <2>2, <2>3, <2>5, BarAtEntry
<1>6. CASE Starts(n) /\ ~batched /\ ~matched
  <2>1. /\ n = [native EXCEPT !.at = 1] /\ n \in Natives /\ n.on /\ n.at = 1 /\ n.budget = fuel
        /\ n.from = native.from /\ n.index = regs.index /\ n.used = 0 /\ n.off = 0 /\ n.done = 0
        /\ n.mode = "while"
    BY <1>2, <1>3, <1>6 DEF AtEntry, Natives
  <2>2. n.used + n.off + Rest(body, 1) <= n.budget
    BY <1>3, <1>6, <2>1 DEF Starts
  <2> HIDE DEF n
  <2>3. (IF native.mode = "while" THEN InWhile ELSE InFor)'
    BY <1>1, <1>6, <2>1, <2>2 DEF InWhile, Constant
  <2> QED
    BY <1>1, <1>5, <1>6, <2>1, <2>3
<1>7. ASSUME Starts(n), NEW m \in Int, m > 0, m <= total, m * c <= fuel,
             n = [native EXCEPT !.mode = "for", !.total = total, !.at = 1, !.take = m],
             generator \in {"batch", "dense", "diamond"}, AllInt(regs),
             generator = "diamond" => m = total,
             generator # "diamond" => Uniform(body)
      PROVE  TierInv' /\ UNCHANGED <<body, input, PcBar, RegsBar, x, status, FuelBar>>
  <2>1. /\ n \in Natives /\ n.on /\ n.at = 1 /\ n.budget = fuel /\ n.take = m /\ n.total = total
        /\ n.from = native.from /\ n.index = regs.index /\ n.used = 0 /\ n.off = 0 /\ n.done = 0
        /\ n.mode = "for"
    <3>1. /\ native \in Natives /\ m \in Int /\ total \in Int /\ 1 \in 0 .. Back(body)
          /\ native.on /\ native.budget = fuel /\ native.index = regs.index
          /\ native.used = 0 /\ native.off = 0 /\ native.done = 0
          /\ n = [native EXCEPT !.mode = "for", !.total = total, !.at = 1, !.take = m]
      BY <1>2, <1>3, <1>7 DEF AtEntry
    <3> HIDE DEF n, total
    <3> QED
      BY <3>1 DEF Natives
  <2>2. regs.index.half = native.from + 0 * regs.step.half /\ (0 + 1) * c = c
    <3>1. 0 * regs.step.half = 0 /\ (0 + 1) * c = 0 * c + c /\ 0 * c = 0
      BY <1>1, <1>3, Running, MulNext
    <3> QED
      BY <1>1, <1>2, <1>3, <3>1, Running
  <2> HIDE DEF n, c
  <2>3. UNCHANGED <<regs, fuel, generator, body>> /\ native' = n
    BY <1>1, <1>7 DEF Constant
  <2>4. InFor'
    <3>1. Total(regs)' = total /\ AllInt(regs)'
      BY <1>7, <2>3 DEF Total, Steps, Up, AllInt, IntLoop, IsInt
    <3>2. Cost(body)' = c /\ Rest(body, 1) = c /\ Uniform(body)' = Uniform(body)
      BY <1>3, <2>3 DEF c
    <3>3. 0 + c = c /\ 0 + 0 + c <= c /\ 0 < m
      BY <1>3, <1>7
    <3> HIDE DEF total
    <3> QED
      BY <1>7, <2>1, <2>2, <2>3, <3>1, <3>2, <3>3 DEF InFor
  <2> QED
    BY <1>1, <1>5, <1>7, <2>1, <2>4
<1>8. CASE Starts(n) /\ batched
  <2>1. AllInt(regs) /\ Uniform(body)
    <3>1. Takes(generator, body, seen.known) /\ (seen = Unknown \/ AllInt(input))
      BY DEF TierInv, SeenInv
    <3>2. Straight(body) /\ (generator = "batch" => seen.known)
      BY <1>8, <3>1 DEF Takes
    <3>3. generator = "batch" => AllInt(input)
      BY <3>1, <3>2 DEF Unknown
    <3> QED
      BY <1>1, <1>3, <1>8, <3>2, <3>3, Running DEF AllInt
  <2>2. n = [native EXCEPT !.mode = "for", !.total = total, !.at = 1, !.take = take]
    BY <1>8
  <2>3. fuel \div c \in Int /\ \A d \in Int : d <= fuel \div c <=> d * c <= fuel
    BY <1>2, <1>3, DivBound
  <2>4. take \in Int /\ take <= total /\ take <= fuel \div c
    <3> HIDE DEF total, c
    <3> QED BY <1>2, <2>3 DEF Lesser
  <2>5. take > 0
    BY <1>2, <1>8, <2>2 DEF Starts, Natives
  <2> HIDE DEF n, take, total, c
  <2> QED
    BY <1>7, <1>8, <2>1, <2>2, <2>3, <2>4, <2>5
<1>9. CASE Starts(n) /\ matched
  <2>1. AllInt(regs)
    <3>1. Takes(generator, body, seen.known) /\ (seen = Unknown \/ AllInt(input))
      BY DEF TierInv, SeenInv
    <3>2. AllInt(input)
      BY <1>9, <3>1 DEF Takes, Unknown
    <3> QED
      BY <1>1, <3>2, Running DEF AllInt
  <2>2. n = [native EXCEPT !.mode = "for", !.total = total, !.at = 1, !.take = total]
    BY <1>9
  <2>3. total > 0 /\ total <= total /\ total * c <= fuel /\ total \in Int
    <3>1. total * c \in Int
      BY <1>2, <1>3, MulNext
    <3> HIDE DEF total, c
    <3> QED BY <1>2, <1>9, <3>1
  <2> HIDE DEF n, total, c
  <2> QED
    BY <1>7, <1>9, <2>1, <2>2, <2>3
<1> QED
  BY <1>4, <1>6, <1>8, <1>9

LEMMA InstructionStep ==
  ASSUME TierInv, NativeInstruction
  PROVE  /\ TierInv' /\ UNCHANGED <<body, input, status>> /\ status = "running"
         /\ PcBar = native.at /\ native.at \in 1 .. Len(body.next) /\ PcBar' \in body.next[native.at]
         /\ RegsBar = Spilled /\ RegsBar' = RegsBar
         /\ FuelBar > 0 /\ FuelBar' = FuelBar - 1
<1>1. /\ Generated /\ native.at \in 1 .. Len(body.next) /\ native.at # 0
      /\ UNCHANGED Constant /\ UNCHANGED <<pc, regs, status, fuel, tier, deopts>>
  BY DEF NativeInstruction
<1>2. PICK q \in body.next[native.at] : native' = [native EXCEPT !.at = q, !.off = @ + 1]
  BY DEF NativeInstruction
<1>3. /\ body \in Bodies /\ native \in Natives /\ native.on /\ native.off \in Nat /\ native.used \in Nat
      /\ UNCHANGED <<body, input, generator>> /\ fuel \in Nat
      /\ Ready(Spilled) /\ native.budget = fuel
  BY <1>1, Running, LoopAssumption DEF Generated, Constant, Natives, TierInv, NativeInv
<1> DEFINE r == Rest(body, native.at)
           s == Rest(body, q)
<1>4. /\ q \in 2 .. Back(body) /\ s + 1 <= r /\ (Uniform(body) => s + 1 = r)
      /\ s \in Nat \ {0} /\ r \in Nat \ {0}
  <2>1. Back(body) \in Nat /\ Back(body) = Len(body.next) + 1
    BY <1>3, BodyType
  <2>2. q \in 2 .. Back(body) /\ s + 1 <= r /\ (Uniform(body) => s + 1 = r)
    BY <1>1, <1>2, <1>3, RestType
  <2>3. q \in 1 .. Back(body) /\ native.at \in 1 .. Back(body)
    BY <1>1, <2>1, <2>2
  <2> QED
    BY <1>3, <2>2, <2>3, RestType
<1>5. /\ native' \in Natives /\ native'.on /\ native'.budget = native.budget /\ native'.at = q
      /\ native'.from = native.from /\ native'.index = native.index /\ native'.mode = native.mode
      /\ native'.used = native.used /\ native'.off = native.off + 1 /\ native'.done = native.done
      /\ native'.take = native.take /\ native'.total = native.total
  <2>1. Back(body) \in Nat
    BY <1>3, BodyType
  <2>2. q \in 0 .. Back(body) /\ native.off + 1 \in Nat
    BY <1>3, <1>4, <2>1
  <2>3. [native EXCEPT !.at = q, !.off = @ + 1] = [native EXCEPT !.at = q, !.off = native.off + 1]
    BY <1>3 DEF Natives
  <2> QED
    BY <1>2, <1>3, <2>2, <2>3 DEF Natives
<1>6. (IF native.mode = "while" THEN InWhile ELSE InFor)'
  <2>1. CASE native.mode = "while"
    <3>1. native.used + native.off + r <= native.budget
      BY <1>1, <1>3, <2>1 DEF TierInv, NativeInv, InWhile
    <3>2. native.used + (native.off + 1) + s <= native.budget
      <4> HIDE DEF r, s
      <4> QED BY <1>3, <1>4, <3>1, LoopAssumption
    <3> QED
      BY <1>3, <1>5, <2>1, <3>2 DEF InWhile
  <2>2. CASE native.mode # "while"
    <3>1. InFor
      BY <1>1, <1>3, <2>2 DEF TierInv, NativeInv
    <3>2. Total(regs)' = Total(regs) /\ AllInt(regs)'
      BY <1>1, <3>1 DEF InFor, Total, Steps, Up, AllInt, IntLoop, IsInt
    <3>3. IF Uniform(body) THEN native.off + 1 + s = Cost(body)
          ELSE native.used + (native.off + 1) + s <= (native.done + 1) * Cost(body)
      <4>1. IF Uniform(body) THEN native.off + r = Cost(body)
            ELSE native.used + native.off + r <= (native.done + 1) * Cost(body)
        BY <3>1 DEF InFor
      <4>2. (native.done + 1) * Cost(body) \in Int
        <5>1. native.done + 1 \in Int /\ Cost(body) \in Int
          BY <1>3, RestType DEF Natives
        <5> QED
          BY <5>1, MulNext
      <4> HIDE DEF r, s
      <4> QED BY <1>3, <1>4, <4>1, <4>2
    <3> QED
      BY <1>1, <1>3, <1>5, <2>2, <3>1, <3>2, <3>3 DEF InFor
  <2> QED
    BY <2>1, <2>2
<1>7. [regs EXCEPT !.index = native'.index] = Spilled /\ q # 0
  BY <1>4, <1>5 DEF Spilled
<1>8. TierInv'
  BY <1>1, <1>3, <1>4, <1>5, <1>6, <1>7, Staying DEF Generated
<1>9. PcBar' = q /\ RegsBar' = Spilled
  BY <1>1, <1>3, <1>5, <1>7, <1>8, BarStays
<1>10. FuelBar' = fuel - (Owed + 1)
  <2>1. FuelBar' = fuel - (IF native.mode = "for" /\ Uniform(body)
                          THEN native.done * Cost(body) + (native.off + 1)
                          ELSE native.used + (native.off + 1))
    BY <1>1, <1>3, <1>5, <1>7, <1>8, BarStays
  <2>2. native.done * Cost(body) \in Int
    <3>1. native.done \in Int /\ Cost(body) \in Int
      BY <1>3, RestType DEF Natives
    <3> QED
      BY <3>1, MulNext
  <2> QED
    BY <1>3, <2>1, <2>2 DEF Owed
<1>11. FuelBar = fuel - Owed /\ FuelBar \in Nat \ {0} /\ PcBar = native.at /\ RegsBar = Spilled
       /\ Owed \in 0 .. fuel
  BY <1>1, <1>3, BarInside, ChargeIsOwed
<1>12. FuelBar > 0 /\ FuelBar' = FuelBar - 1
  BY <1>3, <1>10, <1>11
<1> QED
  BY <1>1, <1>2, <1>3, <1>8, <1>9, <1>11, <1>12 DEF Generated

LEMMA GuardMissStep ==
  ASSUME TierInv, GuardMiss
  PROVE  /\ TierInv'
         /\ Counted => UNCHANGED <<body, input, PcBar, RegsBar, x, status, FuelBar>>
<1>1. /\ Generated /\ native.at \in body.guards /\ UNCHANGED Constant /\ x' = x
      /\ body \in Bodies /\ native \in Natives /\ native.on
  BY Running DEF GuardMiss, Generated
<1>2. native.at \in 1 .. Len(body.next) /\ native.at # 0 /\ native.at \in 1 .. Exit(body)
  BY <1>1, BodyType
<1>3. CASE Counted
  <2>1. Leave(native.at, Charge(native, regs), Spilled) /\ Charge(native, regs) \in 0 .. fuel
    BY <1>1, <1>2, <1>3, BarInside DEF GuardMiss
  <2>2. /\ TierInv'
        /\ UNCHANGED <<body, input, status>> /\ pc' = native.at /\ regs' = Spilled /\ native' = Idle
        /\ fuel' = fuel - Charge(native, regs)
    BY <1>1, <1>2, <2>1, Running, Leaving
  <2> QED
    BY <1>1, <1>2, <2>2, BarInside, BarLeaves
<1>4. CASE ~Counted
  <2>1. status' = "crashed" /\ UNCHANGED <<pc, regs, native, fuel, tier, deopts>>
    BY <1>4 DEF GuardMiss
  <2>2. IF native.mode = "while" THEN InWhile ELSE InFor
    BY <1>1, <1>2 DEF TierInv, NativeInv
  <2>3. (IF native.mode = "while" THEN InWhile ELSE InFor)'
    BY <1>1, <2>1, <2>2 DEF InWhile, InFor, Constant, Total, Steps, Up, AllInt, IntLoop, IsInt
  <2>4. [regs EXCEPT !.index = native.index] = Spilled
    BY DEF Spilled
  <2>5. TierInv'
    BY <1>1, <1>2, <2>1, <2>3, <2>4, Running, Staying
  <2> QED
    BY <1>4, <2>5
<1> QED
  BY <1>3, <1>4

(* A back edge, in either form, does what FORLOOP does.                        *)
BackStep ==
  /\ UNCHANGED <<body, input, x, status>> /\ status = "running"
  /\ PcBar = Back(body) /\ RegsBar = Spilled /\ FuelBar > 0 /\ FuelBar' = FuelBar - 1
  /\ IF Continues(Spilled)
     THEN PcBar' = 1 /\ RegsBar' = [Spilled EXCEPT !.index = Ahead(Spilled)]
     ELSE PcBar' = Exit(body) /\ RegsBar' = Spilled

LEMMA AtBack ==
  ASSUME TierInv, Generated, native.at = Back(body)
  PROVE  /\ body \in Bodies /\ Back(body) \in Nat \ {0} /\ Exit(body) = Back(body) + 1
         /\ native \in Natives /\ native.on /\ native.at # 0 /\ fuel \in Nat /\ native.budget = fuel
         /\ Owed + 1 \in 0 .. fuel /\ Owed \in Nat /\ Rest(body, native.at) = 1
         /\ PcBar = Back(body) /\ RegsBar = Spilled /\ FuelBar = fuel - Owed /\ FuelBar > 0
         /\ Ready(Spilled) /\ Spilled \in Triples
         /\ Continues(Spilled) => Ready([Spilled EXCEPT !.index = Ahead(Spilled)])
                                  /\ [Spilled EXCEPT !.index = Ahead(Spilled)] \in Triples
                                  /\ Ahead(Spilled) \in Numbers
<1>1. body \in Bodies /\ native \in Natives /\ native.on /\ fuel \in Nat /\ native.budget = fuel
      /\ Ready(Spilled) /\ Spilled \in Triples /\ input \in Inputs
  BY Running, LoopAssumption DEF Generated, TierInv, NativeInv
<1>2. Back(body) \in Nat \ {0} /\ Exit(body) = Back(body) + 1
  BY <1>1, BodyType
<1>3. Rest(body, native.at) = 1
  BY <1>1, RestType
<1>4. /\ Owed \in Nat /\ Owed + 1 <= fuel
      /\ PcBar = Back(body) /\ RegsBar = Spilled /\ FuelBar = fuel - Owed /\ FuelBar \in Nat \ {0}
  BY <1>1, <1>2, <1>3, ChargeBound, ChargeIsOwed, BarInside
<1>5. Continues(Spilled) => Ready([Spilled EXCEPT !.index = Ahead(Spilled)])
  BY <1>1, AdvanceSound
<1>6. Continues(Spilled) => [Spilled EXCEPT !.index = Ahead(Spilled)] \in Triples
  BY <1>5 DEF Ready
<1>7. Continues(Spilled) => Ahead(Spilled) \in Numbers
  BY <1>1, <1>6 DEF Triples
<1> QED
  BY <1>1, <1>2, <1>3, <1>4, <1>5, <1>6, <1>7

LEMMA WhileBackStep ==
  ASSUME TierInv, WhileBack PROVE TierInv' /\ BackStep
<1> DEFINE used == native.used + native.off + 1
           t == [Spilled EXCEPT !.index = Ahead(Spilled)]
           n == [native EXCEPT !.index = t.index, !.used = used, !.off = 0, !.at = 1]
<1>1. /\ Generated /\ native.mode = "while" /\ native.at = Back(body) /\ UNCHANGED Constant /\ x' = x
      /\ status = "running"
      /\ IF ~Continues(Spilled) THEN Leave(Exit(body), used, Spilled)
         ELSE IF native.budget - used >= Cost(body)
         THEN native' = n /\ UNCHANGED <<pc, regs, status, fuel, tier, deopts>>
         ELSE Leave(1, used, t)
  BY DEF WhileBack, Generated
<1>2. /\ body \in Bodies /\ Back(body) \in Nat \ {0} /\ Exit(body) = Back(body) + 1
      /\ native \in Natives /\ native.on /\ native.at # 0 /\ fuel \in Nat /\ native.budget = fuel
      /\ Owed + 1 \in 0 .. fuel /\ Owed \in Nat
      /\ PcBar = Back(body) /\ RegsBar = Spilled /\ FuelBar = fuel - Owed /\ FuelBar > 0
      /\ Ready(Spilled) /\ Spilled \in Triples
      /\ Continues(Spilled) => Ready(t) /\ t \in Triples /\ Ahead(Spilled) \in Numbers
  BY <1>1, AtBack
<1>3. used = Owed + 1 /\ used \in 0 .. fuel
  BY <1>1, <1>2 DEF Owed
<1>4. Exit(body) \in 1 .. Exit(body) /\ 1 \in 1 .. Exit(body) /\ ~(Exit(body) \in 1 .. Back(body))
  BY <1>2
<1> HIDE DEF used
<1>5. CASE ~Continues(Spilled)
  <2>1. Leave(Exit(body), used, Spilled)
    BY <1>1, <1>5
  <2>2. /\ TierInv'
        /\ UNCHANGED <<body, input, status>> /\ pc' = Exit(body) /\ regs' = Spilled /\ native' = Idle
        /\ fuel' = fuel - used
    BY <1>1, <1>2, <1>3, <1>4, <2>1, Leaving
  <2> QED
    BY <1>1, <1>2, <1>3, <1>5, <2>2, BarLeaves DEF BackStep
<1>6. CASE Continues(Spilled) /\ ~(native.budget - used >= Cost(body))
  <2>1. Leave(1, used, t) /\ Ready(t) /\ t \in Triples
    BY <1>1, <1>2, <1>6
  <2> HIDE DEF t
  <2>2. /\ TierInv'
        /\ UNCHANGED <<body, input, status>> /\ pc' = 1 /\ regs' = t /\ native' = Idle
        /\ fuel' = fuel - used
    BY <1>1, <1>2, <1>3, <1>4, <2>1, Leaving
  <2> QED
    BY <1>1, <1>2, <1>3, <1>6, <2>2, BarLeaves DEF BackStep, t
<1>7. CASE Continues(Spilled) /\ native.budget - used >= Cost(body)
  <2>1. native' = n /\ UNCHANGED <<pc, regs, status, fuel, tier, deopts, body, input, generator>>
    BY <1>1, <1>7 DEF Constant
  <2>2. t.index = Ahead(Spilled) /\ Ahead(Spilled) \in Numbers /\ [regs EXCEPT !.index = t.index] = t
    BY <1>2, <1>7, Running, <1>1 DEF Spilled, Triples
  <2>3. used \in Nat /\ 1 \in 0 .. Back(body)
    BY <1>2, <1>3
  <2>4. /\ n \in Natives /\ n.on /\ n.budget = native.budget /\ n.from = native.from /\ n.at = 1
        /\ n.index = t.index /\ n.mode = "while" /\ n.used = used /\ n.off = 0
    BY <1>1, <1>2, <2>2, <2>3 DEF Natives
  <2> HIDE DEF n, t
  <2>5. used + 0 + Rest(body, 1) <= native.budget
    <3>1. Cost(body) = Rest(body, 1) /\ Cost(body) \in Nat
      BY <1>2, RestType DEF Cost
    <3> QED
      BY <1>2, <1>3, <1>7, <3>1
  <2>6. (IF native.mode = "while" THEN InWhile ELSE InFor)'
    BY <2>1, <2>4, <2>5 DEF InWhile
  <2>7. Ready([regs EXCEPT !.index = native'.index]) /\ native'.at # 0
    BY <1>2, <1>7, <2>1, <2>2, <2>4 DEF t
  <2>8. TierInv'
    BY <1>1, <2>1, <2>4, <2>6, <2>7, Staying DEF Generated
  <2>9. PcBar' = 1 /\ RegsBar' = t /\ FuelBar' = fuel - (used + 0)
    BY <2>1, <2>2, <2>4, <2>8, BarStays
  <2>10. FuelBar' = FuelBar - 1
    BY <1>2, <1>3, <2>9
  <2> QED
    BY <1>1, <1>2, <1>7, <2>1, <2>8, <2>9, <2>10 DEF BackStep, t
<1> QED
  BY <1>5, <1>6, <1>7

LEMMA ForBackStep ==
  ASSUME TierInv, ForBack PROVE TierInv' /\ BackStep
<1> DEFINE c == Cost(body)
           used == IF Uniform(body) THEN (native.done + 1) * c ELSE native.used + native.off + 1
           t == [Spilled EXCEPT !.index.half = @ + regs.step.half]
           n == [native EXCEPT !.index = t.index, !.used = used, !.off = 0, !.at = 1, !.done = @ + 1]
           more == native.done + 1 < native.take
           last == native.done + 1 = native.take /\ native.take = native.total
<1>1. /\ Generated /\ native.mode = "for" /\ native.at = Back(body) /\ UNCHANGED Constant /\ x' = x
      /\ status = "running"
      /\ CASE more -> native' = n /\ UNCHANGED <<pc, regs, status, fuel, tier, deopts>>
           [] last -> Leave(Exit(body), used, Spilled)
           [] OTHER -> Leave(1, used, t)
  BY DEF ForBack, Generated
<1>2. /\ body \in Bodies /\ Back(body) \in Nat \ {0} /\ Exit(body) = Back(body) + 1
      /\ native \in Natives /\ native.on /\ native.at # 0 /\ fuel \in Nat /\ native.budget = fuel
      /\ Owed + 1 \in 0 .. fuel /\ Owed \in Nat /\ Rest(body, native.at) = 1
      /\ PcBar = Back(body) /\ RegsBar = Spilled /\ FuelBar = fuel - Owed /\ FuelBar > 0
      /\ Ready(Spilled) /\ Spilled \in Triples
  BY <1>1, AtBack
<1>3. /\ InFor /\ native.from = regs.index.half /\ input \in Inputs /\ native.done \in Nat
      /\ native.take \in Int /\ native.used \in Nat /\ native.off \in Nat /\ c \in Nat \ {0}
  BY <1>1, <1>2, RestType DEF TierInv, NativeInv, Inv, Natives
<1>4. (native.done + 1) * c = native.done * c + c /\ native.done * c \in Int
      /\ (native.done + 1 + 1) * c = (native.done + 1) * c + c
  BY <1>3, MulNext
<1>5. used = Owed + 1 /\ used \in 0 .. fuel /\ (~Uniform(body) => used <= (native.done + 1) * c)
  <2>1. CASE Uniform(body)
    <3>1. native.off + 1 = c
      BY <1>2, <1>3, <2>1 DEF InFor
    <3>2. Owed = native.done * c + native.off /\ used = (native.done + 1) * c
      BY <1>1, <2>1 DEF Owed
    <3> HIDE DEF c, used
    <3> QED
      BY <1>2, <1>3, <1>4, <2>1, <3>1, <3>2
  <2>2. CASE ~Uniform(body)
    <3>1. native.used + native.off + 1 <= (native.done + 1) * c
      BY <1>2, <1>3, <2>2 DEF InFor
    <3>2. Owed = native.used + native.off /\ used = native.used + native.off + 1
      BY <1>1, <2>2 DEF Owed
    <3> HIDE DEF c, used
    <3> QED
      BY <1>2, <1>3, <2>2, <3>1, <3>2
  <2> QED
    BY <2>1, <2>2
<1>6. /\ Continues(Spilled) <=> native.done + 1 < native.total
      /\ Continues(Spilled) => t = [Spilled EXCEPT !.index = Ahead(Spilled)]
      /\ native.total \in Int
  <2>1. /\ AllInt(Spilled) /\ Spilled.step = regs.step /\ Spilled.limit = regs.limit
        /\ Spilled.index = native.index /\ regs.index.half \in Int
    BY <1>1, <1>3, Running DEF InFor
  <2>2. Spilled.index.half = native.from + native.done * Spilled.step.half /\ native.from \in Int
    BY <1>3, <2>1 DEF InFor
  <2>3. /\ Continues(Spilled) <=> native.done + 1 < Steps(native.from, Spilled.limit.half, Spilled) + 1
        /\ Continues(Spilled) => Ahead(Spilled) = [Spilled.index EXCEPT !.half = @ + Spilled.step.half]
        /\ Steps(native.from, Spilled.limit.half, Spilled) \in Int
    BY <1>2, <1>3, <2>1, <2>2, LastIteration
  <2>4. native.total = Steps(native.from, Spilled.limit.half, Spilled) + 1
    BY <1>3, <2>1 DEF InFor, Total, Steps, Up
  <2>5. t = [Spilled EXCEPT !.index = [Spilled.index EXCEPT !.half = @ + Spilled.step.half]]
    BY <1>2, <2>1 DEF Triples
  <2> QED
    BY <2>3, <2>4, <2>5
<1>7. Continues(Spilled) => Ready(t) /\ t \in Triples /\ t.index \in Numbers
  <2>1. Continues(Spilled) => Ready([Spilled EXCEPT !.index = Ahead(Spilled)])
                              /\ [Spilled EXCEPT !.index = Ahead(Spilled)] \in Triples
    BY <1>1, AtBack
  <2>2. Continues(Spilled) => Ready(t) /\ t \in Triples
    BY <1>6, <2>1
  <2> HIDE DEF t
  <2> QED
    BY <2>2 DEF Triples
<1>8. Exit(body) \in 1 .. Exit(body) /\ 1 \in 1 .. Exit(body) /\ ~(Exit(body) \in 1 .. Back(body))
      /\ native.done + 1 <= native.take /\ native.take <= native.total
  BY <1>2, <1>3 DEF InFor
<1> HIDE DEF used, t
<1>9. CASE ~more /\ last
  <2>1. Leave(Exit(body), used, Spilled) /\ ~Continues(Spilled)
    BY <1>1, <1>3, <1>6, <1>9
  <2>2. /\ TierInv'
        /\ UNCHANGED <<body, input, status>> /\ pc' = Exit(body) /\ regs' = Spilled /\ native' = Idle
        /\ fuel' = fuel - used
    BY <1>1, <1>2, <1>5, <1>8, <2>1, Leaving
  <2> QED
    BY <1>1, <1>2, <1>5, <2>1, <2>2, BarLeaves DEF BackStep
<1>10. CASE ~more /\ ~last
  <2>1. Leave(1, used, t) /\ Continues(Spilled)
    BY <1>1, <1>3, <1>6, <1>8, <1>10
  <2>2. /\ TierInv'
        /\ UNCHANGED <<body, input, status>> /\ pc' = 1 /\ regs' = t /\ native' = Idle
        /\ fuel' = fuel - used
    BY <1>1, <1>2, <1>5, <1>7, <1>8, <2>1, Leaving
  <2> QED
    BY <1>1, <1>2, <1>5, <1>6, <2>1, <2>2, BarLeaves DEF BackStep
<1>11. CASE more
  <2>1. native' = n /\ UNCHANGED <<pc, regs, status, fuel, tier, deopts, body, input, generator>>
    <3>1. ~last
      BY <1>3, <1>11
    <3> HIDE DEF n, more, last
    <3>2. native' = n /\ UNCHANGED <<pc, regs, status, fuel, tier, deopts>>
      BY <1>1, <1>11, <3>1
    <3> QED
      BY <1>1, <3>2 DEF Constant
  <2>2. Continues(Spilled)
    BY <1>3, <1>6, <1>8, <1>11
  <2>3. [regs EXCEPT !.index = t.index] = t
    BY <1>1, <1>2, <1>7, <2>2, Running DEF Spilled, Triples, t
  <2>4. used \in Nat /\ 1 \in 0 .. Back(body) /\ t.index \in Numbers
    BY <1>2, <1>5, <1>7, <2>2
  <2>5. /\ n \in Natives /\ n.on /\ n.budget = native.budget /\ n.from = native.from /\ n.at = 1
        /\ n.index = t.index /\ n.mode = "for" /\ n.used = used /\ n.off = 0
        /\ n.done = native.done + 1 /\ n.take = native.take /\ n.total = native.total
    <3>1. native.done + 1 \in Nat
      BY <1>3
    <3>2. n = [native EXCEPT !.index = t.index, !.used = used, !.off = 0, !.at = 1,
                             !.done = native.done + 1]
      BY <1>2 DEF Natives
    <3> QED
      BY <1>1, <1>2, <2>4, <3>1, <3>2 DEF Natives
  <2>6. t.index.half = native.from + (native.done + 1) * regs.step.half
    <3>1. regs.step.half \in Int /\ regs.index.half \in Int /\ Spilled.index = native.index
      BY <1>1, Running
    <3>2. /\ (native.done + 1) * regs.step.half = native.done * regs.step.half + regs.step.half
          /\ native.done * regs.step.half \in Int
      BY <1>3, <3>1, MulNext
    <3>3. native.index.half = native.from + native.done * regs.step.half
      BY <1>3 DEF InFor
    <3>4. t.index.half = native.index.half + regs.step.half
      BY <1>2, <3>1 DEF t, Triples, Numbers
    <3> QED
      BY <1>3, <3>1, <3>2, <3>3, <3>4
  <2> HIDE DEF n
  <2>7. InFor'
    <3>1. Total(regs)' = Total(regs) /\ AllInt(regs)'
      BY <1>3, <2>1 DEF InFor, Total, Steps, Up, AllInt, IntLoop, IsInt
    <3>2. IF Uniform(body) THEN 0 + Rest(body, 1) = c
          ELSE used + 0 + Rest(body, 1) <= (native.done + 1 + 1) * c
      <4>1. Rest(body, 1) = c /\ (native.done + 1) * c \in Int
        BY <1>3, <1>4 DEF Cost
      <4> HIDE DEF c
      <4> QED
        BY <1>3, <1>4, <1>5, <2>4, <4>1
    <3> QED
      BY <1>3, <1>11, <2>1, <2>5, <2>6, <3>1, <3>2 DEF InFor
  <2>8. (IF native.mode = "while" THEN InWhile ELSE InFor)'
    BY <2>1, <2>5, <2>7
  <2>9. Ready([regs EXCEPT !.index = native'.index]) /\ native'.at # 0
    BY <1>7, <2>1, <2>2, <2>3, <2>5
  <2>10. TierInv'
    BY <1>1, <2>1, <2>5, <2>8, <2>9, Staying DEF Generated
  <2>11. /\ PcBar' = 1 /\ RegsBar' = t
         /\ FuelBar' = fuel - (IF Uniform(body) THEN (native.done + 1) * c + 0 ELSE used + 0)
    BY <2>1, <2>3, <2>5, <2>10, BarStays
  <2>12. FuelBar' = FuelBar - 1
    <3>1. FuelBar' = fuel - used
      BY <1>2, <1>4, <1>5, <2>4, <2>11 DEF used
    <3> QED
      BY <1>2, <1>5, <3>1
  <2> QED
    BY <1>1, <1>2, <1>6, <2>1, <2>2, <2>10, <2>11, <2>12 DEF BackStep
<1> QED
  BY <1>9, <1>10, <1>11

LEMMA TierStutter ==
  ASSUME TierInv, UNCHANGED allVars PROVE TierInv'
<1> USE DEF TierInv, allVars, vars, tiers
<1>1. Inv'
  BY DEF Inv, Ready, Prepared, First, Allowed, Within, Clipped, Beyond, Exit, Back
<1>2. SeenInv' /\ TierState'
  BY DEF SeenInv, TierState, Natives, Exit, Back
<1>3. native.on => Ready(Spilled)'
  BY DEF NativeInv, Spilled, Ready, Prepared, First, Allowed, Within, Clipped, Beyond
<1>4. (IF native.mode = "while" THEN InWhile ELSE InFor)
      => (IF native.mode = "while" THEN InWhile ELSE InFor)'
  BY DEF InWhile, InFor, Total, Steps, Up, AllInt, IntLoop, IsInt
<1>5. NativeInv'
  BY <1>3, <1>4 DEF NativeInv, AtEntry
<1> QED
  BY <1>1, <1>2, <1>5

LEMMA TierStep ==
  ASSUME TierInv, [TierNext]_allVars PROVE TierInv'
<1>1. CASE TierNext
  BY <1>1, InterpreterStep, EntryMissStep, EntryStep, InstructionStep, GuardMissStep, WhileBackStep,
     ForBackStep DEF TierNext
<1> QED
  BY <1>1, TierStutter

LEMMA TierInvType == TierInv => TypeOK
<1> SUFFICES ASSUME TierInv PROVE TypeOK
  OBVIOUS
<1>1. native.on /\ native.at # 0 => Charge(native, regs) < fuel
  <2> SUFFICES ASSUME native.on, native.at # 0 PROVE Charge(native, regs) < fuel
    OBVIOUS
  <2>1. /\ Charge(native, regs) \in Nat /\ Charge(native, regs) + Rest(body, native.at) <= fuel
        /\ Rest(body, native.at) \in Nat \ {0} /\ fuel \in Nat
    BY ChargeBound, RestType, LoopAssumption DEF TierInv, TierState
  <2> QED
    BY <2>1
<1> QED
  BY <1>1 DEF TierInv, Inv, SeenInv, TierState, NativeInv, TypeOK

(* Whatever the tier and the compiler, the state is well formed and the        *)
(* generated code never owes as much as the fuel it was entered with (the      *)
(* budgets of the runners in structured_jit.py and region_jit.py).            *)
THEOREM TypeCorrect == TierSpec => []TypeOK
<1>1. TierSpec => []TierInv
  BY TierStart, TierStep, PTL DEF TierSpec
<1> QED
  BY <1>1, TierInvType, PTL

LEMMA SameTests ==
  ASSUME NEW t
  PROVE  /\ Interp!Unusable(t) <=> Unusable(t)
         /\ Interp!Beyond(t) <=> Beyond(t)
         /\ Interp!Back(t) = Back(t) /\ Interp!Exit(t) = Exit(t)
  BY DEF Interp!Unusable, Unusable, Interp!Beyond, Beyond, Interp!IntLoop, IntLoop, Interp!IsInt, IsInt,
         Interp!Up, Up, Interp!MinInt, MinInt, Interp!MaxInt, MaxInt, Interp!Back, Back, Interp!Exit, Exit

LEMMA SamePrepared ==
  ASSUME NEW t PROVE Interp!Prepared(t) = Prepared(t) /\ (Interp!Enters(t) <=> Enters(t))
<1>1. Interp!Clipped(t) = Clipped(t)
  BY DEF Interp!Clipped, Clipped, Interp!Beyond, Beyond, Interp!IntLoop, IntLoop, Interp!IsInt, IsInt,
         Interp!Up, Up, Interp!MinInt, MinInt, Interp!MaxInt, MaxInt, Interp!Lesser, Lesser,
         Interp!Greater, Greater, Interp!Floor, Floor
<1>2. Interp!Prepared(t) = Prepared(t)
  BY <1>1 DEF Interp!Prepared, Prepared, Interp!IntLoop, IntLoop, Interp!IsInt, IsInt, Interp!AsFloat, AsFloat
<1> QED
  BY <1>2, SameTests DEF Interp!Enters, Enters, Interp!Within, Within, Interp!Up, Up, Interp!AtMost, AtMost

LEMMA SameContinues ==
  ASSUME NEW t PROVE Interp!Ahead(t) = Ahead(t) /\ (Interp!Continues(t) <=> Continues(t))
<1>1. Interp!AllInt(t) <=> AllInt(t)
  BY DEF Interp!AllInt, AllInt, Interp!IntLoop, IntLoop, Interp!IsInt, IsInt
<1>2. Interp!Ahead(t) = Ahead(t)
  BY <1>1 DEF Interp!Ahead, Ahead, Interp!FloatSum, FloatSum, Interp!Opposite, Opposite,
         Interp!Infinite, Infinite, Interp!Lesser, Lesser, Interp!Greater, Greater
<1> QED
  BY <1>1, <1>2 DEF Interp!Continues, Continues, Interp!Past, Past, Interp!Fits, Fits, Interp!MinInt, MinInt,
                    Interp!MaxInt, MaxInt

LEMMA SameSum ==
  ASSUME NEW b, NEW p, NEW t, NEW old PROVE Interp!Sum(b, p, t, old) = Sum(b, p, t, old)
  BY DEF Interp!Sum, Sum, Interp!Wrap, Wrap, Interp!IsInt, IsInt, Interp!MinInt, MinInt

LEMMA WrapIdentity ==
  ASSUME NEW n \in Int, n >= MinInt, n <= MaxInt PROVE Wrap(n) = n
<1> DEFINE h == 2 ^ (Width - 1)
<1>1. h \in Nat \ {0} /\ 2 ^ Width = 2 * h /\ MinInt = -h /\ MaxInt = h - 1
  BY WidthAssumption DEF MinInt, MaxInt
<1> HIDE DEF h
<1>2. n + h \in 0 .. 2 * h - 1
  BY <1>1
<1>3. \A m \in Nat \ {0} : \A k \in 0 .. m - 1 : k % m = k
  BY SMT
<1>4. (n + h) % (2 * h) = n + h
  <2>1. 2 * h \in Nat \ {0}
    BY <1>1
  <2> QED
    BY <1>2, <1>3, <2>1
<1>5. n - (-h) = n + h
  BY <1>1
<1> QED
  BY <1>1, <1>4, <1>5 DEF Wrap

(* A sum that the analysis calls free of overflow has nothing to wrap.          *)
LEMMA NativeSumWraps ==
  ASSUME TierInv, Generated, ~Rejoined
  PROVE  NativeSum(native, x) = Sum(body, native.at, Spilled, x)
<1>1. CASE ~(body.add = native.at /\ IsInt(native.index) /\ OverflowFree)
  BY <1>1 DEF NativeSum, Spilled
<1>2. CASE body.add = native.at /\ IsInt(native.index) /\ OverflowFree
  <2>1. seen = Found(input) /\ AllInt(input) /\ input \in Triples /\ seen.known
    BY <1>2, Running, InputType DEF TierInv, SeenInv, OverflowFree, Unknown
  <2> DEFINE i == native.index.half
             a == input.index.half
             l == input.limit.half
  <2>2. a \in Int /\ l \in Int /\ i \in Int /\ IntLoop(input)
    BY <2>1, Running DEF Triples, Numbers, Natives, AllInt
  <2>3. IF Up(input) THEN a <= i /\ i <= l ELSE i <= a /\ l <= i
    <3>1. /\ IF Up(input) THEN a <= i ELSE i <= a
          /\ Allowed(native.index)
      BY <2>2, Running DEF Ready
    <3>2. IF Up(input) THEN i <= l ELSE l <= i
      BY <3>1 DEF Allowed, Within, AtMost
    <3> QED
      BY <3>1, <3>2
  <2>4. /\ Lesser(a, l) <= i /\ i <= Greater(a, l)
        /\ Lesser(a, l) \in Int /\ Greater(a, l) \in Int
    <3> HIDE DEF a, i, l
    <3> QED BY <2>2, <2>3 DEF Lesser, Greater
  <2>5. seen.lo = Lesser(a, l) \div 2 /\ seen.hi = Greater(a, l) \div 2
    BY <2>1 DEF Found
  <2>6. seen.lo <= i \div 2 /\ i \div 2 <= seen.hi /\ i \div 2 \in Int
        /\ seen.lo \in Int /\ seen.hi \in Int
    <3> HIDE DEF a, i, l
    <3> QED BY <2>2, <2>4, <2>5
  <2>7. i \div 2 + Addend \in Int /\ i \div 2 + Addend >= MinInt /\ i \div 2 + Addend <= MaxInt
    <3>1. seen.lo + Addend >= MinInt /\ seen.hi + Addend <= MaxInt
      BY <1>2 DEF OverflowFree
    <3> HIDE DEF i
    <3> QED BY <2>6, <3>1, Range, LoopAssumption
  <2>8. Wrap(i \div 2 + Addend) = i \div 2 + Addend
    BY <2>7, WrapIdentity
  <2>9. Sum(body, native.at, Spilled, x) = Wrap(i \div 2 + Addend)
    BY <1>2, Running DEF Sum
  <2>10. NativeSum(native, x) = i \div 2 + Addend
    BY <1>2 DEF NativeSum
  <2> QED
    BY <2>8, <2>9, <2>10
<1> QED
  BY <1>1, <1>2

(* Every guard of a straight body is one the generator knows beforehand.       *)
Counting == \A b \in Bodies : Straight(b) /\ b.guards # {} => b.exits # {}

LEMMA GuardsAreCounted ==
  ASSUME TierInv, Counting, GuardMiss PROVE Counted
<1>1. native.at \in body.guards /\ body \in Bodies /\ Takes(generator, body, seen.known)
  BY DEF GuardMiss, TierInv, Inv, SeenInv
<1>2. generator \in {"batch", "dense"} => Straight(body)
  BY <1>1 DEF Takes
<1> QED
  BY <1>1, <1>2 DEF Counting, Counted

LEMMA BarIdle ==
  ASSUME ~native.on PROVE PcBar = pc /\ RegsBar = regs /\ FuelBar = fuel
  BY DEF PcBar, RegsBar, FuelBar

LEMMA BarEntered ==
  ASSUME TierInv', native' = Enter("prep", fuel', regs') \/ native' = Enter("loop", fuel', regs'), pc' = 1
  PROVE  PcBar' = pc' /\ RegsBar' = regs' /\ FuelBar' = fuel'
<1>1. native'.on /\ native'.at = 0 /\ native'.mode = "while" /\ native'.used = 0 /\ native'.off = 0
      /\ native'.index = regs'.index
  BY DEF Enter
<1>2. Charge(native, regs)' = 0
  BY <1>1, ChargeIsOwedNext DEF Owed
<1>3. regs' \in Triples
  BY DEF TierInv, Inv
<1>4. Spilled' = regs'
  BY <1>1, <1>3 DEF Spilled, Triples
<1>5. fuel' - 0 = fuel'
  <2>1. fuel' \in 0 .. Fuel
    BY DEF TierInv, TierState
  <2>2. \A n \in 0 .. Fuel : n \in Int /\ n - 0 = n
    OBVIOUS
  <2> QED
    BY <2>1, <2>2, Zenon
<1> QED
  BY <1>1, <1>2, <1>4, <1>5 DEF PcBar, RegsBar, FuelBar

(* The actions of the interpreter are its own, whoever goes on.               *)
LEMMA InterpreterBar ==
  ASSUME TierInv, JForprep \/ JForloop \/ Interpret \/ JAgain
  PROVE  /\ PcBar = pc /\ RegsBar = regs /\ FuelBar = fuel
         /\ PcBar' = pc' /\ RegsBar' = regs' /\ FuelBar' = fuel'
<1>1. ~native.on /\ native = Idle /\ TierInv'
  BY InterpreterStep DEF TierInv, TierState, Natives, Interpreting, JForprep, JForloop, Interpret, JAgain
<1>2. \/ native' = Idle
      \/ pc' = 1 /\ (native' = Enter("prep", fuel', regs') \/ native' = Enter("loop", fuel', regs'))
  BY <1>1 DEF JForprep, JForloop, Interpret, JAgain, tiers
<1> QED
  BY <1>1, <1>2, BarIdle, BarLeaves, BarEntered

LEMMA ImplementsStart == TierInit => Interp!Init
<1> SUFFICES ASSUME TierInit PROVE Interp!Init
  OBVIOUS
<1>1. Init /\ ~native.on
  BY DEF TierInit, Idle
<1> QED
  BY <1>1 DEF Init, Interp!Init

LEMMA ImplementsStep ==
  ASSUME ~Rejoined, Counting, TierInv, TierNext
  PROVE  Interp!Next \/ UNCHANGED Interp!vars
<1> USE DEF PcBar, RegsBar, FuelBar
<1>1. CASE JForprep \/ JForloop \/ Interpret \/ JAgain
  <2>1. /\ PcBar = pc /\ RegsBar = regs /\ FuelBar = fuel
        /\ PcBar' = pc' /\ RegsBar' = regs' /\ FuelBar' = fuel'
    BY <1>1, InterpreterBar
  <2>2. Forprep \/ Forloop \/ Instruction \/ Fail \/ OutOfFuel \/ Finish \/ Again
    BY <1>1 DEF JForprep, JForloop, Interpret, JAgain
  <2>3. CASE Forprep
    BY <2>1, <2>3, SameTests, SamePrepared DEF Forprep, Pay, Interp!Next, Interp!Forprep, Interp!Pay
  <2>4. CASE Forloop
    BY <2>1, <2>4, SameTests, SameContinues DEF Forloop, Pay, Interp!Next, Interp!Forloop, Interp!Pay
  <2>5. CASE Instruction
    BY <2>1, <2>5, SameSum DEF Instruction, Pay, Interp!Next, Interp!Instruction, Interp!Pay
  <2>6. CASE Fail
    BY <2>1, <2>6, SameTests DEF Fail, Pay, Interp!Next, Interp!Fail, Interp!Pay
  <2>7. CASE OutOfFuel \/ Finish
    BY <2>1, <2>7, SameTests DEF OutOfFuel, Finish, Interp!Next, Interp!OutOfFuel, Interp!Finish
  <2>8. CASE Again
    BY <2>1, <2>8, SameTests DEF Again, Interp!Next, Interp!Again
  <2> QED
    BY <2>2, <2>3, <2>4, <2>5, <2>6, <2>7, <2>8
<1>2. CASE EntryMiss \/ Entry \/ GuardMiss
  <2>1. UNCHANGED <<body, input, PcBar, RegsBar, x, status, FuelBar>>
    BY <1>2, EntryMissStep, EntryStep, GuardMissStep, GuardsAreCounted
  <2> QED
    BY <2>1 DEF Interp!vars
<1>3. CASE NativeInstruction
  <2>1. /\ UNCHANGED <<body, input, status>> /\ status = "running"
        /\ PcBar = native.at /\ native.at \in 1 .. Len(body.next) /\ PcBar' \in body.next[native.at]
        /\ RegsBar = Spilled /\ RegsBar' = RegsBar
        /\ FuelBar > 0 /\ FuelBar' = FuelBar - 1
    BY <1>3, InstructionStep
  <2>2. x' = Interp!Sum(body, PcBar, RegsBar, x)
    BY <1>3, <2>1, NativeSumWraps, SameSum DEF NativeInstruction
  <2> QED
    BY <2>1, <2>2 DEF Interp!Next, Interp!Instruction, Interp!Pay
<1>4. CASE WhileBack \/ ForBack
  <2>1. BackStep
    BY <1>4, WhileBackStep, ForBackStep
  <2>2. Interp!Forloop
    BY <2>1, SameTests, SameContinues DEF BackStep, Interp!Forloop, Interp!Pay
  <2> QED
    BY <2>2 DEF Interp!Next
<1> QED
  BY <1>1, <1>2, <1>3, <1>4 DEF TierNext

(* Generated code is the interpreter, for every width, input, body, amount of   *)
(* fuel and threshold: the same iterations and registers, every instruction    *)
(* paid for once, and the quota error at the same one (the runners of           *)
(* structured_jit.py and region_jit.py, _jit_forloop, _jit_enter_loop), unless  *)
(* a jump rejoins the code before FORPREP or a guard misses that is not counted. *)
THEOREM TiersImplementInterpreter ==
  ASSUME ~Rejoined, Counting
  PROVE  TierSpec => ImplementsInterpreter
<1>1. TierInv /\ UNCHANGED allVars => UNCHANGED Interp!vars
  BY DEF allVars, vars, tiers, Interp!vars, Charge, Completed, Steps, Up, Spilled
<1>2. TierInv /\ [TierNext]_allVars => [Interp!Next]_Interp!vars
  BY <1>1, ImplementsStep
<1>3. TierInv /\ [TierNext]_allVars => TierInv'
  BY TierStep
<1> QED
  BY TierStart, ImplementsStart, <1>2, <1>3, PTL DEF TierSpec, ImplementsInterpreter, Interp!Spec

LEMMA SameManual ==
  /\ Interp!First = First
  /\ \A v : Interp!Follower(v) = Follower(v) /\ (Interp!Allowed(v) <=> Allowed(v))
<1>1. Interp!First = First
  BY DEF Interp!First, First, Interp!IntLoop, IntLoop, Interp!IsInt, IsInt, Interp!AsFloat, AsFloat
<1>2. ASSUME NEW v PROVE Interp!Follower(v) = Follower(v)
  BY DEF Interp!Follower, Follower, Interp!IntLoop, IntLoop, Interp!IsInt, IsInt, Interp!FloatSum, FloatSum,
         Interp!AsFloat, AsFloat, Interp!Opposite, Opposite, Interp!Infinite, Infinite, Interp!Lesser, Lesser, Interp!Greater, Greater
<1>3. ASSUME NEW v PROVE Interp!Allowed(v) <=> Allowed(v)
  BY DEF Interp!Allowed, Allowed, Interp!Within, Within, Interp!Up, Up, Interp!AtMost, AtMost,
         Interp!IntLoop, IntLoop, Interp!IsInt, IsInt, Interp!Fits, Fits, Interp!MinInt, MinInt,
         Interp!MaxInt, MaxInt
<1> QED
  BY <1>1, <1>2, <1>3

LEMMA ProgressStep ==
  ASSUME TierInv, TierNext
  PROVE  Interp!Progresses
<1>1. /\ Interp!First = First
      /\ \A v : Interp!Follower(v) = Follower(v) /\ (Interp!Allowed(v) <=> Allowed(v))
      /\ Interp!Exit(body) = Exit(body)
      /\ Interp!Progresses <=>
           LET wanted == IF PcBar = 0 THEN Interp!First ELSE Interp!Follower(RegsBar.index) IN
           /\ PcBar # 1 /\ PcBar' = 1 => RegsBar'.index = wanted /\ Interp!Allowed(wanted)
           /\ PcBar # Interp!Exit(body) /\ PcBar' = Interp!Exit(body) => ~Interp!Allowed(wanted)
  BY SameManual, SameTests DEF Interp!Progresses, Interp!Wanted, PcBar, RegsBar
<1>2. /\ body \in Bodies /\ Len(body.next) \in Nat \ {0} /\ Back(body) = Len(body.next) + 1
      /\ Exit(body) = Len(body.next) + 2
  BY BodyType DEF TierInv, Inv
<1>3. CASE JForprep \/ JForloop \/ Interpret \/ JAgain
  <2>1. /\ PcBar = pc /\ RegsBar = regs /\ PcBar' = pc' /\ RegsBar' = regs'
    BY <1>3, InterpreterBar
  <2>2. Next
    BY <1>3 DEF JForprep, JForloop, Interpret, JAgain, Next
  <2>3. Progresses
    BY <2>2, Step DEF TierInv
  <2> QED
    BY <1>1, <2>1, <2>3 DEF Progresses, Wanted
<1>4. CASE EntryMiss \/ Entry \/ GuardMiss
  <2>1. PcBar' = PcBar
    <3>1. CASE EntryMiss \/ Entry \/ Counted
      BY <1>4, <3>1, EntryMissStep, EntryStep, GuardMissStep
    <3>2. CASE GuardMiss /\ ~Counted
      BY <3>2 DEF GuardMiss, PcBar
    <3> QED
      BY <1>4, <3>1, <3>2
  <2> QED
    BY <1>1, <2>1
<1>5. CASE NativeInstruction
  <2>1. /\ PcBar = native.at /\ native.at \in 1 .. Len(body.next) /\ PcBar' \in body.next[native.at]
    BY <1>5, InstructionStep
  <2>2. PcBar' \in native.at + 1 .. Back(body)
    BY <1>2, <2>1, BodyType
  <2>3. PcBar' # 1 /\ PcBar' # Exit(body)
    BY <1>2, <2>1, <2>2
  <2> QED
    BY <1>1, <2>3
<1>6. CASE WhileBack \/ ForBack
  <2>1. BackStep /\ Generated
    BY <1>6, WhileBackStep, ForBackStep DEF WhileBack, ForBack
  <2>2. /\ Continues(Spilled) <=> Allowed(Follower(Spilled.index))
        /\ Continues(Spilled) => Ahead(Spilled) = Follower(Spilled.index)
        /\ Spilled \in Triples
    BY <2>1, Running, AdvanceSound
  <2>3. PcBar # 0 /\ RegsBar = Spilled
    BY <1>2, <2>1 DEF BackStep
  <2>4. CASE Continues(Spilled)
    <3>1. RegsBar'.index = Ahead(Spilled) /\ PcBar' = 1
      BY <2>1, <2>2, <2>4 DEF BackStep, Triples
    <3> QED
      BY <1>1, <1>2, <2>2, <2>3, <2>4, <3>1
  <2>5. CASE ~Continues(Spilled)
    <3>1. PcBar' = Exit(body)
      BY <2>1, <2>5 DEF BackStep
    <3> QED
      BY <1>1, <1>2, <2>2, <2>3, <2>5, <3>1
  <2> QED
    BY <2>4, <2>5
<1> QED
  BY <1>3, <1>4, <1>5, <1>6 DEF TierNext

(* The iterations are those of the manual whichever tier runs them, entered or  *)
(* left anywhere, and also where the results of the body may be wrong, for the  *)
(* inputs of LoopAssumption.                                                    *)
THEOREM TiersVisitManual == TierSpec => VisitsManual
<1>1. TierInv /\ UNCHANGED allVars => UNCHANGED Interp!vars
  BY DEF allVars, vars, tiers, Interp!vars, Charge, Completed, Steps, Up, Spilled
<1>2. TierInv /\ [TierNext]_allVars => [Interp!Progresses]_Interp!vars
  BY <1>1, ProgressStep
<1>3. TierInv /\ [TierNext]_allVars => TierInv'
  BY TierStep
<1> QED
  BY TierStart, <1>2, <1>3, PTL DEF TierSpec, VisitsManual, Interp!VisitsProgression

(* How many steps are left at most.  Where no instruction is run, native code    *)
(* is entered, goes on to its first iteration or is left, or the loop is run     *)
(* again, in this order.                                                     *)
Phase ==
  CASE native.on /\ native.at = 0 -> 3
    [] native.on /\ native.at # 0 -> 2
    [] ~native.on /\ pc = Exit(body) -> 1
    [] OTHER -> 0
Remaining == IF status = "running" THEN 4 * FuelBar + Phase + 1 ELSE 0

Diminishes == Remaining \in Nat /\ Remaining' < Remaining

LEMMA RemainingType ==
  ASSUME TierInv
  PROVE  /\ Phase \in 0 .. 3 /\ Remaining \in Nat
         /\ status = "running" => FuelBar \in Nat /\ Remaining = 4 * FuelBar + Phase + 1
<1>1. Phase \in 0 .. 3
  BY DEF Phase
<1>2. ASSUME status = "running" PROVE FuelBar \in Nat
  <2>1. fuel \in Nat
    BY LoopAssumption DEF TierInv, TierState
  <2>2. CASE ~native.on
    BY <2>1, <2>2, BarIdle
  <2>3. CASE native.on /\ native.at = 0
    BY <1>2, <2>1, <2>3, BarAtEntry DEF Generated
  <2>4. CASE native.on /\ native.at # 0
    BY <1>2, <2>4, BarInside DEF Generated
  <2> QED
    BY <2>2, <2>3, <2>4
<1> HIDE DEF Phase, FuelBar
<1> QED
  BY <1>1, <1>2 DEF Remaining

LEMMA RemainingNext ==
  ASSUME TierInv'
  PROVE  /\ Phase' \in 0 .. 3 /\ Remaining' \in Nat
         /\ status' = "running" => FuelBar' \in Nat /\ Remaining' = 4 * FuelBar' + Phase' + 1
<1>1. (TierInv => /\ Phase \in 0 .. 3 /\ Remaining \in Nat
                  /\ status = "running" => FuelBar \in Nat /\ Remaining = 4 * FuelBar + Phase + 1)'
  BY RemainingType, PTL
<1> QED
  BY <1>1

(* An instruction that is paid for makes up for whatever phase follows.         *)
LEMMA Pays ==
  ASSUME TierInv, TierInv', status = "running", FuelBar' = FuelBar - 1
  PROVE  Diminishes
<1> HIDE DEF FuelBar, Phase
<1>1. /\ FuelBar \in Nat /\ Phase \in 0 .. 3 /\ Remaining = 4 * FuelBar + Phase + 1
      /\ Remaining \in Nat
  BY RemainingType
<1>2. status' = "running" => FuelBar' \in Nat /\ Phase' \in 0 .. 3 /\ Remaining' = 4 * FuelBar' + Phase' + 1
  BY RemainingNext
<1>3. status' # "running" => Remaining' = 0
  BY DEF Remaining
<1> QED
  BY <1>1, <1>2, <1>3 DEF Diminishes

(* Otherwise the run ends, or its phase does.                                 *)
LEMMA Passes ==
  ASSUME TierInv, TierInv', status = "running",
         status' # "running" \/ (FuelBar' = FuelBar /\ Phase' < Phase)
  PROVE  Diminishes
<1> HIDE DEF FuelBar, Phase
<1>1. /\ FuelBar \in Nat /\ Phase \in 0 .. 3 /\ Remaining = 4 * FuelBar + Phase + 1
      /\ Remaining \in Nat
  BY RemainingType
<1>2. status' = "running" => FuelBar' \in Nat /\ Phase' \in 0 .. 3 /\ Remaining' = 4 * FuelBar' + Phase' + 1
  BY RemainingNext
<1>3. status' # "running" => Remaining' = 0
  BY DEF Remaining
<1> QED
  BY <1>1, <1>2, <1>3 DEF Diminishes

LEMMA RemainingStep ==
  ASSUME TierInv, TierNext PROVE Diminishes
<1>1. TierInv'
  BY TierStep
<1>2. CASE JForprep \/ JForloop \/ Interpret \/ JAgain
  <2>1. FuelBar = fuel /\ FuelBar' = fuel' /\ ~native.on
    BY <1>2, InterpreterBar DEF JForprep, JForloop, Interpret, JAgain, Interpreting
  <2>2. CASE Forprep \/ Forloop \/ Instruction \/ Fail
    BY <1>1, <2>1, <2>2, Pays DEF Forprep, Forloop, Instruction, Fail, Pay
  <2>3. CASE OutOfFuel \/ Finish
    BY <1>1, <2>3, Passes DEF OutOfFuel, Finish
  <2>4. CASE JAgain
    <3>1. /\ status = "running" /\ pc = Exit(body) /\ fuel' = fuel /\ pc' = 0
          /\ body' = body /\ native' = native
      BY <2>4 DEF JAgain, Again
    <3>2. Exit(body) # 0 /\ Exit(body') = Exit(body)
      BY <3>1, BodyType DEF TierInv, Inv
    <3>3. Phase = 1 /\ Phase' = 0
      BY <2>1, <3>1, <3>2 DEF Phase
    <3>4. FuelBar' = FuelBar
      BY <2>1, <3>1
    <3> QED
      BY <1>1, <3>1, <3>3, <3>4, Passes
  <2> QED
    BY <1>2, <2>2, <2>3, <2>4 DEF JForprep, JForloop, Interpret
<1>3. CASE EntryMiss
  <2>1. /\ status = "running" /\ native.on /\ native.at = 0 /\ native' = Idle
    BY <1>3 DEF EntryMiss, Generated, Leave
  <2>2. Phase = 3 /\ Phase' < 3
    BY <2>1 DEF Phase, Idle
  <2>3. FuelBar' = FuelBar
    BY <1>3, EntryMissStep
  <2> QED
    BY <1>1, <2>1, <2>2, <2>3, Passes
<1>4. CASE Entry
  <2>1. /\ status = "running" /\ native.on /\ native.at = 0
        /\ native' = Idle \/ native'.at = 1
    BY <1>4, Running DEF Entry, Generated, Leave, Natives
  <2>2. Phase = 3 /\ Phase' < 3
    BY <2>1 DEF Phase, Idle
  <2>3. FuelBar' = FuelBar
    BY <1>4, EntryStep
  <2> QED
    BY <1>1, <2>1, <2>2, <2>3, Passes
<1>5. CASE GuardMiss
  <2>1. /\ status = "running" /\ native.on /\ native.at \in 1 .. Len(body.next) /\ Generated
    BY <1>5, Running, BodyType DEF GuardMiss, Generated
  <2>2. CASE ~Counted
    BY <1>1, <1>5, <2>1, <2>2, Passes DEF GuardMiss
  <2>3. CASE Counted
    <3>1. native' = Idle /\ pc' = native.at /\ body' = body
      BY <1>5, <2>3 DEF GuardMiss, Leave, Constant
    <3>2. native.at # 0
      BY <2>1
    <3>3. Phase = 2 /\ Phase' < 2
      BY <2>1, <3>1, <3>2 DEF Phase, Idle
    <3>4. FuelBar' = FuelBar
      BY <1>5, <2>3, GuardMissStep
    <3> QED
      BY <1>1, <2>1, <3>3, <3>4, Passes
  <2> QED
    BY <2>2, <2>3
<1>6. CASE NativeInstruction
  BY <1>1, <1>6, InstructionStep, Pays
<1>7. CASE WhileBack \/ ForBack
  BY <1>1, <1>7, WhileBackStep, ForBackStep, Pays DEF BackStep
<1> QED
  BY <1>2, <1>3, <1>4, <1>5, <1>6, <1>7 DEF TierNext

(* The step behind the end of every run (Ends): whichever tier goes on, what is  *)
(* left gets less with every step, so that no exchange of the tiers, no entry    *)
(* that is refused and no loop run again goes on without using fuel, rejoined     *)
(* jumps and the guard that is not counted included (_jit_enter_loop,            *)
(* _jit_forloop, VM.run).  It begins with four times the fuel and one.           *)
THEOREM StepsUseFuel == TierSpec => /\ Remaining = 4 * Fuel + 1
                                    /\ [][Diminishes]_allVars
<1>1. TierInit => Remaining = 4 * Fuel + 1
  <2> SUFFICES ASSUME TierInit PROVE Remaining = 4 * Fuel + 1
    OBVIOUS
  <2>1. /\ ~native.on /\ pc = 0 /\ fuel = Fuel /\ status = "running" /\ body \in Bodies
    BY DEF TierInit, Init, Idle
  <2>2. Exit(body) # 0
    BY <2>1, BodyType
  <2>3. Phase = 0 /\ FuelBar = Fuel
    BY <2>1, <2>2 DEF Phase, FuelBar
  <2> HIDE DEF Phase, FuelBar
  <2> QED
    BY <2>1, <2>3, LoopAssumption DEF Remaining
<1>2. TierInv /\ [TierNext]_allVars => [Diminishes]_allVars
  BY RemainingStep
<1>3. TierInv /\ [TierNext]_allVars => TierInv'
  BY TierStep
<1> QED
  BY TierStart, <1>1, <1>2, <1>3, PTL DEF TierSpec

=============================================================================

----------------------------- MODULE LuaLoopTiers -----------------------------
(***************************************************************************)
(* The numeric for loop of LuaForLoop in the VM with generated code: a hot    *)
(* loop is compiled, entered at its back edge or at FORPREP with the fuel      *)
(* that is left, and handed back to the interpreter in the middle of the body  *)
(* when a guard misses, at the start of an iteration that the fuel may not     *)
(* cover, or at the end; a compiled loop that misses too often is given up.   *)
(***************************************************************************)
EXTENDS LuaForLoop, FiniteSets

CONSTANTS
  Threshold,    \* jit_threshold, 32 by default
  RetireAfter,  \* InlineCacheFeedback.retire_after, 3 by default
  Rejoined      \* is the code before FORPREP the target of a backward jump?

ASSUME TierAssumption == Threshold \in Nat \ {0} /\ RetireAfter \in Nat \ {0} /\ Rejoined \in BOOLEAN

VARIABLES
  hooks,     \* is a debug hook set?
  generator, \* which one compiles this loop
  seen,      \* the literals the analysis found for the three registers, if any
  tier,      \* of this back edge in _jit_loop_states
  hot,
  deopts,    \* InlineCacheFeedback.deopts, by the pc of the exit
  native     \* the generated code that runs

tiers == <<hooks, generator, seen, tier, hot, deopts, native>>
allVars == <<vars, tiers>>

(* walk: one iteration after the other, as long as the fuel covers the longest *)
(* path.  batch: straight, its integer range taken from literals; dense: the    *)
(* same, with a guard in the literals' place.  diamond: one branch, literals.   *)
(* none: no generator takes the loop.                                        *)
Generators == {"walk", "batch", "dense", "diamond", "none"}
Tiers == {"cold", "compiled", "retired"}
Unknown == [known |-> FALSE]
Idle == [on |-> FALSE]

(* Lengths of the paths from each instruction to the next iteration.          *)
Lengths(b) ==
  LET from[p \in 1 .. Back(b)] ==
        IF p = Back(b) THEN {1} ELSE UNION {{n + 1 : n \in from[q]} : q \in b.next[p]}
  IN  from
Rest(b, p) == CHOOSE n \in Lengths(b)[p] : \A m \in Lengths(b)[p] : m <= n
Cost(b) == Rest(b, 1)
Uniform(b) == \A p \in 1 .. Back(b) : Lengths(b)[p] = {Rest(b, p)}

Straight(b) == \A p \in 1 .. Len(b.next) : Cardinality(b.next[p]) = 1

(* What the recursion says of the longest path.                               *)
ASSUME PathAssumption ==
  \A b \in Bodies :
    /\ Rest(b, Back(b)) = 1
    /\ Straight(b) => Uniform(b)
    /\ \A p \in 1 .. Len(b.next) :
         /\ Rest(b, p) \in Nat
         /\ \A q \in b.next[p] : Rest(b, q) + 1 <= Rest(b, p)
         /\ Uniform(b) => \A q \in b.next[p] : Rest(b, q) + 1 = Rest(b, p)

Takes(g, b, known) ==
  CASE g = "batch" -> Straight(b) /\ known
    [] g = "dense" -> Straight(b) /\ b.exits # {}
    [] g = "diamond" -> ~Straight(b) /\ known
    [] OTHER -> TRUE

(* The analysis trusts the constant it finds on the way back from FORPREP, and  *)
(* keeps an interval only for a loop that has an iteration.                   *)
Literal(t) == AllInt(t) /\ t.step.half # 0 /\ Enters(t)
Found(t) == [known |-> TRUE, lo |-> Lesser(t.index.half, t.limit.half) \div 2,
             hi |-> Greater(t.index.half, t.limit.half) \div 2]
OverflowFree == seen.known /\ seen.lo + Addend >= MinInt /\ seen.hi + Addend <= MaxInt

TierInit ==
  /\ Init
  /\ hooks \in BOOLEAN
  /\ seen \in {Unknown} \cup {Found(t) : t \in {u \in {input} : Literal(u)}}
  /\ generator \in {g \in Generators : Takes(g, body, seen.known)}
  /\ tier = "cold" /\ hot = 0 /\ deopts = [p \in 1 .. Exit(body) |-> 0] /\ native = Idle

(* by: where it was entered.  done, take and total count iterations, from is    *)
(* the first index; off counts the instructions of the unfinished iteration.    *)
(* at = 0: before the first one.                                            *)
Enter(edge, budget, t) ==
  [on |-> TRUE, by |-> edge, mode |-> "while", at |-> 0, budget |-> budget, index |-> t.index,
   used |-> 0, off |-> 0, done |-> 0, take |-> 0, total |-> 0, from |-> t.index.half]

(* The iterations that are complete; the diamond reads them off the index.      *)
Steps(from, to, t) ==
  IF Up(t) THEN (to - from) \div t.step.half ELSE (from - to) \div (-t.step.half)
Completed(n, t) == IF generator = "diamond" THEN Steps(n.from, n.index.half, t) ELSE n.done

(* What is charged when the generated code is left now.                       *)
Charge(n, t) ==
  IF n.mode = "for" /\ Uniform(body) THEN Completed(n, t) * Cost(body) + n.off ELSE n.used + n.off

Total(t) == Steps(t.index.half, t.limit.half, t) + 1

Interpreting == ~native.on

JForprep ==
  /\ Interpreting /\ Forprep
  /\ native' = IF pc' = 1 /\ ~hooks /\ tier = "compiled" THEN Enter("prep", fuel', regs') ELSE Idle
  /\ UNCHANGED <<hooks, generator, seen, tier, hot, deopts>>

JForloop ==
  /\ Interpreting /\ Forloop
  /\ LET counts == pc' = 1 /\ ~hooks /\ tier = "cold"
         compiles == counts /\ hot + 1 >= Threshold IN
     /\ hot' = IF counts THEN hot + 1 ELSE hot
     /\ tier' = IF compiles THEN (IF generator = "none" THEN "retired" ELSE "compiled") ELSE tier
     /\ native' = IF pc' = 1 /\ ~hooks /\ tier' = "compiled" THEN Enter("loop", fuel', regs') ELSE Idle
  /\ UNCHANGED <<hooks, generator, seen, deopts>>

Interpret ==
  /\ Interpreting
  /\ Instruction \/ Fail \/ OutOfFuel \/ Finish
  /\ UNCHANGED tiers

(* Literals stay what they are, except that a limit behind a rejoined jump has  *)
(* changed.                                                                 *)
JAgain ==
  /\ Interpreting /\ Again
  /\ seen.known =>
       /\ AllInt(input') /\ input'.index = input.index /\ input'.step = input.step
       /\ ~Rejoined => input' = input
  /\ hooks' \in BOOLEAN
  /\ UNCHANGED <<generator, seen, tier, hot, deopts, native>>

(* The generated code returns to the interpreter at q.                        *)
Leave(q, charge, t) ==
  LET miss == native.by = "loop" /\ (charge = 0 \/ q \notin {1, Exit(body)}) IN
  /\ pc' = q /\ regs' = t /\ native' = Idle
  /\ fuel' = fuel - charge
  /\ status' = IF fuel' < 0 THEN "quota" ELSE status
  /\ deopts' = IF miss THEN [deopts EXCEPT ![q] = @ + 1] ELSE deopts
  /\ tier' = IF miss /\ deopts[q] + 1 >= RetireAfter THEN "retired" ELSE tier

Generated == status = "running" /\ native.on
Constant == <<body, input, hooks, generator, seen, hot>>

EntryMiss ==
  /\ Generated /\ native.at = 0 /\ generator # "walk"
  /\ Leave(1, 0, regs)
  /\ UNCHANGED <<Constant, x>>

(* Mutant: an iteration starts without its fuel.                              *)
StartsAnyway(n) == TRUE

Starts(n) ==
  IF n.mode = "while" THEN n.budget >= Cost(body) ELSE n.take > 0

Entry ==
  /\ Generated /\ native.at = 0
  /\ generator = "dense" => AllInt(regs) /\ Up(regs) /\ regs.index.half >= 2
  /\ LET total == Total(regs)
         n == CASE generator \in {"batch", "dense"} ->
                   [native EXCEPT !.mode = "for", !.total = total, !.at = 1,
                                  !.take = Lesser(total, native.budget \div Cost(body))]
                [] generator = "diamond" /\ total > 0 /\ native.budget >= total * Cost(body) ->
                   [native EXCEPT !.mode = "for", !.total = total, !.at = 1, !.take = total]
                [] OTHER -> [native EXCEPT !.at = 1] IN
     IF Starts(n)
     THEN native' = n /\ UNCHANGED <<pc, regs, status, fuel, tier, deopts>>
     ELSE Leave(1, 0, regs)
  /\ UNCHANGED <<Constant, x>>

NativeSum(n, old) ==
  IF body.add = n.at /\ IsInt(n.index) /\ OverflowFree THEN n.index.half \div 2 + Addend
  ELSE Sum(body, n.at, [regs EXCEPT !.index = n.index], old)

NativeInstruction ==
  /\ Generated /\ native.at \in 1 .. Len(body.next)
  /\ \E q \in body.next[native.at] : native' = [native EXCEPT !.at = q, !.off = @ + 1]
  /\ x' = NativeSum(native, x)
  /\ UNCHANGED <<Constant, pc, regs, status, fuel, tier, deopts>>

Spilled == [regs EXCEPT !.index = native.index]

(* A guard of a straight loop without exits refers to a counter that was not   *)
(* written into the code: a NameError, that no VM catches.                    *)
Counted == native.mode = "for" /\ generator \in {"batch", "dense"} => body.exits # {}

(* Mutant: only complete iterations are charged.                              *)
GuardMissUncharged ==
  /\ Generated /\ native.at \in body.guards /\ Counted
  /\ Leave(native.at, Charge(native, regs) - native.off, Spilled)
  /\ UNCHANGED <<Constant, x>>

GuardMiss ==
  /\ Generated /\ native.at \in body.guards
  /\ IF Counted THEN Leave(native.at, Charge(native, regs), Spilled)
     ELSE status' = "crashed" /\ UNCHANGED <<pc, regs, native, fuel, tier, deopts>>
  /\ UNCHANGED <<Constant, x>>

(* Mutant: what earlier iterations used is forgotten.                          *)
WhileBackForgetting ==
  /\ Generated /\ native.mode = "while" /\ native.at = Back(body)
  /\ LET used == native.off + 1
         t == [Spilled EXCEPT !.index = Ahead(Spilled)] IN
     IF Continues(Spilled) /\ native.budget - used >= Cost(body)
     THEN /\ native' = [native EXCEPT !.index = t.index, !.used = used, !.off = 0, !.at = 1]
          /\ UNCHANGED <<pc, regs, status, fuel, tier, deopts>>
     ELSE IF Continues(Spilled) THEN Leave(1, used, t) ELSE Leave(Exit(body), used, Spilled)
  /\ UNCHANGED <<Constant, x>>

(* The back edge of generated code, in the two forms of its loop.              *)
WhileBack ==
  /\ Generated /\ native.mode = "while" /\ native.at = Back(body)
  /\ LET used == native.used + native.off + 1
         t == [Spilled EXCEPT !.index = Ahead(Spilled)] IN
     IF ~Continues(Spilled)
     THEN Leave(Exit(body), used, Spilled)
     ELSE IF native.budget - used >= Cost(body)
     THEN /\ native' = [native EXCEPT !.index = t.index, !.used = used, !.off = 0, !.at = 1]
          /\ UNCHANGED <<pc, regs, status, fuel, tier, deopts>>
     ELSE Leave(1, used, t)
  /\ UNCHANGED <<Constant, x>>

ForBack ==
  /\ Generated /\ native.mode = "for" /\ native.at = Back(body)
  /\ LET t == [Spilled EXCEPT !.index.half = @ + regs.step.half]
         used == IF Uniform(body) THEN (native.done + 1) * Cost(body)
                 ELSE native.used + native.off + 1 IN
     CASE native.done + 1 < native.take ->
            /\ native' = [native EXCEPT !.index = t.index, !.used = used, !.off = 0, !.at = 1,
                                        !.done = @ + 1]
            /\ UNCHANGED <<pc, regs, status, fuel, tier, deopts>>
       [] native.done + 1 = native.take /\ native.take = native.total ->
            Leave(Exit(body), used, Spilled)
       [] OTHER -> Leave(1, used, t)
  /\ UNCHANGED <<Constant, x>>

TierNext ==
  \/ JForprep \/ JForloop \/ Interpret \/ JAgain
  \/ EntryMiss \/ Entry \/ NativeInstruction \/ GuardMiss \/ WhileBack \/ ForBack

TierSpec == TierInit /\ [][TierNext]_allVars /\ WF_allVars(TierNext)

Natives ==
  [on: {TRUE}, by: {"prep", "loop"}, mode: {"while", "for"}, at: 0 .. Back(body), budget: Nat,
   index: Numbers, used: Nat, off: Nat, done: Nat, take: Int, total: Int, from: Int]

(* Includes that generated code runs within the fuel it was entered with.       *)
TypeOK ==
  /\ body \in Bodies /\ input \in Inputs
  /\ pc \in 0 .. Exit(body) /\ fuel \in 0 .. Fuel /\ hot \in 0 .. Threshold
  /\ generator \in Generators /\ tier \in Tiers /\ hooks \in BOOLEAN
  /\ deopts \in [1 .. Exit(body) -> 0 .. RetireAfter]
  /\ native = Idle \/ native \in Natives
  /\ native.on => /\ tier = "compiled" /\ ~hooks /\ native.budget = fuel
                  /\ native.at # 0 => Charge(native, regs) < fuel

Interp == INSTANCE LuaForLoop WITH
  pc <- IF native.on THEN (IF native.at = 0 THEN 1 ELSE native.at) ELSE pc,
  regs <- IF native.on THEN Spilled ELSE regs,
  fuel <- IF native.on THEN fuel - Charge(native, regs) ELSE fuel

(* Generated code is the interpreter: the same iterations, the same registers,  *)
(* every instruction paid for once, and the quota error raised at the same one *)
(* (the runners of the compilers against _forloop and VM.run).                *)
ImplementsInterpreter == Interp!Spec

(* The iterations are those of the manual, whichever tier runs them.           *)
VisitsManual == Interp!VisitsProgression

(* Every run ends: no exchange between the tiers goes on without using fuel.   *)
Ends == <>(status # "running")

=============================================================================

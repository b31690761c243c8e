----------------------------- MODULE LuaValueJIT -----------------------------
(***************************************************************************)
(* A call of a fully typed function by the optimizing tiers: the function is   *)
(* compiled to a graph of values, runs as generated code block by block, and   *)
(* where the fuel does not last for a block, puts the live registers back and  *)
(* leaves the rest to the interpreter.  How much fuel there is, is settled      *)
(* where it runs out.                                                          *)
(***************************************************************************)
EXTENDS LuaCFG
LOCAL INSTANCE SequencesExt

CONSTANTS Protos,     \* the functions
          Samples,    \* the values they are called with
          Plenty      \* the most fuel of a call

VARIABLES call,       \* the call: [proto, args, room], room the frames there may be
          plan,       \* what the function was compiled to
          machine,    \* the thread: its frames and what it has spent
          native,     \* the generated code: [block, from, env]
          fuel,       \* what the call may spend
          mode        \* "found", "compiled", "called", "native", "interpreting", "done"

vars == <<call, plan, machine, native, fuel, mode>>

Undefined == [t |-> "undefined", v |-> 0]
NotNative == [block |-> 0, from |-> 0, env |-> <<>>]

-----------------------------------------------------------------------------
(* Which generator takes a graph, in the order they are asked.                  *)

Returns(p, block) == p.code[block.end].op \in Terminal

IsDiamond(p, q) ==
  LET arms == q.blocks[1].successors IN
  /\ q.back = {} /\ Cardinality(DOMAIN q.blocks) = 4
  /\ q.blocks[1].condition # 0 /\ arms[1] # arms[2]
  /\ Len(q.blocks[arms[1]].successors) = 1
  /\ q.blocks[arms[1]].successors = q.blocks[arms[2]].successors
  /\ LET join == q.blocks[arms[1]].successors[1] IN
     /\ {e[1] : e \in Into(q.blocks, join)} = {arms[1], arms[2]}
     /\ Returns(p, q.blocks[join])

(* Entry, header, a chain of blocks back to it, and one block behind the loop.  *)
IsChain(p, q, loop) ==
  LET header == q.blocks[loop.header]
      exit == Target(q.blocks, CHOOSE e \in loop.exits : TRUE)
      body == loop.blocks \ {loop.header} IN
  /\ header.condition # 0
  /\ Preheader(loop) = 1 /\ q.blocks[1].successors = <<loop.header>>
  /\ Cardinality(loop.exits) = 1 /\ \A e \in loop.exits : e[1] = loop.header
  /\ Returns(p, q.blocks[exit])
  /\ DOMAIN q.blocks \ loop.blocks = {1, exit}
  /\ body # {}
  /\ \A b \in body : q.blocks[b].condition = 0 /\ q.blocks[b].phis = <<>> /\ Len(q.blocks[b].successors) = 1

TheLoop(q) == CHOOSE loop \in q.loops : TRUE
IsLoop(p, q) == Cardinality(q.loops) = 1 /\ IsChain(p, q, TheLoop(q))

Optimized(p, q) ==
  q @@ [tier |-> "loop", hoisted |-> InvariantNodes(q, TheLoop(q)),
        direct |-> {i \in Inductions(q, p, TheLoop(q)) : IsDirect(q, i)}]
Plain(q, tier) == q @@ [tier |-> tier, hoisted |-> {}, direct |-> {}]
Structured(p, q) == IF IsDiamond(p, q) THEN Plain(q, "diamond")
                    ELSE IF IsLoop(p, q) THEN Optimized(p, q) ELSE Plain(q, "states")

(* A straight-line function must be worth it.                                 *)
LiveExpressions(q) == {k \in q.live : q.nodes[k].kind = "expression"}
Straight(q) == IF q.form = "none" \/ (LiveExpressions(q) = {} /\ q.folded = {} /\ q.calls = 0)
               THEN Plain(NoPlan, "none") ELSE Plain(q, "straight")
Generated(p, q) == IF q.form = "cfg" THEN Structured(p, q) ELSE Straight(CompileStraight(p))
Compiled(p) == Generated(p, CompileCFG(p))

-----------------------------------------------------------------------------
(* The generated code.  A name that was not assigned is undefined, and reading  *)
(* it raises an error.                                                        *)

ValueExpr(p, args, n) ==
  CASE n.kind = "argument" -> args[n.value.v]
    [] n.kind = "constant" -> p.constants[n.value.v]
    [] n.kind = "literal" -> n.value
    [] OTHER -> Undefined
StartEnv(p, args, q) == [k \in 1 .. Len(q.nodes) |-> ValueExpr(p, args, q.nodes[k])]

Comparable(nodes, n) ==
  LET types == {nodes[k].type : k \in Elements(n.args)} IN Cardinality(types) = 1 \/ types \subseteq Numeric

Emitted(nodes, n, x, y) ==
  CASE n.op \in IntBinops -> IntResult(n.op, n.exact, x, y)
    [] n.op \in FloatBinops -> Float(Arith(n.op, x.v, y.v))
    [] n.op = "EQ" -> Bool(Comparable(nodes, n) /\ LuaEqual(x, y))
    [] n.op \in {"LT", "LE"} -> Bool(Less(n.op, x, y))
    [] n.op = "NOT" -> Bool(~Truthy(x))
    [] n.op = "TOBOOL" -> Bool(Truthy(x))

EmitExpression(q, env, k) ==
  LET args == q.nodes[k].args IN
  [env EXCEPT ![k] = IF \E a \in Elements(args) : env[a] = Undefined THEN Undefined
                     ELSE Emitted(q.nodes, q.nodes[k], env[args[1]], env[args[Len(args)]])]
EmitAll(q, env, ks) == FoldLeft(LAMBDA e, k : EmitExpression(q, e, k), env, SetToSortSeq(ks, <))

ExpressionsAt(q, b) ==
  {k \in 1 .. Len(q.nodes) : /\ q.nodes[k].kind = "expression" /\ q.nodes[k].op # "phi"
                             /\ q.nodes[k].pc \in Code(q.blocks[b])}
Skipped(q) == q.hoisted \union {i.update : i \in q.direct}

(* The entry block is followed by what the loop optimizer took out of the loop. *)
Emits(q, b) == (ExpressionsAt(q, b) \ Skipped(q)) \union (IF b = 1 THEN q.hoisted ELSE {})

PhiSource(n, from) == n.args[CHOOSE k \in 1 .. Len(n.from) : n.from[k] = from /\ \A j \in 1 .. k - 1 : n.from[j] # from]
CountsOn(q, k, b) == {i \in q.direct : i.phi = k /\ b = TheLoop(q).latch}

(* The phis of a block, one assignment after the other.                        *)
EmitPhi(q, env, k, from) ==
  LET counting == CountsOn(q, k, from) IN
  [env EXCEPT ![k] = IF counting = {} THEN env[PhiSource(q.nodes[k], from)]
                     ELSE Integer(Wrap(env[k].v + (CHOOSE i \in counting : TRUE).step))]
EmitPhis(q, env, b, from) == FoldLeft(LAMBDA e, k : EmitPhi(q, e, k, from), env, q.blocks[b].phis)

Raises(env, ks) == \E k \in ks : env[k] = Undefined

-----------------------------------------------------------------------------
Init ==
  /\ \E p \in Protos : call = [proto |-> p, args |-> <<>>, room |-> 0]
  /\ plan = Plain(NoPlan, "none")
  /\ machine = Fresh(call.proto, <<>>)
  /\ native = NotNative
  /\ fuel = Plenty
  /\ mode = "found"

Compile ==
  /\ mode = "found"
  /\ plan' = Compiled(call.proto)
  /\ mode' = "compiled"
  /\ UNCHANGED <<call, machine, native, fuel>>

Rooms(p) == IF p.children = <<>> THEN {1} ELSE {1, 2}
Invoke ==
  /\ mode = "compiled"
  /\ \E args \in [1 .. Len(call.proto.params) -> Samples], room \in Rooms(call.proto) :
       /\ Takes(call.proto, args)
       /\ call' = [call EXCEPT !.args = args, !.room = room]
       /\ machine' = Fresh(call.proto, args)
  /\ mode' = "called"
  /\ UNCHANGED <<plan, native, fuel>>

Interpret(m) == machine' = m /\ mode' = "interpreting" /\ native' = NotNative
Finish(m) == machine' = m /\ mode' = "done" /\ native' = NotNative

(* The budget ends within the next cost instructions.                         *)
RunsOut(cost) == fuel' \in {n \in machine.meter .. machine.meter + cost - 1 : n <= Plenty}
Lasts(cost) == machine.meter + cost <= Plenty /\ UNCHANGED fuel

NotCompiled ==
  /\ mode = "called" /\ plan.tier = "none"
  /\ Interpret(machine)
  /\ UNCHANGED <<call, plan, fuel>>

StraightValues(env) == [machine EXCEPT !.meter = @ + plan.cost, !.status = "returned", !.frames = <<>>,
                                       !.values = [k \in 1 .. Len(plan.returns) |-> env[plan.returns[k]]]]

StraightSuspends ==
  /\ mode = "called" /\ plan.tier = "straight"
  /\ \/ plan.calls > 0 /\ call.room <= 1 /\ UNCHANGED fuel
     \/ (plan.calls = 0 \/ call.room > 1) /\ RunsOut(plan.cost)
  /\ Interpret(machine)
  /\ UNCHANGED <<call, plan>>

StraightRuns ==
  /\ mode = "called" /\ plan.tier = "straight"
  /\ plan.calls = 0 \/ call.room > 1
  /\ Lasts(plan.cost)
  /\ Finish(StraightValues(EmitAll(plan, StartEnv(call.proto, call.args, plan), LiveExpressions(plan))))
  /\ UNCHANGED <<call, plan>>

Enter ==
  /\ mode = "called" /\ plan.form = "cfg"
  /\ native' = [block |-> 1, from |-> 0, env |-> StartEnv(call.proto, call.args, plan)]
  /\ mode' = "native"
  /\ UNCHANGED <<call, plan, machine, fuel>>

Block == plan.blocks[native.block]
Cost == Block.end - Block.start + 1
AtEntry == EmitPhis(plan, native.env, native.block, native.from)
EntryReads == {Block.entry[r] : r \in Block.live}

(* The preflight of a block fails: its live registers go back to the frame.     *)
Spilled(env) ==
  [machine EXCEPT !.frames[1] = [@ EXCEPT !.pc = Block.start,
     !.regs = [r \in DOMAIN @ |-> IF r \in Block.live THEN env[Block.entry[r]] ELSE @[r]]]]

SideExit ==
  /\ mode = "native"
  /\ ~Raises(AtEntry, Elements(Block.phis) \union EntryReads)
  /\ RunsOut(Cost)
  /\ Interpret(Spilled(AtEntry))
  /\ UNCHANGED <<call, plan>>

AtEnd == EmitAll(plan, AtEntry, Emits(plan, native.block))
Last1 == call.proto.code[Block.end]
EndReads == Elements(Block.returns) \union (IF Block.condition = 0 THEN {} ELSE {Block.condition})
BlockRaises == Raises(AtEnd, Elements(Block.phis) \union Emits(plan, native.block) \union EndReads)
Charged == [machine EXCEPT !.meter = @ + Cost]

BlockReturns ==
  /\ mode = "native" /\ Last1.op \in Terminal
  /\ ~BlockRaises
  /\ Lasts(Cost)
  /\ Finish([Charged EXCEPT !.status = "returned", !.frames = <<>>,
                            !.values = [k \in 1 .. Len(Block.returns) |-> AtEnd[Block.returns[k]]]])
  /\ UNCHANGED <<call, plan>>

ConditionTest(env) == Jumps(Last1, IF Block.condition = 0 THEN Nil ELSE env[Block.condition])

BlockGoesOn ==
  /\ mode = "native" /\ Last1.op \notin Terminal
  /\ ~BlockRaises
  /\ Lasts(Cost)
  /\ machine' = Charged
  /\ native' = [block |-> Block.successors[IF Last1.op \notin Branches \/ ConditionTest(AtEnd) THEN 1 ELSE 2],
                from |-> native.block, env |-> AtEnd]
  /\ UNCHANGED <<call, plan, mode>>

BlockFails ==
  /\ mode = "native"
  /\ \/ Raises(AtEntry, Elements(Block.phis)) /\ UNCHANGED fuel
     \/ Raises(AtEntry, EntryReads) /\ RunsOut(Cost)
     \/ BlockRaises /\ Lasts(Cost)
  /\ Finish([machine EXCEPT !.status = "error"])
  /\ UNCHANGED <<call, plan>>

Resume ==
  /\ mode = "interpreting"
  /\ Finish(Run(machine, fuel, call.room))
  /\ UNCHANGED <<call, plan, fuel>>

Done == mode = "done" /\ UNCHANGED vars

Next ==
  \/ Compile \/ Invoke \/ NotCompiled \/ StraightSuspends \/ StraightRuns
  \/ Enter \/ SideExit \/ BlockReturns \/ BlockGoesOn \/ BlockFails
  \/ Resume \/ Done

Spec == Init /\ [][Next]_vars

-----------------------------------------------------------------------------
(* A call given all the fuel it wants.                                        *)
Refuelled(m) ==
  IF m.status = "out of fuel" THEN Run([m EXCEPT !.status = "running"], Plenty, call.room) ELSE m
Where(m) == [k \in 1 .. Len(m.frames) |-> [code |-> m.frames[k].proto.code, pc |-> m.frames[k].pc]]
Ends(m) == [status |-> m.status, meter |-> m.meter, values |-> m.values]
Agree(m, r) == /\ Ends(m) = Ends(r) /\ (m.status = "out of fuel" => Where(m) = Where(r))
               /\ Ends(Refuelled(m)) = Ends(Refuelled(r))

(* No phi of a block is read by a later one of it: their order does not matter. *)
Sequenced(q) ==
  \A b \in DOMAIN q.blocks : \A i, j \in 1 .. Len(q.blocks[b].phis) :
     i < j => q.blocks[b].phis[i] \notin Elements(q.nodes[q.blocks[b].phis[j]].args)
(* An update that only a phi reads is not held by a register, a condition or a  *)
(* return either.                                                             *)
Unheld(q) ==
  \A i \in q.direct : \A b \in DOMAIN q.blocks :
     i.update \notin Elements(q.blocks[b].returns) \union {q.blocks[b].condition}
                     \union {q.blocks[b].entry[r] : r \in q.blocks[b].live}
Regular(q) == q.form = "cfg" => Sequenced(q) /\ Unheld(q)

(* Compiled or not, a call spends its fuel on the same instructions, returns    *)
(* the same values, and where the fuel ends leaves the thread where it can go   *)
(* on as if it had been interpreted from the start.                           *)
FollowsInterpreter(m, r) == Refuelled(r).kept => Agree(m, r)
FollowsBytecode ==
  [][mode' = "done" /\ Regular(plan) =>
       FollowsInterpreter(machine', Run(Fresh(call.proto, call.args), fuel', call.room))]_vars

(* "A quota side exit therefore reconstructs the exact loop-carried state for   *)
(* the iteration that Tier 0 is about to execute"                               *)
(* (docs/dominance-cyclic-cfg-0.19.md:137), whatever the phis read.             *)
LoopStateIsExact ==
  [][mode' = "done" /\ (plan.form = "cfg" => Unheld(plan)) =>
       FollowsInterpreter(machine', Run(Fresh(call.proto, call.args), fuel', call.room))]_vars

(* What the generated code reads has been computed on every path that comes     *)
(* there: in a block that dominates, or before it in the same one.              *)
DefinedAt(q, b, k) == q.nodes[k].kind # "expression" \/ DefBlock(q, k) \in q.dom[b]
Inputs(q, k) == {a \in Elements(q.nodes[k].args) : q.nodes[a].kind = "expression"}
DefinitionsDominate ==
  [][mode' = "compiled" /\ plan'.form = "cfg" =>
       /\ \A k \in Nodes(plan') : plan'.nodes[k].kind = "expression" =>
            IF plan'.nodes[k].op = "phi"
            THEN \A a \in 1 .. Len(plan'.nodes[k].args) : DefinedAt(plan', plan'.nodes[k].from[a], plan'.nodes[k].args[a])
            ELSE \A a \in Inputs(plan', k) : DefinedAt(plan', DefBlock(plan', k), a) /\ a < k
       /\ \A b \in DOMAIN plan'.blocks :
            /\ \A r \in plan'.blocks[b].live : DefinedAt(plan', b, plan'.blocks[b].entry[r])
            /\ \A k \in Elements(plan'.blocks[b].returns) : DefinedAt(plan', b, k)]_vars

(* The analyses against their definitions by paths: a block dominates when      *)
(* without it the other is not reached, a register is live when a path leads to *)
(* a read of it without a write, and a loop is what reaches its latch without    *)
(* passing the header.                                                        *)
RECURSIVE PathsFrom(_, _, _)
PathsFrom(blocks, reached, without) ==
  LET more == reached \union (UNION {Elements(blocks[b].successors) : b \in reached} \ without) IN
  IF more = reached THEN reached ELSE PathsFrom(blocks, more, without)
Reads1(p, block, r) == r \in BlockUses(p, block)
LivePath(p, blocks, b, r) ==
  \E c \in PathsFrom(blocks, {b}, {}) : Reads1(p, blocks[c], r) /\
     \/ c = b
     \/ LET writers == {d \in DOMAIN blocks : r \in BlockDefs(p, blocks[d])} IN
        b \notin writers /\ c \in PathsFrom(blocks, {b}, writers \ {c})
AnalysesExact ==
  [][mode' = "compiled" /\ plan'.form = "cfg" =>
       LET blocks == plan'.blocks
           dominates(d, b) == d = b \/ d = 1 \/ b \notin PathsFrom(blocks, {1}, {d}) IN
       /\ \A b \in DOMAIN blocks : plan'.dom[b] = {d \in DOMAIN blocks : dominates(d, b)}
       /\ \A b \in DOMAIN blocks : blocks[b].live = {r \in 1 .. call.proto.registers : LivePath(call.proto, blocks, b, r)}
       /\ \A loop \in plan'.loops :
            loop.blocks = {b \in DOMAIN blocks : /\ dominates(loop.header, b)
                                                 /\ b = loop.header \/ loop.latch \in PathsFrom(blocks, {b}, {loop.header})}]_vars
=============================================================================

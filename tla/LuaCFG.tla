------------------------------- MODULE LuaCFG -------------------------------
(***************************************************************************)
(* The control flow of a typed function, and its compilation to a graph of     *)
(* values with a phi where paths with different values of a live register      *)
(* meet.  Blocks are numbered in the order of their code, the entry is one.     *)
(***************************************************************************)
EXTENDS LuaValueIR
LOCAL INSTANCE SequencesExt

CFGSupported == Copies \union BoolUnary \union Binary \union Control \union Terminal \union {"LOADK"}

SuccessorStarts(i, fallthrough) ==
  CASE i.op = "JMP" -> <<i.a>>
    [] i.op \in Branches -> <<i.a, fallthrough>>
    [] i.op \in Terminal -> <<>>
    [] OTHER -> <<fallthrough>>

Elements(s) == {s[k] : k \in 1 .. Len(s)}
Supported(p) == \A pc \in 1 .. Len(p.code) : p.code[pc].op \in CFGSupported
Leaders(p) == ({1} \union MergePoints(p)) \intersect 1 .. Len(p.code)
EndOf(p, start) == Least({pc \in Leaders(p) \union {Len(p.code) + 1} : pc > start})
Leads(p, start) ==
  SelectSeq(SuccessorStarts(p.code[EndOf(p, start) - 1], EndOf(p, start)), LAMBDA pc : pc <= Len(p.code))

RECURSIVE Reached(_, _)
Reached(p, starts) ==
  LET more == starts \union UNION {Elements(Leads(p, start)) : start \in starts} IN
  IF more = starts THEN starts ELSE Reached(p, more)

(* The blocks that are reached, with their code and successors.               *)
BuildBlocks(p) ==
  LET starts == SetToSortSeq(Reached(p, {1}), <)
      number(start) == CHOOSE b \in 1 .. Len(starts) : starts[b] = start
      successors(leads) == [k \in 1 .. Len(leads) |-> number(leads[k])] IN
  [b \in 1 .. Len(starts) |-> [start |-> starts[b], end |-> EndOf(p, starts[b]) - 1,
                               successors |-> successors(Leads(p, starts[b]))]]

Code(block) == block.start .. block.end
EndsIn(p, blocks, ops) == \E b \in DOMAIN blocks : p.code[blocks[b].end].op \in ops

(* An edge is a block and which of its successors: a jump to the instruction    *)
(* behind it makes two edges to one block.                                    *)
Edges(blocks) == UNION {{<<b, k>> : k \in 1 .. Len(blocks[b].successors)} : b \in DOMAIN blocks}
Target(blocks, e) == blocks[e[1]].successors[e[2]]
Into(blocks, b) == {e \in Edges(blocks) : Target(blocks, e) = b}
EdgeOrder(e, f) == e[1] < f[1] \/ (e[1] = f[1] /\ e[2] < f[2])
Predecessors(blocks, b) ==
  LET edges == SetToSortSeq(Into(blocks, b), EdgeOrder) IN [k \in 1 .. Len(edges) |-> edges[k][1]]

-----------------------------------------------------------------------------
(* Registers that are live, blocks that dominate, and loops.                   *)

BlockUses(p, block) ==
  UNION {{r \in Reads(p.code[pc]) : \A q \in block.start .. pc - 1 : r \notin Writes(p.code[q])} : pc \in Code(block)}
BlockDefs(p, block) == UNION {Writes(p.code[pc]) : pc \in Code(block)}

RECURSIVE LiveFrom(_, _, _)
LiveFrom(p, blocks, live) ==
  LET out(b) == UNION {live[c] : c \in Elements(blocks[b].successors)}
      more == [b \in DOMAIN blocks |-> BlockUses(p, blocks[b]) \union (out(b) \ BlockDefs(p, blocks[b]))] IN
  IF more = live THEN live ELSE LiveFrom(p, blocks, more)
BlockLiveness(p, blocks) == LiveFrom(p, blocks, [b \in DOMAIN blocks |-> {}])

RECURSIVE DominatorsFrom(_, _)
DominatorsFrom(blocks, dom) ==
  LET common(b) == {d \in DOMAIN blocks : \A e \in Into(blocks, b) : d \in dom[e[1]]}
      fewer == [b \in DOMAIN blocks |-> IF b = 1 THEN {1} ELSE {b} \union common(b)] IN
  IF fewer = dom THEN dom ELSE DominatorsFrom(blocks, fewer)
(* Mutant: one round over the blocks is taken for enough.                      *)
DominatorsOnce(blocks) ==
  [b \in DOMAIN blocks |-> IF b = 1 THEN {1}
     ELSE {b} \union {d \in DOMAIN blocks : \A e \in Into(blocks, b) : e[1] # 1 \/ d = 1}]

Dominators(blocks) == DominatorsFrom(blocks, [b \in DOMAIN blocks |-> IF b = 1 THEN {1} ELSE DOMAIN blocks])

FindBackedges(blocks, dom) == {e \in Edges(blocks) : Target(blocks, e) \in dom[e[1]]}

RECURSIVE Ordered(_, _, _)
Ordered(blocks, back, order) ==
  LET ready == {b \in DOMAIN blocks \ Elements(order) : \A e \in Into(blocks, b) \ back : e[1] \in Elements(order)} IN
  IF ready = {} THEN order ELSE Ordered(blocks, back, Append(order, Least(ready)))

RECURSIVE LoopFrom(_, _, _)
LoopFrom(blocks, header, loop) ==
  LET more == loop \union UNION {{e[1] : e \in Into(blocks, b)} : b \in loop \ {header}} IN
  IF more = loop THEN loop ELSE LoopFrom(blocks, header, more)

NaturalLoop(blocks, header, latch) ==
  LET body == LoopFrom(blocks, header, {header, latch}) IN
  [header |-> header, latch |-> latch, blocks |-> body,
   preheaders |-> {e \in Into(blocks, header) : e[1] \notin body},
   exits |-> {e \in Edges(blocks) : e[1] \in body /\ Target(blocks, e) \notin body}]

Headers(blocks, back) == {Target(blocks, e) : e \in back}
Latches(blocks, back, header) == {e \in back : Target(blocks, e) = header}
NaturalLoops(blocks, back) ==
  {NaturalLoop(blocks, h, (CHOOSE e \in Latches(blocks, back, h) : TRUE)[1]) : h \in Headers(blocks, back)}
IsSimple(blocks, back, loop) ==
  Cardinality(Latches(blocks, back, loop.header)) = 1 /\ Cardinality(loop.preheaders) = 1
Preheader(loop) == (CHOOSE e \in loop.preheaders : TRUE)[1]

-----------------------------------------------------------------------------
(* The graph of values, block by block in an order without the back edges.     *)

Phi(type, args, from, pc) == [Expression("phi", args, type, pc, FALSE) EXCEPT !.from = from]
HomeOf(blocks, n) == CHOOSE b \in DOMAIN blocks : n.pc \in Code(blocks[b])

AddPhi(s, r, type, args, from, block) ==
  LET graph == NewNode(s.graph, Phi(type, args, from, block.start)) IN
  [Put(s, r, graph) EXCEPT !.phis = Append(@, graph.at)]

(* At the header of a loop every live register the loop writes gets a phi, of   *)
(* which the value that comes round is not known yet.                         *)
HeaderPhi(s, r, loop, block) ==
  LET value == s.regs[r]
      phi == AddPhi(s, r, s.graph.nodes[value].type, <<value>>, <<Preheader(loop), loop.latch>>, block) IN
  IF s.graph.nodes[value].type \notin Scalars THEN Failed(s)
  ELSE [phi EXCEPT !.pending = Append(@, [phi |-> phi.regs[r], register |-> r, latch |-> loop.latch])]

MergeRegister(s, r, states, from, live, block) ==
  LET incoming == [k \in 1 .. Len(states) |-> states[k][r]]
      types == {s.graph.nodes[incoming[k]].type : k \in 1 .. Len(incoming)} IN
  IF Cardinality(Elements(incoming)) = 1 \/ r \notin live THEN [s EXCEPT !.regs[r] = incoming[1]]
  ELSE IF Cardinality(types) # 1 \/ ~(types \subseteq Scalars) THEN Failed(s)
  ELSE AddPhi(s, r, s.graph.nodes[incoming[1]].type, incoming, from, block)

LoopWrites(p, blocks, loop) == UNION {BlockDefs(p, blocks[b]) : b \in loop.blocks}

EnterBlock(s, p, a, b) ==
  LET block == a.blocks[b]
      from == Predecessors(a.blocks, b)
      states == [k \in 1 .. Len(from) |-> s.exits[from[k]]]
      start == [s EXCEPT !.phis = <<>>, !.condition = 0, !.returns = <<>>]
      loops == {loop \in a.loops : loop.header = b}
      loop == CHOOSE l \in loops : TRUE IN
  IF b = 1 THEN (IF from = <<>> THEN start ELSE Failed(s))
  ELSE IF loops # {}
       THEN FoldLeft(LAMBDA t, r : HeaderPhi(t, r, loop, block), [start EXCEPT !.regs = s.exits[Preheader(loop)]],
                     SetToSortSeq(a.live[b] \intersect LoopWrites(p, a.blocks, loop), <))
       ELSE FoldLeft(LAMBDA t, r : MergeRegister(t, r, states, from, a.live[b], block), start,
                     [r \in 1 .. p.registers |-> r])

(* Mutant: an expression is used again wherever it comes up once more.         *)
PrepareNothing(s, a, b) == s

(* An expression may be used again where its block dominates.                  *)
PrepareInterns(s, a, b) ==
  [s EXCEPT !.graph.interned = {k \in @ : LET n == s.graph.nodes[k] IN
                                          n.kind = "expression" => HomeOf(a.blocks, n) \in a.dom[b]}]

NoteReuse(s, t, a, b, pc, r) ==
  IF pc \in t.graph.reused \ s.graph.reused /\ HomeOf(a.blocks, t.graph.nodes[t.regs[r]]) # b
  THEN [t EXCEPT !.cross = TRUE] ELSE t

CompileInstruction(s, p, a, free, b, pc, i) ==
  CASE i.op \in Branches -> [s EXCEPT !.condition = s.regs[i.b]]
    [] i.op \in {"JMP", "HALT"} -> s
    [] i.op = "RETURN" -> [s EXCEPT !.returns = [k \in 1 .. i.b |-> s.regs[i.a + k - 1]]]
    [] OTHER -> NoteReuse(s, PureInstruction(s, p, free, pc, i), a, b, pc, i.a)

LeaveBlock(s, a, b, entry) ==
  LET block == a.blocks[b] IN
  [s EXCEPT !.exits = (b :> s.regs) @@ @,
            !.done = (b :> [start |-> block.start, end |-> block.end, successors |-> block.successors,
                            live |-> a.live[b], entry |-> entry, phis |-> s.phis,
                            condition |-> s.condition, returns |-> s.returns]) @@ @]

CompileBlock(s, p, a, free, b) ==
  LET entered == EnterBlock(s, p, a, b)
      compiled == FoldLeft(LAMBDA t, pc : IF t.ok THEN CompileInstruction(t, p, a, free, b, pc, p.code[pc]) ELSE t,
                           PrepareInterns(entered, a, b),
                           [k \in 1 .. Cardinality(Code(a.blocks[b])) |-> a.blocks[b].start + k - 1]) IN
  IF ~s.ok \/ ~entered.ok THEN Failed(s) ELSE LeaveBlock(compiled, a, b, entered.regs)

(* When the latch is compiled, the phi gets the value that comes round.        *)
PatchPhi(s, pending) ==
  LET back == s.exits[pending.latch][pending.register] IN
  IF s.graph.nodes[back].type # s.graph.nodes[pending.phi].type THEN Failed(s)
  ELSE [s EXCEPT !.graph.nodes[pending.phi].args = Append(@, back)]

WithLoops(p, blocks, dom, back) ==
  [blocks |-> blocks, dom |-> dom, back |-> back, live |-> BlockLiveness(p, blocks),
   loops |-> NaturalLoops(blocks, back), order |-> Ordered(blocks, back, <<>>)]
WithDominators(p, blocks, dom) == WithLoops(p, blocks, dom, FindBackedges(blocks, dom))
WithBlocks(p, blocks) == WithDominators(p, blocks, Dominators(blocks))
Analysis(p) == WithBlocks(p, BuildBlocks(p))

CompileBlocks(p, a, free) ==
  FoldLeft(LAMBDA s, b : CompileBlock(s, p, a, free, b),
           InitialState(p) @@ [exits |-> <<>>, done |-> <<>>, phis |-> <<>>, condition |-> 0,
                               returns |-> <<>>, pending |-> <<>>, cross |-> FALSE], a.order)
Patched(s) == IF s.ok THEN FoldLeft(PatchPhi, s, s.pending) ELSE s

(* It must be worth it: a phi, a loop, or an expression used again elsewhere.   *)
PlanOf(a, s) ==
  IF ~s.ok \/ ((\A b \in DOMAIN a.blocks : s.done[b].phis = <<>>) /\ a.back = {} /\ ~s.cross) THEN NoPlan
  ELSE [form |-> "cfg", nodes |-> s.graph.nodes, blocks |-> s.done, dom |-> a.dom, back |-> a.back, loops |-> a.loops]
CFGPlan(p, a) == PlanOf(a, Patched(CompileBlocks(p, a, OverflowFree(p))))

Reducible(a) ==
  /\ Len(a.order) = Len(a.blocks)
  /\ \A loop \in a.loops : IsSimple(a.blocks, a.back, loop)
PlanAnalysed(p, a) == IF ~EndsIn(p, a.blocks, Terminal) \/ ~Reducible(a) THEN NoPlan ELSE CFGPlan(p, a)
CompileCFG(p) ==
  IF ~Supported(p) \/ Cardinality(Reached(p, {1})) < 2 THEN NoPlan ELSE PlanAnalysed(p, Analysis(p))

-----------------------------------------------------------------------------
(* What the loop optimizer proves of that graph: the values of a loop that do  *)
(* not change in it, and the phis that only count.                             *)

LICMSafeOps == IntBinops \union FloatBinops \union BoolUnary \union CompareOps

Nodes(plan) == 1 .. Len(plan.nodes)
DefBlock(plan, k) == HomeOf(plan.blocks, plan.nodes[k])
DefinedBeforeLoop(plan, loop, k) ==
  \/ plan.nodes[k].kind # "expression"
  \/ DefBlock(plan, k) \in plan.dom[loop.header] \ loop.blocks

Hoistable(plan, loop, k) ==
  plan.nodes[k].kind = "expression" /\ plan.nodes[k].op \in LICMSafeOps /\ DefBlock(plan, k) \in loop.blocks

RECURSIVE InvariantsFrom(_, _, _)
InvariantsFrom(plan, loop, found) ==
  LET settled(k) == k \in found \/ DefinedBeforeLoop(plan, loop, k)
      more == {k \in Nodes(plan) : Hoistable(plan, loop, k) /\ \A a \in Elements(plan.nodes[k].args) : settled(a)} IN
  IF more = found THEN found ELSE InvariantsFrom(plan, loop, more)
InvariantNodes(plan, loop) == InvariantsFrom(plan, loop, {})

(* The uses of a value by other values, one for each place.                    *)
Consumers(plan, k) ==
  UNION {{<<n, a>> : a \in {a \in 1 .. Len(plan.nodes[n].args) : plan.nodes[n].args[a] = k}} : n \in Nodes(plan)}

KnownInt(plan, p, k) ==
  LET n == plan.nodes[k]
      value == IF n.kind = "literal" THEN n.value ELSE p.constants[n.value.v] IN
  IF n.kind \in {"literal", "constant"} /\ value.t = "integer" THEN {value.v} ELSE {}

(* The steps by which a phi counts: one or none.                               *)
Counted(phi, update) ==
  IF update.op = "ADD_I" /\ update.args[1] = phi THEN {update.args[2]}
  ELSE IF update.op = "ADD_I" /\ update.args[2] = phi THEN {update.args[1]}
  ELSE IF update.op = "SUB_I" /\ update.args[1] = phi THEN {update.args[2]} ELSE {}
Steps(plan, p, phi, update) ==
  {Wrap(IF update.op = "ADD_I" THEN n ELSE -n) : n \in UNION {KnownInt(plan, p, k) : k \in Counted(phi, update)}}

Inductions(plan, p, loop) ==
  LET phis == {k \in Elements(plan.blocks[loop.header].phis) : plan.nodes[k].type = "integer"}
      update(k) == plan.nodes[k].args[2]
      counts(k) == /\ plan.nodes[update(k)].op \in {"ADD_I", "SUB_I"}
                   /\ DefBlock(plan, update(k)) \in loop.blocks
                   /\ Steps(plan, p, k, plan.nodes[update(k)]) # {} IN
  {[phi |-> k, update |-> update(k), step |-> CHOOSE n \in Steps(plan, p, k, plan.nodes[update(k)]) : TRUE]
     : k \in {k \in phis : counts(k)}}

(* Mutant: other values may use the update as well.                            *)
IsCounted(plan, i) == i.phi \in {c[1] : c \in Consumers(plan, i.update)}

(* The phi is the only value its update is for: it may count by itself.         *)
IsDirect(plan, i) == {c[1] : c \in Consumers(plan, i.update)} = {i.phi} /\ Cardinality(Consumers(plan, i.update)) = 1
=============================================================================

# LuaPyre in TLA+

A verification project for LuaPyre, the Lua 5.5 runtime in pure Python
(`src/src/luapyre`). The modules are translated from the source; file names
below are relative to that directory.

1. [Inventory of the system](#1-inventory-of-the-system)
2. [Modules and how they relate to the code](#2-modules-and-how-they-relate-to-the-code)
3. [What the runs check](#3-what-the-runs-check)
4. [Divergences found](#4-divergences-found)
5. [What is proved](#5-what-is-proved)
6. [What is only model-checked, what is not modelled](#6-what-is-only-model-checked-what-is-not-modelled)
7. [Plan](#7-plan)

To run: `tlc -workers 2 -config MCTable.cfg MCTable.tla`,
`tlapm LuaTableProofs.tla`. Run either on any other module in the same way.
`PROJECT.json` lists every run, the source lines of every definition, the
hazards, and for every property a mutant of the model that breaks it.

## 1. Inventory of the system

LuaPyre compiles Lua to register bytecode and executes it in an interpreter
loop with explicit frames, from which hot code escapes to generated Python. It
is single-threaded: what interleaves is coroutines, finalizers, hooks, library
callbacks, and interpreted with generated code over the same objects.

| Component | State | Operations | Interacts with | Hard because |
|---|---|---|---|---|
| Frame machine: `vm.py`, `opdispatch.py`, `values.py`, `errors.py`, `bytecode.py` | frames: pc, registers, cells, pending error and return, close stacks, protection | call, tail call, return, raise, `pcall`/`xpcall`, `__close` unwinding, metamethod calls | everything | an error while an error unwinds; a yield inside a protected call or a close handler; one step failing after another changed state |
| Coroutines: `threadvm.py` | `LuaThread`: status, started, frames, yield target, stored error; `current_thread` | create, resume, yield, wrap, close, close of oneself | frame machine; embedding through `call_sync` and `run` | the Python stack links coroutines implicitly; exceptions cross several links at once |
| Activations: `gcvm.py` | `_active_frames`, `_active_host_values`, `_active_call_result`, current thread | `run`, `call_sync`, `_execute_thread`, allocation polls | coroutines, collector | state saved and restored by nested `finally` blocks |
| Collector: `gc.py` | ages, remembered set, finalizable list, debt, mode | trace, clear weak tables, finalize, promote, barriers, `collectgarbage` | every allocation and store | finalizers run inside a cycle; every stack must be a root; every old-to-young edge remembered |
| Tables: `table.py` | array, hash, untagged dictionary, iteration index and deleted successors, version | get, set, next, length, pre-hashed set, materialize | collector (barrier), inline caches (version), generated loops | the same key may live in three containers; deletion during traversal; generated code writes the containers directly |
| Inline caches: `inline_cache.py` | entries keyed by table identity and version | lookup, record, go megamorphic | tables, JIT | stale when a version is not bumped |
| JIT tiers: `jitvm.py`, `jit.py`, `optimizing_jitvm.py`, `super_jit.py`, `trace_jit.py`, `jit_policy.py` | counters, compiled regions, traces, fuel | enter at a back edge, side exit, deoptimize, charge fuel | frame machine | generated code must leave registers, pc and fuel as the interpreter would |
| Generated loops and functions: `ast_jit.py`, `typed_ir_jit.py`, `structured_jit.py`, `region_jit.py`, `dense_jit.py`, `cfg_loop_opt_jit.py`, `ast_backend.py`, `jit_codegen.py`, `function_jit.py`, `*_function_jit.py`, `virtual_frame.py`, `coroutine_jit.py` | locals that cache registers, table parts, counts | code generation, guarded entry, exact exit | tables, frames, collector | a cached part of an object that another path replaces |
| Analyses: `typed_ir*.py`, `value_ir.py`, `cfg_value_ir.py`, `call_ir.py`, `loop_opt.py`, `range_analysis.py`, `escape_analysis.py` | none (functions of bytecode) | build the IR, ranges, dominators, escape facts | generated code | wrong facts are wrong code; 64-bit wrap-around |
| Front end: `lexer.py`, `parser.py`, `typed_parser.py`, `astnodes.py`, `semantics.py`, `source_mode.py`, `source_compiler.py`, `compiler.py`, `typesys.py` | none | text to bytecode; goto validation | frame machine | scope of labels and of to-be-closed variables |
| Binary chunks: `binary_chunks.py`, `native_debug_chunks.py`, `puc55.py`, `puc_debug.py` | none | dump, load, translate PUC bytecode | compiler | malformed input |
| Libraries: `stdlib*.py`, `lua_pattern.py`, `diagnostic*.py` | io and random state, `package.loaded` | the Lua library | tables, `call_sync` | callbacks that yield, fail or change the table being worked on |
| Embedding: `runtime.py`, `interop.py`, `capabilities.py`, `__init__.py` | entry caches, conversion memo | execute, call, convert | everything | must know every representation of a table |

What makes each modelled component correct:

- *Coroutines*: no frame list is executed by two interpreter loops; the status
  says the truth about the stack of activations; what rests in `suspended` can
  be resumed; a dead coroutine stays dead; an error keeps what it needs to be
  reported and closed.
- *Tables*: a table is a map, whatever mixture of interpreted and generated
  stores wrote it; the length is a border; a traversal visits every key that
  stays exactly once, also when keys are cleared on the way.
- *Loops*: the iterations are those of the reference manual, also at the ends of the
  integers; it cannot be seen from registers, results or fuel which tier ran.
- *Front end*: a program that the manual allows is compiled, any other is refused, and
  the bytecode does what the manual says of the text.
- *Binary chunks*: a dump is read back as what was dumped, a damaged one is refused, and
  translated PUC-Lua code does what PUC-Lua's own machine does with it.
- *Generated functions*: results, fuel and the place where the fuel ends are those of the
  bytecode; every value that is read was computed on every path.
- *Libraries*: the answer of a pure function is the manual's, and a table function whose
  accesses fail in the middle loses no element.
- *Collector*: nothing reachable is finalized or disappears from a weak table;
  everything unreachable is found by a major collection; finalizers see what
  the language promises; a minor collection may skip old objects because
  somebody remembered the edges that matter.

The hazards, each with its line and the properties aimed at it, are in
`PROJECT.json`.

## 2. Modules and how they relate to the code

### LuaThreads, LuaCoroutines (`threadvm.py`, `gcvm.py`)

The state is that of the `LuaThread` objects (`entry`, `status`, `started`,
`target` for `yield_target`, `frames`, `tbc` for the values on the close stacks,
`err`), `current_thread`, and the stack `calls` of Python activations that the
code keeps only implicitly: `VM.run`, `call_sync`, `resume_thread` of a Lua and
of a host entry, and `_force_close` from `close_thread` or from
`_execute_thread`. Every activation has the `current_thread` it will restore.
An action is one of the things code running in the innermost activation may do
(`Create`, `ResumeFirst`, `ResumeAgain`, `Yield`, `OpenTbc`, `CloseTbc`,
`BodyReturns`, `BodyFails`, `HostEnds`, `CloseOther`, `CloseSelf`, `EnterSync`,
`EnterRun`, `LeaveBoundary`), a step of a force-close (`RunHandler`,
`HandlerReturns`, `HandlerFails`, `FinishClose`, `FinishCloseSelf`), or an
exception that leaves several activations (`QuotaExceeded`, `CloseSelf`).
`PopTo(k)` is what all `finally` blocks above the k outermost activations do
together. The Lua program is not modelled: the running code may do anything
the library offers. `lost` is a history variable.

A coroutine made of `pcall` or `xpcall` runs its target before `resume_thread` switches anything
(`threadvm.py:384-400`). A host target is an activation of its own (kind `entry`, with the
coroutine that is to be entered in `into`): it runs as its resumer and may do all the rest, also close or
resume that coroutine, fail (`EntryFails`, after which a handler of `xpcall` runs in the same
place), yield for the resumer (`YieldReaches`), or exhaust the quota. Then
the coroutine is entered (`EntryEnters`), or found without frames (`EntryWasClosed`). `HandlersRevive` says if a
Lua handler may give a frame to a coroutine that the target closed (section 4).

`LuaCoroutines` is the promise: coroutines have a life (none, suspended, active, dead, lost)
and those that have not come back form a chain, which is joined and left at its end. It has
no statuses, entries, resumers or Python exceptions. `LuaThreads` maps itself to it by `Life`
and `Chain` (each activation is a link, which executes a body or a host function, closes,
calls, or runs what precedes the entry of another); `ImplementsCoroutines` is `Coroutines!Spec`. The two disagree in how they work: what
is one error for the library is in the code an exception that passes through every
activation it finds, each restoring what it saved.

### LuaTable, LuaMap (`table.py`, `typed_ir_jit.py`, `ast_jit.py`, `runtime.py`)

`array`, `hash` with its `order`, `sparse` with `sorder` and `isSparse` for
`_sparse_int`, `index`/`indexed`/`succ` for the iteration state and
`_deleted_successors`. The order of a dictionary is the set of pairs <<x, y>> with x
before y, and a list of distinct keys (`Items`, the index) is its keys with such an
order: what `next` needs is which key comes first among some (`FirstPresent`), never a
position. Following `_deleted_successors` through keys that are gone is the least set
closed under that step (`Chain`). `rawset` is the whole method with its three cases
(`SetSlot`, `AppendSlot`, `SetHash`), the materialization before them and the
bookkeeping of the index (`Touch`); `Set` is the store of the interpreter,
`GeneratedSet` the inlined one of generated code, `RegionEnter` to `RegionExit`
the untagged loop that keeps the dictionary in a local variable (`region`,
`orphan`). A store of that loop is `RegionSet` when its key is computed, which refreshes the variable, and
`RegionConstantSet` when it is a constant integer, or a constant of another kind whose entry is deleted, which does not; `StartWalk`/`NextItem` a traversal with `next`. Values are model
values; `Floats` lets an integer key be spelled as a float. `meant` is a history
variable: what the program last assigned to each key.

`LuaMap` is the promise: a map, and traversals that visit each key that is there
once unless a key is added. `LuaTable` defines `Map == INSTANCE LuaMap` with
`map` the result of `rawget` on every key; `ImplementsMap` is `Map!Spec`.

### LuaGC (`gc.py`, `gcvm.py`)

The heap is `fields` (entries of tables), `meta` (the `__mode` and `__gc` of their
metatables), `upval` (the value in the cell of a closure), and `regs`, the live
registers of each actor: the main chunk, coroutines, and a finalizer. `calls` is
the stack of actors. `age`, `remembered`, `finalizable` are the fields of
`LuaGC`. `_trace` is `Traced`: the least set closed under what `mark` does, which is
what its recursion and the ephemeron loop compute; `Opened` says which marked
objects a minor collection looks into. `_collect_cycle` is three kinds of steps:
`BeginCollect` (both traces, both clearings, the choice of the dead), `Finalize`
and `FinalizerEnds` around the steps of each finalizer, `EndCollect` (the last
trace and the promotion). Between them the finalizer may do anything the program
may, except to resume or yield. `Roots` is what `_active_frames` is at a safe point:
an allocation in an activation sees the frames of the activation below as well,
a host call does not.

Abstractions: a metatable is its two flags and not an object; entries deleted from
a strong table go at once (the code keeps the successors recorded for them alive
a little longer); the globals are reached by name; an object is allocated once;
a collection may happen at every safe point, so the pacing (debt, thresholds,
`collectgarbage` options) is a subset of what the model does; liveness of
registers is given, not computed.

### LuaFrames, LuaCalls (`vm.py`, `opdispatch.py`, `threadvm.py`)

`frames` is the list of the `Frame`s of one execution, a main chunk's or a
coroutine's (`coroutine`), whose loop has a different `except` clause. A frame is
reduced to the fields that decide where results and errors go: `tbc` is the length of
`close_stack`, `target` is `pending_close_target`, `err` is `pending_error`, `prot` is
`protected_name` with the kind of handler (which fixes `return_prefix` and
`return_limit`), `depth` is `protected_error_depth`, `drop` is a `return_want` of 0,
and `tramp` says that the code is the single `RETURNV` that `_invoke_protected`
leaves behind. Of a result only its head is kept, the statuses put there by
protected calls. There is an action for each instruction that matters (`Call`,
`TailCall`, `Return`, `Raise`, `OpenTbc`, `CloseScope`), one for each kind of target
that `_invoke_protected` distinguishes (`ProtectedCall`, `NestedCall`,
`ProtectedHostCall`, `BareCall`), `Yield` and `Resume` for coroutines, and one for each
turn of `_drive_pending` (`CloseValue`, `ScopeClosed`, `Unwind`, `FinishProtected`).
`pcall(pcall, ...)` calls `_invoke_protected` recursively: between the two calls `nest`
says which frame made the outer one. The program is not modelled: running code may
do anything.

`LuaCalls` is the promise: one stack of calls, protected calls and pending values; a
result goes down through the protected calls, an error to the nearest one.
`LuaFrames` defines `Calls == INSTANCE LuaCalls` with `stack` read off the frames
(`StackOf`: every frame is its protected call, its activation and its values) and
`raising` the error of the topmost frame or the one that ended the execution.
`ImplementsCalls` is `Calls!Spec`.

Three forms of protected call do not keep that promise (section 4). `Odd` names those
that the program may make; they are actions of the model like the rest, and
`ImplementsCalls` is checked without them. Left out: `puc_close_stack`, which repeats
`close_stack` for translated PUC bytecode, argument types, hooks, and the trace names.

### LuaForLoop, LuaLoopTiers (`vm.py`, `jitvm.py`, `jit.py`, `super_jit.py`, `region_jit.py`, `structured_jit.py`, `dense_jit.py`, `range_analysis.py`)

`LuaForLoop` is the interpreter alone: `pc`, the three registers of the loop (`regs`),
`x` for a register the body writes, and `fuel`. `Forprep`, `Instruction`, `Forloop`,
`Fail`, `OutOfFuel` are one turn of `VM.run` each; `Again` reaches the same statement once
more, with any of the inputs. `Prepared` and `Enters` are `_forprep` with its clipping of
float limits, `Continues` and `Ahead` are `_forloop`. `VisitsProgression` says what the
reference manual says, of the limit as it was written.

`LuaLoopTiers` has the same loop in `JITVM`. `tier` and `hot` are the entry of the back edge
in `_jit_loop_states`, `deopts` the counters of `InlineCacheFeedback`, `hooks` whether
anything forbids generated code, `generator` who compiles this loop:

| `generator` | Code | Form |
|---|---|---|
| `walk` | `region_jit.py`, and `structured_jit.py` without literals | `while`, as long as the fuel covers the longest path |
| `batch` | `structured_jit.py` | `for` over a range, cut to `fuel // cost` |
| `dense` | `dense_jit.py`, `super_jit.py` | the same, its range checked by a guard at the entry |
| `diamond` | `structured_jit.py`, one branch | `for` when the fuel covers all, else `while` |
| `none` | | not compiled; the back edge is given up |

`native` is the local state of generated code while it runs: where it was entered (`by`) and with what
(`budget`), where it is (`at`), its copy of the index, and the counts from which the
charge is computed when it leaves (`used`, `off`, `done`, `take`, `total`, `from`). `Entry`,
`NativeInstruction`, `WhileBack`, `ForBack` are its steps; `EntryMiss`, `GuardMiss` and the
last turns of the two back edges `Leave` it: write registers and pc back, charge the fuel, count
the miss. `seen` are the literals that range analysis found for the loop, `Found` the
interval it makes of them, and `OverflowFree` its verdict on the body's sum, which then
is not wrapped (`NativeSum`).

`ImplementsInterpreter` is the refinement: generated code that runs is mapped to the
interpreter at the same instruction, with the fuel reduced by what would be charged
if it left now. So the charge must be right at every instruction, not only at the exits.

Abstractions: a body is a graph that branches forward, with at most one sum; a
number is counted in halves, exact below the infinity; a metamethod that the
interpreter calls where a guard misses counts as the failing of the instruction;
a step that is NaN, and infinities of opposite signs as initial value and step, are excluded by `LoopAssumption` (section 4).

### LuaSyntax, LuaCompiler, LuaMachine, LuaManual (`semantics.py`, `compiler.py`, `vm.py`, `opdispatch.py`)

A program is a syntax tree (`LuaSyntax`); the parser is left out. The first part of `LuaCompiler` is the walk of
`semantics.py` that precedes the compilation of a function: it resolves gotos, refuses those
that enter the scope of a local, and gives each label the depth a jump closes to.
The rest is `_FunctionCompiler`: its state is threaded through as a stack of records, one
per function under compilation, because resolving a name of an enclosing function
changes that function's state. Registers, captures, implicit globals, adjustment of
lists, patches of jumps and the closing instructions are those of the code. Types,
debug names and the marks for generated code are left out. A reference says if its variable is read-only (control
variables of loops, values to close, upvalues for either), and `StoreRef` refuses to assign it; `LuaManual` finds
the same by names alone (`Assignable`).

`LuaMachine` runs the result, one action per group of opcodes that work alike: frames with
registers, cells and a close stack, closures with upvalues, tables, varargs, coroutines that
run a function to its end (`co`). A program acts on the world through host functions;
`trace` is what it noted and closed, `asked` the answers it got. `LuaManual` says what the
same tree means without registers, cells or jumps. `LuaFrames` has what is left out here:
protected calls, yields, and close handlers written in Lua.

### LuaPuc, LuaPucMachine, LuaPucManual (`binary_chunks.py`, `opdispatch.py`)

`LuaPuc` is the translator `_PucTranslator`: a handler per PUC-Lua opcode, reads and writes of
captured registers through cells (`ReadReg`, `WriteFrom`), the staging of open lists of
results (`open`), the map from PUC's instructions to the new ones and the patches. `LuaPucMachine` extends
`LuaMachine` with the opcodes that only the translator emits. `LuaPucManual` is PUC-Lua's own
machine, over the untranslated code: registers are locations that closures share until they
are closed, and open results lie on the stack up to `top`.

### LuaBinary (`binary_chunks.py`, `native_debug_chunks.py`, `puc_debug.py`)

The bytes of binary chunks: the writer and the reader of LuaPyre's own format, with and
without debug information, and the reader of PUC-Lua's, with its tables of line numbers.
A reader is a record that stops at the first mistake. `Dump`, `Damage` (bytes lost at the end,
bytes too many, another signature, an opcode that does not exist) and `Load` are the actions. The compressed code and the
JSON of a debug chunk are one opaque byte each. PUC-Lua's writer is external: only its
reader is in `src/`.

### LuaPattern, LuaPack, LuaUtf8, LuaTableLib, LuaLexer, LuaLibrary (`lua_pattern.py`, `stdlib_string.py`, `stdlib_utf8.py`, `stdlib_table.py`, `lexer.py`, `values.py`)

`LuaLibrary` composes them: a behaviour is one call. Functions on strings take one step;
a function of the table library takes one step per access of an element, because each may
run a metamethod that raises; the lexer takes one per token. Strings are sequences of bytes. `LuaTableLib` also stands
alone, as `TableSpec`: a call of any function of the table library with any arguments, on
two tables that may have any contents, any length (`__len` says what it likes) and a
metamethod that raises in any access. Integers are those of a width (`MaxInteger`): places wrap where the code calls `i64`,
and `move` and `sort` refuse what they refuse in the code. `LuaLibrary` extends it; `FirstRound` is where each
function's loop begins.
`LuaPatternManual` says what a pattern matches over the pattern's items: a match is a way to
cut the subject into pieces, and the preferred way is taken; nothing in it backtracks.
The sizes of `pack` are the real ones, a byte has fewer values.

### LuaScalars, LuaValueIR, LuaCFG, LuaValueJIT (`value_ir*.py`, `cfg_value_ir*.py`, `loop_opt.py`, `cfg_loop_opt_jit.py`, `range_analysis.py`)

`LuaScalars` is the interpreter of the bytecode of typed scalar functions, with fuel.
`LuaValueIR` makes the graph of values: interning and folding of expressions, reuse of a
known one only where it dominates, integer ranges, inlining of leaf functions. `LuaCFG`
finds blocks, live registers, dominators and natural loops, and puts a phi where paths
with different values of a live register meet. Its last part (`loop_opt.py`) finds the values of a loop that
do not change in it and the phis that only count. `LuaValueJIT` makes a call: `Compile`, then
the generated code block by block (`Enter`, `BlockGoesOn`, `BlockReturns`, `BlockFails`), and
where the fuel does not last for a block the `SideExit`, after which the interpreter goes on
(`Resume`). How much fuel there is, is chosen where it ends, so that every amount is
covered without one behaviour for each.

### The instances

`MCThreads`, `MCTable`, `MCGC`, `MCFrames`: symmetry over interchangeable model values.
`MCLoops`: bodies and inputs. `MCPrograms`: the generated programs, with the binary chunks of
`MCChunks`; it extends `LuaPucMachine` and so composes the compiler, the translator and the
machine that runs the code of both. `MCLibrary`: inputs of the library functions and what
the manual says of them; it takes the functions to dump from `MCBinary`. `MCValues`: typed
functions of every shape of control flow.

## 3. What the runs check

Only `loops` assumes fairness, for `Ends`: `WF_allVars(TierNext)`. While a loop runs, the
interpreter's `while` loop or the generated one takes its next step; nothing else is
scheduled, so nothing stronger than weak fairness of the whole step is assumed, and no
action is favoured over another. Deadlock is checked everywhere but in `loops`, the two
runs on programs and `library`, where a behaviour ends when its loop, program or call does.

| Run | Bounds | Shows |
|---|---|---|
| `threads` | 2 coroutines, 4 nested activations, 1 pending close value each, every kind of entry | the types; `ProtocolInv`: no coroutine is entered twice; `StatusTellsTruth`: every status has its reason on the stack; `DeadIsFinal`; `ImplementsCoroutines`; all when no handler yields during a close, and the last two when none revives a coroutine that the target of its `xpcall` closed |
| `table` | 3 integer keys, 1 name, one Boolean value, 2 traversals; loops with one register for the table, no store to a constant integer key and no deletion of a constant key | `HoldsWhatWasAssigned`, `LengthIsBorder`, `RegionReadsTable`, `ReadersAgree` (the host's conversion and the generated read of a constant key see what the interpreter sees), and `ImplementsMap` |
| `table_shared` | 3 integer keys, 2 values, aliasing, constant integer keys, float spellings | `Partition`: no key in two containers, and the types |
| `gc` | 2 tables (one the globals), a closure, both weak modes of keys, finalizers | `MajorFindsGarbage` (which includes that nothing reachable is finalized), `ClearsOnlyGarbage`, `KeepsKeysOfDying` |
| `gc_minor` | 2 tables, a coroutine, both kinds of collection, at allocations and in host calls | `OldIsSafe`, `MinorIsSound`, `MajorIsSound` |
| `frames` | 3 frames, 1 pending value each, 2 errors, 2 levels of failing handlers | the types, `UnwindsToProtection`, `ClosesAll`, and `ImplementsCalls` |
| `loops` | 3-bit integers, 24 instructions, 13 inputs, 3 bodies, compiled at the 2nd back edge, given up at the 2nd miss | `VisitsManual`, `ImplementsInterpreter`, `Ends`, and with the types that generated code stays within its fuel |
| `programs` | 5943 programs with bodies of at most 3 statements, 5011 binary chunks, 2 positive answers of the world | `AcceptsLegal`, `RegistersAreCoherent`, `FollowsManual`, `FollowsPuc` |
| `library` | pattern items in pairs over subjects of 4 bytes, fields of `pack` in pairs, characters at the ends of all UTF-8 lengths, tables over the keys -1 to 6 and the smallest integer, with 6 the largest, tokens in pairs with every newline, numerals of 4 bytes, functions with every kind of constant | `PatternsFollowManual`, `PackedReadsBack`, `Utf8FunctionsAgree`, `NothingLost`, `TableCallsFollowManual`, `LexerReadsBack`, `Reloads` |
| `values` | 539 functions, integers of 4 bits, every amount of fuel up to 45 | `FollowsBytecode`, `DefinitionsDominate`, `AnalysesExact` |
| `programs_captured`, `values_phis` | | section 4 |

Why the bounds are enough to be interesting. Two coroutines and the main chunk
with four activations are enough for a coroutine to resume, close or be torn
down by another that it resumed, with a handler in between; the theorems cover
the rest. Three integer keys let the array grow by migration from the hash over
more than one key and shrink over more than one nil, and let a traversal cross
from array to hash while both change and a second traversal deletes. A table as
the key and a closure as the value of a weak table, with the globals themselves
weak, give ephemerons whose key only the dying object reaches; two tables and a
coroutine let an object go through all ages while another is new and the stack of
a resumer is out of sight. Three frames hold a
protected call, a function under it and the close handler that runs when that fails,
and they reach the limit of frames at every kind of call; with a second error the one
raised by a handler differs from the one it replaces, and two levels are what it
takes to exhaust the handlers of `xpcall`. (With four frames and one error the run
passes as well; it takes longer than is convenient.) Integers from -4 to 3
have room for a sum of the body that overflows, an index that does, and limits
inside, between and beyond them; the inputs are one of each way through `_forprep`, upwards
and downwards, with errors, floats, NaN and infinity. The bodies are a straight one with a
counted guard, a branch with paths of different length (guards on both) and one with
paths of the same length; 24 instructions end in each of them at every place.
`MaxFields = 1` bounds the entries of a table, so that every chain of references goes through different objects.

A body of three statements is enough for a closure, the declaration or assignment of what it captures and a
jump across either; every body stands in `while`, `repeat` and `do`, in a numeric `for` (of two statements),
so that two iterations, and leaving in the middle, are among
the behaviours of each. In a generic `for` stand the bodies of two statements without jumps, with every kind of closing value,
and bodies with gotos only where neither the loop nor its body has anything to close (section 4 has the reason);
its variables are `x` and another, in both orders, so that the body assigns the one that may be assigned, or is refused
for assigning the one that controls the loop. A binary chunk has two groups of instructions in a row or in a block, or
one in two nested blocks: an open list and its consumer, a captured register and the code
that uses it. Integers of 4 bits let a product overflow within
an iteration or two; 45 units of fuel are more than any of the functions uses unless it
loops for ever, and the functions are the compiler's shapes (`while`, `repeat`, nested and
branching loops, `or`, two latches) with each of a few statements in each place, calls of
leaf functions with the traits that forbid inlining, and the same in floats. Numbers
scaled down in `library`: a byte of `pack` has 4 values (`Base`) so that an integer of eight bytes
fits TLC, the lexer's integers are modulo 65536 (`Words`), the largest integer in a binary
chunk is 8191 (`IntMax`) of at most 4 groups of 7 bits (`MaxGroups`), with limits of 3 nested functions
(`MaxDepth`), 4 functions (`MaxProtos`) and 12 instructions (`MaxItems`), and `unpack` refuses more than 3 results
(`MaxResults`): each limit is met and exceeded by some input.

## 4. Divergences found

Two are runs that must fail, with the line and the quoted promise in
`PROJECT.json`:

| Run | Property | What the code does |
|---|---|---|
| `programs_captured` | `RegistersAreCoherent` | an assignment to a local that is compiled before the closure over the local writes the register only; from the second round of a loop on, the closure has another value (`compiler.py:349`). `for i=1,3 do local x=i x=x*10 local f=function() return x end r=r..f()..' ' end` gives `10 2 3` |
| `values_phis` | `LoopStateIsExact` | the phis of a block are assigned one after the other, so one that reads another gets its new value (`cfg_value_ir_function_jit.py:160`, `cfg_loop_opt_jit.py:60`). `while i<n do prev=i; i=i+1 end return prev` gives 3 for n = 3 when compiled |

The models reach the following ones too; each was replayed against the code. The
passing properties state what holds beside them, with the condition that the
divergence breaks as a precondition or a constant, given in the last column.

| Where | What the code does | Excluded by |
|---|---|---|
| `threadvm.py:393` | `coroutine.resume(coroutine.create(xpcall), f, h)` calls a host function `f` before it enters the coroutine. If `f` closes that coroutine and then fails, and `h` is a Lua function, `h` becomes a frame of the closed coroutine, which then runs: `string.gsub` with a callback that closes it and raises does that | `HandlersRevive = FALSE`, a hypothesis of `DeadStaysDead` and of `ImplementsCorrect` for coroutines; with it TRUE, TLC finds `DeadIsFinal` violated |
| `threadvm.py:393` | a `pcall` entry runs before the switch of `current_thread`; a yield in it reaches the resumer, and the coroutine cannot be resumed again | `entry # "protected"` in `SuspendedIsResumable`, a part of `StatusTellsTruth` |
| `threadvm.py:447` | a quota error leaves the coroutine `running` for ever | `lost` in `ActiveIsHeld`, a part of `StatusTellsTruth` |
| `threadvm.py:500` | the close signal of a host-entry coroutine closes the one that resumed it | modelled in `CloseSelf`; no property claims otherwise |
| `ast_jit.py:643` | a store through a second register of the same table materializes it; the loop goes on with its own dictionary and its stores are lost | `Aliased` |
| `typed_ir_jit.py:262` | in an untagged loop a store to a constant integer key (`slots[70] = false`), and the deletion of a constant key of another kind (line 253), materialize and do not refresh the loop's dictionary as `ast_jit.py:650` does: what the loop stores afterwards is lost to the table | `ConstantKeys = FALSE` in `table`, and in the five theorems on contents; `table_shared` has it |
| `runtime.py:433` | a table with untagged keys only becomes an empty Python list | `~isSparse` in `ReadersAgree` |
| `typed_ir_jit.py:198` | the generated read of a constant key does not look into the untagged dictionary | the same |
| `threadvm.py:546` | a close handler that yields puts the coroutine back to `suspended` in the middle of its close; it can then be resumed while it is being closed | `HandlersYield = FALSE` |
| `gc.py:956` | an object grows old with a younger child that nobody remembers | `RemembersYoung` in `MinorIsSound` |
| `gc.py:713` | the cell of an old closure is young for the barrier, so a young value stored in it is not remembered | `RemembersYoung` in `MinorIsSound` |
| `gcvm.py:116` | a collection inside a coroutine does not see the main stack and finalizes what only its registers hold | `InSight` |
| `gc.py:682` | a minor collection does not look into an old suspended coroutine | `RemembersYoung` |
| `vm.py:195` | `return pcall(pcall, f)` in a protected function: the trampoline does not inherit the prefix of the frame it replaces, a `true` is missing from the result | `Odd` |
| `vm.py:295` | `return xpcall(error, h)` with a Lua handler `h`: the handler's frame gets the destination of the frame it replaces and not that frame's return; the caller sees nil | `Odd` |
| `threadvm.py:338` | `pcall(pcall, coroutine.yield)`: the outer call overwrites where the results of the inner one go, and they are lost | `Odd` |
| `vm.py:190` | `return pcall()` writes its result and does not return: the code after it runs | modelled in `BareCall`; for `LuaCalls` a step |
| `vm.py:297` | the handler of `xpcall` that returns nothing gives `false` alone | `Passed` has the code's result on both sides |
| `table.py:217` | `next` returns the float spelling (`2.0`) of an integer key | modelled in `Entry`; for `LuaMap` the key |
| `vm.py:550` | the `__close` handler of a frame at the limit of frames is not called: its value is popped before the call fails | `full` in `ClosesAll` |
| `structured_jit.py:765` | a guard miss in a batched loop whose only guards are untyped operands of arithmetic refers to a variable the generator left out: a Python `NameError` (status `crashed`) | `Counting` in the theorem, `MCBodies` in the run |
| `range_analysis.py:64` | the limit of a loop inside a `repeat` is taken for a constant although it changes per round; a sum is then not wrapped | `~Rejoined` |
| `loop_opt.py:221` | the update of a counting phi is left out when no other value uses it, but a return, a condition or a register put back where the fuel ends may: a Python `NameError` | `Unheld` in `Regular` |
| `value_ir.py`, `vm.py` | integer arithmetic at the fast instructions of typed code is not wrapped in the interpreter; `docs/fast-integer-0.29.md:18` makes that the program's promise | `kept` |
| `stdlib_table.py` | `table.remove(t, 0)` of an empty table and `table.remove(t, #t + 1)` do not clear the field | `TableAnswer` has the code's result |
| `lua_pattern.py` | the set `[]-a]` is read as a range from `]` | not among the patterns |
| `lexer.py` | `1..2` is read as a concatenation, bytes 28 to 31 as spaces | modelled; the properties compare the lexer with what a text was written from, and with `tonumber` |
| `vm.py:474` | a step that is NaN passes the test for zero, and no comparison ends the loop: `for i = 3, 1, 0/0` runs for ever | `LoopAssumption` |
| `vm.py:512` | an infinite initial value with the opposite infinity as step adds up to NaN, which no limit ends: `for i = math.huge, 1, -math.huge` goes on with NaN for ever | `LoopAssumption` |
| `semantics.py:156` | the analysis of gotos does not count the value that a generic `for` closes at its end, the compiler does: the first `goto` in the body closes it | the programs: a goto stands in a generic `for` only where nothing is to be closed |
| `opdispatch.py:131` | an assignment to a captured local renews its register only in frames of the same coroutine: a coroutine that assigns a local of its creator leaves the creator's register stale (`1 1 1` for `1 11 21`) | the programs: no coroutine assigns a local of its creator |
| `gc.py:766` | an old key that nothing marks does not keep its ephemeron in a minor collection | `NoOldKeys` |

Noticed while reading, in code that the models abstract: `threadvm.py:442` gives a
coroutine its fuel anew at each resume; `jitvm.py:407` lets a nested `run` refresh the
budget of the outer one; a call with open arguments and no results is translated
to a `CALLV` with destination 0 although nothing may be written there; the writer of binary chunks does
not check limits that the reader has, and a function that was loaded stripped is dumped as
if it were not; `pack` options do not convert numeric strings; `table.sort` writes its result back at the end, and a
`__newindex` that raises then loses elements; `string.format` takes `%+x`; `math.modf`
returns an integer first; a hexadecimal float that is too large raises.

## 5. What is proved

All theorems hold for every value of the constants; the only assumptions are the
named `ASSUME`s of the modules (distinctness of the model values, finiteness of the
tables, the shape of loop bodies) and what a theorem's own `ASSUME` names.

- **LuaThreadsProofs**. `TypeCorrect`: the types and `Linked` (the saved
  `current_thread` of each activation is the thread of the one below). The actions
  are classified by what they do to the stack (leave activations, replace the top,
  push one), and `Linked` is proved once per shape. `ProtocolHolds`: without yielding
  handlers `ProtocolInv`, which is inductive and of which `NoReentry` is a part
  (`NeverReentered`). `NoReentry` alone is not inductive: what keeps a coroutine from being
  entered twice is that everything on the stack is awake (`HeldIsAwake`), and for that to be
  preserved when the stack is cut, the restored thread must be the one below (`Linked`).
  In its second half `StatusTold` and `DeadStaysDead`, also without yielding handlers; the second also without
handlers of `xpcall` that revive (`HandlersRevive`), which is what the code lets happen to a coroutine that is dead.
  Neither property is inductive. `StatusInv` is (`StatusHolds`): every thread on the activation
  stack rests on an activation other than a `call_sync` (`Anchored`); the frames, the entry
  and the pending values of a coroutine fit together (`Fits`); and a `resume_thread` that is
  not closing itself executes a coroutine that has frames, is awake, and is not taken
  apart by a force-close further in (`Executed`). The last is where the hypothesis is needed: a
  handler that yields puts its coroutine to sleep under a force-close that goes on.
- **LuaCoroutineProofs**. `ImplementsCorrect`: without yielding or reviving handlers `LuaThreads`
  implements `LuaCoroutines`. The inductive invariant is `ChainInv`: `StatusInv` with two facts more.
  A coroutine whose status ever changed has an entry (`Born`), so that one that does not exist yet
  cannot be mistaken for one that sleeps; and a host function is executed by nothing but its
  own activation, which reports it (`HostFits`), so that what `CloseSelf` and a quota error leave
  behind is lost and not dead. Every action keeps some of the outermost activations and adds at most one, so
  the lemmas on links and lives (`Steps`) reduce an action to a step at the end of
  the chain; the exceptions that leave many activations (`QuotaLinks`, `CloseSelfLinks`) are the
  abstract `Escape` and `CloseSelf`. With handlers that
  yield the refinement is false: TLC, with 2 pending values and 5 activations, finds the
  coroutine that is resumed from its own close handler, in the middle of its close (section 4).
- **LuaTableProofs**. `TypeCorrect`: the types, all orders strict and total on their keys.
  `KeepsPartition`: array, hash and untagged dictionary are
  disjoint under every mix of stores. `KeepsAssignments`, `LengthCorrect`,
  `RegionCorrect`, `ReadersCorrect`: when an untagged loop has one register for its table, stores to no constant integer key and deletes no constant key
  (`Aliased` and `ConstantKeys` are FALSE: what leaves the loop with a dictionary that is not the table's), reading returns what was assigned, the
  length is a border, a loop reads through its dictionary what the table holds, and the
  readers that do not know the untagged dictionary lose nothing while there is none. The
  invariant relates storage to the history `meant`; per storage operation one lemma
  says that it changes the content at one key and nowhere else (`SetSlotStores`,
  `AppendSlotStores`, `SetHashStores`).
  `ImplementsCorrect`: under the same hypotheses the refinement of `LuaMap`, traversals included. The keys are a
  well-ordered list, and a store that adds no key takes at most one key out and leaves the
  order of the others alone, also where keys move from the hash to the array
  (`KeepsOrder`). A traversal has seen an initial part of the list; where its key is gone,
  the recorded successors and the index lead to the first key it has not seen (`Walking`).
- **LuaGCProofs**. `TypeCorrect`. `MajorSound`: a major collection that sees every stack
  finalizes nothing reachable. `MinorSound`: nor does a minor one, when every
  old-to-young edge is remembered and no ephemeron has an old key and a young value.
  `OldSafe`: a minor collection never touches old objects. The marked set is the least
  set closed under the tracer's rules, the reachable set the least closed under those
  of the language; so it suffices to show that some set closed under the latter
  avoids the dying objects. For a major collection it is the marked set, for a minor
  one the marked set with all old objects. These are facts about one step from any
  well-typed state, so the type invariant is the only invariant they need.
  `MajorFinds`: conversely, the reachable set is closed under the tracer's rules, so what
  is unreachable is not marked, and all of it is finalized, because no object is twice
  in the list `finalizable` (`NoneTwice`, an invariant).
  `KeysOfDyingKept`: the first clearing takes values only, and the second trace, which has
  the dying objects as roots, marks their keys before keys are cleared. `ClearsGarbage`:
  what is taken from a weak table cannot be reached in the state after the step, where
  more is gone than before; a trace after a clearing is compared with one before it
  through the sets closed under both.
- **LuaFramesProofs**. `TypeCorrect`: in particular neither the frames nor the depth of
  failing `xpcall` handlers exceed their limits. The types alone are not inductive: that
  a handler can be entered at a greater depth is clear only because no frame but a
  handler's has one (`GoodFrames`). `UnwindsProtected`: in a coroutine an error that
  unwinds has a protected frame ahead. Both come from one invariant; `KeptFrames` reduces
  every step that raises no error to which outermost frames it keeps, and the steps that
  raise or pass on an error (`RaisesFacts`, `UnwindInv`) are proved one by one.
  `ClosesEverything`: for every set `Odd` of odd calls no pending value is lost.
  `ImplementsCorrect`: with `Odd = {}` the machine implements `LuaCalls`. (The odd calls are
  excluded because they do return wrongly, see section 4.) Both sum over the frames. The
  sums are folds from the outermost frame, so that frames with the same outermost part
  have the same partial sums; that is shown by a least counterexample (`GoOn`, `GoOnAlike`) and
  leaves a step on the top to change the end of the sum only (`PendingPush`, `StackPush`).
  `TidyInv` says which frame may rest on which others (`Rests`, `Fits`): with it a step
  loses no value, and what a frame hands on finds on the stack what the frame below waits for.
- **LuaLoopProofs**. `InterpreterVisitsManual`: the interpreter alone, for every width
  and every input that `LoopAssumption` allows: all but a step that is NaN and infinities of opposite signs as initial value
  and step, where the code leaves the manual (section 4). The loop tests a cut limit, the manual the one that was written; the
  invariant `Ready` says that inside the loop the registers are the prepared input but for
  an index that is a whole number of steps ahead and within the limit, and the lemmas on
  `Clipped` say that the integers within either limit are the same.
  `TypeCorrect`, `TiersVisitManual` and `TiersImplementInterpreter`, for
  every width, body, threshold and amount of fuel. `TierInv` is the interpreter's
  invariant of the mapped state, with three parts on generated code. `NativeInv`: the
  charge and the longest way to the end of the iteration fit the budget (this is what
  bounds the charge at every instruction, and why starting an iteration is the only
  place to look at the fuel); the index is `done` steps from where it began, so the
  diamond's count by division is that of the counter; on uniform bodies the offset
  plus the rest is the cost. `SeenInv`: literals found are still the input of the loop, hence a sum
  called free of overflow does not wrap. Each step of generated code is shown to be the
  interpreter's step or a stutter of the mapped state. The last theorem assumes
  `~Rejoined` and `Counting`, which exclude the two divergences on loops and nothing else.
  `PathAssumption` states what the recursion on path lengths computes, because the
  provers cannot unfold it; TLC checks it for the bodies of the runs.
  `StepsUseFuel` is the variant behind `Ends`: `Remaining` starts at `4 * Fuel + 1` and every
  step lowers it. An instruction uses fuel; entering generated code, being refused at the
  entry, and leaving it use none, and `Phase` orders them (entry, inside, back at the
  bottom of the loop, elsewhere), so no exchange between tiers goes round. It needs neither `~Rejoined` nor
  `Counting`. That a next step is taken while the loop runs is the liveness part and stays
  with TLC.
- **LuaTableLibProofs**. `TableKeepsEverything` and `TableFollowsManual`, for every width of the integers, set of integer keys,
  contents, length and position. A call accesses only keys of that set (`Keys`); so calls of `insert` that would move an
  element above the largest integer are not among them, and `move` and `sort` refuse what they refuse in the code. Neither property says anything about how far a call is; `TableInv`
  does. Until a call ends, the tables differ from what they were exactly by the rounds made so far
  (`Course`), which for `insert`, `remove` and `move` are a stretch of keys that hold what was
  d keys further on (`Shifted`). So an element is overwritten only when it was copied already, and that
  is where the order of the copying counts: `MoveLeavesRest` shows that `move` goes through
  overlapping ranges in the direction that reads every element before it is written over. For
  `sort`, a permutation keeps the number of occurrences of each value (by a bijection between
  them), and a table in ascending order is in order for any strict weak order.
- **LuaUtf8Proofs**. `DecodesEncoded`: whatever code `_encode` wrote, wherever it stands in a byte string,
  `_decode` answers it, or refuses it when it should. `DecodesOnlyEncoded`: what `_decode` accepts is the
  encoding, byte for byte, of what it answers, so nothing overlong or cut passes.
  `CharactersApart` and `MovesByCharacters`: characters do not overlap, and the steps of `offset` and `codes`,
  which look at continuation bytes only, go from character to character. All four are for every code
  below 2^31 and every string. The loop over the continuation bytes has at most five rounds and is
  written out (`Shifted`); after each, the value is the code without its remaining digits of six bits (`Read`), and,
  backwards, each value is the next one without its last digit (`Off`, `ReadsBack`). The lengths partition the codes
  (`SizeOf`) and the first bytes (`LengthOf`).

## 6. What is only model-checked, what is not modelled

Every property of the runs on coroutines, tables, the collector and the frame machine is a
theorem, as is every safety property of the run on loops. Model-checked only:

- `Ends`: liveness under fairness (its variant is proved);
- `AcceptsLegal`, `RegistersAreCoherent`, `FollowsManual`, `FollowsPuc`: the compiler, the
  translator and the meaning of a program are recursive over trees and code;
- `PatternsFollowManual`, `PackedReadsBack`, `Utf8FunctionsAgree`, `LexerReadsBack`, `Reloads`:
  their functions are recursive over strings and bytes. (Of the UTF-8 functions each character, and each step from one to
  the next, is proved; that they go over a whole string is induction.)
- `FollowsBytecode`, `DefinitionsDominate`, `AnalysesExact`: so are the analyses of graphs.

Out of reach of the installed provers, and
left to TLC wherever it comes up: liveness under fairness and `ENABLED`; induction
over data; modules with `RECURSIVE` operators. Where a fold over a list could be avoided
(orders as relations in `LuaTable`) or compared at two lists that agree from below (`LuaFrames`),
the proofs go through without induction.

Not modelled:

- the parser, the attributes of types and their inference (`parser.py`, `typed_parser.py`, `typesys.py`):
  parsing is written out in grammar order, and types only add guards;
- strings, concatenation and arithmetic metamethods as operands of instructions: the machines here have small
  numbers, and an operand of another kind is an error;
- traces (`trace_jit.py`), direct calls with virtual frames, the older generators behind the
  graph compilers (`function_jit.py`, `typed_ir_function_jit.py`), generated coroutines
  (`coroutine_jit.py`): they have the same contract as what is modelled, `LuaValueJIT` and `LuaLoopTiers`,
  with code of their own;
- the loop generator `_compile_structured_natural_loop` of `cfg_value_ir_function_jit.py:254` is
  never reached: the one of `cfg_loop_opt_jit.py` precedes it; likewise the compiler
  never writes `JMPIFNIL`, which is modelled because the analyses accept it;
- inline caches, hooks, the wording of messages, the host libraries, the debug library: see the notes in `PROJECT.json`.

Code generators are modelled by what the generated code does to shared
objects, never by the text they produce.

## 7. Plan

In this order; the most important behaviour first.

1. Done, see above: `LuaThreads`; `LuaTable` with `LuaMap`; `LuaGC`; `LuaFrames` with `LuaCalls`;
   `LuaForLoop` with `LuaLoopTiers`; the compiler and the machine against the manual; the translator
   against PUC-Lua's machine; binary chunks; the pure libraries and the lexer; the graphs of values.
2. Done: the proofs of section 5.
3. `LuaFunctionTiers` (`function_jit.py`, `typed_ir_function_jit.py`, `virtual_frame.py`,
   `trace_jit.py`): direct calls, virtual frames and side exits against `LuaFrames`, and one
   budget over coroutines and nested runs. Most of the code not covered yet is here.
4. `LuaCaches` (`inline_cache.py`, `value` and table versions): a cached answer is the
   answer of the table now. Composes with the stores of `LuaTable`.
5. `LuaHooks` (`threadvm.py`, `stdlib_debug.py`): hooks do not nest, and see every event.
6. Refinement: a collector that removes garbage atomically, implemented by the sound part
   of `LuaGC`. (That of coroutines is done.)

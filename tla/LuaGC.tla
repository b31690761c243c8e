-------------------------------- MODULE LuaGC --------------------------------
(***************************************************************************)
(* gc.LuaGC and the safe points of gcvm: the generational collector that    *)
(* decides what a Lua program can observe, that is which entries of weak    *)
(* tables disappear and which tables are finalized.                         *)
(*                                                                          *)
(* The program is a stack of actors: the main chunk, coroutines resumed     *)
(* from it, and the finalizer that a collection is running.  Each has a set *)
(* of live registers.  A collection happens at a safe point of the actor on *)
(* top, and is not one step: finalizers run inside it.                      *)
(***************************************************************************)
EXTENDS Naturals, Sequences, FiniteSets

CONSTANTS
  Tables, Closures, Threads,  \* the objects a program may allocate
  Globals,      \* one of the tables: the globals, always there
  Main,         \* the main chunk
  Fin,          \* the frame of a finalizer
  Prim,         \* every value that is not collectable
  Modes,        \* the values of __mode that metatables have, or "none"
  Finalizers,   \* the choices for a metatable: does it have __gc?
  Generational, \* may a collection be minor?
  HostSites,    \* do collections happen inside host calls, or only when
                \* an allocation polls?
  Keys,         \* bound: the values the program uses as keys
  MaxFields     \* bound: entries of a table

Objects == Tables \cup Closures \cup Threads
Refs == Objects \cup {Prim}
Actors == Threads \cup {Main, Fin}

(* The upvalue of a closure.  A cell is registered like an object.           *)
Cell(c) == <<"cell", c>>
Cells == {Cell(c) : c \in Closures}
Things == Objects \cup Cells

ASSUME GCAssumption ==
  /\ Globals \in Tables /\ Prim \notin Objects
  /\ Main \notin Objects /\ Fin \notin Objects /\ Main # Fin
  /\ Tables \cap (Closures \cup Threads) = {} /\ Closures \cap Threads = {}
  /\ Objects \cap Cells = {} /\ IsFiniteSet(Tables)
  /\ Modes \subseteq {"none", "k", "v", "kv"}
  /\ Finalizers \subseteq BOOLEAN /\ Generational \in BOOLEAN /\ HostSites \in BOOLEAN
  /\ Keys \subseteq Refs /\ MaxFields \in Nat

VARIABLES
  fields,      \* the entries of each table
  meta,        \* what its metatable says: [mode, gc]
  upval,       \* the value in the cell of each closure
  regs,        \* the live registers of each actor
  calls,       \* the actors, the running one last
  age,         \* _gc_age; "free" before the allocation
  remembered,  \* LuaGC._remembered
  finalizable, \* LuaGC._finalizable
  dying,       \* the objects this collection has still to finalize
  cycle,       \* the collection in progress: [minor, host], or NoCycle
  baseline     \* _last_major_bytes is not zero

heap == <<fields, meta, upval>>
program == <<regs, calls>>
vars == <<heap, program, age, remembered, finalizable, dying, cycle, baseline>>

Ages == {"free", "new", "survival", "old"}
NoCycle == [minor |-> FALSE, host |-> FALSE, on |-> FALSE]
Cycles == [minor: BOOLEAN, host: BOOLEAN, on: BOOLEAN]

Running == calls[Len(calls)]
Held == regs[Running] \cup {Globals}
Rest == ~cycle.on
Young(x) == x \in Things /\ age[x] # "old"

WeakKeys(t) == meta[t].mode \in {"k", "kv"}
WeakValues(t) == meta[t].mode \in {"v", "kv"}
RangeOf(s) == {s[i] : i \in DOMAIN s}

-----------------------------------------------------------------------------
(* Tracing.                                                                 *)

(* What a marked object marks in turn, the ephemerons left aside, when the    *)
(* tables hold f.  A cell is not marked by its closure: its value is.         *)
Children(f, o) ==
  IF o \in Tables
  THEN CASE meta[o].mode = "none" -> DOMAIN f[o] \cup {f[o][k] : k \in DOMAIN f[o]}
         [] meta[o].mode = "v" -> DOMAIN f[o]
         [] meta[o].mode = "k" -> {f[o][k] : k \in DOMAIN f[o] \cap {Prim}}
         [] meta[o].mode = "kv" -> {}
  ELSE IF o \in Closures THEN {upval[o]}
  ELSE IF o \in Threads THEN regs[o]
  ELSE {upval[c] : c \in {c \in Closures : Cell(c) = o}}

(* Mutant: the value of a weak-key entry is marked whatever its key.          *)
TracedWithValues(f, roots, opened) ==
  LET Closed(S) ==
        /\ roots \subseteq S
        /\ \A o \in S \cap opened :
             /\ Children(f, o) \cap Objects \subseteq S
             /\ o \in Tables /\ meta[o].mode = "k" => \A k \in DOMAIN f[o] : f[o][k] \in S \cup {Prim}
  IN  {o \in Things : \A S \in SUBSET Things : Closed(S) => o \in S}

(* The least set that holds the roots and what the objects in opened lead to;  *)
(* the value of a weak-key entry belongs to it once the key does.             *)
Traced(f, roots, opened) ==
  LET Closed(S) ==
        /\ roots \subseteq S
        /\ \A o \in S \cap opened :
             /\ Children(f, o) \cap Objects \subseteq S
             /\ o \in Tables /\ meta[o].mode = "k" =>
                  \A k \in DOMAIN f[o] \cap S : f[o][k] \in S \cup {Prim}
  IN  {o \in Things : \A S \in SUBSET Things : Closed(S) => o \in S}

(* Mutant: the frames of the resumer are not roots.                          *)
RootsOfOneFrame(host) ==
  regs[calls[Len(calls)]] \cup {Globals} \cup ({calls[Len(calls)]} \cap Threads)

(* The roots of a collection: the frames of the actor at the safe point.  An  *)
(* allocation also sees the frames that _active_frames was left at, those of  *)
(* the actor that resumed it; a host call has replaced them.                  *)
Roots(host) ==
  LET d == Len(calls) IN
  regs[calls[d]] \cup {Globals} \cup ({calls[d]} \cap Threads)
    \cup (IF ~host /\ d > 1 THEN regs[calls[d - 1]] ELSE {})

(* Mutant: remembered objects are roots that are not looked into.            *)
OpenedWithoutRemembered(minor) ==
  IF minor THEN {o \in Things : age[o] # "old"} \cup ({Running} \cap Threads) ELSE Things

(* A minor collection stops at an old object, unless it is the running thread *)
(* or a remembered one.                                                      *)
Opened(minor) ==
  IF minor
  THEN {o \in Things : age[o] # "old"} \cup ({Running} \cap Threads) \cup remembered
  ELSE Things

Trace(f, roots, minor) ==
  Traced(f, roots \cup (IF minor THEN remembered ELSE {}), Opened(minor))

Entries(f) == UNION {{<<t, k>> : k \in DOMAIN f[t]} : t \in Tables}

(* The tables without the doomed entries of the weak tables in seen.          *)
Cleared(f, seen, minor, doomed) ==
  [t \in Tables |->
     IF t \in seen \cap Opened(minor) /\ meta[t].mode # "none"
     THEN [k \in {k \in DOMAIN f[t] : <<t, k>> \notin doomed} |-> f[t][k]]
     ELSE f[t]]

(* Mutant: values that are not collectable count as dead.                    *)
CandidateAnything(o, minor) == ~(minor /\ age[o] = "old")

(* Mutant: a minor collection judges old objects too.                        *)
CandidateOfAnyAge(o, minor) == o \in Objects

(* Is this object one that the collection may find dead?                     *)
Candidate(o, minor) == o \in Objects /\ ~(minor /\ age[o] = "old")

-----------------------------------------------------------------------------
(* The collection.                                                          *)

(* x was marked for finalization before y; finalizers run in reverse order.   *)
Before(x, y) ==
  \E p, q \in DOMAIN finalizable : p < q /\ finalizable[p] = x /\ finalizable[q] = y

(* Mutant: keys that only a finalizer can reach go as well.                   *)
SecondDoomedKeys(f, marked, resurrected, minor) ==
  {e \in Entries(f) :
     LET t == e[1]  k == e[2]  v == f[t][k]
     IN  \/ WeakKeys(t) /\ Candidate(k, minor) /\ k \notin marked
         \/ WeakValues(t) /\ Candidate(v, minor) /\ v \notin resurrected \cap marked}

(* The entries of weak tables that go before the objects to finalize are      *)
(* chosen, and after these and what they lead to have been marked.            *)
FirstDoomed(f, marked, minor) ==
  {e \in Entries(f) :
     LET t == e[1]  v == f[t][e[2]]
     IN  WeakValues(t) /\ Candidate(v, minor) /\ v \notin marked}

SecondDoomed(f, marked, resurrected, minor) ==
  {e \in Entries(f) :
     LET t == e[1]  k == e[2]  v == f[t][k]
     IN  \/ WeakKeys(t) /\ Candidate(k, minor) /\ k \notin resurrected
         \/ WeakValues(t) /\ Candidate(v, minor) /\ v \notin resurrected \cap marked}

(* _collect_cycle up to the finalizers.                                      *)
BeginCollect(minor, host) ==
  /\ Rest /\ (minor => Generational /\ baseline) /\ (host => HostSites)
  /\ LET roots == Roots(host)
         marked == Trace(fields, roots, minor)
         first == Cleared(fields, marked, minor, FirstDoomed(fields, marked, minor))
         Dead(t) == t \notin marked /\ Candidate(t, minor)
         dead == {t \in RangeOf(finalizable) : Dead(t)}
         resurrected == Trace(first, roots \cup dead, minor)
         second == Cleared(first, resurrected, minor,
                           SecondDoomed(first, marked, resurrected, minor))
         kept == RangeOf(finalizable) \ dead
     IN  /\ fields' = second
         /\ \E d \in [1 .. Cardinality(dead) -> dead] :
              /\ \A i, j \in DOMAIN d : i < j => Before(d[j], d[i])
              /\ dying' = d
         /\ \E r \in [1 .. Cardinality(kept) -> kept] :
              /\ \A i, j \in DOMAIN r : i < j => Before(r[i], r[j])
              /\ finalizable' = r
  /\ cycle' = [minor |-> minor, host |-> host, on |-> TRUE]
  /\ UNCHANGED <<meta, upval, program, age, remembered, baseline>>

(* _finalize: the metatable has __gc still, or nothing happens.              *)
Finalize ==
  /\ cycle.on /\ dying # <<>> /\ Running # Fin
  /\ dying' = Tail(dying)
  /\ IF meta[Head(dying)].gc
     THEN calls' = Append(calls, Fin) /\ regs' = [regs EXCEPT ![Fin] = {Head(dying)}]
     ELSE UNCHANGED program
  /\ UNCHANGED <<heap, age, remembered, finalizable, cycle, baseline>>

FinalizerEnds ==
  /\ Running = Fin
  /\ calls' = SubSeq(calls, 1, Len(calls) - 1) /\ regs' = [regs EXCEPT ![Fin] = {}]
  /\ UNCHANGED <<heap, age, remembered, finalizable, dying, cycle, baseline>>

Older(a) == CASE a = "new" -> "survival" [] OTHER -> "old"

(* The rest of _collect_cycle: what is reachable now grows older.            *)
EndCollect ==
  /\ cycle.on /\ dying = <<>> /\ Running # Fin
  /\ LET marked == Trace(fields, Roots(cycle.host), cycle.minor)
     IN  age' = [o \in Things |->
                   IF o \notin marked THEN age[o]
                   ELSE IF cycle.minor THEN Older(age[o]) ELSE "old"]
  /\ remembered' = IF cycle.minor THEN remembered ELSE {}
  /\ baseline' = (baseline \/ ~cycle.minor)
  /\ cycle' = NoCycle
  /\ UNCHANGED <<heap, program, finalizable, dying>>

-----------------------------------------------------------------------------
(* The program: any actor, the finalizer included.  The table of globals is   *)
(* reached by its name, never through a register.                            *)

(* write_barrier, table_write_barrier.                                       *)
Barrier(parent, values) ==
  remembered' = IF age[parent] = "old" /\ \E v \in values : Young(v)
                THEN remembered \cup {parent} ELSE remembered

Alloc(o) ==
  /\ age[o] = "free"
  /\ age' = [x \in Things |->
              IF x = o \/ (o \in Closures /\ x = Cell(o)) THEN "new" ELSE age[x]]
  /\ regs' = [regs EXCEPT ![Running] = @ \cup {o}]
  /\ UNCHANGED <<heap, calls, remembered, finalizable, dying, cycle, baseline>>

(* A register takes a key or a value of a table, or the value of a cell.      *)
Load(o) ==
  /\ \/ \E t \in Held \cap Tables : \E k \in DOMAIN fields[t] : o \in {k, fields[t][k]}
     \/ \E c \in regs[Running] \cap Closures : o = upval[c]
  /\ o # Globals
  /\ regs' = [regs EXCEPT ![Running] = @ \cup {o}]
  /\ UNCHANGED <<heap, calls, age, remembered, finalizable, dying, cycle, baseline>>

(* A register is no longer live.                                             *)
Drop(o) ==
  /\ o \in regs[Running]
  /\ regs' = [regs EXCEPT ![Running] = @ \ {o}]
  /\ UNCHANGED <<heap, calls, age, remembered, finalizable, dying, cycle, baseline>>

Store(t, k, v) ==
  /\ t \in Held /\ k \in Keys /\ {k, v} \subseteq regs[Running] \cup {Prim}
  /\ k \in DOMAIN fields[t] \/ Cardinality(DOMAIN fields[t]) < MaxFields
  /\ fields' = [fields EXCEPT ![t] =
                  [x \in DOMAIN @ \cup {k} |-> IF x = k THEN v ELSE @[x]]]
  /\ Barrier(t, {k, v})
  /\ UNCHANGED <<meta, upval, program, age, finalizable, dying, cycle, baseline>>

StoreUpval(c, v) ==
  /\ c \in regs[Running] /\ v \in regs[Running] \cup {Prim}
  /\ upval' = [upval EXCEPT ![c] = v]
  /\ Barrier(Cell(c), {v})
  /\ UNCHANGED <<fields, meta, program, age, finalizable, dying, cycle, baseline>>

(* setmetatable, with mark_finalizable.                                      *)
SetMetatable(t, mode, gc) ==
  /\ t \in Held
  /\ meta' = [meta EXCEPT ![t] = [mode |-> mode, gc |-> gc]]
  /\ finalizable' = IF gc /\ t \notin RangeOf(finalizable)
                    THEN Append(finalizable, t) ELSE finalizable
  /\ UNCHANGED <<fields, upval, program, age, remembered, dying, cycle, baseline>>

(* resume and yield pass one value.                                          *)
Resume(t, v) ==
  /\ Rest /\ t \in regs[Running] /\ t \notin RangeOf(calls) /\ v \in regs[Running] \cup {Prim}
  /\ calls' = Append(calls, t)
  /\ regs' = [regs EXCEPT ![t] = @ \cup ({v} \cap Objects)]
  /\ UNCHANGED <<heap, age, remembered, finalizable, dying, cycle, baseline>>

Yield(v) ==
  /\ Rest /\ Running \in Threads /\ v \in regs[Running] \cup {Prim}
  /\ calls' = SubSeq(calls, 1, Len(calls) - 1)
  /\ regs' = [regs EXCEPT ![calls[Len(calls) - 1]] = @ \cup ({v} \cap Objects)]
  /\ UNCHANGED <<heap, age, remembered, finalizable, dying, cycle, baseline>>

Init ==
  /\ fields = [t \in Tables |-> [k \in {} |-> Prim]]
  /\ meta = [t \in Tables |-> [mode |-> "none", gc |-> FALSE]]
  /\ upval = [c \in Closures |-> Prim]
  /\ regs = [a \in Actors |-> {}] /\ calls = <<Main>>
  /\ age = [x \in Things |-> IF x = Globals THEN "new" ELSE "free"]
  /\ remembered = {} /\ finalizable = <<>> /\ dying = <<>>
  /\ cycle = NoCycle /\ baseline = FALSE

Next ==
  \/ \E minor \in BOOLEAN, host \in BOOLEAN : BeginCollect(minor, host)
  \/ Finalize \/ FinalizerEnds \/ EndCollect
  \/ \E o \in Objects : Alloc(o) \/ Load(o) \/ Drop(o)
  \/ \E t \in Tables, k \in Refs, v \in Refs : Store(t, k, v)
  \/ \E c \in Closures, v \in Refs : StoreUpval(c, v)
  \/ \E t \in Tables, mode \in Modes, gc \in Finalizers : SetMetatable(t, mode, gc)
  \/ \E t \in Threads, v \in Refs : Resume(t, v)
  \/ \E v \in Refs : Yield(v)

Spec == Init /\ [][Next]_vars

-----------------------------------------------------------------------------
(* Properties.                                                              *)

TypeOK ==
  /\ fields = [t \in Tables |-> fields[t]]
  /\ \A t \in Tables : DOMAIN fields[t] \subseteq Refs /\ RangeOf(fields[t]) \subseteq Refs
  /\ meta \in [Tables -> [mode: Modes \cup {"none"}, gc: BOOLEAN]]
  /\ upval \in [Closures -> Refs]
  /\ regs \in [Actors -> SUBSET Objects]
  /\ calls \in Seq(Actors) /\ calls # <<>> /\ calls[1] = Main
  /\ age \in [Things -> Ages] /\ remembered \subseteq Things
  /\ finalizable \in Seq(Tables) /\ dying \in Seq(Tables)
  /\ cycle \in Cycles /\ baseline \in BOOLEAN

(* What the program can reach, by the rules of Lua: from every actor on the   *)
(* stack and the globals, through all that is not held weakly; the value of a *)
(* weak-key entry once its key is reached.                                   *)
ProgramRoots ==
  (UNION {regs[a] : a \in RangeOf(calls)}) \cup {Globals} \cup (RangeOf(calls) \cap Threads)

ClosedUnderReach(S) ==
  /\ ProgramRoots \subseteq S
  /\ \A t \in S \cap Tables : \A k \in DOMAIN fields[t] :
       /\ ~WeakKeys(t) => k \in S \cup {Prim}
       /\ ~WeakValues(t) /\ k \in S \cup {Prim} => fields[t][k] \in S \cup {Prim}
  /\ \A c \in S \cap Closures : upval[c] \in S \cup {Prim}
  /\ \A t \in S \cap Threads : regs[t] \subseteq S

Reach == {o \in Objects : \A S \in SUBSET Objects : ClosedUnderReach(S) => o \in S}

Begins == Rest /\ cycle'.on

(* The stacks a collection sees: its actor's, and at an allocation the one     *)
(* below.                                                                   *)
InSight == Len(calls) = 1 \/ (~cycle'.host /\ Len(calls) = 2)

(* A major collection that sees every stack finalizes only garbage.           *)
MajorIsSound ==
  [][Begins /\ ~cycle'.minor /\ InSight => RangeOf(dying') \cap Reach = {}]_vars

(* It removes an entry from a weak table only if the program cannot reach the *)
(* key or value that is held weakly, once the collector has done its work: a  *)
(* key may be reached through nothing but an entry of a weak-value table that *)
(* goes, and goes with it.                                                   *)
ClearsOnlyGarbage ==
  [][Begins /\ ~cycle'.minor /\ InSight =>
       \A t \in Tables : \A k \in DOMAIN fields[t] \ DOMAIN fields'[t] :
        \/ WeakKeys(t) /\ k \in Objects \ Reach'
        \/ WeakValues(t) /\ fields[t][k] \in Objects \ Reach']_vars

(* A major collection finds everything, whatever stacks it sees: each marked   *)
(* table the program cannot reach is finalized; and when it sees every stack,  *)
(* no weak table the program can reach leads to an object it cannot reach.     *)
MajorFindsGarbage ==
  [][Begins /\ ~cycle'.minor =>
       /\ RangeOf(finalizable) \ Reach \subseteq RangeOf(dying')
       /\ InSight => \A t \in Reach \cap Tables : \A k \in DOMAIN fields'[t] :
            WeakValues(t) => fields'[t][k] \in Reach \cup {Prim}]_vars

(* A finalizer still finds, in the weak-key tables, the entries of the        *)
(* objects that are finalized with it.                                       *)
KeepsKeysOfDying ==
  [][Begins => \A t \in Tables : \A k \in DOMAIN fields[t] \cap RangeOf(dying') :
        ~WeakValues(t) => k \in DOMAIN fields'[t]]_vars

(* Every old object that leads to a younger one is remembered: what lets a    *)
(* minor collection pass over the others.                                    *)
Leads(o) ==
  Children(fields, o) \cup
    (IF o \in Tables /\ meta[o].mode = "k" THEN RangeOf(fields[o]) ELSE {})

RemembersYoung ==
  Rest => \A o \in Objects :
    age[o] = "old" /\ (\E x \in Leads(o) : Young(x)) => o \in remembered \cup {Running}

(* No ephemeron that could keep a younger value has an old key.               *)
NoOldKeys ==
  \A t \in Tables : \A k \in DOMAIN fields[t] :
    meta[t].mode = "k" /\ k \in Objects /\ age[k] = "old" => ~Young(fields[t][k])

(* Then a minor collection that sees every stack finalizes only garbage.      *)
MinorIsSound ==
  [][Begins /\ cycle'.minor /\ InSight /\ RemembersYoung /\ NoOldKeys =>
       RangeOf(dying') \cap Reach = {}]_vars

(* A minor collection leaves old objects alone: none is finalized, and none   *)
(* disappears from a weak table.                                             *)
OldIsSafe ==
  [][Begins /\ cycle'.minor =>
       /\ \A t \in RangeOf(dying') : age[t] # "old"
       /\ \A t \in Tables : \A k \in DOMAIN fields[t] \ DOMAIN fields'[t] :
            \/ WeakKeys(t) /\ Young(k)
            \/ WeakValues(t) /\ Young(fields[t][k])]_vars

=============================================================================

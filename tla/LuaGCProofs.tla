----------------------------- MODULE LuaGCProofs -----------------------------
(***************************************************************************)
(* Theorems about LuaGC, for every set of objects.                          *)
(*                                                                          *)
(* The marked set is the least set closed under the rules of the tracer,    *)
(* the reachable set the least one closed under those of Lua.  So a         *)
(* collection is sound as soon as some set closed under the latter is, on   *)
(* the objects that may be finalized, within the marked set: for a major    *)
(* collection the marked set itself, for a minor one the marked set with    *)
(* all old objects.                                                         *)
(***************************************************************************)
EXTENDS LuaGC, TLAPS, FiniteSetTheorems

-----------------------------------------------------------------------------
(* The marked set is closed.                                                 *)
LEMMA TracedIsClosed ==
  ASSUME NEW f, NEW roots, NEW opened,
         \A t \in Tables : \A k \in DOMAIN f[t] : f[t][k] \in Refs,
         NEW M, M = Traced(f, roots, opened)
  PROVE  /\ M \subseteq Things
         /\ roots \cap Things \subseteq M
         /\ \A o \in M \cap opened :
              /\ Children(f, o) \cap Objects \subseteq M
              /\ o \in Tables /\ meta[o].mode = "k" =>
                   \A k \in DOMAIN f[o] \cap M : f[o][k] \in M \cup {Prim}
<1> DEFINE Closed(S) ==
      /\ roots \subseteq S
      /\ \A o \in S \cap opened :
           /\ Children(f, o) \cap Objects \subseteq S
           /\ o \in Tables /\ meta[o].mode = "k" =>
                \A k \in DOMAIN f[o] \cap S : f[o][k] \in S \cup {Prim}
<1>1. M = {o \in Things : \A S \in SUBSET Things : Closed(S) => o \in S}
  BY DEF Traced
<1>2. M \subseteq Things
  BY <1>1
<1>3. ASSUME NEW o \in roots \cap Things PROVE o \in M
  BY <1>1
<1>4. ASSUME NEW o \in M \cap opened, NEW x \in Children(f, o) \cap Objects
      PROVE  x \in M
  <2>1. x \in Things
    BY DEF Things
  <2>2. ASSUME NEW S \in SUBSET Things, Closed(S) PROVE x \in S
    <3>1. o \in S
      BY <1>1, <2>2
    <3> QED BY <2>2, <3>1
  <2> QED BY <1>1, <2>1, <2>2
<1>5. ASSUME NEW o \in M \cap opened, o \in Tables, meta[o].mode = "k",
             NEW k \in DOMAIN f[o] \cap M
      PROVE  f[o][k] \in M \cup {Prim}
  <2> SUFFICES ASSUME f[o][k] # Prim PROVE f[o][k] \in M
    OBVIOUS
  <2>1. f[o][k] \in Things
    BY <1>5 DEF Refs, Things
  <2>2. ASSUME NEW S \in SUBSET Things, Closed(S) PROVE f[o][k] \in S
    <3>1. o \in S /\ k \in S
      BY <1>1, <2>2
    <3> QED BY <1>5, <2>2, <3>1
  <2> QED BY <1>1, <2>1, <2>2
<1> QED BY <1>2, <1>3, <1>4, <1>5

(* What the program reaches lies in every set closed under the rules of Lua.  *)
LEMMA ReachIsLeast ==
  ASSUME NEW S \in SUBSET Objects, ClosedUnderReach(S)
  PROVE  Reach \subseteq S
  BY DEF Reach

(* The part of the type invariant that these arguments need.                 *)
LEMMA HeapTypes ==
  ASSUME TypeOK
  PROVE  /\ \A t \in Tables : \A k \in DOMAIN fields[t] : k \in Refs /\ fields[t][k] \in Refs
         /\ \A t \in Tables : meta[t].mode \in {"none", "k", "v", "kv"}
         /\ \A c \in Closures : upval[c] \in Refs
         /\ \A a \in Actors : regs[a] \subseteq Objects
<1>1. ASSUME TypeOK, NEW t \in Tables, NEW k \in DOMAIN fields[t]
      PROVE  k \in Refs /\ fields[t][k] \in Refs
  <2>1. DOMAIN fields[t] \subseteq Refs /\ RangeOf(fields[t]) \subseteq Refs
    BY <1>1 DEF TypeOK
  <2>2. fields[t][k] \in RangeOf(fields[t])
    BY DEF RangeOf
  <2> QED BY <2>1, <2>2
<1>2. ASSUME TypeOK, NEW t \in Tables PROVE meta[t].mode \in {"none", "k", "v", "kv"}
  <2>1. meta[t].mode \in Modes \cup {"none"}
    BY <1>2 DEF TypeOK
  <2> QED BY <2>1, GCAssumption
<1>3. TypeOK => /\ \A c \in Closures : upval[c] \in Refs
                /\ \A a \in Actors : regs[a] \subseteq Objects
  BY DEF TypeOK
<1> QED BY <1>1, <1>2, <1>3

(* The roots of a collection that sees every stack are those of the program.  *)
LEMMA RootsAreAll ==
  ASSUME TypeOK, NEW host \in BOOLEAN, Len(calls) = 1 \/ (~host /\ Len(calls) = 2)
  PROVE  Roots(host) = ProgramRoots /\ ProgramRoots \subseteq Objects
<1>1. calls \in Seq(Actors) /\ Len(calls) \in Nat /\ calls[1] = Main /\ Main \notin Threads
  BY GCAssumption DEF TypeOK, Objects
<1>2. ProgramRoots \subseteq Objects
  <2>1. RangeOf(calls) \subseteq Actors
    BY <1>1 DEF RangeOf
  <2>2. \A a \in RangeOf(calls) : regs[a] \subseteq Objects
    BY <2>1, HeapTypes
  <2>3. UNION {regs[a] : a \in RangeOf(calls)} \subseteq Objects
    BY <2>2
  <2>4. {Globals} \subseteq Objects /\ Threads \subseteq Objects
    BY GCAssumption DEF Objects
  <2> QED BY <2>3, <2>4 DEF ProgramRoots
<1>3. CASE Len(calls) = 1
  <2>1. DOMAIN calls = 1 .. 1 /\ 1 .. 1 = {1}
    BY <1>1, <1>3
  <2>2. RangeOf(calls) = {calls[1]}
    BY <2>1 DEF RangeOf
  <2>3. Roots(host) = regs[Main] \cup {Globals} \cup {}
    BY <1>1, <1>3 DEF Roots
  <2>4. ProgramRoots = (UNION {regs[a] : a \in {Main}}) \cup {Globals} \cup ({Main} \cap Threads)
    BY <1>1, <2>2 DEF ProgramRoots
  <2> QED BY <1>1, <1>2, <2>3, <2>4
<1>4. CASE ~host /\ Len(calls) = 2
  <2>1. DOMAIN calls = 1 .. 2
    BY <1>1, <1>4
  <2>2. RangeOf(calls) = {calls[1], calls[2]}
    <3>1. 1 .. 2 = {1, 2}
      OBVIOUS
    <3> QED BY <2>1, <3>1 DEF RangeOf
  <2>3. Roots(host) = regs[calls[2]] \cup {Globals} \cup ({calls[2]} \cap Threads) \cup regs[calls[1]]
    BY <1>4 DEF Roots
  <2>4. UNION {regs[a] : a \in {calls[1], calls[2]}} = regs[calls[1]] \cup regs[calls[2]]
    OBVIOUS
  <2>5. {calls[1], calls[2]} \cap Threads = {calls[2]} \cap Threads
    BY <1>1
  <2> QED BY <1>2, <2>2, <2>3, <2>4, <2>5 DEF ProgramRoots
<1> QED BY <1>1, <1>3, <1>4

(* Only BeginCollect starts a collection.                                    *)
LEMMA OnlyBeginBegins ==
  ASSUME Begins, [Next]_vars
  PROVE  \E minor \in BOOLEAN, host \in BOOLEAN :
           /\ BeginCollect(minor, host)
           /\ cycle' = [minor |-> minor, host |-> host, on |-> TRUE]
<1>1. cycle' # cycle /\ cycle' # NoCycle
  BY DEF Begins, Rest, NoCycle
<1>2. ~(Finalize \/ FinalizerEnds \/ EndCollect)
  BY <1>1 DEF Finalize, FinalizerEnds, EndCollect
<1>3. \A o \in Objects : ~(Alloc(o) \/ Load(o) \/ Drop(o))
  BY <1>1 DEF Alloc, Load, Drop
<1>4. \A t \in Tables, k \in Refs, v \in Refs : ~Store(t, k, v)
  BY <1>1 DEF Store
<1>5. \A c \in Closures, v \in Refs : ~StoreUpval(c, v)
  BY <1>1 DEF StoreUpval
<1>6. \A t \in Tables, mode \in Modes, gc \in Finalizers : ~SetMetatable(t, mode, gc)
  BY <1>1 DEF SetMetatable
<1>7. \A t \in Threads, v \in Refs : ~Resume(t, v)
  BY <1>1 DEF Resume
<1>8. \A v \in Refs : ~Yield(v)
  BY <1>1 DEF Yield
<1>9. vars' # vars
  BY <1>1 DEF vars
<1> QED BY <1>2, <1>3, <1>4, <1>5, <1>6, <1>7, <1>8, <1>9 DEF Next, BeginCollect

(* A collection finalizes objects that may be found dead and were not marked. *)
LEMMA DyingUnmarked ==
  ASSUME NEW minor \in BOOLEAN, NEW host \in BOOLEAN, BeginCollect(minor, host),
         NEW t \in RangeOf(dying')
  PROVE  t \notin Trace(fields, Roots(host), minor) /\ Candidate(t, minor)
<1> DEFINE marked == Trace(fields, Roots(host), minor)
           dead == {x \in RangeOf(finalizable) : x \notin marked /\ Candidate(x, minor)}
<1>1. PICK d \in [1 .. Cardinality(dead) -> dead] : dying' = d
  BY DEF BeginCollect
<1>2. t \in dead
  BY <1>1 DEF RangeOf
<1> QED BY <1>2

-----------------------------------------------------------------------------
(* A major collection.                                                       *)

(* The rules of Lua but for the roots, when the tables hold f.                *)
ReachRules(f, S) ==
  /\ \A t \in S \cap Tables : \A k \in DOMAIN f[t] :
       /\ ~WeakKeys(t) => k \in S \cup {Prim}
       /\ ~WeakValues(t) /\ k \in S \cup {Prim} => f[t][k] \in S \cup {Prim}
  /\ \A c \in S \cap Closures : upval[c] \in S \cup {Prim}
  /\ \A t \in S \cap Threads : regs[t] \subseteq S

(* The marked set of a collection that opens every object is closed.          *)
LEMMA MarkedIsClosed ==
  ASSUME TypeOK, NEW f,
         \A t \in Tables : \A k \in DOMAIN f[t] : k \in Refs /\ f[t][k] \in Refs,
         NEW R \in SUBSET Objects, NEW M, M = Traced(f, R, Things)
  PROVE  R \subseteq M \cap Objects /\ ReachRules(f, M \cap Objects)
<1>1. /\ M \subseteq Things
      /\ R \cap Things \subseteq M
      /\ \A o \in M \cap Things :
           /\ Children(f, o) \cap Objects \subseteq M
           /\ o \in Tables /\ meta[o].mode = "k" =>
                \A k \in DOMAIN f[o] \cap M : f[o][k] \in M \cup {Prim}
  BY TracedIsClosed
<1>2. R \subseteq M \cap Objects
  BY <1>1 DEF Things
<1>3. ASSUME NEW t \in M \cap Tables, NEW k \in DOMAIN f[t]
      PROVE  /\ ~WeakKeys(t) => k \in (M \cap Objects) \cup {Prim}
             /\ ~WeakValues(t) /\ k \in (M \cap Objects) \cup {Prim} =>
                  f[t][k] \in (M \cap Objects) \cup {Prim}
  <2>1. k \in Refs /\ f[t][k] \in Refs /\ meta[t].mode \in {"none", "k", "v", "kv"}
    BY HeapTypes
  <2>2. Children(f, t) \cap Objects \subseteq M
    BY <1>1
  <2>3. CASE meta[t].mode = "none"
    <3>1. Children(f, t) = DOMAIN f[t] \cup {f[t][x] : x \in DOMAIN f[t]}
      BY <2>3 DEF Children
    <3> QED BY <2>1, <2>2, <3>1 DEF Refs
  <2>4. CASE meta[t].mode = "v"
    <3>1. Children(f, t) = DOMAIN f[t]
      BY <2>4 DEF Children
    <3> QED BY <2>1, <2>2, <2>4, <3>1 DEF Refs, WeakValues
  <2>5. CASE meta[t].mode = "k"
    <3>1. Children(f, t) = {f[t][x] : x \in DOMAIN f[t] \cap {Prim}}
      BY <2>5 DEF Children
    <3>2. k \in M => f[t][k] \in M \cup {Prim}
      BY <1>1, <2>5
    <3>3. k = Prim => f[t][k] \in (M \cap Objects) \cup {Prim}
      BY <2>1, <2>2, <3>1 DEF Refs
    <3> QED BY <2>1, <2>5, <3>2, <3>3 DEF Refs, WeakKeys
  <2>6. CASE meta[t].mode = "kv"
    BY <2>6 DEF WeakKeys, WeakValues
  <2> QED BY <2>1, <2>3, <2>4, <2>5, <2>6
<1>4. ASSUME NEW c \in M \cap Closures PROVE upval[c] \in (M \cap Objects) \cup {Prim}
  <2>1. Children(f, c) = {upval[c]}
    BY GCAssumption DEF Children
  <2>2. upval[c] \in Refs
    BY HeapTypes
  <2> QED BY <1>1, <2>1, <2>2 DEF Refs
<1>5. ASSUME NEW t \in M \cap Threads PROVE regs[t] \subseteq M \cap Objects
  <2>1. Children(f, t) = regs[t]
    BY GCAssumption DEF Children
  <2>2. regs[t] \subseteq Objects
    BY HeapTypes DEF Actors
  <2> QED BY <1>1, <2>1, <2>2
<1> QED BY <1>2, <1>3, <1>4, <1>5 DEF ReachRules

(* So what the program reaches is marked, when every stack is seen.           *)
LEMMA ReachIsMarked ==
  ASSUME TypeOK, ProgramRoots \subseteq Objects, NEW M, M = Traced(fields, ProgramRoots, Things)
  PROVE  Reach \subseteq M
<1>1. \A t \in Tables : \A k \in DOMAIN fields[t] : k \in Refs /\ fields[t][k] \in Refs
  BY HeapTypes
<1>2. ProgramRoots \subseteq M \cap Objects /\ ReachRules(fields, M \cap Objects)
  BY <1>1, MarkedIsClosed
<1>3. ClosedUnderReach(M \cap Objects)
  BY <1>2 DEF ClosedUnderReach, ReachRules
<1> QED BY <1>3, ReachIsLeast

(* A major collection that sees every stack finalizes only garbage: one step.  *)
LEMMA MajorStep ==
  ASSUME TypeOK, [Next]_vars, Begins, ~cycle'.minor, InSight
  PROVE  RangeOf(dying') \cap Reach = {}
<1>1. PICK host \in BOOLEAN :
        BeginCollect(FALSE, host) /\ cycle' = [minor |-> FALSE, host |-> host, on |-> TRUE]
  <2>1. PICK minor \in BOOLEAN, host \in BOOLEAN :
          /\ BeginCollect(minor, host)
          /\ cycle' = [minor |-> minor, host |-> host, on |-> TRUE]
    BY OnlyBeginBegins
  <2>2. minor = FALSE
    BY <2>1
  <2> QED BY <2>1, <2>2
<1>2. Roots(host) = ProgramRoots /\ ProgramRoots \subseteq Objects
  BY <1>1, RootsAreAll DEF InSight
<1> DEFINE M == Traced(fields, ProgramRoots, Things)
<1>3. Trace(fields, Roots(host), FALSE) = M
  BY <1>2 DEF Trace, Opened
<1>4. Reach \subseteq M
  BY <1>2, ReachIsMarked
<1>5. \A t \in RangeOf(dying') : t \notin M
  BY <1>1, <1>3, DyingUnmarked
<1> QED BY <1>4, <1>5

-----------------------------------------------------------------------------
(* A minor collection.                                                       *)

(* TracedIsClosed for the heap as it is.                                     *)
LEMMA HeapTracedIsClosed ==
  ASSUME TypeOK, NEW R, NEW O, NEW M, M = Traced(fields, R, O)
  PROVE  /\ M \subseteq Things
         /\ R \cap Things \subseteq M
         /\ \A o \in M \cap O :
              /\ Children(fields, o) \cap Objects \subseteq M
              /\ o \in Tables /\ meta[o].mode = "k" =>
                   \A k \in DOMAIN fields[o] \cap M : fields[o][k] \in M \cup {Prim}
<1>1. \A t \in Tables : \A k \in DOMAIN fields[t] : fields[t][k] \in Refs
  BY HeapTypes
<1>2. M \subseteq Things /\ R \cap Things \subseteq M
  BY <1>1, TracedIsClosed
<1>3. ASSUME NEW o \in M \cap O PROVE Children(fields, o) \cap Objects \subseteq M
  BY <1>1, TracedIsClosed
<1>4. ASSUME NEW o \in M \cap O, o \in Tables, meta[o].mode = "k",
             NEW k \in DOMAIN fields[o] \cap M
      PROVE  fields[o][k] \in M \cup {Prim}
  BY <1>1, <1>4, TracedIsClosed
<1> QED BY <1>2, <1>3, <1>4

(* The marked set of a minor collection, with every old object, is closed.    *)
LEMMA MarkedAndOldIsClosed ==
  ASSUME TypeOK, ProgramRoots \subseteq Objects, {Running} \cap Threads \subseteq ProgramRoots,
         Rest, RemembersYoung, NoOldKeys,
         NEW R, R = ProgramRoots \cup remembered, NEW O,
         \A x \in Things :
           age[x] # "old" \/ x \in remembered \cup ({Running} \cap Threads) => x \in O,
         NEW M, M = Traced(fields, R, O)
  PROVE  ClosedUnderReach({o \in Objects : o \in M \/ age[o] = "old"})
<1> DEFINE S == {o \in Objects : o \in M \/ age[o] = "old"}
<1>1. /\ M \subseteq Things
      /\ R \cap Things \subseteq M
      /\ \A o \in M \cap O :
           /\ Children(fields, o) \cap Objects \subseteq M
           /\ o \in Tables /\ meta[o].mode = "k" =>
                \A k \in DOMAIN fields[o] \cap M : fields[o][k] \in M \cup {Prim}
  <2>1. M \subseteq Things /\ R \cap Things \subseteq M
    BY HeapTracedIsClosed
  <2>2. ASSUME NEW o \in M \cap O PROVE Children(fields, o) \cap Objects \subseteq M
    BY HeapTracedIsClosed
  <2>3. ASSUME NEW o \in M \cap O, o \in Tables, meta[o].mode = "k",
               NEW k \in DOMAIN fields[o] \cap M
        PROVE  fields[o][k] \in M \cup {Prim}
    BY <2>3, HeapTracedIsClosed
  <2> QED BY <2>1, <2>2, <2>3
<1>2. ProgramRoots \subseteq S
  <2>1. Objects \subseteq Things
    BY DEF Things
  <2>2. ProgramRoots \subseteq M
    BY <1>1, <2>1
  <2> QED BY <2>2
<1>3. ASSUME NEW o \in S, o \notin M \cap O
      PROVE  \A x \in Leads(o) \cap Objects : x \in S
  <2>1. o \in Things /\ age[o] = "old"
    BY <1>3 DEF Things
  <2>2. o \notin remembered \cup {Running}
    <3>1. CASE o \in remembered
      BY <1>1, <1>3, <2>1, <3>1
    <3>2. CASE o = Running
      <4>1. o \in Threads
        <5>1. Running \in Actors
          BY DEF TypeOK, Running
        <5> QED BY <3>2, <5>1, GCAssumption DEF Actors
      <4> QED BY <1>1, <1>3, <2>1, <3>2, <4>1
    <3> QED BY <3>1, <3>2
  <2>3. \A x \in Leads(o) : ~Young(x)
    BY <1>3, <2>1, <2>2 DEF RemembersYoung
  <2> QED BY <2>3 DEF Young, Things
<1>4. ASSUME NEW t \in S \cap Tables, NEW k \in DOMAIN fields[t]
      PROVE  /\ ~WeakKeys(t) => k \in S \cup {Prim}
             /\ ~WeakValues(t) /\ k \in S \cup {Prim} => fields[t][k] \in S \cup {Prim}
  <2>1. k \in Refs /\ fields[t][k] \in Refs /\ meta[t].mode \in {"none", "k", "v", "kv"}
    BY HeapTypes
  <2>2. \A x \in Children(fields, t) \cap Objects : x \in S
    BY <1>1, <1>3 DEF Leads
  <2>3. CASE meta[t].mode = "none"
    <3>1. Children(fields, t) = DOMAIN fields[t] \cup {fields[t][x] : x \in DOMAIN fields[t]}
      BY <2>3 DEF Children
    <3> QED BY <2>1, <2>2, <3>1 DEF Refs
  <2>4. CASE meta[t].mode = "v"
    <3>1. Children(fields, t) = DOMAIN fields[t]
      BY <2>4 DEF Children
    <3> QED BY <2>1, <2>2, <2>4, <3>1 DEF Refs, WeakValues
  <2>5. CASE meta[t].mode = "k"
    <3>1. Children(fields, t) = {fields[t][x] : x \in DOMAIN fields[t] \cap {Prim}}
      BY <2>5 DEF Children
    <3>2. k = Prim => fields[t][k] \in S \cup {Prim}
      BY <2>1, <2>2, <3>1 DEF Refs
    <3>3. ASSUME k \in S, fields[t][k] # Prim PROVE fields[t][k] \in S
      <4>1. fields[t][k] \in Objects
        BY <2>1, <3>3 DEF Refs
      <4>2. CASE t \notin M \cap O
        <5>1. fields[t][k] \in Leads(t)
          BY <2>5 DEF Leads, RangeOf
        <5> QED BY <1>3, <4>1, <4>2, <5>1
      <4>3. CASE t \in M \cap O /\ k \in M
        BY <1>1, <2>5, <3>3, <4>1, <4>3
      <4>4. CASE k \notin M
        <5>1. k \in Objects /\ age[k] = "old"
          BY <3>3, <4>4
        <5>2. ~Young(fields[t][k])
          BY <2>5, <5>1 DEF NoOldKeys
        <5> QED BY <4>1, <5>2 DEF Young, Things
      <4> QED BY <4>2, <4>3, <4>4
    <3> QED BY <2>1, <2>5, <3>2, <3>3 DEF WeakKeys
  <2>6. CASE meta[t].mode = "kv"
    BY <2>6 DEF WeakKeys, WeakValues
  <2> QED BY <2>1, <2>3, <2>4, <2>5, <2>6
<1>5. ASSUME NEW c \in S \cap Closures PROVE upval[c] \in S \cup {Prim}
  <2>1. Children(fields, c) = {upval[c]} /\ Children(fields, c) \subseteq Leads(c)
    BY GCAssumption DEF Children, Leads
  <2>2. upval[c] \in Refs
    BY HeapTypes
  <2> QED BY <1>1, <1>3, <2>1, <2>2 DEF Refs
<1>6. ASSUME NEW t \in S \cap Threads PROVE regs[t] \subseteq S
  <2>1. Children(fields, t) = regs[t] /\ Children(fields, t) \subseteq Leads(t)
    BY GCAssumption DEF Children, Leads
  <2>2. regs[t] \subseteq Objects
    BY HeapTypes DEF Actors
  <2> QED BY <1>1, <1>3, <2>1, <2>2
<1> QED BY <1>2, <1>4, <1>5, <1>6 DEF ClosedUnderReach

(* A minor collection that sees every stack finalizes only garbage, when every *)
(* old-to-young edge is remembered: one step.                                *)
LEMMA MinorStep ==
  ASSUME TypeOK, [Next]_vars, Begins, cycle'.minor, InSight, RemembersYoung, NoOldKeys
  PROVE  RangeOf(dying') \cap Reach = {}
<1>1. PICK host \in BOOLEAN :
        BeginCollect(TRUE, host) /\ cycle' = [minor |-> TRUE, host |-> host, on |-> TRUE]
  <2>1. PICK minor \in BOOLEAN, host \in BOOLEAN :
          /\ BeginCollect(minor, host)
          /\ cycle' = [minor |-> minor, host |-> host, on |-> TRUE]
    BY OnlyBeginBegins
  <2>2. minor = TRUE
    BY <2>1
  <2> QED BY <2>1, <2>2
<1>2. Roots(host) = ProgramRoots /\ ProgramRoots \subseteq Objects
  BY <1>1, RootsAreAll DEF InSight
<1>3. {Running} \cap Threads \subseteq ProgramRoots
  BY <1>2 DEF Roots, Running
<1> DEFINE M == Traced(fields, ProgramRoots \cup remembered, Opened(TRUE))
           S == {o \in Objects : o \in M \/ age[o] = "old"}
<1>4. Trace(fields, Roots(host), TRUE) = M
  BY <1>2 DEF Trace
<1>5. Reach \subseteq S
  <2>1. ClosedUnderReach(S)
    <3>1. \A x \in Things :
            age[x] # "old" \/ x \in remembered \cup ({Running} \cap Threads) => x \in Opened(TRUE)
      BY DEF Opened
    <3> QED BY <1>2, <1>3, <3>1, MarkedAndOldIsClosed DEF Begins
  <2>2. S \in SUBSET Objects
    OBVIOUS
  <2> QED BY <2>1, <2>2, ReachIsLeast
<1>6. \A t \in RangeOf(dying') : t \notin M /\ age[t] # "old"
  BY <1>1, <1>4, DyingUnmarked DEF Candidate
<1> QED BY <1>5, <1>6

-----------------------------------------------------------------------------
(* What clearing keeps of a table, and why an entry goes.                     *)
LEMMA ClearedEntries ==
  ASSUME NEW f, NEW seen, NEW minor, NEW doomed, NEW t \in Tables,
         NEW g, g = Cleared(f, seen, minor, doomed)
  PROVE  /\ DOMAIN g[t] \subseteq DOMAIN f[t]
         /\ \A k \in DOMAIN g[t] : g[t][k] = f[t][k]
         /\ \A k \in DOMAIN f[t] \ DOMAIN g[t] : <<t, k>> \in doomed
         /\ t \in seen \cap Opened(minor) /\ meta[t].mode # "none" =>
              \A k \in DOMAIN g[t] : <<t, k>> \notin doomed
<1>1. CASE t \in seen \cap Opened(minor) /\ meta[t].mode # "none"
  <2>1. g[t] = [k \in {k \in DOMAIN f[t] : <<t, k>> \notin doomed} |-> f[t][k]]
    BY <1>1 DEF Cleared
  <2> QED BY <2>1
<1>2. CASE ~(t \in seen \cap Opened(minor) /\ meta[t].mode # "none")
  <2>1. g[t] = f[t]
    BY <1>2 DEF Cleared
  <2> QED BY <1>2, <2>1
<1> QED BY <1>1, <1>2

(* The two clearings: first holds the tables between them, M what was marked   *)
(* before and R after the objects to finalize became roots.                   *)
FirstClearing(first, M, minor) ==
  \A t \in Tables :
    /\ DOMAIN first[t] \subseteq DOMAIN fields[t]
    /\ \A k \in DOMAIN first[t] : first[t][k] = fields[t][k]
    /\ \A k \in DOMAIN fields[t] \ DOMAIN first[t] :
         WeakValues(t) /\ Candidate(fields[t][k], minor) /\ fields[t][k] \notin M
    /\ t \in M \cap Opened(minor) /\ WeakValues(t) =>
         \A k \in DOMAIN first[t] : Candidate(fields[t][k], minor) => fields[t][k] \in M

SecondClearing(second, first, M, R, minor) ==
  \A t \in Tables :
    /\ DOMAIN second[t] \subseteq DOMAIN first[t]
    /\ \A k \in DOMAIN second[t] : second[t][k] = first[t][k]
    /\ \A k \in DOMAIN first[t] \ DOMAIN second[t] :
         \/ WeakKeys(t) /\ Candidate(k, minor) /\ k \notin R
         \/ WeakValues(t) /\ Candidate(first[t][k], minor) /\ first[t][k] \notin R \cap M

LEMMA Clearings ==
  ASSUME NEW minor \in BOOLEAN, NEW host \in BOOLEAN, BeginCollect(minor, host)
  PROVE  LET M == Trace(fields, Roots(host), minor)
             dead == {x \in RangeOf(finalizable) : x \notin M /\ Candidate(x, minor)}
         IN  \E first : LET R == Trace(first, Roots(host) \cup dead, minor)
                       IN  /\ FirstClearing(first, M, minor)
                           /\ SecondClearing(fields', first, M, R, minor)
<1> DEFINE M == Trace(fields, Roots(host), minor)
           one == FirstDoomed(fields, M, minor)
           first == Cleared(fields, M, minor, one)
           dead == {x \in RangeOf(finalizable) : x \notin M /\ Candidate(x, minor)}
           R == Trace(first, Roots(host) \cup dead, minor)
           two == SecondDoomed(first, M, R, minor)
<1>1. fields' = Cleared(first, R, minor, two)
  BY DEF BeginCollect
<1>2. FirstClearing(first, M, minor)
  <2>1. ASSUME NEW t \in Tables
        PROVE  /\ DOMAIN first[t] \subseteq DOMAIN fields[t]
               /\ \A k \in DOMAIN first[t] : first[t][k] = fields[t][k]
               /\ \A k \in DOMAIN fields[t] \ DOMAIN first[t] : <<t, k>> \in one
               /\ t \in M \cap Opened(minor) /\ meta[t].mode # "none" =>
                    \A k \in DOMAIN first[t] : <<t, k>> \notin one
    <3> HIDE DEF one, M
    <3> QED BY ClearedEntries
  <2>2. ASSUME NEW t \in Tables, NEW k, <<t, k>> \in one
        PROVE  WeakValues(t) /\ Candidate(fields[t][k], minor) /\ fields[t][k] \notin M
    <3> HIDE DEF M
    <3> QED BY <2>2 DEF FirstDoomed
  <2>3. ASSUME NEW t \in Tables, NEW k \in DOMAIN fields[t], <<t, k>> \notin one,
               WeakValues(t), Candidate(fields[t][k], minor)
        PROVE  fields[t][k] \in M
    <3>1. <<t, k>> \in Entries(fields)
      BY DEF Entries
    <3> HIDE DEF M
    <3> QED BY <2>3, <3>1 DEF FirstDoomed
  <2>4. \A t \in Tables : WeakValues(t) => meta[t].mode # "none"
    BY DEF WeakValues
  <2> HIDE DEF one, first, M
  <2> QED BY <2>1, <2>2, <2>3, <2>4 DEF FirstClearing
<1>3. SecondClearing(fields', first, M, R, minor)
  <2>1. ASSUME NEW t \in Tables
        PROVE  /\ DOMAIN fields'[t] \subseteq DOMAIN first[t]
               /\ \A k \in DOMAIN fields'[t] : fields'[t][k] = first[t][k]
               /\ \A k \in DOMAIN first[t] \ DOMAIN fields'[t] : <<t, k>> \in two
    <3> HIDE DEF two, R, first
    <3> QED BY <1>1, ClearedEntries
  <2>2. ASSUME NEW t \in Tables, NEW k, <<t, k>> \in two
        PROVE  \/ WeakKeys(t) /\ Candidate(k, minor) /\ k \notin R
               \/ WeakValues(t) /\ Candidate(first[t][k], minor) /\ first[t][k] \notin R \cap M
    <3> HIDE DEF first, M, R
    <3> QED BY <2>2 DEF SecondDoomed
  <2> HIDE DEF two, first, M, R
  <2> QED BY <2>1, <2>2 DEF SecondClearing
<1> HIDE DEF first
<1> QED BY <1>2, <1>3

(* The tables after a collection began.                                      *)
LEMMA FieldsAfterBegin ==
  ASSUME NEW minor \in BOOLEAN, NEW host \in BOOLEAN, BeginCollect(minor, host), NEW t \in Tables
  PROVE  /\ DOMAIN fields'[t] \subseteq DOMAIN fields[t]
         /\ \A k \in DOMAIN fields'[t] : fields'[t][k] = fields[t][k]
         /\ \A k \in DOMAIN fields[t] \ DOMAIN fields'[t] :
              \/ WeakKeys(t) /\ Candidate(k, minor)
              \/ WeakValues(t) /\ Candidate(fields[t][k], minor)
<1>1. PICK first, M, R :
        FirstClearing(first, M, minor) /\ SecondClearing(fields', first, M, R, minor)
  BY Clearings
<1> QED BY <1>1 DEF FirstClearing, SecondClearing

(* A minor collection leaves old objects alone: one step.                     *)
LEMMA OldStep ==
  ASSUME [Next]_vars, Begins, cycle'.minor
  PROVE  /\ \A t \in RangeOf(dying') : age[t] # "old"
         /\ \A t \in Tables : \A k \in DOMAIN fields[t] \ DOMAIN fields'[t] :
              \/ WeakKeys(t) /\ Young(k)
              \/ WeakValues(t) /\ Young(fields[t][k])
<1>1. PICK host \in BOOLEAN : BeginCollect(TRUE, host)
  <2>1. PICK minor \in BOOLEAN, host \in BOOLEAN :
          /\ BeginCollect(minor, host)
          /\ cycle' = [minor |-> minor, host |-> host, on |-> TRUE]
    BY OnlyBeginBegins
  <2>2. minor = TRUE
    BY <2>1
  <2> QED BY <2>1, <2>2
<1>2. \A t \in RangeOf(dying') : age[t] # "old"
  BY <1>1, DyingUnmarked DEF Candidate
<1>3. ASSUME NEW x, Candidate(x, TRUE) PROVE Young(x)
  BY <1>3 DEF Candidate, Young, Things
<1>4. ASSUME NEW t \in Tables, NEW k \in DOMAIN fields[t] \ DOMAIN fields'[t]
      PROVE  \/ WeakKeys(t) /\ Young(k)
             \/ WeakValues(t) /\ Young(fields[t][k])
  BY <1>1, <1>3, FieldsAfterBegin
<1> QED BY <1>2, <1>4

-----------------------------------------------------------------------------
(* Type correctness.                                                         *)

(* A listing of a set of tables, such as BeginCollect makes, is a sequence.     *)
LEMMA SequencesOfTables ==
  ASSUME NEW S \in SUBSET Tables, NEW s \in [1 .. Cardinality(S) -> S]
  PROVE  s \in Seq(Tables)
<1>1. IsFiniteSet(S)
  BY GCAssumption, FS_Subset
<1>2. Cardinality(S) \in Nat
  BY <1>1, FS_CardinalityType
<1> QED BY <1>2

(* Dropping the actor on top keeps the main chunk at the bottom.              *)
LEMMA PopKeepsMain ==
  ASSUME TypeOK, Running # Main
  PROVE  LET rest == SubSeq(calls, 1, Len(calls) - 1)
         IN  rest \in Seq(Actors) /\ rest # <<>> /\ rest[1] = Main
<1>1. calls \in Seq(Actors) /\ Len(calls) \in Nat /\ Len(calls) >= 2
  BY DEF TypeOK, Running
<1>2. calls[1] = Main
  BY DEF TypeOK
<1> QED BY <1>1, <1>2

(* Every step keeps the type invariant.                                      *)
LEMMA TypeKept ==
  ASSUME TypeOK, [Next]_vars
  PROVE  TypeOK'
<1> USE DEF RangeOf
<1>1. ASSUME NEW minor \in BOOLEAN, NEW host \in BOOLEAN, BeginCollect(minor, host)
      PROVE  TypeOK'
  <2> DEFINE marked == Trace(fields, Roots(host), minor)
             dead == {x \in RangeOf(finalizable) : x \notin marked /\ Candidate(x, minor)}
             kept == RangeOf(finalizable) \ dead
  <2>1. /\ \E d \in [1 .. Cardinality(dead) -> dead] : dying' = d
        /\ \E r \in [1 .. Cardinality(kept) -> kept] : finalizable' = r
        /\ UNCHANGED <<meta, upval, regs, calls, age, remembered, baseline>>
        /\ cycle' = [minor |-> minor, host |-> host, on |-> TRUE]
    BY <1>1 DEF BeginCollect, program
  <2>2. dead \in SUBSET Tables /\ kept \in SUBSET Tables
    BY DEF TypeOK
  <2>3. dying' \in Seq(Tables) /\ finalizable' \in Seq(Tables)
    <3> HIDE DEF dead, kept
    <3> QED BY <2>1, <2>2, SequencesOfTables
  <2>4. fields' = [t \in Tables |-> fields'[t]]
    <3>1. \E s, m, d : fields' = Cleared(s, m, minor, d)
      BY <1>1 DEF BeginCollect
    <3> QED BY <3>1 DEF Cleared
  <2>5. ASSUME NEW t \in Tables
        PROVE  DOMAIN fields'[t] \subseteq Refs /\ RangeOf(fields'[t]) \subseteq Refs
    <3>1. /\ DOMAIN fields'[t] \subseteq DOMAIN fields[t]
          /\ \A k \in DOMAIN fields'[t] : fields'[t][k] = fields[t][k]
      BY <1>1, FieldsAfterBegin
    <3>2. \A k \in DOMAIN fields[t] : k \in Refs /\ fields[t][k] \in Refs
      BY HeapTypes
    <3> QED BY <3>1, <3>2
  <2>6. cycle' \in Cycles
    BY <2>1 DEF Cycles
  <2> QED BY <2>1, <2>3, <2>4, <2>5, <2>6 DEF TypeOK
<1>2. CASE Finalize
  <2>1. Head(dying) \in Tables /\ Tail(dying) \in Seq(Tables)
    BY <1>2 DEF Finalize, TypeOK
  <2>2. /\ UNCHANGED <<fields, meta, upval, age, remembered, finalizable, cycle, baseline>>
        /\ dying' = Tail(dying)
    BY <1>2 DEF Finalize, heap
  <2>3. regs' \in [Actors -> SUBSET Objects]
    BY <1>2, <2>1 DEF Finalize, TypeOK, Objects, Actors, program
  <2>4. calls' \in Seq(Actors) /\ calls' # <<>> /\ calls'[1] = Main
    <3>1. calls \in Seq(Actors) /\ calls # <<>> /\ calls[1] = Main /\ Fin \in Actors
      BY DEF TypeOK, Actors
    <3>2. calls' = calls \/ calls' = Append(calls, Fin)
      BY <1>2 DEF Finalize, program
    <3> QED BY <3>1, <3>2
  <2> QED BY <2>1, <2>2, <2>3, <2>4 DEF TypeOK
<1>3. CASE FinalizerEnds
  <2>1. Running # Main
    BY <1>3, GCAssumption DEF FinalizerEnds
  <2>2. calls' \in Seq(Actors) /\ calls' # <<>> /\ calls'[1] = Main
    BY <1>3, <2>1, PopKeepsMain DEF FinalizerEnds
  <2>3. regs' \in [Actors -> SUBSET Objects]
    BY <1>3 DEF FinalizerEnds, TypeOK
  <2> QED BY <1>3, <2>2, <2>3 DEF FinalizerEnds, TypeOK, heap
<1>4. CASE EndCollect
  <2>1. age' \in [Things -> Ages]
    BY <1>4 DEF EndCollect, TypeOK, Older, Ages
  <2>2. cycle' \in Cycles /\ baseline' \in BOOLEAN /\ remembered' \subseteq Things
    BY <1>4 DEF EndCollect, TypeOK, NoCycle, Cycles
  <2> QED BY <1>4, <2>1, <2>2 DEF EndCollect, TypeOK, heap, program
<1>5. ASSUME NEW o \in Objects, Alloc(o) PROVE TypeOK'
  <2>1. age' \in [Things -> Ages] /\ regs' \in [Actors -> SUBSET Objects]
    BY <1>5 DEF Alloc, TypeOK, Ages
  <2> QED BY <1>5, <2>1 DEF Alloc, TypeOK, heap
<1>6. ASSUME NEW o \in Objects, Load(o) \/ Drop(o) PROVE TypeOK'
  <2>1. regs' \in [Actors -> SUBSET Objects]
    BY <1>6 DEF Load, Drop, TypeOK
  <2> QED BY <1>6, <2>1 DEF Load, Drop, TypeOK, heap
<1>7. ASSUME NEW t \in Tables, NEW k \in Refs, NEW v \in Refs, Store(t, k, v) PROVE TypeOK'
  <2>1. fields' = [fields EXCEPT ![t] =
                     [x \in DOMAIN fields[t] \cup {k} |-> IF x = k THEN v ELSE fields[t][x]]]
    BY <1>7 DEF Store
  <2>2. fields' = [x \in Tables |-> fields'[x]]
    BY <2>1 DEF TypeOK
  <2>3. ASSUME NEW u \in Tables
        PROVE  DOMAIN fields'[u] \subseteq Refs /\ RangeOf(fields'[u]) \subseteq Refs
    <3>1. CASE u = t
      <4>1. fields'[t] = [x \in DOMAIN fields[t] \cup {k} |-> IF x = k THEN v ELSE fields[t][x]]
        BY <2>1 DEF TypeOK
      <4>2. \A x \in DOMAIN fields[t] : x \in Refs /\ fields[t][x] \in Refs
        BY HeapTypes
      <4> QED BY <3>1, <4>1, <4>2
    <3>2. CASE u # t
      BY <2>1, <3>2 DEF TypeOK
    <3> QED BY <3>1, <3>2
  <2>4. remembered' \subseteq Things
    BY <1>7 DEF Store, Barrier, TypeOK, Things, Objects
  <2>5. UNCHANGED <<meta, upval, regs, calls, age, finalizable, dying, cycle, baseline>>
    BY <1>7 DEF Store, program
  <2> QED BY <2>2, <2>3, <2>4, <2>5 DEF TypeOK
<1>8. ASSUME NEW c \in Closures, NEW v \in Refs, StoreUpval(c, v) PROVE TypeOK'
  <2>1. upval' \in [Closures -> Refs]
    BY <1>8 DEF StoreUpval, TypeOK
  <2>2. remembered' \subseteq Things
    BY <1>8 DEF StoreUpval, Barrier, TypeOK, Things, Cells
  <2>3. UNCHANGED <<fields, meta, regs, calls, age, finalizable, dying, cycle, baseline>>
    BY <1>8 DEF StoreUpval, program
  <2> QED BY <2>1, <2>2, <2>3 DEF TypeOK
<1>9. ASSUME NEW t \in Tables, NEW mode \in Modes, NEW gc \in Finalizers, SetMetatable(t, mode, gc)
      PROVE  TypeOK'
  <2>1. gc \in BOOLEAN
    BY GCAssumption
  <2>2. meta' \in [Tables -> [mode: Modes \cup {"none"}, gc: BOOLEAN]]
    BY <1>9, <2>1 DEF SetMetatable, TypeOK
  <2>3. finalizable' \in Seq(Tables)
    BY <1>9 DEF SetMetatable, TypeOK
  <2> QED BY <1>9, <2>2, <2>3 DEF SetMetatable, TypeOK, program
<1>10. ASSUME NEW t \in Threads, NEW v \in Refs, Resume(t, v) PROVE TypeOK'
  <2>1. regs' \in [Actors -> SUBSET Objects]
    BY <1>10 DEF Resume, TypeOK
  <2>2. calls' \in Seq(Actors) /\ calls' # <<>> /\ calls'[1] = Main
    BY <1>10 DEF Resume, TypeOK, Actors
  <2> QED BY <1>10, <2>1, <2>2 DEF Resume, TypeOK, heap
<1>11. ASSUME NEW v \in Refs, Yield(v) PROVE TypeOK'
  <2>1. regs' \in [Actors -> SUBSET Objects]
    BY <1>11 DEF Yield, TypeOK
  <2>2. Running # Main
    BY <1>11, GCAssumption DEF Yield, Objects
  <2>3. calls' \in Seq(Actors) /\ calls' # <<>> /\ calls'[1] = Main
    BY <1>11, <2>2, PopKeepsMain DEF Yield
  <2> QED BY <1>11, <2>1, <2>3 DEF Yield, TypeOK, heap
<1>12. CASE UNCHANGED vars
  BY <1>12 DEF vars, heap, program, TypeOK
<1> QED
  BY <1>1, <1>2, <1>3, <1>4, <1>5, <1>6, <1>7, <1>8, <1>9, <1>10, <1>11, <1>12 DEF Next

(* The initial state is well typed.                                          *)
LEMMA TypeInit ==
  Init => TypeOK
<1> SUFFICES ASSUME Init PROVE TypeOK
  OBVIOUS
<1>1. fields = [t \in Tables |-> fields[t]]
  BY DEF Init
<1>2. \A t \in Tables : DOMAIN fields[t] \subseteq Refs /\ RangeOf(fields[t]) \subseteq Refs
  BY DEF Init, RangeOf
<1>3. meta \in [Tables -> [mode: Modes \cup {"none"}, gc: BOOLEAN]]
  BY DEF Init
<1>4. upval \in [Closures -> Refs] /\ regs \in [Actors -> SUBSET Objects]
  BY DEF Init, Refs
<1>5. calls \in Seq(Actors) /\ calls # <<>> /\ calls[1] = Main
  BY DEF Init, Actors
<1>6. age \in [Things -> Ages] /\ remembered \subseteq Things
  BY DEF Init, Ages
<1>7. finalizable \in Seq(Tables) /\ dying \in Seq(Tables)
  <2>1. finalizable = <<>> /\ dying = <<>>
    BY DEF Init
  <2> QED BY <2>1
<1>8. cycle \in Cycles /\ baseline \in BOOLEAN
  BY DEF Init, NoCycle, Cycles
<1> QED BY <1>1, <1>2, <1>3, <1>4, <1>5, <1>6, <1>7, <1>8 DEF TypeOK

-----------------------------------------------------------------------------
(* Completeness: what a major collection finds.                               *)

(* A listing without repetition of a finite set lists all of it.             *)
LEMMA ListsAll ==
  ASSUME NEW S, IsFiniteSet(S), NEW d \in [1 .. Cardinality(S) -> S],
         \A i, j \in DOMAIN d : i < j => d[i] # d[j]
  PROVE  RangeOf(d) = S
<1> DEFINE n == Cardinality(S)
<1>1. n \in Nat
  BY FS_CardinalityType
<1>2. IsFiniteSet(1 .. n) /\ Cardinality(1 .. n) = n
  BY <1>1, FS_Interval
<1>3. ASSUME NEW i \in 1 .. n, NEW j \in 1 .. n, d[i] = d[j] PROVE i = j
  BY <1>1, <1>3
<1>4. d \in Injection(1 .. n, S)
  BY <1>3 DEF Injection, IsInjective
<1>5. d \in Surjection(1 .. n, S)
  BY <1>2, <1>4, FS_Injection
<1> QED BY <1>5 DEF Surjection, RangeOf

(* No object is twice in the list of objects to finalize.                    *)
NoneTwice ==
  \A p, q \in DOMAIN finalizable : finalizable[p] = finalizable[q] => p = q

LEMMA BeforeIsStrict ==
  ASSUME TypeOK, NoneTwice, NEW x PROVE ~Before(x, x)
<1>1. DOMAIN finalizable = 1 .. Len(finalizable) /\ Len(finalizable) \in Nat
  BY DEF TypeOK
<1> QED BY <1>1 DEF NoneTwice, Before

(* Every step keeps it so.                                                   *)
LEMMA NoneTwiceKept ==
  ASSUME TypeOK, NoneTwice, [Next]_vars
  PROVE  NoneTwice'
<1>1. ASSUME NEW minor \in BOOLEAN, NEW host \in BOOLEAN, BeginCollect(minor, host)
      PROVE  NoneTwice'
  <2> DEFINE marked == Trace(fields, Roots(host), minor)
             dead == {x \in RangeOf(finalizable) : x \notin marked /\ Candidate(x, minor)}
             kept == RangeOf(finalizable) \ dead
  <2>1. PICK r \in [1 .. Cardinality(kept) -> kept] :
          /\ \A i, j \in DOMAIN r : i < j => Before(r[i], r[j])
          /\ finalizable' = r
    BY <1>1 DEF BeginCollect
  <2>2. kept \subseteq Tables
    BY DEF TypeOK, RangeOf
  <2>3. IsFiniteSet(kept)
    BY <2>2, GCAssumption, FS_Subset
  <2> HIDE DEF kept
  <2>4. Cardinality(kept) \in Nat
    BY <2>3, FS_CardinalityType
  <2>5. ASSUME NEW p \in DOMAIN r, NEW q \in DOMAIN r, r[p] = r[q] PROVE p = q
    <3>1. ~(p < q) /\ ~(q < p)
      BY <2>1, <2>5, BeforeIsStrict
    <3> QED BY <2>4, <3>1
  <2> QED BY <2>1, <2>5 DEF NoneTwice
<1>2. ASSUME NEW t \in Tables, NEW mode \in Modes, NEW gc \in Finalizers, SetMetatable(t, mode, gc)
      PROVE  NoneTwice'
  <2>1. finalizable \in Seq(Tables)
    BY DEF TypeOK
  <2>2. CASE finalizable' = finalizable
    BY <2>2 DEF NoneTwice
  <2>3. CASE t \notin RangeOf(finalizable) /\ finalizable' = Append(finalizable, t)
    <3> DEFINE n == Len(finalizable)
    <3>1. n \in Nat /\ DOMAIN finalizable = 1 .. n /\ DOMAIN finalizable' = 1 .. n + 1
      BY <2>1, <2>3
    <3>2. finalizable'[n + 1] = t /\ \A p \in 1 .. n : finalizable'[p] = finalizable[p]
      BY <2>1, <2>3
    <3>3. \A p \in 1 .. n : finalizable[p] # t
      BY <2>3, <3>1 DEF RangeOf
    <3>4. \A p \in 1 .. n + 1 : p \in 1 .. n \/ p = n + 1
      BY <3>1
    <3> QED BY <3>1, <3>2, <3>3, <3>4 DEF NoneTwice
  <2> QED BY <1>2, <2>2, <2>3 DEF SetMetatable
<1>3. CASE UNCHANGED finalizable
  BY <1>3 DEF NoneTwice
<1>4. Finalize \/ FinalizerEnds \/ EndCollect => UNCHANGED finalizable
  BY DEF Finalize, FinalizerEnds, EndCollect
<1>5. \A o \in Objects : Alloc(o) \/ Load(o) \/ Drop(o) => UNCHANGED finalizable
  BY DEF Alloc, Load, Drop
<1>6. \A t \in Tables, k \in Refs, v \in Refs : Store(t, k, v) => UNCHANGED finalizable
  BY DEF Store
<1>7. \A c \in Closures, v \in Refs : StoreUpval(c, v) => UNCHANGED finalizable
  BY DEF StoreUpval
<1>8. \A t \in Threads, v \in Refs : Resume(t, v) => UNCHANGED finalizable
  BY DEF Resume
<1>9. \A v \in Refs : Yield(v) => UNCHANGED finalizable
  BY DEF Yield
<1>10. UNCHANGED vars => UNCHANGED finalizable
  BY DEF vars
<1> QED
  BY <1>1, <1>2, <1>3, <1>4, <1>5, <1>6, <1>7, <1>8, <1>9, <1>10 DEF Next

(* A collection finalizes every object that may be found dead and is unmarked. *)
LEMMA DyingAreAll ==
  ASSUME TypeOK, NoneTwice, NEW minor \in BOOLEAN, NEW host \in BOOLEAN, BeginCollect(minor, host)
  PROVE  RangeOf(dying') =
           {t \in RangeOf(finalizable) :
              t \notin Trace(fields, Roots(host), minor) /\ Candidate(t, minor)}
<1> DEFINE marked == Trace(fields, Roots(host), minor)
           dead == {x \in RangeOf(finalizable) : x \notin marked /\ Candidate(x, minor)}
<1>1. PICK d \in [1 .. Cardinality(dead) -> dead] :
        /\ \A i, j \in DOMAIN d : i < j => Before(d[j], d[i])
        /\ dying' = d
  BY DEF BeginCollect
<1>2. dead \subseteq Tables
  BY DEF TypeOK, RangeOf
<1>3. IsFiniteSet(dead)
  BY <1>2, GCAssumption, FS_Subset
<1>4. \A i, j \in DOMAIN d : i < j => d[i] # d[j]
  BY <1>1, BeforeIsStrict
<1>5. RangeOf(dying') = dead
  <2> HIDE DEF dead
  <2> QED BY <1>1, <1>3, <1>4, ListsAll
<1> QED BY <1>5

(* The roots of a collection are roots of the program, whatever it sees.      *)
LEMMA RootsAreSome ==
  ASSUME TypeOK, NEW host \in BOOLEAN
  PROVE  Roots(host) \subseteq ProgramRoots /\ ProgramRoots \subseteq Objects
<1> DEFINE n == Len(calls)
<1>1. calls \in Seq(Actors) /\ n \in Nat /\ n >= 1 /\ DOMAIN calls = 1 .. n
  BY DEF TypeOK
<1>2. calls[n] \in RangeOf(calls) /\ (n > 1 => calls[n - 1] \in RangeOf(calls))
  BY <1>1 DEF RangeOf
<1>3. RangeOf(calls) \subseteq Actors
  BY <1>1 DEF RangeOf
<1>4. UNION {regs[a] : a \in RangeOf(calls)} \subseteq Objects
  BY <1>3, HeapTypes
<1>5. {Globals} \subseteq Objects /\ Threads \subseteq Objects
  BY GCAssumption DEF Objects
<1>6. \A a \in RangeOf(calls) : regs[a] \subseteq ProgramRoots
  BY DEF ProgramRoots
<1>7. Roots(host) \subseteq
        regs[calls[n]] \cup {Globals} \cup ({calls[n]} \cap Threads)
          \cup (IF n > 1 THEN regs[calls[n - 1]] ELSE {})
  BY DEF Roots
<1>8. Roots(host) \subseteq ProgramRoots
  BY <1>2, <1>6, <1>7 DEF ProgramRoots
<1> QED BY <1>4, <1>5, <1>8 DEF ProgramRoots

(* Nothing is marked but what the program reaches.                            *)
LEMMA MarkedIsReached ==
  ASSUME TypeOK, NEW R, R \subseteq ProgramRoots, ProgramRoots \subseteq Objects,
         NEW M, M = Traced(fields, R, Things)
  PROVE  M \subseteq Reach
<1> DEFINE Closed(S) ==
      /\ R \subseteq S
      /\ \A o \in S \cap Things :
           /\ Children(fields, o) \cap Objects \subseteq S
           /\ o \in Tables /\ meta[o].mode = "k" =>
                \A k \in DOMAIN fields[o] \cap S : fields[o][k] \in S \cup {Prim}
<1>1. M = {o \in Things : \A S \in SUBSET Things : Closed(S) => o \in S}
  BY DEF Traced
<1>2. ASSUME NEW S \in SUBSET Objects, ClosedUnderReach(S) PROVE M \subseteq S
  <2>1. R \subseteq S
    BY <1>2 DEF ClosedUnderReach
  <2>2. ASSUME NEW o \in S PROVE Children(fields, o) \cap Objects \subseteq S
    <3>1. CASE o \in Tables
      <4>1. \A k \in DOMAIN fields[o] :
              /\ ~WeakKeys(o) => k \in S \cup {Prim}
              /\ ~WeakValues(o) /\ k \in S \cup {Prim} => fields[o][k] \in S \cup {Prim}
        BY <1>2, <3>1 DEF ClosedUnderReach
      <4>2. CASE meta[o].mode = "none"
        <5>1. Children(fields, o) = DOMAIN fields[o] \cup {fields[o][k] : k \in DOMAIN fields[o]}
          BY <3>1, <4>2 DEF Children
        <5>2. ~WeakKeys(o) /\ ~WeakValues(o)
          BY <4>2 DEF WeakKeys, WeakValues
        <5> QED BY <4>1, <5>1, <5>2, GCAssumption
      <4>3. CASE meta[o].mode = "v"
        <5>1. Children(fields, o) = DOMAIN fields[o]
          BY <3>1, <4>3 DEF Children
        <5>2. ~WeakKeys(o)
          BY <4>3 DEF WeakKeys
        <5> QED BY <4>1, <5>1, <5>2, GCAssumption
      <4>4. CASE meta[o].mode = "k"
        <5>1. Children(fields, o) = {fields[o][k] : k \in DOMAIN fields[o] \cap {Prim}}
          BY <3>1, <4>4 DEF Children
        <5>2. ~WeakValues(o)
          BY <4>4 DEF WeakValues
        <5> QED BY <4>1, <5>1, <5>2, GCAssumption
      <4>5. CASE meta[o].mode = "kv"
        BY <3>1, <4>5 DEF Children
      <4> QED BY <3>1, <4>2, <4>3, <4>4, <4>5, HeapTypes
    <3>2. CASE o \in Closures
      <4>1. Children(fields, o) = {upval[o]}
        BY <3>2, GCAssumption DEF Children
      <4>2. upval[o] \in S \cup {Prim}
        BY <1>2, <3>2 DEF ClosedUnderReach
      <4> QED BY <4>1, <4>2, GCAssumption
    <3>3. CASE o \in Threads
      <4>1. Children(fields, o) = regs[o]
        BY <3>3, GCAssumption DEF Children
      <4> QED BY <1>2, <3>3, <4>1 DEF ClosedUnderReach
    <3> QED BY <3>1, <3>2, <3>3 DEF Objects
  <2>3. ASSUME NEW o \in S, o \in Tables, meta[o].mode = "k", NEW k \in DOMAIN fields[o] \cap S
        PROVE  fields[o][k] \in S \cup {Prim}
    BY <1>2, <2>3 DEF ClosedUnderReach, WeakValues
  <2>4. S \in SUBSET Things /\ Closed(S)
    BY <2>1, <2>2, <2>3 DEF Things
  <2> HIDE DEF Closed
  <2> QED BY <1>1, <2>4
<1>3. ClosedUnderReach(Objects)
  <2>1. \A t \in Tables : \A k \in DOMAIN fields[t] : k \in Refs /\ fields[t][k] \in Refs
    BY HeapTypes
  <2>2. \A c \in Closures : upval[c] \in Refs
    BY HeapTypes
  <2>3. \A t \in Threads : regs[t] \subseteq Objects
    BY HeapTypes DEF Actors
  <2> QED BY <2>1, <2>2, <2>3 DEF ClosedUnderReach, Refs
<1>4. M \subseteq Objects
  BY <1>2, <1>3
<1> HIDE DEF Closed
<1> QED BY <1>2, <1>4 DEF Reach

(* A major collection finds everything: one step.                             *)
LEMMA FindsStep ==
  ASSUME TypeOK, NoneTwice, [Next]_vars, Begins, ~cycle'.minor
  PROVE  /\ RangeOf(finalizable) \ Reach \subseteq RangeOf(dying')
         /\ InSight => \A t \in Reach \cap Tables : \A k \in DOMAIN fields'[t] :
              WeakValues(t) => fields'[t][k] \in Reach \cup {Prim}
<1>1. PICK host \in BOOLEAN :
        BeginCollect(FALSE, host) /\ cycle' = [minor |-> FALSE, host |-> host, on |-> TRUE]
  <2>1. PICK minor \in BOOLEAN, host \in BOOLEAN :
          /\ BeginCollect(minor, host)
          /\ cycle' = [minor |-> minor, host |-> host, on |-> TRUE]
    BY OnlyBeginBegins
  <2>2. minor = FALSE
    BY <2>1
  <2> QED BY <2>1, <2>2
<1> DEFINE M == Trace(fields, Roots(host), FALSE)
<1>2. M = Traced(fields, Roots(host), Things)
  BY DEF Trace, Opened
<1>3. Roots(host) \subseteq ProgramRoots /\ ProgramRoots \subseteq Objects
  BY RootsAreSome
<1>4. M \subseteq Reach
  BY <1>2, <1>3, MarkedIsReached
<1>5. RangeOf(finalizable) \ Reach \subseteq RangeOf(dying')
  <2>1. RangeOf(dying') = {t \in RangeOf(finalizable) : t \notin M /\ Candidate(t, FALSE)}
    BY <1>1, DyingAreAll
  <2>2. RangeOf(finalizable) \subseteq Objects
    BY DEF TypeOK, RangeOf, Objects
  <2> QED BY <1>4, <2>1, <2>2 DEF Candidate
<1>6. ASSUME InSight, NEW t \in Reach \cap Tables, NEW k \in DOMAIN fields'[t], WeakValues(t)
      PROVE  fields'[t][k] \in Reach \cup {Prim}
  <2>1. Roots(host) = ProgramRoots
    BY <1>1, <1>6, RootsAreAll DEF InSight
  <2>2. t \in M \cap Opened(FALSE)
    BY <1>2, <1>3, <2>1, ReachIsMarked DEF Opened, Things, Objects
  <2>3. PICK first, R : FirstClearing(first, M, FALSE) /\ SecondClearing(fields', first, M, R, FALSE)
    BY <1>1, Clearings
  <2>4. /\ k \in DOMAIN first[t] /\ k \in DOMAIN fields[t] /\ fields'[t][k] = fields[t][k]
        /\ Candidate(fields[t][k], FALSE) => fields[t][k] \in M
    <3>1. k \in DOMAIN first[t] /\ fields'[t][k] = first[t][k]
      BY <2>3 DEF SecondClearing
    <3> HIDE DEF M
    <3> QED BY <1>6, <2>2, <2>3, <3>1 DEF FirstClearing
  <2>5. fields[t][k] \in Refs
    BY <2>4, HeapTypes
  <2> QED BY <1>4, <2>4, <2>5 DEF Candidate, Refs
<1> QED BY <1>5, <1>6

(* A finalizer finds the entries of what dies with it: one step.              *)
LEMMA KeepsStep ==
  ASSUME TypeOK, [Next]_vars, Begins, NEW t \in Tables,
         NEW k \in DOMAIN fields[t] \cap RangeOf(dying'), ~WeakValues(t)
  PROVE  k \in DOMAIN fields'[t]
<1>1. PICK minor \in BOOLEAN, host \in BOOLEAN : BeginCollect(minor, host)
  BY OnlyBeginBegins
<1> DEFINE M == Trace(fields, Roots(host), minor)
           dead == {x \in RangeOf(finalizable) : x \notin M /\ Candidate(x, minor)}
           seeds == Roots(host) \cup dead
<1>2. PICK first : /\ FirstClearing(first, M, minor)
                   /\ SecondClearing(fields', first, M, Trace(first, seeds, minor), minor)
  BY <1>1, Clearings
<1> DEFINE R == Trace(first, seeds, minor)
<1>3. k \in dead
  <2>1. PICK d \in [1 .. Cardinality(dead) -> dead] : dying' = d
    BY <1>1 DEF BeginCollect
  <2> HIDE DEF dead
  <2> QED BY <2>1 DEF RangeOf
<1>4. k \in R
  <2>1. \A u \in Tables : \A x \in DOMAIN first[u] : first[u][x] \in Refs
    <3> HIDE DEF M
    <3> QED BY <1>2, HeapTypes DEF FirstClearing
  <2>2. k \in Things
    BY <1>3 DEF Candidate, Things
  <2> DEFINE all == seeds \cup (IF minor THEN remembered ELSE {})
  <2>3. R = Traced(first, all, Opened(minor))
    BY DEF Trace
  <2>4. k \in all
    BY <1>3
  <2> HIDE DEF all, R
  <2> QED BY <2>1, <2>2, <2>3, <2>4, TracedIsClosed
<1>5. FirstClearing(first, M, minor) /\ SecondClearing(fields', first, M, R, minor)
  BY <1>2
<1> HIDE DEF M, R
<1>6. k \in DOMAIN first[t]
  BY <1>5 DEF FirstClearing
<1> QED BY <1>4, <1>5, <1>6 DEF SecondClearing

(* A major collection that sees every stack clears only garbage: one step.     *)
LEMMA ClearsStep ==
  ASSUME TypeOK, [Next]_vars, Begins, ~cycle'.minor, InSight,
         NEW t \in Tables, NEW k \in DOMAIN fields[t] \ DOMAIN fields'[t]
  PROVE  \/ WeakKeys(t) /\ k \in Objects \ Reach'
         \/ WeakValues(t) /\ fields[t][k] \in Objects \ Reach'
<1>1. PICK host \in BOOLEAN :
        BeginCollect(FALSE, host) /\ cycle' = [minor |-> FALSE, host |-> host, on |-> TRUE]
  <2>1. PICK minor \in BOOLEAN, host \in BOOLEAN :
          /\ BeginCollect(minor, host)
          /\ cycle' = [minor |-> minor, host |-> host, on |-> TRUE]
    BY OnlyBeginBegins
  <2>2. minor = FALSE
    BY <2>1
  <2> QED BY <2>1, <2>2
<1>2. Roots(host) = ProgramRoots /\ ProgramRoots \subseteq Objects
  BY <1>1, RootsAreAll DEF InSight
<1> DEFINE M == Trace(fields, Roots(host), FALSE)
           dead == {x \in RangeOf(finalizable) : x \notin M /\ Candidate(x, FALSE)}
           seeds == Roots(host) \cup dead
<1>3. PICK first : /\ FirstClearing(first, M, FALSE)
                   /\ SecondClearing(fields', first, M, Trace(first, seeds, FALSE), FALSE)
  BY <1>1, Clearings
<1> DEFINE R == Trace(first, seeds, FALSE)
<1>4. M = Traced(fields, ProgramRoots, Things) /\ R = Traced(first, seeds, Things)
  BY <1>2 DEF Trace, Opened
<1>5. seeds \subseteq Objects /\ ProgramRoots \subseteq seeds
  BY <1>2 DEF Candidate
<1>6. ProgramRoots \subseteq M \cap Objects /\ ReachRules(fields, M \cap Objects)
  <2>1. \A u \in Tables : \A x \in DOMAIN fields[u] : x \in Refs /\ fields[u][x] \in Refs
    BY HeapTypes
  <2> HIDE DEF M
  <2> QED BY <1>2, <1>4, <2>1, MarkedIsClosed
<1>7. ProgramRoots \subseteq R \cap Objects /\ ReachRules(first, R \cap Objects)
  <2>1. \A u \in Tables : \A x \in DOMAIN first[u] : x \in Refs /\ first[u][x] \in Refs
    <3> HIDE DEF M, R
    <3> QED BY ZenonT(40), <1>3, HeapTypes DEF FirstClearing
  <2>2. seeds \subseteq R \cap Objects /\ ReachRules(first, R \cap Objects)
    <3> HIDE DEF seeds, R
    <3> QED BY <1>4, <1>5, <2>1, MarkedIsClosed
  <2> HIDE DEF seeds, R
  <2> QED BY <1>5, <2>2
<1>8. UNCHANGED <<meta, upval, regs, calls>>
  BY <1>1 DEF BeginCollect, program
<1>9. FirstClearing(first, M, FALSE) /\ SecondClearing(fields', first, M, R, FALSE)
  BY <1>3
<1> HIDE DEF M, R, seeds
<1>10. PICK S \in SUBSET Objects : S = (M \cap Objects) \cap (R \cap Objects)
  OBVIOUS
<1>11. ClosedUnderReach(S)'
  <2>1. ProgramRoots' = ProgramRoots /\ \A u \in Tables : WeakKeys(u)' = WeakKeys(u) /\ WeakValues(u)' = WeakValues(u)
    BY <1>8 DEF ProgramRoots, WeakKeys, WeakValues
  <2>2. ASSUME NEW u \in S \cap Tables, NEW x \in DOMAIN fields'[u]
        PROVE  /\ ~WeakKeys(u) => x \in S \cup {Prim}
               /\ ~WeakValues(u) /\ x \in S \cup {Prim} => fields'[u][x] \in S \cup {Prim}
    <3>1. /\ x \in DOMAIN first[u] /\ x \in DOMAIN fields[u]
          /\ fields'[u][x] = fields[u][x] /\ fields'[u][x] = first[u][x]
      <4>1. x \in DOMAIN first[u] /\ fields'[u][x] = first[u][x]
        BY <1>9 DEF SecondClearing
      <4> QED BY <1>9, <4>1 DEF FirstClearing
    <3> QED BY <1>6, <1>7, <1>10, <3>1 DEF ReachRules
  <2>3. ASSUME NEW c \in S \cap Closures PROVE upval'[c] \in S \cup {Prim}
    BY <1>6, <1>7, <1>8, <1>10 DEF ReachRules
  <2>4. ASSUME NEW c \in S \cap Threads PROVE regs'[c] \subseteq S
    BY <1>6, <1>7, <1>8, <1>10 DEF ReachRules
  <2>5. ProgramRoots \subseteq S
    BY <1>6, <1>7, <1>10
  <2> QED BY <2>1, <2>2, <2>3, <2>4, <2>5 DEF ClosedUnderReach
<1>12. Reach' \subseteq S
  BY <1>11 DEF Reach
<1>13. CASE k \notin DOMAIN first[t]
  BY <1>12, <1>13, <1>9, <1>10 DEF FirstClearing, Candidate
<1>14. CASE k \in DOMAIN first[t]
  <2>1. first[t][k] = fields[t][k]
    BY <1>14, <1>9 DEF FirstClearing
  <2> QED BY <1>12, <1>14, <1>9, <1>10, <2>1 DEF SecondClearing, Candidate
<1> QED BY <1>13, <1>14

-----------------------------------------------------------------------------
(* Type correctness: the heap, the stacks and the bookkeeping of LuaGC hold    *)
(* only objects of the program.                                              *)
THEOREM TypeCorrect == Spec => []TypeOK
<1>1. Init => TypeOK
  BY TypeInit
<1>2. TypeOK /\ [Next]_vars => TypeOK'
  BY TypeKept
<1> QED BY <1>1, <1>2, PTL DEF Spec

(* _collect_cycle: a major collection that sees every stack finalizes no       *)
(* object that the program can still reach.                                  *)
THEOREM MajorSound == Spec => MajorIsSound
<1>1. TypeOK /\ [Next]_vars =>
        [Begins /\ ~cycle'.minor /\ InSight => RangeOf(dying') \cap Reach = {}]_vars
  BY MajorStep
<1> QED BY <1>1, TypeCorrect, PTL DEF Spec, MajorIsSound

(* _collect_cycle: so does a minor collection, when every edge from an old     *)
(* object to a younger one is remembered and no ephemeron has an old key.     *)
THEOREM MinorSound == Spec => MinorIsSound
<1>1. TypeOK /\ [Next]_vars =>
        [Begins /\ cycle'.minor /\ InSight /\ RemembersYoung /\ NoOldKeys =>
           RangeOf(dying') \cap Reach = {}]_vars
  BY MinorStep
<1> QED BY <1>1, TypeCorrect, PTL DEF Spec, MinorIsSound

(* _collect_cycle: a minor collection never finalizes an old object and never  *)
(* removes one from a weak table.                                            *)
THEOREM OldSafe == Spec => OldIsSafe
<1>1. [Next]_vars =>
        [Begins /\ cycle'.minor =>
           /\ \A t \in RangeOf(dying') : age[t] # "old"
           /\ \A t \in Tables : \A k \in DOMAIN fields[t] \ DOMAIN fields'[t] :
                \/ WeakKeys(t) /\ Young(k)
                \/ WeakValues(t) /\ Young(fields[t][k])]_vars
  BY OldStep
<1> QED BY <1>1, PTL DEF Spec, OldIsSafe

(* _collect_cycle: a major collection finalizes every marked table that the    *)
(* program cannot reach, and leaves no weak value that it cannot reach.        *)
THEOREM MajorFinds == Spec => MajorFindsGarbage
<1>1. Spec => []NoneTwice
  <2>1. Init => NoneTwice
    BY DEF Init, NoneTwice
  <2>2. TypeOK /\ NoneTwice /\ [Next]_vars => NoneTwice'
    BY NoneTwiceKept
  <2> QED BY <2>1, <2>2, TypeCorrect, PTL DEF Spec
<1>2. TypeOK /\ NoneTwice /\ [Next]_vars =>
        [Begins /\ ~cycle'.minor =>
           /\ RangeOf(finalizable) \ Reach \subseteq RangeOf(dying')
           /\ InSight => \A t \in Reach \cap Tables : \A k \in DOMAIN fields'[t] :
                WeakValues(t) => fields'[t][k] \in Reach \cup {Prim}]_vars
  BY FindsStep
<1> QED BY <1>1, <1>2, TypeCorrect, PTL DEF Spec, MajorFindsGarbage

(* _collect_cycle: a collection, minor or major, keeps the weak-key entries of *)
(* the objects it is about to finalize.                                      *)
THEOREM KeysOfDyingKept == Spec => KeepsKeysOfDying
<1>1. TypeOK /\ [Next]_vars =>
        [Begins => \A t \in Tables : \A k \in DOMAIN fields[t] \cap RangeOf(dying') :
           ~WeakValues(t) => k \in DOMAIN fields'[t]]_vars
  BY KeepsStep
<1> QED BY <1>1, TypeCorrect, PTL DEF Spec, KeepsKeysOfDying

(* _clear_weak_tables: a major collection that sees every stack takes from a   *)
(* weak table only entries whose weak key or value cannot be reached then.     *)
THEOREM ClearsGarbage == Spec => ClearsOnlyGarbage
<1>1. TypeOK /\ [Next]_vars =>
        [Begins /\ ~cycle'.minor /\ InSight =>
           \A t \in Tables : \A k \in DOMAIN fields[t] \ DOMAIN fields'[t] :
             \/ WeakKeys(t) /\ k \in Objects \ Reach'
             \/ WeakValues(t) /\ fields[t][k] \in Objects \ Reach']_vars
  BY ClearsStep
<1> QED BY <1>1, TypeCorrect, PTL DEF Spec, ClearsOnlyGarbage

=============================================================================

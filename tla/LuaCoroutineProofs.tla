--------------------------- MODULE LuaCoroutineProofs ---------------------------
(***************************************************************************)
(* LuaThreads implements LuaCoroutines, for every set of coroutines and     *)
(* every bound, when no handler yields while its coroutine is being closed  *)
(* and none revives a coroutine that its own entry has closed.              *)
(*                                                                          *)
(* The proof needs two facts more than StatusTellsTruth does: a coroutine   *)
(* whose status was ever changed has an entry (Born), and one whose entry   *)
(* is a host function is executed by nothing else, and reports so while it  *)
(* is (HostFits).  A step keeps the k outermost activations and adds at     *)
(* most one; the lemmas about the chain and about the lives reduce every    *)
(* action to that.                                                          *)
(***************************************************************************)
EXTENDS LuaThreadsProofs

USE DEF Depth, Top

Born(t) == status[t] # "suspended" => entry[t] # "none"

HostFits(i) ==
  LET a == calls[i] IN
  /\ a.kind \in {"resume", "close", "closeself"} => entry[a.thread] # "host"
  /\ a.kind = "host" => status[a.thread] \in Actives

HostsInv == \A i \in 1 .. Depth : HostFits(i)
BornInv == \A t \in Threads : Born(t)

ChainInv == StatusInv /\ HostsInv /\ BornInv

-----------------------------------------------------------------------------
(* The chain of a step that keeps the k outermost activations.               *)

Links == [who: AllThreads \cup {NoThread}, does: {"body", "host", "close", "call", "enter"}]

LEMMA ChainFacts ==
  ASSUME TypeOK
  PROVE  /\ Chain \in Seq(Links) /\ Len(Chain) = Depth /\ Depth \in Nat
         /\ \A i \in 1 .. Depth : /\ Chain[i].who = calls[i].thread
                                  /\ Chain[i].does = Does(calls[i].kind)
                                  /\ Chain[i] = Coroutines!Link(calls[i].thread, Does(calls[i].kind))
<1>1. Depth \in Nat /\ \A i \in 1 .. Depth : calls[i] \in Activations
  BY TopFacts DEF TypeOK
<1>2. \A i \in 1 .. Depth : Chain[i] \in Links
  BY <1>1 DEF Chain, Links, Activations, Does
<1>3. Chain \in [1 .. Depth -> Links]
  BY <1>2 DEF Chain
<1>4. Chain \in Seq(Links) /\ Len(Chain) = Depth
  BY <1>1, <1>3
<1> QED BY <1>1, <1>4 DEF Chain, Coroutines!Link

LEMMA ChainPops ==
  ASSUME TypeOK, NEW k \in 0 .. Depth, calls' \in Seq(Activations), Kept(k), Len(calls') = k
  PROVE  Chain' = SubSeq(Chain, 1, k)
<1>1. /\ k \in Nat /\ Depth \in Nat /\ 1 .. k \subseteq 1 .. Depth
  BY TopFacts DEF TypeOK
<1>2. \A i \in 1 .. k : Chain'[i] = Chain[i]
  BY <1>1 DEF Chain, Kept
<1>3. Chain \in Seq(Links) /\ Len(Chain) = Depth
  BY ChainFacts
<1>4. Chain' = [i \in 1 .. k |-> Chain'[i]]
  BY DEF Chain
<1>5. SubSeq(Chain, 1, k) = [i \in 1 .. k |-> Chain[i]]
  BY <1>1, <1>3
<1> QED BY <1>2, <1>4, <1>5

LEMMA AppendIs ==
  ASSUME NEW S, NEW s \in Seq(S), NEW l \in S
  PROVE  Append(s, l) = [i \in 1 .. Len(s) + 1 |-> IF i = Len(s) + 1 THEN l ELSE s[i]]
<1> DEFINE c == Append(s, l)
<1>1. /\ c \in Seq(S) /\ Len(c) = Len(s) + 1
      /\ \A i \in 1 .. Len(s) : c[i] = s[i]
      /\ c[Len(s) + 1] = l
  OBVIOUS
<1> HIDE DEF c
<1>2. c = [i \in 1 .. Len(c) |-> c[i]]
  BY <1>1
<1>3. \A i \in 1 .. Len(s) + 1 : i # Len(s) + 1 => i \in 1 .. Len(s)
  OBVIOUS
<1>4. c = [i \in 1 .. Len(s) + 1 |-> IF i = Len(s) + 1 THEN l ELSE s[i]]
  BY <1>1, <1>2, <1>3
<1> QED BY <1>4 DEF c

LEMMA ChainPushes ==
  ASSUME TypeOK, NEW k \in 0 .. Depth, calls' \in Seq(Activations), Kept(k), Len(calls') = k + 1
  PROVE  Chain' = Append(SubSeq(Chain, 1, k),
                         Coroutines!Link(calls'[k + 1].thread, Does(calls'[k + 1].kind)))
<1>1. /\ k \in Nat /\ Depth \in Nat /\ 1 .. k \subseteq 1 .. Depth
      /\ \A i \in 1 .. k + 1 : i # k + 1 => i \in 1 .. k
  BY TopFacts DEF TypeOK
<1> DEFINE l == Coroutines!Link(calls'[k + 1].thread, Does(calls'[k + 1].kind))
           s == SubSeq(Chain, 1, k)
<1>2. Chain \in Seq(Links) /\ Len(Chain) = Depth
  BY ChainFacts
<1>3. s \in Seq(Links) /\ Len(s) = k /\ \A i \in 1 .. k : s[i] = Chain[i]
  BY <1>1, <1>2
<1>4. \A i \in 1 .. k : Chain'[i] = Chain[i]
  BY <1>1 DEF Chain, Kept
<1>5. Chain'[k + 1] = l
  BY <1>1 DEF Chain, Coroutines!Link
<1>6. Chain' = [i \in 1 .. k + 1 |-> Chain'[i]]
  BY DEF Chain
<1>9. l \in Links
  <2>1. calls'[k + 1] \in Activations
    BY <1>1
  <2> QED BY <2>1 DEF Links, Coroutines!Link, Activations, Does
<1> HIDE DEF l, s
<1>7. Append(s, l) = [i \in 1 .. k + 1 |-> IF i = k + 1 THEN l ELSE s[i]]
  BY <1>1, <1>3, <1>9, AppendIs
<1>8. \A i \in 1 .. k + 1 : Chain'[i] = IF i = k + 1 THEN l ELSE s[i]
  BY <1>1, <1>3, <1>4, <1>5
<1> QED BY <1>6, <1>7, <1>8 DEF l, s

LEMMA ChainWhole ==
  ASSUME TypeOK
  PROVE  SubSeq(Chain, 1, Depth) = Chain
BY ChainFacts

(* What is on top turns into something else.                                 *)
LEMMA ChainTurns ==
  ASSUME TypeOK, Depth > 0, NEW l \in Links
  PROVE  Append(SubSeq(Chain, 1, Depth - 1), l) = [Chain EXCEPT ![Depth] = l]
<1>1. Chain \in Seq(Links) /\ Len(Chain) = Depth /\ Depth \in Nat /\ Depth \in 1 .. Depth
  BY ChainFacts
<1> HIDE DEF Links, Depth
<1> QED BY <1>1

(* A wrapper that closes its failed coroutine turns the body into a close.    *)
LEMMA ChainCloses ==
  ASSUME TypeOK, Depth > 0, NEW l, l = Coroutines!Link(Chain[Depth].who, "close")
  PROVE  l \in Links /\ [Chain EXCEPT ![Depth] = l] = [Chain EXCEPT ![Depth].does = "close"]
<1>1. Chain \in Seq(Links) /\ Len(Chain) = Depth /\ Depth \in Nat /\ Depth \in 1 .. Depth
  BY ChainFacts
<1>2. l = [Chain[Depth] EXCEPT !.does = "close"] /\ l \in Links
  <2>1. Chain[Depth] \in Links
    BY <1>1
  <2> QED BY <2>1 DEF Links, Coroutines!Link
<1> HIDE DEF Links, Depth
<1> QED BY <1>1, <1>2

-----------------------------------------------------------------------------
(* The lives of a step that keeps the k outermost activations.               *)

HeldBelow(t, k) == \E i \in 1 .. k : calls[i].thread = t /\ ~AsCaller(calls[i])

(* It keeps k activations, adds one at most, and touches the status of no     *)
(* coroutine outside the stack, t excepted.                                  *)
Steps(k, t) ==
  /\ calls' \in Seq(Activations) /\ Kept(k) /\ Len(calls') \in {k, k + 1}
  /\ UNCHANGED entry
  /\ \A u \in Threads : u # t /\ ~Within(u) => status'[u] = status[u]

(* It adds an activation of t that is no host code of its caller.             *)
Joins(k, t) == Len(calls') = k + 1 /\ calls'[k + 1].thread = t /\ ~AsCaller(calls'[k + 1])

LEMMA HeldAfter ==
  ASSUME TypeOK, NEW k \in 0 .. Depth, Kept(k), Len(calls') \in {k, k + 1}, NEW u
  PROVE  Held(u)' <=> HeldBelow(u, k) \/ Joins(k, u)
<1>1. k \in Nat /\ \A i \in 1 .. Len(calls') : i \in 1 .. k \/ (i = k + 1 /\ Len(calls') = k + 1)
  BY TopFacts DEF TypeOK
<1>2. 1 .. k \subseteq 1 .. Len(calls') /\ (Len(calls') = k + 1 => k + 1 \in 1 .. Len(calls'))
  BY <1>1
<1> QED BY <1>1, <1>2 DEF Held, HeldBelow, Joins, Kept, AsCaller

LEMMA HeldBefore ==
  ASSUME TypeOK, NEW k \in 0 .. Depth, NEW u
  PROVE  /\ HeldBelow(u, k) => Held(u)
         /\ Held(u) => HeldBelow(u, k) \/
              \E j \in k + 1 .. Depth : calls[j].thread = u /\ ~AsCaller(calls[j])
<1>1. 1 .. k \subseteq 1 .. Depth /\ \A i \in 1 .. Depth : i \in 1 .. k \/ i \in k + 1 .. Depth
  BY TopFacts DEF TypeOK
<1> QED BY <1>1 DEF Held, HeldBelow

(* What is on the stack is held.                                             *)
LEMMA WithinIsHeld ==
  ASSUME TypeOK, ChainInv, NEW u \in Threads
  PROVE  Within(u) => Held(u)
<1> SUFFICES ASSUME NEW i \in 1 .. Depth, calls[i].thread = u PROVE Held(u)
  BY DEF Within
<1>1. PICK j \in 1 .. i : calls[j].thread = u /\ ~AsCaller(calls[j])
  BY DEF ChainInv, StatusInv, StackInv, Anchored
<1>2. j \in 1 .. Depth
  BY TopFacts DEF TypeOK
<1> QED BY <1>1, <1>2 DEF Held

(* What is held has an entry, and does not rest.                             *)
LEMMA HeldIsBorn ==
  ASSUME TypeOK, ChainInv, NEW u \in Threads, Held(u)
  PROVE  entry[u] # "none" /\ status[u] # "suspended" /\ Life(u) = "active"
BY DEF ChainInv, StatusInv, ProtocolInv, HeldIsAwake, BornInv, Born, Held, Life

LEMMA LifeStays ==
  ASSUME TypeOK, ChainInv, NEW k \in 0 .. Depth, NEW t, Steps(k, t), NEW u \in Threads, u # t,
         \A j \in k + 1 .. Depth : calls[j].thread = u => AsCaller(calls[j]),
         ~Joins(k, u)
  PROVE  Life(u)' = Life(u)
<1>1. Held(u)' <=> Held(u)
  BY HeldAfter, HeldBefore DEF Steps
<1>2. CASE Held(u)
  BY <1>1, <1>2 DEF Life
<1>3. CASE ~Held(u)
  <2>1. status'[u] = status[u] /\ entry'[u] = entry[u]
    BY <1>3, WithinIsHeld DEF Steps
  <2> QED BY <1>1, <1>3, <2>1 DEF Life
<1> QED BY <1>2, <1>3

(* The life of t itself.                                                     *)
LEMMA LifeOfStepped ==
  ASSUME TypeOK, ChainInv, NEW k \in 0 .. Depth, NEW s, Steps(k, s), NEW t \in Threads
  PROVE  /\ HeldBelow(t, k) \/ Joins(k, t) => Life(t)' = "active"
         /\ ~HeldBelow(t, k) /\ ~Joins(k, t) /\ entry[t] # "none" =>
              Life(t)' = IF status'[t] \in Actives THEN "lost" ELSE status'[t]
<1>1. entry'[t] = entry[t]
  BY DEF Steps
<1> QED BY <1>1, HeldAfter DEF Steps, Life, Actives

LEMMA LivesBecome ==
  ASSUME NEW t \in Threads, NEW l, Life(t)' = l,
         \A u \in Threads : u # t => Life(u)' = Life(u)
  PROVE  Coroutines!Become(t, l)
BY DEF Coroutines!Become, LifeOf

LEMMA LivesStay ==
  ASSUME \A u \in Threads : Life(u)' = Life(u)
  PROVE  LifeOf' = LifeOf
BY DEF LifeOf

-----------------------------------------------------------------------------
(* What every step does to the two facts.                                    *)

Keeps == HostsInv' /\ BornInv'

(* The activation it adds, if it adds one.                                   *)
NewFits(k) ==
  LET a == calls'[k + 1] IN
  /\ a.kind \in {"resume", "close", "closeself"} => entry'[a.thread] # "host"
  /\ a.kind = "host" => status'[a.thread] \in Actives

(* A host function shares its coroutine with no other body or close.          *)
LEMMA HostApart ==
  ASSUME TypeOK, ChainInv, NEW i \in 1 .. Depth, NEW n \in 1 .. Depth, calls[i].kind = "host",
         calls[n].kind \in {"resume", "close", "closeself"} \/ (Resuming(calls[n]) /\ i < n)
  PROVE  calls[i].thread # calls[n].thread
<1>1. entry[calls[i].thread] = "host"
  BY DEF ChainInv, StatusInv, StackInv, KindsFit
<1>2. CASE calls[n].kind \in {"resume", "close", "closeself"}
  BY <1>1, <1>2 DEF ChainInv, HostsInv, HostFits
<1>3. CASE Resuming(calls[n]) /\ i < n
  BY <1>3 DEF ChainInv, StatusInv, ProtocolInv, NoReentry
<1> QED BY <1>2, <1>3

LEMMA StepKeeps ==
  ASSUME TypeOK, ChainInv, NEW k \in 0 .. Depth, NEW t, Steps(k, t),
         t \in Threads => entry[t] # "none",
         \A i \in 1 .. k : calls[i].kind = "host" => status'[calls[i].thread] \in Actives,
         Len(calls') = k + 1 => NewFits(k)
  PROVE  Keeps
<1>1. /\ 1 .. k \subseteq 1 .. Depth /\ k \in Nat
      /\ \A i \in 1 .. Len(calls') : i \in 1 .. k \/ (i = k + 1 /\ Len(calls') = k + 1)
  BY TopFacts DEF TypeOK, Steps
<1>2. ASSUME NEW i \in 1 .. k PROVE HostFits(i)'
  <2>1. /\ calls'[i].kind = calls[i].kind /\ calls'[i].thread = calls[i].thread
        /\ entry' = entry /\ HostFits(i)
    BY <1>1, <1>2 DEF Steps, Kept, ChainInv, HostsInv
  <2> QED BY <2>1 DEF HostFits
<1>3. HostsInv'
  BY <1>1, <1>2 DEF HostsInv, HostFits, NewFits
<1>4. ASSUME NEW u \in Threads, status'[u] # "suspended" PROVE entry'[u] # "none"
  <2>1. entry' = entry /\ Born(u)
    BY DEF Steps, ChainInv, BornInv
  <2>2. CASE Within(u) \/ u = t
    BY <2>1, <2>2, WithinIsHeld, HeldIsBorn
  <2>3. CASE ~Within(u) /\ u # t
    BY <1>4, <2>1, <2>3 DEF Steps, Born
  <2> QED BY <2>2, <2>3
<1> QED BY <1>3, <1>4 DEF Keeps, BornInv, Born

LEMMA LeavesKeeps ==
  ASSUME TypeOK, ChainInv, NEW k \in 0 .. Depth, NEW t,
         calls' \in Seq(Activations), Kept(k), Len(calls') \in {k, k + 1},
         UNCHANGED entry, Leaves(k, t),
         t \in Threads => entry[t] # "none",
         \A i \in 1 .. k : calls[i].kind = "host" => calls[i].thread # t,
         Len(calls') = k + 1 => NewFits(k)
  PROVE  Steps(k, t) /\ Keeps
<1>1. 1 .. k \subseteq 1 .. Depth /\ Threads \subseteq AllThreads /\ Linked
  BY TopFacts DEF TypeOK, AllThreads, ChainInv, StatusInv, ProtocolInv
<1>2. \A u \in Threads : u # t /\ ~Within(u) => status'[u] = status[u]
  BY <1>1, ResumerWithin DEF Leaves
<1>3. Steps(k, t)
  BY <1>2 DEF Steps
<1>4. ASSUME NEW i \in 1 .. k, calls[i].kind = "host"
      PROVE  status'[calls[i].thread] \in Actives
  <2>1. calls[i].thread \in AllThreads /\ calls[i].thread # t /\ status[calls[i].thread] \in Actives
    BY <1>1, <1>4 DEF Linked, Resuming, ChainInv, HostsInv, HostFits
  <2> QED BY <2>1 DEF Leaves, Actives
<1> QED BY <1>3, <1>4, StepKeeps

-----------------------------------------------------------------------------
(* The chain and what is on top of it.                                       *)

ChainStep == Coroutines!Next \/ UNCHANGED <<LifeOf, Chain>>

LEMMA TopLink ==
  ASSUME TypeOK, ChainInv, Depth > 0
  PROVE  /\ Coroutines!Depth = Depth
         /\ Coroutines!Top.who = current /\ Coroutines!Top.does = Does(Top.kind)
         /\ Depth \in Nat /\ Depth \in 1 .. Depth /\ Depth - 1 \in 0 .. Depth
         /\ Depth - 1 + 1 = Depth
         /\ \A j \in Depth - 1 + 1 .. Depth : j = Depth
         /\ \A i \in 1 .. Depth - 1 : i \in 1 .. Depth /\ i < Depth
         /\ Linked /\ current = Top.thread /\ Top \in Activations
<1>1. Linked /\ current = Top.thread /\ Depth \in Nat /\ Depth \in 1 .. Depth /\ Top \in Activations
  BY InsideFacts DEF ChainInv, StatusInv
<1> QED BY <1>1, ChainFacts DEF Coroutines!Depth, Coroutines!Top

LEMMA DoesFacts ==
  /\ Does("resume") = "body" /\ Does("host") = "host"
  /\ Does("sync") = "call" /\ Does("run") = "call"
  /\ Does("close") = "close" /\ Does("closeself") = "close" /\ Does("entry") = "enter"
BY DEF Does

(* What is on top of the nth activation are calls of coroutines that are about  *)
(* to be entered: the one on the stack is what a coroutine executes.          *)
Uncovered(n) == \A j \in n + 1 .. Depth : calls[j].kind = "entry"

LEMMA UncoveredFacts ==
  ASSUME TypeOK, ChainInv, NEW n \in 1 .. Depth, NEW k, k = n - 1, Uncovered(n), PopTo(k)
  PROVE  /\ Linked /\ k \in 0 .. Depth /\ k + 1 = n /\ k # n
         /\ \A j \in k + 1 .. Depth : j = n \/ AsCaller(calls[j])
         /\ \A i \in 1 .. k : i \in 1 .. Depth /\ i < n
         /\ calls' \in Seq(Activations) /\ Kept(k) /\ Len(calls') = k
         /\ Len(calls') \in {k, k + 1} /\ Len(calls') # k + 1
         /\ Coroutines!Depth = Depth /\ Coroutines!Innermost(n) /\ Coroutines!Keep(k)
         /\ Chain[n].who = calls[n].thread /\ Chain[n].does = Does(calls[n].kind)
<1>1. /\ Linked /\ Depth \in Nat /\ n \in Nat /\ k \in 0 .. Depth /\ k + 1 = n /\ k # n
      /\ \A i \in 1 .. k : i \in 1 .. Depth /\ i < n
      /\ \A j \in k + 1 .. Depth : j = n \/ j \in n + 1 .. Depth
      /\ \A j \in n + 1 .. Depth : j \in 1 .. Depth
  BY TopFacts DEF TypeOK, ChainInv, StatusInv, ProtocolInv
<1>2. calls' \in Seq(Activations) /\ Kept(k) /\ Len(calls') = k
  BY <1>1, PopToShape DEF Popped
<1>3. \A j \in k + 1 .. Depth : j = n \/ AsCaller(calls[j])
  BY <1>1 DEF Uncovered, AsCaller
<1>4. Coroutines!Depth = Depth
  BY ChainFacts DEF Coroutines!Depth
<1>5. Coroutines!Innermost(n)
  BY <1>1, <1>4, ChainFacts, DoesFacts DEF Coroutines!Innermost, Uncovered
<1>6. Coroutines!Keep(k)
  BY <1>1, <1>2, ChainPops DEF Coroutines!Keep
<1> QED BY <1>1, <1>2, <1>3, <1>4, <1>5, <1>6, ChainFacts

(* The activation that executes a body ends.                                 *)
LEMMA BodyLeaves ==
  ASSUME TypeOK, ChainInv, NEW n \in 1 .. Depth, NEW k, k = n - 1, Uncovered(n), PopTo(k),
         Resuming(calls[n]), UNCHANGED entry,
         NEW s \in {"suspended", "dead"}, NEW t, t = calls[n].thread,
         status' = StatusLeaving(k, t, s)
  PROVE  Keeps /\ t \in Threads /\ Coroutines!Become(t, s)
<1>1. /\ Linked /\ k \in 0 .. Depth /\ k + 1 = n
      /\ \A j \in k + 1 .. Depth : j = n \/ AsCaller(calls[j])
      /\ \A i \in 1 .. k : i \in 1 .. Depth /\ i < n
      /\ calls' \in Seq(Activations) /\ Kept(k) /\ Len(calls') = k
      /\ Len(calls') \in {k, k + 1} /\ Len(calls') # k + 1
  BY UncoveredFacts
<1>2. t \in Threads /\ t \in AllThreads
  BY <1>1 DEF Linked, AllThreads
<1>4. Leaves(k, t) /\ status'[t] = s
  BY <1>2, LeavingLeaves
<1>5. Held(t) /\ entry[t] # "none"
  <2>1. Held(t)
    BY DEF Held, Resuming, AsCaller
  <2> QED BY <1>2, <2>1, HeldIsBorn
<1>6. \A i \in 1 .. k : calls[i].thread # t
  BY <1>1 DEF ChainInv, StatusInv, ProtocolInv, NoReentry
<1> HIDE DEF Depth, Top
<1>7. Steps(k, t) /\ Keeps
  BY <1>1, <1>4, <1>5, <1>6, LeavesKeeps
<1>8. ~HeldBelow(t, k) /\ \A u : ~Joins(k, u)
  BY <1>1, <1>6 DEF HeldBelow, Joins
<1>9. Life(t)' = s
  BY <1>1, <1>2, <1>4, <1>5, <1>7, <1>8, LifeOfStepped DEF Actives
<1>10. \A u \in Threads : u # t => Life(u)' = Life(u)
  BY <1>1, <1>7, <1>8, LifeStays
<1>11. Coroutines!Become(t, s)
  BY <1>2, <1>9, <1>10, LivesBecome
<1> QED BY <1>2, <1>7, <1>11

(* The activation of a chunk, of a callback, or of a coroutine that is about   *)
(* to be entered ends; the resumer may run again.                            *)
LEMMA CallLeaves ==
  ASSUME TypeOK, ChainInv, NEW n \in 1 .. Depth, NEW k, k = n - 1, Uncovered(n), PopTo(k),
         calls[n].kind \in {"sync", "run", "entry"}, UNCHANGED entry,
         \A u \in AllThreads : \/ status'[u] = status[u]
                               \/ status'[u] = "running" /\ (u \in Threads => Within(u))
  PROVE  Keeps /\ UNCHANGED LifeOf
<1>1. /\ Linked /\ k \in 0 .. Depth /\ k + 1 = n
      /\ \A j \in k + 1 .. Depth : j = n \/ AsCaller(calls[j])
      /\ \A i \in 1 .. k : i \in 1 .. Depth /\ i < n
      /\ calls' \in Seq(Activations) /\ Kept(k) /\ Len(calls') = k
      /\ Len(calls') \in {k, k + 1} /\ Len(calls') # k + 1
  BY UncoveredFacts
<1>2. NoThread \notin Threads /\ Main \notin Threads /\ Threads \subseteq AllThreads
  BY ThreadsAssumption DEF AllThreads
<1>3. Steps(k, NoThread)
  BY <1>1, <1>2 DEF Steps
<1>4. \A i \in 1 .. k : calls[i].kind = "host" => status'[calls[i].thread] \in Actives
  <2> SUFFICES ASSUME NEW i \in 1 .. k, calls[i].kind = "host"
               PROVE  status'[calls[i].thread] \in Actives
    OBVIOUS
  <2>1. calls[i].thread \in AllThreads /\ status[calls[i].thread] \in Actives
    BY <1>1, <1>2 DEF Linked, Resuming, ChainInv, HostsInv, HostFits
  <2> QED BY <2>1 DEF Actives
<1>5. Keeps
  BY <1>1, <1>2, <1>3, <1>4, StepKeeps
<1>6. ASSUME NEW u \in Threads PROVE Life(u)' = Life(u)
  <2>1. \A j \in k + 1 .. Depth : calls[j].thread = u => AsCaller(calls[j])
    BY <1>1, <1>2 DEF ChainInv, StatusInv, StackInv, KindsFit, AsCaller
  <2>2. ~Joins(k, u) /\ u # NoThread
    BY <1>1, <1>2 DEF Joins
  <2> HIDE DEF Depth, Top
  <2> QED BY <1>1, <1>3, <2>1, <2>2, LifeStays
<1> QED BY <1>5, <1>6, LivesStay

(* Nothing of the chain or of the lives changes.                             *)
LEMMA NothingMoves ==
  ASSUME TypeOK, ChainInv, calls' \in Seq(Activations), Popped(Depth), UNCHANGED entry,
         NEW t, Leaves(Depth, t), t \in Threads => Held(t),
         \A i \in 1 .. Depth : calls[i].kind = "host" => calls[i].thread # t
  PROVE  Keeps /\ UNCHANGED <<LifeOf, Chain>>
<1>1. Depth \in Nat /\ Depth \in 0 .. Depth /\ Depth # Depth + 1 /\ \A j \in Depth + 1 .. Depth : FALSE
  BY TopFacts DEF TypeOK
<1>2. Kept(Depth) /\ Len(calls') = Depth
  BY DEF Popped
<1>3. Steps(Depth, t) /\ Keeps
  <2>1. Len(calls') \in {Depth, Depth + 1} /\ Len(calls') # Depth + 1
    BY <1>1, <1>2
  <2>2. t \in Threads => entry[t] # "none"
    BY HeldIsBorn
  <2> QED BY <1>1, <1>2, <2>1, <2>2, LeavesKeeps
<1>4. \A u : ~Joins(Depth, u)
  BY <1>1, <1>2 DEF Joins
<1>5. ASSUME NEW u \in Threads PROVE Life(u)' = Life(u)
  <2>1. CASE u # t
    BY <1>1, <1>3, <1>4, <2>1, LifeStays
  <2>2. CASE u = t
    <3>1. Held(u) /\ Life(u) = "active"
      BY <2>2, HeldIsBorn
    <3>2. HeldBelow(u, Depth)
      BY <3>1 DEF Held, HeldBelow
    <3> QED BY <1>1, <1>3, <3>1, <3>2, LifeOfStepped
  <2> QED BY <2>1, <2>2
<1>6. Chain' = Chain
  BY <1>1, <1>2, ChainPops, ChainWhole
<1> QED BY <1>3, <1>5, <1>6, LivesStay

-----------------------------------------------------------------------------
(* The actions.                                                              *)

LEMMA SameLinks ==
  ASSUME TypeOK, ChainInv, UNCHANGED <<entry, status, calls>>
  PROVE  Keeps /\ ChainStep
<1>1. HostsInv' /\ BornInv'
  BY DEF ChainInv, HostsInv, HostFits, BornInv, Born
<1>2. Chain' = Chain
  BY DEF Chain
<1>3. LifeOf' = LifeOf
  BY DEF LifeOf, Life, Held
<1> QED BY <1>1, <1>2, <1>3 DEF Keeps, ChainStep

LEMMA YieldLinks ==
  ASSUME TypeOK, ChainInv, HandlersYield = FALSE, Yield
  PROVE  Keeps /\ ChainStep
<1>1. PICK n \in 1 .. Depth : Innermost(n, Receivers) /\ YieldReaches(n)
  BY DEF Yield
<1>2. /\ UNCHANGED entry /\ Linked /\ current = calls[n].thread /\ Uncovered(n)
      /\ Depth > 0 /\ n \in 1 .. Coroutines!Depth
  <2>1. UNCHANGED entry /\ Linked
    BY DEF Yield, ChainInv, StatusInv, ProtocolInv
  <2>2. n \in 1 .. Coroutines!Depth /\ Depth > 0
    BY ChainFacts DEF Coroutines!Depth
  <2> QED BY <1>1, <2>1, <2>2, PassesEntries DEF Uncovered
<1>3. ASSUME NEW s \in {"suspended", "dead"}, NEW k, k = n - 1,
             calls[n].kind = IF s = "dead" THEN "host" ELSE "resume",
             status' = StatusLeaving(k, current, s), PopTo(k)
      PROVE  Keeps /\ ChainStep
  <2>1. Keeps /\ Coroutines!Become(current, s)
    BY <1>2, <1>3, BodyLeaves DEF Resuming
  <2>2. /\ Coroutines!Keep(n - 1) /\ Coroutines!Innermost(n)
        /\ Chain[n].who = current /\ Chain[n].does = IF s = "dead" THEN "host" ELSE "body"
    BY <1>2, <1>3, UncoveredFacts, DoesFacts
  <2>3. Coroutines!Suspend(n) \/ Coroutines!Finish(n)
    BY <1>2, <2>1, <2>2 DEF Coroutines!Suspend, Coroutines!Finish
  <2> QED BY <1>2, <2>1, <2>3 DEF ChainStep, Coroutines!Next
<1>4. ASSUME calls[n].kind = "sync", NEW k, k = n - 1, PopTo(k), UNCHANGED status
      PROVE  Keeps /\ ChainStep
  <2>1. Keeps /\ UNCHANGED LifeOf
    BY <1>2, <1>4, CallLeaves
  <2>2. Coroutines!Keep(n - 1) /\ Coroutines!Innermost(n) /\ Chain[n].does = "call"
    BY <1>2, <1>4, UncoveredFacts, DoesFacts
  <2>3. Coroutines!EndCall(n)
    BY <2>1, <2>2 DEF Coroutines!EndCall
  <2> QED BY <1>2, <2>1, <2>3 DEF ChainStep, Coroutines!Next
<1>5. CASE UNCHANGED <<status, calls, current>>
  BY <1>2, <1>5, SameLinks
<1> QED BY <1>1, <1>3, <1>4, <1>5 DEF YieldReaches

LEMMA BodyLinks ==
  ASSUME TypeOK, ChainInv, BodyReturns \/ BodyFails \/ \E failed \in BOOLEAN : HostEnds(failed)
  PROVE  Keeps /\ ChainStep
<1>1. Depth > 0 /\ Resuming(Top) /\ UNCHANGED entry
  BY DEF BodyReturns, BodyFails, HostEnds, Body, Running, Resuming
<1>2. /\ Depth \in Nat /\ Linked /\ Coroutines!Depth = Depth /\ Depth \in 1 .. Depth
      /\ Coroutines!Top.who = current /\ Coroutines!Top.does = Does(Top.kind)
      /\ current = Top.thread /\ Depth - 1 \in 0 .. Depth /\ Depth - 1 + 1 = Depth
      /\ \A i \in 1 .. Depth - 1 : i \in 1 .. Depth /\ i < Depth
      /\ \A j \in Depth - 1 + 1 .. Depth : j = Depth
  BY <1>1, TopLink
<1>3. CASE status' = StatusLeaving(Depth - 1, current, "dead") /\ PopTo(Depth - 1)
  <2>0. Uncovered(Depth)
    BY <1>2 DEF Uncovered
  <2>1. Keeps /\ Coroutines!Become(current, "dead")
    BY <1>1, <1>2, <1>3, <2>0, BodyLeaves
  <2>3. /\ Coroutines!Keep(Depth - 1) /\ Coroutines!Innermost(Depth)
        /\ Chain[Depth].who = current /\ Chain[Depth].does \in {"body", "host"}
    BY <1>1, <1>2, <1>3, <2>0, UncoveredFacts, DoesFacts DEF Resuming
  <2>2. Coroutines!Finish(Depth) /\ Depth \in 1 .. Coroutines!Depth
    BY <1>2, <2>1, <2>3 DEF Coroutines!Finish
  <2> QED BY <2>1, <2>2 DEF ChainStep, Coroutines!Next
<1>4. CASE BodyFails /\ wrapped[current]
  <2>1. Top.kind = "resume" /\ status' = StatusLeaving(Depth - 1, current, "running")
    BY <1>4 DEF BodyFails, Body
  <2>2. PICK t \in Threads : t = current
    BY <1>1, <1>2 DEF Linked
  <2>3. /\ calls' \in Seq(Activations) /\ Kept(Depth - 1) /\ Len(calls') = Depth
        /\ calls'[Depth].kind = "close" /\ calls'[Depth].thread = t
    BY <1>2, <1>4, <2>2, BodyFailsPushes DEF ChainInv, StatusInv, Pushed
  <2>4. Leaves(Depth - 1, t)
    BY <2>1, <2>2, LeavingLeaves
  <2>5. Held(t) /\ entry[t] # "none" /\ Life(t) = "active"
    <3>1. Held(t)
      BY <1>1, <1>2, <2>2 DEF Held, Resuming, AsCaller
    <3> QED BY <3>1, HeldIsBorn
  <2>6. NewFits(Depth - 1)
    <3>1. entry[t] # "host"
      BY <1>2, <2>1, <2>2 DEF ChainInv, HostsInv, HostFits
    <3> QED BY <1>1, <1>2, <2>3, <3>1 DEF NewFits
  <2>7. \A i \in 1 .. Depth - 1 : calls[i].thread # t
    BY <1>1, <1>2, <2>2 DEF ChainInv, StatusInv, ProtocolInv, NoReentry
  <2>8. Steps(Depth - 1, t) /\ Keeps
    <3>1. Len(calls') \in {Depth - 1, Depth - 1 + 1} /\ Len(calls') = Depth - 1 + 1
      BY <1>2, <2>3
    <3> HIDE DEF Depth, Top
    <3> QED BY <1>1, <1>2, <2>3, <2>4, <2>5, <2>6, <2>7, <3>1, LeavesKeeps
  <2>9. Joins(Depth - 1, t) /\ \A u : u # t => ~Joins(Depth - 1, u)
    BY <1>2, <2>3 DEF Joins, AsCaller
  <2>10. ASSUME NEW u \in Threads PROVE Life(u)' = Life(u)
    <3>1. CASE u = t
      BY <1>2, <2>5, <2>8, <2>9, <3>1, LifeOfStepped
    <3>2. CASE u # t
      <4>1. \A j \in Depth - 1 + 1 .. Depth : calls[j].thread = u => AsCaller(calls[j])
        BY <1>2, <2>2, <3>2
      <4> HIDE DEF Depth, Top
      <4> QED BY <1>2, <2>8, <2>9, <3>2, <4>1, LifeStays
    <3> QED BY <3>1, <3>2
  <2>11. Chain' = [Chain EXCEPT ![Depth].does = "close"]
    <3>1. Chain' = Append(SubSeq(Chain, 1, Depth - 1), Coroutines!Link(t, "close"))
      BY <1>2, <2>3, ChainPushes, DoesFacts
    <3>2. Chain[Depth].does = "body" /\ Chain[Depth].who = t
      BY <1>2, <2>1, <2>2, ChainFacts, DoesFacts
    <3> QED BY <1>1, <3>1, <3>2, ChainTurns, ChainCloses
  <2>12. Coroutines!FailWrapped
    BY <1>1, <1>2, <2>1, <2>10, <2>11, LivesStay, DoesFacts
       DEF Coroutines!FailWrapped, Coroutines!Ends
  <2> QED BY <2>8, <2>12 DEF ChainStep, Coroutines!Next
<1> QED BY <1>3, <1>4 DEF BodyReturns, BodyFails, HostEnds

(* A coroutine's body, or its close, joins the chain.                        *)
LEMMA Joining ==
  ASSUME TypeOK, ChainInv, NEW t \in Threads, Steps(Depth, t), Joins(Depth, t)
  PROVE  /\ Coroutines!Become(t, "active")
         /\ Coroutines!Join(t, Does(calls'[Depth + 1].kind))
<1>1. Depth \in Nat /\ Depth \in 0 .. Depth /\ \A j \in Depth + 1 .. Depth : FALSE
  BY TopFacts DEF TypeOK
<1>2. \A u \in Threads : u # t => Life(u)' = Life(u)
  BY <1>1, LifeStays DEF Joins
<1>3. Life(t)' = "active"
  BY <1>1, LifeOfStepped
<1>4. Chain' = Append(Chain, Coroutines!Link(t, Does(calls'[Depth + 1].kind)))
  BY <1>1, ChainPushes, ChainWhole DEF Steps, Joins
<1> QED BY <1>2, <1>3, <1>4, LivesBecome DEF Coroutines!Join

LEMMA EnterLinks ==
  ASSUME TypeOK, ChainInv, NEW t \in Threads, Resumable(t), UNCHANGED entry,
         NEW kind \in {"resume", "host"}, EnterThread(t, kind),
         kind = "host" <=> entry[t] = "host"
  PROVE  Keeps /\ ChainStep
<1>1. /\ Depth > 0 /\ entry[t] # "none" /\ status[t] = "suspended"
  BY DEF Resumable, Running
<1>2. EnterThread(t, kind)
  OBVIOUS
<1>3. /\ Depth \in Nat /\ Linked /\ Coroutines!Depth = Depth /\ Depth \in 1 .. Depth
      /\ current = Top.thread /\ Depth \in 0 .. Depth /\ Threads \subseteq AllThreads
  BY <1>1, TopLink DEF AllThreads
<1> DEFINE a == Activation(kind, t, FALSE)
<1>4. a \in Activations /\ a.kind = kind /\ a.thread = t
      /\ a.prev = (IF Depth = 0 THEN NoThread ELSE calls[Depth].thread)
  <2>1. kind \in Kinds /\ t \in AllThreads \cup {NoThread} /\ FALSE \in BOOLEAN
    BY DEF Kinds, AllThreads
  <2> QED BY <1>3, <2>1, ActivationFacts
<1>5. calls' = Append(calls, a) /\ current' = t
  BY <1>2 DEF EnterThread
<1> HIDE DEF a
<1>6. calls' \in Seq(Activations) /\ Pushed(Depth) /\ calls'[Depth + 1] = a
  BY <1>3, <1>4, <1>5, PushShape
<1>7. Steps(Depth, t)
  <2>1. \A u \in Threads : u # t /\ ~Within(u) => status'[u] = status[u]
    BY <1>2, <1>3 DEF EnterThread, StatusEntering, Within
  <2> QED BY <1>1, <1>6, <2>1 DEF Steps, Pushed
<1>8. Joins(Depth, t)
  BY <1>4, <1>6 DEF Joins, Pushed, AsCaller
<1>9. Keeps
  <2>1. \A i \in 1 .. Depth : calls[i].kind = "host" => status'[calls[i].thread] \in Actives
    <3> SUFFICES ASSUME NEW i \in 1 .. Depth, calls[i].kind = "host"
                 PROVE  status'[calls[i].thread] \in Actives
      OBVIOUS
    <3>1. calls[i].thread \in AllThreads /\ status[calls[i].thread] \in Actives
      BY <1>3 DEF Linked, Resuming, ChainInv, HostsInv, HostFits
    <3> QED BY <1>2, <3>1 DEF EnterThread, StatusEntering, Actives
  <2>2. NewFits(Depth)
    <3>1. status'[t] = "running"
      BY <1>2, <1>3 DEF EnterThread, StatusEntering
    <3> QED BY <1>1, <1>2, <1>4, <1>6, <3>1 DEF NewFits, Actives
  <2> QED BY <1>1, <1>3, <1>7, <2>1, <2>2, StepKeeps
<1>10. Life(t) = "suspended"
  BY <1>1, HeldIsBorn DEF Life
<1>11. Coroutines!Resume(t)
  <2>1. Does(kind) \in {"body", "host"}
    BY DoesFacts
  <2>2. Coroutines!Become(t, "active") /\ Coroutines!Join(t, Does(kind))
    BY <1>4, <1>6, <1>7, <1>8, Joining
  <2> QED BY <1>1, <1>3, <1>10, <2>1, <2>2 DEF Coroutines!Resume, LifeOf
<1> QED BY <1>9, <1>11 DEF ChainStep, Coroutines!Next

(* A host function runs, as its caller, before the coroutine is entered.      *)
LEMMA BeforeLinks ==
  ASSUME TypeOK, ChainInv, NEW t \in Threads, Depth > 0, UNCHANGED <<entry, status, current>>,
         calls' = Append(calls, [Activation("entry", current, FALSE) EXCEPT !.into = t])
  PROVE  Keeps /\ ChainStep
<1>1. /\ Depth \in Nat /\ Linked /\ Coroutines!Depth = Depth /\ Depth \in 0 .. Depth
      /\ Coroutines!Top.who = current /\ NoThread \notin Threads
      /\ \A j \in Depth + 1 .. Depth : FALSE
  BY TopLink, ThreadsAssumption
<1>2. /\ calls' \in Seq(Activations) /\ Kept(Depth) /\ Len(calls') = Depth + 1
      /\ calls'[Depth + 1].kind = "entry" /\ calls'[Depth + 1].thread = current
  BY <1>1, EntryIsPushed DEF Pushed
<1>3. Steps(Depth, NoThread) /\ \A u : ~Joins(Depth, u)
  BY <1>2 DEF Steps, Joins, AsCaller
<1>4. Keeps
  <2>1. \A i \in 1 .. Depth : calls[i].kind = "host" => status'[calls[i].thread] \in Actives
    BY DEF ChainInv, HostsInv, HostFits
  <2>2. NewFits(Depth)
    BY <1>2 DEF NewFits
  <2> QED BY <1>1, <1>3, <2>1, <2>2, StepKeeps
<1>5. \A u \in Threads : Life(u)' = Life(u)
  BY <1>1, <1>3, LifeStays
<1>6. Chain' = Append(Chain, Coroutines!Link(current, "enter"))
  BY <1>1, <1>2, ChainPushes, ChainWhole, DoesFacts
<1>7. Coroutines!Enter
  BY <1>1, <1>5, <1>6, LivesStay DEF Coroutines!Enter, Coroutines!Join
<1> QED BY <1>4, <1>7 DEF ChainStep, Coroutines!Next

LEMMA ResumeLinks ==
  ASSUME TypeOK, ChainInv, NEW t \in Threads, ResumeFirst(t) \/ ResumeAgain(t)
  PROVE  Keeps /\ ChainStep
<1>1. Depth > 0 /\ Resumable(t) /\ UNCHANGED entry
  BY DEF ResumeFirst, ResumeAgain, Resumable, Running
<1>2. CASE ResumeFirst(t) /\ EnterThread(t, IF entry[t] = "host" THEN "host" ELSE "resume")
  BY <1>1, <1>2, EnterLinks
<1>3. CASE ResumeAgain(t)
  <2>1. entry[t] # "host"
    BY <1>3 DEF ChainInv, StatusInv, FitsInv, Fits, ResumeAgain, Resumable
  <2> QED BY <1>1, <1>3, <2>1, EnterLinks DEF ResumeAgain
<1>4. CASE /\ calls' = Append(calls, [Activation("entry", current, FALSE) EXCEPT !.into = t])
           /\ UNCHANGED <<status, current>>
  BY <1>1, <1>4, BeforeLinks
<1> QED BY <1>2, <1>3, <1>4 DEF ResumeFirst

(* It ends: the coroutine is entered, or was closed by it.                    *)
LEMMA EntryLinks ==
  ASSUME TypeOK, ChainInv, HandlersRevive = FALSE, EntryFails \/ EntryEnters \/ EntryWasClosed
  PROVE  Keeps /\ ChainStep
<1>0. Depth > 0 /\ Top.kind = "entry" /\ UNCHANGED entry
  BY DEF EntryFails, EntryEnters, EntryWasClosed, Running
<1> DEFINE k == Depth - 1
<1>1. /\ Depth \in Nat /\ Linked /\ Coroutines!Depth = Depth /\ Depth \in 1 .. Depth
      /\ Coroutines!Top.does = "enter" /\ current = Top.thread /\ Top \in Activations
      /\ k \in 0 .. Depth /\ k + 1 = Depth /\ \A j \in k + 1 .. Depth : j = Depth
      /\ \A i \in 1 .. k : i \in 1 .. Depth
      /\ NoThread \notin Threads /\ Threads \subseteq AllThreads
  BY <1>0, TopLink, DoesFacts, ThreadsAssumption DEF AllThreads
<1>2. PICK t \in Threads : t = Top.into
  BY <1>0, <1>1 DEF Linked
<1>3. /\ entry[t] = "protected" /\ status[t] = IF frames[t] THEN "suspended" ELSE "dead"
      /\ ~Within(t) /\ t # current
  BY <1>0, <1>1, <1>2 DEF ChainInv, StatusInv, EntriesWait, Waiting, Within
<1>4. CASE EntryFails
  <2>1. /\ [calls[Depth] EXCEPT !.err = TRUE] \in Activations
        /\ [calls[Depth] EXCEPT !.err = TRUE].kind = calls[Depth].kind
        /\ [calls[Depth] EXCEPT !.err = TRUE].thread = calls[Depth].thread
        /\ [calls[Depth] EXCEPT !.err = TRUE].prev = calls[Depth].prev
        /\ [calls[Depth] EXCEPT !.err = TRUE].into = calls[Depth].into
    BY <1>1, HandlerFacts
  <2>2. calls' \in Seq(Activations) /\ Popped(Depth)
    BY <1>1, <1>4, <2>1, FlagShape DEF EntryFails
  <2>3. Leaves(Depth, NoThread)
    BY <1>4, NoResumer, TouchingLeaves DEF EntryFails
  <2>4. \A i \in 1 .. Depth : calls[i].kind = "host" => calls[i].thread # NoThread
    BY <1>1 DEF Linked, Resuming
  <2> QED BY <1>0, <1>1, <2>2, <2>3, <2>4, NothingMoves DEF ChainStep
<1>5. CASE EntryEnters
  <2>1. frames[t] /\ status[t] = "suspended"
    BY <1>2, <1>3, <1>5 DEF EntryEnters
  <2>2. /\ calls' \in Seq(Activations) /\ Kept(k) /\ Len(calls') = k + 1
        /\ Len(calls') \in {k, k + 1}
        /\ calls'[k + 1].kind = "resume" /\ calls'[k + 1].thread = t
    BY <1>1, <1>2, <1>5, EntryEntersPushes DEF Pushed
  <2>3. /\ status'[t] = "running"
        /\ \A u \in AllThreads : u # t => status'[u] = IF u = current THEN "normal" ELSE status[u]
    BY <1>1, <1>2, <1>5 DEF EntryEnters, StatusEntering
  <2>4. Steps(k, t) /\ Joins(k, t) /\ \A u : u # t => ~Joins(k, u)
    <3>1. \A u : u = current => Within(u)
      BY <1>1 DEF Within
    <3> QED BY <1>0, <1>1, <2>2, <2>3, <3>1 DEF Steps, Joins, AsCaller
  <2>5. \A i \in 1 .. k : calls[i].kind = "host" => status'[calls[i].thread] \in Actives
    <3> SUFFICES ASSUME NEW i \in 1 .. k, calls[i].kind = "host"
                 PROVE  status'[calls[i].thread] \in Actives
      OBVIOUS
    <3>1. /\ calls[i].thread \in AllThreads /\ calls[i].thread # t
          /\ status[calls[i].thread] \in Actives
      BY <1>1, <1>3 DEF Linked, Resuming, ChainInv, HostsInv, HostFits, Within
    <3> QED BY <2>3, <3>1 DEF Actives
  <2>6. NewFits(k)
    BY <1>0, <1>3, <2>2 DEF NewFits
  <2>8. Life(t) = "suspended"
    BY <1>3, <2>1, HeldIsBorn DEF Life
  <2>9. Chain' = [Chain EXCEPT ![Depth] = Coroutines!Link(t, "body")]
    <3>1. Coroutines!Link(t, "body") \in Links
      BY <1>1 DEF Coroutines!Link, Links
    <3>2. Chain' = Append(SubSeq(Chain, 1, k), Coroutines!Link(t, "body"))
      BY <1>1, <2>2, ChainPushes, DoesFacts
    <3> QED BY <1>0, <3>1, <3>2, ChainTurns
  <2>10. Keeps /\ Coroutines!Become(t, "active")
    <3>1. \A j \in k + 1 .. Depth : AsCaller(calls[j])
      BY <1>0, <1>1 DEF AsCaller
    <3> HIDE DEF k, Depth, Top
    <3>2. Keeps
      BY <1>1, <1>3, <2>4, <2>5, <2>6, StepKeeps
    <3>3. Life(t)' = "active"
      BY <1>1, <2>4, LifeOfStepped
    <3>4. \A u \in Threads : u # t => Life(u)' = Life(u)
      BY <1>1, <2>4, <3>1, LifeStays
    <3> QED BY <3>2, <3>3, <3>4, LivesBecome
  <2>11. Coroutines!EndEnter
    BY <1>0, <1>1, <2>8, <2>9, <2>10 DEF Coroutines!EndEnter, Coroutines!Ends, LifeOf
  <2> QED BY <2>10, <2>11 DEF ChainStep, Coroutines!Next
<1>6. CASE EntryWasClosed
  <2>1. PopTo(k) /\ status[t] = "dead"
    BY <1>2, <1>3, <1>6 DEF EntryWasClosed
  <2>2. Uncovered(Depth) /\ k = Depth - 1 /\ Top.kind \in {"sync", "run", "entry"}
    BY <1>0, <1>1 DEF Uncovered
  <2>3. \A u \in AllThreads : \/ status'[u] = status[u]
                              \/ status'[u] = "running" /\ (u \in Threads => Within(u))
    <3>1. \A u : u = current => Within(u)
      BY <1>1 DEF Within
    <3> QED BY <1>2, <1>6, <2>1, <3>1 DEF EntryWasClosed
  <2>4. Keeps /\ UNCHANGED LifeOf
    BY <1>0, <1>1, <2>1, <2>2, <2>3, CallLeaves
  <2>5. Coroutines!Keep(Depth - 1)
    BY <1>1, <2>1, <2>2, UncoveredFacts
  <2>6. Coroutines!EndEnter
    BY <1>0, <1>1, <2>4, <2>5 DEF Coroutines!EndEnter, Coroutines!Ends
  <2> QED BY <2>4, <2>6 DEF ChainStep, Coroutines!Next
<1> QED BY <1>4, <1>5, <1>6

LEMMA CreateLinks ==
  ASSUME TypeOK, ChainInv, NEW t \in Threads, NEW kind \in EntryKinds, NEW w \in BOOLEAN,
         Create(t, kind, w)
  PROVE  Keeps /\ ChainStep
<1>1. /\ Depth > 0 /\ entry[t] = "none" /\ entry' = [entry EXCEPT ![t] = kind]
      /\ UNCHANGED <<status, calls>> /\ kind # "none"
  BY ThreadsAssumption DEF Create, Running, Entries
<1>2. ~Held(t) /\ status[t] = "suspended" /\ entry'[t] = kind
      /\ \A u \in Threads : u # t => entry'[u] = entry[u]
  BY <1>1, HeldIsBorn DEF ChainInv, BornInv, Born, TypeOK
<1>3. \A u : Held(u)' <=> Held(u)
  BY <1>1 DEF Held
<1>4. HostsInv'
  <2> SUFFICES ASSUME NEW i \in 1 .. Depth PROVE HostFits(i)'
    BY <1>1 DEF HostsInv
  <2>1. HostFits(i) /\ calls' = calls /\ status' = status
    BY <1>1 DEF ChainInv, HostsInv
  <2>2. calls[i].kind \in {"resume", "close", "closeself"} => entry'[calls[i].thread] = entry[calls[i].thread]
    <3> SUFFICES ASSUME calls[i].kind \in {"resume", "close", "closeself"}
                 PROVE  entry'[calls[i].thread] = entry[calls[i].thread]
      OBVIOUS
    <3>1. calls[i].thread \in Threads
      BY DEF ChainInv, StatusInv, ProtocolInv, Linked, Resuming, Closing
    <3>2. Held(calls[i].thread)
      BY DEF Held, AsCaller
    <3> QED BY <1>2, <3>1, <3>2
  <2> QED BY <2>1, <2>2 DEF HostFits
<1>5. BornInv'
  BY <1>1, <1>2 DEF ChainInv, BornInv, Born
<1>6. Life(t)' = "suspended" /\ Life(t) = "none" /\ \A u \in Threads : u # t => Life(u)' = Life(u)
  BY <1>1, <1>2, <1>3 DEF Life
<1>7. Coroutines!Become(t, "suspended") /\ Chain' = Chain
  BY <1>1, <1>6, LivesBecome DEF Chain
<1>8. Coroutines!Create(t)
  BY <1>1, <1>6, <1>7, TopLink DEF Coroutines!Create, LifeOf
<1> QED BY <1>4, <1>5, <1>8 DEF Keeps, ChainStep, Coroutines!Next

LEMMA ChainedIs ==
  ASSUME TypeOK, ChainInv, NEW t \in Threads, NEW k \in 0 .. Depth
  PROVE  Coroutines!Chained(t, k) <=> HeldBelow(t, k)
<1>1. /\ 1 .. k \subseteq 1 .. Depth
      /\ \A i \in 1 .. k : i \in 1 .. Depth /\ \A j \in 1 .. i : j \in 1 .. k
  BY TopFacts DEF TypeOK
<1>2. \A i \in 1 .. k : Chain[i].who = calls[i].thread /\ Chain[i].does = Does(calls[i].kind)
  BY <1>1, ChainFacts
<1>3. ASSUME NEW i \in 1 .. k, calls[i].thread = t, Does(calls[i].kind) # "call"
      PROVE  HeldBelow(t, k)
  <2>1. PICK j \in 1 .. i : calls[j].thread = t /\ ~AsCaller(calls[j])
    BY <1>1, <1>3 DEF ChainInv, StatusInv, StackInv, Anchored
  <2> QED BY <1>1, <2>1 DEF HeldBelow
<1>4. ASSUME NEW i \in 1 .. k, calls[i].thread = t, ~AsCaller(calls[i])
      PROVE  Does(calls[i].kind) # "call"
  <2>1. calls[i] \in Activations /\ calls[i].kind # "run"
    BY <1>1, <1>4, TopFacts, ThreadsAssumption DEF TypeOK, ChainInv, StatusInv, StackInv, KindsFit
  <2> QED BY <1>4, <2>1 DEF Does, Activations, Kinds, AsCaller
<1> QED BY <1>2, <1>3, <1>4 DEF Coroutines!Chained, HeldBelow

(* The force-close of t, and what it had replaced, leave the chain.           *)
LEMMA CloseLeaves ==
  ASSUME TypeOK, ChainInv, NEW k \in 0 .. Depth, NEW t \in Threads, Held(t),
         calls' \in Seq(Activations), Kept(k), Len(calls') = k, UNCHANGED entry,
         Leaves(k, t), status'[t] = "dead",
         \A j \in k + 1 .. Depth : calls[j].thread = t,
         \A i \in 1 .. k : calls[i].kind = "host" => calls[i].thread # t
  PROVE  /\ Keeps /\ Coroutines!Keep(k)
         /\ Coroutines!Become(t, IF Coroutines!Chained(t, k) THEN "active" ELSE "dead")
<1>1. k \in Nat /\ k # k + 1 /\ entry[t] # "none"
  BY TopFacts, HeldIsBorn DEF TypeOK
<1>2. Steps(k, t) /\ Keeps
  BY <1>1, LeavesKeeps
<1>3. \A u : ~Joins(k, u)
  BY <1>1 DEF Joins
<1>4. \A u \in Threads : u # t => Life(u)' = Life(u)
  BY <1>2, <1>3, LifeStays
<1>5. Life(t)' = IF Coroutines!Chained(t, k) THEN "active" ELSE "dead"
  BY <1>1, <1>2, <1>3, ChainedIs, LifeOfStepped DEF Actives
<1>6. Coroutines!Become(t, IF Coroutines!Chained(t, k) THEN "active" ELSE "dead")
  BY <1>4, <1>5, LivesBecome
<1> QED BY <1>2, <1>6, ChainPops DEF Coroutines!Keep

LEMMA FinishCloseLinks ==
  ASSUME TypeOK, ChainInv, FinishClose
  PROVE  Keeps /\ ChainStep
<1>1. Depth > 0 /\ Top.kind = "close" /\ PopTo(Depth - 1) /\ UNCHANGED entry
      /\ status' = [status EXCEPT ![current] = "dead"]
  BY DEF FinishClose, Closed
<1>2. /\ Depth \in Nat /\ Linked /\ Coroutines!Depth = Depth /\ Depth \in 1 .. Depth
      /\ Coroutines!Top.who = current /\ Coroutines!Top.does = "close"
      /\ current = Top.thread /\ Depth - 1 \in 0 .. Depth /\ Depth - 1 + 1 = Depth
      /\ \A i \in 1 .. Depth - 1 : i \in 1 .. Depth /\ i < Depth
      /\ \A j \in Depth - 1 + 1 .. Depth : j = Depth
  BY <1>1, TopLink, DoesFacts
<1>3. PICK t \in Threads : t = current /\ Held(t) /\ t \in AllThreads
  BY <1>1, <1>2 DEF Linked, Closing, Held, AsCaller, AllThreads
<1>4. calls' \in Seq(Activations) /\ Kept(Depth - 1) /\ Len(calls') = Depth - 1
  BY <1>1, <1>2, PopToShape DEF Popped
<1>5. Leaves(Depth - 1, t) /\ status'[t] = "dead"
  BY <1>1, <1>3, NoResumer, TouchingLeaves DEF Resuming
<1>6. \A i \in 1 .. Depth - 1 : calls[i].kind = "host" => calls[i].thread # t
  BY <1>1, <1>2, <1>3, HostApart
<1>7. \A j \in Depth - 1 + 1 .. Depth : calls[j].thread = t
  BY <1>2, <1>3
<1>8. /\ Keeps /\ Coroutines!Keep(Depth - 1)
      /\ Coroutines!Become(t, IF Coroutines!Chained(t, Depth - 1) THEN "active" ELSE "dead")
  <2> HIDE DEF Depth, Top
  <2> QED BY <1>1, <1>2, <1>3, <1>4, <1>5, <1>6, <1>7, CloseLeaves
<1>9. Depth > 1 => Chain[Depth - 1] # Coroutines!Link(t, "body")
  <2> SUFFICES ASSUME Depth > 1, Chain[Depth - 1] = Coroutines!Link(t, "body") PROVE FALSE
    OBVIOUS
  <2>1. Depth - 1 \in 1 .. Depth
    BY <1>2
  <2>2. calls[Depth - 1].thread = t /\ Does(calls[Depth - 1].kind) = "body"
    <3>1. Chain[Depth - 1].who = t /\ Chain[Depth - 1].does = "body"
      BY DEF Coroutines!Link
    <3> QED BY <2>1, <3>1, ChainFacts
  <2>3. calls[Depth - 1].kind = "resume"
    <3>1. calls[Depth - 1] \in Activations
      BY <2>1, TopFacts DEF TypeOK
    <3> QED BY <2>2, <3>1 DEF Does, Activations, Kinds
  <2>4. Runs(Depth - 1)
    BY <1>1, <1>2, <2>3 DEF Runs, SelfClosed
  <2>5. Depth \in Depth - 1 + 1 .. Depth /\ Closing(Top)
    BY <1>1, <1>2 DEF Closing
  <2> QED BY <1>2, <1>3, <2>1, <2>2, <2>4, <2>5 DEF ChainInv, StatusInv, StackInv, Executed
<1>10. Coroutines!EndClose
  BY <1>1, <1>2, <1>3, <1>8, <1>9 DEF Coroutines!EndClose, Coroutines!Ends
<1> QED BY <1>8, <1>10 DEF ChainStep, Coroutines!Next

LEMMA FinishCloseSelfLinks ==
  ASSUME TypeOK, ChainInv, FinishCloseSelf
  PROVE  Keeps /\ ChainStep
<1>0. Depth > 0 /\ Top.kind = "closeself" /\ UNCHANGED entry
  BY DEF FinishCloseSelf, Closed
<1>1. /\ Linked /\ current = Top.thread /\ Depth \in Nat /\ Depth \in 1 .. Depth
      /\ Depth > 1 /\ Depth - 1 \in 1 .. Depth /\ Depth - 1 \in 0 .. Depth
      /\ Depth - 2 \in 0 .. Depth /\ Depth - 1 + 1 = Depth /\ Depth - 2 + 1 = Depth - 1
      /\ calls[Depth - 1].thread = current /\ calls[Depth - 1] \in Activations
      /\ calls[Depth - 1].kind \in {"resume", "close", "closeself"}
      /\ Coroutines!Depth = Depth /\ Coroutines!Top.who = current /\ Coroutines!Top.does = "close"
      /\ Chain[Depth - 1] = Coroutines!Link(current, Does(calls[Depth - 1].kind))
  <2>1. /\ Linked /\ current = Top.thread /\ Depth \in Nat /\ Depth \in 1 .. Depth
        /\ Coroutines!Depth = Depth /\ Coroutines!Top.who = current /\ Coroutines!Top.does = "close"
    BY <1>0, TopLink, DoesFacts
  <2>2. /\ Depth > 1 /\ calls[Depth - 1].thread = current
        /\ calls[Depth - 1].kind \in {"resume", "close", "closeself"}
    BY <1>0, <2>1 DEF Linked
  <2>3. Depth - 1 \in 1 .. Depth /\ Depth - 2 \in 0 .. Depth /\ Depth - 1 \in 0 .. Depth
    BY <2>1, <2>2
  <2> QED BY <2>1, <2>2, <2>3, ChainFacts, TopFacts DEF TypeOK
<1>2. PICK t \in Threads : t = current /\ Held(t) /\ t \in AllThreads
  BY <1>0, <1>1 DEF Linked, Closing, Held, AsCaller, AllThreads
<1>3. \A i \in 1 .. Depth : calls[i].kind = "host" => calls[i].thread # t
  BY <1>0, <1>1, <1>2, HostApart
<1>4. CASE calls[Depth - 1].kind = "resume"
  <2>1. PopTo(Depth - 2) /\ status' = StatusLeaving(Depth - 2, t, "dead")
    BY <1>2, <1>4 DEF FinishCloseSelf
  <2>2. Leaves(Depth - 2, t) /\ status'[t] = "dead"
    BY <1>2, <2>1, LeavingLeaves
  <2>3. calls' \in Seq(Activations) /\ Kept(Depth - 2) /\ Len(calls') = Depth - 2
    BY <1>1, <2>1, PopToShape DEF Popped
  <2>4. \A j \in Depth - 2 + 1 .. Depth : calls[j].thread = t
    <3>1. \A j \in Depth - 2 + 1 .. Depth : j = Depth - 1 \/ j = Depth
      BY <1>1, TwoFacts
    <3> QED BY <1>1, <1>2, <3>1
  <2>5. \A i \in 1 .. Depth - 2 : calls[i].kind = "host" => calls[i].thread # t
    BY <1>1, <1>3
  <2>6. /\ Keeps /\ Coroutines!Keep(Depth - 2)
        /\ Coroutines!Become(t, IF Coroutines!Chained(t, Depth - 2) THEN "active" ELSE "dead")
    <3> HIDE DEF Depth, Top
    <3> QED BY <1>0, <1>1, <1>2, <2>2, <2>3, <2>4, <2>5, CloseLeaves
  <2>7. Chain[Depth - 1] = Coroutines!Link(t, "body")
    BY <1>1, <1>2, <1>4, DoesFacts
  <2>8. Coroutines!EndClose
    BY <1>0, <1>1, <1>2, <2>6, <2>7 DEF Coroutines!EndClose, Coroutines!Ends
  <2> QED BY <2>6, <2>8 DEF ChainStep, Coroutines!Next
<1>5. CASE calls[Depth - 1].kind # "resume"
  <2>1. status' = [status EXCEPT ![current] = "dead"]
        /\ calls' = [SubSeq(calls, 1, Depth - 1) EXCEPT
                       ![Depth - 1] = HandlerEnded(@, Top.err)]
        /\ current' = calls[Depth - 1].thread
    BY <1>1, <1>5 DEF FinishCloseSelf
  <2>2. Leaves(Depth - 1, t) /\ status'[t] = "dead"
    BY <1>0, <1>2, <2>1, NoResumer, TouchingLeaves DEF Resuming
  <2>3. calls' \in Seq(Activations) /\ Kept(Depth - 1) /\ Len(calls') = Depth - 1
    <3>1. Top.err \in BOOLEAN
      BY <1>1, TopFacts DEF TypeOK, Activations
    <3>2. SubSeq(calls, 1, Depth - 1)[Depth - 1] = calls[Depth - 1]
      BY <1>1, PopFacts DEF TypeOK
    <3>3. calls' = [SubSeq(calls, 1, Depth - 1) EXCEPT
                      ![Depth - 1] = HandlerEnded(calls[Depth - 1], Top.err)]
      BY <2>1, <3>2
    <3>4. /\ HandlerEnded(calls[Depth - 1], Top.err) \in Activations
          /\ HandlerEnded(calls[Depth - 1], Top.err).kind = calls[Depth - 1].kind
          /\ HandlerEnded(calls[Depth - 1], Top.err).thread = calls[Depth - 1].thread
          /\ HandlerEnded(calls[Depth - 1], Top.err).prev = calls[Depth - 1].prev
          /\ HandlerEnded(calls[Depth - 1], Top.err).into = calls[Depth - 1].into
      BY <1>1, <3>1, HandlerFacts
    <3> HIDE DEF Depth, Top
    <3> QED BY <1>1, <2>1, <3>3, <3>4, FlagShape DEF Popped
  <2>4. \A j \in Depth - 1 + 1 .. Depth : calls[j].thread = t
    BY <1>1, <1>2, TwoFacts
  <2>5. \A i \in 1 .. Depth - 1 : calls[i].kind = "host" => calls[i].thread # t
    BY <1>1, <1>3
  <2>6. /\ Keeps /\ Coroutines!Keep(Depth - 1)
        /\ Coroutines!Become(t, IF Coroutines!Chained(t, Depth - 1) THEN "active" ELSE "dead")
    <3> HIDE DEF Depth, Top
    <3> QED BY <1>0, <1>1, <1>2, <2>2, <2>3, <2>4, <2>5, CloseLeaves
  <2>7. Chain[Depth - 1] # Coroutines!Link(t, "body")
    BY <1>1, <1>5, DoesFacts DEF Coroutines!Link
  <2>8. Coroutines!EndClose
    BY <1>0, <1>1, <1>2, <2>6, <2>7 DEF Coroutines!EndClose, Coroutines!Ends
  <2> QED BY <2>6, <2>8 DEF ChainStep, Coroutines!Next
<1> QED BY <1>4, <1>5

LEMMA CloseOtherLinks ==
  ASSUME TypeOK, ChainInv, NEW t \in Threads, CloseOther(t)
  PROVE  Keeps /\ ChainStep
<1>1. /\ Depth > 0 /\ entry[t] # "none" /\ status[t] \in {"suspended", "dead"} /\ UNCHANGED entry
      /\ status[t] \notin Actives
  BY DEF CloseOther, Running, Actives
<1>2. /\ Depth \in Nat /\ Linked /\ Coroutines!Depth = Depth /\ Depth \in 0 .. Depth
      /\ t \in AllThreads /\ Depth # Depth + 1
  BY <1>1, TopLink DEF AllThreads
<1>3. \A i \in 1 .. Depth : calls[i].kind = "host" => calls[i].thread # t
  BY <1>1 DEF ChainInv, HostsInv, HostFits
<1>4. Life(t) \in {"suspended", "dead", "active"} /\ (~Held(t) => Life(t) # "active")
  BY <1>1 DEF Life, Actives
<1>5. ~Coroutines!Executes(t)
  <2> SUFFICES ASSUME NEW i \in 1 .. Depth, Chain[i].who = t, Chain[i].does \in {"body", "host"}
               PROVE  i < Depth /\ Chain[i + 1] = Coroutines!Link(t, "close")
    BY <1>2 DEF Coroutines!Executes
  <2>1. calls[i] \in Activations /\ calls[i].thread = t /\ Does(calls[i].kind) \in {"body", "host"}
    BY ChainFacts, TopFacts DEF TypeOK
  <2>2. calls[i].kind = "resume"
    BY <1>3, <2>1 DEF Does, Activations, Kinds
  <2>3. ~Runs(i)
    BY <1>1, <2>1 DEF ChainInv, StatusInv, StackInv, Executed
  <2>4. i < Depth /\ calls[i + 1].kind = "closeself" /\ i + 1 \in 1 .. Depth /\ i + 1 - 1 = i
    BY <1>2, <2>2, <2>3 DEF Runs, SelfClosed
  <2>5. calls[i + 1].thread = t
    BY <1>2, <2>1, <2>4 DEF Linked
  <2> QED BY <2>4, <2>5, ChainFacts, DoesFacts
<1>6. CASE frames[t]
  <2> DEFINE a == Activation("close", t, err[t])
  <2>1. "close" \in Kinds /\ t \in AllThreads \cup {NoThread} /\ err[t] \in BOOLEAN
    BY DEF Kinds, AllThreads, TypeOK
  <2>2. /\ a \in Activations /\ a.kind = "close" /\ a.thread = t
        /\ a.prev = IF Depth = 0 THEN NoThread ELSE calls[Depth].thread
    BY <1>2, <2>1, ActivationFacts
  <2>3. calls' = Append(calls, a) /\ current' = t /\ status' = [status EXCEPT ![t] = "running"]
    BY <1>6 DEF CloseOther
  <2> HIDE DEF a
  <2>4. calls' \in Seq(Activations) /\ Pushed(Depth) /\ calls'[Depth + 1] = a
    BY <1>2, <2>2, <2>3, PushShape
  <2>5. Leaves(Depth, t)
    BY <1>2, <2>3, NoResumer, TouchingLeaves
  <2>6. NewFits(Depth)
    <3>1. entry[t] # "host"
      BY <1>6 DEF ChainInv, StatusInv, FitsInv, Fits
    <3> QED BY <1>1, <2>2, <2>4, <3>1 DEF NewFits
  <2>7. Steps(Depth, t) /\ Keeps
    <3>1. Kept(Depth) /\ Len(calls') \in {Depth, Depth + 1}
      BY <2>4 DEF Pushed
    <3> HIDE DEF Depth, Top
    <3> QED BY <1>1, <1>2, <1>3, <2>4, <2>5, <2>6, <3>1, LeavesKeeps
  <2>8. Joins(Depth, t)
    BY <2>2, <2>4 DEF Joins, Pushed, AsCaller
  <2>9. Coroutines!Become(t, "active") /\ Coroutines!Join(t, "close")
    BY <2>2, <2>4, <2>7, <2>8, Joining, DoesFacts
  <2>10. Coroutines!Close(t)
    BY <1>1, <1>2, <1>4, <1>5, <2>9 DEF Coroutines!Close, LifeOf
  <2> QED BY <2>7, <2>10 DEF ChainStep, Coroutines!Next
<1>7. CASE ~frames[t]
  <2>1. calls' \in Seq(Activations) /\ Popped(Depth)
    BY <1>2, <1>7 DEF CloseOther, Popped, Kept, TypeOK
  <2>2. Leaves(Depth, t) /\ status'[t] = "dead"
    BY <1>2, <1>7, NoResumer, TouchingLeaves DEF CloseOther
  <2>3. CASE Held(t)
    BY <1>1, <1>3, <2>1, <2>2, <2>3, NothingMoves DEF ChainStep
  <2>4. CASE ~Held(t)
    <3>1. Kept(Depth) /\ Len(calls') = Depth
      BY <2>1 DEF Popped
    <3>2. Steps(Depth, t) /\ Keeps
      <4>1. Len(calls') \in {Depth, Depth + 1} /\ Len(calls') # Depth + 1
        BY <1>2, <3>1
      <4> HIDE DEF Depth, Top
      <4> QED BY <1>1, <1>2, <1>3, <2>1, <2>2, <3>1, <4>1, LeavesKeeps
    <3>3. \A u : ~Joins(Depth, u)
      BY <1>2, <3>1 DEF Joins
    <3>4. ~HeldBelow(t, Depth)
      BY <2>4 DEF Held, HeldBelow
    <3>5. Life(t)' = "dead"
      BY <1>1, <1>2, <2>2, <3>2, <3>3, <3>4, LifeOfStepped DEF Actives
    <3>6. \A u \in Threads : u # t => Life(u)' = Life(u)
      <4>1. \A j \in Depth + 1 .. Depth : FALSE
        BY <1>2
      <4> QED BY <1>2, <3>2, <3>3, <4>1, LifeStays
    <3>7. Coroutines!Become(t, "dead") /\ Chain' = Chain
      BY <1>2, <2>1, <3>1, <3>5, <3>6, LivesBecome, ChainPops, ChainWhole
    <3>8. Coroutines!Close(t)
      BY <1>1, <1>2, <1>4, <1>5, <2>4, <3>7 DEF Coroutines!Close, LifeOf
    <3> QED BY <3>2, <3>8 DEF ChainStep, Coroutines!Next
  <2> QED BY <2>3, <2>4
<1> QED BY <1>6, <1>7

(* The loop of a force-close goes on.                                        *)
LEMMA HandlerLinks ==
  ASSUME TypeOK, ChainInv, RunHandler \/ HandlerReturns \/ \E inLua \in BOOLEAN : HandlerFails(inLua)
  PROVE  Keeps /\ ChainStep
<1>0. Depth > 0 /\ Closing(Top)
  BY DEF RunHandler, HandlerReturns, HandlerFails, Running
<1>1. /\ Linked /\ current = Top.thread /\ Depth \in Nat /\ Depth \in 1 .. Depth /\ Top \in Activations
  BY <1>0, TopLink
<1>2. PICK t \in Threads : t = current /\ Held(t) /\ t \in AllThreads
  BY <1>0, <1>1 DEF Linked, Held, Closing, AsCaller, AllThreads
<1>3. UNCHANGED <<entry, current>>
  BY DEF RunHandler, HandlerReturns, HandlerFails
<1>4. calls' \in Seq(Activations) /\ Popped(Depth)
  <2>1. \/ calls' = [calls EXCEPT ![Depth] = [Top EXCEPT !.busy = TRUE]]
        \/ \E e \in BOOLEAN : calls' = [calls EXCEPT ![Depth] = HandlerEnded(Top, e)]
    BY DEF RunHandler, HandlerReturns, HandlerFails
  <2>2. ASSUME NEW a \in Activations, calls' = [calls EXCEPT ![Depth] = a],
               a.kind = Top.kind, a.thread = Top.thread, a.prev = Top.prev, a.into = Top.into
        PROVE  calls' \in Seq(Activations) /\ Popped(Depth)
    BY <1>1, <1>3, <2>2, FlagShape
  <2>3. CASE calls' = [calls EXCEPT ![Depth] = [Top EXCEPT !.busy = TRUE]]
    BY <1>1, <2>2, <2>3, HandlerFacts
  <2>4. ASSUME NEW e \in BOOLEAN, calls' = [calls EXCEPT ![Depth] = HandlerEnded(Top, e)]
        PROVE  calls' \in Seq(Activations) /\ Popped(Depth)
    BY <1>1, <2>2, <2>4, HandlerFacts
  <2> QED BY <2>1, <2>3, <2>4
<1>5. Leaves(Depth, t)
  <2>1. \A inLua \in BOOLEAN :
          status' = [status EXCEPT ![current] = IF inLua THEN "dead" ELSE @] =>
            UNCHANGED status \/ status' = [status EXCEPT ![current] = "dead"]
    BY DEF TypeOK
  <2>2. UNCHANGED status \/ status' = [status EXCEPT ![t] = "dead"]
    BY <1>2, <2>1 DEF RunHandler, HandlerReturns, HandlerFails
  <2> QED BY <2>2, NoResumer, TouchingLeaves
<1>6. \A i \in 1 .. Depth : calls[i].kind = "host" => calls[i].thread # t
  BY <1>0, <1>1, <1>2, HostApart DEF Closing
<1> QED BY <1>2, <1>3, <1>4, <1>5, <1>6, NothingMoves DEF ChainStep

LEMMA BoundaryLinks ==
  ASSUME TypeOK, ChainInv, EnterSync \/ EnterRun \/ LeaveBoundary
  PROVE  Keeps /\ ChainStep
<1>0. UNCHANGED entry
  BY DEF EnterSync, EnterRun, LeaveBoundary
<1>1. /\ Linked /\ Depth \in Nat /\ Depth \in 0 .. Depth /\ NoThread \notin Threads /\ Main \notin Threads
      /\ "sync" \in Kinds /\ "run" \in Kinds /\ FALSE \in BOOLEAN
      /\ current \in AllThreads \cup {NoThread} /\ Main \in AllThreads \cup {NoThread}
      /\ \A j \in Depth + 1 .. Depth : FALSE
      /\ Coroutines!Depth = Depth /\ (Depth > 0 => Coroutines!Top.who = current)
      /\ current = IF Depth = 0 THEN NoThread ELSE Top.thread
  <2>1. Linked /\ calls \in Seq(Activations) /\ current \in AllThreads \cup {NoThread}
    BY DEF TypeOK, ChainInv, StatusInv, ProtocolInv
  <2>2. Coroutines!Depth = Depth /\ (Depth > 0 => Coroutines!Top.who = current)
    BY ChainFacts, TopLink DEF Coroutines!Depth
  <2>3. current = IF Depth = 0 THEN NoThread ELSE Top.thread
    BY <2>1 DEF Linked
  <2> QED BY <2>1, <2>2, <2>3, TopFacts, ThreadsAssumption DEF AllThreads, Kinds
<1>2. ASSUME NEW a \in Activations, NEW t \in {NoThread, Main},
             a.kind \in {"sync", "run"}, a.kind = "run" => a.thread = Main,
             a.prev = IF Depth = 0 THEN NoThread ELSE calls[Depth].thread,
             calls' = Append(calls, a), current' = a.thread, Leaves(Depth, t)
      PROVE  /\ Keeps /\ UNCHANGED LifeOf
             /\ Coroutines!Join(a.thread, "call")
  <2>1. calls' \in Seq(Activations) /\ Pushed(Depth) /\ calls'[Depth + 1] = a
    BY <1>1, <1>2, PushShape
  <2>2. Kept(Depth) /\ Len(calls') = Depth + 1 /\ Len(calls') \in {Depth, Depth + 1}
    BY <2>1 DEF Pushed
  <2>3. t \notin Threads /\ \A i \in 1 .. Depth : calls[i].kind = "host" => calls[i].thread # t
    BY <1>1 DEF Linked, Resuming
  <2>4. NewFits(Depth)
    BY <1>2, <2>1 DEF NewFits
  <2>5. Steps(Depth, t) /\ Keeps
    <3> HIDE DEF Depth, Top
    <3> QED BY <1>0, <1>1, <1>2, <2>1, <2>2, <2>3, <2>4, LeavesKeeps
  <2>6. \A u \in Threads : ~Joins(Depth, u) /\ u # t
    BY <1>1, <1>2, <2>1, <2>3 DEF Joins, AsCaller
  <2>7. \A u \in Threads : Life(u)' = Life(u)
    BY <1>1, <2>5, <2>6, LifeStays
  <2>8. Chain' = Append(Chain, Coroutines!Link(a.thread, "call"))
    BY <1>1, <1>2, <2>1, <2>2, ChainPushes, ChainWhole, DoesFacts
  <2> QED BY <2>5, <2>7, <2>8, LivesStay DEF Coroutines!Join
<1>3. CASE EnterSync
  <2> DEFINE a == Activation("sync", current, FALSE)
  <2>1. /\ a \in Activations /\ a.kind = "sync" /\ a.thread = current
        /\ a.prev = IF Depth = 0 THEN NoThread ELSE calls[Depth].thread
    <3>1. Linked /\ "sync" \in Kinds /\ FALSE \in BOOLEAN /\ current \in AllThreads \cup {NoThread}
      BY <1>1
    <3> HIDE DEF Depth, Top
    <3> QED BY <3>1, ActivationFacts
  <2>2. calls' = Append(calls, a) /\ current' = current /\ Leaves(Depth, NoThread)
    BY <1>3, NoResumer, TouchingLeaves DEF EnterSync
  <2> HIDE DEF a
  <2>3. Keeps /\ UNCHANGED LifeOf /\ Coroutines!Join(a.thread, "call")
    BY <1>2, <2>1, <2>2
  <2>4. Coroutines!Call
    BY <1>1, <2>1, <2>3 DEF Coroutines!Call
  <2> QED BY <2>3, <2>4 DEF ChainStep, Coroutines!Next
<1>4. CASE EnterRun
  <2> DEFINE a == Activation("run", Main, FALSE)
  <2>1. /\ a \in Activations /\ a.kind = "run" /\ a.thread = Main
        /\ a.prev = IF Depth = 0 THEN NoThread ELSE calls[Depth].thread
    BY ZenonT(60), <1>1, ActivationFacts
  <2>2. calls' = Append(calls, a) /\ current' = Main /\ Leaves(Depth, Main)
    BY <1>4, NoResumer, TouchingLeaves DEF EnterRun
  <2> HIDE DEF a
  <2>3. Keeps /\ UNCHANGED LifeOf /\ Coroutines!Join(Main, "call")
    BY <1>2, <2>1, <2>2
  <2>4. Coroutines!Call
    BY <2>3 DEF Coroutines!Call
  <2> QED BY <2>3, <2>4 DEF ChainStep, Coroutines!Next
<1>5. CASE LeaveBoundary
  <2>1. /\ Depth > 0 /\ Depth \in 1 .. Depth /\ Top.kind \in {"sync", "run"}
        /\ PopTo(Depth - 1) /\ UNCHANGED <<entry, status>>
    BY <1>1, <1>5 DEF LeaveBoundary, Body, Running
  <2>2. Uncovered(Depth)
    BY <1>1 DEF Uncovered
  <2>3. Keeps /\ UNCHANGED LifeOf
    BY <2>1, <2>2, CallLeaves
  <2>4. Coroutines!Keep(Depth - 1) /\ Coroutines!Innermost(Depth) /\ Chain[Depth].does = "call"
    BY <2>1, <2>2, UncoveredFacts, DoesFacts
  <2>5. Coroutines!EndCall(Depth) /\ Depth \in 1 .. Coroutines!Depth
    BY <1>1, <2>1, <2>3, <2>4 DEF Coroutines!EndCall
  <2> QED BY <2>3, <2>5 DEF ChainStep, Coroutines!Next
<1> QED BY <1>3, <1>4, <1>5

-----------------------------------------------------------------------------
(* What crosses several activations at once.                                 *)

LEMMA TornAre ==
  ASSUME TypeOK, NEW k \in 0 .. Depth
  PROVE  Coroutines!Bodies(k) = Torn(k)
<1>1. \A j \in k + 1 .. Depth : j \in 1 .. Depth /\ calls[j] \in Activations
  BY TopFacts DEF TypeOK
<1>2. \A j \in k + 1 .. Depth : Chain[j].who = calls[j].thread /\ Chain[j].does = Does(calls[j].kind)
  BY <1>1, ChainFacts
<1>3. \A j \in k + 1 .. Depth : Does(calls[j].kind) \in {"body", "host"} <=> Resuming(calls[j])
  BY <1>1 DEF Does, Resuming, Activations, Kinds
<1>4. Coroutines!Depth = Depth
  BY ChainFacts DEF Coroutines!Depth
<1>5. \A u : u \in Coroutines!Bodies(k) <=> \E j \in k + 1 .. Depth : Resuming(calls[j]) /\ calls[j].thread = u
  BY <1>2, <1>3, <1>4 DEF Coroutines!Bodies
<1>6. \A u : u \in Torn(k) <=> \E j \in k + 1 .. Depth : Resuming(calls[j]) /\ calls[j].thread = u
  BY DEF Torn
<1> QED BY <1>5, <1>6

(* A coroutine torn out of its body is in use no more, but reports that it is. *)
LEMMA TornFacts ==
  ASSUME TypeOK, ChainInv, NEW k \in 0 .. Depth, \A j \in k + 1 .. Depth : ~Closing(calls[j]),
         NEW u \in Torn(k)
  PROVE  u \in Threads /\ entry[u] # "none" /\ status[u] \in Actives /\ ~HeldBelow(u, k)
<1>1. PICK j \in k + 1 .. Depth : Resuming(calls[j]) /\ calls[j].thread = u
  BY DEF Torn
<1>2. /\ Depth \in Nat /\ j \in 1 .. Depth /\ \A i \in 1 .. k : i < j /\ i \in 1 .. Depth
      /\ (j < Depth => j + 1 \in k + 1 .. Depth)
  BY TopFacts DEF TypeOK
<1>3. u \in Threads /\ Held(u)
  BY <1>1, <1>2 DEF ChainInv, StatusInv, ProtocolInv, Linked, Held, Resuming, AsCaller
<1>4. ~HeldBelow(u, k)
  BY <1>1, <1>2 DEF ChainInv, StatusInv, ProtocolInv, NoReentry, HeldBelow
<1>5. CASE calls[j].kind = "host"
  BY <1>1, <1>2, <1>3, <1>4, <1>5, HeldIsBorn DEF ChainInv, HostsInv, HostFits
<1>6. CASE calls[j].kind = "resume"
  <2>1. Runs(j)
    BY <1>2, <1>6 DEF Runs, SelfClosed, Closing
  <2> QED BY <1>1, <1>2, <1>3, <1>4, <2>1, HeldIsBorn DEF ChainInv, StatusInv, StackInv, Executed
<1> QED BY <1>1, <1>5, <1>6 DEF Resuming

LEMMA TornLives ==
  ASSUME TypeOK, ChainInv, NEW k \in 0 .. Depth, \A j \in k + 1 .. Depth : ~Closing(calls[j]),
         NEW t, Steps(k, t), Leaves(k, t), \A u \in Threads : u # t => ~Joins(k, u)
  PROVE  \A u \in Threads : u # t => Life(u)' = IF u \in Torn(k) THEN "lost" ELSE Life(u)
<1> SUFFICES ASSUME NEW u \in Threads, u # t
             PROVE  Life(u)' = IF u \in Torn(k) THEN "lost" ELSE Life(u)
  OBVIOUS
<1>1. CASE u \in Torn(k)
  <2>1. entry[u] # "none" /\ status[u] \in Actives /\ ~HeldBelow(u, k)
    BY <1>1, TornFacts
  <2>2. status'[u] \in Actives
    BY <2>1 DEF Leaves, AllThreads, Actives
  <2> QED BY <1>1, <2>1, <2>2, LifeOfStepped
<1>2. CASE u \notin Torn(k)
  <2>1. \A j \in k + 1 .. Depth : calls[j].thread = u => AsCaller(calls[j])
    <3> SUFFICES ASSUME NEW j \in k + 1 .. Depth, calls[j].thread = u PROVE AsCaller(calls[j])
      OBVIOUS
    <3>1. j \in 1 .. Depth /\ calls[j] \in Activations
      BY TopFacts DEF TypeOK
    <3>2. calls[j].kind # "run" /\ ~Resuming(calls[j]) /\ ~Closing(calls[j])
      BY <1>2, <3>1, ThreadsAssumption DEF ChainInv, StatusInv, StackInv, KindsFit, Torn
    <3> QED BY <3>1, <3>2 DEF Activations, Kinds, Resuming, Closing, AsCaller
  <2> QED BY <1>2, <2>1, LifeStays
<1> QED BY <1>1, <1>2

(* Everything ends.                                                          *)
LEMMA AllEscapes ==
  ASSUME TypeOK, ChainInv, PopTo(0), status' = StatusAfterPop(0), UNCHANGED entry,
         \A j \in 1 .. Depth : ~Closing(calls[j])
  PROVE  Keeps /\ ChainStep
<1>1. /\ Depth \in Nat /\ 0 \in 0 .. Depth /\ NoThread \notin Threads /\ Linked /\ 0 # 0 + 1
      /\ Coroutines!Depth = Depth
  BY ChainFacts, TopFacts, ThreadsAssumption DEF TypeOK, ChainInv, StatusInv, ProtocolInv, Coroutines!Depth
<1>2. calls' \in Seq(Activations) /\ Kept(0) /\ Len(calls') = 0
  BY <1>1, PopToShape DEF Popped
<1>3. Leaves(0, NoThread)
  BY LeavingLeaves
<1>4. Steps(0, NoThread) /\ Keeps
  <2>1. \A i \in 1 .. 0 : FALSE
    OBVIOUS
  <2>2. Len(calls') \in {0, 0 + 1} /\ Len(calls') # 0 + 1
    BY <1>2
  <2> QED BY <1>1, <1>2, <1>3, <2>1, <2>2, LeavesKeeps
<1>5. \A u \in Threads : ~Joins(0, u) /\ u # NoThread
  BY <1>1, <1>2 DEF Joins
<1>6. \A u \in Threads : Life(u)' = IF u \in Coroutines!Bodies(0) THEN "lost" ELSE Life(u)
  <2>1. \A j \in 0 + 1 .. Depth : ~Closing(calls[j])
    OBVIOUS
  <2> QED BY <1>1, <1>3, <1>4, <1>5, <2>1, TornLives, TornAre
<1>7. Chain' = SubSeq(Chain, 1, 0)
  BY <1>1, <1>2, ChainPops
<1>8. \A i \in 0 + 1 .. Depth : Chain[i].does # "close"
  <2> SUFFICES ASSUME NEW i \in 1 .. Depth PROVE Chain[i].does # "close"
    BY <1>1
  <2>1. calls[i] \in Activations
    BY TopFacts DEF TypeOK
  <2> QED BY <2>1, ChainFacts DEF Does, Closing, Activations, Kinds
<1>9. Coroutines!Escape(0)
  BY <1>1, <1>6, <1>7, <1>8 DEF Coroutines!Escape, Coroutines!Keep, LifeOf
<1> QED BY <1>1, <1>4, <1>9 DEF ChainStep, Coroutines!Next

LEMMA CloseSelfLinks ==
  ASSUME TypeOK, ChainInv, CloseSelf
  PROVE  Keeps /\ ChainStep
<1>1. Linked /\ Depth \in Nat /\ UNCHANGED entry /\ Coroutines!Depth = Depth
  BY ChainFacts DEF ChainInv, StatusInv, ProtocolInv, CloseSelf, Coroutines!Depth
<1>2. CASE Executing = {}
  <2>1. \A j \in 1 .. Depth : ~Closing(calls[j])
    BY <1>2 DEF Executing, Closing
  <2> QED BY <1>1, <1>2, <2>1, AllEscapes DEF CloseSelf
<1>3. CASE Executing # {}
  <2>1. PICK e \in 1 .. Depth : SelfCloses(e)
    BY <1>3 DEF CloseSelf, SelfCloses
  <2>2. /\ calls' \in Seq(Activations) /\ Pushed(e) /\ e \in 0 .. Depth /\ e \in Nat /\ e \in 1 .. e
        /\ calls'[e + 1].kind = "closeself" /\ calls'[e + 1].thread = calls[e].thread
        /\ calls[e].thread \in Threads /\ calls[e] \in Activations
        /\ calls[e].kind \in {"resume", "close", "closeself"}
        /\ \A i \in 1 .. e : i \in 1 .. Depth
    BY <1>1, <2>1, CloseSelfPushes, TopFacts DEF TypeOK
  <2>3. \A j \in e + 1 .. Depth :
          j \in 1 .. Depth /\ calls[j] \in Activations
          /\ calls[j].kind \notin {"resume", "close", "closeself"}
    BY <1>1, <2>1, <2>2, TopFacts DEF SelfCloses, Innermost, Executing, TypeOK
  <2>4. PICK t \in Threads : t = calls[e].thread
    BY <2>2
  <2>5. Leaves(e, t)
    BY <2>1, <2>4, LeavingLeaves DEF SelfCloses
  <2>6. Held(t) /\ entry[t] # "none" /\ Life(t) = "active" /\ HeldBelow(t, e) /\ entry[t] # "host"
    <3>1. Held(t) /\ HeldBelow(t, e)
      BY <2>2, <2>4 DEF Held, HeldBelow, AsCaller
    <3> QED BY <2>2, <2>4, <3>1, HeldIsBorn DEF ChainInv, HostsInv, HostFits
  <2>7. \A i \in 1 .. e : calls[i].kind = "host" => calls[i].thread # t
    BY <2>2, <2>4, HostApart
  <2>8. NewFits(e)
    BY <1>1, <2>2, <2>4, <2>6 DEF NewFits
  <2>9. Steps(e, t) /\ Keeps
    <3>1. Kept(e) /\ Len(calls') \in {e, e + 1}
      BY <2>2 DEF Pushed
    <3> QED BY <1>1, <2>2, <2>5, <2>6, <2>7, <2>8, <3>1, LeavesKeeps
  <2>10. Joins(e, t) /\ \A u \in Threads : u # t => ~Joins(e, u)
    BY <2>2, <2>4 DEF Joins, Pushed, AsCaller
  <2>11. \A j \in e + 1 .. Depth : ~Closing(calls[j])
    BY <2>3 DEF Closing
  <2>12. \A u \in Threads : Life(u)' = IF u \in Coroutines!Bodies(e) THEN "lost" ELSE Life(u)
    <3>1. \A u \in Threads : u # t => Life(u)' = IF u \in Torn(e) THEN "lost" ELSE Life(u)
      BY <2>2, <2>5, <2>9, <2>10, <2>11, TornLives
    <3>2. Life(t)' = "active" /\ t \notin Torn(e)
      BY <2>2, <2>6, <2>9, <2>11, LifeOfStepped, TornFacts
    <3> QED BY <2>2, <2>6, <3>1, <3>2, TornAre
  <2>13. Chain' = Append(SubSeq(Chain, 1, e), Coroutines!Link(t, "close"))
    BY <2>2, <2>4, ChainPushes, DoesFacts DEF Pushed
  <2>14. /\ Chain[e].who = t /\ Chain[e].does \in {"body", "close"}
         /\ \A i \in e + 1 .. Depth : Chain[i].does \in {"call", "host", "enter"}
    <3>1. \A i \in e + 1 .. Depth : Does(calls[i].kind) \in {"call", "host", "enter"}
      BY <2>3 DEF Does, Activations, Kinds
    <3> QED BY <2>2, <2>3, <2>4, <3>1, ChainFacts, DoesFacts
  <2>15. Coroutines!CloseSelf(e)
    BY <1>1, <2>12, <2>13, <2>14 DEF Coroutines!CloseSelf, LifeOf
  <2> QED BY <1>1, <2>9, <2>15 DEF ChainStep, Coroutines!Next
<1> QED BY <1>2, <1>3

LEMMA QuotaLinks ==
  ASSUME TypeOK, ChainInv, QuotaExceeded
  PROVE  Keeps /\ ChainStep
<1>1. Linked /\ Depth \in Nat /\ UNCHANGED entry /\ Coroutines!Depth = Depth
  BY ChainFacts DEF ChainInv, StatusInv, ProtocolInv, QuotaExceeded, Coroutines!Depth
<1>2. CASE Catching = {}
  <2>1. \A j \in 1 .. Depth : ~Closing(calls[j])
    BY <1>2 DEF Catching, Closing
  <2> QED BY <1>1, <1>2, <2>1, AllEscapes DEF QuotaExceeded
<1>3. CASE Catching # {}
  <2>1. PICK q \in 1 .. Depth :
          LET t == calls[q].thread IN
          /\ Innermost(q, Catching)
          /\ IF calls[q].kind = "host"
             THEN PopTo(q - 1) /\ status' = StatusLeaving(q - 1, t, "dead")
             ELSE /\ calls' = [SubSeq(calls, 1, q) EXCEPT ![q] = HandlerEnded(@, TRUE)]
                  /\ current' = t
                  /\ status' = StatusAfterPop(q)
    BY <1>3 DEF QuotaExceeded
  <2>2. /\ q \in Nat /\ q \in 0 .. Depth /\ q - 1 \in 0 .. Depth /\ q - 1 + 1 = q /\ q > 0
        /\ q - 1 # q - 1 + 1 /\ q # q + 1
        /\ \A i \in 1 .. q - 1 : i \in 1 .. q /\ i # q
        /\ \A i \in 1 .. q : i \in 1 .. Depth /\ (i # q => i < q)
        /\ \A j \in q - 1 + 1 .. Depth : j = q \/ j \in q + 1 .. Depth
        /\ \A j \in q + 1 .. Depth : j \in 1 .. Depth /\ ~(j <= q) /\ j \in q - 1 + 1 .. Depth
        /\ q \in q - 1 + 1 .. Depth
    BY <1>1
  <2>3. /\ calls[q].kind \in {"close", "closeself", "host", "entry"}
        /\ calls[q].kind # "entry" => calls[q].thread \in Threads
        /\ \A j \in q + 1 .. Depth : calls[j].kind \notin {"close", "closeself", "host"}
    BY <1>1, <2>1, <2>2 DEF Innermost, Catching, Linked, Resuming, Closing
  <2>4. PICK t : t = calls[q].thread
    OBVIOUS
  <2>6. \A j \in q + 1 .. Depth : ~Closing(calls[j])
    BY <2>3 DEF Closing
  <2>7. \A j \in q + 1 .. Depth : Chain[j].does # "close"
    <3> SUFFICES ASSUME NEW j \in q + 1 .. Depth PROVE Chain[j].does # "close"
      OBVIOUS
    <3>1. j \in 1 .. Depth /\ calls[j] \in Activations
      BY <2>2, TopFacts DEF TypeOK
    <3> QED BY <2>3, <3>1, ChainFacts DEF Does, Activations, Kinds
  <2>8. Chain[q].who = t /\ Chain[q].does = Does(calls[q].kind)
    BY <2>4, ChainFacts
  <2>9. CASE calls[q].kind = "host"
    <3>0. Held(t) /\ entry[t] # "none" /\ t \in AllThreads /\ t \in Threads
      <4>1. Held(t) /\ t \in Threads
        BY <2>3, <2>4, <2>9 DEF Held, AsCaller
      <4> QED BY <4>1, HeldIsBorn DEF AllThreads
    <3>1. PopTo(q - 1) /\ status' = StatusLeaving(q - 1, t, "dead")
      BY <2>1, <2>4, <2>9
    <3>2. Leaves(q - 1, t) /\ status'[t] = "dead"
      BY <3>0, <3>1, LeavingLeaves
    <3>3. calls' \in Seq(Activations) /\ Kept(q - 1) /\ Len(calls') = q - 1
      BY <1>1, <2>2, <3>1, PopToShape DEF Popped
    <3>4. \A i \in 1 .. q - 1 : calls[i].thread # t
      BY <2>2, <2>4, <2>9 DEF ChainInv, StatusInv, ProtocolInv, NoReentry, Resuming
    <3>5. Steps(q - 1, t) /\ Keeps
      <4>1. Len(calls') \in {q - 1, q - 1 + 1} /\ Len(calls') # q - 1 + 1
        BY <2>2, <3>3
      <4> QED BY <1>1, <2>2, <3>0, <3>2, <3>3, <3>4, <4>1, LeavesKeeps
    <3>6. ~HeldBelow(t, q - 1) /\ \A u : ~Joins(q - 1, u)
      BY <2>2, <3>3, <3>4 DEF HeldBelow, Joins
    <3>7. Life(t)' = "dead"
      BY <2>2, <3>0, <3>2, <3>5, <3>6, LifeOfStepped DEF Actives
    <3>8. \A u \in Threads : u # t => Life(u)' = IF u \in Torn(q - 1) THEN "lost" ELSE Life(u)
      <4>1. \A j \in q - 1 + 1 .. Depth : ~Closing(calls[j])
        BY <2>2, <2>6, <2>9 DEF Closing
      <4> QED BY <2>2, <3>2, <3>5, <3>6, <4>1, TornLives
    <3>9. \A u : u # t => (u \in Torn(q - 1) <=> u \in Torn(q))
      BY <2>2, <2>4 DEF Torn
    <3>10. t \notin Torn(q)
      BY <2>2, <2>4, <2>9 DEF Torn, ChainInv, StatusInv, ProtocolInv, NoReentry, Resuming
    <3>11. \A u \in Threads : Life(u)' = IF u \in Coroutines!Bodies(q) THEN "lost"
                                         ELSE IF u = t THEN "dead" ELSE Life(u)
      BY <2>2, <3>7, <3>8, <3>9, <3>10, TornAre
    <3>12. Chain' = SubSeq(Chain, 1, q - 1) /\ Chain[q].does = "host"
      BY <2>2, <2>8, <2>9, <3>3, ChainPops, DoesFacts
    <3>13. Coroutines!Escape(q)
      BY <1>1, <2>2, <2>7, <2>8, <3>11, <3>12 DEF Coroutines!Escape, Coroutines!Keep, LifeOf
    <3> QED BY <1>1, <2>2, <3>5, <3>13 DEF ChainStep, Coroutines!Next
  <2>10. CASE calls[q].kind # "host"
    <3>1. /\ calls' = [SubSeq(calls, 1, q) EXCEPT ![q] = HandlerEnded(@, TRUE)]
          /\ current' = calls[q].thread /\ status' = StatusAfterPop(q)
      BY <2>1, <2>10
    <3>2. Leaves(q, NoThread) /\ NoThread \notin Threads
      BY <3>1, LeavingLeaves, ThreadsAssumption
    <3>3. calls' \in Seq(Activations) /\ Kept(q) /\ Len(calls') = q
      <4>1. calls[q] \in Activations /\ SubSeq(calls, 1, q)[q] = calls[q]
        BY <1>1, <2>2, TopFacts, PopFacts DEF TypeOK
      <4>2. calls' = [SubSeq(calls, 1, q) EXCEPT ![q] = HandlerEnded(calls[q], TRUE)]
        BY <3>1, <4>1
      <4> QED BY ZenonT(60), <1>1, <3>1, <4>1, <4>2, HandlerFacts, FlagShape DEF Popped
    <3>4. Steps(q, NoThread) /\ Keeps
      <4>1. Len(calls') \in {q, q + 1} /\ Len(calls') # q + 1
        BY <2>2, <3>3
      <4>2. \A i \in 1 .. q : calls[i].kind = "host" => calls[i].thread # NoThread
        BY <1>1, <2>2, <3>2 DEF Linked, Resuming
      <4> QED BY <1>1, <2>2, <3>2, <3>3, <4>1, <4>2, LeavesKeeps
    <3>5. \A u \in Threads : ~Joins(q, u) /\ u # NoThread
      BY <2>2, <3>2, <3>3 DEF Joins
    <3>6. \A u \in Threads : Life(u)' = IF u \in Coroutines!Bodies(q) THEN "lost" ELSE Life(u)
      BY <2>2, <2>6, <3>2, <3>4, <3>5, TornLives, TornAre
    <3>7. Chain' = SubSeq(Chain, 1, q)
      BY <2>2, <3>3, ChainPops
    <3>8. Chain[q].does \in {"close", "enter"}
      BY <2>3, <2>8, <2>10, DoesFacts
    <3>9. Coroutines!Escape(q)
      BY <1>1, <2>2, <2>7, <3>6, <3>7, <3>8 DEF Coroutines!Escape, Coroutines!Keep, LifeOf
    <3> QED BY <1>1, <2>2, <3>4, <3>9 DEF ChainStep, Coroutines!Next
  <2> QED BY <2>9, <2>10
<1> QED BY <1>2, <1>3

-----------------------------------------------------------------------------
(* The theorem.                                                              *)

LEMMA NextLinks ==
  ASSUME TypeOK, ChainInv, HandlersYield = FALSE, HandlersRevive = FALSE, [Next]_vars
  PROVE  Keeps /\ ChainStep
<1>1. CASE OpenTbc \/ CloseTbc \/ UNCHANGED vars
  BY <1>1, SameLinks DEF OpenTbc, CloseTbc, vars
<1>2. CASE Yield \/ EntryFails \/ EntryEnters \/ EntryWasClosed
  BY <1>2, YieldLinks, EntryLinks
<1>3. CASE BodyReturns \/ BodyFails \/ \E failed \in BOOLEAN : HostEnds(failed)
  BY <1>3, BodyLinks
<1>4. CASE RunHandler \/ HandlerReturns \/ \E inLua \in BOOLEAN : HandlerFails(inLua)
  BY <1>4, HandlerLinks
<1>5. CASE EnterSync \/ EnterRun \/ LeaveBoundary
  BY <1>5, BoundaryLinks
<1>6. CASE CloseSelf \/ QuotaExceeded \/ FinishClose \/ FinishCloseSelf
  BY <1>6, CloseSelfLinks, QuotaLinks, FinishCloseLinks, FinishCloseSelfLinks
<1> QED
  BY <1>1, <1>2, <1>3, <1>4, <1>5, <1>6, CreateLinks, ResumeLinks, CloseOtherLinks DEF Next

LEMMA InitLinks ==
  ASSUME Init
  PROVE  HostsInv /\ BornInv /\ Coroutines!Init
<1>1. calls = <<>> /\ Depth = 0
  BY DEF Init
<1>2. \A t \in Threads : status[t] = "suspended" /\ entry[t] = "none"
  BY ThreadsAssumption DEF Init, AllThreads
<1>3. \A t \in Threads : Life(t) = "none"
  <2>1. \A t \in Threads : ~Held(t)
    BY <1>1 DEF Held
  <2> QED BY <1>2, <2>1 DEF Life
<1>4. Chain = <<>>
  BY <1>1 DEF Chain
<1> QED
  BY <1>1, <1>2, <1>3, <1>4 DEF HostsInv, BornInv, Born, Coroutines!Init, LifeOf

(* When no handler yields while its coroutine is being closed, and no handler  *)
(* of xpcall takes the place of a coroutine closed by its own entry, coroutines *)
(* and their activations implement the chain that the library promises: what  *)
(* resume_thread, close_thread, _force_close, call_sync and run do to one      *)
(* another's Python activations is, step by step, a coroutine that joins the   *)
(* end of the chain, one that leaves it there, or an error that takes the end  *)
(* of the chain away and nothing else.                                       *)
THEOREM ImplementsCorrect ==
  HandlersYield = FALSE /\ HandlersRevive = FALSE => (Spec => ImplementsCoroutines)
<1> SUFFICES ASSUME HandlersYield = FALSE, HandlersRevive = FALSE
             PROVE  Spec => ImplementsCoroutines
  OBVIOUS
<1>1. Init => HostsInv /\ BornInv /\ Coroutines!Init
  BY InitLinks
<1>2. TypeOK /\ StatusInv /\ HostsInv /\ BornInv /\ [Next]_vars =>
        HostsInv' /\ BornInv' /\ [Coroutines!Next]_(Coroutines!vars)
  BY NextLinks DEF ChainInv, Keeps, ChainStep, Coroutines!vars
<1>3. Spec => [](TypeOK /\ StatusInv)
  BY StatusHolds
<1> QED BY <1>1, <1>2, <1>3, PTL DEF Spec, ImplementsCoroutines, Coroutines!Spec

=============================================================================

--------------------------- MODULE LuaThreadsProofs ---------------------------
(***************************************************************************)
(* Theorems about LuaThreads, for every set of coroutines and every bound.  *)
(*                                                                          *)
(* Every step either drops the activations above some k and touches up the  *)
(* one at k (Popped), or does so and pushes one more (Pushed).  The shape   *)
(* lemma reduces the invariants about the activation stack to these two     *)
(* cases.  The second half is about what the statuses and the fields of a   *)
(* coroutine say.                                                           *)
(***************************************************************************)
EXTENDS LuaThreads, TLAPS

USE DEF Depth, Top, AsCaller

(* The k outermost activations are the same but for their flags.            *)
Kept(k) ==
  \A i \in 1 .. k : /\ calls'[i].kind = calls[i].kind
                    /\ calls'[i].thread = calls[i].thread
                    /\ calls'[i].prev = calls[i].prev
                    /\ calls'[i].into = calls[i].into

Popped(k) == Len(calls') = k /\ Kept(k)

Pushed(k) ==
  /\ Len(calls') = k + 1 /\ Kept(k)
  /\ calls'[k + 1].prev = IF k = 0 THEN NoThread ELSE calls[k].thread
  /\ current' = calls'[k + 1].thread

(* current_thread after the step is that of the activation left on top.      *)
Restored(k) == current' = IF k = 0 THEN NoThread ELSE calls[k].thread

-----------------------------------------------------------------------------
(* Dropping the inner activations leaves the outer ones as they were.        *)
LEMMA PopFacts ==
  ASSUME calls \in Seq(Activations), NEW k \in 0 .. Depth
  PROVE  /\ SubSeq(calls, 1, k) \in Seq(Activations)
         /\ Len(SubSeq(calls, 1, k)) = k
         /\ \A i \in 1 .. k : SubSeq(calls, 1, k)[i] = calls[i]
  OBVIOUS

(* Pushing one leaves those below as they were.                              *)
LEMMA PushFacts ==
  ASSUME NEW s \in Seq(Activations), NEW a \in Activations
  PROVE  /\ Append(s, a) \in Seq(Activations)
         /\ Len(Append(s, a)) = Len(s) + 1
         /\ \A i \in 1 .. Len(s) : Append(s, a)[i] = s[i]
         /\ Append(s, a)[Len(s) + 1] = a
  OBVIOUS

(* Touching up one activation.                                               *)
LEMMA SetFacts ==
  ASSUME NEW s \in Seq(Activations), NEW k \in 1 .. Len(s), NEW a \in Activations
  PROVE  /\ [s EXCEPT ![k] = a] \in Seq(Activations)
         /\ Len([s EXCEPT ![k] = a]) = Len(s)
         /\ \A i \in 1 .. Len(s) :
              [s EXCEPT ![k] = a][i] = IF i = k THEN a ELSE s[i]
  OBVIOUS

(* The activation that encloses the current code.                            *)
LEMMA TopFacts ==
  ASSUME calls \in Seq(Activations)
  PROVE  /\ Depth \in Nat
         /\ \A i \in 1 .. Depth : calls[i] \in Activations
         /\ Depth > 0 => Depth \in 1 .. Depth /\ Top \in Activations
  OBVIOUS

(* The activations below the nth.                                            *)
LEMMA BelowFacts ==
  ASSUME NEW n \in Nat
  PROVE  \A i \in 1 .. n - 1 : i \in 1 .. n /\ i # n
  OBVIOUS

LEMMA UnderFacts ==
  ASSUME NEW n \in Nat, n > 0, NEW k, k = n - 1
  PROVE  /\ k + 1 = n /\ (n # 1 => k \in 1 .. k)
         /\ (\A i \in 1 .. k : i \in 1 .. n) /\ \A j \in k + 1 .. n : j = n
  OBVIOUS

(* PopTo makes a Popped step that restores current_thread.                   *)
LEMMA PopToShape ==
  ASSUME TypeOK, Linked, NEW k \in 0 .. Depth, PopTo(k)
  PROVE  calls' \in Seq(Activations) /\ Popped(k) /\ Restored(k)
         /\ current' \in AllThreads \cup {NoThread}
<1>1. calls \in Seq(Activations)
  BY DEF TypeOK
<1>2. calls' \in Seq(Activations) /\ Popped(k)
  BY <1>1, PopFacts DEF PopTo, Popped, Kept
<1>3. CASE k = Depth
  BY <1>2, <1>3, <1>1, TopFacts DEF PopTo, Restored, Linked, TypeOK
<1>4. CASE k # Depth
  <2>1. k + 1 \in 1 .. Depth /\ k + 1 - 1 = k /\ (k + 1 = 1 <=> k = 0)
    BY <1>1, <1>4, TopFacts
  <2>2. calls[k + 1].prev = IF k = 0 THEN NoThread ELSE calls[k].thread
    BY <2>1 DEF Linked
  <2>3. calls[k + 1].prev \in AllThreads \cup {NoThread}
    BY <1>1, <2>1, TopFacts DEF Activations
  <2> QED BY <1>2, <1>4, <2>2, <2>3 DEF PopTo, Restored
<1> QED BY <1>3, <1>4

(* Dropping activations and changing the flags of the one left on top.       *)
LEMMA FlagShape ==
  ASSUME TypeOK, Linked, NEW k \in 1 .. Depth, NEW a \in Activations,
         a.kind = calls[k].kind, a.thread = calls[k].thread, a.prev = calls[k].prev,
         a.into = calls[k].into,
         \/ calls' = [SubSeq(calls, 1, k) EXCEPT ![k] = a]
         \/ k = Depth /\ calls' = [calls EXCEPT ![k] = a],
         current' = a.thread
  PROVE  calls' \in Seq(Activations) /\ Popped(k) /\ Restored(k)
<1>1. calls \in Seq(Activations) /\ k \in 0 .. Depth /\ k # 0
  BY DEF TypeOK
<1>2. CASE k = Depth /\ calls' = [calls EXCEPT ![k] = a]
  BY <1>1, <1>2, SetFacts DEF Popped, Kept, Restored
<1>3. CASE calls' = [SubSeq(calls, 1, k) EXCEPT ![k] = a]
  <2> DEFINE s == SubSeq(calls, 1, k)
  <2>1. /\ s \in Seq(Activations) /\ Len(s) = k
        /\ \A i \in 1 .. k : s[i] = calls[i]
    BY <1>1, PopFacts
  <2>2. calls' = [s EXCEPT ![k] = a] /\ k \in 1 .. Len(s)
    BY <1>1, <1>3, <2>1
  <2> HIDE DEF s
  <2>3. /\ calls' \in Seq(Activations) /\ Len(calls') = k
        /\ \A i \in 1 .. k : calls'[i] = IF i = k THEN a ELSE s[i]
    BY <2>1, <2>2, SetFacts
  <2> QED BY <1>1, <2>1, <2>3 DEF Popped, Kept, Restored
<1> QED BY <1>2, <1>3

(* Starting a handler, or ending one, only touches the flags.                *)
LEMMA HandlerFacts ==
  ASSUME NEW a \in Activations, NEW e \in BOOLEAN
  PROVE  /\ HandlerEnded(a, e) \in Activations
         /\ HandlerEnded(a, e).kind = a.kind
         /\ HandlerEnded(a, e).thread = a.thread
         /\ HandlerEnded(a, e).prev = a.prev
         /\ HandlerEnded(a, e).into = a.into
         /\ [a EXCEPT !.busy = TRUE] \in Activations
         /\ [a EXCEPT !.busy = TRUE].kind = a.kind
         /\ [a EXCEPT !.busy = TRUE].thread = a.thread
         /\ [a EXCEPT !.busy = TRUE].prev = a.prev
         /\ [a EXCEPT !.busy = TRUE].into = a.into
         /\ [a EXCEPT !.err = TRUE] \in Activations
         /\ [a EXCEPT !.err = TRUE].kind = a.kind
         /\ [a EXCEPT !.err = TRUE].thread = a.thread
         /\ [a EXCEPT !.err = TRUE].prev = a.prev
         /\ [a EXCEPT !.err = TRUE].into = a.into
BY DEF HandlerEnded, Activations

(* Pushing an activation on the k outermost ones.                            *)
LEMMA PushShape ==
  ASSUME TypeOK, NEW k \in 0 .. Depth, NEW a \in Activations,
         calls' = Append(SubSeq(calls, 1, k), a) \/ (k = Depth /\ calls' = Append(calls, a)),
         a.prev = IF k = 0 THEN NoThread ELSE calls[k].thread,
         current' = a.thread
  PROVE  calls' \in Seq(Activations) /\ Pushed(k) /\ calls'[k + 1] = a
<1>1. calls \in Seq(Activations)
  BY DEF TypeOK
<1>2. CASE calls' = Append(SubSeq(calls, 1, k), a)
  BY <1>1, <1>2, PopFacts, PushFacts DEF Pushed, Kept
<1>3. CASE k = Depth /\ calls' = Append(calls, a)
  BY <1>1, <1>3, PushFacts DEF Pushed, Kept
<1> QED BY <1>2, <1>3

(* What every pushed activation satisfies.                                   *)
NewOK(k) ==
  LET a == calls'[k + 1] IN
  /\ Resuming(a) \/ Closing(a) => a.thread \in Threads
  /\ a.kind = "entry" =>
       /\ a.into \in Threads /\ a.thread = a.prev /\ k = Depth
       /\ ResumeFirst(a.into) /\ entry[a.into] = "protected" /\ UNCHANGED <<status, current>>
  /\ Resuming(a) => \/ status[a.thread] = "suspended"
                    \/ EntryEnters /\ k = Depth - 1 /\ a.thread = Top.into
  /\ a.kind = "closeself" =>
       /\ k > 0 /\ calls[k].thread = a.thread
       /\ calls[k].kind \in {"resume", "close", "closeself"}

Shape ==
  /\ calls' \in Seq(Activations)
  /\ current' \in AllThreads \cup {NoThread}
  /\ \E k \in 0 .. Depth :
       \/ Popped(k) /\ Restored(k)
       \/ Pushed(k) /\ NewOK(k)

-----------------------------------------------------------------------------
(* The shape of each action.                                                *)

LEMMA SameShape ==
  ASSUME TypeOK, Linked, UNCHANGED <<calls, current>>
  PROVE  Shape
<1>1. calls \in Seq(Activations) /\ Depth \in 0 .. Depth
  BY TopFacts DEF TypeOK
<1>2. Popped(Depth) /\ Restored(Depth)
  BY <1>1 DEF Popped, Kept, Restored, Linked
<1> QED BY <1>1, <1>2 DEF Shape, TypeOK

LEMMA PopToIsShape ==
  ASSUME TypeOK, Linked, NEW k \in 0 .. Depth, PopTo(k)
  PROVE  Shape
BY PopToShape DEF Shape

LEMMA FlagIsShape ==
  ASSUME TypeOK, Linked, NEW k \in 1 .. Depth, NEW e \in BOOLEAN,
         \/ calls' = [SubSeq(calls, 1, k) EXCEPT ![k] = HandlerEnded(@, e)]
         \/ k = Depth /\ calls' = [calls EXCEPT ![k] = HandlerEnded(@, e)]
         \/ k = Depth /\ calls' = [calls EXCEPT ![k] = [@ EXCEPT !.busy = TRUE]]
         \/ k = Depth /\ calls' = [calls EXCEPT ![k] = [@ EXCEPT !.err = TRUE]],
         current' = calls[k].thread
  PROVE  Shape
<1> DEFINE a == HandlerEnded(calls[k], e)
           b == [calls[k] EXCEPT !.busy = TRUE]
           c == [calls[k] EXCEPT !.err = TRUE]
<1>1. calls \in Seq(Activations) /\ k \in 0 .. Depth /\ calls[k] \in Activations
  BY TopFacts DEF TypeOK
<1>2. current' \in AllThreads \cup {NoThread}
  BY <1>1 DEF Activations
<1>3. SubSeq(calls, 1, k)[k] = calls[k]
  BY <1>1, PopFacts
<1>4. /\ a \in Activations /\ a.kind = calls[k].kind /\ a.thread = calls[k].thread
      /\ a.prev = calls[k].prev /\ a.into = calls[k].into
  BY <1>1, HandlerFacts
<1>5. /\ b \in Activations /\ b.kind = calls[k].kind /\ b.thread = calls[k].thread
      /\ b.prev = calls[k].prev /\ b.into = calls[k].into
  BY <1>1, HandlerFacts
<1>8. /\ c \in Activations /\ c.kind = calls[k].kind /\ c.thread = calls[k].thread
      /\ c.prev = calls[k].prev /\ c.into = calls[k].into
  BY <1>1, HandlerFacts
<1>6. \/ calls' = [SubSeq(calls, 1, k) EXCEPT ![k] = a]
      \/ k = Depth /\ calls' = [calls EXCEPT ![k] = a]
      \/ k = Depth /\ calls' = [calls EXCEPT ![k] = b]
      \/ k = Depth /\ calls' = [calls EXCEPT ![k] = c]
  BY <1>3
<1> HIDE DEF a, b, c
<1>7. calls' \in Seq(Activations) /\ Popped(k) /\ Restored(k)
  <2>1. CASE \/ calls' = [SubSeq(calls, 1, k) EXCEPT ![k] = a]
             \/ k = Depth /\ calls' = [calls EXCEPT ![k] = a]
    BY <1>4, <2>1, FlagShape
  <2>2. CASE k = Depth /\ calls' = [calls EXCEPT ![k] = b]
    BY <1>5, <2>2, FlagShape
  <2>3. CASE k = Depth /\ calls' = [calls EXCEPT ![k] = c]
    BY <1>8, <2>3, FlagShape
  <2> QED BY <1>6, <2>1, <2>2, <2>3
<1> QED BY <1>1, <1>2, <1>7 DEF Shape

LEMMA PushIsShape ==
  ASSUME TypeOK, Linked, NEW k \in 0 .. Depth, NEW a \in Activations,
         calls' = Append(SubSeq(calls, 1, k), a) \/ (k = Depth /\ calls' = Append(calls, a)),
         a.prev = IF k = 0 THEN NoThread ELSE calls[k].thread,
         current' = a.thread,
         Resuming(a) \/ Closing(a) => a.thread \in Threads,
         a.kind # "entry", Resuming(a) => status[a.thread] = "suspended",
         a.kind = "closeself" =>
           /\ k > 0 /\ calls[k].thread = a.thread
           /\ calls[k].kind \in {"resume", "close", "closeself"}
  PROVE  Shape
<1>1. calls' \in Seq(Activations) /\ Pushed(k) /\ calls'[k + 1] = a
  BY PushShape
<1>2. NewOK(k)
  BY <1>1 DEF NewOK
<1>3. current' \in AllThreads \cup {NoThread}
  BY DEF Activations
<1> QED BY <1>1, <1>2, <1>3 DEF Shape

(* The record of a new activation.                                           *)
LEMMA ActivationFacts ==
  ASSUME TypeOK, Linked, NEW kind \in Kinds, NEW t \in AllThreads \cup {NoThread},
         NEW e \in BOOLEAN
  PROVE  /\ Activation(kind, t, e) \in Activations
         /\ Activation(kind, t, e).kind = kind
         /\ Activation(kind, t, e).thread = t
         /\ Activation(kind, t, e).into = NoThread
         /\ Activation(kind, t, e).prev = IF Depth = 0 THEN NoThread
                                          ELSE calls[Depth].thread
BY DEF Activation, Activations, Linked, TypeOK

LEMMA EnterShape ==
  ASSUME TypeOK, Linked, NEW t \in Threads, NEW kind \in {"resume", "host"},
         status[t] = "suspended", EnterThread(t, kind)
  PROVE  Shape
<1> DEFINE a == Activation(kind, t, FALSE)
<1>1. Depth \in 0 .. Depth
  BY TopFacts DEF TypeOK
<1>2. /\ a \in Activations /\ a.kind = kind /\ a.thread = t
      /\ a.prev = IF Depth = 0 THEN NoThread ELSE calls[Depth].thread
  <2>1. kind \in Kinds /\ t \in AllThreads \cup {NoThread} /\ FALSE \in BOOLEAN
    BY DEF Kinds, AllThreads
  <2> QED BY <2>1, ActivationFacts
<1>3. calls' = Append(calls, a) /\ current' = t
  BY DEF EnterThread
<1> HIDE DEF a
<1> QED BY <1>1, <1>2, <1>3, PushIsShape DEF Closing

(* A host function that a coroutine is given as its first call.              *)
LEMMA EntryIsPushed ==
  ASSUME TypeOK, Linked, NEW t \in Threads, UNCHANGED current,
         calls' = Append(calls, [Activation("entry", current, FALSE) EXCEPT !.into = t])
  PROVE  /\ calls' \in Seq(Activations) /\ Pushed(Depth)
         /\ calls'[Depth + 1].kind = "entry" /\ calls'[Depth + 1].thread = current
         /\ calls'[Depth + 1].prev = current /\ calls'[Depth + 1].into = t
<1> DEFINE b == Activation("entry", current, FALSE)
           a == [b EXCEPT !.into = t]
<1>1. /\ Depth \in 0 .. Depth /\ "entry" \in Kinds /\ FALSE \in BOOLEAN
      /\ current \in AllThreads \cup {NoThread}
      /\ current = IF Depth = 0 THEN NoThread ELSE calls[Depth].thread
  BY TopFacts DEF TypeOK, Kinds, Linked
<1>2. /\ b \in Activations /\ b.kind = "entry" /\ b.thread = current
      /\ b.prev = IF Depth = 0 THEN NoThread ELSE calls[Depth].thread
  BY ZenonT(60), <1>1, ActivationFacts
<1>3. calls' = Append(calls, a) /\ current' = current
  OBVIOUS
<1> HIDE DEF b
<1>4. /\ a \in Activations /\ a.kind = "entry" /\ a.thread = current /\ a.prev = b.prev
      /\ a.into = t
  BY <1>2 DEF Activations
<1> HIDE DEF a
<1>5. calls' \in Seq(Activations) /\ Pushed(Depth) /\ calls'[Depth + 1] = a
  BY <1>1, <1>2, <1>3, <1>4, PushShape
<1>6. b.prev = current
  BY <1>1, <1>2
<1> QED BY <1>4, <1>5, <1>6

LEMMA ResumeFirstShape ==
  ASSUME TypeOK, Linked, NEW t \in Threads, ResumeFirst(t)
  PROVE  Shape
<1>1. CASE EnterThread(t, IF entry[t] = "host" THEN "host" ELSE "resume")
  BY <1>1, EnterShape DEF ResumeFirst, Resumable
<1>2. CASE /\ entry[t] = "protected" /\ UNCHANGED <<status, current>>
           /\ calls' = Append(calls, [Activation("entry", current, FALSE) EXCEPT !.into = t])
  <2>1. /\ calls' \in Seq(Activations) /\ Pushed(Depth)
        /\ calls'[Depth + 1].kind = "entry" /\ calls'[Depth + 1].thread = current
        /\ calls'[Depth + 1].prev = current /\ calls'[Depth + 1].into = t
    BY <1>2, EntryIsPushed
  <2>2. NewOK(Depth)
    BY <1>2, <2>1 DEF NewOK, Resuming, Closing
  <2>3. Depth \in 0 .. Depth /\ current' \in AllThreads \cup {NoThread}
    BY <1>2, TopFacts DEF TypeOK
  <2> QED BY <2>1, <2>2, <2>3 DEF Shape
<1> QED BY <1>1, <1>2 DEF ResumeFirst

(* It is entered in the place of the call that went before.                   *)
LEMMA EntryEntersPushes ==
  ASSUME TypeOK, Linked, EntryEnters
  PROVE  /\ calls' \in Seq(Activations) /\ Pushed(Depth - 1)
         /\ calls'[Depth].kind = "resume" /\ calls'[Depth].thread = Top.into
         /\ calls'[Depth].prev = current /\ Top.into \in Threads
<1>1. /\ calls \in Seq(Activations) /\ Depth \in Nat /\ Depth \in 1 .. Len(calls)
      /\ Depth - 1 \in 0 .. Depth /\ Depth - 1 + 1 = Depth
      /\ Top.kind = "entry" /\ current = Top.thread /\ Top.thread = Top.prev
      /\ Top.into \in Threads
  BY TopFacts DEF TypeOK, EntryEnters, Linked
<1> DEFINE a == Activation("resume", Top.into, FALSE)
<1>2. a \in Activations /\ a.kind = "resume" /\ a.thread = Top.into /\ a.prev = current
  <2>1. "resume" \in Kinds /\ Top.into \in AllThreads \cup {NoThread} /\ FALSE \in BOOLEAN
    BY <1>1 DEF Kinds, AllThreads
  <2>2. Depth # 0 /\ current = calls[Depth].thread
    BY <1>1
  <2> QED BY ZenonT(60), <2>1, <2>2, ActivationFacts
<1>3. calls' = [calls EXCEPT ![Depth] = a] /\ current' = Top.into
  BY DEF EntryEnters
<1>4. a.prev = IF Depth - 1 = 0 THEN NoThread ELSE calls[Depth - 1].thread
  <2>1. Top.prev = IF Depth = 1 THEN NoThread ELSE calls[Depth - 1].thread
    BY <1>1 DEF Linked
  <2>2. Depth - 1 = 0 <=> Depth = 1
    BY <1>1
  <2> QED BY <1>1, <1>2, <2>1, <2>2
<1> HIDE DEF a
<1>6. /\ calls' \in Seq(Activations) /\ Len(calls') = Depth
      /\ \A i \in 1 .. Depth : calls'[i] = IF i = Depth THEN a ELSE calls[i]
  BY <1>1, <1>2, <1>3, SetFacts
<1>7. calls'[Depth] = a
  BY <1>1, <1>6
<1>8. Kept(Depth - 1)
  <2>1. \A i \in 1 .. Depth - 1 : i \in 1 .. Depth /\ i # Depth
    BY <1>1, BelowFacts
  <2>2. \A i \in 1 .. Depth - 1 : calls'[i] = calls[i]
    BY <1>6, <2>1
  <2> QED BY <2>2 DEF Kept
<1>9. Pushed(Depth - 1)
  <2>1. Len(calls') = Depth - 1 + 1 /\ calls'[Depth - 1 + 1] = a
    BY <1>1, <1>6, <1>7
  <2> QED BY <1>2, <1>3, <1>4, <1>8, <2>1 DEF Pushed
<1> QED BY <1>1, <1>2, <1>6, <1>7, <1>9

LEMMA EntryShape ==
  ASSUME TypeOK, Linked, EntryFails \/ EntryEnters \/ EntryWasClosed
  PROVE  Shape
<1>0. Depth > 0
  BY DEF EntryFails, EntryEnters, EntryWasClosed, Running
<1>1. Depth \in Nat /\ Depth \in 1 .. Depth /\ Depth - 1 \in 0 .. Depth /\ Depth - 1 + 1 = Depth
  BY <1>0, TopFacts DEF TypeOK
<1>2. CASE EntryFails
  <2>1. /\ calls' = [calls EXCEPT ![Depth] = [@ EXCEPT !.err = TRUE]]
        /\ current' = calls[Depth].thread
    BY <1>1, <1>2 DEF EntryFails, Linked
  <2> QED BY <1>1, <2>1, FlagIsShape
<1>3. CASE EntryEnters
  <2>1. /\ calls' \in Seq(Activations) /\ Pushed(Depth - 1)
        /\ calls'[Depth - 1 + 1].kind = "resume" /\ calls'[Depth - 1 + 1].thread = Top.into
        /\ Top.into \in Threads /\ current' = Top.into
    BY <1>1, <1>3, EntryEntersPushes DEF EntryEnters
  <2>2. NewOK(Depth - 1)
    BY <1>3, <2>1 DEF NewOK
  <2> QED BY <1>1, <2>1, <2>2 DEF Shape, AllThreads
<1>4. CASE EntryWasClosed
  BY <1>1, <1>4, PopToIsShape DEF EntryWasClosed
<1> QED BY <1>2, <1>3, <1>4

(* The coroutines that are about to be entered do not come between the one on   *)
(* top and the activation that a yield reaches.                              *)
LEMMA PassesEntries ==
  ASSUME TypeOK, Linked, NEW k \in 1 .. Depth, Innermost(k, Receivers)
  PROVE  /\ current = calls[k].thread /\ calls[k].kind # "entry"
         /\ \A j \in k + 1 .. Depth : calls[j].kind = "entry" /\ calls[j].thread = current
<1>1. calls \in Seq(Activations) /\ Depth \in Nat /\ k \in Nat /\ Depth \in 1 .. Depth
  BY TopFacts DEF TypeOK
<1>2. calls[k].kind # "entry" /\ \A j \in k + 1 .. Depth : j \in 1 .. Depth /\ calls[j].kind = "entry"
  BY <1>1 DEF Innermost, Receivers
<1>4. \A j \in k .. Depth : calls[j].thread = calls[k].thread
  <2> SUFFICES ASSUME NEW j \in k .. Depth PROVE calls[j].thread = calls[k].thread
    OBVIOUS
  <2>1. CASE j = k
    BY <2>1
  <2>2. CASE j # k
    <3>1. j \in 1 .. Depth /\ k < j /\ \A m \in k + 1 .. j : m \in k + 1 .. Depth
      BY <1>1, <2>2
    <3> QED BY <1>2, <3>1 DEF Linked
  <2> QED BY <2>1, <2>2
<1>5. current = calls[Depth].thread /\ Depth \in k .. Depth
  BY <1>1 DEF Linked
<1>6. \A j \in k + 1 .. Depth : j \in k .. Depth
  BY <1>1
<1> QED BY <1>2, <1>4, <1>5, <1>6

LEMMA YieldShape ==
  ASSUME TypeOK, Linked, Running, NEW k \in 1 .. Depth, Innermost(k, Receivers), YieldReaches(k)
  PROVE  Shape
<1>1. Depth \in Nat /\ k - 1 \in 0 .. Depth
  BY TopFacts DEF TypeOK
<1>2. CASE PopTo(k - 1)
  BY <1>1, <1>2, PopToIsShape
<1>3. CASE calls' = [SubSeq(calls, 1, k) EXCEPT ![k] = HandlerEnded(@, TRUE)]
           /\ UNCHANGED current
  BY <1>3, PassesEntries, FlagIsShape
<1>4. CASE UNCHANGED <<calls, current>>
  BY <1>4, SameShape
<1> QED BY <1>2, <1>3, <1>4 DEF YieldReaches

LEMMA CloseOtherShape ==
  ASSUME TypeOK, Linked, NEW t \in Threads, CloseOther(t)
  PROVE  Shape
<1>1. CASE frames[t]
  <2> DEFINE a == Activation("close", t, err[t])
  <2>1. Depth \in 0 .. Depth
    BY TopFacts DEF TypeOK
  <2>2. "close" \in Kinds /\ t \in AllThreads \cup {NoThread} /\ err[t] \in BOOLEAN
    BY DEF Kinds, AllThreads, TypeOK
  <2>3. /\ a \in Activations /\ a.kind = "close" /\ a.thread = t
        /\ a.prev = IF Depth = 0 THEN NoThread ELSE calls[Depth].thread
    BY <2>2, ActivationFacts
  <2>4. calls' = Append(calls, a) /\ current' = t
    BY <1>1 DEF CloseOther
  <2> HIDE DEF a
  <2> QED BY <2>1, <2>3, <2>4, PushIsShape DEF Resuming
<1>2. CASE ~frames[t]
  BY <1>2, SameShape DEF CloseOther
<1> QED BY <1>1, <1>2

(* A wrapper that closes its failed coroutine: the resume becomes a close.     *)
LEMMA BodyFailsPushes ==
  ASSUME TypeOK, Linked, BodyFails, wrapped[current]
  PROVE  /\ calls' \in Seq(Activations) /\ Pushed(Depth - 1)
         /\ calls'[Depth].kind = "close" /\ calls'[Depth].thread = current
         /\ current \in Threads
<1>1. /\ calls \in Seq(Activations) /\ Depth \in Nat /\ Depth \in 1 .. Len(calls)
      /\ Top \in Activations /\ Depth - 1 \in 0 .. Depth /\ Depth - 1 + 1 = Depth
      /\ Top.kind = "resume" /\ current = Top.thread
  BY TopFacts DEF TypeOK, BodyFails, Body, Running, Linked
<1> DEFINE a == [Top EXCEPT !.kind = "close", !.busy = FALSE, !.err = TRUE]
<1>2. /\ a \in Activations /\ a.kind = "close"
      /\ a.thread = Top.thread /\ a.prev = Top.prev
  BY <1>1 DEF Activations, Kinds
<1>3. calls' = [calls EXCEPT ![Depth] = a]
  BY DEF BodyFails
<1>4. a.prev = IF Depth - 1 = 0 THEN NoThread ELSE calls[Depth - 1].thread
  <2>1. Top.prev = IF Depth = 1 THEN NoThread ELSE calls[Depth - 1].thread
    BY <1>1 DEF Linked
  <2> QED BY <1>1, <1>2, <2>1
<1>5. a.thread \in Threads /\ current' = a.thread
  BY <1>1, <1>2 DEF Linked, BodyFails, Resuming
<1> HIDE DEF a
<1>6. /\ calls' \in Seq(Activations) /\ Len(calls') = Depth
      /\ \A i \in 1 .. Depth : calls'[i] = IF i = Depth THEN a ELSE calls[i]
  BY <1>1, <1>2, <1>3, SetFacts
<1>7. calls'[Depth] = a /\ a.thread = current
  BY <1>1, <1>2, <1>6
<1>8. Kept(Depth - 1)
  <2>1. \A i \in 1 .. Depth - 1 : i \in 1 .. Depth /\ i # Depth
    BY <1>1, BelowFacts
  <2>2. \A i \in 1 .. Depth - 1 : calls'[i] = calls[i]
    BY <1>6, <2>1
  <2> QED BY <2>2 DEF Kept
<1>9. Pushed(Depth - 1)
  <2>1. Len(calls') = Depth - 1 + 1 /\ calls'[Depth - 1 + 1] = a
    BY <1>1, <1>6, <1>7
  <2> QED BY <1>4, <1>5, <1>8, <2>1 DEF Pushed
<1> QED BY <1>2, <1>5, <1>6, <1>7, <1>9

LEMMA BodyFailsShape ==
  ASSUME TypeOK, Linked, BodyFails
  PROVE  Shape
<1>1. Depth \in 1 .. Depth /\ Depth - 1 \in 0 .. Depth /\ Depth - 1 + 1 = Depth
  BY TopFacts DEF TypeOK, BodyFails, Body, Running
<1>2. CASE wrapped[current]
  <2>1. /\ calls' \in Seq(Activations) /\ Pushed(Depth - 1)
        /\ calls'[Depth - 1 + 1].kind = "close" /\ calls'[Depth - 1 + 1].thread \in Threads
    BY <1>1, <1>2, BodyFailsPushes
  <2>2. NewOK(Depth - 1)
    BY <2>1 DEF NewOK, Resuming
  <2>3. current' \in AllThreads \cup {NoThread}
    BY <1>2, BodyFailsPushes DEF BodyFails, AllThreads
  <2> QED BY <1>1, <2>1, <2>2, <2>3 DEF Shape
<1>3. CASE ~wrapped[current]
  BY <1>1, <1>3, PopToIsShape DEF BodyFails
<1> QED BY <1>2, <1>3

(* A self-close tears everything down to the innermost _execute_thread e.      *)
SelfCloses(e) ==
  /\ Innermost(e, Executing)
  /\ calls' = Append(SubSeq(calls, 1, e),
                     [Activation("closeself", calls[e].thread, FALSE)
                        EXCEPT !.prev = calls[e].thread])
  /\ current' = calls[e].thread
  /\ status' = StatusLeaving(e, calls[e].thread, "running")
  /\ lost' = lost \cup Torn(e)

LEMMA CloseSelfPushes ==
  ASSUME TypeOK, Linked, NEW e \in 1 .. Depth, SelfCloses(e)
  PROVE  /\ calls' \in Seq(Activations) /\ Pushed(e) /\ e \in 0 .. Depth
         /\ calls'[e + 1].kind = "closeself" /\ calls'[e + 1].thread = calls[e].thread
         /\ calls[e].thread \in Threads
         /\ calls[e].kind \in {"resume", "close", "closeself"}
<1>1. calls \in Seq(Activations)
  BY DEF TypeOK
<1> DEFINE t == calls[e].thread
           b == Activation("closeself", t, FALSE)
           a == [b EXCEPT !.prev = t]
<1>2. calls[e] \in Activations /\ calls[e].kind \in {"resume", "close", "closeself"}
  BY <1>1, TopFacts DEF SelfCloses, Innermost, Executing
<1>3. t \in Threads
  BY <1>2 DEF Linked, Resuming, Closing
<1>4. "closeself" \in Kinds /\ t \in AllThreads \cup {NoThread} /\ FALSE \in BOOLEAN
  BY <1>3 DEF Kinds, AllThreads
<1>5. b \in Activations /\ b.kind = "closeself" /\ b.thread = t
  BY <1>4, ActivationFacts
<1> HIDE DEF b
<1>6. a \in Activations /\ a.kind = "closeself" /\ a.thread = t /\ a.prev = t
  BY <1>4, <1>5 DEF Activations
<1>7. calls' = Append(SubSeq(calls, 1, e), a) /\ current' = a.thread
  BY <1>6 DEF b, SelfCloses
<1> HIDE DEF a, t
<1>8. e \in 0 .. Depth /\ e > 0
  BY <1>1
<1>9. a.prev = IF e = 0 THEN NoThread ELSE calls[e].thread
  BY <1>6, <1>8 DEF t
<1>10. calls' \in Seq(Activations) /\ Pushed(e) /\ calls'[e + 1] = a
  BY <1>6, <1>7, <1>8, <1>9, PushShape
<1> QED BY <1>2, <1>3, <1>6, <1>8, <1>10 DEF t

LEMMA CloseSelfShape ==
  ASSUME TypeOK, Linked, CloseSelf
  PROVE  Shape
<1>1. calls \in Seq(Activations) /\ 0 \in 0 .. Depth
  BY TopFacts DEF TypeOK
<1>2. CASE Executing = {}
  BY <1>1, <1>2, PopToIsShape DEF CloseSelf
<1>3. CASE Executing # {}
  <2>1. PICK e \in 1 .. Depth : SelfCloses(e)
    BY <1>3 DEF CloseSelf, SelfCloses
  <2>2. NewOK(e) /\ e \in 0 .. Depth
    BY <1>1, <2>1, CloseSelfPushes DEF NewOK, Resuming
  <2>3. current' \in AllThreads \cup {NoThread}
    BY <2>1, CloseSelfPushes DEF SelfCloses, AllThreads
  <2> QED BY <2>1, <2>2, <2>3, CloseSelfPushes DEF Shape
<1> QED BY <1>2, <1>3

LEMMA FinishCloseSelfShape ==
  ASSUME TypeOK, Linked, FinishCloseSelf
  PROVE  Shape
<1>1. /\ calls \in Seq(Activations) /\ Depth \in 1 .. Len(calls)
      /\ Top \in Activations /\ Top.kind = "closeself"
  BY TopFacts DEF TypeOK, FinishCloseSelf, Closed
<1>2. /\ Depth > 1 /\ Depth - 1 \in 1 .. Depth /\ Depth - 1 \in 0 .. Depth
      /\ Depth - 2 \in 0 .. Depth
      /\ calls[Depth - 1].thread = Top.thread /\ Top.thread = current
  BY <1>1 DEF Linked
<1>3. CASE calls[Depth - 1].kind = "resume"
  BY <1>2, <1>3, PopToIsShape DEF FinishCloseSelf
<1>4. CASE calls[Depth - 1].kind # "resume"
  <2>1. calls' = [SubSeq(calls, 1, Depth - 1) EXCEPT
                    ![Depth - 1] = HandlerEnded(@, Top.err)]
        /\ current' = calls[Depth - 1].thread
    BY <1>2, <1>4 DEF FinishCloseSelf
  <2>2. Top.err \in BOOLEAN
    BY <1>1 DEF Activations
  <2> QED BY <1>2, <2>1, <2>2, FlagIsShape
<1> QED BY <1>3, <1>4

LEMMA QuotaShape ==
  ASSUME TypeOK, Linked, QuotaExceeded
  PROVE  Shape
<1>1. calls \in Seq(Activations) /\ 0 \in 0 .. Depth
  BY TopFacts DEF TypeOK
<1>2. CASE Catching = {}
  BY <1>1, <1>2, PopToIsShape DEF QuotaExceeded
<1>3. CASE Catching # {}
  <2>1. PICK q \in 1 .. Depth :
          \/ PopTo(q - 1)
          \/ /\ calls' = [SubSeq(calls, 1, q) EXCEPT ![q] = HandlerEnded(@, TRUE)]
             /\ current' = calls[q].thread
    BY <1>3 DEF QuotaExceeded
  <2>2. q - 1 \in 0 .. Depth
    BY <1>1, <2>1
  <2>3. CASE PopTo(q - 1)
    BY <2>2, <2>3, PopToIsShape
  <2>4. CASE /\ calls' = [SubSeq(calls, 1, q) EXCEPT ![q] = HandlerEnded(@, TRUE)]
             /\ current' = calls[q].thread
    BY <2>4, FlagIsShape
  <2> QED BY <2>1, <2>3, <2>4
<1> QED BY <1>2, <1>3

LEMMA BoundaryShape ==
  ASSUME TypeOK, Linked, EnterSync \/ EnterRun
  PROVE  Shape
<1>1. Depth \in 0 .. Depth /\ "sync" \in Kinds /\ "run" \in Kinds /\ FALSE \in BOOLEAN
      /\ current \in AllThreads \cup {NoThread} /\ Main \in AllThreads \cup {NoThread}
  BY TopFacts DEF TypeOK, Kinds, AllThreads
<1>2. CASE EnterSync
  <2> DEFINE a == Activation("sync", current, FALSE)
  <2>1. /\ a \in Activations /\ a.kind = "sync" /\ a.thread = current
        /\ a.prev = IF Depth = 0 THEN NoThread ELSE calls[Depth].thread
    BY <1>1, ActivationFacts
  <2>2. calls' = Append(calls, a) /\ current' = current
    BY <1>2 DEF EnterSync
  <2> HIDE DEF a
  <2> QED BY <1>1, <2>1, <2>2, PushIsShape DEF Resuming, Closing
<1>3. CASE EnterRun
  <2> DEFINE a == Activation("run", Main, FALSE)
  <2>1. /\ a \in Activations /\ a.kind = "run" /\ a.thread = Main
        /\ a.prev = IF Depth = 0 THEN NoThread ELSE calls[Depth].thread
    BY <1>1, ActivationFacts
  <2>2. calls' = Append(calls, a) /\ current' = Main
    BY <1>3 DEF EnterRun
  <2> HIDE DEF a
  <2> QED BY <1>1, <2>1, <2>2, PushIsShape DEF Resuming, Closing
<1> QED BY <1>2, <1>3

(* The steps of a body or of a handler that leave or touch one activation.   *)
LEMMA LocalShape ==
  ASSUME TypeOK, Linked, Depth > 0,
         \/ PopTo(Depth - 1)
         \/ /\ \/ \E e \in BOOLEAN : calls' = [calls EXCEPT ![Depth] = HandlerEnded(@, e)]
               \/ calls' = [calls EXCEPT ![Depth] = [@ EXCEPT !.busy = TRUE]]
            /\ UNCHANGED current
  PROVE  Shape
<1>1. Depth \in Nat /\ Depth - 1 \in 0 .. Depth /\ Depth \in 1 .. Depth
  BY TopFacts DEF TypeOK
<1>2. CASE PopTo(Depth - 1)
  BY <1>1, <1>2, PopToIsShape
<1>3. CASE /\ \/ \E e \in BOOLEAN : calls' = [calls EXCEPT ![Depth] = HandlerEnded(@, e)]
              \/ calls' = [calls EXCEPT ![Depth] = [@ EXCEPT !.busy = TRUE]]
           /\ UNCHANGED current
  <2>1. current' = calls[Depth].thread
    BY <1>1, <1>3 DEF Linked
  <2>2. PICK e \in BOOLEAN :
          \/ calls' = [calls EXCEPT ![Depth] = HandlerEnded(@, e)]
          \/ calls' = [calls EXCEPT ![Depth] = [@ EXCEPT !.busy = TRUE]]
    BY <1>3
  <2> QED BY <1>1, <2>1, <2>2, FlagIsShape
<1> QED BY <1>2, <1>3

(* Every step has the shape.                                                 *)
LEMMA NextShape ==
  ASSUME TypeOK, Linked, [Next]_vars
  PROVE  Shape
<1>1. CASE \E t \in Threads, k \in EntryKinds, w \in BOOLEAN : Create(t, k, w)
  BY <1>1, SameShape DEF Create
<1>2. CASE \E t \in Threads : ResumeFirst(t)
  BY <1>2, ResumeFirstShape
<1>3. CASE \E t \in Threads : ResumeAgain(t)
  BY <1>3, EnterShape DEF ResumeAgain, Resumable
<1>4. CASE EntryFails \/ EntryEnters \/ EntryWasClosed
  BY <1>4, EntryShape
<1>5. CASE \E t \in Threads : CloseOther(t)
  BY <1>5, CloseOtherShape
<1>6. CASE Yield
  BY <1>6, YieldShape DEF Yield
<1>7. CASE OpenTbc \/ CloseTbc
  BY <1>7, SameShape DEF OpenTbc, CloseTbc
<1>8. CASE BodyReturns \/ (\E failed \in BOOLEAN : HostEnds(failed)) \/ LeaveBoundary
  BY <1>8, LocalShape DEF BodyReturns, HostEnds, LeaveBoundary, Body, Running
<1>9. CASE BodyFails
  BY <1>9, BodyFailsShape
<1>10. CASE CloseSelf
  BY <1>10, CloseSelfShape
<1>11. CASE RunHandler
  BY <1>11, LocalShape DEF RunHandler
<1>12. CASE HandlerReturns \/ \E inLua \in BOOLEAN : HandlerFails(inLua)
  BY <1>12, LocalShape DEF HandlerReturns, HandlerFails, Running
<1>13. CASE FinishClose
  BY <1>13, LocalShape DEF FinishClose, Closed
<1>14. CASE FinishCloseSelf
  BY <1>14, FinishCloseSelfShape
<1>15. CASE EnterSync \/ EnterRun
  BY <1>15, BoundaryShape
<1>16. CASE QuotaExceeded
  BY <1>16, QuotaShape
<1>17. CASE UNCHANGED vars
  BY <1>17, SameShape DEF vars
<1> QED
  BY <1>1, <1>2, <1>3, <1>4, <1>5, <1>6, <1>7, <1>8, <1>9, <1>10, <1>11, <1>12,
     <1>13, <1>14, <1>15, <1>16, <1>17 DEF Next

-----------------------------------------------------------------------------
(* Type correctness.                                                        *)

LEMMA StatusTypes ==
  ASSUME status \in [AllThreads -> Statuses]
  PROVE  \A k, t : \A s \in Statuses :
         /\ StatusAfterPop(k) \in [AllThreads -> Statuses]
         /\ StatusLeaving(k, t, s) \in [AllThreads -> Statuses]
         /\ StatusEntering(t) \in [AllThreads -> Statuses]
BY DEF StatusAfterPop, StatusLeaving, StatusEntering, Statuses

LEMMA NextTypes ==
  ASSUME TypeOK, Linked, [Next]_vars
  PROVE  TypeOK'
<1> DEFINE Rest ==
      /\ entry' \in [Threads -> Entries \cup {"none"}]
      /\ wrapped' \in [Threads -> BOOLEAN]
      /\ status' \in [AllThreads -> Statuses]
      /\ started' \in [Threads -> BOOLEAN]
      /\ target' \in [Threads -> BOOLEAN]
      /\ frames' \in [Threads -> BOOLEAN]
      /\ tbc' \in [Threads -> Nat]
      /\ err' \in [Threads -> BOOLEAN]
      /\ lost' \in SUBSET AllThreads
<1>1. SUFFICES Rest
  BY NextShape DEF Shape, TypeOK
<1>a. /\ status \in [AllThreads -> Statuses]
      /\ {"suspended", "running", "normal", "dead"} \subseteq Statuses
  BY DEF TypeOK, Statuses
<1>2. CASE \E t \in Threads, k \in EntryKinds, w \in BOOLEAN : Create(t, k, w)
  BY <1>2, ThreadsAssumption DEF Create, TypeOK
<1>e. \A t : StatusEntering(t) \in [AllThreads -> Statuses]
  BY <1>a, StatusTypes
<1>3. ASSUME NEW t \in Threads, ResumeFirst(t) PROVE Rest
  <2>1. status' \in [AllThreads -> Statuses]
    BY <1>a, <1>e, <1>3 DEF ResumeFirst, EnterThread
  <2> QED BY <1>3, <2>1 DEF ResumeFirst, TypeOK
<1>4. ASSUME NEW t \in Threads, ResumeAgain(t) PROVE Rest
  <2>1. status' \in [AllThreads -> Statuses]
    BY <1>e, <1>4 DEF ResumeAgain, EnterThread
  <2> QED BY <1>4, <2>1 DEF ResumeAgain, TypeOK
<1>b. \A k, t : \A s \in Statuses : StatusLeaving(k, t, s) \in [AllThreads -> Statuses]
  BY <1>a, StatusTypes
<1>c. \A k : StatusAfterPop(k) \in [AllThreads -> Statuses]
  BY <1>a, StatusTypes
<1>d. \A k \in 0 .. Depth : Torn(k) \subseteq AllThreads
  BY DEF Torn, Resuming, Linked, AllThreads
<1>5. ASSUME NEW k \in 1 .. Depth, YieldReaches(k)
      PROVE  target' \in [Threads -> BOOLEAN] /\ status' \in [AllThreads -> Statuses]
  <2>1. target \in [Threads -> BOOLEAN]
    BY DEF TypeOK
  <2>2. \/ target' = [target EXCEPT ![current] = TRUE]
        \/ target' = [target EXCEPT ![current] = @ \/ k < Depth]
        \/ UNCHANGED target
    BY <1>5 DEF YieldReaches
  <2>3. \/ status' = StatusLeaving(k - 1, current, "suspended")
        \/ status' = StatusLeaving(k - 1, current, "dead")
        \/ status' = [status EXCEPT ![current] = "suspended"]
        \/ UNCHANGED status
    BY <1>5 DEF YieldReaches
  <2>4. status' \in [AllThreads -> Statuses]
    BY <1>a, <1>b, <2>3
  <2> QED BY <2>1, <2>2, <2>4
<1>6. CASE EntryFails \/ EntryEnters \/ EntryWasClosed
  <2>1. CASE EntryFails
    BY <2>1 DEF EntryFails, TypeOK
  <2>2. CASE EntryEnters
    BY <2>2, <1>a, StatusTypes DEF EntryEnters, TypeOK
  <2>3. CASE EntryWasClosed
    <3>1. status' \in [AllThreads -> Statuses]
      BY <1>a, <2>3 DEF EntryWasClosed
    <3> QED BY <2>3, <3>1 DEF EntryWasClosed, TypeOK
  <2> QED BY <1>6, <2>1, <2>2, <2>3
<1>7. CASE Yield
  BY <1>5, <1>7 DEF Yield, TypeOK
<1>8. CASE \E t \in Threads : CloseOther(t)
  BY <1>8, <1>a DEF CloseOther, TypeOK
<1>9. CASE OpenTbc \/ CloseTbc \/ RunHandler
  <2>1. \/ tbc' = [tbc EXCEPT ![current] = @ + 1]
        \/ tbc[current] > 0 /\ tbc' = [tbc EXCEPT ![current] = @ - 1]
    BY <1>9 DEF OpenTbc, CloseTbc, RunHandler
  <2>2. tbc' \in [Threads -> Nat]
    BY <2>1 DEF TypeOK
  <2> QED BY <1>9, <2>2 DEF OpenTbc, CloseTbc, RunHandler, TypeOK
<1>10. CASE BodyReturns \/ \E failed \in BOOLEAN : HostEnds(failed)
  <2>1. status' = StatusLeaving(Depth - 1, current, "dead")
    BY <1>10 DEF BodyReturns, HostEnds
  <2>2. status' \in [AllThreads -> Statuses]
    BY <1>a, <1>b, <2>1
  <2>3. \/ err' = [err EXCEPT ![current] = FALSE]
        \/ \E failed \in BOOLEAN : err' = [err EXCEPT ![current] = failed /\ ~wrapped[current]]
    BY <1>10 DEF BodyReturns, HostEnds
  <2>4. err' \in [Threads -> BOOLEAN]
    BY <2>3 DEF TypeOK
  <2> QED BY <1>10, <2>2, <2>4 DEF BodyReturns, HostEnds, TypeOK
<1>11. CASE BodyFails
  <2>1. \/ status' = StatusLeaving(Depth - 1, current, "running")
        \/ status' = StatusLeaving(Depth - 1, current, "dead")
    BY <1>11 DEF BodyFails
  <2>2. status' \in [AllThreads -> Statuses]
    BY <1>a, <1>b, <2>1
  <2> QED BY <1>11, <2>2 DEF BodyFails, TypeOK
<1>13. CASE CloseSelf
  <2>1. status' \in [AllThreads -> Statuses]
    <3>1. \/ status' = StatusAfterPop(0)
          \/ \E e \in 1 .. Depth : status' = StatusLeaving(e, calls[e].thread, "running")
      BY <1>13 DEF CloseSelf
    <3> QED BY <1>a, <1>b, <1>c, <3>1
  <2>2. 0 \in 0 .. Depth /\ \A e \in 1 .. Depth : e \in 0 .. Depth
    BY TopFacts DEF TypeOK
  <2>3. \E k \in 0 .. Depth : lost' = lost \cup Torn(k)
    BY <1>13, <2>2 DEF CloseSelf
  <2> QED BY <1>d, <1>13, <2>1, <2>3 DEF CloseSelf, TypeOK
<1>14. CASE HandlerReturns \/ LeaveBoundary \/ EnterSync
  BY <1>14 DEF HandlerReturns, LeaveBoundary, EnterSync, TypeOK
<1>15. CASE \E inLua \in BOOLEAN : HandlerFails(inLua)
  BY <1>15, <1>a DEF HandlerFails, TypeOK
<1>16. CASE FinishClose \/ EnterRun
  BY ZenonT(60), <1>16, <1>a DEF FinishClose, EnterRun, TypeOK
<1>17. CASE FinishCloseSelf
  <2>1. Top.err \in BOOLEAN
    BY <1>17, TopFacts DEF FinishCloseSelf, Closed, TypeOK, Activations
  <2>2. status' \in [AllThreads -> Statuses]
    <3>1. \/ status' = StatusLeaving(Depth - 2, current, "dead")
          \/ status' = [status EXCEPT ![current] = "dead"]
      BY <1>17 DEF FinishCloseSelf
    <3> QED BY <1>a, <1>b, <3>1
  <2>3. \/ err' = [err EXCEPT ![current] = Top.err /\ ~wrapped[current]]
        \/ err' = [err EXCEPT ![current] = Top.err]
    BY <1>17 DEF FinishCloseSelf
  <2>4. err' \in [Threads -> BOOLEAN]
    BY <2>1, <2>3 DEF TypeOK
  <2> QED BY <1>17, <2>2, <2>4 DEF FinishCloseSelf, TypeOK
<1>18. CASE QuotaExceeded
  <2>1. status' \in [AllThreads -> Statuses]
    <3>1. \/ \E k : status' = StatusAfterPop(k)
          \/ \E k, t : status' = StatusLeaving(k, t, "dead")
      BY <1>18 DEF QuotaExceeded
    <3> QED BY <1>a, <1>b, <1>c, <3>1
  <2>2. 0 \in 0 .. Depth /\ \A q \in 1 .. Depth : q \in 0 .. Depth
    BY TopFacts DEF TypeOK
  <2>3. \E k \in 0 .. Depth : lost' = lost \cup Torn(k)
    BY <1>18, <2>2 DEF QuotaExceeded
  <2>4. err' \in [Threads -> BOOLEAN]
    BY <1>18 DEF QuotaExceeded, TypeOK
  <2> QED BY <1>d, <1>18, <2>1, <2>3, <2>4 DEF QuotaExceeded, TypeOK
<1>19. CASE UNCHANGED vars
  BY <1>19 DEF vars, TypeOK
<1> QED
  BY <1>2, <1>3, <1>4, <1>6, <1>7, <1>8, <1>9, <1>10, <1>11, <1>13, <1>14, <1>15,
     <1>16, <1>17, <1>18, <1>19 DEF Next

-----------------------------------------------------------------------------
(* The linked stack.                                                        *)

LEMMA NextLinked ==
  ASSUME TypeOK, Linked, Shape
  PROVE  Linked'
<1>1. PICK k \in 0 .. Depth : (Popped(k) /\ Restored(k)) \/ (Pushed(k) /\ NewOK(k))
  BY DEF Shape
<1>2. calls \in Seq(Activations) /\ Depth \in Nat /\ calls' \in Seq(Activations)
  BY TopFacts DEF TypeOK, Shape
<1>3. \A i \in 1 .. k :
        /\ i \in 1 .. Depth
        /\ calls'[i].kind = calls[i].kind
        /\ calls'[i].thread = calls[i].thread
        /\ calls'[i].prev = calls[i].prev
        /\ calls'[i].into = calls[i].into
        /\ i > 1 => i - 1 \in 1 .. k
  BY <1>1, <1>2 DEF Popped, Pushed, Kept
<1>k. k \in Nat /\ (k > 0 => k \in 1 .. k)
  BY <1>2
<1> DEFINE Good(i) ==
      /\ calls'[i].prev = IF i = 1 THEN NoThread ELSE calls'[i - 1].thread
      /\ Resuming(calls'[i]) \/ Closing(calls'[i]) => calls'[i].thread \in Threads
      /\ calls'[i].kind = "entry" =>
           calls'[i].into \in Threads /\ calls'[i].thread = calls'[i].prev
      /\ calls'[i].kind = "closeself" =>
           /\ i > 1 /\ calls'[i - 1].thread = calls'[i].thread
           /\ calls'[i - 1].kind \in {"resume", "close", "closeself"}
<1>4. \A i \in 1 .. k : Good(i)
  <2> SUFFICES ASSUME NEW i \in 1 .. k PROVE Good(i)
    OBVIOUS
  <2>1. /\ calls[i].prev = IF i = 1 THEN NoThread ELSE calls[i - 1].thread
        /\ Resuming(calls[i]) \/ Closing(calls[i]) => calls[i].thread \in Threads
        /\ calls[i].kind = "entry" => calls[i].into \in Threads /\ calls[i].thread = calls[i].prev
        /\ calls[i].kind = "closeself" =>
             /\ i > 1 /\ calls[i - 1].thread = calls[i].thread
             /\ calls[i - 1].kind \in {"resume", "close", "closeself"}
    BY <1>3 DEF Linked
  <2>2. /\ i \in Nat /\ i >= 1
        /\ calls'[i].kind = calls[i].kind
        /\ calls'[i].thread = calls[i].thread /\ calls'[i].prev = calls[i].prev
        /\ calls'[i].into = calls[i].into
        /\ i > 1 => /\ calls'[i - 1].kind = calls[i - 1].kind
                    /\ calls'[i - 1].thread = calls[i - 1].thread
    BY <1>3
  <2>3. CASE i = 1
    BY <2>1, <2>2, <2>3 DEF Resuming, Closing
  <2>4. CASE i # 1
    <3>1. i > 1
      BY <2>2, <2>4
    <3> QED BY <2>1, <2>2, <2>4, <3>1 DEF Resuming, Closing
  <2> QED BY <2>3, <2>4
<1> DEFINE Alike(i, j) ==
      i < j /\ (\A m \in i + 1 .. j : calls'[m].kind = "entry") =>
        calls'[j].thread = calls'[i].thread
<1>7. \A j \in 1 .. k, i \in Nat \ {0} : Alike(i, j)
  <2> SUFFICES ASSUME NEW j \in 1 .. k, NEW i \in Nat \ {0}, i < j,
                      \A m \in i + 1 .. j : calls'[m].kind = "entry"
               PROVE  calls'[j].thread = calls'[i].thread
    OBVIOUS
  <2>1. /\ i \in 1 .. k /\ i \in 1 .. Depth /\ j \in 1 .. Depth
        /\ \A m \in i + 1 .. j : m \in 1 .. k
    BY <1>k, <1>2
  <2>2. \A m \in i + 1 .. j : calls[m].kind = "entry"
    BY <1>3, <2>1
  <2>3. calls[j].thread = calls[i].thread
    BY <2>1, <2>2 DEF Linked
  <2> QED BY <1>3, <2>1, <2>3
<1>5. CASE Popped(k) /\ Restored(k)
  <2>1. Len(calls') = k
    BY <1>5 DEF Popped
  <2>2. current' = IF k = 0 THEN NoThread ELSE calls'[k].thread
    <3>1. CASE k = 0
      BY <1>5, <3>1 DEF Restored
    <3>2. CASE k # 0
      BY <1>k, <1>3, <1>5, <3>2 DEF Restored
    <3> QED BY <3>1, <3>2
  <2>3. \A j \in 1 .. Len(calls') : j \in 1 .. k
    BY <2>1
  <2>4. \A i, j \in 1 .. Len(calls') : Alike(i, j)
    <3>1. \A i \in 1 .. Len(calls') : i \in Nat \ {0}
      BY <1>k, <2>1
    <3> QED BY <1>7, <2>3, <3>1
  <2> QED BY <1>4, <2>1, <2>2, <2>3, <2>4 DEF Linked
<1>6. CASE Pushed(k) /\ NewOK(k)
  <2>1. /\ Len(calls') = k + 1 /\ current' = calls'[k + 1].thread
        /\ calls'[k + 1].prev = IF k = 0 THEN NoThread ELSE calls[k].thread
    BY <1>6 DEF Pushed
  <2>2. /\ k + 1 # 0 /\ k + 1 - 1 = k /\ (k + 1 = 1 <=> k = 0) /\ (k > 0 => k + 1 > 1)
        /\ \A i \in 1 .. k + 1 : i \in 1 .. k \/ i = k + 1
    BY <1>k
  <2>3. k > 0 => calls'[k].thread = calls[k].thread /\ calls'[k].kind = calls[k].kind
    BY <1>k, <1>3
  <2>4. calls'[k + 1].prev = IF k + 1 = 1 THEN NoThread ELSE calls'[k + 1 - 1].thread
    BY <1>k, <2>1, <2>2, <2>3
  <2>5. /\ Resuming(calls'[k + 1]) \/ Closing(calls'[k + 1])
             => calls'[k + 1].thread \in Threads
        /\ calls'[k + 1].kind = "entry" =>
             calls'[k + 1].into \in Threads /\ calls'[k + 1].thread = calls'[k + 1].prev
        /\ calls'[k + 1].kind = "closeself" =>
             /\ k > 0 /\ calls[k].thread = calls'[k + 1].thread
             /\ calls[k].kind \in {"resume", "close", "closeself"}
    BY <1>6 DEF NewOK
  <2>6. Good(k + 1)
    BY <2>2, <2>3, <2>4, <2>5
  <2>7. ASSUME NEW i \in 1 .. k, \A m \in i + 1 .. k + 1 : calls'[m].kind = "entry"
        PROVE  calls'[k + 1].thread = calls'[i].thread
    <3>1. /\ k \in 1 .. k /\ i \in Nat \ {0} /\ k + 1 \in i + 1 .. k + 1 /\ k # 0
          /\ \A m \in i + 1 .. k : m \in i + 1 .. k + 1
      BY <1>k
    <3>2. calls'[k + 1].thread = calls'[k].thread
      BY <2>1, <2>3, <2>5, <2>7, <3>1
    <3>3. i < k => calls'[k].thread = calls'[i].thread
      BY <1>7, <2>7, <3>1
    <3> QED BY <1>k, <3>2, <3>3
  <2>8. \A i, j \in 1 .. Len(calls') : Alike(i, j)
    <3> SUFFICES ASSUME NEW i \in 1 .. Len(calls'), NEW j \in 1 .. Len(calls'), i < j
                 PROVE  Alike(i, j)
      OBVIOUS
    <3>1. CASE j \in 1 .. k
      BY <1>7, <3>1
    <3>2. CASE j \notin 1 .. k
      <4>1. j = k + 1 /\ i \in 1 .. k
        BY <1>k, <2>1, <3>2
      <4> QED BY <2>7, <4>1
    <3> QED BY <3>1, <3>2
  <2> QED BY <1>4, <2>1, <2>2, <2>6, <2>8 DEF Linked
<1> QED BY <1>1, <1>5, <1>6

-----------------------------------------------------------------------------
(* No re-entry.  A handler that yields is excluded: LuaThreads explains why. *)

(* The step in which the coroutine on top yields to its resumer.             *)
YieldsTo(t) ==
  \E k \in 1 .. Depth :
    /\ Innermost(k, Receivers) /\ calls[k].kind = "resume"
    /\ t = current /\ PopTo(k - 1)

(* A thread becomes "suspended" in no other way.                             *)
LEMMA OnlyYieldSuspends ==
  ASSUME TypeOK, Linked, HandlersYield = FALSE, [Next]_vars
  PROVE  \A t \in Threads :
           status'[t] = "suspended" => status[t] = "suspended" \/ YieldsTo(t)
<1> SUFFICES ASSUME NEW t \in Threads, status'[t] = "suspended"
             PROVE  status[t] = "suspended" \/ YieldsTo(t)
  OBVIOUS
<1>1. status \in [AllThreads -> Statuses] /\ t \in AllThreads
  BY DEF TypeOK, AllThreads
<1>2. \A k, u : \A s \in {"dead", "running"} :
        status' = StatusLeaving(k, u, s) => status[t] = "suspended"
  BY <1>1 DEF StatusLeaving
<1>3. \A k : status' = StatusAfterPop(k) => status[t] = "suspended"
  BY <1>1 DEF StatusAfterPop
<1>4. \A u : \A s \in {"dead", "running"} :
        status' = [status EXCEPT ![u] = s] => status[t] = "suspended"
  BY <1>1
<1>5. UNCHANGED status => status[t] = "suspended"
  OBVIOUS
<1>8. CASE Yield
  <2>1. PICK k \in 1 .. Depth : Innermost(k, Receivers) /\ YieldReaches(k)
    BY <1>8 DEF Yield
  <2>2. CASE /\ calls[k].kind = "resume"
             /\ status' = StatusLeaving(k - 1, current, "suspended")
             /\ PopTo(k - 1)
    <3>1. t # current => status[t] = "suspended"
      BY <1>1, <2>2 DEF StatusLeaving
    <3> QED BY <2>1, <2>2, <3>1 DEF YieldsTo
  <2>3. CASE status' = StatusLeaving(k - 1, current, "dead") \/ UNCHANGED status
    BY <1>2, <1>5, <2>3
  <2> QED BY <2>1, <2>2, <2>3 DEF YieldReaches
<1>9. CASE \/ \E u \in Threads, k \in EntryKinds, w \in BOOLEAN : Create(u, k, w)
           \/ OpenTbc \/ CloseTbc \/ RunHandler \/ HandlerReturns \/ EnterSync
           \/ LeaveBoundary \/ UNCHANGED vars
  BY <1>5, <1>9 DEF Create, OpenTbc, CloseTbc, RunHandler, HandlerReturns, EnterSync,
                    LeaveBoundary, vars
<1>10. CASE \E u \in Threads : ResumeFirst(u) \/ ResumeAgain(u)
  BY <1>1, <1>10 DEF ResumeFirst, ResumeAgain, EnterThread, StatusEntering
<1>6. CASE EntryFails \/ EntryEnters \/ EntryWasClosed
  BY <1>1, <1>6 DEF EntryFails, EntryEnters, EntryWasClosed, StatusEntering
<1>11. CASE BodyReturns \/ BodyFails \/ \E failed \in BOOLEAN : HostEnds(failed)
  BY <1>2, <1>11 DEF BodyReturns, BodyFails, HostEnds
<1>12. CASE \E u \in Threads : CloseOther(u)
  BY <1>4, <1>12 DEF CloseOther
<1>13. CASE CloseSelf
  BY <1>2, <1>3, <1>13 DEF CloseSelf
<1>14. CASE \E inLua \in BOOLEAN : HandlerFails(inLua)
  <2>1. \/ status' = [status EXCEPT ![current] = "dead"]
        \/ status' = [status EXCEPT ![current] = @]
    BY <1>14 DEF HandlerFails
  <2> QED BY <1>1, <1>4, <2>1
<1>15. CASE FinishClose \/ EnterRun
  BY <1>4, <1>15 DEF FinishClose, EnterRun
<1>16. CASE FinishCloseSelf
  BY <1>2, <1>4, <1>16 DEF FinishCloseSelf
<1>17. CASE QuotaExceeded
  <2>1. \/ \E k : status' = StatusAfterPop(k)
        \/ \E k, u : status' = StatusLeaving(k, u, "dead")
    BY <1>17 DEF QuotaExceeded
  <2> QED BY <1>2, <1>3, <2>1
<1> QED
  BY <1>6, <1>8, <1>9, <1>10, <1>11, <1>12, <1>13, <1>14, <1>15, <1>16, <1>17 DEF Next

(* current_thread after a step is one that was inside an activation already,  *)
(* or one the step has just made running.                                    *)
LEMMA CurrentAfter ==
  ASSUME TypeOK, Linked, HeldIsAwake, [Next]_vars
  PROVE  \/ \E k \in 0 .. Depth : Restored(k)
         \/ current' \in Threads => status'[current'] # "suspended"
<1>1. /\ calls \in Seq(Activations) /\ Depth \in 0 .. Depth
      /\ \A t \in Threads : t \in AllThreads
      /\ status \in [AllThreads -> Statuses]
  BY TopFacts DEF TypeOK, AllThreads
<1>2. UNCHANGED current => \E k \in 0 .. Depth : Restored(k)
  BY <1>1 DEF Linked, Restored
<1>3. \A n \in 0 .. Depth : PopTo(n) => \E k \in 0 .. Depth : Restored(k)
  BY PopToShape
<1>4. \A q \in 1 .. Depth : current' = calls[q].thread => \E k \in 0 .. Depth : Restored(k)
  BY <1>1 DEF Restored
<1>5. Depth > 0 => Depth - 1 \in 0 .. Depth
  BY <1>1
<1>6. CASE EntryFails \/ EntryEnters \/ EntryWasClosed
  <2>1. CASE EntryEnters
    <3>1. Depth \in 1 .. Depth /\ Top.kind = "entry"
      BY <1>1, <2>1 DEF EntryEnters
    <3>2. Top.into \in Threads
      BY <3>1 DEF Linked
    <3> QED BY <1>1, <2>1, <3>2 DEF EntryEnters, StatusEntering
  <2> QED BY <1>2, <1>3, <1>5, <1>6, <2>1 DEF EntryFails, EntryWasClosed
<1>8. CASE Yield
  <2>1. PICK k \in 1 .. Depth : YieldReaches(k)
    BY <1>8 DEF Yield
  <2>2. k - 1 \in 0 .. Depth
    BY <1>1
  <2> QED BY <1>2, <1>3, <2>1, <2>2 DEF YieldReaches
<1>9. CASE \/ \E u \in Threads, k \in EntryKinds, w \in BOOLEAN : Create(u, k, w)
           \/ OpenTbc \/ CloseTbc \/ RunHandler \/ HandlerReturns \/ EnterSync
           \/ (\E inLua \in BOOLEAN : HandlerFails(inLua)) \/ UNCHANGED vars
  BY <1>2, <1>9 DEF Create, OpenTbc, CloseTbc, RunHandler, HandlerReturns, EnterSync,
                    HandlerFails, vars
<1>10. CASE \E u \in Threads : ResumeFirst(u) \/ ResumeAgain(u)
  BY <1>1, <1>2, <1>10 DEF ResumeFirst, ResumeAgain, EnterThread, StatusEntering
<1>11. CASE BodyReturns \/ FinishClose \/ LeaveBoundary \/ \E failed \in BOOLEAN : HostEnds(failed)
  BY <1>3, <1>5, <1>11
     DEF BodyReturns, HostEnds, Body, Running, FinishClose, Closed, LeaveBoundary
<1>12. CASE BodyFails
  BY <1>2, <1>3, <1>5, <1>12 DEF BodyFails, Body, Running
<1>13. CASE \E u \in Threads : CloseOther(u)
  BY <1>1, <1>2, <1>13 DEF CloseOther
<1>14. CASE CloseSelf
  <2>1. 0 \in 0 .. Depth
    BY <1>1
  <2> QED BY <1>3, <1>4, <1>14, <2>1 DEF CloseSelf
<1>15. CASE EnterRun
  BY <1>15, ThreadsAssumption DEF EnterRun
<1>16. CASE FinishCloseSelf
  <2>1. Depth - 2 \in 0 .. Depth
    <3>1. Depth \in 1 .. Depth /\ calls[Depth].kind = "closeself"
      BY <1>1, <1>16, TopFacts DEF FinishCloseSelf, Closed
    <3>2. Depth > 1
      BY <3>1 DEF Linked
    <3> QED BY <1>1, <3>2
  <2> QED BY <1>2, <1>3, <1>16, <2>1 DEF FinishCloseSelf
<1>17. CASE QuotaExceeded
  <2>1. 0 \in 0 .. Depth /\ \A q \in 1 .. Depth : q - 1 \in 0 .. Depth
    BY <1>1
  <2> QED BY <1>3, <1>4, <1>17, <2>1 DEF QuotaExceeded
<1> QED
  BY <1>6, <1>8, <1>9, <1>10, <1>11, <1>12, <1>13, <1>14, <1>15, <1>16, <1>17
  DEF Next

LEMMA NextAwake ==
  ASSUME TypeOK, ProtocolInv, HandlersYield = FALSE, [Next]_vars
  PROVE  HeldIsAwake'
<1>1. Linked /\ HeldIsAwake /\ NoReentry /\ calls \in Seq(Activations) /\ Depth \in Nat
  BY TopFacts DEF ProtocolInv, TypeOK
<1>2. \A i \in 1 .. Depth :
        calls[i].thread \in Threads /\ status'[calls[i].thread] = "suspended"
          => \E n \in 1 .. i : PopTo(n - 1)
  <2> SUFFICES ASSUME NEW i \in 1 .. Depth, calls[i].thread \in Threads,
                      status'[calls[i].thread] = "suspended"
               PROVE  \E n \in 1 .. i : PopTo(n - 1)
    OBVIOUS
  <2>1. YieldsTo(calls[i].thread)
    BY <1>1, OnlyYieldSuspends DEF HeldIsAwake
  <2>2. PICK n \in 1 .. Depth : /\ Innermost(n, Receivers) /\ calls[n].kind = "resume"
                               /\ calls[i].thread = current /\ PopTo(n - 1)
    BY <2>1 DEF YieldsTo
  <2>3. calls[i].thread = calls[n].thread
    BY <1>1, <2>2, PassesEntries
  <2>4. ~(i < n)
    BY <1>1, <2>2, <2>3 DEF NoReentry, Resuming
  <2>5. n \in 1 .. i
    BY <1>1, <2>4
  <2> QED BY <2>2, <2>5
<1>9. \A n \in 1 .. Depth : PopTo(n - 1) => Len(calls') = n - 1 /\ Restored(n - 1)
  <2> SUFFICES ASSUME NEW n \in 1 .. Depth, PopTo(n - 1)
               PROVE  Len(calls') = n - 1 /\ Restored(n - 1)
    OBVIOUS
  <2>1. n - 1 \in 0 .. Depth
    BY <1>1
  <2> QED BY <1>1, <2>1, PopToShape DEF Popped
<1>3. current' \in Threads => status'[current'] # "suspended"
  <2> SUFFICES ASSUME current' \in Threads, status'[current'] = "suspended"
               PROVE  FALSE
    OBVIOUS
  <2>1. PICK k \in 0 .. Depth : Restored(k)
    BY <1>1, CurrentAfter
  <2>2. k \in 1 .. Depth /\ current' = calls[k].thread
    BY <1>1, <2>1, ThreadsAssumption DEF Restored
  <2>3. PICK n \in 1 .. k : PopTo(n - 1)
    BY <1>2, <2>2
  <2>4. n \in 1 .. Depth /\ n - 1 \in 0 .. Depth /\ (n - 1 # 0 => n - 1 \in 1 .. Depth)
    BY <1>1, <2>2
  <2>5. Len(calls') = n - 1 /\ Restored(n - 1)
    BY <1>9, <2>3, <2>4
  <2>6. n - 1 \in 1 .. Depth /\ current' = calls[n - 1].thread
    BY <2>4, <2>5, ThreadsAssumption DEF Restored
  <2>7. PICK m \in 1 .. n - 1 : PopTo(m - 1)
    BY <1>2, <2>6
  <2>8. m \in 1 .. Depth /\ m - 1 # n - 1
    BY <1>1, <2>4, <2>6
  <2> QED BY <1>9, <2>5, <2>7, <2>8
<1>4. SUFFICES ASSUME NEW i \in 1 .. Len(calls'), calls'[i].thread \in Threads,
                      status'[calls'[i].thread] = "suspended"
               PROVE  FALSE
  BY DEF HeldIsAwake
<1>5. Shape
  BY <1>1, NextShape
<1>6. PICK k \in 0 .. Depth : (Popped(k) /\ Restored(k)) \/ (Pushed(k) /\ NewOK(k))
  BY <1>5 DEF Shape
<1>7. CASE i \in 1 .. k
  <2>1. calls'[i].thread = calls[i].thread /\ i \in 1 .. Depth
    BY <1>1, <1>6, <1>7 DEF Popped, Pushed, Kept
  <2>2. PICK n \in 1 .. i : PopTo(n - 1)
    BY <1>2, <1>4, <2>1
  <2>3. n \in 1 .. Depth /\ i \in 1 .. Len(calls') /\ n <= i
    BY <1>1, <2>1
  <2> QED BY <1>9, <2>2, <2>3
<1>8. CASE i \notin 1 .. k
  <2>1. i = k + 1 /\ Pushed(k)
    BY <1>1, <1>4, <1>6, <1>8 DEF Popped, Pushed
  <2> QED BY <1>3, <1>4, <2>1 DEF Pushed
<1> QED BY <1>7, <1>8

(* What a coroutine is like whose entry is making a host call: nobody else    *)
(* can resume it, it has nothing pending, and it is on the stack only for a   *)
(* close that is about to end.                                              *)
Waiting(i) ==
  LET t == calls[i].into IN
  /\ started[t] /\ ~target[t] /\ tbc[t] = 0 /\ entry[t] = "protected"
  /\ \A j \in 1 .. Depth : calls[j].kind = "entry" /\ calls[j].into = t => j = i
  /\ \/ /\ status[t] = IF frames[t] THEN "suspended" ELSE "dead"
        /\ \A j \in 1 .. Depth : calls[j].thread # t
     \/ /\ Top.kind = "close" /\ ~Top.busy /\ Top.thread = t /\ frames[t]
        /\ \A j \in 1 .. Depth - 1 : calls[j].thread # t

EntriesWait == \A i \in 1 .. Depth : calls[i].kind = "entry" => Waiting(i)

LEMMA NextNoReentry ==
  ASSUME TypeOK, ProtocolInv, EntriesWait, [Next]_vars
  PROVE  NoReentry'
<1>1. Linked /\ HeldIsAwake /\ NoReentry /\ calls \in Seq(Activations) /\ Depth \in Nat
  BY TopFacts DEF ProtocolInv, TypeOK
<1>2. Shape
  BY <1>1, NextShape
<1>3. PICK k \in 0 .. Depth : (Popped(k) /\ Restored(k)) \/ (Pushed(k) /\ NewOK(k))
  BY <1>2 DEF Shape
<1>4. SUFFICES ASSUME NEW i \in 1 .. Len(calls'), NEW j \in 1 .. Len(calls'),
                      i < j, Resuming(calls'[j])
               PROVE  calls'[i].thread # calls'[j].thread
  BY DEF NoReentry
<1>5. CASE j \in 1 .. k
  <2>1. /\ i \in 1 .. k /\ i \in 1 .. Depth /\ j \in 1 .. Depth
    BY <1>1, <1>4, <1>5
  <2>2. /\ calls'[i].thread = calls[i].thread /\ calls'[j].thread = calls[j].thread
        /\ Resuming(calls[j])
    BY <1>3, <1>4, <1>5, <2>1 DEF Popped, Pushed, Kept, Resuming
  <2> QED BY <1>1, <1>4, <2>1, <2>2 DEF NoReentry
<1>6. CASE j \notin 1 .. k
  <2>1. j = k + 1 /\ Pushed(k) /\ NewOK(k) /\ i \in 1 .. k /\ i \in 1 .. Depth
    BY <1>1, <1>3, <1>4, <1>6 DEF Popped, Pushed
  <2>3. calls'[i].thread = calls[i].thread
    BY <2>1 DEF Pushed, Kept
  <2>2. CASE calls'[j].thread \in Threads /\ status[calls'[j].thread] = "suspended"
    BY <1>1, <2>1, <2>2, <2>3 DEF HeldIsAwake
  <2>4. CASE EntryEnters /\ k = Depth - 1 /\ calls'[j].thread = Top.into
    <3>1. Depth \in 1 .. Depth /\ Top.kind = "entry"
      BY <1>1, <2>4 DEF EntryEnters
    <3>2. Waiting(Depth)
      BY <3>1 DEF EntriesWait
    <3>3. \A n \in 1 .. Depth : calls[n].thread # Top.into
      BY <3>1, <3>2 DEF Waiting
    <3> QED BY <2>1, <2>3, <2>4, <3>3
  <2> QED BY <1>4, <2>1, <2>2, <2>4 DEF NewOK
<1> QED BY <1>5, <1>6

-----------------------------------------------------------------------------
(* The theorems.                                                            *)

LEMMA InitInv == Init => TypeOK /\ ProtocolInv
<1> SUFFICES ASSUME Init PROVE TypeOK /\ ProtocolInv
  OBVIOUS
<1>1. calls = <<>> /\ Depth = 0 /\ current = NoThread
  BY DEF Init
<1>2. TypeOK
  BY <1>1 DEF Init, TypeOK, AllThreads, Statuses, Entries
<1>3. Linked /\ HeldIsAwake /\ NoReentry
  BY <1>1 DEF Linked, HeldIsAwake, NoReentry
<1> QED BY <1>2, <1>3 DEF ProtocolInv

(* The state is well typed and the activations hang together in every        *)
(* reachable state, whatever the handlers do: each finally block of          *)
(* resume_thread, call_sync, close_thread and run restores the               *)
(* current_thread of the activation below it, and a self-close always finds  *)
(* the _execute_thread it belongs to.                                        *)
THEOREM TypeCorrect == Spec => [](TypeOK /\ Linked)
<1>1. Init => TypeOK /\ Linked
  BY InitInv DEF ProtocolInv
<1>2. TypeOK /\ Linked /\ [Next]_vars => (TypeOK /\ Linked)'
  BY NextTypes, NextLinked, NextShape
<1> QED BY <1>1, <1>2, PTL DEF Spec

-----------------------------------------------------------------------------
(* StatusTellsTruth and DeadIsFinal, when no handler yields while its         *)
(* coroutine is being closed.                                                *)
(*                                                                           *)
(* Neither property is inductive.  What is: every thread on the activation   *)
(* stack rests on an activation other than a call_sync (Anchored); the       *)
(* frames, the entry and the pending values of a coroutine fit together      *)
(* (Fits); and a resume_thread that is not closing itself executes a         *)
(* coroutine that has frames, is awake, and that no force-close further in   *)
(* is taking apart (Executed).                                               *)

Actives == {"running", "normal"}

(* t is the thread of an activation; t waits for a thread it resumed.        *)
Within(t) == \E i \in 1 .. Depth : calls[i].thread = t
Awaits(t) == \E i \in 1 .. Depth : Resuming(calls[i]) /\ calls[i].prev = t

(* The resume_thread at i has caught a _CloseSelfSignal; it has not.         *)
SelfClosed(i) == i < Depth /\ calls[i + 1].kind = "closeself"
Runs(i) == calls[i].kind = "resume" /\ ~SelfClosed(i)

Anchored ==
  \A i \in 1 .. Depth : calls[i].thread \in Threads =>
    \E j \in 1 .. i : calls[j].thread = calls[i].thread /\ ~AsCaller(calls[j])

KindsFit ==
  \A i \in 1 .. Depth :
    /\ calls[i].kind = "host" => entry[calls[i].thread] = "host"
    /\ calls[i].kind = "run" => calls[i].thread = Main

Executed ==
  \A i \in 1 .. Depth : Runs(i) =>
    /\ frames[calls[i].thread] /\ status[calls[i].thread] \in Actives
    /\ \A j \in i + 1 .. Depth : Closing(calls[j]) => calls[j].thread # calls[i].thread

Fits(t) ==
  /\ frames[t] => started[t] /\ entry[t] # "host"
  /\ started[t] => entry[t] # "none"
  /\ status[t] = "suspended" /\ started[t] => frames[t]
  /\ ~frames[t] => tbc[t] = 0
  /\ status[t] = "dead" /\ frames[t] => err[t]
  /\ status[t] = "suspended" /\ started[t] /\ entry[t] # "protected" => target[t]

StackInv == Anchored /\ KindsFit /\ Executed /\ NormalHasResumed /\ ActiveIsHeld
FitsInv == \A t \in Threads : Fits(t)

(* Only a coroutine that was started has a yield target, or is on the stack.   *)
StartedInv == \A t \in Threads : target[t] \/ Within(t) => started[t]

StatusInv == ProtocolInv /\ StackInv /\ FitsInv /\ EntriesWait /\ StartedInv

-----------------------------------------------------------------------------
(* What a step must satisfy for the stack invariant, when it keeps the k     *)
(* outermost activations and adds at most one.                               *)
Moves(k) ==
  /\ calls' \in Seq(Activations) /\ Kept(k)
  /\ Len(calls') = k \/ Len(calls') = k + 1
  /\ lost \subseteq lost'
  /\ \A u \in AllThreads : status'[u] = "normal" =>
       Awaits(u)' \/ (status[u] = "normal" /\ ~ResumerOf(k, u))
  /\ \A u \in Threads : status'[u] \in Actives => status[u] \in Actives \/ Within(u) \/ Within(u)'
  /\ \A u \in Threads, j \in k + 1 .. Depth :
       calls[j].thread = u /\ ~AsCaller(calls[j]) /\ status'[u] \in Actives =>
         u \in lost' \/ Within(u)'

(* The activation that it adds, if it adds one.                              *)
Adds(k) ==
  LET a == calls'[k + 1] IN
  Len(calls') = k + 1 =>
    /\ AsCaller(a) => a.thread = a.prev
    /\ a.prev = IF k = 0 THEN NoThread ELSE calls[k].thread
    /\ a.kind = "host" => entry'[a.thread] = "host"
    /\ a.kind = "run" => a.thread = Main
    /\ a.kind = "resume" => frames'[a.thread] /\ status'[a.thread] \in Actives

(* What it does to the threads that the kept activations execute.            *)
Spares(k) ==
  /\ k > 0 /\ k < Depth /\ calls[k].kind = "resume" => calls[k + 1].kind # "closeself"
  /\ \A u \in Threads, i \in 1 .. k :
       calls[i].thread = u /\ Runs(i) /\ Runs(i)' =>
         /\ frames'[u] /\ status'[u] \in Actives
         /\ Len(calls') = k + 1 /\ Closing(calls'[k + 1]) => calls'[k + 1].thread # u
  /\ \A t \in Threads : entry[t] = "host" => entry'[t] = "host"

LEMMA MovesStack ==
  ASSUME TypeOK, Linked, Linked', StackInv, NEW k \in 0 .. Depth,
         Moves(k), Adds(k), Spares(k)
  PROVE  StackInv'
<1>1. /\ calls \in Seq(Activations) /\ Depth \in Nat /\ k \in Nat
      /\ Len(calls') \in Nat /\ Len(calls') >= k
      /\ \A i \in 1 .. k : i \in 1 .. Depth /\ i \in 1 .. Len(calls')
      /\ \A i \in 1 .. Len(calls') : i \notin 1 .. k => i = k + 1 /\ Len(calls') = k + 1
  BY TopFacts DEF TypeOK, Moves
<1>2. \A i \in 1 .. k : /\ calls'[i].kind = calls[i].kind
                        /\ calls'[i].thread = calls[i].thread
                        /\ calls'[i].prev = calls[i].prev
  BY DEF Moves, Kept
<1>3. Anchored'
  <2> SUFFICES ASSUME NEW i \in 1 .. Len(calls'), calls'[i].thread \in Threads
               PROVE  \E j \in 1 .. i : calls'[j].thread = calls'[i].thread
                                        /\ ~AsCaller(calls'[j])
    BY DEF Anchored
  <2>1. ASSUME NEW n \in 1 .. k, calls[n].thread \in Threads
        PROVE  \E j \in 1 .. n : calls'[j].thread = calls[n].thread /\ ~AsCaller(calls'[j])
    <3>1. PICK j \in 1 .. n : calls[j].thread = calls[n].thread /\ ~AsCaller(calls[j])
      BY <1>1, <2>1 DEF StackInv, Anchored
    <3>2. j \in 1 .. k
      BY <1>1
    <3> QED BY <1>2, <3>1, <3>2
  <2>2. CASE i \in 1 .. k
    BY <1>2, <2>1, <2>2
  <2>3. CASE i \notin 1 .. k /\ ~AsCaller(calls'[i])
    BY <1>1, <2>3
  <2>4. CASE i \notin 1 .. k /\ AsCaller(calls'[i])
    <3>1. /\ i = k + 1 /\ calls'[i].thread = calls'[i].prev
          /\ calls'[i].prev = IF k = 0 THEN NoThread ELSE calls[k].thread
      BY <1>1, <2>4 DEF Adds
    <3>2. k \in 1 .. k /\ calls[k].thread = calls'[i].thread
      BY <1>1, <3>1, ThreadsAssumption
    <3>3. PICK j \in 1 .. k : calls'[j].thread = calls[k].thread /\ ~AsCaller(calls'[j])
      BY <2>1, <3>2
    <3>4. j \in 1 .. i
      BY <1>1, <3>1
    <3> QED BY <3>2, <3>3, <3>4
  <2> QED BY <2>2, <2>3, <2>4
<1>4. KindsFit'
  <2> SUFFICES ASSUME NEW i \in 1 .. Len(calls')
               PROVE  /\ calls'[i].kind = "host" => entry'[calls'[i].thread] = "host"
                      /\ calls'[i].kind = "run" => calls'[i].thread = Main
    BY DEF KindsFit
  <2>1. CASE i \in 1 .. k
    <3>1. /\ i \in 1 .. Depth /\ calls'[i].kind = calls[i].kind
          /\ calls'[i].thread = calls[i].thread
      BY <1>1, <1>2, <2>1
    <3>2. calls[i].kind = "host" =>
            calls[i].thread \in Threads /\ entry[calls[i].thread] = "host"
      BY <3>1 DEF StackInv, KindsFit, Linked, Resuming
    <3>3. calls[i].kind = "run" => calls[i].thread = Main
      BY <3>1 DEF StackInv, KindsFit
    <3> QED BY <3>1, <3>2, <3>3 DEF Spares
  <2>2. CASE i \notin 1 .. k
    BY <1>1, <2>2 DEF Adds
  <2> QED BY <2>1, <2>2
<1>5. Executed'
  <2> SUFFICES ASSUME NEW i \in 1 .. Len(calls'), Runs(i)'
               PROVE  /\ frames'[calls'[i].thread] /\ status'[calls'[i].thread] \in Actives
                      /\ \A j \in i + 1 .. Len(calls') :
                           Closing(calls'[j]) => calls'[j].thread # calls'[i].thread
    BY DEF Executed, Closing
  <2>1. CASE i \in 1 .. k
    <3>1. calls[i].kind = "resume" /\ i \in 1 .. Depth /\ calls[i].thread \in Threads
      BY <1>1, <1>2, <2>1 DEF Runs, Linked, Resuming
    <3>2. Runs(i)
      <4>1. CASE i = k
        BY <1>1, <3>1, <4>1 DEF Spares, Runs, SelfClosed
      <4>2. CASE i # k
        <5>1. i + 1 \in 1 .. k /\ i < Len(calls')
          BY <1>1, <2>1, <4>2
        <5> QED BY <1>2, <2>1, <3>1, <5>1 DEF Runs, SelfClosed
      <4> QED BY <4>1, <4>2
    <3> DEFINE u == calls[i].thread
    <3>3. /\ frames'[u] /\ status'[u] \in Actives
          /\ Len(calls') = k + 1 /\ Closing(calls'[k + 1]) => calls'[k + 1].thread # u
      BY <2>1, <3>1, <3>2 DEF Spares
    <3>4. ASSUME NEW j \in i + 1 .. Len(calls'), Closing(calls'[j])
          PROVE  calls'[j].thread # u
      <4>1. CASE j \in 1 .. k
        <5>1. j \in i + 1 .. Depth /\ Closing(calls[j])
          BY <1>1, <1>2, <3>4, <4>1 DEF Closing
        <5> QED BY <1>2, <3>1, <3>2, <4>1, <5>1 DEF StackInv, Executed
      <4>2. CASE j \notin 1 .. k
        BY <1>1, <3>3, <3>4, <4>2
      <4> QED BY <4>1, <4>2
    <3>5. status'[u] \in Actives
      BY <3>3
    <3> QED BY <1>2, <2>1, <3>3, <3>4, <3>5
  <2>2. CASE i \notin 1 .. k
    <3>1. i = k + 1 /\ Len(calls') = k + 1 /\ calls'[i].kind = "resume"
      BY <1>1, <2>2 DEF Runs
    <3>2. frames'[calls'[i].thread] /\ status'[calls'[i].thread] \in Actives
      BY <3>1 DEF Adds
    <3> QED BY <1>1, <3>1, <3>2
  <2> QED BY <2>1, <2>2
<1>6. NormalHasResumed'
  <2> SUFFICES ASSUME NEW u \in AllThreads, status'[u] = "normal"
               PROVE  Awaits(u)'
    BY DEF NormalHasResumed, Awaits, Resuming
  <2>1. CASE status[u] = "normal" /\ ~ResumerOf(k, u)
    <3>1. PICK i \in 1 .. Depth : Resuming(calls[i]) /\ calls[i].prev = u
      BY <2>1 DEF StackInv, NormalHasResumed
    <3>2. i \in 1 .. k
      BY <1>1, <2>1, <3>1 DEF ResumerOf
    <3> QED BY <1>1, <1>2, <3>1, <3>2 DEF Awaits, Resuming
  <2> QED BY <2>1 DEF Moves
<1>7. ActiveIsHeld'
  <2>a. ASSUME NEW u \in Threads, Within(u)' PROVE Held(u)'
    <3>1. PICK i \in 1 .. Len(calls') : calls'[i].thread = u
      BY <2>a DEF Within
    <3>2. PICK j \in 1 .. i : calls'[j].thread = u /\ ~AsCaller(calls'[j])
      BY <1>3, <3>1 DEF Anchored
    <3>3. j \in 1 .. Len(calls')
      BY <1>1
    <3> QED BY <3>2, <3>3 DEF Held
  <2> SUFFICES ASSUME NEW u \in Threads, status'[u] \in Actives, u \notin lost'
               PROVE  Within(u)'
    BY <2>a DEF ActiveIsHeld, Actives
  <2>1. \/ Within(u)'
        \/ u \in lost
        \/ \E i \in 1 .. Depth : calls[i].thread = u /\ ~AsCaller(calls[i])
    <3>1. status[u] \in Actives => u \in lost \/ Held(u)
      BY DEF StackInv, ActiveIsHeld, Actives
    <3>2. Within(u) => \E i \in 1 .. Depth : calls[i].thread = u /\ ~AsCaller(calls[i])
      <4> SUFFICES ASSUME NEW i \in 1 .. Depth, calls[i].thread = u
                   PROVE  \E n \in 1 .. Depth : calls[n].thread = u /\ ~AsCaller(calls[n])
        BY DEF Within
      <4>1. PICK j \in 1 .. i : calls[j].thread = u /\ ~AsCaller(calls[j])
        BY DEF StackInv, Anchored
      <4>2. j \in 1 .. Depth
        BY <1>1
      <4> QED BY <4>1, <4>2
    <3> QED BY <3>1, <3>2 DEF Moves, Held
  <2>2. CASE u \in lost
    BY <2>2 DEF Moves
  <2>3. ASSUME NEW i \in 1 .. Depth, calls[i].thread = u, ~AsCaller(calls[i])
        PROVE  Within(u)'
    <3>1. CASE i \in 1 .. k
      BY <1>1, <1>2, <2>3, <3>1 DEF Within
    <3>2. CASE i \notin 1 .. k
      <4>1. i \in k + 1 .. Depth
        BY <1>1, <3>2
      <4> QED BY <2>3, <4>1 DEF Moves
    <3> QED BY <3>1, <3>2
  <2> QED BY <2>1, <2>2, <2>3
<1> QED BY <1>3, <1>4, <1>5, <1>6, <1>7 DEF StackInv

-----------------------------------------------------------------------------
(* Every step but resume_thread itself makes the threads whose resume it     *)
(* drops running and leaves the others alone, one thread t excepted.         *)
Leaves(k, t) ==
  \A u \in AllThreads : u # t =>
    status'[u] = IF ResumerOf(k, u) THEN "running" ELSE status[u]

(* A thread that waits is on the stack.                                      *)
LEMMA ResumerWithin ==
  ASSUME TypeOK, Linked, NEW k \in 0 .. Depth, NEW u \in AllThreads, ResumerOf(k, u)
  PROVE  Within(u)
<1>1. calls \in Seq(Activations) /\ Depth \in Nat
  BY TopFacts DEF TypeOK
<1>2. PICK i \in k + 1 .. Depth : calls[i].prev = u
  BY DEF ResumerOf
<1>3. i \in 1 .. Depth /\ calls[i].prev = IF i = 1 THEN NoThread ELSE calls[i - 1].thread
  BY <1>1 DEF Linked
<1>4. i # 1 /\ calls[i - 1].thread = u
  BY <1>2, <1>3, ThreadsAssumption DEF AllThreads
<1>5. i - 1 \in 1 .. Depth
  BY <1>1, <1>3, <1>4
<1> QED BY <1>4, <1>5 DEF Within

LEMMA LeavesStack ==
  ASSUME TypeOK, TypeOK', Linked, Linked', StackInv, NEW k \in 0 .. Depth, NEW t,
         Kept(k), Len(calls') = k \/ Len(calls') = k + 1, lost \subseteq lost',
         Leaves(k, t), Adds(k),
         \A u \in Threads : entry[u] = "host" => entry'[u] = "host",
         \A u \in Threads : frames[u] /\ u # t => frames'[u],
         t \in AllThreads => status'[t] # "normal",
         t \in Threads /\ status'[t] \in Actives => Within(t)',
         \A u \in Threads, j \in k + 1 .. Depth :
           calls[j].thread = u /\ ~AsCaller(calls[j]) /\ u # t => u \in lost' \/ Within(u)',
         k > 0 /\ k < Depth /\ calls[k].kind = "resume" => calls[k + 1].kind # "closeself",
         \A i \in 1 .. k : Runs(i) /\ Runs(i)' /\ calls[i].thread = t
                             => frames'[t] /\ status'[t] \in Actives,
         \A i \in 1 .. k :
           Len(calls') = k + 1 /\ Closing(calls'[k + 1]) /\ Runs(i) /\ Runs(i)'
             => calls[i].thread # calls'[k + 1].thread
  PROVE  StackInv'
<1>1. calls' \in Seq(Activations) /\ Depth \in Nat /\ Threads \subseteq AllThreads
  BY TopFacts DEF TypeOK, AllThreads
<1>2. Moves(k)
  <2>1. \A u \in AllThreads : status'[u] = "normal" => status[u] = "normal" /\ ~ResumerOf(k, u)
    BY DEF Leaves
  <2>2. \A u \in Threads : status'[u] \in Actives =>
          status[u] \in Actives \/ Within(u) \/ Within(u)'
    BY <1>1, ResumerWithin DEF Leaves
  <2> QED BY <1>1, <2>1, <2>2 DEF Moves
<1>3. Spares(k)
  <2>1. ASSUME NEW u \in Threads, NEW i \in 1 .. k, calls[i].thread = u, Runs(i), Runs(i)'
        PROVE  frames'[u] /\ status'[u] \in Actives
    <3>1. i \in 1 .. Depth
      BY <1>1
    <3>2. frames[u] /\ status[u] \in Actives
      BY <2>1, <3>1 DEF StackInv, Executed
    <3>3. u # t => status'[u] \in Actives
      BY <1>1, <3>2 DEF Leaves, Actives
    <3> QED BY <2>1, <3>2, <3>3
  <2> QED BY <2>1 DEF Spares
<1> QED BY <1>2, <1>3, MovesStack

(* The activation on top.                                                    *)
LEMMA InsideFacts ==
  ASSUME TypeOK, ProtocolInv, Depth > 0
  PROVE  /\ Linked /\ current = Top.thread /\ Depth \in Nat /\ Depth \in 1 .. Depth
         /\ Top \in Activations /\ Depth - 1 \in 0 .. Depth /\ Depth - 1 + 1 = Depth
<1>1. calls \in Seq(Activations)
  BY DEF TypeOK
<1>2. Depth \in Nat /\ Depth \in 1 .. Depth /\ Top \in Activations
  BY <1>1, TopFacts
<1>3. Linked
  BY DEF ProtocolInv
<1>4. current = Top.thread
  <2>1. current = IF Depth = 0 THEN NoThread ELSE Top.thread
    BY <1>3 DEF Linked
  <2>2. Depth # 0
    BY <1>2
  <2> QED BY <2>1, <2>2
<1>5. Depth - 1 \in 0 .. Depth /\ Depth - 1 + 1 = Depth
  BY <1>2
<1> QED BY <1>2, <1>3, <1>4, <1>5

(* A coroutine that is resumed or closed is executed by no activation further  *)
(* out.                                                                      *)
LEMMA NotRunBelow ==
  ASSUME TypeOK, ProtocolInv, StackInv, NEW k \in 1 .. Depth,
         Resuming(calls[k]) \/ Closing(calls[k]), NEW i \in 1 .. k - 1, Runs(i)
  PROVE  calls[i].thread # calls[k].thread
<1>1. /\ calls \in Seq(Activations) /\ i \in 1 .. Depth /\ i < k /\ k \in i + 1 .. Depth
  BY TopFacts DEF TypeOK
<1>2. CASE Resuming(calls[k])
  BY <1>1, <1>2 DEF ProtocolInv, NoReentry
<1>3. CASE Closing(calls[k])
  BY <1>1, <1>3 DEF StackInv, Executed
<1> QED BY <1>2, <1>3

(* The coroutine on top is executed by no activation further out.            *)
LEMMA TopNotRun ==
  ASSUME TypeOK, ProtocolInv, StackInv, Depth > 0, Resuming(Top) \/ Closing(Top),
         NEW i \in 1 .. Depth, i # Depth, Runs(i)
  PROVE  calls[i].thread # Top.thread
<1>1. calls \in Seq(Activations) /\ Depth \in 1 .. Depth /\ i < Depth /\ Depth \in i + 1 .. Depth
  BY TopFacts DEF TypeOK
<1>2. CASE Resuming(Top)
  BY <1>1, <1>2 DEF ProtocolInv, NoReentry
<1>3. CASE Closing(Top)
  BY <1>1, <1>3 DEF StackInv, Executed
<1> QED BY <1>2, <1>3

(* The stack is only touched up, if at all.                                  *)
LEMMA FlagStack ==
  ASSUME TypeOK, TypeOK', Linked, Linked', StackInv, NEW t,
         Popped(Depth), UNCHANGED <<entry, lost>>, Leaves(Depth, t),
         \A u \in Threads : frames[u] /\ u # t => frames'[u],
         t \in AllThreads => status'[t] # "normal" /\ (status'[t] \in Actives => Within(t)'),
         \A i \in 1 .. Depth : Runs(i) => calls[i].thread # t
  PROVE  StackInv'
<1>1. Depth \in Nat /\ Depth \in 0 .. Depth /\ Threads \subseteq AllThreads
  BY TopFacts DEF TypeOK, AllThreads
<1>2. Kept(Depth) /\ Len(calls') = Depth /\ Len(calls') # Depth + 1
  BY <1>1 DEF Popped
<1>3. Adds(Depth)
  BY <1>2 DEF Adds
<1> QED BY <1>1, <1>2, <1>3, LeavesStack

LEMMA SameStack ==
  ASSUME TypeOK, TypeOK', Linked, Linked', StackInv,
         \A u \in Threads : entry[u] = "host" => entry'[u] = "host",
         UNCHANGED <<status, frames, current, calls, lost>>
  PROVE  StackInv'
<1>1. Depth \in Nat /\ Depth \in 0 .. Depth
  BY TopFacts DEF TypeOK
<1>2. Kept(Depth) /\ Len(calls') = Depth /\ Len(calls') # Depth + 1
  BY <1>1 DEF Kept
<1>3. Adds(Depth)
  BY <1>2 DEF Adds
<1>4. Leaves(Depth, NoThread)
  BY <1>1 DEF Leaves, ResumerOf
<1>5. NoThread \notin AllThreads /\ NoThread \notin Threads
  BY ThreadsAssumption DEF AllThreads
<1>6. \A i \in 1 .. Depth : Runs(i) => calls[i].thread # NoThread
  BY <1>5 DEF Linked, Runs, Resuming
<1> QED BY <1>1, <1>2, <1>3, <1>4, <1>5, <1>6, LeavesStack

(* An activation ends, and with it the calls of coroutines that were to be    *)
(* entered.                                                                  *)
LEMMA DropStack ==
  ASSUME TypeOK, TypeOK', ProtocolInv, Linked', StackInv, NEW k \in 1 .. Depth,
         \A j \in k + 1 .. Depth : calls[j].kind = "entry",
         PopTo(k - 1), UNCHANGED <<entry, lost>>, NEW t,
         \/ calls[k].kind \in {"run", "sync"} /\ t = NoThread
         \/ calls[k].kind \in {"resume", "host", "close"} /\ t = calls[k].thread
            /\ status'[t] \in {"suspended", "dead"},
         Leaves(k - 1, t),
         \A u \in Threads : frames[u] /\ u # t => frames'[u]
  PROVE  StackInv'
<1>1. /\ Linked /\ Depth \in Nat /\ k \in Nat /\ k - 1 \in 0 .. Depth /\ k - 1 + 1 = k
      /\ k - 1 # k
      /\ \A j \in k - 1 + 1 .. Depth : j = k \/ j \in k + 1 .. Depth
  BY TopFacts DEF TypeOK, ProtocolInv
<1>2. Kept(k - 1) /\ Len(calls') = k - 1 /\ Len(calls') # k - 1 + 1
  <2>1. Popped(k - 1)
    BY <1>1, PopToShape
  <2> QED BY <1>1, <2>1 DEF Popped
<1>3. Adds(k - 1)
  BY <1>2 DEF Adds
<1>4. NoThread \notin AllThreads /\ NoThread \notin Threads /\ Main \notin Threads
  BY ThreadsAssumption DEF AllThreads
<1>5. \A i \in 1 .. k - 1 : Runs(i) => calls[i].thread # t
  <2>1. CASE t = NoThread
    <3>1. \A i \in 1 .. k - 1 : i \in 1 .. Depth
      BY <1>1
    <3>2. \A i \in 1 .. Depth : Runs(i) => calls[i].thread \in Threads
      BY <1>1 DEF Linked, Runs, Resuming
    <3> QED BY <1>4, <2>1, <3>1, <3>2
  <2>2. CASE calls[k].kind \in {"resume", "host", "close"} /\ t = calls[k].thread
    BY <2>2, NotRunBelow DEF Resuming, Closing
  <2> QED BY <2>1, <2>2
<1>6. t \in AllThreads => status'[t] \notin Actives /\ status'[t] # "normal"
  BY <1>4 DEF Actives
<1>7. \A u \in Threads, j \in k - 1 + 1 .. Depth :
        calls[j].thread = u /\ ~AsCaller(calls[j]) /\ u # t => u \in lost' \/ Within(u)'
  <2>1. calls[k].kind = "run" => calls[k].thread = Main
    BY DEF StackInv, KindsFit
  <2> QED BY <1>1, <1>4, <2>1
<1>8. t \in Threads => t \in AllThreads
  BY DEF AllThreads
<1>9. calls[k - 1 + 1].kind # "closeself"
  BY <1>1
<1>10. lost \subseteq lost' /\ \A u \in Threads : entry[u] = "host" => entry'[u] = "host"
  OBVIOUS
<1>11. /\ t \in AllThreads => status'[t] # "normal"
       /\ t \in Threads /\ status'[t] \in Actives => Within(t)'
  BY <1>6, <1>8
<1>12. \A i \in 1 .. k - 1 : Runs(i) /\ Runs(i)' /\ calls[i].thread = t
                                => frames'[t] /\ status'[t] \in Actives
  BY <1>5
<1>13. \A i \in 1 .. k - 1 :
         Len(calls') = k - 1 + 1 /\ Closing(calls'[k - 1 + 1]) /\ Runs(i) /\ Runs(i)'
           => calls[i].thread # calls'[k - 1 + 1].thread
  BY <1>2
<1> HIDE DEF Depth, Top
<1> QED BY <1>1, <1>2, <1>3, <1>7, <1>9, <1>10, <1>11, <1>12, <1>13, LeavesStack

(* The activation on top ends.                                               *)
LEMMA PopStack ==
  ASSUME TypeOK, TypeOK', ProtocolInv, Linked', StackInv, Depth > 0,
         PopTo(Depth - 1), UNCHANGED <<entry, lost>>, NEW t,
         \/ Top.kind \in {"run", "sync"} /\ t = NoThread
         \/ Top.kind \in {"resume", "host", "close"} /\ t = current
            /\ status'[t] \in {"suspended", "dead"},
         Leaves(Depth - 1, t),
         \A u \in Threads : frames[u] /\ u # t => frames'[u]
  PROVE  StackInv'
<1>1. Depth \in 1 .. Depth /\ Depth \in Nat /\ current = calls[Depth].thread
  BY InsideFacts
<1>2. \A j \in Depth + 1 .. Depth : calls[j].kind = "entry"
  BY <1>1
<1> QED BY <1>1, <1>2, DropStack

(* An activation other than a resume is added on top.                        *)
LEMMA AddStack ==
  ASSUME TypeOK, TypeOK', Linked, Linked', StackInv, Pushed(Depth),
         UNCHANGED <<entry, lost>>, \A u \in Threads : frames[u] => frames'[u],
         NEW t, Leaves(Depth, t),
         calls'[Depth + 1].kind \in {"sync", "entry", "run", "close"},
         AsCaller(calls'[Depth + 1]) => calls'[Depth + 1].thread = calls'[Depth + 1].prev,
         calls'[Depth + 1].kind = "run" => calls'[Depth + 1].thread = Main,
         calls'[Depth + 1].kind = "close" => calls'[Depth + 1].thread = t,
         t \in AllThreads => status'[t] # "normal",
         t \in Threads => status[t] \notin Actives /\ calls'[Depth + 1].thread = t
  PROVE  StackInv'
<1>1. Depth \in Nat /\ Depth \in 0 .. Depth /\ \A i \in 1 .. Depth : i \in 1 .. Depth
  BY TopFacts DEF TypeOK
<1>2. Kept(Depth) /\ Len(calls') = Depth + 1 /\ Depth + 1 \in 1 .. Len(calls')
  BY <1>1 DEF Pushed
<1>3. Adds(Depth)
  BY DEF Adds, Pushed
<1>4. \A i \in 1 .. Depth : Runs(i) => calls[i].thread # t
  BY DEF StackInv, Executed, Linked, Runs, Resuming
<1>5. t \in Threads => Within(t)'
  BY <1>2 DEF Within
<1>6. lost \subseteq lost' /\ \A u \in Threads : entry[u] = "host" => entry'[u] = "host"
  OBVIOUS
<1>7. \A i \in 1 .. Depth :
        Closing(calls'[Depth + 1]) /\ Runs(i) => calls[i].thread # calls'[Depth + 1].thread
  BY <1>4 DEF Closing
<1> QED BY <1>1, <1>2, <1>3, <1>4, <1>5, <1>6, <1>7, LeavesStack

(* resume_thread enters a suspended coroutine.                               *)
LEMMA EnterStack ==
  ASSUME TypeOK, TypeOK', ProtocolInv, Linked', StackInv, Running,
         NEW t \in Threads, NEW kind \in {"resume", "host"}, status[t] = "suspended",
         EnterThread(t, kind), UNCHANGED <<entry, lost>>,
         \A u \in Threads : u # t /\ frames[u] => frames'[u],
         kind = "resume" => frames'[t], kind = "host" => entry[t] = "host"
  PROVE  StackInv'
<1> DEFINE a == Activation(kind, t, FALSE)
<1>1. /\ Linked /\ Depth \in Nat /\ Depth \in 0 .. Depth /\ Depth > 0 /\ current = Top.thread
      /\ status \in [AllThreads -> Statuses] /\ Threads \subseteq AllThreads
      /\ Depth \in 1 .. Depth
  BY TopFacts DEF TypeOK, ProtocolInv, Running, Linked, AllThreads
<1>2. a \in Activations /\ a.kind = kind /\ a.thread = t
      /\ a.prev = (IF Depth = 0 THEN NoThread ELSE calls[Depth].thread)
  <2>1. kind \in Kinds /\ t \in AllThreads \cup {NoThread} /\ FALSE \in BOOLEAN
    BY DEF Kinds, AllThreads
  <2> QED BY ZenonT(60), <1>1, <2>1, ActivationFacts
<1>3. calls' = Append(calls, a) /\ current' = t
  BY DEF EnterThread
<1> HIDE DEF a
<1>4. calls' \in Seq(Activations) /\ Pushed(Depth) /\ calls'[Depth + 1] = a
  BY <1>1, <1>2, <1>3, PushShape
<1>5. /\ status'[t] = "running"
      /\ \A u \in AllThreads : u # t =>
           status'[u] = IF u = current THEN "normal" ELSE status[u]
  BY <1>1 DEF EnterThread, StatusEntering
<1>6. Len(calls') = Depth + 1 /\ Kept(Depth) /\ Depth + 1 \in 1 .. Len(calls')
  BY <1>1, <1>4 DEF Pushed
<1>7. Within(t)' /\ \A u : u = current => Awaits(u)'
  <2>1. Resuming(calls'[Depth + 1]) /\ calls'[Depth + 1].prev = current
    BY <1>1, <1>2, <1>4 DEF Resuming
  <2>2. calls'[Depth + 1].thread = t
    BY <1>2, <1>4
  <2> QED BY <1>6, <2>1, <2>2 DEF Awaits, Resuming, Within
<1>8. Moves(Depth)
  <2>1. \A u \in AllThreads : status'[u] = "normal" =>
          Awaits(u)' \/ (status[u] = "normal" /\ ~ResumerOf(Depth, u))
    BY <1>1, <1>5, <1>7 DEF ResumerOf
  <2>2. \A u \in Threads : status'[u] \in Actives =>
          status[u] \in Actives \/ Within(u) \/ Within(u)'
    BY <1>1, <1>5, <1>7 DEF Within
  <2> QED BY <1>1, <1>4, <1>6, <2>1, <2>2 DEF Moves
<1>9. Adds(Depth)
  BY <1>1, <1>2, <1>4, <1>5 DEF Adds, Actives
<1>10. Spares(Depth)
  <2>1. ASSUME NEW u \in Threads, NEW i \in 1 .. Depth, calls[i].thread = u, Runs(i)
        PROVE  frames'[u] /\ status'[u] \in Actives
    <3>1. frames[u] /\ status[u] \in Actives
      BY <2>1 DEF StackInv, Executed
    <3>2. u # t
      BY <3>1 DEF Actives
    <3> QED BY <1>1, <1>5, <3>1, <3>2 DEF Actives
  <2>2. ~Closing(calls'[Depth + 1])
    BY <1>2, <1>4 DEF Closing
  <2> QED BY <1>1, <2>1, <2>2 DEF Spares
<1> QED BY <1>1, <1>8, <1>9, <1>10, MovesStack

-----------------------------------------------------------------------------
(* The actions, and the stack invariant.                                     *)

(* Nobody waits above the top, nor for a top that is no resume.               *)
LEMMA NoResumer ==
  ASSUME TypeOK
  PROVE  /\ \A u : ~ResumerOf(Depth, u)
         /\ Depth > 0 /\ ~Resuming(Top) => \A u : ~ResumerOf(Depth - 1, u)
<1>1. Depth \in Nat
  BY TopFacts DEF TypeOK
<1> QED BY <1>1 DEF ResumerOf

LEMMA LeavingLeaves ==
  ASSUME NEW k, NEW t, NEW s
  PROVE  /\ status' = StatusLeaving(k, t, s) =>
              Leaves(k, t) /\ (t \in AllThreads => status'[t] = s)
         /\ status' = StatusAfterPop(k) => \A u : Leaves(k, u)
BY DEF StatusLeaving, StatusAfterPop, Leaves

LEMMA TouchingLeaves ==
  ASSUME TypeOK, NEW k, \A u : ~ResumerOf(k, u), NEW t
  PROVE  /\ UNCHANGED status => Leaves(k, t)
         /\ \A s : status' = [status EXCEPT ![t] = s] =>
              Leaves(k, t) /\ (t \in AllThreads => status'[t] = s)
BY DEF Leaves, TypeOK

LEMMA ResumeStack ==
  ASSUME TypeOK, TypeOK', ProtocolInv, Linked', StackInv, FitsInv,
         NEW t \in Threads, ResumeFirst(t) \/ ResumeAgain(t)
  PROVE  StackInv'
<1>1. CASE ResumeFirst(t) /\ EnterThread(t, IF entry[t] = "host" THEN "host" ELSE "resume")
  BY <1>1, EnterStack DEF ResumeFirst, Resumable, TypeOK
<1>2. CASE ResumeAgain(t)
  <2>1. frames[t]
    BY <1>2 DEF FitsInv, Fits, ResumeAgain, Resumable
  <2> QED BY <1>2, <2>1, EnterStack DEF ResumeAgain, Resumable
<1>3. CASE /\ ResumeFirst(t) /\ entry[t] = "protected"
           /\ calls' = Append(calls, [Activation("entry", current, FALSE) EXCEPT !.into = t])
           /\ UNCHANGED <<status, current>>
  <2>1. Linked /\ NoThread \notin AllThreads /\ NoThread \notin Threads
    BY ThreadsAssumption DEF ProtocolInv, AllThreads
  <2>2. /\ Pushed(Depth) /\ calls'[Depth + 1].kind = "entry"
        /\ calls'[Depth + 1].thread = calls'[Depth + 1].prev
    BY <1>3, <2>1, EntryIsPushed
  <2>3. UNCHANGED <<entry, lost>> /\ \A u \in Threads : frames[u] => frames'[u]
    BY <1>3 DEF ResumeFirst, TypeOK
  <2>4. Leaves(Depth, NoThread)
    BY <1>3, NoResumer, TouchingLeaves
  <2> QED BY <2>1, <2>2, <2>3, <2>4, AddStack
<1> QED BY <1>1, <1>2, <1>3 DEF ResumeFirst

(* A coroutine is entered after the host function it was given has come back.  *)
LEMMA EntryStack ==
  ASSUME TypeOK, TypeOK', ProtocolInv, Linked', StackInv, EntriesWait,
         EntryFails \/ EntryEnters \/ EntryWasClosed
  PROVE  StackInv'
<1>0. Depth > 0 /\ Top.kind = "entry"
  BY DEF EntryFails, EntryEnters, EntryWasClosed, Running
<1>1. /\ Linked /\ current = Top.thread /\ Depth \in Nat /\ Depth \in 1 .. Depth
      /\ Top \in Activations /\ Depth - 1 \in 0 .. Depth /\ Depth - 1 + 1 = Depth
      /\ Depth # Depth - 1
      /\ \A j \in Depth - 1 + 1 .. Depth : j = Depth
      /\ \A i \in 1 .. Depth - 1 : i \in 1 .. Depth
      /\ NoThread \notin AllThreads /\ NoThread \notin Threads
  BY <1>0, InsideFacts, ThreadsAssumption DEF AllThreads
<1>2. /\ Top.into \in Threads /\ Top.thread = Top.prev
      /\ Top.prev = IF Depth = 1 THEN NoThread ELSE calls[Depth - 1].thread
      /\ \A i \in 1 .. Depth : Runs(i) => calls[i].thread \in Threads
  BY <1>0, <1>1 DEF Linked, Runs, Resuming
<1>3. /\ status[Top.into] = IF frames[Top.into] THEN "suspended" ELSE "dead"
      /\ \A j \in 1 .. Depth : calls[j].thread # Top.into
  BY <1>0, <1>1 DEF EntriesWait, Waiting
<1>4. UNCHANGED <<entry, lost>> /\ lost \subseteq lost'
      /\ \A u \in Threads : entry[u] = "host" => entry'[u] = "host"
  BY DEF EntryFails, EntryEnters, EntryWasClosed
<1>5. CASE EntryFails
  <2>1. Popped(Depth)
    <3>1. calls' = [calls EXCEPT ![Depth] = [calls[Depth] EXCEPT !.err = TRUE]]
          /\ current' = calls[Depth].thread
      BY <1>1, <1>5 DEF EntryFails
    <3> QED BY <1>1, <3>1, HandlerFacts, FlagShape
  <2>2. Leaves(Depth, NoThread) /\ UNCHANGED frames
    BY <1>5, NoResumer, TouchingLeaves DEF EntryFails
  <2> QED BY <1>1, <1>2, <1>4, <2>1, <2>2, FlagStack
<1>6. ASSUME EntryWasClosed, NEW c, c = current, NEW k \in 0 .. Depth, k = Depth - 1
      PROVE  StackInv'
  <2>0. /\ k + 1 = Depth /\ (Depth # 1 => k \in 1 .. k)
        /\ (\A i \in 1 .. k : i \in 1 .. Depth) /\ \A j \in k + 1 .. Depth : j = Depth
    BY <1>0, <1>1, <1>6, UnderFacts, ZenonT(30)
  <2>1. Kept(k) /\ Len(calls') = k /\ Len(calls') # k + 1
    <3>1. Popped(k)
      BY <1>1, <1>6, PopToShape DEF EntryWasClosed
    <3>2. k # k + 1
      BY <1>1, <1>6
    <3> QED BY <3>1, <3>2 DEF Popped
  <2>2. Adds(k)
    BY <2>1 DEF Adds
  <2>3. \A u : ~ResumerOf(k, u)
    BY <1>0, <1>6, NoResumer DEF Resuming
  <2>4. Leaves(k, c) /\ (c \in AllThreads => status'[c] = "running")
    <3>1. status[Top.into] = "dead" /\ Top.into # c
      BY <1>1, <1>3, <1>6 DEF EntryWasClosed
    <3> QED BY <2>3, <3>1, <1>6 DEF EntryWasClosed, Leaves
  <2>5. c \in Threads => Within(c)'
    <3> SUFFICES ASSUME c \in Threads PROVE Within(c)'
      OBVIOUS
    <3>1. Depth # 1 /\ calls[k].thread = c
      BY <1>1, <1>2, <1>6
    <3>2. k \in 1 .. Len(calls')
      BY <2>0, <2>1, <3>1
    <3>3. calls'[k].thread = c
      BY <2>1, <3>1, <3>2 DEF Kept
    <3> QED BY <3>2, <3>3 DEF Within
  <2>6. UNCHANGED frames /\ Threads \subseteq AllThreads
    BY <1>6 DEF EntryWasClosed, AllThreads
  <2>7. \A u \in Threads, j \in k + 1 .. Depth :
          calls[j].thread = u /\ ~AsCaller(calls[j]) /\ u # c => u \in lost' \/ Within(u)'
    BY <1>0, <2>0
  <2>8. \A i \in 1 .. k : Runs(i) => frames[calls[i].thread] /\ calls[i].thread \in Threads
    BY <1>2, <2>0 DEF StackInv, Executed
  <2>9. calls[k + 1].kind # "closeself"
    BY <1>0, <2>0
  <2>10. \A i \in 1 .. k : Runs(i) /\ Runs(i)' /\ calls[i].thread = c
           => frames'[c] /\ status'[c] \in Actives
    BY <2>4, <2>6, <2>8 DEF Actives
  <2>11. /\ c \in AllThreads => status'[c] # "normal"
         /\ c \in Threads /\ status'[c] \in Actives => Within(c)'
         /\ \A u \in Threads : frames[u] /\ u # c => frames'[u]
    BY <2>4, <2>5, <2>6
  <2>12. \A i \in 1 .. k :
           Len(calls') = k + 1 /\ Closing(calls'[k + 1]) /\ Runs(i) /\ Runs(i)'
             => calls[i].thread # calls'[k + 1].thread
    BY <2>1
  <2> HIDE DEF Depth, Top
  <2> QED
    BY <1>1, <1>4, <2>1, <2>2, <2>4, <2>7, <2>9, <2>10, <2>11, <2>12, LeavesStack
<1>7. CASE EntryEnters
  <2>1. /\ calls' \in Seq(Activations) /\ Pushed(Depth - 1) /\ Kept(Depth - 1)
        /\ Len(calls') = Depth /\ Depth \in 1 .. Len(calls')
        /\ calls'[Depth].kind = "resume" /\ calls'[Depth].thread = Top.into
        /\ calls'[Depth].prev = current
    BY <1>1, <1>7, EntryEntersPushes DEF Pushed
  <2>2. /\ frames'[Top.into] /\ \A u \in Threads : frames[u] => frames'[u]
        /\ status'[Top.into] = "running"
        /\ \A u \in AllThreads : u # Top.into =>
             status'[u] = IF u = current THEN "normal" ELSE status[u]
    BY <1>2, <1>7 DEF EntryEnters, StatusEntering, TypeOK, AllThreads
  <2>3. (\A u : u = Top.into => Within(u)') /\ \A u : u = current => Awaits(u)'
    BY <2>1 DEF Within, Awaits, Resuming
  <2>4. Moves(Depth - 1)
    <3>1. \A u \in AllThreads : status'[u] = "normal" =>
            Awaits(u)' \/ (status[u] = "normal" /\ ~ResumerOf(Depth - 1, u))
      <4>1. \A u : ~ResumerOf(Depth - 1, u)
        BY <1>0, NoResumer DEF Resuming
      <4> QED BY <2>2, <2>3, <4>1
    <3>2. \A u \in Threads : status'[u] \in Actives =>
            status[u] \in Actives \/ Within(u) \/ Within(u)'
      <4>1. \A u : u = current => Within(u)
        BY <1>1 DEF Within
      <4>2. Threads \subseteq AllThreads
        BY DEF AllThreads
      <4> QED BY <2>2, <2>3, <4>1, <4>2
    <3>3. \A u \in Threads, j \in Depth - 1 + 1 .. Depth :
            ~(calls[j].thread = u /\ ~AsCaller(calls[j]) /\ status'[u] \in Actives)
      BY <1>0, <1>1
    <3> QED BY <1>1, <1>4, <2>1, <3>1, <3>2, <3>3 DEF Moves
  <2>5. Adds(Depth - 1)
    BY <1>1, <2>1, <2>2 DEF Adds, Pushed, Actives
  <2>6. Spares(Depth - 1)
    <3>1. ASSUME NEW u \in Threads, NEW i \in 1 .. Depth - 1, calls[i].thread = u, Runs(i)
          PROVE  frames'[u] /\ status'[u] \in Actives
      <4>1. frames[u] /\ status[u] \in Actives /\ u # Top.into /\ u \in AllThreads
        BY <1>1, <1>3, <3>1 DEF StackInv, Executed, AllThreads
      <4> QED BY <2>2, <4>1 DEF Actives
    <3>2. ~Closing(calls'[Depth - 1 + 1]) /\ calls[Depth - 1 + 1].kind # "closeself"
      BY <1>0, <1>1, <2>1 DEF Closing
    <3> QED BY <1>4, <3>1, <3>2 DEF Spares
  <2> QED BY <1>1, <2>4, <2>5, <2>6, MovesStack
<1> QED BY <1>1, <1>5, <1>6, <1>7

LEMMA YieldStack ==
  ASSUME TypeOK, TypeOK', ProtocolInv, Linked', StackInv, HandlersYield = FALSE, Yield
  PROVE  StackInv'
<1>1. /\ Linked /\ Depth > 0 /\ current = Top.thread
      /\ Depth \in Nat /\ Depth \in 1 .. Depth /\ UNCHANGED <<entry, lost, frames>>
  BY TopFacts DEF TypeOK, ProtocolInv, Linked, Yield, Running
<1>5. PICK k \in 1 .. Depth : Innermost(k, Receivers) /\ YieldReaches(k)
  BY DEF Yield
<1>6. /\ current = calls[k].thread /\ \A j \in k + 1 .. Depth : calls[j].kind = "entry"
      /\ \A u \in Threads : frames[u] => frames'[u]
  BY <1>1, <1>5, PassesEntries
<1>2. CASE /\ calls[k].kind \in {"resume", "host"}
           /\ \E r \in {"suspended", "dead"} : status' = StatusLeaving(k - 1, current, r)
           /\ PopTo(k - 1)
  <2>1. current \in AllThreads
    BY <1>1, <1>2, <1>6 DEF Linked, Resuming, AllThreads
  <2>2. Leaves(k - 1, current) /\ status'[current] \in {"suspended", "dead"}
    BY <1>2, <2>1, LeavingLeaves
  <2> QED BY <1>1, <1>2, <1>6, <2>2, DropStack
<1>3. CASE calls[k].kind = "sync" /\ PopTo(k - 1) /\ UNCHANGED status
  <2>1. \A u : ~ResumerOf(k - 1, u)
    <3>1. \A j \in k - 1 + 1 .. Depth : j = k \/ j \in k + 1 .. Depth
      BY <1>1
    <3>2. \A j \in k - 1 + 1 .. Depth : ~Resuming(calls[j])
      BY <1>3, <1>6, <3>1 DEF Resuming
    <3> QED BY <3>2 DEF ResumerOf
  <2>2. Leaves(k - 1, NoThread)
    BY <1>3, <2>1, TouchingLeaves
  <2> QED BY <1>1, <1>3, <1>6, <2>2, DropStack
<1>4. CASE UNCHANGED <<status, calls, current>>
  <2>1. Popped(Depth) /\ Leaves(Depth, NoThread)
    BY <1>1, <1>4, NoResumer, TouchingLeaves DEF Popped, Kept
  <2>2. NoThread \notin AllThreads /\ \A i \in 1 .. Depth : Runs(i) => calls[i].thread # NoThread
    BY <1>1, ThreadsAssumption DEF AllThreads, Linked, Runs, Resuming
  <2> QED BY <1>1, <2>1, <2>2, FlagStack
<1> QED BY <1>2, <1>3, <1>4, <1>5 DEF YieldReaches

LEMMA BodyEndsStack ==
  ASSUME TypeOK, TypeOK', ProtocolInv, Linked', StackInv,
         BodyReturns \/ BodyFails \/ \E failed \in BOOLEAN : HostEnds(failed)
  PROVE  StackInv'
<1>1. /\ Linked /\ Depth > 0 /\ current = Top.thread /\ Top.kind \in {"resume", "host"}
      /\ Depth \in Nat /\ Depth \in 1 .. Depth /\ Depth - 1 \in 0 .. Depth
      /\ Depth - 1 + 1 = Depth
      /\ \A i \in 1 .. Depth - 1 : i \in 1 .. Depth /\ i # Depth
      /\ \A j \in Depth - 1 + 1 .. Depth : j = Depth
  BY TopFacts DEF TypeOK, ProtocolInv, Linked, BodyReturns, BodyFails, HostEnds, Body, Running
<1>2. current \in Threads /\ current \in AllThreads
  BY <1>1 DEF Linked, Resuming, AllThreads
<1>3. \A u \in Threads : u # current /\ frames[u] => frames'[u]
  BY DEF BodyReturns, BodyFails, HostEnds, TypeOK
<1>4. UNCHANGED <<entry, lost>>
  BY DEF BodyReturns, BodyFails, HostEnds
<1>5. CASE status' = StatusLeaving(Depth - 1, current, "dead") /\ PopTo(Depth - 1)
  <2>1. Leaves(Depth - 1, current) /\ status'[current] = "dead"
    BY <1>2, <1>5, LeavingLeaves
  <2> QED BY <1>1, <1>3, <1>4, <1>5, <2>1, PopStack
<1>6. CASE BodyFails /\ wrapped[current]
  <2>1. Leaves(Depth - 1, current) /\ status'[current] = "running"
    BY <1>2, <1>6, LeavingLeaves DEF BodyFails
  <2>2. /\ calls' \in Seq(Activations) /\ Pushed(Depth - 1)
        /\ calls'[Depth].kind = "close" /\ calls'[Depth].thread = current
    BY <1>1, <1>6, BodyFailsPushes
  <2>3. Kept(Depth - 1) /\ Len(calls') = Depth /\ Top.kind = "resume"
    BY <1>1, <1>6, <2>2 DEF Pushed, BodyFails, Body
  <2>4. \A i \in 1 .. Depth - 1 : Runs(i) => calls[i].thread # current
    BY <1>1, TopNotRun DEF Resuming
  <2>5. Adds(Depth - 1)
    BY <1>1, <2>2 DEF Adds, Pushed
  <2>6. \A u : u = current => Within(u)'
    BY <1>1, <2>2, <2>3 DEF Within
  <2>7. calls[Depth - 1 + 1].kind # "closeself"
    BY <1>1, <2>3
  <2>8. \A u \in Threads, j \in Depth - 1 + 1 .. Depth :
          calls[j].thread = u /\ ~AsCaller(calls[j]) /\ u # current => u \in lost' \/ Within(u)'
    BY <1>1
  <2>9. lost \subseteq lost' /\ \A u \in Threads : entry[u] = "host" => entry'[u] = "host"
    BY <1>4
  <2>10. calls'[Depth - 1 + 1].thread = current /\ Len(calls') = Depth - 1 + 1
    BY <1>1, <2>2, <2>3
  <2> QED
    BY ZenonT(60), <1>1, <1>2, <1>3, <2>1, <2>2, <2>3, <2>4, <2>5, <2>6, <2>7, <2>8, <2>9, <2>10, LeavesStack
<1> QED BY <1>5, <1>6 DEF BodyReturns, BodyFails, HostEnds

LEMMA CloseOtherStack ==
  ASSUME TypeOK, TypeOK', ProtocolInv, Linked', StackInv, NEW t \in Threads, CloseOther(t)
  PROVE  StackInv'
<1>1. /\ Linked /\ Depth \in Nat /\ Depth \in 0 .. Depth /\ status[t] \notin Actives
      /\ t \in AllThreads
  BY TopFacts DEF TypeOK, ProtocolInv, CloseOther, Actives, AllThreads
<1>2. \A i \in 1 .. Depth : Runs(i) => calls[i].thread # t
  BY <1>1 DEF StackInv, Executed
<1>3. UNCHANGED <<entry, lost, frames>>
  BY DEF CloseOther
<1>4. CASE frames[t]
  <2> DEFINE a == Activation("close", t, err[t])
  <2>1. "close" \in Kinds /\ t \in AllThreads \cup {NoThread} /\ err[t] \in BOOLEAN
    BY DEF Kinds, AllThreads, TypeOK
  <2>2. /\ a \in Activations /\ a.kind = "close" /\ a.thread = t
        /\ a.prev = IF Depth = 0 THEN NoThread ELSE calls[Depth].thread
    BY <1>1, <2>1, ActivationFacts
  <2>3. calls' = Append(calls, a) /\ current' = t /\ status' = [status EXCEPT ![t] = "running"]
    BY <1>4 DEF CloseOther
  <2> HIDE DEF a
  <2>4. Pushed(Depth) /\ calls'[Depth + 1] = a
    BY <1>1, <2>2, <2>3, PushShape
  <2>5. Leaves(Depth, t) /\ status'[t] = "running"
    BY <1>1, <2>3, NoResumer, TouchingLeaves
  <2> QED BY <1>1, <1>3, <2>2, <2>4, <2>5, AddStack
<1>5. CASE ~frames[t]
  <2>1. Popped(Depth)
    BY <1>1, <1>5 DEF CloseOther, Popped, Kept
  <2>2. Leaves(Depth, t) /\ status'[t] = "dead"
    BY <1>1, <1>5, NoResumer, TouchingLeaves DEF CloseOther
  <2> QED BY <1>1, <1>2, <1>3, <2>1, <2>2, FlagStack DEF Actives
<1> QED BY <1>4, <1>5

(* The loop of a force-close.                                                *)
LEMMA HandlerStack ==
  ASSUME TypeOK, TypeOK', ProtocolInv, Linked', StackInv,
         RunHandler \/ HandlerReturns \/ \E inLua \in BOOLEAN : HandlerFails(inLua)
  PROVE  StackInv'
<1>0. Depth > 0 /\ Closing(Top)
  BY DEF RunHandler, HandlerReturns, HandlerFails, Running
<1>1. /\ Linked /\ Depth > 0 /\ current = Top.thread /\ Closing(Top)
      /\ Depth \in Nat /\ Depth \in 1 .. Depth /\ Top \in Activations
  BY <1>0, InsideFacts
<1>2. current \in Threads /\ current \in AllThreads /\ NoThread \notin AllThreads
  BY <1>1, ThreadsAssumption DEF Linked, AllThreads
<1>3. UNCHANGED <<entry, lost, frames, current>>
  BY DEF RunHandler, HandlerReturns, HandlerFails
<1>4. Popped(Depth)
  <2>1. \/ calls' = [calls EXCEPT ![Depth] = [Top EXCEPT !.busy = TRUE]]
        \/ \E e \in BOOLEAN : calls' = [calls EXCEPT ![Depth] = HandlerEnded(Top, e)]
    BY DEF RunHandler, HandlerReturns, HandlerFails
  <2> QED BY <1>1, <1>3, <2>1, HandlerFacts, FlagShape
<1>5. \A i \in 1 .. Depth : Runs(i) => calls[i].thread # NoThread /\ calls[i].thread # current
  <2>1. \A i \in 1 .. Depth : Runs(i) => calls[i].thread # NoThread
    BY <1>1, ThreadsAssumption DEF Linked, Runs, Resuming
  <2>2. ~Runs(Depth)
    BY <1>1 DEF Runs, Closing
  <2> QED BY <1>1, <2>1, <2>2, TopNotRun
<1>6. CASE UNCHANGED status
  <2>1. Leaves(Depth, NoThread)
    BY <1>6, NoResumer, TouchingLeaves
  <2> QED BY <1>1, <1>2, <1>3, <1>4, <1>5, <2>1, FlagStack
<1>7. CASE status' = [status EXCEPT ![current] = "dead"]
  <2>1. Leaves(Depth, current) /\ status'[current] = "dead"
    BY <1>2, <1>7, NoResumer, TouchingLeaves
  <2> QED BY <1>1, <1>2, <1>3, <1>4, <1>5, <2>1, FlagStack DEF Actives
<1>8. UNCHANGED status \/ status' = [status EXCEPT ![current] = "dead"]
  <2>1. \A inLua \in BOOLEAN :
          status' = [status EXCEPT ![current] = IF inLua THEN "dead" ELSE @] =>
            UNCHANGED status \/ status' = [status EXCEPT ![current] = "dead"]
    BY DEF TypeOK
  <2> QED BY <2>1 DEF RunHandler, HandlerReturns, HandlerFails
<1> QED BY <1>6, <1>7, <1>8

LEMMA FinishCloseStack ==
  ASSUME TypeOK, TypeOK', ProtocolInv, Linked', StackInv, FinishClose
  PROVE  StackInv'
<1>1. /\ Linked /\ Depth > 0 /\ current = Top.thread /\ Top.kind = "close"
      /\ Depth \in Nat /\ Depth \in 1 .. Depth
  BY InsideFacts DEF FinishClose, Closed
<1>2. current \in AllThreads
  BY <1>1 DEF Linked, Closing, AllThreads
<1>3. Leaves(Depth - 1, current) /\ status'[current] = "dead"
  BY <1>1, <1>2, NoResumer, TouchingLeaves DEF FinishClose, Resuming
<1>4. \A u \in Threads : frames[u] /\ u # current => frames'[u]
  BY DEF FinishClose, TypeOK
<1> QED BY <1>1, <1>3, <1>4, PopStack DEF FinishClose

(* Both an escape and a self-close drop activations that they record as lost. *)
LEMMA DroppedIsLost ==
  ASSUME TypeOK, Linked, StackInv, NEW k \in 0 .. Depth, lost' = lost \cup Torn(k),
         \A j \in k + 1 .. Depth : ~Closing(calls[j])
  PROVE  \A u \in Threads, j \in k + 1 .. Depth :
           calls[j].thread = u /\ ~AsCaller(calls[j]) => u \in lost'
<1> SUFFICES ASSUME NEW u \in Threads, NEW j \in k + 1 .. Depth,
                    calls[j].thread = u, ~AsCaller(calls[j])
             PROVE  u \in lost'
  OBVIOUS
<1>1. j \in 1 .. Depth /\ calls[j] \in Activations
  BY TopFacts DEF TypeOK
<1>2. calls[j].kind # "run"
  BY <1>1, ThreadsAssumption DEF StackInv, KindsFit
<1>3. Resuming(calls[j])
  BY <1>1, <1>2 DEF Activations, Kinds, Closing, Resuming
<1> QED BY <1>3 DEF Torn

(* Everything is torn down.                                                  *)
LEMMA EmptyStack ==
  ASSUME TypeOK, TypeOK', Linked, Linked', StackInv, UNCHANGED <<entry, frames>>,
         PopTo(0), status' = StatusAfterPop(0), lost' = lost \cup Torn(0),
         \A j \in 1 .. Depth : ~Closing(calls[j])
  PROVE  StackInv'
<1>1. Depth \in Nat /\ 0 \in 0 .. Depth /\ NoThread \notin AllThreads /\ NoThread \notin Threads
  BY TopFacts, ThreadsAssumption DEF TypeOK, AllThreads
<1>2. Kept(0) /\ Len(calls') = 0
  BY <1>1, PopToShape DEF Popped
<1>3. Leaves(0, NoThread)
  BY LeavingLeaves
<1>4. Adds(0)
  BY <1>2 DEF Adds
<1>5. \A u \in Threads, j \in 0 + 1 .. Depth :
        calls[j].thread = u /\ ~AsCaller(calls[j]) => u \in lost'
  BY <1>1, DroppedIsLost
<1>6. lost \subseteq lost' /\ \A u \in Threads : entry[u] = "host" => entry'[u] = "host"
  OBVIOUS
<1> QED BY <1>1, <1>2, <1>3, <1>4, <1>5, <1>6, LeavesStack

LEMMA CloseSelfStack ==
  ASSUME TypeOK, TypeOK', ProtocolInv, Linked', StackInv, CloseSelf
  PROVE  StackInv'
<1>1. Linked /\ Depth \in Nat /\ Threads \subseteq AllThreads /\ UNCHANGED <<entry, frames>>
  BY TopFacts DEF TypeOK, ProtocolInv, AllThreads, CloseSelf
<1>2. CASE Executing = {}
  <2>1. \A j \in 1 .. Depth : ~Closing(calls[j])
    BY <1>2 DEF Executing, Closing
  <2> QED BY <1>1, <1>2, <2>1, EmptyStack DEF CloseSelf
<1>3. CASE Executing # {}
  <2>1. PICK e \in 1 .. Depth : SelfCloses(e)
    BY <1>3 DEF CloseSelf, SelfCloses
  <2>2. /\ calls' \in Seq(Activations) /\ Pushed(e) /\ e \in 0 .. Depth /\ e \in Nat
        /\ calls'[e + 1].kind = "closeself" /\ calls'[e + 1].thread = calls[e].thread
        /\ calls[e].thread \in Threads
        /\ calls[e].kind \in {"resume", "close", "closeself"}
    BY <1>1, <2>1, CloseSelfPushes
  <2>3. \A j \in e + 1 .. Depth : calls[j].kind \notin {"resume", "close", "closeself"}
    BY <1>1, <2>1 DEF SelfCloses, Innermost, Executing
  <2> DEFINE t == calls[e].thread
  <2>4. Leaves(e, t) /\ status'[t] = "running"
    BY <1>1, <2>1, <2>2, LeavingLeaves DEF SelfCloses
  <2>5. Kept(e) /\ Len(calls') = e + 1 /\ e + 1 \in 1 .. Len(calls')
    BY <2>2 DEF Pushed
  <2>6. Adds(e)
    BY <2>2 DEF Adds, Pushed
  <2>7. \A u : u = t => Within(u)'
    BY <2>2, <2>5 DEF Within
  <2>8. \A u \in Threads, j \in e + 1 .. Depth :
          calls[j].thread = u /\ ~AsCaller(calls[j]) => u \in lost'
    BY <1>1, <2>1, <2>2, <2>3, DroppedIsLost DEF SelfCloses, Closing
  <2>9. \A i \in 1 .. e : Runs(i) /\ Runs(i)' => calls[i].thread # t
    <3> SUFFICES ASSUME NEW i \in 1 .. e, Runs(i), Runs(i)', calls[i].thread = t
                 PROVE  FALSE
      OBVIOUS
    <3>1. i # e
      BY <2>2, <2>5 DEF Runs, SelfClosed
    <3>2. i \in 1 .. Depth /\ e \in i + 1 .. Depth /\ i < e
      BY <1>1, <2>2, <3>1
    <3>3. Resuming(calls[e]) \/ Closing(calls[e])
      BY <2>2 DEF Resuming, Closing
    <3> QED BY <3>2, <3>3 DEF ProtocolInv, NoReentry, StackInv, Executed
  <2>10. e < Depth => calls[e + 1].kind # "closeself"
    BY <1>1, <2>2, <2>3
  <2>11. lost \subseteq lost' /\ \A u \in Threads : entry[u] = "host" => entry'[u] = "host"
    BY <1>1, <2>1 DEF SelfCloses
  <2> HIDE DEF t
  <2> QED
    BY <1>1, <2>2, <2>4, <2>5, <2>6, <2>7, <2>8, <2>9, <2>10, <2>11, LeavesStack DEF t
<1> QED BY <1>2, <1>3

(* The two activations on top.                                               *)
LEMMA TwoFacts ==
  ASSUME NEW n \in Nat, n > 1
  PROVE  /\ n - 2 # n - 2 + 1 /\ n - 1 # n - 1 + 1 /\ n - 2 + 1 = n - 1
         /\ \A j \in n - 2 + 1 .. n : j = n - 1 \/ j = n
         /\ \A j \in n - 1 + 1 .. n : j = n
         /\ \A i \in 1 .. n - 2 : i \in 1 .. n - 1
  OBVIOUS

LEMMA FinishCloseSelfStack ==
  ASSUME TypeOK, TypeOK', ProtocolInv, Linked', StackInv, FinishCloseSelf
  PROVE  StackInv'
<1>0. Depth > 0 /\ Top.kind = "closeself"
  BY DEF FinishCloseSelf, Closed
<1>1. /\ Linked /\ current = Top.thread /\ Depth \in Nat /\ Depth \in 1 .. Depth
      /\ Depth > 1 /\ Depth - 1 \in 1 .. Depth /\ Depth - 1 \in 0 .. Depth
      /\ Depth - 2 \in 0 .. Depth /\ Depth - 1 + 1 = Depth /\ Depth - 2 + 1 = Depth - 1
      /\ calls[Depth - 1].thread = current
      /\ calls[Depth - 1].kind \in {"resume", "close", "closeself"}
  BY <1>0, InsideFacts DEF Linked
<1>2. current \in AllThreads /\ UNCHANGED <<entry, lost>> /\ lost \subseteq lost'
      /\ \A u \in Threads : entry[u] = "host" => entry'[u] = "host"
  BY <1>0, <1>1 DEF Linked, Closing, AllThreads, FinishCloseSelf
<1>3. \A i \in 1 .. Depth - 1 : Runs(i) => calls[i].thread # current
  BY <1>0, <1>1, BelowFacts, TopNotRun DEF Closing
<1>4. \A u \in Threads : frames[u] /\ u # current => frames'[u]
  BY DEF FinishCloseSelf, TypeOK
<1>5. CASE calls[Depth - 1].kind = "resume"
  <2>1. PopTo(Depth - 2) /\ status' = StatusLeaving(Depth - 2, current, "dead")
    BY <1>5 DEF FinishCloseSelf
  <2>2. Leaves(Depth - 2, current) /\ status'[current] = "dead"
    BY <1>2, <2>1, LeavingLeaves
  <2>3. Kept(Depth - 2) /\ Len(calls') = Depth - 2 /\ Len(calls') # Depth - 2 + 1
    <3>1. Popped(Depth - 2)
      BY <1>1, <2>1, PopToShape
    <3>2. Depth - 2 # Depth - 2 + 1
      BY <1>1, TwoFacts
    <3> QED BY <3>1, <3>2 DEF Popped
  <2>4. Adds(Depth - 2)
    BY <2>3 DEF Adds
  <2>5. \A j \in Depth - 2 + 1 .. Depth : calls[j].thread = current
    <3>1. \A j \in Depth - 2 + 1 .. Depth : j = Depth - 1 \/ j = Depth
      BY <1>1, TwoFacts
    <3> QED BY <1>1, <3>1
  <2>6. \A i \in 1 .. Depth - 2 : Runs(i) => calls[i].thread # current
    BY <1>1, <1>3, TwoFacts
  <2>7. calls[Depth - 2 + 1].kind # "closeself"
    BY <1>1, <1>5
  <2>8. \A u \in Threads, j \in Depth - 2 + 1 .. Depth :
          calls[j].thread = u /\ ~AsCaller(calls[j]) /\ u # current => u \in lost' \/ Within(u)'
    BY <2>5
  <2>9. status'[current] # "normal" /\ status'[current] \notin Actives
    BY <2>2 DEF Actives
  <2>10. Linked /\ Depth - 2 \in 0 .. Depth
    BY <1>1
  <2> QED
    BY <1>2, <1>4, <2>2, <2>3, <2>4, <2>6, <2>7, <2>8, <2>9, <2>10, LeavesStack
<1>6. CASE calls[Depth - 1].kind # "resume"
  <2>1. status' = [status EXCEPT ![current] = "dead"]
        /\ calls' = [SubSeq(calls, 1, Depth - 1) EXCEPT
                       ![Depth - 1] = HandlerEnded(@, Top.err)]
        /\ current' = calls[Depth - 1].thread
    BY <1>1, <1>6 DEF FinishCloseSelf
  <2>2. Leaves(Depth - 1, current) /\ status'[current] = "dead"
    BY <1>0, <1>1, <1>2, <2>1, NoResumer, TouchingLeaves DEF Resuming
  <2>3. Popped(Depth - 1)
    <3>1. calls[Depth - 1] \in Activations /\ Top.err \in BOOLEAN
      BY <1>1, TopFacts DEF TypeOK, Activations
    <3>2. SubSeq(calls, 1, Depth - 1)[Depth - 1] = calls[Depth - 1]
      BY <1>1, PopFacts DEF TypeOK
    <3>3. calls' = [SubSeq(calls, 1, Depth - 1) EXCEPT
                      ![Depth - 1] = HandlerEnded(calls[Depth - 1], Top.err)]
      BY <2>1, <3>2
    <3> QED BY <1>1, <2>1, <3>1, <3>3, HandlerFacts, FlagShape, ZenonT(40)
  <2>4. Kept(Depth - 1) /\ Len(calls') = Depth - 1 /\ Len(calls') # Depth - 1 + 1
    <3>1. Depth - 1 # Depth - 1 + 1
      BY <1>1, TwoFacts
    <3> QED BY <2>3, <3>1 DEF Popped
  <2>5. Adds(Depth - 1)
    BY <2>4 DEF Adds
  <2>6. \A u \in Threads, j \in Depth - 1 + 1 .. Depth :
          calls[j].thread = u /\ ~AsCaller(calls[j]) /\ u # current => u \in lost' \/ Within(u)'
    BY <1>1, TwoFacts
  <2>7. status'[current] # "normal" /\ status'[current] \notin Actives
    BY <2>2 DEF Actives
  <2>8. Linked /\ Depth - 1 \in 0 .. Depth
    BY <1>1
  <2> QED
    BY <1>2, <1>3, <1>4, <1>6, <2>2, <2>4, <2>5, <2>6, <2>7, <2>8, LeavesStack
<1> QED BY <1>5, <1>6

LEMMA BoundaryStack ==
  ASSUME TypeOK, TypeOK', ProtocolInv, Linked', StackInv, EnterSync \/ EnterRun \/ LeaveBoundary
  PROVE  StackInv'
<1>0. UNCHANGED <<entry, lost, frames>>
  BY DEF EnterSync, EnterRun, LeaveBoundary
<1>1. /\ Linked /\ Depth \in Nat /\ Depth \in 0 .. Depth
      /\ NoThread \notin AllThreads /\ NoThread \notin Threads
      /\ Main \in AllThreads /\ Main \notin Threads
      /\ "sync" \in Kinds /\ "run" \in Kinds /\ FALSE \in BOOLEAN
      /\ current \in AllThreads \cup {NoThread} /\ Main \in AllThreads \cup {NoThread}
  BY TopFacts, ThreadsAssumption DEF TypeOK, ProtocolInv, AllThreads, Kinds
<1>2. CASE EnterSync
  <2> DEFINE a == Activation("sync", current, FALSE)
  <2>1. /\ a \in Activations /\ a.kind = "sync" /\ a.thread = current /\ a.thread = a.prev
        /\ a.prev = IF Depth = 0 THEN NoThread ELSE calls[Depth].thread
    <3>1. current = IF Depth = 0 THEN NoThread ELSE calls[Depth].thread
      BY <1>1 DEF Linked
    <3>2. /\ a \in Activations /\ a.kind = "sync" /\ a.thread = current
          /\ a.prev = IF Depth = 0 THEN NoThread ELSE calls[Depth].thread
      BY ZenonT(60), <1>1, ActivationFacts
    <3> QED BY <3>1, <3>2
  <2>2. calls' = Append(calls, a) /\ current' = current /\ UNCHANGED status
    BY <1>2 DEF EnterSync
  <2> HIDE DEF a
  <2>3. Pushed(Depth) /\ calls'[Depth + 1] = a
    BY <1>1, <2>1, <2>2, PushShape
  <2>4. Leaves(Depth, NoThread)
    BY <2>2, NoResumer, TouchingLeaves
  <2> QED BY <1>0, <1>1, <2>1, <2>3, <2>4, AddStack
<1>3. CASE EnterRun
  <2> DEFINE a == Activation("run", Main, FALSE)
  <2>1. /\ a \in Activations /\ a.kind = "run" /\ a.thread = Main
        /\ a.prev = IF Depth = 0 THEN NoThread ELSE calls[Depth].thread
    BY ZenonT(60), <1>1, ActivationFacts
  <2>2. calls' = Append(calls, a) /\ current' = Main /\ status' = [status EXCEPT ![Main] = "running"]
    BY <1>3 DEF EnterRun
  <2> HIDE DEF a
  <2>3. Pushed(Depth) /\ calls'[Depth + 1] = a
    BY <1>1, <2>1, <2>2, PushShape
  <2>4. Leaves(Depth, Main) /\ status'[Main] = "running"
    BY <1>1, <2>2, NoResumer, TouchingLeaves
  <2> QED BY <1>0, <1>1, <2>1, <2>3, <2>4, AddStack
<1>4. CASE LeaveBoundary
  <2>1. Depth > 0 /\ Top.kind \in {"run", "sync"} /\ PopTo(Depth - 1) /\ UNCHANGED status
    BY <1>4 DEF LeaveBoundary, Body, Running
  <2>2. Leaves(Depth - 1, NoThread)
    BY <2>1, NoResumer, TouchingLeaves DEF Resuming
  <2> QED BY <1>0, <1>1, <2>1, <2>2, PopStack
<1> QED BY <1>2, <1>3, <1>4

(* A LuaQuotaError unwinds to the innermost force-close or host entry.       *)
LEMMA QuotaStack ==
  ASSUME TypeOK, TypeOK', ProtocolInv, Linked', StackInv, QuotaExceeded
  PROVE  StackInv'
<1>0. UNCHANGED <<entry, frames>>
  BY DEF QuotaExceeded
<1>1. /\ Linked /\ Depth \in Nat /\ Threads \subseteq AllThreads
      /\ NoThread \notin AllThreads /\ NoThread \notin Threads
  BY TopFacts, ThreadsAssumption DEF TypeOK, ProtocolInv, AllThreads
<1>2. CASE Catching = {}
  <2>1. \A j \in 1 .. Depth : ~Closing(calls[j])
    BY <1>2 DEF Catching, Closing
  <2> QED BY <1>0, <1>1, <1>2, <2>1, EmptyStack DEF QuotaExceeded
<1>3. CASE Catching # {}
  <2>1. PICK q \in 1 .. Depth :
          LET t == calls[q].thread IN
          /\ Innermost(q, Catching)
          /\ lost' = lost \cup Torn(q)
          /\ IF calls[q].kind = "host"
             THEN PopTo(q - 1) /\ status' = StatusLeaving(q - 1, t, "dead")
             ELSE /\ calls' = [SubSeq(calls, 1, q) EXCEPT ![q] = HandlerEnded(@, TRUE)]
                  /\ current' = t
                  /\ status' = StatusAfterPop(q)
    BY <1>3 DEF QuotaExceeded
  <2>2. /\ q \in Nat /\ q \in 0 .. Depth /\ q - 1 \in 0 .. Depth /\ q - 1 + 1 = q
        /\ q - 1 # q - 1 + 1 /\ q # q + 1
        /\ \A i \in 1 .. q - 1 : i \in 1 .. q /\ i # q
        /\ \A i \in 1 .. q : i \in 1 .. Depth /\ (i # q => i < q /\ q \in i + 1 .. Depth)
        /\ \A j \in q - 1 + 1 .. Depth : j = q \/ j \in q + 1 .. Depth
        /\ \A j \in q + 1 .. Depth : j \in 1 .. Depth /\ ~(j <= q)
    BY <1>1
  <2>3. /\ calls[q].kind \in {"close", "closeself", "host", "entry"}
        /\ calls[q].kind # "entry" => calls[q].thread \in Threads
        /\ \A j \in q + 1 .. Depth : calls[j].kind \notin {"close", "closeself", "host"}
    BY <1>1, <2>1, <2>2 DEF Innermost, Catching, Linked, Resuming, Closing
  <2>4. \A u \in Threads, j \in q + 1 .. Depth :
          calls[j].thread = u /\ ~AsCaller(calls[j]) => u \in lost'
    <3>1. \A j \in q + 1 .. Depth : ~Closing(calls[j])
      BY <2>3 DEF Closing
    <3> QED BY <1>1, <2>1, <2>2, <3>1, DroppedIsLost
  <2>5. lost \subseteq lost' /\ \A u \in Threads : entry[u] = "host" => entry'[u] = "host"
    BY <1>0, <2>1
  <2> DEFINE t == calls[q].thread
  <2>6. calls[q].kind = "host" => \A i \in 1 .. q - 1 : Runs(i) => calls[i].thread # t
    BY NotRunBelow DEF Resuming
  <2>7. CASE calls[q].kind = "host"
    <3>1. PopTo(q - 1) /\ status' = StatusLeaving(q - 1, t, "dead")
      BY <2>1, <2>7
    <3>9. t \in AllThreads
      BY <1>1, <2>3, <2>7
    <3>2. Leaves(q - 1, t) /\ status'[t] = "dead"
      BY <3>1, <3>9, LeavingLeaves
    <3>3. Kept(q - 1) /\ Len(calls') = q - 1 /\ Len(calls') # q - 1 + 1
      <4>1. Popped(q - 1)
        BY <1>1, <2>2, <3>1, PopToShape
      <4> QED BY <2>2, <4>1 DEF Popped
    <3>4. Adds(q - 1)
      BY <3>3 DEF Adds
    <3>5. \A u \in Threads, j \in q - 1 + 1 .. Depth :
            calls[j].thread = u /\ ~AsCaller(calls[j]) /\ u # t => u \in lost' \/ Within(u)'
      BY <2>2, <2>4
    <3>6. status'[t] # "normal" /\ status'[t] \notin Actives
      BY <3>2 DEF Actives
    <3>7. calls[q - 1 + 1].kind # "closeself" /\ q - 1 \in 0 .. Depth
      BY <2>2, <2>7
    <3>8. \A i \in 1 .. q - 1 : Runs(i) => calls[i].thread # t
      BY <2>6, <2>7
    <3> HIDE DEF t
    <3> QED BY <1>0, <1>1, <2>5, <3>2, <3>3, <3>4, <3>5, <3>6, <3>7, <3>8, LeavesStack
  <2>8. CASE calls[q].kind # "host"
    <3>1. /\ calls' = [SubSeq(calls, 1, q) EXCEPT ![q] = HandlerEnded(@, TRUE)]
          /\ current' = calls[q].thread /\ status' = StatusAfterPop(q)
      BY <2>1, <2>8
    <3>2. Leaves(q, NoThread)
      BY <3>1, LeavingLeaves
    <3>3. Kept(q) /\ Len(calls') = q /\ Len(calls') # q + 1
      <4>1. calls[q] \in Activations /\ SubSeq(calls, 1, q)[q] = calls[q]
        BY <1>1, <2>2, TopFacts, PopFacts DEF TypeOK
      <4>2. calls' = [SubSeq(calls, 1, q) EXCEPT ![q] = HandlerEnded(calls[q], TRUE)]
        BY <3>1, <4>1
      <4>3. Popped(q)
        BY <1>1, <3>1, <4>1, <4>2, HandlerFacts, FlagShape
      <4> QED BY <2>2, <4>3 DEF Popped
    <3>4. Adds(q)
      BY <3>3 DEF Adds
    <3>5. \A i \in 1 .. q : Runs(i) => calls[i].thread # NoThread
      BY <1>1, <2>2 DEF Linked, Runs, Resuming
    <3>6. calls[q].kind = "resume" => calls[q + 1].kind # "closeself"
      BY <2>3
    <3> HIDE DEF t
    <3> QED BY <1>0, <1>1, <2>2, <2>4, <2>5, <3>2, <3>3, <3>4, <3>5, <3>6, LeavesStack
  <2> QED BY <2>7, <2>8
<1> QED BY <1>2, <1>3

LEMMA NextStack ==
  ASSUME TypeOK, TypeOK', ProtocolInv, Linked', StackInv, FitsInv,
         EntriesWait, HandlersYield = FALSE, [Next]_vars
  PROVE  StackInv'
<1>1. Linked
  BY DEF ProtocolInv
<1>2. CASE OpenTbc \/ CloseTbc \/ UNCHANGED vars
  BY <1>1, <1>2, SameStack DEF OpenTbc, CloseTbc, vars
<1>3. ASSUME NEW t \in Threads, NEW k \in EntryKinds, NEW w \in BOOLEAN, Create(t, k, w)
      PROVE  StackInv'
  <2>1. \A u \in Threads : entry[u] = "host" => entry'[u] = "host"
    BY <1>3 DEF Create, TypeOK
  <2> QED BY <1>1, <1>3, <2>1, SameStack DEF Create
<1>4. CASE EntryFails \/ EntryEnters \/ EntryWasClosed
  BY <1>4, EntryStack
<1>5. CASE Yield
  BY <1>5, YieldStack
<1>6. ASSUME NEW t \in Threads, ResumeFirst(t) \/ ResumeAgain(t)
      PROVE  StackInv'
  BY <1>6, ResumeStack
<1>7. ASSUME NEW t \in Threads, CloseOther(t)
      PROVE  StackInv'
  BY <1>7, CloseOtherStack
<1>8. CASE BodyReturns \/ BodyFails \/ \E failed \in BOOLEAN : HostEnds(failed)
  BY <1>8, BodyEndsStack
<1>9. CASE RunHandler \/ HandlerReturns \/ \E inLua \in BOOLEAN : HandlerFails(inLua)
  BY <1>9, HandlerStack
<1>10. CASE EnterSync \/ EnterRun \/ LeaveBoundary
  BY <1>10, BoundaryStack
<1> QED
  BY <1>2, <1>3, <1>4, <1>5, <1>6, <1>7, <1>8, <1>9, <1>10, CloseSelfStack,
     FinishCloseStack, FinishCloseSelfStack, QuotaStack DEF Next

-----------------------------------------------------------------------------
(* What a coroutine keeps, step by step.                                     *)

SameFields(t) ==
  /\ entry'[t] = entry[t] /\ started'[t] = started[t] /\ target'[t] = target[t]
  /\ frames'[t] = frames[t] /\ tbc'[t] = tbc[t] /\ err'[t] = err[t]

(* A step that at most makes it running or normal.                           *)
SameStatus(t) == status'[t] \in {status[t], "running", "normal"}

LEMMA SameFits ==
  ASSUME NEW t \in Threads, Fits(t), SameFields(t), SameStatus(t)
  PROVE  Fits(t)'
BY DEF Fits, SameFields, SameStatus

(* Leaving activations touches one status only, but for that of the resumers. *)
LEMMA LeavingStatus ==
  ASSUME NEW t \in Threads
  PROVE  /\ \A k : status' = StatusAfterPop(k) => SameStatus(t)
         /\ \A k, u, s : status' = StatusLeaving(k, u, s) =>
              /\ u = t => status'[t] = s
              /\ u # t => SameStatus(t)
BY DEF StatusAfterPop, StatusLeaving, SameStatus, AllThreads

(* A host entry has no frames; a resume_thread that runs has.                *)
LEMMA BodyFacts ==
  ASSUME TypeOK, ProtocolInv, StackInv, FitsInv
  PROVE  /\ \A i \in 1 .. Depth : calls[i].kind = "host" =>
              /\ calls[i].thread \in Threads /\ ~frames[calls[i].thread]
              /\ tbc[calls[i].thread] = 0
         /\ Depth > 0 /\ Top.kind = "resume" => current \in Threads /\ frames[current]
         /\ Depth > 0 /\ Top.kind = "host" => current \in Threads /\ ~frames[current]
         /\ Depth > 0 /\ Closing(Top) => current \in Threads
<1>1. Linked
  BY DEF ProtocolInv
<1>2. \A i \in 1 .. Depth : calls[i].kind = "host" =>
        /\ calls[i].thread \in Threads /\ ~frames[calls[i].thread]
        /\ tbc[calls[i].thread] = 0
  BY <1>1 DEF Linked, Resuming, StackInv, KindsFit, FitsInv, Fits
<1>3. Depth > 0 => Depth \in 1 .. Depth /\ Depth \in Nat /\ current = Top.thread
  BY <1>1, InsideFacts
<1>4. Depth > 0 /\ Top.kind = "resume" => Runs(Depth)
  BY <1>3 DEF Runs, SelfClosed
<1>5. Depth > 0 /\ (Resuming(Top) \/ Closing(Top)) => current \in Threads
  BY <1>1, <1>3 DEF Linked
<1> QED BY <1>2, <1>3, <1>4, <1>5 DEF StackInv, Executed, Resuming

(* A thread the step does not single out.                                    *)
Others(u) == \A t \in Threads : t # u => SameFields(t) /\ SameStatus(t)

LEMMA OthersFit ==
  ASSUME FitsInv, NEW u, Others(u), u \in Threads => Fits(u)'
  PROVE  FitsInv'
BY SameFits DEF FitsInv, Others

LEMMA EntryFits ==
  ASSUME TypeOK, FitsInv, NEW u \in Threads,
         \/ \E k \in EntryKinds, w \in BOOLEAN : Create(u, k, w)
         \/ ResumeFirst(u) \/ ResumeAgain(u) \/ CloseOther(u)
  PROVE  FitsInv'
<1>1. Fits(u) /\ u \in AllThreads
  BY DEF FitsInv, AllThreads
<1>2. CASE \E k \in EntryKinds, w \in BOOLEAN : Create(u, k, w)
  <2>1. PICK k \in EntryKinds : entry' = [entry EXCEPT ![u] = k] /\ entry[u] = "none"
    BY <1>2 DEF Create
  <2>2. UNCHANGED <<status, started, target, frames, tbc, err>>
    BY <1>2 DEF Create
  <2>3. Others(u)
    BY <2>1, <2>2 DEF Others, SameFields, SameStatus, TypeOK
  <2>4. Fits(u)'
    BY <1>1, <2>1, <2>2 DEF Fits, TypeOK
  <2> QED BY <2>3, <2>4, OthersFit
<1>3. CASE ResumeFirst(u) \/ ResumeAgain(u)
  <2>1. /\ \/ status'[u] = "running"
           \/ status'[u] = "suspended" /\ ResumeFirst(u) /\ entry[u] = "protected"
        /\ \A t \in Threads : SameStatus(t)
    BY <1>1, <1>3
       DEF ResumeFirst, ResumeAgain, Resumable, EnterThread, StatusEntering, SameStatus, AllThreads
  <2>2. Others(u)
    BY <1>3, <2>1 DEF ResumeFirst, ResumeAgain, Others, SameFields, TypeOK
  <2>3. Fits(u)'
    BY <1>1, <1>3, <2>1 DEF ResumeFirst, ResumeAgain, Resumable, Fits, TypeOK
  <2> QED BY <2>2, <2>3, OthersFit
<1>4. CASE CloseOther(u)
  <2>1. Others(u)
    BY <1>4 DEF CloseOther, Others, SameFields, SameStatus, TypeOK, AllThreads
  <2>2. Fits(u)'
    BY <1>1, <1>4 DEF CloseOther, Fits, TypeOK
  <2> QED BY <2>1, <2>2, OthersFit
<1> QED BY <1>2, <1>3, <1>4

(* The host call that comes before a pcall or xpcall entry is entered.       *)
LEMMA EnterFits ==
  ASSUME TypeOK, ProtocolInv, FitsInv, EntriesWait,
         EntryFails \/ EntryEnters \/ EntryWasClosed
  PROVE  FitsInv'
<1>1. /\ Depth > 0 /\ Top.kind = "entry" /\ UNCHANGED <<entry, started, target, tbc>>
  BY DEF EntryFails, EntryEnters, EntryWasClosed, Running
<1>2. PICK u \in Threads : u = Top.into /\ started[u] /\ tbc[u] = 0 /\ entry[u] = "protected"
  <2>1. Depth \in 1 .. Depth /\ Linked
    BY <1>1, InsideFacts
  <2> QED BY <1>1, <2>1 DEF EntriesWait, Waiting, Linked
<1>3. Fits(u) /\ u \in AllThreads /\ Threads \subseteq AllThreads
  BY DEF FitsInv, AllThreads
<1>4. CASE EntryFails
  <2>1. \A t \in Threads : SameFields(t) /\ SameStatus(t)
    BY <1>4 DEF EntryFails, SameFields, SameStatus
  <2> QED BY <2>1, SameFits DEF FitsInv
<1>5. CASE EntryEnters
  <2>1. status'[u] = "running" /\ \A t \in Threads : SameStatus(t)
    BY <1>2, <1>3, <1>5 DEF EntryEnters, StatusEntering, SameStatus
  <2>2. Others(u) /\ frames'[u]
    BY <1>1, <1>2, <1>5, <2>1 DEF EntryEnters, Others, SameFields, TypeOK
  <2>3. Fits(u)'
    BY <1>1, <1>2, <2>1, <2>2 DEF Fits
  <2> QED BY <2>2, <2>3, OthersFit
<1>6. CASE EntryWasClosed
  <2>1. status'[u] = "dead" /\ \A t \in Threads : t # u => SameStatus(t)
    BY <1>2, <1>3, <1>6 DEF EntryWasClosed, SameStatus
  <2>2. Others(u) /\ ~frames'[u]
    BY <1>1, <1>2, <1>6, <2>1 DEF EntryWasClosed, Others, SameFields, TypeOK
  <2>3. Fits(u)'
    BY <1>1, <1>2, <2>1, <2>2 DEF Fits
  <2> QED BY <2>2, <2>3, OthersFit
<1> QED BY <1>4, <1>5, <1>6

(* What a yield does to the coroutine that yields, and to the others.        *)
LEMMA YieldFacts ==
  ASSUME TypeOK, ProtocolInv, StackInv, FitsInv, HandlersYield = FALSE,
         NEW k \in 1 .. Depth, Innermost(k, Receivers), YieldReaches(k)
  PROVE  /\ \A t \in Threads : t # current => SameStatus(t) /\ target'[t] = target[t]
         /\ current \in Threads =>
              \/ status'[current] = "suspended" /\ target'[current] /\ frames[current]
              \/ status'[current] = "dead" /\ ~frames[current]
              \/ SameStatus(current) /\ target'[current] \in {target[current], TRUE}
<1>1. /\ Linked /\ current = calls[k].thread
      /\ \A j \in k + 1 .. Depth : calls[j].kind = "entry"
  BY PassesEntries DEF ProtocolInv
<1>2. CASE /\ calls[k].kind = "resume" /\ target' = [target EXCEPT ![current] = TRUE]
           /\ status' = StatusLeaving(k - 1, current, "suspended")
  <2>1. Runs(k)
    <3>1. k < Depth => k + 1 \in k + 1 .. Depth
      BY TopFacts DEF TypeOK
    <3> QED BY <1>1, <1>2, <3>1 DEF Runs, SelfClosed
  <2>2. current \in Threads /\ frames[current]
    BY <1>1, <1>2, <2>1 DEF StackInv, Executed, Linked, Resuming
  <2>3. target'[current] /\ \A t \in Threads : t # current => target'[t] = target[t]
    BY <1>2, <2>2 DEF TypeOK
  <2>4. status'[current] = "suspended" /\ \A t \in Threads : t # current => SameStatus(t)
    BY <1>2, <2>2, LeavingStatus
  <2> QED BY <2>2, <2>3, <2>4
<1>3. CASE /\ calls[k].kind = "host" /\ target' = [target EXCEPT ![current] = @ \/ k < Depth]
           /\ status' = StatusLeaving(k - 1, current, "dead")
  <2>1. current \in Threads /\ ~frames[current]
    BY <1>1, <1>3, BodyFacts
  <2>2. \A t \in Threads : t # current => target'[t] = target[t]
    BY <1>3 DEF TypeOK
  <2>3. status'[current] = "dead" /\ \A t \in Threads : t # current => SameStatus(t)
    BY <1>3, <2>1, LeavingStatus
  <2> QED BY <2>1, <2>2, <2>3
<1>4. CASE /\ target' = [target EXCEPT ![current] = TRUE] \/ UNCHANGED target
           /\ UNCHANGED status
  BY <1>4 DEF SameStatus, TypeOK
<1> QED BY <1>2, <1>3, <1>4 DEF YieldReaches

LEMMA YieldFits ==
  ASSUME TypeOK, ProtocolInv, StackInv, FitsInv, HandlersYield = FALSE, Yield
  PROVE  FitsInv'
<1>1. PICK k \in 1 .. Depth : Innermost(k, Receivers) /\ YieldReaches(k)
  BY DEF Yield
<1>2. UNCHANGED <<entry, started, frames, tbc, err>>
  BY DEF Yield
<1>3. Others(current)
  BY <1>1, <1>2, YieldFacts DEF Others, SameFields
<1>4. current \in Threads => Fits(current)
  BY DEF FitsInv
<1>5. \A t \in Threads : t = current => Fits(t)'
  BY <1>1, <1>2, <1>4, YieldFacts DEF Fits, SameStatus
<1> QED BY <1>3, <1>5, SameFits DEF FitsInv, Others

(* The body of a coroutine, and its end.                                     *)
LEMMA BodyFits ==
  ASSUME TypeOK, ProtocolInv, StackInv, FitsInv,
         \/ OpenTbc \/ CloseTbc \/ BodyReturns \/ BodyFails
         \/ \E failed \in BOOLEAN : HostEnds(failed)
  PROVE  FitsInv'
<1>1. /\ Depth > 0 /\ Top.kind \in {"resume", "host"} /\ current \in Threads
      /\ Top.kind = "resume" <=> frames[current]
  BY BodyFacts DEF OpenTbc, CloseTbc, BodyReturns, BodyFails, HostEnds, Body, Running
<1>2. Fits(current)
  BY <1>1 DEF FitsInv
<1>3. CASE OpenTbc \/ CloseTbc
  <2>1. /\ UNCHANGED <<entry, started, status, target, frames, err>> /\ frames[current]
        /\ \A t \in Threads : t # current => tbc'[t] = tbc[t]
    BY <1>1, <1>3 DEF OpenTbc, CloseTbc, Body, TypeOK
  <2>2. Others(current)
    BY <2>1 DEF Others, SameFields, SameStatus
  <2>3. \A t \in Threads : t = current => Fits(t)'
    BY <1>2, <2>1 DEF Fits
  <2> QED BY <2>2, <2>3, SameFits DEF FitsInv, Others
<1>4. CASE BodyReturns
  <2>1. /\ UNCHANGED <<entry, started, target, tbc>> /\ tbc[current] = 0
        /\ ~frames'[current]
        /\ \A t \in Threads : t # current => frames'[t] = frames[t] /\ err'[t] = err[t]
    BY <1>1, <1>4 DEF BodyReturns, TypeOK
  <2>2. status'[current] = "dead" /\ \A t \in Threads : t # current => SameStatus(t)
    BY <1>1, <1>4, LeavingStatus DEF BodyReturns
  <2>3. Others(current)
    BY <2>1, <2>2 DEF Others, SameFields
  <2>4. \A t \in Threads : t = current => Fits(t)'
    BY <1>2, <2>1, <2>2 DEF Fits
  <2> QED BY <2>3, <2>4, SameFits DEF FitsInv, Others
<1>5. CASE BodyFails
  <2>1. /\ UNCHANGED <<entry, started, target, tbc, frames>> /\ err'[current]
        /\ \A t \in Threads : t # current => err'[t] = err[t]
    BY <1>1, <1>5 DEF BodyFails, TypeOK
  <2>2. status'[current] \in {"dead", "running"} /\ \A t \in Threads : t # current => SameStatus(t)
    BY <1>1, <1>5, LeavingStatus DEF BodyFails
  <2>3. Others(current)
    BY <2>1, <2>2 DEF Others, SameFields
  <2>4. \A t \in Threads : t = current => Fits(t)'
    BY <1>2, <2>1, <2>2 DEF Fits
  <2> QED BY <2>3, <2>4, SameFits DEF FitsInv, Others
<1>6. ASSUME NEW failed \in BOOLEAN, HostEnds(failed) PROVE FitsInv'
  <2>1. /\ UNCHANGED <<entry, started, target, tbc, frames>> /\ ~frames[current]
        /\ \A t \in Threads : t # current => err'[t] = err[t]
    BY <1>1, <1>6 DEF HostEnds, Body, TypeOK
  <2>2. status'[current] = "dead" /\ \A t \in Threads : t # current => SameStatus(t)
    BY <1>1, <1>6, LeavingStatus DEF HostEnds
  <2>3. Others(current)
    BY <2>1, <2>2 DEF Others, SameFields
  <2>4. \A t \in Threads : t = current => Fits(t)'
    BY <1>2, <2>1, <2>2 DEF Fits
  <2> QED BY <2>3, <2>4, SameFits DEF FitsInv, Others
<1> QED BY <1>3, <1>4, <1>5, <1>6

(* The loop of a force-close, and its end.                                   *)
LEMMA ClosingFits ==
  ASSUME TypeOK, ProtocolInv, StackInv, FitsInv,
         \/ RunHandler \/ HandlerReturns \/ FinishClose \/ FinishCloseSelf
         \/ \E inLua \in BOOLEAN : HandlerFails(inLua)
  PROVE  FitsInv'
<1>1. /\ Depth > 0 /\ current \in Threads /\ UNCHANGED <<entry, started, target>>
  <2>1. Depth > 0 /\ Closing(Top)
    BY DEF RunHandler, HandlerReturns, HandlerFails, FinishClose, FinishCloseSelf, Closed, Running
  <2> QED
    BY <2>1, BodyFacts DEF RunHandler, HandlerReturns, HandlerFails, FinishClose, FinishCloseSelf
<1>2. Fits(current)
  BY <1>1 DEF FitsInv
<1>3. CASE RunHandler
  <2>1. /\ UNCHANGED <<status, frames, err>> /\ tbc[current] # 0
        /\ \A t \in Threads : t # current => tbc'[t] = tbc[t]
    BY <1>1, <1>3 DEF RunHandler, TypeOK
  <2>2. Others(current)
    BY <1>1, <2>1 DEF Others, SameFields, SameStatus
  <2>3. \A t \in Threads : t = current => Fits(t)'
    BY <1>1, <1>2, <2>1 DEF Fits
  <2> QED BY <2>2, <2>3, SameFits DEF FitsInv, Others
<1>4. CASE HandlerReturns
  <2>1. \A t \in Threads : SameFields(t) /\ SameStatus(t)
    BY <1>1, <1>4 DEF HandlerReturns, SameFields, SameStatus
  <2> QED BY <2>1, SameFits DEF FitsInv
<1>5. ASSUME NEW inLua \in BOOLEAN, HandlerFails(inLua) PROVE FitsInv'
  <2>1. /\ UNCHANGED <<frames, tbc>> /\ err'[current] = (err[current] \/ inLua)
        /\ status'[current] = IF inLua THEN "dead" ELSE status[current]
        /\ \A t \in Threads : t # current => err'[t] = err[t] /\ status'[t] = status[t]
    BY <1>1, <1>5 DEF HandlerFails, TypeOK, AllThreads
  <2>2. Others(current)
    BY <1>1, <2>1 DEF Others, SameFields, SameStatus
  <2>3. \A t \in Threads : t = current => Fits(t)'
    BY <1>1, <1>2, <2>1 DEF Fits
  <2> QED BY <2>2, <2>3, SameFits DEF FitsInv, Others
<1>6. CASE FinishClose \/ FinishCloseSelf
  <2>1. /\ UNCHANGED tbc /\ tbc[current] = 0 /\ ~frames'[current]
        /\ \A t \in Threads : t # current => frames'[t] = frames[t]
    BY <1>1, <1>6 DEF FinishClose, FinishCloseSelf, Closed, TypeOK
  <2>2. \A t \in Threads : t # current => err'[t] = err[t]
    BY <1>1, <1>6 DEF FinishClose, FinishCloseSelf, TypeOK
  <2>3. status'[current] = "dead" /\ \A t \in Threads : t # current => SameStatus(t)
    <3>1. \/ status' = [status EXCEPT ![current] = "dead"]
          \/ status' = StatusLeaving(Depth - 2, current, "dead")
      BY <1>6 DEF FinishClose, FinishCloseSelf
    <3> QED BY <1>1, <3>1, LeavingStatus DEF TypeOK, AllThreads, SameStatus
  <2>4. Others(current)
    BY <1>1, <2>1, <2>2, <2>3 DEF Others, SameFields
  <2>5. \A t \in Threads : t = current => Fits(t)'
    BY <1>1, <1>2, <2>1, <2>3 DEF Fits
  <2> QED BY <2>4, <2>5, SameFits DEF FitsInv, Others
<1> QED BY <1>3, <1>4, <1>5, <1>6

(* What leaves several activations at once, and what crosses a boundary.     *)
LEMMA CrossingFits ==
  ASSUME TypeOK, ProtocolInv, StackInv, FitsInv,
         CloseSelf \/ QuotaExceeded \/ EnterSync \/ EnterRun \/ LeaveBoundary
  PROVE  FitsInv'
<1>1. UNCHANGED <<entry, started, target, frames, tbc>>
  BY DEF CloseSelf, QuotaExceeded, EnterSync, EnterRun, LeaveBoundary
<1>2. CASE UNCHANGED err /\ \A t \in Threads : SameStatus(t)
  BY <1>1, <1>2, SameFits DEF FitsInv, SameFields
<1>3. CASE EnterSync \/ EnterRun \/ LeaveBoundary
  BY <1>2, <1>3, ThreadsAssumption
     DEF EnterSync, EnterRun, LeaveBoundary, SameStatus, TypeOK, AllThreads
<1>4. CASE CloseSelf
  <2>1. \/ status' = StatusAfterPop(0)
        \/ \E e, t : status' = StatusLeaving(e, t, "running")
    BY <1>4 DEF CloseSelf
  <2>2. \A t \in Threads : SameStatus(t)
    BY <2>1, LeavingStatus DEF SameStatus
  <2> QED BY <1>2, <1>4, <2>2 DEF CloseSelf
<1>5. CASE QuotaExceeded
  <2>1. CASE UNCHANGED err /\ \E k : status' = StatusAfterPop(k)
    BY <1>2, <2>1, LeavingStatus
  <2>2. CASE \E q \in 1 .. Depth :
               /\ calls[q].kind = "host"
               /\ status' = StatusLeaving(q - 1, calls[q].thread, "dead")
               /\ err' = [err EXCEPT ![calls[q].thread] = ~wrapped[calls[q].thread]]
    <3>1. PICK q \in 1 .. Depth :
               /\ calls[q].kind = "host"
               /\ status' = StatusLeaving(q - 1, calls[q].thread, "dead")
               /\ err' = [err EXCEPT ![calls[q].thread] = ~wrapped[calls[q].thread]]
      BY <2>2
    <3>2. PICK u \in Threads : u = calls[q].thread /\ ~frames[u]
      BY <3>1, BodyFacts
    <3>3. Fits(u) /\ \A t \in Threads : t # u => err'[t] = err[t]
      BY <3>1, <3>2 DEF FitsInv, TypeOK
    <3>4. status'[u] = "dead" /\ \A t \in Threads : t # u => SameStatus(t)
      BY <3>1, <3>2, LeavingStatus
    <3>5. Others(u)
      BY <1>1, <3>3, <3>4 DEF Others, SameFields
    <3>6. Fits(u)'
      BY <1>1, <3>2, <3>3, <3>4 DEF Fits
    <3> QED BY <3>5, <3>6, OthersFit
  <2> QED BY <1>5, <2>1, <2>2 DEF QuotaExceeded
<1> QED BY <1>3, <1>4, <1>5

LEMMA NextFits ==
  ASSUME TypeOK, ProtocolInv, StackInv, FitsInv, EntriesWait, HandlersYield = FALSE,
         [Next]_vars
  PROVE  FitsInv'
<1>1. CASE UNCHANGED vars
  <2>1. \A t \in Threads : SameFields(t) /\ SameStatus(t)
    BY <1>1 DEF vars, SameFields, SameStatus
  <2> QED BY <2>1, SameFits DEF FitsInv
<1>2. CASE Next
  BY <1>2, EntryFits, EnterFits, YieldFits, BodyFits, ClosingFits, CrossingFits DEF Next
<1> QED BY <1>1, <1>2

-----------------------------------------------------------------------------
(* A coroutine that is not on the stack, and is not resumed, closed or        *)
(* entered, is left alone.                                                   *)
Addressed(t) ==
  \/ \E k \in EntryKinds, w \in BOOLEAN : Create(t, k, w)
  \/ ResumeFirst(t) \/ ResumeAgain(t) \/ CloseOther(t)
  \/ (EntryEnters \/ EntryWasClosed) /\ Top.into = t

LEMMA OutsideFacts ==
  ASSUME TypeOK, Linked, NEW t \in Threads, ~Within(t)
  PROVE  /\ current # t /\ t \in AllThreads /\ t # Main /\ t # NoThread
         /\ \A k \in 0 .. Depth : ~ResumerOf(k, t)
         /\ \A k \in 0 .. Depth : PopTo(k) => current' # t
<1>1. t \in AllThreads /\ t # Main /\ t # NoThread /\ Depth \in Nat
  BY ThreadsAssumption, TopFacts DEF AllThreads, TypeOK
<1>2. \A k \in 1 .. Depth : calls[k].thread # t
  BY DEF Within
<1>3. current # t
  BY <1>1, <1>2 DEF Linked
<1>4. \A k \in 0 .. Depth : ~ResumerOf(k, t)
  BY <1>1, ResumerWithin
<1>5. \A k \in 0 .. Depth : PopTo(k) => current' # t
  <2> SUFFICES ASSUME NEW k \in 0 .. Depth, PopTo(k) PROVE current' # t
    OBVIOUS
  <2>1. Restored(k)
    BY PopToShape
  <2>2. k # 0 => k \in 1 .. Depth
    BY <1>1
  <2> QED BY <1>1, <1>2, <2>1, <2>2 DEF Restored
<1> QED BY <1>1, <1>3, <1>4, <1>5

(* A step that spares the status of t.                                       *)
Spared(t) == status'[t] = status[t] /\ current' # t

LEMMA OutsideStatus ==
  ASSUME TypeOK, Linked, [Next]_vars, NEW t \in Threads, ~Within(t), ~Addressed(t)
  PROVE  Spared(t)
<1>1. /\ current # t /\ t \in AllThreads /\ t # Main /\ Linked /\ Depth \in Nat
      /\ \A k \in 0 .. Depth : PopTo(k) => current' # t
  BY OutsideFacts, TopFacts DEF TypeOK
<1>2. /\ \A k \in 0 .. Depth : status' = StatusAfterPop(k) => status'[t] = status[t]
      /\ \A k \in 0 .. Depth : \A u, s : status' = StatusLeaving(k, u, s) /\ u # t
                                           => status'[t] = status[t]
  BY OutsideFacts DEF StatusAfterPop, StatusLeaving
<1>3. \A u, s : status' = [status EXCEPT ![u] = s] /\ u # t => status'[t] = status[t]
  BY <1>1 DEF TypeOK
<1>4. /\ Depth > 0 => Depth - 1 \in 0 .. Depth
      /\ 0 \in 0 .. Depth
      /\ \A q \in 1 .. Depth : q \in 0 .. Depth /\ q - 1 \in 0 .. Depth /\ calls[q].thread # t
  BY <1>1 DEF Within
<1>5. CASE \/ UNCHANGED vars \/ OpenTbc \/ CloseTbc \/ RunHandler \/ HandlerReturns \/ EnterSync
           \/ EntryFails \/ \E u \in Threads, k \in EntryKinds, w \in BOOLEAN : Create(u, k, w)
  <2>1. UNCHANGED <<status, current>>
    BY <1>5 DEF vars, OpenTbc, CloseTbc, RunHandler, HandlerReturns, EnterSync, EntryFails, Create
  <2> QED BY <1>1, <2>1 DEF Spared
<1>6. CASE Yield
  <2>1. PICK k \in 1 .. Depth : YieldReaches(k)
    BY <1>6 DEF Yield
  <2> QED BY <1>1, <1>2, <1>3, <1>4, <2>1 DEF YieldReaches, Spared
<1>7. ASSUME NEW u \in Threads, ResumeFirst(u) \/ ResumeAgain(u) PROVE Spared(t)
  <2>1. u # t
    BY <1>7 DEF Addressed
  <2> QED BY <1>1, <1>7, <2>1 DEF ResumeFirst, ResumeAgain, EnterThread, StatusEntering, Spared
<1>8. ASSUME NEW u \in Threads, CloseOther(u) PROVE Spared(t)
  <2>1. u # t
    BY <1>8 DEF Addressed
  <2> QED BY <1>1, <1>3, <1>8, <2>1 DEF CloseOther, Spared
<1>9. CASE EntryEnters \/ EntryWasClosed
  <2>1. Depth > 0 /\ Top.into # t
    BY <1>9 DEF EntryEnters, EntryWasClosed, Addressed
  <2>2. CASE EntryEnters
    BY <1>1, <2>1, <2>2 DEF EntryEnters, StatusEntering, Spared
  <2>3. CASE EntryWasClosed
    BY <1>1, <1>4, <2>1, <2>3 DEF EntryWasClosed, Spared
  <2> QED BY <1>9, <2>2, <2>3
<1>10. CASE BodyReturns \/ BodyFails \/ \E failed \in BOOLEAN : HostEnds(failed)
  <2>1. Depth > 0 /\ (UNCHANGED current \/ PopTo(Depth - 1))
    BY <1>10 DEF BodyReturns, BodyFails, HostEnds, Body, Running
  <2>2. \/ status' = StatusLeaving(Depth - 1, current, "dead")
        \/ status' = StatusLeaving(Depth - 1, current, "running")
    BY <1>10 DEF BodyReturns, BodyFails, HostEnds
  <2> QED BY <1>1, <1>2, <1>4, <2>1, <2>2 DEF Spared
<1>11. CASE FinishClose \/ \E inLua \in BOOLEAN : HandlerFails(inLua)
  <2>1. Depth > 0 /\ (UNCHANGED current \/ PopTo(Depth - 1))
    BY <1>11 DEF FinishClose, HandlerFails, Closed, Running
  <2>2. \E s : status' = [status EXCEPT ![current] = s]
    BY <1>11 DEF FinishClose, HandlerFails
  <2> QED BY <1>1, <1>3, <1>4, <2>1, <2>2 DEF Spared
<1>12. CASE FinishCloseSelf
  <2>1. Depth - 2 \in 0 .. Depth
    <3>1. Depth > 0 /\ Top.kind = "closeself"
      BY <1>12 DEF FinishCloseSelf, Closed
    <3>2. Depth \in 1 .. Depth
      BY <1>1, <3>1
    <3>3. Depth > 1
      BY <1>1, <3>1, <3>2 DEF Linked
    <3> QED BY <1>1, <3>3
  <2>2. \/ status' = StatusLeaving(Depth - 2, current, "dead") /\ PopTo(Depth - 2)
        \/ status' = [status EXCEPT ![current] = "dead"] /\ UNCHANGED current
    BY <1>12 DEF FinishCloseSelf
  <2> QED BY <1>1, <1>2, <1>3, <2>1, <2>2 DEF Spared
<1>13. CASE EnterRun \/ LeaveBoundary
  <2>1. \/ current' = Main /\ status' = [status EXCEPT ![Main] = "running"]
        \/ Depth > 0 /\ PopTo(Depth - 1) /\ UNCHANGED status
    BY <1>13 DEF EnterRun, LeaveBoundary, Body, Running
  <2> QED BY <1>1, <1>3, <1>4, <2>1 DEF Spared
<1>14. CASE CloseSelf
  <2>1. CASE PopTo(0) /\ status' = StatusAfterPop(0)
    BY <1>1, <1>2, <1>4, <2>1 DEF Spared
  <2>2. ASSUME NEW e \in 1 .. Depth, current' = calls[e].thread,
               status' = StatusLeaving(e, calls[e].thread, "running")
        PROVE  Spared(t)
    BY <1>2, <1>4, <2>2 DEF Spared
  <2> QED BY <1>14, <2>1, <2>2 DEF CloseSelf
<1>15. CASE QuotaExceeded
  <2>1. CASE PopTo(0) /\ status' = StatusAfterPop(0)
    BY <1>1, <1>2, <1>4, <2>1 DEF Spared
  <2>2. ASSUME NEW q \in 1 .. Depth, PopTo(q - 1),
               status' = StatusLeaving(q - 1, calls[q].thread, "dead")
        PROVE  Spared(t)
    BY <1>1, <1>2, <1>4, <2>2 DEF Spared
  <2>3. ASSUME NEW q \in 1 .. Depth, current' = calls[q].thread, status' = StatusAfterPop(q)
        PROVE  Spared(t)
    BY <1>2, <1>4, <2>3 DEF Spared
  <2> QED BY <1>15, <2>1, <2>2, <2>3 DEF QuotaExceeded
<1>16. ASSUME Next PROVE Spared(t)
  <2>1. CASE \E u \in Threads, k \in EntryKinds, w \in BOOLEAN : Create(u, k, w)
    BY <1>5, <2>1
  <2>2. CASE \E u \in Threads : ResumeFirst(u)
    BY <1>7, <2>2
  <2>3. CASE \E u \in Threads : ResumeAgain(u)
    BY <1>7, <2>3
  <2>4. CASE \E u \in Threads : CloseOther(u)
    BY <1>8, <2>4
  <2>5. CASE \E failed \in BOOLEAN : HostEnds(failed)
    BY <1>10, <2>5
  <2>6. CASE \E inLua \in BOOLEAN : HandlerFails(inLua)
    BY <1>11, <2>6
  <2> QED BY <1>5, <1>6, <1>9, <1>10, <1>11, <1>12, <1>13, <1>14, <1>15, <1>16, <2>1, <2>2, <2>3, <2>4, <2>5, <2>6 DEF Next
<1> QED BY <1>5, <1>16

LEMMA OutsideFields ==
  ASSUME TypeOK, Linked, [Next]_vars, NEW t \in Threads, ~Within(t), ~Addressed(t)
  PROVE  SameFields(t)
<1>1. current # t /\ Linked
  BY OutsideFacts
<1>2. /\ \A u, x : entry' = [entry EXCEPT ![u] = x] /\ u # t => entry'[t] = entry[t]
      /\ \A u, x : started' = [started EXCEPT ![u] = x] /\ u # t => started'[t] = started[t]
      /\ \A u, x : target' = [target EXCEPT ![u] = x] /\ u # t => target'[t] = target[t]
      /\ \A u, x : frames' = [frames EXCEPT ![u] = x] /\ u # t => frames'[t] = frames[t]
      /\ \A u, x : tbc' = [tbc EXCEPT ![u] = x] /\ u # t => tbc'[t] = tbc[t]
      /\ \A u, x : err' = [err EXCEPT ![u] = x] /\ u # t => err'[t] = err[t]
  BY DEF TypeOK
<1>3. CASE UNCHANGED vars \/ HandlerReturns \/ EnterSync \/ EntryFails \/ CloseSelf
           \/ EnterRun \/ LeaveBoundary
  BY <1>3 DEF vars, HandlerReturns, EnterSync, EntryFails, CloseSelf, EnterRun, LeaveBoundary,
              SameFields
<1>4. ASSUME NEW u \in Threads, NEW k \in EntryKinds, NEW w \in BOOLEAN, Create(u, k, w)
      PROVE  SameFields(t)
  <2>1. u # t
    BY <1>4 DEF Addressed
  <2> QED BY <1>2, <1>4, <2>1 DEF Create, SameFields
<1>5. ASSUME NEW u \in Threads, ResumeFirst(u) \/ ResumeAgain(u) PROVE SameFields(t)
  <2>1. u # t
    BY <1>5 DEF Addressed
  <2>2. CASE ResumeFirst(u)
    BY <1>2, <2>1, <2>2 DEF ResumeFirst, SameFields
  <2>3. CASE ResumeAgain(u)
    BY <1>2, <2>1, <2>3 DEF ResumeAgain, SameFields
  <2> QED BY <1>5, <2>2, <2>3
<1>6. ASSUME NEW u \in Threads, CloseOther(u) PROVE SameFields(t)
  <2>1. u # t
    BY <1>6 DEF Addressed
  <2> QED BY <1>2, <1>6, <2>1 DEF CloseOther, SameFields
<1>7. CASE EntryEnters \/ EntryWasClosed
  <2>1. Top.into # t
    BY <1>7 DEF EntryEnters, EntryWasClosed, Addressed
  <2>2. CASE EntryEnters
    BY <1>2, <2>1, <2>2 DEF EntryEnters, SameFields
  <2>3. CASE EntryWasClosed
    BY <1>2, <2>1, <2>3 DEF EntryWasClosed, SameFields
  <2> QED BY <1>7, <2>2, <2>3
<1>8. CASE Yield
  <2>1. \/ UNCHANGED target
        \/ \E x : target' = [target EXCEPT ![current] = x]
    BY <1>8 DEF Yield, YieldReaches
  <2>2. UNCHANGED <<entry, started, frames, tbc, err>>
    BY <1>8 DEF Yield
  <2> QED BY <1>1, <1>2, <2>1, <2>2 DEF SameFields
<1>9. CASE OpenTbc \/ CloseTbc \/ RunHandler
  <2>1. UNCHANGED <<entry, started, target, frames, err>>
    BY <1>9 DEF OpenTbc, CloseTbc, RunHandler
  <2>2. UNCHANGED tbc \/ \E x : tbc' = [tbc EXCEPT ![current] = x]
    BY <1>9 DEF OpenTbc, CloseTbc, RunHandler
  <2> QED BY <1>1, <1>2, <2>1, <2>2 DEF SameFields
<1>10. CASE \/ BodyReturns \/ BodyFails \/ (\E failed \in BOOLEAN : HostEnds(failed))
            \/ (\E inLua \in BOOLEAN : HandlerFails(inLua)) \/ FinishClose \/ FinishCloseSelf
  <2>1. UNCHANGED <<entry, started, target, tbc>>
    BY <1>10 DEF BodyReturns, BodyFails, HostEnds, HandlerFails, FinishClose, FinishCloseSelf
  <2>2. UNCHANGED frames \/ frames' = [frames EXCEPT ![current] = FALSE]
    BY <1>10 DEF BodyReturns, BodyFails, HostEnds, HandlerFails, FinishClose, FinishCloseSelf
  <2>3. UNCHANGED err \/ \E x : err' = [err EXCEPT ![current] = x]
    BY <1>10 DEF BodyReturns, BodyFails, HostEnds, HandlerFails, FinishClose, FinishCloseSelf
  <2> QED BY <1>1, <1>2, <2>1, <2>2, <2>3 DEF SameFields
<1>11. CASE QuotaExceeded
  <2>1. UNCHANGED err \/ \E q \in 1 .. Depth : \E x : err' = [err EXCEPT ![calls[q].thread] = x]
    BY <1>11 DEF QuotaExceeded
  <2>2. UNCHANGED <<entry, started, target, frames, tbc>>
    BY <1>11 DEF QuotaExceeded
  <2>3. \A q \in 1 .. Depth : calls[q].thread # t
    BY DEF Within
  <2>4. ASSUME NEW q \in 1 .. Depth, NEW x, err' = [err EXCEPT ![calls[q].thread] = x]
        PROVE  err'[t] = err[t]
    <3>1. calls[q].thread # t
      BY <2>3
    <3> QED BY <2>4, <3>1 DEF TypeOK
  <2>5. err'[t] = err[t]
    BY <2>1, <2>4
  <2> QED BY <2>2, <2>5 DEF SameFields
<1>12. ASSUME Next PROVE SameFields(t)
  <2>1. CASE \E u \in Threads, k \in EntryKinds, w \in BOOLEAN : Create(u, k, w)
    BY <1>4, <2>1
  <2>2. CASE \E u \in Threads : ResumeFirst(u)
    BY <1>5, <2>2
  <2>3. CASE \E u \in Threads : ResumeAgain(u)
    BY <1>5, <2>3
  <2>4. CASE \E u \in Threads : CloseOther(u)
    BY <1>6, <2>4
  <2>5. CASE \E failed \in BOOLEAN : HostEnds(failed)
    BY <1>10, <2>5
  <2>6. CASE \E inLua \in BOOLEAN : HandlerFails(inLua)
    BY <1>10, <2>6
  <2> QED BY <1>3, <1>7, <1>8, <1>9, <1>10, <1>11, <1>12, <2>1, <2>2, <2>3, <2>4, <2>5, <2>6 DEF Next
<1> QED BY <1>3, <1>12

LEMMA OutsideStays ==
  ASSUME TypeOK, Linked, [Next]_vars, NEW t \in Threads, ~Within(t), ~Addressed(t)
  PROVE  SameFields(t) /\ Spared(t) /\ ~Within(t)'
<1>1. SameFields(t) /\ Spared(t) /\ Depth \in Nat
  BY OutsideFields, OutsideStatus, TopFacts DEF TypeOK
<1>2. PICK k \in 0 .. Depth : (Popped(k) /\ Restored(k)) \/ (Pushed(k) /\ NewOK(k))
  BY NextShape DEF Shape
<1> SUFFICES ASSUME NEW i \in 1 .. Len(calls'), calls'[i].thread = t PROVE FALSE
  BY <1>1 DEF Within
<1>3. CASE i \in 1 .. k
  BY <1>1, <1>2, <1>3 DEF Popped, Pushed, Kept, Within
<1>4. CASE i \notin 1 .. k
  <2>1. i = k + 1 /\ Pushed(k)
    BY <1>1, <1>2, <1>4 DEF Popped, Pushed
  <2> QED BY <1>1, <2>1 DEF Pushed, Spared
<1> QED BY <1>3, <1>4

-----------------------------------------------------------------------------
(* A coroutine whose entry is making a host call.                            *)

(* Nothing but the end of a close follows its last handler.                  *)
LEMMA CloseIsEnding ==
  ASSUME TypeOK, Linked, [Next]_vars, Depth > 0, Top.kind = "close", ~Top.busy,
         tbc[current] = 0
  PROVE  FinishClose \/ UNCHANGED vars
<1>1. ~Running
  BY DEF Running
<1>2. tbc[current] > 0 => FALSE
  OBVIOUS
<1>3. /\ \A t \in Threads, k \in EntryKinds, w \in BOOLEAN : ~Create(t, k, w)
      /\ \A t \in Threads : ~ResumeFirst(t) /\ ~ResumeAgain(t) /\ ~CloseOther(t)
  BY <1>1 DEF Create, ResumeFirst, ResumeAgain, Resumable, CloseOther
<1>4. ~EntryFails /\ ~EntryEnters /\ ~EntryWasClosed /\ ~Yield
  BY <1>1 DEF EntryFails, EntryEnters, EntryWasClosed, Yield
<1>5. /\ ~OpenTbc /\ ~CloseTbc /\ ~BodyReturns /\ ~BodyFails
      /\ \A failed \in BOOLEAN : ~HostEnds(failed)
  BY <1>1 DEF OpenTbc, CloseTbc, BodyReturns, BodyFails, HostEnds, Body
<1>6. /\ ~CloseSelf /\ ~RunHandler /\ ~HandlerReturns /\ ~FinishCloseSelf
      /\ \A inLua \in BOOLEAN : ~HandlerFails(inLua)
  BY <1>1, <1>2 DEF CloseSelf, RunHandler, HandlerReturns, FinishCloseSelf, HandlerFails
<1>7. ~EnterSync /\ ~EnterRun /\ ~LeaveBoundary /\ ~QuotaExceeded
  <2>1. Depth # 0
    OBVIOUS
  <2> QED BY <1>1, <2>1 DEF EnterSync, EnterRun, LeaveBoundary, Body, QuotaExceeded
<1> QED BY <1>3, <1>4, <1>5, <1>6, <1>7 DEF Next

(* Waiting, for the coroutine that the ith activation is about to enter.      *)
WaitingAs(i, t) ==
  /\ started[t] /\ ~target[t] /\ tbc[t] = 0 /\ entry[t] = "protected"
  /\ \A j \in 1 .. Depth : calls[j].kind = "entry" /\ calls[j].into = t => j = i
  /\ \/ /\ status[t] = IF frames[t] THEN "suspended" ELSE "dead"
        /\ ~Within(t)
     \/ /\ Top.kind = "close" /\ ~Top.busy /\ Top.thread = t /\ frames[t]
        /\ \A j \in 1 .. Depth - 1 : calls[j].thread # t

LEMMA NextStarted ==
  ASSUME TypeOK, ProtocolInv, FitsInv, EntriesWait, StartedInv, [Next]_vars
  PROVE  StartedInv'
<1>1. Linked /\ Depth \in Nat
  BY TopFacts DEF ProtocolInv, TypeOK
<1> SUFFICES ASSUME NEW t \in Threads, target'[t] \/ Within(t)'
             PROVE  started'[t]
  BY DEF StartedInv
<1>2. CASE ~started[t] /\ ~Addressed(t)
  BY <1>1, <1>2, OutsideStays DEF StartedInv, SameFields
<1>3. CASE ~started[t] /\ Addressed(t)
  <2>1. /\ ~target[t] /\ ~Within(t) /\ ~frames[t]
    BY <1>3 DEF StartedInv, FitsInv, Fits
  <2>2. ~ResumeAgain(t)
    BY <1>3 DEF ResumeAgain
  <2>3. ~((EntryEnters \/ EntryWasClosed) /\ Top.into = t)
    <3> SUFFICES ASSUME EntryEnters \/ EntryWasClosed, Top.into = t PROVE FALSE
      OBVIOUS
    <3>1. Depth > 0 /\ Top.kind = "entry"
      BY DEF EntryEnters, EntryWasClosed
    <3>2. Depth \in 1 .. Depth
      BY <1>1, <3>1
    <3> QED BY <1>3, <3>1, <3>2 DEF EntriesWait, Waiting
  <2>4. CASE ResumeFirst(t)
    BY <2>4 DEF ResumeFirst, TypeOK
  <2>5. CASE CloseOther(t) \/ \E k \in EntryKinds, w \in BOOLEAN : Create(t, k, w)
    <3>1. UNCHANGED <<calls, target>>
      BY <2>1, <2>5 DEF CloseOther, Create
    <3>2. Within(t)' => Within(t)
      BY <3>1 DEF Within
    <3> QED BY <2>1, <3>1, <3>2
  <2> QED BY <1>3, <2>2, <2>3, <2>4, <2>5 DEF Addressed
<1>4. CASE started[t]
  <2>1. UNCHANGED started \/ \E u \in Threads : started' = [started EXCEPT ![u] = TRUE]
    BY DEF Next, vars, Create, ResumeFirst, ResumeAgain, CloseOther, EntryFails, EntryEnters,
           EntryWasClosed, Yield, OpenTbc, CloseTbc, BodyReturns, BodyFails, HostEnds,
           CloseSelf, RunHandler, HandlerReturns, HandlerFails, FinishClose, FinishCloseSelf,
           EnterSync, EnterRun, LeaveBoundary, QuotaExceeded
  <2> QED BY <1>4, <2>1 DEF TypeOK
<1> QED BY <1>2, <1>3, <1>4

(* The call that was there before.                                           *)
LEMMA StillWaits ==
  ASSUME TypeOK, ProtocolInv, EntriesWait, [Next]_vars,
         NEW k \in 0 .. Depth, (Popped(k) /\ Restored(k)) \/ (Pushed(k) /\ NewOK(k)),
         NEW i \in 1 .. k, calls[i].kind = "entry", NEW t \in Threads, t = calls[i].into
  PROVE  WaitingAs(i, t)'
<1>1. /\ Linked /\ Depth \in Nat /\ i \in 1 .. Depth /\ calls \in Seq(Activations)
  BY TopFacts DEF ProtocolInv, TypeOK
<1>2. WaitingAs(i, t)
  BY <1>1 DEF EntriesWait, Waiting, WaitingAs, Within
<1>3. \A j \in 1 .. Len(calls') :
        \/ j \in 1 .. k /\ calls'[j].kind = calls[j].kind /\ calls'[j].into = calls[j].into
                        /\ calls'[j].thread = calls[j].thread /\ j \in 1 .. Depth
        \/ j = k + 1 /\ Pushed(k) /\ NewOK(k)
  BY <1>1 DEF Popped, Pushed, Kept
<1>4. \A j \in 1 .. Len(calls') : calls'[j].kind = "entry" /\ calls'[j].into = t => j = i
  <2> SUFFICES ASSUME NEW j \in 1 .. Len(calls'), calls'[j].kind = "entry", calls'[j].into = t
               PROVE  j = i
    OBVIOUS
  <2>1. CASE j = k + 1 /\ Pushed(k) /\ NewOK(k)
    <3>1. ResumeFirst(t)
      BY <2>1 DEF NewOK
    <3> QED BY <1>2, <3>1 DEF ResumeFirst, WaitingAs
  <2>2. CASE j \in 1 .. Depth /\ calls'[j].kind = calls[j].kind /\ calls'[j].into = calls[j].into
    BY <1>2, <2>2 DEF WaitingAs
  <2> QED BY <1>3, <2>1, <2>2
<1>5. i \in 1 .. Len(calls') /\ calls'[i].kind = "entry" /\ calls'[i].into = t
  BY <1>1 DEF Popped, Pushed, Kept
<1>6. CASE /\ status[t] = IF frames[t] THEN "suspended" ELSE "dead"
           /\ ~Within(t)
  <2>1. /\ \A c \in EntryKinds, w \in BOOLEAN : ~Create(t, c, w)
        /\ ~ResumeFirst(t) /\ ~ResumeAgain(t)
    BY <1>2 DEF Create, ResumeFirst, ResumeAgain, WaitingAs
  <2>2. ~((EntryEnters \/ EntryWasClosed) /\ Top.into = t)
    <3> SUFFICES ASSUME EntryEnters \/ EntryWasClosed, Top.into = t PROVE FALSE
      OBVIOUS
    <3>1. Depth > 0 /\ Top.kind = "entry"
      BY DEF EntryEnters, EntryWasClosed
    <3>2. Depth \in 1 .. Depth
      BY <1>1, <3>1
    <3>3. i = Depth
      BY <1>2, <3>1, <3>2 DEF WaitingAs
    <3>4. CASE EntryEnters
      BY <1>1, <1>5, <3>3, <3>4, EntryEntersPushes
    <3>5. CASE EntryWasClosed
      <4>1. Depth - 1 \in 0 .. Depth /\ Depth - 1 < Depth /\ Depth \in Nat
        BY <1>1, <3>1
      <4>2. Len(calls') = Depth - 1
        BY <1>1, <3>5, <4>1, PopToShape DEF EntryWasClosed, Popped
      <4> QED BY <1>5, <3>3, <4>1, <4>2
    <3> QED BY <3>4, <3>5
  <2>3. CASE ~CloseOther(t)
    <3>1. ~Addressed(t)
      BY <2>1, <2>2, <2>3 DEF Addressed
    <3>2. SameFields(t) /\ Spared(t) /\ ~Within(t)'
      BY <1>1, <1>6, <3>1, OutsideStays
    <3> QED BY <1>2, <1>4, <1>6, <3>2 DEF WaitingAs, SameFields, Spared
  <2>4. CASE CloseOther(t) /\ ~frames[t]
    <3>1. /\ UNCHANGED <<started, target, tbc, entry, frames, calls>> /\ status'[t] = "dead"
      BY <2>4 DEF CloseOther, TypeOK, AllThreads
    <3>2. ~Within(t)'
      BY <1>6, <3>1 DEF Within
    <3> QED BY <1>2, <1>4, <2>4, <3>1, <3>2 DEF WaitingAs
  <2>5. CASE CloseOther(t) /\ frames[t]
    <3>1. /\ UNCHANGED <<started, target, tbc, entry, frames>>
          /\ calls' = Append(calls, Activation("close", t, err[t]))
      BY <2>5 DEF CloseOther
    <3> DEFINE a == Activation("close", t, err[t])
    <3>2. a.kind = "close" /\ ~a.busy /\ a.thread = t
      BY DEF Activation
    <3> HIDE DEF a
    <3>3. /\ Len(calls') = Depth + 1 /\ calls'[Depth + 1] = a
          /\ \A j \in 1 .. Depth : calls'[j] = calls[j]
      BY <1>1, <3>1 DEF a
    <3>4. Len(calls') - 1 = Depth
      BY <1>1, <3>3
    <3>5. \A j \in 1 .. Len(calls') - 1 : calls'[j].thread # t
      BY <1>6, <3>3, <3>4 DEF Within
    <3> QED BY <1>2, <1>4, <2>5, <3>1, <3>2, <3>3, <3>5 DEF WaitingAs
  <2> QED BY <2>3, <2>4, <2>5
<1>7. CASE /\ Top.kind = "close" /\ ~Top.busy /\ Top.thread = t /\ frames[t]
           /\ \A j \in 1 .. Depth - 1 : calls[j].thread # t
  <2>1. Depth > 0 /\ current = t /\ tbc[current] = 0 /\ t \in AllThreads
    BY <1>1, <1>2, <1>7 DEF Linked, WaitingAs, AllThreads
  <2>2. FinishClose \/ UNCHANGED vars
    BY <1>1, <1>7, <2>1, CloseIsEnding
  <2>3. CASE UNCHANGED vars
    BY <1>2, <2>3 DEF vars, WaitingAs, Within
  <2>4. CASE FinishClose
    <3>1. /\ UNCHANGED <<started, target, tbc, entry>> /\ status'[t] = "dead" /\ ~frames'[t]
      BY <2>1, <2>4 DEF FinishClose, TypeOK
    <3>2. Depth - 1 \in 0 .. Depth /\ PopTo(Depth - 1)
      BY <1>1, <2>1, <2>4 DEF FinishClose
    <3>3. Len(calls') = Depth - 1 /\ Kept(Depth - 1)
      BY <1>1, <3>2, PopToShape DEF Popped
    <3>4. ~Within(t)'
      BY <1>7, <3>3 DEF Kept, Within
    <3> QED BY <1>2, <1>4, <3>1, <3>4 DEF WaitingAs
  <2> QED BY <2>2, <2>3, <2>4
<1> QED BY <1>2, <1>6, <1>7 DEF WaitingAs

(* The call that has just begun.                                             *)
LEMMA StartsWaiting ==
  ASSUME TypeOK, ProtocolInv, FitsInv, EntriesWait, StartedInv,
         NEW t \in Threads, ResumeFirst(t), entry[t] = "protected",
         UNCHANGED <<status, current>>, Pushed(Depth),
         calls'[Depth + 1].thread = current, NEW i, i = Depth + 1
  PROVE  WaitingAs(i, t)'
<1>1. /\ Linked /\ Depth \in Nat /\ status[t] = "suspended" /\ ~started[t] /\ t # current
      /\ t \in AllThreads
  BY TopFacts DEF ProtocolInv, TypeOK, ResumeFirst, Resumable, AllThreads
<1>2. /\ started'[t] /\ frames'[t] /\ UNCHANGED <<target, tbc, entry>>
  BY DEF ResumeFirst, TypeOK
<1>3. ~target[t] /\ tbc[t] = 0
  BY <1>1 DEF StartedInv, FitsInv, Fits
<1>4. /\ Len(calls') = Depth + 1
      /\ \A j \in 1 .. Len(calls') :
           \/ j = Depth + 1
           \/ /\ j \in 1 .. Depth
              /\ calls'[j].kind = calls[j].kind
              /\ calls'[j].into = calls[j].into
              /\ calls'[j].thread = calls[j].thread
  BY <1>1 DEF Pushed, Kept
<1>5. \A j \in 1 .. Len(calls') : calls'[j].kind = "entry" /\ calls'[j].into = t => j = Depth + 1
  BY <1>1, <1>4 DEF EntriesWait, Waiting
<1>6. ~Within(t)'
  BY <1>1, <1>4 DEF Within, ProtocolInv, HeldIsAwake
<1>7. status'[t] = "suspended"
  BY <1>1
<1>8. started'[t] /\ ~target'[t] /\ tbc'[t] = 0 /\ entry'[t] = "protected" /\ frames'[t]
  BY <1>2, <1>3
<1> QED BY <1>5, <1>6, <1>7, <1>8 DEF WaitingAs

LEMMA NextWaits ==
  ASSUME TypeOK, ProtocolInv, FitsInv, EntriesWait, StartedInv, [Next]_vars
  PROVE  EntriesWait'
<1>1. Linked /\ Depth \in Nat
  BY TopFacts DEF ProtocolInv, TypeOK
<1> SUFFICES ASSUME NEW i \in 1 .. Len(calls'), calls'[i].kind = "entry"
             PROVE  Waiting(i)'
  BY DEF EntriesWait
<1>2. PICK k \in 0 .. Depth : (Popped(k) /\ Restored(k)) \/ (Pushed(k) /\ NewOK(k))
  BY <1>1, NextShape DEF Shape
<1>3. SUFFICES ASSUME NEW t \in Threads, t = calls'[i].into
               PROVE  WaitingAs(i, t)'
  <2>1. Linked'
    BY <1>1, NextShape, NextLinked
  <2>2. calls'[i].into \in Threads
    BY <2>1 DEF Linked
  <2> QED BY <2>2 DEF Waiting, WaitingAs, Within
<1>4. CASE i \in 1 .. k
  <2>1. calls[i].kind = "entry" /\ calls[i].into = t
    BY <1>2, <1>3, <1>4 DEF Popped, Pushed, Kept
  <2> QED BY <1>2, <1>4, <2>1, StillWaits
<1>5. CASE i \notin 1 .. k
  <2>1. i = k + 1 /\ Pushed(k) /\ NewOK(k)
    BY <1>1, <1>2, <1>5 DEF Popped, Pushed
  <2>2. /\ k = Depth /\ ResumeFirst(t) /\ entry[t] = "protected" /\ UNCHANGED <<status, current>>
    BY <1>3, <2>1 DEF NewOK
  <2>3. calls'[Depth + 1].thread = current
    BY <2>1, <2>2 DEF Pushed
  <2> QED BY <2>1, <2>2, <2>3, StartsWaiting
<1> QED BY <1>4, <1>5

-----------------------------------------------------------------------------
(* The theorems.                                                            *)

LEMMA InitStatus ==
  ASSUME Init
  PROVE  StackInv /\ FitsInv /\ EntriesWait /\ StartedInv
<1>1. calls = <<>> /\ Depth = 0
  BY DEF Init
<1>2. Anchored /\ KindsFit /\ Executed /\ EntriesWait
  BY <1>1 DEF Anchored, KindsFit, Executed, EntriesWait
<1>3. \A t \in AllThreads : status[t] \in {"running", "suspended"}
                            /\ (t \in Threads => status[t] = "suspended")
  BY ThreadsAssumption DEF Init, AllThreads
<1>4. NormalHasResumed
  BY <1>3 DEF NormalHasResumed
<1>5. ActiveIsHeld
  BY <1>3 DEF ActiveIsHeld, AllThreads
<1>6. FitsInv
  BY <1>3 DEF FitsInv, Fits, Init, AllThreads
<1>7. StartedInv
  BY <1>1 DEF StartedInv, Within, Init
<1> QED BY <1>2, <1>4, <1>5, <1>6, <1>7 DEF StackInv

(* When no handler yields while its coroutine is being closed, the fields of  *)
(* every LuaThread fit together and fit the activations: what resume_thread,  *)
(* close_thread and the finally blocks of both leave behind.                 *)
THEOREM StatusHolds == HandlersYield = FALSE => (Spec => [](TypeOK /\ StatusInv))
<1> SUFFICES ASSUME HandlersYield = FALSE PROVE Spec => [](TypeOK /\ StatusInv)
  OBVIOUS
<1>1. Init => TypeOK /\ StatusInv
  BY InitInv, InitStatus DEF StatusInv
<1>2. TypeOK /\ StatusInv /\ [Next]_vars => (TypeOK /\ StatusInv)'
  <2> SUFFICES ASSUME TypeOK, StatusInv, [Next]_vars PROVE (TypeOK /\ StatusInv)'
    OBVIOUS
  <2>1. Linked /\ ProtocolInv /\ StackInv /\ FitsInv /\ EntriesWait /\ StartedInv
    BY DEF StatusInv, ProtocolInv
  <2>2. TypeOK' /\ Linked'
    BY <2>1, NextTypes, NextLinked, NextShape
  <2>3. HeldIsAwake' /\ NoReentry'
    BY <2>1, NextAwake, NextNoReentry
  <2>4. StackInv' /\ FitsInv'
    BY <2>1, <2>2, NextStack, NextFits
  <2>5. EntriesWait' /\ StartedInv'
    BY <2>1, NextWaits, NextStarted
  <2> QED BY <2>2, <2>3, <2>4, <2>5 DEF StatusInv, ProtocolInv
<1> QED BY <1>1, <1>2, PTL DEF Spec

(* When no handler yields while its coroutine is being closed, the chain of   *)
(* activations stays as resume_thread, call_sync, close_thread and run make   *)
(* it, and no coroutine inside it rests in "suspended".                       *)
THEOREM ProtocolHolds == HandlersYield = FALSE => (Spec => []ProtocolInv)
<1>1. StatusInv => ProtocolInv
  BY DEF StatusInv
<1> QED BY <1>1, StatusHolds, PTL

(* Then resume_thread never enters a coroutine that an activation further out *)
(* is executing.                                                            *)
THEOREM NeverReentered == HandlersYield = FALSE => (Spec => []NoReentry)
<1>1. ProtocolInv => NoReentry
  BY DEF ProtocolInv
<1> QED BY <1>1, ProtocolHolds, PTL

(* Then the status string of a coroutine always has a reason: a "normal" one  *)
(* has resumed another that has not come back, a "running" or "normal" one is *)
(* held by an activation or was torn out of one, a dead one that kept its     *)
(* frames has the error a close will report, and a suspended one that was     *)
(* started, its entry no pcall, can be resumed.                              *)
THEOREM StatusTold == HandlersYield = FALSE => (Spec => []StatusTellsTruth)
<1>1. StatusInv => StatusTellsTruth
  <2>1. FitsInv => DeadFramesHaveError /\ SuspendedIsResumable
    BY DEF FitsInv, Fits, DeadFramesHaveError, SuspendedIsResumable
  <2> QED BY <2>1 DEF StatusInv, StackInv, StatusTellsTruth
<1> QED BY <1>1, StatusHolds, PTL

-----------------------------------------------------------------------------
(* A coroutine that is dead for good.                                        *)
Gone(t) == status[t] = "dead" /\ ~frames[t] /\ ~Held(t)

LEMMA GoneIsOutside ==
  ASSUME TypeOK, StatusInv, NEW t \in Threads, Gone(t)
  PROVE  ~Within(t) /\ tbc[t] = 0
<1>1. Linked /\ Anchored /\ Depth \in Nat /\ Fits(t)
  BY TopFacts DEF StatusInv, ProtocolInv, StackInv, FitsInv, TypeOK
<1>2. ~Within(t)
  <2> SUFFICES ASSUME NEW i \in 1 .. Depth, calls[i].thread = t PROVE FALSE
    BY DEF Within
  <2>1. PICK j \in 1 .. i : calls[j].thread = t /\ ~AsCaller(calls[j])
    BY <1>1 DEF Anchored
  <2>2. j \in 1 .. Depth
    BY <1>1
  <2> QED BY <2>1, <2>2 DEF Gone, Held
<1> QED BY <1>1, <1>2 DEF Fits, Gone

(* No step touches its fields, nor puts it on the stack.  Only the handler of  *)
(* an xpcall could give it a frame again.                                    *)
Untouched(t) == status'[t] = "dead" /\ ~frames'[t] /\ tbc'[t] = 0 /\ ~Held(t)'

LEMMA StaysGone ==
  ASSUME TypeOK, StatusInv, HandlersRevive = FALSE, [Next]_vars, NEW t \in Threads, Gone(t)
  PROVE  Untouched(t)
<1>1. /\ ~Within(t) /\ tbc[t] = 0 /\ status[t] = "dead" /\ ~frames[t] /\ t \in AllThreads
      /\ Linked /\ Depth \in Nat
  BY GoneIsOutside, TopFacts DEF Gone, AllThreads, StatusInv, ProtocolInv, TypeOK
<1>2. ~Within(t)' => ~Held(t)'
  BY DEF Within, Held
<1>3. CASE ~Addressed(t)
  BY <1>1, <1>2, <1>3, OutsideStays DEF SameFields, Spared, Untouched
<1>4. CASE \E k \in EntryKinds, w \in BOOLEAN : Create(t, k, w)
  <2>1. UNCHANGED <<status, frames, tbc, calls>>
    BY <1>4 DEF Create
  <2>2. ~Held(t)'
    BY <2>1 DEF Gone, Held
  <2> QED BY <1>1, <2>1, <2>2 DEF Untouched
<1>5. ~ResumeFirst(t) /\ ~ResumeAgain(t)
  BY <1>1 DEF ResumeFirst, ResumeAgain, Resumable
<1>6. CASE CloseOther(t)
  <2>1. UNCHANGED <<frames, tbc, calls>> /\ status'[t] = "dead"
    BY <1>1, <1>6 DEF CloseOther, TypeOK
  <2>2. ~Held(t)'
    BY <2>1 DEF Gone, Held
  <2> QED BY <1>1, <2>1, <2>2 DEF Untouched
<1>7. ~(EntryEnters /\ Top.into = t)
  BY <1>1 DEF EntryEnters
<1>8. CASE EntryWasClosed /\ Top.into = t
  <2>1. UNCHANGED <<frames, tbc>> /\ status'[t] = "dead" /\ Depth > 0 /\ PopTo(Depth - 1)
    BY <1>1, <1>8 DEF EntryWasClosed
  <2>2. Depth - 1 \in 0 .. Depth /\ \A i \in 1 .. Depth - 1 : i \in 1 .. Depth
    BY <1>1, <2>1
  <2>3. Len(calls') = Depth - 1 /\ Kept(Depth - 1)
    BY <1>1, <2>1, <2>2, PopToShape DEF Popped
  <2>4. ~Within(t)'
    BY <1>1, <2>2, <2>3 DEF Kept, Within
  <2> QED BY <1>1, <1>2, <2>1, <2>4 DEF Untouched
<1> QED BY <1>3, <1>4, <1>5, <1>6, <1>7, <1>8 DEF Addressed

(* When, besides, no Lua function is the handler of an xpcall entry whose host *)
(* target closes the coroutine it is to run in and then fails: a coroutine     *)
(* that is dead, with nothing left to close and no activation of its own, is   *)
(* never entered, closed by a loop or given a value to close again, whatever   *)
(* close_thread is asked to do to it.                                        *)
THEOREM DeadStaysDead ==
  HandlersYield = FALSE /\ HandlersRevive = FALSE => (Spec => DeadIsFinal)
<1> SUFFICES ASSUME HandlersYield = FALSE, HandlersRevive = FALSE PROVE Spec => DeadIsFinal
  OBVIOUS
<1>1. TypeOK /\ StatusInv /\ [Next]_vars =>
        [\A t \in Threads : status[t] = "dead" /\ ~frames[t] /\ ~Held(t) =>
           status'[t] = "dead" /\ ~frames'[t] /\ tbc'[t] = 0 /\ ~Held(t)']_vars
  BY StaysGone DEF Gone, Untouched
<1> QED BY <1>1, StatusHolds, PTL DEF Spec, DeadIsFinal

=============================================================================

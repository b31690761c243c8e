----------------------------- MODULE LuaThreads -----------------------------
(***************************************************************************)
(* The coroutine protocol of threadvm.CoroutineVM and its garbage-collected *)
(* subclass gcvm.GarbageCollectedVM: LuaThread objects, resume, yield,      *)
(* wrap, close (of another coroutine, of oneself, and while an error is     *)
(* stored), the synchronous library callback, a nested VM.run, and the two  *)
(* exceptions that cross several Python activations at once, LuaQuotaError  *)
(* and _CloseSelfSignal.                                                    *)
(*                                                                          *)
(* Lua code is not modelled: whatever code the current thread runs may take *)
(* any step that the library offers it.  What is modelled is the Python     *)
(* call stack that links the threads ("calls"), the status the code keeps   *)
(* in each LuaThread, and what the handlers and finally blocks do to both.  *)
(***************************************************************************)
EXTENDS Naturals, Sequences

CONSTANTS
  Threads,        \* the coroutine objects
  Main,           \* CoroutineVM.main_thread
  NoThread,       \* current_thread is None: no chunk is running
  EntryKinds,     \* what create_thread may be given, see Entries
  HandlersYield,  \* may a __close handler yield while its coroutine is closed?
  HandlersRevive, \* may an xpcall entry whose target closes its coroutine and
                  \* then fails have a Lua function as its handler?
  MaxCalls,       \* bound: nested activations
  MaxTbc          \* bound: pending to-be-closed values of a coroutine

(* A Lua function, pcall or xpcall (a HostFunction with a protected_mode),  *)
(* or any other HostFunction.                                               *)
Entries == {"lua", "protected", "host"}

ASSUME ThreadsAssumption ==
  /\ Main \notin Threads /\ NoThread \notin Threads /\ Main # NoThread
  /\ EntryKinds \subseteq Entries
  /\ HandlersYield \in BOOLEAN /\ HandlersRevive \in BOOLEAN
  /\ MaxCalls \in Nat /\ MaxTbc \in Nat

VARIABLES
  entry,    \* LuaThread.entry, by kind; "none" before create_thread
  wrapped,  \* was the coroutine made by coroutine.wrap?
  status,   \* LuaThread.status
  started,  \* LuaThread.started
  target,   \* LuaThread.yield_target is not None
  frames,   \* LuaThread.frames is not empty
  tbc,      \* values on the close_stacks of those frames
  err,      \* LuaThread.error is not None
  current,  \* VM.current_thread
  calls,    \* the Python activations of the VM, innermost last
  lost      \* history: threads whose resume_thread an exception left

vars == <<entry, wrapped, status, started, target, frames, tbc, err, current,
          calls, lost>>

AllThreads == Threads \cup {Main}
Statuses == {"suspended", "running", "normal", "dead"}

(* run: VM.run.  sync: call_sync.  resume: resume_thread running frames.     *)
(* host: resume_thread running a host entry.  entry: resume_thread running   *)
(* the host function that a pcall or xpcall entry is given, still as its      *)
(* caller.  close: _force_close from close_thread.  closeself: _force_close   *)
(* from _execute_thread.                                                     *)
Kinds == {"run", "sync", "resume", "host", "entry", "close", "closeself"}

(* busy: Lua or host code runs in the activation (a force-close is not busy  *)
(* between two handlers).  err: the error a force-close carries along, or     *)
(* which the handler of xpcall was called with.  into: the coroutine that an  *)
(* "entry" is about to enter.                                                *)
Activations == [kind: Kinds, thread: AllThreads \cup {NoThread},
                prev: AllThreads \cup {NoThread}, busy: BOOLEAN, err: BOOLEAN,
                into: Threads \cup {NoThread}]

TypeOK ==
  /\ entry \in [Threads -> Entries \cup {"none"}]
  /\ wrapped \in [Threads -> BOOLEAN]
  /\ status \in [AllThreads -> Statuses]
  /\ started \in [Threads -> BOOLEAN]
  /\ target \in [Threads -> BOOLEAN]
  /\ frames \in [Threads -> BOOLEAN]
  /\ tbc \in [Threads -> Nat]
  /\ err \in [Threads -> BOOLEAN]
  /\ current \in AllThreads \cup {NoThread}
  /\ calls \in Seq(Activations)
  /\ lost \in SUBSET AllThreads

Init ==
  /\ entry = [t \in Threads |-> "none"]
  /\ wrapped = [t \in Threads |-> FALSE]
  /\ status = [t \in AllThreads |-> IF t = Main THEN "running" ELSE "suspended"]
  /\ started = [t \in Threads |-> FALSE]
  /\ target = [t \in Threads |-> FALSE]
  /\ frames = [t \in Threads |-> FALSE]
  /\ tbc = [t \in Threads |-> 0]
  /\ err = [t \in Threads |-> FALSE]
  /\ current = NoThread
  /\ calls = <<>>
  /\ lost = {}

-----------------------------------------------------------------------------
(* The activation stack.                                                    *)

Depth == Len(calls)
Top == calls[Depth]

(* Lua code is running, so the library can be called.                       *)
Running == Depth > 0 /\ Top.busy

Resuming(a) == a.kind \in {"resume", "host"}
Closing(a) == a.kind \in {"close", "closeself"}

(* Host code that runs as the thread which called it.                        *)
AsCaller(a) == a.kind \in {"sync", "entry"}

Activation(kind, thread, error) ==
  [kind |-> kind, thread |-> thread, prev |-> current,
   busy |-> kind \notin {"close", "closeself"}, err |-> error, into |-> NoThread]

(* A handler of a force-close has ended; its error replaces the one carried.  *)
HandlerEnded(a, failed) == [a EXCEPT !.busy = FALSE, !.err = @ \/ failed]

PopToKeepingCurrent(k) ==    \* mutant: the finally block is forgotten
  /\ calls' = SubSeq(calls, 1, k)
  /\ UNCHANGED current

(* An exception or a return leaves the activations above the k outermost     *)
(* ones: every finally block restores current_thread, and that of            *)
(* resume_thread marks the resumer running again.                            *)
PopTo(k) ==
  /\ calls' = SubSeq(calls, 1, k)
  /\ current' = IF k = Depth THEN current ELSE calls[k + 1].prev

ResumerOf(k, t) == \E i \in k + 1 .. Depth : Resuming(calls[i]) /\ calls[i].prev = t

StatusAfterPop(k) ==
  [u \in AllThreads |-> IF ResumerOf(k, u) THEN "running" ELSE status[u]]

(* The same, with t left in status s.                                        *)
StatusLeaving(k, t, s) ==
  [u \in AllThreads |-> IF u = t THEN s
                        ELSE IF ResumerOf(k, u) THEN "running" ELSE status[u]]

StatusEntering(t) ==
  [u \in AllThreads |-> IF u = t THEN "running"
                        ELSE IF u = current THEN "normal" ELSE status[u]]

(* resume_thread, from "parent = self.current_thread" on.                   *)
EnterThread(t, kind) ==
  /\ Depth < MaxCalls
  /\ calls' = Append(calls, Activation(kind, t, FALSE))
  /\ current' = t
  /\ status' = StatusEntering(t)

OutermostCatches(i, S) ==    \* mutant: the signal passes the activations that catch it
  i \in S /\ \A j \in S : i <= j

(* The activation whose handler an exception meets first.                    *)
Innermost(i, S) == i \in S /\ \A j \in S : j <= i

-----------------------------------------------------------------------------
(* create_thread and wrap_thread.                                           *)
Create(t, kind, wrap) ==
  /\ Running /\ entry[t] = "none" /\ kind \in EntryKinds
  /\ entry' = [entry EXCEPT ![t] = kind]
  /\ wrapped' = [wrapped EXCEPT ![t] = wrap]
  /\ UNCHANGED <<status, started, target, frames, tbc, err, current, calls, lost>>

ResumableWhenDead(t) ==    \* mutant: the dead status is not tested
  /\ Running /\ entry[t] # "none"
  /\ status[t] \notin {"running", "normal"} /\ t # current

(* resume_thread refuses a dead, running, normal or current thread.         *)
Resumable(t) ==
  /\ Running /\ entry[t] # "none"
  /\ status[t] = "suspended" /\ t # current

(* pcall and xpcall as entries call their target before resume_thread        *)
(* switches anything: a Lua function only becomes a frame, a host function    *)
(* runs then and there, and current_thread is still the resumer.              *)
ResumeFirst(t) ==
  /\ Resumable(t) /\ ~started[t]
  /\ started' = [started EXCEPT ![t] = TRUE]
  /\ err' = [err EXCEPT ![t] = FALSE]
  /\ frames' = [frames EXCEPT ![t] = entry[t] # "host"]
  /\ \/ EnterThread(t, IF entry[t] = "host" THEN "host" ELSE "resume")
     \/ /\ entry[t] = "protected" /\ Depth < MaxCalls
        /\ calls' = Append(calls, [Activation("entry", current, FALSE) EXCEPT !.into = t])
        /\ UNCHANGED <<status, current>>
  /\ UNCHANGED <<entry, wrapped, target, tbc, lost>>

(* The target failed; xpcall's handler, a host function too, takes over.      *)
EntryFails ==
  /\ Running /\ Top.kind = "entry" /\ ~Top.err
  /\ calls' = [calls EXCEPT ![Depth].err = TRUE]
  /\ UNCHANGED <<entry, wrapped, status, started, target, frames, tbc, err,
                 current, lost>>

(* The target, or the handler, has come to an end, and the coroutine runs on    *)
(* its frames.  A target that closed it has left none, but the frame of a Lua *)
(* handler, called when the target failed after that, takes their place.      *)
EntryEnters ==
  /\ Depth > 0 /\ Top.kind = "entry"
  /\ frames[Top.into] \/ HandlersRevive
  /\ frames' = [frames EXCEPT ![Top.into] = TRUE]
  /\ calls' = [calls EXCEPT ![Depth] = Activation("resume", Top.into, FALSE)]
  /\ current' = Top.into
  /\ status' = StatusEntering(Top.into)
  /\ UNCHANGED <<entry, wrapped, started, target, tbc, err, lost>>

(* Without frames the coroutine is over as soon as it runs.                   *)
EntryWasClosed ==
  /\ Depth > 0 /\ Top.kind = "entry" /\ ~frames[Top.into]
  /\ PopTo(Depth - 1)
  /\ status' = [u \in AllThreads |-> IF u = Top.into THEN "dead"
                                     ELSE IF u = current THEN "running"
                                     ELSE status[u]]
  /\ err' = [err EXCEPT ![Top.into] = FALSE]
  /\ UNCHANGED <<entry, wrapped, started, target, frames, tbc, lost>>

ResumeAgain(t) ==
  /\ Resumable(t) /\ started[t] /\ target[t]
  /\ target' = [target EXCEPT ![t] = FALSE]
  /\ EnterThread(t, "resume")
  /\ UNCHANGED <<entry, wrapped, started, frames, tbc, err, lost>>

(* The _YieldSignal passes the entries whose target raised it.  Below         *)
(* resume_thread it suspends the coroutine; call_sync and a host entry reject *)
(* it, and outside a coroutine coroutine.yield raises an ordinary error.      *)
Receivers == {i \in 1 .. Depth : calls[i].kind # "entry"}

YieldReaches(k) ==
  \/ /\ calls[k].kind = "resume"
     /\ target' = [target EXCEPT ![current] = TRUE]
     /\ status' = StatusLeaving(k - 1, current, "suspended")
     /\ PopTo(k - 1)
  \/ /\ calls[k].kind = "host"
     /\ target' = [target EXCEPT ![current] = @ \/ k < Depth]
     /\ status' = StatusLeaving(k - 1, current, "dead")
     /\ PopTo(k - 1)
  \/ /\ calls[k].kind = "sync" /\ current \in Threads
     /\ target' = [target EXCEPT ![current] = TRUE]
     /\ PopTo(k - 1)
     /\ UNCHANGED status
  \/ /\ Closing(calls[k]) /\ HandlersYield
     /\ target' = [target EXCEPT ![current] = TRUE]
     /\ status' = [status EXCEPT ![current] = "suspended"]
     /\ calls' = [SubSeq(calls, 1, k) EXCEPT ![k] = HandlerEnded(@, TRUE)]
     /\ UNCHANGED current
  \/ /\ current \notin Threads
     /\ UNCHANGED <<target, status, calls, current>>

Yield ==
  /\ Running
  /\ \E k \in 1 .. Depth : Innermost(k, Receivers) /\ YieldReaches(k)
  /\ UNCHANGED <<entry, wrapped, started, frames, tbc, err, lost>>

-----------------------------------------------------------------------------
(* The body of a coroutine.                                                 *)

Body(kind) == Running /\ Top.kind = kind

OpenTbc ==
  /\ Body("resume") /\ tbc[current] < MaxTbc
  /\ tbc' = [tbc EXCEPT ![current] = @ + 1]
  /\ UNCHANGED <<entry, wrapped, status, started, target, frames, err, current,
                 calls, lost>>

CloseTbcTwice ==    \* mutant: a value is popped from an empty close_stack
  /\ Body("resume")
  /\ tbc' = [tbc EXCEPT ![current] = @ - 1]
  /\ UNCHANGED <<entry, wrapped, status, started, target, frames, err, current,
                 calls, lost>>

(* A scope of the body ends; its handler runs as a frame of the coroutine.   *)
CloseTbc ==
  /\ Body("resume") /\ tbc[current] > 0
  /\ tbc' = [tbc EXCEPT ![current] = @ - 1]
  /\ UNCHANGED <<entry, wrapped, status, started, target, frames, err, current,
                 calls, lost>>

BodyReturns ==
  /\ Body("resume") /\ tbc[current] = 0
  /\ status' = StatusLeaving(Depth - 1, current, "dead")
  /\ frames' = [frames EXCEPT ![current] = FALSE]
  /\ err' = [err EXCEPT ![current] = FALSE]
  /\ PopTo(Depth - 1)
  /\ UNCHANGED <<entry, wrapped, started, target, tbc, lost>>

(* An error no pcall of the coroutine catches keeps the frames for a later   *)
(* close; the function made by coroutine.wrap closes at once.                *)
BodyFails ==
  /\ Body("resume")
  /\ err' = [err EXCEPT ![current] = TRUE]
  /\ IF wrapped[current]
     THEN /\ calls' = [calls EXCEPT ![Depth] =
                         [@ EXCEPT !.kind = "close", !.busy = FALSE, !.err = TRUE]]
          /\ status' = StatusLeaving(Depth - 1, current, "running")
          /\ UNCHANGED current
     ELSE /\ status' = StatusLeaving(Depth - 1, current, "dead")
          /\ PopTo(Depth - 1)
  /\ UNCHANGED <<entry, wrapped, started, target, frames, tbc, lost>>

(* A host entry has no frames: a wrapper that closes it after a failure only *)
(* consumes the stored error.                                                *)
HostEnds(failed) ==
  /\ Body("host")
  /\ status' = StatusLeaving(Depth - 1, current, "dead")
  /\ err' = [err EXCEPT ![current] = failed /\ ~wrapped[current]]
  /\ PopTo(Depth - 1)
  /\ UNCHANGED <<entry, wrapped, started, target, frames, tbc, lost>>

-----------------------------------------------------------------------------
(* coroutine.close and _force_close.                                        *)

(* close_thread of a coroutine that is not the current one.                  *)
CloseOther(t) ==
  /\ Running /\ entry[t] # "none" /\ t # current
  /\ status[t] \in {"suspended", "dead"}
  /\ IF frames[t]
     THEN /\ Depth < MaxCalls
          /\ calls' = Append(calls, Activation("close", t, err[t]))
          /\ current' = t
          /\ status' = [status EXCEPT ![t] = "running"]
          /\ UNCHANGED err
     ELSE /\ status' = [status EXCEPT ![t] = "dead"]
          /\ err' = [err EXCEPT ![t] = FALSE]
          /\ UNCHANGED <<calls, current>>
  /\ UNCHANGED <<entry, wrapped, started, target, frames, tbc, lost>>

(* coroutine.close() in a coroutine raises _CloseSelfSignal.  The innermost  *)
(* _execute_thread catches it and closes ITS thread; library callbacks,      *)
(* nested runs and host entries on the way are torn down.                    *)
Executing == {i \in 1 .. Depth : calls[i].kind \in {"resume", "close", "closeself"}}

Torn(k) == {calls[i].thread : i \in {j \in k + 1 .. Depth : Resuming(calls[j])}}

CloseSelf ==
  /\ Running /\ current \in Threads
  /\ IF Executing = {}
     THEN /\ PopTo(0)
          /\ status' = StatusAfterPop(0)
          /\ lost' = lost \cup Torn(0)
     ELSE \E e \in 1 .. Depth :
            LET t == calls[e].thread
            IN  /\ Innermost(e, Executing) /\ e < MaxCalls
                /\ calls' = Append(SubSeq(calls, 1, e),
                                   [Activation("closeself", t, FALSE) EXCEPT !.prev = t])
                /\ current' = t
                /\ status' = StatusLeaving(e, t, "running")
                /\ lost' = lost \cup Torn(e)
  /\ UNCHANGED <<entry, wrapped, started, target, frames, tbc, err>>

(* The loop of _force_close: pop a value, run its handler.                   *)
RunHandler ==
  /\ Depth > 0 /\ Closing(Top) /\ ~Top.busy /\ tbc[current] > 0
  /\ tbc' = [tbc EXCEPT ![current] = @ - 1]
  /\ calls' = [calls EXCEPT ![Depth] = [@ EXCEPT !.busy = TRUE]]
  /\ UNCHANGED <<entry, wrapped, status, started, target, frames, err, current, lost>>

HandlerReturns ==
  /\ Running /\ Closing(Top)
  /\ calls' = [calls EXCEPT ![Depth] = HandlerEnded(@, FALSE)]
  /\ UNCHANGED <<entry, wrapped, status, started, target, frames, tbc, err,
                 current, lost>>

(* An error of a Lua handler is stored in the thread by _execute_thread; one  *)
(* of a host handler is only carried along.                                  *)
HandlerFails(inLua) ==
  /\ Running /\ Closing(Top)
  /\ calls' = [calls EXCEPT ![Depth] = HandlerEnded(@, TRUE)]
  /\ err' = [err EXCEPT ![current] = @ \/ inLua]
  /\ status' = [status EXCEPT ![current] = IF inLua THEN "dead" ELSE @]
  /\ UNCHANGED <<entry, wrapped, started, target, frames, tbc, current, lost>>

Closed == Depth > 0 /\ Closing(Top) /\ ~Top.busy /\ tbc[current] = 0

FinishCloseInStatus(s) ==
  /\ Closed /\ Top.kind = "close"
  /\ status' = [status EXCEPT ![current] = s]
  /\ frames' = [frames EXCEPT ![current] = FALSE]
  /\ err' = [err EXCEPT ![current] = FALSE]
  /\ PopTo(Depth - 1)
  /\ UNCHANGED <<entry, wrapped, started, target, tbc, lost>>

FinishCloseRunning ==    \* mutant: the finally block leaves the status alone
  FinishCloseInStatus("running")

(* close_thread reports and consumes the failure.                            *)
FinishClose ==
  /\ Closed /\ Top.kind = "close"
  /\ status' = [status EXCEPT ![current] = "dead"]
  /\ frames' = [frames EXCEPT ![current] = FALSE]
  /\ err' = [err EXCEPT ![current] = FALSE]
  /\ PopTo(Depth - 1)
  /\ UNCHANGED <<entry, wrapped, started, target, tbc, lost>>

(* _execute_thread, after _CloseSelfSignal: the activation it belongs to     *)
(* ends too.  That is the resume of the thread, or a handler of an outer     *)
(* force-close, whose loop goes on.                                          *)
FinishCloseSelf ==
  /\ Closed /\ Top.kind = "closeself"
  /\ frames' = [frames EXCEPT ![current] = FALSE]
  /\ IF calls[Depth - 1].kind = "resume"
     THEN /\ err' = [err EXCEPT ![current] = Top.err /\ ~wrapped[current]]
          /\ status' = StatusLeaving(Depth - 2, current, "dead")
          /\ PopTo(Depth - 2)
     ELSE /\ err' = [err EXCEPT ![current] = Top.err]
          /\ status' = [status EXCEPT ![current] = "dead"]
          /\ calls' = [SubSeq(calls, 1, Depth - 1) EXCEPT
                         ![Depth - 1] = HandlerEnded(@, Top.err)]
          /\ UNCHANGED current
  /\ UNCHANGED <<entry, wrapped, started, target, tbc, lost>>

-----------------------------------------------------------------------------
(* Boundaries crossed by host code, and the execution quota.                *)

(* call_sync: a library function calls back into Lua, or the embedding calls *)
(* a bound Lua function.                                                     *)
EnterSync ==
  /\ Running \/ Depth = 0
  /\ Depth < MaxCalls
  /\ calls' = Append(calls, Activation("sync", current, FALSE))
  /\ UNCHANGED <<entry, wrapped, status, started, target, frames, tbc, err,
                 current, lost>>

(* VM.run: the embedding runs a chunk, also from inside a host callback.     *)
EnterRun ==
  /\ Running \/ Depth = 0
  /\ Depth < MaxCalls
  /\ calls' = Append(calls, Activation("run", Main, FALSE))
  /\ current' = Main
  /\ status' = [status EXCEPT ![Main] = "running"]
  /\ UNCHANGED <<entry, wrapped, started, target, frames, tbc, err, lost>>

(* Either ends, normally or with an error that its caller sees.              *)
LeaveBoundary ==
  /\ Body("sync") \/ Body("run")
  /\ PopTo(Depth - 1)
  /\ UNCHANGED <<entry, wrapped, status, started, target, frames, tbc, err, lost>>

(* LuaQuotaError is re-raised by every interpreter loop and by pcall, but it  *)
(* is a LuaRuntimeError: a force-close carries it along as the error of its   *)
(* handler, a host entry fails with it, and so does the handler of xpcall.    *)
Catching ==
  {i \in 1 .. Depth : \/ calls[i].kind \in {"close", "closeself", "host"}
                     \/ (calls[i].kind = "entry" /\ calls[i].err)}

QuotaExceeded ==
  /\ Running /\ Top.kind \notin {"host", "entry"}
  /\ IF Catching = {}
     THEN /\ PopTo(0)
          /\ status' = StatusAfterPop(0)
          /\ lost' = lost \cup Torn(0)
          /\ UNCHANGED err
     ELSE \E q \in 1 .. Depth :
            LET t == calls[q].thread
            IN  /\ Innermost(q, Catching)
                /\ lost' = lost \cup Torn(q)
                /\ IF calls[q].kind = "host"
                   THEN /\ PopTo(q - 1)
                        /\ status' = StatusLeaving(q - 1, t, "dead")
                        /\ err' = [err EXCEPT ![t] = ~wrapped[t]]
                   ELSE /\ calls' = [SubSeq(calls, 1, q) EXCEPT
                                       ![q] = HandlerEnded(@, TRUE)]
                        /\ current' = t
                        /\ status' = StatusAfterPop(q)
                        /\ UNCHANGED err
  /\ UNCHANGED <<entry, wrapped, started, target, frames, tbc>>

-----------------------------------------------------------------------------
Next ==
  \/ \E t \in Threads, k \in EntryKinds, w \in BOOLEAN : Create(t, k, w)
  \/ \E t \in Threads : ResumeFirst(t)
  \/ \E t \in Threads : ResumeAgain(t)
  \/ EntryFails
  \/ EntryEnters
  \/ EntryWasClosed
  \/ \E t \in Threads : CloseOther(t)
  \/ Yield
  \/ OpenTbc
  \/ CloseTbc
  \/ BodyReturns
  \/ BodyFails
  \/ \E failed \in BOOLEAN : HostEnds(failed)
  \/ CloseSelf
  \/ RunHandler
  \/ HandlerReturns
  \/ \E inLua \in BOOLEAN : HandlerFails(inLua)
  \/ FinishClose
  \/ FinishCloseSelf
  \/ EnterSync
  \/ EnterRun
  \/ LeaveBoundary
  \/ QuotaExceeded

Spec == Init /\ [][Next]_vars

-----------------------------------------------------------------------------
(* Properties.                                                              *)

(* A coroutine whose body or close handlers are being executed by one        *)
(* activation is never entered by resume_thread again further up: the        *)
(* status and identity tests of resume_thread suffice to keep a frame list   *)
(* from being run by two interpreter loops at once.                          *)
NoReentry ==
  \A i, j \in 1 .. Depth :
    i < j /\ Resuming(calls[j]) => calls[i].thread # calls[j].thread

(* The status string tells the truth: a coroutine that reports "normal" has  *)
(* resumed another one that has not come back.                               *)
NormalHasResumed ==
  \A t \in AllThreads : status[t] = "normal" =>
    \E i \in 1 .. Depth : Resuming(calls[i]) /\ calls[i].prev = t

Held(t) == \E i \in 1 .. Depth : calls[i].thread = t /\ ~AsCaller(calls[i])

(* A coroutine that reports "running" or "normal" is held by an activation,   *)
(* or was torn down by an exception that crossed resume_thread.              *)
ActiveIsHeld ==
  \A t \in Threads : status[t] \in {"running", "normal"} =>
    t \in lost \/ Held(t)

(* A dead coroutine that still has frames has a failure that close will      *)
(* report: no frame list is kept without the error that stopped it.          *)
DeadFramesHaveError ==
  \A t \in Threads : status[t] = "dead" /\ frames[t] => err[t]

(* How the activations hang together: the saved current_thread of each is    *)
(* the thread of the one below, a coroutine that closes itself is closed      *)
(* inside the _execute_thread that ran it, and entries run as their caller.  *)
Linked ==
  /\ current = IF Depth = 0 THEN NoThread ELSE Top.thread
  /\ \A i \in 1 .. Depth :
       LET a == calls[i] IN
       /\ a.prev = IF i = 1 THEN NoThread ELSE calls[i - 1].thread
       /\ Resuming(a) \/ Closing(a) => a.thread \in Threads
       /\ a.kind = "entry" => a.into \in Threads /\ a.thread = a.prev
       /\ a.kind = "closeself" =>
            /\ i > 1 /\ calls[i - 1].thread = a.thread
            /\ calls[i - 1].kind \in {"resume", "close", "closeself"}
  /\ \A i, j \in 1 .. Depth :
       i < j /\ (\A m \in i + 1 .. j : calls[m].kind = "entry") =>
         calls[j].thread = calls[i].thread

(* No coroutine inside an activation rests in "suspended", the one status    *)
(* from which resume_thread enters it.                                       *)
HeldIsAwake ==
  \A i \in 1 .. Depth :
    calls[i].thread \in Threads => status[calls[i].thread] # "suspended"

(* The inductive invariant behind NoReentry: how resume_thread, call_sync,   *)
(* close_thread and run hang together, and what that keeps them from.        *)
ProtocolInv == Linked /\ HeldIsAwake /\ NoReentry

(* A coroutine that rests in "suspended" after it was started can be resumed *)
(* again: resume_thread left it a yield target.  Not so one whose entry is   *)
(* pcall or xpcall, when the target of that leaves by an exception.          *)
SuspendedIsResumable ==
  \A t \in Threads :
    status[t] = "suspended" /\ started[t] /\ entry[t] # "protected" =>
      target[t] /\ frames[t]

(* All of the above: whatever a coroutine reports, there is a reason for it.  *)
StatusTellsTruth ==
  NormalHasResumed /\ ActiveIsHeld /\ DeadFramesHaveError /\ SuspendedIsResumable

(* A coroutine that is dead, with nothing left to close and no activation    *)
(* inside it, is never entered, closed or given a value to close again.      *)
DeadIsFinal ==
  [][\A t \in Threads : status[t] = "dead" /\ ~frames[t] /\ ~Held(t) =>
       status'[t] = "dead" /\ ~frames'[t] /\ tbc'[t] = 0 /\ ~Held(t)']_vars

(* A coroutine is active while an activation holds it; one that reports        *)
(* "running" or "normal" then is lost.                                       *)
Life(t) ==
  IF Held(t) THEN "active"
  ELSE IF entry[t] = "none" THEN "none"
  ELSE IF status[t] \in {"running", "normal"} THEN "lost" ELSE status[t]

Does(kind) ==
  CASE kind \in {"run", "sync"} -> "call"
    [] kind = "resume" -> "body"
    [] kind = "host" -> "host"
    [] kind = "entry" -> "enter"
    [] OTHER -> "close"

LifeOf == [t \in Threads |-> Life(t)]
Chain == [i \in 1 .. Depth |-> [who |-> calls[i].thread, does |-> Does(calls[i].kind)]]

Coroutines == INSTANCE LuaCoroutines WITH life <- LifeOf, chain <- Chain

(* The activations are the chain that the library promises: a yield goes back  *)
(* to the one who resumed, nobody is resumed who has not yielded, a coroutine   *)
(* is over once, and an error that leaves several activations leaves the rest   *)
(* of them, and all other coroutines, as they were (resume_thread,             *)
(* close_thread, _execute_thread, call_sync and run against one another).      *)
ImplementsCoroutines == Coroutines!Spec

=============================================================================

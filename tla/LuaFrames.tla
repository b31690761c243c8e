------------------------------ MODULE LuaFrames ------------------------------
(***************************************************************************)
(* The frame machine of vm.VM: calls, tail calls, pcall and xpcall, errors    *)
(* that unwind the frames, and the __close handlers that run on the way.     *)
(*                                                                          *)
(* The frames are those of a main chunk (VM.run) or of a coroutine, whose     *)
(* loop does not unwind an error that no frame protects against.  Of a        *)
(* result only its head is kept: the statuses that protected calls put there, *)
(* and an error.                                                            *)
(***************************************************************************)
EXTENDS Naturals, Sequences

CONSTANTS
  Thrown,      \* errors a program raises
  Overflow,    \* "stack overflow"
  InHandling,  \* "error in error handling", "C stack overflow"
  NoError,
  MaxFrames,   \* VM.max_frames
  MaxHandlers, \* 200 in the code: errors of xpcall handlers, one in the other
  MaxTbc,      \* bound: pending values of a frame
  Odd          \* which of OddCalls the program makes

(* Forms of pcall and xpcall that do not return where they should, see        *)
(* ProtectedCall, CallHandler and Resume.                                    *)
OddCalls == {"nested tail call", "handler of a tail call", "nested yield"}

Errors == Thrown \cup {Overflow, InHandling}

ASSUME FramesAssumption ==
  /\ NoError \notin Errors /\ Overflow \notin Thrown /\ InHandling \notin Thrown
  /\ Overflow # InHandling
  /\ MaxFrames \in Nat \ {0} /\ MaxHandlers \in Nat \ {0} /\ MaxTbc \in Nat
  /\ Odd \subseteq OddCalls

VARIABLES
  coroutine,  \* do the frames belong to a coroutine?
  frames,
  nest,       \* a trampoline on top has still to call: the frame that called
              \* pcall, and whether that is a tail call
  yielded,    \* LuaThread.yield_target and yield_prefix
  got,        \* the head of the result written last, if just written
  dead,       \* the error that ended the execution, or NoError
  fate        \* history: what became of the value that was popped last

vars == <<coroutine, frames, nest, yielded, got, dead, fate>>

(* tramp: the code is a RETURNV that hands on what it gets.                  *)
(* tbc: close_stack, as a number.  target: pending_close_target, None as Open.  *)
(* err: pending_error.                                                      *)
(* prot: protected_name, with the kind of protected_handler; it also decides  *)
(* return_prefix and return_limit.  depth: protected_error_depth.            *)
(* drop: return_want is 0.  astray: return_reg is not that of the caller.     *)
Open == MaxTbc + 1
Protections == {"none", "plain", "lua", "host", "handler"}
FrameSet ==
  [tramp: BOOLEAN, tbc: 0 .. MaxTbc, target: 0 .. Open, err: Errors \cup {NoError},
   prot: Protections, depth: 0 .. MaxHandlers, drop: BOOLEAN, astray: BOOLEAN]

NoNest == [on |-> FALSE, base |-> 0, tail |-> FALSE]
Nests == [on: BOOLEAN, base: 0 .. MaxFrames, tail: BOOLEAN]

TypeOK ==
  /\ coroutine \in BOOLEAN
  /\ frames \in Seq(FrameSet) /\ Len(frames) <= MaxFrames
  /\ nest \in Nests /\ yielded \in [on: BOOLEAN, base: 0 .. MaxFrames, tail: BOOLEAN,
                                    status: BOOLEAN]
  /\ got \in Seq(BOOLEAN \cup Errors)
  /\ dead \in Errors \cup {NoError}
  /\ fate \in {"none", "closed", "full", "stopped"}

-----------------------------------------------------------------------------
Depth == Len(frames)
Top == frames[Depth]
Below(fs) == SubSeq(fs, 1, Len(fs) - 1)

NewFrame ==
  [tramp |-> FALSE, tbc |-> 0, target |-> Open, err |-> NoError, prot |-> "none",
   depth |-> 0, drop |-> FALSE, astray |-> FALSE]

(* The frame that replaces f, which makes a tail call.                        *)
Replacing(f) ==
  [NewFrame EXCEPT !.prot = f.prot, !.depth = f.depth, !.drop = f.drop,
                   !.astray = f.astray]

Trampoline(f) == [f EXCEPT !.tramp = TRUE]
Handler(f) == [f EXCEPT !.prot = "handler", !.depth = @ + 1]

NotYielded == [on |-> FALSE, base |-> 0, tail |-> FALSE, status |-> FALSE]

Ready ==
  /\ frames # <<>> /\ dead = NoError /\ ~yielded.on
  /\ Top.err = NoError /\ Top.target = Open

Runs == Ready /\ ~Top.tramp

(* Nothing is left to close before a tail call or a return.                  *)
Leaves == Runs /\ Top.tbc = 0

(* _return: return_prefix and return_limit.                                  *)
Passed(prot, r) ==
  CASE prot = "none" -> r
    [] prot = "handler" -> <<FALSE>> \o SubSeq(r, 1, IF Len(r) > 0 THEN 1 ELSE 0)
    [] OTHER -> <<TRUE>> \o r

(* The top frame of fs returns r.                                            *)
Returns(fs, r) ==
  LET f == fs[Len(fs)] IN
  /\ frames' = Below(fs)
  /\ got' = IF Len(fs) > 1 /\ (f.drop \/ f.astray) THEN <<>> ELSE Passed(f.prot, r)

RaisesUnprotected(fs, e) ==    \* mutant: a coroutine unwinds in any case
  IF fs = <<>>
  THEN frames' = fs /\ dead' = e
  ELSE frames' = [fs EXCEPT ![Len(fs)].err = e] /\ UNCHANGED dead

(* The interpreter loop catches e in the top frame of fs; that of a coroutine  *)
(* gives up when no frame is protected.                                      *)
Raises(fs, e) ==
  IF fs = <<>> \/ (coroutine /\ \A i \in DOMAIN fs : fs[i].prot = "none")
  THEN frames' = fs /\ dead' = e
  ELSE frames' = [fs EXCEPT ![Len(fs)].err = e] /\ UNCHANGED dead

Plain == UNCHANGED <<coroutine, nest, yielded>> /\ fate' = "none"

-----------------------------------------------------------------------------
(* Instructions.                                                            *)

(* VM.run, or the first resume of a coroutine.                               *)
Begin(co) ==
  /\ frames = <<>> \/ dead # NoError
  /\ coroutine' = co /\ frames' = <<NewFrame>>
  /\ nest' = NoNest /\ yielded' = NotYielded /\ got' = <<>> /\ dead' = NoError
  /\ fate' = "stopped"

Step == Runs /\ got' = <<>> /\ UNCHANGED <<frames, dead>> /\ Plain

OpenTbc ==
  /\ Runs /\ Top.tbc < MaxTbc
  /\ frames' = [frames EXCEPT ![Depth].tbc = @ + 1]
  /\ got' = <<>> /\ UNCHANGED dead /\ Plain

CloseScope(n) ==
  /\ Runs /\ n <= Top.tbc
  /\ frames' = [frames EXCEPT ![Depth].target = n]
  /\ got' = <<>> /\ UNCHANGED dead /\ Plain

Raise(e) == Runs /\ Raises(frames, e) /\ got' = <<>> /\ Plain

Call ==
  /\ Runs
  /\ IF Depth >= MaxFrames THEN Raises(frames, Overflow)
     ELSE frames' = Append(frames, NewFrame) /\ UNCHANGED dead
  /\ got' = <<>> /\ Plain

TailCallForgettingHandler ==    \* mutant: protected_name is not copied
  /\ Leaves
  /\ frames' = Append(Below(frames), [Replacing(Top) EXCEPT !.prot = "none"])
  /\ got' = <<>> /\ UNCHANGED dead /\ Plain

TailCall ==
  /\ Leaves
  /\ frames' = Append(Below(frames), Replacing(Top))
  /\ got' = <<>> /\ UNCHANGED dead /\ Plain

Return ==
  /\ Leaves \/ (Ready /\ Top.tramp /\ ~nest.on)
  /\ Returns(frames, IF Top.tramp THEN got ELSE <<>>)
  /\ UNCHANGED dead /\ Plain

-----------------------------------------------------------------------------
(* pcall and xpcall.                                                        *)

(* Who may call: a function, or a trampoline that has still to call.          *)
MayProtect(tail) == IF tail THEN Leaves ELSE Runs \/ (Ready /\ nest.on)

Gives(tail, r) ==
  IF tail THEN Returns(frames, r) ELSE got' = r /\ UNCHANGED frames

(* The except clause: e happened before any frame of the target was there.    *)
CallHandler(kind, tail, e) ==
  CASE kind = "plain" -> Gives(tail, <<FALSE, e>>)
    [] kind = "host" -> Gives(tail, <<FALSE>>)
    [] kind = "lua" /\ tail ->
         /\ "handler of a tail call" \in Odd
         /\ frames' = Append(Below(frames), Handler([NewFrame EXCEPT !.astray = TRUE]))
         /\ got' = <<>>
    [] kind = "lua" /\ ~tail ->
         IF Depth >= MaxFrames THEN Gives(FALSE, <<FALSE, InHandling>>)
         ELSE frames' = Append(frames, Handler(NewFrame)) /\ got' = <<>>

(* The target is a Lua function.  A tail call leaves a trampoline behind.     *)
ProtectedCall(kind, tail) ==
  /\ MayProtect(tail)
  /\ LET target == [NewFrame EXCEPT !.prot = kind] IN
     IF Depth >= MaxFrames THEN CallHandler(kind, tail, Overflow)
     ELSE /\ frames' = IF tail
                       THEN Below(frames) \o <<Trampoline(Replacing(Top)), target>>
                       ELSE Append(frames, target)
          /\ got' = <<>>
  /\ nest' = NoNest /\ fate' = "none" /\ UNCHANGED <<coroutine, yielded, dead>>

(* The target is pcall or xpcall.                                            *)
NestedCall(kind, tail) ==
  /\ MayProtect(tail) /\ (tail => "nested tail call" \in Odd)
  /\ LET tramp == Trampoline([NewFrame EXCEPT !.prot = kind]) IN
     IF ~tail /\ Depth >= MaxFrames
     THEN CallHandler(kind, tail, Overflow) /\ nest' = NoNest
     ELSE /\ frames' = IF tail
                       THEN Append(Below(frames),
                              [tramp EXCEPT !.drop = Top.drop, !.astray = Top.astray])
                       ELSE Append(frames, tramp)
          /\ got' = <<>>
          /\ nest' = IF nest.on THEN nest ELSE [on |-> TRUE, base |-> Depth, tail |-> tail]
  /\ fate' = "none" /\ UNCHANGED <<coroutine, yielded, dead>>

(* The target is a host function, or cannot be called; e is its error, or     *)
(* NoError.                                                                 *)
ProtectedHostCall(kind, tail, e) ==
  /\ MayProtect(tail)
  /\ IF e = NoError THEN Gives(tail, <<TRUE>>) ELSE CallHandler(kind, tail, e)
  /\ nest' = NoNest /\ fate' = "none" /\ UNCHANGED <<coroutine, yielded, dead>>

(* pcall or xpcall without arguments does not return from a tail call.        *)
BareCall(e) ==
  /\ MayProtect(FALSE) /\ got' = <<FALSE, e>>
  /\ nest' = NoNest /\ fate' = "none" /\ UNCHANGED <<coroutine, frames, yielded, dead>>

-----------------------------------------------------------------------------
(* Coroutines: a host function yields, called as it is or by pcall (status).  *)
Yield(tail, status) ==
  /\ coroutine
  /\ IF status THEN MayProtect(tail) ELSE IF tail THEN Leaves ELSE Runs
  /\ nest.on => "nested yield" \in Odd
  /\ yielded' = [on |-> TRUE, base |-> IF nest.on THEN nest.base ELSE Depth,
                 tail |-> IF nest.on THEN nest.tail ELSE tail, status |-> status]
  /\ got' = <<>> /\ nest' = NoNest /\ fate' = "none"
  /\ UNCHANGED <<coroutine, frames, dead>>

(* The arguments of resume are the results, in the registers of a frame that   *)
(* need not be on top.                                                      *)
Resume ==
  /\ yielded.on
  /\ LET r == IF yielded.status THEN <<TRUE>> ELSE <<>> IN
     IF yielded.tail THEN Returns(frames, r)
     ELSE got' = (IF yielded.base = Depth THEN r ELSE <<>>) /\ UNCHANGED frames
  /\ yielded' = NotYielded /\ fate' = "none" /\ UNCHANGED <<coroutine, nest, dead>>

-----------------------------------------------------------------------------
(* _drive_pending.                                                          *)

Driven == frames # <<>> /\ dead = NoError /\ ~yielded.on

(* The last value of the top frame is popped: nil, with a host handler that    *)
(* returns or fails with e, or with a Lua handler.                           *)
PopValue ==
  LET fs == [frames EXCEPT ![Depth].tbc = @ - 1] IN
  \/ /\ frames' = fs /\ fate' = "closed" /\ UNCHANGED dead
  \/ \E e \in Thrown : Raises(fs, e) /\ fate' = "closed"
  \/ IF Depth >= MaxFrames
     THEN Raises(fs, Overflow) /\ fate' = "full"
     ELSE /\ frames' = Append(fs, [NewFrame EXCEPT !.drop = TRUE])
          /\ fate' = "closed" /\ UNCHANGED dead

CloseValue ==
  /\ Driven /\ (Top.err # NoError \/ Top.target # Open)
  /\ Top.tbc > (IF Top.err # NoError THEN 0 ELSE Top.target)
  /\ PopValue
  /\ got' = <<>> /\ UNCHANGED <<coroutine, nest, yielded>>

ScopeClosed ==
  /\ Driven /\ Top.err = NoError /\ Top.target # Open /\ Top.tbc <= Top.target
  /\ frames' = [frames EXCEPT ![Depth].target = Open]
  /\ got' = <<>> /\ UNCHANGED dead /\ Plain

UnwindsPastValues ==    \* mutant: a frame is popped before its values are closed
  /\ Driven /\ Top.err # NoError /\ Top.prot = "none"
  /\ Raises(Below(frames), Top.err)
  /\ got' = <<>> /\ Plain

(* The error goes to the caller, in place of one that waits there.            *)
Unwind ==
  /\ Driven /\ Top.err # NoError /\ Top.tbc = 0 /\ Top.prot = "none"
  /\ IF Depth = 1 THEN frames' = <<>> /\ dead' = Top.err
     ELSE frames' = [Below(frames) EXCEPT ![Depth - 1].err = Top.err] /\ UNCHANGED dead
  /\ got' = <<>> /\ Plain

ExhaustedByOverflow == Top.prot = "handler" /\ Top.err = Overflow    \* mutant: no limit

(* _finish_protected_error.                                                  *)
Exhausted == Top.prot = "handler" /\ (Top.err = Overflow \/ Top.depth >= MaxHandlers)

FinishProtected ==
  /\ Driven /\ Top.err # NoError /\ Top.tbc = 0 /\ Top.prot # "none"
  /\ IF Depth = 1 THEN frames' = <<>> /\ dead' = Top.err /\ got' = <<>>
     ELSE /\ UNCHANGED dead
          /\ IF Top.prot \in {"lua", "handler"} /\ ~Exhausted
             THEN /\ frames' = Append(Below(frames),
                       Handler([NewFrame EXCEPT !.depth = Top.depth,
                                  !.drop = Top.drop, !.astray = Top.astray]))
                  /\ got' = <<>>
             ELSE /\ frames' = Below(frames)
                  /\ got' = IF Top.drop \/ Top.astray THEN <<>>
                            ELSE CASE Top.prot = "plain" -> <<FALSE, Top.err>>
                                   [] Top.prot = "host" -> <<FALSE>>
                                   [] OTHER -> <<FALSE, InHandling>>
  /\ Plain

(* LuaQuotaError ends the execution; nothing is closed.                       *)
QuotaExceeded ==
  /\ Ready
  /\ frames' = <<>> /\ nest' = NoNest /\ got' = <<>> /\ fate' = "stopped"
  /\ UNCHANGED <<coroutine, yielded, dead>>

Init ==
  /\ coroutine = FALSE /\ frames = <<>> /\ nest = NoNest /\ yielded = NotYielded
  /\ got = <<>> /\ dead = NoError /\ fate = "none"

Kinds == {"plain", "lua", "host"}

Next ==
  \/ \E co \in BOOLEAN : Begin(co)
  \/ Step \/ OpenTbc \/ Call \/ TailCall \/ Return
  \/ \E n \in 0 .. MaxTbc : CloseScope(n)
  \/ \E e \in Thrown : Raise(e) \/ BareCall(e)
  \/ \E kind \in Kinds, tail \in BOOLEAN : ProtectedCall(kind, tail) \/ NestedCall(kind, tail)
  \/ \E kind \in Kinds, tail \in BOOLEAN, e \in Thrown \cup {NoError} :
       ProtectedHostCall(kind, tail, e)
  \/ \E tail \in BOOLEAN, status \in BOOLEAN : Yield(tail, status)
  \/ Resume \/ CloseValue \/ ScopeClosed \/ Unwind \/ FinishProtected \/ QuotaExceeded

Spec == Init /\ [][Next]_vars

-----------------------------------------------------------------------------
(* Properties.                                                              *)

(* The to-be-closed values of all frames.                                    *)
PendingIn(fs) ==
  LET sum[i \in 0 .. Len(fs)] == IF i = 0 THEN 0 ELSE sum[i - 1] + fs[i].tbc
  IN  sum[Len(fs)]

Pending == PendingIn(frames)

(* No to-be-closed value is lost, whatever returns, tail calls, catches or     *)
(* unwinds: a step takes at most one off the frames, and calls its handler,    *)
(* unless there is no frame left for it or the whole execution is abandoned.  *)
ClosesAll ==
  [][Pending' < Pending =>
       fate' = "stopped" \/ (fate' \in {"closed", "full"} /\ Pending' = Pending - 1)]_vars

(* A coroutine unwinds a frame only on the way to a protected call: an error   *)
(* that nothing catches leaves the frames to coroutine.close.                 *)
UnwindsToProtection ==
  coroutine => \A i \in 1 .. Depth :
    frames[i].err # NoError => \E j \in 1 .. i : frames[j].prot # "none"

(* The frames as the one stack that Lua promises.  The frame f puts on s how   *)
(* its result goes on, when the frame below it waits with the error e or drops *)
(* the result; its protected call; its function; and its pending values.      *)
Item(kind) == [kind |-> kind, error |-> NoError]

Marked(s, e, f) ==
  IF e # NoError THEN Append(s, [kind |-> "unwind", error |-> e])
  ELSE IF f.drop THEN Append(s, Item("drop")) ELSE s

Guarded(s, e, f) ==
  IF f.prot = "none" THEN Marked(s, e, f) ELSE Append(Marked(s, e, f), Item(f.prot))

Entered(s, e, f) ==
  IF f.tramp THEN Guarded(s, e, f) ELSE Append(Guarded(s, e, f), Item("call"))

Placed(s, e, f) == Entered(s, e, f) \o [n \in 1 .. f.tbc |-> Item("close")]

WaitsWith(fs, i) == IF i > 1 THEN fs[i - 1].err ELSE NoError

StackIn(fs) ==
  LET s[i \in 0 .. Len(fs)] ==
        IF i = 0 THEN <<>> ELSE Placed(s[i - 1], WaitsWith(fs, i), fs[i])
  IN  s[Len(fs)]

(* A host function that pcall called and that has yielded is a protected call; *)
(* its caller is gone after a tail call.                                     *)
StackOf ==
  IF ~yielded.on \/ ~yielded.status THEN StackIn(frames)
  ELSE Append(IF yielded.tail THEN Below(StackIn(frames)) ELSE StackIn(frames), Item("plain"))

RaisingOf ==
  IF dead # NoError THEN dead ELSE IF frames = <<>> THEN NoError ELSE Top.err

Calls == INSTANCE LuaCalls WITH stack <- StackOf, raising <- RaisingOf

(* The frame machine is the stack of activations and protected calls: every    *)
(* result reaches the caller with the statuses of the protected calls it      *)
(* passed, every error the innermost protected call, with the values on the   *)
(* way closed first, and an error raised meanwhile takes its place.            *)
ImplementsCalls == Calls!Spec

=============================================================================

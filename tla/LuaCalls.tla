------------------------------- MODULE LuaCalls -------------------------------
(***************************************************************************)
(* What Lua promises about calls, protected calls and errors: one stack of   *)
(* activations, protected calls and pending to-be-closed values.  A result   *)
(* is handed down through the protected calls below it, each of which puts   *)
(* its status in front; an error unwinds to the nearest protected call and    *)
(* closes what it passes.                                                   *)
(***************************************************************************)
EXTENDS Naturals, Sequences

CONSTANTS Errors, NoError

VARIABLES
  stack,    \* the bottom is the main function
  got,      \* the statuses (and the error) at the head of the last result
  raising   \* the error on its way, or NoError

vars == <<stack, got, raising>>

(* plain: pcall.  lua, host: xpcall, by the kind of its handler.  handler: a   *)
(* running Lua handler.                                                      *)
Boundary == {"plain", "lua", "host", "handler"}

(* call: a function.  close: a pending value.  drop: the caller ignores the    *)
(* results.  unwind: the same, and goes on with the error.                   *)
Item(kind) == [kind |-> kind, error |-> NoError]
Unwind(e) == [kind |-> "unwind", error |-> e]

Kind(s) == IF s = <<>> THEN "none" ELSE s[Len(s)].kind
Pop(s) == SubSeq(s, 1, Len(s) - 1)
Push(s, kind) == Append(s, Item(kind))

(* The result with statuses r after a protected call: pcall and xpcall report *)
(* success, a handler hands over one value as the error.                     *)
Passed(kind, r) ==
  IF kind = "handler" THEN <<FALSE>> \o SubSeq(r, 1, IF Len(r) > 0 THEN 1 ELSE 0)
  ELSE <<TRUE>> \o r

(* s and r after n protected calls.                                          *)
After(s, r, n) ==
  LET pass[i \in 0 .. n] ==
        IF i = 0 THEN [s |-> s, r |-> r]
        ELSE [s |-> Pop(pass[i - 1].s), r |-> Passed(Kind(pass[i - 1].s), pass[i - 1].r)]
  IN  pass[n]

(* The result r leaves the top of s: through any number of the protected      *)
(* calls there, to its caller.                                               *)
Hand(s, r) ==
  \E n \in 0 .. Len(s) :
    /\ \A i \in 0 .. n - 1 : s[Len(s) - i].kind \in Boundary
    /\ LET a == After(s, r, n) IN
       \/ stack' = a.s /\ got' = a.r /\ raising' = NoError
       \/ /\ Kind(a.s) \in {"drop", "unwind"}
          /\ stack' = Pop(a.s) /\ got' = <<>> /\ raising' = a.s[Len(a.s)].error

Init == stack = <<>> /\ got = <<>> /\ raising = NoError

Quiet == raising = NoError /\ stack # <<>>
Runs == Quiet /\ Kind(stack) \in {"call", "close"}

Begin ==
  /\ stack = <<>> \/ raising # NoError
  /\ stack' = <<Item("call")>> /\ got' = <<>> /\ raising' = NoError

Abandon == stack' = <<>> /\ got' = <<>> /\ raising' = NoError

Step == Quiet /\ got' = <<>> /\ UNCHANGED <<stack, raising>>

Call == Runs /\ stack' = Push(stack, "call") /\ got' = <<>> /\ UNCHANGED raising

Open == Runs /\ stack' = Push(stack, "close") /\ got' = <<>> /\ UNCHANGED raising

(* A scope ends: its last value goes, its handler is called.                  *)
Close ==
  /\ Quiet /\ Kind(stack) = "close"
  /\ \/ stack' = Pop(stack)
     \/ stack' = Push(Push(Pop(stack), "drop"), "call")
  /\ got' = <<>> /\ UNCHANGED raising

CloseFails ==
  /\ Quiet /\ Kind(stack) = "close" /\ stack' = Pop(stack)
  /\ \E e \in Errors : raising' = e
  /\ got' = <<>>

(* What calls pcall or xpcall: an activation, which may do so as its last act, *)
(* or another protected call.                                                *)
Callers == {stack} \cup (IF Kind(stack) = "call" THEN {Pop(stack)} ELSE {})

Protect(k) ==
  /\ Quiet /\ UNCHANGED raising /\ got' = <<>>
  /\ \E s \in Callers :
       stack' = Push(s, k) \/ stack' = Push(Push(s, k), "call")

Return ==
  /\ Quiet
  /\ \/ Kind(stack) = "call" /\ (Hand(Pop(stack), <<>>) \/ Hand(Pop(stack), got))
     \/ Kind(stack) \in Boundary \cup {"drop", "unwind"} /\ Hand(stack, got)

(* A host function that is called with protection, and returns or fails.      *)
HostCall(k) ==
  /\ Quiet
  /\ \E s \in Callers, e \in Errors :
       \/ Hand(s, <<TRUE>>)
       \/ k # "host" /\ Hand(s, <<FALSE, e>>)
       \/ k = "host" /\ Hand(s, <<FALSE>>)
       \/ /\ k = "lua" /\ stack' = Push(Push(s, "handler"), "call")
          /\ got' = <<>> /\ UNCHANGED raising

Raise == Quiet /\ (\E e \in Errors : raising' = e) /\ got' = <<>> /\ UNCHANGED stack

(* An error takes the top of the stack down.                                 *)
UnwindCall ==
  /\ raising # NoError /\ Kind(stack) = "call"
  /\ \/ stack' = Pop(stack)
     \/ Kind(Pop(stack)) \in {"drop", "unwind"} /\ stack' = Pop(Pop(stack))
  /\ got' = <<>> /\ UNCHANGED raising

UnwindClose ==
  /\ raising # NoError /\ Kind(stack) = "close"
  /\ \/ stack' = Pop(stack) /\ UNCHANGED raising
     \/ stack' = Pop(stack) /\ \E e \in Errors : raising' = e
     \/ /\ stack' = Push(Append(Pop(stack), Unwind(raising)), "call")
        /\ raising' = NoError
  /\ got' = <<>>

(* It reaches a protected call: the function is left, and the caller gets the *)
(* error, or what the handler makes of it.                                   *)
Catch ==
  /\ raising # NoError /\ Kind(stack) \in {"call", "plain", "lua", "host", "handler"}
  /\ LET s == IF Kind(stack) = "call" THEN Pop(stack) ELSE stack
     IN  /\ Kind(s) \in Boundary
         /\ \/ Kind(s) = "plain" /\ Hand(Pop(s), <<FALSE, raising>>)
            \/ Kind(s) = "host" /\ Hand(Pop(s), <<FALSE>>)
            \/ /\ Kind(s) \in {"lua", "handler"}
               /\ \/ stack' = Push(Push(Pop(s), "handler"), "call")
                     /\ got' = <<>> /\ raising' = NoError
                  \/ \E e \in Errors : Hand(Pop(s), <<FALSE, e>>)

Next ==
  \/ Begin \/ Abandon \/ Step \/ Call \/ Open \/ Close \/ CloseFails
  \/ \E k \in {"plain", "lua", "host"} : Protect(k) \/ HostCall(k)
  \/ Return \/ Raise \/ UnwindCall \/ UnwindClose \/ Catch

Spec == Init /\ [][Next]_vars

=============================================================================

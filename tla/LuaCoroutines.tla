--------------------------- MODULE LuaCoroutines ---------------------------
(***************************************************************************)
(* What the coroutine library promises of control: the coroutines that have *)
(* not come back form a chain.  A coroutine joins it at the end, when it is *)
(* resumed or closed, and leaves it from the end, when it yields or is over. *)
(* Only an error that nothing catches takes several away at once, and never *)
(* past one that is being closed.                                           *)
(***************************************************************************)
EXTENDS Naturals, Sequences

CONSTANTS
  Threads,  \* the coroutines
  Main,     \* the main thread
  NoThread  \* nobody: host code outside any chunk

VARIABLES
  life,  \* none, suspended, active, dead, or lost: an error took it off the
         \* chain in the middle of its body
  chain  \* who executes, and for whom the others wait, innermost last

vars == <<life, chain>>

(* body, host: a coroutine's Lua function, or its host function.  close: the   *)
(* handlers of a coroutine that is closed.  call: a chunk, or a callback.       *)
(* enter: a host function that runs for whoever resumes a coroutine, before it. *)
Doings == {"body", "host", "close", "call", "enter"}
Link(who, does) == [who |-> who, does |-> does]

Depth == Len(chain)
Top == chain[Depth]
Ends(does) == Depth > 0 /\ Top.does = does
Innermost(k) == \A i \in k + 1 .. Depth : chain[i].does = "enter"
Bodies(k) == {chain[i].who : i \in {j \in k + 1 .. Depth : chain[j].does \in {"body", "host"}}}
Executes(t) ==
  \E i \in 1 .. Depth : /\ chain[i].who = t /\ chain[i].does \in {"body", "host"}
                        /\ i < Depth => chain[i + 1] # Link(t, "close")
Chained(t, k) == \E i \in 1 .. k : chain[i].who = t /\ chain[i].does # "call"

Init == life = [t \in Threads |-> "none"] /\ chain = <<>>

Become(t, l) == life' = [life EXCEPT ![t] = l]
Join(who, does) == chain' = Append(chain, Link(who, does))
Keep(k) == chain' = SubSeq(chain, 1, k)

Create(t) ==
  /\ Depth > 0 /\ life[t] = "none"
  /\ Become(t, "suspended") /\ UNCHANGED chain

Resume(t) ==
  /\ Depth > 0 /\ life[t] = "suspended"
  /\ Become(t, "active") /\ \E does \in {"body", "host"} : Join(t, does)

(* What is done on entering a coroutine is done by the one that resumes it, for *)
(* which it may yield; it ends with the coroutine resumed or, when that has      *)
(* been closed meanwhile, with nothing.                                        *)
Enter == Depth > 0 /\ Join(Top.who, "enter") /\ UNCHANGED life

EndEnter ==
  /\ Ends("enter")
  /\ \/ Keep(Depth - 1) /\ UNCHANGED life
     \/ \E t \in Threads : /\ life[t] = "suspended" /\ Become(t, "active")
                          /\ chain' = [chain EXCEPT ![Depth] = Link(t, "body")]

Suspend(k) ==
  /\ Innermost(k) /\ chain[k].does = "body"
  /\ Become(chain[k].who, "suspended") /\ Keep(k - 1)

Finish(k) ==
  /\ Innermost(k)
  /\ chain[k].does = "host" \/ (chain[k].does = "body" /\ k = Depth)
  /\ Become(chain[k].who, "dead") /\ Keep(k - 1)

(* A function made by wrap closes the coroutine when its body fails.           *)
FailWrapped ==
  /\ Ends("body")
  /\ chain' = [chain EXCEPT ![Depth].does = "close"] /\ UNCHANGED life

(* One that does not execute its body can be closed, at once when nothing is    *)
(* left to do, and again while its handlers run.                             *)
Close(t) ==
  /\ Depth > 0 /\ life[t] \in {"suspended", "dead", "active"} /\ ~Executes(t)
  /\ \/ Become(t, "active") /\ Join(t, "close")
     \/ life[t] # "active" /\ Become(t, "dead") /\ UNCHANGED chain

(* The innermost coroutine that executes Lua code closes itself.  What it has   *)
(* called goes, host functions of other coroutines included.                  *)
CloseSelf(k) ==
  /\ chain[k].does \in {"body", "close"}
  /\ \A i \in k + 1 .. Depth : chain[i].does \in {"call", "host", "enter"}
  /\ life' = [t \in Threads |-> IF t \in Bodies(k) THEN "lost" ELSE life[t]]
  /\ chain' = Append(SubSeq(chain, 1, k), Link(chain[k].who, "close"))

(* A coroutine that closed itself has then also finished its body.             *)
EndClose ==
  /\ Ends("close")
  /\ LET t == Top.who
         k == IF Depth > 1 /\ chain[Depth - 1] = Link(t, "body") THEN Depth - 2 ELSE Depth - 1
     IN  Keep(k) /\ Become(t, IF Chained(t, k) THEN "active" ELSE "dead")

Call ==
  /\ UNCHANGED life
  /\ Join(Main, "call") \/ Join(IF Depth = 0 THEN NoThread ELSE Top.who, "call")

EndCall(k) == Innermost(k) /\ chain[k].does = "call" /\ Keep(k - 1) /\ UNCHANGED life

(* An error that no pcall may catch: one that closes a coroutine is told of it  *)
(* and goes on, one that enters a coroutine may, a host function ends with it;  *)
(* otherwise everything ends.                                                 *)
Escape(k) ==
  /\ \A i \in k + 1 .. Depth : chain[i].does # "close"
  /\ k > 0 => chain[k].does \in {"close", "host", "enter"}
  /\ LET host == k > 0 /\ chain[k].does = "host" IN
     /\ life' = [t \in Threads |-> IF t \in Bodies(k) THEN "lost"
                                   ELSE IF host /\ t = chain[k].who THEN "dead" ELSE life[t]]
     /\ Keep(IF host THEN k - 1 ELSE k)

Next ==
  \/ \E t \in Threads : Create(t) \/ Resume(t) \/ Close(t)
  \/ FailWrapped \/ Enter \/ EndEnter \/ EndClose \/ Call
  \/ \E k \in 1 .. Depth : Suspend(k) \/ Finish(k) \/ EndCall(k) \/ CloseSelf(k)
  \/ \E k \in 0 .. Depth : Escape(k)

Spec == Init /\ [][Next]_vars

=============================================================================

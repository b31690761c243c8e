------------------------------- MODULE LuaMap -------------------------------
(***************************************************************************)
(* What a Lua table promises: a map from keys to values, and traversals     *)
(* with next() that visit every key exactly once as long as no key is added. *)
(***************************************************************************)
CONSTANTS Keys, Vals, Nil, Walkers

VARIABLES map, walk

TypeOK ==
  /\ map \in [Keys -> Vals \cup {Nil}]
  /\ walk \in [Walkers -> [on: BOOLEAN, at: Keys \cup {Nil}, seen: SUBSET Keys]]

Idle == [on |-> FALSE, at |-> Nil, seen |-> {}]

Present == {k \in Keys : map[k] # Nil}

Init ==
  /\ map = [k \in Keys |-> Nil]
  /\ walk = [w \in Walkers |-> Idle]

(* Adding a key to a table while it is traversed leaves the traversal        *)
(* undefined; assigning to a key that is there, or clearing it, does not.    *)
Assign(k, v) ==
  /\ map' = [map EXCEPT ![k] = v]
  /\ walk' = [w \in Walkers |-> IF map[k] = Nil /\ v # Nil THEN Idle ELSE walk[w]]

Start(w) ==
  /\ walk' = [walk EXCEPT ![w] = [on |-> TRUE, at |-> Nil, seen |-> {}]]
  /\ UNCHANGED map

Advance(w, k) ==
  /\ walk[w].on /\ k \in Present \ walk[w].seen
  /\ walk' = [walk EXCEPT ![w] = [on |-> TRUE, at |-> k, seen |-> @.seen \cup {k}]]
  /\ UNCHANGED map

Finish(w) ==
  /\ walk[w].on /\ Present \subseteq walk[w].seen
  /\ walk' = [walk EXCEPT ![w] = Idle]
  /\ UNCHANGED map

Next ==
  \/ \E k \in Keys, v \in Vals \cup {Nil} : Assign(k, v)
  \/ \E w \in Walkers : Start(w) \/ Finish(w)
  \/ \E w \in Walkers, k \in Keys : Advance(w, k)

Spec == Init /\ [][Next]_<<map, walk>>

=============================================================================

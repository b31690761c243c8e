------------------------------ MODULE LuaTable ------------------------------
(***************************************************************************)
(* table.LuaTable: a dense array part, a hash part, the untagged dictionary *)
(* of integer keys and Booleans that generated loops may install, and the   *)
(* bookkeeping that lets next() survive the deletion of keys.               *)
(*                                                                          *)
(* The generated loop that owns the untagged dictionary (a "region") keeps  *)
(* it in a local variable.  While a region runs nothing else touches the    *)
(* table, except the region itself in two ways that forget the variable:    *)
(* through a second register that turns out to hold the same table          *)
(* (Aliased), and with a constant key (ConstantKeys).                       *)
(***************************************************************************)
EXTENDS Naturals, Sequences, FiniteSets

CONSTANTS
  MaxInt,     \* bound: the positive integer keys are 1 .. MaxInt
  Names,      \* every other key: strings, objects, Booleans, other numbers
  Bools,      \* Boolean values
  Others,     \* every other value
  Nil,        \* nil, and Python's None
  Absent,     \* the _ABSENT sentinel
  Walkers,    \* concurrent traversals
  Regions,    \* may generated loops use an untagged dictionary?
  Aliased,    \* may such a loop reach the table through a second register?
  ConstantKeys, \* may it store an integer, or delete a key, that is a constant?
  Floats      \* may an integer key be written as a float (2.0)?

Ints == 1 .. MaxInt
Keys == Ints \cup Names
Vals == Bools \cup Others

ASSUME TableAssumption ==
  /\ MaxInt \in Nat /\ Names \cap Nat = {}
  /\ Nil \notin Vals \cup Keys /\ Absent \notin Vals \cup Keys /\ Nil # Absent
  /\ Regions \in BOOLEAN /\ Floats \in BOOLEAN
  /\ Aliased \in BOOLEAN /\ ConstantKeys \in BOOLEAN

VARIABLES
  array,    \* LuaTable.array
  hash,     \* LuaTable.hash: key to value and the spelling of the key
  order,    \* the order of that dictionary: the pairs <<x, y>>, x before y
  sparse,   \* LuaTable._sparse_int, empty when it is None
  sorder,   \* the order of that dictionary
  isSparse, \* _sparse_int is not None
  index,    \* the list of keys of _ITERATION_STATE, or Absent
  indexed,  \* its version is that of the table
  succ,     \* the other entries of _deleted_successors
  region,   \* a region runs, and its local variable holds: "none", the
            \* table's untagged dictionary ("shared"), or one that the table
            \* has given up ("orphan"); "off" outside a region
  orphan,   \* the contents of the latter
  walk,     \* the traversals of the program
  meant     \* history: the value last assigned to each key

storage == <<array, hash, order, sparse, sorder, isSparse>>
metadata == <<index, indexed, succ>>
vars == <<storage, metadata, region, orphan, walk, meant>>

Empty == [k \in {} |-> Nil]

(* A dictionary without k, and with k set; its order o then: a key that is    *)
(* overwritten keeps its place, a new key comes last.                        *)
Without(d, k) == [x \in DOMAIN d \ {k} |-> d[x]]
With(d, k, e) == [x \in DOMAIN d \cup {k} |-> IF x = k THEN e ELSE d[x]]
OrderWith(d, o, k) == IF k \in DOMAIN d THEN o ELSE o \cup ((DOMAIN d) \X {k})
OrderWithout(d, o, ks) == o \cap ((DOMAIN d \ ks) \X (DOMAIN d \ ks))

(* A list of distinct keys is the set of the keys and the order in which they *)
(* come.  Then puts one list after another.                                  *)
List(keys, before) == [keys |-> keys, before |-> before]

Then(l, m) ==
  List(l.keys \cup m.keys, l.before \cup m.before \cup (l.keys \X m.keys))

IsList(l) ==
  /\ l.before \subseteq l.keys \X l.keys
  /\ \A x, y \in l.keys :
       /\ <<x, y>> \in l.before => <<y, x>> \notin l.before
       /\ x # y => <<x, y>> \in l.before \/ <<y, x>> \in l.before
  /\ \A x, y, z \in l.keys :
       <<x, y>> \in l.before /\ <<y, z>> \in l.before => <<x, z>> \in l.before

(* The key of S that comes first, Nil when there is none.                    *)
FirstOf(S, before) ==
  IF S = {} THEN Nil ELSE CHOOSE x \in S : \A y \in S \ {x} : <<x, y>> \in before

Entry(v, float) == [val |-> v, float |-> float]

-----------------------------------------------------------------------------
(* Reading.                                                                 *)

rawget(k) ==
  IF k \in 1 .. Len(array) THEN array[k]
  ELSE IF k \in Ints /\ isSparse
       THEN IF k \in DOMAIN sparse THEN sparse[k] ELSE Nil
       ELSE IF k \in DOMAIN hash THEN hash[k].val ELSE Nil

rawhas(k) ==
  \/ k \in 1 .. Len(array) /\ array[k] # Nil
  \/ k \in Ints /\ isSparse /\ k \in DOMAIN sparse
  \/ ~(k \in Ints /\ isSparse) /\ k \in DOMAIN hash

rawlen == Len(array)

(* The read of a constant key in generated code.                             *)
ConstantRead(k) ==
  IF k \in 1 .. Len(array) THEN array[k]
  ELSE IF k \in DOMAIN hash THEN hash[k].val ELSE Nil

(* items(): the keys in the order of iteration.                              *)
Slots == {i \in 1 .. Len(array) : array[i] # Nil}
ArrayItems == List(Slots, {p \in Slots \X Slots : p[1] < p[2]})
HashItems == Then(List(DOMAIN hash, order), List(DOMAIN sparse, sorder))
Items == Then(ArrayItems, HashItems)

(* Mutant: any gapless array part makes a list.                              *)
HostListByArray == \A i \in 1 .. Len(array) : array[i] # Nil

(* LuaRuntime._from_lua gives the host a list.                               *)
HostList == DOMAIN hash = {} /\ \A i \in 1 .. Len(array) : array[i] # Nil

HostKeys == IF HostList THEN 1 .. Len(array) ELSE Items.keys

-----------------------------------------------------------------------------
(* Iteration.                                                               *)

Index == IF indexed THEN index ELSE Items
InIndex(k) == k \in Index.keys

FirstPresent(keys) == FirstOf({x \in keys : rawhas(x)}, Index.before)
SuccessorIn(k) == FirstPresent({x \in Index.keys : <<k, x>> \in Index.before})

Gone == {x \in Keys : ~rawhas(x)}
Recorded(s, k) == IF k \in DOMAIN s THEN s[k] ELSE Absent

(* What following the recorded successors s from k visits: the successor of   *)
(* k, and with a key that is gone the successor of that key.                 *)
Chain(s, gone, k) ==
  LET Ends == Keys \cup {Nil, Absent}
  IN  {x \in Ends : \A S \in SUBSET Ends :
         Recorded(s, k) \in S /\ (\A y \in S \cap gone : Recorded(s, y) \in S) => x \in S}

(* successor_after_deleted: the one that is still there, the end of the       *)
(* traversal (Nil), or an unknown key (Absent).  A cycle of deleted keys ends *)
(* the traversal.                                                            *)
SuccessorAfterDeleted(k) ==
  LET ends == Chain(succ, Gone, k) \ Gone
  IN  IF ends = {} THEN Nil ELSE CHOOSE x \in ends : TRUE

(* next_item: the key after k, Nil at the end, Absent for an invalid key.     *)
NextKey(k) ==
  IF k = Nil THEN FirstPresent(Index.keys)
  ELSE IF ~InIndex(k) THEN SuccessorAfterDeleted(k)
  ELSE IF rawhas(k) \/ k \in DOMAIN succ THEN SuccessorIn(k)
  ELSE Absent

-----------------------------------------------------------------------------
(* Writing.                                                                 *)

Spellings(k) == IF Floats /\ k \in Ints THEN BOOLEAN ELSE {FALSE}

(* _materialize_sparse_int: the hash part with the untagged keys.            *)
Hash ==
  [k \in DOMAIN hash \cup DOMAIN sparse |->
     IF k \in DOMAIN sparse THEN Entry(sparse[k], FALSE) ELSE hash[k]]
Order == HashItems.before

(* Mutant: the last slot is cleared and the array keeps its length.          *)
SetSlotKeepingLength(k, v) ==
  array' = [array EXCEPT ![k] = v] /\ hash' = Hash /\ order' = Order

(* A slot of the array part; clearing the last one drops trailing nils.       *)
SetSlot(k, v) ==
  LET a == [array EXCEPT ![k] = v] IN
  /\ IF v # Nil
     THEN array' = a
     ELSE \E n \in 0 .. Len(a) :
            /\ n > 0 => a[n] # Nil
            /\ \A i \in n + 1 .. Len(a) : a[i] = Nil
            /\ array' = SubSeq(a, 1, n)
  /\ hash' = Hash /\ order' = Order

(* Mutant: the keys that follow stay in the hash part.                       *)
AppendSlotAlone(k, v) ==
  array' = Append(array, v) /\ hash' = Hash /\ order' = Order

(* The slot after the last one; the keys that follow move out of the hash.    *)
AppendSlot(k, v) ==
  \E n \in k .. MaxInt :
    /\ \A i \in k + 1 .. n : i \in DOMAIN Hash
    /\ n + 1 \notin DOMAIN Hash
    /\ array' = [i \in 1 .. n |-> IF i < k THEN array[i] ELSE IF i = k THEN v ELSE Hash[i].val]
    /\ hash' = [x \in DOMAIN Hash \ (k + 1 .. n) |-> Hash[x]]
    /\ order' = OrderWithout(Hash, Order, k + 1 .. n)

(* Mutant: nil is stored like a value.                                       *)
SetHashStoringNil(k, v, float) ==
  /\ hash' = With(Hash, k, Entry(v, float)) /\ order' = OrderWith(Hash, Order, k)
  /\ UNCHANGED array

SetHash(k, v, float) ==
  /\ IF v = Nil
     THEN hash' = Without(Hash, k) /\ order' = OrderWithout(Hash, Order, {k})
     ELSE hash' = With(Hash, k, Entry(v, float)) /\ order' = OrderWith(Hash, Order, k)
  /\ UNCHANGED array

(* Mutant: every write makes the index stale and no successor is remembered.  *)
TouchForgetting(k, v) == indexed' = FALSE /\ UNCHANGED <<index, succ>>

(* What rawset does to the iteration data: deleting a key remembers its       *)
(* successor and keeps the index usable, any other write makes it stale.      *)
Touch(k, v) ==
  IF v = Nil /\ rawhas(k)
  THEN /\ index' = Index /\ indexed' = TRUE
       /\ succ' = IF InIndex(k) THEN With(succ, k, SuccessorIn(k)) ELSE succ
  ELSE /\ indexed' = FALSE
       /\ succ' = IF v = Nil THEN succ ELSE Without(succ, k)
       /\ UNCHANGED index

(* A program that adds a key ends its traversals; and what it means to store. *)
Means(k, v) ==
  /\ meant' = [meant EXCEPT ![k] = v]
  /\ walk' = [w \in Walkers |->
               IF meant[k] = Nil /\ v # Nil THEN [on |-> FALSE, at |-> Nil, seen |-> {}]
               ELSE walk[w]]

(* Mutant: the untagged dictionary stays.                                    *)
rawsetWithoutMaterializing(k, v, float) ==
  /\ UNCHANGED <<isSparse, sparse, sorder>>
  /\ Touch(k, v)
  /\ IF k \in 1 .. Len(array) THEN SetSlot(k, v)
     ELSE IF k \in Ints /\ k = Len(array) + 1 /\ v # Nil THEN AppendSlot(k, v)
     ELSE SetHash(k, v, float)
  /\ Means(k, v)

rawset(k, v, float) ==
  /\ isSparse' = FALSE /\ sparse' = Empty /\ sorder' = {}
  /\ Touch(k, v)
  /\ IF k \in 1 .. Len(array) THEN SetSlot(k, v)
     ELSE IF k \in Ints /\ k = Len(array) + 1 /\ v # Nil THEN AppendSlot(k, v)
     ELSE SetHash(k, v, float)
  /\ Means(k, v)

Set(k, v, float) ==
  /\ region = "off" /\ float \in Spellings(k)
  /\ rawset(k, v, float)
  /\ UNCHANGED <<region, orphan>>

(* The stores that generated code makes without rawset, to a constant key     *)
(* outside the array range: neither looks at the recorded successors.  A      *)
(* constructor's (fresh) materializes the untagged keys, a loop's does not.   *)
GeneratedSet(k, v, fresh) ==
  /\ k \in Names /\ v # Nil
  /\ fresh => region = "off" /\ index = Absent /\ meant[k] = Nil
  /\ IF fresh
     THEN /\ hash' = With(Hash, k, Entry(v, FALSE)) /\ order' = OrderWith(Hash, Order, k)
          /\ isSparse' = FALSE /\ sparse' = Empty /\ sorder' = {}
     ELSE /\ hash' = With(hash, k, Entry(v, FALSE)) /\ order' = OrderWith(hash, order, k)
          /\ UNCHANGED <<isSparse, sparse, sorder>>
  /\ indexed' = FALSE
  /\ Means(k, v)
  /\ UNCHANGED <<array, index, succ, region, orphan>>

-----------------------------------------------------------------------------
(* A generated loop over integer keys and Boolean values.                    *)

RegionEnter ==
  /\ Regions /\ region = "off"
  /\ IF isSparse \/ (array = <<>> /\ DOMAIN hash = {} /\ index = Absent)
     THEN region' = "shared" /\ isSparse' = TRUE
     ELSE region' = "none" /\ UNCHANGED isSparse
  /\ UNCHANGED <<array, hash, order, sparse, sorder, metadata, orphan, walk, meant>>

Untagged(k) == region \in {"shared", "orphan"} /\ k \in Ints /\ k >= 2

RegionRead(k) ==
  IF Untagged(k)
  THEN LET d == IF region = "shared" THEN sparse ELSE orphan
       IN  IF k \in DOMAIN d THEN d[k] ELSE Nil
  ELSE rawget(k)

(* A rawset of the loop that forgets the local variable: the table has given  *)
(* the dictionary up, and the loop goes on with it.                          *)
KeepingLocal(k, v, float) ==
  /\ rawset(k, v, float)
  /\ IF region = "shared" THEN region' = "orphan" /\ orphan' = sparse
     ELSE UNCHANGED <<region, orphan>>

(* Mutant: after a generic store the loop goes on with its dictionary.        *)
RegionSetKeepingLocal(k, v) == region # "off" /\ KeepingLocal(k, v, FALSE)

RegionSet(k, v) ==
  /\ region # "off"
  /\ IF Untagged(k) /\ v \in Bools
     THEN /\ IF region = "shared"
             THEN /\ sparse' = With(sparse, k, v) /\ sorder' = OrderWith(sparse, sorder, k)
                  /\ UNCHANGED orphan
             ELSE orphan' = With(orphan, k, v) /\ UNCHANGED <<sparse, sorder>>
          /\ indexed' = FALSE
          /\ Means(k, v)
          /\ UNCHANGED <<array, hash, order, isSparse, index, succ, region>>
     ELSE /\ rawset(k, v, FALSE)
          /\ region' = "none" /\ orphan' = Empty

(* The same table through a register the region does not count as an owner.   *)
RegionAliasSet(k, v) ==
  Aliased /\ region # "off" /\ KeepingLocal(k, v, FALSE)

(* A constant integer key, written as an integer or as a float, and nil for a  *)
(* constant key of another kind (a value for one is a GeneratedSet).           *)
RegionConstantSet(k, v, float) ==
  /\ ConstantKeys /\ region # "off" /\ float \in Spellings(k)
  /\ k \in Ints \/ v = Nil
  /\ KeepingLocal(k, v, float)

RegionExit ==
  /\ region # "off"
  /\ region' = "off" /\ orphan' = Empty
  /\ UNCHANGED <<storage, metadata, walk, meant>>

-----------------------------------------------------------------------------
(* next().                                                                  *)

StartWalk(w) ==
  /\ region = "off"
  /\ walk' = [walk EXCEPT ![w] = [on |-> TRUE, at |-> Nil, seen |-> {}]]
  /\ UNCHANGED <<storage, metadata, region, orphan, meant>>

(* An invalid key ends the traversal with an error, as Nil ends it normally.  *)
NextItem(w) ==
  /\ region = "off" /\ walk[w].on
  /\ index' = Index /\ indexed' = TRUE
  /\ LET k == NextKey(walk[w].at)
     IN  walk' = [walk EXCEPT ![w] =
                    IF k \in {Nil, Absent} THEN [on |-> FALSE, at |-> Nil, seen |-> {}]
                    ELSE [on |-> TRUE, at |-> k, seen |-> @.seen \cup {k}]]
  /\ UNCHANGED <<storage, succ, region, orphan, meant>>

Init ==
  /\ array = <<>> /\ hash = Empty /\ order = {}
  /\ sparse = Empty /\ sorder = {} /\ isSparse = FALSE
  /\ index = Absent /\ indexed = FALSE /\ succ = Empty
  /\ region = "off" /\ orphan = Empty
  /\ walk = [w \in Walkers |-> [on |-> FALSE, at |-> Nil, seen |-> {}]]
  /\ meant = [k \in Keys |-> Nil]

Next ==
  \/ \E k \in Keys, v \in Vals \cup {Nil}, float \in BOOLEAN : Set(k, v, float)
  \/ \E k \in Names, v \in Vals, fresh \in BOOLEAN : GeneratedSet(k, v, fresh)
  \/ RegionEnter
  \/ \E k \in Keys, v \in Vals \cup {Nil} : RegionSet(k, v)
  \/ \E k \in Keys, v \in Vals \cup {Nil} : RegionAliasSet(k, v)
  \/ \E k \in Keys, v \in Vals \cup {Nil}, float \in BOOLEAN : RegionConstantSet(k, v, float)
  \/ RegionExit
  \/ \E w \in Walkers : StartWalk(w)
  \/ \E w \in Walkers : NextItem(w)

Spec == Init /\ [][Next]_vars

-----------------------------------------------------------------------------
(* Properties.                                                              *)

TypeOK ==
  /\ array \in Seq(Vals \cup {Nil}) /\ Len(array) <= MaxInt
  /\ DOMAIN hash \subseteq Keys
  /\ \A k \in DOMAIN hash : hash[k] \in [val: Vals, float: BOOLEAN]
  /\ IsList(List(DOMAIN hash, order)) /\ IsList(List(DOMAIN sparse, sorder))
  /\ DOMAIN sparse \subseteq Ints /\ \A k \in DOMAIN sparse : sparse[k] \in Bools
  /\ isSparse \in BOOLEAN /\ indexed \in BOOLEAN
  /\ index = Absent \/ (index.keys \subseteq Keys /\ IsList(index))
  /\ DOMAIN succ \subseteq Keys /\ \A k \in DOMAIN succ : succ[k] \in Keys \cup {Nil}
  /\ region \in {"off", "none", "shared", "orphan"}
  /\ meant \in [Keys -> Vals \cup {Nil}]

(* The array part and the hash part share no key: no integer key that the     *)
(* array part could hold lies in the hash part, the last slot is not nil, and *)
(* while the untagged dictionary exists there is no array part at all.        *)
Partition ==
  /\ \A k \in DOMAIN hash : k \in Ints => k > Len(array) + 1
  /\ Len(array) > 0 => array[Len(array)] # Nil
  /\ isSparse => Len(array) = 0 /\ DOMAIN hash \cap Ints = {}
  /\ ~isSparse => DOMAIN sparse = {}
  /\ \A k \in DOMAIN sparse : k > 1

(* The table holds what the program assigned, for both ways of asking.        *)
HoldsWhatWasAssigned ==
  \A k \in Keys : rawget(k) = meant[k] /\ (rawhas(k) <=> meant[k] # Nil)

(* The length is a border: the last key of the sequence is there and the next *)
(* one is not.                                                               *)
LengthIsBorder ==
  /\ rawlen > 0 => meant[rawlen] # Nil
  /\ rawlen + 1 \in Keys => meant[rawlen + 1] = Nil

(* The generated loop reads what the program assigned.                        *)
RegionReadsTable ==
  region # "off" => \A k \in Keys : RegionRead(k) = meant[k]

(* Two readers that do not know of the untagged dictionary agree with rawget as *)
(* long as the table has none: the conversion to a Python value loses no key,   *)
(* and generated code reads a constant key as the interpreter does.             *)
ReadersAgree ==
  region = "off" /\ ~isSparse =>
    /\ HostKeys = {k \in Keys : meant[k] # Nil}
    /\ \A k \in Keys : ConstantRead(k) = rawget(k)

(* The table implements the abstract map, traversals included: a traversal    *)
(* that adds no key returns each key that stays exactly once, no key twice,   *)
(* and never an error, also when another traversal or a deletion intervenes.  *)
Map == INSTANCE LuaMap WITH map <- [k \in Keys |-> rawget(k)]

ImplementsMap == Map!Spec

=============================================================================

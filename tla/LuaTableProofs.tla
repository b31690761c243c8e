---------------------------- MODULE LuaTableProofs ----------------------------
(***************************************************************************)
(* Theorems about LuaTable, for every bound on the integer keys and every   *)
(* set of names and values.                                                 *)
(*                                                                          *)
(* The argument for the contents: once the untagged dictionary is folded     *)
(* into the hash part (Hash), no integer key of the hash part is one the     *)
(* array part could hold.  So array and Hash together are one map (Content), *)
(* and each of the three ways a store can go changes this map at one key.    *)
(*                                                                          *)
(* The argument for next(): the keys of the table are a well-ordered list    *)
(* (Items), and so is the index.  A store that adds no key takes at most one *)
(* key out of the list and leaves the order of the others (KeepsOrder).  A   *)
(* traversal has seen an initial part of the list; where its key is gone,    *)
(* the recorded successors and the index both lead to the first key it has   *)
(* not seen (Walking).  So a call of next() always finds that key.           *)
(***************************************************************************)
EXTENDS LuaTable, WellFoundedInduction, TLAPS

(* The part of the type invariant that the proofs need.                      *)
Typed ==
  /\ array \in Seq(Vals \cup {Nil}) /\ Len(array) <= MaxInt
  /\ DOMAIN hash \subseteq Keys /\ \A k \in DOMAIN hash : hash[k].val \in Vals
  /\ DOMAIN sparse \subseteq Ints /\ \A k \in DOMAIN sparse : sparse[k] \in Bools
  /\ isSparse \in BOOLEAN

(* A region that still holds the table's dictionary finds it there.          *)
RegionOwns ==
  /\ region \in {"off", "none", "shared", "orphan"}
  /\ region = "shared" => isSparse

StorageInv == Typed /\ Partition /\ RegionOwns

(* The map that array and hash part stand for.                               *)
Content(k) ==
  IF k \in 1 .. Len(array) THEN array[k]
  ELSE IF k \in DOMAIN Hash THEN Hash[k].val ELSE Nil

(* After a store there is no untagged dictionary, and the map is the old one  *)
(* but for the value of k.                                                   *)
Stored(k, v) ==
  /\ isSparse' = FALSE /\ sparse' = Empty
  /\ array' \in Seq(Vals \cup {Nil}) /\ Len(array') <= MaxInt
  /\ DOMAIN hash' \subseteq Keys /\ \A x \in DOMAIN hash' : hash'[x].val \in Vals
  /\ \A x \in DOMAIN hash' : x \in Ints => x > Len(array') + 1
  /\ Len(array') > 0 => array'[Len(array')] # Nil
  /\ \A x \in Keys :
       (IF x \in 1 .. Len(array') THEN array'[x]
        ELSE IF x \in DOMAIN hash' THEN hash'[x].val ELSE Nil)
       = IF x = k THEN v ELSE Content(x)

-----------------------------------------------------------------------------
(* The hash part with the untagged keys: well typed, and above the array.     *)
LEMMA HashFacts ==
  ASSUME Typed, Partition
  PROVE  /\ DOMAIN Hash \subseteq Keys
         /\ \A k \in DOMAIN Hash : Hash[k].val \in Vals
         /\ \A k \in DOMAIN Hash : k \in Ints => k > Len(array) + 1
         /\ Len(array) \in Nat
<1>1. DOMAIN Hash = DOMAIN hash \cup DOMAIN sparse
  BY DEF Hash
<1>2. ASSUME NEW k \in DOMAIN Hash
      PROVE  Hash[k].val = IF k \in DOMAIN sparse THEN sparse[k] ELSE hash[k].val
  BY <1>1, <1>2 DEF Hash, Entry
<1>3. DOMAIN Hash \subseteq Keys
  BY <1>1 DEF Typed, Keys
<1>4. \A k \in DOMAIN Hash : Hash[k].val \in Vals
  BY <1>1, <1>2 DEF Typed, Vals
<1>5. Len(array) \in Nat
  BY DEF Typed
<1>6. ASSUME NEW k \in DOMAIN Hash, k \in Ints PROVE k > Len(array) + 1
  <2>1. CASE k \in DOMAIN hash
    BY <2>1, <1>6 DEF Partition
  <2>2. CASE k \in DOMAIN sparse
    <3>1. isSparse /\ k > 1
      BY <2>2, <1>6 DEF Partition, Typed
    <3> QED BY <3>1 DEF Partition
  <2> QED BY <1>1, <1>6, <2>1, <2>2
<1> QED BY <1>3, <1>4, <1>5, <1>6

(* rawget reads that map.                                                    *)
LEMMA GetIsContent ==
  ASSUME Typed, Partition, NEW k \in Keys
  PROVE  rawget(k) = Content(k)
<1>1. DOMAIN Hash = DOMAIN hash \cup DOMAIN sparse
  BY DEF Hash
<1>2. k \in DOMAIN Hash => Hash[k].val = IF k \in DOMAIN sparse THEN sparse[k] ELSE hash[k].val
  BY <1>1 DEF Hash, Entry
<1>3. CASE k \in 1 .. Len(array)
  BY <1>3 DEF rawget, Content
<1>4. CASE k \notin 1 .. Len(array) /\ k \in Ints /\ isSparse
  <2>1. k \notin DOMAIN hash
    BY <1>4 DEF Partition
  <2> QED BY <1>1, <1>2, <1>4, <2>1 DEF rawget, Content
<1>5. CASE k \notin 1 .. Len(array) /\ ~(k \in Ints /\ isSparse)
  <2>1. k \notin DOMAIN sparse
    BY <1>5 DEF Partition, Typed
  <2> QED BY <1>1, <1>2, <1>5, <2>1 DEF rawget, Content
<1> QED BY <1>3, <1>4, <1>5

(* A key is present when its value is not nil.                                *)
LEMMA HasIsGet ==
  ASSUME Typed, Partition, NEW k \in Keys
  PROVE  rawhas(k) <=> rawget(k) # Nil
<1>1. Nil \notin Vals
  BY TableAssumption
<1>2. CASE k \in 1 .. Len(array)
  <2>1. ~isSparse /\ k \in Nat /\ k <= Len(array) /\ Len(array) \in Nat
    BY <1>2 DEF Partition, Typed
  <2>2. k \notin DOMAIN hash
    <3>1. k \in DOMAIN hash => k \in Ints \/ k \in Names
      BY DEF Keys
    <3>2. k \notin Names
      BY <2>1, TableAssumption
    <3> QED BY <2>1, <3>1, <3>2 DEF Partition, Typed, Keys
  <2> QED BY <1>2, <2>1, <2>2 DEF rawhas, rawget
<1>3. CASE k \notin 1 .. Len(array) /\ k \in Ints /\ isSparse
  <2>1. k \in DOMAIN sparse => sparse[k] # Nil
    BY <1>1 DEF Typed, Vals
  <2> QED BY <1>3, <2>1 DEF rawhas, rawget
<1>4. CASE k \notin 1 .. Len(array) /\ ~(k \in Ints /\ isSparse)
  <2>1. k \in DOMAIN hash => hash[k].val # Nil
    BY <1>1 DEF Typed
  <2> QED BY <1>4, <2>1 DEF rawhas, rawget
<1> QED BY <1>2, <1>3, <1>4

-----------------------------------------------------------------------------
(* The three ways of rawset, each from the facts about the state before it.   *)

(* The array slots after a prefix is kept.                                   *)
LEMMA PrefixFacts ==
  ASSUME NEW a \in Seq(Vals \cup {Nil}), NEW n \in 0 .. Len(a)
  PROVE  /\ SubSeq(a, 1, n) \in Seq(Vals \cup {Nil})
         /\ Len(SubSeq(a, 1, n)) = n
         /\ \A i \in 1 .. n : SubSeq(a, 1, n)[i] = a[i]
  OBVIOUS

(* A slot is overwritten.                                                    *)
LEMMA SlotFacts ==
  ASSUME array \in Seq(Vals \cup {Nil}), NEW k \in 1 .. Len(array), NEW v \in Vals \cup {Nil}
  PROVE  /\ [array EXCEPT ![k] = v] \in Seq(Vals \cup {Nil})
         /\ Len([array EXCEPT ![k] = v]) = Len(array)
         /\ \A i \in 1 .. Len(array) :
              [array EXCEPT ![k] = v][i] = IF i = k THEN v ELSE array[i]
  OBVIOUS

LEMMA SetSlotStores ==
  ASSUME Typed, Partition, NEW k \in Keys, NEW v \in Vals \cup {Nil},
         isSparse' = FALSE, sparse' = Empty, k \in 1 .. Len(array), SetSlot(k, v)
  PROVE  Stored(k, v)
<1> DEFINE a == [array EXCEPT ![k] = v]
<1>1. /\ a \in Seq(Vals \cup {Nil}) /\ Len(a) = Len(array) /\ Len(array) \in Nat
      /\ \A i \in 1 .. Len(array) : a[i] = IF i = k THEN v ELSE array[i]
  BY SlotFacts DEF Typed
<1> HIDE DEF a
<1>2. hash' = Hash
  BY DEF SetSlot
<1>3. /\ DOMAIN Hash \subseteq Keys /\ \A x \in DOMAIN Hash : Hash[x].val \in Vals
      /\ \A x \in DOMAIN Hash : x \in Ints => x > Len(array) + 1
  BY HashFacts
<1>4. PICK n \in 0 .. Len(array) :
        /\ array' \in Seq(Vals \cup {Nil}) /\ Len(array') = n
        /\ \A i \in 1 .. n : array'[i] = a[i]
        /\ \A i \in n + 1 .. Len(array) : a[i] = Nil
        /\ n > 0 => a[n] # Nil
  <2>1. CASE v # Nil
    <3>1. array' = a
      BY <2>1 DEF SetSlot, a
    <3>2. Len(array) > 0 => a[Len(array)] # Nil
      <4> SUFFICES ASSUME Len(array) > 0 PROVE a[Len(array)] # Nil
        OBVIOUS
      <4>1. Len(array) \in 1 .. Len(array)
        BY <1>1
      <4> QED BY <1>1, <2>1, <4>1 DEF Partition
    <3>3. \A i \in Len(array) + 1 .. Len(array) : a[i] = Nil
      BY <1>1
    <3>4. Len(array) \in 0 .. Len(array)
      BY <1>1
    <3> QED BY <1>1, <3>1, <3>2, <3>3, <3>4
  <2>2. CASE v = Nil
    <3>1. PICK n \in 0 .. Len(a) :
            /\ n > 0 => a[n] # Nil
            /\ \A i \in n + 1 .. Len(a) : a[i] = Nil
            /\ array' = SubSeq(a, 1, n)
      BY <2>2 DEF SetSlot, a
    <3> QED BY <1>1, <3>1, PrefixFacts
  <2> QED BY <2>1, <2>2
<1>5. \A x \in DOMAIN hash' : x \in Ints => x > Len(array') + 1
  BY <1>1, <1>2, <1>3, <1>4 DEF Ints
<1>6. ASSUME NEW x \in Keys
      PROVE  (IF x \in 1 .. Len(array') THEN array'[x]
              ELSE IF x \in DOMAIN hash' THEN hash'[x].val ELSE Nil)
             = IF x = k THEN v ELSE Content(x)
  <2>1. CASE x \in 1 .. n
    BY <1>1, <1>4, <2>1 DEF Content
  <2>2. CASE x \in n + 1 .. Len(array)
    <3>1. x \notin DOMAIN Hash
      <4>1. x \in Nat /\ x <= Len(array)
        BY <1>1, <1>4, <2>2
      <4>2. x \notin Names
        BY <4>1, TableAssumption
      <4> QED BY <1>1, <1>3, <4>1, <4>2 DEF Keys, Ints
    <3>2. a[x] = Nil /\ x \in 1 .. Len(array) /\ x \notin 1 .. n
      BY <1>1, <1>4, <2>2
    <3> QED BY <1>1, <1>2, <1>4, <3>1, <3>2 DEF Content
  <2>3. CASE x \notin 1 .. Len(array)
    <3>1. x \notin 1 .. n /\ x # k
      BY <1>1, <1>4, <2>3
    <3> QED BY <1>2, <1>4, <2>3, <3>1 DEF Content
  <2> QED BY <1>1, <1>4, <2>1, <2>2, <2>3
<1>7. Len(array') > 0 => array'[Len(array')] # Nil
  BY <1>1, <1>4
<1>8. Len(array') <= MaxInt
  BY <1>1, <1>4, TableAssumption DEF Typed
<1> QED BY <1>2, <1>3, <1>4, <1>5, <1>6, <1>7, <1>8 DEF Stored

LEMMA AppendSlotStores ==
  ASSUME Typed, Partition, NEW k \in Keys, NEW v \in Vals,
         isSparse' = FALSE, sparse' = Empty, k = Len(array) + 1, AppendSlot(k, v)
  PROVE  Stored(k, v)
<1>1. /\ DOMAIN Hash \subseteq Keys /\ \A x \in DOMAIN Hash : Hash[x].val \in Vals
      /\ \A x \in DOMAIN Hash : x \in Ints => x > Len(array) + 1
      /\ Len(array) \in Nat
  BY HashFacts
<1>2. PICK n \in k .. MaxInt :
        /\ \A i \in k + 1 .. n : i \in DOMAIN Hash
        /\ n + 1 \notin DOMAIN Hash
        /\ array' = [i \in 1 .. n |-> IF i < k THEN array[i] ELSE IF i = k THEN v ELSE Hash[i].val]
        /\ hash' = [x \in DOMAIN Hash \ (k + 1 .. n) |-> Hash[x]]
  BY DEF AppendSlot
<1>3. n \in Nat /\ n >= k /\ k >= 1 /\ MaxInt \in Nat
  BY <1>1, <1>2, TableAssumption
<1>4. \A i \in 1 .. n : array'[i] = IF i < k THEN array[i] ELSE IF i = k THEN v ELSE Hash[i].val
  BY <1>2
<1>5. \A i \in 1 .. n : array'[i] \in Vals \cup {Nil}
  <2> TAKE i \in 1 .. n
  <2>1. CASE i < k
    <3>1. i \in 1 .. Len(array)
      BY <1>1, <1>3, <2>1
    <3>2. array[i] \in Vals \cup {Nil}
      BY <3>1 DEF Typed
    <3> QED BY <1>4, <2>1, <3>2
  <2>2. CASE i = k
    BY <1>1, <1>4, <2>2
  <2>3. CASE i > k
    <3>1. i \in DOMAIN Hash
      BY <1>1, <1>2, <1>3, <2>3
    <3> QED BY <1>1, <1>4, <2>3, <3>1
  <2> QED BY <1>1, <1>3, <2>1, <2>2, <2>3
<1>6. array' \in Seq(Vals \cup {Nil}) /\ Len(array') = n
  <2>1. array' \in [1 .. n -> Vals \cup {Nil}]
    BY <1>2, <1>5
  <2> QED BY <1>3, <2>1
<1>7. DOMAIN hash' = DOMAIN Hash \ (k + 1 .. n) /\ \A x \in DOMAIN hash' : hash'[x] = Hash[x]
  BY <1>2
<1>8. ASSUME NEW x \in DOMAIN hash', x \in Ints PROVE x > Len(array') + 1
  <2>1. x > k /\ x \notin k + 1 .. n /\ x # n + 1 /\ x \in Nat
    BY <1>1, <1>2, <1>7, <1>8 DEF Ints
  <2> QED BY <1>1, <1>3, <1>6, <2>1
<1>9. array'[Len(array')] # Nil
  <2>1. n = k => array'[n] = v
    BY <1>3, <1>4
  <2>2. n > k => n \in DOMAIN Hash /\ array'[n] = Hash[n].val
    BY <1>1, <1>2, <1>3, <1>4
  <2> QED BY <1>1, <1>3, <1>6, <2>1, <2>2, TableAssumption
<1>10. ASSUME NEW x \in Keys
       PROVE  (IF x \in 1 .. Len(array') THEN array'[x]
               ELSE IF x \in DOMAIN hash' THEN hash'[x].val ELSE Nil)
              = IF x = k THEN v ELSE Content(x)
  <2>1. CASE x \in 1 .. n
    <3>1. CASE x < k
      <4>1. x \in 1 .. Len(array) /\ x # k
        BY <1>1, <2>1, <3>1
      <4> QED BY <1>4, <1>6, <2>1, <3>1, <4>1 DEF Content
    <3>2. CASE x = k
      BY <1>1, <1>4, <1>6, <2>1, <3>2
    <3>3. CASE x > k
      <4>1. x \in DOMAIN Hash /\ x \notin 1 .. Len(array) /\ x # k
        BY <1>1, <1>2, <2>1, <3>3
      <4>2. array'[x] = Hash[x].val
        BY <1>1, <1>4, <2>1, <3>3
      <4> QED BY <1>6, <2>1, <4>1, <4>2 DEF Content
    <3> QED BY <1>1, <2>1, <3>1, <3>2, <3>3
  <2>2. CASE x \notin 1 .. n
    <3>1. x # k /\ x \notin 1 .. Len(array) /\ x \notin k + 1 .. n
      BY <1>1, <1>3, <2>2
    <3> QED BY <1>6, <1>7, <2>2, <3>1 DEF Content
  <2> QED BY <2>1, <2>2
<1>11. Len(array') <= MaxInt
  BY <1>2, <1>3, <1>6
<1> QED BY <1>1, <1>6, <1>7, <1>8, <1>9, <1>10, <1>11 DEF Stored

LEMMA SetHashStores ==
  ASSUME Typed, Partition, NEW k \in Keys, NEW v \in Vals \cup {Nil}, NEW float,
         isSparse' = FALSE, sparse' = Empty, k \notin 1 .. Len(array),
         ~(k \in Ints /\ k = Len(array) + 1 /\ v # Nil), SetHash(k, v, float)
  PROVE  Stored(k, v)
<1>1. /\ DOMAIN Hash \subseteq Keys /\ \A x \in DOMAIN Hash : Hash[x].val \in Vals
      /\ \A x \in DOMAIN Hash : x \in Ints => x > Len(array) + 1
      /\ Len(array) \in Nat
  BY HashFacts
<1>2. array' = array /\ array \in Seq(Vals \cup {Nil}) /\ Len(array') <= MaxInt
  BY DEF SetHash, Typed
<1>3. Len(array') > 0 => array'[Len(array')] # Nil
  BY <1>2 DEF Partition
<1>4. CASE v = Nil
  <2>1. DOMAIN hash' = DOMAIN Hash \ {k} /\ \A x \in DOMAIN hash' : hash'[x] = Hash[x]
    BY <1>4 DEF SetHash, Without
  <2>2. ASSUME NEW x \in Keys
        PROVE  (IF x \in 1 .. Len(array') THEN array'[x]
                ELSE IF x \in DOMAIN hash' THEN hash'[x].val ELSE Nil)
               = IF x = k THEN v ELSE Content(x)
    BY <1>2, <1>4, <2>1 DEF Content
  <2> QED BY <1>1, <1>2, <1>3, <2>1, <2>2 DEF Stored
<1>5. CASE v # Nil
  <2>1. hash' = With(Hash, k, Entry(v, float))
    BY <1>5 DEF SetHash
  <2>2. /\ DOMAIN hash' = DOMAIN Hash \cup {k}
        /\ \A x \in DOMAIN Hash : x # k => hash'[x].val = Hash[x].val
        /\ hash'[k].val = v
    BY <2>1 DEF With, Entry
  <2>3. ASSUME NEW x \in DOMAIN hash', x \in Ints PROVE x > Len(array') + 1
    BY <1>1, <1>2, <1>5, <2>2, <2>3 DEF Ints
  <2>4. ASSUME NEW x \in Keys
        PROVE  (IF x \in 1 .. Len(array') THEN array'[x]
                ELSE IF x \in DOMAIN hash' THEN hash'[x].val ELSE Nil)
               = IF x = k THEN v ELSE Content(x)
    BY <1>2, <2>2 DEF Content
  <2>5. DOMAIN hash' \subseteq Keys /\ \A x \in DOMAIN hash' : hash'[x].val \in Vals
    BY <1>1, <1>5, <2>2
  <2> QED BY <1>2, <1>3, <2>3, <2>4, <2>5 DEF Stored
<1> QED BY <1>4, <1>5

-----------------------------------------------------------------------------
(* The steps.                                                               *)

(* After a store: the invariants hold and rawget has changed at one key.      *)
LEMMA StoredFacts ==
  ASSUME Typed, Partition, NEW k \in Keys, NEW v \in Vals \cup {Nil}, Stored(k, v)
  PROVE  /\ Typed' /\ Partition'
         /\ \A x \in Keys : rawget(x)' = IF x = k THEN v ELSE rawget(x)
<1>1. DOMAIN sparse' = {} /\ isSparse' = FALSE
  BY DEF Stored, Empty
<1>2. Typed' /\ Partition'
  BY <1>1 DEF Stored, Typed, Partition
<1>3. ASSUME NEW x \in Keys PROVE rawget(x)' = IF x = k THEN v ELSE rawget(x)
  <2>1. rawget(x) = Content(x)
    BY GetIsContent
  <2> QED BY <1>1, <2>1 DEF Stored, rawget
<1> QED BY <1>2, <1>3

(* rawset is one of the three.                                               *)
LEMMA rawsetStores ==
  ASSUME Typed, Partition, NEW k \in Keys, NEW v \in Vals \cup {Nil}, NEW float,
         rawset(k, v, float)
  PROVE  Stored(k, v) /\ meant' = [meant EXCEPT ![k] = v]
<1>1. isSparse' = FALSE /\ sparse' = Empty /\ meant' = [meant EXCEPT ![k] = v]
  BY DEF rawset, Means
<1>2. CASE k \in 1 .. Len(array)
  BY <1>1, <1>2, SetSlotStores DEF rawset
<1>3. CASE k \notin 1 .. Len(array) /\ k \in Ints /\ k = Len(array) + 1 /\ v # Nil
  BY <1>1, <1>3, AppendSlotStores DEF rawset
<1>4. CASE k \notin 1 .. Len(array) /\ ~(k \in Ints /\ k = Len(array) + 1 /\ v # Nil)
  BY <1>1, <1>4, SetHashStores DEF rawset
<1> QED BY <1>1, <1>2, <1>3, <1>4

(* What a step does to the map and to the history: the same, unless a region  *)
(* writes to a dictionary the table has given up.                            *)
Tracks ==
  \/ \E k \in Keys, v \in Vals \cup {Nil} :
       /\ \A x \in Keys : rawget(x)' = IF x = k THEN v ELSE rawget(x)
       /\ meant' = [meant EXCEPT ![k] = v]
  \/ (\A x \in Keys : rawget(x)' = rawget(x)) /\ meant' = meant
  \/ region = "orphan"

(* A region can lose its dictionary only through a second register or a       *)
(* constant key.                                                             *)
Sound == ~Aliased /\ ~ConstantKeys /\ region # "orphan" => region' # "orphan"

LEMMA rawsetStep ==
  ASSUME StorageInv, NEW k \in Keys, NEW v \in Vals \cup {Nil}, NEW float,
         rawset(k, v, float)
  PROVE  Typed' /\ Partition' /\ Tracks
  BY rawsetStores, StoredFacts DEF StorageInv, Tracks

LEMMA GeneratedStep ==
  ASSUME StorageInv, NEW k \in Names, NEW v \in Vals, NEW fresh \in BOOLEAN,
         GeneratedSet(k, v, fresh)
  PROVE  StorageInv' /\ Tracks /\ Sound
<1> USE DEF StorageInv
<1>1. k \in Keys /\ k \notin Ints /\ k \notin 1 .. Len(array) /\ v # Nil
  BY TableAssumption DEF Keys, Ints, Typed
<1>2. region' = region /\ meant' = [meant EXCEPT ![k] = v] /\ array' = array
  BY DEF GeneratedSet, Means
<1>3. CASE fresh
  <2>1. isSparse' = FALSE /\ sparse' = Empty /\ SetHash(k, v, FALSE)
    BY <1>1, <1>2, <1>3 DEF GeneratedSet, SetHash
  <2>2. Stored(k, v)
    BY <1>1, <2>1, SetHashStores
  <2>3. Typed' /\ Partition' /\ \A x \in Keys : rawget(x)' = IF x = k THEN v ELSE rawget(x)
    BY <1>1, <2>2, StoredFacts
  <2>4. region = "off"
    BY <1>3 DEF GeneratedSet
  <2> QED BY <1>1, <1>2, <2>3, <2>4 DEF Tracks, Sound, RegionOwns
<1>4. CASE ~fresh
  <2>1. /\ hash' = With(hash, k, Entry(v, FALSE))
        /\ isSparse' = isSparse /\ sparse' = sparse
    BY <1>4 DEF GeneratedSet
  <2>2. /\ DOMAIN hash' = DOMAIN hash \cup {k} /\ hash'[k].val = v
        /\ \A x \in DOMAIN hash : x # k => hash'[x].val = hash[x].val
    BY <2>1 DEF With, Entry
  <2>3. Typed' /\ Partition'
    BY <1>1, <1>2, <2>1, <2>2 DEF Typed, Partition
  <2>4. ASSUME NEW x \in Keys PROVE rawget(x)' = IF x = k THEN v ELSE rawget(x)
    BY <1>1, <1>2, <2>1, <2>2 DEF rawget
  <2> QED BY <1>1, <1>2, <2>1, <2>3, <2>4 DEF Tracks, Sound, RegionOwns
<1> QED BY <1>3, <1>4

LEMMA EnterStep ==
  ASSUME StorageInv, RegionEnter
  PROVE  StorageInv' /\ Tracks /\ Sound
<1> USE DEF StorageInv
<1>1. array' = array /\ hash' = hash /\ sparse' = sparse /\ meant' = meant
  BY DEF RegionEnter
<1>2. CASE region' = "none" /\ isSparse' = isSparse
  BY <1>1, <1>2 DEF Typed, Partition, RegionOwns, Tracks, Sound, rawget
<1>3. CASE region' = "shared" /\ isSparse' = TRUE /\ isSparse
  BY <1>1, <1>3 DEF Typed, Partition, RegionOwns, Tracks, Sound, rawget
<1>4. CASE /\ region' = "shared" /\ isSparse' = TRUE /\ ~isSparse
           /\ array = <<>> /\ DOMAIN hash = {}
  <2>1. Len(array) = 0 /\ DOMAIN sparse = {}
    BY <1>4 DEF Partition
  <2>2. Typed' /\ Partition' /\ RegionOwns'
    BY <1>1, <1>4, <2>1 DEF Typed, Partition, RegionOwns
  <2>3. \A x \in Keys : rawget(x)' = rawget(x)
    BY <1>1, <1>4, <2>1 DEF rawget
  <2> QED BY <1>1, <1>4, <2>2, <2>3 DEF Tracks, Sound
<1> QED BY <1>2, <1>3, <1>4 DEF RegionEnter, Typed

LEMMA RegionSetStep ==
  ASSUME StorageInv, NEW k \in Keys, NEW v \in Vals \cup {Nil}, RegionSet(k, v)
  PROVE  StorageInv' /\ Tracks /\ Sound
<1> USE DEF StorageInv
<1>1. CASE ~(Untagged(k) /\ v \in Bools)
  <2>1. rawset(k, v, FALSE) /\ region' = "none"
    BY <1>1 DEF RegionSet
  <2> QED BY <2>1, rawsetStep DEF RegionOwns, Sound
<1>2. CASE Untagged(k) /\ v \in Bools /\ region = "shared"
  <2>1. /\ sparse' = With(sparse, k, v) /\ array' = array /\ hash' = hash
        /\ isSparse' = isSparse /\ region' = region /\ meant' = [meant EXCEPT ![k] = v]
    BY <1>2 DEF RegionSet, Means
  <2>2. isSparse /\ Len(array) = 0 /\ DOMAIN hash \cap Ints = {} /\ k \in Ints /\ k > 1
    BY <1>2 DEF RegionOwns, Partition, Untagged, Ints
  <2>3. /\ DOMAIN sparse' = DOMAIN sparse \cup {k} /\ sparse'[k] = v
        /\ \A x \in DOMAIN sparse : x # k => sparse'[x] = sparse[x]
    BY <2>1 DEF With
  <2>4. Typed' /\ Partition' /\ RegionOwns'
    BY <1>2, <2>1, <2>2, <2>3 DEF Typed, Partition, RegionOwns
  <2>5. ASSUME NEW x \in Keys PROVE rawget(x)' = IF x = k THEN v ELSE rawget(x)
    BY <2>1, <2>2, <2>3 DEF rawget
  <2> QED BY <1>2, <2>1, <2>4, <2>5 DEF Tracks, Sound
<1>3. CASE Untagged(k) /\ v \in Bools /\ region = "orphan"
  <2>1. UNCHANGED <<array, hash, isSparse, sparse, region>>
    BY <1>3 DEF RegionSet
  <2> QED BY <1>3, <2>1 DEF Typed, Partition, RegionOwns, Tracks, Sound
<1> QED BY <1>1, <1>2, <1>3 DEF Untagged

(* A step keeps the invariants, and the map follows the history.             *)
LEMMA StepFacts ==
  ASSUME StorageInv, Next
  PROVE  StorageInv' /\ Tracks /\ Sound
<1>1. CASE \E k \in Keys, v \in Vals \cup {Nil}, float \in BOOLEAN : Set(k, v, float)
  <2>1. PICK k \in Keys, v \in Vals \cup {Nil}, float \in BOOLEAN :
          rawset(k, v, float) /\ region = "off" /\ region' = region
    BY <1>1 DEF Set
  <2> QED BY <2>1, rawsetStep DEF StorageInv, RegionOwns, Sound
<1>2. CASE \E k \in Names, v \in Vals, fresh \in BOOLEAN : GeneratedSet(k, v, fresh)
  BY <1>2, GeneratedStep
<1>3. CASE RegionEnter
  BY <1>3, EnterStep
<1>4. CASE \E k \in Keys, v \in Vals \cup {Nil} : RegionSet(k, v)
  BY <1>4, RegionSetStep
<1>5. CASE \E k \in Keys, v \in Vals \cup {Nil} : RegionAliasSet(k, v)
  <2>1. PICK k \in Keys, v \in Vals \cup {Nil} :
          /\ rawset(k, v, FALSE) /\ Aliased /\ region' \in {"orphan", region}
          /\ region = "shared" => region' = "orphan"
    BY <1>5 DEF RegionAliasSet, KeepingLocal
  <2> QED BY <2>1, rawsetStep DEF StorageInv, RegionOwns, Sound
<1>9. CASE \E k \in Keys, v \in Vals \cup {Nil}, float \in BOOLEAN : RegionConstantSet(k, v, float)
  <2>1. PICK k \in Keys, v \in Vals \cup {Nil}, float \in BOOLEAN :
          /\ rawset(k, v, float) /\ ConstantKeys /\ region' \in {"orphan", region}
          /\ region = "shared" => region' = "orphan"
    BY <1>9 DEF RegionConstantSet, KeepingLocal
  <2> QED BY <2>1, rawsetStep DEF StorageInv, RegionOwns, Sound
<1>6. CASE RegionExit
  BY <1>6 DEF RegionExit, storage, StorageInv, Typed, Partition, RegionOwns, Tracks, Sound, rawget
<1>7. CASE \E w \in Walkers : StartWalk(w)
  BY <1>7 DEF StartWalk, storage, StorageInv, Typed, Partition, RegionOwns, Tracks, Sound, rawget
<1>8. CASE \E w \in Walkers : NextItem(w)
  BY <1>8 DEF NextItem, storage, StorageInv, Typed, Partition, RegionOwns, Tracks, Sound, rawget
<1> QED BY <1>1, <1>2, <1>3, <1>4, <1>5, <1>6, <1>7, <1>8, <1>9 DEF Next

-----------------------------------------------------------------------------
(* The theorems.                                                            *)

LEMMA InitStorage ==
  ASSUME Init
  PROVE  StorageInv /\ (\A k \in Keys : rawget(k) = Nil) /\ region # "orphan"
<1>1. array = <<>> /\ Len(array) = 0 /\ DOMAIN hash = {} /\ DOMAIN sparse = {}
  BY DEF Init, Empty
<1>2. Typed /\ Partition /\ RegionOwns
  <2>1. array \in Seq(Vals \cup {Nil}) /\ Len(array) <= MaxInt
    BY <1>1, TableAssumption
  <2>2. isSparse = FALSE /\ region = "off"
    BY DEF Init
  <2>3. Typed
    BY <1>1, <2>1, <2>2 DEF Typed
  <2>4. Partition
    BY <1>1, <2>2 DEF Partition
  <2> QED BY <2>2, <2>3, <2>4 DEF RegionOwns
<1>3. \A k \in Keys : rawget(k) = Nil
  BY <1>1 DEF Init, rawget
<1> QED BY <1>2, <1>3 DEF StorageInv, Init

(* Whatever sequence of stores, generated or not, and of untagged loops, the  *)
(* array part and the hash part never share a key, and a table never has an   *)
(* array part and an untagged dictionary together: rawset, the generated      *)
(* stores and the entry condition of the loops keep the parts apart.          *)
THEOREM KeepsPartition == Spec => []Partition
<1>1. Init => StorageInv
  BY InitStorage
<1>2. StorageInv /\ [Next]_vars => StorageInv'
  <2>1. ASSUME StorageInv, Next PROVE StorageInv'
    BY <2>1, StepFacts
  <2>2. ASSUME StorageInv, UNCHANGED vars PROVE StorageInv'
    BY <2>2 DEF vars, storage, StorageInv, Typed, Partition, RegionOwns
  <2> QED BY <2>1, <2>2
<1>3. StorageInv => Partition
  BY DEF StorageInv
<1> QED BY <1>1, <1>2, <1>3, PTL DEF Spec

(* The inductive invariant for the contents.                                 *)
ContentInv ==
  /\ StorageInv /\ region # "orphan"
  /\ meant \in [Keys -> Vals \cup {Nil}]
  /\ \A k \in Keys : rawget(k) = meant[k]

LEMMA NextContent ==
  ASSUME Aliased = FALSE, ConstantKeys = FALSE, ContentInv, [Next]_vars
  PROVE  ContentInv'
<1>1. CASE Next
  <2>1. StorageInv' /\ Tracks /\ region' # "orphan"
    BY <1>1, StepFacts DEF ContentInv, Sound
  <2>2. CASE \E k \in Keys, v \in Vals \cup {Nil} :
               /\ \A x \in Keys : rawget(x)' = IF x = k THEN v ELSE rawget(x)
               /\ meant' = [meant EXCEPT ![k] = v]
    BY <2>1, <2>2 DEF ContentInv
  <2>3. CASE (\A x \in Keys : rawget(x)' = rawget(x)) /\ meant' = meant
    BY <2>1, <2>3 DEF ContentInv
  <2> QED BY <2>1, <2>2, <2>3 DEF Tracks, ContentInv
<1>2. CASE UNCHANGED vars
  BY <1>2 DEF vars, storage, ContentInv, StorageInv, Typed, Partition, RegionOwns, rawget
<1> QED BY <1>1, <1>2

LEMMA ContentHolds ==
  ASSUME Aliased = FALSE, ConstantKeys = FALSE
  PROVE  Spec => []ContentInv
<1>1. Init => ContentInv
  <2> SUFFICES ASSUME Init PROVE ContentInv
    OBVIOUS
  <2>1. meant = [k \in Keys |-> Nil]
    BY DEF Init
  <2> QED BY <2>1, InitStorage DEF ContentInv
<1>2. ContentInv /\ [Next]_vars => ContentInv'
  BY NextContent
<1> QED BY <1>1, <1>2, PTL DEF Spec

(* When an untagged loop reaches its table through one register only, and     *)
(* neither stores a constant integer key nor deletes a constant key, the      *)
(* table holds what the program last assigned to each key, through every move of    *)
(* a key between the array part, the hash part and the untagged dictionary.   *)
THEOREM KeepsAssignments == Aliased = FALSE /\ ConstantKeys = FALSE => (Spec => []HoldsWhatWasAssigned)
<1> SUFFICES ASSUME Aliased = FALSE, ConstantKeys = FALSE PROVE Spec => []HoldsWhatWasAssigned
  OBVIOUS
<1>1. Spec => []ContentInv
  BY ContentHolds
<1>2. ContentInv => HoldsWhatWasAssigned
  BY HasIsGet DEF ContentInv, StorageInv, HoldsWhatWasAssigned
<1> QED BY <1>1, <1>2, PTL

(* Under the same conditions the length of a table is a border of its         *)
(* sequence.                                                                 *)
THEOREM LengthCorrect == Aliased = FALSE /\ ConstantKeys = FALSE => (Spec => []LengthIsBorder)
<1> SUFFICES ASSUME Aliased = FALSE, ConstantKeys = FALSE PROVE Spec => []LengthIsBorder
  OBVIOUS
<1>1. Spec => []ContentInv
  BY ContentHolds
<1>2. ContentInv => LengthIsBorder
  <2> SUFFICES ASSUME ContentInv PROVE LengthIsBorder
    OBVIOUS
  <2>1. Len(array) \in Nat /\ Len(array) <= MaxInt /\ Typed /\ Partition
    BY DEF ContentInv, StorageInv, Typed
  <2>2. ASSUME Len(array) > 0 PROVE meant[Len(array)] # Nil
    <3>1. Len(array) \in 1 .. Len(array) /\ Len(array) \in Keys
      BY <2>1, <2>2, TableAssumption DEF Keys, Ints
    <3>2. rawget(Len(array)) = array[Len(array)]
      BY <3>1 DEF rawget
    <3> QED BY <2>1, <2>2, <3>1, <3>2 DEF ContentInv, Partition
  <2>3. ASSUME Len(array) + 1 \in Keys PROVE meant[Len(array) + 1] = Nil
    <3>1. Len(array) + 1 \notin 1 .. Len(array) /\ Len(array) + 1 \in Ints
      BY <2>1, <2>3, TableAssumption DEF Keys
    <3>2. Len(array) + 1 \notin DOMAIN Hash
      BY <2>1, <3>1, HashFacts
    <3>3. rawget(Len(array) + 1) = Nil
      BY <2>1, <2>3, <3>1, <3>2, GetIsContent DEF Content
    <3> QED BY <2>3, <3>3 DEF ContentInv
  <2> QED BY <2>2, <2>3 DEF LengthIsBorder, rawlen
<1> QED BY <1>1, <1>2, PTL

(* And the generated loop, under the same conditions, reads through its local *)
(* variable what the interpreter would read.                                 *)
THEOREM RegionCorrect == Aliased = FALSE /\ ConstantKeys = FALSE => (Spec => []RegionReadsTable)
<1> SUFFICES ASSUME Aliased = FALSE, ConstantKeys = FALSE PROVE Spec => []RegionReadsTable
  OBVIOUS
<1>1. Spec => []ContentInv
  BY ContentHolds
<1>2. ContentInv => RegionReadsTable
  <2> SUFFICES ASSUME ContentInv, NEW k \in Keys PROVE RegionRead(k) = meant[k]
    BY DEF RegionReadsTable
  <2>1. CASE Untagged(k)
    <3>1. region = "shared" /\ isSparse /\ k \in Ints /\ Len(array) = 0
      BY <2>1 DEF ContentInv, StorageInv, RegionOwns, Partition, Untagged
    <3> QED BY <2>1, <3>1 DEF RegionRead, rawget, ContentInv
  <2>2. CASE ~Untagged(k)
    BY <2>2 DEF RegionRead, ContentInv
  <2> QED BY <2>1, <2>2
<1> QED BY <1>1, <1>2, PTL

-----------------------------------------------------------------------------
(* Lists.                                                                   *)

(* A list in which every set of keys has a first one.                        *)
WellOrdered(l) ==
  /\ IsList(l)
  /\ \A S \in SUBSET l.keys :
       S # {} => \E x \in S : \A y \in S \ {x} : <<x, y>> \in l.before

(* Two lists order the keys of S alike.                                      *)
Agree(l, m, S) == \A x, y \in S : <<x, y>> \in l.before <=> <<x, y>> \in m.before

(* The first key of a set is the one that comes before the others.           *)
LEMMA FirstIsLeast ==
  ASSUME NEW l, WellOrdered(l), NEW S, S \subseteq l.keys, S # {}
  PROVE  /\ FirstOf(S, l.before) \in S
         /\ \A y \in S \ {FirstOf(S, l.before)} : <<FirstOf(S, l.before), y>> \in l.before
<1>1. \E x \in S : \A y \in S \ {x} : <<x, y>> \in l.before
  BY DEF WellOrdered
<1> QED BY <1>1 DEF FirstOf

LEMMA LeastIsFirst ==
  ASSUME NEW l, IsList(l), NEW S, S \subseteq l.keys, NEW x \in S,
         \A y \in S \ {x} : <<x, y>> \in l.before
  PROVE  FirstOf(S, l.before) = x
<1> DEFINE z == CHOOSE z \in S : \A y \in S \ {z} : <<z, y>> \in l.before
<1>1. z \in S /\ \A y \in S \ {z} : <<z, y>> \in l.before
  OBVIOUS
<1>2. FirstOf(S, l.before) = z
  BY DEF FirstOf
<1> HIDE DEF z
<1>3. z = x
  BY <1>1 DEF IsList
<1> QED BY <1>2, <1>3

LEMMA FirstOfNone ==
  ASSUME NEW before PROVE FirstOf({}, before) = Nil
  BY DEF FirstOf

(* The first key depends only on the order of the keys in question.          *)
LEMMA FirstAgrees ==
  ASSUME NEW l, NEW m, WellOrdered(l), WellOrdered(m), NEW S,
         S \subseteq l.keys, S \subseteq m.keys, Agree(l, m, S)
  PROVE  FirstOf(S, l.before) = FirstOf(S, m.before)
<1>1. CASE S = {}
  BY <1>1, FirstOfNone
<1>2. CASE S # {}
  <2> DEFINE x == FirstOf(S, l.before)
  <2>1. x \in S /\ \A y \in S \ {x} : <<x, y>> \in l.before
    BY <1>2, FirstIsLeast
  <2> HIDE DEF x
  <2>2. \A y \in S \ {x} : <<x, y>> \in m.before
    BY <2>1 DEF Agree
  <2>3. FirstOf(S, m.before) = x
    BY <2>1, <2>2, LeastIsFirst DEF WellOrdered
  <2> QED BY <2>3 DEF x
<1> QED BY <1>1, <1>2

(* The keys that come after a key.                                           *)
After(l, k) == {x \in l.keys : <<k, x>> \in l.before}

-----------------------------------------------------------------------------
(* Well-ordered lists, built.                                                *)

LEMMA EmptyWellOrdered == WellOrdered(List({}, {}))
  BY DEF WellOrdered, IsList, List

LEMMA RestrictWellOrdered ==
  ASSUME NEW l, WellOrdered(l), NEW S, S \subseteq l.keys
  PROVE  WellOrdered(List(S, l.before \cap (S \X S)))
<1>1. IsList(List(S, l.before \cap (S \X S)))
  BY DEF WellOrdered, IsList, List
<1>2. ASSUME NEW T \in SUBSET S, T # {}
      PROVE  \E x \in T : \A y \in T \ {x} : <<x, y>> \in l.before \cap (S \X S)
  BY <1>2 DEF WellOrdered
<1> QED BY <1>1, <1>2 DEF WellOrdered, List

LEMMA ThenWellOrdered ==
  ASSUME NEW l, NEW m, WellOrdered(l), WellOrdered(m), l.keys \cap m.keys = {}
  PROVE  /\ WellOrdered(Then(l, m))
         /\ Then(l, m).keys = l.keys \cup m.keys
         /\ \A x, y \in l.keys : <<x, y>> \in Then(l, m).before <=> <<x, y>> \in l.before
         /\ \A x, y \in m.keys : <<x, y>> \in Then(l, m).before <=> <<x, y>> \in m.before
         /\ \A x \in l.keys, y \in m.keys :
              <<x, y>> \in Then(l, m).before /\ <<y, x>> \notin Then(l, m).before
<1> DEFINE n == Then(l, m)
<1>1. n.keys = l.keys \cup m.keys /\ n.before = l.before \cup m.before \cup (l.keys \X m.keys)
  BY DEF Then, List
<1> HIDE DEF n
<1>2. l.before \subseteq l.keys \X l.keys /\ m.before \subseteq m.keys \X m.keys
  BY DEF WellOrdered, IsList
<1>3. /\ \A x, y \in l.keys : <<x, y>> \in n.before <=> <<x, y>> \in l.before
      /\ \A x, y \in m.keys : <<x, y>> \in n.before <=> <<x, y>> \in m.before
      /\ \A x \in l.keys, y \in m.keys : <<x, y>> \in n.before /\ <<y, x>> \notin n.before
  BY <1>1, <1>2
<1>4. n.before \subseteq n.keys \X n.keys
  BY <1>1, <1>2
<1>5. ASSUME NEW x \in n.keys, NEW y \in n.keys
      PROVE  /\ <<x, y>> \in n.before => <<y, x>> \notin n.before
             /\ x # y => <<x, y>> \in n.before \/ <<y, x>> \in n.before
  BY <1>1, <1>3 DEF WellOrdered, IsList
<1>6. ASSUME NEW x \in n.keys, NEW y \in n.keys, NEW z \in n.keys,
             <<x, y>> \in n.before, <<y, z>> \in n.before
      PROVE  <<x, z>> \in n.before
  BY <1>1, <1>3, <1>6 DEF WellOrdered, IsList
<1>7. ASSUME NEW T \in SUBSET n.keys, T # {}
      PROVE  \E x \in T : \A y \in T \ {x} : <<x, y>> \in n.before
  <2>1. CASE T \cap l.keys # {}
    <3>1. PICK x \in T \cap l.keys : \A y \in (T \cap l.keys) \ {x} : <<x, y>> \in l.before
      BY <2>1 DEF WellOrdered
    <3> QED BY <1>1, <1>3, <3>1
  <2>2. CASE T \cap l.keys = {}
    <3>1. T \subseteq m.keys
      BY <1>1, <2>2
    <3>2. PICK x \in T : \A y \in T \ {x} : <<x, y>> \in m.before
      BY <1>7, <3>1 DEF WellOrdered
    <3> QED BY <1>3, <3>1, <3>2
  <2> QED BY <2>1, <2>2
<1>8. WellOrdered(n)
  BY <1>4, <1>5, <1>6, <1>7 DEF WellOrdered, IsList
<1> QED BY <1>1, <1>3, <1>8 DEF n

(* A new key comes last.                                                     *)
LEMMA AddWellOrdered ==
  ASSUME NEW S, NEW o, WellOrdered(List(S, o)), NEW k, k \notin S
  PROVE  WellOrdered(List(S \cup {k}, o \cup (S \X {k})))
<1>1. WellOrdered(List({k}, {}))
  BY DEF WellOrdered, IsList, List
<1>2. Then(List(S, o), List({k}, {})) = List(S \cup {k}, o \cup (S \X {k}))
  BY DEF Then, List
<1> QED BY <1>1, <1>2, ThenWellOrdered DEF List

(* The order of a dictionary with k set.                                     *)
LEMMA WithWellOrdered ==
  ASSUME NEW d, NEW o, WellOrdered(List(DOMAIN d, o)), NEW k, NEW e
  PROVE  WellOrdered(List(DOMAIN With(d, k, e), OrderWith(d, o, k)))
<1>1. DOMAIN With(d, k, e) = DOMAIN d \cup {k}
  BY DEF With
<1>2. CASE k \in DOMAIN d
  <2>1. DOMAIN d \cup {k} = DOMAIN d /\ OrderWith(d, o, k) = o
    BY <1>2 DEF OrderWith
  <2> QED BY <1>1, <2>1
<1>3. CASE k \notin DOMAIN d
  <2>1. OrderWith(d, o, k) = o \cup ((DOMAIN d) \X {k})
    BY <1>3 DEF OrderWith
  <2> QED BY <1>1, <1>3, <2>1, AddWellOrdered
<1> QED BY <1>2, <1>3

(* The slots of the array part, in numerical order.                          *)
LEMMA NumbersWellOrdered ==
  ASSUME NEW S, S \subseteq Nat
  PROVE  WellOrdered(List(S, {p \in S \X S : p[1] < p[2]}))
<1> DEFINE o == {p \in S \X S : p[1] < p[2]}
<1>1. \A x, y \in S : <<x, y>> \in o <=> x < y
  OBVIOUS
<1>2. o \subseteq S \X S
  OBVIOUS
<1> HIDE DEF o
<1>3. ASSUME NEW T \in SUBSET S, T # {}
      PROVE  \E x \in T : \A y \in T \ {x} : <<x, y>> \in o
  <2>1. IsWellFoundedOn({ss \in Nat \X Nat : ss[1] < ss[2]}, Nat)
    BY NatLessThanWellFounded DEF OpToRel
  <2>2. PICK x \in T : \A y \in T : ~(<<y, x>> \in {ss \in Nat \X Nat : ss[1] < ss[2]})
    BY <1>3, <2>1, WFMin
  <2>3. \A y \in T : ~(y < x)
    BY <2>2
  <2> QED BY <1>1, <2>3
<1>4. IsList(List(S, o))
  <2>1. ASSUME NEW x \in S, NEW y \in S
        PROVE  /\ <<x, y>> \in o => <<y, x>> \notin o
               /\ x # y => <<x, y>> \in o \/ <<y, x>> \in o
    <3>1. x \in Nat /\ y \in Nat /\ (x < y => ~(y < x)) /\ (x # y => x < y \/ y < x)
      OBVIOUS
    <3> QED BY <1>1, <3>1
  <2>2. \A x, y, z \in S : <<x, y>> \in o /\ <<y, z>> \in o => <<x, z>> \in o
    BY <1>1
  <2> QED BY <1>2, <2>1, <2>2 DEF IsList, List
<1>5. WellOrdered(List(S, o))
  BY <1>3, <1>4 DEF WellOrdered, List
<1> QED BY <1>5 DEF o
-----------------------------------------------------------------------------
(* The invariants of the traversals.                                         *)

Present == {k \in Keys : rawhas(k)}

(* The orders of the dictionaries are well-orders.                           *)
OrdersInv ==
  WellOrdered(List(DOMAIN hash, order)) /\ WellOrdered(List(DOMAIN sparse, sorder))

(* So is the index, whether or not it is up to date; recorded successors are  *)
(* keys or the end.                                                          *)
MetaInv ==
  /\ indexed \in BOOLEAN
  /\ indexed \/ index # Absent => index.keys \subseteq Keys /\ WellOrdered(index)
  /\ DOMAIN succ \subseteq Keys /\ \A k \in DOMAIN succ : succ[k] \in Keys \cup {Nil}

ListInv == OrdersInv /\ MetaInv

(* The index in use may hold keys that are gone; it has every key that is     *)
(* there, in the order of the table.                                         *)
IndexInv == Present \subseteq Index.keys /\ Agree(Index, Items, Present)

(* A traversal of the list l that stands at the key at has seen an initial    *)
(* part of l, up to this key if it is still in l.                            *)
Placed(l, at, seen) ==
  /\ \A x \in l.keys \cap seen, y \in l.keys : <<y, x>> \in l.before => y \in seen
  /\ at \in l.keys => at \in seen /\ \A x \in l.keys \cap seen : x = at \/ <<x, at>> \in l.before

FirstLeft(l, seen) == FirstOf(l.keys \ seen, l.before)

(* The chain from k ends at n, and only there.                               *)
EndsAt(s, gone, k, n) == Chain(s, gone, k) \ gone = {n}

(* Its key is one of the list or one whose deletion was recorded; then the    *)
(* recorded successors s lead to the first key it has not seen, and so does   *)
(* the index i if the key is still in it.                                    *)
Walking(t, l, s, gone, i) ==
  /\ t.at = Nil => t.seen = {}
  /\ Placed(l, t.at, t.seen)
  /\ t.at \in gone =>
       /\ t.at \in DOMAIN s
       /\ EndsAt(s, gone, t.at, FirstLeft(l, t.seen))
       /\ t.at \in i.keys => \A x \in l.keys : <<t.at, x>> \in i.before <=> x \notin t.seen

Walks == [on: BOOLEAN, at: Keys \cup {Nil}, seen: SUBSET Keys]

WalkInv ==
  /\ walk \in [Walkers -> Walks]
  /\ \A w \in Walkers : walk[w].on => Walking(walk[w], Items, succ, Gone, Index)

-----------------------------------------------------------------------------
(* Traversals of a list.                                                    *)

(* What a traversal that stands at a key of the list has left is what comes   *)
(* after this key.                                                           *)
LEMMA LeftIsAfter ==
  ASSUME NEW l, WellOrdered(l), NEW at \in l.keys, NEW seen, Placed(l, at, seen)
  PROVE  l.keys \ seen = After(l, at)
<1>1. IsList(l)
  BY DEF WellOrdered
<1>2. ASSUME NEW x \in l.keys PROVE x \notin seen <=> <<at, x>> \in l.before
  <2>1. /\ at \in seen
        /\ x \in seen => x = at \/ <<x, at>> \in l.before
        /\ <<x, at>> \in l.before => x \in seen
    BY DEF Placed
  <2>2. /\ <<x, at>> \in l.before => <<at, x>> \notin l.before
        /\ x = at => <<at, x>> \notin l.before
        /\ x # at => <<x, at>> \in l.before \/ <<at, x>> \in l.before
    BY <1>1 DEF IsList
  <2> QED BY <2>1, <2>2
<1> QED BY <1>2 DEF After

(* It goes on to the first key left.                                         *)
LEMMA PlacedAdvances ==
  ASSUME NEW l, WellOrdered(l), NEW at, NEW seen, Placed(l, at, seen), l.keys \ seen # {}
  PROVE  /\ FirstLeft(l, seen) \in l.keys \ seen
         /\ Placed(l, FirstLeft(l, seen), seen \cup {FirstLeft(l, seen)})
<1> DEFINE k == FirstLeft(l, seen)
<1>1. k \in l.keys \ seen /\ \A y \in (l.keys \ seen) \ {k} : <<k, y>> \in l.before
  BY FirstIsLeast DEF FirstLeft
<1> HIDE DEF k
<1>2. IsList(l)
  BY DEF WellOrdered
<1>3. ASSUME NEW x \in l.keys \cap (seen \cup {k}), NEW y \in l.keys, <<y, x>> \in l.before
      PROVE  y \in seen \cup {k}
  <2>1. CASE x \in seen
    BY <1>3, <2>1 DEF Placed
  <2>2. CASE x = k
    <3>1. <<k, y>> \notin l.before
      BY <1>1, <1>2, <1>3, <2>2 DEF IsList
    <3> QED BY <1>1, <3>1
  <2> QED BY <2>1, <2>2
<1>4. ASSUME NEW x \in l.keys \cap (seen \cup {k}), x # k PROVE <<x, k>> \in l.before
  <2>1. <<k, x>> \notin l.before
    BY <1>1, <1>4 DEF Placed
  <2> QED BY <1>1, <1>2, <1>4, <2>1 DEF IsList
<1>5. Placed(l, k, seen \cup {k})
  BY <1>3, <1>4 DEF Placed
<1> QED BY <1>1, <1>5 DEF k

(* The list m is l without d.                                                *)
Shorter(l, m, d) == m.keys = l.keys \ {d} /\ Agree(m, l, m.keys)

LEMMA PlacedDeletes ==
  ASSUME NEW l, NEW m, NEW d, Shorter(l, m, d), NEW at, NEW seen, Placed(l, at, seen)
  PROVE  Placed(m, at, seen)
  BY DEF Shorter, Agree, Placed

(* A deletion leaves the first key left as it was, or it is the one after.    *)
LEMMA DeleteFirst ==
  ASSUME NEW l, NEW m, WellOrdered(l), WellOrdered(m), NEW d \in l.keys, Nil \notin l.keys,
         Shorter(l, m, d), NEW at, NEW seen, Placed(l, at, seen)
  PROVE  FirstLeft(m, seen) = IF FirstLeft(l, seen) = d THEN FirstOf(After(l, d), l.before)
                              ELSE FirstLeft(l, seen)
<1>1. IsList(l) /\ m.keys = l.keys \ {d} /\ Agree(m, l, m.keys)
  BY DEF WellOrdered, Shorter
<1>2. m.keys \ seen \subseteq l.keys /\ m.keys \ seen \subseteq m.keys
      /\ Agree(m, l, m.keys \ seen)
  BY <1>1 DEF Agree
<1>3. FirstLeft(m, seen) = FirstOf(m.keys \ seen, l.before)
  BY <1>2, FirstAgrees DEF FirstLeft
<1>4. CASE d \in seen
  <2>1. m.keys \ seen = l.keys \ seen
    BY <1>1, <1>4
  <2>2. FirstLeft(l, seen) # d
    <3>1. CASE l.keys \ seen = {}
      BY <3>1, FirstOfNone DEF FirstLeft
    <3>2. CASE l.keys \ seen # {}
      BY <1>4, <3>2, FirstIsLeast DEF FirstLeft
    <3> QED BY <3>1, <3>2
  <2> QED BY <1>3, <2>1, <2>2 DEF FirstLeft
<1>5. CASE d \notin seen
  <2> DEFINE n == FirstLeft(l, seen)
  <2>1. n \in l.keys \ seen /\ \A y \in (l.keys \ seen) \ {n} : <<n, y>> \in l.before
    BY <1>5, FirstIsLeast DEF FirstLeft
  <2> HIDE DEF n
  <2>2. CASE n # d
    <3>1. n \in m.keys \ seen /\ \A y \in (m.keys \ seen) \ {n} : <<n, y>> \in l.before
      BY <1>1, <2>1, <2>2
    <3>2. FirstOf(m.keys \ seen, l.before) = n
      BY <1>1, <1>2, <3>1, LeastIsFirst
    <3> QED BY <1>3, <2>2, <3>2 DEF n
  <2>3. CASE n = d
    <3>1. ASSUME NEW x \in l.keys PROVE x \in m.keys \ seen <=> <<d, x>> \in l.before
      <4>1. x \in m.keys \ seen => <<d, x>> \in l.before
        BY <1>1, <2>1, <2>3
      <4>2. <<d, x>> \in l.before => x # d
        BY <1>1 DEF IsList
      <4>3. <<d, x>> \in l.before => x \notin seen
        BY <1>5 DEF Placed
      <4> QED BY <1>1, <4>1, <4>2, <4>3
    <3>2. m.keys \ seen = After(l, d)
      BY <1>1, <3>1 DEF After
    <3> QED BY <1>3, <2>3, <3>2 DEF n
  <2> QED BY <2>2, <2>3
<1> QED BY <1>4, <1>5

-----------------------------------------------------------------------------
(* Chains of recorded successors.                                            *)

Ends == Keys \cup {Nil, Absent}

(* A set that the chain from k does not leave.                               *)
Closed(S, s, gone, k) ==
  Recorded(s, k) \in S /\ \A y \in S \cap gone : Recorded(s, y) \in S

LEMMA ChainFacts ==
  ASSUME NEW s, NEW gone, NEW k
  PROVE  /\ Chain(s, gone, k) \subseteq Ends
         /\ \A S \in SUBSET Ends : Closed(S, s, gone, k) => Chain(s, gone, k) \subseteq S
         /\ \A x \in Ends : (\A S \in SUBSET Ends : Closed(S, s, gone, k) => x \in S)
                            => x \in Chain(s, gone, k)
  BY DEF Chain, Ends, Closed

(* The chain itself is closed.                                               *)
LEMMA ChainClosed ==
  ASSUME NEW s, NEW gone, NEW k, \A x : Recorded(s, x) \in Ends
  PROVE  Closed(Chain(s, gone, k), s, gone, k)
<1>1. Recorded(s, k) \in Chain(s, gone, k)
  BY ChainFacts DEF Closed
<1>2. ASSUME NEW y \in Chain(s, gone, k) \cap gone
      PROVE  Recorded(s, y) \in Chain(s, gone, k)
  <2>1. \A S \in SUBSET Ends : Closed(S, s, gone, k) => y \in S
    BY ChainFacts
  <2>2. \A S \in SUBSET Ends : Closed(S, s, gone, k) => Recorded(s, y) \in S
    BY <2>1 DEF Closed
  <2> QED BY <2>2, ChainFacts
<1> QED BY <1>1, <1>2 DEF Closed

(* A successor that is still there ends the chain.                           *)
LEMMA ChainStarts ==
  ASSUME NEW s, NEW gone, NEW k, Recorded(s, k) \in Ends \ gone
  PROVE  EndsAt(s, gone, k, Recorded(s, k))
<1>1. Closed({Recorded(s, k)}, s, gone, k) /\ {Recorded(s, k)} \in SUBSET Ends
  BY DEF Closed
<1>2. Recorded(s, k) \in Chain(s, gone, k)
  BY ChainFacts DEF Closed
<1> QED BY <1>1, <1>2, ChainFacts DEF EndsAt

(* Only what is recorded for k and for keys that are gone matters.            *)
LEMMA ChainSame ==
  ASSUME NEW s, NEW s2, NEW gone, NEW k, Recorded(s2, k) = Recorded(s, k),
         \A y \in gone : Recorded(s2, y) = Recorded(s, y)
  PROVE  Chain(s2, gone, k) = Chain(s, gone, k)
<1>1. \A S \in SUBSET Ends : Closed(S, s2, gone, k) <=> Closed(S, s, gone, k)
  BY DEF Closed
<1> QED BY <1>1, ChainFacts

(* A deletion prolongs the chains that end at the key, and no other.          *)
LEMMA ChainDeletes ==
  ASSUME NEW s, NEW s2, NEW gone, NEW k \in gone, NEW d \in Keys, d \notin gone, NEW n,
         \A x : Recorded(s, x) \in Ends, \A x : Recorded(s2, x) \in Ends,
         \A y \in gone : Recorded(s2, y) = Recorded(s, y),
         Recorded(s2, d) \notin gone \cup {d},
         EndsAt(s, gone, k, n)
  PROVE  EndsAt(s2, gone \cup {d}, k, IF n = d THEN Recorded(s2, d) ELSE n)
<1> DEFINE C == Chain(s, gone, k)
           C2 == Chain(s2, gone \cup {d}, k)
           e == Recorded(s2, d)
<1>0. C \ gone = {n}
  BY DEF EndsAt
<1>1. C \subseteq Ends /\ Closed(C, s, gone, k) /\ C2 \subseteq Ends
      /\ Closed(C2, s2, gone \cup {d}, k)
  BY ChainFacts, ChainClosed
<1>2. ASSUME NEW S \in SUBSET Ends, Closed(S, s2, gone \cup {d}, k) PROVE n \in S
  <2>1. Closed(S \cap C, s, gone, k)
    BY <1>0, <1>1, <1>2 DEF Closed
  <2>2. C \subseteq S \cap C
    BY <1>1, <2>1, ChainFacts
  <2> QED BY <1>0, <2>2
<1>3. n \in C2
  BY <1>1, <1>2
<1>4. CASE n = d
  <2>1. e \in C2
    BY <1>1, <1>3, <1>4 DEF Closed
  <2>2. Closed(C \cup {e}, s2, gone \cup {d}, k)
    <3>1. Recorded(s2, k) \in C
      BY <1>1 DEF Closed
    <3>2. ASSUME NEW y \in (C \cup {e}) \cap (gone \cup {d})
          PROVE  Recorded(s2, y) \in C \cup {e}
      <4>1. y \in C /\ (y \in gone \/ y = d)
        BY <3>2
      <4> QED BY <1>1, <4>1 DEF Closed
    <3> QED BY <3>1, <3>2 DEF Closed
  <2>3. C2 \subseteq C \cup {e}
    <3>1. e \in Ends /\ C \cup {e} \in SUBSET Ends
      BY <1>1
    <3> HIDE DEF C, e
    <3> QED BY <2>2, <3>1, ChainFacts
  <2>4. \A x \in C2 \ (gone \cup {d}) : x = e
    BY <1>0, <1>4, <2>3
  <2> QED BY <1>4, <2>1, <2>4 DEF EndsAt
<1>5. CASE n # d
  <2>1. d \notin C
    BY <1>0, <1>5
  <2>2. Closed(C, s2, gone \cup {d}, k)
    BY <1>1, <2>1 DEF Closed
  <2>3. C2 \subseteq C
    <3>1. C \in SUBSET Ends
      BY <1>1
    <3> HIDE DEF C
    <3> QED BY <2>2, <3>1, ChainFacts
  <2> QED BY <1>0, <1>3, <1>5, <2>3 DEF EndsAt
<1> QED BY <1>4, <1>5

-----------------------------------------------------------------------------
(* The list of the table.                                                    *)

LEMMA OrderFacts ==
  ASSUME StorageInv, ListInv
  PROVE  /\ WellOrdered(HashItems) /\ HashItems = List(DOMAIN Hash, Order)
         /\ HashItems.keys = DOMAIN Hash
<1>1. DOMAIN hash \cap DOMAIN sparse = {}
  BY DEF StorageInv, Typed, Partition
<1>2. /\ List(DOMAIN hash, order).keys = DOMAIN hash
      /\ List(DOMAIN sparse, sorder).keys = DOMAIN sparse
  BY DEF List
<1>3. WellOrdered(HashItems) /\ HashItems.keys = DOMAIN hash \cup DOMAIN sparse
  BY <1>1, <1>2, ThenWellOrdered DEF ListInv, OrdersInv, HashItems
<1>4. DOMAIN Hash = DOMAIN hash \cup DOMAIN sparse
  BY DEF Hash
<1>5. HashItems = List(HashItems.keys, HashItems.before)
  BY DEF HashItems, Then, List
<1> QED BY <1>3, <1>4, <1>5 DEF Order

(* The keys of the table are the slots in use and the keys of the hash part,  *)
(* in this order.                                                            *)
ItemsOrdered ==
  /\ WellOrdered(Items) /\ Items.keys = Present /\ Nil \notin Present
  /\ Present = Slots \cup DOMAIN Hash /\ Slots \cap DOMAIN Hash = {}
  /\ \A x, y \in Slots : <<x, y>> \in Items.before <=> x < y
  /\ \A x, y \in DOMAIN Hash : <<x, y>> \in Items.before <=> <<x, y>> \in Order
  /\ \A x \in Slots, y \in DOMAIN Hash : <<x, y>> \in Items.before /\ <<y, x>> \notin Items.before

LEMMA ItemsFacts == StorageInv /\ ListInv => ItemsOrdered
<1> SUFFICES ASSUME StorageInv, ListInv PROVE ItemsOrdered
  OBVIOUS
<1>1. /\ WellOrdered(HashItems) /\ HashItems = List(DOMAIN Hash, Order)
      /\ HashItems.keys = DOMAIN Hash /\ HashItems.before = Order
  BY OrderFacts DEF Order
<1>2. /\ DOMAIN Hash \subseteq Keys
      /\ \A k \in DOMAIN Hash : k \in Ints => k > Len(array) + 1
      /\ Len(array) \in Nat /\ Len(array) <= MaxInt /\ MaxInt \in Nat
  BY HashFacts, TableAssumption DEF StorageInv, Typed
<1>3. Slots \subseteq Nat /\ Slots \subseteq Ints /\ \A k \in Slots : k <= Len(array)
  BY <1>2 DEF Slots, Ints
<1>4. Slots \cap DOMAIN Hash = {}
  <2>1. \A k \in Slots : k \in Nat /\ k \in Ints /\ ~(k > Len(array) + 1)
    BY <1>2, <1>3
  <2> QED BY <1>2, <2>1
<1>5. WellOrdered(ArrayItems) /\ ArrayItems.keys = Slots
  BY <1>3, NumbersWellOrdered DEF ArrayItems, List
<1>6. \A x, y \in Slots : <<x, y>> \in ArrayItems.before <=> x < y
  BY DEF ArrayItems, List
<1>7. /\ WellOrdered(Items) /\ Items.keys = Slots \cup DOMAIN Hash
      /\ \A x, y \in Slots : <<x, y>> \in Items.before <=> x < y
      /\ \A x, y \in DOMAIN Hash : <<x, y>> \in Items.before <=> <<x, y>> \in Order
      /\ \A x \in Slots, y \in DOMAIN Hash :
           <<x, y>> \in Items.before /\ <<y, x>> \notin Items.before
  BY <1>1, <1>4, <1>5, <1>6, ThenWellOrdered DEF Items
<1>8. DOMAIN Hash = DOMAIN hash \cup DOMAIN sparse
  BY DEF Hash
<1>9. ASSUME NEW k \in Keys PROVE rawhas(k) <=> k \in Slots \/ k \in DOMAIN Hash
  BY <1>8 DEF rawhas, Slots, StorageInv, Typed, Partition
<1>10. Present = Slots \cup DOMAIN Hash
  BY <1>2, <1>3, <1>9 DEF Present, Keys
<1>11. Nil \notin Present
  BY TableAssumption DEF Present
<1> QED BY <1>4, <1>7, <1>10, <1>11 DEF ItemsOrdered

(* An array part and a hash part that share no key make a list.               *)
LEMMA StoredOrder ==
  ASSUME StorageInv, ListInv, NEW k \in Keys, NEW v \in Vals \cup {Nil}, NEW float,
         rawset(k, v, float)
  PROVE  WellOrdered(List(DOMAIN hash', order'))
<1>1. WellOrdered(List(DOMAIN Hash, Order))
  BY OrderFacts
<1>2. ASSUME NEW ks, DOMAIN hash' = DOMAIN Hash \ ks, order' = OrderWithout(Hash, Order, ks)
      PROVE  WellOrdered(List(DOMAIN hash', order'))
  <2> DEFINE l == List(DOMAIN Hash, Order)
             S == DOMAIN Hash \ ks
  <2>1. l.keys = DOMAIN Hash /\ l.before = Order
    BY DEF List
  <2>2. order' = l.before \cap (S \X S)
    BY <1>2, <2>1 DEF OrderWithout
  <2> HIDE DEF l
  <2>3. S \subseteq l.keys
    BY <2>1
  <2> HIDE DEF S
  <2>4. WellOrdered(l)
    BY <1>1 DEF l
  <2>5. WellOrdered(List(S, l.before \cap (S \X S)))
    BY <2>3, <2>4, RestrictWellOrdered
  <2> QED BY <1>2, <2>2, <2>5 DEF S
<1>3. CASE SetSlot(k, v)
  BY <1>1, <1>3 DEF SetSlot
<1>4. CASE AppendSlot(k, v)
  <2>1. PICK n \in k .. MaxInt :
          /\ hash' = [x \in DOMAIN Hash \ (k + 1 .. n) |-> Hash[x]]
          /\ order' = OrderWithout(Hash, Order, k + 1 .. n)
    BY <1>4 DEF AppendSlot
  <2> QED BY <1>2, <2>1
<1>5. CASE SetHash(k, v, float)
  <2>1. CASE v = Nil
    BY <1>2, <1>5, <2>1 DEF SetHash, Without
  <2>2. CASE v # Nil
    <3>1. hash' = With(Hash, k, Entry(v, float)) /\ order' = OrderWith(Hash, Order, k)
      BY <1>5, <2>2 DEF SetHash
    <3> QED BY <1>1, <3>1, WithWellOrdered
  <2> QED BY <2>1, <2>2
<1> QED BY <1>3, <1>4, <1>5 DEF rawset

(* The index in use.                                                         *)
LEMMA IndexFacts ==
  ASSUME StorageInv, ListInv
  PROVE  Index.keys \subseteq Keys /\ WellOrdered(Index)
<1>1. ItemsOrdered
  BY ItemsFacts
<1>2. CASE indexed
  BY <1>2 DEF Index, ListInv, MetaInv
<1>3. CASE ~indexed
  <2>1. Index = Items
    BY <1>3 DEF Index
  <2> QED BY <1>1, <2>1 DEF ItemsOrdered, Present
<1> QED BY <1>2, <1>3

(* What comes after a key is a key, or nothing.                              *)
LEMMA SuccessorTyped ==
  ASSUME StorageInv, ListInv, NEW k
  PROVE  SuccessorIn(k) \in Keys \cup {Nil}
<1> DEFINE S == {x \in {x \in Index.keys : <<k, x>> \in Index.before} : rawhas(x)}
<1>1. SuccessorIn(k) = FirstOf(S, Index.before) /\ S \subseteq Index.keys
  BY DEF SuccessorIn, FirstPresent
<1> HIDE DEF S
<1>2. S # {} => FirstOf(S, Index.before) \in S
  BY <1>1, IndexFacts, FirstIsLeast
<1>3. S = {} => FirstOf(S, Index.before) = Nil
  BY FirstOfNone
<1> QED BY <1>1, <1>2, <1>3, IndexFacts

LEMMA TouchMeta ==
  ASSUME StorageInv, ListInv, NEW k \in Keys, NEW v, Touch(k, v)
  PROVE  MetaInv'
<1>1. CASE v = Nil /\ rawhas(k)
  <2>1. index' = Index /\ indexed' = TRUE
    BY <1>1 DEF Touch
  <2>2. index'.keys \subseteq Keys /\ WellOrdered(index')
    BY <2>1, IndexFacts
  <2>3. succ' = succ \/ succ' = With(succ, k, SuccessorIn(k))
    BY <1>1 DEF Touch
  <2>4. DOMAIN succ' \subseteq Keys /\ \A x \in DOMAIN succ' : succ'[x] \in Keys \cup {Nil}
    BY <2>3, SuccessorTyped DEF With, ListInv, MetaInv
  <2> QED BY <2>1, <2>2, <2>4 DEF MetaInv
<1>2. CASE ~(v = Nil /\ rawhas(k))
  <2>1. indexed' = FALSE /\ index' = index /\ (succ' = succ \/ succ' = Without(succ, k))
    BY <1>2 DEF Touch
  <2>2. DOMAIN succ' \subseteq Keys /\ \A x \in DOMAIN succ' : succ'[x] \in Keys \cup {Nil}
    BY <2>1 DEF Without, ListInv, MetaInv
  <2> QED BY <2>1, <2>2 DEF ListInv, MetaInv
<1> QED BY <1>1, <1>2

LEMMA rawsetLists ==
  ASSUME StorageInv, ListInv, NEW k \in Keys, NEW v \in Vals \cup {Nil}, NEW float,
         rawset(k, v, float)
  PROVE  ListInv'
<1>1. MetaInv'
  BY TouchMeta DEF rawset
<1>2. List(DOMAIN sparse', sorder') = List({}, {})
  BY DEF rawset, Empty
<1> QED BY <1>1, <1>2, StoredOrder, EmptyWellOrdered DEF ListInv, OrdersInv

LEMMA ListStep ==
  ASSUME StorageInv, ListInv, [Next]_vars
  PROVE  ListInv'
<1>1. ASSUME NEW k \in Keys, NEW v \in Vals \cup {Nil}, NEW float \in BOOLEAN, Set(k, v, float)
      PROVE  ListInv'
  BY <1>1, rawsetLists DEF Set
<1>2. ASSUME NEW k \in Names, NEW v \in Vals, NEW fresh \in BOOLEAN, GeneratedSet(k, v, fresh)
      PROVE  ListInv'
  <2>1. MetaInv'
    <3>1. indexed' = FALSE /\ index' = index /\ succ' = succ
      BY <1>2 DEF GeneratedSet
    <3> QED BY <3>1 DEF ListInv, MetaInv
  <2>2. CASE fresh
    <3>1. /\ hash' = With(Hash, k, Entry(v, FALSE)) /\ order' = OrderWith(Hash, Order, k)
          /\ sparse' = Empty /\ sorder' = {}
      BY <1>2, <2>2 DEF GeneratedSet
    <3>2. List(DOMAIN sparse', sorder') = List({}, {})
      BY <3>1 DEF Empty
    <3>3. WellOrdered(List(DOMAIN hash', order'))
      BY <3>1, OrderFacts, WithWellOrdered
    <3> QED BY <2>1, <3>2, <3>3, EmptyWellOrdered DEF ListInv, OrdersInv
  <2>3. CASE ~fresh
    <3>1. /\ hash' = With(hash, k, Entry(v, FALSE)) /\ order' = OrderWith(hash, order, k)
          /\ sparse' = sparse /\ sorder' = sorder
      BY <1>2, <2>3 DEF GeneratedSet
    <3> QED BY <2>1, <3>1, WithWellOrdered DEF ListInv, OrdersInv
  <2> QED BY <2>2, <2>3
<1>3. ASSUME NEW k \in Keys, NEW v \in Vals \cup {Nil}, RegionSet(k, v) PROVE ListInv'
  <2>1. CASE ~(Untagged(k) /\ v \in Bools)
    <3>1. rawset(k, v, FALSE)
      BY <1>3, <2>1 DEF RegionSet
    <3> QED BY <3>1, rawsetLists
  <2>2. CASE Untagged(k) /\ v \in Bools
    <3>1. indexed' = FALSE /\ UNCHANGED <<hash, order, index, succ>>
      BY <1>3, <2>2 DEF RegionSet
    <3>2. \/ sparse' = With(sparse, k, v) /\ sorder' = OrderWith(sparse, sorder, k)
          \/ sparse' = sparse /\ sorder' = sorder
      BY <1>3, <2>2 DEF RegionSet
    <3>3. MetaInv'
      BY <3>1 DEF ListInv, MetaInv
    <3> QED BY <3>1, <3>2, <3>3, WithWellOrdered DEF ListInv, OrdersInv
  <2> QED BY <2>1, <2>2
<1>4. ASSUME NEW k \in Keys, NEW v \in Vals \cup {Nil}, RegionAliasSet(k, v) PROVE ListInv'
  BY <1>4, rawsetLists DEF RegionAliasSet, KeepingLocal
<1>8. ASSUME NEW k \in Keys, NEW v \in Vals \cup {Nil}, NEW float \in BOOLEAN,
             RegionConstantSet(k, v, float)
      PROVE  ListInv'
  BY <1>8, rawsetLists DEF RegionConstantSet, KeepingLocal
<1>5. ASSUME UNCHANGED <<hash, order, sparse, sorder, metadata>> PROVE ListInv'
  BY <1>5 DEF metadata, ListInv, OrdersInv, MetaInv
<1>6. ASSUME NEW w \in Walkers, NextItem(w) PROVE ListInv'
  <2>1. index' = Index /\ indexed' = TRUE /\ UNCHANGED <<hash, order, sparse, sorder, succ>>
    BY <1>6 DEF NextItem, storage
  <2>2. MetaInv'
    BY <2>1, IndexFacts DEF ListInv, MetaInv
  <2> QED BY <2>1, <2>2 DEF ListInv, OrdersInv
<1>7. CASE RegionEnter \/ RegionExit \/ (\E w \in Walkers : StartWalk(w)) \/ UNCHANGED vars
  BY <1>5, <1>7 DEF RegionEnter, RegionExit, StartWalk, vars, storage
<1> QED BY <1>1, <1>2, <1>3, <1>4, <1>6, <1>7, <1>8 DEF Next

-----------------------------------------------------------------------------
(* Type correctness.                                                         *)

Entries == [val: Vals, float: BOOLEAN]

EntryInv ==
  /\ \A k \in DOMAIN hash : hash[k] \in Entries
  /\ meant \in [Keys -> Vals \cup {Nil}]

TypeInv == StorageInv /\ ListInv /\ EntryInv

LEMMA HashEntries ==
  ASSUME TypeInv PROVE \A k \in DOMAIN Hash : Hash[k] \in Entries
<1>1. DOMAIN Hash = DOMAIN hash \cup DOMAIN sparse
  BY DEF Hash
<1>2. ASSUME NEW k \in DOMAIN Hash, k \in DOMAIN sparse PROVE Hash[k] \in Entries
  <2>1. Hash[k] = Entry(sparse[k], FALSE) /\ sparse[k] \in Vals
    BY <1>2 DEF Hash, TypeInv, StorageInv, Typed, Vals
  <2> QED BY <2>1 DEF Entry, Entries
<1>3. ASSUME NEW k \in DOMAIN Hash, k \notin DOMAIN sparse PROVE Hash[k] \in Entries
  <2>1. Hash[k] = hash[k] /\ k \in DOMAIN hash
    BY <1>1, <1>3 DEF Hash
  <2> QED BY <2>1 DEF TypeInv, EntryInv
<1> QED BY <1>2, <1>3

LEMMA WithEntries ==
  ASSUME NEW d, \A x \in DOMAIN d : d[x] \in Entries, NEW k, NEW v \in Vals, NEW float \in BOOLEAN
  PROVE  \A x \in DOMAIN With(d, k, Entry(v, float)) : With(d, k, Entry(v, float))[x] \in Entries
  BY DEF With, Entry, Entries

LEMMA MeansEntries ==
  ASSUME EntryInv, NEW k \in Keys, NEW v \in Vals \cup {Nil}, Means(k, v)
  PROVE  meant' \in [Keys -> Vals \cup {Nil}]
  BY DEF Means, EntryInv

LEMMA rawsetEntries ==
  ASSUME TypeInv, NEW k \in Keys, NEW v \in Vals \cup {Nil}, NEW float \in BOOLEAN,
         rawset(k, v, float)
  PROVE  EntryInv'
<1>1. \A x \in DOMAIN Hash : Hash[x] \in Entries
  BY HashEntries
<1>2. meant' \in [Keys -> Vals \cup {Nil}]
  BY MeansEntries DEF rawset, TypeInv
<1>3. ASSUME SetSlot(k, v) PROVE \A x \in DOMAIN hash' : hash'[x] \in Entries
  BY <1>1, <1>3 DEF SetSlot
<1>4. ASSUME AppendSlot(k, v) PROVE \A x \in DOMAIN hash' : hash'[x] \in Entries
  BY <1>1, <1>4 DEF AppendSlot
<1>5. ASSUME SetHash(k, v, float) PROVE \A x \in DOMAIN hash' : hash'[x] \in Entries
  <2>1. CASE v = Nil
    BY <1>1, <1>5, <2>1 DEF SetHash, Without
  <2>2. CASE v # Nil
    <3>1. hash' = With(Hash, k, Entry(v, float)) /\ v \in Vals
      BY <1>5, <2>2 DEF SetHash
    <3> QED BY <1>1, <3>1, WithEntries
  <2> QED BY <2>1, <2>2
<1> QED BY <1>2, <1>3, <1>4, <1>5 DEF rawset, EntryInv

LEMMA EntryStep ==
  ASSUME TypeInv, [Next]_vars
  PROVE  EntryInv'
<1> USE DEF TypeInv
<1>1. ASSUME NEW k \in Keys, NEW v \in Vals \cup {Nil}, NEW float \in BOOLEAN, Set(k, v, float)
      PROVE  EntryInv'
  BY <1>1, rawsetEntries DEF Set
<1>2. ASSUME NEW k \in Names, NEW v \in Vals, NEW fresh \in BOOLEAN, GeneratedSet(k, v, fresh)
      PROVE  EntryInv'
  <2>1. meant' \in [Keys -> Vals \cup {Nil}]
    BY <1>2, MeansEntries DEF GeneratedSet, Keys
  <2>2. hash' = With(Hash, k, Entry(v, FALSE)) \/ hash' = With(hash, k, Entry(v, FALSE))
    BY <1>2 DEF GeneratedSet
  <2>3. \A x \in DOMAIN hash' : hash'[x] \in Entries
    BY <2>2, HashEntries, WithEntries DEF EntryInv
  <2> QED BY <2>1, <2>3 DEF EntryInv
<1>3. ASSUME NEW k \in Keys, NEW v \in Vals \cup {Nil}, RegionSet(k, v) PROVE EntryInv'
  <2>1. CASE ~(Untagged(k) /\ v \in Bools)
    <3>1. rawset(k, v, FALSE)
      BY <1>3, <2>1 DEF RegionSet
    <3> QED BY <3>1, rawsetEntries
  <2>2. CASE Untagged(k) /\ v \in Bools
    <3>1. hash' = hash /\ Means(k, v)
      BY <1>3, <2>2 DEF RegionSet
    <3> QED BY <3>1, MeansEntries DEF EntryInv
  <2> QED BY <2>1, <2>2
<1>4. ASSUME NEW k \in Keys, NEW v \in Vals \cup {Nil}, RegionAliasSet(k, v) PROVE EntryInv'
  BY <1>4, rawsetEntries DEF RegionAliasSet, KeepingLocal
<1>8. ASSUME NEW k \in Keys, NEW v \in Vals \cup {Nil}, NEW float \in BOOLEAN,
             RegionConstantSet(k, v, float)
      PROVE  EntryInv'
  BY <1>8, rawsetEntries DEF RegionConstantSet, KeepingLocal
<1>5. ASSUME UNCHANGED <<hash, meant>> PROVE EntryInv'
  BY <1>5 DEF EntryInv
<1>6. CASE \/ RegionEnter \/ RegionExit \/ (\E w \in Walkers : StartWalk(w) \/ NextItem(w))
           \/ UNCHANGED vars
  BY <1>5, <1>6 DEF RegionEnter, RegionExit, StartWalk, NextItem, vars, storage
<1> QED BY <1>1, <1>2, <1>3, <1>4, <1>6, <1>8 DEF Next

LEMMA TypeInvHolds == Spec => []TypeInv
<1>1. Init => TypeInv
  <2> SUFFICES ASSUME Init PROVE TypeInv
    OBVIOUS
  <2>1. StorageInv
    BY InitStorage
  <2>2. DOMAIN hash = {} /\ DOMAIN sparse = {} /\ DOMAIN succ = {} /\ order = {} /\ sorder = {}
    BY DEF Init, Empty
  <2>3. ListInv
    BY <2>2, EmptyWellOrdered DEF Init, ListInv, OrdersInv, MetaInv
  <2>4. EntryInv
    BY <2>2 DEF Init, EntryInv
  <2> QED BY <2>1, <2>3, <2>4 DEF TypeInv
<1>2. TypeInv /\ [Next]_vars => TypeInv'
  <2> SUFFICES ASSUME TypeInv, [Next]_vars PROVE TypeInv'
    OBVIOUS
  <2>1. StorageInv'
    <3>1. CASE Next
      BY <3>1, StepFacts DEF TypeInv
    <3>2. CASE UNCHANGED vars
      BY <3>2 DEF vars, storage, TypeInv, StorageInv, Typed, Partition, RegionOwns
    <3> QED BY <3>1, <3>2
  <2>2. ListInv' /\ EntryInv'
    BY ListStep, EntryStep DEF TypeInv
  <2> QED BY <2>1, <2>2 DEF TypeInv
<1> QED BY <1>1, <1>2, PTL DEF Spec

(* Every step keeps the variables in their types, the orders and the index    *)
(* strict total orders on their keys, and the array part within the bound,    *)
(* also with a second register.                                              *)
THEOREM TypeCorrect == Spec => []TypeOK
<1>1. TypeInv => TypeOK
  <2> SUFFICES ASSUME TypeInv PROVE TypeOK
    OBVIOUS
  <2>1. IsList(List(DOMAIN hash, order)) /\ IsList(List(DOMAIN sparse, sorder))
    BY DEF TypeInv, ListInv, OrdersInv, WellOrdered
  <2>2. index = Absent \/ (index.keys \subseteq Keys /\ IsList(index))
    BY DEF TypeInv, ListInv, MetaInv, WellOrdered
  <2>3. /\ indexed \in BOOLEAN
        /\ DOMAIN succ \subseteq Keys /\ \A k \in DOMAIN succ : succ[k] \in Keys \cup {Nil}
    BY DEF TypeInv, ListInv, MetaInv
  <2>4. /\ \A k \in DOMAIN hash : hash[k] \in [val: Vals, float: BOOLEAN]
        /\ meant \in [Keys -> Vals \cup {Nil}]
    BY DEF TypeInv, EntryInv, Entries
  <2>5. /\ array \in Seq(Vals \cup {Nil}) /\ Len(array) <= MaxInt
        /\ DOMAIN hash \subseteq Keys
        /\ DOMAIN sparse \subseteq Ints /\ \A k \in DOMAIN sparse : sparse[k] \in Bools
        /\ isSparse \in BOOLEAN /\ region \in {"off", "none", "shared", "orphan"}
    BY DEF TypeInv, StorageInv, Typed, RegionOwns
  <2> QED BY <2>1, <2>2, <2>3, <2>4, <2>5 DEF TypeOK
<1> QED BY <1>1, TypeInvHolds, PTL

(* The host conversion and the constant reads of generated code, which do not *)
(* look at the untagged dictionary, lose nothing while there is none.         *)
THEOREM ReadersCorrect == Aliased = FALSE /\ ConstantKeys = FALSE => (Spec => []ReadersAgree)
<1> SUFFICES ASSUME Aliased = FALSE, ConstantKeys = FALSE PROVE Spec => []ReadersAgree
  OBVIOUS
<1>1. ContentInv /\ ListInv => ReadersAgree
  <2> SUFFICES ASSUME ContentInv, ListInv, ~isSparse
               PROVE  /\ HostKeys = {k \in Keys : meant[k] # Nil}
                      /\ \A k \in Keys : ConstantRead(k) = rawget(k)
    BY DEF ReadersAgree
  <2>1. Items.keys = Present /\ Present = Slots \cup DOMAIN Hash
    BY ItemsFacts DEF ContentInv, ItemsOrdered
  <2>2. Present = {k \in Keys : meant[k] # Nil}
    BY HasIsGet DEF Present, ContentInv, StorageInv
  <2>3. HostList => 1 .. Len(array) = Present
    <3>1. DOMAIN sparse = {}
      BY DEF ContentInv, StorageInv, Partition
    <3>2. DOMAIN hash = {} => DOMAIN Hash = {}
      BY <3>1 DEF Hash
    <3> QED BY <2>1, <3>2 DEF HostList, Slots
  <2>4. \A k \in Keys : ConstantRead(k) = rawget(k)
    BY DEF ConstantRead, rawget
  <2> QED BY <2>1, <2>2, <2>3, <2>4 DEF HostKeys
<1>2. TypeInv => ListInv
  BY DEF TypeInv
<1> QED BY <1>1, <1>2, ContentHolds, TypeInvHolds, PTL

-----------------------------------------------------------------------------
(* Traversals of the table.                                                  *)

(* A step that changes neither the list nor what is recorded for keys that    *)
(* are gone.                                                                 *)
LEMMA WalkQuiet ==
  ASSUME NEW t, NEW l, NEW l2, NEW s, NEW s2, NEW gone, NEW i, NEW i2,
         WellOrdered(l), WellOrdered(l2), l2.keys = l.keys, Agree(l2, l, l.keys),
         gone \cap l.keys = {}, \A y \in gone : Recorded(s2, y) = Recorded(s, y),
         DOMAIN s \cap gone \subseteq DOMAIN s2, i2 = i \/ i2 = l2,
         Walking(t, l, s, gone, i)
  PROVE  Walking(t, l2, s2, gone, i2)
<1>1. Placed(l2, t.at, t.seen)
  BY DEF Walking, Placed, Agree
<1>2. FirstLeft(l2, t.seen) = FirstLeft(l, t.seen)
  <2>1. Agree(l2, l, l2.keys \ t.seen) /\ l2.keys \ t.seen \subseteq l.keys
    BY DEF Agree
  <2> QED BY <2>1, FirstAgrees DEF FirstLeft
<1>3. ASSUME t.at \in gone
      PROVE  /\ t.at \in DOMAIN s2 /\ EndsAt(s2, gone, t.at, FirstLeft(l, t.seen))
             /\ t.at \in i2.keys => i2 = i
  <2>1. EndsAt(s, gone, t.at, FirstLeft(l, t.seen)) /\ t.at \in DOMAIN s
    BY <1>3 DEF Walking
  <2>2. Chain(s2, gone, t.at) = Chain(s, gone, t.at)
    BY <1>3, ChainSame
  <2> QED BY <1>3, <2>1, <2>2 DEF EndsAt
<1> QED BY <1>1, <1>2, <1>3 DEF Walking

LEMMA WalkDelete ==
  ASSUME NEW t, NEW l, NEW l2, NEW s, NEW s2, NEW gone, NEW i, NEW d \in l.keys,
         WellOrdered(l), WellOrdered(l2), Shorter(l, l2, d), l.keys \subseteq Keys,
         gone = Keys \ l.keys, Nil \notin Keys, Agree(i, l, l.keys),
         \A x : Recorded(s, x) \in Ends,
         s2 = With(s, d, FirstOf(After(l, d), l.before)),
         Walking(t, l, s, gone, i)
  PROVE  Walking(t, l2, s2, gone \cup {d}, i)
<1> DEFINE e == FirstOf(After(l, d), l.before)
<1>1. IsList(l) /\ l2.keys = l.keys \ {d}
  BY DEF WellOrdered, Shorter
<1>2. e \in (l.keys \ {d}) \cup {Nil}
  <2>1. After(l, d) \subseteq l.keys \ {d}
    BY <1>1 DEF After, IsList
  <2>2. CASE After(l, d) = {}
    BY <2>2, FirstOfNone
  <2>3. CASE After(l, d) # {}
    <3>1. e \in After(l, d)
      BY <2>1, <2>3, FirstIsLeast
    <3> QED BY <2>1, <3>1
  <2> QED BY <2>2, <2>3
<1>3. DOMAIN s2 = DOMAIN s \cup {d} /\ s2[d] = e /\ \A x \in DOMAIN s : x # d => s2[x] = s[x]
  BY DEF With
<1> HIDE DEF e
<1>4. /\ Recorded(s2, d) = e
      /\ \A x : x # d => Recorded(s2, x) = Recorded(s, x)
  BY <1>3 DEF Recorded
<1>5. e \in Ends /\ e \notin gone \cup {d} /\ \A x : Recorded(s2, x) \in Ends
  BY <1>2, <1>4 DEF Ends
<1>6. Placed(l2, t.at, t.seen) /\ Placed(l, t.at, t.seen)
  BY PlacedDeletes DEF Walking
<1>7. FirstLeft(l2, t.seen) = IF FirstLeft(l, t.seen) = d THEN e ELSE FirstLeft(l, t.seen)
  BY <1>6, DeleteFirst DEF e
<1>8. CASE t.at = d
  <2>1. l.keys \ t.seen = After(l, d)
    BY <1>6, <1>8, LeftIsAfter
  <2>2. FirstLeft(l, t.seen) = e
    BY <2>1 DEF FirstLeft, e
  <2>3. FirstLeft(l2, t.seen) = e
    BY <1>7, <2>2
  <2>4. EndsAt(s2, gone \cup {d}, d, e)
    BY <1>4, <1>5, ChainStarts
  <2>5. \A x \in l2.keys : <<d, x>> \in i.before <=> x \notin t.seen
    <3>1. \A x \in l.keys : x \notin t.seen <=> <<d, x>> \in l.before
      BY <2>1 DEF After
    <3> QED BY <1>1, <3>1 DEF Agree
  <2> QED BY <1>3, <1>6, <1>8, <2>3, <2>4, <2>5 DEF Walking
<1>9. CASE t.at \in gone
  <2>1. t.at # d /\ d \notin gone /\ d \in Keys
    BY <1>9
  <2>2. EndsAt(s, gone, t.at, FirstLeft(l, t.seen))
    BY <1>9 DEF Walking
  <2>3. EndsAt(s2, gone \cup {d}, t.at, FirstLeft(l2, t.seen))
    <3>1. \A y \in gone : Recorded(s2, y) = Recorded(s, y)
      BY <1>4, <2>1
    <3>2. Recorded(s2, d) \notin gone \cup {d}
      BY <1>4, <1>5
    <3> QED BY <1>4, <1>5, <1>7, <1>9, <2>1, <2>2, <3>1, <3>2, ChainDeletes
  <2>4. t.at # Nil
    BY <1>9
  <2>6. t.at \in DOMAIN s
    BY <1>9 DEF Walking
  <2>7. t.at \in DOMAIN s2
    BY <1>3, <2>6
  <2>5. t.at \in i.keys => \A x \in l2.keys : <<t.at, x>> \in i.before <=> x \notin t.seen
    BY <1>1, <1>9 DEF Walking
  <2> QED BY <1>6, <2>3, <2>4, <2>5, <2>7 DEF Walking
<1>10. CASE t.at # d /\ t.at \notin gone
  BY <1>6, <1>10 DEF Walking
<1> QED BY <1>8, <1>9, <1>10

(* NextKey finds the first key the traversal has not seen.                    *)
LEMMA FirstPresentFacts ==
  ASSUME StorageInv, ListInv, IndexInv, NEW S, S \subseteq Index.keys
  PROVE  FirstPresent(S) = FirstOf(S \cap Present, Items.before)
<1> DEFINE T == {x \in S : rawhas(x)}
<1>1. T = S \cap Present
  BY IndexFacts DEF Present
<1>2. FirstPresent(S) = FirstOf(T, Index.before)
  BY DEF FirstPresent
<1> HIDE DEF T
<1>3. ItemsOrdered
  BY ItemsFacts
<1>4. T \subseteq Index.keys /\ T \subseteq Items.keys /\ Agree(Index, Items, T)
  BY <1>1, <1>3 DEF ItemsOrdered, IndexInv, Agree
<1>5. FirstOf(T, Index.before) = FirstOf(T, Items.before)
  BY <1>3, <1>4, IndexFacts, FirstAgrees DEF ItemsOrdered
<1> QED BY <1>1, <1>2, <1>5

LEMMA NextIsFirstLeft ==
  ASSUME StorageInv, ListInv, IndexInv, NEW t \in Walks, Walking(t, Items, succ, Gone, Index)
  PROVE  NextKey(t.at) = FirstLeft(Items, t.seen)
<1>1. ItemsOrdered
  BY ItemsFacts
<1>2. /\ WellOrdered(Items) /\ Items.keys = Present /\ Present \subseteq Index.keys
      /\ Agree(Index, Items, Present)
  BY <1>1 DEF ItemsOrdered, IndexInv
<1>3. t.at \in Keys \cup {Nil} /\ Nil \notin Keys
  BY TableAssumption DEF Walks
<1>4. \A x \in Keys : (x \in Present <=> rawhas(x)) /\ (x \in Gone <=> x \notin Present)
  BY DEF Present, Gone
<1>5. CASE t.at = Nil
  <2>1. NextKey(t.at) = FirstOf(Index.keys \cap Present, Items.before)
    BY <1>5, FirstPresentFacts DEF NextKey
  <2>2. Index.keys \cap Present = Items.keys \ t.seen
    BY <1>2, <1>5 DEF Walking
  <2> QED BY <2>1, <2>2 DEF FirstLeft
<1>6. CASE t.at \in Keys /\ ~InIndex(t.at)
  <2>1. t.at \in Gone
    BY <1>2, <1>4, <1>6 DEF InIndex
  <2>2. Chain(succ, Gone, t.at) \ Gone = {FirstLeft(Items, t.seen)}
    BY <2>1 DEF Walking, EndsAt
  <2>3. SuccessorAfterDeleted(t.at) = FirstLeft(Items, t.seen)
    BY <2>2 DEF SuccessorAfterDeleted
  <2> QED BY <1>3, <1>6, <2>3 DEF NextKey
<1>7. CASE t.at \in Keys /\ InIndex(t.at)
  <2> DEFINE S == {x \in Index.keys : <<t.at, x>> \in Index.before}
  <2>1. S \subseteq Index.keys /\ SuccessorIn(t.at) = FirstPresent(S)
    BY DEF SuccessorIn
  <2>2. NextKey(t.at) = SuccessorIn(t.at)
    <3>1. t.at \in Gone => t.at \in DOMAIN succ
      BY DEF Walking
    <3> QED BY <1>3, <1>4, <1>7, <3>1 DEF NextKey
  <2>3. S \cap Present = Items.keys \ t.seen
    <3>1. CASE t.at \in Present
      <4>1. Items.keys \ t.seen = After(Items, t.at)
        BY <1>2, <3>1, LeftIsAfter DEF Walking
      <4> QED BY <1>2, <3>1, <4>1 DEF After, Agree
    <3>2. CASE t.at \in Gone
      <4>1. \A x \in Items.keys : <<t.at, x>> \in Index.before <=> x \notin t.seen
        BY <1>7, <3>2 DEF Walking, InIndex
      <4> QED BY <1>2, <4>1
    <3> QED BY <1>4, <1>7, <3>1, <3>2
  <2> HIDE DEF S
  <2>4. FirstPresent(S) = FirstOf(S \cap Present, Items.before)
    BY <2>1, FirstPresentFacts
  <2> QED BY <2>1, <2>2, <2>3, <2>4 DEF FirstLeft
<1> QED BY <1>3, <1>5, <1>6, <1>7

-----------------------------------------------------------------------------
(* The order of the table under a store.                                     *)

PresentMeant ==
  /\ \A k \in Keys : k \in Present <=> meant[k] # Nil
  /\ \A k \in Keys : k \in Present <=> rawhas(k)
  /\ Gone = Keys \ Present

LEMMA PresentFacts == ContentInv => PresentMeant
  BY HasIsGet DEF ContentInv, StorageInv, Present, Gone, PresentMeant

(* A slot of the array part that is used after a store to a slot in use was   *)
(* used before it.                                                           *)
LEMMA SlotsKept ==
  ASSUME StorageInv, NEW k \in 1 .. Len(array), NEW v \in Vals \cup {Nil}, SetSlot(k, v),
         v = Nil \/ k \in Slots
  PROVE  Slots' \subseteq Slots
<1> DEFINE a == [array EXCEPT ![k] = v]
<1>1. /\ a \in Seq(Vals \cup {Nil}) /\ Len(a) = Len(array) /\ Len(array) \in Nat
      /\ \A i \in 1 .. Len(array) : a[i] = IF i = k THEN v ELSE array[i]
  BY SlotFacts DEF StorageInv, Typed
<1> HIDE DEF a
<1>2. PICK n \in 0 .. Len(array) : Len(array') = n /\ \A i \in 1 .. n : array'[i] = a[i]
  <2>1. CASE v # Nil
    <3>1. array' = a
      BY <2>1 DEF SetSlot, a
    <3>2. Len(array) \in 0 .. Len(array)
      BY <1>1
    <3> QED BY <1>1, <3>1, <3>2
  <2>2. CASE v = Nil
    <3>1. PICK n \in 0 .. Len(a) : array' = SubSeq(a, 1, n)
      BY <2>2 DEF SetSlot, a
    <3> QED BY <1>1, <3>1, PrefixFacts
  <2> QED BY <2>1, <2>2
<1>3. ASSUME NEW i \in Slots' PROVE i \in Slots
  <2>1. i \in 1 .. n /\ array'[i] # Nil
    BY <1>2 DEF Slots
  <2>2. i \in 1 .. Len(array) /\ a[i] # Nil
    BY <1>1, <1>2, <2>1
  <2>3. i = k => v # Nil
    BY <1>1, <2>2
  <2> QED BY <1>1, <2>2, <2>3 DEF Slots
<1> QED BY <1>3

(* A store that adds no key leaves the order of the keys as it is.            *)
LEMMA KeepsOrder ==
  ASSUME StorageInv, ListInv, StorageInv', ListInv', NEW k \in Keys, NEW v \in Vals \cup {Nil},
         NEW float, rawset(k, v, float), v = Nil \/ k \in Present
  PROVE  Agree(Items', Items, Present')
<1>1. ItemsOrdered /\ ItemsOrdered'
  BY ItemsFacts, PTL
<1>2. DOMAIN Hash' = DOMAIN hash'
  BY DEF Hash, rawset, Empty
<1>3. Order' = order'
  BY DEF Order, HashItems, Then, List, rawset, Empty
<1>4. /\ \A x \in DOMAIN Hash : x \in Ints => x > Len(array) + 1
      /\ Len(array) \in Nat
  BY HashFacts DEF StorageInv
<1>5. ASSUME Slots' \subseteq Slots, DOMAIN hash' \subseteq DOMAIN Hash,
             \A x, y \in DOMAIN hash' : <<x, y>> \in order' <=> <<x, y>> \in Order
      PROVE  Agree(Items', Items, Present')
  <2> SUFFICES ASSUME NEW x \in Present', NEW y \in Present'
               PROVE  <<x, y>> \in Items'.before <=> <<x, y>> \in Items.before
    BY DEF Agree
  <2>1. /\ x \in Slots' \/ x \in DOMAIN hash'
        /\ y \in Slots' \/ y \in DOMAIN hash'
    BY <1>1, <1>2 DEF ItemsOrdered
  <2>2. CASE x \in Slots' /\ y \in Slots'
    BY <1>1, <1>5, <2>2 DEF ItemsOrdered
  <2>3. CASE x \in Slots' /\ y \in DOMAIN hash'
    BY <1>1, <1>2, <1>5, <2>3 DEF ItemsOrdered
  <2>4. CASE x \in DOMAIN hash' /\ y \in Slots'
    BY <1>1, <1>2, <1>5, <2>4 DEF ItemsOrdered
  <2>5. CASE x \in DOMAIN hash' /\ y \in DOMAIN hash'
    BY <1>1, <1>2, <1>3, <1>5, <2>5 DEF ItemsOrdered
  <2> QED BY <2>1, <2>2, <2>3, <2>4, <2>5
<1>6. CASE k \in 1 .. Len(array)
  <2>1. SetSlot(k, v)
    BY <1>6 DEF rawset
  <2>2. hash' = Hash /\ order' = Order
    BY <2>1 DEF SetSlot
  <2>3. k \notin DOMAIN Hash
    <3>1. k \in Nat /\ k <= Len(array)
      BY <1>4, <1>6
    <3>2. k \notin Names
      BY <3>1, TableAssumption
    <3> QED BY <1>4, <3>1, <3>2 DEF Keys
  <2>4. v = Nil \/ k \in Slots
    BY <1>1, <2>3 DEF ItemsOrdered
  <2> QED BY <1>5, <1>6, <2>1, <2>2, <2>4, SlotsKept
<1>7. CASE k \notin 1 .. Len(array) /\ k \in Ints /\ k = Len(array) + 1 /\ v # Nil
  <2>1. k \notin Slots
    BY <1>7 DEF Slots
  <2>2. k \notin DOMAIN Hash
    BY <1>4, <1>7
  <2> QED BY <1>1, <1>7, <2>1, <2>2 DEF ItemsOrdered
<1>8. CASE k \notin 1 .. Len(array) /\ ~(k \in Ints /\ k = Len(array) + 1 /\ v # Nil)
  <2>1. SetHash(k, v, float)
    BY <1>8 DEF rawset
  <2>2. Slots' = Slots
    BY <2>1 DEF SetHash, Slots
  <2>3. CASE v = Nil
    <3>1. /\ DOMAIN hash' = DOMAIN Hash \ {k}
          /\ order' = Order \cap ((DOMAIN Hash \ {k}) \X (DOMAIN Hash \ {k}))
      BY <2>1, <2>3 DEF SetHash, Without, OrderWithout
    <3> QED BY <1>5, <2>2, <3>1
  <2>4. CASE v # Nil
    <3>1. k \in DOMAIN Hash
      BY <1>1, <1>8, <2>4 DEF ItemsOrdered, Slots
    <3>2. DOMAIN hash' = DOMAIN Hash /\ order' = Order
      BY <2>1, <2>4, <3>1 DEF SetHash, With, OrderWith
    <3> QED BY <1>5, <2>2, <3>2
  <2> QED BY <2>3, <2>4
<1> QED BY <1>6, <1>7, <1>8

-----------------------------------------------------------------------------
(* The steps of the traversals' invariant.                                   *)

MapInv == ContentInv /\ ListInv /\ IndexInv /\ WalkInv

(* An index that was just made lists what is there.                          *)
LEMMA FreshIndex ==
  ASSUME StorageInv', ListInv', indexed' = FALSE
  PROVE  IndexInv' /\ Index' = Items'
<1>1. ItemsOrdered'
  BY ItemsFacts, PTL
<1>2. Index' = Items'
  BY DEF Index
<1> QED BY <1>1, <1>2 DEF ItemsOrdered, IndexInv, Agree

(* A step that ends every traversal.                                         *)
LEMMA IdleStep ==
  ASSUME StorageInv', ListInv', indexed' = FALSE,
         walk' = [w \in Walkers |-> [on |-> FALSE, at |-> Nil, seen |-> {}]]
  PROVE  IndexInv' /\ WalkInv'
  BY FreshIndex DEF WalkInv, Walks

(* A step that leaves the keys, their order and the traversals alone.         *)
LEMMA QuietStep ==
  ASSUME MapInv, ContentInv', ListInv', Present' = Present, Agree(Items', Items, Present),
         \A y \in Gone : Recorded(succ', y) = Recorded(succ, y),
         DOMAIN succ \cap Gone \subseteq DOMAIN succ',
         Index' = Index \/ indexed' = FALSE,
         NEW w \in Walkers, walk'[w] = walk[w], walk'[w].on
  PROVE  Walking(walk'[w], Items', succ', Gone', Index')
<1>1. ItemsOrdered /\ ItemsOrdered'
  BY ItemsFacts, PTL DEF MapInv, ContentInv
<1>2. Gone = Keys \ Present /\ Gone' = Keys \ Present'
  <2>1. PresentMeant /\ PresentMeant'
    BY PresentFacts, PTL DEF MapInv
  <2> QED BY <2>1 DEF PresentMeant
<1>3. Walking(walk'[w], Items, succ, Gone, Index)
  BY DEF MapInv, WalkInv
<1>4. Index' = Index \/ Index' = Items'
  BY DEF Index
<1>5. /\ WellOrdered(Items) /\ WellOrdered(Items') /\ Items'.keys = Items.keys
      /\ Agree(Items', Items, Items.keys) /\ Gone \cap Items.keys = {} /\ Gone' = Gone
  BY <1>1, <1>2 DEF ItemsOrdered
<1>6. Walking(walk'[w], Items', succ', Gone, Index')
  BY <1>3, <1>4, <1>5, WalkQuiet
<1> QED BY <1>5, <1>6

LEMMA QuietSteps ==
  ASSUME MapInv, ContentInv', ListInv', Present' = Present, Agree(Items', Items, Present),
         \A y \in Gone : Recorded(succ', y) = Recorded(succ, y),
         DOMAIN succ \cap Gone \subseteq DOMAIN succ',
         Index' = Index \/ indexed' = FALSE, walk' = walk
  PROVE  IndexInv' /\ WalkInv'
<1>1. WalkInv'
  <2>1. \A w \in Walkers : walk'[w].on => Walking(walk'[w], Items', succ', Gone', Index')
    BY QuietStep
  <2> QED BY <2>1 DEF WalkInv, MapInv
<1>2. IndexInv'
  <2>1. CASE indexed' = FALSE
    BY <2>1, FreshIndex DEF ContentInv
  <2>2. CASE Index' = Index
    BY <2>2 DEF MapInv, IndexInv, Agree
  <2> QED BY <2>1, <2>2
<1> QED BY <1>1, <1>2

(* The keys after a store.                                                   *)
LEMMA PresentStep ==
  ASSUME ContentInv, ContentInv', NEW k \in Keys, NEW v \in Vals \cup {Nil},
         meant' = [meant EXCEPT ![k] = v]
  PROVE  /\ Present' = IF v = Nil THEN Present \ {k} ELSE Present \cup {k}
         /\ Gone' = Keys \ Present'
<1>1. /\ \A x \in Keys : x \in Present <=> meant[x] # Nil
      /\ \A x \in Keys : x \in Present' <=> meant'[x] # Nil
      /\ Gone' = Keys \ Present'
  <2>1. PresentMeant /\ PresentMeant'
    BY PresentFacts, PTL
  <2> QED BY <2>1 DEF PresentMeant
<1>2. Present \subseteq Keys /\ Present' \subseteq Keys
  BY DEF Present
<1> QED BY <1>1, <1>2 DEF ContentInv

LEMMA DeleteStep ==
  ASSUME MapInv, ContentInv', ListInv', NEW k \in Keys, NEW float,
         rawset(k, Nil, float), rawhas(k)
  PROVE  IndexInv' /\ WalkInv'
<1>1. ItemsOrdered /\ ItemsOrdered'
  BY ItemsFacts, PTL DEF MapInv, ContentInv
<1>2. /\ k \in Present /\ Gone = Keys \ Present /\ meant[k] # Nil
      /\ Present' = Present \ {k} /\ Gone' = Keys \ Present'
  <2>1. meant' = [meant EXCEPT ![k] = Nil]
    BY DEF rawset, Means
  <2> QED BY <2>1, PresentFacts, PresentStep DEF MapInv, PresentMeant
<1>3. Index' = Index
  BY DEF rawset, Touch, Index
<1>4. walk' = walk
  <2>1. walk' = [w \in Walkers |-> walk[w]]
    BY <1>2 DEF rawset, Means
  <2> QED BY <2>1 DEF MapInv, WalkInv
<1>5. Agree(Items', Items, Present')
  BY KeepsOrder DEF MapInv, ContentInv
<1>6. k \in Index.keys /\ Present \subseteq Index.keys /\ Agree(Index, Items, Present)
  BY <1>2 DEF MapInv, IndexInv
<1>7. succ' = With(succ, k, FirstOf(After(Items, k), Items.before))
  <2> DEFINE S == {x \in Index.keys : <<k, x>> \in Index.before}
  <2>1. SuccessorIn(k) = FirstPresent(S) /\ S \subseteq Index.keys
    BY DEF SuccessorIn
  <2>2. S \cap Present = After(Items, k)
    BY <1>1, <1>2, <1>6 DEF After, Agree, ItemsOrdered
  <2> HIDE DEF S
  <2>3. SuccessorIn(k) = FirstOf(After(Items, k), Items.before)
    BY <2>1, <2>2, FirstPresentFacts DEF MapInv, ContentInv
  <2>4. succ' = With(succ, k, SuccessorIn(k))
    BY <1>6 DEF rawset, Touch, InIndex
  <2> QED BY <2>3, <2>4
<1>8. \A x : Recorded(succ, x) \in Ends
  BY DEF MapInv, ListInv, MetaInv, Recorded, Ends
<1>9. ASSUME NEW w \in Walkers, walk'[w].on
      PROVE  Walking(walk'[w], Items', succ', Gone', Index')
  <2>1. Walking(walk'[w], Items, succ, Gone, Index)
    BY <1>4, <1>9 DEF MapInv, WalkInv
  <2>2. /\ WellOrdered(Items) /\ WellOrdered(Items') /\ Shorter(Items, Items', k)
        /\ k \in Items.keys /\ Items.keys \subseteq Keys /\ Gone = Keys \ Items.keys
        /\ Nil \notin Keys /\ Agree(Index, Items, Items.keys) /\ Gone' = Gone \cup {k}
    BY <1>1, <1>2, <1>5, <1>6, TableAssumption DEF ItemsOrdered, Shorter, Present
  <2>3. Walking(walk'[w], Items', succ', Gone \cup {k}, Index)
    BY <1>7, <1>8, <2>1, <2>2, WalkDelete
  <2> QED BY <1>3, <2>2, <2>3
<1>10. IndexInv'
  BY <1>2, <1>3, <1>5, <1>6 DEF IndexInv, Agree
<1> QED BY <1>4, <1>9, <1>10 DEF WalkInv, MapInv

LEMMA rawsetTraverses ==
  ASSUME MapInv, ContentInv', ListInv', NEW k \in Keys, NEW v \in Vals \cup {Nil}, NEW float,
         rawset(k, v, float)
  PROVE  IndexInv' /\ WalkInv'
<1>1. PresentMeant /\ meant' = [meant EXCEPT ![k] = v]
  BY PresentFacts DEF MapInv, rawset, Means
<1>2. CASE v = Nil /\ rawhas(k)
  BY <1>2, DeleteStep
<1>3. CASE v # Nil /\ ~rawhas(k)
  <2>1. meant[k] = Nil /\ indexed' = FALSE
    BY <1>1, <1>3 DEF PresentMeant, rawset, Touch
  <2>2. walk' = [w \in Walkers |-> [on |-> FALSE, at |-> Nil, seen |-> {}]]
    BY <1>3, <2>1 DEF rawset, Means
  <2> QED BY <2>1, <2>2, IdleStep DEF ContentInv
<1>4. CASE (v = Nil /\ ~rawhas(k)) \/ (v # Nil /\ rawhas(k))
  <2>1. walk' = walk
    <3>1. walk' = [w \in Walkers |-> walk[w]]
      BY <1>1, <1>4 DEF PresentMeant, rawset, Means
    <3> QED BY <3>1 DEF MapInv, WalkInv
  <2>2. Present' = Present
    BY <1>1, <1>4, PresentStep DEF MapInv, PresentMeant, Present
  <2>3. Agree(Items', Items, Present)
    BY <1>1, <1>4, <2>2, KeepsOrder DEF MapInv, ContentInv, PresentMeant
  <2>4. indexed' = FALSE /\ (succ' = succ \/ (succ' = Without(succ, k) /\ rawhas(k)))
    BY <1>4 DEF rawset, Touch
  <2>5. /\ \A y \in Gone : Recorded(succ', y) = Recorded(succ, y)
        /\ DOMAIN succ \cap Gone \subseteq DOMAIN succ'
    BY <2>4 DEF Gone, Recorded, Without
  <2> QED BY <2>1, <2>2, <2>3, <2>4, <2>5, QuietSteps
<1> QED BY <1>2, <1>3, <1>4

(* The list depends on which keys the dictionaries have, and in which order.  *)
LEMMA SameItems ==
  ASSUME array' = array, DOMAIN hash' = DOMAIN hash, order' = order,
         DOMAIN sparse' = DOMAIN sparse, sorder' = sorder
  PROVE  Items' = Items
  BY DEF Items, ArrayItems, HashItems, Slots

LEMMA SameItemsStep ==
  ASSUME MapInv, ContentInv', ListInv', Items' = Items, succ' = succ,
         indexed' = FALSE \/ Index' = Index, walk' = walk
  PROVE  IndexInv' /\ WalkInv'
<1>1. ItemsOrdered /\ ItemsOrdered'
  BY ItemsFacts, PTL DEF MapInv, ContentInv
<1>2. Present' = Present /\ Agree(Items', Items, Present)
  BY <1>1 DEF ItemsOrdered, Agree
<1> QED BY <1>2, QuietSteps

LEMMA GeneratedTraverses ==
  ASSUME MapInv, ContentInv', ListInv', NEW k \in Names, NEW v \in Vals, NEW fresh \in BOOLEAN,
         GeneratedSet(k, v, fresh)
  PROVE  IndexInv' /\ WalkInv'
<1>1. PresentMeant /\ ItemsOrdered /\ v # Nil /\ k \in Keys
  BY PresentFacts, ItemsFacts, TableAssumption DEF MapInv, ContentInv, Keys
<1>2. indexed' = FALSE /\ succ' = succ /\ array' = array
  BY DEF GeneratedSet
<1>3. CASE meant[k] = Nil
  <2>1. walk' = [w \in Walkers |-> [on |-> FALSE, at |-> Nil, seen |-> {}]]
    BY <1>1, <1>3 DEF GeneratedSet, Means
  <2> QED BY <1>2, <2>1, IdleStep DEF ContentInv
<1>4. CASE meant[k] # Nil
  <2>1. /\ hash' = With(hash, k, Entry(v, FALSE)) /\ order' = OrderWith(hash, order, k)
        /\ sparse' = sparse /\ sorder' = sorder
    BY <1>4 DEF GeneratedSet
  <2>2. k \in DOMAIN hash
    <3>1. k \in Slots \cup DOMAIN Hash
      BY <1>1, <1>4 DEF PresentMeant, ItemsOrdered
    <3>2. k \notin Nat
      BY TableAssumption
    <3>3. k \notin Slots
      BY <3>2 DEF Slots
    <3>4. k \notin DOMAIN sparse
      BY <3>2 DEF MapInv, ContentInv, StorageInv, Typed, Ints
    <3> QED BY <3>1, <3>3, <3>4 DEF Hash
  <2>3. DOMAIN hash' = DOMAIN hash /\ order' = order
    BY <2>1, <2>2 DEF With, OrderWith
  <2>4. Items' = Items
    BY <1>2, <2>1, <2>3, SameItems
  <2>5. walk' = walk
    <3>1. walk' = [w \in Walkers |-> walk[w]]
      BY <1>4 DEF GeneratedSet, Means
    <3> QED BY <3>1 DEF MapInv, WalkInv
  <2> QED BY <1>2, <2>4, <2>5, SameItemsStep
<1> QED BY <1>3, <1>4

LEMMA RegionTraverses ==
  ASSUME MapInv, ContentInv', ListInv', NEW k \in Keys, NEW v \in Vals \cup {Nil}, RegionSet(k, v)
  PROVE  IndexInv' /\ WalkInv'
<1>1. CASE ~(Untagged(k) /\ v \in Bools)
  <2>1. rawset(k, v, FALSE)
    BY <1>1 DEF RegionSet
  <2> QED BY <2>1, rawsetTraverses
<1>2. CASE Untagged(k) /\ v \in Bools
  <2>1. PresentMeant /\ v # Nil
    BY <1>2, PresentFacts, TableAssumption DEF MapInv, Vals
  <2>2. region = "shared" /\ isSparse /\ k \in Ints /\ Len(array) = 0
    BY <1>2 DEF MapInv, ContentInv, StorageInv, RegionOwns, Partition, Untagged
  <2>3. /\ sparse' = With(sparse, k, v) /\ sorder' = OrderWith(sparse, sorder, k)
        /\ indexed' = FALSE /\ Means(k, v) /\ UNCHANGED <<array, hash, order, succ>>
    BY <1>2, <2>2 DEF RegionSet
  <2>4. CASE meant[k] = Nil
    <3>1. walk' = [w \in Walkers |-> [on |-> FALSE, at |-> Nil, seen |-> {}]]
      BY <2>1, <2>3, <2>4 DEF Means
    <3> QED BY <2>3, <3>1, IdleStep DEF ContentInv
  <2>5. CASE meant[k] # Nil
    <3>1. k \in DOMAIN sparse
      BY <2>1, <2>2, <2>5 DEF PresentMeant, rawhas
    <3>2. DOMAIN sparse' = DOMAIN sparse /\ sorder' = sorder
      BY <2>3, <3>1 DEF With, OrderWith
    <3>3. Items' = Items
      BY <2>3, <3>2, SameItems
    <3>4. walk' = walk
      <4>1. walk' = [w \in Walkers |-> walk[w]]
        BY <2>3, <2>5 DEF Means
      <4> QED BY <4>1 DEF MapInv, WalkInv
    <3> QED BY <2>3, <3>3, <3>4, SameItemsStep
  <2> QED BY <2>4, <2>5
<1> QED BY <1>1, <1>2

(* A traversal starts, and goes on.                                          *)
LEMMA StartTraverses ==
  ASSUME MapInv, ContentInv', ListInv', NEW w \in Walkers, StartWalk(w)
  PROVE  IndexInv' /\ WalkInv'
<1> DEFINE t == [on |-> TRUE, at |-> Nil, seen |-> {}]
<1>1. ItemsOrdered /\ ItemsOrdered'
  BY ItemsFacts, PTL DEF MapInv, ContentInv
<1>2. Items' = Items /\ Index' = Index /\ succ' = succ /\ indexed' = indexed
  BY DEF StartWalk, storage, metadata, Items, ArrayItems, HashItems, Slots, Index
<1>3. Present' = Present /\ Agree(Items', Items, Present)
  BY <1>1, <1>2 DEF ItemsOrdered, Agree
<1>4. /\ walk' \in [Walkers -> Walks] /\ walk'[w] = t
      /\ \A u \in Walkers : u # w => walk'[u] = walk[u]
  BY DEF StartWalk, MapInv, WalkInv, Walks
<1>5. Walking(t, Items', succ', Gone', Index')
  <2>1. Nil \notin Items'.keys /\ Nil \notin Gone'
    BY <1>1, TableAssumption DEF ItemsOrdered, Gone
  <2> QED BY <2>1 DEF Walking, Placed
<1>6. ASSUME NEW u \in Walkers, u # w, walk'[u].on
      PROVE  Walking(walk'[u], Items', succ', Gone', Index')
  BY <1>2, <1>3, <1>4, <1>6, QuietStep
<1>7. IndexInv'
  BY <1>2, <1>3 DEF IndexInv, MapInv
<1>8. \A u \in Walkers : walk'[u].on => Walking(walk'[u], Items', succ', Gone', Index')
  BY <1>4, <1>5, <1>6
<1> QED BY <1>4, <1>7, <1>8 DEF WalkInv

LEMMA NextTraverses ==
  ASSUME MapInv, ContentInv', ListInv', NEW w \in Walkers, NextItem(w)
  PROVE  /\ IndexInv' /\ WalkInv'
         /\ LET k == FirstLeft(Items, walk[w].seen)
            IN  \/ Present \subseteq walk[w].seen
                   /\ walk' = [walk EXCEPT ![w] = [on |-> FALSE, at |-> Nil, seen |-> {}]]
                \/ k \in Present \ walk[w].seen
                   /\ walk' = [walk EXCEPT ![w] =
                                 [on |-> TRUE, at |-> k, seen |-> @.seen \cup {k}]]
<1> DEFINE t == walk[w]
           k == FirstLeft(Items, t.seen)
<1>1. ItemsOrdered /\ ItemsOrdered'
  BY ItemsFacts, PTL DEF MapInv, ContentInv
<1>2. Items' = Items /\ Index' = Index /\ succ' = succ
  BY DEF NextItem, storage, Items, ArrayItems, HashItems, Slots, Index
<1>3. Present' = Present /\ Agree(Items', Items, Present) /\ IndexInv'
  BY <1>1, <1>2 DEF ItemsOrdered, Agree, IndexInv, MapInv
<1>4. t \in Walks /\ t.on /\ Walking(t, Items, succ, Gone, Index) /\ walk \in [Walkers -> Walks]
  BY DEF NextItem, MapInv, WalkInv
<1>5. NextKey(t.at) = k
  BY <1>4, NextIsFirstLeft DEF MapInv, ContentInv
<1>6. walk' = [walk EXCEPT ![w] = IF k \in {Nil, Absent} THEN [on |-> FALSE, at |-> Nil, seen |-> {}]
                                  ELSE [on |-> TRUE, at |-> k, seen |-> t.seen \cup {k}]]
  BY <1>5 DEF NextItem
<1>7. \/ Present \subseteq t.seen /\ k = Nil
      \/ k \in Present \ t.seen /\ Placed(Items, k, t.seen \cup {k})
  <2>1. CASE Present \subseteq t.seen
    <3>1. Items.keys \ t.seen = {}
      BY <1>1, <2>1 DEF ItemsOrdered
    <3> QED BY <2>1, <3>1, FirstOfNone DEF FirstLeft
  <2>2. CASE ~(Present \subseteq t.seen)
    <3>1. Items.keys \ t.seen # {} /\ Items.keys = Present /\ WellOrdered(Items)
      BY <1>1, <2>2 DEF ItemsOrdered
    <3>2. Placed(Items, t.at, t.seen)
      BY <1>4 DEF Walking
    <3> QED BY <3>1, <3>2, PlacedAdvances
  <2> QED BY <2>1, <2>2
<1> HIDE DEF k
<1>8. /\ walk' \in [Walkers -> Walks]
      /\ \A u \in Walkers : u # w => walk'[u] = walk[u]
  <2>1. k \in Present => k \in Keys
    BY DEF Present
  <2>2. walk'[w] \in Walks
    BY <1>4, <1>6, <1>7, <2>1 DEF Walks
  <2> QED BY <1>4, <1>6, <2>2
<1>9. walk'[w].on => Walking(walk'[w], Items', succ', Gone', Index')
  <2> SUFFICES ASSUME walk'[w].on PROVE Walking(walk'[w], Items', succ', Gone', Index')
    OBVIOUS
  <2>1. k \in Present /\ walk'[w] = [on |-> TRUE, at |-> k, seen |-> t.seen \cup {k}]
    BY <1>4, <1>6, <1>7
  <2>2. PresentMeant'
    BY PresentFacts, PTL
  <2>3. k # Nil /\ k \notin Gone'
    BY <1>1, <1>3, <2>1, <2>2 DEF ItemsOrdered, PresentMeant
  <2>4. Placed(Items', k, t.seen \cup {k})
    BY <1>1, <1>2, <1>7, <2>1 DEF ItemsOrdered
  <2> QED BY <2>1, <2>3, <2>4 DEF Walking
<1>10. ASSUME NEW u \in Walkers, u # w, walk'[u].on
       PROVE  Walking(walk'[u], Items', succ', Gone', Index')
  BY <1>2, <1>3, <1>8, <1>10, QuietStep
<1>11. WalkInv'
  BY <1>8, <1>9, <1>10 DEF WalkInv
<1>12. k \in Present => k \notin {Nil, Absent}
  BY TableAssumption DEF Present
<1>13. \/ Present \subseteq t.seen
          /\ walk' = [walk EXCEPT ![w] = [on |-> FALSE, at |-> Nil, seen |-> {}]]
       \/ k \in Present \ t.seen
          /\ walk' = [walk EXCEPT ![w] = [on |-> TRUE, at |-> k, seen |-> @.seen \cup {k}]]
  BY <1>6, <1>7, <1>12
<1> QED BY <1>3, <1>11, <1>13 DEF k

LEMMA TraversesStep ==
  ASSUME MapInv, ContentInv', ListInv', [Next]_vars
  PROVE  IndexInv' /\ WalkInv'
<1>1. ASSUME NEW k \in Keys, NEW v \in Vals \cup {Nil}, NEW float \in BOOLEAN, Set(k, v, float)
      PROVE  IndexInv' /\ WalkInv'
  BY <1>1, rawsetTraverses DEF Set
<1>2. ASSUME NEW k \in Keys, NEW v \in Vals \cup {Nil}, RegionAliasSet(k, v)
      PROVE  IndexInv' /\ WalkInv'
  BY <1>2, rawsetTraverses DEF RegionAliasSet, KeepingLocal
<1>4. ASSUME NEW k \in Keys, NEW v \in Vals \cup {Nil}, NEW float \in BOOLEAN,
             RegionConstantSet(k, v, float)
      PROVE  IndexInv' /\ WalkInv'
  BY <1>4, rawsetTraverses DEF RegionConstantSet, KeepingLocal
<1>3. CASE RegionEnter \/ RegionExit \/ UNCHANGED vars
  <2>1. UNCHANGED <<array, hash, order, sparse, sorder, index, indexed, succ, walk>>
    BY <1>3 DEF RegionEnter, RegionExit, vars, storage, metadata
  <2>2. Items' = Items
    BY <2>1, SameItems
  <2>3. Index' = Index
    BY <2>1, <2>2 DEF Index
  <2> QED BY <2>1, <2>2, <2>3, SameItemsStep
<1> QED BY <1>1, <1>2, <1>3, <1>4, GeneratedTraverses, RegionTraverses, StartTraverses, NextTraverses
        DEF Next

LEMMA MapHolds ==
  ASSUME Aliased = FALSE, ConstantKeys = FALSE
  PROVE  Spec => []MapInv
<1>1. Init => MapInv
  <2> SUFFICES ASSUME Init PROVE MapInv
    OBVIOUS
  <2>1. ContentInv
    <3>1. meant = [k \in Keys |-> Nil]
      BY DEF Init
    <3> QED BY <3>1, InitStorage DEF ContentInv
  <2>2. DOMAIN hash = {} /\ DOMAIN sparse = {} /\ DOMAIN succ = {} /\ order = {} /\ sorder = {}
    BY DEF Init, Empty
  <2>3. ListInv
    BY <2>2, EmptyWellOrdered DEF Init, ListInv, OrdersInv, MetaInv
  <2>4. IndexInv
    BY <2>1, <2>3, ItemsFacts DEF Init, Index, ContentInv, ItemsOrdered, IndexInv, Agree
  <2>5. WalkInv
    BY DEF Init, WalkInv, Walks
  <2> QED BY <2>1, <2>3, <2>4, <2>5 DEF MapInv
<1>2. MapInv /\ [Next]_vars => MapInv'
  <2> SUFFICES ASSUME MapInv, [Next]_vars PROVE MapInv'
    OBVIOUS
  <2>1. ContentInv'
    BY NextContent DEF MapInv
  <2>2. ListInv'
    BY ListStep DEF MapInv, ContentInv
  <2> QED BY <2>1, <2>2, TraversesStep DEF MapInv
<1> QED BY <1>1, <1>2, PTL DEF Spec

(* The map of the table is what was assigned.                                *)
IsMeant == [k \in Keys |-> rawget(k)] = meant

LEMMA MapIsMeant == ContentInv => IsMeant
  BY DEF ContentInv, IsMeant

(* Every step of the table is one of the map, or changes nothing there: a     *)
(* store is an assignment, a call of next() goes on to a key that was not     *)
(* seen or ends a traversal that has seen every key.                         *)
LEMMA MapStep ==
  ASSUME MapInv, MapInv', [Next]_vars
  PROVE  [Map!Next]_<<[k \in Keys |-> rawget(k)], walk>>
<1>1. /\ [k \in Keys |-> rawget(k)] = meant /\ [k \in Keys |-> rawget(k)]' = meant'
      /\ meant \in [Keys -> Vals \cup {Nil}] /\ walk \in [Walkers -> Walks]
      /\ region # "orphan"
  <2>1. IsMeant /\ IsMeant'
    BY MapIsMeant, PTL DEF MapInv
  <2> QED BY <2>1 DEF IsMeant, MapInv, ContentInv, WalkInv
<1>2. Map!Present = Present
  <2>1. PresentMeant
    BY PresentFacts DEF MapInv
  <2> QED BY <1>1, <2>1 DEF Map!Present, PresentMeant, Present
<1>3. ASSUME NEW k \in Keys, NEW v \in Vals \cup {Nil}, Means(k, v) PROVE Map!Next
  <2>1. Map!Assign(k, v)
    BY <1>1, <1>3 DEF Means, Map!Assign, Map!Idle
  <2> QED BY <2>1 DEF Map!Next
<1>4. ASSUME NEW k \in Keys, NEW v \in Vals \cup {Nil}, NEW float \in BOOLEAN, Set(k, v, float)
      PROVE  Map!Next
  BY <1>3, <1>4 DEF Set, rawset
<1>5. ASSUME NEW k \in Names, NEW v \in Vals, NEW fresh \in BOOLEAN, GeneratedSet(k, v, fresh)
      PROVE  Map!Next
  BY <1>3, <1>5 DEF GeneratedSet, Keys
<1>6. ASSUME NEW k \in Keys, NEW v \in Vals \cup {Nil}, RegionSet(k, v) \/ RegionAliasSet(k, v)
      PROVE  Map!Next
  <2>1. Means(k, v)
    BY <1>6 DEF RegionSet, RegionAliasSet, KeepingLocal, rawset
  <2> QED BY <1>3, <2>1
<1>10. ASSUME NEW k \in Keys, NEW v \in Vals \cup {Nil}, NEW float \in BOOLEAN,
              RegionConstantSet(k, v, float)
       PROVE  Map!Next
  <2>1. Means(k, v)
    BY <1>10 DEF RegionConstantSet, KeepingLocal, rawset
  <2> QED BY <1>3, <2>1
<1>7. ASSUME NEW w \in Walkers, StartWalk(w) PROVE Map!Next
  <2>1. Map!Start(w)
    BY <1>1, <1>7 DEF StartWalk, Map!Start
  <2> QED BY <2>1 DEF Map!Next
<1>8. ASSUME NEW w \in Walkers, NextItem(w) PROVE Map!Next
  <2> DEFINE k == FirstLeft(Items, walk[w].seen)
  <2>1. /\ walk[w].on /\ meant' = meant
        /\ \/ Present \subseteq walk[w].seen
              /\ walk' = [walk EXCEPT ![w] = [on |-> FALSE, at |-> Nil, seen |-> {}]]
           \/ k \in Present \ walk[w].seen
              /\ walk' = [walk EXCEPT ![w] = [on |-> TRUE, at |-> k, seen |-> @.seen \cup {k}]]
    BY <1>8, NextTraverses DEF NextItem, MapInv
  <2> HIDE DEF k
  <2>2. CASE /\ Present \subseteq walk[w].seen
             /\ walk' = [walk EXCEPT ![w] = [on |-> FALSE, at |-> Nil, seen |-> {}]]
    <3>1. Map!Finish(w)
      BY <1>1, <1>2, <2>1, <2>2 DEF Map!Finish, Map!Idle
    <3> QED BY <3>1 DEF Map!Next
  <2>3. CASE /\ k \in Present \ walk[w].seen
             /\ walk' = [walk EXCEPT ![w] = [on |-> TRUE, at |-> k, seen |-> @.seen \cup {k}]]
    <3>1. Map!Advance(w, k)
      BY <1>1, <1>2, <2>1, <2>3 DEF Map!Advance
    <3>2. k \in Keys
      BY <2>3 DEF Present
    <3> QED BY <3>1, <3>2 DEF Map!Next
  <2> QED BY <2>1, <2>2, <2>3
<1>9. CASE RegionEnter \/ RegionExit \/ UNCHANGED vars
  <2>1. meant' = meant /\ walk' = walk
    BY <1>9 DEF RegionEnter, RegionExit, vars
  <2> QED BY <1>1, <2>1
<1> QED BY <1>4, <1>5, <1>6, <1>7, <1>8, <1>9, <1>10 DEF Next

(* When an untagged loop reaches its table through one register only, and     *)
(* neither stores a constant integer key nor deletes a constant key, a table  *)
(* is a map, traversals included: whatever is assigned or cleared between two *)
(* calls of next(), by whom, and however the keys move between the parts of   *)
(* the table, a traversal that sees no new key returns every key that stays   *)
(* once and no key twice, and no call of it fails.                           *)
THEOREM ImplementsCorrect == Aliased = FALSE /\ ConstantKeys = FALSE => (Spec => ImplementsMap)
<1> SUFFICES ASSUME Aliased = FALSE, ConstantKeys = FALSE PROVE Spec => ImplementsMap
  OBVIOUS
<1>1. Init => Map!Init
  <2> SUFFICES ASSUME Init PROVE Map!Init
    OBVIOUS
  <2>1. \A k \in Keys : rawget(k) = Nil
    BY InitStorage
  <2> QED BY <2>1 DEF Init, Map!Init, Map!Idle
<1>2. MapInv /\ MapInv' /\ [Next]_vars => [Map!Next]_<<[k \in Keys |-> rawget(k)], walk>>
  BY MapStep
<1>3. Spec => []MapInv
  BY MapHolds
<1> QED BY <1>1, <1>2, <1>3, PTL DEF Spec, ImplementsMap, Map!Spec

=============================================================================

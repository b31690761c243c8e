------------------------- MODULE LuaTableLibProofs -------------------------
(* Proofs about the table library.  The invariant TableInv says how far a call    *)
(* has come: until it ends the tables differ from what they were exactly by the   *)
(* rounds made so far (Course), which are a stretch of keys that hold what was d   *)
(* keys further on (Shifted); when it has ended, both properties hold (Ended).      *)
EXTENDS LuaTableLib, FiniteSetTheorems, TLAPS

LEMMA KeysAreIntegers == Keys \subseteq Int
BY TableLibAssumption DEF LuaIntegers, MinInteger

(* The tables: a table is what it holds at the keys.                           *)
LEMMA TablesAre ==
  ASSUME NEW ts, TwoTables(ts)
  PROVE  /\ DOMAIN ts = 1 .. 2
         /\ \A t \in 1 .. 2 : ts[t] = [k \in Keys |-> ts[t][k]]
         /\ \A t \in 1 .. 2 : DOMAIN ts[t] = Keys
<1>1. ts = [t \in 1 .. 2 |-> [k \in Keys |-> ts[t][k]]]
  BY DEF TwoTables
<1>2. DOMAIN ts = 1 .. 2 /\ \A t \in 1 .. 2 : ts[t] = [k \in Keys |-> ts[t][k]]
  BY <1>1
<1> QED
  BY <1>2

(* us is ts after value has been written at a key of table t.                  *)
Wrote(ts, us, t, key, value) == us = [ts EXCEPT ![t][key] = value]
OthersStay(ts, us, t) == \A u \in 1 .. 2 : u # t => us[u] = ts[u]
NowReads(ts, us, t, key, value) == \A k \in Keys : us[t][k] = IF k = key THEN value ELSE ts[t][k]

(* A table that was written to differs at that key only.                           *)
LEMMA PutFacts ==
  ASSUME NEW ts, TwoTables(ts), NEW t \in 1 .. 2, NEW key \in Keys, NEW value,
         NEW us, Wrote(ts, us, t, key, value)
  PROVE  /\ TwoTables(us)
         /\ OthersStay(ts, us, t)
         /\ us[t] = [ts[t] EXCEPT ![key] = value]
         /\ NowReads(ts, us, t, key, value)
<1>1. /\ DOMAIN ts = 1 .. 2
      /\ \A u \in 1 .. 2 : ts[u] = [k \in Keys |-> ts[u][k]]
  BY TablesAre
<1>2. us = [u \in 1 .. 2 |-> IF u = t THEN [ts[t] EXCEPT ![key] = value] ELSE ts[u]]
  BY <1>1 DEF Wrote
<1>3. (\A u \in 1 .. 2 : u # t => us[u] = ts[u]) /\ us[t] = [ts[t] EXCEPT ![key] = value]
  BY <1>2
<1>4. ts[t] = [k \in Keys |-> ts[t][k]]
  BY <1>1
<1>5. us[t] = [k \in Keys |-> IF k = key THEN value ELSE ts[t][k]]
  BY <1>3, <1>4
<1>6. \A k \in Keys : us[t][k] = IF k = key THEN value ELSE ts[t][k]
  BY <1>5
<1>7. \A u \in 1 .. 2 : us[u] = [k \in Keys |-> us[u][k]]
  <2> TAKE u \in 1 .. 2
  <2>1. CASE u = t
    BY <1>5, <2>1
  <2>2. CASE u # t
    BY <1>1, <1>3, <2>2
  <2> QED
    BY <2>1, <2>2
<1>8. TwoTables(us)
  <2>1. DOMAIN us = 1 .. 2 /\ us = [u \in 1 .. 2 |-> us[u]]
    BY <1>2
  <2> QED
    BY <1>7, <2>1 DEF TwoTables
<1> QED
  BY <1>3, <1>6, <1>8 DEF NowReads, OthersStay

(* The tables are those of bs but for the first, which is f.                  *)
LEMMA NowIs ==
  ASSUME NEW ts, TwoTables(ts), NEW bs, TwoTables(bs), ts[2] = bs[2],
         NEW f, f = [k \in Keys |-> f[k]], \A k \in Keys : ts[1][k] = f[k]
  PROVE  ts = [bs EXCEPT ![1] = f]
<1>1. ts[1] = [k \in Keys |-> ts[1][k]]
  <2>1. \A t \in 1 .. 2 : ts[t] = [k \in Keys |-> ts[t][k]]
    BY TablesAre, Zenon
  <2> QED
    BY <2>1
<1>2. ts[1] = f
  BY <1>1
<1>3. bs = [t \in 1 .. 2 |-> bs[t]]
  <2>1. bs = [t \in 1 .. 2 |-> [k \in Keys |-> bs[t][k]]]
    BY DEF TwoTables
  <2> QED
    BY <2>1
<1>4. ts = [t \in 1 .. 2 |-> ts[t]]
  <2>1. ts = [t \in 1 .. 2 |-> [k \in Keys |-> ts[t][k]]]
    BY DEF TwoTables
  <2> QED
    BY <2>1
<1>5. [bs EXCEPT ![1] = f] = [t \in 1 .. 2 |-> IF t = 1 THEN f ELSE bs[t]]
  BY <1>3
<1>6. \A t \in 1 .. 2 : ts[t] = IF t = 1 THEN f ELSE bs[t]
  BY <1>2
<1>7. [t \in 1 .. 2 |-> ts[t]] = [t \in 1 .. 2 |-> IF t = 1 THEN f ELSE bs[t]]
  BY <1>6
<1> QED
  BY <1>4, <1>5, <1>7

-----------------------------------------------------------------------------
(* In table t of ts, the keys lo .. hi hold what table s of bs holds d further  *)
(* on, and all others what table t held.                                      *)
Shifted(ts, bs, t, lo, hi, s, d) ==
  \A k \in Keys : ts[t][k] = IF k \in lo .. hi THEN bs[s][k + d] ELSE bs[t][k]

(* One more key at the upper, or the lower, end of the stretch.                    *)
LEMMA ShiftUp ==
  ASSUME NEW ts, TwoTables(ts), NEW bs, NEW t \in 1 .. 2, NEW s, NEW d \in Int,
         NEW lo \in Int, NEW hi \in Int, lo <= hi + 1, hi + 1 \in Keys,
         Shifted(ts, bs, t, lo, hi, s, d),
         NEW us, Wrote(ts, us, t, hi + 1, bs[s][hi + 1 + d])
  PROVE  Shifted(us, bs, t, lo, hi + 1, s, d)
<1>1. \A k \in Keys : us[t][k] = IF k = hi + 1 THEN bs[s][hi + 1 + d] ELSE ts[t][k]
  <2>1. PICK key \in Keys : key = hi + 1
    OBVIOUS
  <2>2. PICK value : value = bs[s][hi + 1 + d]
    OBVIOUS
  <2>3. Wrote(ts, us, t, key, value)
    BY <2>1, <2>2
  <2>4. NowReads(ts, us, t, key, value)
    BY <2>3, PutFacts
  <2> QED
    BY <2>1, <2>2, <2>4 DEF NowReads
<1>2. \A k \in Keys : k \in lo .. hi + 1 <=> (k \in lo .. hi \/ k = hi + 1)
  BY KeysAreIntegers
<1>3. \A k \in Keys : ts[t][k] = IF k \in lo .. hi THEN bs[s][k + d] ELSE bs[t][k]
  BY DEF Shifted
<1>4. ASSUME NEW k \in Keys
      PROVE  us[t][k] = IF k \in lo .. hi + 1 THEN bs[s][k + d] ELSE bs[t][k]
  <2>1. CASE k = hi + 1
    BY <1>1, <1>2, <2>1
  <2>2. CASE k # hi + 1
    BY <1>1, <1>2, <1>3, <2>2
  <2> QED
    BY <2>1, <2>2
<1> QED
  BY <1>4 DEF Shifted

LEMMA ShiftDown ==
  ASSUME NEW ts, TwoTables(ts), NEW bs, NEW t \in 1 .. 2, NEW s, NEW d \in Int,
         NEW lo \in Int, NEW hi \in Int, lo <= hi + 1, lo - 1 \in Keys,
         Shifted(ts, bs, t, lo, hi, s, d),
         NEW us, Wrote(ts, us, t, lo - 1, bs[s][lo - 1 + d])
  PROVE  Shifted(us, bs, t, lo - 1, hi, s, d)
<1>1. \A k \in Keys : us[t][k] = IF k = lo - 1 THEN bs[s][lo - 1 + d] ELSE ts[t][k]
  <2>1. PICK key \in Keys : key = lo - 1
    OBVIOUS
  <2>2. PICK value : value = bs[s][lo - 1 + d]
    OBVIOUS
  <2>3. Wrote(ts, us, t, key, value)
    BY <2>1, <2>2
  <2>4. NowReads(ts, us, t, key, value)
    BY <2>3, PutFacts
  <2> QED
    BY <2>1, <2>2, <2>4 DEF NowReads
<1>2. \A k \in Keys : k \in lo - 1 .. hi <=> (k \in lo .. hi \/ k = lo - 1)
  BY KeysAreIntegers
<1>3. \A k \in Keys : ts[t][k] = IF k \in lo .. hi THEN bs[s][k + d] ELSE bs[t][k]
  BY DEF Shifted
<1>4. ASSUME NEW k \in Keys
      PROVE  us[t][k] = IF k \in lo - 1 .. hi THEN bs[s][k + d] ELSE bs[t][k]
  <2>1. CASE k = lo - 1
    BY <1>1, <1>2, <2>1
  <2>2. CASE k # lo - 1
    BY <1>1, <1>2, <1>3, <2>2
  <2> QED
    BY <2>1, <2>2
<1> QED
  BY <1>4 DEF Shifted

-----------------------------------------------------------------------------
(* While a call runs, and when a metamethod stopped it, the tables are between  *)
(* what they were and what they will be, as far as the rounds have come.         *)
InsertCourse ==
  /\ job.n \in job.pos - 1 .. job.len /\ tabs[2] = before[2]
  /\ Shifted(tabs, before, 1, job.n + 2, job.len + 1, 1, -1)
RemoveCourse ==
  /\ job.n \in Pos .. job.len /\ tabs[2] = before[2]
  /\ Shifted(tabs, before, 1, Pos, job.n - 1, 1, 1)
MoveCourse ==
  /\ job.n \in Nat /\ (job.n = 0 \/ job.n <= MoveCount)
  /\ \A t \in 1 .. 2 : t # job.target => tabs[t] = before[t]
  /\ IF Downwards
     THEN Shifted(tabs, before, job.target, job.at + MoveCount - job.n, job.at + MoveCount - 1, 1, job.from - job.at)
     ELSE Shifted(tabs, before, job.target, job.at, job.at + job.n - 1, 1, job.from - job.at)
SortingOf(list, len, bs, less) ==
  /\ \E p \in Bijection(1 .. len, 1 .. len) : list = [i \in 1 .. len |-> bs[1][p[i]]]
  /\ Order(less, Range(list)) => Ordered(less, list)
SortCourse ==
  /\ job.n \in Nat \ {0} /\ (job.n = 1 \/ job.n <= job.len + 1) /\ tabs[2] = before[2]
  /\ job.len <= MaxSorted
  /\ SortingOf(job.list, job.len, before, job.less)
  /\ Shifted(tabs, <<before[1], job.list>>, 1, 1, job.n - 1, 2, 0)
Course ==
  /\ job.f = "insert" => IF InRange /\ ~job.append THEN InsertCourse ELSE tabs = before
  /\ job.f = "remove" => IF Pos \in 1 .. job.len THEN RemoveCourse ELSE tabs = before
  /\ job.f = "move" => IF Movable THEN MoveCourse ELSE tabs = before
  /\ job.f = "sort" => IF job.n = 0 THEN tabs = before ELSE SortCourse
  /\ job.f \in {"concat", "unpack", "pack"} => tabs = before
Goes == answer = NoAnswer \/ (answer = Raised /\ job.throws)
Ended == answer # NoAnswer /\ TableAnswer /\ NothingLost
Typed == TwoTables(tabs) /\ TwoTables(before) /\ IsJob /\ Touched \subseteq Keys
TableInv == Typed /\ ((Goes /\ Course) \/ Ended)

(* The answers are told apart.                                                     *)
LEMMA Answers ==
  /\ NoAnswer # Raised
  /\ \A list : Values(list) # NoAnswer /\ Values(list) # Raised
<1>1. NoAnswer.is = "none" /\ Raised.is = "raised" /\ \A list : Values(list).is = "values"
  BY DEF NoAnswer, Raised, Values
<1> QED
  BY <1>1

(* Only the counter, and the list of a sort, change while a call runs.          *)
SameCall ==
  /\ job'.f = job.f /\ job'.len = job.len /\ job'.throws = job.throws /\ job'.append = job.append
  /\ job'.last = job.last /\ job'.pos = job.pos /\ job'.value = job.value /\ job'.from = job.from
  /\ job'.to = job.to /\ job'.at = job.at /\ job'.target = job.target /\ job'.less = job.less
  /\ job'.texts = job.texts

(* What a round does to job.                                                       *)
LEMMA TurnFacts ==
  ASSUME IsJob, NEW n \in Int, job' = [job EXCEPT !.n = n]
  PROVE  SameCall /\ IsJob' /\ job'.n = n /\ job'.list = job.list
<1>1. SameCall /\ job'.n = n /\ job'.list = job.list
  BY DEF SameCall, IsJob
<1>2. job' = [f |-> job'.f, len |-> job'.len, throws |-> job'.throws, n |-> job'.n, append |-> job'.append,
              last |-> job'.last, pos |-> job'.pos, value |-> job'.value, from |-> job'.from, to |-> job'.to,
              at |-> job'.at, target |-> job'.target, list |-> job'.list, less |-> job'.less, texts |-> job'.texts]
  BY DEF IsJob
<1> QED
  BY <1>1, <1>2 DEF IsJob, SameCall

(* What depends on the arguments only.                                            *)
LEMMA SameFacts ==
  ASSUME SameCall
  PROVE  /\ (InRange' <=> InRange) /\ (Downwards' <=> Downwards) /\ (Movable' <=> Movable)
         /\ Pos' = Pos /\ Place' = Place /\ Behind' = Behind /\ MoveCount' = MoveCount
         /\ Touched' = Touched
<1>1. /\ (InRange' <=> InRange) /\ (Downwards' <=> Downwards) /\ (Movable' <=> Movable)
      /\ Pos' = Pos /\ Place' = Place /\ Behind' = Behind /\ MoveCount' = MoveCount
      /\ (MoveOutside' <=> MoveOutside)
  BY DEF SameCall, InRange, Downwards, Movable, Pos, Place, Behind, MoveCount, MoveOutside
<1> QED
  BY <1>1 DEF SameCall, Touched

(* Types are kept.                                                               *)
LEMMA TypedNext ==
  ASSUME Typed, SameCall, IsJob', TwoTables(tabs'), before' = before
  PROVE  Typed'
<1>1. TwoTables(tabs)'
  BY Zenon DEF TwoTables
<1>2. TwoTables(before)'
  BY DEF Typed, TwoTables
<1> QED
  BY <1>1, <1>2, SameFacts DEF Typed

(* Fields of a call, and their types.                                          *)
LEMMA JobFacts ==
  ASSUME Typed
  PROVE  /\ job.len \in Int /\ job.n \in Int /\ job.pos \in Int
         /\ job.from \in Int /\ job.to \in Int /\ job.at \in Int
         /\ job.target \in 1 .. 2 /\ job.f \in TableFunctions
         /\ Pos \in Int /\ Place \in Int /\ Behind \in Int /\ MoveCount \in Int
         /\ TwoTables(tabs) /\ TwoTables(before) /\ IsJob
         /\ Keys \subseteq Int /\ Touched \subseteq Keys
<1>1. /\ job.len \in Int /\ job.n \in Int /\ job.pos \in LuaIntegers
      /\ job.from \in LuaIntegers /\ job.to \in LuaIntegers /\ job.at \in LuaIntegers
      /\ job.target \in 1 .. 2 /\ job.f \in TableFunctions
  BY DEF Typed, IsJob
<1>2. Keys \subseteq Int /\ MinInteger \in Int /\ MaxInteger \in Int /\ \A n \in LuaIntegers : n \in Int
  BY TableLibAssumption DEF LuaIntegers, MinInteger
<1>3. \A n \in Int : Wrapped(n) \in Int
  BY <1>2, TableLibAssumption DEF Wrapped, MinInteger
<1>4. Behind \in Int
  <2>1. job.len + 1 \in Int
    BY <1>1
  <2> QED
    BY <1>3, <2>1 DEF Behind
<1> QED
  BY <1>1, <1>2, <1>4 DEF Typed, Pos, Place, MoveCount

(* The refusals of move are those of the reference.                               *)
LEMMA MovableIs ==
  ASSUME Typed
  PROVE  MoveOutside <=> ~Movable
<1>1. /\ job.from \in Int /\ job.to \in Int /\ job.at \in Int /\ MaxInteger \in Nat
      /\ job.to <= MaxInteger /\ job.at >= MinInteger
  BY TableLibAssumption DEF Typed, IsJob, LuaIntegers, MinInteger
<1>2. PICK c \in Int : c = job.to - job.from
  BY <1>1
<1>3. MoveCount = c + 1 /\ (MoveCount > 0 <=> job.from <= job.to)
  BY <1>1, <1>2 DEF MoveCount
<1>4. MoveCount > MaxInteger <=> ~(job.from > 0 \/ job.to < MaxInteger + job.from)
  BY <1>1, <1>2, <1>3
<1>5. ASSUME MoveCount > 0
      PROVE  job.at + MoveCount - 1 \in LuaIntegers <=> job.at <= MaxInteger - (job.to - job.from)
  BY <1>1, <1>2, <1>3, <1>5 DEF LuaIntegers, MinInteger
<1> QED
  BY <1>3, <1>4, <1>5 DEF MoveOutside, Movable

(* insert: a round, and the end.                                                 *)
LEMMA InsertShifts ==
  ASSUME Typed, Course, InsertShift
  PROVE  Typed' /\ Course' /\ answer' = answer /\ before' = before
<1>1. /\ job.f = "insert" /\ ~job.append /\ job.pos \in 1 .. job.len + 1 /\ job.n >= job.pos
      /\ InRange
  BY JobFacts DEF InsertShift, Running, InsertOutside, InRange
<1>2. /\ job.n \in job.pos - 1 .. job.len /\ tabs[2] = before[2]
      /\ Shifted(tabs, before, 1, job.n + 2, job.len + 1, 1, -1)
  BY <1>1 DEF Course, InsertCourse
<1>3. Wrote(tabs, tabs', 1, job.n + 1, tabs[1][job.n]) /\ job' = [job EXCEPT !.n = job.n - 1]
      /\ answer' = answer /\ before' = before
  BY DEF InsertShift, Put, Get, Turn, Wrote
<1>4. job.pos .. job.len + 1 \subseteq Keys
  BY <1>1, JobFacts DEF Touched
<1>5. job.n \in Keys /\ job.n + 1 \in Keys
  BY <1>1, <1>2, <1>4, JobFacts
<1>6. tabs[1][job.n] = before[1][job.n]
  BY <1>2, <1>5, JobFacts DEF Shifted
<1>7. PICK lo \in Int : lo = job.n + 2
  BY JobFacts
<1>8. PICK d \in Int : d = -1
  OBVIOUS
<1>9. PICK hi \in Int : hi = job.len + 1
  BY JobFacts
<1>10. Wrote(tabs, tabs', 1, lo - 1, before[1][lo - 1 + d])
  <2>1. job.n + 1 = lo - 1 /\ job.n = lo - 1 + d
    BY <1>7, <1>8, JobFacts
  <2> QED
    BY <1>3, <1>6, <2>1
<1>11. Shifted(tabs', before, 1, lo - 1, hi, 1, d)
  <2>1. lo <= hi + 1 /\ lo - 1 \in Keys /\ Shifted(tabs, before, 1, lo, hi, 1, d)
    BY <1>2, <1>5, <1>7, <1>8, <1>9, JobFacts
  <2>2. 1 \in 1 .. 2 /\ TwoTables(tabs)
    BY JobFacts
  <2> QED
    BY <1>10, <2>1, <2>2, ShiftDown
<1>12. SameCall /\ IsJob' /\ job'.n = job.n - 1
  <2>1. PICK n \in Int : n = job.n - 1
    BY JobFacts
  <2>2. job' = [job EXCEPT !.n = n]
    BY <1>3, <2>1
  <2> QED
    BY <2>1, <2>2, JobFacts, TurnFacts
<1>13. TwoTables(tabs') /\ tabs'[2] = tabs[2]
  <2>1. 1 \in 1 .. 2 /\ TwoTables(tabs)
    BY JobFacts
  <2>2. TwoTables(tabs') /\ OthersStay(tabs, tabs', 1)
    BY <1>3, <1>5, <2>1, PutFacts
  <2> QED
    BY <2>2 DEF OthersStay
<1>14. Typed'
  BY <1>3, <1>12, <1>13, TypedNext
<1>15. InsertCourse'
  <2>1. job'.n \in job'.pos - 1 .. job'.len /\ tabs'[2] = before'[2]
    BY <1>1, <1>2, <1>3, <1>12, <1>13, JobFacts DEF SameCall
  <2>2. lo - 1 = job'.n + 2 /\ hi = job'.len + 1
    BY <1>7, <1>9, <1>12, JobFacts DEF SameCall
  <2>3. Shifted(tabs', before', 1, job'.n + 2, job'.len + 1, 1, -1)
    BY <1>3, <1>8, <1>11, <2>2
  <2> QED
    BY <2>1, <2>3 DEF InsertCourse
<1> QED
  BY <1>1, <1>3, <1>12, <1>14, <1>15, SameFacts DEF Course, SameCall

LEMMA EndTyped ==
  ASSUME Typed, job' = job, before' = before, TwoTables(tabs')
  PROVE  Typed' /\ SameCall
<1>1. SameCall /\ IsJob'
  BY JobFacts DEF SameCall, IsJob
<1> QED
  BY <1>1, TypedNext

(* While the elements lo - 1 .. hi - 1 are moved up by one, none is lost when    *)
(* nothing was at hi, even when something else is written at lo - 1.             *)
MovedUp(ts, bs, lo, hi) ==
  \A k \in Keys : k # lo - 1 => ts[1][k] = IF k \in lo .. hi THEN bs[1][k - 1] ELSE bs[1][k]

LEMMA InsertKeeps ==
  ASSUME NEW ts, TwoTables(ts), NEW bs, TwoTables(bs), NEW lo \in Int, NEW hi \in Int,
         lo <= hi + 1, lo .. hi \subseteq Keys, bs[1][hi] = Nil, MovedUp(ts, bs, lo, hi)
  PROVE  Range(bs[1]) \ {Nil} \subseteq Range(ts[1])
<1>1. DOMAIN ts[1] = Keys /\ DOMAIN bs[1] = Keys
  <2>1. \A t \in 1 .. 2 : DOMAIN ts[t] = Keys
    BY TablesAre, Zenon
  <2>2. \A t \in 1 .. 2 : DOMAIN bs[t] = Keys
    BY TablesAre, Zenon
  <2> QED
    BY <2>1, <2>2
<1>2. ASSUME NEW k \in Keys, bs[1][k] # Nil
      PROVE  \E j \in Keys : ts[1][j] = bs[1][k]
  <2>1. k \in Int /\ k # hi
    BY <1>2, KeysAreIntegers
  <2>2. CASE k \in lo - 1 .. hi
    <3>1. k + 1 \in lo .. hi /\ k + 1 \in Keys /\ k + 1 # lo - 1
      BY <2>1, <2>2
    <3>2. ts[1][k + 1] = bs[1][k + 1 - 1] /\ k + 1 - 1 = k
      BY <2>1, <3>1 DEF MovedUp
    <3> QED
      BY <3>1, <3>2
  <2>3. CASE k \notin lo - 1 .. hi
    <3>1. k # lo - 1 /\ k \notin lo .. hi
      BY <2>1, <2>3
    <3> QED
      BY <3>1 DEF MovedUp
  <2> QED
    BY <2>2, <2>3
<1> QED
  BY <1>1, <1>2 DEF Range

(* While the elements lo + 1 .. hi are moved down by one, none but that at lo is *)
(* lost, even when something else is written at hi.                             *)
MovedDown(ts, bs, lo, hi) ==
  \A k \in Keys : k # hi => ts[1][k] = IF k \in lo .. hi - 1 THEN bs[1][k + 1] ELSE bs[1][k]

LEMMA RemoveKeeps ==
  ASSUME NEW ts, TwoTables(ts), NEW bs, TwoTables(bs), NEW lo \in Int, NEW hi \in Int,
         lo <= hi, lo .. hi \subseteq Keys, MovedDown(ts, bs, lo, hi)
  PROVE  Range(bs[1]) \ {Nil, bs[1][lo]} \subseteq Range(ts[1])
<1>1. DOMAIN ts[1] = Keys /\ DOMAIN bs[1] = Keys
  <2>1. \A t \in 1 .. 2 : DOMAIN ts[t] = Keys
    BY TablesAre, Zenon
  <2>2. \A t \in 1 .. 2 : DOMAIN bs[t] = Keys
    BY TablesAre, Zenon
  <2> QED
    BY <2>1, <2>2
<1>2. ASSUME NEW k \in Keys, bs[1][k] # bs[1][lo]
      PROVE  \E j \in Keys : ts[1][j] = bs[1][k]
  <2>1. k \in Int /\ k # lo
    BY <1>2, KeysAreIntegers
  <2>2. CASE k \in lo .. hi
    <3>1. k - 1 \in lo .. hi - 1 /\ k - 1 \in Keys /\ k - 1 # hi
      BY <2>1, <2>2
    <3>2. ts[1][k - 1] = bs[1][k - 1 + 1] /\ k - 1 + 1 = k
      BY <2>1, <3>1 DEF MovedDown
    <3> QED
      BY <3>1, <3>2
  <2>3. CASE k \notin lo .. hi
    <3>1. k # hi /\ k \notin lo .. hi - 1
      BY <2>1, <2>3
    <3> QED
      BY <3>1 DEF MovedDown
  <2> QED
    BY <2>2, <2>3
<1> QED
  BY <1>1, <1>2 DEF Range

LEMMA InsertEnds ==
  ASSUME Typed, Course, InsertPut
  PROVE  Typed' /\ Ended'
<1>1. /\ job.f = "insert" /\ InRange /\ Place <= Behind
      /\ job.append \/ (job.pos \in 1 .. job.len + 1 /\ job.n < job.pos)
  BY JobFacts DEF InsertPut, Running, InsertOutside, InRange, Place, Behind
<1>2. /\ Wrote(tabs, tabs', 1, Place, job.value) /\ answer' = Values(<<>>) /\ job' = job
      /\ before' = before
  BY DEF InsertPut, PutAndEnd, Put, Wrote, Place, Behind
<1>3. Place \in Keys /\ Place .. Behind \subseteq Keys
  <2>1. CASE job.append
    <3>1. Behind \in Keys /\ Place = Behind
      BY <1>1, <2>1, JobFacts DEF Touched, Place, Behind
    <3> QED
      BY <3>1, JobFacts
  <2>2. CASE ~job.append
    BY <1>1, <2>2, JobFacts DEF Touched, Place, Behind
  <2> QED
    BY <2>1, <2>2
<1>4. tabs[2] = before[2] /\ \A k \in Keys : k # Place =>
        tabs[1][k] = IF k \in Place + 1 .. Behind THEN before[1][k - 1] ELSE before[1][k]
  <2>1. CASE job.append
    <3>1. tabs = before /\ Place = Behind
      BY <1>1, <2>1 DEF Course, Place
    <3>2. \A k \in Int : k \notin Place + 1 .. Behind
      BY <3>1, JobFacts
    <3> QED
      BY <3>1, <3>2, JobFacts
  <2>2. CASE ~job.append
    <3>1. /\ job.n \in job.pos - 1 .. job.len /\ tabs[2] = before[2]
          /\ Shifted(tabs, before, 1, job.n + 2, job.len + 1, 1, -1)
      BY <1>1, <2>2 DEF Course, InsertCourse
    <3>2. job.n + 2 = Place + 1 /\ job.len + 1 = Behind
      BY <1>1, <2>2, <3>1, JobFacts DEF Place, Behind
    <3>3. Shifted(tabs, before, 1, Place + 1, Behind, 1, -1)
      BY <3>1, <3>2
    <3>4. \A k \in Keys : tabs[1][k] = IF k \in Place + 1 .. Behind THEN before[1][k + (-1)] ELSE before[1][k]
      BY <3>3 DEF Shifted
    <3>5. \A k \in Keys : k + (-1) = k - 1
      BY JobFacts
    <3> QED
      BY <3>1, <3>4, <3>5
  <2> QED
    BY <2>1, <2>2
<1>5. TwoTables(tabs') /\ tabs'[2] = before'[2]
      /\ \A k \in Keys : tabs'[1][k] = IF k = Place THEN job.value ELSE tabs[1][k]
  <2>1. 1 \in 1 .. 2 /\ TwoTables(tabs)
    BY JobFacts
  <2>2. /\ TwoTables(tabs') /\ OthersStay(tabs, tabs', 1)
        /\ NowReads(tabs, tabs', 1, Place, job.value)
    BY <1>2, <1>3, <2>1, PutFacts
  <2> QED
    BY <1>2, <1>4, <2>2 DEF OthersStay, NowReads
<1>6. \A k \in Keys : tabs'[1][k] = Inserted(Place)[k]
  <2> TAKE k \in Keys
  <2>1. Inserted(Place)[k] =
          CASE k = Place -> job.value
            [] k \in Place + 1 .. Behind -> before[1][k - 1]
            [] OTHER -> before[1][k]
    BY DEF Inserted, Was
  <2>2. CASE k = Place
    <3>1. k \notin Place + 1 .. Behind
      BY <2>2, JobFacts
    <3> QED
      BY <1>5, <2>1, <2>2, <3>1
  <2>3. CASE k # Place
    BY <1>4, <1>5, <2>1, <2>3
  <2> QED
    BY <2>2, <2>3
<1>7. tabs' = [before EXCEPT ![1] = Inserted(Place)]
  <2>1. Inserted(Place) = [k \in Keys |-> Inserted(Place)[k]]
    BY DEF Inserted
  <2>2. PICK f : f = Inserted(Place)
    OBVIOUS
  <2>3. f = [k \in Keys |-> f[k]] /\ \A k \in Keys : tabs'[1][k] = f[k]
    BY <1>6, <2>1, <2>2
  <2>4. TwoTables(before) /\ tabs'[2] = before[2]
    BY <1>2, <1>5, JobFacts
  <2>5. tabs' = [before EXCEPT ![1] = f]
    BY <1>5, <2>3, <2>4, NowIs
  <2> QED
    BY <2>2, <2>5
<1>8. Typed' /\ SameCall
  BY <1>2, <1>5, EndTyped
<1>9. TableAnswer'
  <2>1. Inserted(Place)' = Inserted(Place)
    BY <1>2, SameFacts, <1>8 DEF Inserted, Was
  <2>2. NowHolds(Inserted(Place))'
    BY <1>2, <1>7, <2>1 DEF NowHolds
  <2>3. InRange' /\ job'.f = "insert" /\ answer' = Values(<<>>)
    BY <1>1, <1>2, <1>8, SameFacts
  <2> QED
    BY <2>2, <2>3 DEF TableAnswer
<1>10. NothingLost'
  <2>1. SUFFICES ASSUME before[1][Behind] = Nil
                 PROVE  Range(before[1]) \ {Nil} \subseteq Range(tabs'[1])
    <3>1. Behind' = Behind
      BY <1>8, SameFacts
    <3> QED
      BY <1>1, <1>2, <3>1 DEF NothingLost, Was, Kept
  <2>2. PICK lo \in Int : lo = Place + 1
    BY JobFacts
  <2>3. PICK hi \in Int : hi = Behind
    BY JobFacts
  <2>4. lo <= hi + 1 /\ lo .. hi \subseteq Keys /\ before[1][hi] = Nil
    BY <1>1, <1>3, <2>1, <2>2, <2>3, JobFacts
  <2>5. MovedUp(tabs', before, lo, hi)
    <3>1. lo - 1 = Place
      BY <2>2, JobFacts
    <3> QED
      BY <1>4, <1>5, <2>2, <2>3, <3>1 DEF MovedUp
  <2> QED
    <3>1. TwoTables(before)
      BY JobFacts
    <3> QED
      BY <1>5, <2>4, <2>5, <3>1, InsertKeeps
<1> QED
  BY <1>2, <1>8, <1>9, <1>10, Answers DEF Ended

(* move's loop has not yet written where it still has to read: upwards it writes   *)
(* behind what it reads, or outside; downwards, where the target overlaps from       *)
(* above, before it.                                                             *)
LEMMA MoveLeavesRest ==
  ASSUME Typed, MoveCourse, job.f = "move", Movable
  PROVE  \A k \in Remaining : tabs[1][k] = before[1][k]
<1> TAKE k \in Remaining
<1>1. /\ job.n \in Nat /\ MoveCount = job.to - job.from + 1
      /\ k \in Int /\ k >= job.from /\ k <= job.to
      /\ Downwards => k <= job.to - job.n
      /\ ~Downwards => k >= job.from + job.n
  BY JobFacts DEF MoveCourse, Remaining, MoveCount
<1>5. k \in Keys
  <2>1. job.from .. job.to \subseteq Keys
    BY JobFacts, MovableIs DEF Touched
  <2> QED
    BY <1>1, <2>1, JobFacts
<1>2. CASE job.target # 1
  BY <1>2, JobFacts DEF MoveCourse
<1>3. CASE job.target = 1 /\ Downwards
  <2>1. Shifted(tabs, before, 1, job.at + MoveCount - job.n, job.at + MoveCount - 1, 1, job.from - job.at)
    BY <1>3 DEF MoveCourse
  <2>2. k \notin job.at + MoveCount - job.n .. job.at + MoveCount - 1
    <3>1. job.at > job.from
      BY <1>3 DEF Downwards
    <3> QED
      BY <1>1, <1>3, <3>1, JobFacts
  <2> QED
    BY <1>5, <2>1, <2>2 DEF Shifted
<1>4. CASE job.target = 1 /\ ~Downwards
  <2>1. Shifted(tabs, before, 1, job.at, job.at + job.n - 1, 1, job.from - job.at)
    BY <1>4 DEF MoveCourse
  <2>2. k \notin job.at .. job.at + job.n - 1
    <3>1. job.at <= job.from \/ job.at > job.to
      BY <1>4, JobFacts DEF Downwards
    <3> QED
      BY <1>1, <1>4, <3>1, JobFacts
  <2> QED
    BY <1>5, <2>1, <2>2 DEF Shifted
<1> QED
  BY <1>2, <1>3, <1>4

(* On the way nothing is lost.                                                *)
LEMMA CourseKeeps ==
  ASSUME Typed, Course
  PROVE  NothingLost
<1>1. CASE job.f = "insert"
  <2> SUFFICES ASSUME InRange, before[1][Behind] = Nil
               PROVE  Range(before[1]) \ {Nil} \subseteq Range(tabs[1])
    BY <1>1 DEF NothingLost, Was, Kept
  <2>1. CASE job.append
    BY <1>1, <2>1 DEF Course
  <2>2. CASE ~job.append
    <3>1. /\ job.n \in job.pos - 1 .. job.len
          /\ Shifted(tabs, before, 1, job.n + 2, job.len + 1, 1, -1)
      BY <1>1, <2>2 DEF Course, InsertCourse
    <3>2. PICK lo \in Int : lo = job.n + 2
      BY JobFacts
    <3>3. PICK hi \in Int : hi = job.len + 1
      BY JobFacts
    <3>4. lo <= hi + 1 /\ lo .. hi \subseteq Keys /\ before[1][hi] = Nil
      <4>1. job.pos .. job.len + 1 \subseteq Keys
        BY <1>1, <2>2, JobFacts DEF Touched
      <4>2. hi = Behind
        BY <2>2, <3>3 DEF Behind
      <4> QED
        BY <3>1, <3>2, <3>3, <4>1, <4>2, JobFacts
    <3>5. MovedUp(tabs, before, lo, hi)
      <4>1. \A k \in Keys : tabs[1][k] = IF k \in lo .. hi THEN before[1][k + (-1)] ELSE before[1][k]
        BY <3>1, <3>2, <3>3 DEF Shifted
      <4>2. \A k \in Keys : k + (-1) = k - 1
        BY JobFacts
      <4> QED
        BY <4>1, <4>2 DEF MovedUp
    <3>6. TwoTables(before) /\ TwoTables(tabs)
      BY JobFacts
    <3> QED
      BY <3>4, <3>5, <3>6, InsertKeeps
  <2> QED
    BY <2>1, <2>2
<1>2. CASE job.f = "remove"
  <2> SUFFICES ASSUME Pos \in 1 .. job.len
               PROVE  Range(before[1]) \ {Nil, before[1][Pos]} \subseteq Range(tabs[1])
    BY <1>2 DEF NothingLost, Was, Kept
  <2>1. job.n \in Pos .. job.len /\ Shifted(tabs, before, 1, Pos, job.n - 1, 1, 1)
    BY <1>2 DEF Course, RemoveCourse
  <2>2. PICK lo \in Int : lo = Pos
    BY JobFacts
  <2>3. PICK hi \in Int : hi = job.n
    BY JobFacts
  <2>4. lo <= hi /\ lo .. hi \subseteq Keys
    <3>1. 1 .. job.len \subseteq Keys
      BY <1>2, JobFacts DEF Touched
    <3> QED
      BY <2>1, <2>2, <2>3, <3>1, JobFacts
  <2>5. MovedDown(tabs, before, lo, hi)
    BY <2>1, <2>2, <2>3 DEF Shifted, MovedDown
  <2>6. TwoTables(before) /\ TwoTables(tabs)
    BY JobFacts
  <2> QED
    BY <2>2, <2>4, <2>5, <2>6, RemoveKeeps
<1>3. CASE job.f = "move"
  <2>1. CASE Movable
    BY <1>3, <2>1, MoveLeavesRest DEF NothingLost, Course, Was
  <2> QED
    BY <1>3, <2>1 DEF NothingLost
<1> QED
  BY <1>1, <1>2, <1>3 DEF NothingLost

(* A step that leaves tables and call alone keeps all that is said of them.        *)
LEMMA StayedKept ==
  ASSUME tabs' = tabs, job' = job, before' = before
  PROVE  /\ Typed => Typed'
         /\ Course => Course'
         /\ NothingLost => NothingLost'
<1>1. Typed => Typed'
  BY DEF Typed, TwoTables, IsJob, Touched, MoveOutside, MoveCount
<1>2. NothingLost => NothingLost'
  BY DEF NothingLost, InRange, Was, Kept, Range, Pos, Behind, Remaining, Downwards, Movable
<1>3. Course => Course'
  <2>1. /\ (InRange' <=> InRange) /\ (Downwards' <=> Downwards) /\ Pos' = Pos /\ MoveCount' = MoveCount
        /\ (Movable' <=> Movable)
    BY DEF InRange, Downwards, Pos, MoveCount, Movable
  <2>2. InsertCourse => InsertCourse'
    BY DEF InsertCourse, Shifted
  <2>3. RemoveCourse => RemoveCourse'
    BY <2>1 DEF RemoveCourse, Shifted
  <2>4. MoveCourse => MoveCourse'
    BY <2>1 DEF MoveCourse, Shifted
  <2>5. SortCourse => SortCourse'
    BY DEF SortCourse
  <2> QED
    BY <2>1, <2>2, <2>3, <2>4, <2>5 DEF Course
<1> QED
  BY <1>1, <1>2, <1>3

(* A call that ends without writing.                                           *)
LEMMA EndsUnwritten ==
  ASSUME Typed, Course, End(answer'), answer' # NoAnswer, TableAnswer'
  PROVE  Typed' /\ Ended'
<1>1. tabs' = tabs /\ job' = job /\ before' = before
  BY DEF End
<1> QED
  BY <1>1, CourseKeeps, StayedKept DEF Ended

(* A metamethod raises: the call is left where it was.                            *)
LEMMA Raises ==
  ASSUME Typed, Course, AccessRaises
  PROVE  Typed' /\ Course' /\ Goes'
<1>1. tabs' = tabs /\ job' = job /\ before' = before /\ answer' = Raised /\ job.throws
  BY DEF AccessRaises, RaiseError, End
<1>2. Typed' /\ Course'
  BY <1>1, StayedKept
<1> QED
  BY <1>1, <1>2 DEF Goes

(* The ends of insert and remove outside the list.                                *)
LEMMA InsertRefuses ==
  ASSUME Typed, Course, InsertRefuse
  PROVE  Typed' /\ Ended'
<1>1. /\ job.f = "insert" /\ ~InRange /\ tabs' = tabs /\ job' = job /\ before' = before
      /\ answer' = Raised
  BY JobFacts DEF InsertRefuse, Running, InsertOutside, InRange, RaiseError, End
<1>2. tabs = before
  BY <1>1 DEF Course
<1>3. InRange' <=> InRange
  BY <1>1 DEF InRange
<1>4. Refused'
  BY <1>1, <1>2 DEF Refused
<1>5. TableAnswer'
  BY <1>1, <1>3, <1>4 DEF TableAnswer, RemoveAnswer, NowHolds, Refused
<1> QED
  BY <1>1, <1>5, Answers, EndsUnwritten DEF InsertRefuse, RaiseError, End

(* The refusals of move and sort.                                                 *)
LEMMA MoveRefuses ==
  ASSUME Typed, Course, MoveRefuse
  PROVE  Typed' /\ Ended'
<1>1. /\ job.f = "move" /\ ~Movable /\ tabs' = tabs /\ job' = job /\ before' = before
      /\ answer' = Raised
  BY MovableIs DEF MoveRefuse, Running, RaiseError, End
<1>2. tabs = before
  BY <1>1 DEF Course
<1>3. Movable' <=> Movable
  BY <1>1 DEF Movable
<1>4. Refused'
  BY <1>1, <1>2 DEF Refused
<1>5. TableAnswer'
  BY <1>1, <1>3, <1>4 DEF TableAnswer
<1> QED
  BY <1>1, <1>5, Answers, EndsUnwritten DEF MoveRefuse, RaiseError, End

LEMMA SortRefuses ==
  ASSUME Typed, Course, SortRefuse
  PROVE  Typed' /\ Ended'
<1>1. /\ job.f = "sort" /\ job.len > MaxSorted /\ tabs' = tabs /\ job' = job /\ before' = before
      /\ answer' = Raised
  BY DEF SortRefuse, Running, RaiseError, End
<1>2. tabs = before
  <2>1. ~(job.len <= MaxSorted)
    BY <1>1, JobFacts, TableLibAssumption
  <2> QED
    BY <1>1, <2>1 DEF Course, SortCourse
<1>3. Refused'
  BY <1>1, <1>2 DEF Refused
<1>4. TableAnswer'
  BY <1>1, <1>3 DEF TableAnswer
<1> QED
  BY <1>1, <1>4, Answers, EndsUnwritten DEF SortRefuse, RaiseError, End

LEMMA RemoveOutsideEnds ==
  ASSUME Typed, Course, RemoveOutside
  PROVE  Typed' /\ Ended'
<1>1. /\ job.f = "remove" /\ ~(job.last /\ job.len = 0) /\ ~(Pos \in 1 .. job.len)
      /\ tabs' = tabs /\ job' = job /\ before' = before
  BY JobFacts DEF RemoveOutside, Running, RemovePos, Pos, RaiseError, End
<1>2. answer' = IF Pos = job.len + 1 \/ (Pos = 0 /\ job.len = 0) THEN Values(<<Nil>>) ELSE Raised
  BY DEF RemoveOutside, RemovePos, RemoveNothing, Pos, RaiseError, End
<1>3. tabs = before
  BY <1>1 DEF Course
<1>4. Pos' = Pos
  BY <1>1 DEF Pos
<1>5. TableAnswer'
  <2>1. job'.f = "remove" /\ ~(Pos' \in 1 .. job'.len) /\ ~(job'.last /\ job'.len = 0) /\ tabs' = before'
    BY <1>1, <1>3, <1>4
  <2>2. CASE Pos = job.len + 1 \/ (Pos = 0 /\ job.len = 0)
    <3>1. ~job'.last
      BY <1>1, <2>2, JobFacts DEF Pos
    <3>2. answer' = Values(<<Nil>>) /\ (Pos' = job'.len + 1 \/ (Pos' = 0 /\ job'.len = 0))
      BY <1>1, <1>2, <1>4, <2>2
    <3>3. RemoveAnswer'
      BY <2>1, <3>1, <3>2 DEF RemoveAnswer, Refused, NowHolds, Values
    <3> QED
      BY <2>1, <3>3 DEF TableAnswer
  <2>3. CASE ~(Pos = job.len + 1 \/ (Pos = 0 /\ job.len = 0))
    <3>1. ~(Pos' = job'.len + 1 \/ (Pos' = 0 /\ job'.len = 0)) /\ answer' = Raised
      BY <1>1, <1>2, <1>4, <2>3
    <3>2. RemoveAnswer'
      BY <2>1, <3>1 DEF RemoveAnswer, Refused
    <3> QED
      BY <2>1, <3>2 DEF TableAnswer
  <2> QED
    BY <2>2, <2>3
<1>6. End(answer')
  BY <1>1 DEF End
<1> QED
  BY <1>2, <1>5, <1>6, Answers, EndsUnwritten

LEMMA RemoveZeroEnds ==
  ASSUME Typed, Course, RemoveZero
  PROVE  Typed' /\ Ended'
<1>1. /\ job.f = "remove" /\ job.last /\ job.len = 0 /\ Pos = 0
      /\ Wrote(tabs, tabs', 1, 0, Nil) /\ job' = job /\ before' = before
      /\ answer' = Values(<<tabs[1][0]>>)
  BY DEF RemoveZero, Running, PutAndEnd, Put, Get, Wrote, Pos
<1>2. ~(Pos \in 1 .. job.len) /\ tabs = before
  BY <1>1 DEF Course
<1>3. 0 \in Keys
  BY <1>1, JobFacts DEF Touched
<1>4. TwoTables(tabs') /\ tabs' = [before EXCEPT ![1] = [before[1] EXCEPT ![0] = Nil]]
  <2>1. 1 \in 1 .. 2 /\ TwoTables(tabs)
    BY JobFacts
  <2>2. TwoTables(tabs')
    BY <1>1, <1>3, <2>1, PutFacts
  <2>3. tabs' = [before EXCEPT ![1] = [before[1] EXCEPT ![0] = Nil]]
    BY <1>1, <1>2 DEF Wrote
  <2> QED
    BY <2>2, <2>3
<1>5. Typed' /\ SameCall
  BY <1>1, <1>4, EndTyped
<1>6. Pos' = Pos
  BY <1>5, SameFacts
<1>7. TableAnswer'
  BY <1>1, <1>2, <1>4, <1>6 DEF TableAnswer, RemoveAnswer, NowHolds, Was, Refused
<1>8. NothingLost'
  BY <1>1, <1>2, <1>6 DEF NothingLost
<1> QED
  BY <1>1, <1>5, <1>7, <1>8, Answers DEF Ended

(* remove: the end, and a round.                                                 *)
LEMMA RemoveEnds ==
  ASSUME Typed, Course, RemoveEnd
  PROVE  Typed' /\ Ended'
<1>1. /\ job.f = "remove" /\ Pos \in 1 .. job.len /\ job.n >= job.len
      /\ Wrote(tabs, tabs', 1, job.len, Nil) /\ job' = job /\ before' = before
      /\ answer' = Values(<<before[1][Pos]>>)
  BY DEF RemoveEnd, Removing, Running, PutAndEnd, Put, Wrote, Pos, RemovePos
<1>2. job.n \in Pos .. job.len /\ tabs[2] = before[2] /\ Shifted(tabs, before, 1, Pos, job.n - 1, 1, 1)
  BY <1>1 DEF Course, RemoveCourse
<1>3. 1 .. job.len \subseteq Keys
  BY <1>1, JobFacts DEF Touched
<1>4. \A k \in Keys : tabs[1][k] = IF k \in Pos .. job.len - 1 THEN before[1][k + 1] ELSE before[1][k]
  <2>1. job.n = job.len
    BY <1>1, <1>2, JobFacts
  <2> QED
    BY <1>2, <2>1 DEF Shifted
<1>5. /\ TwoTables(tabs') /\ tabs'[2] = before[2]
      /\ \A k \in Keys : tabs'[1][k] = IF k = job.len THEN Nil ELSE tabs[1][k]
  <2>1. 1 \in 1 .. 2 /\ TwoTables(tabs) /\ job.len \in Keys
    BY <1>1, <1>3, JobFacts
  <2>2. /\ TwoTables(tabs') /\ OthersStay(tabs, tabs', 1)
        /\ NowReads(tabs, tabs', 1, job.len, Nil)
    BY <1>1, <2>1, PutFacts
  <2> QED
    BY <1>2, <2>2 DEF OthersStay, NowReads
<1>6. \A k \in Keys : tabs'[1][k] = Removed(Pos)[k]
  <2> TAKE k \in Keys
  <2>1. Removed(Pos)[k] =
          CASE k \in Pos .. job.len - 1 -> before[1][k + 1]
            [] k = job.len -> Nil
            [] OTHER -> before[1][k]
    BY DEF Removed, Was
  <2>2. CASE k = job.len
    <3>1. k \notin Pos .. job.len - 1
      BY <2>2, JobFacts
    <3> QED
      BY <1>5, <2>1, <2>2, <3>1
  <2>3. CASE k # job.len
    BY <1>4, <1>5, <2>1, <2>3
  <2> QED
    BY <2>2, <2>3
<1>7. tabs' = [before EXCEPT ![1] = Removed(Pos)]
  <2>1. Removed(Pos) = [k \in Keys |-> Removed(Pos)[k]]
    BY DEF Removed
  <2>2. PICK f : f = Removed(Pos)
    OBVIOUS
  <2>3. f = [k \in Keys |-> f[k]] /\ \A k \in Keys : tabs'[1][k] = f[k]
    BY <1>6, <2>1, <2>2
  <2>4. TwoTables(before)
    BY JobFacts
  <2>5. tabs' = [before EXCEPT ![1] = f]
    BY <1>5, <2>3, <2>4, NowIs
  <2> QED
    BY <2>2, <2>5
<1>8. Typed' /\ SameCall
  BY <1>1, <1>5, EndTyped
<1>9. Pos' = Pos
  BY <1>8, SameFacts
<1>10. TableAnswer'
  <2>1. Removed(Pos)' = Removed(Pos)
    BY <1>1, <1>9 DEF Removed, Was
  <2>2. NowHolds(Removed(Pos))'
    BY <1>1, <1>7, <2>1 DEF NowHolds
  <2>3. answer' = Values(<<Was(1, Pos)>>)'
    BY <1>1, <1>9 DEF Was, Values
  <2> QED
    <3>1. job'.f = "remove" /\ Pos' \in 1 .. job'.len
      BY <1>1, <1>9
    <3>2. job'.len # 0 /\ Pos' # job'.len + 1
      BY <1>1, <1>9, JobFacts
    <3>3. RemoveAnswer'
      BY <2>2, <2>3, <3>1, <3>2 DEF RemoveAnswer, NowHolds, Refused
    <3> QED
      BY <3>1, <3>3 DEF TableAnswer
<1>11. NothingLost'
  <2>1. PICK lo \in Int : lo = Pos
    BY JobFacts
  <2>2. PICK hi \in Int : hi = job.len
    BY JobFacts
  <2>3. lo <= hi /\ lo .. hi \subseteq Keys
    BY <1>1, <1>3, <2>1, <2>2
  <2>4. MovedDown(tabs', before, lo, hi)
    BY <1>4, <1>5, <2>1, <2>2 DEF MovedDown
  <2>5. TwoTables(before)
    BY JobFacts
  <2>6. Range(before[1]) \ {Nil, before[1][Pos]} \subseteq Range(tabs'[1])
    BY <1>5, <2>1, <2>3, <2>4, <2>5, RemoveKeeps
  <2>7. Kept({Nil, Was(1, Pos)})'
    BY <1>1, <1>9, <2>6 DEF Kept, Was
  <2> QED
    BY <1>1, <2>7 DEF NothingLost
<1> QED
  BY <1>1, <1>8, <1>10, <1>11, Answers DEF Ended

(* A round of a call leaves it typed.                                          *)
LEMMA Rounds ==
  ASSUME Typed, NEW t \in 1 .. 2, NEW key \in Keys, NEW value, NEW n \in Int,
         Wrote(tabs, tabs', t, key, value), job' = [job EXCEPT !.n = n], before' = before
  PROVE  /\ Typed' /\ SameCall /\ job'.n = n /\ job'.list = job.list
         /\ OthersStay(tabs, tabs', t)
<1>1. SameCall /\ IsJob' /\ job'.n = n /\ job'.list = job.list
  BY JobFacts, TurnFacts
<1>2. TwoTables(tabs') /\ OthersStay(tabs, tabs', t)
  BY JobFacts, PutFacts
<1> QED
  BY <1>1, <1>2, TypedNext

LEMMA RemoveShifts ==
  ASSUME Typed, Course, RemoveShift
  PROVE  Typed' /\ Course' /\ answer' = answer /\ before' = before
<1>1. /\ job.f = "remove" /\ Pos \in 1 .. job.len /\ job.n < job.len
      /\ Wrote(tabs, tabs', 1, job.n, tabs[1][job.n + 1]) /\ job' = [job EXCEPT !.n = job.n + 1]
      /\ answer' = answer /\ before' = before
  BY DEF RemoveShift, Removing, Running, Put, Get, Turn, Wrote, Pos, RemovePos
<1>2. job.n \in Pos .. job.len /\ tabs[2] = before[2] /\ Shifted(tabs, before, 1, Pos, job.n - 1, 1, 1)
  BY <1>1 DEF Course, RemoveCourse
<1>3. job.n \in Keys /\ job.n + 1 \in Keys
  <2>1. 1 .. job.len \subseteq Keys
    BY <1>1, JobFacts DEF Touched
  <2>2. job.n \in 1 .. job.len /\ job.n + 1 \in 1 .. job.len
    BY <1>1, <1>2, JobFacts
  <2> QED
    BY <2>1, <2>2
<1>4. tabs[1][job.n + 1] = before[1][job.n + 1]
  <2>1. job.n + 1 \notin Pos .. job.n - 1
    BY JobFacts
  <2> QED
    BY <1>2, <1>3, <2>1 DEF Shifted
<1>5. PICK lo \in Int : lo = Pos
  BY JobFacts
<1>6. PICK hi \in Int : hi = job.n - 1
  BY JobFacts
<1>7. PICK d \in Int : d = 1
  OBVIOUS
<1>8. Shifted(tabs', before, 1, lo, hi + 1, 1, d)
  <2>1. hi + 1 = job.n /\ hi + 1 + d = job.n + 1
    BY <1>6, <1>7, JobFacts
  <2>2. Wrote(tabs, tabs', 1, hi + 1, before[1][hi + 1 + d])
    BY <1>1, <1>4, <2>1
  <2>3. lo <= hi + 1 /\ hi + 1 \in Keys /\ Shifted(tabs, before, 1, lo, hi, 1, d)
    BY <1>2, <1>3, <1>5, <1>6, <1>7, <2>1, JobFacts
  <2>4. 1 \in 1 .. 2 /\ TwoTables(tabs)
    BY JobFacts
  <2> QED
    BY <2>2, <2>3, <2>4, ShiftUp
<1>9. Typed' /\ SameCall /\ job'.n = job.n + 1 /\ tabs'[2] = tabs[2]
  <2>1. PICK n \in Int : n = job.n + 1
    BY JobFacts
  <2>2. PICK value : value = tabs[1][job.n + 1]
    OBVIOUS
  <2>3. Wrote(tabs, tabs', 1, job.n, value) /\ job' = [job EXCEPT !.n = n] /\ 1 \in 1 .. 2
    BY <1>1, <2>1, <2>2
  <2>4. Typed' /\ SameCall /\ job'.n = n /\ OthersStay(tabs, tabs', 1)
    BY <1>1, <1>3, <2>3, Rounds
  <2> QED
    BY <2>1, <2>4 DEF OthersStay
<1>10. RemoveCourse'
  <2>1. Pos' = Pos /\ hi + 1 = job'.n - 1 /\ job'.len = job.len
    BY <1>6, <1>9, SameFacts, JobFacts DEF SameCall
  <2>2. job'.n \in Pos' .. job'.len /\ tabs'[2] = before'[2]
    BY <1>1, <1>2, <1>9, <2>1, JobFacts
  <2>3. Shifted(tabs', before', 1, Pos', job'.n - 1, 1, 1)
    BY <1>1, <1>5, <1>7, <1>8, <2>1
  <2> QED
    BY <2>2, <2>3 DEF RemoveCourse
<1>11. Course'
  BY <1>1, <1>9, <1>10, SameFacts DEF Course, SameCall
<1> QED
  BY <1>1, <1>9, <1>11

(* move: a round, and the end.                                                    *)
LEMMA MoveShifts ==
  ASSUME Typed, Course, MoveShift
  PROVE  Typed' /\ Course' /\ answer' = answer /\ before' = before
<1> DEFINE k == job.at + MoveOffset(job.n)
           source == job.from + MoveOffset(job.n)
<1>1. /\ job.f = "move" /\ Movable /\ job.n < MoveCount
      /\ Wrote(tabs, tabs', job.target, k, tabs[1][source]) /\ job' = [job EXCEPT !.n = job.n + 1]
      /\ answer' = answer /\ before' = before
  BY MovableIs DEF MoveShift, Running, Put, Get, Turn, Wrote
<1>2. /\ MoveCourse /\ job.n \in Nat /\ MoveCount = job.to - job.from + 1
      /\ \A t \in 1 .. 2 : t # job.target => tabs[t] = before[t]
  BY <1>1 DEF Course, MoveCourse, MoveCount
<1>3. MoveOffset(job.n) \in 0 .. MoveCount - 1
  BY <1>1, <1>2, JobFacts DEF MoveOffset
<1>4. k \in Keys /\ k \in Int /\ source \in Int
  <2>1. job.at .. job.at + job.to - job.from \subseteq Keys
    BY <1>1, JobFacts, MovableIs DEF Touched
  <2>2. k \in job.at .. job.at + job.to - job.from
    BY <1>2, <1>3, JobFacts
  <2> QED
    BY <1>3, <2>1, <2>2, JobFacts
<1>5. tabs[1][source] = before[1][source]
  <2>1. source \in Remaining
    <3>1. CASE Downwards
      <4>1. source = job.to - job.n
        BY <1>2, <3>1, JobFacts DEF MoveOffset
      <4> QED
        BY <1>1, <1>2, <3>1, <4>1, JobFacts DEF Remaining
    <3>2. CASE ~Downwards
      <4>1. source = job.from + job.n
        BY <3>2 DEF MoveOffset
      <4> QED
        BY <1>1, <1>2, <3>2, <4>1, JobFacts DEF Remaining
    <3> QED
      BY <3>1, <3>2
  <2> QED
    BY <1>1, <1>2, <2>1, MoveLeavesRest
<1>6. Typed' /\ SameCall /\ job'.n = job.n + 1 /\ OthersStay(tabs, tabs', job.target)
  <2>1. PICK n \in Int : n = job.n + 1
    BY JobFacts
  <2>2. PICK value : value = tabs[1][source]
    OBVIOUS
  <2>3. PICK key \in Keys : key = k
    BY <1>4
  <2>4. Wrote(tabs, tabs', job.target, key, value) /\ job' = [job EXCEPT !.n = n] /\ job.target \in 1 .. 2
    BY <1>1, <2>1, <2>2, <2>3, JobFacts
  <2>5. Typed' /\ SameCall /\ job'.n = n /\ OthersStay(tabs, tabs', job.target)
    BY <1>1, <2>3, <2>4, Rounds
  <2> QED
    BY <2>1, <2>5
<1>7. PICK d \in Int : d = job.from - job.at
  BY JobFacts
<1>8. k + d = source
  BY <1>3, <1>7, JobFacts
<1> HIDE DEF k, source
<1>9. /\ (Downwards' <=> Downwards) /\ (Movable' <=> Movable)
      /\ MoveCount' = MoveCount /\ job'.target = job.target
      /\ job'.at = job.at /\ job'.from = job.from /\ job'.f = job.f
  BY <1>6, SameFacts DEF SameCall
<1>10. job.target \in 1 .. 2 /\ TwoTables(tabs)
  BY JobFacts
<1>11. ASSUME Downwards
       PROVE  Shifted(tabs', before', job'.target, job'.at + MoveCount' - job'.n, job'.at + MoveCount' - 1, 1,
                      job'.from - job'.at)
  <2>1. PICK lo \in Int : lo = job.at + MoveCount - job.n
    BY JobFacts
  <2>2. PICK hi \in Int : hi = job.at + MoveCount - 1
    BY JobFacts
  <2>3. k = lo - 1
    BY <1>11, <2>1, JobFacts DEF k, MoveOffset
  <2>4. Wrote(tabs, tabs', job.target, lo - 1, before[1][lo - 1 + d])
    BY <1>1, <1>5, <1>8, <2>3
  <2>5. Shifted(tabs, before, job.target, lo, hi, 1, d)
    BY <1>2, <1>7, <1>11, <2>1, <2>2 DEF MoveCourse
  <2>6. lo <= hi + 1 /\ lo - 1 \in Keys
    BY <1>2, <1>4, <2>1, <2>2, <2>3, JobFacts
  <2>7. Shifted(tabs', before, job.target, lo - 1, hi, 1, d)
    BY <1>10, <2>4, <2>5, <2>6, ShiftDown
  <2>8. lo - 1 = job'.at + MoveCount' - job'.n /\ hi = job'.at + MoveCount' - 1 /\ d = job'.from - job'.at
    BY <1>6, <1>7, <1>9, <2>1, <2>2, JobFacts
  <2> QED
    BY <1>1, <1>9, <2>7, <2>8
<1>12. ASSUME ~Downwards
       PROVE  Shifted(tabs', before', job'.target, job'.at, job'.at + job'.n - 1, 1, job'.from - job'.at)
  <2>1. PICK lo \in Int : lo = job.at
    BY JobFacts
  <2>2. PICK hi \in Int : hi = job.at + job.n - 1
    BY JobFacts
  <2>3. k = hi + 1
    BY <1>12, <2>2, JobFacts DEF k, MoveOffset
  <2>4. Wrote(tabs, tabs', job.target, hi + 1, before[1][hi + 1 + d])
    BY <1>1, <1>5, <1>8, <2>3
  <2>5. Shifted(tabs, before, job.target, lo, hi, 1, d)
    BY <1>2, <1>7, <1>12, <2>1, <2>2 DEF MoveCourse
  <2>6. lo <= hi + 1 /\ hi + 1 \in Keys
    BY <1>2, <1>4, <2>1, <2>2, <2>3, JobFacts
  <2>7. Shifted(tabs', before, job.target, lo, hi + 1, 1, d)
    BY <1>10, <2>4, <2>5, <2>6, ShiftUp
  <2>8. lo = job'.at /\ hi + 1 = job'.at + job'.n - 1 /\ d = job'.from - job'.at
    BY <1>6, <1>7, <1>9, <2>1, <2>2, JobFacts
  <2> QED
    BY <1>1, <1>9, <2>7, <2>8
<1>13. MoveCourse'
  <2>1. job'.n \in Nat /\ job'.n <= MoveCount'
    BY <1>1, <1>2, <1>6, <1>9, JobFacts
  <2>2. \A t \in 1 .. 2 : t # job'.target => tabs'[t] = before'[t]
    BY <1>1, <1>2, <1>6, <1>9 DEF OthersStay
  <2> QED
    BY <1>9, <1>11, <1>12, <2>1, <2>2 DEF MoveCourse
<1> QED
  BY <1>1, <1>6, <1>9, <1>13 DEF Course

(* After the last round the keys written are all there are to write.           *)
LEMMA WholeSpan ==
  ASSUME NEW at \in Int, NEW from \in Int, NEW to \in Int, NEW n \in Nat, NEW count \in Int,
         count = to - from + 1, n >= count, n = 0 \/ n <= count, NEW k \in Int
  PROVE  /\ k \in at + count - n .. at + count - 1 <=> k \in at .. at + to - from
         /\ k \in at .. at + n - 1 <=> k \in at .. at + to - from
<1>1. CASE n = count
  BY <1>1
<1>2. CASE n # count
  <2>1. n = 0 /\ count < 0
    BY <1>2
  <2> QED
    BY <2>1
<1> QED
  BY <1>1, <1>2

LEMMA MoveEnds ==
  ASSUME Typed, Course, MoveEnd
  PROVE  Typed' /\ Ended'
<1>1. /\ job.f = "move" /\ Movable /\ job.n >= MoveCount /\ tabs' = tabs /\ job' = job /\ before' = before
      /\ answer' = Values(<<>>)
  BY MovableIs DEF MoveEnd, Running, End
<1>2. /\ job.n \in Nat /\ (job.n = 0 \/ job.n <= MoveCount) /\ MoveCount = job.to - job.from + 1
      /\ \A t \in 1 .. 2 : t # job.target => tabs[t] = before[t]
      /\ IF Downwards
         THEN Shifted(tabs, before, job.target, job.at + MoveCount - job.n, job.at + MoveCount - 1, 1, job.from - job.at)
         ELSE Shifted(tabs, before, job.target, job.at, job.at + job.n - 1, 1, job.from - job.at)
  BY <1>1 DEF Course, MoveCourse, MoveCount
<1>3. \A k \in Keys : tabs[job.target][k] =
        IF k \in job.at .. job.at + job.to - job.from THEN before[1][k + (job.from - job.at)] ELSE before[job.target][k]
  <2>0. /\ job.at \in Int /\ job.from \in Int /\ job.to \in Int /\ job.n \in Nat /\ MoveCount \in Int
        /\ MoveCount = job.to - job.from + 1 /\ job.n >= MoveCount /\ (job.n = 0 \/ job.n <= MoveCount)
        /\ \A k \in Keys : k \in Int
    BY <1>1, <1>2, JobFacts
  <2>1. \A k \in Keys :
          /\ k \in job.at + MoveCount - job.n .. job.at + MoveCount - 1 <=> k \in job.at .. job.at + job.to - job.from
          /\ k \in job.at .. job.at + job.n - 1 <=> k \in job.at .. job.at + job.to - job.from
    <3> TAKE k \in Keys
    <3>1. PICK count \in Int : count = MoveCount
      BY <2>0
    <3>2. PICK n \in Nat : n = job.n
      BY <2>0
    <3>3. count = job.to - job.from + 1 /\ n >= count /\ (n = 0 \/ n <= count) /\ k \in Int
      BY <2>0, <3>1, <3>2
    <3>4. /\ k \in job.at + count - n .. job.at + count - 1 <=> k \in job.at .. job.at + job.to - job.from
          /\ k \in job.at .. job.at + n - 1 <=> k \in job.at .. job.at + job.to - job.from
      BY <2>0, <3>3, WholeSpan
    <3> QED
      BY <3>1, <3>2, <3>4
  <2>2. CASE Downwards
    BY <1>2, <2>1, <2>2 DEF Shifted
  <2>3. CASE ~Downwards
    BY <1>2, <2>1, <2>3 DEF Shifted
  <2> QED
    BY <2>2, <2>3
<1>4. ASSUME NEW t \in 1 .. 2
      PROVE  tabs[t] = MovedTo(t)
  <2>1. \A k \in Keys : k + (job.from - job.at) = job.from + k - job.at
    BY JobFacts
  <2>2. \A k \in Keys : tabs[t][k] =
          IF t = job.target /\ k \in job.at .. job.at + job.to - job.from THEN Was(1, job.from + k - job.at) ELSE Was(t, k)
    BY <1>2, <1>3, <2>1 DEF Was
  <2>3. tabs[t] = [k \in Keys |-> tabs[t][k]]
    <3>1. TwoTables(tabs)
      BY JobFacts
    <3>2. \A u \in 1 .. 2 : tabs[u] = [k \in Keys |-> tabs[u][k]]
      BY <3>1, TablesAre, Zenon
    <3> QED
      BY <3>2
  <2> QED
    BY <2>2, <2>3 DEF MovedTo
<1>5. \A t \in 1 .. 2 : MovedTo(t)' = MovedTo(t)
  BY <1>1 DEF MovedTo, Was
<1>6. \A t \in 1 .. 2 : tabs'[t] = MovedTo(t)'
  BY <1>1, <1>4, <1>5
<1>7. TableAnswer'
  <2>1. Movable' <=> Movable
    BY <1>1 DEF Movable
  <2> QED
    BY <1>1, <1>6, <2>1 DEF TableAnswer, Values
<1> QED
  BY <1>1, <1>7, Answers, EndsUnwritten DEF End

(* concat, unpack and pack write nothing.                                         *)
LEMMA ReadersEnd ==
  ASSUME Typed, Course, Concat \/ Unpack_ \/ PackValues
  PROVE  Typed' /\ Ended'
<1>1. tabs' = tabs /\ job' = job /\ before' = before /\ End(answer') /\ job.f \in {"concat", "unpack", "pack"}
  BY DEF Concat, Unpack_, PackValues, Running, RaiseError, End
<1>2. tabs = before
  BY <1>1 DEF Course
<1>3. Between(job.from, job.to) = ElementsOf(job.from, job.to) /\ ElementsOf(job.from, job.to)' = ElementsOf(job.from, job.to)
  BY <1>1, <1>2 DEF Between, ElementsOf, Get, Was
<1>4. answer' # NoAnswer /\ TableAnswer'
  <2>1. CASE Concat
    <3>1. ConcatAnswer' = ConcatAnswer
      BY <1>1, <1>3 DEF ConcatAnswer, Range, Values, Raised
    <3>2. answer' = IF \E j \in DOMAIN ElementsOf(job.from, job.to) : ElementsOf(job.from, job.to)[j] \notin job.texts
                    THEN Raised ELSE Values(ElementsOf(job.from, job.to))
      BY <1>3, <2>1 DEF Concat, RaiseError, End
    <3>3. answer' = ConcatAnswer /\ answer' # NoAnswer
      BY <3>2, Answers DEF ConcatAnswer, Range
    <3> QED
      BY <1>1, <1>2, <2>1, <3>1, <3>3 DEF TableAnswer, Concat, Running
  <2>2. CASE Unpack_
    <3>1. UnpackAnswer' = UnpackAnswer
      BY <1>1, <1>3 DEF UnpackAnswer, Values, Raised
    <3>2. answer' = IF job.to - job.from + 1 > MaxResults THEN Raised ELSE Values(ElementsOf(job.from, job.to))
      BY <1>3, <2>2 DEF Unpack_, RaiseError, End
    <3>3. answer' = UnpackAnswer /\ answer' # NoAnswer
      <4>1. job.to - job.from + 1 > MaxResults <=> job.to - job.from >= MaxResults
        BY JobFacts, TableLibAssumption
      <4> QED
        BY <3>2, <4>1, Answers DEF UnpackAnswer
    <3> QED
      BY <1>1, <1>2, <2>2, <3>1, <3>3 DEF TableAnswer, Unpack_, Running
  <2>3. CASE PackValues
    <3>1. answer' = [is |-> "table", list |-> job'.list, n |-> Len(job'.list)] /\ job.f = "pack"
      BY <1>1, <2>3 DEF PackValues, Running, End
    <3>2. answer'.is = "table" /\ NoAnswer.is = "none"
      BY <3>1 DEF NoAnswer
    <3>3. answer' # NoAnswer
      BY <3>2
    <3> QED
      BY <1>1, <1>2, <3>1, <3>3 DEF TableAnswer
  <2> QED
    BY <2>1, <2>2, <2>3
<1> QED
  BY <1>1, <1>4, EndsUnwritten

(* A rearranged list holds each value as often as the list does.                *)
LEMMA SameOccurrences ==
  ASSUME NEW n \in Int, NEW list, DOMAIN list = 1 .. n, NEW elements, DOMAIN elements = 1 .. n,
         NEW p \in Bijection(1 .. n, 1 .. n), \A i \in 1 .. n : list[i] = elements[p[i]], NEW v
  PROVE  Occurrences(list, v) = Occurrences(elements, v)
<1> DEFINE S == {k \in 1 .. n : list[k] = v}
           T == {k \in 1 .. n : elements[k] = v}
           q == [k \in S |-> p[k]]
<1>1. /\ p \in [1 .. n -> 1 .. n]
      /\ \A a, b \in 1 .. n : p[a] = p[b] => a = b
      /\ \A t \in 1 .. n : \E s \in 1 .. n : p[s] = t
  <2>1. DOMAIN p = 1 .. n
    BY DEF Bijection, Injection
  <2> QED
    BY <2>1 DEF Bijection, Injection, Surjection, IsInjective
<1>2. q \in [S -> T]
  <2> SUFFICES ASSUME NEW k \in S
               PROVE  p[k] \in T
    BY Zenon
  <2> QED
    BY <1>1
<1>3. IsInjective(q)
  BY <1>1 DEF IsInjective
<1>4. \A t \in T : \E s \in S : q[s] = t
  <2> TAKE t \in T
  <2>1. PICK s \in 1 .. n : p[s] = t
    BY <1>1
  <2>2. s \in S
    BY <2>1
  <2> QED
    BY <2>1, <2>2
<1>5. ExistsBijection(S, T)
  <2> HIDE DEF S, T, q
  <2> QED
    BY <1>2, <1>3, <1>4, Zenon DEF ExistsBijection, Bijection, Injection, Surjection
<1>6. IsFiniteSet(S)
  <2>1. IsFiniteSet(1 .. n) /\ S \subseteq 1 .. n
    BY FS_Interval
  <2> QED
    BY <2>1, FS_Subset
<1>7. Cardinality(T) = Cardinality(S)
  <2> HIDE DEF S, T
  <2> QED
    BY <1>5, <1>6, FS_Bijection
<1> QED
  BY <1>7 DEF Occurrences

(* What Python's sort makes of the values read.                                 *)
LEMMA OrderIsStrictWeak ==
  ASSUME NEW values, Order(job.less, values)
  PROVE  StrictWeak(values) /\ \A a, b \in values : Less(a, b) => ~Less(b, a)
<1>1. \A a, b \in values : Less(a, b) => ~Less(b, a)
  BY DEF Order, Less
<1>2. \A a, b, c \in values : Less(a, b) => Less(a, c) \/ Less(c, b)
  BY DEF Order, Less
<1>3. \A a \in values : ~Less(a, a)
  BY <1>1
<1>4. \A a, b, c \in values : Less(a, b) /\ Less(b, c) => Less(a, c)
  BY <1>1, <1>2
<1>5. \A a, b, c \in values : ~Less(a, b) /\ ~Less(b, a) /\ ~Less(b, c) /\ ~Less(c, b) => ~Less(a, c)
  BY <1>2
<1> QED
  BY <1>1, <1>3, <1>4, <1>5 DEF StrictWeak

LEMMA SortingsSort ==
  ASSUME NEW n \in Int, NEW bs, NEW values, values = [i \in 1 .. n |-> bs[1][i]],
         NEW list \in Sortings(values)
  PROVE  SortingOf(list, n, bs, job.less)
<1>1. DOMAIN values = 1 .. n /\ \A i \in 1 .. n : values[i] = bs[1][i]
  OBVIOUS
<1>2. PICK p \in Bijection(1 .. n, 1 .. n) :
        /\ list = [i \in 1 .. n |-> values[p[i]]]
        /\ StrictWeak(Range(values)) => \A i, j \in 1 .. n : i < j =>
             Less(values[p[i]], values[p[j]]) \/ ~Less(values[p[j]], values[p[i]])
  <2>1. CASE StrictWeak(Range(values))
    BY <1>1, <2>1 DEF Sortings, Stable
  <2>2. CASE ~StrictWeak(Range(values))
    BY <1>1, <2>2 DEF Sortings, Permutations_
  <2> QED
    BY <2>1, <2>2
<1>3. /\ p \in [1 .. n -> 1 .. n]
      /\ \A t \in 1 .. n : \E s \in 1 .. n : p[s] = t
  BY DEF Bijection, Injection, Surjection
<1>4. list = [i \in 1 .. n |-> bs[1][p[i]]]
  BY <1>1, <1>2, <1>3
<1>5. Range(list) = Range(values)
  <2>1. DOMAIN list = 1 .. n /\ \A i \in 1 .. n : list[i] = values[p[i]]
    BY <1>2
  <2>2. \A i \in 1 .. n : list[i] \in Range(values)
    <3> TAKE i \in 1 .. n
    <3>1. p[i] \in 1 .. n
      BY <1>3
    <3> QED
      BY <1>1, <2>1, <3>1 DEF Range
  <2>3. \A i \in 1 .. n : values[i] \in Range(list)
    <3> TAKE i \in 1 .. n
    <3>1. PICK s \in 1 .. n : p[s] = i
      BY <1>3
    <3>2. list[s] = values[i]
      BY <2>1, <3>1
    <3> QED
      BY <2>1, <3>2 DEF Range
  <2>4. Range(list) \subseteq Range(values)
    <3> SUFFICES ASSUME NEW v \in Range(list)
                 PROVE  v \in Range(values)
      OBVIOUS
    <3>1. PICK i \in DOMAIN list : v = list[i]
      BY DEF Range
    <3> QED
      BY <2>1, <2>2, <3>1
  <2>5. Range(values) \subseteq Range(list)
    <3> SUFFICES ASSUME NEW v \in Range(values)
                 PROVE  v \in Range(list)
      OBVIOUS
    <3>1. PICK i \in DOMAIN values : v = values[i]
      BY DEF Range
    <3> QED
      BY <1>1, <2>3, <3>1
  <2> QED
    BY <2>4, <2>5, Zenon
<1>6. ASSUME Order(job.less, Range(list))
      PROVE  Ordered(job.less, list)
  <2>1. StrictWeak(Range(values)) /\ \A a, b \in Range(values) : Less(a, b) => ~Less(b, a)
    BY <1>5, <1>6, OrderIsStrictWeak
  <2>2. \A i \in 1 .. n : values[p[i]] \in Range(values)
    BY <1>1, <1>3 DEF Range
  <2>3. \A i, j \in 1 .. n : i < j => ~Less(values[p[j]], values[p[i]])
    BY <1>2, <2>1, <2>2
  <2>4. DOMAIN list = 1 .. n /\ \A i \in 1 .. n : list[i] = values[p[i]]
    BY <1>2
  <2> QED
    BY <2>3, <2>4 DEF Ordered, Less
<1> QED
  BY <1>4, <1>6 DEF SortingOf

(* sort: the reading and its refusals, a round of the writing, the end.            *)
LEMMA SortReads ==
  ASSUME Typed, Course, SortRead
  PROVE  Typed' /\ before' = before /\ ((Course' /\ answer' = answer) \/ Ended')
<1>1. job.f = "sort" /\ job.len <= MaxSorted /\ job.n = 0 /\ tabs = before
  BY DEF SortRead, Running, Course
<1> DEFINE values == [i \in 1 .. job.len |-> Get(1, i)]
<1>2. CASE /\ RaiseError
           /\ Nil \in Range(values) \/ (values # <<>> /\ Less(values[1], values[1]))
  <2>1. tabs' = tabs /\ job' = job /\ before' = before /\ answer' = Raised
    BY <1>2 DEF RaiseError, End
  <2>2. values = ElementsOf(1, job.len) /\ values' = values
    <3>1. \A k \in Int : 1 + k - 1 = k
      OBVIOUS
    <3>2. job.len - 1 + 1 = job.len
      BY JobFacts
    <3> QED
      BY <1>1, <2>1, <3>1, <3>2 DEF ElementsOf, Was, Get
  <2>3. ~Sortable
    <3>1. CASE Nil \in Range(values)
      BY <2>2, <3>1 DEF Sortable
    <3>2. CASE values # <<>> /\ Less(values[1], values[1])
      <4>1. 1 \in DOMAIN values
        <5>1. job.len \in Int /\ DOMAIN values = 1 .. job.len
          BY JobFacts
        <5>2. 1 .. job.len # {}
          BY <3>2, <5>1
        <5> QED
          BY <5>1, <5>2
      <4>2. values[1] \in Range(values)
        BY <4>1 DEF Range
      <4>3. ~Order(job.less, Range(values))
        <5>1. PICK v : v = values[1]
          OBVIOUS
        <5>2. v \in Range(values) /\ <<v, v>> \in job.less
          BY <3>2, <4>2, <5>1 DEF Less
        <5> HIDE DEF values
        <5> QED
          BY <5>2 DEF Order
      <4> QED
        BY <2>2, <4>3 DEF Sortable
    <3> QED
      BY <1>2, <3>1, <3>2
  <2>4. Sortable' <=> Sortable
    BY <2>1 DEF Sortable, ElementsOf, Was
  <2>5. TableAnswer'
    BY <1>1, <2>1, <2>3, <2>4 DEF TableAnswer, Refused
  <2> QED
    BY <2>1, <2>5, Answers, EndsUnwritten DEF End
<1>3. ASSUME NEW list \in Sortings([i \in 1 .. job.len |-> Get(1, i)]),
             job' = [job EXCEPT !.n = 1, !.list = list], UNCHANGED <<tabs, answer, before>>
      PROVE  Typed' /\ Course'
  <2>1. tabs' = tabs /\ before' = before /\ answer' = answer
    BY <1>3
  <2>2. SameCall /\ IsJob' /\ job'.n = 1 /\ job'.list = list
    <3>1. SameCall /\ job'.n = 1 /\ job'.list = list
      BY <1>3, JobFacts DEF SameCall, IsJob
    <3>2. job' = [f |-> job'.f, len |-> job'.len, throws |-> job'.throws, n |-> job'.n, append |-> job'.append,
                  last |-> job'.last, pos |-> job'.pos, value |-> job'.value, from |-> job'.from, to |-> job'.to,
                  at |-> job'.at, target |-> job'.target, list |-> job'.list, less |-> job'.less, texts |-> job'.texts]
      BY <1>3, JobFacts DEF IsJob
    <3> QED
      BY <3>1, <3>2, JobFacts DEF IsJob, SameCall
  <2>3. TwoTables(tabs')
    BY <2>1, JobFacts
  <2>4. Typed'
    BY <2>1, <2>2, <2>3, TypedNext
  <2>5. SortingOf(list, job.len, before, job.less)
    <3>1. PICK elements : elements = [i \in 1 .. job.len |-> before[1][i]]
      OBVIOUS
    <3>2. list \in Sortings(elements)
      BY <1>1, <1>3, <3>1 DEF Get
    <3> QED
      BY <3>1, <3>2, JobFacts, SortingsSort
  <2>6. Shifted(tabs, <<before[1], list>>, 1, 1, 0, 2, 0)
    BY <1>1, JobFacts DEF Shifted
  <2>7. SortCourse'
    <3>1. SortingOf(job'.list, job'.len, before', job'.less)
      BY <2>1, <2>2, <2>5 DEF SameCall
    <3>2. job'.n - 1 = 0 /\ tabs'[2] = before'[2] /\ job'.len <= MaxSorted
      BY <1>1, <2>1, <2>2 DEF SameCall
    <3>3. Shifted(tabs', <<before'[1], job'.list>>, 1, 1, job'.n - 1, 2, 0)
      BY <2>1, <2>2, <2>6, <3>2
    <3> QED
      BY <2>2, <3>1, <3>2, <3>3 DEF SortCourse
  <2> QED
    BY <1>1, <2>2, <2>4, <2>7 DEF Course, SameCall
<1> QED
  BY <1>2, <1>3 DEF SortRead

LEMMA SortWrites ==
  ASSUME Typed, Course, SortWrite
  PROVE  Typed' /\ Course' /\ answer' = answer /\ before' = before
<1>1. /\ job.f = "sort" /\ job.n \in 1 .. job.len /\ answer' = answer /\ before' = before
      /\ Wrote(tabs, tabs', 1, job.n, job.list[job.n]) /\ job' = [job EXCEPT !.n = job.n + 1]
  BY DEF SortWrite, Running, Put, Turn, Wrote
<1>2. /\ tabs[2] = before[2] /\ SortingOf(job.list, job.len, before, job.less)
      /\ Shifted(tabs, <<before[1], job.list>>, 1, 1, job.n - 1, 2, 0) /\ job.len <= MaxSorted
  <2>1. job.n # 0
    BY <1>1, JobFacts
  <2> QED
    BY <1>1, <2>1 DEF Course, SortCourse
<1>3. job.n \in Keys
  <2>1. 1 .. job.len \subseteq Keys
    BY <1>1, <1>2, JobFacts, TableLibAssumption DEF Touched
  <2> QED
    BY <1>1, <2>1
<1>4. Typed' /\ SameCall /\ job'.n = job.n + 1 /\ job'.list = job.list /\ tabs'[2] = tabs[2]
  <2>1. PICK n \in Int : n = job.n + 1
    BY JobFacts
  <2>2. PICK value : value = job.list[job.n]
    OBVIOUS
  <2>3. Wrote(tabs, tabs', 1, job.n, value) /\ job' = [job EXCEPT !.n = n] /\ 1 \in 1 .. 2
    BY <1>1, <2>1, <2>2
  <2>4. Typed' /\ SameCall /\ job'.n = n /\ job'.list = job.list /\ OthersStay(tabs, tabs', 1)
    BY <1>1, <1>3, <2>3, Rounds
  <2> QED
    BY <2>1, <2>4 DEF OthersStay
<1>5. PICK bs : bs = <<before[1], job.list>>
  OBVIOUS
<1>6. PICK lo \in Int : lo = 1
  OBVIOUS
<1>7. PICK hi \in Int : hi = job.n - 1
  BY JobFacts
<1>8. PICK d \in Int : d = 0
  OBVIOUS
<1>9. Shifted(tabs', bs, 1, lo, hi + 1, 2, d)
  <2>1. hi + 1 = job.n /\ hi + 1 + d = job.n
    BY <1>7, <1>8, JobFacts
  <2>2. Wrote(tabs, tabs', 1, hi + 1, bs[2][hi + 1 + d])
    BY <1>1, <1>5, <2>1
  <2>3. lo <= hi + 1 /\ hi + 1 \in Keys /\ Shifted(tabs, bs, 1, lo, hi, 2, d)
    BY <1>1, <1>2, <1>3, <1>5, <1>6, <1>7, <1>8, <2>1, JobFacts
  <2>4. 1 \in 1 .. 2 /\ TwoTables(tabs)
    BY JobFacts
  <2> QED
    BY <2>2, <2>3, <2>4, ShiftUp
<1>10. SortCourse'
  <2>1. hi + 1 = job'.n - 1 /\ bs = <<before'[1], job'.list>>
    BY <1>1, <1>4, <1>5, <1>7, JobFacts
  <2>2. Shifted(tabs', <<before'[1], job'.list>>, 1, 1, job'.n - 1, 2, 0)
    BY <1>6, <1>8, <1>9, <2>1
  <2>3. SortingOf(job'.list, job'.len, before', job'.less)
    BY <1>1, <1>2, <1>4 DEF SameCall
  <2>4. /\ job'.n \in Nat \ {0} /\ job'.n <= job'.len + 1 /\ tabs'[2] = before'[2]
        /\ job'.len <= MaxSorted
    BY <1>1, <1>2, <1>4, JobFacts DEF SameCall
  <2> QED
    BY <2>2, <2>3, <2>4 DEF SortCourse
<1>11. job'.n # 0
  BY <1>1, <1>4, JobFacts
<1> QED
  BY <1>1, <1>4, <1>10, <1>11 DEF Course, SameCall

LEMMA SortEnds ==
  ASSUME Typed, Course, SortEnd
  PROVE  Typed' /\ Ended'
<1>1. /\ job.f = "sort" /\ job.n >= 1 /\ job.n > job.len /\ End(Values(<<>>))
      /\ tabs' = tabs /\ job' = job /\ before' = before /\ answer' = Values(<<>>)
  BY DEF SortEnd, Running, End
<1>2. /\ job.n = 1 \/ job.n <= job.len + 1
      /\ tabs[2] = before[2] /\ SortingOf(job.list, job.len, before, job.less)
      /\ Shifted(tabs, <<before[1], job.list>>, 1, 1, job.n - 1, 2, 0) /\ job.len <= MaxSorted
  <2>1. job.n # 0
    BY <1>1, JobFacts
  <2> QED
    BY <1>1, <2>1 DEF Course, SortCourse
<1>3. \A k \in Int : k \in 1 .. job.n - 1 <=> k \in 1 .. job.len
  BY <1>1, <1>2, JobFacts
<1>4. \A k \in Keys : tabs[1][k] = IF k \in 1 .. job.len THEN job.list[k] ELSE before[1][k]
  <2>1. \A k \in Keys : k + 0 = k /\ k \in Int
    BY JobFacts
  <2> QED
    BY <1>2, <1>3, <2>1 DEF Shifted
<1>5. PICK p \in Bijection(1 .. job.len, 1 .. job.len) : job.list = [i \in 1 .. job.len |-> before[1][p[i]]]
  BY <1>2 DEF SortingOf
<1>6. 1 .. job.len \subseteq Keys
  BY <1>1, <1>2, JobFacts, TableLibAssumption DEF Touched
<1>7. Whole = job.list
  <2>1. \A k \in 1 .. job.len : tabs[1][k] = before[1][p[k]]
    BY <1>4, <1>5, <1>6
  <2> QED
    BY <1>5, <2>1 DEF Whole
<1>8. ElementsOf(1, job.len) = [k \in 1 .. job.len |-> before[1][k]]
  <2>1. \A k \in Int : 1 + k - 1 = k
    OBVIOUS
  <2>2. job.len - 1 + 1 = job.len
    BY JobFacts
  <2> QED
    BY <2>1, <2>2 DEF ElementsOf, Was
<1>9. ASSUME NEW v
      PROVE  Occurrences(Whole, v) = Occurrences(ElementsOf(1, job.len), v)
  <2>1. PICK elements : elements = [k \in 1 .. job.len |-> before[1][k]]
    OBVIOUS
  <2>2. PICK list : list = job.list
    OBVIOUS
  <2>3. p \in [1 .. job.len -> 1 .. job.len]
    BY DEF Bijection, Injection
  <2>4. /\ DOMAIN list = 1 .. job.len /\ DOMAIN elements = 1 .. job.len
        /\ \A i \in 1 .. job.len : list[i] = elements[p[i]]
    BY <1>5, <2>1, <2>2, <2>3
  <2>5. Occurrences(list, v) = Occurrences(elements, v)
    <3>1. PICK n \in Int : n = job.len
      BY JobFacts
    <3>2. p \in Bijection(1 .. n, 1 .. n)
      BY <3>1
    <3>3. DOMAIN list = 1 .. n /\ DOMAIN elements = 1 .. n /\ \A i \in 1 .. n : list[i] = elements[p[i]]
      BY <2>4, <3>1
    <3> QED
      BY <3>2, <3>3, SameOccurrences
  <2> QED
    BY <1>7, <1>8, <2>1, <2>2, <2>5
<1>10. SortedTable
  <2>1. \A k \in Keys \ 1 .. job.len : tabs[1][k] = Was(1, k)
    BY <1>4 DEF Was
  <2>2. Order(job.less, Range(Whole)) => Ordered(job.less, Whole)
    BY <1>2, <1>7 DEF SortingOf
  <2> QED
    BY <1>2, <1>9, <2>1, <2>2 DEF SortedTable
<1>11. SortedTable'
  <2>1. Whole' = Whole /\ \A k \in Keys : Was(1, k)' = Was(1, k)
    BY <1>1 DEF Whole, Was
  <2>2. ElementsOf(1, job.len)' = ElementsOf(1, job.len)
    BY <1>1 DEF ElementsOf, Was
  <2> QED
    BY <1>1, <1>10, <2>1, <2>2 DEF SortedTable, Was
<1>12. TableAnswer'
  BY <1>1, <1>2, <1>11 DEF TableAnswer
<1> QED
  BY <1>1, <1>12, Answers, EndsUnwritten

(* TableInv holds when a call begins, is kept by every step, and says both          *)
(* properties.                                                                  *)
LEMMA StartsRight == TableInit => TableInv
<1> SUFFICES ASSUME TableInit
             PROVE  TableInv
  OBVIOUS
<1>1. Typed /\ Goes /\ tabs = before /\ job.n = FirstRound
  BY DEF TableInit, Typed, Goes, TwoTables
<1>2. ASSUME job.f = "insert", InRange, ~job.append
      PROVE  InsertCourse
  <2>1. job.n = job.len /\ job.pos \in 1 .. job.len + 1
    BY <1>1, <1>2 DEF FirstRound, InRange
  <2>2. \A k \in Keys : k \notin job.n + 2 .. job.len + 1
    BY <2>1, JobFacts, <1>1
  <2>3. job.n \in job.pos - 1 .. job.len
    BY <1>1, <2>1, JobFacts
  <2> QED
    BY <1>1, <2>2, <2>3 DEF InsertCourse, Shifted
<1>3. ASSUME job.f = "remove", Pos \in 1 .. job.len
      PROVE  RemoveCourse
  <2>1. job.n = Pos
    BY <1>1, <1>3 DEF FirstRound, RemovePos, Pos
  <2>2. \A k \in Keys : k \notin Pos .. job.n - 1
    BY <1>1, <2>1, JobFacts
  <2>3. job.n \in Pos .. job.len
    BY <1>1, <1>3, <2>1, JobFacts
  <2> QED
    BY <1>1, <2>2, <2>3 DEF RemoveCourse, Shifted
<1>4. ASSUME job.f = "move"
      PROVE  MoveCourse
  <2>1. job.n = 0
    BY <1>1, <1>4 DEF FirstRound
  <2>2. \A k \in Keys : k \notin job.at + MoveCount - job.n .. job.at + MoveCount - 1
    BY <1>1, <2>1, JobFacts
  <2>3. \A k \in Keys : k \notin job.at .. job.at + job.n - 1
    BY <1>1, <2>1, JobFacts
  <2> QED
    BY <1>1, <2>1, <2>2, <2>3 DEF MoveCourse, Shifted
<1>5. job.f = "sort" => job.n = 0
  BY <1>1 DEF FirstRound
<1>6. Course
  BY <1>1, <1>2, <1>3, <1>4, <1>5 DEF Course
<1> QED
  BY <1>1, <1>6 DEF TableInv

(* A call that has ended, or was stopped, takes no step.                         *)
LEMMA NoMoreSteps ==
  ASSUME TableLibNext
  PROVE  answer = NoAnswer
BY DEF TableLibNext, AccessRaises, InsertRefuse, InsertShift, InsertPut, RemoveZero, RemoveOutside,
       RemoveShift, Removing, RemoveEnd, MoveRefuse, MoveShift, MoveEnd, SortRefuse, SortRead, SortWrite, SortEnd, Concat, Unpack_,
       PackValues, Running

(* A call that goes on leaves the answer open.                                   *)
LEMMA GoesOn ==
  ASSUME TableLibNext, Typed, Goes, Course
  PROVE  TableInv'
<1>1. answer = NoAnswer
  BY NoMoreSteps
<1>2. CASE AccessRaises
  BY <1>2, Raises DEF TableInv
<1>3. CASE InsertRefuse \/ InsertPut \/ RemoveZero \/ RemoveOutside \/ RemoveEnd \/ MoveRefuse
           \/ MoveEnd \/ SortRefuse \/ SortEnd \/ Concat \/ Unpack_ \/ PackValues
  <2>1. Typed' /\ Ended'
    BY <1>3, InsertRefuses, InsertEnds, RemoveZeroEnds, RemoveOutsideEnds, RemoveEnds, MoveRefuses,
       MoveEnds, SortRefuses, SortEnds, ReadersEnd
  <2> QED
    BY <2>1 DEF TableInv
<1>4. CASE InsertShift \/ RemoveShift \/ MoveShift \/ SortWrite
  <2>1. Typed' /\ Course' /\ answer' = answer
    BY <1>4, InsertShifts, RemoveShifts, MoveShifts, SortWrites
  <2> QED
    BY <1>1, <2>1 DEF TableInv, Goes
<1>5. CASE SortRead
  BY <1>1, <1>5, SortReads DEF TableInv, Goes
<1> QED
  BY <1>2, <1>3, <1>4, <1>5 DEF TableLibNext

LEMMA StaysRight == TableInv /\ [TableLibNext]_tvars => TableInv'
<1> SUFFICES ASSUME TableInv, [TableLibNext]_tvars
             PROVE  TableInv'
  OBVIOUS
<1>1. CASE TableLibNext
  <2>1. answer = NoAnswer
    BY <1>1, NoMoreSteps
  <2>2. Typed /\ Goes /\ Course
    BY <2>1 DEF TableInv, Ended
  <2> QED
    BY <1>1, <2>2, GoesOn
<1>2. CASE UNCHANGED tvars
  <2>1. tabs' = tabs /\ job' = job /\ before' = before /\ answer' = answer
    BY <1>2 DEF tvars
  <2>2. TableAnswer => TableAnswer'
    <3>1. /\ (InRange' <=> InRange) /\ Pos' = Pos /\ Place' = Place /\ Behind' = Behind
          /\ (Refused' <=> Refused) /\ (Movable' <=> Movable)
      BY <2>1 DEF InRange, Pos, Place, Behind, Refused, Movable
    <3>2. NowHolds(Inserted(Place))' <=> NowHolds(Inserted(Place))
      BY <2>1, <3>1 DEF NowHolds, Inserted, Was
    <3>3. RemoveAnswer' <=> RemoveAnswer
      <4>1. NowHolds(Removed(Pos))' <=> NowHolds(Removed(Pos))
        BY <2>1, <3>1 DEF NowHolds, Removed, Was
      <4>2. NowHolds([before[1] EXCEPT ![0] = Nil])' <=> NowHolds([before[1] EXCEPT ![0] = Nil])
        BY <2>1 DEF NowHolds
      <4>3. Was(1, Pos)' = Was(1, Pos) /\ Was(1, 0)' = Was(1, 0)
        BY <2>1, <3>1 DEF Was
      <4> QED
        BY <2>1, <3>1, <4>1, <4>2, <4>3 DEF RemoveAnswer
    <3>4. \A t \in 1 .. 2 : MovedTo(t)' = MovedTo(t)
      BY <2>1 DEF MovedTo, Was
    <3>5. SortedTable' <=> SortedTable
      <4>1. Whole' = Whole /\ \A k \in Keys : Was(1, k)' = Was(1, k)
        BY <2>1 DEF Whole, Was
      <4>2. ElementsOf(1, job.len)' = ElementsOf(1, job.len)
        BY <2>1 DEF ElementsOf, Was
      <4> QED
        BY <2>1, <4>1, <4>2 DEF SortedTable, Was
    <3>6. ConcatAnswer' = ConcatAnswer /\ UnpackAnswer' = UnpackAnswer
      <4>1. ElementsOf(job.from, job.to)' = ElementsOf(job.from, job.to)
        BY <2>1 DEF ElementsOf, Was
      <4> QED
        BY <2>1, <4>1 DEF ConcatAnswer, UnpackAnswer, Range, Values, Raised
    <3>7. Sortable' <=> Sortable
      BY <2>1 DEF Sortable, ElementsOf, Was
    <3> QED
      BY <2>1, <3>1, <3>2, <3>3, <3>4, <3>5, <3>6, <3>7 DEF TableAnswer
  <2> QED
    BY <2>1, <2>2, StayedKept DEF TableInv, Goes, Ended
<1> QED
  BY <1>1, <1>2

LEMMA TellsAll == TableInv => NothingLost /\ TableCallsFollowManual
  BY CourseKeeps, Answers DEF TableInv, Goes, Ended, TableCallsFollowManual

-----------------------------------------------------------------------------
(* NothingLost, for every set of keys, every length, every position and whatever   *)
(* the tables hold: at no point of a call is an element overwritten that was still  *)
(* to be moved, whenever an access raises.  The rounds are those of insert, remove  *)
(* and move in stdlib_table.py.                                                   *)
THEOREM TableKeepsEverything == TableSpec => []NothingLost
<1>1. TableSpec => []TableInv
  BY StartsRight, StaysRight, PTL DEF TableSpec
<1> QED
  BY <1>1, TellsAll, PTL

(* TableCallsFollowManual, for every width of integers, every set of integer keys   *)
(* and every call whose places are among them: where a call ends that no metamethod *)
(* stopped, the tables hold what the manual says and the answer is the manual's,    *)
(* the refusals of move and insert and the limits of sort and unpack among them.     *)
(* For sort this is that the table holds the same values as often as before, in     *)
(* order when the order function is one.                                          *)
THEOREM TableFollowsManual == TableSpec => []TableCallsFollowManual
<1>1. TableSpec => []TableInv
  BY StartsRight, StaysRight, PTL DEF TableSpec
<1> QED
  BY <1>1, TellsAll, PTL


=============================================================================

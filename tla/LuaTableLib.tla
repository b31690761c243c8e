---------------------------- MODULE LuaTableLib -----------------------------
(* The table library, stdlib_table.py: insert, remove, move, sort, concat,     *)
(* pack and unpack.  Every element is read and written through index_sync and  *)
(* set_index_sync, so that each access may run a metamethod and raise: one step *)
(* of the model is one round of the function's loop, and a call may end between *)
(* any two.  The length is what rawlen or __len says.                          *)
EXTENDS Integers, Sequences, FiniteSets, Functions
CONSTANTS
  Keys,       \* the integer keys the tables of a run use
  Nil,
  MaxInteger, \* the largest integer; 2^63 - 1 in the program
  MaxResults, \* the most results of unpack; 1,000,000 in the program
  MaxSorted   \* the most elements of sort; 1,000,000 in the program
MinInteger == -MaxInteger - 1
LuaIntegers == MinInteger .. MaxInteger
ASSUME TableLibAssumption ==
  MaxInteger \in Nat /\ Keys \subseteq LuaIntegers /\ MaxResults \in Nat /\ MaxSorted \in Nat

VARIABLES
  tabs,    \* the two tables: from keys to values
  job,     \* the call that runs: its function, arguments and loop counters
  answer,  \* what it returned, or that it raised; NoAnswer while it runs
  before   \* the tables when it began
tvars == <<tabs, job, answer, before>>

(* Slots of job: f the function; len the length; pos, value, from, to, at the   *)
(* arguments; n the loop counter; list the values read.                          *)
NoAnswer == [is |-> "none"]
Raised == [is |-> "raised"]
Values(list) == [is |-> "values", list |-> list]
Running(f) == job.f = f /\ answer = NoAnswer
End(result) == answer' = result /\ UNCHANGED <<tabs, job, before>>
RaiseError == End(Raised)
Put(t, key, value) == tabs' = [tabs EXCEPT ![t][key] = value]
Get(t, key) == tabs[t][key]
Turn(n) == job' = [job EXCEPT !.n = n] /\ UNCHANGED <<answer, before>>
PutAndEnd(t, key, value, result) == Put(t, key, value) /\ answer' = result /\ UNCHANGED <<job, before>>

(* A metamethod raises in any access.                                            *)
AccessRaises == job.f # "none" /\ answer = NoAnswer /\ job.throws /\ RaiseError

-----------------------------------------------------------------------------
(* insert(tab, pos, value) moves the elements from the last one down; without a  *)
(* position it appends; the place behind the last one wraps round.                *)
Wrapped(n) == MinInteger + ((n - MinInteger) % (MaxInteger - MinInteger + 1))
InsertOutside == ~job.append /\ (job.pos < 1 \/ job.pos > job.len + 1)
InsertRefuse == Running("insert") /\ InsertOutside /\ RaiseError
InsertShift ==
  /\ Running("insert") /\ ~InsertOutside /\ ~job.append /\ job.n >= job.pos
  /\ Put(1, job.n + 1, Get(1, job.n)) /\ Turn(job.n - 1)
InsertPut ==
  /\ Running("insert") /\ ~InsertOutside /\ (job.append \/ job.n < job.pos)
  /\ PutAndEnd(1, IF job.append THEN Wrapped(job.len + 1) ELSE job.pos, job.value, Values(<<>>))

(* remove(tab, pos) moves the elements behind it down.  Without a position an     *)
(* empty table's element 0 is the one removed.                                   *)
RemoveZero ==
  /\ Running("remove") /\ job.last /\ job.len = 0
  /\ PutAndEnd(1, 0, Nil, Values(<<Get(1, 0)>>))
RemovePos == IF job.last THEN job.len ELSE job.pos
RemoveNothingBehind == RemovePos = job.len + 1   \* a mutant: forgets position 0 of an empty table
RemoveNothing == (job.len = 0 /\ RemovePos = 0) \/ RemovePos = job.len + 1
RemoveOutside ==
  /\ Running("remove") /\ ~(job.last /\ job.len = 0) /\ (RemovePos < 1 \/ RemovePos > job.len)
  /\ IF RemoveNothing THEN End(Values(<<Nil>>)) ELSE RaiseError
Removing == Running("remove") /\ RemovePos \in 1 .. job.len
RemoveShift ==
  /\ Removing /\ job.n < job.len
  /\ Put(1, job.n, Get(1, job.n + 1)) /\ Turn(job.n + 1)
RemoveEnd == Removing /\ job.n >= job.len /\ PutAndEnd(1, job.len, Nil, Values(<<before[1][RemovePos]>>))

(* move(a1, from, to, at, a2), upwards or, where the ranges overlap so that a    *)
(* value would be overwritten before it is read, downwards.  More elements than   *)
(* an integer counts, and places beyond the largest integer, are refused.         *)
MoveCount == job.to - job.from + 1
MoveOutside ==
  MoveCount > 0 /\ (MoveCount > MaxInteger \/ job.at + MoveCount - 1 \notin LuaIntegers)
MoveRefuse == Running("move") /\ MoveOutside /\ RaiseError
AlwaysUpwards == FALSE   \* a mutant: never looks whether the ranges overlap
Downwards == job.target = 1 /\ job.at > job.from /\ job.at <= job.to
MoveOffset(n) == IF Downwards THEN MoveCount - 1 - n ELSE n
MoveShift ==
  /\ Running("move") /\ ~MoveOutside /\ job.n < MoveCount
  /\ Put(job.target, job.at + MoveOffset(job.n), Get(1, job.from + MoveOffset(job.n))) /\ Turn(job.n + 1)
MoveEnd == Running("move") /\ ~MoveOutside /\ job.n >= MoveCount /\ End(Values(<<>>))

(* sort reads all elements, has Python sort them, and writes them back.  less is  *)
(* the order function's relation; Python's sort is stable, and of an order that   *)
(* is none it makes some permutation.                                             *)
Less(a, b) == <<a, b>> \in job.less
StrictWeak(values) ==
  /\ \A a \in values : ~Less(a, a)
  /\ \A a, b, c \in values : Less(a, b) /\ Less(b, c) => Less(a, c)
  /\ \A a, b, c \in values : ~Less(a, b) /\ ~Less(b, a) /\ ~Less(b, c) /\ ~Less(c, b) => ~Less(a, c)
Permutations_(list) == {[i \in DOMAIN list |-> list[p[i]]] : p \in Bijection(DOMAIN list, DOMAIN list)}
(* Equal elements stay in their order: places are the permutation's.              *)
Stable(list) ==
  {[i \in DOMAIN list |-> list[p[i]]] : p \in
     {q \in Bijection(DOMAIN list, DOMAIN list) :
        \A i, j \in DOMAIN list : i < j =>
          LET a == list[q[i]] b == list[q[j]] IN Less(a, b) \/ (~Less(b, a) /\ q[i] < q[j])}}
Sortings(list) == IF StrictWeak(Range(list)) THEN Stable(list) ELSE Permutations_(list)
SortRefuse == Running("sort") /\ job.len > MaxSorted /\ RaiseError
SortRead ==
  /\ Running("sort") /\ job.len <= MaxSorted /\ job.n = 0
  /\ LET values == [i \in 1 .. job.len |-> Get(1, i)]
         compared == Len(values) > 1
     IN \/ /\ (compared /\ Nil \in Range(values)) \/ (values # <<>> /\ Less(values[1], values[1]))
           /\ RaiseError
        \/ /\ ~(compared /\ Nil \in Range(values)) /\ ~(values # <<>> /\ Less(values[1], values[1]))
           /\ \E list \in Sortings(values) : job' = [job EXCEPT !.n = 1, !.list = list]
           /\ UNCHANGED <<tabs, answer, before>>
SortWrite ==
  /\ Running("sort") /\ job.n \in 1 .. job.len
  /\ Put(1, job.n, job.list[job.n]) /\ Turn(job.n + 1)
SortEnd == Running("sort") /\ job.n >= 1 /\ job.n > job.len /\ End(Values(<<>>))

(* concat joins strings and numbers; unpack returns what lies between two keys;   *)
(* pack makes a table of its arguments and their number.                          *)
Between(i, j) == [k \in 1 .. j - i + 1 |-> Get(1, i + k - 1)]
Concat ==
  /\ Running("concat")
  /\ IF \E k \in DOMAIN Between(job.from, job.to) : Between(job.from, job.to)[k] \notin job.texts
     THEN RaiseError ELSE End(Values(Between(job.from, job.to)))
Unpack_ ==
  /\ Running("unpack")
  /\ IF job.to - job.from + 1 > MaxResults THEN RaiseError ELSE End(Values(Between(job.from, job.to)))
PackValues ==
  /\ Running("pack")
  /\ End([is |-> "table", list |-> job.list, n |-> Len(job.list)])

TableLibNext ==
  \/ AccessRaises
  \/ InsertRefuse \/ InsertShift \/ InsertPut
  \/ RemoveZero \/ RemoveOutside \/ RemoveShift \/ RemoveEnd
  \/ MoveRefuse \/ MoveShift \/ MoveEnd
  \/ SortRefuse \/ SortRead \/ SortWrite \/ SortEnd
  \/ Concat \/ Unpack_ \/ PackValues

-----------------------------------------------------------------------------
(* A call: the length is what rawlen or a __len says, which may be a float beyond *)
(* all integers; the keys the call may touch are among Keys, so that no insert    *)
(* moves the element of the largest key up.                                      *)
TableFunctions == {"insert", "remove", "move", "sort", "concat", "unpack", "pack"}
TwoTables(ts) == ts = [t \in 1 .. 2 |-> [k \in Keys |-> ts[t][k]]]
IsJob ==
  /\ job = [f |-> job.f, len |-> job.len, throws |-> job.throws, n |-> job.n, append |-> job.append, last |-> job.last,
            pos |-> job.pos, value |-> job.value, from |-> job.from, to |-> job.to, at |-> job.at, target |-> job.target,
            list |-> job.list, less |-> job.less, texts |-> job.texts]
  /\ job.f \in TableFunctions /\ {job.throws, job.append, job.last} \subseteq BOOLEAN
  /\ {job.len, job.n} \subseteq Int /\ {job.pos, job.from, job.to, job.at} \subseteq LuaIntegers
  /\ job.target \in 1 .. 2
Touched ==
  CASE job.f = "insert" -> IF job.append THEN {Wrapped(job.len + 1)} ELSE job.pos .. job.len + 1
    [] job.f = "remove" -> {0} \cup 1 .. job.len
    [] job.f = "move"   -> IF MoveOutside THEN {} ELSE (job.from .. job.to) \cup (job.at .. job.at + job.to - job.from)
    [] job.f = "sort"   -> IF job.len > MaxSorted THEN {} ELSE 1 .. job.len
    [] job.f = "pack"   -> {}
    [] OTHER            -> job.from .. job.to
FirstRound == CASE job.f = "insert" -> job.len [] job.f = "remove" -> RemovePos [] OTHER -> 0
TableInit ==
  /\ TwoTables(tabs) /\ before = tabs /\ answer = NoAnswer
  /\ IsJob /\ job.n = FirstRound /\ Touched \subseteq Keys
TableSpec == TableInit /\ [][TableLibNext]_tvars

-----------------------------------------------------------------------------
(* What the manual says the tables hold after the call.                            *)
Was(t, k) == before[t][k]
NowHolds(table) == tabs = [before EXCEPT ![1] = table]
Behind == IF job.append THEN Wrapped(job.len + 1) ELSE job.len + 1
Inserted(p) ==
  [k \in Keys |-> CASE k = p -> job.value [] k \in p + 1 .. Behind -> Was(1, k - 1) [] OTHER -> Was(1, k)]
Removed(p) ==
  [k \in Keys |-> CASE k \in p .. job.len - 1 -> Was(1, k + 1) [] k = job.len -> Nil [] OTHER -> Was(1, k)]
MovedTo(t) ==
  [k \in Keys |-> IF t = job.target /\ k \in job.at .. job.at + job.to - job.from THEN Was(1, job.from + k - job.at) ELSE Was(t, k)]
ElementsOf(from, to) == [k \in 1 .. to - from + 1 |-> Was(1, from + k - 1)]
Whole == [k \in 1 .. job.len |-> tabs[1][k]]
Occurrences(list, v) == Cardinality({k \in DOMAIN list : list[k] = v})
Ordered(less, list) == \A i, j \in DOMAIN list : i < j => <<list[j], list[i]>> \notin less
Order(less, values) ==
  \A a, b, c \in values : /\ <<a, b>> \in less => <<b, a>> \notin less
                          /\ <<a, b>> \in less => <<a, c>> \in less \/ <<c, b>> \in less
SortedTable ==
  /\ tabs[2] = before[2] /\ \A k \in Keys \ 1 .. job.len : tabs[1][k] = Was(1, k)
  /\ \A k \in 1 .. job.len : Occurrences(Whole, Was(1, k)) = Occurrences(ElementsOf(1, job.len), Was(1, k))
  /\ Order(job.less, Range(Whole)) => Ordered(job.less, Whole)
Pos == IF job.last THEN job.len ELSE job.pos
Place == IF job.append THEN Behind ELSE job.pos
Movable ==
  job.from <= job.to => /\ job.from > 0 \/ job.to < MaxInteger + job.from
                        /\ job.at <= MaxInteger - (job.to - job.from)
Sortable ==
  LET elements == Range(ElementsOf(1, job.len)) IN Order(job.less, elements) /\ Nil \notin elements
InRange == job.append \/ job.pos \in 1 .. job.len + 1
Refused == answer = Raised /\ tabs = before
RemoveAnswer ==
  CASE Pos \in 1 .. job.len -> answer = Values(<<Was(1, Pos)>>) /\ NowHolds(Removed(Pos))
    [] job.last /\ job.len = 0 -> answer = Values(<<Was(1, 0)>>) /\ NowHolds([before[1] EXCEPT ![0] = Nil])
    [] ~job.last /\ (Pos = job.len + 1 \/ (Pos = 0 /\ job.len = 0)) -> answer = Values(<<Nil>>) /\ tabs = before
    [] OTHER -> Refused
ConcatAnswer ==
  IF Range(ElementsOf(job.from, job.to)) \subseteq job.texts THEN Values(ElementsOf(job.from, job.to)) ELSE Raised
UnpackAnswer == IF job.to - job.from >= MaxResults THEN Raised ELSE Values(ElementsOf(job.from, job.to))
TableAnswer ==
  /\ job.f = "insert" => IF InRange THEN answer = Values(<<>>) /\ NowHolds(Inserted(Place)) ELSE Refused
  /\ job.f = "remove" => RemoveAnswer
  /\ job.f = "move" => IF Movable THEN answer = Values(<<>>) /\ \A t \in 1 .. 2 : tabs[t] = MovedTo(t) ELSE Refused
  /\ job.f = "sort" => \/ Refused /\ (job.len > MaxSorted \/ ~Sortable)
                       \/ answer = Values(<<>>) /\ SortedTable /\ job.len <= MaxSorted
  /\ job.f = "concat" => answer = ConcatAnswer /\ tabs = before
  /\ job.f = "unpack" => answer = UnpackAnswer /\ tabs = before
  /\ job.f = "pack" => answer = [is |-> "table", list |-> job.list, n |-> Len(job.list)] /\ tabs = before
(* A call of the table library that no metamethod stops leaves the elements where  *)
(* the manual puts them, also when it moves them within one table, when the length *)
(* is a __len's and when the order function is no order: the loops of               *)
(* stdlib_table.py run in the right direction and to the right end.  Where remove   *)
(* is given the position behind the last, the code's own answer is expected.        *)
TableCallsFollowManual == answer # NoAnswer /\ ~job.throws => TableAnswer

(* Whenever an access raises, and at every step before, what is still to be moved   *)
(* has not been overwritten: insert, when the place behind the last is free, and     *)
(* remove lose no element but the removed one, and move's sources are what they      *)
(* were.                                                                        *)
Remaining == IF Downwards THEN job.from .. job.to - job.n ELSE job.from + job.n .. job.to
Kept(gone) == Range(before[1]) \ gone \subseteq Range(tabs[1])
NothingLost ==
  CASE job.f = "insert" -> InRange /\ Was(1, Behind) = Nil => Kept({Nil})
    [] job.f = "remove" -> Pos \in 1 .. job.len => Kept({Nil, Was(1, Pos)})
    [] job.f = "move" /\ Movable -> \A k \in Remaining : tabs[1][k] = Was(1, k)
    [] OTHER -> TRUE

=============================================================================

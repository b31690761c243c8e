------------------------------ MODULE MCLibrary -----------------------------
(* Calls of the library functions over small inputs, next to what the Lua      *)
(* manual says they return.                                                    *)
EXTENDS LuaLibrary, SequencesExt, FiniteSetsExt, Functions, TLC
M == INSTANCE LuaPatternManual
D == INSTANCE MCBinary WITH Functions_ <- {}, PucFunctions <- {}, Fragile <- {}
TableKeys == {-7} \cup -1 .. 6
ReservedWords == {<<100, 111>>}

-----------------------------------------------------------------------------
(* Patterns as items with their bytes.                                          *)

LetterA == 97
LetterB == 98
One(text, set, fewest, most, lazy) ==
  [kind |-> "one", text |-> text, set |-> set, fewest |-> fewest, most |-> most, lazy |-> lazy]
Many == 9
Suffixed(text, set) ==
  {One(text, set, 1, 1, FALSE), One(text \o <<63>>, set, 0, 1, FALSE), One(text \o <<42>>, set, 0, Many, FALSE),
   One(text \o <<43>>, set, 1, Many, FALSE), One(text \o <<45>>, set, 0, Many, TRUE)}
Mark(kind, text) == [kind |-> kind, text |-> text, lazy |-> FALSE]
OpenItem == Mark("open", <<40>>)
CloseItem == Mark("close", <<41>>)
HereItem == Mark("here", <<40, 41>>)
EndItem == Mark("end", <<36>>)
Back1 == [kind |-> "back", text |-> <<37, 49>>, n |-> 1, lazy |-> FALSE]
Bytes == 0 .. 255
(* a, [^a], [%a-z], %A, %bab and %f[b].                                          *)
Items ==
  Suffixed(<<97>>, {97}) \cup Suffixed(<<91, 94, 97, 93>>, Bytes \ {97}) \cup
  {One(<<46, 45>>, Bytes, 0, Many, TRUE), One(<<91, 97, 45, 98, 93, 42>>, {97, 98}, 0, Many, FALSE),
   One(<<91, 93, 37, 100, 93>>, (48 .. 57) \cup {93}, 1, 1, FALSE), One(<<37, 65, 42>>, Bytes \ ((65 .. 90) \cup (97 .. 122)), 0, Many, FALSE),
   [kind |-> "balance", text |-> <<37, 98, 97, 98>>, opens |-> 97, closes |-> 98, lazy |-> FALSE],
   [kind |-> "frontier", text |-> <<37, 102, 91, 98, 93>>, set |-> {98}, lazy |-> FALSE]}
Singles == {i \in Items : i.kind = "one"}
Shapes(x, y) ==
  {<<x, y>>, <<OpenItem, x, CloseItem, y>>, <<OpenItem, x, OpenItem, y, CloseItem, CloseItem>>,
   <<OpenItem, x, CloseItem, Back1, y>>, <<x, HereItem, y, EndItem>>}
Patterns == UNION {Shapes(x, y) : x \in Singles, y \in Items}
Spell(items) == FlattenSeq([i \in DOMAIN items |-> items[i].text])
Subjects == {<<>>, <<97>>, <<97, 98, 97>>, <<97, 97, 98, 98>>, <<98, 49, 97, 98>>, <<49, 93, 97>>}
Caret == <<94>>

Replacements ==
  {[kind |-> "text", text |-> t] : t \in {<<120>>, <<60, 37, 48, 62>>, <<37, 49, 37, 37>>}} \cup
  {[kind |-> "map", map |-> ([text |-> <<97>>] :> [text |-> <<66>>] @@ [text |-> <<>>] :> [other |-> TRUE])]}
Pairs == {<<x, y>> : x \in Singles, y \in Items}
PatternCall(f, s, p, i, n, plain) ==
  call = [f |-> f, s |-> s, p |-> p, items |-> i, anchored |-> FALSE, init |-> n, plain |-> plain]
PatternCalls ==
  \E s \in Subjects :
    \/ \E f \in {"find", "match", "gmatch"}, i \in Patterns : PatternCall(f, s, Spell(i), i, 1, FALSE)
    \/ \E i \in Pairs, n \in {-2, 4} : PatternCall("find", s, Spell(i), i, n, FALSE)
    \/ \E i \in Items, n \in {1, 3} : PatternCall("find", s, i.text, <<i>>, n, TRUE)
    \/ \E i \in Pairs \cup {<<OpenItem, x, CloseItem>> : x \in Items}, a \in BOOLEAN, r \in Replacements, n \in {1, 9} :
         call = [f |-> "gsub", s |-> s, p |-> (IF a THEN Caret ELSE <<>>) \o Spell(i), items |-> i, anchored |-> a,
                 repl |-> r, limit |-> n]

-----------------------------------------------------------------------------
(* What the manual says of them.                                                *)

StartOf(c) == LET i == IF c.init >= 0 THEN c.init ELSE Len(c.s) + c.init + 1 IN (IF i < 1 THEN 1 ELSE i) - 1
FirstMatch(c) == M!Matches(c.s, c.items, FALSE, StartOf(c), -1)
FoundAt(c) ==
  LET found == FirstMatch(c)
      m == M!First(found)
  IN IF found = {} THEN <<>>
     ELSE (IF c.f = "find" THEN <<[position |-> m[1] + 1], [position |-> M!Last(m)]>> ELSE <<>>) \o
          (IF c.f = "find" THEN M!Captured(c.s, c.items, m) ELSE M!Values(c.s, c.items, m))
PlainAt(c) ==
  LET places == {k \in StartOf(c) .. Len(c.s) - Len(c.p) : SubSeq(c.s, k + 1, k + Len(c.p)) = c.p}
  IN IF places = {} THEN <<>> ELSE <<[position |-> Min(places) + 1], [position |-> Min(places) + Len(c.p)]>>
AllMatches(c, limit) == M!Successive(c.s, c.items, c.anchored, IF c.f = "gsub" THEN 0 ELSE StartOf(c), -1, limit)
AllValues(c) == [n \in DOMAIN AllMatches(c, Many) |-> M!Values(c.s, c.items, AllMatches(c, Many)[n])]
AsBytes(v) == IF "text" \in DOMAIN v THEN v.text ELSE <<48 + v.position>>
(* The replacement texts above, expanded by hand.                               *)
NewText(c, m) ==
  LET whole == SubSeq(c.s, m[1] + 1, M!Last(m))
      first == M!Values(c.s, c.items, m)[1]
  IN CASE c.repl.kind = "text" ->
            CASE c.repl.text = <<120>> -> <<120>>
              [] c.repl.text = <<60, 37, 48, 62>> -> <<60>> \o whole \o <<62>>
              [] OTHER -> Append(AsBytes(first), 37)
       [] first = [text |-> <<97>>] -> <<66>>
       [] OTHER -> whole
BadKey(c, m) == c.repl.kind = "map" /\ M!Values(c.s, c.items, m)[1] = [text |-> <<>>]
Substituted(c, r) ==
  LET all == AllMatches(c, c.limit)
  IN IF \E n \in DOMAIN all : BadKey(c, all[n]) THEN r.raises
     ELSE /\ ~r.raises /\ r.count = Len(all)
          /\ r.text = M!Replaced(c.s, all, [n \in DOMAIN all |-> NewText(c, all[n])], 0)
PatternAnswer(c, r) ==
  CASE c.f = "gsub" -> Substituted(c, r)
    [] OTHER ->
         /\ ~r.raises
         /\ r.values = CASE StartOf(c) > Len(c.s) -> <<>>
                         [] c.f = "gmatch" -> AllValues(c)
                         [] c.plain -> PlainAt(c)
                         [] OTHER -> FoundAt(c)
(* The matcher of lua_pattern.py, its one retained state of earlier searches    *)
(* included, finds the matches and captures the manual means, wherever an item   *)
(* has to give back what it took; gmatch and gsub take the same successive       *)
(* matches, never two that end in the same place.                               *)
PatternsFollowManual ==
  [][call.f \in {"find", "match", "gmatch", "gsub"} /\ result' # Pending => PatternAnswer(call, result'[1])]_vars

-----------------------------------------------------------------------------
(* Formats of pack as fields: the option, its value, how many bytes it takes    *)
(* (0 for those of a string of any length), and whether the value fits.         *)

Field(op, n, value, size, fits) ==
  [option |-> [op |-> op, n |-> n], value |-> value, size |-> size, fits |-> fits]
No == K!NoNumber
Ints(op, n, size, good, bad) ==
  {Field(op, n, [int |-> v], size, TRUE) : v \in good} \cup {Field(op, n, [int |-> v], size, FALSE) : v \in bad}
Texts == {<<>>, <<1>>, <<1, 0, 2>>}
Fields ==
  Ints("b", No, 1, {-2, 1}, {2, -3}) \cup Ints("B", No, 1, {3}, {4, -1}) \cup Ints("h", No, 2, {-8}, {8}) \cup
  Ints("i", 3, 3, {-32, 31}, {32}) \cup Ints("I", 3, 3, {63}, {64}) \cup Ints("i", No, 4, {-128}, {}) \cup
  Ints("j", No, 8, {K!Smallest}, {}) \cup Ints("J", No, 8, {-1}, {}) \cup
  Ints("i", 16, 16, {K!Smallest, K!Largest}, {}) \cup Ints("I", 9, 9, {-1, 5}, {}) \cup
  {Field("d", No, [float |-> 6], 8, TRUE), Field("f", No, [float |-> -3], 4, TRUE), Field("c", 2, [text |-> <<1>>], 2, TRUE),
   Field("c", 2, [text |-> <<1, 0, 2>>], 2, FALSE), Field("z", No, [text |-> <<1>>], 0, TRUE), Field("z", No, [text |-> <<1, 0>>], 0, FALSE),
   Field("s", 1, [text |-> <<1, 0>>], 0, TRUE), Field("s", 1, [text |-> <<1, 1, 1, 1>>], 0, FALSE), Field("s", 2, [text |-> <<>>], 0, TRUE)}
(* x and X have no value; the alignment X takes is the second option's.          *)
Bare(op, n) == [option |-> [op |-> op, n |-> n]]
Alignments == {[before |-> <<>>, most |-> 1, order |-> "little"], [before |-> <<[op |-> "!", n |-> No]>>, most |-> 8, order |-> "little"],
               [before |-> <<[op |-> "!", n |-> 4], [op |-> ">", n |-> No]>>, most |-> 4, order |-> "big"]}
Gaps == {<<>>, <<Bare("x", No)>>, <<Bare("X", No), Bare("i", 4)>>}
OptionsOf(fields) == [k \in DOMAIN fields |-> fields[k].option]
PackCalls ==
  \E a \in Alignments, x \in Fields, y \in Fields, g \in Gaps :
    call = [f |-> "pack", format |-> a.before \o OptionsOf(<<x>> \o g \o <<y>>), values |-> <<x.value, y.value>>,
            fields |-> <<x, y>>, gap |-> g, most |-> a.most, order |-> a.order]
UnpackCalls ==
  \E o \in {[op |-> "b", n |-> No], [op |-> "i", n |-> 9], [op |-> "z", n |-> No], [op |-> "s", n |-> 1], [op |-> "c", n |-> 3],
            [op |-> "X", n |-> No], [op |-> "x", n |-> No]},
     d \in {<<>>, <<3>>, <<1, 0, 2>>, [k \in 1 .. 9 |-> 3], [k \in 1 .. 9 |-> IF k = 9 THEN 1 ELSE 2]}, p \in {-1, 1, 2, 11} :
    call = [f |-> "unpack", format |-> <<o>>, data |-> d, pos |-> p]

(* The field's size, its alignment, and where one begins that may begin at n.    *)
SizeOf(fd) == CASE fd.size > 0 -> fd.size
                [] fd.option.op = "z" -> Len(fd.value.text) + 1
                [] OTHER -> fd.option.n + Len(fd.value.text)
Natural(fd) == CASE fd.option.op \in {"c", "z"} -> 1 [] fd.option.op = "s" -> fd.option.n [] OTHER -> fd.size
AlignmentOf(fd, most) == Min({Natural(fd), most})
Fit(n, alignment) == CHOOSE m \in n .. n + 15 : m % alignment = 0 /\ \A k \in n .. m - 1 : k % alignment # 0
SecondAt(c) ==
  LET end == SizeOf(c.fields[1])
  IN Fit(CASE c.gap = <<>> -> end [] Len(c.gap) = 1 -> end + 1 [] OTHER -> Fit(end, Min({4, c.most})),
         AlignmentOf(c.fields[2], c.most))
Malformed(c) == \E k \in 1 .. 2 : AlignmentOf(c.fields[k], c.most) \notin {1, 2, 4, 8, 16}
(* The bytes hold the number: the low eight say it, the others repeat its sign.   *)
LowFirst(bytes, order) == IF order = "little" THEN bytes ELSE Reverse(bytes)
Holds(fd, bytes, order) ==
  LET b == LowFirst(bytes, order)
      n == IF "int" \in DOMAIN fd.value THEN fd.value.int ELSE fd.value.float
      low == Min({Len(b), 8})
  IN /\ FoldLeft(LAMBDA u, v : u + v, 0, [k \in 1 .. low |-> b[k] * 4 ^ (k - 1)]) = n % 4 ^ low
     /\ \A k \in 9 .. Len(b) : b[k] = IF n < 0 /\ fd.option.op = "i" THEN 3 ELSE 0
Holds_(fd, bytes, order) ==
  CASE "text" \notin DOMAIN fd.value -> Holds(fd, bytes, order)
    [] fd.option.op = "s" -> SubSeq(bytes, fd.option.n + 1, Len(bytes)) = fd.value.text
    [] OTHER -> SubSeq(bytes, 1, Len(fd.value.text)) = fd.value.text /\ \A k \in Len(fd.value.text) + 1 .. Len(bytes) : bytes[k] = 0
Comes(fd) == IF fd.option.op = "c" THEN [text |-> <<1, 0>>] ELSE fd.value
PackAnswer(c, r) ==
  LET p == r.packed.value
      size == SecondAt(c) + SizeOf(c.fields[2])
  IN IF Malformed(c) \/ \E k \in 1 .. 2 : ~c.fields[k].fits THEN r.packed.raises
     ELSE /\ ~r.packed.raises /\ Len(p) = size
          /\ Holds_(c.fields[1], SubSeq(p, 1, SizeOf(c.fields[1])), c.order)
          /\ Holds_(c.fields[2], SubSeq(p, SecondAt(c) + 1, size), c.order)
          /\ \A k \in SizeOf(c.fields[1]) + 1 .. SecondAt(c) : p[k] = 0
          /\ ~r.back.raises /\ r.back.value = [values |-> <<Comes(c.fields[1]), Comes(c.fields[2])>>, position |-> size + 1]
          /\ IF \E k \in 1 .. 2 : c.fields[k].option.op \in {"z", "s"} THEN r.size.raises ELSE ~r.size.raises /\ r.size.value = size
(* pack lays every field at the next multiple of its alignment, refuses what      *)
(* does not fit its size, and unpack and packsize agree with it.                  *)
PackedReadsBack == [][call.f = "pack" /\ result' # Pending => PackAnswer(call, result'[1])]_vars

-----------------------------------------------------------------------------
(* Characters with their bytes, at the ends of every length, and bytes that are  *)
(* no character; some are one when lax.                                          *)

Good == {<<65, <<65>>>>, <<127, <<127>>>>, <<128, <<194, 128>>>>, <<2047, <<223, 191>>>>, <<2048, <<224, 160, 128>>>>,
         <<57344, <<238, 128, 128>>>>, <<65535, <<239, 191, 191>>>>, <<65536, <<240, 144, 128, 128>>>>,
         <<1114111, <<244, 143, 191, 191>>>>}
LaxOnly == {<<55296, <<237, 160, 128>>>>, <<57343, <<237, 191, 191>>>>, <<1114112, <<244, 144, 128, 128>>>>,
            <<2097151, <<247, 191, 191, 191>>>>, <<2097152, <<248, 136, 128, 128, 128>>>>, <<67108864, <<252, 132, 128, 128, 128, 128>>>>,
            <<2147483647, <<253, 191, 191, 191, 191, 191>>>>}
BadBytes == {<<128>>, <<192, 128>>, <<193, 191>>, <<224, 159, 191>>, <<240, 143, 191, 191>>, <<254>>, <<255>>, <<194>>, <<226, 130>>, <<195, 65>>}
Glued(chars) == FlattenSeq([k \in DOMAIN chars |-> chars[k][2]])
Codes_(chars) == [k \in DOMAIN chars |-> chars[k][1]]
Strings == SeqOf(Good, 2) \cup {<<x, y, z>> : x \in Good, y \in {<<65, <<65>>>>, <<2048, <<224, 160, 128>>>>}, z \in Good}
Utf8Call(f, chars, bad, lax, n, i) ==
  call = [f |-> f, chars |-> chars, bad |-> bad, s |-> Glued(chars) \o bad, codes |-> Codes_(chars), lax |-> lax,
          n |-> n, i |-> i, j |-> -1]
Utf8Calls ==
  \/ \E chars \in Strings, f \in {"char", "codepoint", "len", "codes"}, lax \in BOOLEAN : Utf8Call(f, chars, <<>>, lax, 0, 1)
  \/ \E chars \in SeqOf(Good, 1), last \in LaxOnly, f \in {"codepoint", "len", "codes"} :
       \/ Utf8Call(f, Append(chars, last), <<>>, TRUE, 0, 1)
       \/ Utf8Call(f, chars, last[2], FALSE, 0, 1)
  \/ \E chars \in SeqOf(Good, 2), bad \in BadBytes, f \in {"codepoint", "len", "codes"}, lax \in BOOLEAN : Utf8Call(f, chars, bad, lax, 0, 1)
  \/ \E chars \in Strings, n \in -4 .. 4 : Utf8Call("offset", chars, <<>>, FALSE, n, U!DefaultStart(Glued(chars), n))
  \/ \E chars \in Strings, n \in {0, 2, -1} : \E i \in 1 .. Len(Glued(chars)) : Utf8Call("offset", chars, <<>>, FALSE, n, i)

(* Where the k-th character begins; the character byte i lies in.                 *)
BeginsAt(chars, k) == 1 + Len(Glued(SubSeq(chars, 1, k - 1)))
WithByte(chars, i) == CHOOSE k \in DOMAIN chars : i \in BeginsAt(chars, k) .. BeginsAt(chars, k + 1) - 1
FirstOf(c) == IF c.i = Len(c.s) + 1 THEN Len(c.chars) + 1 ELSE WithByte(c.chars, c.i)
Target(c) == IF c.n > 0 THEN FirstOf(c) + c.n - 1 ELSE FirstOf(c) + c.n
SpanOf(c, k) == IF k = Len(c.chars) + 1 THEN <<Len(c.s) + 1, Len(c.s) + 1>> ELSE <<BeginsAt(c.chars, k), BeginsAt(c.chars, k + 1) - 1>>
OffsetAnswer(c, r) ==
  CASE c.n # 0 /\ c.i <= Len(c.s) /\ BeginsAt(c.chars, FirstOf(c)) # c.i -> r.raises
    [] Target(c) \notin 1 .. Len(c.chars) + 1 -> r = U!Gives(<<>>)
    [] OTHER -> r = U!Gives(SpanOf(c, Target(c)))
Utf8Answer(c, r) ==
  CASE c.f = "char" -> r = U!Gives(c.s)
    [] c.f = "offset" -> OffsetAnswer(c, r)
    [] c.f = "len" -> r = U!Gives(IF c.bad = <<>> THEN [count |-> Len(c.chars)] ELSE [invalid |-> Len(Glued(c.chars)) + 1])
    [] c.bad # <<>> -> r.raises
    [] c.f = "codepoint" -> r = U!Gives(c.codes)
    [] OTHER -> r = U!Gives([k \in DOMAIN c.chars |-> <<BeginsAt(c.chars, k), c.codes[k]>>])
(* char, codepoint, len, codes and offset of stdlib_utf8.py agree on where the     *)
(* characters of a string are, at the ends of every length of encoding, from      *)
(* either end of the string; overlong and cut encodings are never characters,      *)
(* surrogates and large codes only when lax.                                       *)
Utf8FunctionsAgree ==
  [][call.f \in {"char", "codepoint", "len", "codes", "offset"} /\ result' # Pending => Utf8Answer(call, result'[1])]_vars

-----------------------------------------------------------------------------
(* Calls of the table library.  Elements are numbers of their own, 0 is an        *)
(* element outside the list.                                                      *)

NoString == [f |-> "table"]
TableOf(n, zero) == [k \in Keys |-> IF k \in 1 .. n THEN 10 + k ELSE IF k = 0 /\ zero THEN 10 ELSE Nil]
Other == [k \in Keys |-> IF k \in 2 .. 3 THEN 20 + k ELSE Nil]
Job(f, len, throws) ==
  [f |-> f, len |-> len, throws |-> throws, n |-> 0, append |-> FALSE, last |-> FALSE, pos |-> 0, value |-> 99,
   from |-> 1, to |-> 0, at |-> 1, target |-> 1, list |-> <<>>, less |-> {}, texts |-> {}]
Relations(values) == SUBSET {<<a, b>> : a, b \in values}
(* The length is the number of elements, or what a __len says it is.              *)
Jobs(n, throws) ==
  \/ \E len \in {n, 4}, p \in 0 .. 5 :
       \/ job = [Job("insert", len, throws) EXCEPT !.pos = p, !.n = len]
       \/ job = [Job("remove", len, throws) EXCEPT !.pos = p, !.n = p]
  \/ \E len \in {n, 4, 6, 20} : job = [Job("insert", len, throws) EXCEPT !.append = TRUE, !.n = len]
  \/ \E len \in {n, 4} :
     job = [Job("remove", len, throws) EXCEPT !.last = TRUE, !.n = len]
  \/ \E from \in {-7} \cup 0 .. 3, to \in -1 .. 3, at \in 0 .. 6, target \in 1 .. 2 :
       job = [Job("move", n, throws) EXCEPT !.from = from, !.to = to, !.at = at, !.target = target]
  \/ \E less \in Relations(11 .. 10 + n) : job = [Job("sort", n, throws) EXCEPT !.less = less]
  \/ job = Job("sort", n + 2, throws)
  \/ \E from \in 0 .. 2, to \in 0 .. 4, f \in {"concat", "unpack"} :
       job = [Job(f, n, throws) EXCEPT !.from = from, !.to = to, !.texts = {11, 12}]
  \/ \E list \in SeqOf({11, Nil}, 2) : job = [Job("pack", n, throws) EXCEPT !.list = list]
TableCalls ==
  \E n \in 0 .. 3, zero, throws \in BOOLEAN :
    /\ call = NoString /\ tabs = <<TableOf(n, zero), Other>> /\ before = tabs /\ answer = NoAnswer /\ Jobs(n, throws)
    /\ TableInit

-----------------------------------------------------------------------------
(* Texts for the lexer: tokens, with the newlines inside them, and what stands      *)
(* between two tokens.                                                              *)

Tok(kind, text, value, lines) == [kind |-> kind, text |-> text, value |-> value, lines |-> lines]
NameTok(text) == Tok("name", text, text, 0)
OpTok(text) == Tok("operator", text, text, 0)
StringTok(text, value, lines) == Tok("string", text, value, lines)
NumTok(text, n) == Tok("number", text, [int |-> n], 0)
FloatTok(text) == Tok("number", text, [float |-> text], 0)
Quoted(text) == <<34>> \o text \o <<34>>
Tokens ==
  {NameTok(<<97>>), NameTok(<<95, 100, 111, 49>>), Tok("keyword", <<100, 111>>, <<100, 111>>, 0),
   NumTok(<<55>>, 7), NumTok(<<48, 120, 49, 48>>, 16), NumTok(<<48, 88, 49, 102, 102, 102, 102>>, -1), NumTok(<<51, 50, 55, 54, 55>>, 32767),
   FloatTok(<<51, 50, 55, 54, 56>>), FloatTok(<<46, 53>>), FloatTok(<<51, 46, 101, 45, 49>>), FloatTok(<<48, 120, 46, 49, 112, 52>>),
   (* "a\0651", "\x41\u{20}", "\z  b", a string over two lines, and brackets *)
   StringTok(Quoted(<<97, 92, 48, 54, 53, 49>>), <<97, 65, 49>>, 0), StringTok(Quoted(<<92, 120, 52, 49, 92, 117, 123, 55, 70, 70, 125>>), <<65, 223, 191>>, 0),
   (* the largest code, with a zero in front *)
   StringTok(Quoted(<<92, 117, 123, 48, 55, 102, 70, 70, 70, 102, 70, 70, 125>>), <<253, 191, 191, 191, 191, 191>>, 0),
   StringTok(Quoted(<<92, 122, 32, 10, 13, 98>>), <<98>>, 1), StringTok(Quoted(<<97, 92, 13, 10, 98, 92, 10>>), <<97, 10, 98, 10>>, 2),
   StringTok(<<39, 92, 39, 34, 39>>, <<39, 34>>, 0),
   StringTok(<<91, 91, 13, 10, 97, 93, 61, 93, 93>>, <<97, 93, 61>>, 1), StringTok(<<91, 61, 91, 93, 93, 10, 10, 13, 93, 61, 93>>, <<93, 93, 10, 10>>, 2),
   OpTok(<<46, 46, 46>>), OpTok(<<46, 46>>), OpTok(<<46>>), OpTok(<<61, 61>>), OpTok(<<61>>), OpTok(<<58, 58>>), OpTok(<<60, 60>>), OpTok(<<91>>), OpTok(<<45>>)}
Separators ==
  {[text |-> <<32>>, lines |-> 0], [text |-> <<10>>, lines |-> 1], [text |-> <<13, 10>>, lines |-> 1], [text |-> <<10, 13, 10>>, lines |-> 2],
   [text |-> <<13, 13>>, lines |-> 2], [text |-> <<32, 45, 45, 120, 10>>, lines |-> 1], [text |-> <<32, 45, 45, 91, 91, 120, 10, 93, 93>>, lines |-> 1],
   [text |-> <<32, 45, 45, 91, 61, 91, 93, 93, 93, 61, 93>>, lines |-> 0], [text |-> <<32, 45, 45, 91, 61, 120, 13, 10, 32>>, lines |-> 1]}
Shebangs == {[text |-> <<>>, lines |-> 0], [text |-> <<35, 33, 97, 13, 10>>, lines |-> 1]}
(* Not a token, wherever it ends.                                                    *)
NotTokens ==
  {<<34, 97>>, <<34, 10, 34>>, Quoted(<<92, 120, 52>>), Quoted(<<92, 117, 123, 125>>),
   Quoted(<<92, 117, 123, 56, 48, 48, 48, 48, 48, 48, 48, 125>>), Quoted(<<92, 51, 48, 48>>), Quoted(<<92, 113>>),
   <<91, 61, 91, 93, 93>>, <<91, 61, 120>>, <<51, 101>>, <<48, 120>>, <<51, 120>>, <<64>>, <<45, 45, 91, 91, 93>>}
Expected(first, a, sep, b) ==
  LET line == 1 + first.lines
      next == line + a.lines + sep.lines
  IN <<[kind |-> a.kind, value |-> a.value, line |-> line], [kind |-> b.kind, value |-> b.value, line |-> next],
       [kind |-> "eof", value |-> <<>>, line |-> next + b.lines]>>
LexCall(s, tokens, bad) == call = [f |-> "load", tokens |-> tokens, bad |-> bad] /\ L!LexInit(s)
Tricky == {0, 10, 13, 34, 49, 92, 97, 127}
LexerCalls ==
  \/ \E a, b \in Tokens, sep \in Separators, first \in Shebangs :
       /\ first.text = <<>> \/ sep.text = <<32>>
       /\ LexCall(first.text \o a.text \o sep.text \o b.text, Expected(first, a, sep, b), FALSE)
  \/ \E a \in Tokens, sep \in Separators, bad \in NotTokens : LexCall(a.text \o sep.text \o bad, <<>>, TRUE)
  \/ \E s \in SeqOf(Tricky, 3) : LexCall(L!Quote(s), <<[kind |-> "string", value |-> s, line |-> 1]>>, FALSE)
NumeralBytes == {32, 45, 46, 51, 48, 101, 120}
HexBytes == {43, 46, 51, 101, 112}
Numerals == SeqOf(NumeralBytes, 4) \cup {<<48, 120>> \o s : s \in SeqOf(HexBytes, 4)}
NumeralCalls == \E s \in Numerals : call = [f |-> "tonumber", s |-> s] /\ L!LexInit(s)
Unsigned(s) == s # <<>> /\ s[1] \notin {43, 45} /\ \A k \in DOMAIN s : s[k] # 32 /\ (k > 1 => <<s[k - 1], s[k]>> # <<45, 45>>)
(* The lexer gives back the tokens a text was written from, with the lines they      *)
(* begin on, whatever newlines, comments and escapes it contains; what %q wrote is   *)
(* the string it was given; a broken token raises.  A text without a sign in front,  *)
(* spaces and comments is one numeral for the lexer exactly if tonumber takes it,    *)
(* and both make the same number of it: lexer.py and values.py have grammars of      *)
(* their own.                                                                        *)
ReadsTokens ==
  IF call.bad THEN Last(out').kind = "error"
  ELSE \A k \in DOMAIN call.tokens : k \in DOMAIN out' /\ out'[k] = call.tokens[k]
ReadsNumeral ==
  result[1] = IF Len(out') = 2 /\ out'[1].kind = "number" THEN {out'[1].value} ELSE {}
LexerReadsBack ==
  [][L!Finished' =>
       /\ call.f = "load" => ReadsTokens
       /\ call.f = "tonumber" /\ Unsigned(call.s) => ReadsNumeral]_vars

-----------------------------------------------------------------------------
(* Functions to dump and load, and those whose chunks get damaged.                 *)
Dumped == D!Dumped
PucDumped == D!PucSet
DamagedOnes == D!FragileSet
DumpCalls == call = [f |-> "dump"] /\ B!Init
(* load gives back what string.dump or PUC-Lua wrote, and nothing of a damaged chunk:  *)
(* the writers and readers of binary_chunks.py and native_debug_chunks.py and the      *)
(* reader of puc_debug.py agree on every field, number and padding.                  *)
Reloads == [][loaded'.is # "no" => D!Faithful(loaded')]_vars

-----------------------------------------------------------------------------
IdleTables == tabs = <<>> /\ job = [f |-> "none"] /\ answer = NoAnswer /\ before = <<>>
IdleBinary == function = <<>> /\ chunk = <<>> /\ origin = <<>> /\ damaged = FALSE /\ parts = <<>> /\ loaded = [is |-> "no"]
IdleLexer == src = <<>> /\ lex = [i |-> 0, line |-> 1, newline |-> -1] /\ out = <<>>
Init ==
  /\ result = Pending
  /\ \/ (PatternCalls \/ PackCalls \/ UnpackCalls \/ Utf8Calls) /\ IdleTables /\ IdleLexer /\ IdleBinary
     \/ TableCalls /\ IdleLexer /\ IdleBinary
     \/ (LexerCalls \/ NumeralCalls) /\ IdleTables /\ IdleBinary
     \/ DumpCalls /\ IdleTables /\ IdleLexer
Spec == Init /\ [][Next]_vars

=============================================================================

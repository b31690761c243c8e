----------------------------- MODULE LuaPattern -----------------------------
(* Lua patterns: the backtracking matcher of lua_pattern.py, and string.find,  *)
(* match, gmatch and gsub of stdlib_string.py.  A string is a sequence of      *)
(* bytes; positions count from 0, as in the Python code.                       *)
EXTENDS Integers, Sequences, SequencesExt, FiniteSetsExt

LOCAL At(s, i) == s[i + 1]
LOCAL Slice(s, from, to) == SubSeq(s, from + 1, Min({to, Len(s)}))
LOCAL Inside(s, i) == i < Len(s)
Peek(s, i) == IF Inside(s, i) THEN At(s, i) ELSE -1
Is(s, i, byte) == Inside(s, i) /\ At(s, i) = byte

MaxCaptures == 32
Unfinished == -1
Alpha == (65 .. 90) \cup (97 .. 122)
Digit == 48 .. 57
Lower(c) == IF c \in 65 .. 90 THEN c + 32 ELSE c

(* The classes a letter behind % names; an upper-case letter is the complement. *)
Class(letter) ==
  CASE letter = 97  -> Alpha
    [] letter = 99  -> (0 .. 31) \cup {127}
    [] letter = 100 -> Digit
    [] letter = 103 -> 33 .. 126
    [] letter = 108 -> 97 .. 122
    [] letter = 112 -> (33 .. 47) \cup (58 .. 64) \cup (91 .. 96) \cup (123 .. 126)
    [] letter = 115 -> {32} \cup (9 .. 13)
    [] letter = 117 -> 65 .. 90
    [] letter = 119 -> Alpha \cup Digit
    [] letter = 120 -> Digit \cup (65 .. 70) \cup (97 .. 102)
    [] letter = 122 -> {0}
ClassLetters == {97, 99, 100, 103, 108, 112, 115, 117, 119, 120, 122}
ClassMatch(ch, cls) ==
  IF Lower(cls) \notin ClassLetters THEN ch = cls
  ELSE (ch \in Class(Lower(cls))) # (cls \in 65 .. 90)

-----------------------------------------------------------------------------
(* Single items.                                                               *)

Malformed == -1
RECURSIVE SetEnd(_, _)
SetEnd(P, i) ==
  CASE ~Inside(P, i) -> Malformed
    [] Is(P, i, 93)  -> i + 1
    [] Is(P, i, 37) /\ Inside(P, i + 1) -> SetEnd(P, i + 2)
    [] OTHER -> SetEnd(P, i + 1)
(* Behind the optional ^ and a ] that stands first.                            *)
SetBody(P, p) ==
  LET caret == IF Is(P, p + 1, 94) THEN p + 2 ELSE p + 1 IN IF Is(P, caret, 93) THEN caret + 1 ELSE caret
ClassEnd(P, p) ==
  CASE ~Inside(P, p) -> Malformed
    [] Is(P, p, 37) -> IF Inside(P, p + 1) THEN p + 2 ELSE Malformed
    [] Is(P, p, 91) -> SetEnd(P, SetBody(P, p))
    [] OTHER -> p + 1

RECURSIVE InSet(_, _, _, _)
InSet(P, ch, i, last) ==
  /\ i < last
  /\ CASE Is(P, i, 37) /\ i + 1 < last -> ClassMatch(ch, At(P, i + 1)) \/ InSet(P, ch, i + 2, last)
       [] ~Is(P, i, 37) /\ i + 2 < last /\ Is(P, i + 1, 45) ->
            ch \in At(P, i) .. At(P, i + 2) \/ InSet(P, ch, i + 3, last)
       [] OTHER -> ch = At(P, i) \/ InSet(P, ch, i + 1, last)
SetMatch(P, ch, start, end) ==
  LET body == SetBody(P, start)
      closing == Is(P, body - 1, 93) /\ ch = 93
  IN (closing \/ InSet(P, ch, body, end - 1)) # Is(P, start + 1, 94)
SingleMatch(P, ch, p, ep) ==
  CASE At(P, p) = 46 -> TRUE
    [] At(P, p) = 37 -> ClassMatch(ch, At(P, p + 1))
    [] At(P, p) = 91 -> SetMatch(P, ch, p, ep)
    [] OTHER -> ch = At(P, p)

(* The position behind the text that %b balances, -1 for none.                 *)
RECURSIVE Balanced(_, _, _, _, _)
Balanced(S, pos, depth, opening, closing) ==
  CASE ~Inside(S, pos) -> -1
    [] Is(S, pos, closing) -> IF depth = 1 THEN pos + 1 ELSE Balanced(S, pos + 1, depth - 1, opening, closing)
    [] OTHER -> Balanced(S, pos + 1, IF Is(S, pos, opening) THEN depth + 1 ELSE depth, opening, closing)
Balance(P, S, s, p) ==
  IF Is(S, s, At(P, p + 2)) THEN Balanced(S, s + 1, 1, At(P, p + 2), At(P, p + 3)) ELSE -1

Frontier(P, S, s, p, end) ==
  LET previous == IF s > 0 THEN At(S, s - 1) ELSE 0
      current  == IF Inside(S, s) THEN At(S, s) ELSE 0
  IN ~SetMatch(P, previous, p, end) /\ SetMatch(P, current, p, end)

RECURSIVE Repetitions(_, _, _, _, _)
Repetitions(P, S, s, p, ep) ==
  IF Inside(S, s) /\ SingleMatch(P, At(S, s), p, ep) THEN 1 + Repetitions(P, S, s + 1, p, ep) ELSE 0

(* Where the rest of the pattern is tried behind one item and its suffix, in    *)
(* order.                                                                      *)
Down(from, to) == [i \in 1 .. from - to + 1 |-> from - i + 1]
Up(from, to) == [i \in 1 .. to - from + 1 |-> from + i - 1]
StartsWithin(P, s, most, ep) ==
  CASE Is(P, ep, 63) -> Down(Min({most, s + 1}), s)
    [] Is(P, ep, 42) -> Down(most, s)
    [] Is(P, ep, 43) -> Down(most, s + 1)
    [] Is(P, ep, 45) -> Up(s, most)
    [] OTHER -> Down(Min({most, s + 1}), s + 1)
Starts(P, S, s, p, ep) == StartsWithin(P, s, s + Repetitions(P, S, s, p, ep), ep)
Quantifiers == {63, 42, 43, 45}
Beyond(P, ep) == IF Inside(P, ep) /\ At(P, ep) \in Quantifiers THEN ep + 1 ELSE ep

-----------------------------------------------------------------------------
(* Backtracking.                                                               *)

Found(end, captures) == [is |-> "match", end |-> end, captures |-> captures]
NoMatch == [is |-> "none", end |-> 0, captures |-> <<>>]
Bad == [is |-> "error", end |-> 0, captures |-> <<>>]
Capture(start, end, position) == [start |-> start, end |-> end, position |-> position]

Open(captures) == {i \in DOMAIN captures : captures[i].end = Unfinished /\ ~captures[i].position}
Closed(captures, s) == [captures EXCEPT ![Max(Open(captures))].end = s]
Referable(captures, index) ==
  index \in DOMAIN captures /\ ~captures[index].position /\ captures[index].end # Unfinished
Referred(S, captures, index) == Slice(S, captures[index].start, captures[index].end)

Onward(to, p, captures) == [is |-> "onward", to |-> to, p |-> p, captures |-> captures]
OpenAt(P, s, p, captures) ==
  CASE Len(captures) >= MaxCaptures -> Bad
    [] Is(P, p + 1, 41) -> Onward(<<s>>, p + 2, Append(captures, Capture(s, s, TRUE)))
    [] OTHER -> Onward(<<s>>, p + 1, Append(captures, Capture(s, Unfinished, FALSE)))
CloseAt(s, p, captures) == IF Open(captures) = {} THEN Bad ELSE Onward(<<s>>, p + 1, Closed(captures, s))
BalanceAt(P, p, captures, end) ==
  CASE p + 3 >= Len(P) -> Bad
    [] end = -1 -> NoMatch
    [] OTHER -> Onward(<<end>>, p + 4, captures)
FrontierAt(P, S, s, p, captures, end) ==
  CASE ~Is(P, p + 2, 91) \/ end = Malformed -> Bad
    [] ~Frontier(P, S, s, p + 2, end) -> NoMatch
    [] OTHER -> Onward(<<s>>, end, captures)
BackAt(S, s, p, captures, text) ==
  Onward(IF Slice(S, s, s + Len(text)) = text THEN <<s + Len(text)>> ELSE <<>>, p + 2, captures)
ItemAt(P, S, s, p, captures, end) ==
  IF end = Malformed THEN Bad ELSE Onward(Starts(P, S, s, p, end), Beyond(P, end), captures)
(* What one item of the pattern leads to: the end, a failure, or where the rest   *)
(* of the pattern is tried.  escaped is the byte behind a %.                      *)
Item(P, S, s, p, captures, escaped) ==
  CASE ~Inside(P, p) -> Found(s, captures)
    [] Is(P, p, 36) /\ p + 1 = Len(P) -> IF s = Len(S) THEN Found(s, captures) ELSE NoMatch
    [] Is(P, p, 40) -> OpenAt(P, s, p, captures)
    [] Is(P, p, 41) -> CloseAt(s, p, captures)
    [] escaped = 98 -> BalanceAt(P, p, captures, IF p + 3 < Len(P) THEN Balance(P, S, s, p) ELSE -1)
    [] escaped = 102 -> FrontierAt(P, S, s, p, captures, ClassEnd(P, p + 2))
    [] escaped \in Digit ->
         IF Referable(captures, escaped - 48) THEN BackAt(S, s, p, captures, Referred(S, captures, escaped - 48)) ELSE Bad
    [] OTHER -> ItemAt(P, S, s, p, captures, ClassEnd(P, p))
Else(r, other) == IF r.is = "none" THEN other ELSE r
(* The first of the starts from which the rest of the pattern matches.            *)
RECURSIVE Tried(_, _, _)
Tried(P, S, r) ==
  CASE r.is # "onward" -> r
    [] r.to = <<>> -> NoMatch
    [] OTHER ->
         Else(Tried(P, S, Item(P, S, Head(r.to), r.p, r.captures, IF Is(P, r.p, 37) THEN Peek(P, r.p + 1) ELSE -1)),
              Tried(P, S, Onward(Tail(r.to), r.p, r.captures)))
Match(P, S, s, p, captures) == Tried(P, S, Onward(<<s>>, p, captures))

-----------------------------------------------------------------------------
(* One matcher serves several searches of gmatch and gsub: it remembers the end *)
(* of its last match, and that an anchored pattern was tried.                  *)

MatchedAgain(r, m) == r.is = "match"   \* a mutant: may end where the last one did
Accepted(r, m) == r.is = "match" /\ r.end # m.last
NewMatcher == [last |-> -1, anchored |-> FALSE]
Anchored(P, gmatch) == Is(P, 0, 94) /\ ~gmatch
NotFound(m) == [is |-> "none", start |-> 0, end |-> 0, captures |-> <<>>, matcher |-> m]
RECURSIVE SearchFrom(_, _, _, _, _, _, _)
SearchFrom(P, S, m, start, once, from, r) ==
  CASE r.is = "error" \/ Accepted(r, m) ->
         [is |-> r.is, start |-> start, end |-> r.end, captures |-> r.captures, matcher |-> [m EXCEPT !.last = r.end]]
    [] once \/ start >= Len(S) -> NotFound(m)
    [] OTHER -> SearchFrom(P, S, m, start + 1, once, from, Match(P, S, start + 1, from, <<>>))
Search(P, S, m, init, gmatch) ==
  LET once == Anchored(P, gmatch)
      from == IF once THEN 1 ELSE 0
  IN IF (once /\ m.anchored) \/ init > Len(S) THEN NotFound(m)
     ELSE SearchFrom(P, S, [m EXCEPT !.anchored = once \/ @], init, once, from, Match(P, S, init, from, <<>>))

(* The values of a match's captures: positions count from 1.                   *)
Position(n) == [position |-> n]
CapturesEnd(r) == \A i \in DOMAIN r.captures : r.captures[i].position \/ r.captures[i].end # Unfinished
Sound(r) == r.is = "match" /\ CapturesEnd(r)
CaptureValues(r, S) ==
  [i \in DOMAIN r.captures |->
     IF r.captures[i].position THEN Position(r.captures[i].start + 1)
     ELSE [text |-> Slice(S, r.captures[i].start, r.captures[i].end)]]
MatchValues(r, S) ==
  IF r.captures = <<>> THEN <<[text |-> Slice(S, r.start, r.end)]>> ELSE CaptureValues(r, S)

-----------------------------------------------------------------------------
(* The library functions.  An answer is what the call returned, or an error.    *)

Raises == [raises |-> TRUE]
Returns(values) == [raises |-> FALSE, values |-> values]
NilAnswer == Returns(<<>>)
Index(n) == [position |-> n]

NormalizeIndex(i, length) == IF i >= 0 THEN i ELSE length + i + 1
StartIndex(init, length) == Max({NormalizeIndex(init, length), 1}) - 1

Answer(r, values) ==
  CASE r.is = "none" -> NilAnswer
    [] ~Sound(r) -> Raises
    [] OTHER -> Returns(values)
Occurs(P, S, i) == Slice(S, i, i + Len(P)) = P
PlainFind(S, P, start) ==
  LET places == {i \in start .. Len(S) - Len(P) : Occurs(P, S, i)}
  IN IF places = {} THEN NilAnswer ELSE Returns(<<Index(Min(places) + 1), Index(Min(places) + Len(P))>>)
FoundValues(r, S) == Answer(r, <<Index(r.start + 1), Index(r.end)>> \o CaptureValues(r, S))
Find(S, P, init, plain) ==
  CASE StartIndex(init, Len(S)) > Len(S) -> NilAnswer
    [] plain -> PlainFind(S, P, StartIndex(init, Len(S)))
    [] OTHER -> FoundValues(Search(P, S, NewMatcher, StartIndex(init, Len(S)), FALSE), S)
MatchedValues(r, S) == Answer(r, MatchValues(r, S))
MatchFn(S, P, init) == MatchedValues(Search(P, S, NewMatcher, StartIndex(init, Len(S)), FALSE), S)

(* The values of every call of gmatch's iterator until it ends; r is the search    *)
(* the next call makes.                                                            *)
After(r) == IF r.end = r.start THEN r.end + 1 ELSE r.end
Consed(first, rest) == IF rest.raises THEN Raises ELSE Returns(<<first>> \o rest.values)
RECURSIVE Iterate(_, _, _)
Iterate(S, P, r) ==
  CASE r.is = "none" -> Returns(<<>>)
    [] ~Sound(r) -> Raises
    [] r.end = r.start /\ r.end = Len(S) -> Returns(<<MatchValues(r, S)>>)
    [] OTHER -> Consed(MatchValues(r, S), Iterate(S, P, Search(P, S, r.matcher, After(r), TRUE)))
Gmatch(S, P, init) == Iterate(S, P, Search(P, S, NewMatcher, StartIndex(init, Len(S)), TRUE))

(* A replacement: a text with % escapes, or what a table or a function gives    *)
(* for the first capture; a key that is missing keeps the match.               *)
Decimal(n) == IF n < 10 THEN <<48 + n>> ELSE <<48 + n \div 10, 48 + (n % 10)>>
Bytes(value) == IF "text" \in DOMAIN value THEN value.text ELSE Decimal(value.position)
Whole(r, S) == [text |-> Slice(S, r.start, r.end)]
Joined(first, rest) == IF rest.raises THEN Raises ELSE Returns(first \o rest.values)
RECURSIVE Expanded(_, _, _)
Expanded(repl, whole, captures) ==
  LET code == IF Len(repl) > 1 THEN repl[2] ELSE -1
      rest == SubSeq(repl, 3, Len(repl))
  IN CASE repl = <<>> -> Returns(<<>>)
       [] repl[1] # 37 -> Joined(<<repl[1]>>, Expanded(Tail(repl), whole, captures))
       [] code = 37 -> Joined(<<37>>, Expanded(rest, whole, captures))
       [] code = 48 \/ (code = 49 /\ captures = <<>>) -> Joined(whole, Expanded(rest, whole, captures))
       [] code - 48 \in DOMAIN captures /\ code \in Digit -> Joined(Bytes(captures[code - 48]), Expanded(rest, whole, captures))
       [] OTHER -> Raises
Replacement(repl, whole, values) ==
  CASE repl.kind = "text" -> Expanded(repl.text, whole.text, values)
    [] OTHER ->
         LET key == IF values = <<>> THEN whole ELSE values[1]
         IN CASE key \notin DOMAIN repl.map -> Returns(whole.text)
              [] "other" \in DOMAIN repl.map[key] -> Raises
              [] OTHER -> Returns(repl.map[key].text)

(* The rest of the substitution once the match r is found: the text since the last  *)
(* match, the replacement and, behind an empty match, the byte the next search       *)
(* begins behind.                                                                    *)
Skipped(r, S) == IF r.end = r.start THEN Slice(S, r.end, r.end + 1) ELSE <<>>
Prefixed(text, rest) == IF rest.raises THEN Raises ELSE [rest EXCEPT !.text = text \o @]
Substituted(S, copied, r, new, rest) ==
  IF new.raises THEN Raises ELSE Prefixed(Slice(S, copied, r.start) \o new.values \o Skipped(r, S), rest)
RECURSIVE GsubFrom(_, _, _, _, _, _, _)
GsubFrom(S, P, repl, r, copied, count, limit) ==
  CASE count >= limit \/ r.is = "none" -> [raises |-> FALSE, text |-> Slice(S, copied, Len(S)), count |-> count]
    [] ~Sound(r) -> Raises
    [] OTHER -> Substituted(S, copied, r, Replacement(repl, Whole(r, S), CaptureValues(r, S)),
                            GsubFrom(S, P, repl, Search(P, S, r.matcher, After(r), FALSE), r.end + Len(Skipped(r, S)), count + 1, limit))
Gsub(S, P, repl, limit) == GsubFrom(S, P, repl, Search(P, S, NewMatcher, 0, FALSE), 0, 0, limit)

=============================================================================

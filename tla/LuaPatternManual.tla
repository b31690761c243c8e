-------------------------- MODULE LuaPatternManual --------------------------
(* What the Lua manual says a pattern matches, over patterns given as their    *)
(* items instead of their bytes: a match is a way to cut a part of the subject *)
(* into one piece per item, and of all of them the preferred one is taken.     *)
EXTENDS Integers, Sequences, FiniteSetsExt, Functions

(* text: the item's bytes.  kind: "one" has a set of bytes, the fewest and the  *)
(* most repetitions and says which it prefers.                                 *)
Piece(S, from, to) == SubSeq(S, from + 1, to)
ByteAt(S, i) == IF i \in 1 .. Len(S) THEN S[i] ELSE 0
Bounded(item, length) == length >= item.fewest /\ length <= item.most
Count(s, byte) == Quantify(DOMAIN s, LAMBDA i : s[i] = byte)
Even(s, item) == Count(s, item.opens) = Count(s, item.closes)
Opening(items) == {i \in DOMAIN items : items[i].kind \in {"open", "here"}}
Nth(set, n) == CHOOSE i \in set : Cardinality({j \in set : j <= i}) = n
Depth(items, i, j) ==
  Cardinality({k \in i .. j : items[k].kind = "open"}) - Cardinality({k \in i .. j : items[k].kind = "close"})
Closing(items, i) == Min({j \in i .. Len(items) : items[j].kind = "close" /\ Depth(items, i, j) = 0})
(* The piece the n-th capture holds, for cuts into pieces.                      *)
Held(S, items, cuts, n) ==
  LET i == Nth(Opening(items), n)
  IN IF items[i].kind = "here" THEN [position |-> cuts[i] + 1]
     ELSE [text |-> Piece(S, cuts[i], cuts[Closing(items, i)])]

(* Item i of the pattern matches the bytes between two cuts.                    *)
Fits(S, items, i, cuts, to) ==
  LET item == items[i]
      from == cuts[i]
      piece == Piece(S, from, to)
  IN CASE item.kind = "one" -> Bounded(item, to - from) /\ \A k \in DOMAIN piece : piece[k] \in item.set
       [] item.kind = "back" -> piece = Held(S, items, cuts, item.n).text
       [] item.kind = "balance" ->
            /\ to > from /\ piece[1] = item.opens /\ Even(piece, item)
            /\ \A k \in 1 .. Len(piece) - 1 : ~Even(SubSeq(piece, 1, k), item)
       [] item.kind = "frontier" ->
            to = from /\ ByteAt(S, from) \notin item.set /\ ByteAt(S, from + 1) \in item.set
       [] item.kind = "end" -> to = from /\ from = Len(S)
       [] OTHER -> to = from

RECURSIVE Cuts(_, _, _)
Cuts(S, items, cuts) ==
  LET i == Len(cuts)
  IN IF i > Len(items) THEN {cuts}
     ELSE UNION {Cuts(S, items, Append(cuts, to)) : to \in {t \in cuts[i] .. Len(S) : Fits(S, items, i, cuts, t)}}
Prefers(items, c, d) ==
  LET first == Min({i \in DOMAIN c : c[i] # d[i]})
  IN IF items[first - 1].lazy THEN c[first] < d[first] ELSE c[first] > d[first]
Best(items, all) == CHOOSE c \in all : \A d \in all \ {c} : Prefers(items, c, d)

(* The match at or behind a position that does not end where the last one did.  *)
Last(c) == c[Len(c)]
MatchAt(S, items, start, last) ==
  LET all == Cuts(S, items, <<start>>)
  IN IF all = {} \/ Last(Best(items, all)) = last THEN {} ELSE {Best(items, all)}
Matches(S, items, anchored, from, last) ==
  UNION {MatchAt(S, items, s, last) : s \in IF anchored THEN {from} \cap 0 .. Len(S) ELSE from .. Len(S)}
First(found) == CHOOSE c \in found : \A d \in found : c[1] <= d[1]
Captured(S, items, cuts) == [n \in 1 .. Cardinality(Opening(items)) |-> Held(S, items, cuts, n)]
Values(S, items, cuts) ==
  IF Opening(items) = {} THEN <<[text |-> Piece(S, cuts[1], Last(cuts))]>> ELSE Captured(S, items, cuts)

(* All matches one after the other.                                             *)
RECURSIVE Successive(_, _, _, _, _, _)
Successive(S, items, anchored, from, last, limit) ==
  LET found == Matches(S, items, anchored, from, last)
      next == First(found)
  IN IF found = {} \/ limit = 0 THEN <<>>
     ELSE <<next>> \o
          IF anchored THEN <<>>
          ELSE Successive(S, items, FALSE, IF Last(next) = next[1] THEN Last(next) + 1 ELSE Last(next), Last(next), limit - 1)

(* The subject with every match replaced.                                       *)
RECURSIVE Replaced(_, _, _, _)
Replaced(S, matches, news, from) ==
  IF matches = <<>> THEN Piece(S, from, Len(S))
  ELSE Piece(S, from, Head(matches)[1]) \o Head(news)
       \o Replaced(S, Tail(matches), Tail(news), Last(Head(matches)))

=============================================================================

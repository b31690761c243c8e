------------------------------ MODULE LuaUtf8 -------------------------------
(* The utf8 library, stdlib_utf8.py.  Positions given and returned count from  *)
(* 1, the ones used inside from 0, as in the Python code.                      *)
EXTENDS Integers, Sequences, SequencesExt, FiniteSetsExt

Wrong == [raises |-> TRUE]
Gives(values) == [raises |-> FALSE, values |-> values]

ByteAt(s, i) == IF i \in 0 .. Len(s) - 1 THEN s[i + 1] ELSE 0
IsCont(byte) == byte \in 128 .. 191
Cont(s, i) == IsCont(ByteAt(s, i))
PosRelat(value, length) ==
  CASE value >= 0 -> value
    [] -value > length -> 0
    [] OTHER -> length + value + 1

MaxUtf == 2147483647
MaxUnicode == 1114111
(* The largest code of each length, the bits of its first byte, and how many of *)
(* the first byte's values belong to it.                                       *)
Largest == <<127, 2047, 65535, 2097151, 67108863, MaxUtf>>
Lead == <<0, 192, 224, 240, 248, 252>>
LeadCount == <<128, 32, 16, 8, 4, 2>>
Size(code) == Min({n \in 1 .. 6 : code <= Largest[n]})
(* What a digit of six bits stands for, by how many bytes follow.               *)
Place == <<64, 4096, 262144, 16777216, 1073741824>>
Digits(code, after) == IF after = 0 THEN code ELSE code \div Place[after]
Encode(code) ==
  LET n == Size(code)
  IN [i \in 1 .. n |->
        IF i = 1 THEN Lead[n] + (Digits(code, n - 1) % LeadCount[n]) ELSE 128 + (Digits(code, n - i) % 64)]
Char(codes) ==
  IF \E i \in DOMAIN codes : codes[i] \notin 0 .. MaxUtf THEN Wrong ELSE Gives(FlattenSeq([i \in DOMAIN codes |-> Encode(codes[i])]))

(* The first byte tells the length: 0xC0, 0xC1, continuation bytes, 0xFE and    *)
(* 0xFF begin nothing.                                                         *)
FirstBytes(n) == IF n = 2 THEN 194 .. 223 ELSE Lead[n] .. Lead[n] + LeadCount[n] - 1
Length(byte) == {n \in 1 .. 6 : byte \in FirstBytes(n)}
(* The bits of a character of n bytes; at most five follow the first.            *)
Shifted(s, start, n, value, i) == IF i < n THEN value * 64 + (ByteAt(s, start + i) % 64) ELSE value
Continued(s, start, n) ==
  LET More(value, i) == Shifted(s, start, n, value, i)
  IN More(More(More(More(More(ByteAt(s, start) % LeadCount[n], 1), 2), 3), 4), 5)
NoMinimum(n) == 0   \* a mutant: takes overlong encodings
Minimum(n) == IF n = 1 THEN 0 ELSE Largest[n - 1] + 1
Surrogate(code) == code \in 55296 .. 57343
Invalid == [valid |-> FALSE]
Decode(s, start, lax) ==
  LET lengths == Length(ByteAt(s, start))
      n == Min(lengths)
      value == Continued(s, start, n)
  IN IF \/ start \notin 0 .. Len(s) - 1 \/ lengths = {}
        \/ start + n > Len(s) \/ \E i \in start + 1 .. start + n - 1 : ~Cont(s, i)
        \/ value < Minimum(n)
        \/ ~lax /\ (value > MaxUnicode \/ Surrogate(value))
     THEN Invalid ELSE [valid |-> TRUE, code |-> value, end |-> start + n]

CodesBetween(s, pos, limit, lax) ==
  LET from[p \in 0 .. Len(s)] ==
        LET d == Decode(s, p, lax)
        IN CASE p >= limit -> Gives(<<>>)
             [] p < limit /\ ~d.valid -> Wrong
             [] OTHER -> IF from[d.end].raises THEN Wrong ELSE Gives(<<d.code>> \o from[d.end].values)
  IN from[pos]
Codepoint(s, i, j, lax) ==
  LET first == PosRelat(i, Len(s))
      final == PosRelat(j, Len(s))
  IN CASE first < 1 \/ final > Len(s) -> Wrong
       [] first > final /\ first >= 1 /\ final <= Len(s) -> Gives(<<>>)
       [] OTHER -> CodesBetween(s, first - 1, final, lax)

(* The number of characters, or nil and where the first invalid one is.         *)
Counted(s, pos, final, lax) ==
  LET from[p \in 0 .. Len(s)] ==
        LET d == Decode(s, p, lax)
        IN CASE p > final -> [count |-> 0]
             [] p <= final /\ ~d.valid -> [invalid |-> p + 1]
             [] OTHER -> IF "invalid" \in DOMAIN from[d.end] THEN from[d.end]
                         ELSE [count |-> from[d.end].count + 1]
  IN Gives(from[pos])
LengthFn(s, i, j, lax) ==
  LET first == PosRelat(i, Len(s)) - 1
      final == PosRelat(j, Len(s)) - 1
  IN IF first < 0 \/ first > Len(s) \/ final >= Len(s) THEN Wrong ELSE Counted(s, first, final, lax)

BackOver(s, pos) == Max({p \in 0 .. pos : p = 0 \/ ~Cont(s, p)})
ForthOver(s, pos) == Min({p \in pos .. pos + Len(s) : ~Cont(s, p)})
(* Moving over characters: what is left to move, and where.                     *)
Moved(s, pos, n) ==
  LET from[p \in 0 .. Len(s), k \in Int] ==
        CASE k < 0 /\ p > 0      -> from[BackOver(s, p - 1), k + 1]
          [] k > 0 /\ p < Len(s) -> from[ForthOver(s, p + 1), k - 1]
          [] OTHER -> [left |-> k, pos |-> p]
  IN from[pos, n]
Offset(s, n, i) ==
  LET pos == PosRelat(i, Len(s)) - 1
      m == CASE n = 0 -> [left |-> 0, pos |-> BackOver(s, pos)]
             [] n < 0 -> Moved(s, pos, n)
             [] OTHER -> Moved(s, pos, n - 1)
  IN CASE pos < 0 \/ pos > Len(s) \/ (n # 0 /\ Cont(s, pos)) -> Wrong
       [] m.left # 0 -> Gives(<<>>)
       [] Cont(s, m.pos) -> Wrong
       [] OTHER -> Gives(<<m.pos + 1, IF ByteAt(s, m.pos) >= 128 THEN ForthOver(s, m.pos + 1) ELSE m.pos + 1>>)
DefaultStart(s, n) == IF n >= 0 THEN 1 ELSE Len(s) + 1

(* What utf8.codes hands out, call after call, until it ends or raises.         *)
CodesFrom(s, lax) ==
  LET from[control \in 0 .. Len(s)] ==
        LET pos == IF control < Len(s) THEN ForthOver(s, control) ELSE control
            d == Decode(s, pos, lax)
        IN CASE pos >= Len(s) -> Gives(<<>>)
             [] pos < Len(s) /\ (~d.valid \/ (d.end < Len(s) /\ Cont(s, d.end))) -> Wrong
             [] OTHER -> IF from[pos + 1].raises THEN Wrong
                         ELSE Gives(<<<<pos + 1, d.code>>>> \o from[pos + 1].values)
  IN from[0]
Codes(s, lax) == IF Cont(s, 0) THEN Wrong ELSE CodesFrom(s, lax)

=============================================================================

------------------------------ MODULE LuaLexer ------------------------------
(* The lexer, lexer.py, the numerals of values.py and the literals that        *)
(* string.format's %q writes (stdlib_string.py).  A source is a sequence of    *)
(* ASCII bytes; positions count from 0.  One step reads one token, a comment or *)
(* a space.                                                                    *)
EXTENDS Integers, Sequences, SequencesExt, FiniteSetsExt
CONSTANTS
  Words,    \* Lua integers are numbers modulo Words; 2^64 in the program
  Keywords  \* the reserved words, as bytes
U == INSTANCE LuaUtf8

VARIABLES
  src,     \* the text
  lex,     \* [i, line, newline]: the position, its line, the newline byte just taken
  out      \* the tokens so far; the last one may be an error
lvars == <<src, lex, out>>

Peek(s, i) == IF i < Len(s) THEN s[i + 1] ELSE -1
Is(s, i, byte) == Peek(s, i) = byte
Text(s, from, to) == SubSeq(s, from + 1, to)
CR == 13
LF == 10
Newlines == {CR, LF}
Spaces == (9 .. 13) \cup (28 .. 32)
Digits == 48 .. 57
HexDigits == Digits \cup (65 .. 70) \cup (97 .. 102)
Letters == (65 .. 90) \cup (97 .. 122)
NameBytes == Letters \cup Digits \cup {95}
LowerCase(byte) == IF byte \in 65 .. 90 THEN byte + 32 ELSE byte
(* The first position from i on whose byte is not in the set.                  *)
Span(s, i, set) == Min({j \in i .. Len(s) : Peek(s, j) \notin set})

(* A carriage return and a line feed, in either order, are one newline.          *)
Take(st, byte) ==
  LET second == st.newline # -1 /\ st.newline # byte
  IN IF byte \in Newlines
     THEN [i |-> st.i + 1, line |-> IF second THEN st.line ELSE st.line + 1, newline |-> IF second THEN -1 ELSE byte]
     ELSE [i |-> st.i + 1, line |-> st.line, newline |-> -1]
TakeTo(s, st, to) == FoldLeft(Take, st, Text(s, st.i, to))

-----------------------------------------------------------------------------
(* Numerals.  A float is known by its text only.                               *)

Digit(byte) ==
  CASE byte \in Digits -> byte - 48
    [] byte \in 65 .. 70 -> byte - 55
    [] OTHER -> byte - 87
Numeric(text, base) == FoldLeft(LAMBDA n, byte : (n * base + Digit(byte)) % (Words * 2), 0, text)
Signed(n) == LET m == n % Words IN IF m > Words \div 2 - 1 THEN m - Words ELSE m
(* The number the decimal digits spell, or Words if it is larger.               *)
Magnitude(text) == FoldLeft(LAMBDA m, byte : Min({m * 10 + Digit(byte), Words}), 0, text)
TooBig(text) == Magnitude(text) > Words \div 2 - 1
IntegerValue(n) == [int |-> n]
FloatValue(text) == [float |-> [k \in DOMAIN text |-> LowerCase(text[k])]]

(* Where the number that begins at i ends: the digits, one point that no other    *)
(* follows, and an exponent.                                                     *)
IsHex(s, i) == Is(s, i, 48) /\ Peek(s, i + 1) \in {88, 120}
FractionWithDigits(s, i, digits) == IF Is(s, i, 46) /\ Peek(s, i + 1) \in digits THEN Span(s, i + 1, digits) ELSE i   \* a mutant: wants a digit behind the point
Fraction(s, i, digits) == IF Is(s, i, 46) /\ ~Is(s, i + 1, 46) THEN Span(s, i + 1, digits) ELSE i
Exponent(s, i, marks) ==
  IF Peek(s, i) \notin marks THEN i
  ELSE Span(s, IF Peek(s, i + 1) \in {43, 45} THEN i + 2 ELSE i + 1, Digits)
NumberEnd(s, i) ==
  IF IsHex(s, i) THEN Exponent(s, Fraction(s, Span(s, i + 2, HexDigits), HexDigits), {80, 112})
  ELSE Exponent(s, Fraction(s, Span(s, IF Is(s, i, 46) THEN i + 1 ELSE i, Digits), Digits), {69, 101})

(* The texts Python's float takes, and float.fromhex those behind 0x.            *)
MarksOf(hex) == IF hex THEN {80, 112} ELSE {69, 101}
Numeral(text, hex) ==
  LET digits == IF hex THEN HexDigits ELSE Digits
      whole == Span(text, 0, digits)
      fraction == IF Is(text, whole, 46) THEN Span(text, whole + 1, digits) ELSE whole
      sign == IF Peek(text, fraction + 1) \in {43, 45} THEN fraction + 2 ELSE fraction + 1
  IN /\ \E k \in 0 .. fraction - 1 : Peek(text, k) \in digits
     /\ \/ fraction = Len(text)
        \/ Peek(text, fraction) \in MarksOf(hex) /\ sign < Len(text) /\ Span(text, sign, Digits) = Len(text)
Floating(text, hex) == \E k \in DOMAIN text : text[k] \in MarksOf(hex) \cup {46}
Body(text) == IF IsHex(text, 0) THEN Text(text, 2, Len(text)) ELSE text
(* The value of a numeral without a sign; {} for malformed ones.                  *)
NumberValue(text) ==
  LET hex == IsHex(text, 0)
      body == Body(text)
  IN CASE ~Numeral(body, hex) -> {}
       [] Floating(body, hex) \/ (~hex /\ TooBig(body)) -> {FloatValue(text)}
       [] hex -> {IntegerValue(Signed(Numeric(body, 16)))}
       [] OTHER -> {IntegerValue(Numeric(body, 10))}

(* parse_lua_number: what tonumber and arithmetic make of a string: spaces        *)
(* around, a sign, and a numeral; {} for nil.                                     *)
Strip(text) ==
  LET kept == {k \in DOMAIN text : text[k] \notin Spaces}
  IN IF kept = {} THEN <<>> ELSE SubSeq(text, Min(kept), Max(kept))
ParseNumber(string) ==
  LET text == Strip(string)
      sign == Peek(text, 0) \in {43, 45}
      minus == Is(text, 0, 45)
      digits == IF sign THEN Tail(text) ELSE text
      body == Body(digits)
      hex == IsHex(digits, 0)
  IN CASE ~Numeral(body, hex) -> {}
       [] Floating(body, hex) -> {FloatValue(text)}
       [] hex -> {IntegerValue(Signed(IF minus THEN -Numeric(body, 16) ELSE Numeric(body, 16)))}
       [] minus /\ Magnitude(body) = Words \div 2 -> {IntegerValue(-(Words \div 2))}
       [] TooBig(body) -> {FloatValue(text)}
       [] OTHER -> {IntegerValue(IF minus THEN -Numeric(body, 10) ELSE Numeric(body, 10))}

-----------------------------------------------------------------------------
(* Strings.                                                                      *)

Read(value, end) == [ok |-> TRUE, value |-> value, end |-> end]
Broken == [ok |-> FALSE]
(* What a backslash and a letter stand for, as pairs.                            *)
Simple == {<<97, 7>>, <<98, 8>>, <<102, 12>>, <<110, 10>>, <<114, 13>>, <<116, 9>>, <<118, 11>>,
           <<92, 92>>, <<34, 34>>, <<39, 39>>}
(* A code has 31 bits: eight digits behind the zeros in front, the first below 8.  *)
HasCode(text) ==
  LET digits == Text(text, Span(text, 0, {48}), Len(text))
  IN Len(digits) < 8 \/ (Len(digits) = 8 /\ Digit(digits[1]) < 8)
CodeOf(text) == FoldLeft(LAMBDA n, byte : n * 16 + Digit(byte), 0, text)
Escape(s, i) ==   \* i is the position behind the backslash
  LET byte == Peek(s, i)
      brace == Span(s, i + 2, HexDigits)
      decimal == Min({Span(s, i, Digits), i + 3})
  IN CASE \E p \in Simple : p[1] = byte -> Read(<<(CHOOSE p \in Simple : p[1] = byte)[2]>>, i + 1)
       [] byte = 120 ->
            IF Peek(s, i + 1) \in HexDigits /\ Peek(s, i + 2) \in HexDigits
            THEN Read(<<Numeric(Text(s, i + 1, i + 3), 16)>>, i + 3) ELSE Broken
       [] byte = 117 ->
            IF Is(s, i + 1, 123) /\ brace > i + 2 /\ Is(s, brace, 125) /\ HasCode(Text(s, i + 2, brace))
            THEN Read(U!Encode(CodeOf(Text(s, i + 2, brace))), brace + 1) ELSE Broken
       [] byte = 122 -> Read(<<>>, Span(s, i + 1, Spaces))
       [] byte \in Newlines ->
            Read(<<LF>>, IF Peek(s, i + 1) \in Newlines \ {byte} THEN i + 2 ELSE i + 1)
       [] byte \in Digits ->
            IF Numeric(Text(s, i, decimal), 10) <= 255 THEN Read(<<Numeric(Text(s, i, decimal), 10)>>, decimal) ELSE Broken
       [] OTHER -> Broken
RECURSIVE ShortString(_, _, _)
ShortString(s, i, quote) ==
  LET byte == Peek(s, i)
      escaped == Escape(s, i + 1)
      part == IF byte # 92 THEN Read(<<byte>>, i + 1) ELSE escaped
      rest == ShortString(s, part.end, quote)
  IN CASE byte = quote -> Read(<<>>, i + 1)
       [] byte \in Newlines \cup {-1} -> Broken
       [] ~part.ok -> Broken
       [] OTHER -> IF rest.ok THEN Read(part.value \o rest.value, rest.end) ELSE Broken

(* The level of a long bracket, {} where none begins.                            *)
Level(s, i, bracket) ==
  LET end == Span(s, i + 1, {61}) IN IF Is(s, i, bracket) /\ Is(s, end, bracket) THEN {end - i - 1} ELSE {}
NewlineEnd(s, i) ==
  CASE Peek(s, i) \in Newlines -> IF Peek(s, i + 1) \in Newlines \ {Peek(s, i)} THEN i + 2 ELSE i + 1
    [] OTHER -> i
RECURSIVE LongBody(_, _, _)
LongBody(s, i, level) ==
  LET end == IF Peek(s, i) \in Newlines THEN NewlineEnd(s, i) ELSE i + 1
      part == IF Peek(s, i) \in Newlines THEN LF ELSE Peek(s, i)
      rest == LongBody(s, end, level)
  IN CASE i >= Len(s) -> Broken
       [] level \in Level(s, i, 93) -> Read(<<>>, i + level + 2)
       [] OTHER -> IF rest.ok THEN Read(<<part>> \o rest.value, rest.end) ELSE Broken
LongString(s, i, level) == LongBody(s, NewlineEnd(s, i + level + 2), level)

-----------------------------------------------------------------------------
(* The steps of the lexer.                                                        *)

Start(s) == [i |-> IF Is(s, 0, 35) /\ Is(s, 1, 33) THEN Span(s, 0, (0 .. 255) \ Newlines) ELSE 0, line |-> 1, newline |-> -1]
LexInit(s) == src = s /\ lex = Start(s) /\ out = <<>>

Byte == Peek(src, lex.i)
Next_(n) == Peek(src, lex.i + n)
Finished == out # <<>> /\ Last(out).kind \in {"eof", "error"}
Scanning == ~Finished /\ lex.i < Len(src)
Comment == Byte = 45 /\ Next_(1) = 45
Emit(kind, value, end) ==
  /\ out' = Append(out, [kind |-> kind, value |-> value, line |-> lex.line])
  /\ lex' = TakeTo(src, lex, end)
  /\ UNCHANGED src
Skip(end) == lex' = TakeTo(src, lex, end) /\ UNCHANGED <<src, out>>
Reject == Emit("error", <<>>, lex.i)

SkipSpace == Scanning /\ Byte \in Spaces /\ Skip(lex.i + 1)
CommentLevel == Level(src, lex.i + 2, 91)
ShortComment ==
  /\ Scanning /\ Comment /\ CommentLevel = {}
  /\ Skip(Span(src, lex.i, (0 .. 255) \ Newlines))
LongComment ==
  /\ Scanning /\ Comment
  /\ \E level \in CommentLevel :
       LET r == LongString(src, lex.i + 2, level) IN IF r.ok THEN Skip(r.end) ELSE Reject
Name ==
  /\ Scanning /\ Byte \in NameBytes \ Digits
  /\ LET end == Span(src, lex.i, NameBytes)
         word == Text(src, lex.i, end)
     IN Emit(IF word \in Keywords THEN "keyword" ELSE "name", word, end)
Number ==
  /\ Scanning /\ (Byte \in Digits \/ (Byte = 46 /\ Next_(1) \in Digits))
  /\ LET end == NumberEnd(src, lex.i)
         values == NumberValue(Text(src, lex.i, end))
     IN IF values = {} \/ Peek(src, end) \in Letters \cup {95} THEN Reject
        ELSE \E v \in values : Emit("number", v, end)
Short ==
  /\ Scanning /\ Byte \in {34, 39}
  /\ LET r == ShortString(src, lex.i + 1, Byte) IN IF r.ok THEN Emit("string", r.value, r.end) ELSE Reject
Long ==
  /\ Scanning
  /\ \E level \in Level(src, lex.i, 91) :
       LET r == LongString(src, lex.i, level) IN IF r.ok THEN Emit("string", r.value, r.end) ELSE Reject
ThreeByte == {<<46, 46, 46>>}
TwoByte == {<<61, 61>>, <<126, 61>>, <<60, 61>>, <<62, 61>>, <<47, 47>>, <<60, 60>>, <<62, 62>>, <<46, 46>>, <<58, 58>>}
OneByte == {43, 45, 42, 47, 37, 94, 35, 38, 124, 126, 60, 62, 61, 40, 41, 123, 125, 91, 93, 59, 44, 58, 63, 46}
Ahead(n) == Text(src, lex.i, Min({lex.i + n, Len(src)}))
OperatorSize ==
  CASE Ahead(3) \in ThreeByte -> 3
    [] Ahead(2) \in TwoByte -> 2
    [] Byte \in OneByte -> 1
    [] OTHER -> 0
Other ==
  /\ ~Comment /\ Byte \notin Spaces \cup NameBytes \cup {34, 39}
  /\ ~(Byte = 46 /\ Next_(1) \in Digits) /\ Level(src, lex.i, 91) = {}
Operator ==
  /\ Scanning /\ Other
  /\ IF OperatorSize = 0 \/ (Byte = 91 /\ Next_(1) = 61) THEN Reject
     ELSE Emit("operator", Ahead(OperatorSize), lex.i + OperatorSize)
EndOfFile == ~Finished /\ lex.i >= Len(src) /\ Emit("eof", <<>>, lex.i)

LexNext ==
  SkipSpace \/ ShortComment \/ LongComment \/ Name \/ Number \/ Short \/ Long \/ Operator \/ EndOfFile

-----------------------------------------------------------------------------
(* %q: a string as a literal that reads back as the string.                       *)

Escaped(byte) == <<92>> \o (IF byte < 10 THEN <<48 + byte>> ELSE IF byte < 100 THEN <<48 + byte \div 10, 48 + (byte % 10)>>
                            ELSE <<49, 48 + ((byte \div 10) % 10), 48 + (byte % 10)>>)
NeverPadded(byte) == Escaped(byte)   \* a mutant: lets a digit that follows join the escape
Padded(byte) == <<92, 48 + byte \div 100, 48 + ((byte \div 10) % 10), 48 + (byte % 10)>>
QuoteByte(string, k) ==
  LET byte == string[k]
  IN CASE byte \in {34, 92, LF} -> <<92, byte>>
       [] byte < 32 \/ byte = 127 ->
            IF k < Len(string) /\ string[k + 1] \in Digits THEN Padded(byte) ELSE Escaped(byte)
       [] OTHER -> <<byte>>
Quote(string) == <<34>> \o FlattenSeq([k \in DOMAIN string |-> QuoteByte(string, k)]) \o <<34>>

=============================================================================

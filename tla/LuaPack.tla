------------------------------ MODULE LuaPack -------------------------------
(* string.pack, unpack and packsize, stdlib_string.py.  A format is a sequence *)
(* of options [op, n], n being NoNumber where none is written.  The sizes of   *)
(* numbers in bytes and the alignments are the real ones; a byte has only Base *)
(* values, so that a Lua integer of Word bytes fits TLC's integers.            *)
EXTENDS Integers, Sequences, FiniteSets
CONSTANTS
  Base,    \* values of a byte, 256 in the program
  Native   \* the byte order of the machine, "little" or "big"

Word == 8
MaxSize == 16
Largest == Base ^ Word \div 2 - 1
Smallest == -Largest - 1
NoNumber == -1

Failed == [raises |-> TRUE]
Ok(value) == [raises |-> FALSE, value |-> value]
Min2(a, b) == IF a < b THEN a ELSE b
PowerOfTwo(n) == n \in {1, 2, 4, 8, 16}

-----------------------------------------------------------------------------
(* One option of the format, with the parser's byte order and alignment.       *)

Sizes == [b |-> 1, B |-> 1, h |-> 2, H |-> 2, l |-> 8, L |-> 8, j |-> 8, J |-> 8, T |-> 8,
          i |-> 4, I |-> 4, s |-> 8, f |-> 4, d |-> 8, n |-> 8]
SignedOps == {"b", "h", "l", "j", "i"}
Fixed == {"b", "B", "h", "H", "l", "L", "j", "J", "T", "f", "d", "n"}
Integral == {"b", "B", "h", "H", "l", "L", "j", "J", "T", "i", "I"}
Endian(op) == CASE op = "<" -> "little" [] op = ">" -> "big" [] OTHER -> Native
Given(o, default) == IF o.n = NoNumber THEN default ELSE o.n
Parser == [endian |-> Native, maxalign |-> 1]

(* The parser after an option that configures it; what any other one asks for.  *)
Configures(o) == o.op \in {"<", ">", "=", "!"}
Configured(o, parser) ==
  CASE o.op # "!" -> Ok([parser EXCEPT !.endian = Endian(o.op)])
    [] Given(o, Word) \notin 1 .. MaxSize \/ ~PowerOfTwo(Given(o, Word)) -> Failed
    [] OTHER -> Ok([parser EXCEPT !.maxalign = Given(o, Word)])
Kind(op) ==
  CASE op \in Integral -> "int"
    [] op \in {"f", "d", "n"} -> "float"
    [] op = "c" -> "fixed"
    [] op = "z" -> "zero"
    [] op = "s" -> "sized"
    [] op = "x" -> "padding"
    [] OTHER -> "align"
Asks(o, size, alignment) == [kind |-> Kind(o.op), signed |-> o.op \in SignedOps, size |-> size, alignment |-> alignment]
Plain(o, parser) ==
  LET size == IF o.op \in Fixed THEN Sizes[o.op] ELSE Given(o, Sizes[o.op])
      alignment == Min2(size, parser.maxalign)
  IN IF size \notin 1 .. MaxSize \/ ~PowerOfTwo(alignment) THEN Failed ELSE Ok(Asks(o, size, alignment))
Requested(o, parser) ==
  CASE o.op \in DOMAIN Sizes -> Plain(o, parser)
    [] o.op = "c" -> IF o.n = NoNumber THEN Failed ELSE Ok(Asks(o, o.n, 1))
    [] o.op = "x" -> Ok(Asks(o, 1, 1))
    [] OTHER -> Ok(Asks(o, 0, 1))

(* X takes the alignment of the option behind it and that option with it.       *)
Aligning(format, i, parser) ==
  LET following == Requested(format[i + 1], parser)
  IN IF \/ i = Len(format) \/ Configures(format[i + 1])
        \/ following.raises \/ following.value.kind \in {"fixed", "zero", "align"}
     THEN Failed ELSE Ok(Asks(format[i], 0, following.value.alignment))
RECURSIVE OptionsFrom(_, _, _)
OptionsFrom(format, i, parser) ==
  LET o == format[i]
      configured == Configured(o, parser)
      asked == IF o.op = "X" THEN Aligning(format, i, parser) ELSE Requested(o, parser)
      rest == OptionsFrom(format, IF o.op = "X" THEN i + 2 ELSE i + 1, IF Configures(o) THEN configured.value ELSE parser)
  IN CASE i > Len(format) -> <<>>
       [] (IF Configures(o) THEN configured.raises ELSE asked.raises) -> <<Failed>>
       [] Configures(o) -> rest
       [] OTHER -> <<[raises |-> FALSE, value |-> asked.value, endian |-> parser.endian]>> \o rest
(* The options one by one; the last one raises if the format is malformed.      *)
Options(format) == OptionsFrom(format, 1, Parser)

-----------------------------------------------------------------------------
(* Bytes of integers.                                                           *)

PaddingTwice(offset, alignment) == alignment - (offset % alignment)   \* a mutant: pads what is aligned
Padding(offset, alignment) == (-offset) % alignment
TooLong(offset, amount) == amount < 0 \/ offset > Largest - amount
Swapped(bytes, endian) ==
  IF endian = "little" THEN bytes ELSE [i \in DOMAIN bytes |-> bytes[Len(bytes) + 1 - i]]
SignByte(integer) == IF integer < 0 THEN Base - 1 ELSE 0
(* Two's complement; the bytes above the word repeat the sign, or are zero for   *)
(* an unsigned number.                                                          *)
ToBytes(integer, size, endian, signed) ==
  Swapped([i \in 1 .. size |-> IF i > Word THEN IF signed THEN SignByte(integer) ELSE 0
                               ELSE (integer \div Base ^ (i - 1)) % Base], endian)
FitsSize(integer, size, signed) ==
  \/ size >= Word
  \/ IF signed THEN integer \in -(Base ^ size \div 2) .. Base ^ size \div 2 - 1 ELSE integer \in 0 .. Base ^ size - 1

RECURSIVE Value(_, _)
Value(bytes, n) == IF n = 0 THEN 0 ELSE Value(bytes, n - 1) + bytes[n] * Base ^ (n - 1)
Wrapped(unsigned, bytes) ==
  IF unsigned > Base ^ bytes \div 2 - 1 THEN unsigned - Base ^ bytes ELSE unsigned
UnpackInteger(data, offset, size, endian, signed) ==
  LET bytes == Swapped(SubSeq(data, offset + 1, offset + size), endian)
      low == Value(bytes, Min2(size, Word))
      extension == IF signed THEN SignByte(Wrapped(low, Word)) ELSE 0
  IN CASE offset + size > Len(data) -> Failed
       [] size < Word -> Ok(IF signed THEN Wrapped(low, size) ELSE low)
       [] \E i \in Word + 1 .. size : bytes[i] # extension -> Failed
       [] OTHER -> Ok(Wrapped(low, Word))

-----------------------------------------------------------------------------
(* pack.  Floats are numbers of their own whose bytes some function tells; here  *)
(* the ones of the number they are made from.                                    *)

Zeros(n) == [i \in 1 .. n |-> 0]
HasZero(text) == \E i \in DOMAIN text : text[i] = 0
TooManyFor(text, size) == size < Word /\ Len(text) >= Base ^ size
Packed(o, value) ==
  LET want == o.value
      type == IF want.kind \in {"int", "float"} THEN want.kind ELSE "text"
  IN CASE type \notin DOMAIN value -> Failed
       [] type = "int" -> IF FitsSize(value.int, want.size, want.signed)
                          THEN Ok(ToBytes(value.int, want.size, o.endian, want.signed)) ELSE Failed
       [] type = "float" -> Ok(ToBytes(value.float, want.size, o.endian, TRUE))
       [] want.kind = "fixed" -> IF Len(value.text) > want.size THEN Failed
                                 ELSE Ok(value.text \o Zeros(want.size - Len(value.text)))
       [] want.kind = "zero" -> IF HasZero(value.text) THEN Failed ELSE Ok(Append(value.text, 0))
       [] OTHER -> IF TooManyFor(value.text, want.size) THEN Failed
                   ELSE Ok(ToBytes(Len(value.text), want.size, o.endian, FALSE) \o value.text)
RECURSIVE PackFrom(_, _, _)
PackFrom(options, values, out) ==
  LET o == Head(options)
      want == o.value
      padded == out \o Zeros(Padding(Len(out), want.alignment))
      packed == Packed(o, Head(values))
  IN CASE options = <<>> -> Ok(out)
       [] o.raises -> Failed
       [] TooLong(Len(padded), want.size) -> Failed
       [] want.kind = "padding" -> PackFrom(Tail(options), values, Append(padded, 0))
       [] want.kind = "align" -> PackFrom(Tail(options), values, padded)
       [] values = <<>> \/ packed.raises -> Failed
       [] OTHER -> PackFrom(Tail(options), Tail(values), padded \o packed.value)
Pack(format, values) == PackFrom(Options(format), values, <<>>)

(* The offset of the first zero byte, none if there is none.                     *)
ZeroAt(data, offset) == {i \in offset .. Len(data) - 1 : data[i + 1] = 0 /\ \A k \in offset .. i - 1 : data[k + 1] # 0}
TextAt(data, from, to) == [value |-> [text |-> SubSeq(data, from + 1, to)], end |-> to]
(* What one option reads at an offset, and where it ends; nothing if it cannot.  *)
ReadAt(o, data, offset) ==
  LET want == o.value
      number == UnpackInteger(data, offset, want.size, o.endian, want.signed \/ want.kind = "float")
      end == offset + want.size
      length == IF number.value < 0 THEN Len(data) + 1 ELSE number.value
      short == want.kind # "zero" /\ end > Len(data)
  IN CASE short \/ (want.kind = "sized" /\ (number.raises \/ length > Len(data) - end)) -> {}
       [] want.kind = "int" -> IF number.raises THEN {} ELSE {[value |-> [int |-> number.value], end |-> end]}
       [] want.kind = "float" -> {[value |-> [float |-> number.value], end |-> end]}
       [] want.kind = "fixed" -> {TextAt(data, offset, end)}
       [] want.kind = "zero" -> {[TextAt(data, offset, z) EXCEPT !.end = z + 1] : z \in ZeroAt(data, offset)}
       [] OTHER -> {TextAt(data, end, end + length)}
RECURSIVE UnpackFrom(_, _, _, _)
UnpackFrom(options, data, at, values) ==
  LET o == Head(options)
      offset == at + Padding(at, o.value.alignment)
      reads == ReadAt(o, data, offset)
      read == CHOOSE r \in reads : TRUE
  IN CASE options = <<>> -> Ok([values |-> values, position |-> at + 1])
       [] o.raises -> Failed
       [] o.value.kind = "padding" ->
            IF offset + 1 > Len(data) THEN Failed ELSE UnpackFrom(Tail(options), data, offset + 1, values)
       [] o.value.kind = "align" -> UnpackFrom(Tail(options), data, offset, values)
       [] reads = {} -> Failed
       [] OTHER -> UnpackFrom(Tail(options), data, read.end, Append(values, read.value))
Unpack(format, data, pos) ==
  LET position == IF pos >= 0 THEN pos ELSE Len(data) + pos + 1
  IN IF position \notin 1 .. Len(data) + 1 THEN Failed ELSE UnpackFrom(Options(format), data, position - 1, <<>>)

RECURSIVE SizeFrom(_, _)
SizeFrom(options, offset) ==
  LET want == Head(options).value
      padding == Padding(offset, want.alignment)
  IN CASE options = <<>> -> Ok(offset)
       [] Head(options).raises -> Failed
       [] want.kind \in {"zero", "sized"} -> Failed
       [] TooLong(offset, padding) \/ TooLong(offset + padding, want.size) -> Failed
       [] OTHER -> SizeFrom(Tail(options), offset + padding + want.size)
PackSize(format) == SizeFrom(Options(format), 0)

=============================================================================

------------------------------- MODULE LuaBinary -------------------------------
(***************************************************************************)
(* Binary chunks as bytes: what string.dump writes and load reads, LuaPyre's    *)
(* own formats and that of PUC-Lua 5.5, and a file that is damaged between.      *)
(* A text is a sequence of bytes, a float constant its eight bytes, a LuaPyre    *)
(* instruction six numbers and a PUC one a word of four bytes, high byte first.  *)
(***************************************************************************)
EXTENDS Integers, Sequences, FiniteSets
LOCAL INSTANCE SequencesExt

CONSTANTS
  IntMax,         \* the largest Lua integer, 2^63 - 1 in the code
  MaxGroups,      \* groups of seven bits that a number may take, 11
  MaxDepth, MaxProtos, MaxItems,   \* nested functions; functions; instructions or constants
  Functions_,     \* functions that are dumped here
  PucFunctions,   \* functions that PUC-Lua dumps, with the true lines of their code
  Fragile         \* those whose chunks get damaged

VARIABLES
  function,       \* the one to dump, or none
  chunk,          \* the bytes
  origin,         \* what made them: the function, the format, and if it was stripped
  damaged,
  parts,          \* what its opaque bytes stand for: compressed code, JSON text
  loaded          \* nothing yet, refused, taken for text, or a function

vars == <<function, chunk, origin, damaged, parts, loaded>>

NilConst == [k |-> "nil"]
FalseConst == [k |-> "false"]
TrueConst == [k |-> "true"]
None == <<-1>>      \* no source
Limit(max) == [k |-> "uint", max |-> max]
Kind(k) == [k |-> k]
Many(of, max) == [k |-> "list", of |-> of, max |-> max]
U32(n) == <<0, 0, n \div 256, n % 256>>

-----------------------------------------------------------------------------
(* Writing.                                                                 *)

Varuint[n \in Nat] == IF n < 128 THEN <<n>> ELSE <<128 + (n % 128)>> \o Varuint[n \div 128]
Sint(n) == Varuint[IF n >= 0 THEN 2 * n ELSE -2 * n - 1]
Text(t) == Varuint[Len(t)] \o t
Listed(write(_), s) == Varuint[Len(s)] \o FlattenSeq([i \in DOMAIN s |-> write(s[i])])

DumpConstant(c) ==
  CASE c.k = "nil" -> <<0>>
    [] c.k = "false" -> <<1>>
    [] c.k = "true" -> <<2>>
    [] c.k = "int" -> <<3>> \o Sint(c.n)
    [] c.k = "float" -> <<4>> \o c.v
    [] c.k = "bytes" -> <<5>> \o Text(c.v)
DumpUpvalue(u) == <<IF u.kind = "local" THEN 0 ELSE 1>> \o Varuint[u.index] \o Text(u.name)
DumpIns(ins) == Varuint[ins[1]] \o FlattenSeq([i \in 1 .. 5 |-> Sint(ins[i + 1])])

RECURSIVE DumpProto(_)
DumpProto(p) ==
  Text(p.name) \o Varuint[p.regs] \o Varuint[p.params] \o <<IF p.va THEN 1 ELSE 0>>
  \o Sint(p.vareg) \o Sint(p.env)
  \o Listed(Text, p.ptypes) \o Listed(Text, p.rtypes) \o Text(p.vatype)
  \o Listed(DumpConstant, p.consts) \o Listed(DumpUpvalue, p.up) \o Listed(DumpProto, p.children)
  \o Listed(DumpIns, p.code)

RECURSIVE Depth(_)
Depth(p) ==
  IF p.children = <<>> THEN 0
  ELSE 1 + CHOOSE d \in 0 .. MaxItems : /\ \E c \in Range(p.children) : Depth(c) = d
                                        /\ \A c \in Range(p.children) : Depth(c) <= d

NativeMagic == <<27, 76, 117, 97, 80, 121, 114, 101, 85, 1, 13, 10, 26, 10>>
DumpNative(p) == NativeMagic \o DumpProto(p)

(* The chunk of string.dump: a PUC header, a tag, the code, compressed, what is *)
(* known of the source, as JSON, and all string constants once.                *)
PucMagic == <<27, 76, 117, 97>>
Data == <<25, 147, 13, 10, 26, 10>>
Ordered(bytes, little) == IF little THEN Reverse(bytes) ELSE bytes
Marker == <<255, 255, 169, 136>>
Header(little) ==
  PucMagic \o <<85, 0>> \o Data \o <<4>> \o Ordered(Marker, little)
  \o <<4>> \o Ordered(<<18, 52, 86, 120>>, little)
  \o <<8>> \o Ordered(<<255, 255, 255, 255>> \o Marker, little)
  \o <<8>> \o Ordered(<<192, 119, 40, 0, 0, 0, 0, 0>>, little)
Tag == <<76, 117, 97, 80, 121, 68, 66, 71, 51, 0>>

RECURSIVE Metadata(_, _, _)
Metadata(p, strip, parent) ==
  [source |-> IF strip \/ p.source = parent THEN None ELSE p.source,
   first |-> p.first, last |-> p.last,
   lines |-> IF strip THEN <<>> ELSE p.lines,
   locals |-> [i \in DOMAIN p.locals |-> IF strip THEN [p.locals[i] EXCEPT !.name = "(temporary)"] ELSE p.locals[i]],
   strip |-> strip,
   children |-> [i \in DOMAIN p.children |-> Metadata(p.children[i], strip, p.source)]]

RECURSIVE Strings(_)
Strings(p) ==
  LET own == SelectSeq(p.consts, LAMBDA c : c.k = "bytes") IN
  [i \in DOMAIN own |-> own[i].v] \o FlattenSeq([i \in DOMAIN p.children |-> Strings(p.children[i])])
Distinct(s) == SelectSeq([i \in DOMAIN s |-> IF \E j \in 1 .. i - 1 : s[j] = s[i] THEN None ELSE s[i]],
                         LAMBDA t : t # None)
Catalog(p) ==
  LET values == Distinct(Strings(p)) IN
  U32(Len(values)) \o FlattenSeq([i \in DOMAIN values |-> U32(Len(values[i])) \o values[i]])

Zipped == -1
Json == -2
Parts(p, strip) == [zip |-> DumpProto(p), json |-> Metadata(p, strip, <<-2>>)]
DumpDebug(p) ==
  Header(TRUE) \o <<Len(p.up) + (IF p.env >= 0 THEN 1 ELSE 0)>> \o Tag
  \o U32(1) \o <<Zipped>> \o U32(1) \o <<Json>> \o Catalog(p)

-----------------------------------------------------------------------------
(* Reading.  A reader r holds the value it read last; it stops at a mistake.    *)

Reader(data) ==
  [data |-> data, pos |-> 0, ok |-> TRUE, v |-> 0, protos |-> 0, code |-> 0, consts |-> 0,
   strings |-> <<>>, little |-> TRUE]
Stop(r) == [r EXCEPT !.ok = FALSE]
Got(r, v) == IF r.ok THEN [r EXCEPT !.v = v] ELSE r
Demand(r, good) == IF r.ok /\ ~good THEN Stop(r) ELSE r

Take(r, n) ==
  IF ~r.ok \/ r.pos + n > Len(r.data) THEN Stop(r)
  ELSE [r EXCEPT !.v = SubSeq(r.data, r.pos + 1, r.pos + n), !.pos = @ + n]
(* The opcodes of LuaPyre.                                                    *)
Ops == 1 .. 69
Octet(v) == v \in 0 .. 255
Byte(r) == LET x == Take(r, 1) IN IF x.ok /\ Octet(x.v[1]) THEN Got(x, x.v[1]) ELSE Stop(x)

RECURSIVE VaruintFrom(_, _, _, _)
VaruintGroup(r, value, group, max) ==
  IF ~r.ok THEN r
  ELSE IF value > max THEN Stop(r)
  ELSE IF r.v < 128 THEN Got(r, value)
  ELSE IF group = MaxGroups THEN Stop(r)
  ELSE VaruintFrom(r, value, group, max)
VaruintFrom(r, value, group, max) ==
  LET x == Byte(r) IN
  IF ~x.ok THEN x ELSE VaruintGroup(x, value + (x.v % 128) * 128 ^ group, group + 1, max)
ReadUint(r, max) == VaruintFrom(r, 0, 0, max)
Signed(n) == IF n % 2 = 1 THEN -(n \div 2) - 1 ELSE n \div 2
ReadSint(r) == LET x == ReadUint(r, 2 * IntMax + 1) IN IF x.ok THEN Got(x, Signed(x.v)) ELSE x
ReadText(r) == LET n == ReadUint(r, IntMax) IN IF n.ok THEN Take(n, n.v) ELSE n

RECURSIVE ReadOne(_, _)
(* Values of the given kinds, one after the other.                            *)
Each(r, kinds) ==
  LET done[i \in 0 .. Len(kinds)] ==
        IF i = 0 THEN Got(r, <<>>)
        ELSE LET before == done[i - 1] IN
             IF ~before.ok THEN before
             ELSE LET x == ReadOne(before, kinds[i]) IN IF x.ok THEN Got(x, Append(before.v, x.v)) ELSE x IN
  done[Len(kinds)]
Repeated(r, kind) == IF r.ok THEN Each(r, [i \in 1 .. r.v |-> kind]) ELSE r
(* Instructions and constants are counted over the whole chunk.                 *)
Counted(r, of) ==
  IF ~r.ok THEN r
  ELSE IF of.k \in {"ins", "word"} THEN Demand([r EXCEPT !.code = @ + r.v], r.code + r.v <= MaxItems)
  ELSE IF of.k \in {"constant", "pconstant"} THEN Demand([r EXCEPT !.consts = @ + r.v], r.consts + r.v <= MaxItems)
  ELSE r

ConstantAt(r) ==
  IF ~r.ok THEN r
  ELSE CASE r.v = 0 -> Got(r, NilConst)
         [] r.v = 1 -> Got(r, FalseConst)
         [] r.v = 2 -> Got(r, TrueConst)
         [] r.v = 3 -> LET x == ReadSint(r) IN Got(Demand(x, x.v \in -IntMax - 1 .. IntMax), [k |-> "int", n |-> x.v])
         [] r.v = 4 -> LET x == Take(r, 8) IN Got(x, [k |-> "float", v |-> x.v])
         [] r.v = 5 -> LET x == ReadText(r) IN Got(x, [k |-> "bytes", v |-> x.v])
         [] OTHER -> Stop(r)
InsAt(r) == IF r.ok THEN Demand(r, r.v[1] \in Ops) ELSE r
UpvalueAt(r) ==
  IF ~r.ok THEN r
  ELSE Got(Demand(r, r.v[1] \in {0, 1}), [kind |-> IF r.v[1] = 0 THEN "local" ELSE "upvalue", index |-> r.v[2], name |-> r.v[3]])

Entered(r, depth) == Demand([r EXCEPT !.protos = @ + 1], depth <= MaxDepth /\ r.protos < MaxProtos)
ProtoFields(depth) ==
  <<Kind("text"), Limit(IntMax), Limit(IntMax), Kind("byte"), Kind("sint"), Kind("sint"),
    Many(Kind("text"), IntMax), Many(Kind("text"), IntMax), Kind("text"), Many(Kind("constant"), MaxItems),
    Many(Kind("upvalue"), IntMax), Many([k |-> "proto", depth |-> depth + 1], MaxProtos), Many(Kind("ins"), MaxItems)>>
ProtoAt(r) ==
  IF ~r.ok THEN r
  ELSE Got(Demand(r, r.v[3] <= r.v[2] /\ r.v[4] \in {0, 1} /\ Len(r.v[7]) = r.v[3]),
           [name |-> r.v[1], regs |-> r.v[2], params |-> r.v[3], va |-> r.v[4] = 1, vareg |-> r.v[5], env |-> r.v[6],
            ptypes |-> r.v[7], rtypes |-> r.v[8], vatype |-> r.v[9], consts |-> r.v[10], up |-> r.v[11],
            children |-> r.v[12], code |-> r.v[13],
            source |-> None, first |-> 0, last |-> 0, lines |-> <<>>, locals |-> <<>>, strip |-> FALSE])

-----------------------------------------------------------------------------
(* PUC-Lua's format: numbers with the high groups first, aligned words, and     *)
(* strings that are given by number when they occur again.                      *)

RECURSIVE VarintFrom(_, _, _)
VarintGroup(r, value, max) ==
  IF ~r.ok THEN r
  ELSE IF value > max \div 128 THEN Stop(r)
  ELSE IF r.v < 128 THEN Got(r, value * 128 + r.v)
  ELSE VarintFrom(r, value * 128 + (r.v % 128), max)
VarintFrom(r, value, max) == VarintGroup(Byte(r), value, max)
Varint(r, max) == VarintFrom(r, 0, max)

(* Mutant: words follow without padding.                                       *)
Unaligned(r, n) == r

Align(r, n) == IF r.pos % n = 0 THEN r ELSE Take(r, n - (r.pos % n))
PucSigned(n) == IF n % 2 = 1 THEN -(n \div 2) - 1 ELSE n \div 2
PucInteger(r) ==
  LET x == Varint(r, 2 * IntMax + 1) IN
  IF x.ok THEN Got(Demand(x, PucSigned(x.v) \in -IntMax - 1 .. IntMax), PucSigned(x.v)) ELSE x
NewString(r) ==
  IF ~r.ok THEN r
  ELSE IF Last(r.v) # 0 THEN Stop(r)
  ELSE [Got(r, Front(r.v)) EXCEPT !.strings = Append(@, Front(r.v))]
OldString(r) ==
  IF ~r.ok THEN r
  ELSE IF r.v = 0 THEN Got(r, None)
  ELSE IF r.v > Len(r.strings) THEN Stop(r)
  ELSE Got(r, r.strings[r.v])
PucString(r) ==
  LET size == Varint(r, IntMax) IN
  IF ~size.ok THEN size
  ELSE IF size.v = 0 THEN OldString(Varint(size, Len(size.strings)))
  ELSE NewString(Take(size, size.v))
PucConstantAt(r) ==
  IF ~r.ok THEN r
  ELSE CASE r.v = 0 -> Got(r, NilConst)
         [] r.v = 1 -> Got(r, FalseConst)
         [] r.v = 17 -> Got(r, TrueConst)
         [] r.v = 3 -> LET x == PucInteger(r) IN Got(x, [k |-> "int", n |-> x.v])
         [] r.v = 19 -> LET x == Take(r, 8) IN IF x.ok THEN Got(x, [k |-> "float", v |-> Ordered(x.v, x.little)]) ELSE x
         [] r.v \in {4, 20} -> LET x == PucString(r) IN Got(Demand(x, x.v # None), [k |-> "bytes", v |-> x.v])
         [] OTHER -> Stop(r)

Word(r) == LET x == Take(r, 4) IN IF x.ok THEN Got(x, Ordered(x.v, x.little)) ELSE x
Int32(w) == ((IF w[1] < 128 THEN w[1] ELSE w[1] - 256) * 16777216) + w[2] * 65536 + w[3] * 256 + w[4]
Delta(b) == IF b < 128 THEN b ELSE b - 256
NoDelta == -128
PucMany(of, max) == [k |-> "plist", of |-> of, max |-> max]
PucFields(depth) ==
  <<[k |-> "varint", max |-> IntMax], [k |-> "varint", max |-> IntMax], Kind("byte"), Kind("byte"), Kind("byte"),
    PucMany(Kind("word"), MaxItems), PucMany(Kind("pconstant"), MaxItems), PucMany(Kind("pupvalue"), IntMax),
    PucMany([k |-> "pproto", depth |-> depth + 1], MaxProtos), Kind("string"),
    PucMany(Kind("delta"), MaxItems), PucMany(Kind("absolute"), MaxItems), PucMany(Kind("local"), IntMax)>>

(* Each absolute line has a mark in the table of differences, in order.        *)
ValidLines(raw, absolute) ==
  LET marks == SelectSeq([i \in DOMAIN raw |-> IF raw[i] = NoDelta THEN i - 1 ELSE -1], LAMBDA pc : pc >= 0) IN
  IF raw = <<>> THEN absolute = <<>>
  ELSE /\ \A i \in DOMAIN absolute : absolute[i].line >= 0
       /\ [i \in DOMAIN absolute |-> absolute[i].pc] = marks

(* Names of upvalues come last; their count only says if they are there.        *)
PucNames(r, p) ==
  LET flag == Varint(r, IntMax)
      names == IF flag.v = 0 THEN Got(flag, [i \in DOMAIN p[8] |-> None])
               ELSE Each(flag, [i \in DOMAIN p[8] |-> Kind("string")]) IN
  IF ~flag.ok \/ ~names.ok THEN Stop(r)
  ELSE Got(names,
           [first |-> p[1], last |-> p[2], params |-> p[3], flags |-> (p[4] \div 8) * 8 + (p[4] % 4), size |-> p[5],
            code |-> p[6], consts |-> p[7], children |-> p[9], source |-> p[10], raw |-> p[11], absolute |-> p[12],
            locals |-> p[13],
            up |-> [i \in DOMAIN p[8] |-> [instack |-> p[8][i][1], index |-> p[8][i][2], name |-> names.v[i]]]])
PucProtoAt(r) ==
  IF ~r.ok THEN r
  ELSE PucNames(Demand(r, /\ r.v[5] # 0
                          /\ Len(r.v[11]) \in {0, Len(r.v[6])}
                          /\ ValidLines(r.v[11], r.v[12])
                          /\ \A l \in Range(r.v[13]) : l[2] <= l[3] /\ l[3] <= Len(r.v[6])), r.v)
LocalAt(r) == Each(r, <<Kind("string"), [k |-> "varint", max |-> MaxItems], [k |-> "varint", max |-> MaxItems]>>)
AbsoluteAt(r) ==
  LET x == Each(r, <<Kind("word"), Kind("word")>>) IN
  IF x.ok THEN Got(x, [pc |-> Int32(x.v[1]), line |-> Int32(x.v[2])]) ELSE x

PucCount(r, kind) ==
  LET n == Counted(Varint(r, kind.max), kind.of) IN
  IF ~n.ok THEN n
  ELSE IF kind.of.k = "word" \/ (kind.of.k = "absolute" /\ n.v > 0) THEN Got(Align(n, 4), n.v)
  ELSE n

ReadOne(r, kind) ==
  CASE kind.k = "byte" -> Byte(r)
    [] kind.k = "uint" -> ReadUint(r, kind.max)
    [] kind.k = "sint" -> ReadSint(r)
    [] kind.k = "text" -> ReadText(r)
    [] kind.k = "list" -> Repeated(Counted(ReadUint(r, kind.max), kind.of), kind.of)
    [] kind.k = "constant" -> ConstantAt(Byte(r))
    [] kind.k = "upvalue" -> UpvalueAt(Each(r, <<Kind("byte"), Limit(IntMax), Kind("text")>>))
    [] kind.k = "ins" -> InsAt(Each(r, <<Limit(10000)>> \o [i \in 1 .. 5 |-> Kind("sint")]))
    [] kind.k = "proto" -> ProtoAt(Each(Entered(r, kind.depth), ProtoFields(kind.depth)))
    [] kind.k = "varint" -> Varint(r, kind.max)
    [] kind.k = "string" -> PucString(r)
    [] kind.k = "word" -> Word(r)
    [] kind.k = "plist" -> Repeated(PucCount(r, kind), kind.of)
    [] kind.k = "pconstant" -> PucConstantAt(Byte(r))
    [] kind.k = "pupvalue" -> Each(r, <<Kind("byte"), Kind("byte"), Kind("byte")>>)
    [] kind.k = "delta" -> LET x == Byte(r) IN IF x.ok THEN Got(x, Delta(x.v)) ELSE x
    [] kind.k = "absolute" -> AbsoluteAt(r)
    [] kind.k = "local" -> LocalAt(r)
    [] kind.k = "pproto" -> PucProtoAt(Each(Entered(r, kind.depth), PucFields(kind.depth)))

(* Nothing may be left.                                                      *)
Whole(r) == Demand(r, r.pos = Len(r.data))
StartsWith(data, prefix) == Len(data) >= Len(prefix) /\ SubSeq(data, 1, Len(prefix)) = prefix
Behind(data, n) == SubSeq(data, n + 1, Len(data))

LoadNative(data) == Whole(ReadOne(Take(Reader(data), Len(NativeMagic)), [k |-> "proto", depth |-> 0]))

HeaderAt(r) ==
  IF ~r.ok THEN r
  ELSE LET little == r.v = Header(TRUE) IN
       Demand([r EXCEPT !.little = little], r.v \in {Header(TRUE), Header(FALSE)})
LoadPuc(data) ==
  LET up == Byte(HeaderAt(Take(Reader(data), Len(Header(TRUE)))))
      proto == ReadOne(up, [k |-> "pproto", depth |-> 0]) IN
  IF ~up.ok \/ ~proto.ok THEN Stop(up)
  ELSE Whole(Demand(proto, up.v = Len(proto.v.up)))

(* The line of each instruction.                                              *)
Lines(p) ==
  LET line[i \in 0 .. Len(p.raw)] ==
        IF i = 0 THEN p.first
        ELSE IF p.raw[i] = NoDelta
        THEN (CHOOSE a \in Range(p.absolute) : a.pc = i - 1).line
        ELSE line[i - 1] + p.raw[i] IN
  [i \in DOMAIN p.raw |-> line[i]]

-----------------------------------------------------------------------------
(* The chunk of string.dump.                                                *)

IsDebug(data) ==
  /\ StartsWith(data, Header(TRUE))
  /\ StartsWith(Behind(data, Len(Header(TRUE)) + 1), Tag)

(* The metadata fits the code it comes with.                                  *)
RECURSIVE Fits(_, _)
Fits(p, meta) ==
  /\ Len(meta.children) = Len(p.children)
  /\ Len(meta.lines) \in {0, Len(p.code)}
  /\ \A l \in Range(meta.locals) : l.reg >= -1 /\ l.reg < p.regs /\ l.start >= 0 /\ l.end >= l.start
  /\ \A i \in DOMAIN p.children : Fits(p.children[i], meta.children[i])

RECURSIVE Apply(_, _, _)
Apply(p, meta, parent) ==
  LET source == IF meta.source = None THEN parent ELSE meta.source IN
  [p EXCEPT !.source = source, !.first = meta.first, !.last = meta.last, !.lines = meta.lines,
            !.locals = meta.locals, !.strip = meta.strip,
            !.up = IF meta.strip THEN [i \in DOMAIN @ |-> [@[i] EXCEPT !.name = <<0>>]] ELSE @,
            !.children = [i \in DOMAIN @ |-> Apply(@[i], meta.children[i], source)]]

Sized(r) == LET n == Take(r, 4) IN IF n.ok THEN Take(n, n.v[3] * 256 + n.v[4]) ELSE n
CatalogEnds(r) ==
  LET n == Take(r, 4)
      passed[i \in 0 .. n.v[3] * 256 + n.v[4]] == IF i = 0 THEN n ELSE Sized(passed[i - 1]) IN
  IF n.ok THEN Whole(passed[n.v[3] * 256 + n.v[4]]) ELSE n

LoadDebug(data, given) ==
  LET core == Sized(Take(Reader(data), Len(Header(TRUE)) + 1 + Len(Tag)))
      debug == Sized(core)
      proto == LoadNative(NativeMagic \o given.zip)
      meta == given.json IN
  IF ~core.ok \/ ~debug.ok THEN Stop(core)
  ELSE IF core.v # <<Zipped>> \/ debug.v # <<Json>> THEN Stop(core)
  ELSE IF ~proto.ok THEN Stop(core)
  ELSE IF ~Fits(proto.v, meta) \/ ~CatalogEnds(debug).ok THEN Stop(core)
  ELSE Got(proto, Apply(proto.v, meta, None))

(* load, by how the bytes begin.                                              *)
Is(what) == [is |-> what]
Outcome(r) == IF r.ok THEN [is |-> "function", v |-> r.v] ELSE Is("refused")
LoadChunk(data, given) ==
  IF IsDebug(data) THEN Outcome(LoadDebug(data, given))
  ELSE IF StartsWith(data, NativeMagic) THEN Outcome(LoadNative(data))
  ELSE IF data # <<>> /\ data[1] = 27 THEN Outcome(LoadPuc(data))
  ELSE Is("text")

-----------------------------------------------------------------------------
(* PUC-Lua's own dump.                                                       *)

PucVarint[n \in Nat] ==
  LET high[m \in Nat] == IF m = 0 THEN <<>> ELSE Append(high[m \div 128], 128 + (m % 128)) IN
  Append(high[n \div 128], n % 128)
PutPuc(w, bytes) == [w EXCEPT !.out = @ \o bytes]
PadPuc(w) == PutPuc(w, [i \in 1 .. (4 - (Len(w.out) % 4)) % 4 |-> 0])
PutString(w, s) ==
  IF s = None THEN PutPuc(w, <<0, 0>>)
  ELSE IF \E i \in DOMAIN w.strings : w.strings[i] = s
  THEN PutPuc(w, <<0>> \o PucVarint[CHOOSE i \in DOMAIN w.strings : w.strings[i] = s])
  ELSE [PutPuc(w, PucVarint[Len(s) + 1] \o s \o <<0>>) EXCEPT !.strings = Append(@, s)]
PutEach(w, put(_, _), s) ==
  LET done[i \in 0 .. Len(s)] == IF i = 0 THEN PutPuc(w, PucVarint[Len(s)]) ELSE put(done[i - 1], s[i]) IN
  done[Len(s)]
PutConstant(w, c) ==
  CASE c.k = "nil" -> PutPuc(w, <<0>>)
    [] c.k = "false" -> PutPuc(w, <<1>>)
    [] c.k = "true" -> PutPuc(w, <<17>>)
    [] c.k = "int" -> PutPuc(w, <<3>> \o PucVarint[IF c.n >= 0 THEN 2 * c.n ELSE -2 * c.n - 1])
    [] c.k = "float" -> PutPuc(w, <<19>> \o Ordered(c.v, w.little))
    [] c.k = "bytes" -> PutString(PutPuc(w, <<4>>), c.v)
PutInt32(w, n) == PutPuc(w, Ordered(<<0, 0, n \div 256, n % 256>>, w.little))
PutAbsolute(w, a) == PutInt32(PutInt32(w, a.pc), a.line)
PutLocal(w, l) == PutPuc(PutString(w, l[1]), PucVarint[l[2]] \o PucVarint[l[3]])
PutUpvalue(w, u) == PutPuc(w, <<u.instack, u.index, 0>>)
PutName(w, u) == PutString(w, u.name)

(* Lines as differences; large ones, and the lines after them, as they are.      *)
Before(p, i) == IF i = 1 THEN p.first ELSE p.lines[i - 1]
Far(p, i) == p.lines[i] - Before(p, i) \notin -127 .. 127
RawLines(p) == [i \in DOMAIN p.lines |-> IF Far(p, i) THEN NoDelta ELSE p.lines[i] - Before(p, i)]
AbsoluteLines(p) ==
  LET far == SetToSortSeq({i \in DOMAIN p.lines : Far(p, i)}, <) IN
  [i \in DOMAIN far |-> [pc |-> far[i] - 1, line |-> p.lines[far[i]]]]

RECURSIVE PutProto(_, _)
PutProto(w, p) ==
  LET start == PutPuc(w, PucVarint[p.first] \o PucVarint[p.last] \o <<p.params, p.flags, p.size>>)
      words == PutPuc(PadPuc(PutPuc(start, PucVarint[Len(p.code)])),
                      FlattenSeq([i \in DOMAIN p.code |-> Ordered(p.code[i], w.little)]))
      nested == PutEach(PutEach(PutEach(words, PutConstant, p.consts), PutUpvalue, p.up), PutProto, p.children)
      lines == PutPuc(PutString(nested, p.source),
                      PucVarint[Len(p.lines)] \o [i \in DOMAIN p.lines |-> (RawLines(p)[i] + 256) % 256])
      far == AbsoluteLines(p)
      padded == IF far = <<>> THEN PutPuc(lines, <<0>>) ELSE PadPuc(PutPuc(lines, PucVarint[Len(far)]))
      absolute[i \in 0 .. Len(far)] == IF i = 0 THEN padded ELSE PutAbsolute(absolute[i - 1], far[i])
      locals == PutEach(absolute[Len(far)], PutLocal, p.locals) IN
  IF p.up = <<>> \/ p.up[1].name = None THEN PutPuc(locals, <<0>>) ELSE PutEach(locals, PutName, p.up)
PucDump(p, little) ==
  PutProto([out |-> Header(little) \o <<Len(p.up)>>, strings |-> <<>>, little |-> little], p).out

-----------------------------------------------------------------------------

Init ==
  /\ function \in Functions_ \cup PucFunctions
  /\ chunk = <<>>
  /\ origin = [format |-> "none"]
  /\ damaged = FALSE
  /\ parts = <<>>
  /\ loaded = Is("no")

Written(bytes, from, format, strip) ==
  /\ chunk' = bytes
  /\ parts' = IF format = "debug" THEN Parts(from, strip) ELSE <<>>
  /\ origin' = [format |-> format, strip |-> strip, function |-> from]
  /\ loaded' = Is("no")
  /\ UNCHANGED <<function, damaged>>

Dump ==
  /\ chunk = <<>> /\ function \in Functions_
  /\ Depth(function) <= MaxDepth
  /\ \/ Written(DumpNative(function), function, "native", FALSE)
     \/ \E strip \in BOOLEAN : Written(DumpDebug(function), function, "debug", strip)
LuacDump ==
  /\ chunk = <<>> /\ function \in PucFunctions
  /\ \E little \in BOOLEAN : Written(PucDump(function, little), function, "puc", FALSE)

(* The file loses its end, gets a longer one, another beginning, or at its end an *)
(* instruction that does not exist.                                            *)
Corrupted(code, op) ==
  SubSeq(chunk, 1, Len(chunk) - Len(DumpIns(Last(code)))) \o DumpIns([Last(code) EXCEPT ![1] = op])
Damage ==
  /\ chunk # <<>> /\ ~damaged /\ loaded.is = "no" /\ origin.function \in Fragile
  /\ damaged' = TRUE
  /\ \/ \E n \in 1 .. Len(chunk) - 1 : chunk' = SubSeq(chunk, 1, n)
     \/ \E b \in {0, 128} : chunk' = Append(chunk, b)
     \/ \E i \in 1 .. Len(NativeMagic) : chunk' = [chunk EXCEPT ![i] = (@ + 1) % 256]
     \/ /\ origin.format = "native" /\ origin.function.code # <<>>
        /\ \E op \in {0, 70, 10001} : chunk' = Corrupted(origin.function.code, op)
  /\ UNCHANGED <<function, origin, parts, loaded>>

Load ==
  /\ chunk # <<>> /\ loaded.is = "no"
  /\ loaded' = LoadChunk(chunk, parts)
  /\ UNCHANGED <<function, chunk, origin, damaged, parts>>

(* What was loaded is dumped again.                                           *)
DumpAgain ==
  /\ loaded.is = "function" /\ ~damaged
  /\ origin.format = "debug" /\ origin.function = function
  /\ \E strip \in BOOLEAN : Written(DumpDebug(loaded.v), loaded.v, "debug", strip)

Next == Dump \/ LuacDump \/ Damage \/ Load \/ DumpAgain

Spec == Init /\ [][Next]_vars

=============================================================================

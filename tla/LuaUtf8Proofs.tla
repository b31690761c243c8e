---------------------------- MODULE LuaUtf8Proofs ----------------------------
(***************************************************************************)
(* The utf8 library's _decode takes back what its _encode writes, for every    *)
(* code, wherever it stands in a string, and takes nothing else: no sequence    *)
(* longer than it need be, and none that is cut.                              *)
(***************************************************************************)
EXTENDS LuaUtf8, TLAPS

LEMMA MaxUtfType == MaxUtf \in Int
  BY SMT DEF MaxUtf

(* The code is written in the string, after the first bytes of it.             *)
Stands(s, start, code) ==
  /\ start + Size(code) <= Len(s)
  /\ \A i \in 1 .. Size(code) : s[start + i] = Encode(code)[i]

(* What the strict functions refuse.                                          *)
Refused(code, lax) == ~lax /\ (code > MaxUnicode \/ Surrogate(code))

LEMMA Tables ==
  /\ MaxUtf = 2147483647
  /\ Largest[1] = 127 /\ Largest[2] = 2047 /\ Largest[3] = 65535 /\ Largest[4] = 2097151
  /\ Largest[5] = 67108863 /\ Largest[6] = 2147483647
  /\ Lead[1] = 0 /\ Lead[2] = 192 /\ Lead[3] = 224 /\ Lead[4] = 240 /\ Lead[5] = 248 /\ Lead[6] = 252
  /\ LeadCount[1] = 128 /\ LeadCount[2] = 32 /\ LeadCount[3] = 16 /\ LeadCount[4] = 8
  /\ LeadCount[5] = 4 /\ LeadCount[6] = 2
  /\ Place[1] = 64 /\ Place[2] = 4096 /\ Place[3] = 262144 /\ Place[4] = 16777216 /\ Place[5] = 1073741824
  BY SMT DEF MaxUtf, Largest, Lead, LeadCount, Place

LEMMA Six == ASSUME NEW n \in 1 .. 6 PROVE n = 1 \/ n = 2 \/ n = 3 \/ n = 4 \/ n = 5 \/ n = 6
  OBVIOUS

LEMMA MinimumType == ASSUME NEW n \in 1 .. 6 PROVE Minimum(n) \in Nat
  BY SMT, Six, Tables DEF Minimum

LEMMA LeastOf ==
  ASSUME NEW S \in SUBSET Int, NEW n \in S, \A m \in S : n <= m
  PROVE  Min(S) = n
<1>1. n \in S /\ \A m \in S : n <= m
  OBVIOUS
<1>2. ASSUME NEW k \in S, \A m \in S : k <= m PROVE k = n
  BY <1>2
<1> QED
  BY <1>1, <1>2 DEF Min

(* The lengths of the codes: no two lengths share one, and none is left out.    *)
LEMMA SizeOf ==
  ASSUME NEW c \in Nat, NEW n \in 1 .. 6, Minimum(n) <= c, c <= Largest[n]
  PROVE  Size(c) = n
<1> DEFINE S == {m \in 1 .. 6 : c <= Largest[m]}
<1>1. n \in S /\ S \in SUBSET Int
  OBVIOUS
<1>2. ASSUME NEW m \in S PROVE n <= m
  <2>1. m \in 1 .. 6 /\ c <= Largest[m]
    OBVIOUS
  <2>2. n # 1 => Largest[n - 1] < c
    BY SMT, <2>1, Six, Tables DEF Minimum
  <2>3. CASE n > m
    BY SMT, <2>1, <2>2, <2>3, Six, Tables
  <2> QED
    BY <2>1, <2>3
<1> QED
  BY <1>1, <1>2, LeastOf DEF Size

LEMMA SizeType ==
  ASSUME NEW c \in Nat, c <= MaxUtf
  PROVE  Size(c) \in 1 .. 6 /\ Minimum(Size(c)) <= c /\ c <= Largest[Size(c)]
<1>1. PICK n \in 1 .. 6 : Minimum(n) <= c /\ c <= Largest[n]
  <2>1. c \in Int /\ 0 <= c /\ c <= 2147483647
    BY SMT, Tables
  <2>2. /\ Minimum(1) = 0 /\ Minimum(2) = 128 /\ Minimum(3) = 2048 /\ Minimum(4) = 65536
        /\ Minimum(5) = 2097152 /\ Minimum(6) = 67108864
    BY SMT, Tables DEF Minimum
  <2> QED
    BY SMT, <2>1, <2>2, Tables
<1> QED
  BY <1>1, SizeOf

(* A first byte tells one length.                                             *)
LEMMA LengthOf ==
  ASSUME NEW b \in Int, NEW n \in 1 .. 6, b \in FirstBytes(n)
  PROVE  Length(b) = {n} /\ Min(Length(b)) = n
<1>1. ASSUME NEW m \in 1 .. 6, b \in FirstBytes(m) PROVE m = n
  BY SMT, <1>1, Six, Tables DEF FirstBytes
<1>2. Length(b) = {n}
  BY <1>1 DEF Length
<1>3. Min({n}) = n
  BY LeastOf
<1> QED
  BY <1>2, <1>3

LEMMA FirstByteFits ==
  ASSUME NEW n \in 1 .. 6, NEW b \in FirstBytes(n)
  PROVE  /\ b \in 0 .. 255 /\ ~IsCont(b) /\ b % LeadCount[n] = b - Lead[n]
         /\ b % LeadCount[n] \in 0 .. LeadCount[n] - 1
<1>1. CASE n = 1
  BY SMT, <1>1, Tables DEF FirstBytes, IsCont
<1>2. CASE n = 2
  BY SMT, <1>2, Tables DEF FirstBytes, IsCont
<1>3. CASE n = 3
  BY SMT, <1>3, Tables DEF FirstBytes, IsCont
<1>4. CASE n = 4
  BY SMT, <1>4, Tables DEF FirstBytes, IsCont
<1>5. CASE n = 5
  BY SMT, <1>5, Tables DEF FirstBytes, IsCont
<1>6. CASE n = 6
  BY SMT, <1>6, Tables DEF FirstBytes, IsCont
<1> QED
  BY <1>1, <1>2, <1>3, <1>4, <1>5, <1>6, Six

(* The digits of a code, by how many follow.                                  *)
LEMMA DigitsType ==
  ASSUME NEW c \in Nat, NEW k \in 0 .. 5 PROVE Digits(c, k) \in Nat
<1>1. k = 0 \/ k = 1 \/ k = 2 \/ k = 3 \/ k = 4 \/ k = 5
  OBVIOUS
<1> QED
  BY SMT, <1>1, Tables DEF Digits

LEMMA DigitsNext ==
  ASSUME NEW c \in Nat, NEW k \in 0 .. 4
  PROVE  Digits(c, k) \div 64 = Digits(c, k + 1)
<1>1. CASE k = 0
  BY SMT, <1>1, Tables DEF Digits
<1>2. CASE k = 1
  BY SMT, <1>2, Tables DEF Digits
<1>3. CASE k = 2
  BY SMT, <1>3, Tables DEF Digits
<1>4. CASE k = 3
  BY SMT, <1>4, Tables DEF Digits
<1>5. CASE k = 4
  BY SMT, <1>5, Tables DEF Digits
<1> QED
  BY <1>1, <1>2, <1>3, <1>4, <1>5

(* The first digit fits its byte when the code has that length, and only then.   *)
LEMMA DigitsFirst ==
  ASSUME NEW c \in Nat, NEW n \in 1 .. 6, Minimum(n) <= c, c <= Largest[n]
  PROVE  /\ Digits(c, n - 1) % LeadCount[n] = Digits(c, n - 1)
         /\ Lead[n] + Digits(c, n - 1) \in FirstBytes(n)
<1>1. CASE n = 1
  BY SMT, <1>1, Tables DEF Digits, Minimum, FirstBytes
<1>2. CASE n = 2
  BY SMT, <1>2, Tables DEF Digits, Minimum, FirstBytes
<1>3. CASE n = 3
  BY SMT, <1>3, Tables DEF Digits, Minimum, FirstBytes
<1>4. CASE n = 4
  BY SMT, <1>4, Tables DEF Digits, Minimum, FirstBytes
<1>5. CASE n = 5
  BY SMT, <1>5, Tables DEF Digits, Minimum, FirstBytes
<1>6. CASE n = 6
  BY SMT, <1>6, Tables DEF Digits, Minimum, FirstBytes
<1> QED
  BY <1>1, <1>2, <1>3, <1>4, <1>5, <1>6, Six

LEMMA DigitsFit ==
  ASSUME NEW c \in Nat, NEW n \in 1 .. 6, Digits(c, n - 1) <= LeadCount[n] - 1
  PROVE  c <= Largest[n]
<1>1. CASE n = 1
  BY SMT, <1>1, Tables DEF Digits
<1>2. CASE n = 2
  BY SMT, <1>2, Tables DEF Digits
<1>3. CASE n = 3
  BY SMT, <1>3, Tables DEF Digits
<1>4. CASE n = 4
  BY SMT, <1>4, Tables DEF Digits
<1>5. CASE n = 5
  BY SMT, <1>5, Tables DEF Digits
<1>6. CASE n = 6
  BY SMT, <1>6, Tables DEF Digits
<1> QED
  BY <1>1, <1>2, <1>3, <1>4, <1>5, <1>6, Six

LEMMA Sixes ==
  ASSUME NEW m \in Nat
  PROVE  /\ m % 64 \in 0 .. 63 /\ m = 64 * (m \div 64) + (m % 64)
         /\ 128 + (m % 64) \in 0 .. 255 /\ IsCont(128 + (m % 64)) /\ (128 + (m % 64)) % 64 = m % 64
  BY SMT DEF IsCont

LEMMA EncodeOf ==
  ASSUME NEW c \in Nat, c <= MaxUtf, NEW n, n = Size(c)
  PROVE  /\ n \in 1 .. 6 /\ Encode(c) \in [1 .. n -> 0 .. 255]
         /\ Encode(c)[1] \in FirstBytes(n) /\ Encode(c)[1] = Lead[n] + Digits(c, n - 1)
         /\ Encode(c)[1] % LeadCount[n] = Digits(c, n - 1)
         /\ \A i \in 2 .. n : /\ IsCont(Encode(c)[i]) /\ Encode(c)[i] = 128 + (Digits(c, n - i) % 64)
                              /\ Encode(c)[i] % 64 = Digits(c, n - i) % 64
<1>1. n \in 1 .. 6 /\ Minimum(n) <= c /\ c <= Largest[n]
  BY SizeType
<1> HIDE DEF Digits
<1>2. Encode(c) = [i \in 1 .. n |-> IF i = 1 THEN Lead[n] + (Digits(c, n - 1) % LeadCount[n])
                                    ELSE 128 + (Digits(c, n - i) % 64)]
  BY DEF Encode
<1>3. /\ Digits(c, n - 1) % LeadCount[n] = Digits(c, n - 1)
      /\ Lead[n] + Digits(c, n - 1) \in FirstBytes(n)
  BY <1>1, DigitsFirst
<1>4. 1 \in 1 .. n
  BY <1>1
<1>5. Encode(c)[1] = Lead[n] + Digits(c, n - 1)
  BY <1>2, <1>3, <1>4
<1>6. Encode(c)[1] \in 0 .. 255 /\ Encode(c)[1] % LeadCount[n] = Encode(c)[1] - Lead[n]
  BY <1>1, <1>3, <1>5, FirstByteFits
<1>7. Lead[n] \in Nat /\ Digits(c, n - 1) \in Nat
  <2>1. Lead[n] \in Nat
    BY SMT, <1>1, Six, Tables
  <2>2. n - 1 \in 0 .. 5
    BY <1>1
  <2> QED
    BY <2>1, <2>2, DigitsType
<1>8. Encode(c)[1] % LeadCount[n] = Digits(c, n - 1)
  BY <1>5, <1>6, <1>7
<1>9. ASSUME NEW i \in 2 .. n
      PROVE  /\ Encode(c)[i] = 128 + (Digits(c, n - i) % 64) /\ Encode(c)[i] \in 0 .. 255
             /\ IsCont(Encode(c)[i]) /\ Encode(c)[i] % 64 = Digits(c, n - i) % 64
  <2>1. n - i \in 0 .. 5 /\ i \in 1 .. n /\ i # 1
    BY <1>1
  <2>2. Encode(c)[i] = 128 + (Digits(c, n - i) % 64)
    BY <1>2, <2>1
  <2> QED
    <3> DEFINE d == Digits(c, n - i)
    <3>1. d \in Nat
      BY <2>1, DigitsType
    <3>2. Encode(c)[i] = 128 + (d % 64)
      BY <2>2
    <3> HIDE DEF d
    <3>3. /\ Encode(c)[i] \in 0 .. 255 /\ IsCont(Encode(c)[i]) /\ Encode(c)[i] % 64 = d % 64
      BY <3>1, <3>2, Sixes
    <3> QED
      BY <2>2, <3>3 DEF d
<1>10. Encode(c) \in [1 .. n -> 0 .. 255]
  <2>1. \A i \in 1 .. n : Encode(c)[i] \in 0 .. 255
    BY <1>1, <1>6, <1>9
  <2>2. DOMAIN Encode(c) = 1 .. n /\ Encode(c) = [i \in 1 .. n |-> Encode(c)[i]]
    BY <1>2
  <2> QED
    BY <2>1, <2>2
<1>11. \A i \in 2 .. n : /\ IsCont(Encode(c)[i]) /\ Encode(c)[i] = 128 + (Digits(c, n - i) % 64)
                         /\ Encode(c)[i] % 64 = Digits(c, n - i) % 64
  BY <1>9
<1>12. Encode(c)[1] \in FirstBytes(n)
  BY <1>3, <1>5
<1> QED
  BY <1>1, <1>5, <1>8, <1>10, <1>11, <1>12

(* What the loop over the bytes has read after i of those that follow the first. *)
Read(c, n, i) == Digits(c, IF i < n THEN n - 1 - i ELSE 0)

LEMMA ByteIsInt == ASSUME NEW b \in 0 .. 255 PROVE b \in Int
  OBVIOUS

LEMMA ElementOf == ASSUME NEW B, NEW s \in Seq(B), NEW k \in 1 .. Len(s) PROVE s[k] \in B
  OBVIOUS

LEMMA ByteOf ==
  ASSUME NEW s \in Seq(0 .. 255), NEW start \in Nat, NEW i \in Nat, start + i < Len(s)
  PROVE  ByteAt(s, start + i) = s[start + i + 1] /\ ByteAt(s, start + i) \in 0 .. 255
<1>1. Len(s) \in Nat /\ start + i \in 0 .. Len(s) - 1 /\ start + i + 1 \in 1 .. Len(s)
  OBVIOUS
<1> DEFINE k == start + i + 1
<1>2. s[k] \in 0 .. 255
  BY <1>1, ElementOf
<1> QED
  BY <1>1, <1>2 DEF ByteAt

LEMMA FirstByteOf ==
  ASSUME NEW s \in Seq(0 .. 255), NEW start \in Nat, start < Len(s)
  PROVE  ByteAt(s, start) = s[start + 1] /\ ByteAt(s, start) \in 0 .. 255
<1>1. start + 0 = start /\ start + 0 + 1 = start + 1 /\ 0 \in Nat
  OBVIOUS
<1>2. ByteAt(s, start + 0) = s[start + 0 + 1] /\ ByteAt(s, start + 0) \in 0 .. 255
  BY <1>1, ByteOf
<1> QED
  BY <1>1, <1>2

LEMMA ReadsNext ==
  ASSUME NEW s \in Seq(0 .. 255), NEW start \in Nat, NEW c \in Nat, NEW n \in 1 .. 6,
         start + n <= Len(s), \A i \in 2 .. n : s[start + i] % 64 = Digits(c, n - i) % 64,
         NEW i \in 1 .. 5
  PROVE  Shifted(s, start, n, Read(c, n, i - 1), i) = Read(c, n, i)
<1> HIDE DEF Digits
<1>1. CASE i < n
  <2> DEFINE m == Digits(c, n - 1 - i)
  <2>1. /\ n - 1 - i \in 0 .. 4 /\ i + 1 \in 2 .. n /\ n - (i + 1) = n - 1 - i
        /\ n - 1 - i + 1 = n - 1 - (i - 1) /\ Len(s) \in Nat /\ start + i < Len(s)
    BY <1>1
  <2>2. m \in Nat /\ m \div 64 = Digits(c, n - 1 - (i - 1))
    <3> DEFINE k == n - 1 - i
    <3>1. k \in 0 .. 4 /\ k \in 0 .. 5 /\ k + 1 = n - 1 - (i - 1)
      BY <2>1
    <3> HIDE DEF k
    <3>2. Digits(c, k) \in Nat /\ Digits(c, k) \div 64 = Digits(c, k + 1)
      BY <3>1, DigitsType, DigitsNext
    <3> QED
      BY <3>1, <3>2 DEF k
  <2>3. ByteAt(s, start + i) = s[start + (i + 1)]
    BY <2>1, ByteOf
  <2>4. ByteAt(s, start + i) % 64 = m % 64
    BY <2>1, <2>3
  <2>5. Read(c, n, i) = m /\ Read(c, n, i - 1) = m \div 64
    BY <1>1, <2>2 DEF Read
  <2> HIDE DEF m
  <2>6. m = (m \div 64) * 64 + (m % 64)
    BY <2>2, Sixes
  <2> QED
    BY <1>1, <2>4, <2>5, <2>6 DEF Shifted
<1>2. CASE ~(i < n)
  <2>1. Read(c, n, i) = Digits(c, 0) /\ Read(c, n, i - 1) = Digits(c, 0)
    <3>1. (IF i - 1 < n THEN n - 1 - (i - 1) ELSE 0) = 0
      BY <1>2
    <3> QED
      BY <1>2, <3>1 DEF Read
  <2> QED
    BY <1>2, <2>1 DEF Shifted
<1> QED
  BY <1>1, <1>2

LEMMA ReadsAll ==
  ASSUME NEW s \in Seq(0 .. 255), NEW start \in Nat, NEW c \in Nat, NEW n \in 1 .. 6,
         start + n <= Len(s), \A i \in 2 .. n : s[start + i] % 64 = Digits(c, n - i) % 64,
         s[start + 1] % LeadCount[n] = Digits(c, n - 1)
  PROVE  Continued(s, start, n) = c
<1> HIDE DEF Digits
<1>1. ByteAt(s, start) % LeadCount[n] = Read(c, n, 0)
  <2>1. start < Len(s) /\ n - 1 - 0 = n - 1 /\ 0 < n
    OBVIOUS
  <2>2. ByteAt(s, start) = s[start + 1]
    BY <2>1, FirstByteOf
  <2> QED
    BY <2>1, <2>2 DEF Read
<1>2. /\ Shifted(s, start, n, Read(c, n, 0), 1) = Read(c, n, 1)
      /\ Shifted(s, start, n, Read(c, n, 1), 2) = Read(c, n, 2)
      /\ Shifted(s, start, n, Read(c, n, 2), 3) = Read(c, n, 3)
      /\ Shifted(s, start, n, Read(c, n, 3), 4) = Read(c, n, 4)
      /\ Shifted(s, start, n, Read(c, n, 4), 5) = Read(c, n, 5)
  <2>1. \A i \in 1 .. 5 : Shifted(s, start, n, Read(c, n, i - 1), i) = Read(c, n, i)
    BY ReadsNext
  <2> HIDE DEF Read
  <2> QED
    BY <2>1
<1>3. Read(c, n, 5) = c
  <2>1. (IF 5 < n THEN n - 1 - 5 ELSE 0) = 0
    OBVIOUS
  <2> QED
    BY <2>1 DEF Read, Digits
<1> HIDE DEF Read
<1> QED
  BY <1>1, <1>2, <1>3 DEF Continued

(* Decoding what stands there.                                                *)
LEMMA Standing ==
  ASSUME NEW s \in Seq(0 .. 255), NEW start \in Nat, NEW c \in Nat, c <= MaxUtf, Stands(s, start, c),
         NEW n, n = Size(c)
  PROVE  /\ n \in 1 .. 6 /\ start + n <= Len(s) /\ start \in 0 .. Len(s) - 1
         /\ Length(ByteAt(s, start)) = {n} /\ Min(Length(ByteAt(s, start))) = n
         /\ \A i \in start + 1 .. start + n - 1 : Cont(s, i)
         /\ ~Cont(s, start) /\ Continued(s, start, n) = c /\ ~(c < Minimum(n))
<1> HIDE DEF Digits
<1>1. /\ n \in 1 .. 6 /\ Encode(c)[1] \in FirstBytes(n)
      /\ Encode(c)[1] % LeadCount[n] = Digits(c, n - 1)
      /\ \A i \in 2 .. n : IsCont(Encode(c)[i]) /\ Encode(c)[i] % 64 = Digits(c, n - i) % 64
  BY EncodeOf
<1>2. /\ start + n <= Len(s) /\ \A i \in 1 .. n : s[start + i] = Encode(c)[i]
  BY DEF Stands
<1>3. Len(s) \in Nat /\ start \in 0 .. Len(s) - 1 /\ start < Len(s) /\ 1 \in 1 .. n
  BY <1>1, <1>2
<1>4. ByteAt(s, start) = Encode(c)[1] /\ ByteAt(s, start) \in Int
  <2>1. s[start + 1] = Encode(c)[1]
    BY <1>2, <1>3
  <2>2. ByteAt(s, start) = s[start + 1] /\ ByteAt(s, start) \in 0 .. 255
    BY <1>3, FirstByteOf
  <2>3. ByteAt(s, start) \in Int
    BY <2>2, ByteIsInt
  <2>4. ByteAt(s, start) = Encode(c)[1]
    BY <2>1, <2>2
  <2> QED
    BY <2>3, <2>4
<1>5. Length(ByteAt(s, start)) = {n} /\ Min(Length(ByteAt(s, start))) = n
  BY <1>1, <1>4, LengthOf
<1>6. ~Cont(s, start)
  BY <1>1, <1>4, FirstByteFits DEF Cont
<1>7. ASSUME NEW i \in start + 1 .. start + n - 1 PROVE Cont(s, i)
  <2> DEFINE k == i - start
  <2>1. k \in Nat /\ k + 1 \in 2 .. n /\ start + k = i /\ start + k < Len(s) /\ start + k + 1 = start + (k + 1)
        /\ k + 1 \in 1 .. n
    BY <1>1, <1>2, <1>3
  <2> HIDE DEF k
  <2>2. ByteAt(s, i) = Encode(c)[k + 1]
    <3>1. ByteAt(s, start + k) = s[start + k + 1]
      BY <2>1, ByteOf
    <3>2. s[start + (k + 1)] = Encode(c)[k + 1]
      BY <1>2, <2>1
    <3> QED
      BY <2>1, <3>1, <3>2
  <2> QED
    BY <1>1, <2>1, <2>2 DEF Cont
<1>8. Continued(s, start, n) = c
  <2>1. \A i \in 2 .. n : s[start + i] % 64 = Digits(c, n - i) % 64
    BY <1>1, <1>2
  <2>2. s[start + 1] % LeadCount[n] = Digits(c, n - 1)
    BY <1>1, <1>2
  <2> QED
    BY <1>1, <1>2, <2>1, <2>2, ReadsAll
<1>9. Minimum(n) <= c /\ Minimum(n) \in Int
  BY SMTT(30), <1>1, MinimumType, SizeType
<1> QED
  BY <1>1, <1>2, <1>3, <1>5, <1>6, <1>7, <1>8, <1>9

LEMMA CodeType == ASSUME NEW c \in 0 .. MaxUtf PROVE c \in Nat /\ c <= MaxUtf
  BY MaxUtfType

(* _decode takes back what _encode wrote, wherever it stands in a string: with   *)
(* lax every code below 2^31, without it all but surrogates and those that        *)
(* Unicode does not have.                                                     *)
THEOREM DecodesEncoded ==
  ASSUME NEW s \in Seq(0 .. 255), NEW start \in Nat, NEW c \in 0 .. MaxUtf, NEW lax \in BOOLEAN,
         Stands(s, start, c)
  PROVE  Decode(s, start, lax) =
           IF Refused(c, lax) THEN Invalid ELSE [valid |-> TRUE, code |-> c, end |-> start + Size(c)]
<1> HIDE DEF MaxUtf
<1>1. c \in Nat /\ c <= MaxUtf
  BY CodeType
<1> DEFINE n == Size(c)
<1>2. /\ n \in 1 .. 6 /\ start + n <= Len(s) /\ start \in 0 .. Len(s) - 1
      /\ Length(ByteAt(s, start)) = {n} /\ Min(Length(ByteAt(s, start))) = n
      /\ \A i \in start + 1 .. start + n - 1 : Cont(s, i)
      /\ Continued(s, start, n) = c /\ ~(c < Minimum(n))
  BY <1>1, Standing
<1> HIDE DEF n
<1>3. ~(start + n > Len(s)) /\ Length(ByteAt(s, start)) # {}
  BY <1>2
<1>4. Decode(s, start, lax) = IF Refused(c, lax) THEN Invalid ELSE [valid |-> TRUE, code |-> c, end |-> start + n]
  BY <1>2, <1>3 DEF Decode, Refused
<1> QED
  BY <1>4 DEF n

(* What is shifted in can be taken off again.                                 *)
Off(s, start, n, i, v, w) ==
  /\ v \in Nat /\ w \in Nat /\ (i >= n => w = v)
  /\ i < n => w \div 64 = v /\ w % 64 = s[start + i + 1] % 64

LEMMA ShiftedOff ==
  ASSUME NEW s \in Seq(0 .. 255), NEW start \in Nat, NEW n \in 1 .. 6, start + n <= Len(s),
         NEW i \in 1 .. 5, NEW v \in Nat, NEW w, w = Shifted(s, start, n, v, i)
  PROVE  Off(s, start, n, i, v, w)
<1>1. CASE i < n
  <2> DEFINE b == s[start + i + 1]
  <2>1. Len(s) \in Nat /\ start + i < Len(s)
    BY <1>1
  <2>2. ByteAt(s, start + i) = b /\ b \in 0 .. 255
    BY SMTT(30), <2>1, ByteOf
  <2> HIDE DEF b
  <2>3. w = v * 64 + (b % 64)
    BY <1>1, <2>2 DEF Shifted
  <2>4. w \in Nat /\ w \div 64 = v /\ w % 64 = b % 64
    BY <2>2, <2>3
  <2> QED
    BY <1>1, <2>4 DEF b, Off
<1>2. CASE i >= n
  <2>1. w = v
    BY <1>2 DEF Shifted
  <2> QED
    BY <1>2, <2>1 DEF Off
<1> QED
  BY <1>1, <1>2

(* So each intermediate value is what the digits of the last one say.            *)
LEMMA ReadsBack ==
  ASSUME NEW s, NEW start, NEW c \in Nat, NEW n \in 1 .. 6, NEW i \in 1 .. 5, NEW v, NEW w,
         Off(s, start, n, i, v, w), w = Read(c, n, i), NEW j, j = i - 1
  PROVE  v = Read(c, n, j)
<1> USE DEF Off
<1> HIDE DEF Digits
<1>1. CASE i < n
  <2> DEFINE k == n - 1 - i
  <2>1. k \in 0 .. 4 /\ k + 1 = n - 1 - j /\ j < n
    BY <1>1
  <2>2. Read(c, n, i) = Digits(c, k) /\ Read(c, n, j) = Digits(c, k + 1)
    BY <1>1, <2>1 DEF Read
  <2> HIDE DEF k
  <2>3. Digits(c, k) \div 64 = Digits(c, k + 1)
    BY <2>1, DigitsNext
  <2> QED
    BY <1>1, <2>2, <2>3
<1>2. CASE i >= n
  <2>1. (IF j < n THEN n - 1 - j ELSE 0) = 0 /\ ~(i < n)
    BY <1>2
  <2>2. Read(c, n, i) = Digits(c, 0) /\ Read(c, n, j) = Digits(c, 0)
    BY <2>1 DEF Read
  <2> QED
    BY <1>2, <2>2
<1> QED
  BY <1>1, <1>2

(* Each of the five.                                                          *)
LEMMA EachReadBack ==
  ASSUME NEW s, NEW start, NEW c \in Nat, NEW n \in 1 .. 6, NEW v, NEW w
  PROVE  /\ Off(s, start, n, 5, v, w) /\ w = Read(c, n, 5) => v = Read(c, n, 4)
         /\ Off(s, start, n, 4, v, w) /\ w = Read(c, n, 4) => v = Read(c, n, 3)
         /\ Off(s, start, n, 3, v, w) /\ w = Read(c, n, 3) => v = Read(c, n, 2)
         /\ Off(s, start, n, 2, v, w) /\ w = Read(c, n, 2) => v = Read(c, n, 1)
         /\ Off(s, start, n, 1, v, w) /\ w = Read(c, n, 1) => v = Read(c, n, 0)
<1> HIDE DEF Read, Off
<1>1. ASSUME NEW i \in 1 .. 5, Off(s, start, n, i, v, w), w = Read(c, n, i), NEW j, j = i - 1
      PROVE  v = Read(c, n, j)
  BY <1>1, ReadsBack
<1> QED
  BY <1>1

Follow(s, start, c, n) == \A i \in 2 .. n : s[start + i] % 64 = Digits(c, n - i) % 64

LEMMA ContinuedBack ==
  ASSUME NEW s \in Seq(0 .. 255), NEW start \in Nat, NEW n \in 1 .. 6, start + n <= Len(s),
         s[start + 1] % LeadCount[n] \in Nat, NEW c, c = Continued(s, start, n)
  PROVE  /\ c \in Nat /\ Digits(c, n - 1) = s[start + 1] % LeadCount[n]
         /\ Follow(s, start, c, n)
<1> DEFINE v0 == ByteAt(s, start) % LeadCount[n]
           v1 == Shifted(s, start, n, v0, 1)
           v2 == Shifted(s, start, n, v1, 2)
           v3 == Shifted(s, start, n, v2, 3)
           v4 == Shifted(s, start, n, v3, 4)
           v5 == Shifted(s, start, n, v4, 5)
<1>1. v0 = s[start + 1] % LeadCount[n] /\ v0 \in Nat
  <2>1. start < Len(s)
    OBVIOUS
  <2>2. ByteAt(s, start) = s[start + 1]
    BY <2>1, FirstByteOf
  <2> QED
    BY <2>2
<1>2. c = v5
  BY DEF Continued
<1> HIDE DEF v0
<1>3. Off(s, start, n, 1, v0, v1)
  BY <1>1, ShiftedOff
<1> HIDE DEF v1
<1>4. Off(s, start, n, 2, v1, v2)
  <2>1. v1 \in Nat
    BY <1>3 DEF Off
  <2> QED
    BY <2>1, ShiftedOff
<1> HIDE DEF v2
<1>5. Off(s, start, n, 3, v2, v3)
  <2>1. v2 \in Nat
    BY <1>4 DEF Off
  <2> QED
    BY <2>1, ShiftedOff
<1> HIDE DEF v3
<1>6. Off(s, start, n, 4, v3, v4)
  <2>1. v3 \in Nat
    BY <1>5 DEF Off
  <2> QED
    BY <2>1, ShiftedOff
<1> HIDE DEF v4
<1>7. Off(s, start, n, 5, v4, v5)
  <2>1. v4 \in Nat
    BY <1>6 DEF Off
  <2> QED
    BY <2>1, ShiftedOff
<1> HIDE DEF v5
<1> HIDE DEF Digits
<1>8. c \in Nat /\ v5 = Read(c, n, 5)
  <2>1. (IF 5 < n THEN n - 1 - 5 ELSE 0) = 0
    OBVIOUS
  <2> QED
    BY <1>2, <1>7, <2>1 DEF Read, Digits, Off
<1> HIDE DEF Read
<1> HIDE DEF Off
<1>9. v4 = Read(c, n, 4)
  BY <1>7, <1>8, ZenonT(60), EachReadBack
<1>10. v3 = Read(c, n, 3)
  BY <1>6, <1>8, <1>9, ZenonT(60), EachReadBack
<1>11. v2 = Read(c, n, 2)
  BY <1>5, <1>8, <1>10, ZenonT(60), EachReadBack
<1>12. v1 = Read(c, n, 1)
  BY <1>4, <1>8, <1>11, ZenonT(60), EachReadBack
<1>13. v0 = Read(c, n, 0)
  BY <1>3, <1>8, <1>12, ZenonT(60), EachReadBack
<1>14. ASSUME NEW i \in 1 .. 5, i < n PROVE Read(c, n, i) % 64 = s[start + i + 1] % 64
  <2>1. i = 1 \/ i = 2 \/ i = 3 \/ i = 4 \/ i = 5
    OBVIOUS
  <2>2. \E v : Off(s, start, n, i, v, Read(c, n, i))
    BY <1>3, <1>4, <1>5, <1>6, <1>7, <1>8, <1>9, <1>10, <1>11, <1>12, <2>1
  <2> QED
    BY <1>14, <2>2 DEF Off
<1>15. ASSUME NEW i \in 2 .. n PROVE s[start + i] % 64 = Digits(c, n - i) % 64
  <2> DEFINE k == i - 1
  <2>1. k \in 1 .. 5 /\ k < n /\ start + k + 1 = start + i /\ n - 1 - k = n - i
    OBVIOUS
  <2> HIDE DEF k
  <2>2. Read(c, n, k) = Digits(c, n - i)
    BY <2>1 DEF Read
  <2>3. Read(c, n, k) % 64 = s[start + k + 1] % 64
    BY <1>14, <2>1
  <2> QED
    BY <2>1, <2>2, <2>3
<1>16. Digits(c, n - 1) = s[start + 1] % LeadCount[n]
  <2>1. 0 < n /\ n - 1 - 0 = n - 1
    OBVIOUS
  <2>2. Read(c, n, 0) = Digits(c, n - 1)
    BY <2>1 DEF Read
  <2> QED
    BY <1>1, <1>13, <2>1, <2>2
<1> QED
  BY <1>8, <1>15, <1>16 DEF Follow

LEMMA LeadCountType == ASSUME NEW n \in 1 .. 6 PROVE Lead[n] \in Nat /\ LeadCount[n] \in Nat
  BY SMT, Six, Tables

LEMMA LargestFits == ASSUME NEW n \in 1 .. 6 PROVE Largest[n] \in Nat /\ Largest[n] <= MaxUtf
  BY SMT, Six, Tables

LEMMA BytesFrom ==
  ASSUME NEW b \in 0 .. 255
  PROVE  /\ IsCont(b) => b = 128 + (b % 64)
         /\ \A n \in 1 .. 6 : b \in FirstBytes(n) => b = Lead[n] + (b % LeadCount[n])
<1>1. IsCont(b) => b = 128 + (b % 64)
  BY DEF IsCont
<1>2. ASSUME NEW n \in 1 .. 6, b \in FirstBytes(n) PROVE b = Lead[n] + (b % LeadCount[n])
  <2>1. b % LeadCount[n] = b - Lead[n]
    BY <1>2, FirstByteFits
  <2>2. Lead[n] \in Nat
    BY SMT, Six, Tables
  <2> QED
    BY <2>1, <2>2
<1> QED
  BY <1>1, <1>2

(* _decode takes nothing but what _encode writes, so no sequence that is longer   *)
(* than it need be, that is cut, or that holds a code that is refused.           *)
THEOREM DecodesOnlyEncoded ==
  ASSUME NEW s \in Seq(0 .. 255), NEW start \in Nat, NEW lax \in BOOLEAN, NEW d,
         d = Decode(s, start, lax), d.valid
  PROVE  /\ d.code \in Nat /\ d.code <= MaxUtf /\ ~Refused(d.code, lax)
         /\ Stands(s, start, d.code) /\ d.end = start + Size(d.code)
<1> HIDE DEF Digits
<1> DEFINE lengths == Length(ByteAt(s, start))
           n == Min(lengths)
           c == Continued(s, start, n)
<1>1. /\ start \in 0 .. Len(s) - 1 /\ lengths # {} /\ ~(start + n > Len(s))
      /\ \A i \in start + 1 .. start + n - 1 : Cont(s, i)
      /\ ~(c < Minimum(n)) /\ ~Refused(c, lax)
      /\ d = [valid |-> TRUE, code |-> c, end |-> start + n]
  BY DEF Decode, Invalid, Refused
<1>2. d.code = c /\ d.end = start + n
  BY <1>1
<1>3. Len(s) \in Nat /\ start < Len(s)
  BY <1>1
<1>4. ByteAt(s, start) = s[start + 1] /\ ByteAt(s, start) \in 0 .. 255
  BY <1>3, FirstByteOf
<1>5. PICK m \in 1 .. 6 : ByteAt(s, start) \in FirstBytes(m)
  BY <1>1 DEF Length
<1>6. n = m
  BY <1>4, <1>5, LengthOf, ByteIsInt
<1> HIDE DEF lengths, n
<1>7. /\ n \in 1 .. 6 /\ start + n <= Len(s)
      /\ s[start + 1] \in FirstBytes(n) /\ s[start + 1] \in 0 .. 255
  BY <1>1, <1>3, <1>4, <1>5, <1>6
<1>8. /\ s[start + 1] % LeadCount[n] \in Nat /\ s[start + 1] % LeadCount[n] <= LeadCount[n] - 1
      /\ s[start + 1] = Lead[n] + (s[start + 1] % LeadCount[n])
  <2> DEFINE b == s[start + 1]
             k == b % LeadCount[n]
  <2>1. LeadCount[n] \in Nat
    BY <1>7, LeadCountType
  <2>2. b \in FirstBytes(n) /\ b \in 0 .. 255
    BY <1>7
  <2> HIDE DEF b
  <2>3. k \in 0 .. LeadCount[n] - 1
    BY <1>7, <2>2, FirstByteFits
  <2>4. b = Lead[n] + k
    BY <1>7, <2>2, BytesFrom
  <2> HIDE DEF k
  <2>5. k \in Nat /\ k <= LeadCount[n] - 1
    BY <2>1, <2>3
  <2> QED
    BY <2>4, <2>5 DEF b, k
<1>9. /\ c \in Nat /\ Digits(c, n - 1) = s[start + 1] % LeadCount[n]
      /\ \A i \in 2 .. n : s[start + i] % 64 = Digits(c, n - i) % 64
  <2>1. c = Continued(s, start, n) /\ start \in Nat
    BY <1>1
  <2> HIDE DEF c
  <2>2. /\ start + n <= Len(s) /\ s[start + 1] % LeadCount[n] \in Nat /\ n \in 1 .. 6
    BY <1>7, <1>8
  <2>3. c \in Nat /\ Digits(c, n - 1) = s[start + 1] % LeadCount[n]
    BY <2>1, <2>2, ZenonT(60), ContinuedBack
  <2>4. Follow(s, start, c, n)
    BY <2>1, <2>2, ZenonT(60), ContinuedBack
  <2> QED
    BY <2>3, <2>4 DEF Follow
<1> HIDE DEF c
<1>10. c <= Largest[n] /\ Minimum(n) <= c
  <2>1. Digits(c, n - 1) <= LeadCount[n] - 1
    BY <1>8, <1>9
  <2>2. c <= Largest[n]
    BY <1>7, <1>9, <2>1, DigitsFit
  <2>3. Minimum(n) \in Nat
    BY <1>7, MinimumType
  <2>4. Minimum(n) <= c
    BY <1>1, <1>9, <2>3
  <2> QED
    BY <2>2, <2>4
<1>11. Size(c) = n /\ c <= MaxUtf
  <2>1. Size(c) = n
    BY <1>7, <1>9, <1>10, SizeOf
  <2>2. Largest[n] \in Nat /\ Largest[n] <= MaxUtf
    BY <1>7, LargestFits
  <2> HIDE DEF MaxUtf
  <2>3. c <= MaxUtf
    BY <1>9, <1>10, <2>2, MaxUtfType
  <2> QED
    BY <2>1, <2>3
<1>12. /\ Encode(c)[1] = Lead[n] + Digits(c, n - 1)
       /\ \A i \in 2 .. n : Encode(c)[i] = 128 + (Digits(c, n - i) % 64)
  BY <1>9, <1>11, EncodeOf
<1>13. ASSUME NEW i \in 1 .. n PROVE s[start + i] = Encode(c)[i]
  <2>1. CASE i = 1
    BY <1>8, <1>9, <1>12, <2>1
  <2>2. CASE i # 1
    <3> DEFINE k == i - 1
    <3>1. i \in 2 .. n /\ k \in Nat /\ start + k < Len(s) /\ start + k + 1 = start + i
          /\ start + k \in start + 1 .. start + n - 1
      BY <1>7, <2>2
    <3> HIDE DEF k
    <3>2. ByteAt(s, start + k) = s[start + i] /\ ByteAt(s, start + k) \in 0 .. 255
      BY <3>1, ByteOf
    <3>3. IsCont(ByteAt(s, start + k))
      BY <1>1, <3>1 DEF Cont
    <3>4. s[start + i] = 128 + (s[start + i] % 64)
      BY <3>2, <3>3, BytesFrom
    <3> QED
      BY <1>9, <1>12, <3>1, <3>4
  <2> QED
    BY <2>1, <2>2
<1> QED
  BY <1>1, <1>2, <1>7, <1>9, <1>11, <1>13 DEF Stands

(* Characters do not overlap: a position that starts one lies before or after     *)
(* every other, never within, which is what offset and codes rely on when they    *)
(* look for the next byte that continues none.                                *)
THEOREM CharactersApart ==
  ASSUME NEW s \in Seq(0 .. 255), NEW a \in Nat, NEW b \in Nat,
         NEW c \in 0 .. MaxUtf, NEW d \in 0 .. MaxUtf, Stands(s, a, c), Stands(s, b, d)
  PROVE  /\ a = b => c = d
         /\ a < b => a + Size(c) <= b
<1>1. c \in Nat /\ c <= MaxUtf /\ d \in Nat /\ d <= MaxUtf
  BY CodeType
<1>2. /\ Size(c) \in 1 .. 6 /\ Min(Length(ByteAt(s, a))) = Size(c) /\ Continued(s, a, Size(c)) = c
      /\ \A i \in a + 1 .. a + Size(c) - 1 : Cont(s, i)
  BY <1>1, Standing
<1>3. /\ Min(Length(ByteAt(s, b))) = Size(d) /\ Continued(s, b, Size(d)) = d /\ ~Cont(s, b)
  BY <1>1, Standing
<1>4. a = b => c = d
  BY <1>2, <1>3
<1>5. ASSUME a < b PROVE a + Size(c) <= b
  <2>1. CASE ~(a + Size(c) <= b)
    <3>1. b \in a + 1 .. a + Size(c) - 1
      BY <1>2, <1>5, <2>1
    <3> QED
      BY <1>2, <1>3, <3>1
  <2> QED
    BY <2>1
<1> QED
  BY <1>4, <1>5

LEMMA GreatestOf ==
  ASSUME NEW S \in SUBSET Int, NEW n \in S, \A m \in S : m <= n
  PROVE  Max(S) = n
<1>1. n \in S /\ \A m \in S : m <= n
  OBVIOUS
<1>2. ASSUME NEW k \in S, \A m \in S : m <= k PROVE k = n
  BY <1>2
<1> QED
  BY <1>1, <1>2 DEF Max

(* From anywhere in a character offset goes back to its first byte; and forward    *)
(* from there, when a character or the end of the string follows, to the first    *)
(* byte behind it: one step of the loop is one character, whatever its length.    *)
THEOREM MovesByCharacters ==
  ASSUME NEW s \in Seq(0 .. 255), NEW a \in Nat, NEW c \in 0 .. MaxUtf, Stands(s, a, c)
  PROVE  /\ \A p \in a .. a + Size(c) - 1 : BackOver(s, p) = a
         /\ ~Cont(s, a + Size(c)) => ForthOver(s, a + 1) = a + Size(c)
<1>1. c \in Nat /\ c <= MaxUtf
  BY CodeType
<1> DEFINE n == Size(c)
<1>2. /\ n \in 1 .. 6 /\ a + n <= Len(s) /\ ~Cont(s, a) /\ Len(s) \in Nat
      /\ \A i \in a + 1 .. a + n - 1 : Cont(s, i)
  BY <1>1, Standing
<1> HIDE DEF n
<1>3. ASSUME NEW p \in a .. a + n - 1 PROVE BackOver(s, p) = a
  <2> DEFINE S == {q \in 0 .. p : q = 0 \/ ~Cont(s, q)}
  <2>1. S \in SUBSET Int /\ a \in S
    BY <1>2
  <2>2. ASSUME NEW q \in S PROVE q <= a
    <3>1. q \in a + 1 .. a + n - 1 \/ q <= a
      BY <1>2
    <3> QED
      BY <1>2, <3>1
  <2> HIDE DEF S
  <2>3. Max(S) = a
    BY <2>1, <2>2, GreatestOf
  <2> QED
    BY <2>3 DEF S, BackOver
<1>4. ASSUME ~Cont(s, a + n) PROVE ForthOver(s, a + 1) = a + n
  <2> DEFINE S == {q \in a + 1 .. a + 1 + Len(s) : ~Cont(s, q)}
  <2>1. S \in SUBSET Int /\ a + n \in S
    BY <1>2, <1>4
  <2>2. ASSUME NEW q \in S PROVE a + n <= q
    <3>1. q \in a + 1 .. a + n - 1 \/ a + n <= q
      BY <1>2
    <3> QED
      BY <1>2, <3>1
  <2> HIDE DEF S
  <2>3. Min(S) = a + n
    BY <2>1, <2>2, LeastOf
  <2> QED
    BY <2>3 DEF S, ForthOver
<1> QED
  BY <1>3, <1>4 DEF n

=============================================================================

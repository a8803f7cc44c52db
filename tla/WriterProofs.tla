---------------------------- MODULE WriterProofs ----------------------------
(***************************************************************************)
(* What is proved of the writer for buffers of any size, any line break    *)
(* and texts of any length: that no buffer overflows, and that the write   *)
(* handler is given the stream, correctly encoded.                         *)
(***************************************************************************)
EXTENDS Writer, ProofLemmas

-----------------------------------------------------------------------------
(* Characters in UTF-8.                                                    *)

Octet == 0 .. 255
Encodings3 == {UTF8, UTF16LE, UTF16BE}

\* What is used of a character that WRITE is given: it has at most three octets
\* (WriterAssumption) and is no surrogate.
InRange(c) == c \in Nat /\ c < \h10000 /\ ~ (c >= \hD800 /\ c <= \hDFFF)
Scalars == {c \in Nat : InRange(c)}

\* It is the same as what RFC 3629 and RFC 2781 say.
LEMMA ScalarIs ==
    ASSUME NEW c
    PROVE  IsScalarValue(c) /\ c < \h10000 <=> c \in Scalars
<1>1. c \in Scalars <=> c \in Nat /\ InRange(c)
  BY Zenon DEF Scalars
<1> QED
  BY SMTT(30), <1>1 DEF IsScalarValue, HighArea, LowArea, InRange

\* The octets of a character, without powers.
Utf8Form(c) ==
    IF c < \h80 THEN <<c>>
    ELSE IF c < \h800 THEN <<\hC0 + (c \div \h40), \h80 + (c % \h40)>>
    ELSE <<\hE0 + (c \div \h1000), \h80 + ((c \div \h40) % \h40), \h80 + (c % \h40)>>

\* They are the ones RFC 3629 defines.
LEMMA Utf8Octets ==
    ASSUME NEW c, InRange(c)
    PROVE  Utf8(c) = Utf8Form(c)
<1>1. /\ 2^0 = 1 /\ 2^6 = 64 /\ 2^5 = 32 /\ 2^12 = 4096 /\ 2^4 = 16
  BY SMT
<1>2. /\ Bits(c, 0, 6) = c % 64 /\ Bits(c, 6, 6) = (c \div 64) % 64
      /\ Bits(c, 6, 5) = (c \div 64) % 32 /\ Bits(c, 12, 4) = (c \div 4096) % 16
  BY SMTT(30), <1>1 DEF Bits, InRange
<1>3. /\ c < 2048 => (c \div 64) % 32 = c \div 64
      /\ (c \div 4096) % 16 = c \div 4096
  BY SMTT(30) DEF InRange
<1> QED
  BY SMTT(30), <1>2, <1>3 DEF Utf8, Utf8Form, InRange

\* An octet that is not the first of its character.
Trails(o) == o \div \h40 = 2

\* The octets x at place i of others.
At(octets, i, x) == \A k \in 1 .. Len(x) : octets[i + k - 1] = x[k]

\* The function that ValueAt computes with.
Values(octets, i, lead, f) ==
    f = [k \in 1 .. 4 |-> IF k = 1 THEN lead ELSE f[k - 1] * \h40 + (octets[i + k - 1] % \h40)]

\* There is one, and what it gives.
LEMMA ValuesAre ==
    ASSUME NEW octets, NEW i, NEW lead
    PROVE  LET f == CHOOSE g : Values(octets, i, lead, g) IN
           /\ f[1] = lead
           /\ f[2] = lead * 64 + (octets[i + 2 - 1] % 64)
           /\ f[3] = (lead * 64 + (octets[i + 2 - 1] % 64)) * 64 + (octets[i + 3 - 1] % 64)
           /\ f[4] = ((lead * 64 + (octets[i + 2 - 1] % 64)) * 64 + (octets[i + 3 - 1] % 64)) * 64
                       + (octets[i + 4 - 1] % 64)
<1> DEFINE a == octets[i + 2 - 1] % 64  b == octets[i + 3 - 1] % 64  d == octets[i + 4 - 1] % 64
           two == lead * 64 + a  three == two * 64 + b  four == three * 64 + d
           h == [k \in 1 .. 4 |-> IF k = 1 THEN lead ELSE IF k = 2 THEN two
                                  ELSE IF k = 3 THEN three ELSE four]
           f == CHOOSE g : Values(octets, i, lead, g)
<1>1. Values(octets, i, lead, h)
  <2>1. h[1] = lead /\ h[2] = two /\ h[3] = three
    OBVIOUS
  <2>2. ASSUME NEW k \in 1 .. 4
        PROVE  h[k] = IF k = 1 THEN lead ELSE h[k - 1] * 64 + (octets[i + k - 1] % 64)
    <3>1. k = 1 \/ k = 2 \/ k = 3 \/ k = 4
      OBVIOUS
    <3> QED BY <2>1, <3>1
  <2> DEFINE e == [k \in 1 .. 4 |-> IF k = 1 THEN lead ELSE h[k - 1] * 64 + (octets[i + k - 1] % 64)]
  <2>3. \A k \in 1 .. 4 : h[k] = e[k]
    BY <2>2
  <2>4. h = e
    BY <2>3
  <2> QED BY <2>4 DEF Values
<1>2. Values(octets, i, lead, f)
  BY <1>1
<1>3. f = [k \in 1 .. 4 |-> IF k = 1 THEN lead ELSE f[k - 1] * 64 + (octets[i + k - 1] % 64)]
  BY <1>2 DEF Values
<1> HIDE DEF f
<1>4. f[1] = lead
  BY <1>3
<1>5. f[2] = f[1] * 64 + (octets[i + 2 - 1] % 64)
  BY <1>3
<1>6. f[3] = f[2] * 64 + (octets[i + 3 - 1] % 64)
  BY <1>3
<1>7. f[4] = f[3] * 64 + (octets[i + 4 - 1] % 64)
  BY <1>3
<1> QED
  BY <1>4, <1>5, <1>6, <1>7 DEF f
\* What the octets of a character in UTF-8 look like.
LEMMA Utf8Lead ==
    ASSUME NEW c, InRange(c)
    PROVE  LET w == Utf8Form(c) IN
           /\ w \in Seq(Octet) /\ Len(w) \in 1 .. 4
           /\ Width(w[1]) = Len(w) /\ ~ Trails(w[1])
           /\ \A k \in 2 .. Len(w) : Trails(w[k])
<1> DEFINE w == Utf8Form(c)
<1>0. c \in Nat
  BY DEF InRange
<1>1. CASE c < \h80
  <2>1. w = <<c>>
    BY SMTT(30), <1>1 DEF Utf8Form
  <2>2. w \in Seq(Octet) /\ Len(w) = 1 /\ w[1] = c
    BY SMTT(30), <1>0, <1>1, <2>1 DEF Octet
  <2> QED BY SMTT(30), <1>0, <1>1, <2>2 DEF Width, Trails
<1>2. CASE c >= \h80 /\ c < \h800
  <2>1. w = <<\hC0 + (c \div \h40), \h80 + (c % \h40)>>
    BY SMTT(30), <1>0, <1>2 DEF Utf8Form
  <2>2. Len(w) = 2 /\ w[1] = \hC0 + (c \div \h40) /\ w[2] = \h80 + (c % \h40)
    BY SMTT(30), <2>1
  <2>3. w[1] \in \hC0 .. \hDF /\ w[2] \in \h80 .. \hBF
    BY SMTT(30), <1>0, <1>2, <2>2
  <2>4. w \in Seq(Octet)
    BY SMTT(30), <2>1, <2>2, <2>3 DEF Octet
  <2> HIDE DEF w
  <2>5. Width(w[1]) = 2 /\ ~ Trails(w[1]) /\ Trails(w[2])
    BY SMTT(30), <2>3 DEF Width, Trails
  <2>6. \A k \in 2 .. 2 : k = 2
    OBVIOUS
  <2> QED BY SMTT(30), <2>2, <2>4, <2>5, <2>6 DEF w
<1>3. CASE c >= \h800 /\ c < \h10000
  <2>1. w = <<\hE0 + (c \div \h1000), \h80 + ((c \div \h40) % \h40), \h80 + (c % \h40)>>
    BY SMTT(30), <1>0, <1>3 DEF Utf8Form
  <2>2. /\ Len(w) = 3 /\ w[1] = \hE0 + (c \div \h1000)
        /\ w[2] = \h80 + ((c \div \h40) % \h40) /\ w[3] = \h80 + (c % \h40)
    BY SMTT(30), <2>1
  <2>3. w[1] \in \hE0 .. \hEF /\ w[2] \in \h80 .. \hBF /\ w[3] \in \h80 .. \hBF
    BY SMTT(30), <1>0, <1>3, <2>2
  <2>4. w \in Seq(Octet)
    BY SMTT(30), <2>1, <2>2, <2>3 DEF Octet
  <2> HIDE DEF w
  <2>5. Width(w[1]) = 3 /\ ~ Trails(w[1]) /\ Trails(w[2]) /\ Trails(w[3])
    BY SMTT(30), <2>3 DEF Width, Trails
  <2>6. \A k \in 2 .. 3 : k = 2 \/ k = 3
    OBVIOUS
  <2> QED BY SMTT(30), <2>2, <2>4, <2>5, <2>6 DEF w
<1> QED
  BY SMTT(30), <1>0, <1>1, <1>2, <1>3 DEF InRange

\* The bits of the leading octet that belong to the character.
LeadOf(octet) ==
    IF Width(octet) = 1 THEN octet % \h80
    ELSE IF Width(octet) = 2 THEN octet % \h20
    ELSE IF Width(octet) = 3 THEN octet % \h10
    ELSE octet % 8

\* How the code computes a value.
LEMMA ValueAtIs ==
    ASSUME NEW octets, NEW i, Width(octets[i]) # 0
    PROVE  ValueAt(octets, i)
             = (CHOOSE g : Values(octets, i, LeadOf(octets[i]), g))[Width(octets[i])]
BY DEF ValueAt, Values, LeadOf

\* The value of a character of n octets.
LEMMA ValueOfWidth ==
    ASSUME NEW octets, NEW i
    PROVE  LET l == LeadOf(octets[i]) IN
           /\ Width(octets[i]) = 1 => ValueAt(octets, i) = l
           /\ Width(octets[i]) = 2 => ValueAt(octets, i) = l * 64 + (octets[i + 2 - 1] % 64)
           /\ Width(octets[i]) = 3 => ValueAt(octets, i) =
                (l * 64 + (octets[i + 2 - 1] % 64)) * 64 + (octets[i + 3 - 1] % 64)
           /\ Width(octets[i]) = 4 => ValueAt(octets, i) =
                ((l * 64 + (octets[i + 2 - 1] % 64)) * 64 + (octets[i + 3 - 1] % 64)) * 64
                    + (octets[i + 4 - 1] % 64)
<1> DEFINE l == LeadOf(octets[i])
           f == CHOOSE g : Values(octets, i, l, g)
<1>1. Width(octets[i]) # 0 => ValueAt(octets, i) = f[Width(octets[i])]
  BY ValueAtIs
<1>2. /\ f[1] = l
      /\ f[2] = l * 64 + (octets[i + 2 - 1] % 64)
      /\ f[3] = (l * 64 + (octets[i + 2 - 1] % 64)) * 64 + (octets[i + 3 - 1] % 64)
      /\ f[4] = ((l * 64 + (octets[i + 2 - 1] % 64)) * 64 + (octets[i + 3 - 1] % 64)) * 64
                  + (octets[i + 4 - 1] % 64)
  BY ValuesAre
<1> HIDE DEF f
<1> QED
  BY SMTT(30), <1>1, <1>2

\* The code finds the character whose octets are at place i.
LEMMA ValueIs ==
    ASSUME NEW c, InRange(c), NEW octets, NEW i \in Nat, At(octets, i, Utf8Form(c))
    PROVE  ValueAt(octets, i) = c
<1> DEFINE w == Utf8Form(c)
           l == LeadOf(octets[i])
<1>0. c \in Nat
  BY DEF InRange
<1>1. Len(w) \in 1 .. 4 /\ Width(w[1]) = Len(w)
  BY Utf8Lead
<1>2. \A k \in 1 .. Len(w) : octets[i + k - 1] = w[k]
  BY DEF At
<1>3. octets[i] = w[1]
  <2>1. 1 \in 1 .. Len(w) /\ i + 1 - 1 = i
    BY <1>1
  <2> QED BY <1>2, <2>1
<1>4. Width(octets[i]) = Len(w)
  BY <1>1, <1>3
<1>6. CASE c < \h80
  <2>1. w = <<c>>
    BY SMTT(30), <1>6 DEF Utf8Form
  <2> HIDE DEF w
  <2>2. Len(w) = 1 /\ octets[i] = c
    BY SMTT(30), <1>3, <2>1
  <2>3. ValueAt(octets, i) = l
    BY SMTT(30), <1>4, <2>2, ValueOfWidth
  <2>4. l = c % 128
    BY SMTT(30), <1>4, <2>2 DEF LeadOf
  <2> HIDE DEF l
  <2> QED BY SMTT(30), <1>0, <1>6, <2>3, <2>4
<1>7. CASE c >= \h80 /\ c < \h800
  <2>1. w = <<\hC0 + (c \div \h40), \h80 + (c % \h40)>>
    BY SMTT(30), <1>0, <1>7 DEF Utf8Form
  <2> HIDE DEF w
  <2>2. Len(w) = 2 /\ w[1] = \hC0 + (c \div \h40) /\ w[2] = \h80 + (c % \h40)
    BY SMTT(30), <2>1
  <2>3. octets[i + 2 - 1] = w[2]
    BY SMTT(30), <1>2, <2>2
  <2>4. ValueAt(octets, i) = l * 64 + (octets[i + 2 - 1] % 64)
    BY SMTT(30), <1>4, <2>2, ValueOfWidth
  <2>5. l = w[1] % 32
    BY SMTT(30), <1>3, <1>4, <2>2 DEF LeadOf
  <2> HIDE DEF l
  <2> QED BY SMTT(30), <1>0, <1>7, <2>2, <2>3, <2>4, <2>5
<1>8. CASE c >= \h800 /\ c < \h10000
  <2>1. w = <<\hE0 + (c \div \h1000), \h80 + ((c \div \h40) % \h40), \h80 + (c % \h40)>>
    BY SMTT(30), <1>0, <1>8 DEF Utf8Form
  <2> HIDE DEF w
  <2>2. /\ Len(w) = 3 /\ w[1] = \hE0 + (c \div \h1000)
        /\ w[2] = \h80 + ((c \div \h40) % \h40) /\ w[3] = \h80 + (c % \h40)
    BY SMTT(30), <2>1
  <2>3. octets[i + 2 - 1] = w[2] /\ octets[i + 3 - 1] = w[3]
    BY SMTT(30), <1>2, <2>2
  <2>4. ValueAt(octets, i) = (l * 64 + (octets[i + 2 - 1] % 64)) * 64 + (octets[i + 3 - 1] % 64)
    BY SMTT(30), <1>4, <2>2, ValueOfWidth
  <2>5. l = w[1] % 16
    BY SMTT(30), <1>3, <1>4, <2>2 DEF LeadOf
  <2> HIDE DEF l
  <2> QED BY SMTT(30), <1>0, <1>8, <2>2, <2>3, <2>4, <2>5
<1> QED
  BY SMTT(30), <1>0, <1>6, <1>7, <1>8 DEF InRange

-----------------------------------------------------------------------------
(* Characters in UTF-16.                                                   *)

\* A unit in the order of the encoding.
Halves(unit, order) ==
    IF order = UTF16LE THEN <<unit % 256, unit \div 256>> ELSE <<unit \div 256, unit % 256>>

\* The character is its only unit in UTF-16, as RFC 2781 defines it.
LEMMA Utf16Octets ==
    ASSUME NEW c, InRange(c), NEW order
    PROVE  Utf16(c, order) = Halves(c, order)
<1> DEFINE us == Units(c)
           ss == [k \in 1 .. Len(us) |-> Halves(us[k], order)]
           h == Halves(c, order)
<1>1. us = <<c>>
  BY SMTT(30) DEF Units, InRange
<1>2. Utf16(c, order) = FlattenSeq(ss)
  BY DEF Utf16, Halves
<1>3. h \in Seq(Nat)
  BY SMTT(30) DEF Halves, InRange
<1> HIDE DEF us
<1>4. ss = <<h>>
  BY <1>1
<1> HIDE DEF ss, h
<1>5. ss = Append(<<>>, h) /\ <<>> \in Seq(Seq(Nat))
  BY <1>4
<1> QED
  BY <1>2, <1>3, <1>5, FlattenAppend DEF h

\* The code makes the same of it.
LEMMA RecodeIs ==
    ASSUME NEW c, InRange(c)
    PROVE  /\ Recode(c) \in Seq(Octet) /\ Len(Recode(c)) = 2
           /\ Recode(c) = Utf16(c, encoding)
<1> DEFINE x == c \div \h100  y == c % 256
<1>1. x \in 0 .. 255 /\ x % 256 = x /\ y \in 0 .. 255
  BY SMTT(30) DEF InRange
<1>2. Recode(c) = IF encoding = UTF16LE THEN <<y, x % 256>> ELSE <<x % 256, y>>
  BY SMTT(30) DEF Recode, Pair, InRange
<1>3. Utf16(c, encoding) = IF encoding = UTF16LE THEN <<y, x>> ELSE <<x, y>>
  BY Utf16Octets DEF Halves
<1> HIDE DEF x, y
<1>4. Recode(c) = IF encoding = UTF16LE THEN <<y, x>> ELSE <<x, y>>
  BY <1>1, <1>2
<1>5. x \in Octet /\ y \in Octet
  BY <1>1 DEF Octet
<1> QED
  BY <1>3, <1>4, <1>5

-----------------------------------------------------------------------------
(* Recoding a buffer.                                                      *)

\* What each octet of the buffer contributes to what is written.
Cells(octets) ==
    [i \in 1 .. Len(octets) |->
        IF i \in Starts(octets) THEN Recode(ValueAt(octets, i)) ELSE <<>>]

\* A character whose octets follow the first n contributes itself, recoded, at
\* its first octet, and nothing at the others.
LEMMA CellsOfOne ==
    ASSUME NEW octets \in Seq(Octet), NEW n \in Nat, NEW c, InRange(c),
           n + Len(Utf8Form(c)) <= Len(octets),
           \A k \in 1 .. Len(Utf8Form(c)) : octets[n + k] = Utf8Form(c)[k]
    PROVE  \A k \in 1 .. Len(Utf8Form(c)) :
              Cells(octets)[n + k] = IF k = 1 THEN Recode(c) ELSE <<>>
<1> DEFINE w == Utf8Form(c)  N == Len(octets)
<1>1. N \in Nat /\ Len(w) \in 1 .. 4 /\ w[1] \div 64 # 2 /\ \A k \in 2 .. Len(w) : w[k] \div 64 = 2
  BY Utf8Lead DEF Trails
<1>2. \A k \in 1 .. Len(w) : n + k \in 1 .. N
  BY <1>1
<1>3. \A i \in 1 .. N : i \in Starts(octets) <=> octets[i] \div 64 # 2
  BY DEF Starts
<1> SUFFICES ASSUME NEW k \in 1 .. Len(w)
             PROVE  Cells(octets)[n + k] = IF k = 1 THEN Recode(c) ELSE <<>>
  OBVIOUS
<1>4. octets[n + k] = w[k]
  OBVIOUS
<1>5. Cells(octets)[n + k] = IF n + k \in Starts(octets) THEN Recode(ValueAt(octets, n + k)) ELSE <<>>
  BY <1>2 DEF Cells
<1>6. n + k \in Starts(octets) <=> w[k] \div 64 # 2
  BY <1>2, <1>3, <1>4
<1>7. CASE k = 1
  <2>1. At(octets, n + 1, w)
    <3>1. \A j \in 1 .. Len(w) : (n + 1) + j - 1 = n + j
      BY <1>1
    <3> QED BY <3>1 DEF At
  <2>2. ValueAt(octets, n + 1) = c
    BY <2>1, ValueIs
  <2> QED BY <1>1, <1>5, <1>6, <1>7, <2>2
<1>8. CASE k # 1
  <2>1. k \in 2 .. Len(w)
    BY <1>1, <1>8
  <2> QED BY <1>1, <1>5, <1>6, <1>8, <2>1
<1> QED
  BY <1>7, <1>8

\* A sequence with nothing behind its first element is flattened to it.
LEMMA FlattenFirst ==
    ASSUME NEW S, NEW r \in Seq(S), NEW n \in 1 .. 4
    PROVE  FlattenSeq([k \in 1 .. n |-> IF k = 1 THEN r ELSE <<>>]) = r
<1> DEFINE e == <<>>  cs == [k \in 1 .. n |-> IF k = 1 THEN r ELSE e]
<1>1. e \in Seq(S) /\ r \o e = r
  OBVIOUS
<1> HIDE DEF e
<1>2. /\ cs \in Seq(Seq(S)) /\ Len(cs) = n /\ cs # <<>>
      /\ \A k \in 1 .. n : cs[k] = IF k = 1 THEN r ELSE e
  BY <1>1
<1>3. PICK f : Flattens(cs, f) /\ FlattenSeq(cs) = f[Len(cs)]
  BY <1>2, FlattenIs
<1> HIDE DEF cs
<1>4. \A k \in 1 .. n : f[k] = IF k = 1 THEN cs[k] ELSE f[k - 1] \o cs[k]
  BY <1>2, <1>3 DEF Flattens
<1>5. f[1] = r
  BY <1>2, <1>4
<1>6. \A k \in 2 .. n : f[k - 1] = r => f[k] = r
  <2> SUFFICES ASSUME NEW k \in 2 .. n, f[k - 1] = r
               PROVE  f[k] = r
    OBVIOUS
  <2>1. k \in 1 .. n /\ k # 1
    OBVIOUS
  <2>2. f[k] = f[k - 1] \o cs[k] /\ cs[k] = e
    BY Zenon, <1>2, <1>4, <2>1
  <2> QED BY Zenon, <1>1, <2>2
<1>7. /\ n >= 2 => f[2] = r
      /\ n >= 3 => f[3] = r
      /\ n >= 4 => f[4] = r
  BY <1>5, <1>6
<1>8. f[n] = r
  <2>1. n = 1 \/ n = 2 \/ n = 3 \/ n = 4
    OBVIOUS
  <2> QED BY <1>5, <1>7, <2>1
<1> QED
  BY <1>2, <1>3, <1>8 DEF cs, e

\* The characters in UTF-8, and recoded.
Plain == [c \in Scalars |-> Utf8(c)]
Turned == [c \in Scalars |-> Recode(c)]

\* What is used of them.
LEMMA PlainAndTurned ==
    /\ Plain \in [Scalars -> Seq(Octet)]
    /\ Turned \in [Scalars -> Seq(Octet)]
    /\ \A c \in Scalars :
          /\ InRange(c) /\ Plain[c] = Utf8Form(c) /\ Turned[c] = Recode(c)
          /\ Len(Plain[c]) \in 1 .. 4 /\ Len(Turned[c]) \in 2 .. 2 * Len(Plain[c])
<1> SUFFICES ASSUME NEW c \in Scalars
             PROVE  /\ InRange(c) /\ Utf8(c) = Utf8Form(c)
                    /\ Utf8(c) \in Seq(Octet) /\ Recode(c) \in Seq(Octet)
                    /\ Len(Utf8(c)) \in 1 .. 4 /\ Len(Recode(c)) \in 2 .. 2 * Len(Utf8(c))
  BY DEF Plain, Turned
<1>1. InRange(c)
  BY Zenon DEF Scalars
<1> DEFINE w == Utf8Form(c)
<1>2. Utf8(c) = w /\ w \in Seq(Octet) /\ Len(w) \in 1 .. 4
  BY <1>1, Utf8Octets, Utf8Lead
<1>3. Recode(c) \in Seq(Octet) /\ Len(Recode(c)) = 2
  BY <1>1, RecodeIs
<1> DEFINE m == Len(w)  n == Len(Recode(c))
<1>4. m \in 1 .. 4 /\ n = 2
  BY <1>2, <1>3
<1> HIDE DEF w, m, n
<1>5. n \in 2 .. 2 * m
  BY SMTT(30), <1>4
<1>6. n \in 2 .. 2 * Len(Utf8(c))
  BY <1>2, <1>5 DEF m
<1> QED
  BY <1>1, <1>2, <1>3, <1>6 DEF n, w

\* What `octets` contribute does not depend on what follows them.
Settled(octets) ==
    \A v \in Seq(Octet), i \in 1 .. Len(octets) : Cells(octets \o v)[i] = Cells(octets)[i]

\* One character more.
LEMMA CellsOfMore ==
    ASSUME NEW o \in Seq(Octet), Settled(o), Cells(o) \in Seq(Seq(Octet)), NEW c \in Scalars
    PROVE  LET w == Plain[c]
               x == o \o w
               cs == [k \in 1 .. Len(w) |-> IF k = 1 THEN Recode(c) ELSE <<>>]
           IN  /\ Settled(x)
               /\ Cells(x) = Cells(o) \o cs
               /\ cs \in Seq(Seq(Octet)) /\ Cells(x) \in Seq(Seq(Octet))
<1> DEFINE w == Plain[c]  x == o \o w  Q == Seq(Octet)  n == Len(o)  m == Len(w)
           first(k) == IF k = 1 THEN Recode(c) ELSE <<>>
           cs == [k \in 1 .. m |-> first(k)]
<1>1. /\ w \in Q /\ m \in 1 .. 4 /\ n \in Nat /\ InRange(c) /\ w = Utf8Form(c) /\ Recode(c) \in Q
      /\ <<>> \in Q
  BY PlainAndTurned
<1>2. x \in Q /\ Len(x) = n + m
  BY <1>1, ConcatProperties
<1>3. ASSUME NEW v \in Q
      PROVE  /\ \A i \in 1 .. n : Cells(x \o v)[i] = Cells(o)[i]
             /\ \A k \in 1 .. m : Cells(x \o v)[n + k] = first(k)
  <2> DEFINE y == x \o v
  <2>1. y \in Q /\ Len(y) = (n + m) + Len(v) /\ Len(v) \in Nat
    BY <1>2, ConcatProperties
  <2>2. y = o \o (w \o v) /\ w \o v \in Q
    <3>1. w \in Seq(Octet) /\ v \in Seq(Octet)
      BY <1>1 DEF Q
    <3> HIDE DEF w, Q, m, cs
    <3>2. (o \o w) \o v = o \o (w \o v)
      BY SMTT(60), <3>1, ConcatAssociative
    <3>3. w \o v \in Q
      BY <3>1, ConcatProperties DEF Q
    <3> QED BY <3>2, <3>3
  <2>3. \A i \in 1 .. n : Cells(y)[i] = Cells(o)[i]
    BY <2>2 DEF Settled
  <2>4. \A k \in 1 .. m : y[n + k] = w[k]
    <3>1. \A i \in 1 .. (n + m) : y[i] = x[i]
      BY <1>2, FrontOfConcat
    <3>2. \A k \in 1 .. m : x[n + k] = w[k]
      <4>1. \A i \in 1 .. n + m : x[i] = IF i <= n THEN o[i] ELSE w[i - n]
        BY <1>1, ConcatProperties
      <4> HIDE DEF x, w, n, m
      <4> TAKE k \in 1 .. m
      <4>2. n + k \in 1 .. n + m /\ ~ (n + k <= n) /\ (n + k) - n = k
        BY <1>1
      <4> QED BY <4>1, <4>2
    <3> HIDE DEF y, x, w, n, m
    <3>3. \A k \in 1 .. m : n + k \in 1 .. (n + m)
      BY <1>1
    <3> QED BY <3>1, <3>2, <3>3
  <2> HIDE DEF y, x, n, Q
  <2>5. n + m <= Len(y)
    BY <1>1, <2>1
  <2>6. \A k \in 1 .. m : Cells(y)[n + k] = first(k)
    <3> DEFINE l == Utf8Form(c)
    <3>1. n + Len(l) <= Len(y) /\ y \in Seq(Octet) /\ \A k \in 1 .. Len(l) : y[n + k] = l[k]
      BY <1>1, <2>1, <2>4, <2>5 DEF Q
    <3>2. \A k \in 1 .. Len(l) : Cells(y)[n + k] = IF k = 1 THEN Recode(c) ELSE <<>>
      BY <1>1, <3>1, CellsOfOne
    <3> QED BY <1>1, <3>2
  <2> QED BY <2>3, <2>6 DEF y
<1>4. /\ \A i \in 1 .. n : Cells(x)[i] = Cells(o)[i]
      /\ \A k \in 1 .. m : Cells(x)[n + k] = first(k)
  <2> DEFINE e == <<>>
  <2>1. e \in Q /\ x \o e = x
    BY <1>2
  <2> HIDE DEF e, x
  <2> QED BY ZenonT(60), <1>3, <2>1
<1>5. Settled(x)
  <2> SUFFICES ASSUME NEW v \in Q, NEW i \in 1 .. (n + m) PROVE Cells(x \o v)[i] = Cells(x)[i]
    BY <1>2 DEF Settled
  <2>1. CASE i \in 1 .. n
    BY <1>3, <1>4, <2>1
  <2>2. CASE i \notin 1 .. n
    <3>1. i - n \in 1 .. m /\ i = n + (i - n)
      BY <1>1, <2>2
    <3>2. \A k \in 1 .. m : Cells(x \o v)[n + k] = Cells(x)[n + k]
      BY <1>3, <1>4
    <3> QED BY Zenon, <3>1, <3>2
  <2> QED BY <2>1, <2>2
<1> HIDE DEF Q
<1>6. cs \in Seq(Q) /\ Len(cs) = m /\ \A k \in 1 .. m : cs[k] = first(k)
  BY <1>1
<1>7. Len(Cells(o)) = n /\ Cells(o) \in Seq(Q) /\ Cells(x) = [i \in 1 .. (n + m) |-> Cells(x)[i]]
  BY <1>1, <1>2 DEF Cells, Q
<1> DEFINE a == Cells(o)  b == Cells(x)
<1> HIDE DEF cs, a, b, w, x, n, m
<1> DEFINE u == a \o cs
<1>8. /\ u \in Seq(Q) /\ Len(u) = n + m
      /\ \A i \in 1 .. n + m : u[i] = IF i <= n THEN a[i] ELSE cs[i - n]
  <2>1. a \in Seq(Q) /\ Len(a) = n
    BY <1>7 DEF a
  <2> HIDE DEF first
  <2> QED BY <1>6, <2>1, ConcatProperties
<1> HIDE DEF u
<1>9. \A i \in 1 .. (n + m) : u[i] = b[i]
  <2> SUFFICES ASSUME NEW i \in 1 .. (n + m) PROVE u[i] = b[i]
    OBVIOUS
  <2>1. CASE i <= n
    BY <1>1, <1>4, <1>8, <2>1 DEF a, b
  <2>2. CASE ~ i <= n
    <3>1. i - n \in 1 .. m /\ i = n + (i - n)
      BY <1>1, <2>2
    <3>2. b[n + (i - n)] = first(i - n)
      BY <1>4, <3>1 DEF b
    <3> QED BY <1>6, <1>8, <2>2, <3>1, <3>2
  <2> QED BY <2>1, <2>2
<1>10. b = u
  <2>1. b = [i \in 1 .. (n + m) |-> b[i]]
    BY <1>7 DEF b
  <2>2. \A i \in 1 .. (n + m) : b[i] \in Q
    <3>1. \A i \in 1 .. (n + m) : u[i] \in Q
      BY <1>8, LenProperties
    <3> QED BY <1>9, <3>1
  <2>3. n + m \in Nat
    BY <1>1
  <2>4. b \in Seq(Q) /\ Len(b) = n + m
    <3> DEFINE N == n + m
    <3>1. N \in Nat /\ b = [i \in 1 .. N |-> b[i]] /\ \A i \in 1 .. N : b[i] \in Q
      BY <2>1, <2>2, <2>3
    <3> HIDE DEF N, first
    <3>2. b \in Seq(Q) /\ Len(b) = N
      BY SMTT(60), <3>1
    <3> QED BY <3>2 DEF N
  <2> QED BY <1>8, <1>9, <2>4, SeqEqual
<1> QED
  BY Zenon, <1>5, <1>6, <1>8, <1>10 DEF a, b, u, x, cs, w, m, Q

\* A text whose octets are recoded character by character.
Turns(t) ==
    LET o == Spell(Plain, t) IN
    /\ o \in Seq(Octet) /\ Settled(o) /\ Cells(o) \in Seq(Seq(Octet))
    /\ Recoded(o) = Spell(Turned, t)
    /\ Len(Spell(Turned, t)) <= 2 * Len(o)

\* Recoding a buffer of whole characters recodes each of them; what comes out
\* is at most twice as long.
LEMMA AllTurn == \A t \in Seq(Scalars) : Turns(t)
<1>0. /\ Plain \in [Scalars -> Seq(Octet)] /\ Turned \in [Scalars -> Seq(Octet)]
  BY PlainAndTurned
<1>01. /\ \A t \in Seq(Scalars) : Spell(Plain, t) \in Seq(Octet)
       /\ \A t \in Seq(Scalars), c \in Scalars : Spell(Plain, Append(t, c)) = Spell(Plain, t) \o Plain[c]
  BY ZenonT(60), <1>0, SpellPush
<1>02. /\ \A t \in Seq(Scalars) : Spell(Turned, t) \in Seq(Octet)
       /\ \A t \in Seq(Scalars), c \in Scalars : Spell(Turned, Append(t, c)) = Spell(Turned, t) \o Turned[c]
  BY ZenonT(60), <1>0, SpellPush
<1> DEFINE T == {t \in Seq(Scalars) : Turns(t)}
<1>1. <<>> \in T
  <2> DEFINE e == <<>>
  <2>1. e \in Seq(Octet) /\ Len(e) = 0 /\ e \in Seq(Scalars) /\ Cells(e) = <<>> /\ FlattenSeq(<<>>) = <<>>
    BY DEF Cells, FlattenSeq
  <2>2. Spell(Plain, e) = e /\ Spell(Turned, e) = e
    BY SpellNone
  <2>3. Settled(e)
    BY DEF Settled
  <2>4. Recoded(e) = e
    BY <2>1 DEF Recoded, Cells
  <2>5. Turns(e)
    <3>1. Cells(e) \in Seq(Seq(Octet))
      <4>1. <<>> \in Seq(Seq(Octet))
        OBVIOUS
      <4> QED BY Zenon, <2>1, <4>1
    <3>2. Len(e) <= 2 * Len(e)
      BY <2>1
    <3> HIDE DEF e
    <3> QED BY Zenon, <2>1, <2>2, <2>3, <2>4, <3>1, <3>2 DEF Turns
  <2> QED BY <2>1, <2>5
<1>2. ASSUME NEW t \in Seq(Scalars), NEW c \in Scalars, t \in T
      PROVE  Append(t, c) \in T
  <2> DEFINE o == Spell(Plain, t)  w == Plain[c]  x == o \o w
             p == Spell(Turned, t)  r == Turned[c]
             cs == [k \in 1 .. Len(w) |-> IF k = 1 THEN r ELSE <<>>]
  <2>1. /\ o \in Seq(Octet) /\ Settled(o) /\ Cells(o) \in Seq(Seq(Octet)) /\ Recoded(o) = p
        /\ Len(p) <= 2 * Len(o)
    BY <1>2 DEF Turns
  <2>2. /\ Spell(Plain, Append(t, c)) = x /\ Spell(Turned, Append(t, c)) = p \o r /\ p \in Seq(Octet)
    BY Zenon, <1>01, <1>02
  <2>3. /\ w \in Seq(Octet) /\ r \in Seq(Octet) /\ r = Recode(c)
        /\ Len(w) \in 1 .. 4 /\ Len(r) \in 2 .. 2 * Len(w)
    BY PlainAndTurned
  <2>4. /\ Settled(x) /\ Cells(x) = Cells(o) \o cs
        /\ cs \in Seq(Seq(Octet)) /\ Cells(x) \in Seq(Seq(Octet))
    BY <2>1, <2>3, CellsOfMore
  <2>5. x \in Seq(Octet) /\ Len(x) = Len(o) + Len(w)
    BY <2>1, <2>3, ConcatProperties
  <2>6. FlattenSeq(cs) = r
    BY <2>3, FlattenFirst
  <2>7. Recoded(x) = p \o r
    <3> DEFINE a == Cells(o)
    <3> HIDE DEF cs, a
    <3>1. FlattenSeq(a \o cs) = FlattenSeq(a) \o FlattenSeq(cs)
      BY <2>1, <2>4, FlattenConcat DEF a
    <3>2. Recoded(x) = FlattenSeq(Cells(x)) /\ Recoded(o) = FlattenSeq(a)
      BY DEF Recoded, Cells, a
    <3> QED BY Zenon, <2>1, <2>4, <2>6, <3>1, <3>2 DEF a
  <2>8. Len(p \o r) <= 2 * Len(x)
    <3>1. Len(p \o r) = Len(p) + Len(r) /\ Len(p) \in Nat /\ Len(o) \in Nat
      BY <2>1, <2>2, <2>3, ConcatProperties
    <3> QED BY <2>1, <2>3, <2>5, <3>1
  <2>9. Turns(Append(t, c))
    BY Zenon, <2>2, <2>4, <2>5, <2>7, <2>8 DEF Turns
  <2>10. Append(t, c) \in Seq(Scalars)
    OBVIOUS
  <2> QED BY <2>9, <2>10
<1> HIDE DEF T
<1>3. Seq(Scalars) \subseteq T
  BY <1>1, <1>2, GrowSeq
<1> QED
  BY <1>3 DEF T

-----------------------------------------------------------------------------
(* What is written.                                                        *)

\* Characters as they are written in the encoding of the output.
Sent == [c \in Scalars |-> IF encoding = UTF8 THEN Utf8(c) ELSE Recode(c)]

\* They are those in UTF-8, or recoded.
LEMMA SentIs ==
    /\ encoding = UTF8 => Sent = Plain
    /\ encoding # UTF8 => Sent = Turned
    /\ Sent \in [Scalars -> Seq(Octet)]
<1>1. encoding = UTF8 => Sent = Plain
  BY DEF Sent, Plain
<1>2. encoding # UTF8 => Sent = Turned
  BY DEF Sent, Turned
<1> QED
  BY <1>1, <1>2, PlainAndTurned

\* What a text is written as.
LEMMA SentText ==
    \A s, t \in Seq(Scalars) :
        /\ Spell(Sent, s) \in Seq(Octet) /\ Spell(Plain, s) \in Seq(Octet)
        /\ Spell(Sent, s \o t) = Spell(Sent, s) \o Spell(Sent, t)
        /\ Spell(Plain, s \o t) = Spell(Plain, s) \o Spell(Plain, t)
<1> DEFINE f == Sent  g == Plain
<1>1. f \in [Scalars -> Seq(Octet)]
  BY SentIs
<1>2. g \in [Scalars -> Seq(Octet)]
  BY PlainAndTurned
<1> HIDE DEF f, g
<1>3. \A s \in Seq(Scalars) : Spell(f, s) \in Seq(Octet)
  BY <1>1, SpellPush
<1>4. \A s \in Seq(Scalars) : Spell(g, s) \in Seq(Octet)
  BY <1>2, SpellPush
<1>5. \A s, t \in Seq(Scalars) : Spell(f, s \o t) = Spell(f, s) \o Spell(f, t)
  BY <1>1, SpellConcat
<1>6. \A s, t \in Seq(Scalars) : Spell(g, s \o t) = Spell(g, s) \o Spell(g, t)
  BY <1>2, SpellConcat
<1> QED
  BY Zenon, <1>3, <1>4, <1>5, <1>6 DEF f, g

\* A buffer of whole characters is written as those.
LEMMA ToWriteIs ==
    ASSUME NEW b \in Seq(Scalars), buffer = Spell(Plain, b)
    PROVE  ToWrite = Spell(Sent, b)
<1>1. CASE encoding = UTF8
  BY Zenon, <1>1, SentIs DEF ToWrite
<1>2. CASE encoding # UTF8
  <2>1. Recoded(Spell(Plain, b)) = Spell(Turned, b)
    BY Zenon, AllTurn DEF Turns
  <2> QED BY Zenon, <1>2, <2>1, SentIs DEF ToWrite
<1> QED
  BY <1>1, <1>2

\* The byte order mark that a stream in UTF-16 begins with.
Mark == \hFEFF
Begun == IF encoding = UTF8 THEN <<>> ELSE <<Mark>>

\* It is a character, whose octets are the ones the code puts.
LEMMA MarkIs ==
    /\ Mark \in Scalars /\ Begun \in Seq(Scalars)
    /\ Spell(Plain, Begun) = StartMark(encoding)
    /\ Len(StartMark(encoding)) <= 4
<1>1. InRange(Mark) /\ Mark \in Scalars
  BY SMTT(30) DEF Mark, InRange, Scalars
<1>2. Utf8Form(Mark) = <<\hEF, \hBB, \hBF>>
  BY SMTT(30) DEF Mark, Utf8Form
<1>3. Spell(Plain, <<Mark>>) = Plain[Mark]
  BY <1>1, PlainAndTurned, SpellOne
<1>4. Plain[Mark] = <<\hEF, \hBB, \hBF>>
  BY <1>1, <1>2, PlainAndTurned
<1>5. Spell(Plain, <<>>) = <<>>
  BY SpellNone
<1>6. Begun \in Seq(Scalars)
  BY <1>1 DEF Begun
<1>7. Spell(Plain, Begun) = StartMark(encoding)
  BY Zenon, <1>3, <1>4, <1>5 DEF Begun, StartMark
<1>8. Len(StartMark(encoding)) <= 4
  BY DEF StartMark
<1> QED
  BY <1>1, <1>6, <1>7, <1>8

\* Nothing else of the state matters to them.
LEMMA SameEncoding ==
    ASSUME encoding' = encoding
    PROVE  Sent' = Sent /\ Begun' = Begun
BY DEF Sent, Begun, Recode, Pair

-----------------------------------------------------------------------------
(* The inductive invariant.                                                *)

Types ==
    /\ started \in BOOLEAN /\ finished \in BOOLEAN
    /\ encoding \in {ANY, UTF8, UTF16LE, UTF16BE} /\ (started => encoding # ANY)
    /\ buffer \in Seq(Octet) /\ written \in Seq(Octet) /\ put \in Seq(Scalars)
    /\ error \in {"NONE", "WRITER"}

Room == Len(buffer) <= BufferSize

\* Before the stream has been started nothing has happened.
Idle ==
    ~ started => /\ buffer = <<>> /\ written = <<>> /\ put = <<>>
                 /\ error = "NONE" /\ ~ finished

\* What is left of `text` when `out` has been written.
Remains(out, text) == \E v \in Seq(Octet) : out \o v = text

\* The text is what has been written, a, and what is in the buffer, b, and the
\* boundary is between two characters; only a handler that failed has taken
\* more, and no more than there was.
Split(a, b) ==
    /\ a \in Seq(Scalars) /\ b \in Seq(Scalars)
    /\ Begun \o put = a \o b
    /\ buffer = Spell(Plain, b)
    /\ error = "NONE" => written = Spell(Sent, a)
    /\ Remains(written, Spell(Sent, a \o b))
    /\ finished => b = <<>> /\ error = "NONE"

Divided == started => \E a, b : Split(a, b)

WriterInv == Types /\ Room /\ Idle /\ Divided

-----------------------------------------------------------------------------
(* What is put is whole characters.                                        *)

\* Nothing is spelled as nothing, and it is neutral.
LEMMA Nothing ==
    /\ <<>> \in Seq(Scalars) /\ <<>> \in Seq(Octet)
    /\ Spell(Sent, <<>>) = <<>> /\ Spell(Plain, <<>>) = <<>>
    /\ \A s \in Seq(Scalars) : s \o <<>> = s /\ <<>> \o s = s
    /\ \A s \in Seq(Octet) : s \o <<>> = s /\ <<>> \o s = s
<1>1. Spell(Sent, <<>>) = <<>> /\ Spell(Plain, <<>>) = <<>>
  BY SpellNone
<1> QED
  BY <1>1

\* The octets of one character, as COPY takes them.
LEMMA CopyIs ==
    ASSUME NEW c \in Scalars
    PROVE  /\ COPY(Utf8(c)) = Spell(Plain, <<c>>) /\ <<c>> \in Seq(Scalars)
           /\ Len(COPY(Utf8(c))) <= 4
<1> DEFINE w == Utf8(c)
<1>1. InRange(c) /\ w = Utf8Form(c) /\ Plain[c] = w
  BY PlainAndTurned DEF Plain
<1>2. w \in Seq(Octet) /\ Len(w) \in 1 .. 4 /\ Width(w[1]) = Len(w)
  BY <1>1, Utf8Lead
<1> HIDE DEF w
<1>3. SubSeq(w, 1, Len(w)) = w
  <2> DEFINE n == Len(w)  x == SubSeq(w, 1, n)
  <2>1. n \in Nat /\ x \in Seq(Octet) /\ Len(x) = n /\ \A i \in 1 .. n : x[i] = w[i]
    BY <1>2
  <2> HIDE DEF x
  <2>2. x = w
    BY <1>2, <2>1, SeqEqual
  <2> QED BY <2>2 DEF x
<1>4. Spell(Plain, <<c>>) = Plain[c]
  BY PlainAndTurned, SpellOne
<1>5. COPY(w) = w
  BY <1>2, <1>3 DEF COPY
<1>6. <<c>> \in Seq(Scalars)
  OBVIOUS
<1>7. Len(w) <= 4
  <2> DEFINE m == Len(w)
  <2>1. m \in 1 .. 4
    BY Zenon, <1>2
  <2> HIDE DEF m
  <2>2. m <= 4
    BY <2>1
  <2> QED BY <2>2 DEF m
<1> QED
  BY Zenon, <1>1, <1>4, <1>5, <1>6, <1>7 DEF w

\* A character of one octet is put as it is.
LEMMA OneOctet ==
    ASSUME NEW c \in 0 .. 127
    PROVE  c \in Scalars /\ <<c>> = Spell(Plain, <<c>>) /\ Plain[c] = <<c>>
<1>1. InRange(c) /\ c \in Nat
  BY SMTT(30) DEF InRange
<1>2. c \in Scalars
  BY Zenon, <1>1 DEF Scalars
<1>3. Utf8Form(c) = <<c>>
  BY SMTT(30) DEF Utf8Form
<1>4. Plain[c] = <<c>>
  BY <1>2, <1>3, PlainAndTurned
<1>5. Spell(Plain, <<c>>) = Plain[c]
  BY ZenonT(60), <1>2, PlainAndTurned, SpellOne
<1> QED
  BY <1>2, <1>4, <1>5

\* So is a line break.
LEMMA BreakIs ==
    /\ LineBreak \in Seq(Scalars) /\ LineBreak = Spell(Plain, LineBreak) /\ Len(LineBreak) <= 4
<1>1. 13 \in 0 .. 127 /\ 10 \in 0 .. 127
  OBVIOUS
<1>2. 13 \in Scalars /\ 10 \in Scalars /\ <<13>> = Spell(Plain, <<13>>)
      /\ <<10>> = Spell(Plain, <<10>>) /\ Plain[10] = <<10>>
  BY <1>1, OneOctet
<1> DEFINE cr == <<13>>  lf == <<10>>  both == <<13, 10>>
<1>3. cr \in Seq(Scalars) /\ lf \in Seq(Scalars) /\ Len(cr) = 1 /\ Len(lf) = 1
  BY <1>2
<1>4. both \in Seq(Scalars) /\ Len(both) = 2 /\ both = cr \o lf
  BY <1>2
<1>5. Spell(Plain, cr \o lf) = Spell(Plain, cr) \o Spell(Plain, lf)
  BY Zenon, <1>3, SentText
<1>6. both = Spell(Plain, both)
  BY Zenon, <1>2, <1>4, <1>5
<1>7. LineBreak = cr \/ LineBreak = lf \/ LineBreak = both
  BY WriterAssumption
<1>8. /\ cr \in Seq(Scalars) /\ cr = Spell(Plain, cr) /\ Len(cr) <= 4
      /\ lf \in Seq(Scalars) /\ lf = Spell(Plain, lf) /\ Len(lf) <= 4
      /\ both \in Seq(Scalars) /\ both = Spell(Plain, both) /\ Len(both) <= 4
  BY <1>2, <1>3, <1>4, <1>6
<1> HIDE DEF cr, lf, both
<1> QED
  BY Zenon, <1>7, <1>8

\* The characters that are copied are characters.
LEMMA CopiedAreScalars == Characters \cup Breaks \subseteq Scalars
BY ScalarIs, WriterAssumption

-----------------------------------------------------------------------------
(* The steps.                                                              *)

\* As long as the handler has not failed, the rest is in the buffer.
LEMMA Unfailed ==
    ASSUME NEW a \in Seq(Scalars), NEW b \in Seq(Scalars)
    PROVE  /\ Spell(Sent, a) \o Spell(Sent, b) = Spell(Sent, a \o b)
           /\ Remains(Spell(Sent, a), Spell(Sent, a \o b))
           /\ Spell(Sent, a) \in Seq(Octet)
<1>1. Spell(Sent, a) \o Spell(Sent, b) = Spell(Sent, a \o b) /\ Spell(Sent, b) \in Seq(Octet)
      /\ Spell(Sent, a) \in Seq(Octet)
  BY Zenon, SentText
<1> QED
  BY Zenon, <1>1 DEF Remains

\* A handler that fails has taken some of what there was.
LEMMA FailureTakesSome ==
    ASSUME Types, NEW a, NEW b, Split(a, b), error = "NONE", NEW n \in Nat, flush_fails(n)
    PROVE  /\ written' \in Seq(Octet) /\ error' = "WRITER"
           /\ Remains(written', Spell(Sent, a \o b))
<1> DEFINE t == ToWrite  w == Spell(Sent, a)  x == SubSeq(t, 1, n)  y == SubSeq(t, n + 1, Len(t))
<1>1. a \in Seq(Scalars) /\ b \in Seq(Scalars) /\ buffer = Spell(Plain, b) /\ written = w
  BY DEF Split
<1>2. t = Spell(Sent, b) /\ t \in Seq(Octet) /\ w \in Seq(Octet) /\ w \o t = Spell(Sent, a \o b)
  <2>1. t = Spell(Sent, b)
    BY <1>1, ToWriteIs
  <2>2. Spell(Sent, b) \in Seq(Octet)
    BY Zenon, <1>1, SentText
  <2>3. w \in Seq(Octet) /\ w \o Spell(Sent, b) = Spell(Sent, a \o b)
    BY <1>1, Unfailed
  <2> HIDE DEF t, w
  <2> QED BY Zenon, <2>1, <2>2, <2>3
<1>3. n < Len(t) /\ written' = w \o x /\ error' = "WRITER"
  BY <1>1 DEF flush_fails
<1> HIDE DEF t, w
<1>4. n \in 0 .. Len(t)
  BY <1>2, <1>3
<1>5. t = x \o y /\ x \in Seq(Octet) /\ y \in Seq(Octet)
  BY <1>2, <1>4, CutInTwo
<1> HIDE DEF x, y
<1>6. (w \o x) \o y = w \o (x \o y) /\ w \o x \in Seq(Octet)
  <2>1. (w \o x) \o y = w \o (x \o y)
    BY SMTT(60), <1>2, <1>5, ConcatAssociative
  <2> QED BY <1>2, <1>5, <2>1, ConcatProperties
<1>7. written' \o y = Spell(Sent, a \o b)
  BY Zenon, <1>2, <1>3, <1>5, <1>6
<1> QED
  BY Zenon, <1>3, <1>5, <1>6, <1>7 DEF Remains

\* A step puts whole characters.
Puts(octets, chars) ==
    chars \in Seq(Scalars) /\ octets = Spell(Plain, chars) /\ Len(octets) <= 4

\* FLUSH and what follows it keep the invariant.
LEMMA AfterFlushKeeps ==
    ASSUME WriterInv, NEW octets, NEW chars, Puts(octets, chars), AfterFlush(octets, chars)
    PROVE  WriterInv'
<1>1. /\ started /\ ~ finished /\ error = "NONE"
      /\ started' = started /\ encoding' = encoding /\ finished' = finished
  BY DEF AfterFlush
<1>2. PICK a, b : Split(a, b)
  BY <1>1 DEF WriterInv, Divided
<1>3. /\ a \in Seq(Scalars) /\ b \in Seq(Scalars) /\ Begun \o put = a \o b
      /\ buffer = Spell(Plain, b) /\ written = Spell(Sent, a)
      /\ Remains(written, Spell(Sent, a \o b))
  BY <1>1, <1>2 DEF Split
<1>4. Sent' = Sent /\ Begun' = Begun /\ Begun \in Seq(Scalars)
  BY <1>1, SameEncoding, MarkIs
<1>5. /\ chars \in Seq(Scalars) /\ octets = Spell(Plain, chars) /\ Len(octets) <= 4
      /\ octets \in Seq(Octet) /\ Types /\ put \in Seq(Scalars) /\ Room
  BY SentText DEF Puts, WriterInv, Types
<1>6. BufferSize \in Nat /\ BufferSize > 5
  BY WriterAssumption
<1>7. ASSUME NEW s, NEW t, s \in Seq(Scalars), t \in Seq(Scalars), Begun \o put' = s \o t,
             put' \in Seq(Scalars), buffer' \in Seq(Octet), written' \in Seq(Octet),
             Len(buffer') <= BufferSize, buffer' = Spell(Plain, t),
             error' \in {"NONE", "WRITER"},
             error' = "NONE" => written' = Spell(Sent, s),
             Remains(written', Spell(Sent, s \o t))
      PROVE  WriterInv'
  <2>1. Types'
    BY Zenon, <1>1, <1>5, <1>7 DEF Types
  <2>2. Room'
    BY <1>7 DEF Room
  <2>3. Idle'
    BY <1>1 DEF Idle
  <2>4. Split(s, t)'
    BY Zenon, <1>1, <1>4, <1>7 DEF Split
  <2> QED BY <2>1, <2>2, <2>3, <2>4 DEF WriterInv, Divided
<1>8. (Begun \o put) \o chars = Begun \o (put \o chars) /\ put \o chars \in Seq(Scalars)
  <2> DEFINE g == Begun
  <2>1. g \in Seq(Scalars)
    BY <1>4
  <2> HIDE DEF g
  <2>2. (g \o put) \o chars = g \o (put \o chars)
    BY SMTT(60), <1>5, <2>1, ConcatAssociative
  <2> QED BY <1>5, <2>2, ConcatProperties DEF g
<1>9. (a \o b) \o chars = a \o (b \o chars) /\ a \o b \in Seq(Scalars) /\ b \o chars \in Seq(Scalars)
  <2>1. a \in Seq(Scalars) /\ b \in Seq(Scalars) /\ chars \in Seq(Scalars)
    BY <1>3, <1>5
  <2>2. (a \o b) \o chars = a \o (b \o chars)
    BY SMTT(60), <2>1, ConcatAssociative
  <2> QED BY <2>1, <2>2, ConcatProperties
<1>10. CASE /\ HasRoom
            /\ buffer' = buffer \o octets
            /\ put' = put \o chars
            /\ UNCHANGED <<written, error>>
  <2> DEFINE t == b \o chars
  <2>1. Begun \o put' = a \o t
    BY Zenon, <1>3, <1>8, <1>9, <1>10
  <2>2. t \in Seq(Scalars) /\ put' \in Seq(Scalars)
    BY <1>8, <1>9, <1>10
  <2>3. buffer' = Spell(Plain, t) /\ buffer' \in Seq(Octet)
    BY Zenon, <1>3, <1>5, <1>9, <1>10, SentText
  <2>4. Len(buffer') <= BufferSize
    <3>1. Len(buffer') = Len(buffer) + Len(octets) /\ Len(buffer) + 5 < BufferSize
      BY <1>5, <1>10, ConcatProperties DEF HasRoom, Types
    <3>2. Len(buffer) \in Nat /\ Len(octets) \in Nat
      BY <1>5 DEF Types
    <3> QED BY <1>5, <1>6, <3>1, <3>2
  <2>5. /\ written' = Spell(Sent, a) /\ written' \in Seq(Octet) /\ error' = "NONE"
        /\ Remains(written', Spell(Sent, a \o t))
    <3> HIDE DEF t
    <3>1. Remains(Spell(Sent, a), Spell(Sent, a \o t)) /\ Spell(Sent, a) \in Seq(Octet)
      BY <1>3, <2>2, Unfailed
    <3> QED BY Zenon, <1>1, <1>3, <1>10, <3>1
  <2> HIDE DEF t
  <2> QED BY <1>3, <1>7, <2>1, <2>2, <2>3, <2>4, <2>5
<1>11. CASE /\ ~ HasRoom
            /\ written' = written \o ToWrite
            /\ buffer' = octets
            /\ put' = put \o chars
            /\ UNCHANGED error
  <2> DEFINE s == a \o b
  <2>1. Begun \o put' = s \o chars
    BY Zenon, <1>3, <1>8, <1>11
  <2>2. s \in Seq(Scalars) /\ put' \in Seq(Scalars)
    BY <1>8, <1>9, <1>11
  <2>3. ToWrite = Spell(Sent, b)
    BY <1>3, ToWriteIs
  <2>4. written' = Spell(Sent, s)
    BY Zenon, <1>3, <1>11, <2>3, SentText
  <2>5. Len(buffer') <= BufferSize /\ buffer' \in Seq(Octet) /\ buffer' = Spell(Plain, chars)
    <3>1. Len(octets) \in Nat
      BY <1>5
    <3>2. Len(octets) <= BufferSize
      BY <1>5, <1>6, <3>1
    <3> QED BY Zenon, <1>5, <1>11, <3>2
  <2> HIDE DEF s
  <2>6. Remains(written', Spell(Sent, s \o chars)) /\ written' \in Seq(Octet)
    BY Zenon, <1>5, <2>2, <2>4, Unfailed
  <2> QED BY Zenon, <1>1, <1>5, <1>7, <1>11, <2>1, <2>2, <2>4, <2>5, <2>6
<1>12. CASE /\ ~ HasRoom
            /\ \E n \in 0 .. RawSize : flush_fails(n)
            /\ UNCHANGED <<buffer, put>>
  <2>1. PICK n \in 0 .. RawSize : flush_fails(n)
    BY <1>12
  <2>2. n \in Nat
    OBVIOUS
  <2>3. written' \in Seq(Octet) /\ error' = "WRITER" /\ Remains(written', Spell(Sent, a \o b))
    BY <1>1, <1>2, <1>5, <2>1, <2>2, FailureTakesSome
  <2>4. /\ Begun \o put' = a \o b /\ put' \in Seq(Scalars) /\ buffer' \in Seq(Octet)
        /\ Len(buffer') <= BufferSize /\ buffer' = Spell(Plain, b)
    BY Zenon, <1>3, <1>5, <1>12 DEF Types, Room
  <2>5. error' \in {"NONE", "WRITER"} /\ error' # "NONE"
    BY <2>3
  <2> QED BY Zenon, <1>3, <1>7, <2>3, <2>4, <2>5
<1> QED
  BY Zenon, <1>10, <1>11, <1>12 DEF AfterFlush

\* The start of the stream puts the mark.
LEMMA StartKeeps ==
    ASSUME WriterInv, NEW e \in {ANY, UTF8, UTF16LE, UTF16BE}, emit_stream_start(e)
    PROVE  WriterInv'
<1>1. /\ ~ started /\ started' = TRUE /\ encoding' = OutputEncoding(e)
      /\ buffer' = StartMark(encoding') /\ UNCHANGED <<written, error, finished, put>>
  BY DEF emit_stream_start
<1>2. Types /\ put = <<>> /\ written = <<>> /\ error = "NONE" /\ ~ finished
  BY <1>1 DEF WriterInv, Idle
<1>3. encoding' \in {ANY, UTF8, UTF16LE, UTF16BE} /\ encoding' # ANY
  BY <1>1, <1>2, EncodingsAssumption DEF OutputEncoding, Types
<1>4. /\ Begun' \in Seq(Scalars) /\ Spell(Plain, Begun') = StartMark(encoding')
      /\ Len(StartMark(encoding')) <= 4
  <2>1. (/\ Begun \in Seq(Scalars) /\ Spell(Plain, Begun) = StartMark(encoding)
         /\ Len(StartMark(encoding)) <= 4)'
    BY MarkIs, PTL
  <2> QED BY <2>1
<1>5. \A s \in Seq(Scalars) : Spell(Plain, s) \in Seq(Octet)
  BY Zenon, SentText
<1> PICK t : t = Begun'
  OBVIOUS
<1>6. t \in Seq(Scalars) /\ buffer' = Spell(Plain, t) /\ buffer' \in Seq(Octet) /\ Len(buffer') <= 4
  BY Zenon, <1>1, <1>4, <1>5
<1>7. Types'
  BY Zenon, <1>1, <1>2, <1>3, <1>6 DEF Types
<1>8. Room'
  <2>1. Len(buffer') \in Nat
    BY <1>6
  <2> QED BY <1>6, <2>1, WriterAssumption DEF Room
<1>9. Idle'
  BY <1>1 DEF Idle
<1>10. Split(<<>>, t)'
  <2>1. Sent' \in [Scalars -> Seq(Octet)]
    <3>1. (Sent \in [Scalars -> Seq(Octet)])'
      BY SentIs, PTL
    <3> QED BY <3>1
  <2> DEFINE f == Sent'
  <2> HIDE DEF f
  <2>2. Spell(f, <<>>) = <<>> /\ Spell(f, t) \in Seq(Octet)
    BY <1>6, <2>1, SpellNone, SpellPush DEF f
  <2>3. <<>> \o t = t /\ t \o <<>> = t /\ <<>> \in Seq(Scalars) /\ <<>> \o Spell(f, t) = Spell(f, t)
    BY <1>6, <2>2, Nothing
  <2>4. Remains(<<>>, Spell(f, <<>> \o t))
    BY Zenon, <2>2, <2>3 DEF Remains
  <2>5. t \o put' = <<>> \o t
    BY Zenon, <1>1, <1>2, <2>3
  <2> QED BY Zenon, <1>1, <1>2, <1>6, <2>2, <2>3, <2>4, <2>5 DEF Split, f
<1> QED
  BY Zenon, <1>7, <1>8, <1>9, <1>10 DEF WriterInv, Divided

\* yaml_emitter_flush hands over what is in the buffer.
LEMMA FlushKeeps ==
    ASSUME WriterInv, NEW last \in BOOLEAN, flush(last)
    PROVE  WriterInv'
<1>1. /\ started /\ ~ finished /\ error = "NONE"
      /\ started' = started /\ encoding' = encoding /\ put' = put
  BY DEF flush
<1>2. PICK a, b : Split(a, b)
  BY <1>1 DEF WriterInv, Divided
<1>3. /\ a \in Seq(Scalars) /\ b \in Seq(Scalars) /\ Begun \o put = a \o b
      /\ buffer = Spell(Plain, b) /\ written = Spell(Sent, a)
      /\ Remains(written, Spell(Sent, a \o b))
  BY <1>1, <1>2 DEF Split
<1>4. Sent' = Sent /\ Begun' = Begun /\ Begun \in Seq(Scalars)
  BY <1>1, SameEncoding, MarkIs
<1>5. Types /\ Room
  BY DEF WriterInv
<1>6. Idle'
  BY <1>1 DEF Idle
<1>7. CASE /\ written' = written \o ToWrite
           /\ buffer' = <<>>
           /\ finished' = last
           /\ UNCHANGED error
  <2> DEFINE s == a \o b
  <2>1. s \in Seq(Scalars)
    BY <1>3, ConcatProperties
  <2>2. ToWrite = Spell(Sent, b)
    BY <1>3, ToWriteIs
  <2>3. written' = Spell(Sent, s)
    BY Zenon, <1>3, <1>7, <2>2, SentText
  <2> HIDE DEF s
  <2>4. s \o <<>> = s /\ <<>> \in Seq(Scalars) /\ <<>> \in Seq(Octet) /\ Spell(Plain, <<>>) = <<>>
    BY Zenon, <2>1, Nothing
  <2>5. Remains(written', Spell(Sent, s \o <<>>)) /\ written' \in Seq(Octet)
    BY Zenon, <2>1, <2>3, <2>4, Unfailed
  <2>6. Begun \o put' = s \o <<>>
    BY Zenon, <1>1, <1>3, <2>4 DEF s
  <2>7. Split(s, <<>>)'
    BY Zenon, <1>1, <1>4, <1>7, <2>1, <2>3, <2>4, <2>5, <2>6 DEF Split
  <2>8. Types'
    BY Zenon, <1>1, <1>5, <1>7, <2>4, <2>5 DEF Types
  <2>9. Room'
    <3>1. Len(buffer') = 0
      BY <1>7
    <3> QED BY <3>1, WriterAssumption DEF Room
  <2> QED BY Zenon, <1>6, <2>7, <2>8, <2>9 DEF WriterInv, Divided
<1>8. CASE /\ \E n \in 0 .. RawSize : flush_fails(n)
           /\ UNCHANGED <<buffer, finished>>
  <2>1. PICK n \in 0 .. RawSize : flush_fails(n)
    BY <1>8
  <2>2. n \in Nat
    OBVIOUS
  <2>3. written' \in Seq(Octet) /\ error' = "WRITER" /\ Remains(written', Spell(Sent, a \o b))
    BY <1>1, <1>2, <1>5, <2>1, <2>2, FailureTakesSome
  <2>4. error' \in {"NONE", "WRITER"} /\ error' # "NONE"
    BY <2>3
  <2>5. Split(a, b)'
    BY Zenon, <1>1, <1>3, <1>4, <1>8, <2>3, <2>4 DEF Split
  <2>6. Types'
    BY Zenon, <1>1, <1>5, <1>8, <2>3, <2>4 DEF Types
  <2>7. Room'
    BY Zenon, <1>5, <1>8 DEF Room
  <2> QED BY Zenon, <1>6, <2>5, <2>6, <2>7 DEF WriterInv, Divided
<1> QED
  BY Zenon, <1>7, <1>8 DEF flush

\* Every step keeps the invariant.
LEMMA StepKeeps ==
    ASSUME WriterInv, [Next]_vars
    PROVE  WriterInv'
<1>1. ASSUME NEW c \in Scalars PROVE Puts(COPY(Utf8(c)), <<c>>)
  BY CopyIs DEF Puts
<1>2. Puts(LineBreak, LineBreak)
  BY BreakIs DEF Puts
<1>3. ASSUME NEW e \in {ANY, UTF8, UTF16LE, UTF16BE}, emit_stream_start(e) PROVE WriterInv'
  BY <1>3, StartKeeps
<1>4. ASSUME NEW c \in Indicators, PUT(c) PROVE WriterInv'
  <2>1. c \in 0 .. 127
    BY WriterAssumption
  <2>2. c \in Scalars /\ <<c>> = Spell(Plain, <<c>>)
    BY <2>1, OneOctet
  <2>3. Puts(<<c>>, <<c>>)
    <3>1. <<c>> \in Seq(Scalars) /\ Len(<<c>>) <= 4
      BY <2>2
    <3> QED BY Zenon, <2>2, <3>1 DEF Puts
  <2> QED BY <1>4, <2>3, AfterFlushKeeps DEF PUT
<1>5. ASSUME PUT_BREAK PROVE WriterInv'
  BY <1>2, <1>5, AfterFlushKeeps DEF PUT_BREAK
<1>6. ASSUME NEW c \in Characters, WRITE(c) PROVE WriterInv'
  <2>1. c \in Scalars
    BY CopiedAreScalars
  <2> QED BY <1>1, <1>6, <2>1, AfterFlushKeeps DEF WRITE
<1>7. ASSUME NEW c \in Breaks, WRITE_BREAK(c) PROVE WriterInv'
  <2>1. c \in Scalars
    BY CopiedAreScalars
  <2>2. CASE c = 10
    BY <1>5, <1>7, <2>2 DEF WRITE_BREAK
  <2>3. CASE c # 10
    BY <1>1, <1>7, <2>1, <2>3, AfterFlushKeeps DEF WRITE_BREAK
  <2> QED BY <2>2, <2>3
<1>8. ASSUME NEW last \in BOOLEAN, flush(last) PROVE WriterInv'
  BY <1>8, FlushKeeps
<1>9. ASSUME UNCHANGED vars PROVE WriterInv'
  <2>1. UNCHANGED <<started, encoding, buffer, written, error, finished, put>>
    BY <1>9 DEF vars
  <2>2. Sent' = Sent /\ Begun' = Begun
    BY <2>1, SameEncoding
  <2>3. Types' /\ Room' /\ Idle'
    BY Zenon, <2>1 DEF WriterInv, Types, Room, Idle
  <2>4. \A a, b : Split(a, b) => Split(a, b)'
    BY Zenon, <2>1, <2>2 DEF Split
  <2>5. Divided'
    BY Zenon, <2>1, <2>4 DEF WriterInv, Divided
  <2> QED BY <2>3, <2>5 DEF WriterInv
<1> QED
  BY Zenon, <1>3, <1>4, <1>5, <1>6, <1>7, <1>8, <1>9 DEF Next

-----------------------------------------------------------------------------
(* The theorems.                                                           *)

\* The writer keeps its invariant: what has been written and what is buffered
\* are the text that was put, divided between two characters.
THEOREM WriterInvariant == Spec => []WriterInv
<1>1. Init => WriterInv
  <2> SUFFICES ASSUME Init PROVE WriterInv
    OBVIOUS
  <2>1. Types
    <3>1. <<>> \in Seq(Octet) /\ <<>> \in Seq(Scalars)
      BY Nothing
    <3> QED BY <3>1 DEF Init, Types
  <2>2. Room
    BY WriterAssumption DEF Init, Room
  <2>3. Idle /\ Divided
    BY DEF Init, Idle, Divided
  <2> QED BY <2>1, <2>2, <2>3 DEF WriterInv
<1>2. WriterInv /\ [Next]_vars => WriterInv'
  BY StepKeeps
<1> QED
  BY <1>1, <1>2, PTL DEF Spec

\* No octet is put beyond the output buffer, and the raw buffer holds whatever
\* the output buffer is recoded to (FLUSH, PUT and COPY of emitter.c;
\* OUTPUT_RAW_BUFFER_SIZE), for buffers of any size and any text.
THEOREM WriterBuffersFit == Spec => []BuffersFit
<1>1. WriterInv => BuffersFit
  <2> SUFFICES ASSUME WriterInv PROVE BuffersFit
    OBVIOUS
  <2>1. TypeOK
    <3>1. \A k \in 1 .. Len(put) : IsScalarValue(put[k])
      <4> SUFFICES ASSUME NEW k \in 1 .. Len(put) PROVE IsScalarValue(put[k])
        OBVIOUS
      <4>1. put[k] \in Scalars
        BY DEF WriterInv, Types
      <4> QED BY <4>1, ScalarIs
    <3> QED BY <3>1 DEF WriterInv, Types, TypeOK, Octet
  <2>2. PICK b \in Seq(Scalars) : buffer = Spell(Plain, b)
    <3>1. CASE started
      BY <3>1 DEF WriterInv, Divided, Split
    <3>2. CASE ~ started
      BY <3>2, Nothing DEF WriterInv, Idle
    <3> QED BY <3>1, <3>2
  <2>3. /\ Recoded(buffer) = Spell(Turned, b) /\ Len(Spell(Turned, b)) <= 2 * Len(buffer)
        /\ buffer \in Seq(Octet)
    BY Zenon, <2>2, AllTurn DEF Turns
  <2>4. Spell(Turned, b) \in Seq(Octet)
    <3>1. \A t \in Seq(Scalars) : Spell(Turned, t) \in Seq(Octet)
      BY PlainAndTurned, SpellPush
    <3> QED BY <3>1
  <2>5. Len(Recoded(buffer)) <= RawSize /\ Len(buffer) <= BufferSize
    <3>1. Len(buffer) <= BufferSize
      BY DEF WriterInv, Room
    <3> DEFINE l == Len(buffer)  r == Len(Recoded(buffer))
    <3>2. l \in Nat /\ r \in Nat /\ r <= 2 * l /\ l <= BufferSize
      BY <2>3, <2>4, <3>1
    <3> HIDE DEF l, r
    <3>3. r <= RawSize /\ l <= BufferSize
      BY <3>2, WriterAssumption
    <3> QED BY <3>3 DEF l, r
  <2> QED BY Zenon, <2>1, <2>5 DEF BuffersFit
<1> QED
  BY <1>1, WriterInvariant, PTL

\* The stream is what the text is written as.
LEMMA StreamIs ==
    ASSUME Types, started
    PROVE  Stream = Spell(Sent, Begun \o put)
<1>1. ASSUME NEW c \in Scalars
      PROVE  EncodedChar(c, encoding) = Sent[c]
  <2>1. InRange(c)
    BY PlainAndTurned
  <2> QED BY <2>1, RecodeIs DEF EncodedChar, Sent
<1>2. Encoded(put, encoding) = Spell(Sent, put)
  <2>1. \A k \in 1 .. Len(put) : put[k] \in Scalars
    BY DEF Types
  <2>2. [k \in 1 .. Len(put) |-> EncodedChar(put[k], encoding)]
          = [k \in 1 .. Len(put) |-> Sent[put[k]]]
    BY <1>1, <2>1
  <2> QED BY <2>2 DEF Encoded, Spell
<1>3. Mark \in Scalars /\ Begun \in Seq(Scalars) /\ put \in Seq(Scalars)
  BY MarkIs DEF Types
<1>4. Spell(Sent, Begun) = IF encoding = UTF8 THEN <<>> ELSE Bom(encoding)
  <2>1. Spell(Sent, <<Mark>>) = Sent[Mark]
    BY <1>3, SentIs, SpellOne
  <2>2. Bom(encoding) = Sent[Mark]
    BY <1>1, <1>3 DEF Bom, Mark
  <2> QED BY Zenon, <2>1, <2>2, Nothing DEF Begun
<1>5. encoding # ANY
  BY DEF Types
<1>6. Stream = Spell(Sent, Begun) \o Spell(Sent, put)
  BY Zenon, <1>2, <1>4, <1>5 DEF Stream
<1> QED
  BY Zenon, <1>3, <1>6, SentText

\* What the write handler has taken is the beginning of the stream, correctly
\* encoded, and all of it when the emitter has finished (yaml_emitter_flush and
\* the macros before it), for every text that the emitter can put.
THEOREM WriterOutputIsTheStream == Spec => []OutputIsTheStream
<1>1. WriterInv => OutputIsTheStream
  <2> SUFFICES ASSUME WriterInv PROVE OutputIsTheStream
    OBVIOUS
  <2>1. CASE started
    <3>1. PICK a, b : Split(a, b)
      BY <2>1 DEF WriterInv, Divided
    <3>2. Stream = Spell(Sent, a \o b)
      <4>1. Stream = Spell(Sent, Begun \o put)
        BY <2>1, StreamIs DEF WriterInv
      <4> QED BY Zenon, <3>1, <4>1 DEF Split
    <3>3. PICK v \in Seq(Octet) : written \o v = Spell(Sent, a \o b)
      BY <3>1 DEF Split, Remains
    <3>4. IsPrefix(written, written \o v)
      BY PrefixOfConcat DEF WriterInv, Types
    <3>5. ASSUME finished PROVE written = Stream
      <4>1. a \o b = a
        BY Zenon, <3>1, <3>5, Nothing DEF Split
      <4> QED BY Zenon, <3>1, <3>2, <3>5, <4>1 DEF Split
    <3> QED BY Zenon, <3>2, <3>3, <3>4, <3>5 DEF OutputIsTheStream
  <2>2. CASE ~ started
    <3>1. written = <<>> /\ put = <<>> /\ ~ finished
      BY <2>2 DEF WriterInv, Idle
    <3>2. Encoded(<<>>, encoding) = <<>>
      BY DEF Encoded, FlattenSeq
    <3>3. Stream = <<>>
      <4>1. <<>> \o <<>> = <<>>
        OBVIOUS
      <4> QED BY Zenon, <2>2, <3>1, <3>2, <4>1 DEF Stream
    <3>4. IsPrefix(<<>>, <<>>)
      <4>1. <<>> \in Seq(Octet) /\ <<>> \o <<>> = <<>>
        OBVIOUS
      <4> QED BY <4>1, PrefixOfConcat
    <3> QED BY Zenon, <3>1, <3>3, <3>4 DEF OutputIsTheStream
  <2> QED BY <2>1, <2>2
<1> QED
  BY <1>1, WriterInvariant, PTL

=============================================================================

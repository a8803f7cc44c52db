---------------------------- MODULE ReaderProofs ----------------------------
(***************************************************************************)
(* What is proved of the reader for every input, of any length, in any     *)
(* encoding, broken or not, and for every way in which the read handler    *)
(* cuts it into pieces: that it delivers the text, that no buffer          *)
(* overflows, that the look-ahead is there, and what bounds the offset.    *)
(***************************************************************************)
EXTENDS Reader, ProofLemmas

-----------------------------------------------------------------------------
(* Characters and their encodings.                                         *)

Octet == 0 .. 255
Chars == {c \in Nat : IsAllowed(c)}
Encodings3 == {UTF8, UTF16LE, UTF16BE}

\* What is used of a character, that it is in range and no surrogate.
InRange(c) == c \in Nat /\ c <= \h10FFFF /\ ~ (c >= \hD800 /\ c <= \hDFFF)

\* Allowed characters are characters, and none of them is NUL.
LEMMA CharRange ==
    ASSUME NEW c \in Chars
    PROVE  InRange(c) /\ c # 0 /\ IsAllowed(c)
<1>1. c \in Nat /\ IsAllowed(c)
  BY DEF Chars
<1>2. c # 0
  BY SMTT(60), <1>1 DEF IsAllowed
<1>3. c <= \h10FFFF
  BY SMTT(60), <1>1 DEF IsAllowed
<1>4. ~ (c >= \hD800 /\ c <= \hDFFF)
  BY SMTT(60), <1>1 DEF IsAllowed
<1> QED
  BY SMTT(30), <1>1, <1>2, <1>3, <1>4 DEF InRange

\* The octets of a character in UTF-8, without powers.
Utf8Form(c) ==
    IF c < \h80 THEN <<c>>
    ELSE IF c < \h800 THEN <<\hC0 + (c \div \h40), \h80 + (c % \h40)>>
    ELSE IF c < \h10000
    THEN <<\hE0 + (c \div \h1000), \h80 + ((c \div \h40) % \h40), \h80 + (c % \h40)>>
    ELSE <<\hF0 + (c \div \h40000), \h80 + ((c \div \h1000) % \h40),
           \h80 + ((c \div \h40) % \h40), \h80 + (c % \h40)>>

\* RFC 3629 and the code compute the same octets.
LEMMA Utf8Octets ==
    ASSUME NEW c, InRange(c)
    PROVE  Utf8(c) = Utf8Form(c) /\ Put(c) = Utf8Form(c)
<1>1. /\ 2^0 = 1 /\ 2^6 = 64 /\ 2^5 = 32 /\ 2^12 = 4096 /\ 2^4 = 16 /\ 2^18 = 262144 /\ 2^3 = 8
      /\ 64^0 = 1 /\ 64^1 = 64 /\ 64^2 = 4096
  BY SMT
<1>2. /\ Bits(c, 0, 6) = c % 64 /\ Bits(c, 6, 6) = (c \div 64) % 64
      /\ Bits(c, 6, 5) = (c \div 64) % 32 /\ Bits(c, 12, 4) = (c \div 4096) % 16
      /\ Bits(c, 12, 6) = (c \div 4096) % 64 /\ Bits(c, 18, 3) = (c \div 262144) % 8
  BY SMTT(30), <1>1 DEF Bits, InRange
<1>3. /\ c < 2048 => (c \div 64) % 32 = c \div 64
      /\ c < 65536 => (c \div 4096) % 16 = c \div 4096
      /\ (c \div 262144) % 8 = c \div 262144
  BY SMTT(30) DEF InRange
<1>4. Utf8(c) = Utf8Form(c)
  BY SMTT(30), <1>2, <1>3 DEF Utf8, Utf8Form, InRange
<1>5. /\ Trailing(c, 0) = 128 + (c % 64) /\ Trailing(c, 1) = 128 + ((c \div 64) % 64)
      /\ Trailing(c, 2) = 128 + ((c \div 4096) % 64)
  BY SMTT(30), <1>1 DEF Trailing, InRange
<1>6. Put(c) = Utf8Form(c)
  BY SMTT(30), <1>5 DEF Put, Utf8Form, InRange
<1> QED
  BY <1>4, <1>6

\* A unit in the order of the encoding.
Halves(unit, order) ==
    IF order = UTF16LE THEN <<unit % 256, unit \div 256>> ELSE <<unit \div 256, unit % 256>>

\* The units of a surrogate pair.
High(c) == \hD800 + ((c - \h10000) \div \h400)
Low(c) == \hDC00 + ((c - \h10000) % \h400)

\* The octets of a character in UTF-16, without powers.
Utf16Form(c, order) ==
    IF c < \h10000 THEN Halves(c, order) ELSE Halves(High(c), order) \o Halves(Low(c), order)

\* They are the ones RFC 2781 defines.
LEMMA Utf16Octets ==
    ASSUME NEW c, InRange(c), NEW order
    PROVE  Utf16(c, order) = Utf16Form(c, order)
<1> DEFINE us == Units(c)
           ss == [k \in 1 .. Len(us) |-> Halves(us[k], order)]
<1>1. /\ 2^0 = 1 /\ 2^10 = 1024
  BY SMT
<1>2. c >= 65536 => /\ Bits(c - 65536, 10, 10) = (c - 65536) \div 1024
                    /\ Bits(c - 65536, 0, 10) = (c - 65536) % 1024
  BY SMTT(30), <1>1 DEF Bits, InRange
<1>3. us = IF c < \h10000 THEN <<c>> ELSE <<High(c), Low(c)>>
  BY SMTT(30), <1>2 DEF Units, High, Low, InRange
<1>4. c >= \h10000 => High(c) \in Nat /\ Low(c) \in Nat
  BY SMTT(30) DEF High, Low, InRange
<1>5. Utf16(c, order) = FlattenSeq(ss)
  BY DEF Utf16, Halves
<1>6. \A u \in Nat : Halves(u, order) \in Seq(Nat)
  BY SMTT(30) DEF Halves
<1>7. \A s \in Seq(Nat) : FlattenSeq(Append(<<>>, s)) = s
  <2>1. <<>> \in Seq(Seq(Nat))
    OBVIOUS
  <2> QED BY <2>1, FlattenAppend
<1> HIDE DEF us
<1>8. CASE c < \h10000
  <2> DEFINE hc == Halves(c, order)
  <2>1. hc \in Seq(Nat)
    BY <1>6 DEF InRange
  <2>2. us = <<c>>
    BY SMTT(30), <1>3, <1>8
  <2>3. ss = <<hc>>
    BY <2>2
  <2> HIDE DEF ss, hc
  <2>4. ss = Append(<<>>, hc)
    BY <2>3
  <2>5. Utf16Form(c, order) = hc
    BY SMTT(30), <1>8 DEF hc, Utf16Form
  <2> QED BY <1>5, <1>7, <2>1, <2>4, <2>5
<1>9. CASE c >= \h10000
  <2> DEFINE hx == Halves(High(c), order)  hy == Halves(Low(c), order)
  <2>1. us = <<High(c), Low(c)>>
    BY SMTT(30), <1>3, <1>9 DEF InRange
  <2>2. ss = <<hx, hy>>
    BY <2>1
  <2>3. hx \in Seq(Nat) /\ hy \in Seq(Nat)
    BY <1>4, <1>6, <1>9
  <2>4. Utf16Form(c, order) = hx \o hy
    BY SMTT(30), <1>9 DEF Utf16Form, InRange
  <2> HIDE DEF hx, hy, ss
  <2>5. ss = Append(Append(<<>>, hx), hy) /\ Append(<<>>, hx) \in Seq(Seq(Nat))
        /\ Append(<<>>, hx) # <<>>
    BY <2>2, <2>3
  <2>6. FlattenSeq(Append(Append(<<>>, hx), hy)) = FlattenSeq(Append(<<>>, hx)) \o hy
    <3> DEFINE one == Append(<<>>, hx)
    <3>1. one \in Seq(Seq(Nat)) /\ one # <<>>
      BY <2>5
    <3> HIDE DEF one
    <3>2. FlattenSeq(Append(one, hy)) = FlattenSeq(one) \o hy
      BY <2>3, <3>1, FlattenAppend
    <3> QED BY <3>2 DEF one
  <2> QED BY <1>5, <1>7, <2>3, <2>4, <2>5, <2>6
<1> QED
  BY SMTT(30), <1>8, <1>9 DEF InRange
-----------------------------------------------------------------------------
(* Decoding.                                                               *)

\* `raw` begins with the octets of w.
Starts(raw, w) == Len(w) <= Len(raw) /\ \A k \in 1 .. Len(w) : raw[k] = w[k]

\* What DecodeUtf8 looks at.
Looked(raw, n) == Utf8Value(SubSeq(raw, 1, n))

\* The value of the first n octets, written out.
LEMMA LookedIs ==
    ASSUME NEW raw \in Seq(Octet)
    PROVE  /\ 1 <= Len(raw) => Looked(raw, 1) = raw[1]
           /\ 2 <= Len(raw) => Looked(raw, 2) = (raw[1] % 32) * 64 + (raw[2] % 64)
           /\ 3 <= Len(raw) => Looked(raw, 3) =
                ((raw[1] % 16) * 64 + (raw[2] % 64)) * 64 + (raw[3] % 64)
           /\ 4 <= Len(raw) => Looked(raw, 4) =
                (((raw[1] % 8) * 64 + (raw[2] % 64)) * 64 + (raw[3] % 64)) * 64 + (raw[4] % 64)
<1>1. \A n \in 1 .. Len(raw) : LET o == SubSeq(raw, 1, n) IN
         Len(o) = n /\ \A k \in 1 .. n : o[k] = raw[k]
  OBVIOUS
<1>2. ASSUME 1 <= Len(raw) PROVE Looked(raw, 1) = raw[1]
  <2> DEFINE o == SubSeq(raw, 1, 1)
  <2>1. Len(o) = 1 /\ o[1] = raw[1]
    BY <1>1, <1>2
  <2> HIDE DEF o
  <2>2. Utf8Value(o) = raw[1]
    BY SMTT(30), <2>1 DEF Utf8Value
  <2> QED BY <2>2 DEF o, Looked
<1>3. ASSUME 2 <= Len(raw) PROVE Looked(raw, 2) = (raw[1] % 32) * 64 + (raw[2] % 64)
  <2> DEFINE o == SubSeq(raw, 1, 2)
  <2>1. Len(o) = 2 /\ o[1] = raw[1] /\ o[2] = raw[2]
    BY <1>1, <1>3
  <2> HIDE DEF o
  <2>2. Utf8Value(o) = (raw[1] % 32) * 64 + (raw[2] % 64)
    BY SMTT(30), <2>1 DEF Utf8Value
  <2> QED BY <2>2 DEF o, Looked
<1>4. ASSUME 3 <= Len(raw)
      PROVE  Looked(raw, 3) = ((raw[1] % 16) * 64 + (raw[2] % 64)) * 64 + (raw[3] % 64)
  <2> DEFINE o == SubSeq(raw, 1, 3)
  <2>1. Len(o) = 3 /\ o[1] = raw[1] /\ o[2] = raw[2] /\ o[3] = raw[3]
    BY <1>1, <1>4
  <2> HIDE DEF o
  <2>2. Utf8Value(o) = ((raw[1] % 16) * 64 + (raw[2] % 64)) * 64 + (raw[3] % 64)
    BY SMTT(30), <2>1 DEF Utf8Value
  <2> QED BY <2>2 DEF o, Looked
<1>5. ASSUME 4 <= Len(raw)
      PROVE  Looked(raw, 4) =
                (((raw[1] % 8) * 64 + (raw[2] % 64)) * 64 + (raw[3] % 64)) * 64 + (raw[4] % 64)
  <2> DEFINE o == SubSeq(raw, 1, 4)
  <2>1. Len(o) = 4 /\ o[1] = raw[1] /\ o[2] = raw[2] /\ o[3] = raw[3] /\ o[4] = raw[4]
    BY <1>1, <1>5
  <2> HIDE DEF o
  <2>2. Utf8Value(o) =
          (((raw[1] % 8) * 64 + (raw[2] % 64)) * 64 + (raw[3] % 64)) * 64 + (raw[4] % 64)
    BY SMTT(30), <2>1 DEF Utf8Value
  <2> QED BY <2>2 DEF o, Looked
<1> QED
  BY <1>2, <1>3, <1>4, <1>5

\* The one way in which DecodeUtf8 succeeds.
LEMMA Utf8Right ==
    ASSUME NEW raw, NEW n, NEW v, Width(raw[1]) = n, Looked(raw, n) = v,
           n # 0, ~ (n > Len(raw)), ~ (\E k \in 2 .. n : ~ IsTrailing(raw[k])),
           ~ (v < Shortest(n)), ~ IsInvalid(v)
    PROVE  DecodeUtf8(raw) = Decoded(v, n)
BY Zenon DEF DecodeUtf8, Looked

\* A character whose octets are all there is decoded.
LEMMA Utf8Whole ==
    ASSUME NEW c, InRange(c), NEW raw \in Seq(Octet), Starts(raw, Utf8Form(c))
    PROVE  DecodeUtf8(raw) = Decoded(c, Len(Utf8Form(c)))
<1> DEFINE w == Utf8Form(c)
<1>0. Len(raw) \in Nat /\ c \in Nat
  BY DEF InRange
<1>1. CASE c < \h80
  <2>1. w = <<c>>
    BY SMTT(30), <1>1 DEF Utf8Form
  <2>2. Len(w) = 1 /\ 1 <= Len(raw) /\ raw[1] = c
    BY <2>1 DEF Starts
  <2>3. Width(raw[1]) = 1
    BY SMTT(30), <1>1, <2>2 DEF Width
  <2>4. Looked(raw, 1) = c
    BY <2>2, LookedIs
  <2>5. ~ (\E k \in 2 .. 1 : ~ IsTrailing(raw[k])) /\ ~ (1 > Len(raw))
    BY <1>0, <2>2
  <2>6. ~ (c < Shortest(1)) /\ ~ IsInvalid(c)
    BY SMTT(30), <1>0, <1>1 DEF Shortest, IsInvalid
  <2> QED BY <2>2, <2>3, <2>4, <2>5, <2>6, Utf8Right
<1>2. CASE c >= \h80 /\ c < \h800
  <2>1. w = <<\hC0 + (c \div \h40), \h80 + (c % \h40)>>
    BY SMTT(30), <1>0, <1>2 DEF Utf8Form
  <2>2. Len(w) = 2 /\ 2 <= Len(raw) /\ raw[1] = \hC0 + (c \div \h40) /\ raw[2] = \h80 + (c % \h40)
    BY SMTT(30), <2>1 DEF Starts
  <2>3. Width(raw[1]) = 2
    BY SMTT(30), <1>0, <1>2, <2>2 DEF Width
  <2>4. Looked(raw, 2) = c
    <3>1. Looked(raw, 2) = (raw[1] % 32) * 64 + (raw[2] % 64)
      BY <2>2, LookedIs
    <3> QED BY SMTT(30), <1>0, <1>2, <2>2, <3>1
  <2>5. ~ (\E k \in 2 .. 2 : ~ IsTrailing(raw[k])) /\ ~ (2 > Len(raw))
    BY SMTT(30), <1>0, <2>2 DEF IsTrailing
  <2>6. ~ (c < Shortest(2)) /\ ~ IsInvalid(c)
    BY SMTT(30), <1>0, <1>2 DEF Shortest, IsInvalid
  <2> QED BY <2>2, <2>3, <2>4, <2>5, <2>6, Utf8Right
<1>3. CASE c >= \h800 /\ c < \h10000
  <2>1. w = <<\hE0 + (c \div \h1000), \h80 + ((c \div \h40) % \h40), \h80 + (c % \h40)>>
    BY SMTT(30), <1>0, <1>3 DEF Utf8Form
  <2>2. /\ Len(w) = 3 /\ 3 <= Len(raw) /\ raw[1] = \hE0 + (c \div \h1000)
        /\ raw[2] = \h80 + ((c \div \h40) % \h40) /\ raw[3] = \h80 + (c % \h40)
    BY SMTT(30), <2>1 DEF Starts
  <2>3. Width(raw[1]) = 3
    BY SMTT(30), <1>0, <1>3, <2>2 DEF Width
  <2>4. Looked(raw, 3) = c
    <3>1. Looked(raw, 3) = ((raw[1] % 16) * 64 + (raw[2] % 64)) * 64 + (raw[3] % 64)
      BY <2>2, LookedIs
    <3> QED BY SMTT(30), <1>0, <1>3, <2>2, <3>1
  <2>5. ~ (\E k \in 2 .. 3 : ~ IsTrailing(raw[k])) /\ ~ (3 > Len(raw))
    BY SMTT(30), <1>0, <2>2 DEF IsTrailing
  <2>6. ~ (c < Shortest(3)) /\ ~ IsInvalid(c)
    BY SMTT(60), <1>0, <1>3 DEF Shortest, IsInvalid, InRange
  <2> QED BY <2>2, <2>3, <2>4, <2>5, <2>6, Utf8Right
<1>4. CASE c >= \h10000
  <2>1. w = <<\hF0 + (c \div \h40000), \h80 + ((c \div \h1000) % \h40),
              \h80 + ((c \div \h40) % \h40), \h80 + (c % \h40)>>
    BY SMTT(30), <1>0, <1>4 DEF Utf8Form
  <2>2. /\ Len(w) = 4 /\ 4 <= Len(raw) /\ raw[1] = \hF0 + (c \div \h40000)
        /\ raw[2] = \h80 + ((c \div \h1000) % \h40)
        /\ raw[3] = \h80 + ((c \div \h40) % \h40) /\ raw[4] = \h80 + (c % \h40)
    BY SMTT(30), <2>1 DEF Starts
  <2>3. Width(raw[1]) = 4
    BY SMTT(30), <1>0, <1>4, <2>2 DEF Width, InRange
  <2>4. Looked(raw, 4) = c
    <3>1. Looked(raw, 4) =
            (((raw[1] % 8) * 64 + (raw[2] % 64)) * 64 + (raw[3] % 64)) * 64 + (raw[4] % 64)
      BY <2>2, LookedIs
    <3>2. /\ raw[1] % 8 = c \div 262144 /\ raw[2] % 64 = (c \div 4096) % 64
          /\ raw[3] % 64 = (c \div 64) % 64 /\ raw[4] % 64 = c % 64
      BY SMTT(30), <1>0, <2>2 DEF InRange
    <3>3. c = (((c \div 262144) * 64 + ((c \div 4096) % 64)) * 64 + ((c \div 64) % 64)) * 64 + (c % 64)
      BY SMTT(30), <1>0
    <3> QED BY SMTT(30), <3>1, <3>2, <3>3
  <2>5. ~ (\E k \in 2 .. 4 : ~ IsTrailing(raw[k])) /\ ~ (4 > Len(raw))
    BY SMTT(30), <1>0, <2>2 DEF IsTrailing
  <2>6. ~ (c < Shortest(4)) /\ ~ IsInvalid(c)
    BY SMTT(30), <1>0, <1>4 DEF Shortest, IsInvalid, InRange
  <2> QED BY <2>2, <2>3, <2>4, <2>5, <2>6, Utf8Right
<1> QED
  BY SMTT(30), <1>0, <1>1, <1>2, <1>3, <1>4

\* What the octets of a character in UTF-8 look like.
LEMMA Utf8Lead ==
    ASSUME NEW c, InRange(c)
    PROVE  LET w == Utf8Form(c) IN
           /\ w \in Seq(Octet) /\ Len(w) \in 1 .. 4
           /\ Width(w[1]) = Len(w) /\ ~ IsTrailing(w[1])
           /\ \A k \in 2 .. Len(w) : IsTrailing(w[k])
           /\ w[1] = 0 => c = 0
<1> DEFINE w == Utf8Form(c)
<1>0. c \in Nat
  BY DEF InRange
<1>1. CASE c < \h80
  <2>1. w = <<c>>
    BY SMTT(30), <1>1 DEF Utf8Form
  <2>2. w \in Seq(Octet) /\ Len(w) = 1 /\ w[1] = c
    BY SMTT(30), <1>0, <1>1, <2>1 DEF Octet
  <2> QED BY SMTT(30), <1>0, <1>1, <2>2 DEF Width, IsTrailing
<1>2. CASE c >= \h80 /\ c < \h800
  <2>1. w = <<\hC0 + (c \div \h40), \h80 + (c % \h40)>>
    BY SMTT(30), <1>0, <1>2 DEF Utf8Form
  <2>2. Len(w) = 2 /\ w[1] = \hC0 + (c \div \h40) /\ w[2] = \h80 + (c % \h40)
    BY SMTT(30), <2>1
  <2>3. w[1] \in \hC0 .. \hDF /\ w[2] \in \h80 .. \hBF
    BY SMTT(30), <1>0, <1>2, <2>2
  <2>4. w \in Seq(Octet)
    BY SMTT(30), <2>1, <2>2, <2>3 DEF Octet
  <2> HIDE DEF w
  <2>5. Width(w[1]) = 2 /\ ~ IsTrailing(w[1]) /\ IsTrailing(w[2]) /\ w[1] # 0
    BY SMTT(30), <2>3 DEF Width, IsTrailing
  <2>6. \A k \in 2 .. 2 : k = 2
    OBVIOUS
  <2> QED BY SMTT(30), <2>2, <2>4, <2>5, <2>6 DEF w
<1>3. CASE c >= \h800 /\ c < \h10000
  <2>1. w = <<\hE0 + (c \div \h1000), \h80 + ((c \div \h40) % \h40), \h80 + (c % \h40)>>
    BY SMTT(30), <1>0, <1>3 DEF Utf8Form
  <2>2. /\ Len(w) = 3 /\ w[1] = \hE0 + (c \div \h1000)
        /\ w[2] = \h80 + ((c \div \h40) % \h40) /\ w[3] = \h80 + (c % \h40)
    BY SMTT(30), <2>1
  <2>3. w[1] \in \hE0 .. \hEF /\ w[2] \in \h80 .. \hBF /\ w[3] \in \h80 .. \hBF
    BY SMTT(30), <1>0, <1>3, <2>2
  <2>4. w \in Seq(Octet)
    BY SMTT(30), <2>1, <2>2, <2>3 DEF Octet
  <2> HIDE DEF w
  <2>5. Width(w[1]) = 3 /\ ~ IsTrailing(w[1]) /\ IsTrailing(w[2]) /\ IsTrailing(w[3]) /\ w[1] # 0
    BY SMTT(30), <2>3 DEF Width, IsTrailing
  <2>6. \A k \in 2 .. 3 : k = 2 \/ k = 3
    OBVIOUS
  <2> QED BY SMTT(30), <2>2, <2>4, <2>5, <2>6 DEF w
<1>4. CASE c >= \h10000
  <2>1. w = <<\hF0 + (c \div \h40000), \h80 + ((c \div \h1000) % \h40),
              \h80 + ((c \div \h40) % \h40), \h80 + (c % \h40)>>
    BY SMTT(30), <1>0, <1>4 DEF Utf8Form
  <2>2. /\ Len(w) = 4 /\ w[1] = \hF0 + (c \div \h40000)
        /\ w[2] = \h80 + ((c \div \h1000) % \h40)
        /\ w[3] = \h80 + ((c \div \h40) % \h40) /\ w[4] = \h80 + (c % \h40)
    BY SMTT(30), <2>1
  <2>3. /\ w[1] \in \hF0 .. \hF7 /\ w[2] \in \h80 .. \hBF
        /\ w[3] \in \h80 .. \hBF /\ w[4] \in \h80 .. \hBF
    BY SMTT(30), <1>0, <1>4, <2>2 DEF InRange
  <2>4. w \in Seq(Octet)
    BY SMTT(30), <2>1, <2>2, <2>3 DEF Octet
  <2> HIDE DEF w
  <2>5. /\ Width(w[1]) = 4 /\ ~ IsTrailing(w[1]) /\ IsTrailing(w[2])
        /\ IsTrailing(w[3]) /\ IsTrailing(w[4]) /\ w[1] # 0
    BY SMTT(30), <2>3 DEF Width, IsTrailing
  <2>6. \A k \in 2 .. 4 : k = 2 \/ k = 3 \/ k = 4
    OBVIOUS
  <2> QED BY SMTT(30), <2>2, <2>4, <2>5, <2>6 DEF w
<1> QED
  BY SMTT(30), <1>0, <1>1, <1>2, <1>3, <1>4

\* A character that is not all there is waited for.
LEMMA Utf8Part ==
    ASSUME NEW c, InRange(c), NEW raw \in Seq(Octet), raw # <<>>,
           raw[1] = Utf8Form(c)[1], Len(raw) < Len(Utf8Form(c))
    PROVE  DecodeUtf8(raw) = Incomplete("incomplete UTF-8 octet sequence")
<1>1. Len(Utf8Form(c)) \in 1 .. 4 /\ Width(raw[1]) = Len(Utf8Form(c))
  BY Utf8Lead
<1>2. Len(raw) \in Nat
  OBVIOUS
<1>3. Width(raw[1]) # 0 /\ Width(raw[1]) > Len(raw)
  BY <1>1, <1>2
<1> QED
  BY Zenon, <1>3 DEF DecodeUtf8

\* What DecodeUtf8 has checked when it succeeds.
LEMMA Utf8Checks ==
    ASSUME NEW raw, DecodeUtf8(raw).problem = "NONE"
    PROVE  LET n == Width(raw[1]) IN
           /\ n # 0 /\ ~ (n > Len(raw)) /\ \A k \in 2 .. n : IsTrailing(raw[k])
           /\ ~ (Looked(raw, n) < Shortest(n)) /\ ~ IsInvalid(Looked(raw, n))
<1>1. /\ Bad("invalid leading UTF-8 octet").problem # "NONE"
      /\ Incomplete("incomplete UTF-8 octet sequence").problem # "NONE"
      /\ Bad("invalid trailing UTF-8 octet").problem # "NONE"
      /\ Bad("invalid length of a UTF-8 sequence").problem # "NONE"
      /\ Bad("invalid Unicode character").problem # "NONE"
  BY DEF Bad, Incomplete
<1> QED
  BY Zenon, <1>1 DEF DecodeUtf8, Looked

\* What the value of a sequence says of its first two octets.
Says2(a, b) ==
    a \in \hC0 .. \hDF /\ b \in \h80 .. \hBF /\ ~ ((a % 32) * 64 + (b % 64) < \h80)
    => a \in \hC2 .. \hDF
Says3(a, b, c) ==
    LET v == ((a % 16) * 64 + (b % 64)) * 64 + (c % 64) IN
    /\ a \in \hE0 .. \hEF /\ b \in \h80 .. \hBF /\ c \in \h80 .. \hBF
    /\ ~ (v < \h800) /\ ~ IsInvalid(v)
    => (a = \hE0 => b >= \hA0) /\ (a = \hED => b <= \h9F)
Says4(a, b, c, d) ==
    LET v == (((a % 8) * 64 + (b % 64)) * 64 + (c % 64)) * 64 + (d % 64) IN
    /\ a \in \hF0 .. \hF7 /\ b \in \h80 .. \hBF /\ c \in \h80 .. \hBF /\ d \in \h80 .. \hBF
    /\ ~ (v < \h10000) /\ ~ IsInvalid(v)
    => a \in \hF0 .. \hF4 /\ (a = \hF0 => b >= \h90) /\ (a = \hF4 => b <= \h8F)

\* They say it.
LEMMA SaysAll ==
    ASSUME NEW a, NEW b, NEW c, NEW d
    PROVE  Says2(a, b) /\ Says3(a, b, c) /\ Says4(a, b, c, d)
<1>1. /\ a \in \hC0 .. \hDF => a % 32 = a - 192
      /\ a \in \hE0 .. \hEF => a % 16 = a - 224
      /\ a \in \hF0 .. \hF7 => a % 8 = a - 240
      /\ b \in \h80 .. \hBF => b % 64 = b - 128
      /\ c \in \h80 .. \hBF => c % 64 = c - 128
      /\ d \in \h80 .. \hBF => d % 64 = d - 128
  BY SMT
<1>2. Says2(a, b)
  BY SMTT(30), <1>1 DEF Says2
<1>3. Says3(a, b, c)
  BY SMTT(30), <1>1 DEF Says3, IsInvalid
<1>4. Says4(a, b, c, d)
  BY SMTT(30), <1>1 DEF Says4, IsInvalid
<1> QED
  BY <1>2, <1>3, <1>4

\* Octets that trail.
LEMMA TrailingIs ==
    ASSUME NEW a \in Octet, IsTrailing(a)
    PROVE  a \in \h80 .. \hBF
BY SMTT(30) DEF Octet, IsTrailing

\* What DecodeUtf8 takes for a character is one.
LEMMA Utf8Sound ==
    ASSUME NEW raw \in Seq(Octet), raw # <<>>, DecodeUtf8(raw).problem = "NONE"
    PROVE  \E n \in 1 .. Len(raw) : IsUtf8(SubSeq(raw, 1, n))
<1> DEFINE n == Width(raw[1])
           o == SubSeq(raw, 1, n)
<1>1. /\ n # 0 /\ ~ (n > Len(raw)) /\ \A k \in 2 .. n : IsTrailing(raw[k])
      /\ ~ (Looked(raw, n) < Shortest(n)) /\ ~ IsInvalid(Looked(raw, n))
  BY Utf8Checks
<1>2. n \in 0 .. 4 /\ Len(raw) \in Nat
  BY DEF Width
<1>3. n \in 1 .. 4 /\ n \in 1 .. Len(raw)
  BY <1>1, <1>2
<1>4. Len(o) = n /\ \A k \in 1 .. n : o[k] = raw[k] /\ o[k] \in Octet
  BY <1>2, <1>3
<1>5. \A k \in 2 .. n : o[k] \in \h80 .. \hBF
  <2> TAKE k \in 2 .. n
  <2>1. k \in 1 .. n
    BY <1>2
  <2>2. o[k] \in Octet /\ IsTrailing(o[k])
    BY <1>1, <1>4, <2>1
  <2> HIDE DEF o
  <2> QED BY <2>2, TrailingIs
<1>6. CASE n = 1
  <2>1. o[1] \in 0 .. 255 /\ o[1] = raw[1]
    BY <1>4, <1>6 DEF Octet
  <2>2. raw[1] < \h80
    BY SMTT(30), <1>6, <2>1 DEF Width
  <2> HIDE DEF o, n
  <2>3. IsUtf8(o)
    BY <1>4, <1>5, <1>6, <2>1, <2>2 DEF IsUtf8
  <2> QED BY <1>3, <2>3 DEF o
<1>7. CASE n = 2
  <2>1. /\ o[1] \in 0 .. 255 /\ o[2] \in \h80 .. \hBF /\ o[1] = raw[1] /\ o[2] = raw[2]
        /\ 2 <= Len(raw)
    BY <1>3, <1>4, <1>5, <1>7 DEF Octet
  <2>2. raw[1] \in \hC0 .. \hDF
    BY SMTT(30), <1>7, <2>1 DEF Width
  <2>3. ~ ((raw[1] % 32) * 64 + (raw[2] % 64) < \h80)
    <3>1. Looked(raw, 2) = (raw[1] % 32) * 64 + (raw[2] % 64)
      BY <2>1, LookedIs
    <3> HIDE DEF n
    <3> QED BY <1>1, <1>7, <3>1 DEF Shortest
  <2> HIDE DEF o, n
  <2>4. Says2(raw[1], raw[2])
    BY SaysAll
  <2>5. o[1] \in \hC2 .. \hDF
    BY SMTT(30), <2>1, <2>2, <2>3, <2>4 DEF Says2
  <2>6. IsUtf8(o)
    BY <1>4, <1>5, <1>7, <2>5 DEF IsUtf8
  <2> QED BY <1>3, <2>6 DEF o
<1>8. CASE n = 3
  <2>1. /\ o[1] \in 0 .. 255 /\ o[2] \in \h80 .. \hBF /\ o[3] \in \h80 .. \hBF
        /\ o[1] = raw[1] /\ o[2] = raw[2] /\ o[3] = raw[3] /\ 3 <= Len(raw)
    BY <1>3, <1>4, <1>5, <1>8 DEF Octet
  <2>2. raw[1] \in \hE0 .. \hEF
    BY SMTT(30), <1>8, <2>1 DEF Width
  <2> DEFINE v == ((raw[1] % 16) * 64 + (raw[2] % 64)) * 64 + (raw[3] % 64)
  <2>3. ~ (v < \h800) /\ ~ IsInvalid(v)
    <3>1. Looked(raw, 3) = v
      BY <2>1, LookedIs
    <3> HIDE DEF n, v
    <3> QED BY <1>1, <1>8, <3>1 DEF Shortest
  <2> HIDE DEF o, n
  <2>4. Says3(raw[1], raw[2], raw[3])
    BY SaysAll
  <2>5. raw[1] = \hE0 => raw[2] >= \hA0
    BY SMTT(30), <2>1, <2>2, <2>3, <2>4 DEF Says3
  <2>6. raw[1] = \hED => raw[2] <= \h9F
    BY SMTT(30), <2>1, <2>2, <2>3, <2>4 DEF Says3
  <2>7. IsUtf8(o)
    BY <1>4, <1>5, <1>8, <2>1, <2>2, <2>5, <2>6 DEF IsUtf8
  <2> QED BY <1>3, <2>7 DEF o
<1>9. CASE n = 4
  <2>1. /\ o[1] \in 0 .. 255 /\ o[2] \in \h80 .. \hBF /\ o[3] \in \h80 .. \hBF
        /\ o[4] \in \h80 .. \hBF /\ o[1] = raw[1] /\ o[2] = raw[2] /\ o[3] = raw[3]
        /\ o[4] = raw[4] /\ 4 <= Len(raw)
    BY <1>3, <1>4, <1>5, <1>9 DEF Octet
  <2>2. raw[1] \in \hF0 .. \hF7
    BY SMTT(30), <1>9, <2>1 DEF Width
  <2> DEFINE v == (((raw[1] % 8) * 64 + (raw[2] % 64)) * 64 + (raw[3] % 64)) * 64 + (raw[4] % 64)
  <2>3. ~ (v < \h10000) /\ ~ IsInvalid(v)
    <3>1. Looked(raw, 4) = v
      BY <2>1, LookedIs
    <3> HIDE DEF n, v
    <3> QED BY <1>1, <1>9, <3>1 DEF Shortest
  <2> HIDE DEF o, n
  <2>4. Says4(raw[1], raw[2], raw[3], raw[4])
    BY SaysAll
  <2>5. raw[1] = \hF0 => raw[2] >= \h90
    BY SMTT(30), <2>1, <2>2, <2>3, <2>4 DEF Says4
  <2>6. raw[1] \in \hF0 .. \hF4 /\ (raw[1] = \hF4 => raw[2] <= \h8F)
    BY SMTT(30), <2>1, <2>2, <2>3, <2>4 DEF Says4
  <2>7. IsUtf8(o)
    BY <1>4, <1>5, <1>9, <2>1, <2>5, <2>6 DEF IsUtf8
  <2> QED BY <1>3, <2>7 DEF o
<1> QED
  BY <1>3, <1>6, <1>7, <1>8, <1>9

\* A unit of UTF-16, and the two octets of one.
IsUnit(u) == u \in Nat /\ u < \h10000
HalvesOf(h, u, order) ==
    /\ h \in Seq(Octet) /\ Len(h) = 2
    /\ h[1] \in Octet /\ h[2] \in Octet
    /\ order = UTF16LE => h[1] + 256 * h[2] = u
    /\ order # UTF16LE => h[2] + 256 * h[1] = u

\* Two octets make a unit, and the unit gives them back.
LEMMA HalvesAre ==
    ASSUME NEW u, IsUnit(u), NEW order
    PROVE  HalvesOf(Halves(u, order), u, order)
<1> DEFINE x == u % 256  y == u \div 256
<1>2. x \in 0 .. 255 /\ y \in 0 .. 255 /\ x + 256 * y = u
  BY SMTT(30) DEF IsUnit
<1>3. Halves(u, order) = IF order = UTF16LE THEN <<x, y>> ELSE <<y, x>>
  BY DEF Halves
<1> HIDE DEF x, y
<1>4. CASE order = UTF16LE
  <2>1. Halves(u, order) = <<x, y>>
    BY <1>3, <1>4
  <2> QED BY <1>2, <1>4, <2>1 DEF Octet, HalvesOf
<1>5. CASE order # UTF16LE
  <2>1. Halves(u, order) = <<y, x>>
    BY <1>3, <1>5
  <2> QED BY <1>2, <1>5, <2>1 DEF Octet, HalvesOf
<1> QED
  BY <1>4, <1>5

\* Characters of one unit, and what the units of the others are.
Single(c) == c < \h10000
OneUnit(c) == IsUnit(c) /\ ~ IsHighSurrogate(c) /\ ~ IsLowSurrogate(c)
TwoUnits(c) ==
    /\ IsUnit(High(c)) /\ IsHighSurrogate(High(c)) /\ ~ IsLowSurrogate(High(c))
    /\ IsUnit(Low(c)) /\ IsLowSurrogate(Low(c))
    /\ PairValue(High(c), Low(c)) = c

\* Surrogates are paired, and no other unit is a surrogate.
LEMMA PairIs ==
    ASSUME NEW c, InRange(c)
    PROVE  (Single(c) => OneUnit(c)) /\ (~ Single(c) => TwoUnits(c))
<1>1. ASSUME Single(c) PROVE OneUnit(c)
  <2>1. c \in Nat /\ c < \h10000 /\ ~ (c >= \hD800 /\ c <= \hDFFF)
    BY <1>1 DEF Single, InRange
  <2>2. c \div \h400 # \h36 /\ c \div \h400 # \h37
    BY SMTT(30), <2>1
  <2>3. c \in Nat /\ c < \h10000
    BY SMTT(30), <2>1
  <2> QED BY <2>2, <2>3 DEF OneUnit, IsUnit, IsHighSurrogate, IsLowSurrogate
<1>2. ASSUME ~ Single(c) PROVE TwoUnits(c)
  <2> DEFINE r == c - \h10000  q == r \div \h400  m == r % \h400
  <2>1. q \in Nat /\ q < 1024 /\ m \in Nat /\ m < 1024 /\ r = q * \h400 + m /\ c = r + \h10000
    BY SMTT(30), <1>2 DEF InRange, Single
  <2>2. High(c) = \hD800 + q /\ Low(c) = \hDC00 + m
    BY DEF High, Low
  <2> HIDE DEF q, m, r
  <2> DEFINE x == High(c)  y == Low(c)
  <2>3. x = \hD800 + q /\ y = \hDC00 + m
    BY <2>2
  <2> HIDE DEF x, y
  <2>4. x \in Nat /\ x < \h10000 /\ x \div \h400 = \h36 /\ x % \h400 = q
    BY SMTT(30), <2>1, <2>3
  <2>5. y \in Nat /\ y < \h10000 /\ y \div \h400 = \h37 /\ y % \h400 = m
    BY SMTT(30), <2>1, <2>3
  <2>6. IsHighSurrogate(x) /\ ~ IsLowSurrogate(x) /\ IsLowSurrogate(y)
    BY SMTT(30), <2>4, <2>5 DEF IsHighSurrogate, IsLowSurrogate
  <2>7. PairValue(x, y) = c
    BY SMTT(30), <2>1, <2>4, <2>5 DEF PairValue
  <2>8. IsUnit(x) /\ IsUnit(y)
    BY SMTT(30), <2>4, <2>5 DEF IsUnit
  <2> QED BY SMTT(30), <2>6, <2>7, <2>8 DEF x, y, TwoUnits
<1> QED
  BY <1>1, <1>2

\* The four octets of a pair.
LEMMA FourOctets ==
    ASSUME NEW x \in Seq(Octet), NEW y \in Seq(Octet), Len(x) = 2, Len(y) = 2
    PROVE  /\ x \o y \in Seq(Octet) /\ Len(x \o y) = 4
           /\ (x \o y)[1] = x[1] /\ (x \o y)[2] = x[2] /\ (x \o y)[3] = y[1] /\ (x \o y)[4] = y[2]
<1>1. /\ x \o y \in Seq(Octet) /\ Len(x \o y) = Len(x) + Len(y)
      /\ \A i \in 1 .. Len(x) + Len(y) : (x \o y)[i] = IF i <= Len(x) THEN x[i] ELSE y[i - Len(x)]
  BY ConcatProperties
<1> QED
  BY SMTT(30), <1>1

\* The octets of a character in UTF-16.
LEMMA Utf16Lead ==
    ASSUME NEW c, InRange(c), NEW order
    PROVE  LET w == Utf16Form(c, order) IN
           /\ w \in Seq(Octet)
           /\ Single(c) => w = Halves(c, order) /\ Len(w) = 2
           /\ ~ Single(c) =>
                /\ Len(w) = 4
                /\ w[1] = Halves(High(c), order)[1] /\ w[2] = Halves(High(c), order)[2]
                /\ w[3] = Halves(Low(c), order)[1] /\ w[4] = Halves(Low(c), order)[2]
<1> DEFINE w == Utf16Form(c, order)
<1>1. CASE Single(c)
  <2>1. w = Halves(c, order)
    BY SMTT(30), <1>1 DEF Utf16Form, Single
  <2>2. HalvesOf(Halves(c, order), c, order)
    BY <1>1, PairIs, HalvesAre DEF OneUnit
  <2>3. Halves(c, order) \in Seq(Octet) /\ Len(Halves(c, order)) = 2
    BY <2>2 DEF HalvesOf
  <2> QED BY <1>1, <2>1, <2>3
<1>2. CASE ~ Single(c)
  <2> DEFINE x == Halves(High(c), order)  y == Halves(Low(c), order)
  <2>1. w = x \o y
    BY SMTT(30), <1>2 DEF Utf16Form, Single
  <2>2. IsUnit(High(c)) /\ IsUnit(Low(c))
    <3>1. TwoUnits(c)
      BY <1>2, PairIs
    <3> QED BY <3>1 DEF TwoUnits
  <2>3. HalvesOf(x, High(c), order) /\ HalvesOf(y, Low(c), order)
    BY <2>2, HalvesAre
  <2>4. x \in Seq(Octet) /\ Len(x) = 2 /\ y \in Seq(Octet) /\ Len(y) = 2
    BY <2>3 DEF HalvesOf
  <2> HIDE DEF x, y, w
  <2>5. w \in Seq(Octet) /\ Len(w) = 4 /\ w[1] = x[1] /\ w[2] = x[2] /\ w[3] = y[1] /\ w[4] = y[2]
    BY <2>1, <2>4, FourOctets
  <2> QED BY <1>2, <2>5 DEF x, y, w
<1> QED
  BY <1>1, <1>2
\* The units that lie at the front of the raw buffer.
LEMMA UnitsAt ==
    ASSUME NEW raw, raw[1] \in Octet, raw[2] \in Octet
    PROVE  /\ Unit(raw, 1) = UnitOf(raw[1], raw[2], encoding) /\ Unit(raw, 1) \in Nat
           /\ raw[3] \in Octet /\ raw[4] \in Octet =>
                Unit(raw, 2) = UnitOf(raw[3], raw[4], encoding) /\ Unit(raw, 2) \in Nat
<1>1. 2 * 1 - 1 = 1 /\ 2 * 1 = 2 /\ 2 * 2 - 1 = 3 /\ 2 * 2 = 4
  OBVIOUS
<1>2. Unit(raw, 1) = IF encoding = UTF16LE THEN raw[1] + 256 * raw[2] ELSE raw[2] + 256 * raw[1]
  BY <1>1 DEF Unit
<1>3. Unit(raw, 2) = IF encoding = UTF16LE THEN raw[3] + 256 * raw[4] ELSE raw[4] + 256 * raw[3]
  BY <1>1 DEF Unit
<1>4. \A a, b \in Octet : /\ a + 256 * b \in Nat /\ b + 256 * a \in Nat
                          /\ b + 256 * a = 256 * a + b
  BY DEF Octet
<1> QED
  BY <1>2, <1>3, <1>4 DEF UnitOf

\* The unit that two halves make.
LEMMA UnitIs ==
    ASSUME NEW h, NEW u, HalvesOf(h, u, encoding)
    PROVE  UnitOf(h[1], h[2], encoding) = u
<1>0. h[1] \in Octet /\ h[2] \in Octet
  BY DEF HalvesOf
<1>1. h[1] \in Nat /\ h[2] \in Nat
  BY <1>0 DEF Octet
<1>2. 256 * h[1] + h[2] = h[2] + 256 * h[1]
  BY <1>1
<1> QED
  BY <1>2 DEF HalvesOf, UnitOf

\* A character of UTF-16 whose octets are all there is decoded.
LEMMA Utf16Whole ==
    ASSUME NEW c, InRange(c), NEW raw \in Seq(Octet), Starts(raw, Utf16Form(c, encoding))
    PROVE  DecodeUtf16(raw) = Decoded(c, Len(Utf16Form(c, encoding)))
<1> DEFINE w == Utf16Form(c, encoding)
<1>0. Len(raw) \in Nat /\ Len(w) <= Len(raw) /\ \A k \in 1 .. Len(w) : raw[k] = w[k]
  BY DEF Starts
<1>1. CASE Single(c)
  <2> DEFINE h == Halves(c, encoding)
  <2>1. w = h /\ Len(w) = 2
    BY <1>1, Utf16Lead
  <2>2. OneUnit(c) /\ HalvesOf(h, c, encoding)
    BY <1>1, PairIs, HalvesAre DEF OneUnit
  <2> HIDE DEF h, w
  <2>3. raw[1] = h[1] /\ raw[2] = h[2] /\ ~ (Len(raw) < 2)
    BY <1>0, <2>1
  <2>4. Unit(raw, 1) = c
    <3>1. h[1] \in Octet /\ h[2] \in Octet
      BY <2>2 DEF HalvesOf
    <3> QED BY <2>2, <2>3, <3>1, UnitIs, UnitsAt
  <2>5. DecodeUtf16(raw) = Decoded(c, 2)
    BY Zenon, <2>2, <2>3, <2>4 DEF DecodeUtf16, OneUnit
  <2> QED BY <2>1, <2>5 DEF w
<1>2. CASE ~ Single(c)
  <2> DEFINE x == Halves(High(c), encoding)  y == Halves(Low(c), encoding)
  <2>1. Len(w) = 4 /\ w[1] = x[1] /\ w[2] = x[2] /\ w[3] = y[1] /\ w[4] = y[2]
    BY <1>2, Utf16Lead
  <2>2. TwoUnits(c)
    BY <1>2, PairIs
  <2>3. /\ IsUnit(High(c)) /\ IsHighSurrogate(High(c)) /\ ~ IsLowSurrogate(High(c))
        /\ IsUnit(Low(c)) /\ IsLowSurrogate(Low(c))
    BY <2>2 DEF TwoUnits
  <2>4. HalvesOf(x, High(c), encoding) /\ HalvesOf(y, Low(c), encoding)
    BY <2>3, HalvesAre
  <2> HIDE DEF x, y, w
  <2>5. /\ raw[1] = x[1] /\ raw[2] = x[2] /\ raw[3] = y[1] /\ raw[4] = y[2]
        /\ ~ (Len(raw) < 2) /\ ~ (Len(raw) < 4)
    BY <1>0, <2>1
  <2>6. Unit(raw, 1) = High(c) /\ Unit(raw, 2) = Low(c)
    <3>1. x[1] \in Octet /\ x[2] \in Octet /\ y[1] \in Octet /\ y[2] \in Octet
      BY <2>4 DEF HalvesOf
    <3> QED BY <2>4, <2>5, <3>1, UnitIs, UnitsAt
  <2>7. DecodeUtf16(raw) = Decoded(PairValue(High(c), Low(c)), 4)
    BY Zenon, <2>3, <2>5, <2>6 DEF DecodeUtf16
  <2>8. PairValue(High(c), Low(c)) = c
    BY <2>2 DEF TwoUnits
  <2>9. DecodeUtf16(raw) = Decoded(c, 4)
    BY <2>7, <2>8
  <2> QED BY <2>1, <2>9 DEF w
<1> QED
  BY <1>1, <1>2

\* One that is not all there is waited for.
LEMMA Utf16Part ==
    ASSUME NEW c, InRange(c), NEW raw \in Seq(Octet), raw # <<>>,
           Len(raw) < Len(Utf16Form(c, encoding)),
           \A k \in 1 .. Len(raw) : raw[k] = Utf16Form(c, encoding)[k]
    PROVE  \/ DecodeUtf16(raw) = Incomplete("incomplete UTF-16 character")
           \/ DecodeUtf16(raw) = Incomplete("incomplete UTF-16 surrogate pair")
<1> DEFINE w == Utf16Form(c, encoding)
<1>0. Len(raw) \in Nat /\ Len(raw) # 0 /\ Len(raw) < Len(w) /\ \A k \in 1 .. Len(raw) : raw[k] = w[k]
  BY EmptySeq
<1>1. CASE Len(raw) < 2
  BY <1>1 DEF DecodeUtf16
<1>2. CASE ~ (Len(raw) < 2)
  <2> DEFINE x == Halves(High(c), encoding)
  <2>1. ~ Single(c)
    <3>1. Single(c) => Len(w) = 2
      BY Utf16Lead
    <3> HIDE DEF w
    <3> QED BY <1>0, <1>2, <3>1
  <2>2. Len(w) = 4 /\ w[1] = x[1] /\ w[2] = x[2]
    BY <2>1, Utf16Lead
  <2>3. TwoUnits(c)
    BY <2>1, PairIs
  <2>4. IsUnit(High(c)) /\ IsHighSurrogate(High(c)) /\ ~ IsLowSurrogate(High(c))
    BY <2>3 DEF TwoUnits
  <2>5. HalvesOf(x, High(c), encoding)
    BY <2>4, HalvesAre
  <2> HIDE DEF x, w
  <2>6. raw[1] = x[1] /\ raw[2] = x[2] /\ Len(raw) < 4
    BY <1>0, <1>2, <2>2
  <2>7. Unit(raw, 1) = High(c)
    <3>1. x[1] \in Octet /\ x[2] \in Octet
      BY <2>5 DEF HalvesOf
    <3> QED BY <2>5, <2>6, <3>1, UnitIs, UnitsAt
  <2> QED BY Zenon, <1>2, <2>4, <2>6, <2>7 DEF DecodeUtf16
<1> QED
  BY <1>1, <1>2

\* What DecodeUtf16 has checked when it succeeds.
LEMMA Utf16Checks ==
    ASSUME NEW raw, DecodeUtf16(raw).problem = "NONE"
    PROVE  /\ ~ (Len(raw) < 2) /\ ~ IsLowSurrogate(Unit(raw, 1))
           /\ IsHighSurrogate(Unit(raw, 1)) => ~ (Len(raw) < 4) /\ IsLowSurrogate(Unit(raw, 2))
<1>1. /\ Incomplete("incomplete UTF-16 character").problem # "NONE"
      /\ Bad("unexpected low surrogate area").problem # "NONE"
      /\ Incomplete("incomplete UTF-16 surrogate pair").problem # "NONE"
      /\ Bad("expected low surrogate area").problem # "NONE"
  BY DEF Bad, Incomplete
<1> QED
  BY Zenon, <1>1 DEF DecodeUtf16

\* The tests of the code find the surrogate areas of RFC 2781.
LEMMA AreasAre ==
    ASSUME NEW u \in Nat
    PROVE  /\ HighArea(u) \/ LowArea(u) => IsHighSurrogate(u) \/ IsLowSurrogate(u)
           /\ IsHighSurrogate(u) => HighArea(u)
           /\ IsLowSurrogate(u) => LowArea(u)
<1>1. HighArea(u) <=> u >= \hD800 /\ u < \hDC00
  BY SMTT(30) DEF HighArea
<1>2. LowArea(u) <=> u >= \hDC00 /\ u < \hE000
  BY SMTT(30) DEF LowArea
<1>3. IsHighSurrogate(u) <=> u >= \hD800 /\ u < \hDC00
  BY SMTT(30) DEF IsHighSurrogate
<1>4. IsLowSurrogate(u) <=> u >= \hDC00 /\ u < \hE000
  BY SMTT(30) DEF IsLowSurrogate
<1> QED
  BY SMTT(30), <1>1, <1>2, <1>3, <1>4

\* What DecodeUtf16 takes for a character is one.
LEMMA Utf16Sound ==
    ASSUME NEW raw \in Seq(Octet), DecodeUtf16(raw).problem = "NONE"
    PROVE  \E n \in 1 .. Len(raw) : IsUtf16(SubSeq(raw, 1, n), encoding)
<1>1. /\ ~ (Len(raw) < 2) /\ ~ IsLowSurrogate(Unit(raw, 1))
      /\ IsHighSurrogate(Unit(raw, 1)) => ~ (Len(raw) < 4) /\ IsLowSurrogate(Unit(raw, 2))
  BY Utf16Checks
<1>2. Len(raw) \in Nat
  OBVIOUS
<1>3. \A n \in 1 .. Len(raw) : LET o == SubSeq(raw, 1, n) IN
         Len(o) = n /\ \A k \in 1 .. n : o[k] = raw[k] /\ o[k] \in Octet
  OBVIOUS
<1>4. CASE ~ IsHighSurrogate(Unit(raw, 1))
  <2> DEFINE o == SubSeq(raw, 1, 2)
             u == UnitOf(o[1], o[2], encoding)
  <2>1. 2 \in 1 .. Len(raw)
    BY <1>1, <1>2
  <2>2. Len(o) = 2 /\ o[1] = raw[1] /\ o[2] = raw[2] /\ o[1] \in Octet /\ o[2] \in Octet
    BY <1>3, <2>1
  <2> HIDE DEF o
  <2>3. u = Unit(raw, 1) /\ u \in Nat
    BY <2>2, UnitsAt
  <2> HIDE DEF u
  <2>4. ~ (HighArea(u) \/ LowArea(u))
    BY <1>1, <1>4, <2>3, AreasAre
  <2>5. IsUtf16(o, encoding)
    BY <2>2, <2>4 DEF IsUtf16, u
  <2> QED BY <2>1, <2>5 DEF o
<1>5. CASE IsHighSurrogate(Unit(raw, 1))
  <2> DEFINE o == SubSeq(raw, 1, 4)
             u == UnitOf(o[1], o[2], encoding)
             v == UnitOf(o[3], o[4], encoding)
  <2>1. 4 \in 1 .. Len(raw)
    BY <1>1, <1>2, <1>5
  <2>2. /\ Len(o) = 4 /\ o[1] = raw[1] /\ o[2] = raw[2] /\ o[3] = raw[3] /\ o[4] = raw[4]
        /\ o[1] \in Octet /\ o[2] \in Octet /\ o[3] \in Octet /\ o[4] \in Octet
    BY <1>3, <2>1
  <2> HIDE DEF o
  <2>3. u = Unit(raw, 1) /\ u \in Nat /\ v = Unit(raw, 2) /\ v \in Nat
    BY <2>2, UnitsAt
  <2> HIDE DEF u, v
  <2>4. HighArea(u) /\ LowArea(v)
    BY <1>1, <1>5, <2>3, AreasAre
  <2>5. IsUtf16(o, encoding)
    BY <2>2, <2>4 DEF IsUtf16, u, v
  <2> QED BY <2>1, <2>5 DEF o
<1> QED
  BY <1>4, <1>5
-----------------------------------------------------------------------------
(* Decode, in the encoding of the input.                                   *)

\* The octets of a character in any of the encodings.
Form(c, e) == IF e = UTF8 THEN Utf8Form(c) ELSE Utf16Form(c, e)

\* They are the ones the RFCs define, and few.
LEMMA FormIs ==
    ASSUME NEW c, InRange(c), NEW e \in Encodings3
    PROVE  /\ EncodedChar(c, e) = Form(c, e) /\ Form(c, e) \in Seq(Octet)
           /\ Len(Form(c, e)) \in 1 .. 4
<1>1. CASE e = UTF8
  BY <1>1, Utf8Octets, Utf8Lead DEF Form, EncodedChar
<1>2. CASE e # UTF8
  <2>1. EncodedChar(c, e) = Form(c, e) /\ Form(c, e) = Utf16Form(c, e)
    BY <1>2, Utf16Octets DEF Form, EncodedChar
  <2>2. Utf16Form(c, e) \in Seq(Octet) /\ (Len(Utf16Form(c, e)) = 2 \/ Len(Utf16Form(c, e)) = 4)
    BY Utf16Lead
  <2> QED BY <2>1, <2>2
<1> QED
  BY <1>1, <1>2

\* The start of w is there, but not all of it.
Cut(raw, w) == raw # <<>> /\ Len(raw) < Len(w) /\ \A k \in 1 .. Len(raw) : raw[k] = w[k]

\* The decoder before the test for control characters.
Decode0(raw) == IF encoding = UTF8 THEN DecodeUtf8(raw) ELSE DecodeUtf16(raw)

\* A character that is there is decoded, in every encoding.
LEMMA DecodeWhole ==
    ASSUME NEW c, InRange(c), NEW raw \in Seq(Octet), Starts(raw, Form(c, encoding))
    PROVE  /\ IsAllowed(c) => Decode(raw) = Decoded(c, Len(Form(c, encoding)))
           /\ ~ IsAllowed(c) => Decode(raw) = Bad("control characters are not allowed")
<1>1. Decode0(raw) = Decoded(c, Len(Form(c, encoding)))
  BY Utf8Whole, Utf16Whole DEF Form, Decode0
<1>2. Decode0(raw).problem = "NONE" /\ Decode0(raw).value = c
  BY <1>1 DEF Decoded
<1>3. Decode(raw) = IF Decode0(raw).problem = "NONE" /\ ~ IsAllowed(Decode0(raw).value)
                    THEN Bad("control characters are not allowed") ELSE Decode0(raw)
  BY DEF Decode, Decode0
<1> QED
  BY Zenon, <1>1, <1>2, <1>3

\* One that is not all there is waited for, as long as more can come.
LEMMA DecodeCut ==
    ASSUME NEW c, InRange(c), NEW raw \in Seq(Octet), Cut(raw, Form(c, encoding))
    PROVE  Decode(raw).problem # "NONE" /\ (~ eof => Decode(raw).problem = "incomplete")
<1>1. CASE encoding = UTF8
  <2>1. raw # <<>> /\ Len(raw) < Len(Utf8Form(c)) /\ raw[1] = Utf8Form(c)[1]
    <3>1. raw # <<>> /\ Len(raw) < Len(Utf8Form(c)) /\ \A k \in 1 .. Len(raw) : raw[k] = Utf8Form(c)[k]
      BY <1>1 DEF Cut, Form
    <3>2. 1 \in 1 .. Len(raw)
      BY <3>1
    <3> QED BY <3>1, <3>2
  <2>2. Decode0(raw) = Incomplete("incomplete UTF-8 octet sequence")
    BY <1>1, <2>1, Utf8Part DEF Decode0
  <2>3. /\ Incomplete("incomplete UTF-8 octet sequence").problem # "NONE"
        /\ ~ eof => Incomplete("incomplete UTF-8 octet sequence").problem = "incomplete"
    BY DEF Incomplete, Bad
  <2>4. Decode(raw) = Decode0(raw)
    <3>1. Decode0(raw).problem # "NONE"
      BY <2>2, <2>3
    <3> QED BY Zenon, <3>1 DEF Decode, Decode0
  <2> QED BY Zenon, <2>2, <2>3, <2>4
<1>2. CASE encoding # UTF8
  <2>1. /\ raw # <<>> /\ Len(raw) < Len(Utf16Form(c, encoding))
        /\ \A k \in 1 .. Len(raw) : raw[k] = Utf16Form(c, encoding)[k]
    BY <1>2 DEF Cut, Form
  <2>2. \/ Decode0(raw) = Incomplete("incomplete UTF-16 character")
        \/ Decode0(raw) = Incomplete("incomplete UTF-16 surrogate pair")
    BY <1>2, <2>1, Utf16Part DEF Decode0
  <2>3. /\ Incomplete("incomplete UTF-16 character").problem # "NONE"
        /\ ~ eof => Incomplete("incomplete UTF-16 character").problem = "incomplete"
        /\ Incomplete("incomplete UTF-16 surrogate pair").problem # "NONE"
        /\ ~ eof => Incomplete("incomplete UTF-16 surrogate pair").problem = "incomplete"
    BY DEF Incomplete, Bad
  <2>4. Decode(raw) = Decode0(raw)
    <3>1. Decode0(raw).problem # "NONE"
      BY <2>2, <2>3
    <3> QED BY Zenon, <3>1 DEF Decode, Decode0
  <2> QED BY Zenon, <2>2, <2>3, <2>4
<1> QED
  BY <1>1, <1>2

\* What is decoded is a character.
LEMMA DecodeSound ==
    ASSUME NEW raw \in Seq(Octet), raw # <<>>, Decode(raw).problem = "NONE"
    PROVE  \E n \in 1 .. Len(raw) : IsCharacter(SubSeq(raw, 1, n), encoding)
<1>1. Decode0(raw).problem = "NONE"
  <2>1. Bad("control characters are not allowed").problem # "NONE"
    BY DEF Bad
  <2> QED BY Zenon, <2>1 DEF Decode, Decode0
<1>2. CASE encoding = UTF8
  BY Zenon, <1>1, <1>2, Utf8Sound DEF Decode0, IsCharacter
<1>3. CASE encoding # UTF8
  BY Zenon, <1>1, <1>3, Utf16Sound DEF Decode0, IsCharacter
<1> QED
  BY <1>2, <1>3

\* At the end of the input nothing is waited for, and every problem has its name.
LEMMA DecodeEnds ==
    ASSUME NEW raw, eof \in BOOLEAN
    PROVE  /\ Decode(raw).problem \in {"NONE", "incomplete"} \cup DecodingProblems
           /\ eof => Decode(raw).problem # "incomplete"
<1> DEFINE ok(d) == d.problem \in {"NONE", "incomplete"} \cup DecodingProblems
           over(d) == d.problem # "incomplete"
           Named(x) == x \in {"NONE", "incomplete"} \cup DecodingProblems
<1>0. (\A s : Bad(s).problem = s) /\ (\A v, n : Decoded(v, n).problem = "NONE")
  BY DEF Bad, Decoded
<1>1. /\ ok(Bad("invalid leading UTF-8 octet")) /\ ok(Bad("invalid trailing UTF-8 octet"))
      /\ ok(Bad("invalid length of a UTF-8 sequence")) /\ ok(Bad("invalid Unicode character"))
      /\ ok(Incomplete("incomplete UTF-8 octet sequence"))
      /\ ok(Incomplete("incomplete UTF-16 character"))
      /\ ok(Bad("unexpected low surrogate area")) /\ ok(Bad("expected low surrogate area"))
      /\ ok(Incomplete("incomplete UTF-16 surrogate pair"))
      /\ ok(Bad("control characters are not allowed"))
  <2>1. /\ Named("invalid leading UTF-8 octet") /\ Named("invalid trailing UTF-8 octet")
        /\ Named("invalid length of a UTF-8 sequence") /\ Named("invalid Unicode character")
        /\ Named("incomplete UTF-8 octet sequence") /\ Named("incomplete UTF-16 character")
        /\ Named("unexpected low surrogate area") /\ Named("expected low surrogate area")
        /\ Named("incomplete UTF-16 surrogate pair") /\ Named("incomplete")
        /\ Named("control characters are not allowed")
    BY DEF DecodingProblems
  <2>2. \A s : Named(s) => ok(Bad(s))
    BY <1>0
  <2>3. \A s : Named(s) /\ Named("incomplete") => ok(Incomplete(s))
    BY Zenon, <2>2 DEF Incomplete
  <2> HIDE DEF Named, ok
  <2> QED BY Zenon, <2>1, <2>2, <2>3
<1>2. \A v, n : ok(Decoded(v, n))
  <2>1. Named("NONE")
    BY DEF DecodingProblems
  <2> QED BY Zenon, <1>0, <2>1
<1>3. ok(Decode(raw))
  <2> HIDE DEF ok
  <2>1. ok(DecodeUtf8(raw))
    BY Zenon, <1>1, <1>2 DEF DecodeUtf8
  <2>2. ok(DecodeUtf16(raw))
    BY Zenon, <1>1, <1>2 DEF DecodeUtf16
  <2> QED BY Zenon, <1>1, <2>1, <2>2 DEF Decode
<1>4. ASSUME eof PROVE over(Decode(raw))
  <2>1. /\ over(Bad("invalid leading UTF-8 octet")) /\ over(Bad("invalid trailing UTF-8 octet"))
        /\ over(Bad("invalid length of a UTF-8 sequence")) /\ over(Bad("invalid Unicode character"))
        /\ over(Incomplete("incomplete UTF-8 octet sequence"))
        /\ over(Incomplete("incomplete UTF-16 character"))
        /\ over(Bad("unexpected low surrogate area")) /\ over(Bad("expected low surrogate area"))
        /\ over(Incomplete("incomplete UTF-16 surrogate pair"))
        /\ over(Bad("control characters are not allowed"))
    BY <1>0, <1>4 DEF Incomplete
  <2>2. \A v, n : over(Decoded(v, n))
    BY <1>0
  <2> HIDE DEF over
  <2>3. over(DecodeUtf8(raw))
    BY Zenon, <2>1, <2>2 DEF DecodeUtf8
  <2>4. over(DecodeUtf16(raw))
    BY Zenon, <2>1, <2>2 DEF DecodeUtf16
  <2> QED BY Zenon, <2>1, <2>3, <2>4 DEF Decode
<1> QED
  BY <1>3, <1>4
-----------------------------------------------------------------------------
(* Texts.                                                                  *)

\* The code that an encoding is, and what it spells.
Code(e) == [c \in Chars |-> Form(c, e)]
Text(t, e) == Spell(Code(e), t)

\* It gives octets to every allowed character.
LEMMA CodeIs ==
    ASSUME NEW e \in Encodings3
    PROVE  Code(e) \in [Chars -> Seq(Octet)] /\ \A c \in Chars : Code(e)[c] = Form(c, e)
<1>1. \A c \in Chars : Form(c, e) \in Seq(Octet)
  BY CharRange, FormIs
<1> QED
  BY <1>1 DEF Code

\* Encoded, the definition of RFC 3629 and RFC 2781, spells with it.
LEMMA EncodedIs ==
    ASSUME NEW e \in Encodings3, NEW t \in Seq(Chars)
    PROVE  Encoded(t, e) = Text(t, e)
<1>1. \A k \in 1 .. Len(t) : t[k] \in Chars
  BY LenProperties
<1>2. \A k \in 1 .. Len(t) : EncodedChar(t[k], e) = Code(e)[t[k]]
  BY <1>1, CodeIs, CharRange, FormIs
<1>3. [k \in 1 .. Len(t) |-> EncodedChar(t[k], e)] = [k \in 1 .. Len(t) |-> Code(e)[t[k]]]
  BY <1>2
<1> QED
  BY <1>3 DEF Encoded, Text, Spell

\* Texts are put together from texts.
LEMMA TextIs ==
    ASSUME NEW e \in Encodings3
    PROVE  /\ \A t \in Seq(Chars) : Text(t, e) \in Seq(Octet)
           /\ Text(<<>>, e) = <<>>
           /\ \A s, t \in Seq(Chars) : Text(s \o t, e) = Text(s, e) \o Text(t, e)
           /\ \A c \in Chars : Text(<<c>>, e) = Form(c, e)
<1>0. Code(e) \in [Chars -> Seq(Octet)] /\ \A c \in Chars : Code(e)[c] = Form(c, e)
  BY CodeIs
<1>1. \A t \in Seq(Chars) : Spell(Code(e), t) \in Seq(Octet)
  BY <1>0, SpellPush
<1>2. Spell(Code(e), <<>>) = <<>>
  BY SpellNone
<1>3. \A s, t \in Seq(Chars) : Spell(Code(e), s \o t) = Spell(Code(e), s) \o Spell(Code(e), t)
  <2> DEFINE code == Code(e)
  <2>1. code \in [Chars -> Seq(Octet)]
    BY <1>0
  <2> HIDE DEF code
  <2>2. \A s, t \in Seq(Chars) : Spell(code, s \o t) = Spell(code, s) \o Spell(code, t)
    BY <2>1, SpellConcat
  <2> QED BY <2>2 DEF code
<1>4. \A c \in Chars : Spell(Code(e), <<c>>) = Code(e)[c]
  BY <1>0, SpellOne
<1> QED
  BY <1>0, <1>1, <1>2, <1>3, <1>4 DEF Text

\* A text that is not empty begins with its first character.
LEMMA TextHead ==
    ASSUME NEW e \in Encodings3, NEW t \in Seq(Chars), t # <<>>
    PROVE  /\ Text(t, e) = Form(Head(t), e) \o Text(Tail(t), e)
           /\ Head(t) \in Chars /\ Tail(t) \in Seq(Chars) /\ t = <<Head(t)>> \o Tail(t)
           /\ Form(Head(t), e) \in Seq(Octet) /\ Len(Form(Head(t), e)) \in 1 .. 4
           /\ Text(Tail(t), e) \in Seq(Octet)
<1>1. Head(t) \in Chars /\ Tail(t) \in Seq(Chars) /\ t = <<Head(t)>> \o Tail(t)
  BY HeadAndTail
<1>2. <<Head(t)>> \in Seq(Chars)
  BY <1>1
<1>3. Text(<<Head(t)>> \o Tail(t), e) = Text(<<Head(t)>>, e) \o Text(Tail(t), e)
  BY <1>1, <1>2, TextIs
<1>4. Text(<<Head(t)>>, e) = Form(Head(t), e) /\ Text(Tail(t), e) \in Seq(Octet)
  BY <1>1, TextIs
<1>5. Form(Head(t), e) \in Seq(Octet) /\ Len(Form(Head(t), e)) \in 1 .. 4
  BY <1>1, CharRange, FormIs
<1> QED
  BY <1>1, <1>3, <1>4, <1>5

\* Octets that begin a character.
Leads == {o \in Octet : ~ IsTrailing(o)}

\* Every character has one of them.
LEMMA OneLead ==
    ASSUME NEW c \in Chars
    PROVE  Count(Form(c, UTF8), Leads) = 1
<1> DEFINE w == Form(c, UTF8)
<1>1. w = Utf8Form(c)
  BY DEF Form
<1>2. InRange(c)
  BY CharRange
<1>3. /\ w \in Seq(Octet) /\ Len(w) \in 1 .. 4 /\ ~ IsTrailing(w[1])
      /\ \A k \in 2 .. Len(w) : IsTrailing(w[k])
  BY <1>1, <1>2, Utf8Lead
<1> HIDE DEF w
<1>4. {i \in DOMAIN w : w[i] \in Leads} = {1}
  <2>1. DOMAIN w = 1 .. Len(w) /\ \A i \in 1 .. Len(w) : w[i] \in Octet
    BY <1>3
  <2>2. \A i \in 1 .. Len(w) : i = 1 \/ i \in 2 .. Len(w)
    BY <1>3
  <2>3. 1 \in 1 .. Len(w)
    BY <1>3
  <2> QED BY <1>3, <2>1, <2>2, <2>3 DEF Leads
<1> QED
  BY <1>4, FS_Singleton DEF Count, w

\* UTF-8 text has as many of them as characters, and at most four times the octets.
LEMMA TextCount ==
    ASSUME NEW t \in Seq(Chars)
    PROVE  Count(Text(t, UTF8), Leads) = Len(t) /\ Len(Text(t, UTF8)) <= 4 * Len(t)
<1>0. UTF8 \in Encodings3
  BY DEF Encodings3
<1> DEFINE good(u) == Count(Text(u, UTF8), Leads) = Len(u) /\ Len(Text(u, UTF8)) <= 4 * Len(u)
           T == {u \in Seq(Chars) : good(u)}
<1>1. <<>> \in T
  <2>1. Text(<<>>, UTF8) = <<>> /\ <<>> \in Seq(Chars) /\ Len(<<>>) = 0
    BY <1>0, TextIs
  <2>2. Count(<<>>, Leads) = 0
    BY FS_EmptySet DEF Count
  <2> QED BY <2>1, <2>2
<1>2. \A u \in Seq(Chars), c \in Chars : u \in T => Append(u, c) \in T
  <2> TAKE u \in Seq(Chars), c \in Chars
  <2> HAVE u \in T
  <2> DEFINE x == Text(u, UTF8)  w == Form(c, UTF8)
  <2>1. Append(u, c) = u \o <<c>> /\ Append(u, c) \in Seq(Chars) /\ <<c>> \in Seq(Chars)
        /\ Len(Append(u, c)) = Len(u) + 1 /\ Len(u) \in Nat
    OBVIOUS
  <2>2. Text(Append(u, c), UTF8) = x \o w /\ x \in Seq(Octet)
    BY <1>0, <2>1, TextIs
  <2>3. w \in Seq(Octet) /\ Len(w) \in 1 .. 4
    BY <1>0, CharRange, FormIs
  <2>4. Count(w, Leads) = 1
    BY OneLead
  <2>5. Count(x, Leads) = Len(u) /\ Len(x) <= 4 * Len(u)
    OBVIOUS
  <2> HIDE DEF x, w
  <2>6. Count(x \o w, Leads) = Count(x, Leads) + Count(w, Leads)
    BY <2>2, <2>3, CountConcat
  <2>7. Len(x \o w) = Len(x) + Len(w) /\ Len(x) \in Nat
    BY <2>2, <2>3
  <2>8. good(Append(u, c))
    <3>1. Count(Text(Append(u, c), UTF8), Leads) = Len(Append(u, c))
      BY <2>1, <2>2, <2>4, <2>5, <2>6
    <3>2. Len(Text(Append(u, c), UTF8)) = Len(x) + Len(w)
      BY <2>2, <2>7
    <3>3. Len(x) + Len(w) <= 4 * (Len(u) + 1)
      <4> DEFINE l == Len(x)  m == Len(w)  n == Len(u)
      <4>1. l \in Nat /\ m \in 1 .. 4 /\ n \in Nat /\ l <= 4 * n
        BY <2>1, <2>3, <2>5, <2>7
      <4> HIDE DEF l, m, n
      <4>2. l + m <= 4 * (n + 1)
        BY <4>1
      <4> QED BY <4>2 DEF l, m, n
    <3> QED BY <2>1, <3>1, <3>2, <3>3
  <2> QED BY <2>1, <2>8
<1>3. Seq(Chars) \subseteq T
  <2> HIDE DEF T
  <2> QED BY <1>1, <1>2, GrowSeq
<1> QED
  BY <1>3

\* A character takes at most three octets in the buffer for two in the raw buffer.
LEMMA ThreeForTwo ==
    ASSUME NEW c \in Chars, NEW e \in Encodings3
    PROVE  2 * Len(Form(c, UTF8)) <= 3 * Len(Form(c, e))
<1>0. InRange(c)
  BY CharRange
<1>1. Form(c, UTF8) = Utf8Form(c) /\ Len(Utf8Form(c)) \in 1 .. 4
  BY <1>0, Utf8Lead DEF Form
<1>2. CASE e = UTF8
  BY <1>1, <1>2
<1>3. CASE e # UTF8
  <2>1. Form(c, e) = Utf16Form(c, e)
    BY <1>3 DEF Form
  <2>2. CASE Single(c)
    <3>1. Len(Utf16Form(c, e)) = 2
      BY <1>0, <2>2, Utf16Lead
    <3>2. c < \h80 \/ c < \h800 \/ c < \h10000
      BY <2>2 DEF Single
    <3>3. Len(Utf8Form(c)) <= 3
      BY SMTT(30), <1>0, <3>2 DEF Utf8Form, InRange
    <3> QED BY <1>1, <2>1, <3>1, <3>3
  <2>3. CASE ~ Single(c)
    <3>1. Len(Utf16Form(c, e)) = 4
      BY <1>0, <2>3, Utf16Lead
    <3>2. Len(Form(c, UTF8)) \in 1 .. 4 /\ Len(Form(c, e)) = 4
      BY <1>1, <2>1, <3>1
    <3> DEFINE l == Len(Form(c, UTF8))  m == Len(Form(c, e))
    <3>3. l \in 1 .. 4 /\ m = 4
      BY <3>2
    <3> HIDE DEF l, m
    <3>4. 2 * l <= 3 * m
      BY <3>3
    <3> QED BY <3>4 DEF l, m
  <2> QED BY <2>2, <2>3
<1> QED
  BY <1>2, <1>3

\* Two ways to cut the same octets.
Same(raw, u, w, v) == raw \o u = w \o v

\* What each then says of the other.
LEMMA TakeOff ==
    ASSUME NEW raw \in Seq(Octet), NEW u \in Seq(Octet), NEW w \in Seq(Octet),
           NEW v \in Seq(Octet), Same(raw, u, w, v)
    PROVE  /\ Len(w) <= Len(raw) => /\ Starts(raw, w)
                                    /\ SubSeq(raw, Len(w) + 1, Len(raw)) \o u = v
           /\ Len(raw) < Len(w) => \A k \in 1 .. Len(raw) : raw[k] = w[k]
           /\ u = <<>> => Len(w) <= Len(raw)
<1>0. Len(raw) \in Nat /\ Len(u) \in Nat /\ Len(w) \in Nat /\ Len(v) \in Nat
  OBVIOUS
<1>1. /\ Len(raw \o u) = Len(raw) + Len(u) /\ Len(w \o v) = Len(w) + Len(v)
      /\ \A k \in 1 .. Len(raw) : (raw \o u)[k] = raw[k]
      /\ \A k \in 1 .. Len(w) : (w \o v)[k] = w[k]
      /\ SubSeq(w \o v, Len(w) + 1, Len(w \o v)) = v
  <2>1. /\ Len(raw \o u) = Len(raw) + Len(u)
        /\ \A k \in 1 .. Len(raw) : (raw \o u)[k] = raw[k]
    BY FrontOfConcat
  <2>2. /\ Len(w \o v) = Len(w) + Len(v)
        /\ \A k \in 1 .. Len(w) : (w \o v)[k] = w[k]
        /\ SubSeq(w \o v, Len(w) + 1, Len(w \o v)) = v
    BY FrontOfConcat
  <2> QED BY <2>1, <2>2
<1>2. ASSUME Len(w) <= Len(raw)
      PROVE  Starts(raw, w) /\ SubSeq(raw, Len(w) + 1, Len(raw)) \o u = v
  <2>1. \A k \in 1 .. Len(w) : k \in 1 .. Len(raw)
    BY <1>0, <1>2
  <2>2. \A k \in 1 .. Len(w) : raw[k] = w[k]
    BY <1>1, <2>1 DEF Same
  <2>3. Starts(raw, w)
    BY <1>2, <2>2 DEF Starts
  <2> DEFINE r == SubSeq(raw, Len(w) + 1, Len(raw))  p == SubSeq(raw, 1, Len(w))
  <2>4. raw = p \o r /\ p \in Seq(Octet) /\ Len(p) = Len(w) /\ r \in Seq(Octet)
    <3> DEFINE n == Len(w)
    <3>1. n \in 0 .. Len(raw)
      BY <1>0, <1>2
    <3> HIDE DEF n
    <3>2. raw = SubSeq(raw, 1, n) \o SubSeq(raw, n + 1, Len(raw))
          /\ SubSeq(raw, 1, n) \in Seq(Octet) /\ Len(SubSeq(raw, 1, n)) = n
          /\ SubSeq(raw, n + 1, Len(raw)) \in Seq(Octet)
      BY ZenonT(60), <3>1, CutInTwo
    <3> QED BY <3>2 DEF n
  <2> HIDE DEF r, p
  <2>5. p \o (r \o u) = w \o v
    <3>1. (p \o r) \o u = p \o (r \o u)
      <4>1. p \in Seq(Octet) /\ r \in Seq(Octet)
        BY <2>4
      <4> QED BY SMTT(60), <4>1, ConcatAssociative
    <3> QED BY <2>4, <3>1 DEF Same
  <2>6. r \o u \in Seq(Octet)
    BY <2>4, ConcatProperties
  <2>7. SubSeq(p \o (r \o u), Len(p) + 1, Len(p \o (r \o u))) = r \o u
    BY ZenonT(60), <2>4, <2>6, FrontOfConcat
  <2>8. r \o u = v
    BY <1>1, <2>4, <2>5, <2>7
  <2> QED BY <2>3, <2>8 DEF r
<1>3. ASSUME Len(raw) < Len(w)
      PROVE  \A k \in 1 .. Len(raw) : raw[k] = w[k]
  <2>1. \A k \in 1 .. Len(raw) : k \in 1 .. Len(w)
    BY <1>0, <1>3
  <2> QED BY <1>1, <2>1 DEF Same
<1>4. ASSUME u = <<>> PROVE Len(w) <= Len(raw)
  <2>1. Len(u) = 0
    BY <1>4
  <2>2. Len(raw) + Len(u) = Len(w) + Len(v)
    BY <1>1 DEF Same
  <2> QED BY <1>0, <2>1, <2>2
<1> QED
  BY <1>2, <1>3, <1>4

\* Two pieces are empty together or not at all.
LEMMA NothingIn ==
    ASSUME NEW s \in Seq(Octet), NEW t \in Seq(Octet), s \o t = <<>>
    PROVE  s = <<>> /\ t = <<>>
<1>1. Len(s \o t) = Len(s) + Len(t) /\ Len(s) \in Nat /\ Len(t) \in Nat
  OBVIOUS
<1>2. Len(s \o t) = 0
  OBVIOUS
<1>3. Len(s) = 0 /\ Len(t) = 0
  BY <1>1, <1>2
<1> QED
  BY <1>3, EmptySeq

-----------------------------------------------------------------------------
(* Inputs.                                                                 *)

\* What is used of an input.
Given(i) ==
    /\ i.enc \in Encodings3 /\ i.set \in {ANY, i.enc}
    /\ i.chars \in Seq(Chars) /\ i.junk \in Seq(Octet) /\ IsBroken(i.junk, i.enc)
    /\ i.octets = (IF i.marked THEN Bom(i.enc) ELSE <<>>) \o (Text(i.chars, i.enc) \o i.junk)
    /\ i.octets \in Seq(Octet) /\ i.text = Text(i.chars, UTF8)
    /\ i.marked \in BOOLEAN /\ (i.marked => i.set = ANY)
    /\ i.set = ANY /\ ~ i.marked =>
         i.enc = UTF8 /\ \A e \in Encodings3 : ~ IsPrefix(Bom(e), i.octets)

\* The byte order mark is the character U+FEFF.
LEMMA BomIs ==
    ASSUME NEW e \in Encodings3
    PROVE  Bom(e) = MarkOf(e) /\ Bom(e) \in Seq(Octet) /\ Len(Bom(e)) \in 2 .. 3
<1> DEFINE c == \hFEFF
<1>1. InRange(c)
  BY SMTT(30) DEF InRange
<1>2. Utf8Form(c) = <<\hEF, \hBB, \hBF>>
  BY SMTT(30) DEF Utf8Form
<1>3. Utf16Form(c, e) = IF e = UTF16LE THEN <<\hFF, \hFE>> ELSE <<\hFE, \hFF>>
  <2>1. Utf16Form(c, e) = Halves(c, e)
    BY SMTT(30) DEF Utf16Form
  <2>2. c % 256 = \hFF /\ c \div 256 = \hFE
    BY SMT
  <2> HIDE DEF c
  <2> QED BY <2>1, <2>2 DEF Halves
<1>4. Bom(e) = EncodedChar(c, e)
  BY SMTT(30) DEF Bom
<1> HIDE DEF c
<1>5. Bom(e) = Form(c, e)
  BY <1>1, <1>4, FormIs
<1>6. Bom(e) = MarkOf(e)
  BY <1>2, <1>3, <1>5, EncodingsAssumption DEF Form, MarkOf
<1>7. MarkOf(e) \in Seq(Octet) /\ Len(MarkOf(e)) \in 2 .. 3
  <2>1. CASE e = UTF8
    <3>1. MarkOf(e) = <<\hEF, \hBB, \hBF>>
      BY <2>1 DEF MarkOf
    <3> QED BY <3>1 DEF Octet
  <2>2. CASE e # UTF8
    <3>1. MarkOf(e) = <<\hFF, \hFE>> \/ MarkOf(e) = <<\hFE, \hFF>>
      BY <2>2 DEF MarkOf
    <3>2. CASE MarkOf(e) = <<\hFF, \hFE>>
      BY <3>2 DEF Octet
    <3>3. CASE MarkOf(e) = <<\hFE, \hFF>>
      BY <3>3 DEF Octet
    <3> QED BY <3>1, <3>2, <3>3
  <2> QED BY <2>1, <2>2
<1> QED
  BY <1>6, <1>7

\* The inputs of the specification are of this kind.
LEMMA InputsAre ==
    ASSUME NEW i \in Inputs
    PROVE  Given(i)
<1>1. IsInput(i)
  BY InputAssumption
<1>2. /\ i.enc \in Encodings3 /\ i.set \in {ANY, i.enc}
      /\ i.junk \in Seq(Octet) /\ IsBroken(i.junk, i.enc)
      /\ i.marked \in BOOLEAN /\ (i.marked => i.set = ANY)
      /\ i.set = ANY /\ ~ i.marked =>
           i.enc = UTF8 /\ \A e \in Encodings3 : ~ IsPrefix(Bom(e), i.octets)
  BY <1>1 DEF IsInput, Encodings3, Octet
<1>3. i.chars \in Seq(Chars)
  <2>1. i.chars \in Seq(Nat) /\ \A k \in DOMAIN i.chars : IsAllowed(i.chars[k])
    BY <1>1 DEF IsInput
  <2> DEFINE t == i.chars
  <2>2. t \in Seq(Nat) /\ \A k \in 1 .. Len(t) : t[k] \in Chars
    <3>1. \A k \in 1 .. Len(t) : k \in DOMAIN t /\ t[k] \in Nat
      BY <2>1, LenProperties
    <3> QED BY <2>1, <3>1 DEF Chars
  <2> HIDE DEF t
  <2>3. t \in Seq(Chars)
    BY <2>2, SeqIn
  <2> QED BY <2>3 DEF t
<1>4. i = Input(i.chars, i.junk, i.enc, i.marked, i.set)
  BY <1>1 DEF IsInput
<1>5. /\ i.octets = (IF i.marked THEN Bom(i.enc) ELSE <<>>) \o (Encoded(i.chars, i.enc) \o i.junk)
      /\ i.text = Encoded(i.chars, UTF8)
  <2> DEFINE x == Input(i.chars, i.junk, i.enc, i.marked, i.set)
  <2>1. /\ x.octets = (IF i.marked THEN Bom(i.enc) ELSE <<>>) \o (Encoded(i.chars, i.enc) \o i.junk)
        /\ x.text = Encoded(i.chars, UTF8)
    BY DEF Input
  <2>2. i = x
    BY <1>4
  <2> HIDE DEF x
  <2> QED BY <2>1, <2>2
<1>6. Encoded(i.chars, i.enc) = Text(i.chars, i.enc) /\ Encoded(i.chars, UTF8) = Text(i.chars, UTF8)
  BY <1>2, <1>3, EncodedIs DEF Encodings3
<1>7. i.octets \in Seq(Octet)
  <2> DEFINE m == IF i.marked THEN Bom(i.enc) ELSE <<>>  t == Text(i.chars, i.enc)
  <2>1. m \in Seq(Octet)
    BY <1>2, BomIs
  <2>2. t \in Seq(Octet)
    BY <1>2, <1>3, TextIs
  <2>3. i.octets = m \o (t \o i.junk)
    BY <1>5, <1>6
  <2> HIDE DEF m, t
  <2>4. t \o i.junk \in Seq(Octet)
    BY <1>2, <2>2, ConcatProperties
  <2> QED BY <2>1, <2>3, <2>4, ConcatProperties
<1> QED
  BY Zenon, <1>2, <1>3, <1>5, <1>6, <1>7 DEF Given

\* Where the octets of raw and u are those of x.
Makes(raw, u, x) == raw \o u = x

\* The characters that are not allowed in a stream.
LEMMA ForbiddenIs == \A c \in Forbidden : IsScalarValue(c) /\ ~ IsAllowed(c)
<1> DEFINE range == 0 .. \hFFFF
<1>1. Forbidden = {c \in range : IsScalarValue(c) /\ ~ IsAllowed(c)}
  BY DEF Forbidden
<1> HIDE DEF range
<1> QED
  BY <1>1

\* Octets that are not the start of an allowed character are not decoded.
LEMMA JunkIsRefused ==
    ASSUME NEW raw \in Seq(Octet), raw # <<>>, NEW u \in Seq(Octet), NEW junk \in Seq(Octet),
           encoding \in Encodings3, IsBroken(junk, encoding), Makes(raw, u, junk)
    PROVE  Decode(raw).problem # "NONE"
<1>0. Len(raw) \in Nat \ {0} /\ Len(junk) \in Nat /\ Len(raw) <= Len(junk)
      /\ \A k \in 1 .. Len(raw) : junk[k] = raw[k]
  <2>1. Len(raw \o u) = Len(raw) + Len(u) /\ \A k \in 1 .. Len(raw) : (raw \o u)[k] = raw[k]
    BY FrontOfConcat
  <2>2. Len(raw) \in Nat /\ Len(u) \in Nat /\ Len(raw) # 0
    BY EmptySeq
  <2>3. raw \o u = junk
    BY DEF Makes
  <2> QED BY <2>1, <2>2, <2>3
<1> SUFFICES ASSUME Decode(raw).problem = "NONE" PROVE FALSE
  OBVIOUS
<1>1. CASE \A n \in 1 .. Len(junk) : ~ IsCharacter(SubSeq(junk, 1, n), encoding)
  <2>1. PICK n \in 1 .. Len(raw) : IsCharacter(SubSeq(raw, 1, n), encoding)
    BY DecodeSound
  <2>2. n \in 1 .. Len(junk)
    BY <1>0
  <2>3. SubSeq(junk, 1, n) = SubSeq(raw, 1, n)
    <3> DEFINE x == SubSeq(junk, 1, n)  y == SubSeq(raw, 1, n)
    <3>1. x \in Seq(Octet) /\ Len(x) = n /\ \A k \in 1 .. n : x[k] = junk[k]
      BY <2>2
    <3>2. y \in Seq(Octet) /\ Len(y) = n /\ \A k \in 1 .. n : y[k] = raw[k]
      BY <1>0
    <3>3. \A k \in 1 .. n : k \in 1 .. Len(raw)
      BY <1>0
    <3> HIDE DEF x, y
    <3>4. \A k \in 1 .. n : x[k] = y[k]
      BY <1>0, <3>1, <3>2, <3>3
    <3>5. x = y
      BY <3>1, <3>2, <3>4, SeqEqual
    <3> QED BY <3>5 DEF x, y
  <2> QED BY <1>1, <2>1, <2>2, <2>3
<1>2. CASE \E c \in Forbidden : IsPrefix(EncodedChar(c, encoding), junk)
  <2>1. PICK c \in Forbidden : IsPrefix(EncodedChar(c, encoding), junk)
    BY <1>2
  <2>2. InRange(c) /\ ~ IsAllowed(c)
    <3>1. IsScalarValue(c) /\ ~ IsAllowed(c)
      BY ZenonT(60), ForbiddenIs
    <3>2. c \in Nat /\ c <= \h10FFFF /\ ~ (HighArea(c) \/ LowArea(c))
      BY SMTT(30), <3>1 DEF IsScalarValue
    <3>3. ~ (c >= \hD800 /\ c <= \hDFFF)
      BY SMTT(30), <3>2 DEF HighArea, LowArea
    <3> QED BY SMTT(30), <3>1, <3>2, <3>3 DEF InRange
  <2> DEFINE w == Form(c, encoding)
  <2>3. EncodedChar(c, encoding) = w /\ w \in Seq(Octet)
    BY <2>2, FormIs
  <2> HIDE DEF w
  <2>4. Len(w) \in Nat /\ Len(w) <= Len(junk) /\ \A k \in 1 .. Len(w) : w[k] = junk[k]
    <3>1. Len(w) <= Len(junk) /\ SubSeq(w, 1, Len(w)) = SubSeq(junk, 1, Len(w))
      BY <2>1, <2>3 DEF IsPrefix
    <3> DEFINE n == Len(w)
    <3>2. n \in 0 .. Len(junk)
      BY <1>0, <2>3, <3>1
    <3> DEFINE x == SubSeq(w, 1, n)  y == SubSeq(junk, 1, n)
    <3>3. \A k \in 1 .. n : x[k] = w[k]
      BY <2>3
    <3>4. \A k \in 1 .. n : y[k] = junk[k]
      <4> HIDE DEF n
      <4> QED BY <3>2
    <3>5. x = y
      BY <3>1
    <3> HIDE DEF x, y
    <3> QED BY <2>3, <3>1, <3>3, <3>4, <3>5
  <2>5. CASE Len(w) <= Len(raw)
    <3>1. Starts(raw, w)
      <4>1. \A k \in 1 .. Len(w) : k \in 1 .. Len(raw)
        BY <1>0, <2>4, <2>5
      <4> QED BY <1>0, <2>4, <2>5, <4>1 DEF Starts
    <3>2. Decode(raw) = Bad("control characters are not allowed")
      BY <2>2, <3>1, DecodeWhole DEF w
    <3>3. Bad("control characters are not allowed").problem = "control characters are not allowed"
      BY DEF Bad
    <3> QED BY <3>2, <3>3
  <2>6. CASE Len(raw) < Len(w)
    <3>1. Cut(raw, w)
      <4>1. \A k \in 1 .. Len(raw) : k \in 1 .. Len(w)
        BY <1>0, <2>4, <2>6
      <4> QED BY <1>0, <2>4, <2>6, <4>1 DEF Cut
    <3> QED BY <2>2, <3>1, DecodeCut DEF w
  <2> QED BY <1>0, <2>4, <2>5, <2>6
<1> QED
  BY <1>1, <1>2 DEF IsBroken

\* What decoding the front of a text comes to.
Ahead(raw, u, rest, junk) ==
    LET w == Form(Head(rest), encoding) IN
    \/ /\ Len(w) <= Len(raw) /\ Decode(raw) = Decoded(Head(rest), Len(w))
       /\ SubSeq(raw, Len(w) + 1, Len(raw)) \o u = Text(Tail(rest), encoding) \o junk
    \/ /\ Len(raw) < Len(w) /\ u # <<>>
       /\ Decode(raw).problem # "NONE" /\ (~ eof => Decode(raw).problem = "incomplete")

\* The next character of the text is decoded, or waited for.
LEMMA CharAhead ==
    ASSUME NEW raw \in Seq(Octet), raw # <<>>, NEW u \in Seq(Octet), NEW junk \in Seq(Octet),
           NEW rest \in Seq(Chars), rest # <<>>, encoding \in Encodings3,
           Same(raw, u, Text(rest, encoding), junk)
    PROVE  Ahead(raw, u, rest, junk)
<1> DEFINE c == Head(rest)  w == Form(c, encoding)  t == Text(Tail(rest), encoding)
<1>1. /\ Text(rest, encoding) = w \o t /\ c \in Chars /\ w \in Seq(Octet) /\ t \in Seq(Octet)
      /\ Len(w) \in Nat /\ Len(raw) \in Nat
  <2>1. /\ Text(rest, encoding) = w \o t /\ c \in Chars /\ w \in Seq(Octet) /\ t \in Seq(Octet)
    BY TextHead
  <2> HIDE DEF w
  <2> QED BY <2>1
<1>2. InRange(c) /\ IsAllowed(c)
  BY <1>1, CharRange
<1> HIDE DEF c, t
<1>3. Same(raw, u, w, t \o junk) /\ t \o junk \in Seq(Octet)
  <2> HIDE DEF w
  <2>1. w \in Seq(Octet) /\ t \in Seq(Octet)
    BY <1>1
  <2>2. (w \o t) \o junk = w \o (t \o junk)
    BY SMTT(60), <2>1, ConcatAssociative
  <2>3. t \o junk \in Seq(Octet)
    BY <2>1, ConcatProperties
  <2> QED BY <1>1, <2>2, <2>3 DEF Same
<1>4. /\ Len(w) <= Len(raw) => /\ Starts(raw, w)
                               /\ SubSeq(raw, Len(w) + 1, Len(raw)) \o u = t \o junk
      /\ Len(raw) < Len(w) => \A k \in 1 .. Len(raw) : raw[k] = w[k]
      /\ u = <<>> => Len(w) <= Len(raw)
  <2> HIDE DEF w
  <2> QED BY <1>1, <1>3, TakeOff
<1>5. CASE Len(w) <= Len(raw)
  <2>1. Decode(raw) = Decoded(c, Len(w))
    BY <1>2, <1>4, <1>5, DecodeWhole
  <2> QED BY <1>4, <1>5, <2>1 DEF Ahead, c, t
<1>6. CASE Len(raw) < Len(w)
  <2>1. Cut(raw, w)
    BY <1>4, <1>6 DEF Cut
  <2>2. Decode(raw).problem # "NONE" /\ (~ eof => Decode(raw).problem = "incomplete")
    BY <1>2, <2>1, DecodeCut
  <2>3. u # <<>>
    <3> HIDE DEF w
    <3> QED BY <1>1, <1>4, <1>6
  <2> QED BY <1>6, <2>2, <2>3 DEF Ahead, c
<1> QED
  <2> HIDE DEF w
  <2> QED BY <1>1, <1>5, <1>6

-----------------------------------------------------------------------------
(* The inductive invariant.                                                *)

Types == input \in Inputs /\ TypeOK /\ scanned \in Seq(Octet)

\* How far a call is, and how far the input has been read.
Stage ==
    /\ encoding \in {ANY, input.enc} /\ (encoding = ANY => input.set = ANY)
    /\ eof => fed = Len(input.octets)
    /\ offset + Len(raw_buffer) = fed
    /\ pc # "idle" => passed = 0 /\ length \in Lengths /\ error = "NONE"
    /\ pc = "encoding" => encoding = ANY
    /\ encoding = ANY => /\ pc \in {"idle", "encoding"} /\ offset = 0 /\ raw_passed = 0
                         /\ passed = 0 /\ buffer = <<>> /\ unread = 0 /\ scanned = <<>>

\* The room in the buffers, and for what the raw buffer decodes to.
Room ==
    /\ raw_passed + Len(raw_buffer) <= RawSize
    /\ passed + Len(buffer) <= BufferSize
    /\ pc = "decode" => 2 * Len(buffer) + 3 * Len(raw_buffer) + 1 <= 2 * BufferSize

\* How far beyond the limit decoding goes before a call tests it.
Most == MaxFileSize + 2 + 4 * (length - 1) + RawSize
Bound ==
    /\ pc # "idle" => offset <= MaxFileSize + 2 + 4 * unread
    /\ pc = "decode" => offset + Len(raw_buffer) <= Most
    /\ length # 0 => offset <= Most
    /\ length = 0 => offset = 0
    /\ pc = "idle" /\ error = "NONE" => offset < MaxFileSize \/ (eof /\ raw_buffer = <<>>)

\* The octets that the read handler has not delivered yet, and a mark that has
\* not been looked at yet.
Unfed == SubSeq(input.octets, fed + 1, Len(input.octets))
Mark == IF encoding = ANY /\ input.marked THEN Bom(input.enc) ELSE <<>>

\* The characters of the input are those moved past, those in the buffer, and
\* those in the octets that have not been decoded yet.
Parts(a, b, rest, last) ==
    /\ input.chars = (a \o b) \o rest
    /\ scanned = Text(a, UTF8)
    /\ buffer = Text(b, UTF8) \o last /\ unread = Len(b) + Len(last)
    /\ Same(raw_buffer, Unfed, Mark, Text(rest, input.enc) \o input.junk)
    /\ last = <<0>> => /\ rest = <<>> /\ input.junk = <<>> /\ eof /\ raw_buffer = <<>>
                       /\ pc = "idle" /\ encoding # ANY
    /\ error \in DecodingProblems => /\ rest = <<>> /\ last = <<>> /\ input.junk # <<>>
                                     /\ encoding # ANY

Lasts == {<<>>, <<0>>}
Divided == \E a, b, rest \in Seq(Chars) : \E last \in Lasts : Parts(a, b, rest, last)

ReaderInv == Types /\ Stage /\ Room /\ Bound /\ Divided

\* What the types of an input say of the pieces of it.
LEMMA Pieces ==
    ASSUME Types
    PROVE  /\ Given(input) /\ input.octets \in Seq(Octet) /\ input.junk \in Seq(Octet)
           /\ raw_buffer \in Seq(Octet) /\ buffer \in Seq(Octet)
           /\ Unfed \in Seq(Octet) /\ Len(Unfed) = Len(input.octets) - fed
           /\ Mark \in Seq(Octet) /\ input.enc \in Encodings3 /\ UTF8 \in Encodings3
           /\ Len(raw_buffer) \in Nat /\ Len(buffer) \in Nat /\ Len(input.octets) \in Nat
<1>1. Given(input)
  BY InputsAre DEF Types
<1>2. input.octets \in Seq(Octet) /\ input.junk \in Seq(Octet) /\ input.enc \in Encodings3
  BY <1>1 DEF Given
<1>3. raw_buffer \in Seq(Octet) /\ buffer \in Seq(Octet) /\ fed \in 0 .. Len(input.octets)
  BY DEF Types, TypeOK, Octet
<1>4. Unfed \in Seq(Octet) /\ Len(Unfed) = Len(input.octets) - fed
  BY <1>2, <1>3, CutInTwo DEF Unfed
<1>5. Mark \in Seq(Octet)
  BY <1>2, BomIs DEF Mark
<1>6. /\ UTF8 \in Encodings3
      /\ Len(raw_buffer) \in Nat /\ Len(buffer) \in Nat /\ Len(input.octets) \in Nat
  BY <1>2, <1>3 DEF Encodings3
<1> QED
  BY <1>1, <1>2, <1>3, <1>4, <1>5, <1>6

\* The buffer holds at most four octets a character.
LEMMA BufferIsShort ==
    ASSUME Types, Divided
    PROVE  Len(buffer) <= 4 * unread
<1>1. PICK a \in Seq(Chars), b \in Seq(Chars), rest \in Seq(Chars), last \in Lasts : Parts(a, b, rest, last)
  BY DEF Divided
<1>2. buffer = Text(b, UTF8) \o last /\ unread = Len(b) + Len(last)
  BY <1>1 DEF Parts
<1>3. Text(b, UTF8) \in Seq(Octet) /\ Len(Text(b, UTF8)) <= 4 * Len(b)
  BY TextIs, TextCount DEF Encodings3
<1>4. last \in Seq(Octet) /\ Len(last) \in Nat
  <2>1. CASE last = <<>>
    BY <2>1
  <2>2. CASE last = <<0>>
    BY <2>2 DEF Octet
  <2> QED BY <2>1, <2>2 DEF Lasts
<1> DEFINE t == Text(b, UTF8)
<1>5. t \in Seq(Octet) /\ Len(t) \in Nat /\ Len(b) \in Nat
  BY <1>3
<1> HIDE DEF t
<1>6. Len(t \o last) = Len(t) + Len(last)
  BY <1>4, <1>5
<1>7. Len(buffer) = Len(t) + Len(last) /\ Len(t) <= 4 * Len(b)
  BY <1>2, <1>3, <1>6 DEF t
<1> DEFINE l == Len(t) m == Len(last) n == Len(b)
<1>8. l \in Nat /\ m \in Nat /\ n \in Nat /\ Len(buffer) = l + m /\ l <= 4 * n /\ unread = n + m
  BY <1>2, <1>4, <1>5, <1>7
<1> HIDE DEF l, m, n
<1> QED BY <1>8

\* A step that leaves the data alone.
LEMMA PartsStay ==
    ASSUME Divided,
           UNCHANGED <<input, fed, eof, encoding, raw_buffer, buffer, unread, scanned>>,
           error' = error \/ error' \notin DecodingProblems,
           pc' = "idle" \/ ~ (eof /\ raw_buffer = <<>> /\ pc = "idle")
    PROVE  Divided'
<1>1. PICK a \in Seq(Chars), b \in Seq(Chars), rest \in Seq(Chars), last \in Lasts : Parts(a, b, rest, last)
  BY DEF Divided
<1>2. Parts(a, b, rest, last)'
  BY <1>1 DEF Parts, Unfed, Mark, Same
<1> QED
  BY <1>2 DEF Divided

-----------------------------------------------------------------------------
(* The steps of a call that leave the data alone.                          *)

\* Moving the raw buffer, and moving past what is in it.
LEMMA Assumed ==
    /\ RawSize \in Nat /\ RawSize >= 4 /\ BufferSize = 3 * RawSize /\ MaxFileSize \in Nat \ {0}
    /\ \A n \in Lengths : n \in Nat \ {0} /\ 8 * (n - 1) + 3 * RawSize + 1 <= 2 * BufferSize
<1>1. /\ RawSize \in Nat /\ RawSize >= 4 /\ BufferSize = 3 * RawSize /\ MaxFileSize \in Nat \ {0}
      /\ Lengths \subseteq Nat \ {0}
      /\ \A n \in Lengths : 4 * (n - 1) + (3 * RawSize) \div 2 + 1 <= BufferSize
  BY ReaderAssumption
<1>2. ASSUME NEW n \in Lengths PROVE 8 * (n - 1) + 3 * RawSize + 1 <= 2 * BufferSize
  <2>1. n \in Nat \ {0} /\ 4 * (n - 1) + (3 * RawSize) \div 2 + 1 <= BufferSize
    BY <1>1
  <2> QED BY <1>1, <2>1
<1> QED
  BY <1>1, <1>2

\* A call begins.
LEMMA CallBegins ==
    ASSUME ReaderInv, NEW n \in Lengths, update_buffer(n)
    PROVE  ReaderInv'
<1> USE DEF ReaderInv, update_buffer, MoveBuffer
<1>1. Types'
  BY DEF Types, TypeOK
<1>2. Stage'
  BY DEF Stage
<1>3. Room'
  <2>1. Len(buffer) \in Nat /\ passed \in Nat
    BY Pieces DEF Types, TypeOK
  <2> QED BY <2>1, Assumed DEF Room
<1>4. Bound'
  <2>1. offset < MaxFileSize /\ offset \in Nat /\ unread \in Nat /\ n \in Nat \ {0}
    BY Assumed DEF Bound, Types, TypeOK
  <2>2. offset' = offset /\ unread' = unread /\ length' = n /\ pc' \in {"encoding", "fill"}
    OBVIOUS
  <2> QED BY <2>1, <2>2, Assumed DEF Bound, Most
<1>5. Divided'
  BY PartsStay
<1> QED
  BY <1>1, <1>2, <1>3, <1>4, <1>5

\* Decoding begins with something in the raw buffer, or with nothing more to read.
LEMMA DecodingBegins ==
    ASSUME ReaderInv, pc = "fill", Wanting, pc' = "decode", first' \in BOOLEAN,
           UNCHANGED <<input, fed, eof, encoding, raw_buffer, raw_passed, buffer, passed,
                       unread, offset, error, length, scanned>>
    PROVE  ReaderInv'
<1> USE DEF ReaderInv
<1>1. Types'
  BY DEF Types, TypeOK
<1>2. Stage'
  BY DEF Stage
<1>3. /\ length \in Lengths /\ length \in Nat \ {0} /\ unread <= length - 1 /\ unread \in Nat
      /\ Len(buffer) \in Nat /\ Len(raw_buffer) \in Nat /\ raw_passed \in Nat /\ offset \in Nat
      /\ Len(buffer) <= 4 * unread /\ offset <= MaxFileSize + 2 + 4 * unread
      /\ raw_passed + Len(raw_buffer) <= RawSize
  <2>1. length \in Lengths
    BY DEF Stage
  <2>2. unread \in Nat /\ raw_passed \in Nat /\ offset \in Nat
    BY DEF Types, TypeOK
  <2>3. unread < length /\ length \in Nat \ {0}
    BY <2>1, Assumed DEF Wanting
  <2> QED BY <2>1, <2>2, <2>3, BufferIsShort, Pieces DEF Bound, Room
<1>4. Room'
  <2>1. 8 * (length - 1) + 3 * RawSize + 1 <= 2 * BufferSize /\ RawSize \in Nat /\ BufferSize \in Nat
    BY <1>3, Assumed
  <2> DEFINE l == Len(buffer) r == Len(raw_buffer)
  <2>2. l <= 4 * (length - 1) /\ r <= RawSize /\ l \in Nat /\ r \in Nat
    BY <1>3, <2>1
  <2> HIDE DEF l, r
  <2>3. 2 * l + 3 * r + 1 <= 2 * BufferSize
    BY <1>3, <2>1, <2>2
  <2> QED BY <2>3 DEF Room, l, r
<1>5. Bound'
  <2> DEFINE r == Len(raw_buffer)
  <2>1. r <= RawSize /\ r \in Nat /\ RawSize \in Nat /\ MaxFileSize \in Nat
    BY <1>3, Assumed
  <2> HIDE DEF r
  <2>2. offset + r <= Most
    BY <1>3, <2>1 DEF Most
  <2> QED BY <2>2 DEF Bound, Most, r
<1>6. Divided'
  BY PartsStay
<1> QED
  BY <1>1, <1>2, <1>4, <1>5, <1>6

\* The raw buffer holds something at the first turn.
LEMMA FirstTurn ==
    ASSUME ReaderInv, first_turn
    PROVE  ReaderInv'
BY DecodingBegins DEF first_turn

\* update_raw_buffer has nothing to do.
LEMMA NothingToRead ==
    ASSUME ReaderInv, update_raw_buffer_noop
    PROVE  ReaderInv'
<1>1. CASE pc = "fill"
  BY <1>1, DecodingBegins DEF update_raw_buffer_noop, AfterRaw, NeedsOctets
<1>2. CASE pc # "fill"
  <2>1. UNCHANGED vars
    BY <1>2 DEF update_raw_buffer_noop, AfterRaw, vars
  <2>2. Types' /\ Stage' /\ Room' /\ Bound'
    <3>1. Types'
      BY ZenonT(60), <2>1 DEF vars, ReaderInv, Types, TypeOK
    <3>2. Stage'
      BY <2>1 DEF vars, ReaderInv, Stage
    <3>3. Room'
      BY <2>1 DEF vars, ReaderInv, Room
    <3>4. Bound'
      BY <2>1 DEF vars, ReaderInv, Bound, Most
    <3> QED BY <3>1, <3>2, <3>3, <3>4
  <2>3. Divided'
    BY <2>1, PartsStay DEF vars, ReaderInv
  <2> QED BY <2>2, <2>3 DEF ReaderInv
<1> QED
  BY <1>1, <1>2

\* The read handler fails.
LEMMA HandlerFails ==
    ASSUME ReaderInv, read_handler_fails
    PROVE  ReaderInv'
<1> USE DEF ReaderInv, read_handler_fails, set_reader_error, MoveRaw
<1>0. "input error" \notin DecodingProblems /\ error = "NONE"
  BY DEF DecodingProblems, Stage, NeedsOctets
<1>1. Types'
  BY DEF Types, TypeOK
<1>2. Stage'
  BY DEF Stage
<1>3. Room'
  <2>1. raw_passed \in Nat /\ Len(raw_buffer) \in Nat /\ RawSize \in Nat
    BY Pieces, Assumed DEF Types, TypeOK
  <2>2. raw_passed + Len(raw_buffer) <= RawSize /\ passed + Len(buffer) <= BufferSize
    BY DEF Room
  <2>3. 0 + Len(raw_buffer) <= RawSize
    <3> DEFINE r == Len(raw_buffer)
    <3>1. r \in Nat /\ raw_passed + r <= RawSize
      BY <2>1, <2>2
    <3> HIDE DEF r, read_handler_fails, ReaderInv
    <3>2. 0 + r <= RawSize
      BY <2>1, <3>1
    <3> QED BY <3>2 DEF r
  <2>4. raw_passed' = 0 /\ raw_buffer' = raw_buffer /\ UNCHANGED <<passed, buffer>> /\ pc' = "idle"
    OBVIOUS
  <2> QED BY <2>2, <2>3, <2>4 DEF Room
<1>4. Bound'
  BY DEF Bound, Most
<1>5. Divided'
  BY <1>0, PartsStay
<1> QED
  BY <1>1, <1>2, <1>3, <1>4, <1>5

\* The loop ends.
LEMMA Filled ==
    ASSUME ReaderInv, filled
    PROVE  ReaderInv'
<1> USE DEF ReaderInv, filled, set_reader_error
<1>0. "input is too long" \notin DecodingProblems /\ error = "NONE"
  BY DEF DecodingProblems, Stage
<1>1. Types'
  BY DEF Types, TypeOK
<1>2. Stage'
  BY DEF Stage
<1>3. Room'
  BY DEF Room
<1>4. Bound'
  <2>1. offset \in Nat /\ MaxFileSize \in Nat
    BY Assumed DEF Types, TypeOK
  <2>2. /\ pc' = "idle" /\ UNCHANGED <<offset, raw_buffer, eof, length, unread>>
        /\ error' = "NONE" => ~ offset >= MaxFileSize
    BY DEF TooLong
  <2>3. error' = "NONE" => offset' < MaxFileSize
    BY <2>1, <2>2
  <2>4. Most' = Most
    BY <2>2 DEF Most
  <2>5. (length # 0 => offset <= Most) /\ (length = 0 => offset = 0)
    BY DEF Bound
  <2>6. (length' # 0 => offset' <= Most') /\ (length' = 0 => offset' = 0)
    BY <2>2, <2>4, <2>5
  <2> QED BY <2>2, <2>3, <2>6 DEF Bound
<1>5. Divided'
  BY <1>0, PartsStay
<1> QED
  BY <1>1, <1>2, <1>3, <1>4, <1>5

-----------------------------------------------------------------------------
(* The read handler delivers octets.                                       *)

\* What it delivers is what comes next, and nothing only at the end.
LEMMA DeliveriesAre ==
    ASSUME ReaderInv, ~ RawIsFull, NEW n \in Deliveries
    PROVE  /\ n \in Nat /\ n <= Len(input.octets) - fed /\ n + Len(raw_buffer) <= RawSize
           /\ n = 0 => fed = Len(input.octets)
<1> DEFINE r == Len(raw_buffer)  m == Len(input.octets)
<1>1. r \in Nat /\ m \in Nat /\ fed \in 0 .. m /\ raw_passed \in Nat /\ RawSize \in Nat
  BY Pieces, Assumed DEF ReaderInv, Types, TypeOK
<1>2. raw_passed + r <= RawSize /\ ~ (raw_passed = 0 /\ r = RawSize)
  BY DEF ReaderInv, Room, RawIsFull
<1> DEFINE most == IF RawSize - r <= m - fed THEN RawSize - r ELSE m - fed
<1>3. n \in (IF most = 0 THEN {0} ELSE 1 .. most)
  BY DEF Deliveries
<1> HIDE DEF r, m
<1>4. r < RawSize
  BY <1>1, <1>2
<1>5. most \in Nat /\ most <= m - fed /\ most + r <= RawSize /\ (most = 0 => fed = m)
  BY <1>1, <1>4
<1> HIDE DEF most
<1>6. n \in Nat /\ n <= most /\ (n = 0 => most = 0)
  BY <1>3, <1>5
<1>7. n \in Nat /\ n <= m - fed /\ n + r <= RawSize /\ (n = 0 => fed = m)
  BY <1>1, <1>5, <1>6
<1> QED
  BY <1>7 DEF r, m

\* A read of n octets.
Receives(n) ==
    /\ raw_buffer' = raw_buffer \o SubSeq(input.octets, fed + 1, fed + n)
    /\ fed' = fed + n /\ input' = input
\* The octets in the raw buffer and those to come stay together the same.
LEMMA OctetsDelivered ==
    ASSUME ReaderInv, NEW n \in Nat, n <= Len(input.octets) - fed, Receives(n)
    PROVE  /\ raw_buffer' \o Unfed' = raw_buffer \o Unfed
           /\ raw_buffer' \in Seq(Octet) /\ Len(raw_buffer') = Len(raw_buffer) + n
<1> DEFINE s == input.octets  p == SubSeq(s, fed + 1, fed + n)  q == SubSeq(s, fed + n + 1, Len(s))
<1>1. /\ s \in Seq(Octet) /\ fed \in 0 .. Len(s) /\ n \in 0 .. (Len(s) - fed)
      /\ raw_buffer \in Seq(Octet)
  <2>1. s \in Seq(Octet) /\ raw_buffer \in Seq(Octet) /\ Len(s) \in Nat
    BY Pieces DEF ReaderInv
  <2>2. fed \in 0 .. Len(s)
    BY DEF ReaderInv, Types, TypeOK
  <2> QED BY <2>1, <2>2
<1>2. Unfed = SubSeq(s, fed + 1, Len(s)) /\ Unfed' = q
  BY DEF Unfed, Receives
<1>3. SubSeq(s, fed + 1, Len(s)) = p \o q /\ p \in Seq(Octet) /\ Len(p) = n /\ q \in Seq(Octet)
  <2> HIDE DEF s
  <2> QED BY ZenonT(60), <1>1, MiddleOf
<1>4. raw_buffer' = raw_buffer \o p
  BY DEF Receives
<1> HIDE DEF s, p, q
<1> DEFINE r == raw_buffer
<1>5. r \in Seq(Octet) /\ p \in Seq(Octet) /\ q \in Seq(Octet)
  BY <1>1, <1>3
<1> HIDE DEF r
<1>6. (r \o p) \o q = r \o (p \o q) /\ r \o p \in Seq(Octet) /\ Len(r \o p) = Len(r) + Len(p)
  BY SMTT(60), <1>5, ConcatAssociative, ConcatProperties
<1> QED
  BY <1>2, <1>3, <1>4, <1>6 DEF r

\* The raw buffer grows.
LEMMA RawGrows ==
    ASSUME ReaderInv, NEW n, update_raw_buffer(n)
    PROVE  ReaderInv'
<1>0. /\ NeedsOctets /\ ~ eof /\ n \in Deliveries /\ ~ RawIsFull
      /\ raw_buffer' = raw_buffer \o SubSeq(input.octets, fed + 1, fed + n)
      /\ raw_passed' = 0 /\ fed' = fed + n /\ eof' = (n = 0) /\ AfterRaw
      /\ UNCHANGED <<input, encoding, buffer, passed, unread, offset, error, length, scanned>>
  BY DEF update_raw_buffer, MoveRaw
<1>1. /\ n \in Nat /\ n <= Len(input.octets) - fed /\ n + Len(raw_buffer) <= RawSize
      /\ n = 0 => fed = Len(input.octets)
  BY <1>0, DeliveriesAre
<1>2. /\ raw_buffer' \o Unfed' = raw_buffer \o Unfed
      /\ raw_buffer' \in Seq(Octet) /\ Len(raw_buffer') = Len(raw_buffer) + n
  BY <1>0, <1>1, OctetsDelivered DEF Receives
<1>3. /\ error = "NONE" /\ pc # "idle" /\ length \in Lengths /\ passed = 0
      /\ \/ pc = "encoding" /\ pc' = "encoding" /\ encoding = ANY /\ first' = first
         \/ pc = "fill" /\ pc' = "decode" /\ encoding # ANY /\ unread < length /\ first' = FALSE
  BY <1>0 DEF ReaderInv, Stage, NeedsOctets, AfterRaw, Wanting
<1>4. /\ Len(raw_buffer) \in Nat /\ Len(buffer) \in Nat /\ Len(input.octets) \in Nat
      /\ fed \in Nat /\ offset \in Nat /\ unread \in Nat /\ length \in Nat \ {0}
      /\ RawSize \in Nat /\ BufferSize \in Nat /\ MaxFileSize \in Nat
      /\ 8 * (length - 1) + 3 * RawSize + 1 <= 2 * BufferSize
  <2>1. length \in Lengths
    BY <1>3
  <2>2. Len(raw_buffer) \in Nat /\ Len(buffer) \in Nat /\ Len(input.octets) \in Nat
    BY Pieces DEF ReaderInv
  <2>3. fed \in 0 .. Len(input.octets) /\ offset \in Nat /\ unread \in Nat
    BY DEF ReaderInv, Types, TypeOK
  <2>4. RawSize \in Nat /\ BufferSize = 3 * RawSize /\ MaxFileSize \in Nat
    BY Assumed
  <2>5. length \in Nat \ {0} /\ 8 * (length - 1) + 3 * RawSize + 1 <= 2 * BufferSize
    BY <2>1, Assumed
  <2> QED BY <2>2, <2>3, <2>4, <2>5
<1>5. Types'
  <2>1. fed' \in 0 .. Len(input.octets)
    BY <1>0, <1>1, <1>4
  <2>2. raw_buffer' \in Seq(0 .. 255)
    BY <1>2 DEF Octet
  <2>3. pc' \in {"idle", "encoding", "fill", "decode"} /\ first' \in BOOLEAN /\ eof' \in BOOLEAN
    BY <1>0, <1>3 DEF ReaderInv, Types, TypeOK
  <2>4. raw_passed' \in Nat
    BY <1>0
  <2> QED BY <1>0, <2>1, <2>2, <2>3, <2>4 DEF ReaderInv, Types, TypeOK
<1>6. Stage'
  <2>1. offset' + Len(raw_buffer') = fed'
    <3> DEFINE r == Len(raw_buffer)  q == Len(raw_buffer')
    <3>1. offset + r = fed /\ q = r + n /\ r \in Nat /\ fed' = fed + n /\ offset' = offset
      BY <1>0, <1>2, <1>4 DEF ReaderInv, Stage
    <3> HIDE DEF r, q
    <3>2. offset' + q = fed'
      BY <1>1, <1>4, <3>1
    <3> QED BY <3>2 DEF q
  <2>2. eof' => fed' = Len(input.octets)
    <3>1. n = 0 => fed + n = fed
      BY <1>4
    <3>2. eof' => n = 0
      BY Zenon, <1>0
    <3>3. fed' = fed + n
      BY <1>0
    <3> QED BY Zenon, <1>1, <3>1, <3>2, <3>3
  <2> QED BY <1>0, <1>3, <2>1, <2>2 DEF ReaderInv, Stage
<1> DEFINE l == Len(buffer)  r == Len(raw_buffer)  q == Len(raw_buffer')
<1>7. /\ l \in Nat /\ r \in Nat /\ q = r + n /\ q <= RawSize /\ q \in Nat
      /\ l <= 4 * unread /\ offset <= MaxFileSize + 2 + 4 * unread
  <2>1. Len(buffer) <= 4 * unread
    BY BufferIsShort DEF ReaderInv
  <2>2. offset <= MaxFileSize + 2 + 4 * unread
    BY <1>3 DEF ReaderInv, Bound
  <2>3. q = r + n /\ n + r <= RawSize /\ r \in Nat /\ l \in Nat
    BY <1>1, <1>2, <1>4
  <2> HIDE DEF q, r
  <2>4. q <= RawSize /\ q \in Nat
    BY <1>1, <1>4, <2>3
  <2> QED BY <2>1, <2>2, <2>3, <2>4
<1> HIDE DEF l, r, q
<1>8. Room'
  <2>1. pc' = "decode" => 2 * l + 3 * q + 1 <= 2 * BufferSize
    <3> SUFFICES ASSUME pc' = "decode" PROVE 2 * l + 3 * q + 1 <= 2 * BufferSize
      OBVIOUS
    <3>1. unread <= length - 1
      BY <1>3, <1>4
    <3> QED BY <1>4, <1>7, <3>1
  <2>2. 0 + q <= RawSize
    BY <1>4, <1>7
  <2>3. passed + Len(buffer) <= BufferSize
    BY DEF ReaderInv, Room
  <2> QED BY <1>0, <2>1, <2>2, <2>3 DEF Room, l, q
<1>9. Bound'
  <2>1. Most' = Most
    BY <1>0 DEF Most
  <2>2. pc' = "decode" => offset + q <= Most
    <3> SUFFICES ASSUME pc' = "decode" PROVE offset + q <= Most
      OBVIOUS
    <3>1. unread <= length - 1
      BY <1>3, <1>4
    <3> QED BY <1>4, <1>7, <3>1 DEF Most
  <2>3. pc' = "decode" => offset' + Len(raw_buffer') <= Most'
    BY <1>0, <2>1, <2>2 DEF q
  <2>4. (length' # 0 => offset' <= Most') /\ (length' = 0 => offset' = 0)
    BY <1>0, <2>1 DEF ReaderInv, Bound
  <2>5. offset' <= MaxFileSize + 2 + 4 * unread'
    BY <1>0, <1>7
  <2> QED BY <1>3, <2>3, <2>4, <2>5 DEF Bound
<1>10. Divided'
  <2>1. PICK a \in Seq(Chars), b \in Seq(Chars), rest \in Seq(Chars), last \in Lasts : Parts(a, b, rest, last)
    BY DEF ReaderInv, Divided
  <2>2. Same(raw_buffer, Unfed, Mark, Text(rest, input.enc) \o input.junk)'
    <3>1. Mark' = Mark
      BY <1>0 DEF Mark
    <3>2. Same(raw_buffer, Unfed, Mark, Text(rest, input.enc) \o input.junk)
      BY <2>1 DEF Parts
    <3> QED BY <1>0, <1>2, <3>1, <3>2 DEF Same
  <2>3. last # <<0>>
    BY <1>0, <2>1 DEF Parts
  <2>4. Parts(a, b, rest, last)'
    BY <1>0, <2>1, <2>2, <2>3 DEF Parts
  <2> QED BY <2>4 DEF Divided
<1> QED
  BY <1>5, <1>6, <1>8, <1>9, <1>10 DEF ReaderInv

-----------------------------------------------------------------------------
(* The encoding is determined.                                             *)

\* IsPrefix, element by element.
LEMMA PrefixIs ==
    ASSUME NEW s \in Seq(Octet), NEW t \in Seq(Octet)
    PROVE  IsPrefix(s, t) <=> Starts(t, s)
<1> DEFINE n == Len(s)
<1>1. n \in Nat /\ Len(t) \in Nat
  OBVIOUS
<1>2. CASE n <= Len(t)
  <2> DEFINE x == SubSeq(s, 1, n)  y == SubSeq(t, 1, n)
  <2>1. n \in 0 .. Len(s) /\ n \in 0 .. Len(t)
    BY <1>1, <1>2
  <2>2. x \in Seq(Octet) /\ Len(x) = n /\ \A k \in 1 .. n : x[k] = s[k]
    BY <1>1
  <2>3. y \in Seq(Octet) /\ Len(y) = n /\ \A k \in 1 .. n : y[k] = t[k]
    <3> HIDE DEF n
    <3>1. \A k \in 1 .. n : t[k] \in Octet
      BY <1>1, <1>2, LenProperties
    <3> QED BY <1>1, <1>2, <3>1
  <2>4. IsPrefix(s, t) <=> x = y
    BY <1>2 DEF IsPrefix
  <2>5. Starts(t, s) <=> \A k \in 1 .. n : t[k] = s[k]
    BY <1>2 DEF Starts
  <2> HIDE DEF x, y, n
  <2>6. x = y <=> \A k \in 1 .. n : t[k] = s[k]
    <3>1. ASSUME \A k \in 1 .. n : t[k] = s[k] PROVE x = y
      <4>1. \A k \in 1 .. n : x[k] = y[k]
        BY <2>2, <2>3, <3>1
      <4> QED BY <2>2, <2>3, <4>1, SeqEqual
    <3>2. ASSUME x = y PROVE \A k \in 1 .. n : t[k] = s[k]
      BY <2>2, <2>3, <3>2
    <3> QED BY <3>1, <3>2
  <2> QED BY <2>4, <2>5, <2>6
<1>3. CASE ~ n <= Len(t)
  BY <1>3 DEF IsPrefix, Starts
<1> QED
  BY <1>2, <1>3

\* A piece of octets has one mark at most.
LEMMA OneMark ==
    ASSUME NEW raw \in Seq(Octet), NEW e \in Encodings3, NEW f \in Encodings3,
           Starts(raw, MarkOf(e)), Starts(raw, MarkOf(f))
    PROVE  e = f
<1>1. MarkOf(UTF8)[1] = 239 /\ MarkOf(UTF16LE)[1] = 255 /\ MarkOf(UTF16BE)[1] = 254
  BY EncodingsAssumption DEF MarkOf
<1>2. ASSUME NEW d \in Encodings3, Starts(raw, MarkOf(d)) PROVE raw[1] = MarkOf(d)[1]
  <2>1. Len(MarkOf(d)) \in 2 .. 3
    BY BomIs
  <2> QED BY <1>2, <2>1 DEF Starts
<1>3. MarkOf(e)[1] = MarkOf(f)[1]
  BY <1>2
<1>4. e \in {UTF8, UTF16LE, UTF16BE} /\ f \in {UTF8, UTF16LE, UTF16BE}
  BY DEF Encodings3
<1> QED
  BY SMTT(30), <1>1, <1>3, <1>4

\* Before that, nothing has been decoded.
LEMMA NothingDecoded ==
    ASSUME Types, Stage, Divided, encoding = ANY
    PROVE  /\ Parts(<<>>, <<>>, input.chars, <<>>)
           /\ raw_buffer \o Unfed = input.octets
<1>1. PICK a \in Seq(Chars), b \in Seq(Chars), rest \in Seq(Chars), last \in Lasts : Parts(a, b, rest, last)
  BY DEF Divided
<1>2. Text(a, UTF8) = <<>> /\ unread = 0 /\ unread = Len(b) + Len(last) /\ last # <<0>>
  BY <1>1 DEF Parts, Stage
<1>3. last = <<>>
  BY <1>2 DEF Lasts
<1>4. Len(b) = 0 /\ b = <<>>
  <2>1. Len(last) = 0
    BY <1>3
  <2>2. Len(b) \in Nat
    OBVIOUS
  <2>3. Len(b) = 0
    BY <1>2, <2>1, <2>2
  <2> QED BY <2>3, EmptySeq
<1>5. a = <<>>
  <2>1. Count(<<>>, Leads) = Len(a)
    BY <1>2, TextCount
  <2>2. Count(<<>>, Leads) = 0
    BY FS_EmptySet DEF Count
  <2> QED BY <2>1, <2>2, EmptySeq
<1>6. rest = input.chars
  <2>1. input.chars = (<<>> \o <<>>) \o rest
    BY <1>1, <1>4, <1>5 DEF Parts
  <2>2. (<<>> \o <<>>) \o rest = rest
    OBVIOUS
  <2> QED BY <2>1, <2>2
<1>7. Parts(<<>>, <<>>, input.chars, <<>>)
  BY Zenon, <1>1, <1>3, <1>4, <1>5, <1>6
<1>8. raw_buffer \o Unfed = input.octets
  <2>1. Same(raw_buffer, Unfed, Mark, Text(input.chars, input.enc) \o input.junk)
    BY <1>7 DEF Parts
  <2>2. input.octets = (IF input.marked THEN Bom(input.enc) ELSE <<>>) \o (Text(input.chars, input.enc) \o input.junk)
    BY Pieces DEF Given
  <2>3. Mark = (IF input.marked THEN Bom(input.enc) ELSE <<>>)
    BY DEF Mark
  <2> QED BY Zenon, <2>1, <2>2, <2>3 DEF Same
<1> QED
  BY <1>7, <1>8

\* The marks that are found.
Marked == {e \in {UTF16LE, UTF16BE, UTF8} : IsPrefix(MarkOf(e), raw_buffer)}

\* A mark is found if the input has one, whole, and behind it is the text.
LEMMA MarkFound ==
    ASSUME Types, Stage, Divided, encoding = ANY, EnoughForMark, input.marked
    PROVE  /\ Marked = {input.enc} /\ Len(MarkOf(input.enc)) \in 2 .. 3
           /\ Len(MarkOf(input.enc)) <= Len(raw_buffer)
           /\ SubSeq(raw_buffer, Len(MarkOf(input.enc)) + 1, Len(raw_buffer)) \o Unfed
                = Text(input.chars, input.enc) \o input.junk
<1> DEFINE m == MarkOf(input.enc)  v == Text(input.chars, input.enc) \o input.junk
<1>1. /\ input.enc \in Encodings3 /\ m = Bom(input.enc) /\ m \in Seq(Octet) /\ Len(m) \in 2 .. 3
      /\ raw_buffer \in Seq(Octet) /\ Unfed \in Seq(Octet)
  BY Pieces, BomIs
<1>2. v \in Seq(Octet)
  <2>1. input.chars \in Seq(Chars) /\ input.junk \in Seq(Octet)
    BY Pieces DEF Given
  <2>2. Text(input.chars, input.enc) \in Seq(Octet)
    BY <1>1, <2>1, TextIs
  <2> QED BY <2>1, <2>2, ConcatProperties
<1>3. Same(raw_buffer, Unfed, m, v)
  <2>1. Same(raw_buffer, Unfed, Mark, v)
    BY NothingDecoded DEF Parts
  <2>2. Mark = m
    BY <1>1 DEF Mark
  <2> QED BY <2>1, <2>2
<1> HIDE DEF m, v
<1>4. Len(m) <= Len(raw_buffer)
  <2>1. CASE eof
    <3>1. Len(Unfed) = Len(input.octets) - fed /\ fed = Len(input.octets) /\ Len(input.octets) \in Nat
      BY <2>1, Pieces DEF Stage
    <3>2. Len(Unfed) = 0
      BY <3>1
    <3>3. Unfed = <<>>
      BY <1>1, <3>2, EmptySeq
    <3> QED BY <1>1, <1>2, <1>3, <3>3, TakeOff
  <2>2. CASE Len(raw_buffer) >= 3
    <3> DEFINE r == Len(raw_buffer)  n == Len(m)
    <3>1. r \in Nat /\ n \in 2 .. 3 /\ r >= 3
      BY <1>1, <2>2
    <3> HIDE DEF r, n
    <3>2. n <= r
      BY <3>1
    <3> QED BY <3>2 DEF r, n
  <2> QED BY <2>1, <2>2 DEF EnoughForMark
<1>5. Starts(raw_buffer, m) /\ SubSeq(raw_buffer, Len(m) + 1, Len(raw_buffer)) \o Unfed = v
  BY <1>1, <1>2, <1>3, <1>4, TakeOff
<1>6. Marked = {input.enc}
  <2>1. \A e \in Encodings3 : IsPrefix(MarkOf(e), raw_buffer) <=> Starts(raw_buffer, MarkOf(e))
    BY <1>1, BomIs, PrefixIs
  <2>2. \A e \in Encodings3 : IsPrefix(MarkOf(e), raw_buffer) <=> e = input.enc
    BY <1>1, <1>5, <2>1, OneMark DEF m
  <2> QED BY <1>1, <2>2 DEF Marked, Encodings3
<1> QED
  BY <1>1, <1>4, <1>5, <1>6 DEF m, v

\* None is found if it has none.
LEMMA NoMarkFound ==
    ASSUME Types, Stage, Divided, encoding = ANY, ~ input.marked
    PROVE  Marked = {} /\ input.enc = UTF8
<1>1. input.enc = UTF8 /\ \A e \in Encodings3 : ~ IsPrefix(Bom(e), input.octets)
  <2>1. input.set = ANY
    BY DEF Stage
  <2> QED BY <2>1, Pieces DEF Given
<1>2. ASSUME NEW e \in Encodings3, IsPrefix(MarkOf(e), raw_buffer) PROVE FALSE
  <2> DEFINE m == MarkOf(e)
  <2>1. m = Bom(e) /\ m \in Seq(Octet) /\ raw_buffer \in Seq(Octet) /\ Unfed \in Seq(Octet)
    BY BomIs, Pieces
  <2>2. Starts(raw_buffer, m)
    BY <1>2, <2>1, PrefixIs
  <2>3. /\ Len(raw_buffer \o Unfed) = Len(raw_buffer) + Len(Unfed)
        /\ \A i \in 1 .. Len(raw_buffer) : (raw_buffer \o Unfed)[i] = raw_buffer[i]
    BY <2>1, FrontOfConcat
  <2>4. raw_buffer \o Unfed \in Seq(Octet)
    BY <2>1, ConcatProperties
  <2>5. Len(m) \in Nat /\ Len(raw_buffer) \in Nat /\ Len(Unfed) \in Nat
    BY <2>1
  <2>6. Starts(raw_buffer \o Unfed, m)
    <3> DEFINE u == raw_buffer \o Unfed
    <3>1. Len(m) <= Len(raw_buffer) /\ \A k \in 1 .. Len(m) : raw_buffer[k] = m[k]
      BY <2>2 DEF Starts
    <3>2. Len(u) = Len(raw_buffer) + Len(Unfed) /\ \A i \in 1 .. Len(raw_buffer) : u[i] = raw_buffer[i]
      BY <2>3
    <3> HIDE DEF u, m
    <3>3. Len(m) <= Len(u) /\ \A k \in 1 .. Len(m) : u[k] = m[k]
      BY <2>5, <3>1, <3>2
    <3> QED BY <3>3 DEF Starts, u
  <2>7. IsPrefix(m, input.octets)
    BY <2>1, <2>4, <2>6, PrefixIs, NothingDecoded
  <2> QED BY <1>1, <2>1, <2>7
<1> QED
  BY <1>1, <1>2 DEF Marked, Encodings3


\* How many octets determine_encoding moves past.
Skipped == IF Marked = {} THEN 0 ELSE Len(MarkOf(CHOOSE e \in Marked : TRUE))
\* It finds the encoding and moves past its mark, and the text follows.
LEMMA MarkSkipped ==
    ASSUME Types, Stage, Divided, encoding = ANY, EnoughForMark
    PROVE  /\ Skipped \in 0 .. 3 /\ Skipped <= Len(raw_buffer)
           /\ (IF Marked = {} THEN UTF8 ELSE CHOOSE e \in Marked : TRUE) = input.enc
           /\ SubSeq(raw_buffer, Skipped + 1, Len(raw_buffer)) \o Unfed
                = Text(input.chars, input.enc) \o input.junk
<1>1. CASE input.marked
  <2>1. Marked # {} /\ (CHOOSE e \in Marked : TRUE) = input.enc
    BY <1>1, MarkFound
  <2>2. Skipped = Len(MarkOf(input.enc))
    BY <2>1 DEF Skipped
  <2>3. Skipped \in 0 .. 3
    BY <1>1, <2>2, MarkFound
  <2> QED BY Zenon, <1>1, <2>1, <2>2, <2>3, MarkFound
<1>2. CASE ~ input.marked
  <2>1. Marked = {} /\ input.enc = UTF8 /\ Skipped = 0
    BY <1>2, NoMarkFound DEF Skipped
  <2>2. raw_buffer \in Seq(Octet) /\ Len(raw_buffer) \in Nat
    BY Pieces
  <2>3. SubSeq(raw_buffer, 1, Len(raw_buffer)) = raw_buffer
    BY <2>2, CutInTwo, FrontOfConcat
  <2>4. Same(raw_buffer, Unfed, Mark, Text(input.chars, input.enc) \o input.junk)
    BY NothingDecoded DEF Parts
  <2>5. Mark = <<>>
    BY <1>2 DEF Mark
  <2>6. Text(input.chars, input.enc) \o input.junk \in Seq(Octet)
    <3>1. input.chars \in Seq(Chars) /\ input.junk \in Seq(Octet) /\ input.enc \in Encodings3
      BY Pieces DEF Given
    <3>2. Text(input.chars, input.enc) \in Seq(Octet)
      BY <3>1, TextIs
    <3> QED BY <3>1, <3>2, ConcatProperties
  <2> DEFINE v == Text(input.chars, input.enc) \o input.junk
  <2>7. <<>> \o v = v
    <3>1. v \in Seq(Octet)
      BY <2>6
    <3> HIDE DEF v
    <3> QED BY <3>1
  <2>8. raw_buffer \o Unfed = v
    BY Zenon, <2>4, <2>5, <2>7 DEF Same
  <2>9. 0 + 1 = 1 /\ 0 \in 0 .. 3 /\ 0 <= Len(raw_buffer)
    BY <2>2
  <2> QED BY Zenon, <2>1, <2>3, <2>8, <2>9
<1> QED
  BY <1>1, <1>2

\* The mark goes, and decoding can begin.
LEMMA EncodingFound ==
    ASSUME ReaderInv, determine_encoding
    PROVE  ReaderInv'
<1>0. /\ pc = "encoding" /\ EnoughForMark
      /\ encoding' = (IF Marked = {} THEN UTF8 ELSE CHOOSE e \in Marked : TRUE)
      /\ raw_buffer' = SubSeq(raw_buffer, Skipped + 1, Len(raw_buffer))
      /\ raw_passed' = raw_passed + Skipped /\ offset' = offset + Skipped
      /\ passed' = 0 /\ pc' = "fill"
      /\ UNCHANGED <<input, fed, eof, buffer, unread, error, length, first, scanned>>
  BY DEF determine_encoding, Marked, Skipped, MoveBuffer
<1>1. /\ encoding = ANY /\ error = "NONE" /\ length \in Lengths /\ offset = 0 /\ raw_passed = 0
      /\ passed = 0 /\ buffer = <<>> /\ unread = 0 /\ scanned = <<>>
  BY <1>0 DEF ReaderInv, Stage
<1>2. /\ Skipped \in 0 .. 3 /\ Skipped <= Len(raw_buffer) /\ encoding' = input.enc
      /\ raw_buffer' \o Unfed = Text(input.chars, input.enc) \o input.junk
  BY <1>0, <1>1, MarkSkipped DEF ReaderInv
<1>3. /\ raw_buffer' \in Seq(Octet) /\ Len(raw_buffer') = Len(raw_buffer) - Skipped
      /\ Len(raw_buffer) \in Nat
  <2>1. raw_buffer \in Seq(Octet) /\ Len(raw_buffer) \in Nat
    BY Pieces DEF ReaderInv
  <2>2. Skipped \in 0 .. Len(raw_buffer)
    BY <1>2, <2>1
  <2> QED BY <1>0, <2>1, <2>2, CutInTwo
<1>4. input.enc \in Encodings3 /\ input.enc # ANY
  BY Pieces, EncodingsAssumption DEF ReaderInv, Encodings3
<1>5. Types'
  <2>1. raw_buffer' \in Seq(0 .. 255) /\ raw_passed' \in Nat /\ offset' \in Nat
    BY <1>0, <1>1, <1>2, <1>3 DEF Octet
  <2>2. encoding' \in {ANY, UTF8, UTF16LE, UTF16BE}
    BY <1>2, <1>4 DEF Encodings3
  <2> QED BY <1>0, <2>1, <2>2 DEF ReaderInv, Types, TypeOK
<1> DEFINE r == Len(raw_buffer)  q == Len(raw_buffer')
<1>6. r \in Nat /\ q = r - Skipped /\ Skipped \in 0 .. 3 /\ Skipped <= r
  BY <1>2, <1>3
<1>7. 0 + r = fed /\ 0 + r <= RawSize /\ RawSize \in Nat
  BY <1>1, Assumed DEF ReaderInv, Stage, Room
<1> HIDE DEF r, q
<1>8. Stage'
  <2>1. offset' + q = fed
    BY <1>0, <1>1, <1>6, <1>7
  <2> QED BY <1>0, <1>1, <1>2, <1>4, <2>1 DEF ReaderInv, Stage, q
<1>9. Room'
  <2>1. raw_passed' + q <= RawSize
    BY <1>0, <1>1, <1>6, <1>7
  <2> QED BY <1>0, <1>1, <2>1 DEF ReaderInv, Room, q
<1>10. Bound'
  <2>1. length \in Nat \ {0} /\ MaxFileSize \in Nat \ {0} /\ RawSize \in Nat
    BY <1>1, Assumed
  <2>2. offset' \in 0 .. 3
    BY <1>0, <1>1, <1>6
  <2>3. offset' <= MaxFileSize + 2 + 4 * 0 /\ offset' <= MaxFileSize + 2 + 4 * (length - 1) + RawSize
    BY <2>1, <2>2
  <2> QED BY <1>0, <1>1, <2>1, <2>3 DEF Bound, Most
<1>11. Divided'
  <2>1. Parts(<<>>, <<>>, input.chars, <<>>)
    BY <1>1, NothingDecoded DEF ReaderInv
  <2>2. Same(raw_buffer, Unfed, Mark, Text(input.chars, input.enc) \o input.junk)'
    <3> DEFINE v == Text(input.chars, input.enc) \o input.junk
    <3>1. Mark' = <<>> /\ Unfed' = Unfed /\ v' = v
      BY <1>0, <1>2, <1>4 DEF Mark, Unfed
    <3>2. v \in Seq(Octet)
      <4>1. input.chars \in Seq(Chars) /\ input.junk \in Seq(Octet) /\ input.enc \in Encodings3
        BY Pieces DEF ReaderInv, Given
      <4>2. Text(input.chars, input.enc) \in Seq(Octet)
        BY <4>1, TextIs
      <4> QED BY <4>1, <4>2, ConcatProperties
    <3>3. raw_buffer' \o Unfed = v
      BY <1>2
    <3> HIDE DEF v
    <3>4. <<>> \o v = v
      BY <3>2
    <3>5. Same(raw_buffer', Unfed', Mark', v')
      BY Zenon, <3>1, <3>3, <3>4 DEF Same
    <3> QED BY <3>5 DEF v, Same
  <2>3. error \notin DecodingProblems
    BY <1>1 DEF DecodingProblems
  <2>4. Parts(<<>>, <<>>, input.chars, <<>>)'
    BY <1>0, <2>1, <2>2, <2>3 DEF Parts
  <2>5. input.chars \in Seq(Chars) /\ <<>> \in Seq(Chars) /\ <<>> \in Lasts /\ input' = input
    BY <1>0, Pieces DEF ReaderInv, Given, Lasts
  <2> QED BY <2>4, <2>5 DEF Divided
<1> QED
  BY <1>5, <1>8, <1>9, <1>10, <1>11 DEF ReaderInv

-----------------------------------------------------------------------------
(* The raw buffer is decoded.                                              *)

\* What lies ahead of a decoder.
LEMMA AtDecoding ==
    ASSUME ReaderInv, pc = "decode",
           NEW a \in Seq(Chars), NEW b \in Seq(Chars), NEW rest \in Seq(Chars), NEW last \in Lasts,
           Parts(a, b, rest, last)
    PROVE  /\ last = <<>> /\ encoding = input.enc /\ encoding # ANY /\ Mark = <<>>
           /\ Text(rest, encoding) \in Seq(Octet)
           /\ raw_buffer \o Unfed = Text(rest, encoding) \o input.junk
           /\ raw_buffer # <<>> /\ rest = <<>> =>
                input.junk # <<>> /\ Decode(raw_buffer).problem # "NONE"
           /\ raw_buffer # <<>> /\ rest # <<>> => Ahead(raw_buffer, Unfed, rest, input.junk)
<1>1. encoding = input.enc /\ encoding # ANY /\ Mark = <<>>
  BY DEF ReaderInv, Stage, Mark
<1>2. last = <<>>
  BY DEF Parts, Lasts
<1>3. /\ raw_buffer \in Seq(Octet) /\ Unfed \in Seq(Octet) /\ input.junk \in Seq(Octet)
      /\ encoding \in Encodings3 /\ IsBroken(input.junk, encoding)
  BY <1>1, Pieces DEF ReaderInv, Given
<1>4. Text(rest, encoding) \in Seq(Octet)
  BY <1>3, TextIs
<1> DEFINE v == Text(rest, encoding) \o input.junk
<1>5. v \in Seq(Octet)
  BY <1>3, <1>4, ConcatProperties
<1>6. raw_buffer \o Unfed = v
  <2>1. Same(raw_buffer, Unfed, <<>>, v)
    BY <1>1 DEF Parts
  <2> HIDE DEF v
  <2>2. <<>> \o v = v
    BY <1>5
  <2> QED BY Zenon, <2>1, <2>2 DEF Same
<1>7. Same(raw_buffer, Unfed, Text(rest, encoding), input.junk)
  BY <1>6 DEF Same
<1>8. ASSUME raw_buffer # <<>>, rest = <<>>
      PROVE  input.junk # <<>> /\ Decode(raw_buffer).problem # "NONE"
  <2>1. v = input.junk
    <3>1. Text(rest, encoding) = <<>>
      BY <1>3, <1>8, TextIs
    <3> QED BY <1>3, <3>1
  <2>2. Makes(raw_buffer, Unfed, input.junk)
    BY <1>6, <2>1 DEF Makes
  <2>3. Decode(raw_buffer).problem # "NONE"
    BY <1>3, <1>8, <2>2, JunkIsRefused
  <2>4. input.junk # <<>>
    BY <1>3, <1>8, <2>2, NothingIn DEF Makes
  <2> QED BY <2>3, <2>4
<1>9. ASSUME raw_buffer # <<>>, rest # <<>> PROVE Ahead(raw_buffer, Unfed, rest, input.junk)
  BY <1>3, <1>7, <1>9, CharAhead
<1> QED
  BY <1>1, <1>2, <1>4, <1>6, <1>8, <1>9

\* At the end of the input nothing is to come.
LEMMA NothingToCome ==
    ASSUME ReaderInv, eof
    PROVE  Unfed = <<>>
<1>1. /\ Len(Unfed) = Len(input.octets) - fed /\ Unfed \in Seq(Octet)
      /\ fed = Len(input.octets) /\ Len(input.octets) \in Nat
  BY Pieces DEF ReaderInv, Stage
<1>2. Len(Unfed) = 0
  BY <1>1
<1> QED
  BY <1>1, <1>2, EmptySeq

\* What moves from the raw buffer to the buffer.
Moves(a, b, rest) ==
    LET c == Head(rest)  w == Form(c, encoding) IN
    /\ Parts(a, b, rest, <<>>) /\ rest # <<>> /\ c \in Chars
    /\ w \in Seq(Octet) /\ Len(w) \in 1 .. 4 /\ Len(w) <= Len(raw_buffer)
    /\ Decode(raw_buffer) = Decoded(c, Len(w))
    /\ SubSeq(raw_buffer, Len(w) + 1, Len(raw_buffer)) \o Unfed
         = Text(Tail(rest), encoding) \o input.junk
    /\ Put(c) = Form(c, UTF8) /\ Form(c, UTF8) \in Seq(Octet) /\ Len(Form(c, UTF8)) \in 1 .. 4
    /\ 2 * Len(Form(c, UTF8)) <= 3 * Len(w)

\* A character that is decoded is the next one of the text.
LEMMA NextDecoded ==
    ASSUME ReaderInv, pc = "decode", raw_buffer # <<>>, Decode(raw_buffer).problem = "NONE"
    PROVE  \E a, b, rest \in Seq(Chars) : Moves(a, b, rest)
<1>1. PICK a \in Seq(Chars), b \in Seq(Chars), rest \in Seq(Chars), last \in Lasts : Parts(a, b, rest, last)
  BY DEF ReaderInv, Divided
<1>2. /\ last = <<>> /\ rest # <<>> /\ Ahead(raw_buffer, Unfed, rest, input.junk)
      /\ encoding = input.enc
  BY <1>1, AtDecoding
<1> DEFINE c == Head(rest)  w == Form(c, encoding)
<1>3. encoding \in Encodings3 /\ UTF8 \in Encodings3
  BY <1>2, Pieces DEF ReaderInv
<1>4. /\ Len(w) <= Len(raw_buffer) /\ Decode(raw_buffer) = Decoded(c, Len(w))
      /\ SubSeq(raw_buffer, Len(w) + 1, Len(raw_buffer)) \o Unfed
           = Text(Tail(rest), encoding) \o input.junk
  BY <1>2 DEF Ahead
<1>5. c \in Chars /\ w \in Seq(Octet) /\ Len(w) \in 1 .. 4
  BY <1>2, <1>3, TextHead
<1>6. InRange(c)
  BY <1>5, CharRange
<1>7. Put(c) = Form(c, UTF8)
  BY <1>6, Utf8Octets DEF Form
<1>8. Form(c, UTF8) \in Seq(Octet) /\ Len(Form(c, UTF8)) \in 1 .. 4
  BY <1>3, <1>6, FormIs
<1>9. 2 * Len(Form(c, UTF8)) <= 3 * Len(w)
  BY <1>3, <1>5, ThreeForTwo
<1>10. Parts(a, b, rest, <<>>)
  BY <1>1, <1>2
<1>11. Moves(a, b, rest)
  BY Zenon, <1>2, <1>4, <1>5, <1>7, <1>8, <1>9, <1>10 DEF Moves
<1> QED
  BY <1>11

\* The text moves on by a character.
LEMMA TextMoves ==
    ASSUME NEW a \in Seq(Chars), NEW b \in Seq(Chars), NEW rest \in Seq(Chars), rest # <<>>
    PROVE  LET c == Head(rest) IN
           /\ (a \o b) \o rest = (a \o (b \o <<c>>)) \o Tail(rest)
           /\ b \o <<c>> \in Seq(Chars) /\ Tail(rest) \in Seq(Chars)
           /\ Text(b \o <<c>>, UTF8) = Text(b, UTF8) \o Form(c, UTF8)
           /\ Len(b \o <<c>>) = Len(b) + 1
<1> DEFINE c == Head(rest)  s == <<c>>  t == Tail(rest)
<1>1. c \in Chars /\ t \in Seq(Chars) /\ rest = s \o t
  BY HeadAndTail
<1>2. s \in Seq(Chars) /\ Len(s) = 1
  BY <1>1
<1>3. Text(b \o s, UTF8) = Text(b, UTF8) \o Text(s, UTF8) /\ Text(s, UTF8) = Form(c, UTF8)
  BY <1>1, <1>2, TextIs DEF Encodings3
<1> HIDE DEF c, s, t
<1>4. (a \o b) \o (s \o t) = (a \o (b \o s)) \o t
  <2>1. t \in Seq(Chars)
    BY <1>1
  <2>2. s \in Seq(Chars)
    BY <1>2
  <2> DEFINE u == a \o b
  <2>3. u \in Seq(Chars)
    BY ConcatProperties
  <2>4. u \o s = a \o (b \o s)
    BY SMTT(60), <2>2, ConcatAssociative
  <2> HIDE DEF u
  <2>5. (u \o s) \o t = u \o (s \o t)
    BY SMTT(60), <2>1, <2>2, <2>3, ConcatAssociative
  <2> QED BY Zenon, <2>4, <2>5 DEF u
<1>6. b \o s \in Seq(Chars) /\ Len(b \o s) = Len(b) + 1
  <2>1. b \o s \in Seq(Chars) /\ Len(b \o s) = Len(b) + Len(s)
    BY <1>2, ConcatProperties
  <2> QED BY <1>2, <2>1
<1> QED
  BY <1>1, <1>3, <1>4, <1>6 DEF c, s, t


\* The next character is decoded.
LEMMA CharacterDecoded ==
    ASSUME ReaderInv, decode_character
    PROVE  ReaderInv'
<1>0. pc = "decode" /\ raw_buffer # <<>> /\ Decode(raw_buffer).problem = "NONE"
  BY DEF decode_character
<1>1. PICK a \in Seq(Chars), b \in Seq(Chars), rest \in Seq(Chars) : Moves(a, b, rest)
  BY <1>0, NextDecoded
<1> DEFINE c == Head(rest)  w == Form(c, encoding)  p == Form(c, UTF8)  d == Decode(raw_buffer)
<1>2. /\ Parts(a, b, rest, <<>>) /\ rest # <<>> /\ c \in Chars
      /\ w \in Seq(Octet) /\ Len(w) \in 1 .. 4 /\ Len(w) <= Len(raw_buffer)
      /\ d = Decoded(c, Len(w))
      /\ SubSeq(raw_buffer, Len(w) + 1, Len(raw_buffer)) \o Unfed
           = Text(Tail(rest), encoding) \o input.junk
      /\ Put(c) = p /\ p \in Seq(Octet) /\ Len(p) \in 1 .. 4
      /\ 2 * Len(p) <= 3 * Len(w)
  BY Zenon, <1>1 DEF Moves
<1>3. d.value = c /\ d.width = Len(w)
  <2> HIDE DEF w, d, c
  <2> QED BY <1>2 DEF Decoded
<1> HIDE DEF c, w, p
<1>4. /\ raw_buffer' = SubSeq(raw_buffer, Len(w) + 1, Len(raw_buffer))
      /\ raw_passed' = raw_passed + Len(w) /\ offset' = offset + Len(w)
      /\ buffer' = buffer \o p /\ unread' = unread + 1
      /\ UNCHANGED <<input, fed, eof, encoding, passed, error, pc, length, first, scanned>>
  BY Zenon, <1>2, <1>3 DEF decode_character
<1> HIDE DEF d
<1>5. /\ raw_buffer \in Seq(Octet) /\ buffer \in Seq(Octet) /\ input.enc \in Encodings3
      /\ Len(raw_buffer) \in Nat /\ Len(buffer) \in Nat
  BY Pieces DEF ReaderInv
<1>6. /\ error = "NONE" /\ passed = 0 /\ length \in Lengths /\ encoding = input.enc /\ encoding # ANY
      /\ fed \in Nat /\ offset \in Nat /\ raw_passed \in Nat /\ unread \in Nat
  <2>1. fed \in 0 .. Len(input.octets) /\ offset \in Nat /\ raw_passed \in Nat /\ unread \in Nat
    BY DEF ReaderInv, Types, TypeOK
  <2> QED BY <1>0, <2>1 DEF ReaderInv, Stage
<1>7. raw_buffer' \in Seq(Octet) /\ Len(raw_buffer') = Len(raw_buffer) - Len(w)
  <2>1. Len(w) \in 0 .. Len(raw_buffer)
    BY <1>2, <1>5
  <2> QED BY <1>4, <1>5, <2>1, CutInTwo
<1>8. buffer' \in Seq(Octet) /\ Len(buffer') = Len(buffer) + Len(p)
  BY <1>2, <1>4, <1>5, ConcatProperties
<1> DEFINE r == Len(raw_buffer)  q == Len(raw_buffer')  n == Len(w)  m == Len(p)
           l == Len(buffer)  k == Len(buffer')
<1>9. /\ r \in Nat /\ n \in 1 .. 4 /\ n <= r /\ q = r - n /\ m \in 1 .. 4 /\ l \in Nat
      /\ k = l + m /\ 2 * m <= 3 * n
      /\ raw_passed' = raw_passed + n /\ offset' = offset + n
  BY <1>2, <1>4, <1>5, <1>7, <1>8
<1>10. /\ offset + r = fed /\ raw_passed + r <= RawSize /\ 2 * l + 3 * r + 1 <= 2 * BufferSize
       /\ offset <= MaxFileSize + 2 + 4 * unread /\ offset + r <= Most
  BY <1>0 DEF ReaderInv, Stage, Room, Bound
<1>11. RawSize \in Nat /\ BufferSize \in Nat /\ MaxFileSize \in Nat /\ length \in Nat \ {0}
  BY <1>6, Assumed
<1> HIDE DEF r, q, n, m, l, k
<1>12. Types'
  <2>1. raw_passed' \in Nat /\ offset' \in Nat /\ unread' \in Nat
    BY <1>4, <1>6, <1>9
  <2>2. raw_buffer' \in Seq(0 .. 255) /\ buffer' \in Seq(0 .. 255)
    BY <1>7, <1>8 DEF Octet
  <2> QED BY ZenonT(60), <1>4, <2>1, <2>2 DEF ReaderInv, Types, TypeOK
<1>13. Stage'
  <2>1. offset' + q = fed
    BY <1>6, <1>9, <1>10
  <2> QED BY <1>0, <1>4, <1>6, <2>1 DEF ReaderInv, Stage, q
<1>14. Room'
  <2>1. raw_passed' + q <= RawSize /\ 2 * k + 3 * q + 1 <= 2 * BufferSize
    BY <1>6, <1>9, <1>10, <1>11
  <2>2. 0 + k <= BufferSize
    BY <1>9, <1>11, <2>1
  <2> QED BY <1>4, <1>6, <2>1, <2>2 DEF Room, q, k
<1>15. Bound'
  <2>1. Most' = Most /\ Most \in Int
    BY <1>4, <1>11 DEF Most
  <2>2. offset' + q <= Most /\ offset' <= Most
    BY <1>6, <1>9, <1>10, <2>1
  <2>3. offset' <= MaxFileSize + 2 + 4 * unread'
    BY <1>4, <1>6, <1>9, <1>10, <1>11
  <2> QED BY <1>0, <1>4, <1>11, <2>1, <2>2, <2>3 DEF Bound, q
<1>16. Divided'
  <2> DEFINE bc == b \o <<c>>  t == Tail(rest)
  <2>1. /\ (a \o b) \o rest = (a \o bc) \o t /\ bc \in Seq(Chars) /\ t \in Seq(Chars)
        /\ Text(bc, UTF8) = Text(b, UTF8) \o p /\ Len(bc) = Len(b) + 1
    BY ZenonT(60), <1>2, TextMoves DEF c, p
  <2>2. /\ input.chars = (a \o b) \o rest /\ scanned = Text(a, UTF8)
        /\ buffer = Text(b, UTF8) \o <<>> /\ unread = Len(b) + Len(<<>>)
    BY <1>2 DEF Parts
  <2>3. Text(b, UTF8) \in Seq(Octet) /\ Text(bc, UTF8) \in Seq(Octet)
    BY <2>1, TextIs DEF Encodings3
  <2> HIDE DEF bc, t
  <2>4. buffer' = Text(bc, UTF8) \o <<>>
    <3> DEFINE x == Text(b, UTF8)  y == Text(bc, UTF8)
    <3>1. x \in Seq(Octet) /\ y \in Seq(Octet)
      BY <2>3
    <3>2. buffer = x \o <<>> /\ y = x \o p /\ buffer' = buffer \o p
      BY <1>4, <2>1, <2>2
    <3> HIDE DEF x, y
    <3>3. x \o <<>> = x /\ y \o <<>> = y
      BY <3>1
    <3> QED BY Zenon, <3>2, <3>3 DEF y
  <2>5. unread' = Len(bc) + Len(<<>>)
    BY <1>4, <2>1, <2>2
  <2>6. Same(raw_buffer, Unfed, Mark, Text(t, input.enc) \o input.junk)'
    <3> DEFINE v == Text(t, input.enc) \o input.junk
    <3>1. Mark' = <<>> /\ Unfed' = Unfed /\ v' = v
      BY <1>4, <1>6 DEF Mark, Unfed
    <3>2. v \in Seq(Octet)
      <4>1. input.junk \in Seq(Octet) /\ Text(t, input.enc) \in Seq(Octet)
        BY <1>5, <2>1, TextIs, Pieces DEF ReaderInv
      <4> QED BY <4>1, ConcatProperties
    <3>3. raw_buffer' \o Unfed = v
      BY <1>2, <1>4, <1>6 DEF t
    <3> HIDE DEF v
    <3>4. <<>> \o v = v
      BY <3>2
    <3>5. Same(raw_buffer', Unfed', Mark', v')
      BY Zenon, <3>1, <3>3, <3>4 DEF Same
    <3> QED BY <3>5 DEF v, Same
  <2>7. error \notin DecodingProblems
    BY <1>6 DEF DecodingProblems
  <2>8. Parts(a, bc, t, <<>>)'
    <3>1. input.chars = (a \o bc) \o t
      BY <2>1, <2>2
    <3>2. <<>> # <<0>>
      OBVIOUS
    <3> QED BY Zenon, <1>4, <2>2, <2>4, <2>5, <2>6, <2>7, <3>1, <3>2 DEF Parts
  <2>9. <<>> \in Lasts
    BY DEF Lasts
  <2> QED BY <2>1, <2>8, <2>9 DEF Divided
<1> QED
  BY <1>12, <1>13, <1>14, <1>15, <1>16 DEF ReaderInv


\* Octets that are no character are refused, where all the text is decoded.
LEMMA JunkFound ==
    ASSUME ReaderInv, decode_error
    PROVE  ReaderInv'
<1> DEFINE problem == Decode(raw_buffer).problem
<1>0. /\ pc = "decode" /\ raw_buffer # <<>> /\ problem \notin {"NONE", "incomplete"}
      /\ error' = problem /\ pc' = "idle"
      /\ UNCHANGED <<input, fed, eof, encoding, raw_buffer, raw_passed, buffer, passed,
                     unread, offset, length, first, scanned>>
  BY DEF decode_error, set_reader_error
<1>1. problem \in DecodingProblems
  <2>1. eof \in BOOLEAN
    BY DEF ReaderInv, Types, TypeOK
  <2>2. problem \in {"NONE", "incomplete"} \cup DecodingProblems
    BY <2>1, DecodeEnds
  <2> HIDE DEF problem
  <2> QED BY <1>0, <2>2
<1> HIDE DEF problem
<1>2. problem # "NONE"
  BY <1>0
<1>3. Types'
  BY <1>0, <1>1 DEF ReaderInv, Types, TypeOK
<1>4. Stage'
  BY <1>0 DEF ReaderInv, Stage
<1>5. Room'
  BY <1>0 DEF ReaderInv, Room
<1>6. Bound'
  <2>1. Most' = Most
    BY <1>0 DEF Most
  <2> QED BY <1>0, <1>2, <2>1 DEF ReaderInv, Bound
<1>7. Divided'
  <2>1. PICK a \in Seq(Chars), b \in Seq(Chars), rest \in Seq(Chars), last \in Lasts : Parts(a, b, rest, last)
    BY DEF ReaderInv, Divided
  <2>2. last = <<>> /\ encoding # ANY
    BY <1>0, <2>1, AtDecoding
  <2>3. rest = <<>>
    <3>1. SUFFICES ASSUME rest # <<>> PROVE FALSE
      OBVIOUS
    <3>2. Ahead(raw_buffer, Unfed, rest, input.junk)
      BY <1>0, <2>1, <3>1, AtDecoding
    <3>3. ~ Decode(raw_buffer) = Decoded(Head(rest), Len(Form(Head(rest), encoding)))
      <4>1. \A v, n : Decoded(v, n).problem = "NONE"
        BY DEF Decoded
      <4> QED BY Zenon, <1>2, <4>1 DEF problem
    <3>4. Unfed # <<>> /\ (~ eof => problem = "incomplete")
      BY <3>2, <3>3 DEF Ahead, problem
    <3>5. eof
      BY <1>0, <3>4
    <3> QED BY <3>4, <3>5, NothingToCome
  <2>4. input.junk # <<>>
    BY <1>0, <2>1, <2>3, AtDecoding
  <2>5. last # <<0>>
    BY <2>2
  <2>6. Parts(a, b, rest, last)'
    BY <1>0, <2>1, <2>2, <2>3, <2>4, <2>5 DEF Parts, Unfed, Mark, Same
  <2> QED BY <2>6 DEF Divided
<1> QED
  BY <1>3, <1>4, <1>5, <1>6, <1>7 DEF ReaderInv

\* The text is over when there is nothing left of the input.
LEMMA AllDecoded ==
    ASSUME ReaderInv, pc = "decode", eof, raw_buffer = <<>>,
           NEW a \in Seq(Chars), NEW b \in Seq(Chars), NEW rest \in Seq(Chars), NEW last \in Lasts,
           Parts(a, b, rest, last)
    PROVE  rest = <<>> /\ last = <<>> /\ input.junk = <<>> /\ encoding # ANY
<1>1. /\ last = <<>> /\ encoding # ANY /\ encoding = input.enc
      /\ Text(rest, encoding) \in Seq(Octet)
      /\ raw_buffer \o Unfed = Text(rest, encoding) \o input.junk
  BY AtDecoding
<1>2. Unfed = <<>> /\ <<>> \o <<>> = <<>>
  BY NothingToCome
<1>3. input.junk \in Seq(Octet) /\ encoding \in Encodings3
  BY <1>1, Pieces DEF ReaderInv
<1>4. Text(rest, encoding) \o input.junk = <<>>
  BY <1>1, <1>2
<1>5. Text(rest, encoding) = <<>> /\ input.junk = <<>>
  <2> DEFINE t == Text(rest, encoding)
  <2>1. t \in Seq(Octet) /\ t \o input.junk = <<>>
    BY <1>1, <1>4
  <2> HIDE DEF t
  <2>2. t = <<>> /\ input.junk = <<>>
    BY <1>3, <2>1, NothingIn
  <2> QED BY <2>2 DEF t
<1>6. rest = <<>>
  <2>1. SUFFICES ASSUME rest # <<>> PROVE FALSE
    OBVIOUS
  <2> DEFINE w == Form(Head(rest), encoding)  t == Text(Tail(rest), encoding)
  <2>2. Text(rest, encoding) = w \o t /\ w \in Seq(Octet) /\ Len(w) \in 1 .. 4 /\ t \in Seq(Octet)
    BY <1>3, <2>1, TextHead
  <2> HIDE DEF w, t
  <2>3. w = <<>>
    BY <1>5, <2>2, NothingIn
  <2> QED BY <2>2, <2>3
<1> QED
  BY <1>1, <1>5, <1>6

\* The end of a decoding.
LEMMA DecodingEnds ==
    ASSUME ReaderInv, decoded
    PROVE  ReaderInv'
<1>0. /\ pc = "decode"
      /\ raw_buffer # <<>> => Decode(raw_buffer).problem = "incomplete"
      /\ UNCHANGED <<input, fed, eof, encoding, raw_buffer, raw_passed, passed, offset,
                     error, length, first, scanned>>
  BY DEF decoded
<1>1. Most' = Most
  BY <1>0 DEF Most
<1>2. CASE ~ eof
  <2>1. pc' = "fill" /\ UNCHANGED <<buffer, unread>>
    BY <1>2 DEF decoded
  <2>2. Types'
    BY <1>0, <2>1 DEF ReaderInv, Types, TypeOK
  <2>3. Stage'
    BY <1>0, <2>1 DEF ReaderInv, Stage
  <2>4. Room'
    BY <1>0, <2>1 DEF ReaderInv, Room
  <2>5. Bound'
    BY <1>0, <1>1, <2>1 DEF ReaderInv, Bound
  <2>6. Divided'
    BY <1>0, <2>1, PartsStay DEF ReaderInv
  <2> QED BY <2>2, <2>3, <2>4, <2>5, <2>6 DEF ReaderInv
<1>3. CASE eof
  <2>1. pc' = "idle" /\ buffer' = Append(buffer, 0) /\ unread' = unread + 1
    BY <1>3 DEF decoded
  <2>2. raw_buffer = <<>>
    <3>1. eof \in BOOLEAN
      BY DEF ReaderInv, Types, TypeOK
    <3> QED BY <1>0, <1>3, <3>1, DecodeEnds
  <2>3. /\ buffer \in Seq(Octet) /\ Len(buffer) \in Nat /\ unread \in Nat
        /\ passed = 0 /\ error = "NONE" /\ length \in Lengths /\ BufferSize \in Nat
    <3>1. buffer \in Seq(Octet) /\ Len(buffer) \in Nat
      BY Pieces DEF ReaderInv
    <3>2. unread \in Nat
      BY DEF ReaderInv, Types, TypeOK
    <3>3. passed = 0 /\ error = "NONE" /\ length \in Lengths
      BY <1>0 DEF ReaderInv, Stage
    <3>4. BufferSize \in Nat
      BY Assumed
    <3> QED BY <3>1, <3>2, <3>3, <3>4
  <2>4. buffer' \in Seq(Octet) /\ Len(buffer') = Len(buffer) + 1
    BY <2>1, <2>3 DEF Octet
  <2>5. Types'
    <3>1. buffer' \in Seq(0 .. 255) /\ unread' \in Nat
      BY <2>1, <2>3, <2>4 DEF Octet
    <3> QED BY <1>0, <2>1, <3>1 DEF ReaderInv, Types, TypeOK
  <2>6. Stage'
    <3>1. encoding # ANY
      BY <1>0 DEF ReaderInv, Stage
    <3> QED BY <1>0, <2>1, <3>1 DEF ReaderInv, Stage
  <2>7. Room'
    <3> DEFINE l == Len(buffer)  k == Len(buffer')
    <3>1. l \in Nat /\ k = l + 1 /\ 2 * l + 3 * 0 + 1 <= 2 * BufferSize
      <4>1. 2 * Len(buffer) + 3 * Len(raw_buffer) + 1 <= 2 * BufferSize
        BY <1>0 DEF ReaderInv, Room
      <4>2. Len(raw_buffer) = 0
        BY <2>2
      <4> QED BY <2>3, <2>4, <4>1, <4>2
    <3> HIDE DEF l, k
    <3>2. 0 + k <= BufferSize
      BY <2>3, <3>1
    <3> QED BY <1>0, <2>1, <2>3, <3>2 DEF ReaderInv, Room, k
  <2>8. Bound'
    BY <1>0, <1>1, <1>3, <2>1, <2>2 DEF ReaderInv, Bound
  <2>9. Divided'
    <3>1. PICK a \in Seq(Chars), b \in Seq(Chars), rest \in Seq(Chars), last \in Lasts : Parts(a, b, rest, last)
      BY DEF ReaderInv, Divided
    <3>2. rest = <<>> /\ last = <<>> /\ input.junk = <<>> /\ encoding # ANY
      BY <1>0, <1>3, <2>2, <3>1, AllDecoded
    <3>3. /\ buffer = Text(b, UTF8) \o <<>> /\ unread = Len(b) + Len(<<>>)
          /\ input.chars = (a \o b) \o rest /\ scanned = Text(a, UTF8)
          /\ Same(raw_buffer, Unfed, Mark, Text(rest, input.enc) \o input.junk)
      BY <3>1, <3>2 DEF Parts
    <3>4. buffer' = Text(b, UTF8) \o <<0>>
      <4> DEFINE x == Text(b, UTF8)
      <4>1. x \in Seq(Octet)
        BY TextIs DEF Encodings3
      <4>2. buffer = x \o <<>>
        BY <3>3
      <4> HIDE DEF x
      <4>3. x \o <<>> = x /\ Append(x, 0) = x \o <<0>>
        BY <4>1 DEF Octet
      <4> QED BY Zenon, <2>1, <4>2, <4>3 DEF x
    <3>5. unread' = Len(b) + Len(<<0>>)
      BY <2>1, <2>3, <3>3
    <3>6. Same(raw_buffer, Unfed, Mark, Text(rest, input.enc) \o input.junk)'
      BY <1>0, <3>3 DEF Same, Unfed, Mark
    <3>7. error' \notin DecodingProblems
      BY <1>0, <2>3 DEF DecodingProblems
    <3>8. Parts(a, b, rest, <<0>>)'
      BY Zenon, <1>0, <1>3, <2>1, <2>2, <3>2, <3>3, <3>4, <3>5, <3>6, <3>7 DEF Parts
    <3>9. <<0>> \in Lasts
      BY DEF Lasts
    <3> QED BY <3>8, <3>9 DEF Divided
  <2> QED BY <2>5, <2>6, <2>7, <2>8, <2>9 DEF ReaderInv
<1> QED
  BY <1>2, <1>3

-----------------------------------------------------------------------------
(* The scanner moves past a character.                                     *)

\* The first character of the buffer, behind which is the rest of it.
LEMMA FrontOfText ==
    ASSUME NEW b \in Seq(Chars), b # <<>>, NEW last \in Lasts
    PROVE  LET w == Form(Head(b), UTF8)  x == Text(b, UTF8) \o last IN
           /\ w \in Seq(Octet) /\ Len(w) \in 1 .. 4 /\ Width(x[1]) = Len(w)
           /\ Len(x) \in Nat /\ Len(w) <= Len(x)
           /\ SubSeq(x, 1, Len(w)) = w
           /\ SubSeq(x, Len(w) + 1, Len(x)) = Text(Tail(b), UTF8) \o last
           /\ Text(Tail(b), UTF8) \o last \in Seq(Octet)
<1> DEFINE c == Head(b)  w == Form(c, UTF8)  t == Text(Tail(b), UTF8)  v == t \o last
           x == Text(b, UTF8) \o last
<1>1. /\ Text(b, UTF8) = w \o t /\ c \in Chars /\ w \in Seq(Octet) /\ t \in Seq(Octet)
  BY TextHead DEF Encodings3
<1>2. last \in Seq(Octet)
  <2>1. CASE last = <<>>
    BY <2>1
  <2>2. CASE last = <<0>>
    BY <2>2 DEF Octet
  <2> QED BY <2>1, <2>2 DEF Lasts
<1>3. Len(w) \in 1 .. 4 /\ Width(w[1]) = Len(w)
  <2>1. w = Utf8Form(c)
    BY DEF Form
  <2>2. InRange(c)
    BY <1>1, CharRange
  <2> HIDE DEF w, c
  <2> QED BY <2>1, <2>2, Utf8Lead
<1>4. w \in Seq(Octet) /\ t \in Seq(Octet)
  BY <1>1
<1> HIDE DEF w, t
<1>5. (w \o t) \o last = w \o (t \o last)
  BY SMTT(60), <1>2, <1>4, ConcatAssociative
<1>6. v \in Seq(Octet)
  BY <1>2, <1>4, ConcatProperties
<1>7. x = w \o v
  BY <1>1, <1>5
<1> HIDE DEF v, x
<1>8. /\ \A i \in 1 .. Len(w) : (w \o v)[i] = w[i]
      /\ SubSeq(w \o v, 1, Len(w)) = w
      /\ SubSeq(w \o v, Len(w) + 1, Len(w \o v)) = v
      /\ Len(w \o v) = Len(w) + Len(v)
  BY <1>4, <1>6, FrontOfConcat
<1>9. x[1] = w[1] /\ Len(x) \in Nat /\ Len(w) <= Len(x)
  <2>1. \A i \in 1 .. Len(w) : x[i] = w[i]
    BY <1>7, <1>8
  <2>2. Len(x) = Len(w) + Len(v) /\ Len(v) \in Nat
    BY <1>6, <1>7, <1>8
  <2> QED BY <1>3, <2>1, <2>2
<1>10. SubSeq(x, 1, Len(w)) = w /\ SubSeq(x, Len(w) + 1, Len(x)) = v
  BY <1>7, <1>8
<1> QED
  BY <1>3, <1>4, <1>6, <1>9, <1>10 DEF w, t, v, x

\* The scanner does.
LEMMA Skips ==
    ASSUME ReaderInv, SKIP
    PROVE  ReaderInv'
<1>1. PICK a \in Seq(Chars), b \in Seq(Chars), rest \in Seq(Chars), last \in Lasts : Parts(a, b, rest, last)
  BY DEF ReaderInv, Divided
<1>2. /\ pc = "idle" /\ error = "NONE" /\ unread > 0 /\ buffer[1] # 0 /\ unread' = unread - 1
      /\ scanned' = scanned \o SubSeq(buffer, 1, Width(buffer[1]))
      /\ buffer' = SubSeq(buffer, Width(buffer[1]) + 1, Len(buffer))
      /\ passed' = passed + Width(buffer[1])
      /\ UNCHANGED <<input, fed, eof, encoding, raw_buffer, raw_passed, offset, error, pc,
                     length, first>>
  BY DEF SKIP
<1>3. /\ buffer = Text(b, UTF8) \o last /\ unread = Len(b) + Len(last)
      /\ input.chars = (a \o b) \o rest /\ scanned = Text(a, UTF8)
  BY <1>1 DEF Parts
<1>4. b # <<>>
  <2>1. SUFFICES ASSUME b = <<>> PROVE FALSE
    OBVIOUS
  <2>2. Text(b, UTF8) = <<>>
    BY <2>1, TextIs DEF Encodings3
  <2>3. CASE last = <<>>
    BY <1>2, <1>3, <2>1, <2>3
  <2>4. CASE last = <<0>>
    <3>1. <<>> \o <<0>> = <<0>>
      OBVIOUS
    <3>2. buffer = <<0>>
      BY <1>3, <2>2, <2>4, <3>1
    <3> QED BY <1>2, <3>2
  <2> QED BY <2>3, <2>4 DEF Lasts
<1> DEFINE c == Head(b)  w == Form(c, UTF8)  v == Text(Tail(b), UTF8) \o last
<1>5. /\ w \in Seq(Octet) /\ Len(w) \in 1 .. 4 /\ Width(buffer[1]) = Len(w)
      /\ Len(buffer) \in Nat /\ Len(w) <= Len(buffer)
      /\ SubSeq(buffer, 1, Len(w)) = w /\ SubSeq(buffer, Len(w) + 1, Len(buffer)) = v
      /\ v \in Seq(Octet)
  BY <1>3, <1>4, FrontOfText
<1> HIDE DEF c, w, v
<1>6. scanned' = scanned \o w /\ buffer' = v /\ passed' = passed + Len(w)
  BY Zenon, <1>2, <1>5
<1>7. Len(buffer') = Len(buffer) - Len(w)
  <2>1. Len(w) \in 0 .. Len(buffer)
    BY <1>5
  <2>2. buffer \in Seq(Octet)
    BY Pieces DEF ReaderInv
  <2> QED BY <1>5, <1>6, <2>1, <2>2, CutInTwo
<1>8. unread \in Nat /\ passed \in Nat /\ unread' \in Nat
  <2>1. unread \in Nat /\ passed \in Nat
    BY DEF ReaderInv, Types, TypeOK
  <2> QED BY <1>2, <2>1
<1>9. encoding # ANY
  <2>1. unread # 0
    BY <1>2, <1>8
  <2> QED BY <2>1 DEF ReaderInv, Stage
<1>10. Types'
  <2>1. passed' \in Nat
    BY <1>5, <1>6, <1>8
  <2>2. scanned' \in Seq(Octet)
    <3>1. scanned \in Seq(Octet)
      BY DEF ReaderInv, Types
    <3> QED BY <1>5, <1>6, <3>1, ConcatProperties
  <2>3. buffer' \in Seq(0 .. 255)
    BY <1>5, <1>6 DEF Octet
  <2> QED BY <1>2, <1>8, <2>1, <2>2, <2>3 DEF ReaderInv, Types, TypeOK
<1>11. Stage'
  BY <1>2, <1>9 DEF ReaderInv, Stage
<1>12. Room'
  <2> DEFINE l == Len(buffer)  k == Len(buffer')  n == Len(w)
  <2>1. l \in Nat /\ n \in 1 .. 4 /\ k = l - n /\ passed + l <= BufferSize /\ passed' = passed + n
    BY <1>5, <1>6, <1>7 DEF ReaderInv, Room
  <2>2. BufferSize \in Nat
    BY Assumed
  <2> HIDE DEF l, k, n
  <2>3. passed' + k <= BufferSize
    BY <1>8, <2>1, <2>2
  <2> QED BY <1>2, <2>3 DEF ReaderInv, Room, k
<1>13. Bound'
  <2>1. Most' = Most
    BY <1>2 DEF Most
  <2> QED BY <1>2, <2>1 DEF ReaderInv, Bound
<1>14. Divided'
  <2> DEFINE ac == a \o <<c>>  t == Tail(b)
  <2>1. c \in Chars /\ t \in Seq(Chars) /\ <<c>> \in Seq(Chars) /\ Len(t) = Len(b) - 1 /\ Len(b) \in Nat
    <3>1. c \in Chars /\ t \in Seq(Chars) /\ Len(t) = Len(b) - 1 /\ Len(b) \in Nat
      BY <1>4, HeadAndTail DEF c
    <3> QED BY <3>1
  <2>2. /\ a \o b = ac \o t /\ ac \in Seq(Chars)
        /\ Text(ac, UTF8) = Text(a, UTF8) \o w
    <3>1. /\ (<<>> \o a) \o b = (<<>> \o ac) \o t /\ ac \in Seq(Chars)
          /\ Text(ac, UTF8) = Text(a, UTF8) \o w
      <4>1. <<>> \in Seq(Chars)
        OBVIOUS
      <4> QED BY ZenonT(60), <1>4, <4>1, TextMoves DEF c, w
    <3>2. ac \in Seq(Chars)
      BY <3>1
    <3> HIDE DEF ac
    <3>3. <<>> \o a = a /\ <<>> \o ac = ac
      BY <3>2
    <3> QED BY Zenon, <3>1, <3>3
  <2> HIDE DEF ac, t
  <2>3. input.chars = (ac \o t) \o rest /\ scanned' = Text(ac, UTF8)
    BY <1>3, <1>6, <2>2
  <2>4. buffer' = Text(t, UTF8) \o last
    BY <1>6 DEF v, t
  <2>5. unread' = Len(t) + Len(last)
    <3>1. Len(last) \in Nat
      <4>1. Len(<<>>) = 0 /\ Len(<<0>>) = 1
        OBVIOUS
      <4>2. last = <<>> \/ last = <<0>>
        BY DEF Lasts
      <4> QED BY <4>1, <4>2
    <3> QED BY <1>2, <1>3, <1>8, <2>1, <3>1
  <2>6. Parts(ac, t, rest, last)'
    BY <1>1, <1>2, <2>3, <2>4, <2>5 DEF Parts, Unfed, Mark, Same
  <2> QED BY <2>1, <2>2, <2>6 DEF Divided
<1> QED
  BY <1>10, <1>11, <1>12, <1>13, <1>14 DEF ReaderInv

-----------------------------------------------------------------------------
(* The theorems.                                                           *)

\* The reader begins with nothing read.
LEMMA ReaderBegins ==
    ASSUME Init
    PROVE  ReaderInv
<1> USE DEF Init
<1>1. Given(input) /\ input \in Inputs
  BY InputsAre
<1>2. /\ input.enc \in Encodings3 /\ input.set \in {ANY, input.enc} /\ input.octets \in Seq(Octet)
      /\ (input.marked => input.set = ANY) /\ Len(input.octets) \in Nat /\ input.enc # ANY
      /\ input.chars \in Seq(Chars)
  <2>1. /\ input.enc \in Encodings3 /\ input.set \in {ANY, input.enc} /\ input.octets \in Seq(Octet)
        /\ (input.marked => input.set = ANY) /\ input.chars \in Seq(Chars)
    BY Zenon, <1>1 DEF Given
  <2>2. ANY \notin Encodings3
    BY EncodingsAssumption DEF Encodings3
  <2>3. Len(input.octets) \in Nat
    BY <2>1
  <2> QED BY Zenon, <2>1, <2>2, <2>3
<1>3. RawSize \in Nat /\ BufferSize \in Nat /\ MaxFileSize \in Nat \ {0}
  BY Assumed
<1>4. Types
  <2>1. encoding \in {ANY, UTF8, UTF16LE, UTF16BE}
    BY <1>2 DEF Encodings3
  <2>2. fed \in 0 .. Len(input.octets)
    BY <1>2
  <2>3. /\ raw_buffer \in Seq(0 .. 255) /\ buffer \in Seq(0 .. 255) /\ scanned \in Seq(Octet)
        /\ raw_passed \in Nat /\ passed \in Nat /\ unread \in Nat /\ offset \in Nat
    OBVIOUS
  <2>4. /\ eof \in BOOLEAN /\ first \in BOOLEAN /\ length \in Lengths \cup {0}
        /\ pc \in {"idle", "encoding", "fill", "decode"}
        /\ error \in {"NONE", "input error", "input is too long"} \cup DecodingProblems
    OBVIOUS
  <2> QED BY Zenon, <1>1, <2>1, <2>2, <2>3, <2>4 DEF Types, TypeOK
<1>5. Stage
  BY <1>2 DEF Stage
<1>6. Room
  BY <1>3 DEF Room
<1>7. Bound
  BY <1>3 DEF Bound
<1>8. Divided
  <2>1. Text(<<>>, UTF8) = <<>> /\ <<>> \in Seq(Chars) /\ <<>> \in Lasts
    BY TextIs DEF Encodings3, Lasts
  <2>2. (<<>> \o <<>>) \o input.chars = input.chars /\ <<>> \o <<>> = <<>> /\ Len(<<>>) = 0
    BY <1>2
  <2>3. Unfed = input.octets
    <3>1. Unfed = SubSeq(input.octets, 1, Len(input.octets))
      BY DEF Unfed
    <3>2. SubSeq(input.octets, 1, Len(input.octets)) = input.octets
      BY <1>2, CutInTwo, FrontOfConcat
    <3> QED BY <3>1, <3>2
  <2>4. Mark = (IF input.marked THEN Bom(input.enc) ELSE <<>>)
    <3>1. input.marked => encoding = ANY
      BY <1>2
    <3> QED BY <3>1 DEF Mark
  <2>5. <<>> \o input.octets = input.octets
    BY <1>2
  <2>6. Same(raw_buffer, Unfed, Mark, Text(input.chars, input.enc) \o input.junk)
    <3>1. raw_buffer = <<>>
      OBVIOUS
    <3>2. input.octets = (IF input.marked THEN Bom(input.enc) ELSE <<>>) \o (Text(input.chars, input.enc) \o input.junk)
      BY <1>1 DEF Given
    <3> QED BY Zenon, <2>3, <2>4, <2>5, <3>1, <3>2 DEF Same
  <2>7. error \notin DecodingProblems
    BY DEF DecodingProblems
  <2>8. Parts(<<>>, <<>>, input.chars, <<>>)
    <3>1. scanned = <<>> /\ buffer = <<>> /\ unread = 0 /\ 0 = 0 + 0 /\ <<>> # <<0>>
      OBVIOUS
    <3> QED BY Zenon, <2>1, <2>2, <2>6, <2>7, <3>1 DEF Parts
  <2> QED BY <1>2, <2>1, <2>8 DEF Divided
<1> QED
  BY <1>4, <1>5, <1>6, <1>7, <1>8 DEF ReaderInv

\* Every step keeps the invariant.
LEMMA ReaderSteps ==
    ASSUME ReaderInv, [Next]_vars
    PROVE  ReaderInv'
<1>1. CASE \E n \in Lengths : update_buffer(n)
  BY <1>1, CallBegins
<1>2. CASE SKIP
  BY <1>2, Skips
<1>3. CASE determine_encoding
  BY <1>3, EncodingFound
<1>4. CASE \E n \in 0 .. RawSize : update_raw_buffer(n)
  BY <1>4, RawGrows
<1>5. CASE update_raw_buffer_noop
  BY <1>5, NothingToRead
<1>6. CASE read_handler_fails
  BY <1>6, HandlerFails
<1>7. CASE first_turn
  BY <1>7, FirstTurn
<1>8. CASE decode_character
  BY <1>8, CharacterDecoded
<1>9. CASE decode_error
  BY <1>9, JunkFound
<1>10. CASE decoded
  BY <1>10, DecodingEnds
<1>11. CASE filled
  BY <1>11, Filled
<1>12. CASE UNCHANGED vars
  <2>1. Types'
    BY ZenonT(60), <1>12 DEF vars, ReaderInv, Types, TypeOK
  <2>2. Stage'
    BY <1>12 DEF vars, ReaderInv, Stage
  <2>3. Room'
    BY <1>12 DEF vars, ReaderInv, Room
  <2>4. Bound'
    BY <1>12 DEF vars, ReaderInv, Bound, Most
  <2>5. Divided'
    BY ZenonT(60), <1>12 DEF vars, ReaderInv, Divided, Parts, Same, Unfed, Mark
  <2> QED BY <2>1, <2>2, <2>3, <2>4, <2>5 DEF ReaderInv
<1> QED
  BY <1>1, <1>2, <1>3, <1>4, <1>5, <1>6, <1>7, <1>8, <1>9, <1>10, <1>11, <1>12 DEF Next, Reading


\* The invariant in force.
THEOREM ReaderInvariant == Spec => []ReaderInv
<1> QED
  BY ReaderBegins, ReaderSteps, PTL DEF Spec

\* What lies in the buffer, and its characters.
LEMMA BufferIsCounted ==
    ASSUME NEW b \in Seq(Chars), NEW last \in Lasts
    PROVE  /\ Text(b, UTF8) \in Seq(Octet) /\ last \in Seq(Octet) /\ Len(last) \in Nat
           /\ Count(Text(b, UTF8) \o last, Leads) = Len(b) + Len(last)
<1>1. Text(b, UTF8) \in Seq(Octet) /\ Count(Text(b, UTF8), Leads) = Len(b)
  BY TextIs, TextCount DEF Encodings3
<1>2. last \in Seq(Octet) /\ Len(last) \in Nat /\ Count(last, Leads) = Len(last)
  <2>1. CASE last = <<>>
    <3>1. Count(<<>>, Leads) = 0
      BY FS_EmptySet DEF Count
    <3> QED BY <2>1, <3>1
  <2>2. CASE last = <<0>>
    <3>1. 0 \in Octet /\ 0 \in Leads
      BY DEF Octet, Leads, IsTrailing
    <3>2. Count(<<>>, Leads) = 0 /\ <<>> \in Seq(Octet)
      BY FS_EmptySet DEF Count
    <3>3. Count(Append(<<>>, 0), Leads) = 0 + 1
      <4> DEFINE e == <<>>
      <4>1. e \in Seq(Octet) /\ Count(e, Leads) = 0
        BY <3>2
      <4> HIDE DEF e
      <4>2. Count(Append(e, 0), Leads) = Count(e, Leads) + 1
        BY <3>1, <4>1, CountPush
      <4> QED BY <4>1, <4>2 DEF e
    <3>4. Append(<<>>, 0) = <<0>>
      OBVIOUS
    <3>5. last \in Seq(Octet) /\ Len(last) = 1
      BY <2>2, <3>1
    <3> QED BY <2>2, <3>3, <3>4, <3>5
  <2> QED BY <2>1, <2>2 DEF Lasts
<1> DEFINE t == Text(b, UTF8)
<1>3. t \in Seq(Octet)
  BY <1>1
<1> HIDE DEF t
<1>4. Count(t \o last, Leads) = Count(t, Leads) + Count(last, Leads)
  BY <1>2, <1>3, CountConcat
<1> QED
  BY <1>1, <1>2, <1>4 DEF t

\* Neither buffer of the reader overflows, however the read handler cuts the
\* input, and `unread` counts the characters in the buffer.
THEOREM ReaderBuffersFit == Spec => []BuffersFit
<1>1. ReaderInv => BuffersFit
  <2> SUFFICES ASSUME ReaderInv PROVE BuffersFit
    OBVIOUS
  <2>1. TypeOK /\ raw_passed + Len(raw_buffer) <= RawSize /\ passed + Len(buffer) <= BufferSize
    BY DEF ReaderInv, Types, Room
  <2>2. PICK a \in Seq(Chars), b \in Seq(Chars), rest \in Seq(Chars), last \in Lasts : Parts(a, b, rest, last)
    BY DEF ReaderInv, Divided
  <2>3. unread = Count(buffer, Leads)
    BY <2>2, BufferIsCounted DEF Parts
  <2>4. Count(buffer, Leads) = Cardinality({k \in 1 .. Len(buffer) : ~ IsTrailing(buffer[k])})
    <3>1. buffer \in Seq(Octet)
      BY Pieces DEF ReaderInv
    <3>2. DOMAIN buffer = 1 .. Len(buffer) /\ \A k \in 1 .. Len(buffer) : buffer[k] \in Octet
      BY <3>1, LenProperties
    <3>3. {k \in DOMAIN buffer : buffer[k] \in Leads} = {k \in 1 .. Len(buffer) : ~ IsTrailing(buffer[k])}
      BY <3>2 DEF Leads
    <3> QED BY <3>3 DEF Count
  <2> QED BY <2>1, <2>3, <2>4 DEF BuffersFit
<1> QED
  BY <1>1, ReaderInvariant, PTL

\* No call takes the offset further beyond the limit than one raw buffer and
\* one look-ahead, though a call tests the limit only at its end.
THEOREM ReaderOffsetIsBounded == Spec => []OffsetIsBounded
<1>1. ReaderInv => OffsetIsBounded
  <2> SUFFICES ASSUME ReaderInv, NEW n \in Lengths, \A m \in Lengths : m <= n
               PROVE  offset < MaxFileSize + RawSize + 4 * (n - 1) + 3
    BY DEF OffsetIsBounded
  <2>1. /\ n \in Nat \ {0} /\ MaxFileSize \in Nat /\ RawSize \in Nat /\ offset \in Nat
        /\ length \in Lengths \cup {0}
    BY Assumed DEF ReaderInv, Types, TypeOK
  <2>2. CASE length = 0
    BY <2>1, <2>2 DEF ReaderInv, Bound
  <2>3. CASE length \in Lengths
    <3>1. length \in Nat \ {0} /\ length <= n
      BY <2>3, Assumed
    <3>2. offset <= MaxFileSize + 2 + 4 * (length - 1) + RawSize
      BY <3>1 DEF ReaderInv, Bound, Most
    <3> QED BY <2>1, <3>1, <3>2
  <2> QED BY <2>1, <2>2, <2>3
<1> QED
  BY <1>1, ReaderInvariant, PTL

\* A call that returns without an error leaves the look-ahead it was asked for,
\* or the NUL behind the last character.
THEOREM ReaderLookaheadIsThere == Spec => LookaheadIsThere
<1> DEFINE Returned == pc # "idle" /\ pc' = "idle" /\ error' = "NONE" =>
                         unread' >= length \/ (buffer' # <<>> /\ Last(buffer') = 0)
<1>1. ReaderInv /\ [Next]_vars => [Returned]_vars
  <2> SUFFICES ASSUME ReaderInv, Next, pc # "idle", pc' = "idle", error' = "NONE"
               PROVE  unread' >= length \/ (buffer' # <<>> /\ Last(buffer') = 0)
    OBVIOUS
  <2>1. filled \/ decoded
    <3>1. ~ (\E n \in Lengths : update_buffer(n)) /\ ~ SKIP /\ ~ determine_encoding
          /\ ~ first_turn /\ ~ decode_character
      BY DEF update_buffer, SKIP, determine_encoding, first_turn, decode_character
    <3>2. ~ (\E n \in 0 .. RawSize : update_raw_buffer(n)) /\ ~ update_raw_buffer_noop
      BY DEF update_raw_buffer, update_raw_buffer_noop, AfterRaw
    <3>3. ~ read_handler_fails
      BY DEF read_handler_fails, set_reader_error
    <3>4. ~ decode_error
      BY DEF decode_error, set_reader_error
    <3> QED BY <3>1, <3>2, <3>3, <3>4 DEF Next, Reading
  <2>2. unread \in Nat /\ buffer \in Seq(Octet) /\ length \in Nat
    <3>1. unread \in Nat /\ length \in Lengths \cup {0}
      BY DEF ReaderInv, Types, TypeOK
    <3>2. length \in Nat
      BY <3>1, Assumed
    <3> QED BY <3>1, <3>2, Pieces DEF ReaderInv
  <2>3. CASE filled
    <3>1. unread' = unread /\ ~ Wanting
      BY <2>3 DEF filled
    <3> QED BY <2>2, <3>1 DEF Wanting
  <2>4. CASE decoded
    <3>1. buffer' = Append(buffer, 0)
      BY <2>4 DEF decoded
    <3>2. 0 \in Octet
      BY DEF Octet
    <3>3. buffer' # <<>> /\ Last(buffer') = 0
      BY <2>2, <3>1, <3>2, PushPop
    <3> QED BY <3>3
  <2> QED BY <2>1, <2>3, <2>4
<1> QED
  BY <1>1, ReaderInvariant, PTL DEF Spec, LookaheadIsThere

\* The scanner gets the text of the input, whatever encoding it is in and however
\* it is delivered; a NUL behind it, and an error for what is no text, come only
\* when all of it has been decoded.
THEOREM TextIsDelivered == Spec => []DeliversText
<1>1. ReaderInv => DeliversText
  <2> SUFFICES ASSUME ReaderInv PROVE DeliversText
    OBVIOUS
  <2>1. PICK a \in Seq(Chars), b \in Seq(Chars), rest \in Seq(Chars), last \in Lasts : Parts(a, b, rest, last)
    BY DEF ReaderInv, Divided
  <2> DEFINE x == Text(a \o b, UTF8)  y == Text(rest, UTF8)
  <2>2. x \in Seq(Octet) /\ y \in Seq(Octet) /\ last \in Seq(Octet) /\ input.text = x \o y
    <3>1. a \o b \in Seq(Chars)
      BY ConcatProperties
    <3>2. x \in Seq(Octet) /\ y \in Seq(Octet) /\ Text((a \o b) \o rest, UTF8) = x \o y
      BY <3>1, TextIs DEF Encodings3
    <3>3. input.text = Text(input.chars, UTF8) /\ input.chars = (a \o b) \o rest
      BY <2>1, Pieces DEF ReaderInv, Given, Parts
    <3> QED BY <3>2, <3>3, BufferIsCounted
  <2>3. Delivered = x \o last
    <3> DEFINE s == Text(a, UTF8)  t == Text(b, UTF8)
    <3>1. s \in Seq(Octet) /\ t \in Seq(Octet)
      BY TextIs DEF Encodings3
    <3>2. x = s \o t
      BY TextIs DEF Encodings3
    <3>3. Delivered = s \o (t \o last)
      BY <2>1 DEF Delivered, Parts
    <3>4. last \in Seq(Octet)
      BY <2>2
    <3> HIDE DEF s, t, x
    <3>5. (s \o t) \o last = s \o (t \o last)
      BY SMTT(60), <3>1, <3>4, ConcatAssociative
    <3> QED BY Zenon, <3>2, <3>3, <3>5
  <2>4. /\ last = <<0>> => /\ rest = <<>> /\ input.junk = <<>> /\ eof
        /\ error \in DecodingProblems =>
             rest = <<>> /\ last = <<>> /\ input.junk # <<>> /\ encoding # ANY
        /\ rest = <<>> => y = <<>>
    BY <2>1, TextIs DEF Parts, Encodings3
  <2> HIDE DEF x, y
  <2>5. x \o <<>> = x /\ 0 \in Octet /\ <<0>> \in Seq(Octet)
    BY <2>2 DEF Octet
  <2>6. IsPrefix(Delivered, Append(input.text, 0))
    <3> DEFINE z == y \o <<0>>
    <3>1. z \in Seq(Octet) /\ x \in Seq(Octet) /\ y \in Seq(Octet) /\ <<0>> \in Seq(Octet)
      BY <2>2, <2>5, ConcatProperties
    <3>2. Append(input.text, 0) = (x \o y) \o <<0>>
      <4> DEFINE u == x \o y
      <4>1. u \in Seq(Octet) /\ input.text = u
        BY <2>2, ConcatProperties
      <4> HIDE DEF u
      <4>2. Append(u, 0) = u \o <<0>>
        BY <2>5, <4>1
      <4> QED BY <4>1, <4>2 DEF u
    <3>3. (x \o y) \o <<0>> = x \o z
      <4> DEFINE o == <<0>>
      <4>1. o \in Seq(Octet)
        BY <3>1
      <4>2. z = y \o o
        OBVIOUS
      <4> HIDE DEF o, z
      <4>3. (x \o y) \o o = x \o (y \o o)
        <5>1. x \in Seq(Octet) /\ y \in Seq(Octet)
          BY <2>2
        <5> QED BY SMTT(60), <4>1, <5>1, ConcatAssociative
      <4> QED BY <4>2, <4>3 DEF o
    <3> HIDE DEF z
    <3>4. /\ \A i \in 1 .. Len(x) : (x \o z)[i] = x[i]
          /\ Len(x \o z) = Len(x) + Len(z) /\ Len(x) \in Nat /\ Len(z) \in Nat
      BY <3>1, FrontOfConcat
    <3>5. x \o z \in Seq(Octet)
      BY <3>1, ConcatProperties
    <3>6. CASE last = <<>>
      <4>1. Starts(x \o z, x)
        BY <3>4 DEF Starts
      <4>2. IsPrefix(x, x \o z)
        BY <3>1, <3>5, <4>1, PrefixIs
      <4> QED BY <2>3, <2>5, <3>2, <3>3, <3>6, <4>2
    <3>7. CASE last = <<0>>
      <4>1. z = <<0>>
        <5>1. y = <<>> /\ <<>> \o <<0>> = <<0>>
          BY <2>4, <3>7
        <5> QED BY <5>1 DEF z
      <4>2. Delivered = x \o z
        BY <2>3, <3>7, <4>1
      <4>3. Starts(x \o z, x \o z)
        <5> DEFINE u == x \o z
        <5>1. u \in Seq(Octet)
          BY <3>5
        <5> HIDE DEF u
        <5>2. Starts(u, u)
          BY <5>1 DEF Starts
        <5> QED BY <5>2 DEF u
      <4>4. IsPrefix(x \o z, x \o z)
        BY <3>5, <4>3, PrefixIs
      <4> QED BY <3>2, <3>3, <4>2, <4>4
    <3> QED BY <3>6, <3>7 DEF Lasts
  <2>7. Len(Delivered) > Len(input.text) => input.junk = <<>> /\ eof
    <3>1. CASE last = <<>>
      <4>1. Delivered = x /\ Len(x \o y) = Len(x) + Len(y) /\ Len(x) \in Nat /\ Len(y) \in Nat
        BY <2>2, <2>3, <2>5, <3>1
      <4> QED BY <2>2, <4>1
    <3>2. CASE last = <<0>>
      BY <2>4, <3>2
    <3> QED BY <3>1, <3>2 DEF Lasts
  <2>8. ASSUME error \in DecodingProblems
        PROVE  /\ input.junk # <<>> /\ Delivered = input.text
               /\ offset = Len(input.octets) - Len(input.junk)
    <3>1. rest = <<>> /\ last = <<>> /\ input.junk # <<>> /\ encoding # ANY /\ y = <<>>
      BY <2>4, <2>8
    <3>2. Delivered = input.text
      BY <2>2, <2>3, <3>1
    <3>3. raw_buffer \o Unfed = input.junk
      <4>1. Mark = <<>> /\ Text(rest, input.enc) = <<>>
        BY <3>1, TextIs, Pieces DEF ReaderInv, Mark
      <4>2. Same(raw_buffer, Unfed, <<>>, <<>> \o input.junk)
        BY <2>1, <4>1 DEF Parts
      <4>3. <<>> \o input.junk = input.junk
        BY Pieces DEF ReaderInv
      <4> QED BY Zenon, <4>2, <4>3 DEF Same
    <3>4. Len(raw_buffer \o Unfed) = Len(raw_buffer) + Len(Unfed)
      BY Pieces, FrontOfConcat DEF ReaderInv
    <3>5. /\ Len(Unfed) = Len(input.octets) - fed /\ Len(raw_buffer) \in Nat /\ Len(input.octets) \in Nat
          /\ offset + Len(raw_buffer) = fed /\ offset \in Nat /\ fed \in Nat
      <4>1. fed \in 0 .. Len(input.octets) /\ offset \in Nat
        BY DEF ReaderInv, Types, TypeOK
      <4> QED BY <4>1, Pieces DEF ReaderInv, Stage
    <3>6. Len(input.junk) = Len(raw_buffer) + Len(Unfed)
      BY <3>3, <3>4
    <3>7. offset = Len(input.octets) - Len(input.junk)
      BY SMTT(60), <3>5, <3>6
    <3> QED BY <3>1, <3>2, <3>7
  <2> QED BY <2>6, <2>7, <2>8 DEF DeliversText
<1> QED
  BY <1>1, ReaderInvariant, PTL

=============================================================================

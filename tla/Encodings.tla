------------------------------ MODULE Encodings ------------------------------
(***************************************************************************)
(* The three encodings of a YAML stream, as RFC 3629 and RFC 2781 (the    *)
(* documents the comments of reader.c and writer.c cite) define them.     *)
(* This is the reference that the decoder (Reader) and the encoder        *)
(* (Writer) are compared with; nothing here is translated from the code.  *)
(***************************************************************************)
EXTENDS Integers, Sequences, SequencesExt

CONSTANTS ANY, UTF8, UTF16LE, UTF16BE    \* values of yaml_encoding_t

ASSUME EncodingsAssumption ==
    /\ ANY \notin {UTF8, UTF16LE, UTF16BE}
    /\ UTF8 \notin {UTF16LE, UTF16BE}
    /\ UTF16LE # UTF16BE

\* Characters as numbers: a Unicode scalar value is no surrogate.
HighArea(u) == u >= \hD800 /\ u <= \hDBFF
LowArea(u) == u >= \hDC00 /\ u <= \hDFFF
IsScalarValue(c) == c \in Nat /\ c <= \h10FFFF /\ ~ (HighArea(c) \/ LowArea(c))

\* Bits `from` .. `from + width - 1` of n.
Bits(n, from, width) == (n \div 2^from) % 2^width

\* The octets of a character in UTF-8.
Utf8(c) ==
    IF c < \h80 THEN <<c>>
    ELSE IF c < \h800 THEN <<\hC0 + Bits(c, 6, 5), \h80 + Bits(c, 0, 6)>>
    ELSE IF c < \h10000
    THEN <<\hE0 + Bits(c, 12, 4), \h80 + Bits(c, 6, 6), \h80 + Bits(c, 0, 6)>>
    ELSE <<\hF0 + Bits(c, 18, 3), \h80 + Bits(c, 12, 6),
           \h80 + Bits(c, 6, 6), \h80 + Bits(c, 0, 6)>>

\* The 16-bit units of a character in UTF-16: itself, or a surrogate pair.
Units(c) ==
    IF c < \h10000 THEN <<c>>
    ELSE <<\hD800 + Bits(c - \h10000, 10, 10), \hDC00 + Bits(c - \h10000, 0, 10)>>

\* The octets of a character in UTF-16 of either byte order.
Utf16(c, order) ==
    FlattenSeq([k \in 1 .. Len(Units(c)) |->
        IF order = UTF16LE
        THEN <<Units(c)[k] % 256, Units(c)[k] \div 256>>
        ELSE <<Units(c)[k] \div 256, Units(c)[k] % 256>>])

EncodedChar(c, encoding) ==
    IF encoding = UTF8 THEN Utf8(c) ELSE Utf16(c, encoding)

Encoded(text, encoding) ==
    FlattenSeq([k \in 1 .. Len(text) |-> EncodedChar(text[k], encoding)])

\* The sequences of octets that encode a character in UTF-8: the table of
\* RFC 3629, section 4.
IsUtf8(s) ==
    /\ \A k \in 2 .. Len(s) : s[k] \in \h80 .. \hBF
    /\ \/ Len(s) = 1 /\ s[1] < \h80
       \/ Len(s) = 2 /\ s[1] \in \hC2 .. \hDF
       \/ /\ Len(s) = 3 /\ s[1] \in \hE0 .. \hEF
          /\ s[1] = \hE0 => s[2] >= \hA0
          /\ s[1] = \hED => s[2] <= \h9F
       \/ /\ Len(s) = 4 /\ s[1] \in \hF0 .. \hF4
          /\ s[1] = \hF0 => s[2] >= \h90
          /\ s[1] = \hF4 => s[2] <= \h8F

\* And in UTF-16: RFC 2781, section 2.2.
UnitOf(a, b, order) == IF order = UTF16LE THEN a + 256 * b ELSE 256 * a + b
IsUtf16(s, order) ==
    \/ Len(s) = 2 /\ LET u == UnitOf(s[1], s[2], order) IN ~ (HighArea(u) \/ LowArea(u))
    \/ Len(s) = 4 /\ HighArea(UnitOf(s[1], s[2], order))
                  /\ LowArea(UnitOf(s[3], s[4], order))

IsCharacter(s, encoding) ==
    IF encoding = UTF8 THEN IsUtf8(s) ELSE IsUtf16(s, encoding)

\* The byte order mark is the character U+FEFF.
Bom(encoding) == EncodedChar(\hFEFF, encoding)
==============================================================================

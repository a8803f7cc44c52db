------------------------------ MODULE MCReader ------------------------------
(* Inputs for Reader: short texts of characters of one to four octets, in  *)
(* every encoding, whole or broken off or followed by what is no character.*)
EXTENDS Reader

CONSTANTS
    MaxText,       \* characters of a whole input
    MaxBroken,     \* characters before what is no character
    LongText       \* characters of the input that passes MaxFileSize

MCChars == {97, \h85, \h20AC, \h1F600}
TextsUpTo(n) == UNION {[1 .. k -> MCChars] : k \in 0 .. n}

\* Invalid leading and trailing octets, sequences that are too long, cut off,
\* surrogates, too large, and control characters.
JunkUtf8 ==
    {<<\h80>>, <<\hF8>>, <<\hC3, 97>>, <<\hE2, \h82, 97>>, <<\hC1, \h81>>, <<\hE0, \h81, \h81>>,
     <<\hF0, \h81, \h81, \h81>>, <<\hC3>>, <<\hEF, \hBB>>, <<\hF0, \h9F, \h98>>,
     <<\hED, \hA0, \h81>>, <<\hF4, \h90, \h80, \h80>>, <<7>>, <<\hEF, \hBF, \hBE>>}
JunkUnits == {<<\hDC3D>>, <<\hD83D>>, <<\hD83D, 97>>, <<7>>, <<\hFFFF>>}
InOrder(order, units) ==
    FlattenSeq([k \in 1 .. Len(units) |->
        IF order = UTF16LE THEN <<units[k] % 256, units[k] \div 256>>
        ELSE <<units[k] \div 256, units[k] % 256>>])
Junk(e) ==
    IF e = UTF8 THEN JunkUtf8
    ELSE {<<97>>} \cup {InOrder(e, u) : u \in JunkUnits}
         \cup {Append(InOrder(e, <<\hD83D>>), \hDE)}

\* A UTF-16 stream needs a mark or has to be announced; UTF-8 needs neither.
Announced ==
    {<<UTF8, FALSE, ANY>>, <<UTF8, TRUE, ANY>>, <<UTF8, TRUE, UTF8>>}
    \cup {<<e, TRUE, ANY>> : e \in {UTF16LE, UTF16BE}}
    \cup {<<e, FALSE, e>> : e \in {UTF16LE, UTF16BE}}

\* A mark is text for a parser that has been told the encoding.
InputAs(t, j, a) ==
    LET announced == a[3] # ANY
        mark == IF a[2] /\ announced THEN <<\hFEFF>> ELSE <<>>
    IN Input(mark \o t, j, a[1], a[2] /\ ~ announced, a[3])

MCInputs ==
    {InputAs(t, <<>>, a) : t \in TextsUpTo(MaxText), a \in Announced}
    \cup UNION {{InputAs(t, j, a) : t \in TextsUpTo(MaxBroken), j \in Junk(a[1])} : a \in Announced}
    \cup {InputAs([k \in 1 .. LongText |-> 97], <<>>, a) : a \in Announced}
MCLengths == {1, 2}
=============================================================================

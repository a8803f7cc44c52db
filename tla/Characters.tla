----------------------------- MODULE Characters -----------------------------
(***************************************************************************)
(* The classes of characters that the scanner and the emitter tell apart   *)
(* (the IS_* macros of yaml_private.h).  A character is its code point and *)
(* a string a sequence of characters; in the code it is UTF-8, of which    *)
(* the macros look at the octets.                                          *)
(***************************************************************************)
EXTENDS Integers, Sequences

NUL == 0
TAB == 9
LF == 10
CR == 13
SP == 32
NEL == 133
LS == 8232
PS == 8233
BOM == 65279

BANG == 33
DQUOTE == 34
HASH == 35
PERCENT == 37
AMPERSAND == 38
QUOTE == 39
STAR == 42
PLUS == 43
COMMA == 44
DASH == 45
DOT == 46
COLON == 58
GREATER == 62
QUESTION == 63
AT_SIGN == 64
LBRACKET == 91
BACKSLASH == 92
RBRACKET == 93
BACKQUOTE == 96
LBRACE == 123
BAR == 124
RBRACE == 125

FlowIndicators == {COMMA, QUESTION, LBRACKET, RBRACKET, LBRACE, RBRACE}

\* The character at a place of a string, which ends with NUL.
At(string, i) == IF i \in DOMAIN string THEN string[i] ELSE NUL

IS_Z(c) == c = NUL
IS_SPACE(c) == c = SP
IS_BLANK(c) == c \in {SP, TAB}
IS_BREAK(c) == c \in {CR, LF, NEL, LS, PS}
IS_BREAKZ(c) == IS_BREAK(c) \/ IS_Z(c)
IS_BLANKZ(c) == IS_BLANK(c) \/ IS_BREAKZ(c)
IS_ASCII(c) == c <= 127

\* Letters, digits, "_" and "-".
IS_ALPHA(c) == c \in 48..57 \/ c \in 65..90 \/ c \in 97..122 \/ c \in {95, DASH}

IS_DIGIT(c) == c \in 48..57
AS_DIGIT(c) == c - 48

IS_HEX(c) == IS_DIGIT(c) \/ c \in 65..70 \/ c \in 97..102
AS_HEX(c) == IF c \in 65..70 THEN c - 55 ELSE IF c \in 97..102 THEN c - 87 ELSE c - 48

\* What needs no escape.  No character of four octets is in it.
IS_PRINTABLE(c) ==
    \/ c = LF
    \/ c \in 32..126
    \/ c \in 160..55295
    \/ c \in 57344..65533 /\ c # BOM

\* Three of the same character, and a blank, a break or the end, at the margin.
IsDocumentIndicator(string, i, column) ==
    /\ column = 0
    /\ At(string, i) \in {DASH, DOT}
    /\ At(string, i + 1) = At(string, i) /\ At(string, i + 2) = At(string, i)
    /\ IS_BLANKZ(At(string, i + 3))

\* The first place from i on whose character is, or is not, of a class.
FirstPlace(string, i, class(_)) ==
    CHOOSE k \in i..(Len(string) + 1) :
       class(At(string, k)) /\ \A j \in i..(k - 1) : ~class(At(string, j))

=============================================================================

---------------------------- MODULE ScalarWriter ----------------------------
(***************************************************************************)
(* How the emitter writes a scalar (yaml_emitter_analyze_scalar and        *)
(* yaml_emitter_write_*_scalar of emitter.c), character by character: one  *)
(* iteration of the loop of a write function is one step.                  *)
(*                                                                         *)
(* A place is where the scalar stands: the flow level, the indent of the   *)
(* collection around it, the column and the flag whitespace before it,     *)
(* whether it is a simple key, and what follows it.  The scalar has no     *)
(* anchor and no tag, and both its implicit flags are set.  The flag       *)
(* indention is cleared before write_indent can read it.                   *)
(***************************************************************************)
EXTENDS Characters

CONSTANTS
    Texts,         \* the texts of scalars
    Styles,        \* the styles asked for
    Places,        \* where scalars stand
    BestIndent,    \* emitter.best_indent
    BestWidth,     \* emitter.best_width
    Unicode,       \* emitter.unicode
    LineBreak      \* what emitter.line_break stands for

ASSUME ScalarWriterAssumption ==
    /\ BestIndent \in 2..9
    /\ BestWidth > 2 * BestIndent
    /\ Unicode \in BOOLEAN
    /\ LineBreak \in {<<LF>>, <<CR>>, <<CR, LF>>}

VARIABLES
    text, asked, place,    \* the event
    writing,               \* "start", "text", "end" or "done"
    style,                 \* emitter.scalar_data.style
    w,                     \* the output, column, whitespace, indention, open_ended
    at,                    \* the next character of the text
    spaces, breaks,        \* what the character before it was
    leading_spaces         \* the line of a folded scalar starts with a blank

event == <<text, asked, place>>
loop == <<at, spaces, breaks, leading_spaces>>
writerVars == <<event, writing, style, w, loop>>

-----------------------------------------------------------------------------
(* The output.                                                             *)

PUT(o, c) == [o EXCEPT !.out = Append(@, c), !.column = @ + 1]

PUT_BREAK(o) == [o EXCEPT !.out = @ \o LineBreak, !.column = 0]

\* A break other than LF is copied.
WRITE_BREAK(o, c) ==
    IF c = LF THEN PUT_BREAK(o) ELSE [o EXCEPT !.out = Append(@, c), !.column = 0]

PutAll(o, cs) == [o EXCEPT !.out = @ \o cs, !.column = @ + Len(cs)]

write_indent(o, indent) ==
    LET i == IF indent >= 0 THEN indent ELSE 0
        b == IF ~o.indention \/ o.column > i \/ (o.column = i /\ ~o.whitespace)
             THEN PUT_BREAK(o) ELSE o
    IN [PutAll(b, [k \in 1..(i - b.column) |-> SP]) EXCEPT !.whitespace = TRUE, !.indention = TRUE]

\* None of the indicators of scalars is white space or indentation.
write_indicator(o, cs, need_whitespace) ==
    LET p == IF need_whitespace /\ ~o.whitespace THEN PUT(o, SP) ELSE o
    IN [PutAll(p, cs) EXCEPT !.whitespace = FALSE, !.indention = FALSE]

-----------------------------------------------------------------------------
(* The analysis.                                                           *)

\* What the scanner would take for an indicator, if the text were plain.
block_indicators(t) ==
    /\ t # <<>>
    /\ \/ t[1] \in {HASH, COMMA, LBRACKET, RBRACKET, LBRACE, RBRACE, AMPERSAND, STAR, BANG, BAR,
                    GREATER, QUOTE, DQUOTE, PERCENT, AT_SIGN, BACKQUOTE}
       \/ t[1] \in {QUESTION, COLON, DASH} /\ IS_BLANKZ(At(t, 2))
       \/ \E c \in {DASH, DOT} : \A i \in 1..3 : At(t, i) = c
       \/ \E i \in 2..Len(t) :
             \/ t[i] = COLON /\ IS_BLANKZ(At(t, i + 1))
             \/ t[i] = HASH /\ IS_BLANKZ(t[i - 1])

\* And in a flow collection.
flow_indicators(t) ==
    \/ block_indicators(t)
    \/ t # <<>> /\ t[1] \in {QUESTION, COLON}
    \/ \E i \in 2..Len(t) : t[i] \in FlowIndicators \cup {COLON}

Follows(t, first(_), second(_)) == \E i \in 1..(Len(t) - 1) : first(t[i]) /\ second(t[i + 1])

\* The styles that can hold the text, and whether it has several lines.
analyze_scalar(t) ==
    LET edges == IF t = <<>> THEN {} ELSE {t[1], t[Len(t)]}
        outer == \E c \in edges : IS_SPACE(c) \/ IS_BREAK(c)
        line_breaks == \E i \in DOMAIN t : IS_BREAK(t[i])
        break_space == Follows(t, IS_BREAK, IS_SPACE)
        special == \/ Follows(t, IS_SPACE, IS_BREAK)
                   \/ \E i \in DOMAIN t : ~IS_PRINTABLE(t[i]) \/ (~IS_ASCII(t[i]) /\ ~Unicode)
        unplain == outer \/ break_space \/ special \/ line_breaks
    IN [multiline |-> line_breaks,
        flow_plain |-> t # <<>> /\ ~unplain /\ ~flow_indicators(t),
        block_plain |-> ~unplain /\ ~block_indicators(t),
        single |-> ~break_space /\ ~special,
        block |-> t # <<>> /\ ~special /\ ~IS_SPACE(t[Len(t)])]

select_scalar_style ==
    LET data == analyze_scalar(text)
        first == IF place.simple /\ data.multiline THEN "DOUBLE" ELSE asked
        unplain == \/ place.level > 0 /\ ~data.flow_plain
                   \/ place.level = 0 /\ ~data.block_plain
                   \/ text = <<>> /\ (place.level > 0 \/ place.simple)
        second == IF first = "PLAIN" /\ unplain THEN "SINGLE" ELSE first
    IN IF \/ second = "SINGLE" /\ ~data.single
          \/ second \in {"LITERAL", "FOLDED"} /\ (~data.block \/ place.level > 0 \/ place.simple)
       THEN "DOUBLE" ELSE second

-----------------------------------------------------------------------------
(* The loops.                                                              *)

\* Only a simple key has to stay on one line.
allow_breaks == ~place.simple

\* emitter.indent while the scalar is written: increase_indent(1, 0).
indent == IF place.indent < 0 THEN BestIndent ELSE place.indent + BestIndent

c == At(text, at)
next == At(text, at + 1)

\* A space in a long line becomes a break.
TooLong == w.column > BestWidth

Step(o, sp, br, ld) ==
    /\ w' = o
    /\ spaces' = sp /\ breaks' = br /\ leading_spaces' = ld
    /\ at' = at + 1
    /\ UNCHANGED <<event, writing, style>>

InText(s) == writing = "text" /\ at <= Len(text) /\ style = s

\* The character after breaks starts a new line of the output.
OnNewLine(o) == IF breaks THEN write_indent(o, indent) ELSE o

Unindented(o) == [o EXCEPT !.indention = FALSE]
Indented(o) == [o EXCEPT !.indention = TRUE]

\* The first LF in a row is doubled, as one alone would be read as a space.
BreakLine(o) == Indented(WRITE_BREAK(IF ~breaks /\ c = LF THEN PUT_BREAK(o) ELSE o, c))

\* No break is reached: a text with breaks is never plain.
write_plain_scalar ==
    /\ InText("PLAIN")
    /\ \/ /\ IS_SPACE(c)
          /\ Step(IF allow_breaks /\ ~spaces /\ TooLong /\ ~IS_SPACE(next)
                  THEN write_indent(w, indent) ELSE PUT(w, c), TRUE, breaks, FALSE)
       \/ ~IS_SPACE(c) /\ Step(Unindented(PUT(OnNewLine(w), c)), FALSE, FALSE, FALSE)

\* Faulty variant: a space before another one becomes a break too.
MayFold_pairs == allow_breaks /\ ~spaces /\ TooLong /\ at # 1 /\ at # Len(text)

\* Whether a space in single quotes becomes a break.
MayFold == allow_breaks /\ ~spaces /\ TooLong /\ at # 1 /\ at # Len(text) /\ ~IS_SPACE(next)

write_single_quoted_scalar ==
    /\ InText("SINGLE")
    /\ \/ /\ IS_SPACE(c)
          /\ Step(IF MayFold THEN write_indent(w, indent) ELSE PUT(w, c), TRUE, breaks, FALSE)
       \/ IS_BREAK(c) /\ Step(BreakLine(w), spaces, TRUE, FALSE)
       \/ /\ ~IS_SPACE(c) /\ ~IS_BREAK(c)
          /\ Step(Unindented(PutAll(OnNewLine(w), IF c = QUOTE THEN <<QUOTE, c>> ELSE <<c>>)),
                  FALSE, FALSE, FALSE)

\* The characters with an escape of their own: \0 \a \b \t \n \v \f \r \e \" \\
\* \N \_ \L \P.
Escapes ==
    {<<0, 48>>, <<7, 97>>, <<8, 98>>, <<9, 116>>, <<10, 110>>, <<11, 118>>, <<12, 102>>,
     <<13, 114>>, <<27, 101>>, <<34, 34>>, <<92, 92>>, <<133, 78>>, <<160, 95>>,
     <<8232, 76>>, <<8233, 80>>}

Digits(value, n) ==
    [k \in 1..n |-> LET d == (value \div 16^(n - k)) % 16 IN IF d < 10 THEN 48 + d ELSE 55 + d]

\* "x", "u" or "U" and the code.
EscapeCode(value) ==
    IF value <= 255 THEN <<120>> \o Digits(value, 2)
    ELSE IF value <= 65535 THEN <<117>> \o Digits(value, 4)
    ELSE <<85>> \o Digits(value, 8)

Escaped(value) ==
    IF \E e \in Escapes : e[1] = value
    THEN <<BACKSLASH, (CHOOSE e \in Escapes : e[1] = value)[2]>>
    ELSE <<BACKSLASH>> \o EscapeCode(value)

MustEscape(ch) ==
    \/ ~IS_PRINTABLE(ch) \/ (~Unicode /\ ~IS_ASCII(ch))
    \/ ch = BOM \/ IS_BREAK(ch) \/ ch \in {DQUOTE, BACKSLASH}

\* A space that becomes a break is followed by an escaped one.
FoldedSpace(o) ==
    LET b == write_indent(o, indent) IN IF IS_SPACE(next) THEN PUT(b, BACKSLASH) ELSE b

write_double_quoted_scalar ==
    /\ InText("DOUBLE")
    /\ \/ MustEscape(c) /\ Step(PutAll(w, Escaped(c)), FALSE, FALSE, FALSE)
       \/ /\ IS_SPACE(c)
          /\ Step(IF allow_breaks /\ ~spaces /\ TooLong /\ at # 1 /\ at # Len(text)
                  THEN FoldedSpace(w) ELSE PUT(w, c), TRUE, FALSE, FALSE)
       \/ ~MustEscape(c) /\ ~IS_SPACE(c) /\ Step(PUT(w, c), FALSE, FALSE, FALSE)

write_literal_scalar ==
    /\ InText("LITERAL")
    /\ \/ IS_BREAK(c) /\ Step(Indented(WRITE_BREAK(w, c)), FALSE, TRUE, FALSE)
       \/ ~IS_BREAK(c) /\ Step(Unindented(PUT(OnNewLine(w), c)), FALSE, FALSE, FALSE)

\* Whether the breaks are followed by a line that may be joined to this one.
JoinsNextLine ==
    LET NotBreak(ch) == ~IS_BREAK(ch) IN ~IS_BLANKZ(At(text, FirstPlace(text, at, NotBreak)))

write_folded_scalar ==
    /\ InText("FOLDED")
    /\ \/ /\ IS_BREAK(c)
          /\ LET double == ~breaks /\ ~leading_spaces /\ c = LF /\ JoinsNextLine IN
             Step(Indented(WRITE_BREAK(IF double THEN PUT_BREAK(w) ELSE w, c)),
                  FALSE, TRUE, leading_spaces)
       \/ /\ ~IS_BREAK(c)
          /\ LET fold == ~breaks /\ IS_SPACE(c) /\ ~IS_SPACE(next) /\ TooLong IN
             Step(Unindented(IF fold THEN write_indent(w, indent) ELSE PUT(OnNewLine(w), c)),
                  FALSE, FALSE, IF breaks THEN IS_BLANK(c) ELSE leading_spaces)

-----------------------------------------------------------------------------
(* The rest of yaml_emitter_emit_scalar.                                   *)

EndsInBreak == text # <<>> /\ IS_BREAK(text[Len(text)])
Keeps == EndsInBreak /\ (Len(text) = 1 \/ IS_BREAK(text[Len(text) - 1]))

\* The hints for the indent and for the breaks at the end.
write_block_scalar_hints(o) ==
    LET hint == IF IS_SPACE(At(text, 1)) \/ IS_BREAK(At(text, 1)) THEN <<48 + BestIndent>> ELSE <<>>
        chomp == IF ~EndsInBreak THEN <<DASH>> ELSE IF Keeps THEN <<PLUS>> ELSE <<>>
    IN [write_indicator(o, hint \o chomp, FALSE) EXCEPT !.open_ended = IF Keeps THEN 2 ELSE 0]

BlockHeader(o, indicator) ==
    [PUT_BREAK(write_block_scalar_hints(write_indicator(o, <<indicator>>, TRUE)))
        EXCEPT !.indention = TRUE, !.whitespace = TRUE]

\* What is written before the text.
Opening(s) ==
    CASE s = "PLAIN" -> IF ~w.whitespace /\ (text # <<>> \/ place.level > 0) THEN PUT(w, SP) ELSE w
      [] s = "SINGLE" -> write_indicator(w, <<QUOTE>>, TRUE)
      [] s = "DOUBLE" -> write_indicator(w, <<DQUOTE>>, TRUE)
      [] s = "LITERAL" -> BlockHeader(w, BAR)
      [] s = "FOLDED" -> BlockHeader(w, GREATER)

process_scalar ==
    /\ writing = "start"
    /\ style' = select_scalar_style
    /\ w' = Opening(select_scalar_style)
    /\ breaks' = (select_scalar_style \in {"LITERAL", "FOLDED"})
    /\ leading_spaces' = TRUE
    /\ writing' = "text"
    /\ UNCHANGED <<event, at, spaces>>

\* The end of the loop.
end_scalar ==
    /\ writing = "text" /\ at > Len(text)
    /\ w' = CASE style = "PLAIN" -> [w EXCEPT !.whitespace = FALSE, !.indention = FALSE]
              [] style = "SINGLE" -> write_indicator(OnNewLine(w), <<QUOTE>>, FALSE)
              [] style = "DOUBLE" -> write_indicator(w, <<DQUOTE>>, FALSE)
              [] OTHER -> w
    /\ writing' = "end"
    /\ UNCHANGED <<event, style, loop>>

\* What the next event writes: ":" after a simple key, "," after an item of a
\* flow collection, the next entry of a block collection or the end of the
\* document and of the stream.
write_next ==
    /\ writing = "end"
    /\ w' = CASE place.after = "value" -> PutAll(w, <<COLON, SP>>)
              [] place.after = "item" -> PutAll(w, <<COMMA, SP>>)
              [] place.after = "entry" -> PUT(write_indent(w, place.indent), 107)
              [] place.after = "end" ->
                    LET b == write_indent(w, -1) IN
                    IF w.open_ended = 2 THEN PUT_BREAK(PutAll(b, <<DOT, DOT, DOT>>)) ELSE b
    /\ writing' = "done"
    /\ UNCHANGED <<event, style, loop>>

WriterInit ==
    /\ text \in Texts /\ asked \in Styles /\ place \in Places
    /\ writing = "start"
    /\ style = "NONE"
    /\ w = [out |-> <<>>, column |-> place.column, whitespace |-> place.whitespace,
            indention |-> place.whitespace, open_ended |-> 0]
    /\ at = 1
    /\ spaces = FALSE /\ breaks = FALSE /\ leading_spaces = FALSE

WriterNext ==
    \/ process_scalar
    \/ write_plain_scalar \/ write_single_quoted_scalar \/ write_double_quoted_scalar
    \/ write_literal_scalar \/ write_folded_scalar
    \/ end_scalar \/ write_next

=============================================================================

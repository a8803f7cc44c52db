---------------------------- MODULE ScalarScanner ---------------------------
(***************************************************************************)
(* How the scanner reads a scalar (yaml_parser_scan_plain_scalar,          *)
(* _flow_scalar, _block_scalar and _block_scalar_breaks of scanner.c) and  *)
(* how the dispatcher yaml_parser_fetch_next_token gets there.  One        *)
(* iteration of an inner loop, or the code between two of them, is one     *)
(* step.                                                                   *)
(***************************************************************************)
EXTENDS Characters

VARIABLES
    input,         \* the characters from the scalar on
    context,       \* parser.flow_level and parser.indent
    scanning,      \* where the functions are; "done" or "error" at the end
    p              \* their variables: pos and column of the next character;
                   \* string, leading_break, trailing_breaks, whitespaces;
                   \* leading_blanks, leading_blank; quote; literal, chomping,
                   \* indent, max_indent

scannerVars == <<input, context, scanning, p>>

Here == At(input, p.pos)
After(n) == At(input, p.pos + n)

Goto(label, q) == scanning' = label /\ p' = q /\ UNCHANGED <<input, context>>
set_scanner_error == Goto("error", p)

-----------------------------------------------------------------------------
(* Characters and lines.                                                   *)

SKIP(q, n) == [q EXCEPT !.pos = @ + n, !.column = @ + n]

\* READ_LINE: every break but LS and PS is read as LF, and CR LF as one.
LineBreakAt(i) ==
    LET c == At(input, i) IN
    IF c \in {CR, LF, NEL} THEN <<LF>> ELSE IF c \in {LS, PS} THEN <<c>> ELSE <<>>
WidthOfBreak(i) ==
    IF At(input, i) = CR /\ At(input, i + 1) = LF THEN 2 ELSE Len(LineBreakAt(i))
SKIP_LINE(q) ==
    LET width == WidthOfBreak(q.pos) IN
    IF width = 0 THEN q ELSE [q EXCEPT !.pos = @ + width, !.column = 0]

\* Faulty variant: a single break between lines is kept.
FoldedBreaks_kept(leading, trailing) == leading \o trailing

\* The breaks between two lines: one LF is a space, more are one fewer.
FoldedBreaks(leading, trailing) ==
    IF leading = <<LF>> THEN (IF trailing = <<>> THEN <<SP>> ELSE trailing)
    ELSE leading \o trailing

\* The string, with the breaks or the blanks before the next line or word.
Joined(q) ==
    [q EXCEPT !.string = @ \o IF q.leading_blanks
                              THEN FoldedBreaks(q.leading_break, q.trailing_breaks)
                              ELSE q.whitespaces,
              !.leading_break = IF q.leading_blanks THEN <<>> ELSE @,
              !.trailing_breaks = IF q.leading_blanks THEN <<>> ELSE @,
              !.whitespaces = IF q.leading_blanks THEN @ ELSE <<>>]

READ(q) == SKIP([q EXCEPT !.string = Append(@, At(input, q.pos))], 1)

\* A blank or a break after a word, in plain and in quoted scalars.
ReadBlank(q) ==
    IF q.leading_blanks THEN SKIP(q, 1)
    ELSE SKIP([q EXCEPT !.whitespaces = Append(@, Here)], 1)
ReadBreak(q) ==
    IF ~q.leading_blanks
    THEN SKIP_LINE([q EXCEPT !.whitespaces = <<>>, !.leading_break = LineBreakAt(q.pos),
                             !.leading_blanks = TRUE])
    ELSE SKIP_LINE([q EXCEPT !.trailing_breaks = @ \o LineBreakAt(q.pos)])

-----------------------------------------------------------------------------
(* The dispatcher.                                                         *)

\* Whether a plain scalar starts here, no indicator having been found.
StartsPlain ==
    \/ ~(IS_BLANKZ(Here) \/ Here \in FlowIndicators \cup
           {DASH, COLON, HASH, AMPERSAND, STAR, BANG, BAR, GREATER, QUOTE, DQUOTE, PERCENT,
            AT_SIGN, BACKQUOTE})
    \/ Here = DASH /\ ~IS_BLANK(After(1))
    \/ context.level = 0 /\ Here \in {QUESTION, COLON} /\ ~IS_BLANKZ(After(1))

\* Whether another token than a scalar starts here.
StartsOther ==
    \/ IS_Z(Here)
    \/ p.column = 0 /\ Here = PERCENT
    \/ IsDocumentIndicator(input, p.pos, p.column)
    \/ Here \in {LBRACKET, LBRACE, RBRACKET, RBRACE, COMMA, STAR, AMPERSAND, BANG}
    \/ Here = DASH /\ IS_BLANKZ(After(1))
    \/ Here \in {QUESTION, COLON} /\ (context.level > 0 \/ IS_BLANKZ(After(1)))

\* Blanks before the token are skipped; a comment, or the end of the line,
\* would mean that there is no scalar.
fetch_next_token ==
    /\ scanning = "start"
    /\ \/ IS_SPACE(Here) /\ Goto("start", SKIP(p, 1))
       \/ ~IS_SPACE(Here) /\ StartsOther /\ Goto("other", p)
       \/ /\ ~IS_SPACE(Here) /\ ~StartsOther
          /\ CASE Here \in {BAR, GREATER} /\ context.level = 0 ->
                     Goto("header", [SKIP(p, 1) EXCEPT !.literal = (Here = BAR)])
               [] Here \in {QUOTE, DQUOTE} -> Goto("flow", [SKIP(p, 1) EXCEPT !.quote = Here])
               [] Here \notin {QUOTE, DQUOTE} /\ StartsPlain -> Goto("plain", p)
               [] OTHER -> set_scanner_error

-----------------------------------------------------------------------------
(* Quoted scalars.                                                         *)

single == p.quote = QUOTE

\* The start of a line or of a word.
scan_flow_line ==
    /\ scanning = "flow"
    /\ IF IsDocumentIndicator(input, p.pos, p.column) \/ IS_Z(Here) THEN set_scanner_error
       ELSE Goto("flow text", [p EXCEPT !.leading_blanks = FALSE])

\* \0 \a \b \t (or a tab) \n \v \f \r \e \  \" \/ \\ \N \_ \L \P
EscapeCharacters ==
    {<<48, 0>>, <<97, 7>>, <<98, 8>>, <<116, 9>>, <<9, 9>>, <<110, 10>>, <<118, 11>>, <<102, 12>>,
     <<114, 13>>, <<101, 27>>, <<32, 32>>, <<34, 34>>, <<47, 47>>, <<92, 92>>, <<78, 133>>,
     <<95, 160>>, <<76, 8232>>, <<80, 8233>>}

\* The digits after \x, \u and \U.
CodeLength(ch) == CASE ch = 120 -> 2 [] ch = 117 -> 4 [] ch = 85 -> 8 [] OTHER -> 0

\* Their value, read from the left.
CodeValue(i, n) ==
    LET value[k \in 0..n] == IF k = 0 THEN 0 ELSE 16 * value[k - 1] + AS_HEX(At(input, i + k - 1))
    IN value[n]

scan_escape ==
    LET n == CodeLength(After(1))
        hex == \A k \in 2..(n + 1) : IS_HEX(After(k))
        value == CodeValue(p.pos + 2, n)
        Add(ch) == Goto("flow text", SKIP([p EXCEPT !.string = Append(@, ch)], 2 + n))
    IN
    CASE \E e \in EscapeCharacters : e[1] = After(1) ->
            Add((CHOOSE e \in EscapeCharacters : e[1] = After(1))[2])
      [] n > 0 /\ hex /\ value \notin 55296..57343 /\ value <= 1114111 -> Add(value)
      [] OTHER -> set_scanner_error

\* One character that is no blank, or the end of a word.
scan_flow_text ==
    /\ scanning = "flow text"
    /\ CASE IS_BLANKZ(Here) -> Goto("flow blanks", p)
         [] single /\ Here = QUOTE /\ After(1) = QUOTE ->
               Goto("flow text", SKIP([p EXCEPT !.string = Append(@, QUOTE)], 2))
         [] Here = p.quote /\ ~(single /\ After(1) = QUOTE) -> Goto("done", SKIP(p, 1))
         [] ~single /\ Here = BACKSLASH /\ IS_BREAK(After(1)) ->
               LET q == SKIP_LINE(SKIP([p EXCEPT !.leading_blanks = TRUE], 1)) IN
               IF At(input, q.pos) = p.quote THEN Goto("done", SKIP(q, 1))
               ELSE Goto("flow blanks", q)
         [] ~single /\ Here = BACKSLASH /\ ~IS_BREAK(After(1)) -> scan_escape
         [] OTHER -> Goto("flow text", READ(p))

scan_flow_blanks ==
    /\ scanning = "flow blanks"
    /\ CASE IS_BLANK(Here) -> Goto("flow blanks", ReadBlank(p))
         [] IS_BREAK(Here) -> Goto("flow blanks", ReadBreak(p))
         [] OTHER -> Goto("flow", Joined(p))

-----------------------------------------------------------------------------
(* Plain scalars.                                                          *)

\* A document indicator or a comment ends the scalar.
scan_plain_line ==
    /\ scanning = "plain"
    /\ Goto(IF IsDocumentIndicator(input, p.pos, p.column) \/ Here = HASH
            THEN "done" ELSE "plain text", p)

EndsPlain ==
    \/ Here = COLON /\ IS_BLANKZ(After(1))
    \/ context.level > 0 /\ Here \in {COMMA, LBRACKET, RBRACKET, LBRACE, RBRACE}

\* One character that is no blank, or the end of a word or of the scalar.
scan_plain_text ==
    /\ scanning = "plain text"
    /\ CASE IS_BLANKZ(Here) \/ EndsPlain ->
               Goto(IF IS_BLANK(Here) \/ IS_BREAK(Here) THEN "plain blanks" ELSE "done", p)
         [] context.level > 0 /\ Here = COLON /\ After(1) \in FlowIndicators -> set_scanner_error
         [] OTHER -> Goto("plain text", [READ(Joined(p)) EXCEPT !.leading_blanks = FALSE])

scan_plain_blanks ==
    /\ scanning = "plain blanks"
    /\ CASE Here = TAB /\ p.leading_blanks /\ p.column < context.indent + 1 -> set_scanner_error
         [] IS_BLANK(Here) /\ ~(Here = TAB /\ p.leading_blanks /\ p.column < context.indent + 1) ->
               Goto("plain blanks", ReadBlank(p))
         [] IS_BREAK(Here) -> Goto("plain blanks", ReadBreak(p))
         [] OTHER -> Goto(IF context.level = 0 /\ p.column < context.indent + 1
                          THEN "done" ELSE "plain", p)

-----------------------------------------------------------------------------
(* Block scalars.                                                          *)

Chomping(ch) == IF ch = PLUS THEN 1 ELSE -1

\* The indicators after "|" and ">", blanks, a comment and the break.
scan_block_header ==
    LET chomps == {PLUS, DASH}
        two == \/ Here \in chomps /\ IS_DIGIT(After(1))
               \/ IS_DIGIT(Here) /\ After(1) \in chomps
        n == IF two THEN 2 ELSE IF Here \in chomps \/ IS_DIGIT(Here) THEN 1 ELSE 0
        hints == {After(k) : k \in 0..(n - 1)}
        increment == IF \E h \in hints : IS_DIGIT(h)
                     THEN AS_DIGIT(CHOOSE h \in hints : IS_DIGIT(h)) ELSE 0
        NotBlank(ch) == ~IS_BLANK(ch)
        blanks == FirstPlace(input, p.pos + n, NotBlank)
        end == IF At(input, blanks) = HASH THEN FirstPlace(input, blanks, IS_BREAKZ) ELSE blanks
        base == IF context.indent >= 0 THEN context.indent ELSE 0
    IN
    /\ scanning = "header"
    /\ IF 48 \in hints \/ ~IS_BREAKZ(At(input, end)) THEN set_scanner_error
       ELSE Goto("breaks",
                 [SKIP_LINE(SKIP(p, end - p.pos)) EXCEPT
                    !.chomping = IF hints \cap chomps = {} THEN 0
                                 ELSE Chomping(CHOOSE h \in hints : h \in chomps),
                    !.indent = IF increment > 0 THEN base + increment ELSE 0,
                    !.max_indent = 0])

\* The indent, when nothing has given it yet: that of the first lines.
DeterminedIndent(max) ==
    LET least == IF context.indent >= 0 THEN context.indent + 1 ELSE 1
    IN IF max < least THEN least ELSE max

\* One iteration of yaml_parser_scan_block_scalar_breaks: the indentation of a
\* line, and its break if the line is empty.
scan_block_scalar_breaks ==
    LET NotSpace(ch) == ~IS_SPACE(ch)
        run == FirstPlace(input, p.pos, NotSpace) - p.pos
        n == IF p.indent = 0 \/ p.column + run <= p.indent THEN run
             ELSE IF p.column < p.indent THEN p.indent - p.column ELSE 0
        q == SKIP(p, n)
        max == IF q.column > p.max_indent THEN q.column ELSE p.max_indent
        ch == At(input, q.pos)
    IN
    /\ scanning = "breaks"
    /\ CASE ch = TAB /\ (p.indent = 0 \/ q.column < p.indent) -> set_scanner_error
         [] IS_BREAK(ch) ->
               Goto("breaks", SKIP_LINE([q EXCEPT !.trailing_breaks = @ \o LineBreakAt(q.pos),
                                                  !.max_indent = max]))
         [] OTHER -> Goto("line", [q EXCEPT !.indent = IF @ = 0 THEN DeterminedIndent(max) ELSE @])

\* Whether the break before the line is folded.
Folds == ~p.literal /\ p.leading_break = <<LF>> /\ ~p.leading_blank /\ ~IS_BLANK(Here)

\* One line of the text, with its break.
scan_block_line ==
    LET end == FirstPlace(input, p.pos, IS_BREAKZ)
        before == IF ~Folds THEN p.leading_break
                  ELSE IF p.trailing_breaks = <<>> THEN <<SP>> ELSE <<>>
        line == SubSeq(input, p.pos, end - 1)
    IN
    /\ scanning = "line" /\ p.column = p.indent /\ ~IS_Z(Here)
    /\ Goto("breaks",
            SKIP_LINE([SKIP(p, end - p.pos) EXCEPT
                         !.string = @ \o before \o p.trailing_breaks \o line,
                         !.leading_blank = IS_BLANK(Here),
                         !.leading_break = LineBreakAt(end),
                         !.trailing_breaks = <<>>,
                         !.max_indent = 0]))

\* Chomp the tail.
scan_block_end ==
    /\ scanning = "line" /\ ~(p.column = p.indent /\ ~IS_Z(Here))
    /\ Goto("done", [p EXCEPT !.string = @ \o (IF p.chomping # -1 THEN p.leading_break ELSE <<>>)
                                            \o (IF p.chomping = 1 THEN p.trailing_breaks ELSE <<>>)])

-----------------------------------------------------------------------------

\* The variables of the functions, when the scanner is at the column.
Fresh(column) ==
    [pos |-> 1, column |-> column, string |-> <<>>, leading_break |-> <<>>,
     trailing_breaks |-> <<>>, whitespaces |-> <<>>, leading_blanks |-> FALSE,
     leading_blank |-> FALSE, quote |-> NUL, literal |-> FALSE, chomping |-> 0, indent |-> 0,
     max_indent |-> 0]

ScannerNext ==
    \/ fetch_next_token
    \/ scan_flow_line \/ scan_flow_text \/ scan_flow_blanks
    \/ scan_plain_line \/ scan_plain_text \/ scan_plain_blanks
    \/ scan_block_header \/ scan_block_scalar_breaks \/ scan_block_line \/ scan_block_end

=============================================================================

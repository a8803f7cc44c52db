------------------------------ MODULE Scanner ------------------------------
(***************************************************************************)
(* The scanner: the queue of tokens between the reader and the parser, and *)
(* what decides which tokens go into it and where (scanner.c, scanner.rs). *)
(*                                                                         *)
(* YAML does not mark a simple key ("key: value"): the scanner finds out   *)
(* that a token was a key when it meets the ":" behind it.  So it keeps,   *)
(* for every flow level, one place in the queue where a KEY token, and     *)
(* perhaps a BLOCK-MAPPING-START, may still have to go, and holds back the *)
(* tokens from that place on until the question is settled.                *)
(*                                                                         *)
(* Text is abstracted to the marks it moves the scanner to.  What the      *)
(* lexical scan_* functions collect is left out; that they advance, and    *)
(* where, that they may fail, and what they do to simple_key_allowed, is   *)
(* kept.  fetch_next_token is two steps: find_next_token skips blanks and  *)
(* unrolls the indentation, then one fetch_* handles the lexeme found.     *)
(*                                                                         *)
(* Every failure sets parser.error, after which neither yaml_parser_scan   *)
(* nor yaml_parser_parse looks at the scanner again: what a failing step   *)
(* leaves of the other variables is not modelled.                          *)
(***************************************************************************)
EXTENDS Integers, Sequences, FiniteSets, SequencesExt

CONSTANTS
    MaxIndex,   \* bound: the longest input, in characters
    KeyLimit,   \* how long a simple key may be: 1024
    IntMax      \* the largest value of a C int: 2147483647

ASSUME ScannerAssumption == MaxIndex \in Nat /\ KeyLimit \in Nat /\ IntMax \in Nat \ {0}

VARIABLES
    mark,                   \* parser.mark: where the next character is
    ahead,                  \* what a handler has found out about that character
    phase,                  \* "next": before a token; "lexeme": at its first character
    tokens,                 \* parser.tokens, head first
    tokens_parsed,          \* how many tokens have been taken from the queue
    token_available,        \* whether the token at the head may be taken
    stream_start_produced, stream_end_produced,
    simple_keys,            \* parser.simple_keys: one per flow level, and one
    simple_key_allowed,
    flow_level,
    indent, indents,        \* the current indentation and the stack below it
    error,
    open_blocks             \* history: block collections open in the tokens taken

vars == <<mark, ahead, phase, tokens, tokens_parsed, token_available,
          stream_start_produced, stream_end_produced, simple_keys,
          simple_key_allowed, flow_level, indent, indents, error, open_blocks>>

-----------------------------------------------------------------------------
(* Marks and text.                                                         *)

Marks == [index : 0..MaxIndex, line : 0..(MaxIndex + 1), column : 0..MaxIndex]

\* Where reading text can take the scanner from m: SKIP and READ go on by one
\* character, SKIP_LINE and READ_LINE to the start of the next line.
Reach(m) ==
    {n \in [index : m.index..MaxIndex, line : m.line..(m.line + MaxIndex - m.index),
            column : 0..MaxIndex] :
        \/ n.line = m.line /\ n.column - m.column = n.index - m.index
        \/ n.line > m.line /\ n.column + (n.line - m.line) <= n.index - m.index}

\* The same after at least one character.
ReachBeyond(m) == {n \in Reach(m) : n.index > m.index}

\* After n characters of the same line.
SKIP(n) == [mark EXCEPT !.index = @ + n, !.column = @ + n]

Tok(type, m) == [type |-> type, index |-> m.index]

BlockStarts == {"BLOCK_SEQUENCE_START", "BLOCK_MAPPING_START"}
TokenTypes ==
    BlockStarts \cup
    {"STREAM_START", "STREAM_END", "DIRECTIVE", "DOCUMENT_START", "DOCUMENT_END",
     "BLOCK_END", "FLOW_SEQUENCE_START", "FLOW_SEQUENCE_END", "FLOW_MAPPING_START",
     "FLOW_MAPPING_END", "BLOCK_ENTRY", "FLOW_ENTRY", "KEY", "VALUE", "ALIAS",
     "ANCHOR", "TAG", "SCALAR"}

Fail(err) ==
    /\ error' = err
    /\ UNCHANGED <<mark, ahead, phase, tokens, tokens_parsed, token_available,
                   stream_start_produced, stream_end_produced, simple_keys,
                   simple_key_allowed, flow_level, indent, indents, open_blocks>>

-----------------------------------------------------------------------------
(* Simple keys.  The other fields of a key that is not possible are never  *)
(* read.                                                                   *)

NoKey == [possible |-> FALSE, required |-> FALSE, token_number |-> 0,
          mark |-> [index |-> 0, line |-> 0, column |-> 0]]

IsStale(key, m) ==
    /\ key.possible
    /\ key.mark.line < m.line \/ key.mark.index + KeyLimit < m.index

\* The keys yaml_parser_stale_simple_keys leaves at the mark m.
stale_simple_keys(keys, m) ==
    [i \in DOMAIN keys |-> IF IsStale(keys[i], m) THEN NoKey ELSE keys[i]]

\* Faulty variant: only the innermost key is looked at.
StaleKeyRequired_innermost(keys, m) ==
    keys # <<>> /\ IsStale(Last(keys), m) /\ Last(keys).required

\* It fails instead when a key that is required is stale.
StaleKeyRequired(keys, m) ==
    \E i \in DOMAIN keys : IsStale(keys[i], m) /\ keys[i].required

SetTop(stack, x) == [stack EXCEPT ![Len(stack)] = x]

\* yaml_parser_remove_simple_key fails instead when this holds.
KeyRequired == Last(simple_keys).possible /\ Last(simple_keys).required
remove_simple_key == SetTop(simple_keys, NoKey)

\* The keys after yaml_parser_save_simple_key: the token about to be added to
\* the queue may turn out to start a key.
save_simple_key ==
    IF simple_key_allowed
    THEN SetTop(simple_keys,
                [possible |-> TRUE,
                 required |-> flow_level = 0 /\ indent = mark.column,
                 token_number |-> tokens_parsed + Len(tokens),
                 mark |-> mark])
    ELSE simple_keys

-----------------------------------------------------------------------------
(* Indentation.                                                            *)

\* How many of indents, and then indent itself, yaml_parser_unroll_indent keeps.
Kept(column) ==
    LET all == Append(indents, indent)
    IN CHOOSE i \in 1..Len(all) :
          all[i] <= column /\ \A j \in (i + 1)..Len(all) : all[j] > column

\* Faulty variant: at most one level is unrolled.
unroll_indent_once(column, m) ==
    LET all == Append(indents, indent)
        n == IF flow_level # 0 \/ indent <= column THEN Len(all) ELSE Len(all) - 1
    IN [ends |-> [i \in 1..(Len(all) - n) |-> Tok("BLOCK_END", m)],
        indent |-> all[n],
        indents |-> SubSeq(all, 1, n - 1)]

\* The BLOCK-END tokens yaml_parser_unroll_indent adds at the mark m, and the
\* indentation it leaves.
unroll_indent(column, m) ==
    LET all == Append(indents, indent)
        n == IF flow_level # 0 THEN Len(all) ELSE Kept(column)
    IN [ends |-> [i \in 1..(Len(all) - n) |-> Tok("BLOCK_END", m)],
        indent |-> all[n],
        indents |-> SubSeq(all, 1, n - 1)]

Rolls(column) == flow_level = 0 /\ indent < column

\* Faulty variant: the column is not checked.
ColumnTooLarge_never(column) == FALSE

\* yaml_parser_roll_indent: a block collection starts at column, which adds a
\* level.  It fails instead when the column is no C int.
ColumnTooLarge(column) == Rolls(column) /\ column > IntMax
roll_indent(column) ==
    IF Rolls(column) THEN /\ indent' = column
                          /\ indents' = Append(indents, indent)
                     ELSE UNCHANGED <<indent, indents>>

\* The token of the collection that roll_indent starts, if it starts one.
StartOf(type, m) == IF Rolls(m.column) THEN <<Tok(type, m)>> ELSE <<>>

-----------------------------------------------------------------------------
(* The scan_* functions: where the lexeme at mark can end.                 *)

\* The rest of the line and its break, unless the input ends there.
scan_directive ==
    {[mark |-> m, known |-> IF m.line = mark.line THEN "end" ELSE "any"] :
        m \in {n \in ReachBeyond(mark) :
                  n.line = mark.line \/ (n.line = mark.line + 1 /\ n.column = 0)}}

\* The indicator and at least one character of the name.
scan_anchor == {m \in ReachBeyond(mark) : m.line = mark.line /\ m.index > mark.index + 1}

scan_tag == {m \in ReachBeyond(mark) : m.line = mark.line}

\* At least the two quotes, over any number of lines.
scan_flow_scalar == {m \in ReachBeyond(mark) : m.index > mark.index + 1}

\* The blanks behind the scalar are taken too; leading_blanks says that there
\* is a line break among them.
scan_plain_scalar ==
    {end \in [mark : ReachBeyond(mark), leading_blanks : BOOLEAN] :
        end.leading_blanks => end.mark.line > mark.line /\ end.mark.index > mark.index + 1}

\* The header's line and the lines of the scalar, or the header alone if the
\* input ends in it.
scan_block_scalar ==
    {end \in [mark : ReachBeyond(mark), known : {"any", "end"}] :
        end.known = "any" => end.mark.line > mark.line}

\* The blanks, comments and line breaks in front of the next token.
scan_to_next_token == {m \in Reach(mark) : ahead = "end" => m = mark}

-----------------------------------------------------------------------------
(* The handlers.  A handler leaves the scanner at the mark m, before the   *)
(* next token.                                                             *)

Done(m, known) == mark' = m /\ ahead' = known /\ phase' = "next"
AtLexeme == error = "NO" /\ phase = "lexeme"
AtText == AtLexeme /\ ahead # "end"
Reading == <<tokens_parsed, token_available, stream_start_produced,
             stream_end_produced, error, open_blocks>>

fetch_stream_start ==
    /\ error = "NO" /\ phase = "next" /\ ~token_available
    /\ ~stream_start_produced
    /\ indent' = -1
    /\ simple_keys' = Append(simple_keys, NoKey)
    /\ simple_key_allowed' = TRUE
    /\ stream_start_produced' = TRUE
    /\ tokens' = Append(tokens, Tok("STREAM_START", mark))
    /\ UNCHANGED <<mark, ahead, phase, tokens_parsed, token_available,
                   stream_end_produced, flow_level, indents, error, open_blocks>>

\* Faulty variant: the mark stays on the line the input ends in.
EndMark_same_line == mark

\* yaml_parser_fetch_stream_end forces a new line.
EndMark ==
    IF mark.column = 0 THEN mark
    ELSE [mark EXCEPT !.line = @ + 1, !.column = 0]

fetch_stream_end ==
    LET unrolled == unroll_indent(-1, EndMark) IN
    /\ AtLexeme
    /\ \/ KeyRequired /\ Fail("SCANNER")
       \/ /\ ~KeyRequired
          /\ simple_keys' = remove_simple_key
          /\ simple_key_allowed' = FALSE
          /\ indent' = unrolled.indent
          /\ indents' = unrolled.indents
          /\ tokens' = tokens \o unrolled.ends \o <<Tok("STREAM_END", EndMark)>>
          /\ Done(EndMark, "end")
          /\ UNCHANGED flow_level
          /\ UNCHANGED Reading

\* A directive or a document indicator: both end every block collection.
fetch_at_margin(type, m, known) ==
    LET unrolled == unroll_indent(-1, mark) IN
    /\ AtText
    /\ mark.column = 0
    /\ \/ KeyRequired /\ Fail("SCANNER")
       \/ /\ ~KeyRequired
          /\ simple_keys' = remove_simple_key
          /\ simple_key_allowed' = FALSE
          /\ indent' = unrolled.indent
          /\ indents' = unrolled.indents
          /\ tokens' = tokens \o unrolled.ends \o <<Tok(type, mark)>>
          /\ Done(m, known)
          /\ UNCHANGED flow_level
          /\ UNCHANGED Reading

fetch_directive ==
    \/ \E end \in scan_directive : fetch_at_margin("DIRECTIVE", end.mark, end.known)
    \/ AtText /\ mark.column = 0 /\ Fail("SCANNER")

fetch_document_indicator(type) ==
    /\ SKIP(3) \in Reach(mark)
    /\ fetch_at_margin(type, SKIP(3), "blankz")

fetch_flow_collection_start(type) ==
    /\ AtText
    /\ SKIP(1) \in Reach(mark)
    /\ \/ simple_key_allowed /\ KeyRequired /\ Fail("SCANNER")
       \/ flow_level = IntMax /\ Fail("MEMORY")
       \/ /\ ~(simple_key_allowed /\ KeyRequired)
          /\ flow_level # IntMax
          /\ simple_keys' = Append(save_simple_key, NoKey)
          /\ flow_level' = flow_level + 1
          /\ simple_key_allowed' = TRUE
          /\ tokens' = Append(tokens, Tok(type, mark))
          /\ Done(SKIP(1), "any")
          /\ UNCHANGED <<indent, indents>>
          /\ UNCHANGED Reading

\* Faulty variant: the key of the level is popped when there is no level.
decrease_flow_level_always(keys) ==
    /\ flow_level' = IF flow_level = 0 THEN 0 ELSE flow_level - 1
    /\ simple_keys' = Front(keys)

decrease_flow_level(keys) ==
    IF flow_level # 0 THEN /\ flow_level' = flow_level - 1
                           /\ simple_keys' = Front(keys)
                      ELSE /\ UNCHANGED flow_level
                           /\ simple_keys' = keys

fetch_flow_collection_end(type) ==
    /\ AtText
    /\ SKIP(1) \in Reach(mark)
    /\ \/ KeyRequired /\ Fail("SCANNER")
       \/ /\ ~KeyRequired
          /\ decrease_flow_level(remove_simple_key)
          /\ simple_key_allowed' = FALSE
          /\ tokens' = Append(tokens, Tok(type, mark))
          /\ Done(SKIP(1), "any")
          /\ UNCHANGED <<indent, indents>>
          /\ UNCHANGED Reading

fetch_flow_entry ==
    /\ AtText
    /\ SKIP(1) \in Reach(mark)
    /\ \/ KeyRequired /\ Fail("SCANNER")
       \/ /\ ~KeyRequired
          /\ simple_keys' = remove_simple_key
          /\ simple_key_allowed' = TRUE
          /\ tokens' = Append(tokens, Tok("FLOW_ENTRY", mark))
          /\ Done(SKIP(1), "any")
          /\ UNCHANGED <<flow_level, indent, indents>>
          /\ UNCHANGED Reading

\* "-" and "?", which start a block collection that is not open yet.
fetch_indicator(type, start, allowed, known) ==
    /\ AtText
    /\ SKIP(1) \in Reach(mark)
    /\ \/ flow_level = 0 /\ ~simple_key_allowed /\ Fail("SCANNER")
       \/ ColumnTooLarge(mark.column) /\ Fail("MEMORY")
       \/ KeyRequired /\ Fail("SCANNER")
       \/ /\ flow_level = 0 => simple_key_allowed
          /\ ~ColumnTooLarge(mark.column)
          /\ ~KeyRequired
          /\ roll_indent(mark.column)
          /\ simple_keys' = remove_simple_key
          /\ simple_key_allowed' = allowed
          /\ tokens' = tokens \o StartOf(start, mark) \o <<Tok(type, mark)>>
          /\ Done(SKIP(1), known)
          /\ UNCHANGED flow_level
          /\ UNCHANGED Reading

fetch_block_entry == fetch_indicator("BLOCK_ENTRY", "BLOCK_SEQUENCE_START", TRUE, "blankz")

fetch_key ==
    fetch_indicator("KEY", "BLOCK_MAPPING_START", flow_level = 0,
                    IF flow_level = 0 THEN "blankz" ELSE "any")

\* Faulty variant: KEY is put where the scanner is, not where the key started.
KeyPlace_here(key) == Len(tokens) + 1

\* Where in the queue the token is that a simple key starts with.
KeyPlace(key) == key.token_number - tokens_parsed + 1

\* ":" behind a simple key: KEY, and BLOCK-MAPPING-START if the key opens a
\* mapping, are inserted in front of the token the key starts with.
fetch_value_of_key ==
    LET key == Last(simple_keys)
        at == KeyPlace(key)
        front == StartOf("BLOCK_MAPPING_START", key.mark) \o <<Tok("KEY", key.mark)>>
    IN
    /\ key.possible
    /\ \/ ColumnTooLarge(key.mark.column) /\ Fail("MEMORY")
       \/ /\ ~ColumnTooLarge(key.mark.column)
          /\ roll_indent(key.mark.column)
          /\ simple_keys' = remove_simple_key
          /\ simple_key_allowed' = FALSE
          /\ tokens' = SubSeq(tokens, 1, at - 1) \o front
                          \o SubSeq(tokens, at, Len(tokens)) \o <<Tok("VALUE", mark)>>
          /\ Done(SKIP(1), IF flow_level = 0 THEN "blankz" ELSE "any")
          /\ UNCHANGED flow_level
          /\ UNCHANGED Reading

fetch_value_alone ==
    /\ ~Last(simple_keys).possible
    /\ \/ flow_level = 0 /\ ~simple_key_allowed /\ Fail("SCANNER")
       \/ ColumnTooLarge(mark.column) /\ Fail("MEMORY")
       \/ /\ flow_level = 0 => simple_key_allowed
          /\ ~ColumnTooLarge(mark.column)
          /\ roll_indent(mark.column)
          /\ simple_key_allowed' = (flow_level = 0)
          /\ tokens' = tokens \o StartOf("BLOCK_MAPPING_START", mark) \o <<Tok("VALUE", mark)>>
          /\ Done(SKIP(1), IF flow_level = 0 THEN "blankz" ELSE "any")
          /\ UNCHANGED <<simple_keys, flow_level>>
          /\ UNCHANGED Reading

fetch_value ==
    /\ AtText
    /\ SKIP(1) \in Reach(mark)
    /\ fetch_value_of_key \/ fetch_value_alone

\* A token that may start a simple key, read up to the mark m.  Its text may
\* be malformed, and the key in whose place it comes may be required.
fetch_key_candidate(type, m, allowed, known) ==
    /\ AtText
    /\ \/ Fail("SCANNER")
       \/ /\ ~(simple_key_allowed /\ KeyRequired)
          /\ simple_keys' = save_simple_key
          /\ simple_key_allowed' = allowed
          /\ tokens' = Append(tokens, Tok(type, mark))
          /\ Done(m, known)
          /\ UNCHANGED <<flow_level, indent, indents>>
          /\ UNCHANGED Reading

fetch_anchor(type) == \E m \in scan_anchor : fetch_key_candidate(type, m, FALSE, "any")

fetch_tag ==
    \E m \in scan_tag :
       fetch_key_candidate("TAG", m, FALSE, IF flow_level = 0 THEN "blankz" ELSE "any")

fetch_flow_scalar == \E m \in scan_flow_scalar : fetch_key_candidate("SCALAR", m, FALSE, "any")

\* After a line break a simple key is allowed again.
fetch_plain_scalar ==
    \E end \in scan_plain_scalar :
       fetch_key_candidate("SCALAR", end.mark, end.leading_blanks, "any")

fetch_block_scalar ==
    \E end \in scan_block_scalar :
       /\ AtText
       /\ flow_level = 0
       /\ \/ Fail("SCANNER")
          \/ /\ ~KeyRequired
             /\ simple_keys' = remove_simple_key
             /\ simple_key_allowed' = TRUE
             /\ tokens' = Append(tokens, Tok("SCALAR", mark))
             /\ Done(end.mark, end.known)
             /\ UNCHANGED <<flow_level, indent, indents>>
             /\ UNCHANGED Reading

\* A character that cannot start any token.
fetch_nothing == AtText /\ mark.index < MaxIndex /\ Fail("SCANNER")

fetch_lexeme ==
    \/ fetch_stream_end
    \/ fetch_directive
    \/ \E t \in {"DOCUMENT_START", "DOCUMENT_END"} : fetch_document_indicator(t)
    \/ \E t \in {"FLOW_SEQUENCE_START", "FLOW_MAPPING_START"} : fetch_flow_collection_start(t)
    \/ \E t \in {"FLOW_SEQUENCE_END", "FLOW_MAPPING_END"} : fetch_flow_collection_end(t)
    \/ fetch_flow_entry
    \/ fetch_block_entry
    \/ fetch_key
    \/ fetch_value
    \/ \E t \in {"ALIAS", "ANCHOR"} : fetch_anchor(t)
    \/ fetch_tag
    \/ fetch_block_scalar
    \/ fetch_flow_scalar
    \/ fetch_plain_scalar
    \/ fetch_nothing

-----------------------------------------------------------------------------
(* fetch_more_tokens and the one who asks for tokens.                      *)

\* Faulty variant: a token that may be a key is not held back.
NeedMoreTokens_empty_only(keys) == tokens = <<>>

\* The queue is empty, or its head may turn out to start a simple key.
NeedMoreTokens(keys) ==
    \/ tokens = <<>>
    \/ \E i \in DOMAIN keys : keys[i].possible /\ keys[i].token_number = tokens_parsed

\* The keys fetch_more_tokens looks at: stale ones are dropped, unless the
\* queue is empty.
KeysNow == IF tokens = <<>> THEN simple_keys ELSE stale_simple_keys(simple_keys, mark)
KeysFail == tokens # <<>> /\ StaleKeyRequired(simple_keys, mark)

Fetching == error = "NO" /\ phase = "next" /\ ~token_available /\ ~stream_end_produced

\* scan_to_next_token, then stale_simple_keys and unroll_indent at the mark it
\* leads to.
find_next_token ==
    /\ Fetching /\ stream_start_produced
    /\ NeedMoreTokens(KeysNow) \/ KeysFail
    /\ \E m \in scan_to_next_token :
          LET unrolled == unroll_indent(m.column, m) IN
          /\ \/ /\ KeysFail \/ StaleKeyRequired(KeysNow, m)
                /\ Fail("SCANNER")
             \/ /\ ~KeysFail /\ ~StaleKeyRequired(KeysNow, m)
                /\ simple_keys' = stale_simple_keys(KeysNow, m)
                /\ simple_key_allowed' =
                      (simple_key_allowed \/ (m.line > mark.line /\ flow_level = 0))
                /\ tokens' = tokens \o unrolled.ends
                /\ indent' = unrolled.indent
                /\ indents' = unrolled.indents
                /\ mark' = m
                /\ ahead' = IF ahead # "any" /\ m = mark THEN "end" ELSE "any"
                /\ phase' = "lexeme"
                /\ UNCHANGED flow_level
                /\ UNCHANGED Reading

\* The reader fails.  (Any allocation may fail too, with the same effect.)
fetch_failed == Fetching /\ Fail("READER")

\* fetch_more_tokens leaves its loop.
make_available ==
    /\ Fetching /\ tokens # <<>>
    /\ ~KeysFail /\ ~NeedMoreTokens(KeysNow)
    /\ simple_keys' = KeysNow
    /\ token_available' = TRUE
    /\ UNCHANGED <<mark, ahead, phase, tokens, tokens_parsed, stream_start_produced,
                   stream_end_produced, simple_key_allowed, flow_level, indent,
                   indents, error, open_blocks>>

\* The token at the head is taken: DEQUEUE by yaml_parser_scan, skip_token by
\* the parser.
take_token ==
    /\ error = "NO" /\ token_available
    /\ tokens' = Tail(tokens)
    /\ token_available' = FALSE
    /\ tokens_parsed' = tokens_parsed + 1
    /\ stream_end_produced' = (Head(tokens).type = "STREAM_END")
    /\ open_blocks' = open_blocks + (IF Head(tokens).type \in BlockStarts THEN 1
                                     ELSE IF Head(tokens).type = "BLOCK_END" THEN -1 ELSE 0)
    /\ UNCHANGED <<mark, ahead, phase, stream_start_produced, simple_keys,
                   simple_key_allowed, flow_level, indent, indents, error>>

Init ==
    /\ mark = [index |-> 0, line |-> 0, column |-> 0]
    /\ ahead = "any"
    /\ phase = "next"
    /\ tokens = <<>>
    /\ tokens_parsed = 0
    /\ token_available = FALSE
    /\ stream_start_produced = FALSE
    /\ stream_end_produced = FALSE
    /\ simple_keys = <<>>
    /\ simple_key_allowed = FALSE
    /\ flow_level = 0
    /\ indent = 0
    /\ indents = <<>>
    /\ error = "NO"
    /\ open_blocks = 0

\* After the end of the stream or an error yaml_parser_scan gives no token.
scan_nothing == (stream_end_produced \/ error # "NO") /\ UNCHANGED vars

Next ==
    \/ fetch_stream_start \/ find_next_token \/ fetch_lexeme \/ fetch_failed
    \/ make_available \/ take_token \/ scan_nothing

Spec == Init /\ [][Next]_vars

-----------------------------------------------------------------------------

\* The types of the scanner's variables; flow_level and indent stay C ints.
TypeOK ==
    /\ mark \in [index : Nat, line : Nat, column : Nat]
    /\ ahead \in {"any", "blankz", "end"}
    /\ phase \in {"next", "lexeme"}
    /\ tokens \in Seq([type : TokenTypes, index : Nat])
    /\ tokens_parsed \in Nat
    /\ token_available \in BOOLEAN
    /\ stream_start_produced \in BOOLEAN
    /\ stream_end_produced \in BOOLEAN
    /\ simple_keys \in Seq([possible : BOOLEAN, required : BOOLEAN, token_number : Nat,
                            mark : [index : Nat, line : Nat, column : Nat]])
    /\ simple_key_allowed \in BOOLEAN
    /\ flow_level \in 0..IntMax
    /\ indent \in -1..IntMax
    /\ indents \in Seq(-1..IntMax)
    /\ error \in {"NO", "SCANNER", "READER", "MEMORY"}
    /\ open_blocks \in Int

\* There is a simple key for every flow level and one below them all, so
\* simple_keys.top - 1 and POP(simple_keys) never leave the stack, and the
\* indents grow strictly from -1, so unrolling stops before it empties them.
StacksAgree ==
    stream_start_produced =>
       LET all == Append(indents, indent) IN
       /\ Len(simple_keys) = flow_level + 1
       /\ all[1] = -1
       /\ \A i, j \in 1..Len(all) : i < j => all[i] < all[j]

\* Every simple key that is still possible stands for a token that is still in
\* the queue and that starts at the key's mark, and the keys of inner levels
\* stand behind those of outer ones: KEY is inserted in front of its key.
KeysAwaitInQueue ==
    error = "NO" =>
       /\ \A i \in DOMAIN simple_keys : simple_keys[i].possible =>
             LET at == simple_keys[i].token_number - tokens_parsed + 1 IN
             at \in 1..Len(tokens) /\ tokens[at].index = simple_keys[i].mark.index
       /\ \A i, j \in DOMAIN simple_keys :
             i < j /\ simple_keys[i].possible /\ simple_keys[j].possible
                => simple_keys[i].token_number < simple_keys[j].token_number

\* The tokens in the queue are in the order of the text they come from, the
\* ones that were inserted too.
TokensInOrder ==
    \A i, j \in 1..Len(tokens) : i < j => tokens[i].index <= tokens[j].index

\* Nothing is fetched once STREAM-END is in the queue, even while keys of flow
\* collections that were never closed are still waiting for their ":".
StreamEndIsLast ==
    error = "NO" => \A i \in 1..(Len(tokens) - 1) : tokens[i].type # "STREAM_END"

\* How many block collections are open behind the first n tokens of the queue
\* s, when a are in front of it.
Depth(a, s, n) ==
    a + Cardinality({i \in 1..n : s[i].type \in BlockStarts})
      - Cardinality({i \in 1..n : s[i].type = "BLOCK_END"})

OpenAfter(n) == Depth(open_blocks, tokens, n)

\* BLOCK-END closes what BLOCK-...-START opened: as many are open behind the
\* queue as there are levels of indentation, never fewer than none in between,
\* and none at STREAM-END unless a flow collection is left open.
BlocksBalance ==
    error = "NO" =>
       /\ \A n \in 0..Len(tokens) : OpenAfter(n) >= 0
       /\ stream_start_produced => OpenAfter(Len(tokens)) = Len(indents)
       /\ \A n \in 1..Len(tokens) :
             tokens[n].type = "STREAM_END" /\ flow_level = 0 => OpenAfter(n) = 0

\* A key that is required, the first token of a line of a block mapping, is
\* forgotten only when its ":" has come: otherwise the scanner fails.
RequiredKeyIsResolved ==
    [][ simple_keys # <<>> /\ simple_keys[1].possible /\ simple_keys[1].required
           => \/ simple_keys' # <<>> /\ simple_keys'[1] = simple_keys[1]
              \/ tokens' # <<>> /\ Last(tokens').type = "VALUE"
              \/ error' # "NO" ]_vars

=============================================================================

------------------------------- MODULE Parser -------------------------------
(***************************************************************************)
(* The parser: yaml_parser_parse and the state machine behind it, which    *)
(* turns the scanner's tokens into events (parser.c, parser.rs).           *)
(*                                                                         *)
(* One call of yaml_parser_parse is one step.  A handler reads ahead       *)
(* through peek_token and skip_token; here it is handed the queue as it    *)
(* stands at that point ("in") and peeks at its head.  A handler that      *)
(* would peek past the end of the queue is not enabled, and Fetch then     *)
(* lets the scanner deliver one more token.  The token types are the       *)
(* scanner's, without YAML_ and _TOKEN; "NULL" is peek_token returning a   *)
(* null pointer because the scanner failed.                                *)
(*                                                                         *)
(* Marks are abstracted to the depth of the collection they belong to: no  *)
(* control depends on what a mark contains, only on the stack of marks     *)
(* never being popped when it is empty.                                    *)
(***************************************************************************)
EXTENDS Integers, Sequences, SequencesExt

CONSTANTS
    CustomHandles,  \* tag handles a document may define besides "!" and "!!"
    Alphabet,       \* the tokens the scanner may deliver between the ends
    MaxTokens,      \* bound: the stream ends after this many tokens
    AllocMayFail    \* whether yaml_malloc and a growing PUSH may fail

DefaultHandles == {"!", "!!"}
Handles == DefaultHandles \cup CustomHandles

Token(type, value) == [type |-> type, value |-> value]

PlainTypes == {"STREAM_START", "STREAM_END", "DOCUMENT_START", "DOCUMENT_END",
               "BLOCK_SEQUENCE_START", "BLOCK_MAPPING_START", "BLOCK_END",
               "FLOW_SEQUENCE_START", "FLOW_SEQUENCE_END",
               "FLOW_MAPPING_START", "FLOW_MAPPING_END", "BLOCK_ENTRY",
               "FLOW_ENTRY", "KEY", "VALUE", "ALIAS", "ANCHOR", "NULL"}

Tokens ==
    [type : PlainTypes, value : {""}]
    \cup [type : {"SCALAR"}, value : {"plain", "quoted"}]
    \cup [type : {"TAG"}, value : {"nonspecific", "verbatim"} \cup Handles]
    \cup [type : {"TAG_DIRECTIVE"}, value : Handles]
    \cup [type : {"VERSION_DIRECTIVE"}, value : {"supported", "unsupported"}]

ASSUME ParserAssumption ==
    /\ MaxTokens \in Nat
    /\ AllocMayFail \in BOOLEAN
    /\ Alphabet \subseteq Tokens
    /\ \A t \in Alphabet : t.type \notin {"STREAM_START", "STREAM_END", "NULL"}

VARIABLES
    tokens,               \* tokens.head .. tokens.tail, as the parser sees it
    fetched,              \* how many tokens the scanner has delivered
    state,                \* parser.state
    states,               \* parser.states, the stack of states to return to
    marks,                \* parser.marks
    tag_directives,       \* parser.tag_directives: handle -> prefix
    stream_end_produced,  \* parser.stream_end_produced
    error,                \* parser.error
    event,                \* what the last call wrote to *event
    result                \* what the last call returned

vars == <<tokens, fetched, state, states, marks, tag_directives,
          stream_end_produced, error, event, result>>

-----------------------------------------------------------------------------
(* Events.  Only what a consumer's control depends on is kept: flags names *)
(* the implicit flags that are set, directives the handles of the tag      *)
(* directives a DOCUMENT-START event lists.                                *)

NoTag == "none"
Event(type, anchor, tag, flags) ==
    [type |-> type, anchor |-> anchor, tag |-> tag, flags |-> flags, directives |-> {}]
Bare(type) == Event(type, FALSE, NoTag, {})
NoEvent == Bare("NO")

Events ==
    [type : {"NO", "STREAM_START", "STREAM_END", "DOCUMENT_START", "DOCUMENT_END",
             "ALIAS", "SCALAR", "SEQUENCE_START", "SEQUENCE_END", "MAPPING_START",
             "MAPPING_END"},
     anchor : BOOLEAN,
     tag : {NoTag, "!", "verbatim", "default", "custom"},
     flags : SUBSET {"implicit", "plain_implicit", "quoted_implicit"},
     directives : SUBSET Handles]

NoDirectives == [h \in {} |-> "default"]

-----------------------------------------------------------------------------
(* How a call ends.  st, sts and mks are the state, the stack of states    *)
(* and the stack of marks the handler leaves, in the tokens it leaves.     *)

Sees(in, types) == in # <<>> /\ Head(in).type \in types
SeesOther(in, types) == in # <<>> /\ Head(in).type \notin types \cup {"NULL"}

skip_token(in) ==
    /\ tokens' = in
    /\ stream_end_produced' =
           IF in = tokens THEN stream_end_produced
           ELSE tokens[Len(tokens) - Len(in)].type = "STREAM_END"

Return(ev, st, sts, mks, in) ==
    /\ result' = "OK"
    /\ event' = ev
    /\ error' = error
    /\ state' = st
    /\ states' = sts
    /\ marks' = mks
    /\ skip_token(in)

Fail(err, st, sts, mks, in) ==
    /\ result' = "FAIL"
    /\ event' = NoEvent
    /\ error' = err
    /\ state' = st
    /\ states' = sts
    /\ marks' = mks
    /\ skip_token(in)

NoMemory(st, sts, mks, in) == AllocMayFail /\ Fail("MEMORY", st, sts, mks, in)

\* state = POP(states)
ReturnPop(ev, sts, mks, in) == Return(ev, Last(sts), Front(sts), mks, in)

\* peek_token returned NULL: what was pushed and skipped so far stays so.
PeekFailed(sts, mks, in) ==
    Sees(in, {"NULL"}) /\ Fail("SCANNER", state, sts, mks, in)

process_empty_scalar(st, sts, mks, in) ==
    \/ Return(Event("SCALAR", FALSE, NoTag, {"plain_implicit"}), st, sts, mks, in)
    \/ NoMemory(st, sts, mks, in)

-----------------------------------------------------------------------------
(* Nodes.                                                                  *)

\* The anchor and the tag in front of a node: at most one of each.
PropertyCount(in) ==
    IF ~Sees(in, {"ANCHOR", "TAG"}) THEN 0
    ELSE IF Sees(Tail(in), {"ANCHOR", "TAG"} \ {Head(in).type}) THEN 2 ELSE 1

\* Faulty variant: an undefined handle is not noticed.
ResolvedTag_unchecked(value) ==
    IF value = "nonspecific" THEN "!"
    ELSE IF value \in DOMAIN tag_directives THEN tag_directives[value]
    ELSE value

\* The tag after its handle was looked up; "undefined" if it has no directive.
ResolvedTag(value) ==
    IF value = "nonspecific" THEN "!"
    ELSE IF value = "verbatim" THEN "verbatim"
    ELSE IF value \in DOMAIN tag_directives THEN tag_directives[value]
    ELSE "undefined"

ScalarFlags(style, tag) ==
    IF tag = "!" \/ (style = "plain" /\ tag = NoTag) THEN {"plain_implicit"}
    ELSE IF tag = NoTag THEN {"quoted_implicit"}
    ELSE {}

ContentTypes(block, indentless) ==
    {"SCALAR", "FLOW_SEQUENCE_START", "FLOW_MAPPING_START"}
    \cup (IF block THEN {"BLOCK_SEQUENCE_START", "BLOCK_MAPPING_START"} ELSE {})
    \cup (IF indentless THEN {"BLOCK_ENTRY"} ELSE {})

\* Faulty variant: a flow mapping is entered like a flow sequence.
CollectionState_confused ==
    [BLOCK_ENTRY |-> "INDENTLESS_SEQUENCE_ENTRY",
     FLOW_SEQUENCE_START |-> "FLOW_SEQUENCE_FIRST_ENTRY",
     BLOCK_SEQUENCE_START |-> "BLOCK_SEQUENCE_FIRST_ENTRY",
     FLOW_MAPPING_START |-> "FLOW_SEQUENCE_FIRST_ENTRY",
     BLOCK_MAPPING_START |-> "BLOCK_MAPPING_FIRST_KEY"]

\* The token that opens a collection is left in the queue for the handler
\* of the state the collection starts in.
CollectionState ==
    [BLOCK_ENTRY |-> "INDENTLESS_SEQUENCE_ENTRY",
     FLOW_SEQUENCE_START |-> "FLOW_SEQUENCE_FIRST_ENTRY",
     BLOCK_SEQUENCE_START |-> "BLOCK_SEQUENCE_FIRST_ENTRY",
     FLOW_MAPPING_START |-> "FLOW_MAPPING_FIRST_KEY",
     BLOCK_MAPPING_START |-> "BLOCK_MAPPING_FIRST_KEY"]

parse_content(in, sts, mks, block, indentless, anchor, tag) ==
    LET Implicit(name) == IF tag = NoTag THEN {name} ELSE {}
        Open(type) ==
            Return(Event(type, anchor, tag, Implicit("implicit")),
                   CollectionState[Head(in).type], sts, mks, in)
    IN
    \/ /\ Sees(in, {"BLOCK_ENTRY", "FLOW_SEQUENCE_START", "BLOCK_SEQUENCE_START"}
                       \cap ContentTypes(block, indentless))
       /\ Open("SEQUENCE_START")
    \/ /\ Sees(in, {"FLOW_MAPPING_START", "BLOCK_MAPPING_START"}
                       \cap ContentTypes(block, indentless))
       /\ Open("MAPPING_START")
    \/ /\ Sees(in, {"SCALAR"})
       /\ ReturnPop(Event("SCALAR", anchor, tag, ScalarFlags(Head(in).value, tag)),
                    sts, mks, Tail(in))
    \/ /\ SeesOther(in, ContentTypes(block, indentless))
       /\ \/ /\ anchor \/ tag # NoTag
             /\ \/ ReturnPop(Event("SCALAR", anchor, tag, Implicit("plain_implicit")),
                             sts, mks, in)
                \/ NoMemory(state, sts, mks, in)
          \/ /\ ~anchor /\ tag = NoTag
             /\ Fail("PARSER", state, sts, mks, in)

parse_node(in, sts, mks, block, indentless) ==
    LET n == PropertyCount(in)
        rest == SubSeq(in, n + 1, Len(in))
        anchor == \E i \in 1..n : in[i].type = "ANCHOR"
        values == {in[i].value : i \in {j \in 1..n : in[j].type = "TAG"}}
        tag == IF values = {} THEN NoTag ELSE ResolvedTag(CHOOSE v \in values : TRUE)
    IN
    \/ PeekFailed(sts, mks, rest)
    \/ /\ n = 0
       /\ Sees(in, {"ALIAS"})
       /\ ReturnPop(Bare("ALIAS"), sts, mks, Tail(in))
    \/ /\ SeesOther(rest, IF n = 0 THEN {"ALIAS"} ELSE {})
       /\ \/ /\ tag = "undefined"
             /\ Fail("PARSER", state, sts, mks, rest)
          \/ /\ values \cap DOMAIN tag_directives # {}
             /\ NoMemory(state, sts, mks, rest)
          \/ /\ tag # "undefined"
             /\ parse_content(rest, sts, mks, block, indentless, anchor, tag)

\* PUSH the state to return to, then parse a node.
parse_node_then(st, sts, mks, in, block, indentless) ==
    \/ NoMemory(state, sts, mks, in)
    \/ parse_node(in, Append(sts, st), mks, block, indentless)

-----------------------------------------------------------------------------
(* Streams and documents.                                                  *)

Drop(in, n) == SubSeq(in, n + 1, Len(in))

DirectiveTypes == {"VERSION_DIRECTIVE", "TAG_DIRECTIVE"}

\* The handles defined by the first n tokens.
HandlesOf(in, n) ==
    {in[i].value : i \in {j \in 1..n : in[j].type = "TAG_DIRECTIVE"}}

\* The i-th token is a directive process_directives takes after those before it.
Accepts(in, i) ==
    \/ /\ in[i].type = "VERSION_DIRECTIVE"
       /\ in[i].value = "supported"
       /\ \A j \in 1..(i - 1) : in[j].type # "VERSION_DIRECTIVE"
    \/ /\ in[i].type = "TAG_DIRECTIVE"
       /\ in[i].value \notin DOMAIN tag_directives \cup HandlesOf(in, i - 1)

\* parser.tag_directives after append_tag_directive of handles: one that is
\* there already is kept, with its prefix.
append_tag_directives(handles, prefix, table) ==
    [h \in DOMAIN table \cup handles |-> IF h \in DOMAIN table THEN table[h] ELSE prefix]

Table(in, n) == append_tag_directives(HandlesOf(in, n), "custom", tag_directives)
FullTable(in, n) == append_tag_directives(DefaultHandles, "default", Table(in, n))

\* process_directives returns FAIL.  STACK_INIT fails without setting
\* parser.error; every other failure sets it.
process_directives_failed(in) ==
    \/ /\ AllocMayFail
       /\ Fail(error, state, states, marks, in)
       /\ UNCHANGED tag_directives
    \/ \E n \in 0..(Len(in) - 1) :
          LET rest == Drop(in, n) IN
          /\ \A i \in 1..n : Accepts(in, i)
          /\ \/ /\ PeekFailed(states, marks, rest)
                /\ tag_directives' = Table(in, n)
             \/ /\ Sees(rest, DirectiveTypes)
                /\ ~Accepts(in, n + 1)
                /\ Fail("PARSER", state, states, marks, rest)
                /\ tag_directives' = Table(in, n)
             \/ /\ Sees(rest, DirectiveTypes)
                /\ Accepts(in, n + 1)
                /\ NoMemory(state, states, marks, rest)
                /\ tag_directives' \in {Table(in, n), Table(in, n + 1)}
             \/ /\ SeesOther(rest, DirectiveTypes)
                /\ NoMemory(state, states, marks, rest)
                /\ tag_directives' \in
                      {Table(in, n), append_tag_directives({"!"}, "default", Table(in, n))}

\* A document without a DOCUMENT-START token: only the first of a stream.
parse_implicit_document(in) ==
    /\ SeesOther(in, DirectiveTypes \cup {"DOCUMENT_START", "STREAM_END"})
    /\ tag_directives' = FullTable(in, 0)
    /\ \/ NoMemory(state, states, marks, in)
       \/ Return(Event("DOCUMENT_START", FALSE, NoTag, {"implicit"}),
                 "BLOCK_NODE", Append(states, "DOCUMENT_END"), marks, in)

parse_explicit_document(in) ==
    \E n \in 0..(Len(in) - 1) :
       LET rest == Drop(in, n) IN
       /\ \A i \in 1..n : Accepts(in, i)
       /\ SeesOther(rest, DirectiveTypes)
       /\ tag_directives' = FullTable(in, n)
       /\ \/ /\ SeesOther(rest, {"DOCUMENT_START"})
             /\ Fail("PARSER", state, states, marks, rest)
          \/ /\ Sees(rest, {"DOCUMENT_START"})
             /\ NoMemory(state, states, marks, rest)
          \/ /\ Sees(rest, {"DOCUMENT_START"})
             /\ Return([Bare("DOCUMENT_START") EXCEPT !.directives = HandlesOf(in, n)],
                       "DOCUMENT_CONTENT", Append(states, "DOCUMENT_END"), marks, Tail(rest))

parse_stream_start ==
    /\ \/ PeekFailed(states, marks, tokens)
       \/ /\ Sees(tokens, {"STREAM_START"})
          /\ Return(Bare("STREAM_START"), "IMPLICIT_DOCUMENT_START", states, marks, Tail(tokens))
    /\ UNCHANGED tag_directives

parse_document_start(implicit) ==
    \E n \in 0..Len(tokens) :
       LET in == Drop(tokens, n) IN
       /\ IF implicit THEN n = 0
                      ELSE /\ \A i \in 1..n : tokens[i].type = "DOCUMENT_END"
                           /\ ~Sees(in, {"DOCUMENT_END"})
       /\ \/ /\ PeekFailed(states, marks, in)
             /\ UNCHANGED tag_directives
          \/ /\ Sees(in, {"STREAM_END"})
             /\ Return(Bare("STREAM_END"), "END", states, marks, Tail(in))
             /\ UNCHANGED tag_directives
          \/ SeesOther(in, {"STREAM_END"}) /\ process_directives_failed(in)
          \/ implicit /\ parse_implicit_document(in)
          \/ /\ implicit => Sees(in, DirectiveTypes \cup {"DOCUMENT_START"})
             /\ SeesOther(in, {"STREAM_END"})
             /\ parse_explicit_document(in)

\* Faulty variant: an empty document does not pop the stack of states.
parse_document_content_no_pop ==
    LET Ends == DirectiveTypes \cup {"DOCUMENT_START", "DOCUMENT_END", "STREAM_END"} IN
    /\ \/ /\ Sees(tokens, Ends)
          /\ process_empty_scalar(Last(states), states, marks, tokens)
       \/ /\ ~Sees(tokens, Ends)
          /\ parse_node(tokens, states, marks, TRUE, FALSE)
    /\ UNCHANGED tag_directives

parse_document_content ==
    LET Ends == DirectiveTypes \cup {"DOCUMENT_START", "DOCUMENT_END", "STREAM_END"} IN
    /\ \/ /\ Sees(tokens, Ends)
          /\ process_empty_scalar(Last(states), Front(states), marks, tokens)
       \/ /\ ~Sees(tokens, Ends)
          /\ parse_node(tokens, states, marks, TRUE, FALSE)
    /\ UNCHANGED tag_directives

\* Faulty variant: the document's tag directives are not freed.
parse_document_end_keeping ==
    /\ \/ PeekFailed(states, marks, tokens)
       \/ /\ Sees(tokens, {"DOCUMENT_END"})
          /\ Return(Bare("DOCUMENT_END"), "DOCUMENT_START", states, marks, Tail(tokens))
       \/ /\ SeesOther(tokens, {"DOCUMENT_END"})
          /\ Return(Event("DOCUMENT_END", FALSE, NoTag, {"implicit"}),
                    "DOCUMENT_START", states, marks, tokens)
    /\ UNCHANGED tag_directives

\* Faulty variant: whatever token ends the document is skipped.
parse_document_end_skipping ==
    /\ SeesOther(tokens, {})
    /\ Return(Bare("DOCUMENT_END"), "DOCUMENT_START", states, marks, Tail(tokens))
    /\ tag_directives' = NoDirectives

parse_document_end ==
    \/ /\ PeekFailed(states, marks, tokens)
       /\ UNCHANGED tag_directives
    \/ /\ \/ /\ Sees(tokens, {"DOCUMENT_END"})
             /\ Return(Bare("DOCUMENT_END"), "DOCUMENT_START", states, marks, Tail(tokens))
          \/ /\ SeesOther(tokens, {"DOCUMENT_END"})
             /\ Return(Event("DOCUMENT_END", FALSE, NoTag, {"implicit"}),
                       "DOCUMENT_START", states, marks, tokens)
       /\ tag_directives' = NoDirectives

-----------------------------------------------------------------------------
(* Collections.  The handler of a collection's first entry pushes the mark *)
(* of the token that opens it and skips that token, then goes on as the    *)
(* handler of a later entry.  The mark stands for the depth of the frame   *)
(* the collection occupies in states and state.                            *)

Opened(first) == IF first /\ ~Sees(tokens, {"NULL"}) THEN Tail(tokens) ELSE tokens
MarksAt(first) ==
    IF first /\ ~Sees(tokens, {"NULL"}) THEN Append(marks, Len(states) + 1) ELSE marks

PushMarkFailed(first) ==
    first /\ SeesOther(tokens, {}) /\ NoMemory(state, states, marks, tokens)

\* Faulty variant: the mark stays.
Close_keeping_mark(type, mks, in) == ReturnPop(Bare(type), states, mks, Tail(in))

\* The closing token: POP(states), POP(marks), skip it.
Close(type, mks, in) == ReturnPop(Bare(type), states, Front(mks), Tail(in))

\* set_parser_error_context with POP(marks) as the context's mark.
Unexpected(mks, in) == Fail("PARSER", state, states, Front(mks), in)

\* After an indicator (BLOCK-ENTRY, KEY or VALUE) was skipped: a node, or an
\* empty one when the next token is among ends.
node_or_empty(after, ends, mks, in, block, indentless) ==
    \/ PeekFailed(states, mks, in)
    \/ /\ Sees(in, ends)
       /\ process_empty_scalar(after, states, mks, in)
    \/ /\ SeesOther(in, ends)
       /\ parse_node_then(after, states, mks, in, block, indentless)

parse_block_sequence_entry(first) ==
    LET in == Opened(first)
        mks == MarksAt(first)
    IN
    /\ tokens # <<>>
    /\ \/ PushMarkFailed(first)
       \/ PeekFailed(states, mks, in)
       \/ /\ Sees(in, {"BLOCK_ENTRY"})
          /\ node_or_empty("BLOCK_SEQUENCE_ENTRY", {"BLOCK_ENTRY", "BLOCK_END"},
                           mks, Tail(in), TRUE, FALSE)
       \/ /\ Sees(in, {"BLOCK_END"})
          /\ Close("SEQUENCE_END", mks, in)
       \/ /\ SeesOther(in, {"BLOCK_ENTRY", "BLOCK_END"})
          /\ Unexpected(mks, in)
    /\ UNCHANGED tag_directives

parse_indentless_sequence_entry ==
    /\ \/ PeekFailed(states, marks, tokens)
       \/ /\ Sees(tokens, {"BLOCK_ENTRY"})
          /\ node_or_empty("INDENTLESS_SEQUENCE_ENTRY",
                           {"BLOCK_ENTRY", "KEY", "VALUE", "BLOCK_END"},
                           marks, Tail(tokens), TRUE, FALSE)
       \/ /\ SeesOther(tokens, {"BLOCK_ENTRY"})
          /\ ReturnPop(Bare("SEQUENCE_END"), states, marks, tokens)
    /\ UNCHANGED tag_directives

parse_block_mapping_key(first) ==
    LET in == Opened(first)
        mks == MarksAt(first)
    IN
    /\ tokens # <<>>
    /\ \/ PushMarkFailed(first)
       \/ PeekFailed(states, mks, in)
       \/ /\ Sees(in, {"KEY"})
          /\ node_or_empty("BLOCK_MAPPING_VALUE", {"KEY", "VALUE", "BLOCK_END"},
                           mks, Tail(in), TRUE, TRUE)
       \/ /\ Sees(in, {"BLOCK_END"})
          /\ Close("MAPPING_END", mks, in)
       \/ /\ SeesOther(in, {"KEY", "BLOCK_END"})
          /\ Unexpected(mks, in)
    /\ UNCHANGED tag_directives

\* Faulty variant: an empty value is given without going on to the next key.
parse_block_mapping_value_stuck ==
    /\ \/ PeekFailed(states, marks, tokens)
       \/ /\ Sees(tokens, {"VALUE"})
          /\ node_or_empty("BLOCK_MAPPING_KEY", {"KEY", "VALUE", "BLOCK_END"},
                           marks, Tail(tokens), TRUE, TRUE)
       \/ /\ SeesOther(tokens, {"VALUE"})
          /\ process_empty_scalar("BLOCK_MAPPING_VALUE", states, marks, tokens)
    /\ UNCHANGED tag_directives

parse_block_mapping_value ==
    /\ \/ PeekFailed(states, marks, tokens)
       \/ /\ Sees(tokens, {"VALUE"})
          /\ node_or_empty("BLOCK_MAPPING_KEY", {"KEY", "VALUE", "BLOCK_END"},
                           marks, Tail(tokens), TRUE, TRUE)
       \/ /\ SeesOther(tokens, {"VALUE"})
          /\ process_empty_scalar("BLOCK_MAPPING_KEY", states, marks, tokens)
    /\ UNCHANGED tag_directives

\* What a flow collection finds in front of an entry: the closing token, the
\* comma that is due unless the entry is the first, or neither.  Entry is
\* where the entry starts.
Entry(first, in) == IF first THEN in ELSE Tail(in)
SeesEntry(first, closer, in) ==
    IF first THEN SeesOther(in, {closer}) ELSE Sees(in, {"FLOW_ENTRY"})
SeesNeither(first, closer, in) == ~first /\ SeesOther(in, {closer, "FLOW_ENTRY"})

parse_flow_sequence_entry(first) ==
    LET in == Opened(first)
        mks == MarksAt(first)
        entry == Entry(first, in)
    IN
    /\ tokens # <<>>
    /\ \/ PushMarkFailed(first)
       \/ PeekFailed(states, mks, in)
       \/ /\ Sees(in, {"FLOW_SEQUENCE_END"})
          /\ Close("SEQUENCE_END", mks, in)
       \/ /\ SeesNeither(first, "FLOW_SEQUENCE_END", in)
          /\ Unexpected(mks, in)
       \/ /\ SeesEntry(first, "FLOW_SEQUENCE_END", in)
          /\ \/ PeekFailed(states, mks, entry)
             \/ /\ Sees(entry, {"KEY"})
                /\ Return(Event("MAPPING_START", FALSE, NoTag, {"implicit"}),
                          "FLOW_SEQUENCE_ENTRY_MAPPING_KEY", states, mks, Tail(entry))
             \/ /\ Sees(entry, {"FLOW_SEQUENCE_END"})
                /\ Close("SEQUENCE_END", mks, entry)
             \/ /\ SeesOther(entry, {"KEY", "FLOW_SEQUENCE_END"})
                /\ parse_node_then("FLOW_SEQUENCE_ENTRY", states, mks, entry, FALSE, FALSE)
    /\ UNCHANGED tag_directives

\* An empty key swallows the token that ends it.
parse_flow_sequence_entry_mapping_key ==
    LET Ends == {"VALUE", "FLOW_ENTRY", "FLOW_SEQUENCE_END"}
        Follow == "FLOW_SEQUENCE_ENTRY_MAPPING_VALUE"
    IN
    /\ \/ PeekFailed(states, marks, tokens)
       \/ /\ Sees(tokens, Ends)
          /\ process_empty_scalar(Follow, states, marks, Tail(tokens))
       \/ /\ SeesOther(tokens, Ends)
          /\ parse_node_then(Follow, states, marks, tokens, FALSE, FALSE)
    /\ UNCHANGED tag_directives

\* Faulty variant: an empty value leaves the mapping open.
parse_flow_sequence_entry_mapping_value_unclosed ==
    /\ \/ PeekFailed(states, marks, tokens)
       \/ /\ SeesOther(tokens, {"VALUE"})
          /\ process_empty_scalar("FLOW_SEQUENCE_ENTRY", states, marks, tokens)
    /\ UNCHANGED tag_directives

parse_flow_sequence_entry_mapping_value ==
    LET Follow == "FLOW_SEQUENCE_ENTRY_MAPPING_END" IN
    /\ \/ PeekFailed(states, marks, tokens)
       \/ /\ Sees(tokens, {"VALUE"})
          /\ node_or_empty(Follow, {"FLOW_ENTRY", "FLOW_SEQUENCE_END"},
                           marks, Tail(tokens), FALSE, FALSE)
       \/ /\ SeesOther(tokens, {"VALUE"})
          /\ process_empty_scalar(Follow, states, marks, tokens)
    /\ UNCHANGED tag_directives

parse_flow_sequence_entry_mapping_end ==
    /\ \/ PeekFailed(states, marks, tokens)
       \/ /\ SeesOther(tokens, {})
          /\ Return(Bare("MAPPING_END"), "FLOW_SEQUENCE_ENTRY", states, marks, tokens)
    /\ UNCHANGED tag_directives

parse_flow_mapping_key(first) ==
    LET in == Opened(first)
        mks == MarksAt(first)
        entry == Entry(first, in)
    IN
    /\ tokens # <<>>
    /\ \/ PushMarkFailed(first)
       \/ PeekFailed(states, mks, in)
       \/ /\ Sees(in, {"FLOW_MAPPING_END"})
          /\ Close("MAPPING_END", mks, in)
       \/ /\ SeesNeither(first, "FLOW_MAPPING_END", in)
          /\ Unexpected(mks, in)
       \/ /\ SeesEntry(first, "FLOW_MAPPING_END", in)
          /\ \/ PeekFailed(states, mks, entry)
             \/ /\ Sees(entry, {"KEY"})
                /\ node_or_empty("FLOW_MAPPING_VALUE",
                                 {"VALUE", "FLOW_ENTRY", "FLOW_MAPPING_END"},
                                 mks, Tail(entry), FALSE, FALSE)
             \/ /\ Sees(entry, {"FLOW_MAPPING_END"})
                /\ Close("MAPPING_END", mks, entry)
             \/ /\ SeesOther(entry, {"KEY", "FLOW_MAPPING_END"})
                /\ parse_node_then("FLOW_MAPPING_EMPTY_VALUE", states, mks, entry, FALSE, FALSE)
    /\ UNCHANGED tag_directives

parse_flow_mapping_value(empty) ==
    /\ \/ PeekFailed(states, marks, tokens)
       \/ /\ ~empty
          /\ Sees(tokens, {"VALUE"})
          /\ node_or_empty("FLOW_MAPPING_KEY", {"FLOW_ENTRY", "FLOW_MAPPING_END"},
                           marks, Tail(tokens), FALSE, FALSE)
       \/ /\ SeesOther(tokens, IF empty THEN {} ELSE {"VALUE"})
          /\ process_empty_scalar("FLOW_MAPPING_KEY", states, marks, tokens)
    /\ UNCHANGED tag_directives

-----------------------------------------------------------------------------
(* The state machine and its calls.                                        *)

state_machine ==
    \/ state = "STREAM_START" /\ parse_stream_start
    \/ state = "IMPLICIT_DOCUMENT_START" /\ parse_document_start(TRUE)
    \/ state = "DOCUMENT_START" /\ parse_document_start(FALSE)
    \/ state = "DOCUMENT_CONTENT" /\ parse_document_content
    \/ state = "DOCUMENT_END" /\ parse_document_end
    \/ /\ state = "BLOCK_NODE"
       /\ parse_node(tokens, states, marks, TRUE, FALSE)
       /\ UNCHANGED tag_directives
    \/ state = "BLOCK_SEQUENCE_FIRST_ENTRY" /\ parse_block_sequence_entry(TRUE)
    \/ state = "BLOCK_SEQUENCE_ENTRY" /\ parse_block_sequence_entry(FALSE)
    \/ state = "INDENTLESS_SEQUENCE_ENTRY" /\ parse_indentless_sequence_entry
    \/ state = "BLOCK_MAPPING_FIRST_KEY" /\ parse_block_mapping_key(TRUE)
    \/ state = "BLOCK_MAPPING_KEY" /\ parse_block_mapping_key(FALSE)
    \/ state = "BLOCK_MAPPING_VALUE" /\ parse_block_mapping_value
    \/ state = "FLOW_SEQUENCE_FIRST_ENTRY" /\ parse_flow_sequence_entry(TRUE)
    \/ state = "FLOW_SEQUENCE_ENTRY" /\ parse_flow_sequence_entry(FALSE)
    \/ state = "FLOW_SEQUENCE_ENTRY_MAPPING_KEY" /\ parse_flow_sequence_entry_mapping_key
    \/ state = "FLOW_SEQUENCE_ENTRY_MAPPING_VALUE" /\ parse_flow_sequence_entry_mapping_value
    \/ state = "FLOW_SEQUENCE_ENTRY_MAPPING_END" /\ parse_flow_sequence_entry_mapping_end
    \/ state = "FLOW_MAPPING_FIRST_KEY" /\ parse_flow_mapping_key(TRUE)
    \/ state = "FLOW_MAPPING_KEY" /\ parse_flow_mapping_key(FALSE)
    \/ state = "FLOW_MAPPING_VALUE" /\ parse_flow_mapping_value(FALSE)
    \/ state = "FLOW_MAPPING_EMPTY_VALUE" /\ parse_flow_mapping_value(TRUE)

Finished == stream_end_produced \/ error # "NO" \/ state = "END"

\* yaml_parser_parse on a parser that still has something to parse.
Parse == ~Finished /\ state_machine /\ UNCHANGED fetched

\* yaml_parser_parse after the end of the stream or an error.
ParseNothing ==
    /\ Finished
    /\ result' = "OK"
    /\ event' = NoEvent
    /\ UNCHANGED <<tokens, fetched, state, states, marks, tag_directives,
                   stream_end_produced, error>>

\* The call cannot come to its end on the tokens at hand: peek_token asks the
\* scanner for one more.
Starved ==
    /\ ~Finished
    /\ ~ENABLED (/\ state_machine
                 /\ result' = "OK" \/ error' \in {"PARSER", "SCANNER"})

\* The scanner delivers STREAM-START, any tokens at all, and STREAM-END, or
\* fails.
Fetchable ==
    {Token("NULL", "")} \cup
    (IF fetched = 0 THEN {Token("STREAM_START", "")}
     ELSE {Token("STREAM_END", "")} \cup (IF fetched < MaxTokens THEN Alphabet ELSE {}))

fetch_more_tokens ==
    /\ Starved
    /\ \E t \in Fetchable : tokens' = Append(tokens, t)
    /\ fetched' = fetched + 1
    /\ UNCHANGED <<state, states, marks, tag_directives, stream_end_produced,
                   error, event, result>>

Init ==
    /\ tokens = <<>>
    /\ fetched = 0
    /\ state = "STREAM_START"
    /\ states = <<>>
    /\ marks = <<>>
    /\ tag_directives = NoDirectives
    /\ stream_end_produced = FALSE
    /\ error = "NO"
    /\ event = NoEvent
    /\ result = "OK"

Next == Parse \/ ParseNothing \/ fetch_more_tokens

Spec == Init /\ [][Next]_vars

\* The application calls yaml_parser_parse until it is told to stop, and the
\* scanner answers every request.
FairSpec == Spec /\ WF_vars(Parse) /\ WF_vars(fetch_more_tokens)

-----------------------------------------------------------------------------
(* Types.                                                                  *)

BetweenStates == {"STREAM_START", "IMPLICIT_DOCUMENT_START", "DOCUMENT_START",
                  "DOCUMENT_END", "END"}

RootStates == {"DOCUMENT_CONTENT", "BLOCK_NODE"}

FirstStates == {"BLOCK_SEQUENCE_FIRST_ENTRY", "BLOCK_MAPPING_FIRST_KEY",
                "FLOW_SEQUENCE_FIRST_ENTRY", "FLOW_MAPPING_FIRST_KEY"}

\* States whose collection has pushed a mark that is still to be popped.
MarkedStates == {"BLOCK_SEQUENCE_ENTRY", "BLOCK_MAPPING_KEY", "BLOCK_MAPPING_VALUE",
                 "FLOW_SEQUENCE_ENTRY", "FLOW_SEQUENCE_ENTRY_MAPPING_KEY",
                 "FLOW_SEQUENCE_ENTRY_MAPPING_VALUE", "FLOW_SEQUENCE_ENTRY_MAPPING_END",
                 "FLOW_MAPPING_KEY", "FLOW_MAPPING_VALUE", "FLOW_MAPPING_EMPTY_VALUE"}

\* States that parse_node can be asked to return to inside a collection.
ReturnStates == (MarkedStates \ {"FLOW_SEQUENCE_ENTRY_MAPPING_KEY"})
                \cup {"INDENTLESS_SEQUENCE_ENTRY"}

States == BetweenStates \cup RootStates \cup FirstStates \cup MarkedStates
          \cup {"INDENTLESS_SEQUENCE_ENTRY"}

\* The types of the parser's variables.
TypeOK ==
    /\ tokens \in Seq(Tokens)
    /\ fetched \in Nat
    /\ state \in States
    /\ states \in Seq(States)
    /\ marks \in Seq(Nat)
    /\ DOMAIN tag_directives \subseteq Handles
    /\ \A h \in DOMAIN tag_directives : tag_directives[h] \in {"default", "custom"}
    /\ stream_end_produced \in BOOLEAN
    /\ error \in {"NO", "MEMORY", "SCANNER", "PARSER"}
    /\ event \in Events
    /\ result \in {"OK", "FAIL"}

-----------------------------------------------------------------------------
(* Safety.  After an error yaml_parser_parse does nothing any more, so the *)
(* invariants speak of a parser that has met none.                         *)

\* The stack sts below the state st, in a parser that has met no error.
StatesFit(sts, st) ==
    /\ sts = <<>> <=> st \in BetweenStates
    /\ sts # <<>> => sts[1] = "DOCUMENT_END"
    /\ \A i \in 2..Len(sts) : sts[i] \in ReturnStates
    /\ st \in RootStates => Len(sts) = 1

\* The stack of states is empty exactly between documents; inside one its
\* bottom is DOCUMENT_END and everything above is a place inside a collection.
\* So POP(states) never finds an empty stack, and what it finds is a state
\* that goes on with what was interrupted.
StatesWellFormed == error = "NO" => StatesFit(states, state)

\* mks has one mark for every frame of sts and st that calls for one.
MarksFit(mks, sts, st) ==
    /\ \A i, j \in 1..Len(mks) : i < j => mks[i] < mks[j]
    /\ \A i \in 1..Len(mks) : mks[i] \in 1..(Len(sts) + 1)
    /\ \A f \in 1..Len(sts) :
          sts[f] \in MarkedStates <=> \E i \in 1..Len(mks) : mks[i] = f
    /\ st \in MarkedStates <=> \E i \in 1..Len(mks) : mks[i] = Len(sts) + 1

\* parser.marks holds one mark for every collection that is open and past its
\* opening token, outermost first, and none for an indentless sequence: each
\* POP(marks) takes the mark of the collection that is being closed.
MarksMatchCollections == error = "NO" => MarksFit(marks, states, state)

OpeningToken ==
    [BLOCK_SEQUENCE_FIRST_ENTRY |-> "BLOCK_SEQUENCE_START",
     BLOCK_MAPPING_FIRST_KEY |-> "BLOCK_MAPPING_START",
     FLOW_SEQUENCE_FIRST_ENTRY |-> "FLOW_SEQUENCE_START",
     FLOW_MAPPING_FIRST_KEY |-> "FLOW_MAPPING_START"]

\* The handler of a first entry skips one token unseen: it is the token that
\* opened the collection.
FirstStateSeesOpening ==
    error = "NO" /\ state \in FirstStates =>
       tokens # <<>> /\ Head(tokens).type = OpeningToken[state]

\* STREAM-END is skipped by the handler that enters the END state and by no
\* other: the parser cannot go silent in the middle of a document.
EndIsStreamEnd == error = "NO" => (stream_end_produced <=> state = "END")

\* So it is, and no token is asked for beyond STREAM-END: the parser does not run
\* off the end of the stream.
StreamEndEndsParsing ==
    /\ EndIsStreamEnd
    /\ error = "NO" =>
          \A i \in 1..(Len(tokens) - 1) : tokens[i].type \notin {"STREAM_END", "NULL"}

\* Between documents no tag directive is in force, and a document that starts
\* gets the ones its own event lists and the two defaults, the document's
\* taking precedence: none leaks from one document into the next.
DirectivesOfTheDocument ==
    error = "NO" =>
       /\ state \in BetweenStates \ {"DOCUMENT_END"} => tag_directives = NoDirectives
       /\ event.type = "DOCUMENT_START" =>
             tag_directives = [h \in event.directives \cup DefaultHandles |->
                                  IF h \in event.directives THEN "custom" ELSE "default"]

-----------------------------------------------------------------------------
(* The parser implements EventStream.                                      *)

FrameOf(st) ==
    CASE st = "STREAM_START" -> "stream"
      [] st \in {"IMPLICIT_DOCUMENT_START", "DOCUMENT_START"} -> "docs"
      [] st = "DOCUMENT_END" -> "docend"
      [] st \in RootStates -> "node"
      [] st \in {"BLOCK_SEQUENCE_FIRST_ENTRY", "FLOW_SEQUENCE_FIRST_ENTRY",
                 "BLOCK_SEQUENCE_ENTRY", "FLOW_SEQUENCE_ENTRY",
                 "INDENTLESS_SEQUENCE_ENTRY"} -> "seq"
      [] st \in {"BLOCK_MAPPING_FIRST_KEY", "FLOW_MAPPING_FIRST_KEY",
                 "BLOCK_MAPPING_KEY", "FLOW_MAPPING_KEY"} -> "key"
      [] st \in {"BLOCK_MAPPING_VALUE", "FLOW_MAPPING_VALUE",
                 "FLOW_MAPPING_EMPTY_VALUE"} -> "value"
      [] st = "FLOW_SEQUENCE_ENTRY_MAPPING_KEY" -> "pairkey"
      [] st = "FLOW_SEQUENCE_ENTRY_MAPPING_VALUE" -> "pairvalue"
      [] st = "FLOW_SEQUENCE_ENTRY_MAPPING_END" -> "pairend"
      [] OTHER -> "done"

Frames(sts, st) == Append([i \in 1..Len(sts) |-> FrameOf(sts[i])], FrameOf(st))

FramesOf == IF error # "NO" THEN <<"aborted">> ELSE Frames(states, state)

Stream == INSTANCE EventStream WITH frames <- FramesOf, event <- event.type

\* Whatever tokens the scanner delivers, the events form a well-nested stream.
ProducesEventStream == Stream!StreamSpec

-----------------------------------------------------------------------------
(* Liveness.                                                               *)

\* Every stream of tokens is parsed to its end or refused: no handler gives
\* empty nodes for ever without taking a token.
ParsingEnds == <>(state = "END" \/ error # "NO")

=============================================================================

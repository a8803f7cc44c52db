# TLA+ models of libyaml and its port

A verification development for the library in this repository, which is there
twice: the C code under `original/` and the Rust port of it under `safe/`. The
port follows the C code function by function, so one model serves both.
Definitions were translated from the two side by side; `PROJECT.json` points to
the C lines, and to the Rust lines in the few places where the two differ and
the model is the port (section 6). Definitions keep the names of the functions
they model, without `yaml_parser_` or `yaml_emitter_`.

## 1. The system

libyaml is two pipelines that an application drives by calling one function
again and again; nothing runs concurrently inside it. What is hard is therefore
not interleaving of threads but *protocols between calls*: each stage keeps a
state machine, stacks and queues over raw pointers between two calls, and a
handler relies on what another handler, several calls ago, left there. And the
two pipelines have to be inverse to each other, though no code of one knows the
other.

    bytes -> reader -> scanner -> parser -> (loader -> document)
    (document -> dumper) -> emitter -> writer -> bytes

| component | state between calls | operations | relies on |
|---|---|---|---|
| reader `reader.c` | raw_buffer, buffer, encoding, eof, offset, unread | determine_encoding, update_raw_buffer, update_buffer | the application's read handler |
| scanner `scanner.c` | mark, token queue, tokens_parsed, token_available, simple_keys, simple_key_allowed, flow_level, indent(s) | yaml_parser_scan, fetch_more_tokens, fetch_next_token and 17 fetch_*, scan_* | reader (CACHE) |
| parser `parser.c` | state, states, marks, tag_directives, stream_end_produced, error | yaml_parser_parse and 23 state handlers | scanner, through PEEK_TOKEN and SKIP_TOKEN |
| loader `loader.c` | document nodes, context stack, aliases | yaml_parser_load | parser, one event at a time |
| emitter `emitter.c` | event queue, state, states, indent(s), tag_directives, flow_level, column, flags | yaml_emitter_emit, need_more_events, 17 state handlers, analyze_*, write_* | writer (FLUSH) |
| dumper `dumper.c` | document, anchors (references, anchor, serialized), opened, closed | yaml_emitter_open, dump, close | emitter |
| writer `writer.c` | buffer, raw_buffer | FLUSH, PUT, WRITE, yaml_emitter_flush | the application's write handler |
| documents `api.c` | node arena, tag directives | constructors, add_*, append_* | - |
| containers `yaml_private.h`, `api.c` | start, end, head/top, tail | PUSH, POP, ENQUEUE, DEQUEUE, QUEUE_INSERT, extend | malloc |

All stages of one pipeline share one struct: the parser removes tokens from the
queue the scanner inserts into (`tokens_parsed`, `token_available`), and
`parser.error` stops them all.

Behaviours that are hard to test:

* **look-ahead and late insertion** - the scanner learns that a token was a key
  only when it meets `:`, and inserts KEY into the middle of a queue from which
  the parser has been taking tokens meanwhile;
* **state machines with hand-written return stacks** - `POP` has no check for
  an empty stack; which state is found depends on the whole chain of handlers;
* **empty nodes** - events that consume no token, hence possible endless loops;
* **partial failure** - any allocation or handler may fail between two
  assignments; strings change owners in the middle of a call;
* **handlers of the application** - the input comes in pieces of any size, cut
  anywhere in a character; the output goes when a buffer happens to be full;
* **two inverse algorithms** - the emitter escapes, folds, indents and
  abbreviates by one set of rules, the scanner undoes it by another;
* **limits** - C ints for columns and flow levels, buffers flushed with a fixed
  margin, a limit on the size of the input.

`PROJECT.json` lists these under `hazards`, each at its line.

What makes each component correct:

* reader: the characters delivered are those of the input, whatever the sizes
  the read handler answers with; exactly one NUL at the end.
* scanner: tokens in the order of their text, KEY exactly in front of its key,
  blocks closed exactly once, STREAM-END last.
* parser: stacks never popped empty, each mark popped by its own collection,
  events well nested, an end to every stream, directives confined to documents.
* loader: every pair whole, every alias to an earlier node, nothing leaked.
* emitter: an event is handled once the ones it looks at are there; states
  popped as pushed; what is written is read back as it was.
* dumper: every node serialized once, every string freed once, the graph kept.
* writer: the bytes handed to the write handler are the buffer's, each once,
  and no buffer is written past its end.
* containers: contents are preserved by growth and moves.

## 2. Modules

| module | models |
|---|---|
| `Parser` | `yaml_parser_parse`, all state handlers, directives, allocation failure |
| `EventStream` | abstract: what the events of a parser promise to its caller |
| `MCParser` | alphabets for model checking `Parser` |
| `ProofLemmas` | what the proofs share: sequences as stacks and queues, least elements, counting |
| `ParserProofs` | TLAPS proofs about `Parser` for all alphabets and lengths |
| `Scanner` | token queue, simple keys, indentation, flow levels, all `fetch_*` |
| `ScannerProofs` | TLAPS proofs about `Scanner` for inputs of any length and all limits |
| `Loader` | `yaml_parser_load`, on top of `EventStream`; `yaml_document_delete` |
| `LoaderProofs` | TLAPS proofs about `Loader` for streams of any length |
| `Emitter` | `yaml_emitter_emit`: look-ahead, all state handlers, styles, indentation |
| `MCEmitter` | alphabets for model checking `Emitter` |
| `EmitterProofs` | TLAPS proofs about `Emitter` for sessions of any length |
| `Dumper` | building a document; `yaml_emitter_open`, `dump`, `close` |
| `DumperProofs` | TLAPS proofs about `Dumper` for documents of any size |
| `Encodings` | UTF-8 and UTF-16 as the standards define them: the reference for the next two |
| `Reader` | `yaml_parser_update_buffer` and the read handler |
| `ReaderProofs` | TLAPS proofs about `Reader` for all inputs, deliveries and sizes |
| `Writer` | the output macros, `yaml_emitter_flush` and the write handler |
| `WriterProofs` | TLAPS proofs about `Writer` for texts and buffers of any size |
| `MCReader`, `MCWriter` | inputs and characters for model checking these |
| `Characters` | the `IS_*` macros |
| `ScalarWriter` | `analyze_scalar`, `select_scalar_style`, the five `write_*_scalar` |
| `ScalarScanner` | `scan_plain_scalar`, `scan_flow_scalar`, `scan_block_scalar` |
| `ScalarRoundTrip` | composition of the two; reference definition of line folding |
| `TagWriter` | `analyze_tag`, `analyze_tag_directive`, `process_tag`, the directives of a document start |
| `TagScanner` | `scan_tag`, `scan_tag_directive_value`, `scan_uri_escapes`; how the parser resolves a tag |
| `RoundTrip` | composition of the scalars' and the tags' round trips |
| `MCRoundTrip` | texts, places, tags and directives for it |

`EventStream` is the hinge between the halves of the library: the parser is
shown to guarantee it (`ProducesEventStream`), the loader assumes it, the dumper
is shown to produce it (`DumpsEventStream`), and the emitter, whose application
may pass anything, is shown to accept nothing else (`AcceptsEventStream`). All
three refinements are checked by runs and proved.

### Parser

One call of `yaml_parser_parse` is one step (`Parse`). `state_machine` has one
disjunct per handler. A handler receives the token queue *as it stands after
what it skipped* and leaves the rest; `Sees(in, types)` is `peek_token` followed
by a test of the type. A handler that would peek beyond the queue is not
enabled; `fetch_more_tokens` then lets the scanner deliver one more token,
**any** token of `Alphabet`, not only those a correct scanner would give:
everything shown of the parser holds without trusting the scanner. The token
`NULL` is `peek_token` returning a null pointer.

Abstraction: marks are reduced to the depth of the collection they belong to
(no control depends on their contents, only on how often they are pushed and
popped); scalar text, anchor names and tag suffixes are dropped; a tag is
reduced to where its prefix comes from; an event keeps its type, whether it has
an anchor, its tag, its implicit flags, the handles of its directives.
`AllocMayFail` lets every `yaml_malloc`, `yaml_strdup` and `PUSH!` fail where it
stands, with what was pushed and skipped so far left as it is.

### EventStream

The abstract specification: a stack of frames (what is still open) and the type
of the last event. The refinement mapping `FramesOf` reads the frames off
`parser.states` and `parser.state`. A pair inside a flow sequence (`[a: b]`)
takes over the frame of its sequence, as in the code, where no state is pushed
for it.

### Scanner

`fetch_next_token` is two steps: `find_next_token` (scan_to_next_token, stale
keys, unrolling) and one `fetch_*` for the lexeme found. Text is abstracted to
marks: a `scan_*` operator is the set of marks (index, line, column) at which
the lexeme can end. That keeps what decides about keys and indentation (lines,
columns, lengths) and drops what the lexeme says. `ahead` remembers what a
handler already knows of the next character (that it is blank or the end).
`take_token` is the consumer, parser or application. `open_blocks` is a history
variable. After an error nothing reads the scanner again, so a failing step
leaves the other variables alone.

### Loader

Each `yaml_parser_parse` call the loader makes is a step of `EventStream`
(`parse_event`), or the answer without an event that a stopped parser gives
(`parse_nothing`), or a failure (`parse_failed`); what the loader does with the
event is the next step. `pc` says at which call of `yaml_parser_parse`, or after
which, `yaml_parser_load` stands. Strings and arrays are names in the set `heap`:
the number of the event a string came with and its place there. Freeing removes
a name; freeing what is not there sets `bad_free`. Tags are reduced to whether
the event had none, `!`, or another one (which decides whether a default is
duplicated), strings and marks to nothing. Every `yaml_strdup`, `PUSH!` and
`STACK_INIT!` may fail where it stands. When `yaml_parser_load_document` gets an
event that is not a document start, it reads another event's data as one; what
comes of that is not modelled (`undefined`).

### Emitter

One iteration of the loop in `yaml_emitter_emit` is one step: `need_more_events`
decides whether the head of the queue is handled (`emit_step`) or the call
returns (`emit_return`). `state_machine` has one disjunct per handler; each
either handles its event, with the calls it makes (`emit_node`, `Close`,
`Indented`), or refuses it. A leaf pops the state its handler pushed, so both
cancel out. Of the text only what later control depends on is kept: indents,
`indention` where a block collection may start, `open_ended`, and as history the
style and tag of the last scalar (`written`) and what the text ends with
(`tail`: the marker `...`, an open-ended scalar, or anything else). A scalar's
text is the set of features `analyze_scalar` looks for. Whether a node is short
enough for a simple key is a field of the event. After a failure the application
gives up the emitter, as all callers in the repository do: what the failed
handler had changed is left out. The code does not stop a caller from going on;
see the hazard at emitter.c:291.

### Dumper

The application builds any document within the bounds, node by node
(`yaml_document_add_scalar` and the like), cyclic ones included, and dumps it.
The two recursions, `anchor_node` and `dump_node`, are one step per node: the
first works off a list `todo` in the order of the recursion, the second keeps
`open`, the collections it is in and how far. Blocks on the heap are names as in
`Loader`. Each event given to the emitter may be refused, each allocation may
fail. `ReadBack` rebuilds a graph from the events the way the loader resolves
anchors, which is what `GraphIsPreserved` compares the document with. The text of
anchors is their number, tags and implicit flags are left out.

### Reader

One call of `yaml_parser_update_buffer` is a sequence of steps with a program
counter, because the read handler is asked in the middle of it and gives any
number of octets that fit. `raw_buffer` and `buffer` are what lies between
`pointer` and `last`; `raw_passed` and `passed` are the octets before `pointer`
that only a move to the front gives back, so that overflow can be stated.
Decoding is octet by octet with the arithmetic of the code. `SKIP` is the scanner
that goes on by some of the characters it asked for. An input (`IsInput`) is a text
in one of the encodings, marked or announced or neither, and then octets that
begin with no allowed character, if any; every finite sequence of octets is one.
It is made by `Encodings`, whose definitions are written from the standards:
decoding is compared with the text, not with itself.

### Writer

Each macro (`PUT`, `PUT_BREAK`, `WRITE`, `WRITE_BREAK`) is an action: flush when
fewer than five octets are free, then put. `yaml_emitter_flush` recodes with the
widths, masks and shifts of the code, octets kept modulo 256. The write handler
takes all it is given, or a part of it and fails; the first failure ends the
behaviour.

What is put has at most three octets (`WriterAssumption`). `IS_PRINTABLE`
(yaml_private.h:261) has no case for the leading octets of four, so
`yaml_emitter_analyze_scalar` (emitter.c:1601, 1673) leaves a text with a character
beyond U+FFFF no style but double-quoted, and there it is written as `\U` and eight
digits (emitter.c:2064); anchors and handles are letters, and tags are %-escaped.
The branch of `yaml_emitter_flush` that makes surrogate pairs is kept in `Recode`,
but nothing reaches it, and no property speaks of it. That is as well: its second
unit takes eight bits where two belong (writer.c:119).

### Scalars: ScalarWriter, ScalarScanner, ScalarRoundTrip

The one place where text is modelled character by character, because the
property is about the text. An iteration of a loop in `write_*_scalar`, or of an
inner loop in `scan_*_scalar`, is one step. A *place* is all that the emitter's
other state contributes: flow level, indent, column, whether it is a simple key,
and what the next event writes after the scalar, which decides whether the
scanner ends where it should. `hand_over` gives what was written to the scanner.
Behaviours that start in `ReadOnly` scan quoted text the emitter would not write
and compare it with `LinesFolded`, a reference definition of folding by runs.

### Tags: TagWriter, TagScanner, RoundTrip

A document with directives and one tagged node (the root, or an item of a flow
sequence) is written: the directives are analyzed and registered, the default
ones added, the tag is matched against them, and handle, suffix or verbatim tag
are written with their escapes. What is written is scanned, URI octet by octet,
and resolved against the directives the parser registered. `RoundTrip` runs
scalars and tags as alternative behaviours of one specification.

## 3. Runs

| run | what it shows |
|---|---|
| `parser_structure` | for all streams of at most 8 tokens over 14 structural token types: stacks, marks, first entries, end of stream, refinement of `EventStream`, and termination |
| `parser_documents` | for all streams of at most 6 tokens over all types, failing allocations included: types, and directives confined to their document |
| `scanner` | for all inputs of at most 6 characters: keys, order, balance, end, and no required key forgotten |
| `reader` | for all inputs below, however the handler cuts them: the text is delivered once, broken input is refused where it is broken, no buffer overflows, the look-ahead is there, every call returns |
| `loader` | for all streams of at most 9 events, each allocation failing: context and pairs agree with the grammar, returned documents are whole, no root only at the end, nothing leaked or freed twice |
| `emitter` | three kinds of sessions: structure (9 events), documents with directives and failures (6), scalars with every text, style, tag and flags (5): indents, flow levels, look-ahead, nothing outlives its document, `...` where needed, faithful styles and tags, refinement of `EventStream` |
| `round_trip` | scalars, tags and directives are read back as they were written; keys stay on one line; quoted lines are folded as the reference says |
| `round_trip_folded` | violated: a folded scalar with an indented line is broken where the break is kept |
| `round_trip_tags` | violated: `,` in the suffix of a tag is not read back |
| `writer` | wherever the buffer is full, the handler gets the encoded stream, each octet once, and no buffer overflows |
| `dumper` | for all graphs of at most 3 nodes: the events describe the graph, anchors are where they are needed, numbered from 1, nothing leaked or freed twice, dumping ends, refinement of `EventStream` |

The type invariant of `Reader`, `Writer`, `Dumper`, `Emitter` and `Loader` is a
conjunct of another invariant of the same module (`BuffersFit`,
`AnchorsAreNeeded`, `IndentsFollowNesting`, `ContextFollowsStream`).
`parser_documents` leaves the refinement to the theorem, which covers failing
allocations: that `process_directives_failed` keeps to the grammar is shown by
`ParserRefinesEventStream` alone, `parser_structure` having no failing allocation.

**Bounds.**

* *Parser.* `MaxTokens` 8 is enough for a pair mapping inside a sequence inside
  a mapping, for two documents, and for each error behind each of them; 14 token
  types in any order cover every state with every look-ahead. `MaxTokens` 6 with
  directives covers a document with two directives followed by another one. The
  theorems of section 4 need none of these bounds.
* *Scanner.* `KeyLimit` (1024 in the code) is 3 and `IntMax` (2147483647) is 2,
  so that both limits are crossed within `MaxIndex` = 6 characters; six characters
  hold a key, a nested key on the next line, and a document marker.
* *Loader.* Nine events hold a mapping whose key is an alias or a collection,
  behind another document; `StackLimit` (`INT_MAX - 1`) is 4, which such documents
  reach and exceed. The run leaves out nodes without a tag: to the loader they
  are nodes with the tag `!` and one string less.
* *Emitter.* Nine events hold a mapping in an indentless sequence in a mapping,
  with the three events of look-ahead each; six hold two documents, the second
  with directives; `BestIndent` 2 is the default, and the properties only compare
  indents.
* *Reader.* `RawSize` 4 (16384 in the code) is the longest character, so every
  character is cut in every way by the end of the raw buffer; `BufferSize` is 12,
  three times that as in the code; look-aheads of 1 and 2. Texts of 3 characters
  of one to four octets, in every encoding, with and without byte order mark, and
  texts of 2 followed by one of 14 kinds of invalid UTF-8 or 7 of invalid
  UTF-16. `MaxFileSize` 13 is passed by the long text of 24 characters.
* *Writer.* `BufferSize` 8 (16384) with the margin of 5 flushes after at most
  four octets; `RawSize` 18 is related to it as in the code; five characters of one
  to three octets reach two flushes with every filling of the buffer.
* *Dumper.* Three nodes with two items each: cycles of length 1 to 3, shared
  nodes, a node that is both key and value.
* *Round trip.* All texts of up to 3 characters over 15 kinds, and of up to 7
  over letter, space, break, which at a width of 5 have several folds; quoted
  bodies of up to 5 blanks, breaks and letters; tags of up to 3 characters over 6
  kinds with up to two directives.

**Fairness.** `FairSpec` of `Parser` assumes that `yaml_parser_parse` is called
again as long as it has not reported the end or an error - the loop every
application of the API runs - and that a call that asks for a token gets an
answer: the scanner's loop over a finite input. In `Reader` and `Dumper` the steps
*inside* a running call are fair, and no others: a function that has been called
runs on, and a read handler that was asked answers. `ParsingEnds`, `CallsReturn`
and `DumpReturns` need this; all other properties hold without fairness.

**Deadlock** is checked for the parser, scanner, loader, emitter and round trip:
calls after the end or an error are steps (`ParseNothing`, `scan_nothing`,
`parse_nothing`) that the code answers with no event, and a finished round trip
stutters. It is not checked for reader, writer and dumper, where an application
may stop at any time and nothing follows a failure; that a call of them does not
hang is `CallsReturn` and `DumpReturns`.

## 4. Proofs

Each of the library's seven state machines has a module of proofs. A theorem
holds for every value of the constants that the module's assumption allows, so
for inputs, streams and documents of every length; only the bounds' being natural
numbers, the shape of an alphabet, and how the sizes of buffers are related in the
code, is assumed. In every module there is one inductive invariant `Inv`
(`ReaderInv`, `WriterInv`), checked by TLC on the run's instance before it was
proved, one lemma per action saying that it keeps `Inv`, and `Spec => []Inv`; what
the runs check follows from `Inv`. `ProofLemmas` has the facts about sequences that
all of them need (what `Append`, `Front`, a concatenation or a replaced element
does to each position, and what spelling out each element of a sequence does to a
concatenation).

| module | theorems | what the runs check |
|---|---|---|
| `ParserProofs` | `TypeCorrect`, `StatesStackSafe`, `MarksStackSafe`, `OpeningTokenSkipped`, `DirectivesAreScoped` | `TypeOK`, `StatesWellFormed`, `MarksMatchCollections`, `FirstStateSeesOpening`, `DirectivesOfTheDocument` |
| | `StreamEndIsProducedOnce` | `EndIsStreamEnd`, the first half of `StreamEndEndsParsing` |
| | `ParserRefinesEventStream` | `ProducesEventStream` |
| `ScannerProofs` | `TypeCorrect`, `StacksStayTogether`, `KeysAreInQueue`, `QueueIsInOrder`, `NothingAfterStreamEnd`, `BlocksAreBalanced` | `TypeOK`, `StacksAgree`, `KeysAwaitInQueue`, `TokensInOrder`, `StreamEndIsLast`, `BlocksBalance` |
| | `RequiredKeysAreResolved` | the action property `RequiredKeyIsResolved` |
| `LoaderProofs` | `ContextIsFollowed`, `DocumentsAreWhole`, `BlocksAreOwnedOnce` | `ContextFollowsStream`, `LoadedWhole`, `OwnedOnce` |
| `EmitterProofs` | `IndentsAreNested`, `FlowLevelIsExact`, `LookaheadIsEnough`, `DocumentsLeaveNothing`, `OpenEndIsClosed`, `ScalarsKeepTheirMeaning` | `IndentsFollowNesting`, `FlowLevelCounts`, `LookaheadSuffices`, `NothingOutlivesDocument`, `OpenEndedIsClosed`, `ScalarsAreFaithful` |
| | `EmitterRefinesEventStream` | `AcceptsEventStream` |
| `DumperProofs` | `BlocksAreOwnedOnce` | `OwnedOnce` |
| | `AnchorsAreRight`, `GraphComesBack` | `AnchorsAreNeeded`, `GraphIsPreserved` |
| | `DumperRefinesEventStream` | `DumpsEventStream` |
| `ReaderProofs` | `ReaderBuffersFit`, `ReaderOffsetIsBounded`, `TextIsDelivered` | `BuffersFit`, `OffsetIsBounded`, `DeliversText` |
| | `ReaderLookaheadIsThere` | the action property `LookaheadIsThere` |
| `WriterProofs` | `WriterBuffersFit`, `WriterOutputIsTheStream` | `BuffersFit`, `OutputIsTheStream` |

**Parser.** `Inv` is the conjunction of the first four properties. None is
inductive alone: that a `POP!` of states finds something depends on the state
being one inside a document; that a `POP!` of marks finds *its* mark depends on
the shape of the state stack (marks of outer collections are the marked frames
of the stack); that a first entry pushes the right mark depends on no frame of
the same depth having one. Each handler is reduced to one of a few ways to end a
call (`Return`, `ReturnPop`, `Fail`, opening and closing a collection), and
lemmas about those say what they do to the invariant and to the frames. The
refinement uses the invariant to identify the top of the mapped stack. The
directives need to know of each handler only whether it touches the table, and
`EndIsStreamEnd` only that the last token it skips is not STREAM-END (`EndNotSkipped`);
that the state does not become `END` inside a document is read off the stack.

**Scanner.** Tokens are put into the *middle* of the queue, so what is said of
the queue is said of pieces: `Ordered(lo, s, hi)` and `Balanced(a, s, b)` hold of
a concatenation when they hold of its parts, and an insertion is three parts.
`KeysFit` says of every simple key that may still become one that its token is
in the queue and where; that the queue's head is taken only when no key is there
(`HeadIsFree`) is what keeps this true when the parser takes a token. A fact that
is by induction on a position (what `unroll_indent` closes, the number of open
blocks at each place) is proved by the least position at which it could fail:
the library's induction theorems cannot be used here, a set of naturals with a
least element can. `RequiredKeysAreResolved` follows step by step from `Inv`.

**Emitter.** `Shaped` (what the state stack holds), `Columns` (one indent per
level, and how neighbours compare), `Levels` (the flow level is the number of flow
collections, block ones outside), `Looked` (the events a decision was based on are
still in the queue when it takes effect) and `Ended` (what the text ends with) are
kept together, because which of two states a handler goes to was decided by the
one before it. `EmitterAssumption` says what an alphabet of events is: their
types and styles are those of `yaml.h`. Nothing is assumed of their order.

**Dumper.** `Built` says that items are nodes of the document, `Entered` where the
recursion stands, `Control` what the emitter has been given at each place of the
call, `Owned` which blocks there are: those of the document, less those of the
nodes already serialized, plus the table of anchors. The refinement reads the
frames off `open`: a collection that has given an even or odd number of items is
at a key or a value.

For the anchors two traversals of a graph of any shape have to be compared.
`AnchorInv` counts for both of them the *edges* followed, an edge being an item of a
collection or what leads to the root. `anchor_node`: `Counting` says that the edges
from the nodes met so far are those followed and, each once, those `todo` lists; the
references of a node tell none, one and several edges to it apart (`Tallied`), and
`Numbered` gives an anchor to those with several. `dump_node`: `Dumped` says the same
of the edges that `open` is past (`Followed`): a node is serialized if there is one
to it, and has an alias if there are several. At the end both are all edges from
the same nodes: `MetAreReachable` says that none was met but what any set that
contains the root and is closed under items contains, and the serialized nodes are
such a set.

For the graph `GraphInv` says in `ReadsAs` what the events read so far have become:
each serialized node once (`NodesRead`), with all its items, or, while `dump_node` is
in it, those before the next (`ItemsRead`); the reader is in the same collections
as the recursion (`Inside`), and each anchor stands for its node (`Naming`). An
alias finds its node because `AnchorInv` gives an anchor to whatever is due a second
time (`AliasHasAnchor`). `Read` is a recursive function, of which the proofs use
only what one more event does to it (`ReadAppend`).

**Loader.** While an event is handled the parser is one event ahead, so the frames
are not those that the context agrees with: `Behind` says that there were frames
before the event with which it does (`Agrees`), and each handler makes up for the
event. `Depth(fr, f)`, the number of collections below a frame, says which element
of the context belongs to it, and is shown to change by one when a frame is pushed
or popped. `Linked` and `Pointing` keep every index inside the document;
`Fresh` (what the event brought is not in the document yet) makes the names in
`Accounts` different from those already owned, from which `OwnedOnce` follows.
`Accounts` is not claimed where the loader reads an event as one of another
type (`undefined`).

**Reader.** `ReaderInv` has at its centre `Divided`: the characters of the input
are those moved past, then those in the buffer, then those the octets not yet
decoded stand for, with a NUL behind the buffer only at the end. For a step of
decoding this needs that the decoder reads a whole character as the standard
encodes it, waits for the rest of one that is cut off, and refuses what is none
(`DecodeWhole`, `DecodeCut`, `DecodeSound`, for each encoding): facts about the
arithmetic of the code for all 1112064 scalar values and all sequences of octets.
`Room` explains the factor three of `INPUT_BUFFER_SIZE`: two octets of UTF-16 become
at most three of UTF-8, so `2*Len(buffer) + 3*Len(raw_buffer) + 1` never exceeds
twice the size while a raw buffer is decoded. `Bound` says how far beyond the
limit `offset` may be at each place of a call.

**Writer.** `WriterInv` has the same centre: what was put is two texts `a` and `b`,
of which the buffer holds `b` in UTF-8 and the handler has been given `a` in the
output's encoding. That recoding a buffer gives the encoding of its text is a fact
about a loop over data. It is proved without an induction theorem: the text spelled
so far and the octets of the next character satisfy the same equation at every
length (`GrowSeq` in `ProofLemmas`: a set of sequences that has the empty one, and
with each sequence all longer by one element, has them all). That each character is recoded as RFC 2781
says (`RecodeIs`) is arithmetic, for the characters of at most three octets to which
`WriterAssumption` restricts what is put.

**Only model-checked:**

* `ParsingEnds`, `CallsReturn`, `DumpReturns`: liveness under fairness is beyond
  the prover.
* the second half of `StreamEndEndsParsing`: that no token is asked for behind
  STREAM-END rests on the guard of `fetch_more_tokens`, no handler being `ENABLED`,
  and the prover does not reason about `ENABLED`.
* The properties of the round trips, `TextIsReadBack`, `LinesAreFolded` and
  `TagIsReadBack`: an invariant would have to say what the scanner will make of each
  prefix of what was written, for every style with its folding, escapes and
  look-ahead. That has not been tried.

## 5. Findings

1. `yaml_emitter_write_folded_scalar` (emitter.c:2344) breaks a long line at a
   space without a look at how the line starts. Behind a line that starts with a
   blank the scanner keeps the break, so the space comes back as a line break. The
   test `run-emitter.c:311` asserts that what is emitted is parsed to the same
   events. (`round_trip_folded`)
2. `yaml_emitter_write_tag_content` (emitter.c:1888) leaves `,`, `[` and `]` in a
   suffix behind a handle as they are; `yaml_parser_scan_tag_uri` accepts them in
   verbatim tags only (scanner.c:2609). (`round_trip_tags`)

Both are in the C code and were taken over by the port. Other disagreements,
met while modelling and kept in the models as the code has them:

* an empty key in a flow sequence skips the token it peeked at (parser.c:1027), so
  a `]` or `,` there is lost; the grammar (parser.c:34) has an empty key take no token;
* `parse_block_mapping_key` refuses a VALUE without a KEY, which the grammar
  (parser.c:27) allows;
* an event whose emission fails stays in the emitter's queue (emitter.c:291),
  although it is to be destroyed even if the function fails (yaml.h:1912).

## 6. Original and port

Where the two sources differ:

* `STACK_INIT` of the C code sets the MEMORY error when malloc fails, the port's
  macro does not (macros.rs:376). So in the port a failing `process_directives`
  (parser.rs:1194) leaves the parser running, and a failing `yaml_parser_load`
  (loader.rs:619, loader.rs:163) lets the next load start in the middle of a
  document, which the C code would exclude by an assertion. `Parser`
  (`process_directives_failed`) and `Loader` are the port here; the safety
  properties hold all the same, and more behaviours are covered than C has.
* `loader.c` leaks the array of items or pairs when the node cannot be pushed, and
  the event when the alias stack cannot be made; the port frees both. `OwnedOnce`
  of `Loader` is a property of the port.
* the port checks `indents` for emptiness before popping it in the emitter;
  `IndentsFollowNesting` shows that this never happens.
* the port's dumper also clears the document and `last_anchor_id` when there is no
  table of anchors; in the C code these are overwritten by the next dump.

## 7. Plan

The modules of the original plan are there but for `Containers` (stacks and
queues over addresses, refining sequences) and a composition of `Scanner` and
`Parser` through one token queue. These two are what is left, with `BlocksBalance` of
the scanner as what the parser may assume of its tokens.

## 8. Not modelled

* Text no property is about: comments, the text of anchors and of %YAML
  directives, canonical output.
* Going on after a failure: the retry of an event the emitter failed to emit, a
  second flush after the write handler failed, a dump after one that failed. All
  callers in the repository give the object up.
* The containers' pointer arithmetic. The modules use sequences whose growth may
  fail; in `Reader` and `Writer`, where room matters, it is counted.
* Constructors of events and setters, which have no control of their own;
  `yaml_parser_initialize` and `yaml_emitter_initialize` are `Init`,
  `yaml_document_delete` and `yaml_emitter_delete` are actions. Getters.
* `alloc.rs`, `ffi.rs`, `lib.rs`, `types.rs`: wrappers of malloc and of the C ABI,
  type definitions. An allocation failure is modelled where it happens.
* `safe/compat`, tests, packaging: not part of the library.

------------------------------- MODULE Emitter -------------------------------
(***************************************************************************)
(* The emitter: yaml_emitter_emit queues an event, and handles the events  *)
(* at the head of the queue for which enough of the following ones are     *)
(* known (emitter.c, emitter.rs).                                          *)
(*                                                                         *)
(* One iteration of the loop of yaml_emitter_emit is one step.  The        *)
(* application may pass any event at any time; nothing is assumed of the   *)
(* order.  Of the text that is written the model keeps the indentation,    *)
(* the style and the tag of scalars, and what the text ends with; of the   *)
(* text of a scalar it keeps the features yaml_emitter_analyze_scalar      *)
(* finds.  A call that fails leaves its event in the queue; the            *)
(* application then gives up the emitter.                                  *)
(***************************************************************************)
EXTENDS Integers, FiniteSets, Sequences, SequencesExt

CONSTANTS
    BestIndent,    \* emitter.best_indent
    Sessions       \* [name -> what an application does: see below]

Opening == {"STREAM_START", "DOCUMENT_START", "SEQUENCE_START", "MAPPING_START"}
Closing == {"STREAM_END", "DOCUMENT_END", "SEQUENCE_END", "MAPPING_END"}

\* alphabet: the events the application passes; length: the bound on how many
\* of them; fail: whether writing and allocating may fail.
ASSUME EmitterAssumption ==
    /\ BestIndent \in 2..9
    /\ \A s \in DOMAIN Sessions :
          /\ DOMAIN Sessions[s] = {"alphabet", "length", "fail"}
          /\ Sessions[s].length \in Nat
          /\ Sessions[s].fail \in BOOLEAN
          /\ \A e \in Sessions[s].alphabet :
                /\ e.type \in Opening \cup Closing \cup {"SCALAR", "ALIAS"}
                /\ e.type = "SCALAR" => e.style \in {"PLAIN", "SINGLE", "DOUBLE", "BLOCK"}

VARIABLES
    events,            \* the queue
    state, states,     \* what is expected, and what after the open collections
    indent, indents,
    flow_level,
    mapping_context,   \* the node is in a mapping
    indention,         \* nothing but indentation and indicators are on the line,
                       \* where a block collection may start; after a leaf or
                       \* an end it is not read before it is set again
    open_ended,        \* 0, 1: an implicit end, 2: an open-ended block scalar
    tag_directives,    \* the handles
    canonical,
    session,           \* what this application does
    pc,                \* "idle", "emitting", or how the application ended it
    given,             \* how many events the application passed
    last,              \* history: the type of the last event handled
    tail,              \* history: what the text ends with
    written            \* history: the last scalar, and how it was written

layout == <<indent, indents, flow_level>>
options == <<canonical, session>>
text == <<open_ended, tail, written>>
vars == <<events, state, states, layout, mapping_context, indention,
          tag_directives, options, pc, given, last, text>>

Alphabet == Sessions[session].alphabet
MaxEvents == Sessions[session].length
MayFail == Sessions[session].fail

-----------------------------------------------------------------------------
(* Events.                                                                 *)

event == Head(events)
Type(i) == events[i].type

\* How many of the first n events in the queue are still open.
Level(n) ==
    Cardinality({i \in 1..n : Type(i) \in Opening})
    - Cardinality({i \in 1..n : Type(i) \in Closing})

\* How many events have to follow, unless what the first one opens is closed.
Accumulate(type) ==
    CASE type = "DOCUMENT_START" -> 1
      [] type = "SEQUENCE_START" -> 2
      [] type = "MAPPING_START" -> 3
      [] OTHER -> 0

\* Faulty variant: a collection does not wait for what follows.
need_more_events_empty == events = <<>>

need_more_events ==
    events # <<>> =>
       /\ Len(events) <= Accumulate(event.type)
       /\ \A n \in DOMAIN events : Level(n) # 0

\* The event at the head opens a collection that the next one closes.
check_empty_sequence ==
    Len(events) >= 2 /\ Type(1) = "SEQUENCE_START" /\ Type(2) = "SEQUENCE_END"
check_empty_mapping ==
    Len(events) >= 2 /\ Type(1) = "MAPPING_START" /\ Type(2) = "MAPPING_END"

-----------------------------------------------------------------------------
(* Scalars.  features is a subset of:                                      *)
(*   "empty"      the text is empty                                        *)
(*   "break"      there is a line break in it                              *)
(*   "edge"       it starts or ends with a space or a break                *)
(*   "space end"  it ends with a space                                     *)
(*   "space"      a break is followed by a space                           *)
(*   "special"    a space is followed by a break, or unprintable characters *)
(*   "flow", "block"  indicators that cannot be plain in flow, in block    *)
(*   "keep"       it ends with breaks that only "+" keeps                  *)

\* yaml_emitter_analyze_scalar: the styles the text may be written in.
analyze_scalar(features) ==
    LET has(fs) == features \cap fs # {} IN
    (IF has({"empty", "edge", "space", "special", "break", "flow"}) THEN {} ELSE {"flow plain"})
    \cup (IF has({"edge", "space", "special", "break", "block"}) THEN {} ELSE {"block plain"})
    \cup (IF has({"space", "special"}) THEN {} ELSE {"single"})
    \cup (IF has({"empty", "space end", "special"}) THEN {} ELSE {"block"})

\* Whether yaml_emitter_analyze_event leaves the scalar without tag_data.
no_tag(ev) ==
    ~(ev.tag = "given" /\ (canonical \/ (~ev.plain_implicit /\ ~ev.quoted_implicit)))

\* The style, at the flow level, and as a simple key or not.
select_scalar_style(ev, level, simple) ==
    LET allowed == analyze_scalar(ev.features)
        asked == IF canonical \/ (simple /\ "break" \in ev.features) THEN "DOUBLE" ELSE ev.style
        unplain == \/ level # 0 /\ "flow plain" \notin allowed
                   \/ level = 0 /\ "block plain" \notin allowed
                   \/ "empty" \in ev.features /\ (level # 0 \/ simple)
                   \/ no_tag(ev) /\ ~ev.plain_implicit
        quoted == IF asked = "PLAIN" /\ unplain THEN "SINGLE" ELSE asked
    IN IF \/ quoted = "SINGLE" /\ "single" \notin allowed
          \/ quoted = "BLOCK" /\ ("block" \notin allowed \/ level # 0 \/ simple)
       THEN "DOUBLE" ELSE quoted

\* Faulty variant: only plain scalars may lack their tag.
SelectTag_never(ev, style) == IF no_tag(ev) THEN "none" ELSE "given"

\* The tag that is written with it.
SelectTag(ev, style) ==
    IF ~no_tag(ev) THEN "given"
    ELSE IF ~ev.quoted_implicit /\ style # "PLAIN" THEN "!"
    ELSE "none"

\* yaml_emitter_check_simple_key: whether the node fits on one line before ":".
check_simple_key ==
    /\ event.type \in {"ALIAS", "SCALAR", "SEQUENCE_START", "MAPPING_START"}
    /\ event.short
    /\ event.type = "SCALAR" => "break" \notin event.features
    /\ event.type = "SEQUENCE_START" => check_empty_sequence
    /\ event.type = "MAPPING_START" => check_empty_mapping

-----------------------------------------------------------------------------
(* Nodes.                                                                  *)

\* yaml_emitter_increase_indent
increase_indent(flow, indentless) ==
    IF indent < 0 THEN (IF flow THEN BestIndent ELSE 0)
    ELSE IF indentless THEN indent
    ELSE indent + BestIndent

\* A handler returns, and its event is removed.
Handled ==
    /\ last' = event.type
    /\ events' = Tail(events)
    /\ UNCHANGED <<options, pc, given>>

\* A handler fails.  What it has changed so far is not looked at again.
set_emitter_error ==
    /\ pc' = "failed"
    /\ UNCHANGED <<events, state, states, layout, mapping_context, indention,
                   tag_directives, options, given, last, text>>

emit_alias(resume) ==
    /\ event.type = "ALIAS"
    /\ state' = resume
    /\ tail' = "text"
    /\ indention' = FALSE
    /\ UNCHANGED <<states, open_ended, written>>

\* yaml_emitter_write_block_scalar_hints: open_ended after a block scalar.
write_block_scalar_hints(features) == IF "keep" \in features THEN 2 ELSE 0

\* yaml_emitter_emit_scalar.  Its increase_indent is undone before it returns;
\* styles other than block leave open_ended alone.
emit_scalar(resume, level, simple) ==
    LET style == select_scalar_style(event, level, simple)
        hints == IF style = "BLOCK" THEN write_block_scalar_hints(event.features) ELSE open_ended
    IN
    /\ event.type = "SCALAR"
    /\ state' = resume
    /\ written' = [scalar |-> event, style |-> style, tag |-> SelectTag(event, style),
                   level |-> level, simple |-> simple]
    /\ open_ended' = hints
    /\ tail' = IF style = "BLOCK" /\ "keep" \in event.features THEN "open" ELSE "text"
    /\ indention' = FALSE
    /\ UNCHANGED states

\* Faulty variant: the style is the one asked for.
FlowStyle_asked(level) ==
    canonical \/ event.flow \/ check_empty_sequence \/ check_empty_mapping

\* Whether the collection is written in flow style.
FlowStyle(level) ==
    level # 0 \/ canonical \/ event.flow \/ check_empty_sequence \/ check_empty_mapping

\* yaml_emitter_emit_sequence_start and _mapping_start, when the line so far
\* leaves indention as ind.
emit_collection_start(resume, level, ind) ==
    /\ \/ /\ event.type = "SEQUENCE_START"
          /\ state' = IF FlowStyle(level) THEN "FLOW_SEQUENCE_FIRST_ITEM"
                      ELSE "BLOCK_SEQUENCE_FIRST_ITEM"
       \/ /\ event.type = "MAPPING_START"
          /\ state' = IF FlowStyle(level) THEN "FLOW_MAPPING_FIRST_KEY"
                      ELSE "BLOCK_MAPPING_FIRST_KEY"
    /\ states' = Append(states, resume)
    /\ tail' = "text"
    /\ indention' = (ind /\ ~event.decorated)
    /\ UNCHANGED <<open_ended, written>>

NodeTypes == {"ALIAS", "SCALAR", "SEQUENCE_START", "MAPPING_START"}

\* A scalar without a tag that is implicit in no style is refused.
BadScalar ==
    event.type = "SCALAR" /\ no_tag(event) /\ ~event.plain_implicit /\ ~event.quoted_implicit

\* PUSH(states, resume) and yaml_emitter_emit_node.  A leaf pops the state it
\* pushed.
emit_node(resume, level, mapping, simple, ind) ==
    /\ \/ emit_alias(resume)
       \/ ~BadScalar /\ emit_scalar(resume, level, simple)
       \/ emit_collection_start(resume, level, ind)
    /\ mapping_context' = mapping
    /\ UNCHANGED tag_directives
    /\ Handled

Unexpected(types) == (event.type \notin types \/ BadScalar) /\ set_emitter_error

-----------------------------------------------------------------------------
(* The state machine.                                                      *)

emit_stream_start ==
    /\ state = "STREAM_START"
    /\ \/ /\ event.type = "STREAM_START"
          /\ open_ended' = 0
          /\ indent' = -1
          /\ indention' = TRUE
          /\ state' = "FIRST_DOCUMENT_START"
          /\ UNCHANGED <<states, indents, flow_level, mapping_context, tag_directives,
                         tail, written>>
          /\ Handled
       \/ Unexpected({"STREAM_START"})

Defaults == <<"!", "!!">>
Uses(handle, directives) == \E i \in DOMAIN directives : directives[i] = handle

\* yaml_emitter_append_tag_directive refuses a handle that is already there.
Duplicate(handles) ==
    \E i \in DOMAIN handles :
       Uses(handles[i], tag_directives) \/ Uses(handles[i], SubSeq(handles, 1, i - 1))

emit_document_start(first) ==
    LET d == event
        directives == tag_directives \o d.handles
        defaults == SelectSeq(Defaults, LAMBDA h : ~Uses(h, directives))
        explicit == \/ ~d.implicit \/ ~first \/ canonical
                    \/ d.version # "none" \/ d.handles # <<>>
    IN
    /\ state = IF first THEN "FIRST_DOCUMENT_START" ELSE "DOCUMENT_START"
    /\ \/ /\ d.type = "DOCUMENT_START"
          /\ \/ (d.version = "bad" \/ Duplicate(d.handles)) /\ set_emitter_error
             \/ /\ d.version # "bad" /\ ~Duplicate(d.handles)
                /\ tag_directives' = directives \o defaults
                /\ open_ended' = 0
                /\ tail' = IF explicit THEN "text" ELSE tail
                /\ indention' = IF explicit THEN canonical ELSE indention
                /\ state' = "DOCUMENT_CONTENT"
                /\ UNCHANGED <<states, layout, mapping_context, written>>
                /\ Handled
       \/ /\ d.type = "STREAM_END"
          /\ open_ended' = IF open_ended = 2 THEN 0 ELSE open_ended
          /\ tail' = IF open_ended = 2 THEN "marker" ELSE tail
          /\ indention' = (open_ended = 2 \/ indention)
          /\ state' = "END"
          /\ UNCHANGED <<states, layout, mapping_context, tag_directives, written>>
          /\ Handled
       \/ Unexpected({"DOCUMENT_START", "STREAM_END"})

emit_document_content ==
    /\ state = "DOCUMENT_CONTENT"
    /\ \/ /\ emit_node("DOCUMENT_END", flow_level, FALSE, FALSE, indention)
          /\ UNCHANGED layout
       \/ Unexpected(NodeTypes)

\* Faulty variant: an implicit end forgets that the last scalar was open-ended.
AfterDocument_forgetting(implicit) == IF implicit THEN 1 ELSE 0

\* open_ended after the end of the document.
AfterDocument(implicit) ==
    IF ~implicit THEN 0 ELSE IF open_ended = 0 THEN 1 ELSE open_ended

\* Faulty variant: the tag directives are kept.
DirectivesLeft_all == tag_directives

\* tag_directives after the end of the document.
DirectivesLeft == <<>>

emit_document_end ==
    /\ state = "DOCUMENT_END"
    /\ \/ /\ event.type = "DOCUMENT_END"
          /\ open_ended' = AfterDocument(event.implicit)
          /\ tail' = IF event.implicit THEN tail ELSE "marker"
          /\ indention' = TRUE
          /\ state' = "DOCUMENT_START"
          /\ tag_directives' = DirectivesLeft
          /\ UNCHANGED <<states, layout, mapping_context, written>>
          /\ Handled
       \/ Unexpected({"DOCUMENT_END"})

\* POP(indents) and POP(states); the first item has just pushed its indent.
Close(first, wrote) ==
    /\ indent' = IF first THEN indent ELSE Last(indents)
    /\ indents' = IF first THEN indents ELSE Front(indents)
    /\ state' = Last(states)
    /\ states' = Front(states)
    /\ tail' = IF wrote THEN "text" ELSE tail
    /\ indention' = (indention /\ ~wrote)
    /\ UNCHANGED <<mapping_context, tag_directives, open_ended, written>>
    /\ Handled

\* The first item of a collection increases the indent.
Indented(first, flow, indentless) ==
    /\ indent' = IF first THEN increase_indent(flow, indentless) ELSE indent
    /\ indents' = IF first THEN Append(indents, indent) ELSE indents

emit_flow_sequence_item(first) ==
    LET level == IF first THEN flow_level + 1 ELSE flow_level IN
    /\ state = IF first THEN "FLOW_SEQUENCE_FIRST_ITEM" ELSE "FLOW_SEQUENCE_ITEM"
    /\ \/ event.type = "SEQUENCE_END" /\ flow_level' = level - 1 /\ Close(first, TRUE)
       \/ /\ emit_node("FLOW_SEQUENCE_ITEM", level, FALSE, FALSE, FALSE)
          /\ Indented(first, TRUE, FALSE)
          /\ flow_level' = level
       \/ Unexpected(NodeTypes \cup {"SEQUENCE_END"})

emit_flow_mapping_key(first) ==
    LET level == IF first THEN flow_level + 1 ELSE flow_level
        simple == ~canonical /\ check_simple_key
    IN
    /\ state = IF first THEN "FLOW_MAPPING_FIRST_KEY" ELSE "FLOW_MAPPING_KEY"
    /\ \/ /\ event.type = "MAPPING_END"
          /\ flow_level' = level - 1
          /\ Close(first, TRUE)
       \/ /\ emit_node(IF simple THEN "FLOW_MAPPING_SIMPLE_VALUE" ELSE "FLOW_MAPPING_VALUE",
                       level, TRUE, simple, FALSE)
          /\ Indented(first, TRUE, FALSE)
          /\ flow_level' = level
       \/ Unexpected(NodeTypes \cup {"MAPPING_END"})

emit_flow_mapping_value ==
    /\ state \in {"FLOW_MAPPING_SIMPLE_VALUE", "FLOW_MAPPING_VALUE"}
    /\ \/ /\ emit_node("FLOW_MAPPING_KEY", flow_level, TRUE, FALSE, FALSE)
          /\ UNCHANGED layout
       \/ Unexpected(NodeTypes)

\* Faulty variant: every sequence that does not start its line is indentless.
Indentless_anywhere == ~indention

\* A sequence that is a value on the line of its key keeps the key's indent.
Indentless == mapping_context /\ ~indention

\* The item is written after write_indent and "-", which keep indention.
emit_block_sequence_item(first) ==
    /\ state = IF first THEN "BLOCK_SEQUENCE_FIRST_ITEM" ELSE "BLOCK_SEQUENCE_ITEM"
    /\ \/ event.type = "SEQUENCE_END" /\ UNCHANGED flow_level /\ Close(first, FALSE)
       \/ /\ emit_node("BLOCK_SEQUENCE_ITEM", flow_level, FALSE, FALSE, TRUE)
          /\ Indented(first, FALSE, Indentless)
          /\ UNCHANGED flow_level
       \/ Unexpected(NodeTypes \cup {"SEQUENCE_END"})

emit_block_mapping_key(first) ==
    /\ state = IF first THEN "BLOCK_MAPPING_FIRST_KEY" ELSE "BLOCK_MAPPING_KEY"
    /\ \/ event.type = "MAPPING_END" /\ UNCHANGED flow_level /\ Close(first, FALSE)
       \/ /\ event.type \in NodeTypes
          /\ emit_node(IF check_simple_key THEN "BLOCK_MAPPING_SIMPLE_VALUE" ELSE "BLOCK_MAPPING_VALUE",
                       flow_level, TRUE, check_simple_key, TRUE)
          /\ Indented(first, FALSE, FALSE)
          /\ UNCHANGED flow_level
       \/ Unexpected(NodeTypes \cup {"MAPPING_END"})

\* Faulty variant: another value is expected after the value.
emit_block_mapping_value_again(simple) ==
    /\ state = IF simple THEN "BLOCK_MAPPING_SIMPLE_VALUE" ELSE "BLOCK_MAPPING_VALUE"
    /\ \/ /\ emit_node("BLOCK_MAPPING_VALUE", flow_level, TRUE, FALSE, ~simple)
          /\ UNCHANGED layout
       \/ Unexpected(NodeTypes)

\* ":" after a simple key ends indention; ":" on a line of its own keeps it.
emit_block_mapping_value(simple) ==
    /\ state = IF simple THEN "BLOCK_MAPPING_SIMPLE_VALUE" ELSE "BLOCK_MAPPING_VALUE"
    /\ \/ /\ emit_node("BLOCK_MAPPING_KEY", flow_level, TRUE, FALSE, ~simple)
          /\ UNCHANGED layout
       \/ Unexpected(NodeTypes)

emit_after_end == state = "END" /\ set_emitter_error

state_machine ==
    \/ emit_stream_start
    \/ \E first \in BOOLEAN :
          \/ emit_document_start(first)
          \/ emit_flow_sequence_item(first) \/ emit_flow_mapping_key(first)
          \/ emit_block_sequence_item(first) \/ emit_block_mapping_key(first)
          \/ emit_block_mapping_value(first)
    \/ emit_document_content \/ emit_document_end
    \/ emit_flow_mapping_value
    \/ emit_after_end

-----------------------------------------------------------------------------
(* yaml_emitter_emit.                                                      *)

rest == <<state, states, layout, mapping_context, indention, tag_directives,
          options, last, text>>

\* ENQUEUE: when it fails the event is deleted and the call returns.
emit ==
    /\ pc = "idle"
    /\ given < MaxEvents
    /\ given' = given + 1
    /\ \/ \E e \in Alphabet : events' = Append(events, e) /\ pc' = "emitting"
       \/ MayFail /\ pc' = "refused" /\ UNCHANGED events
    /\ UNCHANGED rest

emit_step == pc = "emitting" /\ ~need_more_events /\ state_machine

emit_return ==
    /\ pc = "emitting"
    /\ need_more_events
    /\ pc' = "idle"
    /\ UNCHANGED <<events, given, rest>>

\* The end of a block collection writes and allocates nothing.
Writes ==
    ~(event.type \in Closing /\ state \in {"BLOCK_SEQUENCE_ITEM", "BLOCK_MAPPING_KEY"})

\* Analysing the event, writing or allocating fails in the handler; the error
\* is then YAML_EMITTER_ERROR, YAML_WRITER_ERROR or YAML_MEMORY_ERROR.
emit_failed ==
    /\ pc = "emitting"
    /\ ~need_more_events
    /\ MayFail /\ Writes
    /\ set_emitter_error

\* The application deletes the emitter, or leaves it.
yaml_emitter_delete ==
    /\ pc # "emitting"
    /\ pc' = "deleted"
    /\ events' = <<>>
    /\ tag_directives' = <<>>
    /\ UNCHANGED <<state, states, layout, mapping_context, indention, options,
                   given, last, text>>

NoScalar == [style |-> "none"]

Init ==
    /\ events = <<>>
    /\ state = "STREAM_START"
    /\ states = <<>>
    /\ indent = 0
    /\ indents = <<>>
    /\ flow_level = 0
    /\ mapping_context = FALSE
    /\ indention = FALSE
    /\ open_ended = 0
    /\ tag_directives = <<>>
    /\ canonical \in BOOLEAN
    /\ session \in DOMAIN Sessions
    /\ pc = "idle"
    /\ given = 0
    /\ last = "NO"
    /\ tail = "marker"
    /\ written = NoScalar

Next == emit \/ emit_step \/ emit_return \/ emit_failed \/ yaml_emitter_delete

Spec == Init /\ [][Next]_vars

-----------------------------------------------------------------------------

FlowStates ==
    {"FLOW_SEQUENCE_FIRST_ITEM", "FLOW_SEQUENCE_ITEM", "FLOW_MAPPING_FIRST_KEY",
     "FLOW_MAPPING_KEY", "FLOW_MAPPING_SIMPLE_VALUE", "FLOW_MAPPING_VALUE"}
BlockStates ==
    {"BLOCK_SEQUENCE_FIRST_ITEM", "BLOCK_SEQUENCE_ITEM", "BLOCK_MAPPING_FIRST_KEY",
     "BLOCK_MAPPING_KEY", "BLOCK_MAPPING_SIMPLE_VALUE", "BLOCK_MAPPING_VALUE"}
FirstStates ==
    {"FLOW_SEQUENCE_FIRST_ITEM", "FLOW_MAPPING_FIRST_KEY", "BLOCK_SEQUENCE_FIRST_ITEM",
     "BLOCK_MAPPING_FIRST_KEY"}
SimpleStates == {"FLOW_MAPPING_SIMPLE_VALUE", "BLOCK_MAPPING_SIMPLE_VALUE"}
SequenceStates ==
    {"FLOW_SEQUENCE_FIRST_ITEM", "FLOW_SEQUENCE_ITEM", "BLOCK_SEQUENCE_FIRST_ITEM",
     "BLOCK_SEQUENCE_ITEM"}
Between == {"FIRST_DOCUMENT_START", "DOCUMENT_START", "END"}
States ==
    FlowStates \cup BlockStates \cup Between
    \cup {"STREAM_START", "DOCUMENT_CONTENT", "DOCUMENT_END"}

\* The types of the emitter's variables.
TypeOK ==
    /\ session \in DOMAIN Sessions
    /\ events \in Seq(Alphabet)
    /\ state \in States
    /\ states \in Seq(States)
    /\ indent \in -1..(BestIndent * MaxEvents)
    /\ indents \in Seq(-1..(BestIndent * MaxEvents))
    /\ flow_level \in 0..MaxEvents
    /\ mapping_context \in BOOLEAN /\ indention \in BOOLEAN /\ canonical \in BOOLEAN
    /\ open_ended \in 0..2
    /\ pc \in {"idle", "emitting", "failed", "refused", "deleted"}
    /\ given \in 0..MaxEvents
    /\ tail \in {"marker", "open", "text"}

\* What is expected in the document and in each open collection, innermost last.
Places == Append(states, state)

\* The variables keep their types, and every place has its column: the indent
\* it is at, or had when the next one was entered.  A block collection is
\* indented more than the one around it, except that a sequence may stand at
\* the indent of a mapping: only then its "-" cannot be taken for an item, and
\* its keys not for keys, of the outer one.
IndentsFollowNesting ==
    LET column == Append(indents, indent) IN
    /\ TypeOK
    /\ state # "STREAM_START" =>
       /\ Len(column) = Len(Places) - (IF state \in FirstStates THEN 1 ELSE 0)
       /\ column[1] = -1
       /\ \A i \in 3..Len(column) :
             Places[i] \in BlockStates =>
                \/ column[i] > column[i - 1]
                \/ /\ column[i] = column[i - 1]
                   /\ Places[i] \in SequenceStates
                   /\ Places[i - 1] \notin SequenceStates

\* flow_level counts the flow collections that were entered, and a block
\* collection is never opened inside one.
FlowLevelCounts ==
    /\ flow_level = Cardinality({i \in DOMAIN Places : Places[i] \in FlowStates \ FirstStates})
    /\ \A i, j \in DOMAIN Places :
          i < j /\ Places[i] \in FlowStates => Places[j] \in FlowStates

\* need_more_events waits for enough events: a block collection, for which there
\* would be no text if it were empty, is never empty; and a key that is written
\* without "?" is over when the next event is, as only an empty collection is
\* ever open in it.
LookaheadSuffices ==
    /\ pc = "emitting" /\ events # <<>> =>
         /\ state = "BLOCK_SEQUENCE_FIRST_ITEM" => event.type # "SEQUENCE_END"
         /\ state = "BLOCK_MAPPING_FIRST_KEY" => event.type # "MAPPING_END"
    /\ pc \in {"idle", "emitting"} =>
         \A i \in DOMAIN states :
            states[i] \in SimpleStates =>
               /\ i = Len(states)
               /\ events # <<>>
               /\ \/ state = "FLOW_SEQUENCE_FIRST_ITEM" /\ event.type = "SEQUENCE_END"
                  \/ state = "FLOW_MAPPING_FIRST_KEY" /\ event.type = "MAPPING_END"

\* Nothing of a document outlives it: between documents the stacks are empty,
\* and no tag directive is left that could refuse or shorten one of the next.
NothingOutlivesDocument ==
    state \in Between =>
       /\ states = <<>> /\ indents = <<>> /\ tag_directives = <<>>
       /\ indent = -1 /\ flow_level = 0

\* After a document open_ended tells whether "..." is missing, so that it is
\* written before directives; and text that ends in a block scalar whose
\* trailing breaks count is never the end of the stream.
OpenEndedIsClosed ==
    /\ state = "DOCUMENT_START" =>
          /\ open_ended = 0 <=> tail = "marker"
          /\ tail = "open" => open_ended = 2
    /\ state = "END" => tail # "open"

\* A scalar is read back as it was meant: it has no tag only if its flag for
\* the style says so, it is in block style only where that is possible, and a
\* style that cannot hold its text is not chosen.
ScalarsAreFaithful ==
    LET s == written.scalar IN
    written.style # "none" =>
       /\ written.tag = "none" =>
             IF written.style = "PLAIN" THEN s.plain_implicit ELSE s.quoted_implicit
       /\ written.style = "BLOCK" => written.level = 0 /\ ~written.simple
       /\ written.style = "PLAIN" => "break" \notin s.features
       /\ "special" \in s.features => written.style = "DOUBLE"
       /\ written.simple => "break" \notin s.features

\* The frames of EventStream that the states stand for.
FrameOf(s) ==
    CASE s = "STREAM_START" -> <<"stream">>
      [] s \in {"FIRST_DOCUMENT_START", "DOCUMENT_START"} -> <<"docs">>
      [] s = "DOCUMENT_CONTENT" -> <<"docend", "node">>
      [] s = "DOCUMENT_END" -> <<"docend">>
      [] s = "END" -> <<"done">>
      [] s \in SequenceStates -> <<"seq">>
      [] s \in {"FLOW_MAPPING_FIRST_KEY", "FLOW_MAPPING_KEY", "BLOCK_MAPPING_FIRST_KEY",
                "BLOCK_MAPPING_KEY"} -> <<"key">>
      [] OTHER -> <<"value">>
FramesOf == [i \in 1..Len(states) |-> FrameOf(states[i])[1]] \o FrameOf(state)

Stream == INSTANCE EventStream WITH frames <- FramesOf, event <- last

\* Whatever the application passes, the events that the emitter turns into
\* text are those of a stream as the parser produces it: all others are refused.
AcceptsEventStream == Stream!StreamSpec

=============================================================================

---------------------------- MODULE EmitterProofs ----------------------------
(***************************************************************************)
(* What is proved of the emitter for every order of events, every indent   *)
(* and every length of the session: the stacks of states and indents, the  *)
(* flow level, the lookahead, the end of a document, the choice of scalar  *)
(* styles, and that the events it accepts are a stream of events.          *)
(***************************************************************************)
EXTENDS Emitter, ProofLemmas

-----------------------------------------------------------------------------
(* The inductive invariant.                                                *)

Inner == FlowStates \cup BlockStates

\* The stack of states holds the document and, above it, the collections that
\* were entered; the state on top of it is a collection's unless it is empty.
Shaped ==
    /\ states = <<>> => state \notin Inner
    /\ states # <<>> => state \in Inner /\ states[1] = "DOCUMENT_END"
    /\ \A i \in 2..Len(states) : states[i] \in Inner \ FirstStates

\* Every event that was handled adds at most one level.
Done == given - Len(events)
Reach == BestIndent * Done
Bounded ==
    /\ Done \in Nat
    /\ indent <= Reach
    /\ \A i \in 1..Len(indents) : indents[i] <= Reach
    /\ flow_level <= Done

\* The columns c of the places p: only what stands directly in the document
\* can be left of column 0.
ColumnsFit(p, c) ==
    /\ c[1] = -1
    /\ \A i \in 2..Len(c) : c[i] >= 0
    /\ \A i \in 3..Len(c) :
          p[i] \in BlockStates =>
             \/ c[i] > c[i - 1]
             \/ c[i] = c[i - 1] /\ p[i] \in SequenceStates /\ p[i - 1] \notin SequenceStates

Columns ==
    /\ state = "STREAM_START" => indents = <<>>
    /\ state # "STREAM_START" =>
          /\ Len(indents) = Len(states) - (IF state \in FirstStates THEN 1 ELSE 0)
          /\ ColumnsFit(Places, Append(indents, indent))

\* A flow collection holds only flow collections.
FlowInside(p) ==
    \A i, j \in 1..Len(p) : i < j /\ p[i] \in FlowStates => p[j] \in FlowStates

FlowIn(p) == Count(p, FlowStates \ FirstStates)

Levels == flow_level = FlowIn(Places) /\ FlowInside(Places)

\* mapping_context tells where the collection that starts stands.
ContextFits == state \in FirstStates /\ mapping_context => Last(states) \notin SequenceStates

\* There are no tag directives outside documents.
Undirected == state \in Between \cup {"STREAM_START"} => tag_directives = <<>>

\* The events that were looked at are still in the queue.
Looked ==
    pc \in {"idle", "emitting"} =>
       /\ state = "BLOCK_SEQUENCE_FIRST_ITEM" => events # <<>> /\ event.type # "SEQUENCE_END"
       /\ state = "BLOCK_MAPPING_FIRST_KEY" => events # <<>> /\ event.type # "MAPPING_END"
       /\ \A i \in 1..Len(states) :
             states[i] \in SimpleStates =>
                /\ i = Len(states)
                /\ events # <<>>
                /\ \/ state = "FLOW_SEQUENCE_FIRST_ITEM" /\ event.type = "SEQUENCE_END"
                   \/ state = "FLOW_MAPPING_FIRST_KEY" /\ event.type = "MAPPING_END"

\* What the text ends with, inside a document and outside.
Ended ==
    /\ tail = "open" => open_ended = 2
    /\ state \in {"STREAM_START", "FIRST_DOCUMENT_START"} => tail = "marker"
    /\ state \in Inner \cup {"DOCUMENT_END"} => tail # "marker"
    /\ OpenEndedIsClosed

Inv ==
    /\ TypeOK /\ Shaped /\ Bounded /\ Columns /\ Levels /\ ContextFits
    /\ Undirected /\ Looked /\ Ended /\ ScalarsAreFaithful

-----------------------------------------------------------------------------
(* What a handler does.                                                    *)

\* t takes the place of s: the same collection, or both none.
SameKind(s, t) ==
    /\ s \in FlowStates <=> t \in FlowStates
    /\ s \in BlockStates <=> t \in BlockStates
    /\ s \in SequenceStates <=> t \in SequenceStates

\* The frames of the state and of the one that is resumed after the node.
Follows(resume) ==
    \/ state = "DOCUMENT_CONTENT" /\ resume = "DOCUMENT_END"
    \/ /\ state \in Inner
       /\ resume \in Inner \ FirstStates
       /\ FrameOf(resume) = <<Stream!Followed(FrameOf(state)[1])>>

Leaf(resume) ==
    /\ event.type \in {"ALIAS", "SCALAR"}
    /\ state' = resume
    /\ states' = states

Start(resume, level) ==
    /\ \/ /\ event.type = "SEQUENCE_START"
          /\ state' = IF FlowStyle(level) THEN "FLOW_SEQUENCE_FIRST_ITEM"
                      ELSE "BLOCK_SEQUENCE_FIRST_ITEM"
       \/ /\ event.type = "MAPPING_START"
          /\ state' = IF FlowStyle(level) THEN "FLOW_MAPPING_FIRST_KEY"
                      ELSE "BLOCK_MAPPING_FIRST_KEY"
    /\ states' = Append(states, resume)

\* What a node leaves in the text.
Texted ==
    /\ indention' \in BOOLEAN
    /\ open_ended' \in 0..2
    /\ tail' \in {"text", "open"}
    /\ tail' = "open" => open_ended' = 2
    /\ ScalarsAreFaithful'

\* The first item enters its collection.
NodeLayout ==
    IF state \in FirstStates
    THEN /\ indents' = Append(indents, indent)
         /\ flow_level' = IF state \in FlowStates THEN flow_level + 1 ELSE flow_level
         /\ \E flow, indentless \in BOOLEAN :
               /\ indent' = increase_indent(flow, indentless)
               /\ indentless => mapping_context /\ state \in SequenceStates
    ELSE UNCHANGED layout

NodeStep ==
    \E resume \in States \ FirstStates :
       /\ Handled
       /\ SameKind(state, resume)
       /\ Follows(resume)
       /\ NodeLayout
       /\ mapping_context' \in BOOLEAN
       /\ mapping_context' => resume \notin SequenceStates
       /\ resume \in SimpleStates => check_simple_key
       /\ UNCHANGED tag_directives
       /\ Texted
       /\ Leaf(resume) \/ Start(resume, flow_level')

CloseStep ==
    /\ Handled
    /\ \/ event.type = "SEQUENCE_END" /\ state \in SequenceStates
       \/ event.type = "MAPPING_END" /\ FrameOf(state) = <<"key">>
    /\ state \in Inner
    /\ state' = Last(states)
    /\ states' = Front(states)
    /\ IF state \in FirstStates THEN UNCHANGED layout
       ELSE /\ indent' = Last(indents)
            /\ indents' = Front(indents)
            /\ flow_level' = IF state \in FlowStates THEN flow_level - 1 ELSE flow_level
    /\ indention' \in BOOLEAN
    /\ tail' \in {"text", tail}
    /\ UNCHANGED <<mapping_context, tag_directives, open_ended, written>>

\* The steps of the stream and of its documents leave the stacks alone.
DocumentStep ==
    /\ Handled
    /\ UNCHANGED <<states, indents, flow_level, mapping_context, written>>
    /\ indention' \in BOOLEAN
    /\ \/ /\ state = "STREAM_START" /\ event.type = "STREAM_START"
          /\ state' = "FIRST_DOCUMENT_START"
          /\ indent' = -1 /\ open_ended' = 0
          /\ UNCHANGED <<tail, tag_directives>>
       \/ /\ state \in {"FIRST_DOCUMENT_START", "DOCUMENT_START"}
          /\ event.type = "DOCUMENT_START"
          /\ state' = "DOCUMENT_CONTENT"
          /\ UNCHANGED indent /\ open_ended' = 0
          /\ tail' = "text" \/ (state = "FIRST_DOCUMENT_START" /\ tail' = tail)
       \/ /\ state \in {"FIRST_DOCUMENT_START", "DOCUMENT_START"}
          /\ event.type = "STREAM_END"
          /\ state' = "END"
          /\ UNCHANGED <<indent, tag_directives>>
          /\ open_ended' = IF open_ended = 2 THEN 0 ELSE open_ended
          /\ tail' = IF open_ended = 2 THEN "marker" ELSE tail
       \/ /\ state = "DOCUMENT_END" /\ event.type = "DOCUMENT_END"
          /\ state' = "DOCUMENT_START"
          /\ UNCHANGED indent /\ tag_directives' = <<>>
          /\ \E implicit \in BOOLEAN :
                /\ open_ended' = AfterDocument(implicit)
                /\ tail' = IF implicit THEN tail ELSE "marker"

Stopped == set_emitter_error

-----------------------------------------------------------------------------
(* The handlers.                                                           *)

\* The sets of states have no state in common that would blur their meaning.
LEMMA StateSets ==
    /\ FlowStates \cap BlockStates = {}
    /\ FirstStates \subseteq Inner /\ SequenceStates \subseteq Inner
    /\ SimpleStates \subseteq Inner \ FirstStates
    /\ SimpleStates \cap SequenceStates = {}
    /\ Inner \subseteq States
    /\ Inner \cap (Between \cup {"STREAM_START", "DOCUMENT_CONTENT", "DOCUMENT_END"}) = {}
BY DEF Inner, FlowStates, BlockStates, FirstStates, SequenceStates, SimpleStates, Between,
       States

\* The style that is chosen for a scalar can hold it (select_scalar_style).
LEMMA StyleHolds ==
    ASSUME NEW ev, ev.style \in {"PLAIN", "SINGLE", "DOUBLE", "BLOCK"}, NEW level,
           NEW simple \in BOOLEAN,
           simple => "break" \notin ev.features,
           ~(no_tag(ev) /\ ~ev.plain_implicit /\ ~ev.quoted_implicit)
    PROVE  LET style == select_scalar_style(ev, level, simple)
               tag == SelectTag(ev, style)
           IN /\ style \in {"PLAIN", "SINGLE", "DOUBLE", "BLOCK"}
              /\ tag = "none" => IF style = "PLAIN" THEN ev.plain_implicit ELSE ev.quoted_implicit
              /\ style = "BLOCK" => level = 0 /\ ~simple
              /\ style = "PLAIN" => "break" \notin ev.features
              /\ "special" \in ev.features => style = "DOUBLE"
<1> DEFINE style == select_scalar_style(ev, level, simple)
           allowed == analyze_scalar(ev.features)
           unplain == \/ level # 0 /\ "flow plain" \notin allowed
                      \/ level = 0 /\ "block plain" \notin allowed
                      \/ "empty" \in ev.features /\ (level # 0 \/ simple)
                      \/ no_tag(ev) /\ ~ev.plain_implicit
<1>1. /\ "break" \in ev.features \/ "special" \in ev.features =>
            "flow plain" \notin allowed /\ "block plain" \notin allowed
      /\ "special" \in ev.features => "single" \notin allowed /\ "block" \notin allowed
  BY DEF analyze_scalar
<1> HIDE DEF allowed
<1>2. /\ style \in {"PLAIN", "SINGLE", "DOUBLE", "BLOCK"}
      /\ style = "PLAIN" => ~unplain
      /\ style = "SINGLE" => "single" \in allowed
      /\ style = "BLOCK" => "block" \in allowed /\ level = 0 /\ ~simple
  BY DEF select_scalar_style, allowed
<1> HIDE DEF style
<1>3. SelectTag(ev, style) = "none" =>
         IF style = "PLAIN" THEN ev.plain_implicit ELSE ev.quoted_implicit
  BY <1>2 DEF SelectTag
<1>4. style = "PLAIN" => "break" \notin ev.features
  BY <1>1, <1>2
<1>5. "special" \in ev.features => style = "DOUBLE"
  BY <1>1, <1>2
<1> QED
  BY <1>2, <1>3, <1>4, <1>5 DEF style
\* The event at the head of the queue is one the application may pass.
LEMMA HeadEvent ==
    ASSUME TypeOK, events # <<>>
    PROVE  /\ event \in Alphabet
           /\ event.type \in Opening \cup Closing \cup {"SCALAR", "ALIAS"}
           /\ event.type = "SCALAR" => event.style \in {"PLAIN", "SINGLE", "DOUBLE", "BLOCK"}
           /\ Tail(events) \in Seq(Alphabet) /\ Len(Tail(events)) = Len(events) - 1
           /\ Len(events) \in Nat \ {0}
           /\ event = events[1]
           /\ \A i \in 1..(Len(events) - 1) : Tail(events)[i] = events[i + 1]
<1>1. events \in Seq(Alphabet)
  BY DEF TypeOK
<1>2. /\ Head(events) \in Alphabet /\ Tail(events) \in Seq(Alphabet)
      /\ Len(Tail(events)) = Len(events) - 1 /\ Len(events) \in Nat \ {0}
      /\ Head(events) = events[1]
      /\ \A i \in 1..(Len(events) - 1) : Tail(events)[i] = events[i + 1]
  BY <1>1, HeadTailProperties, LenProperties, EmptySeq
<1>3. event \in Alphabet
  BY <1>2 DEF event
<1> QED
  BY <1>2, <1>3, EmitterAssumption DEF Alphabet, event, TypeOK

\* yaml_emitter_emit_node: what it does to the stacks and the text.
LEMMA NodeOutcome ==
    ASSUME Inv, events # <<>>,
           NEW resume, NEW level, NEW mapping \in BOOLEAN, NEW simple \in BOOLEAN,
           NEW ind \in BOOLEAN, simple => check_simple_key,
           emit_node(resume, level, mapping, simple, ind)
    PROVE  /\ Handled
           /\ mapping_context' = mapping
           /\ UNCHANGED tag_directives
           /\ Texted
           /\ Leaf(resume) \/ Start(resume, level)
<1>1. Handled /\ mapping_context' = mapping /\ UNCHANGED tag_directives
  BY DEF emit_node
<1>2. open_ended \in 0..2 /\ ScalarsAreFaithful
  BY DEF Inv, TypeOK
<1>3. CASE emit_alias(resume)
  <2>1. /\ tail' = "text" /\ indention' = FALSE /\ open_ended' = open_ended
        /\ written' = written
    BY <1>3 DEF emit_alias
  <2>2. ScalarsAreFaithful'
    BY <1>2, <2>1 DEF ScalarsAreFaithful
  <2>3. Leaf(resume)
    BY <1>3 DEF emit_alias, Leaf
  <2> QED
    BY <1>1, <1>2, <2>1, <2>2, <2>3 DEF Texted
<1>4. CASE ~BadScalar /\ emit_scalar(resume, level, simple)
  <2> DEFINE style == select_scalar_style(event, level, simple)
             tag == SelectTag(event, style)
  <2>1. /\ event.type = "SCALAR" /\ state' = resume /\ states' = states
        /\ written' = [scalar |-> event, style |-> style, tag |-> tag,
                       level |-> level, simple |-> simple]
        /\ open_ended' = IF style = "BLOCK" THEN write_block_scalar_hints(event.features)
                         ELSE open_ended
        /\ tail' = IF style = "BLOCK" /\ "keep" \in event.features THEN "open" ELSE "text"
        /\ indention' = FALSE
    BY <1>4 DEF emit_scalar
  <2>2. /\ event.style \in {"PLAIN", "SINGLE", "DOUBLE", "BLOCK"}
        /\ simple => "break" \notin event.features
        /\ ~(no_tag(event) /\ ~event.plain_implicit /\ ~event.quoted_implicit)
    BY <1>4, <2>1, HeadEvent DEF Inv, check_simple_key, BadScalar
  <2>3. /\ style \in {"PLAIN", "SINGLE", "DOUBLE", "BLOCK"}
        /\ tag = "none" =>
              IF style = "PLAIN" THEN event.plain_implicit ELSE event.quoted_implicit
        /\ style = "BLOCK" => level = 0 /\ ~simple
        /\ style = "PLAIN" => "break" \notin event.features
        /\ "special" \in event.features => style = "DOUBLE"
    BY <2>2, StyleHolds
  <2> HIDE DEF style, tag
  <2>4. ScalarsAreFaithful'
    BY <2>1, <2>2, <2>3 DEF ScalarsAreFaithful
  <2>5. open_ended' \in 0..2 /\ (tail' = "open" => open_ended' = 2)
    BY <1>2, <2>1 DEF write_block_scalar_hints
  <2> QED
    BY <1>1, <2>1, <2>4, <2>5 DEF Texted, Leaf
<1>5. CASE emit_collection_start(resume, level, ind)
  <2>1. /\ tail' = "text" /\ indention' = (ind /\ ~event.decorated)
        /\ open_ended' = open_ended /\ written' = written
    BY <1>5 DEF emit_collection_start
  <2>2. ScalarsAreFaithful'
    BY <1>2, <2>1 DEF ScalarsAreFaithful
  <2>3. Start(resume, level)
    BY <1>5 DEF emit_collection_start, Start
  <2>4. indention' \in BOOLEAN
    BY <2>1
  <2> QED
    BY <1>1, <1>2, <2>1, <2>2, <2>3, <2>4 DEF Texted
<1> QED
  BY <1>3, <1>4, <1>5 DEF emit_node

\* A node in a place that is not the first, with the layout left alone.
LEMMA LaterNode ==
    ASSUME Inv, events # <<>>,
           NEW resume \in States \ FirstStates, NEW mapping \in BOOLEAN,
           NEW simple \in BOOLEAN, NEW ind \in BOOLEAN,
           state \notin FirstStates, SameKind(state, resume), Follows(resume),
           simple => check_simple_key, resume \in SimpleStates => simple,
           mapping => resume \notin SequenceStates,
           emit_node(resume, flow_level, mapping, simple, ind), UNCHANGED layout
    PROVE  NodeStep
<1>1. /\ Handled /\ mapping_context' = mapping /\ UNCHANGED tag_directives /\ Texted
      /\ Leaf(resume) \/ Start(resume, flow_level)
  BY NodeOutcome
<1>2. flow_level' = flow_level /\ NodeLayout
  BY DEF layout, NodeLayout
<1>3. resume \in SimpleStates => check_simple_key
  OBVIOUS
<1> HIDE DEF emit_node
<1> QED
  BY <1>1, <1>2, <1>3 DEF NodeStep

\* The first node in a collection, or a later one.
LEMMA ItemNode ==
    ASSUME Inv, events # <<>>,
           NEW first \in BOOLEAN, first <=> state \in FirstStates,
           NEW resume \in States \ FirstStates, NEW mapping \in BOOLEAN,
           NEW simple \in BOOLEAN, NEW ind \in BOOLEAN, NEW level,
           NEW flow \in BOOLEAN, NEW indentless \in BOOLEAN,
           indentless => mapping_context /\ state \in SequenceStates,
           level = IF first /\ state \in FlowStates THEN flow_level + 1 ELSE flow_level,
           SameKind(state, resume), Follows(resume),
           simple => check_simple_key, resume \in SimpleStates => simple,
           mapping => resume \notin SequenceStates,
           emit_node(resume, level, mapping, simple, ind),
           Indented(first, flow, indentless), flow_level' = level
    PROVE  NodeStep
<1>1. /\ Handled /\ mapping_context' = mapping /\ UNCHANGED tag_directives /\ Texted
      /\ Leaf(resume) \/ Start(resume, level)
  BY NodeOutcome
<1>2. NodeLayout
  <2>1. CASE first
    <3>1. indents' = Append(indents, indent) /\ indent' = increase_indent(flow, indentless)
      BY <2>1 DEF Indented
    <3> QED
      BY <2>1, <3>1 DEF NodeLayout
  <2>2. CASE ~first
    BY <2>2 DEF NodeLayout, Indented, layout
  <2> QED
    BY <2>1, <2>2
<1>3. resume \in SimpleStates => check_simple_key
  OBVIOUS
<1> HIDE DEF emit_node
<1> QED
  BY <1>1, <1>2, <1>3 DEF NodeStep

\* What follows what in a collection or a document.
LEMMA Successors ==
    /\ state \in {"FLOW_SEQUENCE_FIRST_ITEM", "FLOW_SEQUENCE_ITEM"} =>
          SameKind(state, "FLOW_SEQUENCE_ITEM") /\ Follows("FLOW_SEQUENCE_ITEM")
    /\ state \in {"BLOCK_SEQUENCE_FIRST_ITEM", "BLOCK_SEQUENCE_ITEM"} =>
          SameKind(state, "BLOCK_SEQUENCE_ITEM") /\ Follows("BLOCK_SEQUENCE_ITEM")
    /\ state \in {"FLOW_MAPPING_FIRST_KEY", "FLOW_MAPPING_KEY"} =>
          \A to \in {"FLOW_MAPPING_SIMPLE_VALUE", "FLOW_MAPPING_VALUE"} :
             SameKind(state, to) /\ Follows(to)
    /\ state \in {"BLOCK_MAPPING_FIRST_KEY", "BLOCK_MAPPING_KEY"} =>
          \A to \in {"BLOCK_MAPPING_SIMPLE_VALUE", "BLOCK_MAPPING_VALUE"} :
             SameKind(state, to) /\ Follows(to)
    /\ state \in {"FLOW_MAPPING_SIMPLE_VALUE", "FLOW_MAPPING_VALUE"} =>
          SameKind(state, "FLOW_MAPPING_KEY") /\ Follows("FLOW_MAPPING_KEY")
    /\ state \in {"BLOCK_MAPPING_SIMPLE_VALUE", "BLOCK_MAPPING_VALUE"} =>
          SameKind(state, "BLOCK_MAPPING_KEY") /\ Follows("BLOCK_MAPPING_KEY")
    /\ state = "DOCUMENT_CONTENT" =>
          SameKind(state, "DOCUMENT_END") /\ Follows("DOCUMENT_END")
<1>1. /\ \A s \in SequenceStates : FrameOf(s) = <<"seq">>
      /\ \A s \in {"FLOW_MAPPING_FIRST_KEY", "FLOW_MAPPING_KEY", "BLOCK_MAPPING_FIRST_KEY",
                   "BLOCK_MAPPING_KEY"} : FrameOf(s) = <<"key">>
      /\ \A s \in {"FLOW_MAPPING_SIMPLE_VALUE", "FLOW_MAPPING_VALUE",
                   "BLOCK_MAPPING_SIMPLE_VALUE", "BLOCK_MAPPING_VALUE"} : FrameOf(s) = <<"value">>
  BY DEF FrameOf, SequenceStates
<1>2. <<"seq">>[1] = "seq" /\ <<"key">>[1] = "key" /\ <<"value">>[1] = "value"
  OBVIOUS
<1>3. /\ Stream!Followed("seq") = "seq" /\ Stream!Followed("key") = "value"
      /\ Stream!Followed("value") = "key"
  BY DEF Stream!Followed
<1> QED
  BY <1>1, <1>2, <1>3 DEF SameKind, Follows, FlowStates, BlockStates, SequenceStates,
     FirstStates, Inner

\* The end of a collection.
LEMMA CloseOutcome ==
    ASSUME Inv, NEW first \in BOOLEAN, first <=> state \in FirstStates,
           NEW wrote \in BOOLEAN, Close(first, wrote), state \in Inner,
           \/ event.type = "SEQUENCE_END" /\ state \in SequenceStates
           \/ event.type = "MAPPING_END" /\ FrameOf(state) = <<"key">>,
           flow_level' = IF first \/ state \notin FlowStates THEN flow_level
                         ELSE flow_level - 1
    PROVE  CloseStep
<1>1. /\ Handled
      /\ state' = Last(states) /\ states' = Front(states)
      /\ tail' \in {"text", tail}
      /\ indention' = (indention /\ ~wrote)
      /\ UNCHANGED <<mapping_context, tag_directives, open_ended, written>>
      /\ indent' = IF first THEN indent ELSE Last(indents)
      /\ indents' = IF first THEN indents ELSE Front(indents)
  BY DEF Close
<1>2. indention' \in BOOLEAN
  BY <1>1
<1>3. IF state \in FirstStates THEN UNCHANGED layout
      ELSE /\ indent' = Last(indents)
           /\ indents' = Front(indents)
           /\ flow_level' = IF state \in FlowStates THEN flow_level - 1 ELSE flow_level
  BY <1>1 DEF layout
<1> QED
  BY <1>1, <1>2, <1>3 DEF CloseStep

\* yaml_emitter_emit_flow_sequence_item
LEMMA FlowSequenceStep ==
    ASSUME Inv, events # <<>>, NEW first \in BOOLEAN, emit_flow_sequence_item(first)
    PROVE  NodeStep \/ CloseStep \/ Stopped
<1> DEFINE level == IF first THEN flow_level + 1 ELSE flow_level
<1>1. /\ state = IF first THEN "FLOW_SEQUENCE_FIRST_ITEM" ELSE "FLOW_SEQUENCE_ITEM"
      /\ \/ event.type = "SEQUENCE_END" /\ flow_level' = level - 1 /\ Close(first, TRUE)
         \/ /\ emit_node("FLOW_SEQUENCE_ITEM", level, FALSE, FALSE, FALSE)
            /\ Indented(first, TRUE, FALSE)
            /\ flow_level' = level
         \/ Stopped
  BY DEF emit_flow_sequence_item, Unexpected, Stopped
<1>2. /\ first <=> state \in FirstStates
      /\ state \in FlowStates /\ state \in Inner /\ state \in SequenceStates
      /\ "FLOW_SEQUENCE_ITEM" \in States \ FirstStates
      /\ "FLOW_SEQUENCE_ITEM" \notin SimpleStates
  BY <1>1 DEF FirstStates, FlowStates, SequenceStates, States, SimpleStates, Inner
<1>3. flow_level \in Int
  BY DEF Inv, TypeOK
<1>4. SameKind(state, "FLOW_SEQUENCE_ITEM") /\ Follows("FLOW_SEQUENCE_ITEM")
  BY <1>1, Successors
<1>5. CASE event.type = "SEQUENCE_END" /\ flow_level' = level - 1 /\ Close(first, TRUE)
  <2>1. flow_level' = IF first \/ state \notin FlowStates THEN flow_level ELSE flow_level - 1
    BY <1>2, <1>3, <1>5
  <2> QED
    BY <1>2, <1>5, <2>1, CloseOutcome
<1>6. CASE /\ emit_node("FLOW_SEQUENCE_ITEM", level, FALSE, FALSE, FALSE)
           /\ Indented(first, TRUE, FALSE)
           /\ flow_level' = level
  <2>1. level = IF first /\ state \in FlowStates THEN flow_level + 1 ELSE flow_level
    BY <1>2
  <2> HIDE DEF level
  <2> QED
    BY <1>2, <1>4, <1>6, <2>1, ItemNode
<1> QED
  BY <1>1, <1>5, <1>6

\* yaml_emitter_emit_flow_mapping_key
LEMMA FlowMappingKeyStep ==
    ASSUME Inv, events # <<>>, NEW first \in BOOLEAN, emit_flow_mapping_key(first)
    PROVE  NodeStep \/ CloseStep \/ Stopped
<1> DEFINE level == IF first THEN flow_level + 1 ELSE flow_level
           simple == ~canonical /\ check_simple_key
           to == IF simple THEN "FLOW_MAPPING_SIMPLE_VALUE" ELSE "FLOW_MAPPING_VALUE"
<1>1. /\ state = IF first THEN "FLOW_MAPPING_FIRST_KEY" ELSE "FLOW_MAPPING_KEY"
      /\ \/ event.type = "MAPPING_END" /\ flow_level' = level - 1 /\ Close(first, TRUE)
         \/ /\ emit_node(to, level, TRUE, simple, FALSE)
            /\ Indented(first, TRUE, FALSE)
            /\ flow_level' = level
         \/ Stopped
  BY DEF emit_flow_mapping_key, Unexpected, Stopped
<1>2. /\ first <=> state \in FirstStates
      /\ state \in FlowStates /\ state \in Inner /\ FrameOf(state) = <<"key">>
  BY <1>1 DEF FirstStates, FlowStates, Inner, FrameOf, SequenceStates
<1>3. flow_level \in Int
  BY DEF Inv, TypeOK
<1>4. simple \in BOOLEAN /\ (simple => check_simple_key)
  OBVIOUS
<1> HIDE DEF simple
<1>5. /\ to \in {"FLOW_MAPPING_SIMPLE_VALUE", "FLOW_MAPPING_VALUE"}
      /\ to \in States \ FirstStates /\ to \notin SequenceStates
      /\ to \in SimpleStates => simple
  BY DEF States, FirstStates, FlowStates, SequenceStates, SimpleStates
<1> HIDE DEF to
<1>6. SameKind(state, to) /\ Follows(to)
  BY <1>1, <1>5, Successors
<1>7. CASE event.type = "MAPPING_END" /\ flow_level' = level - 1 /\ Close(first, TRUE)
  <2>1. flow_level' = IF first \/ state \notin FlowStates THEN flow_level ELSE flow_level - 1
    BY <1>2, <1>3, <1>7
  <2> QED
    BY <1>2, <1>7, <2>1, CloseOutcome
<1>8. CASE /\ emit_node(to, level, TRUE, simple, FALSE)
           /\ Indented(first, TRUE, FALSE)
           /\ flow_level' = level
  <2>1. level = IF first /\ state \in FlowStates THEN flow_level + 1 ELSE flow_level
    BY <1>2
  <2> HIDE DEF level
  <2> QED
    BY <1>2, <1>4, <1>5, <1>6, <1>8, <2>1, ItemNode
<1> QED
  BY <1>1, <1>7, <1>8

\* yaml_emitter_emit_block_sequence_item
LEMMA BlockSequenceStep ==
    ASSUME Inv, events # <<>>, NEW first \in BOOLEAN, emit_block_sequence_item(first)
    PROVE  NodeStep \/ CloseStep \/ Stopped
<1>1. /\ state = IF first THEN "BLOCK_SEQUENCE_FIRST_ITEM" ELSE "BLOCK_SEQUENCE_ITEM"
      /\ \/ event.type = "SEQUENCE_END" /\ UNCHANGED flow_level /\ Close(first, FALSE)
         \/ /\ emit_node("BLOCK_SEQUENCE_ITEM", flow_level, FALSE, FALSE, TRUE)
            /\ Indented(first, FALSE, Indentless)
            /\ UNCHANGED flow_level
         \/ Stopped
  BY DEF emit_block_sequence_item, Unexpected, Stopped
<1>2. /\ first <=> state \in FirstStates
      /\ state \notin FlowStates /\ state \in Inner /\ state \in SequenceStates
      /\ "BLOCK_SEQUENCE_ITEM" \in States \ FirstStates
      /\ "BLOCK_SEQUENCE_ITEM" \notin SimpleStates
  BY <1>1 DEF FirstStates, FlowStates, BlockStates, SequenceStates, States, SimpleStates, Inner
<1>3. Indentless \in BOOLEAN /\ (Indentless => mapping_context)
  BY DEF Indentless, Inv, TypeOK
<1>4. SameKind(state, "BLOCK_SEQUENCE_ITEM") /\ Follows("BLOCK_SEQUENCE_ITEM")
  BY <1>1, Successors
<1>5. CASE event.type = "SEQUENCE_END" /\ UNCHANGED flow_level /\ Close(first, FALSE)
  BY <1>2, <1>5, CloseOutcome
<1>6. CASE /\ emit_node("BLOCK_SEQUENCE_ITEM", flow_level, FALSE, FALSE, TRUE)
           /\ Indented(first, FALSE, Indentless)
           /\ UNCHANGED flow_level
  BY <1>2, <1>3, <1>4, <1>6, ItemNode
<1> QED
  BY <1>1, <1>5, <1>6

\* yaml_emitter_emit_block_mapping_key
LEMMA BlockMappingKeyStep ==
    ASSUME Inv, events # <<>>, NEW first \in BOOLEAN, emit_block_mapping_key(first)
    PROVE  NodeStep \/ CloseStep \/ Stopped
<1> DEFINE simple == check_simple_key
           to == IF simple THEN "BLOCK_MAPPING_SIMPLE_VALUE" ELSE "BLOCK_MAPPING_VALUE"
<1>1. /\ state = IF first THEN "BLOCK_MAPPING_FIRST_KEY" ELSE "BLOCK_MAPPING_KEY"
      /\ \/ event.type = "MAPPING_END" /\ UNCHANGED flow_level /\ Close(first, FALSE)
         \/ /\ emit_node(to, flow_level, TRUE, simple, TRUE)
            /\ Indented(first, FALSE, FALSE)
            /\ UNCHANGED flow_level
         \/ Stopped
  BY DEF emit_block_mapping_key, Unexpected, Stopped
<1>2. /\ first <=> state \in FirstStates
      /\ state \notin FlowStates /\ state \in Inner /\ FrameOf(state) = <<"key">>
  BY <1>1 DEF FirstStates, FlowStates, BlockStates, Inner, FrameOf, SequenceStates
<1>3. simple \in BOOLEAN /\ (simple => check_simple_key)
  BY DEF check_simple_key
<1> HIDE DEF simple
<1>4. /\ to \in {"BLOCK_MAPPING_SIMPLE_VALUE", "BLOCK_MAPPING_VALUE"}
      /\ to \in States \ FirstStates /\ to \notin SequenceStates
      /\ to \in SimpleStates => simple
  BY DEF States, FirstStates, BlockStates, SequenceStates, SimpleStates
<1> HIDE DEF to
<1>5. SameKind(state, to) /\ Follows(to)
  BY <1>1, <1>4, Successors
<1>6. CASE event.type = "MAPPING_END" /\ UNCHANGED flow_level /\ Close(first, FALSE)
  BY <1>2, <1>6, CloseOutcome
<1>7. CASE /\ emit_node(to, flow_level, TRUE, simple, TRUE)
           /\ Indented(first, FALSE, FALSE)
           /\ UNCHANGED flow_level
  BY <1>2, <1>3, <1>4, <1>5, <1>7, ItemNode
<1> QED
  BY <1>1, <1>6, <1>7

\* The handlers of values and of the root node.
LEMMA ValueStep ==
    ASSUME Inv, events # <<>>,
           \/ emit_flow_mapping_value
           \/ \E simple \in BOOLEAN : emit_block_mapping_value(simple)
           \/ emit_document_content
    PROVE  NodeStep \/ Stopped
<1>1. indention \in BOOLEAN
  BY DEF Inv, TypeOK
<1>2. CASE emit_flow_mapping_value
  <2>1. /\ state \in {"FLOW_MAPPING_SIMPLE_VALUE", "FLOW_MAPPING_VALUE"}
        /\ \/ emit_node("FLOW_MAPPING_KEY", flow_level, TRUE, FALSE, FALSE) /\ UNCHANGED layout
           \/ Stopped
    BY <1>2 DEF emit_flow_mapping_value, Unexpected, Stopped
  <2>2. /\ state \notin FirstStates /\ "FLOW_MAPPING_KEY" \in States \ FirstStates
        /\ "FLOW_MAPPING_KEY" \notin SimpleStates \cup SequenceStates
    BY <2>1 DEF FirstStates, States, FlowStates, SimpleStates, SequenceStates
  <2>3. SameKind(state, "FLOW_MAPPING_KEY") /\ Follows("FLOW_MAPPING_KEY")
    BY <2>1, Successors
  <2> QED
    BY <2>1, <2>2, <2>3, LaterNode
<1>3. CASE \E simple \in BOOLEAN : emit_block_mapping_value(simple)
  <2>1. PICK simple \in BOOLEAN : emit_block_mapping_value(simple)
    BY <1>3
  <2>2. /\ state \in {"BLOCK_MAPPING_SIMPLE_VALUE", "BLOCK_MAPPING_VALUE"}
        /\ \/ emit_node("BLOCK_MAPPING_KEY", flow_level, TRUE, FALSE, ~simple)
              /\ UNCHANGED layout
           \/ Stopped
    BY <2>1 DEF emit_block_mapping_value, Unexpected, Stopped
  <2>3. /\ state \notin FirstStates /\ "BLOCK_MAPPING_KEY" \in States \ FirstStates
        /\ "BLOCK_MAPPING_KEY" \notin SimpleStates \cup SequenceStates
    BY <2>2 DEF FirstStates, States, BlockStates, SimpleStates, SequenceStates
  <2>4. SameKind(state, "BLOCK_MAPPING_KEY") /\ Follows("BLOCK_MAPPING_KEY")
    BY <2>2, Successors
  <2>5. (~simple) \in BOOLEAN
    OBVIOUS
  <2> QED
    BY <2>2, <2>3, <2>4, <2>5, LaterNode
<1>4. CASE emit_document_content
  <2>1. /\ state = "DOCUMENT_CONTENT"
        /\ \/ emit_node("DOCUMENT_END", flow_level, FALSE, FALSE, indention)
              /\ UNCHANGED layout
           \/ Stopped
    BY <1>4 DEF emit_document_content, Unexpected, Stopped
  <2>2. /\ state \notin FirstStates /\ "DOCUMENT_END" \in States \ FirstStates
        /\ "DOCUMENT_END" \notin SimpleStates \cup SequenceStates
    BY <2>1 DEF FirstStates, States, SimpleStates, SequenceStates
  <2>3. SameKind(state, "DOCUMENT_END") /\ Follows("DOCUMENT_END")
    BY <2>1, Successors
  <2> QED
    BY <1>1, <2>1, <2>2, <2>3, LaterNode
<1> QED
  BY <1>2, <1>3, <1>4

\* The handlers of the stream and of documents.
LEMMA BetweenStep ==
    ASSUME Inv, events # <<>>,
           \/ emit_stream_start
           \/ \E first \in BOOLEAN : emit_document_start(first)
           \/ emit_document_end
    PROVE  DocumentStep \/ Stopped
<1>1. indention \in BOOLEAN /\ canonical \in BOOLEAN
  BY DEF Inv, TypeOK
<1>2. CASE emit_stream_start
  BY <1>2 DEF emit_stream_start, Unexpected, Stopped, DocumentStep
<1>3. CASE \E first \in BOOLEAN : emit_document_start(first)
  <2>1. PICK first \in BOOLEAN : emit_document_start(first)
    BY <1>3
  <2>2. \/ Stopped
        \/ /\ Handled
           /\ state \in {"FIRST_DOCUMENT_START", "DOCUMENT_START"}
           /\ event.type = "DOCUMENT_START" /\ state' = "DOCUMENT_CONTENT"
           /\ UNCHANGED <<states, layout, mapping_context, written>>
           /\ open_ended' = 0
           /\ \E explicit \in BOOLEAN :
                 /\ ~explicit => state = "FIRST_DOCUMENT_START"
                 /\ tail' = IF explicit THEN "text" ELSE tail
                 /\ indention' = IF explicit THEN canonical ELSE indention
        \/ /\ Handled
           /\ state \in {"FIRST_DOCUMENT_START", "DOCUMENT_START"}
           /\ event.type = "STREAM_END" /\ state' = "END"
           /\ UNCHANGED <<states, layout, mapping_context, tag_directives, written>>
           /\ open_ended' = IF open_ended = 2 THEN 0 ELSE open_ended
           /\ tail' = IF open_ended = 2 THEN "marker" ELSE tail
           /\ indention' = (open_ended = 2 \/ indention)
    <3> HIDE DEF Handled, set_emitter_error, Duplicate, Uses, Defaults
    <3> QED
      BY <2>1 DEF emit_document_start, Unexpected, Stopped
  <2>3. ~Stopped => indention' \in BOOLEAN
    BY <1>1, <2>2
  <2> QED
    BY <2>2, <2>3 DEF DocumentStep, layout
<1>4. CASE emit_document_end
  <2>1. CASE Stopped
    BY <2>1
  <2>2. CASE ~Stopped
    <3>1. /\ state = "DOCUMENT_END" /\ event.type = "DOCUMENT_END"
          /\ open_ended' = AfterDocument(event.implicit)
          /\ tail' = IF event.implicit THEN tail ELSE "marker"
          /\ indention' = TRUE
          /\ state' = "DOCUMENT_START"
          /\ tag_directives' = <<>>
          /\ UNCHANGED <<states, layout, mapping_context, written>>
          /\ Handled
      BY <1>4, <2>2 DEF emit_document_end, Unexpected, Stopped, DirectivesLeft
    <3>2. \E implicit \in BOOLEAN :
             /\ open_ended' = AfterDocument(implicit)
             /\ tail' = IF implicit THEN tail ELSE "marker"
      <4>1. CASE event.implicit
        BY <3>1, <4>1 DEF AfterDocument
      <4>2. CASE ~event.implicit
        BY <3>1, <4>2 DEF AfterDocument
      <4> QED BY <4>1, <4>2
    <3> QED
      BY <3>1, <3>2 DEF DocumentStep, layout
  <2> QED
    BY <2>1, <2>2
<1> QED
  BY <1>2, <1>3, <1>4

\* One event that is handled: state_machine, one case per handler.
LEMMA MachineStep ==
    ASSUME Inv, emit_step
    PROVE  /\ pc = "emitting" /\ events # <<>> /\ ~need_more_events
           /\ NodeStep \/ CloseStep \/ DocumentStep \/ Stopped
<1>1. pc = "emitting" /\ events # <<>> /\ ~need_more_events /\ state_machine
  BY DEF emit_step, need_more_events
<1>2. emit_after_end => Stopped
  BY DEF emit_after_end, Stopped
<1> QED
  BY <1>1, <1>2, FlowSequenceStep, FlowMappingKeyStep, BlockSequenceStep, BlockMappingKeyStep,
     ValueStep, BetweenStep DEF state_machine

-----------------------------------------------------------------------------
(* The stack of states.                                                    *)

\* The stack of states as a sequence, and what is next to come off it.
LEMMA StackFacts ==
    ASSUME Inv
    PROVE  /\ states \in Seq(States) /\ state \in States /\ Len(states) \in Nat
           /\ states = <<>> <=> Len(states) = 0
           /\ states = <<>> <=> state \notin Inner
           /\ \A i \in 1..Len(states) :
                 states[i] \in States \ FirstStates /\ (i > 1 => states[i] \in Inner)
           /\ states # <<>> => states[1] = "DOCUMENT_END"
           /\ Places \in Seq(States) /\ Len(Places) = Len(states) + 1
           /\ \A i \in 1..Len(states) : Places[i] = states[i]
           /\ Places[Len(states) + 1] = state
<1>1. states \in Seq(States) /\ state \in States
  BY DEF Inv, TypeOK
<1>2. Len(states) \in Nat /\ (states = <<>> <=> Len(states) = 0)
  BY <1>1, LenProperties, EmptySeq
<1>3. /\ states = <<>> <=> state \notin Inner
      /\ states # <<>> => states[1] = "DOCUMENT_END"
      /\ \A i \in 2..Len(states) : states[i] \in Inner \ FirstStates
  BY DEF Inv, Shaped
<1>4. "DOCUMENT_END" \in States \ FirstStates /\ Inner \subseteq States
  BY DEF States, FirstStates, Inner
<1>5. \A i \in 1..Len(states) :
         states[i] \in States \ FirstStates /\ (i > 1 => states[i] \in Inner)
  <2> TAKE i \in 1..Len(states)
  <2>1. CASE i = 1
    BY <1>2, <1>3, <1>4, <2>1
  <2>2. CASE i \in 2..Len(states)
    BY <1>3, <1>4, <2>2
  <2> QED
    BY <1>2, <2>1, <2>2
<1>6. /\ Places \in Seq(States) /\ Len(Places) = Len(states) + 1
      /\ \A i \in 1..Len(states) : Places[i] = states[i]
      /\ Places[Len(states) + 1] = state
  BY <1>1, PushPop DEF Places
<1> QED
  BY <1>1, <1>2, <1>3, <1>5, <1>6

\* The places after a node: those before it with resume for the state, and the
\* collection it opens, if any.
LEMMA NodePlaces ==
    ASSUME Inv, NEW resume \in States \ FirstStates, NEW level,
           Leaf(resume) \/ Start(resume, level)
    PROVE  /\ states' \in Seq(States) /\ state' \in States
           /\ Places' \in Seq(States)
           /\ Len(states') + 1 = Len(Places')
           /\ \A i \in 1..Len(states) : Places'[i] = states[i]
           /\ Places'[Len(states) + 1] = resume
           /\ \/ /\ Leaf(resume)
                 /\ Places' = Append(states, resume)
                 /\ Len(Places') = Len(states) + 1
              \/ /\ Start(resume, level)
                 /\ Places' = Append(Append(states, resume), state')
                 /\ Len(Places') = Len(states) + 2
                 /\ Places'[Len(states) + 2] = state'
                 /\ state' \in FirstStates
                 /\ Last(states') = resume
<1>1. states \in Seq(States) /\ Len(states) \in Nat /\ resume \in States
  BY StackFacts
<1> DEFINE s == Append(states, resume)
<1>2. /\ s \in Seq(States) /\ Len(s) = Len(states) + 1
      /\ \A i \in 1..Len(states) : s[i] = states[i]
      /\ s[Len(states) + 1] = resume
      /\ Last(s) = resume
  BY <1>1, PushPop
<1> HIDE DEF s
<1>3. CASE Leaf(resume)
  <2>1. state' = resume /\ states' = states /\ Places' = s
    BY <1>3 DEF Leaf, Places, s
  <2> QED
    BY <1>1, <1>2, <1>3, <2>1 DEF s
<1>4. CASE Start(resume, level)
  <2>1. states' = s /\ Places' = Append(s, state')
    BY <1>4 DEF Start, Places, s
  <2>2. state' \in FirstStates /\ state' \in States
    BY <1>4 DEF Start, FirstStates, States, FlowStates, BlockStates
  <2>3. /\ Append(s, state') \in Seq(States) /\ Len(Append(s, state')) = Len(s) + 1
        /\ \A i \in 1..Len(s) : Append(s, state')[i] = s[i]
        /\ Append(s, state')[Len(s) + 1] = state'
    BY <1>2, <2>2, PushPop
  <2>4. /\ Len(s) + 1 = Len(states) + 2 /\ Len(states) + 1 \in 1..Len(s)
        /\ \A i \in 1..Len(states) : i \in 1..Len(s)
    BY <1>1, <1>2
  <2>5. /\ \A i \in 1..Len(states) : Places'[i] = states[i]
        /\ Places'[Len(states) + 1] = resume
        /\ Places'[Len(states) + 2] = state'
        /\ Len(Places') = Len(states) + 2
        /\ Len(states') + 1 = Len(Places')
    BY <1>2, <2>1, <2>3, <2>4
  <2> QED
    BY <1>2, <1>4, <2>1, <2>2, <2>3, <2>5 DEF s
<1> QED
  BY <1>3, <1>4

\* The places after the end of a collection: the others.
LEMMA ClosePlaces ==
    ASSUME Inv, CloseStep
    PROVE  /\ states # <<>> /\ Len(states) \in Nat \ {0}
           /\ states' \in Seq(States) /\ state' \in States \ FirstStates
           /\ Len(states') = Len(states) - 1
           /\ \A i \in 1..(Len(states) - 1) : states'[i] = states[i]
           /\ state' = states[Len(states)]
           /\ Places' = states
<1>1. state \in Inner /\ state' = Last(states) /\ states' = Front(states)
  BY DEF CloseStep
<1>2. /\ states \in Seq(States) /\ states # <<>>
      /\ \A i \in 1..Len(states) : states[i] \in States \ FirstStates
  BY <1>1, StackFacts
<1>3. /\ Len(states) \in Nat \ {0}
      /\ Front(states) \in Seq(States)
      /\ Len(Front(states)) = Len(states) - 1
      /\ \A i \in 1..(Len(states) - 1) : Front(states)[i] = states[i]
      /\ Last(states) = states[Len(states)]
      /\ Last(states) \in States
  BY <1>2, PopFacts
<1>4. Last(states) \in States \ FirstStates
  BY <1>2, <1>3
<1>5. Append(Front(states), Last(states)) = states
  BY <1>2, PopPush
<1>6. Places' = states
  BY <1>1, <1>5 DEF Places
<1> QED
  BY <1>1, <1>2, <1>3, <1>4, <1>6

\* The document stays at the bottom of the stack, and collections above it.
LEMMA ShapedStep ==
    ASSUME Inv, NodeStep \/ CloseStep \/ DocumentStep
    PROVE  Shaped' /\ states' \in Seq(States) /\ state' \in States
<1>0. /\ states \in Seq(States) /\ Len(states) \in Nat
      /\ states = <<>> <=> Len(states) = 0
      /\ states = <<>> <=> state \notin Inner
      /\ \A i \in 1..Len(states) : i > 1 => states[i] \in Inner \ FirstStates
      /\ states # <<>> => states[1] = "DOCUMENT_END"
  BY StackFacts
<1>1. CASE NodeStep
  <2>1. PICK resume \in States \ FirstStates :
           Follows(resume) /\ (Leaf(resume) \/ Start(resume, flow_level'))
    BY <1>1 DEF NodeStep
  <2>2. /\ states = <<>> => resume = "DOCUMENT_END"
        /\ states # <<>> => resume \in Inner
    BY <1>0, <2>1, StateSets DEF Follows
  <2>3. /\ states' \in Seq(States) /\ state' \in States
        /\ Len(states') + 1 = Len(Places')
        /\ \/ Leaf(resume)
           \/ /\ states' = Append(states, resume)
              /\ state' \in FirstStates
              /\ Len(Places') = Len(states) + 2
    BY <2>1, NodePlaces DEF Start
  <2>4. CASE Leaf(resume)
    <3>1. state' = resume /\ states' = states
      BY <2>4 DEF Leaf
    <3>2. "DOCUMENT_END" \notin Inner
      BY StateSets
    <3> QED
      BY <1>0, <2>2, <2>3, <3>1, <3>2 DEF Shaped
  <2>5. CASE /\ states' = Append(states, resume)
             /\ state' \in FirstStates
             /\ Len(Places') = Len(states) + 2
    <3>1. /\ Len(states') = Len(states) + 1 /\ states' # <<>>
          /\ \A i \in 1..Len(states) : states'[i] = states[i]
          /\ states'[Len(states) + 1] = resume
      BY <1>0, <2>5, PushPop
    <3>2. state' \in Inner
      BY <2>5, StateSets
    <3>3. states'[1] = "DOCUMENT_END"
      <4>1. CASE states = <<>>
        BY <1>0, <2>2, <3>1, <4>1
      <4>2. CASE states # <<>>
        BY <1>0, <3>1, <4>2
      <4> QED BY <4>1, <4>2
    <3>4. ASSUME NEW i \in 2..Len(states') PROVE states'[i] \in Inner \ FirstStates
      <4>1. CASE i \in 1..Len(states)
        BY <1>0, <3>1, <4>1
      <4>2. CASE i = Len(states) + 1
        BY <1>0, <2>2, <3>1, <4>2
      <4> QED
        BY <1>0, <3>1, <4>1, <4>2
    <3> QED
      BY <2>3, <3>1, <3>2, <3>3, <3>4 DEF Shaped
  <2> QED
    BY <2>3, <2>4, <2>5
<1>2. CASE CloseStep
  <2>1. /\ Len(states) \in Nat \ {0}
        /\ states' \in Seq(States) /\ state' \in States
        /\ Len(states') = Len(states) - 1
        /\ \A i \in 1..(Len(states) - 1) : states'[i] = states[i]
        /\ state' = states[Len(states)]
    BY <1>2, ClosePlaces
  <2>2. states' = <<>> <=> Len(states) = 1
    BY <2>1, EmptySeq
  <2>3. CASE Len(states) = 1
    BY <1>0, <2>1, <2>2, <2>3, StateSets DEF Shaped
  <2>4. CASE Len(states) # 1
    <3>1. Len(states) > 1 /\ 1 \in 1..(Len(states) - 1)
      BY <2>1, <2>4
    <3>2. state' \in Inner
      BY <1>0, <2>1, <3>1
    <3>3. states'[1] = "DOCUMENT_END"
      BY <1>0, <2>1, <3>1
    <3>4. \A i \in 2..Len(states') : i \in 1..(Len(states) - 1) /\ i \in 1..Len(states) /\ i > 1
      BY <2>1
    <3>5. \A i \in 2..Len(states') : states'[i] \in Inner \ FirstStates
      BY <1>0, <2>1, <3>4
    <3> QED
      BY <2>1, <2>2, <2>4, <3>2, <3>3, <3>5 DEF Shaped
  <2> QED
    BY <2>1, <2>3, <2>4
<1>3. CASE DocumentStep
  <2>1. states' = states
    BY <1>3 DEF DocumentStep
  <2>2. /\ state \notin Inner
        /\ state' \notin Inner /\ state' \in States
    BY <1>3 DEF DocumentStep, States, Between, Inner, FlowStates, BlockStates
  <2> QED
    BY <1>0, <2>1, <2>2 DEF Shaped
<1> QED
  BY <1>1, <1>2, <1>3

-----------------------------------------------------------------------------
(* The stack of indents.                                                   *)

\* The columns fit other places of the same kinds.
LEMMA FitSameKind ==
    ASSUME NEW p, NEW q, NEW c \in Seq(Int), ColumnsFit(p, c),
           \A i \in 1..Len(c) : SameKind(p[i], q[i])
    PROVE  ColumnsFit(q, c)
<1>1. Len(c) \in Nat
  BY LenProperties
<1>2. \A i \in 3..Len(c) : i \in 1..Len(c) /\ i - 1 \in 1..Len(c)
  BY <1>1
<1> QED
  BY <1>2 DEF ColumnsFit, SameKind

\* Another column, as deep as its place asks for.
LEMMA FitPush ==
    ASSUME NEW p, NEW c \in Seq(Int), ColumnsFit(p, c), NEW x \in Int, c # <<>>, x >= 0,
           LET n == Len(c) + 1 IN
           n >= 3 /\ p[n] \in BlockStates =>
              \/ x > c[n - 1]
              \/ x = c[n - 1] /\ p[n] \in SequenceStates /\ p[n - 1] \notin SequenceStates
    PROVE  ColumnsFit(p, Append(c, x))
<1> DEFINE n == Len(c) + 1  d == Append(c, x)
<1>1. /\ Len(c) \in Nat \ {0} /\ Len(d) = n
      /\ \A i \in 1..Len(c) : d[i] = c[i]
      /\ d[n] = x
  BY LenProperties, EmptySeq, PushPop
<1> HIDE DEF d
<1>2. d[1] = -1
  BY <1>1 DEF ColumnsFit
<1>3. ASSUME NEW i \in 2..n PROVE d[i] >= 0
  <2>1. CASE i = n
    BY <1>1, <2>1
  <2>2. CASE i \in 2..Len(c)
    BY <1>1, <2>2 DEF ColumnsFit
  <2> QED BY <1>1, <2>1, <2>2
<1>4. ASSUME NEW i \in 3..n, p[i] \in BlockStates
      PROVE  \/ d[i] > d[i - 1]
             \/ d[i] = d[i - 1] /\ p[i] \in SequenceStates /\ p[i - 1] \notin SequenceStates
  <2>1. i - 1 \in 1..Len(c) /\ d[i - 1] = c[i - 1]
    BY <1>1
  <2>2. CASE i = n
    BY <1>1, <1>4, <2>1, <2>2
  <2>3. CASE i \in 3..Len(c)
    BY <1>1, <1>4, <2>1, <2>3 DEF ColumnsFit
  <2> QED BY <1>1, <2>2, <2>3
<1>5. ColumnsFit(p, d)
  BY <1>1, <1>2, <1>3, <1>4 DEF ColumnsFit
<1> QED
  BY <1>5 DEF d

\* One column less.
LEMMA FitPop ==
    ASSUME NEW p, NEW c \in Seq(Int), NEW x \in Int, ColumnsFit(p, Append(c, x)), c # <<>>
    PROVE  ColumnsFit(p, c)
<1> DEFINE d == Append(c, x)
<1>1. /\ Len(c) \in Nat \ {0} /\ Len(d) = Len(c) + 1
      /\ \A i \in 1..Len(c) : d[i] = c[i]
  BY LenProperties, EmptySeq, PushPop
<1>2. ColumnsFit(p, d)
  OBVIOUS
<1> HIDE DEF d
<1>3. /\ 1 \in 1..Len(c)
      /\ \A i \in 2..Len(c) : i \in 1..Len(c) /\ i \in 2..Len(d)
      /\ \A i \in 3..Len(c) : i \in 1..Len(c) /\ i - 1 \in 1..Len(c) /\ i \in 3..Len(d)
  BY <1>1
<1> QED
  BY <1>1, <1>2, <1>3 DEF ColumnsFit

\* The stack of indents as a sequence of columns.
LEMMA IndentFacts ==
    ASSUME Inv
    PROVE  /\ indent \in Int /\ indent >= -1 /\ indents \in Seq(Int) /\ Len(indents) \in Nat
           /\ \A i \in 1..Len(indents) : indents[i] >= -1
           /\ indents = <<>> <=> Len(indents) = 0
           /\ Append(indents, indent) \in Seq(Int)
           /\ Append(indents, indent) # <<>>
           /\ Len(Append(indents, indent)) = Len(indents) + 1
           /\ \A i \in 1..Len(indents) : Append(indents, indent)[i] = indents[i]
           /\ Append(indents, indent)[Len(indents) + 1] = indent
           /\ BestIndent \in Nat \ {0}
<1>1. BestIndent \in Nat \ {0} /\ MaxEvents \in Nat
  BY EmitterAssumption DEF Inv, TypeOK, MaxEvents
<1>2. BestIndent * MaxEvents \in Nat
  BY <1>1
<1> DEFINE m == BestIndent * MaxEvents
<1>3. indent \in -1..m /\ indents \in Seq(-1..m)
  BY DEF Inv, TypeOK
<1> HIDE DEF m
<1>4. m \in Nat
  BY <1>2 DEF m
<1>5. indent \in Int /\ indent >= -1 /\ -1..m \subseteq Int
  BY <1>3, <1>4
<1>6. Len(indents) \in Nat /\ (indents = <<>> <=> Len(indents) = 0)
  BY <1>3, LenProperties, EmptySeq
<1>7. \A i \in 1..Len(indents) : indents[i] \in -1..m
  BY <1>3, ElementOfSeq
<1>8. \A i \in 1..Len(indents) : indents[i] >= -1 /\ indents[i] \in Int
  BY <1>4, <1>7
<1>9. indents \in Seq(Int)
  BY <1>3, <1>8, SeqIn
<1>10. /\ Append(indents, indent) \in Seq(Int)
       /\ Append(indents, indent) # <<>>
       /\ Len(Append(indents, indent)) = Len(indents) + 1
       /\ \A i \in 1..Len(indents) : Append(indents, indent)[i] = indents[i]
       /\ Append(indents, indent)[Len(indents) + 1] = indent
  BY <1>5, <1>9, PushPop
<1> QED
  BY <1>1, <1>5, <1>6, <1>8, <1>9, <1>10

\* Every place keeps its column, and a block collection stands deeper than the
\* one around it.
LEMMA ColumnsStep ==
    ASSUME Inv, NodeStep \/ CloseStep \/ DocumentStep
    PROVE  /\ Columns'
           /\ indent' \in Int /\ indents' \in Seq(Int) /\ indent' >= -1
           /\ indents' \in {indents, Append(indents, indent)} \/
                 (indents # <<>> /\ indents' = Front(indents))
           /\ \/ indent' \in {-1, 0, indent, BestIndent, indent + BestIndent}
              \/ indents # <<>> /\ indent' = Last(indents)
<1> DEFINE c == Append(indents, indent)
<1>0. /\ states \in Seq(States) /\ Len(states) \in Nat
      /\ states = <<>> <=> Len(states) = 0
      /\ states = <<>> <=> state \notin Inner
      /\ \A i \in 1..Len(states) :
            states[i] \in States \ FirstStates /\ (i > 1 => states[i] \in Inner)
      /\ states # <<>> => states[1] = "DOCUMENT_END"
      /\ \A i \in 1..Len(states) : Places[i] = states[i]
      /\ Places[Len(states) + 1] = state
  BY StackFacts
<1>1. /\ indent \in Int /\ indents \in Seq(Int) /\ Len(indents) \in Nat
      /\ indent >= -1 /\ \A i \in 1..Len(indents) : indents[i] >= -1
      /\ indents = <<>> <=> Len(indents) = 0
      /\ c \in Seq(Int) /\ c # <<>> /\ Len(c) = Len(indents) + 1
      /\ \A i \in 1..Len(indents) : c[i] = indents[i]
      /\ c[Len(indents) + 1] = indent
      /\ BestIndent \in Nat \ {0}
  BY IndentFacts
<1>2. /\ state = "STREAM_START" => indents = <<>>
      /\ state # "STREAM_START" =>
            /\ Len(indents) = Len(states) - (IF state \in FirstStates THEN 1 ELSE 0)
            /\ ColumnsFit(Places, c)
  BY DEF Inv, Columns
<1>3. /\ "STREAM_START" \notin Inner /\ FirstStates \subseteq Inner
      /\ "DOCUMENT_END" \notin FirstStates
  BY DEF Inner, FlowStates, BlockStates, FirstStates
<1> HIDE DEF c
<1>4. CASE NodeStep
  <2>1. PICK resume \in States \ FirstStates :
           /\ SameKind(state, resume) /\ Follows(resume) /\ NodeLayout
           /\ Leaf(resume) \/ Start(resume, flow_level')
    BY <1>4 DEF NodeStep
  <2>2. /\ Len(states') + 1 = Len(Places')
        /\ \A i \in 1..Len(states) : Places'[i] = states[i]
        /\ Places'[Len(states) + 1] = resume
        /\ \/ state' = resume /\ Len(Places') = Len(states) + 1
           \/ state' \in FirstStates /\ Len(Places') = Len(states) + 2
        /\ states' \in Seq(States)
    BY <2>1, NodePlaces DEF Leaf
  <2>3. state # "STREAM_START" /\ resume # "STREAM_START" /\ state' # "STREAM_START"
    BY <1>3, <2>1, <2>2 DEF Follows
  <2>4. Len(states') = Len(states) + (IF state' \in FirstStates THEN 1 ELSE 0)
    <3>1. Len(states') \in Nat
      BY <2>2, LenProperties
    <3> QED
      BY <1>0, <2>1, <2>2, <3>1
  <2>5. CASE state \notin FirstStates
    <3>1. UNCHANGED <<indent, indents>>
      BY <2>1, <2>5 DEF NodeLayout, layout
    <3>2. Len(c) = Len(states) + 1
      BY <1>0, <1>1, <1>2, <2>3, <2>5
    <3>3. \A i \in 1..Len(c) : SameKind(Places[i], Places'[i])
      <4> TAKE i \in 1..Len(c)
      <4>1. CASE i \in 1..Len(states)
        BY <1>0, <2>2, <4>1 DEF SameKind
      <4>2. CASE i = Len(states) + 1
        BY <1>0, <2>1, <2>2, <4>2
      <4> QED
        BY <1>0, <3>2, <4>1, <4>2
    <3>4. ColumnsFit(Places', c)
      BY <1>1, <1>2, <2>3, <3>3, FitSameKind
    <3>5. Len(indents') = Len(states') - (IF state' \in FirstStates THEN 1 ELSE 0)
      BY <1>0, <1>1, <2>4, <3>1, <3>2
    <3>6. Append(indents', indent') = c
      BY <3>1 DEF c
    <3> QED
      BY <1>1, <2>3, <3>1, <3>4, <3>5, <3>6 DEF Columns
  <2>6. CASE state \in FirstStates
    <3>1. indents' = c
      BY <2>1, <2>6 DEF NodeLayout, c
    <3>2. PICK flow \in BOOLEAN, indentless \in BOOLEAN :
             /\ indent' = increase_indent(flow, indentless)
             /\ indentless => mapping_context /\ state \in SequenceStates
      BY <2>1, <2>6 DEF NodeLayout
    <3>3. /\ indent < 0 => indent' \in {0, BestIndent}
          /\ indent >= 0 => \/ indent' = indent + BestIndent
                            \/ indent' = indent /\ mapping_context /\ state \in SequenceStates
      BY <1>1, <3>2 DEF increase_indent
    <3>4. indent' \in Int /\ indent' >= 0
      BY <1>1, <3>3
    <3>5. /\ Len(c) = Len(states) /\ Len(indents) + 1 = Len(states)
          /\ Len(states) \in Nat \ {0}
      BY <1>0, <1>1, <1>2, <2>3, <2>6
    <3>6. \A i \in 1..Len(c) : SameKind(Places[i], Places'[i])
      BY <1>0, <2>2, <3>5 DEF SameKind
    <3>7. ColumnsFit(Places', c)
      BY <1>1, <1>2, <2>3, <3>6, FitSameKind
    <3>8. /\ c[Len(c)] = indent
          /\ Places'[Len(c) + 1] = resume
          /\ Places'[Len(c)] = states[Len(states)]
      BY <1>1, <2>2, <3>5
    <3>9. ASSUME Len(c) + 1 >= 3
          PROVE  \/ indent' > c[Len(c)]
                 \/ /\ indent' = c[Len(c)]
                    /\ resume \in SequenceStates
                    /\ states[Len(states)] \notin SequenceStates
      <4>1. c[Len(c)] >= 0
        <5>1. Len(c) \in 2..Len(c)
          BY <1>1, <3>9
        <5> QED BY <1>2, <2>3, <5>1 DEF ColumnsFit
      <4>2. mapping_context => states[Len(states)] \notin SequenceStates
        <5>1. Last(states) = states[Len(states)]
          BY DEF Last
        <5> QED BY <2>6, <5>1 DEF Inv, ContextFits
      <4>3. resume \in SequenceStates <=> state \in SequenceStates
        BY <2>1 DEF SameKind
      <4>4. indent' > indent \/ (indent' = indent /\ mapping_context /\ state \in SequenceStates)
        BY <1>1, <3>3, <3>8, <4>1
      <4> QED
        BY <3>8, <4>2, <4>3, <4>4
    <3>10. ColumnsFit(Places', Append(c, indent'))
      <4>1. LET n == Len(c) + 1 IN
            n >= 3 /\ Places'[n] \in BlockStates =>
               \/ indent' > c[n - 1]
               \/ /\ indent' = c[n - 1]
                  /\ Places'[n] \in SequenceStates
                  /\ Places'[n - 1] \notin SequenceStates
        <5>1. Len(c) + 1 - 1 = Len(c)
          BY <1>1
        <5> QED BY <3>8, <3>9, <5>1
      <4> QED
        BY <1>1, <3>4, <3>7, <4>1, FitPush
    <3>11. Len(indents') = Len(states') - (IF state' \in FirstStates THEN 1 ELSE 0)
      BY <1>0, <1>1, <2>4, <3>1, <3>5
    <3>12. indent' \in {0, indent, BestIndent, indent + BestIndent}
      BY <1>1, <3>3
    <3> QED
      BY <1>1, <2>3, <3>1, <3>4, <3>10, <3>11, <3>12 DEF Columns, c
  <2> QED
    BY <2>5, <2>6
<1>5. CASE CloseStep
  <2>1. /\ Len(states) \in Nat \ {0} /\ state' \in States \ FirstStates
        /\ Len(states') = Len(states) - 1
        /\ state' = states[Len(states)]
        /\ Places' = states
    BY <1>5, ClosePlaces
  <2>2. state \in Inner /\ state # "STREAM_START" /\ state' # "STREAM_START"
    <3>1. state \in Inner /\ states # <<>>
      BY <1>0, <1>5 DEF CloseStep
    <3>2. state' = "DOCUMENT_END" \/ state' \in Inner
      <4>1. CASE Len(states) = 1
        BY <1>0, <2>1, <3>1, <4>1
      <4>2. CASE Len(states) > 1
        BY <1>0, <2>1, <4>2
      <4> QED BY <2>1, <4>1, <4>2
    <3> QED BY <1>3, <3>1, <3>2
  <2>3. \A i \in 1..Len(states) : SameKind(Places[i], Places'[i])
    BY <1>0, <2>1 DEF SameKind
  <2>4. CASE state \in FirstStates
    <3>1. UNCHANGED <<indent, indents>>
      BY <1>5, <2>4 DEF CloseStep, layout
    <3>2. Len(c) = Len(states)
      BY <1>0, <1>1, <1>2, <2>2, <2>4
    <3>3. ColumnsFit(Places', c)
      BY <1>1, <1>2, <2>2, <2>3, <3>2, FitSameKind
    <3>4. Len(indents') = Len(states')
      BY <1>1, <2>1, <3>1, <3>2
    <3>5. Append(indents', indent') = c
      BY <3>1 DEF c
    <3>6. Len(states') - 0 = Len(states')
      BY <2>1
    <3> QED
      BY <1>1, <2>1, <2>2, <3>1, <3>3, <3>4, <3>5, <3>6 DEF Columns
  <2>5. CASE state \notin FirstStates
    <3>1. indent' = Last(indents) /\ indents' = Front(indents)
      BY <1>5, <2>5 DEF CloseStep
    <3>2. Len(indents) = Len(states) /\ indents # <<>>
      BY <1>0, <1>1, <1>2, <2>1, <2>2, <2>5
    <3>3. /\ Front(indents) \in Seq(Int) /\ Last(indents) \in Int
          /\ Len(Front(indents)) = Len(indents) - 1
          /\ Last(indents) = indents[Len(indents)]
          /\ Append(Front(indents), Last(indents)) = indents
      BY <1>1, <3>2, PopFacts, PopPush
    <3>4. ColumnsFit(Places, indents)
      BY <1>1, <1>2, <2>2, <3>2, FitPop DEF c
    <3>5. ColumnsFit(Places', indents)
      BY <1>1, <2>3, <3>2, <3>4, FitSameKind
    <3>6. Len(indents') = Len(states') /\ Len(states') - 0 = Len(states')
      BY <1>1, <2>1, <3>1, <3>2, <3>3
    <3>7. indent' >= -1
      <4>1. Len(indents) \in 1..Len(indents)
        BY <1>1, <3>2
      <4> QED BY <1>1, <3>1, <3>3, <4>1
    <3>8. Append(indents', indent') = indents
      BY <3>1, <3>3
    <3> QED
      BY <2>1, <2>2, <3>1, <3>2, <3>3, <3>5, <3>6, <3>7, <3>8 DEF Columns
  <2> QED
    BY <2>4, <2>5
<1>6. CASE DocumentStep
  <2>1. states' = states /\ indents' = indents
    BY <1>6 DEF DocumentStep
  <2>2. /\ state \notin Inner /\ state' \notin Inner /\ state' # "STREAM_START"
        /\ \/ state = "STREAM_START" /\ indent' = -1
           \/ state # "STREAM_START" /\ indent' = indent
    BY <1>6 DEF DocumentStep, Inner, FlowStates, BlockStates
  <2>3. indents = <<>> /\ states = <<>>
    BY <1>0, <1>1, <1>2, <1>3, <2>2
  <2>4. indent' = -1
    BY <1>1, <1>2, <2>2, <2>3 DEF ColumnsFit
  <2>5. ColumnsFit(Places', Append(<<>>, -1))
    <3>1. <<>> \in Seq(Int) /\ -1 \in Int /\ Len(<<>>) = 0
      BY EmptySeq
    <3>2. Len(Append(<<>>, -1)) = 1 /\ Append(<<>>, -1)[1] = -1
      OBVIOUS
    <3> QED BY <3>2 DEF ColumnsFit
  <2>6. state' \notin FirstStates /\ Len(<<>>) = 0 /\ 0 - 0 = 0
    BY <1>3, <2>2, EmptySeq
  <2>7. -1 \in Int /\ -1 >= -1
    OBVIOUS
  <2> QED
    BY <1>1, <2>1, <2>2, <2>3, <2>4, <2>5, <2>6, <2>7 DEF Columns
<1> QED
  BY <1>4, <1>5, <1>6

-----------------------------------------------------------------------------
(* The flow level.                                                         *)

\* flow_level stays the number of flow collections that were entered, and no
\* block collection is opened in one.
LEMMA LevelsStep ==
    ASSUME Inv, NodeStep \/ CloseStep \/ DocumentStep
    PROVE  Levels' /\ flow_level' \in Nat /\ flow_level' <= flow_level + 1
<1> DEFINE F == FlowStates \ FirstStates
           n == Len(states)
<1>0. /\ states \in Seq(States) /\ state \in States /\ n \in Nat
      /\ states = <<>> <=> Len(states) = 0
      /\ states = <<>> <=> state \notin Inner
      /\ Len(Places) = n + 1
      /\ \A i \in 1..n : Places[i] = states[i]
      /\ Places[n + 1] = state
  BY StackFacts
<1>1. flow_level = FlowIn(Places) /\ FlowInside(Places) /\ flow_level \in Int
  BY DEF Inv, Levels, TypeOK
<1>2. ASSUME NEW s \in Seq(States), NEW x \in States
      PROVE  /\ FlowIn(s) \in Nat
             /\ FlowIn(Append(s, x)) = IF x \in F THEN FlowIn(s) + 1 ELSE FlowIn(s)
  <2> HIDE DEF F
  <2> QED BY CountPush DEF FlowIn, F
<1>3. ASSUME NEW s \in Seq(States), NEW k \in 1..Len(s), s[k] \in F
      PROVE  FlowIn(s) >= 1
  <2>1. k \in DOMAIN s
    BY LenProperties
  <2> QED
    BY <1>3, <2>1, CountSome DEF FlowIn, F
<1>4. /\ FlowIn(states) \in Nat
      /\ FlowIn(Places) = IF state \in F THEN FlowIn(states) + 1 ELSE FlowIn(states)
  BY <1>0, <1>2 DEF Places
<1>5. ASSUME NEW i \in 1..n, states[i] \in FlowStates PROVE state \in FlowStates
  <2>1. i \in 1..Len(Places) /\ n + 1 \in 1..Len(Places) /\ i < n + 1
    BY <1>0
  <2> QED
    BY <1>0, <1>1, <1>5, <2>1 DEF FlowInside
<1>6. ASSUME NEW i \in 1..n, NEW j \in 1..n, i < j, states[i] \in FlowStates
      PROVE  states[j] \in FlowStates
  <2>1. i \in 1..Len(Places) /\ j \in 1..Len(Places)
    BY <1>0
  <2> QED
    BY <1>0, <1>1, <1>6, <2>1 DEF FlowInside
<1>7. CASE NodeStep
  <2>1. PICK resume \in States \ FirstStates :
           /\ SameKind(state, resume) /\ NodeLayout
           /\ Leaf(resume) \/ Start(resume, flow_level')
    BY <1>7 DEF NodeStep
  <2>2. flow_level' = IF state \in FirstStates /\ state \in FlowStates
                      THEN flow_level + 1 ELSE flow_level
    BY <2>1 DEF NodeLayout, layout
  <2>3. resume \in F <=> state \in FlowStates
    BY <2>1 DEF SameKind
  <2>4. flow_level' = FlowIn(Append(states, resume))
    <3>1. FlowIn(Append(states, resume)) =
             IF resume \in F THEN FlowIn(states) + 1 ELSE FlowIn(states)
      BY <1>0, <1>2
    <3>2. state \in F <=> state \in FlowStates /\ state \notin FirstStates
      OBVIOUS
    <3> HIDE DEF F
    <3> QED
      BY <1>1, <1>4, <2>2, <2>3, <3>1, <3>2
  <2>5. /\ Places' \in Seq(States)
        /\ \A i \in 1..n : Places'[i] = states[i]
        /\ Places'[n + 1] = resume
        /\ \/ Places' = Append(states, resume) /\ Len(Places') = n + 1
           \/ /\ Start(resume, flow_level')
              /\ Places' = Append(Append(states, resume), state')
              /\ Len(Places') = n + 2
              /\ Places'[n + 2] = state'
              /\ state' \in FirstStates
        /\ state' \in States
    BY <2>1, NodePlaces
  <2>6. flow_level' = FlowIn(Places') /\ flow_level' \in Nat
    <3>1. Append(states, resume) \in Seq(States)
      BY <1>0, PushPop
    <3>2. FlowIn(Append(states, resume)) \in Nat
      BY <1>2, <3>1, <2>5
    <3>3. CASE Places' = Append(states, resume)
      BY <2>4, <3>2, <3>3
    <3>4. CASE Places' = Append(Append(states, resume), state') /\ state' \in FirstStates
      <4>1. FlowIn(Places') = FlowIn(Append(states, resume))
        BY <1>2, <2>5, <3>1, <3>4
      <4> QED BY <2>4, <3>2, <4>1
    <3> QED
      BY <2>5, <3>3, <3>4
  <2>7. ASSUME Start(resume, flow_level'), state \in FlowStates
        PROVE  state' \in FlowStates
    <3>1. n + 1 \in 1..Len(Places') /\ Places'[n + 1] \in F
      BY <1>0, <2>3, <2>5, <2>7
    <3>2. flow_level' # 0
      BY <1>3, <2>5, <2>6, <3>1
    <3>3. FlowStyle(flow_level')
      BY <3>2 DEF FlowStyle
    <3> QED
      BY <2>7, <3>3 DEF Start, FlowStates
  <2>8. ASSUME NEW i \in 1..Len(Places'), NEW j \in 1..Len(Places'), i < j,
               Places'[i] \in FlowStates
        PROVE  Places'[j] \in FlowStates
    <3>1. state \in FlowStates \/ j \in 1..n
      <4>1. CASE i \in 1..n
        BY <1>5, <2>5, <2>8, <4>1
      <4>2. CASE i = n + 1
        BY <2>3, <2>5, <2>8, <4>2
      <4>3. CASE i \notin 1..(n + 1)
        BY <1>0, <2>5, <2>8, <4>3
      <4> QED
        BY <1>0, <4>1, <4>2, <4>3
    <3>2. CASE j \in 1..n
      BY <1>0, <1>6, <2>5, <2>8, <3>2
    <3>3. CASE j = n + 1
      BY <1>0, <2>3, <2>5, <3>1, <3>3
    <3>4. CASE j \notin 1..(n + 1)
      <4>1. j = n + 2 /\ Len(Places') = n + 2
        BY <1>0, <2>5, <3>4
      <4>2. Start(resume, flow_level') /\ Places'[n + 2] = state'
        BY <1>0, <2>5, <4>1
      <4>3. j \notin 1..n
        BY <1>0, <4>1
      <4> QED
        BY <2>7, <3>1, <4>1, <4>2, <4>3
    <3> QED
      BY <1>0, <3>2, <3>3, <3>4
  <2> QED
    BY <1>1, <2>2, <2>6, <2>8 DEF Levels, FlowInside
<1>8. CASE CloseStep
  <2>1. Places' = states /\ state \in Inner
    BY <1>8, ClosePlaces DEF CloseStep
  <2>2. flow_level' = IF state \in FlowStates \ FirstStates THEN flow_level - 1 ELSE flow_level
    BY <1>8 DEF CloseStep, layout
  <2>3. flow_level' = FlowIn(states)
    <3> HIDE DEF F
    <3> QED BY <1>1, <1>4, <2>2 DEF F
  <2>4. FlowInside(states)
    BY <1>6 DEF FlowInside
  <2> QED
    BY <1>1, <1>4, <2>1, <2>2, <2>3, <2>4 DEF Levels
<1>9. CASE DocumentStep
  <2>1. /\ states' = states /\ flow_level' = flow_level
        /\ state \notin Inner /\ state' \notin Inner /\ state' \in States
    BY <1>9 DEF DocumentStep, States, Between, Inner, FlowStates, BlockStates
  <2>2. state \notin F /\ state' \notin F
    BY <2>1 DEF Inner
  <2>3. Places' = Append(states, state')
    BY <2>1 DEF Places
  <2>4. FlowIn(Places') = FlowIn(states) /\ FlowIn(Places) = FlowIn(states)
    BY <1>0, <1>2, <1>4, <2>1, <2>2, <2>3
  <2>5. Len(Places') = 1
    BY <1>0, <2>1, <2>3, PushPop
  <2>6. FlowInside(Places')
    BY <2>5 DEF FlowInside
  <2> QED
    BY <1>1, <1>4, <2>1, <2>4, <2>6 DEF Levels
<1> QED
  BY <1>7, <1>8, <1>9

-----------------------------------------------------------------------------
(* The queue of events.                                                    *)

\* Handling an event takes it off the queue.
LEMMA HandledFacts ==
    ASSUME Inv, events # <<>>, Handled
    PROVE  /\ events' = Tail(events) /\ Alphabet' = Alphabet
           /\ session' = session /\ canonical' = canonical /\ pc' = pc /\ given' = given
           /\ events' \in Seq(Alphabet') /\ MaxEvents' = MaxEvents
           /\ Len(events') = Len(events) - 1 /\ Done' = Done + 1
           /\ Reach' = Reach + BestIndent
<1>1. /\ events' = Tail(events) /\ session' = session /\ canonical' = canonical
      /\ pc' = pc /\ given' = given
  BY DEF Handled, options
<1>2. Alphabet' = Alphabet /\ MaxEvents' = MaxEvents
  BY <1>1 DEF Alphabet, MaxEvents
<1>3. /\ Tail(events) \in Seq(Alphabet) /\ Len(Tail(events)) = Len(events) - 1
      /\ Len(events) \in Nat
  BY HeadEvent DEF Inv
<1>4. given \in Int /\ MaxEvents \in Nat /\ BestIndent \in Nat
  BY EmitterAssumption DEF Inv, TypeOK, MaxEvents
<1>5. Done' = Done + 1 /\ Done \in Int
  BY <1>1, <1>3, <1>4 DEF Done
<1>6. Reach' = Reach + BestIndent
  BY <1>4, <1>5 DEF Reach
<1> QED
  BY <1>1, <1>2, <1>3, <1>5, <1>6

\* What an event can be asked of once need_more_events is satisfied: a
\* collection start never stands alone in the queue.
LEMMA Followed ==
    ASSUME Inv, events # <<>>, ~need_more_events,
           event.type \in {"SEQUENCE_START", "MAPPING_START"}
    PROVE  Len(events) >= 2
<1>0. Len(events) \in Nat \ {0} /\ event = events[1] /\ events \in Seq(Alphabet)
  BY HeadEvent DEF Inv, TypeOK
<1> SUFFICES ASSUME ~(Len(events) >= 2) PROVE FALSE
  OBVIOUS
<1>1. Len(events) = 1
  <2>1. \A k \in Nat \ {0} : k >= 2 \/ k = 1
    OBVIOUS
  <2> QED BY <1>0, <2>1
<1>2. Len(events) <= Accumulate(event.type)
  <2>1. Accumulate(event.type) \in {2, 3}
    BY DEF Accumulate
  <2> QED BY <1>1, <2>1
<1>3. PICK n \in DOMAIN events : Level(n) = 0
  BY <1>2 DEF need_more_events
<1>4. n = 1
  <2>1. DOMAIN events = 1..1
    BY <1>0, <1>1, LenProperties
  <2> QED BY <1>3, <2>1
<1>5. Type(1) \in Opening /\ Type(1) \notin Closing
  BY <1>0 DEF Type, Opening, Closing
<1>6. {i \in 1..1 : Type(i) \in Opening} = {1} /\ {i \in 1..1 : Type(i) \in Closing} = {}
  <2>1. \A i \in 1..1 : i = 1
    OBVIOUS
  <2>2. 1 \in 1..1
    OBVIOUS
  <2> QED BY <1>5, <2>1, <2>2
<1>7. Cardinality({1}) = 1 /\ Cardinality({}) = 0
  BY FS_EmptySet, FS_Singleton
<1>8. Level(1) = 1
  <2> DEFINE A == {i \in 1..1 : Type(i) \in Opening}  B == {i \in 1..1 : Type(i) \in Closing}
  <2>1. Level(1) = Cardinality(A) - Cardinality(B)
    BY DEF Level
  <2>2. A = {1} /\ B = {}
    BY <1>6
  <2> HIDE DEF A, B
  <2> QED BY <1>7, <2>1, <2>2
<1> QED
  BY <1>3, <1>4, <1>8

\* The events a decision rests on stay in the queue until they are handled.
LEMMA LookedStep ==
    ASSUME Inv, pc = "emitting", events # <<>>, ~need_more_events,
           NodeStep \/ CloseStep \/ DocumentStep
    PROVE  Looked'
<1>0. /\ Len(events) \in Nat \ {0} /\ event = events[1]
      /\ \A i \in 1..(Len(events) - 1) : Tail(events)[i] = events[i + 1]
      /\ events \in Seq(Alphabet)
  BY HeadEvent DEF Inv, TypeOK
<1>1. events' = Tail(events) /\ Len(events') = Len(events) - 1 /\ events' \in Seq(Alphabet)
  BY HandledFacts, HeadEvent DEF NodeStep, CloseStep, DocumentStep, Inv
<1>2. /\ states \in Seq(States) /\ Len(states) \in Nat
      /\ state \in Inner <=> states # <<>>
  BY StackFacts
<1>3. ASSUME NEW i \in 1..Len(states), states[i] \in SimpleStates
      PROVE  /\ i = Len(states)
             /\ \/ state = "FLOW_SEQUENCE_FIRST_ITEM" /\ event.type = "SEQUENCE_END"
                \/ state = "FLOW_MAPPING_FIRST_KEY" /\ event.type = "MAPPING_END"
  BY <1>3 DEF Inv, Looked
<1>4. ASSUME Len(events) >= 2
      PROVE  /\ events' # <<>>
             /\ (event.type)' = Type(2)
  <2>1. Len(events') >= 1
    BY <1>0, <1>1, <1>4
  <2>2. events' # <<>>
    <3>1. Len(<<>>) = 0
      BY EmptySeq
    <3> QED BY <2>1, <3>1
  <2>3. Head(events') = events'[1]
    BY <1>1, <2>2, HeadTailProperties
  <2>4. 1 \in 1..(Len(events) - 1) /\ 1 + 1 = 2
    BY <1>0, <1>4
  <2>5. events'[1] = events[2]
    BY <1>0, <1>1, <2>4
  <2> QED
    BY <2>2, <2>3, <2>5 DEF event, Type
<1>5. CASE NodeStep
  <2>1. PICK resume \in States \ FirstStates :
           /\ resume \in SimpleStates => check_simple_key
           /\ Leaf(resume) \/ Start(resume, flow_level')
    BY <1>5 DEF NodeStep
  <2>2. \A i \in 1..Len(states) : states[i] \notin SimpleStates
    <3>1. event.type \notin Closing
      BY <2>1 DEF Leaf, Start, Closing
    <3> QED
      BY <1>3, <3>1 DEF Closing
  <2>3. CASE Leaf(resume)
    <3>1. state' = resume /\ states' = states
      BY <2>3 DEF Leaf
    <3> QED
      BY <2>2, <3>1 DEF Looked, FirstStates
  <2>4. CASE Start(resume, flow_level')
    <3>1. Len(events) >= 2
      BY <2>4, Followed DEF Start
    <3>2. /\ states' = Append(states, resume)
          /\ Len(states') = Len(states) + 1
          /\ \A i \in 1..Len(states) : states'[i] = states[i]
          /\ states'[Len(states) + 1] = resume
      BY <1>2, <2>4, PushPop DEF Start
    <3>3. events' # <<>> /\ (event.type)' = Type(2) /\ Type(1) = event.type
      BY <1>0, <1>4, <3>1 DEF Type
    <3>4. state' = "BLOCK_SEQUENCE_FIRST_ITEM" => Type(2) # "SEQUENCE_END"
      BY <2>4, <3>1, <3>3 DEF Start, FlowStyle, check_empty_sequence
    <3>5. state' = "BLOCK_MAPPING_FIRST_KEY" => Type(2) # "MAPPING_END"
      BY <2>4, <3>1, <3>3 DEF Start, FlowStyle, check_empty_mapping
    <3>6. ASSUME resume \in SimpleStates
          PROVE  \/ state' = "FLOW_SEQUENCE_FIRST_ITEM" /\ Type(2) = "SEQUENCE_END"
                 \/ state' = "FLOW_MAPPING_FIRST_KEY" /\ Type(2) = "MAPPING_END"
      <4>1. check_simple_key
        BY <2>1, <3>6
      <4>2. CASE event.type = "SEQUENCE_START"
        <5>1. check_empty_sequence
          BY <4>1, <4>2 DEF check_simple_key
        <5> QED
          BY <2>4, <4>2, <5>1 DEF Start, FlowStyle, check_empty_sequence
      <4>3. CASE event.type = "MAPPING_START"
        <5>1. check_empty_mapping
          BY <4>1, <4>3 DEF check_simple_key
        <5> QED
          BY <2>4, <4>3, <5>1 DEF Start, FlowStyle, check_empty_mapping
      <4> QED
        BY <2>4, <4>2, <4>3 DEF Start
    <3>7. ASSUME NEW i \in 1..Len(states'), states'[i] \in SimpleStates
          PROVE  i = Len(states') /\ resume \in SimpleStates
      <4>1. CASE i \in 1..Len(states)
        BY <2>2, <3>2, <3>7, <4>1
      <4>2. CASE i = Len(states) + 1
        BY <3>2, <3>7, <4>2
      <4> QED
        BY <1>2, <3>2, <4>1, <4>2
    <3> QED
      BY <3>3, <3>4, <3>5, <3>6, <3>7 DEF Looked
  <2> QED
    BY <2>1, <2>3, <2>4
<1>6. CASE CloseStep
  <2>1. /\ state' \notin FirstStates
        /\ Len(states) \in Nat \ {0} /\ Len(states') = Len(states) - 1
        /\ \A i \in 1..(Len(states) - 1) : states'[i] = states[i]
    BY <1>6, ClosePlaces
  <2>2. ASSUME NEW i \in 1..Len(states') PROVE states'[i] \notin SimpleStates
    <3>1. i \in 1..(Len(states) - 1) /\ i \in 1..Len(states) /\ i # Len(states)
      BY <2>1
    <3> QED
      BY <1>3, <2>1, <3>1
  <2> QED
    BY <2>1, <2>2 DEF Looked, FirstStates
<1>7. CASE DocumentStep
  <2>1. states' = states /\ state \notin Inner /\ state' \notin FirstStates
    BY <1>7 DEF DocumentStep, Inner, FlowStates, BlockStates, FirstStates
  <2>2. Len(states) = 0
    BY <1>2, <2>1, EmptySeq
  <2> QED
    BY <2>1, <2>2 DEF Looked, FirstStates
<1> QED
  BY <1>5, <1>6, <1>7

-----------------------------------------------------------------------------
(* The inductive invariant.                                                *)

\* The bounds on what was done bound the indents.
LEMMA ReachFacts ==
    ASSUME TypeOK, Bounded
    PROVE  /\ Reach \in Nat /\ Done \in Nat /\ Done <= MaxEvents
           /\ Reach <= BestIndent * MaxEvents
           /\ MaxEvents \in Nat /\ BestIndent \in 2..9
<1>1. MaxEvents \in Nat /\ BestIndent \in 2..9
  BY EmitterAssumption DEF TypeOK, MaxEvents
<1>2. given \in 0..MaxEvents /\ Len(events) \in Nat
  BY LenProperties DEF TypeOK
<1>3. Done \in Nat /\ Done <= MaxEvents
  BY <1>1, <1>2 DEF Bounded, Done
<1>4. \A b \in 2..9, x \in Nat, y \in Nat : x <= y => b * x <= b * y /\ b * x \in Nat
  OBVIOUS
<1> QED
  BY <1>1, <1>3, <1>4 DEF Reach

\* Types from the bounds.
LEMMA TypedFromBounds ==
    ASSUME NEW best \in 2..9, NEW max \in Nat, NEW done \in Nat, done <= max,
           NEW ind \in Int, ind >= -1, ind <= best * done,
           NEW inds \in Seq(Int),
           \A i \in 1..Len(inds) : inds[i] >= -1 /\ inds[i] <= best * done
    PROVE  ind \in -1..(best * max) /\ inds \in Seq(-1..(best * max))
<1>1. \A b \in 2..9, x \in Nat, y \in Nat :
         x <= y => b * x <= b * y /\ b * x \in Nat /\ b * y \in Nat
  OBVIOUS
<1> DEFINE m == best * max
           r == best * done
<1>2. r \in Nat /\ m \in Nat /\ r <= m
  BY <1>1
<1>3. ind <= r /\ \A i \in 1..Len(inds) : inds[i] >= -1 /\ inds[i] <= r
  OBVIOUS
<1> HIDE DEF m, r
<1>4. ind \in -1..m
  BY <1>2, <1>3
<1>5. \A i \in 1..Len(inds) : inds[i] \in Int
  BY ElementOfSeq
<1>6. \A i \in 1..Len(inds) : inds[i] \in -1..m
  BY <1>2, <1>3, <1>5
<1>7. inds \in Seq(-1..m)
  BY <1>6, SeqIn
<1> QED
  BY <1>4, <1>7 DEF m

\* What a handled event does to the types and the bounds.
LEMMA TypedStep ==
    ASSUME Inv, events # <<>>, NodeStep \/ CloseStep \/ DocumentStep
    PROVE  TypeOK' /\ Bounded'
<1>1. /\ Handled /\ mapping_context' \in BOOLEAN /\ indention' \in BOOLEAN
      /\ open_ended' \in 0..2 /\ tail' \in {"marker", "open", "text"}
  <2>1. mapping_context \in BOOLEAN /\ open_ended \in 0..2 /\ tail \in {"marker", "open", "text"}
    BY DEF Inv, TypeOK
  <2>2. \A implicit \in BOOLEAN : AfterDocument(implicit) \in 0..2
    BY <2>1 DEF AfterDocument
  <2>3. CASE NodeStep
    BY <2>3 DEF NodeStep, Texted
  <2>4. CASE CloseStep
    BY <2>1, <2>4 DEF CloseStep
  <2>5. CASE DocumentStep
    BY <2>1, <2>2, <2>5 DEF DocumentStep
  <2> QED BY <2>3, <2>4, <2>5
<1>2. /\ session' = session /\ canonical' = canonical /\ pc' = pc /\ given' = given
      /\ events' \in Seq(Alphabet') /\ MaxEvents' = MaxEvents
      /\ Done' = Done + 1 /\ Reach' = Reach + BestIndent
  BY <1>1, HandledFacts
<1>3. /\ session \in DOMAIN Sessions /\ canonical \in BOOLEAN
      /\ pc \in {"idle", "emitting", "failed", "refused", "deleted"}
      /\ given \in 0..MaxEvents
  BY DEF Inv, TypeOK
<1>4. states' \in Seq(States) /\ state' \in States
  BY ShapedStep
<1>5. flow_level' \in Nat /\ flow_level' <= flow_level + 1 /\ flow_level \in Int
  BY LevelsStep DEF Inv, TypeOK
<1>6. /\ indent' \in Int /\ indents' \in Seq(Int) /\ indent' >= -1
      /\ indents' \in {indents, Append(indents, indent)} \/
            (indents # <<>> /\ indents' = Front(indents))
      /\ \/ indent' \in {-1, 0, indent, BestIndent, indent + BestIndent}
         \/ indents # <<>> /\ indent' = Last(indents)
  BY ColumnsStep
<1>7. /\ indent \in Int /\ indent >= -1 /\ indents \in Seq(Int) /\ Len(indents) \in Nat
      /\ \A i \in 1..Len(indents) : indents[i] >= -1
      /\ Len(Append(indents, indent)) = Len(indents) + 1
      /\ \A i \in 1..Len(indents) : Append(indents, indent)[i] = indents[i]
      /\ Append(indents, indent)[Len(indents) + 1] = indent
  BY IndentFacts
<1>8. /\ Reach \in Nat /\ Done \in Nat /\ BestIndent \in 2..9
      /\ indent <= Reach /\ \A i \in 1..Len(indents) : indents[i] <= Reach
      /\ flow_level <= Done
  BY ReachFacts DEF Inv, Bounded
<1>9. \A i \in 1..Len(indents) : indents[i] \in Int
  BY <1>7, ElementOfSeq
<1>10. indents # <<>> =>
          /\ Len(Front(indents)) = Len(indents) - 1
          /\ \A i \in 1..(Len(indents) - 1) : Front(indents)[i] = indents[i]
          /\ Last(indents) = indents[Len(indents)]
          /\ Len(indents) \in 1..Len(indents)
  <2> SUFFICES ASSUME indents # <<>>
               PROVE  /\ Len(Front(indents)) = Len(indents) - 1
                      /\ \A i \in 1..(Len(indents) - 1) : Front(indents)[i] = indents[i]
                      /\ Last(indents) = indents[Len(indents)]
                      /\ Len(indents) \in 1..Len(indents)
    OBVIOUS
  <2>1. indents \in Seq(Int)
    BY <1>7
  <2>2. Len(indents) \in Nat \ {0}
    BY <2>1, LenProperties, EmptySeq
  <2>3. Len(indents) \in 1..Len(indents)
    BY <2>2
  <2>4. /\ Len(Front(indents)) = Len(indents) - 1
        /\ \A i \in 1..(Len(indents) - 1) : Front(indents)[i] = indents[i]
        /\ Last(indents) = indents[Len(indents)]
    BY <2>1, PopFacts
  <2> QED BY <2>3, <2>4
<1>11. indent' <= Reach'
  <2>1. CASE indents # <<>> /\ indent' = Last(indents)
    BY <1>2, <1>8, <1>9, <1>10, <2>1
  <2>2. CASE indent' \in {-1, 0, indent, BestIndent, indent + BestIndent}
    BY <1>2, <1>7, <1>8, <2>2
  <2> QED BY <1>6, <2>1, <2>2
<1>12. ASSUME NEW i \in 1..Len(indents')
       PROVE  indents'[i] >= -1 /\ indents'[i] <= Reach'
  <2>1. CASE indents' = indents
    BY <1>2, <1>7, <1>8, <1>9, <2>1
  <2>2. CASE indents' = Append(indents, indent)
    <3>1. i \in 1..Len(indents) \/ i = Len(indents) + 1
      BY <1>7, <2>2
    <3>2. CASE i \in 1..Len(indents)
      <4>1. indents'[i] = indents[i]
        BY <1>7, <2>2, <3>2
      <4> QED BY <1>2, <1>7, <1>8, <1>9, <3>2, <4>1
    <3>3. CASE i = Len(indents) + 1
      <4>1. indents'[i] = indent
        BY <1>7, <2>2, <3>3
      <4> QED BY <1>2, <1>7, <1>8, <4>1
    <3> QED BY <3>1, <3>2, <3>3
  <2>3. CASE indents # <<>> /\ indents' = Front(indents)
    <3>1. i \in 1..(Len(indents) - 1) /\ i \in 1..Len(indents)
      BY <1>7, <1>10, <2>3
    <3>2. indents'[i] = indents[i]
      BY <1>10, <2>3, <3>1
    <3> QED BY <1>2, <1>7, <1>8, <1>9, <3>1, <3>2
  <2> QED BY <1>6, <2>1, <2>2, <2>3
<1>13. Bounded'
  <2>1. Done' \in Nat /\ flow_level' <= Done'
    BY <1>2, <1>5, <1>8
  <2> QED BY <1>11, <1>12, <2>1 DEF Bounded
<1>14. TypeOK'
  <2>1. /\ session' \in DOMAIN Sessions /\ canonical' \in BOOLEAN
        /\ pc' \in {"idle", "emitting", "failed", "refused", "deleted"}
        /\ given' \in 0..MaxEvents'
        /\ MaxEvents \in Nat
    BY <1>2, <1>3, ReachFacts DEF Inv
  <2>2. Done' \in Nat /\ Done' <= MaxEvents /\ flow_level' <= MaxEvents
    <3>1. Len(events') \in Nat /\ given' \in 0..MaxEvents
      BY <1>2, <2>1, LenProperties
    <3>2. Done' = given' - Len(events')
      BY DEF Done
    <3>3. Done' \in Nat /\ flow_level' <= Done'
      BY <1>13 DEF Bounded
    <3> QED BY <1>5, <2>1, <3>1, <3>2, <3>3
  <2>3. Reach' = BestIndent * Done'
    BY DEF Reach
  <2>4. /\ indent' <= BestIndent * Done'
        /\ \A i \in 1..Len(indents') : indents'[i] >= -1 /\ indents'[i] <= BestIndent * Done'
    BY <1>11, <1>12, <2>3
  <2>5. indent' \in -1..(BestIndent * MaxEvents) /\ indents' \in Seq(-1..(BestIndent * MaxEvents))
    BY <1>6, <1>8, <2>1, <2>2, <2>4, TypedFromBounds
  <2>6. flow_level' \in 0..MaxEvents
    BY <1>5, <2>1, <2>2
  <2> QED
    BY <1>1, <1>2, <1>4, <2>1, <2>5, <2>6 DEF TypeOK
<1> QED
  BY <1>13, <1>14

\* What a handled event does to the context, the directives and the text.
LEMMA RestStep ==
    ASSUME Inv, NodeStep \/ CloseStep \/ DocumentStep
    PROVE  ContextFits' /\ Undirected' /\ Ended' /\ ScalarsAreFaithful'
<1>0. /\ ScalarsAreFaithful /\ Undirected
      /\ tail = "open" => open_ended = 2
      /\ state \in {"STREAM_START", "FIRST_DOCUMENT_START"} => tail = "marker"
      /\ state \in Inner \cup {"DOCUMENT_END"} => tail # "marker"
      /\ OpenEndedIsClosed
      /\ open_ended \in 0..2
  BY DEF Inv, Ended, TypeOK
<1>1. CASE NodeStep
  <2>1. PICK resume \in States \ FirstStates :
           /\ Follows(resume) /\ (mapping_context' => resume \notin SequenceStates)
           /\ UNCHANGED tag_directives /\ Texted
           /\ Leaf(resume) \/ Start(resume, flow_level')
    BY <1>1 DEF NodeStep
  <2>2. state' \in FirstStates => Last(states') = resume
    BY <2>1, NodePlaces DEF Leaf
  <2>3. state' \in Inner \cup {"DOCUMENT_END"}
    <3>1. CASE Leaf(resume)
      BY <2>1, <3>1 DEF Leaf, Follows
    <3>2. CASE Start(resume, flow_level')
      BY <3>2 DEF Start, Inner, FlowStates, BlockStates
    <3> QED BY <2>1, <3>1, <3>2
  <2>4. state' \notin Between \cup {"STREAM_START"}
    BY <2>3 DEF Inner, FlowStates, BlockStates, Between
  <2>5. ContextFits' /\ Undirected' /\ ScalarsAreFaithful'
    BY <2>1, <2>2, <2>4 DEF ContextFits, Undirected, Texted
  <2>6. Ended'
    BY <2>1, <2>4 DEF Ended, OpenEndedIsClosed, Texted, Between
  <2> QED BY <2>5, <2>6
<1>2. CASE CloseStep
  <2>1. /\ state' \in States \ FirstStates /\ state' = states[Len(states)]
        /\ Len(states) \in Nat \ {0} /\ states # <<>>
    BY <1>2, ClosePlaces
  <2>2. /\ \A i \in 1..Len(states) : i > 1 => states[i] \in Inner
        /\ states[1] = "DOCUMENT_END"
    BY <2>1, StackFacts
  <2>3. state' \in Inner \cup {"DOCUMENT_END"}
    <3>1. CASE Len(states) = 1
      BY <2>1, <2>2, <3>1
    <3>2. CASE Len(states) > 1
      BY <2>1, <2>2, <3>2
    <3> QED BY <2>1, <3>1, <3>2
  <2>4. state' \notin Between \cup {"STREAM_START"}
    BY <2>3 DEF Inner, FlowStates, BlockStates, Between
  <2>5. /\ state \in Inner /\ tail' \in {"text", tail} /\ open_ended' = open_ended
        /\ written' = written
    BY <1>2 DEF CloseStep
  <2>6. Ended'
    BY <1>0, <2>4, <2>5 DEF Ended, OpenEndedIsClosed, Between
  <2>7. ScalarsAreFaithful'
    BY <1>0, <2>5 DEF ScalarsAreFaithful
  <2> QED BY <2>1, <2>4, <2>6, <2>7 DEF ContextFits, Undirected
<1>3. CASE DocumentStep
  <2>1. written' = written /\ state' \notin Inner
    BY <1>3 DEF DocumentStep, Inner, FlowStates, BlockStates
  <2>2. ScalarsAreFaithful' /\ ContextFits'
    BY <1>0, <2>1, StateSets DEF ScalarsAreFaithful, ContextFits
  <2>3. Undirected'
    BY <1>0, <1>3 DEF DocumentStep, Undirected, Between
  <2>4. Ended'
    BY <1>0, <1>3, <2>1 DEF DocumentStep, Ended, OpenEndedIsClosed, AfterDocument
  <2> QED BY <2>2, <2>3, <2>4
<1> QED
  BY <1>1, <1>2, <1>3

\* Steps that leave everything alone but the queue, the directives and pc.
LEMMA QuietStep ==
    ASSUME Inv, TypeOK',
           UNCHANGED <<state, states, layout, mapping_context, indention, options, text>>,
           tag_directives' \in {tag_directives, <<>>},
           Done' \in Nat, Done' >= Done,
           \/ pc' \notin {"idle", "emitting"}
           \/ /\ pc \in {"idle", "emitting"}
              /\ events # <<>> => events' # <<>> /\ event' = event
    PROVE  Inv'
<1>1. Shaped' /\ Columns' /\ Levels' /\ ContextFits' /\ Ended' /\ ScalarsAreFaithful'
  BY DEF Inv, Shaped, Columns, Levels, ContextFits, Ended, OpenEndedIsClosed,
         ScalarsAreFaithful, Places, layout, text
<1>2. Undirected'
  BY DEF Inv, Undirected
<1>3. Bounded'
  <2>1. /\ Reach \in Nat /\ BestIndent \in 2..9 /\ Done \in Nat
        /\ indent <= Reach /\ \A i \in 1..Len(indents) : indents[i] <= Reach
        /\ flow_level <= Done
    BY ReachFacts DEF Inv, Bounded
  <2>2. \A b \in 2..9, x \in Nat, y \in Nat : x <= y => b * x <= b * y /\ b * y \in Nat
    OBVIOUS
  <2>3. Reach' >= Reach /\ Reach' \in Nat
    BY <2>1, <2>2 DEF Reach
  <2>4. /\ indent \in Int /\ flow_level \in Int
        /\ \A i \in 1..Len(indents) : indents[i] \in Int
    BY IndentFacts, ElementOfSeq DEF Inv, TypeOK
  <2> QED
    BY <2>1, <2>3, <2>4 DEF Bounded, layout
<1>4. Looked'
  <2>1. CASE pc' \notin {"idle", "emitting"}
    BY <2>1 DEF Looked
  <2>2. CASE /\ pc \in {"idle", "emitting"}
             /\ events # <<>> => events' # <<>> /\ event' = event
    BY <2>2 DEF Inv, Looked
  <2> QED BY <2>1, <2>2
<1> QED
  BY <1>1, <1>2, <1>3, <1>4 DEF Inv

\* Initially nothing is open.
LEMMA InitInv == Init => Inv
<1> SUFFICES ASSUME Init PROVE Inv
  OBVIOUS
<1>1. session \in DOMAIN Sessions /\ MaxEvents \in Nat /\ BestIndent \in 2..9
  BY EmitterAssumption DEF Init, MaxEvents
<1>2. /\ <<>> \in Seq(Alphabet) /\ <<>> \in Seq(States) /\ <<>> \in Seq(Int)
      /\ Len(<<>>) = 0
  BY EmptySeq
<1>3. Bounded
  <2>1. given = 0 /\ events = <<>> /\ indent = 0 /\ indents = <<>> /\ flow_level = 0
    BY DEF Init
  <2>2. Done = 0 - 0
    BY <1>2, <2>1, Zenon DEF Done
  <2>3. Done = 0
    BY <2>2
  <2>4. Reach = 0
    BY <1>1, <2>3 DEF Reach
  <2> QED BY <1>2, <2>1, <2>3, <2>4 DEF Bounded
<1>4. TypeOK
  <2>1. state \in States
    BY DEF Init, States
  <2>2. /\ given = 0 /\ indent = 0 /\ flow_level = 0 /\ open_ended = 0
        /\ tail = "marker" /\ pc = "idle"
    BY DEF Init
  <2>3. /\ given \in 0..MaxEvents /\ flow_level \in 0..MaxEvents /\ open_ended \in 0..2
        /\ tail \in {"marker", "open", "text"}
        /\ pc \in {"idle", "emitting", "failed", "refused", "deleted"}
    BY <1>1, <2>2
  <2>4. mapping_context \in BOOLEAN /\ indention \in BOOLEAN /\ canonical \in BOOLEAN
    <3>1. mapping_context = FALSE /\ indention = FALSE /\ canonical \in BOOLEAN
      BY Zenon DEF Init
    <3> QED BY <3>1
  <2>5. events \in Seq(Alphabet) /\ states \in Seq(States)
    BY <1>2 DEF Init
  <2> DEFINE m == BestIndent * MaxEvents
  <2>6. m \in Nat
    BY <1>1
  <2> HIDE DEF m
  <2>7. indent \in -1..m
    BY <2>2, <2>6
  <2>8. indents \in Seq(-1..m)
    BY EmptySeq DEF Init
  <2> QED BY <1>1, <2>1, <2>3, <2>4, <2>5, <2>7, <2>8 DEF TypeOK, m
<1>5. state \notin Inner /\ states = <<>> /\ state = "STREAM_START" /\ indents = <<>>
  BY DEF Init, Inner, FlowStates, BlockStates
<1>6. Shaped /\ Columns /\ ContextFits /\ Undirected
  BY <1>2, <1>5, StateSets DEF Init, Shaped, Columns, ContextFits, Undirected
<1>7. Levels
  <2>1. /\ "STREAM_START" \in States /\ "STREAM_START" \notin FlowStates
    BY DEF States, FlowStates
  <2>2. Places = Append(<<>>, "STREAM_START")
    BY <1>5 DEF Places
  <2>3. Len(Places) = 1
    BY <2>2
  <2>4. FlowIn(Places) = FlowIn(<<>>)
    <3> DEFINE F == FlowStates \ FirstStates
    <3>1. "STREAM_START" \notin F
      BY <2>1
    <3> HIDE DEF F
    <3>2. Count(Append(<<>>, "STREAM_START"), F) = Count(<<>>, F)
      BY <1>2, <2>1, <3>1, CountPush
    <3> QED BY <2>2, <3>2 DEF FlowIn, F
  <2>5. FlowIn(<<>>) = 0
    <3>1. DOMAIN <<>> = {}
      OBVIOUS
    <3>2. {i \in DOMAIN <<>> : <<>>[i] \in FlowStates \ FirstStates} = {}
      BY <3>1
    <3> QED BY <3>2, FS_EmptySet DEF FlowIn, Count
  <2>6. FlowInside(Places)
    BY <2>3 DEF FlowInside
  <2> QED BY <2>4, <2>5, <2>6 DEF Levels, Init
<1>8. Looked
  BY <1>2, <1>5 DEF Looked
<1>9. Ended /\ ScalarsAreFaithful
  BY <1>5 DEF Init, Ended, OpenEndedIsClosed, ScalarsAreFaithful, NoScalar
<1> QED
  BY <1>3, <1>4, <1>6, <1>7, <1>8, <1>9 DEF Inv

\* Every step keeps the invariant.
LEMMA NextInv == Inv /\ [Next]_vars => Inv'
<1> SUFFICES ASSUME Inv, [Next]_vars PROVE Inv'
  OBVIOUS
<1>0. /\ TypeOK /\ Done \in Nat /\ Done >= Done /\ given \in 0..MaxEvents /\ MaxEvents \in Nat
      /\ events \in Seq(Alphabet) /\ Len(events) \in Nat
      /\ pc \in {"idle", "emitting", "failed", "refused", "deleted"}
  BY EmitterAssumption, LenProperties DEF Inv, Bounded, TypeOK, MaxEvents
<1>1. CASE emit_step
  <2>1. /\ pc = "emitting" /\ events # <<>> /\ ~need_more_events
        /\ NodeStep \/ CloseStep \/ DocumentStep \/ Stopped
    BY <1>1, MachineStep
  <2>2. CASE NodeStep \/ CloseStep \/ DocumentStep
    BY <2>1, <2>2, TypedStep, ShapedStep, ColumnsStep, LevelsStep, RestStep, LookedStep DEF Inv
  <2>3. CASE Stopped
    <3>1. /\ pc' = "failed"
          /\ UNCHANGED <<events, state, states, layout, mapping_context, indention,
                         tag_directives, options, given, last, text>>
      BY <2>3 DEF Stopped, set_emitter_error
    <3>2. TypeOK' /\ Done' = Done
      BY <1>0, <3>1 DEF TypeOK, layout, options, text, Alphabet, MaxEvents, Done
    <3> QED BY <1>0, <3>1, <3>2, QuietStep
  <2> QED BY <2>1, <2>2, <2>3
<1>2. CASE emit
  <2>1. /\ pc = "idle" /\ given < MaxEvents /\ given' = given + 1 /\ UNCHANGED rest
        /\ \/ \E e \in Alphabet : events' = Append(events, e) /\ pc' = "emitting"
           \/ pc' = "refused" /\ UNCHANGED events
    BY <1>2 DEF emit
  <2>2. UNCHANGED <<state, states, layout, mapping_context, indention, tag_directives,
                    options, text>>
    BY <2>1 DEF rest
  <2>3. MaxEvents' = MaxEvents /\ Alphabet' = Alphabet /\ given' \in 0..MaxEvents
    BY <1>0, <2>1, <2>2 DEF MaxEvents, Alphabet, options
  <2>4. CASE \E e \in Alphabet : events' = Append(events, e) /\ pc' = "emitting"
    <3>1. PICK e \in Alphabet : events' = Append(events, e) /\ pc' = "emitting"
      BY <2>4
    <3>2. events' \in Seq(Alphabet) /\ events' # <<>> /\ Len(events') = Len(events) + 1
      BY <1>0, <3>1, PushPop
    <3>3. events # <<>> => event' = event
      <4>1. events # <<>> => Head(Append(events, e)) = Head(events)
        BY <1>0, HeadTailAppend
      <4> QED BY <3>1, <4>1 DEF event
    <3>4. TypeOK'
      BY <1>0, <2>2, <2>3, <3>1, <3>2 DEF TypeOK, layout, options, text
    <3>5. Done' = Done
      BY <1>0, <2>1, <3>2 DEF Done
    <3> QED BY <1>0, <2>1, <2>2, <3>1, <3>2, <3>3, <3>4, <3>5, QuietStep
  <2>5. CASE pc' = "refused" /\ UNCHANGED events
    <3>1. TypeOK'
      BY <1>0, <2>2, <2>3, <2>5 DEF TypeOK, layout, options, text
    <3>2. Done' = Done + 1
      BY <1>0, <2>1, <2>5 DEF Done
    <3>3. Done' \in Nat /\ Done' >= Done
      BY <1>0, <3>2
    <3> QED BY <2>2, <2>5, <3>1, <3>3, QuietStep
  <2> QED BY <2>1, <2>4, <2>5
<1>3. CASE emit_return \/ UNCHANGED vars
  <2>1. /\ UNCHANGED <<events, given, state, states, layout, mapping_context, indention,
                       tag_directives, options, text>>
        /\ pc' = pc \/ (pc = "emitting" /\ pc' = "idle")
    BY <1>3 DEF emit_return, rest, vars
  <2>2. TypeOK' /\ Done' = Done /\ event' = event
    BY <1>0, <2>1 DEF TypeOK, layout, options, text, Alphabet, MaxEvents, Done, event
  <2> QED BY <1>0, <2>1, <2>2, QuietStep
<1>4. CASE emit_failed
  <2>1. /\ pc' = "failed"
        /\ UNCHANGED <<events, state, states, layout, mapping_context, indention,
                       tag_directives, options, given, last, text>>
    BY <1>4 DEF emit_failed, set_emitter_error
  <2>2. TypeOK' /\ Done' = Done
    BY <1>0, <2>1 DEF TypeOK, layout, options, text, Alphabet, MaxEvents, Done
  <2> QED BY <1>0, <2>1, <2>2, QuietStep
<1>5. CASE yaml_emitter_delete
  <2>1. /\ pc' = "deleted" /\ events' = <<>> /\ tag_directives' = <<>>
        /\ UNCHANGED <<state, states, layout, mapping_context, indention, options,
                       given, last, text>>
    BY <1>5 DEF yaml_emitter_delete
  <2>2. /\ <<>> \in Seq(Alphabet) /\ Len(<<>>) = 0
    BY EmptySeq
  <2>3. TypeOK'
    BY <1>0, <2>1, <2>2 DEF TypeOK, layout, options, text, Alphabet, MaxEvents
  <2>4. Done' \in Nat /\ Done' >= Done
    BY <1>0, <2>1, <2>2 DEF Done
  <2> QED BY <2>1, <2>3, <2>4, QuietStep
<1> QED
  BY <1>1, <1>2, <1>3, <1>4, <1>5 DEF Next

-----------------------------------------------------------------------------
(* The theorems.                                                           *)

\* In every reachable state of the emitter the inductive invariant holds.
THEOREM EmitterInvariant == Spec => []Inv
BY InitInv, NextInv, PTL DEF Spec

\* Inside the document every collection has the column that its nesting says
\* (yaml_emitter_increase_indent and the POPs of the indents).
THEOREM IndentsAreNested == Spec => []IndentsFollowNesting
<1>1. Inv => IndentsFollowNesting
  <2> SUFFICES ASSUME Inv PROVE IndentsFollowNesting
    OBVIOUS
  <2>1. TypeOK /\ Columns
    BY DEF Inv
  <2>2. Len(Places) = Len(states) + 1 /\ Len(Append(indents, indent)) = Len(indents) + 1
    <3>1. states \in Seq(States) /\ state \in States
      BY <2>1 DEF TypeOK
    <3>2. Len(Places) = Len(states) + 1
      BY <3>1, PushPop DEF Places
    <3>3. Len(Append(indents, indent)) = Len(indents) + 1
      BY IndentFacts
    <3> QED BY <3>2, <3>3
  <2>3. Len(states) \in Nat
    BY <2>1, LenProperties DEF TypeOK
  <2>4. ASSUME state # "STREAM_START"
        PROVE  /\ Len(Append(indents, indent)) =
                     Len(Places) - (IF state \in FirstStates THEN 1 ELSE 0)
               /\ ColumnsFit(Places, Append(indents, indent))
    BY <2>1, <2>2, <2>3, <2>4 DEF Columns
  <2> QED
    BY <2>1, <2>4 DEF IndentsFollowNesting, ColumnsFit
<1> QED
  BY <1>1, EmitterInvariant, PTL

\* flow_level is the number of flow collections that are open, and no block
\* collection is in one (flow_level, yaml_emitter_emit_sequence_start and
\* yaml_emitter_emit_mapping_start).
THEOREM FlowLevelIsExact == Spec => []FlowLevelCounts
<1>1. Inv => FlowLevelCounts
  <2> SUFFICES ASSUME Inv PROVE FlowLevelCounts
    OBVIOUS
  <2>1. Places \in Seq(States)
    BY PushPop DEF Inv, TypeOK, Places
  <2>2. DOMAIN Places = 1..Len(Places)
    BY <2>1, LenProperties
  <2>3. Levels
    BY DEF Inv
  <2> QED
    BY <2>2, <2>3 DEF FlowLevelCounts, Levels, FlowIn, FlowInside, Count
<1> QED
  BY <1>1, EmitterInvariant, PTL

\* The events that need_more_events waits for are enough for the handlers:
\* check_empty_sequence, check_empty_mapping and check_simple_key have seen
\* what they decide on, and it is still there when it is handled.
THEOREM LookaheadIsEnough == Spec => []LookaheadSuffices
<1>1. Inv => LookaheadSuffices
  <2> SUFFICES ASSUME Inv PROVE LookaheadSuffices
    OBVIOUS
  <2>1. DOMAIN states = 1..Len(states)
    BY LenProperties DEF Inv, TypeOK
  <2>2. Looked
    BY DEF Inv
  <2> QED
    BY <2>1, <2>2 DEF LookaheadSuffices, Looked
<1> QED
  BY <1>1, EmitterInvariant, PTL

\* Between two documents the stacks are empty, the indent is that of a fresh
\* document and no tag directive is left (yaml_emitter_emit_document_end).
THEOREM DocumentsLeaveNothing == Spec => []NothingOutlivesDocument
<1>1. Inv => NothingOutlivesDocument
  <2> SUFFICES ASSUME Inv, state \in Between
               PROVE  /\ states = <<>> /\ indents = <<>> /\ tag_directives = <<>>
                      /\ indent = -1 /\ flow_level = 0
    BY DEF NothingOutlivesDocument
  <2>1. state \notin Inner /\ state # "STREAM_START" /\ state \notin FirstStates
    BY DEF Between, Inner, FlowStates, BlockStates, FirstStates
  <2>2. states = <<>> /\ tag_directives = <<>>
    BY <2>1 DEF Inv, Shaped, Undirected
  <2>3. Len(states) = 0 /\ Len(<<>>) = 0
    BY <2>2, EmptySeq
  <2>4. Len(indents) = 0 /\ ColumnsFit(Places, Append(indents, indent))
    BY <2>1, <2>3 DEF Inv, Columns
  <2>5. indents = <<>>
    BY <2>4, IndentFacts, EmptySeq
  <2>6. Append(indents, indent)[1] = -1
    BY <2>4 DEF ColumnsFit
  <2>7. indent = -1
    BY <2>4, <2>6, IndentFacts
  <2>8. flow_level = 0
    <3> DEFINE F == FlowStates \ FirstStates
    <3>1. state \notin F /\ state \in States
      BY <2>1 DEF Inner, Inv, TypeOK
    <3> HIDE DEF F
    <3>2. <<>> \in Seq(States) /\ DOMAIN <<>> = {}
      BY EmptySeq
    <3>3. Count(Append(<<>>, state), F) = Count(<<>>, F)
      BY <3>1, <3>2, CountPush
    <3>4. {i \in DOMAIN <<>> : <<>>[i] \in F} = {}
      BY <3>2
    <3>5. Count(<<>>, F) = 0
      BY <3>4, FS_EmptySet DEF Count
    <3>6. flow_level = Count(Append(<<>>, state), F)
      BY <2>2 DEF Inv, Levels, FlowIn, Places, F
    <3> QED BY <3>3, <3>5, <3>6
  <2> QED
    BY <2>2, <2>5, <2>7, <2>8
<1> QED
  BY <1>1, EmitterInvariant, PTL

\* open_ended tells after every document whether "..." is missing, and the
\* stream does not end in a scalar whose trailing breaks count
\* (yaml_emitter_emit_document_start, yaml_emitter_emit_document_end).
THEOREM OpenEndIsClosed == Spec => []OpenEndedIsClosed
<1>1. Inv => OpenEndedIsClosed
  BY DEF Inv, Ended
<1> QED
  BY <1>1, EmitterInvariant, PTL

\* The style and the tag that are written tell the reader what the event said
\* (yaml_emitter_select_scalar_style, yaml_emitter_process_scalar).
THEOREM ScalarsKeepTheirMeaning == Spec => []ScalarsAreFaithful
<1>1. Inv => ScalarsAreFaithful
  BY DEF Inv
<1> QED
  BY <1>1, EmitterInvariant, PTL

-----------------------------------------------------------------------------
(* The events that are handled form a stream of events.                    *)

FrameNames == {"stream", "docs", "docend", "done", "seq", "key", "value"}

\* The frame a state that is not the root's stands for, and those of the stack.
Top(st) == FrameOf(st)[1]
Below(sts) == [i \in 1..Len(sts) |-> Top(sts[i])]

\* Every state but that of the root stands for one frame.
LEMMA FrameKinds ==
    /\ \A st : Top(st) \in FrameNames
    /\ \A st : st # "DOCUMENT_CONTENT" => FrameOf(st) = <<Top(st)>>
    /\ FrameOf("DOCUMENT_CONTENT") = <<"docend", "node">>
    /\ Top("STREAM_START") = "stream" /\ Top("END") = "done"
    /\ Top("FIRST_DOCUMENT_START") = "docs" /\ Top("DOCUMENT_START") = "docs"
    /\ Top("DOCUMENT_END") = "docend"
    /\ \A st \in SequenceStates : Top(st) = "seq"
    /\ Top("FLOW_MAPPING_FIRST_KEY") = "key" /\ Top("BLOCK_MAPPING_FIRST_KEY") = "key"
    /\ \A st \in Inner : Top(st) \in {"seq", "key", "value"}
BY DEF Top, FrameOf, FrameNames, SequenceStates, Inner, FlowStates, BlockStates

\* The frames of a stack of states.
LEMMA BelowType ==
    ASSUME NEW sts \in Seq(States)
    PROVE  Below(sts) \in Seq(FrameNames) /\ Len(Below(sts)) = Len(sts)
<1>1. Len(sts) \in Nat
  BY LenProperties
<1>2. Below(sts) \in [1..Len(sts) -> FrameNames]
  BY FrameKinds DEF Below
<1> QED
  BY <1>1, <1>2

\* The frames of the root of a document.
LEMMA RootFrames ==
    /\ Below(<<>>) = <<>>
    /\ <<>> \o FrameOf("DOCUMENT_CONTENT") = <<"docend", "node">>
    /\ Append(<<>>, "docend") = <<"docend">>
    /\ Append(Append(<<>>, "docend"), "node") = <<"docend", "node">>
    /\ Front(<<"docend", "node">>) = <<"docend">>
    /\ Last(<<"docend", "node">>) = "node"
<1>1. Below(<<>>) = <<>>
  BY EmptySeq DEF Below
<1> DEFINE r == <<"docend", "node">>
           d == <<"docend">>
<1>2. r \in Seq({"docend", "node"}) /\ d \in Seq({"docend", "node"})
  OBVIOUS
<1>3. Append(<<>>, "docend") = d /\ Append(d, "node") = r
  <2> DEFINE S == {"docend", "node"}
             e == Append(<<>>, "docend")
             n == Append(d, "node")
  <2>1. /\ Len(d) = 1 /\ d[1] = "docend"
        /\ Len(r) = 2 /\ r[1] = "docend" /\ r[2] = "node"
        /\ "docend" \in S /\ "node" \in S
    OBVIOUS
  <2>2. <<>> \in Seq(S) /\ Len(<<>>) = 0
    BY EmptySeq
  <2> HIDE DEF S, r, d
  <2>3. r \in Seq(S) /\ d \in Seq(S)
    BY <1>2 DEF S
  <2>4. e \in Seq(S) /\ Len(e) = 0 + 1 /\ e[0 + 1] = "docend"
    BY <2>1, <2>2, PushPop
  <2>5. n \in Seq(S) /\ Len(n) = 1 + 1 /\ n[1 + 1] = "node" /\ n[1] = "docend"
    <3>1. /\ n \in Seq(S) /\ Len(n) = Len(d) + 1 /\ n[Len(d) + 1] = "node"
          /\ \A i \in 1..Len(d) : n[i] = d[i]
      <4> HIDE DEF n
      <4>1. n = Append(d, "node")
        BY DEF n
      <4>2. "node" \in S
        BY <2>1
      <4> QED BY <2>3, <4>1, <4>2, PushPop
    <3> HIDE DEF n
    <3>2. 1 \in 1..Len(d)
      BY <2>1
    <3>3. n[1] = d[1]
      BY <3>1, <3>2
    <3>4. Len(n) = 1 + 1 /\ n[1 + 1] = "node"
      BY <2>1, <3>1
    <3> QED BY <2>1, <3>1, <3>3, <3>4
  <2> HIDE DEF e, n
  <2>6. e = d
    <3>1. Len(e) = Len(d) /\ \A i \in 1..Len(e) : e[i] = d[i]
      BY <2>1, <2>4
    <3> QED BY <2>3, <2>4, <3>1, SeqEqual
  <2>7. n = r
    <3>1. Len(n) = Len(r) /\ \A i \in 1..Len(n) : n[i] = r[i]
      BY <2>1, <2>5
    <3> QED BY <2>3, <2>5, <3>1, SeqEqual
  <2> QED BY <2>6, <2>7 DEF e, n
<1>4. FrameOf("DOCUMENT_CONTENT") = r
  BY FrameKinds
<1> HIDE DEF r, d
<1>5. <<>> \o r = r
  BY <1>2, ConcatEmptySeq
<1>6. Front(Append(d, "node")) = d /\ Last(Append(d, "node")) = "node"
  BY <1>2, PushPop
<1> QED
  BY <1>1, <1>3, <1>4, <1>5, <1>6 DEF r, d

\* The frames of a state on a stack of states.
LEMMA FramesFacts ==
    ASSUME NEW sts \in Seq(States), NEW st, st # "DOCUMENT_CONTENT"
    PROVE  /\ Below(sts) \o FrameOf(st) = Append(Below(sts), Top(st))
           /\ Front(Append(Below(sts), Top(st))) = Below(sts)
           /\ Last(Append(Below(sts), Top(st))) = Top(st)
<1>1. Below(sts) \in Seq(FrameNames)
  BY BelowType
<1>2. FrameOf(st) = <<Top(st)>> /\ Top(st) \in FrameNames
  BY FrameKinds
<1>3. Below(sts) \o <<Top(st)>> = Append(Below(sts), Top(st))
  BY <1>1, <1>2
<1> QED
  BY <1>1, <1>2, <1>3, PushPop

\* PUSH(states) adds a frame.
LEMMA BelowPush ==
    ASSUME NEW sts \in Seq(States), NEW st \in States
    PROVE  Below(Append(sts, st)) = Append(Below(sts), Top(st))
<1> DEFINE s == Append(sts, st)  b == Below(s)  c == Append(Below(sts), Top(st))
<1>1. /\ s \in Seq(States) /\ Len(s) = Len(sts) + 1
      /\ \A i \in 1..Len(sts) : s[i] = sts[i]
      /\ s[Len(sts) + 1] = st
      /\ Len(sts) \in Nat
  BY PushPop, LenProperties
<1>2. /\ b \in Seq(FrameNames) /\ Len(b) = Len(s)
      /\ Below(sts) \in Seq(FrameNames) /\ Len(Below(sts)) = Len(sts)
  BY <1>1, BelowType
<1>3. /\ c \in Seq(FrameNames) /\ Len(c) = Len(sts) + 1
      /\ \A i \in 1..Len(sts) : c[i] = Below(sts)[i]
      /\ c[Len(sts) + 1] = Top(st)
  BY <1>2, FrameKinds, PushPop
<1>4. /\ \A i \in 1..Len(sts) : Below(sts)[i] = Top(sts[i])
      /\ \A i \in 1..Len(s) : b[i] = Top(s[i])
  BY DEF Below
<1> HIDE DEF s, b, c
<1>5. \A i \in 1..Len(b) : b[i] = c[i]
  <2> TAKE i \in 1..Len(b)
  <2>1. CASE i = Len(sts) + 1
    BY <1>1, <1>2, <1>3, <1>4, <2>1
  <2>2. CASE i \in 1..Len(sts)
    BY <1>1, <1>2, <1>3, <1>4, <2>2
  <2> QED
    BY <1>1, <1>2, <2>1, <2>2
<1>6. b = c
  BY <1>1, <1>2, <1>3, <1>5, SeqEqual
<1> QED
  BY <1>6 DEF b, c, s

\* Every event that is handled is one the frames allow.
LEMMA StepRefines ==
    ASSUME Inv, NodeStep \/ CloseStep \/ DocumentStep
    PROVE  Stream!StreamNext
<1>1. states \in Seq(States) /\ state \in States /\ Shaped
  BY DEF Inv, TypeOK
<1>2. ASSUME state # "DOCUMENT_CONTENT"
      PROVE  /\ FramesOf = Append(Below(states), Top(state))
             /\ Stream!Last(FramesOf) = Top(state)
             /\ Stream!Front(FramesOf) = Below(states)
  BY <1>1, <1>2, FramesFacts DEF FramesOf, Below, Top, Last, Front, Stream!Last, Stream!Front
<1>3. ASSUME state' # "DOCUMENT_CONTENT", states' \in Seq(States)
      PROVE  FramesOf' = Append(Below(states'), Top(state'))
  BY <1>3, FramesFacts DEF FramesOf, Below, Top
<1>4. /\ FramesOf = Below(states) \o FrameOf(state)
      /\ FramesOf' = Below(states') \o FrameOf(state')
  BY DEF FramesOf, Below, Top
<1>5. CASE NodeStep
  <2>1. PICK resume \in States \ FirstStates :
           Follows(resume) /\ (Leaf(resume) \/ Start(resume, flow_level')) /\ Handled
    BY <1>5 DEF NodeStep
  <2>2. /\ Stream!Last(FramesOf) \in Stream!NodeFrames
        /\ Stream!AfterNode(FramesOf) = Append(Below(states), Top(resume))
    <3>1. CASE state = "DOCUMENT_CONTENT" /\ resume = "DOCUMENT_END"
      <4>1. states = <<>>
        BY <1>1, <3>1 DEF Shaped, Inner, FlowStates, BlockStates
      <4>2. FramesOf = <<"docend", "node">>
        BY <1>4, <3>1, <4>1, RootFrames, Zenon
      <4>3. Stream!Last(FramesOf) = "node" /\ Stream!Front(FramesOf) = <<"docend">>
        BY <4>2, RootFrames, Zenon DEF Stream!Last, Stream!Front, Last, Front
      <4>4. Append(Below(states), Top(resume)) = <<"docend">>
        BY <3>1, <4>1, FrameKinds, RootFrames, Zenon
      <4> QED BY <4>3, <4>4 DEF Stream!NodeFrames, Stream!AfterNode
    <3>2. CASE /\ state \in Inner
               /\ resume \in Inner \ FirstStates
               /\ FrameOf(resume) = <<Stream!Followed(FrameOf(state)[1])>>
      <4>1. state # "DOCUMENT_CONTENT" /\ Top(state) \in {"seq", "key", "value"}
        BY <3>2, StateSets, FrameKinds
      <4>2. Top(resume) = Stream!Followed(Top(state))
        BY <3>2 DEF Top
      <4> QED BY <1>2, <4>1, <4>2 DEF Stream!NodeFrames, Stream!AfterNode
    <3> QED BY <2>1, <3>1, <3>2 DEF Follows
  <2>3. CASE Leaf(resume)
    <3>1. resume # "DOCUMENT_CONTENT"
      BY <2>1 DEF Follows, Inner, FlowStates, BlockStates
    <3>2. FramesOf' = Append(Below(states), Top(resume))
      BY <1>1, <1>3, <2>3, <3>1 DEF Leaf
    <3>3. last' \in {"SCALAR", "ALIAS"}
      BY <2>1, <2>3 DEF Leaf, Handled
    <3> QED BY <2>2, <3>2, <3>3 DEF Stream!StreamNext, Stream!Leaf
  <2>4. CASE Start(resume, flow_level')
    <3>1. /\ states' = Append(states, resume) /\ states' \in Seq(States)
          /\ Below(states') = Append(Below(states), Top(resume))
      BY <1>1, <2>4, BelowPush, PushPop DEF Start
    <3>2. \/ Top(state') = "seq" /\ last' = "SEQUENCE_START"
          \/ Top(state') = "key" /\ last' = "MAPPING_START"
      BY <2>1, <2>4, FrameKinds DEF Start, Handled, SequenceStates
    <3>3. state' # "DOCUMENT_CONTENT"
      BY <2>4 DEF Start
    <3>4. FramesOf' = Append(Append(Below(states), Top(resume)), Top(state'))
      BY <1>3, <3>1, <3>3
    <3> QED BY <2>2, <3>2, <3>4 DEF Stream!StreamNext, Stream!CollectionStart
  <2> QED BY <2>1, <2>3, <2>4
<1>6. CASE CloseStep
  <2>1. /\ state \in Inner /\ state' = Last(states) /\ states' = Front(states)
        /\ last' = event.type
        /\ \/ event.type = "SEQUENCE_END" /\ state \in SequenceStates
           \/ event.type = "MAPPING_END" /\ FrameOf(state) = <<"key">>
    BY <1>6 DEF CloseStep, Handled
  <2>2. states # <<>> /\ state # "DOCUMENT_CONTENT"
    BY <1>1, <2>1, StateSets DEF Shaped
  <2>3. /\ states' \in Seq(States) /\ state' \in States
        /\ Append(states', state') = states
    BY <1>1, <2>1, <2>2, PopFacts, PopPush
  <2>4. state' # "DOCUMENT_CONTENT"
    <3>1. /\ state' \in Inner \/ states' = <<>>
          /\ states' = <<>> => state' = "DOCUMENT_END"
      <4>1. /\ state' = states[Len(states)] /\ Len(states) \in Nat \ {0}
            /\ Len(states') = Len(states) - 1
        BY <1>1, <2>1, <2>2, PopFacts
      <4>2. states[1] = "DOCUMENT_END" /\ \A i \in 2..Len(states) : states[i] \in Inner
        BY <1>1, <2>2 DEF Shaped
      <4>3. CASE Len(states) = 1
        <5>1. Len(states') = 0
          BY <4>1, <4>3
        <5> QED BY <2>3, <4>1, <4>2, <4>3, <5>1, EmptySeq
      <4>4. CASE Len(states) >= 2
        <5>1. Len(states) \in 2..Len(states) /\ Len(states') > 0
          BY <4>1, <4>4
        <5>2. states' # <<>>
          BY <5>1, EmptySeq
        <5> QED BY <4>1, <4>2, <5>1, <5>2
      <4>5. \A k \in Nat \ {0} : k >= 2 \/ k = 1
        OBVIOUS
      <4> QED BY <4>1, <4>3, <4>4, <4>5
    <3> QED BY <3>1, StateSets
  <2>5. FramesOf' = Below(states)
    <3>1. FramesOf' = Append(Below(states'), Top(state'))
      BY <1>3, <2>3, <2>4
    <3>2. Below(Append(states', state')) = Append(Below(states'), Top(state'))
      BY <2>3, BelowPush
    <3> QED BY <2>3, <3>1, <3>2
  <2>6. \/ Top(state) = "seq" /\ last' = "SEQUENCE_END"
        \/ Top(state) = "key" /\ last' = "MAPPING_END"
    BY <2>1, FrameKinds DEF Top
  <2> QED
    BY <1>2, <2>2, <2>5, <2>6 DEF Stream!StreamNext, Stream!CollectionEnd
<1>7. CASE DocumentStep
  <2>1. states' = states /\ last' = event.type
    BY <1>7 DEF DocumentStep, Handled
  <2>2. CASE /\ state \in {"FIRST_DOCUMENT_START", "DOCUMENT_START"}
             /\ event.type = "DOCUMENT_START" /\ state' = "DOCUMENT_CONTENT"
    <3>1. states = <<>>
      BY <1>1, <2>2 DEF Shaped, Inner, FlowStates, BlockStates
    <3>2. FramesOf' = <<"docend", "node">>
      BY <1>4, <2>1, <2>2, <3>1, RootFrames, Zenon
    <3>3. Stream!Last(FramesOf) = "docs" /\ Stream!Front(FramesOf) = <<>>
      BY <1>2, <2>2, <3>1, FrameKinds, RootFrames
    <3>4. <<"docend", "node">> = Append(Append(<<>>, "docend"), "node")
      BY RootFrames
    <3> QED BY <2>1, <2>2, <3>2, <3>3, <3>4 DEF Stream!StreamNext, Stream!DocumentStart
  <2>3. CASE \/ state = "STREAM_START" /\ state' = "FIRST_DOCUMENT_START"
                /\ event.type = "STREAM_START"
             \/ state \in {"FIRST_DOCUMENT_START", "DOCUMENT_START"} /\ state' = "END"
                /\ event.type = "STREAM_END"
             \/ state = "DOCUMENT_END" /\ state' = "DOCUMENT_START"
                /\ event.type = "DOCUMENT_END"
    <3>1. state # "DOCUMENT_CONTENT" /\ state' # "DOCUMENT_CONTENT"
      BY <2>3
    <3>2. FramesOf' = Append(Below(states), Top(state'))
      BY <1>1, <1>3, <2>1, <3>1
    <3>3. Stream!Last(FramesOf) = Top(state) /\ Stream!Front(FramesOf) = Below(states)
      BY <1>2, <3>1
    <3> QED
      BY <2>1, <2>3, <3>2, <3>3, FrameKinds
         DEF Stream!StreamNext, Stream!StreamStart, Stream!StreamEnd, Stream!DocumentEnd,
             Stream!Replace
  <2> QED
    BY <1>7, <2>2, <2>3 DEF DocumentStep
<1> QED
  BY <1>5, <1>6, <1>7

\* Whatever the application passes, in whatever order, the events that become
\* text follow EventStream, the same specification that yaml_parser_parse's
\* events follow: yaml_emitter_state_machine refuses the others.
THEOREM EmitterRefinesEventStream == Spec => AcceptsEventStream
<1>1. Init => Stream!StreamInit
  <2> SUFFICES ASSUME Init PROVE Stream!StreamInit
    OBVIOUS
  <2>1. states = <<>> /\ state = "STREAM_START" /\ last = "NO"
    BY DEF Init
  <2>2. FrameOf("STREAM_START") = <<"stream">>
    BY FrameKinds
  <2>3. Below(<<>>) = <<>>
    BY EmptySeq DEF Below
  <2>4. FramesOf = <<>> \o <<"stream">>
    BY <2>1, <2>2, <2>3 DEF FramesOf, Below, Top
  <2> QED
    BY <2>1, <2>4 DEF Stream!StreamInit
<1>2. Inv /\ [Next]_vars => [Stream!StreamNext]_<<FramesOf, last>>
  <2> SUFFICES ASSUME Inv, [Next]_vars
               PROVE  [Stream!StreamNext]_<<FramesOf, last>>
    OBVIOUS
  <2>1. ASSUME UNCHANGED <<state, states, last>>
        PROVE  UNCHANGED <<FramesOf, last>>
    BY <2>1 DEF FramesOf
  <2>2. CASE emit_step
    <3>1. NodeStep \/ CloseStep \/ DocumentStep \/ Stopped
      BY <2>2, MachineStep
    <3>2. CASE Stopped
      BY <2>1, <3>2 DEF Stopped, set_emitter_error
    <3> QED BY <3>1, <3>2, StepRefines
  <2>3. CASE emit \/ emit_return \/ emit_failed \/ yaml_emitter_delete \/ UNCHANGED vars
    BY <2>1, <2>3 DEF emit, emit_return, emit_failed, yaml_emitter_delete, set_emitter_error,
                      rest, vars
  <2> QED
    BY <2>2, <2>3 DEF Next
<1> QED
  BY <1>1, <1>2, EmitterInvariant, PTL
     DEF Spec, AcceptsEventStream, Stream!StreamSpec, Stream!streamVars

=============================================================================

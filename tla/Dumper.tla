------------------------------- MODULE Dumper -------------------------------
(***************************************************************************)
(* The dumper (dumper.c): it turns a document, a graph of nodes that the   *)
(* application builds with yaml_document_add_scalar and the other          *)
(* functions of api.c, into the events of a tree with anchors and aliases, *)
(* and hands the strings of the nodes over to the emitter while it goes.   *)
(* Each call of yaml_emitter_emit may fail, and so may each allocation.    *)
(*                                                                         *)
(* The recursions of anchor_node and dump_node are worked off from `todo`  *)
(* and `open`.  What is on the heap is named by its kind and the node it   *)
(* belongs to, 0 if it belongs to the document.  A call that fails is the  *)
(* last one: an emitter is of no use after that but to be deleted.         *)
(***************************************************************************)
EXTENDS Integers, Sequences, SequencesExt, FiniteSets

CONSTANTS
    MaxNodes,       \* bound: nodes of a document
    MaxItems        \* bound: items of a sequence, keys and values of a mapping

ASSUME DumperAssumption == MaxNodes \in Nat /\ MaxItems \in Nat

VARIABLES
    exists,         \* there is a document the application owns
    nodes,          \* its nodes: [kind, items], keys and values in turn
    heap,           \* blocks the document, or the call, owns
    bad_free,       \* history: a block was freed or handed over by a non-owner
    opened, closed, \* of the emitter
    pc,             \* where the call of yaml_emitter_dump is
    references,     \* of anchors: [node -> how often anchor_node came by]
    anchors,        \* of anchors: [node -> anchor, 0 if none]
    serialized,     \* of anchors: set of nodes
    last_anchor_id,
    todo,           \* nodes anchor_node has yet to look at, first one next
    open,           \* collections dump_node is in: [node, next], innermost last
    events,         \* history: events of this document
    event,          \* type of the last event, "NO" if there was none
    failed          \* a call has returned 0

document == <<exists, nodes>>
tables == <<references, anchors, serialized, last_anchor_id, todo, open>>
vars == <<exists, nodes, heap, bad_free, opened, closed, pc, references, anchors,
          serialized, last_anchor_id, todo, open, events, event, failed>>

Kinds == {"SCALAR", "SEQUENCE", "MAPPING"}
Indexes == 1 .. Len(nodes)

Init ==
    /\ exists = FALSE /\ nodes = <<>>
    /\ heap = {} /\ bad_free = FALSE
    /\ opened = FALSE /\ closed = FALSE
    /\ pc = "idle"
    /\ references = <<>> /\ anchors = <<>> /\ serialized = {} /\ last_anchor_id = 0
    /\ todo = <<>> /\ open = <<>>
    /\ events = <<>> /\ event = "NO"
    /\ failed = FALSE

-----------------------------------------------------------------------------
(* Building a document (api.c).  A call that fails for want of memory      *)
(* frees its copies and changes nothing.                                   *)

\* What belongs to node i of the document, beside its tag.
BlocksOf(kind, i) == {<<"tag", i>>, IF kind = "SCALAR" THEN <<"value", i>> ELSE <<"items", i>>}
DirectiveBlocks == {<<"version", 0>>, <<"directives", 0>>}

building == pc = "idle" /\ ~ failed

document_initialize(directives) ==
    /\ building /\ ~ exists
    /\ exists' = TRUE
    /\ nodes' = <<>>
    /\ heap' = {<<"nodes", 0>>} \cup (IF directives THEN DirectiveBlocks ELSE {})
    /\ UNCHANGED <<bad_free, opened, closed, pc, tables, events, event, failed>>

add_node(kind) ==
    /\ building /\ exists /\ Len(nodes) < MaxNodes
    /\ nodes' = Append(nodes, [kind |-> kind, items |-> <<>>])
    /\ heap' = heap \cup BlocksOf(kind, Len(nodes) + 1)
    /\ UNCHANGED <<exists, bad_free, opened, closed, pc, tables, events, event, failed>>

\* append_sequence_item, with one index, and append_mapping_pair, with two.
Append_to(kind, i, added) ==
    /\ building /\ exists
    /\ nodes[i].kind = kind
    /\ Len(nodes[i].items) + Len(added) <= MaxItems
    /\ nodes' = [nodes EXCEPT ![i].items = @ \o added]
    /\ UNCHANGED <<exists, heap, bad_free, opened, closed, pc, tables, events, event, failed>>

append_sequence_item(sequence, item) == Append_to("SEQUENCE", sequence, <<item>>)
append_mapping_pair(mapping, key, value) == Append_to("MAPPING", mapping, <<key, value>>)

\* Blocks that are freed must be there.
Free(blocks) ==
    /\ heap' = heap \ blocks
    /\ bad_free' = (bad_free \/ ~ blocks \subseteq heap)

\* Everything a document consists of (free(NULL) is harmless).
WholeDocument ==
    {<<"nodes", 0>>} \cup (DirectiveBlocks \cap heap)
    \cup UNION {BlocksOf(nodes[i].kind, i) : i \in Indexes}

document_delete ==
    /\ building /\ exists
    /\ Free(WholeDocument)
    /\ exists' = FALSE /\ nodes' = <<>>
    /\ UNCHANGED <<opened, closed, pc, tables, events, event, failed>>

-----------------------------------------------------------------------------
(* yaml_emitter_open, yaml_emitter_close and yaml_emitter_dump.            *)

\* yaml_emitter_emit: the event and its strings are the emitter's from now on,
\* and deleted with the event also when it fails.
Emit(type, node, anchor, blocks) ==
    /\ Free(blocks)
    /\ event' = type
    /\ events' = Append(events, [type |-> type, node |-> node, anchor |-> anchor])

EmitFails(blocks) ==
    /\ Free(blocks)
    /\ event' = "NO"
    /\ failed' = TRUE
    /\ UNCHANGED events

emitter_open(ok) ==
    /\ building /\ ~ opened
    /\ opened' = ok /\ failed' = ~ ok
    /\ event' = IF ok THEN "STREAM_START" ELSE "NO"
    /\ UNCHANGED <<document, heap, bad_free, closed, pc, tables, events>>

emitter_close(ok) ==
    /\ building /\ opened /\ ~ closed
    /\ closed' = ok /\ failed' = ~ ok
    /\ event' = IF ok THEN "STREAM_END" ELSE "NO"
    /\ UNCHANGED <<document, heap, bad_free, opened, pc, tables, events>>

emitter_dump ==
    /\ building /\ exists
    /\ pc' = IF opened THEN "start" ELSE "open"
    /\ UNCHANGED <<document, heap, bad_free, opened, closed, tables, events, event, failed>>

dump_open(ok) ==
    /\ pc = "open"
    /\ opened' = ok /\ failed' = ~ ok
    /\ event' = IF ok THEN "STREAM_START" ELSE "NO"
    /\ pc' = IF ok THEN "start" ELSE "delete"
    /\ UNCHANGED <<document, heap, bad_free, closed, tables, events>>

\* A document without nodes ends the stream, if it has not ended.
dump_nothing(ok) ==
    /\ pc = "start" /\ nodes = <<>>
    /\ closed => ok
    /\ closed' = ok /\ failed' = ~ ok
    /\ event' = IF ok THEN "STREAM_END" ELSE "NO"
    /\ pc' = "delete"
    /\ UNCHANGED <<document, heap, bad_free, opened, tables, events>>

dump_anchors(ok) ==
    /\ pc = "start" /\ nodes # <<>>
    /\ IF ok
       THEN /\ heap' = heap \cup {<<"anchors", 0>>}
            /\ references' = [i \in Indexes |-> 0]
            /\ anchors' = [i \in Indexes |-> 0]
            /\ pc' = "document start"
            /\ UNCHANGED failed
       ELSE /\ failed' = TRUE
            /\ pc' = "delete"
            /\ UNCHANGED <<heap, references, anchors>>
    /\ UNCHANGED <<document, bad_free, opened, closed, serialized, last_anchor_id, todo,
                   open, events, event>>

dump_document_start ==
    /\ pc = "document start"
    /\ \/ /\ ~ closed      \* the emitter takes nothing after STREAM-END
          /\ Emit("DOCUMENT_START", 0, 0, DirectiveBlocks \cap heap)
          /\ todo' = <<1>>
          /\ pc' = "anchor"
          /\ UNCHANGED failed
       \/ /\ EmitFails(DirectiveBlocks \cap heap)
          /\ pc' = "delete"
          /\ UNCHANGED todo
    /\ UNCHANGED <<document, opened, closed, references, anchors, serialized,
                   last_anchor_id, open>>

\* Items are looked at when a node is met for the first time, and a node gets
\* its anchor when it is met for the second time.
Counted_once(i) == 1
Counted(i) == references[i] + 1
NeedsAnchor_always(count) == count = 1
NeedsAnchor(count) == count = 2

anchor_node ==
    /\ pc = "anchor" /\ todo # <<>>
    /\ LET i == Head(todo)
           count == Counted(i)
       IN /\ references' = [references EXCEPT ![i] = count]
          /\ todo' = (IF count = 1 THEN nodes[i].items ELSE <<>>) \o Tail(todo)
          /\ IF NeedsAnchor(count)
             THEN /\ last_anchor_id' = last_anchor_id + 1
                  /\ anchors' = [anchors EXCEPT ![i] = last_anchor_id + 1]
             ELSE UNCHANGED <<last_anchor_id, anchors>>
    /\ UNCHANGED <<document, heap, bad_free, opened, closed, pc, serialized, open, events,
                   event, failed>>

anchored ==
    /\ pc = "anchor" /\ todo = <<>>
    /\ pc' = "dump"
    /\ UNCHANGED <<document, heap, bad_free, opened, closed, tables, events, event, failed>>

\* The node that dump_node is called for next: the root, or the next item of
\* the innermost open collection; none if that one is at its end.
InItems_short == open # <<>> /\ Last(open).next < Len(nodes[Last(open).node].items)
InItems == open # <<>> /\ Last(open).next <= Len(nodes[Last(open).node].items)
Due == IF open = <<>> THEN 1 ELSE nodes[Last(open).node].items[Last(open).next]
RootIsDue == open = <<>> /\ Len(events) = 1

\* The caller's loop goes on to the item after the one that is due.
Advanced == IF open = <<>> THEN <<>>
            ELSE Append(Front(open), [Last(open) EXCEPT !.next = @ + 1])

Serialize_never(i) == serialized
Serialize(i) == serialized \cup {i}

\* What the event of a node takes over from it.
StringsOf(i) == BlocksOf(nodes[i].kind, i) \ {<<"items", i>>}

TypeOf(i) == CASE nodes[i].kind = "SCALAR" -> "SCALAR"
               [] nodes[i].kind = "SEQUENCE" -> "SEQUENCE_START"
               [] OTHER -> "MAPPING_START"

dump_node ==
    /\ pc = "dump" /\ (RootIsDue \/ InItems)
    /\ Due \notin serialized
    /\ serialized' = Serialize(Due)
    /\ \/ /\ Emit(TypeOf(Due), Due, anchors[Due], StringsOf(Due))
          /\ open' = IF nodes[Due].kind = "SCALAR" THEN Advanced
                     ELSE Append(Advanced, [node |-> Due, next |-> 1])
          /\ UNCHANGED <<pc, failed>>
       \/ /\ EmitFails(StringsOf(Due))
          /\ pc' = "delete"
          /\ UNCHANGED open
    /\ UNCHANGED <<document, opened, closed, references, anchors, last_anchor_id, todo>>

dump_alias ==
    /\ pc = "dump" /\ (RootIsDue \/ InItems)
    /\ Due \in serialized
    /\ \/ /\ Emit("ALIAS", Due, anchors[Due], {})
          /\ open' = Advanced
          /\ UNCHANGED <<pc, failed>>
       \/ /\ EmitFails({})
          /\ pc' = "delete"
          /\ UNCHANGED open
    /\ UNCHANGED <<document, opened, closed, references, anchors, serialized,
                   last_anchor_id, todo>>

\* No memory for the text of an anchor, before the node counts as serialized.
generate_anchor_fails ==
    /\ pc = "dump" /\ (RootIsDue \/ InItems)
    /\ anchors[Due] # 0
    /\ failed' = TRUE
    /\ pc' = "delete"
    /\ event' = "NO"
    /\ UNCHANGED <<document, heap, bad_free, opened, closed, tables, events>>

\* The end of dump_sequence and of dump_mapping.
dump_end ==
    /\ pc = "dump" /\ open # <<>> /\ ~ InItems
    /\ \/ /\ Emit(IF nodes[Last(open).node].kind = "SEQUENCE" THEN "SEQUENCE_END"
                  ELSE "MAPPING_END", 0, 0, {})
          /\ open' = Front(open)
          /\ UNCHANGED <<pc, failed>>
       \/ /\ EmitFails({})
          /\ pc' = "delete"
          /\ UNCHANGED open
    /\ UNCHANGED <<document, opened, closed, references, anchors, serialized,
                   last_anchor_id, todo>>

dump_document_end ==
    /\ pc = "dump" /\ open = <<>> /\ ~ RootIsDue
    /\ pc' = "delete"
    /\ \/ Emit("DOCUMENT_END", 0, 0, {}) /\ UNCHANGED failed
       \/ EmitFails({})
    /\ UNCHANGED <<document, opened, closed, tables>>

\* Without anchors the document is whole; otherwise its directives are gone,
\* and so are the strings of the nodes that have been serialized.
LeftOver_all ==
    {<<"nodes", 0>>, <<"anchors", 0>>} \cup UNION {BlocksOf(nodes[i].kind, i) : i \in Indexes}
LeftOver ==
    {<<"nodes", 0>>, <<"anchors", 0>>}
    \cup UNION {IF i \in serialized THEN BlocksOf(nodes[i].kind, i) \ StringsOf(i)
                ELSE BlocksOf(nodes[i].kind, i) : i \in Indexes}

delete_document_and_anchors ==
    /\ pc = "delete"
    /\ Free(IF <<"anchors", 0>> \notin heap THEN WholeDocument ELSE LeftOver)
    /\ exists' = FALSE /\ nodes' = <<>>
    /\ references' = <<>> /\ anchors' = <<>> /\ serialized' = {} /\ last_anchor_id' = 0
    /\ todo' = <<>> /\ open' = <<>>
    /\ events' = <<>>
    /\ pc' = "idle"
    /\ UNCHANGED <<opened, closed, event, failed>>

Building ==
    \/ \E directives \in BOOLEAN : document_initialize(directives)
    \/ \E kind \in Kinds : add_node(kind)
    \/ \E i, item \in Indexes : append_sequence_item(i, item)
    \/ \E i, key, value \in Indexes : append_mapping_pair(i, key, value)
    \/ document_delete

Dumping ==
    \/ \E ok \in BOOLEAN : dump_open(ok) \/ dump_nothing(ok) \/ dump_anchors(ok)
    \/ dump_document_start
    \/ anchor_node
    \/ anchored
    \/ dump_node
    \/ dump_alias
    \/ generate_anchor_fails
    \/ dump_end
    \/ dump_document_end
    \/ delete_document_and_anchors

Next ==
    \/ Building
    \/ \E ok \in BOOLEAN : emitter_open(ok) \/ emitter_close(ok)
    \/ emitter_dump
    \/ Dumping

\* A call of yaml_emitter_dump runs until it returns.
Spec == Init /\ [][Next]_vars /\ WF_vars(Dumping)

-----------------------------------------------------------------------------
(* Properties.                                                             *)

\* The types of the dumper's variables.
TypeOK ==
    /\ exists \in BOOLEAN /\ failed \in BOOLEAN
    /\ opened \in BOOLEAN /\ closed \in BOOLEAN
    /\ \A i \in Indexes : nodes[i].kind \in Kinds /\ nodes[i].items \in Seq(Indexes)
    /\ pc \in {"idle", "open", "start", "document start", "anchor", "dump", "delete"}
    /\ DOMAIN references \in {{}, Indexes} /\ DOMAIN anchors = DOMAIN references
    /\ serialized \subseteq Indexes
    /\ last_anchor_id \in 0 .. Len(nodes)
    /\ \A k \in 1 .. Len(open) : open[k].node \in Indexes

(* Reading the events of a document as yaml_parser_load does: a node is    *)
(* added and becomes the next item of the collection it is in, its anchor  *)
(* stands for it from then on, and an alias is the node of its anchor.     *)
Attach(read, i) ==
    IF read.in = <<>> THEN read.graph
    ELSE [read.graph EXCEPT ![Last(read.in)].items = Append(@, i)]

ReadNode(read, e) ==
    LET i == Len(read.graph) + 1 IN
    [graph |-> Append(Attach(read, i), [node |-> e.node, type |-> e.type, items |-> <<>>]),
     in    |-> IF e.type = "SCALAR" THEN read.in ELSE Append(read.in, i),
     names |-> [read.names EXCEPT ![e.anchor] = i]]

ReadEvent(read, e) ==
    IF e.type = "ALIAS" THEN [read EXCEPT !.graph = Attach(read, read.names[e.anchor])]
    ELSE IF e.type \in {"SCALAR", "SEQUENCE_START", "MAPPING_START"} THEN ReadNode(read, e)
    ELSE IF e.type \in {"SEQUENCE_END", "MAPPING_END"} THEN [read EXCEPT !.in = Front(@)]
    ELSE read

\* Reading starts with a document without nodes.
Unread == [graph |-> <<>>, in |-> <<>>, names |-> [a \in 0 .. Len(nodes) |-> 0]]

Read(es, none) ==
    LET read[n \in 0 .. Len(es)] == IF n = 0 THEN none ELSE ReadEvent(read[n - 1], es[n])
    IN read[Len(es)]

ReadBack == Read(events, Unread).graph

DocumentIsOut == pc = "delete" /\ events # <<>> /\ Last(events).type = "DOCUMENT_END"

(* The events of a document, read back, are the graph it was: every node   *)
(* that can be reached from the root comes out once, as what it is, with   *)
(* the same items in the same order, also where the graph shares nodes or  *)
(* has cycles.                                                             *)
GraphIsPreserved ==
    DocumentIsOut =>
        LET graph == ReadBack IN
        /\ graph[1].node = 1
        /\ \A i, j \in 1 .. Len(graph) : graph[i].node = graph[j].node => i = j
        /\ \A i \in 1 .. Len(graph) :
             /\ graph[i].type = TypeOf(graph[i].node)
             /\ nodes[graph[i].node].items =
                  [k \in 1 .. Len(graph[i].items) |-> graph[graph[i].items[k]].node]

(* The tables keep their types while they are filled, and when they have   *)
(* been used a node has an anchor only if there is an alias to it, and no  *)
(* two nodes have the same one: the anchors are numbered from 1 without    *)
(* gaps.                                                                   *)
AnchorsAreNeeded ==
    /\ TypeOK
    /\ DocumentIsOut =>
        /\ \A i \in Indexes :
             (anchors[i] # 0) <=> (\E k \in 1 .. Len(events) :
                                     events[k].type = "ALIAS" /\ events[k].node = i)
        /\ {anchors[i] : i \in Indexes} \ {0} = 1 .. last_anchor_id

(* Whatever fails, and when: each string, array and table of the document  *)
(* is given to the emitter or freed, once, by the time the call returns.   *)
OwnedOnce ==
    /\ ~ bad_free
    /\ pc = "idle" /\ ~ exists => heap = {}

(* A call of yaml_emitter_dump returns, on cyclic documents too.           *)
DumpReturns == pc # "idle" ~> pc = "idle"

\* The frames of EventStream: a mapping waits for a key or a value by turns.
FrameOf(c) ==
    IF nodes[c.node].kind = "SEQUENCE" THEN "seq"
    ELSE IF c.next % 2 = 1 THEN "key" ELSE "value"

FramesOf ==
    IF failed THEN <<"aborted">>
    ELSE IF ~ opened THEN <<"stream">>
    ELSE IF closed THEN <<"done">>
    ELSE IF events = <<>> \/ DocumentIsOut THEN <<"docs">>
    ELSE <<"docend">> \o (IF RootIsDue THEN <<"node">> ELSE <<>>)
         \o [k \in 1 .. Len(open) |-> FrameOf(open[k])]

Stream == INSTANCE EventStream
    WITH frames <- FramesOf, event <- IF failed THEN "NO" ELSE event

(* The emitter is given a well-formed stream of events, of any number of   *)
(* documents, opened and closed explicitly or by the dumper itself.        *)
DumpsEventStream == Stream!StreamSpec
=============================================================================

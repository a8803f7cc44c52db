------------------------------- MODULE Loader -------------------------------
(***************************************************************************)
(* The loader: yaml_parser_load builds one document out of the events of   *)
(* the parser.  Where loader.c and loader.rs differ - STACK_INIT that      *)
(* fails, assertions, the arrays of a node that cannot be pushed - the     *)
(* model is the port's, loader.rs.                                         *)
(*                                                                         *)
(* The parser is what EventStream says of it: each yaml_parser_parse call  *)
(* of the loader is a step of that specification, with the strings the     *)
(* event carries.  The loader takes those strings over, and has to free    *)
(* what it does not put into the document.  A string or an array on the    *)
(* heap is named by the event it came with and its place in it; the arrays *)
(* that belong to the call as a whole by 0.                                *)
(***************************************************************************)
EXTENDS EventStream, Integers

CONSTANTS
    Anchors,        \* the anchors the input uses
    Tags,           \* what tags nodes have: "none", "!" or "given"
    StackLimit,     \* STACK_LIMIT_SIZE: INT_MAX - 1
    MaxEvents,      \* bound: the parser fails after this many events
    AllocMayFail    \* whether yaml_malloc, yaml_strdup and PUSH may fail

ASSUME LoaderAssumption ==
    /\ Tags \subseteq {"none", "!", "given"}
    /\ StackLimit \in Nat
    /\ MaxEvents \in Nat
    /\ AllocMayFail \in BOOLEAN
    /\ "none" \notin Anchors

VARIABLES
    \* frames and event (its type): the parser, as EventStream has it
    carried,      \* what the event carries: an anchor, a tag, directives
    parsed,       \* how many events there were: the number of this one
    pc,           \* where yaml_parser_load stands
    error,        \* parser.error, as far as the loader sets it
    nodes,        \* document.nodes
    directives,   \* what document.version_directive and tag_directives point to
    ctx,          \* the indexes of the open collections, innermost last
    aliases,      \* parser.aliases
    heap,         \* what is allocated
    bad_free,     \* history: something was freed that was not allocated
    result        \* what the last call returned

own == <<carried, parsed, pc, error, nodes, directives, ctx, aliases, heap,
         bad_free, result>>
vars == <<frames, event, own>>

-----------------------------------------------------------------------------
(* What is on the heap.                                                    *)

NodeEvents == {"SCALAR", "SEQUENCE_START", "MAPPING_START"}
Collections == {"SEQUENCE_START", "MAPPING_START"}

Nothing_carried == [anchor |-> "none", tag |-> "none", directives |-> FALSE]
Carriable(type) ==
    [anchor : IF type \in NodeEvents THEN Anchors \cup {"none"}
              ELSE IF type = "ALIAS" THEN Anchors ELSE {"none"},
     tag : IF type \in NodeEvents THEN Tags ELSE {"none"},
     directives : IF type = "DOCUMENT_START" THEN BOOLEAN ELSE {FALSE}]

\* The strings that come with the n-th event.
Strings(n, type, c) ==
    {<<n, part>> : part \in
        {p \in {"anchor", "tag", "value", "directives"} :
            \/ p = "anchor" /\ c.anchor # "none"
            \/ p = "tag" /\ c.tag # "none"
            \/ p = "value" /\ type = "SCALAR"
            \/ p = "directives" /\ c.directives}}

EventStrings == Strings(parsed, event, carried)
AnchorString == {<<parsed, "anchor">>} \cap EventStrings

NodeOwns(node) ==
    {<<node.from, IF node.tag = "given" THEN "tag" ELSE "default tag">>,
     <<node.from, IF node.type = "SCALAR" THEN "value" ELSE "children">>}

DocumentOwns(nds, dirs) ==
    {<<0, "nodes">>} \cup dirs \cup UNION {NodeOwns(nds[i]) : i \in DOMAIN nds}

AliasesOwn(als) == {<<0, "aliases">>} \cup {<<als[i].from, "anchor">> : i \in DOMAIN als}

-----------------------------------------------------------------------------
(* How a call ends.  Before that the handler has freed "freed", and left   *)
(* nds, als and the heap hp.                                               *)

\* goto_load_error: yaml_parser_delete_aliases and yaml_document_delete, and
\* the context is deleted on the way there.
load_error(err, freed, nds, dirs, als, hp) ==
    LET A == hp \cap ({<<0, "ctx">>} \cup AliasesOwn(als))
        D == DocumentOwns(nds, dirs)
    IN
    /\ bad_free' = (bad_free \/ ~(freed \subseteq hp) \/ ~(D \subseteq hp \ (freed \cup A)))
    /\ heap' = hp \ (freed \cup A \cup D)
    /\ error' = err
    /\ nodes' = <<>>
    /\ directives' = {}
    /\ ctx' = <<>>
    /\ aliases' = <<>>
    /\ pc' = "idle"
    /\ result' = "FAIL"

NodeFailed(err, freed, nds, hp) == load_error(err, freed, nds, directives, aliases, hp)
NoMemory(freed, nds, hp) == AllocMayFail /\ NodeFailed("MEMORY", freed, nds, hp)

-----------------------------------------------------------------------------
(* The events.                                                             *)

Parsing == {"stream", "document", "nodes"}

\* yaml_parser_parse gives no event, and succeeds, after an error and at the end.
Stopped == error # "NO" \/ frames \in {<<"done">>, <<"aborted">>}

StreamEvent ==
    \/ StreamStart \/ StreamEnd \/ DocumentStart \/ DocumentEnd
    \/ Leaf \/ CollectionStart \/ CollectionEnd \/ PairStart \/ PairEnd

\* What the loader turns to with the event.
Handling(at) ==
    IF at = "stream" THEN "document"
    ELSE IF at = "document" THEN "load document" ELSE "load nodes"

parse_event ==
    /\ pc \in Parsing
    /\ ~Stopped
    /\ parsed < MaxEvents
    /\ StreamEvent
    /\ parsed' = parsed + 1
    /\ carried' \in Carriable(event')
    /\ heap' = heap \cup Strings(parsed + 1, event', carried')
    /\ pc' = Handling(pc)
    /\ UNCHANGED <<error, nodes, directives, ctx, aliases, bad_free, result>>

parse_nothing ==
    /\ pc \in Parsing
    /\ Stopped
    /\ event' = "NO"
    /\ carried' = Nothing_carried
    /\ pc' = Handling(pc)
    /\ UNCHANGED <<frames, parsed, error, nodes, directives, ctx, aliases, heap,
                   bad_free, result>>

\* The parser fails: for good, or, where it reads directives, with no error set.
parse_failed ==
    /\ pc \in Parsing
    /\ ~Stopped
    /\ event' = "NO"
    /\ \/ frames' = <<"aborted">>
       \/ AllocMayFail /\ Last(frames) = "docs" /\ UNCHANGED frames
    /\ carried' = Nothing_carried
    /\ load_error(error, {}, nodes, directives, aliases, heap)
    /\ UNCHANGED parsed

-----------------------------------------------------------------------------
(* yaml_parser_load.                                                       *)

\* The call until it asks for the first event.  The application passes a
\* document that owns nothing.
load_begin ==
    /\ pc = "idle"
    /\ <<0, "nodes">> \notin heap
    /\ \/ /\ AllocMayFail
          /\ result' = "FAIL"
          /\ UNCHANGED <<pc, heap>>
       \/ /\ heap' = heap \cup {<<0, "nodes">>}
          /\ \/ frames = <<"stream">> /\ pc' = "stream" /\ result' = "none"
             \/ frames = <<"done">> /\ pc' = "idle" /\ result' = "OK"
             \/ /\ frames \notin {<<"stream">>, <<"done">>}
                /\ pc' = "document"
                /\ result' = "none"
    /\ UNCHANGED <<frames, event, carried, parsed, error, nodes, directives, ctx,
                   aliases, bad_free>>

\* STREAM-END: the document stays without nodes.
load_nothing ==
    /\ pc = "load document"
    /\ event = "STREAM_END"
    /\ pc' = "idle"
    /\ result' = "OK"
    /\ UNCHANGED <<frames, event, carried, parsed, error, nodes, directives, ctx,
                   aliases, heap, bad_free>>

\* yaml_parser_load_document reads the event as a DOCUMENT-START without
\* looking at its type.  What it finds in a node's event is garbage, and what
\* becomes of it is not modelled ("undefined"); in no event it finds nothing.
\* Both STACK_INITs fail without setting parser.error.
load_document ==
    LET initialized == heap \cup {<<0, "aliases">>} IN
    /\ pc = "load document"
    /\ event # "STREAM_END"
    /\ \/ /\ AllocMayFail
          /\ load_error(error, EventStrings, nodes, directives, aliases, heap)
       \/ /\ AllocMayFail
          /\ event \in {"DOCUMENT_START", "NO"}
          /\ load_error(error, {}, nodes, EventStrings, aliases, initialized)
       \/ /\ event \in {"DOCUMENT_START", "NO"}
          /\ directives' = EventStrings
          /\ heap' = initialized \cup {<<0, "ctx">>}
          /\ pc' = "nodes"
          /\ UNCHANGED <<error, nodes, ctx, aliases, bad_free, result>>
       \/ /\ event \notin {"DOCUMENT_START", "NO"}
          /\ pc' = "undefined"
          /\ UNCHANGED <<error, nodes, directives, ctx, aliases, heap, bad_free, result>>
    /\ UNCHANGED <<frames, event, carried, parsed>>

-----------------------------------------------------------------------------
(* yaml_parser_load_nodes: one event, one handler.                         *)

Handles(types) == pc = "load nodes" /\ event \in types

\* Whether one more fits, so that indexes stay C ints.
check_stack_limit(stack) == Len(stack) < StackLimit

Pending(node) == node.pairs # <<>> /\ Last(node.pairs).value = 0

\* Faulty variant: a mapping's node is always a key.
WithChild_key_only(node, index) ==
    IF node.type = "SEQUENCE_START" THEN [node EXCEPT !.items = Append(@, index)]
    ELSE [node EXCEPT !.pairs = Append(@, [key |-> index, value |-> 0])]

\* The collection with one more node in it: the value of the last pair if that
\* has none yet, or else a new item or the key of a new pair.
WithChild(node, index) ==
    IF node.type = "SEQUENCE_START" THEN [node EXCEPT !.items = Append(@, index)]
    ELSE IF Pending(node) THEN [node EXCEPT !.pairs[Len(node.pairs)].value = index]
    ELSE [node EXCEPT !.pairs = Append(@, [key |-> index, value |-> 0])]

\* Whether load_node_add has to PUSH, and whether there is room for that.
MustPush(nds) == ctx # <<>> /\ ~Pending(nds[Last(ctx)])
RoomInParent(nds) ==
    MustPush(nds) =>
       check_stack_limit(nds[Last(ctx)].items) /\ check_stack_limit(nds[Last(ctx)].pairs)

\* yaml_parser_load_node_add, when it succeeds.
load_node_add(nds, index) ==
    IF ctx = <<>> THEN nds ELSE [nds EXCEPT ![Last(ctx)] = WithChild(@, index)]

Registered(anchor) == {i \in DOMAIN aliases : aliases[i].anchor = anchor}

load_alias ==
    LET found == Registered(carried.anchor)
        index == aliases[CHOOSE i \in found : TRUE].index
    IN
    /\ Handles({"ALIAS"})
    /\ \/ found = {} /\ NodeFailed("COMPOSER", EventStrings, nodes, heap)
       \/ found # {} /\ ~RoomInParent(nodes) /\ NodeFailed("MEMORY", EventStrings, nodes, heap)
       \/ found # {} /\ MustPush(nodes) /\ NoMemory(EventStrings, nodes, heap)
       \/ /\ found # {}
          /\ RoomInParent(nodes)
          /\ nodes' = load_node_add(nodes, index)
          /\ heap' = heap \ EventStrings
          /\ pc' = "nodes"
          /\ UNCHANGED <<error, directives, ctx, aliases, bad_free, result>>
    /\ UNCHANGED <<frames, event, carried, parsed>>

\* yaml_parser_register_anchor, when it succeeds; when it fails it frees the anchor.
register_anchor(index) ==
    IF carried.anchor = "none" THEN aliases
    ELSE Append(aliases, [anchor |-> carried.anchor, index |-> index, from |-> parsed])

\* Faulty variant: the anchor is forgotten.
FreedNode_keeping_anchor(hp) ==
    hp \cap {<<parsed, p>> : p \in {"tag", "default tag", "value", "children"}}

\* What goto_scalar_error, goto_sequence_error and goto_mapping_error free: all
\* there is of the event and of what was made for the node.
FreedNode(hp) ==
    hp \cap {<<parsed, p>> : p \in {"anchor", "tag", "default tag", "value", "children"}}

\* yaml_parser_load_scalar, _sequence and _mapping.  A node without a tag gets
\* the default one; yaml_strdup and STACK_INIT set no error when they fail.
\* (ctx holds fewer indexes than there are nodes, so its limit is never met.)
load_node ==
    LET node == [type |-> event, from |-> parsed, tag |-> carried.tag,
                 items |-> <<>>, pairs |-> <<>>]
        index == Len(nodes) + 1
        tagged == IF carried.tag = "given" THEN heap
                  ELSE (heap \ {<<parsed, "tag">>}) \cup {<<parsed, "default tag">>}
        made == IF event \in Collections THEN tagged \cup {<<parsed, "children">>} ELSE tagged
        pushed == Append(nodes, node)
        known == register_anchor(index)
        added == load_node_add(pushed, index)
    IN
    /\ Handles(NodeEvents)
    /\ \/ ~check_stack_limit(nodes) /\ NodeFailed("MEMORY", FreedNode(heap), nodes, heap)
       \/ /\ check_stack_limit(nodes)
          /\ \/ AllocMayFail /\ carried.tag # "given" /\ NodeFailed(error, FreedNode(heap), nodes, heap)
             \/ /\ AllocMayFail /\ event \in Collections
                /\ NodeFailed(error, FreedNode(tagged), nodes, tagged)
             \/ NoMemory(FreedNode(made), nodes, made)
             \/ /\ carried.anchor # "none"
                /\ \/ /\ Registered(carried.anchor) # {}
                      /\ NodeFailed("COMPOSER", AnchorString, pushed, made)
                   \/ /\ Registered(carried.anchor) = {}
                      /\ NoMemory(AnchorString, pushed, made)
             \/ /\ Registered(carried.anchor) = {}
                /\ \/ /\ ~RoomInParent(pushed)
                      /\ load_error("MEMORY", {}, pushed, directives, known, made)
                   \/ /\ AllocMayFail
                      /\ MustPush(pushed) \/ event \in Collections
                      /\ load_error("MEMORY", {}, pushed, directives, known, made)
                   \/ /\ RoomInParent(pushed)
                      /\ nodes' = added
                      /\ aliases' = known
                      /\ heap' = made
                      /\ ctx' = IF event \in Collections THEN Append(ctx, index) ELSE ctx
                      /\ pc' = "nodes"
                      /\ UNCHANGED <<error, directives, bad_free, result>>
    /\ UNCHANGED <<frames, event, carried, parsed>>

\* Faulty variant: the context is not popped.
Popped_never(stack) == stack

\* POP(ctx)
Popped(stack) == Front(stack)

\* yaml_parser_load_sequence_end and _mapping_end.
load_end(end, type) ==
    /\ Handles({end})
    /\ IF ctx # <<>> /\ nodes[Last(ctx)].type = type
       THEN /\ ctx' = Popped(ctx)
            /\ pc' = "nodes"
            /\ UNCHANGED <<error, nodes, directives, aliases, heap, bad_free, result>>
       ELSE NodeFailed(error, {}, nodes, heap)
    /\ UNCHANGED <<frames, event, carried, parsed>>

\* DOCUMENT-END: the call returns the document.
load_document_end ==
    LET freed == {<<0, "ctx">>} \cup AliasesOwn(aliases) IN
    /\ Handles({"DOCUMENT_END"})
    /\ bad_free' = (bad_free \/ ~(freed \subseteq heap))
    /\ heap' = heap \ freed
    /\ ctx' = <<>>
    /\ aliases' = <<>>
    /\ pc' = "idle"
    /\ result' = "OK"
    /\ UNCHANGED <<frames, event, carried, parsed, error, nodes, directives>>

\* Any other event: after an error there are none.
load_unexpected ==
    /\ pc = "load nodes"
    /\ event \notin NodeEvents \cup {"ALIAS", "SEQUENCE_END", "MAPPING_END", "DOCUMENT_END"}
    /\ NodeFailed(error, {}, nodes, heap)
    /\ UNCHANGED <<frames, event, carried, parsed>>

\* The application deletes the document it was given.
yaml_document_delete ==
    LET freed == DocumentOwns(nodes, directives) IN
    /\ pc = "idle"
    /\ <<0, "nodes">> \in heap
    /\ bad_free' = (bad_free \/ ~(freed \subseteq heap))
    /\ heap' = heap \ freed
    /\ nodes' = <<>>
    /\ directives' = {}
    /\ result' = "none"
    /\ UNCHANGED <<frames, event, carried, parsed, pc, error, ctx, aliases>>

Init ==
    /\ StreamInit
    /\ carried = Nothing_carried
    /\ parsed = 0
    /\ pc = "idle"
    /\ error = "NO"
    /\ nodes = <<>>
    /\ directives = {}
    /\ ctx = <<>>
    /\ aliases = <<>>
    /\ heap = {}
    /\ bad_free = FALSE
    /\ result = "none"

\* Nothing is said about a call that has read garbage.
undefined == pc = "undefined" /\ UNCHANGED vars

Next ==
    \/ parse_event \/ parse_nothing \/ parse_failed
    \/ load_begin \/ load_nothing \/ load_document
    \/ load_alias \/ load_node
    \/ load_end("SEQUENCE_END", "SEQUENCE_START")
    \/ load_end("MAPPING_END", "MAPPING_START")
    \/ load_document_end \/ load_unexpected
    \/ yaml_document_delete \/ undefined

Spec == Init /\ [][Next]_vars

-----------------------------------------------------------------------------

\* The types of the loader's variables.
TypeOK ==
    /\ carried \in [anchor : Anchors \cup {"none"}, tag : {"none", "!", "given"},
                    directives : BOOLEAN]
    /\ parsed \in 0..MaxEvents
    /\ pc \in {"idle", "stream", "document", "nodes", "load document", "load nodes",
               "undefined"}
    /\ error \in {"NO", "MEMORY", "COMPOSER"}
    /\ nodes \in Seq([type : NodeEvents, from : 1..MaxEvents, tag : {"none", "!", "given"},
                      items : Seq(1..StackLimit),
                      pairs : Seq([key : 1..StackLimit, value : 0..StackLimit])])
    /\ ctx \in Seq(1..StackLimit)
    /\ aliases \in Seq([anchor : Anchors, index : 1..StackLimit, from : 1..MaxEvents])
    /\ bad_free \in BOOLEAN
    /\ result \in {"none", "OK", "FAIL"}

\* How many open collections the first f frames stand for: a pair is a mapping
\* in the sequence whose frame it has taken over.
PairFrames == {"pairkey", "pairvalue", "pairend"}
CollectionFrames == {"seq", "key", "value"} \cup PairFrames
Depth(fr, f) ==
    Cardinality({i \in 1..f : fr[i] \in CollectionFrames})
    + Cardinality({i \in 1..f : fr[i] \in PairFrames})

\* The collections of a frame are the last ones of a context of that depth.
FrameFits(frame, depth, cx, nds) ==
    /\ frame \in CollectionFrames =>
          nds[cx[depth]].type = IF frame = "seq" THEN "SEQUENCE_START" ELSE "MAPPING_START"
    /\ frame \in PairFrames => nds[cx[depth - 1]].type = "SEQUENCE_START"

\* The frame of a mapping that lacks the value of its last pair.
OwesValue(fr, cx, i) ==
    \E f \in DOMAIN fr : fr[f] \in {"value", "pairvalue"} /\ cx[Depth(fr, f)] = i

ContextFits(fr, cx, nds) ==
    /\ Depth(fr, Len(fr)) = Len(cx)
    /\ \A f \in DOMAIN fr : FrameFits(fr[f], Depth(fr, f), cx, nds)
    /\ \A i \in DOMAIN nds : Pending(nds[i]) <=> OwesValue(fr, cx, i)

\* The variables keep their types, so that no index exceeds the limit of a C
\* int.  While a document is loaded, ctx lists the collections the parser has open,
\* and a pair lacks its value exactly in the mappings where the parser owes
\* one: the loader's guess from its data agrees with the parser's grammar.
ContextFollowsStream ==
    /\ TypeOK
    /\ pc = "nodes" /\ ~Stopped => ContextFits(frames, ctx, nodes)

Children(node) ==
    {node.items[i] : i \in DOMAIN node.items}
    \cup {node.pairs[i].key : i \in DOMAIN node.pairs}
    \cup {node.pairs[i].value : i \in DOMAIN node.pairs}

\* A document that is returned is whole: every pair has its key and its value,
\* every child is a node of the document, and every node but the root hangs
\* below one that came before it.  One without a root means that the stream has
\* ended, never that something went wrong.
LoadedWhole ==
    pc = "idle" /\ result = "OK" =>
       /\ \A i \in DOMAIN nodes : Children(nodes[i]) \subseteq DOMAIN nodes
       /\ \A i \in DOMAIN nodes \ {1} : \E p \in 1..(i - 1) : i \in Children(nodes[p])
       /\ nodes = <<>> => frames = <<"done">>

\* What is allocated belongs to the document, to the aliases, to the context,
\* or to the event at hand, and nothing is freed that is not allocated: a call
\* that fails, wherever it does, leaves nothing behind and frees nothing twice.
OwnedOnce ==
    pc # "undefined" =>
       /\ ~bad_free
       /\ heap = (IF <<0, "nodes">> \in heap THEN DocumentOwns(nodes, directives) ELSE {})
                 \cup (IF pc \in {"nodes", "load nodes"}
                       THEN {<<0, "ctx">>} \cup AliasesOwn(aliases) ELSE {})
                 \cup (IF pc \in {"load document", "load nodes"} THEN EventStrings ELSE {})
       /\ pc = "idle" /\ result = "FAIL" => heap = {}

=============================================================================

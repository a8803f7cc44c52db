------------------------------ MODULE TagWriter ------------------------------
(***************************************************************************)
(* How the emitter writes the directives of a document and the tag of a    *)
(* node (yaml_emitter_emit_document_start, analyze_tag_directive,          *)
(* analyze_tag and process_tag of emitter.c).                              *)
(*                                                                         *)
(* Strings are sequences of octets, as in the code; the ones that are      *)
(* written are ASCII.  The document is explicit.  The node is its root,    *)
(* or the item of a flow sequence that is its root.                        *)
(***************************************************************************)
EXTENDS Characters, SequencesExt

CONSTANTS
    Documents      \* [directives: seq of [handle, prefix], tag, flow]

LESS == 60
SLASH == 47

DefaultDirectives ==
    <<[handle |-> <<BANG>>, prefix |-> <<BANG>>],
      [handle |-> <<BANG, BANG>>,
       \* tag:yaml.org,2002:
       prefix |-> <<116, 97, 103, 58, 121, 97, 109, 108, 46, 111, 114, 103, 44, 50, 48, 48, 50, 58>>]>>

ASSUME TagWriterAssumption ==
    \A d \in Documents : d.tag # <<>> /\ d.flow \in BOOLEAN

VARIABLES
    doc,                   \* the document-start event and the tag of the node
    emitting,              \* "start", "node", "written" or "refused"
    emitter_directives,    \* emitter.tag_directives
    output                 \* what has been written

tagWriterVars == <<doc, emitting, emitter_directives, output>>

-----------------------------------------------------------------------------
(* Directives.                                                             *)

\* yaml_emitter_analyze_tag_directive.
analyze_tag_directive(d) ==
    /\ d.handle # <<>> /\ d.handle[1] = BANG /\ Last(d.handle) = BANG
    /\ \A i \in 2..(Len(d.handle) - 1) : IS_ALPHA(d.handle[i])
    /\ d.prefix # <<>>

HandlesIn(ds) == {ds[i].handle : i \in DOMAIN ds}

\* A second directive for a handle is an error ...
HasDuplicates(ds) == \E i, j \in DOMAIN ds : i # j /\ ds[i].handle = ds[j].handle

\* ... unless it is a default one, which then gives way.
WithDefaults(ds) ==
    LET isNew(d) == d.handle \notin HandlesIn(ds) IN ds \o SelectSeq(DefaultDirectives, isNew)

\* The characters of a URI that are written as they are, besides IS_ALPHA:
\* ; / ? : @ & = + $ , _ . ~ * ' ( ) [ ]
ContentCharacters ==
    {59, SLASH, QUESTION, COLON, 64, AMPERSAND, 61, PLUS, 36, COMMA, 95, DOT, 126, STAR, QUOTE,
     40, 41, LBRACKET, RBRACKET}

\* Faulty variant: "!" is left as it is, though it ends a handle.
IsContent_bang(octet) == IS_ALPHA(octet) \/ octet \in ContentCharacters \cup {BANG}
IsContent(octet) == IS_ALPHA(octet) \/ octet \in ContentCharacters

HexDigit(n) == IF n < 10 THEN 48 + n ELSE 55 + n

\* yaml_emitter_write_tag_content: every octet of another character is escaped.
write_tag_content(octets) ==
    FlattenSeq([i \in DOMAIN octets |->
        IF IsContent(octets[i]) THEN <<octets[i]>>
        ELSE <<PERCENT, HexDigit(octets[i] \div 16), HexDigit(octets[i] % 16)>>])

\* A line with a directive: "%TAG", the handle and the prefix.
DirectiveLine(d) ==
    <<PERCENT, 84, 65, 71, SP>> \o d.handle \o <<SP>> \o write_tag_content(d.prefix) \o <<LF>>

emit_document_start ==
    /\ emitting = "start"
    /\ IF HasDuplicates(doc.directives) \/ \E i \in DOMAIN doc.directives :
             ~analyze_tag_directive(doc.directives[i])
       THEN /\ emitting' = "refused"
            /\ UNCHANGED <<emitter_directives, output>>
       ELSE /\ emitting' = "node"
            /\ emitter_directives' = WithDefaults(doc.directives)
            /\ output' = FlattenSeq([i \in DOMAIN doc.directives |-> DirectiveLine(doc.directives[i])])
                         \o <<DASH, DASH, DASH, SP>>
    /\ UNCHANGED doc

-----------------------------------------------------------------------------
(* The tag.                                                                *)

\* Whether the tag is the prefix of a directive and more.
Abbreviates(d, tag) == Len(d.prefix) < Len(tag) /\ IsPrefix(d.prefix, tag)

\* The first directive that abbreviates the tag, if there is one.
analyze_tag(tag) ==
    LET can(d) == Abbreviates(d, tag)
        candidates == SelectSeq(emitter_directives, can)
    IN IF candidates = <<>> THEN [handle |-> <<>>, suffix |-> tag]
       ELSE [handle |-> candidates[1].handle,
             suffix |-> SubSeq(tag, Len(candidates[1].prefix) + 1, Len(tag))]

process_tag(data) ==
    IF data.handle # <<>> THEN data.handle \o write_tag_content(data.suffix)
    ELSE <<BANG, LESS>> \o write_tag_content(data.suffix) \o <<GREATER>>

\* The tag, in a flow sequence or not, and the space before a scalar or the
\* break before a block collection.
emit_node_tag ==
    /\ emitting = "node"
    /\ \E end \in {SP, LF} :
          /\ doc.flow => end = SP
          /\ output' = output \o (IF doc.flow THEN <<LBRACKET>> ELSE <<>>)
                       \o process_tag(analyze_tag(doc.tag)) \o <<end>>
    /\ emitting' = "written"
    /\ UNCHANGED <<doc, emitter_directives>>

TagWriterInit ==
    /\ doc \in Documents
    /\ emitting = "start"
    /\ emitter_directives = <<>>
    /\ output = <<>>

TagWriterNext == emit_document_start \/ emit_node_tag

=============================================================================

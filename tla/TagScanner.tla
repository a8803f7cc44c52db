----------------------------- MODULE TagScanner -----------------------------
(***************************************************************************)
(* How a document's %TAG directives and the tag of a node are read: the    *)
(* functions yaml_parser_scan_tag_directive_value, scan_tag, scan_tag_     *)
(* handle, scan_tag_uri and scan_uri_escapes of scanner.c, and what        *)
(* process_directives and parse_node of parser.c do with the tokens.  One  *)
(* iteration of the loop over a URI, or over the octets of an escaped      *)
(* character, is one step.                                                 *)
(***************************************************************************)
EXTENDS Characters, SequencesExt

VARIABLES
    source,               \* the octets of the document
    reading,              \* where the functions are; "done" or "error" at the end
    r,                    \* their variables: pos, directive, uri_char, handle,
                          \* string, length, width, and parser.flow_level
    parser_directives,    \* parser.tag_directives
    read_tag              \* the tag of the event

tagScannerVars == <<source, reading, r, parser_directives, read_tag>>

ParserDefaults ==
    <<[handle |-> <<BANG>>, prefix |-> <<BANG>>],
      [handle |-> <<BANG, BANG>>,
       prefix |-> <<116, 97, 103, 58, 121, 97, 109, 108, 46, 111, 114, 103, 44, 50, 48, 48, 50, 58>>]>>

Look(n) == At(source, r.pos + n)
Continue(label, q) ==
    /\ reading' = label /\ r' = q
    /\ UNCHANGED <<source, parser_directives, read_tag>>
TagError == Continue("error", r)

Moved(q, n) == [q EXCEPT !.pos = @ + n]
NotBlank(ch) == ~IS_BLANK(ch)
NotAlpha(ch) == ~IS_ALPHA(ch)
PastBlanks(q) == [q EXCEPT !.pos = FirstPlace(source, q.pos, NotBlank)]

-----------------------------------------------------------------------------

\* The start of yaml_parser_scan_tag_directive_value, behind "%TAG".
scan_tag_directive_value ==
    /\ reading = "line" /\ Look(0) = PERCENT
    /\ Continue("handle", [PastBlanks(Moved(r, 4)) EXCEPT !.directive = TRUE])

\* "---", and "[" in a flow sequence; the tokens before it were all directives,
\* so the default ones are added.
fetch_document_start ==
    LET q == PastBlanks(Moved(r, 3))
        flow == At(source, q.pos) = LBRACKET
        isNew(d) == \A i \in DOMAIN parser_directives : parser_directives[i].handle # d.handle
    IN
    /\ reading = "line" /\ Look(0) = DASH
    /\ reading' = "tag"
    /\ r' = [Moved(q, IF flow THEN 1 ELSE 0) EXCEPT !.directive = FALSE,
                                                    !.flow_level = IF flow THEN 1 ELSE 0]
    /\ parser_directives' = parser_directives \o SelectSeq(ParserDefaults, isNew)
    /\ UNCHANGED <<source, read_tag>>

\* A URI that starts with what follows the "!" of the head.
StartUri(q, uri_char, handle, head) ==
    Continue("uri", [q EXCEPT !.uri_char = uri_char, !.handle = handle,
                              !.string = IF Len(head) > 1 THEN Tail(head) ELSE <<>>,
                              !.length = Len(head)])

\* The canonical form, !<tag>, or one with a handle.
scan_tag ==
    /\ reading = "tag"
    /\ IF Look(1) = 60
       THEN StartUri(Moved(r, 2), TRUE, <<>>, <<>>)
       ELSE Continue("handle", r)

\* The prefix of a directive may have flow indicators.
PrefixIsUri == TRUE

scan_tag_handle ==
    LET end == FirstPlace(source, r.pos + 1, NotAlpha)
        closed == At(source, end) = BANG
        past == IF closed THEN end + 1 ELSE end
        handle == SubSeq(source, r.pos, past - 1)
        q == [r EXCEPT !.pos = past]
    IN
    /\ reading = "handle"
    /\ CASE Look(0) # BANG -> TagError
         [] r.directive /\ ((~closed /\ handle # <<BANG>>) \/ ~IS_BLANK(At(source, past))) -> TagError
         [] r.directive /\ (closed \/ handle = <<BANG>>) /\ IS_BLANK(At(source, past)) ->
               StartUri(PastBlanks(q), PrefixIsUri, handle, <<>>)
         [] ~r.directive /\ closed -> StartUri(q, FALSE, handle, <<>>)
         [] OTHER -> StartUri(q, FALSE, <<BANG>>, handle)

\* ; / ? : @ & = + $ . % ! ~ * ' ( ), and , [ ] where flow indicators may be.
UriCharacters == {59, 47, QUESTION, COLON, 64, AMPERSAND, 61, PLUS, 36, DOT, PERCENT, BANG, 126,
                  STAR, QUOTE, 40, 41}
IsUri(ch) ==
    \/ IS_ALPHA(ch) \/ ch \in UriCharacters
    \/ r.uri_char /\ ch \in {COMMA, LBRACKET, RBRACKET}

scan_tag_uri ==
    /\ reading = "uri" /\ IsUri(Look(0))
    /\ IF Look(0) = PERCENT
       THEN Continue("escape", [r EXCEPT !.width = 0])
       ELSE Continue("uri", [Moved(r, 1) EXCEPT !.string = Append(@, Look(0)), !.length = @ + 1])

WidthOf(octet) ==
    CASE octet < 128 -> 1
      [] octet \in 192..223 -> 2
      [] octet \in 224..239 -> 3
      [] octet \in 240..247 -> 4
      [] OTHER -> 0

\* One octet of an escaped character.
scan_uri_escapes ==
    LET octet == 16 * AS_HEX(Look(1)) + AS_HEX(Look(2))
        width == IF r.width = 0 THEN WidthOf(octet) ELSE r.width
    IN
    /\ reading = "escape"
    /\ IF \/ ~(Look(0) = PERCENT /\ IS_HEX(Look(1)) /\ IS_HEX(Look(2)))
          \/ width = 0
          \/ r.width # 0 /\ octet \div 64 # 2
       THEN TagError
       ELSE Continue(IF width = 1 THEN "uri" ELSE "escape",
                     [Moved(r, 3) EXCEPT !.string = Append(@, octet), !.width = width - 1,
                                         !.length = IF width = 1 THEN @ + 1 ELSE @])

UriEnds == reading = "uri" /\ ~IsUri(Look(0))

\* The end of a directive, which yaml_parser_process_directives takes.
end_of_directive ==
    /\ UriEnds /\ r.directive
    /\ IF \/ r.length = 0
          \/ ~IS_BLANKZ(Look(0))
          \/ \E i \in DOMAIN parser_directives : parser_directives[i].handle = r.handle
       THEN TagError
       ELSE /\ parser_directives' = Append(parser_directives, [handle |-> r.handle, prefix |-> r.string])
            /\ r' = Moved(r, 1)
            /\ reading' = "line"
            /\ UNCHANGED <<source, read_tag>>

\* The tag "!" is read as a handle without a suffix, and is the other way round.
Swapped(handle, suffix) ==
    IF handle = <<BANG>> /\ suffix = <<>> THEN [handle |-> <<>>, suffix |-> handle]
    ELSE [handle |-> handle, suffix |-> suffix]

\* yaml_parser_parse_node: the prefix of the handle and the suffix.
Resolutions(token) ==
    IF token.handle = <<>> THEN {token.suffix}
    ELSE {parser_directives[i].prefix \o token.suffix : i \in
            {j \in DOMAIN parser_directives : parser_directives[j].handle = token.handle}}

\* The end of a tag, and what the parser makes of it.
end_of_tag ==
    LET verbatim == r.handle = <<>>
        q == Moved(r, IF verbatim THEN 1 ELSE 0)
        ch == At(source, q.pos)
        tags == Resolutions(Swapped(r.handle, r.string))
    IN
    /\ UriEnds /\ ~r.directive
    /\ IF \/ r.length = 0
          \/ verbatim /\ Look(0) # GREATER
          \/ ~IS_BLANKZ(ch) /\ ~(r.flow_level > 0 /\ ch = COMMA)
          \/ tags = {}
       THEN TagError
       ELSE /\ read_tag' \in tags
            /\ r' = q
            /\ reading' = "done"
            /\ UNCHANGED <<source, parser_directives>>

TagScannerStart ==
    [pos |-> 1, directive |-> FALSE, uri_char |-> FALSE, handle |-> <<>>, string |-> <<>>,
     length |-> 0, width |-> 0, flow_level |-> 0]

TagScannerNext ==
    \/ scan_tag_directive_value \/ fetch_document_start \/ scan_tag
    \/ scan_tag_handle \/ scan_tag_uri \/ scan_uri_escapes \/ end_of_directive \/ end_of_tag

=============================================================================

------------------------------ MODULE RoundTrip ------------------------------
(***************************************************************************)
(* What the emitter writes, read by the scanner and the parser: scalars    *)
(* (ScalarRoundTrip), or the tags and directives of a document.  A         *)
(* behaviour is about one or the other.                                    *)
(***************************************************************************)
EXTENDS ScalarRoundTrip, TagWriter, TagScanner

tagVars == <<tagWriterVars, tagScannerVars>>
vars == <<scalarVars, tagVars>>

\* The scanner meets the document that the emitter wrote.
hand_over_document ==
    /\ emitting = "written" /\ reading = "idle"
    /\ source' = output
    /\ reading' = "line"
    /\ UNCHANGED <<tagWriterVars, r, parser_directives, read_tag>>

\* Nothing is left to do: the tag is read, or refused on either side.
document_finished ==
    /\ emitting = "refused" \/ reading \in {"done", "error"}
    /\ UNCHANGED tagVars

TagScannerIdle ==
    /\ source = <<>> /\ reading = "idle" /\ r = TagScannerStart
    /\ parser_directives = <<>> /\ read_tag = <<>>

NoScalar ==
    /\ text = <<>> /\ asked = "NONE" /\ place = [after |-> "none"] /\ style = "NONE"
    /\ writing = "off" /\ w = [out |-> <<>>]
    /\ at = 1 /\ spaces = FALSE /\ breaks = FALSE /\ leading_spaces = FALSE
    /\ input = <<>> /\ context = NoContext /\ scanning = "idle" /\ p = Fresh(0)

NoTag ==
    /\ doc = [directives |-> <<>>] /\ emitting = "off"
    /\ emitter_directives = <<>> /\ output = <<>>
    /\ TagScannerIdle

Init ==
    \/ ScalarInit /\ NoTag
    \/ NoScalar /\ TagWriterInit /\ TagScannerIdle

Next ==
    \/ ScalarNext /\ UNCHANGED tagVars
    \/ TagWriterNext /\ UNCHANGED <<scalarVars, tagScannerVars>>
    \/ TagScannerNext /\ UNCHANGED <<scalarVars, tagWriterVars>>
    \/ hand_over_document /\ UNCHANGED scalarVars
    \/ document_finished /\ UNCHANGED scalarVars

Spec == Init /\ [][Next]_vars

-----------------------------------------------------------------------------

Shorthand == analyze_tag(doc.tag)

\* The suffix of a tag with a handle has a character "," "[" or "]".
IndicatorInSuffix ==
    /\ Shorthand.handle # <<>>
    /\ \E i \in DOMAIN Shorthand.suffix : Shorthand.suffix[i] \in {COMMA, LBRACKET, RBRACKET}

TagReadBack ==
    /\ reading # "error"
    /\ reading = "done" => read_tag = doc.tag /\ r.pos = Len(source)

\* The parser of the document has the directives its emitter had, in the same
\* order, with the same prefixes: a handle cannot mean something else to them.
DirectivesReadBack ==
    reading \in {"tag", "done", "error"} => parser_directives = emitter_directives

\* Directives and tags are read back as they were, whatever they are made of
\* and whichever directive abbreviates the tag: what is escaped cannot end a
\* handle, a URI or a verbatim tag too early, the handle is one the parser
\* knows, and prefix and suffix make up the tag again.  Left out are suffixes
\* with flow indicators (see ShorthandIsReadBack).
TagIsReadBack ==
    emitting = "written" => DirectivesReadBack /\ (IndicatorInSuffix \/ TagReadBack)

\* The same of all tags, as the tests of the emitter assert.
ShorthandIsReadBack == emitting = "written" => TagReadBack

=============================================================================

----------------------------- MODULE MCRoundTrip -----------------------------
(* Texts, places and bodies of scalars, and documents with tags.           *)
EXTENDS RoundTrip, FiniteSetsExt

CONSTANTS
    MaxMixed,      \* length of texts over all kinds of characters
    MaxLines,      \* length of texts of words, spaces and breaks
    MaxBody,       \* length of the quoted bodies
    MaxTag,        \* length of tags, in characters
    MaxPrefix      \* length of the prefixes of directives

SeqsUpTo(S, n) == UNION {[1..k -> S] : k \in 0..n}

\* A letter, an accented one, one of four octets, BEL, breaks, indicators.
MCMixed == {97, 233, 128512, 7, SP, LF, LS, QUOTE, DQUOTE, BACKSLASH, COLON, HASH, DASH,
            QUESTION, COMMA}
MCTexts ==
    SeqsUpTo(MCMixed, MaxMixed) \cup SeqsUpTo({97, SP, LF}, MaxLines)
    \cup {<<DASH, DASH, DASH>>, <<DASH, DASH, DASH, SP, 97>>, <<DOT, DOT, DOT>>, <<PERCENT, 97>>}

MCStyles == {"PLAIN", "SINGLE", "DOUBLE", "LITERAL", "FOLDED"}

Place(level, indent0, column, whitespace, simple, after) ==
    [level |-> level, indent |-> indent0, column |-> column, whitespace |-> whitespace,
     simple |-> simple, after |-> after]

\* The root of an implicit and of an explicit document, a value and a key of a
\* block mapping, the value of a long key of a nested one, an item and a key of a
\* flow collection.
MCPlaces ==
    {Place(0, -1, 0, TRUE, FALSE, "end"),
     Place(0, -1, 3, FALSE, FALSE, "end"),
     Place(0, 0, 0, TRUE, TRUE, "value"),
     Place(0, 2, 9, FALSE, FALSE, "entry"),
     Place(1, 0, 9, FALSE, FALSE, "item"),
     Place(1, 0, 1, TRUE, TRUE, "value")}

MCBodies == SeqsUpTo({97, SP, TAB, LF, CR, LS}, MaxBody)

\* "a", "!", ",", "<", "%" and an accented letter, as octets.
TagCharacters == {<<97>>, <<BANG>>, <<COMMA>>, <<LESS>>, <<PERCENT>>, <<195, 169>>}
Strings(S, n) == {FlattenSeq(t) : t \in SeqsUpTo(S, n) \ {<<>>}}
YamlPrefix == DefaultDirectives[2].prefix
MCTags == Strings(TagCharacters, MaxTag) \cup {YamlPrefix, YamlPrefix \o <<97>>, YamlPrefix \o <<BANG>>}

\* "!", "!!", "!a!", and "a", which is no handle.
MCHandles == {<<BANG>>, <<BANG, BANG>>, <<BANG, 97, BANG>>, <<97>>}
Directive(handle, prefix) == [handle |-> handle, prefix |-> prefix]
MCDirectives ==
    {<<>>}
    \cup {<<Directive(h, x)>> : h \in MCHandles, x \in Strings({<<97>>, <<BANG>>, <<COMMA>>}, MaxPrefix)}
    \cup {<<Directive(h, <<97>>), Directive(k, <<97, 97>>)>> : h, k \in MCHandles}
MCDocuments == [directives : MCDirectives, tag : MCTags, flow : BOOLEAN]

MCLF == <<LF>>
MCCRLF == <<CR, LF>>

=============================================================================

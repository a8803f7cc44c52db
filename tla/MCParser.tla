------------------------------ MODULE MCParser ------------------------------
(* Alphabets for model checking the parser.                                *)
EXTENDS Parser

Of(types) == {Token(t, "") : t \in types}
Plain == Token("SCALAR", "plain")

\* Everything that nests, with one kind of leaf.
StructureTokens ==
    {Plain} \cup
    Of({"BLOCK_SEQUENCE_START", "BLOCK_MAPPING_START", "BLOCK_END", "BLOCK_ENTRY",
        "FLOW_SEQUENCE_START", "FLOW_SEQUENCE_END", "FLOW_MAPPING_START",
        "FLOW_MAPPING_END", "FLOW_ENTRY", "KEY", "VALUE", "DOCUMENT_START",
        "DOCUMENT_END"})

\* Directives, properties and documents.
DocumentTokens ==
    {Plain, Token("SCALAR", "quoted")} \cup
    Of({"DOCUMENT_START", "DOCUMENT_END", "ANCHOR", "ALIAS", "FLOW_SEQUENCE_START",
        "FLOW_SEQUENCE_END"})
    \cup {Token("TAG", v) : v \in {"nonspecific", "verbatim", "!", "!e!"}}
    \cup {Token("TAG_DIRECTIVE", h) : h \in {"!", "!e!"}}
    \cup {Token("VERSION_DIRECTIVE", v) : v \in {"supported", "unsupported"}}

AllTokens == StructureTokens \cup DocumentTokens

=============================================================================

----------------------------- MODULE MCEmitter -----------------------------
(* Alphabets for model checking the emitter.                               *)
EXTENDS Emitter

Plain(types) == [type : types]
Starts(implicit, versions, handles) ==
    [type : {"DOCUMENT_START"}, implicit : implicit, version : versions, handles : handles]
Ends(implicit) == [type : {"DOCUMENT_END"}, implicit : implicit]
Collections(flow, short, decorated) ==
    [type : {"SEQUENCE_START", "MAPPING_START"}, flow : flow, short : short,
     decorated : decorated]
Scalars(styles, features, short, plain, quoted, tags) ==
    [type : {"SCALAR"}, style : styles, features : features, short : short,
     plain_implicit : plain, quoted_implicit : quoted, tag : tags]

Frame == Plain({"STREAM_START", "STREAM_END", "SEQUENCE_END", "MAPPING_END"})

\* Everything that nests: block and flow collections, short and long keys.
StructureEvents ==
    Frame
    \cup Starts({TRUE}, {"none"}, {<<>>}) \cup Ends({TRUE})
    \cup Collections(BOOLEAN, {TRUE}, {FALSE})
    \cup {[type |-> "SEQUENCE_START", flow |-> FALSE, short |-> TRUE, decorated |-> TRUE]}
    \cup Scalars({"PLAIN"}, {{}}, BOOLEAN, {TRUE}, {TRUE}, {"none"})

\* Documents: directives, explicit and implicit ends, open-ended scalars.
DocumentEvents ==
    Frame
    \cup Starts(BOOLEAN, {"none", "good", "bad"}, {<<>>})
    \cup Starts(BOOLEAN, {"none"}, {<<"!e!">>, <<"!e!", "!e!">>, <<"!!">>})
    \cup Ends(BOOLEAN)
    \cup [type : {"ALIAS"}, short : {TRUE}]
    \cup Collections({FALSE}, {TRUE}, {FALSE})
    \cup Scalars({"BLOCK"}, {{}, {"break", "edge", "keep"}}, {TRUE}, {TRUE}, {TRUE}, {"none"})

\* The texts a scalar may have, as far as its style depends on them.
Texts ==
    {{}, {"empty"}, {"flow"}, {"flow", "block"}, {"edge"}, {"edge", "space end"},
     {"break"}, {"break", "edge", "keep"}, {"break", "space"}, {"break", "special"},
     {"special"}}

\* Scalars with every text in the styles it matters for, and with every tag and flag, where
\* scalars may stand.
ScalarEvents ==
    Frame
    \cup Starts({TRUE}, {"none"}, {<<>>}) \cup Ends({TRUE})
    \cup [type : {"MAPPING_START"}, flow : BOOLEAN, short : {TRUE}, decorated : {FALSE}]
    \cup Scalars({"PLAIN"}, Texts, {TRUE}, {TRUE}, {TRUE}, {"none"})
    \cup Scalars({"BLOCK"}, {t \in Texts : t \cap {"break", "special", "edge"} # {}},
                 {TRUE}, {TRUE}, {TRUE}, {"none"})
    \cup Scalars({"SINGLE"}, {{}, {"break"}, {"edge", "space end"}, {"special"}}, {TRUE}, {TRUE},
                 {TRUE}, {"none"})
    \cup Scalars({"DOUBLE"}, {{}}, {TRUE}, {TRUE}, {TRUE}, {"none"})
    \cup Scalars({"PLAIN"}, {{}, {"flow", "block"}}, {TRUE}, BOOLEAN, BOOLEAN, {"none", "given"})
    \cup Scalars({"BLOCK"}, {{}}, {TRUE}, BOOLEAN, BOOLEAN, {"none", "given"})

CONSTANTS StructureLength, DocumentLength, ScalarLength    \* bounds

Session(alphabet, length, fail) ==
    [alphabet |-> alphabet, length |-> length, fail |-> fail]
MCSessions ==
    [structure |-> Session(StructureEvents, StructureLength, FALSE),
     documents |-> Session(DocumentEvents, DocumentLength, TRUE),
     scalars   |-> Session(ScalarEvents, ScalarLength, FALSE)]

=============================================================================

----------------------------- MODULE EventStream -----------------------------
(***************************************************************************)
(* What yaml_parser_parse promises its caller about the sequence of events *)
(* it produces: a stream of documents, each one node, collections properly *)
(* nested, every mapping a sequence of key and value pairs.  The stream    *)
(* either comes to its end or is abandoned after an error.                 *)
(*                                                                         *)
(* frames is what is still open, innermost last:                           *)
(*   stream, docs       before STREAM-START, between documents             *)
(*   docend             a document, after its root node                    *)
(*   node               a node is due                                      *)
(*   seq                a sequence: a node, or its end                     *)
(*   key, value         a mapping: a key or its end, a value               *)
(*   pairkey, pairvalue, pairend                                           *)
(*                      a mapping of one pair, standing for an entry of    *)
(*                      the sequence whose frame it takes over meanwhile   *)
(*   done, aborted      nothing more will come                             *)
(***************************************************************************)
EXTENDS Sequences, SequencesExt

VARIABLES
    frames,   \* what is still open
    event     \* the type of the last event, "NO" if the call gave none

streamVars == <<frames, event>>

\* The frame that stays open when a node took the place of the frame top.
Followed(top) ==
    IF top = "seq" THEN "seq"
    ELSE IF top = "key" THEN "value"
    ELSE IF top = "value" THEN "key"
    ELSE IF top = "pairkey" THEN "pairvalue"
    ELSE "pairend"

NodeFrames == {"node", "seq", "key", "value", "pairkey", "pairvalue"}

\* What is open after a node was begun in the innermost frame.
AfterNode(open) ==
    IF Last(open) = "node" THEN Front(open)
    ELSE Append(Front(open), Followed(Last(open)))

Replace(from, to, type) ==
    /\ Last(frames) = from
    /\ frames' = Append(Front(frames), to)
    /\ event' = type

StreamStart == Replace("stream", "docs", "STREAM_START")
StreamEnd == Replace("docs", "done", "STREAM_END")
DocumentEnd == Replace("docend", "docs", "DOCUMENT_END")

DocumentStart ==
    /\ Last(frames) = "docs"
    /\ frames' = Append(Append(Front(frames), "docend"), "node")
    /\ event' = "DOCUMENT_START"

Leaf ==
    /\ Last(frames) \in NodeFrames
    /\ frames' = AfterNode(frames)
    /\ event' \in {"SCALAR", "ALIAS"}

CollectionStart ==
    /\ Last(frames) \in NodeFrames
    /\ \/ /\ frames' = Append(AfterNode(frames), "seq")
          /\ event' = "SEQUENCE_START"
       \/ /\ frames' = Append(AfterNode(frames), "key")
          /\ event' = "MAPPING_START"

CollectionEnd ==
    /\ frames' = Front(frames)
    /\ \/ Last(frames) = "seq" /\ event' = "SEQUENCE_END"
       \/ Last(frames) = "key" /\ event' = "MAPPING_END"

PairStart == Replace("seq", "pairkey", "MAPPING_START")
PairEnd == Replace("pairend", "seq", "MAPPING_END")

\* A call that gives no event leaves the stream where it was, or gives it up.
Nothing ==
    /\ event' = "NO"
    /\ frames' \in {frames, <<"aborted">>}

StreamInit == frames = <<"stream">> /\ event = "NO"

StreamNext ==
    \/ StreamStart \/ StreamEnd \/ DocumentStart \/ DocumentEnd
    \/ Leaf \/ CollectionStart \/ CollectionEnd \/ PairStart \/ PairEnd
    \/ Nothing

StreamSpec == StreamInit /\ [][StreamNext]_streamVars

=============================================================================

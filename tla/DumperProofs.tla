---------------------------- MODULE DumperProofs ----------------------------
(***************************************************************************)
(* What is proved of the dumper for every document, of any size and shape, *)
(* cyclic ones included, and whatever fails: that each block is freed or   *)
(* handed over once, that the emitter is given a stream of events, that    *)
(* those nodes have anchors to which there are aliases, and that the graph *)
(* can be read back from the events.                                       *)
(***************************************************************************)
EXTENDS Dumper, ProofLemmas

-----------------------------------------------------------------------------
(* The inductive invariant.                                                *)

EventTypes ==
    {"DOCUMENT_START", "DOCUMENT_END", "ALIAS", "SCALAR", "SEQUENCE_START", "MAPPING_START",
     "SEQUENCE_END", "MAPPING_END"}

\* Items are nodes of the document, and a mapping has whole pairs.
Built ==
    /\ nodes \in Seq([kind : Kinds, items : Seq(Nat)])
    /\ \A i \in Indexes :
          /\ \A k \in 1 .. Len(nodes[i].items) : nodes[i].items[k] \in Indexes
          /\ nodes[i].kind = "MAPPING" => Len(nodes[i].items) % 2 = 0

\* A collection that dump_node is in, and how far.
Within(c) ==
    /\ c.node \in Indexes
    /\ nodes[c.node].kind # "SCALAR"
    /\ c.next \in 1 .. (Len(nodes[c.node].items) + 1)

Entered ==
    /\ open \in Seq([node : Nat, next : Nat])
    /\ \A k \in 1 .. Len(open) : Within(open[k])

\* The tables of a running call.
Tables ==
    /\ last_anchor_id \in Nat
    /\ pc \in {"document start", "anchor", "dump"} => anchors \in [Indexes -> Nat]
    /\ serialized \subseteq Indexes
    /\ events \in Seq([type : EventTypes, node : Nat, anchor : Nat])

\* Where the call is, and what the emitter has been given.
Control ==
    /\ pc \in {"idle", "open", "start", "document start", "anchor", "dump", "delete"}
    /\ closed => opened
    /\ closed /\ ~ failed => event = "STREAM_END"
    /\ failed => pc \in {"idle", "delete"}
    /\ pc = "open" => ~ opened
    /\ pc \in {"start", "document start", "anchor", "dump"} => opened
    /\ pc \in {"idle", "open", "start", "document start"} =>
          events = <<>> /\ open = <<>> /\ serialized = {}
    /\ pc \in {"document start", "anchor", "dump"} => nodes # <<>>
    /\ pc = "anchor" => open = <<>> /\ Len(events) = 1 /\ serialized = {}
    /\ pc \in {"anchor", "dump"} => ~ closed /\ events # <<>>
    /\ pc = "delete" /\ ~ failed =>
          opened /\ (IF closed THEN events = <<>> ELSE DocumentIsOut)

\* The blocks of a document that has no directives.
Doc == {<<"nodes", 0>>} \cup UNION {BlocksOf(nodes[i].kind, i) : i \in Indexes}
Intact == heap \in {Doc, Doc \cup DirectiveBlocks}

Owned ==
    /\ bad_free = FALSE
    /\ ~ exists => pc = "idle" /\ heap = {} /\ nodes = <<>>
    /\ exists /\ pc \in {"idle", "open", "start"} => Intact
    /\ pc = "document start" =>
          heap \in {Doc \cup {<<"anchors", 0>>},
                    Doc \cup {<<"anchors", 0>>} \cup DirectiveBlocks}
    /\ pc \in {"anchor", "dump"} => heap = LeftOver
    /\ pc = "delete" => heap = LeftOver \/ Intact

Flags ==
    /\ exists \in BOOLEAN /\ opened \in BOOLEAN /\ closed \in BOOLEAN /\ failed \in BOOLEAN

Inv == Built /\ Entered /\ Tables /\ Control /\ Owned /\ Flags

-----------------------------------------------------------------------------
(* The document.                                                           *)

Node == [kind : Kinds, items : Seq(Nat)]
Spot == [node : Nat, next : Nat]
EventRecord == [type : EventTypes, node : Nat, anchor : Nat]

\* The nodes are records, and their items sequences.
LEMMA NodeFacts ==
    ASSUME Inv
    PROVE  /\ nodes \in Seq(Node) /\ Len(nodes) \in Nat /\ DOMAIN nodes = Indexes
           /\ \A i \in Indexes :
                 /\ i \in Nat /\ nodes[i] \in Node /\ nodes[i].kind \in Kinds
                 /\ nodes[i].items \in Seq(Nat) /\ Len(nodes[i].items) \in Nat
<1>1. nodes \in Seq(Node)
  BY DEF Inv, Built, Node
<1>2. Len(nodes) \in Nat /\ DOMAIN nodes = Indexes
  BY <1>1, LenProperties DEF Indexes
<1>3. ASSUME NEW i \in Indexes
      PROVE  /\ i \in Nat /\ nodes[i] \in Node /\ nodes[i].kind \in Kinds
             /\ nodes[i].items \in Seq(Nat) /\ Len(nodes[i].items) \in Nat
  <2>1. i \in Nat /\ nodes[i] \in Node
    BY <1>1, <1>2, ElementOfSeq DEF Indexes
  <2>2. nodes[i].kind \in Kinds /\ nodes[i].items \in Seq(Nat)
    BY <2>1 DEF Node
  <2> QED BY <2>1, <2>2, LenProperties
<1> QED
  BY <1>1, <1>2, <1>3

\* What the document consists of.
LEMMA DocBlocks ==
    /\ \A b : b \in Doc <=> b = <<"nodes", 0>> \/ \E i \in Indexes : b \in BlocksOf(nodes[i].kind, i)
    /\ \A b : b \in LeftOver <=>
         \/ b \in {<<"nodes", 0>>, <<"anchors", 0>>}
         \/ \E i \in Indexes :
               /\ b \in BlocksOf(nodes[i].kind, i)
               /\ i \in serialized => b \notin StringsOf(i)
    /\ WholeDocument = Doc \cup (DirectiveBlocks \cap heap)
<1>1. \A b : b \in Doc <=> b = <<"nodes", 0>> \/ \E i \in Indexes : b \in BlocksOf(nodes[i].kind, i)
  BY Zenon DEF Doc
<1>2. ASSUME NEW b
      PROVE  b \in LeftOver <=>
               \/ b \in {<<"nodes", 0>>, <<"anchors", 0>>}
               \/ \E i \in Indexes :
                     /\ b \in BlocksOf(nodes[i].kind, i)
                     /\ i \in serialized => b \notin StringsOf(i)
  <2>1. b \in LeftOver <=>
           \/ b \in {<<"nodes", 0>>, <<"anchors", 0>>}
           \/ \E i \in Indexes :
                 b \in (IF i \in serialized THEN BlocksOf(nodes[i].kind, i) \ StringsOf(i)
                        ELSE BlocksOf(nodes[i].kind, i))
    BY Zenon DEF LeftOver
  <2> QED BY <2>1, Zenon
<1>3. WholeDocument = Doc \cup (DirectiveBlocks \cap heap)
  BY Zenon DEF WholeDocument, Doc
<1> QED
  BY <1>1, <1>2, <1>3

\* A block tells its kind and its node.
LEMMA BlockNames ==
    ASSUME NEW kind, NEW i
    PROVE  /\ \A b \in BlocksOf(kind, i) :
                 b \in {<<"tag", i>>, <<"value", i>>, <<"items", i>>}
           /\ <<"anchors", 0>> \notin BlocksOf(kind, i)
           /\ \A b \in DirectiveBlocks : b \notin BlocksOf(kind, i)
BY DEF BlocksOf, DirectiveBlocks

\* No block of the nodes is a directive, the table of anchors or the array.
LEMMA BlocksApart ==
    /\ <<"anchors", 0>> \notin Doc
    /\ <<"anchors", 0>> \notin DirectiveBlocks
    /\ Doc \cap DirectiveBlocks = {}
    /\ LeftOver \cap DirectiveBlocks = {}
    /\ <<"anchors", 0>> \in LeftOver
    /\ serialized = {} => LeftOver = Doc \cup {<<"anchors", 0>>}
<1>1. /\ <<"anchors", 0>> # <<"nodes", 0>>
      /\ <<"anchors", 0>> \notin DirectiveBlocks /\ <<"nodes", 0>> \notin DirectiveBlocks
  BY DEF DirectiveBlocks
<1>2. <<"anchors", 0>> \notin Doc
  BY <1>1, DocBlocks, BlockNames, Zenon
<1>3. Doc \cap DirectiveBlocks = {} /\ LeftOver \cap DirectiveBlocks = {}
  <2>1. ASSUME NEW b \in DirectiveBlocks
        PROVE  b \notin Doc /\ b \notin LeftOver
    <3>1. b # <<"nodes", 0>> /\ b # <<"anchors", 0>>
      BY <1>1
    <3>2. \A i : b \notin BlocksOf(nodes[i].kind, i)
      BY BlockNames
    <3> QED BY <3>1, <3>2, DocBlocks, Zenon
  <2> QED BY <2>1
<1>4. <<"anchors", 0>> \in LeftOver
  BY DocBlocks, Zenon
<1>5. serialized = {} => LeftOver = Doc \cup {<<"anchors", 0>>}
  BY DocBlocks, Zenon
<1> QED
  BY <1>1, <1>2, <1>3, <1>4, <1>5

\* Steps that leave the nodes and the open collections alone.
LEMMA SameDocument ==
    ASSUME Inv, UNCHANGED <<nodes, open>>
    PROVE  /\ Built' /\ Entered' /\ Indexes' = Indexes /\ Doc' = Doc
           /\ (UNCHANGED serialized => LeftOver' = LeftOver)
BY DEF Inv, Built, Entered, Within, Indexes, Doc, LeftOver, StringsOf

-----------------------------------------------------------------------------
(* Building.                                                               *)

\* The invariant holds before the first dump.
LEMMA InitInv == Init => Inv
<1> SUFFICES ASSUME Init PROVE Inv
  OBVIOUS
<1>1. /\ nodes = <<>> /\ open = <<>> /\ events = <<>> /\ serialized = {} /\ heap = {}
      /\ pc = "idle" /\ last_anchor_id = 0
  BY DEF Init
<1>2. exists = FALSE /\ bad_free = FALSE /\ opened = FALSE /\ closed = FALSE /\ failed = FALSE
  BY Zenon DEF Init
<1>3. Len(<<>>) = 0 /\ \A S : <<>> \in Seq(S)
  BY EmptySeq
<1>4. Indexes = {} /\ 1 .. Len(open) = {}
  BY <1>1, <1>3 DEF Indexes
<1>5. Built /\ Entered
  BY <1>1, <1>3, <1>4 DEF Built, Entered
<1>6. Tables
  BY <1>1, <1>3, <1>4 DEF Tables
<1>7. Control /\ Owned /\ Flags
  BY <1>1, <1>2 DEF Control, Owned, Flags
<1> QED
  BY <1>5, <1>6, <1>7 DEF Inv

\* yaml_document_initialize
LEMMA InitializeKeeps ==
    ASSUME Inv, NEW directives \in BOOLEAN, document_initialize(directives)
    PROVE  Inv'
<1>1. /\ pc = "idle" /\ nodes' = <<>> /\ open' = open /\ pc' = pc
      /\ heap' = {<<"nodes", 0>>} \cup (IF directives THEN DirectiveBlocks ELSE {})
      /\ UNCHANGED <<last_anchor_id, serialized, events, event>>
  BY DEF document_initialize, building, tables
<1>2. exists' = TRUE /\ UNCHANGED <<bad_free, opened, closed, failed>>
  BY Zenon DEF document_initialize
<1>3. /\ open = <<>> /\ events = <<>> /\ serialized = {} /\ bad_free = FALSE
      /\ last_anchor_id \in Nat
  BY <1>1 DEF Inv, Control, Owned, Tables
<1>4. Len(<<>>) = 0 /\ \A S : <<>> \in Seq(S)
  BY EmptySeq
<1>5. Indexes' = {} /\ 1 .. Len(open') = {}
  BY <1>1, <1>3, <1>4 DEF Indexes
<1>6. Built' /\ Entered'
  BY <1>1, <1>3, <1>4, <1>5 DEF Built, Entered
<1>7. Tables'
  BY <1>1, <1>3, <1>4, <1>5 DEF Tables
<1>8. Flags' /\ Control'
  <2>1. Flags'
    BY <1>2 DEF Inv, Flags
  <2>2. Control'
    BY <1>1, <1>2, <1>3 DEF Inv, Control, Flags
  <2> QED BY <2>1, <2>2
<1>9. Owned'
  <2>1. Doc' = {<<"nodes", 0>>}
    BY <1>5 DEF Doc
  <2>2. Intact'
    BY <1>1, <2>1 DEF Intact
  <2> QED BY <1>1, <1>2, <1>3, <2>2 DEF Owned
<1> QED
  BY <1>6, <1>7, <1>8, <1>9 DEF Inv

\* yaml_document_add_scalar, _sequence and _mapping.
LEMMA AddNodeKeeps ==
    ASSUME Inv, NEW kind \in Kinds, add_node(kind)
    PROVE  Inv'
<1> DEFINE n == Len(nodes) + 1
           new == [kind |-> kind, items |-> <<>>]
<1>1. /\ pc = "idle" /\ nodes' = Append(nodes, new) /\ open' = open /\ pc' = pc
      /\ heap' = heap \cup BlocksOf(kind, n)
      /\ UNCHANGED <<last_anchor_id, serialized, events, event>>
  BY DEF add_node, building, tables
<1>2. exists /\ UNCHANGED <<exists, bad_free, opened, closed, failed>>
  BY Zenon DEF add_node
<1>3. /\ open = <<>> /\ events = <<>> /\ serialized = {} /\ bad_free = FALSE
      /\ last_anchor_id \in Nat /\ Intact
  BY <1>1, <1>2 DEF Inv, Control, Owned, Tables
<1>4. Len(<<>>) = 0 /\ \A S : <<>> \in Seq(S)
  BY EmptySeq
<1>5. new \in Node /\ new.kind = kind /\ new.items = <<>>
  BY <1>4 DEF Node
<1> HIDE DEF new
<1>6. /\ nodes' \in Seq(Node) /\ Len(nodes') = n /\ Len(nodes) \in Nat
      /\ \A i \in Indexes : nodes'[i] = nodes[i]
      /\ nodes'[n] = new
  <2>1. /\ Append(nodes, new) \in Seq(Node) /\ Len(Append(nodes, new)) = Len(nodes) + 1
        /\ \A i \in 1 .. Len(nodes) : Append(nodes, new)[i] = nodes[i]
        /\ Append(nodes, new)[Len(nodes) + 1] = new
    BY <1>5, NodeFacts, PushPop
  <2> QED BY <1>1, <2>1, NodeFacts DEF Indexes
<1>7. Indexes' = Indexes \cup {n} /\ n \notin Indexes
  BY <1>6 DEF Indexes
<1>8. Built'
  <2>1. ASSUME NEW i \in Indexes'
        PROVE  /\ \A k \in 1 .. Len(nodes'[i].items) : nodes'[i].items[k] \in Indexes'
               /\ nodes'[i].kind = "MAPPING" => Len(nodes'[i].items) % 2 = 0
    <3>1. CASE i \in Indexes
      BY <1>6, <1>7, <3>1 DEF Inv, Built
    <3>2. CASE i = n
      <4>1. nodes'[i].items = <<>>
        BY <1>5, <1>6, <3>2
      <4>2. Len(nodes'[i].items) = 0
        BY <1>4, <4>1
      <4>3. 0 % 2 = 0 /\ 1 .. 0 = {}
        OBVIOUS
      <4> QED BY <4>2, <4>3
    <3> QED BY <1>7, <3>1, <3>2
  <2> QED BY <1>6, <2>1 DEF Built, Node
<1>9. Entered' /\ Tables'
  <2>1. 1 .. Len(open') = {} /\ open' = <<>>
    BY <1>1, <1>3, <1>4
  <2> QED BY <1>1, <1>3, <1>4, <2>1 DEF Entered, Tables
<1>10. Flags' /\ Control'
  <2>1. Flags'
    BY <1>2 DEF Inv, Flags
  <2>2. Control'
    BY <1>1, <1>2, <1>3 DEF Inv, Control, Flags
  <2> QED BY <2>1, <2>2
<1>11. Owned'
  <2>1. Doc' = Doc \cup BlocksOf(kind, n)
    <3>1. \A b : b \in Doc' <=> b = <<"nodes", 0>> \/ \E i \in Indexes' : b \in BlocksOf(nodes'[i].kind, i)
      BY Zenon DEF Doc
    <3>2. \A i \in Indexes : BlocksOf(nodes'[i].kind, i) = BlocksOf(nodes[i].kind, i)
      BY <1>6
    <3>3. BlocksOf(nodes'[n].kind, n) = BlocksOf(kind, n)
      BY <1>5, <1>6
    <3> QED BY <1>7, <3>1, <3>2, <3>3, DocBlocks, Zenon
  <2>2. Intact'
    BY <1>1, <1>3, <2>1 DEF Intact, DirectiveBlocks
  <2> QED BY <1>1, <1>2, <1>3, <2>2 DEF Owned
<1> QED
  BY <1>8, <1>9, <1>10, <1>11 DEF Inv

\* yaml_document_append_sequence_item and _mapping_pair: whole pairs are added.
LEMMA AppendKeeps ==
    ASSUME Inv, NEW i \in Indexes, NEW added \in Seq(Nat),
           \A k \in 1 .. Len(added) : added[k] \in Indexes,
           NEW kind, kind = "SEQUENCE" \/ (kind = "MAPPING" /\ Len(added) = 2),
           Append_to(kind, i, added)
    PROVE  Inv'
<1> DEFINE old == nodes[i].items
           longer == old \o added
<1>1. /\ pc = "idle" /\ nodes[i].kind = kind /\ open' = open /\ pc' = pc /\ heap' = heap
      /\ nodes' = [nodes EXCEPT ![i].items = longer]
      /\ UNCHANGED <<last_anchor_id, serialized, events, event>>
  BY DEF Append_to, building, tables
<1>2. exists /\ UNCHANGED <<exists, bad_free, opened, closed, failed>>
  BY Zenon DEF Append_to
<1>3. /\ open = <<>> /\ events = <<>> /\ serialized = {} /\ bad_free = FALSE
      /\ last_anchor_id \in Nat /\ Intact
  BY <1>1, <1>2 DEF Inv, Control, Owned, Tables
<1>4. Len(<<>>) = 0 /\ \A S : <<>> \in Seq(S)
  BY EmptySeq
<1>5. /\ nodes \in Seq(Node) /\ i \in DOMAIN nodes /\ nodes[i] \in Node /\ Len(nodes) \in Nat
      /\ old \in Seq(Nat) /\ Len(old) \in Nat
  BY NodeFacts
<1>6. /\ longer \in Seq(Nat) /\ Len(longer) = Len(old) + Len(added)
      /\ \A k \in 1 .. Len(longer) :
            longer[k] = IF k <= Len(old) THEN old[k] ELSE added[k - Len(old)]
      /\ Len(added) \in Nat
  BY <1>5, ConcatProperties, LenProperties
<1> HIDE DEF longer
<1>7. /\ nodes' \in Seq(Node) /\ Len(nodes') = Len(nodes)
      /\ \A j \in Indexes : j # i => nodes'[j] = nodes[j]
      /\ nodes'[i].items = longer /\ nodes'[i].kind = kind
  <2> DEFINE m == [nodes[i] EXCEPT !.items = longer]
  <2>1. m \in Node /\ m.items = longer /\ m.kind = kind
    BY <1>1, <1>5, <1>6 DEF Node
  <2>2. nodes' = [nodes EXCEPT ![i] = m]
    BY <1>1
  <2> HIDE DEF m
  <2>3. nodes' \in Seq(Node) /\ Len(nodes') = Len(nodes)
    BY <1>5, <2>1, <2>2, ExceptSeq
  <2>4. nodes'[i] = m /\ \A j \in Indexes : j # i => nodes'[j] = nodes[j]
    BY <1>5, <2>2, NodeFacts
  <2> QED BY <2>1, <2>3, <2>4
<1>8. Indexes' = Indexes
  BY <1>7 DEF Indexes
<1>9. Built'
  <2>1. ASSUME NEW j \in Indexes'
        PROVE  /\ \A k \in 1 .. Len(nodes'[j].items) : nodes'[j].items[k] \in Indexes'
               /\ nodes'[j].kind = "MAPPING" => Len(nodes'[j].items) % 2 = 0
    <3>1. CASE j # i
      BY <1>7, <1>8, <3>1 DEF Inv, Built
    <3>2. CASE j = i
      <4>1. /\ \A k \in 1 .. Len(old) : old[k] \in Indexes
            /\ kind = "MAPPING" => Len(old) % 2 = 0
        BY <1>1 DEF Inv, Built
      <4>2. ASSUME NEW k \in 1 .. Len(longer) PROVE longer[k] \in Indexes
        <5>1. CASE k <= Len(old)
          <6>1. k \in 1 .. Len(old)
            BY <1>5, <1>6, <5>1
          <6> QED BY <1>6, <4>1, <5>1, <6>1
        <5>2. CASE ~ (k <= Len(old))
          <6>1. k - Len(old) \in 1 .. Len(added)
            BY <1>5, <1>6, <5>2
          <6> QED BY <1>6, <5>2, <6>1
        <5> QED BY <5>1, <5>2
      <4>3. kind = "MAPPING" => Len(longer) % 2 = 0
        <5>1. \A x \in Nat : x % 2 = 0 => (x + 2) % 2 = 0
          OBVIOUS
        <5> QED BY <1>5, <1>6, <4>1, <5>1
      <4> QED BY <1>7, <1>8, <3>2, <4>2, <4>3
    <3> QED BY <3>1, <3>2
  <2> QED BY <1>7, <2>1 DEF Built, Node
<1>10. Entered' /\ Tables'
  <2>1. 1 .. Len(open') = {} /\ open' = <<>>
    BY <1>1, <1>3, <1>4
  <2> QED BY <1>1, <1>3, <1>4, <2>1 DEF Entered, Tables
<1>11. Flags' /\ Control'
  <2>1. Flags'
    BY <1>2 DEF Inv, Flags
  <2>2. Control'
    BY <1>1, <1>2, <1>3 DEF Inv, Control, Flags
  <2> QED BY <2>1, <2>2
<1>12. Owned'
  <2>1. \A j \in Indexes : nodes'[j].kind = nodes[j].kind
    BY <1>1, <1>7
  <2>2. Doc' = Doc
    BY <1>8, <2>1 DEF Doc
  <2>3. Intact'
    BY <1>1, <1>3, <2>2 DEF Intact, DirectiveBlocks
  <2> QED BY <1>1, <1>2, <1>3, <2>3 DEF Owned
<1> QED
  BY <1>9, <1>10, <1>11, <1>12 DEF Inv

\* What is left when the document and the tables are gone.
LEMMA NothingLeft ==
    ASSUME Inv, nodes' = <<>>, open' = <<>>, events' = <<>>, serialized' = {},
           last_anchor_id' \in Nat, heap' = {}, bad_free' = FALSE, exists' = FALSE,
           pc' = "idle", UNCHANGED <<opened, closed, event, failed>>
    PROVE  Inv'
<1>1. Len(<<>>) = 0 /\ \A S : <<>> \in Seq(S)
  BY EmptySeq
<1>2. Indexes' = {} /\ 1 .. Len(open') = {}
  BY <1>1 DEF Indexes
<1>3. Built' /\ Entered'
  BY <1>1, <1>2 DEF Built, Entered
<1>4. Tables'
  BY <1>1, <1>2 DEF Tables
<1>5. Control'
  BY DEF Inv, Control
<1>6. Owned' /\ Flags'
  <2>1. Owned'
    BY DEF Owned
  <2>2. Flags'
    BY DEF Inv, Flags
  <2> QED BY <2>1, <2>2
<1> QED
  BY <1>3, <1>4, <1>5, <1>6 DEF Inv

\* yaml_document_delete
LEMMA DeleteKeeps ==
    ASSUME Inv, document_delete
    PROVE  Inv'
<1>1. /\ pc = "idle" /\ heap' = heap \ WholeDocument /\ nodes' = <<>> /\ pc' = pc
      /\ UNCHANGED <<last_anchor_id, serialized, events, event, open>>
  BY DEF document_delete, building, tables, Free
<1>2. /\ exists /\ exists' = FALSE /\ UNCHANGED <<opened, closed, failed>>
      /\ bad_free' = (bad_free \/ ~ WholeDocument \subseteq heap)
  BY Zenon DEF document_delete, Free
<1>3. /\ open = <<>> /\ events = <<>> /\ serialized = {} /\ bad_free = FALSE
      /\ last_anchor_id \in Nat /\ Intact
  BY <1>1, <1>2 DEF Inv, Control, Owned, Tables
<1>4. WholeDocument = heap
  BY <1>3, DocBlocks, BlocksApart DEF Intact
<1>5. heap' = {} /\ bad_free' = FALSE
  BY <1>1, <1>2, <1>3, <1>4
<1> QED
  BY <1>1, <1>2, <1>3, <1>5, NothingLeft

-----------------------------------------------------------------------------
(* The calls that leave the document and the tables alone.                 *)

\* pc, the flags and the last event may change.
LEMMA QuietKeeps ==
    ASSUME Inv,
           UNCHANGED <<exists, nodes, heap, bad_free, open, serialized, last_anchor_id, events>>,
           exists,
           Control', Flags',
           \/ pc \in {"idle", "open", "start"} /\ pc' \in {"idle", "open", "start", "delete"}
           \/ pc = "anchor" /\ pc' \in {"anchor", "dump"} /\ anchors' \in [Indexes -> Nat]
           \/ pc = "dump" /\ pc' = "delete"
    PROVE  Inv'
<1>1. /\ Built' /\ Entered' /\ Indexes' = Indexes /\ Doc' = Doc /\ LeftOver' = LeftOver
  BY SameDocument
<1>2. Tables'
  BY <1>1 DEF Inv, Tables
<1>3. Owned'
  BY <1>1 DEF Inv, Owned, Intact, DirectiveBlocks
<1> QED
  BY <1>1, <1>2, <1>3 DEF Inv

\* yaml_emitter_open, yaml_emitter_close; yaml_emitter_dump until it has
\* decided what to do.
LEMMA OpenKeeps ==
    ASSUME Inv, NEW ok \in BOOLEAN,
           emitter_open(ok) \/ emitter_close(ok) \/ emitter_dump \/ dump_open(ok) \/ dump_nothing(ok)
    PROVE  Inv'
<1>1. /\ UNCHANGED <<exists, nodes, heap, bad_free, open, serialized, last_anchor_id, events>>
      /\ \/ pc = "idle" /\ pc' = "idle"
         \/ pc = "idle" /\ pc' \in {"open", "start"} /\ exists
         \/ pc = "open" /\ pc' \in {"start", "delete"}
         \/ pc = "start" /\ pc' = "delete"
  BY DEF emitter_open, emitter_close, emitter_dump, dump_open, dump_nothing, document, tables,
         building
<1>2. Flags'
  <2>1. /\ opened' \in {opened, ok} /\ closed' \in {closed, ok} /\ failed' \in {failed, ~ ok}
        /\ exists' = exists
    BY <1>1, Zenon DEF emitter_open, emitter_close, emitter_dump, dump_open, dump_nothing
  <2>2. (~ ok) \in BOOLEAN
    OBVIOUS
  <2> QED BY <2>1, <2>2, Zenon DEF Inv, Flags
<1>3. Control'
  <2>1. events' = events /\ open' = open /\ serialized' = serialized /\ nodes' = nodes
    BY <1>1
  <2>2. CASE emitter_open(ok)
    BY <2>1, <2>2 DEF Inv, Control, emitter_open, building, Flags
  <2>3. CASE emitter_close(ok)
    BY <2>1, <2>3 DEF Inv, Control, emitter_close, building, Flags
  <2>4. CASE emitter_dump
    BY <2>1, <2>4 DEF Inv, Control, emitter_dump, building, Flags
  <2>5. CASE dump_open(ok)
    BY <2>1, <2>5 DEF Inv, Control, dump_open, Flags
  <2>6. CASE dump_nothing(ok)
    BY <2>1, <2>6 DEF Inv, Control, dump_nothing, Flags
  <2> QED BY <2>2, <2>3, <2>4, <2>5, <2>6
<1>4. CASE exists
  BY <1>1, <1>2, <1>3, <1>4, QuietKeeps
<1>5. CASE ~ exists
  <2>1. pc = "idle" /\ pc' = "idle"
    BY <1>1, <1>5 DEF Inv, Owned
  <2>2. Built' /\ Entered' /\ Indexes' = Indexes
    BY <1>1, SameDocument
  <2>3. Tables'
    BY <1>1, <2>1, <2>2 DEF Inv, Tables
  <2>4. Owned'
    BY <1>1, <1>5, <2>1 DEF Inv, Owned
  <2> QED BY <1>2, <1>3, <2>2, <2>3, <2>4 DEF Inv
<1> QED
  BY <1>4, <1>5

-----------------------------------------------------------------------------
(* Dumping.                                                                *)

\* The table of anchors is made, or cannot be made.
LEMMA AnchorsKeep ==
    ASSUME Inv, NEW ok \in BOOLEAN, dump_anchors(ok)
    PROVE  Inv'
<1>1. /\ pc = "start" /\ nodes # <<>>
      /\ UNCHANGED <<nodes, serialized, last_anchor_id, open, events, event>>
  BY DEF dump_anchors, document
<1>2. exists' = exists /\ UNCHANGED <<bad_free, opened, closed>>
  BY Zenon DEF dump_anchors, document
<1>3. /\ open = <<>> /\ events = <<>> /\ serialized = {} /\ bad_free = FALSE
      /\ last_anchor_id \in Nat /\ Intact /\ exists /\ opened
  BY <1>1 DEF Inv, Control, Owned, Tables
<1>4. Built' /\ Entered' /\ Indexes' = Indexes /\ Doc' = Doc /\ LeftOver' = LeftOver
  BY <1>1, SameDocument
<1>5. CASE ok
  <2>1. /\ heap' = heap \cup {<<"anchors", 0>>} /\ pc' = "document start"
        /\ anchors' = [i \in Indexes |-> 0]
    BY <1>5 DEF dump_anchors
  <2>2. failed' = failed
    BY <1>5, Zenon DEF dump_anchors
  <2>3. Tables'
    BY <1>1, <1>4, <2>1 DEF Inv, Tables
  <2>4. Control'
    BY <1>1, <1>2, <1>3, <2>1, <2>2 DEF Inv, Control
  <2>5. Owned'
    BY <1>2, <1>3, <1>4, <2>1 DEF Owned, Intact
  <2>6. Flags'
    BY <1>2, <2>2 DEF Inv, Flags
  <2> QED BY <1>4, <2>3, <2>4, <2>5, <2>6 DEF Inv
<1>6. CASE ~ ok
  <2>1. heap' = heap /\ pc' = "delete"
    BY <1>6 DEF dump_anchors
  <2>2. failed' = TRUE
    BY <1>6, Zenon DEF dump_anchors
  <2>3. Control'
    BY <1>1, <1>2, <1>3, <2>1, <2>2 DEF Inv, Control
  <2>4. Flags'
    BY <1>2, <2>2 DEF Inv, Flags
  <2> QED
    BY <1>1, <1>2, <1>3, <2>1, <2>3, <2>4, QuietKeeps
<1> QED
  BY <1>5, <1>6

\* One more event is in the list.
LEMMA Emitted ==
    ASSUME Inv, NEW type \in EventTypes, NEW node \in Nat, NEW anchor \in Nat, NEW blocks,
           Emit(type, node, anchor, blocks)
    PROVE  /\ events' \in Seq(EventRecord) /\ events' # <<>> /\ Len(events') = Len(events) + 1
           /\ Len(events) \in Nat
           /\ Last(events').type = type /\ event' = type
           /\ heap' = heap \ blocks
           /\ bad_free' = (bad_free \/ ~ blocks \subseteq heap)
<1> DEFINE e == [type |-> type, node |-> node, anchor |-> anchor]
<1>1. events \in Seq(EventRecord) /\ e \in EventRecord /\ e.type = type
  BY DEF Inv, Tables, EventRecord
<1>2. events' = Append(events, e)
  BY DEF Emit
<1> HIDE DEF e
<1>3. /\ events' \in Seq(EventRecord) /\ events' # <<>> /\ Len(events') = Len(events) + 1
      /\ Last(events') = e /\ Len(events) \in Nat
  BY <1>1, <1>2, PushPop, LenProperties
<1>4. event' = type /\ heap' = heap \ blocks
  BY DEF Emit, Free
<1>5. bad_free' = (bad_free \/ ~ blocks \subseteq heap)
  BY Zenon DEF Emit, Free
<1> QED
  BY <1>1, <1>3, <1>4, <1>5

\* The same for an event that takes no strings with it.
LEMMA EmittedAlone ==
    ASSUME Inv, NEW type \in EventTypes, NEW node \in Nat, NEW anchor \in Nat,
           Emit(type, node, anchor, {})
    PROVE  /\ events' \in Seq(EventRecord) /\ events' # <<>> /\ Len(events') = Len(events) + 1
           /\ Len(events) \in Nat
           /\ Last(events').type = type /\ event' = type
           /\ heap' = heap
           /\ bad_free' = bad_free
<1>1. PICK none : none = {}
  OBVIOUS
<1>2. Emit(type, node, anchor, none)
  BY <1>1
<1>3. /\ events' \in Seq(EventRecord) /\ events' # <<>> /\ Len(events') = Len(events) + 1
      /\ Len(events) \in Nat
      /\ Last(events').type = type /\ event' = type
      /\ heap' = heap \ none
      /\ bad_free' = (bad_free \/ ~ none \subseteq heap)
  BY <1>2, Emitted
<1>4. bad_free = FALSE
  BY DEF Inv, Owned
<1> QED
  BY <1>1, <1>3, <1>4

\* A failing event gives up the document; what it took over is gone.
LEMMA FailKeeps ==
    ASSUME Inv, NEW blocks, EmitFails(blocks), pc' = "delete", exists,
           UNCHANGED <<exists, nodes, opened, closed, last_anchor_id, open>>,
           blocks \subseteq heap,
           heap \ blocks = LeftOver', serialized' \subseteq Indexes
    PROVE  Inv'
<1>1. /\ heap' = heap \ blocks /\ events' = events
  BY DEF EmitFails, Free
<1>2. failed' = TRUE /\ bad_free' = (bad_free \/ ~ blocks \subseteq heap)
  BY Zenon DEF EmitFails, Free
<1>3. bad_free = FALSE
  BY DEF Inv, Owned
<1>4. bad_free' = FALSE
  BY <1>2, <1>3
<1>5. Built' /\ Entered' /\ Indexes' = Indexes
  BY SameDocument
<1>6. Tables'
  BY <1>1, <1>5 DEF Inv, Tables
<1>7. Control'
  BY <1>2 DEF Inv, Control
<1>8. Owned'
  BY <1>1, <1>4 DEF Owned
<1>9. Flags'
  BY <1>2 DEF Inv, Flags
<1> QED
  BY <1>5, <1>6, <1>7, <1>8, <1>9 DEF Inv

\* DOCUMENT-START takes the directives.
LEMMA DocumentStartKeeps ==
    ASSUME Inv, dump_document_start
    PROVE  Inv'
<1> DEFINE blocks == DirectiveBlocks \cap heap
<1>1. /\ pc = "document start"
      /\ UNCHANGED <<nodes, open, anchors, serialized, last_anchor_id>>
  BY DEF dump_document_start, document
<1>2. exists' = exists /\ UNCHANGED <<opened, closed>>
  BY Zenon DEF dump_document_start, document
<1>3. /\ open = <<>> /\ events = <<>> /\ serialized = {} /\ bad_free = FALSE
      /\ nodes # <<>> /\ opened /\ exists
      /\ heap \in {Doc \cup {<<"anchors", 0>>},
                   Doc \cup {<<"anchors", 0>>} \cup DirectiveBlocks}
  BY <1>1 DEF Inv, Control, Owned
<1>4. Built' /\ Entered' /\ Indexes' = Indexes /\ LeftOver' = LeftOver
  BY <1>1, SameDocument
<1>5. heap \ blocks = LeftOver /\ blocks \subseteq heap
  BY <1>3, BlocksApart
<1> HIDE DEF blocks
<1>6. CASE /\ ~ closed /\ Emit("DOCUMENT_START", 0, 0, blocks)
           /\ pc' = "anchor" /\ UNCHANGED failed
  <2>1. "DOCUMENT_START" \in EventTypes /\ 0 \in Nat
    BY DEF EventTypes
  <2>2. /\ events' \in Seq(EventRecord) /\ events' # <<>> /\ Len(events') = Len(events) + 1
        /\ Len(events) \in Nat /\ heap' = heap \ blocks
        /\ bad_free' = (bad_free \/ ~ blocks \subseteq heap)
    BY <1>6, <2>1, Emitted
  <2>3. Len(events') = 1
    BY <1>3, <2>2, EmptySeq
  <2>4. bad_free' = FALSE
    BY <1>3, <1>5, <2>2
  <2>5. Tables'
    BY <1>1, <1>4, <1>6, <2>2 DEF Inv, Tables, EventRecord
  <2>6. Control'
    BY <1>1, <1>2, <1>3, <1>6, <2>2, <2>3 DEF Inv, Control
  <2>7. Owned'
    BY <1>2, <1>3, <1>4, <1>5, <1>6, <2>2, <2>4 DEF Owned
  <2>8. Flags'
    BY <1>2, <1>6 DEF Inv, Flags
  <2> QED BY <1>4, <2>5, <2>6, <2>7, <2>8 DEF Inv
<1>7. CASE EmitFails(blocks) /\ pc' = "delete"
  <2>1. serialized' \subseteq Indexes
    BY <1>1, <1>3
  <2> QED
    BY <1>1, <1>2, <1>3, <1>4, <1>5, <1>7, <2>1, FailKeeps
<1> QED
  BY <1>6, <1>7 DEF dump_document_start, blocks

\* yaml_emitter_anchor_node
LEMMA AnchorNodeKeeps ==
    ASSUME Inv, anchor_node \/ anchored
    PROVE  Inv'
<1>1. /\ pc = "anchor" /\ pc' \in {"anchor", "dump"}
      /\ UNCHANGED <<nodes, heap, open, events, event, serialized>>
      /\ \/ UNCHANGED <<last_anchor_id, anchors>>
         \/ \E i : /\ last_anchor_id' = last_anchor_id + 1
                   /\ anchors' = [anchors EXCEPT ![i] = last_anchor_id + 1]
  BY DEF anchor_node, anchored, document, tables
<1>2. exists' = exists /\ UNCHANGED <<bad_free, opened, closed, failed>>
  BY Zenon DEF anchor_node, anchored, document
<1>3. anchors \in [Indexes -> Nat] /\ last_anchor_id \in Nat
  BY <1>1 DEF Inv, Tables
<1>4. anchors' \in [Indexes -> Nat] /\ last_anchor_id' \in Nat
  BY <1>1, <1>3
<1>5. Built' /\ Entered' /\ Indexes' = Indexes /\ LeftOver' = LeftOver
  BY <1>1, SameDocument
<1>6. Tables'
  BY <1>1, <1>4, <1>5 DEF Inv, Tables
<1>7. Control'
  BY <1>1, <1>2 DEF Inv, Control
<1>8. Owned'
  BY <1>1, <1>2, <1>5 DEF Inv, Owned
<1>9. Flags'
  BY <1>2 DEF Inv, Flags
<1> QED
  BY <1>5, <1>6, <1>7, <1>8, <1>9 DEF Inv

\* The innermost open collection.
LEMMA Innermost ==
    ASSUME Inv, open # <<>>
    PROVE  /\ Len(open) \in Nat \ {0}
           /\ Last(open) \in Spot /\ Within(Last(open))
           /\ Front(open) \in Seq(Spot) /\ Len(Front(open)) = Len(open) - 1
           /\ \A k \in 1 .. (Len(open) - 1) : Front(open)[k] = open[k]
           /\ \A k \in 1 .. Len(Front(open)) : Within(Front(open)[k])
<1>1. open \in Seq(Spot)
  BY DEF Inv, Entered, Spot
<1>2. /\ Len(open) \in Nat \ {0} /\ Front(open) \in Seq(Spot) /\ Len(Front(open)) = Len(open) - 1
      /\ \A k \in 1 .. (Len(open) - 1) : Front(open)[k] = open[k]
      /\ Last(open) = open[Len(open)]
  BY <1>1, PopFacts
<1>3. Len(open) \in 1 .. Len(open)
  BY <1>2
<1>4. Last(open) \in Spot /\ Within(Last(open))
  BY <1>1, <1>2, <1>3, ElementOfSeq DEF Inv, Entered
<1>5. ASSUME NEW k \in 1 .. Len(Front(open)) PROVE Within(Front(open)[k])
  <2>1. k \in 1 .. (Len(open) - 1) /\ k \in 1 .. Len(open)
    BY <1>2
  <2> QED BY <1>2, <2>1 DEF Inv, Entered
<1> QED
  BY <1>2, <1>4, <1>5

\* A loop that has gone on to its next item is still that node's.
LEMMA NextSpot ==
    ASSUME NEW c \in Spot
    PROVE  /\ c.next \in Nat
           /\ [c EXCEPT !.next = @ + 1] \in Spot
           /\ [c EXCEPT !.next = @ + 1].node = c.node
           /\ [c EXCEPT !.next = @ + 1].next = c.next + 1
<1>1. c.next \in Nat /\ c.node \in Nat
  BY DEF Spot
<1>2. c.next + 1 \in Nat
  BY <1>1
<1> QED BY <1>1, <1>2 DEF Spot

\* The node that is due is one of the document, and the loop of its collection
\* can go on behind it.
LEMMA DueFacts ==
    ASSUME Inv, pc = "dump", RootIsDue \/ InItems
    PROVE  /\ Due \in Indexes
           /\ Advanced \in Seq(Spot) /\ \A k \in 1 .. Len(Advanced) : Within(Advanced[k])
           /\ open = <<>> => Advanced = <<>>
           /\ open # <<>> =>
                 /\ Advanced = Append(Front(open), [Last(open) EXCEPT !.next = @ + 1])
                 /\ [Last(open) EXCEPT !.next = @ + 1] \in Spot
                 /\ Within([Last(open) EXCEPT !.next = @ + 1])
<1>1. CASE open = <<>>
  <2>1. Due = 1 /\ Advanced = <<>>
    BY <1>1 DEF Due, Advanced
  <2>2. 1 \in Indexes
    <3>1. nodes # <<>>
      BY DEF Inv, Control
    <3>2. Len(nodes) \in Nat /\ Len(nodes) # 0
      BY <3>1, NodeFacts, EmptySeq
    <3> QED BY <3>2 DEF Indexes
  <2>3. <<>> \in Seq(Spot) /\ 1 .. Len(<<>>) = {}
    BY EmptySeq
  <2> QED BY <1>1, <2>1, <2>2, <2>3
<1>2. CASE open # <<>>
  <2> DEFINE c == Last(open)
             d == [c EXCEPT !.next = @ + 1]
  <2>1. /\ c \in Spot /\ Within(c) /\ Front(open) \in Seq(Spot)
        /\ \A k \in 1 .. Len(Front(open)) : Within(Front(open)[k])
    BY <1>2, Innermost
  <2>2. c.next <= Len(nodes[c.node].items)
    BY <1>2 DEF InItems, RootIsDue
  <2> HIDE DEF c
  <2>3. /\ c.node \in Indexes /\ c.next \in Nat \ {0}
        /\ Len(nodes[c.node].items) \in Nat
    BY <2>1, NodeFacts DEF Within, Spot
  <2>4. c.next \in 1 .. Len(nodes[c.node].items)
    BY <2>2, <2>3
  <2>5. Due \in Indexes
    BY <1>2, <2>3, <2>4 DEF Inv, Built, Due, c
  <2>6. d \in Spot /\ d.node = c.node /\ d.next = c.next + 1
    BY <2>1, NextSpot, Zenon
  <2>7. Within(d)
    BY <2>1, <2>3, <2>4, <2>6 DEF Within
  <2>8. Advanced = Append(Front(open), d)
    BY <1>2 DEF Advanced, c
  <2> HIDE DEF d
  <2>9. /\ Advanced \in Seq(Spot) /\ Len(Advanced) = Len(Front(open)) + 1
        /\ \A k \in 1 .. Len(Front(open)) : Advanced[k] = Front(open)[k]
        /\ Advanced[Len(Front(open)) + 1] = d
        /\ Len(Front(open)) \in Nat
    BY <2>1, <2>6, <2>8, PushPop, LenProperties
  <2>10. ASSUME NEW k \in 1 .. Len(Advanced) PROVE Within(Advanced[k])
    <3>1. k \in 1 .. Len(Front(open)) \/ k = Len(Front(open)) + 1
      BY <2>9
    <3> QED BY <2>1, <2>7, <2>9, <3>1
  <2> QED BY <1>2, <2>5, <2>6, <2>7, <2>8, <2>9, <2>10 DEF c, d
<1> QED
  BY <1>1, <1>2

\* An event that is taken while the nodes are dumped.
LEMMA DumpedKeeps ==
    ASSUME Inv, pc = "dump", pc' = "dump",
           UNCHANGED <<exists, nodes, opened, closed, failed, anchors, last_anchor_id>>,
           events' \in Seq(EventRecord), events' # <<>>,
           open' \in Seq(Spot), \A k \in 1 .. Len(open') : Within(open'[k]),
           serialized' \subseteq Indexes,
           heap' = LeftOver', bad_free' = FALSE
    PROVE  Inv'
<1>1. Built' /\ Indexes' = Indexes
  BY DEF Inv, Built, Indexes
<1>2. Entered'
  BY <1>1 DEF Entered, Within, Spot
<1>3. Tables'
  BY <1>1 DEF Inv, Tables, EventRecord
<1>4. Control'
  BY DEF Inv, Control
<1>5. Owned'
  BY DEF Inv, Owned
<1>6. Flags'
  BY DEF Inv, Flags
<1> QED
  BY <1>1, <1>2, <1>3, <1>4, <1>5, <1>6 DEF Inv

\* What the event of a node takes is the node's, and is left out afterwards.
LEMMA StringsTaken ==
    ASSUME Inv, pc = "dump", NEW i \in Indexes, i \notin serialized,
           nodes' = nodes, serialized' = serialized \cup {i}
    PROVE  /\ StringsOf(i) \subseteq heap
           /\ heap \ StringsOf(i) = LeftOver'
           /\ serialized' \subseteq Indexes
<1>1. heap = LeftOver /\ serialized \subseteq Indexes
  BY DEF Inv, Owned, Tables
<1>2. StringsOf(i) \subseteq BlocksOf(nodes[i].kind, i)
  BY DEF StringsOf
<1>3. StringsOf(i) \subseteq heap
  BY <1>1, <1>2, DocBlocks, Zenon
<1>4. \A b : b \in LeftOver' <=>
         \/ b \in {<<"nodes", 0>>, <<"anchors", 0>>}
         \/ \E j \in Indexes :
               /\ b \in BlocksOf(nodes[j].kind, j)
               /\ j \in serialized' => b \notin StringsOf(j)
  <2> SUFFICES ASSUME NEW b
               PROVE  b \in LeftOver' <=>
                         \/ b \in {<<"nodes", 0>>, <<"anchors", 0>>}
                         \/ \E j \in Indexes :
                               /\ b \in BlocksOf(nodes[j].kind, j)
                               /\ j \in serialized' => b \notin StringsOf(j)
    OBVIOUS
  <2>1. Indexes' = Indexes /\ \A j : StringsOf(j)' = StringsOf(j)
    BY DEF Indexes, StringsOf
  <2>2. LeftOver' = {<<"nodes", 0>>, <<"anchors", 0>>}
                    \cup UNION {IF j \in serialized' THEN BlocksOf(nodes[j].kind, j) \ StringsOf(j)
                                ELSE BlocksOf(nodes[j].kind, j) : j \in Indexes}
    BY <2>1 DEF LeftOver
  <2>3. b \in LeftOver' <=>
           \/ b \in {<<"nodes", 0>>, <<"anchors", 0>>}
           \/ \E j \in Indexes :
                 b \in (IF j \in serialized' THEN BlocksOf(nodes[j].kind, j) \ StringsOf(j)
                        ELSE BlocksOf(nodes[j].kind, j))
    BY <2>2, Zenon
  <2> QED BY <2>3, Zenon
<1>5. /\ <<"nodes", 0>> \notin StringsOf(i) /\ <<"anchors", 0>> \notin StringsOf(i)
      /\ \A j : j # i => StringsOf(i) \cap BlocksOf(nodes[j].kind, j) = {}
  BY DEF StringsOf, BlocksOf
<1>6. \A b : b \in heap \ StringsOf(i) <=> b \in LeftOver'
  <2> TAKE b
  <2>1. b \in heap <=>
           \/ b \in {<<"nodes", 0>>, <<"anchors", 0>>}
           \/ \E j \in Indexes :
                 /\ b \in BlocksOf(nodes[j].kind, j)
                 /\ j \in serialized => b \notin StringsOf(j)
    BY <1>1, DocBlocks
  <2>2. ASSUME b \in heap, b \notin StringsOf(i) PROVE b \in LeftOver'
    BY <1>4, <2>1, <2>2
  <2>3. ASSUME b \in LeftOver' PROVE b \in heap /\ b \notin StringsOf(i)
    <3>1. CASE b \in {<<"nodes", 0>>, <<"anchors", 0>>}
      BY <1>5, <2>1, <3>1
    <3>2. CASE \E j \in Indexes :
                  /\ b \in BlocksOf(nodes[j].kind, j)
                  /\ j \in serialized' => b \notin StringsOf(j)
      <4>1. PICK j \in Indexes :
                  /\ b \in BlocksOf(nodes[j].kind, j)
                  /\ j \in serialized' => b \notin StringsOf(j)
        BY <3>2
      <4>2. b \in heap
        BY <2>1, <4>1
      <4>3. b \notin StringsOf(i)
        BY <1>5, <4>1
      <4> QED BY <4>2, <4>3
    <3> QED BY <1>4, <2>3, <3>1, <3>2
  <2> QED BY <2>2, <2>3
<1> QED
  BY <1>1, <1>3, <1>6

\* yaml_emitter_dump_node for a node that has not been serialized.
LEMMA DumpNodeKeeps ==
    ASSUME Inv, dump_node
    PROVE  Inv'
<1>1. /\ pc = "dump" /\ Due \notin serialized
      /\ RootIsDue \/ InItems
      /\ UNCHANGED <<nodes, anchors, last_anchor_id>>
      /\ serialized' = serialized \cup {Due}
  BY DEF dump_node, document, Serialize
<1>2. exists' = exists /\ UNCHANGED <<opened, closed>>
  BY Zenon DEF dump_node, document
<1>3. /\ Due \in Indexes /\ Advanced \in Seq(Spot)
      /\ \A k \in 1 .. Len(Advanced) : Within(Advanced[k])
  BY <1>1, DueFacts
<1>4. /\ StringsOf(Due) \subseteq heap /\ heap \ StringsOf(Due) = LeftOver'
      /\ serialized' \subseteq Indexes
  BY <1>1, <1>3, StringsTaken DEF dump_node
<1>5. bad_free = FALSE /\ exists /\ anchors \in [Indexes -> Nat]
  BY <1>1 DEF Inv, Owned, Tables
<1>6. CASE /\ Emit(TypeOf(Due), Due, anchors[Due], StringsOf(Due))
           /\ open' = IF nodes[Due].kind = "SCALAR" THEN Advanced
                      ELSE Append(Advanced, [node |-> Due, next |-> 1])
           /\ UNCHANGED <<pc, failed>>
  <2>1. TypeOf(Due) \in EventTypes /\ Due \in Nat /\ anchors[Due] \in Nat
    BY <1>3, <1>5, NodeFacts DEF TypeOf, EventTypes
  <2>2. /\ events' \in Seq(EventRecord) /\ events' # <<>> /\ heap' = heap \ StringsOf(Due)
        /\ bad_free' = (bad_free \/ ~ StringsOf(Due) \subseteq heap)
    BY <1>6, <2>1, Emitted
  <2>3. bad_free' = FALSE
    BY <1>4, <1>5, <2>2
  <2> DEFINE c == [node |-> Due, next |-> 1]
  <2>4. c \in Spot /\ c.node = Due /\ c.next = 1
    BY <2>1 DEF Spot
  <2>5. nodes[Due].kind # "SCALAR" => Within(c)
    <3>1. 1 \in 1 .. (Len(nodes[Due].items) + 1)
      BY <1>3, NodeFacts
    <3> QED BY <1>3, <2>4, <3>1 DEF Within
  <2>6. open' = IF nodes[Due].kind = "SCALAR" THEN Advanced ELSE Append(Advanced, c)
    BY <1>6
  <2> HIDE DEF c
  <2>7. open' \in Seq(Spot) /\ \A k \in 1 .. Len(open') : Within(open'[k])
    <3>1. CASE nodes[Due].kind = "SCALAR"
      BY <1>3, <2>6, <3>1
    <3>2. CASE nodes[Due].kind # "SCALAR"
      <4>1. /\ open' \in Seq(Spot) /\ Len(open') = Len(Advanced) + 1 /\ Len(Advanced) \in Nat
            /\ \A k \in 1 .. Len(Advanced) : open'[k] = Advanced[k]
            /\ open'[Len(Advanced) + 1] = c
        BY <1>3, <2>4, <2>6, <3>2, PushPop, LenProperties
      <4>2. ASSUME NEW k \in 1 .. Len(open') PROVE Within(open'[k])
        <5>1. k \in 1 .. Len(Advanced) \/ k = Len(Advanced) + 1
          BY <4>1
        <5> QED BY <1>3, <2>5, <3>2, <4>1, <5>1
      <4> QED BY <4>1, <4>2
    <3> QED BY <3>1, <3>2
  <2> QED
    BY <1>1, <1>2, <1>4, <1>6, <2>2, <2>3, <2>7, DumpedKeeps DEF dump_node
<1>7. CASE EmitFails(StringsOf(Due)) /\ pc' = "delete" /\ UNCHANGED open
  BY <1>1, <1>2, <1>4, <1>5, <1>7, FailKeeps
<1> QED
  BY <1>6, <1>7 DEF dump_node

\* yaml_emitter_dump_alias; no memory for the text of an anchor.
LEMMA DumpAliasKeeps ==
    ASSUME Inv, dump_alias \/ generate_anchor_fails
    PROVE  Inv'
<1>1. /\ pc = "dump"
      /\ RootIsDue \/ InItems
      /\ UNCHANGED <<nodes, anchors, serialized, last_anchor_id>>
  BY DEF dump_alias, generate_anchor_fails, document, tables
<1>2. exists' = exists /\ UNCHANGED <<opened, closed>>
  BY Zenon DEF dump_alias, generate_anchor_fails, document
<1>3. /\ Due \in Indexes /\ Advanced \in Seq(Spot)
      /\ \A k \in 1 .. Len(Advanced) : Within(Advanced[k])
  BY <1>1, DueFacts
<1>4. /\ bad_free = FALSE /\ exists /\ anchors \in [Indexes -> Nat] /\ heap = LeftOver
      /\ serialized \subseteq Indexes
  BY <1>1 DEF Inv, Owned, Tables
<1>5. LeftOver' = LeftOver /\ heap \ {} = heap /\ {} \subseteq heap
  BY <1>1 DEF LeftOver, Indexes, StringsOf
<1>6. CASE /\ Emit("ALIAS", Due, anchors[Due], {}) /\ open' = Advanced
           /\ UNCHANGED <<pc, failed>>
  <2>1. "ALIAS" \in EventTypes /\ Due \in Nat /\ anchors[Due] \in Nat
    BY <1>3, <1>4, NodeFacts DEF EventTypes
  <2>2. events' \in Seq(EventRecord) /\ events' # <<>> /\ heap' = heap /\ bad_free' = bad_free
    BY <1>6, <2>1, EmittedAlone
  <2>3. bad_free' = FALSE
    BY <1>4, <1>5, <2>2
  <2> QED
    BY <1>1, <1>2, <1>3, <1>4, <1>5, <1>6, <2>2, <2>3, DumpedKeeps
<1>7. CASE EmitFails({}) /\ pc' = "delete" /\ UNCHANGED open
  BY <1>1, <1>2, <1>4, <1>5, <1>7, FailKeeps
<1>8. CASE generate_anchor_fails
  <2>1. pc' = "delete" /\ UNCHANGED <<heap, open, events>>
    BY <1>8 DEF generate_anchor_fails, tables
  <2>2. failed' = TRUE /\ UNCHANGED bad_free
    BY <1>8, Zenon DEF generate_anchor_fails
  <2>3. Control'
    BY <1>2, <2>1, <2>2 DEF Inv, Control
  <2>4. Flags'
    BY <1>2, <2>2 DEF Inv, Flags
  <2> QED
    BY <1>1, <1>2, <1>4, <2>1, <2>2, <2>3, <2>4, QuietKeeps
<1> QED
  BY <1>6, <1>7, <1>8 DEF dump_alias

\* The end of a collection, and of the document.
LEMMA DumpEndKeeps ==
    ASSUME Inv, dump_end \/ dump_document_end
    PROVE  Inv'
<1>1. pc = "dump" /\ UNCHANGED <<nodes, anchors, serialized, last_anchor_id>>
  BY DEF dump_end, dump_document_end, document, tables
<1>2. exists' = exists /\ UNCHANGED <<opened, closed>>
  BY Zenon DEF dump_end, dump_document_end, document
<1>3. /\ bad_free = FALSE /\ exists /\ heap = LeftOver /\ serialized \subseteq Indexes
  BY <1>1 DEF Inv, Owned, Tables
<1>4. LeftOver' = LeftOver /\ heap \ {} = heap /\ {} \subseteq heap
  BY <1>1 DEF LeftOver, Indexes, StringsOf
<1>5. CASE EmitFails({}) /\ pc' = "delete" /\ UNCHANGED open
  BY <1>1, <1>2, <1>3, <1>4, <1>5, FailKeeps
<1>6. CASE \E type \in {"SEQUENCE_END", "MAPPING_END"} :
              /\ open # <<>> /\ Emit(type, 0, 0, {}) /\ open' = Front(open)
              /\ UNCHANGED <<pc, failed>>
  <2>1. PICK type \in {"SEQUENCE_END", "MAPPING_END"} :
              /\ open # <<>> /\ Emit(type, 0, 0, {}) /\ open' = Front(open)
              /\ UNCHANGED <<pc, failed>>
    BY <1>6
  <2>2. type \in EventTypes /\ 0 \in Nat
    BY DEF EventTypes
  <2>3. events' \in Seq(EventRecord) /\ events' # <<>> /\ heap' = heap /\ bad_free' = bad_free
    BY <2>1, <2>2, EmittedAlone
  <2>4. bad_free' = FALSE
    BY <1>3, <1>4, <2>3
  <2>5. open' \in Seq(Spot) /\ \A k \in 1 .. Len(open') : Within(open'[k])
    BY <2>1, Innermost
  <2> QED
    BY <1>1, <1>2, <1>3, <1>4, <2>1, <2>3, <2>4, <2>5, DumpedKeeps
<1>7. CASE /\ Emit("DOCUMENT_END", 0, 0, {}) /\ pc' = "delete" /\ UNCHANGED open
           /\ UNCHANGED failed
  <2>1. "DOCUMENT_END" \in EventTypes /\ 0 \in Nat
    BY DEF EventTypes
  <2>2. /\ events' \in Seq(EventRecord) /\ events' # <<>> /\ heap' = heap
        /\ Last(events').type = "DOCUMENT_END" /\ bad_free' = bad_free
    BY <1>7, <2>1, EmittedAlone
  <2>3. bad_free' = FALSE
    BY <1>3, <1>4, <2>2
  <2>4. Built' /\ Entered' /\ Indexes' = Indexes
    BY <1>1, <1>7, SameDocument
  <2>5. Tables'
    BY <1>1, <1>7, <2>2, <2>4 DEF Inv, Tables, EventRecord
  <2>6. Control'
    <3>1. DocumentIsOut'
      BY <1>7, <2>2 DEF DocumentIsOut
    <3> QED BY <1>1, <1>2, <1>7, <3>1 DEF Inv, Control
  <2>7. Owned'
    BY <1>2, <1>3, <1>4, <1>7, <2>2, <2>3 DEF Owned
  <2>8. Flags'
    BY <1>2, <1>7 DEF Inv, Flags
  <2> QED BY <2>4, <2>5, <2>6, <2>7, <2>8 DEF Inv
<1> QED
  BY <1>5, <1>6, <1>7 DEF dump_end, dump_document_end, tables

\* yaml_emitter_delete_document_and_anchors frees all that is left.
LEMMA LeftOverKeeps ==
    ASSUME Inv, delete_document_and_anchors
    PROVE  Inv'
<1> DEFINE blocks == IF <<"anchors", 0>> \notin heap THEN WholeDocument ELSE LeftOver
<1>1. /\ pc = "delete" /\ heap' = heap \ blocks /\ nodes' = <<>> /\ pc' = "idle"
      /\ serialized' = {} /\ last_anchor_id' = 0 /\ open' = <<>> /\ events' = <<>>
      /\ event' = event
  BY DEF delete_document_and_anchors, Free
<1>2. /\ exists' = FALSE /\ UNCHANGED <<opened, closed, failed>>
      /\ bad_free' = (bad_free \/ ~ blocks \subseteq heap)
  BY Zenon DEF delete_document_and_anchors, Free
<1>3. bad_free = FALSE
  BY DEF Inv, Owned
<1>4. blocks = heap
  <2>1. CASE heap = LeftOver
    BY <2>1, BlocksApart
  <2>2. CASE Intact
    <3>1. <<"anchors", 0>> \notin heap
      BY <2>2, BlocksApart DEF Intact
    <3>2. WholeDocument = heap
      BY <2>2, DocBlocks, BlocksApart DEF Intact
    <3> QED BY <3>1, <3>2
  <2> QED BY <1>1, <2>1, <2>2 DEF Inv, Owned
<1> HIDE DEF blocks
<1>5. heap' = {} /\ bad_free' = FALSE
  BY <1>1, <1>2, <1>3, <1>4
<1>6. 0 \in Nat
  OBVIOUS
<1> QED
  BY <1>1, <1>2, <1>5, <1>6, NothingLeft

\* Every step keeps the invariant.
LEMMA NextInv == Inv /\ [Next]_vars => Inv'
<1> SUFFICES ASSUME Inv, [Next]_vars PROVE Inv'
  OBVIOUS
<1>1. CASE Building
  <2>1. CASE \E directives \in BOOLEAN : document_initialize(directives)
    BY <2>1, InitializeKeeps
  <2>2. CASE \E kind \in Kinds : add_node(kind)
    BY <2>2, AddNodeKeeps
  <2>3. ASSUME NEW i \in Indexes, NEW item \in Indexes, append_sequence_item(i, item)
        PROVE  Inv'
    <3> DEFINE added == <<item>>
    <3>1. added \in Seq(Nat) /\ \A k \in 1 .. Len(added) : added[k] \in Indexes
      BY NodeFacts
    <3>2. Append_to("SEQUENCE", i, added)
      BY <2>3 DEF append_sequence_item
    <3> HIDE DEF added
    <3> QED BY <3>1, <3>2, AppendKeeps
  <2>4. ASSUME NEW i \in Indexes, NEW key \in Indexes, NEW value \in Indexes,
               append_mapping_pair(i, key, value)
        PROVE  Inv'
    <3> DEFINE added == <<key, value>>
    <3>1. /\ added \in Seq(Nat) /\ Len(added) = 2
          /\ \A k \in 1 .. Len(added) : added[k] \in Indexes
      BY NodeFacts
    <3>2. Append_to("MAPPING", i, added)
      BY <2>4 DEF append_mapping_pair
    <3> HIDE DEF added
    <3> QED BY <3>1, <3>2, AppendKeeps
  <2>5. CASE document_delete
    BY <2>5, DeleteKeeps
  <2> QED BY <1>1, <2>1, <2>2, <2>3, <2>4, <2>5 DEF Building
<1>2. CASE \/ \E ok \in BOOLEAN : emitter_open(ok) \/ emitter_close(ok)
           \/ emitter_dump
  BY <1>2, OpenKeeps
<1>3. CASE Dumping
  BY <1>3, OpenKeeps, AnchorsKeep, DocumentStartKeeps, AnchorNodeKeeps, DumpNodeKeeps,
     DumpAliasKeeps, DumpEndKeeps, LeftOverKeeps
  DEF Dumping
<1>4. CASE UNCHANGED vars
  <2>1. UNCHANGED <<nodes, heap, pc, anchors, serialized, last_anchor_id, open, events, event>>
    BY <1>4 DEF vars
  <2>2. UNCHANGED <<exists, bad_free, opened, closed, failed>>
    BY <1>4, Zenon DEF vars
  <2>3. Built' /\ Entered' /\ Indexes' = Indexes /\ Doc' = Doc /\ LeftOver' = LeftOver
    BY <2>1, SameDocument
  <2>4. Tables'
    BY <2>1, <2>3 DEF Inv, Tables
  <2>5. Control'
    BY <2>1, <2>2 DEF Inv, Control, DocumentIsOut
  <2>6. Owned'
    BY <2>1, <2>2, <2>3 DEF Inv, Owned, Intact
  <2>7. Flags'
    BY <2>2 DEF Inv, Flags
  <2> QED BY <2>3, <2>4, <2>5, <2>6, <2>7 DEF Inv
<1> QED
  BY <1>1, <1>2, <1>3, <1>4 DEF Next

-----------------------------------------------------------------------------
(* The theorems.                                                           *)

\* In every reachable state of the dumper the inductive invariant holds.
THEOREM DumperInvariant == Spec => []Inv
BY InitInv, NextInv, PTL DEF Spec

\* Whatever fails, and when, in a document of whatever shape: each string,
\* array and table is given to the emitter or freed exactly once by the time
\* yaml_emitter_dump, or yaml_document_delete, returns
\* (yaml_emitter_delete_document_and_anchors).
THEOREM BlocksAreOwnedOnce == Spec => []OwnedOnce
<1>1. Inv => OwnedOnce
  <2> SUFFICES ASSUME Inv PROVE OwnedOnce
    OBVIOUS
  <2>1. bad_free = FALSE
    BY DEF Inv, Owned
  <2>2. pc = "idle" /\ ~ exists => heap = {}
    BY DEF Inv, Owned
  <2> QED BY <2>1, <2>2 DEF OwnedOnce
<1> QED
  BY <1>1, DumperInvariant, PTL

-----------------------------------------------------------------------------
(* The refinement: `open` is the stack of frames above the document's own, *)
(* and the event that is shown is the last one the emitter took.           *)

Shown == IF failed THEN "NO" ELSE event

FrameNames == {"docend", "node", "seq", "key", "value"}

\* The frames of the collections s, in the document.
Nested(s) == [k \in 1 .. Len(s) |-> FrameOf(s[k])]
Stack(s) == <<"docend">> \o Nested(s)

\* A collection that is entered adds its frame.
LEMMA StackPush ==
    ASSUME NEW s \in Seq(Spot), NEW c \in Spot
    PROVE  /\ Stack(s) \in Seq(FrameNames) /\ FrameOf(c) \in FrameNames
           /\ Stack(Append(s, c)) = Append(Stack(s), FrameOf(c))
<1>1. \A x : FrameOf(x) \in FrameNames
  BY DEF FrameOf, FrameNames
<1>2. Len(s) \in Nat
  BY LenProperties
<1>3. Nested(s) \in Seq(FrameNames) /\ Len(Nested(s)) = Len(s)
  BY <1>1, <1>2 DEF Nested
<1>4. /\ Append(s, c) \in Seq(Spot) /\ Len(Append(s, c)) = Len(s) + 1
      /\ \A k \in 1 .. Len(s) : Append(s, c)[k] = s[k]
      /\ Append(s, c)[Len(s) + 1] = c
  BY PushPop
<1>5. "docend" \in FrameNames /\ <<"docend">> \in Seq(FrameNames) /\ Len(<<"docend">>) = 1
  BY DEF FrameNames
<1>6. Nested(Append(s, c)) = Append(Nested(s), FrameOf(c))
  <2> DEFINE t == Append(s, c)
             n == Nested(s)
             m == Nested(t)
             p == Append(n, FrameOf(c))
  <2>1. m \in Seq(FrameNames) /\ Len(m) = Len(s) + 1 /\ \A k \in 1 .. (Len(s) + 1) : m[k] = FrameOf(t[k])
    <3> HIDE DEF t
    <3>1. Len(t) = Len(s) + 1
      BY <1>4 DEF t
    <3> QED BY <1>1, <1>2, <3>1 DEF Nested
  <2>2. \A k \in 1 .. Len(s) : n[k] = FrameOf(s[k])
    BY DEF Nested
  <2> HIDE DEF n, m, t
  <2>3. /\ p \in Seq(FrameNames) /\ Len(p) = Len(s) + 1
        /\ \A k \in 1 .. Len(s) : p[k] = n[k]
        /\ p[Len(s) + 1] = FrameOf(c)
    BY <1>1, <1>3, PushPop DEF n
  <2> HIDE DEF p
  <2>4. ASSUME NEW k \in 1 .. (Len(s) + 1) PROVE m[k] = p[k]
    <3>1. CASE k \in 1 .. Len(s)
      BY <1>4, <2>1, <2>2, <2>3, <3>1 DEF t
    <3>2. CASE k = Len(s) + 1
      BY <1>4, <2>1, <2>3, <3>2 DEF t
    <3> QED BY <1>2, <3>1, <3>2
  <2>5. m = p
    BY <2>1, <2>3, <2>4, SeqEqual
  <2> QED BY <2>5 DEF m, p, n, t
<1>7. (<<"docend">> \o Nested(s)) \o <<FrameOf(c)>> = <<"docend">> \o (Nested(s) \o <<FrameOf(c)>>)
  BY <1>1, <1>3, <1>5, ConcatThree
<1>8. /\ Append(Nested(s), FrameOf(c)) = Nested(s) \o <<FrameOf(c)>>
      /\ Stack(s) \in Seq(FrameNames)
  BY <1>1, <1>3, <1>5 DEF Stack
<1>9. Append(Stack(s), FrameOf(c)) = Stack(s) \o <<FrameOf(c)>>
  BY <1>1, <1>8
<1> QED
  BY <1>1, <1>6, <1>7, <1>8, <1>9 DEF Stack

\* No collection: the document's frame alone.
LEMMA StackOfNone == Stack(<<>>) = <<"docend">>
<1>1. Nested(<<>>) = <<>>
  <2>1. Len(<<>>) = 0 /\ 1 .. 0 = {}
    OBVIOUS
  <2> QED BY <2>1 DEF Nested
<1>2. <<"docend">> \o <<>> = <<"docend">>
  OBVIOUS
<1> QED
  BY <1>1, <1>2 DEF Stack

\* The frames of a document whose root is due.
LEMMA RootFrames == <<"docend">> \o <<"node">> \o <<>> = <<"docend", "node">>
<1>1. /\ <<"docend", "node">> = Append(<<"docend">>, "node")
      /\ <<"docend">> \in Seq(FrameNames) /\ "node" \in FrameNames
  BY DEF FrameNames
<1>2. \A s \in Seq(FrameNames), x \in FrameNames : Append(s, x) = s \o <<x>>
  OBVIOUS
<1>3. <<"docend">> \o <<"node">> = <<"docend", "node">>
  BY <1>1, <1>2
<1>4. <<"docend", "node">> \o <<>> = <<"docend", "node">>
  OBVIOUS
<1> QED
  BY <1>3, <1>4

\* In a document the frames are the open collections, and the root if it is due.
LEMMA InDocument ==
    ASSUME Inv, pc \in {"anchor", "dump"}
    PROVE  /\ ~ failed /\ opened /\ ~ closed /\ events # <<>> /\ ~ DocumentIsOut
           /\ RootIsDue => FramesOf = <<"docend", "node">>
           /\ ~ RootIsDue => FramesOf = Stack(open)
<1>1. /\ ~ failed /\ opened /\ ~ closed /\ events # <<>> /\ ~ DocumentIsOut
  BY DEF Inv, Control, DocumentIsOut
<1>2. FramesOf = <<"docend">> \o (IF RootIsDue THEN <<"node">> ELSE <<>>) \o Nested(open)
  BY <1>1, Zenon DEF FramesOf, Nested
<1>3. ASSUME RootIsDue PROVE FramesOf = <<"docend", "node">>
  <2>1. Nested(open) = <<>>
    <3>1. open = <<>> /\ Len(open) = 0 /\ 1 .. 0 = {}
      BY <1>3 DEF RootIsDue
    <3> QED BY <3>1 DEF Nested
  <2>2. FramesOf = (<<"docend">> \o <<"node">>) \o <<>>
    BY <1>2, <1>3, <2>1
  <2> QED BY <2>2, RootFrames
<1>4. ASSUME ~ RootIsDue PROVE FramesOf = Stack(open)
  <2>1. <<"docend">> \o <<>> = <<"docend">>
    OBVIOUS
  <2> QED BY <1>2, <1>4, <2>1 DEF Stack
<1> QED
  BY <1>1, <1>3, <1>4

\* The same of the state after a step that takes an event of a node.
LEMMA InDocumentNext ==
    ASSUME pc' = "dump", ~ failed', opened', ~ closed', events' # <<>>, nodes' = nodes,
           ~ (open' = <<>> /\ Len(events') = 1)
    PROVE  FramesOf' = Stack(open') /\ Shown' = event'
<1>1. ~ DocumentIsOut' /\ ~ RootIsDue'
  BY DEF DocumentIsOut, RootIsDue
<1>2. FramesOf' = <<"docend">> \o <<>> \o [k \in 1 .. Len(open') |-> FrameOf(open[k])']
  BY <1>1, Zenon DEF FramesOf
<1>3. <<"docend">> \o <<>> = <<"docend">>
  OBVIOUS
<1>4. [k \in 1 .. Len(open') |-> FrameOf(open[k])'] = Nested(open')
  BY DEF FrameOf, Nested
<1> QED
  BY <1>2, <1>3, <1>4 DEF Stack, Shown

\* The instance's operators on sequences are those of this module.
LEMMA SameEnds == \A s : Stream!Last(s) = Last(s) /\ Stream!Front(s) = Front(s)
BY DEF Stream!Last, Stream!Front, Last, Front

\* The innermost frame is that of the innermost collection.
LEMMA InnermostFrame ==
    ASSUME Inv, pc = "dump", open # <<>>
    PROVE  /\ Stream!Last(FramesOf) = FrameOf(Last(open))
           /\ Stream!Front(FramesOf) = Stack(Front(open))
<1> DEFINE s == Front(open)
           c == Last(open)
<1>1. s \in Seq(Spot) /\ c \in Spot
  BY Innermost
<1>2. open = Append(s, c)
  BY PopPush DEF Inv, Entered
<1> HIDE DEF s, c
<1>3. /\ Stack(s) \in Seq(FrameNames) /\ FrameOf(c) \in FrameNames
      /\ Stack(open) = Append(Stack(s), FrameOf(c))
  BY <1>1, <1>2, StackPush
<1>4. FramesOf = Stack(open)
  BY InDocument DEF RootIsDue
<1>5. Last(FramesOf) = FrameOf(c) /\ Front(FramesOf) = Stack(s)
  BY <1>3, <1>4, PushPop
<1> QED
  BY <1>5, SameEnds DEF s, c

\* A node is due in the innermost frame, and what is open afterwards is what
\* the caller's loop goes on with.
LEMMA NodeIsDue ==
    ASSUME Inv, pc = "dump", RootIsDue \/ InItems
    PROVE  /\ Stream!Last(FramesOf) \in Stream!NodeFrames
           /\ Stream!AfterNode(FramesOf) = Stack(Advanced)
<1>1. CASE RootIsDue
  <2>1. FramesOf = <<"docend", "node">> /\ Advanced = <<>>
    BY <1>1, InDocument, DueFacts DEF RootIsDue
  <2>2. <<"docend", "node">> = Append(<<"docend">>, "node") /\ <<"docend">> \in Seq(FrameNames) /\ "node" \in FrameNames
    BY DEF FrameNames
  <2>3. Last(FramesOf) = "node" /\ Front(FramesOf) = <<"docend">>
    <3>1. PICK s \in Seq(FrameNames) : s = <<"docend">>
      BY <2>2
    <3>2. FramesOf = Append(s, "node")
      BY <2>1, <2>2, <3>1
    <3>3. Last(FramesOf) = "node" /\ Front(FramesOf) = s
      BY <2>2, <3>2, PushPop
    <3> QED BY <3>1, <3>3
  <2> QED
    BY <2>1, <2>3, SameEnds, StackOfNone DEF Stream!NodeFrames, Stream!AfterNode
<1>2. CASE open # <<>>
  <2> DEFINE c == Last(open)
             d == [c EXCEPT !.next = @ + 1]
  <2>1. /\ c \in Spot /\ Within(c) /\ Front(open) \in Seq(Spot)
        /\ d \in Spot /\ Advanced = Append(Front(open), d)
    BY <1>2, Innermost, DueFacts
  <2>2. Stream!Last(FramesOf) = FrameOf(c) /\ Stream!Front(FramesOf) = Stack(Front(open))
    BY <1>2, InnermostFrame
  <2> HIDE DEF c
  <2>3. d.node = c.node /\ d.next = c.next + 1 /\ c.next \in Nat
    BY <2>1, NextSpot, Zenon
  <2> HIDE DEF d
  <2>4. FrameOf(c) \in {"seq", "key", "value"} /\ FrameOf(d) = Stream!Followed(FrameOf(c))
    <3>1. c.next % 2 \in {0, 1} /\ ((c.next + 1) % 2 = 1 <=> c.next % 2 # 1)
      BY <2>3
    <3>2. CASE nodes[c.node].kind = "SEQUENCE"
      BY <2>3, <3>2 DEF FrameOf, Stream!Followed
    <3>3. CASE nodes[c.node].kind # "SEQUENCE" /\ c.next % 2 = 1
      BY <2>3, <3>1, <3>3 DEF FrameOf, Stream!Followed
    <3>4. CASE nodes[c.node].kind # "SEQUENCE" /\ c.next % 2 # 1
      BY <2>3, <3>1, <3>4 DEF FrameOf, Stream!Followed
    <3> QED BY <3>2, <3>3, <3>4
  <2>5. Stack(Advanced) = Append(Stack(Front(open)), FrameOf(d))
    BY <2>1, StackPush
  <2> QED
    BY <2>2, <2>4, <2>5 DEF Stream!NodeFrames, Stream!AfterNode
<1> QED
  BY <1>1, <1>2 DEF InItems

\* A single frame.
LEMMA SingleFrame ==
    ASSUME NEW f, NEW g, NEW h
    PROVE  /\ Stream!Last(<<f>>) = f
           /\ Append(Stream!Front(<<f>>), g) = <<g>>
           /\ Append(Append(Stream!Front(<<f>>), g), h) = <<g, h>>
<1> DEFINE S == {f, g, h}
           e == <<f>>
<1>1. e = Append(<<>>, f) /\ <<>> \in Seq(S) /\ f \in S
  OBVIOUS
<1> HIDE DEF e, S
<1>2. PICK none \in Seq(S) : none = <<>>
  BY <1>1
<1>3. Last(e) = f /\ Front(e) = <<>>
  <2>1. e = Append(none, f)
    BY <1>1, <1>2
  <2>2. Last(e) = f /\ Front(e) = none
    <3>1. \A s \in Seq(S), x \in S : Last(Append(s, x)) = x /\ Front(Append(s, x)) = s
      BY PushPop
    <3>2. none \in Seq(S)
      BY <1>2
    <3> QED BY <1>1, <2>1, <3>1, <3>2, Zenon
  <2> QED BY <1>2, <2>2
<1>4. Append(<<>>, g) = <<g>> /\ Append(<<g>>, h) = <<g, h>>
  <2>1. <<>> \in Seq(S) /\ g \in S /\ h \in S
    BY DEF S
  <2>2. /\ <<g>> \in Seq(S) /\ Len(<<g>>) = 1 /\ <<g>>[1] = g
        /\ <<g, h>> \in Seq(S) /\ Len(<<g, h>>) = 2 /\ <<g, h>>[1] = g /\ <<g, h>>[2] = h
    BY <2>1
  <2>3. \A s \in Seq(S), x \in S :
           /\ Append(s, x) \in Seq(S) /\ Len(Append(s, x)) = Len(s) + 1
           /\ \A i \in 1 .. Len(s) : Append(s, x)[i] = s[i]
           /\ Append(s, x)[Len(s) + 1] = x
    BY PushPop
  <2>4. Append(<<>>, g) = <<g>>
    <3>1. Len(<<>>) = 0
      OBVIOUS
    <3>2. /\ Append(<<>>, g) \in Seq(S) /\ Len(Append(<<>>, g)) = 1
          /\ Append(<<>>, g)[1] = g
      BY <2>1, <2>3, <3>1
    <3>3. \A i \in 1 .. 1 : Append(<<>>, g)[i] = <<g>>[i]
      BY <2>2, <3>2
    <3> QED BY <2>2, <3>2, <3>3, SeqEqual
  <2>5. Append(<<g>>, h) = <<g, h>>
    <3> DEFINE u == <<g>>
               w == <<g, h>>
    <3>1. u \in Seq(S) /\ Len(u) = 1 /\ u[1] = g /\ w \in Seq(S) /\ Len(w) = 2 /\ w[1] = g /\ w[2] = h
      BY <2>2
    <3> HIDE DEF u, w
    <3>2. /\ Append(u, h) \in Seq(S) /\ Len(Append(u, h)) = 2
          /\ Append(u, h)[1] = g /\ Append(u, h)[2] = h
      <4>1. /\ Append(u, h) \in Seq(S) /\ Len(Append(u, h)) = Len(u) + 1
            /\ \A i \in 1 .. Len(u) : Append(u, h)[i] = u[i]
            /\ Append(u, h)[Len(u) + 1] = h
        BY <2>1, <2>3, <3>1, Zenon
      <4>2. Len(u) + 1 = 2 /\ 1 \in 1 .. Len(u)
        BY <3>1
      <4> QED BY <3>1, <4>1, <4>2, Zenon
    <3>3. \A i \in 1 .. 2 : Append(u, h)[i] = w[i]
      BY <3>1, <3>2
    <3>4. Append(u, h) = w
      BY <3>1, <3>2, <3>3, SeqEqual
    <3> QED BY <3>4 DEF u, w
  <2> QED BY <2>4, <2>5
<1>5. Stream!Last(e) = f /\ Stream!Front(e) = <<>>
  BY <1>3, SameEnds
<1>6. Append(Stream!Front(e), g) = <<g>>
  BY <1>4, <1>5
<1> QED
  BY <1>4, <1>5, <1>6 DEF e

\* Outside a document the frames tell where the stream is.
LEMMA OutsideFrames ==
    ASSUME events = <<>> \/ DocumentIsOut
    PROVE  FramesOf = IF failed THEN <<"aborted">>
                      ELSE IF ~ opened THEN <<"stream">>
                      ELSE IF closed THEN <<"done">> ELSE <<"docs">>
BY Zenon DEF FramesOf

\* The frames between two documents, after a step.
LEMMA OutsideFramesNext ==
    ASSUME events' = <<>> \/ DocumentIsOut'
    PROVE  FramesOf' = IF failed' THEN <<"aborted">>
                       ELSE IF ~ opened' THEN <<"stream">>
                       ELSE IF closed' THEN <<"done">> ELSE <<"docs">>
BY Zenon DEF FramesOf

\* The next-state relation of the stream, on the frames and the event shown.
Streamed == Stream!StreamNext \/ UNCHANGED <<FramesOf, Shown>>

\* A call that fails gives the stream up.
LEMMA GivenUp ==
    ASSUME failed'
    PROVE  Streamed
<1>1. FramesOf' = <<"aborted">> /\ Shown' = "NO"
  BY Zenon DEF FramesOf, Shown
<1> QED
  BY <1>1 DEF Streamed, Stream!StreamNext, Stream!Nothing, Shown

\* Outside a document, a step that changes neither the stream nor the event.
LEMMA StillOutside ==
    ASSUME events = <<>> \/ DocumentIsOut, events' = <<>> \/ DocumentIsOut',
           event' = event, failed' = failed, opened' = opened, closed' = closed
    PROVE  Streamed
<1>1. FramesOf' = FramesOf
  BY OutsideFrames, OutsideFramesNext
<1> QED
  BY <1>1 DEF Streamed, Shown

\* Opening and closing.
LEMMA OpenStreams ==
    ASSUME Inv,
           \/ \E ok \in BOOLEAN :
                 \/ emitter_open(ok) \/ emitter_close(ok)
                 \/ dump_open(ok) \/ dump_nothing(ok) \/ dump_anchors(ok)
           \/ emitter_dump
    PROVE  Streamed
<1>1. events = <<>> /\ events' = events
  BY DEF Inv, Control, emitter_open, emitter_close, dump_open, dump_nothing, dump_anchors,
         emitter_dump, building
<1>2. ASSUME NEW ok \in BOOLEAN, emitter_open(ok) \/ dump_open(ok), ~ failed'
      PROVE  Streamed
  <2>1. event' = "STREAM_START"
    BY <1>2 DEF emitter_open, dump_open
  <2>2. ~ failed /\ ~ opened /\ opened' /\ ~ closed /\ ~ closed'
    <3>1. ok = TRUE /\ UNCHANGED closed /\ opened' = ok
      BY <1>2, Zenon DEF emitter_open, dump_open
    <3>2. pc = "open" \/ (~ failed /\ ~ opened)
      BY <1>2, Zenon DEF emitter_open, dump_open, building
    <3>3. ~ failed /\ ~ opened /\ ~ closed
      BY <3>2 DEF Inv, Control
    <3> QED BY <3>1, <3>3
  <2>3. FramesOf = <<"stream">> /\ FramesOf' = <<"docs">>
    BY <1>1, <1>2, <2>2, OutsideFrames, OutsideFramesNext, Zenon
  <2>4. Shown' = "STREAM_START"
    BY <1>2, <2>1 DEF Shown
  <2> QED
    BY <2>3, <2>4, SingleFrame
    DEF Streamed, Stream!StreamNext, Stream!StreamStart, Stream!Replace, Shown
<1>3. ASSUME NEW ok \in BOOLEAN, emitter_close(ok) \/ dump_nothing(ok), ~ failed'
      PROVE  Streamed
  <2>1. event' = "STREAM_END"
    BY <1>3 DEF emitter_close, dump_nothing
  <2>2. ~ failed /\ opened /\ opened' /\ closed'
    <3>1. ok = TRUE /\ UNCHANGED opened /\ closed' = ok
      BY <1>3, Zenon DEF emitter_close, dump_nothing
    <3>2. pc = "start" \/ (~ failed /\ opened)
      BY <1>3, Zenon DEF emitter_close, dump_nothing, building
    <3>3. ~ failed /\ opened
      BY <3>2 DEF Inv, Control
    <3> QED BY <3>1, <3>3
  <2>3. FramesOf' = <<"done">> /\ Shown' = "STREAM_END"
    BY <1>1, <1>3, <2>1, <2>2, OutsideFramesNext DEF Shown
  <2>4. CASE closed
    <3>1. FramesOf = <<"done">> /\ Shown = "STREAM_END"
      BY <1>1, <2>2, <2>4, OutsideFrames DEF Shown, Inv, Control
    <3> QED BY <2>3, <3>1 DEF Streamed
  <2>5. CASE ~ closed
    <3>1. FramesOf = <<"docs">>
      BY <1>1, <2>2, <2>5, OutsideFrames
    <3> QED
      BY <2>3, <3>1, SingleFrame
      DEF Streamed, Stream!StreamNext, Stream!StreamEnd, Stream!Replace, Shown
  <2> QED BY <2>4, <2>5
<1>4. ASSUME \/ \E ok \in BOOLEAN : dump_anchors(ok)
             \/ emitter_dump,
             ~ failed'
      PROVE  Streamed
  <2>1. event' = event
    BY <1>4 DEF dump_anchors, emitter_dump
  <2>2. ~ failed /\ opened' = opened /\ closed' = closed
    BY <1>4, Zenon DEF dump_anchors, emitter_dump, building, Inv, Control
  <2>3. failed' = failed
    BY <1>4, <2>2, Zenon DEF dump_anchors, emitter_dump
  <2> QED
    BY <1>1, <2>1, <2>2, <2>3, StillOutside
<1> QED
  BY <1>2, <1>3, <1>4, GivenUp

\* Building a document, and the end of a call, leave the stream alone.
LEMMA BuildingStreams ==
    ASSUME Inv, Building \/ delete_document_and_anchors
    PROVE  Streamed
<1>1. CASE Building
  <2>1. pc = "idle" /\ event' = event /\ events' = events
    BY <1>1 DEF Building, document_initialize, add_node, append_sequence_item,
                append_mapping_pair, Append_to, document_delete, building
  <2>2. failed' = failed /\ opened' = opened /\ closed' = closed
    BY <1>1, Zenon DEF Building, document_initialize, add_node, append_sequence_item,
                       append_mapping_pair, Append_to, document_delete
  <2>3. events = <<>>
    BY <2>1 DEF Inv, Control
  <2> QED BY <2>1, <2>2, <2>3, StillOutside
<1>2. CASE delete_document_and_anchors /\ ~ failed
  <2>1. pc = "delete" /\ event' = event /\ events' = <<>>
    BY <1>2 DEF delete_document_and_anchors
  <2>2. failed' = failed /\ opened' = opened /\ closed' = closed
    BY <1>2, Zenon DEF delete_document_and_anchors
  <2>3. events = <<>> \/ DocumentIsOut
    BY <1>2, <2>1 DEF Inv, Control
  <2> QED BY <2>1, <2>2, <2>3, StillOutside
<1>3. CASE delete_document_and_anchors /\ failed
  <2>1. failed'
    BY <1>3, Zenon DEF delete_document_and_anchors
  <2> QED BY <2>1, GivenUp
<1> QED
  BY <1>1, <1>2, <1>3

\* Giving the nodes their anchors.
LEMMA AnchoringStreams ==
    ASSUME Inv, anchor_node \/ anchored
    PROVE  Streamed
<1>1. /\ pc = "anchor" /\ pc' \in {"anchor", "dump"}
      /\ UNCHANGED <<nodes, open, events, event>>
  BY DEF anchor_node, anchored, document, tables
<1>2. UNCHANGED <<opened, closed, failed>>
  BY Zenon DEF anchor_node, anchored
<1>3. ~ DocumentIsOut /\ ~ DocumentIsOut' /\ RootIsDue' = RootIsDue
  BY <1>1 DEF DocumentIsOut, RootIsDue
<1>4. [k \in 1 .. Len(open) |-> FrameOf(open[k])]' = [k \in 1 .. Len(open) |-> FrameOf(open[k])]
  BY <1>1 DEF FrameOf
<1>5. FramesOf' = FramesOf
  BY <1>1, <1>2, <1>3, <1>4 DEF FramesOf
<1> QED
  BY <1>1, <1>2, <1>5 DEF Streamed, Shown

\* A document begins, with its root due.
LEMMA DocumentStartStreams ==
    ASSUME Inv, dump_document_start
    PROVE  Streamed
<1> DEFINE blocks == DirectiveBlocks \cap heap
<1>1. pc = "document start" /\ open' = open
  BY DEF dump_document_start
<1>2. UNCHANGED <<opened, closed>>
  BY Zenon DEF dump_document_start
<1>3. /\ open = <<>> /\ events = <<>> /\ opened /\ ~ failed
  BY <1>1 DEF Inv, Control
<1> HIDE DEF blocks
<1>4. CASE /\ ~ closed /\ Emit("DOCUMENT_START", 0, 0, blocks)
           /\ pc' = "anchor" /\ UNCHANGED failed
  <2>1. "DOCUMENT_START" \in EventTypes /\ 0 \in Nat
    BY DEF EventTypes
  <2>2. /\ events' # <<>> /\ Len(events') = Len(events) + 1 /\ event' = "DOCUMENT_START"
    BY <1>4, <2>1, Emitted
  <2>3. Len(events') = 1
    BY <1>3, <2>2, EmptySeq
  <2>4. FramesOf = <<"docs">>
    BY <1>3, <1>4, OutsideFrames
  <2>5. Inv'
    BY DocumentStartKeeps
  <2>6. RootIsDue'
    BY <1>1, <1>3, <2>3 DEF RootIsDue
  <2>7. FramesOf' = <<"docend", "node">>
    <3>1. ~ failed' /\ opened' /\ ~ closed' /\ events' # <<>> /\ ~ DocumentIsOut'
      BY <1>2, <1>3, <1>4, <2>2 DEF DocumentIsOut
    <3>2. FramesOf' = <<"docend">> \o <<"node">> \o [k \in 1 .. Len(open') |-> FrameOf(open[k])']
      BY <2>6, <3>1, Zenon DEF FramesOf
    <3>3. open' = <<>>
      BY <1>1, <1>3
    <3>4. Len(<<>>) = 0 /\ 1 .. 0 = {}
      OBVIOUS
    <3>5. [k \in 1 .. Len(open') |-> FrameOf(open[k])'] = <<>>
      BY <3>3, <3>4
    <3> QED BY <3>2, <3>5, RootFrames
  <2>8. Shown' = "DOCUMENT_START"
    BY <1>3, <1>4, <2>2 DEF Shown
  <2> QED
    BY <2>4, <2>7, <2>8, SingleFrame
    DEF Streamed, Stream!StreamNext, Stream!DocumentStart, Shown
<1>5. CASE EmitFails(blocks)
  <2>1. failed'
    BY <1>5, Zenon DEF EmitFails
  <2> QED BY <2>1, GivenUp
<1> QED
  BY <1>4, <1>5 DEF dump_document_start, blocks

\* A node: the event of a scalar, of a collection's start, or of an alias.
LEMMA NodeStreams ==
    ASSUME Inv, dump_node \/ dump_alias
    PROVE  Streamed
<1>1. pc = "dump" /\ (RootIsDue \/ InItems) /\ nodes' = nodes
  BY DEF dump_node, dump_alias, document
<1>2. UNCHANGED <<opened, closed>>
  BY Zenon DEF dump_node, dump_alias
<1>3. /\ ~ failed /\ opened /\ ~ closed /\ events # <<>>
  BY <1>1, InDocument
<1>4. /\ Due \in Indexes /\ Advanced \in Seq(Spot) /\ Due \in Nat
      /\ nodes[Due].kind \in Kinds
      /\ anchors[Due] \in Nat
  <2>1. Due \in Indexes /\ Advanced \in Seq(Spot)
    BY <1>1, DueFacts
  <2>2. anchors \in [Indexes -> Nat]
    BY <1>1 DEF Inv, Tables
  <2> QED BY <2>1, <2>2, NodeFacts
<1>5. /\ Stream!Last(FramesOf) \in Stream!NodeFrames
      /\ Stream!AfterNode(FramesOf) = Stack(Advanced)
  BY <1>1, NodeIsDue
\* The event is taken: a second one or a later one, so that no root is due.
<1>6. ASSUME NEW type \in EventTypes, NEW blocks, Emit(type, Due, anchors[Due], blocks),
             pc' = pc, failed' = failed
      PROVE  FramesOf' = Stack(open') /\ Shown' = type
  <2>1. /\ events' \in Seq(EventRecord) /\ events' # <<>> /\ Len(events') = Len(events) + 1
        /\ Len(events) \in Nat /\ event' = type
    BY <1>4, <1>6, Emitted
  <2>2. events \in Seq(EventRecord) /\ Len(events) # 0
    BY <1>3, EmptySeq DEF Inv, Tables, EventRecord
  <2>3. Len(events') # 1
    BY <2>1, <2>2
  <2>4. ~ failed' /\ opened' /\ ~ closed' /\ pc' = "dump"
    BY <1>1, <1>2, <1>3, <1>6
  <2> QED BY <1>1, <2>1, <2>3, <2>4, InDocumentNext
<1>7. ASSUME NEW type \in {"SCALAR", "ALIAS"}, NEW blocks, Emit(type, Due, anchors[Due], blocks),
             pc' = pc, failed' = failed, open' = Advanced
      PROVE  Streamed
  <2>1. type \in EventTypes
    BY DEF EventTypes
  <2>2. FramesOf' = Stack(Advanced) /\ Shown' = type
    BY <1>6, <1>7, <2>1
  <2> QED
    BY <1>5, <2>2 DEF Streamed, Stream!StreamNext, Stream!Leaf, Shown
<1>8. ASSUME nodes[Due].kind # "SCALAR", NEW blocks, Emit(TypeOf(Due), Due, anchors[Due], blocks),
             pc' = pc, failed' = failed, open' = Append(Advanced, [node |-> Due, next |-> 1])
      PROVE  Streamed
  <2> DEFINE c == [node |-> Due, next |-> 1]
  <2>1. c \in Spot /\ c.node = Due /\ c.next = 1 /\ 1 % 2 = 1
    BY <1>4 DEF Spot
  <2>2. TypeOf(Due) \in EventTypes
    BY DEF TypeOf, EventTypes
  <2> HIDE DEF c
  <2>3. Stack(Append(Advanced, c)) = Append(Stack(Advanced), FrameOf(c))
    BY <1>4, <2>1, StackPush
  <2>4. FramesOf' = Append(Stack(Advanced), FrameOf(c)) /\ Shown' = TypeOf(Due)
    BY <1>6, <1>8, <2>2, <2>3 DEF c
  <2>5. CASE nodes[Due].kind = "SEQUENCE"
    <3>1. FrameOf(c) = "seq" /\ TypeOf(Due) = "SEQUENCE_START"
      BY <2>1, <2>5 DEF FrameOf, TypeOf
    <3> QED
      BY <1>5, <2>4, <3>1 DEF Streamed, Stream!StreamNext, Stream!CollectionStart, Shown
  <2>6. CASE nodes[Due].kind = "MAPPING"
    <3>1. FrameOf(c) = "key" /\ TypeOf(Due) = "MAPPING_START"
      BY <2>1, <2>6 DEF FrameOf, TypeOf
    <3> QED
      BY <1>5, <2>4, <3>1 DEF Streamed, Stream!StreamNext, Stream!CollectionStart, Shown
  <2> QED BY <1>4, <1>8, <2>5, <2>6 DEF Kinds
<1>9. ASSUME NEW blocks, EmitFails(blocks)
      PROVE  Streamed
  <2>1. failed'
    BY <1>9, Zenon DEF EmitFails
  <2> QED BY <2>1, GivenUp
<1>10. CASE dump_node
  <2>1. \/ EmitFails(StringsOf(Due))
        \/ /\ Emit(TypeOf(Due), Due, anchors[Due], StringsOf(Due))
           /\ open' = IF nodes[Due].kind = "SCALAR" THEN Advanced
                      ELSE Append(Advanced, [node |-> Due, next |-> 1])
           /\ pc' = pc /\ failed' = failed
    BY <1>10, Zenon DEF dump_node
  <2>2. CASE nodes[Due].kind = "SCALAR"
    <3>1. TypeOf(Due) = "SCALAR"
      BY <2>2 DEF TypeOf
    <3> QED BY <1>7, <1>9, <2>1, <2>2, <3>1
  <2>3. CASE nodes[Due].kind # "SCALAR"
    BY <1>8, <1>9, <2>1, <2>3
  <2> QED BY <2>2, <2>3
<1>11. CASE dump_alias
  <2>1. PICK none : none = {}
    OBVIOUS
  <2>2. \/ EmitFails(none)
        \/ /\ Emit("ALIAS", Due, anchors[Due], none) /\ open' = Advanced
           /\ pc' = pc /\ failed' = failed
    BY <1>11, <2>1, Zenon DEF dump_alias
  <2> QED BY <1>7, <1>9, <2>2
<1> QED
  BY <1>10, <1>11

\* The end of a collection, of the document, and a failure within it.
LEMMA EndStreams ==
    ASSUME Inv, dump_end \/ dump_document_end \/ generate_anchor_fails
    PROVE  Streamed
<1>1. pc = "dump" /\ nodes' = nodes
  BY DEF dump_end, dump_document_end, generate_anchor_fails, document
<1>2. UNCHANGED <<opened, closed>>
  BY Zenon DEF dump_end, dump_document_end, generate_anchor_fails
<1>3. /\ ~ failed /\ opened /\ ~ closed /\ events # <<>>
  BY <1>1, InDocument
<1>4. ASSUME EmitFails({}) \/ generate_anchor_fails
      PROVE  Streamed
  <2>1. failed'
    BY <1>4, Zenon DEF EmitFails, generate_anchor_fails
  <2> QED BY <2>1, GivenUp
<1>5. ASSUME NEW type \in EventTypes, open # <<>>, ~ InItems, Emit(type, 0, 0, {}),
             type = IF nodes[Last(open).node].kind = "SEQUENCE" THEN "SEQUENCE_END"
                    ELSE "MAPPING_END",
             open' = Front(open), pc' = pc, failed' = failed
      PROVE  Streamed
  <2> DEFINE c == Last(open)
  <2>1. c \in Spot /\ Within(c)
    BY <1>5, Innermost
  <2>2. Stream!Last(FramesOf) = FrameOf(c) /\ Stream!Front(FramesOf) = Stack(Front(open))
    BY <1>1, <1>5, InnermostFrame
  <2>3. ~ (c.next <= Len(nodes[c.node].items))
    BY <1>5 DEF InItems
  <2>4. type = IF nodes[c.node].kind = "SEQUENCE" THEN "SEQUENCE_END" ELSE "MAPPING_END"
    BY <1>5
  <2> HIDE DEF c
  <2>5. /\ c.node \in Indexes /\ nodes[c.node].kind # "SCALAR" /\ nodes[c.node].kind \in Kinds
        /\ c.next \in Nat /\ Len(nodes[c.node].items) \in Nat
        /\ c.next = Len(nodes[c.node].items) + 1
    BY <2>1, <2>3, NodeFacts DEF Within, Spot
  <2>6. \/ FrameOf(c) = "seq" /\ type = "SEQUENCE_END"
        \/ FrameOf(c) = "key" /\ type = "MAPPING_END"
    <3>1. CASE nodes[c.node].kind = "SEQUENCE"
      BY <2>4, <3>1 DEF FrameOf
    <3>2. CASE nodes[c.node].kind = "MAPPING"
      <4>1. Len(nodes[c.node].items) % 2 = 0
        BY <2>5, <3>2 DEF Inv, Built
      <4>2. \A n \in Nat : n % 2 = 0 => (n + 1) % 2 = 1
        OBVIOUS
      <4>3. c.next % 2 = 1
        BY <2>5, <4>1, <4>2
      <4> QED BY <2>4, <3>2, <4>3 DEF FrameOf
    <3> QED BY <2>5, <3>1, <3>2 DEF Kinds
  <2>7. /\ events' # <<>> /\ Len(events') = Len(events) + 1
        /\ Len(events) \in Nat /\ event' = type
    BY <1>5, EmittedAlone
  <2>8. events \in Seq(EventRecord) /\ Len(events) # 0
    BY <1>3, EmptySeq DEF Inv, Tables, EventRecord
  <2>9. Len(events') # 1
    BY <2>7, <2>8
  <2>10. ~ failed' /\ opened' /\ ~ closed' /\ pc' = "dump"
    BY <1>1, <1>2, <1>3, <1>5
  <2>11. FramesOf' = Stack(Front(open)) /\ Shown' = type
    BY <1>1, <1>5, <2>7, <2>9, <2>10, InDocumentNext
  <2> QED
    BY <2>2, <2>6, <2>11 DEF Streamed, Stream!StreamNext, Stream!CollectionEnd, Shown
<1>6. ASSUME open = <<>>, ~ RootIsDue, Emit("DOCUMENT_END", 0, 0, {}), pc' = "delete",
             failed' = failed
      PROVE  Streamed
  <2>1. "DOCUMENT_END" \in EventTypes /\ 0 \in Nat
    BY DEF EventTypes
  <2>2. events' # <<>> /\ Last(events').type = "DOCUMENT_END" /\ event' = "DOCUMENT_END"
    BY <1>6, <2>1, EmittedAlone
  <2>3. DocumentIsOut'
    BY <1>6, <2>2 DEF DocumentIsOut
  <2>4. FramesOf = <<"docend">>
    BY <1>1, <1>6, InDocument, StackOfNone
  <2>5. FramesOf' = <<"docs">>
    BY <1>2, <1>3, <1>6, <2>3, OutsideFramesNext
  <2>6. Shown' = "DOCUMENT_END"
    BY <1>3, <1>6, <2>2 DEF Shown
  <2> QED
    BY <2>4, <2>5, <2>6, SingleFrame
    DEF Streamed, Stream!StreamNext, Stream!DocumentEnd, Stream!Replace, Shown
<1>7. CASE dump_end
  <2>1. PICK type : type = IF nodes[Last(open).node].kind = "SEQUENCE" THEN "SEQUENCE_END"
                           ELSE "MAPPING_END"
    OBVIOUS
  <2>2. type \in EventTypes
    BY <2>1 DEF EventTypes
  <2>3. /\ open # <<>> /\ ~ InItems
        /\ \/ EmitFails({})
           \/ Emit(type, 0, 0, {}) /\ open' = Front(open) /\ pc' = pc /\ failed' = failed
    BY <1>7, <2>1, Zenon DEF dump_end
  <2> QED BY <1>4, <1>5, <2>1, <2>2, <2>3
<1>8. CASE dump_document_end
  BY <1>4, <1>6, <1>8 DEF dump_document_end
<1> QED
  BY <1>4, <1>7, <1>8

\* Every step of the dumper is one of the stream, or none.
LEMMA NextStreams == Inv /\ [Next]_vars => Streamed
<1> SUFFICES ASSUME Inv, [Next]_vars PROVE Streamed
  OBVIOUS
<1>1. CASE Next
  BY <1>1, OpenStreams, BuildingStreams, AnchoringStreams, DocumentStartStreams, NodeStreams,
     EndStreams
  DEF Next, Dumping
<1>2. CASE UNCHANGED vars
  <2>1. UNCHANGED <<nodes, open, events, event, pc>>
    BY <1>2 DEF vars
  <2>2. UNCHANGED <<opened, closed, failed>>
    BY <1>2, Zenon DEF vars
  <2>3. DocumentIsOut' = DocumentIsOut /\ RootIsDue' = RootIsDue
    BY <2>1 DEF DocumentIsOut, RootIsDue
  <2>4. [k \in 1 .. Len(open) |-> FrameOf(open[k])]' = [k \in 1 .. Len(open) |-> FrameOf(open[k])]
    BY <2>1 DEF FrameOf
  <2>5. FramesOf' = FramesOf
    BY <2>1, <2>2, <2>3, <2>4 DEF FramesOf
  <2> QED
    BY <2>1, <2>2, <2>5 DEF Streamed, Shown
<1> QED
  BY <1>1, <1>2

\* The events that the dumper gives the emitter, for documents of any size and
\* shape, opened and closed explicitly or by yaml_emitter_dump itself, follow
\* EventStream, the specification that yaml_emitter_emit's state machine is
\* proved to follow too: the emitter can take what the dumper sends.
THEOREM DumperRefinesEventStream == Spec => DumpsEventStream
<1>1. Init => Stream!StreamInit
  <2> SUFFICES ASSUME Init PROVE Stream!StreamInit
    OBVIOUS
  <2>1. events = <<>> /\ event = "NO"
    BY DEF Init
  <2>2. ~ failed /\ ~ opened
    BY Zenon DEF Init
  <2>3. FramesOf = <<"stream">>
    BY <2>1, <2>2, OutsideFrames
  <2> QED BY <2>1, <2>2, <2>3 DEF Stream!StreamInit
<1>2. Inv /\ [Next]_vars => [Stream!StreamNext]_<<FramesOf, IF failed THEN "NO" ELSE event>>
  BY NextStreams DEF Streamed, Shown
<1> QED
  BY <1>1, <1>2, DumperInvariant, PTL
  DEF Spec, DumpsEventStream, Stream!StreamSpec, Stream!streamVars

-----------------------------------------------------------------------------
(* The anchors.  What both traversals do is said in terms of edges: an     *)
(* edge is an item of a collection, or leads to the root.                  *)

Root == <<0, 1>>
Edges(g, V) == {Root} \cup UNION {{<<i, k>> : k \in 1 .. Len(g[i].items)} : i \in V}
To(g, e) == IF e = Root THEN 1 ELSE g[e[1]].items[e[2]]

\* Two of the edges D lead to node j.
Twice(g, D, j) == \E e, f \in D : e # f /\ To(g, e) = j /\ To(g, f) = j

Bare == \A i \in Indexes : nodes[i].kind = "SCALAR" => nodes[i].items = <<>>

NoTables == references = <<>> /\ anchors = <<>> /\ last_anchor_id = 0

\* Anchors are numbered from 1, one for each node that was met twice.
Numbered ==
    /\ references \in [Indexes -> Nat] /\ anchors \in [Indexes -> Nat]
    /\ \A i \in Indexes : anchors[i] # 0 <=> references[i] > 1
    /\ \A i, j \in Indexes : anchors[i] = anchors[j] /\ anchors[i] # 0 => i = j
    /\ last_anchor_id \in Nat /\ \A i \in Indexes : anchors[i] <= last_anchor_id
    /\ \A a \in 1 .. last_anchor_id : \E i \in Indexes : anchors[i] = a

\* The nodes anchor_node has met: no others than can be reached from the root.
Met == {i \in Indexes : references[i] > 0}
Closed(g, C) == 1 \in C /\ \A i \in C : \A k \in 1 .. Len(g[i].items) : g[i].items[k] \in C
MetAreReachable == \A C \in SUBSET Indexes : Closed(nodes, C) => Met \subseteq C

\* The counts tell apart no edge, one edge, and more.
Tallied(g, counts, D) ==
    \A j \in 1 .. Len(g) :
        /\ counts[j] > 0 <=> \E e \in D : To(g, e) = j
        /\ counts[j] > 1 <=> Twice(g, D, j)

\* The edges still to be followed are those that `todo` lists, each once.
Ahead(g, list, f) ==
    /\ \A n \in 1 .. Len(list) : To(g, f[n]) = list[n]
    /\ \A m, n \in 1 .. Len(list) : f[m] = f[n] => m = n
Left(E, list, f) == {e \in E : \A n \in 1 .. Len(list) : f[n] # e}
Counting ==
    \E f \in [1 .. Len(todo) -> Edges(nodes, Met)] :
        /\ Ahead(nodes, todo, f)
        /\ Tallied(nodes, references, Left(Edges(nodes, Met), todo, f))

\* The edges from the nodes S that have been followed when the recursion is in
\* the collections `in`, and n events have come out.
Followed(g, S, in, n) ==
    {e \in Edges(g, S) : IF e = Root THEN n > 1
                         ELSE \A k \in 1 .. Len(in) : in[k].node = e[1] => e[2] < in[k].next}

\* dump_node serializes a node on the first edge to it, and gives an alias on
\* the others.
HasAlias(es, j) == \E k \in 1 .. Len(es) : es[k].type = "ALIAS" /\ es[k].node = j
Dumped ==
    /\ serialized \subseteq Met
    /\ \A k \in 1 .. Len(open) : open[k].node \in serialized
    /\ \A k, l \in 1 .. Len(open) : open[k].node = open[l].node => k = l
    /\ \E D : /\ D = Followed(nodes, serialized, open, Len(events))
              /\ \A j \in Indexes : j \in serialized <=> \E e \in D : To(nodes, e) = j
              /\ \A j \in Indexes : HasAlias(events, j) <=> Twice(nodes, D, j)
    /\ Last(events).type # "DOCUMENT_END"
    /\ Len(events) = 1 => open = <<>> /\ serialized = {}

AliasesAreAnchored == \A i \in Indexes : anchors[i] # 0 <=> HasAlias(events, i)

AnchorInv ==
    /\ Bare
    /\ pc \in {"idle", "open", "start"} => NoTables
    /\ pc \in {"document start", "anchor", "dump"} => Numbered
    /\ pc = "document start" => \A i \in Indexes : references[i] = 0
    /\ pc = "anchor" =>
          /\ Counting /\ MetAreReachable
          /\ todo \in Seq(Indexes)
          /\ \A k \in 1 .. Len(events) : events[k].type = "DOCUMENT_START"
    /\ pc = "dump" => Tallied(nodes, references, Edges(nodes, Met)) /\ MetAreReachable /\ Dumped
    /\ pc = "delete" => (NoTables \/ Numbered) /\ (DocumentIsOut => Numbered /\ AliasesAreAnchored)

-----------------------------------------------------------------------------

\* The edges from some nodes.
LEMMA EdgesAre ==
    ASSUME NEW g, NEW V
    PROVE  /\ \A e : e \in Edges(g, V) <=>
                 e = Root \/ \E i \in V : \E k \in 1 .. Len(g[i].items) : e = <<i, k>>
           /\ \A i, k : <<i, k>> \in Edges(g, V) <=>
                 (i = 0 /\ k = 1) \/ (i \in V /\ k \in 1 .. Len(g[i].items))
<1>1. \A e : e \in Edges(g, V) <=>
          e = Root \/ \E i \in V : \E k \in 1 .. Len(g[i].items) : e = <<i, k>>
  <2> TAKE e
  <2> DEFINE of(i) == {<<i, k>> : k \in 1 .. Len(g[i].items)}
  <2>1. \A i : e \in of(i) <=> \E k \in 1 .. Len(g[i].items) : e = <<i, k>>
    OBVIOUS
  <2>2. Edges(g, V) = {Root} \cup UNION {of(i) : i \in V}
    BY DEF Edges
  <2> HIDE DEF of
  <2> QED BY <2>1, <2>2, Zenon
<1>2. ASSUME NEW i, NEW k
      PROVE  <<i, k>> \in Edges(g, V) <=>
                (i = 0 /\ k = 1) \/ (i \in V /\ k \in 1 .. Len(g[i].items))
  <2>1. <<i, k>> = Root <=> i = 0 /\ k = 1
    BY DEF Root
  <2>2. \A j, l : <<i, k>> = <<j, l>> => i = j /\ k = l
    OBVIOUS
  <2>3. (\E j \in V : \E l \in 1 .. Len(g[j].items) : <<i, k>> = <<j, l>>)
           <=> i \in V /\ k \in 1 .. Len(g[i].items)
    BY Zenon, <2>2
  <2> QED BY <1>1, <2>1, <2>3
<1> QED
  BY <1>1, <1>2

\* Where they lead.
LEMMA EdgesLead ==
    ASSUME Inv, nodes # <<>>
    PROVE  /\ 1 \in Indexes /\ To(nodes, Root) = 1 /\ 0 \notin Indexes
           /\ \A i \in Indexes : \A k \in 1 .. Len(nodes[i].items) :
                 /\ To(nodes, <<i, k>>) = nodes[i].items[k] /\ nodes[i].items[k] \in Indexes
                 /\ <<i, k>> # Root
           /\ \A V \in SUBSET Indexes : \A e \in Edges(nodes, V) : To(nodes, e) \in Indexes
<1>1. 1 \in Indexes /\ To(nodes, Root) = 1 /\ 0 \notin Indexes
  <2>1. Len(nodes) \in Nat /\ Len(nodes) # 0
    BY NodeFacts, EmptySeq
  <2>2. To(nodes, Root) = 1
    BY DEF To
  <2> QED BY <2>1, <2>2 DEF Indexes
<1>2. ASSUME NEW i \in Indexes, NEW k \in 1 .. Len(nodes[i].items)
      PROVE  /\ To(nodes, <<i, k>>) = nodes[i].items[k] /\ nodes[i].items[k] \in Indexes
             /\ <<i, k>> # Root
  <2>1. nodes[i].items[k] \in Indexes
    BY DEF Inv, Built
  <2>2. i # 0
    BY <1>1
  <2>3. <<i, k>> # Root
    BY <2>2 DEF Root
  <2> QED BY <2>1, <2>3 DEF To
<1>3. ASSUME NEW V \in SUBSET Indexes, NEW e \in Edges(nodes, V) PROVE To(nodes, e) \in Indexes
  <2>1. CASE e = Root
    BY <1>1, <2>1
  <2>2. CASE \E i \in V : \E k \in 1 .. Len(nodes[i].items) : e = <<i, k>>
    BY <1>2, <2>2
  <2> QED BY <2>1, <2>2, EdgesAre
<1> QED
  BY <1>1, <1>2, <1>3

-----------------------------------------------------------------------------

\* Steps before the tables are made.
LEMMA BeforeTables ==
    ASSUME AnchorInv, pc \in {"idle", "open", "start"}, pc' \in {"idle", "open", "start"},
           UNCHANGED <<references, anchors, last_anchor_id>>, Bare'
    PROVE  AnchorInv'
BY DEF AnchorInv, NoTables

\* A call that gives up, or has come to the end of a document.
LEMMA ToDelete ==
    ASSUME Inv, AnchorInv, pc # "delete", pc' = "delete",
           UNCHANGED <<nodes, references, anchors, last_anchor_id>>,
           DocumentIsOut' => pc = "dump" /\ AliasesAreAnchored'
    PROVE  AnchorInv'
<1>1. Bare' /\ Indexes' = Indexes
  BY DEF AnchorInv, Bare, Indexes
<1>2. pc \in {"document start", "anchor", "dump"} => Numbered'
  BY <1>1 DEF AnchorInv, Numbered
<1>3. pc \in {"idle", "open", "start"} => NoTables'
  BY DEF AnchorInv, NoTables
<1> QED
  BY <1>1, <1>2, <1>3 DEF AnchorInv, Inv, Control

\* yaml_document_initialize, _add_ and _append_ functions, _delete: no tables
\* are there, and only collections get items.
LEMMA BuildingKeepsAnchored ==
    ASSUME Inv, AnchorInv, Building
    PROVE  AnchorInv'
<1>1. /\ pc = "idle" /\ pc' = "idle" /\ UNCHANGED <<references, anchors, last_anchor_id>>
      /\ \/ nodes' = <<>>
         \/ \E kind : nodes' = Append(nodes, [kind |-> kind, items |-> <<>>])
         \/ \E i \in Indexes : \E added :
               nodes[i].kind # "SCALAR" /\ nodes' = [nodes EXCEPT ![i].items = @ \o added]
  <2>1. CASE \E directives \in BOOLEAN : document_initialize(directives)
    BY <2>1 DEF document_initialize, building, tables
  <2>2. CASE \E kind \in Kinds : add_node(kind)
    BY <2>2 DEF add_node, building, tables
  <2>3. CASE \E i, item \in Indexes : append_sequence_item(i, item)
    BY <2>3 DEF append_sequence_item, Append_to, building, tables
  <2>4. CASE \E i, key, value \in Indexes : append_mapping_pair(i, key, value)
    BY <2>4 DEF append_mapping_pair, Append_to, building, tables
  <2>5. CASE document_delete
    BY <2>5 DEF document_delete, building, tables
  <2> QED BY <2>1, <2>2, <2>3, <2>4, <2>5 DEF Building
<1>2. Bare'
  <2>1. CASE nodes' = <<>>
    BY <2>1, EmptySeq DEF Bare, Indexes
  <2>2. ASSUME NEW kind, nodes' = Append(nodes, [kind |-> kind, items |-> <<>>])
        PROVE  Bare'
    <3> DEFINE new == [kind |-> kind, items |-> <<>>]  n == Len(nodes)
    <3>1. nodes \in Seq(Node) /\ n \in Nat
      BY NodeFacts
    <3>2. /\ \A i \in 1 .. n : Append(nodes, new)[i] = nodes[i]
          /\ Append(nodes, new)[n + 1] = new /\ Len(Append(nodes, new)) = n + 1
      BY <3>1
    <3>3. new.items = <<>>
      OBVIOUS
    <3>4. nodes' = Append(nodes, new)
      BY <2>2
    <3> HIDE DEF new, n
    <3>5. \A i \in 1 .. (n + 1) : i \in 1 .. n \/ i = n + 1
      BY <3>1
    <3>6. Indexes = 1 .. n /\ Indexes' = 1 .. (n + 1)
      BY <3>2, <3>4 DEF Indexes, n
    <3> QED BY <3>2, <3>3, <3>4, <3>5, <3>6 DEF AnchorInv, Bare
  <2>3. ASSUME NEW i \in Indexes, NEW added, nodes[i].kind # "SCALAR",
               nodes' = [nodes EXCEPT ![i].items = @ \o added]
        PROVE  Bare'
    <3> DEFINE m == [nodes[i] EXCEPT !.items = @ \o added]
    <3>1. /\ nodes \in Seq(Node) /\ DOMAIN nodes = Indexes /\ nodes[i] \in Node
          /\ Len(nodes) \in Nat
      BY NodeFacts
    <3>2. m.kind = nodes[i].kind
      BY <3>1 DEF Node
    <3>3. nodes' = [nodes EXCEPT ![i] = m]
      BY <2>3
    <3> HIDE DEF m
    <3>4. nodes'[i] = m /\ \A j \in Indexes : j # i => nodes'[j] = nodes[j]
      BY <3>1, <3>3
    <3>5. DOMAIN nodes' = DOMAIN nodes
      BY <3>3
    <3>6. Indexes' = Indexes
      <4>1. Len(nodes') = Len(nodes)
        BY <3>1, <3>3
      <4> QED BY <4>1 DEF Indexes
    <3> QED BY <2>3, <3>2, <3>4, <3>6 DEF AnchorInv, Bare
  <2> QED BY <1>1, <2>1, <2>2, <2>3
<1> QED
  BY <1>1, <1>2, BeforeTables

\* yaml_emitter_open, _close, and _dump until there is something to dump.
LEMMA OpenKeepsAnchored ==
    ASSUME Inv, AnchorInv, NEW ok \in BOOLEAN,
           emitter_open(ok) \/ emitter_close(ok) \/ emitter_dump \/ dump_open(ok) \/ dump_nothing(ok)
    PROVE  AnchorInv'
<1>1. /\ UNCHANGED <<nodes, references, anchors, last_anchor_id, events>>
      /\ pc \in {"idle", "open", "start"} /\ pc' \in {"idle", "open", "start", "delete"}
  BY DEF emitter_open, emitter_close, emitter_dump, dump_open, dump_nothing, document, tables,
         building
<1>2. Bare'
  BY <1>1 DEF AnchorInv, Bare, Indexes
<1>3. CASE pc' = "delete"
  <2>1. events' = <<>>
    BY <1>1 DEF Inv, Control
  <2> QED BY <1>1, <1>3, <2>1, ToDelete DEF DocumentIsOut
<1> QED
  BY <1>1, <1>2, <1>3, BeforeTables

\* The tables are made, with no anchor yet.
LEMMA AnchorsKeepAnchored ==
    ASSUME Inv, AnchorInv, NEW ok \in BOOLEAN, dump_anchors(ok)
    PROVE  AnchorInv'
<1>1. /\ pc = "start" /\ nodes # <<>>
      /\ UNCHANGED <<nodes, last_anchor_id, events>>
  BY DEF dump_anchors, document
<1>2. CASE ok
  <2>1. /\ pc' = "document start"
        /\ references' = [i \in Indexes |-> 0] /\ anchors' = [i \in Indexes |-> 0]
    BY <1>2 DEF dump_anchors
  <2>2. Bare' /\ Indexes' = Indexes
    BY <1>1 DEF AnchorInv, Bare, Indexes
  <2>3. last_anchor_id' = 0
    BY <1>1 DEF AnchorInv, NoTables
  <2>5. Numbered'
    <3>1. /\ references' \in [Indexes -> Nat] /\ anchors' \in [Indexes -> Nat]
          /\ \A i \in Indexes : references'[i] = 0 /\ anchors'[i] = 0
      BY <2>1
    <3>2. 1 .. 0 = {} /\ ~ (0 > 1) /\ 0 <= 0 /\ 0 \in Nat
      OBVIOUS
    <3> QED BY <2>2, <2>3, <3>1, <3>2 DEF Numbered
  <2> QED BY <2>1, <2>2, <2>5 DEF AnchorInv
<1>3. CASE ~ ok
  <2>1. pc' = "delete" /\ UNCHANGED <<references, anchors>>
    BY <1>3 DEF dump_anchors
  <2>2. events' = <<>>
    BY <1>1 DEF Inv, Control
  <2> QED BY <1>1, <2>1, <2>2, ToDelete DEF DocumentIsOut
<1> QED
  BY <1>2, <1>3

\* The document is started; the edge to the root is the first to be followed.
LEMMA DocumentStartKeepsAnchored ==
    ASSUME Inv, AnchorInv, dump_document_start
    PROVE  AnchorInv'
<1>1. /\ pc = "document start"
      /\ UNCHANGED <<nodes, references, anchors, last_anchor_id>>
  BY DEF dump_document_start, document
<1>2. events = <<>> /\ nodes # <<>> /\ Numbered
  BY <1>1 DEF Inv, Control, AnchorInv
<1>3. CASE /\ Emit("DOCUMENT_START", 0, 0, DirectiveBlocks \cap heap)
           /\ todo' = <<1>> /\ pc' = "anchor"
  <2> DEFINE f == [n \in 1 .. 1 |-> Root]
  <2>1. Bare' /\ Indexes' = Indexes /\ 1 \in Indexes /\ To(nodes', Root) = 1
    BY <1>1, <1>2, EdgesLead DEF AnchorInv, Bare, Indexes
  <2>2. Numbered'
    BY <1>1, <1>2, <2>1 DEF Numbered
  <2>3. Met' = {}
    <3>1. \A i \in Indexes : references'[i] = 0
      BY <1>1 DEF AnchorInv
    <3> QED BY <2>1, <3>1 DEF Met
  <2>4. Edges(nodes', Met') = {Root}
    BY <2>3 DEF Edges
  <2>5. Len(todo') = 1 /\ todo'[1] = 1 /\ todo' \in Seq(Indexes)
    BY <1>3, <2>1
  <2>6. f \in [1 .. Len(todo') -> Edges(nodes', Met')] /\ Ahead(nodes', todo', f)
    <3>1. f \in [1 .. 1 -> {Root}] /\ \A n \in 1 .. 1 : f[n] = Root
      OBVIOUS
    <3>2. \A m, n \in 1 .. 1 : m = n
      OBVIOUS
    <3>3. \A n \in 1 .. 1 : n = 1
      OBVIOUS
    <3> HIDE DEF f
    <3> QED BY <2>1, <2>4, <2>5, <3>1, <3>2, <3>3 DEF Ahead
  <2>7. Left(Edges(nodes', Met'), todo', f) = {}
    <3>1. 1 \in 1 .. 1 /\ f[1] = Root
      OBVIOUS
    <3> HIDE DEF f
    <3> QED BY <2>4, <2>5, <3>1 DEF Left
  <2> HIDE DEF f
  <2>8. Tallied(nodes', references', {})
    <3>1. \A j \in Indexes : references'[j] = 0
      BY <1>1 DEF AnchorInv
    <3> QED BY <2>1, <3>1 DEF Tallied, Twice, Indexes
  <2>9. Counting'
    BY <2>6, <2>7, <2>8 DEF Counting
  <2>10. MetAreReachable'
    BY <2>3 DEF MetAreReachable
  <2>11. \A k \in 1 .. Len(events') : events'[k].type = "DOCUMENT_START"
    <3>1. events' = Append(<<>>, [type |-> "DOCUMENT_START", node |-> 0, anchor |-> 0])
      BY <1>2, <1>3 DEF Emit
    <3> QED BY <3>1
  <2> QED BY <1>3, <2>1, <2>2, <2>5, <2>9, <2>10, <2>11 DEF AnchorInv
<1>4. CASE EmitFails(DirectiveBlocks \cap heap) /\ pc' = "delete"
  <2>1. events' = <<>>
    BY <1>2, <1>4 DEF EmitFails
  <2> QED BY <1>1, <1>4, <2>1, ToDelete DEF DocumentIsOut
<1> QED
  BY <1>3, <1>4 DEF dump_document_start

-----------------------------------------------------------------------------
(* yaml_emitter_anchor_node.                                               *)

\* One edge more, and one more in the count of the node it leads to.
LEMMA TallyOne ==
    ASSUME NEW g, NEW counts \in [1 .. Len(g) -> Nat], NEW D, NEW e, e \notin D,
           NEW i \in 1 .. Len(g), To(g, e) = i, Tallied(g, counts, D)
    PROVE  Tallied(g, [counts EXCEPT ![i] = counts[i] + 1], D \cup {e})
<1> DEFINE more == [counts EXCEPT ![i] = counts[i] + 1]
<1>1. ASSUME NEW j \in 1 .. Len(g), j # i
      PROVE  /\ more[j] > 0 <=> \E d \in D \cup {e} : To(g, d) = j
             /\ more[j] > 1 <=> Twice(g, D \cup {e}, j)
  <2>1. more[j] = counts[j]
    BY <1>1
  <2>2. \A d \in D \cup {e} : To(g, d) = j => d \in D
    BY <1>1
  <2> HIDE DEF more
  <2>3. Twice(g, D \cup {e}, j) <=> Twice(g, D, j)
    BY <2>2, Zenon DEF Twice
  <2> QED BY <2>1, <2>2, <2>3 DEF Tallied
<1>2. /\ more[i] > 0 <=> \E d \in D \cup {e} : To(g, d) = i
      /\ more[i] > 1 <=> Twice(g, D \cup {e}, i)
  <2>1. more[i] = counts[i] + 1 /\ counts[i] \in Nat
    OBVIOUS
  <2> HIDE DEF more
  <2>2. more[i] > 0 /\ (more[i] > 1 <=> counts[i] > 0)
    BY <2>1
  <2>3. counts[i] > 0 <=> \E d \in D : To(g, d) = i
    BY DEF Tallied
  <2>4. Twice(g, D \cup {e}, i) <=> \E d \in D : To(g, d) = i
    <3>1. ASSUME NEW d \in D, To(g, d) = i PROVE Twice(g, D \cup {e}, i)
      <4>1. d # e /\ d \in D \cup {e} /\ e \in D \cup {e}
        OBVIOUS
      <4> QED BY <3>1, <4>1, Zenon DEF Twice
    <3>2. ASSUME Twice(g, D \cup {e}, i) PROVE \E d \in D : To(g, d) = i
      <4>1. PICK a \in D \cup {e}, b \in D \cup {e} : a # b /\ To(g, a) = i /\ To(g, b) = i
        BY <3>2, Zenon DEF Twice
      <4>2. a \in D \/ b \in D
        BY <4>1
      <4> QED BY <4>1, <4>2
    <3> QED BY <3>1, <3>2
  <2> QED BY <2>2, <2>3, <2>4
<1> HIDE DEF more
<1>3. Tallied(g, more, D \cup {e})
  BY <1>1, <1>2 DEF Tallied
<1> QED
  BY <1>3 DEF more

\* The edges F are the edges E and the new edges p to the nodes added.
NewEdges(g, added, E, F, p) ==
    /\ \A e : e \in F <=> e \in E \/ \E k \in 1 .. Len(added) : e = p[k]
    /\ \A k \in 1 .. Len(added) : p[k] \notin E /\ To(g, p[k]) = added[k]
    /\ \A j, k \in 1 .. Len(added) : p[j] = p[k] => j = k

ListFits(g, S, list, added, E, f) ==
    /\ list \in Seq(S) /\ list # <<>> /\ added \in Seq(S)
    /\ f \in [1 .. Len(list) -> E] /\ Ahead(g, list, f)
Moved(g, list, E, D) ==
    \E f \in [1 .. Len(list) -> E] : Ahead(g, list, f) /\ Left(E, list, f) = D

\* The first edge of the list is followed, and the edges of a node that is met
\* for the first time come before the rest.
LEMMA ListMoves ==
    ASSUME NEW g, NEW S, NEW list, NEW added, NEW p, NEW E, NEW F, NEW f,
           ListFits(g, S, list, added, E, f), NewEdges(g, added, E, F, p)
    PROVE  /\ added \o Tail(list) \in Seq(S)
           /\ Moved(g, added \o Tail(list), F, Left(E, list, f) \cup {f[1]})
<1> DEFINE longer == added \o Tail(list)
<1>0. /\ list \in Seq(S) /\ list # <<>> /\ added \in Seq(S)
      /\ f \in [1 .. Len(list) -> E] /\ Ahead(g, list, f)
  BY DEF ListFits
<1> DEFINE m == Len(added)
           l == Len(list)
           h == [n \in 1 .. (m + l - 1) |-> IF n <= m THEN p[n] ELSE f[n - m + 1]]
<1>1. /\ l \in Nat /\ l >= 1 /\ m \in Nat
      /\ longer \in Seq(S) /\ Len(longer) = m + l - 1
      /\ \A n \in 1 .. m : longer[n] = added[n]
      /\ \A n \in 1 .. (m + l - 1) : n > m => longer[n] = list[n - m + 1]
  BY <1>0
<1>2. /\ \A n \in 1 .. l : f[n] \in E /\ To(g, f[n]) = list[n]
      /\ \A a, b \in 1 .. l : f[a] = f[b] => a = b
  BY <1>0 DEF Ahead
<1>3. /\ \A e : e \in F <=> e \in E \/ \E k \in 1 .. m : e = p[k]
      /\ \A k \in 1 .. m : p[k] \notin E /\ To(g, p[k]) = added[k]
      /\ \A j, k \in 1 .. m : p[j] = p[k] => j = k
  BY DEF NewEdges
<1>4. /\ \A n \in 1 .. (m + l - 1) : n > m => n - m + 1 \in 2 .. l
      /\ \A n \in 1 .. (m + l - 1) : ~ (n > m) => n \in 1 .. m
      /\ \A n \in 2 .. l : /\ n - 1 + m \in 1 .. (m + l - 1) /\ n - 1 + m > m
                           /\ (n - 1 + m) - m + 1 = n /\ n \in 1 .. l
      /\ \A n \in 1 .. m : n \in 1 .. (m + l - 1) /\ ~ (n > m)
      /\ \A n \in 1 .. l : n = 1 \/ n \in 2 .. l
      /\ 1 \in 1 .. l /\ 1 \notin 2 .. l
      /\ \A a, b \in 1 .. (m + l - 1) : a - m + 1 = b - m + 1 => a = b
  BY <1>1
<1>5. \A n \in 1 .. (m + l - 1) : h[n] = IF n > m THEN f[n - m + 1] ELSE p[n]
  BY <1>1
<1>6. DOMAIN h = 1 .. (m + l - 1)
  OBVIOUS
<1> HIDE DEF h, m, l, longer
<1>7. \A n \in 1 .. (m + l - 1) : h[n] \in F /\ To(g, h[n]) = longer[n]
  <2> TAKE n \in 1 .. (m + l - 1)
  <2>1. CASE n > m
    <3>1. n - m + 1 \in 1 .. l /\ h[n] = f[n - m + 1] /\ longer[n] = list[n - m + 1]
      BY <1>1, <1>4, <1>5, <2>1
    <3> DEFINE k == n - m + 1
    <3> HIDE DEF k
    <3>2. f[k] \in E /\ To(g, f[k]) = list[k]
      BY <1>2, <3>1 DEF k
    <3> QED BY <1>3, <3>1, <3>2 DEF k
  <2>2. CASE ~ (n > m)
    BY <1>1, <1>3, <1>4, <1>5, <2>2
  <2> QED BY <2>1, <2>2
<1>8. ASSUME NEW a \in 1 .. (m + l - 1), NEW b \in 1 .. (m + l - 1), h[a] = h[b]
      PROVE  a = b
  <2>1. CASE a > m /\ b > m
    BY <1>2, <1>4, <1>5, <1>8, <2>1
  <2>2. CASE ~ (a > m) /\ ~ (b > m)
    <3>1. p[a] = p[b] /\ a \in 1 .. m /\ b \in 1 .. m
      BY <1>4, <1>5, <1>8, <2>2
    <3> QED BY <1>3, <3>1
  <2>3. CASE (a > m) # (b > m)
    <3>1. \A x, y \in 1 .. (m + l - 1) : x > m /\ ~ (y > m) => h[x] \in E /\ h[y] \notin E
      BY <1>2, <1>3, <1>4, <1>5
    <3> QED BY <1>8, <2>3, <3>1
  <2> QED BY <2>1, <2>2, <2>3
<1>9. ASSUME NEW e
      PROVE  (e \in F /\ \A n \in 1 .. (m + l - 1) : h[n] # e)
                <=> (e \in E /\ \A n \in 1 .. l : f[n] # e) \/ e = f[1]
  <2>1. ASSUME e \in F, \A n \in 1 .. (m + l - 1) : h[n] # e
        PROVE  (e \in E /\ \A n \in 1 .. l : f[n] # e) \/ e = f[1]
    <3>1. \A k \in 1 .. m : h[k] = p[k]
      BY <1>4, <1>5
    <3>2. e \in E
      <4>1. \A k \in 1 .. m : p[k] # e
        BY <1>4, <2>1, <3>1
      <4> QED BY Zenon, <1>3, <2>1, <4>1
    <3>3. \A n \in 2 .. l : h[n - 1 + m] = f[n]
      BY <1>4, <1>5
    <3>4. \A n \in 2 .. l : f[n] # e
      BY <1>4, <2>1, <3>3
    <3> QED BY <1>4, <3>2, <3>4
  <2>2. ASSUME (e \in E /\ \A n \in 1 .. l : f[n] # e) \/ e = f[1]
        PROVE  e \in F /\ \A n \in 1 .. (m + l - 1) : h[n] # e
    <3>1. e \in E
      BY <1>2, <1>4, <2>2
    <3>2. \A n \in 2 .. l : f[n] # e
      BY <1>2, <1>4, <2>2
    <3>3. ASSUME NEW n \in 1 .. (m + l - 1) PROVE h[n] # e
      <4>1. CASE n > m
        BY <1>4, <1>5, <3>2, <4>1
      <4>2. CASE ~ (n > m)
        <5>1. n \in 1 .. m /\ h[n] = p[n]
          BY <1>4, <1>5, <4>2
        <5>2. p[n] \notin E
          BY <1>3, <5>1
        <5> QED BY <3>1, <5>1, <5>2
      <4> QED BY <4>1, <4>2
    <3> QED BY <1>3, <3>1, <3>3
  <2> QED BY <2>1, <2>2
<1>10. h \in [1 .. Len(longer) -> F] /\ Ahead(g, longer, h)
  <2>1. h = [n \in 1 .. (m + l - 1) |-> h[n]]
    BY DEF h
  <2>2. h \in [1 .. (m + l - 1) -> F]
    BY <1>7, <2>1
  <2> QED BY <1>1, <1>7, <1>8, <2>2 DEF Ahead
<1>11. Left(F, longer, h) = Left(E, list, f) \cup {f[1]}
  <2>1. \A e : e \in Left(F, longer, h)
               <=> e \in F /\ \A n \in 1 .. (m + l - 1) : h[n] # e
    BY <1>1 DEF Left
  <2>2. \A e : e \in Left(E, list, f) \cup {f[1]}
               <=> (e \in E /\ \A n \in 1 .. l : f[n] # e) \/ e = f[1]
    BY DEF Left, l
  <2>3. \A e : e \in Left(F, longer, h) <=> e \in Left(E, list, f) \cup {f[1]}
    BY Zenon, <1>9, <2>1, <2>2
  <2> QED BY Zenon, <2>3
<1> QED
  BY <1>1, <1>10, <1>11 DEF longer, Moved

\* A node is met: for the first time, for the second, or once more.
LEMMA AnchorNodeKeepsAnchored ==
    ASSUME Inv, AnchorInv, anchor_node
    PROVE  AnchorInv'
<1> DEFINE i == Head(todo)
           count == references[i] + 1
           added == IF count = 1 THEN nodes[i].items ELSE <<>>
<1>1. /\ pc = "anchor" /\ pc' = "anchor" /\ todo # <<>>
      /\ UNCHANGED <<nodes, events, open, serialized>>
      /\ references' = [references EXCEPT ![i] = count]
      /\ todo' = added \o Tail(todo)
      /\ \/ /\ count = 2 /\ last_anchor_id' = last_anchor_id + 1
            /\ anchors' = [anchors EXCEPT ![i] = last_anchor_id + 1]
         \/ count # 2 /\ UNCHANGED <<last_anchor_id, anchors>>
  BY DEF anchor_node, document, Counted, NeedsAnchor
<1>2. /\ Numbered /\ Counting /\ MetAreReachable /\ Bare /\ todo \in Seq(Indexes)
      /\ \A k \in 1 .. Len(events) : events[k].type = "DOCUMENT_START"
      /\ nodes # <<>>
  BY <1>1 DEF AnchorInv, Inv, Control
<1>3. i \in Indexes /\ i = todo[1] /\ Len(todo) \in Nat \ {0}
  BY <1>1, <1>2, HeadAndTail
<1>4. Indexes' = Indexes /\ Bare'
  BY <1>1, <1>2 DEF Bare, Indexes
<1>5. references \in [Indexes -> Nat] /\ count \in Nat \ {0}
  BY <1>2, <1>3 DEF Numbered
<1>6. /\ references' \in [Indexes -> Nat] /\ references'[i] = count
      /\ \A j \in Indexes : j # i => references'[j] = references[j]
  BY <1>1, <1>3, <1>5
<1> HIDE DEF i
<1>7. Numbered'
  <2>1. /\ anchors \in [Indexes -> Nat] /\ last_anchor_id \in Nat
        /\ \A j \in Indexes : (anchors[j] # 0 <=> references[j] > 1) /\ anchors[j] <= last_anchor_id
        /\ \A j, k \in Indexes : anchors[j] = anchors[k] /\ anchors[j] # 0 => j = k
        /\ \A a \in 1 .. last_anchor_id : \E j \in Indexes : anchors[j] = a
    BY <1>2 DEF Numbered
  <2>2. CASE count = 2
    <3> DEFINE l == last_anchor_id + 1
    <3>1. last_anchor_id' = l /\ anchors' = [anchors EXCEPT ![i] = l]
      BY <1>1, <2>2
    <3>2. l \in Nat \ {0} /\ \A j \in Indexes : anchors[j] < l /\ anchors[j] <= l
      BY <2>1
    <3> HIDE DEF l
    <3>3. /\ anchors' \in [Indexes -> Nat] /\ anchors'[i] = l
          /\ \A j \in Indexes : j # i => anchors'[j] = anchors[j]
      BY <1>3, <2>1, <3>1, <3>2
    <3>4. references'[i] > 1 /\ anchors[i] = 0
      BY <1>3, <1>5, <1>6, <2>1, <2>2
    <3>5. \A j \in Indexes : (anchors'[j] # 0 <=> references'[j] > 1) /\ anchors'[j] <= l
      BY <1>6, <2>1, <3>2, <3>3, <3>4
    <3>6. \A j, k \in Indexes : anchors'[j] = anchors'[k] /\ anchors'[j] # 0 => j = k
      BY <2>1, <3>2, <3>3
    <3>7. \A a \in 1 .. l : \E j \in Indexes : anchors'[j] = a
      <4> TAKE a \in 1 .. l
      <4>1. CASE a = l
        BY <1>3, <3>3, <4>1
      <4>2. CASE a # l
        <5>1. a \in 1 .. last_anchor_id
          BY <2>1, <4>2 DEF l
        <5>2. PICK j \in Indexes : anchors[j] = a
          BY <2>1, <5>1
        <5>3. j # i
          BY <3>4, <5>2
        <5> QED BY <3>3, <5>2, <5>3
      <4> QED BY <4>1, <4>2
    <3> QED BY <1>4, <1>6, <3>1, <3>2, <3>3, <3>5, <3>6, <3>7 DEF Numbered
  <2>3. CASE count # 2
    <3>1. last_anchor_id' = last_anchor_id /\ anchors' = anchors
      BY <1>1, <2>3
    <3>2. references'[i] > 1 <=> references[i] > 1
      BY <1>3, <1>5, <1>6, <2>3
    <3>3. \A j \in Indexes : anchors[j] # 0 <=> references'[j] > 1
      BY <1>6, <2>1, <3>2
    <3> QED BY <1>4, <1>6, <2>1, <3>1, <3>3 DEF Numbered
  <2> QED BY <2>2, <2>3
<1>8. /\ Met' = Met \cup {i} /\ (i \in Met <=> count # 1)
      /\ Met \subseteq Indexes
  <2>1. references'[i] > 0 /\ (references[i] > 0 <=> count # 1)
    BY <1>3, <1>5, <1>6
  <2>2. \A j \in Indexes : j # i => (references'[j] > 0 <=> references[j] > 0)
    BY <1>6
  <2>3. Met' = {j \in Indexes : references'[j] > 0}
    BY <1>4 DEF Met
  <2> QED BY <1>3, <2>1, <2>2, <2>3 DEF Met
<1>9. PICK f \in [1 .. Len(todo) -> Edges(nodes, Met)] :
         /\ Ahead(nodes, todo, f)
         /\ Tallied(nodes, references, Left(Edges(nodes, Met), todo, f))
  BY <1>2 DEF Counting
<1>10. f[1] \in Edges(nodes, Met) /\ To(nodes, f[1]) = i /\ 1 \in 1 .. Len(todo)
  BY <1>3, <1>9 DEF Ahead
<1>11. MetAreReachable'
  <2>1. ASSUME NEW C \in SUBSET Indexes, Closed(nodes, C) PROVE i \in C
    <3>1. Met \subseteq C
      BY <1>2, <2>1 DEF MetAreReachable
    <3>2. CASE f[1] = Root
      BY <1>2, <1>10, <2>1, <3>2, EdgesLead DEF Closed
    <3>3. CASE \E j \in Met : \E k \in 1 .. Len(nodes[j].items) : f[1] = <<j, k>>
      <4>1. PICK j \in Met : \E k \in 1 .. Len(nodes[j].items) : f[1] = <<j, k>>
        BY <3>3
      <4>2. PICK k \in 1 .. Len(nodes[j].items) : f[1] = <<j, k>>
        BY <4>1
      <4>3. To(nodes, <<j, k>>) = nodes[j].items[k] /\ j \in C
        BY <1>2, <1>8, <3>1, EdgesLead
      <4> QED BY <1>10, <2>1, <4>2, <4>3 DEF Closed
    <3> QED BY <1>10, <3>2, <3>3, EdgesAre
  <2>2. \A C \in SUBSET Indexes : Closed(nodes, C) => Met' \subseteq C
    BY <1>2, <1>8, <2>1 DEF MetAreReachable
  <2> QED BY <1>1, <1>4, <2>2 DEF MetAreReachable
<1>12. added \in Seq(Indexes)
  <2>1. nodes[i].items \in Seq(Indexes)
    <3>1. nodes[i].items \in Seq(Nat) /\ \A k \in 1 .. Len(nodes[i].items) : nodes[i].items[k] \in Indexes
      BY <1>3, NodeFacts DEF Inv, Built
    <3> QED BY <3>1, SeqIn
  <2>2. <<>> \in Seq(Indexes)
    BY EmptySeq
  <2> QED BY <2>1, <2>2
<1> DEFINE E == Edges(nodes, Met)
           F == Edges(nodes, Met')
           p == [k \in 1 .. Len(added) |-> <<i, k>>]
           D == Left(E, todo, f)
<1>13. /\ \A e : e \in F <=> e \in E \/ \E k \in 1 .. Len(added) : e = p[k]
       /\ \A k \in 1 .. Len(added) : p[k] \notin E /\ To(nodes, p[k]) = added[k]
       /\ \A j, k \in 1 .. Len(added) : p[j] = p[k] => j = k
  <2>1. CASE count = 1
    <3>1. added = nodes[i].items /\ i \notin Met
      BY <1>8, <2>1
    <3> HIDE DEF added
    <3>2. \A k \in 1 .. Len(added) : p[k] = <<i, k>>
      OBVIOUS
    <3> HIDE DEF p
    <3>3. \A e : e \in F <=> e \in E \/ \E k \in 1 .. Len(added) : e = <<i, k>>
      <4> TAKE e
      <4>1. e \in F <=> e = Root \/ \E j \in Met' : \E k \in 1 .. Len(nodes[j].items) : e = <<j, k>>
        BY EdgesAre
      <4>2. e \in E <=> e = Root \/ \E j \in Met : \E k \in 1 .. Len(nodes[j].items) : e = <<j, k>>
        BY EdgesAre
      <4>3. \A j : j \in Met' <=> j \in Met \/ j = i
        BY <1>8
      <4> HIDE DEF E, F
      <4> QED BY Zenon, <3>1, <4>1, <4>2, <4>3
    <3>4. ASSUME NEW k \in 1 .. Len(added) PROVE <<i, k>> \notin E /\ To(nodes, <<i, k>>) = added[k]
      <4>1. <<i, k>> # Root /\ To(nodes, <<i, k>>) = added[k]
        BY <1>2, <1>3, <3>1, EdgesLead
      <4>2. i # 0
        BY <1>2, <1>3, EdgesLead
      <4>3. <<i, k>> \in E <=> (i = 0 /\ k = 1) \/ (i \in Met /\ k \in 1 .. Len(nodes[i].items))
        BY EdgesAre
      <4> HIDE DEF E
      <4> QED BY <3>1, <4>1, <4>2, <4>3
    <3>5. \A j, k : <<i, j>> = <<i, k>> => j = k
      OBVIOUS
    <3> HIDE DEF E, F
    <3>6. /\ \A e : e \in F <=> e \in E \/ \E k \in 1 .. Len(added) : e = p[k]
          /\ \A k \in 1 .. Len(added) : p[k] \notin E /\ To(nodes, p[k]) = added[k]
      BY <3>2, <3>3, <3>4
    <3>7. \A j, k \in 1 .. Len(added) : p[j] = p[k] => j = k
      BY <3>2, <3>5
    <3> QED BY <3>6, <3>7
  <2>2. CASE count # 1
    <3>1. added = <<>> /\ 1 .. Len(added) = {} /\ Met' = Met
      BY <1>8, <2>2
    <3> QED BY <3>1
  <2> QED BY <2>1, <2>2
<1>14. todo' \in Seq(Indexes) /\ Moved(nodes, todo', F, D \cup {f[1]})
  <2>1. f \in [1 .. Len(todo) -> E] /\ Ahead(nodes, todo, f) /\ todo' = added \o Tail(todo)
    BY <1>1, <1>9
  <2> HIDE DEF E, F, p, added
  <2>2. /\ todo \in Seq(Indexes) /\ todo # <<>> /\ added \in Seq(Indexes)
    BY <1>1, <1>2, <1>12
  <2>3. NewEdges(nodes, added, E, F, p)
    BY <1>13 DEF NewEdges
  <2>4. ListFits(nodes, Indexes, todo, added, E, f)
    BY <2>1, <2>2 DEF ListFits
  <2>5. /\ added \o Tail(todo) \in Seq(Indexes)
        /\ Moved(nodes, added \o Tail(todo), F, Left(E, todo, f) \cup {f[1]})
    BY <2>3, <2>4, ListMoves
  <2> QED BY <2>1, <2>5
<1>15. Tallied(nodes, references', D \cup {f[1]})
  <2>1. Tallied(nodes, references, D) /\ f[1] \notin D
    BY <1>9, <1>10 DEF Left
  <2> HIDE DEF D
  <2>2. references \in [1 .. Len(nodes) -> Nat] /\ i \in 1 .. Len(nodes)
    BY <1>3, <1>5 DEF Indexes
  <2>3. Tallied(nodes, [references EXCEPT ![i] = references[i] + 1], D \cup {f[1]})
    BY <1>10, <2>1, <2>2, TallyOne
  <2> QED BY <1>1, <2>3
<1>16. Counting'
  <2>1. PICK h \in [1 .. Len(todo') -> F] :
             /\ Ahead(nodes, todo', h)
             /\ Left(F, todo', h) = D \cup {f[1]}
    BY <1>14 DEF Moved
  <2>2. Tallied(nodes, references', Left(F, todo', h))
    BY <1>15, <2>1
  <2> QED BY <1>1, <2>1, <2>2 DEF Counting
<1> QED
  BY <1>1, <1>2, <1>4, <1>7, <1>11, <1>14, <1>16 DEF AnchorInv

\* All edges have been followed.
LEMMA AnchoredKeepsAnchored ==
    ASSUME Inv, AnchorInv, anchored
    PROVE  AnchorInv'
<1>1. /\ pc = "anchor" /\ pc' = "dump" /\ todo = <<>>
      /\ UNCHANGED <<nodes, events, open, serialized, references, anchors, last_anchor_id>>
  BY DEF anchored, document, tables
<1>2. /\ Numbered /\ Counting /\ MetAreReachable /\ Bare /\ nodes # <<>>
      /\ \A k \in 1 .. Len(events) : events[k].type = "DOCUMENT_START"
      /\ open = <<>> /\ Len(events) = 1 /\ serialized = {} /\ events # <<>>
  BY <1>1 DEF AnchorInv, Inv, Control
<1>3. Numbered' /\ MetAreReachable' /\ Bare' /\ Indexes' = Indexes /\ Met' = Met
  BY <1>1, <1>2 DEF Numbered, MetAreReachable, Bare, Indexes, Met
<1>4. Tallied(nodes, references, Edges(nodes, Met))
  <2>1. PICK f \in [1 .. Len(todo) -> Edges(nodes, Met)] :
           Tallied(nodes, references, Left(Edges(nodes, Met), todo, f))
    BY <1>2 DEF Counting
  <2>2. 1 .. Len(todo) = {}
    BY <1>1, EmptySeq
  <2>3. Left(Edges(nodes, Met), todo, f) = Edges(nodes, Met)
    BY <2>2 DEF Left
  <2> QED BY <2>1, <2>3
<1>5. Dumped
  <2> DEFINE D == Followed(nodes, serialized, open, Len(events))
  <2>1. D = {}
    <3>1. \A e \in Edges(nodes, {}) : e = Root
      BY EdgesAre
    <3>2. ~ (Len(events) > 1)
      BY <1>2
    <3> QED BY <1>2, <3>1, <3>2 DEF Followed
  <2> HIDE DEF D
  <2>2. \A j : ~ HasAlias(events, j)
    BY <1>2 DEF HasAlias
  <2>3. Last(events).type = "DOCUMENT_START"
    <3>1. Last(events) = events[1]
      BY <1>2 DEF Last
    <3> QED BY <1>2, <3>1
  <2>4. 1 .. Len(open) = {}
    BY <1>2, EmptySeq
  <2>5. \A j \in Indexes : ~ Twice(nodes, D, j) /\ ~ \E e \in D : To(nodes, e) = j
    BY <2>1 DEF Twice
  <2> QED BY <1>2, <2>1, <2>2, <2>3, <2>4, <2>5 DEF Dumped, D
<1>6. Dumped'
  BY <1>1, <1>3, <1>5 DEF Dumped
<1> QED
  BY <1>1, <1>3, <1>4, <1>6 DEF AnchorInv

-----------------------------------------------------------------------------
(* yaml_emitter_dump_node and what it calls.                               *)

\* The edge that is followed next.
DueEdge == IF open = <<>> THEN Root ELSE <<Last(open).node, Last(open).next>>

\* What it is to have been followed.
IsFollowed(g, S, in, n, e) ==
    \/ e = Root /\ n > 1
    \/ \E i \in S : \E k \in 1 .. Len(g[i].items) :
          e = <<i, k>> /\ \A l \in 1 .. Len(in) : in[l].node = i => k < in[l].next

\* An edge from a node has been followed if the loop of each collection that is
\* this node is past it.
LEMMA FollowedAre ==
    ASSUME Inv, nodes # <<>>, NEW S \in SUBSET Indexes, NEW in, NEW n, NEW e
    PROVE  e \in Followed(nodes, S, in, n) <=> IsFollowed(nodes, S, in, n, e)
<1> DEFINE Past(d) == \A l \in 1 .. Len(in) : in[l].node = d[1] => d[2] < in[l].next
<1>1. e \in Followed(nodes, S, in, n) <=>
         e \in Edges(nodes, S) /\ IF e = Root THEN n > 1 ELSE Past(e)
  BY DEF Followed
<1>2. \A i \in S : \A k \in 1 .. Len(nodes[i].items) : <<i, k>> # Root
  BY EdgesLead
<1>3. \A i, k : Past(<<i, k>>) <=> \A l \in 1 .. Len(in) : in[l].node = i => k < in[l].next
  OBVIOUS
<1> HIDE DEF Past
<1>4. e \in Edges(nodes, S) <=> e = Root \/ \E i \in S : \E k \in 1 .. Len(nodes[i].items) : e = <<i, k>>
  BY EdgesAre
<1>5. CASE e = Root
  <2>1. ~ \E i \in S : \E k \in 1 .. Len(nodes[i].items) : e = <<i, k>>
    BY <1>2, <1>5, Zenon
  <2> QED BY <1>1, <1>4, <1>5, <2>1, Zenon DEF IsFollowed
<1>6. CASE e # Root
  <2>1. \A i, k : e = <<i, k>> =>
           (Past(e) <=> \A l \in 1 .. Len(in) : in[l].node = i => k < in[l].next)
    BY <1>3
  <2>2. e \in Followed(nodes, S, in, n) <=>
           Past(e) /\ \E i \in S : \E k \in 1 .. Len(nodes[i].items) : e = <<i, k>>
    BY <1>1, <1>4, <1>6, Zenon
  <2> DEFINE Q == \E i \in S : \E k \in 1 .. Len(nodes[i].items) :
                     /\ e = <<i, k>>
                     /\ \A l \in 1 .. Len(in) : in[l].node = i => k < in[l].next
  <2>3. ASSUME e \in Followed(nodes, S, in, n) PROVE Q
    <3>1. PICK i \in S : \E k \in 1 .. Len(nodes[i].items) : e = <<i, k>>
      BY <2>2, <2>3
    <3>2. PICK k \in 1 .. Len(nodes[i].items) : e = <<i, k>>
      BY <3>1
    <3>3. \A l \in 1 .. Len(in) : in[l].node = i => k < in[l].next
      BY <2>1, <2>2, <2>3, <3>2, Zenon
    <3> QED BY <3>2, <3>3, Zenon
  <2>4. ASSUME Q PROVE e \in Followed(nodes, S, in, n)
    <3>1. PICK i \in S : \E k \in 1 .. Len(nodes[i].items) :
                     /\ e = <<i, k>>
                     /\ \A l \in 1 .. Len(in) : in[l].node = i => k < in[l].next
      BY <2>4, Zenon
    <3>2. PICK k \in 1 .. Len(nodes[i].items) :
                     /\ e = <<i, k>>
                     /\ \A l \in 1 .. Len(in) : in[l].node = i => k < in[l].next
      BY <3>1, Zenon
    <3>3. Past(e)
      BY <2>1, <3>2, Zenon
    <3> QED BY <2>2, <3>2, <3>3, Zenon
  <2>5. e \in Followed(nodes, S, in, n) <=> Q
    BY <2>3, <2>4
  <2> HIDE DEF Q
  <2>6. e \in Followed(nodes, S, in, n) <=> (e = Root /\ n > 1) \/ Q
    BY <1>6, <2>5
  <2> QED BY <2>6 DEF Q, IsFollowed
<1> QED
  BY <1>5, <1>6

\* The loop of the innermost collection goes on, all else is as it was.
LEMMA AdvancedIs ==
    ASSUME Inv, AnchorInv, pc = "dump", RootIsDue \/ InItems
    PROVE  /\ Len(open) \in Nat /\ Len(Advanced) = Len(open) /\ Advanced \in Seq(Spot)
           /\ \A k \in 1 .. Len(open) :
                 /\ open[k].next \in Nat
                 /\ Advanced[k].node = open[k].node
                 /\ Advanced[k].next = IF k = Len(open) THEN open[k].next + 1 ELSE open[k].next
           /\ open # <<>> =>
                 /\ Len(open) \in 1 .. Len(open) /\ Last(open) = open[Len(open)]
                 /\ Last(open).node \in serialized
                 /\ Last(open).next \in 1 .. Len(nodes[Last(open).node].items)
<1>1. open \in Seq(Spot) /\ Len(open) \in Nat /\ \A k \in 1 .. Len(open) : open[k].next \in Nat
  <2>1. open \in Seq(Spot)
    BY DEF Inv, Entered, Spot
  <2>2. \A k \in 1 .. Len(open) : open[k] \in Spot
    BY <2>1, ElementOfSeq
  <2> QED BY <2>1, <2>2, LenProperties DEF Spot
<1>2. CASE open = <<>>
  <2>1. Advanced = <<>> /\ 1 .. Len(<<>>) = {}
    BY <1>2, EmptySeq DEF Advanced
  <2> QED BY <1>1, <1>2, <2>1
<1>3. CASE open # <<>>
  <2> DEFINE c == Last(open)
             d == [c EXCEPT !.next = @ + 1]
             m == Len(open)
  <2>1. /\ c \in Spot /\ Within(c) /\ m \in Nat \ {0}
        /\ Front(open) \in Seq(Spot) /\ Len(Front(open)) = m - 1
        /\ \A k \in 1 .. (m - 1) : Front(open)[k] = open[k]
    BY <1>3, Innermost
  <2>2. c = open[m] /\ m \in 1 .. m
    BY <1>1, <1>3, <2>1, PopFacts
  <2>3. d \in Spot /\ d.node = c.node /\ d.next = c.next + 1 /\ c.next \in Nat
    BY <2>1, NextSpot, Zenon
  <2>4. Advanced = Append(Front(open), d)
    BY <1>3 DEF Advanced
  <2>5. c.node \in serialized
    BY <2>2 DEF AnchorInv, Dumped
  <2>6. c.next \in 1 .. Len(nodes[c.node].items)
    <3>1. c.next <= Len(nodes[c.node].items)
      BY <1>3 DEF InItems, RootIsDue
    <3>2. c.node \in Indexes /\ c.next \in 1 .. (Len(nodes[c.node].items) + 1)
      BY <2>1 DEF Within
    <3>3. Len(nodes[c.node].items) \in Nat
      BY <3>2, NodeFacts
    <3> QED BY <2>3, <3>1, <3>2, <3>3
  <2> HIDE DEF d, c, m
  <2>7. /\ Advanced \in Seq(Spot) /\ Len(Advanced) = (m - 1) + 1
        /\ \A k \in 1 .. (m - 1) : Advanced[k] = Front(open)[k]
        /\ Advanced[(m - 1) + 1] = d
    BY <2>1, <2>3, <2>4, PushPop
  <2>8. (m - 1) + 1 = m /\ \A k \in 1 .. m : (k \in 1 .. (m - 1) /\ k # m) \/ k = m
    BY <2>1
  <2>9. ASSUME NEW k \in 1 .. m
        PROVE  /\ Advanced[k].node = open[k].node
               /\ Advanced[k].next = IF k = m THEN open[k].next + 1 ELSE open[k].next
    <3>1. CASE k = m
      BY <2>2, <2>3, <2>7, <2>8, <3>1
    <3>2. CASE k # m
      BY <2>1, <2>7, <2>8, <3>2
    <3> QED BY <3>1, <3>2
  <2>10. Advanced \in Seq(Spot) /\ Len(Advanced) = Len(open)
    BY <2>7, <2>8 DEF m
  <2>11. \A k \in 1 .. Len(open) :
            /\ open[k].next \in Nat
            /\ Advanced[k].node = open[k].node
            /\ Advanced[k].next = IF k = Len(open) THEN open[k].next + 1 ELSE open[k].next
    BY <1>1, <2>9 DEF m
  <2> QED BY <1>1, <2>2, <2>5, <2>6, <2>10, <2>11 DEF c, m
<1> QED
  BY <1>2, <1>3

\* The edge that is due has not been followed, and leads to the node that is due.
LEMMA DueEdgeIs ==
    ASSUME Inv, AnchorInv, pc = "dump", RootIsDue \/ InItems
    PROVE  /\ DueEdge \in Edges(nodes, serialized) /\ To(nodes, DueEdge) = Due
           /\ DueEdge \notin Followed(nodes, serialized, open, Len(events))
           /\ Due \in Met /\ serialized \subseteq Met /\ Met \subseteq Indexes
<1>1. /\ nodes # <<>> /\ serialized \subseteq Met /\ Met \subseteq Indexes
      /\ Numbered /\ Tallied(nodes, references, Edges(nodes, Met))
  BY DEF Inv, Control, AnchorInv, Dumped, Met
<1>2. /\ DueEdge \in Edges(nodes, serialized) /\ To(nodes, DueEdge) = Due
      /\ DueEdge \notin Followed(nodes, serialized, open, Len(events))
  <2>1. CASE open = <<>>
    <3>1. DueEdge = Root /\ Due = 1 /\ ~ (Len(events) > 1)
      <4>1. DueEdge = Root /\ Due = 1
        BY <2>1, Zenon DEF DueEdge, Due
      <4>2. Len(events) = 1
        BY <2>1, Zenon DEF RootIsDue, InItems
      <4> QED BY <4>1, <4>2
    <3>2. Root \in Edges(nodes, serialized) /\ To(nodes, Root) = 1
      BY <1>1, EdgesAre, EdgesLead
    <3> QED BY <3>1, <3>2 DEF Followed
  <2>2. CASE open # <<>>
    <3> DEFINE i == Last(open).node
               k == Last(open).next
               m == Len(open)
    <3>1. /\ DueEdge = <<i, k>> /\ Due = nodes[i].items[k]
          /\ i \in serialized /\ k \in 1 .. Len(nodes[i].items) /\ i \in Indexes
          /\ m \in 1 .. m /\ open[m].node = i /\ open[m].next = k /\ k \in Nat
      BY <1>1, <2>2, AdvancedIs DEF DueEdge, Due
    <3> HIDE DEF i, k, m
    <3>2. DueEdge \in Edges(nodes, serialized)
      BY <3>1, EdgesAre
    <3>3. DueEdge # Root /\ To(nodes, DueEdge) = Due
      BY <1>1, <3>1, EdgesLead
    <3>4. DueEdge[1] = i /\ DueEdge[2] = k /\ ~ (k < k)
      BY <3>1
    <3>5. ~ \A l \in 1 .. Len(open) : open[l].node = DueEdge[1] => DueEdge[2] < open[l].next
      BY <3>1, <3>4 DEF m
    <3>6. DueEdge \notin Followed(nodes, serialized, open, Len(events))
      BY <3>3, <3>5, Zenon DEF Followed
    <3> QED BY <3>2, <3>3, <3>6
  <2> QED BY <2>1, <2>2
<1>3. Due \in Met
  <2>1. Due \in Indexes
    BY DueFacts
  <2>2. DueEdge \in Edges(nodes, Met)
    <3>1. ASSUME NEW e \in Edges(nodes, serialized) PROVE e \in Edges(nodes, Met)
      <4>1. e = Root \/ \E i \in serialized : \E k \in 1 .. Len(nodes[i].items) : e = <<i, k>>
        BY EdgesAre
      <4>2. e = Root \/ \E i \in Met : \E k \in 1 .. Len(nodes[i].items) : e = <<i, k>>
        BY <1>1, <4>1, Zenon
      <4> QED BY <4>2, EdgesAre
    <3> QED BY <1>2, <3>1
  <2>3. references[Due] > 0
    BY <1>1, <1>2, <2>1, <2>2 DEF Tallied, Indexes
  <2> QED BY <2>1, <2>3 DEF Met
<1> QED
  BY <1>1, <1>2, <1>3

\* Going on, the loop of the innermost collection is past one edge more.
LEMMA PastOneMore ==
    ASSUME Inv, AnchorInv, pc = "dump", RootIsDue \/ InItems, NEW i, NEW k \in Nat
    PROVE  (\A l \in 1 .. Len(open) : Advanced[l].node = i => k < Advanced[l].next)
             <=> \/ \A l \in 1 .. Len(open) : open[l].node = i => k < open[l].next
                 \/ open # <<>> /\ i = Last(open).node /\ k = Last(open).next
<1>1. /\ Len(open) \in Nat
      /\ \A l \in 1 .. Len(open) :
            /\ open[l].next \in Nat
            /\ Advanced[l].node = open[l].node
            /\ Advanced[l].next = IF l = Len(open) THEN open[l].next + 1 ELSE open[l].next
  BY AdvancedIs
<1>2. CASE open = <<>>
  <2>1. 1 .. Len(open) = {}
    BY <1>2, EmptySeq
  <2> QED BY <1>2, <2>1
<1>3. CASE open # <<>>
  <2> DEFINE m == Len(open)
  <2>1. m \in 1 .. m /\ Last(open) = open[m]
    BY <1>3, AdvancedIs
  <2>2. \A l \in 1 .. m : open[l].node = open[m].node => l = m
    BY <2>1 DEF AnchorInv, Dumped
  <2>3. \A l \in 1 .. m :
            /\ open[l].next \in Nat
            /\ Advanced[l].node = open[l].node
            /\ Advanced[l].next = IF l = m THEN open[l].next + 1 ELSE open[l].next
    BY <1>1
  <2> HIDE DEF m
  <2>4. ASSUME \A l \in 1 .. m : Advanced[l].node = i => k < Advanced[l].next,
               NEW o \in 1 .. m, open[o].node = i, ~ (k < open[o].next)
        PROVE  i = open[m].node /\ k = open[m].next
    <3>1. k < Advanced[o].next /\ open[o].next \in Nat
      BY <2>3, <2>4
    <3>2. o = m
      BY <2>3, <2>4, <3>1
    <3>3. Advanced[o].next = open[o].next + 1
      BY <2>3, <3>2
    <3> QED BY <2>4, <3>1, <3>2, <3>3
  <2>5. ASSUME NEW o \in 1 .. m, Advanced[o].node = i,
               \/ \A l \in 1 .. m : open[l].node = i => k < open[l].next
               \/ i = open[m].node /\ k = open[m].next
        PROVE  k < Advanced[o].next
    <3>1. open[o].node = i /\ open[o].next \in Nat
      BY <2>3, <2>5
    <3>2. CASE k < open[o].next
      BY <2>3, <3>1, <3>2
    <3>3. CASE i = open[m].node /\ k = open[m].next
      <4>1. o = m
        BY <2>2, <3>1, <3>3
      <4>2. Advanced[o].next = open[o].next + 1
        BY <2>3, <4>1
      <4> QED BY <3>1, <3>3, <4>1, <4>2
    <3> QED BY <2>5, <3>1, <3>2, <3>3
  <2> QED BY <1>3, <2>1, <2>4, <2>5, Zenon DEF m
<1> QED
  BY <1>2, <1>3

\* The loops after dump_node has been called for the node that is due: they are
\* in a collection more, or not.
Entering(S, in) ==
    \/ in = Advanced /\ \A i \in S \ serialized : nodes[i].items = <<>>
    \/ /\ in = Append(Advanced, [node |-> Due, next |-> 1])
       /\ S = serialized \cup {Due} /\ Due \notin serialized

\* They are past what they were past before, and past the edge that was due.
LEMMA PastWhatIsDue ==
    ASSUME Inv, AnchorInv, pc = "dump", RootIsDue \/ InItems,
           NEW S \in SUBSET Indexes, serialized \subseteq S, NEW in, Entering(S, in)
    PROVE  /\ \A i \in S : \A k \in 1 .. Len(nodes[i].items) :
                 (\A l \in 1 .. Len(in) : in[l].node = i => k < in[l].next)
                   <=> \/ /\ i \in serialized
                          /\ \A l \in 1 .. Len(open) : open[l].node = i => k < open[l].next
                       \/ open # <<>> /\ i = Last(open).node /\ k = Last(open).next
           /\ \A k \in 1 .. Len(in) : in[k].node \in S
           /\ \A k, l \in 1 .. Len(in) : in[k].node = in[l].node => k = l
<1> DEFINE Past(i, k) == \/ \A l \in 1 .. Len(open) : open[l].node = i => k < open[l].next
                         \/ open # <<>> /\ i = Last(open).node /\ k = Last(open).next
<1>1. /\ Len(open) \in Nat /\ Len(Advanced) = Len(open) /\ Advanced \in Seq(Spot)
      /\ \A k \in 1 .. Len(open) : Advanced[k].node = open[k].node
      /\ open # <<>> => Last(open).node \in serialized
  BY AdvancedIs
<1>2. /\ \A k \in 1 .. Len(open) : Advanced[k].node \in serialized
      /\ \A k, l \in 1 .. Len(open) : Advanced[k].node = Advanced[l].node => k = l
  BY <1>1 DEF AnchorInv, Dumped
<1>3. \A i : \A k \in Nat :
         (\A l \in 1 .. Len(open) : Advanced[l].node = i => k < Advanced[l].next) <=> Past(i, k)
  BY PastOneMore
<1>4. \A i \in S : \A k \in 1 .. Len(nodes[i].items) : k \in Nat /\ ~ (k < 1)
  BY NodeFacts
<1> HIDE DEF Past
<1>5. CASE in = Advanced /\ \A i \in S \ serialized : nodes[i].items = <<>>
  <2>1. Len(in) = Len(open)
    BY <1>1, <1>5
  <2>2. \A i \in S \ serialized : 1 .. Len(nodes[i].items) = {}
    BY <1>5, EmptySeq
  <2>3. \A i \in S : \A k \in 1 .. Len(nodes[i].items) :
           /\ (\A l \in 1 .. Len(in) : in[l].node = i => k < in[l].next) <=> Past(i, k)
           /\ i \in serialized
    BY <1>3, <1>4, <1>5, <2>1, <2>2
  <2> QED BY <1>2, <1>5, <2>1, <2>3, Zenon DEF Past
<1>6. CASE /\ in = Append(Advanced, [node |-> Due, next |-> 1])
           /\ S = serialized \cup {Due} /\ Due \notin serialized
  <2> DEFINE c == [node |-> Due, next |-> 1]
             m == Len(open)
  <2>1. c.node = Due /\ c.next = 1
    OBVIOUS
  <2>2. c \in Spot
    BY DueFacts, NodeFacts DEF Spot
  <2>3. in = Append(Advanced, c)
    BY <1>6
  <2> HIDE DEF c
  <2>4. /\ Len(in) = m + 1 /\ \A k \in 1 .. m : in[k] = Advanced[k]
        /\ in[m + 1] = c
    BY <1>1, <2>2, <2>3, PushPop
  <2>5. /\ \A k \in 1 .. (m + 1) : k \in 1 .. m \/ k = m + 1
        /\ \A k \in 1 .. m : k \in 1 .. (m + 1)
        /\ m + 1 \in 1 .. (m + 1)
    BY <1>1
  <2>6. /\ \A k \in 1 .. m : in[k].node \in serialized
        /\ \A k, l \in 1 .. m : in[k].node = in[l].node => k = l
        /\ in[m + 1].node = Due /\ in[m + 1].next = 1
    BY <1>2, <2>1, <2>4
  <2> HIDE DEF m
  <2>7. /\ \A k \in 1 .. Len(in) : in[k].node \in S
        /\ \A k, l \in 1 .. Len(in) : in[k].node = in[l].node => k = l
    BY <1>6, <2>4, <2>5, <2>6
  <2>8. ASSUME NEW i \in serialized, NEW k \in 1 .. Len(nodes[i].items)
        PROVE  (\A l \in 1 .. Len(in) : in[l].node = i => k < in[l].next) <=> Past(i, k)
    <3>1. (\A l \in 1 .. m : Advanced[l].node = i => k < Advanced[l].next) <=> Past(i, k)
      BY <1>3, <1>4, <1>6 DEF m
    <3>2. i # Due
      BY <1>6
    <3>3. (\A l \in 1 .. (m + 1) : in[l].node = i => k < in[l].next)
             <=> (\A l \in 1 .. m : in[l].node = i => k < in[l].next)
      BY <2>5, <2>6, <3>2
    <3>4. (\A l \in 1 .. m : in[l].node = i => k < in[l].next)
             <=> (\A l \in 1 .. m : Advanced[l].node = i => k < Advanced[l].next)
      BY <2>4
    <3> QED BY <2>4, <3>1, <3>3, <3>4
  <2>9. ASSUME NEW k \in 1 .. Len(nodes[Due].items)
        PROVE  /\ ~ \A l \in 1 .. Len(in) : in[l].node = Due => k < in[l].next
               /\ open # <<>> => Due # Last(open).node
    <3>1. ~ (k < 1)
      BY <1>4, <1>6
    <3> QED BY <1>1, <1>6, <2>4, <2>5, <2>6, <3>1
  <2>10. ASSUME NEW i \in S, NEW k \in 1 .. Len(nodes[i].items)
         PROVE  (\A l \in 1 .. Len(in) : in[l].node = i => k < in[l].next)
                   <=> \/ /\ i \in serialized
                          /\ \A l \in 1 .. Len(open) : open[l].node = i => k < open[l].next
                       \/ open # <<>> /\ i = Last(open).node /\ k = Last(open).next
    <3>1. CASE i \in serialized
      BY <2>8, <3>1, Zenon DEF Past
    <3>2. CASE i = Due
      BY <1>6, <2>9, <3>2, Zenon
    <3> QED BY <1>6, <3>1, <3>2
  <2> QED BY <2>7, <2>10
<1> QED
  BY <1>5, <1>6 DEF Entering

\* So the due edge has been followed then, and no other has been added.
LEMMA EdgeIsFollowed ==
    ASSUME Inv, AnchorInv, pc = "dump", RootIsDue \/ InItems,
           NEW S \in SUBSET Indexes, serialized \subseteq S, NEW in, Entering(S, in),
           NEW n, n > 1
    PROVE  \A e : e \in Followed(nodes, S, in, n)
                    <=> e \in Followed(nodes, serialized, open, Len(events)) \/ e = DueEdge
<1> DEFINE Old(i, k) == \A l \in 1 .. Len(open) : open[l].node = i => k < open[l].next
           New(i, k) == \A l \in 1 .. Len(in) : in[l].node = i => k < in[l].next
           D == Followed(nodes, serialized, open, Len(events))
<1>1. nodes # <<>> /\ serialized \subseteq Indexes
  BY DEF Inv, Control, Tables
<1>2. \A i \in S : \A k \in 1 .. Len(nodes[i].items) :
         New(i, k) <=> \/ i \in serialized /\ Old(i, k)
                       \/ open # <<>> /\ i = Last(open).node /\ k = Last(open).next
  BY PastWhatIsDue
<1>3. open # <<>> => /\ Len(events) > 1 /\ DueEdge = <<Last(open).node, Last(open).next>>
                     /\ Last(open).node \in serialized
                     /\ Last(open).next \in 1 .. Len(nodes[Last(open).node].items)
  <2>1. events # <<>> /\ events \in Seq(EventRecord)
    BY DEF Inv, Control, Tables, EventRecord
  <2>2. Len(events) \in Nat /\ Len(events) # 0
    BY <2>1, LenProperties, EmptySeq
  <2>3. open # <<>> => Len(events) # 1
    BY DEF AnchorInv, Dumped
  <2>4. open # <<>> => Len(events) > 1
    BY <2>2, <2>3
  <2>5. open # <<>> => DueEdge = <<Last(open).node, Last(open).next>>
    BY Zenon DEF DueEdge
  <2> QED BY <2>4, <2>5, AdvancedIs
<1>4. open = <<>> => DueEdge = Root
  BY DEF DueEdge
<1>5. \A e : e \in D <=>
             \/ e = Root /\ Len(events) > 1
             \/ \E i \in serialized : \E k \in 1 .. Len(nodes[i].items) : e = <<i, k>> /\ Old(i, k)
  <2>1. \A e : e \in D <=> IsFollowed(nodes, serialized, open, Len(events), e)
    BY <1>1, FollowedAre
  <2> QED BY <2>1, Zenon DEF IsFollowed
<1>6. \A e : e \in Followed(nodes, S, in, n) <=>
             \/ e = Root /\ n > 1
             \/ \E i \in S : \E k \in 1 .. Len(nodes[i].items) : e = <<i, k>> /\ New(i, k)
  <2>1. \A e : e \in Followed(nodes, S, in, n) <=> IsFollowed(nodes, S, in, n, e)
    BY <1>1, FollowedAre
  <2> QED BY <2>1, Zenon DEF IsFollowed
<1> HIDE DEF Old, New, D
<1>7. ASSUME NEW e \in Followed(nodes, S, in, n) PROVE e \in D \/ e = DueEdge
  <2>1. CASE e = Root
    BY <1>3, <1>4, <1>5, <2>1
  <2>2. CASE \E i \in S : \E k \in 1 .. Len(nodes[i].items) : e = <<i, k>> /\ New(i, k)
    <3>1. PICK i \in S : \E k \in 1 .. Len(nodes[i].items) : e = <<i, k>> /\ New(i, k)
      BY <2>2
    <3>2. PICK k \in 1 .. Len(nodes[i].items) : e = <<i, k>> /\ New(i, k)
      BY <3>1
    <3>3. CASE i \in serialized /\ Old(i, k)
      BY <1>5, <3>2, <3>3, Zenon
    <3>4. CASE open # <<>> /\ i = Last(open).node /\ k = Last(open).next
      BY <1>3, <3>2, <3>4
    <3> QED BY <1>2, <3>2, <3>3, <3>4
  <2> QED BY <1>6, <2>1, <2>2
<1>8. ASSUME NEW e \in D PROVE e \in Followed(nodes, S, in, n)
  <2>1. CASE e = Root
    BY <1>6, <2>1
  <2>2. CASE \E i \in serialized : \E k \in 1 .. Len(nodes[i].items) : e = <<i, k>> /\ Old(i, k)
    <3>1. PICK i \in serialized : \E k \in 1 .. Len(nodes[i].items) : e = <<i, k>> /\ Old(i, k)
      BY <2>2
    <3>2. PICK k \in 1 .. Len(nodes[i].items) : e = <<i, k>> /\ Old(i, k)
      BY <3>1
    <3>3. i \in S /\ New(i, k)
      BY <1>2, <3>2
    <3> QED BY <1>6, <3>2, <3>3, Zenon
  <2> QED BY <1>5, <2>1, <2>2
<1>9. DueEdge \in Followed(nodes, S, in, n)
  <2>1. CASE open = <<>>
    BY <1>4, <1>6, <2>1
  <2>2. CASE open # <<>>
    <3> DEFINE i == Last(open).node
               k == Last(open).next
    <3>1. DueEdge = <<i, k>> /\ i \in S /\ k \in 1 .. Len(nodes[i].items)
      BY <1>3, <2>2
    <3>2. New(i, k)
      BY <1>2, <2>2, <3>1
    <3> HIDE DEF i, k
    <3> QED BY <1>6, <3>1, <3>2, Zenon
  <2> QED BY <2>1, <2>2
<1> QED
  BY <1>7, <1>8, <1>9 DEF D

\* An event that is no alias, or one, in the list of events.
LEMMA Listed ==
    ASSUME Inv, NEW type \in EventTypes, NEW node \in Nat, NEW anchor \in Nat, NEW blocks,
           Emit(type, node, anchor, blocks)
    PROVE  /\ \A j : HasAlias(events', j) <=> HasAlias(events, j) \/ (type = "ALIAS" /\ node = j)
           /\ Last(events').type = type
           /\ Len(events) \in Nat /\ Len(events') = Len(events) + 1
<1> DEFINE e == [type |-> type, node |-> node, anchor |-> anchor]
           m == Len(events)
<1>1. events \in Seq(EventRecord) /\ e \in EventRecord /\ e.type = type /\ e.node = node
  BY DEF Inv, Tables, EventRecord
<1>2. events' = Append(events, e)
  BY DEF Emit
<1> HIDE DEF e
<1>3. /\ Len(events') = m + 1 /\ Last(events') = e
      /\ \A k \in 1 .. m : events'[k] = events[k]
      /\ events'[m + 1] = e
  BY <1>1, <1>2, PushPop
<1>4. m \in Nat
  BY <1>1, LenProperties
<1>5. /\ \A k \in 1 .. (m + 1) : k \in 1 .. m \/ k = m + 1
      /\ \A k \in 1 .. m : k \in 1 .. (m + 1)
      /\ m + 1 \in 1 .. (m + 1)
  BY <1>4
<1>6. ASSUME NEW j
      PROVE  HasAlias(events', j) <=> HasAlias(events, j) \/ (type = "ALIAS" /\ node = j)
  <2>1. HasAlias(events', j) <=> \E k \in 1 .. (m + 1) : events'[k].type = "ALIAS" /\ events'[k].node = j
    BY <1>3 DEF HasAlias
  <2>2. HasAlias(events, j) <=> \E k \in 1 .. m : events[k].type = "ALIAS" /\ events[k].node = j
    BY DEF HasAlias
  <2> HIDE DEF m
  <2> QED BY <1>1, <1>3, <1>5, <2>1, <2>2
<1> QED
  BY <1>1, <1>3, <1>4, <1>6

\* A node that one edge more leads to.
LEMMA OneEdgeMore ==
    ASSUME NEW g, NEW D, NEW F, NEW e, e \notin D, \A d : d \in F <=> d \in D \/ d = e, NEW j
    PROVE  /\ (\E d \in F : To(g, d) = j) <=> To(g, e) = j \/ \E d \in D : To(g, d) = j
           /\ Twice(g, F, j) <=> Twice(g, D, j) \/ (To(g, e) = j /\ \E d \in D : To(g, d) = j)
<1>1. (\E d \in F : To(g, d) = j) <=> To(g, e) = j \/ \E d \in D : To(g, d) = j
  OBVIOUS
<1>2. ASSUME Twice(g, F, j)
      PROVE  Twice(g, D, j) \/ (To(g, e) = j /\ \E d \in D : To(g, d) = j)
  <2>1. PICK a \in F, b \in F : a # b /\ To(g, a) = j /\ To(g, b) = j
    BY <1>2, Zenon DEF Twice
  <2>2. CASE a \in D /\ b \in D
    BY <2>1, <2>2, Zenon DEF Twice
  <2>3. CASE a = e \/ b = e
    BY <2>1, <2>3
  <2> QED BY <2>2, <2>3
<1>3. ASSUME Twice(g, D, j) PROVE Twice(g, F, j)
  <2>1. PICK a \in D, b \in D : a # b /\ To(g, a) = j /\ To(g, b) = j
    BY <1>3, Zenon DEF Twice
  <2>2. a \in F /\ b \in F
    OBVIOUS
  <2> QED BY <2>1, <2>2, Zenon DEF Twice
<1>4. ASSUME To(g, e) = j, NEW d \in D, To(g, d) = j PROVE Twice(g, F, j)
  <2>1. d \in F /\ e \in F /\ d # e
    OBVIOUS
  <2> QED BY <1>4, <2>1, Zenon DEF Twice
<1> QED
  BY <1>1, <1>2, <1>3, <1>4, Zenon

\* What is not touched while nodes are dumped.
LEMMA StillDumping ==
    ASSUME AnchorInv, pc = "dump", pc' = "dump",
           UNCHANGED <<nodes, references, anchors, last_anchor_id>>, Dumped'
    PROVE  AnchorInv'
<1>1. Indexes' = Indexes
  BY DEF Indexes
<1>2. Bare' /\ Numbered' /\ Met' = Met
  BY <1>1 DEF AnchorInv, Bare, Numbered, Met
<1>3. MetAreReachable' /\ Tallied(nodes', references', Edges(nodes', Met'))
  BY <1>1, <1>2 DEF AnchorInv, MetAreReachable
<1> QED
  BY <1>2, <1>3 DEF AnchorInv

\* The edge that was due has been followed.
LEMMA FollowedKeeps ==
    ASSUME Inv, AnchorInv, pc = "dump", RootIsDue \/ InItems,
           UNCHANGED <<nodes, references>>,
           serialized' = serialized \cup {Due}, Entering(serialized', open'),
           Len(events) \in Nat, Len(events') = Len(events) + 1,
           Last(events').type # "DOCUMENT_END",
           \A j : HasAlias(events', j) <=> HasAlias(events, j) \/ (Due \in serialized /\ j = Due)
    PROVE  Dumped'
<1> DEFINE D == Followed(nodes, serialized, open, Len(events))
           F == Followed(nodes, serialized', open', Len(events'))
<1>1. /\ Due \in Indexes /\ Indexes' = Indexes /\ Met' = Met
      /\ serialized' \subseteq Indexes /\ serialized' \subseteq Met /\ serialized \subseteq serialized'
      /\ DueEdge \notin D /\ To(nodes, DueEdge) = Due
  <2>1. /\ Due \in Indexes /\ Due \in Met /\ serialized \subseteq Met /\ Met \subseteq Indexes
        /\ DueEdge \notin D /\ To(nodes, DueEdge) = Due
    BY DueFacts, DueEdgeIs
  <2>2. Indexes' = Indexes
    BY DEF Indexes
  <2>3. Met' = Met
    BY <2>2 DEF Met
  <2> QED BY <2>1, <2>2, <2>3
<1>2. Len(events') > 1 /\ Len(events') # 1
  <2>1. Len(events) # 0
    <3>1. events # <<>> /\ events \in Seq(EventRecord)
      BY DEF Inv, Control, Tables, EventRecord
    <3> QED BY <3>1, EmptySeq
  <2> QED BY <2>1
<1>3. \A e : e \in F <=> e \in D \/ e = DueEdge
  <2>1. PICK S : S = serialized'
    OBVIOUS
  <2>2. PICK in : in = open'
    OBVIOUS
  <2>3. PICK n : n = Len(events')
    OBVIOUS
  <2>4. \A e : e \in Followed(nodes, S, in, n) <=> e \in D \/ e = DueEdge
    BY <1>1, <1>2, <2>1, <2>2, <2>3, EdgeIsFollowed
  <2> QED BY <2>1, <2>2, <2>3, <2>4
<1>4. /\ \A k \in 1 .. Len(open') : open'[k].node \in serialized'
      /\ \A k, l \in 1 .. Len(open') : open'[k].node = open'[l].node => k = l
  <2>1. PICK S : S = serialized'
    OBVIOUS
  <2>2. PICK in : in = open'
    OBVIOUS
  <2>3. /\ \A k \in 1 .. Len(in) : in[k].node \in S
        /\ \A k, l \in 1 .. Len(in) : in[k].node = in[l].node => k = l
    BY <1>1, <2>1, <2>2, PastWhatIsDue
  <2> QED BY <2>1, <2>2, <2>3
<1>5. /\ \A j \in Indexes : j \in serialized <=> \E e \in D : To(nodes, e) = j
      /\ \A j \in Indexes : HasAlias(events, j) <=> Twice(nodes, D, j)
  BY DEF AnchorInv, Dumped
<1> HIDE DEF D
<1>6. ASSUME NEW j \in Indexes
      PROVE  /\ j \in serialized' <=> \E e \in F : To(nodes, e) = j
             /\ HasAlias(events', j) <=> Twice(nodes, F, j)
  <2> HIDE DEF F
  <2>1. /\ (\E e \in F : To(nodes, e) = j) <=> Due = j \/ \E e \in D : To(nodes, e) = j
        /\ Twice(nodes, F, j) <=> Twice(nodes, D, j) \/ (Due = j /\ \E e \in D : To(nodes, e) = j)
    BY <1>1, <1>3, OneEdgeMore
  <2>2. j \in serialized' <=> j \in serialized \/ j = Due
    OBVIOUS
  <2>3. HasAlias(events', j) <=> HasAlias(events, j) \/ (Due \in serialized /\ j = Due)
    OBVIOUS
  <2> QED BY <1>1, <1>5, <2>1, <2>2, <2>3, Zenon
<1>7. /\ F = Followed(nodes', serialized', open', Len(events'))
      /\ \A j \in Indexes' : j \in serialized' <=> \E e \in F : To(nodes', e) = j
      /\ \A j \in Indexes' : HasAlias(events', j) <=> Twice(nodes', F, j)
  BY <1>1, <1>6
<1> QED
  BY <1>1, <1>2, <1>4, <1>7 DEF Dumped

\* An event that is not accepted gives the document up before its end.
LEMMA GivingUp ==
    ASSUME Inv, AnchorInv, pc = "dump", pc' = "delete", events' = events,
           UNCHANGED <<nodes, references, anchors, last_anchor_id>>
    PROVE  AnchorInv'
<1>1. Last(events).type # "DOCUMENT_END"
  BY DEF AnchorInv, Dumped
<1> QED
  BY <1>1, ToDelete DEF DocumentIsOut

\* A node comes out.
LEMMA DumpNodeKeepsAnchored ==
    ASSUME Inv, AnchorInv, dump_node
    PROVE  AnchorInv'
<1>1. /\ pc = "dump" /\ Due \notin serialized
      /\ RootIsDue \/ InItems
      /\ UNCHANGED <<nodes, references, anchors, last_anchor_id>>
      /\ serialized' = serialized \cup {Due}
  BY DEF dump_node, document, Serialize
<1>2. CASE /\ Emit(TypeOf(Due), Due, anchors[Due], StringsOf(Due))
           /\ open' = IF nodes[Due].kind = "SCALAR" THEN Advanced
                      ELSE Append(Advanced, [node |-> Due, next |-> 1])
           /\ pc' = pc
  <2>1. Due \in Indexes /\ Due \in Nat /\ anchors[Due] \in Nat
    BY <1>1, DueFacts, NodeFacts DEF Inv, Tables
  <2>2. /\ TypeOf(Due) \in EventTypes
        /\ TypeOf(Due) # "ALIAS" /\ TypeOf(Due) # "DOCUMENT_END"
    BY <2>1, NodeFacts DEF TypeOf, EventTypes
  <2>3. Entering(serialized', open')
    <3>1. nodes[Due].kind = "SCALAR" => nodes[Due].items = <<>>
      BY <2>1 DEF AnchorInv, Bare
    <3>2. \A i \in serialized' \ serialized : i = Due
      BY <1>1
    <3> QED BY <1>1, <1>2, <3>1, <3>2 DEF Entering
  <2>4. /\ \A j : HasAlias(events', j) <=> HasAlias(events, j)
        /\ Last(events').type # "DOCUMENT_END"
        /\ Len(events) \in Nat /\ Len(events') = Len(events) + 1
    BY <1>2, <2>1, <2>2, Listed
  <2>5. Dumped'
    BY <1>1, <2>3, <2>4, FollowedKeeps
  <2> QED BY <1>1, <1>2, <2>5, StillDumping
<1>3. CASE EmitFails(StringsOf(Due)) /\ pc' = "delete"
  BY <1>1, <1>3, GivingUp DEF EmitFails
<1> QED
  BY <1>2, <1>3 DEF dump_node

\* An alias comes out; no memory for the text of an anchor.
LEMMA DumpAliasKeepsAnchored ==
    ASSUME Inv, AnchorInv, dump_alias \/ generate_anchor_fails
    PROVE  AnchorInv'
<1>1. /\ pc = "dump"
      /\ RootIsDue \/ InItems
      /\ UNCHANGED <<nodes, references, anchors, last_anchor_id, serialized>>
  BY DEF dump_alias, generate_anchor_fails, document, tables
<1>2. CASE /\ Emit("ALIAS", Due, anchors[Due], {}) /\ open' = Advanced /\ pc' = pc
           /\ Due \in serialized
  <2>1. Due \in Indexes /\ Due \in Nat /\ anchors[Due] \in Nat
    BY <1>1, DueFacts, NodeFacts DEF Inv, Tables
  <2>2. Entering(serialized', open') /\ serialized' = serialized \cup {Due}
    BY <1>1, <1>2 DEF Entering
  <2>3. PICK none : none = {}
    OBVIOUS
  <2>4. Emit("ALIAS", Due, anchors[Due], none) /\ "ALIAS" \in EventTypes
    BY <1>2, <2>3 DEF EventTypes
  <2>5. /\ \A j : HasAlias(events', j) <=> HasAlias(events, j) \/ Due = j
        /\ Last(events').type # "DOCUMENT_END"
        /\ Len(events) \in Nat /\ Len(events') = Len(events) + 1
    BY <2>1, <2>4, Listed
  <2>6. \A j : HasAlias(events', j) <=> HasAlias(events, j) \/ (Due \in serialized /\ j = Due)
    BY <1>2, <2>5
  <2>7. Dumped'
    BY <1>1, <2>2, <2>5, <2>6, FollowedKeeps
  <2> QED BY <1>1, <1>2, <2>7, StillDumping
<1>3. CASE EmitFails({}) /\ pc' = "delete"
  BY <1>1, <1>3, GivingUp DEF EmitFails
<1>4. CASE generate_anchor_fails
  BY <1>1, <1>4, GivingUp DEF generate_anchor_fails
<1> QED
  BY <1>2, <1>3, <1>4 DEF dump_alias

\* The loop of the innermost collection is past all its edges, so it is not
\* needed to tell which have been followed.
LEMMA AllPast ==
    ASSUME Inv, AnchorInv, pc = "dump", open # <<>>, ~ InItems, NEW n, n > 1
    PROVE  /\ \A e : e \in Followed(nodes, serialized, Front(open), n)
                       <=> e \in Followed(nodes, serialized, open, Len(events))
           /\ \A k \in 1 .. Len(Front(open)) : Front(open)[k].node \in serialized
           /\ \A k, l \in 1 .. Len(Front(open)) :
                 Front(open)[k].node = Front(open)[l].node => k = l
<1> DEFINE m == Len(open)
           s == Front(open)
           Old(i, k) == \A l \in 1 .. m : open[l].node = i => k < open[l].next
           New(i, k) == \A l \in 1 .. Len(s) : s[l].node = i => k < s[l].next
<1>1. /\ m \in Nat \ {0} /\ Len(s) = m - 1 /\ \A k \in 1 .. (m - 1) : s[k] = open[k]
      /\ Last(open) \in Spot
  BY Innermost
<1>2. Last(open) = open[m]
  <2>1. open \in Seq(Spot)
    BY DEF Inv, Entered, Spot
  <2> QED BY <2>1, PopFacts
<1>3. nodes # <<>> /\ serialized \subseteq Indexes /\ Len(events) > 1
  <2>1. events # <<>> /\ events \in Seq(EventRecord) /\ nodes # <<>> /\ serialized \subseteq Indexes
    BY DEF Inv, Control, Tables, EventRecord
  <2>2. Len(events) \in Nat /\ Len(events) # 0
    BY <2>1, EmptySeq, LenProperties
  <2>3. Len(events) # 1
    BY DEF AnchorInv, Dumped
  <2>4. \A c \in Nat : c # 0 /\ c # 1 => c > 1
    OBVIOUS
  <2>5. Len(events) > 1
    BY <2>2, <2>3, <2>4, Zenon
  <2> QED BY <2>1, <2>5
<1>4. ~ (open[m].next <= Len(nodes[open[m].node].items)) /\ open[m].next \in Nat
  BY <1>1, <1>2 DEF InItems, Spot
<1>5. \A i \in serialized : \A k \in 1 .. Len(nodes[i].items) : k \in Nat /\ Len(nodes[i].items) \in Nat
  BY <1>3, NodeFacts
<1>6. /\ \A k \in 1 .. m : k \in 1 .. (m - 1) \/ k = m
      /\ \A k \in 1 .. (m - 1) : k \in 1 .. m
      /\ m \in 1 .. m
  BY <1>1
<1>7. \A e : e \in Followed(nodes, serialized, open, Len(events)) <=>
             \/ e = Root /\ Len(events) > 1
             \/ \E i \in serialized : \E k \in 1 .. Len(nodes[i].items) : e = <<i, k>> /\ Old(i, k)
  <2>1. \A e : e \in Followed(nodes, serialized, open, Len(events))
                 <=> IsFollowed(nodes, serialized, open, Len(events), e)
    BY <1>3, FollowedAre
  <2> QED BY <2>1, Zenon DEF IsFollowed
<1>8. \A e : e \in Followed(nodes, serialized, s, n) <=>
             \/ e = Root /\ n > 1
             \/ \E i \in serialized : \E k \in 1 .. Len(nodes[i].items) : e = <<i, k>> /\ New(i, k)
  <2>1. \A e : e \in Followed(nodes, serialized, s, n) <=> IsFollowed(nodes, serialized, s, n, e)
    BY <1>3, FollowedAre
  <2> HIDE DEF s, m
  <2> QED BY <2>1, Zenon DEF IsFollowed
<1>9. ASSUME NEW i \in serialized, NEW k \in 1 .. Len(nodes[i].items) PROVE New(i, k) <=> Old(i, k)
  <2> HIDE DEF m, s
  <2>1. open[m].node = i => k < open[m].next
    BY <1>4, <1>5
  <2> QED BY <1>1, <1>6, <2>1
<1>10. /\ \A k \in 1 .. m : open[k].node \in serialized
       /\ \A k, l \in 1 .. m : open[k].node = open[l].node => k = l
  BY DEF AnchorInv, Dumped
<1> HIDE DEF Old, New, m, s
<1>11. \A e : e \in Followed(nodes, serialized, s, n)
                <=> e \in Followed(nodes, serialized, open, Len(events))
  BY <1>3, <1>7, <1>8, <1>9, Zenon
<1>12. /\ \A k \in 1 .. (m - 1) : s[k].node \in serialized
       /\ \A k, l \in 1 .. (m - 1) : s[k].node = s[l].node => k = l
  BY <1>1, <1>6, <1>10
<1> QED
  BY <1>1, <1>11, <1>12 DEF s

\* The end of a collection.
LEMMA DumpEndKeepsAnchored ==
    ASSUME Inv, AnchorInv, dump_end
    PROVE  AnchorInv'
<1>1. /\ pc = "dump" /\ open # <<>> /\ ~ InItems
      /\ UNCHANGED <<nodes, references, anchors, last_anchor_id, serialized>>
  BY DEF dump_end, document
<1>2. CASE \E type \in {"SEQUENCE_END", "MAPPING_END"} :
              Emit(type, 0, 0, {}) /\ open' = Front(open) /\ pc' = pc
  <2>1. PICK type \in {"SEQUENCE_END", "MAPPING_END"} :
              Emit(type, 0, 0, {}) /\ open' = Front(open) /\ pc' = pc
    BY <1>2
  <2>2. PICK none : none = {}
    OBVIOUS
  <2>3. /\ Emit(type, 0, 0, none) /\ type \in EventTypes /\ 0 \in Nat
        /\ type # "ALIAS" /\ type # "DOCUMENT_END"
    BY <2>1, <2>2 DEF EventTypes
  <2>4. /\ \A j : HasAlias(events', j) <=> HasAlias(events, j)
        /\ Last(events').type # "DOCUMENT_END"
        /\ Len(events) \in Nat /\ Len(events') = Len(events) + 1
    BY <2>3, Listed
  <2>5. Len(events') > 1 /\ Len(events') # 1
    <3>1. Len(events) # 0
      <4>1. events # <<>> /\ events \in Seq(EventRecord)
        BY <1>1 DEF Inv, Control, Tables, EventRecord
      <4> QED BY <4>1, EmptySeq
    <3> QED BY <2>4, <3>1
  <2>6. PICK n : n = Len(events')
    OBVIOUS
  <2> DEFINE D == Followed(nodes, serialized, open, Len(events))
             F == Followed(nodes, serialized, Front(open), n)
  <2>7. /\ \A e : e \in F <=> e \in D
        /\ \A k \in 1 .. Len(Front(open)) : Front(open)[k].node \in serialized
        /\ \A k, l \in 1 .. Len(Front(open)) :
              Front(open)[k].node = Front(open)[l].node => k = l
    BY <1>1, <2>5, <2>6, AllPast
  <2>8. /\ serialized \subseteq Met
        /\ \A j \in Indexes : j \in serialized <=> \E e \in D : To(nodes, e) = j
        /\ \A j \in Indexes : HasAlias(events, j) <=> Twice(nodes, D, j)
    BY <1>1 DEF AnchorInv, Dumped
  <2>9. Indexes' = Indexes
    BY <1>1 DEF Indexes
  <2>10. Met' = Met
    BY <1>1, <2>9 DEF Met
  <2>11. F = Followed(nodes', serialized', open', Len(events'))
    BY <1>1, <2>1, <2>6
  <2> HIDE DEF D, F
  <2>12. F = D
    BY <2>7
  <2>13. /\ \A j \in Indexes' : j \in serialized' <=> \E e \in F : To(nodes', e) = j
         /\ \A j \in Indexes' : HasAlias(events', j) <=> Twice(nodes', F, j)
    BY <1>1, <2>4, <2>8, <2>9, <2>12
  <2>14. Dumped'
    BY <1>1, <2>1, <2>4, <2>5, <2>7, <2>8, <2>10, <2>11, <2>13 DEF Dumped
  <2> QED BY <1>1, <2>1, <2>14, StillDumping
<1>3. CASE EmitFails({}) /\ pc' = "delete"
  BY <1>1, <1>3, GivingUp DEF EmitFails
<1> QED
  BY <1>2, <1>3 DEF dump_end

\* The end of the document: every edge has been followed, so all nodes that
\* anchor_node has met have come out, and as often as it has met them.
LEMMA DumpDocumentEndKeepsAnchored ==
    ASSUME Inv, AnchorInv, dump_document_end
    PROVE  AnchorInv'
<1>1. /\ pc = "dump" /\ open = <<>> /\ ~ RootIsDue /\ pc' = "delete"
      /\ UNCHANGED <<nodes, references, anchors, last_anchor_id, serialized>>
  BY DEF dump_document_end, document, tables
<1>2. CASE Emit("DOCUMENT_END", 0, 0, {})
  <2> DEFINE D == Followed(nodes, serialized, open, Len(events))
  <2>1. /\ Numbered /\ Tallied(nodes, references, Edges(nodes, Met)) /\ MetAreReachable
        /\ serialized \subseteq Met /\ Met \subseteq Indexes
        /\ \A j \in Indexes : j \in serialized <=> \E e \in D : To(nodes, e) = j
        /\ \A j \in Indexes : HasAlias(events, j) <=> Twice(nodes, D, j)
    BY <1>1 DEF AnchorInv, Dumped, Met
  <2>2. nodes # <<>> /\ Len(events) > 1
    <3>1. events # <<>> /\ events \in Seq(EventRecord) /\ nodes # <<>>
      BY <1>1 DEF Inv, Control, Tables, EventRecord
    <3>2. Len(events) \in Nat /\ Len(events) # 0
      BY <3>1, EmptySeq, LenProperties
    <3>3. Len(events) # 1
      BY <1>1 DEF RootIsDue
    <3>4. \A c \in Nat : c # 0 /\ c # 1 => c > 1
      OBVIOUS
    <3>5. Len(events) > 1
      BY <3>2, <3>3, <3>4, Zenon
    <3> QED BY <3>1, <3>5
  <2>3. D = Edges(nodes, serialized)
    <3>1. 1 .. Len(open) = {}
      BY <1>1, EmptySeq
    <3> QED BY <2>2, <3>1 DEF Followed
  <2>4. Closed(nodes, serialized)
    <3>1. 1 \in serialized
      <4>1. Root \in D /\ To(nodes, Root) = 1 /\ 1 \in Indexes
        BY <2>2, <2>3, EdgesAre, EdgesLead
      <4> QED BY <2>1, <4>1
    <3>2. ASSUME NEW i \in serialized, NEW k \in 1 .. Len(nodes[i].items)
          PROVE  nodes[i].items[k] \in serialized
      <4>1. <<i, k>> \in D
        BY <2>3, EdgesAre
      <4>2. To(nodes, <<i, k>>) = nodes[i].items[k] /\ nodes[i].items[k] \in Indexes
        BY <2>1, <2>2, EdgesLead
      <4> HIDE DEF D
      <4> QED BY <2>1, <4>1, <4>2
    <3> QED BY <3>1, <3>2 DEF Closed
  <2>5. Met = serialized
    BY <2>1, <2>4 DEF MetAreReachable
  <2>6. \A i \in Indexes : anchors[i] # 0 <=> HasAlias(events, i)
    <3>1. \A i \in Indexes : anchors[i] # 0 <=> references[i] > 1
      BY <2>1 DEF Numbered
    <3>2. \A i \in Indexes : references[i] > 1 <=> Twice(nodes, D, i)
      BY <2>1, <2>3, <2>5 DEF Tallied, Indexes
    <3> HIDE DEF D
    <3> QED BY <2>1, <3>1, <3>2
  <2>7. PICK none : none = {}
    OBVIOUS
  <2>8. Emit("DOCUMENT_END", 0, 0, none) /\ "DOCUMENT_END" \in EventTypes /\ 0 \in Nat
    BY <1>2, <2>7 DEF EventTypes
  <2>9. \A j : HasAlias(events', j) <=> HasAlias(events, j)
    BY <2>8, Listed
  <2>10. AliasesAreAnchored'
    <3>1. Indexes' = Indexes
      BY <1>1 DEF Indexes
    <3> QED BY <1>1, <2>6, <2>9, <3>1 DEF AliasesAreAnchored
  <2> QED BY <1>1, <2>10, ToDelete
<1>3. CASE EmitFails({})
  BY <1>1, <1>3, GivingUp DEF EmitFails
<1> QED
  BY <1>2, <1>3 DEF dump_document_end

\* The tables are given up with the document.
LEMMA DeleteKeepsAnchored ==
    ASSUME Inv, AnchorInv, delete_document_and_anchors
    PROVE  AnchorInv'
<1>1. /\ pc' = "idle" /\ nodes' = <<>>
      /\ references' = <<>> /\ anchors' = <<>> /\ last_anchor_id' = 0
  BY DEF delete_document_and_anchors
<1>2. Indexes' = {}
  BY <1>1, EmptySeq DEF Indexes
<1> QED
  BY <1>1, <1>2 DEF AnchorInv, NoTables, Bare

\* Every step of the dumper preserves it.
LEMMA NextAnchored == Inv /\ AnchorInv /\ [Next]_vars => AnchorInv'
<1> SUFFICES ASSUME Inv, AnchorInv, [Next]_vars PROVE AnchorInv'
  OBVIOUS
<1>1. CASE Building
  BY <1>1, BuildingKeepsAnchored
<1>2. CASE \/ \E ok \in BOOLEAN : emitter_open(ok) \/ emitter_close(ok)
           \/ emitter_dump
  BY <1>2, OpenKeepsAnchored
<1>3. CASE Dumping
  BY <1>3, OpenKeepsAnchored, AnchorsKeepAnchored, DocumentStartKeepsAnchored,
     AnchorNodeKeepsAnchored, AnchoredKeepsAnchored, DumpNodeKeepsAnchored,
     DumpAliasKeepsAnchored, DumpEndKeepsAnchored, DumpDocumentEndKeepsAnchored,
     DeleteKeepsAnchored
  DEF Dumping
<1>4. CASE UNCHANGED vars
  <2>1. UNCHANGED <<nodes, pc, references, anchors, serialized, last_anchor_id, todo, open, events>>
    BY <1>4 DEF vars
  <2>2. Indexes' = Indexes /\ Met' = Met
    BY <2>1 DEF Indexes, Met
  <2>3. Bare' /\ (NoTables => NoTables') /\ (Numbered => Numbered') /\ (Counting => Counting')
    BY <2>1, <2>2 DEF AnchorInv, Bare, NoTables, Numbered, Counting
  <2>4. /\ MetAreReachable => MetAreReachable'
        /\ Dumped => Dumped'
        /\ AliasesAreAnchored => AliasesAreAnchored'
        /\ DocumentIsOut' => DocumentIsOut
    BY <2>1, <2>2 DEF MetAreReachable, Dumped, AliasesAreAnchored, DocumentIsOut
  <2> QED BY <2>1, <2>2, <2>3, <2>4 DEF AnchorInv
<1> QED
  BY <1>1, <1>2, <1>3, <1>4 DEF Next

\* As there are no more nodes that need an anchor than nodes.
LEMMA FewAnchors ==
    ASSUME Inv, Numbered
    PROVE  last_anchor_id \in 0 .. Len(nodes)
<1> DEFINE T == 1 .. last_anchor_id
           g == [a \in T |-> CHOOSE i \in Indexes : anchors[i] = a]
<1>1. last_anchor_id \in Nat /\ \A a \in T : \E i \in Indexes : anchors[i] = a
  BY DEF Numbered
<1>2. \A a \in T : g[a] \in Indexes /\ anchors[g[a]] = a
  BY <1>1
<1>3. g \in [T -> Indexes]
  BY <1>2
<1>4. \A a, b \in T : g[a] = g[b] => a = b
  BY <1>2
<1> HIDE DEF g
<1>5. g \in Injection(T, Indexes)
  BY <1>3, <1>4 DEF Injection, IsInjective
<1>6. Len(nodes) \in Nat
  BY NodeFacts
<1>7. /\ IsFiniteSet(T) /\ Cardinality(T) = last_anchor_id
      /\ IsFiniteSet(Indexes) /\ Cardinality(Indexes) = Len(nodes)
  <2>1. ASSUME NEW n \in Nat PROVE IsFiniteSet(1 .. n) /\ Cardinality(1 .. n) = n
    <3>1. 1 \in Int /\ n \in Int /\ n - 1 + 1 = n /\ (1 > n => n = 0)
      OBVIOUS
    <3>2. IsFiniteSet(1 .. n) /\ Cardinality(1 .. n) = IF 1 > n THEN 0 ELSE n - 1 + 1
      BY <3>1, FS_Interval
    <3> QED BY <3>1, <3>2
  <2> QED BY <1>1, <1>6, <2>1 DEF Indexes
<1> HIDE DEF T
<1>8. Cardinality(T) <= Cardinality(Indexes)
  BY <1>5, <1>7, FS_Injection
<1> QED
  BY <1>1, <1>6, <1>7, <1>8

\* Before anything is built there is nothing to anchor.
LEMMA InitAnchored == Init => AnchorInv
<1> SUFFICES ASSUME Init PROVE AnchorInv
  OBVIOUS
<1>1. Indexes = {}
  BY EmptySeq DEF Init, Indexes
<1> QED
  BY <1>1 DEF Init, AnchorInv, NoTables, Bare

\* The tables have their types, and the property holds.
LEMMA AnchorsFollow ==
    ASSUME Inv, AnchorInv
    PROVE  AnchorsAreNeeded
<1>1. DOMAIN references \in {{}, Indexes} /\ DOMAIN anchors = DOMAIN references
      /\ last_anchor_id \in 0 .. Len(nodes)
  <2>1. CASE NoTables
    <3>1. DOMAIN references = {} /\ DOMAIN anchors = {}
      BY <2>1 DEF NoTables
    <3>2. last_anchor_id = 0 /\ Len(nodes) \in Nat
      BY <2>1, NodeFacts DEF NoTables
    <3> QED BY <3>1, <3>2
  <2>2. CASE Numbered
    BY <2>2, FewAnchors DEF Numbered
  <2> QED BY <2>1, <2>2 DEF AnchorInv, Inv, Control
<1>2. TypeOK
  <2>1. \A i \in Indexes : nodes[i].kind \in Kinds /\ nodes[i].items \in Seq(Indexes)
    BY NodeFacts, SeqIn DEF Inv, Built
  <2>2. /\ pc \in {"idle", "open", "start", "document start", "anchor", "dump", "delete"}
        /\ serialized \subseteq Indexes
        /\ \A k \in 1 .. Len(open) : open[k].node \in Indexes
    BY DEF Inv, Control, Tables, Entered, Within
  <2>3. exists \in BOOLEAN /\ failed \in BOOLEAN /\ opened \in BOOLEAN /\ closed \in BOOLEAN
    BY DEF Inv, Flags
  <2> QED BY <1>1, <2>1, <2>2, <2>3 DEF TypeOK
<1>3. ASSUME DocumentIsOut
      PROVE  /\ \A i \in Indexes :
                   (anchors[i] # 0) <=> (\E k \in 1 .. Len(events) :
                                           events[k].type = "ALIAS" /\ events[k].node = i)
             /\ {anchors[i] : i \in Indexes} \ {0} = 1 .. last_anchor_id
  <2>1. Numbered /\ AliasesAreAnchored
    BY <1>3 DEF AnchorInv, DocumentIsOut
  <2>2. /\ anchors \in [Indexes -> Nat] /\ last_anchor_id \in Nat
        /\ \A i \in Indexes : anchors[i] <= last_anchor_id
        /\ \A a \in 1 .. last_anchor_id : \E i \in Indexes : anchors[i] = a
    BY <2>1 DEF Numbered
  <2>3. \A i \in Indexes : anchors[i] # 0 => anchors[i] \in 1 .. last_anchor_id
    BY <2>2
  <2>4. 0 \notin 1 .. last_anchor_id
    BY <2>2
  <2>5. {anchors[i] : i \in Indexes} \ {0} = 1 .. last_anchor_id
    BY <2>2, <2>3, <2>4
  <2> QED BY <2>1, <2>5 DEF AliasesAreAnchored, HasAlias
<1> QED
  BY <1>2, <1>3 DEF AnchorsAreNeeded

\* In a document of whatever shape, cyclic ones included: when it is out, a node
\* has an anchor if, and only if, an alias to it came out, and the anchors are
\* numbered from 1 without gaps (yaml_emitter_anchor_node counts the references
\* to a node before yaml_emitter_dump_node meets them).
THEOREM AnchorsAreRight == Spec => []AnchorsAreNeeded
<1>1. Inv /\ AnchorInv /\ [Next]_vars => AnchorInv'
  BY NextAnchored
<1>2. Inv /\ AnchorInv => AnchorsAreNeeded
  BY AnchorsFollow
<1> QED
  BY InitAnchored, DumperInvariant, <1>1, <1>2, PTL DEF Spec

-----------------------------------------------------------------------------
(* The graph.  What has been read of the events grows with each of them    *)
(* into the graph that the recursion is in.  First the recursion of Read.  *)

\* What has been read after each of the events.
ReadsBy(es, none, f) ==
    f = [n \in 0 .. Len(es) |-> IF n = 0 THEN none ELSE ReadEvent(f[n - 1], es[n])]

\* There is such a function.
LEMMA ReadsSome ==
    ASSUME NEW S, NEW es \in Seq(S), NEW none
    PROVE  \E f : ReadsBy(es, none, f)
<1> DEFINE T == {s \in Seq(S) : \E f : ReadsBy(s, none, f)}
<1>1. <<>> \in T
  <2> DEFINE f == [n \in 0 .. 0 |-> none]
  <2>1. \A n \in 0 .. 0 : n = 0
    OBVIOUS
  <2>2. f = [n \in 0 .. 0 |-> IF n = 0 THEN none ELSE ReadEvent(f[n - 1], <<>>[n])]
    BY <2>1
  <2> HIDE DEF f
  <2>3. Len(<<>>) = 0 /\ <<>> \in Seq(S)
    BY EmptySeq
  <2>4. ReadsBy(<<>>, none, f)
    BY <2>2, <2>3 DEF ReadsBy
  <2> QED BY <2>3, <2>4
<1>2. \A s \in Seq(S), x \in S : s \in T => Append(s, x) \in T
  <2> TAKE s \in Seq(S), x \in S
  <2> HAVE s \in T
  <2>1. PICK f : ReadsBy(s, none, f)
    OBVIOUS
  <2> DEFINE m == Len(s)
             t == Append(s, x)
             g == [n \in 0 .. (m + 1) |-> IF n <= m THEN f[n] ELSE ReadEvent(f[m], x)]
  <2>2. m \in Nat /\ t \in Seq(S) /\ Len(t) = m + 1 /\ t[m + 1] = x /\ \A n \in 1 .. m : t[n] = s[n]
    BY PushPop
  <2>3. \A n \in 0 .. m : f[n] = IF n = 0 THEN none ELSE ReadEvent(f[n - 1], s[n])
    BY <2>1 DEF ReadsBy
  <2> HIDE DEF t, m
  <2>4. \A n \in 0 .. (m + 1) : g[n] = IF n = 0 THEN none ELSE ReadEvent(g[n - 1], t[n])
    <3> TAKE n \in 0 .. (m + 1)
    <3>1. CASE n = 0
      BY <2>2, <2>3, <3>1
    <3>2. CASE n # 0 /\ n <= m
      <4>1. n \in 0 .. m /\ n \in 1 .. m /\ n - 1 \in 0 .. (m + 1) /\ n - 1 <= m
        BY <2>2, <3>2
      <4>2. g[n - 1] = f[n - 1] /\ g[n] = f[n] /\ t[n] = s[n]
        BY <2>2, <3>2, <4>1
      <4> HIDE DEF g
      <4> QED BY <2>3, <3>2, <4>1, <4>2
    <3>3. CASE n = m + 1
      <4>1. n # 0 /\ ~ (n <= m) /\ n - 1 = m /\ m \in 0 .. (m + 1) /\ m <= m
        BY <2>2, <3>3
      <4>2. g[n - 1] = f[m] /\ g[n] = ReadEvent(f[m], x)
        BY <4>1
      <4> HIDE DEF g
      <4> QED BY <2>2, <3>3, <4>1, <4>2
    <3>4. n = 0 \/ (n # 0 /\ n <= m) \/ n = m + 1
      BY <2>2
    <3> QED BY <3>1, <3>2, <3>3, <3>4
  <2>5. g = [n \in 0 .. Len(t) |-> IF n = 0 THEN none ELSE ReadEvent(g[n - 1], t[n])]
    <3>1. g = [n \in 0 .. (m + 1) |-> g[n]]
      OBVIOUS
    <3> HIDE DEF g
    <3> QED BY <2>2, <2>4, <3>1
  <2>6. ReadsBy(t, none, g)
    BY <2>5 DEF ReadsBy
  <2> QED BY <2>2, <2>6 DEF t
<1> QED
  <2> HIDE DEF T
  <2>1. Seq(S) \subseteq T
    BY <1>1, <1>2, GrowSeq
  <2> QED BY <2>1 DEF T

\* Read is the last value of one.
LEMMA ReadIs ==
    ASSUME NEW S, NEW es \in Seq(S), NEW none
    PROVE  \E f : ReadsBy(es, none, f) /\ Read(es, none) = f[Len(es)]
<1> DEFINE f == CHOOSE f : ReadsBy(es, none, f)
<1>1. ReadsBy(es, none, f)
  BY ReadsSome
<1>2. Read(es, none) = f[Len(es)]
  BY DEF Read, ReadsBy
<1> QED
  BY <1>1, <1>2

\* Nothing is read from no event.
LEMMA ReadNone ==
    ASSUME NEW none
    PROVE  Read(<<>>, none) = none
<1>1. <<>> \in Seq({}) /\ Len(<<>>) = 0
  BY EmptySeq
<1>2. PICK f : ReadsBy(<<>>, none, f) /\ Read(<<>>, none) = f[0]
  BY <1>1, ReadIs
<1>3. f[0] = none
  BY <1>1, <1>2 DEF ReadsBy
<1> QED
  BY <1>2, <1>3

\* One event more.
LEMMA ReadAppend ==
    ASSUME NEW S, NEW es \in Seq(S), NEW e \in S, NEW none
    PROVE  Read(Append(es, e), none) = ReadEvent(Read(es, none), e)
<1> DEFINE t == Append(es, e)
           m == Len(es)
<1>1. m \in Nat /\ t \in Seq(S) /\ Len(t) = m + 1 /\ t[m + 1] = e /\ \A n \in 1 .. m : t[n] = es[n]
  BY PushPop
<1> HIDE DEF t
<1>2. PICK f : ReadsBy(es, none, f) /\ Read(es, none) = f[m]
  BY ReadIs
<1>3. PICK g : ReadsBy(t, none, g) /\ Read(t, none) = g[m + 1]
  BY <1>1, ReadIs
<1>4. \A n \in 0 .. m : f[n] = IF n = 0 THEN none ELSE ReadEvent(f[n - 1], es[n])
  BY <1>2 DEF ReadsBy
<1>5. \A n \in 0 .. (m + 1) : g[n] = IF n = 0 THEN none ELSE ReadEvent(g[n - 1], t[n])
  BY <1>1, <1>3 DEF ReadsBy
<1> HIDE DEF m
<1> DEFINE T == {n \in 0 .. m : f[n] = g[n]}
<1>6. 0 \in T
  BY <1>1, <1>4, <1>5
<1>7. \A n \in 0 .. (m - 1) : n \in T => n + 1 \in T
  <2> TAKE n \in 0 .. (m - 1)
  <2> HAVE n \in T
  <2>1. /\ n + 1 \in 0 .. m /\ n + 1 \in 0 .. (m + 1) /\ n + 1 \in 1 .. m
        /\ n + 1 # 0 /\ (n + 1) - 1 = n
    BY <1>1
  <2>2. f[n + 1] = ReadEvent(f[n], es[n + 1]) /\ g[n + 1] = ReadEvent(g[n], t[n + 1])
    BY <1>4, <1>5, <2>1
  <2>3. f[n] = g[n] /\ t[n + 1] = es[n + 1]
    BY <1>1, <2>1
  <2> QED BY <2>1, <2>2, <2>3
<1>8. 0 .. m \subseteq T
  <2> HIDE DEF T
  <2> QED BY <1>1, <1>6, <1>7, Climb
<1>9. f[m] = g[m]
  <2>1. m \in 0 .. m
    BY <1>1
  <2> QED BY <1>8, <2>1
<1>10. g[m + 1] = ReadEvent(g[m], e)
  <2>1. m + 1 \in 0 .. (m + 1) /\ m + 1 # 0 /\ (m + 1) - 1 = m
    BY <1>1
  <2> QED BY <1>1, <1>5, <2>1
<1> QED
  BY <1>2, <1>3, <1>9, <1>10 DEF t

-----------------------------------------------------------------------------
(* What has been read is the graph so far.                                 *)

ReadRecord == [node : Nat, type : EventTypes, items : Seq(Nat)]
Readings(n) == [graph : Seq(ReadRecord), in : Seq(Nat), names : [0 .. n -> Nat]]

TypeFor(kind) == IF kind = "SCALAR" THEN "SCALAR"
                 ELSE IF kind = "SEQUENCE" THEN "SEQUENCE_START" ELSE "MAPPING_START"

\* A collection that the recursion is in has the items before the next one, any
\* other has all.
HowFar(g, in, v, len) ==
    /\ \A k \in 1 .. Len(in) : in[k].node = v => len = in[k].next - 1
    /\ (\A k \in 1 .. Len(in) : in[k].node # v) => len = Len(g[v].items)

\* The items of node i that was read are those of the node it comes from.
ItemsOf(g, in, G, i) ==
    /\ HowFar(g, in, G[i].node, Len(G[i].items))
    /\ \A m \in 1 .. Len(G[i].items) :
          /\ G[i].items[m] \in 1 .. Len(G)
          /\ G[G[i].items[m]].node = g[G[i].node].items[m]
ItemsRead(g, in, G) == \A i \in 1 .. Len(G) : ItemsOf(g, in, G, i)

\* Each node that is serialized was read once.
NodesRead(g, S, G) ==
    /\ \A i \in 1 .. Len(G) : G[i].node \in S /\ G[i].type = TypeFor(g[G[i].node].kind)
    /\ \A v \in S : \E i \in 1 .. Len(G) : G[i].node = v
    /\ \A i, j \in 1 .. Len(G) : G[i].node = G[j].node => i = j
    /\ Len(G) # 0 => G[1].node = 1

\* The reader is in the same collections as the recursion.
Inside(in, G, reader) ==
    /\ Len(reader) = Len(in)
    /\ \A k \in 1 .. Len(in) : reader[k] \in 1 .. Len(G) /\ G[reader[k]].node = in[k].node

\* An anchor stands for the node that has it.
Naming(table, G, names) ==
    \A i \in 1 .. Len(G) : table[G[i].node] # 0 => names[table[G[i].node]] = i

ReadsAs(g, table, S, in, r) ==
    /\ r \in Readings(Len(g))
    /\ NodesRead(g, S, r.graph) /\ ItemsRead(g, in, r.graph)
    /\ Inside(in, r.graph, r.in) /\ Naming(table, r.graph, r.names)

Reading == Read(events, Unread)

GraphInv ==
    /\ pc \in {"document start", "anchor", "dump"} \/ DocumentIsOut =>
          ReadsAs(nodes, anchors, serialized, open, Reading)
    /\ DocumentIsOut => open = <<>> /\ serialized # {}

\* A node becomes the next item of the collection the reader is in.
LEMMA AttachIs ==
    ASSUME NEW N, NEW r \in Readings(N), NEW x \in Nat,
           r.in # <<>> => Last(r.in) \in 1 .. Len(r.graph)
    PROVE  /\ Attach(r, x) \in Seq(ReadRecord) /\ Len(Attach(r, x)) = Len(r.graph)
           /\ \A i \in 1 .. Len(r.graph) :
                 /\ Attach(r, x)[i].node = r.graph[i].node
                 /\ Attach(r, x)[i].type = r.graph[i].type
                 /\ Attach(r, x)[i].items = IF r.in # <<>> /\ i = Last(r.in)
                                            THEN Append(r.graph[i].items, x)
                                            ELSE r.graph[i].items
<1>1. r.graph \in Seq(ReadRecord)
  BY DEF Readings
<1>2. CASE r.in = <<>>
  BY <1>1, <1>2 DEF Attach
<1>3. CASE r.in # <<>>
  <2> DEFINE G == r.graph
             l == Last(r.in)
             old == G[l]
             new == [old EXCEPT !.items = Append(@, x)]
  <2>1. l \in 1 .. Len(G) /\ old \in ReadRecord
    BY <1>1, <1>3, ElementOfSeq
  <2>2. Attach(r, x) = [G EXCEPT ![l] = new]
    BY <1>3 DEF Attach
  <2>3. /\ new \in ReadRecord /\ new.node = old.node /\ new.type = old.type
        /\ new.items = Append(old.items, x)
    <3> HIDE DEF old
    <3>1. old.node \in Nat /\ old.type \in EventTypes /\ old.items \in Seq(Nat)
      BY <2>1 DEF ReadRecord
    <3>2. Append(old.items, x) \in Seq(Nat)
      BY <3>1
    <3>3. PICK y : y = Append(old.items, x)
      OBVIOUS
    <3>4. ASSUME NEW o \in ReadRecord, NEW z \in Seq(Nat)
          PROVE  /\ [o EXCEPT !.items = z] \in ReadRecord
                 /\ [o EXCEPT !.items = z].node = o.node
                 /\ [o EXCEPT !.items = z].type = o.type
                 /\ [o EXCEPT !.items = z].items = z
      BY DEF ReadRecord
    <3>5. new = [old EXCEPT !.items = y]
      BY <3>3
    <3> HIDE DEF new
    <3>6. old \in ReadRecord /\ y \in Seq(Nat)
      BY <2>1, <3>2, <3>3
    <3> QED BY Zenon, <3>3, <3>4, <3>5, <3>6
  <2> HIDE DEF new, l
  <2>4. /\ [G EXCEPT ![l] = new] \in Seq(ReadRecord)
        /\ Len([G EXCEPT ![l] = new]) = Len(G)
        /\ [G EXCEPT ![l] = new][l] = new
        /\ \A i \in 1 .. Len(G) : i # l => [G EXCEPT ![l] = new][i] = G[i]
    BY <1>1, <2>1, <2>3
  <2>5. \A i \in 1 .. Len(G) :
           /\ Attach(r, x)[i].node = G[i].node
           /\ Attach(r, x)[i].type = G[i].type
           /\ Attach(r, x)[i].items = IF i = l THEN Append(G[i].items, x) ELSE G[i].items
    BY <2>2, <2>3, <2>4
  <2> QED BY <1>3, <2>2, <2>4, <2>5 DEF l
<1> QED
  BY <1>2, <1>3

\* The innermost collection has one item more when the loop goes on.
LEMMA AdvancedFar ==
    ASSUME Inv, AnchorInv, pc = "dump", RootIsDue \/ InItems,
           NEW v \in serialized, NEW len \in Nat, HowFar(nodes, open, v, len)
    PROVE  IF open # <<>> /\ v = Last(open).node
           THEN len = Last(open).next - 1 /\ HowFar(nodes, Advanced, v, len + 1)
           ELSE HowFar(nodes, Advanced, v, len)
<1>1. /\ Len(open) \in Nat /\ Len(Advanced) = Len(open)
      /\ \A k \in 1 .. Len(open) :
            /\ open[k].next \in Nat
            /\ Advanced[k].node = open[k].node
            /\ Advanced[k].next = IF k = Len(open) THEN open[k].next + 1 ELSE open[k].next
      /\ open # <<>> => Len(open) \in 1 .. Len(open) /\ Last(open) = open[Len(open)]
  BY AdvancedIs
<1>2. \A k, l \in 1 .. Len(open) : open[k].node = open[l].node => k = l
  BY DEF AnchorInv, Dumped
<1>3. /\ \A k \in 1 .. Len(open) : open[k].node = v => len = open[k].next - 1
      /\ (\A k \in 1 .. Len(open) : open[k].node # v) => len = Len(nodes[v].items)
  BY DEF HowFar
<1> DEFINE m == Len(open)
<1>4. CASE open # <<>> /\ v = Last(open).node
  <2>1. m \in 1 .. m /\ open[m].node = v /\ Last(open).next = open[m].next
    BY <1>1, <1>4
  <2>2. len = Last(open).next - 1
    BY <1>3, <2>1
  <2>3. \A k \in 1 .. m : Advanced[k].node = v => k = m
    BY <1>1, <1>2, <2>1
  <2>4. Advanced[m].node = v /\ Advanced[m].next = open[m].next + 1 /\ open[m].next \in Nat
    BY <1>1, <2>1
  <2>5. len + 1 = Advanced[m].next - 1
    BY <2>1, <2>2, <2>4
  <2> HIDE DEF m
  <2>6. HowFar(nodes, Advanced, v, len + 1)
    <3>1. Len(Advanced) = m
      BY <1>1 DEF m
    <3> QED BY <2>1, <2>3, <2>4, <2>5, <3>1 DEF HowFar
  <2> QED BY <1>4, <2>2, <2>6
<1>5. CASE ~ (open # <<>> /\ v = Last(open).node)
  <2>1. \A k \in 1 .. m : open[k].node = v => k # m
    <3>1. CASE open = <<>>
      <4>1. 1 .. m = {}
        BY <3>1, EmptySeq
      <4> QED BY <4>1
    <3>2. CASE open # <<>>
      BY <1>1, <1>5, <3>2
    <3> QED BY <3>1, <3>2
  <2>2. \A k \in 1 .. m : Advanced[k].node = v => Advanced[k].next = open[k].next /\ open[k].node = v
    BY <1>1, <2>1
  <2>3. \A k \in 1 .. m : Advanced[k].node = v => len = Advanced[k].next - 1
    BY <1>3, <2>2
  <2>4. (\A k \in 1 .. m : Advanced[k].node # v) => len = Len(nodes[v].items)
    BY <1>1, <1>3
  <2>5. HowFar(nodes, Advanced, v, len)
    BY <1>1, <2>3, <2>4 DEF HowFar
  <2> QED BY <1>5, <2>5
<1> QED
  BY <1>4, <1>5

\* A node that is due again has an anchor.
LEMMA AliasHasAnchor ==
    ASSUME Inv, AnchorInv, pc = "dump", RootIsDue \/ InItems, Due \in serialized
    PROVE  anchors[Due] # 0
<1> DEFINE D == Followed(nodes, serialized, open, Len(events))
<1>1. /\ DueEdge \in Edges(nodes, serialized) /\ To(nodes, DueEdge) = Due /\ DueEdge \notin D
      /\ Due \in Indexes /\ serialized \subseteq Met /\ Numbered
      /\ Tallied(nodes, references, Edges(nodes, Met))
      /\ \A j \in Indexes : j \in serialized => \E e \in D : To(nodes, e) = j
  BY DueEdgeIs, DueFacts DEF AnchorInv, Dumped
<1>2. PICK d \in D : To(nodes, d) = Due
  BY <1>1
<1>3. d # DueEdge /\ d \in Edges(nodes, serialized)
  BY <1>1, <1>2 DEF Followed
<1>4. \A e \in Edges(nodes, serialized) : e \in Edges(nodes, Met)
  <2> TAKE e \in Edges(nodes, serialized)
  <2>1. e = Root \/ \E i \in serialized : \E k \in 1 .. Len(nodes[i].items) : e = <<i, k>>
    BY EdgesAre
  <2>2. e = Root \/ \E i \in Met : \E k \in 1 .. Len(nodes[i].items) : e = <<i, k>>
    BY <1>1, <2>1, Zenon
  <2> QED BY <2>2, EdgesAre
<1> HIDE DEF D
<1>5. Twice(nodes, Edges(nodes, Met), Due)
  <2>1. d \in Edges(nodes, Met) /\ DueEdge \in Edges(nodes, Met)
    BY <1>1, <1>3, <1>4
  <2> QED BY <1>1, <1>2, <1>3, <2>1, Zenon DEF Twice
<1>6. references[Due] > 1
  BY <1>1, <1>5 DEF Tallied, Indexes
<1> QED
  BY <1>1, <1>6 DEF Numbered

-----------------------------------------------------------------------------
(* A node, or an alias to one, is read.                                    *)

\* The reader is in no collection if the recursion is in none, and else both
\* are in the same one.
LEMMA SameCollection ==
    ASSUME Inv, pc = "dump", NEW r, ReadsAs(nodes, anchors, serialized, open, r)
    PROVE  /\ r.in = <<>> <=> open = <<>>
           /\ r.in # <<>> => /\ Last(r.in) \in 1 .. Len(r.graph)
                             /\ r.graph[Last(r.in)].node = Last(open).node
           /\ r.graph \in Seq(ReadRecord) /\ r.in \in Seq(Nat) /\ Len(r.graph) \in Nat
<1>1. r.in \in Seq(Nat) /\ r.graph \in Seq(ReadRecord) /\ open \in Seq(Spot)
  BY DEF ReadsAs, Readings, Inv, Entered, Spot
<1>2. /\ Len(r.in) = Len(open)
      /\ \A k \in 1 .. Len(open) : r.in[k] \in 1 .. Len(r.graph) /\ r.graph[r.in[k]].node = open[k].node
  BY DEF ReadsAs, Inside
<1>3. /\ r.in = <<>> <=> Len(r.in) = 0
      /\ open = <<>> <=> Len(open) = 0
  BY <1>1, EmptySeq
<1>4. ASSUME r.in # <<>>
      PROVE  /\ Last(r.in) \in 1 .. Len(r.graph)
             /\ r.graph[Last(r.in)].node = Last(open).node
  <2>1. open # <<>>
    BY <1>2, <1>3, <1>4
  <2>2. Last(open) = open[Len(open)] /\ Len(open) \in Nat \ {0} /\ Last(r.in) = r.in[Len(r.in)]
    BY <1>1, <1>4, <2>1, PopFacts
  <2>3. Len(open) \in 1 .. Len(open)
    BY <2>2
  <2> QED BY <1>2, <2>2, <2>3
<1> QED
  BY <1>1, <1>2, <1>3, <1>4, LenProperties

\* The node that is due was read as number x, and is an item more.
Grown(r, x, G) ==
    /\ Len(G) \in Nat /\ Len(r.graph) <= Len(G) /\ x \in 1 .. Len(G) /\ G[x].node = Due
    /\ \A i \in 1 .. Len(r.graph) :
          /\ G[i].node = r.graph[i].node
          /\ G[i].items = IF r.in # <<>> /\ i = Last(r.in)
                          THEN Append(r.graph[i].items, x) ELSE r.graph[i].items

\* The recursion is as far with the nodes already serialized.
AsFar(in) ==
    \A v \in serialized : \A len \in Nat :
        HowFar(nodes, Advanced, v, len) => HowFar(nodes, in, v, len)

\* So the items of the nodes read before are still those of the graph.
LEMMA ItemsStay ==
    ASSUME Inv, AnchorInv, pc = "dump", RootIsDue \/ InItems,
           NEW r, ReadsAs(nodes, anchors, serialized, open, r),
           NEW x, NEW G, Grown(r, x, G), NEW in, AsFar(in),
           NEW i \in 1 .. Len(r.graph)
    PROVE  ItemsOf(nodes, in, G, i)
<1> DEFINE R == r.graph
           v == R[i].node
           its == R[i].items
           l == Len(its)
<1>1. /\ R \in Seq(ReadRecord) /\ Len(R) \in Nat
      /\ r.in = <<>> <=> open = <<>>
      /\ r.in # <<>> => Last(r.in) \in 1 .. Len(R) /\ R[Last(r.in)].node = Last(open).node
  BY SameCollection
<1>2. its \in Seq(Nat) /\ l \in Nat
  <2>1. R[i] \in ReadRecord
    BY <1>1, ElementOfSeq
  <2> QED BY <2>1, LenProperties DEF ReadRecord
<1>3. /\ v \in serialized
      /\ \A j, k \in 1 .. Len(R) : R[j].node = R[k].node => j = k
      /\ HowFar(nodes, open, v, l)
      /\ \A m \in 1 .. l : its[m] \in 1 .. Len(R) /\ R[its[m]].node = nodes[v].items[m]
  BY DEF ReadsAs, NodesRead, ItemsRead, ItemsOf
<1>4. /\ Len(G) \in Nat /\ Len(R) <= Len(G) /\ x \in 1 .. Len(G) /\ G[x].node = Due
      /\ \A j \in 1 .. Len(R) : G[j].node = R[j].node
      /\ G[i].items = IF r.in # <<>> /\ i = Last(r.in) THEN Append(its, x) ELSE its
  BY DEF Grown
<1>5. \A j \in 1 .. Len(R) : j \in 1 .. Len(G)
  BY <1>1, <1>4
<1>6. \A m \in 1 .. l : its[m] \in 1 .. Len(G) /\ G[its[m]].node = nodes[v].items[m]
  BY <1>3, <1>4, <1>5
<1>7. G[i].node = v
  BY <1>4
<1>8. IF open # <<>> /\ v = Last(open).node
      THEN l = Last(open).next - 1 /\ HowFar(nodes, Advanced, v, l + 1)
      ELSE HowFar(nodes, Advanced, v, l)
  <2> HIDE DEF l, v
  <2> QED BY <1>2, <1>3, AdvancedFar
<1> HIDE DEF its, l, v, R
<1>9. CASE r.in # <<>> /\ i = Last(r.in)
  <2>1. open # <<>> /\ v = Last(open).node
    BY <1>1, <1>9 DEF v
  <2>2. l = Last(open).next - 1 /\ HowFar(nodes, in, v, l + 1)
    BY <1>2, <1>3, <1>8, <2>1 DEF AsFar
  <2>3. Last(open).next = l + 1
    <3>1. Last(open).next \in Nat
      BY <2>1, Innermost DEF Spot
    <3> QED BY <1>2, <2>2, <3>1
  <2>4. Due = nodes[v].items[l + 1]
    BY <2>1, <2>3 DEF Due
  <2>5. G[i].items = Append(its, x) /\ x \in Nat
    BY <1>4, <1>9
  <2>6. /\ Len(G[i].items) = l + 1 /\ \A m \in 1 .. l : G[i].items[m] = its[m]
        /\ G[i].items[l + 1] = x
    BY <1>2, <2>5, PushPop DEF l
  <2>7. \A m \in 1 .. (l + 1) : m \in 1 .. l \/ m = l + 1
    BY <1>2
  <2>8. \A m \in 1 .. (l + 1) :
           /\ G[i].items[m] \in 1 .. Len(G)
           /\ G[G[i].items[m]].node = nodes[v].items[m]
    BY <1>4, <1>6, <2>4, <2>6, <2>7
  <2> QED BY <1>7, <2>2, <2>6, <2>8 DEF ItemsOf
<1>10. CASE ~ (r.in # <<>> /\ i = Last(r.in))
  <2>1. ~ (open # <<>> /\ v = Last(open).node)
    <3>1. i \in 1 .. Len(R)
      BY DEF R
    <3> QED BY <1>1, <1>3, <1>10, <3>1 DEF v
  <2>2. HowFar(nodes, in, v, l)
    BY <1>2, <1>3, <1>8, <2>1 DEF AsFar
  <2>3. G[i].items = its
    BY <1>4, <1>10
  <2> QED BY <1>6, <1>7, <2>2, <2>3 DEF ItemsOf, l
<1> QED
  BY <1>9, <1>10

\* The same nodes with other items.
LEMMA SameNodes ==
    ASSUME NEW R, NEW G, Len(G) = Len(R),
           \A i \in 1 .. Len(R) : G[i].node = R[i].node /\ G[i].type = R[i].type
    PROVE  /\ \A g, S : NodesRead(g, S, R) => NodesRead(g, S, G)
           /\ \A in, reader : Inside(in, R, reader) => Inside(in, G, reader)
           /\ \A table, names : Naming(table, R, names) => Naming(table, G, names)
<1>1. ASSUME NEW g, NEW S, NodesRead(g, S, R)
      PROVE  NodesRead(g, S, G)
  <2>1. 1 \in 1 .. Len(R) \/ ~ 1 \in 1 .. Len(R)
    OBVIOUS
  <2>2. Len(G) # 0 => G[1].node = 1
    BY <1>1 DEF NodesRead
  <2> QED BY <1>1, <2>2 DEF NodesRead
<1>2. ASSUME NEW in, NEW reader, Inside(in, R, reader)
      PROVE  Inside(in, G, reader)
  BY <1>2 DEF Inside
<1>3. ASSUME NEW table, NEW names, Naming(table, R, names)
      PROVE  Naming(table, G, names)
  BY <1>3 DEF Naming
<1> QED
  BY <1>1, <1>2, <1>3

\* The event of an alias makes the node of its anchor an item.
LEMMA AliasReads ==
    ASSUME Inv, AnchorInv, pc = "dump", RootIsDue \/ InItems, Due \in serialized,
           NEW r, ReadsAs(nodes, anchors, serialized, open, r),
           NEW e, e.type = "ALIAS", e.anchor = anchors[Due]
    PROVE  ReadsAs(nodes, anchors, serialized, Advanced, ReadEvent(r, e))
<1> DEFINE R == r.graph
           x == r.names[e.anchor]
           G == Attach(r, x)
           s == ReadEvent(r, e)
<1>1. /\ r \in Readings(Len(nodes)) /\ NodesRead(nodes, serialized, R)
      /\ ItemsRead(nodes, open, R) /\ Inside(open, R, r.in) /\ Naming(anchors, R, r.names)
  BY DEF ReadsAs
<1>2. /\ R \in Seq(ReadRecord) /\ Len(R) \in Nat
      /\ r.in # <<>> => Last(r.in) \in 1 .. Len(R)
  BY SameCollection
<1>3. PICK i \in 1 .. Len(R) : R[i].node = Due
  BY <1>1 DEF NodesRead
<1>4. x = i
  BY <1>1, <1>3, AliasHasAnchor DEF Naming
<1>5. s.graph = G /\ s.in = r.in /\ s.names = r.names /\ s \in Readings(Len(nodes))
  <2>1. G \in Seq(ReadRecord)
    BY <1>1, <1>2, <1>4, AttachIs
  <2>2. s = [r EXCEPT !.graph = G]
    BY DEF ReadEvent
  <2> HIDE DEF s, G
  <2> QED BY <1>1, <2>1, <2>2 DEF Readings
<1>6. /\ Len(G) = Len(R)
      /\ \A j \in 1 .. Len(R) :
            /\ G[j].node = R[j].node /\ G[j].type = R[j].type
            /\ G[j].items = IF r.in # <<>> /\ j = Last(r.in) THEN Append(R[j].items, x) ELSE R[j].items
  BY <1>1, <1>2, <1>4, AttachIs
<1> HIDE DEF s, G, x
<1>7. /\ NodesRead(nodes, serialized, G) /\ Naming(anchors, G, r.names)
      /\ Inside(open, G, r.in)
  BY <1>1, <1>6, SameNodes
<1>8. Grown(r, x, G) /\ AsFar(Advanced)
  BY <1>2, <1>3, <1>4, <1>6 DEF Grown, AsFar
<1>9. ItemsRead(nodes, Advanced, G)
  BY <1>6, <1>8, ItemsStay DEF ItemsRead
<1>10. Inside(Advanced, G, r.in)
  <2>1. Len(Advanced) = Len(open) /\ \A k \in 1 .. Len(open) : Advanced[k].node = open[k].node
    BY AdvancedIs
  <2> QED BY <1>7, <2>1 DEF Inside
<1> QED
  BY <1>5, <1>7, <1>9, <1>10 DEF ReadsAs, s

\* The collections the recursion is in after a node: its own one too.
AfterNode(in) == in = IF nodes[Due].kind = "SCALAR" THEN Advanced
                    ELSE Append(Advanced, [node |-> Due, next |-> 1])

\* Its own one has no item yet, the others are as they were.
LEMMA WithinIs ==
    ASSUME Inv, AnchorInv, pc = "dump", RootIsDue \/ InItems, Due \notin serialized,
           NEW in, AfterNode(in)
    PROVE  /\ AsFar(in) /\ HowFar(nodes, in, Due, 0)
           /\ \A k \in 1 .. Len(open) : in[k].node = open[k].node
           /\ IF nodes[Due].kind = "SCALAR" THEN Len(in) = Len(open)
              ELSE Len(in) = Len(open) + 1 /\ in[Len(open) + 1].node = Due
<1> DEFINE m == Len(open)
           c == [node |-> Due, next |-> 1]
<1>1. /\ m \in Nat /\ Len(Advanced) = m /\ Advanced \in Seq(Spot)
      /\ \A k \in 1 .. m : Advanced[k].node = open[k].node
  BY AdvancedIs
<1>2. \A k \in 1 .. m : open[k].node \in serialized /\ open[k].node # Due
  BY DEF AnchorInv, Dumped
<1>3. Due \in Indexes /\ Due \in Nat /\ c \in Spot /\ c.node = Due /\ c.next = 1
  BY DueFacts, NodeFacts DEF Spot
<1> HIDE DEF m, c
<1>4. CASE nodes[Due].kind = "SCALAR"
  <2>1. in = Advanced
    BY <1>4 DEF AfterNode
  <2>2. nodes[Due].items = <<>> /\ Len(<<>>) = 0
    BY <1>3, <1>4, EmptySeq DEF AnchorInv, Bare
  <2>3. HowFar(nodes, in, Due, 0)
    BY <1>1, <1>2, <2>1, <2>2 DEF HowFar
  <2> QED BY <1>1, <1>4, <2>1, <2>3 DEF AsFar, m
<1>5. CASE nodes[Due].kind # "SCALAR"
  <2>1. in = Append(Advanced, c)
    BY <1>5 DEF AfterNode, c
  <2>2. /\ Len(in) = m + 1 /\ in[m + 1] = c /\ \A k \in 1 .. m : in[k] = Advanced[k]
        /\ \A k \in 1 .. (m + 1) : k \in 1 .. m \/ k = m + 1
        /\ m + 1 \in 1 .. (m + 1)
        /\ \A k \in 1 .. m : k \in 1 .. (m + 1)
    BY <1>1, <1>3, <2>1, PushPop
  <2>3. HowFar(nodes, in, Due, 0)
    <3>1. 0 = c.next - 1
      BY <1>3
    <3> QED BY <1>1, <1>2, <1>3, <2>2, <3>1 DEF HowFar
  <2>4. AsFar(in)
    <3> SUFFICES ASSUME NEW v \in serialized, NEW len \in Nat, HowFar(nodes, Advanced, v, len)
                 PROVE  HowFar(nodes, in, v, len)
      BY DEF AsFar
    <3>1. v # Due
      OBVIOUS
    <3>2. /\ \A k \in 1 .. m : Advanced[k].node = v => len = Advanced[k].next - 1
          /\ (\A k \in 1 .. m : Advanced[k].node # v) => len = Len(nodes[v].items)
      BY <1>1 DEF HowFar
    <3>3. \A k \in 1 .. (m + 1) : in[k].node = v => k \in 1 .. m /\ in[k] = Advanced[k]
      BY <1>3, <2>2, <3>1
    <3>4. \A k \in 1 .. (m + 1) : in[k].node = v => len = in[k].next - 1
      BY <3>2, <3>3
    <3>5. (\A k \in 1 .. (m + 1) : in[k].node # v) => len = Len(nodes[v].items)
      BY <2>2, <3>2
    <3> QED BY <2>2, <3>4, <3>5 DEF HowFar
  <2> QED BY <1>1, <1>3, <1>5, <2>2, <2>3, <2>4 DEF m
<1> QED
  BY <1>4, <1>5

\* The event of a node adds it and makes it an item.
LEMMA NodeReads ==
    ASSUME Inv, AnchorInv, pc = "dump", RootIsDue \/ InItems, Due \notin serialized,
           NEW r, ReadsAs(nodes, anchors, serialized, open, r),
           NEW e, e.type = TypeFor(nodes[Due].kind), e.node = Due, e.anchor = anchors[Due],
           NEW in, AfterNode(in)
    PROVE  ReadsAs(nodes, anchors, serialized \cup {Due}, in, ReadEvent(r, e))
<1> DEFINE R == r.graph
           n == Len(R)
           x == n + 1
           A == Attach(r, x)
           new == [node |-> e.node, type |-> e.type, items |-> <<>>]
           G == Append(A, new)
           reader == IF e.type = "SCALAR" THEN r.in ELSE Append(r.in, x)
           names == [r.names EXCEPT ![e.anchor] = x]
           s == ReadEvent(r, e)
           S == serialized \cup {Due}
<1>1. /\ r \in Readings(Len(nodes)) /\ NodesRead(nodes, serialized, R)
      /\ ItemsRead(nodes, open, R) /\ Inside(open, R, r.in) /\ Naming(anchors, R, r.names)
  BY DEF ReadsAs
<1>2. /\ R \in Seq(ReadRecord) /\ n \in Nat /\ r.in \in Seq(Nat)
      /\ r.in # <<>> => Last(r.in) \in 1 .. n
  BY SameCollection
<1>3. /\ Due \in Indexes /\ Due \in Nat /\ anchors[Due] \in 0 .. Len(nodes)
      /\ Numbered /\ serialized \subseteq Indexes
  <2>1. Due \in Indexes /\ Due \in Nat /\ Numbered /\ serialized \subseteq Indexes
    BY DueFacts, NodeFacts DEF AnchorInv, Inv, Tables
  <2>2. last_anchor_id \in 0 .. Len(nodes) /\ anchors[Due] <= last_anchor_id /\ anchors[Due] \in Nat
    BY <2>1, FewAnchors DEF Numbered
  <2>3. Len(nodes) \in Nat
    BY NodeFacts
  <2> QED BY <2>1, <2>2, <2>3
<1>4. /\ e.type \in {"SCALAR", "SEQUENCE_START", "MAPPING_START"} /\ e.type \in EventTypes
      /\ e.type = "SCALAR" <=> nodes[Due].kind = "SCALAR"
  BY DEF TypeFor, EventTypes
<1>5. s = [graph |-> G, in |-> reader, names |-> names]
  BY <1>4 DEF ReadEvent, ReadNode
<1>6. /\ A \in Seq(ReadRecord) /\ Len(A) = n
      /\ \A i \in 1 .. n :
            /\ A[i].node = R[i].node /\ A[i].type = R[i].type
            /\ A[i].items = IF r.in # <<>> /\ i = Last(r.in) THEN Append(R[i].items, x) ELSE R[i].items
  <2>1. x \in Nat
    BY <1>2
  <2> HIDE DEF x
  <2> QED BY <1>1, <1>2, <2>1, AttachIs
<1>7. new \in ReadRecord /\ new.node = Due /\ new.type = e.type /\ new.items = <<>>
  BY <1>3, <1>4, EmptySeq DEF ReadRecord
<1> HIDE DEF A, new
<1>8. /\ G \in Seq(ReadRecord) /\ Len(G) = x /\ G[x] = new
      /\ \A i \in 1 .. n : G[i] = A[i]
  BY <1>6, <1>7, PushPop
<1> HIDE DEF G
<1>9. /\ \A i \in 1 .. n : i \in 1 .. x /\ i # x
      /\ \A i \in 1 .. x : i \in 1 .. n \/ i = x
      /\ x \in 1 .. x /\ x \in Nat /\ n <= x /\ x # 0
  BY <1>2
<1>10. reader \in Seq(Nat) /\ names \in [0 .. Len(nodes) -> Nat]
  <2>1. r.names \in [0 .. Len(nodes) -> Nat]
    BY <1>1 DEF Readings
  <2>2. e.anchor \in 0 .. Len(nodes) /\ x \in Nat
    BY <1>3, <1>9
  <2> HIDE DEF x
  <2>3. names \in [0 .. Len(nodes) -> Nat]
    BY <2>1, <2>2
  <2>4. \A t \in Seq(Nat) : Append(t, x) \in Seq(Nat)
    BY <2>2
  <2>5. reader = r.in \/ reader = Append(r.in, x)
    OBVIOUS
  <2> HIDE DEF reader
  <2>6. reader \in Seq(Nat)
    BY <1>2, <2>4, <2>5, Zenon
  <2> QED BY <2>3, <2>6
<1>11. s \in Readings(Len(nodes)) /\ s.graph = G /\ s.in = reader /\ s.names = names
  <2> HIDE DEF reader, names, s
  <2> QED BY <1>5, <1>8, <1>10 DEF Readings
<1> HIDE DEF s
<1>12. /\ AsFar(in) /\ HowFar(nodes, in, Due, 0)
       /\ \A k \in 1 .. Len(open) : in[k].node = open[k].node
       /\ IF nodes[Due].kind = "SCALAR" THEN Len(in) = Len(open)
          ELSE Len(in) = Len(open) + 1 /\ in[Len(open) + 1].node = Due
  BY WithinIs
<1>13. /\ \A i \in 1 .. n : G[i].node = R[i].node /\ G[i].node \in serialized /\ G[i].node # Due
       /\ \A i \in 1 .. n : G[i].type = R[i].type
       /\ G[x].node = Due
  <2>1. \A i \in 1 .. n : R[i].node \in serialized
    BY <1>1 DEF NodesRead
  <2> HIDE DEF x, n
  <2> QED BY <1>6, <1>7, <1>8, <2>1
<1>14. ItemsRead(nodes, in, G)
  <2>1. Grown(r, x, G)
    <3> HIDE DEF x
    <3> QED BY <1>6, <1>8, <1>9, <1>13 DEF Grown
  <2>2. \A i \in 1 .. n : ItemsOf(nodes, in, G, i)
    <3> HIDE DEF x
    <3> QED BY <1>12, <2>1, ItemsStay
  <2>3. ItemsOf(nodes, in, G, x)
    <3>1. Len(G[x].items) = 0 /\ 1 .. 0 = {}
      BY <1>7, <1>8, EmptySeq
    <3> HIDE DEF x
    <3> QED BY <1>12, <1>13, <3>1 DEF ItemsOf
  <2> HIDE DEF x
  <2> QED BY <1>8, <1>9, <2>2, <2>3 DEF ItemsRead
<1>15. NodesRead(nodes, S, G)
  <2>1. /\ \A i \in 1 .. n : R[i].type = TypeFor(nodes[R[i].node].kind)
        /\ \A v \in serialized : \E i \in 1 .. n : R[i].node = v
        /\ \A i, j \in 1 .. n : R[i].node = R[j].node => i = j
        /\ n # 0 => R[1].node = 1
    BY <1>1 DEF NodesRead
  <2>2. G[1].node = 1
    <3>1. CASE n = 0
      <4>1. 1 .. n = {}
        BY <3>1
      <4>2. serialized = {}
        BY <2>1, <4>1
      <4>3. open = <<>>
        <5>1. \A k \in 1 .. Len(open) : open[k].node \in serialized
          BY DEF AnchorInv, Dumped
        <5>2. open # <<>> => Len(open) \in 1 .. Len(open)
          BY AdvancedIs
        <5> QED BY <4>2, <5>1, <5>2
      <4>4. Due = 1 /\ x = 1
        BY <3>1, <4>3 DEF Due
      <4> QED BY <1>13, <4>4
    <3>2. CASE n # 0
      <4>1. 1 \in 1 .. n
        BY <1>2, <3>2
      <4> QED BY <1>13, <2>1, <3>2, <4>1
    <3> QED BY <3>1, <3>2
  <2> HIDE DEF x, n
  <2>3. \A i \in 1 .. x : G[i].node \in S /\ G[i].type = TypeFor(nodes[G[i].node].kind)
    BY <1>7, <1>8, <1>9, <1>13, <2>1
  <2>4. \A v \in S : \E i \in 1 .. x : G[i].node = v
    BY <1>9, <1>13, <2>1
  <2>5. \A i, j \in 1 .. x : G[i].node = G[j].node => i = j
    BY <1>9, <1>13, <2>1
  <2> QED BY <1>8, <2>2, <2>3, <2>4, <2>5 DEF NodesRead
<1>16. Inside(in, G, reader)
  <2> DEFINE m == Len(open)
  <2>1. /\ Len(r.in) = m
        /\ \A k \in 1 .. m : r.in[k] \in 1 .. n /\ R[r.in[k]].node = open[k].node
    BY <1>1 DEF Inside
  <2>2. m \in Nat
    BY AdvancedIs
  <2> HIDE DEF m
  <2>3. \A k \in 1 .. m : r.in[k] \in 1 .. x /\ G[r.in[k]].node = in[k].node
    <3> HIDE DEF x, n
    <3> QED BY <1>9, <1>12, <1>13, <2>1 DEF m
  <2>4. CASE e.type = "SCALAR"
    <3>1. reader = r.in /\ Len(in) = m
      BY <1>4, <1>12, <2>4 DEF m
    <3> HIDE DEF reader, x
    <3> QED BY <1>8, <2>1, <2>3, <3>1 DEF Inside
  <2>5. CASE e.type # "SCALAR"
    <3>1. reader = Append(r.in, x) /\ Len(in) = m + 1 /\ in[m + 1].node = Due
      BY <1>4, <1>12, <2>5 DEF m
    <3> HIDE DEF reader, x
    <3>2. Len(reader) = m + 1 /\ reader[m + 1] = x /\ \A k \in 1 .. m : reader[k] = r.in[k]
      <4>1. ASSUME NEW t \in Seq(Nat)
            PROVE  /\ Len(Append(t, x)) = Len(t) + 1 /\ Append(t, x)[Len(t) + 1] = x
                   /\ \A k \in 1 .. Len(t) : Append(t, x)[k] = t[k]
        BY <1>9, PushPop
      <4> QED BY <1>2, <2>1, <3>1, <4>1
    <3>3. \A k \in 1 .. (m + 1) : k \in 1 .. m \/ k = m + 1
      BY <2>2
    <3>4. \A k \in 1 .. (m + 1) : reader[k] \in 1 .. x /\ G[reader[k]].node = in[k].node
      BY <1>9, <1>13, <2>3, <3>1, <3>2, <3>3
    <3> QED BY <1>8, <3>1, <3>2, <3>4 DEF Inside
  <2> QED BY <2>4, <2>5
<1>17. Naming(anchors, G, names)
  <2>1. r.names \in [0 .. Len(nodes) -> Nat]
    BY <1>1 DEF Readings
  <2>2. \A i \in 1 .. n : anchors[R[i].node] # 0 => r.names[anchors[R[i].node]] = i
    BY <1>1 DEF Naming
  <2>3. \A v \in serialized : anchors[v] # 0 => anchors[v] # anchors[Due]
    BY <1>3 DEF Numbered
  <2>4. names[anchors[Due]] = x /\ \A a : a # anchors[Due] => names[a] = r.names[a]
    <3> HIDE DEF x
    <3>1. /\ names = [r.names EXCEPT ![anchors[Due]] = x]
          /\ anchors[Due] \in DOMAIN r.names
      BY <1>3, <2>1
    <3> HIDE DEF names
    <3> QED BY <2>1, <3>1
  <2> HIDE DEF names, x, n
  <2> QED BY <1>8, <1>9, <1>13, <2>2, <2>3, <2>4 DEF Naming
<1> QED
  BY <1>11, <1>14, <1>15, <1>16, <1>17 DEF ReadsAs, s

\* The event of an end leaves the innermost collection, which has all its items.
LEMMA EndReads ==
    ASSUME Inv, AnchorInv, pc = "dump", open # <<>>, ~ InItems,
           NEW r, ReadsAs(nodes, anchors, serialized, open, r),
           NEW e, e.type \in {"SEQUENCE_END", "MAPPING_END"}
    PROVE  ReadsAs(nodes, anchors, serialized, Front(open), ReadEvent(r, e))
<1> DEFINE R == r.graph
           m == Len(open)
           front == Front(r.in)
           s == ReadEvent(r, e)
<1>1. /\ r \in Readings(Len(nodes)) /\ NodesRead(nodes, serialized, R)
      /\ ItemsRead(nodes, open, R) /\ Inside(open, R, r.in) /\ Naming(anchors, R, r.names)
  BY DEF ReadsAs
<1>2. /\ r.in \in Seq(Nat) /\ r.in # <<>>
      /\ open \in Seq(Spot)
  BY SameCollection DEF Inv, Entered, Spot
<1>3. /\ Len(r.in) = m /\ m \in Nat \ {0} /\ Last(open) = open[m]
      /\ Len(front) = m - 1 /\ front \in Seq(Nat) /\ \A k \in 1 .. (m - 1) : front[k] = r.in[k]
      /\ Len(Front(open)) = m - 1 /\ \A k \in 1 .. (m - 1) : Front(open)[k] = open[k]
  <2>1. Len(r.in) = m
    BY <1>1 DEF Inside
  <2>2. m \in Nat \ {0} /\ Len(Front(open)) = m - 1 /\ Last(open) = open[m]
        /\ \A k \in 1 .. (m - 1) : Front(open)[k] = open[k]
    BY <1>2, PopFacts
  <2>3. /\ front \in Seq(Nat) /\ Len(front) = Len(r.in) - 1
        /\ \A k \in 1 .. (Len(r.in) - 1) : front[k] = r.in[k]
    BY <1>2, PopFacts
  <2> QED BY <2>1, <2>2, <2>3
<1>4. s.graph = R /\ s.in = front /\ s.names = r.names /\ s \in Readings(Len(nodes))
  <2>1. s = [r EXCEPT !.in = front]
    BY DEF ReadEvent
  <2> HIDE DEF s, front
  <2> QED BY <1>1, <1>3, <2>1 DEF Readings
<1> HIDE DEF s, front
<1>5. /\ \A k \in 1 .. (m - 1) : k \in 1 .. m /\ k # m
      /\ \A k \in 1 .. m : k \in 1 .. (m - 1) \/ k = m
      /\ m \in 1 .. m
  BY <1>3
<1>6. Inside(Front(open), R, s.in)
  <2>1. \A k \in 1 .. m : r.in[k] \in 1 .. Len(R) /\ R[r.in[k]].node = open[k].node
    BY <1>1 DEF Inside
  <2> HIDE DEF m
  <2> QED BY <1>3, <1>4, <1>5, <2>1 DEF Inside
<1>7. open[m].next - 1 = Len(nodes[open[m].node].items)
  <2>1. Within(open[m]) /\ ~ (open[m].next <= Len(nodes[open[m].node].items))
    BY <1>3, Innermost DEF InItems
  <2>2. Len(nodes[open[m].node].items) \in Nat
    BY <2>1, NodeFacts DEF Within
  <2> HIDE DEF m
  <2>3. open[m].next \in 1 .. (Len(nodes[open[m].node].items) + 1)
    BY <2>1 DEF Within
  <2> QED BY <2>1, <2>2, <2>3
<1>8. \A k, l \in 1 .. m : open[k].node = open[l].node => k = l
  BY DEF AnchorInv, Dumped
<1>9. \A v, len : HowFar(nodes, open, v, len) => HowFar(nodes, Front(open), v, len)
  <2> SUFFICES ASSUME NEW v, NEW len, HowFar(nodes, open, v, len)
               PROVE  HowFar(nodes, Front(open), v, len)
    OBVIOUS
  <2>1. /\ \A k \in 1 .. m : open[k].node = v => len = open[k].next - 1
        /\ (\A k \in 1 .. m : open[k].node # v) => len = Len(nodes[v].items)
    BY DEF HowFar
  <2> HIDE DEF m
  <2>2. \A k \in 1 .. (m - 1) : Front(open)[k].node = v => len = Front(open)[k].next - 1
    BY <1>3, <1>5, <2>1
  <2>3. (\A k \in 1 .. (m - 1) : Front(open)[k].node # v) => len = Len(nodes[v].items)
    <3>1. CASE open[m].node = v
      BY <1>5, <1>7, <2>1, <3>1
    <3>2. CASE open[m].node # v
      BY <1>3, <1>5, <2>1, <3>2
    <3> QED BY <3>1, <3>2
  <2> QED BY <1>3, <2>2, <2>3 DEF HowFar
<1>10. ItemsRead(nodes, Front(open), R)
  BY <1>1, <1>9, Zenon DEF ItemsRead, ItemsOf
<1> QED
  BY <1>1, <1>4, <1>6, <1>10 DEF ReadsAs, s

-----------------------------------------------------------------------------
(* The steps of the dumper.                                                *)

\* An event that comes out is read after the others.
LEMMA OneMoreRead ==
    ASSUME Inv, NEW type \in EventTypes, NEW node \in Nat, NEW anchor \in Nat, NEW blocks,
           Emit(type, node, anchor, blocks), nodes' = nodes
    PROVE  Reading' = ReadEvent(Reading, [type |-> type, node |-> node, anchor |-> anchor])
<1> DEFINE e == [type |-> type, node |-> node, anchor |-> anchor]
<1>1. events \in Seq(EventRecord) /\ e \in EventRecord
  BY DEF Inv, Tables, EventRecord
<1>2. events' = Append(events, e)
  BY DEF Emit
<1>3. Unread' = Unread
  BY DEF Unread
<1> HIDE DEF e
<1>4. PICK none : none = Unread
  OBVIOUS
<1>5. Read(Append(events, e), none) = ReadEvent(Read(events, none), e)
  BY <1>1, ReadAppend
<1> QED
  BY <1>2, <1>3, <1>4, <1>5 DEF Reading, e

\* Nothing has been read as long as no node has come out.
LEMMA NothingRead ==
    ASSUME Inv, events = <<>>, open = <<>>, serialized = {}, NEW table
    PROVE  ReadsAs(nodes, table, serialized, open, Reading)
<1>1. Reading = Unread
  <2>1. PICK none : none = Unread
    OBVIOUS
  <2> QED BY <2>1, ReadNone DEF Reading
<1>2. PICK g : g = Unread
  OBVIOUS
<1>3. /\ g.graph = <<>> /\ g.in = <<>> /\ g \in Readings(Len(nodes))
  <2>1. g = [graph |-> <<>>, in |-> <<>>, names |-> [a \in 0 .. Len(nodes) |-> 0]]
    BY <1>2 DEF Unread
  <2>2. /\ <<>> \in Seq(ReadRecord) /\ <<>> \in Seq(Nat)
        /\ [a \in 0 .. Len(nodes) |-> 0] \in [0 .. Len(nodes) -> Nat]
    BY EmptySeq
  <2> QED BY <2>1, <2>2 DEF Readings
<1>4. Len(<<>>) = 0 /\ 1 .. 0 = {}
  BY EmptySeq
<1>5. NodesRead(nodes, {}, <<>>) /\ ItemsRead(nodes, <<>>, <<>>) /\ Inside(<<>>, <<>>, <<>>)
  BY <1>4 DEF NodesRead, ItemsRead, Inside
<1>6. Naming(table, <<>>, g.names)
  BY <1>4 DEF Naming
<1> QED
  BY <1>1, <1>2, <1>3, <1>5, <1>6 DEF ReadsAs

\* An event that is not accepted ends the call before the document is out, and
\* so do the failures before the first event.
LEMMA GraphGivenUp ==
    ASSUME Inv, AnchorInv, pc \in {"open", "start", "document start", "dump"},
           pc' \in {"start", "delete"}, events' = events
    PROVE  GraphInv'
<1>1. pc = "dump" => Last(events).type # "DOCUMENT_END"
  BY DEF AnchorInv, Dumped
<1>2. pc # "dump" => events = <<>>
  BY DEF Inv, Control
<1>3. ~ DocumentIsOut'
  BY <1>1, <1>2 DEF DocumentIsOut
<1> QED
  BY <1>3 DEF GraphInv

\* Steps that read nothing.
LEMMA NothingMore ==
    ASSUME GraphInv, UNCHANGED <<nodes, anchors, serialized, open, events>>,
           \/ pc' = pc
           \/ pc = "anchor" /\ pc' = "dump"
    PROVE  GraphInv'
<1>1. Reading' = Reading
  BY DEF Reading, Unread
<1>2. DocumentIsOut' => DocumentIsOut
  BY DEF DocumentIsOut
<1> QED
  BY <1>1, <1>2 DEF GraphInv

\* The tables are made, and the document is started.
LEMMA StartKeepsGraph ==
    ASSUME Inv, AnchorInv, GraphInv, dump_document_start \/ \E ok \in BOOLEAN : dump_anchors(ok)
    PROVE  GraphInv'
<1>1. ASSUME NEW ok \in BOOLEAN, dump_anchors(ok)
      PROVE  GraphInv'
  <2>1. /\ pc = "start" /\ events' = events
        /\ UNCHANGED <<nodes, serialized, open, events>>
    BY <1>1 DEF dump_anchors, document
  <2>2. events = <<>> /\ open = <<>> /\ serialized = {}
    BY <2>1 DEF Inv, Control
  <2>3. CASE ok
    <3>1. pc' = "document start"
      BY <1>1, <2>3 DEF dump_anchors
    <3>2. PICK table : table = anchors'
      OBVIOUS
    <3>3. ReadsAs(nodes, table, serialized, open, Reading)
      BY <2>2, NothingRead
    <3>4. Reading' = Reading
      BY <2>1 DEF Reading, Unread
    <3>5. ReadsAs(nodes', anchors', serialized', open', Reading')
      BY <2>1, <3>2, <3>3, <3>4
    <3> QED BY <3>1, <3>5 DEF GraphInv, DocumentIsOut
  <2>4. CASE ~ ok
    <3>1. pc' = "delete"
      BY <1>1, <2>4 DEF dump_anchors
    <3> QED BY <2>1, <3>1, GraphGivenUp
  <2> QED BY <2>3, <2>4
<1>2. CASE dump_document_start
  <2>1. /\ pc = "document start"
        /\ UNCHANGED <<nodes, anchors, serialized, open>>
    BY <1>2 DEF dump_document_start, document
  <2>2. CASE Emit("DOCUMENT_START", 0, 0, DirectiveBlocks \cap heap) /\ pc' = "anchor"
    <3>1. PICK blocks : blocks = DirectiveBlocks \cap heap
      OBVIOUS
    <3>2. Emit("DOCUMENT_START", 0, 0, blocks) /\ "DOCUMENT_START" \in EventTypes /\ 0 \in Nat
      BY <2>2, <3>1 DEF EventTypes
    <3>3. Reading' = ReadEvent(Reading, [type |-> "DOCUMENT_START", node |-> 0, anchor |-> 0])
      BY <2>1, <3>2, OneMoreRead
    <3>4. Reading' = Reading
      BY <3>3 DEF ReadEvent
    <3> QED BY <2>1, <2>2, <3>4 DEF GraphInv, DocumentIsOut
  <2>3. CASE EmitFails(DirectiveBlocks \cap heap) /\ pc' = "delete"
    BY <2>1, <2>3, GraphGivenUp DEF EmitFails
  <2> QED BY <1>2, <2>2, <2>3 DEF dump_document_start
<1> QED
  BY <1>1, <1>2

\* Anchors are given before any node comes out.
LEMMA AnchorNodeKeepsGraph ==
    ASSUME Inv, AnchorInv, GraphInv, anchor_node
    PROVE  GraphInv'
<1>1. /\ pc = "anchor" /\ pc' = "anchor"
      /\ UNCHANGED <<nodes, serialized, open, events>>
  BY DEF anchor_node, document
<1>2. serialized = {} /\ ReadsAs(nodes, anchors, serialized, open, Reading)
  BY <1>1 DEF Inv, Control, GraphInv
<1>3. Reading' = Reading
  BY <1>1 DEF Reading, Unread
<1>4. PICK r : r = Reading
  OBVIOUS
<1>5. 1 .. Len(r.graph) = {}
  BY <1>2, <1>4 DEF ReadsAs, NodesRead
<1>6. \A table : Naming(table, r.graph, r.names)
  BY <1>5 DEF Naming
<1>7. ReadsAs(nodes', anchors', serialized', open', Reading')
  BY <1>1, <1>2, <1>3, <1>4, <1>6 DEF ReadsAs
<1> QED
  BY <1>1, <1>7 DEF GraphInv, DocumentIsOut

\* The event of a node says of which kind it is.
LEMMA TypeOfIs ==
    ASSUME Inv, NEW i \in Indexes
    PROVE  TypeOf(i) = TypeFor(nodes[i].kind) /\ TypeOf(i) \in EventTypes
<1>1. nodes[i].kind \in Kinds
  BY NodeFacts
<1>2. CASE nodes[i].kind = "SCALAR"
  <2>1. TypeOf(i) = "SCALAR"
    BY <1>2, Zenon DEF TypeOf
  <2> QED BY <1>2, <2>1 DEF TypeFor, EventTypes
<1>3. CASE nodes[i].kind = "SEQUENCE"
  <2>1. TypeOf(i) = "SEQUENCE_START"
    BY <1>3 DEF TypeOf
  <2> QED BY <1>3, <2>1 DEF TypeFor, EventTypes
<1>4. CASE nodes[i].kind = "MAPPING"
  <2>1. TypeOf(i) = "MAPPING_START"
    BY <1>4 DEF TypeOf
  <2> QED BY <1>4, <2>1 DEF TypeFor, EventTypes
<1> QED
  BY <1>1, <1>2, <1>3, <1>4 DEF Kinds

\* A node, or an alias, comes out.
LEMMA NodeKeepsGraph ==
    ASSUME Inv, AnchorInv, GraphInv, dump_node \/ dump_alias \/ generate_anchor_fails
    PROVE  GraphInv'
<1>1. /\ pc = "dump" /\ (RootIsDue \/ InItems)
      /\ UNCHANGED <<nodes, anchors>>
  BY DEF dump_node, dump_alias, generate_anchor_fails, document, tables
<1>2. Due \in Indexes /\ Due \in Nat /\ anchors[Due] \in Nat
  BY <1>1, DueFacts, NodeFacts DEF Inv, Tables
<1>3. ReadsAs(nodes, anchors, serialized, open, Reading)
  BY <1>1 DEF GraphInv
<1>4. PICK r : r = Reading
  OBVIOUS
<1>5. CASE /\ Emit(TypeOf(Due), Due, anchors[Due], StringsOf(Due))
           /\ open' = IF nodes[Due].kind = "SCALAR" THEN Advanced
                      ELSE Append(Advanced, [node |-> Due, next |-> 1])
           /\ pc' = pc /\ Due \notin serialized /\ serialized' = serialized \cup {Due}
  <2>1. PICK type : type = TypeOf(Due)
    OBVIOUS
  <2>2. PICK blocks : blocks = StringsOf(Due)
    OBVIOUS
  <2>3. PICK node : node = Due
    OBVIOUS
  <2>4. PICK anchor : anchor = anchors[Due]
    OBVIOUS
  <2> DEFINE e == [type |-> type, node |-> node, anchor |-> anchor]
  <2>5. Emit(type, node, anchor, blocks) /\ type \in EventTypes /\ type = TypeFor(nodes[Due].kind)
    BY <1>2, <1>5, <2>1, <2>2, <2>3, <2>4, TypeOfIs
  <2>6. Reading' = ReadEvent(r, e)
    BY <1>1, <1>2, <1>4, <2>3, <2>4, <2>5, OneMoreRead
  <2>7. e.type = TypeFor(nodes[Due].kind) /\ e.node = Due /\ e.anchor = anchors[Due]
    BY <2>3, <2>4, <2>5
  <2>8. PICK in : in = open'
    OBVIOUS
  <2>9. AfterNode(in)
    BY <1>5, <2>8 DEF AfterNode
  <2> HIDE DEF e
  <2>10. ReadsAs(nodes, anchors, serialized \cup {Due}, in, ReadEvent(r, e))
    BY <1>1, <1>3, <1>4, <1>5, <2>7, <2>9, NodeReads
  <2>11. ReadsAs(nodes', anchors', serialized', open', Reading')
    BY <1>1, <1>5, <2>6, <2>8, <2>10
  <2> QED BY <1>1, <1>5, <2>11 DEF GraphInv, DocumentIsOut
<1>6. CASE /\ Emit("ALIAS", Due, anchors[Due], {}) /\ open' = Advanced
           /\ pc' = pc /\ Due \in serialized /\ serialized' = serialized
  <2>1. PICK none : none = {}
    OBVIOUS
  <2>2. PICK node : node = Due
    OBVIOUS
  <2>3. PICK anchor : anchor = anchors[Due]
    OBVIOUS
  <2> DEFINE e == [type |-> "ALIAS", node |-> node, anchor |-> anchor]
  <2>4. Emit("ALIAS", node, anchor, none) /\ "ALIAS" \in EventTypes
    BY <1>6, <2>1, <2>2, <2>3 DEF EventTypes
  <2>5. Reading' = ReadEvent(r, e)
    BY <1>1, <1>2, <1>4, <2>2, <2>3, <2>4, OneMoreRead
  <2>6. e.type = "ALIAS" /\ e.anchor = anchors[Due]
    BY <2>3
  <2> HIDE DEF e
  <2>7. ReadsAs(nodes, anchors, serialized, Advanced, ReadEvent(r, e))
    BY <1>1, <1>3, <1>4, <1>6, <2>6, AliasReads
  <2>8. ReadsAs(nodes', anchors', serialized', open', Reading')
    BY <1>1, <1>6, <2>5, <2>7
  <2> QED BY <1>1, <1>6, <2>8 DEF GraphInv, DocumentIsOut
<1>7. CASE pc' = "delete" /\ events' = events
  BY <1>1, <1>7, GraphGivenUp
<1>8. CASE dump_node
  BY <1>5, <1>7, <1>8 DEF dump_node, Serialize, EmitFails
<1>9. CASE dump_alias
  BY <1>6, <1>7, <1>9 DEF dump_alias, EmitFails
<1>10. CASE generate_anchor_fails
  BY <1>7, <1>10 DEF generate_anchor_fails
<1> QED
  BY <1>8, <1>9, <1>10

\* A collection ends, or the document does.
LEMMA EndKeepsGraph ==
    ASSUME Inv, AnchorInv, GraphInv, dump_end \/ dump_document_end
    PROVE  GraphInv'
<1>1. /\ pc = "dump" /\ UNCHANGED <<nodes, anchors, serialized>>
  BY DEF dump_end, dump_document_end, document, tables
<1>2. ReadsAs(nodes, anchors, serialized, open, Reading)
  BY <1>1 DEF GraphInv
<1>3. PICK r : r = Reading
  OBVIOUS
<1>4. PICK none : none = {}
  OBVIOUS
<1>5. ASSUME NEW type \in {"SEQUENCE_END", "MAPPING_END"}, Emit(type, 0, 0, {}),
             open # <<>>, ~ InItems, open' = Front(open), pc' = pc
      PROVE  GraphInv'
  <2> DEFINE e == [type |-> type, node |-> 0, anchor |-> 0]
  <2>1. Emit(type, 0, 0, none) /\ type \in EventTypes /\ 0 \in Nat
    BY <1>4, <1>5 DEF EventTypes
  <2>2. Reading' = ReadEvent(r, e)
    BY <1>1, <1>3, <2>1, OneMoreRead
  <2>3. e.type \in {"SEQUENCE_END", "MAPPING_END"}
    OBVIOUS
  <2> HIDE DEF e
  <2>4. ReadsAs(nodes, anchors, serialized, Front(open), ReadEvent(r, e))
    BY <1>1, <1>2, <1>3, <1>5, <2>3, EndReads
  <2>5. ReadsAs(nodes', anchors', serialized', open', Reading')
    BY <1>1, <1>5, <2>2, <2>4
  <2> QED BY <1>1, <1>5, <2>5 DEF GraphInv, DocumentIsOut
<1>6. CASE Emit("DOCUMENT_END", 0, 0, {}) /\ dump_document_end
  <2>1. pc' = "delete" /\ open' = open /\ open = <<>> /\ ~ RootIsDue
    BY <1>6 DEF dump_document_end, tables
  <2>2. Emit("DOCUMENT_END", 0, 0, none) /\ "DOCUMENT_END" \in EventTypes /\ 0 \in Nat
    BY <1>4, <1>6 DEF EventTypes
  <2>3. Reading' = ReadEvent(Reading, [type |-> "DOCUMENT_END", node |-> 0, anchor |-> 0])
    BY <1>1, <2>2, OneMoreRead
  <2>4. Reading' = Reading
    BY <2>3 DEF ReadEvent
  <2>5. serialized # {}
    <3> DEFINE D == Followed(nodes, serialized, open, Len(events))
    <3>1. events # <<>> /\ events \in Seq(EventRecord) /\ nodes # <<>>
      BY <1>1 DEF Inv, Control, Tables, EventRecord
    <3>2. Len(events) \in Nat /\ Len(events) # 0 /\ Len(events) # 1
      BY <2>1, <3>1, EmptySeq, LenProperties DEF RootIsDue
    <3>3. \A c \in Nat : c # 0 /\ c # 1 => c > 1
      OBVIOUS
    <3>4. Len(events) > 1
      BY <3>2, <3>3, Zenon
    <3>5. Root \in D
      BY <3>4, EdgesAre DEF Followed
    <3>6. To(nodes, Root) = 1 /\ 1 \in Indexes
      BY <3>1, EdgesLead
    <3>7. \A j \in Indexes : j \in serialized <=> \E d \in D : To(nodes, d) = j
      BY <1>1 DEF AnchorInv, Dumped
    <3> HIDE DEF D
    <3> QED BY <3>5, <3>6, <3>7
  <2> QED BY <1>1, <1>2, <2>1, <2>4, <2>5 DEF GraphInv
<1>7. CASE EmitFails({}) /\ pc' = "delete"
  BY <1>1, <1>7, GraphGivenUp DEF EmitFails
<1>8. CASE dump_end
  <2>1. PICK type : type = IF nodes[Last(open).node].kind = "SEQUENCE" THEN "SEQUENCE_END"
                           ELSE "MAPPING_END"
    OBVIOUS
  <2>2. type \in {"SEQUENCE_END", "MAPPING_END"}
    BY <2>1
  <2>3. /\ open # <<>> /\ ~ InItems
        /\ \/ EmitFails({}) /\ pc' = "delete"
           \/ Emit(type, 0, 0, {}) /\ open' = Front(open) /\ pc' = pc
    BY <1>8, <2>1, Zenon DEF dump_end
  <2> QED BY <1>5, <1>7, <2>2, <2>3
<1>9. CASE dump_document_end
  BY <1>6, <1>7, <1>9 DEF dump_document_end
<1> QED
  BY <1>8, <1>9

\* Every step of the dumper preserves it.
LEMMA NextGraph == Inv /\ AnchorInv /\ GraphInv /\ [Next]_vars => GraphInv'
<1> SUFFICES ASSUME Inv, AnchorInv, GraphInv, [Next]_vars PROVE GraphInv'
  OBVIOUS
<1>1. pc' \in {"idle", "open", "start"} => GraphInv'
  BY DEF GraphInv, DocumentIsOut
<1>2. CASE Building
  <2>1. pc' = "idle"
    BY <1>2 DEF Building, document_initialize, add_node, append_sequence_item,
                append_mapping_pair, Append_to, document_delete, building
  <2> QED BY <1>1, <2>1
<1>3. CASE \/ \E ok \in BOOLEAN : emitter_open(ok) \/ emitter_close(ok)
           \/ emitter_dump
  <2>1. pc' \in {"idle", "open", "start"}
    BY <1>3 DEF emitter_open, emitter_close, emitter_dump, building
  <2> QED BY <1>1, <2>1
<1>4. ASSUME NEW ok \in BOOLEAN, dump_open(ok) \/ dump_nothing(ok)
      PROVE  GraphInv'
  <2>1. /\ pc \in {"open", "start"} /\ pc' \in {"start", "delete"} /\ events' = events
    BY <1>4 DEF dump_open, dump_nothing
  <2> QED BY <2>1, GraphGivenUp
<1>5. CASE anchored
  <2>1. /\ pc = "anchor" /\ pc' = "dump"
        /\ UNCHANGED <<nodes, anchors, serialized, open, events>>
    BY <1>5 DEF anchored, document, tables
  <2> QED BY <2>1, NothingMore
<1>6. CASE delete_document_and_anchors
  <2>1. pc' = "idle"
    BY <1>6 DEF delete_document_and_anchors
  <2> QED BY <1>1, <2>1
<1>7. CASE Dumping
  BY <1>4, <1>5, <1>6, <1>7, StartKeepsGraph, AnchorNodeKeepsGraph, NodeKeepsGraph, EndKeepsGraph
  DEF Dumping
<1>8. CASE UNCHANGED vars
  <2>1. UNCHANGED <<nodes, anchors, serialized, open, events, pc>>
    BY <1>8 DEF vars
  <2> QED BY <2>1, NothingMore
<1> QED
  BY <1>2, <1>3, <1>7, <1>8 DEF Next

\* What has been read at the end is the graph.
LEMMA GraphFollows ==
    ASSUME Inv, GraphInv
    PROVE  GraphIsPreserved
<1> SUFFICES ASSUME DocumentIsOut
             PROVE  LET graph == ReadBack IN
                    /\ graph[1].node = 1
                    /\ \A i, j \in 1 .. Len(graph) : graph[i].node = graph[j].node => i = j
                    /\ \A i \in 1 .. Len(graph) :
                         /\ graph[i].type = TypeOf(graph[i].node)
                         /\ nodes[graph[i].node].items =
                              [k \in 1 .. Len(graph[i].items) |-> graph[graph[i].items[k]].node]
  BY DEF GraphIsPreserved
<1>1. PICK R : R = ReadBack
  OBVIOUS
<1>2. /\ NodesRead(nodes, serialized, R) /\ ItemsRead(nodes, <<>>, R)
      /\ serialized # {} /\ serialized \subseteq Indexes
  BY <1>1 DEF GraphInv, ReadsAs, Reading, ReadBack, Inv, Tables
<1>3. R[1].node = 1
  <2>1. PICK v \in serialized : TRUE
    BY <1>2
  <2>2. PICK i \in 1 .. Len(R) : R[i].node = v
    BY <1>2 DEF NodesRead
  <2>3. Len(R) # 0
    BY <2>2
  <2> QED BY <1>2, <2>3 DEF NodesRead
<1>4. \A i, j \in 1 .. Len(R) : R[i].node = R[j].node => i = j
  BY <1>2 DEF NodesRead
<1>5. ASSUME NEW i \in 1 .. Len(R)
      PROVE  /\ R[i].type = TypeOf(R[i].node)
             /\ nodes[R[i].node].items = [k \in 1 .. Len(R[i].items) |-> R[R[i].items[k]].node]
  <2> DEFINE v == R[i].node
             its == nodes[v].items
             l == Len(R[i].items)
  <2>1. v \in Indexes /\ R[i].type = TypeFor(nodes[v].kind)
    BY <1>2 DEF NodesRead
  <2>2. R[i].type = TypeOf(v)
    BY <2>1, TypeOfIs
  <2>3. its \in Seq(Nat)
    BY <2>1, NodeFacts
  <2>4. l = Len(its)
    <3>1. HowFar(nodes, <<>>, v, l)
      BY <1>2 DEF ItemsRead, ItemsOf
    <3>2. 1 .. Len(<<>>) = {}
      BY EmptySeq
    <3> QED BY <3>1, <3>2 DEF HowFar
  <2>5. \A k \in 1 .. l : R[R[i].items[k]].node = its[k]
    BY <1>2 DEF ItemsRead, ItemsOf
  <2>6. its = [k \in 1 .. Len(its) |-> its[k]]
    <3> HIDE DEF its
    <3> QED BY <2>3
  <2> HIDE DEF its, l
  <2>7. its = [k \in 1 .. l |-> R[R[i].items[k]].node]
    BY <2>4, <2>5, <2>6
  <2> QED BY <2>2, <2>7 DEF its, l
<1> QED
  BY <1>1, <1>3, <1>4, <1>5

\* A graph of whatever size and shape, with shared nodes and with cycles, comes
\* out so that reading its events back gives it again: each node once, as what
\* it is, with the same items in the same order, and each alias for the node it
\* was made for (yaml_emitter_dump_node takes `serialized` and the anchors that
\* yaml_emitter_anchor_node has given).
THEOREM GraphComesBack == Spec => []GraphIsPreserved
<1>1. Init => GraphInv
  BY DEF Init, GraphInv, DocumentIsOut
<1>2. Inv /\ AnchorInv /\ [Next]_vars => AnchorInv'
  BY NextAnchored
<1>3. Inv /\ AnchorInv /\ GraphInv /\ [Next]_vars => GraphInv'
  BY NextGraph
<1>4. Inv /\ GraphInv => GraphIsPreserved
  BY GraphFollows
<1> QED
  BY InitAnchored, DumperInvariant, <1>1, <1>2, <1>3, <1>4, PTL DEF Spec

=============================================================================

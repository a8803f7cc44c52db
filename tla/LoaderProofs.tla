---------------------------- MODULE LoaderProofs ----------------------------
(***************************************************************************)
(* What is proved of the loader for every stream of events, of any length  *)
(* and depth, whatever anchors and tags it uses and wherever an allocation *)
(* or a limit fails: the types, that the context follows the parser, that  *)
(* documents are whole, and that what is allocated has one owner.          *)
(***************************************************************************)
EXTENDS Loader, ProofLemmas

-----------------------------------------------------------------------------
(* The inductive invariant.                                                *)

Outer == {"stream", "docs", "docend", "done", "aborted"}
Inner == {"node"} \cup CollectionFrames
Pair == [key : 1..StackLimit, value : 0..StackLimit]
Node == [type : NodeEvents, from : 1..MaxEvents, tag : {"none", "!", "given"},
         items : Seq(1..StackLimit), pairs : Seq(Pair)]
Alias == [anchor : Anchors, index : 1..StackLimit, from : 1..MaxEvents]

\* The frames of a stream: within a document they are the root's, or those of
\* the collections that are open.
FramesOK(fr) ==
    /\ fr \in Seq(Outer \cup Inner)
    /\ Len(fr) >= 1 /\ fr[1] \in Outer
    /\ \A f \in 2..Len(fr) : fr[f] \in Inner
    /\ Len(fr) >= 2 => fr[1] = "docend"
    /\ \A f \in 2..Len(fr) : fr[f] = "node" => Len(fr) = 2

\* The context and the nodes, when the parser is within a document.
Agrees(fr, cx, nds) ==
    /\ FramesOK(fr) /\ fr[1] = "docend"
    /\ ContextFits(fr, cx, nds)
    /\ nds = <<>> <=> fr[Len(fr)] = "node"

\* One event, as a relation between the frames before it and after it.
Stepped(before, after, e) ==
    \/ /\ Last(before) = "docend" /\ e = "DOCUMENT_END"
       /\ after = Append(Front(before), "docs")
    \/ /\ Last(before) \in NodeFrames /\ e \in {"SCALAR", "ALIAS"}
       /\ after = AfterNode(before)
    \/ /\ Last(before) \in NodeFrames /\ e = "SEQUENCE_START"
       /\ after = Append(AfterNode(before), "seq")
    \/ /\ Last(before) \in NodeFrames /\ e = "MAPPING_START"
       /\ after = Append(AfterNode(before), "key")
    \/ Last(before) = "seq" /\ e = "SEQUENCE_END" /\ after = Front(before)
    \/ Last(before) = "key" /\ e = "MAPPING_END" /\ after = Front(before)
    \/ /\ Last(before) = "seq" /\ e = "MAPPING_START"
       /\ after = Append(Front(before), "pairkey")
    \/ /\ Last(before) = "pairend" /\ e = "MAPPING_END"
       /\ after = Append(Front(before), "seq")

\* The loader is one event behind the parser.
Behind == \E before : Agrees(before, ctx, nodes) /\ Stepped(before, frames, event)

\* Items, keys and values are nodes, only a last pair can lack its value, and
\* each node but the first one hangs below an earlier one.
Linked(nds) ==
    /\ \A i \in DOMAIN nds :
          /\ \A k \in DOMAIN nds[i].items : nds[i].items[k] \in DOMAIN nds
          /\ \A k \in DOMAIN nds[i].pairs :
                /\ nds[i].pairs[k].key \in DOMAIN nds
                /\ nds[i].pairs[k].value \in DOMAIN nds \cup {0}
                /\ nds[i].pairs[k].value = 0 => k = Len(nds[i].pairs)
          /\ nds[i].type # "MAPPING_START" => nds[i].pairs = <<>>
    /\ \A i \in DOMAIN nds \ {1} : \E p \in 1..(i - 1) : i \in Children(nds[p])

\* The context is a list of different nodes, and an alias is a node too.
Pointing(cx, als, nds) ==
    /\ \A k \in DOMAIN cx : cx[k] \in DOMAIN nds
    /\ \A j, k \in DOMAIN cx : cx[j] = cx[k] => j = k
    /\ \A k \in DOMAIN als : als[k].index \in DOMAIN nds

Typed ==
    /\ carried \in Carriable(event)
    /\ parsed \in 0..MaxEvents
    /\ event # "NO" => parsed >= 1
    /\ error \in {"NO", "MEMORY", "COMPOSER"}
    /\ result \in {"none", "OK", "FAIL"}
    /\ bad_free \in BOOLEAN
    /\ nodes \in Seq(Node) /\ Len(nodes) <= StackLimit
    /\ ctx \in Seq(1..StackLimit)
    /\ aliases \in Seq(Alias)

Loading == {"nodes", "load nodes"}

Control ==
    /\ pc \in {"idle", "stream", "document", "nodes", "load document", "load nodes",
               "undefined"}
    /\ pc = "stream" => frames = <<"stream">>
    /\ pc = "load document" =>
          /\ event = "DOCUMENT_START" => frames = <<"docend", "node">>
          /\ event = "STREAM_END" => frames = <<"done">>
          /\ event = "NO" => Stopped
    /\ pc = "nodes" => Stopped \/ Agrees(frames, ctx, nodes)
    /\ pc = "load nodes" /\ event # "NO" => Behind
    /\ pc \notin Loading => ctx = <<>> /\ aliases = <<>>
    /\ pc \notin Loading /\ (pc = "idle" => result # "OK") => nodes = <<>> /\ directives = {}
    /\ pc = "idle" /\ result = "OK" =>
          /\ \A i \in DOMAIN nodes : ~Pending(nodes[i])
          /\ nodes = <<>> => frames = <<"done">>

\* What the event at hand brought is not in the document yet.
Fresh ==
    LET new == pc = "load nodes" /\ event # "NO" IN
    /\ \A i \in DOMAIN nodes : nodes[i].from <= parsed /\ (new => nodes[i].from < parsed)
    /\ \A i \in DOMAIN aliases : aliases[i].from <= parsed /\ (new => aliases[i].from < parsed)
    /\ \A b \in directives : \E n \in 0..parsed : b = <<n, "directives">>

\* The document, when there is one, and what the call keeps beside it.
Kept(als) == {<<0, "ctx">>} \cup AliasesOwn(als)

Accounts ==
    /\ bad_free = FALSE
    /\ pc # "idle" => <<0, "nodes">> \in heap
    /\ pc = "idle" /\ result = "OK" => <<0, "nodes">> \in heap
    /\ heap = (IF <<0, "nodes">> \in heap THEN DocumentOwns(nodes, directives) ELSE {})
              \cup (IF pc \in Loading THEN Kept(aliases) ELSE {})
              \cup (IF pc \in {"load document", "load nodes"} THEN EventStrings ELSE {})
    /\ pc = "idle" /\ result = "FAIL" => heap = {}

Inv ==
    /\ FramesOK(frames)
    /\ Typed
    /\ Linked(nodes) /\ Pointing(ctx, aliases, nodes)
    /\ Control
    /\ Fresh
    /\ pc # "undefined" => Accounts

-----------------------------------------------------------------------------
(* The depth of a frame.                                                   *)

\* Numbers of an interval.
LEMMA Interval ==
    ASSUME NEW m \in Nat
    PROVE  /\ \A f \in 1..m : /\ f \in Nat /\ f <= m /\ f - 1 \in Nat /\ (f - 1) + 1 = f
                              /\ 1..f \subseteq 1..m
           /\ \A f : f \in 1..(m + 1) <=> f \in 1..m \/ f = m + 1
           /\ \A n \in Nat : m <= n => 1..m \subseteq 1..n
OBVIOUS

\* How many collections one frame stands for.
WidthOf(frame) ==
    IF frame \in PairFrames THEN 2 ELSE IF frame \in CollectionFrames THEN 1 ELSE 0

\* How many of the first f frames are in F.
Among(fr, f, F) == {i \in 1..f : fr[i] \in F}

\* One frame more.
LEMMA AmongStep ==
    ASSUME NEW fr, NEW F, NEW n \in Nat
    PROVE  /\ Cardinality(Among(fr, 0, F)) = 0
           /\ Cardinality(Among(fr, n, F)) \in Nat
           /\ Cardinality(Among(fr, n + 1, F)) =
                 IF fr[n + 1] \in F THEN Cardinality(Among(fr, n, F)) + 1
                 ELSE Cardinality(Among(fr, n, F))
<1> DEFINE A == Among(fr, n, F)
           B == Among(fr, n + 1, F)
<1>1. IsFiniteSet(A) /\ Cardinality(A) \in Nat
  <2>1. IsFiniteSet(1..n) /\ A \subseteq 1..n
    BY FS_Interval DEF Among
  <2> QED
    BY <2>1, FS_Subset, FS_CardinalityType
<1>2. n + 1 \notin A
  BY DEF Among
<1>3. B = IF fr[n + 1] \in F THEN A \cup {n + 1} ELSE A
  <2>1. \A i : i \in 1..(n + 1) <=> i \in 1..n \/ i = n + 1
    OBVIOUS
  <2> QED BY <2>1 DEF Among
<1>4. Cardinality(A \cup {n + 1}) = Cardinality(A) + 1
  BY <1>1, <1>2, FS_AddElement
<1>5. Among(fr, 0, F) = {}
  BY DEF Among
<1> QED
  BY <1>1, <1>3, <1>4, <1>5, FS_EmptySet

\* The depth begins at 0 and grows by the width of each frame.
LEMMA DepthStep ==
    ASSUME NEW fr, NEW n \in Nat
    PROVE  /\ Depth(fr, 0) = 0
           /\ Depth(fr, n) \in Nat
           /\ Depth(fr, n + 1) = Depth(fr, n) + WidthOf(fr[n + 1])
<1>1. \A m : Depth(fr, m) = Cardinality(Among(fr, m, CollectionFrames))
                           + Cardinality(Among(fr, m, PairFrames))
  BY DEF Depth, Among
<1>2. PairFrames \subseteq CollectionFrames
  BY DEF CollectionFrames
<1>3. /\ Cardinality(Among(fr, 0, CollectionFrames)) = 0
      /\ Cardinality(Among(fr, n, CollectionFrames)) \in Nat
      /\ Cardinality(Among(fr, n + 1, CollectionFrames)) =
            IF fr[n + 1] \in CollectionFrames
            THEN Cardinality(Among(fr, n, CollectionFrames)) + 1
            ELSE Cardinality(Among(fr, n, CollectionFrames))
  BY AmongStep
<1>4. /\ Cardinality(Among(fr, 0, PairFrames)) = 0
      /\ Cardinality(Among(fr, n, PairFrames)) \in Nat
      /\ Cardinality(Among(fr, n + 1, PairFrames)) =
            IF fr[n + 1] \in PairFrames
            THEN Cardinality(Among(fr, n, PairFrames)) + 1
            ELSE Cardinality(Among(fr, n, PairFrames))
  BY AmongStep
<1> QED
  BY <1>1, <1>2, <1>3, <1>4 DEF WidthOf

\* The same frames have the same depth.
LEMMA DepthSame ==
    ASSUME NEW fr, NEW gr, NEW n \in Nat, \A i \in 1..n : fr[i] = gr[i]
    PROVE  Depth(fr, n) = Depth(gr, n)
<1>1. /\ {i \in 1..n : fr[i] \in CollectionFrames} = {i \in 1..n : gr[i] \in CollectionFrames}
      /\ {i \in 1..n : fr[i] \in PairFrames} = {i \in 1..n : gr[i] \in PairFrames}
  OBVIOUS
<1> QED
  BY <1>1 DEF Depth

\* An outer frame is not deeper than an inner one.
LEMMA DepthGrows ==
    ASSUME NEW fr, NEW n \in Nat, NEW m \in Nat, m <= n
    PROVE  Depth(fr, m) <= Depth(fr, n)
<1> DEFINE T == {k \in Nat : k < m \/ Depth(fr, m) <= Depth(fr, k)}
<1>1. \A k \in Nat : Depth(fr, k) \in Nat /\ Depth(fr, k + 1) = Depth(fr, k) + WidthOf(fr[k + 1])
  BY DepthStep
<1>2. \A k : WidthOf(fr[k]) \in Nat
  BY DEF WidthOf
<1>3. 0 \in T
  BY <1>1
<1>4. \A k \in 0..(n - 1) : k \in T => k + 1 \in T
  <2> TAKE k \in 0..(n - 1)
  <2>1. k \in Nat /\ WidthOf(fr[k + 1]) \in Nat
    BY <1>2
  <2> QED BY <1>1, <2>1
<1> HIDE DEF T
<1>5. 0..n \subseteq T
  BY <1>3, <1>4, Climb
<1>6. n \in T
  BY <1>5
<1> QED
  BY <1>6 DEF T

-----------------------------------------------------------------------------
(* The context and the frames, as an event changes the innermost ones.     *)

AnyFrame == Outer \cup Inner
Owing == {"value", "pairvalue"}

\* A value is owed in one of the first m frames.
OwesIn(fr, cx, i, m) == \E f \in 1..m : fr[f] \in Owing /\ cx[Depth(fr, f)] = i

\* What is owed below frame m is owed to a collection below its depth.
LEMMA OwesBelow ==
    ASSUME NEW fr, NEW cx, NEW i, NEW m \in Nat, OwesIn(fr, cx, i, m)
    PROVE  \E k \in 1..Depth(fr, m) : cx[k] = i
<1>1. PICK f \in 1..m : fr[f] \in Owing /\ cx[Depth(fr, f)] = i
  BY DEF OwesIn
<1>2. f \in Nat /\ f - 1 \in Nat /\ f <= m /\ (f - 1) + 1 = f
  OBVIOUS
<1>3. WidthOf(fr[f]) \in {1, 2}
  BY <1>1 DEF WidthOf, Owing, CollectionFrames, PairFrames
<1>4. Depth(fr, f - 1) \in Nat /\ Depth(fr, f) = Depth(fr, f - 1) + WidthOf(fr[f])
  BY <1>2, DepthStep
<1>5. Depth(fr, f) <= Depth(fr, m) /\ Depth(fr, m) \in Nat
  BY <1>2, DepthGrows, DepthStep
<1>6. Depth(fr, f) \in 1..Depth(fr, m)
  BY <1>3, <1>4, <1>5
<1> QED
  BY <1>1, <1>6

\* gr and dx have the first m frames of fr, and the collections these stand
\* for, and at most one frame more.
Reshaped(fr, cx, nds, gr, dx, new, m) ==
    /\ fr \in Seq(AnyFrame) /\ gr \in Seq(AnyFrame)
    /\ cx \in Seq(Nat) /\ dx \in Seq(Nat)
    /\ m <= Len(fr) /\ (Len(gr) = m \/ Len(gr) = m + 1)
    /\ \A f \in 1..m : gr[f] = fr[f]
    /\ \A k \in 1..Depth(fr, m) : dx[k] = cx[k]
    /\ \A k \in 1..Depth(fr, m) : new[cx[k]].type = nds[cx[k]].type

\* The new frame fits, and the owed values are those of the frames that stay
\* and of the new one.
NewFits(gr, dx, new, m) ==
    /\ Depth(gr, Len(gr)) = Len(dx)
    /\ Len(gr) = m + 1 => FrameFits(gr[m + 1], Len(dx), dx, new)
NewOwes(fr, cx, gr, dx, new, m) ==
    \A i \in DOMAIN new :
       Pending(new[i]) <=>
          \/ OwesIn(fr, cx, i, m)
          \/ Len(gr) = m + 1 /\ gr[m + 1] \in Owing /\ dx[Len(dx)] = i

\* Then the context fits again.
LEMMA Refits ==
    ASSUME NEW fr, NEW cx, NEW nds, NEW gr, NEW dx, NEW new, NEW m \in Nat,
           Reshaped(fr, cx, nds, gr, dx, new, m), ContextFits(fr, cx, nds),
           NewFits(gr, dx, new, m), NewOwes(fr, cx, gr, dx, new, m)
    PROVE  ContextFits(gr, dx, new)
<1>1. /\ Len(fr) \in Nat /\ DOMAIN fr = 1..Len(fr) /\ Len(gr) \in Nat /\ DOMAIN gr = 1..Len(gr)
      /\ m <= Len(fr) /\ (Len(gr) = m \/ Len(gr) = m + 1)
  BY LenProperties DEF Reshaped
<1>same. \A f \in 1..m : gr[f] = fr[f]
  BY DEF Reshaped
<1>ctx. /\ \A k \in 1..Depth(fr, m) : dx[k] = cx[k]
        /\ \A k \in 1..Depth(fr, m) : new[cx[k]].type = nds[cx[k]].type
  BY DEF Reshaped
<1>2. ASSUME NEW f \in 1..m
      PROVE  /\ Depth(gr, f) = Depth(fr, f) /\ Depth(fr, f) \in Nat
             /\ Depth(fr, f) <= Depth(fr, m)
             /\ Depth(fr, m) \in Nat
             /\ fr[f] \in CollectionFrames => Depth(fr, f) >= 1
             /\ fr[f] \in PairFrames => Depth(fr, f) >= 2
  <2>1. f \in Nat /\ f <= m /\ f - 1 \in Nat /\ (f - 1) + 1 = f /\ 1..f \subseteq 1..m
    BY Interval
  <2>2. \A i \in 1..f : fr[i] = gr[i]
    BY <1>same, <2>1
  <2>3. Depth(gr, f) = Depth(fr, f)
    BY <2>1, <2>2, DepthSame
  <2>4. /\ Depth(fr, f - 1) \in Nat /\ Depth(fr, f) = Depth(fr, f - 1) + WidthOf(fr[f])
        /\ Depth(fr, f) \in Nat /\ Depth(fr, m) \in Nat /\ Depth(fr, f) <= Depth(fr, m)
    BY <1>1, <2>1, DepthStep, DepthGrows
  <2>5. /\ fr[f] \in CollectionFrames => WidthOf(fr[f]) \in {1, 2}
        /\ fr[f] \in PairFrames => WidthOf(fr[f]) = 2
    BY DEF WidthOf
  <2> QED BY <2>3, <2>4, <2>5
<1>3. ASSUME NEW f \in 1..m
      PROVE  FrameFits(gr[f], Depth(gr, f), dx, new)
  <2>1. f \in DOMAIN fr /\ gr[f] = fr[f]
    BY <1>1, <1>same
  <2>2. FrameFits(fr[f], Depth(fr, f), cx, nds)
    BY <2>1 DEF ContextFits
  <2>3. fr[f] \in CollectionFrames => Depth(fr, f) \in 1..Depth(fr, m)
    BY <1>2
  <2>4. fr[f] \in PairFrames => Depth(fr, f) - 1 \in 1..Depth(fr, m)
    BY <1>2
  <2> QED
    BY <1>ctx, <1>2, <2>1, <2>2, <2>3, <2>4 DEF FrameFits
<1>4. \A f \in DOMAIN gr : FrameFits(gr[f], Depth(gr, f), dx, new)
  <2> TAKE f \in DOMAIN gr
  <2>1. f \in 1..m \/ (f = m + 1 /\ Len(gr) = m + 1)
    BY <1>1, Interval
  <2> QED BY <1>3, <2>1 DEF NewFits
<1>5. ASSUME NEW i \in DOMAIN new
      PROVE  OwesValue(gr, dx, i) <=>
                \/ OwesIn(fr, cx, i, m)
                \/ Len(gr) = m + 1 /\ gr[m + 1] \in Owing /\ dx[Len(dx)] = i
  <2>1. OwesValue(gr, dx, i) <=>
           \/ \E f \in 1..m : gr[f] \in Owing /\ dx[Depth(gr, f)] = i
           \/ Len(gr) = m + 1 /\ gr[m + 1] \in Owing /\ dx[Depth(gr, m + 1)] = i
    <3>1. \A f : f \in DOMAIN gr <=> f \in 1..m \/ (f = m + 1 /\ Len(gr) = m + 1)
      <4>1. CASE Len(gr) = m
        <5>1. m # m + 1
          OBVIOUS
        <5> QED BY <1>1, <4>1, <5>1
      <4>2. CASE Len(gr) = m + 1
        BY <1>1, <4>2, Interval
      <4> QED BY <1>1, <4>1, <4>2
    <3> QED BY <3>1 DEF OwesValue, Owing
  <2>2. Owing \subseteq CollectionFrames
    BY DEF Owing, CollectionFrames, PairFrames
  <2>3. \A f \in 1..m : gr[f] \in Owing => dx[Depth(gr, f)] = cx[Depth(fr, f)]
    <3> TAKE f \in 1..m
    <3> HAVE gr[f] \in Owing
    <3>1. fr[f] \in CollectionFrames
      BY <1>same, <2>2
    <3>2. Depth(fr, f) \in 1..Depth(fr, m)
      BY <1>2, <3>1
    <3> QED BY <1>ctx, <1>2, <3>2
  <2>4. (\E f \in 1..m : gr[f] \in Owing /\ dx[Depth(gr, f)] = i) <=> OwesIn(fr, cx, i, m)
    BY <1>same, <2>3 DEF OwesIn
  <2>5. Len(gr) = m + 1 => Depth(gr, m + 1) = Len(dx)
    BY DEF NewFits
  <2> QED BY <2>1, <2>4, <2>5
<1> QED
  BY <1>4, <1>5 DEF ContextFits, NewFits, NewOwes

\* The innermost frame and what is below it.
LEMMA Innermost ==
    ASSUME NEW fr, NEW cx, NEW nds, Agrees(fr, cx, nds), cx \in Seq(Nat)
    PROVE  LET n == Len(fr)
               m == Len(fr) - 1
           IN /\ fr \in Seq(AnyFrame) /\ fr # <<>> /\ n \in Nat \ {0} /\ m \in Nat /\ m + 1 = n
              /\ Front(fr) \in Seq(AnyFrame) /\ Len(Front(fr)) = m
              /\ \A f \in 1..m : Front(fr)[f] = fr[f]
              /\ Last(fr) = fr[n] /\ fr = Append(Front(fr), Last(fr)) /\ Last(fr) \in AnyFrame
              /\ Depth(fr, m) \in Nat
              /\ Depth(fr, m) + WidthOf(Last(fr)) = Len(cx)
              /\ Len(cx) \in Nat /\ DOMAIN cx = 1..Len(cx)
              /\ FrameFits(Last(fr), Len(cx), cx, nds)
              /\ \A i : OwesValue(fr, cx, i) <=>
                    \/ OwesIn(fr, cx, i, m)
                    \/ Last(fr) \in Owing /\ cx[Len(cx)] = i
<1> DEFINE n == Len(fr)
           m == Len(fr) - 1
<1>1. fr \in Seq(AnyFrame) /\ n >= 1 /\ n \in Nat /\ DOMAIN fr = 1..n
  BY LenProperties DEF Agrees, FramesOK, AnyFrame
<1>2. fr # <<>> /\ n \in Nat \ {0} /\ m \in Nat /\ m + 1 = n
  BY <1>1, EmptySeq
<1>3. /\ Front(fr) \in Seq(AnyFrame) /\ Len(Front(fr)) = m
      /\ \A f \in 1..m : Front(fr)[f] = fr[f]
      /\ Last(fr) = fr[n] /\ fr = Append(Front(fr), Last(fr)) /\ Last(fr) \in AnyFrame
  BY <1>1, <1>2, PopFacts, PopPush
<1>4. Len(cx) \in Nat /\ DOMAIN cx = 1..Len(cx)
  BY LenProperties
<1>5. Depth(fr, n) = Len(cx)
  BY DEF Agrees, ContextFits
<1> HIDE DEF n, m
<1>6. Depth(fr, m) \in Nat /\ Depth(fr, n) = Depth(fr, m) + WidthOf(fr[n])
  BY <1>2, DepthStep
<1>7. n \in DOMAIN fr
  BY <1>1, <1>2
<1>8. FrameFits(Last(fr), Len(cx), cx, nds)
  BY <1>3, <1>5, <1>7 DEF Agrees, ContextFits
<1>9. ASSUME NEW i
      PROVE  OwesValue(fr, cx, i) <=>
                \/ OwesIn(fr, cx, i, m)
                \/ Last(fr) \in Owing /\ cx[Len(cx)] = i
  <2>1. \A f : f \in DOMAIN fr <=> f \in 1..m \/ f = n
    BY <1>1, <1>2, Interval
  <2> QED BY <1>3, <1>5, <2>1 DEF OwesValue, OwesIn, Owing
<1> QED
  BY <1>1, <1>2, <1>3, <1>4, <1>5, <1>6, <1>8, <1>9 DEF n, m

\* A value that is owed below the innermost frame is not owed to its collections.
LEMMA OwedElsewhere ==
    ASSUME NEW fr, NEW cx, NEW als, NEW nds, Agrees(fr, cx, nds), cx \in Seq(Nat),
           Pointing(cx, als, nds), NEW i, OwesIn(fr, cx, i, Len(fr) - 1)
    PROVE  /\ i \in DOMAIN nds
           /\ \A k \in DOMAIN cx : k > Depth(fr, Len(fr) - 1) => cx[k] # i
<1> DEFINE m == Len(fr) - 1
           w == WidthOf(Last(fr))
<1>1. /\ m \in Nat /\ Depth(fr, m) \in Nat /\ Len(cx) \in Nat /\ DOMAIN cx = 1..Len(cx)
      /\ Depth(fr, m) + w = Len(cx)
  BY Innermost
<1>2. OwesIn(fr, cx, i, m)
  OBVIOUS
<1>3. w \in Nat
  BY DEF WidthOf
<1> HIDE DEF m, w
<1>4. PICK j \in 1..Depth(fr, m) : cx[j] = i
  BY <1>1, <1>2, OwesBelow
<1>5. Depth(fr, m) <= Len(cx)
  BY <1>1, <1>3
<1>6. j \in DOMAIN cx /\ j \in Nat /\ j <= Depth(fr, m)
  BY <1>1, <1>5, Interval
<1>7. i \in DOMAIN nds
  BY <1>4, <1>6 DEF Pointing
<1>8. ASSUME NEW k \in DOMAIN cx, k > Depth(fr, m), cx[k] = i
      PROVE  FALSE
  <2>1. k = j
    BY <1>4, <1>6, <1>8 DEF Pointing
  <2>2. ~ (j > Depth(fr, m))
    BY <1>1, <1>6
  <2> QED BY <1>8, <2>1, <2>2
<1> QED
  BY <1>7, <1>8 DEF m

\* Frames with another innermost one are frames of a document too.
LEMMA FramesPush ==
    ASSUME NEW fr, NEW x \in CollectionFrames,
           FramesOK(fr), fr[1] = "docend", fr[Len(fr)] # "node"
    PROVE  /\ FramesOK(Append(fr, x)) /\ Append(fr, x)[1] = "docend"
           /\ Len(Append(fr, x)) = Len(fr) + 1 /\ Append(fr, x)[Len(fr) + 1] = x
           /\ Append(fr, x) \in Seq(AnyFrame)
           /\ \A f \in 1..Len(fr) : Append(fr, x)[f] = fr[f]
<1> DEFINE gr == Append(fr, x)
           n == Len(fr)
<1>1. fr \in Seq(AnyFrame) /\ n \in Nat /\ n >= 1
  BY LenProperties DEF FramesOK, AnyFrame
<1>2. x \in Inner /\ x \in AnyFrame /\ x # "node"
  BY DEF Inner, AnyFrame, CollectionFrames, PairFrames
<1>3. /\ gr \in Seq(AnyFrame) /\ Len(gr) = n + 1 /\ gr[n + 1] = x
      /\ \A f \in 1..n : gr[f] = fr[f]
  BY <1>1, <1>2, PushPop
<1>4. \A f \in 2..n : fr[f] \in Inner /\ (fr[f] = "node" => n = 2)
  BY DEF FramesOK
<1>5. fr[n] # "node" /\ fr[1] = "docend" /\ "docend" \in Outer
  BY DEF Outer
<1> HIDE DEF gr, n
<1>6. \A f \in 2..n : fr[f] # "node"
  <2> SUFFICES ASSUME NEW f \in 2..n, fr[f] = "node" PROVE FALSE
    OBVIOUS
  <2>1. n = 2
    BY <1>4
  <2>2. f = n
    BY <2>1
  <2> QED BY <1>5, <2>2
<1>7. \A f \in 2..(n + 1) : f = n + 1 \/ (f \in 2..n /\ f \in 1..n)
  BY <1>1
<1>8. \A f \in 2..(n + 1) : gr[f] \in Inner /\ gr[f] # "node"
  BY <1>2, <1>3, <1>4, <1>6, <1>7
<1>9. 1 \in 1..n /\ n + 1 >= 1
  BY <1>1
<1>10. gr[1] = "docend" /\ FramesOK(gr)
  BY <1>3, <1>5, <1>8, <1>9 DEF FramesOK, AnyFrame
<1> QED
  BY <1>3, <1>10 DEF gr, n

\* Closing what is open innermost in a document leaves frames of a document.
LEMMA FramesPop ==
    ASSUME NEW fr, FramesOK(fr), fr[1] = "docend", Last(fr) # "docend"
    PROVE  /\ FramesOK(Front(fr)) /\ Front(fr)[1] = "docend" /\ fr \in Seq(AnyFrame)
           /\ Len(fr) >= 2 /\ fr[Len(fr)] = Last(fr)
           /\ Len(Front(fr)) = Len(fr) - 1
           /\ Front(fr)[Len(Front(fr))] # "node"
           /\ Front(fr) \in Seq(AnyFrame)
<1> DEFINE gr == Front(fr)
           n == Len(fr)
           m == n - 1
<1>1. fr \in Seq(AnyFrame) /\ n \in Nat /\ n >= 1
  BY LenProperties DEF FramesOK, AnyFrame
<1>2. fr # <<>>
  BY <1>1, EmptySeq
<1>3. /\ gr \in Seq(AnyFrame) /\ Len(gr) = m /\ Last(fr) = fr[n]
      /\ \A f \in 1..m : gr[f] = fr[f]
  BY <1>1, <1>2, PopFacts
<1>4. n >= 2
  BY <1>1, <1>3
<1>5. \A f \in 2..n : fr[f] \in Inner /\ (fr[f] = "node" => n = 2)
  BY DEF FramesOK
<1>6. "docend" \in Outer /\ "docend" # "node"
  BY DEF Outer
<1>7. m \in Nat /\ m >= 1 /\ 1 \in 1..m /\ m \in 1..m /\ m # n /\ n = m + 1
  BY <1>1, <1>4
<1> HIDE DEF gr, m, n
<1>8. \A f \in 2..m : f \in 2..n /\ f \in 1..m /\ n # 2
  BY <1>7
<1>9. \A f \in 2..m : gr[f] \in Inner /\ gr[f] # "node"
  BY <1>3, <1>5, <1>8
<1>10. gr[1] = "docend"
  BY <1>3, <1>7
<1>11. FramesOK(gr)
  BY <1>3, <1>6, <1>7, <1>9, <1>10 DEF FramesOK, AnyFrame
<1>12. gr[m] # "node"
  <2>1. m = 1 \/ m \in 2..m
    BY <1>7
  <2> QED BY <1>6, <1>9, <1>10, <2>1
<1> QED
  BY <1>1, <1>3, <1>4, <1>10, <1>11, <1>12 DEF gr, m, n

\* The nodes grow: only node p may change its mind about whether it lacks a
\* value, and a new node does not.
Grown(nds, new, p) ==
    /\ new # <<>>
    /\ DOMAIN nds \subseteq DOMAIN new
    /\ \A i \in DOMAIN nds : new[i].type = nds[i].type
    /\ \A i \in DOMAIN nds : i # p => (Pending(new[i]) <=> Pending(nds[i]))
    /\ \A i \in DOMAIN new \ DOMAIN nds : ~Pending(new[i])

\* A node takes the place that was due in the innermost collection.
LEMMA NodeTaken ==
    ASSUME NEW fr, NEW cx, NEW als, NEW nds, NEW new,
           Agrees(fr, cx, nds), cx \in Seq(Nat), Pointing(cx, als, nds),
           Last(fr) \in NodeFrames \ {"node"},
           Grown(nds, new, Last(cx)),
           Pending(new[Last(cx)]) <=> Followed(Last(fr)) \in Owing
    PROVE  cx # <<>> /\ Last(cx) \in DOMAIN nds /\ Agrees(AfterNode(fr), cx, new)
<1> DEFINE n == Len(fr)
           m == n - 1
           low == Front(fr)
           x == Followed(Last(fr))
           gr == Append(low, x)
           c == Len(cx)
<1>1. /\ fr \in Seq(AnyFrame) /\ n \in Nat \ {0} /\ m \in Nat /\ m + 1 = n
      /\ \A f \in 1..m : low[f] = fr[f]
      /\ Depth(fr, m) \in Nat /\ Depth(fr, m) + WidthOf(Last(fr)) = c
      /\ c \in Nat /\ DOMAIN cx = 1..c
      /\ FrameFits(Last(fr), c, cx, nds)
      /\ \A i : OwesValue(fr, cx, i) <=> \/ OwesIn(fr, cx, i, m)
                                         \/ Last(fr) \in Owing /\ cx[c] = i
  BY Innermost
<1>2. /\ x \in CollectionFrames /\ Last(fr) \in CollectionFrames
      /\ WidthOf(x) = WidthOf(Last(fr)) /\ WidthOf(x) \in {1, 2}
      /\ (x = "seq" <=> Last(fr) = "seq") /\ (x \in PairFrames <=> Last(fr) \in PairFrames)
      /\ Last(fr) # "docend" /\ Last(fr) # "node"
  BY DEF NodeFrames, Followed, WidthOf, CollectionFrames, PairFrames
<1>3. FramesOK(fr) /\ fr[1] = "docend" /\ ContextFits(fr, cx, nds)
  BY DEF Agrees
<1>4. /\ FramesOK(low) /\ low[1] = "docend" /\ Len(low) = m /\ low[Len(low)] # "node"
  BY <1>2, <1>3, FramesPop
<1> HIDE DEF x, low
<1>5. /\ FramesOK(gr) /\ gr[1] = "docend" /\ gr \in Seq(AnyFrame)
      /\ Len(gr) = m + 1 /\ gr[m + 1] = x /\ \A f \in 1..m : gr[f] = low[f]
  BY <1>2, <1>4, FramesPush
<1>6. c \in DOMAIN cx /\ c >= 1 /\ c > Depth(fr, m) /\ cx # <<>> /\ cx[c] \in DOMAIN nds /\ Last(cx) = cx[c]
  <2>1. c >= 1 /\ c > Depth(fr, m) /\ c \in 1..c
    BY <1>1, <1>2
  <2>2. cx # <<>>
    BY <2>1, EmptySeq
  <2>3. Last(cx) = cx[c]
    BY <2>2, PopFacts
  <2> QED BY <1>1, <2>1, <2>2, <2>3 DEF Pointing
<1> HIDE DEF m, n, c, gr
<1>7. Depth(gr, m) = Depth(fr, m)
  BY <1>1, <1>5, DepthSame
<1>8. Depth(gr, Len(gr)) = c
  <2>1. Depth(gr, m + 1) = Depth(gr, m) + WidthOf(gr[m + 1])
    BY <1>1, DepthStep
  <2>2. Depth(fr, m) + WidthOf(x) = c
    BY <1>1, <1>2
  <2> QED BY <1>5, <1>7, <2>1, <2>2
<1>9. \A k \in 1..Depth(fr, m) : cx[k] \in DOMAIN nds
  <2> TAKE k \in 1..Depth(fr, m)
  <2>1. k \in 1..c
    BY <1>1, <1>6
  <2> QED BY <1>1, <2>1 DEF Pointing
<1>10. Reshaped(fr, cx, nds, gr, cx, new, m)
  BY <1>1, <1>5, <1>9 DEF Reshaped, n, Grown
<1>11. NewFits(gr, cx, new, m)
  <2>1. x \in PairFrames => c - 1 \in DOMAIN cx
    <3>1. x \in PairFrames => WidthOf(x) = 2
      BY DEF WidthOf
    <3> QED BY <1>1, <1>2, <1>6, <3>1
  <2>2. x \in PairFrames => cx[c - 1] \in DOMAIN nds
    BY <2>1 DEF Pointing
  <2>3. FrameFits(x, c, cx, new)
    BY <1>1, <1>2, <1>6, <2>2 DEF FrameFits, Grown
  <2> QED BY <1>5, <1>8, <2>3 DEF NewFits, c
<1>12. NewOwes(fr, cx, gr, cx, new, m)
  <2> SUFFICES ASSUME NEW i \in DOMAIN new
               PROVE  Pending(new[i]) <=> OwesIn(fr, cx, i, m) \/ (x \in Owing /\ cx[c] = i)
    BY <1>5 DEF NewOwes, c
  <2>1. OwesIn(fr, cx, i, m) => i \in DOMAIN nds /\ cx[c] # i
    BY <1>6, OwedElsewhere DEF m, n
  <2>2. CASE i = cx[c]
    BY <1>6, <2>1, <2>2 DEF x
  <2>3. CASE i \in DOMAIN nds /\ i # cx[c]
    <3>1. Pending(new[i]) <=> Pending(nds[i])
      BY <1>6, <2>3 DEF Grown
    <3>2. Pending(nds[i]) <=> OwesValue(fr, cx, i)
      BY <1>3, <2>3 DEF ContextFits
    <3> QED BY <1>1, <2>3, <3>1, <3>2
  <2>4. CASE i \notin DOMAIN nds
    BY <1>6, <2>1, <2>4 DEF Grown
  <2> QED BY <2>2, <2>3, <2>4
<1>13. ContextFits(gr, cx, new)
  BY <1>1, <1>3, <1>10, <1>11, <1>12, Refits
<1>14. gr[Len(gr)] # "node" /\ new # <<>>
  BY <1>2, <1>5 DEF Grown, CollectionFrames, PairFrames
<1>15. AfterNode(fr) = gr
  BY <1>2 DEF AfterNode, gr, x, low
<1> QED
  BY <1>5, <1>6, <1>13, <1>14, <1>15 DEF Agrees

\* The root is taken: a document with a node, and nothing open.
LEMMA RootTaken ==
    ASSUME NEW fr, NEW cx, NEW nds, NEW new,
           Agrees(fr, cx, nds), cx \in Seq(Nat), Last(fr) = "node",
           new # <<>>, \A i \in DOMAIN new : ~Pending(new[i])
    PROVE  cx = <<>> /\ nds = <<>> /\ Agrees(AfterNode(fr), cx, new)
<1> DEFINE n == Len(fr)
           m == n - 1
           gr == Front(fr)
<1>1. /\ fr \in Seq(AnyFrame) /\ n \in Nat \ {0} /\ m \in Nat /\ m + 1 = n /\ Last(fr) = fr[n]
      /\ \A f \in 1..m : gr[f] = fr[f]
      /\ Depth(fr, m) \in Nat /\ Depth(fr, m) + WidthOf(Last(fr)) = Len(cx)
      /\ Len(cx) \in Nat
  BY Innermost
<1>2. FramesOK(fr) /\ fr[1] = "docend" /\ ContextFits(fr, cx, nds) /\ nds = <<>>
  BY <1>1 DEF Agrees
<1>3. /\ FramesOK(gr) /\ gr[1] = "docend" /\ Len(gr) = m /\ gr[Len(gr)] # "node" /\ n >= 2
      /\ gr \in Seq(AnyFrame)
  BY <1>2, FramesPop
<1>4. n = 2
  <2>1. n \in 2..n
    BY <1>1, <1>3
  <2> QED BY <1>1, <1>2, <2>1 DEF FramesOK
<1>5. m = 1
  BY <1>4
<1>6. WidthOf("node") = 0 /\ WidthOf("docend") = 0
  BY DEF WidthOf, CollectionFrames, PairFrames
<1>7. Depth(fr, 1) = 0
  <2>1. 0 \in Nat /\ 0 + 1 = 1
    OBVIOUS
  <2>2. Depth(fr, 0) = 0 /\ Depth(fr, 1) = Depth(fr, 0) + WidthOf(fr[1])
    BY <2>1, DepthStep
  <2> QED BY <1>2, <1>6, <2>2
<1>8. Len(cx) = 0 /\ cx = <<>>
  <2>1. Len(cx) = 0
    <3>1. Depth(fr, m) = 0 /\ WidthOf(Last(fr)) = 0
      BY <1>5, <1>6, <1>7
    <3> QED BY <1>1, <3>1
  <2> QED BY <2>1, EmptySeq
<1> HIDE DEF m, n, gr
<1>9. Depth(gr, m) = 0
  BY <1>1, <1>5, <1>7, DepthSame
<1>10. Reshaped(fr, cx, nds, gr, cx, new, m)
  <2>1. 1..Depth(fr, m) = {} /\ m <= Len(fr)
    BY <1>1, <1>5, <1>7 DEF n
  <2> QED BY <1>1, <1>3, <2>1 DEF Reshaped
<1>11. NewFits(gr, cx, new, m)
  <2>1. Len(gr) # m + 1
    BY <1>1, <1>3
  <2> QED BY <1>3, <1>8, <1>9, <2>1 DEF NewFits
<1>12. NewOwes(fr, cx, gr, cx, new, m)
  <2> SUFFICES ASSUME NEW i \in DOMAIN new PROVE ~OwesIn(fr, cx, i, m) /\ Len(gr) # m + 1
    BY DEF NewOwes
  <2>1. ~OwesIn(fr, cx, i, m)
    <3>1. 1..Depth(fr, m) = {}
      BY <1>5, <1>7
    <3> QED BY <1>1, <3>1, OwesBelow
  <2>2. Len(gr) # m + 1
    BY <1>1, <1>3
  <2> QED BY <2>1, <2>2
<1>13. ContextFits(gr, cx, new)
  BY <1>1, <1>2, <1>10, <1>11, <1>12, Refits
<1>14. AfterNode(fr) = gr
  BY DEF AfterNode, gr
<1> QED
  BY <1>2, <1>3, <1>8, <1>13, <1>14 DEF Agrees

\* A collection is entered, in a frame of its own.
LEMMA CollectionEntered ==
    ASSUME NEW fr, NEW cx, NEW als, NEW nds, NEW x \in {"seq", "key"}, NEW index \in Nat,
           Agrees(fr, cx, nds), cx \in Seq(Nat), Pointing(cx, als, nds), nds # <<>>,
           ~Pending(nds[index]), \A k \in DOMAIN cx : cx[k] # index,
           nds[index].type = IF x = "seq" THEN "SEQUENCE_START" ELSE "MAPPING_START"
    PROVE  Agrees(Append(fr, x), Append(cx, index), nds)
<1> DEFINE m == Len(fr)
           gr == Append(fr, x)
           dx == Append(cx, index)
           c == Len(cx)
<1>1. /\ fr \in Seq(AnyFrame) /\ m \in Nat \ {0}
      /\ c \in Nat /\ DOMAIN cx = 1..c
  BY Innermost
<1>2. FramesOK(fr) /\ fr[1] = "docend" /\ ContextFits(fr, cx, nds) /\ fr[m] # "node"
  BY DEF Agrees
<1>3. x \in CollectionFrames /\ x \notin PairFrames /\ WidthOf(x) = 1 /\ x \notin Owing /\ x # "node"
  BY DEF CollectionFrames, PairFrames, WidthOf, Owing
<1>4. /\ FramesOK(gr) /\ gr[1] = "docend" /\ gr \in Seq(AnyFrame)
      /\ Len(gr) = m + 1 /\ gr[m + 1] = x /\ \A f \in 1..m : gr[f] = fr[f]
  BY ZenonT(60), <1>2, <1>3, FramesPush
<1>5. /\ dx \in Seq(Nat) /\ Len(dx) = c + 1 /\ dx[c + 1] = index
      /\ \A k \in 1..c : dx[k] = cx[k]
  BY PushPop
<1>6. Depth(fr, m) = c /\ m \in Nat
  BY <1>1, <1>2 DEF ContextFits
<1> HIDE DEF m, c, gr, dx
<1>7. Depth(gr, m) = c
  BY <1>4, <1>6, DepthSame
<1>8. Depth(gr, Len(gr)) = Len(dx)
  <2>1. Depth(gr, m + 1) = Depth(gr, m) + WidthOf(gr[m + 1])
    BY <1>6, DepthStep
  <2> QED BY <1>3, <1>4, <1>5, <1>7, <2>1
<1>9. Reshaped(fr, cx, nds, gr, dx, nds, m)
  <2>1. m <= Len(fr)
    BY <1>1 DEF m
  <2> QED BY <1>1, <1>4, <1>5, <1>6, <2>1 DEF Reshaped
<1>10. NewFits(gr, dx, nds, m)
  <2>1. FrameFits(x, Len(dx), dx, nds)
    BY <1>3, <1>5 DEF FrameFits
  <2> QED BY <1>4, <1>8, <2>1 DEF NewFits
<1>11. NewOwes(fr, cx, gr, dx, nds, m)
  <2> SUFFICES ASSUME NEW i \in DOMAIN nds PROVE Pending(nds[i]) <=> OwesIn(fr, cx, i, m)
    BY <1>3, <1>4 DEF NewOwes
  <2>1. Pending(nds[i]) <=> OwesValue(fr, cx, i)
    BY <1>2 DEF ContextFits
  <2>2. DOMAIN fr = 1..m
    BY <1>1, LenProperties DEF m
  <2> QED BY <2>1, <2>2 DEF OwesValue, OwesIn, Owing
<1>12. ContextFits(gr, dx, nds)
  BY <1>2, <1>6, <1>9, <1>10, <1>11, Refits
<1>13. gr[Len(gr)] # "node"
  BY <1>3, <1>4
<1> QED
  BY <1>4, <1>12, <1>13 DEF Agrees, gr, dx

\* A mapping of one pair is entered: it shares the frame of its sequence.
LEMMA PairEntered ==
    ASSUME NEW fr, NEW cx, NEW nds, NEW index \in Nat,
           Agrees(fr, cx, nds), cx \in Seq(Nat), nds # <<>>, Last(fr) = "seq",
           nds[index].type = "MAPPING_START"
    PROVE  Agrees(Append(Front(fr), "pairkey"), Append(cx, index), nds)
<1> DEFINE n == Len(fr)
           m == n - 1
           low == Front(fr)
           x == "pairkey"
           gr == Append(low, x)
           dx == Append(cx, index)
           c == Len(cx)
<1>1. /\ fr \in Seq(AnyFrame) /\ n \in Nat \ {0} /\ m \in Nat /\ m + 1 = n
      /\ \A f \in 1..m : low[f] = fr[f]
      /\ Depth(fr, m) \in Nat /\ Depth(fr, m) + WidthOf(Last(fr)) = c
      /\ c \in Nat /\ DOMAIN cx = 1..c
      /\ FrameFits(Last(fr), c, cx, nds)
      /\ \A i : OwesValue(fr, cx, i) <=> \/ OwesIn(fr, cx, i, m)
                                         \/ Last(fr) \in Owing /\ cx[c] = i
  BY Innermost
<1>2. FramesOK(fr) /\ fr[1] = "docend" /\ ContextFits(fr, cx, nds)
  BY DEF Agrees
<1>3. /\ x \in CollectionFrames /\ x \in PairFrames /\ WidthOf(x) = 2 /\ x \notin Owing
      /\ x # "node" /\ x # "seq"
      /\ WidthOf("seq") = 1 /\ "seq" \notin Owing /\ "seq" \in CollectionFrames
  BY DEF CollectionFrames, PairFrames, WidthOf, Owing
<1>4. /\ FramesOK(low) /\ low[1] = "docend" /\ Len(low) = m /\ low[Len(low)] # "node"
  BY <1>2, FramesPop
<1> HIDE DEF low, x
<1>5. /\ FramesOK(gr) /\ gr[1] = "docend" /\ gr \in Seq(AnyFrame)
      /\ Len(gr) = m + 1 /\ gr[m + 1] = x /\ \A f \in 1..m : gr[f] = low[f]
  BY <1>3, <1>4, FramesPush
<1>6. /\ dx \in Seq(Nat) /\ Len(dx) = c + 1 /\ dx[c + 1] = index
      /\ \A k \in 1..c : dx[k] = cx[k]
  BY PushPop
<1> HIDE DEF m, n, c, gr, dx
<1>7. Depth(fr, m) + 1 = c /\ c \in 1..c /\ (c + 1) - 1 = c
  BY <1>1, <1>3
<1>8. Depth(gr, m) = Depth(fr, m)
  BY <1>1, <1>5, DepthSame
<1>9. Depth(gr, Len(gr)) = Len(dx)
  <2>1. Depth(gr, m + 1) = Depth(gr, m) + WidthOf(gr[m + 1])
    BY <1>1, DepthStep
  <2> QED BY <1>1, <1>3, <1>5, <1>6, <1>7, <1>8, <2>1
<1>10. Reshaped(fr, cx, nds, gr, dx, nds, m)
  <2>1. 1..Depth(fr, m) \subseteq 1..c /\ m <= Len(fr)
    BY <1>1, <1>7 DEF n
  <2> QED BY <1>1, <1>5, <1>6, <2>1 DEF Reshaped
<1>11. NewFits(gr, dx, nds, m)
  <2>1. dx[c] = cx[c] /\ nds[cx[c]].type = "SEQUENCE_START"
    BY <1>1, <1>3, <1>6, <1>7 DEF FrameFits
  <2>2. FrameFits(x, c + 1, dx, nds)
    BY <1>3, <1>6, <1>7, <2>1 DEF FrameFits
  <2> QED BY <1>5, <1>6, <1>9, <2>2 DEF NewFits
<1>12. NewOwes(fr, cx, gr, dx, nds, m)
  <2> SUFFICES ASSUME NEW i \in DOMAIN nds PROVE Pending(nds[i]) <=> OwesIn(fr, cx, i, m)
    BY <1>3, <1>5 DEF NewOwes
  <2>1. Pending(nds[i]) <=> OwesValue(fr, cx, i)
    BY <1>2 DEF ContextFits
  <2> QED BY <1>1, <1>3, <2>1
<1>13. ContextFits(gr, dx, nds)
  BY <1>1, <1>2, <1>10, <1>11, <1>12, Refits
<1>14. gr[Len(gr)] # "node"
  BY <1>3, <1>5
<1> QED
  BY <1>5, <1>13, <1>14 DEF Agrees, gr, dx, x, low

\* The context without its last element.
LEMMA ContextPop ==
    ASSUME NEW cx \in Seq(Nat), Len(cx) >= 1
    PROVE  /\ cx # <<>> /\ Last(cx) = cx[Len(cx)]
           /\ Front(cx) \in Seq(Nat) /\ Len(Front(cx)) = Len(cx) - 1
           /\ \A k \in 1..(Len(cx) - 1) : Front(cx)[k] = cx[k]
<1>1. cx # <<>>
  BY EmptySeq
<1> QED
  BY <1>1, PopFacts

\* A collection with a frame of its own ends.
LEMMA CollectionLeft ==
    ASSUME NEW fr, NEW cx, NEW nds,
           Agrees(fr, cx, nds), cx \in Seq(Nat), Last(fr) \in {"seq", "key"}
    PROVE  /\ cx # <<>>
           /\ nds[Last(cx)].type = IF Last(fr) = "seq" THEN "SEQUENCE_START" ELSE "MAPPING_START"
           /\ Agrees(Front(fr), Front(cx), nds)
<1> DEFINE n == Len(fr)
           m == n - 1
           gr == Front(fr)
           dx == Front(cx)
           c == Len(cx)
           top == Last(fr)
<1>1. /\ fr \in Seq(AnyFrame) /\ n \in Nat \ {0} /\ m \in Nat /\ m + 1 = n /\ top = fr[n]
      /\ \A f \in 1..m : gr[f] = fr[f]
      /\ Depth(fr, m) \in Nat /\ Depth(fr, m) + WidthOf(top) = c
      /\ c \in Nat /\ DOMAIN cx = 1..c
      /\ FrameFits(top, c, cx, nds)
      /\ \A i : OwesValue(fr, cx, i) <=> \/ OwesIn(fr, cx, i, m)
                                         \/ top \in Owing /\ cx[c] = i
  BY Innermost
<1>2. FramesOK(fr) /\ fr[1] = "docend" /\ ContextFits(fr, cx, nds)
  BY DEF Agrees
<1>3. /\ top \in CollectionFrames /\ WidthOf(top) = 1 /\ top \notin Owing /\ top # "node"
      /\ top # "docend"
  BY DEF CollectionFrames, PairFrames, WidthOf, Owing
<1>4. /\ FramesOK(gr) /\ gr[1] = "docend" /\ Len(gr) = m /\ gr[Len(gr)] # "node"
      /\ gr \in Seq(AnyFrame)
  BY <1>2, <1>3, FramesPop
<1>5. nds # <<>>
  BY <1>1, <1>3 DEF Agrees
<1>6. Depth(fr, m) = c - 1 /\ c >= 1
  BY <1>1, <1>3
<1>7. /\ cx # <<>> /\ Last(cx) = cx[c] /\ dx \in Seq(Nat) /\ Len(dx) = c - 1
      /\ \A k \in 1..(c - 1) : dx[k] = cx[k]
  BY <1>6, ContextPop
<1>8. nds[Last(cx)].type = IF top = "seq" THEN "SEQUENCE_START" ELSE "MAPPING_START"
  BY <1>1, <1>3, <1>7 DEF FrameFits
<1> HIDE DEF m, n, c, gr, dx, top
<1>9. Depth(gr, m) = Depth(fr, m)
  BY <1>1, DepthSame
<1>10. Reshaped(fr, cx, nds, gr, dx, nds, m)
  <2>1. m <= Len(fr)
    BY <1>1 DEF n
  <2> QED BY <1>1, <1>4, <1>6, <1>7, <2>1 DEF Reshaped
<1>11. Len(gr) # m + 1
  BY <1>1, <1>4
<1>12. NewFits(gr, dx, nds, m)
  BY <1>4, <1>6, <1>7, <1>9, <1>11 DEF NewFits
<1>13. NewOwes(fr, cx, gr, dx, nds, m)
  <2> SUFFICES ASSUME NEW i \in DOMAIN nds PROVE Pending(nds[i]) <=> OwesIn(fr, cx, i, m)
    BY <1>11 DEF NewOwes
  <2>1. Pending(nds[i]) <=> OwesValue(fr, cx, i)
    BY <1>2 DEF ContextFits
  <2> QED BY <1>1, <1>3, <2>1
<1>14. ContextFits(gr, dx, nds)
  BY <1>1, <1>2, <1>10, <1>12, <1>13, Refits
<1> QED
  BY <1>4, <1>5, <1>7, <1>8, <1>14 DEF Agrees, gr, dx, top

\* The mapping of one pair ends: its sequence has the frame for itself again.
LEMMA PairLeft ==
    ASSUME NEW fr, NEW cx, NEW nds,
           Agrees(fr, cx, nds), cx \in Seq(Nat), Last(fr) = "pairend"
    PROVE  /\ cx # <<>> /\ nds[Last(cx)].type = "MAPPING_START"
           /\ Agrees(Append(Front(fr), "seq"), Front(cx), nds)
<1> DEFINE n == Len(fr)
           m == n - 1
           low == Front(fr)
           x == "seq"
           gr == Append(low, x)
           dx == Front(cx)
           c == Len(cx)
           top == Last(fr)
<1>1. /\ fr \in Seq(AnyFrame) /\ n \in Nat \ {0} /\ m \in Nat /\ m + 1 = n /\ top = fr[n]
      /\ \A f \in 1..m : low[f] = fr[f]
      /\ Depth(fr, m) \in Nat /\ Depth(fr, m) + WidthOf(top) = c
      /\ c \in Nat /\ DOMAIN cx = 1..c
      /\ FrameFits(top, c, cx, nds)
      /\ \A i : OwesValue(fr, cx, i) <=> \/ OwesIn(fr, cx, i, m)
                                         \/ top \in Owing /\ cx[c] = i
  BY Innermost
<1>2. FramesOK(fr) /\ fr[1] = "docend" /\ ContextFits(fr, cx, nds)
  BY DEF Agrees
<1>3. /\ top \in CollectionFrames /\ top \in PairFrames /\ WidthOf(top) = 2 /\ top \notin Owing
      /\ top # "node" /\ top # "docend" /\ top # "seq"
      /\ WidthOf(x) = 1 /\ x \notin Owing /\ x \in CollectionFrames /\ x \notin PairFrames /\ x # "node"
  BY DEF CollectionFrames, PairFrames, WidthOf, Owing
<1>4. /\ FramesOK(low) /\ low[1] = "docend" /\ Len(low) = m /\ low[Len(low)] # "node"
  BY <1>2, <1>3, FramesPop
<1>5. nds # <<>>
  BY <1>1, <1>3 DEF Agrees
<1> HIDE DEF low, top
<1>6. Depth(fr, m) = c - 2 /\ c >= 2 /\ c >= 1 /\ c - 1 \in 1..(c - 1) /\ (c - 2) + 1 = c - 1
  BY <1>1, <1>3
<1>7. /\ cx # <<>> /\ Last(cx) = cx[c] /\ dx \in Seq(Nat) /\ Len(dx) = c - 1
      /\ \A k \in 1..(c - 1) : dx[k] = cx[k]
  BY <1>6, ContextPop
<1>8. nds[Last(cx)].type = "MAPPING_START" /\ nds[cx[c - 1]].type = "SEQUENCE_START"
  BY <1>1, <1>3, <1>7 DEF FrameFits
<1> HIDE DEF x
<1>9. /\ FramesOK(gr) /\ gr[1] = "docend" /\ gr \in Seq(AnyFrame)
      /\ Len(gr) = m + 1 /\ gr[m + 1] = x /\ \A f \in 1..m : gr[f] = low[f]
  BY <1>3, <1>4, FramesPush
<1> HIDE DEF m, n, c, gr, dx
<1>10. Depth(gr, m) = Depth(fr, m)
  BY <1>1, <1>9, DepthSame
<1>11. Depth(gr, Len(gr)) = Len(dx)
  <2>1. Depth(gr, m + 1) = Depth(gr, m) + WidthOf(gr[m + 1])
    BY <1>1, DepthStep
  <2> QED BY <1>3, <1>6, <1>7, <1>9, <1>10, <2>1
<1>12. Reshaped(fr, cx, nds, gr, dx, nds, m)
  <2>1. m <= Len(fr) /\ 1..Depth(fr, m) \subseteq 1..(c - 1)
    BY <1>1, <1>6 DEF n
  <2> QED BY <1>1, <1>7, <1>9, <2>1 DEF Reshaped
<1>13. NewFits(gr, dx, nds, m)
  <2>1. FrameFits(x, c - 1, dx, nds)
    BY <1>3, <1>6, <1>7, <1>8 DEF FrameFits, x
  <2> QED BY <1>7, <1>9, <1>11, <2>1 DEF NewFits
<1>14. NewOwes(fr, cx, gr, dx, nds, m)
  <2> SUFFICES ASSUME NEW i \in DOMAIN nds PROVE Pending(nds[i]) <=> OwesIn(fr, cx, i, m)
    BY <1>3, <1>9 DEF NewOwes
  <2>1. Pending(nds[i]) <=> OwesValue(fr, cx, i)
    BY <1>2 DEF ContextFits
  <2> QED BY <1>1, <1>3, <2>1
<1>15. ContextFits(gr, dx, nds)
  BY <1>1, <1>2, <1>12, <1>13, <1>14, Refits
<1>16. gr[Len(gr)] # "node"
  BY <1>3, <1>9
<1> QED
  BY <1>5, <1>7, <1>8, <1>9, <1>15, <1>16 DEF Agrees, gr, dx, low, x

\* The document ends when nothing is open, and no pair lacks its value then.
LEMMA DocumentDone ==
    ASSUME NEW fr, NEW cx, NEW nds,
           Agrees(fr, cx, nds), cx \in Seq(Nat), Last(fr) = "docend"
    PROVE  /\ cx = <<>> /\ nds # <<>> /\ \A i \in DOMAIN nds : ~Pending(nds[i])
           /\ Append(Front(fr), "docs") = <<"docs">>
<1> DEFINE n == Len(fr)
           m == n - 1
<1>1. /\ fr \in Seq(AnyFrame) /\ n \in Nat \ {0} /\ m \in Nat /\ m + 1 = n /\ Last(fr) = fr[n]
      /\ Front(fr) \in Seq(AnyFrame) /\ Len(Front(fr)) = m
      /\ Depth(fr, m) \in Nat /\ Depth(fr, m) + WidthOf(Last(fr)) = Len(cx)
      /\ Len(cx) \in Nat
      /\ \A i : OwesValue(fr, cx, i) <=> \/ OwesIn(fr, cx, i, m)
                                         \/ Last(fr) \in Owing /\ cx[Len(cx)] = i
  BY Innermost
<1>2. /\ "docend" \notin Inner /\ WidthOf("docend") = 0 /\ "docend" \notin Owing
      /\ "docend" # "node"
  BY DEF Inner, CollectionFrames, PairFrames, WidthOf, Owing
<1>3. n = 1
  <2>1. n \notin 2..n
    BY <1>1, <1>2 DEF Agrees, FramesOK
  <2> QED BY <1>1, <2>1
<1>4. m = 0 /\ Depth(fr, 0) = 0
  <2>1. Depth(fr, 0) = 0
    BY <1>1, DepthStep
  <2> QED BY <1>3, <2>1
<1>5. Len(cx) = 0
  <2>1. Depth(fr, m) = 0 /\ WidthOf(Last(fr)) = 0
    BY <1>2, <1>4
  <2> QED BY <1>1, <2>1
<1>6. cx = <<>>
  BY <1>5, EmptySeq
<1>7. nds # <<>>
  BY <1>1, <1>2 DEF Agrees
<1>8. ASSUME NEW i \in DOMAIN nds PROVE ~Pending(nds[i])
  <2> HIDE DEF m, n
  <2>1. ~OwesIn(fr, cx, i, m)
    <3>1. 1..0 = {}
      OBVIOUS
    <3> QED BY <1>4, <3>1 DEF OwesIn
  <2>2. ~OwesValue(fr, cx, i)
    BY <1>1, <1>2, <2>1
  <2> QED BY <2>2 DEF Agrees, ContextFits
<1>9. Front(fr) = <<>>
  BY <1>1, <1>4, EmptySeq
<1>10. Append(<<>>, "docs") = <<"docs">>
  OBVIOUS
<1> QED
  BY <1>6, <1>7, <1>8, <1>9, <1>10

\* A document that has just begun.
LEMMA DocumentBegun ==
    Agrees(<<"docend", "node">>, <<>>, <<>>)
<1> DEFINE fr == <<"docend", "node">>
<1>1. "docend" \in Outer /\ "node" \in Inner /\ "docend" # "node" /\ "docend" \in AnyFrame /\ "node" \in AnyFrame
  BY DEF Outer, Inner, AnyFrame
<1>2. fr \in Seq(AnyFrame) /\ Len(fr) = 2 /\ fr[1] = "docend" /\ fr[2] = "node" /\ DOMAIN fr = 1..2
  BY <1>1
<1> HIDE DEF fr
<1>3. \A f \in 2..2 : f = 2
  OBVIOUS
<1>4. FramesOK(fr)
  BY <1>1, <1>2, <1>3 DEF FramesOK, AnyFrame
<1>5. WidthOf("node") = 0 /\ WidthOf("docend") = 0
  BY DEF WidthOf, CollectionFrames, PairFrames
<1>6. Depth(fr, 2) = 0
  <2>1. Depth(fr, 0) = 0 /\ Depth(fr, 0 + 1) = Depth(fr, 0) + WidthOf(fr[0 + 1])
        /\ Depth(fr, 1 + 1) = Depth(fr, 1) + WidthOf(fr[1 + 1])
    BY DepthStep
  <2>2. 0 + 1 = 1 /\ 1 + 1 = 2
    OBVIOUS
  <2> QED BY <1>2, <1>5, <2>1, <2>2
<1>7. \A f \in 1..2 : fr[f] \notin CollectionFrames /\ fr[f] \notin PairFrames
  <2>1. \A f \in 1..2 : f = 1 \/ f = 2
    OBVIOUS
  <2> QED BY <1>2, <2>1 DEF CollectionFrames, PairFrames
<1>8. Len(<<>>) = 0 /\ DOMAIN <<>> = {}
  OBVIOUS
<1>9. ContextFits(fr, <<>>, <<>>)
  BY <1>2, <1>6, <1>7, <1>8 DEF ContextFits, FrameFits
<1> QED
  BY <1>2, <1>4, <1>9 DEF Agrees, fr

-----------------------------------------------------------------------------
(* The events of the stream.                                               *)

\* The innermost frame of a document is the document's own, or one of a node.
LEMMA InnermostFrame ==
    ASSUME NEW fr, FramesOK(fr)
    PROVE  /\ fr \in Seq(AnyFrame) /\ fr # <<>> /\ Len(fr) \in Nat /\ Len(fr) >= 1
           /\ Last(fr) = fr[Len(fr)]
           /\ fr[1] = "docend" => Last(fr) = "docend" \/ Last(fr) \in Inner
           /\ Last(fr) \in Outer => Front(fr) = <<>> /\ fr = <<Last(fr)>>
           /\ fr[1] # "docend" => Last(fr) \in Outer
<1> DEFINE n == Len(fr)
<1>1. fr \in Seq(AnyFrame) /\ n \in Nat /\ n >= 1
  BY LenProperties DEF FramesOK, AnyFrame
<1>2. fr # <<>>
  BY <1>1, EmptySeq
<1>3. Last(fr) = fr[n] /\ Front(fr) \in Seq(AnyFrame) /\ Len(Front(fr)) = n - 1
  BY <1>1, <1>2, PopFacts
<1>4. fr = Append(Front(fr), Last(fr))
  BY <1>1, <1>2, PopPush
<1> HIDE DEF n
<1>5. n = 1 \/ n \in 2..n
  BY <1>1
<1>6. Outer \cap Inner = {}
  BY DEF Outer, Inner, CollectionFrames, PairFrames
<1>7. /\ fr[1] \in Outer /\ (n >= 2 => fr[1] = "docend")
      /\ \A f \in 2..n : fr[f] \in Inner
  BY DEF FramesOK, n
<1>8. Last(fr) \in Outer => n = 1
  BY <1>3, <1>5, <1>6, <1>7
<1>9. n = 1 => Front(fr) = <<>>
  BY <1>3, EmptySeq
<1>10. \A x : Append(<<>>, x) = <<x>>
  OBVIOUS
<1>11. n = 1 => fr = <<Last(fr)>>
  BY <1>4, <1>9, <1>10
<1>12. fr[1] # "docend" => n = 1
  BY <1>1, <1>7
<1> QED
  BY <1>1, <1>2, <1>3, <1>5, <1>7, <1>8, <1>9, <1>11, <1>12 DEF n

\* Within a document an event is one of those that the loader handles.
LEMMA EventWithin ==
    ASSUME FramesOK(frames), frames[1] = "docend", StreamEvent
    PROVE  Stepped(frames, frames', event')
<1> DEFINE top == Last(frames)
<1>1. top = "docend" \/ top \in Inner
  BY InnermostFrame
<1>2. top # "stream" /\ top # "docs"
  BY <1>1 DEF Inner, CollectionFrames, PairFrames
<1> HIDE DEF top
<1>3. CASE StreamStart
  BY <1>2, <1>3 DEF StreamStart, Replace, top
<1>4. CASE StreamEnd
  BY <1>2, <1>4 DEF StreamEnd, Replace, top
<1>5. CASE DocumentStart
  BY <1>2, <1>5 DEF DocumentStart, Replace, top
<1>6. CASE DocumentEnd
  BY <1>6 DEF DocumentEnd, Replace, Stepped
<1>7. CASE Leaf
  BY <1>7 DEF Leaf, Stepped
<1>8. CASE CollectionStart
  BY <1>8 DEF CollectionStart, Stepped
<1>9. CASE CollectionEnd
  BY <1>9 DEF CollectionEnd, Stepped
<1>10. CASE PairStart
  BY <1>10 DEF PairStart, Replace, Stepped
<1>11. CASE PairEnd
  BY <1>11 DEF PairEnd, Replace, Stepped
<1> QED
  BY <1>3, <1>4, <1>5, <1>6, <1>7, <1>8, <1>9, <1>10, <1>11 DEF StreamEvent

\* What an event of a document leaves open are the frames of a stream again.
LEMMA FramesStepped ==
    ASSUME NEW fr, NEW gr, NEW e, FramesOK(fr), fr[1] = "docend", Stepped(fr, gr, e)
    PROVE  FramesOK(gr)
<1> DEFINE top == Last(fr)
           low == Front(fr)
<1>0. FramesOK(<<"docs">>)
  <2>1. "docs" \in Outer /\ <<"docs">> \in Seq(Outer \cup Inner)
    BY DEF Outer
  <2>2. Len(<<"docs">>) = 1 /\ <<"docs">>[1] = "docs" /\ 2..1 = {}
    OBVIOUS
  <2> QED BY <2>1, <2>2 DEF FramesOK
<1>1. CASE top = "docend"
  <2>1. top \notin NodeFrames /\ top \notin {"seq", "key", "pairend"} /\ top \in Outer
    BY <1>1 DEF NodeFrames, Outer
  <2>2. gr = Append(low, "docs") /\ low = <<>>
    BY <1>1, <2>1, InnermostFrame DEF Stepped
  <2>3. Append(<<>>, "docs") = <<"docs">>
    OBVIOUS
  <2> QED BY <1>0, <2>2, <2>3
<1>2. CASE top # "docend"
  <2>1. FramesOK(low) /\ low[1] = "docend" /\ low[Len(low)] # "node"
    BY <1>2, FramesPop
  <2>2. \A x \in CollectionFrames : FramesOK(Append(low, x))
    BY <2>1, FramesPush
  <2>3. {"seq", "key", "pairkey"} \subseteq CollectionFrames /\ "docend" \notin CollectionFrames
    BY DEF CollectionFrames, PairFrames
  <2>4. top \in NodeFrames =>
           /\ FramesOK(AfterNode(fr)) /\ AfterNode(fr)[1] = "docend"
           /\ AfterNode(fr)[Len(AfterNode(fr))] # "node"
    <3>1. CASE top = "node"
      BY <2>1, <3>1 DEF AfterNode
    <3>2. CASE top # "node" /\ top \in NodeFrames
      <4>1. Followed(top) \in CollectionFrames /\ Followed(top) # "node"
        BY DEF Followed, CollectionFrames, PairFrames
      <4>2. AfterNode(fr) = Append(low, Followed(top))
        BY <3>2 DEF AfterNode
      <4> HIDE DEF low, top
      <4>3. \A x \in CollectionFrames :
               /\ FramesOK(Append(low, x)) /\ Append(low, x)[1] = "docend"
               /\ Len(Append(low, x)) = Len(low) + 1 /\ Append(low, x)[Len(low) + 1] = x
        BY <2>1, FramesPush
      <4> QED BY <4>1, <4>2, <4>3
    <3> QED BY <3>1, <3>2
  <2>5. top \in NodeFrames => \A x \in CollectionFrames : FramesOK(Append(AfterNode(fr), x))
    BY <2>4, FramesPush
  <2> QED BY <1>2, <2>1, <2>2, <2>3, <2>4, <2>5 DEF Stepped
<1> QED BY <1>1, <1>2

\* Appending to a stack of one frame.
LEMMA TwoSeq ==
    ASSUME NEW x \in AnyFrame, NEW y \in AnyFrame
    PROVE  Append(<<x>>, y) = <<x, y>>
<1> DEFINE s == Append(<<x>>, y)
           t == <<x, y>>
<1>1. <<x>> \in Seq(AnyFrame) /\ Len(<<x>>) = 1 /\ <<x>>[1] = x
  OBVIOUS
<1>2. s \in Seq(AnyFrame) /\ Len(s) = 2 /\ s[1] = x /\ s[2] = y
  BY <1>1
<1>3. t \in Seq(AnyFrame) /\ Len(t) = 2 /\ t[1] = x /\ t[2] = y
  OBVIOUS
<1> HIDE DEF s, t
<1>4. \A i \in 1..Len(s) : i = 1 \/ i = 2
  BY <1>2
<1>5. \A i \in 1..Len(s) : s[i] = t[i]
  BY <1>2, <1>3, <1>4
<1>6. s = t
  BY <1>2, <1>3, <1>5, SeqEqual
<1> QED BY <1>6 DEF s, t

\* Between documents an event begins the stream, a document, or ends the stream.
LEMMA EventOutside ==
    ASSUME FramesOK(frames), frames[1] # "docend", StreamEvent
    PROVE  \/ frames = <<"stream">> /\ event' = "STREAM_START" /\ frames' = <<"docs">>
           \/ frames = <<"docs">> /\ event' = "STREAM_END" /\ frames' = <<"done">>
           \/ /\ frames = <<"docs">> /\ event' = "DOCUMENT_START"
              /\ frames' = <<"docend", "node">>
<1> DEFINE top == Last(frames)
<1>1. top \in Outer /\ Front(frames) = <<>> /\ frames = <<top>>
  BY InnermostFrame
<1>2. frames[1] = top
  <2>1. <<top>>[1] = top
    OBVIOUS
  <2> QED BY <1>1, <2>1
<1>3. top \notin NodeFrames /\ top \notin {"seq", "key", "pairend", "docend"}
  BY <1>1, <1>2 DEF Outer, NodeFrames
<1>4. /\ \A x : Append(<<>>, x) = <<x>>
      /\ Append(<<"docend">>, "node") = <<"docend", "node">>
  <2>1. \A x : Append(<<>>, x) = <<x>>
    OBVIOUS
  <2>2. Append(<<"docend">>, "node") = <<"docend", "node">>
    BY TwoSeq DEF AnyFrame, Outer, Inner
  <2> QED BY <2>1, <2>2
<1> QED
  BY <1>1, <1>3, <1>4 DEF StreamEvent, StreamStart, StreamEnd, DocumentStart, DocumentEnd,
     Replace, Leaf, CollectionStart, CollectionEnd, PairStart, PairEnd

\* The frames of a stream stay what they are.
LEMMA FramesStep ==
    ASSUME FramesOK(frames), StreamEvent
    PROVE  FramesOK(frames')
<1>1. CASE frames[1] = "docend"
  BY <1>1, EventWithin, FramesStepped
<1>2. CASE frames[1] # "docend"
  <2>1. FramesOK(<<"docend", "node">>)
    BY DocumentBegun DEF Agrees
  <2>2. \A x \in Outer : FramesOK(<<x>>)
    <3> TAKE x \in Outer
    <3>1. <<x>> \in Seq(Outer \cup Inner) /\ Len(<<x>>) = 1 /\ <<x>>[1] = x /\ 2..1 = {}
      OBVIOUS
    <3> QED BY <3>1 DEF FramesOK
  <2>3. "docs" \in Outer /\ "done" \in Outer
    BY DEF Outer
  <2> QED BY <1>2, <2>1, <2>2, <2>3, EventOutside
<1> QED BY <1>1, <1>2

-----------------------------------------------------------------------------
(* What is allocated, and a call that fails.                               *)

\* What the event brought.
Received(e, c, n) == c \in Carriable(e) /\ n \in 0..MaxEvents /\ (e # "NO" => n >= 1)

\* What load_error can rely on: freed and what the document owns are
\* allocated and have nothing in common, and the rest belongs to the call.
Accounted(freed, nds, dirs, als, hp) ==
    /\ freed \subseteq hp
    /\ DocumentOwns(nds, dirs) \subseteq hp
    /\ DocumentOwns(nds, dirs) \cap freed = {}
    /\ DocumentOwns(nds, dirs) \cap Kept(als) = {}
    /\ hp \subseteq freed \cup DocumentOwns(nds, dirs) \cup Kept(als)

\* Nothing is left of a call that fails.
LEMMA LoadErrorKeeps ==
    ASSUME NEW err \in {"NO", "MEMORY", "COMPOSER"},
           NEW freed, NEW nds, NEW dirs, NEW als, NEW hp,
           load_error(err, freed, nds, dirs, als, hp),
           Accounted(freed, nds, dirs, als, hp), bad_free = FALSE,
           FramesOK(frames'), Received(event', carried', parsed')
    PROVE  Inv'
<1>1. /\ error' = err /\ nodes' = <<>> /\ directives' = {} /\ ctx' = <<>> /\ aliases' = <<>>
      /\ pc' = "idle" /\ result' = "FAIL"
  BY DEF load_error
<1>2. heap' = {}
  BY DEF load_error, Accounted, Kept
<1>3. bad_free' = FALSE
  <2>1. freed \subseteq hp
    BY DEF Accounted
  <2>2. DocumentOwns(nds, dirs) \subseteq
           hp \ (freed \cup (hp \cap ({<<0, "ctx">>} \cup AliasesOwn(als))))
    BY DEF Accounted, Kept
  <2>3. bad_free' = (bad_free \/ ~(freed \subseteq hp)
                     \/ ~(DocumentOwns(nds, dirs) \subseteq
                            hp \ (freed \cup (hp \cap ({<<0, "ctx">>} \cup AliasesOwn(als))))))
    BY DEF load_error
  <2> HIDE DEF load_error
  <2> QED BY <2>1, <2>2, <2>3, Zenon
<1>4. DOMAIN <<>> = {} /\ Len(<<>>) = 0
  OBVIOUS
<1>5. Typed'
  <2>1. 0 <= StackLimit
    BY LoaderAssumption
  <2>2. <<>> \in Seq(Node) /\ <<>> \in Seq(1..StackLimit) /\ <<>> \in Seq(Alias)
    OBVIOUS
  <2>3. bad_free' \in BOOLEAN
    BY <1>3, Zenon
  <2>4. /\ carried' \in Carriable(event') /\ parsed' \in 0..MaxEvents
        /\ event' # "NO" => parsed' >= 1
    BY DEF Received
  <2>5. /\ error' \in {"NO", "MEMORY", "COMPOSER"} /\ result' \in {"none", "OK", "FAIL"}
        /\ nodes' \in Seq(Node) /\ Len(nodes') <= StackLimit
        /\ ctx' \in Seq(1..StackLimit) /\ aliases' \in Seq(Alias)
    BY <1>1, <1>4, <2>1, <2>2
  <2> QED BY <2>3, <2>4, <2>5, Zenon DEF Typed
<1>6. Linked(nodes') /\ Pointing(ctx', aliases', nodes')
  BY <1>1, <1>4 DEF Linked, Pointing
<1>7. Control'
  BY <1>1 DEF Control, Loading
<1>8. Fresh'
  BY <1>1, <1>4 DEF Fresh
<1>9. Accounts'
  BY <1>1, <1>2, <1>3 DEF Accounts, Loading
<1> QED
  BY <1>5, <1>6, <1>7, <1>8, <1>9 DEF Inv

\* What is allocated is told apart by the event it came with and its place in it.
LEMMA BlockNames ==
    ASSUME NEW n, NEW p, NEW m, NEW q, <<n, p>> = <<m, q>>
    PROVE  n = m /\ p = q
OBVIOUS

NodeParts == {"anchor", "tag", "default tag", "value", "children"}
Directives(dirs) == \A b \in dirs : \E n \in 0..parsed : b = <<n, "directives">>

\* What belongs to a document.
LEMMA DocumentBlocks ==
    ASSUME NEW nds, NEW dirs, NEW b \in DocumentOwns(nds, dirs), Directives(dirs)
    PROVE  \/ b = <<0, "nodes">>
           \/ \E n \in 0..parsed : b = <<n, "directives">>
           \/ \E i \in DOMAIN nds : \E p \in NodeParts \ {"anchor"} : b = <<nds[i].from, p>>
<1>1. CASE b = <<0, "nodes">>
  BY <1>1
<1>2. CASE b \in dirs
  BY <1>2 DEF Directives
<1>3. CASE \E i \in DOMAIN nds : b \in NodeOwns(nds[i])
  <2>1. PICK i \in DOMAIN nds : b \in NodeOwns(nds[i])
    BY <1>3
  <2>2. \E p \in NodeParts \ {"anchor"} : b = <<nds[i].from, p>>
    BY <2>1 DEF NodeOwns, NodeParts
  <2> QED BY <2>2
<1> QED
  BY <1>1, <1>2, <1>3 DEF DocumentOwns

\* The document shares nothing with the call, and has nothing of an event that
\* came after those of its nodes.
LEMMA DocumentApart ==
    ASSUME NEW nds, NEW dirs, NEW als, Directives(dirs)
    PROVE  /\ DocumentOwns(nds, dirs) \cap Kept(als) = {}
           /\ \A n, p : /\ p \in NodeParts
                        /\ <<n, p>> \in DocumentOwns(nds, dirs)
                        => \E i \in DOMAIN nds : nds[i].from = n
<1>1. ASSUME NEW b \in DocumentOwns(nds, dirs), b \in Kept(als)
      PROVE  FALSE
  <2>1. \/ b = <<0, "nodes">>
        \/ \E n \in 0..parsed : b = <<n, "directives">>
        \/ \E i \in DOMAIN nds : \E p \in NodeParts \ {"anchor"} : b = <<nds[i].from, p>>
    BY DocumentBlocks
  <2>2. \E n, p : b = <<n, p>> /\ p \in {"ctx", "aliases", "anchor"}
    BY <1>1 DEF Kept, AliasesOwn
  <2>3. \E n, p : b = <<n, p>> /\ p \in {"nodes", "directives"} \cup (NodeParts \ {"anchor"})
    BY <2>1
  <2>4. PICK n, p : b = <<n, p>> /\ p \in {"ctx", "aliases", "anchor"}
    BY <2>2
  <2>5. PICK m, q : b = <<m, q>> /\ q \in {"nodes", "directives"} \cup (NodeParts \ {"anchor"})
    BY <2>3
  <2>6. p = q
    BY <2>4, <2>5, BlockNames
  <2> QED BY <2>4, <2>5, <2>6 DEF NodeParts
<1>2. ASSUME NEW n, NEW p \in NodeParts, <<n, p>> \in DocumentOwns(nds, dirs)
      PROVE  \E i \in DOMAIN nds : nds[i].from = n
  <2>1. \/ <<n, p>> = <<0, "nodes">>
        \/ \E m \in 0..parsed : <<n, p>> = <<m, "directives">>
        \/ \E i \in DOMAIN nds : \E q \in NodeParts \ {"anchor"} : <<n, p>> = <<nds[i].from, q>>
    BY <1>2, DocumentBlocks
  <2>2. p # "nodes" /\ p # "directives"
    BY DEF NodeParts
  <2> QED BY <2>1, <2>2, BlockNames
<1> QED
  BY <1>1, <1>2

-----------------------------------------------------------------------------
(* The invariant in its parts, and the calls of the parser.                *)

\* What the invariant says of the nodes and the aliases one by one.
LEMMA Elements ==
    ASSUME Inv
    PROVE  /\ parsed \in Nat /\ parsed <= MaxEvents
           /\ Directives(directives)
           /\ \A i \in DOMAIN nodes : /\ nodes[i] \in Node
                                      /\ nodes[i].from \in Nat /\ nodes[i].from <= parsed
           /\ \A i \in DOMAIN aliases : /\ aliases[i] \in Alias
                                        /\ aliases[i].from \in Nat /\ aliases[i].from <= parsed
<1>1. Typed /\ Fresh
  BY DEF Inv
<1>2. parsed \in Nat /\ parsed <= MaxEvents
  BY <1>1, LoaderAssumption DEF Typed
<1>3. Directives(directives)
  BY <1>1 DEF Fresh, Directives
<1>4. \A i \in DOMAIN nodes : nodes[i] \in Node
  BY <1>1, ElementOfSeq, LenProperties DEF Typed
<1>5. \A i \in DOMAIN aliases : aliases[i] \in Alias
  BY <1>1, ElementOfSeq, LenProperties DEF Typed
<1>6. 1..MaxEvents \subseteq Nat
  OBVIOUS
<1>7. /\ \A x \in Node : x.from \in Nat
      /\ \A x \in Alias : x.from \in Nat
  BY <1>6 DEF Node, Alias
<1>8. /\ \A i \in DOMAIN nodes : nodes[i].from <= parsed
      /\ \A i \in DOMAIN aliases : aliases[i].from <= parsed
  BY <1>1 DEF Fresh
<1> QED
  BY <1>2, <1>3, <1>4, <1>5, <1>7, <1>8

\* A frame outside documents may stand alone.
LEMMA Singles == \A x \in Outer : FramesOK(<<x>>)
<1> TAKE x \in Outer
<1>1. <<x>> \in Seq(Outer \cup Inner) /\ Len(<<x>>) = 1 /\ <<x>>[1] = x /\ 2..1 = {}
  OBVIOUS
<1> QED BY <1>1 DEF FramesOK

\* The invariant holds before the first load.
LEMMA InitInv == Init => Inv
<1> SUFFICES ASSUME Init PROVE Inv
  OBVIOUS
<1>1. /\ error = "NO" /\ nodes = <<>> /\ directives = {} /\ ctx = <<>> /\ aliases = <<>>
      /\ pc = "idle" /\ result = "none" /\ heap = {} /\ parsed = 0 /\ event = "NO"
      /\ carried = Nothing_carried /\ frames = <<"stream">>
  BY DEF Init, StreamInit
<1>2. bad_free = FALSE
  BY DEF Init
<1>3. DOMAIN <<>> = {} /\ Len(<<>>) = 0
  OBVIOUS
<1>4. FramesOK(frames)
  BY <1>1, Singles DEF Outer
<1>5. Typed
  <2>1. 0 <= StackLimit /\ 0 \in 0..MaxEvents
    BY LoaderAssumption
  <2>2. <<>> \in Seq(Node) /\ <<>> \in Seq(1..StackLimit) /\ <<>> \in Seq(Alias)
    OBVIOUS
  <2>3. bad_free \in BOOLEAN
    BY <1>2, Zenon
  <2>4. Nothing_carried \in Carriable("NO")
    BY DEF Nothing_carried, Carriable, NodeEvents
  <2> HIDE DEF Nothing_carried
  <2>5. /\ carried \in Carriable(event)
        /\ parsed \in 0..MaxEvents /\ (event # "NO" => parsed >= 1)
        /\ error \in {"NO", "MEMORY", "COMPOSER"} /\ result \in {"none", "OK", "FAIL"}
        /\ nodes \in Seq(Node) /\ Len(nodes) <= StackLimit
        /\ ctx \in Seq(1..StackLimit) /\ aliases \in Seq(Alias)
    BY <1>1, <1>3, <2>1, <2>2, <2>4
  <2> QED BY <2>3, <2>5, Zenon DEF Typed
<1>6. Linked(nodes) /\ Pointing(ctx, aliases, nodes)
  BY <1>1, <1>3 DEF Linked, Pointing
<1>7. Control
  BY <1>1 DEF Control, Loading
<1>8. Fresh
  BY <1>1, <1>3 DEF Fresh
<1>9. Accounts
  BY <1>1, <1>2 DEF Accounts, Loading
<1> QED
  BY <1>4, <1>5, <1>6, <1>7, <1>8, <1>9 DEF Inv

\* The parser fails.
LEMMA ParseFailedKeeps == Inv /\ parse_failed => Inv'
<1> SUFFICES ASSUME Inv, parse_failed PROVE Inv'
  OBVIOUS
<1>1. /\ pc \in Parsing /\ event' = "NO" /\ carried' = Nothing_carried /\ parsed' = parsed
      /\ load_error(error, {}, nodes, directives, aliases, heap)
      /\ (frames' = <<"aborted">> \/ frames' = frames)
  BY DEF parse_failed
<1>2. pc # "idle" /\ pc # "undefined" /\ pc \notin {"load document", "load nodes"}
  BY <1>1 DEF Parsing
<1>3. FramesOK(frames')
  BY <1>1, Singles DEF Inv, Outer
<1>4. Received(event', carried', parsed')
  <2>1. Nothing_carried \in Carriable("NO")
    BY DEF Nothing_carried, Carriable, NodeEvents
  <2> QED BY <1>1, <2>1 DEF Received, Inv, Typed
<1>5. Accounts
  BY <1>2 DEF Inv
<1>6. PICK none : none = {}
  OBVIOUS
<1>7. Accounted(none, nodes, directives, aliases, heap)
  <2>1. DocumentOwns(nodes, directives) \cap Kept(aliases) = {}
    BY Elements, DocumentApart
  <2>2. /\ DocumentOwns(nodes, directives) \subseteq heap
        /\ heap \subseteq DocumentOwns(nodes, directives) \cup Kept(aliases)
    BY <1>2, <1>5 DEF Accounts
  <2> QED BY <1>6, <2>1, <2>2 DEF Accounted
<1>8. bad_free = FALSE /\ error \in {"NO", "MEMORY", "COMPOSER"}
  BY <1>5 DEF Accounts, Inv, Typed
<1>9. load_error(error, none, nodes, directives, aliases, heap)
  BY <1>1, <1>6
<1> QED
  BY <1>3, <1>4, <1>7, <1>8, <1>9, LoadErrorKeeps

\* The parser has nothing more to say.
LEMMA ParseNothingKeeps == Inv /\ parse_nothing => Inv'
<1> SUFFICES ASSUME Inv, parse_nothing PROVE Inv'
  OBVIOUS
<1>1. /\ pc \in Parsing /\ Stopped /\ event' = "NO" /\ carried' = Nothing_carried
      /\ pc' = Handling(pc)
      /\ frames' = frames /\ parsed' = parsed /\ error' = error /\ nodes' = nodes
      /\ directives' = directives /\ ctx' = ctx /\ aliases' = aliases /\ heap' = heap
      /\ result' = result
  BY DEF parse_nothing
<1>2. bad_free' = bad_free
  BY DEF parse_nothing
<1>3. /\ pc # "idle" /\ pc # "undefined" /\ pc \notin {"load document", "load nodes"}
      /\ pc' \in {"document", "load document", "load nodes"}
      /\ pc' = "load nodes" <=> pc = "nodes"
      /\ pc \in Loading <=> pc' \in Loading
  BY <1>1 DEF Parsing, Handling, Loading
<1>4. Nothing_carried \in Carriable("NO")
  BY DEF Nothing_carried, Carriable, NodeEvents
<1>5. EventStrings' = {}
  BY <1>1 DEF EventStrings, Strings, Nothing_carried
<1>6. FramesOK(frames') /\ Linked(nodes') /\ Pointing(ctx', aliases', nodes')
  BY <1>1 DEF Inv
<1>7. Typed'
  <2>1. bad_free' \in BOOLEAN
    BY <1>2, Zenon DEF Inv, Typed
  <2>2. /\ carried' \in Carriable(event')
        /\ parsed' \in 0..MaxEvents /\ (event' # "NO" => parsed' >= 1)
        /\ error' \in {"NO", "MEMORY", "COMPOSER"} /\ result' \in {"none", "OK", "FAIL"}
        /\ nodes' \in Seq(Node) /\ Len(nodes') <= StackLimit
        /\ ctx' \in Seq(1..StackLimit) /\ aliases' \in Seq(Alias)
    BY <1>1, <1>4 DEF Inv, Typed
  <2> QED BY <2>1, <2>2, Zenon DEF Typed
<1>8. Control'
  <2>1. Stopped'
    BY <1>1 DEF Stopped
  <2>2. Control
    BY DEF Inv
  <2> QED BY <1>1, <1>3, <2>1, <2>2 DEF Control
<1>9. Fresh'
  <2>1. Fresh
    BY DEF Inv
  <2> QED BY <1>1, <2>1 DEF Fresh
<1>10. Accounts'
  <2>1. Accounts
    BY <1>3 DEF Inv
  <2> QED BY <1>1, <1>2, <1>3, <1>5, <2>1 DEF Accounts
<1> QED
  BY <1>6, <1>7, <1>8, <1>9, <1>10 DEF Inv

\* What kinds of event there are within a document.
LEMMA SteppedEvents ==
    ASSUME NEW fr, NEW gr, NEW e, Stepped(fr, gr, e)
    PROVE  e \in NodeEvents \cup {"ALIAS", "SEQUENCE_END", "MAPPING_END", "DOCUMENT_END"}
BY DEF Stepped, NodeEvents

\* The parser gives an event.
LEMMA ParseEventKeeps == Inv /\ parse_event => Inv'
<1> SUFFICES ASSUME Inv, parse_event PROVE Inv'
  OBVIOUS
<1>1. /\ pc \in Parsing /\ ~Stopped /\ StreamEvent
      /\ parsed' = parsed + 1 /\ parsed < MaxEvents /\ carried' \in Carriable(event')
      /\ heap' = heap \cup Strings(parsed + 1, event', carried')
      /\ pc' = Handling(pc)
      /\ error' = error /\ nodes' = nodes
      /\ directives' = directives /\ ctx' = ctx /\ aliases' = aliases
      /\ result' = result
  BY DEF parse_event
<1>2. bad_free' = bad_free
  BY DEF parse_event
<1>3. /\ pc # "idle" /\ pc # "undefined" /\ pc \notin {"load document", "load nodes"}
      /\ pc' \in {"document", "load document", "load nodes"}
      /\ pc' = "load nodes" <=> pc = "nodes"
      /\ pc' = "document" <=> pc = "stream"
      /\ pc \in Loading <=> pc' \in Loading
  BY <1>1 DEF Parsing, Handling, Loading
<1>4. /\ FramesOK(frames) /\ Typed /\ Control /\ Fresh /\ Accounts
  BY <1>3 DEF Inv
<1>5. FramesOK(frames')
  BY <1>1, <1>4, FramesStep
<1>6. Linked(nodes') /\ Pointing(ctx', aliases', nodes')
  BY <1>1 DEF Inv
<1>7. parsed \in Nat /\ parsed' \in Nat /\ parsed' >= 1 /\ parsed' \in 0..MaxEvents
  BY <1>1, Elements, LoaderAssumption
<1>8. /\ frames[1] = "docend" => Stepped(frames, frames', event')
      /\ frames[1] # "docend" =>
           \/ frames = <<"stream">> /\ event' = "STREAM_START" /\ frames' = <<"docs">>
           \/ frames = <<"docs">> /\ event' = "STREAM_END" /\ frames' = <<"done">>
           \/ /\ frames = <<"docs">> /\ event' = "DOCUMENT_START"
              /\ frames' = <<"docend", "node">>
  BY <1>1, <1>4, EventWithin, EventOutside
<1>9. Typed'
  <2>1. bad_free' \in BOOLEAN
    BY <1>2, <1>4, Zenon DEF Typed
  <2>2. /\ carried' \in Carriable(event')
        /\ parsed' \in 0..MaxEvents /\ (event' # "NO" => parsed' >= 1)
        /\ error' \in {"NO", "MEMORY", "COMPOSER"} /\ result' \in {"none", "OK", "FAIL"}
        /\ nodes' \in Seq(Node) /\ Len(nodes') <= StackLimit
        /\ ctx' \in Seq(1..StackLimit) /\ aliases' \in Seq(Alias)
    BY <1>1, <1>4, <1>7 DEF Typed
  <2> QED BY <2>1, <2>2, Zenon DEF Typed
<1>10. Control'
  <2>1. pc' = "load document" =>
           /\ event' = "DOCUMENT_START" => frames' = <<"docend", "node">>
           /\ event' = "STREAM_END" => frames' = <<"done">>
           /\ event' = "NO" => Stopped'
    BY <1>8, SteppedEvents DEF NodeEvents
  <2>2. pc' = "load nodes" => Behind'
    <3> SUFFICES ASSUME pc' = "load nodes" PROVE Behind'
      OBVIOUS
    <3>1. Agrees(frames, ctx, nodes)
      BY <1>1, <1>3, <1>4 DEF Control
    <3>2. Stepped(frames, frames', event')
      BY <1>8, <3>1 DEF Agrees
    <3>3. Agrees(frames, ctx', nodes')
      BY <1>1, <3>1
    <3> QED BY <3>2, <3>3 DEF Behind
  <2>3. /\ pc' \notin Loading => ctx' = <<>> /\ aliases' = <<>>
        /\ pc' \notin Loading => nodes' = <<>> /\ directives' = {}
    BY <1>1, <1>3, <1>4 DEF Control
  <2> QED BY <1>3, <2>1, <2>2, <2>3 DEF Control
<1>11. Fresh'
  <2>1. /\ \A i \in DOMAIN nodes : nodes[i].from \in Nat /\ nodes[i].from <= parsed
        /\ \A i \in DOMAIN aliases : aliases[i].from \in Nat /\ aliases[i].from <= parsed
    BY Elements
  <2>2. /\ \A i \in DOMAIN nodes : nodes[i].from <= parsed' /\ nodes[i].from < parsed'
        /\ \A i \in DOMAIN aliases : aliases[i].from <= parsed' /\ aliases[i].from < parsed'
    BY <1>1, <1>7, <2>1
  <2>3. \A b \in directives : \E n \in 0..parsed' : b = <<n, "directives">>
    <3>1. 0..parsed \subseteq 0..parsed'
      BY <1>1, <1>7
    <3> QED BY <1>4, <3>1 DEF Fresh
  <2> QED BY <1>1, <2>2, <2>3 DEF Fresh
<1>12. Accounts'
  <2>1. EventStrings' = Strings(parsed + 1, event', carried')
    BY <1>1 DEF EventStrings
  <2>2. pc' = "document" => EventStrings' = {}
    <3> SUFFICES ASSUME pc = "stream" PROVE EventStrings' = {}
      BY <1>3
    <3>1. frames = <<"stream">>
      BY <1>4 DEF Control
    <3>2. <<"stream">>[1] = "stream" /\ <<"stream">> # <<"docs">>
      <4>1. <<"stream">>[1] = "stream" /\ <<"docs">>[1] = "docs"
        OBVIOUS
      <4> QED BY <4>1
    <3>3. event' = "STREAM_START"
      BY <1>8, <3>1, <3>2
    <3>4. carried' \in Carriable("STREAM_START")
      BY <1>1, <3>3
    <3>5. carried'.anchor = "none" /\ carried'.tag = "none" /\ carried'.directives = FALSE
      BY <3>4 DEF Carriable, NodeEvents
    <3> QED BY <3>3, <3>5 DEF EventStrings, Strings
  <2>3. <<0, "nodes">> \in heap /\ <<0, "nodes">> \in heap'
    BY <1>1, <1>3, <1>4 DEF Accounts
  <2>4. heap = DocumentOwns(nodes, directives) \cup (IF pc \in Loading THEN Kept(aliases) ELSE {})
    BY <1>3, <1>4, <2>3 DEF Accounts
  <2>5. heap' = DocumentOwns(nodes', directives')
                \cup (IF pc' \in Loading THEN Kept(aliases') ELSE {})
                \cup (IF pc' \in {"load document", "load nodes"} THEN EventStrings' ELSE {})
    <3>1. heap' = heap \cup EventStrings'
      BY <1>1, <2>1
    <3>2. EventStrings' = IF pc' \in {"load document", "load nodes"} THEN EventStrings' ELSE {}
      BY <1>3, <2>2
    <3>3. heap = DocumentOwns(nodes', directives')
                 \cup (IF pc' \in Loading THEN Kept(aliases') ELSE {})
      BY <1>1, <1>3, <2>4
    <3> QED BY <3>1, <3>2, <3>3
  <2>6. bad_free' = FALSE /\ pc' # "idle"
    BY <1>2, <1>3, <1>4 DEF Accounts
  <2> QED BY <2>3, <2>5, <2>6 DEF Accounts
<1> QED
  BY <1>5, <1>6, <1>9, <1>10, <1>11, <1>12 DEF Inv

-----------------------------------------------------------------------------
(* The handlers that make no node.                                         *)

\* The event stays, and what the handler assigns has its type.
LEMMA TypedStays ==
    ASSUME Typed, UNCHANGED <<event, carried, parsed>>,
           error' \in {"NO", "MEMORY", "COMPOSER"}, result' \in {"none", "OK", "FAIL"},
           bad_free' = FALSE \/ bad_free' = bad_free,
           nodes' \in Seq(Node), Len(nodes') <= StackLimit,
           ctx' \in Seq(1..StackLimit), aliases' \in Seq(Alias)
    PROVE  Typed'
<1>1. bad_free' \in BOOLEAN
  BY Zenon DEF Typed
<1>2. /\ carried' \in Carriable(event') /\ parsed' \in 0..MaxEvents
      /\ event' # "NO" => parsed' >= 1
  BY DEF Typed
<1> QED
  BY <1>1, <1>2, Zenon DEF Typed

\* Only some events bring anything.
LEMMA NoStrings ==
    ASSUME carried \in Carriable(event), event \notin NodeEvents \cup {"ALIAS"}
    PROVE  EventStrings \subseteq {<<parsed, "directives">>}
           /\ (event # "DOCUMENT_START" => EventStrings = {})
<1>1. carried.anchor = "none" /\ carried.tag = "none"
  BY DEF Carriable
<1>2. event # "DOCUMENT_START" => carried.directives = FALSE
  BY DEF Carriable
<1>3. event # "SCALAR"
  BY DEF NodeEvents
<1> QED
  BY <1>1, <1>2, <1>3 DEF EventStrings, Strings

\* The document that a call begins with owns its array of nodes.
LEMMA OwnsNodes ==
    ASSUME NEW dirs
    PROVE  DocumentOwns(<<>>, dirs) = {<<0, "nodes">>} \cup dirs
<1>1. DOMAIN <<>> = {}
  OBVIOUS
<1> QED BY <1>1 DEF DocumentOwns

\* yaml_parser_load, until it asks for the first event.
LEMMA LoadBeginKeeps == Inv /\ load_begin => Inv'
<1> SUFFICES ASSUME Inv, load_begin PROVE Inv'
  OBVIOUS
<1>1. /\ pc = "idle" /\ <<0, "nodes">> \notin heap
      /\ frames' = frames /\ event' = event /\ carried' = carried /\ parsed' = parsed
      /\ error' = error /\ nodes' = nodes /\ directives' = directives /\ ctx' = ctx
      /\ aliases' = aliases
  BY DEF load_begin
<1>2. bad_free' = bad_free
  BY DEF load_begin
<1>3. Accounts /\ Control /\ Fresh /\ Typed
  BY <1>1 DEF Inv
<1>4. heap = {} /\ result # "OK" /\ bad_free = FALSE
  BY <1>1, <1>3 DEF Accounts, Loading
<1>5. nodes = <<>> /\ directives = {} /\ ctx = <<>> /\ aliases = <<>>
  BY <1>1, <1>3, <1>4 DEF Control, Loading
<1>6. /\ pc' \in {"idle", "stream", "document"} /\ result' \in {"none", "OK", "FAIL"}
      /\ pc' = "stream" => frames = <<"stream">>
      /\ pc' # "idle" => result' # "OK"
      /\ result' = "OK" => frames = <<"done">>
      /\ \/ pc' = "idle" /\ result' = "FAIL" /\ heap' = {}
         \/ heap' = {<<0, "nodes">>} /\ result' # "FAIL"
  BY <1>1, <1>4 DEF load_begin
<1>7. FramesOK(frames') /\ Linked(nodes') /\ Pointing(ctx', aliases', nodes')
  BY <1>1 DEF Inv
<1>8. Typed'
  <2>1. /\ error' \in {"NO", "MEMORY", "COMPOSER"} /\ nodes' \in Seq(Node)
        /\ Len(nodes') <= StackLimit
        /\ ctx' \in Seq(1..StackLimit) /\ aliases' \in Seq(Alias)
    BY <1>1, <1>3 DEF Typed
  <2> QED BY <1>1, <1>2, <1>3, <1>6, <2>1, TypedStays
<1>9. Control'
  <2>1. DOMAIN <<>> = {}
    OBVIOUS
  <2> QED BY <1>1, <1>5, <1>6, <2>1 DEF Control, Loading
<1>10. Fresh'
  <2>1. DOMAIN <<>> = {}
    OBVIOUS
  <2> QED BY <1>1, <1>5, <2>1 DEF Fresh
<1>11. Accounts'
  <2>1. DocumentOwns(nodes', directives') = {<<0, "nodes">>}
    BY <1>1, <1>5, OwnsNodes
  <2> QED BY <1>2, <1>4, <1>6, <2>1 DEF Accounts, Loading
<1> QED
  BY <1>7, <1>8, <1>9, <1>10, <1>11 DEF Inv

\* STREAM-END instead of a document.
LEMMA LoadNothingKeeps == Inv /\ load_nothing => Inv'
<1> SUFFICES ASSUME Inv, load_nothing PROVE Inv'
  OBVIOUS
<1>1. /\ pc = "load document" /\ event = "STREAM_END" /\ pc' = "idle" /\ result' = "OK"
      /\ frames' = frames /\ event' = event /\ carried' = carried /\ parsed' = parsed
      /\ error' = error /\ nodes' = nodes /\ directives' = directives /\ ctx' = ctx
      /\ aliases' = aliases /\ heap' = heap
  BY DEF load_nothing
<1>2. bad_free' = bad_free
  BY DEF load_nothing
<1>3. Accounts /\ Control /\ Fresh /\ Typed
  BY <1>1 DEF Inv
<1>4. nodes = <<>> /\ directives = {} /\ ctx = <<>> /\ aliases = <<>> /\ frames = <<"done">>
  BY <1>1, <1>3 DEF Control, Loading
<1>5. EventStrings = {}
  BY <1>1, <1>3, NoStrings DEF Typed, NodeEvents
<1>6. FramesOK(frames') /\ Linked(nodes') /\ Pointing(ctx', aliases', nodes')
  BY <1>1 DEF Inv
<1>7. Typed'
  <2>1. /\ error' \in {"NO", "MEMORY", "COMPOSER"} /\ nodes' \in Seq(Node)
        /\ Len(nodes') <= StackLimit
        /\ ctx' \in Seq(1..StackLimit) /\ aliases' \in Seq(Alias)
    BY <1>1, <1>3 DEF Typed
  <2> QED BY <1>1, <1>2, <1>3, <2>1, TypedStays
<1>8. DOMAIN <<>> = {}
  OBVIOUS
<1>9. Control'
  BY <1>1, <1>4, <1>8 DEF Control, Loading
<1>10. Fresh'
  BY <1>1, <1>4, <1>8 DEF Fresh
<1>11. Accounts'
  BY <1>1, <1>2, <1>3, <1>5 DEF Accounts, Loading
<1> QED
  BY <1>6, <1>7, <1>9, <1>10, <1>11 DEF Inv

\* yaml_document_delete frees what the document owns.
LEMMA DeleteKeeps == Inv /\ yaml_document_delete => Inv'
<1> SUFFICES ASSUME Inv, yaml_document_delete PROVE Inv'
  OBVIOUS
<1> DEFINE freed == DocumentOwns(nodes, directives)
<1>1. /\ pc = "idle" /\ <<0, "nodes">> \in heap /\ heap' = heap \ freed
      /\ nodes' = <<>> /\ directives' = {} /\ result' = "none" /\ pc' = pc
      /\ frames' = frames /\ event' = event /\ carried' = carried /\ parsed' = parsed
      /\ error' = error /\ ctx' = ctx /\ aliases' = aliases
  BY DEF yaml_document_delete
<1>2. bad_free' = (bad_free \/ ~(freed \subseteq heap))
  BY DEF yaml_document_delete
<1>3. Accounts /\ Control /\ Fresh /\ Typed
  BY <1>1 DEF Inv
<1>4. ctx = <<>> /\ aliases = <<>>
  BY <1>1, <1>3 DEF Control, Loading
<1>5. heap = freed /\ bad_free = FALSE
  BY <1>1, <1>3 DEF Accounts, Loading
<1>6. heap' = {}
  BY <1>1, <1>5
<1>7. bad_free' = FALSE
  BY <1>2, <1>5, Zenon
<1>8. DOMAIN <<>> = {} /\ Len(<<>>) = 0 /\ <<>> \in Seq(Node) /\ 0 <= StackLimit
  BY LoaderAssumption
<1>9. FramesOK(frames') /\ Linked(nodes') /\ Pointing(ctx', aliases', nodes')
  BY <1>1, <1>4, <1>8 DEF Inv, Linked, Pointing
<1>10. Typed'
  <2>1. /\ error' \in {"NO", "MEMORY", "COMPOSER"} /\ nodes' \in Seq(Node)
        /\ Len(nodes') <= StackLimit
        /\ ctx' \in Seq(1..StackLimit) /\ aliases' \in Seq(Alias)
    BY <1>1, <1>3, <1>8 DEF Typed
  <2> QED BY <1>1, <1>3, <1>7, <2>1, TypedStays
<1>11. Control'
  BY <1>1, <1>4 DEF Control, Loading
<1>12. Fresh'
  BY <1>1, <1>4, <1>8 DEF Fresh
<1>13. Accounts'
  BY <1>1, <1>6, <1>7 DEF Accounts, Loading
<1> QED
  BY <1>9, <1>10, <1>11, <1>12, <1>13 DEF Inv

\* What came with an event that is not within a document.
LEMMA BroughtOutside ==
    ASSUME Typed
    PROVE  EventStrings \subseteq
              {<<parsed, p>> : p \in {"anchor", "tag", "value", "directives"}}
BY DEF EventStrings, Strings

\* yaml_parser_load_document, before the events of the nodes.
LEMMA LoadDocumentKeeps == Inv /\ load_document => Inv'
<1> SUFFICES ASSUME Inv, load_document PROVE Inv'
  OBVIOUS
<1> DEFINE initialized == heap \cup {<<0, "aliases">>}
<1>1. /\ pc = "load document" /\ event # "STREAM_END"
      /\ frames' = frames /\ event' = event /\ carried' = carried /\ parsed' = parsed
  BY DEF load_document
<1>2. Accounts /\ Control /\ Fresh /\ Typed /\ FramesOK(frames)
  BY <1>1 DEF Inv
<1>3. nodes = <<>> /\ directives = {} /\ ctx = <<>> /\ aliases = <<>>
  BY <1>1, <1>2 DEF Control, Loading
<1>4. /\ DocumentOwns(nodes, directives) = {<<0, "nodes">>}
      /\ DocumentOwns(nodes, EventStrings) = {<<0, "nodes">>} \cup EventStrings
  BY <1>3, OwnsNodes
<1>5. heap = {<<0, "nodes">>} \cup EventStrings /\ bad_free = FALSE
  BY <1>1, <1>2, <1>4 DEF Accounts, Loading
<1>6. FramesOK(frames') /\ Received(event', carried', parsed')
  BY <1>1, <1>2 DEF Received, Typed
<1>7. error \in {"NO", "MEMORY", "COMPOSER"}
  BY <1>2 DEF Typed
<1>8. event \in {"DOCUMENT_START", "NO"} =>
         EventStrings \subseteq {<<parsed, "directives">>} /\ Directives(EventStrings)
  <2> SUFFICES ASSUME event \in {"DOCUMENT_START", "NO"}
               PROVE  EventStrings \subseteq {<<parsed, "directives">>} /\ Directives(EventStrings)
    OBVIOUS
  <2>1. EventStrings \subseteq {<<parsed, "directives">>}
    BY <1>2, NoStrings DEF Typed, NodeEvents
  <2>2. parsed \in 0..parsed
    BY Elements
  <2> QED BY <2>1, <2>2 DEF Directives
<1>9. CASE load_error(error, EventStrings, nodes, directives, aliases, heap)
  <2>1. <<0, "nodes">> \notin EventStrings
    <3>1. "nodes" \notin {"anchor", "tag", "value", "directives"}
      OBVIOUS
    <3> QED BY <1>2, <3>1, BroughtOutside, BlockNames
  <2>2. DocumentOwns(nodes, directives) \cap Kept(aliases) = {}
    BY Elements, DocumentApart
  <2>3. Accounted(EventStrings, nodes, directives, aliases, heap)
    BY <1>4, <1>5, <2>1, <2>2 DEF Accounted
  <2> QED BY <1>5, <1>6, <1>7, <1>9, <2>3, LoadErrorKeeps
<1>10. CASE /\ event \in {"DOCUMENT_START", "NO"}
            /\ load_error(error, {}, nodes, EventStrings, aliases, initialized)
  <2>1. PICK none : none = {}
    OBVIOUS
  <2>2. DocumentOwns(nodes, EventStrings) \cap Kept(aliases) = {}
    BY <1>8, <1>10, DocumentApart
  <2>3. Accounted(none, nodes, EventStrings, aliases, initialized)
    <3>1. <<0, "aliases">> \in Kept(aliases)
      BY DEF Kept, AliasesOwn
    <3> QED BY <1>4, <1>5, <2>1, <2>2, <3>1 DEF Accounted
  <2>4. load_error(error, none, nodes, EventStrings, aliases, initialized)
    BY <1>10, <2>1
  <2> QED BY <1>5, <1>6, <1>7, <2>3, <2>4, LoadErrorKeeps
<1>11. CASE /\ event \in {"DOCUMENT_START", "NO"}
            /\ directives' = EventStrings
            /\ heap' = initialized \cup {<<0, "ctx">>}
            /\ pc' = "nodes"
            /\ UNCHANGED <<error, nodes, ctx, aliases, bad_free, result>>
  <2>1. /\ directives' = EventStrings /\ pc' = "nodes" /\ error' = error /\ nodes' = nodes
        /\ ctx' = ctx /\ aliases' = aliases /\ result' = result
    BY <1>11
  <2>2. bad_free' = FALSE
    BY <1>5, <1>11
  <2>3. Typed'
    <3>1. /\ nodes' \in Seq(Node) /\ Len(nodes') <= StackLimit
          /\ ctx' \in Seq(1..StackLimit) /\ aliases' \in Seq(Alias)
          /\ result' \in {"none", "OK", "FAIL"}
      BY <1>2, <2>1 DEF Typed
    <3> QED BY <1>1, <1>2, <1>7, <2>1, <2>2, <3>1, TypedStays
  <2>4. Linked(nodes') /\ Pointing(ctx', aliases', nodes')
    BY <2>1 DEF Inv
  <2>5. Control'
    <3>1. event = "NO" => Stopped'
      BY <1>1, <1>2, <2>1 DEF Control, Stopped
    <3>2. event = "DOCUMENT_START" => Agrees(frames', ctx', nodes')
      <4>1. event = "DOCUMENT_START" => frames = <<"docend", "node">>
        BY <1>1, <1>2 DEF Control
      <4> QED BY <1>1, <1>3, <2>1, <4>1, DocumentBegun
    <3>3. Stopped' \/ Agrees(frames', ctx', nodes')
      BY <1>11, <3>1, <3>2
    <3> QED BY <2>1, <3>3 DEF Control, Loading
  <2>6. Fresh'
    <3>1. DOMAIN <<>> = {}
      OBVIOUS
    <3>2. \A b \in directives' : \E n \in 0..parsed' : b = <<n, "directives">>
      BY <1>1, <1>8, <1>11, <2>1 DEF Directives
    <3> QED BY <1>3, <2>1, <3>1, <3>2 DEF Fresh
  <2>7. Accounts'
    <3>1. DOMAIN <<>> = {}
      OBVIOUS
    <3>2. Kept(aliases') = {<<0, "ctx">>, <<0, "aliases">>}
      BY <1>3, <2>1, <3>1 DEF Kept, AliasesOwn
    <3>3. heap' = {<<0, "nodes">>} \cup EventStrings \cup {<<0, "ctx">>, <<0, "aliases">>}
      BY <1>5, <1>11
    <3>4. DocumentOwns(nodes', directives') = {<<0, "nodes">>} \cup EventStrings
      BY <1>4, <2>1
    <3>5. heap' = DocumentOwns(nodes', directives') \cup Kept(aliases') /\ <<0, "nodes">> \in heap'
      BY <3>2, <3>3, <3>4
    <3> QED BY <2>1, <2>2, <3>5 DEF Accounts, Loading
  <2> QED BY <1>6, <2>1, <2>3, <2>4, <2>5, <2>6, <2>7 DEF Inv
<1>12. CASE /\ pc' = "undefined"
            /\ UNCHANGED <<error, nodes, directives, ctx, aliases, heap, bad_free, result>>
  <2>1. /\ pc' = "undefined" /\ error' = error /\ nodes' = nodes /\ directives' = directives
        /\ ctx' = ctx /\ aliases' = aliases /\ result' = result /\ bad_free' = bad_free
    BY <1>12
  <2>2. Typed'
    <3>1. /\ nodes' \in Seq(Node) /\ Len(nodes') <= StackLimit
          /\ ctx' \in Seq(1..StackLimit) /\ aliases' \in Seq(Alias)
          /\ result' \in {"none", "OK", "FAIL"}
      BY <1>2, <2>1 DEF Typed
    <3> QED BY <1>1, <1>2, <1>7, <2>1, <3>1, TypedStays
  <2>3. Linked(nodes') /\ Pointing(ctx', aliases', nodes')
    BY <2>1 DEF Inv
  <2>4. Control'
    BY <1>3, <2>1 DEF Control, Loading
  <2>5. Fresh'
    <3>1. DOMAIN <<>> = {}
      OBVIOUS
    <3> QED BY <1>3, <2>1, <3>1 DEF Fresh
  <2> QED BY <1>6, <2>1, <2>2, <2>3, <2>4, <2>5 DEF Inv
<1> QED
  BY <1>9, <1>10, <1>11, <1>12 DEF load_document

\* The context as a sequence of numbers.
LEMMA ContextNumbers == Typed => ctx \in Seq(Nat)
<1>1. 1..StackLimit \subseteq Nat
  OBVIOUS
<1>2. ctx \in Seq(1..StackLimit) => \A i \in 1..Len(ctx) : ctx[i] \in Nat
  BY <1>1, ElementOfSeq
<1> QED
  BY <1>2, SeqIn DEF Typed

\* What holds when an event of a document is handled.
LEMMA HandlingNodes ==
    ASSUME Inv, pc = "load nodes"
    PROVE  /\ Typed /\ Control /\ Fresh /\ Accounts /\ FramesOK(frames)
           /\ Linked(nodes) /\ Pointing(ctx, aliases, nodes) /\ ctx \in Seq(Nat)
           /\ bad_free = FALSE /\ error \in {"NO", "MEMORY", "COMPOSER"}
           /\ heap = DocumentOwns(nodes, directives) \cup Kept(aliases) \cup EventStrings
           /\ DocumentOwns(nodes, directives) \cap Kept(aliases) = {}
           /\ event # "NO" => Behind
<1>1. /\ Typed /\ Control /\ Fresh /\ Accounts /\ FramesOK(frames)
      /\ Linked(nodes) /\ Pointing(ctx, aliases, nodes)
  BY DEF Inv
<1>2. ctx \in Seq(Nat)
  BY <1>1, ContextNumbers
<1>3. bad_free = FALSE /\ error \in {"NO", "MEMORY", "COMPOSER"}
  BY <1>1 DEF Accounts, Typed
<1>4. heap = DocumentOwns(nodes, directives) \cup Kept(aliases) \cup EventStrings
  BY <1>1 DEF Accounts, Loading
<1>5. DocumentOwns(nodes, directives) \cap Kept(aliases) = {}
  BY Elements, DocumentApart
<1>6. event # "NO" => Behind
  BY <1>1 DEF Control
<1> QED
  BY <1>1, <1>2, <1>3, <1>4, <1>5, <1>6

\* An event that yaml_parser_load_nodes does not know.
LEMMA UnexpectedKeeps == Inv /\ load_unexpected => Inv'
<1> SUFFICES ASSUME Inv, load_unexpected PROVE Inv'
  OBVIOUS
<1>1. /\ pc = "load nodes"
      /\ event \notin NodeEvents \cup {"ALIAS", "SEQUENCE_END", "MAPPING_END", "DOCUMENT_END"}
      /\ load_error(error, {}, nodes, directives, aliases, heap)
      /\ frames' = frames /\ event' = event /\ carried' = carried /\ parsed' = parsed
  BY DEF load_unexpected, NodeFailed
<1>2. /\ Typed /\ FramesOK(frames) /\ bad_free = FALSE
      /\ error \in {"NO", "MEMORY", "COMPOSER"}
      /\ heap = DocumentOwns(nodes, directives) \cup Kept(aliases) \cup EventStrings
      /\ DocumentOwns(nodes, directives) \cap Kept(aliases) = {}
      /\ event # "NO" => Behind
  BY <1>1, HandlingNodes
<1>3. event = "NO"
  BY <1>1, <1>2, SteppedEvents DEF Behind
<1>4. EventStrings = {}
  BY <1>1, <1>2, <1>3, NoStrings DEF Typed
<1>5. PICK none : none = {}
  OBVIOUS
<1>6. Accounted(none, nodes, directives, aliases, heap)
  BY <1>2, <1>4, <1>5 DEF Accounted
<1>7. FramesOK(frames') /\ Received(event', carried', parsed')
  BY <1>1, <1>2 DEF Received, Typed
<1>8. load_error(error, none, nodes, directives, aliases, heap)
  BY <1>1, <1>5
<1> QED
  BY <1>2, <1>6, <1>7, <1>8, LoadErrorKeeps

\* DOCUMENT-END: the aliases go, the document is the caller's.
LEMMA DocumentEndKeeps == Inv /\ load_document_end => Inv'
<1> SUFFICES ASSUME Inv, load_document_end PROVE Inv'
  OBVIOUS
<1>1. /\ pc = "load nodes" /\ event = "DOCUMENT_END"
      /\ heap' = heap \ Kept(aliases) /\ ctx' = <<>> /\ aliases' = <<>>
      /\ pc' = "idle" /\ result' = "OK"
      /\ frames' = frames /\ event' = event /\ carried' = carried /\ parsed' = parsed
      /\ error' = error /\ nodes' = nodes /\ directives' = directives
  BY DEF load_document_end, Handles, Kept
<1>2. bad_free' = (bad_free \/ ~(Kept(aliases) \subseteq heap))
  BY DEF load_document_end, Kept
<1>3. /\ Typed /\ Fresh /\ FramesOK(frames) /\ Linked(nodes) /\ bad_free = FALSE
      /\ ctx \in Seq(Nat)
      /\ heap = DocumentOwns(nodes, directives) \cup Kept(aliases) \cup EventStrings
      /\ DocumentOwns(nodes, directives) \cap Kept(aliases) = {}
      /\ Behind
  BY <1>1, HandlingNodes
<1>4. PICK before : Agrees(before, ctx, nodes) /\ Stepped(before, frames, event)
  BY <1>3 DEF Behind
<1>5. Last(before) = "docend"
  BY <1>1, <1>4 DEF Stepped
<1>6. nodes # <<>> /\ \A i \in DOMAIN nodes : ~Pending(nodes[i])
  BY <1>3, <1>4, <1>5, DocumentDone
<1>7. EventStrings = {}
  BY <1>1, <1>3, NoStrings DEF Typed, NodeEvents
<1>8. heap' = DocumentOwns(nodes', directives') /\ <<0, "nodes">> \in heap'
  BY <1>1, <1>3, <1>7 DEF DocumentOwns
<1>9. bad_free' = FALSE
  <2>1. Kept(aliases) \subseteq heap
    BY <1>3
  <2> QED BY <1>2, <1>3, <2>1, Zenon
<1>10. Typed'
  <2>1. <<>> \in Seq(1..StackLimit) /\ <<>> \in Seq(Alias)
    OBVIOUS
  <2>2. /\ error' \in {"NO", "MEMORY", "COMPOSER"} /\ nodes' \in Seq(Node)
        /\ Len(nodes') <= StackLimit /\ result' \in {"none", "OK", "FAIL"}
        /\ ctx' \in Seq(1..StackLimit) /\ aliases' \in Seq(Alias)
    BY <1>1, <1>3, <2>1 DEF Typed
  <2> QED BY <1>1, <1>3, <1>9, <2>2, TypedStays
<1>11. DOMAIN <<>> = {}
  OBVIOUS
<1>12. Linked(nodes') /\ Pointing(ctx', aliases', nodes')
  BY <1>1, <1>3, <1>11 DEF Pointing
<1>13. Control'
  BY <1>1, <1>6 DEF Control, Loading
<1>14. Fresh'
  BY <1>1, <1>3, <1>11 DEF Fresh
<1>15. Accounts'
  BY <1>1, <1>8, <1>9 DEF Accounts, Loading
<1> QED
  BY <1>1, <1>3, <1>10, <1>12, <1>13, <1>14, <1>15 DEF Inv

\* An end event finds the collection it ends innermost in the context.
LEMMA EndFinds ==
    ASSUME Inv, pc = "load nodes", NEW end, NEW type, event = end,
           \/ end = "SEQUENCE_END" /\ type = "SEQUENCE_START"
           \/ end = "MAPPING_END" /\ type = "MAPPING_START"
    PROVE  /\ ctx # <<>> /\ nodes[Last(ctx)].type = type
           /\ Agrees(frames, Front(ctx), nodes)
<1>1. Behind /\ ctx \in Seq(Nat)
  BY HandlingNodes
<1>2. PICK before : Agrees(before, ctx, nodes) /\ Stepped(before, frames, event)
  BY <1>1 DEF Behind
<1>3. \/ Last(before) = "seq" /\ type = "SEQUENCE_START" /\ frames = Front(before)
      \/ Last(before) = "key" /\ type = "MAPPING_START" /\ frames = Front(before)
      \/ /\ Last(before) = "pairend" /\ type = "MAPPING_START"
         /\ frames = Append(Front(before), "seq")
  BY <1>2 DEF Stepped
<1>4. CASE Last(before) \in {"seq", "key"}
  <2>1. /\ ctx # <<>> /\ Agrees(Front(before), Front(ctx), nodes)
        /\ nodes[Last(ctx)].type =
              IF Last(before) = "seq" THEN "SEQUENCE_START" ELSE "MAPPING_START"
    BY <1>1, <1>2, <1>4, CollectionLeft
  <2> QED BY <1>3, <1>4, <2>1
<1>5. CASE Last(before) = "pairend"
  BY <1>1, <1>2, <1>3, <1>5, PairLeft
<1> QED
  BY <1>3, <1>4, <1>5

\* yaml_parser_load_sequence_end and yaml_parser_load_mapping_end.
LEMMA LoadEndKeeps ==
    ASSUME Inv, NEW end, NEW type, load_end(end, type),
           \/ end = "SEQUENCE_END" /\ type = "SEQUENCE_START"
           \/ end = "MAPPING_END" /\ type = "MAPPING_START"
    PROVE  Inv'
<1>1. /\ pc = "load nodes" /\ event = end
      /\ frames' = frames /\ event' = event /\ carried' = carried /\ parsed' = parsed
  BY DEF load_end, Handles
<1>2. /\ Typed /\ Fresh /\ FramesOK(frames) /\ Linked(nodes) /\ bad_free = FALSE
      /\ Pointing(ctx, aliases, nodes) /\ ctx \in Seq(Nat) /\ Accounts
      /\ error \in {"NO", "MEMORY", "COMPOSER"}
      /\ heap = DocumentOwns(nodes, directives) \cup Kept(aliases) \cup EventStrings
  BY <1>1, HandlingNodes
<1>3. /\ ctx # <<>> /\ nodes[Last(ctx)].type = type
      /\ Agrees(frames, Front(ctx), nodes)
  BY <1>1, EndFinds
<1>4. /\ ctx' = Front(ctx) /\ pc' = "nodes" /\ error' = error /\ nodes' = nodes
      /\ directives' = directives /\ aliases' = aliases /\ heap' = heap /\ result' = result
  BY <1>3 DEF load_end, Popped
<1>5. bad_free' = FALSE
  BY <1>2, <1>3 DEF load_end
<1>6. EventStrings = {}
  BY <1>1, <1>2, NoStrings DEF Typed, NodeEvents
<1>7. ctx' \in Seq(1..StackLimit) /\ Len(ctx') = Len(ctx) - 1
      /\ Len(ctx) \in Nat \ {0} /\ \A k \in 1..(Len(ctx) - 1) : ctx'[k] = ctx[k]
  BY <1>2, <1>3, <1>4, PopFacts DEF Typed
<1>8. Typed'
  <2>1. /\ error' \in {"NO", "MEMORY", "COMPOSER"} /\ nodes' \in Seq(Node)
        /\ Len(nodes') <= StackLimit /\ result' \in {"none", "OK", "FAIL"}
        /\ aliases' \in Seq(Alias)
    BY <1>2, <1>4 DEF Typed
  <2> QED BY <1>1, <1>2, <1>5, <1>7, <2>1, TypedStays
<1>9. Pointing(ctx', aliases', nodes')
  <2>1. DOMAIN ctx' = 1..(Len(ctx) - 1) /\ DOMAIN ctx = 1..Len(ctx)
    BY <1>2, <1>7, LenProperties
  <2>2. 1..(Len(ctx) - 1) \subseteq 1..Len(ctx)
    BY <1>7
  <2>3. \A k \in DOMAIN ctx' : k \in DOMAIN ctx /\ ctx'[k] = ctx[k]
    BY <1>7, <2>1, <2>2
  <2> QED BY <1>2, <1>4, <2>3 DEF Pointing
<1>10. Control'
  BY <1>1, <1>3, <1>4 DEF Control, Loading
<1>11. Fresh'
  BY <1>1, <1>2, <1>4 DEF Fresh
<1>12. Accounts'
  <2>1. <<0, "nodes">> \in heap
    BY <1>1, <1>2 DEF Accounts
  <2> QED BY <1>2, <1>4, <1>5, <1>6, <2>1 DEF Accounts, Loading
<1>13. FramesOK(frames') /\ Linked(nodes')
  BY <1>1, <1>2, <1>4
<1> QED
  BY <1>4, <1>8, <1>9, <1>10, <1>11, <1>12, <1>13 DEF Inv

-----------------------------------------------------------------------------
(* A node is put into the innermost collection.                            *)

\* The links of one node are to nodes in D.
NodeLinked(node, D) ==
    /\ \A k \in DOMAIN node.items : node.items[k] \in D
    /\ \A k \in DOMAIN node.pairs :
          /\ node.pairs[k].key \in D
          /\ node.pairs[k].value \in D \cup {0}
          /\ node.pairs[k].value = 0 => k = Len(node.pairs)
    /\ node.type # "MAPPING_START" => node.pairs = <<>>

\* Node new is node with one more child.
Placed(node, new, index, D) ==
    /\ new \in Node /\ new.type = node.type /\ new.from = node.from /\ new.tag = node.tag
    /\ index \in Children(new)
    /\ \A j \in Children(node) : j # 0 => j \in Children(new)
    /\ NodeLinked(new, D)
    /\ Pending(new) <=> node.type = "MAPPING_START" /\ ~Pending(node)

\* The last of a sequence that is not empty.
LEMMA LastPair ==
    ASSUME NEW s \in Seq(Pair), s # <<>>
    PROVE  Last(s) = s[Len(s)] /\ Len(s) \in DOMAIN s /\ Len(s) \in Nat \ {0} /\ DOMAIN s = 1..Len(s)
<1>1. Len(s) \in Nat \ {0} /\ Last(s) = s[Len(s)] /\ DOMAIN s = 1..Len(s)
  BY PopFacts, LenProperties
<1> HIDE DEF Pair
<1> QED BY <1>1

\* A new item of a sequence.
LEMMA ItemPlaced ==
    ASSUME NEW node \in Node, node.type = "SEQUENCE_START", NEW D,
           NEW index \in 1..StackLimit, index \in D, NodeLinked(node, D)
    PROVE  Placed(node, WithChild(node, index), index, D)
<1> DEFINE new == WithChild(node, index)
           its == Append(node.items, index)
<1>1. /\ node.items \in Seq(1..StackLimit) /\ node.pairs \in Seq(Pair)
      /\ node.type \in NodeEvents /\ node.from \in 1..MaxEvents
      /\ node.tag \in {"none", "!", "given"}
  BY DEF Node
<1>2. /\ new \in Node /\ new.items = its /\ new.pairs = node.pairs /\ new.type = node.type
      /\ new.from = node.from /\ new.tag = node.tag
  <2>1. new = [node EXCEPT !.items = its] /\ its \in Seq(1..StackLimit)
    BY <1>1, PushPop DEF WithChild
  <2> HIDE DEF its
  <2> QED BY <1>1, <2>1 DEF Node
<1>3. /\ its \in Seq(1..StackLimit) /\ Len(its) = Len(node.items) + 1
      /\ its[Len(node.items) + 1] = index
      /\ \A k \in 1..Len(node.items) : its[k] = node.items[k]
      /\ Len(node.items) \in Nat
  BY <1>1, PushPop, LenProperties
<1>4. DOMAIN its = 1..(Len(node.items) + 1) /\ DOMAIN node.items = 1..Len(node.items)
  BY <1>1, <1>3, LenProperties
<1> HIDE DEF its, new
<1>5. \A k : k \in DOMAIN its <=> k \in DOMAIN node.items \/ k = Len(node.items) + 1
  BY <1>3, <1>4, Interval
<1>6. index \in Children(new)
  BY <1>2, <1>3, <1>5 DEF Children
<1>7. \A j \in Children(node) : j \in Children(new)
  <2>1. \A k \in DOMAIN node.items : k \in DOMAIN its /\ its[k] = node.items[k]
    BY <1>3, <1>4, <1>5
  <2> QED BY <1>2, <2>1 DEF Children
<1>8. NodeLinked(new, D)
  <2>1. \A k \in DOMAIN its : its[k] \in D
    BY <1>3, <1>4, <1>5 DEF NodeLinked
  <2> QED BY <1>2, <2>1 DEF NodeLinked
<1>9. ~Pending(new)
  <2>1. node.pairs = <<>>
    BY DEF NodeLinked
  <2> QED BY <1>2, <2>1 DEF Pending
<1> QED
  BY <1>2, <1>6, <1>7, <1>8, <1>9 DEF Placed, new

\* A new pair of a mapping, with a key and no value.
LEMMA KeyPlaced ==
    ASSUME NEW node \in Node, node.type = "MAPPING_START", ~Pending(node), NEW D,
           NEW index \in 1..StackLimit, index \in D, NodeLinked(node, D)
    PROVE  Placed(node, WithChild(node, index), index, D)
<1> DEFINE new == WithChild(node, index)
           pair == [key |-> index, value |-> 0]
           prs == Append(node.pairs, pair)
           n == Len(node.pairs)
<1>1. /\ node.items \in Seq(1..StackLimit) /\ node.pairs \in Seq(Pair)
      /\ node.type \in NodeEvents /\ node.from \in 1..MaxEvents
      /\ node.tag \in {"none", "!", "given"} /\ n \in Nat /\ DOMAIN node.pairs = 1..n
  BY LenProperties DEF Node
<1>2. pair \in Pair /\ pair.key = index /\ pair.value = 0
  BY LoaderAssumption DEF Pair
<1> HIDE DEF pair
<1>3. /\ prs \in Seq(Pair) /\ Len(prs) = n + 1 /\ prs[n + 1] = pair
      /\ \A k \in 1..n : prs[k] = node.pairs[k]
      /\ Last(prs) = pair /\ prs # <<>>
  BY <1>1, <1>2, PushPop
<1>4. /\ new \in Node /\ new.pairs = prs /\ new.items = node.items /\ new.type = node.type
      /\ new.from = node.from /\ new.tag = node.tag
  BY <1>1, <1>3 DEF WithChild, Node, pair
<1>5. DOMAIN prs = 1..(n + 1)
  BY <1>3, LenProperties
<1> HIDE DEF prs, new, n
<1>6. \A k : k \in DOMAIN prs <=> k \in DOMAIN node.pairs \/ k = n + 1
  BY <1>1, <1>5, Interval
<1>7. \A k \in DOMAIN node.pairs : prs[k] = node.pairs[k]
  BY <1>1, <1>3
<1>8. index \in Children(new)
  BY <1>2, <1>3, <1>4, <1>6 DEF Children
<1>9. \A j \in Children(node) : j \in Children(new)
  BY <1>4, <1>6, <1>7 DEF Children
<1>10. \A k \in DOMAIN node.pairs : node.pairs[k].value # 0
  <2> SUFFICES ASSUME NEW k \in DOMAIN node.pairs, node.pairs[k].value = 0 PROVE FALSE
    OBVIOUS
  <2>1. k = n
    BY DEF NodeLinked, n
  <2>2. node.pairs # <<>>
    <3>1. DOMAIN <<>> = {}
      OBVIOUS
    <3> QED BY <3>1
  <2>3. Last(node.pairs) = node.pairs[n]
    BY <1>1, <2>2, LastPair DEF n
  <2> QED BY <2>1, <2>2, <2>3 DEF Pending
<1>11. NodeLinked(new, D)
  <2>1. \A k \in DOMAIN prs : /\ prs[k].key \in D /\ prs[k].value \in D \cup {0}
                              /\ prs[k].value = 0 => k = n + 1
    BY <1>2, <1>3, <1>6, <1>7, <1>10 DEF NodeLinked
  <2> QED BY <1>3, <1>4, <2>1 DEF NodeLinked
<1>12. Pending(new)
  BY <1>2, <1>3, <1>4 DEF Pending
<1> QED
  BY <1>4, <1>8, <1>9, <1>11, <1>12 DEF Placed, new

\* The value of the last pair of a mapping.
LEMMA ValuePlaced ==
    ASSUME NEW node \in Node, node.type = "MAPPING_START", Pending(node), NEW D,
           NEW index \in 1..StackLimit, index \in D, NodeLinked(node, D)
    PROVE  Placed(node, WithChild(node, index), index, D)
<1> DEFINE new == WithChild(node, index)
           n == Len(node.pairs)
           pair == [node.pairs[n] EXCEPT !.value = index]
           prs == [node.pairs EXCEPT ![n] = pair]
<1>1. /\ node.items \in Seq(1..StackLimit) /\ node.pairs \in Seq(Pair)
      /\ node.type \in NodeEvents /\ node.from \in 1..MaxEvents
      /\ node.tag \in {"none", "!", "given"}
  BY DEF Node
<1>2. node.pairs # <<>> /\ node.pairs[n].value = 0 /\ n \in DOMAIN node.pairs /\ n \in 1..n
      /\ Last(node.pairs) = node.pairs[n] /\ n \in Nat \ {0} /\ DOMAIN node.pairs = 1..n
  BY <1>1, LastPair DEF Pending
<1>3. index # 0 /\ 1..StackLimit \subseteq 0..StackLimit
  OBVIOUS
<1>4. node.pairs[n] \in Pair
  BY <1>1, <1>2, ElementOfSeq
<1>5. pair \in Pair /\ pair.key = node.pairs[n].key /\ pair.value = index
  BY <1>3, <1>4 DEF Pair
<1>6. new = [node EXCEPT !.pairs = prs]
  BY DEF WithChild
<1> HIDE DEF pair
<1>7. prs \in Seq(Pair) /\ Len(prs) = n
  <2> HIDE DEF n
  <2>1. n = Len(node.pairs)
    BY DEF n
  <2> QED BY <1>1, <1>2, <1>5, <2>1, ExceptSeq
<1>8. /\ DOMAIN prs = DOMAIN node.pairs /\ prs[n] = pair
      /\ \A k \in DOMAIN node.pairs : k # n => prs[k] = node.pairs[k]
  BY <1>2
<1> HIDE DEF prs
<1>9. /\ new \in Node /\ new.pairs = prs /\ new.items = node.items /\ new.type = node.type
      /\ new.from = node.from /\ new.tag = node.tag
  BY <1>1, <1>6, <1>7 DEF Node
<1> HIDE DEF new, n
<1>10. index \in Children(new)
  BY <1>2, <1>5, <1>8, <1>9 DEF Children
<1>11. \A k \in DOMAIN prs : /\ prs[k].key = node.pairs[k].key
                             /\ k # n => prs[k].value = node.pairs[k].value
  BY <1>5, <1>8
<1>12. \A j \in Children(node) : j # 0 => j \in Children(new)
  BY <1>2, <1>8, <1>9, <1>11 DEF Children
<1>13. NodeLinked(new, D)
  <2>1. \A k \in DOMAIN prs : /\ prs[k].key \in D /\ prs[k].value \in D \cup {0}
                              /\ prs[k].value = 0 => k = n
    BY <1>5, <1>8, <1>11 DEF NodeLinked, n
  <2> QED BY <1>7, <1>9, <2>1 DEF NodeLinked
<1>14. ~Pending(new)
  <2>1. prs # <<>>
    <3>1. Len(<<>>) = 0
      OBVIOUS
    <3> QED BY <1>2, <1>7, <3>1
  <2>2. Last(prs) = prs[n]
    BY <1>7, <2>1, LastPair
  <2> QED BY <1>3, <1>5, <1>8, <1>9, <2>2 DEF Pending
<1> QED
  BY <1>9, <1>10, <1>12, <1>13, <1>14 DEF Placed, new

\* yaml_parser_load_node_add puts the index of a node into its parent's items or pairs.
LEMMA ChildPlaced ==
    ASSUME NEW node \in Node, node.type \in Collections, NEW D,
           NEW index \in 1..StackLimit, index \in D, NodeLinked(node, D)
    PROVE  Placed(node, WithChild(node, index), index, D)
BY ItemPlaced, KeyPlaced, ValuePlaced DEF Collections

\* The nodes new go on from nds: only node p may lack a value where it did not,
\* or have one where it lacked it.
Extended(nds, new, p) ==
    /\ new \in Seq(Node) /\ DOMAIN nds \subseteq DOMAIN new
    /\ \A i \in DOMAIN nds :
          /\ new[i].type = nds[i].type /\ new[i].from = nds[i].from /\ new[i].tag = nds[i].tag
          /\ \A j \in Children(nds[i]) : j # 0 => j \in Children(new[i])
          /\ i # p => (Pending(new[i]) <=> Pending(nds[i]))

HasChild(nds, new, p, index) == new = [nds EXCEPT ![p] = WithChild(nds[p], index)]

AllLinked(nds) == \A i \in DOMAIN nds : NodeLinked(nds[i], DOMAIN nds)

\* Node p has one more child.
LEMMA ChildAdded ==
    ASSUME NEW nds \in Seq(Node), NEW p \in DOMAIN nds, nds[p].type \in Collections,
           NEW index \in 1..StackLimit, index \in DOMAIN nds, AllLinked(nds),
           NEW new, HasChild(nds, new, p, index)
    PROVE  /\ Extended(nds, new, p) /\ Len(new) = Len(nds) /\ DOMAIN new = DOMAIN nds
           /\ index \in Children(new[p]) /\ AllLinked(new)
           /\ Pending(new[p]) <=> nds[p].type = "MAPPING_START" /\ ~Pending(nds[p])
<1> DEFINE child == WithChild(nds[p], index)
<1>1. nds[p] \in Node /\ NodeLinked(nds[p], DOMAIN nds) /\ DOMAIN nds = 1..Len(nds)
  BY ElementOfSeq, LenProperties DEF AllLinked
<1>2. Placed(nds[p], child, index, DOMAIN nds) /\ new = [nds EXCEPT ![p] = child]
  BY <1>1, ChildPlaced DEF HasChild
<1> HIDE DEF child
<1>3. child \in Node
  BY <1>2 DEF Placed
<1>4. new \in Seq(Node) /\ Len(new) = Len(nds)
  BY <1>1, <1>2, <1>3, ExceptSeq
<1>5. /\ DOMAIN new = DOMAIN nds /\ new[p] = child
      /\ \A i \in DOMAIN nds : i # p => new[i] = nds[i]
  BY <1>2
<1>6. Extended(nds, new, p)
  BY <1>2, <1>4, <1>5 DEF Extended, Placed
<1>7. AllLinked(new)
  BY <1>2, <1>5 DEF AllLinked, Placed
<1>8. /\ index \in Children(new[p])
      /\ Pending(new[p]) <=> nds[p].type = "MAPPING_START" /\ ~Pending(nds[p])
  BY <1>2, <1>5 DEF Placed
<1> QED
  BY <1>4, <1>5, <1>6, <1>7, <1>8

\* There is one node more, without children.
LEMMA NodePushed ==
    ASSUME NEW nds \in Seq(Node), NEW node \in Node, node.items = <<>>, node.pairs = <<>>,
           AllLinked(nds)
    PROVE  LET new == Append(nds, node)
               index == Len(nds) + 1
           IN /\ new \in Seq(Node) /\ Len(new) = index /\ new[index] = node
              /\ \A i \in DOMAIN nds : new[i] = nds[i]
              /\ Len(nds) \in Nat /\ DOMAIN nds = 1..Len(nds)
              /\ DOMAIN new = 1..index /\ DOMAIN new = DOMAIN nds \cup {index}
              /\ AllLinked(new) /\ ~Pending(new[index])
              /\ \A p : Extended(nds, new, p)
<1> DEFINE new == Append(nds, node)
           index == Len(nds) + 1
<1>1. /\ new \in Seq(Node) /\ Len(new) = index /\ new[index] = node
      /\ \A i \in 1..Len(nds) : new[i] = nds[i]
  BY PushPop
<1>2. Len(nds) \in Nat /\ DOMAIN nds = 1..Len(nds) /\ DOMAIN new = 1..index
  BY <1>1, LenProperties
<1>3. DOMAIN new = DOMAIN nds \cup {index}
  <2>1. \A f : f \in 1..index <=> f \in 1..Len(nds) \/ f = index
    BY <1>2, Interval
  <2> HIDE DEF new, index
  <2> QED BY <1>2, <2>1
<1> HIDE DEF new, index
<1>4. \A i \in DOMAIN nds : new[i] = nds[i]
  BY <1>1, <1>2
<1>5. AllLinked(new)
  <2>1. \A i \in DOMAIN nds : NodeLinked(new[i], DOMAIN new)
    BY <1>3, <1>4 DEF AllLinked, NodeLinked
  <2>2. DOMAIN <<>> = {}
    OBVIOUS
  <2>3. NodeLinked(new[index], DOMAIN new)
    BY <1>1, <2>2 DEF NodeLinked
  <2> QED BY <1>3, <2>1, <2>3 DEF AllLinked
<1>6. ~Pending(new[index])
  BY <1>1 DEF Pending
<1>7. \A p : Extended(nds, new, p)
  BY <1>1, <1>3, <1>4 DEF Extended
<1> QED
  BY <1>1, <1>2, <1>3, <1>4, <1>5, <1>6, <1>7 DEF new, index

\* What the document owns follows from where its nodes came from.
LEMMA SameOwner ==
    ASSUME NEW nds, NEW new, NEW p, NEW dirs, Extended(nds, new, p), DOMAIN new = DOMAIN nds
    PROVE  DocumentOwns(new, dirs) = DocumentOwns(nds, dirs)
<1>1. \A i \in DOMAIN nds : NodeOwns(new[i]) = NodeOwns(nds[i])
  BY DEF Extended, NodeOwns
<1>2. {NodeOwns(new[i]) : i \in DOMAIN new} = {NodeOwns(nds[i]) : i \in DOMAIN nds}
  BY <1>1
<1> QED
  BY <1>2 DEF DocumentOwns

OneMore(nds, new, index) ==
    (\A i \in DOMAIN nds : new[i] = nds[i]) /\ DOMAIN new = DOMAIN nds \cup {index}

\* A pushed node adds its blocks to those of the document.
LEMMA PushedOwner ==
    ASSUME NEW nds, NEW new, NEW index, NEW dirs, OneMore(nds, new, index)
    PROVE  DocumentOwns(new, dirs) = DocumentOwns(nds, dirs) \cup NodeOwns(new[index])
<1>1. {NodeOwns(new[i]) : i \in DOMAIN new} =
         {NodeOwns(nds[i]) : i \in DOMAIN nds} \cup {NodeOwns(new[index])}
  BY DEF OneMore
<1>2. UNION {NodeOwns(new[i]) : i \in DOMAIN new} =
         (UNION {NodeOwns(nds[i]) : i \in DOMAIN nds}) \cup NodeOwns(new[index])
  BY <1>1
<1> QED
  BY <1>2 DEF DocumentOwns

\* The innermost collection, where a node is due in it.
LEMMA InnermostCollection ==
    ASSUME NEW fr, NEW cx, NEW als, NEW nds, Agrees(fr, cx, nds), cx \in Seq(Nat),
           Pointing(cx, als, nds), Last(fr) \in NodeFrames \ {"node"}
    PROVE  /\ cx # <<>> /\ Last(cx) \in DOMAIN nds
           /\ nds[Last(cx)].type =
                 IF Last(fr) = "seq" THEN "SEQUENCE_START" ELSE "MAPPING_START"
           /\ Pending(nds[Last(cx)]) <=> Last(fr) \in Owing
<1> DEFINE m == Len(fr) - 1
           c == Len(cx)
           w == WidthOf(Last(fr))
<1>1. /\ Depth(fr, m) \in Nat /\ Depth(fr, m) + w = c
      /\ c \in Nat /\ DOMAIN cx = 1..c
      /\ FrameFits(Last(fr), c, cx, nds)
      /\ \A i : OwesValue(fr, cx, i) <=> \/ OwesIn(fr, cx, i, m)
                                         \/ Last(fr) \in Owing /\ cx[c] = i
  BY Innermost
<1>2. Last(fr) \in CollectionFrames /\ w \in {1, 2}
  BY DEF NodeFrames, WidthOf, CollectionFrames, PairFrames
<1> HIDE DEF w, c
<1>3. c >= 1 /\ c > Depth(fr, m) /\ c \in 1..c
  BY <1>1, <1>2
<1>4. cx # <<>> /\ Last(cx) = cx[c] /\ c \in DOMAIN cx
  <2>1. Len(cx) >= 1
    BY <1>3 DEF c
  <2>2. cx # <<>> /\ Last(cx) = cx[Len(cx)]
    BY <2>1, ContextPop
  <2> QED BY <1>1, <1>3, <2>2 DEF c
<1>5. cx[c] \in DOMAIN nds
  BY <1>4 DEF Pointing
<1>6. nds[cx[c]].type = IF Last(fr) = "seq" THEN "SEQUENCE_START" ELSE "MAPPING_START"
  BY <1>1, <1>2 DEF FrameFits
<1>7. ~OwesIn(fr, cx, cx[c], m)
  BY <1>3, <1>4, OwedElsewhere
<1>8. Pending(nds[cx[c]]) <=> OwesValue(fr, cx, cx[c])
  BY <1>5 DEF Agrees, ContextFits
<1> HIDE DEF m
<1> QED
  BY <1>1, <1>4, <1>5, <1>6, <1>7, <1>8

\* A node takes the place that was due, in a collection or as the root.
LEMMA Taken ==
    ASSUME NEW fr, NEW cx, NEW als, NEW nds, NEW new,
           Agrees(fr, cx, nds), cx \in Seq(Nat), Pointing(cx, als, nds),
           Last(fr) \in NodeFrames, Grown(nds, new, Last(cx)),
           cx # <<>> => (Pending(new[Last(cx)]) <=>
              nds[Last(cx)].type = "MAPPING_START" /\ ~Pending(nds[Last(cx)]))
    PROVE  Agrees(AfterNode(fr), cx, new)
<1>1. CASE Last(fr) = "node"
  <2>1. nds = <<>>
    BY <1>1, InnermostFrame DEF Agrees
  <2>2. DOMAIN <<>> = {}
    OBVIOUS
  <2>3. new # <<>> /\ \A i \in DOMAIN new : ~Pending(new[i])
    BY <2>1, <2>2 DEF Grown
  <2> QED BY <1>1, <2>3, RootTaken
<1>2. CASE Last(fr) \in NodeFrames \ {"node"}
  <2>1. /\ cx # <<>>
        /\ nds[Last(cx)].type = IF Last(fr) = "seq" THEN "SEQUENCE_START" ELSE "MAPPING_START"
        /\ Pending(nds[Last(cx)]) <=> Last(fr) \in Owing
    BY <1>2, InnermostCollection
  <2>2. Followed(Last(fr)) \in Owing <=> Last(fr) # "seq" /\ Last(fr) \notin Owing
    BY <1>2 DEF Followed, NodeFrames, Owing
  <2>3. Pending(new[Last(cx)]) <=> Followed(Last(fr)) \in Owing
    <3>1. nds[Last(cx)].type = "MAPPING_START" <=> Last(fr) # "seq"
      BY <2>1
    <3> QED BY <2>1, <2>2, <3>1
  <2> QED BY <1>2, <2>3, NodeTaken
<1> QED BY <1>1, <1>2

\* The links of all nodes, and that each one hangs below an earlier one.
Hanging(nds, i) == \E p \in 1..(i - 1) : i \in Children(nds[p])

\* Linked, one node at a time.
LEMMA LinkedParts ==
    ASSUME NEW nds
    PROVE  Linked(nds) <=> AllLinked(nds) /\ \A i \in DOMAIN nds \ {1} : Hanging(nds, i)
BY DEF Linked, AllLinked, NodeLinked, Hanging

\* Nodes hang where they did.
LEMMA HangingStays ==
    ASSUME NEW nds \in Seq(Node), NEW new, NEW p, Extended(nds, new, p),
           NEW i \in DOMAIN nds, Hanging(nds, i)
    PROVE  Hanging(new, i)
<1>1. PICK q \in 1..(i - 1) : i \in Children(nds[q])
  BY DEF Hanging
<1>2. DOMAIN nds = 1..Len(nds) /\ Len(nds) \in Nat
  BY LenProperties
<1>3. q \in DOMAIN nds /\ i # 0
  BY <1>1, <1>2
<1> QED
  BY <1>1, <1>3 DEF Extended, Hanging

\* A smaller number is another number.
LEMMA Earlier == \A m, n \in Nat : m < n => m # n
OBVIOUS

\* The parts of the event at hand are in nothing else.
LEMMA NewParts ==
    ASSUME Inv, pc = "load nodes", event \in NodeEvents \cup {"ALIAS"}
    PROVE  /\ EventStrings \subseteq {<<parsed, p>> : p \in NodeParts}
           /\ \A p \in NodeParts : /\ <<parsed, p>> \notin DocumentOwns(nodes, directives)
                                   /\ <<parsed, p>> \notin Kept(aliases)
<1>1. Fresh /\ Typed /\ event # "NO" /\ event # "DOCUMENT_START"
  BY HandlingNodes DEF NodeEvents
<1>2. carried.directives = FALSE
  BY <1>1 DEF Typed, Carriable
<1>3. EventStrings \subseteq {<<parsed, p>> : p \in NodeParts}
  BY <1>2 DEF EventStrings, Strings, NodeParts
<1>4. /\ parsed \in Nat /\ Directives(directives)
      /\ \A i \in DOMAIN nodes : nodes[i].from \in Nat /\ nodes[i].from < parsed
      /\ \A i \in DOMAIN aliases : aliases[i].from \in Nat /\ aliases[i].from < parsed
  BY <1>1, Elements DEF Fresh
<1>5. /\ \A i \in DOMAIN nodes : nodes[i].from # parsed
      /\ \A i \in DOMAIN aliases : aliases[i].from # parsed
  BY <1>4, Earlier, Zenon
<1>6. \A p \in NodeParts : <<parsed, p>> \notin DocumentOwns(nodes, directives)
  BY <1>4, <1>5, DocumentApart
<1>7. ASSUME NEW p \in NodeParts, <<parsed, p>> \in Kept(aliases) PROVE FALSE
  <2>1. p # "ctx" /\ p # "aliases"
    BY DEF NodeParts
  <2>2. \/ <<parsed, p>> = <<0, "ctx">> \/ <<parsed, p>> = <<0, "aliases">>
        \/ \E i \in DOMAIN aliases : <<parsed, p>> = <<aliases[i].from, "anchor">>
    BY <1>7 DEF Kept, AliasesOwn
  <2> QED BY <1>5, <2>1, <2>2, BlockNames
<1> QED
  BY <1>3, <1>6, <1>7

\* yaml_parser_load_alias.
LEMMA AliasKeeps == Inv /\ load_alias => Inv'
<1> SUFFICES ASSUME Inv, load_alias PROVE Inv'
  OBVIOUS
<1> DEFINE found == Registered(carried.anchor)
           index == aliases[CHOOSE i \in found : TRUE].index
<1>1. /\ pc = "load nodes" /\ event = "ALIAS"
      /\ frames' = frames /\ event' = event /\ carried' = carried /\ parsed' = parsed
  BY DEF load_alias, Handles
<1>2. /\ Typed /\ Fresh /\ FramesOK(frames) /\ Linked(nodes) /\ bad_free = FALSE
      /\ Pointing(ctx, aliases, nodes) /\ ctx \in Seq(Nat) /\ Accounts
      /\ error \in {"NO", "MEMORY", "COMPOSER"}
      /\ heap = DocumentOwns(nodes, directives) \cup Kept(aliases) \cup EventStrings
      /\ DocumentOwns(nodes, directives) \cap Kept(aliases) = {}
      /\ Behind
  BY <1>1, HandlingNodes
<1>3. /\ EventStrings \cap DocumentOwns(nodes, directives) = {}
      /\ EventStrings \cap Kept(aliases) = {}
  BY <1>1, NewParts
<1>4. FramesOK(frames') /\ Received(event', carried', parsed')
  BY <1>1, <1>2 DEF Received, Typed
<1>5. Accounted(EventStrings, nodes, directives, aliases, heap)
  BY <1>2, <1>3 DEF Accounted
<1>6. CASE \E err \in {"NO", "MEMORY", "COMPOSER"} :
              load_error(err, EventStrings, nodes, directives, aliases, heap)
  BY <1>2, <1>4, <1>5, <1>6, LoadErrorKeeps
<1>7. CASE /\ found # {}
           /\ nodes' = load_node_add(nodes, index)
           /\ heap' = heap \ EventStrings
           /\ pc' = "nodes"
           /\ UNCHANGED <<error, directives, ctx, aliases, bad_free, result>>
  <2>1. /\ pc' = "nodes" /\ error' = error /\ directives' = directives /\ ctx' = ctx
        /\ aliases' = aliases /\ result' = result /\ heap' = heap \ EventStrings
        /\ nodes' = load_node_add(nodes, index)
    BY <1>7
  <2>2. bad_free' = FALSE
    BY <1>2, <1>7
  <2>3. index \in DOMAIN nodes /\ index \in 1..StackLimit
    <3>1. PICK i \in DOMAIN aliases : index = aliases[i].index
      BY <1>7 DEF Registered
    <3>2. aliases[i] \in Alias
      BY Elements
    <3> HIDE DEF index
    <3> QED BY <1>2, <3>1, <3>2 DEF Pointing, Alias
  <2> HIDE DEF index, found
  <2>4. PICK before : Agrees(before, ctx, nodes) /\ Stepped(before, frames, event)
    BY <1>2 DEF Behind
  <2>5. Last(before) \in NodeFrames /\ frames = AfterNode(before)
    BY <1>1, <2>4 DEF Stepped
  <2>6. nodes # <<>>
    <3>1. DOMAIN <<>> = {}
      OBVIOUS
    <3> QED BY <2>3, <3>1
  <2>7. Last(before) # "node"
    BY <2>4, <2>6, InnermostFrame DEF Agrees
  <2> DEFINE p == Last(ctx)
  <2>8. ctx # <<>> /\ p \in DOMAIN nodes /\ nodes[p].type \in Collections
    BY <1>2, <2>4, <2>5, <2>7, InnermostCollection DEF Collections
  <2>9. nodes' = [nodes EXCEPT ![p] = WithChild(nodes[p], index)]
    BY <2>1, <2>8 DEF load_node_add
  <2> HIDE DEF p
  <2>10. nodes \in Seq(Node) /\ Len(nodes) <= StackLimit
    BY <1>2 DEF Typed
  <2>11. AllLinked(nodes) /\ \A i \in DOMAIN nodes \ {1} : Hanging(nodes, i)
    BY <1>2, LinkedParts
  <2>12. /\ Extended(nodes, nodes', p) /\ Len(nodes') = Len(nodes) /\ DOMAIN nodes' = DOMAIN nodes
         /\ AllLinked(nodes')
         /\ Pending(nodes'[p]) <=> nodes[p].type = "MAPPING_START" /\ ~Pending(nodes[p])
    <3>1. HasChild(nodes, nodes', p, index)
      BY <2>9 DEF HasChild
    <3> QED BY <2>3, <2>8, <2>10, <2>11, <3>1, ChildAdded
  <2>13. Linked(nodes')
    <3>1. \A i \in DOMAIN nodes' \ {1} : Hanging(nodes', i)
      BY <2>10, <2>11, <2>12, HangingStays
    <3> QED BY <2>12, <3>1, LinkedParts
  <2>14. Agrees(frames', ctx', nodes')
    <3>1. nodes' # <<>>
      <4>1. DOMAIN <<>> = {}
        OBVIOUS
      <4> QED BY <2>3, <2>12, <4>1
    <3>2. Grown(nodes, nodes', p)
      BY <2>12, <3>1 DEF Grown, Extended
    <3>3. Agrees(AfterNode(before), ctx, nodes')
      BY <1>2, <2>4, <2>5, <2>12, <3>2, Taken DEF p
    <3> QED BY <1>1, <2>1, <2>5, <3>3
  <2>15. Typed'
    <3>1. /\ error' \in {"NO", "MEMORY", "COMPOSER"} /\ nodes' \in Seq(Node)
          /\ Len(nodes') <= StackLimit /\ result' \in {"none", "OK", "FAIL"}
          /\ ctx' \in Seq(1..StackLimit) /\ aliases' \in Seq(Alias)
      BY <1>2, <2>1, <2>10, <2>12 DEF Typed, Extended
    <3> QED BY <1>1, <1>2, <2>2, <3>1, TypedStays
  <2>16. Pointing(ctx', aliases', nodes')
    BY <1>2, <2>1, <2>12 DEF Pointing
  <2>17. Control'
    BY <2>1, <2>14 DEF Control, Loading
  <2>18. Fresh'
    BY <1>1, <1>2, <2>1, <2>12 DEF Fresh, Extended
  <2>19. Accounts'
    <3>1. DocumentOwns(nodes', directives') = DocumentOwns(nodes, directives)
      BY <2>1, <2>12, SameOwner
    <3>2. heap' = DocumentOwns(nodes, directives) \cup Kept(aliases)
      BY <1>2, <1>3, <2>1
    <3>3. <<0, "nodes">> \in heap'
      BY <3>2 DEF DocumentOwns
    <3> QED BY <2>1, <2>2, <3>1, <3>2, <3>3 DEF Accounts, Loading
  <2> QED BY <1>4, <2>1, <2>13, <2>15, <2>16, <2>17, <2>18, <2>19 DEF Inv
<1> QED
  BY <1>6, <1>7 DEF load_alias, NodeFailed, NoMemory

-----------------------------------------------------------------------------
(* A node is made.                                                         *)

\* The node, and the heap when it has its tag and when it has its array.
NewNode == [type |-> event, from |-> parsed, tag |-> carried.tag,
            items |-> <<>>, pairs |-> <<>>]
TaggedHeap == IF carried.tag = "given" THEN heap
              ELSE (heap \ {<<parsed, "tag">>}) \cup {<<parsed, "default tag">>}
MadeHeap == IF event \in Collections THEN TaggedHeap \cup {<<parsed, "children">>}
            ELSE TaggedHeap
NewBlocks == {<<parsed, p>> : p \in NodeParts}

MakesNode == Inv /\ pc = "load nodes" /\ event \in NodeEvents

\* What the three functions that make a node make of an event.
LEMMA NewNodeFacts ==
    ASSUME MakesNode
    PROVE  /\ NewNode \in Node /\ NewNode.items = <<>> /\ NewNode.pairs = <<>>
           /\ NewNode.type = event /\ NewNode.from = parsed /\ NewNode.tag = carried.tag
           /\ parsed \in 1..MaxEvents /\ carried.anchor \in Anchors \cup {"none"}
           /\ carried.directives = FALSE
<1>1. Typed /\ event \in NodeEvents
  BY HandlingNodes DEF MakesNode
<1>2. event # "NO" /\ event # "DOCUMENT_START"
  BY <1>1 DEF NodeEvents
<1>3. carried.tag \in Tags /\ carried.anchor \in Anchors \cup {"none"} /\ carried.directives = FALSE
  BY <1>1, <1>2 DEF Typed, Carriable
<1>4. carried.tag \in {"none", "!", "given"}
  BY <1>3, LoaderAssumption
<1>5. parsed \in 1..MaxEvents
  BY <1>1, <1>2, LoaderAssumption DEF Typed
<1>6. <<>> \in Seq(1..StackLimit) /\ <<>> \in Seq(Pair)
  OBVIOUS
<1> QED
  BY <1>1, <1>3, <1>4, <1>5, <1>6 DEF NewNode, Node

\* What is allocated then is the document's, the call's, or the new node's.
LEMMA NodeMade ==
    ASSUME MakesNode
    PROVE  /\ DocumentOwns(nodes, directives) \subseteq TaggedHeap
           /\ TaggedHeap \subseteq DocumentOwns(nodes, directives) \cup Kept(aliases) \cup NewBlocks
           /\ MadeHeap = DocumentOwns(nodes, directives) \cup Kept(aliases) \cup AnchorString
                         \cup NodeOwns(NewNode)
           /\ AnchorString \subseteq {<<parsed, "anchor">>}
           /\ AnchorString \cup NodeOwns(NewNode) \subseteq NewBlocks
           /\ <<parsed, "anchor">> \notin NodeOwns(NewNode)
<1> DEFINE D == DocumentOwns(nodes, directives)
           K == Kept(aliases)
           tag == <<parsed, "tag">>
           default == <<parsed, "default tag">>
           value == <<parsed, "value">>
           children == <<parsed, "children">>
           anchor == <<parsed, "anchor">>
           T == IF carried.tag # "none" THEN {tag} ELSE {}
           V == IF event = "SCALAR" THEN {value} ELSE {}
<1>1. /\ carried.directives = FALSE /\ NewNode.type = event /\ NewNode.from = parsed
      /\ NewNode.tag = carried.tag
  BY NewNodeFacts
<1>2. heap = D \cup K \cup EventStrings /\ event \in NodeEvents
  BY HandlingNodes DEF MakesNode
<1>3. \A p \in NodeParts : <<parsed, p>> \notin D /\ <<parsed, p>> \notin K
  BY NewParts DEF MakesNode
<1>4. tag \notin D /\ tag \notin K
  BY <1>3 DEF NodeParts
<1>5. EventStrings = AnchorString \cup T \cup V /\ AnchorString \subseteq {anchor}
  <2>1. EventStrings = (IF carried.anchor # "none" THEN {anchor} ELSE {}) \cup T \cup V
    BY <1>1 DEF EventStrings, Strings
  <2>2. anchor \notin T \cup V
    <3>1. anchor # tag /\ anchor # value
      BY BlockNames
    <3> QED BY <3>1
  <2>3. AnchorString = {anchor} \cap EventStrings
    BY DEF AnchorString
  <2> HIDE DEF T, V, anchor
  <2> QED BY <2>1, <2>2, <2>3
<1>6. tag # default /\ tag # value /\ tag # anchor /\ anchor # default /\ anchor # value
      /\ anchor # children
  BY BlockNames
<1>7. /\ carried.tag = "given" => T = {tag}
      /\ T \subseteq {tag}
      /\ event \in Collections => V = {}
      /\ event \notin Collections => V = {value} /\ event = "SCALAR"
      /\ event \in Collections => event # "SCALAR"
      /\ V \subseteq {value}
  BY <1>2 DEF Collections, NodeEvents
<1>8. {tag, default, value, children, anchor} \subseteq NewBlocks
  BY DEF NewBlocks, NodeParts
<1>9. NodeOwns(NewNode) = {IF carried.tag = "given" THEN tag ELSE default,
                           IF event = "SCALAR" THEN value ELSE children}
  BY <1>1 DEF NodeOwns
<1>10. TaggedHeap = IF carried.tag = "given" THEN heap ELSE (heap \ {tag}) \cup {default}
  BY DEF TaggedHeap
<1>11. MadeHeap = IF event \in Collections THEN TaggedHeap \cup {children} ELSE TaggedHeap
  BY DEF MadeHeap
<1> HIDE DEF D, K, T, V, tag, default, value, children, anchor
<1>12. TaggedHeap = D \cup K \cup AnchorString \cup V
                    \cup {IF carried.tag = "given" THEN tag ELSE default}
  <2>1. CASE carried.tag = "given"
    BY <1>2, <1>5, <1>7, <1>10, <2>1
  <2>2. CASE carried.tag # "given"
    BY <1>2, <1>4, <1>5, <1>6, <1>7, <1>10, <2>2
  <2> QED BY <2>1, <2>2
<1>13. D \subseteq TaggedHeap /\ TaggedHeap \subseteq D \cup K \cup NewBlocks
  BY <1>5, <1>7, <1>8, <1>12
<1>14. MadeHeap = D \cup K \cup AnchorString \cup NodeOwns(NewNode)
  BY <1>7, <1>9, <1>11, <1>12
<1>15. AnchorString \cup NodeOwns(NewNode) \subseteq NewBlocks /\ anchor \notin NodeOwns(NewNode)
  BY <1>5, <1>6, <1>8, <1>9
<1> QED
  BY <1>5, <1>13, <1>14, <1>15 DEF D, K, anchor

\* Before the node is pushed, what there is of it is freed.
LEMMA NodeFreed ==
    ASSUME MakesNode, NEW hp, DocumentOwns(nodes, directives) \subseteq hp,
           hp \subseteq DocumentOwns(nodes, directives) \cup Kept(aliases) \cup NewBlocks
    PROVE  Accounted(FreedNode(hp), nodes, directives, aliases, hp)
<1>1. FreedNode(hp) = hp \cap NewBlocks
  BY DEF FreedNode, NewBlocks, NodeParts
<1>2. \A p \in NodeParts : <<parsed, p>> \notin DocumentOwns(nodes, directives)
  BY NewParts DEF MakesNode
<1>3. NewBlocks \cap DocumentOwns(nodes, directives) = {}
  BY <1>2 DEF NewBlocks
<1>4. DocumentOwns(nodes, directives) \cap Kept(aliases) = {}
  BY HandlingNodes DEF MakesNode
<1> QED
  BY <1>1, <1>3, <1>4 DEF Accounted

\* What the call keeps when the anchor is registered.
LEMMA KnownKept ==
    ASSUME MakesNode, NEW index
    PROVE  Kept(register_anchor(index)) = Kept(aliases) \cup AnchorString
<1>1. aliases \in Seq(Alias)
  BY HandlingNodes DEF MakesNode, Typed
<1>2. CASE carried.anchor = "none"
  <2>1. AnchorString = {}
    <3>1. <<parsed, "anchor">> \notin EventStrings
      BY <1>2, BlockNames DEF EventStrings, Strings
    <3> QED BY <3>1 DEF AnchorString
  <2> QED BY <1>2, <2>1 DEF register_anchor
<1>3. CASE carried.anchor # "none"
  <2>1. AnchorString = {<<parsed, "anchor">>}
    BY <1>3 DEF AnchorString, EventStrings, Strings
  <2> DEFINE r == [anchor |-> carried.anchor, index |-> index, from |-> parsed]
             als == Append(aliases, r)
             n == Len(aliases)
  <2>2. /\ DOMAIN aliases = 1..n /\ n \in Nat /\ DOMAIN als = 1..(n + 1) /\ als[n + 1] = r
        /\ \A i \in 1..n : als[i] = aliases[i]
    BY <1>1, LenProperties, AppendProperties
  <2>3. r.from = parsed /\ register_anchor(index) = als
    BY <1>3 DEF register_anchor
  <2> HIDE DEF als, r, n
  <2>4. \A i : i \in DOMAIN als <=> i \in DOMAIN aliases \/ i = n + 1
    BY <2>2, Interval
  <2>5. \A i \in DOMAIN aliases : als[i] = aliases[i]
    BY <2>2
  <2>6. {<<als[i].from, "anchor">> : i \in DOMAIN als} =
           {<<aliases[i].from, "anchor">> : i \in DOMAIN aliases} \cup {<<parsed, "anchor">>}
    BY <2>2, <2>3, <2>4, <2>5
  <2> QED BY <2>1, <2>3, <2>6 DEF Kept, AliasesOwn
<1> QED BY <1>2, <1>3

\* After the node is pushed, the document frees it.
LEMMA NodeOwned ==
    ASSUME MakesNode, NEW index, NEW none, none = {}
    PROVE  LET pushed == Append(nodes, NewNode) IN
           /\ DocumentOwns(pushed, directives) = DocumentOwns(nodes, directives) \cup NodeOwns(NewNode)
           /\ MadeHeap = DocumentOwns(pushed, directives) \cup Kept(register_anchor(index))
           /\ Accounted(AnchorString, pushed, directives, aliases, MadeHeap)
           /\ Accounted(none, pushed, directives, register_anchor(index), MadeHeap)
<1> DEFINE pushed == Append(nodes, NewNode)
           D == DocumentOwns(nodes, directives)
           E == DocumentOwns(pushed, directives)
           known == register_anchor(index)
<1>1. nodes \in Seq(Node) /\ AllLinked(nodes) /\ Directives(directives)
  BY HandlingNodes, LinkedParts, Elements DEF MakesNode, Typed
<1>2. NewNode \in Node /\ NewNode.items = <<>> /\ NewNode.pairs = <<>>
  BY NewNodeFacts
<1>3. /\ \A i \in DOMAIN nodes : pushed[i] = nodes[i]
      /\ DOMAIN pushed = DOMAIN nodes \cup {Len(nodes) + 1} /\ pushed[Len(nodes) + 1] = NewNode
  BY <1>1, <1>2, NodePushed
<1> HIDE DEF pushed
<1>4. E = D \cup NodeOwns(NewNode)
  <2>1. OneMore(nodes, pushed, Len(nodes) + 1)
    BY <1>3 DEF OneMore
  <2> QED BY <1>3, <2>1, PushedOwner
<1>5. Kept(known) = Kept(aliases) \cup AnchorString
  BY KnownKept
<1>6. /\ MadeHeap = D \cup Kept(aliases) \cup AnchorString \cup NodeOwns(NewNode)
      /\ AnchorString \subseteq {<<parsed, "anchor">>}
      /\ <<parsed, "anchor">> \notin NodeOwns(NewNode)
  BY NodeMade
<1>7. <<parsed, "anchor">> \notin D
  BY NewParts DEF MakesNode, NodeParts
<1>8. E \cap Kept(aliases) = {} /\ E \cap Kept(known) = {}
  BY <1>1, DocumentApart
<1> HIDE DEF D, E, known
<1>9. /\ Accounted(AnchorString, pushed, directives, aliases, MadeHeap)
  BY <1>4, <1>6, <1>7, <1>8 DEF Accounted, E
<1>10. Accounted(none, pushed, directives, known, MadeHeap)
  BY <1>4, <1>5, <1>6, <1>8 DEF Accounted, E
<1> QED
  BY <1>4, <1>5, <1>6, <1>9, <1>10 DEF pushed, D, E, known

\* Nothing is open where the root is due.
LEMMA RootOpens ==
    ASSUME NEW fr, NEW cx, NEW nds, Agrees(fr, cx, nds), cx \in Seq(Nat), Last(fr) = "node"
    PROVE  cx = <<>>
<1> DEFINE node == [items |-> <<>>, pairs |-> <<>>]
           new == <<node>>
<1>1. new # <<>> /\ DOMAIN new = {1} /\ new[1] = node /\ node.pairs = <<>>
  OBVIOUS
<1> HIDE DEF new, node
<1>2. \A i \in DOMAIN new : ~Pending(new[i])
  BY <1>1 DEF Pending
<1> QED
  BY <1>1, <1>2, RootTaken

\* The nodes with the new one in its place.
LEMMA NodeAdded ==
    ASSUME MakesNode, check_stack_limit(nodes),
           NEW before, Agrees(before, ctx, nodes), Last(before) \in NodeFrames,
           NEW new, new = load_node_add(Append(nodes, NewNode), Len(nodes) + 1)
    PROVE  LET index == Len(nodes) + 1 IN
           /\ Len(nodes) \in Nat /\ index \in 1..StackLimit
           /\ DOMAIN nodes = 1..Len(nodes) /\ DOMAIN new = DOMAIN nodes \cup {index}
           /\ Extended(nodes, new, Last(ctx)) /\ Len(new) = index
           /\ new[index].type = event /\ new[index].from = parsed /\ ~Pending(new[index])
           /\ Linked(new) /\ new # <<>>
           /\ ctx # <<>> => (Pending(new[Last(ctx)]) <=>
                 nodes[Last(ctx)].type = "MAPPING_START" /\ ~Pending(nodes[Last(ctx)]))
           /\ DocumentOwns(new, directives) = DocumentOwns(Append(nodes, NewNode), directives)
<1> DEFINE index == Len(nodes) + 1
           pushed == Append(nodes, NewNode)
           p == Last(ctx)
<1>1. /\ Typed /\ Linked(nodes) /\ Pointing(ctx, aliases, nodes) /\ ctx \in Seq(Nat)
  BY HandlingNodes DEF MakesNode
<1>2. nodes \in Seq(Node) /\ AllLinked(nodes) /\ \A i \in DOMAIN nodes \ {1} : Hanging(nodes, i)
  BY <1>1, LinkedParts DEF Typed
<1>3. /\ NewNode \in Node /\ NewNode.items = <<>> /\ NewNode.pairs = <<>>
      /\ NewNode.type = event /\ NewNode.from = parsed
  BY NewNodeFacts
<1>4. /\ pushed \in Seq(Node) /\ Len(pushed) = index /\ pushed[index] = NewNode
      /\ \A i \in DOMAIN nodes : pushed[i] = nodes[i]
      /\ Len(nodes) \in Nat /\ DOMAIN nodes = 1..Len(nodes)
      /\ DOMAIN pushed = DOMAIN nodes \cup {index}
      /\ AllLinked(pushed) /\ ~Pending(pushed[index])
      /\ \A q : Extended(nodes, pushed, q)
  BY <1>2, <1>3, NodePushed
<1>5. index \in 1..StackLimit
  BY <1>4, LoaderAssumption DEF check_stack_limit
<1>6. new = IF ctx = <<>> THEN pushed ELSE [pushed EXCEPT ![p] = WithChild(pushed[p], index)]
  BY DEF load_node_add
<1> HIDE DEF pushed, p
<1>7. index \notin DOMAIN nodes
  BY <1>4
<1>8. CASE ctx = <<>>
  <2>1. new = pushed
    BY <1>6, <1>8
  <2>2. Last(before) = "node"
    BY <1>1, <1>8, InnermostCollection
  <2>3. nodes = <<>>
    BY <2>2, InnermostFrame DEF Agrees
  <2>4. index = 1 /\ DOMAIN nodes = {}
    BY <2>3
  <2> HIDE DEF index
  <2>5. Linked(new)
    BY <1>4, <2>1, <2>4, LinkedParts
  <2>6. new # <<>>
    <3>1. DOMAIN <<>> = {}
      OBVIOUS
    <3> QED BY <1>4, <2>1, <3>1
  <2> QED BY <1>3, <1>4, <1>5, <1>8, <2>1, <2>5, <2>6 DEF index, pushed
<1>9. CASE ctx # <<>>
  <2>1. Last(before) # "node"
    BY <1>1, <1>9, RootOpens
  <2>2. p \in DOMAIN nodes /\ nodes[p].type \in Collections
    BY <1>1, <2>1, InnermostCollection DEF p, Collections
  <2>3. p \in DOMAIN pushed /\ pushed[p] = nodes[p] /\ index \in DOMAIN pushed /\ p # index
    BY <1>4, <1>7, <2>2
  <2>4. HasChild(pushed, new, p, index)
    BY <1>6, <1>9 DEF HasChild
  <2> HIDE DEF index
  <2>5. /\ Extended(pushed, new, p) /\ Len(new) = Len(pushed) /\ DOMAIN new = DOMAIN pushed
        /\ index \in Children(new[p]) /\ AllLinked(new)
        /\ Pending(new[p]) <=> nodes[p].type = "MAPPING_START" /\ ~Pending(nodes[p])
    BY <1>4, <1>5, <2>2, <2>3, <2>4, ChildAdded
  <2>6. Extended(nodes, new, p)
    <3>1. /\ new \in Seq(Node) /\ DOMAIN nodes \subseteq DOMAIN new
      BY <1>4, <2>5 DEF Extended
    <3>2. \A i \in DOMAIN nodes :
          /\ new[i].type = nodes[i].type /\ new[i].from = nodes[i].from /\ new[i].tag = nodes[i].tag
          /\ \A j \in Children(nodes[i]) : j # 0 => j \in Children(new[i])
          /\ i # p => (Pending(new[i]) <=> Pending(nodes[i]))
      <4> TAKE i \in DOMAIN nodes
      <4>1. i \in DOMAIN pushed /\ pushed[i] = nodes[i]
        BY <1>4
      <4> QED BY <2>5, <4>1 DEF Extended
    <3> QED BY <3>1, <3>2 DEF Extended
  <2>7. new[index].type = event /\ new[index].from = parsed /\ ~Pending(new[index])
    BY <1>3, <1>4, <2>3, <2>5 DEF Extended
  <2>8. Linked(new)
    <3>1. \A i \in DOMAIN nodes \ {1} : Hanging(new, i)
      BY <1>2, <2>6, HangingStays
    <3>2. Hanging(new, index)
      <4>1. p \in 1..(index - 1)
        BY <1>4, <2>2 DEF index
      <4> QED BY <2>5, <4>1 DEF Hanging
    <3>3. \A i \in DOMAIN new \ {1} : Hanging(new, i)
      BY <1>4, <2>5, <3>1, <3>2
    <3> QED BY <2>5, <3>3, LinkedParts
  <2>9. DocumentOwns(new, directives) = DocumentOwns(pushed, directives)
    BY <2>5, SameOwner
  <2>10. new # <<>>
    <3>1. DOMAIN <<>> = {}
      OBVIOUS
    <3> QED BY <2>3, <2>5, <3>1
  <2>11. Len(new) = index /\ DOMAIN new = DOMAIN nodes \cup {index}
    BY <1>4, <2>5
  <2> QED BY <1>4, <1>5, <2>5, <2>6, <2>7, <2>8, <2>9, <2>10, <2>11 DEF index, p, pushed
<1> QED BY <1>8, <1>9

\* The context and the anchors still point to nodes.
Knows(als, more, index) ==
    more = als \/ \E r \in Alias : r.index = index /\ more = Append(als, r)
Holds(nds, new, index) ==
    /\ index \in Nat /\ index \notin DOMAIN nds
    /\ DOMAIN nds \subseteq DOMAIN new /\ index \in DOMAIN new

\* The context and the aliases point at nodes as before when a node is pushed.
LEMMA PointingGrows ==
    ASSUME NEW cx, NEW als \in Seq(Alias), NEW nds, NEW new, NEW index, Pointing(cx, als, nds),
           cx \in Seq(Nat), Holds(nds, new, index),
           NEW more, Knows(als, more, index)
    PROVE  /\ Pointing(cx, more, new) /\ Pointing(Append(cx, index), more, new)
           /\ \A k \in DOMAIN cx : cx[k] # index
<1>0. /\ index \in Nat /\ index \notin DOMAIN nds
      /\ DOMAIN nds \subseteq DOMAIN new /\ index \in DOMAIN new
  BY DEF Holds
<1>1. \A k \in DOMAIN more : more[k].index \in DOMAIN new
  <2>1. CASE more = als
    BY <1>0, <2>1 DEF Pointing
  <2>2. CASE \E r \in Alias : r.index = index /\ more = Append(als, r)
    <3>1. PICK r \in Alias : r.index = index /\ more = Append(als, r)
      BY <2>2
    <3> DEFINE n == Len(als)
    <3>2. /\ n \in Nat /\ DOMAIN als = 1..n /\ DOMAIN more = 1..(n + 1)
          /\ more[n + 1] = r /\ \A k \in 1..n : more[k] = als[k]
      BY <3>1, LenProperties, AppendProperties
    <3> HIDE DEF n
    <3> QED BY <1>0, <3>1, <3>2, Interval DEF Pointing
  <2> QED BY <2>1, <2>2 DEF Knows
<1>2. \A k \in DOMAIN cx : cx[k] \in DOMAIN nds /\ cx[k] # index
  BY <1>0 DEF Pointing
<1>3. Pointing(cx, more, new)
  BY <1>0, <1>1, <1>2 DEF Pointing
<1> DEFINE dx == Append(cx, index)
           c == Len(cx)
<1>4. /\ c \in Nat /\ DOMAIN cx = 1..c /\ DOMAIN dx = 1..(c + 1) /\ dx[c + 1] = index
      /\ \A k \in 1..c : dx[k] = cx[k]
  BY <1>0, LenProperties, AppendProperties
<1> HIDE DEF dx, c
<1>5. \A k \in DOMAIN dx : (k \in DOMAIN cx /\ dx[k] = cx[k]) \/ (k = c + 1 /\ dx[k] = index)
  BY <1>4, Interval
<1>6. \A k \in DOMAIN dx : dx[k] \in DOMAIN new
  BY <1>0, <1>2, <1>5
<1>7. \A j, k \in DOMAIN dx : dx[j] = dx[k] => j = k
  BY <1>2, <1>5 DEF Pointing
<1> QED
  BY <1>1, <1>2, <1>3, <1>6, <1>7 DEF Pointing, dx

\* The context follows the parser to the new node, and into it if it is a
\* collection.
LEMMA NodeAgrees ==
    ASSUME NEW fr, NEW gr, NEW e \in NodeEvents, NEW cx, NEW als, NEW nds, NEW more, NEW new,
           NEW index \in Nat,
           Agrees(fr, cx, nds), Stepped(fr, gr, e), cx \in Seq(Nat),
           Pointing(cx, als, nds), Pointing(cx, more, new), new # <<>>,
           Agrees(AfterNode(fr), cx, new), ~Pending(new[index]), new[index].type = e,
           \A k \in DOMAIN cx : cx[k] # index
    PROVE  Agrees(gr, IF e \in Collections THEN Append(cx, index) ELSE cx, new)
<1>1. CASE e = "SCALAR"
  BY <1>1 DEF Stepped, Collections
<1>2. CASE e = "SEQUENCE_START"
  <2>1. gr = Append(AfterNode(fr), "seq")
    BY <1>2 DEF Stepped
  <2>2. Agrees(Append(AfterNode(fr), "seq"), Append(cx, index), new)
    BY <1>2, CollectionEntered
  <2> QED BY <1>2, <2>1, <2>2 DEF Collections
<1>3. CASE e = "MAPPING_START"
  <2>1. CASE gr = Append(AfterNode(fr), "key")
    <3>1. Agrees(Append(AfterNode(fr), "key"), Append(cx, index), new)
      BY <1>3, CollectionEntered
    <3> QED BY <1>3, <2>1, <3>1 DEF Collections
  <2>2. CASE Last(fr) = "seq" /\ gr = Append(Front(fr), "pairkey")
    <3>1. fr \in Seq(AnyFrame) /\ fr # <<>>
      BY InnermostFrame DEF Agrees
    <3>2. AfterNode(fr) = fr
      <4>1. Append(Front(fr), Last(fr)) = fr
        BY <3>1, PopPush
      <4> QED BY <2>2, <4>1 DEF AfterNode, Followed
    <3>3. Agrees(gr, Append(cx, index), new)
      BY <1>3, <2>2, <3>2, PairEntered
    <3> QED BY <1>3, <3>3 DEF Collections
  <2> QED BY <1>3, <2>1, <2>2 DEF Stepped
<1> QED
  BY <1>1, <1>2, <1>3 DEF NodeEvents

\* The aliases with that of the new node.
LEMMA KnownFacts ==
    ASSUME MakesNode, NEW index \in 1..StackLimit
    PROVE  LET known == register_anchor(index) IN
           /\ known \in Seq(Alias)
           /\ Knows(aliases, known, index)
           /\ \A i \in DOMAIN known : known[i].from <= parsed
<1>1. /\ aliases \in Seq(Alias) /\ parsed \in Nat
      /\ \A i \in DOMAIN aliases : aliases[i].from <= parsed
  BY HandlingNodes, Elements DEF MakesNode, Typed
<1>2. parsed \in 1..MaxEvents /\ carried.anchor \in Anchors \cup {"none"}
  BY NewNodeFacts
<1>3. CASE carried.anchor = "none"
  BY <1>1, <1>3 DEF register_anchor, Knows
<1>4. CASE carried.anchor # "none"
  <2> DEFINE r == [anchor |-> carried.anchor, index |-> index, from |-> parsed]
             als == Append(aliases, r)
             n == Len(aliases)
  <2>1. r \in Alias /\ r.index = index /\ r.from = parsed
    BY <1>2, <1>4 DEF Alias
  <2> HIDE DEF r
  <2>2. /\ DOMAIN aliases = 1..n /\ n \in Nat /\ DOMAIN als = 1..(n + 1) /\ als[n + 1] = r
        /\ \A i \in 1..n : als[i] = aliases[i]
        /\ als \in Seq(Alias)
    BY <1>1, <2>1, LenProperties, AppendProperties
  <2>3. register_anchor(index) = als
    BY <1>4 DEF register_anchor, r
  <2>4. als = Append(aliases, r)
    OBVIOUS
  <2> HIDE DEF als, n
  <2>5. parsed <= parsed
    BY <1>1
  <2>6. \A i \in DOMAIN als : als[i].from <= parsed
    BY <1>1, <2>1, <2>2, <2>5, Interval
  <2> QED BY <2>1, <2>2, <2>3, <2>4, <2>6 DEF Knows
<1> QED BY <1>3, <1>4

\* The handler that makes a node succeeds.
LEMMA NodeSucceeds ==
    ASSUME MakesNode, check_stack_limit(nodes),
           nodes' = load_node_add(Append(nodes, NewNode), Len(nodes) + 1),
           aliases' = register_anchor(Len(nodes) + 1), heap' = MadeHeap,
           ctx' = IF event \in Collections THEN Append(ctx, Len(nodes) + 1) ELSE ctx,
           pc' = "nodes", UNCHANGED <<error, directives, result>>, bad_free' = bad_free,
           UNCHANGED <<frames, event, carried, parsed>>
    PROVE  Inv'
<1> DEFINE index == Len(nodes) + 1
           p == Last(ctx)
<1>1. /\ Typed /\ Fresh /\ FramesOK(frames) /\ bad_free = FALSE
      /\ Pointing(ctx, aliases, nodes) /\ ctx \in Seq(Nat)
      /\ error \in {"NO", "MEMORY", "COMPOSER"} /\ Behind
      /\ event \in NodeEvents
  <2>1. event \in NodeEvents => event # "NO"
    BY DEF NodeEvents
  <2> QED BY <2>1, HandlingNodes DEF MakesNode
<1>2. PICK before : Agrees(before, ctx, nodes) /\ Stepped(before, frames, event)
  BY <1>1 DEF Behind
<1>3. Last(before) \in NodeFrames
  BY <1>1, <1>2 DEF Stepped, NodeEvents, NodeFrames
<1>4. /\ Len(nodes) \in Nat /\ index \in 1..StackLimit
      /\ DOMAIN nodes = 1..Len(nodes) /\ DOMAIN nodes' = DOMAIN nodes \cup {index}
      /\ Extended(nodes, nodes', p) /\ Len(nodes') = index
      /\ nodes'[index].type = event /\ nodes'[index].from = parsed /\ ~Pending(nodes'[index])
      /\ Linked(nodes') /\ nodes' # <<>>
      /\ ctx # <<>> => (Pending(nodes'[p]) <=>
            nodes[p].type = "MAPPING_START" /\ ~Pending(nodes[p]))
      /\ DocumentOwns(nodes', directives) = DocumentOwns(Append(nodes, NewNode), directives)
  BY <1>2, <1>3, NodeAdded
<1>5. /\ frames' = frames /\ event' = event /\ carried' = carried /\ parsed' = parsed
      /\ error' = error /\ directives' = directives /\ result' = result
      /\ aliases' = register_anchor(index)
      /\ ctx' = IF event \in Collections THEN Append(ctx, index) ELSE ctx
  OBVIOUS
<1>6. index \notin DOMAIN nodes /\ index \in Nat /\ index <= StackLimit
  BY <1>4
<1> HIDE DEF index, p
<1>7. /\ aliases' \in Seq(Alias)
      /\ Knows(aliases, aliases', index)
      /\ \A i \in DOMAIN aliases' : aliases'[i].from <= parsed
  BY <1>4, <1>5, KnownFacts
<1>8. /\ Pointing(ctx, aliases', nodes') /\ Pointing(Append(ctx, index), aliases', nodes')
      /\ \A k \in DOMAIN ctx : ctx[k] # index
  <2>1. aliases \in Seq(Alias)
    BY <1>1 DEF Typed
  <2>2. Holds(nodes, nodes', index)
    BY <1>4, <1>6 DEF Holds
  <2> QED BY <1>1, <1>7, <2>1, <2>2, PointingGrows
<1>9. Agrees(AfterNode(before), ctx, nodes')
  <2>1. Grown(nodes, nodes', p)
    BY <1>4 DEF Grown, Extended
  <2> QED BY <1>1, <1>2, <1>3, <1>4, <2>1, Taken DEF p
<1>10. Agrees(frames', ctx', nodes')
  <2>1. Agrees(frames, IF event \in Collections THEN Append(ctx, index) ELSE ctx, nodes')
    BY <1>1, <1>2, <1>4, <1>6, <1>8, <1>9, NodeAgrees
  <2> QED BY <1>5, <2>1
<1>11. Pointing(ctx', aliases', nodes')
  BY <1>5, <1>8
<1>12. ctx' \in Seq(1..StackLimit)
  <2>1. ctx \in Seq(1..StackLimit)
    BY <1>1 DEF Typed
  <2>2. Append(ctx, index) \in Seq(1..StackLimit)
    BY <1>4, <2>1, PushPop
  <2> QED BY <1>5, <2>1, <2>2
<1>13. bad_free' = FALSE
  BY <1>1
<1>14. Typed'
  <2>1. nodes' \in Seq(Node) /\ Len(nodes') <= StackLimit
    BY <1>4, <1>6 DEF Extended
  <2>2. error' \in {"NO", "MEMORY", "COMPOSER"} /\ result' \in {"none", "OK", "FAIL"}
    BY <1>1, <1>5 DEF Typed
  <2> QED BY <1>1, <1>5, <1>7, <1>12, <1>13, <2>1, <2>2, TypedStays
<1>15. Control'
  BY <1>10 DEF Control, Loading
<1>16. Fresh'
  <2>1. \A i \in DOMAIN nodes' : nodes'[i].from <= parsed
    <3>1. parsed <= parsed
      <4>1. parsed \in Nat
        BY Elements DEF MakesNode
      <4> QED BY <4>1
    <3> QED BY <1>1, <1>4, <3>1 DEF Fresh, Extended
  <2> QED BY <1>1, <1>5, <1>7, <2>1 DEF Fresh
<1>17. Accounts'
  <2>1. PICK none : none = {}
    OBVIOUS
  <2>2. MadeHeap = DocumentOwns(Append(nodes, NewNode), directives) \cup Kept(register_anchor(index))
    BY <2>1, NodeOwned
  <2>3. heap' = DocumentOwns(nodes', directives') \cup Kept(aliases')
    BY <1>4, <1>5, <2>2
  <2>4. <<0, "nodes">> \in heap'
    BY <2>3 DEF DocumentOwns
  <2> QED BY <1>13, <2>3, <2>4 DEF Accounts, Loading
<1> QED
  BY <1>1, <1>4, <1>5, <1>11, <1>14, <1>15, <1>16, <1>17 DEF Inv

\* It fails: with the node and what came with it freed, or in the document.
LEMMA NodeFails ==
    ASSUME MakesNode, UNCHANGED <<frames, event, carried, parsed>>,
           NEW err \in {"NO", "MEMORY", "COMPOSER"},
           \/ load_error(err, FreedNode(heap), nodes, directives, aliases, heap)
           \/ load_error(err, FreedNode(TaggedHeap), nodes, directives, aliases, TaggedHeap)
           \/ load_error(err, FreedNode(MadeHeap), nodes, directives, aliases, MadeHeap)
           \/ load_error(err, AnchorString, Append(nodes, NewNode), directives, aliases, MadeHeap)
           \/ load_error(err, {}, Append(nodes, NewNode), directives,
                         register_anchor(Len(nodes) + 1), MadeHeap)
    PROVE  Inv'
<1> DEFINE pushed == Append(nodes, NewNode)
           known == register_anchor(Len(nodes) + 1)
<1>1. /\ Typed /\ FramesOK(frames) /\ bad_free = FALSE
      /\ heap = DocumentOwns(nodes, directives) \cup Kept(aliases) \cup EventStrings
      /\ EventStrings \subseteq NewBlocks
  BY HandlingNodes, NewParts DEF MakesNode, NewBlocks
<1>2. FramesOK(frames') /\ Received(event', carried', parsed')
  BY <1>1 DEF Received, Typed
<1>3. /\ DocumentOwns(nodes, directives) \subseteq TaggedHeap
      /\ TaggedHeap \subseteq DocumentOwns(nodes, directives) \cup Kept(aliases) \cup NewBlocks
      /\ MadeHeap = DocumentOwns(nodes, directives) \cup Kept(aliases) \cup AnchorString
                    \cup NodeOwns(NewNode)
      /\ AnchorString \cup NodeOwns(NewNode) \subseteq NewBlocks
  BY NodeMade
<1>4. Accounted(FreedNode(heap), nodes, directives, aliases, heap)
  <2>1. /\ DocumentOwns(nodes, directives) \subseteq heap
        /\ heap \subseteq DocumentOwns(nodes, directives) \cup Kept(aliases) \cup NewBlocks
    BY <1>1
  <2> QED BY <2>1, NodeFreed
<1>5. Accounted(FreedNode(TaggedHeap), nodes, directives, aliases, TaggedHeap)
  BY <1>3, NodeFreed
<1>6. Accounted(FreedNode(MadeHeap), nodes, directives, aliases, MadeHeap)
  <2>1. /\ DocumentOwns(nodes, directives) \subseteq MadeHeap
        /\ MadeHeap \subseteq DocumentOwns(nodes, directives) \cup Kept(aliases) \cup NewBlocks
    BY <1>3
  <2> QED BY <2>1, NodeFreed
<1>7. PICK none : none = {}
  OBVIOUS
<1>8. /\ Accounted(AnchorString, pushed, directives, aliases, MadeHeap)
      /\ Accounted(none, pushed, directives, known, MadeHeap)
  BY <1>7, NodeOwned
<1> HIDE DEF pushed, known
<1>9. \/ load_error(err, FreedNode(heap), nodes, directives, aliases, heap)
      \/ load_error(err, FreedNode(TaggedHeap), nodes, directives, aliases, TaggedHeap)
      \/ load_error(err, FreedNode(MadeHeap), nodes, directives, aliases, MadeHeap)
      \/ load_error(err, AnchorString, pushed, directives, aliases, MadeHeap)
      \/ load_error(err, none, pushed, directives, known, MadeHeap)
  BY <1>7 DEF pushed, known
<1>10. CASE load_error(err, FreedNode(heap), nodes, directives, aliases, heap)
  BY <1>1, <1>2, <1>4, <1>10, LoadErrorKeeps
<1>11. CASE load_error(err, FreedNode(TaggedHeap), nodes, directives, aliases, TaggedHeap)
  BY <1>1, <1>2, <1>5, <1>11, LoadErrorKeeps
<1>12. CASE load_error(err, FreedNode(MadeHeap), nodes, directives, aliases, MadeHeap)
  BY <1>1, <1>2, <1>6, <1>12, LoadErrorKeeps
<1>13. CASE load_error(err, AnchorString, pushed, directives, aliases, MadeHeap)
  BY <1>1, <1>2, <1>8, <1>13, LoadErrorKeeps
<1>14. CASE load_error(err, none, pushed, directives, known, MadeHeap)
  BY <1>1, <1>2, <1>8, <1>14, LoadErrorKeeps
<1> QED
  BY <1>9, <1>10, <1>11, <1>12, <1>13, <1>14

\* yaml_parser_load_scalar, yaml_parser_load_sequence and yaml_parser_load_mapping.
LEMMA LoadNodeKeeps == Inv /\ load_node => Inv'
<1> SUFFICES ASSUME Inv, load_node PROVE Inv'
  OBVIOUS
<1> DEFINE node == [type |-> event, from |-> parsed, tag |-> carried.tag,
                    items |-> <<>>, pairs |-> <<>>]
           index == Len(nodes) + 1
           tagged == IF carried.tag = "given" THEN heap
                     ELSE (heap \ {<<parsed, "tag">>}) \cup {<<parsed, "default tag">>}
           made == IF event \in Collections THEN tagged \cup {<<parsed, "children">>} ELSE tagged
           pushed == Append(nodes, node)
           known == register_anchor(index)
           added == load_node_add(pushed, index)
           Fails(err) ==
               \/ load_error(err, FreedNode(heap), nodes, directives, aliases, heap)
               \/ load_error(err, FreedNode(tagged), nodes, directives, aliases, tagged)
               \/ load_error(err, FreedNode(made), nodes, directives, aliases, made)
               \/ load_error(err, AnchorString, pushed, directives, aliases, made)
               \/ load_error(err, {}, pushed, directives, known, made)
<1>1. MakesNode /\ UNCHANGED <<frames, event, carried, parsed>>
  BY DEF load_node, MakesNode, Handles
<1>2. node = NewNode /\ tagged = TaggedHeap /\ made = MadeHeap
  BY DEF NewNode, TaggedHeap, MadeHeap
<1>3. error \in {"NO", "MEMORY", "COMPOSER"}
  BY <1>1, HandlingNodes DEF MakesNode
<1>4. \/ \E err \in {"NO", "MEMORY", "COMPOSER"} : Fails(err)
      \/ /\ check_stack_limit(nodes)
         /\ nodes' = added
         /\ aliases' = known
         /\ heap' = made
         /\ ctx' = IF event \in Collections THEN Append(ctx, index) ELSE ctx
         /\ pc' = "nodes"
         /\ UNCHANGED <<error, directives, bad_free, result>>
  <2> HIDE DEF node, index, tagged, made, pushed, known, added
  <2>1. \/ \E err \in {"MEMORY", error, "COMPOSER"} : Fails(err)
        \/ /\ check_stack_limit(nodes)
           /\ nodes' = added
           /\ aliases' = known
           /\ heap' = made
           /\ ctx' = IF event \in Collections THEN Append(ctx, index) ELSE ctx
           /\ pc' = "nodes"
           /\ UNCHANGED <<error, directives, bad_free, result>>
    BY DEF load_node, NodeFailed, NoMemory, node, index, tagged, made, pushed, known, added
  <2> QED BY <1>3, <2>1
<1>5. CASE \E err \in {"NO", "MEMORY", "COMPOSER"} : Fails(err)
  <2>1. PICK err \in {"NO", "MEMORY", "COMPOSER"} : Fails(err)
    BY <1>5
  <2> QED BY <1>1, <1>2, <2>1, NodeFails
<1>6. CASE /\ check_stack_limit(nodes)
           /\ nodes' = added
           /\ aliases' = known
           /\ heap' = made
           /\ ctx' = IF event \in Collections THEN Append(ctx, index) ELSE ctx
           /\ pc' = "nodes"
           /\ UNCHANGED <<error, directives, bad_free, result>>
  <2>1. /\ nodes' = load_node_add(Append(nodes, NewNode), Len(nodes) + 1)
        /\ aliases' = register_anchor(Len(nodes) + 1) /\ heap' = MadeHeap
        /\ ctx' = IF event \in Collections THEN Append(ctx, Len(nodes) + 1) ELSE ctx
        /\ check_stack_limit(nodes) /\ pc' = "nodes"
        /\ UNCHANGED <<error, directives, result>>
    BY <1>2, <1>6
  <2>2. bad_free' = bad_free
    BY <1>6
  <2> QED BY <1>1, <2>1, <2>2, NodeSucceeds
<1> QED
  BY <1>4, <1>5, <1>6

-----------------------------------------------------------------------------
(* The invariant is inductive, and what follows from it.                   *)

\* The invariant is about the variables alone.
LEMMA StutterKeeps == Inv /\ UNCHANGED vars => Inv'
<1> SUFFICES ASSUME Inv, UNCHANGED vars PROVE Inv'
  OBVIOUS
<1>1. /\ frames' = frames /\ event' = event /\ carried' = carried /\ parsed' = parsed
      /\ pc' = pc /\ error' = error /\ nodes' = nodes /\ directives' = directives
      /\ ctx' = ctx /\ aliases' = aliases /\ heap' = heap /\ result' = result
  BY DEF vars, own
<1>2. bad_free' = bad_free
  BY DEF vars, own
<1>3. FramesOK(frames') /\ Linked(nodes') /\ Pointing(ctx', aliases', nodes')
  BY <1>1 DEF Inv
<1>4. Typed'
  <2>1. /\ Typed /\ error' \in {"NO", "MEMORY", "COMPOSER"} /\ nodes' \in Seq(Node)
        /\ Len(nodes') <= StackLimit /\ result' \in {"none", "OK", "FAIL"}
        /\ ctx' \in Seq(1..StackLimit) /\ aliases' \in Seq(Alias)
    BY <1>1 DEF Inv, Typed
  <2> QED BY <1>1, <1>2, <2>1, TypedStays
<1>5. Control'
  <2>1. Control
    BY DEF Inv
  <2> QED BY <1>1, <2>1 DEF Control, Stopped, Behind
<1>6. Fresh'
  <2>1. Fresh
    BY DEF Inv
  <2> QED BY <1>1, <2>1 DEF Fresh
<1>7. pc # "undefined" => Accounts'
  <2>1. EventStrings' = EventStrings
    BY <1>1 DEF EventStrings
  <2>2. pc # "undefined" => Accounts
    BY DEF Inv
  <2> QED BY <1>1, <1>2, <2>1, <2>2 DEF Accounts
<1> QED
  BY <1>1, <1>3, <1>4, <1>5, <1>6, <1>7 DEF Inv

\* The invariant is inductive.
LEMMA NextInv == Inv /\ [Next]_vars => Inv'
<1> SUFFICES ASSUME Inv, [Next]_vars PROVE Inv'
  OBVIOUS
<1>1. CASE parse_event
  BY <1>1, ParseEventKeeps
<1>2. CASE parse_nothing
  BY <1>2, ParseNothingKeeps
<1>3. CASE parse_failed
  BY <1>3, ParseFailedKeeps
<1>4. CASE load_begin
  BY <1>4, LoadBeginKeeps
<1>5. CASE load_nothing
  BY <1>5, LoadNothingKeeps
<1>6. CASE load_document
  BY <1>6, LoadDocumentKeeps
<1>7. CASE load_alias
  BY <1>7, AliasKeeps
<1>8. CASE load_node
  BY <1>8, LoadNodeKeeps
<1>9. CASE load_end("SEQUENCE_END", "SEQUENCE_START")
  BY <1>9, LoadEndKeeps
<1>10. CASE load_end("MAPPING_END", "MAPPING_START")
  BY <1>10, LoadEndKeeps
<1>11. CASE load_document_end
  BY <1>11, DocumentEndKeeps
<1>12. CASE load_unexpected
  BY <1>12, UnexpectedKeeps
<1>13. CASE yaml_document_delete
  BY <1>13, DeleteKeeps
<1>14. CASE undefined
  BY <1>14, StutterKeeps DEF undefined
<1>15. CASE UNCHANGED vars
  BY <1>15, StutterKeeps
<1> QED
  BY <1>1, <1>2, <1>3, <1>4, <1>5, <1>6, <1>7, <1>8, <1>9, <1>10, <1>11, <1>12, <1>13, <1>14,
     <1>15 DEF Next

\* The invariant holds in every state the loader reaches.
THEOREM LoaderInvariant == Spec => []Inv
<1> QED
  BY InitInv, NextInv, PTL DEF Spec

\* The types, as the runs state them.
LEMMA InvTypes == Inv => TypeOK
<1> SUFFICES ASSUME Inv PROVE TypeOK
  OBVIOUS
<1>1. Typed /\ Control
  BY DEF Inv
<1>2. carried \in [anchor : Anchors \cup {"none"}, tag : {"none", "!", "given"},
                   directives : BOOLEAN]
  <2>1. carried \in Carriable(event)
    BY <1>1 DEF Typed
  <2>2. /\ \A x : x \in (IF event \in NodeEvents THEN Anchors \cup {"none"}
                         ELSE IF event = "ALIAS" THEN Anchors ELSE {"none"})
                  => x \in Anchors \cup {"none"}
        /\ \A x : x \in (IF event \in NodeEvents THEN Tags ELSE {"none"})
                  => x \in {"none", "!", "given"}
        /\ \A x : x \in (IF event = "DOCUMENT_START" THEN BOOLEAN ELSE {FALSE}) => x \in BOOLEAN
    BY LoaderAssumption
  <2> QED BY <2>1, <2>2 DEF Carriable
<1>3. bad_free \in BOOLEAN
  BY <1>1 DEF Typed
<1>4. /\ parsed \in 0..MaxEvents
      /\ error \in {"NO", "MEMORY", "COMPOSER"}
      /\ nodes \in Seq(Node) /\ ctx \in Seq(1..StackLimit) /\ aliases \in Seq(Alias)
      /\ result \in {"none", "OK", "FAIL"}
  BY <1>1 DEF Typed
<1>5. pc \in {"idle", "stream", "document", "nodes", "load document", "load nodes", "undefined"}
  BY <1>1 DEF Control
<1> QED
  BY <1>2, <1>3, <1>4, <1>5, Zenon DEF TypeOK, Node, Pair, Alias

\* No index exceeds the limit of a C int, and while a document is loaded ctx
\* lists the collections that the parser has open, of their types, and a pair
\* lacks its value exactly where the parser owes one.
THEOREM ContextIsFollowed == Spec => []ContextFollowsStream
<1>1. Inv => ContextFollowsStream
  <2> SUFFICES ASSUME Inv PROVE ContextFollowsStream
    OBVIOUS
  <2>1. TypeOK
    BY InvTypes
  <2>2. pc = "nodes" /\ ~Stopped => Agrees(frames, ctx, nodes)
    BY DEF Inv, Control
  <2> QED BY <2>1, <2>2 DEF ContextFollowsStream, Agrees
<1> QED
  BY <1>1, LoaderInvariant, PTL

\* A document that yaml_parser_load returns is whole: no pair lacks a value,
\* every child is a node, every node but the root hangs below an earlier one, and
\* a document without nodes means that the stream has ended.
THEOREM DocumentsAreWhole == Spec => []LoadedWhole
<1>1. Inv => LoadedWhole
  <2> SUFFICES ASSUME Inv, pc = "idle", result = "OK"
               PROVE  /\ \A i \in DOMAIN nodes : Children(nodes[i]) \subseteq DOMAIN nodes
                      /\ \A i \in DOMAIN nodes \ {1} :
                            \E p \in 1..(i - 1) : i \in Children(nodes[p])
                      /\ nodes = <<>> => frames = <<"done">>
    BY DEF LoadedWhole
  <2>1. Linked(nodes) /\ Control /\ nodes \in Seq(Node)
    BY DEF Inv, Typed
  <2>2. \A i \in DOMAIN nodes : ~Pending(nodes[i])
    BY <2>1 DEF Control
  <2>3. ASSUME NEW i \in DOMAIN nodes, NEW j \in Children(nodes[i])
        PROVE  j \in DOMAIN nodes
    <3>1. NodeLinked(nodes[i], DOMAIN nodes)
      BY <2>1, LinkedParts DEF AllLinked
    <3>2. nodes[i].pairs \in Seq(Pair)
      <4>1. nodes[i] \in Node
        BY Elements
      <4> QED BY <4>1 DEF Node
    <3>3. ASSUME NEW k \in DOMAIN nodes[i].pairs, nodes[i].pairs[k].value = 0
          PROVE  FALSE
      <4>1. k = Len(nodes[i].pairs)
        BY <3>1, <3>3 DEF NodeLinked
      <4>2. nodes[i].pairs # <<>>
        <5>1. DOMAIN <<>> = {}
          OBVIOUS
        <5> QED BY <3>3, <5>1
      <4>3. Last(nodes[i].pairs) = nodes[i].pairs[k]
        BY <3>2, <4>1, <4>2, LastPair
      <4> QED BY <2>2, <3>3, <4>2, <4>3 DEF Pending
    <3>4. CASE \E k \in DOMAIN nodes[i].items : j = nodes[i].items[k]
      BY <3>1, <3>4 DEF NodeLinked
    <3>5. CASE \E k \in DOMAIN nodes[i].pairs : j = nodes[i].pairs[k].key
      BY <3>1, <3>5 DEF NodeLinked
    <3>6. CASE \E k \in DOMAIN nodes[i].pairs : j = nodes[i].pairs[k].value
      BY <3>1, <3>3, <3>6 DEF NodeLinked
    <3> QED BY <3>4, <3>5, <3>6 DEF Children
  <2>4. \A i \in DOMAIN nodes \ {1} : \E p \in 1..(i - 1) : i \in Children(nodes[p])
    BY <2>1 DEF Linked
  <2>5. nodes = <<>> => frames = <<"done">>
    BY <2>1 DEF Control
  <2> QED BY <2>3, <2>4, <2>5
<1> QED
  BY <1>1, LoaderInvariant, PTL

\* What is allocated belongs to the document, to the call, or to the event at
\* hand, nothing is freed twice, and a call that fails leaves nothing behind,
\* whichever of its steps fails.
THEOREM BlocksAreOwnedOnce == Spec => []OwnedOnce
<1>1. Inv => OwnedOnce
  <2> SUFFICES ASSUME Inv, pc # "undefined"
               PROVE  /\ ~bad_free
                      /\ heap = (IF <<0, "nodes">> \in heap
                                 THEN DocumentOwns(nodes, directives) ELSE {})
                                \cup (IF pc \in {"nodes", "load nodes"}
                                      THEN {<<0, "ctx">>} \cup AliasesOwn(aliases) ELSE {})
                                \cup (IF pc \in {"load document", "load nodes"}
                                      THEN EventStrings ELSE {})
                      /\ pc = "idle" /\ result = "FAIL" => heap = {}
    BY DEF OwnedOnce
  <2>1. Accounts
    BY DEF Inv
  <2> QED BY <2>1 DEF Accounts, Loading, Kept
<1> QED
  BY <1>1, LoaderInvariant, PTL

=============================================================================

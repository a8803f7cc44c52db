--------------------------- MODULE ScannerProofs ---------------------------
(***************************************************************************)
(* Proofs about the scanner, for inputs of every length and every limit on *)
(* the length of a simple key and on the size of an int.                   *)
(*                                                                         *)
(* The queue grows at its end, but for KEY and BLOCK-MAPPING-START, which  *)
(* are put inside it.  What the invariant says of the queue is therefore   *)
(* stated for pieces of it (Ordered, Balanced) and put together again for  *)
(* the queue of pieces that a step leaves.                                 *)
(***************************************************************************)
EXTENDS Scanner, ProofLemmas

MarkSet == [index : Nat, line : Nat, column : Nat]
TokenSet == [type : TokenTypes, index : Nat]
KeySet == [possible : BOOLEAN, required : BOOLEAN, token_number : Nat, mark : MarkSet]

\* The tokens of a queue are tokens.
LEMMA TokenFacts ==
    ASSUME NEW s \in Seq(TokenSet)
    PROVE  \A i \in 1..Len(s) : s[i] \in TokenSet /\ s[i].index \in Nat
<1> TAKE i \in 1..Len(s)
<1>1. s[i] \in TokenSet
  BY ElementOfSeq
<1> QED
  BY <1>1 DEF TokenSet

-----------------------------------------------------------------------------
(* Block collections open in a piece of the queue.                         *)

\* What a token adds to the number of open block collections.
Delta(t) == IF t.type \in BlockStarts THEN 1 ELSE IF t.type = "BLOCK_END" THEN -1 ELSE 0

\* With a collections open in front of it b are open behind the piece s, and
\* at no place in it fewer than none.
Balanced(a, s, b) ==
    /\ \A n \in 0..Len(s) : Depth(a, s, n) >= 0
    /\ Depth(a, s, Len(s)) = b

\* Depth changes with each token by what the token opens or closes.
LEMMA DepthStep ==
    ASSUME NEW a \in Int, NEW s, NEW n \in Nat
    PROVE  /\ Depth(a, s, n) \in Int
           /\ Depth(a, s, 0) = a
           /\ Depth(a, s, n + 1) = Depth(a, s, n) + Delta(s[n + 1])
<1> DEFINE S(k) == {i \in 1..k : s[i].type \in BlockStarts}
           E(k) == {i \in 1..k : s[i].type = "BLOCK_END"}
<1>1. \A k \in Nat : /\ IsFiniteSet(S(k)) /\ IsFiniteSet(E(k))
                     /\ Cardinality(S(k)) \in Nat /\ Cardinality(E(k)) \in Nat
  <2> TAKE k \in Nat
  <2>1. IsFiniteSet(1..k)
    BY FS_Interval
  <2>2. S(k) \in SUBSET (1..k) /\ E(k) \in SUBSET (1..k)
    OBVIOUS
  <2>3. IsFiniteSet(S(k)) /\ IsFiniteSet(E(k))
    BY <2>1, <2>2, FS_Subset
  <2> QED
    BY <2>3, FS_CardinalityType
<1>2. S(0) = {} /\ E(0) = {}
  OBVIOUS
<1>3. Cardinality(S(0)) = 0 /\ Cardinality(E(0)) = 0
  BY <1>2, FS_EmptySet
<1>4. Cardinality(S(n + 1)) = IF s[n + 1].type \in BlockStarts
                              THEN Cardinality(S(n)) + 1 ELSE Cardinality(S(n))
  <2>1. n + 1 \notin S(n)
    OBVIOUS
  <2>2. CASE s[n + 1].type \in BlockStarts
    <3>1. S(n + 1) = S(n) \cup {n + 1}
      BY <2>2
    <3> QED BY <1>1, <2>1, <2>2, <3>1, FS_AddElement
  <2>3. CASE s[n + 1].type \notin BlockStarts
    <3>1. S(n + 1) = S(n)
      BY <2>3
    <3> QED BY <3>1, <2>3
  <2> QED BY <2>2, <2>3
<1>5. Cardinality(E(n + 1)) = IF s[n + 1].type = "BLOCK_END"
                              THEN Cardinality(E(n)) + 1 ELSE Cardinality(E(n))
  <2>1. n + 1 \notin E(n)
    OBVIOUS
  <2>2. CASE s[n + 1].type = "BLOCK_END"
    <3>1. E(n + 1) = E(n) \cup {n + 1}
      BY <2>2
    <3> QED BY <1>1, <2>1, <2>2, <3>1, FS_AddElement
  <2>3. CASE s[n + 1].type # "BLOCK_END"
    <3>1. E(n + 1) = E(n)
      BY <2>3
    <3> QED BY <3>1, <2>3
  <2> QED BY <2>2, <2>3
<1>6. \A k \in Nat : Depth(a, s, k) = a + Cardinality(S(k)) - Cardinality(E(k))
  BY DEF Depth
<1>7. s[n + 1].type \in BlockStarts => s[n + 1].type # "BLOCK_END"
  BY DEF BlockStarts
<1> HIDE DEF S, E
<1> QED
  BY <1>1, <1>3, <1>4, <1>5, <1>6, <1>7 DEF Delta

\* d changes with each of the first N tokens as Depth does.
Walk(d, a, s, N) ==
    /\ d[0] = a
    /\ \A n \in 0..(N - 1) : d[n + 1] = d[n] + Delta(s[n + 1])

\* What changes as Depth does is Depth.
LEMMA DepthWalk ==
    ASSUME NEW a \in Int, NEW s, NEW N \in Nat, NEW d, Walk(d, a, s, N)
    PROVE  \A n \in 0..N : Depth(a, s, n) = d[n]
<1> DEFINE T == {n \in 0..N : Depth(a, s, n) = d[n]}
<1>1. 0 \in T
  BY DepthStep DEF Walk
<1>2. \A n \in 0..(N - 1) : n \in T => n + 1 \in T
  BY DepthStep DEF Walk
<1>3. 0..N \subseteq T
  <2> HIDE DEF T
  <2> QED BY <1>1, <1>2, Climb
<1> QED
  BY <1>3

\* More collections in front of a piece are more at every place in it.
LEMMA DepthShift ==
    ASSUME NEW a \in Int, NEW s, NEW b \in Int, NEW n \in Nat
    PROVE  Depth(a + b, s, n) = Depth(a, s, n) + b
<1> DEFINE c == Cardinality({i \in 1..n : s[i].type \in BlockStarts})
           e == Cardinality({i \in 1..n : s[i].type = "BLOCK_END"})
<1>1. c \in Nat /\ e \in Nat
  <2>1. IsFiniteSet(1..n)
    BY FS_Interval
  <2> QED BY <2>1, FS_Subset, FS_CardinalityType
<1>2. Depth(a + b, s, n) = a + b + c - e /\ Depth(a, s, n) = a + c - e
  BY DEF Depth
<1> HIDE DEF c, e
<1> QED BY <1>1, <1>2

\* The depth in two pieces put together is the depth in each of them.
LEMMA DepthConcat ==
    ASSUME NEW a \in Int, NEW s \in Seq(TokenSet), NEW t \in Seq(TokenSet)
    PROVE  /\ \A n \in 0..Len(s) : Depth(a, s \o t, n) = Depth(a, s, n)
           /\ \A n \in 0..Len(t) :
                 Depth(a, s \o t, Len(s) + n) = Depth(Depth(a, s, Len(s)), t, n)
<1> DEFINE N == Len(s) + Len(t)
           b == Depth(a, s, Len(s))
           d == [n \in 0..N |-> IF n <= Len(s) THEN Depth(a, s, n) ELSE Depth(b, t, n - Len(s))]
<1>1. Len(s) \in Nat /\ Len(t) \in Nat /\ N \in Nat
  BY LenProperties
<1>2. b \in Int /\ Depth(b, t, 0) = b
  <2>1. b \in Int
    BY <1>1, DepthStep
  <2> QED BY <2>1, DepthStep
<1>3. \A i \in 1..N : (s \o t)[i] = IF i <= Len(s) THEN s[i] ELSE t[i - Len(s)]
  BY ConcatProperties
<1>4. d[0] = a
  BY <1>1, DepthStep
<1>5. \A n \in 0..(N - 1) : d[n + 1] = d[n] + Delta((s \o t)[n + 1])
  <2> TAKE n \in 0..(N - 1)
  <2>1. n + 1 \in 1..N /\ n \in 0..N /\ n + 1 \in 0..N /\ n \in Nat
    BY <1>1
  <2>2. CASE n + 1 <= Len(s)
    <3>1. d[n] = Depth(a, s, n) /\ d[n + 1] = Depth(a, s, n + 1) /\ (s \o t)[n + 1] = s[n + 1]
      BY <1>1, <1>3, <2>1, <2>2
    <3> HIDE DEF d
    <3> QED BY <2>1, <3>1, DepthStep
  <2>3. CASE n >= Len(s)
    <3>1. n - Len(s) \in Nat /\ (n - Len(s)) + 1 = n + 1 - Len(s)
      BY <1>1, <2>1, <2>3
    <3>2. (s \o t)[n + 1] = t[n + 1 - Len(s)] /\ d[n + 1] = Depth(b, t, n + 1 - Len(s))
      BY <1>1, <1>3, <2>1, <2>3
    <3>3. d[n] = Depth(b, t, n - Len(s))
      <4>1. CASE n = Len(s)
        BY <1>1, <1>2, <2>1, <4>1
      <4>2. CASE n > Len(s)
        BY <1>1, <2>1, <4>2
      <4> QED BY <1>1, <2>1, <2>3, <4>1, <4>2
    <3>4. Depth(b, t, (n - Len(s)) + 1) = Depth(b, t, n - Len(s)) + Delta(t[(n - Len(s)) + 1])
      <4> HIDE DEF b
      <4> QED BY <1>2, <3>1, DepthStep
    <3> QED BY <3>1, <3>2, <3>3, <3>4
  <2> QED BY <1>1, <2>1, <2>2, <2>3
<1>6. \A n \in 0..N : Depth(a, s \o t, n) = d[n]
  <2>1. Walk(d, a, s \o t, N)
    <3> HIDE DEF d
    <3> QED BY <1>4, <1>5 DEF Walk
  <2> HIDE DEF d, N
  <2> QED BY <1>1, <2>1, DepthWalk
<1>7. ASSUME NEW n \in 0..Len(s)
      PROVE  Depth(a, s \o t, n) = Depth(a, s, n)
  BY <1>1, <1>6
<1>8. ASSUME NEW n \in 0..Len(t)
      PROVE  Depth(a, s \o t, Len(s) + n) = Depth(b, t, n)
  <2>1. Len(s) + n \in 0..N /\ (Len(s) + n) - Len(s) = n
    BY <1>1
  <2>2. CASE n = 0
    BY <1>1, <1>2, <1>6, <2>1, <2>2
  <2>3. CASE n # 0
    BY <1>1, <1>6, <2>1, <2>3
  <2> QED BY <2>2, <2>3
<1> QED
  BY <1>7, <1>8

\* Two balanced pieces make a balanced piece.
LEMMA BalancedConcat ==
    ASSUME NEW a \in Int, NEW b, NEW c, NEW s \in Seq(TokenSet), NEW t \in Seq(TokenSet),
           Balanced(a, s, b), Balanced(b, t, c)
    PROVE  Balanced(a, s \o t, c)
<1>1. Len(s) \in Nat /\ Len(t) \in Nat /\ Len(s \o t) = Len(s) + Len(t)
  BY LenProperties, ConcatProperties
<1>2. b = Depth(a, s, Len(s))
  BY DEF Balanced
<1>3. Depth(a, s \o t, Len(s \o t)) = c
  <2>1. Len(t) \in 0..Len(t)
    BY <1>1
  <2>2. Depth(a, s \o t, Len(s) + Len(t)) = Depth(b, t, Len(t))
    BY <1>2, <2>1, DepthConcat
  <2> QED BY <1>1, <2>2 DEF Balanced
<1>4. ASSUME NEW n \in 0..Len(s \o t)
      PROVE  Depth(a, s \o t, n) >= 0
  <2>1. CASE n <= Len(s)
    <3>1. n \in 0..Len(s)
      BY <1>1, <2>1
    <3> QED BY <3>1, DepthConcat DEF Balanced
  <2>2. CASE n > Len(s)
    <3>1. n - Len(s) \in 0..Len(t) /\ Len(s) + (n - Len(s)) = n
      BY <1>1, <2>2
    <3>2. Depth(a, s \o t, Len(s) + (n - Len(s))) = Depth(b, t, n - Len(s))
      BY <1>2, <3>1, DepthConcat
    <3> QED BY <3>1, <3>2 DEF Balanced
  <2> QED BY <1>1, <2>1, <2>2
<1> QED
  BY <1>3, <1>4 DEF Balanced

\* The pieces of a balanced piece are balanced.
LEMMA BalancedSplit ==
    ASSUME NEW a \in Int, NEW c, NEW s \in Seq(TokenSet), NEW t \in Seq(TokenSet),
           Balanced(a, s \o t, c)
    PROVE  \E b \in Nat : Balanced(a, s, b) /\ Balanced(b, t, c)
<1> DEFINE b == Depth(a, s, Len(s))
<1>1. Len(s) \in Nat /\ Len(t) \in Nat /\ Len(s \o t) = Len(s) + Len(t)
  BY LenProperties, ConcatProperties
<1>2. \A n \in 0..Len(s) : n \in 0..Len(s \o t) /\ Depth(a, s \o t, n) = Depth(a, s, n)
  <2>1. \A n \in 0..Len(s) : n \in 0..Len(s \o t)
    BY <1>1
  <2> QED BY <2>1, DepthConcat
<1>3. \A n \in 0..Len(t) : /\ Len(s) + n \in 0..Len(s \o t)
                           /\ Depth(a, s \o t, Len(s) + n) = Depth(b, t, n)
  BY <1>1, DepthConcat
<1>4. Len(s) \in 0..Len(s) /\ Len(t) \in 0..Len(t) /\ b \in Int
  BY <1>1, DepthStep
<1>5. Balanced(a, s, b) /\ b \in Nat
  BY <1>2, <1>4 DEF Balanced
<1>6. Balanced(b, t, c)
  <2>1. Depth(b, t, Len(t)) = c
    BY <1>1, <1>3, <1>4 DEF Balanced
  <2> HIDE DEF b
  <2> QED BY <1>3, <2>1 DEF Balanced
<1> QED
  BY <1>5, <1>6

\* A piece behind one more open collection.
LEMMA BalancedShift ==
    ASSUME NEW a \in Int, NEW b \in Int, NEW s \in Seq(TokenSet), Balanced(a, s, b)
    PROVE  Balanced(a + 1, s, b + 1)
<1>1. Len(s) \in Nat
  BY LenProperties
<1>2. \A n \in 0..Len(s) : Depth(a, s, n) \in Int /\ Depth(a + 1, s, n) = Depth(a, s, n) + 1
  BY DepthShift, DepthStep
<1> QED
  BY <1>1, <1>2 DEF Balanced

\* The pieces that the steps add: nothing, one token, a run of BLOCK-ENDs.
LEMMA BalancedEmpty ==
    ASSUME NEW a \in Nat
    PROVE  Balanced(a, <<>>, a)
<1>1. Depth(a, <<>>, 0) = a
  BY DepthStep
<1> QED
  BY <1>1 DEF Balanced

\* One token takes the number of open blocks from a to a plus its weight.
LEMMA BalancedOne ==
    ASSUME NEW a \in Nat, NEW t \in TokenSet, a + Delta(t) >= 0
    PROVE  Balanced(a, <<t>>, a + Delta(t))
<1>1. Depth(a, <<t>>, 0) = a /\ Depth(a, <<t>>, 0 + 1) = Depth(a, <<t>>, 0) + Delta(<<t>>[0 + 1])
  BY DepthStep
<1>2. Len(<<t>>) = 1 /\ <<t>>[1] = t
  OBVIOUS
<1>3. Depth(a, <<t>>, 0) = a /\ Depth(a, <<t>>, 1) = a + Delta(t)
  BY <1>1, <1>2
<1>4. \A n \in 0..1 : n = 0 \/ n = 1
  OBVIOUS
<1> QED
  BY <1>2, <1>3, <1>4 DEF Balanced

\* So many BLOCK-ENDs close so many blocks.
LEMMA BalancedEnds ==
    ASSUME NEW a \in Nat, NEW s \in Seq(TokenSet), Len(s) <= a,
           \A i \in 1..Len(s) : s[i].type = "BLOCK_END"
    PROVE  Balanced(a, s, a - Len(s))
<1> DEFINE d == [n \in 0..Len(s) |-> a - n]
<1>1. Len(s) \in Nat
  BY LenProperties
<1>2. \A i \in 1..Len(s) : Delta(s[i]) = -1
  BY DEF Delta, BlockStarts
<1>3. Walk(d, a, s, Len(s))
  BY <1>1, <1>2 DEF Walk
<1>4. \A n \in 0..Len(s) : Depth(a, s, n) = d[n]
  <2> HIDE DEF d
  <2> QED BY <1>1, <1>3, DepthWalk
<1> QED
  BY <1>1, <1>4 DEF Balanced

-----------------------------------------------------------------------------
(* The order of the tokens in a piece of the queue.                        *)

\* The tokens of s come from the text between lo and hi, in the order of it.
Ordered(lo, s, hi) ==
    /\ \A i \in 1..Len(s) : lo <= s[i].index /\ s[i].index <= hi
    /\ \A i, j \in 1..Len(s) : i < j => s[i].index <= s[j].index

\* Tokens in order, behind tokens in order.
LEMMA OrderedConcat ==
    ASSUME NEW lo \in Nat, NEW x \in Nat, NEW hi \in Nat,
           NEW s \in Seq(TokenSet), NEW t \in Seq(TokenSet),
           Ordered(lo, s, x), Ordered(x, t, hi), lo <= x, x <= hi
    PROVE  Ordered(lo, s \o t, hi)
<1> DEFINE u == s \o t
<1>1. Len(s) \in Nat /\ Len(t) \in Nat /\ Len(u) = Len(s) + Len(t)
  BY LenProperties, ConcatProperties
<1>2. \A i \in 1..Len(u) : IF i <= Len(s) THEN i \in 1..Len(s) /\ u[i] = s[i]
                                          ELSE i - Len(s) \in 1..Len(t) /\ u[i] = t[i - Len(s)]
  BY <1>1, ConcatProperties
<1>3. \A i \in 1..Len(s) : s[i].index \in Nat
  BY TokenFacts
<1>4. \A i \in 1..Len(t) : t[i].index \in Nat
  BY TokenFacts
<1> HIDE DEF u
<1>5. \A i \in 1..Len(s) : lo <= s[i].index /\ s[i].index <= x
  BY DEF Ordered
<1>6. \A i \in 1..Len(t) : x <= t[i].index /\ t[i].index <= hi
  BY DEF Ordered
<1>7. ASSUME NEW i \in 1..Len(u)
      PROVE  lo <= u[i].index /\ u[i].index <= hi
  BY <1>1, <1>2, <1>3, <1>4, <1>5, <1>6
<1>8. ASSUME NEW i \in 1..Len(u), NEW j \in 1..Len(u), i < j
      PROVE  u[i].index <= u[j].index
  <2>1. CASE j <= Len(s)
    <3>1. i <= Len(s)
      BY <1>1, <1>8, <2>1
    <3>2. i \in 1..Len(s) /\ j \in 1..Len(s) /\ u[i] = s[i] /\ u[j] = s[j]
      BY <1>2, <2>1, <3>1
    <3> QED BY <1>8, <3>2 DEF Ordered
  <2>2. CASE i > Len(s)
    <3>1. j > Len(s)
      BY <1>1, <1>8, <2>2
    <3>2. /\ i - Len(s) \in 1..Len(t) /\ j - Len(s) \in 1..Len(t)
          /\ u[i] = t[i - Len(s)] /\ u[j] = t[j - Len(s)]
          /\ i - Len(s) < j - Len(s)
      BY <1>1, <1>2, <1>8, <2>2, <3>1
    <3> QED BY <3>2 DEF Ordered
  <2>3. CASE i <= Len(s) /\ j > Len(s)
    <3>1. /\ i \in 1..Len(s) /\ j - Len(s) \in 1..Len(t)
          /\ u[i] = s[i] /\ u[j] = t[j - Len(s)]
      BY <1>1, <1>2, <2>3
    <3> QED BY <1>3, <1>4, <1>5, <1>6, <3>1
  <2> QED BY <1>1, <2>1, <2>2, <2>3
<1> QED
  BY <1>7, <1>8 DEF Ordered, u

\* A token is the latest of the ones in front of it and the earliest of the
\* ones from it on.
LEMMA OrderedSplit ==
    ASSUME NEW lo, NEW hi, NEW s \in Seq(TokenSet), NEW t \in Seq(TokenSet), t # <<>>,
           Ordered(lo, s \o t, hi)
    PROVE  Ordered(lo, s, t[1].index) /\ Ordered(t[1].index, t, hi)
<1> DEFINE u == s \o t
<1>1. Len(s) \in Nat /\ Len(t) \in Nat /\ Len(u) = Len(s) + Len(t) /\ Len(t) # 0
  BY LenProperties, ConcatProperties, EmptySeq
<1>2. \A i \in 1..Len(s) : i \in 1..Len(u) /\ u[i] = s[i] /\ i < Len(s) + 1
  BY <1>1, ConcatProperties
<1>3. \A i \in 1..Len(t) : Len(s) + i \in 1..Len(u) /\ u[Len(s) + i] = t[i]
  BY <1>1, ConcatProperties
<1>4. \A i \in 1..Len(t) : t[i].index \in Nat
  BY TokenFacts
<1> HIDE DEF u
<1>5. 1 \in 1..Len(t) /\ Len(s) + 1 \in 1..Len(u) /\ u[Len(s) + 1] = t[1]
  BY <1>1, <1>3
<1>6. Ordered(lo, u, hi)
  BY DEF u
<1>7. Ordered(lo, s, t[1].index)
  <2>1. ASSUME NEW i \in 1..Len(s), NEW j \in 1..Len(s), i < j
        PROVE  s[i].index <= s[j].index
    BY <1>2, <1>6, <2>1 DEF Ordered
  <2>2. ASSUME NEW i \in 1..Len(s)
        PROVE  lo <= s[i].index /\ s[i].index <= t[1].index
    BY <1>2, <1>5, <1>6 DEF Ordered
  <2> QED BY <2>1, <2>2 DEF Ordered
<1>8. Ordered(t[1].index, t, hi)
  <2>1. ASSUME NEW i \in 1..Len(t), NEW j \in 1..Len(t), i < j
        PROVE  t[i].index <= t[j].index
    <3>1. Len(s) + i < Len(s) + j
      BY <1>1, <2>1
    <3> QED BY <1>3, <1>6, <3>1 DEF Ordered
  <2>2. ASSUME NEW i \in 1..Len(t)
        PROVE  t[1].index <= t[i].index /\ t[i].index <= hi
    <3>1. t[i].index <= hi
      BY <1>3, <1>6 DEF Ordered
    <3>2. CASE i = 1
      BY <1>4, <1>5, <3>1, <3>2
    <3>3. CASE i # 1
      BY <1>5, <2>1, <3>1, <3>3
    <3> QED BY <3>2, <3>3
  <2> QED BY <2>1, <2>2 DEF Ordered
<1> QED
  BY <1>7, <1>8

\* Tokens made at the same place.
LEMMA OrderedSame ==
    ASSUME NEW x \in Nat, NEW s \in Seq(TokenSet), \A i \in 1..Len(s) : s[i].index = x
    PROVE  Ordered(x, s, x)
BY DEF Ordered

\* The bounds of a piece may be widened.
LEMMA OrderedWiden ==
    ASSUME NEW lo \in Nat, NEW hi \in Nat, NEW x \in Nat, NEW y \in Nat,
           NEW s \in Seq(TokenSet), Ordered(x, s, y), lo <= x, y <= hi
    PROVE  Ordered(lo, s, hi)
<1>1. \A i \in 1..Len(s) : s[i].index \in Nat
  BY TokenFacts
<1> QED
  BY <1>1 DEF Ordered

-----------------------------------------------------------------------------
(* The invariant.                                                          *)

\* k is in front of the mark m: a key saved at k is of an earlier line or stands
\* to the left.
Behind(k, m) == k.line < m.line \/ (k.line = m.line /\ k.column < m.column)

\* m is where reading from k, or ending the last line, can lead.
After(k, m) == k.index <= m.index /\ (k.line < m.line \/ (k.line = m.line /\ k.column <= m.column))

\* Every key that is possible stands, in order, for a token of the queue s and
\* is behind the mark m.
KeysFit(keys, parsed, s, m) ==
    /\ \A i \in DOMAIN keys : keys[i].possible =>
          /\ keys[i].token_number - parsed + 1 \in 1..Len(s)
          /\ s[keys[i].token_number - parsed + 1].index = keys[i].mark.index
          /\ Behind(keys[i].mark, m)
    /\ \A i, j \in DOMAIN keys :
          i < j /\ keys[i].possible /\ keys[j].possible
             => keys[i].token_number < keys[j].token_number

\* The stack of indents grows strictly from -1.
Grows(all) ==
    /\ all[1] = -1
    /\ \A i, j \in 1..Len(all) : i < j => all[i] < all[j]

\* Only the last token may be STREAM-END.
EndLast(s) == \A n \in 1..Len(s) : s[n].type = "STREAM_END" => n = Len(s)
NoEnd(s) == \A n \in 1..Len(s) : s[n].type # "STREAM_END"

\* What a scanner at the end of its input looks like: no key can be saved or
\* still be found alive from there on.
AtEnd == phase = "next" /\ mark.column = 0 /\ (flow_level = 0 => indents = <<>>)

\* Before STREAM-START everything is empty.
Started ==
    IF stream_start_produced
    THEN Len(simple_keys) = flow_level + 1 /\ Grows(Append(indents, indent))
    ELSE /\ simple_keys = <<>> /\ indents = <<>> /\ tokens = <<>>
         /\ flow_level = 0 /\ open_blocks = 0
         /\ phase = "next" /\ ~token_available

\* The token at the head is given out only when no key can start with it.
HeadIsFree ==
    token_available =>
       /\ tokens # <<>>
       /\ \A i \in DOMAIN simple_keys :
             simple_keys[i].possible => simple_keys[i].token_number # tokens_parsed

\* The inductive invariant.
Inv ==
    /\ TypeOK
    /\ Started
    /\ phase = "lexeme" => stream_start_produced /\ ~token_available
    /\ KeysFit(simple_keys, tokens_parsed, tokens, mark)
    /\ HeadIsFree
    /\ Ordered(0, tokens, mark.index)
    /\ EndLast(tokens)
    /\ NoEnd(tokens) \/ AtEnd
    /\ Balanced(open_blocks, tokens, Len(indents))

-----------------------------------------------------------------------------
(* Marks.                                                                  *)

\* Reading text leads to a mark that is after, or beyond, the one before.
LEMMA ReachAfter ==
    ASSUME NEW m \in MarkSet, NEW n \in Reach(m)
    PROVE  /\ n \in MarkSet /\ After(m, n)
           /\ n.index > m.index => Behind(m, n)
<1>1. /\ n.index \in m.index..MaxIndex /\ n.column \in 0..MaxIndex
      /\ n.line \in m.line..(m.line + MaxIndex - m.index)
      /\ n = [index |-> n.index, line |-> n.line, column |-> n.column]
      /\ \/ n.line = m.line /\ n.column - m.column = n.index - m.index
         \/ n.line > m.line /\ n.column + (n.line - m.line) <= n.index - m.index
  BY DEF Reach
<1>2. m.index \in Nat /\ m.line \in Nat /\ m.column \in Nat
  BY DEF MarkSet
<1>3. n.index \in Nat /\ n.line \in Nat /\ n.column \in Nat /\ m.index <= n.index
  BY <1>1, <1>2, ScannerAssumption
<1> QED
  BY <1>1, <1>2, <1>3 DEF MarkSet, After, Behind

\* SKIP by at least one character goes forward.
LEMMA SkipBeyond ==
    ASSUME mark \in MarkSet, NEW k \in Nat \ {0}, SKIP(k) \in Reach(mark)
    PROVE  /\ SKIP(k) \in MarkSet /\ After(mark, SKIP(k))
           /\ Behind(mark, SKIP(k)) /\ SKIP(k).index > mark.index
<1>1. SKIP(k).index = mark.index + k
  BY DEF SKIP, MarkSet
<1>2. mark.index \in Nat
  BY DEF MarkSet
<1> QED
  BY <1>1, <1>2, ReachAfter

\* fetch_stream_end forces a new line, not a new index.
LEMMA EndMarkAfter ==
    ASSUME mark \in MarkSet
    PROVE  /\ EndMark \in MarkSet /\ After(mark, EndMark)
           /\ EndMark.index = mark.index /\ EndMark.column = 0
<1>1. mark.index \in Nat /\ mark.line \in Nat /\ mark.column \in Nat
  BY DEF MarkSet
<1>2. CASE mark.column = 0
  BY <1>1, <1>2 DEF EndMark, After
<1>3. CASE mark.column # 0
  <2>1. EndMark = [mark EXCEPT !.line = @ + 1, !.column = 0]
    BY <1>3 DEF EndMark
  <2>2. EndMark = [index |-> mark.index, line |-> mark.line + 1, column |-> 0]
    BY <2>1 DEF MarkSet
  <2> QED BY <1>1, <2>2 DEF MarkSet, After
<1> QED
  BY <1>2, <1>3

\* What lies behind a mark lies behind all later ones.
LEMMA BehindAfter ==
    ASSUME NEW k \in MarkSet, NEW m \in MarkSet, NEW n \in MarkSet, Behind(k, m), After(m, n)
    PROVE  Behind(k, n)
<1>1. /\ k.line \in Nat /\ k.column \in Nat /\ m.line \in Nat
      /\ m.column \in Nat /\ n.line \in Nat /\ n.column \in Nat
  BY DEF MarkSet
<1> QED
  BY <1>1 DEF Behind, After

-----------------------------------------------------------------------------
(* Simple keys.                                                            *)

\* Every key of ks that is possible is the same key of keys.
Weaker(ks, keys) ==
    \A i \in DOMAIN ks : ks[i].possible => i \in DOMAIN keys /\ ks[i] = keys[i]

\* Keys that were only given up stay so when more are given up.
LEMMA WeakerTrans ==
    ASSUME NEW ks, NEW keys, NEW ls, Weaker(ks, keys), Weaker(keys, ls)
    PROVE  Weaker(ks, ls)
BY DEF Weaker

\* Fewer keys, a longer queue and a later mark.
LEMMA KeysFitOn ==
    ASSUME NEW keys \in Seq(KeySet), NEW ks \in Seq(KeySet), NEW p \in Nat,
           NEW s \in Seq(TokenSet), NEW e \in Seq(TokenSet),
           NEW m \in MarkSet, NEW n \in MarkSet,
           KeysFit(keys, p, s, m), Weaker(ks, keys), After(m, n)
    PROVE  KeysFit(ks, p, s \o e, n)
<1>1. Len(s) \in Nat /\ Len(e) \in Nat /\ Len(s \o e) = Len(s) + Len(e)
  BY LenProperties, ConcatProperties
<1>2. \A i \in 1..Len(s) : i \in 1..Len(s \o e) /\ (s \o e)[i] = s[i]
  BY <1>1, ConcatProperties
<1>3. ASSUME NEW i \in DOMAIN ks, ks[i].possible
      PROVE  /\ ks[i].token_number - p + 1 \in 1..Len(s \o e)
             /\ (s \o e)[ks[i].token_number - p + 1].index = ks[i].mark.index
             /\ Behind(ks[i].mark, n)
  <2>1. i \in DOMAIN keys /\ ks[i] = keys[i]
    BY <1>3 DEF Weaker
  <2>2. /\ keys[i].token_number - p + 1 \in 1..Len(s)
        /\ s[keys[i].token_number - p + 1].index = keys[i].mark.index
        /\ Behind(keys[i].mark, m)
    BY <1>3, <2>1 DEF KeysFit
  <2>3. keys[i].mark \in MarkSet
    <3>1. keys[i] \in KeySet
      BY <2>1, LenProperties
    <3> QED BY <3>1 DEF KeySet
  <2>4. Behind(keys[i].mark, n)
    BY <2>2, <2>3, BehindAfter
  <2> QED BY <1>2, <2>1, <2>2, <2>4
<1>4. ASSUME NEW i \in DOMAIN ks, NEW j \in DOMAIN ks, i < j, ks[i].possible, ks[j].possible
      PROVE  ks[i].token_number < ks[j].token_number
  <2>1. i \in DOMAIN keys /\ ks[i] = keys[i] /\ j \in DOMAIN keys /\ ks[j] = keys[j]
    BY <1>4 DEF Weaker
  <2> QED BY <1>4, <2>1 DEF KeysFit
<1> QED
  BY <1>3, <1>4 DEF KeysFit

\* The same without new tokens.
LEMMA KeysFitLater ==
    ASSUME NEW keys \in Seq(KeySet), NEW ks \in Seq(KeySet), NEW p \in Nat,
           NEW s \in Seq(TokenSet), NEW m \in MarkSet, NEW n \in MarkSet,
           KeysFit(keys, p, s, m), Weaker(ks, keys), After(m, n)
    PROVE  KeysFit(ks, p, s, n)
<1>1. <<>> \in Seq(TokenSet) /\ s \o <<>> = s
  BY EmptySeq, ConcatEmptySeq
<1>2. KeysFit(ks, p, s \o <<>>, n)
  BY <1>1, KeysFitOn
<1> QED
  BY <1>1, <1>2

\* A new flow level starts without a possible key.
LEMMA NoKeyFacts == NoKey \in KeySet /\ ~NoKey.possible
BY DEF NoKey, KeySet, MarkSet

\* A key with the top of the stack replaced.
LEMMA SetTopFacts ==
    ASSUME NEW keys \in Seq(KeySet), keys # <<>>, NEW k \in KeySet
    PROVE  /\ SetTop(keys, k) \in Seq(KeySet)
           /\ Len(SetTop(keys, k)) = Len(keys)
           /\ DOMAIN SetTop(keys, k) = DOMAIN keys
           /\ Len(keys) \in DOMAIN keys
           /\ \A i \in DOMAIN keys : SetTop(keys, k)[i] = IF i = Len(keys) THEN k ELSE keys[i]
<1>1. Len(keys) \in Nat /\ Len(keys) # 0 /\ DOMAIN keys = 1..Len(keys)
  BY LenProperties, EmptySeq
<1>2. Len(keys) \in 1..Len(keys)
  BY <1>1
<1> QED
  BY <1>1, <1>2, ExceptSeq, LenProperties DEF SetTop

\* yaml_parser_remove_simple_key gives up the innermost key and no other.
LEMMA RemoveWeaker ==
    ASSUME simple_keys \in Seq(KeySet), simple_keys # <<>>
    PROVE  /\ remove_simple_key \in Seq(KeySet)
           /\ Len(remove_simple_key) = Len(simple_keys)
           /\ remove_simple_key # <<>>
           /\ Weaker(remove_simple_key, simple_keys)
           /\ ~Last(remove_simple_key).possible
           /\ \A i \in 1..(Len(simple_keys) - 1) : remove_simple_key[i] = simple_keys[i]
<1> DEFINE r == remove_simple_key
<1>1. /\ r \in Seq(KeySet) /\ Len(r) = Len(simple_keys) /\ DOMAIN r = DOMAIN simple_keys
      /\ Len(simple_keys) \in DOMAIN simple_keys
      /\ \A i \in DOMAIN simple_keys :
            r[i] = IF i = Len(simple_keys) THEN NoKey ELSE simple_keys[i]
  BY SetTopFacts, NoKeyFacts DEF remove_simple_key
<1>2. Len(simple_keys) \in Nat /\ DOMAIN simple_keys = 1..Len(simple_keys) /\ Len(simple_keys) # 0
  BY LenProperties, EmptySeq
<1> HIDE DEF r
<1>3. Weaker(r, simple_keys)
  BY <1>1, NoKeyFacts DEF Weaker
<1>4. r # <<>> /\ Last(r) = NoKey
  BY <1>1, <1>2 DEF Last
<1>5. \A i \in 1..(Len(simple_keys) - 1) : r[i] = simple_keys[i]
  BY <1>1, <1>2
<1> QED
  BY <1>1, <1>3, <1>4, <1>5, NoKeyFacts DEF r

\* yaml_parser_stale_simple_keys only gives keys up.
LEMMA StaleWeaker ==
    ASSUME NEW keys \in Seq(KeySet), NEW m \in MarkSet
    PROVE  /\ stale_simple_keys(keys, m) \in Seq(KeySet)
           /\ Len(stale_simple_keys(keys, m)) = Len(keys)
           /\ Weaker(stale_simple_keys(keys, m), keys)
<1> DEFINE r == stale_simple_keys(keys, m)
<1>1. Len(keys) \in Nat /\ DOMAIN keys = 1..Len(keys) /\ \A i \in 1..Len(keys) : keys[i] \in KeySet
  BY LenProperties
<1>2. r = [i \in 1..Len(keys) |-> IF IsStale(keys[i], m) THEN NoKey ELSE keys[i]]
  BY <1>1 DEF stale_simple_keys
<1>3. \A i \in 1..Len(keys) : (IF IsStale(keys[i], m) THEN NoKey ELSE keys[i]) \in KeySet
  BY <1>1, NoKeyFacts
<1>4. r \in [1..Len(keys) -> KeySet]
  <2> HIDE DEF r
  <2> QED BY <1>2, <1>3
<1>5. r \in Seq(KeySet) /\ Len(r) = Len(keys)
  <2> HIDE DEF r
  <2> QED BY <1>1, <1>4
<1>6. Weaker(r, keys)
  <2> HIDE DEF r
  <2> QED BY <1>1, <1>2, NoKeyFacts DEF Weaker
<1> QED
  BY <1>5, <1>6

\* A key saved for the token that is added with it.
LEMMA SaveFits ==
    ASSUME simple_keys \in Seq(KeySet), simple_keys # <<>>, tokens \in Seq(TokenSet),
           tokens_parsed \in Nat, mark \in MarkSet,
           KeysFit(simple_keys, tokens_parsed, tokens, mark),
           NEW t \in TokenSet, t.index = mark.index, NEW m \in MarkSet,
           After(mark, m), Behind(mark, m)
    PROVE  /\ save_simple_key \in Seq(KeySet)
           /\ Len(save_simple_key) = Len(simple_keys)
           /\ KeysFit(save_simple_key, tokens_parsed, tokens \o <<t>>, m)
<1>0. <<t>> \in Seq(TokenSet)
  OBVIOUS
<1>1. CASE ~simple_key_allowed
  <2>1. save_simple_key = simple_keys
    BY <1>1 DEF save_simple_key
  <2>2. Weaker(simple_keys, simple_keys)
    BY DEF Weaker
  <2> QED BY <1>0, <2>1, <2>2, KeysFitOn
<1>2. CASE simple_key_allowed
  <2> DEFINE k == [possible |-> TRUE,
                   required |-> flow_level = 0 /\ indent = mark.column,
                   token_number |-> tokens_parsed + Len(tokens),
                   mark |-> mark]
             r == SetTop(simple_keys, k)
             u == tokens \o <<t>>
  <2>1. r = save_simple_key
    BY <1>2 DEF save_simple_key
  <2>2. Len(tokens) \in Nat /\ Len(u) = Len(tokens) + 1 /\ u[Len(tokens) + 1] = t
        /\ \A i \in 1..Len(tokens) : i \in 1..Len(u) /\ u[i] = tokens[i]
    <3>1. Len(tokens) \in Nat /\ Len(<<t>>) = 1 /\ <<t>>[1] = t
      BY LenProperties
    <3>2. /\ Len(u) = Len(tokens) + Len(<<t>>)
          /\ \A i \in 1..Len(tokens) + Len(<<t>>) :
                u[i] = IF i <= Len(tokens) THEN tokens[i] ELSE <<t>>[i - Len(tokens)]
      BY <1>0, ConcatProperties
    <3> QED BY <3>1, <3>2
  <2>3. k \in KeySet
    <3>1. (flow_level = 0 /\ indent = mark.column) \in BOOLEAN
      OBVIOUS
    <3> QED BY <2>2, <3>1 DEF KeySet
  <2>4. /\ r \in Seq(KeySet) /\ Len(r) = Len(simple_keys) /\ DOMAIN r = DOMAIN simple_keys
        /\ Len(simple_keys) \in DOMAIN simple_keys
        /\ DOMAIN simple_keys = 1..Len(simple_keys) /\ Len(simple_keys) \in Nat
        /\ \A i \in DOMAIN simple_keys :
              r[i] = IF i = Len(simple_keys) THEN k ELSE simple_keys[i]
    <3> HIDE DEF k
    <3> QED BY <2>3, SetTopFacts, LenProperties
  <2>5. k.token_number = tokens_parsed + Len(tokens) /\ k.mark = mark
    OBVIOUS
  <2> HIDE DEF k, r, u
  <2>6. \A i \in DOMAIN simple_keys : simple_keys[i].token_number \in Nat /\ simple_keys[i].mark \in MarkSet
    <3>1. \A i \in DOMAIN simple_keys : simple_keys[i] \in KeySet
      BY LenProperties
    <3> QED BY <3>1 DEF KeySet
  <2>7. ASSUME NEW i \in DOMAIN r, r[i].possible
        PROVE  /\ r[i].token_number - tokens_parsed + 1 \in 1..Len(u)
               /\ u[r[i].token_number - tokens_parsed + 1].index = r[i].mark.index
               /\ Behind(r[i].mark, m)
    <3>1. CASE i = Len(simple_keys)
      <4>1. r[i] = k /\ k.token_number - tokens_parsed + 1 = Len(tokens) + 1
        BY <2>2, <2>4, <2>5, <3>1
      <4> QED BY <2>2, <2>5, <4>1
    <3>2. CASE i # Len(simple_keys)
      <4>1. i \in DOMAIN simple_keys /\ r[i] = simple_keys[i]
        BY <2>4, <3>2
      <4>2. /\ r[i].token_number - tokens_parsed + 1 \in 1..Len(tokens)
            /\ tokens[r[i].token_number - tokens_parsed + 1].index = r[i].mark.index
            /\ Behind(r[i].mark, mark)
        BY <2>7, <4>1 DEF KeysFit
      <4>3. Behind(r[i].mark, m)
        BY <2>6, <4>1, <4>2, BehindAfter
      <4> QED BY <2>2, <4>2, <4>3
    <3> QED BY <3>1, <3>2
  <2>8. ASSUME NEW i \in DOMAIN r, NEW j \in DOMAIN r, i < j, r[i].possible, r[j].possible
        PROVE  r[i].token_number < r[j].token_number
    <3>1. i \in DOMAIN simple_keys /\ r[i] = simple_keys[i]
      BY <2>4, <2>8
    <3>2. r[i].token_number - tokens_parsed + 1 \in 1..Len(tokens) /\ r[i].token_number \in Nat
      BY <2>6, <2>8, <3>1 DEF KeysFit
    <3>3. CASE j = Len(simple_keys)
      BY <2>2, <2>4, <2>5, <3>2, <3>3
    <3>4. CASE j # Len(simple_keys)
      BY <2>4, <2>8, <3>1, <3>4 DEF KeysFit
    <3> QED BY <3>3, <3>4
  <2> QED BY <2>1, <2>4, <2>7, <2>8 DEF KeysFit, u
<1> QED
  BY <1>1, <1>2

-----------------------------------------------------------------------------
(* Indentation.                                                            *)

\* The stack of indents with the current one on top.
Levels(is, i) == is \in Seq(-1..IntMax) /\ i \in -1..IntMax /\ Grows(Append(is, i))

\* Pushing an indent.
LEMMA LevelFacts ==
    ASSUME NEW is \in Seq(-1..IntMax), NEW i \in -1..IntMax
    PROVE  /\ Append(is, i) \in Seq(-1..IntMax)
           /\ Len(is) \in Nat /\ Len(Append(is, i)) = Len(is) + 1
           /\ \A k \in 1..Len(Append(is, i)) :
                 /\ Append(is, i)[k] \in -1..IntMax /\ Append(is, i)[k] \in Int
                 /\ -1 <= Append(is, i)[k]
                 /\ Append(is, i)[k] = IF k = Len(is) + 1 THEN i ELSE is[k]
<1> DEFINE all == Append(is, i)
<1>1. /\ all \in Seq(-1..IntMax) /\ Len(all) = Len(is) + 1
      /\ \A k \in 1..Len(is) : all[k] = is[k]
      /\ all[Len(is) + 1] = i
  BY AppendProperties
<1>2. Len(is) \in Nat
  BY LenProperties
<1>3. \A k \in 1..Len(all) : all[k] \in -1..IntMax
  BY <1>1, ElementOfSeq
<1> HIDE DEF all
<1>4. \A k \in 1..Len(all) : all[k] \in Int /\ -1 <= all[k]
  BY <1>3, ScannerAssumption
<1>5. \A k \in 1..Len(all) : all[k] = IF k = Len(is) + 1 THEN i ELSE is[k]
  BY <1>1, <1>2
<1> QED
  BY <1>1, <1>2, <1>3, <1>4, <1>5 DEF all

\* The level that unrolling stops at exists: it is the bottom one at the latest.
LEMMA KeptExists ==
    ASSUME Levels(indents, indent), NEW column \in Int, column >= -1
    PROVE  LET all == Append(indents, indent) IN
           /\ Kept(column) \in 1..Len(all)
           /\ all[Kept(column)] <= column
<1> DEFINE all == Append(indents, indent)
           P(i) == all[i] <= column /\ \A j \in (i + 1)..Len(all) : all[j] > column
           T == {k \in 0..(Len(all) - 1) : all[Len(all) - k] <= column}
<1>1. /\ all \in Seq(-1..IntMax) /\ Len(all) \in Nat \ {0}
      /\ \A k \in 1..Len(all) : all[k] \in Int
      /\ all[1] = -1
  BY LevelFacts DEF Levels, Grows
<1> HIDE DEF all
<1>2. Len(all) - 1 \in T
  BY <1>1
<1>3. PICK k \in T : \A y \in T : k <= y
  <2>1. T \subseteq Nat
    BY <1>1
  <2> HIDE DEF T
  <2> QED BY <1>2, <2>1, LeastNumber
<1>4. Len(all) - k \in 1..Len(all) /\ P(Len(all) - k)
  <2>1. Len(all) - k \in 1..Len(all) /\ all[Len(all) - k] <= column
    BY <1>1, <1>3
  <2>2. ASSUME NEW j \in ((Len(all) - k) + 1)..Len(all)
        PROVE  all[j] > column
    <3>1. Len(all) - j \in 0..(Len(all) - 1) /\ Len(all) - j < k /\ j \in 1..Len(all)
      BY <1>1, <1>3
    <3>2. Len(all) - (Len(all) - j) = j
      BY <1>1
    <3>3. Len(all) - j \notin T
      <4>1. k \in Int /\ Len(all) - j \in Int /\ ~(k <= Len(all) - j)
        BY <1>1, <1>3, <3>1
      <4> HIDE DEF T
      <4> QED BY <1>3, <4>1
    <3>4. ~(all[j] <= column)
      BY <3>1, <3>2, <3>3
    <3> QED BY <1>1, <3>1, <3>4
  <2> QED BY <2>1, <2>2
<1>5. Kept(column) = CHOOSE i \in 1..Len(all) : P(i)
  BY DEF Kept, all
<1>6. Kept(column) \in 1..Len(all) /\ P(Kept(column))
  <2> HIDE DEF P
  <2> QED BY <1>4, <1>5
<1> QED
  BY <1>6 DEF all

\* What yaml_parser_unroll_indent leaves: a lower part of the levels, and a
\* BLOCK-END for each of the others.
LEMMA UnrollFacts ==
    ASSUME Levels(indents, indent), NEW column \in Int, column >= -1, NEW m \in MarkSet
    PROVE  LET u == unroll_indent(column, m) IN
           /\ Levels(u.indents, u.indent)
           /\ u.ends \in Seq(TokenSet)
           /\ Len(u.ends) <= Len(indents)
           /\ Len(u.indents) = Len(indents) - Len(u.ends)
           /\ \A i \in 1..Len(u.ends) : u.ends[i].type = "BLOCK_END" /\ u.ends[i].index = m.index
           /\ flow_level = 0 /\ column = -1 => u.indents = <<>>
<1> DEFINE all == Append(indents, indent)
           n == IF flow_level # 0 THEN Len(all) ELSE Kept(column)
           t == Tok("BLOCK_END", m)
           ends == [i \in 1..(Len(all) - n) |-> t]
           low == SubSeq(all, 1, n - 1)
           u == unroll_indent(column, m)
<1>1. /\ all \in Seq(-1..IntMax) /\ Len(indents) \in Nat /\ Len(all) = Len(indents) + 1
      /\ \A k \in 1..Len(all) : all[k] \in -1..IntMax /\ all[k] \in Int /\ -1 <= all[k]
  BY LevelFacts DEF Levels
<1>2. Grows(all)
  BY DEF Levels
<1>3. n \in 1..Len(all) /\ (flow_level = 0 => all[n] <= column)
  <2>1. Kept(column) \in 1..Len(all) /\ all[Kept(column)] <= column
    BY KeptExists
  <2> HIDE DEF all
  <2>2. CASE flow_level # 0
    BY <1>1, <2>2
  <2>3. CASE flow_level = 0
    BY <2>1, <2>3
  <2> QED BY <2>2, <2>3
<1>4. u = [ends |-> ends, indent |-> all[n], indents |-> low]
  BY DEF unroll_indent
<1>5. t \in TokenSet /\ t.type = "BLOCK_END" /\ t.index = m.index
  BY DEF Tok, TokenSet, TokenTypes, MarkSet
<1> HIDE DEF all, n, t, u
<1>6. ends \in Seq(TokenSet) /\ Len(ends) = Len(all) - n /\ \A i \in 1..Len(ends) : ends[i] = t
  <2>1. Len(all) - n \in Nat
    BY <1>1, <1>3
  <2>2. ends \in [1..(Len(all) - n) -> TokenSet]
    BY <1>5
  <2> QED BY <2>1, <2>2
<1>7. low \in Seq(-1..IntMax) /\ Len(low) = n - 1 /\ \A i \in 1..(n - 1) : low[i] = all[i]
  <2>1. \A i \in 1..(n - 1) : all[i] \in -1..IntMax
    BY <1>1, <1>3
  <2>2. n - 1 \in Int /\ (n - 1) - 1 + 1 = n - 1 /\ n - 1 >= 0
    BY <1>1, <1>3
  <2>3. /\ low \in Seq(-1..IntMax)
        /\ Len(low) = IF 1 <= n - 1 THEN (n - 1) - 1 + 1 ELSE 0
        /\ \A i \in 1..((n - 1) - 1 + 1) : low[i] = all[1 + i - 1]
    BY <2>1, <2>2, SubSeqProperties
  <2>4. \A i \in 1..(n - 1) : 1 + i - 1 = i
    BY <1>1, <1>3
  <2> QED BY <2>2, <2>3, <2>4
<1> HIDE DEF ends, low
<1>8. all[n] \in -1..IntMax
  BY <1>1, <1>3
<1>9. /\ Len(Append(low, all[n])) = n
      /\ \A i \in 1..n : Append(low, all[n])[i] = all[i]
  <2>1. /\ Len(Append(low, all[n])) = Len(low) + 1
        /\ \A k \in 1..Len(Append(low, all[n])) :
              Append(low, all[n])[k] = IF k = Len(low) + 1 THEN all[n] ELSE low[k]
    BY <1>7, <1>8, LevelFacts
  <2> QED BY <1>1, <1>3, <1>7, <2>1
<1>10. Grows(Append(low, all[n]))
  <2>1. 1 \in 1..n /\ \A i \in 1..n : i \in 1..Len(all)
    BY <1>1, <1>3
  <2> QED BY <1>2, <1>9, <2>1 DEF Grows
<1>11. flow_level = 0 /\ column = -1 => low = <<>>
  <2> SUFFICES ASSUME flow_level = 0, column = -1
               PROVE  n = 1
    BY <1>7, EmptySeq
  <2>1. all[n] <= -1 /\ all[1] = -1
    BY <1>2, <1>3 DEF Grows
  <2>2. 1 < n => all[1] < all[n]
    BY <1>1, <1>2, <1>3 DEF Grows
  <2> QED BY <1>1, <1>3, <2>1, <2>2
<1>12. /\ Levels(low, all[n])
       /\ ends \in Seq(TokenSet)
       /\ Len(ends) <= Len(indents)
       /\ Len(low) = Len(indents) - Len(ends)
       /\ \A i \in 1..Len(ends) : ends[i].type = "BLOCK_END" /\ ends[i].index = m.index
       /\ flow_level = 0 /\ column = -1 => low = <<>>
  BY <1>1, <1>3, <1>5, <1>6, <1>7, <1>8, <1>10, <1>11 DEF Levels
<1>13. u.ends = ends /\ u.indent = all[n] /\ u.indents = low
  BY <1>4
<1> QED
  BY <1>12, <1>13 DEF u

\* A collection that starts deeper than the current level adds one.
LEMMA RollFacts ==
    ASSUME Levels(indents, indent), NEW column \in Nat, ~ColumnTooLarge(column),
           roll_indent(column)
    PROVE  /\ Levels(indents', indent')
           /\ Len(indents') = IF Rolls(column) THEN Len(indents) + 1 ELSE Len(indents)
<1>1. CASE ~Rolls(column)
  BY <1>1 DEF roll_indent
<1>2. CASE Rolls(column)
  <2>1. indent' = column /\ indents' = Append(indents, indent)
    BY <1>2 DEF roll_indent
  <2>2. column \in -1..IntMax /\ indent < column
    BY <1>2, ScannerAssumption DEF ColumnTooLarge, Rolls
  <2> DEFINE all == Append(indents, indent)
  <2>3. /\ all \in Seq(-1..IntMax) /\ Len(indents) \in Nat /\ Len(all) = Len(indents) + 1
        /\ \A k \in 1..Len(all) : all[k] \in Int
        /\ all[Len(indents) + 1] = indent
        /\ Grows(all)
    BY LevelFacts DEF Levels
  <2> HIDE DEF all
  <2>4. /\ Len(Append(all, column)) = Len(all) + 1
        /\ \A k \in 1..Len(Append(all, column)) :
              Append(all, column)[k] = IF k = Len(all) + 1 THEN column ELSE all[k]
    BY <2>2, <2>3, LevelFacts
  <2>5. \A i \in 1..Len(all) : all[i] < column
    <3> TAKE i \in 1..Len(all)
    <3>1. CASE i = Len(all)
      BY <2>2, <2>3, <3>1
    <3>2. CASE i < Len(all)
      <4>1. all[i] < all[Len(all)]
        BY <2>3, <3>2 DEF Grows
      <4> QED BY <2>2, <2>3, <4>1
    <3> QED BY <2>3, <3>1, <3>2
  <2>6. Grows(Append(all, column))
    <3>1. Append(all, column)[1] = -1
      BY <2>3, <2>4 DEF Grows
    <3>2. ASSUME NEW i \in 1..Len(Append(all, column)), NEW j \in 1..Len(Append(all, column)), i < j
          PROVE  Append(all, column)[i] < Append(all, column)[j]
      <4>1. i \in 1..Len(all) /\ Append(all, column)[i] = all[i]
        BY <2>3, <2>4, <3>2
      <4>2. CASE j = Len(all) + 1
        BY <2>3, <2>4, <2>5, <4>1, <4>2
      <4>3. CASE j # Len(all) + 1
        <5>1. j \in 1..Len(all) /\ Append(all, column)[j] = all[j]
          BY <2>3, <2>4, <4>3
        <5> QED BY <2>3, <3>2, <4>1, <5>1 DEF Grows
      <4> QED BY <4>2, <4>3
    <3> QED BY <3>1, <3>2 DEF Grows
  <2> QED BY <1>2, <2>1, <2>2, <2>3, <2>6 DEF Levels, all
<1> QED
  BY <1>1, <1>2

-----------------------------------------------------------------------------
(* Steps.                                                                  *)

\* What a step of fetch_next_token that does not fail does to the text, to the
\* keys and to the queue.
Moves ==
    /\ UNCHANGED Reading
    /\ mark' \in MarkSet /\ After(mark, mark')
    /\ ahead' \in {"any", "blankz", "end"} /\ phase' \in {"next", "lexeme"}
    /\ simple_key_allowed' \in BOOLEAN

KeysStay ==
    /\ simple_keys' \in Seq(KeySet)
    /\ flow_level' \in 0..IntMax /\ Len(simple_keys') = flow_level' + 1
    /\ KeysFit(simple_keys', tokens_parsed, tokens', mark')

QueueStays ==
    /\ tokens' \in Seq(TokenSet)
    /\ Ordered(0, tokens', mark'.index)
    /\ EndLast(tokens') /\ (NoEnd(tokens') \/ AtEnd')
    /\ Balanced(open_blocks, tokens', Len(indents'))

\* A step that keeps mark, keys, queue and indents in order keeps the invariant.
LEMMA StepKeeps ==
    ASSUME Inv, stream_start_produced, ~token_available,
           Moves, KeysStay, QueueStays, Levels(indents', indent')
    PROVE  Inv'
<1>1. /\ tokens_parsed' = tokens_parsed /\ token_available' = token_available
      /\ stream_start_produced' = stream_start_produced
      /\ stream_end_produced' = stream_end_produced
      /\ error' = error /\ open_blocks' = open_blocks
  BY DEF Moves, Reading
<1>2. TypeOK'
  BY <1>1 DEF Inv, TypeOK, Moves, KeysStay, QueueStays, Levels, MarkSet, TokenSet, KeySet
<1>3. Started'
  BY <1>1 DEF Started, KeysStay, Levels
<1>4. HeadIsFree'
  BY <1>1 DEF HeadIsFree
<1>5. KeysFit(simple_keys, tokens_parsed, tokens, mark)'
  BY <1>1 DEF KeysStay
<1>6. Ordered(0, tokens, mark.index)' /\ EndLast(tokens)' /\ (NoEnd(tokens) \/ AtEnd)'
  BY DEF QueueStays
<1>7. Balanced(open_blocks, tokens, Len(indents))'
  BY <1>1 DEF QueueStays
<1> QED
  BY <1>1, <1>2, <1>3, <1>4, <1>5, <1>6, <1>7 DEF Inv

\* A queue that grows at its end.
LEMMA QueueGrows ==
    ASSUME Inv, NoEnd(tokens), mark' \in MarkSet, After(mark, mark'),
           NEW e \in Seq(TokenSet), tokens' = tokens \o e,
           Ordered(mark.index, e, mark'.index), Balanced(Len(indents), e, Len(indents')),
           EndLast(e), NoEnd(e) \/ AtEnd'
    PROVE  QueueStays
<1>1. /\ tokens \in Seq(TokenSet) /\ Ordered(0, tokens, mark.index) /\ mark \in MarkSet
      /\ open_blocks \in Int /\ Balanced(open_blocks, tokens, Len(indents))
  BY DEF Inv, TypeOK, TokenSet, MarkSet
<1>2. Len(tokens) \in Nat /\ Len(e) \in Nat /\ tokens' \in Seq(TokenSet)
      /\ Len(tokens') = Len(tokens) + Len(e)
  BY <1>1, LenProperties, ConcatProperties
<1>3. Ordered(0, tokens', mark'.index)
  <2>1. mark.index \in Nat /\ mark'.index \in Nat /\ mark.index <= mark'.index /\ 0 <= mark.index
    BY <1>1 DEF MarkSet, After
  <2> QED BY <1>1, <2>1, OrderedConcat
<1>4. Balanced(open_blocks, tokens', Len(indents'))
  BY <1>1, BalancedConcat
<1>5. \A n \in 1..Len(tokens') :
         IF n <= Len(tokens) THEN n \in 1..Len(tokens) /\ tokens'[n] = tokens[n]
         ELSE n - Len(tokens) \in 1..Len(e) /\ tokens'[n] = e[n - Len(tokens)]
  BY <1>1, <1>2, ConcatProperties
<1>6. EndLast(tokens')
  <2> SUFFICES ASSUME NEW n \in 1..Len(tokens'), tokens'[n].type = "STREAM_END"
               PROVE  n = Len(tokens')
    BY DEF EndLast
  <2>1. n > Len(tokens)
    BY <1>2, <1>5 DEF NoEnd
  <2>2. n - Len(tokens) \in 1..Len(e) /\ e[n - Len(tokens)].type = "STREAM_END"
    BY <1>2, <1>5, <2>1
  <2>3. n - Len(tokens) = Len(e)
    BY <2>2 DEF EndLast
  <2> QED BY <1>2, <2>3
<1>7. NoEnd(e) => NoEnd(tokens')
  <2> SUFFICES ASSUME NoEnd(e), NEW n \in 1..Len(tokens')
               PROVE  tokens'[n].type # "STREAM_END"
    BY DEF NoEnd
  <2> QED BY <1>5 DEF NoEnd
<1> QED
  BY <1>2, <1>3, <1>4, <1>6, <1>7 DEF QueueStays

\* What a handler may use of the invariant.
LEMMA AtLexemeFacts ==
    ASSUME Inv, AtLexeme
    PROVE  /\ stream_start_produced /\ ~token_available
           /\ NoEnd(tokens)
           /\ simple_keys \in Seq(KeySet) /\ simple_keys # <<>>
           /\ Len(simple_keys) = flow_level + 1
           /\ tokens \in Seq(TokenSet) /\ tokens_parsed \in Nat /\ open_blocks \in Int
           /\ mark \in MarkSet /\ mark.index \in Nat /\ mark.column \in Nat
           /\ flow_level \in Nat /\ flow_level \in 0..IntMax
           /\ Levels(indents, indent) /\ Len(indents) \in Nat
           /\ KeysFit(simple_keys, tokens_parsed, tokens, mark)
<1>1. stream_start_produced /\ ~token_available /\ NoEnd(tokens)
  BY DEF Inv, AtLexeme, AtEnd
<1>2. /\ simple_keys \in Seq(KeySet) /\ tokens \in Seq(TokenSet) /\ tokens_parsed \in Nat
      /\ open_blocks \in Int /\ mark \in MarkSet /\ flow_level \in 0..IntMax
  BY DEF Inv, TypeOK, MarkSet, TokenSet, KeySet
<1>3. mark.index \in Nat /\ mark.column \in Nat /\ flow_level \in Nat
  BY <1>2, ScannerAssumption DEF MarkSet
<1>4. Levels(indents, indent) /\ Len(simple_keys) = flow_level + 1
  BY <1>1 DEF Inv, TypeOK, Started, Levels
<1>5. Len(indents) \in Nat
  BY <1>4, LenProperties DEF Levels
<1>6. simple_keys # <<>>
  BY <1>3, <1>4, EmptySeq
<1> QED
  BY <1>1, <1>2, <1>3, <1>4, <1>5, <1>6 DEF Inv

\* A failing step changes nothing that the invariant is about.
LEMMA FailKeeps ==
    ASSUME Inv, NEW err \in {"SCANNER", "READER", "MEMORY"}, Fail(err)
    PROVE  Inv' /\ error' # "NO"
<1>1. error' = err
  BY DEF Fail
<1>2. /\ UNCHANGED <<mark, ahead, phase, tokens, tokens_parsed, token_available,
                     stream_start_produced, stream_end_produced, simple_keys,
                     simple_key_allowed, flow_level, indent, indents, open_blocks>>
  BY DEF Fail
<1>3. TypeOK'
  BY <1>1, <1>2 DEF Inv, TypeOK
<1> QED
  BY <1>1, <1>2, <1>3 DEF Inv, Started, HeadIsFree, AtEnd

\* A key popped with its flow level, pushed with a new one, or left.
LEMMA WeakerSelf == ASSUME NEW keys PROVE Weaker(keys, keys)
BY DEF Weaker

\* Keys that are not touched stay where they are in a queue that grows.
LEMMA KeysStayOn ==
    ASSUME Inv, AtLexeme, NEW ks \in Seq(KeySet), Weaker(ks, simple_keys), simple_keys' = ks,
           NEW e \in Seq(TokenSet), tokens' = tokens \o e,
           mark' \in MarkSet, After(mark, mark'),
           flow_level' \in 0..IntMax, Len(ks) = flow_level' + 1
    PROVE  KeysStay
BY AtLexemeFacts, KeysFitOn DEF KeysStay

\* One token that opens and closes no block, made at the mark.
Plain(type) == type \in TokenTypes \ (BlockStarts \cup {"BLOCK_END", "STREAM_END"})

\* One token that opens or closes no block, at the place of its text.
LEMMA OnePlain ==
    ASSUME NEW type, Plain(type), NEW m \in MarkSet, NEW a \in Nat
    PROVE  /\ Tok(type, m) \in TokenSet /\ <<Tok(type, m)>> \in Seq(TokenSet)
           /\ Tok(type, m).index = m.index
           /\ Ordered(m.index, <<Tok(type, m)>>, m.index)
           /\ Balanced(a, <<Tok(type, m)>>, a)
           /\ NoEnd(<<Tok(type, m)>>)
<1> DEFINE t == Tok(type, m)
<1>1. t \in TokenSet /\ t.index = m.index /\ t.type = type /\ m.index \in Nat
  BY DEF Plain, Tok, TokenSet, MarkSet
<1>2. Delta(t) = 0 /\ type # "STREAM_END"
  BY <1>1 DEF Delta, Plain
<1> HIDE DEF t
<1>3. <<t>> \in Seq(TokenSet) /\ Len(<<t>>) = 1 /\ <<t>>[1] = t
  BY <1>1
<1>4. \A i \in 1..Len(<<t>>) : <<t>>[i] = t
  BY <1>3
<1>5. Ordered(m.index, <<t>>, m.index)
  BY <1>1, <1>3, <1>4, OrderedSame
<1>6. Balanced(a, <<t>>, a)
  <2>1. a + Delta(t) = a /\ a + Delta(t) >= 0
    BY <1>2
  <2>2. Balanced(a, <<t>>, a + Delta(t))
    BY <1>1, <2>1, BalancedOne
  <2> QED BY <2>1, <2>2
<1>7. NoEnd(<<t>>)
  BY <1>1, <1>2, <1>4 DEF NoEnd
<1> QED
  BY <1>1, <1>3, <1>5, <1>6, <1>7 DEF t

\* Without a STREAM-END there is nothing behind it.
LEMMA NoEndLast == ASSUME NEW s, NoEnd(s) PROVE EndLast(s)
BY DEF NoEnd, EndLast

\* A plain token at the end of the queue, with the levels as they were.
LEMMA PlainGrows ==
    ASSUME Inv, AtLexeme, mark' \in MarkSet, After(mark, mark'), NEW type, Plain(type),
           tokens' = Append(tokens, Tok(type, mark)), UNCHANGED <<indent, indents>>
    PROVE  /\ QueueStays /\ Levels(indents', indent')
           /\ tokens' = tokens \o <<Tok(type, mark)>>
<1>1. /\ NoEnd(tokens) /\ tokens \in Seq(TokenSet) /\ mark \in MarkSet /\ mark.index \in Nat
      /\ Levels(indents, indent) /\ Len(indents) \in Nat
  BY AtLexemeFacts
<1> DEFINE t == Tok(type, mark)
<1>2. /\ t \in TokenSet /\ <<t>> \in Seq(TokenSet)
      /\ Ordered(mark.index, <<t>>, mark.index)
      /\ Balanced(Len(indents), <<t>>, Len(indents))
      /\ NoEnd(<<t>>)
  BY <1>1, OnePlain
<1> HIDE DEF t
<1>3. tokens' = tokens \o <<t>>
  BY <1>1, <1>2, AppendIsConcat DEF t
<1>4. mark'.index \in Nat /\ mark.index <= mark'.index /\ mark.index <= mark.index
  BY <1>1 DEF MarkSet, After
<1>5. Ordered(mark.index, <<t>>, mark'.index)
  BY <1>1, <1>2, <1>4, OrderedWiden
<1>6. EndLast(<<t>>)
  BY <1>2, NoEndLast
<1>7. Balanced(Len(indents), <<t>>, Len(indents'))
  BY <1>2
<1>8. QueueStays
  BY <1>1, <1>2, <1>3, <1>5, <1>6, <1>7, QueueGrows
<1> QED
  BY <1>1, <1>3, <1>8 DEF t

\* A piece made at one place and one token behind it.
LEMMA PieceThenToken ==
    ASSUME NEW x \in Nat, NEW e \in Seq(TokenSet), \A i \in 1..Len(e) : e[i].index = x,
           NoEnd(e), NEW a \in Nat, NEW b \in Nat, Balanced(a, e, b),
           NEW t \in TokenSet, t.index = x, Delta(t) = 0
    PROVE  LET f == e \o <<t>> IN
           /\ f \in Seq(TokenSet) /\ Ordered(x, f, x) /\ Balanced(a, f, b)
           /\ EndLast(f) /\ (t.type # "STREAM_END" => NoEnd(f))
<1> DEFINE f == e \o <<t>>
<1>0. <<t>> \in Seq(TokenSet) /\ Len(<<t>>) = 1 /\ <<t>>[1] = t /\ Len(e) \in Nat
  BY LenProperties
<1>1. f \in Seq(TokenSet) /\ Len(f) = Len(e) + 1
  BY <1>0, ConcatProperties
<1>2. \A i \in 1..Len(f) : IF i <= Len(e) THEN i \in 1..Len(e) /\ f[i] = e[i]
                           ELSE i = Len(f) /\ f[i] = t
  <2>1. \A i \in 1..(Len(e) + Len(<<t>>)) :
           f[i] = IF i <= Len(e) THEN e[i] ELSE <<t>>[i - Len(e)]
    BY <1>0, ConcatProperties
  <2> QED BY <1>0, <1>1, <2>1
<1>3. Balanced(a, f, b)
  <2>1. b + Delta(t) = b /\ b + Delta(t) >= 0
    OBVIOUS
  <2>2. Balanced(b, <<t>>, b)
    BY <2>1, BalancedOne
  <2> DEFINE w == <<t>>
  <2>3. w \in Seq(TokenSet) /\ Balanced(b, w, b) /\ a \in Int
    BY <1>0, <2>2
  <2> HIDE DEF w
  <2>4. Balanced(a, e \o w, b)
    BY <2>3, BalancedConcat
  <2> QED BY <2>4 DEF w
<1> HIDE DEF f
<1>4. Ordered(x, f, x)
  <2>1. \A i \in 1..Len(f) : f[i].index = x
    BY <1>2
  <2> QED BY <1>1, <2>1, OrderedSame
<1>5. EndLast(f)
  BY <1>2 DEF EndLast, NoEnd
<1>6. t.type # "STREAM_END" => NoEnd(f)
  BY <1>2 DEF NoEnd
<1> QED
  BY <1>1, <1>3, <1>4, <1>5, <1>6 DEF f

\* A run of BLOCK-ENDs.
LEMMA EndsPiece ==
    ASSUME Levels(indents, indent), NEW column \in Int, column >= -1, NEW m \in MarkSet
    PROVE  LET u == unroll_indent(column, m) IN
           /\ u.ends \in Seq(TokenSet)
           /\ \A i \in 1..Len(u.ends) : u.ends[i].index = m.index
           /\ Ordered(m.index, u.ends, m.index)
           /\ Balanced(Len(indents), u.ends, Len(u.indents))
           /\ NoEnd(u.ends) /\ Len(u.indents) \in Nat
<1> DEFINE u == unroll_indent(column, m)
<1>1. /\ Levels(u.indents, u.indent)
      /\ u.ends \in Seq(TokenSet)
      /\ Len(u.ends) <= Len(indents)
      /\ Len(u.indents) = Len(indents) - Len(u.ends)
      /\ \A i \in 1..Len(u.ends) : u.ends[i].type = "BLOCK_END" /\ u.ends[i].index = m.index
  BY UnrollFacts
<1>2. Len(indents) \in Nat /\ Len(u.indents) \in Nat /\ m.index \in Nat
  BY <1>1, LenProperties DEF Levels, MarkSet
<1> HIDE DEF u
<1>3. Balanced(Len(indents), u.ends, Len(u.indents))
  BY <1>1, <1>2, BalancedEnds
<1>4. Ordered(m.index, u.ends, m.index)
  BY <1>1, <1>2, OrderedSame
<1>5. NoEnd(u.ends)
  BY <1>1 DEF NoEnd
<1> QED
  BY <1>1, <1>2, <1>3, <1>4, <1>5 DEF u

\* A token that starts a collection, if one starts, and a plain token.
LEMMA StartPiece ==
    ASSUME NEW m \in MarkSet, NEW start \in BlockStarts, NEW type, Plain(type), NEW a \in Nat
    PROVE  LET f == StartOf(start, m) \o <<Tok(type, m)>> IN
           /\ f \in Seq(TokenSet) /\ Ordered(m.index, f, m.index) /\ NoEnd(f)
           /\ Balanced(a, f, IF Rolls(m.column) THEN a + 1 ELSE a)
<1> DEFINE s == Tok(start, m)  t == Tok(type, m)  e == StartOf(start, m)
           b == IF Rolls(m.column) THEN a + 1 ELSE a
<1>1. /\ t \in TokenSet /\ t.index = m.index /\ t.type = type
      /\ s \in TokenSet /\ s.index = m.index /\ s.type = start /\ m.index \in Nat
  BY DEF Plain, Tok, TokenSet, TokenTypes, MarkSet
<1>2. Delta(t) = 0 /\ Delta(s) = 1 /\ t.type # "STREAM_END" /\ s.type # "STREAM_END"
  BY <1>1 DEF Delta, Plain, BlockStarts
<1>3. e = IF Rolls(m.column) THEN <<s>> ELSE <<>>
  BY DEF StartOf
<1> HIDE DEF s, t, e
<1>4. /\ e \in Seq(TokenSet) /\ b \in Nat /\ Balanced(a, e, b)
      /\ \A i \in 1..Len(e) : e[i].index = m.index
      /\ NoEnd(e)
  <2>1. CASE Rolls(m.column)
    <3>1. e = <<s>> /\ Len(e) = 1 /\ e[1] = s /\ b = a + 1
      BY <1>3, <2>1
    <3>2. Balanced(a, <<s>>, a + Delta(s))
      BY <1>1, <1>2, BalancedOne
    <3> QED BY <1>1, <1>2, <3>1, <3>2 DEF NoEnd
  <2>2. CASE ~Rolls(m.column)
    <3>1. e = <<>> /\ Len(e) = 0 /\ b = a
      BY <1>3, <2>2
    <3> QED BY <3>1, BalancedEmpty DEF NoEnd
  <2> QED BY <2>1, <2>2
<1> HIDE DEF b
<1> QED
  BY <1>1, <1>2, <1>4, PieceThenToken DEF t, e, b

\* A directive, a document indicator or the end of the stream: the block
\* collections are ended first.
LEMMA MarginGrows ==
    ASSUME Inv, AtLexeme, NEW m \in MarkSet, m.index = mark.index,
           mark' \in MarkSet, After(mark, mark'), NEW type, Plain(type) \/ type = "STREAM_END",
           tokens' = tokens \o unroll_indent(-1, m).ends \o <<Tok(type, m)>>,
           indent' = unroll_indent(-1, m).indent, indents' = unroll_indent(-1, m).indents,
           type = "STREAM_END" => phase' = "next" /\ mark'.column = 0 /\ flow_level' = flow_level
    PROVE  /\ QueueStays /\ Levels(indents', indent')
           /\ \E e \in Seq(TokenSet) : tokens' = tokens \o e
<1> DEFINE u == unroll_indent(-1, m)  t == Tok(type, m)  e == u.ends \o <<t>>
<1>1. /\ NoEnd(tokens) /\ tokens \in Seq(TokenSet) /\ mark \in MarkSet /\ mark.index \in Nat
      /\ Levels(indents, indent) /\ Len(indents) \in Nat
  BY AtLexemeFacts
<1>2. /\ u.ends \in Seq(TokenSet)
      /\ \A i \in 1..Len(u.ends) : u.ends[i].index = m.index
      /\ Balanced(Len(indents), u.ends, Len(u.indents))
      /\ NoEnd(u.ends) /\ Len(u.indents) \in Nat
  BY <1>1, EndsPiece
<1>3. Levels(u.indents, u.indent) /\ (flow_level = 0 => u.indents = <<>>)
  <2>1. -1 \in Int /\ -1 >= -1
    OBVIOUS
  <2> QED BY <1>1, <2>1, UnrollFacts
<1>4. t \in TokenSet /\ t.index = mark.index /\ t.type = type /\ Delta(t) = 0
  BY <1>1 DEF Plain, Tok, TokenSet, TokenTypes, BlockStarts, Delta
<1> HIDE DEF u, t
<1>5. /\ e \in Seq(TokenSet) /\ Ordered(mark.index, e, mark.index)
      /\ Balanced(Len(indents), e, Len(u.indents))
      /\ EndLast(e) /\ (t.type # "STREAM_END" => NoEnd(e))
  BY <1>1, <1>2, <1>4, PieceThenToken
<1>6. tokens' = tokens \o e /\ indents' = u.indents /\ indent' = u.indent
  <2>1. tokens' = (tokens \o u.ends) \o <<t>>
    BY DEF u, t
  <2>2. (tokens \o u.ends) \o <<t>> = tokens \o (u.ends \o <<t>>)
    <3> DEFINE ends == u.ends
    <3>1. tokens \in Seq(TokenSet) /\ ends \in Seq(TokenSet) /\ t \in TokenSet
      BY <1>1, <1>2, <1>4
    <3> HIDE DEF ends
    <3>2. (tokens \o ends) \o <<t>> = tokens \o (ends \o <<t>>)
      BY <3>1, ConcatThree
    <3> QED BY <3>2 DEF ends
  <2> QED BY <2>1, <2>2 DEF u
<1> HIDE DEF e
<1>7. Ordered(mark.index, e, mark'.index)
  <2>1. mark'.index \in Nat /\ mark.index <= mark'.index /\ mark.index <= mark.index
    BY <1>1 DEF MarkSet, After
  <2> QED BY <1>1, <1>5, <2>1, OrderedWiden
<1>8. NoEnd(e) \/ AtEnd'
  BY <1>3, <1>4, <1>5, <1>6 DEF AtEnd
<1>9. Balanced(Len(indents), e, Len(indents')) /\ Levels(indents', indent')
  BY <1>3, <1>5, <1>6
<1>10. QueueStays
  BY <1>1, <1>5, <1>6, <1>7, <1>8, <1>9, QueueGrows
<1> QED
  BY <1>5, <1>6, <1>9, <1>10

\* An indicator in front of which a block collection may start.
LEMMA StartGrows ==
    ASSUME Inv, AtLexeme, mark' \in MarkSet, After(mark, mark'),
           NEW start \in BlockStarts, NEW type, Plain(type),
           tokens' = tokens \o StartOf(start, mark) \o <<Tok(type, mark)>>,
           ~ColumnTooLarge(mark.column), roll_indent(mark.column)
    PROVE  /\ QueueStays /\ Levels(indents', indent')
           /\ \E e \in Seq(TokenSet) : tokens' = tokens \o e
<1> DEFINE s == StartOf(start, mark)  t == Tok(type, mark)  e == s \o <<t>>
<1>1. /\ NoEnd(tokens) /\ tokens \in Seq(TokenSet) /\ mark \in MarkSet
      /\ mark.index \in Nat /\ mark.column \in Nat
      /\ Levels(indents, indent) /\ Len(indents) \in Nat
  BY AtLexemeFacts
<1>2. /\ Levels(indents', indent')
      /\ Len(indents') = IF Rolls(mark.column) THEN Len(indents) + 1 ELSE Len(indents)
  BY <1>1, RollFacts
<1>3. /\ e \in Seq(TokenSet) /\ Ordered(mark.index, e, mark.index) /\ NoEnd(e)
      /\ Balanced(Len(indents), e, Len(indents'))
  BY <1>1, <1>2, StartPiece
<1>4. tokens' = tokens \o e
  <2>1. s \in Seq(TokenSet)
    <3>1. t \in TokenSet /\ Tok(start, mark) \in TokenSet
      BY <1>1 DEF Plain, Tok, TokenSet, TokenTypes
    <3>2. s = <<Tok(start, mark)>> \/ s = <<>>
      BY DEF StartOf
    <3> HIDE DEF s, t
    <3> QED BY <3>1, <3>2, OneSeq, EmptySeq
  <2>1a. t \in TokenSet
    BY <1>1 DEF Plain, Tok, TokenSet, TokenTypes
  <2> HIDE DEF s, t
  <2>2. (tokens \o s) \o <<t>> = tokens \o (s \o <<t>>)
    BY SMTT(60), <1>1, <2>1, <2>1a, ConcatThree
  <2> QED BY <2>2 DEF s, t
<1> HIDE DEF e
<1>5. Ordered(mark.index, e, mark'.index)
  <2>1. mark'.index \in Nat /\ mark.index <= mark'.index /\ mark.index <= mark.index
    BY <1>1 DEF MarkSet, After
  <2> QED BY <1>1, <1>3, <2>1, OrderedWiden
<1>6. QueueStays
  BY <1>1, <1>3, <1>4, <1>5, NoEndLast, QueueGrows
<1> QED
  BY <1>2, <1>3, <1>4, <1>6

-----------------------------------------------------------------------------
(* The handlers.                                                           *)

\* The end of a fetch function: the mark goes forward, the scanner is ready for the next.
LEMMA MovesBy ==
    ASSUME NEW m \in MarkSet, After(mark, m), NEW known \in {"any", "blankz", "end"},
           Done(m, known), simple_key_allowed' \in BOOLEAN, UNCHANGED Reading
    PROVE  Moves /\ mark' = m /\ phase' = "next"
BY DEF Done, Moves

\* yaml_parser_fetch_stream_end.
LEMMA StreamEndKeeps ==
    ASSUME Inv, fetch_stream_end
    PROVE  Inv'
<1>0. AtLexeme
  BY DEF fetch_stream_end
<1>1. CASE KeyRequired /\ Fail("SCANNER")
  BY <1>1, FailKeeps
<1>2. CASE ~KeyRequired /\ ~(KeyRequired /\ Fail("SCANNER"))
  <2>1. /\ simple_keys' = remove_simple_key /\ simple_key_allowed' = FALSE
        /\ indent' = unroll_indent(-1, EndMark).indent
        /\ indents' = unroll_indent(-1, EndMark).indents
        /\ tokens' = tokens \o unroll_indent(-1, EndMark).ends \o <<Tok("STREAM_END", EndMark)>>
        /\ Done(EndMark, "end") /\ flow_level' = flow_level /\ UNCHANGED Reading
    BY <1>2 DEF fetch_stream_end
  <2>2. /\ stream_start_produced /\ ~token_available
        /\ simple_keys \in Seq(KeySet) /\ simple_keys # <<>>
        /\ Len(simple_keys) = flow_level + 1 /\ flow_level \in 0..IntMax /\ mark \in MarkSet
    BY <1>0, AtLexemeFacts
  <2>3. /\ EndMark \in MarkSet /\ After(mark, EndMark)
        /\ EndMark.index = mark.index /\ EndMark.column = 0
    BY <2>2, EndMarkAfter
  <2>4. Moves /\ mark' = EndMark /\ phase' = "next"
    BY <2>1, <2>3, MovesBy
  <2>5. /\ QueueStays /\ Levels(indents', indent')
        /\ \E e \in Seq(TokenSet) : tokens' = tokens \o e
    BY <1>0, <2>1, <2>3, <2>4, MarginGrows
  <2>6. KeysStay
    BY <1>0, <2>1, <2>2, <2>3, <2>4, <2>5, RemoveWeaker, KeysStayOn
  <2> QED BY <2>2, <2>4, <2>5, <2>6, StepKeeps
<1> QED
  BY <1>1, <1>2 DEF fetch_stream_end

\* What is fetched at the margin: all blocks are closed first.
LEMMA MarginKeeps ==
    ASSUME Inv, NEW type, Plain(type), NEW m \in Reach(mark),
           NEW known \in {"any", "blankz", "end"}, fetch_at_margin(type, m, known)
    PROVE  Inv'
<1>0. AtLexeme
  BY DEF fetch_at_margin, AtText
<1>1. CASE KeyRequired /\ Fail("SCANNER")
  BY <1>1, FailKeeps
<1>2. CASE ~(KeyRequired /\ Fail("SCANNER"))
  <2>1. /\ simple_keys' = remove_simple_key /\ simple_key_allowed' = FALSE
        /\ indent' = unroll_indent(-1, mark).indent
        /\ indents' = unroll_indent(-1, mark).indents
        /\ tokens' = tokens \o unroll_indent(-1, mark).ends \o <<Tok(type, mark)>>
        /\ Done(m, known) /\ flow_level' = flow_level /\ UNCHANGED Reading
    BY <1>2 DEF fetch_at_margin
  <2>2. /\ stream_start_produced /\ ~token_available
        /\ simple_keys \in Seq(KeySet) /\ simple_keys # <<>>
        /\ Len(simple_keys) = flow_level + 1 /\ flow_level \in 0..IntMax /\ mark \in MarkSet
    BY <1>0, AtLexemeFacts
  <2>3. m \in MarkSet /\ After(mark, m)
    BY <2>2, ReachAfter
  <2>4. Moves /\ mark' = m /\ phase' = "next"
    BY <2>1, <2>3, MovesBy
  <2>5. /\ QueueStays /\ Levels(indents', indent')
        /\ \E e \in Seq(TokenSet) : tokens' = tokens \o e
    <3>1. type # "STREAM_END"
      BY DEF Plain
    <3> QED BY <1>0, <2>1, <2>2, <2>3, <2>4, <3>1, MarginGrows
  <2>6. KeysStay
    BY <1>0, <2>1, <2>2, <2>3, <2>4, <2>5, RemoveWeaker, KeysStayOn
  <2> QED BY <2>2, <2>4, <2>5, <2>6, StepKeeps
<1> QED
  BY <1>1, <1>2

\* The tokens that open or close no block.
LEMMA PlainTypes ==
    /\ Plain("DIRECTIVE") /\ Plain("DOCUMENT_START") /\ Plain("DOCUMENT_END")
    /\ Plain("FLOW_SEQUENCE_START") /\ Plain("FLOW_MAPPING_START")
    /\ Plain("FLOW_SEQUENCE_END") /\ Plain("FLOW_MAPPING_END") /\ Plain("FLOW_ENTRY")
    /\ Plain("BLOCK_ENTRY") /\ Plain("KEY") /\ Plain("VALUE") /\ Plain("ALIAS")
    /\ Plain("ANCHOR") /\ Plain("TAG") /\ Plain("SCALAR") /\ Plain("STREAM_START")
BY DEF Plain, TokenTypes, BlockStarts

\* yaml_parser_fetch_directive.
LEMMA DirectiveKeeps ==
    ASSUME Inv, fetch_directive
    PROVE  Inv'
<1>1. CASE AtText /\ mark.column = 0 /\ Fail("SCANNER")
  BY <1>1, FailKeeps
<1>2. ASSUME NEW end \in scan_directive, fetch_at_margin("DIRECTIVE", end.mark, end.known)
      PROVE  Inv'
  <2>1. end.mark \in Reach(mark) /\ end.known \in {"any", "blankz", "end"}
    BY DEF scan_directive, ReachBeyond
  <2> QED BY <1>2, <2>1, PlainTypes, MarginKeeps
<1> QED
  BY <1>1, <1>2 DEF fetch_directive

\* yaml_parser_fetch_document_indicator.
LEMMA DocumentIndicatorKeeps ==
    ASSUME Inv, NEW t \in {"DOCUMENT_START", "DOCUMENT_END"}, fetch_document_indicator(t)
    PROVE  Inv'
<1>1. SKIP(3) \in Reach(mark) /\ fetch_at_margin(t, SKIP(3), "blankz") /\ Plain(t)
  BY PlainTypes DEF fetch_document_indicator
<1> QED
  BY <1>1, MarginKeeps

\* yaml_parser_fetch_flow_collection_start.
LEMMA FlowStartKeeps ==
    ASSUME Inv, NEW t \in {"FLOW_SEQUENCE_START", "FLOW_MAPPING_START"},
           fetch_flow_collection_start(t)
    PROVE  Inv'
<1>0. AtLexeme /\ SKIP(1) \in Reach(mark) /\ Plain(t)
  BY PlainTypes DEF fetch_flow_collection_start, AtText
<1>1. CASE Fail("SCANNER") \/ Fail("MEMORY")
  BY <1>1, FailKeeps
<1>2. CASE ~(Fail("SCANNER") \/ Fail("MEMORY"))
  <2>1. /\ flow_level # IntMax
        /\ simple_keys' = Append(save_simple_key, NoKey) /\ flow_level' = flow_level + 1
        /\ simple_key_allowed' = TRUE /\ tokens' = Append(tokens, Tok(t, mark))
        /\ Done(SKIP(1), "any") /\ UNCHANGED <<indent, indents>> /\ UNCHANGED Reading
    BY <1>2 DEF fetch_flow_collection_start
  <2>2. /\ stream_start_produced /\ ~token_available
        /\ simple_keys \in Seq(KeySet) /\ simple_keys # <<>> /\ tokens \in Seq(TokenSet)
        /\ Len(simple_keys) = flow_level + 1 /\ flow_level \in 0..IntMax /\ mark \in MarkSet
        /\ tokens_parsed \in Nat /\ KeysFit(simple_keys, tokens_parsed, tokens, mark)
    BY <1>0, AtLexemeFacts
  <2>3. SKIP(1) \in MarkSet /\ After(mark, SKIP(1)) /\ Behind(mark, SKIP(1))
    BY <1>0, <2>2, SkipBeyond
  <2>4. Moves /\ mark' = SKIP(1) /\ phase' = "next"
    BY <2>1, <2>3, MovesBy
  <2>5. QueueStays /\ Levels(indents', indent') /\ tokens' = tokens \o <<Tok(t, mark)>>
    BY <1>0, <2>1, <2>3, <2>4, PlainGrows
  <2>6. /\ save_simple_key \in Seq(KeySet)
        /\ Len(save_simple_key) = Len(simple_keys)
        /\ KeysFit(save_simple_key, tokens_parsed, tokens', mark')
    <3>1. Tok(t, mark) \in TokenSet /\ Tok(t, mark).index = mark.index
      BY <1>0, <2>2, OnePlain
    <3> QED BY <2>2, <2>3, <2>4, <2>5, <3>1, SaveFits
  <2>7. KeysStay
    <3> DEFINE saved == save_simple_key  ks == Append(saved, NoKey)
    <3> HIDE DEF saved
    <3>1. ks \in Seq(KeySet) /\ Len(ks) = Len(saved) + 1
      BY <2>6, NoKeyFacts, AppendProperties DEF saved
    <3>2. Weaker(ks, saved)
      <4>1. /\ DOMAIN ks = 1..(Len(saved) + 1) /\ DOMAIN saved = 1..Len(saved) /\ Len(saved) \in Nat
            /\ \A i \in 1..Len(saved) : ks[i] = saved[i]
            /\ ks[Len(saved) + 1] = NoKey
        BY <2>6, <3>1, NoKeyFacts, AppendProperties, LenProperties DEF saved
      <4> HIDE DEF ks
      <4>2. \A i \in DOMAIN ks : i = Len(saved) + 1 \/ i \in DOMAIN saved
        BY <4>1
      <4> QED BY <4>1, <4>2, NoKeyFacts DEF Weaker
    <3>3. tokens' \in Seq(TokenSet) /\ mark' \in MarkSet /\ After(mark', mark')
      BY <2>3, <2>4, <2>5 DEF QueueStays, After, MarkSet
    <3> HIDE DEF ks
    <3>4. KeysFit(ks, tokens_parsed, tokens', mark')
      BY <2>2, <2>6, <3>1, <3>2, <3>3, KeysFitLater DEF saved
    <3>5. flow_level' \in 0..IntMax /\ Len(ks) = flow_level' + 1 /\ simple_keys' = ks
      BY <2>1, <2>2, <2>6, <3>1, ScannerAssumption DEF saved, ks
    <3> QED BY <3>1, <3>4, <3>5 DEF KeysStay
  <2> QED BY <2>2, <2>4, <2>5, <2>7, StepKeeps
<1> QED
  BY <1>1, <1>2

\* yaml_parser_fetch_flow_collection_end.
LEMMA FlowEndKeeps ==
    ASSUME Inv, NEW t \in {"FLOW_SEQUENCE_END", "FLOW_MAPPING_END"},
           fetch_flow_collection_end(t)
    PROVE  Inv'
<1>0. AtLexeme /\ SKIP(1) \in Reach(mark) /\ Plain(t)
  BY PlainTypes DEF fetch_flow_collection_end, AtText
<1>1. CASE Fail("SCANNER")
  BY <1>1, FailKeeps
<1>2. CASE ~Fail("SCANNER")
  <2>1. /\ decrease_flow_level(remove_simple_key)
        /\ simple_key_allowed' = FALSE /\ tokens' = Append(tokens, Tok(t, mark))
        /\ Done(SKIP(1), "any") /\ UNCHANGED <<indent, indents>> /\ UNCHANGED Reading
    BY <1>2 DEF fetch_flow_collection_end
  <2>2. /\ stream_start_produced /\ ~token_available
        /\ simple_keys \in Seq(KeySet) /\ simple_keys # <<>> /\ mark \in MarkSet
        /\ Len(simple_keys) = flow_level + 1 /\ flow_level \in 0..IntMax /\ flow_level \in Nat
    BY <1>0, AtLexemeFacts
  <2>3. SKIP(1) \in MarkSet /\ After(mark, SKIP(1))
    BY <1>0, <2>2, SkipBeyond
  <2>4. Moves /\ mark' = SKIP(1) /\ phase' = "next"
    BY <2>1, <2>3, MovesBy
  <2>5. QueueStays /\ Levels(indents', indent') /\ tokens' = tokens \o <<Tok(t, mark)>>
    BY <1>0, <2>1, <2>3, <2>4, PlainGrows
  <2> DEFINE r == remove_simple_key
  <2>6. r \in Seq(KeySet) /\ Len(r) = Len(simple_keys) /\ r # <<>> /\ Weaker(r, simple_keys)
    BY <2>2, RemoveWeaker
  <2>7. <<Tok(t, mark)>> \in Seq(TokenSet)
    BY <1>0, <2>2, OnePlain
  <2>8. CASE flow_level = 0
    <3>1. flow_level' = flow_level /\ simple_keys' = r
      BY <2>1, <2>8 DEF decrease_flow_level
    <3>2. KeysStay
      <4> HIDE DEF r
      <4> QED BY <1>0, <2>2, <2>3, <2>4, <2>5, <2>6, <2>7, <3>1, KeysStayOn
    <3> QED BY <2>2, <2>4, <2>5, <3>2, StepKeeps
  <2>9. CASE flow_level # 0
    <3>1. flow_level' = flow_level - 1 /\ simple_keys' = Front(r)
      BY <2>1, <2>9 DEF decrease_flow_level
    <3> HIDE DEF r
    <3>2. /\ Front(r) \in Seq(KeySet) /\ Len(Front(r)) = Len(r) - 1
          /\ \A i \in 1..(Len(r) - 1) : Front(r)[i] = r[i]
          /\ Len(r) \in Nat
      BY <2>6, PopFacts
    <3>3. Weaker(Front(r), r)
      <4>1. DOMAIN Front(r) = 1..(Len(r) - 1) /\ DOMAIN r = 1..Len(r)
        BY <2>6, <3>2, LenProperties
      <4> QED BY <3>2, <4>1 DEF Weaker
    <3>4. Weaker(Front(r), simple_keys)
      BY <2>6, <3>3, WeakerTrans
    <3>5. flow_level' \in 0..IntMax /\ Len(Front(r)) = flow_level' + 1
      BY <2>2, <2>6, <2>9, <3>1, <3>2, ScannerAssumption
    <3>6. KeysStay
      BY <1>0, <2>2, <2>3, <2>4, <2>5, <2>7, <3>1, <3>2, <3>4, <3>5, KeysStayOn
    <3> QED BY <2>2, <2>4, <2>5, <3>6, StepKeeps
  <2> QED BY <2>8, <2>9
<1> QED
  BY <1>1, <1>2

\* A handler that drops the key of its level and adds a token (flow_entry, a
\* block scalar).
LEMMA PlainKeeps ==
    ASSUME Inv, AtLexeme, NEW t, Plain(t), NEW m \in MarkSet, After(mark, m),
           NEW known \in {"any", "blankz", "end"}, Done(m, known),
           simple_keys' = remove_simple_key, simple_key_allowed' \in BOOLEAN,
           tokens' = Append(tokens, Tok(t, mark)),
           UNCHANGED <<flow_level, indent, indents>>, UNCHANGED Reading
    PROVE  Inv'
<1>1. /\ stream_start_produced /\ ~token_available
      /\ simple_keys \in Seq(KeySet) /\ simple_keys # <<>> /\ mark \in MarkSet
      /\ Len(simple_keys) = flow_level + 1 /\ flow_level \in 0..IntMax
  BY AtLexemeFacts
<1>2. Moves /\ mark' = m
  BY MovesBy
<1>3. QueueStays /\ Levels(indents', indent') /\ tokens' = tokens \o <<Tok(t, mark)>>
  BY <1>2, PlainGrows
<1>4. <<Tok(t, mark)>> \in Seq(TokenSet)
  BY <1>1, OnePlain
<1>5. KeysStay
  BY <1>1, <1>2, <1>3, <1>4, RemoveWeaker, KeysStayOn
<1> QED
  BY <1>1, <1>2, <1>3, <1>5, StepKeeps

\* yaml_parser_fetch_flow_entry.
LEMMA FlowEntryKeeps ==
    ASSUME Inv, fetch_flow_entry
    PROVE  Inv'
<1>0. AtLexeme /\ SKIP(1) \in Reach(mark)
  BY DEF fetch_flow_entry, AtText
<1>1. CASE Fail("SCANNER")
  BY <1>1, FailKeeps
<1>2. CASE ~Fail("SCANNER")
  <2>1. /\ simple_keys' = remove_simple_key /\ simple_key_allowed' = TRUE
        /\ tokens' = Append(tokens, Tok("FLOW_ENTRY", mark))
        /\ Done(SKIP(1), "any") /\ UNCHANGED <<flow_level, indent, indents>>
        /\ UNCHANGED Reading
    BY <1>2 DEF fetch_flow_entry
  <2>2. SKIP(1) \in MarkSet /\ After(mark, SKIP(1))
    BY <1>0, AtLexemeFacts, SkipBeyond
  <2> QED BY <1>0, <2>1, <2>2, PlainTypes, PlainKeeps
<1> QED
  BY <1>1, <1>2

\* yaml_parser_fetch_block_scalar.
LEMMA BlockScalarKeeps ==
    ASSUME Inv, fetch_block_scalar
    PROVE  Inv'
<1>0. PICK end \in scan_block_scalar :
         /\ AtText
         /\ \/ Fail("SCANNER")
            \/ /\ simple_keys' = remove_simple_key /\ simple_key_allowed' = TRUE
               /\ tokens' = Append(tokens, Tok("SCALAR", mark))
               /\ Done(end.mark, end.known) /\ UNCHANGED <<flow_level, indent, indents>>
               /\ UNCHANGED Reading
  BY DEF fetch_block_scalar
<1>1. CASE Fail("SCANNER")
  BY <1>1, FailKeeps
<1>2. CASE ~Fail("SCANNER")
  <2>1. AtLexeme
    BY <1>0 DEF AtText
  <2>2. end.mark \in Reach(mark) /\ end.known \in {"any", "blankz", "end"}
    BY DEF scan_block_scalar, ReachBeyond
  <2>3. end.mark \in MarkSet /\ After(mark, end.mark)
    BY <2>1, <2>2, AtLexemeFacts, ReachAfter
  <2> QED BY <1>0, <1>2, <2>1, <2>2, <2>3, PlainTypes, PlainKeeps
<1> QED
  BY <1>1, <1>2

\* A handler that saves a key and adds its token.
LEMMA CandidateKeeps ==
    ASSUME Inv, NEW t, Plain(t), NEW m \in ReachBeyond(mark), NEW allowed \in BOOLEAN,
           NEW known \in {"any", "blankz", "end"}, fetch_key_candidate(t, m, allowed, known)
    PROVE  Inv'
<1>0. AtLexeme
  BY DEF fetch_key_candidate, AtText
<1>1. CASE Fail("SCANNER")
  BY <1>1, FailKeeps
<1>2. CASE ~Fail("SCANNER")
  <2>1. /\ simple_keys' = save_simple_key /\ simple_key_allowed' = allowed
        /\ tokens' = Append(tokens, Tok(t, mark)) /\ Done(m, known)
        /\ flow_level' = flow_level /\ UNCHANGED <<indent, indents>> /\ UNCHANGED Reading
    BY <1>2 DEF fetch_key_candidate
  <2>2. /\ stream_start_produced /\ ~token_available
        /\ simple_keys \in Seq(KeySet) /\ simple_keys # <<>> /\ tokens \in Seq(TokenSet)
        /\ Len(simple_keys) = flow_level + 1 /\ flow_level \in 0..IntMax /\ mark \in MarkSet
        /\ tokens_parsed \in Nat /\ KeysFit(simple_keys, tokens_parsed, tokens, mark)
    BY <1>0, AtLexemeFacts
  <2>3. m \in MarkSet /\ After(mark, m) /\ Behind(mark, m)
    BY <2>2, ReachAfter DEF ReachBeyond
  <2>4. Moves /\ mark' = m
    BY <2>1, <2>3, MovesBy
  <2>5. QueueStays /\ Levels(indents', indent') /\ tokens' = tokens \o <<Tok(t, mark)>>
    BY <1>0, <2>1, <2>3, <2>4, PlainGrows
  <2>6. /\ save_simple_key \in Seq(KeySet)
        /\ Len(save_simple_key) = Len(simple_keys)
        /\ KeysFit(save_simple_key, tokens_parsed, tokens', mark')
    <3>1. Tok(t, mark) \in TokenSet /\ Tok(t, mark).index = mark.index
      BY <2>2, OnePlain
    <3> QED BY <2>2, <2>3, <2>4, <2>5, <3>1, SaveFits
  <2>7. KeysStay
    BY <2>1, <2>2, <2>6 DEF KeysStay
  <2> QED BY <2>2, <2>4, <2>5, <2>7, StepKeeps
<1> QED
  BY <1>1, <1>2

\* The fetch functions of what may be a simple key.
LEMMA ScalarsKeep ==
    ASSUME Inv,
           \/ \E t \in {"ALIAS", "ANCHOR"} : fetch_anchor(t)
           \/ fetch_tag \/ fetch_flow_scalar \/ fetch_plain_scalar
    PROVE  Inv'
<1>1. ASSUME NEW t \in {"ALIAS", "ANCHOR"}, fetch_anchor(t)
      PROVE  Inv'
  <2>1. PICK m \in scan_anchor : fetch_key_candidate(t, m, FALSE, "any")
    BY <1>1 DEF fetch_anchor
  <2>2. m \in ReachBeyond(mark) /\ Plain(t)
    BY PlainTypes DEF scan_anchor
  <2> QED BY <2>1, <2>2, CandidateKeeps
<1>2. ASSUME fetch_tag
      PROVE  Inv'
  <2>1. PICK m \in scan_tag :
           fetch_key_candidate("TAG", m, FALSE, IF flow_level = 0 THEN "blankz" ELSE "any")
    BY <1>2 DEF fetch_tag
  <2>2. m \in ReachBeyond(mark) /\ (IF flow_level = 0 THEN "blankz" ELSE "any") \in {"any", "blankz", "end"}
    BY DEF scan_tag
  <2> QED BY <2>1, <2>2, PlainTypes, CandidateKeeps
<1>3. ASSUME fetch_flow_scalar
      PROVE  Inv'
  <2>1. PICK m \in scan_flow_scalar : fetch_key_candidate("SCALAR", m, FALSE, "any")
    BY <1>3 DEF fetch_flow_scalar
  <2>2. m \in ReachBeyond(mark)
    BY DEF scan_flow_scalar
  <2> QED BY <2>1, <2>2, PlainTypes, CandidateKeeps
<1>4. ASSUME fetch_plain_scalar
      PROVE  Inv'
  <2>1. PICK end \in scan_plain_scalar :
           fetch_key_candidate("SCALAR", end.mark, end.leading_blanks, "any")
    BY <1>4 DEF fetch_plain_scalar
  <2>2. end.mark \in ReachBeyond(mark) /\ end.leading_blanks \in BOOLEAN
    BY DEF scan_plain_scalar
  <2> QED BY <2>1, <2>2, PlainTypes, CandidateKeeps
<1> QED
  BY <1>1, <1>2, <1>3, <1>4

\* "-", "?" and a ":" without a key, in front of which a collection may start.
LEMMA StartKeeps ==
    ASSUME Inv, AtLexeme, SKIP(1) \in Reach(mark), NEW start \in BlockStarts,
           NEW t, Plain(t), ~ColumnTooLarge(mark.column), roll_indent(mark.column),
           NEW ks \in Seq(KeySet), Weaker(ks, simple_keys), Len(ks) = Len(simple_keys),
           simple_keys' = ks, simple_key_allowed' \in BOOLEAN,
           tokens' = tokens \o StartOf(start, mark) \o <<Tok(t, mark)>>,
           NEW known \in {"any", "blankz", "end"}, Done(SKIP(1), known),
           flow_level' = flow_level, UNCHANGED Reading
    PROVE  Inv'
<1>1. /\ stream_start_produced /\ ~token_available /\ mark \in MarkSet
      /\ Len(simple_keys) = flow_level + 1 /\ flow_level \in 0..IntMax
  BY AtLexemeFacts
<1>2. SKIP(1) \in MarkSet /\ After(mark, SKIP(1))
  BY <1>1, SkipBeyond
<1>3. Moves /\ mark' = SKIP(1)
  BY <1>2, MovesBy
<1>4. /\ QueueStays /\ Levels(indents', indent')
      /\ \E e \in Seq(TokenSet) : tokens' = tokens \o e
  BY <1>2, <1>3, StartGrows
<1>5. KeysStay
  BY <1>1, <1>2, <1>3, <1>4, KeysStayOn
<1> QED
  BY <1>1, <1>3, <1>4, <1>5, StepKeeps

\* The indicators that may open a block: entry, key and value.
LEMMA IndicatorKeeps ==
    ASSUME Inv, NEW start \in BlockStarts, NEW t, Plain(t), NEW allowed \in BOOLEAN,
           NEW known \in {"any", "blankz", "end"}, fetch_indicator(t, start, allowed, known)
    PROVE  Inv'
<1>0. AtLexeme /\ SKIP(1) \in Reach(mark)
  BY DEF fetch_indicator, AtText
<1>1. CASE Fail("SCANNER") \/ Fail("MEMORY")
  BY <1>1, FailKeeps
<1>2. CASE ~(Fail("SCANNER") \/ Fail("MEMORY"))
  <2>1. /\ ~ColumnTooLarge(mark.column) /\ roll_indent(mark.column)
        /\ simple_keys' = remove_simple_key /\ simple_key_allowed' = allowed
        /\ tokens' = tokens \o StartOf(start, mark) \o <<Tok(t, mark)>>
        /\ Done(SKIP(1), known) /\ flow_level' = flow_level /\ UNCHANGED Reading
    BY <1>2 DEF fetch_indicator
  <2>2. simple_keys \in Seq(KeySet) /\ simple_keys # <<>>
    BY <1>0, AtLexemeFacts
  <2>3. /\ remove_simple_key \in Seq(KeySet) /\ Weaker(remove_simple_key, simple_keys)
        /\ Len(remove_simple_key) = Len(simple_keys)
    BY <2>2, RemoveWeaker
  <2> QED BY <1>0, <2>1, <2>3, StartKeeps
<1> QED
  BY <1>1, <1>2

\* yaml_parser_fetch_value without a simple key.
LEMMA ValueAloneKeeps ==
    ASSUME Inv, AtText, SKIP(1) \in Reach(mark), fetch_value_alone
    PROVE  Inv'
<1>0. AtLexeme
  BY DEF AtText
<1>1. CASE Fail("SCANNER") \/ Fail("MEMORY")
  BY <1>1, FailKeeps
<1>2. CASE ~(Fail("SCANNER") \/ Fail("MEMORY"))
  <2> DEFINE known == IF flow_level = 0 THEN "blankz" ELSE "any"
  <2>1. /\ ~ColumnTooLarge(mark.column) /\ roll_indent(mark.column)
        /\ simple_keys' = simple_keys /\ simple_key_allowed' = (flow_level = 0)
        /\ tokens' = tokens \o StartOf("BLOCK_MAPPING_START", mark) \o <<Tok("VALUE", mark)>>
        /\ Done(SKIP(1), known) /\ flow_level' = flow_level /\ UNCHANGED Reading
    BY <1>2 DEF fetch_value_alone
  <2>2. simple_keys \in Seq(KeySet) /\ Weaker(simple_keys, simple_keys)
    BY <1>0, AtLexemeFacts, WeakerSelf
  <2>3. /\ known \in {"any", "blankz", "end"} /\ "BLOCK_MAPPING_START" \in BlockStarts
        /\ (flow_level = 0) \in BOOLEAN
    BY DEF BlockStarts
  <2> HIDE DEF known
  <2> QED BY <1>0, <2>1, <2>2, <2>3, PlainTypes, StartKeeps
<1> QED
  BY <1>1, <1>2

\* STREAM-END in neither of two queues.
LEMMA NoEndConcat ==
    ASSUME NEW s \in Seq(TokenSet), NEW t \in Seq(TokenSet)
    PROVE  NoEnd(s \o t) <=> NoEnd(s) /\ NoEnd(t)
<1> DEFINE u == s \o t
<1>1. Len(s) \in Nat /\ Len(t) \in Nat /\ Len(u) = Len(s) + Len(t)
  BY LenProperties, ConcatProperties
<1>2. \A i \in 1..Len(u) : IF i <= Len(s) THEN i \in 1..Len(s) /\ u[i] = s[i]
                                          ELSE i - Len(s) \in 1..Len(t) /\ u[i] = t[i - Len(s)]
  BY <1>1, ConcatProperties
<1>3. \A i \in 1..Len(s) : i \in 1..Len(u) /\ u[i] = s[i]
  BY <1>1, ConcatProperties
<1>4. \A i \in 1..Len(t) : Len(s) + i \in 1..Len(u) /\ u[Len(s) + i] = t[i]
  BY <1>1, ConcatProperties
<1> HIDE DEF u
<1>5. NoEnd(u) => NoEnd(s) /\ NoEnd(t)
  BY <1>3, <1>4 DEF NoEnd
<1>6. NoEnd(s) /\ NoEnd(t) => NoEnd(u)
  BY <1>2 DEF NoEnd
<1> QED
  BY <1>5, <1>6 DEF u

\* The queue in front of the token a key starts with, and from it on.
LEMMA SplitAt ==
    ASSUME NEW s \in Seq(TokenSet), NEW at \in 1..Len(s)
    PROVE  LET p == SubSeq(s, 1, at - 1)
               q == SubSeq(s, at, Len(s)) IN
           /\ p \in Seq(TokenSet) /\ q \in Seq(TokenSet) /\ s = p \o q
           /\ Len(p) = at - 1 /\ \A i \in 1..(at - 1) : p[i] = s[i]
           /\ q # <<>> /\ q[1] = s[at]
<1> DEFINE p == SubSeq(s, 1, at - 1)  q == SubSeq(s, at, Len(s))
<1>1. Len(s) \in Nat /\ at \in Int /\ at - 1 \in Int /\ Len(s) \in Int
  BY LenProperties
<1>2. /\ \A i \in 1..(at - 1) : s[i] \in TokenSet
      /\ \A i \in at..Len(s) : s[i] \in TokenSet
  BY <1>1, LenProperties
<1>3. /\ p \in Seq(TokenSet)
      /\ Len(p) = IF 1 <= at - 1 THEN (at - 1) - 1 + 1 ELSE 0
      /\ \A i \in 1..((at - 1) - 1 + 1) : p[i] = s[1 + i - 1]
  BY <1>1, <1>2, SubSeqProperties
<1>4. /\ q \in Seq(TokenSet)
      /\ Len(q) = IF at <= Len(s) THEN Len(s) - at + 1 ELSE 0
      /\ \A i \in 1..(Len(s) - at + 1) : q[i] = s[at + i - 1]
  BY <1>1, <1>2, SubSeqProperties
<1>5. s = p \o q
  <2>1. 1 \in 1..(Len(s) + 1) /\ at - 1 \in (1 - 1)..Len(s) /\ Len(s) \in (at - 1)..Len(s)
        /\ (at - 1) + 1 = at
    BY <1>1
  <2>2. SubSeq(s, 1, at - 1) \o SubSeq(s, (at - 1) + 1, Len(s)) = SubSeq(s, 1, Len(s))
    BY <2>1, ConcatAdjacentSubSeq
  <2>3. SubSeq(s, 1, Len(s)) = s
    BY SubSeqFull
  <2> QED BY <2>1, <2>2, <2>3
<1> HIDE DEF p, q
<1>6. Len(p) = at - 1 /\ \A i \in 1..(at - 1) : p[i] = s[i]
  BY <1>1, <1>3
<1>7. q # <<>> /\ q[1] = s[at]
  <2>1. Len(q) # 0 /\ 1 \in 1..(Len(s) - at + 1) /\ at + 1 - 1 = at
    BY <1>1, <1>4
  <2> QED BY <1>4, <2>1, EmptySeq
<1> QED
  BY <1>3, <1>4, <1>5, <1>6, <1>7 DEF p, q

\* ":" behind a simple key.
LEMMA ValueOfKeyKeeps ==
    ASSUME Inv, AtText, SKIP(1) \in Reach(mark), fetch_value_of_key
    PROVE  /\ Inv'
           /\ error' = "NO" => tokens' # <<>> /\ Last(tokens').type = "VALUE"
<1>0. AtLexeme
  BY DEF AtText
<1>1. CASE Fail("MEMORY")
  BY <1>1, FailKeeps
<1>2. CASE ~Fail("MEMORY")
  <2> DEFINE key == Last(simple_keys)
             at == KeyPlace(key)
             p == SubSeq(tokens, 1, at - 1)
             q == SubSeq(tokens, at, Len(tokens))
             front == StartOf("BLOCK_MAPPING_START", key.mark) \o <<Tok("KEY", key.mark)>>
             v == <<Tok("VALUE", mark)>>
             known == IF flow_level = 0 THEN "blankz" ELSE "any"
             x == key.mark.index
  <2>1. /\ key.possible /\ ~ColumnTooLarge(key.mark.column) /\ roll_indent(key.mark.column)
        /\ simple_keys' = remove_simple_key /\ simple_key_allowed' = FALSE
        /\ tokens' = p \o front \o q \o v
        /\ Done(SKIP(1), known) /\ flow_level' = flow_level /\ UNCHANGED Reading
    BY <1>2 DEF fetch_value_of_key
  <2>2. /\ stream_start_produced /\ ~token_available
        /\ simple_keys \in Seq(KeySet) /\ simple_keys # <<>> /\ tokens \in Seq(TokenSet)
        /\ Len(simple_keys) = flow_level + 1 /\ flow_level \in 0..IntMax
        /\ mark \in MarkSet /\ mark.index \in Nat /\ open_blocks \in Int
        /\ tokens_parsed \in Nat /\ KeysFit(simple_keys, tokens_parsed, tokens, mark)
        /\ Levels(indents, indent) /\ Len(indents) \in Nat /\ NoEnd(tokens)
    BY <1>0, AtLexemeFacts
  <2>3. SKIP(1) \in MarkSet /\ After(mark, SKIP(1))
    BY <1>0, <2>2, SkipBeyond
  <2>4. Moves /\ mark' = SKIP(1) /\ mark'.index \in Nat /\ mark.index <= mark'.index
    <3>1. known \in {"any", "blankz", "end"} /\ simple_key_allowed' \in BOOLEAN
      BY <2>1
    <3> QED BY <2>1, <2>3, <3>1, MovesBy DEF After, MarkSet
  <2>5. /\ key \in KeySet /\ key = simple_keys[Len(simple_keys)]
        /\ DOMAIN simple_keys = 1..Len(simple_keys) /\ Len(simple_keys) \in Nat
        /\ Len(simple_keys) \in DOMAIN simple_keys
    <3>1. Len(simple_keys) \in Nat \ {0} /\ DOMAIN simple_keys = 1..Len(simple_keys)
      BY <2>2, PopFacts, LenProperties
    <3>2. key \in KeySet /\ key = simple_keys[Len(simple_keys)]
      BY <2>2, PopFacts
    <3> QED BY <3>1, <3>2
  <2>6. key.mark \in MarkSet /\ x \in Nat /\ key.mark.column \in Nat /\ key.token_number \in Nat
    BY <2>5 DEF KeySet, MarkSet
  <2>7. at = key.token_number - tokens_parsed + 1 /\ at \in 1..Len(tokens) /\ tokens[at].index = x
    <3>1. /\ key.token_number - tokens_parsed + 1 \in 1..Len(tokens)
          /\ tokens[key.token_number - tokens_parsed + 1].index = x
      <4> HIDE DEF key
      <4> QED BY <2>1, <2>2, <2>5 DEF KeysFit
    <3> QED BY <3>1 DEF KeyPlace
  <2>8. Levels(indents', indent')
        /\ Len(indents') = IF Rolls(key.mark.column) THEN Len(indents) + 1 ELSE Len(indents)
    BY <2>1, <2>2, <2>6, RollFacts
  <2> HIDE DEF key, at
  <2>9. /\ p \in Seq(TokenSet) /\ q \in Seq(TokenSet) /\ tokens = p \o q
        /\ Len(p) = at - 1 /\ \A i \in 1..(at - 1) : p[i] = tokens[i]
        /\ q # <<>> /\ q[1].index = x
    BY <2>2, <2>7, SplitAt
  <2> HIDE DEF p, q
  <2>10. \A a \in Nat :
           /\ front \in Seq(TokenSet) /\ Ordered(x, front, x) /\ NoEnd(front)
           /\ Balanced(a, front, IF Rolls(key.mark.column) THEN a + 1 ELSE a)
    <3>1. "BLOCK_MAPPING_START" \in BlockStarts
      BY DEF BlockStarts
    <3> QED BY <2>6, <3>1, PlainTypes, StartPiece
  <2>11. \A a \in Nat :
           /\ v \in Seq(TokenSet) /\ Ordered(mark.index, v, mark.index) /\ NoEnd(v)
           /\ Balanced(a, v, a)
    BY <2>2, PlainTypes, OnePlain
  <2> HIDE DEF front, v, x, known
  <2>12. front \in Seq(TokenSet) /\ v \in Seq(TokenSet)
    BY <2>2, <2>10, <2>11
  <2> DEFINE pf == p \o front  pfq == pf \o q
  <2>13. /\ pf \in Seq(TokenSet) /\ pfq \in Seq(TokenSet) /\ tokens' = pfq \o v
         /\ tokens' \in Seq(TokenSet)
    <3>1. pf \in Seq(TokenSet)
      BY <2>9, <2>12, ConcatProperties
    <3> HIDE DEF pf
    <3>2. pfq \in Seq(TokenSet)
      BY <2>9, <3>1, ConcatProperties
    <3>3. tokens' = pfq \o v
      BY <2>1 DEF pf
    <3> HIDE DEF pfq
    <3> QED BY <2>12, <3>1, <3>2, <3>3, ConcatProperties
  <2>14. Ordered(0, tokens', mark'.index)
    <3>1. Ordered(0, p \o q, mark.index)
      BY <2>9 DEF Inv
    <3>2. Ordered(0, p, x) /\ Ordered(x, q, mark.index)
      BY <2>9, <3>1, OrderedSplit
    <3>3. x <= mark.index /\ 0 <= x /\ x <= x /\ 0 <= mark.index /\ 0 <= mark'.index
          /\ mark.index <= mark.index
      <4>1. 1 \in 1..Len(q)
        BY <2>9, EmptySeq
      <4>2. q[1].index <= mark.index
        BY <3>2, <4>1 DEF Ordered
      <4> QED BY <2>2, <2>4, <2>6, <2>9, <4>2 DEF x
    <3>4. Ordered(0, pf, x)
      BY <2>2, <2>6, <2>9, <2>10, <2>12, <3>2, <3>3, OrderedConcat DEF x
    <3> HIDE DEF pf
    <3>5. Ordered(0, pfq, mark.index)
      BY <2>2, <2>6, <2>9, <2>13, <3>2, <3>3, <3>4, OrderedConcat DEF x
    <3> HIDE DEF pfq
    <3>6. Ordered(mark.index, v, mark'.index)
      BY <2>2, <2>4, <2>11, <2>12, <3>3, OrderedWiden
    <3>7. Ordered(0, pfq \o v, mark'.index)
      BY <2>2, <2>4, <2>12, <2>13, <3>3, <3>5, <3>6, OrderedConcat
    <3> QED BY <2>13, <3>7
  <2>15. Balanced(open_blocks, tokens', Len(indents'))
    <3> DEFINE d == IF Rolls(key.mark.column) THEN 1 ELSE 0
    <3>1. Balanced(open_blocks, p \o q, Len(indents))
      BY <2>9 DEF Inv
    <3>2. PICK b \in Nat : Balanced(open_blocks, p, b) /\ Balanced(b, q, Len(indents))
      BY <2>2, <2>9, <3>1, BalancedSplit
    <3>3. Balanced(b, front, b + d) /\ b + d \in Nat /\ Len(indents') = Len(indents) + d
          /\ Len(indents') \in Nat
      BY <2>2, <2>8, <2>10
    <3>4. Balanced(b + d, q, Len(indents'))
      <4>1. CASE Rolls(key.mark.column)
        <5>1. b \in Int /\ Len(indents) \in Int /\ b + d = b + 1 /\ Len(indents') = Len(indents) + 1
          BY <2>2, <3>3, <4>1
        <5>2. Balanced(b + 1, q, Len(indents) + 1)
          BY <2>9, <3>2, <5>1, BalancedShift
        <5> QED BY <5>1, <5>2
      <4>2. CASE ~Rolls(key.mark.column)
        <5>1. b + d = b /\ Len(indents') = Len(indents)
          BY <2>2, <3>3, <4>2
        <5> QED BY <3>2, <5>1
      <4> QED BY <4>1, <4>2
    <3> HIDE DEF d
    <3>5. Balanced(open_blocks, pf, b + d)
      BY <2>2, <2>9, <2>12, <3>2, <3>3, BalancedConcat
    <3> HIDE DEF pf
    <3>6. Balanced(open_blocks, pfq, Len(indents'))
      BY <2>2, <2>9, <2>13, <3>4, <3>5, BalancedConcat
    <3> HIDE DEF pfq
    <3>7. Balanced(Len(indents'), v, Len(indents'))
      BY <2>11, <3>3
    <3>8. Balanced(open_blocks, pfq \o v, Len(indents'))
      BY <2>2, <2>12, <2>13, <3>6, <3>7, BalancedConcat
    <3> QED BY <2>13, <3>8
  <2>16. NoEnd(tokens') /\ EndLast(tokens')
    <3>1. NoEnd(p) /\ NoEnd(q)
      BY <2>2, <2>9, NoEndConcat
    <3>2. NoEnd(front) /\ NoEnd(v)
      BY <2>2, <2>10, <2>11
    <3>3. NoEnd(pf)
      BY <2>9, <2>12, <3>1, <3>2, NoEndConcat
    <3> HIDE DEF pf
    <3>4. NoEnd(pfq)
      BY <2>9, <2>13, <3>1, <3>3, NoEndConcat
    <3> HIDE DEF pfq
    <3>5. NoEnd(pfq \o v)
      BY <2>12, <2>13, <3>2, <3>4, NoEndConcat
    <3> QED BY <2>13, <3>5, NoEndLast
  <2>17. QueueStays
    BY <2>13, <2>14, <2>15, <2>16 DEF QueueStays
  <2> DEFINE r == remove_simple_key
  <2>18. /\ r \in Seq(KeySet) /\ Len(r) = Len(simple_keys)
         /\ Weaker(r, simple_keys) /\ ~Last(r).possible /\ r # <<>>
    BY <2>2, RemoveWeaker
  <2> HIDE DEF r
  <2>19. DOMAIN r = 1..Len(simple_keys) /\ ~r[Len(simple_keys)].possible
    BY <2>18, LenProperties, PopFacts
  <2>20. KeysFit(r, tokens_parsed, p, mark)
    <3>1. ASSUME NEW i \in DOMAIN r, r[i].possible
          PROVE  /\ r[i].token_number - tokens_parsed + 1 \in 1..Len(p)
                 /\ p[r[i].token_number - tokens_parsed + 1].index = r[i].mark.index
                 /\ Behind(r[i].mark, mark)
      <4>1. /\ i \in DOMAIN simple_keys /\ r[i] = simple_keys[i] /\ simple_keys[i].possible
            /\ i # Len(simple_keys)
        BY <2>18, <2>19, <3>1 DEF Weaker
      <4>2. i < Len(simple_keys)
        BY <2>5, <4>1
      <4>3. simple_keys[i].token_number < key.token_number
        BY <2>1, <2>2, <2>5, <4>1, <4>2 DEF KeysFit
      <4>4. simple_keys[i].token_number \in Nat
        <5>1. simple_keys[i] \in KeySet
          BY <2>2, <2>5, <4>1, ElementOfSeq
        <5> QED BY <5>1 DEF KeySet
      <4>5. /\ simple_keys[i].token_number - tokens_parsed + 1 \in 1..Len(tokens)
            /\ tokens[simple_keys[i].token_number - tokens_parsed + 1].index
                  = simple_keys[i].mark.index
            /\ Behind(simple_keys[i].mark, mark)
        BY <2>2, <4>1 DEF KeysFit
      <4>6. simple_keys[i].token_number - tokens_parsed + 1 \in 1..(at - 1)
        <5> DEFINE n == simple_keys[i].token_number  k == key.token_number
        <5>1. /\ n \in Nat /\ k \in Nat /\ n < k /\ tokens_parsed \in Nat
              /\ at = k - tokens_parsed + 1 /\ n - tokens_parsed + 1 >= 1
          <6>1. n - tokens_parsed + 1 \in 1..Len(tokens) /\ Len(tokens) \in Nat
            BY <2>2, <4>5, LenProperties
          <6> QED BY <2>2, <2>6, <2>7, <4>3, <4>4, <6>1
        <5> HIDE DEF n, k
        <5>2. n - tokens_parsed + 1 \in 1..(at - 1)
          BY <5>1
        <5> QED BY <5>2 DEF n
      <4> QED BY <2>9, <4>1, <4>5, <4>6
    <3>2. ASSUME NEW i \in DOMAIN r, NEW j \in DOMAIN r, i < j, r[i].possible, r[j].possible
          PROVE  r[i].token_number < r[j].token_number
      BY <2>2, <2>18, <3>2 DEF Weaker, KeysFit
    <3> QED BY <3>1, <3>2 DEF KeysFit
  <2>21. KeysFit(r, tokens_parsed, tokens', mark')
    <3>1. After(mark, mark)
      BY <2>2 DEF After, MarkSet
    <3>2. KeysFit(r, tokens_parsed, pf, mark)
      BY <2>2, <2>9, <2>12, <2>18, <2>20, <3>1, WeakerSelf, KeysFitOn
    <3> HIDE DEF pf
    <3>3. KeysFit(r, tokens_parsed, pfq, mark)
      BY <2>2, <2>9, <2>13, <2>18, <3>1, <3>2, WeakerSelf, KeysFitOn
    <3> HIDE DEF pfq
    <3>4. mark' \in MarkSet /\ After(mark, mark')
      BY <2>3, <2>4
    <3>5. KeysFit(r, tokens_parsed, pfq \o v, mark')
      BY <2>2, <2>12, <2>13, <2>18, <3>3, <3>4, WeakerSelf, KeysFitOn
    <3> QED BY <2>13, <3>5
  <2>22. KeysStay
    BY <2>1, <2>2, <2>18, <2>21 DEF KeysStay, r
  <2>23. tokens' # <<>> /\ Last(tokens').type = "VALUE"
    <3>1. Len(v) = 1 /\ v[1].type = "VALUE" /\ Len(pfq) \in Nat /\ Len(tokens') \in Nat
      BY <2>13, LenProperties DEF v, Tok
    <3> HIDE DEF pf, pfq
    <3>2. /\ Len(tokens') = Len(pfq) + Len(v)
          /\ \A i \in 1..(Len(pfq) + Len(v)) :
                tokens'[i] = IF i <= Len(pfq) THEN pfq[i] ELSE v[i - Len(pfq)]
      BY <2>12, <2>13, ConcatProperties
    <3>3. tokens'[Len(tokens')] = v[1] /\ Len(tokens') # 0
      BY <3>1, <3>2
    <3> QED BY <2>13, <3>1, <3>3, EmptySeq DEF Last
  <2> QED BY <2>2, <2>4, <2>8, <2>17, <2>22, <2>23, StepKeeps
<1> QED
  BY <1>1, <1>2

\* Any of the fetch functions.
LEMMA LexemeKeeps ==
    ASSUME Inv, fetch_lexeme
    PROVE  Inv'
<1>1. CASE fetch_block_entry
  <2>1. "BLOCK_SEQUENCE_START" \in BlockStarts
    BY DEF BlockStarts
  <2> QED BY <1>1, <2>1, PlainTypes, IndicatorKeeps DEF fetch_block_entry
<1>2. CASE fetch_key
  <2> DEFINE known == IF flow_level = 0 THEN "blankz" ELSE "any"  allowed == flow_level = 0
  <2>1. /\ "BLOCK_MAPPING_START" \in BlockStarts /\ allowed \in BOOLEAN
        /\ known \in {"any", "blankz", "end"}
    BY DEF BlockStarts
  <2>2. fetch_indicator("KEY", "BLOCK_MAPPING_START", allowed, known)
    BY <1>2 DEF fetch_key
  <2> HIDE DEF known, allowed
  <2> QED BY <2>1, <2>2, PlainTypes, IndicatorKeeps
<1>3. CASE fetch_value
  BY <1>3, ValueOfKeyKeeps, ValueAloneKeeps DEF fetch_value
<1>4. CASE fetch_nothing
  BY <1>4, FailKeeps DEF fetch_nothing
<1> QED
  BY <1>1, <1>2, <1>3, <1>4, StreamEndKeeps, DirectiveKeeps, DocumentIndicatorKeeps,
     FlowStartKeeps, FlowEndKeeps, FlowEntryKeeps, ScalarsKeep, BlockScalarKeeps
  DEF fetch_lexeme

-----------------------------------------------------------------------------
(* fetch_more_tokens and the taker.                                        *)

\* The keys once the stale ones have been given up.
LEMMA KeysNowFacts ==
    ASSUME Inv
    PROVE  /\ KeysNow \in Seq(KeySet) /\ Len(KeysNow) = Len(simple_keys)
           /\ Weaker(KeysNow, simple_keys)
<1>1. simple_keys \in Seq(KeySet) /\ mark \in MarkSet
  BY DEF Inv, TypeOK, KeySet, MarkSet
<1> QED
  BY <1>1, StaleWeaker, WeakerSelf DEF KeysNow

\* Behind STREAM-END the scanner never looks for another token: the mark is at
\* the start of a line, so every key is stale there.
LEMMA NothingBehindEnd ==
    ASSUME Inv, NeedMoreTokens(KeysNow)
    PROVE  NoEnd(tokens)
<1> SUFFICES ASSUME ~NoEnd(tokens)
             PROVE  FALSE
  OBVIOUS
<1>1. AtEnd /\ tokens # <<>>
  <2>1. AtEnd
    BY DEF Inv
  <2>2. tokens # <<>>
    <3> SUFFICES ASSUME tokens = <<>> PROVE FALSE
      OBVIOUS
    <3>1. Len(tokens) = 0
      OBVIOUS
    <3> QED BY <3>1 DEF NoEnd
  <2> QED BY <2>1, <2>2
<1>2. /\ simple_keys \in Seq(KeySet) /\ mark \in MarkSet
      /\ KeysFit(simple_keys, tokens_parsed, tokens, mark)
  BY DEF Inv, TypeOK, KeySet, MarkSet
<1>3. PICK i \in DOMAIN KeysNow : KeysNow[i].possible
  BY <1>1 DEF NeedMoreTokens
<1>4. /\ KeysNow = stale_simple_keys(simple_keys, mark)
      /\ i \in DOMAIN simple_keys
      /\ KeysNow[i] = IF IsStale(simple_keys[i], mark) THEN NoKey ELSE simple_keys[i]
  BY <1>1, <1>3 DEF KeysNow, stale_simple_keys
<1>5. simple_keys[i].possible /\ ~IsStale(simple_keys[i], mark)
  BY <1>3, <1>4, NoKeyFacts
<1>6. Behind(simple_keys[i].mark, mark) /\ simple_keys[i].mark \in MarkSet
  <2>1. simple_keys[i] \in KeySet
    BY <1>2, <1>4, LenProperties
  <2> QED BY <1>2, <1>4, <1>5, <2>1 DEF KeysFit, KeySet
<1>7. simple_keys[i].mark.line < mark.line
  <2>1. simple_keys[i].mark.column \in Nat /\ mark.column = 0
    BY <1>1, <1>6 DEF AtEnd, MarkSet
  <2> QED BY <1>6, <2>1 DEF Behind
<1> QED
  BY <1>5, <1>7 DEF IsStale

\* yaml_parser_fetch_next_token, up to the lexeme.
LEMMA FindKeeps ==
    ASSUME Inv, find_next_token
    PROVE  Inv'
<1>1. CASE Fail("SCANNER")
  BY <1>1, FailKeeps
<1>2. CASE ~Fail("SCANNER")
  <2>1. /\ phase = "next" /\ ~token_available /\ stream_start_produced
        /\ NeedMoreTokens(KeysNow) \/ KeysFail
    BY DEF find_next_token, Fetching
  <2>2. PICK m \in scan_to_next_token :
           /\ ~KeysFail
           /\ simple_keys' = stale_simple_keys(KeysNow, m)
           /\ simple_key_allowed' = (simple_key_allowed \/ (m.line > mark.line /\ flow_level = 0))
           /\ tokens' = tokens \o unroll_indent(m.column, m).ends
           /\ indent' = unroll_indent(m.column, m).indent
           /\ indents' = unroll_indent(m.column, m).indents
           /\ mark' = m
           /\ ahead' = (IF ahead # "any" /\ m = mark THEN "end" ELSE "any")
           /\ phase' = "lexeme"
           /\ flow_level' = flow_level
           /\ UNCHANGED Reading
    BY <1>2 DEF find_next_token
  <2>3. NoEnd(tokens)
    BY <2>1, <2>2, NothingBehindEnd
  <2>4. /\ mark \in MarkSet /\ mark.index \in Nat /\ tokens \in Seq(TokenSet)
        /\ tokens_parsed \in Nat /\ simple_keys \in Seq(KeySet) /\ flow_level \in 0..IntMax
    BY DEF Inv, TypeOK, MarkSet, TokenSet, KeySet
  <2>5. m \in MarkSet /\ After(mark, m) /\ m.column \in Int /\ m.column >= -1 /\ m.index \in Nat
    <3>1. m \in Reach(mark)
      BY DEF scan_to_next_token
    <3>2. m \in MarkSet /\ After(mark, m)
      BY <2>4, <3>1, ReachAfter
    <3> QED BY <3>2 DEF MarkSet
  <2>6. Levels(indents, indent) /\ Len(simple_keys) = flow_level + 1
    BY <2>1 DEF Inv, TypeOK, Started, Levels
  <2> DEFINE u == unroll_indent(m.column, m)
  <2>7. /\ u.ends \in Seq(TokenSet) /\ Ordered(m.index, u.ends, m.index)
        /\ Balanced(Len(indents), u.ends, Len(u.indents)) /\ NoEnd(u.ends)
    BY <2>5, <2>6, EndsPiece
  <2>8. Levels(u.indents, u.indent)
    BY <2>5, <2>6, UnrollFacts
  <2>9. tokens' = tokens \o u.ends /\ indents' = u.indents /\ indent' = u.indent
    BY <2>2
  <2> DEFINE e == u.ends
  <2> HIDE DEF u
  <2>10. e \in Seq(TokenSet) /\ Ordered(mark.index, e, mark'.index)
    <3>1. mark.index <= m.index /\ m.index <= m.index
      BY <2>4, <2>5 DEF After
    <3> QED BY <2>2, <2>4, <2>5, <2>7, <3>1, OrderedWiden
  <2>11. /\ tokens' = tokens \o e /\ Balanced(Len(indents), e, Len(indents'))
         /\ NoEnd(e) /\ EndLast(e)
    BY <2>7, <2>9, NoEndLast
  <2> HIDE DEF e
  <2>12. mark' \in MarkSet /\ After(mark, mark')
    BY <2>2, <2>5
  <2>13. QueueStays
    BY <2>3, <2>10, <2>11, <2>12, QueueGrows
  <2>14. KeysStay
    <3> DEFINE now == KeysNow  ks == stale_simple_keys(now, m)
    <3>1. now \in Seq(KeySet) /\ Len(now) = Len(simple_keys) /\ Weaker(now, simple_keys)
      BY KeysNowFacts
    <3> HIDE DEF now
    <3>2. ks \in Seq(KeySet) /\ Len(ks) = Len(now) /\ Weaker(ks, now)
      BY <2>5, <3>1, StaleWeaker
    <3> HIDE DEF ks
    <3>3. Weaker(ks, simple_keys)
      BY <3>1, <3>2, WeakerTrans
    <3>4. KeysFit(ks, tokens_parsed, tokens \o e, mark')
      BY <2>4, <2>10, <2>12, <3>2, <3>3, KeysFitOn DEF Inv
    <3>5. simple_keys' = ks
      BY <2>2 DEF ks, now
    <3> QED BY <2>2, <2>4, <2>6, <2>11, <3>1, <3>2, <3>4, <3>5 DEF KeysStay
  <2>15. Moves
    <3>1. simple_key_allowed' \in BOOLEAN
      BY <2>2 DEF Inv, TypeOK
    <3>2. ahead' \in {"any", "blankz", "end"}
      BY <2>2
    <3> QED BY <2>2, <2>12, <3>1, <3>2 DEF Moves
  <2>16. Levels(indents', indent')
    BY <2>8, <2>9
  <2> QED BY <2>1, <2>13, <2>14, <2>15, <2>16, StepKeeps
<1> QED
  BY <1>1, <1>2

\* yaml_parser_fetch_more_tokens finds that there are enough.
LEMMA AvailableKeeps ==
    ASSUME Inv, make_available
    PROVE  Inv'
<1>1. /\ phase = "next" /\ ~token_available /\ tokens # <<>> /\ ~NeedMoreTokens(KeysNow)
      /\ simple_keys' = KeysNow /\ token_available' = TRUE
      /\ UNCHANGED <<mark, ahead, phase, tokens, tokens_parsed, stream_start_produced,
                     stream_end_produced, simple_key_allowed, flow_level, indent,
                     indents, error, open_blocks>>
  BY DEF make_available, Fetching
<1>2. /\ KeysNow \in Seq(KeySet) /\ Len(KeysNow) = Len(simple_keys)
      /\ Weaker(KeysNow, simple_keys)
  BY KeysNowFacts
<1>3. /\ mark \in MarkSet /\ tokens \in Seq(TokenSet)
      /\ tokens_parsed \in Nat /\ simple_keys \in Seq(KeySet) /\ After(mark, mark)
  BY DEF Inv, TypeOK, MarkSet, TokenSet, KeySet, After
<1>4. KeysFit(KeysNow, tokens_parsed, tokens, mark)
  BY <1>2, <1>3, KeysFitLater DEF Inv
<1>5. \A i \in DOMAIN KeysNow : KeysNow[i].possible => KeysNow[i].token_number # tokens_parsed
  BY <1>1 DEF NeedMoreTokens
<1>6. stream_start_produced
  BY <1>1 DEF Inv, Started
<1>7. TypeOK'
  BY <1>1, <1>2 DEF Inv, TypeOK, MarkSet, KeySet
<1>8. Started' /\ HeadIsFree'
  BY <1>1, <1>2, <1>5, <1>6 DEF Inv, Started, HeadIsFree
<1> QED
  BY <1>1, <1>4, <1>7, <1>8 DEF Inv, AtEnd

\* The parser takes the head of the queue: no possible key lies there.
LEMMA TakeKeeps ==
    ASSUME Inv, take_token
    PROVE  Inv'
<1> DEFINE h == Head(tokens)  t == Tail(tokens)
<1>1. /\ token_available /\ tokens' = t /\ token_available' = FALSE
      /\ tokens_parsed' = tokens_parsed + 1
      /\ stream_end_produced' = (h.type = "STREAM_END")
      /\ open_blocks' = open_blocks + Delta(h)
      /\ UNCHANGED <<mark, ahead, phase, stream_start_produced, simple_keys,
                     simple_key_allowed, flow_level, indent, indents, error>>
  BY DEF take_token, Delta
<1>2. /\ tokens # <<>>
      /\ \A i \in DOMAIN simple_keys :
            simple_keys[i].possible => simple_keys[i].token_number # tokens_parsed
  BY <1>1 DEF Inv, HeadIsFree
<1>3. /\ tokens \in Seq(TokenSet) /\ tokens_parsed \in Nat /\ open_blocks \in Int
      /\ simple_keys \in Seq(KeySet)
  BY DEF Inv, TypeOK, TokenSet, KeySet, MarkSet
<1>4. /\ h \in TokenSet /\ t \in Seq(TokenSet) /\ Len(t) = Len(tokens) - 1
      /\ \A i \in 1..Len(t) : t[i] = tokens[i + 1]
      /\ Len(tokens) \in Nat \ {0}
  BY <1>2, <1>3, HeadTailProperties, EmptySeq
<1>5. <<h>> \in Seq(TokenSet) /\ Len(<<h>>) = 1 /\ <<h>>[1] = h /\ h = tokens[1]
  BY <1>2, <1>3, <1>4, OneSeq
<1> DEFINE w == <<h>>
<1>6. w \in Seq(TokenSet) /\ Len(w) = 1 /\ w[1] = h
  BY <1>5
<1> HIDE DEF h, t, w
<1>7. tokens = w \o t
  <2> DEFINE u == w \o t
  <2>1. u \in Seq(TokenSet) /\ Len(u) = 1 + Len(t)
    BY <1>4, <1>6, ConcatProperties
  <2>2. \A i \in 1..(Len(w) + Len(t)) : u[i] = IF i <= Len(w) THEN w[i] ELSE t[i - Len(w)]
    BY <1>4, <1>6, ConcatProperties
  <2> HIDE DEF u
  <2>3. \A i \in 1..Len(tokens) : u[i] = tokens[i]
    <3> TAKE i \in 1..Len(tokens)
    <3>1. CASE i = 1
      BY <1>4, <1>5, <1>6, <2>2, <3>1
    <3>2. CASE i # 1
      <4>1. i - 1 \in 1..Len(t) /\ (i - 1) + 1 = i
        BY <1>4, <3>2
      <4>2. u[i] = t[i - 1]
        BY <1>4, <1>6, <2>2, <3>2
      <4> QED BY <1>4, <4>1, <4>2
    <3> QED BY <3>1, <3>2
  <2>4. Len(u) = Len(tokens)
    BY <1>4, <2>1
  <2>5. tokens = u
    BY <1>3, <2>1, <2>3, <2>4, SeqEqual
  <2> QED BY <2>5 DEF u
<1>8. Balanced(open_blocks, w \o t, Len(indents))
  BY <1>7 DEF Inv
<1>9. PICK b \in Nat : Balanced(open_blocks, w, b) /\ Balanced(b, t, Len(indents))
  BY <1>3, <1>4, <1>6, <1>8, BalancedSplit
<1>10. b = open_blocks + Delta(h)
  <2>1. Depth(open_blocks, w, 0) = open_blocks
        /\ Depth(open_blocks, w, 0 + 1) = Depth(open_blocks, w, 0) + Delta(w[0 + 1])
    BY <1>3, DepthStep
  <2>2. 0 + 1 = 1
    OBVIOUS
  <2> QED BY <1>6, <1>9, <2>1, <2>2 DEF Balanced
<1>11. Balanced(open_blocks, tokens, Len(indents))' /\ open_blocks' \in Int
  BY <1>1, <1>9, <1>10
<1>12. Ordered(0, tokens, mark.index)'
  <2>1. \A i \in 1..Len(t) : i + 1 \in 1..Len(tokens) /\ i \in Int
    BY <1>4
  <2>2. Ordered(0, tokens, mark.index)
    BY DEF Inv
  <2>3. ASSUME NEW i \in 1..Len(t), NEW j \in 1..Len(t), i < j
        PROVE  t[i].index <= t[j].index
    <3>1. i + 1 < j + 1
      BY <2>1, <2>3
    <3> QED BY <1>4, <2>1, <2>2, <3>1 DEF Ordered
  <2>4. ASSUME NEW i \in 1..Len(t)
        PROVE  0 <= t[i].index /\ t[i].index <= mark.index
    BY <1>4, <2>1, <2>2 DEF Ordered
  <2>5. Ordered(0, t, mark.index)
    BY <2>3, <2>4 DEF Ordered
  <2> QED BY <1>1, <2>5
<1>13. EndLast(tokens)' /\ (NoEnd(tokens) \/ AtEnd)'
  <2>1. EndLast(t)
    <3> SUFFICES ASSUME NEW n \in 1..Len(t), t[n].type = "STREAM_END"
                 PROVE  n = Len(t)
      BY DEF EndLast
    <3>1. n + 1 \in 1..Len(tokens) /\ tokens[n + 1].type = "STREAM_END"
      BY <1>4
    <3>2. n + 1 = Len(tokens)
      BY <3>1 DEF Inv, EndLast
    <3> QED BY <1>4, <3>2
  <2>2. NoEnd(tokens) => NoEnd(t)
    BY <1>4, <1>6, <1>7, NoEndConcat
  <2>3. NoEnd(t) \/ AtEnd
    BY <2>2 DEF Inv
  <2> QED BY <1>1, <2>1, <2>3 DEF AtEnd
<1>14. KeysFit(simple_keys, tokens_parsed, tokens, mark)'
  <2> DEFINE p == tokens_parsed + 1
  <2>1. ASSUME NEW i \in DOMAIN simple_keys, simple_keys[i].possible
        PROVE  /\ simple_keys[i].token_number - p + 1 \in 1..Len(t)
               /\ t[simple_keys[i].token_number - p + 1].index = simple_keys[i].mark.index
               /\ Behind(simple_keys[i].mark, mark)
    <3> DEFINE n == simple_keys[i].token_number
    <3>1. n - tokens_parsed + 1 \in 1..Len(tokens)
          /\ tokens[n - tokens_parsed + 1].index = simple_keys[i].mark.index
          /\ Behind(simple_keys[i].mark, mark)
      BY <2>1 DEF Inv, KeysFit
    <3>2. n \in Nat
      <4>1. simple_keys[i] \in KeySet
        BY <1>3, LenProperties
      <4> QED BY <4>1 DEF KeySet
    <3>3. n # tokens_parsed
      BY <1>2, <2>1
    <3> HIDE DEF n
    <3>4. n - p + 1 \in 1..Len(t) /\ (n - p + 1) + 1 = n - tokens_parsed + 1
      BY <1>3, <1>4, <3>1, <3>2, <3>3
    <3>5. t[n - p + 1] = tokens[n - tokens_parsed + 1]
      <4> HIDE DEF p
      <4> QED BY <1>4, <3>4
    <3> QED BY <3>1, <3>4, <3>5 DEF n
  <2>2. \A i, j \in DOMAIN simple_keys :
           i < j /\ simple_keys[i].possible /\ simple_keys[j].possible
              => simple_keys[i].token_number < simple_keys[j].token_number
    BY DEF Inv, KeysFit
  <2>3. KeysFit(simple_keys, p, t, mark)
    <3> HIDE DEF p
    <3> QED BY <2>1, <2>2 DEF KeysFit
  <2> QED BY <1>1, <2>3
<1>15. TypeOK'
  <2>1. tokens' \in Seq([type : TokenTypes, index : Nat])
    BY <1>1, <1>4 DEF TokenSet
  <2>2. stream_end_produced' \in BOOLEAN /\ token_available' \in BOOLEAN
    BY <1>1
  <2>3. tokens_parsed' \in Nat
    BY <1>1, <1>3
  <2> QED BY <1>1, <1>11, <2>1, <2>2, <2>3 DEF Inv, TypeOK
<1>16. Started' /\ HeadIsFree'
  BY <1>1 DEF Inv, Started, HeadIsFree
<1> QED
  BY <1>1, <1>11, <1>12, <1>13, <1>14, <1>15, <1>16 DEF Inv

\* yaml_parser_fetch_stream_start.
LEMMA StreamStartKeeps ==
    ASSUME Inv, fetch_stream_start
    PROVE  Inv'
<1>1. /\ phase = "next" /\ ~token_available /\ ~stream_start_produced
      /\ indent' = -1 /\ simple_keys' = Append(simple_keys, NoKey)
      /\ simple_key_allowed' = TRUE /\ stream_start_produced' = TRUE
      /\ tokens' = Append(tokens, Tok("STREAM_START", mark))
      /\ UNCHANGED <<mark, ahead, phase, tokens_parsed, token_available,
                     stream_end_produced, flow_level, indents, error, open_blocks>>
  BY DEF fetch_stream_start
<1>2. /\ simple_keys = <<>> /\ indents = <<>> /\ tokens = <<>>
      /\ flow_level = 0 /\ open_blocks = 0
  BY <1>1 DEF Inv, Started
<1> DEFINE t == Tok("STREAM_START", mark)
<1>3. tokens' = <<t>> /\ simple_keys' = <<NoKey>>
  BY <1>1, <1>2
<1>4. mark \in MarkSet /\ mark.index \in Nat
  BY DEF Inv, TypeOK, MarkSet
<1>5. /\ <<t>> \in Seq(TokenSet) /\ Ordered(mark.index, <<t>>, mark.index) /\ NoEnd(<<t>>)
      /\ Balanced(0, <<t>>, 0)
  BY <1>4, PlainTypes, OnePlain
<1>6. <<NoKey>> \in Seq(KeySet) /\ Len(<<NoKey>>) = 1 /\ <<NoKey>>[1] = NoKey
      /\ DOMAIN <<NoKey>> = {1}
  BY NoKeyFacts, OneSeq
<1> DEFINE w == <<t>>  ks == <<NoKey>>
<1>7. w \in Seq(TokenSet) /\ tokens' = w /\ ks \in Seq(KeySet) /\ simple_keys' = ks
  BY <1>3, <1>5, <1>6
<1>8. Ordered(0, w, mark.index)
  <2>1. 0 <= mark.index /\ mark.index <= mark.index
    BY <1>4
  <2> HIDE DEF t, w
  <2> QED BY <1>4, <1>5, <1>7, <2>1, OrderedWiden DEF w
<1>9. KeysFit(ks, tokens_parsed, w, mark)
  BY <1>6, NoKeyFacts DEF KeysFit
<1>10. Len(indents) = 0 /\ Append(indents, -1) = <<-1>>
  BY <1>2
<1>11. Grows(Append(indents, indent)')
  BY <1>1, <1>10 DEF Grows
<1>12. NoEnd(w) /\ EndLast(w) /\ Balanced(open_blocks, w, Len(indents))
  BY <1>2, <1>5, <1>10, NoEndLast
<1>13. Len(ks) = 1
  BY <1>6
<1> HIDE DEF w, ks, t
<1>14. TypeOK'
  <2>1. -1 \in -1..IntMax
    BY ScannerAssumption
  <2> QED BY <1>1, <1>7, <2>1 DEF Inv, TypeOK, TokenSet, KeySet, MarkSet
<1>15. Started' /\ HeadIsFree'
  BY <1>1, <1>2, <1>7, <1>11, <1>13 DEF Started, HeadIsFree
<1> QED
  BY <1>1, <1>7, <1>8, <1>9, <1>12, <1>14, <1>15 DEF Inv

-----------------------------------------------------------------------------
(* The theorems.                                                           *)

\* The invariant holds before the first token.
LEMMA InitInv == Init => Inv
<1> SUFFICES ASSUME Init PROVE Inv
  OBVIOUS
<1>1. /\ mark = [index |-> 0, line |-> 0, column |-> 0] /\ tokens = <<>> /\ simple_keys = <<>>
      /\ indents = <<>> /\ Len(tokens) = 0 /\ Len(indents) = 0 /\ DOMAIN simple_keys = {}
      /\ open_blocks = 0 /\ flow_level = 0 /\ phase = "next" /\ token_available = FALSE
      /\ stream_start_produced = FALSE
  BY DEF Init
<1>2. TypeOK
  <2>1. 0 \in 0..IntMax /\ 0 \in -1..IntMax
    BY ScannerAssumption
  <2>2. tokens \in Seq([type : TokenTypes, index : Nat]) /\ indents \in Seq(-1..IntMax)
    BY <1>1, EmptySeq
  <2>3. simple_keys \in Seq(KeySet)
    BY <1>1, EmptySeq
  <2>4. /\ token_available \in BOOLEAN /\ stream_start_produced \in BOOLEAN
        /\ stream_end_produced \in BOOLEAN /\ simple_key_allowed \in BOOLEAN
    BY DEF Init
  <2> QED BY <2>1, <2>2, <2>3, <2>4 DEF Init, TypeOK, KeySet, MarkSet
<1>3. KeysFit(simple_keys, tokens_parsed, tokens, mark)
  BY <1>1 DEF KeysFit
<1>4. Ordered(0, tokens, mark.index) /\ EndLast(tokens) /\ NoEnd(tokens)
  BY <1>1 DEF Ordered, EndLast, NoEnd
<1>5. Balanced(open_blocks, tokens, Len(indents))
  BY <1>1, BalancedEmpty
<1> QED
  BY <1>1, <1>2, <1>3, <1>4, <1>5 DEF Inv, Started, HeadIsFree

\* The invariant is about the variables alone.
LEMMA StutterKeeps ==
    ASSUME Inv, UNCHANGED vars
    PROVE  Inv'
<1>1. TypeOK'
  BY DEF vars, Inv, TypeOK
<1>2. Started' /\ HeadIsFree' /\ (NoEnd(tokens) \/ AtEnd)'
  BY DEF vars, Inv, Started, HeadIsFree, AtEnd
<1> QED
  BY <1>1, <1>2 DEF vars, Inv

\* The invariant is inductive.
LEMMA NextInv == Inv /\ [Next]_vars => Inv'
<1> SUFFICES ASSUME Inv, [Next]_vars
             PROVE  Inv'
  OBVIOUS
<1>1. CASE fetch_failed
  BY <1>1, FailKeeps DEF fetch_failed
<1>2. CASE scan_nothing
  BY <1>2, StutterKeeps DEF scan_nothing
<1> QED
  BY <1>1, <1>2, StutterKeeps, StreamStartKeeps, FindKeeps, LexemeKeeps, AvailableKeeps,
     TakeKeeps
  DEF Next

\* The inductive invariant holds of every state the scanner can be in.
THEOREM ScannerInvariant == Spec => []Inv
BY InitInv, NextInv, PTL DEF Spec

\* The scanner's variables keep their types; flow_level and indent, which
\* yaml_parser_increase_flow_level and yaml_parser_roll_indent guard, stay ints.
THEOREM TypeCorrect == Spec => []TypeOK
<1>1. Inv => TypeOK
  BY DEF Inv
<1> QED
  BY <1>1, ScannerInvariant, PTL

\* There is one simple key more than flow levels and the indents grow from -1:
\* no POP of the scanner finds its stack empty.
THEOREM StacksStayTogether == Spec => []StacksAgree
<1>1. Inv => StacksAgree
  BY DEF Inv, Started, Grows, StacksAgree
<1> QED
  BY <1>1, ScannerInvariant, PTL

\* Every simple key that is still possible stands for a token that is still in
\* the queue, so KEY is inserted inside it and where the key starts.
THEOREM KeysAreInQueue == Spec => []KeysAwaitInQueue
<1>1. Inv => KeysAwaitInQueue
  BY DEF Inv, KeysFit, KeysAwaitInQueue
<1> QED
  BY <1>1, ScannerInvariant, PTL

\* The queue is in the order of the text, wherever tokens were inserted.
THEOREM QueueIsInOrder == Spec => []TokensInOrder
<1>1. Inv => TokensInOrder
  BY DEF Inv, Ordered, TokensInOrder
<1> QED
  BY <1>1, ScannerInvariant, PTL

\* No token is ever put behind STREAM-END.
THEOREM NothingAfterStreamEnd == Spec => []StreamEndIsLast
<1>1. Inv => StreamEndIsLast
  <2> SUFFICES ASSUME Inv, NEW i \in 1..(Len(tokens) - 1), tokens[i].type = "STREAM_END"
               PROVE  FALSE
    BY DEF StreamEndIsLast
  <2>1. Len(tokens) \in Nat
    BY LenProperties DEF Inv, TypeOK
  <2>2. i \in 1..Len(tokens) /\ i # Len(tokens)
    BY <2>1
  <2> QED BY <2>2 DEF Inv, EndLast
<1> QED
  BY <1>1, ScannerInvariant, PTL

\* BLOCK-END closes what BLOCK-SEQUENCE-START and BLOCK-MAPPING-START opened.
THEOREM BlocksAreBalanced == Spec => []BlocksBalance
<1>1. Inv => BlocksBalance
  <2> SUFFICES ASSUME Inv
               PROVE  BlocksBalance
    OBVIOUS
  <2>1. /\ \A n \in 0..Len(tokens) : OpenAfter(n) >= 0
        /\ OpenAfter(Len(tokens)) = Len(indents)
    BY DEF Inv, Balanced, OpenAfter
  <2>2. ASSUME NEW n \in 1..Len(tokens), tokens[n].type = "STREAM_END", flow_level = 0
        PROVE  OpenAfter(n) = 0
    <3>1. n = Len(tokens) /\ indents = <<>>
      BY <2>2 DEF Inv, EndLast, NoEnd, AtEnd
    <3>2. Len(indents) = 0
      BY <3>1
    <3> QED BY <2>1, <3>1, <3>2
  <2> QED BY <2>1, <2>2 DEF BlocksBalance
<1> QED
  BY <1>1, ScannerInvariant, PTL

-----------------------------------------------------------------------------
(* Required keys.                                                          *)

\* What a step may do to the key of the outermost level.
KeySettled ==
    simple_keys # <<>> /\ simple_keys[1].possible /\ simple_keys[1].required
       => \/ simple_keys' # <<>> /\ simple_keys'[1] = simple_keys[1]
          \/ tokens' # <<>> /\ Last(tokens').type = "VALUE"
          \/ error' # "NO"

\* A key that is required is not on top when the top is dropped or replaced.
LEMMA TopSettled ==
    ASSUME Inv, AtLexeme, ~KeyRequired, NEW k \in KeySet,
           simple_keys[1].possible, simple_keys[1].required
    PROVE  /\ SetTop(simple_keys, k) # <<>> /\ SetTop(simple_keys, k)[1] = simple_keys[1]
           /\ SetTop(simple_keys, k) \in Seq(KeySet)
           /\ Len(SetTop(simple_keys, k)) = Len(simple_keys)
           /\ flow_level # 0
<1>1. /\ simple_keys \in Seq(KeySet) /\ simple_keys # <<>>
      /\ Len(simple_keys) = flow_level + 1 /\ flow_level \in Nat
  BY AtLexemeFacts
<1>2. Last(simple_keys) = simple_keys[Len(simple_keys)]
  BY <1>1, PopFacts
<1>3. flow_level # 0
  <2> SUFFICES ASSUME flow_level = 0 PROVE FALSE
    OBVIOUS
  <2>1. Len(simple_keys) = 1
    BY <1>1
  <2> QED BY <1>2, <2>1 DEF KeyRequired
<1>4. /\ SetTop(simple_keys, k) \in Seq(KeySet)
      /\ Len(SetTop(simple_keys, k)) = Len(simple_keys)
      /\ \A i \in DOMAIN simple_keys :
            SetTop(simple_keys, k)[i] = IF i = Len(simple_keys) THEN k ELSE simple_keys[i]
  BY <1>1, SetTopFacts
<1>5. 1 \in DOMAIN simple_keys /\ 1 # Len(simple_keys)
  BY <1>1, <1>3, LenProperties
<1>6. SetTop(simple_keys, k) # <<>>
  BY <1>1, <1>4, EmptySeq
<1> QED
  BY <1>3, <1>4, <1>5, <1>6

\* No required key is removed.
LEMMA RemoveSettles ==
    ASSUME Inv, AtLexeme, ~KeyRequired, simple_keys' = remove_simple_key
    PROVE  KeySettled
BY TopSettled, NoKeyFacts DEF remove_simple_key, KeySettled

\* No required key is replaced.
LEMMA SaveSettles ==
    ASSUME Inv, AtLexeme, ~(simple_key_allowed /\ KeyRequired),
           simple_keys[1].possible, simple_keys[1].required
    PROVE  /\ save_simple_key \in Seq(KeySet) /\ save_simple_key # <<>>
           /\ save_simple_key[1] = simple_keys[1]
<1>1. CASE ~simple_key_allowed
  BY <1>1, AtLexemeFacts DEF save_simple_key
<1>2. CASE simple_key_allowed
  <2> DEFINE k == [possible |-> TRUE,
                   required |-> flow_level = 0 /\ indent = mark.column,
                   token_number |-> tokens_parsed + Len(tokens),
                   mark |-> mark]
  <2>1. k \in KeySet
    <3>1. (flow_level = 0 /\ indent = mark.column) \in BOOLEAN
      OBVIOUS
    <3>2. tokens_parsed + Len(tokens) \in Nat /\ mark \in MarkSet
      BY AtLexemeFacts, LenProperties
    <3> QED BY <3>1, <3>2 DEF KeySet
  <2>2. save_simple_key = SetTop(simple_keys, k)
    BY <1>2 DEF save_simple_key
  <2> HIDE DEF k
  <2> QED BY <1>2, <2>1, <2>2, TopSettled
<1> QED
  BY <1>1, <1>2

\* A step that fails sets parser.error.
LEMMA FailSettles ==
    ASSUME Inv, Fail("SCANNER") \/ Fail("READER") \/ Fail("MEMORY")
    PROVE  KeySettled
<1>1. error' # "NO"
  BY FailKeeps
<1> QED
  BY <1>1 DEF KeySettled

\* No fetch function forgets a required key.
LEMMA LexemeSettles ==
    ASSUME Inv, fetch_lexeme
    PROVE  KeySettled
<1> USE FailSettles
<1>1. CASE fetch_stream_end
  BY <1>1, RemoveSettles DEF fetch_stream_end
<1>2. ASSUME NEW type, NEW m, NEW known, fetch_at_margin(type, m, known)
      PROVE  KeySettled
  BY <1>2, RemoveSettles DEF fetch_at_margin, AtText
<1>3. CASE fetch_directive
  BY <1>2, <1>3 DEF fetch_directive
<1>4. ASSUME NEW t \in {"DOCUMENT_START", "DOCUMENT_END"}, fetch_document_indicator(t)
      PROVE  KeySettled
  BY <1>2, <1>4 DEF fetch_document_indicator
<1>5. ASSUME NEW t \in {"FLOW_SEQUENCE_START", "FLOW_MAPPING_START"},
             fetch_flow_collection_start(t)
      PROVE  KeySettled
  <2>1. CASE Fail("SCANNER") \/ Fail("MEMORY")
    BY <2>1
  <2>2. CASE ~(Fail("SCANNER") \/ Fail("MEMORY"))
    <3>1. /\ AtLexeme /\ ~(simple_key_allowed /\ KeyRequired)
          /\ simple_keys' = Append(save_simple_key, NoKey)
      BY <1>5, <2>2 DEF fetch_flow_collection_start, AtText
    <3> SUFFICES ASSUME simple_keys[1].possible, simple_keys[1].required
                 PROVE  simple_keys' # <<>> /\ simple_keys'[1] = simple_keys[1]
      BY DEF KeySettled
    <3> DEFINE ks == save_simple_key
    <3>2. ks \in Seq(KeySet) /\ ks # <<>> /\ ks[1] = simple_keys[1]
      BY <3>1, SaveSettles
    <3> HIDE DEF ks
    <3>3. Append(ks, NoKey) # <<>> /\ Append(ks, NoKey)[1] = ks[1]
      <4>1. 1 \in 1..Len(ks)
        BY <3>2, EmptySeq
      <4> QED BY <3>2, <4>1, NoKeyFacts, AppendProperties
    <3> QED BY <3>1, <3>2, <3>3 DEF ks
  <2> QED BY <2>1, <2>2
<1>6. ASSUME NEW t \in {"FLOW_SEQUENCE_END", "FLOW_MAPPING_END"}, fetch_flow_collection_end(t)
      PROVE  KeySettled
  <2>1. CASE Fail("SCANNER")
    BY <2>1
  <2>2. CASE ~Fail("SCANNER")
    <3>1. AtLexeme /\ ~KeyRequired /\ decrease_flow_level(remove_simple_key)
      BY <1>6, <2>2 DEF fetch_flow_collection_end, AtText
    <3> SUFFICES ASSUME simple_keys[1].possible, simple_keys[1].required
                 PROVE  simple_keys' # <<>> /\ simple_keys'[1] = simple_keys[1]
      BY DEF KeySettled
    <3> DEFINE r == remove_simple_key
    <3>2. /\ r \in Seq(KeySet) /\ r # <<>> /\ r[1] = simple_keys[1]
          /\ Len(r) = Len(simple_keys) /\ flow_level # 0
      BY <3>1, TopSettled, NoKeyFacts DEF remove_simple_key
    <3>3. Len(simple_keys) = flow_level + 1 /\ flow_level \in Nat
      BY <3>1, AtLexemeFacts
    <3>4. simple_keys' = Front(r)
      BY <3>1, <3>2 DEF decrease_flow_level
    <3> HIDE DEF r
    <3>5. /\ Front(r) \in Seq(KeySet) /\ Len(Front(r)) = Len(r) - 1
          /\ \A i \in 1..(Len(r) - 1) : Front(r)[i] = r[i]
      BY <3>2, PopFacts
    <3>6. Len(Front(r)) # 0 /\ 1 \in 1..(Len(r) - 1)
      BY SMTT(60), <3>2, <3>3, <3>5
    <3>7. Front(r) # <<>>
      BY <3>5, <3>6
    <3> QED BY <3>2, <3>4, <3>5, <3>6, <3>7
  <2> QED BY <2>1, <2>2
<1>7. CASE fetch_flow_entry
  BY <1>7, RemoveSettles DEF fetch_flow_entry, AtText
<1>8. ASSUME NEW type, NEW start, NEW allowed, NEW known,
             fetch_indicator(type, start, allowed, known)
      PROVE  KeySettled
  BY <1>8, RemoveSettles DEF fetch_indicator, AtText
<1>9. CASE fetch_value
  <2>1. CASE Fail("SCANNER") \/ Fail("MEMORY")
    BY <2>1
  <2>2. CASE fetch_value_of_key
    <3>1. AtText /\ SKIP(1) \in Reach(mark)
      BY <1>9 DEF fetch_value
    <3> QED BY <2>2, <3>1, ValueOfKeyKeeps DEF KeySettled
  <2>3. CASE fetch_value_alone /\ ~(Fail("SCANNER") \/ Fail("MEMORY"))
    <3>1. simple_keys' = simple_keys
      BY <2>3 DEF fetch_value_alone
    <3> QED BY <3>1 DEF KeySettled
  <2> QED BY <1>9, <2>1, <2>2, <2>3 DEF fetch_value
<1>10. ASSUME NEW type, NEW m, NEW allowed, NEW known,
              fetch_key_candidate(type, m, allowed, known)
       PROVE  KeySettled
  <2>1. CASE Fail("SCANNER")
    BY <2>1
  <2>2. CASE ~Fail("SCANNER")
    <3>1. AtLexeme /\ ~(simple_key_allowed /\ KeyRequired) /\ simple_keys' = save_simple_key
      BY <1>10, <2>2 DEF fetch_key_candidate, AtText
    <3> QED BY <3>1, SaveSettles DEF KeySettled
  <2> QED BY <2>1, <2>2
<1>11. CASE fetch_block_scalar
  BY <1>11, RemoveSettles DEF fetch_block_scalar, AtText
<1>12. CASE fetch_nothing
  BY <1>12 DEF fetch_nothing
<1>13. CASE fetch_block_entry \/ fetch_key
  BY <1>8, <1>13 DEF fetch_block_entry, fetch_key
<1>14. CASE \/ \E t \in {"ALIAS", "ANCHOR"} : fetch_anchor(t)
            \/ fetch_tag \/ fetch_flow_scalar \/ fetch_plain_scalar
  BY <1>10, <1>14 DEF fetch_anchor, fetch_tag, fetch_flow_scalar, fetch_plain_scalar
<1> QED
  BY <1>1, <1>3, <1>4, <1>5, <1>6, <1>7, <1>9, <1>11, <1>12, <1>13, <1>14 DEF fetch_lexeme

\* A required key is not given up as stale.
LEMMA StaleSettles ==
    ASSUME NEW keys \in Seq(KeySet), NEW m, ~StaleKeyRequired(keys, m), keys # <<>>,
           keys[1].required
    PROVE  stale_simple_keys(keys, m)[1] = keys[1]
<1>1. 1 \in DOMAIN keys
  BY LenProperties, EmptySeq
<1>2. ~IsStale(keys[1], m)
  BY <1>1 DEF StaleKeyRequired
<1> QED
  BY <1>1, <1>2 DEF stale_simple_keys

\* The outermost key, if required, outlives the search for stale ones.
LEMMA NowSettles ==
    ASSUME Inv, ~KeysFail, simple_keys # <<>>, simple_keys[1].required
    PROVE  KeysNow \in Seq(KeySet) /\ KeysNow # <<>> /\ KeysNow[1] = simple_keys[1]
<1>1. /\ simple_keys \in Seq(KeySet)
      /\ KeysNow \in Seq(KeySet) /\ Len(KeysNow) = Len(simple_keys)
  BY KeysNowFacts DEF Inv, TypeOK, KeySet, MarkSet
<1>2. KeysNow # <<>>
  BY <1>1, EmptySeq
<1>3. KeysNow[1] = simple_keys[1]
  BY <1>1, StaleSettles DEF KeysNow, KeysFail
<1> QED
  BY <1>1, <1>2, <1>3

\* No step forgets a required key.
LEMMA NextSettles == Inv /\ [Next]_vars => [KeySettled]_vars
<1> SUFFICES ASSUME Inv, Next
             PROVE  KeySettled
  OBVIOUS
<1>1. CASE UNCHANGED simple_keys
  BY <1>1 DEF KeySettled
<1>2. CASE fetch_stream_start
  BY <1>2 DEF fetch_stream_start, Inv, Started, KeySettled
<1>3. CASE find_next_token
  <2>1. CASE Fail("SCANNER")
    BY <2>1, FailSettles
  <2>2. CASE ~Fail("SCANNER")
    <3>1. PICK m \in scan_to_next_token :
             /\ ~KeysFail /\ ~StaleKeyRequired(KeysNow, m)
             /\ simple_keys' = stale_simple_keys(KeysNow, m)
      BY <1>3, <2>2 DEF find_next_token
    <3> SUFFICES ASSUME simple_keys # <<>>, simple_keys[1].required
                 PROVE  simple_keys' # <<>> /\ simple_keys'[1] = simple_keys[1]
      BY DEF KeySettled
    <3> DEFINE now == KeysNow  ks == stale_simple_keys(now, m)
    <3>2. now \in Seq(KeySet) /\ now # <<>> /\ now[1] = simple_keys[1]
      BY <3>1, NowSettles
    <3>3. m \in MarkSet
      BY ReachAfter DEF scan_to_next_token, Inv, TypeOK, MarkSet
    <3> HIDE DEF now
    <3>4. ks \in Seq(KeySet) /\ Len(ks) = Len(now)
      BY <3>2, <3>3, StaleWeaker
    <3>5. ks[1] = now[1]
      BY <3>1, <3>2, StaleSettles DEF now
    <3> HIDE DEF ks
    <3>6. ks # <<>>
      BY <3>2, <3>4, EmptySeq
    <3> QED BY <3>1, <3>2, <3>5, <3>6 DEF ks, now
  <2> QED BY <2>1, <2>2
<1>4. CASE fetch_lexeme
  BY <1>4, LexemeSettles
<1>5. CASE fetch_failed
  BY <1>5, FailSettles DEF fetch_failed
<1>6. CASE make_available
  BY <1>6, NowSettles DEF make_available, KeySettled
<1>7. CASE take_token \/ scan_nothing
  BY <1>1, <1>7 DEF take_token, scan_nothing, vars
<1> QED
  BY <1>2, <1>3, <1>4, <1>5, <1>6, <1>7 DEF Next

\* A key that is required, the first token of a line of a block mapping, is
\* forgotten only when its ":" has come or the scanner fails: no path through
\* yaml_parser_remove_simple_key or yaml_parser_stale_simple_keys loses it.
THEOREM RequiredKeysAreResolved == Spec => RequiredKeyIsResolved
<1>1. Inv /\ [Next]_vars
         => [ simple_keys # <<>> /\ simple_keys[1].possible /\ simple_keys[1].required
                 => \/ simple_keys' # <<>> /\ simple_keys'[1] = simple_keys[1]
                    \/ tokens' # <<>> /\ Last(tokens').type = "VALUE"
                    \/ error' # "NO" ]_vars
  BY NextSettles DEF KeySettled
<1> QED
  BY <1>1, ScannerInvariant, PTL DEF Spec, RequiredKeyIsResolved

=============================================================================

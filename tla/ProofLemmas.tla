---------------------------- MODULE ProofLemmas ----------------------------
(***************************************************************************)
(* What the proofs of the components share: the stacks and queues that the *)
(* library keeps in arrays, as sequences, and the least element of a set   *)
(* of numbers, which stands in for induction.                              *)
(***************************************************************************)
EXTENDS Integers, Sequences, SequencesExt, SequenceTheorems, FiniteSetTheorems,
        WellFoundedInduction, TLAPS

-----------------------------------------------------------------------------
(* Numbers.                                                                *)

\* Every set of natural numbers that is not empty has a least element.
LEMMA LeastNumber ==
    ASSUME NEW T, T \subseteq Nat, T # {}
    PROVE  \E x \in T : \A y \in T : x <= y
<1>1. PICK x \in T : \A y \in T : ~(<<y, x>> \in OpToRel(<, Nat))
  BY WFMin, NatLessThanWellFounded
<1>2. \A y \in T : ~(y < x)
  BY <1>1 DEF OpToRel
<1> QED
  BY <1>2

\* What holds of 0, and of n + 1 when it holds of n, holds of all numbers up to N.
LEMMA Climb ==
    ASSUME NEW N \in Nat, NEW T, 0 \in T, \A n \in 0..(N - 1) : n \in T => n + 1 \in T
    PROVE  0..N \subseteq T
<1> SUFFICES ASSUME (0..N) \ T # {}
             PROVE  FALSE
  OBVIOUS
<1>1. PICK x \in (0..N) \ T : \A y \in (0..N) \ T : x <= y
  <2>1. (0..N) \ T \subseteq Nat
    OBVIOUS
  <2> QED BY <2>1, LeastNumber
<1>2. x # 0 /\ x - 1 \in 0..(N - 1)
  BY <1>1
<1>3. x - 1 \in T
  BY <1>1, <1>2
<1> QED
  BY <1>1, <1>2, <1>3

-----------------------------------------------------------------------------
(* Stacks.                                                                 *)

\* A sequence of one element, and one put behind two others.
LEMMA OneSeq ==
    ASSUME NEW S, NEW x \in S
    PROVE  <<x>> \in Seq(S) /\ Len(<<x>>) = 1 /\ <<x>>[1] = x
OBVIOUS

\* Concatenation is associative.
LEMMA ConcatThree ==
    ASSUME NEW S, NEW s \in Seq(S), NEW t \in Seq(S), NEW x \in S
    PROVE  (s \o t) \o <<x>> = s \o (t \o <<x>>)
<1> DEFINE u == <<x>>
<1>1. u \in Seq(S)
  OBVIOUS
<1> HIDE DEF u
<1>2. (s \o t) \o u = s \o (t \o u)
  BY SMTT(60), <1>1, ConcatAssociative
<1> QED
  BY <1>2 DEF u

\* PUSH and then POP gives back what was there.
LEMMA PushPop ==
    ASSUME NEW S, NEW s \in Seq(S), NEW x \in S
    PROVE  /\ Append(s, x) \in Seq(S)
           /\ Append(s, x) # <<>>
           /\ Len(Append(s, x)) = Len(s) + 1
           /\ \A i \in 1..Len(s) : Append(s, x)[i] = s[i]
           /\ Append(s, x)[Len(s) + 1] = x
           /\ Last(Append(s, x)) = x
           /\ Front(Append(s, x)) = s
<1>1. /\ Append(s, x) \in Seq(S)
      /\ Append(s, x) # <<>>
      /\ Len(Append(s, x)) = Len(s) + 1
      /\ \A i \in 1..Len(s) : Append(s, x)[i] = s[i]
      /\ Append(s, x)[Len(s) + 1] = x
  OBVIOUS
<1>2. Last(Append(s, x)) = x
  BY <1>1 DEF Last
<1>3. Front(Append(s, x)) = s
  BY <1>1 DEF Front
<1> QED
  BY <1>1, <1>2, <1>3

\* What POP leaves of a stack that is not empty.
LEMMA PopFacts ==
    ASSUME NEW S, NEW s \in Seq(S), s # <<>>
    PROVE  /\ Len(s) \in Nat \ {0}
           /\ Front(s) \in Seq(S)
           /\ Len(Front(s)) = Len(s) - 1
           /\ \A i \in 1..(Len(s) - 1) : Front(s)[i] = s[i]
           /\ Last(s) = s[Len(s)]
           /\ Last(s) \in S
<1>1. Len(s) \in Nat \ {0}
  OBVIOUS
<1>2. /\ Front(s) \in Seq(S)
      /\ Len(Front(s)) = Len(s) - 1
      /\ \A i \in 1..(Len(s) - 1) : Front(s)[i] = s[i]
  <2> DEFINE n == Len(s) - 1
  <2>1. n \in Nat /\ 1 \in Int /\ n \in Int /\ \A i \in 1..n : s[i] \in S
    BY <1>1, LenProperties
  <2>2. /\ SubSeq(s, 1, n) \in Seq(S)
        /\ Len(SubSeq(s, 1, n)) = IF 1 <= n THEN n - 1 + 1 ELSE 0
        /\ \A i \in 1..(n - 1 + 1) : SubSeq(s, 1, n)[i] = s[1 + i - 1]
    <3> HIDE DEF n
    <3> QED BY <2>1, SubSeqProperties
  <2>3. Len(SubSeq(s, 1, n)) = n /\ \A i \in 1..n : SubSeq(s, 1, n)[i] = s[i]
    <3> HIDE DEF n
    <3> QED BY <2>1, <2>2
  <2> QED
    BY <2>2, <2>3 DEF Front
<1>3. Last(s) = s[Len(s)] /\ Last(s) \in S
  BY <1>1 DEF Last
<1> QED
  BY <1>1, <1>2, <1>3

\* POP and then PUSH gives back what was there.
LEMMA PopPush ==
    ASSUME NEW S, NEW s \in Seq(S), s # <<>>
    PROVE  Append(Front(s), Last(s)) = s
<1> DEFINE f == Front(s)  x == Last(s)  p == Append(f, x)  n == Len(s)
<1>1. /\ n \in Nat \ {0} /\ f \in Seq(S) /\ Len(f) = n - 1 /\ x \in S
      /\ \A i \in 1..(n - 1) : f[i] = s[i]
      /\ x = s[n]
  BY PopFacts
<1>2. /\ p \in Seq(S) /\ Len(p) = Len(f) + 1
      /\ \A i \in 1..Len(f) : p[i] = f[i]
      /\ p[Len(f) + 1] = x
  <2> HIDE DEF f, x
  <2> QED BY <1>1, PushPop
<1> HIDE DEF f, x, p
<1>3. Len(p) = n /\ Len(f) + 1 = n
  BY <1>1, <1>2
<1>4. \A i \in 1..n : p[i] = s[i]
  <2> HIDE DEF n
  <2> TAKE i \in 1..n
  <2>1. CASE i \in 1..(n - 1)
    BY <1>1, <1>2, <2>1
  <2>2. CASE i = n
    BY <1>1, <1>2, <1>3, <2>2
  <2> QED
    BY <1>1, <2>1, <2>2
<1>5. p = s
  BY <1>2, <1>3, <1>4, SeqEqual
<1> QED
  BY <1>5 DEF p, f, x

-----------------------------------------------------------------------------
(* Counting.                                                               *)

\* How many elements of a sequence are in F.
Count(s, F) == Cardinality({i \in DOMAIN s : s[i] \in F})

\* PUSH adds at most one to the count.
LEMMA CountPush ==
    ASSUME NEW S, NEW s \in Seq(S), NEW x \in S, NEW F
    PROVE  /\ Count(s, F) \in Nat
           /\ Count(Append(s, x), F) = IF x \in F THEN Count(s, F) + 1 ELSE Count(s, F)
<1> DEFINE A == {i \in DOMAIN s : s[i] \in F}
           t == Append(s, x)
           B == {i \in DOMAIN t : t[i] \in F}
           n == Len(s) + 1
<1>1. /\ Len(s) \in Nat /\ DOMAIN s = 1..Len(s)
      /\ Len(t) = n /\ DOMAIN t = 1..n
      /\ \A i \in 1..Len(s) : t[i] = s[i]
      /\ t[n] = x
  BY LenProperties, PushPop
<1>2. IsFiniteSet(A) /\ Cardinality(A) \in Nat
  <2>1. IsFiniteSet(1..Len(s)) /\ A \subseteq 1..Len(s)
    BY <1>1, FS_Interval
  <2> QED
    BY <2>1, FS_Subset, FS_CardinalityType
<1>3. n \notin A
  BY <1>1
<1>4. B = IF x \in F THEN A \cup {n} ELSE A
  <2>1. \A i \in 1..n : i \in 1..Len(s) \/ i = n
    BY <1>1
  <2>2. 1..Len(s) \subseteq 1..n /\ n \in 1..n
    BY <1>1
  <2> HIDE DEF t, n
  <2> QED
    BY <1>1, <2>1, <2>2
<1>5. Cardinality(A \cup {n}) = Cardinality(A) + 1
  BY <1>2, <1>3, FS_AddElement
<1>6. Cardinality(B) = IF x \in F THEN Cardinality(A) + 1 ELSE Cardinality(A)
  BY <1>4, <1>5
<1>7. Count(s, F) = Cardinality(A) /\ Count(t, F) = Cardinality(B)
  BY DEF Count
<1> QED
  BY <1>2, <1>6, <1>7 DEF t

\* One element in F is enough for the count not to be 0.
LEMMA CountSome ==
    ASSUME NEW S, NEW s \in Seq(S), NEW F, NEW k \in DOMAIN s, s[k] \in F
    PROVE  Count(s, F) >= 1
<1> DEFINE A == {i \in DOMAIN s : s[i] \in F}
<1>1. IsFiniteSet(A) /\ Cardinality(A) \in Nat
  <2>0. Len(s) \in Nat /\ DOMAIN s = 1..Len(s)
    BY LenProperties
  <2>1. IsFiniteSet(1..Len(s)) /\ A \subseteq 1..Len(s)
    BY <2>0, FS_Interval
  <2> QED
    BY <2>1, FS_Subset, FS_CardinalityType
<1>2. A # {}
  OBVIOUS
<1>3. Cardinality(A) # 0
  BY <1>1, <1>2, FS_EmptySet
<1>4. Count(s, F) = Cardinality(A)
  BY DEF Count
<1> QED
  BY <1>1, <1>3, <1>4

\* The elements of a sequence are in S.
LEMMA SeqIn ==
    ASSUME NEW S, NEW T, NEW s \in Seq(S), \A i \in 1..Len(s) : s[i] \in T
    PROVE  s \in Seq(T)
<1>1. Len(s) \in Nat /\ s = [i \in 1..Len(s) |-> s[i]]
  BY LenProperties
<1>2. s \in [1..Len(s) -> T]
  BY <1>1
<1> QED
  BY <1>1, <1>2

-----------------------------------------------------------------------------
(* Sequences put together from pieces.                                     *)

\* What holds of the empty sequence, and of a sequence with one more element
\* behind it, holds of all sequences.
LEMMA GrowSeq ==
    ASSUME NEW S, NEW T, <<>> \in T, \A s \in Seq(S), x \in S : s \in T => Append(s, x) \in T
    PROVE  Seq(S) \subseteq T
<1> SUFFICES ASSUME NEW s \in Seq(S) PROVE s \in T
  OBVIOUS
<1> DEFINE N == Len(s)
           p == [n \in 0..N |-> SubSeq(s, 1, n)]
           P == {n \in 0..N : p[n] \in T}
<1>1. N \in Nat /\ \A i \in 1..N : s[i] \in S
  BY LenProperties
<1>2. 0 \in P
  <2>1. p[0] = <<>> /\ 0 \in 0..N
    BY <1>1
  <2> HIDE DEF p
  <2> QED BY <2>1
<1>3. \A n \in 0..(N - 1) : n \in P => n + 1 \in P
  <2> TAKE n \in 0..(N - 1)
  <2> HAVE n \in P
  <2>1. p[n] \in Seq(S) /\ s[n + 1] \in S /\ n + 1 \in 0..N
    BY <1>1
  <2>2. p[n + 1] = Append(p[n], s[n + 1])
    BY <1>1
  <2> HIDE DEF p
  <2> QED BY <2>1, <2>2
<1>4. 0..N \subseteq P
  <2> HIDE DEF P, N
  <2> QED BY <1>1, <1>2, <1>3, Climb
<1>5. p[N] = s /\ N \in 0..N
  BY <1>1
<1> QED
  <2> HIDE DEF p
  <2> QED BY <1>4, <1>5

\* The function that FlattenSeq defines by recursion.
Flattens(ss, f) ==
    f = [i \in 1..Len(ss) |-> IF i = 1 THEN ss[i] ELSE f[i - 1] \o ss[i]]

\* There is one.
LEMMA FlattensSome ==
    ASSUME NEW S, NEW ss \in Seq(S)
    PROVE  \E f : Flattens(ss, f)
<1> DEFINE T == {s \in Seq(S) : \E f : Flattens(s, f)}
<1>1. <<>> \in T
  <2> DEFINE f == [i \in 1..Len(<<>>) |-> <<>>]
  <2>1. Flattens(<<>>, f)
    BY DEF Flattens
  <2> QED BY <2>1
<1>2. \A s \in Seq(S), x \in S : s \in T => Append(s, x) \in T
  <2> TAKE s \in Seq(S), x \in S
  <2> HAVE s \in T
  <2>1. PICK f : Flattens(s, f)
    OBVIOUS
  <2> DEFINE n == Len(s)
             t == Append(s, x)
             g == [i \in 1..(n + 1) |-> IF i <= n THEN f[i]
                                         ELSE IF i = 1 THEN x ELSE f[i - 1] \o x]
  <2>2. n \in Nat /\ t \in Seq(S) /\ Len(t) = n + 1 /\ t[n + 1] = x /\ \A i \in 1..n : t[i] = s[i]
    BY PushPop
  <2>3. \A i \in 1..n : f[i] = IF i = 1 THEN s[i] ELSE f[i - 1] \o s[i]
    BY <2>1 DEF Flattens
  <2> HIDE DEF t, n
  <2>4. \A i \in 1..(n + 1) : g[i] = IF i = 1 THEN t[i] ELSE g[i - 1] \o t[i]
    <3> TAKE i \in 1..(n + 1)
    <3>1. CASE i = 1
      BY <2>2, <2>3, <3>1
    <3>2. CASE i # 1 /\ i <= n
      <4>1. i \in 1..n /\ i - 1 \in 1..n /\ i - 1 \in 1..(n + 1) /\ i - 1 <= n
        BY <2>2, <3>2
      <4>2. g[i - 1] = f[i - 1] /\ g[i] = f[i] /\ t[i] = s[i]
        BY <2>2, <3>2, <4>1
      <4> HIDE DEF g
      <4> QED BY <2>3, <3>2, <4>1, <4>2
    <3>3. CASE i # 1 /\ i = n + 1
      <4>1. i - 1 \in 1..n
        BY <2>2, <3>3
      <4>2. g[i - 1] = f[i - 1] /\ g[i] = f[i - 1] \o x
        BY <2>2, <3>3, <4>1
      <4> QED BY <2>2, <3>3, <4>2
    <3> QED BY <2>2, <3>1, <3>2, <3>3
  <2>5. g = [i \in 1..Len(t) |-> IF i = 1 THEN t[i] ELSE g[i - 1] \o t[i]]
    <3>1. g = [i \in 1..(n + 1) |-> g[i]]
      OBVIOUS
    <3> HIDE DEF g
    <3> QED BY <2>2, <2>4, <3>1
  <2>6. Flattens(t, g)
    BY <2>5 DEF Flattens
  <2> QED BY <2>2, <2>6 DEF t
<1> QED
  <2> HIDE DEF T
  <2>1. Seq(S) \subseteq T BY <1>1, <1>2, GrowSeq
  <2> QED BY <2>1 DEF T

\* FlattenSeq is the last value of one.
LEMMA FlattenIs ==
    ASSUME NEW S, NEW ss \in Seq(S), ss # <<>>
    PROVE  \E f : Flattens(ss, f) /\ FlattenSeq(ss) = f[Len(ss)]
<1> DEFINE f == CHOOSE f : Flattens(ss, f)
<1>1. Flattens(ss, f)
  BY FlattensSome
<1>2. Len(ss) # 0
  OBVIOUS
<1>3. FlattenSeq(ss) = f[Len(ss)]
  BY <1>2 DEF FlattenSeq, Flattens
<1> QED
  BY <1>1, <1>3

\* The first n of two sequences of sequences are the same.
Alike(ss, tt, n) ==
    /\ n \in Nat /\ Len(ss) \in Nat /\ Len(tt) \in Nat
    /\ n <= Len(ss) /\ n <= Len(tt) /\ \A i \in 1..n : ss[i] = tt[i]

\* Then both are flattened to the same.
LEMMA FlattensAgree ==
    ASSUME NEW ss, NEW tt, NEW f, NEW g, NEW n,
           Flattens(ss, f), Flattens(tt, g), Alike(ss, tt, n)
    PROVE  \A i \in 1..n : f[i] = g[i]
<1>0. /\ n \in Nat /\ Len(ss) \in Nat /\ Len(tt) \in Nat
      /\ n <= Len(ss) /\ n <= Len(tt) /\ \A i \in 1..n : ss[i] = tt[i]
  BY DEF Alike
<1> DEFINE T == {k \in 0..n : \A i \in 1..k : f[i] = g[i]}
<1>1. /\ \A i \in 1..n : f[i] = IF i = 1 THEN ss[i] ELSE f[i - 1] \o ss[i]
      /\ \A i \in 1..n : g[i] = IF i = 1 THEN ss[i] ELSE g[i - 1] \o ss[i]
  <2>2. \A i \in 1..n : i \in 1..Len(ss) /\ i \in 1..Len(tt)
    BY <1>0
  <2> QED BY <1>0, <2>2 DEF Flattens
<1>2. 0 \in T
  BY <1>0
<1>3. \A k \in 0..(n - 1) : k \in T => k + 1 \in T
  <2> TAKE k \in 0..(n - 1)
  <2> HAVE k \in T
  <2>1. k + 1 \in 1..n /\ k + 1 \in 0..n /\ (k + 1 # 1 => (k + 1) - 1 \in 1..k)
    BY <1>0
  <2>2. k + 1 # 1 => f[(k + 1) - 1] = g[(k + 1) - 1]
    BY <2>1
  <2>3. f[k + 1] = g[k + 1]
    BY <1>1, <2>1, <2>2
  <2>4. \A i \in 1..(k + 1) : i \in 1..k \/ i = k + 1
    OBVIOUS
  <2> QED BY <2>1, <2>3, <2>4
<1>4. 0..n \subseteq T
  <2> HIDE DEF T
  <2> QED BY <1>0, <1>2, <1>3, Climb
<1>5. n \in 0..n
  BY <1>0
<1> QED
  BY <1>4, <1>5

\* One sequence more.
LEMMA FlattenAppend ==
    ASSUME NEW S, NEW ss \in Seq(Seq(S)), NEW s \in Seq(S)
    PROVE  FlattenSeq(Append(ss, s)) = IF ss = <<>> THEN s ELSE FlattenSeq(ss) \o s
<1> DEFINE tt == Append(ss, s)  n == Len(ss)
<1>1. /\ n \in Nat /\ tt \in Seq(Seq(S)) /\ tt # <<>> /\ Len(tt) = n + 1 /\ tt[n + 1] = s
      /\ \A i \in 1..n : tt[i] = ss[i]
  BY PushPop
<1> HIDE DEF tt
<1>2. PICK g : Flattens(tt, g) /\ FlattenSeq(tt) = g[n + 1]
  BY <1>1, FlattenIs
<1>3. CASE n = 0
  <2>1. g[1] = s
    BY <1>1, <1>2, <1>3 DEF Flattens
  <2> QED BY <1>2, <1>3, <2>1 DEF tt
<1>4. CASE n # 0
  <2>1. ss # <<>>
    BY <1>4
  <2>2. PICK f : Flattens(ss, f) /\ FlattenSeq(ss) = f[n]
    BY <2>1, FlattenIs
  <2>3. \A i \in 1..n : f[i] = g[i]
    <3>1. Alike(ss, tt, n)
      BY <1>1 DEF Alike
    <3> HIDE DEF n
    <3> QED BY <1>2, <2>2, <3>1, FlattensAgree
  <2>4. g[n + 1] = g[n] \o s
    <3>1. n + 1 \in 1..Len(tt) /\ n + 1 # 1 /\ (n + 1) - 1 = n
      BY <1>1, <1>4
    <3> QED BY <1>1, <1>2, <3>1 DEF Flattens
  <2>5. n \in 1..n
    BY <1>1, <1>4
  <2> QED BY <1>2, <2>1, <2>2, <2>3, <2>4, <2>5 DEF tt
<1> QED
  BY <1>3, <1>4

\* What a code spells: each element of a sequence by a sequence of its own.
Spell(code, t) == FlattenSeq([k \in 1..Len(t) |-> code[t[k]]])

\* Nothing is spelled by nothing.
LEMMA SpellNone ==
    ASSUME NEW code
    PROVE  Spell(code, <<>>) = <<>>
BY DEF Spell, FlattenSeq

\* One element more.
LEMMA SpellPush ==
    ASSUME NEW C, NEW S, NEW code \in [C -> Seq(S)]
    PROVE  /\ \A t \in Seq(C) : Spell(code, t) \in Seq(S)
           /\ \A t \in Seq(C), c \in C : Spell(code, Append(t, c)) = Spell(code, t) \o code[c]
<1> DEFINE map(t) == [k \in 1..Len(t) |-> code[t[k]]]
<1>1. \A t \in Seq(C) : map(t) \in Seq(Seq(S))
  OBVIOUS
<1>2. \A t \in Seq(C), c \in C : map(Append(t, c)) = Append(map(t), code[c])
  OBVIOUS
<1>3. \A t \in Seq(C), c \in C :
         Spell(code, Append(t, c)) = IF t = <<>> THEN code[c] ELSE Spell(code, t) \o code[c]
  <2> TAKE t \in Seq(C), c \in C
  <2>1. map(t) = <<>> <=> t = <<>>
    <3>1. Len(t) \in Nat /\ Len(map(t)) = Len(t) /\ map(t) \in Seq(Seq(S))
      BY <1>1
    <3>2. (map(t) = <<>> <=> Len(map(t)) = 0) /\ (t = <<>> <=> Len(t) = 0)
      <4> HIDE DEF map
      <4> QED BY <3>1, EmptySeq
    <3> QED BY <3>1, <3>2
  <2>2. code[c] \in Seq(S)
    OBVIOUS
  <2>3. FlattenSeq(Append(map(t), code[c])) =
           IF map(t) = <<>> THEN code[c] ELSE FlattenSeq(map(t)) \o code[c]
    <3>1. map(t) \in Seq(Seq(S))
      BY <1>1
    <3> HIDE DEF map
    <3> QED BY <2>2, <3>1, FlattenAppend
  <2>4. Spell(code, t) = FlattenSeq(map(t)) /\ Spell(code, Append(t, c)) = FlattenSeq(map(Append(t, c)))
    BY DEF Spell
  <2> QED
    <3> HIDE DEF map
    <3> QED BY <1>2, <2>1, <2>3, <2>4
<1> HIDE DEF map
<1> DEFINE T == {t \in Seq(C) : Spell(code, t) \in Seq(S)}
<1>4. <<>> \in T
  <2>1. Spell(code, <<>>) = <<>> /\ <<>> \in Seq(C) /\ <<>> \in Seq(S)
    BY SpellNone
  <2> QED BY <2>1
<1>5. \A t \in Seq(C), c \in C : t \in T => Append(t, c) \in T
  <2> TAKE t \in Seq(C), c \in C
  <2> HAVE t \in T
  <2>1. code[c] \in Seq(S) /\ Spell(code, t) \in Seq(S) /\ Append(t, c) \in Seq(C)
    OBVIOUS
  <2>2. Spell(code, Append(t, c)) = code[c] \/ Spell(code, Append(t, c)) = Spell(code, t) \o code[c]
    BY <1>3
  <2>3. Spell(code, t) \o code[c] \in Seq(S)
    BY <2>1, ConcatProperties
  <2> QED BY <2>1, <2>2, <2>3
<1>6. Seq(C) \subseteq T
  <2> HIDE DEF T
  <2> QED BY <1>4, <1>5, GrowSeq
<1>7. \A t \in Seq(C), c \in C : Spell(code, Append(t, c)) = Spell(code, t) \o code[c]
  <2> TAKE t \in Seq(C), c \in C
  <2>1. CASE t = <<>>
    <3>1. Spell(code, t) = <<>> /\ code[c] \in Seq(S)
      BY <2>1, SpellNone
    <3>2. Spell(code, Append(t, c)) = code[c]
      BY <1>3, <2>1
    <3>3. <<>> \o code[c] = code[c]
      BY <3>1
    <3> QED BY <3>1, <3>2, <3>3
  <2>2. CASE t # <<>>
    BY <1>3, <2>2
  <2> QED BY <2>1, <2>2
<1> QED
  BY <1>6, <1>7

\* A code spells a piece after a piece.
LEMMA SpellConcat ==
    ASSUME NEW C, NEW S, NEW code \in [C -> Seq(S)], NEW s \in Seq(C), NEW t \in Seq(C)
    PROVE  Spell(code, s \o t) = Spell(code, s) \o Spell(code, t)
<1>0. /\ \A u \in Seq(C) : Spell(code, u) \in Seq(S)
      /\ \A u \in Seq(C), c \in C : Spell(code, Append(u, c)) = Spell(code, u) \o code[c]
  BY SpellPush
<1> DEFINE T == {u \in Seq(C) : Spell(code, s \o u) = Spell(code, s) \o Spell(code, u)}
<1>1. <<>> \in T
  <2>1. s \o <<>> = s
    OBVIOUS
  <2>2. Spell(code, s) \o <<>> = Spell(code, s)
    <3>1. Spell(code, s) \in Seq(S)
      BY <1>0
    <3> QED BY <3>1
  <2>3. Spell(code, <<>>) = <<>> /\ <<>> \in Seq(C)
    BY SpellNone
  <2> QED BY <2>1, <2>2, <2>3
<1>2. \A u \in Seq(C), c \in C : u \in T => Append(u, c) \in T
  <2> TAKE u \in Seq(C), c \in C
  <2> HAVE u \in T
  <2>1. s \o Append(u, c) = Append(s \o u, c) /\ s \o u \in Seq(C) /\ Append(u, c) \in Seq(C)
    OBVIOUS
  <2>2. Spell(code, Append(s \o u, c)) = Spell(code, s \o u) \o code[c]
    BY <1>0, <2>1
  <2>3. Spell(code, Append(u, c)) = Spell(code, u) \o code[c]
    BY <1>0
  <2>4. (Spell(code, s) \o Spell(code, u)) \o code[c] = Spell(code, s) \o (Spell(code, u) \o code[c])
    <3>1. Spell(code, s) \in Seq(S) /\ Spell(code, u) \in Seq(S) /\ code[c] \in Seq(S)
      BY <1>0
    <3> QED BY SMTT(60), <3>1, ConcatAssociative
  <2> QED BY <2>1, <2>2, <2>3, <2>4
<1>3. Seq(C) \subseteq T
  <2> HIDE DEF T
  <2> QED BY <1>1, <1>2, GrowSeq
<1> QED
  BY <1>3

\* One element is spelled as the code says.
LEMMA SpellOne ==
    ASSUME NEW C, NEW S, NEW code \in [C -> Seq(S)], NEW c \in C
    PROVE  Spell(code, <<c>>) = code[c]
<1>1. <<c>> = Append(<<>>, c) /\ <<>> \in Seq(C) /\ code[c] \in Seq(S)
  OBVIOUS
<1>2. Spell(code, Append(<<>>, c)) = Spell(code, <<>>) \o code[c]
  <2>1. \A t \in Seq(C), x \in C : Spell(code, Append(t, x)) = Spell(code, t) \o code[x]
    BY SpellPush
  <2> QED BY <1>1, <2>1
<1>3. <<>> \o code[c] = code[c]
  BY <1>1
<1> QED
  BY <1>1, <1>2, <1>3, SpellNone

\* What is counted in two pieces is counted in both together.
LEMMA CountConcat ==
    ASSUME NEW S, NEW F, NEW s \in Seq(S), NEW t \in Seq(S)
    PROVE  Count(s \o t, F) = Count(s, F) + Count(t, F)
<1> DEFINE T == {u \in Seq(S) : Count(s \o u, F) = Count(s, F) + Count(u, F)}
<1>1. \A u \in Seq(S), x \in S :
         /\ Count(u, F) \in Nat
         /\ Count(Append(u, x), F) = IF x \in F THEN Count(u, F) + 1 ELSE Count(u, F)
  BY CountPush
<1>2. CASE S = {}
  <2>1. s = <<>> /\ t = <<>>
    <3>1. Len(s) \in Nat /\ Len(t) \in Nat /\ (Len(s) # 0 => s[1] \in S) /\ (Len(t) # 0 => t[1] \in S)
      BY LenProperties
    <3> QED BY <1>2, <3>1, EmptySeq
  <2>2. Count(<<>>, F) = 0
    BY FS_EmptySet DEF Count
  <2> QED BY <2>1, <2>2
<1>3. CASE S # {}
  <2>1. \A u \in Seq(S) : Count(u, F) \in Nat
    BY <1>1, <1>3
  <2>2. <<>> \in T
    <3>1. s \o <<>> = s /\ <<>> \in Seq(S)
      OBVIOUS
    <3>2. Count(<<>>, F) = 0
      BY FS_EmptySet DEF Count
    <3>3. Count(s, F) = Count(s, F) + 0
      BY <2>1
    <3> QED BY <3>1, <3>2, <3>3
  <2>3. \A u \in Seq(S), x \in S : u \in T => Append(u, x) \in T
    <3> TAKE u \in Seq(S), x \in S
    <3> HAVE u \in T
    <3>1. s \o Append(u, x) = Append(s \o u, x) /\ s \o u \in Seq(S) /\ Append(u, x) \in Seq(S)
      OBVIOUS
    <3>2. Count(Append(s \o u, x), F) = IF x \in F THEN Count(s \o u, F) + 1 ELSE Count(s \o u, F)
      BY <1>1, <3>1
    <3>3. Count(Append(u, x), F) = IF x \in F THEN Count(u, F) + 1 ELSE Count(u, F)
      BY <1>1
    <3>4. Count(s, F) \in Nat /\ Count(u, F) \in Nat
      BY <2>1
    <3>5. Count(s \o u, F) = Count(s, F) + Count(u, F)
      OBVIOUS
    <3>6. Count(Append(s \o u, x), F) = Count(s, F) + Count(Append(u, x), F)
      <4> DEFINE a == Count(s, F)  b == Count(u, F)
      <4> HIDE DEF a, b
      <4>1. /\ Count(Append(s \o u, x), F) = IF x \in F THEN (a + b) + 1 ELSE a + b
            /\ Count(Append(u, x), F) = IF x \in F THEN b + 1 ELSE b
            /\ a \in Nat /\ b \in Nat
        BY <3>2, <3>3, <3>4, <3>5 DEF a, b
      <4>2. Count(Append(s \o u, x), F) = a + Count(Append(u, x), F)
        BY <4>1
      <4> QED BY <4>2 DEF a
    <3>7. Count(s \o Append(u, x), F) = Count(s, F) + Count(Append(u, x), F)
      BY <3>1, <3>6
    <3> QED BY <3>1, <3>7
  <2>4. Seq(S) \subseteq T
    <3> HIDE DEF T
    <3> QED BY <2>2, <2>3, GrowSeq
  <2> QED BY <2>4
<1> QED
  BY <1>2, <1>3

\* The elements before the end of a piece are its own.
LEMMA FrontOfConcat ==
    ASSUME NEW S, NEW s \in Seq(S), NEW t \in Seq(S)
    PROVE  /\ \A i \in 1..Len(s) : (s \o t)[i] = s[i]
           /\ SubSeq(s \o t, 1, Len(s)) = s
           /\ SubSeq(s \o t, Len(s) + 1, Len(s \o t)) = t
           /\ Len(s \o t) = Len(s) + Len(t)
<1> DEFINE u == s \o t
<1>1. /\ u \in Seq(S) /\ Len(u) = Len(s) + Len(t) /\ Len(s) \in Nat /\ Len(t) \in Nat
      /\ \A i \in 1..Len(s) : u[i] = s[i]
      /\ \A i \in 1..Len(t) : u[Len(s) + i] = t[i]
  OBVIOUS
<1> HIDE DEF u
<1>2. SubSeq(u, 1, Len(s)) = s
  <2> DEFINE v == SubSeq(u, 1, Len(s))
  <2>1. v \in Seq(S) /\ Len(v) = Len(s) /\ \A i \in 1..Len(s) : v[i] = s[i]
    BY <1>1
  <2> HIDE DEF v
  <2>2. v = s
    BY <2>1, SeqEqual
  <2> QED BY <2>2 DEF v
<1>3. SubSeq(u, Len(s) + 1, Len(u)) = t
  <2> DEFINE v == SubSeq(u, Len(s) + 1, Len(u))
  <2>1. v \in Seq(S) /\ Len(v) = Len(t) /\ \A i \in 1..Len(t) : v[i] = t[i]
    BY <1>1
  <2> HIDE DEF v
  <2>2. v = t
    BY <2>1, SeqEqual
  <2> QED BY <2>2 DEF v
<1> QED
  BY <1>1, <1>2, <1>3 DEF u

\* A sequence cut in two.
LEMMA CutInTwo ==
    ASSUME NEW S, NEW s \in Seq(S), NEW n \in 0..Len(s)
    PROVE  /\ s = SubSeq(s, 1, n) \o SubSeq(s, n + 1, Len(s))
           /\ SubSeq(s, 1, n) \in Seq(S) /\ Len(SubSeq(s, 1, n)) = n
           /\ SubSeq(s, n + 1, Len(s)) \in Seq(S) /\ Len(SubSeq(s, n + 1, Len(s))) = Len(s) - n
<1> DEFINE a == SubSeq(s, 1, n)  b == SubSeq(s, n + 1, Len(s))
<1>1. /\ Len(s) \in Nat /\ a \in Seq(S) /\ Len(a) = n /\ \A i \in 1..n : a[i] = s[i]
      /\ b \in Seq(S) /\ Len(b) = Len(s) - n /\ \A i \in 1..(Len(s) - n) : b[i] = s[n + i]
  OBVIOUS
<1> HIDE DEF a, b
<1> DEFINE u == a \o b
<1>2. u \in Seq(S) /\ Len(u) = Len(s) /\ \A i \in 1..Len(s) : u[i] = IF i <= n THEN a[i] ELSE b[i - n]
  BY <1>1
<1> HIDE DEF u
<1>3. \A i \in 1..Len(s) : u[i] = s[i]
  BY <1>1, <1>2
<1>4. u = s
  BY <1>2, <1>3, SeqEqual
<1> QED
  BY <1>1, <1>4 DEF a, b, u

\* A sequence that is not empty has a first element.
LEMMA HeadAndTail ==
    ASSUME NEW S, NEW s \in Seq(S), s # <<>>
    PROVE  /\ Head(s) \in S /\ Tail(s) \in Seq(S) /\ s = <<Head(s)>> \o Tail(s)
           /\ Head(s) = s[1] /\ Len(Tail(s)) = Len(s) - 1 /\ Len(s) \in Nat \ {0}
OBVIOUS

\* A sequence cut at two places.
LEMMA MiddleOf ==
    ASSUME NEW S, NEW s \in Seq(S), NEW i \in 0..Len(s), NEW n \in 0..(Len(s) - i)
    PROVE  /\ SubSeq(s, i + 1, Len(s)) = SubSeq(s, i + 1, i + n) \o SubSeq(s, i + n + 1, Len(s))
           /\ SubSeq(s, i + 1, i + n) \in Seq(S) /\ Len(SubSeq(s, i + 1, i + n)) = n
           /\ SubSeq(s, i + n + 1, Len(s)) \in Seq(S)
<1> DEFINE a == SubSeq(s, i + 1, i + n)  b == SubSeq(s, i + n + 1, Len(s))
           c == SubSeq(s, i + 1, Len(s))  N == Len(s)
<1>1. N \in Nat /\ i \in Nat /\ n \in Nat /\ i + n <= N
  OBVIOUS
<1>2. a \in Seq(S) /\ Len(a) = n /\ \A k \in 1..n : a[k] = s[i + k]
  <2>1. \A k \in (i + 1)..(i + n) : s[k] \in S
    BY <1>1, LenProperties
  <2> QED BY <1>1, <2>1
<1>3. b \in Seq(S) /\ Len(b) = N - (i + n) /\ \A k \in 1..(N - (i + n)) : b[k] = s[(i + n) + k]
  <2> DEFINE j == i + n
  <2>1. j \in 0..N
    BY <1>1
  <2>2. \A k \in (j + 1)..N : s[k] \in S
    BY <1>1, <2>1, LenProperties
  <2>3. b = SubSeq(s, j + 1, N)
    BY <1>1
  <2> HIDE DEF j, b
  <2>4. b \in Seq(S) /\ Len(b) = N - j /\ \A k \in 1..(N - j) : b[k] = s[j + k]
    BY <1>1, <2>1, <2>2, <2>3
  <2> QED BY <2>4 DEF j
<1>4. c \in Seq(S) /\ Len(c) = N - i /\ \A k \in 1..(N - i) : c[k] = s[i + k]
  <2>1. \A k \in (i + 1)..N : s[k] \in S
    BY <1>1, LenProperties
  <2> QED BY <1>1, <2>1
<1> HIDE DEF a, b, c, N
<1> DEFINE u == a \o b
<1>5. u \in Seq(S) /\ Len(u) = N - i /\ \A k \in 1..(N - i) : u[k] = IF k <= n THEN a[k] ELSE b[k - n]
  BY SMTT(60), <1>1, <1>2, <1>3
<1> HIDE DEF u
<1>6. \A k \in 1..(N - i) : u[k] = c[k]
  <2> SUFFICES ASSUME NEW k \in 1..(N - i) PROVE u[k] = c[k]
    OBVIOUS
  <2>1. CASE k <= n
    <3>1. k \in 1..n /\ k \in 1..(N - i)
      BY <1>1, <2>1
    <3>2. a[k] = s[i + k] /\ c[k] = s[i + k]
      BY <1>2, <1>4, <3>1
    <3> QED BY <1>5, <2>1, <3>2
  <2>2. CASE ~ k <= n
    <3>1. k - n \in 1..(N - (i + n)) /\ (i + n) + (k - n) = i + k
      BY <1>1, <2>2
    <3>2. b[k - n] = s[(i + n) + (k - n)]
      BY <1>3, <3>1
    <3> QED BY <1>4, <1>5, <2>2, <3>1, <3>2
  <2> QED BY <2>1, <2>2
<1>7. u = c
  BY <1>4, <1>5, <1>6, SeqEqual
<1> QED
  BY <1>2, <1>3, <1>7 DEF a, b, c, u, N

\* Sequences of sequences are flattened piece by piece.
LEMMA FlattenConcat ==
    ASSUME NEW S, NEW Q, Q \subseteq Seq(S), NEW ss \in Seq(Q), NEW tt \in Seq(Q)
    PROVE  /\ FlattenSeq(ss \o tt) = FlattenSeq(ss) \o FlattenSeq(tt)
           /\ FlattenSeq(ss) \in Seq(S)
<1> DEFINE code == [x \in Q |-> x]
<1>1. code \in [Q -> Seq(S)]
  OBVIOUS
<1>2. \A uu \in Seq(Q) : Spell(code, uu) = FlattenSeq(uu)
  <2> TAKE uu \in Seq(Q)
  <2>1. \A k \in 1..Len(uu) : code[uu[k]] = uu[k]
    BY LenProperties
  <2>2. [k \in 1..Len(uu) |-> code[uu[k]]] = [k \in 1..Len(uu) |-> uu[k]]
    BY <2>1
  <2>3. uu = [k \in 1..Len(uu) |-> uu[k]]
    BY LenProperties
  <2> QED BY <2>2, <2>3 DEF Spell
<1> HIDE DEF code
<1>4. ss \o tt \in Seq(Q)
  BY ConcatProperties
<1>5. Spell(code, ss \o tt) = Spell(code, ss) \o Spell(code, tt)
  BY <1>1, SpellConcat
<1>6. Spell(code, ss) \in Seq(S)
  BY <1>1, SpellPush
<1> QED
  BY <1>2, <1>4, <1>5, <1>6

\* The front of two pieces is a prefix of both together.
LEMMA PrefixOfConcat ==
    ASSUME NEW S, NEW s \in Seq(S), NEW t \in Seq(S)
    PROVE  IsPrefix(s, s \o t)
<1>1. Len(s \o t) = Len(s) + Len(t) /\ SubSeq(s \o t, 1, Len(s)) = s
  BY FrontOfConcat
<1>2. Len(s) \in Nat /\ Len(t) \in Nat
  OBVIOUS
<1>3. Len(s) <= Len(s \o t)
  BY <1>1, <1>2
<1>4. SubSeq(s, 1, Len(s)) = s
  <2>1. Len(s) \in 0..Len(s)
    BY <1>2
  <2> DEFINE n == Len(s)  x == SubSeq(s, 1, n)
  <2>2. x \in Seq(S) /\ Len(x) = n /\ \A i \in 1..n : x[i] = s[i]
    BY <1>2
  <2> HIDE DEF x
  <2>3. x = s
    BY <2>2, SeqEqual
  <2> QED BY <2>3 DEF x
<1> QED
  BY <1>1, <1>3, <1>4 DEF IsPrefix

\* Two pairs are a sequence of four.
LEMMA TwoPairs ==
    ASSUME NEW S, NEW a \in S, NEW b \in S, NEW c \in S, NEW d \in S
    PROVE  <<a, b>> \o <<c, d>> = <<a, b, c, d>>
<1> DEFINE x == <<a, b>>  y == <<c, d>>  z == <<a, b, c, d>>
<1>1. x \in Seq(S) /\ Len(x) = 2 /\ x[1] = a /\ x[2] = b
  OBVIOUS
<1>2. y \in Seq(S) /\ Len(y) = 2 /\ y[1] = c /\ y[2] = d
  OBVIOUS
<1>3. z \in Seq(S) /\ Len(z) = 4 /\ z[1] = a /\ z[2] = b /\ z[3] = c /\ z[4] = d
  OBVIOUS
<1> HIDE DEF x, y, z
<1> DEFINE u == x \o y
<1>4. u \in Seq(S) /\ Len(u) = 4
  <2>1. u \in Seq(S) /\ Len(u) = Len(x) + Len(y)
    BY <1>1, <1>2, ConcatProperties
  <2> QED BY <1>1, <1>2, <2>1
<1>5. u[1] = x[1] /\ u[2] = x[2] /\ u[3] = y[1] /\ u[4] = y[2]
  <2>1. \A i \in 1 .. Len(x) + Len(y) : u[i] = IF i <= Len(x) THEN x[i] ELSE y[i - Len(x)]
    BY <1>1, <1>2, ConcatProperties
  <2> HIDE DEF u
  <2> QED BY <1>1, <1>2, <1>4, <2>1
<1> HIDE DEF u
<1>6. \A i \in 1 .. 4 : u[i] = z[i]
  BY <1>1, <1>2, <1>3, <1>5
<1>7. u = z
  BY <1>3, <1>4, <1>6, SeqEqual
<1> QED
  BY <1>7 DEF u, x, y, z

=============================================================================

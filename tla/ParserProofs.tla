---------------------------- MODULE ParserProofs ----------------------------
(***************************************************************************)
(* Proofs about the parser, for every alphabet, every set of tag handles   *)
(* and streams of every length.                                            *)
(*                                                                         *)
(* Every handler ends in one of a few ways, which Failed, Moved and        *)
(* Entered name: what a handler does to the two stacks is proved once (the *)
(* Outcome and Step lemmas), what that does to the invariants and to the   *)
(* stream of events once more (StepKeeps, StepRefines).                    *)
(***************************************************************************)
EXTENDS Parser, ProofLemmas

-----------------------------------------------------------------------------
(* Marks and states under the stack operations.                            *)

\* A first entry pushes the mark of its own frame.
LEMMA MarksOpen ==
    ASSUME NEW mks \in Seq(Nat), NEW sts \in Seq(States), NEW st, NEW to,
           MarksFit(mks, sts, st), st \notin MarkedStates, to \in MarkedStates
    PROVE  MarksFit(Append(mks, Len(sts) + 1), sts, to)
<1> DEFINE m == Append(mks, Len(sts) + 1)
<1>1. /\ m \in Seq(Nat)
      /\ Len(m) = Len(mks) + 1
      /\ \A i \in 1..Len(mks) : m[i] = mks[i]
      /\ m[Len(mks) + 1] = Len(sts) + 1
  BY PushPop
<1>2. \A i \in 1..Len(mks) : mks[i] \in 1..Len(sts)
  BY DEF MarksFit
<1> HIDE DEF m
<1>0. Len(mks) \in Nat /\ Len(sts) \in Nat
  BY LenProperties
<1>3. \A i, j \in 1..Len(m) : i < j => m[i] < m[j]
  <2> SUFFICES ASSUME NEW i \in 1..Len(m), NEW j \in 1..Len(m), i < j
               PROVE  m[i] < m[j]
    OBVIOUS
  <2>1. i \in 1..Len(mks) /\ m[i] = mks[i] /\ mks[i] \in 1..Len(sts)
    <3>1. i \in 1..Len(mks)
      <4>1. Len(m) = Len(mks) + 1
        BY <1>1
      <4> QED BY SMTT(30), <1>0, <4>1
    <3> QED BY Zenon, <1>1, <1>2, <3>1
  <2>2. CASE j = Len(mks) + 1
    BY <1>0, <1>1, <2>1, <2>2
  <2>3. CASE j \in 1..Len(mks)
    BY <1>0, <1>1, <2>1, <2>3 DEF MarksFit
  <2> QED
    BY <1>0, <1>1, <2>2, <2>3
<1>4. \A i \in 1..Len(m) : m[i] \in 1..(Len(sts) + 1)
  <2> TAKE i \in 1..Len(m)
  <2>1. CASE i = Len(mks) + 1
    BY <1>0, <1>1, <2>1
  <2>2. CASE i \in 1..Len(mks)
    <3>1. m[i] = mks[i] /\ mks[i] \in 1..Len(sts)
      BY <1>1, <1>2, <2>2
    <3> QED BY <1>0, <3>1
  <2> QED BY <1>0, <1>1, <2>1, <2>2
<1>5. \A f \in 1..Len(sts) : sts[f] \in MarkedStates <=> \E i \in 1..Len(m) : m[i] = f
  <2> TAKE f \in 1..Len(sts)
  <2>1. sts[f] \in MarkedStates <=> \E i \in 1..Len(mks) : mks[i] = f
    BY DEF MarksFit
  <2>2. \A i \in 1..Len(m) : m[i] = f => i \in 1..Len(mks)
    <3> TAKE i \in 1..Len(m)
    <3>1. CASE i = Len(mks) + 1
      BY <1>0, <1>1, <3>1
    <3> QED BY <1>0, <1>1, <3>1
  <2>3. 1..Len(mks) \subseteq 1..Len(m)
    BY <1>0, <1>1
  <2> QED
    BY <1>1, <2>1, <2>2, <2>3
<1>6. \E i \in 1..Len(m) : m[i] = Len(sts) + 1
  BY <1>1
<1> QED
  BY <1>3, <1>4, <1>5, <1>6 DEF MarksFit, m

\* Going from one place to another of the same collection.
LEMMA MarksMove ==
    ASSUME NEW mks, NEW sts, NEW st, NEW to, MarksFit(mks, sts, st),
           st \in MarkedStates <=> to \in MarkedStates
    PROVE  MarksFit(mks, sts, to)
BY DEF MarksFit

\* Entering a collection whose opening token is still to be skipped.
LEMMA MarksPush ==
    ASSUME NEW mks \in Seq(Nat), NEW sts \in Seq(States), NEW st \in States, NEW to,
           MarksFit(mks, sts, st), to \notin MarkedStates
    PROVE  MarksFit(mks, Append(sts, st), to)
<1> DEFINE s == Append(sts, st)
<1>1. /\ s \in Seq(States)
      /\ Len(s) = Len(sts) + 1
      /\ \A i \in 1..Len(sts) : s[i] = sts[i]
      /\ s[Len(sts) + 1] = st
  BY PushPop
<1> HIDE DEF s
<1>2. \A i \in 1..Len(mks) : mks[i] \in 1..(Len(s) + 1) /\ mks[i] # Len(s) + 1
  BY <1>1 DEF MarksFit
<1>3. \A f \in 1..Len(s) : s[f] \in MarkedStates <=> \E i \in 1..Len(mks) : mks[i] = f
  <2> TAKE f \in 1..Len(s)
  <2>1. CASE f = Len(sts) + 1
    BY <1>1, <2>1 DEF MarksFit
  <2>2. CASE f \in 1..Len(sts)
    BY <1>1, <2>2 DEF MarksFit
  <2> QED
    BY <1>1, <2>1, <2>2
<1> QED
  BY <1>2, <1>3 DEF MarksFit, s

\* Closing a collection pops its mark and its frame.
LEMMA MarksClose ==
    ASSUME NEW mks \in Seq(Nat), NEW sts \in Seq(States), NEW st,
           MarksFit(mks, sts, st), st \in MarkedStates, sts # <<>>
    PROVE  /\ mks # <<>>
           /\ MarksFit(Front(mks), Front(sts), Last(sts))
<1>1. PICK k \in 1..Len(mks) : mks[k] = Len(sts) + 1
  BY DEF MarksFit
<1>2. k = Len(mks) /\ mks # <<>>
  <2>1. mks # <<>> /\ Len(mks) \in Nat \ {0}
    BY <1>1
  <2>2. CASE k < Len(mks)
    <3>1. mks[k] < mks[Len(mks)] /\ mks[Len(mks)] \in 1..(Len(sts) + 1)
      BY <2>1, <2>2 DEF MarksFit
    <3> QED
      BY <3>1, <1>1
  <2> QED
    BY <2>1, <2>2
<1> DEFINE m == Front(mks)  s == Front(sts)  n == Len(sts)
<1>3. /\ m \in Seq(Nat)
      /\ Len(m) = Len(mks) - 1
      /\ \A i \in 1..(Len(mks) - 1) : m[i] = mks[i]
  BY <1>2, PopFacts
<1>4. /\ n \in Nat \ {0}
      /\ s \in Seq(States)
      /\ Len(s) = n - 1
      /\ \A i \in 1..(n - 1) : s[i] = sts[i]
      /\ Last(sts) = sts[n]
  BY PopFacts
<1>5. Len(mks) \in Nat \ {0}
  BY <1>2, PopFacts
<1> HIDE DEF m, s
<1>5a. \A i \in 1..Len(m) : i < Len(mks) /\ i \in 1..Len(mks) /\ i \in 1..(Len(mks) - 1)
  BY <1>3, <1>5
<1>5b. \A i \in 1..Len(m) : m[i] = mks[i]
  BY <1>3, <1>5a
<1>6. \A i, j \in 1..Len(m) : i < j => m[i] < m[j]
  <2> SUFFICES ASSUME NEW i \in 1..Len(m), NEW j \in 1..Len(m), i < j
               PROVE  m[i] < m[j]
    OBVIOUS
  <2>1. i \in 1..Len(mks) /\ j \in 1..Len(mks) /\ m[i] = mks[i] /\ m[j] = mks[j]
    BY <1>5a, <1>5b
  <2> QED
    BY <2>1 DEF MarksFit
<1>7. \A i \in 1..Len(m) : m[i] \in 1..n
  <2> TAKE i \in 1..Len(m)
  <2>1. i < Len(mks) /\ i \in 1..Len(mks) /\ m[i] = mks[i]
    BY <1>5a, <1>5b
  <2>2. mks[i] < mks[Len(mks)] /\ mks[i] \in 1..(n + 1)
    BY <2>1, <1>5 DEF MarksFit
  <2> QED
    BY <2>1, <2>2, <1>1, <1>2, <1>4
<1>8. \A f \in 1..n : sts[f] \in MarkedStates <=> \E i \in 1..Len(m) : m[i] = f
  <2> TAKE f \in 1..n
  <2>1. sts[f] \in MarkedStates <=> \E i \in 1..Len(mks) : mks[i] = f
    BY DEF MarksFit
  <2>2. f # mks[Len(mks)]
    BY <1>1, <1>2, <1>4
  <2>3. \A i \in 1..Len(m) : i \in 1..Len(mks) /\ m[i] = mks[i]
    BY <1>5a, <1>5b
  <2>4. \A i \in 1..Len(mks) : mks[i] = f => i \in 1..Len(m)
    BY <2>2, <1>3, <1>5
  <2> QED
    BY <2>1, <2>3, <2>4
<1>9. MarksFit(m, s, Last(sts))
  <2>1. Len(s) + 1 = n /\ 1..Len(s) \subseteq 1..n /\ n \in 1..n
    BY <1>4
  <2>2. \A f \in 1..Len(s) : s[f] \in MarkedStates <=> \E i \in 1..Len(m) : m[i] = f
    BY <1>4, <1>8, <2>1
  <2>3. Last(sts) \in MarkedStates <=> \E i \in 1..Len(m) : m[i] = Len(s) + 1
    BY <1>4, <1>8, <2>1
  <2> QED
    BY <1>6, <1>7, <2>1, <2>2, <2>3 DEF MarksFit
<1> QED
  BY <1>2, <1>9 DEF m, s

\* Returning from a node, or from an indentless sequence, which has no mark.
LEMMA MarksPop ==
    ASSUME NEW mks \in Seq(Nat), NEW sts \in Seq(States), NEW st,
           MarksFit(mks, sts, st), st \notin MarkedStates, sts # <<>>
    PROVE  MarksFit(mks, Front(sts), Last(sts))
<1> DEFINE s == Front(sts)  n == Len(sts)
<1>1. /\ n \in Nat \ {0}
      /\ s \in Seq(States)
      /\ Len(s) = n - 1
      /\ \A i \in 1..(n - 1) : s[i] = sts[i]
      /\ Last(sts) = sts[n]
  BY PopFacts
<1> HIDE DEF s
<1>2. \A i \in 1..Len(mks) : mks[i] \in 1..n
  BY <1>1 DEF MarksFit
<1> QED
  BY SMTT(30), <1>1, <1>2 DEF MarksFit, s

\* Front never leaves the type, even of an empty stack.
LEMMA FrontType ==
    ASSUME NEW S, NEW s \in Seq(S)
    PROVE  Front(s) \in Seq(S)
<1>1. CASE s = <<>>
  <2>1. Len(s) - 1 \in Int /\ Len(s) - 1 < 1
    BY <1>1
  <2>2. SubSeq(s, 1, Len(s) - 1) = <<>>
    BY <2>1, SubSeqEmpty
  <2> QED
    BY <2>2 DEF Front
<1>2. CASE s # <<>>
  BY <1>2, PopFacts
<1> QED
  BY <1>1, <1>2

\* The stack of states when a node opens a collection inside another one.
LEMMA StatesPush ==
    ASSUME NEW sts \in Seq(States), NEW st, NEW after \in ReturnStates,
           NEW to \in FirstStates \cup {"INDENTLESS_SEQUENCE_ENTRY"},
           StatesFit(sts, st), sts # <<>>
    PROVE  StatesFit(Append(sts, after), to)
<1> DEFINE s == Append(sts, after)
<1>0. after \in States
  BY DEF ReturnStates, States
<1>1. /\ s # <<>>
      /\ Len(s) = Len(sts) + 1
      /\ \A i \in 1..Len(sts) : s[i] = sts[i]
      /\ s[Len(sts) + 1] = after
  BY <1>0, PushPop
<1>2. Len(sts) \in Nat \ {0}
  BY PopFacts
<1> HIDE DEF s
<1>3. s[1] = "DOCUMENT_END"
  BY <1>1, <1>2 DEF StatesFit
<1>4. \A i \in 2..Len(s) : s[i] \in ReturnStates
  <2> TAKE i \in 2..Len(s)
  <2>1. CASE i = Len(sts) + 1
    BY <1>1, <2>1
  <2>2. CASE i \in 2..Len(sts)
    BY <1>1, <2>2 DEF StatesFit
  <2> QED
    BY <1>1, <1>2, <2>1, <2>2
<1>5. to \notin BetweenStates /\ to \notin RootStates
  BY DEF BetweenStates, RootStates, FirstStates
<1> QED
  BY <1>1, <1>3, <1>4, <1>5 DEF StatesFit, s

\* Going on inside the same frame.
LEMMA StatesMove ==
    ASSUME NEW sts, NEW st, NEW to, StatesFit(sts, st), sts # <<>>,
           to \notin BetweenStates, to \notin RootStates
    PROVE  StatesFit(sts, to)
BY DEF StatesFit

\* POP(states) finds DOCUMENT_END or a place inside a collection.
LEMMA StatesPop ==
    ASSUME NEW sts \in Seq(States), NEW st, StatesFit(sts, st), sts # <<>>
    PROVE  /\ StatesFit(Front(sts), Last(sts))
           /\ Last(sts) \in ReturnStates \cup {"DOCUMENT_END"}
<1> DEFINE s == Front(sts)  n == Len(sts)
<1>1. /\ n \in Nat \ {0}
      /\ s \in Seq(States)
      /\ Len(s) = n - 1
      /\ \A i \in 1..(n - 1) : s[i] = sts[i]
      /\ Last(sts) = sts[n]
  BY PopFacts
<1> HIDE DEF s
<1>2. CASE n = 1
  <2>1. s = <<>> /\ Last(sts) = "DOCUMENT_END"
    BY <1>1, <1>2 DEF StatesFit
  <2>2. \A i \in 2..Len(s) : s[i] \in ReturnStates
    BY <1>1, <1>2
  <2> QED
    BY <2>1, <2>2 DEF StatesFit, BetweenStates, RootStates, s
<1>3. CASE n > 1
  <2>1. Last(sts) \in ReturnStates
    BY <1>1, <1>3 DEF StatesFit
  <2>2. s # <<>> /\ s[1] = "DOCUMENT_END"
    BY <1>1, <1>3 DEF StatesFit
  <2>3. \A i \in 2..Len(s) : s[i] \in ReturnStates
    BY <1>1, <1>3 DEF StatesFit
  <2>4. Last(sts) \notin BetweenStates /\ Last(sts) \notin RootStates
    BY <2>1 DEF ReturnStates, MarkedStates, BetweenStates, RootStates
  <2> QED
    BY <2>1, <2>2, <2>3, <2>4 DEF StatesFit, s
<1> QED
  BY <1>1, <1>2, <1>3

-----------------------------------------------------------------------------
(* How a call may end.                                                     *)

\* The variables a call writes keep their types.
StepTyped ==
    /\ tokens' \in Seq(Tokens)
    /\ state' \in States
    /\ states' \in Seq(States)
    /\ marks' \in Seq(Nat)
    /\ stream_end_produced' \in BOOLEAN
    /\ error' \in {"NO", "MEMORY", "SCANNER", "PARSER"}
    /\ event' \in Events
    /\ result' \in {"OK", "FAIL"}

\* An error was set, or, when STACK_INIT fails between two documents, nothing
\* was done at all.
Failed ==
    /\ event' = NoEvent
    /\ \/ error' # "NO"
       \/ /\ error' = "NO"
          /\ state \in BetweenStates
          /\ state' = state
          /\ states' = states
          /\ marks' = marks

Moved(to, sts, mks, types) ==
    /\ error' = "NO"
    /\ state' = to
    /\ states' = sts
    /\ marks' = mks
    /\ event'.type \in types

\* A collection was opened above sts; its opening token is next.
SequenceFirst == {"INDENTLESS_SEQUENCE_ENTRY", "BLOCK_SEQUENCE_FIRST_ENTRY",
                  "FLOW_SEQUENCE_FIRST_ENTRY"}
MappingFirst == {"BLOCK_MAPPING_FIRST_KEY", "FLOW_MAPPING_FIRST_KEY"}

Entered(sts, mks) ==
    /\ error' = "NO"
    /\ states' = sts
    /\ marks' = mks
    /\ tokens' # <<>>
    /\ Head(tokens').type \in DOMAIN CollectionState
    /\ state' = CollectionState[Head(tokens').type]
    /\ \/ state' \in SequenceFirst /\ event'.type = "SEQUENCE_START"
       \/ state' \in MappingFirst /\ event'.type = "MAPPING_START"

LeafTypes == {"SCALAR", "ALIAS"}

\* Taking tokens from the head of the queue (skip_token) keeps it a queue of tokens.
LEMMA SkipTyped ==
    ASSUME TypeOK, NEW in \in Seq(Tokens), skip_token(in)
    PROVE  tokens' \in Seq(Tokens) /\ stream_end_produced' \in BOOLEAN
<1>1. CASE in = tokens
  BY <1>1 DEF skip_token, TypeOK
<1>2. CASE in # tokens
  <2>1. stream_end_produced' = (tokens[Len(tokens) - Len(in)].type = "STREAM_END")
    BY <1>2 DEF skip_token
  <2> QED
    BY <2>1 DEF skip_token
<1> QED
  BY <1>1, <1>2

\* A handler that returns OK leaves what its arguments say (the way every handler ends).
LEMMA ReturnOutcome ==
    ASSUME TypeOK, error = "NO", NEW ev \in Events, NEW st \in States,
           NEW sts \in Seq(States), NEW mks \in Seq(Nat), NEW in \in Seq(Tokens),
           Return(ev, st, sts, mks, in)
    PROVE  StepTyped /\ Moved(st, sts, mks, {ev.type})
BY SkipTyped DEF Return, StepTyped, Moved

\* A handler that fails sets parser.error, after which the invariants ask nothing.
LEMMA FailOutcome ==
    ASSUME TypeOK, NEW err \in {"MEMORY", "SCANNER", "PARSER"}, NEW st \in States,
           NEW sts \in Seq(States), NEW mks \in Seq(Nat), NEW in \in Seq(Tokens),
           Fail(err, st, sts, mks, in)
    PROVE  StepTyped /\ Failed
<1>1. NoEvent \in Events
  BY DEF NoEvent, Bare, Event, Events, NoTag
<1> QED
  BY <1>1, SkipTyped DEF Fail, StepTyped, Failed

\* A failed allocation or PUSH is a failure that sets parser.error.
LEMMA NoMemoryOutcome ==
    ASSUME TypeOK, NEW st \in States, NEW sts \in Seq(States), NEW mks \in Seq(Nat),
           NEW in \in Seq(Tokens), NoMemory(st, sts, mks, in)
    PROVE  StepTyped /\ Failed
BY FailOutcome DEF NoMemory

\* peek_token returning NULL ends the call with the scanner's error.
LEMMA PeekFailedOutcome ==
    ASSUME TypeOK, NEW sts \in Seq(States), NEW mks \in Seq(Nat),
           NEW in \in Seq(Tokens), PeekFailed(sts, mks, in)
    PROVE  StepTyped /\ Failed
BY FailOutcome DEF PeekFailed, TypeOK

\* process_empty_scalar gives a SCALAR event and goes to the state it is given.
LEMMA EmptyScalarOutcome ==
    ASSUME TypeOK, error = "NO", NEW st \in States, NEW sts \in Seq(States),
           NEW mks \in Seq(Nat), NEW in \in Seq(Tokens),
           process_empty_scalar(st, sts, mks, in)
    PROVE  StepTyped /\ (Failed \/ Moved(st, sts, mks, LeafTypes))
<1> DEFINE ev == Event("SCALAR", FALSE, NoTag, {"plain_implicit"})
<1>1. ev \in Events /\ ev.type = "SCALAR"
  BY DEF Event, Events, NoTag
<1>2. CASE Return(ev, st, sts, mks, in)
  <2> HIDE DEF ev
  <2> QED
    BY <1>1, <1>2, ReturnOutcome DEF Moved, LeafTypes
<1>3. CASE NoMemory(st, sts, mks, in)
  BY <1>3, NoMemoryOutcome
<1> QED
  BY <1>2, <1>3 DEF process_empty_scalar

\* What is at the head of a queue, and what is behind it.
LEMMA HeadTail ==
    ASSUME NEW in \in Seq(Tokens), in # <<>>
    PROVE  Head(in) \in Tokens /\ Tail(in) \in Seq(Tokens)
BY HeadTailProperties

\* What is left of the queue after n tokens is a queue of tokens.
LEMMA DropType ==
    ASSUME NEW in \in Seq(Tokens), NEW n \in Nat
    PROVE  SubSeq(in, n + 1, Len(in)) \in Seq(Tokens)
<1>1. \A i \in (n + 1)..Len(in) : in[i] \in Tokens
  BY LenProperties
<1>2. n + 1 \in Int /\ Len(in) \in Int
  BY LenProperties
<1> QED
  BY <1>1, <1>2, SubSeqProperties

\* Which token opens which collection.
LEMMA CollectionStates ==
    /\ DOMAIN CollectionState = {"BLOCK_ENTRY", "FLOW_SEQUENCE_START",
          "BLOCK_SEQUENCE_START", "FLOW_MAPPING_START", "BLOCK_MAPPING_START"}
    /\ \A t \in {"BLOCK_ENTRY", "FLOW_SEQUENCE_START", "BLOCK_SEQUENCE_START"} :
          CollectionState[t] \in SequenceFirst
    /\ \A t \in {"FLOW_MAPPING_START", "BLOCK_MAPPING_START"} :
          CollectionState[t] \in MappingFirst
    /\ SequenceFirst \cup MappingFirst = FirstStates \cup {"INDENTLESS_SEQUENCE_ENTRY"}
    /\ SequenceFirst \cup MappingFirst \subseteq States
    /\ \A t \in DOMAIN CollectionState :
          CollectionState[t] \in FirstStates => OpeningToken[CollectionState[t]] = t
    /\ \A st \in FirstStates : OpeningToken[st] # "NULL"
BY DEF CollectionState, SequenceFirst, MappingFirst, FirstStates, States, OpeningToken

ResolvedTags == {NoTag, "!", "verbatim", "default", "custom"}

\* The second half of parse_node: a scalar, an empty one, or the start of a collection.
LEMMA ContentOutcome ==
    ASSUME TypeOK, error = "NO", NEW in \in Seq(Tokens), NEW sts \in Seq(States),
           sts # <<>>, NEW mks \in Seq(Nat), NEW block \in BOOLEAN,
           NEW indentless \in BOOLEAN, NEW anchor \in BOOLEAN, NEW tag \in ResolvedTags,
           parse_content(in, sts, mks, block, indentless, anchor, tag)
    PROVE  StepTyped /\ \/ Failed
                        \/ Moved(Last(sts), Front(sts), mks, LeafTypes)
                        \/ Entered(sts, mks)
<1> DEFINE Implicit(name) == IF tag = NoTag THEN {name} ELSE {}
           seq == {"BLOCK_ENTRY", "FLOW_SEQUENCE_START", "BLOCK_SEQUENCE_START"}
           map == {"FLOW_MAPPING_START", "BLOCK_MAPPING_START"}
           Opening(type) == Event(type, anchor, tag, Implicit("implicit"))
           Open(type) == Return(Opening(type), CollectionState[Head(in).type], sts, mks, in)
           scalar == Event("SCALAR", anchor, tag, ScalarFlags(Head(in).value, tag))
           empty == Event("SCALAR", anchor, tag, Implicit("plain_implicit"))
<1>1. state \in States /\ Last(sts) \in States /\ Front(sts) \in Seq(States)
  BY PopFacts DEF TypeOK
<1>2. /\ Opening("SEQUENCE_START") \in Events
      /\ Opening("SEQUENCE_START").type = "SEQUENCE_START"
      /\ Opening("MAPPING_START") \in Events
      /\ Opening("MAPPING_START").type = "MAPPING_START"
  BY DEF Event, Events, ResolvedTags
<1>3. empty \in Events /\ empty.type = "SCALAR"
  BY DEF Event, Events, ResolvedTags
<1>4. scalar \in Events /\ scalar.type = "SCALAR"
  <2>1. ScalarFlags(Head(in).value, tag) \in SUBSET {"implicit", "plain_implicit", "quoted_implicit"}
    BY DEF ScalarFlags
  <2> QED
    BY <2>1 DEF Event, Events, ResolvedTags
<1> HIDE DEF scalar, empty, Opening
<1>5. CASE Sees(in, seq) /\ Open("SEQUENCE_START")
  <2>1. /\ in # <<>>
        /\ Head(in).type \in DOMAIN CollectionState
        /\ CollectionState[Head(in).type] \in SequenceFirst
        /\ CollectionState[Head(in).type] \in States
    BY <1>5, CollectionStates DEF Sees
  <2>2. /\ StepTyped
        /\ Moved(CollectionState[Head(in).type], sts, mks, {"SEQUENCE_START"})
    BY <1>2, <1>5, <2>1, ReturnOutcome
  <2>3. tokens' = in
    BY <1>5 DEF Return, skip_token
  <2> QED
    BY <2>1, <2>2, <2>3 DEF Moved, Entered
<1>6. CASE Sees(in, map) /\ Open("MAPPING_START")
  <2>1. /\ in # <<>>
        /\ Head(in).type \in DOMAIN CollectionState
        /\ CollectionState[Head(in).type] \in MappingFirst
        /\ CollectionState[Head(in).type] \in States
    BY <1>6, CollectionStates DEF Sees
  <2>2. /\ StepTyped
        /\ Moved(CollectionState[Head(in).type], sts, mks, {"MAPPING_START"})
    BY <1>2, <1>6, <2>1, ReturnOutcome
  <2>3. tokens' = in
    BY <1>6 DEF Return, skip_token
  <2> QED
    BY <2>1, <2>2, <2>3 DEF Moved, Entered
<1>7. CASE Sees(in, {"SCALAR"}) /\ ReturnPop(scalar, sts, mks, Tail(in))
  <2>1. Tail(in) \in Seq(Tokens)
    BY <1>7, HeadTail DEF Sees
  <2> QED
    BY <1>1, <1>4, <1>7, <2>1, ReturnOutcome DEF ReturnPop, Moved, LeafTypes
<1>8. CASE ReturnPop(empty, sts, mks, in)
  BY <1>1, <1>3, <1>8, ReturnOutcome DEF ReturnPop, Moved, LeafTypes
<1>9. CASE NoMemory(state, sts, mks, in)
  BY <1>1, <1>9, NoMemoryOutcome
<1>10. CASE Fail("PARSER", state, sts, mks, in)
  BY <1>1, <1>10, FailOutcome
<1>11. \/ Sees(in, seq) /\ Open("SEQUENCE_START")
       \/ Sees(in, map) /\ Open("MAPPING_START")
       \/ Sees(in, {"SCALAR"}) /\ ReturnPop(scalar, sts, mks, Tail(in))
       \/ ReturnPop(empty, sts, mks, in)
       \/ NoMemory(state, sts, mks, in)
       \/ Fail("PARSER", state, sts, mks, in)
  BY DEF parse_content, Sees, scalar, empty, Opening
<1> QED
  BY <1>5, <1>6, <1>7, <1>8, <1>9, <1>10, <1>11

\* parse_node as a whole: alias, properties, content or failure.
LEMMA NodeOutcome ==
    ASSUME TypeOK, error = "NO", NEW in \in Seq(Tokens), NEW sts \in Seq(States),
           sts # <<>>, NEW mks \in Seq(Nat), NEW block \in BOOLEAN,
           NEW indentless \in BOOLEAN, parse_node(in, sts, mks, block, indentless)
    PROVE  StepTyped /\ \/ Failed
                        \/ Moved(Last(sts), Front(sts), mks, LeafTypes)
                        \/ Entered(sts, mks)
<1> DEFINE n == PropertyCount(in)
           rest == SubSeq(in, n + 1, Len(in))
           anchor == \E i \in 1..n : in[i].type = "ANCHOR"
           values == {in[i].value : i \in {j \in 1..n : in[j].type = "TAG"}}
           tag == IF values = {} THEN NoTag ELSE ResolvedTag(CHOOSE v \in values : TRUE)
<1>1. n \in Nat
  BY DEF PropertyCount
<1>2. rest \in Seq(Tokens)
  BY <1>1, DropType
<1>3. tag # "undefined" => tag \in ResolvedTags
  BY DEF ResolvedTag, ResolvedTags, TypeOK
<1>4. state \in States /\ Last(sts) \in States /\ Front(sts) \in Seq(States)
  BY PopFacts DEF TypeOK
<1>5. anchor \in BOOLEAN
  OBVIOUS
<1>6. \/ PeekFailed(sts, mks, rest)
      \/ Sees(in, {"ALIAS"}) /\ ReturnPop(Bare("ALIAS"), sts, mks, Tail(in))
      \/ Fail("PARSER", state, sts, mks, rest)
      \/ NoMemory(state, sts, mks, rest)
      \/ /\ tag # "undefined"
         /\ parse_content(rest, sts, mks, block, indentless, anchor, tag)
  BY DEF parse_node
<1> HIDE DEF n, rest, anchor, values, tag
<1>7. CASE PeekFailed(sts, mks, rest)
  BY <1>2, <1>7, PeekFailedOutcome
<1>8. CASE Sees(in, {"ALIAS"}) /\ ReturnPop(Bare("ALIAS"), sts, mks, Tail(in))
  <2>1. Tail(in) \in Seq(Tokens)
    BY <1>8, HeadTail DEF Sees
  <2>2. Bare("ALIAS") \in Events /\ Bare("ALIAS").type = "ALIAS"
    BY DEF Bare, Event, Events, NoTag
  <2> QED
    BY <1>4, <1>8, <2>1, <2>2, ReturnOutcome DEF ReturnPop, Moved, LeafTypes
<1>9. CASE Fail("PARSER", state, sts, mks, rest)
  BY <1>2, <1>4, <1>9, FailOutcome
<1>10. CASE NoMemory(state, sts, mks, rest)
  BY <1>2, <1>4, <1>10, NoMemoryOutcome
<1>11. CASE /\ tag # "undefined"
            /\ parse_content(rest, sts, mks, block, indentless, anchor, tag)
  BY <1>2, <1>3, <1>5, <1>11, ContentOutcome
<1> QED
  BY <1>6, <1>7, <1>8, <1>9, <1>10, <1>11

\* PUSH of the state to return to, then parse_node, from a place inside a collection.
LEMMA NodeThenOutcome ==
    ASSUME TypeOK, error = "NO", NEW in \in Seq(Tokens), NEW sts \in Seq(States),
           NEW after \in States, NEW mks \in Seq(Nat), NEW block \in BOOLEAN,
           NEW indentless \in BOOLEAN,
           parse_node_then(after, sts, mks, in, block, indentless)
    PROVE  StepTyped /\ \/ Failed
                        \/ Moved(after, sts, mks, LeafTypes)
                        \/ Entered(Append(sts, after), mks)
<1> DEFINE s == Append(sts, after)
<1>1. s \in Seq(States) /\ s # <<>> /\ Last(s) = after /\ Front(s) = sts
  BY SMTT(30), PushPop
<1> HIDE DEF s
<1>2. CASE NoMemory(state, sts, mks, in)
  BY <1>2, NoMemoryOutcome DEF TypeOK
<1>3. CASE parse_node(in, s, mks, block, indentless)
  <2>1. StepTyped /\ \/ Failed
                     \/ Moved(Last(s), Front(s), mks, LeafTypes)
                     \/ Entered(s, mks)
    BY <1>1, <1>3, NodeOutcome
  <2> QED
    BY <1>1, <2>1 DEF s
<1> QED
  BY <1>2, <1>3 DEF parse_node_then, s

\* A node, or an empty scalar where the node is missing, after KEY, VALUE or an entry.
LEMMA NodeOrEmptyOutcome ==
    ASSUME TypeOK, error = "NO", NEW in \in Seq(Tokens), NEW after \in States,
           NEW ends, NEW mks \in Seq(Nat), NEW block \in BOOLEAN,
           NEW indentless \in BOOLEAN,
           node_or_empty(after, ends, mks, in, block, indentless)
    PROVE  StepTyped /\ \/ Failed
                        \/ Moved(after, states, mks, LeafTypes)
                        \/ Entered(Append(states, after), mks)
<1>1. states \in Seq(States)
  BY DEF TypeOK
<1>2. CASE PeekFailed(states, mks, in)
  BY <1>1, <1>2, PeekFailedOutcome
<1>3. CASE process_empty_scalar(after, states, mks, in)
  BY <1>1, <1>3, EmptyScalarOutcome
<1>4. CASE parse_node_then(after, states, mks, in, block, indentless)
  BY <1>1, <1>4, NodeThenOutcome
<1> QED
  BY <1>2, <1>3, <1>4 DEF node_or_empty

-----------------------------------------------------------------------------
(* The handlers.  Inv is the inductive invariant; StepKind sums up what a  *)
(* call does to the stacks and which event it gives.                       *)

Inv == TypeOK /\ StatesWellFormed /\ MarksMatchCollections /\ FirstStateSeesOpening

\* A node, empty or not, was begun in the current frame, which goes on at to.
NodeStep ==
    \E to \in ReturnStates, mks \in Seq(Nat) :
       /\ FrameOf(state) \in {"seq", "key", "value", "pairkey", "pairvalue"}
       /\ FrameOf(to) = Stream!Followed(FrameOf(state))
       /\ MarksFit(mks, states, to)
       /\ \/ Moved(to, states, mks, LeafTypes)
          \/ Entered(Append(states, to), mks)

RootStep ==
    /\ state \in RootStates
    /\ \/ Moved(Last(states), Front(states), marks, LeafTypes)
       \/ Entered(states, marks)

CloseStep ==
    \/ \E mks \in Seq(Nat), st \in MarkedStates :
          /\ MarksFit(mks, states, st)
          /\ \/ /\ FrameOf(state) = "seq"
                /\ Moved(Last(states), Front(states), Front(mks), {"SEQUENCE_END"})
             \/ /\ FrameOf(state) = "key"
                /\ Moved(Last(states), Front(states), Front(mks), {"MAPPING_END"})
    \/ /\ state = "INDENTLESS_SEQUENCE_ENTRY"
       /\ Moved(Last(states), Front(states), marks, {"SEQUENCE_END"})

PairStep ==
    \/ \E mks \in Seq(Nat) :
          /\ FrameOf(state) = "seq"
          /\ MarksFit(mks, states, "FLOW_SEQUENCE_ENTRY_MAPPING_KEY")
          /\ Moved("FLOW_SEQUENCE_ENTRY_MAPPING_KEY", states, mks, {"MAPPING_START"})
    \/ /\ state = "FLOW_SEQUENCE_ENTRY_MAPPING_END"
       /\ Moved("FLOW_SEQUENCE_ENTRY", states, marks, {"MAPPING_END"})

DocumentStep ==
    \/ /\ state = "STREAM_START"
       /\ Moved("IMPLICIT_DOCUMENT_START", states, marks, {"STREAM_START"})
    \/ /\ state \in {"IMPLICIT_DOCUMENT_START", "DOCUMENT_START"}
       /\ \/ Moved("END", states, marks, {"STREAM_END"})
          \/ \E to \in RootStates :
                Moved(to, Append(states, "DOCUMENT_END"), marks, {"DOCUMENT_START"})
    \/ /\ state = "DOCUMENT_END"
       /\ Moved("DOCUMENT_START", states, marks, {"DOCUMENT_END"})

StepKind == Failed \/ NodeStep \/ RootStep \/ CloseStep \/ PairStep \/ DocumentStep

DirectivesTyped(table) ==
    /\ DOMAIN table \subseteq Handles
    /\ \A h \in DOMAIN table : table[h] \in {"default", "custom"}

\* What a handler has in hand once the opening token is skipped.
LEMMA OpeningFacts ==
    ASSUME Inv, error = "NO", NEW first \in BOOLEAN, tokens # <<>>,
           first <=> state \in FirstStates, ~first => state \in MarkedStates
    PROVE  /\ Opened(first) \in Seq(Tokens)
           /\ MarksAt(first) \in Seq(Nat)
           /\ states # <<>>
           /\ \A to \in MarkedStates : MarksFit(MarksAt(first), states, to)
<1>1. /\ tokens \in Seq(Tokens) /\ Tail(tokens) \in Seq(Tokens)
      /\ marks \in Seq(Nat) /\ states \in Seq(States) /\ state \in States
  BY HeadTail DEF Inv, TypeOK
<1>2. Len(states) + 1 \in Nat
  BY <1>1, LenProperties
<1>3. Opened(first) \in Seq(Tokens) /\ MarksAt(first) \in Seq(Nat)
  BY <1>1, <1>2, PushPop DEF Opened, MarksAt
<1>4. states # <<>>
  <2>1. state \notin BetweenStates
    BY DEF FirstStates, MarkedStates, BetweenStates
  <2> QED
    BY <2>1 DEF Inv, StatesWellFormed, StatesFit
<1>5. MarksFit(marks, states, state)
  BY DEF Inv, MarksMatchCollections
<1>6. ASSUME NEW to \in MarkedStates
      PROVE  MarksFit(MarksAt(first), states, to)
  <2>1. CASE first
    <3>1. state \notin MarkedStates
      BY <2>1 DEF FirstStates, MarkedStates
    <3>2. ~Sees(tokens, {"NULL"})
      BY <2>1, CollectionStates DEF Inv, FirstStateSeesOpening, Sees
    <3>3. MarksAt(first) = Append(marks, Len(states) + 1)
      BY <2>1, <3>2 DEF MarksAt
    <3> QED
      BY <1>1, <1>5, <3>1, <3>3, MarksOpen
  <2>2. CASE ~first
    BY <2>2, <1>5, MarksMove DEF MarksAt
  <2> QED
    BY <2>1, <2>2
<1> QED
  BY <1>3, <1>4, <1>6

\* The PUSH of a mark by a first entry fails.
LEMMA PushMarkFailedOutcome ==
    ASSUME TypeOK, NEW first \in BOOLEAN, PushMarkFailed(first)
    PROVE  StepTyped /\ Failed
BY NoMemoryOutcome DEF PushMarkFailed, TypeOK

\* A token no entry can start with: POP(marks) and a parser error.
LEMMA UnexpectedOutcome ==
    ASSUME TypeOK, NEW mks \in Seq(Nat), NEW in \in Seq(Tokens), Unexpected(mks, in)
    PROVE  StepTyped /\ Failed
BY FrontType, FailOutcome DEF Unexpected, TypeOK

\* The end of a collection: POP of its state and of its mark.
LEMMA CloseOutcome ==
    ASSUME TypeOK, error = "NO", states # <<>>, NEW mks \in Seq(Nat),
           NEW in \in Seq(Tokens), in # <<>>,
           NEW type \in {"SEQUENCE_END", "MAPPING_END"}, Close(type, mks, in)
    PROVE  StepTyped /\ Moved(Last(states), Front(states), Front(mks), {type})
<1>1. Bare(type) \in Events /\ Bare(type).type = type
  BY DEF Bare, Event, Events, NoTag
<1>2. Tail(in) \in Seq(Tokens) /\ Front(mks) \in Seq(Nat)
  BY HeadTail, FrontType
<1>3. Last(states) \in States /\ Front(states) \in Seq(States)
  BY PopFacts DEF TypeOK
<1> QED
  BY <1>1, <1>2, <1>3, ReturnOutcome DEF Close, ReturnPop

\* parse_block_sequence_entry, for the first entry and for the others.
LEMMA BlockSequenceStep ==
    ASSUME Inv, error = "NO", NEW first \in BOOLEAN,
           state = IF first THEN "BLOCK_SEQUENCE_FIRST_ENTRY" ELSE "BLOCK_SEQUENCE_ENTRY",
           parse_block_sequence_entry(first)
    PROVE  StepTyped /\ StepKind
<1> DEFINE in == Opened(first)  mks == MarksAt(first)  to == "BLOCK_SEQUENCE_ENTRY"
<1>1. tokens # <<>> /\ TypeOK
  BY DEF parse_block_sequence_entry, Inv
<1>2. (first <=> state \in FirstStates) /\ (~first => state \in MarkedStates)
  BY DEF FirstStates, MarkedStates
<1>3. in \in Seq(Tokens) /\ mks \in Seq(Nat) /\ states # <<>> /\ states \in Seq(States)
  BY <1>1, <1>2, OpeningFacts DEF TypeOK
<1>4. /\ to \in ReturnStates /\ to \in MarkedStates /\ to \in States
      /\ FrameOf(state) = "seq" /\ FrameOf(to) = "seq"
      /\ MarksFit(mks, states, to)
  BY <1>1, <1>2, OpeningFacts
     DEF ReturnStates, MarkedStates, States, FrameOf, RootStates
<1>5. \/ PushMarkFailed(first)
      \/ PeekFailed(states, mks, in)
      \/ /\ in # <<>>
         /\ node_or_empty(to, {"BLOCK_ENTRY", "BLOCK_END"}, mks, Tail(in), TRUE, FALSE)
      \/ in # <<>> /\ Close("SEQUENCE_END", mks, in)
      \/ Unexpected(mks, in)
  BY DEF parse_block_sequence_entry, Sees
<1> HIDE DEF in, mks
<1>6. CASE PushMarkFailed(first) \/ PeekFailed(states, mks, in) \/ Unexpected(mks, in)
  BY <1>1, <1>3, <1>6, PushMarkFailedOutcome, PeekFailedOutcome, UnexpectedOutcome DEF StepKind
<1>7. CASE /\ in # <<>>
           /\ node_or_empty(to, {"BLOCK_ENTRY", "BLOCK_END"}, mks, Tail(in), TRUE, FALSE)
  <2>1. Tail(in) \in Seq(Tokens)
    BY <1>3, <1>7, HeadTail
  <2>2. StepTyped /\ \/ Failed
                     \/ Moved(to, states, mks, LeafTypes)
                     \/ Entered(Append(states, to), mks)
    BY <1>1, <1>3, <1>4, <1>7, <2>1, NodeOrEmptyOutcome
  <2>3. FrameOf(to) = Stream!Followed(FrameOf(state))
    BY <1>4 DEF Stream!Followed
  <2> QED
    BY <1>3, <1>4, <2>2, <2>3 DEF StepKind, NodeStep
<1>8. CASE in # <<>> /\ Close("SEQUENCE_END", mks, in)
  BY <1>1, <1>3, <1>4, <1>8, CloseOutcome DEF StepKind, CloseStep
<1> QED
  BY <1>5, <1>6, <1>7, <1>8

\* parse_block_mapping_key, for the first key and for the others.
LEMMA BlockMappingKeyStep ==
    ASSUME Inv, error = "NO", NEW first \in BOOLEAN,
           state = IF first THEN "BLOCK_MAPPING_FIRST_KEY" ELSE "BLOCK_MAPPING_KEY",
           parse_block_mapping_key(first)
    PROVE  StepTyped /\ StepKind
<1> DEFINE in == Opened(first)  mks == MarksAt(first)  to == "BLOCK_MAPPING_VALUE"
           ends == {"KEY", "VALUE", "BLOCK_END"}
<1>1. tokens # <<>> /\ TypeOK
  BY DEF parse_block_mapping_key, Inv
<1>2. (first <=> state \in FirstStates) /\ (~first => state \in MarkedStates)
  BY DEF FirstStates, MarkedStates
<1>3. in \in Seq(Tokens) /\ mks \in Seq(Nat) /\ states # <<>> /\ states \in Seq(States)
  BY <1>1, <1>2, OpeningFacts DEF TypeOK
<1>4. /\ to \in ReturnStates /\ to \in MarkedStates /\ to \in States
      /\ FrameOf(state) = "key" /\ FrameOf(to) = Stream!Followed(FrameOf(state))
      /\ MarksFit(mks, states, to)
  BY <1>1, <1>2, OpeningFacts
     DEF ReturnStates, MarkedStates, States, FrameOf, RootStates, Stream!Followed
<1>5. \/ PushMarkFailed(first)
      \/ PeekFailed(states, mks, in)
      \/ in # <<>> /\ node_or_empty(to, ends, mks, Tail(in), TRUE, TRUE)
      \/ in # <<>> /\ Close("MAPPING_END", mks, in)
      \/ Unexpected(mks, in)
  BY DEF parse_block_mapping_key, Sees
<1> HIDE DEF in, mks, ends
<1>6. CASE PushMarkFailed(first) \/ PeekFailed(states, mks, in) \/ Unexpected(mks, in)
  BY <1>1, <1>3, <1>6, PushMarkFailedOutcome, PeekFailedOutcome, UnexpectedOutcome DEF StepKind
<1>7. CASE in # <<>> /\ node_or_empty(to, ends, mks, Tail(in), TRUE, TRUE)
  <2>1. Tail(in) \in Seq(Tokens)
    BY <1>3, <1>7, HeadTail
  <2>2. StepTyped /\ \/ Failed
                     \/ Moved(to, states, mks, LeafTypes)
                     \/ Entered(Append(states, to), mks)
    BY <1>1, <1>3, <1>4, <1>7, <2>1, NodeOrEmptyOutcome
  <2> QED
    BY <1>3, <1>4, <2>2 DEF StepKind, NodeStep
<1>8. CASE in # <<>> /\ Close("MAPPING_END", mks, in)
  BY <1>1, <1>3, <1>4, <1>8, CloseOutcome DEF StepKind, CloseStep
<1> QED
  BY <1>5, <1>6, <1>7, <1>8

\* parse_flow_sequence_entry, for the first entry and for the others.
LEMMA FlowSequenceStep ==
    ASSUME Inv, error = "NO", NEW first \in BOOLEAN,
           state = IF first THEN "FLOW_SEQUENCE_FIRST_ENTRY" ELSE "FLOW_SEQUENCE_ENTRY",
           parse_flow_sequence_entry(first)
    PROVE  StepTyped /\ StepKind
<1> DEFINE in == Opened(first)  mks == MarksAt(first)  to == "FLOW_SEQUENCE_ENTRY"
           entry == Entry(first, in)
           pair == Event("MAPPING_START", FALSE, NoTag, {"implicit"})
           pairkey == "FLOW_SEQUENCE_ENTRY_MAPPING_KEY"
<1>1. tokens # <<>> /\ TypeOK
  BY DEF parse_flow_sequence_entry, Inv
<1>2. (first <=> state \in FirstStates) /\ (~first => state \in MarkedStates)
  BY DEF FirstStates, MarkedStates
<1>3. in \in Seq(Tokens) /\ mks \in Seq(Nat) /\ states # <<>> /\ states \in Seq(States)
  BY <1>1, <1>2, OpeningFacts DEF TypeOK
<1>4. /\ to \in ReturnStates /\ to \in MarkedStates /\ to \in States
      /\ FrameOf(state) = "seq" /\ FrameOf(to) = Stream!Followed(FrameOf(state))
      /\ pairkey \in States
      /\ MarksFit(mks, states, to)
      /\ MarksFit(mks, states, pairkey)
  BY <1>1, <1>2, OpeningFacts
     DEF ReturnStates, MarkedStates, States, FrameOf, RootStates, Stream!Followed
<1>5. \/ PushMarkFailed(first)
      \/ PeekFailed(states, mks, in)
      \/ in # <<>> /\ Close("SEQUENCE_END", mks, in)
      \/ Unexpected(mks, in)
      \/ /\ in # <<>>
         /\ \/ PeekFailed(states, mks, entry)
            \/ entry # <<>> /\ Return(pair, pairkey, states, mks, Tail(entry))
            \/ entry # <<>> /\ Close("SEQUENCE_END", mks, entry)
            \/ parse_node_then(to, states, mks, entry, FALSE, FALSE)
  BY DEF parse_flow_sequence_entry, Sees, SeesOther, SeesEntry
<1>6. pair \in Events /\ pair.type = "MAPPING_START"
  BY DEF Event, Events, NoTag
<1>7. in # <<>> => entry \in Seq(Tokens)
  BY <1>3, HeadTail DEF Entry
<1> HIDE DEF in, mks, entry, pair
<1>8. CASE PushMarkFailed(first) \/ PeekFailed(states, mks, in) \/ Unexpected(mks, in)
  BY <1>1, <1>3, <1>8, PushMarkFailedOutcome, PeekFailedOutcome, UnexpectedOutcome DEF StepKind
<1>9. CASE in # <<>> /\ Close("SEQUENCE_END", mks, in)
  BY <1>1, <1>3, <1>4, <1>9, CloseOutcome DEF StepKind, CloseStep
<1>10. CASE in # <<>> /\ PeekFailed(states, mks, entry)
  BY <1>1, <1>3, <1>7, <1>10, PeekFailedOutcome DEF StepKind
<1>11. CASE in # <<>> /\ entry # <<>> /\ Return(pair, pairkey, states, mks, Tail(entry))
  <2>1. Tail(entry) \in Seq(Tokens)
    BY <1>7, <1>11, HeadTail
  <2>2. StepTyped /\ Moved(pairkey, states, mks, {"MAPPING_START"})
    BY <1>1, <1>3, <1>4, <1>6, <1>11, <2>1, ReturnOutcome
  <2> QED
    BY <1>3, <1>4, <2>2 DEF StepKind, PairStep
<1>12. CASE in # <<>> /\ entry # <<>> /\ Close("SEQUENCE_END", mks, entry)
  BY <1>1, <1>3, <1>4, <1>7, <1>12, CloseOutcome DEF StepKind, CloseStep
<1>13. CASE in # <<>> /\ parse_node_then(to, states, mks, entry, FALSE, FALSE)
  <2>1. StepTyped /\ \/ Failed
                     \/ Moved(to, states, mks, LeafTypes)
                     \/ Entered(Append(states, to), mks)
    BY <1>1, <1>3, <1>4, <1>7, <1>13, NodeThenOutcome
  <2> QED
    BY <1>3, <1>4, <2>1 DEF StepKind, NodeStep
<1> QED
  BY <1>5, <1>8, <1>9, <1>10, <1>11, <1>12, <1>13

\* parse_flow_mapping_key, for the first key and for the others.
LEMMA FlowMappingKeyStep ==
    ASSUME Inv, error = "NO", NEW first \in BOOLEAN,
           state = IF first THEN "FLOW_MAPPING_FIRST_KEY" ELSE "FLOW_MAPPING_KEY",
           parse_flow_mapping_key(first)
    PROVE  StepTyped /\ StepKind
<1> DEFINE in == Opened(first)  mks == MarksAt(first)
           to == "FLOW_MAPPING_VALUE"  alone == "FLOW_MAPPING_EMPTY_VALUE"
           entry == Entry(first, in)
           ends == {"VALUE", "FLOW_ENTRY", "FLOW_MAPPING_END"}
<1>1. tokens # <<>> /\ TypeOK
  BY DEF parse_flow_mapping_key, Inv
<1>2. (first <=> state \in FirstStates) /\ (~first => state \in MarkedStates)
  BY DEF FirstStates, MarkedStates
<1>3. in \in Seq(Tokens) /\ mks \in Seq(Nat) /\ states # <<>> /\ states \in Seq(States)
  BY <1>1, <1>2, OpeningFacts DEF TypeOK
<1>4. /\ to \in ReturnStates /\ to \in MarkedStates /\ to \in States
      /\ alone \in ReturnStates /\ alone \in MarkedStates /\ alone \in States
      /\ FrameOf(state) = "key" /\ FrameOf(to) = Stream!Followed(FrameOf(state))
      /\ FrameOf(alone) = Stream!Followed(FrameOf(state))
      /\ MarksFit(mks, states, to)
      /\ MarksFit(mks, states, alone)
  BY <1>1, <1>2, OpeningFacts
     DEF ReturnStates, MarkedStates, States, FrameOf, RootStates, Stream!Followed
<1>5. \/ PushMarkFailed(first)
      \/ PeekFailed(states, mks, in)
      \/ in # <<>> /\ Close("MAPPING_END", mks, in)
      \/ Unexpected(mks, in)
      \/ /\ in # <<>>
         /\ \/ PeekFailed(states, mks, entry)
            \/ entry # <<>> /\ node_or_empty(to, ends, mks, Tail(entry), FALSE, FALSE)
            \/ entry # <<>> /\ Close("MAPPING_END", mks, entry)
            \/ parse_node_then(alone, states, mks, entry, FALSE, FALSE)
  BY DEF parse_flow_mapping_key, Sees, SeesOther, SeesEntry
<1>6. in # <<>> => entry \in Seq(Tokens)
  BY <1>3, HeadTail DEF Entry
<1> HIDE DEF in, mks, entry, ends
<1>7. CASE PushMarkFailed(first) \/ PeekFailed(states, mks, in) \/ Unexpected(mks, in)
  BY <1>1, <1>3, <1>7, PushMarkFailedOutcome, PeekFailedOutcome, UnexpectedOutcome DEF StepKind
<1>8. CASE in # <<>> /\ Close("MAPPING_END", mks, in)
  BY <1>1, <1>3, <1>4, <1>8, CloseOutcome DEF StepKind, CloseStep
<1>9. CASE in # <<>> /\ PeekFailed(states, mks, entry)
  BY <1>1, <1>3, <1>6, <1>9, PeekFailedOutcome DEF StepKind
<1>10. CASE /\ in # <<>> /\ entry # <<>>
            /\ node_or_empty(to, ends, mks, Tail(entry), FALSE, FALSE)
  <2>1. Tail(entry) \in Seq(Tokens)
    BY <1>6, <1>10, HeadTail
  <2>2. StepTyped /\ \/ Failed
                     \/ Moved(to, states, mks, LeafTypes)
                     \/ Entered(Append(states, to), mks)
    BY <1>1, <1>3, <1>4, <1>10, <2>1, NodeOrEmptyOutcome
  <2> QED
    BY <1>3, <1>4, <2>2 DEF StepKind, NodeStep
<1>11. CASE in # <<>> /\ entry # <<>> /\ Close("MAPPING_END", mks, entry)
  BY <1>1, <1>3, <1>4, <1>6, <1>11, CloseOutcome DEF StepKind, CloseStep
<1>12. CASE in # <<>> /\ parse_node_then(alone, states, mks, entry, FALSE, FALSE)
  <2>1. StepTyped /\ \/ Failed
                     \/ Moved(alone, states, mks, LeafTypes)
                     \/ Entered(Append(states, alone), mks)
    BY <1>1, <1>3, <1>4, <1>6, <1>12, NodeThenOutcome
  <2> QED
    BY <1>3, <1>4, <2>1 DEF StepKind, NodeStep
<1> QED
  BY <1>5, <1>7, <1>8, <1>9, <1>10, <1>11, <1>12

\* The handlers that are past the opening token and may only give a node.
LEMMA ContinuationFacts ==
    ASSUME Inv, error = "NO",
           state \in {"BLOCK_MAPPING_VALUE", "FLOW_SEQUENCE_ENTRY_MAPPING_KEY",
                      "FLOW_SEQUENCE_ENTRY_MAPPING_VALUE", "FLOW_SEQUENCE_ENTRY_MAPPING_END",
                      "FLOW_MAPPING_VALUE", "FLOW_MAPPING_EMPTY_VALUE"}
    PROVE  /\ TypeOK /\ states \in Seq(States) /\ marks \in Seq(Nat)
           /\ tokens \in Seq(Tokens)
           /\ tokens # <<>> => Tail(tokens) \in Seq(Tokens)
           /\ \A to \in MarkedStates : MarksFit(marks, states, to)
<1>1. state \in MarkedStates
  BY DEF MarkedStates
<1> QED
  BY <1>1, HeadTail, MarksMove DEF Inv, TypeOK, MarksMatchCollections

\* The places where a node is asked for, as the frames of EventStream see them.
LEMMA NodeKind ==
    ASSUME NEW to \in ReturnStates, NEW mks \in Seq(Nat), MarksFit(mks, states, to),
           FrameOf(state) \in {"seq", "key", "value", "pairkey", "pairvalue"},
           FrameOf(to) = Stream!Followed(FrameOf(state)),
           StepTyped /\ \/ Failed
                        \/ Moved(to, states, mks, LeafTypes)
                        \/ Entered(Append(states, to), mks)
    PROVE  StepTyped /\ StepKind
BY DEF StepKind, NodeStep

\* parse_block_mapping_value.
LEMMA BlockMappingValueStep ==
    ASSUME Inv, error = "NO", state = "BLOCK_MAPPING_VALUE", parse_block_mapping_value
    PROVE  StepTyped /\ StepKind
<1> DEFINE to == "BLOCK_MAPPING_KEY"  ends == {"KEY", "VALUE", "BLOCK_END"}
<1>1. /\ to \in ReturnStates /\ to \in MarkedStates /\ to \in States
      /\ FrameOf(state) = "value" /\ FrameOf(to) = Stream!Followed(FrameOf(state))
  BY DEF ReturnStates, MarkedStates, States, FrameOf, RootStates, Stream!Followed
<1>2. \/ PeekFailed(states, marks, tokens)
      \/ tokens # <<>> /\ node_or_empty(to, ends, marks, Tail(tokens), TRUE, TRUE)
      \/ process_empty_scalar(to, states, marks, tokens)
  BY DEF parse_block_mapping_value, Sees
<1> HIDE DEF to, ends
<1>3. CASE PeekFailed(states, marks, tokens)
  BY <1>3, ContinuationFacts, PeekFailedOutcome DEF StepKind
<1>4. CASE tokens # <<>> /\ node_or_empty(to, ends, marks, Tail(tokens), TRUE, TRUE)
  BY <1>1, <1>4, ContinuationFacts, NodeOrEmptyOutcome, NodeKind
<1>5. CASE process_empty_scalar(to, states, marks, tokens)
  BY <1>1, <1>5, ContinuationFacts, EmptyScalarOutcome, NodeKind
<1> QED
  BY <1>2, <1>3, <1>4, <1>5

\* parse_flow_sequence_entry_mapping_key.
LEMMA PairKeyStep ==
    ASSUME Inv, error = "NO", state = "FLOW_SEQUENCE_ENTRY_MAPPING_KEY",
           parse_flow_sequence_entry_mapping_key
    PROVE  StepTyped /\ StepKind
<1> DEFINE to == "FLOW_SEQUENCE_ENTRY_MAPPING_VALUE"
<1>1. /\ to \in ReturnStates /\ to \in MarkedStates /\ to \in States
      /\ FrameOf(state) = "pairkey" /\ FrameOf(to) = Stream!Followed(FrameOf(state))
  BY DEF ReturnStates, MarkedStates, States, FrameOf, RootStates, Stream!Followed
<1>2. \/ PeekFailed(states, marks, tokens)
      \/ tokens # <<>> /\ process_empty_scalar(to, states, marks, Tail(tokens))
      \/ parse_node_then(to, states, marks, tokens, FALSE, FALSE)
  BY DEF parse_flow_sequence_entry_mapping_key, Sees
<1> HIDE DEF to
<1>3. CASE PeekFailed(states, marks, tokens)
  BY <1>3, ContinuationFacts, PeekFailedOutcome DEF StepKind
<1>4. CASE tokens # <<>> /\ process_empty_scalar(to, states, marks, Tail(tokens))
  BY <1>1, <1>4, ContinuationFacts, EmptyScalarOutcome, NodeKind
<1>5. CASE parse_node_then(to, states, marks, tokens, FALSE, FALSE)
  BY <1>1, <1>5, ContinuationFacts, NodeThenOutcome, NodeKind
<1> QED
  BY <1>2, <1>3, <1>4, <1>5

\* parse_flow_sequence_entry_mapping_value.
LEMMA PairValueStep ==
    ASSUME Inv, error = "NO", state = "FLOW_SEQUENCE_ENTRY_MAPPING_VALUE",
           parse_flow_sequence_entry_mapping_value
    PROVE  StepTyped /\ StepKind
<1> DEFINE to == "FLOW_SEQUENCE_ENTRY_MAPPING_END"
           ends == {"FLOW_ENTRY", "FLOW_SEQUENCE_END"}
<1>1. /\ to \in ReturnStates /\ to \in MarkedStates /\ to \in States
      /\ FrameOf(state) = "pairvalue" /\ FrameOf(to) = Stream!Followed(FrameOf(state))
  BY DEF ReturnStates, MarkedStates, States, FrameOf, RootStates, Stream!Followed
<1>2. \/ PeekFailed(states, marks, tokens)
      \/ tokens # <<>> /\ node_or_empty(to, ends, marks, Tail(tokens), FALSE, FALSE)
      \/ process_empty_scalar(to, states, marks, tokens)
  BY DEF parse_flow_sequence_entry_mapping_value, Sees
<1> HIDE DEF to, ends
<1>3. CASE PeekFailed(states, marks, tokens)
  BY <1>3, ContinuationFacts, PeekFailedOutcome DEF StepKind
<1>4. CASE tokens # <<>> /\ node_or_empty(to, ends, marks, Tail(tokens), FALSE, FALSE)
  BY <1>1, <1>4, ContinuationFacts, NodeOrEmptyOutcome, NodeKind
<1>5. CASE process_empty_scalar(to, states, marks, tokens)
  BY <1>1, <1>5, ContinuationFacts, EmptyScalarOutcome, NodeKind
<1> QED
  BY <1>2, <1>3, <1>4, <1>5

\* parse_flow_sequence_entry_mapping_end.
LEMMA PairEndStep ==
    ASSUME Inv, error = "NO", state = "FLOW_SEQUENCE_ENTRY_MAPPING_END",
           parse_flow_sequence_entry_mapping_end
    PROVE  StepTyped /\ StepKind
<1>1. Bare("MAPPING_END") \in Events /\ Bare("MAPPING_END").type = "MAPPING_END"
  BY DEF Bare, Event, Events, NoTag
<1>2. CASE PeekFailed(states, marks, tokens)
  BY <1>2, ContinuationFacts, PeekFailedOutcome DEF StepKind
<1>3. CASE Return(Bare("MAPPING_END"), "FLOW_SEQUENCE_ENTRY", states, marks, tokens)
  <2>1. "FLOW_SEQUENCE_ENTRY" \in States
    BY DEF States, MarkedStates
  <2> QED
    BY <1>1, <1>3, <2>1, ContinuationFacts, ReturnOutcome DEF StepKind, PairStep
<1> QED
  BY <1>2, <1>3 DEF parse_flow_sequence_entry_mapping_end

\* parse_flow_mapping_value, with and without a value.
LEMMA FlowMappingValueStep ==
    ASSUME Inv, error = "NO", NEW empty \in BOOLEAN,
           state = IF empty THEN "FLOW_MAPPING_EMPTY_VALUE" ELSE "FLOW_MAPPING_VALUE",
           parse_flow_mapping_value(empty)
    PROVE  StepTyped /\ StepKind
<1> DEFINE to == "FLOW_MAPPING_KEY"  ends == {"FLOW_ENTRY", "FLOW_MAPPING_END"}
<1>1. /\ to \in ReturnStates /\ to \in MarkedStates /\ to \in States
      /\ FrameOf(state) = "value" /\ FrameOf(to) = Stream!Followed(FrameOf(state))
  BY DEF ReturnStates, MarkedStates, States, FrameOf, RootStates, Stream!Followed
<1>2. \/ PeekFailed(states, marks, tokens)
      \/ tokens # <<>> /\ node_or_empty(to, ends, marks, Tail(tokens), FALSE, FALSE)
      \/ process_empty_scalar(to, states, marks, tokens)
  BY DEF parse_flow_mapping_value, Sees
<1> HIDE DEF to, ends
<1>3. CASE PeekFailed(states, marks, tokens)
  BY <1>3, ContinuationFacts, PeekFailedOutcome DEF StepKind
<1>4. CASE tokens # <<>> /\ node_or_empty(to, ends, marks, Tail(tokens), FALSE, FALSE)
  BY <1>1, <1>4, ContinuationFacts, NodeOrEmptyOutcome, NodeKind
<1>5. CASE process_empty_scalar(to, states, marks, tokens)
  BY <1>1, <1>5, ContinuationFacts, EmptyScalarOutcome, NodeKind
<1> QED
  BY <1>2, <1>3, <1>4, <1>5

\* parse_indentless_sequence_entry: a collection that has no mark and no closing token.
LEMMA IndentlessStep ==
    ASSUME Inv, error = "NO", state = "INDENTLESS_SEQUENCE_ENTRY",
           parse_indentless_sequence_entry
    PROVE  StepTyped /\ StepKind
<1> DEFINE to == "INDENTLESS_SEQUENCE_ENTRY"
           ends == {"BLOCK_ENTRY", "KEY", "VALUE", "BLOCK_END"}
           end == Bare("SEQUENCE_END")
<1>1. /\ TypeOK /\ tokens \in Seq(Tokens) /\ marks \in Seq(Nat)
      /\ states \in Seq(States)
      /\ tokens # <<>> => Tail(tokens) \in Seq(Tokens)
      /\ MarksFit(marks, states, to)
  BY HeadTail DEF Inv, TypeOK, MarksMatchCollections
<1>2. states # <<>>
  BY DEF Inv, StatesWellFormed, StatesFit, BetweenStates
<1>3. Last(states) \in States /\ Front(states) \in Seq(States)
  BY <1>1, <1>2, PopFacts
<1>4. /\ to \in ReturnStates /\ to \in States
      /\ FrameOf(state) = "seq" /\ FrameOf(to) = Stream!Followed(FrameOf(state))
  BY DEF ReturnStates, States, FrameOf, RootStates, Stream!Followed
<1>5. end \in Events /\ end.type = "SEQUENCE_END"
  BY DEF Bare, Event, Events, NoTag
<1>6. \/ PeekFailed(states, marks, tokens)
      \/ tokens # <<>> /\ node_or_empty(to, ends, marks, Tail(tokens), TRUE, FALSE)
      \/ ReturnPop(end, states, marks, tokens)
  BY DEF parse_indentless_sequence_entry, Sees
<1> HIDE DEF ends, end
<1>7. CASE PeekFailed(states, marks, tokens)
  BY <1>1, <1>7, PeekFailedOutcome DEF StepKind
<1>8. CASE tokens # <<>> /\ node_or_empty(to, ends, marks, Tail(tokens), TRUE, FALSE)
  BY <1>1, <1>4, <1>8, NodeOrEmptyOutcome, NodeKind
<1>9. CASE ReturnPop(end, states, marks, tokens)
  BY <1>1, <1>3, <1>5, <1>9, ReturnOutcome DEF ReturnPop, StepKind, CloseStep
<1> QED
  BY <1>6, <1>7, <1>8, <1>9

-----------------------------------------------------------------------------
(* Documents.                                                              *)

\* parse_node in the state BLOCK_NODE: the root of an implicit document.
LEMMA RootNodeStep ==
    ASSUME Inv, error = "NO", state \in RootStates,
           parse_node(tokens, states, marks, TRUE, FALSE)
    PROVE  StepTyped /\ StepKind
<1>1. TypeOK /\ tokens \in Seq(Tokens) /\ states \in Seq(States) /\ marks \in Seq(Nat)
  BY DEF Inv, TypeOK
<1>2. states # <<>>
  BY DEF Inv, StatesWellFormed, StatesFit, RootStates, BetweenStates
<1> QED
  BY <1>1, <1>2, NodeOutcome DEF StepKind, RootStep

\* parse_document_content: the root of an explicit document, or an empty one.
LEMMA DocumentContentStep ==
    ASSUME Inv, error = "NO", state = "DOCUMENT_CONTENT", parse_document_content
    PROVE  StepTyped /\ StepKind
<1>1. TypeOK /\ tokens \in Seq(Tokens) /\ states \in Seq(States) /\ marks \in Seq(Nat)
  BY DEF Inv, TypeOK
<1>2. states # <<>> /\ state \in RootStates
  BY DEF Inv, StatesWellFormed, StatesFit, RootStates, BetweenStates
<1>3. Last(states) \in States /\ Front(states) \in Seq(States)
  BY <1>1, <1>2, PopFacts
<1>4. CASE process_empty_scalar(Last(states), Front(states), marks, tokens)
  BY <1>1, <1>2, <1>3, <1>4, EmptyScalarOutcome DEF StepKind, RootStep
<1>5. CASE parse_node(tokens, states, marks, TRUE, FALSE)
  BY <1>2, <1>5, RootNodeStep
<1> QED
  BY <1>4, <1>5 DEF parse_document_content

\* parse_stream_start.
LEMMA StreamStartStep ==
    ASSUME Inv, error = "NO", state = "STREAM_START", parse_stream_start
    PROVE  StepTyped /\ StepKind
<1>1. TypeOK /\ tokens \in Seq(Tokens) /\ states \in Seq(States) /\ marks \in Seq(Nat)
  BY DEF Inv, TypeOK
<1>2. Bare("STREAM_START") \in Events /\ Bare("STREAM_START").type = "STREAM_START"
  BY DEF Bare, Event, Events, NoTag
<1>3. CASE PeekFailed(states, marks, tokens)
  BY <1>1, <1>3, PeekFailedOutcome DEF StepKind
<1>4. CASE /\ Sees(tokens, {"STREAM_START"})
           /\ Return(Bare("STREAM_START"), "IMPLICIT_DOCUMENT_START", states, marks, Tail(tokens))
  <2>1. Tail(tokens) \in Seq(Tokens) /\ "IMPLICIT_DOCUMENT_START" \in States
    BY <1>1, <1>4, HeadTail DEF Sees, States, BetweenStates
  <2> QED
    BY <1>1, <1>2, <1>4, <2>1, ReturnOutcome DEF StepKind, DocumentStep
<1> QED
  BY <1>3, <1>4 DEF parse_stream_start

\* parse_document_end: the stack of states is empty again.
LEMMA DocumentEndStep ==
    ASSUME Inv, error = "NO", state = "DOCUMENT_END", parse_document_end
    PROVE  StepTyped /\ StepKind
<1> DEFINE explicit == Bare("DOCUMENT_END")
           implicit == Event("DOCUMENT_END", FALSE, NoTag, {"implicit"})
<1>1. TypeOK /\ tokens \in Seq(Tokens) /\ states \in Seq(States) /\ marks \in Seq(Nat)
  BY DEF Inv, TypeOK
<1>2. /\ explicit \in Events /\ explicit.type = "DOCUMENT_END"
      /\ implicit \in Events /\ implicit.type = "DOCUMENT_END"
  BY DEF Bare, Event, Events, NoTag
<1>3. "DOCUMENT_START" \in States
  BY DEF States, BetweenStates
<1>4. \/ PeekFailed(states, marks, tokens)
      \/ /\ tokens # <<>>
         /\ Return(explicit, "DOCUMENT_START", states, marks, Tail(tokens))
      \/ Return(implicit, "DOCUMENT_START", states, marks, tokens)
  BY DEF parse_document_end, Sees
<1> HIDE DEF explicit, implicit
<1>5. CASE PeekFailed(states, marks, tokens)
  BY <1>1, <1>5, PeekFailedOutcome DEF StepKind
<1>6. CASE /\ tokens # <<>>
           /\ Return(explicit, "DOCUMENT_START", states, marks, Tail(tokens))
  <2>1. Tail(tokens) \in Seq(Tokens)
    BY <1>1, <1>6, HeadTail
  <2> QED
    BY <1>1, <1>2, <1>3, <1>6, <2>1, ReturnOutcome DEF StepKind, DocumentStep
<1>7. CASE Return(implicit, "DOCUMENT_START", states, marks, tokens)
  BY <1>1, <1>2, <1>3, <1>7, ReturnOutcome DEF StepKind, DocumentStep
<1> QED
  BY <1>4, <1>5, <1>6, <1>7

\* The tables process_directives builds.
LEMMA TableTyped ==
    ASSUME DirectivesTyped(tag_directives), NEW in \in Seq(Tokens), NEW n \in 0..Len(in)
    PROVE  /\ HandlesOf(in, n) \subseteq Handles
           /\ DirectivesTyped(Table(in, n))
           /\ DirectivesTyped(FullTable(in, n))
           /\ DirectivesTyped(append_tag_directives({"!"}, "default", Table(in, n)))
<1>1. Len(in) \in Nat /\ \A i \in 1..n : in[i] \in Tokens
  BY LenProperties
<1>2. \A t \in Tokens : t.type = "TAG_DIRECTIVE" => t.value \in Handles
  BY DEF Tokens, PlainTypes
<1>3. HandlesOf(in, n) \subseteq Handles
  BY <1>1, <1>2 DEF HandlesOf
<1>4. ASSUME NEW table, DirectivesTyped(table), NEW handles \in SUBSET Handles,
             NEW prefix \in {"default", "custom"}
      PROVE  DirectivesTyped(append_tag_directives(handles, prefix, table))
  BY <1>4 DEF DirectivesTyped, append_tag_directives
<1>5. DirectivesTyped(Table(in, n))
  BY <1>3, <1>4 DEF Table
<1>6. DefaultHandles \subseteq Handles /\ {"!"} \subseteq Handles
  BY DEF Handles, DefaultHandles
<1> QED
  BY <1>3, <1>4, <1>5, <1>6 DEF FullTable

\* process_directives fails, with or without setting parser.error.
LEMMA DirectivesFailedStep ==
    ASSUME Inv, error = "NO", state \in {"IMPLICIT_DOCUMENT_START", "DOCUMENT_START"},
           NEW in \in Seq(Tokens), process_directives_failed(in)
    PROVE  StepTyped /\ Failed /\ DirectivesTyped(tag_directives')
<1>1. /\ TypeOK /\ state \in States /\ states \in Seq(States) /\ marks \in Seq(Nat)
      /\ DirectivesTyped(tag_directives)
  BY DEF Inv, TypeOK, DirectivesTyped
<1>2. CASE Fail(error, state, states, marks, in) /\ UNCHANGED tag_directives
  <2>1. NoEvent \in Events
    BY DEF NoEvent, Bare, Event, Events, NoTag
  <2>2. state \in BetweenStates
    BY DEF BetweenStates
  <2> QED
    BY <1>1, <1>2, <2>1, <2>2, SkipTyped DEF Fail, StepTyped, Failed
<1>3. ASSUME NEW n \in 0..(Len(in) - 1),
             LET rest == Drop(in, n) IN
             \/ PeekFailed(states, marks, rest) /\ tag_directives' = Table(in, n)
             \/ /\ Fail("PARSER", state, states, marks, rest)
                /\ tag_directives' = Table(in, n)
             \/ /\ NoMemory(state, states, marks, rest)
                /\ tag_directives' \in {Table(in, n), Table(in, n + 1)}
             \/ /\ NoMemory(state, states, marks, rest)
                /\ tag_directives' \in
                      {Table(in, n), append_tag_directives({"!"}, "default", Table(in, n))}
      PROVE  StepTyped /\ Failed /\ DirectivesTyped(tag_directives')
  <2>1. n \in Nat /\ n \in 0..Len(in) /\ n + 1 \in 0..Len(in)
    BY LenProperties
  <2>2. Drop(in, n) \in Seq(Tokens)
    BY <2>1, DropType DEF Drop
  <2>3. /\ DirectivesTyped(Table(in, n)) /\ DirectivesTyped(Table(in, n + 1))
        /\ DirectivesTyped(append_tag_directives({"!"}, "default", Table(in, n)))
    BY <1>1, <2>1, TableTyped
  <2>4. DirectivesTyped(tag_directives')
    BY <1>3, <2>3
  <2>5. \/ PeekFailed(states, marks, Drop(in, n))
        \/ Fail("PARSER", state, states, marks, Drop(in, n))
        \/ NoMemory(state, states, marks, Drop(in, n))
    BY <1>3
  <2> QED
    BY <1>1, <2>2, <2>4, <2>5, PeekFailedOutcome, FailOutcome, NoMemoryOutcome
<1> QED
  BY <1>2, <1>3 DEF process_directives_failed

\* parse_document_start for a document without a DOCUMENT-START token.
LEMMA ImplicitDocumentStep ==
    ASSUME Inv, error = "NO", state = "IMPLICIT_DOCUMENT_START",
           NEW in \in Seq(Tokens), parse_implicit_document(in)
    PROVE  StepTyped /\ StepKind /\ DirectivesTyped(tag_directives')
<1> DEFINE ev == Event("DOCUMENT_START", FALSE, NoTag, {"implicit"})
           s == Append(states, "DOCUMENT_END")
<1>1. /\ TypeOK /\ state \in States /\ states \in Seq(States) /\ marks \in Seq(Nat)
      /\ DirectivesTyped(tag_directives)
  BY DEF Inv, TypeOK, DirectivesTyped
<1>2. "DOCUMENT_END" \in States /\ "BLOCK_NODE" \in States /\ "BLOCK_NODE" \in RootStates
  BY DEF States, BetweenStates, RootStates
<1>3. s \in Seq(States)
  BY <1>1, <1>2, PushPop
<1>4. ev \in Events /\ ev.type = "DOCUMENT_START"
  BY DEF Event, Events, NoTag
<1>5. DirectivesTyped(tag_directives')
  <2>1. 0 \in 0..Len(in)
    BY LenProperties
  <2> QED
    BY <1>1, <2>1, TableTyped DEF parse_implicit_document
<1>6. NoMemory(state, states, marks, in) \/ Return(ev, "BLOCK_NODE", s, marks, in)
  BY DEF parse_implicit_document
<1> HIDE DEF ev
<1>7. CASE NoMemory(state, states, marks, in)
  BY <1>1, <1>5, <1>7, NoMemoryOutcome DEF StepKind
<1>8. CASE Return(ev, "BLOCK_NODE", s, marks, in)
  BY <1>1, <1>2, <1>3, <1>4, <1>5, <1>8, ReturnOutcome DEF StepKind, DocumentStep
<1> QED
  BY <1>6, <1>7, <1>8

\* parse_document_start for a document with directives or a DOCUMENT-START token.
LEMMA ExplicitDocumentStep ==
    ASSUME Inv, error = "NO", state \in {"IMPLICIT_DOCUMENT_START", "DOCUMENT_START"},
           NEW in \in Seq(Tokens), parse_explicit_document(in)
    PROVE  StepTyped /\ StepKind /\ DirectivesTyped(tag_directives')
<1> DEFINE Start(n) == [Bare("DOCUMENT_START") EXCEPT !.directives = HandlesOf(in, n)]
           s == Append(states, "DOCUMENT_END")
<1>1. /\ TypeOK /\ state \in States /\ states \in Seq(States) /\ marks \in Seq(Nat)
      /\ DirectivesTyped(tag_directives)
  BY DEF Inv, TypeOK, DirectivesTyped
<1>2. /\ "DOCUMENT_END" \in States /\ "DOCUMENT_CONTENT" \in States
      /\ "DOCUMENT_CONTENT" \in RootStates
  BY DEF States, BetweenStates, RootStates
<1>3. s \in Seq(States)
  BY <1>1, <1>2, PushPop
<1>4. PICK n \in 0..(Len(in) - 1) :
         /\ tag_directives' = FullTable(in, n)
         /\ \/ Fail("PARSER", state, states, marks, Drop(in, n))
            \/ NoMemory(state, states, marks, Drop(in, n))
            \/ /\ Drop(in, n) # <<>>
               /\ Return(Start(n), "DOCUMENT_CONTENT", s, marks, Tail(Drop(in, n)))
  BY DEF parse_explicit_document, Sees
<1>5. n \in Nat /\ n \in 0..Len(in)
  BY LenProperties
<1>6. Drop(in, n) \in Seq(Tokens)
  BY <1>5, DropType DEF Drop
<1>7. DirectivesTyped(tag_directives') /\ HandlesOf(in, n) \subseteq Handles
  BY <1>1, <1>4, <1>5, TableTyped
<1>8. Start(n) \in Events /\ Start(n).type = "DOCUMENT_START"
  BY <1>7 DEF Bare, Event, Events, NoTag
<1> HIDE DEF Start
<1>9. CASE Fail("PARSER", state, states, marks, Drop(in, n))
  BY <1>1, <1>6, <1>7, <1>9, FailOutcome DEF StepKind
<1>10. CASE NoMemory(state, states, marks, Drop(in, n))
  BY <1>1, <1>6, <1>7, <1>10, NoMemoryOutcome DEF StepKind
<1>11. CASE /\ Drop(in, n) # <<>>
            /\ Return(Start(n), "DOCUMENT_CONTENT", s, marks, Tail(Drop(in, n)))
  <2>1. Tail(Drop(in, n)) \in Seq(Tokens)
    BY <1>6, <1>11, HeadTail
  <2> QED
    BY <1>1, <1>2, <1>3, <1>7, <1>8, <1>11, <2>1, ReturnOutcome DEF StepKind, DocumentStep
<1> QED
  BY <1>4, <1>9, <1>10, <1>11

\* parse_document_start as a whole.
LEMMA DocumentStartStep ==
    ASSUME Inv, error = "NO", NEW implicit \in BOOLEAN,
           state = IF implicit THEN "IMPLICIT_DOCUMENT_START" ELSE "DOCUMENT_START",
           parse_document_start(implicit)
    PROVE  StepTyped /\ StepKind /\ DirectivesTyped(tag_directives')
<1>1. /\ TypeOK /\ tokens \in Seq(Tokens) /\ states \in Seq(States) /\ marks \in Seq(Nat)
      /\ DirectivesTyped(tag_directives)
  BY DEF Inv, TypeOK, DirectivesTyped
<1>2. PICK n \in 0..Len(tokens) :
         \/ PeekFailed(states, marks, Drop(tokens, n)) /\ UNCHANGED tag_directives
         \/ /\ Drop(tokens, n) # <<>>
            /\ Return(Bare("STREAM_END"), "END", states, marks, Tail(Drop(tokens, n)))
            /\ UNCHANGED tag_directives
         \/ process_directives_failed(Drop(tokens, n))
         \/ implicit /\ parse_implicit_document(Drop(tokens, n))
         \/ parse_explicit_document(Drop(tokens, n))
  BY DEF parse_document_start, Sees
<1>3. n \in Nat
  BY <1>1, LenProperties
<1>4. Drop(tokens, n) \in Seq(Tokens)
  BY <1>1, <1>3, DropType DEF Drop
<1>5. /\ Bare("STREAM_END") \in Events /\ Bare("STREAM_END").type = "STREAM_END"
      /\ "END" \in States
  BY DEF Bare, Event, Events, NoTag, States, BetweenStates
<1>6. CASE PeekFailed(states, marks, Drop(tokens, n)) /\ UNCHANGED tag_directives
  BY <1>1, <1>4, <1>6, PeekFailedOutcome DEF StepKind
<1>7. CASE /\ Drop(tokens, n) # <<>>
           /\ Return(Bare("STREAM_END"), "END", states, marks, Tail(Drop(tokens, n)))
           /\ UNCHANGED tag_directives
  <2>1. Tail(Drop(tokens, n)) \in Seq(Tokens)
    BY <1>4, <1>7, HeadTail
  <2> QED
    BY <1>1, <1>5, <1>7, <2>1, ReturnOutcome DEF StepKind, DocumentStep
<1>8. CASE process_directives_failed(Drop(tokens, n))
  BY <1>4, <1>8, DirectivesFailedStep DEF StepKind
<1>9. CASE implicit /\ parse_implicit_document(Drop(tokens, n))
  BY <1>4, <1>9, ImplicitDocumentStep
<1>10. CASE parse_explicit_document(Drop(tokens, n))
  BY <1>4, <1>10, ExplicitDocumentStep
<1> QED
  BY <1>2, <1>6, <1>7, <1>8, <1>9, <1>10

-----------------------------------------------------------------------------
(* The inductive invariant.                                                *)

\* One call of yaml_parser_parse: state_machine, one case per state.
LEMMA ParseStep ==
    ASSUME Inv, Parse
    PROVE  error = "NO" /\ StepTyped /\ StepKind /\ DirectivesTyped(tag_directives')
<1>1. error = "NO" /\ state_machine
  BY DEF Parse, Finished
<1>2. DirectivesTyped(tag_directives) /\ DirectivesTyped(NoDirectives)
  BY DEF Inv, TypeOK, DirectivesTyped, NoDirectives
<1>3. CASE state = "STREAM_START" /\ parse_stream_start
  BY <1>1, <1>2, <1>3, StreamStartStep DEF parse_stream_start
<1>4. CASE state = "IMPLICIT_DOCUMENT_START" /\ parse_document_start(TRUE)
  BY <1>1, <1>4, DocumentStartStep
<1>5. CASE state = "DOCUMENT_START" /\ parse_document_start(FALSE)
  BY <1>1, <1>5, DocumentStartStep
<1>6. CASE state = "DOCUMENT_CONTENT" /\ parse_document_content
  BY <1>1, <1>2, <1>6, DocumentContentStep DEF parse_document_content
<1>7. CASE state = "DOCUMENT_END" /\ parse_document_end
  BY <1>1, <1>2, <1>7, DocumentEndStep DEF parse_document_end
<1>8. CASE /\ state = "BLOCK_NODE"
           /\ parse_node(tokens, states, marks, TRUE, FALSE)
           /\ UNCHANGED tag_directives
  BY <1>1, <1>2, <1>8, RootNodeStep DEF RootStates
<1>9. CASE state = "BLOCK_SEQUENCE_FIRST_ENTRY" /\ parse_block_sequence_entry(TRUE)
  BY <1>1, <1>2, <1>9, BlockSequenceStep DEF parse_block_sequence_entry
<1>10. CASE state = "BLOCK_SEQUENCE_ENTRY" /\ parse_block_sequence_entry(FALSE)
  BY <1>1, <1>2, <1>10, BlockSequenceStep DEF parse_block_sequence_entry
<1>11. CASE state = "INDENTLESS_SEQUENCE_ENTRY" /\ parse_indentless_sequence_entry
  BY <1>1, <1>2, <1>11, IndentlessStep DEF parse_indentless_sequence_entry
<1>12. CASE state = "BLOCK_MAPPING_FIRST_KEY" /\ parse_block_mapping_key(TRUE)
  BY <1>1, <1>2, <1>12, BlockMappingKeyStep DEF parse_block_mapping_key
<1>13. CASE state = "BLOCK_MAPPING_KEY" /\ parse_block_mapping_key(FALSE)
  BY <1>1, <1>2, <1>13, BlockMappingKeyStep DEF parse_block_mapping_key
<1>14. CASE state = "BLOCK_MAPPING_VALUE" /\ parse_block_mapping_value
  BY <1>1, <1>2, <1>14, BlockMappingValueStep DEF parse_block_mapping_value
<1>15. CASE state = "FLOW_SEQUENCE_FIRST_ENTRY" /\ parse_flow_sequence_entry(TRUE)
  BY <1>1, <1>2, <1>15, FlowSequenceStep DEF parse_flow_sequence_entry
<1>16. CASE state = "FLOW_SEQUENCE_ENTRY" /\ parse_flow_sequence_entry(FALSE)
  BY <1>1, <1>2, <1>16, FlowSequenceStep DEF parse_flow_sequence_entry
<1>17. CASE /\ state = "FLOW_SEQUENCE_ENTRY_MAPPING_KEY"
            /\ parse_flow_sequence_entry_mapping_key
  BY <1>1, <1>2, <1>17, PairKeyStep DEF parse_flow_sequence_entry_mapping_key
<1>18. CASE /\ state = "FLOW_SEQUENCE_ENTRY_MAPPING_VALUE"
            /\ parse_flow_sequence_entry_mapping_value
  BY <1>1, <1>2, <1>18, PairValueStep DEF parse_flow_sequence_entry_mapping_value
<1>19. CASE /\ state = "FLOW_SEQUENCE_ENTRY_MAPPING_END"
            /\ parse_flow_sequence_entry_mapping_end
  BY <1>1, <1>2, <1>19, PairEndStep DEF parse_flow_sequence_entry_mapping_end
<1>20. CASE state = "FLOW_MAPPING_FIRST_KEY" /\ parse_flow_mapping_key(TRUE)
  BY <1>1, <1>2, <1>20, FlowMappingKeyStep DEF parse_flow_mapping_key
<1>21. CASE state = "FLOW_MAPPING_KEY" /\ parse_flow_mapping_key(FALSE)
  BY <1>1, <1>2, <1>21, FlowMappingKeyStep DEF parse_flow_mapping_key
<1>22. CASE state = "FLOW_MAPPING_VALUE" /\ parse_flow_mapping_value(FALSE)
  BY <1>1, <1>2, <1>22, FlowMappingValueStep DEF parse_flow_mapping_value
<1>23. CASE state = "FLOW_MAPPING_EMPTY_VALUE" /\ parse_flow_mapping_value(TRUE)
  BY <1>1, <1>2, <1>23, FlowMappingValueStep DEF parse_flow_mapping_value
<1> QED
  BY <1>1, <1>3, <1>4, <1>5, <1>6, <1>7, <1>8, <1>9, <1>10, <1>11, <1>12, <1>13,
     <1>14, <1>15, <1>16, <1>17, <1>18, <1>19, <1>20, <1>21, <1>22, <1>23
     DEF state_machine

\* Which step keeps the stacks in order.
Kept == StatesWellFormed' /\ MarksMatchCollections' /\ FirstStateSeesOpening'

\* Steps that end outside the state of a first entry.
LEMMA KeptIfFit ==
    ASSUME NEW types, NEW to, NEW sts, NEW mks, Moved(to, sts, mks, types),
           StatesFit(sts, to), MarksFit(mks, sts, to), to \notin FirstStates
    PROVE  Kept
BY DEF Kept, Moved, StatesWellFormed, MarksMatchCollections, FirstStateSeesOpening

\* Steps that open a collection.
LEMMA KeptIfEntered ==
    ASSUME NEW sts, NEW mks, Entered(sts, mks),
           \A to \in FirstStates \cup {"INDENTLESS_SEQUENCE_ENTRY"} :
              StatesFit(sts, to) /\ MarksFit(mks, sts, to)
    PROVE  Kept
<1>1. state' \in FirstStates \cup {"INDENTLESS_SEQUENCE_ENTRY"}
  BY CollectionStates DEF Entered
<1>2. StatesFit(states', state') /\ MarksFit(marks', states', state')
  BY <1>1 DEF Entered
<1>3. StatesWellFormed' /\ MarksMatchCollections'
  BY <1>2 DEF StatesWellFormed, MarksMatchCollections
<1>4. FirstStateSeesOpening'
  BY CollectionStates DEF Entered, FirstStateSeesOpening
<1> QED
  BY <1>3, <1>4 DEF Kept

\* Whatever a call of yaml_parser_parse ends with keeps the inductive invariant.
LEMMA StepKeeps ==
    ASSUME Inv, error = "NO", StepKind
    PROVE  Kept
<1>1. /\ states \in Seq(States) /\ marks \in Seq(Nat) /\ state \in States
      /\ StatesFit(states, state) /\ MarksFit(marks, states, state)
  BY DEF Inv, TypeOK, StatesWellFormed, MarksMatchCollections
<1>2. state \notin BetweenStates => states # <<>>
  BY <1>1 DEF StatesFit
<1>3. \A to \in FirstStates \cup {"INDENTLESS_SEQUENCE_ENTRY"} :
         to \notin BetweenStates /\ to \notin RootStates /\ to \notin MarkedStates
  BY DEF FirstStates, BetweenStates, RootStates, MarkedStates
<1>4. \A to \in ReturnStates :
         /\ to \notin BetweenStates /\ to \notin RootStates /\ to \notin FirstStates
         /\ to \in States
  BY DEF FirstStates, BetweenStates, RootStates, MarkedStates, ReturnStates, States
<1>5. ASSUME states # <<>>, NEW mks \in Seq(Nat), NEW types,
             MarksFit(mks, Front(states), Last(states)),
             Moved(Last(states), Front(states), mks, types)
      PROVE  Kept
  <2>1. /\ StatesFit(Front(states), Last(states))
        /\ Last(states) \in ReturnStates \cup {"DOCUMENT_END"}
    BY <1>1, <1>5, StatesPop
  <2>2. Last(states) \notin FirstStates
    BY <1>4, <2>1 DEF FirstStates
  <2> QED
    BY <1>5, <2>1, <2>2, KeptIfFit
<1>6. CASE Failed
  <2>1. CASE error' # "NO"
    BY <2>1 DEF Kept, StatesWellFormed, MarksMatchCollections, FirstStateSeesOpening
  <2>2. CASE /\ error' = "NO" /\ state \in BetweenStates
             /\ state' = state /\ states' = states /\ marks' = marks
    <3>1. state \notin FirstStates
      BY <2>2 DEF BetweenStates, FirstStates
    <3> QED
      BY <1>1, <2>2, <3>1
         DEF Kept, StatesWellFormed, MarksMatchCollections, FirstStateSeesOpening
  <2> QED
    BY <1>6, <2>1, <2>2 DEF Failed
<1>7. CASE NodeStep
  <2>1. states # <<>>
    <3>1. FrameOf(state) \in {"seq", "key", "value", "pairkey", "pairvalue"}
      BY <1>7 DEF NodeStep
    <3>2. state \notin BetweenStates
      BY <3>1 DEF FrameOf, BetweenStates, RootStates
    <3> QED
      BY <1>2, <3>2
  <2>2. PICK to \in ReturnStates, mks \in Seq(Nat) :
           /\ MarksFit(mks, states, to)
           /\ \/ Moved(to, states, mks, LeafTypes)
              \/ Entered(Append(states, to), mks)
    BY <1>7 DEF NodeStep
  <2>3. CASE Moved(to, states, mks, LeafTypes)
    BY <1>1, <1>4, <2>1, <2>2, <2>3, StatesMove, KeptIfFit
  <2>4. CASE Entered(Append(states, to), mks)
    <3>1. \A st \in FirstStates \cup {"INDENTLESS_SEQUENCE_ENTRY"} :
             StatesFit(Append(states, to), st)
      BY <1>1, <2>1, StatesPush
    <3>2. \A st \in FirstStates \cup {"INDENTLESS_SEQUENCE_ENTRY"} :
             MarksFit(mks, Append(states, to), st)
      BY <1>1, <1>3, <1>4, <2>2, MarksPush
    <3> QED
      BY <2>4, <3>1, <3>2, KeptIfEntered
  <2> QED
    BY <2>2, <2>3, <2>4
<1>8. CASE RootStep
  <2>1. state \in RootStates /\ state \notin MarkedStates /\ states # <<>>
    BY <1>2, <1>8 DEF RootStep, RootStates, MarkedStates, BetweenStates
  <2>2. CASE Moved(Last(states), Front(states), marks, LeafTypes)
    <3>1. MarksFit(marks, Front(states), Last(states))
      BY <1>1, <2>1, MarksPop
    <3> QED
      BY <1>1, <1>5, <2>1, <2>2, <3>1
  <2>3. CASE Entered(states, marks)
    <3>1. \A st \in FirstStates \cup {"INDENTLESS_SEQUENCE_ENTRY"} :
             StatesFit(states, st) /\ MarksFit(marks, states, st)
      BY <1>1, <1>3, <2>1, StatesMove, MarksMove
    <3> QED
      BY <2>3, <3>1, KeptIfEntered
  <2> QED
    BY <1>8, <2>2, <2>3 DEF RootStep
<1>9. CASE CloseStep
  <2>1. states # <<>>
    <3>1. FrameOf(state) \in {"seq", "key"} \/ state = "INDENTLESS_SEQUENCE_ENTRY"
      BY <1>9 DEF CloseStep
    <3>2. state \notin BetweenStates
      BY <3>1 DEF FrameOf, BetweenStates, RootStates
    <3> QED
      BY <1>2, <3>2
  <2>2. ASSUME NEW mks \in Seq(Nat), NEW st \in MarkedStates, MarksFit(mks, states, st),
               NEW types, Moved(Last(states), Front(states), Front(mks), types)
        PROVE  Kept
    <3>1. MarksFit(Front(mks), Front(states), Last(states)) /\ Front(mks) \in Seq(Nat)
      BY <1>1, <2>1, <2>2, MarksClose, FrontType
    <3> QED
      BY <1>5, <2>1, <2>2, <3>1
  <2>3. CASE /\ state = "INDENTLESS_SEQUENCE_ENTRY"
             /\ Moved(Last(states), Front(states), marks, {"SEQUENCE_END"})
    <3>1. state \notin MarkedStates
      BY <2>3 DEF MarkedStates
    <3>2. MarksFit(marks, Front(states), Last(states))
      BY <1>1, <2>1, <3>1, MarksPop
    <3> QED
      BY <1>1, <1>5, <2>1, <2>3, <3>2
  <2> QED
    BY <1>9, <2>2, <2>3 DEF CloseStep
<1>10. CASE PairStep
  <2>1. states # <<>>
    <3>1. FrameOf(state) = "seq" \/ state = "FLOW_SEQUENCE_ENTRY_MAPPING_END"
      BY <1>10 DEF PairStep
    <3>2. state \notin BetweenStates
      BY <3>1 DEF FrameOf, BetweenStates, RootStates
    <3> QED
      BY <1>2, <3>2
  <2>2. ASSUME NEW to \in {"FLOW_SEQUENCE_ENTRY_MAPPING_KEY", "FLOW_SEQUENCE_ENTRY"},
               NEW mks, MarksFit(mks, states, to), NEW types, Moved(to, states, mks, types)
        PROVE  Kept
    <3>1. to \notin BetweenStates /\ to \notin RootStates /\ to \notin FirstStates
      BY DEF BetweenStates, RootStates, FirstStates
    <3> QED
      BY <1>1, <2>1, <2>2, <3>1, StatesMove, KeptIfFit
  <2>3. CASE /\ state = "FLOW_SEQUENCE_ENTRY_MAPPING_END"
             /\ Moved("FLOW_SEQUENCE_ENTRY", states, marks, {"MAPPING_END"})
    <3>1. state \in MarkedStates /\ "FLOW_SEQUENCE_ENTRY" \in MarkedStates
      BY <2>3 DEF MarkedStates
    <3>2. MarksFit(marks, states, "FLOW_SEQUENCE_ENTRY")
      BY <1>1, <3>1, MarksMove
    <3> QED
      BY <2>2, <2>3, <3>2
  <2> QED
    BY <1>10, <2>2, <2>3 DEF PairStep
<1>11. CASE DocumentStep
  <2>1. state \in BetweenStates /\ state \notin MarkedStates /\ states = <<>>
    BY <1>1, <1>11 DEF DocumentStep, BetweenStates, MarkedStates, StatesFit
  <2>2. ASSUME NEW to \in BetweenStates, NEW types, Moved(to, states, marks, types)
        PROVE  Kept
    <3>1. to \notin RootStates /\ to \notin FirstStates /\ to \notin MarkedStates
      BY DEF BetweenStates, RootStates, FirstStates, MarkedStates
    <3>2. StatesFit(states, to) /\ MarksFit(marks, states, to)
      BY <1>1, <2>1, <3>1, MarksMove DEF StatesFit
    <3> QED
      BY <2>2, <3>1, <3>2, KeptIfFit
  <2>3. ASSUME NEW to \in RootStates, NEW types,
               Moved(to, Append(states, "DOCUMENT_END"), marks, types)
        PROVE  Kept
    <3> DEFINE s == Append(states, "DOCUMENT_END")
    <3>1. to \notin BetweenStates /\ to \notin FirstStates /\ to \notin MarkedStates
      BY DEF BetweenStates, RootStates, FirstStates, MarkedStates
    <3>2. "DOCUMENT_END" \in States /\ "DOCUMENT_END" \notin MarkedStates
      BY DEF States, BetweenStates, MarkedStates
    <3>3. s # <<>> /\ Len(s) = 1 /\ s[1] = "DOCUMENT_END"
      BY <1>1, <2>1, <3>2, PushPop
    <3>4. StatesFit(s, to)
      <4> HIDE DEF s
      <4> QED
        BY <3>1, <3>3 DEF StatesFit
    <3>5. MarksFit(marks, states, "DOCUMENT_END")
      BY <1>1, <2>1, <3>2, MarksMove
    <3>6. MarksFit(marks, s, to)
      BY <1>1, <3>1, <3>2, <3>5, MarksPush
    <3> QED
      BY <2>3, <3>1, <3>4, <3>6, KeptIfFit
  <2>4. "IMPLICIT_DOCUMENT_START" \in BetweenStates /\ "END" \in BetweenStates
        /\ "DOCUMENT_START" \in BetweenStates
    BY DEF BetweenStates
  <2> QED
    BY <1>11, <2>2, <2>3, <2>4 DEF DocumentStep
<1> QED
  BY <1>6, <1>7, <1>8, <1>9, <1>10, <1>11 DEF StepKind

\* A parser that yaml_parser_initialize has just set up satisfies the invariant.
LEMMA InitInv == Init => Inv
<1> SUFFICES ASSUME Init PROVE Inv
  OBVIOUS
<1>1. TypeOK
  <2>1. NoEvent \in Events
    BY DEF NoEvent, Bare, Event, Events, NoTag
  <2>2. "STREAM_START" \in States
    BY DEF States, BetweenStates
  <2>3. DirectivesTyped(NoDirectives)
    BY DEF DirectivesTyped, NoDirectives
  <2>4. <<>> \in Seq(Tokens) /\ <<>> \in Seq(States) /\ <<>> \in Seq(Nat)
    BY EmptySeq
  <2>5. /\ DOMAIN tag_directives \subseteq Handles
        /\ \A h \in DOMAIN tag_directives : tag_directives[h] \in {"default", "custom"}
    BY <2>3 DEF Init, DirectivesTyped
  <2> QED
    BY <2>1, <2>2, <2>4, <2>5 DEF Init, TypeOK
<1>2. StatesFit(states, state)
  BY DEF Init, StatesFit, BetweenStates, RootStates
<1>3. MarksFit(marks, states, state)
  BY DEF Init, MarksFit, MarkedStates
<1>4. state \notin FirstStates
  BY DEF Init, FirstStates
<1> QED
  BY <1>1, <1>2, <1>3, <1>4
     DEF Inv, StatesWellFormed, MarksMatchCollections, FirstStateSeesOpening

\* Another token at the end of the queue.
LEMMA FetchStep ==
    ASSUME Inv, fetch_more_tokens
    PROVE  Inv'
<1>1. PICK t \in Fetchable : tokens' = Append(tokens, t)
  BY DEF fetch_more_tokens
<1>2. t \in Tokens
  <2>1. \A type \in {"NULL", "STREAM_START", "STREAM_END"} : Token(type, "") \in Tokens
    BY DEF Token, Tokens, PlainTypes
  <2>2. Alphabet \subseteq Tokens
    BY ParserAssumption
  <2> QED
    BY <2>1, <2>2 DEF Fetchable
<1>3. tokens' \in Seq(Tokens) /\ (tokens # <<>> => tokens' # <<>> /\ Head(tokens') = Head(tokens))
  BY <1>1, <1>2, AppendProperties, HeadTailAppend DEF Inv, TypeOK
<1>4. UNCHANGED <<state, states, marks, tag_directives, stream_end_produced, error,
                  event, result>> /\ fetched' = fetched + 1
  BY DEF fetch_more_tokens
<1>5. TypeOK'
  BY <1>3, <1>4 DEF Inv, TypeOK
<1>6. StatesWellFormed' /\ MarksMatchCollections'
  BY <1>4 DEF Inv, StatesWellFormed, MarksMatchCollections
<1>7. FirstStateSeesOpening'
  BY <1>3, <1>4 DEF Inv, FirstStateSeesOpening
<1> QED
  BY <1>5, <1>6, <1>7 DEF Inv

\* Steps that leave everything but the event and the result alone.
LEMMA IdleStep ==
    ASSUME Inv, ParseNothing \/ UNCHANGED vars
    PROVE  Inv'
<1>1. UNCHANGED <<tokens, fetched, state, states, marks, tag_directives,
                  stream_end_produced, error>>
  BY DEF ParseNothing, vars
<1>2. event' \in Events /\ result' \in {"OK", "FAIL"}
  <2>1. NoEvent \in Events
    BY DEF NoEvent, Bare, Event, Events, NoTag
  <2>2. event \in Events /\ result \in {"OK", "FAIL"}
    BY DEF Inv, TypeOK
  <2> QED
    BY <2>1, <2>2 DEF ParseNothing, vars
<1>3. TypeOK'
  BY <1>1, <1>2 DEF Inv, TypeOK
<1> QED
  BY <1>1, <1>3
     DEF Inv, StatesWellFormed, MarksMatchCollections, FirstStateSeesOpening

\* Every call, and every token the scanner delivers, keeps the invariant.
LEMMA NextInv == Inv /\ [Next]_vars => Inv'
<1> SUFFICES ASSUME Inv, [Next]_vars PROVE Inv'
  OBVIOUS
<1>1. CASE Parse
  <2>1. error = "NO" /\ StepTyped /\ StepKind /\ DirectivesTyped(tag_directives')
    BY <1>1, ParseStep
  <2>2. Kept
    BY <2>1, StepKeeps
  <2>3. TypeOK'
    BY <1>1, <2>1 DEF StepTyped, DirectivesTyped, TypeOK, Parse, Inv
  <2> QED
    BY <2>2, <2>3 DEF Kept, Inv
<1>2. CASE ParseNothing \/ UNCHANGED vars
  BY <1>2, IdleStep
<1>3. CASE fetch_more_tokens
  BY <1>3, FetchStep
<1> QED
  BY <1>1, <1>2, <1>3 DEF Next

\* The inductive invariant holds in every reachable state.
THEOREM InvHolds == Spec => []Inv
BY InitInv, NextInv, PTL DEF Spec

\* The parser's variables keep their types, whatever the scanner delivers.
THEOREM TypeCorrect == Spec => []TypeOK
BY InvHolds, PTL DEF Inv

\* POP(states) never meets an empty stack and always finds a state that goes
\* on with what was interrupted (parser.rs, every use of POP!).
THEOREM StatesStackSafe == Spec => []StatesWellFormed
BY InvHolds, PTL DEF Inv

\* POP(marks) never meets an empty stack and takes the mark of the collection
\* that is being closed.
THEOREM MarksStackSafe == Spec => []MarksMatchCollections
BY InvHolds, PTL DEF Inv

\* The token a first entry skips unseen is the one that opened its collection.
THEOREM OpeningTokenSkipped == Spec => []FirstStateSeesOpening
BY InvHolds, PTL DEF Inv

-----------------------------------------------------------------------------
(* Refinement of EventStream.                                              *)

Below(sts) == [i \in 1..Len(sts) |-> FrameOf(sts[i])]
FrameNames == {"stream", "docs", "docend", "node", "seq", "key", "value", "pairkey",
               "pairvalue", "pairend", "done"}

\* Every state of the parser has a frame of EventStream.
LEMMA FrameNamed == \A st : FrameOf(st) \in FrameNames
BY DEF FrameOf, FrameNames

\* The frames are those of the stack of states with the state's own on top.
LEMMA FramesFacts ==
    ASSUME NEW sts \in Seq(States), NEW st
    PROVE  /\ Below(sts) \in Seq(FrameNames)
           /\ Len(Below(sts)) = Len(sts)
           /\ Frames(sts, st) = Append(Below(sts), FrameOf(st))
           /\ Last(Frames(sts, st)) = FrameOf(st)
           /\ Front(Frames(sts, st)) = Below(sts)
<1>1. Len(sts) \in Nat
  BY LenProperties
<1>2. Below(sts) \in [1..Len(sts) -> FrameNames]
  BY FrameNamed DEF Below
<1>3. Below(sts) \in Seq(FrameNames) /\ Len(Below(sts)) = Len(sts)
  BY <1>1, <1>2
<1>4. Frames(sts, st) = Append(Below(sts), FrameOf(st))
  BY DEF Frames, Below
<1>5. FrameOf(st) \in FrameNames
  BY FrameNamed
<1> QED
  BY <1>3, <1>4, <1>5, PushPop

\* PUSH(states) leaves the frames below as they were.
LEMMA BelowPush ==
    ASSUME NEW sts \in Seq(States), NEW st \in States
    PROVE  Below(Append(sts, st)) = Frames(sts, st)
<1> DEFINE s == Append(sts, st)  b == Below(s)  c == Append(Below(sts), FrameOf(st))
<1>1. /\ s \in Seq(States)
      /\ Len(s) = Len(sts) + 1
      /\ \A i \in 1..Len(sts) : s[i] = sts[i]
      /\ s[Len(sts) + 1] = st
      /\ Len(sts) \in Nat
  BY PushPop, LenProperties
<1>2. /\ b \in Seq(FrameNames) /\ Len(b) = Len(s)
      /\ Below(sts) \in Seq(FrameNames) /\ Len(Below(sts)) = Len(sts)
      /\ Frames(sts, st) = c
  BY <1>1, FramesFacts
<1>3. /\ c \in Seq(FrameNames) /\ Len(c) = Len(sts) + 1
      /\ \A i \in 1..Len(sts) : c[i] = Below(sts)[i]
      /\ c[Len(sts) + 1] = FrameOf(st)
  BY <1>2, FrameNamed, PushPop
<1>4. /\ \A i \in 1..Len(sts) : Below(sts)[i] = FrameOf(sts[i])
      /\ \A i \in 1..Len(s) : b[i] = FrameOf(s[i])
  BY DEF Below
<1> HIDE DEF s, b, c
<1>5. \A i \in 1..Len(b) : b[i] = c[i]
  <2> TAKE i \in 1..Len(b)
  <2>1. CASE i = Len(sts) + 1
    BY <1>1, <1>2, <1>3, <1>4, <2>1
  <2>2. CASE i \in 1..Len(sts)
    BY <1>1, <1>2, <1>3, <1>4, <2>2
  <2> QED
    BY <1>1, <1>2, <2>1, <2>2
<1>6. b = c
  BY <1>1, <1>2, <1>3, <1>5, SeqEqual
<1> QED
  BY <1>2, <1>6 DEF b, s

\* POP(states) uncovers the frame below.
LEMMA BelowPop ==
    ASSUME NEW sts \in Seq(States), sts # <<>>
    PROVE  Frames(Front(sts), Last(sts)) = Below(sts)
<1> DEFINE s == Front(sts)  n == Len(sts)  b == Below(sts)
           c == Append(Below(s), FrameOf(Last(sts)))
<1>1. /\ n \in Nat \ {0}
      /\ s \in Seq(States)
      /\ Len(s) = n - 1
      /\ \A i \in 1..(n - 1) : s[i] = sts[i]
      /\ Last(sts) = sts[n]
  BY PopFacts
<1>2. /\ b \in Seq(FrameNames) /\ Len(b) = n
      /\ Below(s) \in Seq(FrameNames) /\ Len(Below(s)) = n - 1
      /\ Frames(s, Last(sts)) = c
  BY <1>1, FramesFacts
<1>3. /\ c \in Seq(FrameNames) /\ Len(c) = n - 1 + 1
      /\ \A i \in 1..(n - 1) : c[i] = Below(s)[i]
      /\ c[n - 1 + 1] = FrameOf(Last(sts))
  BY <1>2, FrameNamed, PushPop
<1>4. /\ \A i \in 1..(n - 1) : Below(s)[i] = FrameOf(s[i])
      /\ \A i \in 1..n : b[i] = FrameOf(sts[i])
  BY <1>1 DEF Below
<1> HIDE DEF s, b, c
<1>5. \A i \in 1..Len(b) : b[i] = c[i]
  <2> TAKE i \in 1..Len(b)
  <2>1. CASE i = n
    BY <1>1, <1>2, <1>3, <1>4, <2>1
  <2>2. CASE i \in 1..(n - 1)
    BY <1>1, <1>2, <1>3, <1>4, <2>2
  <2> QED
    BY <1>1, <1>2, <2>1, <2>2
<1>6. b = c
  BY <1>1, <1>2, <1>3, <1>5, SeqEqual
<1> QED
  BY <1>2, <1>6 DEF b, s

\* A call of yaml_parser_parse gives an event the frames allow, or fails.
LEMMA StepRefines ==
    ASSUME Inv, error = "NO", StepKind
    PROVE  Stream!StreamNext
<1>1. states \in Seq(States) /\ state \in States /\ StatesFit(states, state)
  BY DEF Inv, TypeOK, StatesWellFormed
<1>2. /\ FramesOf = Frames(states, state)
      /\ Stream!Last(FramesOf) = FrameOf(state)
      /\ Stream!Front(FramesOf) = Below(states)
  BY <1>1, FramesFacts DEF FramesOf, Last, Front, Stream!Last, Stream!Front
<1>3. \A st : Append(Below(states), FrameOf(st)) = Frames(states, st)
  BY <1>1, FramesFacts
<1>4. ASSUME NEW to, NEW sts, NEW mks, NEW types, Moved(to, sts, mks, types)
      PROVE  FramesOf' = Frames(sts, to) /\ (event.type)' \in types
  BY <1>4 DEF Moved, FramesOf
<1>5. ASSUME NEW sts \in Seq(States), NEW mks, Entered(sts, mks)
      PROVE  \/ FramesOf' = Append(Below(sts), "seq") /\ (event.type)' = "SEQUENCE_START"
             \/ FramesOf' = Append(Below(sts), "key") /\ (event.type)' = "MAPPING_START"
  <2>1. FramesOf' = Frames(sts, state')
    BY <1>5 DEF Entered, FramesOf
  <2>2. FramesOf' = Append(Below(sts), FrameOf(state'))
    BY <2>1, FramesFacts
  <2>3. \/ FrameOf(state') = "seq" /\ (event.type)' = "SEQUENCE_START"
        \/ FrameOf(state') = "key" /\ (event.type)' = "MAPPING_START"
    BY <1>5 DEF Entered, SequenceFirst, MappingFirst, FrameOf, RootStates
  <2> QED
    BY <2>2, <2>3
<1>6. ASSUME states # <<>>
      PROVE  Frames(Front(states), Last(states)) = Stream!Front(FramesOf)
  BY <1>1, <1>2, <1>6, BelowPop
<1>7. CASE Failed
  <2>1. (event.type)' = "NO"
    BY <1>7 DEF Failed, NoEvent, Bare, Event
  <2>2. FramesOf' \in {FramesOf, <<"aborted">>}
    <3>1. CASE error' # "NO"
      BY <3>1 DEF FramesOf
    <3>2. CASE error' = "NO" /\ state' = state /\ states' = states
      BY <3>2 DEF FramesOf
    <3> QED
      BY <1>7, <3>1, <3>2 DEF Failed
  <2> QED
    BY <2>1, <2>2 DEF Stream!StreamNext, Stream!Nothing
<1>8. CASE NodeStep
  <2>1. PICK to \in ReturnStates, mks \in Seq(Nat) :
           /\ FrameOf(state) \in {"seq", "key", "value", "pairkey", "pairvalue"}
           /\ FrameOf(to) = Stream!Followed(FrameOf(state))
           /\ \/ Moved(to, states, mks, LeafTypes)
              \/ Entered(Append(states, to), mks)
    BY <1>8 DEF NodeStep
  <2>2. /\ Stream!Last(FramesOf) \in Stream!NodeFrames
        /\ Stream!AfterNode(FramesOf) = Append(Below(states), FrameOf(to))
    BY <1>2, <2>1 DEF Stream!NodeFrames, Stream!AfterNode
  <2>3. CASE Moved(to, states, mks, LeafTypes)
    <3>1. FramesOf' = Frames(states, to) /\ (event.type)' \in LeafTypes
      BY <1>4, <2>3
    <3> QED
      BY <1>3, <2>2, <3>1 DEF LeafTypes, Stream!StreamNext, Stream!Leaf
  <2>4. CASE Entered(Append(states, to), mks)
    <3>1. to \in States
      BY DEF ReturnStates, States
    <3>2. /\ Append(states, to) \in Seq(States)
          /\ Below(Append(states, to)) = Append(Below(states), FrameOf(to))
      BY <1>1, <1>3, <3>1, BelowPush, PushPop
    <3>3. \/ /\ FramesOf' = Append(Stream!AfterNode(FramesOf), "seq")
             /\ (event.type)' = "SEQUENCE_START"
          \/ /\ FramesOf' = Append(Stream!AfterNode(FramesOf), "key")
             /\ (event.type)' = "MAPPING_START"
      BY <1>5, <2>2, <2>4, <3>2
    <3> QED
      BY <2>2, <3>3 DEF Stream!StreamNext, Stream!CollectionStart
  <2> QED
    BY <2>1, <2>3, <2>4
<1>9. CASE RootStep
  <2>1. FrameOf(state) = "node" /\ states # <<>>
    BY <1>1, <1>9 DEF RootStep, RootStates, FrameOf, StatesFit, BetweenStates
  <2>2. /\ Stream!Last(FramesOf) \in Stream!NodeFrames
        /\ Stream!AfterNode(FramesOf) = Below(states)
    BY <1>2, <2>1 DEF Stream!NodeFrames, Stream!AfterNode
  <2>3. CASE Moved(Last(states), Front(states), marks, LeafTypes)
    <3>1. FramesOf' = Stream!Front(FramesOf) /\ (event.type)' \in LeafTypes
      BY <1>4, <1>6, <2>1, <2>3
    <3> QED
      BY <1>2, <2>2, <3>1 DEF LeafTypes, Stream!StreamNext, Stream!Leaf
  <2>4. CASE Entered(states, marks)
    BY <1>1, <1>5, <2>2, <2>4 DEF Stream!StreamNext, Stream!CollectionStart
  <2> QED
    BY <1>9, <2>3, <2>4 DEF RootStep
<1>10. CASE CloseStep
  <2>1. PICK type, mks :
           /\ Moved(Last(states), Front(states), mks, {type})
           /\ \/ FrameOf(state) = "seq" /\ type = "SEQUENCE_END"
              \/ FrameOf(state) = "key" /\ type = "MAPPING_END"
    BY <1>10 DEF CloseStep, FrameOf, RootStates
  <2>2. states # <<>>
    <3>1. state \notin BetweenStates
      BY <2>1 DEF FrameOf, BetweenStates, RootStates
    <3> QED
      BY <1>1, <3>1 DEF StatesFit
  <2>3. FramesOf' = Stream!Front(FramesOf) /\ (event.type)' = type
    BY <1>4, <1>6, <2>1, <2>2
  <2> QED
    BY <1>2, <2>1, <2>3 DEF Stream!StreamNext, Stream!CollectionEnd
<1>11. CASE PairStep
  <2>1. CASE \E mks \in Seq(Nat) :
                /\ FrameOf(state) = "seq"
                /\ Moved("FLOW_SEQUENCE_ENTRY_MAPPING_KEY", states, mks, {"MAPPING_START"})
    <3>1. FrameOf("FLOW_SEQUENCE_ENTRY_MAPPING_KEY") = "pairkey"
      BY DEF FrameOf, RootStates
    <3> QED
      BY <1>2, <1>3, <1>4, <2>1, <3>1
         DEF Stream!StreamNext, Stream!PairStart, Stream!Replace
  <2>2. CASE /\ state = "FLOW_SEQUENCE_ENTRY_MAPPING_END"
             /\ Moved("FLOW_SEQUENCE_ENTRY", states, marks, {"MAPPING_END"})
    <3>1. FrameOf("FLOW_SEQUENCE_ENTRY") = "seq" /\ FrameOf(state) = "pairend"
      BY <2>2 DEF FrameOf, RootStates
    <3> QED
      BY <1>2, <1>3, <1>4, <2>2, <3>1
         DEF Stream!StreamNext, Stream!PairEnd, Stream!Replace
  <2> QED
    BY <1>11, <2>1, <2>2 DEF PairStep
<1>12. CASE DocumentStep
  <2>1. /\ FrameOf("STREAM_START") = "stream" /\ FrameOf("END") = "done"
        /\ FrameOf("IMPLICIT_DOCUMENT_START") = "docs" /\ FrameOf("DOCUMENT_START") = "docs"
        /\ FrameOf("DOCUMENT_END") = "docend"
        /\ \A to \in RootStates : FrameOf(to) = "node"
    BY DEF FrameOf, RootStates
  <2>2. CASE /\ state = "STREAM_START"
             /\ Moved("IMPLICIT_DOCUMENT_START", states, marks, {"STREAM_START"})
    BY <1>2, <1>3, <1>4, <2>1, <2>2 DEF Stream!StreamNext, Stream!StreamStart, Stream!Replace
  <2>3. CASE /\ state \in {"IMPLICIT_DOCUMENT_START", "DOCUMENT_START"}
             /\ Moved("END", states, marks, {"STREAM_END"})
    BY <1>2, <1>3, <1>4, <2>1, <2>3 DEF Stream!StreamNext, Stream!StreamEnd, Stream!Replace
  <2>4. CASE /\ state = "DOCUMENT_END"
             /\ Moved("DOCUMENT_START", states, marks, {"DOCUMENT_END"})
    BY <1>2, <1>3, <1>4, <2>1, <2>4 DEF Stream!StreamNext, Stream!DocumentEnd, Stream!Replace
  <2>5. ASSUME state \in {"IMPLICIT_DOCUMENT_START", "DOCUMENT_START"},
               NEW to \in RootStates,
               Moved(to, Append(states, "DOCUMENT_END"), marks, {"DOCUMENT_START"})
        PROVE  Stream!StreamNext
    <3> DEFINE s == Append(states, "DOCUMENT_END")
    <3>1. "DOCUMENT_END" \in States
      BY DEF States, BetweenStates
    <3>2. s \in Seq(States) /\ Below(s) = Append(Below(states), "docend")
      BY <1>1, <1>3, <2>1, <3>1, BelowPush, PushPop
    <3>3. FramesOf' = Frames(s, to) /\ (event.type)' = "DOCUMENT_START"
      BY <1>4, <2>5
    <3>4. Frames(s, to) = Append(Below(s), "node")
      BY <2>1, <3>2, FramesFacts
    <3>5. Stream!Last(FramesOf) = "docs"
      BY <1>2, <2>1, <2>5
    <3> QED
      BY <1>2, <3>2, <3>3, <3>4, <3>5 DEF Stream!StreamNext, Stream!DocumentStart
  <2> QED
    BY <1>12, <2>2, <2>3, <2>4, <2>5 DEF DocumentStep
<1> QED
  BY <1>7, <1>8, <1>9, <1>10, <1>11, <1>12 DEF StepKind

\* For every stream of tokens, whatever its length and alphabet, the parser's
\* events follow EventStream: they are a prefix of a well-formed stream of
\* documents, or of one that is abandoned after an error.
THEOREM ParserRefinesEventStream == Spec => ProducesEventStream
<1>1. Init => Stream!StreamInit
  <2> SUFFICES ASSUME Init PROVE Stream!StreamInit
    OBVIOUS
  <2>1. FrameOf("STREAM_START") = "stream"
    BY DEF FrameOf, RootStates
  <2>2. FramesOf = Append(<<>>, "stream")
    BY <2>1 DEF Init, FramesOf, Frames
  <2>3. event.type = "NO"
    BY DEF Init, NoEvent, Bare, Event
  <2> QED
    BY <2>2, <2>3 DEF Stream!StreamInit
<1>2. Inv /\ [Next]_vars => [Stream!StreamNext]_<<FramesOf, event.type>>
  <2> SUFFICES ASSUME Inv, [Next]_vars
               PROVE  [Stream!StreamNext]_<<FramesOf, event.type>>
    OBVIOUS
  <2>1. CASE Parse
    BY <2>1, ParseStep, StepRefines
  <2>2. CASE ParseNothing
    <3>1. FramesOf' = FramesOf /\ (event.type)' = "NO"
      BY <2>2 DEF ParseNothing, FramesOf, NoEvent, Bare, Event
    <3> QED
      BY <3>1 DEF Stream!StreamNext, Stream!Nothing
  <2>3. CASE fetch_more_tokens \/ UNCHANGED vars
    BY <2>3 DEF fetch_more_tokens, vars, FramesOf
  <2> QED
    BY <2>1, <2>2, <2>3 DEF Next
<1> QED
  BY <1>1, <1>2, InvHolds, PTL DEF Spec, ProducesEventStream, Stream!StreamSpec, Stream!streamVars

-----------------------------------------------------------------------------
(* Tag directives last as long as their document.                          *)

\* The table of a document that starts, over the empty table between documents.
LEMMA FreshTable ==
    ASSUME tag_directives = NoDirectives, NEW in, NEW n
    PROVE  FullTable(in, n) =
              [h \in HandlesOf(in, n) \cup DefaultHandles |->
                  IF h \in HandlesOf(in, n) THEN "custom" ELSE "default"]
<1> DEFINE H == HandlesOf(in, n)
<1> HIDE DEF H
<1>1. DOMAIN tag_directives = {}
  BY DEF NoDirectives
<1>2. append_tag_directives(H, "custom", tag_directives) = [h \in H |-> "custom"]
  BY <1>1 DEF append_tag_directives
<1>3. append_tag_directives(DefaultHandles, "default", [h \in H |-> "custom"])
         = [h \in H \cup DefaultHandles |-> IF h \in H THEN "custom" ELSE "default"]
  BY DEF append_tag_directives
<1> QED
  BY <1>2, <1>3 DEF FullTable, Table, H

\* A call outside the handlers of documents gives no DOCUMENT-START, and stays
\* inside the document or comes to its end.
LEMMA InnerStep ==
    ASSUME Inv, error = "NO", StepKind, error' = "NO", state \notin BetweenStates
    PROVE  /\ event'.type # "DOCUMENT_START"
           /\ state' \notin BetweenStates \ {"DOCUMENT_END"}
<1>1. /\ states \in Seq(States) /\ states # <<>>
      /\ \A i \in 1..Len(states) : states[i] \in ReturnStates \cup {"DOCUMENT_END"}
  <2>1. /\ states \in Seq(States) /\ states # <<>> /\ states[1] = "DOCUMENT_END"
        /\ \A i \in 2..Len(states) : states[i] \in ReturnStates
    BY DEF Inv, TypeOK, StatesWellFormed, StatesFit
  <2>2. Len(states) \in Nat
    BY <2>1, LenProperties
  <2>3. \A i \in 1..Len(states) : i = 1 \/ i \in 2..Len(states)
    BY <2>2
  <2> QED
    BY <2>1, <2>3
<1>2. Last(states) \in ReturnStates \cup {"DOCUMENT_END"}
  <2>1. Len(states) \in Nat \ {0} /\ Last(states) = states[Len(states)]
    BY <1>1, PopFacts
  <2>2. Len(states) \in 1..Len(states)
    BY <2>1
  <2> QED
    BY <1>1, <2>1, <2>2
<1>3. (ReturnStates \cup {"DOCUMENT_END"}) \cap (BetweenStates \ {"DOCUMENT_END"}) = {}
  BY DEF ReturnStates, MarkedStates, BetweenStates
<1>4. ASSUME NEW to \in ReturnStates \cup {"DOCUMENT_END"}, NEW sts, NEW mks, NEW types,
             "DOCUMENT_START" \notin types, Moved(to, sts, mks, types)
      PROVE  /\ event'.type # "DOCUMENT_START"
             /\ state' \notin BetweenStates \ {"DOCUMENT_END"}
  BY <1>3, <1>4 DEF Moved
<1>5. ASSUME NEW sts, NEW mks, Entered(sts, mks)
      PROVE  /\ event'.type # "DOCUMENT_START"
             /\ state' \notin BetweenStates \ {"DOCUMENT_END"}
  BY <1>5 DEF Entered, SequenceFirst, MappingFirst, BetweenStates
<1>6. "DOCUMENT_START" \notin LeafTypes
  BY DEF LeafTypes
<1>7. CASE Failed
  BY <1>7 DEF Failed
<1>8. CASE NodeStep
  BY <1>4, <1>5, <1>6, <1>8 DEF NodeStep
<1>9. CASE RootStep
  BY <1>2, <1>4, <1>5, <1>6, <1>9 DEF RootStep
<1>10. CASE CloseStep
  BY <1>2, <1>4, <1>10 DEF CloseStep
<1>11. CASE PairStep
  <2>1. "FLOW_SEQUENCE_ENTRY" \in ReturnStates
    BY DEF ReturnStates, MarkedStates
  <2>2. CASE Moved("FLOW_SEQUENCE_ENTRY", states, marks, {"MAPPING_END"})
    BY <1>4, <2>1, <2>2
  <2>3. CASE \E mks \in Seq(Nat) :
                Moved("FLOW_SEQUENCE_ENTRY_MAPPING_KEY", states, mks, {"MAPPING_START"})
    BY <2>3 DEF Moved, BetweenStates
  <2> QED
    BY <1>11, <2>2, <2>3 DEF PairStep
<1>12. CASE DocumentStep
  BY <1>12 DEF DocumentStep, BetweenStates
<1> QED
  BY <1>7, <1>8, <1>9, <1>10, <1>11, <1>12 DEF StepKind

\* Only the handlers of documents touch the table (state_machine's other cases).
LEMMA TableUntouched ==
    ASSUME Parse, state \notin {"IMPLICIT_DOCUMENT_START", "DOCUMENT_START", "DOCUMENT_END"}
    PROVE  UNCHANGED tag_directives
BY DEF Parse, state_machine, parse_stream_start, parse_document_content,
       parse_block_sequence_entry, parse_indentless_sequence_entry,
       parse_block_mapping_key, parse_block_mapping_value, parse_flow_sequence_entry,
       parse_flow_sequence_entry_mapping_key, parse_flow_sequence_entry_mapping_value,
       parse_flow_sequence_entry_mapping_end, parse_flow_mapping_key,
       parse_flow_mapping_value

\* parse_document_start builds the table of the document its event announces.
LEMMA StartTable ==
    ASSUME Inv, error = "NO", tag_directives = NoDirectives, NEW implicit \in BOOLEAN,
           parse_document_start(implicit), error' = "NO"
    PROVE  DirectivesOfTheDocument'
<1> DEFINE Full(H) == [h \in H \cup DefaultHandles |-> IF h \in H THEN "custom" ELSE "default"]
<1>1. PICK n \in 0..Len(tokens) :
         \/ PeekFailed(states, marks, Drop(tokens, n)) /\ UNCHANGED tag_directives
         \/ /\ Return(Bare("STREAM_END"), "END", states, marks, Tail(Drop(tokens, n)))
            /\ UNCHANGED tag_directives
         \/ process_directives_failed(Drop(tokens, n))
         \/ parse_implicit_document(Drop(tokens, n))
         \/ parse_explicit_document(Drop(tokens, n))
  BY DEF parse_document_start
<1>2. CASE PeekFailed(states, marks, Drop(tokens, n)) /\ UNCHANGED tag_directives
  BY <1>2 DEF PeekFailed, Fail
<1>3. CASE /\ Return(Bare("STREAM_END"), "END", states, marks, Tail(Drop(tokens, n)))
           /\ UNCHANGED tag_directives
  BY <1>3 DEF Return, Bare, Event, DirectivesOfTheDocument
<1>4. CASE process_directives_failed(Drop(tokens, n))
  <2>1. UNCHANGED tag_directives /\ event' = NoEvent
    BY <1>4 DEF process_directives_failed, PeekFailed, NoMemory, Fail
  <2> QED
    BY <2>1 DEF DirectivesOfTheDocument, NoEvent, Bare, Event
<1>5. CASE parse_implicit_document(Drop(tokens, n))
  <2>1. /\ tag_directives' = FullTable(Drop(tokens, n), 0)
        /\ Return(Event("DOCUMENT_START", FALSE, NoTag, {"implicit"}),
                  "BLOCK_NODE", Append(states, "DOCUMENT_END"), marks, Drop(tokens, n))
    BY <1>5 DEF parse_implicit_document, NoMemory, Fail
  <2>2. state' = "BLOCK_NODE" /\ event'.directives = {}
    BY <2>1 DEF Return, Event
  <2>3. HandlesOf(Drop(tokens, n), 0) = {}
    BY DEF HandlesOf
  <2>4. FullTable(Drop(tokens, n), 0) = Full(HandlesOf(Drop(tokens, n), 0))
    BY FreshTable
  <2>5. tag_directives' = Full({})
    BY <2>1, <2>3, <2>4
  <2> QED
    BY <2>2, <2>5 DEF DirectivesOfTheDocument, BetweenStates
<1>6. CASE parse_explicit_document(Drop(tokens, n))
  <2> DEFINE in == Drop(tokens, n)
  <2>1. PICK m : /\ tag_directives' = FullTable(in, m)
                 /\ Return([Bare("DOCUMENT_START") EXCEPT !.directives = HandlesOf(in, m)],
                           "DOCUMENT_CONTENT", Append(states, "DOCUMENT_END"), marks,
                           Tail(Drop(in, m)))
    BY <1>6 DEF parse_explicit_document, NoMemory, Fail
  <2>2. state' = "DOCUMENT_CONTENT" /\ event'.directives = HandlesOf(in, m)
    BY <2>1 DEF Return, Bare, Event
  <2>3. tag_directives' = Full(HandlesOf(in, m))
    BY <2>1, FreshTable
  <2> HIDE DEF in
  <2> QED
    BY <2>2, <2>3 DEF DirectivesOfTheDocument, BetweenStates
<1> QED
  BY <1>1, <1>2, <1>3, <1>4, <1>5, <1>6

\* A call keeps the table between documents empty and inside one the document's.
LEMMA DirectivesStep ==
    ASSUME Inv, DirectivesOfTheDocument, Parse
    PROVE  DirectivesOfTheDocument'
<1> SUFFICES ASSUME error' = "NO" PROVE DirectivesOfTheDocument'
  BY DEF DirectivesOfTheDocument
<1>1. error = "NO" /\ StepKind /\ state \in States
  BY ParseStep DEF Inv, TypeOK
<1>2. CASE state \notin BetweenStates
  <2>1. /\ event'.type # "DOCUMENT_START"
        /\ state' \notin BetweenStates \ {"DOCUMENT_END"}
    BY <1>1, <1>2, InnerStep
  <2> QED
    BY <2>1 DEF DirectivesOfTheDocument
<1>3. CASE state = "STREAM_START"
  <2>1. UNCHANGED tag_directives /\ tag_directives = NoDirectives
    BY <1>1, <1>3, TableUntouched DEF DirectivesOfTheDocument, BetweenStates
  <2>2. parse_stream_start
    BY <1>3 DEF Parse, state_machine
  <2>3. event'.type = "STREAM_START"
    BY <2>2 DEF parse_stream_start, PeekFailed, Fail, Return, Bare, Event
  <2> QED
    BY <2>1, <2>3 DEF DirectivesOfTheDocument
<1>4. CASE state \in {"IMPLICIT_DOCUMENT_START", "DOCUMENT_START"}
  <2>1. tag_directives = NoDirectives
    BY <1>1, <1>4 DEF DirectivesOfTheDocument, BetweenStates
  <2>2. parse_document_start(TRUE) \/ parse_document_start(FALSE)
    BY <1>4 DEF Parse, state_machine
  <2> QED
    BY <1>1, <2>1, <2>2, StartTable
<1>5. CASE state = "DOCUMENT_END"
  <2>1. parse_document_end
    BY <1>5 DEF Parse, state_machine
  <2>2. tag_directives' = NoDirectives /\ event'.type = "DOCUMENT_END"
    BY <2>1 DEF parse_document_end, PeekFailed, Fail, Return, Bare, Event
  <2> QED
    BY <2>2 DEF DirectivesOfTheDocument
<1>6. state # "END"
  BY DEF Parse, Finished
<1> QED
  BY <1>1, <1>2, <1>3, <1>4, <1>5, <1>6 DEF BetweenStates

\* No tag directive leaks from one document into the next: between documents the
\* table is empty, and a document that starts has exactly the directives its
\* event lists and the two defaults (process_directives, parse_document_end).
THEOREM DirectivesAreScoped == Spec => []DirectivesOfTheDocument
<1>1. Init => DirectivesOfTheDocument
  BY DEF Init, DirectivesOfTheDocument, NoEvent, Bare, Event
<1>2. Inv /\ DirectivesOfTheDocument /\ [Next]_vars => DirectivesOfTheDocument'
  <2> SUFFICES ASSUME Inv, DirectivesOfTheDocument, [Next]_vars
               PROVE  DirectivesOfTheDocument'
    OBVIOUS
  <2>1. CASE Parse
    BY <2>1, DirectivesStep
  <2>2. CASE ParseNothing
    BY <2>2 DEF ParseNothing, DirectivesOfTheDocument, NoEvent, Bare, Event
  <2>3. CASE fetch_more_tokens \/ UNCHANGED vars
    BY <2>3 DEF fetch_more_tokens, vars, DirectivesOfTheDocument
  <2> QED
    BY <2>1, <2>2, <2>3 DEF Next
<1> QED
  BY <1>1, <1>2, InvHolds, PTL DEF Spec


-----------------------------------------------------------------------------
(* STREAM-END is skipped by no handler but the one that enters END.        *)

\* in is what is left of the queue when some of it was skipped, STREAM-END not
\* being the last of it.
EndStays(in) ==
    \E k \in 0..Len(tokens) :
       /\ in = Drop(tokens, k)
       /\ k > 0 => tokens[k].type # "STREAM_END"

\* The call skipped such a part.
EndNotSkipped == \E in : EndStays(in) /\ skip_token(in)

\* The places of what is left when k tokens are skipped.
LEMMA DropFacts ==
    ASSUME NEW s \in Seq(Tokens), NEW k \in 0..Len(s)
    PROVE  /\ Drop(s, k) \in Seq(Tokens) /\ Len(Drop(s, k)) = Len(s) - k
           /\ \A i \in 1..(Len(s) - k) : Drop(s, k)[i] = s[k + i]
<1>1. Len(s) \in Nat /\ k \in Nat /\ \A i \in (k + 1)..Len(s) : s[i] \in Tokens
  BY LenProperties
<1>2. Drop(s, k) \in Seq(Tokens)
  BY <1>1, DropType DEF Drop
<1>3. /\ Len(SubSeq(s, k + 1, Len(s))) = IF k + 1 <= Len(s) THEN Len(s) - (k + 1) + 1 ELSE 0
      /\ \A i \in 1..Len(SubSeq(s, k + 1, Len(s))) :
            SubSeq(s, k + 1, Len(s))[i] = s[(k + 1) + i - 1]
  BY <1>1, SubSeqProperties
<1>4. Len(Drop(s, k)) = Len(s) - k
  BY <1>1, <1>3 DEF Drop
<1>5. ASSUME NEW i \in 1..(Len(s) - k)
      PROVE  Drop(s, k)[i] = s[k + i]
  <2>1. i \in 1..Len(Drop(s, k))
    BY <1>4
  <2>2. Drop(s, k)[i] = s[(k + 1) + i - 1]
    BY <1>3, <2>1 DEF Drop
  <2>3. (k + 1) + i - 1 = k + i
    BY <1>1
  <2> QED BY <2>2, <2>3
<1> QED BY <1>2, <1>4, <1>5

\* Skipping more tokens, of which the last is not STREAM-END.
LEMMA SkipMore ==
    ASSUME tokens \in Seq(Tokens), NEW in, EndStays(in), NEW m \in 0..Len(in),
           m > 0 => in[m].type # "STREAM_END"
    PROVE  EndStays(Drop(in, m))
<1>1. PICK k \in 0..Len(tokens) :
         in = Drop(tokens, k) /\ (k > 0 => tokens[k].type # "STREAM_END")
  BY DEF EndStays
<1>2. /\ in \in Seq(Tokens) /\ Len(in) = Len(tokens) - k /\ Len(tokens) \in Nat
      /\ \A i \in 1..(Len(tokens) - k) : in[i] = tokens[k + i]
  BY <1>1, DropFacts, LenProperties
<1> DEFINE n == k + m  d == Drop(in, m)  e == Drop(tokens, n)
<1>3. n \in 0..Len(tokens) /\ k \in Nat /\ m \in Nat
  BY <1>2
<1>4. /\ d \in Seq(Tokens) /\ Len(d) = Len(in) - m
      /\ \A i \in 1..(Len(in) - m) : d[i] = in[m + i]
  BY <1>2, DropFacts
<1>5. /\ e \in Seq(Tokens) /\ Len(e) = Len(tokens) - n
      /\ \A i \in 1..(Len(tokens) - n) : e[i] = tokens[n + i]
  BY <1>3, DropFacts
<1> HIDE DEF d, e
<1>6. d = e
  <2>1. Len(d) = Len(tokens) - n /\ Len(e) = Len(tokens) - n
    BY <1>2, <1>3, <1>4, <1>5
  <2>2. ASSUME NEW i \in 1..(Len(tokens) - n) PROVE d[i] = e[i]
    <3>1. i \in 1..(Len(in) - m) /\ m + i \in 1..(Len(tokens) - k) /\ k + (m + i) = n + i
      BY <1>2, <1>3
    <3> QED BY <1>2, <1>4, <1>5, <3>1
  <2> QED BY <1>4, <1>5, <2>1, <2>2, SeqEqual
<1>7. n > 0 => tokens[n].type # "STREAM_END"
  <2>1. CASE m = 0
    BY <1>1, <1>3, <2>1
  <2>2. CASE m > 0
    <3>1. m \in 1..(Len(tokens) - k)
      BY <1>2, <1>3, <2>2
    <3> QED BY <1>2, <2>2, <3>1
  <2> QED BY <1>3, <2>1, <2>2
<1> QED BY <1>3, <1>6, <1>7 DEF EndStays, d, e

\* What is behind a token that is not STREAM-END.
LEMMA SkipHead ==
    ASSUME tokens \in Seq(Tokens), NEW in \in Seq(Tokens), EndStays(in), in # <<>>,
           Head(in).type # "STREAM_END"
    PROVE  EndStays(Tail(in))
<1>1. Len(in) \in Nat \ {0} /\ Head(in) = in[1] /\ Tail(in) = Drop(in, 1)
  BY EmptySeq, LenProperties DEF Drop
<1>2. 1 \in 0..Len(in)
  BY <1>1
<1> QED BY <1>1, <1>2, SkipMore

\* Nothing is skipped yet.
LEMMA NothingSkipped ==
    ASSUME tokens \in Seq(Tokens)
    PROVE  Drop(tokens, 0) = tokens /\ EndStays(tokens)
<1>1. Drop(tokens, 0) = tokens /\ 0 \in 0..Len(tokens)
  <2>1. /\ Drop(tokens, 0) \in Seq(Tokens) /\ Len(Drop(tokens, 0)) = Len(tokens)
        /\ 0 \in 0..Len(tokens) /\ \A i \in 1..Len(tokens) : Drop(tokens, 0)[i] = tokens[i]
    <3>1. Len(tokens) \in Nat /\ 0 \in 0..Len(tokens)
      BY LenProperties
    <3> QED BY <3>1, DropFacts
  <2> QED BY <2>1, SeqEqual
<1> QED BY <1>1 DEF EndStays

\* Then stream_end_produced is not set.
LEMMA EndNotProduced ==
    ASSUME tokens \in Seq(Tokens), ~stream_end_produced, EndNotSkipped
    PROVE  ~stream_end_produced'
<1>1. PICK in : EndStays(in) /\ skip_token(in)
  BY DEF EndNotSkipped
<1>2. PICK k \in 0..Len(tokens) :
         in = Drop(tokens, k) /\ (k > 0 => tokens[k].type # "STREAM_END")
  BY <1>1 DEF EndStays
<1>3. Len(in) = Len(tokens) - k /\ Len(tokens) \in Nat /\ k \in Nat
  BY <1>2, DropFacts, LenProperties
<1>4. CASE in = tokens
  BY <1>1, <1>4 DEF skip_token
<1>5. CASE in # tokens
  <2>1. k > 0 /\ Len(tokens) - Len(in) = k
    <3>1. k # 0
      BY <1>2, <1>5, NothingSkipped
    <3> QED BY <1>3, <3>1
  <2>2. stream_end_produced' = (tokens[k].type = "STREAM_END")
    BY <1>1, <1>5, <2>1 DEF skip_token
  <2> QED BY <1>2, <2>1, <2>2
<1> QED BY <1>4, <1>5


\* However a call ends, it takes what it was left of the queue.
LEMMA EndsQuietly ==
    ASSUME NEW in, EndStays(in), NEW st, NEW sts, NEW mks, NEW ev, NEW err,
           \/ Return(ev, st, sts, mks, in)
           \/ ReturnPop(ev, sts, mks, in)
           \/ Fail(err, st, sts, mks, in)
           \/ NoMemory(st, sts, mks, in)
           \/ PeekFailed(sts, mks, in)
           \/ process_empty_scalar(st, sts, mks, in)
    PROVE  EndNotSkipped
<1>1. skip_token(in)
  BY DEF Return, ReturnPop, Fail, NoMemory, PeekFailed, process_empty_scalar
<1> QED BY <1>1 DEF EndNotSkipped

\* parse_content skips a SCALAR or nothing.
LEMMA ContentSkips ==
    ASSUME tokens \in Seq(Tokens), NEW in \in Seq(Tokens), EndStays(in), NEW sts, NEW mks,
           NEW block, NEW indentless, NEW anchor, NEW tag,
           parse_content(in, sts, mks, block, indentless, anchor, tag)
    PROVE  EndNotSkipped
<1>1. skip_token(in) \/ (Sees(in, {"SCALAR"}) /\ skip_token(Tail(in)))
  BY DEF parse_content, Return, ReturnPop, Fail, NoMemory
<1>2. Sees(in, {"SCALAR"}) => EndStays(Tail(in))
  BY SkipHead DEF Sees
<1> QED BY <1>1, <1>2 DEF EndNotSkipped

\* The properties of a node are anchors and tags.
LEMMA PropertiesSkipped ==
    ASSUME tokens \in Seq(Tokens), NEW in \in Seq(Tokens), EndStays(in)
    PROVE  EndStays(SubSeq(in, PropertyCount(in) + 1, Len(in)))
<1> DEFINE n == PropertyCount(in)
<1>1. n \in 0..Len(in) /\ (n > 0 => in[n].type # "STREAM_END")
  <2>1. CASE ~Sees(in, {"ANCHOR", "TAG"})
    <3>1. n = 0 /\ Len(in) \in Nat
      BY <2>1, LenProperties DEF PropertyCount
    <3> QED BY <3>1
  <2>2. CASE Sees(in, {"ANCHOR", "TAG"})
    <3>1. in # <<>> /\ Head(in).type \in {"ANCHOR", "TAG"}
      BY <2>2 DEF Sees
    <3>2. /\ Len(in) \in Nat \ {0} /\ Head(in) = in[1]
          /\ Tail(in) \in Seq(Tokens) /\ Len(Tail(in)) = Len(in) - 1
          /\ \A i \in 1..(Len(in) - 1) : Tail(in)[i] = in[i + 1]
      BY <3>1, EmptySeq, LenProperties, HeadTailProperties
    <3>3. CASE Sees(Tail(in), {"ANCHOR", "TAG"} \ {Head(in).type})
      <4>1. n = 2
        BY <2>2, <3>3 DEF PropertyCount
      <4>2. Tail(in) # <<>> /\ Head(Tail(in)).type \in {"ANCHOR", "TAG"}
        BY <3>3 DEF Sees
      <4>3. Len(Tail(in)) # 0 /\ Head(Tail(in)) = Tail(in)[1]
        BY <3>2, <4>2, EmptySeq, HeadTailProperties
      <4>4. 1 \in 1..(Len(in) - 1) /\ 2 \in 0..Len(in)
        BY <3>2, <4>3
      <4>5. Tail(in)[1] = in[2]
        BY <3>2, <4>4
      <4> QED BY <4>1, <4>2, <4>3, <4>4, <4>5
    <3>4. CASE ~Sees(Tail(in), {"ANCHOR", "TAG"} \ {Head(in).type})
      <4>1. n = 1
        BY <2>2, <3>4 DEF PropertyCount
      <4> QED BY <3>1, <3>2, <4>1
    <3> QED BY <3>3, <3>4
  <2> QED BY <2>1, <2>2
<1> HIDE DEF n
<1>2. EndStays(Drop(in, n))
  BY <1>1, SkipMore
<1> QED BY <1>2 DEF Drop, n

\* parse_node skips the properties and an ALIAS or a SCALAR.
LEMMA NodeSkips ==
    ASSUME tokens \in Seq(Tokens), NEW in \in Seq(Tokens), EndStays(in), NEW sts, NEW mks,
           NEW block, NEW indentless, parse_node(in, sts, mks, block, indentless)
    PROVE  EndNotSkipped
<1> DEFINE n == PropertyCount(in)
           rest == SubSeq(in, n + 1, Len(in))
           anchor == \E i \in 1..n : in[i].type = "ANCHOR"
           values == {in[i].value : i \in {j \in 1..n : in[j].type = "TAG"}}
           tag == IF values = {} THEN NoTag ELSE ResolvedTag(CHOOSE v \in values : TRUE)
<1>1. rest \in Seq(Tokens) /\ EndStays(rest)
  <2>1. n \in Nat
    BY DEF PropertyCount
  <2> QED BY <2>1, DropType, PropertiesSkipped
<1>2. \/ PeekFailed(sts, mks, rest)
      \/ Sees(in, {"ALIAS"}) /\ ReturnPop(Bare("ALIAS"), sts, mks, Tail(in))
      \/ Fail("PARSER", state, sts, mks, rest)
      \/ NoMemory(state, sts, mks, rest)
      \/ parse_content(rest, sts, mks, block, indentless, anchor, tag)
  BY DEF parse_node
<1> HIDE DEF n, rest, anchor, values, tag
<1>3. CASE skip_token(rest)
  BY <1>1, <1>3 DEF EndNotSkipped
<1>4. CASE Sees(in, {"ALIAS"}) /\ skip_token(Tail(in))
  <2>1. EndStays(Tail(in))
    BY <1>4, SkipHead DEF Sees
  <2> QED BY <1>4, <2>1 DEF EndNotSkipped
<1>5. CASE parse_content(rest, sts, mks, block, indentless, anchor, tag)
  BY <1>1, <1>5, ContentSkips DEF TypeOK
<1> QED BY <1>2, <1>3, <1>4, <1>5 DEF PeekFailed, ReturnPop, Return, Fail, NoMemory

\* PUSH of the state to return to skips nothing.
LEMMA NodeThenSkips ==
    ASSUME tokens \in Seq(Tokens), NEW in \in Seq(Tokens), EndStays(in), NEW st, NEW sts,
           NEW mks, NEW block, NEW indentless,
           parse_node_then(st, sts, mks, in, block, indentless)
    PROVE  EndNotSkipped
<1>1. CASE NoMemory(state, sts, mks, in)
  BY <1>1, EndsQuietly
<1>2. CASE parse_node(in, Append(sts, st), mks, block, indentless)
  BY <1>2, NodeSkips
<1> QED BY <1>1, <1>2 DEF parse_node_then

\* Nor is the token skipped before which an empty scalar stands.
LEMMA NodeOrEmptySkips ==
    ASSUME tokens \in Seq(Tokens), NEW in \in Seq(Tokens), EndStays(in), NEW st, NEW ends,
           NEW mks, NEW block, NEW indentless,
           node_or_empty(st, ends, mks, in, block, indentless)
    PROVE  EndNotSkipped
<1>1. CASE PeekFailed(states, mks, in)
  BY <1>1, EndsQuietly
<1>2. CASE process_empty_scalar(st, states, mks, in)
  BY <1>2, EndsQuietly
<1>3. CASE parse_node_then(st, states, mks, in, block, indentless)
  BY <1>3, NodeThenSkips
<1> QED BY <1>1, <1>2, <1>3 DEF node_or_empty


\* What the handler of an entry has in hand behind the opening token.
LEMMA OpenedSkips ==
    ASSUME Inv, error = "NO", NEW first \in BOOLEAN, tokens # <<>>,
           first <=> state \in FirstStates
    PROVE  /\ tokens \in Seq(Tokens) /\ EndStays(tokens)
           /\ Opened(first) \in Seq(Tokens) /\ EndStays(Opened(first))
           /\ \A mks : PeekFailed(states, mks, Opened(first)) => EndNotSkipped
           /\ PushMarkFailed(first) => EndNotSkipped
           /\ \A mks : Unexpected(mks, Opened(first)) => EndNotSkipped
<1>1. tokens \in Seq(Tokens) /\ EndStays(tokens)
  BY NothingSkipped DEF Inv, TypeOK
<1>2. Opened(first) \in Seq(Tokens) /\ EndStays(Opened(first))
  <2>1. CASE first
    <3>1. Head(tokens).type = OpeningToken[state] /\ state \in FirstStates
      BY <2>1 DEF Inv, FirstStateSeesOpening
    <3>2. Head(tokens).type # "STREAM_END"
      BY <3>1 DEF OpeningToken, FirstStates
    <3>3. Tail(tokens) \in Seq(Tokens) /\ EndStays(Tail(tokens))
      BY <1>1, <3>2, SkipHead, HeadTail
    <3> QED BY <1>1, <3>3 DEF Opened
  <2>2. CASE ~first
    BY <1>1, <2>2 DEF Opened
  <2> QED BY <2>1, <2>2
<1>3. ASSUME NEW mks, PeekFailed(states, mks, Opened(first)) \/ Unexpected(mks, Opened(first))
      PROVE  EndNotSkipped
  BY <1>2, <1>3 DEF PeekFailed, Unexpected, Fail, EndNotSkipped
<1>4. PushMarkFailed(first) => EndNotSkipped
  BY <1>1 DEF PushMarkFailed, NoMemory, Fail, EndNotSkipped
<1> QED BY <1>1, <1>2, <1>3, <1>4

\* The token that closes a collection is not STREAM-END.
LEMMA CloseSkips ==
    ASSUME tokens \in Seq(Tokens), NEW in \in Seq(Tokens), EndStays(in),
           in # <<>>, Head(in).type # "STREAM_END", NEW type, NEW mks, Close(type, mks, in)
    PROVE  EndNotSkipped
<1>1. EndStays(Tail(in)) /\ skip_token(Tail(in))
  BY SkipHead DEF Close, ReturnPop, Return
<1> QED BY <1>1 DEF EndNotSkipped

\* The handlers of block collections.
LEMMA BlockSkips ==
    ASSUME Inv, error = "NO", NEW first \in BOOLEAN, first <=> state \in FirstStates,
           parse_block_sequence_entry(first) \/ parse_block_mapping_key(first)
    PROVE  EndNotSkipped
<1> DEFINE in == Opened(first)  mks == MarksAt(first)
<1>1. tokens # <<>>
  BY DEF parse_block_sequence_entry, parse_block_mapping_key
<1>2. /\ tokens \in Seq(Tokens) /\ in \in Seq(Tokens) /\ EndStays(in)
      /\ PeekFailed(states, mks, in) => EndNotSkipped
      /\ PushMarkFailed(first) => EndNotSkipped
      /\ Unexpected(mks, in) => EndNotSkipped
  BY <1>1, OpenedSkips
<1>3. \/ PushMarkFailed(first)
      \/ PeekFailed(states, mks, in)
      \/ /\ Sees(in, {"BLOCK_ENTRY", "KEY"})
         /\ \E st, ends, ind : node_or_empty(st, ends, mks, Tail(in), TRUE, ind)
      \/ Sees(in, {"BLOCK_END"}) /\ \E type : Close(type, mks, in)
      \/ Unexpected(mks, in)
  BY DEF parse_block_sequence_entry, parse_block_mapping_key, Sees
<1> HIDE DEF in, mks
<1>4. CASE /\ Sees(in, {"BLOCK_ENTRY", "KEY"})
           /\ \E st, ends, ind : node_or_empty(st, ends, mks, Tail(in), TRUE, ind)
  <2>1. EndStays(Tail(in)) /\ Tail(in) \in Seq(Tokens)
    BY <1>2, <1>4, SkipHead, HeadTail DEF Sees
  <2> QED BY <1>2, <1>4, <2>1, NodeOrEmptySkips
<1>5. CASE Sees(in, {"BLOCK_END"}) /\ \E type : Close(type, mks, in)
  <2>1. in # <<>> /\ Head(in).type # "STREAM_END"
    BY <1>5 DEF Sees
  <2> QED BY <1>2, <1>5, <2>1, CloseSkips
<1> QED BY <1>2, <1>3, <1>4, <1>5

\* The handlers of flow collections, which skip the comma as well.
LEMMA FlowSkips ==
    ASSUME Inv, error = "NO", NEW first \in BOOLEAN, first <=> state \in FirstStates,
           parse_flow_sequence_entry(first) \/ parse_flow_mapping_key(first)
    PROVE  EndNotSkipped
<1> DEFINE in == Opened(first)  mks == MarksAt(first)  entry == Entry(first, in)
           closers == {"FLOW_SEQUENCE_END", "FLOW_MAPPING_END"}
<1>1. tokens # <<>>
  BY DEF parse_flow_sequence_entry, parse_flow_mapping_key
<1>2. /\ tokens \in Seq(Tokens) /\ in \in Seq(Tokens) /\ EndStays(in)
      /\ PeekFailed(states, mks, in) => EndNotSkipped
      /\ PushMarkFailed(first) => EndNotSkipped
      /\ Unexpected(mks, in) => EndNotSkipped
  BY <1>1, OpenedSkips
<1> DEFINE Going ==
      \/ PeekFailed(states, mks, entry)
      \/ /\ Sees(entry, {"KEY"})
         /\ \/ \E ev, st : Return(ev, st, states, mks, Tail(entry))
            \/ \E st, ends : node_or_empty(st, ends, mks, Tail(entry), FALSE, FALSE)
      \/ Sees(entry, closers) /\ \E type : Close(type, mks, entry)
      \/ \E st : parse_node_then(st, states, mks, entry, FALSE, FALSE)
<1>3. \/ PushMarkFailed(first)
      \/ PeekFailed(states, mks, in)
      \/ Sees(in, closers) /\ \E type : Close(type, mks, in)
      \/ Unexpected(mks, in)
      \/ (~first => Sees(in, {"FLOW_ENTRY"})) /\ Going
  <2>1. CASE parse_flow_sequence_entry(first)
    BY <2>1 DEF parse_flow_sequence_entry, SeesEntry, Sees
  <2>2. CASE parse_flow_mapping_key(first)
    BY <2>2 DEF parse_flow_mapping_key, SeesEntry, Sees
  <2> QED BY <2>1, <2>2
<1>4. (~first => Sees(in, {"FLOW_ENTRY"})) => EndStays(entry) /\ entry \in Seq(Tokens)
  <2>1. Sees(in, {"FLOW_ENTRY"}) => EndStays(Tail(in)) /\ Tail(in) \in Seq(Tokens)
    BY <1>2, SkipHead, HeadTail DEF Sees
  <2> QED BY <1>2, <2>1 DEF Entry
<1> HIDE DEF in, mks, entry
<1>5. ASSUME NEW q \in Seq(Tokens), EndStays(q),
             Sees(q, closers) /\ \E type : Close(type, mks, q)
      PROVE  EndNotSkipped
  <2>1. q # <<>> /\ Head(q).type # "STREAM_END"
    BY <1>5 DEF Sees
  <2> QED BY <1>2, <1>5, <2>1, CloseSkips
<1>6. CASE (~first => Sees(in, {"FLOW_ENTRY"})) /\ Going
  <2>1. EndStays(entry) /\ entry \in Seq(Tokens)
    BY <1>4, <1>6
  <2>2. CASE PeekFailed(states, mks, entry)
    BY <2>1, <2>2, EndsQuietly
  <2>3. CASE /\ Sees(entry, {"KEY"})
             /\ \/ \E ev, st : Return(ev, st, states, mks, Tail(entry))
                \/ \E st, ends : node_or_empty(st, ends, mks, Tail(entry), FALSE, FALSE)
    <3>1. EndStays(Tail(entry)) /\ Tail(entry) \in Seq(Tokens)
      BY <1>2, <2>1, <2>3, SkipHead, HeadTail DEF Sees
    <3> QED BY <1>2, <2>3, <3>1, EndsQuietly, NodeOrEmptySkips
  <2>4. CASE \E st : parse_node_then(st, states, mks, entry, FALSE, FALSE)
    BY <1>2, <2>1, <2>4, NodeThenSkips
  <2> QED BY <1>5, <1>6, <2>1, <2>2, <2>3, <2>4
<1> QED BY <1>2, <1>3, <1>5, <1>6

\* The other handlers inside a document and around it.
LEMMA RestSkips ==
    ASSUME tokens \in Seq(Tokens),
           \/ parse_stream_start \/ parse_document_content \/ parse_document_end
           \/ parse_node(tokens, states, marks, TRUE, FALSE)
           \/ parse_indentless_sequence_entry \/ parse_block_mapping_value
           \/ parse_flow_sequence_entry_mapping_key
           \/ parse_flow_sequence_entry_mapping_value
           \/ parse_flow_sequence_entry_mapping_end
           \/ parse_flow_mapping_value(TRUE) \/ parse_flow_mapping_value(FALSE)
    PROVE  EndNotSkipped
<1> DEFINE Seen == Sees(tokens, {"STREAM_START", "DOCUMENT_END", "BLOCK_ENTRY", "VALUE",
                                 "FLOW_ENTRY", "FLOW_SEQUENCE_END"})
           Quiet == \/ PeekFailed(states, marks, tokens)
                    \/ \E ev, st : Return(ev, st, states, marks, tokens)
                    \/ \E ev : ReturnPop(ev, states, marks, tokens)
                    \/ \E st, sts : process_empty_scalar(st, sts, marks, tokens)
           Node == \/ parse_node(tokens, states, marks, TRUE, FALSE)
                   \/ \E st : parse_node_then(st, states, marks, tokens, FALSE, FALSE)
           Behind == \/ \E ev, st : Return(ev, st, states, marks, Tail(tokens))
                     \/ \E st : process_empty_scalar(st, states, marks, Tail(tokens))
                     \/ \E st, ends, block, ind :
                           node_or_empty(st, ends, marks, Tail(tokens), block, ind)
<1>1. EndStays(tokens)
  BY NothingSkipped
<1>2. Quiet \/ Node \/ (Seen /\ Behind)
  <2>1. CASE parse_stream_start \/ parse_document_content \/ parse_document_end
    BY <2>1 DEF parse_stream_start, parse_document_content, parse_document_end, Sees
  <2>2. CASE parse_node(tokens, states, marks, TRUE, FALSE)
    BY <2>2
  <2>3. CASE parse_indentless_sequence_entry \/ parse_block_mapping_value
    BY <2>3 DEF parse_indentless_sequence_entry, parse_block_mapping_value, Sees
  <2>4. CASE \/ parse_flow_sequence_entry_mapping_key
             \/ parse_flow_sequence_entry_mapping_value
             \/ parse_flow_sequence_entry_mapping_end
    BY <2>4 DEF parse_flow_sequence_entry_mapping_key,
                parse_flow_sequence_entry_mapping_value,
                parse_flow_sequence_entry_mapping_end, Sees
  <2>5. CASE parse_flow_mapping_value(TRUE) \/ parse_flow_mapping_value(FALSE)
    BY <2>5 DEF parse_flow_mapping_value, Sees
  <2> QED BY <2>1, <2>2, <2>3, <2>4, <2>5
<1>3. CASE Quiet
  BY <1>1, <1>3, EndsQuietly
<1>4. CASE Node
  BY <1>1, <1>4, NodeSkips, NodeThenSkips
<1>5. CASE Seen /\ Behind
  <2>1. tokens # <<>> /\ Head(tokens).type # "STREAM_END"
    BY <1>5 DEF Sees
  <2>2. Tail(tokens) \in Seq(Tokens) /\ EndStays(Tail(tokens))
    BY <1>1, <2>1, SkipHead, HeadTail
  <2> QED BY <1>5, <2>2, EndsQuietly, NodeOrEmptySkips
<1> QED BY <1>2, <1>3, <1>4, <1>5

\* The directives of a document are skipped, and DOCUMENT-START behind them.
LEMMA DocumentSkips ==
    ASSUME tokens \in Seq(Tokens), NEW in \in Seq(Tokens), EndStays(in),
           \/ process_directives_failed(in)
           \/ parse_implicit_document(in)
           \/ parse_explicit_document(in)
    PROVE  EndNotSkipped
<1>1. ASSUME NEW n \in 0..(Len(in) - 1), \A i \in 1..n : Accepts(in, i)
      PROVE  EndStays(Drop(in, n)) /\ Drop(in, n) \in Seq(Tokens)
  <2>1. n \in 0..Len(in) /\ Len(in) \in Nat
    BY LenProperties
  <2>2. n > 0 => in[n].type # "STREAM_END"
    BY <1>1, <2>1 DEF Accepts
  <2> QED BY <2>1, <2>2, SkipMore, DropFacts
<1>2. CASE process_directives_failed(in)
  <2>1. CASE Fail(error, state, states, marks, in)
    BY <2>1, EndsQuietly
  <2>2. CASE \E n \in 0..(Len(in) - 1) :
                /\ \A i \in 1..n : Accepts(in, i)
                /\ \/ PeekFailed(states, marks, Drop(in, n))
                   \/ Fail("PARSER", state, states, marks, Drop(in, n))
                   \/ NoMemory(state, states, marks, Drop(in, n))
    BY <1>1, <2>2, EndsQuietly
  <2> QED BY <1>2, <2>1, <2>2 DEF process_directives_failed
<1>3. CASE parse_implicit_document(in)
  BY <1>3, EndsQuietly DEF parse_implicit_document
<1>4. CASE parse_explicit_document(in)
  <2>1. PICK n \in 0..(Len(in) - 1) :
           /\ \A i \in 1..n : Accepts(in, i)
           /\ \/ Fail("PARSER", state, states, marks, Drop(in, n))
              \/ NoMemory(state, states, marks, Drop(in, n))
              \/ /\ Sees(Drop(in, n), {"DOCUMENT_START"})
                 /\ \E ev, st, sts : Return(ev, st, sts, marks, Tail(Drop(in, n)))
    BY <1>4 DEF parse_explicit_document
  <2>2. EndStays(Drop(in, n)) /\ Drop(in, n) \in Seq(Tokens)
    BY <1>1, <2>1
  <2> DEFINE rest == Drop(in, n)
  <2> HIDE DEF rest
  <2>3. CASE Fail("PARSER", state, states, marks, rest) \/ NoMemory(state, states, marks, rest)
    BY <2>2, <2>3, EndsQuietly DEF rest
  <2>4. CASE /\ Sees(rest, {"DOCUMENT_START"})
             /\ \E ev, st, sts : Return(ev, st, sts, marks, Tail(rest))
    <3>1. rest # <<>> /\ Head(rest).type # "STREAM_END"
      BY <2>4 DEF Sees
    <3>2. EndStays(Tail(rest))
      BY <2>2, <3>1, SkipHead DEF rest
    <3> QED BY <2>4, <3>2, EndsQuietly
  <2> QED BY <2>1, <2>3, <2>4 DEF rest
<1> QED BY <1>2, <1>3, <1>4

\* parse_document_start skips STREAM-END when it enters END, and only then.
LEMMA DocumentStartEnds ==
    ASSUME tokens \in Seq(Tokens), ~stream_end_produced, state # "END", error' = "NO",
           NEW implicit \in BOOLEAN, parse_document_start(implicit)
    PROVE  stream_end_produced' <=> state' = "END"
<1>1. PICK n \in 0..Len(tokens) :
        /\ IF implicit THEN n = 0 ELSE \A i \in 1..n : tokens[i].type = "DOCUMENT_END"
        /\ \/ PeekFailed(states, marks, Drop(tokens, n))
           \/ /\ Sees(Drop(tokens, n), {"STREAM_END"})
              /\ Return(Bare("STREAM_END"), "END", states, marks, Tail(Drop(tokens, n)))
           \/ process_directives_failed(Drop(tokens, n))
           \/ parse_implicit_document(Drop(tokens, n))
           \/ parse_explicit_document(Drop(tokens, n))
  BY DEF parse_document_start
<1> DEFINE in == Drop(tokens, n)
<1>2. /\ in \in Seq(Tokens) /\ Len(in) = Len(tokens) - n
      /\ Len(tokens) \in Nat /\ n \in Nat
      /\ \A i \in 1..(Len(tokens) - n) : in[i] = tokens[n + i]
  <2>1. Len(tokens) \in Nat /\ n \in Nat
    BY LenProperties
  <2> HIDE DEF in
  <2>2. /\ in \in Seq(Tokens) /\ Len(in) = Len(tokens) - n
        /\ \A i \in 1..(Len(tokens) - n) : in[i] = tokens[n + i]
    BY Zenon, DropFacts DEF in
  <2> QED BY Zenon, <2>1, <2>2
<1>3. EndStays(in)
  <2>1. n > 0 => tokens[n].type # "STREAM_END"
    BY <1>1, <1>2
  <2> QED BY <2>1 DEF EndStays
<1> HIDE DEF in
<1>4. CASE PeekFailed(states, marks, in)
  BY <1>4 DEF PeekFailed, Fail
<1>5. CASE /\ Sees(in, {"STREAM_END"})
           /\ Return(Bare("STREAM_END"), "END", states, marks, Tail(in))
  <2>1. in # <<>> /\ Head(in).type = "STREAM_END"
    BY <1>5 DEF Sees
  <2>2. Len(in) \in Nat \ {0} /\ Head(in) = in[1] /\ Len(Tail(in)) = Len(in) - 1
    BY <1>2, <2>1, EmptySeq, LenProperties, HeadTailProperties
  <2>3. Tail(in) # tokens /\ Len(tokens) - Len(Tail(in)) = n + 1
    <3> DEFINE all == Len(tokens)  left == Len(in)  behind == Len(Tail(in))
    <3>1. /\ all \in Nat /\ n \in Nat /\ left \in Nat \ {0}
          /\ left = all - n /\ behind = left - 1
      BY Zenon, <1>2, <2>2
    <3> HIDE DEF all, left, behind
    <3>2. all - behind = n + 1 /\ all # behind
      BY <3>1
    <3> QED BY Zenon, <3>2 DEF all, behind
  <2>4. tokens[n + 1] = Head(in)
    BY <1>2, <2>2
  <2>5. skip_token(Tail(in)) /\ state' = "END"
    BY <1>5 DEF Return
  <2> QED BY <2>1, <2>3, <2>4, <2>5 DEF skip_token
<1>6. CASE \/ process_directives_failed(in)
           \/ parse_implicit_document(in)
           \/ parse_explicit_document(in)
  <2>1. ~stream_end_produced'
    BY <1>2, <1>3, <1>6, DocumentSkips, EndNotProduced
  <2>2. state' # "END"
    BY <1>6 DEF process_directives_failed, parse_implicit_document,
                parse_explicit_document, PeekFailed, NoMemory, Fail, Return
  <2> QED BY <2>1, <2>2
<1> QED BY <1>1, <1>4, <1>5, <1>6 DEF in

\* A call that goes well produces STREAM-END if and only if it enters END.
LEMMA EndStep ==
    ASSUME Inv, Parse, error' = "NO"
    PROVE  stream_end_produced' <=> state' = "END"
<1>1. /\ error = "NO" /\ ~stream_end_produced /\ state # "END" /\ state_machine
      /\ tokens \in Seq(Tokens) /\ state \in States /\ StepKind
  BY ParseStep DEF Parse, Finished, Inv, TypeOK
<1>2. CASE parse_document_start(TRUE) \/ parse_document_start(FALSE)
  BY <1>1, <1>2, DocumentStartEnds
<1>3. CASE EndNotSkipped /\ state' # "END"
  BY <1>1, <1>3, EndNotProduced
<1>4. state = "IMPLICIT_DOCUMENT_START" => parse_document_start(TRUE)
  BY <1>1 DEF state_machine
<1>5. state = "DOCUMENT_START" => parse_document_start(FALSE)
  BY <1>1 DEF state_machine
<1>6. CASE state = "STREAM_START"
  <2>1. parse_stream_start
    BY <1>1, <1>6 DEF state_machine
  <2>2. state' # "END"
    BY <2>1 DEF parse_stream_start, PeekFailed, Fail, Return
  <2> QED BY <1>1, <1>3, <2>1, <2>2, RestSkips
<1>7. CASE state = "DOCUMENT_END"
  <2>1. parse_document_end
    BY <1>1, <1>7 DEF state_machine
  <2>2. state' # "END"
    BY <2>1 DEF parse_document_end, PeekFailed, Fail, Return
  <2> QED BY <1>1, <1>3, <2>1, <2>2, RestSkips
<1>8. CASE state \notin BetweenStates
  <2>1. state' # "END"
    BY <1>1, <1>8, InnerStep DEF BetweenStates
  <2>2. EndNotSkipped
    <3>1. CASE parse_block_sequence_entry(TRUE) /\ state = "BLOCK_SEQUENCE_FIRST_ENTRY"
      BY <1>1, <3>1, BlockSkips DEF FirstStates
    <3>2. CASE parse_block_mapping_key(TRUE) /\ state = "BLOCK_MAPPING_FIRST_KEY"
      BY <1>1, <3>2, BlockSkips DEF FirstStates
    <3>3. CASE parse_flow_sequence_entry(TRUE) /\ state = "FLOW_SEQUENCE_FIRST_ENTRY"
      BY <1>1, <3>3, FlowSkips DEF FirstStates
    <3>4. CASE parse_flow_mapping_key(TRUE) /\ state = "FLOW_MAPPING_FIRST_KEY"
      BY <1>1, <3>4, FlowSkips DEF FirstStates
    <3>5. CASE /\ parse_block_sequence_entry(FALSE) \/ parse_block_mapping_key(FALSE)
               /\ state \in {"BLOCK_SEQUENCE_ENTRY", "BLOCK_MAPPING_KEY"}
      BY <1>1, <3>5, BlockSkips DEF FirstStates
    <3>6. CASE /\ parse_flow_sequence_entry(FALSE) \/ parse_flow_mapping_key(FALSE)
               /\ state \in {"FLOW_SEQUENCE_ENTRY", "FLOW_MAPPING_KEY"}
      BY <1>1, <3>6, FlowSkips DEF FirstStates
    <3>7. CASE \/ parse_document_content
               \/ parse_node(tokens, states, marks, TRUE, FALSE)
               \/ parse_indentless_sequence_entry \/ parse_block_mapping_value
               \/ parse_flow_sequence_entry_mapping_key
               \/ parse_flow_sequence_entry_mapping_value
               \/ parse_flow_sequence_entry_mapping_end
               \/ parse_flow_mapping_value(TRUE) \/ parse_flow_mapping_value(FALSE)
      BY <1>1, <3>7, RestSkips
    <3> QED
      BY <1>1, <1>8, <3>1, <3>2, <3>3, <3>4, <3>5, <3>6, <3>7 DEF state_machine, BetweenStates
  <2> QED BY <1>3, <2>1, <2>2
<1> QED BY <1>1, <1>2, <1>4, <1>5, <1>6, <1>7, <1>8 DEF BetweenStates

\* STREAM-END is skipped by the handler that enters END and by no other
\* (skip_token, yaml_parser_parse): the parser does not go silent in the middle
\* of a document, for token streams of every length.
THEOREM StreamEndIsProducedOnce == Spec => []EndIsStreamEnd
<1>1. Init => EndIsStreamEnd
  BY DEF Init, EndIsStreamEnd
<1>2. Inv /\ EndIsStreamEnd /\ [Next]_vars => EndIsStreamEnd'
  <2> SUFFICES ASSUME Inv, EndIsStreamEnd, [Next]_vars PROVE EndIsStreamEnd'
    OBVIOUS
  <2>1. CASE Parse
    BY <2>1, EndStep DEF EndIsStreamEnd
  <2>2. CASE ParseNothing \/ fetch_more_tokens \/ UNCHANGED vars
    BY <2>2 DEF ParseNothing, fetch_more_tokens, vars, EndIsStreamEnd
  <2> QED BY <2>1, <2>2 DEF Next
<1> QED
  BY <1>1, <1>2, InvHolds, PTL DEF Spec

=============================================================================

------------------------------- MODULE Reader -------------------------------
(***************************************************************************)
(* The reader (reader.c): it finds out the encoding of the input, and      *)
(* turns the octets that a read handler delivers in pieces of any size     *)
(* into the UTF-8 text the scanner looks ahead in.  One call of            *)
(* yaml_parser_update_buffer is a sequence of steps here, because the read *)
(* handler, code of the application, decides in the middle of it how much  *)
(* of the input there is to see.                                           *)
(*                                                                         *)
(* A buffer of the code is four pointers.  Here raw_buffer and buffer are  *)
(* what lies between `pointer` and `last`, and raw_passed and passed are   *)
(* the room between `start` and `pointer`, which only a move to the front  *)
(* of the buffer gives back.                                               *)
(***************************************************************************)
EXTENDS Encodings, FiniteSets

CONSTANTS
    Inputs,         \* of the form Input(...), below
    RawSize,        \* INPUT_RAW_BUFFER_SIZE
    BufferSize,     \* INPUT_BUFFER_SIZE
    Lengths,        \* the lookaheads the scanner asks for
    MaxFileSize     \* MAX_FILE_SIZE

\* "The length is supposed to be significantly less that the buffer size":
\* what is unread, of four octets a character, and what a full raw buffer
\* decodes to (three octets for two, in UTF-16) must fit, and a NUL.
ASSUME ReaderAssumption ==
    /\ RawSize \in Nat /\ RawSize >= 4
    /\ BufferSize = 3 * RawSize
    /\ Lengths \subseteq Nat \ {0}
    /\ \A n \in Lengths : 4 * (n - 1) + (3 * RawSize) \div 2 + 1 <= BufferSize
    /\ MaxFileSize \in Nat \ {0}

\* An input is the encoded text of allowed characters, after a byte order mark
\* or not, followed by octets that are not the start of an allowed character.
\* `set` is what yaml_parser_set_encoding was called with, ANY if it was not.
\* What is left to a parser that has been told the encoding is all text.
Input(chars, junk, enc, marked, set) ==
    [chars |-> chars, junk |-> junk, enc |-> enc, marked |-> marked, set |-> set,
     octets |-> (IF marked THEN Bom(enc) ELSE <<>>) \o (Encoded(chars, enc) \o junk),
     text |-> Encoded(chars, UTF8)]

VARIABLES
    input,        \* the input (never changes)
    fed,          \* octets the read handler has delivered
    eof,
    encoding,
    raw_buffer, raw_passed,
    buffer, passed,
    unread,       \* characters in buffer
    offset,
    error,        \* "NONE" or the problem of YAML_READER_ERROR
    pc,           \* where the call of update_buffer is
    length,       \* its argument
    first,        \* its local variable
    scanned       \* history: the octets the scanner has moved past

vars == <<input, fed, eof, encoding, raw_buffer, raw_passed, buffer, passed,
          unread, offset, error, pc, length, first, scanned>>

Init ==
    /\ input \in Inputs
    /\ fed = 0 /\ eof = FALSE
    /\ encoding = input.set
    /\ raw_buffer = <<>> /\ raw_passed = 0
    /\ buffer = <<>> /\ passed = 0
    /\ unread = 0 /\ offset = 0
    /\ error = "NONE"
    /\ pc = "idle" /\ length = 0 /\ first = TRUE
    /\ scanned = <<>>

-----------------------------------------------------------------------------
(* Decoding one character.                                                 *)

\* The width that the leading octet of a UTF-8 sequence announces, 0 if none.
Width(octet) ==
    IF octet < \h80 THEN 1
    ELSE IF octet \in \hC0 .. \hDF THEN 2
    ELSE IF octet \in \hE0 .. \hEF THEN 3
    ELSE IF octet \in \hF0 .. \hF7 THEN 4
    ELSE 0

Decoded(value, width) == [problem |-> "NONE", value |-> value, width |-> width]
Bad(problem) == [problem |-> problem, value |-> 0, width |-> 0]
\* The character is not all there: wait for more, unless there is no more.
Incomplete(problem) == Bad(IF eof THEN problem ELSE "incomplete")

Utf8Value(octets) ==
    LET lead == octets[1]
        trail(k) == octets[k] % \h40
    IN IF Len(octets) = 1 THEN lead
       ELSE IF Len(octets) = 2 THEN (lead % \h20) * \h40 + trail(2)
       ELSE IF Len(octets) = 3 THEN ((lead % \h10) * \h40 + trail(2)) * \h40 + trail(3)
       ELSE (((lead % 8) * \h40 + trail(2)) * \h40 + trail(3)) * \h40 + trail(4)

IsTrailing(octet) == octet \div \h40 = 2

\* The least value a sequence of this width may stand for.
Shortest(width) == IF width = 1 THEN 0 ELSE IF width = 2 THEN \h80
                   ELSE IF width = 3 THEN \h800 ELSE \h10000

\* A surrogate, or beyond Unicode.
IsInvalid(value) == (value >= \hD800 /\ value <= \hDFFF) \/ value > \h10FFFF

DecodeUtf8(raw) ==
    LET width == Width(raw[1])
        octets == SubSeq(raw, 1, width)
        value == Utf8Value(octets)
    IN IF width = 0 THEN Bad("invalid leading UTF-8 octet")
       ELSE IF width > Len(raw) THEN Incomplete("incomplete UTF-8 octet sequence")
       ELSE IF \E k \in 2 .. width : ~ IsTrailing(raw[k])
       THEN Bad("invalid trailing UTF-8 octet")
       ELSE IF value < Shortest(width) THEN Bad("invalid length of a UTF-8 sequence")
       ELSE IF IsInvalid(value) THEN Bad("invalid Unicode character")
       ELSE Decoded(value, width)

\* The 16-bit unit at the front of the raw buffer, or the one after it.
Unit(raw, k) ==
    IF encoding = UTF16LE
    THEN raw[2 * k - 1] + 256 * raw[2 * k]
    ELSE raw[2 * k] + 256 * raw[2 * k - 1]

IsHighSurrogate(unit) == unit \div \h400 = \h36
IsLowSurrogate(unit) == unit \div \h400 = \h37

PairValue(high, low) == \h10000 + (high % \h400) * \h400 + (low % \h400)

DecodeUtf16(raw) ==
    IF Len(raw) < 2 THEN Incomplete("incomplete UTF-16 character")
    ELSE IF IsLowSurrogate(Unit(raw, 1)) THEN Bad("unexpected low surrogate area")
    ELSE IF ~ IsHighSurrogate(Unit(raw, 1)) THEN Decoded(Unit(raw, 1), 2)
    ELSE IF Len(raw) < 4 THEN Incomplete("incomplete UTF-16 surrogate pair")
    ELSE IF ~ IsLowSurrogate(Unit(raw, 2)) THEN Bad("expected low surrogate area")
    ELSE Decoded(PairValue(Unit(raw, 1), Unit(raw, 2)), 4)

IsAllowed(value) ==
    \/ value \in {9, 10, 13, \h85}
    \/ value >= \h20 /\ value <= \h7E
    \/ value >= \hA0 /\ value <= \hD7FF
    \/ value >= \hE000 /\ value <= \hFFFD
    \/ value >= \h10000 /\ value <= \h10FFFF

Decode(raw) ==
    LET d == IF encoding = UTF8 THEN DecodeUtf8(raw) ELSE DecodeUtf16(raw)
    IN IF d.problem = "NONE" /\ ~ IsAllowed(d.value)
       THEN Bad("control characters are not allowed")
       ELSE d

\* Octets that are no character, and those of a character that is not allowed.
Forbidden == {c \in 0 .. \hFFFF : IsScalarValue(c) /\ ~ IsAllowed(c)}
IsBroken(junk, enc) ==
    \/ \A n \in 1 .. Len(junk) : ~ IsCharacter(SubSeq(junk, 1, n), enc)
    \/ \E c \in Forbidden : IsPrefix(EncodedChar(c, enc), junk)

\* An encoding that is neither marked nor announced is UTF-8, and no other mark
\* is there by accident.
IsInput(i) ==
    /\ i = Input(i.chars, i.junk, i.enc, i.marked, i.set)
    /\ i.enc \in {UTF8, UTF16LE, UTF16BE} /\ i.set \in {ANY, i.enc}
    /\ i.chars \in Seq(Nat) /\ \A k \in DOMAIN i.chars : IsAllowed(i.chars[k])
    /\ i.junk \in Seq(0 .. 255) /\ IsBroken(i.junk, i.enc)
    /\ i.marked \in BOOLEAN /\ (i.marked => i.set = ANY)
    /\ i.set = ANY /\ ~ i.marked =>
         /\ i.enc = UTF8
         /\ \A e \in {UTF8, UTF16LE, UTF16BE} : ~ IsPrefix(Bom(e), i.octets)
ASSUME InputAssumption == \A i \in Inputs : IsInput(i)

\* The octets that are put into the buffer.
Trailing(value, k) == \h80 + ((value \div (\h40)^k) % \h40)
Put(value) ==
    IF value <= \h7F THEN <<value>>
    ELSE IF value <= \h7FF THEN <<\hC0 + value \div \h40, Trailing(value, 0)>>
    ELSE IF value <= \hFFFF
    THEN <<\hE0 + value \div \h1000, Trailing(value, 1), Trailing(value, 0)>>
    ELSE <<\hF0 + value \div \h40000, Trailing(value, 2),
           Trailing(value, 1), Trailing(value, 0)>>

-----------------------------------------------------------------------------
(* Steps of yaml_parser_update_buffer.                                     *)

set_reader_error(problem) ==
    /\ error' = problem
    /\ pc' = "idle"

\* Unread characters move to the front of the buffer.
MoveBuffer_never == passed' = passed
MoveBuffer == passed' = 0

\* CACHE(parser, n), where the reader is called for.
update_buffer(n) ==
    /\ pc = "idle" /\ error = "NONE"
    /\ unread < n
    /\ ~ (eof /\ raw_buffer = <<>>)
    /\ length' = n /\ first' = TRUE
    /\ IF encoding = ANY
       THEN pc' = "encoding" /\ UNCHANGED passed
       ELSE pc' = "fill" /\ MoveBuffer
    /\ UNCHANGED <<input, fed, eof, encoding, raw_buffer, raw_passed, buffer, unread,
                   offset, error, scanned>>

\* A byte order mark at the front of the raw buffer, and nothing otherwise.
MarkOf(enc) == IF enc = UTF8 THEN <<\hEF, \hBB, \hBF>>
               ELSE IF enc = UTF16LE THEN <<\hFF, \hFE>> ELSE <<\hFE, \hFF>>

EnoughForMark_three == Len(raw_buffer) >= 3
EnoughForMark == eof \/ Len(raw_buffer) >= 3

determine_encoding ==
    /\ pc = "encoding"
    /\ EnoughForMark
    /\ LET marked == {e \in {UTF16LE, UTF16BE, UTF8} : IsPrefix(MarkOf(e), raw_buffer)}
           width == IF marked = {} THEN 0 ELSE Len(MarkOf(CHOOSE e \in marked : TRUE))
       IN /\ encoding' = IF marked = {} THEN UTF8 ELSE CHOOSE e \in marked : TRUE
          /\ raw_buffer' = SubSeq(raw_buffer, width + 1, Len(raw_buffer))
          /\ raw_passed' = raw_passed + width
          /\ offset' = offset + width
    /\ MoveBuffer
    /\ pc' = "fill"
    /\ UNCHANGED <<input, fed, eof, buffer, unread, error, length, first, scanned>>

\* The condition of the loop that fills the buffer.
Wanting_any == unread = 0
Wanting == unread < length

\* update_raw_buffer is called by the loop of determine_encoding and by the
\* loop that fills the buffer.
NeedsOctets ==
    \/ pc = "encoding" /\ ~ EnoughForMark
    \/ pc = "fill" /\ Wanting /\ (~ first \/ raw_buffer = <<>>)

RawIsFull == raw_passed = 0 /\ Len(raw_buffer) = RawSize

AfterRaw ==
    /\ pc' = IF pc = "fill" THEN "decode" ELSE pc
    /\ first' = IF pc = "fill" THEN FALSE ELSE first

\* The read handler delivers at least one octet as long as there are any and
\* it is given room for one.
Deliveries ==
    LET most == IF RawSize - Len(raw_buffer) <= Len(input.octets) - fed
                THEN RawSize - Len(raw_buffer) ELSE Len(input.octets) - fed
    IN IF most = 0 THEN {0} ELSE 1 .. most

\* A reader that leaves the undecoded octets of the raw buffer behind.
MoveRaw_dropped == IF raw_passed = 0 THEN raw_buffer ELSE <<>>
\* Remaining octets move to the front of the raw buffer.
MoveRaw == raw_buffer

update_raw_buffer(n) ==
    /\ NeedsOctets /\ ~ RawIsFull /\ ~ eof
    /\ n \in Deliveries
    /\ raw_buffer' = MoveRaw \o SubSeq(input.octets, fed + 1, fed + n)
    /\ raw_passed' = 0
    /\ fed' = fed + n
    /\ eof' = (n = 0)
    /\ AfterRaw
    /\ UNCHANGED <<input, encoding, buffer, passed, unread, offset, error, length, scanned>>

update_raw_buffer_noop ==
    /\ NeedsOctets /\ (RawIsFull \/ eof)
    /\ AfterRaw
    /\ UNCHANGED <<input, fed, eof, encoding, raw_buffer, raw_passed, buffer, passed,
                   unread, offset, error, length, scanned>>

read_handler_fails ==
    /\ NeedsOctets /\ ~ RawIsFull /\ ~ eof
    /\ raw_buffer' = MoveRaw /\ raw_passed' = 0
    /\ set_reader_error("input error")
    /\ UNCHANGED <<input, fed, eof, encoding, buffer, passed, unread, offset,
                   length, first, scanned>>

\* The raw buffer holds something at the first turn of the loop.
first_turn ==
    /\ pc = "fill" /\ Wanting /\ first /\ raw_buffer # <<>>
    /\ first' = FALSE
    /\ pc' = "decode"
    /\ UNCHANGED <<input, fed, eof, encoding, raw_buffer, raw_passed, buffer, passed,
                   unread, offset, error, length, scanned>>

decode_character ==
    /\ pc = "decode" /\ raw_buffer # <<>>
    /\ LET d == Decode(raw_buffer) IN
         /\ d.problem = "NONE"
         /\ raw_buffer' = SubSeq(raw_buffer, d.width + 1, Len(raw_buffer))
         /\ raw_passed' = raw_passed + d.width
         /\ offset' = offset + d.width
         /\ buffer' = buffer \o Put(d.value)
    /\ unread' = unread + 1
    /\ UNCHANGED <<input, fed, eof, encoding, passed, error, pc, length, first, scanned>>

decode_error ==
    /\ pc = "decode" /\ raw_buffer # <<>>
    /\ Decode(raw_buffer).problem \notin {"NONE", "incomplete"}
    /\ set_reader_error(Decode(raw_buffer).problem)
    /\ UNCHANGED <<input, fed, eof, encoding, raw_buffer, raw_passed, buffer, passed,
                   unread, offset, length, first, scanned>>

\* The raw buffer is decoded as far as it goes: the next turn of the loop,
\* or NUL and the end.
decoded ==
    /\ pc = "decode"
    /\ raw_buffer # <<>> => Decode(raw_buffer).problem = "incomplete"
    /\ IF eof
       THEN /\ buffer' = Append(buffer, 0)
            /\ unread' = unread + 1
            /\ pc' = "idle"
       ELSE pc' = "fill" /\ UNCHANGED <<buffer, unread>>
    /\ UNCHANGED <<input, fed, eof, encoding, raw_buffer, raw_passed, passed, offset,
                   error, length, first, scanned>>

TooLong_exact == offset = MaxFileSize
TooLong == offset >= MaxFileSize

\* The end of the loop, and the only test of the limit.
filled ==
    /\ pc = "fill" /\ ~ Wanting
    /\ IF TooLong
       THEN set_reader_error("input is too long")
       ELSE pc' = "idle" /\ UNCHANGED error
    /\ UNCHANGED <<input, fed, eof, encoding, raw_buffer, raw_passed, buffer, passed,
                   unread, offset, length, first, scanned>>

\* The scanner moves past a character (SKIP, READ), but never past the NUL.
SKIP ==
    /\ pc = "idle" /\ error = "NONE"
    /\ unread > 0 /\ buffer[1] # 0
    /\ LET width == Width(buffer[1]) IN
         /\ scanned' = scanned \o SubSeq(buffer, 1, width)
         /\ buffer' = SubSeq(buffer, width + 1, Len(buffer))
         /\ passed' = passed + width
    /\ unread' = unread - 1
    /\ UNCHANGED <<input, fed, eof, encoding, raw_buffer, raw_passed, offset, error, pc,
                   length, first>>

Reading ==
    \/ determine_encoding
    \/ \E n \in 0 .. RawSize : update_raw_buffer(n)
    \/ update_raw_buffer_noop
    \/ read_handler_fails
    \/ first_turn
    \/ decode_character
    \/ decode_error
    \/ decoded
    \/ filled

Next == (\E n \in Lengths : update_buffer(n)) \/ SKIP \/ Reading

\* A call of the reader runs until it returns, and so does the read handler.
Spec == Init /\ [][Next]_vars /\ WF_vars(Reading)
-----------------------------------------------------------------------------
(* Properties.                                                             *)

Delivered == scanned \o buffer

\* What the reader says of octets that encode no allowed character.
DecodingProblems ==
    {"invalid leading UTF-8 octet", "incomplete UTF-8 octet sequence",
     "invalid trailing UTF-8 octet", "invalid length of a UTF-8 sequence",
     "invalid Unicode character", "incomplete UTF-16 character",
     "unexpected low surrogate area", "incomplete UTF-16 surrogate pair",
     "expected low surrogate area", "control characters are not allowed"}

\* The types of the reader's variables.
TypeOK ==
    /\ fed \in 0 .. Len(input.octets)
    /\ eof \in BOOLEAN /\ first \in BOOLEAN
    /\ encoding \in {ANY, UTF8, UTF16LE, UTF16BE}
    /\ raw_buffer \in Seq(0 .. 255) /\ raw_passed \in Nat
    /\ buffer \in Seq(0 .. 255) /\ passed \in Nat
    /\ unread \in Nat /\ offset \in Nat
    /\ error \in {"NONE", "input error", "input is too long"} \cup DecodingProblems
    /\ pc \in {"idle", "encoding", "fill", "decode"}
    /\ length \in Lengths \cup {0}

(* What the scanner has seen and what lies before it is the text of the    *)
(* input, in whatever pieces the read handler delivered it (a character    *)
(* may be cut anywhere): nothing is lost, repeated or decoded otherwise.   *)
(* The NUL comes once, after the whole text, and only if the input ends    *)
(* there.  Octets that encode no allowed character are refused where they  *)
(* are, and never earlier: the reader reports a decoding error only after  *)
(* all the text before them has been decoded, with `offset` at the first   *)
(* of them.                                                                *)
DeliversText ==
    /\ IsPrefix(Delivered, Append(input.text, 0))
    /\ Len(Delivered) > Len(input.text) => input.junk = <<>> /\ eof
    /\ error \in DecodingProblems =>
         /\ input.junk # <<>>
         /\ Delivered = input.text
         /\ offset = Len(input.octets) - Len(input.junk)

(* The variables keep their types, and neither buffer overflows: all that  *)
(* one raw buffer decodes to fits behind what the scanner has not read     *)
(* yet, with the NUL; and `unread`, which the scanner trusts, counts the   *)
(* characters that are there.                                              *)
BuffersFit ==
    /\ TypeOK
    /\ raw_passed + Len(raw_buffer) <= RawSize
    /\ passed + Len(buffer) <= BufferSize
    /\ unread = Cardinality({k \in 1 .. Len(buffer) : ~ IsTrailing(buffer[k])})

(* The limit on the size of the input is tested once a call, after         *)
(* decoding; it still bounds `offset`, which no call takes further beyond  *)
(* the limit than one raw buffer and one lookahead.                        *)
OffsetIsBounded ==
    \A n \in Lengths :
        (\A m \in Lengths : m <= n) => offset < MaxFileSize + RawSize + 4 * (n - 1) + 3

(* A call that succeeds leaves the lookahead it was asked for, or the NUL  *)
(* that ends every lookahead.                                              *)
LookaheadIsThere ==
    [][pc # "idle" /\ pc' = "idle" /\ error' = "NONE" =>
         unread' >= length \/ (buffer' # <<>> /\ Last(buffer') = 0)]_vars

(* Every call returns: the loop that waits for the rest of a character     *)
(* ends, because the raw buffer always has room for it.                    *)
CallsReturn == pc # "idle" ~> pc = "idle"
=============================================================================

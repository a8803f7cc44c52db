------------------------------- MODULE Writer -------------------------------
(***************************************************************************)
(* The output side of the emitter: the macros that put characters into the *)
(* output buffer (FLUSH, PUT, PUT_BREAK, WRITE and WRITE_BREAK of          *)
(* emitter.c) and yaml_emitter_flush (writer.c), which hands the buffer,   *)
(* recoded where the encoding is not UTF-8, to the write handler of the    *)
(* application.                                                            *)
(*                                                                         *)
(* `buffer` is what lies between the start and the pointer of the output   *)
(* buffer.  The handler takes all it is given or fails after taking a part *)
(* of it, as the string handler and fwrite do; a failure ends the          *)
(* behaviour, as the application has to give the emitter up.               *)
(***************************************************************************)
EXTENDS Encodings

CONSTANTS
    LineBreak,     \* octets of the line break: CR, LF or both
    BufferSize,    \* OUTPUT_BUFFER_SIZE
    RawSize,       \* OUTPUT_RAW_BUFFER_SIZE
    Indicators,    \* characters of one octet that the emitter puts
    Characters,    \* characters that it copies from strings unescaped
    Breaks,        \* line breaks that it copies from strings
    MaxPut         \* bound: characters put

(* What WRITE is given is IS_PRINTABLE, or letters of an anchor, a handle  *)
(* or a tag; and IS_PRINTABLE knows no leading octet of four.  A character *)
(* beyond U+FFFF makes its scalar double-quoted (analyze_scalar), and is   *)
(* escaped there as it is in a tag: no surrogate pair is ever written.     *)
ASSUME WriterAssumption ==
    /\ BufferSize \in Nat /\ BufferSize > 5
    /\ RawSize = 2 * BufferSize + 2
    /\ Indicators \subseteq 0 .. 127
    /\ \A c \in Characters \cup Breaks : IsScalarValue(c) /\ c < \h10000
    /\ LineBreak \in {<<13>>, <<10>>, <<13, 10>>}
    /\ MaxPut \in Nat

VARIABLES
    started,      \* the stream has been started
    encoding,     \* of the output, ANY until it is known
    buffer,
    written,      \* octets the write handler has taken
    error,        \* "NONE" or "WRITER"
    finished,     \* flushed at the end of the stream
    put           \* history: the characters put, in order

vars == <<started, encoding, buffer, written, error, finished, put>>

Init ==
    /\ started = FALSE
    /\ encoding \in {ANY, UTF8, UTF16LE, UTF16BE}    \* yaml_emitter_set_encoding
    /\ buffer = <<>> /\ written = <<>>
    /\ error = "NONE" /\ finished = FALSE
    /\ put = <<>>

-----------------------------------------------------------------------------
(* Recoding (yaml_emitter_flush).                                          *)

Width(octet) ==
    IF octet < \h80 THEN 1
    ELSE IF octet \in \hC0 .. \hDF THEN 2
    ELSE IF octet \in \hE0 .. \hEF THEN 3
    ELSE IF octet \in \hF0 .. \hF7 THEN 4
    ELSE 0

\* The value of the character whose octets start at place i.
ValueAt(octets, i) ==
    LET width == Width(octets[i])
        lead == IF width = 1 THEN octets[i] % \h80
                ELSE IF width = 2 THEN octets[i] % \h20
                ELSE IF width = 3 THEN octets[i] % \h10
                ELSE octets[i] % 8
        value[k \in 1 .. 4] ==
            IF k = 1 THEN lead ELSE value[k - 1] * \h40 + (octets[i + k - 1] % \h40)
    IN IF width = 0 THEN 0 ELSE value[width]

\* Two octets in the order of the encoding; each is stored in eight bits.
Pair(high, low) ==
    IF encoding = UTF16LE THEN <<low % 256, high % 256>> ELSE <<high % 256, low % 256>>

\* The pair of surrogates of the code, which nothing that is put needs.
Recode(value) ==
    IF value < \h10000
    THEN Pair(value \div \h100, value)
    ELSE LET rest == value - \h10000 IN
         Pair(\hD8 + rest \div \h40000, rest \div \h400)
         \o Pair(\hDC + ((rest \div \h100) % \h100), rest)

\* Places where a character starts: the loop moves from each to the next.
Starts(octets) == {i \in 1 .. Len(octets) : octets[i] \div \h40 # 2}

Recoded(octets) ==
    FlattenSeq([i \in 1 .. Len(octets) |->
        IF i \in Starts(octets) THEN Recode(ValueAt(octets, i)) ELSE <<>>])

ToWrite == IF encoding = UTF8 THEN buffer ELSE Recoded(buffer)

-----------------------------------------------------------------------------
(* Operations.                                                             *)

\* The write handler fails with the first n octets taken.
flush_fails(n) ==
    /\ n < Len(ToWrite)
    /\ written' = written \o SubSeq(ToWrite, 1, n)
    /\ error' = "WRITER"

HasRoom_one == Len(buffer) + 1 < BufferSize
HasRoom == Len(buffer) + 5 < BufferSize

\* FLUSH, then `octets` into the buffer.
AfterFlush(octets, chars) ==
    /\ started /\ ~ finished /\ error = "NONE"
    /\ Len(put) + Len(chars) <= MaxPut
    /\ \/ /\ HasRoom
          /\ buffer' = buffer \o octets
          /\ put' = put \o chars
          /\ UNCHANGED <<written, error>>
       \/ /\ ~ HasRoom
          /\ written' = written \o ToWrite
          /\ buffer' = octets
          /\ put' = put \o chars
          /\ UNCHANGED error
       \/ /\ ~ HasRoom
          /\ \E n \in 0 .. RawSize : flush_fails(n)
          /\ UNCHANGED <<buffer, put>>
    /\ UNCHANGED <<started, encoding, finished>>

PUT(c) == c \in Indicators /\ AfterFlush(<<c>>, <<c>>)

PUT_BREAK == AfterFlush(LineBreak, LineBreak)

\* The octets that COPY moves: as many as the leading one announces.
COPY(octets) == SubSeq(octets, 1, Width(octets[1]))

WRITE(c) == c \in Characters /\ AfterFlush(COPY(Utf8(c)), <<c>>)

WRITE_BREAK(c) ==
    /\ c \in Breaks
    /\ IF c = 10 THEN PUT_BREAK ELSE AfterFlush(COPY(Utf8(c)), <<c>>)

\* The encoding the application set, else the one of the event, else UTF-8.
OutputEncoding(e) == IF encoding # ANY THEN encoding ELSE IF e # ANY THEN e ELSE UTF8

\* A stream that is not UTF-8 starts with a mark.
StartMark(e) == IF e = UTF8 THEN <<>> ELSE <<\hEF, \hBB, \hBF>>

emit_stream_start(e) ==
    /\ ~ started
    /\ started' = TRUE
    /\ encoding' = OutputEncoding(e)
    /\ buffer' = StartMark(encoding')
    /\ UNCHANGED <<written, error, finished, put>>

\* A flush that leaves the buffer as it was.
flush_again(last) ==
    /\ started /\ ~ finished /\ error = "NONE"
    /\ written' = written \o ToWrite
    /\ finished' = last
    /\ UNCHANGED <<started, encoding, buffer, error, put>>

\* yaml_emitter_flush at the end of a document and at the end of the stream.
flush(last) ==
    /\ started /\ ~ finished /\ error = "NONE"
    /\ \/ /\ written' = written \o ToWrite
          /\ buffer' = <<>>
          /\ finished' = last
          /\ UNCHANGED error
       \/ /\ \E n \in 0 .. RawSize : flush_fails(n)
          /\ UNCHANGED <<buffer, finished>>
    /\ UNCHANGED <<started, encoding, put>>

Next ==
    \/ \E e \in {ANY, UTF8, UTF16LE, UTF16BE} : emit_stream_start(e)
    \/ \E c \in Indicators : PUT(c)
    \/ PUT_BREAK
    \/ \E c \in Characters : WRITE(c)
    \/ \E c \in Breaks : WRITE_BREAK(c)
    \/ \E last \in BOOLEAN : flush(last)

Spec == Init /\ [][Next]_vars

-----------------------------------------------------------------------------
(* Properties.                                                             *)

\* The types of the writer's variables.
TypeOK ==
    /\ started \in BOOLEAN /\ finished \in BOOLEAN
    /\ encoding \in {ANY, UTF8, UTF16LE, UTF16BE} /\ (started => encoding # ANY)
    /\ buffer \in Seq(0 .. 255)
    /\ written \in Seq(0 .. 255)
    /\ error \in {"NONE", "WRITER"}
    /\ \A k \in 1 .. Len(put) : IsScalarValue(put[k])

\* The stream in its encoding, as far as it has been put.
Stream ==
    (IF encoding \in {ANY, UTF8} \/ ~ started THEN <<>> ELSE Bom(encoding))
    \o Encoded(put, encoding)

(* What the write handler has taken is always the beginning of the stream, *)
(* correctly encoded, wherever the buffer happened to be full; and a       *)
(* stream that was finished without an error has been written whole.       *)
OutputIsTheStream ==
    /\ IsPrefix(written, Stream)
    /\ finished => written = Stream

(* The variables keep their types, and no octet is put beyond the output   *)
(* buffer: the five octets that FLUSH keeps free are enough for whatever   *)
(* is put between two FLUSHes; and the raw buffer holds whatever the       *)
(* output buffer is recoded to.                                            *)
BuffersFit ==
    /\ TypeOK
    /\ Len(buffer) <= BufferSize
    /\ encoding # UTF8 => Len(Recoded(buffer)) <= RawSize
=============================================================================

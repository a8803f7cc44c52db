--------------------------- MODULE ScalarRoundTrip --------------------------
(***************************************************************************)
(* The emitter and the scanner together: a scalar is written, followed by  *)
(* what the next event writes, and what was written is scanned.  Besides,  *)
(* the scanner reads quoted scalars of its own.                            *)
(***************************************************************************)
EXTENDS ScalarWriter, ScalarScanner, SequencesExt

CONSTANTS
    Bodies         \* what is between the quotes of the scalars that are only read

scalarVars == <<writerVars, scannerVars>>

NoContext == [level |-> 0, indent |-> -1]

\* The scanner meets what the emitter wrote.  A plain empty scalar leaves
\* nothing to be scanned.
hand_over ==
    /\ writing = "done" /\ scanning = "idle"
    /\ text # <<>> \/ style # "PLAIN"
    /\ input' = w.out
    /\ context' = [level |-> place.level, indent |-> place.indent]
    /\ p' = Fresh(place.column)
    /\ scanning' = "start"
    /\ UNCHANGED writerVars

\* Nothing is left to do: the text is read, refused, or was not there.
finished ==
    /\ scanning \in {"done", "error", "other"} \/ (writing = "done" /\ text = <<>> /\ style = "PLAIN")
    /\ UNCHANGED scalarVars

WriteFirst ==
    /\ WriterInit
    /\ input = <<>> /\ context = NoContext /\ scanning = "idle" /\ p = Fresh(0)

ReadOnly ==
    /\ \E body \in Bodies, quote \in {QUOTE, DQUOTE} :
          /\ text = body
          /\ input = <<quote>> \o body \o <<quote>>
    /\ context = NoContext /\ scanning = "start" /\ p = Fresh(0)
    /\ asked = "NONE" /\ place = [after |-> "none"] /\ style = "NONE"
    /\ writing = "off" /\ w = [out |-> <<>>]
    /\ at = 1 /\ spaces = FALSE /\ breaks = FALSE /\ leading_spaces = FALSE

ScalarInit == WriteFirst \/ ReadOnly

ScalarNext ==
    \/ WriterNext /\ UNCHANGED scannerVars
    \/ ScannerNext /\ UNCHANGED writerVars
    \/ hand_over
    \/ finished

-----------------------------------------------------------------------------

Written == writing # "off"

\* What follows the scalar: ":", ",", an entry, or the end of the stream.
NextCharacter ==
    LET NotBlank(ch) == ~IS_BLANK(ch) /\ ~IS_BREAK(ch)
    IN At(input, FirstPlace(input, p.pos, NotBlank))
Followed ==
    CASE place.after = "value" -> Here = COLON
      [] place.after = "item" -> Here = COMMA
      [] place.after = "entry" -> NextCharacter = 107
      [] place.after = "end" -> NextCharacter \in {NUL, DOT}

\* The scanner would not take what is on several lines for a simple key.
OnOneLine == place.simple => \A i \in DOMAIN w.out : ~IS_BREAK(w.out[i])

ReadBack ==
    /\ scanning \notin {"error", "other"}
    /\ OnOneLine
    /\ scanning = "done" => p.string = text /\ Followed

\* A line that starts with a space and has a space before a word further on.
LooseLine(t, i) ==
    /\ t[i] = SP /\ (i = 1 \/ IS_BREAK(t[i - 1]))
    /\ \E j \in (i + 1)..Len(t) : t[j] = SP /\ \A k \in i..j : ~IS_BREAK(t[k])

\* Whatever the text, the style asked for and the place, what is written is
\* scanned as the same text and ends where it was meant to end: the analysis
\* refuses every style that could not hold the text, spaces become breaks only
\* where they are read as spaces again, and breaks are doubled, hinted at and
\* indented as the scanner expects them; a simple key, with the quotes around
\* it, is on one line.  Left out are folded scalars with a
\* line that starts with a space and may be broken (see FoldedIsReadBack).
TextIsReadBack ==
    Written /\ ~(style = "FOLDED" /\ \E i \in DOMAIN text : LooseLine(text, i)) => ReadBack

\* What is written is read back, folded scalars with indented lines included,
\* as the tests of the emitter assert.
FoldedIsReadBack == Written => ReadBack

-----------------------------------------------------------------------------
(* A reference for line folding: each run of blanks and breaks in which    *)
(* there is a break is replaced as a whole, all other characters stay.     *)

White(t, i) == IS_BLANK(t[i]) \/ IS_BREAK(t[i])

\* The places of the run around a place.
Run(t, i) == {j \in DOMAIN t : \A k \in DOMAIN t : (i <= k /\ k <= j) \/ (j <= k /\ k <= i) => White(t, k)}

BreaksLine(t, i) == White(t, i) /\ \E j \in Run(t, i) : IS_BREAK(t[j])

\* The breaks of a run; the LF of CR LF does not count again.
BreaksOf(t, run) ==
    LET counts(j) == j \in run /\ IS_BREAK(t[j]) /\ ~(t[j] = LF /\ At(t, j - 1) = CR)
        places == SelectSeq([j \in DOMAIN t |-> j], counts)
    IN [k \in DOMAIN places |-> IF t[places[k]] \in {LS, PS} THEN t[places[k]] ELSE LF]

Folded(bs) == IF bs[1] # LF THEN bs ELSE IF Len(bs) = 1 THEN <<SP>> ELSE Tail(bs)

Piece(t, i) ==
    IF ~BreaksLine(t, i) THEN <<t[i]>>
    ELSE IF \E j \in Run(t, i) : j < i THEN <<>>
    ELSE Folded(BreaksOf(t, Run(t, i)))

LinesFolded(t) == FlattenSeq([i \in DOMAIN t |-> Piece(t, i)])

\* Whatever is between the quotes, blanks before and after a break are
\* dropped, a single LF is a space and of several the first is dropped, while
\* LS and PS stay; blanks between words stay.
LinesAreFolded == ~Written /\ scanning = "done" => p.string = LinesFolded(text)

=============================================================================

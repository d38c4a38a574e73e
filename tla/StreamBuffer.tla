---------------------------- MODULE StreamBuffer ----------------------------
(***************************************************************************)
(* session.StreamBuffer: the text of a reply is collected as the agent     *)
(* writes it and sent in segments, cut at a paragraph or a line where one  *)
(* is near, and held back where a block of code seems to be open.          *)
(*                                                                         *)
(* A text is a sequence of bytes, of which only what the code tells apart  *)
(* is kept: "nl" is a line break, "sp" other white space, "tick" a         *)
(* backquote, "lead" and "trail" are the two bytes of a wide character,    *)
(* and "x" is any other byte.  The marks mean something to the formatting  *)
(* of Delivery only.  The turns of the loop of Write are steps of their    *)
(* own; all of them hold the buffer's mutex.  MaxText bounds the model.    *)
(***************************************************************************)
EXTENDS Integers, Sequences, SequencesExt

CONSTANTS
    Threshold,  \* the threshold given to NewStreamBuffer
    Chunks,     \* the chunks that an agent may write; none is empty
    MaxText     \* bound: bytes in a reply

White == {"nl", "sp"}
Marks == {"*", "_", "#", "!", "[", "]", "(", ")"}
Bytes == {"x", "tick", "lead", "trail"} \cup White \cup Marks

ASSUME ThresholdAssumption == Threshold \in Int
ASSUME ChunksAssumption == Chunks \subseteq Seq(Bytes) \ {<< >>}
ASSUME MaxTextAssumption == MaxText \in Nat

VARIABLES
    phase,      \* "idle", "writing" while Write runs, "done" after Flush
    buf,
    total,      \* totalFlushed
    sent,       \* the segments given to flushFn
    written     \* all the text given to Write

vars == <<phase, buf, total, sent, written>>

threshold == IF Threshold <= 0 THEN 500 ELSE Threshold

\* strings.TrimSpace
TrimSpace(text) ==
    LET kept == {i \in 1 .. Len(text) : text[i] \notin White}
    IN  IF kept = {} THEN << >> ELSE SubSeq(text, Min(kept), Max(kept))

\* strings.Count(text, "```"): every third backquote of a run ends a fence.
Fences(text) ==
    LET others == {0} \cup {i \in 1 .. Len(text) : text[i] # "tick"}
        run(i) == i - Max({j \in others : j <= i})
    IN  Cardinality({i \in 1 .. Len(text) : run(i) > 0 /\ run(i) % 3 = 0})

HasOpenCodeBlock(text) == Fences(text) % 2 # 0

\* What is searched for an open block and for a place to cut.
Region(text) == SubSeq(text, 1, IF Len(text) < threshold THEN Len(text) ELSE threshold)

\* A break that begins at this place leaves enough to send before it.
FarEnough(place) == place - 1 > threshold \div 4

ParagraphCuts(region) ==
    {cut \in 2 .. Len(region) :
        region[cut - 1] = "nl" /\ region[cut] = "nl" /\ FarEnough(cut - 1)}

LineCuts(region) == {cut \in 1 .. Len(region) : region[cut] = "nl" /\ FarEnough(cut)}

\* Mutant: without a line break, everything is sent.
HardBreakAtEnd(text) == Len(text)

HardBreak(text) == Len(Region(text))

IsLastOf(cut, cuts) == cut \in cuts /\ \A other \in cuts : other <= cut

\* The segment ends with this byte: findSplitPoint.  It is never the empty one,
\* so that Write always finds a place to cut.
SplitsAt(text, cut) ==
    \/ IsLastOf(cut, ParagraphCuts(Region(text)))
    \/ ParagraphCuts(Region(text)) = {} /\ IsLastOf(cut, LineCuts(Region(text)))
    \/ /\ ParagraphCuts(Region(text)) = {} /\ LineCuts(Region(text)) = {}
       /\ cut = HardBreak(text)

Init ==
    /\ phase = "idle"
    /\ buf = << >> /\ total = << >> /\ sent = << >> /\ written = << >>

Write(chunk) ==
    /\ phase = "idle"
    /\ Len(written) + Len(chunk) <= MaxText
    /\ phase' = "writing"
    /\ buf' = buf \o chunk
    /\ written' = written \o chunk
    /\ UNCHANGED <<total, sent>>

Full(text) == Len(text) >= threshold

\* Mutant: the open block is looked for in all of the text.
HeldByWhole(text) == Full(text) /\ HasOpenCodeBlock(text)

\* The open block is looked for in the region only.
Held(text) == Full(text) /\ HasOpenCodeBlock(Region(text))

MustSend(text) == Full(text) /\ ~Held(text)

\* Mutant: the buffer is not reset before the remainder is written to it.
NotReset(text, cut) == text \o SubSeq(text, cut + 1, Len(text))

\* Mutant: the break that was cut at takes a byte with it.
RemainderPastBreak(text, cut) == SubSeq(text, cut + 2, Len(text))

Remainder(text, cut) == SubSeq(text, cut + 1, Len(text))

SendSegment ==
    /\ phase = "writing" /\ MustSend(buf)
    /\ \E cut \in 1 .. Len(buf) :
        /\ SplitsAt(buf, cut)
        /\ LET segment == TrimSpace(SubSeq(buf, 1, cut))
           IN  IF segment # << >>
               THEN /\ total' = total \o segment \o <<"nl">>
                    /\ sent' = Append(sent, segment)
               ELSE UNCHANGED <<total, sent>>
        /\ buf' = Remainder(buf, cut)
    /\ UNCHANGED <<phase, written>>

WriteReturns ==
    /\ phase = "writing" /\ ~MustSend(buf)
    /\ phase' = "idle"
    /\ UNCHANGED <<buf, total, sent, written>>

\* Mutant: the buffer is not reset.
BufKept == buf

BufAfterFlush == << >>

Flush ==
    /\ phase = "idle"
    /\ phase' = "done"
    /\ IF TrimSpace(buf) # << >>
       THEN /\ total' = total \o TrimSpace(buf)
            /\ sent' = Append(sent, TrimSpace(buf))
       ELSE UNCHANGED <<total, sent>>
    /\ buf' = BufAfterFlush
    /\ UNCHANGED written

AllText == TrimSpace(total)

\* Every message gets a buffer of its own.
NewBuffer ==
    /\ phase = "done"
    /\ phase' = "idle"
    /\ buf' = << >> /\ total' = << >> /\ sent' = << >> /\ written' = << >>

Next ==
    \/ \E chunk \in Chunks : Write(chunk)
    \/ SendSegment \/ WriteReturns \/ Flush \/ NewBuffer

Spec == Init /\ [][Next]_vars

-----------------------------------------------------------------------------
(* Properties. *)

\* Every variable stays in its type, and nothing is left behind by Flush.
TypeOK ==
    /\ phase \in {"idle", "writing", "done"}
    /\ buf \in Seq(Bytes) /\ total \in Seq(Bytes) /\ written \in Seq(Bytes)
    /\ sent \in Seq(Seq(Bytes) \ {<< >>})
    /\ phase = "done" => buf = << >>

\* What of a text is not white space.
VisiblePart(byte) == IF byte \in White THEN << >> ELSE <<byte>>
Visible(text) == FlattenSeq([i \in DOMAIN text |-> VisiblePart(text[i])])

\* White space apart, the segments and what is still in the buffer are the
\* text written, in order and once; and what AllText gives for the history is
\* what was sent.
NothingLost ==
    /\ Visible(FlattenSeq(sent) \o buf) = Visible(written)
    /\ Visible(AllText) = Visible(FlattenSeq(sent))

\* A segment sent while text arrives is never longer than the threshold: only
\* the last one, sent by Flush, may be.
SegmentsFit == phase # "done" => \A i \in DOMAIN sent : Len(sent[i]) <= threshold

\* Once text is held back for a block of code, nothing more is sent until
\* Flush, whether the block is closed or not: the region that is searched for
\* an open block stays the same.
HeldIsFinal ==
    [][Held(buf) => phase' = "done" \/ (Held(buf') /\ sent' = sent)]_vars

\* Write returns: every turn of its loop shortens the buffer.
TurnsShorten ==
    [][phase = "writing" /\ phase' = "writing" => Len(buf') < Len(buf)]_vars

\* "flushes at threshold characters": a segment is made of whole characters.
\* Violated: the threshold counts bytes, and the hard break cuts between any two.
WholeCharacters ==
    \A i \in DOMAIN sent : sent[i][1] # "trail" /\ sent[i][Len(sent[i])] # "lead"
=============================================================================

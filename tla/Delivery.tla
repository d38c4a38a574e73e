------------------------------ MODULE Delivery ------------------------------
(***************************************************************************)
(* What becomes of a segment of the stream buffer: Bridge.sendReply and    *)
(* ExtractLongCodeBlocks, FormatForWeChat and SplitText of                 *)
(* internal/adapter, composed with StreamBuffer.  Write and Flush call     *)
(* sendReply and wait for it; it makes messages and files of the segment   *)
(* and sends one after the other, whether the one before arrived or not.   *)
(*                                                                         *)
(* The texts are StreamBuffer's, and the regular expressions of the        *)
(* formatting are kept with all that they match.  A piece is a text or a   *)
(* file.  Of the placeholder "[...: code_1.py]" of a file there are its    *)
(* two brackets, its words and its underscore, which the formatting takes  *)
(* for marks of the text; "wide" is a whole wide character, and "bad"      *)
(* stands for half of one.                                                 *)
(***************************************************************************)
EXTENDS StreamBuffer

CONSTANTS
    LongBlock,   \* the lines a block of code may have in a message: 50
    MaxRunes,    \* the characters a message may have: 4000
    MaxFailures  \* bound: pieces of a reply that fail to arrive

ASSUME LimitsAssumption ==
    LongBlock \in Nat /\ MaxRunes \in Nat \ {0, 1} /\ MaxFailures \in Nat

VARIABLES
    pending,     \* the pieces sendReply has yet to send
    chat         \* those it has sent: [piece |-> _, arrived |-> _]

deliveryVars == <<pending, chat>>

DeliveryInit == Init /\ pending = << >> /\ chat = << >>

-----------------------------------------------------------------------------
(* The functions of the adapter. *)

Fence == <<"tick", "tick", "tick">>
Placeholder == <<"open", "file", "under", "close">>

FencesFrom(text, first) ==
    {i \in first .. Len(text) - 2 : SubSeq(text, i, i + 2) = Fence}
BreaksFrom(text, first) == {i \in first .. Len(text) : text[i] = "nl"}

IsLong(content) == Cardinality(BreaksFrom(content, 1)) + 1 > LongBlock

\* ExtractLongCodeBlocks: as long as the first block of the text is a long one,
\* a placeholder takes its place.  A block has a line break behind its opening
\* fence; the tag before it is left to name the file.
Replaced(e) ==
    LET opens   == FencesFrom(e.text, 1)
        open    == Min(opens)
        lines   == BreaksFrom(e.text, open + 3)
        line    == Min(lines)
        closes  == FencesFrom(e.text, line + 1)
        close   == Min(closes)
        content == SubSeq(e.text, line + 1, close - 1)
    IN  IF opens # {} /\ lines # {} /\ closes # {} /\ IsLong(content)
        THEN [text  |-> SubSeq(e.text, 1, open - 1) \o Placeholder
                          \o SubSeq(e.text, close + 3, Len(e.text)),
              files |-> Append(e.files, [tag |-> SubSeq(e.text, open + 3, line - 1),
                                         content |-> content])]
        ELSE e

\* Every block that goes shortens the text, so that these are turns enough.
Extract(text) ==
    LET extract[n \in 0 .. Len(text)] ==
            IF n = 0 THEN [text |-> text, files |-> << >>] ELSE Replaced(extract[n - 1])
    IN  extract[Len(text)]

\* The text without the characters at these places.
Strike(text, struck) ==
    FlattenSeq([i \in DOMAIN text |-> IF i \in struck THEN << >> ELSE <<text[i]>>])

\* ReplaceAllString: where the matches begin, each behind the end of the one
\* before it. End(i) is the end of a match that begins at i, or 0.
Matches(text, End(_)) ==
    LET Find(found, i) == IF End(i) # 0 /\ \A f \in found : End(f) < i
                          THEN found \cup {i} ELSE found
    IN  FoldLeft(Find, {}, [i \in DOMAIN text |-> i])

\* "[" at this place, "](" in the middle, and the next ")" behind an address.
Link(text, i) ==
    LET closing == {m \in i + 1 .. Len(text) - 1 : text[m] \in {"]", "close"}}
        middle  == Min(closing)
        ends    == {e \in middle + 2 .. Len(text) : text[e] = ")"}
    IN  IF /\ i <= Len(text) /\ text[i] \in {"[", "open"}
           /\ closing # {} /\ text[middle + 1] = "("
           /\ ends # {} /\ Min(ends) > middle + 2
        THEN [middle |-> middle, end |-> Min(ends)] ELSE [middle |-> 0, end |-> 0]

\* reImage: the "!" and the address go.
PictureMarks(text) ==
    LET End(i)    == IF text[i] = "!" THEN Link(text, i + 1).end ELSE 0
        Struck(i) == {i} \cup (Link(text, i + 1).middle + 1 .. End(i))
    IN  UNION {Struck(i) : i \in Matches(text, End)}

StripPictures(text) == Strike(text, PictureMarks(text))

\* reLink: the brackets go, and a space takes the place of the second.
Links(text) ==
    LET End(i) == IF Link(text, i).middle > i + 1 THEN Link(text, i).end ELSE 0
    IN  Matches(text, End)

LinkMiddles(text) == {Link(text, i).middle : i \in Links(text)}

StripLinks(text) ==
    Strike([i \in DOMAIN text |-> IF i \in LinkMiddles(text) THEN "sp" ELSE text[i]],
           Links(text))

\* reBoldItalic to reUnderItal: on a line, n marks and the next n behind at
\* least one character.
EmphasisMarks(text, marks, n) ==
    LET Marked(i) == \A j \in i .. i + n - 1 : j \in DOMAIN text /\ text[j] \in marks
        Closes(i) == {c \in i + n + 1 .. Len(text) :
                        Marked(c) /\ \A j \in i + n .. c - 1 : text[j] # "nl"}
        End(i)    == IF Marked(i) /\ Closes(i) # {} THEN Min(Closes(i)) + n - 1 ELSE 0
        Struck(i) == (i .. i + n - 1) \cup (End(i) - n + 1 .. End(i))
    IN  UNION {Struck(i) : i \in Matches(text, End)}

StripEmphasis(text, marks, n) == Strike(text, EmphasisMarks(text, marks, n))

\* reHeading: up to six hashes at the beginning of a line, and all white space,
\* line breaks included, that follows.
HeadingMarks(text) ==
    LET Heads(i, h) ==
            /\ i = 1 \/ text[i - 1] = "nl"
            /\ h - i < 6 /\ h < Len(text) /\ text[h + 1] \in White
            /\ \A j \in i .. h : text[j] = "#"
    IN  {p \in DOMAIN text : \E i \in 1 .. p : \E h \in i .. Len(text) :
            Heads(i, h) /\ \A j \in h + 1 .. p : text[j] \in White}

StripHeadings(text) == Strike(text, HeadingMarks(text))

StripStars(text) ==
    StripEmphasis(StripEmphasis(StripEmphasis(text, {"*"}, 3), {"*"}, 2), {"*"}, 1)
StripUnders(text) ==
    StripEmphasis(StripEmphasis(text, {"_", "under"}, 2), {"_", "under"}, 1)

StripMarkdown(text) ==
    StripHeadings(StripUnders(StripStars(StripLinks(StripPictures(text)))))

\* reBlankLines: no more than two line breaks follow one another.
ThirdBreak(text, i) ==
    i > 2 /\ text[i - 2] = "nl" /\ text[i - 1] = "nl" /\ text[i] = "nl"

CollapseBlankLines(text) == Strike(text, {i \in DOMAIN text : ThirdBreak(text, i)})

\* Mutant: blank lines are left as they are.
FormatTrimsOnly(text) == TrimSpace(StripMarkdown(text))

FormatForWeChat(text) == TrimSpace(CollapseBlankLines(StripMarkdown(text)))

\* A wide character has its two bytes at this place and the next.
WideAt(text, i) == i < Len(text) /\ text[i] = "lead" /\ text[i + 1] = "trail"
RunePart(text, i) ==
    IF WideAt(text, i) THEN <<"wide">>
    ELSE IF i > 1 /\ WideAt(text, i - 1) THEN << >>
    ELSE IF text[i] \in {"lead", "trail"} THEN <<"bad">> ELSE <<text[i]>>

\* []rune(text): a byte that is no character becomes U+FFFD.
Runes(text) == FlattenSeq([i \in DOMAIN text |-> RunePart(text, i)])

\* The length of the first message: to the last line break in it, but not to
\* one at its beginning.
BreakAt(runes) ==
    LET breaks == {i \in 2 .. MaxRunes : runes[i] = "nl"}
    IN  IF breaks = {} THEN MaxRunes ELSE Max(breaks) - 1

\* Mutant: the character at the cut is skipped, line break or not.
SkipOne(runes) == Tail(runes)

SkipBreak(runes) == IF Head(runes) = "nl" THEN Tail(runes) ELSE runes

\* One turn of SplitText's loop.
Chopped(s) ==
    IF Len(s.rest) > MaxRunes
    THEN [messages |-> Append(s.messages, SubSeq(s.rest, 1, BreakAt(s.rest))),
          rest |-> SkipBreak(SubSeq(s.rest, BreakAt(s.rest) + 1, Len(s.rest)))]
    ELSE s

\* Every message takes a character at least, so that these are turns enough.
SplitRunes(runes) ==
    LET split[n \in 0 .. Len(runes)] ==
            IF n = 0 THEN [messages |-> << >>, rest |-> runes] ELSE Chopped(split[n - 1])
        last == split[Len(runes)]
    IN  IF last.rest = << >> THEN last.messages ELSE Append(last.messages, last.rest)

SplitText(text) ==
    IF Len(Runes(text)) <= MaxRunes THEN <<text>> ELSE SplitRunes(Runes(text))

-----------------------------------------------------------------------------
(* sendReply. *)

TextPiece(text) == [kind |-> "text", text |-> text]
FilePiece(file) == [kind |-> "file", file |-> file]
Map(s, Op(_)) == [i \in DOMAIN s |-> Op(s[i])]

\* What sendReply makes of a text: the messages, then the files.
Pieces(text) ==
    LET extracted == Extract(text)
        formatted == FormatForWeChat(extracted.text)
        texts     == IF formatted = << >> THEN << >> ELSE SplitText(formatted)
    IN  Map(texts, TextPiece) \o Map(extracted.files, FilePiece)

\* Write or Flush gives a segment to sendReply, or has nothing to give.
GivesSegment(step) ==
    /\ pending = << >>
    /\ step
    /\ pending' = IF Len(sent') > Len(sent) THEN Pieces(Last(sent')) ELSE << >>
    /\ UNCHANGED chat

Failures == Cardinality({i \in DOMAIN chat : ~chat[i].arrived})

\* Mutant: the first error ends the reply.
RestAfterSuccess(arrived) == IF arrived THEN Tail(pending) ELSE << >>

\* Send or SendMedia: its error is logged.
RestAfter(arrived) == Tail(pending)

SendPiece ==
    /\ pending # << >>
    /\ \E arrived \in BOOLEAN :
        /\ arrived \/ Failures < MaxFailures
        /\ chat' = Append(chat, [piece |-> Head(pending), arrived |-> arrived])
        /\ pending' = RestAfter(arrived)
    /\ UNCHANGED vars

DeliveryNext ==
    \/ GivesSegment(SendSegment) \/ GivesSegment(Flush) \/ SendPiece
    \/ /\ pending = << >>
       /\ WriteReturns \/ \E chunk \in Chunks : Write(chunk)
       /\ UNCHANGED deliveryVars
    \/ NewBuffer /\ pending = << >> /\ chat' = << >> /\ UNCHANGED pending

DeliverySpec == DeliveryInit /\ [][DeliveryNext]_<<vars, deliveryVars>>

-----------------------------------------------------------------------------
(* Properties. *)

\* All pieces of the reply up to now, arrived or not, and yet to be sent.
AllPieces == Map(chat, LAMBDA c : c.piece) \o pending

\* The characters of the messages among some pieces, and the files.
TextOf(piece) == IF piece.kind = "text" THEN Runes(piece.text) ELSE << >>
FileOf(piece) == IF piece.kind = "file" THEN <<piece.file>> ELSE << >>
Texts(pieces) == FlattenSeq(Map(pieces, TextOf))
Files(pieces) == FlattenSeq(Map(pieces, FileOf))

Block(file) == Fence \o file.tag \o <<"nl">> \o file.content \o Fence

\* A reader puts the next file in the place of a placeholder.
ReadOn(r, rune) ==
    IF rune = "file" /\ r.files # << >>
    THEN [text |-> r.text \o Runes(Block(Head(r.files))), files |-> Tail(r.files)]
    ELSE IF rune \in ToSet(Placeholder) THEN r
    ELSE [text |-> Append(r.text, rune), files |-> r.files]

\* The text that such a reader has.
Rebuilt(e) == FoldLeft(ReadOn, [text |-> << >>, files |-> e.files], Runes(e.text)).text

LeftOf(segment) == Runes(StripMarkdown(Extract(segment).text))
FilesOf(segment) == Extract(segment).files

\* A reply arrives whole: with the extracted files in the places that their
\* placeholders name, the extracted text of a segment is the segment; white space
\* apart, the messages show what of these texts is left when the Markdown is
\* stripped, in order and once, and the files are all there, in order; and a
\* piece that fails keeps none that come after it from being sent.
ReplyRebuilt ==
    /\ \A i \in DOMAIN sent : Rebuilt(Extract(sent[i])) = Runes(sent[i])
    /\ Visible(Texts(AllPieces)) = Visible(FlattenSeq(Map(sent, LeftOf)))
    /\ Files(AllPieces) = FlattenSeq(Map(sent, FilesOf))

\* Every message is within the limit, and none is made of line breaks alone: no
\* more than two of them follow one another, and one of them goes at the cut.
\* (One of other white space alone there may be, where a line is all blank.)
MessagesFit ==
    \A i \in DOMAIN AllPieces : AllPieces[i].kind = "text" =>
        LET runes == Runes(AllPieces[i].text)
        IN  Len(runes) <= MaxRunes /\ \E r \in DOMAIN runes : runes[r] # "nl"
=============================================================================
